----------------------------- MODULE Hydration -----------------------------
(***************************************************************************)
(* Startup hydration (src/runtime/hydration.rs, src/adapters/              *)
(* epics_hydration.rs and acnet_hydration.rs) over the record keys that    *)
(* src/model/key.rs prints and parses.                                     *)
(*                                                                         *)
(* AlarmService hydrates from the last record of every key.  Here the      *)
(* topic is what it is in Kafka: a log of records with key texts, written  *)
(* by the service and by others, in which tombstones and compaction take   *)
(* records away while the service is up or down.                           *)
(*                                                                         *)
(* A text is the sequence of the pieces between its '#' characters.        *)
(***************************************************************************)
EXTENDS Naturals, SequencesExt

CONSTANTS
  None,            \* an absent key or status
  Tombstone,       \* an empty or null payload
  Malformed,       \* a payload that is not the JSON of a status
  trim_start,      \* [pieces of text -> the piece without white space before it]
  trim_end,        \* [pieces of text -> the piece without white space after it]
  to_uppercase,    \* [pieces of text -> the piece upper-cased]
  DeviceTexts,     \* what users and clients name in their requests
  RedisEntries,    \* device and source fields of Redis entries
  ForeignRecords,  \* records that other producers write to the topic
  Reports,         \* the sequences of statuses that AEOLUS may return
  MaxLog           \* records in the topic

Source == {"Unknown", "Analog", "Digital", "Epics"}

\* [pieces -> the piece trimmed and upper-cased].
trim_upper == [p \in DOMAIN to_uppercase |-> to_uppercase[trim_end[trim_start[p]]]]

\* Two wakes tell an older bypass from a newer one.
Status == [device : Seq(DOMAIN trim_upper), source : Source,
           state : {"Ok", "Alarmed", "Bypassed", "Unbypassed"}, wake : {0, 1}]

-----------------------------------------------------------------------------
(* Keys *)

SourceNamed == [s \in {"ANALOG", "DIGITAL", "EPICS"} |->
                  CASE s = "ANALOG" -> "Analog" [] s = "DIGITAL" -> "Digital"
                    [] OTHER -> "Epics"]

\* The i-th piece of a text that is trimmed and upper-cased as a whole: only the
\* first piece has the text's start, only the last its end.
trim_upper_piece(text, i) ==
  LET start == IF i = 1 THEN trim_start[text[i]] ELSE text[i]
  IN  to_uppercase[IF i = Len(text) THEN trim_end[start] ELSE start]

\* Key::from(&Status).
from(status) ==
  [device |-> [i \in DOMAIN status.device |-> trim_upper_piece(status.device, i)],
   source |-> status.source]

\* Mutant: takes an empty device name.
try_from_blank(text) ==
  IF Len(text) = 2 /\ trim_upper[text[2]] \in DOMAIN SourceNamed
    THEN [device |-> <<trim_upper[text[1]]>>, source |-> SourceNamed[trim_upper[text[2]]]]
    ELSE None

\* Mutant: matches the source as it is spelled.
try_from_exact(text) ==
  IF Len(text) = 2 /\ text[2] \in DOMAIN SourceNamed /\ trim_upper[text[1]] # ""
    THEN [device |-> <<trim_upper[text[1]]>>, source |-> SourceNamed[text[2]]]
    ELSE None

\* Key::try_from(&str), None for an error.  The text is split at its first
\* '#', and no source has another one in it.
try_from(text) ==
  IF /\ Len(text) = 2
     /\ trim_upper[text[2]] \in DOMAIN SourceNamed
     /\ trim_upper[text[1]] # ""
    THEN [device |-> <<trim_upper[text[1]]>>, source |-> SourceNamed[trim_upper[text[2]]]]
    ELSE None

\* The text that Display gives a key.
fmt(key) == key.device \o <<key.source>>

\* Keys of user actions, and of Redis entries, which are skipped only when the
\* device is empty before it is trimmed.
UserKeys == { try_from(text) : text \in DeviceTexts } \ {None}
RedisKeys == { from(entry) : entry \in { e \in RedisEntries : e.device # <<"">> } }
Keys == UserKeys \cup RedisKeys

-----------------------------------------------------------------------------
(* State *)

Payload == {Malformed, Tombstone} \cup Status
Record == [key : Seq(DOMAIN trim_upper) \cup {None}, payload : Payload]

\* The markers are no values.  Trimming or upper-casing again changes nothing, and
\* neither undoes the other; the name that a source is printed with is read as
\* that source, Unknown as none.
ASSUME TextAssumption ==
  /\ None \notin Status \cup Seq(DOMAIN trim_upper)
                      \cup [device : Seq(DOMAIN trim_upper), source : Source]
  /\ Tombstone \notin Status /\ Malformed \notin Status /\ Tombstone # Malformed
  /\ {trim_start, trim_end, to_uppercase} \subseteq [DOMAIN trim_upper -> DOMAIN trim_upper]
  /\ \A f, g \in {trim_start, trim_end, to_uppercase} :
       \A p \in DOMAIN trim_upper : f[f[p]] = f[p] /\ f[g[p]] = g[f[p]]
  /\ Source \subseteq DOMAIN trim_upper
  /\ \A p \in Source : IF p = "Unknown" THEN trim_upper[p] \notin DOMAIN SourceNamed
                       ELSE /\ trim_upper[p] \in DOMAIN SourceNamed
                            /\ SourceNamed[trim_upper[p]] = p

ASSUME InputAssumption ==
  /\ DeviceTexts \subseteq Seq(DOMAIN trim_upper)
  /\ RedisEntries \subseteq [device : Seq(DOMAIN trim_upper), source : Source]
  /\ ForeignRecords \subseteq Record
  /\ Reports \subseteq Seq(Status)
  /\ MaxLog \in Nat

VARIABLES
  log,        \* the records of the topic
  aeolus,     \* what AEOLUS reports
  startup,    \* "down", "up", or the error that ended the last start
  hydrated,   \* while up: the map the coordinator was started with
  written,    \* history: [Keys -> what the service wrote last, or None]
  foreign     \* history: the keys that records of others were about

vars == <<log, aeolus, startup, hydrated, written, foreign>>

Init ==
  /\ log = <<>>
  /\ aeolus \in Reports
  /\ startup = "down" /\ hydrated = <<>>
  /\ written = [key \in Keys |-> None] /\ foreign = {}

-----------------------------------------------------------------------------
(* Loading *)

remove(map, key) == [other \in DOMAIN map \ {key} |-> map[other]]
insert(map, key, status) ==
  [other \in DOMAIN map \cup {key} |-> IF other = key THEN status ELSE map[other]]

\* Both maps, the second where both have the key.
extend(map, other) ==
  [key \in DOMAIN map \cup DOMAIN other |->
     IF key \in DOMAIN other THEN other[key] ELSE map[key]]

\* Mutant: a record that cannot be read ends the bypass.
apply_record_drops(map, record) ==
  LET key == IF record.key = None THEN None ELSE try_from(record.key)
  IN  IF key = None \/ (key # None /\ key.source # "Epics") THEN map
      ELSE IF record.payload \in {Tombstone, Malformed} THEN remove(map, key)
      ELSE IF record.payload.source # "Epics" THEN map
      ELSE IF record.payload.state = "Bypassed" THEN insert(map, key, record.payload)
      ELSE remove(map, key)

\* Mutant: keeps the bypasses of every source.
apply_record_unfiltered(map, record) ==
  LET key == IF record.key = None THEN None ELSE try_from(record.key)
  IN  IF key = None THEN map
      ELSE IF record.payload = Tombstone THEN remove(map, key)
      ELSE IF record.payload = Malformed THEN map
      ELSE IF record.payload.state = "Bypassed" THEN insert(map, key, record.payload)
      ELSE remove(map, key)

\* One turn of the loop over the records.
apply_record(map, record) ==
  LET key == IF record.key = None THEN None ELSE try_from(record.key)
  IN  IF key = None \/ (key # None /\ key.source # "Epics") THEN map
      ELSE IF record.payload = Tombstone THEN remove(map, key)
      ELSE IF record.payload = Malformed THEN map
      ELSE IF record.payload.source # "Epics" THEN map
      ELSE IF record.payload.state = "Bypassed" THEN insert(map, key, record.payload)
      ELSE remove(map, key)

\* map[n]: the map after n records.
reduce_snapshot(records) ==
  LET map[n \in 0 .. Len(records)] ==
        IF n = 0 THEN <<>> ELSE apply_record(map[n - 1], records[n])
  IN  map[Len(records)]

\* Collected into a map: the last status of a key stays.
load_acnet_hydration(report) ==
  LET map[n \in 0 .. Len(report)] ==
        IF n = 0 THEN <<>> ELSE insert(map[n - 1], from(report[n]), report[n])
  IN  map[Len(report)]

\* Mutant: the later source wins.
merge_hydrated_statuses_overwrites(accumulated, incoming) ==
  [error |-> FALSE, statuses |-> extend(accumulated, incoming)]

\* error: a key in multiple sources.
merge_hydrated_statuses(accumulated, incoming) ==
  IF DOMAIN accumulated \cap DOMAIN incoming # {}
    THEN [error |-> TRUE, statuses |-> <<>>]
    ELSE [error |-> FALSE, statuses |-> extend(accumulated, incoming)]

\* The process is started.  A snapshot of either source that cannot be read, or
\* a key of both sources, ends it.
load_startup_hydration ==
  /\ startup # "up"
  /\ \/ /\ startup' = "ReadFailed"
        /\ hydrated' = <<>>
     \/ LET merged == merge_hydrated_statuses(load_acnet_hydration(aeolus),
                                              reduce_snapshot(log))
        IN  /\ startup' = IF merged.error THEN "KeyInMultipleSources" ELSE "up"
            /\ hydrated' = merged.statuses
  /\ UNCHANGED <<log, aeolus, written, foreign>>

Crash ==
  /\ startup = "up"
  /\ startup' = "down" /\ hydrated' = <<>>
  /\ UNCHANGED <<log, aeolus, written, foreign>>

-----------------------------------------------------------------------------
(* The topic *)

\* The statuses the service writes for a key.  Only a user action bypasses.
Writes(key) ==
  { [device |-> key.device, source |-> key.source, state |-> s.state, wake |-> s.wake] :
    s \in [state : {"Alarmed"}, wake : {0}]
       \cup IF key \in UserKeys
              THEN [state : {"Bypassed"}, wake : {0, 1}] \cup [state : {"Unbypassed"}, wake : {0}]
              ELSE {} }

alarm_to_message(key, status) == [key |-> fmt(key), payload |-> status]

\* A publish attempt reaches the topic.
Publish(key, status) ==
  /\ startup = "up" /\ Len(log) < MaxLog
  /\ log' = Append(log, alarm_to_message(key, status))
  /\ written' = [written EXCEPT ![key] = status]
  /\ UNCHANGED <<aeolus, startup, hydrated, foreign>>

\* Somebody else writes to the topic.
ForeignWrite(record) ==
  /\ Len(log) < MaxLog
  /\ log' = Append(log, record)
  /\ foreign' = foreign \cup
       (IF record.key = None THEN {} ELSE {try_from(record.key)} \ {None})
  /\ UNCHANGED <<aeolus, startup, hydrated, written>>

\* Kafka takes away a record that a later one with the same key text replaces,
\* or a tombstone that has nothing left to replace.
Compact(i) ==
  /\ i \in DOMAIN log /\ log[i].key # None
  /\ \/ \E j \in DOMAIN log : j > i /\ log[j].key = log[i].key
     \/ /\ log[i].payload = Tombstone
        /\ \A j \in 1 .. i - 1 : log[j].key # log[i].key
  /\ log' = RemoveAt(log, i)
  /\ UNCHANGED <<aeolus, startup, hydrated, written, foreign>>

\* AEOLUS's alarms change.
Report(report) ==
  /\ aeolus' = report
  /\ UNCHANGED <<log, startup, hydrated, written, foreign>>

Next ==
  \/ load_startup_hydration \/ Crash
  \/ \E key \in Keys : \E status \in Writes(key) : Publish(key, status)
  \/ \E record \in ForeignRecords : ForeignWrite(record)
  \/ \E i \in 1 .. MaxLog : Compact(i)
  \/ \E report \in Reports : Report(report)

Spec == Init /\ [][Next]_vars

-----------------------------------------------------------------------------
(* Properties *)

\* Hydrated keys are normalised names, and no blank device comes from the topic.
TypeOK ==
  /\ log \in Seq(Record) /\ Len(log) <= MaxLog
  /\ aeolus \in Reports
  /\ startup \in {"down", "up", "ReadFailed", "KeyInMultipleSources"}
  /\ \A key \in DOMAIN hydrated :
       hydrated[key] \in Status /\ from(key) = key
  /\ \A key \in DOMAIN reduce_snapshot(log) : key.device \in Seq(Range(trim_upper) \ {""})
  /\ DOMAIN written = Keys /\ \A key \in Keys : written[key] \in Status \cup {None}

\* The record says something about the EPICS key.
Effective(record, key) ==
  /\ record.key # None /\ try_from(record.key) = key
  /\ record.payload # Malformed
  /\ record.payload # Tombstone => record.payload.source = "Epics"

\* What reduce_snapshot finds for an EPICS key is the last record that can be
\* read and is about it, if that is a bypass, and nothing otherwise: unreadable
\* records, records of other sources and other spellings of the key do not
\* change which one that is.
LastReadableDecides ==
  \A key \in { try_from(log[i].key) : i \in { j \in DOMAIN log : log[j].key # None } } \ {None} :
    LET at   == IF key.source = "Epics" THEN { i \in DOMAIN log : Effective(log[i], key) } ELSE {}
        last == CHOOSE i \in at : \A j \in at : j <= i
        keep == at # {} /\ log[last].payload # Tombstone /\ log[last].payload.state = "Bypassed"
    IN  IF keep THEN /\ key \in DOMAIN reduce_snapshot(log)
                     /\ reduce_snapshot(log)[key] = log[last].payload
                ELSE key \notin DOMAIN reduce_snapshot(log)

\* Whenever the service may be started, the bypasses it finds are those it wrote
\* and did not end since: printing and parsing a key gives the key back,
\* compaction changes nothing, and no other key is taken for it.
OwnBypassReturns ==
  \A key \in Keys \ foreign :
    IF key.source = "Epics" /\ written[key] # None /\ written[key].state = "Bypassed"
      THEN key \in DOMAIN reduce_snapshot(log) /\ reduce_snapshot(log)[key] = written[key]
      ELSE key \notin DOMAIN reduce_snapshot(log)

\* The error that keeps the service down until somebody outside acts needs
\* AEOLUS to report an EPICS alarm: ACNET devices of the same name are no
\* reason for it.
ConflictNeedsEpicsReport ==
  [][ startup # startup' /\ startup' = "KeyInMultipleSources" =>
        \E i \in DOMAIN aeolus : aeolus[i].source = "Epics" ]_vars

\* No start chooses between two sources: each key comes up with the last status
\* AEOLUS has for it or with the topic's bypass, never with one that hides the
\* other.
NoSourceHidden ==
  [][ startup # "up" /\ startup' = "up" =>
        \A i \in DOMAIN aeolus :
          LET key == from(aeolus[i])
          IN  /\ key \notin DOMAIN reduce_snapshot(log)
              /\ (\A j \in DOMAIN aeolus : j > i => from(aeolus[j]) # key)
                   => hydrated'[key] = aeolus[i] ]_vars
=============================================================================
