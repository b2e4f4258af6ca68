--------------------------- MODULE AlarmRegister ---------------------------
(***************************************************************************)
(* What the alarm service promises to those who see it from outside, the   *)
(* consumers of the topic and the readers of snapshots, whatever jobs,     *)
(* effects, timers, retries and answers it takes to keep the promise:      *)
(*                                                                         *)
(*   - the topic changes only for a key the service has open work for;     *)
(*   - what snapshots are made of changes only to what the topic says at   *)
(*     that moment, and a key is closed only in such a step;               *)
(*   - a restart forgets all open work and finds the EPICS bypasses of the *)
(*     topic again.                                                        *)
(***************************************************************************)
CONSTANTS
  Keys,        \* alarm identities
  EpicsKeys,   \* those whose source is Epics
  Status,      \* alarm statuses, records with a field state
  None         \* no record, no entry

VARIABLES
  open,        \* keys with accepted intent that is not settled
  published,   \* [Keys -> last record of the topic, or None]
  visible,     \* [Keys -> confirmed status, or None]
  up           \* inputs are taken and outcomes reconciled

vars == <<open, published, visible, up>>

\* What a start makes visible, given the topic: ACNET alarms come from AEOLUS.
Restored(topic) ==
  { v \in [Keys -> Status \cup {None}] :
      \A k \in EpicsKeys :
        v[k] = IF topic[k] # None /\ topic[k].state = "Bypassed" THEN topic[k] ELSE None }

Init ==
  /\ open = {}
  /\ published = [k \in Keys |-> None]
  /\ visible \in Restored(published)
  /\ up = TRUE

\* An input or the end of a snooze opens the key.
Accept(k) ==
  /\ up
  /\ open' = open \cup {k}
  /\ UNCHANGED <<published, visible, up>>

\* A status reaches the topic, acknowledged or not.
Write(k) ==
  /\ k \in open
  /\ \E s \in Status : published' = [published EXCEPT ![k] = s]
  /\ UNCHANGED <<open, visible, up>>

\* The record is confirmed; the key stays open when newer intent waits.
Confirm(k) ==
  /\ up /\ k \in open
  /\ visible' = [visible EXCEPT ![k] = published[k]]
  /\ open' \in {open, open \ {k}}
  /\ UNCHANGED <<published, up>>

Stop ==
  /\ up' = FALSE
  /\ UNCHANGED <<open, published, visible>>

Restart ==
  /\ open' = {}
  /\ visible' \in Restored(published)
  /\ up' = TRUE
  /\ UNCHANGED published

Next ==
  \/ \E k \in Keys : Accept(k) \/ Write(k) \/ Confirm(k)
  \/ Stop \/ Restart

Spec == Init /\ [][Next]_vars
=============================================================================
