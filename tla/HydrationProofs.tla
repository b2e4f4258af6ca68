-------------------------- MODULE HydrationProofs --------------------------
(***************************************************************************)
(* Proofs about startup hydration, for every set of texts, records and     *)
(* reports and a topic of any length.                                      *)
(*                                                                         *)
(* The loaders are passes over a sequence, so what they compute is proved  *)
(* by induction over its length.  The induction rests on the least number  *)
(* principle, a fact about sets (Induction below), which the provers can   *)
(* instantiate where they cannot instantiate the one about operators.      *)
(***************************************************************************)
EXTENDS Hydration, WellFoundedInduction, SequenceTheorems, TLAPS

-----------------------------------------------------------------------------
(* Induction *)

\* A set of naturals that is not empty has a least element.
LEMMA LeastNumber ==
  ASSUME NEW T, T \subseteq Nat, T # {}
  PROVE  \E x \in T : \A y \in T : x <= y
<1> DEFINE R == OpToRel(<, Nat)
<1>1. IsWellFoundedOn(R, Nat)
  BY NatLessThanWellFounded
<1>2. R = { ss \in Nat \X Nat : ss[1] < ss[2] }
  BY DEF OpToRel, R
<1> HIDE DEF R
<1>3. PICK x \in T : \A y \in T : ~ (<<y, x>> \in R)
  BY <1>1, WFMin
<1>4. ASSUME NEW y \in T PROVE x <= y
  <2>1. x \in Nat /\ y \in Nat /\ <<y, x>> \notin R
    BY <1>3
  <2>2. ~ (y < x)
    BY <2>1, <1>2
  <2> QED BY <2>1, <2>2
<1> QED BY <1>4

\* A set that has 0 and with each natural the next has all of them.
LEMMA Induction ==
  ASSUME NEW S, 0 \in S, \A n \in Nat : n \in S => n + 1 \in S
  PROVE  Nat \subseteq S
<1> SUFFICES ASSUME Nat \ S # {} PROVE FALSE
  OBVIOUS
<1>1. PICK x \in Nat \ S : \A y \in Nat \ S : x <= y
  <2> Nat \ S \subseteq Nat OBVIOUS
  <2> QED BY LeastNumber
<1>2. x # 0 BY <1>1
<1>3. x - 1 \in Nat /\ x - 1 \in S BY <1>1, <1>2
<1>4. (x - 1) + 1 \in S BY <1>3
<1> QED BY <1>1, <1>4

-----------------------------------------------------------------------------
(* Keys *)

Text == Seq(DOMAIN trim_upper)
Key == [device : Text, source : Source]

\* The text names a device and a source.
Readable(text) ==
  /\ Len(text) = 2
  /\ trim_upper[text[2]] \in DOMAIN SourceNamed
  /\ trim_upper[text[1]] # ""

\* What is assumed of trimming and upper-casing, for one piece.
LEMMA PieceFacts ==
  ASSUME NEW p \in DOMAIN trim_upper
  PROVE  /\ trim_start[p] \in DOMAIN trim_upper /\ trim_start[trim_start[p]] = trim_start[p]
         /\ trim_end[p] \in DOMAIN trim_upper /\ trim_end[trim_end[p]] = trim_end[p]
         /\ to_uppercase[p] \in DOMAIN trim_upper
         /\ to_uppercase[to_uppercase[p]] = to_uppercase[p]
         /\ trim_start[trim_end[p]] = trim_end[trim_start[p]]
         /\ trim_start[to_uppercase[p]] = to_uppercase[trim_start[p]]
         /\ trim_end[to_uppercase[p]] = to_uppercase[trim_end[p]]
<1>1. ASSUME NEW f \in {trim_start, trim_end, to_uppercase}
      PROVE  f[p] \in DOMAIN trim_upper /\ f[f[p]] = f[p]
  BY TextAssumption
<1>2. ASSUME NEW f \in {trim_start, trim_end, to_uppercase},
             NEW g \in {trim_start, trim_end, to_uppercase}
      PROVE  f[g[p]] = g[f[p]]
  BY TextAssumption
<1> QED BY <1>1, <1>2

\* A piece that is trimmed and upper-cased is a piece, and doing so again changes
\* nothing.
LEMMA TrimUpper ==
  ASSUME NEW p \in DOMAIN trim_upper
  PROVE  /\ trim_upper[p] = to_uppercase[trim_end[trim_start[p]]]
         /\ trim_upper[p] \in DOMAIN trim_upper
         /\ trim_start[trim_upper[p]] = trim_upper[p] /\ trim_end[trim_upper[p]] = trim_upper[p]
         /\ to_uppercase[trim_upper[p]] = trim_upper[p]
         /\ trim_upper[trim_upper[p]] = trim_upper[p]
<1>1. \A x \in DOMAIN trim_upper : trim_upper[x] = to_uppercase[trim_end[trim_start[x]]]
  BY DEF trim_upper
<1>2. PICK start \in DOMAIN trim_upper : start = trim_start[p] /\ trim_start[start] = start
  BY PieceFacts
<1>3. PICK both \in DOMAIN trim_upper :
        both = trim_end[start] /\ trim_end[both] = both /\ trim_start[both] = both
  <2>1. /\ trim_end[start] \in DOMAIN trim_upper /\ trim_end[trim_end[start]] = trim_end[start]
        /\ trim_start[trim_end[start]] = trim_end[trim_start[start]]
    BY PieceFacts
  <2> QED BY <1>2, <2>1
<1>4. PICK upper \in DOMAIN trim_upper :
        /\ upper = to_uppercase[both] /\ to_uppercase[upper] = upper
        /\ trim_end[upper] = upper /\ trim_start[upper] = upper
  <2>1. /\ to_uppercase[both] \in DOMAIN trim_upper
        /\ to_uppercase[to_uppercase[both]] = to_uppercase[both]
        /\ trim_start[to_uppercase[both]] = to_uppercase[trim_start[both]]
        /\ trim_end[to_uppercase[both]] = to_uppercase[trim_end[both]]
    BY PieceFacts
  <2> QED BY <1>3, <2>1
<1> QED BY <1>1, <1>2, <1>3, <1>4

\* The same of a piece of a text that is trimmed and upper-cased as a whole.
LEMMA TrimUpperPiece ==
  ASSUME NEW text \in Seq(DOMAIN trim_upper), NEW i \in 1 .. Len(text)
  PROVE  /\ trim_upper_piece(text, i) \in DOMAIN trim_upper
         /\ i = 1 => trim_start[trim_upper_piece(text, i)] = trim_upper_piece(text, i)
         /\ i = Len(text) => trim_end[trim_upper_piece(text, i)] = trim_upper_piece(text, i)
         /\ to_uppercase[trim_upper_piece(text, i)] = trim_upper_piece(text, i)
<1>1. PICK p \in DOMAIN trim_upper : p = text[i]
  OBVIOUS
<1>2. PICK start \in DOMAIN trim_upper :
        start = (IF i = 1 THEN trim_start[p] ELSE p) /\ (i = 1 => trim_start[start] = start)
  BY PieceFacts
<1>3. PICK both \in DOMAIN trim_upper :
        /\ both = IF i = Len(text) THEN trim_end[start] ELSE start
        /\ i = 1 => trim_start[both] = both
        /\ i = Len(text) => trim_end[both] = both
  <2>1. /\ trim_end[start] \in DOMAIN trim_upper /\ trim_end[trim_end[start]] = trim_end[start]
        /\ trim_start[trim_end[start]] = trim_end[trim_start[start]]
    BY PieceFacts
  <2> QED BY <1>2, <2>1
<1>4. PICK upper \in DOMAIN trim_upper :
        /\ upper = to_uppercase[both] /\ to_uppercase[upper] = upper
        /\ i = 1 => trim_start[upper] = upper
        /\ i = Len(text) => trim_end[upper] = upper
  <2>1. /\ to_uppercase[both] \in DOMAIN trim_upper
        /\ to_uppercase[to_uppercase[both]] = to_uppercase[both]
        /\ trim_start[to_uppercase[both]] = to_uppercase[trim_start[both]]
        /\ trim_end[to_uppercase[both]] = to_uppercase[trim_end[both]]
    BY PieceFacts
  <2> QED BY <1>3, <2>1
<1>5. trim_upper_piece(text, i) = upper
  BY <1>1, <1>2, <1>3, <1>4 DEF trim_upper_piece
<1> QED BY <1>4, <1>5

\* A piece of a text is a piece.
LEMMA Piece ==
  ASSUME NEW text \in Text, NEW i \in 1 .. Len(text)
  PROVE  text[i] \in DOMAIN trim_upper
BY DEF Text

\* A readable text has two pieces.
LEMMA ReadablePieces ==
  ASSUME NEW text, Readable(text)
  PROVE  Len(text) = 2 /\ 1 \in 1 .. Len(text) /\ 2 \in 1 .. Len(text)
<1>1. Len(text) = 2
  BY Zenon DEF Readable
<1> QED BY <1>1

\* None is no key.
LEMMA NoneNoKey == None \notin Key
BY TextAssumption DEF Key, Text

\* What try_from returns for a readable text is a key with one normalised piece
\* that is not blank; it returns None for no other text.
LEMMA TryFrom ==
  ASSUME NEW text \in Text
  PROVE  IF Readable(text)
           THEN /\ try_from(text) \in Key /\ try_from(text) # None
                /\ try_from(text).device = <<trim_upper[text[1]]>>
                /\ try_from(text).source = SourceNamed[trim_upper[text[2]]]
           ELSE try_from(text) = None
<1>1. CASE Readable(text)
  <2>1. text[1] \in DOMAIN trim_upper
    <3>1. 1 \in 1 .. Len(text)
      BY <1>1, ReadablePieces
    <3> QED BY <3>1, Piece
  <2>2. trim_upper[text[1]] \in DOMAIN trim_upper
    BY <2>1, TrimUpper
  <2>3. <<trim_upper[text[1]]>> \in Text
    BY <2>2 DEF Text
  <2>4. SourceNamed[trim_upper[text[2]]] \in Source
    BY <1>1 DEF Readable, SourceNamed, Source
  <2>5. try_from(text) = [device |-> <<trim_upper[text[1]]>>,
                          source |-> SourceNamed[trim_upper[text[2]]]]
    BY <1>1 DEF Readable, try_from
  <2>6. try_from(text) \in Key
    BY <2>3, <2>4, <2>5 DEF Key
  <2> QED BY <1>1, <2>5, <2>6, NoneNoKey
<1>2. CASE ~Readable(text)
  BY <1>2 DEF Readable, try_from
<1> QED BY <1>1, <1>2

\* Making a key again changes nothing.
Normal(key) == from(key) = key

\* What from returns is a normalised key.
LEMMA FromType ==
  ASSUME NEW status, status.device \in Text, status.source \in Source
  PROVE  /\ from(status) \in Key /\ Normal(from(status))
         /\ from(status).source = status.source
<1>1. PICK text \in Seq(DOMAIN trim_upper) : text = status.device
  BY DEF Text
<1>2. PICK device : device = [i \in DOMAIN text |-> trim_upper_piece(text, i)]
  OBVIOUS
<1>3. from(status) = [device |-> device, source |-> status.source]
  BY <1>1, <1>2 DEF from
<1>4. PICK n \in Nat : n = Len(text) /\ DOMAIN text = 1 .. n
  OBVIOUS
<1>5. /\ device \in Seq(DOMAIN trim_upper) /\ Len(device) = n /\ DOMAIN device = 1 .. n
      /\ \A i \in 1 .. n : device[i] = trim_upper_piece(text, i)
  <2>1. \A i \in 1 .. n : trim_upper_piece(text, i) \in DOMAIN trim_upper
    BY <1>4, TrimUpperPiece
  <2> QED BY <1>2, <1>4, <2>1
<1>6. ASSUME NEW i \in 1 .. n PROVE trim_upper_piece(device, i) = device[i]
  <2>1. /\ i = 1 => trim_start[device[i]] = device[i]
        /\ i = Len(device) => trim_end[device[i]] = device[i]
        /\ to_uppercase[device[i]] = device[i]
    BY <1>4, <1>5, TrimUpperPiece
  <2> QED BY <2>1 DEF trim_upper_piece
<1>7. [i \in DOMAIN device |-> trim_upper_piece(device, i)] = device
  BY <1>5, <1>6
<1>8. PICK key : key = from(status) /\ key.device = device /\ key.source = status.source
  BY <1>3
<1>9. from(key) = [device |-> device, source |-> status.source]
  BY <1>7, <1>8 DEF from
<1>10. from(status) \in Key
  BY <1>3, <1>5 DEF Key, Text
<1> QED BY <1>3, <1>8, <1>9, <1>10 DEF Normal

\* Of one piece, trimming the whole is trimming the piece.
LEMMA NormalPiece ==
  ASSUME NEW key \in Key, Len(key.device) = 1
  PROVE  Normal(key) <=> trim_upper[key.device[1]] = key.device[1]
<1>1. PICK text \in Seq(DOMAIN trim_upper) : text = key.device /\ Len(text) = 1
  BY DEF Key, Text
<1>2. text[1] \in DOMAIN trim_upper /\ DOMAIN text = {1} /\ text = [i \in {1} |-> text[1]]
  BY <1>1
<1>3. trim_upper_piece(text, 1) = trim_upper[text[1]]
  BY <1>1, <1>2, TrimUpper DEF trim_upper_piece
<1>4. [i \in DOMAIN text |-> trim_upper_piece(text, i)] = [i \in {1} |-> trim_upper[text[1]]]
  BY <1>2, <1>3
<1>5. PICK device : device = [i \in {1} |-> trim_upper[text[1]]]
  OBVIOUS
<1>6. from(key) = [device |-> device, source |-> key.source]
  BY <1>1, <1>4, <1>5 DEF from
<1>7. key = [device |-> text, source |-> key.source]
  BY <1>1 DEF Key
<1>8. from(key) = key <=> device = text
  BY <1>6, <1>7
<1>9. device = text <=> trim_upper[text[1]] = text[1]
  BY <1>2, <1>5
<1> QED BY <1>1, <1>8, <1>9 DEF Normal

\* What try_from returns is a normalised key, too.
LEMMA TryFromNormal ==
  ASSUME NEW text \in Text, try_from(text) # None
  PROVE  try_from(text) \in Key /\ Normal(try_from(text))
<1>1. /\ Readable(text) /\ try_from(text) \in Key
      /\ try_from(text).device = <<trim_upper[text[1]]>>
  BY TryFrom
<1>2. text[1] \in DOMAIN trim_upper
  BY <1>1, ReadablePieces, Piece
<1>3. PICK p \in DOMAIN trim_upper : p = trim_upper[text[1]] /\ trim_upper[p] = p
  BY <1>2, TrimUpper
<1>4. Len(try_from(text).device) = 1 /\ try_from(text).device[1] = p
  BY <1>1, <1>3
<1> QED BY <1>1, <1>3, <1>4, NormalPiece

\* The keys that occur are normalised keys.
LEMMA KeysNormal ==
  ASSUME NEW key \in Keys
  PROVE  key \in Key /\ Normal(key)
<1>1. CASE key \in UserKeys
  <2>1. PICK text \in DeviceTexts : key = try_from(text) /\ key # None
    BY <1>1 DEF UserKeys
  <2>2. text \in Text
    BY InputAssumption DEF Text
  <2> QED BY <2>1, <2>2, TryFromNormal
<1>2. CASE key \in RedisKeys
  <2>1. PICK entry \in RedisEntries : key = from(entry)
    BY <1>2 DEF RedisKeys
  <2>2. entry.device \in Text /\ entry.source \in Source
    BY InputAssumption DEF Text
  <2> QED BY <2>1, <2>2, FromType
<1> QED BY <1>1, <1>2 DEF Keys

\* The keys that occur are keys.
LEMMA KeysType == Keys \subseteq Key
BY KeysNormal

\* The printed form of a key is a text.
LEMMA FmtType ==
  ASSUME NEW key \in Key
  PROVE  /\ fmt(key) \in Text
         /\ Len(fmt(key)) = Len(key.device) + 1
         /\ fmt(key)[Len(fmt(key))] = key.source
         /\ \A i \in 1 .. Len(key.device) : fmt(key)[i] = key.device[i]
<1>1. key.device \in Text /\ key.source \in DOMAIN trim_upper
  BY TextAssumption DEF Key
<1> QED BY <1>1 DEF fmt, Text

\* Printing and parsing a key gives it back, or the text is refused: no key is
\* taken for another.
LEMMA RoundTrip ==
  ASSUME NEW key \in Keys
  PROVE  try_from(fmt(key)) \in {key, None}
<1>1. key \in Key /\ Normal(key)
  BY KeysType, KeysNormal
<1>2. fmt(key) \in Text
  BY <1>1, FmtType
<1>3. CASE ~Readable(fmt(key))
  BY <1>2, <1>3, TryFrom
<1>4. CASE Readable(fmt(key))
  <2>1. Len(key.device) = 1 /\ fmt(key)[1] = key.device[1] /\ fmt(key)[2] = key.source
    <3>1. key.device \in Seq(DOMAIN trim_upper)
      BY <1>1 DEF Key, Text
    <3>2. Len(fmt(key)) = 2
      BY <1>4, ReadablePieces
    <3>3. Len(fmt(key)) = Len(key.device) + 1 /\ fmt(key)[Len(fmt(key))] = key.source
          /\ \A i \in 1 .. Len(key.device) : fmt(key)[i] = key.device[i]
      BY <1>1, FmtType
    <3>4. Len(key.device) \in Nat
      BY <3>1
    <3>5. Len(key.device) = 1
      <4>1. Len(key.device) + 1 = 2
        BY <3>2, <3>3, Zenon
      <4>2. PICK n \in Nat : n = Len(key.device)
        BY <3>4
      <4>3. n + 1 = 2
        BY <4>1, <4>2, Zenon
      <4>4. n = 1
        BY <4>3
      <4> QED BY <4>2, <4>4
    <3>6. fmt(key)[2] = key.source
      BY <3>2, <3>3
    <3> QED BY <3>3, <3>5, <3>6
  <2>2. key.device \in Seq(DOMAIN trim_upper) /\ key.source \in Source
    BY <1>1 DEF Key, Text
  <2>3. key.device = <<key.device[1]>> /\ 1 \in DOMAIN key.device
    BY <2>1, <2>2
  <2>4. trim_upper[key.device[1]] = key.device[1]
    BY <1>1, <2>1, NormalPiece
  <2>5. SourceNamed[trim_upper[key.source]] = key.source
    BY <1>4, <2>1, <2>2, TextAssumption DEF Readable
  <2>6. try_from(fmt(key)).device = key.device /\ try_from(fmt(key)).source = key.source
        /\ try_from(fmt(key)) \in Key
    BY <1>2, <1>4, <2>1, <2>3, <2>4, <2>5, TryFrom
  <2> QED BY <1>1, <2>6 DEF Key
<1> QED BY <1>3, <1>4

\* A key that a user can name is always read back.
LEMMA UserRoundTrip ==
  ASSUME NEW key \in UserKeys
  PROVE  try_from(fmt(key)) = key
<1>1. PICK text \in DeviceTexts : key = try_from(text) /\ key # None
  BY DEF UserKeys
<1>2. text \in Text
  BY InputAssumption DEF Text
<1>3. Readable(text) /\ key.device = <<trim_upper[text[1]]>>
      /\ key.source = SourceNamed[trim_upper[text[2]]]
  BY <1>1, <1>2, TryFrom
<1>4. key \in Keys /\ key \in Key /\ Normal(key)
  BY KeysType, KeysNormal DEF Keys
<1>5. Len(key.device) = 1 /\ key.device[1] = trim_upper[text[1]]
  BY <1>3
<1>6. fmt(key) \in Text /\ Len(fmt(key)) = 2 /\ fmt(key)[2] = key.source
      /\ fmt(key)[1] = key.device[1]
  <2>1. /\ fmt(key) \in Text /\ Len(fmt(key)) = Len(key.device) + 1
        /\ fmt(key)[Len(fmt(key))] = key.source
        /\ \A i \in 1 .. Len(key.device) : fmt(key)[i] = key.device[i]
    BY <1>4, FmtType
  <2> QED BY <1>5, <2>1
<1>7. key.source \in Source \ {"Unknown"}
  BY <1>3 DEF Readable, SourceNamed, Source
<1>8. trim_upper[key.source] \in DOMAIN SourceNamed
  BY <1>7, TextAssumption
<1>9. trim_upper[key.device[1]] # ""
  BY <1>3, <1>4, <1>5, NormalPiece DEF Readable
<1>10. Readable(fmt(key))
  BY <1>6, <1>8, <1>9 DEF Readable
<1> QED BY <1>4, <1>6, <1>10, RoundTrip, TryFrom

-----------------------------------------------------------------------------
(* Reducing the topic *)

\* Positions and keys of records.
LEMMA RecordsType ==
  ASSUME NEW records \in Seq(Record)
  PROVE  /\ Len(records) \in Nat /\ DOMAIN records = 1 .. Len(records)
         /\ \A i \in DOMAIN records : /\ records[i] \in Record
                                      /\ records[i].key # None => records[i].key \in Text
<1>1. Len(records) \in Nat /\ DOMAIN records = 1 .. Len(records)
  OBVIOUS
<1>2. \A i \in DOMAIN records : records[i] \in Record
  OBVIOUS
<1>3. \A r \in Record : r.key # None => r.key \in Text
  BY DEF Record, Text
<1> QED BY <1>1, <1>2, <1>3

\* map[n] is what the loop over records holds after n of them.
ReducePass(map, records, len) ==
  map = [n \in 0 .. len |->
           IF n = 0 THEN <<>> ELSE apply_record(map[n - 1], records[n])]

\* The recursive definition in reduce_snapshot defines a function.
LEMMA ReducePassExists ==
  ASSUME NEW records, NEW len \in Nat
  PROVE  \E map : ReducePass(map, records, len)
<1> DEFINE S == { n \in Nat : \E map : ReducePass(map, records, n) }
<1>1. 0 \in S
  <2>1. ReducePass([i \in 0 .. 0 |-> <<>>], records, 0)
    BY DEF ReducePass
  <2> QED BY <2>1
<1>2. ASSUME NEW n \in Nat, n \in S PROVE n + 1 \in S
  <2>1. PICK map : ReducePass(map, records, n)
    BY <1>2
  <2> DEFINE longer == [i \in 0 .. n + 1 |->
               IF i <= n THEN map[i] ELSE apply_record(map[n], records[n + 1])]
  <2>2. ReducePass(longer, records, n + 1)
    <3> DEFINE unfolded == [i \in 0 .. n + 1 |->
                 IF i = 0 THEN <<>> ELSE apply_record(longer[i - 1], records[i])]
    <3>1. \A i \in 0 .. n : map[i] = IF i = 0 THEN <<>> ELSE apply_record(map[i - 1], records[i])
      BY <2>1 DEF ReducePass
    <3>2. ASSUME NEW i \in 0 .. n + 1 PROVE longer[i] = unfolded[i]
      <4>1. CASE i = 0
        BY <3>1, <4>1
      <4>2. CASE i # 0 /\ i <= n
        <5>1. i - 1 \in 0 .. n /\ longer[i - 1] = map[i - 1] /\ longer[i] = map[i]
          BY <4>2
        <5> QED BY <3>1, <4>2, <5>1
      <4>3. CASE i = n + 1
        <5>1. i - 1 = n /\ longer[i - 1] = map[n] /\ i # 0
          BY <4>3
        <5>2. longer[i] = apply_record(map[n], records[n + 1])
          BY <4>3
        <5>3. unfolded[i] = apply_record(longer[i - 1], records[i])
          BY <5>1
        <5> QED BY <4>3, <5>1, <5>2, <5>3
      <4> QED BY <4>1, <4>2, <4>3
    <3>3. longer = unfolded
      BY <3>2
    <3> QED BY <3>3 DEF ReducePass
  <2> QED BY <2>2
<1>3. Nat \subseteq S
  <2> HIDE DEF S
  <2> QED BY <1>1, <1>2, Induction
<1> QED BY <1>3

\* reduce_snapshot is the last value of the pass.
LEMMA ReduceUnfolds ==
  ASSUME NEW records \in Seq(Record)
  PROVE  \E map : /\ ReducePass(map, records, Len(records))
                  /\ reduce_snapshot(records) = map[Len(records)]
<1> DEFINE map == CHOOSE m : ReducePass(m, records, Len(records))
<1>1. Len(records) \in Nat
  OBVIOUS
<1>2. ReducePass(map, records, Len(records))
  BY <1>1, ReducePassExists
<1>3. reduce_snapshot(records) = map[Len(records)]
  BY DEF reduce_snapshot, ReducePass
<1> QED BY <1>2, <1>3

\* The record leaves a bypass.
Keeps(record) == record.payload # Tombstone /\ record.payload.state = "Bypassed"

EpicsKey == { key \in Key : key.source = "Epics" }

\* One turn of the loop: a record that says something about an EPICS key decides
\* what the map has for it, and any other record leaves it alone.
LEMMA ApplyRecord ==
  ASSUME NEW map, NEW record \in Record, NEW key \in EpicsKey
  PROVE  /\ Effective(record, key) =>
              /\ key \in DOMAIN apply_record(map, record) <=> Keeps(record)
              /\ Keeps(record) => apply_record(map, record)[key] = record.payload
         /\ ~Effective(record, key) =>
              /\ key \in DOMAIN apply_record(map, record) <=> key \in DOMAIN map
              /\ key \in DOMAIN map => apply_record(map, record)[key] = map[key]
<1>b. PICK k : k = IF record.key = None THEN None ELSE try_from(record.key)
  OBVIOUS
<1>c. PICK status : status = record.payload
  OBVIOUS
<1>a. PICK applied : applied = apply_record(map, record)
  OBVIOUS
<1> DEFINE Goal == /\ Effective(record, key) =>
                        /\ key \in DOMAIN applied <=> Keeps(record)
                        /\ Keeps(record) => applied[key] = record.payload
                   /\ ~Effective(record, key) =>
                        /\ key \in DOMAIN applied <=> key \in DOMAIN map
                        /\ key \in DOMAIN map => applied[key] = map[key]
<1> SUFFICES Goal
  BY <1>a, Zenon
<1>1. key \in Key /\ key.source = "Epics" /\ key # None
  BY NoneNoKey DEF EpicsKey
<1>2. Effective(record, key) => k = key
  BY <1>b DEF Effective
<1>3. k = key => record.key # None
  BY <1>b, <1>1
<1>4. applied = IF k = None \/ (k # None /\ k.source # "Epics") THEN map
                ELSE IF record.payload = Tombstone THEN remove(map, k)
                ELSE IF record.payload = Malformed THEN map
                ELSE IF record.payload.source # "Epics" THEN map
                ELSE IF record.payload.state = "Bypassed" THEN insert(map, k, status)
                ELSE remove(map, k)
  BY <1>a, <1>b, <1>c DEF apply_record
<1>5. Effective(record, key) <=>
        /\ k = key /\ record.payload # Malformed
        /\ record.payload # Tombstone => record.payload.source = "Epics"
  BY <1>b, <1>2, <1>3 DEF Effective
<1>6. CASE Effective(record, key)
  <2>1. k = key /\ ~(k = None \/ (k # None /\ k.source # "Epics"))
    BY <1>1, <1>5, <1>6
  <2>2. CASE record.payload = Tombstone
    <3>1. applied = remove(map, key)
      BY <1>4, <2>1, <2>2
    <3>2. key \notin DOMAIN applied
      BY <3>1 DEF remove
    <3> QED BY <1>6, <2>2, <3>2 DEF Keeps
  <2>3. CASE record.payload # Tombstone /\ record.payload.state = "Bypassed"
    <3>1. applied = insert(map, key, status)
      BY <1>4, <1>5, <1>6, <2>1, <2>3
    <3>2. key \in DOMAIN applied /\ applied[key] = status
      BY <3>1 DEF insert
    <3> QED BY <1>c, <1>6, <2>3, <3>2 DEF Keeps
  <2>4. CASE record.payload # Tombstone /\ record.payload.state # "Bypassed"
    <3>1. applied = remove(map, key)
      BY <1>4, <1>5, <1>6, <2>1, <2>4
    <3>2. key \notin DOMAIN applied
      BY <3>1 DEF remove
    <3> QED BY <1>6, <2>4, <3>2 DEF Keeps
  <2> QED BY <2>2, <2>3, <2>4
<1>7. CASE ~Effective(record, key)
  <2>1. CASE applied = map
    BY <1>7, <2>1
  <2>2. CASE applied # map
    <3>1. k # key
      <4> SUFFICES ASSUME k = key PROVE FALSE
        OBVIOUS
      <4>1. ~(k = None \/ (k # None /\ k.source # "Epics"))
        BY <1>4, <2>2
      <4>2. record.payload = Malformed
              \/ (record.payload # Tombstone /\ record.payload.source # "Epics")
        BY <1>5, <1>7
      <4>3. record.payload # Tombstone
        BY <4>2, TextAssumption
      <4> QED BY <1>4, <2>2, <4>1, <4>2, <4>3
    <3>2. applied = remove(map, k) \/ applied = insert(map, k, status)
      BY <1>4, <2>2
    <3>3. CASE applied = remove(map, k)
      <4>1. key \in DOMAIN applied <=> key \in DOMAIN map
        BY <3>1, <3>3 DEF remove
      <4>2. key \in DOMAIN map => applied[key] = map[key]
        BY <3>1, <3>3 DEF remove
      <4> QED BY <1>7, <4>1, <4>2
    <3>4. CASE applied = insert(map, k, status)
      <4>1. key \in DOMAIN applied <=> key \in DOMAIN map
        BY <3>1, <3>4 DEF insert
      <4>2. key \in DOMAIN map => applied[key] = map[key]
        BY <3>1, <3>4 DEF insert
      <4> QED BY <1>7, <4>1, <4>2
    <3> QED BY <3>2, <3>3, <3>4
  <2> QED BY <2>1, <2>2
<1> QED BY <1>6, <1>7

\* The loop puts EPICS keys into the map and no other key.
LEMMA ApplyDomain ==
  ASSUME NEW map, NEW record \in Record, DOMAIN map \subseteq EpicsKey
  PROVE  DOMAIN apply_record(map, record) \subseteq EpicsKey
<1>a. PICK k : k = IF record.key = None THEN None ELSE try_from(record.key)
  OBVIOUS
<1>b. PICK status : status = record.payload
  OBVIOUS
<1>1. CASE k = None \/ (k # None /\ k.source # "Epics")
  BY <1>a, <1>1 DEF apply_record
<1>2. CASE ~(k = None \/ (k # None /\ k.source # "Epics"))
  <2>1. record.key # None /\ record.key \in Text
    BY <1>a, <1>2 DEF Record, Text
  <2>2. k \in Key
    <3>1. k = try_from(record.key) /\ k # None
      BY <1>a, <1>2, <2>1
    <3> QED BY <2>1, <3>1, TryFrom
  <2>3. k \in EpicsKey
    BY <1>2, <2>2 DEF EpicsKey
  <2>4. apply_record(map, record) \in {map, remove(map, k), insert(map, k, status)}
    BY <1>a, <1>b, <1>2 DEF apply_record
  <2>5. DOMAIN remove(map, k) \subseteq EpicsKey
    BY DEF remove
  <2>6. DOMAIN insert(map, k, status) \subseteq EpicsKey
    BY <2>3 DEF insert
  <2> QED BY <2>4, <2>5, <2>6
<1> QED BY <1>1, <1>2

\* Record i is the last of the first n that says something about the key.
Latest(records, n, key, i) ==
  /\ i \in 1 .. n /\ Effective(records[i], key)
  /\ \A j \in 1 .. n : Effective(records[j], key) => j <= i

\* The map has the EPICS keys whose last record leaves a bypass, with it.
Decided(records, n, map) ==
  /\ DOMAIN map \subseteq EpicsKey
  /\ \A key \in DOMAIN map : \E i \in 1 .. n :
       Latest(records, n, key, i) /\ Keeps(records[i]) /\ map[key] = records[i].payload
  /\ \A key \in EpicsKey : \A i \in 1 .. n :
       Latest(records, n, key, i) /\ Keeps(records[i]) => key \in DOMAIN map

\* One more record is the last for the keys it says something about; for the
\* others the last one stays.
LEMMA LatestNext ==
  ASSUME NEW records, NEW n \in Nat, NEW key, NEW i
  PROVE  IF Effective(records[n + 1], key)
           THEN Latest(records, n + 1, key, i) <=> i = n + 1
           ELSE Latest(records, n + 1, key, i) <=> Latest(records, n, key, i)
<1>1. CASE Effective(records[n + 1], key)
  <2>1. Latest(records, n + 1, key, n + 1)
    BY <1>1 DEF Latest
  <2>2. Latest(records, n + 1, key, i) => i = n + 1
    <3> HAVE Latest(records, n + 1, key, i)
    <3>1. i \in 1 .. n + 1 /\ n + 1 <= i
      BY <1>1 DEF Latest
    <3> QED BY <3>1
  <2> QED BY <1>1, <2>1, <2>2
<1>2. CASE ~Effective(records[n + 1], key)
  <2>1. Latest(records, n + 1, key, i) => Latest(records, n, key, i)
    <3> HAVE Latest(records, n + 1, key, i)
    <3>1. i \in 1 .. n + 1 /\ i # n + 1
      BY <1>2 DEF Latest
    <3>2. i \in 1 .. n
      BY <3>1
    <3> QED BY <3>2 DEF Latest
  <2>2. Latest(records, n, key, i) => Latest(records, n + 1, key, i)
    <3> HAVE Latest(records, n, key, i)
    <3>1. i \in 1 .. n + 1
      BY DEF Latest
    <3>2. ASSUME NEW j \in 1 .. n + 1, Effective(records[j], key) PROVE j <= i
      <4>1. j # n + 1
        BY <1>2, <3>2
      <4>2. j \in 1 .. n
        BY <4>1
      <4> QED BY <3>2, <4>2 DEF Latest
    <3> QED BY <3>1, <3>2 DEF Latest
  <2> QED BY <1>2, <2>1, <2>2
<1> QED BY <1>1, <1>2

\* One turn of the loop decides one more record.
LEMMA DecidedNext ==
  ASSUME NEW records, NEW n \in Nat, NEW map,
         records[n + 1] \in Record, Decided(records, n, map)
  PROVE  Decided(records, n + 1, apply_record(map, records[n + 1]))
<1>a. PICK record \in Record : record = records[n + 1]
  OBVIOUS
<1>b. PICK applied : applied = apply_record(map, record)
  OBVIOUS
<1>1. DOMAIN map \subseteq EpicsKey /\ DOMAIN applied \subseteq EpicsKey
  BY <1>b, ApplyDomain DEF Decided
<1>2. ASSUME NEW key \in EpicsKey
      PROVE  /\ Effective(record, key) =>
                  /\ key \in DOMAIN applied <=> Keeps(record)
                  /\ Keeps(record) => applied[key] = record.payload
             /\ ~Effective(record, key) =>
                  /\ key \in DOMAIN applied <=> key \in DOMAIN map
                  /\ key \in DOMAIN map => applied[key] = map[key]
  BY <1>b, ApplyRecord, Zenon
<1>3. ASSUME NEW key, NEW i
      PROVE  IF Effective(record, key)
               THEN Latest(records, n + 1, key, i) <=> i = n + 1
               ELSE Latest(records, n + 1, key, i) <=> Latest(records, n, key, i)
  BY <1>a, LatestNext, Zenon
<1>4. ASSUME NEW key \in DOMAIN applied
      PROVE  \E i \in 1 .. n + 1 : /\ Latest(records, n + 1, key, i) /\ Keeps(records[i])
                                   /\ applied[key] = records[i].payload
  <2>0. key \in EpicsKey
    BY <1>1
  <2>1. CASE Effective(record, key)
    <3>1. Latest(records, n + 1, key, n + 1) /\ n + 1 \in 1 .. n + 1
      BY <1>3, <2>1
    <3>2. Keeps(record) /\ applied[key] = record.payload
      BY <1>2, <2>0, <2>1
    <3> QED BY <1>a, <3>1, <3>2
  <2>2. CASE ~Effective(record, key)
    <3>1. key \in DOMAIN map /\ applied[key] = map[key]
      BY <1>2, <2>0, <2>2
    <3>2. PICK i \in 1 .. n : /\ Latest(records, n, key, i) /\ Keeps(records[i])
                              /\ map[key] = records[i].payload
      BY <3>1 DEF Decided
    <3>3. Latest(records, n + 1, key, i) /\ i \in 1 .. n + 1
      BY <1>3, <2>2, <3>2
    <3> QED BY <3>1, <3>2, <3>3
  <2> QED BY <2>1, <2>2
<1>5. ASSUME NEW key \in EpicsKey, NEW i \in 1 .. n + 1,
             Latest(records, n + 1, key, i), Keeps(records[i])
      PROVE  key \in DOMAIN applied
  <2>1. CASE Effective(record, key)
    <3>1. i = n + 1
      BY <1>3, <1>5, <2>1
    <3> QED BY <1>a, <1>2, <1>5, <2>1, <3>1
  <2>2. CASE ~Effective(record, key)
    <3>1. Latest(records, n, key, i)
      BY <1>3, <1>5, <2>2
    <3>2. i \in 1 .. n
      BY <3>1 DEF Latest
    <3>3. key \in DOMAIN map
      BY <1>5, <3>1, <3>2 DEF Decided
    <3> QED BY <1>2, <2>2, <3>3
  <2> QED BY <2>1, <2>2
<1>6. Decided(records, n + 1, applied)
  BY <1>1, <1>4, <1>5 DEF Decided
<1> QED BY <1>a, <1>b, <1>6

\* What reduce_snapshot computes, for a topic of any length.
LEMMA ReduceDecides ==
  ASSUME NEW records \in Seq(Record)
  PROVE  Decided(records, Len(records), reduce_snapshot(records))
<1>1. PICK map : /\ ReducePass(map, records, Len(records))
                 /\ reduce_snapshot(records) = map[Len(records)]
  BY ReduceUnfolds
<1>2. PICK len \in Nat : len = Len(records)
  OBVIOUS
<1>3. \A n \in 0 .. len : map[n] = IF n = 0 THEN <<>> ELSE apply_record(map[n - 1], records[n])
  BY <1>1, <1>2 DEF ReducePass
<1> DEFINE S == { n \in Nat : n <= len => Decided(records, n, map[n]) }
<1>4. 0 \in S
  <2>1. map[0] = <<>>
    BY <1>3
  <2>2. Decided(records, 0, <<>>)
    BY DEF Decided
  <2> QED BY <2>1, <2>2
<1>5. ASSUME NEW n \in Nat, n \in S PROVE n + 1 \in S
  <2> SUFFICES ASSUME n + 1 <= len PROVE Decided(records, n + 1, map[n + 1])
    OBVIOUS
  <2>1. Decided(records, n, map[n])
    BY <1>5
  <2>2. n + 1 \in 1 .. Len(records) /\ n + 1 \in 0 .. len
    BY <1>2
  <2>3. records[n + 1] \in Record
    BY <2>2
  <2>4. map[n + 1] = apply_record(map[(n + 1) - 1], records[n + 1])
    BY <1>3, <2>2
  <2>5. (n + 1) - 1 = n
    OBVIOUS
  <2>6. PICK before : before = map[n]
    OBVIOUS
  <2>7. Decided(records, n + 1, apply_record(before, records[n + 1]))
    BY <2>1, <2>3, <2>6, DecidedNext
  <2> QED BY <2>4, <2>5, <2>6, <2>7
<1>6. Nat \subseteq S
  <2> HIDE DEF S
  <2> QED BY <1>4, <1>5, Induction
<1>7. Decided(records, len, map[len])
  BY <1>6
<1> QED BY <1>1, <1>2, <1>7

-----------------------------------------------------------------------------
(* Collecting the report *)

\* map[n] is what the iterator has collected after n statuses.
LoadPass(map, report, len) ==
  map = [n \in 0 .. len |->
           IF n = 0 THEN <<>> ELSE insert(map[n - 1], from(report[n]), report[n])]

\* The recursive definition in load_acnet_hydration defines a function.
LEMMA LoadPassExists ==
  ASSUME NEW report, NEW len \in Nat
  PROVE  \E map : LoadPass(map, report, len)
<1> DEFINE S == { n \in Nat : \E map : LoadPass(map, report, n) }
<1>1. 0 \in S
  <2>1. LoadPass([i \in 0 .. 0 |-> <<>>], report, 0)
    BY DEF LoadPass
  <2> QED BY <2>1
<1>2. ASSUME NEW n \in Nat, n \in S PROVE n + 1 \in S
  <2>1. PICK map : LoadPass(map, report, n)
    BY <1>2
  <2> DEFINE longer == [i \in 0 .. n + 1 |->
               IF i <= n THEN map[i] ELSE insert(map[n], from(report[n + 1]), report[n + 1])]
  <2>2. LoadPass(longer, report, n + 1)
    <3> DEFINE unfolded == [i \in 0 .. n + 1 |->
                 IF i = 0 THEN <<>> ELSE insert(longer[i - 1], from(report[i]), report[i])]
    <3>1. \A i \in 0 .. n :
            map[i] = IF i = 0 THEN <<>> ELSE insert(map[i - 1], from(report[i]), report[i])
      BY <2>1 DEF LoadPass
    <3>2. ASSUME NEW i \in 0 .. n + 1 PROVE longer[i] = unfolded[i]
      <4>1. CASE i = 0
        BY <3>1, <4>1
      <4>2. CASE i # 0 /\ i <= n
        <5>1. i - 1 \in 0 .. n /\ longer[i - 1] = map[i - 1] /\ longer[i] = map[i]
          BY <4>2
        <5> QED BY <3>1, <4>2, <5>1
      <4>3. CASE i = n + 1
        <5>1. i - 1 = n /\ longer[i - 1] = map[n] /\ i # 0
          BY <4>3
        <5>2. longer[i] = insert(map[n], from(report[n + 1]), report[n + 1])
          BY <4>3
        <5>3. unfolded[i] = insert(longer[i - 1], from(report[i]), report[i])
          BY <5>1
        <5> QED BY <4>3, <5>1, <5>2, <5>3
      <4> QED BY <4>1, <4>2, <4>3
    <3>3. longer = unfolded
      BY <3>2
    <3> QED BY <3>3 DEF LoadPass
  <2> QED BY <2>2
<1>3. Nat \subseteq S
  <2> HIDE DEF S
  <2> QED BY <1>1, <1>2, Induction
<1> QED BY <1>3

\* load_acnet_hydration is the last value of the pass.
LEMMA LoadUnfolds ==
  ASSUME NEW report \in Seq(Status)
  PROVE  \E map : /\ LoadPass(map, report, Len(report))
                  /\ load_acnet_hydration(report) = map[Len(report)]
<1> DEFINE map == CHOOSE m : LoadPass(m, report, Len(report))
<1>1. Len(report) \in Nat
  OBVIOUS
<1>2. LoadPass(map, report, Len(report))
  BY <1>1, LoadPassExists
<1>3. load_acnet_hydration(report) = map[Len(report)]
  BY DEF load_acnet_hydration, LoadPass
<1> QED BY <1>2, <1>3

\* Status i is the last of the first n that has its key.
Newest(report, n, i) ==
  i \in 1 .. n /\ \A j \in 1 .. n : from(report[j]) = from(report[i]) => j <= i

\* The map has the keys of the report, each with its last status.
Collected(report, n, map) ==
  /\ \A key \in DOMAIN map : \E i \in 1 .. n :
       Newest(report, n, i) /\ from(report[i]) = key /\ map[key] = report[i]
  /\ \A i \in 1 .. n : from(report[i]) \in DOMAIN map

\* One more status is collected.
LEMMA CollectedNext ==
  ASSUME NEW report, NEW n \in Nat, NEW map, Collected(report, n, map)
  PROVE  Collected(report, n + 1, insert(map, from(report[n + 1]), report[n + 1]))
<1>a. PICK status : status = report[n + 1]
  OBVIOUS
<1>b. PICK new : new = from(status)
  OBVIOUS
<1>c. PICK more : more = insert(map, new, status)
  OBVIOUS
<1>1. DOMAIN more = DOMAIN map \cup {new}
  BY <1>c DEF insert
<1>2. more[new] = status
  BY <1>c DEF insert
<1>3. \A key \in DOMAIN map : key # new => more[key] = map[key]
  BY <1>c DEF insert
<1>4. ASSUME NEW key \in DOMAIN more
      PROVE  \E i \in 1 .. n + 1 :
               Newest(report, n + 1, i) /\ from(report[i]) = key /\ more[key] = report[i]
  <2>1. CASE key = new
    <3>1. Newest(report, n + 1, n + 1) /\ n + 1 \in 1 .. n + 1
      BY DEF Newest
    <3> QED BY <1>a, <1>b, <1>2, <2>1, <3>1
  <2>2. CASE key # new
    <3>1. key \in DOMAIN map /\ more[key] = map[key]
      BY <1>1, <1>3, <2>2
    <3>2. PICK i \in 1 .. n :
            Newest(report, n, i) /\ from(report[i]) = key /\ map[key] = report[i]
      BY <3>1 DEF Collected
    <3>3. ASSUME NEW j \in 1 .. n + 1, from(report[j]) = from(report[i]) PROVE j <= i
      <4>1. j # n + 1
        BY <1>a, <1>b, <2>2, <3>2, <3>3
      <4>2. j \in 1 .. n
        BY <4>1
      <4> QED BY <3>2, <3>3, <4>2 DEF Newest
    <3>4. Newest(report, n + 1, i) /\ i \in 1 .. n + 1
      BY <3>3 DEF Newest
    <3> QED BY <3>1, <3>2, <3>4
  <2> QED BY <2>1, <2>2
<1>5. ASSUME NEW i \in 1 .. n + 1 PROVE from(report[i]) \in DOMAIN more
  <2>1. CASE i = n + 1
    BY <1>a, <1>b, <1>1, <2>1
  <2>2. CASE i # n + 1
    <3>1. i \in 1 .. n
      BY <2>2
    <3> QED BY <1>1, <3>1 DEF Collected
  <2> QED BY <2>1, <2>2
<1>6. Collected(report, n + 1, more)
  BY <1>4, <1>5 DEF Collected
<1> QED BY <1>a, <1>b, <1>c, <1>6

\* What load_acnet_hydration computes, for a report of any length.
LEMMA LoadCollects ==
  ASSUME NEW report \in Seq(Status)
  PROVE  Collected(report, Len(report), load_acnet_hydration(report))
<1>1. PICK map : /\ LoadPass(map, report, Len(report))
                 /\ load_acnet_hydration(report) = map[Len(report)]
  BY LoadUnfolds
<1>2. PICK len \in Nat : len = Len(report)
  OBVIOUS
<1>3. \A n \in 0 .. len :
        map[n] = IF n = 0 THEN <<>> ELSE insert(map[n - 1], from(report[n]), report[n])
  BY <1>1, <1>2 DEF LoadPass
<1> DEFINE S == { n \in Nat : n <= len => Collected(report, n, map[n]) }
<1>4. 0 \in S
  <2>1. map[0] = <<>>
    BY <1>3
  <2>2. Collected(report, 0, <<>>)
    BY DEF Collected
  <2> QED BY <2>1, <2>2
<1>5. ASSUME NEW n \in Nat, n \in S PROVE n + 1 \in S
  <2> SUFFICES ASSUME n + 1 <= len PROVE Collected(report, n + 1, map[n + 1])
    OBVIOUS
  <2>1. Collected(report, n, map[n])
    BY <1>5
  <2>2. n + 1 \in 0 .. len
    OBVIOUS
  <2>3. map[n + 1] = insert(map[(n + 1) - 1], from(report[n + 1]), report[n + 1])
    BY <1>3, <2>2
  <2>4. (n + 1) - 1 = n
    OBVIOUS
  <2>5. PICK before : before = map[n]
    OBVIOUS
  <2>6. Collected(report, n + 1, insert(before, from(report[n + 1]), report[n + 1]))
    BY <2>1, <2>5, CollectedNext
  <2> QED BY <2>3, <2>4, <2>5, <2>6
<1>6. Nat \subseteq S
  <2> HIDE DEF S
  <2> QED BY <1>4, <1>5, Induction
<1>7. Collected(report, len, map[len])
  BY <1>6
<1> QED BY <1>1, <1>2, <1>7

-----------------------------------------------------------------------------
(* Types *)

\* A key that the topic is read for has one normalised piece, not blank.
LEMMA ReadType ==
  ASSUME NEW text \in Text, try_from(text) # None
  PROVE  try_from(text).device \in Seq(Range(trim_upper) \ {""})
<1>1. Readable(text) /\ try_from(text).device = <<trim_upper[text[1]]>>
  BY TryFrom
<1>2. text[1] \in DOMAIN trim_upper
  BY <1>1, ReadablePieces, Piece
<1>3. trim_upper[text[1]] \in Range(trim_upper) \ {""}
  BY <1>1, <1>2 DEF Range, Readable
<1>4. PICK names : names = Range(trim_upper) \ {""}
  OBVIOUS
<1>5. PICK name \in names : name = trim_upper[text[1]]
  BY <1>3, <1>4
<1>6. <<name>> \in Seq(names)
  OBVIOUS
<1> QED BY <1>1, <1>4, <1>5, <1>6

\* The keys and statuses that reduce_snapshot returns.
LEMMA ReduceType ==
  ASSUME NEW records \in Seq(Record), NEW key \in DOMAIN reduce_snapshot(records)
  PROVE  /\ key \in EpicsKey
         /\ Normal(key) /\ key.device \in Seq(Range(trim_upper) \ {""})
         /\ reduce_snapshot(records)[key] \in Status
         /\ \E i \in DOMAIN records : Effective(records[i], key)
<1>a. PICK map : map = reduce_snapshot(records)
  OBVIOUS
<1>b. Decided(records, Len(records), map) /\ key \in DOMAIN map
  BY <1>a, ReduceDecides
<1>1. PICK i \in 1 .. Len(records) :
        /\ Latest(records, Len(records), key, i) /\ Keeps(records[i])
        /\ map[key] = records[i].payload
  BY <1>b DEF Decided
<1>2. records[i] \in Record /\ i \in DOMAIN records
  BY <1>1
<1>3. Effective(records[i], key)
  BY <1>1 DEF Latest
<1>4. key \in EpicsKey
  BY <1>b DEF Decided
<1>5. records[i].key \in Text /\ try_from(records[i].key) = key /\ key # None
  BY <1>2, <1>3, <1>4, NoneNoKey DEF Effective, Record, Text, EpicsKey
<1>6. Normal(key) /\ key.device \in Seq(Range(trim_upper) \ {""})
  BY <1>5, ReadType, TryFromNormal
<1>7. records[i].payload \in Status
  BY <1>1, <1>2, <1>3 DEF Keeps, Effective, Record, Payload
<1> QED BY <1>a, <1>1, <1>2, <1>3, <1>4, <1>6, <1>7

\* The keys and statuses that load_acnet_hydration returns.
LEMMA LoadType ==
  ASSUME NEW report \in Seq(Status), NEW key \in DOMAIN load_acnet_hydration(report)
  PROVE  /\ Normal(key)
         /\ load_acnet_hydration(report)[key] \in Status
         /\ \E i \in DOMAIN report : key = from(report[i])
<1>a. PICK map : map = load_acnet_hydration(report)
  OBVIOUS
<1>b. Collected(report, Len(report), map) /\ key \in DOMAIN map
  BY <1>a, LoadCollects
<1>1. PICK i \in 1 .. Len(report) : from(report[i]) = key /\ map[key] = report[i]
  BY <1>b DEF Collected
<1>2. report[i] \in Status /\ i \in DOMAIN report
  BY <1>1
<1>3. Normal(key)
  BY <1>1, <1>2, FromType DEF Status, Text
<1> QED BY <1>a, <1>1, <1>2, <1>3

\* A sequence without its i-th element.
LEMMA RemoveAtFacts ==
  ASSUME NEW X, NEW s \in Seq(X), NEW i \in 1 .. Len(s)
  PROVE  /\ RemoveAt(s, i) \in Seq(X)
         /\ Len(RemoveAt(s, i)) = Len(s) - 1
         /\ \A j \in 1 .. Len(s) - 1 : RemoveAt(s, i)[j] = IF j < i THEN s[j] ELSE s[j + 1]
<1> DEFINE front == SubSeq(s, 1, i - 1)
<1> DEFINE back == SubSeq(s, i + 1, Len(s))
<1>1. front \in Seq(X) /\ Len(front) = i - 1 /\ \A j \in 1 .. i - 1 : front[j] = s[j]
  OBVIOUS
<1>2. back \in Seq(X) /\ Len(back) = Len(s) - i /\ \A j \in 1 .. Len(s) - i : back[j] = s[i + j]
  OBVIOUS
<1>3. RemoveAt(s, i) = front \o back
  BY DEF RemoveAt
<1> HIDE DEF front, back
<1>4. front \o back \in Seq(X)
  BY <1>1, <1>2
<1>5. Len(front \o back) = Len(s) - 1
  <2>1. Len(front \o back) = Len(front) + Len(back)
    BY <1>1, <1>2, ConcatProperties
  <2> QED BY <1>1, <1>2, <2>1
<1>6. ASSUME NEW j \in 1 .. Len(s) - 1
      PROVE  (front \o back)[j] = IF j < i THEN s[j] ELSE s[j + 1]
  <2>1. CASE j < i
    BY <1>1, <1>2, <2>1
  <2>2. CASE ~(j < i)
    <3>1. (front \o back)[j] = back[j - (i - 1)]
      BY <1>1, <1>2, <2>2
    <3>2. j - (i - 1) \in 1 .. Len(s) - i /\ i + (j - (i - 1)) = j + 1
      BY <2>2
    <3>3. back[j - (i - 1)] = s[i + (j - (i - 1))]
      BY <1>2, <3>2
    <3> QED BY <2>2, <3>1, <3>2, <3>3
  <2> QED BY <2>1, <2>2
<1> QED BY <1>3, <1>4, <1>5, <1>6

-----------------------------------------------------------------------------
(* The type invariant *)

\* TypeOK but for what follows from the type of the log.
TypeInv ==
  /\ log \in Seq(Record) /\ Len(log) <= MaxLog
  /\ aeolus \in Reports
  /\ startup \in {"down", "up", "ReadFailed", "KeyInMultipleSources"}
  /\ \A key \in DOMAIN hydrated :
       hydrated[key] \in Status /\ Normal(key)
  /\ DOMAIN written = Keys /\ \A key \in Keys : written[key] \in Status \cup {None}

\* The records the service writes are records.
LEMMA WriteType ==
  ASSUME NEW key \in Keys, NEW status \in Writes(key)
  PROVE  /\ status \in Status /\ status.source = key.source
         /\ alarm_to_message(key, status) \in Record
         /\ alarm_to_message(key, status).key = fmt(key)
         /\ alarm_to_message(key, status).payload = status
<1>1. key.device \in Text /\ key.source \in Source
  BY KeysType DEF Key
<1>2. PICK s \in [state : {"Alarmed", "Bypassed", "Unbypassed"}, wake : {0, 1}] :
        status = [device |-> key.device, source |-> key.source,
                  state |-> s.state, wake |-> s.wake]
  BY DEF Writes
<1>3. status \in Status /\ status.source = key.source
  BY <1>1, <1>2 DEF Status, Text
<1>4. fmt(key) \in Text
  BY KeysType, FmtType
<1> QED BY <1>3, <1>4 DEF alarm_to_message, Record, Payload, Text

\* The map the coordinator is started with.
LEMMA MergeType ==
  ASSUME NEW report \in Seq(Status), NEW records \in Seq(Record),
         NEW merged, merged = merge_hydrated_statuses(load_acnet_hydration(report),
                                                      reduce_snapshot(records))
  PROVE  \A key \in DOMAIN merged.statuses :
           /\ merged.statuses[key] \in Status
           /\ Normal(key)
<1>a. PICK acnet : acnet = load_acnet_hydration(report)
  OBVIOUS
<1>b. PICK epics : epics = reduce_snapshot(records)
  OBVIOUS
<1>1. \A key \in DOMAIN acnet : acnet[key] \in Status /\ Normal(key)
  BY <1>a, LoadType
<1>2. \A key \in DOMAIN epics : epics[key] \in Status /\ Normal(key)
  BY <1>b, ReduceType
<1>3. CASE merged.statuses = <<>>
  BY <1>3
<1>4. CASE merged.statuses = extend(acnet, epics)
  BY <1>1, <1>2, <1>4 DEF extend
<1>5. merged.statuses = <<>> \/ merged.statuses = extend(acnet, epics)
  BY <1>a, <1>b DEF merge_hydrated_statuses
<1> QED BY <1>3, <1>4, <1>5

\* The initial state has its type.
LEMMA TypeInit == Init => TypeInv
<1> SUFFICES ASSUME Init PROVE TypeInv
  OBVIOUS
<1>1. written = [key \in Keys |-> None]
  BY DEF Init
<1>2. DOMAIN written = Keys /\ \A key \in Keys : written[key] \in Status \cup {None}
  BY <1>1
<1>3. log \in Seq(Record) /\ Len(log) <= MaxLog
  BY InputAssumption DEF Init
<1>4. DOMAIN hydrated = {}
  BY DEF Init
<1> QED BY <1>2, <1>3, <1>4 DEF Init, TypeInv

\* Every step keeps the types.
LEMMA TypeStep == TypeInv /\ [Next]_vars => TypeInv'
<1> SUFFICES ASSUME TypeInv, [Next]_vars PROVE TypeInv'
  OBVIOUS
<1>1. CASE load_startup_hydration
  <2>1. log' = log /\ aeolus' = aeolus /\ written' = written
    BY <1>1 DEF load_startup_hydration
  <2>2. aeolus \in Seq(Status) /\ log \in Seq(Record)
    BY InputAssumption DEF TypeInv
  <2>3. CASE startup' = "ReadFailed" /\ hydrated' = <<>>
    <3>1. DOMAIN hydrated' = {}
      BY <2>3
    <3> QED BY <2>1, <2>3, <3>1 DEF TypeInv
  <2>4. CASE ~(startup' = "ReadFailed" /\ hydrated' = <<>>)
    <3>1. PICK merged : merged = merge_hydrated_statuses(load_acnet_hydration(aeolus),
                                                         reduce_snapshot(log))
      OBVIOUS
    <3>2. /\ startup' = IF merged.error THEN "KeyInMultipleSources" ELSE "up"
          /\ hydrated' = merged.statuses
      BY <1>1, <2>4, <3>1 DEF load_startup_hydration
    <3>3. \A key \in DOMAIN hydrated' :
            hydrated'[key] \in Status /\ Normal(key)
      BY <2>2, <3>1, <3>2, MergeType
    <3> QED BY <2>1, <3>2, <3>3 DEF TypeInv
  <2> QED BY <2>3, <2>4
<1>2. CASE Crash
  <2>1. DOMAIN hydrated' = {}
    BY <1>2 DEF Crash
  <2> QED BY <1>2, <2>1 DEF Crash, TypeInv
<1>3. ASSUME NEW key \in Keys, NEW status \in Writes(key), Publish(key, status)
      PROVE  TypeInv'
  <2>1. status \in Status /\ alarm_to_message(key, status) \in Record
    BY WriteType
  <2>2. PICK record \in Record : record = alarm_to_message(key, status)
    BY <2>1
  <2>3. log' = Append(log, record) /\ Len(log) < MaxLog
    BY <1>3, <2>2 DEF Publish
  <2>4. log' \in Seq(Record) /\ Len(log') <= MaxLog
    BY <2>3, InputAssumption DEF TypeInv
  <2>5. DOMAIN written' = Keys /\ \A k \in Keys : written'[k] \in Status \cup {None}
    BY <1>3, <2>1 DEF Publish, TypeInv
  <2> QED BY <1>3, <2>4, <2>5 DEF Publish, TypeInv
<1>4. ASSUME NEW record \in ForeignRecords, ForeignWrite(record) PROVE TypeInv'
  <2>1. record \in Record
    BY InputAssumption
  <2>2. log' \in Seq(Record) /\ Len(log') <= MaxLog
    BY <1>4, <2>1, InputAssumption DEF ForeignWrite, TypeInv
  <2> QED BY <1>4, <2>2 DEF ForeignWrite, TypeInv
<1>5. ASSUME NEW i \in 1 .. MaxLog, Compact(i) PROVE TypeInv'
  <2>1. log \in Seq(Record) /\ i \in 1 .. Len(log) /\ Len(log) <= MaxLog
    BY <1>5 DEF Compact, TypeInv
  <2>2. log' = RemoveAt(log, i)
    BY <1>5 DEF Compact
  <2>3. log' \in Seq(Record) /\ Len(log') = Len(log) - 1
    BY <2>1, <2>2, RemoveAtFacts
  <2>4. Len(log') <= MaxLog
    BY <2>1, <2>3, InputAssumption
  <2> QED BY <1>5, <2>3, <2>4 DEF Compact, TypeInv
<1>6. ASSUME NEW report \in Reports, Report(report) PROVE TypeInv'
  BY <1>6 DEF Report, TypeInv
<1>7. CASE UNCHANGED vars
  BY <1>7 DEF vars, TypeInv
<1> QED BY <1>1, <1>2, <1>3, <1>4, <1>5, <1>6, <1>7 DEF Next

\* The rest of TypeOK.
LEMMA TypeFollows == TypeInv => TypeOK
<1> SUFFICES ASSUME TypeInv PROVE TypeOK
  OBVIOUS
<1>1. log \in Seq(Record)
  BY DEF TypeInv
<1>2. \A key \in DOMAIN reduce_snapshot(log) : key.device \in Seq(Range(trim_upper) \ {""})
  BY <1>1, ReduceType
<1> QED BY <1>2 DEF TypeInv, TypeOK, Normal

\* Hydration keeps its types: whatever is in the topic and in the report, every
\* key the coordinator is started with has a normalised name, and no key of the
\* topic a blank one.
THEOREM HydrationType == Spec => []TypeOK
<1>1. Spec => []TypeInv
  BY TypeInit, TypeStep, PTL DEF Spec
<1> QED BY <1>1, TypeFollows, PTL

-----------------------------------------------------------------------------
(* What the topic decides *)

\* What the reduction finds is decided by the last readable record of the key,
\* whatever else the topic has: for a topic of any length.
LEMMA LastReadableFollows == TypeInv => LastReadableDecides
<1> SUFFICES ASSUME TypeInv,
                    NEW key \in { try_from(log[i].key) :
                                  i \in { j \in DOMAIN log : log[j].key # None } } \ {None}
             PROVE  LET at   == IF key.source = "Epics"
                                  THEN { i \in DOMAIN log : Effective(log[i], key) } ELSE {}
                        last == CHOOSE i \in at : \A j \in at : j <= i
                        keep == /\ at # {} /\ log[last].payload # Tombstone
                                /\ log[last].payload.state = "Bypassed"
                    IN  IF keep THEN /\ key \in DOMAIN reduce_snapshot(log)
                                     /\ reduce_snapshot(log)[key] = log[last].payload
                                ELSE key \notin DOMAIN reduce_snapshot(log)
  BY DEF LastReadableDecides
<1> DEFINE at == IF key.source = "Epics"
                   THEN { i \in DOMAIN log : Effective(log[i], key) } ELSE {}
<1> DEFINE last == CHOOSE i \in at : \A j \in at : j <= i
<1> DEFINE keep == /\ at # {} /\ log[last].payload # Tombstone
                   /\ log[last].payload.state = "Bypassed"
<1>a. PICK map : map = reduce_snapshot(log)
  OBVIOUS
<1> SUFFICES IF keep THEN key \in DOMAIN map /\ map[key] = log[last].payload
                     ELSE key \notin DOMAIN map
  BY <1>a
<1>1. log \in Seq(Record) /\ DOMAIN log = 1 .. Len(log) /\ Len(log) \in Nat
  BY RecordsType DEF TypeInv
<1>2. Decided(log, Len(log), map)
  BY <1>a, <1>1, ReduceDecides
<1>3. key \in Key
  <2>1. PICK i \in DOMAIN log : log[i].key # None /\ key = try_from(log[i].key) /\ key # None
    OBVIOUS
  <2>2. log[i].key \in Text
    BY <1>1, <2>1, RecordsType
  <2> QED BY <2>1, <2>2, TryFrom
<1>4. CASE key.source # "Epics"
  <2>1. key \notin EpicsKey
    BY <1>4 DEF EpicsKey
  <2>2. key \notin DOMAIN map
    BY <1>2, <2>1 DEF Decided
  <2> QED BY <1>4, <2>2
<1>5. CASE key.source = "Epics"
  <2>1. key \in EpicsKey
    BY <1>3, <1>5 DEF EpicsKey
  <2>2. \A i : i \in at <=> i \in 1 .. Len(log) /\ Effective(log[i], key)
    <3>1. at = { i \in DOMAIN log : Effective(log[i], key) }
      BY <1>5
    <3> QED BY <1>1, <3>1
  <2> HIDE DEF at
  <2>3. ASSUME NEW i, Latest(log, Len(log), key, i)
        PROVE  i \in at /\ last = i
    <3>1. i \in at /\ \A j \in at : j <= i
      BY <2>2, <2>3 DEF Latest
    <3>2. last \in at /\ \A j \in at : j <= last
      BY <3>1
    <3>3. last <= i /\ i <= last /\ last \in Nat /\ i \in Nat
      BY <2>2, <3>1, <3>2
    <3> QED BY <3>1, <3>3
  <2>4. CASE keep
    <3>1. \E i : Latest(log, Len(log), key, i)
      <4>1. PICK len \in Nat : len = Len(log)
        BY <1>1
      <4>2. at \subseteq 1 .. len /\ at # {}
        BY <2>2, <2>4, <4>1
      <4>3. PICK i \in at : \A j \in at : j <= i
        <5> DEFINE T == { len - j : j \in at }
        <5>1. T \subseteq Nat /\ T # {}
          <6>1. PICK j \in at : TRUE
            BY <4>2
          <6>2. len - j \in T
            OBVIOUS
          <6>3. \A m \in 1 .. len : len - m \in Nat
            OBVIOUS
          <6>4. \A m \in at : len - m \in Nat
            BY <4>2, <6>3
          <6> QED BY <6>2, <6>4
        <5>2. PICK x \in T : \A y \in T : x <= y
          BY <5>1, LeastNumber
        <5>3. PICK i \in at : x = len - i
          BY <5>2
        <5>4. \A j \in at : len - i <= len - j
          BY <5>2, <5>3
        <5>5. \A j \in at : j <= i
          BY <4>2, <5>4
        <5> QED BY <5>5
      <4>4. Latest(log, Len(log), key, i)
        BY <2>2, <4>3 DEF Latest
      <4> QED BY <4>4
    <3>2. PICK i : Latest(log, Len(log), key, i) /\ last = i
      BY <2>3, <3>1
    <3>3. Keeps(log[i]) /\ i \in 1 .. Len(log)
      BY <2>4, <3>2 DEF Keeps, Latest
    <3>4. key \in DOMAIN map
      BY <1>2, <2>1, <3>2, <3>3 DEF Decided
    <3>5. PICK k \in 1 .. Len(log) : Latest(log, Len(log), key, k) /\ map[key] = log[k].payload
      BY <1>2, <3>4 DEF Decided
    <3>6. k = last
      BY <2>3, <3>5
    <3> QED BY <2>4, <3>4, <3>5, <3>6
  <2>5. CASE ~keep
    <3> SUFFICES ASSUME key \in DOMAIN map PROVE FALSE
      BY <2>5
    <3>1. PICK k \in 1 .. Len(log) : Latest(log, Len(log), key, k) /\ Keeps(log[k])
      BY <1>2 DEF Decided
    <3>2. k \in at /\ k = last
      BY <2>3, <3>1
    <3> QED BY <2>5, <3>1, <3>2 DEF Keeps
  <2> QED BY <2>4, <2>5
<1> QED BY <1>4, <1>5

\* LastReadableDecides holds throughout: unreadable records, records of other
\* sources and other spellings never change which record decides.
THEOREM HydrationLastReadable == Spec => []LastReadableDecides
<1>1. Spec => []TypeInv
  BY TypeInit, TypeStep, PTL DEF Spec
<1> QED BY <1>1, LastReadableFollows, PTL

-----------------------------------------------------------------------------
(* Starting *)

\* A start that changes startup and did not fail to read is decided by the two
\* maps and their common keys.
LEMMA StartFacts ==
  ASSUME TypeInv, [Next]_vars, startup' # startup, startup' \in {"up", "KeyInMultipleSources"}
  PROVE  LET acnet == load_acnet_hydration(aeolus)
             epics == reduce_snapshot(log)
         IN  IF startup' = "up"
               THEN DOMAIN acnet \cap DOMAIN epics = {} /\ hydrated' = extend(acnet, epics)
               ELSE DOMAIN acnet \cap DOMAIN epics # {}
<1>1. load_startup_hydration
  <2>1. CASE Crash
    BY <2>1 DEF Crash
  <2>2. ASSUME NEW key \in Keys, NEW status \in Writes(key), Publish(key, status) PROVE FALSE
    BY <2>2 DEF Publish
  <2>3. ASSUME NEW record \in ForeignRecords, ForeignWrite(record) PROVE FALSE
    BY <2>3 DEF ForeignWrite
  <2>4. ASSUME NEW i \in 1 .. MaxLog, Compact(i) PROVE FALSE
    BY <2>4 DEF Compact
  <2>5. ASSUME NEW report \in Reports, Report(report) PROVE FALSE
    BY <2>5 DEF Report
  <2>6. CASE UNCHANGED vars
    BY <2>6 DEF vars
  <2> QED BY <2>1, <2>2, <2>3, <2>4, <2>5, <2>6 DEF Next
<1>a. PICK acnet : acnet = load_acnet_hydration(aeolus)
  OBVIOUS
<1>b. PICK epics : epics = reduce_snapshot(log)
  OBVIOUS
<1>c. PICK merged : merged = merge_hydrated_statuses(acnet, epics)
  OBVIOUS
<1>2. /\ startup' = IF merged.error THEN "KeyInMultipleSources" ELSE "up"
      /\ hydrated' = merged.statuses
  BY <1>1, <1>a, <1>b, <1>c DEF load_startup_hydration
<1>3. IF DOMAIN acnet \cap DOMAIN epics # {}
        THEN merged.error = TRUE
        ELSE merged.error = FALSE /\ merged.statuses = extend(acnet, epics)
  BY <1>c DEF merge_hydrated_statuses
<1>4. IF startup' = "up"
        THEN DOMAIN acnet \cap DOMAIN epics = {} /\ hydrated' = extend(acnet, epics)
        ELSE DOMAIN acnet \cap DOMAIN epics # {}
  BY <1>2, <1>3
<1> QED BY <1>a, <1>b, <1>4

\* A start that ends with KeyInMultipleSources means that AEOLUS reports an EPICS
\* alarm: the loader of the topic returns EPICS keys only.
LEMMA ConflictStep ==
  TypeInv /\ [Next]_vars =>
    (startup # startup' /\ startup' = "KeyInMultipleSources" =>
       \E i \in DOMAIN aeolus : aeolus[i].source = "Epics")
<1> SUFFICES ASSUME TypeInv, [Next]_vars, startup # startup', startup' = "KeyInMultipleSources"
             PROVE  \E i \in DOMAIN aeolus : aeolus[i].source = "Epics"
  OBVIOUS
<1>1. aeolus \in Seq(Status) /\ log \in Seq(Record)
  BY InputAssumption DEF TypeInv
<1>2. DOMAIN load_acnet_hydration(aeolus) \cap DOMAIN reduce_snapshot(log) # {}
  BY StartFacts
<1>3. PICK key : key \in DOMAIN load_acnet_hydration(aeolus) /\ key \in DOMAIN reduce_snapshot(log)
  BY <1>2
<1>4. key \in EpicsKey
  BY <1>1, <1>3, ReduceType
<1>5. PICK i \in DOMAIN aeolus : key = from(aeolus[i])
  BY <1>1, <1>3, LoadType
<1>6. aeolus[i] \in Status
  BY <1>1
<1>7. aeolus[i].source = "Epics"
  BY <1>4, <1>5, <1>6, FromType DEF EpicsKey, Status, Text
<1> QED BY <1>7

\* The service is kept down by a conflict only when AEOLUS reports an EPICS
\* alarm.
THEOREM HydrationConflict == Spec => ConflictNeedsEpicsReport
<1>1. Spec => []TypeInv
  BY TypeInit, TypeStep, PTL DEF Spec
<1>2. TypeInv /\ [Next]_vars =>
        [startup # startup' /\ startup' = "KeyInMultipleSources" =>
           \E i \in DOMAIN aeolus : aeolus[i].source = "Epics"]_vars
  BY ConflictStep
<1> QED BY <1>1, <1>2, PTL DEF Spec, ConflictNeedsEpicsReport

\* A start that succeeds takes each key from one source.
LEMMA SourceStep ==
  TypeInv /\ [Next]_vars =>
    (startup # "up" /\ startup' = "up" =>
       \A i \in DOMAIN aeolus :
         LET key == from(aeolus[i])
         IN  /\ key \notin DOMAIN reduce_snapshot(log)
             /\ (\A j \in DOMAIN aeolus : j > i => from(aeolus[j]) # key)
                  => hydrated'[key] = aeolus[i])
<1> SUFFICES ASSUME TypeInv, [Next]_vars, startup # "up", startup' = "up", NEW i \in DOMAIN aeolus
             PROVE  /\ from(aeolus[i]) \notin DOMAIN reduce_snapshot(log)
                    /\ (\A j \in DOMAIN aeolus : j > i => from(aeolus[j]) # from(aeolus[i]))
                         => hydrated'[from(aeolus[i])] = aeolus[i]
  OBVIOUS
<1>1. /\ aeolus \in Seq(Status) /\ log \in Seq(Record)
      /\ DOMAIN aeolus = 1 .. Len(aeolus) /\ Len(aeolus) \in Nat
  BY InputAssumption DEF TypeInv
<1>a. PICK acnet : acnet = load_acnet_hydration(aeolus)
  OBVIOUS
<1>b. PICK epics : epics = reduce_snapshot(log)
  OBVIOUS
<1>c. PICK key : key = from(aeolus[i])
  OBVIOUS
<1>2. DOMAIN acnet \cap DOMAIN epics = {} /\ hydrated' = extend(acnet, epics)
  BY <1>a, <1>b, StartFacts
<1>3. Collected(aeolus, Len(aeolus), acnet)
  BY <1>a, <1>1, LoadCollects
<1>4. key \in DOMAIN acnet
  BY <1>c, <1>1, <1>3 DEF Collected
<1>5. key \notin DOMAIN epics
  BY <1>2, <1>4
<1>6. hydrated'[key] = acnet[key]
  BY <1>2, <1>4, <1>5 DEF extend
<1>7. ASSUME \A j \in DOMAIN aeolus : j > i => from(aeolus[j]) # key
      PROVE  hydrated'[key] = aeolus[i]
  <2>1. PICK k \in 1 .. Len(aeolus) :
          Newest(aeolus, Len(aeolus), k) /\ from(aeolus[k]) = key /\ acnet[key] = aeolus[k]
    BY <1>3, <1>4 DEF Collected
  <2>2. i <= k
    BY <1>c, <1>1, <2>1 DEF Newest
  <2>3. ~(k > i)
    BY <1>1, <1>7, <2>1
  <2>4. i = k
    BY <1>1, <2>1, <2>2, <2>3
  <2> QED BY <1>6, <2>1, <2>4
<1> QED BY <1>b, <1>c, <1>5, <1>7

\* No start chooses between the sources.
THEOREM HydrationSources == Spec => NoSourceHidden
<1>1. Spec => []TypeInv
  BY TypeInit, TypeStep, PTL DEF Spec
<1>2. TypeInv /\ [Next]_vars =>
        [startup # "up" /\ startup' = "up" =>
           \A i \in DOMAIN aeolus :
             LET key == from(aeolus[i])
             IN  /\ key \notin DOMAIN reduce_snapshot(log)
                 /\ (\A j \in DOMAIN aeolus : j > i => from(aeolus[j]) # key)
                      => hydrated'[key] = aeolus[i]]_vars
  BY SourceStep
<1> QED BY <1>1, <1>2, PTL DEF Spec, NoSourceHidden

-----------------------------------------------------------------------------
(* The service's own bypasses *)

\* The record is read as one of the key.
About(record, key) == record.key # None /\ try_from(record.key) = key

\* Record i of the log is the last one about the key.
LastAbout(records, key, i) ==
  /\ i \in DOMAIN records /\ About(records[i], key)
  /\ \A j \in DOMAIN records : About(records[j], key) => j <= i

\* Only what the service writes for a key is kept as written.
WrittenInv == \A key \in Keys : written[key] # None => written[key] \in Writes(key)

\* A record that is read as one of a key nobody else wrote about was written
\* for that key, under its printed form.
OwnRecordsInv ==
  \A key \in Keys \ foreign : \A i \in DOMAIN log :
    About(log[i], key) => /\ log[i].key = fmt(key) /\ log[i].payload \in Writes(key)
                          /\ written[key] # None

\* The last of them is what the service wrote last; compaction keeps it.
LastWrittenInv ==
  \A key \in Keys \ foreign : written[key] # None /\ try_from(fmt(key)) = key =>
    \E i \in DOMAIN log : LastAbout(log, key, i) /\ log[i].payload = written[key]

OwnInv == WrittenInv /\ OwnRecordsInv /\ LastWrittenInv

\* No key that occurs is None.
LEMMA KeyNotNone ==
  ASSUME NEW key \in Keys
  PROVE  key # None
BY KeysType, NoneNoKey

\* Nothing is written at first.
LEMMA OwnInit == Init => OwnInv
<1> SUFFICES ASSUME Init PROVE OwnInv
  OBVIOUS
<1>1. \A key \in Keys : written[key] = None
  BY DEF Init
<1>2. DOMAIN log = {}
  BY DEF Init
<1> QED BY <1>1, <1>2 DEF OwnInv, WrittenInv, OwnRecordsInv, LastWrittenInv

\* A record at the end of a log.
LEMMA AppendFacts ==
  ASSUME NEW records \in Seq(Record), NEW record \in Record
  PROVE  /\ DOMAIN Append(records, record) = 1 .. Len(records) + 1
         /\ \A i \in DOMAIN records : Append(records, record)[i] = records[i]
         /\ Append(records, record)[Len(records) + 1] = record
OBVIOUS

\* A record that is not about the key leaves the last one about it.
LEMMA LastAboutAppend ==
  ASSUME NEW records \in Seq(Record), NEW record \in Record, NEW key, ~About(record, key),
         NEW i, LastAbout(records, key, i)
  PROVE  LastAbout(Append(records, record), key, i) /\ Append(records, record)[i] = records[i]
<1>a. PICK len \in Nat : len = Len(records)
  OBVIOUS
<1>b. PICK more : more = Append(records, record)
  OBVIOUS
<1>1. DOMAIN records = 1 .. len /\ i \in 1 .. len
  BY <1>a DEF LastAbout
<1>2. /\ DOMAIN more = 1 .. len + 1 /\ more[len + 1] = record
      /\ \A j \in 1 .. len : more[j] = records[j]
  BY <1>a, <1>b, <1>1, AppendFacts
<1>3. ASSUME NEW j \in DOMAIN more, About(more[j], key) PROVE j <= i
  <2>1. j # len + 1
    BY <1>2, <1>3
  <2>2. j \in 1 .. len
    BY <1>2, <2>1
  <2> QED BY <1>1, <1>2, <1>3, <2>2 DEF LastAbout
<1>4. i \in DOMAIN more /\ more[i] = records[i]
  BY <1>1, <1>2
<1> QED BY <1>b, <1>3, <1>4 DEF LastAbout

\* The service writes a record.
LEMMA OwnPublish ==
  ASSUME TypeInv, OwnInv, NEW key \in Keys, NEW status \in Writes(key), Publish(key, status)
  PROVE  OwnInv'
<1>a. PICK record \in Record : record = alarm_to_message(key, status)
  BY WriteType
<1>b. PICK len \in Nat : len = Len(log)
  BY RecordsType DEF TypeInv
<1>1. record.key = fmt(key) /\ record.payload = status /\ status # None
  BY <1>a, WriteType, TextAssumption
<1>2. /\ log \in Seq(Record) /\ log' = Append(log, record) /\ foreign' = foreign
      /\ written' = [written EXCEPT ![key] = status] /\ DOMAIN written = Keys
  BY <1>a DEF Publish, TypeInv
<1>3. /\ DOMAIN log = 1 .. len /\ DOMAIN log' = 1 .. len + 1
      /\ \A i \in 1 .. len : log'[i] = log[i]
      /\ log'[len + 1] = record
  BY <1>b, <1>2, RecordsType, AppendFacts
<1>4. written'[key] = status /\ \A k \in Keys : k # key => written'[k] = written[k]
  BY <1>2
<1>5. ASSUME NEW k \in Keys, About(record, k) PROVE k = key
  <2>1. try_from(fmt(key)) = k /\ k # None
    BY <1>1, <1>5, KeyNotNone DEF About
  <2> QED BY <2>1, RoundTrip
<1>6. WrittenInv'
  BY <1>4 DEF OwnInv, WrittenInv
<1>7. OwnRecordsInv'
  <2> SUFFICES ASSUME NEW k \in Keys, k \notin foreign, NEW i \in 1 .. len + 1, About(log'[i], k)
               PROVE  /\ log'[i].key = fmt(k) /\ log'[i].payload \in Writes(k)
                      /\ written'[k] # None
    BY <1>2, <1>3 DEF OwnRecordsInv
  <2>1. CASE i = len + 1
    <3>1. k = key
      BY <1>3, <1>5, <2>1
    <3> QED BY <1>1, <1>3, <1>4, <2>1, <3>1
  <2>2. CASE i # len + 1
    <3>1. i \in 1 .. len /\ log'[i] = log[i]
      BY <1>3, <2>2
    <3>2. /\ log[i].key = fmt(k) /\ log[i].payload \in Writes(k) /\ written[k] # None
      BY <1>3, <3>1 DEF OwnInv, OwnRecordsInv
    <3> QED BY <1>1, <1>4, <3>1, <3>2
  <2> QED BY <2>1, <2>2
<1>8. LastWrittenInv'
  <2> SUFFICES ASSUME NEW k \in Keys, k \notin foreign, written'[k] # None, try_from(fmt(k)) = k
               PROVE  \E i \in DOMAIN log' : LastAbout(log', k, i) /\ log'[i].payload = written'[k]
    BY <1>2 DEF LastWrittenInv
  <2>1. CASE k = key
    <3>1. About(log'[len + 1], k)
      BY <1>1, <1>3, <2>1, FmtType, KeysType, TextAssumption DEF About, Text
    <3>2. LastAbout(log', k, len + 1) /\ len + 1 \in DOMAIN log'
      BY <1>3, <3>1 DEF LastAbout
    <3> QED BY <1>1, <1>3, <1>4, <2>1, <3>2
  <2>2. CASE k # key
    <3>1. ~About(record, k)
      BY <1>5, <2>2
    <3>2. PICK i \in DOMAIN log : LastAbout(log, k, i) /\ log[i].payload = written[k]
      BY <1>4, <2>2 DEF OwnInv, LastWrittenInv
    <3>3. LastAbout(log', k, i) /\ log'[i] = log[i]
      BY <1>2, <3>1, <3>2, LastAboutAppend
    <3>4. i \in DOMAIN log'
      BY <3>3 DEF LastAbout
    <3> QED BY <1>4, <2>2, <3>2, <3>3, <3>4
  <2> QED BY <2>1, <2>2
<1> QED BY <1>6, <1>7, <1>8 DEF OwnInv

\* Somebody else writes a record: the key it is about is no longer the
\* service's own.
LEMMA OwnForeign ==
  ASSUME TypeInv, OwnInv, NEW record \in ForeignRecords, ForeignWrite(record)
  PROVE  OwnInv'
<1>b. PICK len \in Nat : len = Len(log)
  BY RecordsType DEF TypeInv
<1>1. record \in Record
  BY InputAssumption
<1>2. /\ log \in Seq(Record) /\ log' = Append(log, record) /\ written' = written
      /\ foreign' = foreign \cup (IF record.key = None THEN {} ELSE {try_from(record.key)} \ {None})
  BY DEF ForeignWrite, TypeInv
<1>3. /\ DOMAIN log = 1 .. len /\ DOMAIN log' = 1 .. len + 1
      /\ \A i \in 1 .. len : log'[i] = log[i]
      /\ log'[len + 1] = record
  BY <1>b, <1>1, <1>2, RecordsType, AppendFacts
<1>4. ASSUME NEW k \in Keys, k \notin foreign' PROVE k \notin foreign /\ ~About(record, k)
  <2>1. k # None
    BY KeyNotNone
  <2> QED BY <1>2, <1>4, <2>1 DEF About
<1>5. WrittenInv'
  BY <1>2 DEF OwnInv, WrittenInv
<1>6. OwnRecordsInv'
  <2> SUFFICES ASSUME NEW k \in Keys, k \notin foreign', NEW i \in 1 .. len + 1, About(log'[i], k)
               PROVE  /\ log'[i].key = fmt(k) /\ log'[i].payload \in Writes(k)
                      /\ written'[k] # None
    BY <1>3 DEF OwnRecordsInv
  <2>1. i # len + 1
    BY <1>3, <1>4
  <2>2. i \in 1 .. len /\ log'[i] = log[i]
    BY <1>3, <2>1
  <2> QED BY <1>2, <1>3, <1>4, <2>2 DEF OwnInv, OwnRecordsInv
<1>7. LastWrittenInv'
  <2> SUFFICES ASSUME NEW k \in Keys, k \notin foreign', written'[k] # None, try_from(fmt(k)) = k
               PROVE  \E i \in DOMAIN log' : LastAbout(log', k, i) /\ log'[i].payload = written'[k]
    BY DEF LastWrittenInv
  <2>1. PICK i \in DOMAIN log : LastAbout(log, k, i) /\ log[i].payload = written[k]
    BY <1>2, <1>4 DEF OwnInv, LastWrittenInv
  <2>2. LastAbout(log', k, i) /\ log'[i] = log[i]
    BY <1>1, <1>2, <1>4, <2>1, LastAboutAppend
  <2>3. i \in DOMAIN log'
    BY <2>2 DEF LastAbout
  <2> QED BY <1>2, <2>1, <2>2, <2>3
<1> QED BY <1>5, <1>6, <1>7 DEF OwnInv

\* Compaction takes away no record that is the last of a key of the service's
\* own: all of them have the same key text, and none is a tombstone.
LEMMA OwnCompact ==
  ASSUME TypeInv, OwnInv, NEW i \in 1 .. MaxLog, Compact(i)
  PROVE  OwnInv'
<1>b. PICK len \in Nat : len = Len(log)
  BY RecordsType DEF TypeInv
<1>1. /\ log \in Seq(Record) /\ DOMAIN log = 1 .. len /\ i \in 1 .. len
      /\ log' = RemoveAt(log, i) /\ written' = written /\ foreign' = foreign
  BY <1>b, RecordsType DEF Compact, TypeInv
<1>2. log' \in Seq(Record) /\ Len(log') = len - 1
  BY <1>b, <1>1, RemoveAtFacts
<1>3. DOMAIN log' = 1 .. len - 1
  BY <1>2, RecordsType
<1>4. \A j \in 1 .. len - 1 : log'[j] = IF j < i THEN log[j] ELSE log[j + 1]
  BY <1>b, <1>1, RemoveAtFacts
<1>5. ASSUME NEW j \in 1 .. len - 1
      PROVE  \E old \in 1 .. len : /\ log'[j] = log[old] /\ old # i
                                   /\ old = IF j < i THEN j ELSE j + 1
  BY <1>1, <1>4
<1>6. WrittenInv'
  BY <1>1 DEF OwnInv, WrittenInv
<1>7. OwnRecordsInv'
  <2> SUFFICES ASSUME NEW k \in Keys, k \notin foreign, NEW j \in 1 .. len - 1, About(log'[j], k)
               PROVE  /\ log'[j].key = fmt(k) /\ log'[j].payload \in Writes(k)
                      /\ written'[k] # None
    BY <1>1, <1>3 DEF OwnRecordsInv
  <2>1. PICK old \in 1 .. len : log'[j] = log[old]
    BY <1>5
  <2> QED BY <1>1, <2>1 DEF OwnInv, OwnRecordsInv
<1>8. LastWrittenInv'
  <2> SUFFICES ASSUME NEW k \in Keys, k \notin foreign, written[k] # None, try_from(fmt(k)) = k
               PROVE  \E j \in DOMAIN log' : LastAbout(log', k, j) /\ log'[j].payload = written[k]
    BY <1>1 DEF LastWrittenInv
  <2>1. PICK w \in 1 .. len : LastAbout(log, k, w) /\ log[w].payload = written[k]
    BY <1>1 DEF OwnInv, LastWrittenInv
  <2>2. w # i
    <3> SUFFICES ASSUME w = i PROVE FALSE
      OBVIOUS
    <3>1. About(log[i], k)
      BY <2>1 DEF LastAbout
    <3>2. CASE \E j \in DOMAIN log : j > i /\ log[j].key = log[i].key
      <4>1. PICK j \in 1 .. len : j > i /\ log[j].key = log[i].key
        BY <1>1, <3>2
      <4>2. About(log[j], k)
        BY <3>1, <4>1 DEF About
      <4>3. j <= i
        BY <1>1, <2>1, <4>2 DEF LastAbout
      <4> QED BY <1>1, <4>1, <4>3
    <3>3. CASE log[i].payload = Tombstone
      <4>1. log[i].payload \in Writes(k)
        BY <1>1, <3>1 DEF OwnInv, OwnRecordsInv
      <4>2. log[i].payload \in Status
        BY <4>1, WriteType
      <4> QED BY <3>3, <4>2, TextAssumption
    <3> QED BY <3>2, <3>3 DEF Compact
  <2>3. PICK new \in 1 .. len - 1 : new = IF w < i THEN w ELSE w - 1
    BY <1>1, <2>2
  <2>4. log'[new] = log[w]
    BY <1>1, <1>4, <2>2, <2>3
  <2>5. ASSUME NEW j \in 1 .. len - 1, About(log'[j], k) PROVE j <= new
    <3>1. PICK old \in 1 .. len : /\ log'[j] = log[old] /\ old # i
                                  /\ old = IF j < i THEN j ELSE j + 1
      BY <1>5
    <3>2. old <= w
      BY <1>1, <2>1, <2>5, <3>1 DEF LastAbout
    <3> QED BY <1>1, <2>2, <2>3, <3>1, <3>2
  <2>6. About(log'[new], k)
    BY <2>1, <2>4 DEF LastAbout
  <2>7. LastAbout(log', k, new)
    BY <1>3, <2>5, <2>6 DEF LastAbout
  <2> QED BY <1>3, <2>1, <2>4, <2>7
<1> QED BY <1>6, <1>7, <1>8 DEF OwnInv

\* Every step keeps what is known of the service's own records.
LEMMA OwnStep == TypeInv /\ OwnInv /\ [Next]_vars => OwnInv'
<1> SUFFICES ASSUME TypeInv, OwnInv, [Next]_vars PROVE OwnInv'
  OBVIOUS
<1> USE DEF OwnInv, WrittenInv, OwnRecordsInv, LastWrittenInv
<1>1. CASE UNCHANGED <<log, written, foreign>>
  BY <1>1
<1>2. CASE load_startup_hydration \/ Crash
  BY <1>1, <1>2 DEF load_startup_hydration, Crash
<1>3. ASSUME NEW report \in Reports, Report(report) PROVE OwnInv'
  BY <1>1, <1>3 DEF Report
<1>4. CASE UNCHANGED vars
  BY <1>1, <1>4 DEF vars
<1> HIDE DEF OwnInv, WrittenInv, OwnRecordsInv, LastWrittenInv
<1> QED BY <1>2, <1>3, <1>4, OwnPublish, OwnForeign, OwnCompact DEF Next

\* Only keys that a user can name are bypassed.
LEMMA BypassNamed ==
  ASSUME NEW key \in Keys, NEW status \in Writes(key), status.state = "Bypassed"
  PROVE  key \in UserKeys
<1> SUFFICES ASSUME key \notin UserKeys PROVE FALSE
  OBVIOUS
<1>1. PICK s \in [state : {"Alarmed"}, wake : {0}] :
        status = [device |-> key.device, source |-> key.source,
                  state |-> s.state, wake |-> s.wake]
  BY DEF Writes
<1> QED BY <1>1

\* The bypasses the reduction finds are the service's own, as it wrote them
\* last.
LEMMA OwnFollows == TypeInv /\ OwnInv => OwnBypassReturns
<1> SUFFICES ASSUME TypeInv, OwnInv, NEW key \in Keys, key \notin foreign
             PROVE  IF key.source = "Epics" /\ written[key] # None
                         /\ written[key].state = "Bypassed"
                      THEN /\ key \in DOMAIN reduce_snapshot(log)
                           /\ reduce_snapshot(log)[key] = written[key]
                      ELSE key \notin DOMAIN reduce_snapshot(log)
  BY DEF OwnBypassReturns
<1>a. PICK map : map = reduce_snapshot(log)
  OBVIOUS
<1>b. PICK len \in Nat : len = Len(log)
  BY RecordsType DEF TypeInv
<1>1. log \in Seq(Record) /\ DOMAIN log = 1 .. len
  BY <1>b, RecordsType DEF TypeInv
<1>2. Decided(log, len, map)
  BY <1>a, <1>b, <1>1, ReduceDecides
<1>3. ASSUME NEW i \in 1 .. len, Effective(log[i], key)
      PROVE  About(log[i], key)
  BY <1>3 DEF Effective, About
<1>4. CASE key.source # "Epics"
  <2>1. key \notin DOMAIN map
    BY <1>2, <1>4 DEF Decided, EpicsKey
  <2> QED BY <1>a, <1>4, <2>1
<1>5. CASE key.source = "Epics" /\ \A i \in 1 .. len : ~About(log[i], key)
  <2>1. key \notin DOMAIN map
    <3> SUFFICES ASSUME key \in DOMAIN map PROVE FALSE
      OBVIOUS
    <3>1. PICK i \in 1 .. len : Latest(log, len, key, i)
      BY <1>2 DEF Decided
    <3> QED BY <1>3, <1>5, <3>1 DEF Latest
  <2>2. ~(written[key] # None /\ written[key].state = "Bypassed")
    <3> SUFFICES ASSUME written[key] # None, written[key].state = "Bypassed" PROVE FALSE
      OBVIOUS
    <3>1. written[key] \in Writes(key)
      BY DEF OwnInv, WrittenInv
    <3>2. try_from(fmt(key)) = key
      BY <3>1, BypassNamed, UserRoundTrip
    <3>3. PICK i \in DOMAIN log : LastAbout(log, key, i)
      BY <3>2 DEF OwnInv, LastWrittenInv
    <3> QED BY <1>1, <1>5, <3>3 DEF LastAbout
  <2> QED BY <1>a, <2>1, <2>2
<1>6. CASE key.source = "Epics" /\ \E i \in 1 .. len : About(log[i], key)
  <2>1. key \in EpicsKey
    BY <1>6, KeysType DEF EpicsKey
  <2>2. ASSUME NEW i \in 1 .. len, About(log[i], key)
        PROVE  /\ log[i].key = fmt(key) /\ written[key] # None
               /\ log[i].payload \in Writes(key) /\ Effective(log[i], key)
    <3>1. /\ log[i].key = fmt(key) /\ written[key] # None /\ log[i].payload \in Writes(key)
      BY <1>1, <2>2 DEF OwnInv, OwnRecordsInv
    <3>2. log[i].payload \in Status /\ log[i].payload.source = "Epics"
      BY <1>6, <3>1, WriteType
    <3>3. log[i].payload # Malformed
      BY <3>2, TextAssumption
    <3> QED BY <2>2, <3>1, <3>2, <3>3 DEF Effective, About
  <2>3. PICK any \in 1 .. len : About(log[any], key)
    BY <1>6
  <2>4. written[key] # None /\ try_from(fmt(key)) = key
    BY <2>2, <2>3 DEF About
  <2>5. PICK w \in 1 .. len : LastAbout(log, key, w) /\ log[w].payload = written[key]
    BY <1>1, <2>4 DEF OwnInv, LastWrittenInv
  <2>6. Latest(log, len, key, w)
    <3>1. About(log[w], key) /\ \A j \in 1 .. len : About(log[j], key) => j <= w
      BY <1>1, <2>5 DEF LastAbout
    <3>2. \A j \in 1 .. len : Effective(log[j], key) => j <= w
      BY <1>3, <3>1
    <3> QED BY <2>2, <3>1, <3>2 DEF Latest
  <2>7. ASSUME NEW i \in 1 .. len, Latest(log, len, key, i) PROVE i = w
    <3>1. i <= w /\ w <= i
      BY <2>6, <2>7 DEF Latest
    <3> QED BY <3>1
  <2>8. log[w].payload # Tombstone
    BY <2>2, <2>5, WriteType, TextAssumption DEF LastAbout
  <2>9. CASE written[key].state = "Bypassed"
    <3>1. Keeps(log[w])
      BY <2>5, <2>8, <2>9 DEF Keeps
    <3>2. key \in DOMAIN map
      BY <1>2, <2>1, <2>6, <3>1 DEF Decided
    <3>3. PICK i \in 1 .. len : Latest(log, len, key, i) /\ map[key] = log[i].payload
      BY <1>2, <3>2 DEF Decided
    <3>4. map[key] = written[key]
      BY <2>5, <2>7, <3>3
    <3> QED BY <1>a, <1>6, <2>4, <2>9, <3>2, <3>4
  <2>10. CASE written[key].state # "Bypassed"
    <3>1. key \notin DOMAIN map
      <4> SUFFICES ASSUME key \in DOMAIN map PROVE FALSE
        OBVIOUS
      <4>1. PICK i \in 1 .. len : Latest(log, len, key, i) /\ Keeps(log[i])
        BY <1>2 DEF Decided
      <4> QED BY <2>5, <2>7, <2>10, <4>1 DEF Keeps
    <3> QED BY <1>a, <2>10, <3>1
  <2> QED BY <2>9, <2>10
<1> QED BY <1>4, <1>5, <1>6

\* However often the service is started and stopped, and whatever compaction and
\* other producers do meanwhile: for every key nobody else wrote about, the
\* bypass it finds is the one it wrote last and did not end.
THEOREM HydrationOwnBypass == Spec => []OwnBypassReturns
<1>1. Init => TypeInv /\ OwnInv
  BY TypeInit, OwnInit
<1>2. TypeInv /\ OwnInv /\ [Next]_vars => TypeInv' /\ OwnInv'
  BY TypeStep, OwnStep
<1>3. Spec => [](TypeInv /\ OwnInv)
  BY <1>1, <1>2, PTL DEF Spec
<1> QED BY <1>3, OwnFollows, PTL
=============================================================================
