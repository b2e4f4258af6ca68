--------------------------- MODULE IngressProofs ---------------------------
(***************************************************************************)
(* Proofs about Ingress, for every set of keys, every capacity of the      *)
(* queue and every length of the stream: no retained update is stranded,   *)
(* none overtakes an older one of its key, and coalescing never loses the  *)
(* latest one.                                                             *)
(***************************************************************************)
EXTENDS Ingress, SequenceTheorems, TLAPS

-----------------------------------------------------------------------------
(* Sequences of updates *)

\* The elements of s.
Elems(s) == { s[i] : i \in DOMAIN s }

\* The updates of A are older than those of their keys in B.
Before(A, B) == \A u \in A, v \in B : u.key = v.key => u.n < v.n

\* The updates of a key are in the order of the stream.
Ordered(s) == \A i, j \in DOMAIN s : i < j /\ s[i].key = s[j].key => s[i].n < s[j].n

\* No key has two updates.
Distinct(s) == \A i, j \in DOMAIN s : s[i].key = s[j].key => i = j

\* Adding at the end.
LEMMA ElemsAppend ==
  ASSUME NEW S, NEW s \in Seq(S), NEW x \in S
  PROVE  /\ Append(s, x) \in Seq(S) /\ Len(Append(s, x)) = Len(s) + 1
         /\ Elems(Append(s, x)) = Elems(s) \cup {x}
         /\ Ordered(s) /\ Before(Elems(s), {x}) => Ordered(Append(s, x))
         /\ Distinct(s) /\ (\A u \in Elems(s) : u.key # x.key) => Distinct(Append(s, x))
<1> DEFINE n == Len(s)
           t == Append(s, x)
<1>1. /\ n \in Nat /\ DOMAIN s = 1 .. n /\ DOMAIN t = 1 .. (n + 1)
      /\ t[n + 1] = x
      /\ \A i \in DOMAIN s : t[i] = s[i]
  OBVIOUS
<1>2. t \in Seq(S) /\ Len(t) = n + 1
  OBVIOUS
<1> HIDE DEF n, t
<1>3. /\ \A i \in 1 .. (n + 1) : i \in 1 .. n \/ i = n + 1
      /\ \A i \in 1 .. n : i \in 1 .. (n + 1) /\ ~(n + 1 < i)
      /\ n + 1 \in 1 .. (n + 1) /\ ~(n + 1 < n + 1)
  BY <1>1
<1>4. Elems(t) = Elems(s) \cup {x}
  BY <1>1, <1>3 DEF Elems
<1>5. ASSUME Ordered(s), Before(Elems(s), {x}) PROVE Ordered(t)
  BY <1>1, <1>3, <1>5 DEF Ordered, Before, Elems
<1>6. ASSUME Distinct(s), \A u \in Elems(s) : u.key # x.key PROVE Distinct(t)
  BY <1>1, <1>3, <1>6 DEF Distinct, Elems
<1> QED BY <1>2, <1>4, <1>5, <1>6 DEF n, t

\* Taking the first.
LEMMA ElemsTail ==
  ASSUME NEW S, NEW s \in Seq(S), s # <<>>
  PROVE  /\ Head(s) \in S /\ Tail(s) \in Seq(S) /\ Len(s) >= 1 /\ Len(Tail(s)) = Len(s) - 1
         /\ DOMAIN s = 1 .. Len(s) /\ s[1] = Head(s) /\ DOMAIN Tail(s) = 1 .. (Len(s) - 1)
         /\ \A i \in DOMAIN Tail(s) : i + 1 \in DOMAIN s /\ Tail(s)[i] = s[i + 1]
         /\ Elems(s) = Elems(Tail(s)) \cup {Head(s)}
         /\ Ordered(s) => Ordered(Tail(s)) /\ Before({Head(s)}, Elems(Tail(s)))
         /\ Distinct(s) => Distinct(Tail(s)) /\ \A u \in Elems(Tail(s)) : u.key # Head(s).key
<1> DEFINE n == Len(s)
           t == Tail(s)
           h == Head(s)
<1>1. /\ n \in Nat /\ n >= 1 /\ DOMAIN s = 1 .. n /\ DOMAIN t = 1 .. (n - 1)
      /\ 1 \in DOMAIN s /\ s[1] = h /\ Len(t) = n - 1 /\ t \in Seq(S) /\ h \in S
      /\ \A i \in DOMAIN t : i + 1 \in DOMAIN s /\ t[i] = s[i + 1]
  OBVIOUS
<1> HIDE DEF n, t, h
<1>2. /\ \A i \in 1 .. n : i = 1 \/ (i - 1 \in 1 .. (n - 1) /\ (i - 1) + 1 = i)
      /\ \A i \in 1 .. (n - 1) : 1 < i + 1 /\ i + 1 # 1
      /\ \A i, j \in 1 .. (n - 1) : /\ i + 1 = j + 1 => i = j
                                    /\ i < j => i + 1 < j + 1
  BY <1>1
<1>3. Elems(s) = Elems(t) \cup {h}
  <2>1. ASSUME NEW i \in DOMAIN s PROVE s[i] \in Elems(t) \cup {h}
    <3>1. i # 1 => i - 1 \in DOMAIN t /\ t[i - 1] = s[i]
      BY <1>1, <1>2
    <3> QED BY <1>1, <3>1 DEF Elems
  <2>2. Elems(t) \cup {h} \subseteq Elems(s)
    BY <1>1 DEF Elems
  <2> QED BY <2>1, <2>2 DEF Elems
<1>4. ASSUME Ordered(s) PROVE Ordered(t) /\ Before({h}, Elems(t))
  BY <1>1, <1>2, <1>4 DEF Ordered, Before, Elems
<1>5. ASSUME Distinct(s) PROVE Distinct(t) /\ \A u \in Elems(t) : u.key # h.key
  BY <1>1, <1>2, <1>5 DEF Distinct, Elems
<1> QED BY <1>1, <1>3, <1>4, <1>5 DEF n, t, h

\* Putting two sequences one behind the other.
LEMMA ElemsConcat ==
  ASSUME NEW S, NEW s \in Seq(S), NEW t \in Seq(S)
  PROVE  /\ s \o t \in Seq(S)
         /\ Elems(s \o t) = Elems(s) \cup Elems(t)
         /\ Ordered(s) /\ Ordered(t) /\ Before(Elems(s), Elems(t)) => Ordered(s \o t)
<1> DEFINE m == Len(s)
           n == Len(t)
           c == s \o t
<1>1. /\ c \in Seq(S) /\ Len(c) = m + n /\ m \in Nat /\ n \in Nat
      /\ DOMAIN s = 1 .. m /\ DOMAIN t = 1 .. n
      /\ \A i \in 1 .. (m + n) : c[i] = IF i <= m THEN s[i] ELSE t[i - m]
  BY ConcatProperties
<1>2. DOMAIN c = 1 .. (m + n)
  BY <1>1
<1> HIDE DEF m, n, c
<1>3. /\ \A i \in 1 .. (m + n) : \/ i \in 1 .. m /\ i <= m
                                 \/ i - m \in 1 .. n /\ ~(i <= m)
      /\ \A i \in 1 .. m : i \in 1 .. (m + n) /\ i <= m
      /\ \A i \in 1 .. n : i + m \in 1 .. (m + n) /\ ~(i + m <= m) /\ (i + m) - m = i
      /\ \A i, j \in 1 .. (m + n) : i < j => /\ i - m < j - m
                                             /\ j <= m => i <= m
  BY <1>1
<1>4. Elems(c) = Elems(s) \cup Elems(t)
  <2>1. ASSUME NEW i \in DOMAIN c PROVE c[i] \in Elems(s) \cup Elems(t)
    <3>1. \/ i \in DOMAIN s /\ c[i] = s[i]
          \/ i - m \in DOMAIN t /\ c[i] = t[i - m]
      BY <1>1, <1>2, <1>3
    <3> QED BY <3>1 DEF Elems
  <2>2. ASSUME NEW i \in 1 .. m PROVE s[i] \in Elems(c)
    <3>1. i \in DOMAIN c /\ c[i] = s[i]
      BY <1>1, <1>2, <1>3
    <3> QED BY <3>1 DEF Elems
  <2>3. ASSUME NEW i \in 1 .. n PROVE t[i] \in Elems(c)
    <3>1. i + m \in DOMAIN c /\ c[i + m] = t[i]
      BY <1>1, <1>2, <1>3
    <3> QED BY <3>1 DEF Elems
  <2> QED BY <1>1, <2>1, <2>2, <2>3 DEF Elems
<1>5. ASSUME Ordered(s), Ordered(t), Before(Elems(s), Elems(t)) PROVE Ordered(c)
  <2> SUFFICES ASSUME NEW i \in 1 .. (m + n), NEW j \in 1 .. (m + n), i < j,
                      c[i].key = c[j].key
               PROVE  c[i].n < c[j].n
    BY <1>2 DEF Ordered
  <2>1. CASE j <= m
    BY <1>1, <1>3, <1>5, <2>1 DEF Ordered
  <2>2. CASE ~(i <= m)
    <3>1. /\ i - m \in DOMAIN t /\ j - m \in DOMAIN t /\ i - m < j - m
          /\ c[i] = t[i - m] /\ c[j] = t[j - m]
      BY <1>1, <1>3, <2>2
    <3> QED BY <1>5, <3>1 DEF Ordered
  <2>3. CASE i <= m /\ ~(j <= m)
    <3>1. c[i] \in Elems(s) /\ c[j] \in Elems(t)
      BY <1>1, <1>3, <2>3 DEF Elems
    <3> QED BY <1>5, <3>1 DEF Before
  <2> QED BY <1>3, <2>1, <2>2, <2>3
<1> QED BY <1>1, <1>4, <1>5 DEF c

\* Retaining an update leaves one update of its key, at the place the key had.
LEMMA InsertFacts ==
  ASSUME pending \in Seq(Update), Distinct(pending), NEW u \in Update
  PROVE  /\ insert(u) \in Seq(Update) /\ Distinct(insert(u)) /\ insert(u) # <<>>
         /\ Elems(insert(u)) = { v \in Elems(pending) : v.key # u.key } \cup {u}
         /\ \A i \in DOMAIN pending : /\ i \in DOMAIN insert(u)
                                      /\ insert(u)[i].key = pending[i].key
<1>1. CASE Retained(u.key)
  <2> DEFINE t == [i \in DOMAIN pending |-> IF pending[i].key = u.key THEN u ELSE pending[i]]
  <2>1. insert(u) = t
    BY <1>1 DEF insert
  <2>2. t \in Seq(Update)
    OBVIOUS
  <2>3. /\ DOMAIN t = DOMAIN pending
        /\ \A i \in DOMAIN pending : t[i] = IF pending[i].key = u.key THEN u ELSE pending[i]
    OBVIOUS
  <2> HIDE DEF t
  <2>4. PICK r \in DOMAIN pending : pending[r].key = u.key
    BY <1>1 DEF Retained
  <2>5. Distinct(t) /\ \A i \in DOMAIN pending : t[i].key = pending[i].key
    BY <2>3 DEF Distinct
  <2>6. Elems(t) = { v \in Elems(pending) : v.key # u.key } \cup {u}
    <3>1. \A i \in DOMAIN t : t[i] \in { v \in Elems(pending) : v.key # u.key } \cup {u}
      BY <2>3 DEF Elems
    <3>2. \A i \in DOMAIN pending : pending[i].key # u.key => pending[i] \in Elems(t)
      BY <2>3 DEF Elems
    <3>3. u \in Elems(t)
      BY <2>3, <2>4 DEF Elems
    <3> QED BY <3>1, <3>2, <3>3 DEF Elems
  <2>7. t # <<>>
    BY <2>3, <2>4
  <2> QED BY <2>1, <2>2, <2>3, <2>5, <2>6, <2>7
<1>2. CASE ~Retained(u.key)
  <2>1. insert(u) = Append(pending, u)
    BY <1>2 DEF insert
  <2>2. \A v \in Elems(pending) : v.key # u.key
    BY <1>2 DEF Retained, Elems
  <2>3. /\ Append(pending, u) # <<>>
        /\ \A i \in DOMAIN pending : /\ i \in DOMAIN Append(pending, u)
                                     /\ Append(pending, u)[i] = pending[i]
    OBVIOUS
  <2>4. /\ Append(pending, u) \in Seq(Update) /\ Distinct(Append(pending, u))
        /\ Elems(Append(pending, u)) = Elems(pending) \cup {u}
    BY <2>2, ElemsAppend
  <2>5. Elems(pending) = { v \in Elems(pending) : v.key # u.key }
    BY <2>2
  <2> QED BY <2>1, <2>3, <2>4, <2>5
<1> QED BY <1>1, <1>2

-----------------------------------------------------------------------------
(* The inductive invariant *)

\* The update that is held, if any.
Held(x) == {x} \ {None}

\* The updates on their way to the coordinator.
OnTheWay == Elems(queue) \cup Held(popped) \cup Elems(pending) \cup Held(reader.update)

\* Updates are in the order of the stream.  The reader has one in hand only out
\* of overload mode, when nothing is retained.
OrderInv ==
  /\ Ordered(queue) /\ Distinct(pending)
  /\ Before(Elems(queue), Held(popped))
  /\ Before(Elems(queue), Elems(pending))
  /\ Before(Held(popped), Elems(pending))
  /\ Before(Elems(queue), Held(reader.update))

\* What is on its way is newer than what was received, and no newer than what
\* was read.
FreshInv ==
  /\ \A u \in OnTheWay : received[u.key] < u.n /\ u.n <= latest[u.key]
  /\ \A k \in Keys : received[k] <= latest[k] /\ latest[k] <= count

\* The latest update of a key was received or is on its way.
LatestInv ==
  receiving =>
    \A k \in Keys : latest[k] = received[k] \/ [key |-> k, n |-> latest[k]] \in OnTheWay

\* The inductive invariant behind InOrder and LatestSurvives.
IngressInv ==
  /\ DrainWillRun
  /\ reader # Idle => ~overload_mode
  /\ OrderInv /\ FreshInv /\ LatestInv

\* Of the reader.
LEMMA ReaderFacts ==
  ASSUME TypeOK
  PROVE  /\ reader = Idle => reader.update = None
         /\ reader # Idle => reader.update \in Update /\ reader.update # None
         /\ reader.stage \in {"checked", "full"} => reader # Idle
<1>1. reader = Idle => reader.update = None /\ reader.stage = "reading"
  BY DEF Idle
<1>2. reader # Idle => reader.update \in Update
  BY DEF TypeOK
<1> QED BY <1>1, <1>2, NoneIsNoUpdate

\* Of the first state.
LEMMA IngressInit == Init => TypeOK /\ IngressInv
<1> SUFFICES ASSUME Init PROVE TypeOK /\ IngressInv
  OBVIOUS
<1>1. TypeOK
  <2>1. /\ queue \in Seq(Update) /\ Len(queue) <= QueueCap /\ pending \in Seq(Update)
        /\ count \in 0 .. MaxUpdates
        /\ latest \in [Keys -> 0 .. MaxUpdates] /\ received \in [Keys -> 0 .. MaxUpdates]
    BY IngressAssumption DEF Init
  <2>2. /\ overload_mode \in BOOLEAN /\ notified \in BOOLEAN /\ receiving \in BOOLEAN
        /\ drain \in {"waiting", "draining", "returned"} /\ popped \in Update \cup {None}
        /\ reader \in {Idle} \cup [stage : {"checked", "full"}, update : Update]
    BY DEF Init
  <2> QED BY <2>1, <2>2 DEF TypeOK
<1>2. Elems(queue) = {} /\ Elems(pending) = {} /\ Held(popped) = {} /\ Held(reader.update) = {}
  BY DEF Init, Elems, Held, Idle
<1>3. OrderInv
  BY <1>2 DEF Init, OrderInv, Ordered, Distinct, Before
<1>4. FreshInv /\ LatestInv
  BY <1>2 DEF Init, FreshInv, LatestInv, OnTheWay
<1>5. DrainWillRun /\ (reader # Idle => ~overload_mode)
  BY DEF Init, DrainWillRun
<1> QED BY <1>1, <1>3, <1>4, <1>5 DEF IngressInv

\* Reading an entry.
LEMMA IngressRead ==
  ASSUME TypeOK, IngressInv, NEW k \in Keys, ReadEntry(k)
  PROVE  TypeOK' /\ IngressInv'
<1> DEFINE u == [key |-> k, n |-> count + 1]
<1>1. /\ reader = Idle /\ count < MaxUpdates /\ count' = count + 1
      /\ latest' = [latest EXCEPT ![k] = count + 1]
      /\ IF overload_mode
           THEN pending' = insert(u) /\ UNCHANGED reader
           ELSE reader' = [stage |-> "checked", update |-> u] /\ UNCHANGED pending
      /\ UNCHANGED <<overload_mode, notified, drain, popped, queue, receiving, received>>
  BY DEF ReadEntry, drainVars, coordinatorVars
<1>2. count \in Nat /\ count + 1 \in 1 .. MaxUpdates
  BY <1>1, IngressAssumption DEF TypeOK
<1>3. u \in Update /\ u # None /\ u.key = k /\ u.n = count + 1
  BY <1>2, NoneIsNoUpdate DEF Update
<1> HIDE DEF u
<1>4. pending \in Seq(Update) /\ Distinct(pending)
  BY DEF TypeOK, IngressInv, OrderInv
<1>5. TypeOK'
  <2>1. pending' \in Seq(Update)
    BY <1>1, <1>3, <1>4, InsertFacts
  <2>2. reader' \in {Idle} \cup [stage : {"checked", "full"}, update : Update]
    BY <1>1, <1>3 DEF TypeOK
  <2>3. latest' \in [Keys -> 0 .. MaxUpdates] /\ count' \in 0 .. MaxUpdates
    BY <1>1, <1>2, IngressAssumption DEF TypeOK
  <2> QED BY <1>1, <2>1, <2>2, <2>3 DEF TypeOK
<1>6. \A v \in OnTheWay : v \in Update /\ v.key \in Keys /\ v.n \in Nat /\ v.n < u.n
  <2>1. \A v \in OnTheWay : v \in Update
    BY ReaderFacts DEF TypeOK, OnTheWay, Elems, Held
  <2>2. \A v \in Update : v.key \in Keys /\ v.n \in Nat
    BY IngressAssumption DEF Update
  <2>3. \A v \in OnTheWay : v.n <= latest[v.key] /\ latest[v.key] <= count
    BY <2>1, <2>2 DEF IngressInv, FreshInv
  <2>4. \A x \in Keys : latest[x] \in Nat
    BY IngressAssumption DEF TypeOK
  <2> QED BY <1>2, <1>3, <2>1, <2>2, <2>3, <2>4
<1>7. DrainWillRun' /\ (reader' # Idle => ~overload_mode')
  BY <1>1, <1>3, <1>4, InsertFacts DEF IngressInv, DrainWillRun
<1>8. /\ Elems(queue)' = Elems(queue) /\ Held(popped)' = Held(popped)
      /\ Distinct(pending)' /\ Ordered(queue)'
      /\ Elems(pending)' \subseteq Elems(pending) \cup {u}
      /\ Held(reader.update)' \subseteq {u}
      /\ \A v \in OnTheWay : v.key # k => v \in OnTheWay'
      /\ u \in OnTheWay' /\ OnTheWay' \subseteq OnTheWay \cup {u}
  <2>1. Elems(queue)' = Elems(queue) /\ Held(popped)' = Held(popped) /\ Ordered(queue)'
    BY <1>1 DEF Elems, Held, Ordered, IngressInv, OrderInv
  <2>2. reader.update = None
    BY <1>1, ReaderFacts
  <2>3. CASE overload_mode
    <3>1. /\ Distinct(insert(u))
          /\ Elems(insert(u)) = { v \in Elems(pending) : v.key # u.key } \cup {u}
      BY <1>3, <1>4, InsertFacts
    <3>2. Distinct(pending)' /\ Elems(pending)' = Elems(insert(u)) /\ Held(reader.update)' = {}
      BY <1>1, <2>2, <2>3, <3>1 DEF Elems, Distinct, Held
    <3> QED BY <1>3, <2>1, <2>2, <3>1, <3>2 DEF OnTheWay, Held
  <2>4. CASE ~overload_mode
    <3>1. Distinct(pending)' /\ Elems(pending)' = Elems(pending)
      BY <1>1, <2>4 DEF Elems, Distinct, IngressInv, OrderInv
    <3>2. Held(reader.update)' = {u}
      BY <1>1, <1>3, <2>4 DEF Held
    <3> QED BY <2>1, <2>2, <3>1, <3>2 DEF OnTheWay, Held
  <2> QED BY <2>3, <2>4
<1>9. OrderInv'
  <2>1. Elems(queue) \subseteq OnTheWay /\ Held(popped) \subseteq OnTheWay
    BY DEF OnTheWay
  <2>2. \A v \in Elems(queue) \cup Held(popped) : v.n < u.n
    BY <1>6, <2>1
  <2> QED BY <1>8, <2>2 DEF IngressInv, OrderInv, Before
<1>10. FreshInv' /\ LatestInv'
  <2>1. \A x \in Keys : x # k => latest'[x] = latest[x]
    BY <1>1 DEF TypeOK
  <2>2. latest'[k] = count + 1 /\ u = [key |-> k, n |-> latest'[k]]
    BY <1>1 DEF u, TypeOK
  <2>3. \A x \in Keys : /\ received[x] \in Nat /\ latest[x] \in Nat
                        /\ received[x] <= latest[x] /\ latest[x] <= count
    BY IngressAssumption DEF TypeOK, IngressInv, FreshInv
  <2>4. \A v \in OnTheWay : received[v.key] < v.n /\ v.n <= latest[v.key]
    BY DEF IngressInv, FreshInv
  <2>5. FreshInv'
    <3>1. \A x \in Keys : received'[x] <= latest'[x] /\ latest'[x] <= count'
      BY <1>1, <1>2, <2>1, <2>2, <2>3
    <3>2. received'[u.key] < u.n /\ u.n <= latest'[u.key]
      BY <1>1, <1>2, <1>3, <2>2, <2>3
    <3>3. \A v \in OnTheWay : received'[v.key] < v.n /\ v.n <= latest'[v.key]
      BY <1>1, <1>2, <1>3, <1>6, <2>1, <2>2, <2>4
    <3> QED BY <1>8, <3>1, <3>2, <3>3 DEF FreshInv
  <2>6. LatestInv'
    BY <1>1, <1>8, <2>1, <2>2 DEF IngressInv, LatestInv
  <2> QED BY <2>5, <2>6
<1> QED BY <1>5, <1>7, <1>9, <1>10 DEF IngressInv

\* A step that moves updates on without receiving any loses none while the
\* coordinator lives.
LEMMA FreshMoves ==
  ASSUME FreshInv, LatestInv, UNCHANGED <<received, latest, count>>,
         OnTheWay' \subseteq OnTheWay,
         receiving' => receiving /\ OnTheWay \subseteq OnTheWay'
  PROVE  FreshInv' /\ LatestInv'
BY DEF FreshInv, LatestInv

\* Nothing is retained while the reader has an update in hand.
LEMMA NothingRetained ==
  ASSUME IngressInv, reader # Idle
  PROVE  pending = <<>> /\ popped = None
BY DEF IngressInv, DrainWillRun

\* Offering an update to the queue.
LEMMA IngressTrySend ==
  ASSUME TypeOK, IngressInv, TrySend
  PROVE  TypeOK' /\ IngressInv'
<1>1. /\ reader.stage = "checked" /\ reader # Idle
      /\ reader.update \in Update /\ reader.update # None
  BY ReaderFacts DEF TrySend
<1>2. UNCHANGED <<overload_mode, pending, notified, drain, popped, count, latest, receiving,
                  received>>
  BY DEF TrySend, overloadState, drainVars, streamVars, coordinatorVars
<1>3. pending = <<>> /\ popped = None
  BY <1>1, NothingRetained
<1>4. DrainWillRun' /\ ~overload_mode'
  BY <1>1, <1>2 DEF IngressInv, DrainWillRun
<1>5. /\ Elems(pending) = {} /\ Held(popped) = {} /\ Held(reader.update) = {reader.update}
      /\ Elems(pending)' = {} /\ Held(popped)' = {} /\ Distinct(pending)'
  BY <1>1, <1>2, <1>3 DEF Elems, Held, Distinct
<1>6. FreshInv /\ LatestInv /\ Ordered(queue) /\ Before(Elems(queue), {reader.update})
  BY <1>5 DEF IngressInv, OrderInv
<1>7. ASSUME reader' \in {Idle} \cup [stage : {"checked", "full"}, update : Update],
             queue' \in Seq(Update) /\ Len(queue') <= QueueCap
      PROVE  TypeOK'
  BY <1>2, <1>7 DEF TypeOK
<1>8. CASE receiving /\ Len(queue) >= QueueCap
  <2>1. reader' = [reader EXCEPT !.stage = "full"] /\ queue' = queue
    BY <1>8 DEF TrySend
  <2>2. reader \in [stage : {"checked", "full"}, update : Update]
    BY <1>1 DEF TypeOK
  <2>3. reader'.update = reader.update /\ reader' \in [stage : {"checked", "full"}, update : Update]
    BY <2>1, <2>2
  <2>4. /\ Elems(queue)' = Elems(queue) /\ Ordered(queue)'
        /\ Held(reader.update)' = Held(reader.update)
    BY <1>6, <2>1, <2>3 DEF Elems, Ordered, Held
  <2>5. OrderInv'
    BY <1>5, <1>6, <2>4 DEF OrderInv, Before
  <2>6. OnTheWay' = OnTheWay
    BY <1>5, <2>4 DEF OnTheWay
  <2>7. TypeOK'
    BY <1>7, <2>1, <2>3 DEF TypeOK
  <2> QED BY <1>2, <1>4, <1>6, <2>5, <2>6, <2>7, FreshMoves DEF IngressInv
<1>9. CASE receiving /\ ~(Len(queue) >= QueueCap)
  <2>1. reader' = Idle /\ queue' = Append(queue, reader.update)
    BY <1>9 DEF TrySend
  <2>2. queue \in Seq(Update) /\ Len(queue) \in Nat /\ QueueCap \in Nat
    BY IngressAssumption DEF TypeOK
  <2>3. /\ queue' \in Seq(Update) /\ Len(queue') = Len(queue) + 1
        /\ Elems(queue') = Elems(queue) \cup {reader.update} /\ Ordered(queue')
    BY <1>1, <1>6, <2>1, <2>2, ElemsAppend
  <2>4. Held(reader.update)' = {}
    BY <2>1 DEF Held, Idle
  <2>5. OrderInv'
    BY <1>5, <2>3, <2>4 DEF OrderInv, Before, Elems, Ordered
  <2>6. OnTheWay' = OnTheWay
    BY <1>5, <2>3, <2>4 DEF OnTheWay, Elems
  <2>7. TypeOK'
    BY <1>7, <1>9, <2>1, <2>2, <2>3
  <2> QED BY <1>2, <1>4, <1>6, <2>1, <2>5, <2>6, <2>7, FreshMoves DEF IngressInv
<1>10. CASE ~receiving
  <2>1. reader' = Idle /\ queue' = queue
    BY <1>10 DEF TrySend
  <2>2. Elems(queue)' = Elems(queue) /\ Held(reader.update)' = {} /\ Ordered(queue)'
    BY <1>6, <2>1 DEF Elems, Held, Idle, Ordered
  <2>3. OrderInv' /\ OnTheWay' \subseteq OnTheWay
    BY <1>5, <2>2 DEF OrderInv, Before, OnTheWay
  <2>4. TypeOK'
    BY <1>7, <2>1 DEF TypeOK
  <2> QED BY <1>2, <1>4, <1>6, <1>10, <2>1, <2>3, <2>4, FreshMoves DEF IngressInv
<1> QED BY <1>8, <1>9, <1>10

\* Going into overload mode.
LEMMA IngressOverload ==
  ASSUME TypeOK, IngressInv, EnterOverload
  PROVE  TypeOK' /\ IngressInv'
<1> DEFINE u == reader.update
<1>1. /\ reader # Idle /\ u \in Update /\ u # None
  BY ReaderFacts DEF EnterOverload
<1>2. /\ pending' = insert(u) /\ overload_mode' = TRUE /\ notified' = TRUE /\ reader' = Idle
      /\ UNCHANGED <<drain, popped, queue, count, latest, receiving, received>>
  BY DEF EnterOverload, drainVars, streamVars, coordinatorVars
<1>3. pending = <<>> /\ popped = None
  BY <1>1, NothingRetained
<1>4. /\ Elems(pending) = {} /\ Held(popped) = {} /\ Held(reader.update) = {u}
      /\ Held(popped)' = {} /\ Held(reader.update)' = {}
  BY <1>1, <1>2, <1>3 DEF Elems, Held, Idle
<1>5. /\ pending' \in Seq(Update) /\ Distinct(pending')
      /\ Elems(pending') = {u}
  <2>1. pending \in Seq(Update) /\ Distinct(pending)
    BY DEF TypeOK, IngressInv, OrderInv
  <2> QED BY <1>1, <1>2, <1>4, <2>1, InsertFacts
<1>6. TypeOK'
  BY <1>2, <1>5 DEF TypeOK
<1>7. DrainWillRun'
  BY <1>2 DEF DrainWillRun
<1>8. Elems(queue)' = Elems(queue) /\ Ordered(queue)' /\ Elems(pending)' = {u} /\ Distinct(pending)'
  <2>1. Elems(queue)' = Elems(queue) /\ Ordered(queue)'
    BY <1>2 DEF Elems, Ordered, IngressInv, OrderInv
  <2>2. Elems(pending)' = Elems(pending') /\ (Distinct(pending)' <=> Distinct(pending'))
    BY DEF Elems, Distinct
  <2> QED BY <1>5, <2>1, <2>2
<1>9. OrderInv'
  BY <1>4, <1>8 DEF IngressInv, OrderInv, Before
<1>10. OnTheWay' = OnTheWay
  BY <1>4, <1>8 DEF OnTheWay
<1> QED BY <1>2, <1>6, <1>7, <1>9, <1>10, FreshMoves DEF IngressInv

\* The drain task takes the oldest retained update, or ends overload mode.
LEMMA IngressPop ==
  ASSUME TypeOK, IngressInv, PopFront
  PROVE  TypeOK' /\ IngressInv'
<1>1. /\ drain = "draining" /\ popped = None
      /\ UNCHANGED <<notified, reader, queue, count, latest, receiving, received>>
  BY DEF PopFront, streamVars, coordinatorVars
<1>2. /\ Elems(queue)' = Elems(queue) /\ Ordered(queue)' /\ Held(popped) = {}
      /\ Held(reader.update)' = Held(reader.update)
  BY <1>1 DEF Elems, Ordered, Held, IngressInv, OrderInv
<1>3. CASE pending # <<>>
  <2>1. /\ popped' = Head(pending) /\ pending' = Tail(pending)
        /\ UNCHANGED <<overload_mode, drain>>
    BY <1>3 DEF PopFront
  <2>2. pending \in Seq(Update) /\ Distinct(pending)
    BY DEF TypeOK, IngressInv, OrderInv
  <2>3. /\ Head(pending) \in Update /\ Tail(pending) \in Seq(Update)
        /\ Elems(pending) = Elems(Tail(pending)) \cup {Head(pending)}
        /\ Distinct(Tail(pending))
        /\ \A u \in Elems(Tail(pending)) : u.key # Head(pending).key
    BY <1>3, <2>2, ElemsTail
  <2>4. /\ popped' \in Update /\ pending' \in Seq(Update)
        /\ Elems(pending)' = Elems(Tail(pending)) /\ Distinct(pending)'
        /\ Held(popped)' = {Head(pending)}
    BY <2>1, <2>3, NoneIsNoUpdate DEF Elems, Distinct, Held
  <2>5. TypeOK'
    BY <1>1, <2>1, <2>4 DEF TypeOK
  <2>6. OrderInv'
    BY <1>2, <2>3, <2>4 DEF IngressInv, OrderInv, Before
  <2>7. OnTheWay' = OnTheWay
    BY <1>2, <2>3, <2>4 DEF OnTheWay
  <2>8. DrainWillRun' /\ (reader' # Idle => ~overload_mode')
    BY <1>1, <1>3, <2>1 DEF IngressInv, DrainWillRun
  <2> QED BY <1>1, <2>5, <2>6, <2>7, <2>8, FreshMoves DEF IngressInv
<1>4. CASE pending = <<>>
  <2>1. overload_mode' = FALSE /\ drain' = "waiting" /\ UNCHANGED <<popped, pending>>
    BY <1>4 DEF PopFront
  <2>2. /\ Elems(pending)' = Elems(pending) /\ Distinct(pending)'
        /\ Held(popped)' = Held(popped)
    BY <2>1 DEF Elems, Distinct, Held, IngressInv, OrderInv
  <2>3. TypeOK'
    BY <1>1, <2>1 DEF TypeOK
  <2>4. OrderInv' /\ OnTheWay' = OnTheWay
    BY <1>2, <2>2 DEF IngressInv, OrderInv, Before, OnTheWay
  <2>5. DrainWillRun' /\ (reader' # Idle => ~overload_mode')
    BY <1>1, <1>4, <2>1 DEF DrainWillRun
  <2> QED BY <1>1, <2>3, <2>4, <2>5, FreshMoves DEF IngressInv
<1> QED BY <1>3, <1>4

\* The drain task hands its update over, or finds the coordinator gone.
LEMMA IngressSend ==
  ASSUME TypeOK, IngressInv, SendPopped
  PROVE  TypeOK' /\ IngressInv'
<1>1. /\ popped # None /\ popped' = None
      /\ UNCHANGED <<overload_mode, pending, notified, reader, count, latest, receiving, received>>
  BY DEF SendPopped, overloadState, streamVars, coordinatorVars
<1>2. /\ Elems(pending)' = Elems(pending) /\ Distinct(pending)' /\ Held(popped)' = {}
      /\ Held(reader.update)' = Held(reader.update) /\ Held(popped) = {popped}
  BY <1>1 DEF Elems, Distinct, Held, IngressInv, OrderInv
<1>3. /\ popped \in Update /\ overload_mode /\ reader = Idle /\ Held(reader.update) = {}
  BY <1>1, ReaderFacts DEF TypeOK, IngressInv, DrainWillRun, Held
<1>4. CASE receiving
  <2>1. queue' = Append(queue, popped) /\ drain' = drain /\ Len(queue) < QueueCap
    BY <1>4 DEF SendPopped
  <2>2. queue \in Seq(Update) /\ Len(queue) \in Nat /\ QueueCap \in Nat
    BY IngressAssumption DEF TypeOK
  <2>3. Ordered(queue) /\ Before(Elems(queue), {popped})
    BY <1>2 DEF IngressInv, OrderInv
  <2>4. /\ queue' \in Seq(Update) /\ Len(queue') = Len(queue) + 1
        /\ Elems(queue') = Elems(queue) \cup {popped} /\ Ordered(queue')
    BY <1>3, <2>1, <2>2, <2>3, ElemsAppend
  <2>5. Elems(queue)' = Elems(queue) \cup {popped} /\ Ordered(queue)'
    BY <2>4 DEF Elems, Ordered
  <2>6. TypeOK'
    BY <1>1, <2>1, <2>2, <2>4 DEF TypeOK
  <2>7. OrderInv'
    BY <1>2, <1>3, <2>5 DEF IngressInv, OrderInv, Before
  <2>8. OnTheWay' = OnTheWay
    BY <1>2, <2>5 DEF OnTheWay
  <2>9. DrainWillRun' /\ (reader' # Idle => ~overload_mode')
    BY <1>1, <1>3, <2>1 DEF IngressInv, DrainWillRun
  <2> QED BY <1>1, <2>6, <2>7, <2>8, <2>9, FreshMoves DEF IngressInv
<1>5. CASE ~receiving
  <2>1. queue' = queue /\ drain' = "returned"
    BY <1>5 DEF SendPopped
  <2>2. Elems(queue)' = Elems(queue) /\ Ordered(queue)'
    BY <2>1 DEF Elems, Ordered, IngressInv, OrderInv
  <2>3. TypeOK'
    BY <1>1, <2>1 DEF TypeOK
  <2>4. OrderInv' /\ OnTheWay' \subseteq OnTheWay
    BY <1>2, <2>2 DEF IngressInv, OrderInv, Before, OnTheWay
  <2>5. DrainWillRun' /\ (reader' # Idle => ~overload_mode')
    BY <1>1, <1>3, <2>1 DEF DrainWillRun
  <2> QED BY <1>1, <1>5, <2>3, <2>4, <2>5, FreshMoves DEF IngressInv
<1> QED BY <1>4, <1>5

\* The coordinator receives the update at the head of its queue.
LEMMA IngressReceive ==
  ASSUME TypeOK, IngressInv, Receive
  PROVE  TypeOK' /\ IngressInv'
<1> DEFINE h == Head(queue)
<1>1. /\ receiving /\ queue # <<>> /\ queue' = Tail(queue)
      /\ received' = [received EXCEPT ![h.key] = h.n]
      /\ UNCHANGED <<overload_mode, pending, notified, drain, popped, reader, receiving, count,
                     latest>>
  BY DEF Receive, overloadState, drainVars, streamVars
<1>2. queue \in Seq(Update) /\ Len(queue) \in Nat /\ QueueCap \in Nat /\ Ordered(queue)
  BY IngressAssumption DEF TypeOK, IngressInv, OrderInv
<1>3. /\ h \in Update /\ queue' \in Seq(Update) /\ Len(queue') = Len(queue) - 1
      /\ Elems(queue) = Elems(queue') \cup {h}
      /\ Ordered(queue') /\ Before({h}, Elems(queue'))
  BY <1>1, <1>2, ElemsTail
<1>4. h.key \in Keys /\ h.n \in 0 .. MaxUpdates /\ h.n \in Nat
  BY <1>3, IngressAssumption DEF Update
<1> HIDE DEF h
<1>5. TypeOK'
  <2>1. received' \in [Keys -> 0 .. MaxUpdates]
    BY <1>1, <1>4 DEF TypeOK
  <2>2. Len(queue') <= QueueCap
    BY <1>2, <1>3 DEF TypeOK
  <2> QED BY <1>1, <1>3, <2>1, <2>2 DEF TypeOK
<1>6. /\ Elems(queue)' = Elems(queue') /\ Ordered(queue)'
      /\ Elems(pending)' = Elems(pending) /\ Distinct(pending)'
      /\ Held(popped)' = Held(popped) /\ Held(reader.update)' = Held(reader.update)
  BY <1>1, <1>3 DEF Elems, Ordered, Distinct, Held, IngressInv, OrderInv
<1>7. OrderInv'
  BY <1>3, <1>6 DEF IngressInv, OrderInv, Before
<1>8. OnTheWay = OnTheWay' \cup {h}
  BY <1>3, <1>6 DEF OnTheWay
<1>9. Before({h}, OnTheWay')
  BY <1>3, <1>6 DEF IngressInv, OrderInv, Before, OnTheWay
<1>10. /\ received'[h.key] = h.n
       /\ \A k \in Keys : k # h.key => received'[k] = received[k]
       /\ \A k \in Keys : received[k] \in Nat /\ latest[k] \in Nat
       /\ received[h.key] < h.n /\ h.n <= latest[h.key]
  BY <1>1, <1>4, <1>8, IngressAssumption DEF TypeOK, IngressInv, FreshInv
<1>11. FreshInv'
  <2>1. \A u \in OnTheWay' : u.key \in Keys
    <3>1. \A u \in OnTheWay : u \in Update
      BY ReaderFacts DEF TypeOK, OnTheWay, Elems, Held
    <3> QED BY <1>8, <3>1 DEF Update
  <2>2. \A u \in OnTheWay' : received'[u.key] < u.n /\ u.n <= latest'[u.key]
    BY <1>1, <1>8, <1>9, <1>10, <2>1 DEF IngressInv, FreshInv, Before
  <2>3. \A k \in Keys : received'[k] <= latest'[k] /\ latest'[k] <= count'
    BY <1>1, <1>10 DEF IngressInv, FreshInv
  <2> QED BY <2>2, <2>3 DEF FreshInv
<1>12. LatestInv'
  <2> SUFFICES ASSUME NEW k \in Keys
               PROVE  latest[k] = received'[k] \/ [key |-> k, n |-> latest[k]] \in OnTheWay'
    BY <1>1 DEF LatestInv
  <2>1. latest[k] = received[k] \/ [key |-> k, n |-> latest[k]] \in OnTheWay
    BY <1>1 DEF IngressInv, LatestInv
  <2>2. CASE [key |-> k, n |-> latest[k]] = h
    BY <1>10, <2>2
  <2>3. CASE latest[k] = received[k]
    BY <1>4, <1>10, <2>3
  <2> QED BY <1>8, <2>1, <2>2, <2>3
<1>13. DrainWillRun' /\ (reader' # Idle => ~overload_mode')
  BY <1>1 DEF IngressInv, DrainWillRun
<1> QED BY <1>5, <1>7, <1>11, <1>12, <1>13 DEF IngressInv

\* The coordinator ends, or nothing happens to the updates.
LEMMA IngressRest ==
  ASSUME TypeOK, IngressInv, CoordinatorEnds \/ Notified \/ UNCHANGED vars
  PROVE  TypeOK' /\ IngressInv'
<1>1. UNCHANGED <<pending, popped, reader, overload_mode, count, latest, received>>
  BY DEF CoordinatorEnds, Notified, vars, overloadState, drainVars, streamVars, coordinatorVars
<1>2. \/ queue' = <<>> /\ ~receiving' /\ UNCHANGED <<drain, notified>>
      \/ queue' = queue /\ receiving' = receiving
  BY DEF CoordinatorEnds, Notified, vars, drainVars, coordinatorVars
<1>3. \/ UNCHANGED <<drain, notified>>
      \/ drain' = "draining" /\ notified' = FALSE
  BY DEF CoordinatorEnds, Notified, vars, drainVars
<1>4. TypeOK'
  <2>1. queue' \in Seq(Update) /\ Len(queue') <= QueueCap /\ receiving' \in BOOLEAN
    <3>1. Len(<<>>) = 0 /\ <<>> \in Seq(Update) /\ 0 <= QueueCap
      BY IngressAssumption
    <3>2. receiving' \in BOOLEAN
      BY DEF CoordinatorEnds, Notified, vars, coordinatorVars, TypeOK
    <3> QED BY <1>2, <3>1, <3>2 DEF TypeOK
  <2> QED BY <1>1, <1>3, <2>1 DEF TypeOK
<1>5. DrainWillRun' /\ (reader' # Idle => ~overload_mode')
  BY <1>1, <1>3 DEF IngressInv, DrainWillRun
<1>6. /\ Elems(queue)' \subseteq Elems(queue) /\ Ordered(queue)'
      /\ receiving' => Elems(queue)' = Elems(queue) /\ receiving
  BY <1>2 DEF Elems, Ordered, IngressInv, OrderInv
<1>7. /\ Elems(pending)' = Elems(pending) /\ Distinct(pending)'
      /\ Held(popped)' = Held(popped) /\ Held(reader.update)' = Held(reader.update)
  BY <1>1 DEF Elems, Distinct, Held, IngressInv, OrderInv
<1>8. OrderInv'
  BY <1>6, <1>7 DEF IngressInv, OrderInv, Before
<1>9. OnTheWay' \subseteq OnTheWay /\ (receiving' => OnTheWay \subseteq OnTheWay')
  BY <1>6, <1>7 DEF OnTheWay
<1> QED BY <1>1, <1>4, <1>5, <1>6, <1>8, <1>9, FreshMoves DEF IngressInv

\* Every step of the ingress keeps the invariant.
LEMMA IngressStep == TypeOK /\ IngressInv /\ [Next]_vars => TypeOK' /\ IngressInv'
BY IngressRead, IngressTrySend, IngressOverload, IngressPop, IngressSend, IngressReceive,
   IngressRest DEF Next

\* Types and invariant together are inductive.
LEMMA IngressAlways == Spec => [](TypeOK /\ IngressInv)
BY IngressInit, IngressStep, PTL DEF Spec

-----------------------------------------------------------------------------
(* What the coordinator may rely on *)

\* The ingress is type correct, and its queue never holds more than it may.
THEOREM IngressTypeCorrect == Spec => []TypeOK
BY IngressAlways, PTL

\* No wake-up of the drain task is lost: whatever is retained, the drain task is
\* at work on it or will find its permit, unless it has returned.
THEOREM DrainWillRunAlways == Spec => []DrainWillRun
<1>1. IngressInv => DrainWillRun
  BY DEF IngressInv
<1> QED BY <1>1, IngressAlways, PTL

\* What is on its way, one behind the other, holds the same updates, in order.
LEMMA LineFacts ==
  ASSUME TypeOK, IngressInv
  PROVE  Elems(Line) = OnTheWay /\ Ordered(Line)
<1> DEFINE front == queue \o Opt(popped)
           middle == front \o pending
<1>1. \A u \in Update \cup {None} :
        Opt(u) \in Seq(Update) /\ Elems(Opt(u)) = Held(u) /\ Ordered(Opt(u))
  <2>1. ASSUME NEW u \in Update
        PROVE  /\ <<u>> \in Seq(Update) /\ DOMAIN <<u>> = {1} /\ <<u>>[1] = u
               /\ Opt(u) = <<u>> /\ Held(u) = {u}
    BY NoneIsNoUpdate DEF Opt, Held
  <2>2. \A u \in Update : Elems(<<u>>) = {u} /\ Ordered(<<u>>)
    BY <2>1 DEF Elems, Ordered
  <2>3. <<>> \in Seq(Update) /\ Elems(<<>>) = {} /\ Ordered(<<>>)
    BY DEF Elems, Ordered
  <2>4. Opt(None) = <<>> /\ Held(None) = {}
    BY DEF Opt, Held
  <2> QED BY <2>1, <2>2, <2>3, <2>4
<1>2. /\ popped \in Update \cup {None} /\ reader.update \in Update \cup {None}
      /\ queue \in Seq(Update) /\ pending \in Seq(Update)
  BY ReaderFacts DEF TypeOK
<1>3. Ordered(pending)
  <2>1. \A i, j \in DOMAIN pending : i < j => i # j
    BY <1>2
  <2> QED BY <2>1 DEF IngressInv, OrderInv, Distinct, Ordered
<1>4. /\ front \in Seq(Update) /\ Elems(front) = Elems(queue) \cup Held(popped)
      /\ Ordered(front)
  BY <1>1, <1>2, ElemsConcat DEF IngressInv, OrderInv
<1> HIDE DEF front
<1>5. Before(Elems(front), Elems(pending))
  BY <1>4 DEF IngressInv, OrderInv, Before
<1>6. /\ middle \in Seq(Update)
      /\ Elems(middle) = Elems(queue) \cup Held(popped) \cup Elems(pending)
      /\ Ordered(middle)
  <2>1. middle \in Seq(Update) /\ Elems(middle) = Elems(front) \cup Elems(pending)
    BY <1>2, <1>4, ElemsConcat
  <2>2. Ordered(middle)
    BY <1>2, <1>3, <1>4, <1>5, ElemsConcat
  <2> QED BY <1>4, <2>1, <2>2
<1> HIDE DEF middle
<1>7. Before(Elems(middle), Held(reader.update))
  <2>1. CASE reader = Idle
    BY <2>1, ReaderFacts DEF Held, Before
  <2>2. CASE reader # Idle
    <3>1. Elems(pending) = {} /\ Held(popped) = {}
      BY <2>2, NothingRetained DEF Elems, Held
    <3> QED BY <1>6, <3>1 DEF IngressInv, OrderInv
  <2> QED BY <2>1, <2>2
<1>8. Line = middle \o Opt(reader.update)
  BY DEF Line, middle, front
<1>9. Opt(reader.update) \in Seq(Update) /\ Elems(Opt(reader.update)) = Held(reader.update)
  BY <1>1, <1>2
<1>10. Elems(Line) = Elems(middle) \cup Held(reader.update)
  BY <1>6, <1>8, <1>9, ElemsConcat
<1>11. Ordered(Line)
  BY <1>1, <1>2, <1>6, <1>7, <1>8, <1>9, ElemsConcat
<1> QED BY <1>6, <1>10, <1>11 DEF OnTheWay

\* No update overtakes an older one of its key, whether each of them went
\* straight to the queue or was retained in overload mode first.
THEOREM InOrderAlways == Spec => []InOrder
<1>1. TypeOK /\ IngressInv => InOrder
  <2> SUFFICES ASSUME TypeOK, IngressInv PROVE InOrder
    OBVIOUS
  <2>1. Elems(Line) = OnTheWay /\ Ordered(Line)
    BY LineFacts
  <2>2. \A i \in DOMAIN Line : Line[i] \in OnTheWay
    BY <2>1 DEF Elems
  <2>3. \A i \in DOMAIN Line : received[Line[i].key] < Line[i].n
    BY <2>2 DEF IngressInv, FreshInv
  <2> QED BY <2>1, <2>3 DEF InOrder, Ordered
<1> QED BY <1>1, IngressAlways, PTL

\* While the coordinator lives, the latest update of every key was received or
\* is on its way: coalescing drops only what a newer one has replaced.
THEOREM LatestSurvivesAlways == Spec => []LatestSurvives
<1>1. TypeOK /\ IngressInv => LatestSurvives
  <2> SUFFICES ASSUME TypeOK, IngressInv PROVE LatestSurvives
    OBVIOUS
  <2>1. Elems(Line) = OnTheWay
    BY LineFacts
  <2>2. \A u \in OnTheWay : \E i \in DOMAIN Line : Line[i] = u
    BY <2>1 DEF Elems
  <2> QED BY <2>2 DEF IngressInv, LatestInv, LatestSurvives
<1> QED BY <1>1, IngressAlways, PTL

\* A retained key only moves forward, however often it is updated while it
\* waits: no key is starved by the updates of others.
THEOREM OldestFirstAlways == Spec => OldestFirst
<1>1. ASSUME TypeOK, IngressInv, [Next]_vars, NEW i \in DOMAIN pending
      PROVE  \/ \E j \in 1 .. i : j \in DOMAIN pending' /\ pending'[j].key = pending[i].key
             \/ i = 1 /\ popped' = pending[1]
  <2>1. pending \in Seq(Update) /\ Distinct(pending)
    BY <1>1 DEF TypeOK, IngressInv, OrderInv
  <2>2. i \in Nat /\ i >= 1 /\ i \in 1 .. i /\ DOMAIN pending = 1 .. Len(pending)
    BY <2>1
  <2>3. CASE pending' = pending
    BY <2>2, <2>3
  <2>4. ASSUME NEW u \in Update, pending' = insert(u)
        PROVE  i \in DOMAIN pending' /\ pending'[i].key = pending[i].key
    BY <2>1, <2>4, InsertFacts
  <2>5. ASSUME NEW k \in Keys, ReadEntry(k), pending' # pending
        PROVE  i \in DOMAIN pending' /\ pending'[i].key = pending[i].key
    <3>1. pending' = insert([key |-> k, n |-> count + 1]) /\ count < MaxUpdates
      BY <2>5 DEF ReadEntry
    <3>2. [key |-> k, n |-> count + 1] \in Update
      BY <1>1, <3>1, IngressAssumption DEF TypeOK, Update
    <3> QED BY <2>4, <3>1, <3>2
  <2>6. ASSUME EnterOverload
        PROVE  i \in DOMAIN pending' /\ pending'[i].key = pending[i].key
    <3>1. reader.update \in Update /\ pending' = insert(reader.update)
      BY <1>1, <2>6, ReaderFacts DEF EnterOverload
    <3> QED BY <2>4, <3>1
  <2>7. CASE PopFront /\ pending' # pending
    <3>1. pending # <<>> /\ popped' = Head(pending) /\ pending' = Tail(pending)
      BY <2>7 DEF PopFront
    <3>2. CASE i = 1
      BY <2>1, <3>1, <3>2, ElemsTail
    <3>3. CASE i # 1
      <4>1. /\ DOMAIN pending' = 1 .. (Len(pending) - 1) /\ Len(pending) \in Nat
            /\ \A j \in DOMAIN pending' : pending'[j] = pending[j + 1]
        BY <2>1, <3>1, ElemsTail
      <4>2. i - 1 \in 1 .. i /\ i - 1 \in 1 .. (Len(pending) - 1) /\ (i - 1) + 1 = i
        BY <2>2, <3>3, <4>1
      <4>3. pending'[i - 1] = pending[i]
        BY <4>1, <4>2
      <4> QED BY <4>1, <4>2, <4>3
    <3> QED BY <3>2, <3>3
  <2>8. \/ pending' = pending \/ EnterOverload \/ PopFront
        \/ \E k \in Keys : ReadEntry(k)
    BY <1>1 DEF Next, TrySend, Notified, SendPopped, Receive, CoordinatorEnds, vars, overloadState
  <2> QED BY <2>2, <2>3, <2>5, <2>6, <2>7, <2>8
<1>2. TypeOK /\ IngressInv /\ [Next]_vars =>
        [ \A i \in DOMAIN pending :
            \/ \E j \in 1 .. i : j \in DOMAIN pending' /\ pending'[j].key = pending[i].key
            \/ i = 1 /\ popped' = pending[1] ]_vars
  BY <1>1
<1> QED BY <1>2, IngressAlways, PTL DEF Spec, OldestFirst
=============================================================================
