------------------------------ MODULE Ingress ------------------------------
(***************************************************************************)
(* Automated ingress (src/engine/ingress.rs): the Redis reader offers      *)
(* updates to the coordinator's bounded queue; when the queue is full the  *)
(* ingress goes into overload mode, where the latest update of every key   *)
(* is retained and a drain task hands the retained ones over.              *)
(*                                                                         *)
(* The reader and the drain task share overload_mode and pending under a   *)
(* mutex; an action is what one of them does while it holds the lock, or   *)
(* what it does to the queue between two locks.                            *)
(***************************************************************************)
EXTENDS Naturals, Sequences

CONSTANTS
  None,         \* an absent Option
  Keys,         \* alarm identities
  QueueCap,     \* capacity of the automated queue
  MaxUpdates    \* how many entries the stream has

ASSUME IngressAssumption ==
  /\ QueueCap \in Nat \ {0}
  /\ MaxUpdates \in Nat

\* A status of a key: the n-th entry of the stream.
Update == [key : Keys, n : 1 .. MaxUpdates]

ASSUME NoneIsNoUpdate == None \notin Update

VARIABLES
  overload_mode,
  pending,      \* the retained updates, oldest key first
  notified,     \* overload_notify holds a permit
  drain,        \* the drain task: "waiting", "draining" or "returned"
  popped,       \* the update whose send the drain task awaits, or None
  reader,       \* where the reader is in send_automated_update, and with what
  queue,        \* the coordinator's automated queue
  receiving,    \* the coordinator has not ended
  count,        \* history: entries read so far
  latest,       \* history: [Keys -> number of the last entry of the key]
  received      \* history: [Keys -> number of the last update received]

overloadState == <<overload_mode, pending>>
drainVars == <<drain, popped>>
coordinatorVars == <<receiving, received>>
streamVars == <<count, latest>>
vars == <<overload_mode, pending, notified, drain, popped, reader, queue,
          receiving, count, latest, received>>

Idle == [stage |-> "reading", update |-> None]

\* Every variable has its type, and the queue is never longer than it may be.
TypeOK ==
  /\ overload_mode \in BOOLEAN
  /\ pending \in Seq(Update)
  /\ notified \in BOOLEAN
  /\ drain \in {"waiting", "draining", "returned"}
  /\ popped \in Update \cup {None}
  /\ reader \in {Idle} \cup [stage : {"checked", "full"}, update : Update]
  /\ queue \in Seq(Update) /\ Len(queue) <= QueueCap
  /\ receiving \in BOOLEAN
  /\ count \in 0 .. MaxUpdates
  /\ latest \in [Keys -> 0 .. MaxUpdates]
  /\ received \in [Keys -> 0 .. MaxUpdates]

\* AutomatedIngressHandle::new, with an empty queue.
Init ==
  /\ overload_mode = FALSE /\ pending = <<>> /\ notified = FALSE
  /\ drain = "waiting" /\ popped = None
  /\ reader = Idle
  /\ queue = <<>> /\ receiving = TRUE
  /\ count = 0
  /\ latest = [k \in Keys |-> 0] /\ received = [k \in Keys |-> 0]

-----------------------------------------------------------------------------
(* The retained updates: a map that keeps the order of insertion *)

Retained(k) == \E i \in DOMAIN pending : pending[i].key = k

\* Mutant: keeps the value a key already has.
insert_first_wins(u) == IF Retained(u.key) THEN pending ELSE Append(pending, u)

\* Mutant: a key that is updated goes to the back of the line.
insert_at_back(u) == Append(SelectSeq(pending, LAMBDA p : p.key # u.key), u)

\* RingMap::insert: the value of a key already in the map is replaced in place.
insert(u) ==
  IF Retained(u.key)
    THEN [i \in DOMAIN pending |-> IF pending[i].key = u.key THEN u ELSE pending[i]]
    ELSE Append(pending, u)

-----------------------------------------------------------------------------
(* The reader: one entry after the other through send_automated_update *)

\* Mutant: offers every update to the queue.
ReadEntry_direct(k) ==
  LET u == [key |-> k, n |-> count + 1]
  IN  /\ reader = Idle /\ count < MaxUpdates
      /\ count' = count + 1
      /\ latest' = [latest EXCEPT ![k] = count + 1]
      /\ reader' = [stage |-> "checked", update |-> u]
      /\ UNCHANGED <<overloadState, notified, drainVars, queue, coordinatorVars>>

\* The next entry of the stream, up to the release of the lock.  Entries
\* without a device are skipped and are left out of the stream here.
ReadEntry(k) ==
  LET u == [key |-> k, n |-> count + 1]
  IN  /\ reader = Idle /\ count < MaxUpdates
      /\ count' = count + 1
      /\ latest' = [latest EXCEPT ![k] = count + 1]
      /\ IF overload_mode
           THEN pending' = insert(u) /\ UNCHANGED reader
           ELSE reader' = [stage |-> "checked", update |-> u] /\ UNCHANGED pending
      /\ UNCHANGED <<overload_mode, notified, drainVars, queue, coordinatorVars>>

\* Mutant: takes the queue for full one message too late.
TrySend_overfills ==
  /\ reader.stage = "checked"
  /\ IF receiving /\ Len(queue) > QueueCap
       THEN reader' = [reader EXCEPT !.stage = "full"] /\ UNCHANGED queue
       ELSE /\ reader' = Idle
            /\ queue' = IF receiving THEN Append(queue, reader.update) ELSE queue
  /\ UNCHANGED <<overloadState, notified, drainVars, streamVars, coordinatorVars>>

\* try_send: the update is queued, finds the queue full, or is refused because
\* the coordinator is gone.  The reader logs a refusal and reads on.
TrySend ==
  /\ reader.stage = "checked"
  /\ IF receiving /\ Len(queue) >= QueueCap
       THEN reader' = [reader EXCEPT !.stage = "full"] /\ UNCHANGED queue
       ELSE /\ reader' = Idle
            /\ queue' = IF receiving THEN Append(queue, reader.update) ELSE queue
  /\ UNCHANGED <<overloadState, notified, drainVars, streamVars, coordinatorVars>>

\* Mutant: goes into overload mode without waking the drain task.
EnterOverload_silently ==
  /\ reader.stage = "full"
  /\ pending' = insert(reader.update)
  /\ overload_mode' = TRUE
  /\ reader' = Idle
  /\ UNCHANGED <<notified, drainVars, queue, streamVars, coordinatorVars>>

\* The lock is taken again: the update is retained and the drain task woken.
EnterOverload ==
  /\ reader.stage = "full"
  /\ pending' = insert(reader.update)
  /\ overload_mode' = TRUE
  /\ notified' = TRUE
  /\ reader' = Idle
  /\ UNCHANGED <<drainVars, queue, streamVars, coordinatorVars>>

-----------------------------------------------------------------------------
(* run_overload_drain_loop *)

Notified ==
  /\ drain = "waiting" /\ notified
  /\ notified' = FALSE
  /\ drain' = "draining"
  /\ UNCHANGED <<overloadState, popped, reader, queue, streamVars, coordinatorVars>>

\* Mutant: goes back to waiting in overload mode.
PopFront_stays_overloaded ==
  /\ drain = "draining" /\ popped = None
  /\ IF pending # <<>>
       THEN /\ popped' = Head(pending) /\ pending' = Tail(pending)
            /\ UNCHANGED drain
       ELSE /\ drain' = "waiting"
            /\ UNCHANGED <<popped, pending>>
  /\ UNCHANGED <<overload_mode, notified, reader, queue, streamVars, coordinatorVars>>

\* Under the lock: takes the oldest retained update, or ends overload mode.
PopFront ==
  /\ drain = "draining" /\ popped = None
  /\ IF pending # <<>>
       THEN /\ popped' = Head(pending) /\ pending' = Tail(pending)
            /\ UNCHANGED <<overload_mode, drain>>
       ELSE /\ overload_mode' = FALSE /\ drain' = "waiting"
            /\ UNCHANGED <<popped, pending>>
  /\ UNCHANGED <<notified, reader, queue, streamVars, coordinatorVars>>

\* Mutant: does not wait for room.
SendPopped_drops ==
  /\ popped # None
  /\ popped' = None
  /\ IF receiving
       THEN /\ queue' = IF Len(queue) < QueueCap THEN Append(queue, popped) ELSE queue
            /\ UNCHANGED drain
       ELSE drain' = "returned" /\ UNCHANGED queue
  /\ UNCHANGED <<overloadState, notified, reader, streamVars, coordinatorVars>>

\* The awaited send ends: the queue had room, or the coordinator is gone and
\* the drain task returns.
SendPopped ==
  /\ popped # None
  /\ receiving => Len(queue) < QueueCap
  /\ popped' = None
  /\ IF receiving THEN queue' = Append(queue, popped) /\ UNCHANGED drain
                  ELSE drain' = "returned" /\ UNCHANGED queue
  /\ UNCHANGED <<overloadState, notified, reader, streamVars, coordinatorVars>>

-----------------------------------------------------------------------------
(* The coordinator's end of the queue *)

Receive ==
  /\ receiving /\ queue # <<>>
  /\ received' = [received EXCEPT ![Head(queue).key] = Head(queue).n]
  /\ queue' = Tail(queue)
  /\ UNCHANGED <<overloadState, notified, drainVars, reader, receiving, streamVars>>

\* The event loop breaks and drops its receiver with what is queued.
CoordinatorEnds ==
  /\ receiving
  /\ receiving' = FALSE /\ queue' = <<>>
  /\ UNCHANGED <<overloadState, notified, drainVars, reader, received, streamVars>>

Next ==
  \/ \E k \in Keys : ReadEntry(k)
  \/ TrySend \/ EnterOverload
  \/ Notified \/ PopFront \/ SendPopped
  \/ Receive \/ CoordinatorEnds

\* Both tasks keep running, and the coordinator keeps taking automated
\* updates.  Nothing makes entries arrive.
Fairness ==
  /\ WF_vars(TrySend) /\ WF_vars(EnterOverload)
  /\ WF_vars(Notified) /\ WF_vars(PopFront) /\ WF_vars(SendPopped)
  /\ WF_vars(Receive)

Spec == Init /\ [][Next]_vars

FairSpec == Spec /\ Fairness

-----------------------------------------------------------------------------
(* Properties *)

\* The updates on their way to the coordinator, in the order they will arrive.
Opt(u) == IF u = None THEN <<>> ELSE <<u>>
Line == queue \o Opt(popped) \o pending \o Opt(reader.update)

\* A newer update never overtakes an older one of its key, whichever of the
\* two ways each of them takes: what the coordinator received last, what is
\* queued, what the drain task holds, what is retained and what the reader
\* has in hand are in the order of the stream, key by key.
InOrder ==
  /\ \A i, j \in DOMAIN Line : i < j /\ Line[i].key = Line[j].key => Line[i].n < Line[j].n
  /\ \A i \in DOMAIN Line : received[Line[i].key] < Line[i].n

\* Coalescing drops only what a newer update of the key has replaced: while
\* the coordinator lives, the last update of a key was received or is on its way.
LatestSurvives ==
  receiving =>
    \A k \in Keys :
      \/ latest[k] = received[k]
      \/ \E i \in DOMAIN Line : Line[i] = [key |-> k, n |-> latest[k]]

\* No wake-up is lost: as long as updates are retained, overload mode is on and
\* the drain task is at work or will find its permit, unless it has returned.
DrainWillRun ==
  /\ pending # <<>> \/ popped # None => overload_mode
  /\ overload_mode /\ drain = "waiting" => notified

\* "It removes the oldest retained entry": a retained key only ever moves
\* forward, however often it is updated while it waits.
OldestFirst ==
  [][ \A i \in DOMAIN pending :
        \/ \E j \in 1 .. i : j \in DOMAIN pending' /\ pending'[j].key = pending[i].key
        \/ i = 1 /\ popped' = pending[1] ]_vars

\* Overload mode ends once the stream falls silent.
OverloadEnds == overload_mode ~> ~overload_mode \/ ~receiving

\* Every key's last update reaches the coordinator.
LatestArrives ==
  \A k \in Keys : \A n \in 1 .. MaxUpdates :
    latest[k] = n ~> received[k] >= n \/ ~receiving
=============================================================================
