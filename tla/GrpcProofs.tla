----------------------------- MODULE GrpcProofs -----------------------------
(***************************************************************************)
(* Proofs about GrpcAdapter, for every set of callers, requests, keys and  *)
(* queue bounds: a call that is answered Ok has every one of its devices   *)
(* confirmed, and a snapshot asked for afterwards shows it.                *)
(*                                                                         *)
(* The argument has four layers.  The jobs on their way: one for a key, as *)
(* in AlarmServiceProofs, with the handler reduced to its outside.  The    *)
(* ids: what is confirmed is no newer than the job on its way, and that no *)
(* newer than the intent.  The tickets: whatever carries the id of a       *)
(* recorded update has that update's key and status.  The calls: a message *)
(* in the user queue is for a ticket nothing else is for.                  *)
(***************************************************************************)
EXTENDS GrpcAdapter, CoordinatorProofs

-----------------------------------------------------------------------------
(* Sequences *)

\* A sequence without its i-th element has the others, each once.
LEMMA RemoveAtFacts ==
  ASSUME NEW X, NEW s \in Seq(X), NEW i \in 1 .. Len(s)
  PROVE  /\ RemoveAt(s, i) \in Seq(X)
         /\ DOMAIN RemoveAt(s, i) = 1 .. Len(s) - 1
         /\ \A j \in 1 .. Len(s) - 1 : RemoveAt(s, i)[j] = IF j < i THEN s[j] ELSE s[j + 1]
<1> DEFINE front == SubSeq(s, 1, i - 1)
           back == SubSeq(s, i + 1, Len(s))
<1>1. front \in Seq(X) /\ Len(front) = i - 1 /\ \A j \in 1 .. i - 1 : front[j] = s[j]
  OBVIOUS
<1>2. back \in Seq(X) /\ Len(back) = Len(s) - i /\ \A j \in 1 .. Len(s) - i : back[j] = s[i + j]
  OBVIOUS
<1>3. RemoveAt(s, i) = front \o back
  BY DEF RemoveAt
<1> HIDE DEF front, back
<1>4. front \o back \in Seq(X)
  BY <1>1, <1>2
<1>5. Len(front \o back) = Len(s) - 1
  <2>1. Len(front \o back) = Len(front) + Len(back)
    BY <1>1, <1>2, ConcatProperties
  <2> QED BY <1>1, <1>2, <2>1
<1>6. DOMAIN (front \o back) = 1 .. Len(s) - 1
  BY <1>4, <1>5
<1>7. ASSUME NEW j \in 1 .. Len(s) - 1
      PROVE  (front \o back)[j] = IF j < i THEN s[j] ELSE s[j + 1]
  <2>1. CASE j < i
    BY <1>1, <1>2, <2>1
  <2>2. CASE ~(j < i)
    <3>1. (front \o back)[j] = back[j - (i - 1)]
      BY <1>1, <1>2, <2>2
    <3>2. j - (i - 1) \in 1 .. Len(s) - i /\ i + (j - (i - 1)) = j + 1
      BY <2>2
    <3>3. back[j - (i - 1)] = s[i + (j - (i - 1))]
      BY <1>2, <3>2
    <3> QED BY <2>2, <3>1, <3>2, <3>3
  <2> QED BY <2>1, <2>2
<1> QED BY <1>3, <1>4, <1>6, <1>7

-----------------------------------------------------------------------------
(* Jobs on their way *)

\* The job taken out of the queue was the only one of its key.
LEMMA QueueRemove ==
  ASSUME job_queue \in Seq(Job), NEW i \in DOMAIN job_queue,
         job_queue' = RemoveAt(job_queue, i)
  PROVE  /\ job_queue' \in Seq(Job)
         /\ \A M : Holds(job_queue, M)' => Holds(job_queue, M)
         /\ \A k : InQueue(k)' => InQueue(k)
         /\ \A k : OnceInQueue(k) => OnceInQueue(k)'
         /\ \A k : OnceInQueue(k) /\ job_queue[i].key = k => ~InQueue(k)'
<1>1. PICK n \in Nat : n = Len(job_queue) /\ DOMAIN job_queue = 1 .. n
  OBVIOUS
<1>2. /\ job_queue' \in Seq(Job)
      /\ DOMAIN job_queue' = 1 .. n - 1
      /\ \A p \in 1 .. n - 1 : job_queue'[p] = IF p < i THEN job_queue[p] ELSE job_queue[p + 1]
  BY <1>1, RemoveAtFacts
<1> DEFINE at(p) == IF p < i THEN p ELSE p + 1
<1>3. \A p \in DOMAIN job_queue' : at(p) \in DOMAIN job_queue /\ at(p) # i
  BY <1>1, <1>2
<1>4. \A p \in DOMAIN job_queue' : job_queue'[p] = job_queue[at(p)]
  BY <1>2
<1>5. \A p, q \in DOMAIN job_queue' : at(p) = at(q) => p = q
  BY <1>1, <1>2
<1> HIDE DEF at
<1>6. \A M : Holds(job_queue, M)' => Holds(job_queue, M)
  BY <1>3, <1>4 DEF Holds
<1>7. \A k : InQueue(k)' => InQueue(k)
  BY <1>3, <1>4 DEF InQueue
<1>8. \A k : OnceInQueue(k) => OnceInQueue(k)'
  BY <1>3, <1>4, <1>5 DEF OnceInQueue
<1>9. \A k : OnceInQueue(k) /\ job_queue[i].key = k => ~InQueue(k)'
  BY <1>3, <1>4 DEF OnceInQueue, InQueue
<1> QED BY <1>2, <1>6, <1>7, <1>8, <1>9

\* Job j is being sent, with the handler, or in an outcome.
Carries(j) == sending = j \/ Holds(job_queue, {j}) \/ Holds(job_outcomes, Outcomes(j))

InFlight(k) == InSending(k) \/ InQueue(k) \/ InOutcomes(k)

\* Key k has at most one job on its way, and intent when it has one.
KeyInv(k) ==
  /\ InSending(k) => ~InQueue(k) /\ ~InOutcomes(k)
  /\ InQueue(k) => ~InOutcomes(k)
  /\ OnceInQueue(k) /\ OnceInOutcomes(k)
  /\ InFlight(k) => speculative_state[k] # None

JobInv == OutcomeKeys /\ \A k \in Keys : KeyInv(k)

\* A job on its way is in flight for its key, and is the one being sent when
\* its key is.
LEMMA CarriesFacts ==
  ASSUME JobInv, NEW j \in Job, Carries(j)
  PROVE  /\ speculative_state[j.key] # None
         /\ InSending(j.key) => j = sending
<1>1. j.key \in Keys /\ j # None
  BY NoneIsNoRecord DEF Job
<1>2. sending = j => InSending(j.key)
  BY <1>1 DEF InSending
<1>3. Holds(job_queue, {j}) => InQueue(j.key)
  BY DEF Holds, InQueue
<1>4. Holds(job_outcomes, Outcomes(j)) => InOutcomes(j.key)
  BY DEF Holds, InOutcomes, Outcomes, Committed, Failed
<1> QED BY <1>1, <1>2, <1>3, <1>4 DEF Carries, JobInv, KeyInv, InFlight

\* The same of the state after a step.
LEMMA CarriesFactsNext ==
  ASSUME JobInv', NEW j \in Job, Carries(j)'
  PROVE  /\ speculative_state'[j.key] # None
         /\ InSending(j.key)' => j = sending'
<1>1. j.key \in Keys /\ j # None
  BY NoneIsNoRecord DEF Job
<1>2. sending' = j => InSending(j.key)'
  BY <1>1 DEF InSending
<1>3. Holds(job_queue, {j})' => InQueue(j.key)'
  BY DEF Holds, InQueue
<1>4. Holds(job_outcomes, Outcomes(j))' => InOutcomes(j.key)'
  BY DEF Holds, InOutcomes, Outcomes, Committed, Failed
<1> QED BY <1>1, <1>2, <1>3, <1>4 DEF Carries, JobInv, KeyInv, InFlight

\* The outcome at the head of the channel gives a job back that is on its way.
LEMMA HeadFacts ==
  ASSUME ChannelsTypeOK, JobInv, job_outcomes # <<>>,
         Head(job_outcomes).kind \in {"Committed", "Failed"}
  PROVE  /\ Head(job_outcomes).job \in Job
         /\ Head(job_outcomes).key = Head(job_outcomes).job.key
         /\ Carries(Head(job_outcomes).job)
         /\ speculative_state[Head(job_outcomes).job.key] # None
<1> DEFINE head == Head(job_outcomes)
<1>1. job_outcomes \in Seq(JobOutcome)
  BY DEF ChannelsTypeOK
<1>2. head \in JobOutcome /\ 1 \in DOMAIN job_outcomes /\ job_outcomes[1] = head
  BY <1>1, TailFacts
<1>3. head.job.key = head.key /\ head.job \in Job
  BY <1>2 DEF JobInv, OutcomeKeys, JobOutcome
<1> HIDE DEF head
<1>4. head = [kind |-> head.kind, key |-> head.key, job |-> head.job]
  BY <1>2 DEF JobOutcome
<1>5. head \in Outcomes(head.job)
  BY <1>3, <1>4 DEF Outcomes, Committed, Failed, head
<1>6. Carries(head.job)
  BY <1>2, <1>5 DEF Holds, Carries
<1> QED BY <1>3, <1>6, CarriesFacts DEF head

\* A turn of the coordinator starts no job but the one it then sends.
LEMMA CarriesTurn ==
  ASSUME ChannelsTypeOK, NEW j \in Job, Carries(j)',
         \/ job_queue' = job_queue
         \/ sending \in Job /\ job_queue' = Append(job_queue, sending),
         \/ job_outcomes' = job_outcomes
         \/ job_outcomes # <<>> /\ job_outcomes' = Tail(job_outcomes)
  PROVE  Carries(j) \/ j = sending'
<1>1. job_queue \in Seq(Job) /\ job_outcomes \in Seq(JobOutcome)
  BY DEF ChannelsTypeOK
<1>2. Holds(job_queue, {j})' => Holds(job_queue, {j}) \/ sending = j
  BY <1>1, HoldsAppend
<1>3. Outcomes(j)' = Outcomes(j)
  BY DEF Outcomes, Committed, Failed
<1>4. Holds(job_outcomes, Outcomes(j))' => Holds(job_outcomes, Outcomes(j))
  BY <1>1, <1>3, HoldsTail
<1> QED BY <1>2, <1>4 DEF Carries

-----------------------------------------------------------------------------
(* What each turn of the coordinator does, in the terms of the invariants *)

\* A user update that is accepted: the newest intent, sent when the key has none.
Records(k, a) ==
  LET entry == [status |-> build_user_status(a), id |-> id_counter]
  IN  /\ running /\ sending = None
      /\ entry \in Entry /\ entry # None
      /\ speculative_state'[k] = entry
      /\ \A x \in Keys : x # k => speculative_state'[x] = speculative_state[x]
      /\ IF speculative_state[k] # None THEN sending' = None
         ELSE /\ sending' \in Job /\ sending' # None
              /\ sending'.key = k /\ sending'.id = entry.id /\ sending'.status = entry.status
      /\ id_counter' = id_counter + 1
      /\ last_intent'[k] = id_counter
      /\ \A x \in Keys : x # k => last_intent'[x] = last_intent[x]
      /\ UNCHANGED <<confirmed_state, committing, running, replies, job_queue, job_outcomes>>

\* handle_user_update does that.
LEMMA IntentTurn ==
  ASSUME CoordinatorTypeOK, NEW k \in Keys, NEW a \in UserAction, handle_user_update(k, a)
  PROVE  Records(k, a)
<1> DEFINE status == build_user_status(a)
           entry == [status |-> status, id |-> id_counter]
           spec == [speculative_state EXCEPT ![k] = entry]
           pending == pending_confirmations \cup {id_counter}
<1>1. status \in Status
  BY StatusTypes
<1>2. entry \in Entry /\ entry # None /\ entry.status = status /\ entry.id = id_counter
  BY <1>1, EntryFacts DEF CoordinatorTypeOK
<1>3. RecordIntent(k, status, pending) /\ UNCHANGED <<job_queue, job_outcomes>>
      /\ running /\ sending = None
  BY DEF handle_user_update, TakesInput, Listening, jobChannels
<1>4. /\ speculative_state' = spec
      /\ sending' = IF speculative_state[k] = None THEN send_next_for(k, spec, pending) ELSE None
      /\ id_counter' = id_counter + 1
      /\ last_intent' = [last_intent EXCEPT ![k] = id_counter]
      /\ UNCHANGED <<confirmed_state, committing, running, replies>>
  BY <1>3 DEF RecordIntent
<1> HIDE DEF status
<1>5. /\ spec \in [Keys -> Entry \cup {None}] /\ spec[k] = entry
      /\ \A x \in Keys : x # k => spec[x] = speculative_state[x]
  BY <1>2 DEF CoordinatorTypeOK
<1> HIDE DEF entry, spec
<1>6. /\ send_next_for(k, spec, pending) \in Job
      /\ send_next_for(k, spec, pending) # None
      /\ send_next_for(k, spec, pending).key = k
      /\ send_next_for(k, spec, pending).id = entry.id
      /\ send_next_for(k, spec, pending).status = entry.status
  BY <1>2, <1>5, SendNextFacts
<1>7. /\ last_intent'[k] = id_counter
      /\ \A x \in Keys : x # k => last_intent'[x] = last_intent[x]
  BY <1>4 DEF CoordinatorTypeOK
<1>8. IF speculative_state[k] # None THEN sending' = None
      ELSE /\ sending' \in Job /\ sending' # None
           /\ sending'.key = k /\ sending'.id = entry.id /\ sending'.status = entry.status
  BY <1>4, <1>6
<1> QED BY <1>2, <1>3, <1>4, <1>5, <1>7, <1>8 DEF Records, entry, status

\* What both kinds of outcome have in common: job was on its way, and the answer
\* to it is the only one given.
Reconciles(job, result) ==
  /\ running /\ sending = None
  /\ Carries(job) /\ speculative_state[job.key] # None
  /\ job_outcomes # <<>> /\ job_outcomes' = Tail(job_outcomes)
  /\ Head(job_outcomes).kind # "Wake" /\ Head(job_outcomes).key = job.key
  /\ replies \subseteq replies'
  /\ \A r \in replies' :
       r \in replies \/ r = [id |-> job.id, key |-> job.key, result |-> result]
  /\ UNCHANGED <<id_counter, running, last_intent, job_queue>>

\* The next job of key k is sent, for the intent there is after the turn.
SendsNext(k) ==
  /\ sending' \in Job /\ sending' # None /\ sending'.key = k
  /\ speculative_state'[k] # None
  /\ sending'.id = speculative_state'[k].id
  /\ sending'.status = speculative_state'[k].status

\* reconcile_success: a superseded success waits for the send, another is
\* confirmed at once.
LEMMA SuccessTurn ==
  ASSUME ChannelsTypeOK, CoordinatorTypeOK, JobInv, reconcile_success
  PROVE  \E job \in Job :
           /\ Reconciles(job, "Ok")
           /\ \/ /\ SendsNext(job.key)
                 /\ committing' = job
                 /\ UNCHANGED <<speculative_state, confirmed_state>>
              \/ /\ speculative_state[job.key].id = job.id
                 /\ speculative_state' = [speculative_state EXCEPT ![job.key] = None]
                 /\ confirmed_state' = [confirmed_state EXCEPT ![job.key] =
                                          [status |-> job.status, id |-> job.id]]
                 /\ UNCHANGED <<sending, committing>>
<1>1. /\ job_outcomes # <<>> /\ Head(job_outcomes).kind = "Committed"
      /\ running /\ sending = None
  BY DEF reconcile_success, Listening
<1>2. PICK job \in Job : job = Head(job_outcomes).job
  BY <1>1, HeadFacts
<1>3. /\ Carries(job) /\ speculative_state[job.key] # None
      /\ Head(job_outcomes).key = job.key
  BY <1>1, <1>2, HeadFacts
<1>4. PICK k \in Keys : k = job.key
  BY DEF Job
<1>5. PICK pending : pending = pending_confirmations \ {job.id}
  OBVIOUS
<1>6. /\ replies' = Answer(job, "Ok")
      /\ job_outcomes' = Tail(job_outcomes)
      /\ UNCHANGED <<id_counter, running, last_intent, job_queue>>
  BY <1>2 DEF reconcile_success
<1>7. Reconciles(job, "Ok")
  BY <1>1, <1>3, <1>6, AnswerFacts DEF Reconciles
<1>8. CASE IsSuperseded(job)
  <2>1. /\ sending' = send_next_for(k, speculative_state, pending)
        /\ committing' = job
        /\ UNCHANGED <<speculative_state, confirmed_state>>
    BY <1>2, <1>4, <1>5, <1>8 DEF reconcile_success
  <2>2. SendsNext(k)
    BY <1>3, <1>4, <2>1, SendNextFacts DEF SendsNext, CoordinatorTypeOK
  <2> QED BY <1>4, <1>7, <2>1, <2>2
<1>9. CASE ~IsSuperseded(job)
  <2>1. /\ speculative_state' = [speculative_state EXCEPT ![job.key] = None]
        /\ confirmed_state' = [confirmed_state EXCEPT ![job.key] =
                                 [status |-> job.status, id |-> job.id]]
        /\ UNCHANGED <<sending, committing>>
    BY <1>2, <1>9 DEF reconcile_success
  <2>2. speculative_state[job.key].id = job.id
    BY <1>3, <1>9 DEF IsSuperseded
  <2> QED BY <1>7, <2>1, <2>2
<1> QED BY <1>8, <1>9

\* reconcile_failure: the intent stays, or is rolled back to what is confirmed.
LEMMA FailureTurn ==
  ASSUME ChannelsTypeOK, CoordinatorTypeOK, JobInv, reconcile_failure
  PROVE  \E job \in Job :
           /\ Reconciles(job, "Internal")
           /\ SendsNext(job.key)
           /\ \A x \in Keys : x # job.key => speculative_state'[x] = speculative_state[x]
           /\ \/ speculative_state'[job.key] = speculative_state[job.key]
              \/ /\ confirmed_state[job.key] # None
                 /\ speculative_state'[job.key] = confirmed_state[job.key]
              \/ /\ confirmed_state[job.key] = None
                 /\ speculative_state'[job.key].id = DEFAULT_HYDRATED_ID
           /\ UNCHANGED <<confirmed_state, committing>>
<1>1. /\ job_outcomes # <<>> /\ Head(job_outcomes).kind = "Failed"
      /\ running /\ sending = None
  BY DEF reconcile_failure, Listening
<1>2. PICK job \in Job : job = Head(job_outcomes).job
  BY <1>1, HeadFacts
<1>3. /\ Carries(job) /\ speculative_state[job.key] # None
      /\ Head(job_outcomes).key = job.key
  BY <1>1, <1>2, HeadFacts
<1>4. PICK k \in Keys : k = job.key
  BY DEF Job
<1>5. PICK pending : pending = pending_confirmations \ {job.id}
  OBVIOUS
<1>6. PICK rolled : rolled = converge_to_last_confirmed(k)
  OBVIOUS
<1>7. PICK spec : spec = IF ~IsSuperseded(job) /\ job.user_initiated
                           THEN [speculative_state EXCEPT ![k] = rolled]
                           ELSE speculative_state
  OBVIOUS
<1>8. /\ replies' = Answer(job, "Internal")
      /\ job_outcomes' = Tail(job_outcomes)
      /\ speculative_state' = spec
      /\ sending' = send_next_for(k, spec, pending)
      /\ UNCHANGED <<confirmed_state, committing, id_counter, running, last_intent, job_queue>>
  BY <1>2, <1>3, <1>4, <1>5, <1>6, <1>7 DEF reconcile_failure
<1>9. Reconciles(job, "Internal")
  BY <1>1, <1>3, <1>8, AnswerFacts DEF Reconciles
<1>10. /\ rolled \in Entry /\ rolled # None
       /\ IF confirmed_state[k] # None THEN rolled = confirmed_state[k]
                                       ELSE rolled.id = DEFAULT_HYDRATED_ID
  <2>1. rolled \in Entry
    BY <1>6, StatusTypes DEF converge_to_last_confirmed, CoordinatorTypeOK, Entry,
                             DEFAULT_HYDRATED_ID
  <2>2. IF confirmed_state[k] # None THEN rolled = confirmed_state[k]
                                     ELSE rolled.id = DEFAULT_HYDRATED_ID
    BY <1>6 DEF converge_to_last_confirmed
  <2> QED BY <2>1, <2>2, NoneIsNoRecord
<1>11. /\ spec \in [Keys -> Entry \cup {None}] /\ spec[k] # None
       /\ spec[k] = rolled \/ spec[k] = speculative_state[k]
       /\ \A x \in Keys : x # k => spec[x] = speculative_state[x]
  BY <1>3, <1>4, <1>7, <1>10 DEF CoordinatorTypeOK
<1>12. SendsNext(k)
  BY <1>8, <1>11, SendNextFacts DEF SendsNext
<1> QED BY <1>4, <1>8, <1>9, <1>10, <1>11, <1>12

\* SendJob: the job is with the handler, and what waited for it is confirmed.
LEMMA SendTurn ==
  ASSUME CoordinatorTypeOK, SendJob
  PROVE  /\ running /\ sending \in Job /\ sending # None /\ sending' = None
         /\ committing' = None /\ job_queue' = Append(job_queue, sending)
         /\ UNCHANGED <<speculative_state, id_counter, running, replies, last_intent,
                        job_outcomes>>
         /\ committing = None => confirmed_state' = confirmed_state
         /\ committing # None =>
              /\ committing \in Job
              /\ confirmed_state' = [confirmed_state EXCEPT ![committing.key] =
                                       [status |-> committing.status, id |-> committing.id]]
BY DEF SendJob, Commit, CoordinatorTypeOK

\* SendFails: the event loop ends, and whoever has the intent of a key is told.
LEMMA EndTurn ==
  ASSUME SendFails
  PROVE  /\ running' = FALSE /\ sending' = None /\ committing' = None
         /\ replies \subseteq replies'
         /\ \A r \in replies' :
              r \in replies \/ \E k \in Keys : /\ speculative_state[k] # None
                                               /\ r.id = speculative_state[k].id /\ r.key = k
                                               /\ r.result = "Internal"
         /\ UNCHANGED <<confirmed_state, speculative_state, id_counter, last_intent,
                        job_queue, job_outcomes>>
BY DEF SendFails, fail_all_confirmations, jobChannels

-----------------------------------------------------------------------------
(* One job per key *)

\* A recorded intent is sent only when its key has no job on its way.
LEMMA JobIntent ==
  ASSUME JobInv, NEW k \in Keys, NEW a, Records(k, a)
  PROVE  JobInv'
<1>1. OutcomeKeys'
  BY DEF JobInv, Records, OutcomeKeys
<1>2. ASSUME NEW x \in Keys PROVE KeyInv(x)'
  <2>1. KeyInv(x)
    BY DEF JobInv
  <2>2. /\ InQueue(x)' <=> InQueue(x)
        /\ OnceInQueue(x)' <=> OnceInQueue(x)
        /\ InOutcomes(x)' <=> InOutcomes(x)
        /\ OnceInOutcomes(x)' <=> OnceInOutcomes(x)
    BY DEF Records, InQueue, OnceInQueue, InOutcomes, OnceInOutcomes
  <2>3. /\ ~InSending(x)
        /\ InSending(x)' => x = k /\ speculative_state[k] = None
    BY DEF Records, InSending
  <2>4. /\ speculative_state'[k] # None
        /\ x # k => speculative_state'[x] = speculative_state[x]
    BY DEF Records
  <2> QED BY <2>1, <2>2, <2>3, <2>4 DEF KeyInv, InFlight
<1> QED BY <1>1, <1>2 DEF JobInv

\* A reconciled outcome held the only job of its key; the next one is sent, or
\* the key has no intent left.
LEMMA JobReconcile ==
  ASSUME ChannelsTypeOK, JobInv, NEW job \in Job, NEW result, Reconciles(job, result),
         \/ sending' = None
         \/ sending' # None /\ sending'.key = job.key /\ speculative_state'[job.key] # None,
         \A x \in Keys : x # job.key => speculative_state'[x] = speculative_state[x]
  PROVE  JobInv'
<1>1. PICK k \in Keys : k = job.key
  BY DEF Job
<1>2. /\ job_outcomes \in Seq(JobOutcome) /\ job_outcomes # <<>>
      /\ job_outcomes' = Tail(job_outcomes) /\ job_queue' = job_queue
      /\ Head(job_outcomes).kind # "Wake" /\ Head(job_outcomes).key = k
      /\ sending = None
  BY <1>1 DEF ChannelsTypeOK, Reconciles
<1>3. OutcomeKeys'
  BY <1>2, OutcomeKeysTail DEF JobInv
<1>4. ASSUME NEW x \in Keys PROVE KeyInv(x)'
  <2>1. KeyInv(x)
    BY DEF JobInv
  <2>2. /\ Head(job_outcomes).key = x => InOutcomes(x)
        /\ InOutcomes(x)' => InOutcomes(x)
        /\ OnceInOutcomes(x) => OnceInOutcomes(x)'
        /\ OnceInOutcomes(x) /\ Head(job_outcomes).key = x => ~InOutcomes(x)'
    BY <1>2, OutcomesTail
  <2>3. /\ InQueue(x)' <=> InQueue(x)
        /\ OnceInQueue(x)' <=> OnceInQueue(x)
    BY <1>2 DEF InQueue, OnceInQueue
  <2>4. /\ ~InSending(x)
        /\ InSending(x)' => x = k /\ speculative_state'[k] # None
    BY <1>1, <1>2 DEF InSending
  <2>5. x # k => speculative_state'[x] = speculative_state[x]
    BY <1>1
  <2> QED BY <1>2, <2>1, <2>2, <2>3, <2>4, <2>5 DEF KeyInv, InFlight
<1> QED BY <1>3, <1>4 DEF JobInv

\* Every turn of the coordinator keeps the job invariant.
LEMMA JobTurn ==
  ASSUME ChannelsTypeOK, CoordinatorTypeOK, JobInv,
         reconcile_success \/ reconcile_failure \/ SendJob \/ SendFails
  PROVE  JobInv'
<1>1. CASE reconcile_success
  <2>1. PICK job \in Job :
          /\ Reconciles(job, "Ok")
          /\ \/ SendsNext(job.key) /\ speculative_state' = speculative_state
             \/ /\ speculative_state' = [speculative_state EXCEPT ![job.key] = None]
                /\ sending' = sending
    BY <1>1, SuccessTurn
  <2>2. \A x \in Keys : x # job.key => speculative_state'[x] = speculative_state[x]
    BY <2>1 DEF CoordinatorTypeOK
  <2>3. \/ sending' = None
        \/ sending' # None /\ sending'.key = job.key /\ speculative_state'[job.key] # None
    BY <2>1 DEF SendsNext, Reconciles
  <2> QED BY <2>1, <2>2, <2>3, JobReconcile
<1>2. CASE reconcile_failure
  <2>1. PICK job \in Job :
          /\ Reconciles(job, "Internal") /\ SendsNext(job.key)
          /\ \A x \in Keys : x # job.key => speculative_state'[x] = speculative_state[x]
    BY <1>2, FailureTurn
  <2>2. sending' # None /\ sending'.key = job.key /\ speculative_state'[job.key] # None
    BY <2>1 DEF SendsNext
  <2> QED BY <2>1, <2>2, JobReconcile
<1>3. CASE SendJob
  <2>1. /\ sending \in Job /\ sending # None /\ sending' = None
        /\ job_queue' = Append(job_queue, sending)
        /\ UNCHANGED <<speculative_state, job_outcomes>>
    BY <1>3, SendTurn
  <2>2. OutcomeKeys'
    BY <2>1 DEF JobInv, OutcomeKeys
  <2>3. ASSUME NEW x \in Keys PROVE KeyInv(x)'
    <3>1. KeyInv(x)
      BY DEF JobInv
    <3>2. /\ InOutcomes(x)' <=> InOutcomes(x)
          /\ OnceInOutcomes(x)' <=> OnceInOutcomes(x)
      BY <2>1 DEF InOutcomes, OnceInOutcomes
    <3>3. (InSending(x) <=> sending.key = x) /\ ~InSending(x)'
      BY <2>1 DEF InSending
    <3>4. /\ InQueue(x)' <=> InQueue(x) \/ sending.key = x
          /\ OnceInQueue(x) /\ (sending.key = x => ~InQueue(x)) => OnceInQueue(x)'
      BY <2>1, QueueAppend DEF ChannelsTypeOK
    <3> QED BY <2>1, <3>1, <3>2, <3>3, <3>4 DEF KeyInv, InFlight
  <2> QED BY <2>2, <2>3 DEF JobInv
<1>4. CASE SendFails
  <2>1. sending' = None /\ UNCHANGED <<speculative_state, job_queue, job_outcomes>>
    BY <1>4, EndTurn
  <2>2. OutcomeKeys'
    BY <2>1 DEF JobInv, OutcomeKeys
  <2>3. ASSUME NEW x \in Keys PROVE KeyInv(x)'
    <3>1. KeyInv(x)
      BY DEF JobInv
    <3>2. /\ InOutcomes(x)' <=> InOutcomes(x)
          /\ OnceInOutcomes(x)' <=> OnceInOutcomes(x)
          /\ InQueue(x)' <=> InQueue(x)
          /\ OnceInQueue(x)' <=> OnceInQueue(x)
          /\ ~InSending(x)'
      BY <2>1 DEF InOutcomes, OnceInOutcomes, InQueue, OnceInQueue, InSending
    <3> QED BY <2>1, <3>1, <3>2 DEF KeyInv, InFlight
  <2> QED BY <2>2, <2>3 DEF JobInv
<1> QED BY <1>1, <1>2, <1>3, <1>4

\* A job that comes back leaves the queue for the outcomes; nothing is started.
LEMMA JobReport ==
  ASSUME ChannelsTypeOK, JobInv, NEW i \in DOMAIN job_queue,
         NEW o \in Outcomes(job_queue[i]), Report(i, o)
  PROVE  /\ job_queue' \in Seq(Job) /\ job_outcomes' \in Seq(JobOutcome)
         /\ JobInv'
         /\ \A j \in Job : Carries(j)' => Carries(j)
<1>1. /\ job_queue \in Seq(Job) /\ job_outcomes \in Seq(JobOutcome)
      /\ job_queue' = RemoveAt(job_queue, i) /\ job_outcomes' = Append(job_outcomes, o)
      /\ UNCHANGED <<sending, speculative_state>>
  BY DEF ChannelsTypeOK, Report, coordinatorVars
<1>2. PICK job \in Job : job = job_queue[i]
  BY <1>1
<1>3. o \in JobOutcome /\ o.kind # "Wake" /\ o.key = job.key /\ o.job = job
  <2>1. o \in JobOutcome
    BY <1>2, OutcomeTypes DEF Outcomes
  <2>2. o.kind # "Wake" /\ o.key = job.key /\ o.job = job
    BY <1>2 DEF Outcomes, Committed, Failed
  <2> QED BY <2>1, <2>2
<1>4. job_outcomes' \in Seq(JobOutcome)
  BY <1>1, <1>3, AppendFacts
<1>5. OutcomeKeys'
  BY <1>1, <1>3, OutcomeKeysAppend DEF JobInv
<1>6. ASSUME NEW x \in Keys PROVE KeyInv(x)'
  <2>1. KeyInv(x)
    BY DEF JobInv
  <2>2. /\ InQueue(x)' => InQueue(x)
        /\ OnceInQueue(x) => OnceInQueue(x)'
        /\ OnceInQueue(x) /\ job.key = x => ~InQueue(x)'
    BY <1>1, <1>2, QueueRemove
  <2>3. job.key = x => InQueue(x)
    BY <1>2 DEF InQueue
  <2>4. /\ InOutcomes(x)' <=> InOutcomes(x) \/ job.key = x
        /\ OnceInOutcomes(x) /\ (job.key = x => ~InOutcomes(x)) => OnceInOutcomes(x)'
    BY <1>1, <1>3, OutcomesAppend
  <2>5. InSending(x)' <=> InSending(x)
    BY <1>1 DEF InSending
  <2> QED BY <1>1, <2>1, <2>2, <2>3, <2>4, <2>5 DEF KeyInv, InFlight
<1>7. ASSUME NEW j \in Job, Carries(j)' PROVE Carries(j)
  <2>1. Outcomes(j)' = Outcomes(j)
    BY DEF Outcomes, Committed, Failed
  <2>2. Holds(job_queue, {j})' => Holds(job_queue, {j})
    BY <1>1, QueueRemove
  <2>3. Holds(job_outcomes, Outcomes(j))' => Holds(job_outcomes, Outcomes(j)) \/ o \in Outcomes(j)
    BY <1>1, <1>3, <2>1, HoldsAppend
  <2>4. o \in Outcomes(j) => j = job
    BY <1>3 DEF Outcomes, Committed, Failed
  <2>5. Holds(job_queue, {job})
    BY <1>2 DEF Holds
  <2> QED BY <1>1, <1>7, <2>2, <2>3, <2>4, <2>5 DEF Carries
<1>8. job_queue' \in Seq(Job)
  BY <1>1, QueueRemove
<1> QED BY <1>4, <1>5, <1>6, <1>7, <1>8 DEF JobInv

\* The end of the handler loses the jobs it had.
LEMMA JobStops ==
  ASSUME JobInv, WorkflowStops
  PROVE  JobInv' /\ \A j \in Job : Carries(j)' => Carries(j)
<1>1. job_queue' = <<>> /\ UNCHANGED <<job_outcomes, sending, speculative_state>>
  BY DEF WorkflowStops, coordinatorVars
<1>2. DOMAIN job_queue' = {}
  BY <1>1
<1>3. \A x \in Keys : /\ ~InQueue(x)' /\ OnceInQueue(x)'
                      /\ InSending(x)' <=> InSending(x)
                      /\ InOutcomes(x)' <=> InOutcomes(x)
                      /\ OnceInOutcomes(x)' <=> OnceInOutcomes(x)
  BY <1>1, <1>2 DEF InQueue, OnceInQueue, InSending, InOutcomes, OnceInOutcomes
<1>4. JobInv'
  BY <1>1, <1>3 DEF JobInv, OutcomeKeys, KeyInv, InFlight
<1>5. \A j \in Job : Carries(j)' => Carries(j)
  BY <1>1, <1>2 DEF Carries, Holds, Outcomes, Committed, Failed
<1> QED BY <1>4, <1>5

-----------------------------------------------------------------------------
(* The order of ids *)

\* What is confirmed is no newer than the intent, and that no newer than the
\* last accepted input.
IdInv(k) ==
  /\ last_intent[k] < id_counter
  /\ confirmed_state[k] # None => confirmed_state[k].id <= last_intent[k]
  /\ speculative_state[k] # None => speculative_state[k].id <= last_intent[k]
  /\ confirmed_state[k] # None /\ speculative_state[k] # None =>
       confirmed_state[k].id <= speculative_state[k].id

\* A job on its way is no newer than the key's intent and no older than what is
\* confirmed.
CarriedInv(j) ==
  /\ j.id <= speculative_state[j.key].id
  /\ confirmed_state[j.key] # None => confirmed_state[j.key].id <= j.id

\* What waits for a send to be confirmed is of the key whose next job is sent,
\* and older than that job.
WaitingInv ==
  committing # None =>
    /\ sending # None /\ sending.key = committing.key
    /\ committing.id <= sending.id
    /\ confirmed_state[committing.key] # None =>
         confirmed_state[committing.key].id <= committing.id

\* A user who was told Ok has the action, or something newer, confirmed, or it
\* is what waits for a send to be confirmed.
OkInv ==
  running =>
    \A reply \in replies :
      reply.result = "Ok" =>
        \/ /\ confirmed_state[reply.key] # None
           /\ reply.id <= confirmed_state[reply.key].id
        \/ committing # None /\ committing.key = reply.key /\ reply.id <= committing.id

OrderInv ==
  /\ id_counter >= INITIAL_PUBLISH_ID
  /\ \A k \in Keys : IdInv(k)
  /\ \A j \in Job : Carries(j) => CarriedInv(j)
  /\ WaitingInv
  /\ OkInv
  /\ \A r \in replies : r.id < id_counter

\* Ids are natural numbers.
LEMMA IdTypes ==
  ASSUME CoordinatorTypeOK
  PROVE  /\ id_counter \in Nat
         /\ \A k \in Keys : /\ last_intent[k] \in Nat
                            /\ confirmed_state[k] # None => confirmed_state[k].id \in Nat
                            /\ speculative_state[k] # None => speculative_state[k].id \in Nat
         /\ sending # None => sending \in Job
         /\ committing # None => committing \in Job
         /\ \A j \in Job : j.id \in Nat /\ j.key \in Keys /\ j # None
         /\ \A r \in replies : r.id \in Nat /\ r.key \in Keys
<1>1. \A j \in Job : j.id \in Nat /\ j.key \in Keys /\ j # None
  BY NoneIsNoRecord DEF Job
<1> QED BY <1>1 DEF CoordinatorTypeOK, Entry, Reply

\* A step that leaves the coordinator alone and starts no job keeps the order.
LEMMA OrderFrame ==
  ASSUME OrderInv, UNCHANGED coordinatorVars, \A j \in Job : Carries(j)' => Carries(j)
  PROVE  OrderInv'
<1>1. UNCHANGED <<confirmed_state, speculative_state, id_counter, sending, committing,
                  running, replies, last_intent>>
  BY DEF coordinatorVars
<1> QED BY <1>1 DEF OrderInv, IdInv, CarriedInv, WaitingInv, OkInv

\* A recorded intent has the newest id.
LEMMA OrderIntent ==
  ASSUME ChannelsTypeOK, CoordinatorTypeOK, JobInv, OrderInv,
         NEW k \in Keys, NEW a, Records(k, a)
  PROVE  OrderInv'
<1>1. PICK entry \in Entry :
        /\ entry # None /\ entry.id = id_counter /\ speculative_state'[k] = entry
        /\ sending' # None => sending'.key = k /\ sending'.id = id_counter
  BY DEF Records
<1>2. /\ \A x \in Keys : x # k => speculative_state'[x] = speculative_state[x]
      /\ id_counter' = id_counter + 1
      /\ last_intent'[k] = id_counter
      /\ \A x \in Keys : x # k => last_intent'[x] = last_intent[x]
      /\ UNCHANGED <<confirmed_state, committing, running, replies, job_queue, job_outcomes>>
      /\ sending = None
  BY DEF Records
<1>3. committing = None
  BY <1>2 DEF OrderInv, WaitingInv
<1>4. id_counter' >= INITIAL_PUBLISH_ID
  BY <1>2, IdTypes DEF OrderInv, INITIAL_PUBLISH_ID
<1>5. \A x \in Keys : IdInv(x)'
  BY <1>1, <1>2, IdTypes DEF OrderInv, IdInv
<1>6. ASSUME NEW j \in Job, Carries(j)' PROVE CarriedInv(j)'
  <2>1. j.key \in Keys /\ j.id \in Nat /\ j # None
    BY IdTypes
  <2>2. CASE Carries(j)
    <3>1. CarriedInv(j) /\ speculative_state[j.key] # None
      BY <2>2, CarriesFacts DEF OrderInv
    <3>2. j.id <= speculative_state[j.key].id /\ speculative_state[j.key].id <= id_counter
      BY <2>1, <3>1, IdTypes DEF CarriedInv, OrderInv, IdInv
    <3>3. j.id <= speculative_state'[j.key].id
      BY <1>1, <1>2, <2>1, <3>1, <3>2, IdTypes
    <3> QED BY <1>2, <3>1, <3>3 DEF CarriedInv
  <2>3. CASE j = sending'
    <3>1. j.key = k /\ j.id = id_counter
      BY <1>1, <2>1, <2>3
    <3> QED BY <1>1, <1>2, <3>1, IdTypes DEF CarriedInv, OrderInv, IdInv
  <2> QED BY <1>2, <1>6, <2>2, <2>3, CarriesTurn
<1>7. WaitingInv' /\ OkInv'
  BY <1>2, <1>3 DEF OrderInv, WaitingInv, OkInv
<1>8. \A r \in replies' : r.id < id_counter'
  BY <1>2, IdTypes DEF OrderInv
<1> QED BY <1>4, <1>5, <1>6, <1>7, <1>8 DEF OrderInv

\* When an outcome is reconciled, the jobs on their way afterwards are those of
\* other keys and the one the turn sends.
LEMMA OthersCarried ==
  ASSUME ChannelsTypeOK, CoordinatorTypeOK, JobInv', NEW job \in Job, NEW result,
         Reconciles(job, result),
         speculative_state'[job.key] = None \/ SendsNext(job.key),
         NEW j \in Job, Carries(j)'
  PROVE  \/ j = sending'
         \/ Carries(j) /\ j.key # job.key
<1>1. Carries(j) \/ j = sending'
  BY CarriesTurn DEF Reconciles
<1>2. SendsNext(job.key) => InSending(job.key)'
  BY DEF SendsNext, InSending
<1> QED BY <1>1, <1>2, CarriesFactsNext

\* A success is confirmed at once or, when it is superseded, once the newer
\* intent is sent.
LEMMA OrderSuccess ==
  ASSUME ChannelsTypeOK, CoordinatorTypeOK, JobInv, JobInv', OrderInv, reconcile_success
  PROVE  OrderInv'
<1>1. PICK job \in Job :
        /\ Reconciles(job, "Ok")
        /\ \/ /\ SendsNext(job.key)
              /\ committing' = job
              /\ UNCHANGED <<speculative_state, confirmed_state>>
           \/ /\ speculative_state[job.key].id = job.id
              /\ speculative_state' = [speculative_state EXCEPT ![job.key] = None]
              /\ confirmed_state' = [confirmed_state EXCEPT ![job.key] =
                                       [status |-> job.status, id |-> job.id]]
              /\ UNCHANGED <<sending, committing>>
  BY SuccessTurn
<1>2. PICK k \in Keys : k = job.key
  BY DEF Job
<1>3. /\ running /\ sending = None /\ Carries(job) /\ speculative_state[k] # None
      /\ UNCHANGED <<id_counter, running, last_intent>>
      /\ \A r \in replies' : r \in replies \/ (r.id = job.id /\ r.key = k)
  BY <1>1, <1>2 DEF Reconciles
<1>4. committing = None
  BY <1>3 DEF OrderInv, WaitingInv
<1>5. CarriedInv(job) /\ job.id \in Nat /\ job # None /\ job.id <= last_intent[k]
  <2>1. CarriedInv(job) /\ job.id \in Nat /\ job # None
    BY <1>3, IdTypes DEF OrderInv
  <2> QED BY <1>2, <1>3, <2>1, IdTypes DEF CarriedInv, OrderInv, IdInv
<1>6. id_counter' >= INITIAL_PUBLISH_ID /\ \A r \in replies' : r.id < id_counter'
  BY <1>3, <1>5, IdTypes DEF OrderInv, IdInv
<1>7. ASSUME NEW r \in replies', r.result = "Ok"
      PROVE  \/ r.id = job.id /\ r.key = k
             \/ /\ r.id \in Nat /\ r.key \in Keys
                /\ confirmed_state[r.key] # None /\ r.id <= confirmed_state[r.key].id
  BY <1>3, <1>4, <1>7, IdTypes DEF OrderInv, OkInv
<1>8. CASE /\ SendsNext(k) /\ committing' = job
           /\ UNCHANGED <<speculative_state, confirmed_state>>
  <2>1. \A x \in Keys : IdInv(x)'
    BY <1>3, <1>8 DEF OrderInv, IdInv
  <2>2. /\ sending' # None /\ sending'.key = k
        /\ sending'.id = speculative_state[k].id
    BY <1>8 DEF SendsNext
  <2>3. ASSUME NEW j \in Job, Carries(j)' PROVE CarriedInv(j)'
    <3>1. CASE j = sending'
      BY <1>3, <1>8, <2>2, <3>1, IdTypes DEF OrderInv, IdInv, CarriedInv
    <3>2. CASE Carries(j)
      BY <1>8, <3>2 DEF OrderInv, CarriedInv
    <3> QED BY <1>1, <1>2, <1>8, <2>3, <3>1, <3>2, OthersCarried
  <2>4. WaitingInv'
    BY <1>2, <1>5, <1>8, <2>2 DEF WaitingInv, CarriedInv
  <2>5. OkInv'
    BY <1>2, <1>5, <1>7, <1>8 DEF OkInv
  <2> QED BY <1>6, <2>1, <2>3, <2>4, <2>5 DEF OrderInv
<1>9. CASE /\ speculative_state[k].id = job.id
           /\ speculative_state' = [speculative_state EXCEPT ![k] = None]
           /\ confirmed_state' = [confirmed_state EXCEPT ![k] =
                                    [status |-> job.status, id |-> job.id]]
           /\ UNCHANGED <<sending, committing>>
  <2>1. PICK entry : entry = [status |-> job.status, id |-> job.id]
    OBVIOUS
  <2>2. entry # None /\ entry.id = job.id
    BY <2>1, EntryFacts DEF Job
  <2>3. /\ speculative_state'[k] = None /\ confirmed_state'[k] = entry
        /\ \A x \in Keys : x # k => /\ speculative_state'[x] = speculative_state[x]
                                    /\ confirmed_state'[x] = confirmed_state[x]
    BY <1>9, <2>1 DEF CoordinatorTypeOK
  <2>4. \A x \in Keys : IdInv(x)'
    BY <1>3, <1>5, <2>2, <2>3 DEF OrderInv, IdInv
  <2>5. ASSUME NEW j \in Job, Carries(j)' PROVE CarriedInv(j)'
    <3>1. j.key \in Keys /\ j # None
      BY IdTypes
    <3>2. Carries(j) /\ j.key # k
      BY <1>1, <1>2, <1>3, <1>9, <2>3, <2>5, <3>1, OthersCarried
    <3> QED BY <2>3, <3>1, <3>2 DEF OrderInv, CarriedInv
  <2>6. WaitingInv'
    BY <1>4, <1>9 DEF WaitingInv
  <2>7. OkInv'
    <3>1. ASSUME NEW r \in replies', r.result = "Ok"
          PROVE  confirmed_state'[r.key] # None /\ r.id <= confirmed_state'[r.key].id
      <4>1. CASE r.id = job.id /\ r.key = k
        BY <1>5, <2>2, <2>3, <4>1
      <4>2. CASE /\ r.id \in Nat /\ r.key \in Keys
                 /\ confirmed_state[r.key] # None /\ r.id <= confirmed_state[r.key].id
        BY <1>2, <1>5, <2>2, <2>3, <4>2, IdTypes DEF CarriedInv
      <4> QED BY <1>7, <3>1, <4>1, <4>2
    <3> QED BY <3>1 DEF OkInv
  <2> QED BY <1>6, <2>4, <2>5, <2>6, <2>7 DEF OrderInv
<1> QED BY <1>1, <1>2, <1>8, <1>9

\* A failure sends the intent again, or rolls it back to what is confirmed.
LEMMA OrderFailure ==
  ASSUME ChannelsTypeOK, CoordinatorTypeOK, CoordinatorTypeOK', JobInv, JobInv', OrderInv,
         reconcile_failure
  PROVE  OrderInv'
<1>1. PICK job \in Job :
        /\ Reconciles(job, "Internal")
        /\ SendsNext(job.key)
        /\ \A x \in Keys : x # job.key => speculative_state'[x] = speculative_state[x]
        /\ \/ speculative_state'[job.key] = speculative_state[job.key]
           \/ /\ confirmed_state[job.key] # None
              /\ speculative_state'[job.key] = confirmed_state[job.key]
           \/ /\ confirmed_state[job.key] = None
              /\ speculative_state'[job.key].id = DEFAULT_HYDRATED_ID
        /\ UNCHANGED <<confirmed_state, committing>>
  BY FailureTurn
<1>2. PICK k \in Keys : k = job.key
  BY DEF Job
<1>3. /\ running /\ sending = None /\ speculative_state[k] # None
      /\ UNCHANGED <<id_counter, running, last_intent>>
      /\ \A r \in replies' : r \in replies \/ (r.id = job.id /\ r.result = "Internal")
      /\ Carries(job)
  BY <1>1, <1>2 DEF Reconciles
<1>4. committing = None
  BY <1>3 DEF OrderInv, WaitingInv
<1>5. /\ sending' # None /\ sending'.key = k /\ speculative_state'[k] # None
      /\ sending'.id = speculative_state'[k].id
  BY <1>1, <1>2 DEF SendsNext
<1>6. \A x \in Keys : IdInv(x)'
  BY <1>1, <1>2, <1>3, IdTypes DEF OrderInv, IdInv, DEFAULT_HYDRATED_ID
<1>7. ASSUME NEW j \in Job, Carries(j)' PROVE CarriedInv(j)'
  <2>1. CASE j = sending'
    <3>1. IdInv(k)' /\ speculative_state'[k].id \in Nat
      BY <1>5, <1>6 DEF CoordinatorTypeOK, Entry
    <3> QED BY <1>5, <2>1, <3>1 DEF IdInv, CarriedInv
  <2>2. CASE Carries(j) /\ j.key # k
    BY <1>1, <1>2, <2>2, IdTypes DEF OrderInv, CarriedInv
  <2> QED BY <1>1, <1>2, <1>7, <2>1, <2>2, OthersCarried
<1>8. WaitingInv' /\ OkInv'
  <2>1. WaitingInv'
    BY <1>1, <1>4 DEF WaitingInv
  <2>2. OkInv'
    BY <1>1, <1>3 DEF OrderInv, OkInv
  <2> QED BY <2>1, <2>2
<1>9. \A r \in replies' : r.id < id_counter'
  <2>1. CarriedInv(job) /\ job.id \in Nat
    BY <1>3, IdTypes DEF OrderInv
  <2>2. job.id < id_counter
    BY <1>2, <1>3, <2>1, IdTypes DEF CarriedInv, OrderInv, IdInv
  <2> QED BY <1>3, <2>2 DEF OrderInv
<1> QED BY <1>3, <1>6, <1>7, <1>8, <1>9 DEF OrderInv

\* The end of a send confirms what waited for it.
LEMMA OrderSend ==
  ASSUME ChannelsTypeOK, CoordinatorTypeOK, JobInv, OrderInv, SendJob
  PROVE  OrderInv'
<1>1. /\ running /\ sending \in Job /\ sending # None /\ sending' = None
      /\ committing' = None /\ job_queue' = Append(job_queue, sending)
      /\ UNCHANGED <<speculative_state, id_counter, running, replies, last_intent,
                     job_outcomes>>
      /\ committing = None => confirmed_state' = confirmed_state
      /\ committing # None =>
           /\ committing \in Job
           /\ confirmed_state' = [confirmed_state EXCEPT ![committing.key] =
                                    [status |-> committing.status, id |-> committing.id]]
  BY SendTurn
<1>2. Carries(sending) /\ CarriedInv(sending)
  BY <1>1 DEF Carries, OrderInv
<1>3. \A j \in Job : Carries(j)' => Carries(j)
  BY <1>1, CarriesTurn, IdTypes
<1>4. WaitingInv'
  BY <1>1 DEF WaitingInv
<1>5. CASE committing = None
  BY <1>1, <1>3, <1>4, <1>5 DEF OrderInv, IdInv, CarriedInv, OkInv
<1>6. CASE committing # None
  <2>1. PICK k \in Keys : k = committing.key
    BY <1>1, <1>6, IdTypes
  <2>2. /\ committing.id \in Nat /\ sending.id \in Nat /\ sending.key = k
        /\ committing.id <= sending.id
        /\ confirmed_state[k] # None => confirmed_state[k].id <= committing.id
    BY <1>1, <1>6, <2>1, IdTypes DEF OrderInv, WaitingInv
  <2>3. InSending(k) /\ speculative_state[k] # None
    BY <1>1, <1>2, <2>2, CarriesFacts DEF InSending
  <2>4. PICK entry : entry = [status |-> committing.status, id |-> committing.id]
    OBVIOUS
  <2>5. entry # None /\ entry.id = committing.id
    BY <1>1, <1>6, <2>4, EntryFacts DEF Job
  <2>6. /\ confirmed_state'[k] = entry
        /\ \A x \in Keys : x # k => confirmed_state'[x] = confirmed_state[x]
    BY <1>1, <1>6, <2>1, <2>4 DEF CoordinatorTypeOK
  <2>7. sending.id <= speculative_state[k].id
    BY <1>2, <2>2 DEF CarriedInv
  <2>8. ASSUME NEW x \in Keys PROVE IdInv(x)'
    <3>1. CASE x = k
      BY <1>1, <2>2, <2>3, <2>5, <2>6, <2>7, <3>1, IdTypes DEF OrderInv, IdInv
    <3>2. CASE x # k
      BY <1>1, <2>6, <3>2 DEF OrderInv, IdInv
    <3> QED BY <3>1, <3>2
  <2>9. ASSUME NEW j \in Job, Carries(j)' PROVE CarriedInv(j)'
    <3>1. Carries(j) /\ CarriedInv(j) /\ j.key \in Keys
      BY <1>3, <2>9, IdTypes DEF OrderInv
    <3>2. CASE j.key = k
      <4>1. j = sending
        BY <2>3, <3>1, <3>2, CarriesFacts
      <4> QED BY <1>1, <2>2, <2>5, <2>6, <3>1, <3>2, <4>1 DEF CarriedInv
    <3>3. CASE j.key # k
      BY <1>1, <2>6, <3>1, <3>3 DEF CarriedInv
    <3> QED BY <3>2, <3>3
  <2>10. OkInv'
    <3>1. ASSUME NEW r \in replies, r.result = "Ok"
          PROVE  confirmed_state'[r.key] # None /\ r.id <= confirmed_state'[r.key].id
      <4>1. r.id \in Nat /\ r.key \in Keys
        BY IdTypes
      <4>2. \/ confirmed_state[r.key] # None /\ r.id <= confirmed_state[r.key].id
            \/ k = r.key /\ r.id <= committing.id
        BY <1>1, <2>1, <3>1 DEF OrderInv, OkInv
      <4>3. CASE r.key = k
        BY <2>2, <2>5, <2>6, <4>1, <4>2, <4>3, IdTypes
      <4>4. CASE r.key # k
        BY <2>6, <4>1, <4>2, <4>4
      <4> QED BY <4>3, <4>4
    <3> QED BY <1>1, <3>1 DEF OkInv
  <2> QED BY <1>1, <1>4, <2>8, <2>9, <2>10 DEF OrderInv
<1> QED BY <1>5, <1>6

\* The end of the event loop confirms nothing.
LEMMA OrderEnds ==
  ASSUME ChannelsTypeOK, CoordinatorTypeOK, OrderInv, SendFails
  PROVE  OrderInv'
<1>1. /\ running' = FALSE /\ sending' = None /\ committing' = None
      /\ UNCHANGED <<confirmed_state, speculative_state, id_counter, last_intent,
                     job_queue, job_outcomes>>
  BY EndTurn
<1>2. \A j \in Job : Carries(j)' => Carries(j)
  BY <1>1, CarriesTurn, IdTypes
<1>3. \A r \in replies' : r.id < id_counter'
  <2>1. \A r \in replies' : r \in replies \/ \E k \in Keys : /\ speculative_state[k] # None
                                                            /\ r.id = speculative_state[k].id
    BY EndTurn
  <2> QED BY <1>1, <2>1, IdTypes DEF OrderInv, IdInv
<1> QED BY <1>1, <1>2, <1>3 DEF OrderInv, IdInv, CarriedInv, WaitingInv, OkInv

-----------------------------------------------------------------------------
(* The owner of an id *)

\* Whatever carries id n is of key k, and of status s where it has a status.
Owned(n, k, s) ==
  /\ \A x \in Keys : speculative_state[x] # None /\ speculative_state[x].id = n =>
                       x = k /\ speculative_state[x].status = s
  /\ \A x \in Keys : confirmed_state[x] # None /\ confirmed_state[x].id = n =>
                       x = k /\ confirmed_state[x].status = s
  /\ \A j \in Job : Carries(j) /\ j.id = n => j.key = k /\ j.status = s
  /\ committing # None /\ committing.id = n => committing.key = k /\ committing.status = s
  /\ \A r \in replies : r.id = n => r.key = k

\* A step that leaves the coordinator alone and starts no job keeps the owner.
LEMMA OwnedFrame ==
  ASSUME UNCHANGED coordinatorVars, \A j \in Job : Carries(j)' => Carries(j),
         NEW n, NEW k, NEW s, Owned(n, k, s)
  PROVE  Owned(n, k, s)'
<1>1. UNCHANGED <<confirmed_state, speculative_state, committing, replies>>
  BY DEF coordinatorVars
<1> QED BY <1>1 DEF Owned

\* The id of a recorded intent is new: the intent owns it, and older ids keep
\* their owners.  Before, nothing carries it.
LEMMA OwnedIntent ==
  ASSUME ChannelsTypeOK, CoordinatorTypeOK, JobInv, OrderInv,
         NEW k \in Keys, NEW a, Records(k, a)
  PROVE  /\ \A n \in Nat : n = id_counter => Owned(n, k, build_user_status(a))'
         /\ \A n \in Nat, x \in Keys, s \in Status :
              n < id_counter /\ Owned(n, x, s) => Owned(n, x, s)'
<1> DEFINE status == build_user_status(a)
<1>1. PICK entry \in Entry :
        /\ entry # None /\ entry.id = id_counter /\ entry.status = status
        /\ speculative_state'[k] = entry
        /\ sending' # None => /\ sending'.key = k /\ sending'.id = id_counter
                              /\ sending'.status = status
  BY DEF Records
<1> HIDE DEF status
<1>2. /\ \A x \in Keys : x # k => speculative_state'[x] = speculative_state[x]
      /\ UNCHANGED <<confirmed_state, committing, replies, job_queue, job_outcomes>>
      /\ sending = None
  BY DEF Records
<1>3. committing = None /\ id_counter \in Nat
  BY <1>2, IdTypes DEF OrderInv, WaitingInv
<1>4. \A x \in Keys : /\ speculative_state[x] # None => speculative_state[x].id # id_counter
                      /\ confirmed_state[x] # None => confirmed_state[x].id # id_counter
  BY IdTypes DEF OrderInv, IdInv
<1>5. ASSUME NEW j \in Job, Carries(j)'
      PROVE  \/ Carries(j) /\ j.id # id_counter
             \/ j.key = k /\ j.id = id_counter /\ j.status = status
  <2>1. j.key \in Keys /\ j.id \in Nat /\ j # None
    BY IdTypes
  <2>2. CASE Carries(j)
    <3>1. CarriedInv(j) /\ speculative_state[j.key] # None
      BY <2>2, CarriesFacts DEF OrderInv
    <3> QED BY <2>1, <2>2, <3>1, IdTypes DEF CarriedInv, OrderInv, IdInv
  <2>3. CASE j = sending'
    BY <1>1, <2>1, <2>3
  <2> QED BY <1>2, <1>5, <2>2, <2>3, CarriesTurn
<1>6. ASSUME NEW n \in Nat, n = id_counter PROVE Owned(n, k, status)'
  <2>1. status' = status
    BY DEF status, build_user_status, as_state, DefaultStatus, NoWake
  <2>2. \A r \in replies' : r.id # n
    BY <1>2, <1>6, IdTypes DEF OrderInv
  <2> QED BY <1>1, <1>2, <1>3, <1>4, <1>5, <1>6, <2>1, <2>2 DEF Owned
<1>7. ASSUME NEW n \in Nat, NEW x \in Keys, NEW s \in Status, n < id_counter, Owned(n, x, s)
      PROVE  Owned(n, x, s)'
  BY <1>1, <1>2, <1>3, <1>5, <1>7 DEF Owned
<1> QED BY <1>6, <1>7 DEF status

\* Reconciling an outcome hands its job's id, key and status on unchanged; a
\* rolled back intent takes them from the confirmed entry, or has the hydrated
\* id, which is no update's.
LEMMA OwnedReconcile ==
  ASSUME ChannelsTypeOK, CoordinatorTypeOK, JobInv,
         reconcile_success \/ reconcile_failure,
         NEW n \in Nat, n > DEFAULT_HYDRATED_ID, NEW k \in Keys, NEW s, Owned(n, k, s)
  PROVE  Owned(n, k, s)'
<1>1. CASE reconcile_success
  <2>1. PICK job \in Job :
          /\ Reconciles(job, "Ok")
          /\ \/ /\ SendsNext(job.key)
                /\ committing' = job
                /\ UNCHANGED <<speculative_state, confirmed_state>>
             \/ /\ speculative_state[job.key].id = job.id
                /\ speculative_state' = [speculative_state EXCEPT ![job.key] = None]
                /\ confirmed_state' = [confirmed_state EXCEPT ![job.key] =
                                         [status |-> job.status, id |-> job.id]]
                /\ UNCHANGED <<sending, committing>>
    BY <1>1, SuccessTurn
  <2>2. PICK x \in Keys : x = job.key
    BY DEF Job
  <2>3. job.id = n => x = k /\ job.status = s
    BY <2>1, <2>2 DEF Reconciles, Owned
  <2>4. \A r \in replies' : r.id = n => r.key = k
    BY <2>1, <2>2, <2>3 DEF Reconciles, Owned
  <2>5. \A j \in Job : Carries(j)' => Carries(j) \/ j = sending'
    BY <2>1, CarriesTurn DEF Reconciles
  <2>6. sending = None /\ \A j \in Job : j # None
    BY <2>1, IdTypes DEF Reconciles
  <2>7. CASE /\ SendsNext(x) /\ committing' = job
             /\ UNCHANGED <<speculative_state, confirmed_state>>
    <3>1. sending'.key = x /\ (sending'.id = n => x = k /\ sending'.status = s)
      BY <2>7 DEF SendsNext, Owned
    <3> QED BY <2>2, <2>3, <2>4, <2>5, <2>7, <3>1 DEF Owned
  <2>8. CASE /\ speculative_state' = [speculative_state EXCEPT ![x] = None]
             /\ confirmed_state' = [confirmed_state EXCEPT ![x] =
                                      [status |-> job.status, id |-> job.id]]
             /\ UNCHANGED <<sending, committing>>
    <3>1. PICK entry : entry = [status |-> job.status, id |-> job.id]
      OBVIOUS
    <3>2. entry.id = n => x = k /\ entry.status = s
      BY <2>3, <3>1
    <3>3. /\ speculative_state'[x] = None /\ confirmed_state'[x] = entry
          /\ \A y \in Keys : y # x => /\ speculative_state'[y] = speculative_state[y]
                                      /\ confirmed_state'[y] = confirmed_state[y]
      BY <2>8, <3>1 DEF CoordinatorTypeOK
    <3>4. \A j \in Job : Carries(j)' => Carries(j)
      BY <2>5, <2>6, <2>8
    <3> QED BY <2>4, <2>8, <3>2, <3>3, <3>4 DEF Owned
  <2> QED BY <2>1, <2>2, <2>7, <2>8
<1>2. CASE reconcile_failure
  <2>1. PICK job \in Job :
          /\ Reconciles(job, "Internal")
          /\ SendsNext(job.key)
          /\ \A x \in Keys : x # job.key => speculative_state'[x] = speculative_state[x]
          /\ \/ speculative_state'[job.key] = speculative_state[job.key]
             \/ /\ confirmed_state[job.key] # None
                /\ speculative_state'[job.key] = confirmed_state[job.key]
             \/ /\ confirmed_state[job.key] = None
                /\ speculative_state'[job.key].id = DEFAULT_HYDRATED_ID
          /\ UNCHANGED <<confirmed_state, committing>>
    BY <1>2, FailureTurn
  <2>2. PICK x \in Keys : x = job.key
    BY DEF Job
  <2>3. job.id = n => x = k
    BY <2>1, <2>2 DEF Reconciles, Owned
  <2>4. \A r \in replies' : r.id = n => r.key = k
    BY <2>1, <2>2, <2>3 DEF Reconciles, Owned
  <2>5. \A j \in Job : Carries(j)' => Carries(j) \/ j = sending'
    BY <2>1, CarriesTurn DEF Reconciles
  <2>6. speculative_state'[x] # None /\ speculative_state'[x].id = n =>
          x = k /\ speculative_state'[x].status = s
    BY <2>1, <2>2 DEF Owned, DEFAULT_HYDRATED_ID, Reconciles
  <2>7. sending'.key = x /\ (sending'.id = n => x = k /\ sending'.status = s)
    BY <2>1, <2>2, <2>6 DEF SendsNext
  <2> QED BY <2>1, <2>2, <2>4, <2>5, <2>6, <2>7 DEF Owned
<1> QED BY <1>1, <1>2

\* The end of a send moves the job on and confirms what waited; the end of the
\* event loop answers under the ids and keys of the intent.
LEMMA OwnedSend ==
  ASSUME ChannelsTypeOK, CoordinatorTypeOK, SendJob \/ SendFails,
         NEW n \in Nat, NEW k \in Keys, NEW s, Owned(n, k, s)
  PROVE  Owned(n, k, s)'
<1>1. CASE SendJob
  <2>1. /\ sending \in Job /\ sending' = None
        /\ committing' = None /\ job_queue' = Append(job_queue, sending)
        /\ UNCHANGED <<speculative_state, replies, job_outcomes>>
        /\ committing = None => confirmed_state' = confirmed_state
        /\ committing # None =>
             /\ committing \in Job
             /\ confirmed_state' = [confirmed_state EXCEPT ![committing.key] =
                                      [status |-> committing.status, id |-> committing.id]]
    BY <1>1, SendTurn
  <2>2. \A j \in Job : Carries(j)' => Carries(j)
    BY <2>1, CarriesTurn, IdTypes
  <2>3. ASSUME NEW x \in Keys, confirmed_state'[x] # None, confirmed_state'[x].id = n
        PROVE  x = k /\ confirmed_state'[x].status = s
    <3>1. CASE confirmed_state'[x] = confirmed_state[x]
      BY <2>3, <3>1 DEF Owned
    <3>2. CASE confirmed_state'[x] # confirmed_state[x]
      <4>1. PICK entry : entry = [status |-> committing.status, id |-> committing.id]
        OBVIOUS
      <4>2. committing # None /\ x = committing.key /\ confirmed_state'[x] = entry
        BY <2>1, <3>2, <4>1 DEF CoordinatorTypeOK
      <4>3. entry.id = committing.id /\ entry.status = committing.status
        BY <4>1
      <4> QED BY <2>3, <4>2, <4>3 DEF Owned
    <3> QED BY <3>1, <3>2
  <2> QED BY <2>1, <2>2, <2>3 DEF Owned
<1>2. CASE SendFails
  <2>1. /\ sending' = None /\ committing' = None
        /\ \A r \in replies' :
             r \in replies \/ \E x \in Keys : /\ speculative_state[x] # None
                                              /\ r.id = speculative_state[x].id /\ r.key = x
        /\ UNCHANGED <<confirmed_state, speculative_state, job_queue, job_outcomes>>
    BY <1>2, EndTurn
  <2>2. \A j \in Job : Carries(j)' => Carries(j)
    BY <2>1, CarriesTurn, IdTypes
  <2>3. \A r \in replies' : r.id = n => r.key = k
    BY <2>1 DEF Owned
  <2> QED BY <2>1, <2>2, <2>3 DEF Owned
<1> QED BY <1>1, <1>2

-----------------------------------------------------------------------------
(* The service, as the calls see it *)

ServiceInv == ChannelsTypeOK /\ CoordinatorTypeOK /\ JobInv /\ OrderInv

\* What no step of the service takes back: the last input of a key is replaced
\* by newer ones only, an answer stays, and so does the owner of an id that was
\* given out.
Keeps ==
  /\ \A k \in Keys : last_intent[k] <= last_intent'[k]
  /\ replies \subseteq replies'
  /\ \A n \in Nat, k \in Keys, s \in Status :
       DEFAULT_HYDRATED_ID < n /\ n < id_counter /\ Owned(n, k, s) => Owned(n, k, s)'

\* A step of the callers leaves the service as it is.
LEMMA ServiceFrame ==
  ASSUME ServiceInv, UNCHANGED serviceVars
  PROVE  ServiceInv' /\ Keeps
<1>1. UNCHANGED coordinatorVars /\ UNCHANGED <<job_queue, job_outcomes, snooze_inputs,
        snooze_outcomes, publish_queue, publish_outcomes>>
  BY DEF serviceVars, handlerVars, effectChannels, jobChannels, snoozeChannels, publishChannels
<1>2. ChannelsTypeOK'
  BY <1>1 DEF ServiceInv, ChannelsTypeOK
<1>3. CoordinatorTypeOK'
  BY <1>1 DEF ServiceInv, CoordinatorTypeOK, coordinatorVars
<1>4. JobInv'
  BY <1>1 DEF ServiceInv, JobInv, OutcomeKeys, KeyInv, InFlight, InSending, InQueue,
              InOutcomes, OnceInQueue, OnceInOutcomes, coordinatorVars
<1>5. \A j \in Job : Carries(j)' => Carries(j)
  BY <1>1 DEF Carries, Holds, Outcomes, Committed, Failed, coordinatorVars
<1>6. OrderInv'
  BY <1>1, <1>5, OrderFrame DEF ServiceInv
<1>7. Keeps
  BY <1>1, <1>5, OwnedFrame, IdTypes DEF ServiceInv, Keeps, coordinatorVars
<1> QED BY <1>2, <1>3, <1>4, <1>6, <1>7 DEF ServiceInv

\* An accepted update gets the next id, and owns it.
LEMMA ServiceIntent ==
  ASSUME ServiceInv, NEW k \in Keys, NEW a \in UserAction, handle_user_update(k, a),
         UNCHANGED handlerVars
  PROVE  /\ ServiceInv' /\ Keeps
         /\ id_counter \in Nat /\ id_counter > DEFAULT_HYDRATED_ID
         /\ last_intent'[k] = id_counter
         /\ \A n \in Nat : n = id_counter => Owned(n, k, build_user_status(a))'
<1>1. Records(k, a)
  BY IntentTurn DEF ServiceInv
<1>2. TakesUpdate
  BY DEF TakesUpdate
<1>3. CoordinatorTypeOK' /\ job_queue' \in Seq(Job) /\ job_outcomes' \in Seq(JobOutcome)
  BY <1>2, CoordinatorTypes DEF ServiceInv
<1>4. ChannelsTypeOK'
  BY <1>3 DEF ServiceInv, ChannelsTypeOK, handlerVars, effectChannels, snoozeChannels,
              publishChannels
<1>5. JobInv' /\ OrderInv'
  BY <1>1, JobIntent, OrderIntent DEF ServiceInv
<1>6. /\ last_intent'[k] = id_counter
      /\ \A x \in Keys : x # k => last_intent'[x] = last_intent[x]
      /\ replies' = replies
  BY <1>1 DEF Records
<1>7. /\ id_counter \in Nat /\ id_counter > DEFAULT_HYDRATED_ID
      /\ \A x \in Keys : last_intent[x] \in Nat /\ last_intent[x] < id_counter
  BY IdTypes DEF ServiceInv, OrderInv, IdInv, INITIAL_PUBLISH_ID, DEFAULT_HYDRATED_ID
<1>8. /\ \A n \in Nat : n = id_counter => Owned(n, k, build_user_status(a))'
      /\ \A n \in Nat, x \in Keys, s \in Status :
           n < id_counter /\ Owned(n, x, s) => Owned(n, x, s)'
  BY <1>1, OwnedIntent DEF ServiceInv
<1>9. \A x \in Keys : last_intent[x] <= last_intent'[x]
  BY <1>6, <1>7
<1>10. Keeps
  BY <1>6, <1>8, <1>9 DEF Keeps
<1> QED BY <1>3, <1>4, <1>5, <1>6, <1>7, <1>8, <1>10 DEF ServiceInv

\* The turns that no caller starts.
LEMMA ServiceTurn ==
  ASSUME ServiceInv, UNCHANGED handlerVars,
         reconcile_success \/ reconcile_failure \/ SendJob \/ SendFails
  PROVE  ServiceInv' /\ Keeps
<1>1. CoordinatorTypeOK' /\ job_queue' \in Seq(Job) /\ job_outcomes' \in Seq(JobOutcome)
  BY CoordinatorTypes DEF ServiceInv, TakesOutcome
<1>2. ChannelsTypeOK'
  BY <1>1 DEF ServiceInv, ChannelsTypeOK, handlerVars, effectChannels, snoozeChannels,
              publishChannels
<1>3. JobInv'
  BY JobTurn DEF ServiceInv
<1>4. OrderInv'
  BY <1>1, <1>3, OrderSuccess, OrderFailure, OrderSend, OrderEnds DEF ServiceInv
<1>5. last_intent' = last_intent /\ replies \subseteq replies'
  <2>1. CASE reconcile_success
    BY <2>1, SuccessTurn DEF ServiceInv, Reconciles
  <2>2. CASE reconcile_failure
    BY <2>2, FailureTurn DEF ServiceInv, Reconciles
  <2>3. CASE SendJob
    BY <2>3, SendTurn DEF ServiceInv
  <2>4. CASE SendFails
    BY <2>4, EndTurn
  <2> QED BY <2>1, <2>2, <2>3, <2>4
<1>6. ASSUME NEW n \in Nat, NEW k \in Keys, NEW s \in Status, DEFAULT_HYDRATED_ID < n,
             Owned(n, k, s)
      PROVE  Owned(n, k, s)'
  <2>1. n > DEFAULT_HYDRATED_ID
    BY <1>6
  <2> QED BY <1>6, <2>1, OwnedReconcile, OwnedSend DEF ServiceInv
<1>7. Keeps
  BY <1>5, <1>6, IdTypes DEF ServiceInv, Keeps
<1> QED BY <1>1, <1>2, <1>3, <1>4, <1>7 DEF ServiceInv

\* The steps of the workflow handler.
LEMMA ServiceHandler ==
  ASSUME ServiceInv,
         WorkflowStops \/ \E k \in Keys : ReportCommitted(k) \/ ReportFailed(k)
  PROVE  ServiceInv' /\ Keeps
<1>1. /\ UNCHANGED coordinatorVars
      /\ UNCHANGED <<snooze_inputs, snooze_outcomes, publish_queue, publish_outcomes>>
  BY DEF WorkflowStops, ReportCommitted, ReportFailed, Report, handlerVars, effectChannels,
         snoozeChannels, publishChannels
<1>2. /\ job_queue' \in Seq(Job) /\ job_outcomes' \in Seq(JobOutcome) /\ JobInv'
      /\ \A j \in Job : Carries(j)' => Carries(j)
  <2>1. CASE WorkflowStops
    <3>1. job_queue' = <<>> /\ job_outcomes' = job_outcomes
      BY <2>1 DEF WorkflowStops
    <3> QED BY <2>1, <3>1, JobStops DEF ServiceInv, ChannelsTypeOK
  <2>2. CASE \E k \in Keys : ReportCommitted(k) \/ ReportFailed(k)
    <3>1. PICK i \in DOMAIN job_queue : \/ Report(i, Committed(job_queue[i]))
                                        \/ Report(i, Failed(job_queue[i]))
      BY <2>2 DEF ReportCommitted, ReportFailed
    <3>2. PICK o \in Outcomes(job_queue[i]) : Report(i, o)
      BY <3>1 DEF Outcomes
    <3> QED BY <3>2, JobReport DEF ServiceInv
  <2> QED BY <2>1, <2>2
<1>3. ChannelsTypeOK' /\ CoordinatorTypeOK'
  BY <1>1, <1>2 DEF ServiceInv, ChannelsTypeOK, CoordinatorTypeOK, coordinatorVars
<1>4. OrderInv'
  BY <1>1, <1>2, OrderFrame DEF ServiceInv
<1>5. Keeps
  BY <1>1, <1>2, OwnedFrame, IdTypes DEF ServiceInv, Keeps, coordinatorVars
<1> QED BY <1>2, <1>3, <1>4, <1>5 DEF ServiceInv

-----------------------------------------------------------------------------
(* The calls *)

\* A call as far as it got: nothing was submitted for it, or a ticket for each
\* of the first devices of a well-formed request.
Shape(call) ==
  /\ call.stage # "done" => call.response = None
  /\ \/ /\ call.tickets = <<>> /\ call.stage \in {"idle", "done"} /\ call.response # "Ok"
     \/ /\ call.request \in Request /\ ~Malformed(call.request) /\ call.stage # "idle"
        /\ Len(call.tickets) <= Len(call.request.devices)
        /\ call.stage = "submitting" => Len(call.tickets) < Len(call.request.devices)
        /\ call.stage = "waiting" \/ call.response = "Ok" =>
             Len(call.tickets) = Len(call.request.devices)
        /\ call.response = "Ok" =>
             \A i \in DOMAIN call.tickets : call.tickets[i].state = "recorded"

\* The i-th update of a call has an id that was given out for its key, and that
\* it owns.
Recorded(call, i) ==
  \E n \in Nat, k \in Keys, s \in Status :
    /\ call.tickets[i].id = n /\ call.request.devices[i] = k
    /\ build_user_status(action(call.request)) = s
    /\ DEFAULT_HYDRATED_ID < n /\ n <= last_intent[k] /\ Owned(n, k, s)

\* The service has recorded what the tickets of a call say, and has answered Ok
\* to each of them when the call was told so.
Backed(call) ==
  /\ \A i \in DOMAIN call.tickets : call.tickets[i].state = "recorded" => Recorded(call, i)
  /\ call.response = "Ok" =>
       \A i \in DOMAIN call.tickets :
         \E r \in replies : r.id = call.tickets[i].id /\ r.result = "Ok"

CallInv == \A c \in Callers : \E call \in Call : call = calls[c] /\ Shape(call) /\ Backed(call)

\* A message in the user queue about an update is for a ticket that is queued,
\* and no other message is for it.
QueueInv ==
  /\ \A p \in DOMAIN user_queue : "call" \in DOMAIN user_queue[p] =>
       /\ user_queue[p].index \in DOMAIN calls[user_queue[p].call].tickets
       /\ calls[user_queue[p].call].tickets[user_queue[p].index].state = "queued"
  /\ \A p, q \in DOMAIN user_queue :
       "call" \in DOMAIN user_queue[p] /\ user_queue[p] = user_queue[q] => p = q

\* A request of one key is an action on it, with a status of its own.
LEMMA RequestFacts ==
  ASSUME NEW request \in Request, ~Malformed(request)
  PROVE  /\ action(request) \in UserAction
         /\ build_user_status(action(request)) \in Status
         /\ request.devices \in Seq(Keys)
         /\ Len(request.devices) \in Nat
         /\ DOMAIN request.devices = 1 .. Len(request.devices)
         /\ \A i \in DOMAIN request.devices : request.devices[i] \in Keys
<1>1. /\ request.devices \in Seq(Keys \cup {None}) /\ request.wake \in Wakes \cup {NoWake}
      /\ request.rpc \in {"acknowledge", "activate", "bypass", "snooze"}
  BY DEF Request
<1>2. action(request) \in UserAction
  BY <1>1 DEF action, UserAction
<1>3. \A i \in DOMAIN request.devices : request.devices[i] \in Keys
  BY <1>1 DEF Malformed
<1>4. request.devices \in Seq(Keys)
  BY <1>1, <1>3
<1> QED BY <1>1, <1>2, <1>3, <1>4, StatusTypes

\* What the service keeps, it keeps for the tickets of every call.
LEMMA BackedKept ==
  ASSUME ServiceInv, ServiceInv', Keeps, NEW call \in Call, Backed(call)
  PROVE  Backed(call)'
<1>1. ASSUME NEW i \in DOMAIN call.tickets, call.tickets[i].state = "recorded"
      PROVE  Recorded(call, i)'
  <2>1. PICK n \in Nat, k \in Keys, s \in Status :
          /\ call.tickets[i].id = n /\ call.request.devices[i] = k
          /\ build_user_status(action(call.request)) = s
          /\ DEFAULT_HYDRATED_ID < n /\ n <= last_intent[k] /\ Owned(n, k, s)
    BY <1>1 DEF Backed, Recorded
  <2>2. n < id_counter /\ n <= last_intent'[k]
    <3>1. /\ id_counter \in Nat /\ last_intent[k] \in Nat /\ last_intent[k] < id_counter
          /\ last_intent[k] <= last_intent'[k]
      BY IdTypes DEF ServiceInv, OrderInv, IdInv, Keeps
    <3>2. last_intent'[k] \in Nat
      BY DEF ServiceInv, CoordinatorTypeOK
    <3> QED BY <2>1, <3>1, <3>2
  <2>3. Owned(n, k, s)'
    BY <2>1, <2>2 DEF Keeps
  <2>4. build_user_status(action(call.request))' = s
    BY <2>1 DEF build_user_status, as_state, DefaultStatus, NoWake, action
  <2> QED BY <2>1, <2>2, <2>3, <2>4 DEF Recorded, DEFAULT_HYDRATED_ID
<1>2. call.response = "Ok" =>
        \A i \in DOMAIN call.tickets :
          \E r \in replies' : r.id = call.tickets[i].id /\ r.result = "Ok"
  BY DEF Backed, Keeps
<1> QED BY <1>1, <1>2 DEF Backed

\* A step of the service alone keeps the calls.
LEMMA CallsFrame ==
  ASSUME ServiceInv, ServiceInv', Keeps, CallInv, UNCHANGED calls
  PROVE  CallInv'
<1>1. ASSUME NEW c \in Callers
      PROVE  \E call \in Call : call = calls'[c] /\ Shape(call)' /\ Backed(call)'
  <2>1. PICK call \in Call : call = calls[c] /\ Shape(call) /\ Backed(call)
    BY DEF CallInv
  <2>2. Backed(call)'
    BY <2>1, BackedKept
  <2>3. Shape(call)'
    BY <2>1 DEF Shape, Malformed, NoWake, Request, Wakes
  <2> QED BY <2>1, <2>2, <2>3
<1> QED BY <1>1 DEF CallInv

\* One call moves on.
LEMMA CallChange ==
  ASSUME ServiceInv, ServiceInv', Keeps, CallInv, NEW c \in Callers, NEW moved \in Call,
         calls'[c] = moved, Shape(moved), Backed(moved)',
         \A d \in Callers : d # c => calls'[d] = calls[d]
  PROVE  CallInv'
<1>1. ASSUME NEW d \in Callers
      PROVE  \E call \in Call : call = calls'[d] /\ Shape(call)' /\ Backed(call)'
  <2>1. CASE d = c
    <3>1. Shape(moved)'
      BY DEF Shape, Malformed, NoWake, Request, Wakes
    <3> QED BY <2>1, <3>1
  <2>2. CASE d # c
    <3>1. PICK call \in Call : call = calls[d] /\ Shape(call) /\ Backed(call)
      BY DEF CallInv
    <3>2. Backed(call)'
      BY <3>1, BackedKept
    <3>3. Shape(call)'
      BY <3>1 DEF Shape, Malformed, NoWake, Request, Wakes
    <3> QED BY <2>2, <3>1, <3>2, <3>3
  <2> QED BY <2>1, <2>2
<1> QED BY <1>1 DEF CallInv

-----------------------------------------------------------------------------
(* What callers were told, and what viewers see *)

\* The types of the variables that are not the service's.
ClientTypeOK ==
  /\ workflow_up \in BOOLEAN
  /\ user_queue \in Seq(Queued) /\ Len(user_queue) <= UserCap
  /\ calls \in [Callers -> Call]
  /\ \A c \in Callers : calls[c].request \in Requests[c] \cup {None}
  /\ views \in [Viewers -> View]

\* The i-th update of a call.
UpdateOf(call, i) ==
  [key |-> call.request.devices[i], id |-> call.tickets[i].id,
   status |-> build_user_status(action(call.request))]

\* An Ok is about updates that the service recorded and answered Ok.
LEMMA AcknowledgedFacts ==
  ASSUME CallInv, NEW p \in Acknowledged
  PROVE  \E n \in Nat, k \in Keys, s \in Status :
           /\ p = [key |-> k, id |-> n, status |-> s]
           /\ DEFAULT_HYDRATED_ID < n /\ n <= last_intent[k] /\ Owned(n, k, s)
           /\ \E r \in replies : r.id = n /\ r.result = "Ok"
<1>1. PICK c \in Callers : /\ calls[c].response = "Ok"
                           /\ \E i \in DOMAIN calls[c].request.devices :
                                p = UpdateOf(calls[c], i)
  BY DEF Acknowledged, UpdateOf
<1>2. PICK call \in Call : call = calls[c] /\ Shape(call) /\ Backed(call)
  BY DEF CallInv
<1>3. PICK i \in DOMAIN call.request.devices : p = UpdateOf(call, i)
  BY <1>1, <1>2
<1>4. /\ call.request \in Request /\ ~Malformed(call.request)
      /\ Len(call.tickets) = Len(call.request.devices)
      /\ \A j \in DOMAIN call.tickets : call.tickets[j].state = "recorded"
  BY <1>1, <1>2 DEF Shape
<1>5. call.tickets \in Seq(Ticket)
  BY DEF Call
<1>6. i \in DOMAIN call.tickets
  BY <1>4, <1>5, RequestFacts
<1>7. Recorded(call, i) /\ \E r \in replies : r.id = call.tickets[i].id /\ r.result = "Ok"
  BY <1>1, <1>2, <1>4, <1>6 DEF Backed
<1> QED BY <1>3, <1>7 DEF Recorded, UpdateOf

\* Back at its select, the coordinator has each of them confirmed, or something
\* newer of its key; and the id tells whether it is the update itself.
LEMMA ConfirmedFacts ==
  ASSUME ServiceInv, Listening, NEW n \in Nat, NEW k \in Keys, NEW s \in Status,
         Owned(n, k, s), \E r \in replies : r.id = n /\ r.result = "Ok"
  PROVE  /\ confirmed_state[k] # None /\ confirmed_state[k].id >= n
         /\ confirmed_state[k].id \in Nat
         /\ confirmed_state[k].id = n => confirmed_state[k].status = s
<1>1. running /\ committing = None
  BY DEF Listening, ServiceInv, OrderInv, WaitingInv
<1>2. PICK r \in replies : r.id = n /\ r.result = "Ok"
  OBVIOUS
<1>3. r.key = k
  BY <1>2 DEF Owned
<1>4. confirmed_state[k] # None /\ n <= confirmed_state[k].id
  BY <1>1, <1>2, <1>3 DEF ServiceInv, OrderInv, OkInv
<1>5. confirmed_state[k].id \in Nat
  BY <1>4, IdTypes DEF ServiceInv
<1> QED BY <1>4, <1>5 DEF Owned

\* What was acknowledged stays acknowledged, as long as no call that was told
\* Ok changes.
LEMMA AcknowledgedGrows ==
  ASSUME \A d \in Callers : calls[d].response = "Ok" => calls'[d] = calls[d]
  PROVE  Acknowledged \subseteq Acknowledged'
<1> SUFFICES ASSUME NEW p \in Acknowledged PROVE p \in Acknowledged'
  OBVIOUS
<1>1. PICK c \in Callers : /\ calls[c].response = "Ok"
                           /\ \E i \in DOMAIN calls[c].request.devices :
                                p = UpdateOf(calls[c], i)
  BY DEF Acknowledged, UpdateOf
<1>2. PICK call : call = calls[c] /\ call = calls'[c]
  BY <1>1
<1>3. PICK i \in DOMAIN call.request.devices : p = UpdateOf(call, i)
  BY <1>1, <1>2
<1>4. p = [key |-> calls'[c].request.devices[i], id |-> calls'[c].tickets[i].id,
           status |-> build_user_status(action(calls'[c].request))]
  BY <1>2, <1>3 DEF UpdateOf
<1> QED BY <1>1, <1>2, <1>4 DEF Acknowledged

\* Update p is what its key is shown with.
Shows(p, shown) ==
  IF p.status.state \in {"Ok", "Unbypassed"} THEN p.key \notin DOMAIN shown
  ELSE p.key \in DOMAIN shown /\ shown[p.key] = p.status

\* Update p is in a view, or something newer of its key that was confirmed.
Covers(p, view) ==
  view.ids[p.key] >= p.id /\ (view.ids[p.key] = p.id => Shows(p, view.shown))

\* A viewer knew of acknowledged updates only, and the answer covers each.
Seen(view) ==
  \A p \in view.known : p \in Acknowledged /\ (view.stage = "done" => Covers(p, view))

ViewInv == \A v \in Viewers : \E view \in View : view = views[v] /\ Seen(view)

\* It stays so: nothing that was acknowledged is taken back.
LEMMA SeenKept ==
  ASSUME Acknowledged \subseteq Acknowledged', NEW view \in View, Seen(view)
  PROVE  Seen(view)'
<1>1. \A p \in view.known : p \in Acknowledged'
  BY DEF Seen
<1>2. \A p \in view.known : Covers(p, view)' <=> Covers(p, view)
  BY DEF Covers, Shows
<1> QED BY <1>1, <1>2 DEF Seen

\* One view, or none, moves on.
LEMMA ViewChange ==
  ASSUME Acknowledged \subseteq Acknowledged', ViewInv,
         \A v \in Viewers : \/ views'[v] = views[v]
                            \/ \E view \in View : view = views'[v] /\ Seen(view)'
  PROVE  ViewInv'
<1>1. ASSUME NEW v \in Viewers PROVE \E view \in View : view = views'[v] /\ Seen(view)'
  <2>1. PICK view \in View : view = views[v] /\ Seen(view)
    BY DEF ViewInv
  <2>2. Seen(view)'
    BY <2>1, SeenKept
  <2> QED BY <2>1, <2>2
<1> QED BY <1>1 DEF ViewInv

-----------------------------------------------------------------------------
(* The user queue *)

\* A message is about an update of a call or for a viewer, and says which.
LEMMA MessageFacts ==
  /\ \A c \in Callers, i \in Nat :
       /\ [call |-> c, index |-> i] \in Queued
       /\ "call" \in DOMAIN [call |-> c, index |-> i]
  /\ \A v \in Viewers : /\ [view |-> v] \in Queued
                        /\ "call" \notin DOMAIN [view |-> v]
  /\ \A m \in Queued : /\ "call" \in DOMAIN m =>
                            /\ m.call \in Callers /\ m.index \in Nat
                            /\ m = [call |-> m.call, index |-> m.index]
                       /\ "view" \in DOMAIN m => m.view \in Viewers
<1>1. \A c \in Callers, i \in Nat :
        /\ [call |-> c, index |-> i] \in Queued
        /\ "call" \in DOMAIN [call |-> c, index |-> i]
  BY DEF Queued
<1>2. \A v \in Viewers : /\ [view |-> v] \in Queued
                         /\ "call" \notin DOMAIN [view |-> v]
  BY DEF Queued
<1>3. ASSUME NEW m \in Queued, "call" \in DOMAIN m
      PROVE  /\ m.call \in Callers /\ m.index \in Nat
             /\ m = [call |-> m.call, index |-> m.index]
  BY <1>3 DEF Queued
<1>4. ASSUME NEW m \in Queued, "view" \in DOMAIN m PROVE m.view \in Viewers
  BY <1>4 DEF Queued
<1> QED BY <1>1, <1>2, <1>3, <1>4

\* The queue keeps its invariant when no ticket that is queued changes.
LEMMA QueueFrame ==
  ASSUME ClientTypeOK, QueueInv, UNCHANGED user_queue,
         \A c \in Callers : /\ DOMAIN calls[c].tickets \subseteq DOMAIN calls'[c].tickets
                            /\ \A i \in DOMAIN calls[c].tickets :
                                 calls'[c].tickets[i] = calls[c].tickets[i]
  PROVE  QueueInv'
<1>1. ASSUME NEW p \in DOMAIN user_queue, "call" \in DOMAIN user_queue[p]
      PROVE  /\ user_queue[p].index \in DOMAIN calls'[user_queue[p].call].tickets
             /\ calls'[user_queue[p].call].tickets[user_queue[p].index].state = "queued"
  <2>1. user_queue[p].call \in Callers
    BY <1>1, MessageFacts DEF ClientTypeOK
  <2> QED BY <1>1, <2>1 DEF QueueInv
<1> QED BY <1>1 DEF QueueInv

\* A message put on the queue is for a viewer, or for a new ticket.
LEMMA QueueSend ==
  ASSUME ClientTypeOK, QueueInv, NEW m \in Queued, user_queue' = Append(user_queue, m),
         "call" \in DOMAIN m =>
           /\ m.index \notin DOMAIN calls[m.call].tickets
           /\ m.index \in DOMAIN calls'[m.call].tickets
           /\ calls'[m.call].tickets[m.index].state = "queued",
         \A c \in Callers : /\ DOMAIN calls[c].tickets \subseteq DOMAIN calls'[c].tickets
                            /\ \A i \in DOMAIN calls[c].tickets :
                                 calls'[c].tickets[i] = calls[c].tickets[i]
  PROVE  QueueInv'
<1>1. PICK n \in Nat :
        /\ DOMAIN user_queue = 1 .. n /\ DOMAIN user_queue' = 1 .. (n + 1)
        /\ user_queue'[n + 1] = m
        /\ \A i \in DOMAIN user_queue : user_queue'[i] = user_queue[i]
  BY AppendFacts DEF ClientTypeOK
<1>2. \A p \in DOMAIN user_queue' : \/ p \in DOMAIN user_queue
                                    \/ p = n + 1
  BY <1>1
<1>3. ASSUME NEW p \in DOMAIN user_queue, "call" \in DOMAIN user_queue[p]
      PROVE  /\ user_queue[p].index \in DOMAIN calls'[user_queue[p].call].tickets
             /\ calls'[user_queue[p].call].tickets[user_queue[p].index].state = "queued"
             /\ user_queue[p] # m
  <2>1. user_queue[p].call \in Callers
    BY <1>3, MessageFacts DEF ClientTypeOK
  <2> QED BY <1>3, <2>1 DEF QueueInv
<1>4. ASSUME NEW p \in DOMAIN user_queue', "call" \in DOMAIN user_queue'[p]
      PROVE  /\ user_queue'[p].index \in DOMAIN calls'[user_queue'[p].call].tickets
             /\ calls'[user_queue'[p].call].tickets[user_queue'[p].index].state = "queued"
  BY <1>1, <1>2, <1>3, <1>4
<1>5. ASSUME NEW p \in DOMAIN user_queue', NEW q \in DOMAIN user_queue',
             "call" \in DOMAIN user_queue'[p], user_queue'[p] = user_queue'[q]
      PROVE  p = q
  <2>1. CASE p \in DOMAIN user_queue /\ q \in DOMAIN user_queue
    BY <1>1, <1>5, <2>1 DEF QueueInv
  <2>2. CASE p \in DOMAIN user_queue /\ q = n + 1
    BY <1>1, <1>3, <1>5, <2>2
  <2>3. CASE p = n + 1 /\ q \in DOMAIN user_queue
    BY <1>1, <1>3, <1>5, <2>3
  <2> QED BY <1>2, <2>1, <2>2, <2>3
<1> QED BY <1>4, <1>5 DEF QueueInv

\* The first message is taken: when it was about an update, no message that is
\* left is for the same ticket.
LEMMA QueueTake ==
  ASSUME ClientTypeOK, QueueInv, user_queue # <<>>, user_queue' = Tail(user_queue),
         \A c \in Callers : \A i \in DOMAIN calls[c].tickets :
           \/ Head(user_queue) = [call |-> c, index |-> i]
           \/ /\ i \in DOMAIN calls'[c].tickets
              /\ calls'[c].tickets[i].state = calls[c].tickets[i].state
  PROVE  QueueInv'
<1>1. /\ 1 \in DOMAIN user_queue /\ Head(user_queue) = user_queue[1]
      /\ \A i \in DOMAIN user_queue' : /\ i \in Nat \ {0}
                                       /\ i + 1 \in DOMAIN user_queue
                                       /\ user_queue'[i] = user_queue[i + 1]
  BY TailFacts DEF ClientTypeOK
<1>2. ASSUME NEW p \in DOMAIN user_queue', "call" \in DOMAIN user_queue'[p]
      PROVE  /\ user_queue'[p].index \in DOMAIN calls'[user_queue'[p].call].tickets
             /\ calls'[user_queue'[p].call].tickets[user_queue'[p].index].state = "queued"
  <2>1. PICK m \in Queued : m = user_queue'[p] /\ m = user_queue[p + 1]
    BY <1>1 DEF ClientTypeOK
  <2>2. /\ m.call \in Callers /\ m.index \in DOMAIN calls[m.call].tickets
        /\ calls[m.call].tickets[m.index].state = "queued"
        /\ m = [call |-> m.call, index |-> m.index]
    BY <1>1, <1>2, <2>1, MessageFacts DEF QueueInv
  <2>3. Head(user_queue) # m
    BY <1>1, <1>2, <2>1 DEF QueueInv
  <2> QED BY <2>1, <2>2, <2>3
<1>3. ASSUME NEW p \in DOMAIN user_queue', NEW q \in DOMAIN user_queue',
             "call" \in DOMAIN user_queue'[p], user_queue'[p] = user_queue'[q]
      PROVE  p = q
  <2>1. p + 1 = q + 1
    BY <1>1, <1>3 DEF QueueInv
  <2> QED BY <1>1, <2>1
<1> QED BY <1>2, <1>3 DEF QueueInv

\* The coordinator's end takes its queue along.
LEMMA QueueEnds ==
  ASSUME user_queue' = <<>>
  PROVE  QueueInv'
<1>1. DOMAIN user_queue' = {}
  OBVIOUS
<1> QED BY <1>1 DEF QueueInv

-----------------------------------------------------------------------------
(* The inductive invariant, step by step *)

IInv == ServiceInv /\ ClientTypeOK /\ CallInv /\ QueueInv /\ ViewInv

\* A call c that was not told Ok moves on, and no view changes.
LEMMA CallMoves ==
  ASSUME IInv, ServiceInv', Keeps, UNCHANGED <<workflow_up, views>>,
         user_queue' \in Seq(Queued), Len(user_queue') <= UserCap, QueueInv',
         NEW c \in Callers, NEW moved \in Call, calls[c].response # "Ok",
         calls' \in [Callers -> Call], calls'[c] = moved,
         \A d \in Callers : d # c => calls'[d] = calls[d],
         moved.request \in Requests[c] \cup {None}, Shape(moved), Backed(moved)'
  PROVE  IInv'
<1>1. CallInv'
  BY CallChange DEF IInv
<1>2. Acknowledged \subseteq Acknowledged'
  BY AcknowledgedGrows
<1>3. ViewInv'
  BY <1>2, ViewChange DEF IInv
<1>4. ClientTypeOK'
  BY DEF IInv, ClientTypeOK
<1> QED BY <1>1, <1>3, <1>4 DEF IInv

\* No caller takes a step; the user queue stays, or is lost.
LEMMA ServiceMoves ==
  ASSUME IInv, ServiceInv', Keeps, UNCHANGED <<calls, views>>, workflow_up' \in BOOLEAN,
         user_queue' \in {user_queue, <<>>}
  PROVE  IInv'
<1>1. CallInv'
  BY CallsFrame DEF IInv
<1>2. Acknowledged \subseteq Acknowledged'
  BY AcknowledgedGrows
<1>3. ViewInv'
  BY <1>2, ViewChange DEF IInv
<1>4. ClientTypeOK'
  <2>1. UserCap \in Nat /\ <<>> \in Seq(Queued) /\ Len(<<>>) = 0
    BY GrpcAssumption
  <2>2. user_queue' \in Seq(Queued) /\ Len(user_queue') <= UserCap
    <3>1. CASE user_queue' = user_queue
      BY <3>1 DEF IInv, ClientTypeOK
    <3>2. CASE user_queue' = <<>>
      BY <2>1, <3>2
    <3> QED BY <3>1, <3>2
  <2> QED BY <2>2 DEF IInv, ClientTypeOK
<1>5. QueueInv'
  BY QueueFrame, QueueEnds DEF IInv
<1> QED BY <1>1, <1>3, <1>4, <1>5 DEF IInv

\* A request is taken up, or refused as malformed.
LEMMA BeginStep ==
  ASSUME IInv, NEW c \in Callers, NEW request \in Requests[c], Begin(c, request)
  PROVE  IInv'
<1>1. ServiceInv' /\ Keeps /\ UNCHANGED <<workflow_up, user_queue, views>>
  BY ServiceFrame DEF IInv, Begin, serviceVars, handlerVars
<1>2. PICK call \in Call : call = calls[c] /\ Shape(call)
  BY DEF IInv, CallInv
<1>3. request \in Request /\ calls \in [Callers -> Call] /\ call.stage = "idle"
  BY <1>2, RequestsAssumption DEF Begin, IInv, ClientTypeOK
<1>4. call.tickets = <<>> /\ call.response = None /\ call.request \in Requests[c] \cup {None}
  BY <1>2, <1>3 DEF Shape, IInv, ClientTypeOK
<1>5. None # "Ok"
  BY NoneIsNoResponse DEF Response
<1>6. /\ calls' \in [Callers -> Call]
      /\ \A d \in Callers : d # c => calls'[d] = calls[d]
      /\ calls'[c].tickets = <<>>
      /\ calls'[c].request \in Requests[c] \cup {None}
      /\ Malformed(request) => /\ calls'[c].stage = "done"
                               /\ calls'[c].response = "InvalidArgument"
      /\ ~Malformed(request) =>
           /\ calls'[c].request = request /\ calls'[c].response = None
           /\ calls'[c].stage = IF request.devices = <<>> THEN "waiting" ELSE "submitting"
  <2>1. CASE Malformed(request)
    <3>1. calls' = [calls EXCEPT ![c].stage = "done", ![c].response = "InvalidArgument"]
      BY <2>1 DEF Begin
    <3> QED BY <1>2, <1>3, <1>4, <2>1, <3>1 DEF Call, Response
  <2>2. CASE ~Malformed(request)
    <3>1. calls' = [calls EXCEPT ![c].stage = IF request.devices = <<>>
                                                THEN "waiting" ELSE "submitting",
                                 ![c].request = request]
      BY <2>2 DEF Begin
    <3> QED BY <1>2, <1>3, <1>4, <2>2, <3>1 DEF Call
  <2> QED BY <2>1, <2>2
<1>7. PICK moved \in Call : moved = calls'[c]
  BY <1>6
<1>8. Shape(moved)
  <2>1. CASE Malformed(request)
    BY <1>6, <1>7, <2>1 DEF Shape
  <2>2. CASE ~Malformed(request)
    <3>1. /\ Len(request.devices) \in Nat
          /\ request.devices = <<>> <=> Len(request.devices) = 0
      BY <1>3, <2>2, RequestFacts
    <3> QED BY <1>3, <1>5, <1>6, <1>7, <2>2, <3>1 DEF Shape
  <2> QED BY <2>1, <2>2
<1>9. Backed(moved)'
  <2>1. DOMAIN moved.tickets = {}
    BY <1>6, <1>7
  <2> QED BY <2>1 DEF Backed
<1>10. QueueInv'
  <2>1. \A d \in Callers : calls'[d].tickets = calls[d].tickets
    BY <1>2, <1>4, <1>6
  <2> QED BY <1>1, <2>1, QueueFrame DEF IInv
<1>11. user_queue' \in Seq(Queued) /\ Len(user_queue') <= UserCap
  BY <1>1 DEF IInv, ClientTypeOK
<1> QED BY <1>1, <1>2, <1>4, <1>5, <1>6, <1>7, <1>8, <1>9, <1>10, <1>11, CallMoves

\* A call that is under way returns, and leaves its tickets as they are.
LEMMA ReturnStep ==
  ASSUME IInv, NEW c \in Callers, NEW response \in Response, Return(c, response),
         UNCHANGED <<serviceVars, user_queue, views>>,
         calls[c].stage \in {"submitting", "waiting"},
         response = "Ok" =>
           /\ calls[c].stage = "waiting"
           /\ \A i \in DOMAIN calls[c].tickets :
                /\ calls[c].tickets[i].state = "recorded"
                /\ \E r \in replies : r.id = calls[c].tickets[i].id /\ r.result = "Ok"
  PROVE  IInv'
<1>1. ServiceInv' /\ Keeps /\ UNCHANGED <<workflow_up, user_queue, views, replies>>
  BY ServiceFrame DEF IInv, serviceVars, handlerVars, coordinatorVars
<1>2. PICK call \in Call : call = calls[c] /\ Shape(call) /\ Backed(call)
  BY DEF IInv, CallInv
<1>3. call.response = None /\ None # "Ok"
  BY <1>2, NoneIsNoResponse DEF Shape, Response
<1>4. /\ calls' \in [Callers -> Call]
      /\ \A d \in Callers : d # c => calls'[d] = calls[d]
      /\ calls'[c].tickets = call.tickets /\ calls'[c].request = call.request
      /\ calls'[c].stage = "done" /\ calls'[c].response = response
  BY <1>2 DEF Return, IInv, ClientTypeOK, Call
<1>5. PICK moved \in Call : moved = calls'[c]
  BY <1>4
<1>6. Shape(moved)
  BY <1>2, <1>4, <1>5 DEF Shape
<1>7. Backed(moved)'
  <2>1. Backed(call)'
    BY <1>1, <1>2, BackedKept DEF IInv
  <2>2. ASSUME NEW i \in DOMAIN moved.tickets, moved.tickets[i].state = "recorded"
        PROVE  Recorded(moved, i)'
    <3>1. Recorded(call, i)'
      BY <1>4, <1>5, <2>1, <2>2 DEF Backed
    <3> QED BY <1>4, <1>5, <3>1 DEF Recorded
  <2>3. response = "Ok" =>
          \A i \in DOMAIN moved.tickets :
            \E r \in replies' : r.id = moved.tickets[i].id /\ r.result = "Ok"
    BY <1>1, <1>2, <1>4, <1>5
  <2> QED BY <1>4, <1>5, <2>2, <2>3 DEF Backed
<1>8. QueueInv'
  <2>1. \A d \in Callers : calls'[d].tickets = calls[d].tickets
    BY <1>2, <1>4
  <2> QED BY <1>1, <2>1, QueueFrame DEF IInv
<1>9. user_queue' \in Seq(Queued) /\ Len(user_queue') <= UserCap
  BY <1>1 DEF IInv, ClientTypeOK
<1>10. moved.request \in Requests[c] \cup {None}
  BY <1>2, <1>4, <1>5 DEF IInv, ClientTypeOK
<1> QED BY <1>1, <1>2, <1>3, <1>4, <1>5, <1>6, <1>7, <1>8, <1>9, <1>10, CallMoves

\* The update of the next device is queued, or the whole call fails.
LEMMA SubmitStep ==
  ASSUME IInv, NEW c \in Callers, SubmitNext(c)
  PROVE  IInv'
<1>1. UNCHANGED <<serviceVars, views>> /\ calls[c].stage = "submitting"
  BY DEF SubmitNext
<1>2. PICK call \in Call : call = calls[c] /\ Shape(call) /\ Backed(call)
  BY DEF IInv, CallInv
<1>3. PICK n \in Nat : n = Len(call.tickets)
  BY DEF Call
<1>4. CASE SubmitFails(c)
  <2>1. PICK response \in Response : response = map_user_send_error
    BY DEF map_user_send_error, Response
  <2>2. response # "Ok"
    BY <2>1 DEF map_user_send_error
  <2>3. Return(c, response) /\ UNCHANGED user_queue
    BY <1>4, <2>1 DEF SubmitFails
  <2> QED BY <1>1, <2>2, <2>3, ReturnStep
<1>5. CASE /\ try_send([call |-> c, index |-> n + 1])
           /\ calls' = [calls EXCEPT
                ![c].stage = IF n + 1 < Len(calls[c].request.devices)
                               THEN "submitting" ELSE "waiting",
                ![c].tickets = Append(@, [state |-> "queued", id |-> DEFAULT_HYDRATED_ID])]
  <2>1. ServiceInv' /\ Keeps /\ UNCHANGED <<workflow_up, views>>
    BY <1>1, ServiceFrame DEF IInv, serviceVars, handlerVars
  <2>2. PICK ticket \in Ticket : ticket = [state |-> "queued", id |-> DEFAULT_HYDRATED_ID]
    BY DEF Ticket, DEFAULT_HYDRATED_ID
  <2>3. ticket.state = "queued"
    BY <2>2
  <2>4. /\ call.request \in Request /\ ~Malformed(call.request)
        /\ n < Len(call.request.devices) /\ Len(call.request.devices) \in Nat
        /\ call.response = None
    BY <1>1, <1>2, <1>3, RequestFacts DEF Shape
  <2>5. /\ Append(call.tickets, ticket) \in Seq(Ticket)
        /\ DOMAIN call.tickets = 1 .. n /\ DOMAIN Append(call.tickets, ticket) = 1 .. (n + 1)
        /\ Len(Append(call.tickets, ticket)) = n + 1
        /\ Append(call.tickets, ticket)[n + 1] = ticket
        /\ \A i \in DOMAIN call.tickets : Append(call.tickets, ticket)[i] = call.tickets[i]
    BY <1>3, AppendFacts DEF Call
  <2>6. /\ calls' \in [Callers -> Call]
        /\ \A d \in Callers : d # c => calls'[d] = calls[d]
        /\ calls'[c].tickets = Append(call.tickets, ticket)
        /\ calls'[c].request = call.request /\ calls'[c].response = None
        /\ calls'[c].stage = IF n + 1 < Len(call.request.devices)
                               THEN "submitting" ELSE "waiting"
    BY <1>2, <1>5, <2>2, <2>4, <2>5 DEF IInv, ClientTypeOK, Call
  <2>7. PICK moved \in Call : moved = calls'[c]
    BY <2>6
  <2>8. None # "Ok"
    BY NoneIsNoResponse DEF Response
  <2>9. Shape(moved)
    BY <2>4, <2>5, <2>6, <2>7, <2>8 DEF Shape
  <2>10. Backed(moved)'
    <3>1. Backed(call)'
      BY <1>2, <2>1, BackedKept DEF IInv
    <3>2. ASSUME NEW i \in DOMAIN moved.tickets, moved.tickets[i].state = "recorded"
          PROVE  Recorded(moved, i)'
      <4>1. i \in DOMAIN call.tickets /\ moved.tickets[i] = call.tickets[i]
        BY <2>3, <2>5, <2>6, <2>7, <3>2
      <4>2. Recorded(call, i)'
        BY <3>1, <3>2, <4>1 DEF Backed
      <4> QED BY <2>6, <2>7, <4>1, <4>2 DEF Recorded
    <3> QED BY <2>6, <2>7, <2>8, <3>2 DEF Backed
  <2>11. /\ running /\ Len(user_queue) < UserCap
         /\ user_queue' = Append(user_queue, [call |-> c, index |-> n + 1])
    BY <1>5 DEF try_send
  <2>12. user_queue' \in Seq(Queued) /\ Len(user_queue') <= UserCap
    <3>1. [call |-> c, index |-> n + 1] \in Queued
      BY MessageFacts
    <3>2. Len(user_queue) \in Nat /\ Len(user_queue') = Len(user_queue) + 1
      BY <2>11, <3>1 DEF IInv, ClientTypeOK
    <3> QED BY <2>11, <3>1, <3>2, AppendFacts, GrpcAssumption DEF IInv, ClientTypeOK
  <2>13. QueueInv'
    <3>. [call |-> c, index |-> n + 1] \in Queued
      BY MessageFacts
    <3>1. PICK m \in Queued : m = [call |-> c, index |-> n + 1]
      OBVIOUS
    <3>2. m.call = c /\ m.index = n + 1
      BY <3>1
    <3>3. /\ n + 1 \notin DOMAIN calls[c].tickets
          /\ n + 1 \in DOMAIN calls'[c].tickets
          /\ calls'[c].tickets[n + 1].state = "queued"
      BY <1>2, <2>3, <2>5, <2>6
    <3>4. \A d \in Callers : /\ DOMAIN calls[d].tickets \subseteq DOMAIN calls'[d].tickets
                             /\ \A i \in DOMAIN calls[d].tickets :
                                  calls'[d].tickets[i] = calls[d].tickets[i]
      BY <1>2, <2>5, <2>6
    <3> QED BY <2>11, <3>1, <3>2, <3>3, <3>4, QueueSend DEF IInv
  <2>14. moved.request \in Requests[c] \cup {None} /\ calls[c].response # "Ok"
    BY <1>2, <2>4, <2>6, <2>7, <2>8 DEF IInv, ClientTypeOK
  <2> QED BY <2>1, <2>6, <2>7, <2>9, <2>10, <2>12, <2>13, <2>14, CallMoves
<1> QED BY <1>2, <1>3, <1>4, <1>5 DEF SubmitNext

\* A receiver that yields Ok is that of a recorded update, answered Ok.
LEMMA ConfirmationFacts ==
  ASSUME CoordinatorTypeOK, NEW ticket \in Ticket, confirmation(ticket) = "Ok"
  PROVE  /\ ticket.state = "recorded"
         /\ \E r \in replies : r.id = ticket.id /\ r.result = "Ok"
<1>1. None # "Ok"
  BY NoneIsNoResponse DEF Response
<1>2. ticket.state # "refused" /\ ticket.state # "queued"
  BY <1>1 DEF confirmation
<1>3. ticket.state = "recorded"
  BY <1>2 DEF Ticket
<1> DEFINE told == { r \in replies : r.id = ticket.id }
<1>4. told # {} /\ (CHOOSE r \in told : TRUE).result = "Ok"
  BY <1>1, <1>2 DEF confirmation
<1>5. (CHOOSE r \in told : TRUE) \in told
  BY <1>4
<1> QED BY <1>3, <1>4, <1>5

\* Every receiver of a call has yielded, and the call returns.
LEMMA ConfirmationStep ==
  ASSUME IInv, NEW c \in Callers, handle_confirmation(c)
  PROVE  IInv'
<1> DEFINE results == { confirmation(calls[c].tickets[i]) : i \in DOMAIN calls[c].tickets }
<1>1. /\ calls[c].stage = "waiting" /\ Return(c, build_grpc_result(results))
      /\ UNCHANGED <<serviceVars, user_queue, views>>
  BY DEF handle_confirmation
<1>2. PICK response \in Response : response = build_grpc_result(results)
  BY DEF build_grpc_result, Response
<1>3. response = "Ok" => results \subseteq {"Ok"}
  BY <1>2 DEF build_grpc_result
<1>4. \A i \in DOMAIN calls[c].tickets : calls[c].tickets[i] \in Ticket
  BY DEF IInv, ClientTypeOK, Call
<1>5. ASSUME response = "Ok", NEW i \in DOMAIN calls[c].tickets
      PROVE  /\ calls[c].tickets[i].state = "recorded"
             /\ \E r \in replies : r.id = calls[c].tickets[i].id /\ r.result = "Ok"
  <2>1. confirmation(calls[c].tickets[i]) = "Ok"
    BY <1>3, <1>5
  <2>2. PICK ticket \in Ticket : ticket = calls[c].tickets[i]
    BY <1>4
  <2> QED BY <2>1, <2>2, ConfirmationFacts DEF IInv, ServiceInv
<1> QED BY <1>1, <1>2, <1>5, ReturnStep

\* What was acknowledged are updates.
LEMMA AcknowledgedType ==
  ASSUME CallInv
  PROVE  Acknowledged \subseteq Update
BY AcknowledgedFacts DEF Update

\* A view of known updates moves on, and no call changes.
LEMMA ViewMoves ==
  ASSUME IInv, UNCHANGED <<serviceVars, calls>>,
         user_queue' \in Seq(Queued), Len(user_queue') <= UserCap, QueueInv',
         NEW v \in Viewers, NEW moved \in View, moved = views'[v],
         views' \in [Viewers -> View],
         \A w \in Viewers : w # v => views'[w] = views[w],
         Seen(moved)
  PROVE  IInv'
<1>1. ServiceInv' /\ Keeps /\ UNCHANGED <<workflow_up, calls>>
  BY ServiceFrame DEF IInv, serviceVars, handlerVars
<1>2. CallInv'
  BY <1>1, CallsFrame DEF IInv
<1>3. Acknowledged \subseteq Acknowledged'
  BY AcknowledgedGrows
<1>4. Seen(moved)'
  BY <1>1, <1>3, SeenKept DEF IInv
<1>5. ViewInv'
  BY <1>1, <1>3, <1>4, ViewChange DEF IInv
<1>6. ClientTypeOK'
  BY <1>1 DEF IInv, ClientTypeOK
<1> QED BY <1>1, <1>2, <1>5, <1>6 DEF IInv

\* A snapshot is asked for, or the request fails or is dropped.
LEMMA SnapshotStep ==
  ASSUME IInv, NEW v \in Viewers, get_snapshot(v) \/ SnapshotDropped(v)
  PROVE  IInv'
<1>1. UNCHANGED <<serviceVars, calls>> /\ views \in [Viewers -> View]
  BY DEF get_snapshot, SnapshotDropped, IInv, ClientTypeOK
<1>2. PICK view \in View : view = views[v] /\ Seen(view)
  BY DEF IInv, ViewInv
<1>3. \A c \in Callers : /\ DOMAIN calls[c].tickets \subseteq DOMAIN calls'[c].tickets
                         /\ \A i \in DOMAIN calls[c].tickets :
                              calls'[c].tickets[i] = calls[c].tickets[i]
  BY <1>1
<1>4. CASE /\ try_send([view |-> v])
           /\ views' = [views EXCEPT ![v].stage = "waiting", ![v].known = Acknowledged]
  <2>1. PICK m \in Queued : m = [view |-> v] /\ "call" \notin DOMAIN m
    BY MessageFacts
  <2>2. Len(user_queue) < UserCap /\ user_queue' = Append(user_queue, m)
    BY <1>4, <2>1 DEF try_send
  <2>3. user_queue' \in Seq(Queued) /\ Len(user_queue') <= UserCap
    <3>1. Len(user_queue) \in Nat /\ Len(user_queue') = Len(user_queue) + 1
      BY <2>2 DEF IInv, ClientTypeOK
    <3> QED BY <2>2, <3>1, AppendFacts, GrpcAssumption DEF IInv, ClientTypeOK
  <2>4. QueueInv'
    BY <1>3, <2>1, <2>2, QueueSend DEF IInv
  <2>5. Acknowledged \in SUBSET Update
    BY AcknowledgedType DEF IInv
  <2>6. /\ views' \in [Viewers -> View]
        /\ \A w \in Viewers : w # v => views'[w] = views[w]
        /\ views'[v].stage = "waiting" /\ views'[v].known = Acknowledged
    BY <1>1, <1>4, <2>5 DEF View
  <2>7. PICK moved \in View : moved = views'[v]
    BY <2>6
  <2>8. Seen(moved)
    BY <2>6, <2>7 DEF Seen
  <2> QED BY <1>1, <2>3, <2>4, <2>6, <2>7, <2>8, ViewMoves
<1>5. CASE views' = [views EXCEPT ![v].stage = "failed"] /\ UNCHANGED user_queue
  <2>1. /\ views' \in [Viewers -> View]
        /\ \A w \in Viewers : w # v => views'[w] = views[w]
        /\ views'[v].stage = "failed" /\ views'[v].known = view.known
    BY <1>1, <1>2, <1>5 DEF View
  <2>2. PICK moved \in View : moved = views'[v]
    BY <2>1
  <2>3. Seen(moved)
    BY <1>2, <2>1, <2>2 DEF Seen
  <2>4. QueueInv'
    BY <1>3, <1>5, QueueFrame DEF IInv
  <2>5. user_queue' \in Seq(Queued) /\ Len(user_queue') <= UserCap
    BY <1>5 DEF IInv, ClientTypeOK
  <2> QED BY <1>1, <2>1, <2>2, <2>3, <2>4, <2>5, ViewMoves
<1> QED BY <1>4, <1>5 DEF get_snapshot, SnapshotDropped

\* The snapshot taken now covers what was acknowledged.
LEMMA SnapshotShows ==
  ASSUME ServiceInv, CallInv, Listening, NEW p \in Acknowledged, NEW view,
         view.ids = ConfirmedIds,
         view.shown = [k \in handle_snapshot |-> confirmed_state[k].status]
  PROVE  Covers(p, view)
<1>1. PICK n \in Nat, k \in Keys, s \in Status :
        /\ p = [key |-> k, id |-> n, status |-> s]
        /\ Owned(n, k, s)
        /\ \E r \in replies : r.id = n /\ r.result = "Ok"
  BY AcknowledgedFacts
<1>2. p.id = n /\ p.key = k /\ p.status = s
  BY <1>1
<1>3. /\ confirmed_state[k] # None /\ confirmed_state[k].id >= n
      /\ confirmed_state[k].id = n => confirmed_state[k].status = s
  BY <1>1, ConfirmedFacts
<1>4. view.ids[k] = confirmed_state[k].id
  BY <1>3 DEF ConfirmedIds
<1>5. CASE confirmed_state[k].id = n
  <2>1. k \in handle_snapshot <=> s.state \notin {"Ok", "Unbypassed"}
    BY <1>3, <1>5 DEF handle_snapshot
  <2>2. DOMAIN view.shown = handle_snapshot /\ (k \in handle_snapshot => view.shown[k] = s)
    BY <1>3, <1>5
  <2>3. Shows(p, view.shown)
    BY <1>2, <2>1, <2>2 DEF Shows
  <2> QED BY <1>2, <1>3, <1>4, <2>3 DEF Covers
<1> QED BY <1>2, <1>3, <1>4, <1>5 DEF Covers

\* The view of v is answered.
Answers(v, shown, ids) ==
  views' = [views EXCEPT ![v].stage = "done", ![v].shown = shown, ![v].ids = ids]

\* The coordinator answers a snapshot request.
LEMMA TakeView ==
  ASSUME IInv, TakesInput, user_queue # <<>>, user_queue' = Tail(user_queue),
         "view" \in DOMAIN Head(user_queue),
         Answers(Head(user_queue).view,
                 [k \in handle_snapshot |-> confirmed_state[k].status], ConfirmedIds),
         UNCHANGED <<serviceVars, calls>>
  PROVE  IInv'
<1>1. /\ Head(user_queue) \in Queued
      /\ user_queue' \in Seq(Queued) /\ Len(user_queue') <= UserCap
  <2>1. /\ user_queue \in Seq(Queued) /\ Len(user_queue) \in Nat
        /\ Len(user_queue') = Len(user_queue) - 1 /\ UserCap \in Nat
    BY GrpcAssumption DEF IInv, ClientTypeOK
  <2> QED BY <2>1, TailFacts DEF IInv, ClientTypeOK
<1>2. PICK v \in Viewers : v = Head(user_queue).view
  BY <1>1, MessageFacts
<1>3. PICK view \in View : view = views[v] /\ Seen(view)
  BY DEF IInv, ViewInv
<1>4. PICK shown : shown = [k \in handle_snapshot |-> confirmed_state[k].status]
  OBVIOUS
<1>5. shown \in UNION { [alarms -> Status] : alarms \in SUBSET Keys }
  <2>1. handle_snapshot \in SUBSET Keys
    BY DEF handle_snapshot
  <2>2. \A k \in handle_snapshot : confirmed_state[k].status \in Status
    BY DEF handle_snapshot, IInv, ServiceInv, CoordinatorTypeOK, Entry
  <2>3. shown \in [handle_snapshot -> Status]
    BY <1>4, <2>2
  <2> QED BY <2>1, <2>3
<1>6. PICK ids \in [Keys -> Nat] : ids = ConfirmedIds
  BY DEF ConfirmedIds, IInv, ServiceInv, CoordinatorTypeOK, Entry, DEFAULT_HYDRATED_ID
<1>7. PICK moved \in View :
        /\ moved = views'[v]
        /\ views' \in [Viewers -> View]
        /\ \A w \in Viewers : w # v => views'[w] = views[w]
        /\ moved.known = view.known /\ moved.shown = shown /\ moved.ids = ids
  <2>1. PICK entry : entry = [view EXCEPT !.stage = "done", !.shown = shown, !.ids = ids]
    OBVIOUS
  <2>2. views' = [views EXCEPT ![v] = entry]
    BY <1>2, <1>3, <1>4, <1>6, <2>1 DEF Answers
  <2>3. /\ entry \in View /\ entry.known = view.known
        /\ entry.shown = shown /\ entry.ids = ids
    BY <1>5, <2>1 DEF View
  <2> QED BY <2>2, <2>3 DEF IInv, ClientTypeOK
<1>8. Seen(moved)
  <2>1. ASSUME NEW p \in moved.known
        PROVE  p \in Acknowledged /\ Covers(p, moved)
    <3>1. p \in Acknowledged
      BY <1>3, <1>7, <2>1 DEF Seen
    <3> QED BY <1>4, <1>6, <1>7, <3>1, SnapshotShows DEF IInv, TakesInput
  <2> QED BY <2>1 DEF Seen
<1>9. QueueInv'
  <2>1. \A c \in Callers : \A i \in DOMAIN calls[c].tickets :
          /\ i \in DOMAIN calls'[c].tickets
          /\ calls'[c].tickets[i].state = calls[c].tickets[i].state
    OBVIOUS
  <2> QED BY <2>1, QueueTake DEF IInv
<1> QED BY <1>1, <1>7, <1>8, <1>9, ViewMoves

\* The message at the head of the queue about an update is for a queued ticket
\* of a well-formed request, whose call has not been told Ok.
LEMMA HeadCall ==
  ASSUME IInv, user_queue # <<>>, "call" \in DOMAIN Head(user_queue)
  PROVE  /\ Head(user_queue).call \in Callers
         /\ \E i \in Nat, call \in Call :
              /\ Head(user_queue) = [call |-> Head(user_queue).call, index |-> i]
              /\ call = calls[Head(user_queue).call] /\ Shape(call) /\ Backed(call)
              /\ i \in DOMAIN call.tickets /\ call.tickets[i].state = "queued"
              /\ call.request \in Request /\ ~Malformed(call.request)
              /\ i \in DOMAIN call.request.devices /\ call.response # "Ok"
<1>1. user_queue \in Seq(Queued)
  BY DEF IInv, ClientTypeOK
<1>2. /\ Head(user_queue) \in Queued /\ 1 \in DOMAIN user_queue
      /\ user_queue[1] = Head(user_queue)
  BY <1>1, TailFacts
<1>3. PICK c \in Callers, i \in Nat : /\ Head(user_queue) = [call |-> c, index |-> i]
                                      /\ Head(user_queue).call = c
                                      /\ Head(user_queue).index = i
  BY <1>2, MessageFacts
<1>4. PICK call \in Call : call = calls[c] /\ Shape(call) /\ Backed(call)
  BY DEF IInv, CallInv
<1>5. i \in DOMAIN call.tickets /\ call.tickets[i].state = "queued"
  BY <1>2, <1>3, <1>4 DEF IInv, QueueInv
<1>6. call.tickets \in Seq(Ticket)
  BY DEF Call
<1>7. /\ call.request \in Request /\ ~Malformed(call.request)
      /\ Len(call.tickets) <= Len(call.request.devices) /\ call.response # "Ok"
  BY <1>4, <1>5 DEF Shape
<1>8. i \in DOMAIN call.request.devices
  BY <1>5, <1>6, <1>7, RequestFacts
<1> QED BY <1>3, <1>4, <1>5, <1>7, <1>8

\* The ticket of an update is marked as recorded under an id, or as refused.
LEMMA TicketMoves ==
  ASSUME IInv, ServiceInv', Keeps, user_queue # <<>>, user_queue' = Tail(user_queue),
         UNCHANGED <<workflow_up, views>>,
         NEW c \in Callers, NEW i \in Nat, NEW call \in Call,
         Head(user_queue) = [call |-> c, index |-> i],
         call = calls[c], Shape(call), Backed(call),
         i \in DOMAIN call.tickets,
         call.request \in Request, ~Malformed(call.request), call.response # "Ok",
         NEW ticket \in Ticket, calls' = [calls EXCEPT ![c].tickets[i] = ticket],
         ticket.state = "recorded" =>
           \E n \in Nat, k \in Keys, s \in Status :
             /\ ticket.id = n /\ call.request.devices[i] = k
             /\ build_user_status(action(call.request)) = s
             /\ DEFAULT_HYDRATED_ID < n /\ n <= last_intent'[k] /\ Owned(n, k, s)'
  PROVE  IInv'
<1>1. /\ user_queue' \in Seq(Queued) /\ Len(user_queue') <= UserCap
  <2>1. /\ user_queue \in Seq(Queued) /\ Len(user_queue) \in Nat
        /\ Len(user_queue') = Len(user_queue) - 1 /\ UserCap \in Nat
    BY GrpcAssumption DEF IInv, ClientTypeOK
  <2> QED BY <2>1, TailFacts DEF IInv, ClientTypeOK
<1>2. PICK tickets : tickets = [call.tickets EXCEPT ![i] = ticket]
  OBVIOUS
<1>3. /\ tickets \in Seq(Ticket) /\ Len(tickets) = Len(call.tickets)
      /\ DOMAIN tickets = DOMAIN call.tickets /\ tickets[i] = ticket
      /\ \A j \in DOMAIN call.tickets : j # i => tickets[j] = call.tickets[j]
  <2>1. call.tickets \in Seq(Ticket)
    BY DEF Call
  <2> QED BY <1>2, <2>1
<1>4. /\ calls' \in [Callers -> Call]
      /\ \A d \in Callers : d # c => calls'[d] = calls[d]
      /\ calls'[c].tickets = tickets /\ calls'[c].request = call.request
      /\ calls'[c].response = call.response /\ calls'[c].stage = call.stage
  <2>1. PICK entry : entry = [call EXCEPT !.tickets = tickets]
    OBVIOUS
  <2>2. calls' = [calls EXCEPT ![c] = entry]
    BY <1>2, <2>1
  <2>3. /\ entry \in Call /\ entry.tickets = tickets /\ entry.request = call.request
        /\ entry.response = call.response /\ entry.stage = call.stage
    BY <1>3, <2>1 DEF Call
  <2> QED BY <2>2, <2>3 DEF IInv, ClientTypeOK
<1>5. PICK moved \in Call : moved = calls'[c]
  BY <1>4
<1>6. Shape(moved)
  BY <1>3, <1>4, <1>5 DEF Shape
<1>7. Backed(moved)'
  <2>1. Backed(call)'
    BY BackedKept DEF IInv
  <2>2. ASSUME NEW j \in DOMAIN moved.tickets, moved.tickets[j].state = "recorded"
        PROVE  Recorded(moved, j)'
    <3>1. CASE j = i
      BY <1>3, <1>4, <1>5, <2>2, <3>1 DEF Recorded
    <3>2. CASE j # i
      <4>1. j \in DOMAIN call.tickets /\ moved.tickets[j] = call.tickets[j]
        BY <1>3, <1>4, <1>5, <2>2, <3>2
      <4>2. Recorded(call, j)'
        BY <2>1, <2>2, <4>1 DEF Backed
      <4> QED BY <1>4, <1>5, <4>1, <4>2 DEF Recorded
    <3> QED BY <3>1, <3>2
  <2> QED BY <1>4, <1>5, <2>2 DEF Backed
<1>8. QueueInv'
  <2>1. ASSUME NEW d \in Callers, NEW j \in DOMAIN calls[d].tickets
        PROVE  \/ Head(user_queue) = [call |-> d, index |-> j]
               \/ /\ j \in DOMAIN calls'[d].tickets
                  /\ calls'[d].tickets[j].state = calls[d].tickets[j].state
    BY <1>3, <1>4
  <2> QED BY <2>1, QueueTake DEF IInv
<1>9. moved.request \in Requests[c] \cup {None}
  BY <1>4, <1>5 DEF IInv, ClientTypeOK
<1> QED BY <1>1, <1>4, <1>5, <1>6, <1>7, <1>8, <1>9, CallMoves

\* The coordinator takes the message at the head of its user queue.
LEMMA TakeStep ==
  ASSUME IInv, TakeUser
  PROVE  IInv'
<1>1. TakesInput /\ user_queue # <<>> /\ user_queue' = Tail(user_queue)
  BY DEF TakeUser
<1>2. CASE "call" \in DOMAIN Head(user_queue) /\ UNCHANGED views
  <2>1. PICK c \in Callers, i \in Nat, call \in Call :
          /\ Head(user_queue) = [call |-> c, index |-> i]
          /\ call = calls[c] /\ Shape(call) /\ Backed(call)
          /\ i \in DOMAIN call.tickets /\ call.tickets[i].state = "queued"
          /\ call.request \in Request /\ ~Malformed(call.request)
          /\ i \in DOMAIN call.request.devices /\ call.response # "Ok"
    BY <1>1, <1>2, HeadCall
  <2>2. Head(user_queue).call = c /\ Head(user_queue).index = i
    BY <2>1
  <2>3. PICK k \in Keys : k = call.request.devices[i]
    BY <2>1, RequestFacts
  <2>4. PICK a \in UserAction : a = action(call.request)
    BY <2>1, RequestFacts
  <2>5. CASE /\ handle_user_update(k, a)
             /\ calls' = [calls EXCEPT ![c].tickets[i] =
                            [state |-> "recorded", id |-> id_counter]]
             /\ UNCHANGED handlerVars
    <3>1. /\ ServiceInv' /\ Keeps
          /\ id_counter \in Nat /\ id_counter > DEFAULT_HYDRATED_ID
          /\ last_intent'[k] = id_counter
          /\ \A n \in Nat : n = id_counter => Owned(n, k, build_user_status(a))'
      BY <2>5, ServiceIntent DEF IInv
    <3>2. PICK n \in Nat : n = id_counter
      BY <3>1
    <3>3. PICK s \in Status : s = build_user_status(a)
      BY StatusTypes
    <3>4. Owned(n, k, s)'
      <4>1. Owned(n, k, build_user_status(a))'
        BY <3>1, <3>2
      <4>2. build_user_status(a)' = s
        BY <3>3 DEF build_user_status, as_state, DefaultStatus, NoWake
      <4> QED BY <4>1, <4>2 DEF Owned
    <3>5. PICK ticket \in Ticket : ticket = [state |-> "recorded", id |-> n]
      BY DEF Ticket
    <3>6. ticket.id = n /\ build_user_status(action(call.request)) = s
      BY <2>4, <3>3, <3>5
    <3>7. DEFAULT_HYDRATED_ID < n /\ n <= last_intent'[k]
      BY <3>1, <3>2 DEF DEFAULT_HYDRATED_ID
    <3>8. UNCHANGED <<workflow_up, views>>
      BY <1>2, <2>5 DEF handlerVars
    <3>9. calls' = [calls EXCEPT ![c].tickets[i] = ticket]
      BY <2>5, <3>2, <3>5
    <3>10. \E m \in Nat, x \in Keys, t \in Status :
             /\ ticket.id = m /\ call.request.devices[i] = x
             /\ build_user_status(action(call.request)) = t
             /\ DEFAULT_HYDRATED_ID < m /\ m <= last_intent'[x] /\ Owned(m, x, t)'
      BY <2>3, <3>4, <3>6, <3>7
    <3> QED BY <1>1, <2>1, <3>1, <3>8, <3>9, <3>10, TicketMoves
  <2>6. CASE /\ calls' = [calls EXCEPT ![c].tickets[i].state = "refused"]
             /\ UNCHANGED serviceVars
    <3>1. ServiceInv' /\ Keeps /\ UNCHANGED <<workflow_up, views>>
      BY <1>2, <2>6, ServiceFrame DEF IInv, serviceVars, handlerVars
    <3>2. call.tickets[i] \in Ticket
      BY <2>1 DEF Call
    <3>3. PICK ticket \in Ticket : ticket = [call.tickets[i] EXCEPT !.state = "refused"]
      BY <3>2 DEF Ticket
    <3>4. ticket.state # "recorded"
      BY <3>2, <3>3 DEF Ticket
    <3>5. calls' = [calls EXCEPT ![c].tickets[i] = ticket]
      BY <2>1, <2>6, <3>3
    <3> QED BY <1>1, <2>1, <3>1, <3>4, <3>5, TicketMoves
  <2>7. \/ /\ handle_user_update(k, a)
           /\ calls' = [calls EXCEPT ![c].tickets[i] =
                          [state |-> "recorded", id |-> id_counter]]
           /\ UNCHANGED handlerVars
        \/ /\ calls' = [calls EXCEPT ![c].tickets[i].state = "refused"]
           /\ UNCHANGED serviceVars
    <3>1. "view" \notin DOMAIN Head(user_queue)
      BY <2>1
    <3> QED BY <2>1, <2>2, <2>3, <2>4, <3>1 DEF TakeUser
  <2> QED BY <2>5, <2>6, <2>7
<1>3. CASE "view" \in DOMAIN Head(user_queue)
  <2>1. "call" \notin DOMAIN Head(user_queue)
    <3>1. Head(user_queue) \in Queued
      BY <1>1, TailFacts DEF IInv, ClientTypeOK
    <3> QED BY <1>3, <3>1 DEF Queued
  <2> QED BY <1>1, <1>3, <2>1, TakeView DEF TakeUser, Answers
<1> QED BY <1>2, <1>3 DEF TakeUser

\* The service turns without its callers.
LEMMA ServiceStep ==
  ASSUME IInv,
         \/ Reconcile \/ Send \/ WorkflowStops
         \/ \E k \in Keys : ReportCommitted(k) \/ ReportFailed(k)
  PROVE  IInv'
<1>1. CASE Reconcile
  <2>1. /\ reconcile_success \/ reconcile_failure
        /\ UNCHANGED handlerVars /\ UNCHANGED <<workflow_up, user_queue, calls, views>>
    BY <1>1 DEF Reconcile, handlerVars, grpcVars
  <2>2. ServiceInv' /\ Keeps
    BY <2>1, ServiceTurn DEF IInv
  <2>3. workflow_up' \in BOOLEAN
    BY <2>1 DEF IInv, ClientTypeOK
  <2> QED BY <2>1, <2>2, <2>3, ServiceMoves
<1>2. CASE Send
  <2>1. /\ SendJob \/ SendFails
        /\ UNCHANGED handlerVars /\ UNCHANGED <<workflow_up, calls, views>>
        /\ user_queue' \in {user_queue, <<>>}
    BY <1>2 DEF Send, handlerVars
  <2>2. ServiceInv' /\ Keeps
    BY <2>1, ServiceTurn DEF IInv
  <2>3. workflow_up' \in BOOLEAN
    BY <2>1 DEF IInv, ClientTypeOK
  <2> QED BY <2>1, <2>2, <2>3, ServiceMoves
<1>3. CASE WorkflowStops \/ \E k \in Keys : ReportCommitted(k) \/ ReportFailed(k)
  <2>1. ServiceInv' /\ Keeps
    BY <1>3, ServiceHandler DEF IInv
  <2>2. UNCHANGED <<user_queue, calls, views>> /\ workflow_up' \in BOOLEAN
    BY <1>3 DEF WorkflowStops, ReportCommitted, ReportFailed, Report, grpcVars, handlerVars,
                IInv, ClientTypeOK
  <2> QED BY <2>1, <2>2, ServiceMoves
<1> QED BY <1>1, <1>2, <1>3

\* The process starts with nothing on its way and nobody calling.
LEMMA InitInv ==
  ASSUME Init
  PROVE  IInv
<1>1. ChannelsTypeOK
  BY DEF Init, ChannelsInit, ChannelsTypeOK
<1>2. /\ confirmed_state = [k \in Keys |->
           IF Hydrated[k] = None THEN None
           ELSE [status |-> Hydrated[k], id |-> DEFAULT_HYDRATED_ID]]
      /\ speculative_state = [k \in Keys |-> None]
      /\ pending_confirmations = {} /\ id_counter = INITIAL_PUBLISH_ID
      /\ sending = None /\ committing = None /\ running = TRUE
      /\ replies = {} /\ dropped = {}
      /\ last_intent = [k \in Keys |-> DEFAULT_HYDRATED_ID]
  BY DEF Init, new
<1>3. confirmed_state \in [Keys -> Entry \cup {None}]
  BY <1>2, GrpcAssumption DEF Entry, DEFAULT_HYDRATED_ID
<1>4. CoordinatorTypeOK
  BY <1>2, <1>3 DEF CoordinatorTypeOK, DEFAULT_HYDRATED_ID, INITIAL_PUBLISH_ID
<1>5. DOMAIN job_queue = {} /\ DOMAIN job_outcomes = {}
  BY DEF Init, ChannelsInit
<1>6. JobInv
  BY <1>2, <1>5 DEF JobInv, OutcomeKeys, KeyInv, InFlight, InSending, InQueue, InOutcomes,
                    OnceInQueue, OnceInOutcomes
<1>7. OrderInv
  <2>1. \A k \in Keys : confirmed_state[k] # None => confirmed_state[k].id = DEFAULT_HYDRATED_ID
    BY <1>2
  <2>2. \A k \in Keys : IdInv(k)
    BY <1>2, <2>1 DEF IdInv, DEFAULT_HYDRATED_ID, INITIAL_PUBLISH_ID
  <2>3. \A j \in Job : ~Carries(j)
    BY <1>2, <1>5, IdTypes, <1>4 DEF Carries, Holds
  <2> QED BY <1>2, <2>2, <2>3 DEF OrderInv, WaitingInv, OkInv, INITIAL_PUBLISH_ID
<1>8. PICK call : call = [stage |-> "idle", request |-> None, tickets |-> <<>>,
                          response |-> None]
  OBVIOUS
<1>9. /\ call \in Call /\ call.stage = "idle" /\ call.tickets = <<>>
      /\ call.response = None /\ call.request = None
  BY <1>8 DEF Call
<1>10. calls = [c \in Callers |-> call]
  BY <1>8 DEF Init
<1>11. CallInv
  <2>1. None # "Ok"
    BY NoneIsNoResponse DEF Response
  <2>2. Shape(call)
    BY <1>9, <2>1 DEF Shape
  <2>3. Backed(call)
    <3>1. DOMAIN call.tickets = {}
      BY <1>9
    <3> QED BY <1>9, <2>1, <3>1 DEF Backed
  <2> QED BY <1>9, <1>10, <2>2, <2>3 DEF CallInv
<1>12. QueueInv
  <2>1. DOMAIN user_queue = {}
    BY DEF Init
  <2> QED BY <2>1 DEF QueueInv
<1>13. PICK view : view = [stage |-> "idle", known |-> {}, shown |-> <<>>,
                           ids |-> [k \in Keys |-> DEFAULT_HYDRATED_ID]]
  OBVIOUS
<1>14. view \in View
  <2>1. <<>> \in [{} -> Status]
    OBVIOUS
  <2>2. <<>> \in UNION { [alarms -> Status] : alarms \in SUBSET Keys }
    BY <2>1
  <2> QED BY <1>13, <2>2 DEF View, DEFAULT_HYDRATED_ID
<1>15. views = [v \in Viewers |-> view]
  BY <1>13 DEF Init
<1>16. ViewInv
  <2>1. view.known = {}
    BY <1>13
  <2> QED BY <1>14, <1>15, <2>1 DEF ViewInv, Seen
<1>17. ClientTypeOK
  <2>1. user_queue \in Seq(Queued) /\ Len(user_queue) <= UserCap /\ workflow_up \in BOOLEAN
    BY GrpcAssumption DEF Init
  <2> QED BY <1>9, <1>10, <1>14, <1>15, <2>1 DEF ClientTypeOK
<1> QED BY <1>1, <1>4, <1>6, <1>7, <1>11, <1>12, <1>16, <1>17 DEF IInv, ServiceInv

\* Every step keeps the invariant.
LEMMA StepInv ==
  ASSUME IInv, [Next]_vars
  PROVE  IInv'
<1>1. ASSUME NEW c \in Callers, NEW request \in Requests[c], Begin(c, request) PROVE IInv'
  BY <1>1, BeginStep
<1>2. ASSUME NEW c \in Callers, CallStep(c) PROVE IInv'
  BY <1>2, SubmitStep, ConfirmationStep DEF CallStep
<1>3. ASSUME NEW v \in Viewers, get_snapshot(v) \/ SnapshotDropped(v) PROVE IInv'
  BY <1>3, SnapshotStep
<1>4. CASE TakeUser
  BY <1>4, TakeStep
<1>5. CASE \/ Reconcile \/ Send \/ WorkflowStops
           \/ \E k \in Keys : ReportCommitted(k) \/ ReportFailed(k)
  BY <1>5, ServiceStep
<1>6. CASE UNCHANGED vars
  <2>1. UNCHANGED serviceVars /\ UNCHANGED <<workflow_up, user_queue, calls, views>>
    BY <1>6 DEF vars, serviceVars, handlerVars, grpcVars
  <2>2. ServiceInv' /\ Keeps
    BY <2>1, ServiceFrame DEF IInv
  <2>3. workflow_up' \in BOOLEAN
    BY <2>1 DEF IInv, ClientTypeOK
  <2> QED BY <2>1, <2>2, <2>3, ServiceMoves
<1> QED BY <1>1, <1>2, <1>3, <1>4, <1>5, <1>6 DEF Next

\* The inductive invariant holds in every behaviour of the adapter and the
\* coordinator.
LEMMA GrpcInv == Spec => []IInv
<1>1. Init => IInv
  BY InitInv
<1>2. IInv /\ [Next]_vars => IInv'
  BY StepInv
<1> QED BY <1>1, <1>2, PTL DEF Spec

-----------------------------------------------------------------------------
(* Theorems *)

\* Every call, view and queued message has its type, and try_send never puts
\* more into the user queue than its capacity.
THEOREM GrpcType == Spec => []TypeOK
<1>1. IInv => TypeOK
  BY DEF IInv, ServiceInv, ClientTypeOK, TypeOK
<1> QED BY <1>1, GrpcInv, PTL

\* When build_grpc_result makes an Ok of the confirmations, every device of the
\* request is confirmed with the id its update was given, or a newer one,
\* whenever the coordinator is back at its select.
THEOREM GrpcOkMeansEveryDevice == Spec => []OkMeansEveryDevice
<1>1. ASSUME IInv, Listening, NEW p \in Acknowledged
      PROVE  /\ confirmed_state[p.key] # None
             /\ confirmed_state[p.key].id >= p.id
             /\ p.id > DEFAULT_HYDRATED_ID
  <2>1. PICK n \in Nat, k \in Keys, s \in Status :
          /\ p = [key |-> k, id |-> n, status |-> s]
          /\ DEFAULT_HYDRATED_ID < n /\ Owned(n, k, s)
          /\ \E r \in replies : r.id = n /\ r.result = "Ok"
    BY <1>1, AcknowledgedFacts DEF IInv
  <2>2. p.key = k /\ p.id = n /\ n > DEFAULT_HYDRATED_ID
    BY <2>1 DEF DEFAULT_HYDRATED_ID
  <2>3. confirmed_state[k] # None /\ confirmed_state[k].id >= n
    BY <1>1, <2>1, ConfirmedFacts DEF IInv
  <2> QED BY <2>2, <2>3
<1>2. IInv => OkMeansEveryDevice
  BY <1>1 DEF OkMeansEveryDevice
<1> QED BY <1>2, GrpcInv, PTL

\* A snapshot that was asked for after an Ok shows what the caller did, or
\* something newer that is confirmed: handle_snapshot reads only what is
\* confirmed, and answers only when no confirmed entry waits for a send.
THEOREM GrpcSnapshotShowsOk == Spec => []SnapshotShowsOk
<1>1. ASSUME IInv, NEW v \in Viewers, views[v].stage = "done", NEW p \in views[v].known
      PROVE  Covers(p, views[v])
  <2>1. PICK view \in View : view = views[v] /\ Seen(view)
    BY <1>1 DEF IInv, ViewInv
  <2> QED BY <1>1, <2>1 DEF Seen
<1>2. IInv => SnapshotShowsOk
  BY <1>1 DEF SnapshotShowsOk, Covers, Shows
<1> QED BY <1>2, GrpcInv, PTL
=============================================================================
