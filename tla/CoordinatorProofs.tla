------------------------- MODULE CoordinatorProofs -------------------------
(***************************************************************************)
(* Lemmas about the coordinator and its channels, whatever handler is at   *)
(* the other end: what appending, taking and sending do to the jobs on     *)
(* their way, and that every turn of the event loop keeps its types.       *)
(***************************************************************************)
EXTENDS Coordinator, SequenceTheorems, TLAPS

-----------------------------------------------------------------------------
(* Sequences *)

\* Taking the first message off a channel shifts the others.
LEMMA TailFacts ==
  ASSUME NEW S, NEW s \in Seq(S), s # <<>>
  PROVE  /\ Head(s) \in S
         /\ Tail(s) \in Seq(S)
         /\ Len(s) \in Nat /\ Len(s) >= 1
         /\ DOMAIN s = 1 .. Len(s)
         /\ 1 \in DOMAIN s /\ s[1] = Head(s)
         /\ DOMAIN Tail(s) = 1 .. (Len(s) - 1)
         /\ \A i \in DOMAIN Tail(s) : i + 1 \in DOMAIN s /\ Tail(s)[i] = s[i + 1]
  OBVIOUS

\* Putting a message on a channel keeps the ones before it.
LEMMA AppendFacts ==
  ASSUME NEW S, NEW s \in Seq(S), NEW x \in S
  PROVE  /\ Append(s, x) \in Seq(S)
         /\ Len(s) \in Nat
         /\ DOMAIN s = 1 .. Len(s)
         /\ DOMAIN Append(s, x) = 1 .. (Len(s) + 1)
         /\ Append(s, x)[Len(s) + 1] = x
         /\ \A i \in DOMAIN s : Append(s, x)[i] = s[i]
  OBVIOUS

-----------------------------------------------------------------------------
(* Messages of a kind in a channel *)

\* Some message of s is in M.
Holds(s, M) == \E i \in DOMAIN s : s[i] \in M

\* At most one message of s is in M.
HoldsOne(s, M) == \A i, j \in DOMAIN s : s[i] \in M /\ s[j] \in M => i = j

\* What putting x on a channel does to the messages in M.
LEMMA HoldsAppend ==
  ASSUME NEW S, NEW s \in Seq(S), NEW x \in S, NEW M
  PROVE  /\ Holds(Append(s, x), M) <=> Holds(s, M) \/ x \in M
         /\ HoldsOne(s, M) /\ (x \in M => ~Holds(s, M)) => HoldsOne(Append(s, x), M)
<1> DEFINE n == Len(s)
           t == Append(s, x)
<1>1. /\ n \in Nat /\ DOMAIN s = 1 .. n /\ DOMAIN t = 1 .. (n + 1)
      /\ t[n + 1] = x
      /\ \A i \in DOMAIN s : t[i] = s[i]
  BY AppendFacts
<1> HIDE DEF n, t
<1>2. \A i \in 1 .. (n + 1) : i \in 1 .. n \/ i = n + 1
  BY <1>1
<1>3. \A i \in 1 .. n : i \in 1 .. (n + 1)
  BY <1>1
<1>4. n + 1 \in 1 .. (n + 1)
  BY <1>1
<1>5. Holds(t, M) <=> Holds(s, M) \/ x \in M
  BY <1>1, <1>2, <1>3, <1>4 DEF Holds
<1>6. HoldsOne(s, M) /\ (x \in M => ~Holds(s, M)) => HoldsOne(t, M)
  BY <1>1, <1>2, <1>3, <1>4 DEF HoldsOne, Holds
<1> QED BY <1>5, <1>6 DEF t

\* What taking the first message off a channel does to the messages in M.
LEMMA HoldsTail ==
  ASSUME NEW S, NEW s \in Seq(S), s # <<>>, NEW M
  PROVE  /\ Head(s) \in M => Holds(s, M)
         /\ Holds(Tail(s), M) => Holds(s, M)
         /\ Holds(s, M) => Holds(Tail(s), M) \/ Head(s) \in M
         /\ HoldsOne(s, M) => HoldsOne(Tail(s), M)
         /\ HoldsOne(s, M) /\ Head(s) \in M => ~Holds(Tail(s), M)
<1> DEFINE n == Len(s)
           t == Tail(s)
<1>1. /\ n \in Nat /\ n >= 1
      /\ DOMAIN s = 1 .. n /\ 1 \in DOMAIN s /\ s[1] = Head(s)
      /\ DOMAIN t = 1 .. (n - 1)
      /\ \A i \in DOMAIN t : i + 1 \in DOMAIN s /\ t[i] = s[i + 1]
  BY TailFacts
<1> HIDE DEF n, t
<1>2. \A i \in 1 .. n : i = 1 \/ (i - 1 \in 1 .. (n - 1) /\ (i - 1) + 1 = i)
  BY <1>1
<1>3. \A i \in 1 .. (n - 1) : i + 1 # 1
  BY <1>1
<1>4. \A i, j \in 1 .. (n - 1) : i + 1 = j + 1 => i = j
  BY <1>1
<1>5. /\ Head(s) \in M => Holds(s, M)
      /\ Holds(t, M) => Holds(s, M)
  BY <1>1 DEF Holds
<1>6. ASSUME NEW i \in DOMAIN s, i # 1, s[i] \in M PROVE Holds(t, M)
  <2>1. i - 1 \in DOMAIN t /\ (i - 1) + 1 = i
    BY <1>1, <1>2, <1>6
  <2>2. t[i - 1] = s[i]
    BY <1>1, <2>1
  <2> QED BY <1>6, <2>1, <2>2 DEF Holds
<1>7. Holds(s, M) => Holds(t, M) \/ Head(s) \in M
  BY <1>1, <1>6 DEF Holds
<1>8. ASSUME HoldsOne(s, M), NEW i \in DOMAIN t, NEW j \in DOMAIN t, t[i] \in M, t[j] \in M
      PROVE  i = j
  <2>1. i + 1 = j + 1
    BY <1>1, <1>8 DEF HoldsOne
  <2> QED BY <1>1, <1>4, <2>1
<1>9. HoldsOne(s, M) => HoldsOne(t, M)
  BY <1>8 DEF HoldsOne
<1>10. HoldsOne(s, M) /\ Head(s) \in M => ~Holds(t, M)
  BY <1>1, <1>3 DEF HoldsOne, Holds
<1> QED BY <1>5, <1>7, <1>9, <1>10 DEF t

-----------------------------------------------------------------------------
(* Types *)

\* Every status the service makes up or parses is a status.
LEMMA StatusTypes ==
  /\ DefaultStatus \in Status
  /\ WakeStatus \in Status
  /\ \A action \in UserAction : build_user_status(action) \in Status
  /\ \A field \in RedisSeverity : build_status_from_redis(field) \in Status
<1>1. NoWake \in Wakes \cup {NoWake}
  OBVIOUS
<1>2. DefaultStatus \in Status
  BY <1>1 DEF DefaultStatus, Status, State, Severity
<1>3. WakeStatus \in Status
  BY <1>2 DEF WakeStatus, Status, State
<1>4. ASSUME NEW action \in UserAction PROVE build_user_status(action) \in Status
  <2>1. action.wake \in Wakes \cup {NoWake}
    BY DEF UserAction
  <2>2. as_state(action) \in State
    BY DEF as_state, State
  <2> QED BY <1>2, <2>1, <2>2 DEF build_user_status, Status
<1>5. ASSUME NEW field \in RedisSeverity PROVE build_status_from_redis(field) \in Status
  BY <1>2 DEF build_status_from_redis, RedisSeverity, Status, State, Severity
<1> QED BY <1>2, <1>3, <1>4, <1>5

\* send_next_for hands out a job or nothing.
LEMMA SendNextType ==
  ASSUME NEW k \in Keys, NEW spec \in [Keys -> Entry \cup {None}], NEW pending
  PROVE  send_next_for(k, spec, pending) \in Job \cup {None}
BY DEF send_next_for, Job, Entry

\* RecordIntent keeps the coordinator's types.
LEMMA RecordIntentType ==
  ASSUME CoordinatorTypeOK, NEW k \in Keys, NEW status \in Status,
         NEW pending \in SUBSET Nat, RecordIntent(k, status, pending)
  PROVE  CoordinatorTypeOK'
<1> DEFINE spec == [speculative_state EXCEPT ![k] = [status |-> status, id |-> id_counter]]
<1>1. spec \in [Keys -> Entry \cup {None}]
  BY DEF CoordinatorTypeOK, Entry
<1>2. send_next_for(k, spec, pending) \in Job \cup {None}
  BY <1>1, SendNextType
<1> QED BY <1>1, <1>2 DEF CoordinatorTypeOK, RecordIntent

\* The end of the event loop keeps the coordinator's types.
LEMMA FailAllType ==
  ASSUME CoordinatorTypeOK, NEW pending \in SUBSET Nat, NEW told \in SUBSET Reply,
         fail_all_confirmations(pending, told)
  PROVE  CoordinatorTypeOK'
<1>1. \A k \in Keys : speculative_state[k] # None => speculative_state[k].id \in Nat
  BY DEF CoordinatorTypeOK, Entry
<1>2. replies' \subseteq Reply
  BY <1>1 DEF fail_all_confirmations, Reply
<1>3. dropped' \subseteq Nat
  BY DEF fail_all_confirmations, CoordinatorTypeOK
<1> QED BY <1>2, <1>3 DEF CoordinatorTypeOK, fail_all_confirmations

\* An answered confirmation is an answer of the right type.
LEMMA AnswerType ==
  ASSUME CoordinatorTypeOK, NEW job \in Job, NEW result \in {"Ok", "Internal"}
  PROVE  Answer(job, result) \in SUBSET Reply
BY DEF CoordinatorTypeOK, Answer, Reply, Job

\* A turn that takes an input, of a user or of the controls.
TakesUpdate ==
  \E k \in Keys : \/ \E action \in UserAction : handle_user_update(k, action)
                  \/ \E status \in Status : handle_automated_update(k, status)

\* A turn that takes what the handler sent back.
TakesOutcome == reconcile_success \/ reconcile_failure \/ dispatch_automated_wake

\* Every turn of the coordinator keeps its types and those of the job channels.
LEMMA CoordinatorTypes ==
  ASSUME ChannelsTypeOK, CoordinatorTypeOK,
         TakesUpdate \/ TakesOutcome \/ SendJob \/ SendFails
  PROVE  /\ CoordinatorTypeOK'
         /\ job_queue' \in Seq(Job)
         /\ job_outcomes' \in Seq(JobOutcome)
<1>1. CASE TakesUpdate
  <2>1. job_queue' \in Seq(Job) /\ job_outcomes' \in Seq(JobOutcome)
    BY <1>1 DEF TakesUpdate, handle_user_update, handle_automated_update, jobChannels,
                ChannelsTypeOK
  <2>2. ASSUME NEW k \in Keys, NEW action \in UserAction, handle_user_update(k, action)
        PROVE  CoordinatorTypeOK'
    <3>1. pending_confirmations \cup {id_counter} \in SUBSET Nat
      BY DEF CoordinatorTypeOK
    <3>2. build_user_status(action) \in Status
      BY StatusTypes
    <3> QED BY <2>2, <3>1, <3>2, RecordIntentType DEF handle_user_update
  <2>3. ASSUME NEW k \in Keys, NEW status \in Status, handle_automated_update(k, status)
        PROVE  CoordinatorTypeOK'
    <3>1. pending_confirmations \in SUBSET Nat
      BY DEF CoordinatorTypeOK
    <3> QED BY <2>3, <3>1, RecordIntentType DEF handle_automated_update
  <2> QED BY <1>1, <2>1, <2>2, <2>3 DEF TakesUpdate
<1>2. CASE TakesOutcome
  <2> job_outcomes # <<>>
    BY <1>2 DEF TakesOutcome, reconcile_success, reconcile_failure,
                dispatch_automated_wake
  <2> DEFINE head == Head(job_outcomes)
  <2>1. head \in JobOutcome /\ Tail(job_outcomes) \in Seq(JobOutcome)
    BY TailFacts DEF ChannelsTypeOK
  <2>2. job_queue' \in Seq(Job) /\ job_outcomes' \in Seq(JobOutcome)
    BY <1>2, <2>1 DEF TakesOutcome, reconcile_success, reconcile_failure,
                      dispatch_automated_wake, ChannelsTypeOK
  <2> SUFFICES CoordinatorTypeOK'
    BY <2>2
  <2>3. CASE reconcile_success
    <3>1. head.job \in Job
      BY <2>1, <2>3 DEF reconcile_success, JobOutcome
    <3>2. send_next_for(head.job.key, speculative_state, pending_confirmations \ {head.job.id})
            \in Job \cup {None}
      BY <3>1, SendNextType DEF CoordinatorTypeOK, Job
    <3>3. Answer(head.job, "Ok") \in SUBSET Reply
      BY <3>1, AnswerType
    <3>4. [status |-> head.job.status, id |-> head.job.id] \in Entry
      BY <3>1 DEF Job, Entry
    <3> QED BY <2>3, <3>1, <3>2, <3>3, <3>4 DEF reconcile_success, CoordinatorTypeOK
  <2>4. CASE reconcile_failure
    <3> DEFINE job == head.job
               k == job.key
               pending == pending_confirmations \ {job.id}
               spec == IF ~IsSuperseded(job) /\ job.user_initiated
                         THEN [speculative_state EXCEPT ![k] = converge_to_last_confirmed(k)]
                         ELSE speculative_state
    <3>1. job \in Job /\ k \in Keys
      BY <2>1, <2>4 DEF reconcile_failure, JobOutcome, Job
    <3>2. Answer(job, "Internal") \in SUBSET Reply
      BY <3>1, AnswerType
    <3>3. pending \in SUBSET Nat
      BY DEF CoordinatorTypeOK
    <3>4. converge_to_last_confirmed(k) \in Entry
      BY <3>1, StatusTypes DEF converge_to_last_confirmed, CoordinatorTypeOK, Entry,
                               DEFAULT_HYDRATED_ID
    <3>5. spec \in [Keys -> Entry \cup {None}]
      BY <3>1, <3>4 DEF CoordinatorTypeOK
    <3>6. send_next_for(k, spec, pending) \in Job \cup {None}
      BY <3>1, <3>5, SendNextType
    <3>7. CASE speculative_state[k] = None
      BY <2>4, <3>2, <3>3, <3>7, FailAllType DEF reconcile_failure
    <3>8. CASE speculative_state[k] # None
      BY <2>4, <3>2, <3>3, <3>5, <3>6, <3>8 DEF reconcile_failure, CoordinatorTypeOK
    <3> QED BY <3>7, <3>8
  <2>5. CASE dispatch_automated_wake
    <3>1. head.key \in Keys
      BY <2>1 DEF JobOutcome
    <3>2. pending_confirmations \in SUBSET Nat
      BY DEF CoordinatorTypeOK
    <3>3. CASE RecordIntent(head.key, WakeStatus, pending_confirmations)
      BY <3>1, <3>2, <3>3, StatusTypes, RecordIntentType
    <3>4. CASE UNCHANGED coordinatorVars
      BY <3>4 DEF coordinatorVars, CoordinatorTypeOK
    <3> QED BY <2>5, <3>3, <3>4 DEF dispatch_automated_wake
  <2> QED BY <1>2, <2>3, <2>4, <2>5 DEF TakesOutcome
<1>3. CASE SendJob
  <2>1. Commit \in [Keys -> Entry \cup {None}]
    BY DEF Commit, CoordinatorTypeOK, Entry, Job
  <2>2. sending \in Job
    BY <1>3 DEF SendJob, CoordinatorTypeOK
  <2>3. Append(job_queue, sending) \in Seq(Job)
    BY <2>2, AppendFacts DEF ChannelsTypeOK
  <2> QED BY <1>3, <2>1, <2>3 DEF SendJob, CoordinatorTypeOK, ChannelsTypeOK
<1>4. CASE SendFails
  <2>1. pending_confirmations \in SUBSET Nat /\ replies \in SUBSET Reply
    BY DEF CoordinatorTypeOK
  <2>2. CoordinatorTypeOK'
    BY <1>4, <2>1, FailAllType DEF SendFails
  <2> QED BY <1>4, <2>2 DEF SendFails, jobChannels, ChannelsTypeOK
<1> QED BY <1>1, <1>2, <1>3, <1>4

\* Failed(job) and Committed(job) are outcomes, and so is Wake(k).
LEMMA OutcomeTypes ==
  /\ \A job \in Job : Failed(job) \in JobOutcome /\ Committed(job) \in JobOutcome
  /\ \A k \in Keys : Wake(k) \in JobOutcome
BY DEF Failed, Committed, Wake, JobOutcome, Job

\* An entry with a status is no absent one, and keeps its status and id.
LEMMA EntryFacts ==
  ASSUME NEW s \in Status, NEW n \in Nat
  PROVE  /\ [status |-> s, id |-> n] \in Entry
         /\ [status |-> s, id |-> n] # None
<1>1. [status |-> s, id |-> n] \in Entry
  BY DEF Entry
<1> QED BY <1>1, NoneIsNoRecord

-----------------------------------------------------------------------------
(* Jobs on their way *)

\* The outcomes that give job j back.
Outcomes(j) == {Committed(j), Failed(j)}

\* The job that is sent for a key has the id of the key's intent, and is sent
\* for a user when that id is still to be answered.
LEMMA SendNextFacts ==
  ASSUME NEW k \in Keys, NEW spec \in [Keys -> Entry \cup {None}], NEW pending,
         spec[k] # None
  PROVE  /\ send_next_for(k, spec, pending) \in Job
         /\ send_next_for(k, spec, pending) # None
         /\ send_next_for(k, spec, pending).key = k
         /\ send_next_for(k, spec, pending).id = spec[k].id
         /\ send_next_for(k, spec, pending).status = spec[k].status
         /\ send_next_for(k, spec, pending).user_initiated <=> spec[k].id \in pending
<1>1. send_next_for(k, spec, pending) \in Job
  BY DEF send_next_for, Job, Entry
<1>2. send_next_for(k, spec, pending) # None
  BY <1>1, NoneIsNoRecord
<1> QED BY <1>1, <1>2 DEF send_next_for

\* Answering a confirmation adds at most its own answer.
LEMMA AnswerFacts ==
  ASSUME NEW job, NEW result
  PROVE  /\ replies \subseteq Answer(job, result)
         /\ \A r \in Answer(job, result) :
              \/ r \in replies
              \/ /\ r = [id |-> job.id, key |-> job.key, result |-> result]
                 /\ job.id \in pending_confirmations
         /\ job.id \in pending_confirmations =>
              [id |-> job.id, key |-> job.key, result |-> result] \in Answer(job, result)
BY DEF Answer

OutcomeKeys ==
  \A i \in DOMAIN job_outcomes :
    job_outcomes[i].kind # "Wake" => job_outcomes[i].job.key = job_outcomes[i].key

\* A job put on the queue is one more job of its key and of no other.
LEMMA QueueAppend ==
  ASSUME job_queue \in Seq(Job), NEW job \in Job, NEW k,
         job_queue' = Append(job_queue, job)
  PROVE  /\ InQueue(k)' <=> InQueue(k) \/ job.key = k
         /\ OnceInQueue(k) /\ (job.key = k => ~InQueue(k)) => OnceInQueue(k)'
<1> DEFINE n == Len(job_queue)
<1>1. /\ n \in Nat /\ DOMAIN job_queue = 1 .. n /\ DOMAIN job_queue' = 1 .. (n + 1)
      /\ job_queue'[n + 1] = job
      /\ \A i \in DOMAIN job_queue : job_queue'[i] = job_queue[i]
  BY AppendFacts
<1> HIDE DEF n
<1>2. \A i \in 1 .. (n + 1) : i \in 1 .. n \/ i = n + 1
  BY <1>1
<1>3. \A i \in 1 .. n : i \in 1 .. (n + 1)
  BY <1>1
<1>4. n + 1 \in 1 .. (n + 1)
  BY <1>1
<1>5. InQueue(k)' <=> InQueue(k) \/ job.key = k
  BY <1>1, <1>2, <1>3, <1>4 DEF InQueue
<1>6. OnceInQueue(k) /\ (job.key = k => ~InQueue(k)) => OnceInQueue(k)'
  BY <1>1, <1>2, <1>3, <1>4 DEF OnceInQueue, InQueue
<1> QED BY <1>5, <1>6

\* The job taken off the queue was the only one of its key.
LEMMA QueueTail ==
  ASSUME job_queue \in Seq(Job), job_queue # <<>>, NEW k,
         job_queue' = Tail(job_queue)
  PROVE  /\ Head(job_queue).key = k => InQueue(k)
         /\ InQueue(k)' => InQueue(k)
         /\ InQueue(k) => InQueue(k)' \/ Head(job_queue).key = k
         /\ OnceInQueue(k) => OnceInQueue(k)'
         /\ OnceInQueue(k) /\ Head(job_queue).key = k => ~InQueue(k)'
<1> DEFINE n == Len(job_queue)
<1>1. /\ n \in Nat /\ n >= 1
      /\ DOMAIN job_queue = 1 .. n /\ 1 \in DOMAIN job_queue
      /\ job_queue[1] = Head(job_queue)
      /\ DOMAIN job_queue' = 1 .. (n - 1)
      /\ \A i \in DOMAIN job_queue' : i + 1 \in DOMAIN job_queue
                                       /\ job_queue'[i] = job_queue[i + 1]
  BY TailFacts
<1> HIDE DEF n
<1>2. \A i \in 1 .. n : i = 1 \/ (i - 1 \in 1 .. (n - 1) /\ (i - 1) + 1 = i)
  BY <1>1
<1>3. \A i \in 1 .. (n - 1) : i + 1 # 1
  BY <1>1
<1>4. \A i, j \in 1 .. (n - 1) : i + 1 = j + 1 => i = j
  BY <1>1
<1>5. Head(job_queue).key = k => InQueue(k)
  BY <1>1 DEF InQueue
<1>6. InQueue(k)' => InQueue(k)
  BY <1>1 DEF InQueue
<1>7. InQueue(k) => InQueue(k)' \/ Head(job_queue).key = k
  <2>1. ASSUME NEW i \in 1 .. n, i # 1, job_queue[i].key = k
        PROVE  InQueue(k)'
    <3>1. i - 1 \in 1 .. (n - 1) /\ (i - 1) + 1 = i
      BY <1>2, <2>1
    <3>2. job_queue'[i - 1] = job_queue[i]
      BY <1>1, <3>1
    <3> QED BY <1>1, <2>1, <3>1, <3>2 DEF InQueue
  <2> QED BY <1>1, <2>1 DEF InQueue
<1>8. OnceInQueue(k) => OnceInQueue(k)'
  <2>1. ASSUME OnceInQueue(k), NEW i \in 1 .. (n - 1), NEW j \in 1 .. (n - 1),
               job_queue'[i].key = k, job_queue'[j].key = k
        PROVE  i = j
    <3>1. /\ i + 1 \in DOMAIN job_queue /\ job_queue[i + 1].key = k
          /\ j + 1 \in DOMAIN job_queue /\ job_queue[j + 1].key = k
      BY <1>1, <2>1
    <3>2. i + 1 = j + 1
      BY <2>1, <3>1 DEF OnceInQueue
    <3> QED BY <1>4, <3>2
  <2> QED BY <1>1, <2>1 DEF OnceInQueue
<1>9. OnceInQueue(k) /\ Head(job_queue).key = k => ~InQueue(k)'
  BY <1>1, <1>3 DEF OnceInQueue, InQueue
<1> QED BY <1>5, <1>6, <1>7, <1>8, <1>9

\* A Committed or Failed outcome put on the channel is one more job of its key;
\* a Wake is none.
LEMMA OutcomesAppend ==
  ASSUME job_outcomes \in Seq(JobOutcome), NEW o \in JobOutcome, NEW k,
         job_outcomes' = Append(job_outcomes, o)
  PROVE  /\ InOutcomes(k)' <=> InOutcomes(k) \/ (o.kind # "Wake" /\ o.key = k)
         /\ OnceInOutcomes(k) /\ (o.kind # "Wake" /\ o.key = k => ~InOutcomes(k))
              => OnceInOutcomes(k)'
<1> DEFINE n == Len(job_outcomes)
<1>1. /\ n \in Nat /\ DOMAIN job_outcomes = 1 .. n /\ DOMAIN job_outcomes' = 1 .. (n + 1)
      /\ job_outcomes'[n + 1] = o
      /\ \A i \in DOMAIN job_outcomes : job_outcomes'[i] = job_outcomes[i]
  BY AppendFacts
<1> HIDE DEF n
<1>2. \A i \in 1 .. (n + 1) : i \in 1 .. n \/ i = n + 1
  BY <1>1
<1>3. \A i \in 1 .. n : i \in 1 .. (n + 1)
  BY <1>1
<1>4. n + 1 \in 1 .. (n + 1)
  BY <1>1
<1>5. InOutcomes(k)' <=> InOutcomes(k) \/ (o.kind # "Wake" /\ o.key = k)
  BY <1>1, <1>2, <1>3, <1>4 DEF InOutcomes
<1>6. OnceInOutcomes(k) /\ (o.kind # "Wake" /\ o.key = k => ~InOutcomes(k))
        => OnceInOutcomes(k)'
  BY <1>1, <1>2, <1>3, <1>4 DEF OnceInOutcomes, InOutcomes
<1> QED BY <1>5, <1>6

\* The outcome taken off the channel held the only job of its key, or none.
LEMMA OutcomesTail ==
  ASSUME job_outcomes \in Seq(JobOutcome), job_outcomes # <<>>, NEW k,
         job_outcomes' = Tail(job_outcomes)
  PROVE  /\ Head(job_outcomes).kind # "Wake" /\ Head(job_outcomes).key = k => InOutcomes(k)
         /\ InOutcomes(k)' => InOutcomes(k)
         /\ InOutcomes(k) => \/ InOutcomes(k)'
                             \/ Head(job_outcomes).kind # "Wake" /\ Head(job_outcomes).key = k
         /\ OnceInOutcomes(k) => OnceInOutcomes(k)'
         /\ OnceInOutcomes(k) /\ Head(job_outcomes).kind # "Wake"
              /\ Head(job_outcomes).key = k => ~InOutcomes(k)'
<1> DEFINE n == Len(job_outcomes)
<1>1. /\ n \in Nat /\ n >= 1
      /\ DOMAIN job_outcomes = 1 .. n /\ 1 \in DOMAIN job_outcomes
      /\ job_outcomes[1] = Head(job_outcomes)
      /\ DOMAIN job_outcomes' = 1 .. (n - 1)
      /\ \A i \in DOMAIN job_outcomes' : i + 1 \in DOMAIN job_outcomes
                                          /\ job_outcomes'[i] = job_outcomes[i + 1]
  BY TailFacts
<1> HIDE DEF n
<1>2. \A i \in 1 .. n : i = 1 \/ (i - 1 \in 1 .. (n - 1) /\ (i - 1) + 1 = i)
  BY <1>1
<1>3. \A i \in 1 .. (n - 1) : i + 1 # 1
  BY <1>1
<1>4. \A i, j \in 1 .. (n - 1) : i + 1 = j + 1 => i = j
  BY <1>1
<1>5. Head(job_outcomes).kind # "Wake" /\ Head(job_outcomes).key = k => InOutcomes(k)
  BY <1>1 DEF InOutcomes
<1>6. InOutcomes(k)' => InOutcomes(k)
  BY <1>1 DEF InOutcomes
<1>7. InOutcomes(k) => \/ InOutcomes(k)'
                       \/ Head(job_outcomes).kind # "Wake" /\ Head(job_outcomes).key = k
  <2>1. ASSUME NEW i \in 1 .. n, i # 1,
               job_outcomes[i].kind # "Wake", job_outcomes[i].key = k
        PROVE  InOutcomes(k)'
    <3>1. i - 1 \in 1 .. (n - 1) /\ (i - 1) + 1 = i
      BY <1>2, <2>1
    <3>2. job_outcomes'[i - 1] = job_outcomes[i]
      BY <1>1, <3>1
    <3> QED BY <1>1, <2>1, <3>1, <3>2 DEF InOutcomes
  <2> QED BY <1>1, <2>1 DEF InOutcomes
<1>8. OnceInOutcomes(k) => OnceInOutcomes(k)'
  <2>1. ASSUME OnceInOutcomes(k), NEW i \in 1 .. (n - 1), NEW j \in 1 .. (n - 1),
               job_outcomes'[i].kind # "Wake", job_outcomes'[i].key = k,
               job_outcomes'[j].kind # "Wake", job_outcomes'[j].key = k
        PROVE  i = j
    <3>1. /\ i + 1 \in DOMAIN job_outcomes
          /\ job_outcomes[i + 1].kind # "Wake" /\ job_outcomes[i + 1].key = k
          /\ j + 1 \in DOMAIN job_outcomes
          /\ job_outcomes[j + 1].kind # "Wake" /\ job_outcomes[j + 1].key = k
      BY <1>1, <2>1
    <3>2. i + 1 = j + 1
      BY <2>1, <3>1 DEF OnceInOutcomes
    <3> QED BY <1>4, <3>2
  <2> QED BY <1>1, <2>1 DEF OnceInOutcomes
<1>9. OnceInOutcomes(k) /\ Head(job_outcomes).kind # "Wake"
        /\ Head(job_outcomes).key = k => ~InOutcomes(k)'
  BY <1>1, <1>3 DEF OnceInOutcomes, InOutcomes
<1> QED BY <1>5, <1>6, <1>7, <1>8, <1>9

\* Outcomes stay filed under the key of their job when one is put on the channel.
LEMMA OutcomeKeysAppend ==
  ASSUME job_outcomes \in Seq(JobOutcome), NEW o \in JobOutcome,
         o.kind # "Wake" => o.job.key = o.key,
         job_outcomes' = Append(job_outcomes, o), OutcomeKeys
  PROVE  OutcomeKeys'
<1> DEFINE n == Len(job_outcomes)
<1>1. /\ n \in Nat /\ DOMAIN job_outcomes = 1 .. n /\ DOMAIN job_outcomes' = 1 .. (n + 1)
      /\ job_outcomes'[n + 1] = o
      /\ \A i \in DOMAIN job_outcomes : job_outcomes'[i] = job_outcomes[i]
  BY AppendFacts
<1> HIDE DEF n
<1>2. \A i \in 1 .. (n + 1) : i \in 1 .. n \/ i = n + 1
  BY <1>1
<1> QED BY <1>1, <1>2 DEF OutcomeKeys

\* Outcomes stay filed under the key of their job when one is taken off, and so
\* is the one taken.
LEMMA OutcomeKeysTail ==
  ASSUME job_outcomes \in Seq(JobOutcome), job_outcomes # <<>>,
         job_outcomes' = Tail(job_outcomes), OutcomeKeys
  PROVE  /\ OutcomeKeys'
         /\ Head(job_outcomes).kind # "Wake" =>
              Head(job_outcomes).job.key = Head(job_outcomes).key
<1>1. /\ 1 \in DOMAIN job_outcomes
      /\ job_outcomes[1] = Head(job_outcomes)
      /\ \A i \in DOMAIN job_outcomes' : i + 1 \in DOMAIN job_outcomes
                                          /\ job_outcomes'[i] = job_outcomes[i + 1]
  BY TailFacts
<1> QED BY <1>1 DEF OutcomeKeys
=============================================================================
