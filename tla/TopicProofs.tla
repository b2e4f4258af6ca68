---------------------------- MODULE TopicProofs ----------------------------
(***************************************************************************)
(* Proofs about what those outside see, the topic, the confirmed state and *)
(* the confirmations: topic and confirmed state agree whenever a key is at *)
(* rest, bypasses survive a restart, the service implements AlarmRegister; *)
(* jobs of a key come back in the order of its inputs, a user who was told *)
(* Ok finds the action in the confirmed state, no accepted input is lost   *)
(* without a word, and every confirmation is answered at most once, by the *)
(* outcome of its own job.                                                 *)
(***************************************************************************)
EXTENDS AlarmServiceRefinement, AlarmServiceProofs

-----------------------------------------------------------------------------
(* The inductive invariant about the topic *)

\* A commit that waits for a send is of the key whose next job is sent, and is
\* what the topic says.
CommitInv ==
  committing # None =>
    /\ sending # None /\ sending.key = committing.key
    /\ kafka[committing.key] = committing.status

\* The topic agrees with the confirmed state of k: for a key that had an input,
\* and for an EPICS key that was restored from the topic.
Settled(k) ==
  /\ last_intent[k] # DEFAULT_HYDRATED_ID => confirmed_state[k] # None
  /\ /\ confirmed_state[k] # None
     /\ last_intent[k] # DEFAULT_HYDRATED_ID \/ k \in EpicsKeys
     => kafka[k] = confirmed_state[k].status

TopicInv ==
  /\ CommitInv
  /\ running => \A k \in Keys : speculative_state[k] = None => Settled(k)

-----------------------------------------------------------------------------
(* What the steps do, in the terms of this invariant *)

\* A start finds the EPICS bypasses of the topic again, and nothing else of EPICS.
LEMMA HydratedFacts ==
  ASSUME PublishTypeOK, NEW hydrated \in load_startup_hydration(kafka)
  PROVE  /\ \A k \in Keys : hydrated[k] \in Status \cup {None}
         /\ \A k \in EpicsKeys :
              hydrated[k] = IF is_bypassed(kafka[k]) THEN kafka[k] ELSE None
<1>1. PICK acnet \in [Keys \ EpicsKeys -> AcnetStatuses \cup {None}] :
        hydrated = [k \in Keys |-> IF k \in EpicsKeys THEN reduce_snapshot(kafka)[k]
                                   ELSE acnet[k]]
  BY DEF load_startup_hydration, load_acnet_hydration
<1>2. \A k \in EpicsKeys :
        hydrated[k] = IF is_bypassed(kafka[k]) THEN kafka[k] ELSE None
  BY <1>1, KeysAssumption DEF reduce_snapshot
<1>3. \A k \in Keys : hydrated[k] \in Status \cup {None}
  BY <1>1, KeysAssumption, InputsAssumption DEF reduce_snapshot, PublishTypeOK
<1> QED BY <1>2, <1>3

\* The outcome at the head of the channel holds the job of its key, whose intent
\* the coordinator still has; a committed one is what the topic says.
LEMMA HeadFacts ==
  ASSUME TypeOK, JobInv, EffectInv, job_outcomes # <<>>
  PROVE  /\ Head(job_outcomes).key \in Keys
         /\ Head(job_outcomes).kind \in {"Committed", "Failed"} =>
              /\ Head(job_outcomes).job \in Job
              /\ Head(job_outcomes).job.key = Head(job_outcomes).key
              /\ speculative_state[Head(job_outcomes).key] # None
         /\ Head(job_outcomes).kind = "Committed" =>
              kafka[Head(job_outcomes).key] = Head(job_outcomes).job.status
<1> DEFINE head == Head(job_outcomes)
<1>1. job_outcomes \in Seq(JobOutcome)
  BY DEF TypeOK, ChannelsTypeOK
<1>2. head \in JobOutcome /\ 1 \in DOMAIN job_outcomes /\ job_outcomes[1] = head
  BY <1>1, TailFacts
<1> HIDE DEF head
<1>3. head.key \in Keys /\ (head.kind \in {"Committed", "Failed"} => head.job \in Job)
  BY <1>2 DEF JobOutcome
<1>4. head.kind \in {"Committed", "Failed"} => head.job.key = head.key /\ InOutcomes(head.key)
  BY <1>2 DEF JobInv, OutcomeKeys, InOutcomes
<1>5. head.kind \in {"Committed", "Failed"} => speculative_state[head.key] # None
  BY <1>3, <1>4 DEF JobInv, KeyInv, InFlight
<1>6. head.kind = "Committed" => kafka[head.key] = head.job.status
  BY <1>2 DEF EffectInv, Acknowledged
<1> QED BY <1>3, <1>4, <1>5, <1>6 DEF head

\* Accepting an input, or the end of a snooze, records intent for a key.
LEMMA InputFacts ==
  ASSUME TypeOK, Inputs
  PROVE  /\ running /\ sending = None
         /\ \E k \in Keys, status \in Status, pending \in SUBSET Nat :
              RecordIntent(k, status, pending)
<1>1. running /\ sending = None
  BY DEF Inputs, handle_user_update, handle_automated_update, TakesInput, Listening
<1>2. CASE \E k \in Keys, action \in UserAction : handle_user_update(k, action)
  <2>1. PICK k \in Keys, action \in UserAction : handle_user_update(k, action)
    BY <1>2
  <2>2. pending_confirmations \cup {id_counter} \in SUBSET Nat
    BY DEF TypeOK, CoordinatorTypeOK
  <2> QED BY <1>1, <2>1, <2>2, StatusTypes DEF handle_user_update
<1>3. CASE \E k \in Keys, field \in RedisInputs :
             handle_automated_update(k, build_status_from_redis(field))
  <2>1. PICK k \in Keys, field \in RedisInputs :
          handle_automated_update(k, build_status_from_redis(field))
    BY <1>3
  <2>2. pending_confirmations \in SUBSET Nat /\ field \in RedisSeverity
    BY InputsAssumption DEF TypeOK, CoordinatorTypeOK
  <2> QED BY <1>1, <2>1, <2>2, StatusTypes DEF handle_automated_update
<1> QED BY <1>1, <1>2, <1>3 DEF Inputs

\* Recorded intent opens its key and changes nothing else that counts here.
LEMMA IntentFacts ==
  ASSUME TypeOK, NEW k \in Keys, NEW status \in Status, NEW pending,
         RecordIntent(k, status, pending)
  PROVE  /\ speculative_state'[k] # None
         /\ \A x \in Keys : x # k => /\ speculative_state'[x] = speculative_state[x]
                                     /\ last_intent'[x] = last_intent[x]
         /\ UNCHANGED <<confirmed_state, committing, running>>
<1> DEFINE entry == [status |-> status, id |-> id_counter]
<1>1. entry # None
  BY EntryFacts DEF TypeOK, CoordinatorTypeOK
<1>2. /\ speculative_state' = [speculative_state EXCEPT ![k] = entry]
      /\ last_intent' = [last_intent EXCEPT ![k] = id_counter]
      /\ UNCHANGED <<confirmed_state, committing, running>>
  BY DEF RecordIntent
<1> HIDE DEF entry
<1> QED BY <1>1, <1>2 DEF TypeOK, CoordinatorTypeOK

\* A failure leaves the intent of its key there, rolled back or not.
LEMMA FailureFacts ==
  ASSUME TypeOK, JobInv, EffectInv, reconcile_failure
  PROVE  \E k \in Keys :
           /\ k = Head(job_outcomes).key
           /\ speculative_state[k] # None /\ speculative_state'[k] # None
           /\ \A x \in Keys : x # k => speculative_state'[x] = speculative_state[x]
           /\ UNCHANGED <<confirmed_state, committing, running, last_intent>>
<1> DEFINE job == Head(job_outcomes).job
           k == Head(job_outcomes).key
           rolled == converge_to_last_confirmed(k)
<1>1. /\ k \in Keys /\ job.key = k /\ speculative_state[k] # None
  BY HeadFacts DEF reconcile_failure
<1>2. rolled # None
  <2>1. rolled \in Entry
    BY <1>1, StatusTypes DEF converge_to_last_confirmed, TypeOK, CoordinatorTypeOK, Entry,
                             DEFAULT_HYDRATED_ID
  <2> QED BY <2>1, NoneIsNoRecord
<1>3. /\ \/ speculative_state' = speculative_state
         \/ speculative_state' = [speculative_state EXCEPT ![k] = rolled]
      /\ UNCHANGED <<confirmed_state, committing, running, last_intent>>
  BY <1>1 DEF reconcile_failure
<1> HIDE DEF rolled
<1>4. /\ speculative_state'[k] # None
      /\ \A x \in Keys : x # k => speculative_state'[x] = speculative_state[x]
  BY <1>1, <1>2, <1>3 DEF TypeOK, CoordinatorTypeOK
<1> QED BY <1>1, <1>3, <1>4

\* An attempt that is delivered, acknowledged or not, writes a status of a key
\* whose job the handler tracks, or nothing.
LEMMA WriteFacts ==
  ASSUME TypeOK, JobInv, EffectInv, NEW k \in Keys, PublishAccepted(k) \/ PublishFailed(k)
  PROVE  /\ InWorkflow(k) /\ speculative_state[k] # None
         /\ \/ kafka' = kafka
            \/ \E s \in Status : kafka' = [kafka EXCEPT ![k] = s]
<1>1. PICK attempt \in in_flight :
        attempt.request.key = k /\ (DeliverOk(attempt) \/ DeliverFails(attempt))
  BY DEF PublishAccepted, PublishFailed
<1>2. attempt \in Attempts(k) /\ attempt.request.status \in Status
  BY <1>1 DEF Attempts, TypeOK, PublishTypeOK, PublishAttempt, Publish
<1>3. InWorkflow(k)
  BY <1>2 DEF EffectInv, PublishInv, InWorkflow
<1>4. speculative_state[k] # None
  BY <1>3 DEF JobInv, KeyInv, InFlight
<1>5. kafka' = kafka \/ kafka' = [kafka EXCEPT ![k] = attempt.request.status]
  BY <1>1 DEF DeliverOk, DeliverFails, Write
<1> QED BY <1>2, <1>3, <1>4, <1>5

-----------------------------------------------------------------------------
(* The invariant is kept *)

\* A start, from whatever topic, leaves every key settled.
LEMMA StartSettled ==
  ASSUME PublishTypeOK, NEW hydrated \in load_startup_hydration(kafka), NEW k \in EpicsKeys,
         hydrated[k] # None
  PROVE  kafka[k] = hydrated[k] /\ is_bypassed(kafka[k])
BY HydratedFacts

\* Initially.
LEMMA TopicInit == Init => TopicInv
<1> SUFFICES ASSUME Init PROVE TopicInv
  OBVIOUS
<1>1. PublishTypeOK
  BY TypeInit DEF TypeOK
<1>2. PICK hydrated \in load_startup_hydration(kafka) : new(hydrated)
  BY DEF Init
<1>3. CommitInv
  BY <1>2 DEF new, CommitInv
<1>4. ASSUME NEW k \in Keys PROVE Settled(k)
  <2>1. last_intent[k] = DEFAULT_HYDRATED_ID
    BY <1>2 DEF new
  <2>2. /\ hydrated[k] = None => confirmed_state[k] = None
        /\ hydrated[k] # None => confirmed_state[k].status = hydrated[k]
    BY <1>2 DEF new
  <2> QED BY <1>1, <1>2, <2>1, <2>2, StartSettled DEF Settled
<1> QED BY <1>3, <1>4 DEF TopicInv

\* After a restart.
LEMMA TopicRestart ==
  ASSUME TypeOK, Restart
  PROVE  TopicInv'
<1>1. PublishTypeOK
  BY DEF TypeOK
<1>2. PICK hydrated \in load_startup_hydration(kafka) :
        confirmed_state' = [k \in Keys |->
          IF hydrated[k] = None THEN None
          ELSE [status |-> hydrated[k], id |-> DEFAULT_HYDRATED_ID]]
  BY DEF Restart
<1>3. CommitInv'
  BY DEF Restart, CommitInv
<1>4. ASSUME NEW k \in Keys PROVE Settled(k)'
  <2>1. last_intent'[k] = DEFAULT_HYDRATED_ID /\ kafka' = kafka
    BY DEF Restart
  <2>2. /\ hydrated[k] = None => confirmed_state'[k] = None
        /\ hydrated[k] # None => confirmed_state'[k].status = hydrated[k]
    BY <1>2
  <2>3. k \in EpicsKeys /\ hydrated[k] # None => kafka[k] = hydrated[k]
    BY <1>1, <1>2, StartSettled
  <2> QED BY <2>1, <2>2, <2>3 DEF Settled, DEFAULT_HYDRATED_ID
<1> QED BY <1>3, <1>4 DEF TopicInv

\* Every turn of the coordinator keeps the topic invariant.
LEMMA TopicCoordinator ==
  ASSUME TypeOK, JobInv, EffectInv, TopicInv, Inputs \/ reconcile_job_outcome \/ Send
  PROVE  TopicInv'
<1>1. kafka' = kafka
  BY DEF Inputs, reconcile_job_outcome, Send, effectVars, publishVars
<1>2. sending = None => committing = None
  BY DEF TopicInv, CommitInv
<1>3. ASSUME sending = None, NEW k \in Keys,
             UNCHANGED <<confirmed_state, committing, running>>,
             speculative_state'[k] # None,
             \A x \in Keys : x # k => /\ speculative_state'[x] = speculative_state[x]
                                      /\ last_intent'[x] = last_intent[x]
      PROVE  TopicInv'
  <2>1. CommitInv'
    BY <1>2, <1>3 DEF CommitInv
  <2>2. \A x \in Keys : running' /\ speculative_state'[x] = None => Settled(x)'
    BY <1>1, <1>3 DEF TopicInv, Settled
  <2> QED BY <2>1, <2>2 DEF TopicInv
<1>4. CASE Inputs
  <2>1. PICK k \in Keys, status \in Status, pending \in SUBSET Nat :
          RecordIntent(k, status, pending)
    BY <1>4, InputFacts
  <2> QED BY <1>3, <1>4, <2>1, InputFacts, IntentFacts
<1>5. CASE reconcile_success
  <2> DEFINE job == Head(job_outcomes).job
             k == Head(job_outcomes).key
             entry == [status |-> job.status, id |-> job.id]
  <2>1. /\ job_outcomes # <<>> /\ Head(job_outcomes).kind = "Committed"
        /\ sending = None /\ committing = None
        /\ UNCHANGED <<running, last_intent>>
    BY <1>2, <1>5 DEF reconcile_success, Listening
  <2>2. /\ k \in Keys /\ job \in Job /\ job.key = k /\ speculative_state[k] # None
        /\ kafka[k] = job.status
    BY <2>1, HeadFacts
  <2>3. CASE IsSuperseded(job)
    <3>1. /\ sending' = send_next_for(k, speculative_state, pending_confirmations \ {job.id})
          /\ committing' = job
          /\ UNCHANGED <<speculative_state, confirmed_state>>
      BY <1>5, <2>2, <2>3 DEF reconcile_success
    <3>2. sending' # None /\ sending'.key = k
      BY <2>2, <3>1, SendNextFacts DEF TypeOK, CoordinatorTypeOK
    <3>3. CommitInv'
      BY <1>1, <2>2, <3>1, <3>2 DEF CommitInv
    <3>4. \A x \in Keys : running' /\ speculative_state'[x] = None => Settled(x)'
      BY <1>1, <2>1, <3>1 DEF TopicInv, Settled
    <3> QED BY <3>3, <3>4 DEF TopicInv
  <2>4. CASE ~IsSuperseded(job)
    <3>1. /\ speculative_state' = [speculative_state EXCEPT ![k] = None]
          /\ confirmed_state' = [confirmed_state EXCEPT ![k] = entry]
          /\ UNCHANGED <<sending, committing>>
      BY <1>5, <2>2, <2>4 DEF reconcile_success
    <3>2. CommitInv'
      BY <2>1, <3>1 DEF CommitInv
    <3>3. entry # None /\ entry.status = job.status
      BY <2>2, EntryFacts DEF Job
    <3> HIDE DEF entry
    <3>4. /\ confirmed_state'[k] = entry
          /\ \A x \in Keys : x # k => /\ confirmed_state'[x] = confirmed_state[x]
                                      /\ speculative_state'[x] = speculative_state[x]
      BY <2>2, <3>1 DEF TypeOK, CoordinatorTypeOK
    <3> HIDE DEF job, k
    <3>5. \A x \in Keys : running' /\ speculative_state'[x] = None => Settled(x)'
      BY <1>1, <2>1, <2>2, <3>3, <3>4 DEF TopicInv, Settled
    <3> QED BY <3>2, <3>5 DEF TopicInv
  <2> QED BY <2>3, <2>4
<1>6. CASE reconcile_failure
  <2>1. sending = None
    BY <1>6 DEF reconcile_failure, Listening
  <2> QED BY <1>3, <1>6, <2>1, FailureFacts
<1>7. CASE dispatch_automated_wake
  <2> DEFINE k == Head(job_outcomes).key
  <2>1. sending = None /\ k \in Keys
    BY <1>7, HeadFacts DEF dispatch_automated_wake, Listening
  <2>2. CASE RecordIntent(k, WakeStatus, pending_confirmations)
    BY <1>3, <2>1, <2>2, StatusTypes, IntentFacts
  <2>3. CASE UNCHANGED coordinatorVars
    BY <1>1, <2>3 DEF coordinatorVars, TopicInv, CommitInv, Settled
  <2> QED BY <1>7, <2>2, <2>3 DEF dispatch_automated_wake
<1>8. CASE SendJob
  <2>1. /\ sending # None /\ committing' = None /\ confirmed_state' = Commit
        /\ UNCHANGED <<speculative_state, running, last_intent>>
    BY <1>8 DEF SendJob
  <2>2. CommitInv'
    BY <2>1 DEF CommitInv
  <2>3. ASSUME NEW x \in Keys, speculative_state[x] = None
        PROVE  confirmed_state'[x] = confirmed_state[x]
    <3>1. ~InSending(x)
      BY <2>3 DEF JobInv, KeyInv, InFlight
    <3>2. committing # None => committing.key # x
      BY <2>1, <3>1 DEF InSending, TopicInv, CommitInv
    <3> QED BY <2>1, <2>3, <3>2 DEF Commit, TypeOK, CoordinatorTypeOK
  <2>4. \A x \in Keys : running' /\ speculative_state'[x] = None => Settled(x)'
    BY <1>1, <2>1, <2>3 DEF TopicInv, Settled
  <2> QED BY <2>2, <2>4 DEF TopicInv
<1>9. CASE SendFails
  BY <1>9 DEF SendFails, fail_all_confirmations, TopicInv, CommitInv
<1> QED BY <1>4, <1>5, <1>6, <1>7, <1>8, <1>9 DEF reconcile_job_outcome, Send

\* A record is written only for a key that is open, and never for the one
\* whose commit waits for a send.
LEMMA TopicWrite ==
  ASSUME TypeOK, JobInv, EffectInv, TopicInv, NEW k \in Keys,
         PublishAccepted(k) \/ PublishFailed(k)
  PROVE  TopicInv'
<1>1. /\ InWorkflow(k) /\ speculative_state[k] # None
      /\ \A x \in Keys : x # k => kafka'[x] = kafka[x]
  BY WriteFacts DEF TypeOK, PublishTypeOK
<1>2. UNCHANGED <<confirmed_state, speculative_state, sending, committing, running, last_intent>>
  BY DEF PublishAccepted, PublishFailed, OutsidePublish, coordinatorVars
<1>3. CommitInv'
  <2>1. ~InSending(k)
    BY <1>1 DEF JobInv, KeyInv, OneJob
  <2>2. committing # None => committing.key \in Keys /\ committing.key # k
    BY <2>1 DEF InSending, TopicInv, CommitInv, TypeOK, CoordinatorTypeOK, Job
  <2> QED BY <1>1, <1>2, <2>2 DEF TopicInv, CommitInv
<1>4. \A x \in Keys : running' /\ speculative_state'[x] = None => Settled(x)'
  BY <1>1, <1>2 DEF TopicInv, Settled
<1> QED BY <1>3, <1>4 DEF TopicInv

\* Every step of the service keeps the topic invariant.
LEMMA TopicStep == TypeOK /\ JobInv /\ EffectInv /\ TopicInv /\ [Next]_vars => TopicInv'
<1> SUFFICES ASSUME TypeOK, JobInv, EffectInv, TopicInv, [Next]_vars PROVE TopicInv'
  OBVIOUS
<1>1. CASE UNCHANGED <<coordinatorVars, kafka>>
  BY <1>1 DEF coordinatorVars, TopicInv, CommitInv, Settled
<1>2. CASE Inputs \/ reconcile_job_outcome \/ Send
  BY <1>2, TopicCoordinator
<1>3. CASE WorkflowStep \/ WorkflowEnds
  BY <1>1, <1>3 DEF WorkflowStep, WorkflowEnds, publishVars
<1>4. ASSUME NEW k \in Keys, SnoozeCommand(k) \/ SnoozeExpires(k) PROVE TopicInv'
  BY <1>1, <1>4 DEF SnoozeCommand, SnoozeExpires, OutsideSnooze, publishVars
<1>5. ASSUME NEW k \in Keys, PublishReceived(k) PROVE TopicInv'
  BY <1>1, <1>5 DEF PublishReceived, ReceivePublish, OutsidePublish
<1>6. ASSUME NEW k \in Keys, PublishAccepted(k) \/ PublishFailed(k) PROVE TopicInv'
  BY <1>6, TopicWrite
<1>7. CASE Flush \/ Clock \/ UNCHANGED vars
  BY <1>1, <1>7 DEF Flush, flush_completed_batch, OutsidePublish, Clock, Tick, OutsideSnooze,
                    publishVars, vars
<1>8. CASE Restart
  BY <1>8, TopicRestart
<1> QED BY <1>2, <1>3, <1>4, <1>5, <1>6, <1>7, <1>8 DEF Next

\* The four invariants together are inductive.
LEMMA TopicAlways == Spec => [](TypeOK /\ JobInv /\ EffectInv /\ TopicInv)
BY EffectsAlways, TopicInit, TopicStep, PTL DEF Spec

\* Whenever a key that had an input is at rest, the last record of the topic is
\* the confirmed status, after any sequence of lost acknowledgements, retries,
\* rollbacks and superseded jobs.
THEOREM SnapshotMatchesKafkaAlways == Spec => []SnapshotMatchesKafka
<1>1. TopicInv => SnapshotMatchesKafka
  BY DEF TopicInv, Settled, SnapshotMatchesKafka
<1> QED BY <1>1, TopicAlways, PTL

\* A restart at any moment keeps the EPICS bypasses that were at rest, with
\* their wake time, and brings back none that had ended.
THEOREM BypassSurvivesRestartAlways == Spec => BypassSurvivesRestart
<1> DEFINE Kept ==
      restarts' # restarts =>
        \A k \in EpicsKeys :
          /\ running /\ speculative_state[k] = None /\ confirmed_state[k] # None
          => IF confirmed_state[k].status.state = "Bypassed"
               THEN /\ confirmed_state'[k] # None
                    /\ confirmed_state'[k].status = confirmed_state[k].status
               ELSE confirmed_state'[k] = None
<1>1. ASSUME TypeOK, TopicInv, Restart PROVE Kept
  <2> SUFFICES ASSUME NEW k \in EpicsKeys, running, speculative_state[k] = None,
                      confirmed_state[k] # None
               PROVE  IF confirmed_state[k].status.state = "Bypassed"
                        THEN /\ confirmed_state'[k] # None
                             /\ confirmed_state'[k].status = confirmed_state[k].status
                        ELSE confirmed_state'[k] = None
    OBVIOUS
  <2>1. k \in Keys
    BY KeysAssumption
  <2>2. kafka[k] = confirmed_state[k].status /\ kafka[k] \in Status
    BY <1>1, <2>1 DEF TopicInv, Settled, TypeOK, CoordinatorTypeOK, Entry
  <2>3. PICK hydrated \in load_startup_hydration(kafka) :
          confirmed_state' = [x \in Keys |->
            IF hydrated[x] = None THEN None
            ELSE [status |-> hydrated[x], id |-> DEFAULT_HYDRATED_ID]]
    BY <1>1 DEF Restart
  <2>4. hydrated[k] = IF is_bypassed(kafka[k]) THEN kafka[k] ELSE None
    BY <1>1, HydratedFacts DEF TypeOK
  <2>5. is_bypassed(kafka[k]) <=> confirmed_state[k].status.state = "Bypassed"
    BY <2>2, NoneIsNoStatus DEF is_bypassed
  <2>6. CASE is_bypassed(kafka[k])
    <3>1. confirmed_state'[k] = [status |-> kafka[k], id |-> DEFAULT_HYDRATED_ID]
      BY <2>1, <2>2, <2>3, <2>4, <2>6, NoneIsNoStatus
    <3>2. [status |-> kafka[k], id |-> DEFAULT_HYDRATED_ID] # None
      BY <2>2, EntryFacts DEF DEFAULT_HYDRATED_ID
    <3> QED BY <2>2, <2>5, <2>6, <3>1, <3>2
  <2>7. CASE ~is_bypassed(kafka[k])
    BY <2>1, <2>3, <2>4, <2>5, <2>7
  <2> QED BY <2>6, <2>7
<1>2. ASSUME Next, restarts' # restarts PROVE Restart
  BY <1>2 DEF Next, Inputs, reconcile_job_outcome, Send, WorkflowStep, WorkflowEnds,
              SnoozeCommand, SnoozeExpires, OutsideSnooze, PublishReceived,
              PublishAccepted, PublishFailed, Flush, Clock, OutsidePublish
<1>3. TypeOK /\ TopicInv /\ [Next]_vars => [Kept]_vars
  BY <1>1, <1>2
<1> HIDE DEF Kept
<1>4. Spec => [][Kept]_vars
  BY <1>3, TopicAlways, PTL DEF Spec
<1> QED BY <1>4 DEF Kept, BypassSurvivesRestart

-----------------------------------------------------------------------------
(* The service implements AlarmRegister *)

\* What is visible are statuses.
LEMMA VisibleType == TypeOK => visible \in [Keys -> Status \cup {None}]
BY DEF TypeOK, CoordinatorTypeOK, Entry, visible

\* A start makes visible what the topic restores.
LEMMA RestoredFacts ==
  ASSUME PublishTypeOK, NEW hydrated \in load_startup_hydration(kafka)
  PROVE  [k \in Keys |-> hydrated[k]] \in Register!Restored(kafka)
BY HydratedFacts, KeysAssumption DEF Register!Restored, is_bypassed

\* What is visible after a start are the hydrated statuses.
LEMMA HydratedVisible ==
  ASSUME PublishTypeOK, NEW hydrated \in load_startup_hydration(kafka), NEW confirmed,
         confirmed = [k \in Keys |->
           IF hydrated[k] = None THEN None
           ELSE [status |-> hydrated[k], id |-> DEFAULT_HYDRATED_ID]]
  PROVE  [k \in Keys |-> IF confirmed[k] = None THEN None ELSE confirmed[k].status]
           = [k \in Keys |-> hydrated[k]]
<1>1. ASSUME NEW k \in Keys
      PROVE  (IF confirmed[k] = None THEN None ELSE confirmed[k].status) = hydrated[k]
  <2>1. CASE hydrated[k] = None
    BY <2>1
  <2>2. CASE hydrated[k] # None
    <3>1. confirmed[k] = [status |-> hydrated[k], id |-> DEFAULT_HYDRATED_ID]
      BY <2>2
    <3>2. hydrated[k] \in Status
      BY <2>2, HydratedFacts
    <3>3. confirmed[k] # None
      BY <3>1, <3>2, EntryFacts DEF DEFAULT_HYDRATED_ID
    <3> QED BY <3>1, <3>3
  <2> QED BY <2>1, <2>2
<1> QED BY <1>1

\* The initial states are initial states of the register.
LEMMA RegisterInit == Init => Register!Init
<1> SUFFICES ASSUME Init PROVE Register!Init
  OBVIOUS
<1>1. PublishTypeOK
  BY TypeInit DEF TypeOK
<1>2. PICK hydrated \in load_startup_hydration(kafka) : new(hydrated)
  BY DEF Init
<1>3. open = {} /\ running = TRUE
  BY <1>2 DEF new, open
<1>4. visible = [k \in Keys |-> hydrated[k]]
  BY <1>1, <1>2, HydratedVisible DEF new, visible
<1>5. kafka = [k \in Keys |-> None]
  BY DEF Init, PublishInit
<1>6. [k \in Keys |-> hydrated[k]] \in Register!Restored(kafka)
  BY <1>1, <1>2, RestoredFacts
<1> QED BY <1>3, <1>4, <1>5, <1>6 DEF Register!Init

\* A key that is opened, or stays open, while the confirmed state is the same:
\* the register accepts an input or does nothing.
LEMMA RegisterAccept ==
  ASSUME TypeOK, running, NEW k \in Keys, speculative_state'[k] # None,
         \A x \in Keys : x # k => speculative_state'[x] = speculative_state[x],
         UNCHANGED <<confirmed_state, kafka, running>>
  PROVE  Register!Accept(k)
<1>1. open' = open \cup {k}
  BY DEF open
<1>2. visible' = visible
  BY DEF visible
<1> QED BY <1>1, <1>2 DEF Register!Accept

\* A confirmed entry that is what the topic says is a Confirm of the register.
LEMMA RegisterConfirm ==
  ASSUME TypeOK, running, NEW k \in Keys, speculative_state[k] # None,
         NEW n \in Nat, kafka[k] \in Status,
         confirmed_state' = [confirmed_state EXCEPT ![k] = [status |-> kafka[k], id |-> n]],
         \/ speculative_state' = speculative_state
         \/ speculative_state' = [speculative_state EXCEPT ![k] = None],
         UNCHANGED <<kafka, running>>
  PROVE  Register!Confirm(k)
<1> DEFINE entry == [status |-> kafka[k], id |-> n]
<1>1. entry # None /\ entry.status = kafka[k]
  BY EntryFacts
<1> HIDE DEF entry
<1>2. /\ confirmed_state'[k] = entry
      /\ \A x \in Keys : x # k => confirmed_state'[x] = confirmed_state[x]
  BY DEF entry, TypeOK, CoordinatorTypeOK
<1>3. visible' = [visible EXCEPT ![k] = kafka[k]]
  <2> DEFINE v == visible'
             w == [visible EXCEPT ![k] = kafka[k]]
  <2>1. \A x \in Keys : v[x] = w[x]
    BY <1>1, <1>2 DEF visible
  <2>2. \A x \in Keys : v[x] \in Status \cup {None}
    BY <1>1, <1>2 DEF visible, TypeOK, CoordinatorTypeOK, Entry
  <2>3. v \in [Keys -> Status \cup {None}]
    BY <2>2 DEF visible
  <2>4. w \in [Keys -> Status \cup {None}]
    BY VisibleType
  <2> HIDE DEF v, w
  <2>5. v = w
    BY <2>1, <2>3, <2>4
  <2> QED BY <2>5 DEF v, w
<1>4. k \in open /\ open' \in {open, open \ {k}}
  BY DEF open, TypeOK, CoordinatorTypeOK
<1> QED BY <1>3, <1>4 DEF Register!Confirm

\* Every turn of the coordinator is a step of the register, or none.
LEMMA RegisterCoordinator ==
  ASSUME TypeOK, JobInv, EffectInv, TopicInv, Inputs \/ reconcile_job_outcome \/ Send
  PROVE  [Register!Next]_(Register!vars)
<1>1. kafka' = kafka
  BY DEF Inputs, reconcile_job_outcome, Send, effectVars, publishVars
<1>2. CASE UNCHANGED <<speculative_state, confirmed_state, running>>
  BY <1>1, <1>2 DEF Register!vars, open, visible
<1>3. CASE Inputs
  <2>1. PICK k \in Keys, status \in Status, pending \in SUBSET Nat :
          RecordIntent(k, status, pending)
    BY <1>3, InputFacts
  <2>2. Register!Accept(k)
    BY <1>1, <1>3, <2>1, InputFacts, IntentFacts, RegisterAccept
  <2> QED BY <2>2 DEF Register!Next
<1>4. CASE reconcile_success
  <2> DEFINE job == Head(job_outcomes).job
             k == Head(job_outcomes).key
  <2>1. /\ job_outcomes # <<>> /\ Head(job_outcomes).kind = "Committed"
        /\ running /\ running' = running
    BY <1>4 DEF reconcile_success, Listening
  <2>2. /\ k \in Keys /\ job \in Job /\ job.key = k /\ speculative_state[k] # None
        /\ kafka[k] = job.status /\ kafka[k] \in Status /\ job.id \in Nat
    BY <2>1, HeadFacts DEF Job
  <2>3. CASE IsSuperseded(job)
    BY <1>2, <1>4, <2>1, <2>3 DEF reconcile_success
  <2>4. CASE ~IsSuperseded(job)
    <3>1. /\ speculative_state' = [speculative_state EXCEPT ![k] = None]
          /\ confirmed_state' =
               [confirmed_state EXCEPT ![k] = [status |-> kafka[k], id |-> job.id]]
      BY <1>4, <2>2, <2>4 DEF reconcile_success
    <3>2. Register!Confirm(k)
      BY <1>1, <2>1, <2>2, <3>1, RegisterConfirm
    <3> QED BY <2>2, <3>2 DEF Register!Next
  <2> QED BY <2>3, <2>4
<1>5. CASE reconcile_failure
  <2>1. running
    BY <1>5 DEF reconcile_failure, Listening
  <2>2. PICK k \in Keys :
          /\ speculative_state'[k] # None
          /\ \A x \in Keys : x # k => speculative_state'[x] = speculative_state[x]
          /\ UNCHANGED <<confirmed_state, committing, running, last_intent>>
    BY <1>5, FailureFacts
  <2>3. Register!Accept(k)
    BY <1>1, <2>1, <2>2, RegisterAccept
  <2> QED BY <2>3 DEF Register!Next
<1>6. CASE dispatch_automated_wake
  <2> DEFINE k == Head(job_outcomes).key
  <2>1. running /\ k \in Keys
    BY <1>6, HeadFacts DEF dispatch_automated_wake, Listening
  <2>2. CASE RecordIntent(k, WakeStatus, pending_confirmations)
    <3>1. Register!Accept(k)
      BY <1>1, <2>1, <2>2, StatusTypes, IntentFacts, RegisterAccept
    <3> QED BY <2>1, <3>1 DEF Register!Next
  <2>3. CASE UNCHANGED coordinatorVars
    BY <1>2, <2>3 DEF coordinatorVars
  <2> QED BY <1>6, <2>2, <2>3 DEF dispatch_automated_wake
<1>7. CASE SendJob
  <2>1. /\ running /\ sending # None /\ confirmed_state' = Commit
        /\ UNCHANGED <<speculative_state, running>>
    BY <1>7 DEF SendJob
  <2>2. CASE committing = None
    BY <1>2, <2>1, <2>2 DEF Commit
  <2>3. CASE committing # None
    <3>1. /\ committing \in Job /\ sending.key = committing.key
          /\ kafka[committing.key] = committing.status
      BY <2>3 DEF TopicInv, CommitInv, TypeOK, CoordinatorTypeOK
    <3>2. PICK k \in Keys : k = committing.key
      BY <3>1 DEF Job
    <3>3. speculative_state[k] # None
      BY <2>1, <3>1, <3>2 DEF InSending, JobInv, KeyInv, InFlight
    <3>4. /\ confirmed_state' =
               [confirmed_state EXCEPT ![k] = [status |-> kafka[k], id |-> committing.id]]
          /\ kafka[k] \in Status /\ committing.id \in Nat
      BY <2>1, <2>3, <3>1, <3>2 DEF Commit, Job
    <3>5. Register!Confirm(k)
      BY <1>1, <2>1, <3>3, <3>4, RegisterConfirm
    <3> QED BY <3>5 DEF Register!Next
  <2> QED BY <2>2, <2>3
<1>8. CASE SendFails
  <2>1. running' = FALSE /\ UNCHANGED <<speculative_state, confirmed_state>>
    BY <1>8 DEF SendFails, fail_all_confirmations
  <2>2. Register!Stop
    BY <1>1, <2>1 DEF Register!Stop, open, visible
  <2> QED BY <2>2 DEF Register!Next
<1> QED BY <1>3, <1>4, <1>5, <1>6, <1>7, <1>8 DEF reconcile_job_outcome, Send

\* Every step of the service is a step of the register, or changes nothing of it.
LEMMA RegisterStep ==
  TypeOK /\ JobInv /\ EffectInv /\ TopicInv /\ [Next]_vars => [Register!Next]_(Register!vars)
<1> SUFFICES ASSUME TypeOK, JobInv, EffectInv, TopicInv, [Next]_vars
             PROVE  [Register!Next]_(Register!vars)
  OBVIOUS
<1>1. CASE UNCHANGED <<coordinatorVars, kafka>>
  BY <1>1 DEF coordinatorVars, Register!vars, open, visible
<1>2. CASE Inputs \/ reconcile_job_outcome \/ Send
  BY <1>2, RegisterCoordinator
<1>3. CASE WorkflowStep \/ WorkflowEnds
  BY <1>1, <1>3 DEF WorkflowStep, WorkflowEnds, publishVars
<1>4. ASSUME NEW k \in Keys, SnoozeCommand(k) \/ SnoozeExpires(k)
      PROVE  [Register!Next]_(Register!vars)
  BY <1>1, <1>4 DEF SnoozeCommand, SnoozeExpires, OutsideSnooze, publishVars
<1>5. ASSUME NEW k \in Keys, PublishReceived(k)
      PROVE  [Register!Next]_(Register!vars)
  BY <1>1, <1>5 DEF PublishReceived, ReceivePublish, OutsidePublish
<1>6. ASSUME NEW k \in Keys, PublishAccepted(k) \/ PublishFailed(k)
      PROVE  [Register!Next]_(Register!vars)
  <2>1. UNCHANGED <<speculative_state, confirmed_state, running>>
    BY <1>6 DEF PublishAccepted, PublishFailed, OutsidePublish, coordinatorVars
  <2>2. open' = open /\ visible' = visible
    BY <2>1 DEF open, visible
  <2>3. k \in open
    BY <1>6, WriteFacts DEF open
  <2>4. CASE kafka' = kafka
    BY <2>1, <2>2, <2>4 DEF Register!vars
  <2>5. CASE \E s \in Status : kafka' = [kafka EXCEPT ![k] = s]
    <3>1. Register!Write(k)
      BY <2>1, <2>2, <2>3, <2>5 DEF Register!Write
    <3> QED BY <3>1 DEF Register!Next
  <2> QED BY <1>6, <2>4, <2>5, WriteFacts
<1>7. CASE Flush \/ Clock \/ UNCHANGED vars
  BY <1>1, <1>7 DEF Flush, flush_completed_batch, OutsidePublish, Clock, Tick, OutsideSnooze,
                    publishVars, vars
<1>8. CASE Restart
  <2>1. PublishTypeOK
    BY DEF TypeOK
  <2>2. PICK hydrated \in load_startup_hydration(kafka) :
          confirmed_state' = [k \in Keys |->
            IF hydrated[k] = None THEN None
            ELSE [status |-> hydrated[k], id |-> DEFAULT_HYDRATED_ID]]
    BY <1>8 DEF Restart
  <2>3. visible' = [k \in Keys |-> hydrated[k]]
    BY <2>1, <2>2, HydratedVisible DEF visible
  <2>4. [k \in Keys |-> hydrated[k]] \in Register!Restored(kafka)
    BY <2>1, <2>2, RestoredFacts
  <2>5. open' = {} /\ running' = TRUE /\ kafka' = kafka
    BY <1>8 DEF Restart, open
  <2>6. Register!Restart
    BY <2>3, <2>4, <2>5 DEF Register!Restart
  <2> QED BY <2>6 DEF Register!Next
<1> QED BY <1>2, <1>3, <1>4, <1>5, <1>6, <1>7, <1>8 DEF Next

\* The tasks together implement AlarmRegister: whatever they interleave, fail or
\* restart, the topic changes only for open keys, and what is visible changes
\* only to what the topic says.
THEOREM RegisterImplemented == Spec => ImplementsRegister
<1>1. Spec => Register!Spec
  BY TopicAlways, RegisterInit, RegisterStep, PTL DEF Spec, Register!Spec
<1> QED BY <1>1 DEF ImplementsRegister

-----------------------------------------------------------------------------
(* Jobs on their way *)

\* Job j is on its way through the service.
Carries(j) ==
  \/ sending = j
  \/ Holds(job_queue, {j})
  \/ jobs[j.key] # None /\ jobs[j.key].job = j
  \/ Holds(job_outcomes, Outcomes(j))

\* A job on its way is in flight for its key, and is the one being sent when
\* its key is.
LEMMA CarriesFacts ==
  ASSUME JobInv, NEW j \in Job, Carries(j)
  PROVE  /\ speculative_state[j.key] # None
         /\ InSending(j.key) => j = sending
<1>1. j.key \in Keys /\ j # None
  BY NoneIsNoRecord DEF Job
<1>2. sending = j => InSending(j.key)
  BY <1>1 DEF InSending
<1>3. Holds(job_queue, {j}) => InQueue(j.key)
  BY DEF Holds, InQueue
<1>4. jobs[j.key] # None => InWorkflow(j.key)
  BY DEF InWorkflow
<1>5. Holds(job_outcomes, Outcomes(j)) => InOutcomes(j.key)
  BY DEF Holds, InOutcomes, Outcomes, Committed, Failed
<1> QED BY <1>1, <1>2, <1>3, <1>4, <1>5 DEF Carries, JobInv, KeyInv, OneJob, InFlight

\* The same of the state after a step.
LEMMA CarriesFactsNext ==
  ASSUME JobInv', NEW j \in Job, Carries(j)'
  PROVE  /\ speculative_state'[j.key] # None
         /\ InSending(j.key)' => j = sending'
<1>1. j.key \in Keys /\ j # None
  BY NoneIsNoRecord DEF Job
<1>2. sending' = j => InSending(j.key)'
  BY <1>1 DEF InSending
<1>3. Holds(job_queue, {j})' => InQueue(j.key)'
  BY DEF Holds, InQueue
<1>4. jobs'[j.key] # None => InWorkflow(j.key)'
  BY DEF InWorkflow
<1>5. Holds(job_outcomes, Outcomes(j))' => InOutcomes(j.key)'
  BY DEF Holds, InOutcomes, Outcomes, Committed, Failed
<1> QED BY <1>1, <1>2, <1>3, <1>4, <1>5 DEF Carries, JobInv, KeyInv, OneJob, InFlight

\* The outcome at the head of the channel carries its job.
LEMMA CarriesHead ==
  ASSUME TypeOK, JobInv, job_outcomes # <<>>,
         Head(job_outcomes).kind \in {"Committed", "Failed"}
  PROVE  Carries(Head(job_outcomes).job)
<1> DEFINE head == Head(job_outcomes)
<1>1. job_outcomes \in Seq(JobOutcome)
  BY DEF TypeOK, ChannelsTypeOK
<1>2. head \in JobOutcome /\ 1 \in DOMAIN job_outcomes /\ job_outcomes[1] = head
  BY <1>1, TailFacts
<1>3. head.job.key = head.key
  BY <1>2 DEF JobInv, OutcomeKeys
<1> HIDE DEF head
<1>4. head = [kind |-> head.kind, key |-> head.key, job |-> head.job]
  BY <1>2 DEF JobOutcome
<1>5. head \in Outcomes(head.job)
  BY <1>3, <1>4 DEF Outcomes, Committed, Failed, head
<1>6. Holds(job_outcomes, Outcomes(head.job))
  BY <1>2, <1>5 DEF Holds
<1> QED BY <1>6 DEF Carries, head

\* A turn of the coordinator starts no job but the one it then sends.
LEMMA CarriesCoordinator ==
  ASSUME TypeOK, jobs' = jobs, NEW j \in Job, Carries(j)',
         \/ job_queue' = job_queue
         \/ sending \in Job /\ job_queue' = Append(job_queue, sending),
         \/ job_outcomes' = job_outcomes
         \/ job_outcomes # <<>> /\ job_outcomes' = Tail(job_outcomes)
  PROVE  Carries(j) \/ j = sending'
<1>1. job_queue \in Seq(Job) /\ job_outcomes \in Seq(JobOutcome)
  BY DEF TypeOK, ChannelsTypeOK
<1>2. Holds(job_queue, {j})' => Holds(job_queue, {j}) \/ sending = j
  BY <1>1, HoldsAppend
<1>3. Outcomes(j)' = Outcomes(j)
  BY DEF Outcomes, Committed, Failed
<1>4. Holds(job_outcomes, Outcomes(j))' => Holds(job_outcomes, Outcomes(j))
  BY <1>1, <1>3, HoldsTail
<1> QED BY <1>2, <1>4 DEF Carries

\* The handler starts no job of its own: it only moves the ones it was sent.
LEMMA CarriesHandler ==
  ASSUME TypeOK, JobInv, WorkflowStep \/ WorkflowEnds, NEW j \in Job, Carries(j)'
  PROVE  Carries(j)
<1>1. job_queue \in Seq(Job) /\ job_outcomes \in Seq(JobOutcome) /\ sending' = sending
  BY DEF TypeOK, ChannelsTypeOK, WorkflowStep, WorkflowEnds, coordinatorVars
<1>2. Outcomes(j)' = Outcomes(j) /\ j.key \in Keys
  BY DEF Outcomes, Committed, Failed, Job
<1>3. ASSUME NEW k \in Keys, jobs[k] # None, jobs' = [jobs EXCEPT ![k] = None],
             NEW o \in Outcomes(jobs[k].job), job_outcomes' = Append(job_outcomes, o),
             job_queue' = job_queue
      PROVE  Carries(j)
  <2>1. jobs[k].job \in Job /\ jobs[k].job.key = k
    BY <1>3 DEF TypeOK, WorkflowTypeOK, TrackedJob, JobInv, TrackedKeys
  <2>2. o \in JobOutcome
    BY <2>1, OutcomeTypes DEF Outcomes
  <2>3. Holds(job_outcomes, Outcomes(j))' => Holds(job_outcomes, Outcomes(j)) \/ o \in Outcomes(j)
    BY <1>1, <1>2, <1>3, <2>2, HoldsAppend
  <2>4. o \in Outcomes(j) => j = jobs[k].job
    BY DEF Outcomes, Committed, Failed
  <2>5. jobs'[j.key] # None => jobs'[j.key] = jobs[j.key]
    BY <1>2, <1>3 DEF TypeOK, WorkflowTypeOK
  <2> QED BY <1>1, <1>3, <2>1, <2>3, <2>4, <2>5 DEF Carries
<1>4. CASE handle_new_job
  <2> DEFINE job == Head(job_queue)
             started == [job |-> job, step |-> 1]
  <2>1. job_queue # <<>> /\ job_queue' = Tail(job_queue)
    BY <1>4 DEF handle_new_job
  <2>2. job \in Job
    BY <1>1, <2>1, TailFacts
  <2>3. PICK k \in Keys : k = job.key
    BY <2>2 DEF Job
  <2>4. jobs' = [jobs EXCEPT ![k] = started] /\ job_outcomes' = job_outcomes
    BY <1>4, <2>3 DEF handle_new_job, advance_workflow, WORKFLOW_ORDER
  <2>5. \/ jobs'[j.key] = jobs[j.key]
        \/ jobs'[j.key].job = job
    BY <1>2, <2>4 DEF TypeOK, WorkflowTypeOK
  <2>6. Holds(job_queue, {job}) /\ (Holds(job_queue, {j})' => Holds(job_queue, {j}))
    BY <1>1, <2>1, HoldsTail
  <2> QED BY <1>1, <1>2, <2>4, <2>5, <2>6 DEF Carries
<1>5. CASE handle_snooze_result
  <2> DEFINE result == Head(snooze_outcomes)
  <2>1. snooze_outcomes # <<>> /\ snooze_outcomes \in Seq(SnoozeOutcome) /\ job_queue' = job_queue
    BY <1>5 DEF handle_snooze_result, TypeOK, ChannelsTypeOK
  <2>2. result \in SnoozeOutcome
    BY <2>1, TailFacts
  <2>3. PICK k \in Keys : k = result.key
    BY <2>2 DEF SnoozeOutcome
  <2>4. CASE jobs[k] # None /\ send_failed(k)
    BY <1>3, <2>1, <2>4 DEF send_failed, Outcomes
  <2>5. CASE jobs[k] # None /\ advance_workflow(k, jobs[k])
    <3>1. CASE jobs[k].step < Len(WORKFLOW_ORDER)
      <4>1. /\ jobs' = [jobs EXCEPT ![k] = [job |-> jobs[k].job, step |-> jobs[k].step + 1]]
            /\ job_outcomes' = job_outcomes
        BY <2>5, <3>1 DEF advance_workflow
      <4>2. \/ jobs'[j.key] = jobs[j.key]
            \/ j.key = k /\ jobs'[j.key].job = jobs[j.key].job
        BY <1>2, <4>1 DEF TypeOK, WorkflowTypeOK
      <4> QED BY <1>1, <1>2, <2>1, <2>5, <4>1, <4>2 DEF Carries
    <3>2. CASE ~(jobs[k].step < Len(WORKFLOW_ORDER))
      BY <1>3, <2>1, <2>5, <3>2 DEF advance_workflow, send_failed, Outcomes
    <3> QED BY <3>1, <3>2
  <2>6. CASE job_outcomes' = Append(job_outcomes, Wake(k)) /\ jobs' = jobs
    <3>1. Wake(k) \in JobOutcome
      BY OutcomeTypes
    <3>2. Wake(k) \notin Outcomes(j)
      BY DEF Wake, Outcomes, Committed, Failed
    <3>3. Holds(job_outcomes, Outcomes(j))' => Holds(job_outcomes, Outcomes(j))
      BY <1>1, <1>2, <2>6, <3>1, <3>2, HoldsAppend
    <3> QED BY <1>1, <2>1, <2>6, <3>3 DEF Carries
  <2> QED BY <1>5, <2>3, <2>4, <2>5, <2>6 DEF handle_snooze_result
<1>6. ASSUME NEW result \in publish_outcomes, dispatch_publish_result(result)
      PROVE  Carries(j)
  <2>1. PICK k \in Keys : k = result.key
    BY DEF TypeOK, ChannelsTypeOK, PublishResult
  <2>2. /\ jobs[k] # None /\ jobs' = [jobs EXCEPT ![k] = None] /\ job_queue' = job_queue
        /\ \E o \in Outcomes(jobs[k].job) : job_outcomes' = Append(job_outcomes, o)
    BY <1>6, <2>1 DEF dispatch_publish_result, send_failed, Outcomes
  <2> QED BY <1>3, <2>2
<1>7. CASE WorkflowEnds
  <2>1. job_queue' = <<>> /\ UNCHANGED <<jobs, job_outcomes>>
    BY <1>7 DEF WorkflowEnds, WorkflowStops
  <2>2. ~Holds(job_queue, {j})'
    BY <2>1 DEF Holds
  <2> QED BY <1>1, <1>2, <2>1, <2>2 DEF Carries
<1> QED BY <1>4, <1>5, <1>6, <1>7 DEF WorkflowStep

-----------------------------------------------------------------------------
(* The inductive invariant about ids and confirmations *)

\* Ids are handed out once, and no confirmation waits for what is confirmed.
IdInv(k) ==
  /\ confirmed_state[k] # None =>
       /\ confirmed_state[k].id < id_counter
       /\ confirmed_state[k].id \notin pending_confirmations
  /\ speculative_state[k] # None =>
       /\ speculative_state[k].id < id_counter
       /\ confirmed_state[k] # None => confirmed_state[k].id <= speculative_state[k].id

\* A job on its way is no newer than the key's intent and no older than what is
\* confirmed, and one that is sent for a user is still to be answered.
CarriedInv(j) ==
  /\ j.id <= speculative_state[j.key].id
  /\ confirmed_state[j.key] # None => confirmed_state[j.key].id <= j.id
  /\ running /\ j.user_initiated => j.id \in pending_confirmations

\* Key k has intent with id n, or a job with it on its way.
Names(k, n) ==
  \/ speculative_state[k] # None /\ speculative_state[k].id = n
  \/ \E j \in Job : Carries(j) /\ j.key = k /\ j.id = n

\* What waits for a send to be confirmed is older than what is sent.
WaitingInv ==
  committing # None =>
    /\ committing.id <= sending.id
    /\ committing.id \notin pending_confirmations
    /\ confirmed_state[committing.key] # None =>
         confirmed_state[committing.key].id <= committing.id

\* A user who was told Ok has the action, or something newer, confirmed, or it
\* is what waits for a send to be confirmed.
OkInv ==
  running =>
    \A reply \in replies :
      reply.result = "Ok" =>
        \/ /\ confirmed_state[reply.key] # None
           /\ reply.id <= confirmed_state[reply.key].id
        \/ committing # None /\ committing.key = reply.key /\ reply.id <= committing.id

\* The failure of key k's last accepted input was told to its user.
Told(k) == [id |-> last_intent[k], key |-> k, result |-> "Internal"] \in replies

\* The last accepted input of k is its intent, is confirmed, or was given up with
\* its user told so.
IntentKept(k) ==
  /\ speculative_state[k] # None => speculative_state[k].id = last_intent[k] \/ Told(k)
  /\ speculative_state[k] = None /\ last_intent[k] # DEFAULT_HYDRATED_ID =>
       Told(k) \/ (confirmed_state[k] # None /\ confirmed_state[k].id = last_intent[k])

\* The inductive invariant behind OkMeansConfirmed and NoIntentLost.
ConfirmInv ==
  /\ id_counter >= INITIAL_PUBLISH_ID
  /\ pending_confirmations \subseteq 1 .. (id_counter - 1)
  /\ \A k \in Keys : IdInv(k)
  /\ \A j \in Job : Carries(j) => CarriedInv(j)
  /\ \A n \in pending_confirmations : \A k, l \in Keys : Names(k, n) /\ Names(l, n) => k = l
  /\ WaitingInv
  /\ OkInv
  /\ running => \A k \in Keys : IntentKept(k)

\* Ids are natural numbers.
LEMMA IdTypes ==
  ASSUME TypeOK
  PROVE  /\ id_counter \in Nat
         /\ \A k \in Keys : /\ last_intent[k] \in Nat
                            /\ confirmed_state[k] # None =>
                                 confirmed_state[k] \in Entry /\ confirmed_state[k].id \in Nat
                            /\ speculative_state[k] # None =>
                                 speculative_state[k] \in Entry /\ speculative_state[k].id \in Nat
         /\ sending # None => sending \in Job /\ sending.key \in Keys /\ sending.id \in Nat
         /\ committing # None =>
              committing \in Job /\ committing.key \in Keys /\ committing.id \in Nat
         /\ \A j \in Job : j.id \in Nat /\ j.key \in Keys
         /\ \A r \in replies : r.id \in Nat /\ r.key \in Keys
BY DEF TypeOK, CoordinatorTypeOK, Entry, Job, Reply

\* A step that leaves the coordinator alone and starts no job keeps the invariant.
LEMMA ConfirmFrame ==
  ASSUME ConfirmInv, UNCHANGED coordinatorVars, \A j \in Job : Carries(j)' => Carries(j)
  PROVE  ConfirmInv'
<1>1. UNCHANGED <<confirmed_state, speculative_state, pending_confirmations, id_counter,
                  sending, committing, running, replies, last_intent>>
  BY DEF coordinatorVars
<1>2. \A k \in Keys : IdInv(k)' /\ (IntentKept(k)' <=> IntentKept(k))
  BY <1>1 DEF ConfirmInv, IdInv, IntentKept, Told
<1>3. \A j \in Job : Carries(j)' => CarriedInv(j)'
  BY <1>1 DEF ConfirmInv, CarriedInv
<1>4. \A k \in Keys : \A n \in pending_confirmations : Names(k, n)' => Names(k, n)
  BY <1>1 DEF Names
<1>5. WaitingInv' /\ OkInv'
  BY <1>1 DEF ConfirmInv, WaitingInv, OkInv
<1> QED BY <1>1, <1>2, <1>3, <1>4, <1>5 DEF ConfirmInv

\* Recorded intent has the newest id.
LEMMA ConfirmIntent ==
  ASSUME TypeOK, TopicInv, ConfirmInv, sending = None,
         NEW k \in Keys, NEW status \in Status,
         NEW pending \in {pending_confirmations, pending_confirmations \cup {id_counter}},
         RecordIntent(k, status, pending),
         \A j \in Job : Carries(j)' => Carries(j) \/ j = sending',
         \A j \in Job : Carries(j) => speculative_state[j.key] # None
  PROVE  ConfirmInv'
<1> DEFINE entry == [status |-> status, id |-> id_counter]
           spec == [speculative_state EXCEPT ![k] = entry]
<1>1. entry \in Entry /\ entry # None /\ entry.id = id_counter
  BY EntryFacts DEF TypeOK, CoordinatorTypeOK
<1> HIDE DEF entry
<1>2. /\ spec \in [Keys -> Entry \cup {None}] /\ spec[k] = entry
      /\ \A x \in Keys : x # k => spec[x] = speculative_state[x]
  BY <1>1 DEF TypeOK, CoordinatorTypeOK
<1>3. /\ speculative_state' = spec /\ pending_confirmations' = pending
      /\ id_counter' = id_counter + 1
      /\ sending' = IF speculative_state[k] = None
                       THEN send_next_for(k, spec, pending) ELSE None
      /\ last_intent' = [last_intent EXCEPT ![k] = id_counter]
      /\ UNCHANGED <<confirmed_state, committing, running, replies>>
  BY DEF RecordIntent, entry
<1> HIDE DEF spec
<1>4. committing = None
  BY DEF TopicInv, CommitInv
<1>5. \A j \in Job : j = sending' =>
        /\ j.key = k /\ j.id = id_counter
        /\ j.user_initiated => id_counter \in pending
  <2>1. \A j \in Job : j # None
    BY NoneIsNoRecord
  <2> QED BY <1>1, <1>2, <1>3, <2>1, SendNextFacts
<1>6. \A j \in Job : Carries(j) => j.id < id_counter /\ j.id \in Nat
  BY IdTypes DEF ConfirmInv, CarriedInv, IdInv
<1>7. id_counter' >= INITIAL_PUBLISH_ID /\ pending_confirmations' \subseteq 1 .. (id_counter' - 1)
  BY <1>3, IdTypes DEF ConfirmInv, INITIAL_PUBLISH_ID
<1>8. ASSUME NEW x \in Keys PROVE IdInv(x)'
  BY <1>1, <1>2, <1>3, IdTypes DEF ConfirmInv, IdInv
<1>9. ASSUME NEW j \in Job, Carries(j)' PROVE CarriedInv(j)'
  <2>1. j.key \in Keys /\ j.id \in Nat
    BY IdTypes
  <2>2. CASE Carries(j)
    <3>1. CarriedInv(j)
      BY <2>2 DEF ConfirmInv
    <3>2. j.id <= speculative_state'[j.key].id
      BY <1>1, <1>2, <1>3, <1>6, <2>1, <2>2, <3>1, IdTypes DEF CarriedInv
    <3> QED BY <1>3, <3>1, <3>2 DEF CarriedInv
  <2>3. CASE j = sending'
    BY <1>1, <1>2, <1>3, <1>5, <2>1, <2>3, IdTypes DEF ConfirmInv, IdInv, CarriedInv
  <2> QED BY <1>9, <2>2, <2>3
<1>10. ASSUME NEW n \in pending_confirmations', NEW x \in Keys, Names(x, n)'
       PROVE  IF n = id_counter THEN x = k ELSE n \in pending_confirmations /\ Names(x, n)
  <2>1. CASE n = id_counter
    <3>1. x # k => ~(speculative_state'[x] # None /\ speculative_state'[x].id = n)
      BY <1>2, <1>3, <2>1, IdTypes DEF ConfirmInv, IdInv
    <3> QED BY <1>5, <1>6, <1>10, <2>1, <3>1 DEF Names
  <2>2. CASE n # id_counter
    <3>1. n \in pending_confirmations
      BY <1>3, <2>2
    <3>2. speculative_state'[x] # None /\ speculative_state'[x].id = n =>
            speculative_state[x] # None /\ speculative_state[x].id = n
      BY <1>1, <1>2, <1>3, <2>2
    <3> QED BY <1>5, <1>10, <2>2, <3>1, <3>2 DEF Names
  <2> QED BY <2>1, <2>2
<1>11. WaitingInv' /\ OkInv'
  BY <1>3, <1>4 DEF ConfirmInv, WaitingInv, OkInv
<1>12. ASSUME running', NEW x \in Keys PROVE IntentKept(x)'
  <2>1. running /\ IntentKept(x)
    BY <1>3, <1>12 DEF ConfirmInv
  <2>2. CASE x = k
    BY <1>1, <1>2, <1>3, <2>2 DEF IntentKept, TypeOK, CoordinatorTypeOK
  <2>3. CASE x # k
    BY <1>2, <1>3, <2>1, <2>3 DEF IntentKept, Told, TypeOK, CoordinatorTypeOK
  <2> QED BY <2>2, <2>3
<1>13. \A n \in pending_confirmations' :
         \A x, y \in Keys : Names(x, n)' /\ Names(y, n)' => x = y
  BY <1>10 DEF ConfirmInv
<1> QED BY <1>7, <1>8, <1>9, <1>11, <1>12, <1>13 DEF ConfirmInv

\* When a job's outcome is reconciled, the jobs on their way are those of other
\* keys, with their confirmations untouched, and the one the turn sends.
LEMMA OthersCarried ==
  ASSUME TypeOK, JobInv', ConfirmInv, running, NEW job \in Job, Carries(job),
         speculative_state[job.key] # None,
         pending_confirmations' = pending_confirmations \ {job.id},
         speculative_state'[job.key] = None \/ InSending(job.key)',
         NEW j \in Job, Carries(j)', Carries(j) \/ j = sending', j # sending'
  PROVE  /\ Carries(j) /\ j.key # job.key
         /\ j.user_initiated => j.id \in pending_confirmations'
<1>1. Carries(j) /\ j.key # job.key
  BY CarriesFactsNext
<1>2. ASSUME j.user_initiated PROVE j.id \in pending_confirmations'
  <2>1. j.id \in pending_confirmations
    BY <1>1, <1>2 DEF ConfirmInv, CarriedInv
  <2>2. Names(j.key, j.id) /\ Names(job.key, job.id)
    BY <1>1 DEF Names
  <2>3. j.key \in Keys /\ job.key \in Keys
    BY IdTypes
  <2>4. j.id # job.id
    BY <1>1, <2>1, <2>2, <2>3 DEF ConfirmInv
  <2> QED BY <2>1, <2>4
<1> QED BY <1>1, <1>2

\* A success is confirmed at once or, when it is superseded, once the newer
\* intent is sent.
LEMMA ConfirmSuccess ==
  ASSUME TypeOK, JobInv, EffectInv, TopicInv, JobInv', ConfirmInv, reconcile_success,
         jobs' = jobs
  PROVE  ConfirmInv'
<1> DEFINE job == Head(job_outcomes).job
           entry == [status |-> job.status, id |-> job.id]
           pending == pending_confirmations \ {job.id}
<1>1. /\ job_outcomes # <<>> /\ Head(job_outcomes).kind = "Committed"
      /\ sending = None /\ running
      /\ pending_confirmations' = pending /\ replies' = Answer(job, "Ok")
      /\ UNCHANGED <<id_counter, running, last_intent, job_queue>>
      /\ job_outcomes' = Tail(job_outcomes)
  BY DEF reconcile_success, Listening
<1>2. job \in Job /\ Carries(job) /\ speculative_state[job.key] # None
  BY <1>1, HeadFacts, CarriesHead
<1>3. PICK k \in Keys : k = job.key
  BY <1>2, IdTypes
<1>4. committing = None
  BY <1>1 DEF TopicInv, CommitInv
<1>5. \A j \in Job : Carries(j)' => Carries(j) \/ j = sending'
  BY <1>1, CarriesCoordinator
<1>6. /\ IF IsSuperseded(job)
           THEN /\ sending' = send_next_for(k, speculative_state, pending)
                /\ committing' = job
                /\ UNCHANGED <<speculative_state, confirmed_state>>
           ELSE /\ speculative_state' = [speculative_state EXCEPT ![k] = None]
                /\ confirmed_state' = [confirmed_state EXCEPT ![k] = entry]
                /\ UNCHANGED <<sending, committing>>
  BY <1>3 DEF reconcile_success
<1>7. /\ CarriedInv(job) /\ job.id \in Nat
      /\ job.id < id_counter
  BY <1>2, <1>3, IdTypes DEF ConfirmInv, CarriedInv, IdInv
<1> HIDE DEF job
<1>8. /\ replies \subseteq replies'
      /\ \A r \in replies' : r \in replies \/ (r.id = job.id /\ r.key = k)
  <2>1. /\ replies \subseteq Answer(job, "Ok")
        /\ \A r \in Answer(job, "Ok") :
             r \in replies \/ r = [id |-> job.id, key |-> job.key, result |-> "Ok"]
    BY AnswerFacts
  <2> QED BY <1>1, <1>3, <2>1
<1>9. CASE IsSuperseded(job)
  <2>1. /\ sending' \in Job /\ sending' # None /\ sending'.key = k
        /\ sending'.id = speculative_state[k].id
        /\ sending'.user_initiated <=> speculative_state[k].id \in pending
    BY <1>2, <1>3, <1>6, <1>9, SendNextFacts DEF TypeOK, CoordinatorTypeOK
  <2>2. InSending(k)'
    BY <2>1 DEF InSending
  <2>3. \A x \in Keys : IdInv(x)' /\ (running' => IntentKept(x)')
    BY <1>1, <1>6, <1>8, <1>9 DEF ConfirmInv, IdInv, IntentKept, Told
  <2>4. ASSUME NEW j \in Job, Carries(j)' PROVE CarriedInv(j)'
    <3>1. CASE j = sending'
      <4>1. IdInv(k)' /\ sending'.id \in Nat
        BY <2>1, <2>3, IdTypes
      <4>2. speculative_state'[k] # None /\ speculative_state'[k].id = sending'.id
        BY <1>2, <1>3, <1>6, <1>9, <2>1
      <4>3. pending_confirmations' = pending
        BY <1>1
      <4> QED BY <1>6, <1>9, <2>1, <3>1, <4>1, <4>2, <4>3 DEF IdInv, CarriedInv
    <3>2. CASE j # sending'
      <4>1. Carries(j) /\ (j.user_initiated => j.id \in pending_confirmations')
        BY <1>1, <1>2, <1>3, <1>5, <2>2, <2>4, <3>2, OthersCarried
      <4> QED BY <1>1, <1>6, <1>9, <4>1 DEF ConfirmInv, CarriedInv
    <3> QED BY <3>1, <3>2
  <2>5. \A x \in Keys, n \in pending_confirmations' : Names(x, n)' => Names(x, n)
    BY <1>2, <1>3, <1>5, <1>6, <1>9, <2>1 DEF Names
  <2>6. WaitingInv'
    BY <1>1, <1>2, <1>3, <1>6, <1>7, <1>9, <2>1 DEF WaitingInv, CarriedInv
  <2>7. OkInv'
    <3>1. committing' = job /\ committing' # None /\ confirmed_state' = confirmed_state
      BY <1>2, <1>6, <1>9, NoneIsNoRecord
    <3>2. ASSUME NEW r \in replies', r.result = "Ok"
          PROVE  \/ confirmed_state'[r.key] # None /\ r.id <= confirmed_state'[r.key].id
                 \/ committing' # None /\ committing'.key = r.key /\ r.id <= committing'.id
      <4>1. CASE r \in replies
        BY <1>1, <1>4, <3>1, <3>2, <4>1 DEF ConfirmInv, OkInv
      <4>2. CASE r.id = job.id /\ r.key = k
        BY <1>3, <1>7, <3>1, <4>2
      <4> QED BY <1>8, <4>1, <4>2
    <3> QED BY <3>2 DEF OkInv
  <2> QED BY <1>1, <2>3, <2>4, <2>5, <2>6, <2>7 DEF ConfirmInv
<1>10. CASE ~IsSuperseded(job)
  <2>1. entry # None /\ entry.id = job.id
    BY <1>2, <1>7, EntryFacts DEF Job
  <2> HIDE DEF entry
  <2>2. /\ speculative_state'[k] = None /\ confirmed_state'[k] = entry
        /\ \A x \in Keys : x # k => /\ speculative_state'[x] = speculative_state[x]
                                    /\ confirmed_state'[x] = confirmed_state[x]
    BY <1>6, <1>10 DEF TypeOK, CoordinatorTypeOK
  <2>3. speculative_state[k].id = job.id
    BY <1>2, <1>3, <1>10 DEF IsSuperseded
  <2>4. \A x \in Keys : IdInv(x)'
    BY <1>1, <1>7, <2>1, <2>2 DEF ConfirmInv, IdInv
  <2>5. \A x \in Keys : running' => IntentKept(x)'
    BY <1>1, <1>2, <1>3, <1>8, <2>1, <2>2, <2>3 DEF ConfirmInv, IntentKept, Told
  <2>6. ASSUME NEW j \in Job, Carries(j)' PROVE CarriedInv(j)'
    <3>1. j # sending'
      BY <1>1, <1>6, <1>10, NoneIsNoRecord
    <3>2. Carries(j) /\ j.key # k /\ (j.user_initiated => j.id \in pending_confirmations')
      BY <1>1, <1>2, <1>3, <1>5, <2>2, <2>6, <3>1, OthersCarried
    <3>3. j.key \in Keys
      BY IdTypes
    <3> QED BY <1>1, <2>2, <3>2, <3>3 DEF ConfirmInv, CarriedInv
  <2>7. \A x \in Keys, n \in pending_confirmations' : Names(x, n)' => Names(x, n)
    <3>1. \A j \in Job : j # sending'
      BY <1>1, <1>6, <1>10, NoneIsNoRecord
    <3> QED BY <1>5, <2>2, <3>1 DEF Names
  <2>8. WaitingInv'
    BY <1>4, <1>6, <1>10 DEF WaitingInv
  <2>9. OkInv'
    <3>1. ASSUME NEW r \in replies', r.result = "Ok"
          PROVE  confirmed_state'[r.key] # None /\ r.id <= confirmed_state'[r.key].id
      <4>1. CASE r \in replies
        <5>1. /\ r.key \in Keys /\ r.id \in Nat
              /\ confirmed_state[r.key] # None /\ r.id <= confirmed_state[r.key].id
          BY <1>1, <1>4, <3>1, <4>1, IdTypes DEF ConfirmInv, OkInv
        <5>2. CASE r.key = k
          BY <1>3, <1>7, <2>1, <2>2, <5>1, <5>2, IdTypes DEF CarriedInv
        <5>3. CASE r.key # k
          BY <2>2, <5>1, <5>3
        <5> QED BY <5>2, <5>3
      <4>2. CASE r.id = job.id /\ r.key = k
        BY <1>7, <2>1, <2>2, <4>2
      <4> QED BY <1>8, <4>1, <4>2
    <3> QED BY <3>1 DEF OkInv
  <2> QED BY <1>1, <2>4, <2>5, <2>6, <2>7, <2>8, <2>9 DEF ConfirmInv
<1> QED BY <1>9, <1>10

\* A failure gives up the intent of a user who is told so, and only then.
LEMMA ConfirmFailure ==
  ASSUME TypeOK, JobInv, EffectInv, TopicInv, JobInv', ConfirmInv, reconcile_failure,
         jobs' = jobs
  PROVE  ConfirmInv'
<1> DEFINE job == Head(job_outcomes).job
           pending == pending_confirmations \ {job.id}
           gives_up == ~IsSuperseded(job) /\ job.user_initiated
           spec(k) == IF gives_up
                        THEN [speculative_state EXCEPT ![k] = converge_to_last_confirmed(k)]
                        ELSE speculative_state
<1>1. /\ job_outcomes # <<>> /\ Head(job_outcomes).kind = "Failed"
      /\ sending = None /\ running
      /\ job_outcomes' = Tail(job_outcomes) /\ job_queue' = job_queue
  BY DEF reconcile_failure, Listening
<1>2. job \in Job /\ Carries(job) /\ speculative_state[job.key] # None
  BY <1>1, HeadFacts, CarriesHead
<1>3. PICK k \in Keys : k = job.key
  BY <1>2, IdTypes
<1>4. committing = None
  BY <1>1 DEF TopicInv, CommitInv
<1>5. \A j \in Job : Carries(j)' => Carries(j) \/ j = sending'
  BY <1>1, CarriesCoordinator
<1>6. /\ pending_confirmations' = pending /\ replies' = Answer(job, "Internal")
      /\ speculative_state' = spec(k)
      /\ sending' = send_next_for(k, spec(k), pending)
      /\ UNCHANGED <<confirmed_state, id_counter, committing, running, last_intent>>
  BY <1>2, <1>3 DEF reconcile_failure
<1>7. /\ replies \subseteq replies'
      /\ \A r \in replies' : r \in replies \/ r.result = "Internal"
      /\ job.id \in pending_confirmations => [id |-> job.id, key |-> k, result |-> "Internal"] \in replies'
  BY <1>3, <1>6, AnswerFacts
<1> DEFINE rolled == converge_to_last_confirmed(k)
<1>8. /\ rolled \in Entry /\ rolled # None
      /\ IF confirmed_state[k] # None THEN rolled = confirmed_state[k]
                                      ELSE rolled.id = DEFAULT_HYDRATED_ID
  <2>1. rolled \in Entry
    BY StatusTypes DEF converge_to_last_confirmed, TypeOK, CoordinatorTypeOK, Entry,
                       DEFAULT_HYDRATED_ID
  <2>2. IF confirmed_state[k] # None THEN rolled = confirmed_state[k]
                                     ELSE rolled.id = DEFAULT_HYDRATED_ID
    BY DEF converge_to_last_confirmed
  <2> QED BY <2>1, <2>2, NoneIsNoRecord
<1>9. rolled.id \in Nat /\ rolled.id < id_counter /\ rolled.id \notin pending_confirmations
  BY <1>8, IdTypes DEF ConfirmInv, IdInv, Entry, INITIAL_PUBLISH_ID, DEFAULT_HYDRATED_ID
<1> HIDE DEF rolled
<1>10. /\ spec(k) \in [Keys -> Entry \cup {None}] /\ spec(k)[k] # None
       /\ IF gives_up THEN spec(k)[k] = rolled ELSE spec(k)[k] = speculative_state[k]
       /\ \A x \in Keys : x # k => spec(k)[x] = speculative_state[x]
  BY <1>2, <1>3, <1>8 DEF rolled, TypeOK, CoordinatorTypeOK
<1>11. gives_up => /\ speculative_state[k].id = job.id
                   /\ job.id \in pending_confirmations
  <2>1. job.user_initiated => job.id \in pending_confirmations
    BY <1>1, <1>2 DEF ConfirmInv, CarriedInv
  <2> QED BY <1>2, <1>3, <2>1 DEF IsSuperseded
<1> HIDE DEF spec, gives_up, job
<1>12. /\ sending' \in Job /\ sending' # None /\ sending'.key = k
       /\ sending'.id = speculative_state'[k].id
       /\ sending'.user_initiated <=> speculative_state'[k].id \in pending
  BY <1>6, <1>10, SendNextFacts
<1>13. InSending(k)'
  BY <1>12 DEF InSending
<1>14. ASSUME NEW x \in Keys PROVE IdInv(x)'
  <2>1. CASE x = k /\ gives_up
    BY <1>6, <1>8, <1>9, <1>10, <2>1, IdTypes DEF ConfirmInv, IdInv
  <2>2. CASE ~(x = k /\ gives_up)
    BY <1>6, <1>10, <2>2 DEF ConfirmInv, IdInv
  <2> QED BY <2>1, <2>2
<1>15. ASSUME NEW j \in Job, Carries(j)' PROVE CarriedInv(j)'
  <2>1. CASE j = sending'
    <3>1. IdInv(k)' /\ sending'.id \in Nat
      BY <1>12, <1>14, IdTypes
    <3> QED BY <1>6, <1>10, <1>12, <2>1, <3>1 DEF IdInv, CarriedInv
  <2>2. CASE j # sending'
    <3>1. Carries(j) /\ j.key # k /\ (j.user_initiated => j.id \in pending_confirmations')
      BY <1>1, <1>2, <1>3, <1>5, <1>6, <1>13, <1>15, <2>2, OthersCarried
    <3>2. j.key \in Keys
      BY IdTypes
    <3> QED BY <1>1, <1>6, <1>10, <3>1, <3>2 DEF ConfirmInv, CarriedInv
  <2> QED BY <2>1, <2>2
<1>16. ASSUME NEW x \in Keys, NEW n \in pending_confirmations', Names(x, n)'
       PROVE  n \in pending_confirmations /\ Names(x, n)
  <2>1. n \in pending_confirmations
    BY <1>6
  <2>2. speculative_state'[x] # None /\ speculative_state'[x].id = n =>
          speculative_state[x] # None /\ speculative_state[x].id = n
    BY <1>6, <1>9, <1>10, <2>1
  <2>3. ASSUME NEW j \in Job, Carries(j)', j.key = x, j.id = n PROVE Names(x, n)
    <3>1. CASE j = sending'
      BY <1>6, <1>10, <1>12, <2>2, <2>3, <3>1 DEF Names
    <3>2. CASE Carries(j)
      BY <2>3, <3>2 DEF Names
    <3> QED BY <1>5, <2>3, <3>1, <3>2
  <2> QED BY <1>16, <2>1, <2>2, <2>3 DEF Names
<1>17. WaitingInv' /\ OkInv'
  <2>1. WaitingInv'
    BY <1>4, <1>6 DEF WaitingInv
  <2>2. OkInv'
    BY <1>6, <1>7 DEF ConfirmInv, OkInv
  <2> QED BY <2>1, <2>2
<1>18. ASSUME running', NEW x \in Keys PROVE IntentKept(x)'
  <2>1. IntentKept(x)
    BY <1>1 DEF ConfirmInv
  <2>2. CASE x = k /\ gives_up
    <3>1. Told(k)'
      BY <1>2, <1>3, <1>6, <1>7, <1>11, <2>1, <2>2 DEF IntentKept, Told
    <3> QED BY <1>6, <1>10, <2>2, <3>1 DEF IntentKept
  <2>3. CASE ~(x = k /\ gives_up)
    BY <1>6, <1>7, <1>10, <2>1, <2>3 DEF IntentKept, Told
  <2> QED BY <2>2, <2>3
<1>19. \A n \in pending_confirmations' :
         \A x, y \in Keys : Names(x, n)' /\ Names(y, n)' => x = y
  BY <1>16 DEF ConfirmInv
<1>20. /\ id_counter' >= INITIAL_PUBLISH_ID
       /\ pending_confirmations' \subseteq 1 .. (id_counter' - 1)
  BY <1>6 DEF ConfirmInv
<1> QED BY <1>14, <1>15, <1>17, <1>18, <1>19, <1>20 DEF ConfirmInv

\* Accepted inputs and ended snoozes record intent.
LEMMA ConfirmInputs ==
  ASSUME TypeOK, JobInv, EffectInv, TopicInv, ConfirmInv, jobs' = jobs,
         Inputs \/ dispatch_automated_wake
  PROVE  ConfirmInv'
<1>1. \A j \in Job : Carries(j) => speculative_state[j.key] # None
  BY CarriesFacts
<1>2. CASE Inputs
  <2>1. sending = None /\ UNCHANGED jobChannels
    BY <1>2 DEF Inputs, handle_user_update, handle_automated_update, TakesInput, Listening
  <2>2. \A j \in Job : Carries(j)' => Carries(j) \/ j = sending'
    BY <2>1, CarriesCoordinator DEF jobChannels
  <2>3. ASSUME NEW k \in Keys, NEW action \in UserAction, handle_user_update(k, action)
        PROVE  ConfirmInv'
    BY <1>1, <2>1, <2>2, <2>3, StatusTypes, ConfirmIntent DEF handle_user_update
  <2>4. ASSUME NEW k \in Keys, NEW field \in RedisInputs,
               handle_automated_update(k, build_status_from_redis(field))
        PROVE  ConfirmInv'
    BY <1>1, <2>1, <2>2, <2>4, StatusTypes, InputsAssumption, ConfirmIntent
       DEF handle_automated_update
  <2> QED BY <1>2, <2>3, <2>4 DEF Inputs
<1>3. CASE dispatch_automated_wake
  <2>1. /\ sending = None /\ job_outcomes # <<>>
        /\ job_outcomes' = Tail(job_outcomes) /\ job_queue' = job_queue
    BY <1>3 DEF dispatch_automated_wake, Listening
  <2>2. PICK k \in Keys : k = Head(job_outcomes).key
    BY <2>1, HeadFacts
  <2>3. \A j \in Job : Carries(j)' => Carries(j) \/ j = sending'
    BY <2>1, CarriesCoordinator
  <2>4. CASE RecordIntent(k, WakeStatus, pending_confirmations)
    BY <1>1, <2>1, <2>3, <2>4, StatusTypes, ConfirmIntent
  <2>5. CASE UNCHANGED coordinatorVars
    <3>1. sending' = None
      BY <2>1, <2>5 DEF coordinatorVars
    <3> QED BY <2>3, <2>5, <3>1, NoneIsNoRecord, ConfirmFrame
  <2> QED BY <1>3, <2>2, <2>4, <2>5 DEF dispatch_automated_wake
<1> QED BY <1>2, <1>3

\* The end of a send confirms what waited for it.
LEMMA ConfirmSend ==
  ASSUME TypeOK, JobInv, TopicInv, ConfirmInv, SendJob, jobs' = jobs
  PROVE  ConfirmInv'
<1> DEFINE entry == [status |-> committing.status, id |-> committing.id]
<1>1. /\ running /\ sending # None /\ sending' = None /\ committing' = None
      /\ job_queue' = Append(job_queue, sending) /\ confirmed_state' = Commit
      /\ UNCHANGED <<speculative_state, pending_confirmations, id_counter, running, replies,
                     last_intent, job_outcomes>>
  BY DEF SendJob
<1>2. sending \in Job /\ Carries(sending) /\ CarriedInv(sending)
  BY <1>1, IdTypes DEF Carries, ConfirmInv
<1>3. \A j \in Job : Carries(j)' => Carries(j)
  BY <1>1, <1>2, CarriesCoordinator, NoneIsNoRecord
<1>4. \A x \in Keys, n \in pending_confirmations : Names(x, n)' => Names(x, n)
  BY <1>1, <1>3 DEF Names
<1>5. WaitingInv'
  BY <1>1 DEF WaitingInv
<1>6. CASE committing = None
  <2>1. confirmed_state' = confirmed_state
    BY <1>1, <1>6 DEF Commit
  <2>2. \A x \in Keys : IdInv(x)' /\ IntentKept(x)'
    BY <1>1, <2>1 DEF ConfirmInv, IdInv, IntentKept, Told
  <2>3. \A j \in Job : Carries(j)' => CarriedInv(j)'
    BY <1>1, <1>3, <2>1 DEF ConfirmInv, CarriedInv
  <2>4. OkInv'
    BY <1>1, <1>6, <2>1 DEF ConfirmInv, OkInv
  <2> QED BY <1>1, <1>4, <1>5, <2>2, <2>3, <2>4 DEF ConfirmInv
<1>7. CASE committing # None
  <2>1. PICK k \in Keys : k = committing.key
    BY <1>7, IdTypes
  <2>2. /\ committing \in Job /\ committing.id \in Nat /\ sending.id \in Nat
        /\ sending.key = k /\ InSending(k) /\ speculative_state[k] # None
    BY <1>1, <1>2, <1>7, <2>1, IdTypes, CarriesFacts DEF TopicInv, CommitInv, InSending
  <2>3. /\ committing.id <= sending.id /\ committing.id \notin pending_confirmations
        /\ confirmed_state[k] # None => confirmed_state[k].id <= committing.id
    BY <1>7, <2>1 DEF ConfirmInv, WaitingInv
  <2>4. entry # None /\ entry.id = committing.id
    BY <2>2, EntryFacts DEF Job
  <2> HIDE DEF entry
  <2>5. /\ confirmed_state'[k] = entry
        /\ \A x \in Keys : x # k => confirmed_state'[x] = confirmed_state[x]
    BY <1>1, <1>7, <2>1 DEF Commit, entry, TypeOK, CoordinatorTypeOK
  <2>6. ASSUME NEW x \in Keys PROVE IdInv(x)'
    <3>1. CASE x = k
      <4>1. speculative_state[k].id \in Nat /\ id_counter \in Nat
        BY <2>2, IdTypes
      <4>2. sending.id <= speculative_state[k].id /\ speculative_state[k].id < id_counter
        BY <1>2, <2>2 DEF CarriedInv, ConfirmInv, IdInv
      <4>3. committing.id < id_counter /\ committing.id <= speculative_state[k].id
        BY <2>2, <2>3, <4>1, <4>2
      <4> QED BY <1>1, <2>3, <2>4, <2>5, <3>1, <4>2, <4>3 DEF IdInv
    <3>2. CASE x # k
      BY <1>1, <2>5, <3>2 DEF ConfirmInv, IdInv
    <3> QED BY <3>1, <3>2
  <2>7. ASSUME NEW j \in Job, Carries(j)' PROVE CarriedInv(j)'
    <3>1. Carries(j) /\ CarriedInv(j) /\ j.key \in Keys
      BY <1>3, <2>7, IdTypes DEF ConfirmInv
    <3>2. CASE j.key = k
      <4>1. j = sending
        BY <2>2, <3>1, <3>2, CarriesFacts
      <4> QED BY <1>1, <2>3, <2>4, <2>5, <3>1, <3>2, <4>1 DEF CarriedInv
    <3>3. CASE j.key # k
      BY <1>1, <2>5, <3>1, <3>3 DEF CarriedInv
    <3> QED BY <3>2, <3>3
  <2>8. OkInv'
    <3>1. ASSUME NEW r \in replies, r.result = "Ok"
          PROVE  confirmed_state'[r.key] # None /\ r.id <= confirmed_state'[r.key].id
      <4>1. r.id \in Nat /\ r.key \in Keys
        BY IdTypes
      <4>2. \/ confirmed_state[r.key] # None /\ r.id <= confirmed_state[r.key].id
            \/ k = r.key /\ r.id <= committing.id
        BY <1>1, <2>1, <3>1 DEF ConfirmInv, OkInv
      <4>3. CASE r.key = k
        BY <2>2, <2>3, <2>4, <2>5, <4>1, <4>2, <4>3, IdTypes
      <4>4. CASE r.key # k
        BY <2>5, <4>1, <4>2, <4>4
      <4> QED BY <4>3, <4>4
    <3> QED BY <1>1, <3>1 DEF OkInv
  <2>9. \A x \in Keys : IntentKept(x)'
    BY <1>1, <2>2, <2>5 DEF ConfirmInv, IntentKept, Told
  <2> QED BY <1>1, <1>4, <1>5, <2>6, <2>7, <2>8, <2>9 DEF ConfirmInv
<1> QED BY <1>6, <1>7

\* The end of the event loop leaves no confirmation waiting.
LEMMA ConfirmEnds ==
  ASSUME TypeOK, ConfirmInv, SendFails, jobs' = jobs
  PROVE  ConfirmInv'
<1>1. /\ running' = FALSE /\ sending' = None /\ committing' = None
      /\ pending_confirmations' = {}
      /\ UNCHANGED <<confirmed_state, speculative_state, id_counter, job_queue, job_outcomes>>
  BY DEF SendFails, fail_all_confirmations, jobChannels
<1>2. \A j \in Job : Carries(j)' => Carries(j)
  BY <1>1, CarriesCoordinator, NoneIsNoRecord
<1>3. \A x \in Keys : IdInv(x)'
  BY <1>1 DEF ConfirmInv, IdInv
<1>4. \A j \in Job : Carries(j)' => CarriedInv(j)'
  BY <1>1, <1>2 DEF ConfirmInv, CarriedInv
<1>5. WaitingInv' /\ OkInv'
  BY <1>1 DEF WaitingInv, OkInv
<1> QED BY <1>1, <1>3, <1>4, <1>5 DEF ConfirmInv

\* Of the first state.
LEMMA ConfirmInit == Init => ConfirmInv
<1> SUFFICES ASSUME Init PROVE ConfirmInv
  OBVIOUS
<1>1. TypeOK
  BY TypeInit
<1>2. PICK hydrated \in load_startup_hydration(kafka) : new(hydrated)
  BY DEF Init
<1>3. /\ speculative_state = [k \in Keys |-> None] /\ pending_confirmations = {}
      /\ id_counter = INITIAL_PUBLISH_ID /\ sending = None /\ committing = None
      /\ replies = {} /\ last_intent = [k \in Keys |-> DEFAULT_HYDRATED_ID]
      /\ job_queue = <<>> /\ job_outcomes = <<>> /\ jobs = [k \in Keys |-> None]
  BY <1>2 DEF new, Init, ChannelsInit, WorkflowInit
<1>4. \A j \in Job : ~Carries(j)
  <2>1. \A j \in Job : j # None /\ j.key \in Keys
    BY NoneIsNoRecord DEF Job
  <2> QED BY <1>3, <2>1 DEF Carries, Holds
<1>5. ASSUME NEW k \in Keys PROVE IdInv(k) /\ IntentKept(k)
  <2>1. confirmed_state[k] # None => confirmed_state[k].id = DEFAULT_HYDRATED_ID
    BY <1>2 DEF new
  <2> QED BY <1>3, <2>1 DEF IdInv, IntentKept, DEFAULT_HYDRATED_ID, INITIAL_PUBLISH_ID
<1>6. WaitingInv /\ OkInv
  BY <1>3 DEF WaitingInv, OkInv
<1> QED BY <1>3, <1>4, <1>5, <1>6 DEF ConfirmInv, INITIAL_PUBLISH_ID

\* After a restart.
LEMMA ConfirmRestart ==
  ASSUME TypeOK, Restart
  PROVE  ConfirmInv'
<1>1. PICK hydrated \in load_startup_hydration(kafka) :
        confirmed_state' = [k \in Keys |->
          IF hydrated[k] = None THEN None
          ELSE [status |-> hydrated[k], id |-> DEFAULT_HYDRATED_ID]]
  BY DEF Restart
<1>2. /\ speculative_state' = [k \in Keys |-> None] /\ pending_confirmations' = {}
      /\ id_counter' = INITIAL_PUBLISH_ID /\ sending' = None /\ committing' = None
      /\ replies' = {} /\ last_intent' = [k \in Keys |-> DEFAULT_HYDRATED_ID]
      /\ job_queue' = <<>> /\ job_outcomes' = <<>> /\ jobs' = [k \in Keys |-> None]
  BY DEF Restart
<1>3. \A j \in Job : ~Carries(j)'
  <2>1. \A j \in Job : j # None /\ j.key \in Keys
    BY NoneIsNoRecord DEF Job
  <2> QED BY <1>2, <2>1 DEF Carries, Holds
<1>4. ASSUME NEW k \in Keys PROVE IdInv(k)' /\ IntentKept(k)'
  <2>1. confirmed_state'[k] # None => confirmed_state'[k].id = DEFAULT_HYDRATED_ID
    BY <1>1
  <2> QED BY <1>2, <2>1 DEF IdInv, IntentKept, DEFAULT_HYDRATED_ID, INITIAL_PUBLISH_ID
<1>5. WaitingInv' /\ OkInv'
  BY <1>2 DEF WaitingInv, OkInv
<1> QED BY <1>2, <1>3, <1>4, <1>5 DEF ConfirmInv, INITIAL_PUBLISH_ID

\* Every step of the service keeps the confirmation invariant.
LEMMA ConfirmStep ==
  TypeOK /\ JobInv /\ EffectInv /\ TopicInv /\ ConfirmInv /\ [Next]_vars => ConfirmInv'
<1> SUFFICES ASSUME TypeOK, JobInv, EffectInv, TopicInv, ConfirmInv, [Next]_vars
             PROVE  ConfirmInv'
  OBVIOUS
<1>1. JobInv'
  BY JobStep
<1>2. CASE UNCHANGED <<coordinatorVars, workflowVars, jobChannels>>
  <2>1. \A j \in Job : Carries(j)' => Carries(j)
    BY <1>2 DEF Carries, Holds, Outcomes, Committed, Failed, coordinatorVars, workflowVars,
                jobChannels
  <2> QED BY <1>2, <2>1, ConfirmFrame
<1>3. CASE Inputs \/ reconcile_job_outcome \/ Send
  <2>1. jobs' = jobs
    BY <1>3 DEF Inputs, reconcile_job_outcome, Send, workflowVars
  <2> QED BY <1>1, <1>3, <2>1, ConfirmInputs, ConfirmSuccess, ConfirmFailure, ConfirmSend,
             ConfirmEnds DEF reconcile_job_outcome, Send
<1>4. CASE WorkflowStep \/ WorkflowEnds
  <2>1. UNCHANGED coordinatorVars
    BY <1>4 DEF WorkflowStep, WorkflowEnds
  <2> QED BY <1>4, <2>1, CarriesHandler, ConfirmFrame
<1>5. ASSUME NEW k \in Keys, SnoozeCommand(k) \/ SnoozeExpires(k) PROVE ConfirmInv'
  BY <1>2, <1>5 DEF SnoozeCommand, SnoozeExpires, OutsideSnooze
<1>6. ASSUME NEW k \in Keys, PublishReceived(k) \/ PublishAccepted(k) \/ PublishFailed(k)
      PROVE  ConfirmInv'
  BY <1>2, <1>6 DEF PublishReceived, PublishAccepted, PublishFailed, OutsidePublish
<1>7. CASE Flush \/ Clock
  BY <1>2, <1>7 DEF Flush, Clock, OutsidePublish, OutsideSnooze
<1>8. CASE UNCHANGED vars
  BY <1>2, <1>8 DEF vars
<1>9. CASE Restart
  BY <1>9, ConfirmRestart
<1> QED BY <1>3, <1>4, <1>5, <1>6, <1>7, <1>8, <1>9 DEF Next

\* The five invariants together are inductive.
LEMMA ConfirmAlways == Spec => [](TypeOK /\ JobInv /\ EffectInv /\ TopicInv /\ ConfirmInv)
BY TopicAlways, ConfirmInit, ConfirmStep, PTL DEF Spec

-----------------------------------------------------------------------------
(* What users may rely on *)

\* A user who was told Ok finds the action, or something newer, in the confirmed
\* state as soon as the coordinator is back at its select: no superseded commit
\* is forgotten and none overwrites a newer one.
THEOREM OkMeansConfirmedAlways == Spec => []OkMeansConfirmed
<1>1. TypeOK /\ TopicInv /\ ConfirmInv => OkMeansConfirmed
  <2> SUFFICES ASSUME TypeOK, TopicInv, ConfirmInv, Listening,
                      NEW reply \in replies, reply.result = "Ok"
               PROVE  /\ confirmed_state[reply.key] # None
                      /\ confirmed_state[reply.key].id >= reply.id
    BY DEF OkMeansConfirmed
  <2>1. running /\ committing = None
    BY DEF Listening, TopicInv, CommitInv
  <2>2. confirmed_state[reply.key] # None /\ reply.id <= confirmed_state[reply.key].id
    BY <2>1 DEF ConfirmInv, OkInv
  <2> QED BY <2>2, IdTypes
<1> QED BY <1>1, ConfirmAlways, PTL

\* Once a key is at rest, its last accepted input is the confirmed one, or its
\* user was told that it failed: no interleaving of inputs, outcomes, retries
\* and rollbacks loses one without a word.
THEOREM NoIntentLostAlways == Spec => []NoIntentLost
<1>1. ConfirmInv => NoIntentLost
  BY DEF ConfirmInv, IntentKept, Told, NoIntentLost
<1> QED BY <1>1, ConfirmAlways, PTL

\* A confirmation is answered by the outcome of its own job or by the end of the
\* coordinator, when it was waiting, and waits no longer afterwards: no user is
\* told twice, or told of another's job.
THEOREM AnsweredOnceAlways == Spec => AnsweredOnce
<1>1. ASSUME TypeOK, JobInv, EffectInv, Next, restarts' = restarts, NEW r \in replies' \ replies
      PROVE  /\ r.id \in pending_confirmations \ pending_confirmations'
             /\ \/ ~running'
                \/ /\ job_outcomes' = Tail(job_outcomes)
                   /\ Head(job_outcomes).job.id = r.id
  <2>1. ~UNCHANGED replies
    BY <1>1
  <2>2. ~UNCHANGED coordinatorVars
    BY <2>1 DEF coordinatorVars
  <2>3. ~Restart
    BY <1>1 DEF Restart, TypeOK
  <2>4. ~Inputs /\ ~dispatch_automated_wake /\ ~SendJob
    BY <2>1, <2>2 DEF Inputs, handle_user_update, handle_automated_update, RecordIntent,
                      dispatch_automated_wake, SendJob
  <2>5. reconcile_success \/ reconcile_failure \/ SendFails
    BY <1>1, <2>2, <2>3, <2>4
       DEF Next, reconcile_job_outcome, Send, WorkflowStep, WorkflowEnds, SnoozeCommand,
           SnoozeExpires, PublishReceived, PublishAccepted, PublishFailed, Flush, Clock,
           OutsideSnooze, OutsidePublish
  <2>6. ASSUME NEW result, NEW job, job = Head(job_outcomes).job,
               replies' = Answer(job, result),
               pending_confirmations' = pending_confirmations \ {job.id},
               job_outcomes' = Tail(job_outcomes)
        PROVE  /\ r.id \in pending_confirmations \ pending_confirmations'
               /\ job_outcomes' = Tail(job_outcomes)
               /\ Head(job_outcomes).job.id = r.id
    <3>1. /\ r = [id |-> job.id, key |-> job.key, result |-> result]
          /\ job.id \in pending_confirmations
      BY <1>1, <2>6, AnswerFacts
    <3>2. r.id = job.id
      BY <3>1
    <3> QED BY <2>6, <3>1, <3>2
  <2>7. CASE reconcile_success
    BY <2>6, <2>7 DEF reconcile_success
  <2>8. CASE reconcile_failure
    <3>1. job_outcomes # <<>> /\ Head(job_outcomes).kind = "Failed"
      BY <2>8 DEF reconcile_failure
    <3>2. speculative_state[Head(job_outcomes).job.key] # None
      BY <1>1, <3>1, HeadFacts
    <3> QED BY <2>6, <2>8, <3>2 DEF reconcile_failure
  <2>9. CASE SendFails
    <3>1. /\ ~running' /\ pending_confirmations' = {}
          /\ \E k \in Keys : /\ r = [id |-> speculative_state[k].id, key |-> k, result |-> "Internal"]
                             /\ speculative_state[k].id \in pending_confirmations
      BY <1>1, <2>9 DEF SendFails, fail_all_confirmations
    <3> QED BY <3>1
  <2> QED BY <2>5, <2>7, <2>8, <2>9
<1>2. TypeOK /\ JobInv /\ EffectInv /\ [Next]_vars =>
        [ restarts' = restarts =>
            \A r \in replies' \ replies :
              /\ r.id \in pending_confirmations \ pending_confirmations'
              /\ \/ ~running'
                 \/ /\ job_outcomes' = Tail(job_outcomes)
                    /\ Head(job_outcomes).job.id = r.id ]_vars
  BY <1>1
<1> QED BY <1>2, EffectsAlways, PTL DEF Spec, AnsweredOnce
=============================================================================
