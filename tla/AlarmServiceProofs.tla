------------------------- MODULE AlarmServiceProofs -------------------------
(***************************************************************************)
(* Proofs about AlarmService, for every set of keys, every channel and     *)
(* delivery bound and every number of inputs and restarts: types, the one  *)
(* job a key has on its way, and the effects that job goes through.  Of    *)
(* the snooze command, the answer, the publish request, the attempt and    *)
(* the result a key has at most one at any time, at the step its job is    *)
(* at, and an acknowledged result means that the topic holds the job's     *)
(* status.                                                                 *)
(***************************************************************************)
EXTENDS AlarmService, CoordinatorProofs

-----------------------------------------------------------------------------
(* Types *)

\* Advancing a tracked job keeps the types of what it writes.
LEMMA AdvanceType ==
  ASSUME ChannelsTypeOK, WorkflowTypeOK, NEW k \in Keys, NEW tracked \in TrackedJob,
         tracked.step = 0 \/ jobs[k] # None,
         advance_workflow(k, tracked)
  PROVE  /\ jobs' \in [Keys -> TrackedJob \cup {None}]
         /\ job_outcomes' \in Seq(JobOutcome)
         /\ snooze_inputs' \subseteq SnoozeInput
         /\ publish_queue' \subseteq Publish
<1> DEFINE job == tracked.job
<1>1. job \in Job /\ tracked.step \in Nat /\ tracked.step + 1 \in Nat
  BY DEF TrackedJob
<1>2. Len(WORKFLOW_ORDER) = 2
  BY DEF WORKFLOW_ORDER
<1>3. CASE tracked.step < Len(WORKFLOW_ORDER)
  <2>1. job_outcomes' \in Seq(JobOutcome)
    BY <1>3 DEF advance_workflow, ChannelsTypeOK
  <2>2. [job |-> job, step |-> tracked.step + 1] \in TrackedJob
    BY <1>1 DEF TrackedJob
  <2>3. jobs' \in [Keys -> TrackedJob \cup {None}]
    BY <1>3, <2>2 DEF advance_workflow, WorkflowTypeOK
  <2>4. [key |-> k, wake |-> job.status.wake] \in SnoozeInput
    BY <1>1 DEF SnoozeInput, Job, Status
  <2>5. [key |-> k, status |-> job.status, user_initiated |-> job.user_initiated] \in Publish
    BY <1>1 DEF Publish, Job
  <2>6. snooze_inputs' \subseteq SnoozeInput /\ publish_queue' \subseteq Publish
    BY <1>3, <2>4, <2>5 DEF advance_workflow, ChannelsTypeOK
  <2> QED BY <2>1, <2>3, <2>6
<1>4. CASE ~(tracked.step < Len(WORKFLOW_ORDER))
  <2>1. jobs[k] \in TrackedJob
    BY <1>1, <1>2, <1>4 DEF WorkflowTypeOK
  <2>2. Failed(jobs[k].job) \in JobOutcome
    BY <2>1, OutcomeTypes DEF TrackedJob
  <2>3. Append(job_outcomes, Failed(jobs[k].job)) \in Seq(JobOutcome)
    BY <2>2, AppendFacts DEF ChannelsTypeOK
  <2> QED BY <1>4, <2>3 DEF advance_workflow, send_failed, ChannelsTypeOK, WorkflowTypeOK
<1> QED BY <1>3, <1>4

\* Every turn of the workflow handler keeps its types and those of its channels.
LEMMA WorkflowTypes ==
  ASSUME ChannelsTypeOK, WorkflowTypeOK, WorkflowStep \/ WorkflowEnds
  PROVE  ChannelsTypeOK' /\ WorkflowTypeOK'
<1>1. CASE handle_new_job
  <2> DEFINE job == Head(job_queue)
  <2>0. job_queue # <<>> /\ job_queue \in Seq(Job)
    BY <1>1 DEF handle_new_job, ChannelsTypeOK
  <2>1. job \in Job /\ job.key \in Keys /\ Tail(job_queue) \in Seq(Job)
    <3>1. job \in Job /\ Tail(job_queue) \in Seq(Job)
      BY <2>0, TailFacts
    <3> QED BY <3>1 DEF Job
  <2>2. [job |-> job, step |-> 0] \in TrackedJob
    BY <2>1 DEF TrackedJob
  <2>3. advance_workflow(job.key, [job |-> job, step |-> 0])
    BY <1>1 DEF handle_new_job
  <2>4. /\ jobs' \in [Keys -> TrackedJob \cup {None}]
        /\ job_outcomes' \in Seq(JobOutcome)
        /\ snooze_inputs' \subseteq SnoozeInput
        /\ publish_queue' \subseteq Publish
    BY <2>1, <2>2, <2>3, AdvanceType
  <2> QED BY <1>1, <2>1, <2>4 DEF handle_new_job, ChannelsTypeOK, WorkflowTypeOK
<1>2. CASE handle_snooze_result
  <2> DEFINE result == Head(snooze_outcomes)
             k == result.key
  <2>0. snooze_outcomes # <<>> /\ snooze_outcomes \in Seq(SnoozeOutcome)
    BY <1>2 DEF handle_snooze_result, ChannelsTypeOK
  <2>1. k \in Keys /\ Tail(snooze_outcomes) \in Seq(SnoozeOutcome)
    <3>1. result \in SnoozeOutcome /\ Tail(snooze_outcomes) \in Seq(SnoozeOutcome)
      BY <2>0, TailFacts
    <3> QED BY <3>1 DEF SnoozeOutcome
  <2>2. SUFFICES /\ jobs' \in [Keys -> TrackedJob \cup {None}]
                 /\ job_outcomes' \in Seq(JobOutcome)
                 /\ snooze_inputs' \subseteq SnoozeInput
                 /\ publish_queue' \subseteq Publish
    BY <1>2, <2>1 DEF handle_snooze_result, ChannelsTypeOK, WorkflowTypeOK
  <2>3. CASE jobs[k] # None /\ advance_workflow(k, jobs[k])
    <3>1. jobs[k] \in TrackedJob
      BY <2>1, <2>3 DEF WorkflowTypeOK
    <3> QED BY <2>1, <2>3, <3>1, AdvanceType
  <2>4. CASE /\ job_outcomes' = Append(job_outcomes, Wake(k))
             /\ UNCHANGED <<jobs, snooze_inputs, publish_queue>>
    <3>1. Append(job_outcomes, Wake(k)) \in Seq(JobOutcome)
      BY <2>1, OutcomeTypes, AppendFacts DEF ChannelsTypeOK
    <3> QED BY <2>4, <3>1 DEF ChannelsTypeOK, WorkflowTypeOK
  <2>5. CASE /\ jobs[k] # None /\ send_failed(k)
             /\ UNCHANGED <<snooze_inputs, publish_queue>>
    <3>1. jobs[k] \in TrackedJob
      BY <2>1, <2>5 DEF WorkflowTypeOK
    <3>2. Failed(jobs[k].job) \in JobOutcome
      BY <3>1, OutcomeTypes DEF TrackedJob
    <3>3. Append(job_outcomes, Failed(jobs[k].job)) \in Seq(JobOutcome)
      BY <3>2, AppendFacts DEF ChannelsTypeOK
    <3> QED BY <2>5, <3>3 DEF send_failed, ChannelsTypeOK, WorkflowTypeOK
  <2> QED BY <1>2, <2>3, <2>4, <2>5 DEF handle_snooze_result
<1>3. ASSUME NEW result \in publish_outcomes, dispatch_publish_result(result)
      PROVE  ChannelsTypeOK' /\ WorkflowTypeOK'
  <2> DEFINE k == result.key
  <2>1. k \in Keys
    BY DEF ChannelsTypeOK, PublishResult
  <2>2. jobs[k] \in TrackedJob
    BY <1>3, <2>1 DEF dispatch_publish_result, WorkflowTypeOK
  <2>3. Failed(jobs[k].job) \in JobOutcome /\ Committed(jobs[k].job) \in JobOutcome
    BY <2>2, OutcomeTypes DEF TrackedJob
  <2>4. /\ Append(job_outcomes, Failed(jobs[k].job)) \in Seq(JobOutcome)
        /\ Append(job_outcomes, Committed(jobs[k].job)) \in Seq(JobOutcome)
    BY <2>3, AppendFacts DEF ChannelsTypeOK
  <2>5. jobs' = [jobs EXCEPT ![k] = None] /\ job_outcomes' \in Seq(JobOutcome)
    BY <1>3, <2>4 DEF dispatch_publish_result, send_failed
  <2> QED BY <1>3, <2>5 DEF dispatch_publish_result, snoozeChannels, ChannelsTypeOK,
                            WorkflowTypeOK
<1>4. CASE WorkflowEnds
  <2>1. <<>> \in Seq(Job)
    OBVIOUS
  <2> QED BY <1>4, <2>1 DEF WorkflowEnds, WorkflowStops, snoozeChannels,
                            publishChannels, ChannelsTypeOK, WorkflowTypeOK
<1> QED BY <1>1, <1>2, <1>3, <1>4 DEF WorkflowStep

\* Every step of the snooze scheduler keeps its types and those of its channels.
LEMMA SnoozeTypes ==
  ASSUME ChannelsTypeOK, SnoozeTypeOK, NEW k \in Keys,
         SnoozeCommand(k) \/ SnoozeExpires(k)
  PROVE  /\ SnoozeTypeOK'
         /\ snooze_inputs' \subseteq SnoozeInput
         /\ snooze_outcomes' \in Seq(SnoozeOutcome)
<1>1. ASSUME NEW input \in snooze_inputs, handle_snooze_input(input)
      PROVE  /\ SnoozeTypeOK'
             /\ snooze_inputs' \subseteq SnoozeInput
             /\ snooze_outcomes' \in Seq(SnoozeOutcome)
  <2>1. input.key \in Keys /\ input.wake \in Wakes \cup {NoWake}
    BY DEF ChannelsTypeOK, SnoozeInput
  <2>2. \A kind \in {"Accepted", "InvalidWake"} :
          [kind |-> kind, key |-> input.key] \in SnoozeOutcome
    BY <2>1 DEF SnoozeOutcome
  <2>3. \A kind \in {"Accepted", "InvalidWake"} :
          Append(snooze_outcomes, [kind |-> kind, key |-> input.key]) \in Seq(SnoozeOutcome)
    BY <2>2, AppendFacts DEF ChannelsTypeOK
  <2>4. \E kind \in {"Accepted", "InvalidWake"} : Respond(input, kind)
    BY <1>1 DEF handle_snooze_input
  <2>5. /\ snooze_inputs' \subseteq SnoozeInput
        /\ snooze_outcomes' \in Seq(SnoozeOutcome)
        /\ now' = now
    BY <2>3, <2>4 DEF Respond, ChannelsTypeOK
  <2>6. ASSUME input.wake # NoWake, input.wake >= now
        PROVE  timestamp_secs_to_instant(input.wake) \in Wakes
    BY <2>1, <2>6, MaxTimeAssumption, MaxDelayAssumption
       DEF timestamp_secs_to_instant, Wakes, NoWake, SnoozeTypeOK
  <2>7. timer' \in [Keys -> Wakes \cup {NoWake}]
    BY <1>1, <2>1, <2>6 DEF handle_snooze_input, SetTimer, CancelTimer, SnoozeTypeOK
  <2> QED BY <2>5, <2>7 DEF SnoozeTypeOK
<1>2. CASE Expire(k)
  <2>1. [kind |-> "Expired", key |-> k] \in SnoozeOutcome
    BY DEF SnoozeOutcome
  <2>2. Append(snooze_outcomes, [kind |-> "Expired", key |-> k]) \in Seq(SnoozeOutcome)
    BY <2>1, AppendFacts DEF ChannelsTypeOK
  <2> QED BY <1>2, <2>2 DEF Expire, SnoozeTypeOK, ChannelsTypeOK
<1> QED BY <1>1, <1>2 DEF SnoozeCommand, SnoozeExpires

\* Every step of the publish engine keeps its types and those of its channels.
LEMMA PublishTypes ==
  ASSUME ChannelsTypeOK, PublishTypeOK, NEW k \in Keys,
         PublishReceived(k) \/ PublishAccepted(k) \/ PublishFailed(k)
  PROVE  /\ PublishTypeOK'
         /\ publish_queue' \subseteq Publish
         /\ publish_outcomes' \subseteq PublishResult
<1>1. CASE PublishReceived(k)
  <2>1. PICK request \in publish_queue : ReceivePublish(request)
    BY <1>1 DEF PublishReceived
  <2>2. [request |-> request, attempt_count |-> 1] \in PublishAttempt
    BY PublishAssumption DEF PublishAttempt, ChannelsTypeOK
  <2> QED BY <2>1, <2>2 DEF ReceivePublish, PublishTypeOK, ChannelsTypeOK
<1>2. ASSUME NEW attempt \in in_flight, DeliverOk(attempt) \/ DeliverFails(attempt)
      PROVE  /\ PublishTypeOK'
             /\ publish_queue' \subseteq Publish
             /\ publish_outcomes' \subseteq PublishResult
  <2>1. /\ attempt \in PublishAttempt
        /\ attempt.request.key \in Keys /\ attempt.request.status \in Status
        /\ attempt.attempt_count \in 1 .. MAX_DELIVERY_ATTEMPTS
    BY DEF PublishTypeOK, PublishAttempt, Publish
  <2>2. kafka' \in [Keys -> Status \cup {None}]
    BY <1>2, <2>1 DEF DeliverOk, DeliverFails, Write, PublishTypeOK
  <2>3. ASSUME NEW ok \in BOOLEAN, handle_completed_work(attempt, ok)
        PROVE  completed_batch' \subseteq PublishResult /\ publish_outcomes' \subseteq PublishResult
    BY <2>1, <2>3 DEF handle_completed_work, PublishResult, PublishTypeOK, ChannelsTypeOK
  <2>4. completed_batch' \subseteq PublishResult /\ publish_outcomes' \subseteq PublishResult
    BY <1>2, <2>3 DEF DeliverOk, DeliverFails, PublishTypeOK, ChannelsTypeOK
  <2>5. attempt.attempt_count < MAX_DELIVERY_ATTEMPTS =>
          [attempt EXCEPT !.attempt_count = @ + 1] \in PublishAttempt
    BY <2>1, PublishAssumption DEF PublishAttempt
  <2>6. in_flight' \subseteq PublishAttempt
    BY <1>2, <2>5 DEF DeliverOk, DeliverFails, PublishTypeOK
  <2>7. publish_queue' = publish_queue
    BY <1>2 DEF DeliverOk, DeliverFails
  <2> QED BY <2>2, <2>4, <2>6, <2>7 DEF PublishTypeOK, ChannelsTypeOK
<1> QED BY <1>1, <1>2 DEF PublishAccepted, PublishFailed

\* What the coordinator is started with are statuses.
LEMMA HydrationTypes ==
  ASSUME PublishTypeOK, NEW hydrated \in load_startup_hydration(kafka)
  PROVE  [k \in Keys |-> IF hydrated[k] = None THEN None
                         ELSE [status |-> hydrated[k], id |-> DEFAULT_HYDRATED_ID]]
           \in [Keys -> Entry \cup {None}]
<1>1. PICK acnet \in [Keys \ EpicsKeys -> AcnetStatuses \cup {None}] :
        hydrated = [k \in Keys |-> IF k \in EpicsKeys THEN reduce_snapshot(kafka)[k]
                                   ELSE acnet[k]]
  BY DEF load_startup_hydration, load_acnet_hydration
<1>2. \A k \in Keys : hydrated[k] \in Status \cup {None}
  BY <1>1, KeysAssumption, InputsAssumption DEF reduce_snapshot, PublishTypeOK
<1> QED BY <1>2 DEF Entry, DEFAULT_HYDRATED_ID

\* TypeOK holds initially.
LEMMA TypeInit == Init => TypeOK
<1> SUFFICES ASSUME Init PROVE TypeOK
  OBVIOUS
<1>1. ChannelsTypeOK
  BY DEF Init, ChannelsInit, ChannelsTypeOK
<1>2. WorkflowTypeOK
  BY DEF Init, WorkflowInit, WorkflowTypeOK
<1>3. SnoozeTypeOK
  BY MaxTimeAssumption DEF Init, SnoozeInit, SnoozeTypeOK
<1>4. PublishTypeOK
  BY DEF Init, PublishInit, PublishTypeOK
<1>5. PICK hydrated \in load_startup_hydration(kafka) : new(hydrated)
  BY DEF Init
<1>6. confirmed_state \in [Keys -> Entry \cup {None}]
  BY <1>4, <1>5, HydrationTypes DEF new
<1>7. CoordinatorTypeOK
  BY <1>5, <1>6 DEF new, CoordinatorTypeOK, INITIAL_PUBLISH_ID, DEFAULT_HYDRATED_ID
<1>8. restarts \in 0 .. MaxRestarts
  BY InputsAssumption DEF Init
<1> QED BY <1>1, <1>2, <1>3, <1>4, <1>7, <1>8 DEF TypeOK

\* A restart starts from well-typed state.
LEMMA RestartTypes ==
  ASSUME TypeOK, Restart
  PROVE  TypeOK'
<1>1. ChannelsTypeOK'
  <2>1. <<>> \in Seq(Job) /\ <<>> \in Seq(JobOutcome) /\ <<>> \in Seq(SnoozeOutcome)
    OBVIOUS
  <2> QED BY <2>1 DEF Restart, ChannelsTypeOK
<1>2. WorkflowTypeOK'
  BY DEF Restart, WorkflowTypeOK
<1>3. SnoozeTypeOK'
  BY DEF Restart, SnoozeTypeOK, TypeOK
<1>4. PublishTypeOK'
  BY DEF Restart, PublishTypeOK, TypeOK
<1>5. PICK hydrated \in load_startup_hydration(kafka) :
        confirmed_state' = [k \in Keys |->
          IF hydrated[k] = None THEN None
          ELSE [status |-> hydrated[k], id |-> DEFAULT_HYDRATED_ID]]
  BY DEF Restart
<1>6. confirmed_state' \in [Keys -> Entry \cup {None}]
  BY <1>5, HydrationTypes DEF TypeOK
<1>7. CoordinatorTypeOK'
  BY <1>6 DEF Restart, CoordinatorTypeOK, INITIAL_PUBLISH_ID, DEFAULT_HYDRATED_ID
<1>8. restarts' \in 0 .. MaxRestarts
  BY InputsAssumption DEF Restart, TypeOK
<1> QED BY <1>1, <1>2, <1>3, <1>4, <1>7, <1>8 DEF TypeOK

\* Every step keeps TypeOK.
LEMMA TypeStep == TypeOK /\ [Next]_vars => TypeOK'
<1> SUFFICES ASSUME TypeOK, [Next]_vars PROVE TypeOK'
  OBVIOUS
<1> USE DEF TypeOK
<1>1. CASE Inputs \/ reconcile_job_outcome \/ Send
  <2>1. UNCHANGED <<workflowVars, effectVars, restarts>>
    BY <1>1 DEF Inputs, reconcile_job_outcome, Send
  <2>2. Inputs => TakesUpdate
    BY StatusTypes, InputsAssumption DEF Inputs, TakesUpdate
  <2>3. TakesUpdate \/ TakesOutcome \/ SendJob \/ SendFails
    BY <1>1, <2>2 DEF reconcile_job_outcome, Send, TakesOutcome
  <2> QED BY <2>1, <2>3, CoordinatorTypes
          DEF workflowVars, effectVars, snoozeVars, publishVars, snoozeChannels,
              publishChannels, ChannelsTypeOK, WorkflowTypeOK, SnoozeTypeOK, PublishTypeOK
<1>2. CASE WorkflowStep \/ WorkflowEnds
  <2>1. UNCHANGED <<coordinatorVars, snoozeVars, publishVars, restarts>>
    BY <1>2 DEF WorkflowStep, WorkflowEnds
  <2> QED BY <1>2, <2>1, WorkflowTypes
          DEF coordinatorVars, snoozeVars, publishVars, CoordinatorTypeOK,
              SnoozeTypeOK, PublishTypeOK
<1>3. ASSUME NEW k \in Keys, SnoozeCommand(k) \/ SnoozeExpires(k) PROVE TypeOK'
  <2>1. UNCHANGED OutsideSnooze
    BY <1>3 DEF SnoozeCommand, SnoozeExpires
  <2> QED BY <1>3, <2>1, SnoozeTypes
          DEF OutsideSnooze, coordinatorVars, workflowVars, publishVars, jobChannels,
              publishChannels, ChannelsTypeOK, CoordinatorTypeOK, WorkflowTypeOK,
              PublishTypeOK
<1>4. ASSUME NEW k \in Keys,
             PublishReceived(k) \/ PublishAccepted(k) \/ PublishFailed(k) PROVE TypeOK'
  <2>1. UNCHANGED OutsidePublish
    BY <1>4 DEF PublishReceived, PublishAccepted, PublishFailed
  <2> QED BY <1>4, <2>1, PublishTypes
          DEF OutsidePublish, coordinatorVars, workflowVars, snoozeVars, jobChannels,
              snoozeChannels, ChannelsTypeOK, CoordinatorTypeOK, WorkflowTypeOK,
              SnoozeTypeOK
<1>5. CASE Flush
  BY <1>5 DEF Flush, flush_completed_batch, OutsidePublish, coordinatorVars,
              workflowVars, snoozeVars, jobChannels, snoozeChannels, ChannelsTypeOK,
              CoordinatorTypeOK, WorkflowTypeOK, SnoozeTypeOK, PublishTypeOK
<1>6. CASE Clock
  <2>1. now' \in 0 .. MaxTime
    BY <1>6, MaxTimeAssumption DEF Clock, Tick, SnoozeTypeOK
  <2> QED BY <1>6, <2>1
          DEF Clock, Tick, OutsideSnooze, coordinatorVars, workflowVars, publishVars,
              jobChannels, publishChannels, snoozeChannels, ChannelsTypeOK,
              CoordinatorTypeOK, WorkflowTypeOK, SnoozeTypeOK, PublishTypeOK
<1>7. CASE Restart
  BY <1>7, RestartTypes
<1>8. CASE UNCHANGED vars
  BY <1>8 DEF vars, coordinatorVars, workflowVars, snoozeVars, publishVars, jobChannels,
              publishChannels, snoozeChannels, ChannelsTypeOK, CoordinatorTypeOK,
              WorkflowTypeOK, SnoozeTypeOK, PublishTypeOK
<1> QED BY <1>1, <1>2, <1>3, <1>4, <1>5, <1>6, <1>7, <1>8 DEF Next

\* In every behaviour every variable and every message in flight keeps its type,
\* for any number of keys, inputs, failures and restarts.
THEOREM TypeCorrect == Spec => []TypeOK
<1>1. Init => TypeOK
  BY TypeInit
<1>2. TypeOK /\ [Next]_vars => TypeOK'
  BY TypeStep
<1> QED BY <1>1, <1>2, PTL DEF Spec

-----------------------------------------------------------------------------
(* One job per key *)

\* Every job is filed under its own key, in the handler's map and in outcomes.
TrackedKeys == \A k \in Keys : jobs[k] # None => jobs[k].job.key = k

\* What holds of each key, and is kept by every step.
KeyInv(k) ==
  /\ OneJob(k)
  /\ InFlight(k) => speculative_state[k] # None
  /\ running /\ workflow_up /\ speculative_state[k] # None => InFlight(k)

\* The inductive invariant behind OneJobPerKey and IntentHasJob.
JobInv == TrackedKeys /\ OutcomeKeys /\ \A k \in Keys : KeyInv(k)

\* No job is in flight when the coordinator starts.
LEMMA JobInit == Init => JobInv
<1> SUFFICES ASSUME Init PROVE JobInv
  OBVIOUS
<1>1. /\ job_queue = <<>> /\ job_outcomes = <<>> /\ sending = None
      /\ jobs = [k \in Keys |-> None] /\ speculative_state = [k \in Keys |-> None]
  BY DEF Init, ChannelsInit, WorkflowInit, new
<1>2. DOMAIN job_queue = {} /\ DOMAIN job_outcomes = {}
  BY <1>1
<1> QED BY <1>1, <1>2 DEF JobInv, TrackedKeys, OutcomeKeys, KeyInv, OneJob, InFlight,
                          InSending, InQueue, InWorkflow, InOutcomes, OnceInQueue,
                          OnceInOutcomes

\* New intent is sent only when its key has no job in flight.
LEMMA IntentKeeps ==
  ASSUME TypeOK, JobInv, sending = None, running,
         NEW k \in Keys, NEW status \in Status, NEW pending,
         RecordIntent(k, status, pending),
         UNCHANGED <<workflowVars, job_queue>>,
         NEW x \in Keys,
         InOutcomes(x)' <=> InOutcomes(x), OnceInOutcomes(x)'
  PROVE  KeyInv(x)'
<1> DEFINE entry == [status |-> status, id |-> id_counter]
           spec == [speculative_state EXCEPT ![k] = entry]
<1>1. KeyInv(x)
  BY DEF JobInv
<1>2. entry \in Entry /\ entry # None
  BY NoneIsNoRecord DEF TypeOK, CoordinatorTypeOK, Entry
<1>3. spec \in [Keys -> Entry \cup {None}] /\ spec[k] # None
  BY <1>2 DEF TypeOK, CoordinatorTypeOK
<1>4. /\ speculative_state' = spec /\ running' = running
      /\ sending' = IF speculative_state[k] = None
                       THEN send_next_for(k, spec, pending) ELSE None
  BY DEF RecordIntent
<1>5. /\ InQueue(x)' <=> InQueue(x)
      /\ OnceInQueue(x)' <=> OnceInQueue(x)
      /\ InWorkflow(x)' <=> InWorkflow(x)
      /\ workflow_up' = workflow_up
  BY DEF InQueue, OnceInQueue, InWorkflow, workflowVars
<1>6. ~InSending(x)
  BY DEF InSending
<1> HIDE DEF entry, spec
<1>7. send_next_for(k, spec, pending) # None /\ send_next_for(k, spec, pending).key = k
  BY <1>3, SendNextFacts
<1>8. InSending(x)' <=> x = k /\ speculative_state[k] = None
  BY <1>4, <1>7 DEF InSending
<1>9. /\ x = k => speculative_state'[x] # None
      /\ x # k => speculative_state'[x] = speculative_state[x]
  BY <1>3, <1>4 DEF spec, TypeOK, CoordinatorTypeOK
<1> QED BY <1>1, <1>4, <1>5, <1>6, <1>8, <1>9 DEF KeyInv, OneJob, InFlight

\* Every turn of the coordinator keeps the job invariant.
LEMMA CoordinatorKeeps ==
  ASSUME TypeOK, JobInv, Inputs \/ reconcile_job_outcome \/ Send
  PROVE  JobInv'
<1>1. UNCHANGED workflowVars /\ jobs' = jobs /\ workflow_up' = workflow_up
  BY DEF Inputs, reconcile_job_outcome, Send, workflowVars
<1>2. TrackedKeys'
  BY <1>1 DEF JobInv, TrackedKeys
<1>3. CASE Inputs
  <2>1. UNCHANGED <<job_queue, job_outcomes>> /\ sending = None /\ running
    BY <1>3 DEF Inputs, handle_user_update, handle_automated_update, jobChannels,
                TakesInput, Listening
  <2>2. OutcomeKeys'
    BY <2>1 DEF JobInv, OutcomeKeys
  <2>3. PICK k \in Keys, status \in Status, pending \in SUBSET Nat :
          RecordIntent(k, status, pending)
    <3>1. CASE \E k \in Keys, action \in UserAction : handle_user_update(k, action)
      <4>1. PICK k \in Keys, action \in UserAction : handle_user_update(k, action)
        BY <3>1
      <4>2. pending_confirmations \cup {id_counter} \in SUBSET Nat
        BY DEF TypeOK, CoordinatorTypeOK
      <4> QED BY <4>1, <4>2, StatusTypes DEF handle_user_update
    <3>2. CASE \E k \in Keys, field \in RedisInputs :
                 handle_automated_update(k, build_status_from_redis(field))
      <4>1. PICK k \in Keys, field \in RedisInputs :
              handle_automated_update(k, build_status_from_redis(field))
        BY <3>2
      <4>2. pending_confirmations \in SUBSET Nat /\ field \in RedisSeverity
        BY InputsAssumption DEF TypeOK, CoordinatorTypeOK
      <4> QED BY <4>1, <4>2, StatusTypes DEF handle_automated_update
    <3> QED BY <1>3, <3>1, <3>2 DEF Inputs
  <2>4. ASSUME NEW x \in Keys PROVE KeyInv(x)'
    <3>1. (InOutcomes(x)' <=> InOutcomes(x)) /\ OnceInOutcomes(x)'
      BY <2>1 DEF InOutcomes, OnceInOutcomes, JobInv, KeyInv, OneJob
    <3> QED BY <1>1, <2>1, <2>3, <3>1, IntentKeeps
  <2> QED BY <1>2, <2>2, <2>4 DEF JobInv
<1>4. CASE reconcile_job_outcome
  <2> DEFINE head == Head(job_outcomes)
             job == head.job
  <2>1. /\ job_outcomes # <<>> /\ job_outcomes' = Tail(job_outcomes)
        /\ job_queue' = job_queue /\ sending = None /\ running
    BY <1>4 DEF reconcile_job_outcome, reconcile_success, reconcile_failure,
                dispatch_automated_wake, Listening
  <2>2. job_outcomes \in Seq(JobOutcome) /\ head \in JobOutcome
    <3>1. job_outcomes \in Seq(JobOutcome)
      BY DEF TypeOK, ChannelsTypeOK
    <3> QED BY <2>1, <3>1, TailFacts
  <2>3. PICK k \in Keys : k = head.key
    BY <2>2 DEF JobOutcome
  <2>4. OutcomeKeys' /\ (head.kind # "Wake" => job.key = k)
    BY <2>1, <2>2, <2>3, OutcomeKeysTail DEF JobInv
  <2>5. ASSUME NEW x \in Keys
        PROVE  /\ OnceInOutcomes(x)'
               /\ head.kind = "Wake" \/ x # k => (InOutcomes(x)' <=> InOutcomes(x))
               /\ head.kind # "Wake" => InOutcomes(k) /\ ~InOutcomes(k)'
               /\ InQueue(x)' <=> InQueue(x)
               /\ OnceInQueue(x)' <=> OnceInQueue(x)
               /\ InWorkflow(x)' <=> InWorkflow(x)
               /\ ~InSending(x)
    <3>1. OnceInOutcomes(x) /\ OnceInOutcomes(k)
      BY <2>3 DEF JobInv, KeyInv, OneJob
    <3>2. /\ OnceInOutcomes(x)'
          /\ head.kind = "Wake" \/ x # k => (InOutcomes(x)' <=> InOutcomes(x))
      BY <2>1, <2>2, <2>3, <3>1, OutcomesTail
    <3>3. head.kind # "Wake" => InOutcomes(k) /\ ~InOutcomes(k)'
      BY <2>1, <2>2, <2>3, <3>1, OutcomesTail
    <3> QED BY <1>1, <2>1, <3>2, <3>3 DEF InQueue, OnceInQueue, InWorkflow, InSending
  <2>6. head.kind # "Wake" => speculative_state[k] # None
    BY <2>1, <2>3, <2>5 DEF JobInv, KeyInv, InFlight
  <2> SUFFICES ASSUME NEW x \in Keys PROVE KeyInv(x)'
    BY <1>2, <2>4 DEF JobInv
  <2>7. KeyInv(x) /\ KeyInv(k)
    BY <2>3 DEF JobInv
  <2>8. CASE reconcile_success
    <3> DEFINE pending == pending_confirmations \ {job.id}
    <3>1. head.kind # "Wake" /\ job.key = k /\ running' = running
      BY <2>4, <2>8 DEF reconcile_success
    <3>2. CASE IsSuperseded(job)
      <4>1. speculative_state' = speculative_state
            /\ sending' = send_next_for(k, speculative_state, pending)
        BY <2>8, <3>1, <3>2 DEF reconcile_success
      <4>2. sending' # None /\ sending'.key = k
        BY <2>3, <2>6, <3>1, <4>1, SendNextFacts DEF TypeOK, CoordinatorTypeOK
      <4>3. InSending(x)' <=> x = k
        BY <4>2 DEF InSending
      <4> QED BY <1>1, <2>5, <2>6, <2>7, <3>1, <4>1, <4>3 DEF KeyInv, OneJob, InFlight
    <3>3. CASE ~IsSuperseded(job)
      <4>1. speculative_state' = [speculative_state EXCEPT ![k] = None] /\ sending' = None
        BY <2>1, <2>8, <3>1, <3>3 DEF reconcile_success
      <4>2. /\ x = k => speculative_state'[x] = None
            /\ x # k => speculative_state'[x] = speculative_state[x]
        BY <4>1 DEF TypeOK, CoordinatorTypeOK
      <4>3. ~InSending(x)'
        BY <4>1 DEF InSending
      <4> QED BY <1>1, <2>5, <2>7, <3>1, <4>2, <4>3 DEF KeyInv, OneJob, InFlight
    <3> QED BY <3>2, <3>3
  <2>9. CASE reconcile_failure
    <3> DEFINE pending == pending_confirmations \ {job.id}
               spec == IF ~IsSuperseded(job) /\ job.user_initiated
                         THEN [speculative_state EXCEPT ![k] = converge_to_last_confirmed(k)]
                         ELSE speculative_state
    <3>1. head.kind # "Wake" /\ job.key = k
      BY <2>4, <2>9 DEF reconcile_failure
    <3>2. /\ speculative_state' = spec /\ running' = running
          /\ sending' = send_next_for(k, spec, pending)
      BY <2>6, <2>9, <3>1 DEF reconcile_failure
    <3>3. converge_to_last_confirmed(k) \in Entry
      BY <2>3, StatusTypes DEF converge_to_last_confirmed, TypeOK, CoordinatorTypeOK,
                               Entry, DEFAULT_HYDRATED_ID
    <3>4. converge_to_last_confirmed(k) # None
      BY <3>3, NoneIsNoRecord
    <3>5. /\ spec \in [Keys -> Entry \cup {None}] /\ spec[k] # None
          /\ x # k => spec[x] = speculative_state[x]
      BY <2>3, <2>6, <3>1, <3>3, <3>4 DEF TypeOK, CoordinatorTypeOK
    <3> HIDE DEF spec
    <3>6. sending' # None /\ sending'.key = k
      BY <2>3, <3>2, <3>5, SendNextFacts
    <3>7. InSending(x)' <=> x = k
      BY <3>6 DEF InSending
    <3> QED BY <1>1, <2>5, <2>7, <3>1, <3>2, <3>5, <3>7 DEF KeyInv, OneJob, InFlight
  <2>10. CASE dispatch_automated_wake
    <3>1. head.kind = "Wake"
      BY <2>10 DEF dispatch_automated_wake
    <3>2. CASE RecordIntent(k, WakeStatus, pending_confirmations)
      <4>1. (InOutcomes(x)' <=> InOutcomes(x)) /\ OnceInOutcomes(x)'
        BY <2>5, <3>1
      <4> QED BY <1>1, <2>1, <3>2, <4>1, StatusTypes, IntentKeeps
    <3>3. CASE UNCHANGED coordinatorVars
      <4>1. /\ speculative_state' = speculative_state /\ running' = running
            /\ sending' = sending
        BY <3>3 DEF coordinatorVars
      <4>2. ~InSending(x)'
        BY <2>1, <4>1 DEF InSending
      <4> QED BY <1>1, <2>5, <2>7, <3>1, <4>1, <4>2 DEF KeyInv, OneJob, InFlight
    <3> QED BY <2>3, <2>10, <3>2, <3>3 DEF dispatch_automated_wake
  <2> QED BY <1>4, <2>8, <2>9, <2>10 DEF reconcile_job_outcome
<1>5. CASE Send
  <2>1. job_outcomes' = job_outcomes
    BY <1>5 DEF Send, SendJob, SendFails, jobChannels
  <2>2. OutcomeKeys'
    BY <2>1 DEF JobInv, OutcomeKeys
  <2> SUFFICES ASSUME NEW x \in Keys PROVE KeyInv(x)'
    BY <1>2, <2>2 DEF JobInv
  <2>3. /\ KeyInv(x)
        /\ InOutcomes(x)' <=> InOutcomes(x)
        /\ OnceInOutcomes(x)' <=> OnceInOutcomes(x)
        /\ InWorkflow(x)' <=> InWorkflow(x)
    BY <1>1, <2>1 DEF JobInv, InOutcomes, OnceInOutcomes, InWorkflow
  <2>4. CASE SendJob
    <3>1. /\ sending \in Job /\ sending # None /\ sending' = None
          /\ job_queue' = Append(job_queue, sending)
          /\ speculative_state' = speculative_state /\ running' = running
      BY <2>4 DEF SendJob, TypeOK, CoordinatorTypeOK
    <3>2. (InSending(x) <=> sending.key = x) /\ ~InSending(x)'
      BY <3>1 DEF InSending
    <3>3. job_queue \in Seq(Job)
      BY DEF TypeOK, ChannelsTypeOK
    <3>4. /\ InQueue(x)' <=> InQueue(x) \/ sending.key = x
          /\ OnceInQueue(x) /\ (sending.key = x => ~InQueue(x)) => OnceInQueue(x)'
      BY <3>1, <3>3, QueueAppend
    <3> QED BY <1>1, <2>3, <3>1, <3>2, <3>4 DEF KeyInv, OneJob, InFlight
  <2>5. CASE SendFails
    <3>1. /\ running' = FALSE /\ sending' = None /\ job_queue' = job_queue
          /\ speculative_state' = speculative_state
      BY <2>5 DEF SendFails, fail_all_confirmations, jobChannels
    <3>2. /\ ~InSending(x)'
          /\ InQueue(x)' <=> InQueue(x)
          /\ OnceInQueue(x)' <=> OnceInQueue(x)
      BY <3>1 DEF InSending, InQueue, OnceInQueue
    <3> QED BY <2>3, <3>1, <3>2 DEF KeyInv, OneJob, InFlight
  <2> QED BY <1>5, <2>4, <2>5 DEF Send
<1> QED BY <1>3, <1>4, <1>5

\* A turn of the handler that gives a job back keeps the job invariant.
LEMMA FinishKeeps ==
  ASSUME TypeOK, JobInv, NEW k \in Keys, jobs[k] # None,
         NEW o \in {Failed(jobs[k].job), Committed(jobs[k].job)},
         jobs' = [jobs EXCEPT ![k] = None],
         job_outcomes' = Append(job_outcomes, o),
         UNCHANGED <<coordinatorVars, workflow_up, job_queue>>
  PROVE  JobInv'
<1>1. jobs[k] \in TrackedJob /\ jobs[k].job \in Job /\ jobs[k].job.key = k
  BY DEF TypeOK, WorkflowTypeOK, TrackedJob, JobInv, TrackedKeys
<1>2. o \in JobOutcome /\ o.kind # "Wake" /\ o.key = k /\ o.job.key = k
  <2>1. o \in JobOutcome
    BY <1>1, OutcomeTypes
  <2>2. o.kind # "Wake" /\ o.key = k /\ o.job.key = k
    BY <1>1 DEF Failed, Committed
  <2> QED BY <2>1, <2>2
<1>3. job_outcomes \in Seq(JobOutcome)
  BY DEF TypeOK, ChannelsTypeOK
<1>4. OutcomeKeys'
  BY <1>2, <1>3, OutcomeKeysAppend DEF JobInv
<1>5. TrackedKeys'
  BY DEF JobInv, TrackedKeys, TypeOK, WorkflowTypeOK
<1>6. ASSUME NEW x \in Keys PROVE KeyInv(x)'
  <2>1. KeyInv(x)
    BY DEF JobInv
  <2>2. /\ InOutcomes(x)' <=> InOutcomes(x) \/ x = k
        /\ OnceInOutcomes(x) /\ (x = k => ~InOutcomes(x)) => OnceInOutcomes(x)'
    BY <1>2, <1>3, OutcomesAppend
  <2>3. /\ InWorkflow(x)' <=> InWorkflow(x) /\ x # k
        /\ InWorkflow(k)
    BY DEF InWorkflow, TypeOK, WorkflowTypeOK
  <2>4. /\ InSending(x)' <=> InSending(x)
        /\ InQueue(x)' <=> InQueue(x)
        /\ OnceInQueue(x)' <=> OnceInQueue(x)
        /\ speculative_state' = speculative_state
        /\ running' = running /\ workflow_up' = workflow_up
    BY DEF InSending, InQueue, OnceInQueue, coordinatorVars
  <2> QED BY <2>1, <2>2, <2>3, <2>4 DEF KeyInv, OneJob, InFlight
<1> QED BY <1>4, <1>5, <1>6 DEF JobInv

\* A turn that moves a tracked job on, without touching outcomes, keeps it too.
LEMMA AdvanceKeeps ==
  ASSUME TypeOK, JobInv, NEW k \in Keys, jobs[k] # None,
         advance_workflow(k, jobs[k]),
         UNCHANGED <<coordinatorVars, workflow_up, job_queue>>
  PROVE  JobInv'
<1>1. jobs[k] \in TrackedJob
  BY DEF TypeOK, WorkflowTypeOK
<1>2. CASE ~(jobs[k].step < Len(WORKFLOW_ORDER))
  BY <1>2, FinishKeeps DEF advance_workflow, send_failed
<1>3. CASE jobs[k].step < Len(WORKFLOW_ORDER)
  <2> DEFINE moved == [job |-> jobs[k].job, step |-> jobs[k].step + 1]
  <2>1. jobs' = [jobs EXCEPT ![k] = moved] /\ job_outcomes' = job_outcomes
    BY <1>3 DEF advance_workflow
  <2>2. moved \in [job : Job, step : Nat] /\ moved.job = jobs[k].job
    BY <1>1 DEF TrackedJob
  <2>3. moved # None
    BY <2>2, NoneIsNoRecord
  <2>4. /\ jobs'[k] = moved
        /\ \A x \in Keys : x # k => jobs'[x] = jobs[x]
    BY <2>1 DEF TypeOK, WorkflowTypeOK
  <2> HIDE DEF moved
  <2>5. TrackedKeys'
    BY <2>2, <2>4 DEF JobInv, TrackedKeys
  <2>6. OutcomeKeys'
    BY <2>1 DEF JobInv, OutcomeKeys
  <2>7. ASSUME NEW x \in Keys PROVE KeyInv(x)'
    <3>1. KeyInv(x)
      BY DEF JobInv
    <3>2. InWorkflow(x)' <=> InWorkflow(x)
      BY <2>3, <2>4 DEF InWorkflow
    <3>3. /\ InSending(x)' <=> InSending(x)
          /\ InQueue(x)' <=> InQueue(x)
          /\ OnceInQueue(x)' <=> OnceInQueue(x)
          /\ InOutcomes(x)' <=> InOutcomes(x)
          /\ OnceInOutcomes(x)' <=> OnceInOutcomes(x)
          /\ speculative_state' = speculative_state
          /\ running' = running /\ workflow_up' = workflow_up
      BY <2>1 DEF InSending, InQueue, OnceInQueue, InOutcomes, OnceInOutcomes,
                  coordinatorVars
    <3> QED BY <3>1, <3>2, <3>3 DEF KeyInv, OneJob, InFlight
  <2> QED BY <2>5, <2>6, <2>7 DEF JobInv
<1> QED BY <1>2, <1>3

\* Taking a job off the queue starts the only job of its key.
LEMMA StartKeeps ==
  ASSUME TypeOK, JobInv, handle_new_job, UNCHANGED coordinatorVars
  PROVE  JobInv'
<1> DEFINE job == Head(job_queue)
           started == [job |-> job, step |-> 1]
<1>1. job_queue # <<>> /\ job_queue \in Seq(Job) /\ job_queue' = Tail(job_queue)
  BY DEF handle_new_job, TypeOK, ChannelsTypeOK
<1>2. job \in Job
  BY <1>1, TailFacts
<1>3. PICK k \in Keys : k = job.key
  BY <1>2 DEF Job
<1>4. /\ jobs' = [jobs EXCEPT ![k] = started] /\ job_outcomes' = job_outcomes
      /\ workflow_up' = workflow_up
  BY <1>3 DEF handle_new_job, advance_workflow, WORKFLOW_ORDER
<1>5. started \in [job : Job, step : Nat] /\ started.job.key = k
  BY <1>2, <1>3
<1>6. started # None
  BY <1>5, NoneIsNoRecord
<1>7. /\ jobs'[k] = started
      /\ \A x \in Keys : x # k => jobs'[x] = jobs[x]
  BY <1>4 DEF TypeOK, WorkflowTypeOK
<1> HIDE DEF started
<1>8. TrackedKeys'
  BY <1>5, <1>7 DEF JobInv, TrackedKeys
<1>9. OutcomeKeys'
  BY <1>4 DEF JobInv, OutcomeKeys
<1>10. ASSUME NEW x \in Keys PROVE KeyInv(x)'
  <2>1. KeyInv(x) /\ OnceInQueue(x)
    BY DEF JobInv, KeyInv, OneJob
  <2>2. InWorkflow(x)' <=> InWorkflow(x) \/ x = k
    BY <1>6, <1>7 DEF InWorkflow
  <2>3. /\ x = k => InQueue(x) /\ ~InQueue(x)'
        /\ x # k => (InQueue(x)' <=> InQueue(x))
        /\ OnceInQueue(x)'
    BY <1>1, <1>3, <2>1, QueueTail
  <2>4. /\ InSending(x)' <=> InSending(x)
        /\ InOutcomes(x)' <=> InOutcomes(x)
        /\ OnceInOutcomes(x)' <=> OnceInOutcomes(x)
        /\ speculative_state' = speculative_state /\ running' = running
    BY <1>4 DEF InSending, InOutcomes, OnceInOutcomes, coordinatorVars
  <2> QED BY <1>4, <2>1, <2>2, <2>3, <2>4 DEF KeyInv, OneJob, InFlight
<1> QED BY <1>8, <1>9, <1>10 DEF JobInv

\* Every turn of the workflow handler, and its end, keeps the job invariant.
LEMMA WorkflowKeeps ==
  ASSUME TypeOK, JobInv, WorkflowStep \/ WorkflowEnds
  PROVE  JobInv'
<1>1. UNCHANGED coordinatorVars
  BY DEF WorkflowStep, WorkflowEnds
<1>2. CASE handle_new_job
  BY <1>1, <1>2, StartKeeps
<1>3. CASE handle_snooze_result
  <2> DEFINE result == Head(snooze_outcomes)
  <2>1. UNCHANGED <<coordinatorVars, workflow_up, job_queue>>
    BY <1>1, <1>3 DEF handle_snooze_result
  <2>2. snooze_outcomes # <<>> /\ snooze_outcomes \in Seq(SnoozeOutcome)
    BY <1>3 DEF handle_snooze_result, TypeOK, ChannelsTypeOK
  <2>3. result \in SnoozeOutcome
    BY <2>2, TailFacts
  <2>4. PICK k \in Keys : k = result.key
    BY <2>3 DEF SnoozeOutcome
  <2>5. CASE jobs[k] # None /\ advance_workflow(k, jobs[k])
    BY <2>1, <2>5, AdvanceKeeps
  <2>6. CASE jobs[k] # None /\ send_failed(k)
    BY <2>1, <2>6, FinishKeeps DEF send_failed
  <2>7. CASE job_outcomes' = Append(job_outcomes, Wake(k)) /\ jobs' = jobs
    <3>1. Wake(k) \in JobOutcome /\ Wake(k).kind = "Wake"
      <4>1. Wake(k) \in JobOutcome
        BY OutcomeTypes
      <4> QED BY <4>1 DEF Wake
    <3>2. job_outcomes \in Seq(JobOutcome)
      BY DEF TypeOK, ChannelsTypeOK
    <3>3. OutcomeKeys'
      BY <2>7, <3>1, <3>2, OutcomeKeysAppend DEF JobInv
    <3>4. TrackedKeys'
      BY <2>7 DEF JobInv, TrackedKeys
    <3>5. ASSUME NEW x \in Keys PROVE KeyInv(x)'
      <4>1. KeyInv(x) /\ OnceInOutcomes(x)
        BY DEF JobInv, KeyInv, OneJob
      <4>2. (InOutcomes(x)' <=> InOutcomes(x)) /\ OnceInOutcomes(x)'
        BY <2>7, <3>1, <3>2, <4>1, OutcomesAppend
      <4>3. /\ InSending(x)' <=> InSending(x)
            /\ InQueue(x)' <=> InQueue(x)
            /\ OnceInQueue(x)' <=> OnceInQueue(x)
            /\ InWorkflow(x)' <=> InWorkflow(x)
            /\ speculative_state' = speculative_state
            /\ running' = running /\ workflow_up' = workflow_up
        BY <2>1, <2>7 DEF InSending, InQueue, OnceInQueue, InWorkflow, coordinatorVars
      <4> QED BY <4>1, <4>2, <4>3 DEF KeyInv, OneJob, InFlight
    <3> QED BY <3>3, <3>4, <3>5 DEF JobInv
  <2> QED BY <1>3, <2>4, <2>5, <2>6, <2>7 DEF handle_snooze_result
<1>4. ASSUME NEW result \in publish_outcomes, dispatch_publish_result(result)
      PROVE  JobInv'
  <2>1. PICK k \in Keys : k = result.key
    BY DEF TypeOK, ChannelsTypeOK, PublishResult
  <2>2. /\ jobs[k] # None /\ jobs' = [jobs EXCEPT ![k] = None]
        /\ UNCHANGED <<workflow_up, job_queue>>
        /\ \E o \in {Failed(jobs[k].job), Committed(jobs[k].job)} :
             job_outcomes' = Append(job_outcomes, o)
    BY <1>4, <2>1 DEF dispatch_publish_result, send_failed
  <2> QED BY <1>1, <2>2, FinishKeeps
<1>5. CASE WorkflowEnds
  <2>1. /\ workflow_up' = FALSE /\ job_queue' = <<>>
        /\ jobs' = jobs /\ job_outcomes' = job_outcomes
    BY <1>5 DEF WorkflowEnds, WorkflowStops
  <2>2. DOMAIN job_queue' = {}
    BY <2>1
  <2>3. TrackedKeys' /\ OutcomeKeys'
    BY <2>1 DEF JobInv, TrackedKeys, OutcomeKeys
  <2>4. ASSUME NEW x \in Keys PROVE KeyInv(x)'
    <3>1. KeyInv(x)
      BY DEF JobInv
    <3>2. ~InQueue(x)' /\ OnceInQueue(x)'
      BY <2>2 DEF InQueue, OnceInQueue
    <3>3. /\ InSending(x)' <=> InSending(x)
          /\ InWorkflow(x)' <=> InWorkflow(x)
          /\ InOutcomes(x)' <=> InOutcomes(x)
          /\ OnceInOutcomes(x)' <=> OnceInOutcomes(x)
          /\ speculative_state' = speculative_state /\ running' = running
      BY <1>1, <2>1 DEF InSending, InWorkflow, InOutcomes, OnceInOutcomes, coordinatorVars
    <3> QED BY <2>1, <3>1, <3>2, <3>3 DEF KeyInv, OneJob, InFlight
  <2> QED BY <2>3, <2>4 DEF JobInv
<1> QED BY <1>2, <1>3, <1>4, <1>5 DEF WorkflowStep

\* A step that leaves the coordinator, the handler and the job channels alone
\* keeps the job invariant.
LEMMA OutsideKeeps ==
  ASSUME JobInv, UNCHANGED <<coordinatorVars, workflowVars, jobChannels>>
  PROVE  JobInv'
BY DEF JobInv, TrackedKeys, OutcomeKeys, KeyInv, OneJob, InFlight, InSending, InQueue,
       InWorkflow, InOutcomes, OnceInQueue, OnceInOutcomes, coordinatorVars,
       workflowVars, jobChannels

\* Every step of the service keeps the job invariant.
LEMMA JobStep == TypeOK /\ JobInv /\ [Next]_vars => JobInv'
<1> SUFFICES ASSUME TypeOK, JobInv, [Next]_vars PROVE JobInv'
  OBVIOUS
<1>1. CASE Inputs \/ reconcile_job_outcome \/ Send
  BY <1>1, CoordinatorKeeps
<1>2. CASE WorkflowStep \/ WorkflowEnds
  BY <1>2, WorkflowKeeps
<1>3. CASE UNCHANGED <<coordinatorVars, workflowVars, jobChannels>>
  BY <1>3, OutsideKeeps
<1>4. ASSUME NEW k \in Keys, SnoozeCommand(k) \/ SnoozeExpires(k)
      PROVE  JobInv'
  BY <1>3, <1>4 DEF SnoozeCommand, SnoozeExpires, OutsideSnooze
<1>5. ASSUME NEW k \in Keys, PublishReceived(k) \/ PublishAccepted(k) \/ PublishFailed(k)
      PROVE  JobInv'
  BY <1>3, <1>5 DEF PublishReceived, PublishAccepted, PublishFailed, OutsidePublish
<1>6. CASE Flush \/ Clock
  BY <1>3, <1>6 DEF Flush, Clock, OutsidePublish, OutsideSnooze
<1>7. CASE UNCHANGED vars
  BY <1>3, <1>7 DEF vars
<1>8. CASE Restart
  <2>1. /\ job_queue' = <<>> /\ job_outcomes' = <<>> /\ sending' = None
        /\ jobs' = [k \in Keys |-> None] /\ speculative_state' = [k \in Keys |-> None]
    BY <1>8 DEF Restart
  <2>2. DOMAIN job_queue' = {} /\ DOMAIN job_outcomes' = {}
    BY <2>1
  <2> QED BY <2>1, <2>2 DEF JobInv, TrackedKeys, OutcomeKeys, KeyInv, OneJob, InFlight,
                            InSending, InQueue, InWorkflow, InOutcomes, OnceInQueue,
                            OnceInOutcomes
<1> QED BY <1>1, <1>2, <1>4, <1>5, <1>6, <1>7, <1>8 DEF Next

\* Whatever the interleaving, the failures and the restarts: no key ever has two
\* jobs in flight, and none that the coordinator has forgotten.
THEOREM OneJobPerKeyAlways == Spec => []OneJobPerKey
<1>1. JobInv => OneJobPerKey
  BY DEF JobInv, KeyInv, OneJobPerKey
<1> QED BY <1>1, TypeCorrect, JobInit, JobStep, PTL DEF Spec

\* While coordinator and handler live, a key that has intent has a job in flight:
\* no interleaving strands a key whose later inputs would then never be sent.
THEOREM IntentHasJobAlways == Spec => []IntentHasJob
<1>1. JobInv => IntentHasJob
  BY DEF JobInv, KeyInv, IntentHasJob
<1> QED BY <1>1, TypeCorrect, JobInit, JobStep, PTL DEF Spec

-----------------------------------------------------------------------------
(* The effect a key's job is waiting for *)

AtMostOne(S) == \A x, y \in S : x = y

\* The messages of key k, by the channel or the task that has them.
Commands(k) == { input \in snooze_inputs : input.key = k }
Answers(k)  == { outcome \in SnoozeOutcome : outcome.kind # "Expired" /\ outcome.key = k }
Requests(k) == { request \in publish_queue : request.key = k }
Attempts(k) == { attempt \in in_flight : attempt.request.key = k }
Batched(k)  == { result \in completed_batch : result.key = k }
Reported(k) == { result \in publish_outcomes : result.key = k }

\* A command or an answer, and not both, belongs to a job at its first step.
SnoozeInv(k) ==
  /\ \A input \in Commands(k) :
       /\ jobs[k] # None /\ jobs[k].step = 1
       /\ input.wake = jobs[k].job.status.wake
       /\ ~Holds(snooze_outcomes, Answers(k))
  /\ Holds(snooze_outcomes, Answers(k)) => jobs[k] # None /\ jobs[k].step = 1
  /\ AtMostOne(Commands(k))
  /\ HoldsOne(snooze_outcomes, Answers(k))

\* A request, an attempt or a result, and no two of them, belongs to a job at
\* its second step, and a good result means that the topic has its status.
PublishInv(k) ==
  /\ \A request \in Requests(k) :
       /\ jobs[k] # None /\ jobs[k].step = 2
       /\ request.status = jobs[k].job.status
       /\ Attempts(k) = {} /\ Batched(k) = {} /\ Reported(k) = {}
  /\ \A attempt \in Attempts(k) :
       /\ jobs[k] # None /\ jobs[k].step = 2
       /\ attempt.request.status = jobs[k].job.status
       /\ Batched(k) = {} /\ Reported(k) = {}
  /\ Batched(k) # {} => Reported(k) = {}
  /\ \A result \in Batched(k) \cup Reported(k) :
       /\ jobs[k] # None /\ jobs[k].step = 2
       /\ result.ok => kafka[k] = jobs[k].job.status
  /\ AtMostOne(Requests(k)) /\ AtMostOne(Attempts(k))
  /\ AtMostOne(Batched(k)) /\ AtMostOne(Reported(k))

\* The topic has the status of every job that is reported as committed.
Acknowledged ==
  \A i \in DOMAIN job_outcomes :
    job_outcomes[i].kind = "Committed" =>
      kafka[job_outcomes[i].key] = job_outcomes[i].job.status

\* The inductive invariant behind EffectHasJob.
EffectInv == Acknowledged /\ \A k \in Keys : SnoozeInv(k) /\ PublishInv(k)

\* The job at the head of the queue is in the queue.
LEMMA QueueHead ==
  ASSUME job_queue \in Seq(Job), job_queue # <<>>
  PROVE  InQueue(Head(job_queue).key)
<1>1. 1 \in DOMAIN job_queue /\ job_queue[1] = Head(job_queue)
  BY TailFacts
<1> QED BY <1>1 DEF InQueue

\* A step that moves no snooze message of x and leaves its job alone keeps
\* the first half of the invariant.
LEMMA SnoozeFrame ==
  ASSUME NEW x, SnoozeInv(x), jobs'[x] = jobs[x], Commands(x)' = Commands(x),
         Holds(snooze_outcomes, Answers(x))' <=> Holds(snooze_outcomes, Answers(x)),
         HoldsOne(snooze_outcomes, Answers(x))'
  PROVE  SnoozeInv(x)'
BY DEF SnoozeInv, AtMostOne

\* A step that moves no publish message of x, and leaves its job and its record
\* alone, keeps the second half.
LEMMA PublishFrame ==
  ASSUME NEW x, PublishInv(x), jobs'[x] = jobs[x], kafka'[x] = kafka[x],
         Requests(x)' = Requests(x), Attempts(x)' = Attempts(x),
         Batched(x)' = Batched(x), Reported(x)' = Reported(x)
  PROVE  PublishInv(x)'
BY DEF PublishInv, AtMostOne

\* A job that is not at its first step has no snooze message, one that is not
\* at its second no publish message, and a key without a job has neither.
LEMMA NoEffect ==
  ASSUME NEW k
  PROVE  /\ SnoozeInv(k) /\ (jobs[k] = None \/ jobs[k].step # 1) =>
              Commands(k) = {} /\ ~Holds(snooze_outcomes, Answers(k))
         /\ PublishInv(k) /\ (jobs[k] = None \/ jobs[k].step # 2) =>
              /\ Requests(k) = {} /\ Attempts(k) = {}
              /\ Batched(k) = {} /\ Reported(k) = {}
BY DEF SnoozeInv, PublishInv

\* A step that leaves a key without snooze messages establishes the first half.
LEMMA NoSnooze ==
  ASSUME NEW k, Commands(k)' = {}, ~Holds(snooze_outcomes, Answers(k))'
  PROVE  SnoozeInv(k)'
BY DEF SnoozeInv, AtMostOne, Holds, HoldsOne

\* A step that leaves a key without publish messages establishes the second half.
LEMMA NoPublish ==
  ASSUME NEW k, Requests(k)' = {}, Attempts(k)' = {}, Batched(k)' = {}, Reported(k)' = {}
  PROVE  PublishInv(k)'
BY DEF PublishInv, AtMostOne

\* Nothing is under way when the process starts.
LEMMA EffectInit == Init => EffectInv
<1> SUFFICES ASSUME Init PROVE EffectInv
  OBVIOUS
<1>1. /\ snooze_inputs = {} /\ snooze_outcomes = <<>> /\ job_outcomes = <<>>
      /\ publish_queue = {} /\ in_flight = {} /\ completed_batch = {} /\ publish_outcomes = {}
  BY DEF Init, ChannelsInit, PublishInit
<1>2. DOMAIN snooze_outcomes = {} /\ DOMAIN job_outcomes = {}
  BY <1>1
<1> QED BY <1>1, <1>2 DEF EffectInv, Acknowledged, SnoozeInv, PublishInv, AtMostOne, Holds,
                          HoldsOne, Commands, Requests, Attempts, Batched, Reported

\* Nor after a restart.
LEMMA EffectRestart ==
  ASSUME Restart
  PROVE  EffectInv'
<1>1. /\ snooze_inputs' = {} /\ snooze_outcomes' = <<>> /\ job_outcomes' = <<>>
      /\ publish_queue' = {} /\ in_flight' = {} /\ completed_batch' = {}
      /\ publish_outcomes' = {}
  BY DEF Restart
<1>2. DOMAIN snooze_outcomes' = {} /\ DOMAIN job_outcomes' = {}
  BY <1>1
<1> QED BY <1>1, <1>2 DEF EffectInv, Acknowledged, SnoozeInv, PublishInv, AtMostOne, Holds,
                          HoldsOne, Commands, Requests, Attempts, Batched, Reported

\* The coordinator's turns only take outcomes off their channel.
LEMMA EffectCoordinator ==
  ASSUME TypeOK, EffectInv, UNCHANGED <<jobs, effectVars>>,
         job_outcomes' = job_outcomes \/ (job_outcomes # <<>> /\ job_outcomes' = Tail(job_outcomes))
  PROVE  EffectInv'
<1>1. /\ UNCHANGED <<jobs, snooze_inputs, snooze_outcomes, publish_queue, publish_outcomes>>
      /\ UNCHANGED <<in_flight, completed_batch, kafka>>
  BY DEF effectVars, snoozeVars, publishVars, snoozeChannels, publishChannels
<1>2. Acknowledged'
  <2>1. CASE job_outcomes' = job_outcomes
    BY <1>1, <2>1 DEF EffectInv, Acknowledged
  <2>2. CASE job_outcomes # <<>> /\ job_outcomes' = Tail(job_outcomes)
    <3>1. job_outcomes \in Seq(JobOutcome)
      BY DEF TypeOK, ChannelsTypeOK
    <3>2. \A i \in DOMAIN job_outcomes' : /\ i + 1 \in DOMAIN job_outcomes
                                          /\ job_outcomes'[i] = job_outcomes[i + 1]
      BY <2>2, <3>1, TailFacts
    <3> QED BY <1>1, <3>2 DEF EffectInv, Acknowledged
  <2> QED BY <2>1, <2>2
<1>3. \A k \in Keys : SnoozeInv(k)' /\ PublishInv(k)'
  BY <1>1 DEF EffectInv, SnoozeInv, PublishInv, AtMostOne, Holds, HoldsOne, Answers,
              Commands, Requests, Attempts, Batched, Reported
<1> QED BY <1>2, <1>3 DEF EffectInv

\* A new job's snooze command is the only message of its key.
LEMMA EffectNewJob ==
  ASSUME TypeOK, JobInv, EffectInv, handle_new_job, UNCHANGED <<snoozeVars, publishVars>>
  PROVE  EffectInv'
<1> DEFINE job == Head(job_queue)
           started == [job |-> job, step |-> 1]
           input(k) == [key |-> k, wake |-> job.status.wake]
<1>1. job_queue # <<>> /\ job_queue \in Seq(Job)
  BY DEF handle_new_job, TypeOK, ChannelsTypeOK
<1>2. job \in Job
  BY <1>1, TailFacts
<1>3. PICK k \in Keys : k = job.key
  BY <1>2 DEF Job
<1>4. /\ jobs' = [jobs EXCEPT ![k] = started] /\ job_outcomes' = job_outcomes
      /\ snooze_inputs' = snooze_inputs \cup {input(k)}
      /\ publish_queue' = publish_queue
      /\ UNCHANGED <<snooze_outcomes, publish_outcomes>>
  BY <1>3 DEF handle_new_job, advance_workflow, WORKFLOW_ORDER
<1>5. UNCHANGED <<in_flight, completed_batch, kafka>>
  BY DEF publishVars
<1>6. started \in [job : Job, step : Nat]
  BY <1>2
<1>7. started # None
  BY <1>6, NoneIsNoRecord
<1>8. /\ jobs'[k] = started
      /\ \A x \in Keys : x # k => jobs'[x] = jobs[x]
  BY <1>4 DEF TypeOK, WorkflowTypeOK
<1>9. jobs[k] = None
  <2>1. InQueue(k)
    BY <1>1, <1>3, QueueHead
  <2> QED BY <2>1 DEF JobInv, KeyInv, OneJob, InWorkflow
<1>10. SnoozeInv(k) /\ PublishInv(k)
  BY DEF EffectInv
<1>11. /\ Commands(k) = {} /\ ~Holds(snooze_outcomes, Answers(k))
       /\ Requests(k) = {} /\ Attempts(k) = {} /\ Batched(k) = {} /\ Reported(k) = {}
  BY <1>9, <1>10, NoEffect
<1>12. Acknowledged'
  BY <1>4, <1>5 DEF EffectInv, Acknowledged
<1>13. ASSUME NEW x \in Keys PROVE PublishInv(x)'
  <2>1. /\ Requests(x)' = Requests(x) /\ Attempts(x)' = Attempts(x)
        /\ Batched(x)' = Batched(x) /\ Reported(x)' = Reported(x)
    BY <1>4, <1>5 DEF Requests, Attempts, Batched, Reported
  <2>2. CASE x = k
    BY <1>11, <2>1, <2>2, NoPublish
  <2>3. CASE x # k
    BY <1>5, <1>8, <2>1, <2>3, PublishFrame DEF EffectInv
  <2> QED BY <2>2, <2>3
<1>14. ASSUME NEW x \in Keys PROVE SnoozeInv(x)'
  <2>1. SnoozeInv(x)
    BY DEF EffectInv
  <2>2. /\ Holds(snooze_outcomes, Answers(x))' <=> Holds(snooze_outcomes, Answers(x))
        /\ HoldsOne(snooze_outcomes, Answers(x))'
    BY <1>4, <2>1 DEF SnoozeInv, Answers
  <2>3. CASE x = k
    <3>1. Commands(k)' = {input(k)}
      BY <1>4, <1>11 DEF Commands
    <3>2. input(k).wake = jobs'[k].job.status.wake /\ jobs'[k].step = 1 /\ jobs'[k] # None
      BY <1>7, <1>8
    <3> HIDE DEF started, input
    <3> QED BY <1>11, <2>2, <2>3, <3>1, <3>2 DEF SnoozeInv, AtMostOne
  <2>4. CASE x # k
    <3>1. Commands(x)' = Commands(x)
      BY <1>4, <2>4 DEF Commands
    <3> QED BY <1>8, <2>1, <2>2, <2>4, <3>1, SnoozeFrame
  <2> QED BY <2>3, <2>4
<1> QED BY <1>12, <1>13, <1>14 DEF EffectInv

\* A job that ends with the handler's turn leaves no message of its key behind,
\* and is reported as committed only if the topic has its status.
LEMMA EffectFinish ==
  ASSUME TypeOK, JobInv, EffectInv, NEW k \in Keys, jobs[k] # None,
         NEW o \in {Failed(jobs[k].job), Committed(jobs[k].job)},
         o.kind = "Committed" => kafka[k] = jobs[k].job.status,
         jobs' = [jobs EXCEPT ![k] = None], job_outcomes' = Append(job_outcomes, o),
         UNCHANGED <<snoozeVars, publishVars, snooze_inputs, publish_queue>>,
         Commands(k) = {}, ~Holds(snooze_outcomes, Answers(k))',
         Requests(k) = {}, Attempts(k) = {}, Batched(k) = {}, Reported(k)' = {},
         \A x \in Keys : x # k =>
           /\ Holds(snooze_outcomes, Answers(x))' <=> Holds(snooze_outcomes, Answers(x))
           /\ HoldsOne(snooze_outcomes, Answers(x))'
           /\ Reported(x)' = Reported(x)
  PROVE  EffectInv'
<1>1. jobs[k] \in TrackedJob /\ jobs[k].job \in Job /\ jobs[k].job.key = k
  BY DEF TypeOK, WorkflowTypeOK, TrackedJob, JobInv, TrackedKeys
<1>2. o \in JobOutcome /\ o.key = k /\ o.job = jobs[k].job
  <2>1. o \in JobOutcome
    BY <1>1, OutcomeTypes
  <2>2. o.key = k /\ o.job = jobs[k].job
    BY <1>1 DEF Failed, Committed
  <2> QED BY <2>1, <2>2
<1>3. UNCHANGED <<in_flight, completed_batch, kafka, snooze_inputs, publish_queue>>
  BY DEF publishVars
<1>4. Acknowledged'
  <2> DEFINE n == Len(job_outcomes)
  <2>1. job_outcomes \in Seq(JobOutcome)
    BY DEF TypeOK, ChannelsTypeOK
  <2>2. /\ n \in Nat /\ DOMAIN job_outcomes = 1 .. n /\ DOMAIN job_outcomes' = 1 .. (n + 1)
        /\ job_outcomes'[n + 1] = o
        /\ \A i \in DOMAIN job_outcomes : job_outcomes'[i] = job_outcomes[i]
    BY <1>2, <2>1, AppendFacts
  <2> HIDE DEF n
  <2>3. \A i \in 1 .. (n + 1) : i \in 1 .. n \/ i = n + 1
    BY <2>2
  <2> QED BY <1>2, <1>3, <2>2, <2>3 DEF EffectInv, Acknowledged
<1>5. ASSUME NEW x \in Keys PROVE SnoozeInv(x)' /\ PublishInv(x)'
  <2>1. /\ Commands(x)' = Commands(x) /\ Requests(x)' = Requests(x)
        /\ Attempts(x)' = Attempts(x) /\ Batched(x)' = Batched(x)
    BY <1>3 DEF Commands, Requests, Attempts, Batched
  <2>2. CASE x = k
    BY <2>1, <2>2, NoSnooze, NoPublish
  <2>3. CASE x # k
    <3>1. jobs'[x] = jobs[x]
      BY <2>3 DEF TypeOK, WorkflowTypeOK
    <3>2. SnoozeInv(x)'
      BY <2>1, <2>3, <3>1, SnoozeFrame DEF EffectInv
    <3>3. PublishInv(x)'
      BY <1>3, <2>1, <2>3, <3>1, PublishFrame DEF EffectInv
    <3> QED BY <3>2, <3>3
  <2> QED BY <2>2, <2>3
<1> QED BY <1>4, <1>5 DEF EffectInv

\* The three answers of the scheduler: an accepted command is followed by the
\* publish request, an invalid wake ends the job, an expiry concerns no job.
LEMMA EffectSnoozeResult ==
  ASSUME TypeOK, JobInv, EffectInv, handle_snooze_result,
         UNCHANGED <<snoozeVars, publishVars>>
  PROVE  EffectInv'
<1> DEFINE result == Head(snooze_outcomes)
<1>1. /\ snooze_outcomes # <<>> /\ snooze_outcomes \in Seq(SnoozeOutcome)
      /\ snooze_outcomes' = Tail(snooze_outcomes)
  BY DEF handle_snooze_result, TypeOK, ChannelsTypeOK
<1>2. result \in SnoozeOutcome
  BY <1>1, TailFacts
<1>3. PICK k \in Keys : k = result.key
  BY <1>2 DEF SnoozeOutcome
<1>4. UNCHANGED <<in_flight, completed_batch, kafka, publish_outcomes>>
  BY DEF publishVars, handle_snooze_result
<1>5. SnoozeInv(k) /\ PublishInv(k)
  BY DEF EffectInv
<1>6. ASSUME NEW x \in Keys, x # k \/ result.kind = "Expired"
      PROVE  /\ Holds(snooze_outcomes, Answers(x))' <=> Holds(snooze_outcomes, Answers(x))
             /\ HoldsOne(snooze_outcomes, Answers(x))'
  <2>1. result \notin Answers(x)
    BY <1>3, <1>6 DEF Answers
  <2>2. HoldsOne(snooze_outcomes, Answers(x))
    BY DEF EffectInv, SnoozeInv
  <2>3. Answers(x)' = Answers(x)
    BY DEF Answers
  <2> QED BY <1>1, <2>1, <2>2, <2>3, HoldsTail
<1>7. ASSUME result.kind # "Expired"
      PROVE  /\ jobs[k] # None /\ jobs[k].step = 1
             /\ Commands(k) = {}
             /\ ~Holds(snooze_outcomes, Answers(k))'
             /\ Requests(k) = {} /\ Attempts(k) = {} /\ Batched(k) = {} /\ Reported(k) = {}
  <2>1. result \in Answers(k) /\ Answers(k)' = Answers(k)
    BY <1>2, <1>3, <1>7 DEF Answers
  <2>2. Holds(snooze_outcomes, Answers(k)) /\ HoldsOne(snooze_outcomes, Answers(k))
    BY <1>1, <1>5, <2>1, HoldsTail DEF SnoozeInv
  <2>3. ~Holds(snooze_outcomes, Answers(k))'
    BY <1>1, <2>1, <2>2, HoldsTail
  <2>4. jobs[k] # None /\ jobs[k].step = 1 /\ Commands(k) = {}
    BY <1>5, <2>2 DEF SnoozeInv
  <2> QED BY <1>5, <2>3, <2>4, NoEffect
<1>8. CASE result.kind = "Expired"
  <2>1. /\ job_outcomes' = Append(job_outcomes, Wake(k))
        /\ UNCHANGED <<jobs, snooze_inputs, publish_queue>>
    BY <1>3, <1>8 DEF handle_snooze_result
  <2>2. Acknowledged'
    <3> DEFINE n == Len(job_outcomes)
    <3>1. job_outcomes \in Seq(JobOutcome) /\ Wake(k) \in JobOutcome
      BY OutcomeTypes DEF TypeOK, ChannelsTypeOK
    <3>2. /\ n \in Nat /\ DOMAIN job_outcomes = 1 .. n /\ DOMAIN job_outcomes' = 1 .. (n + 1)
          /\ job_outcomes'[n + 1] = Wake(k)
          /\ \A i \in DOMAIN job_outcomes : job_outcomes'[i] = job_outcomes[i]
      BY <2>1, <3>1, AppendFacts
    <3> HIDE DEF n
    <3>3. \A i \in 1 .. (n + 1) : i \in 1 .. n \/ i = n + 1
      BY <3>2
    <3>4. Wake(k).kind # "Committed"
      BY DEF Wake
    <3> QED BY <1>4, <3>2, <3>3, <3>4 DEF EffectInv, Acknowledged
  <2>3. ASSUME NEW x \in Keys PROVE SnoozeInv(x)' /\ PublishInv(x)'
    <3>1. /\ Commands(x)' = Commands(x) /\ Requests(x)' = Requests(x)
          /\ Attempts(x)' = Attempts(x) /\ Batched(x)' = Batched(x)
          /\ Reported(x)' = Reported(x)
      BY <1>4, <2>1 DEF Commands, Requests, Attempts, Batched, Reported
    <3>2. SnoozeInv(x)'
      BY <1>6, <1>8, <2>1, <3>1, SnoozeFrame DEF EffectInv
    <3>3. PublishInv(x)'
      BY <1>4, <2>1, <3>1, PublishFrame DEF EffectInv
    <3> QED BY <3>2, <3>3
  <2> QED BY <2>2, <2>3 DEF EffectInv
<1>9. CASE result.kind = "InvalidWake"
  <2>1. /\ jobs[k] # None
        /\ jobs' = [jobs EXCEPT ![k] = None]
        /\ job_outcomes' = Append(job_outcomes, Failed(jobs[k].job))
        /\ UNCHANGED <<snooze_inputs, publish_queue>>
    BY <1>3, <1>9 DEF handle_snooze_result, send_failed
  <2>2. Failed(jobs[k].job).kind # "Committed"
    BY DEF Failed
  <2>3. \A x \in Keys : Reported(x)' = Reported(x)
    BY <1>4 DEF Reported
  <2> QED BY <1>6, <1>7, <1>9, <2>1, <2>2, <2>3, EffectFinish
<1>10. CASE result.kind = "Accepted"
  <2> DEFINE job == jobs[k].job
             moved == [job |-> job, step |-> 2]
             request == [key |-> k, status |-> job.status,
                         user_initiated |-> job.user_initiated]
  <2>1. /\ jobs[k] # None /\ jobs[k].step = 1
        /\ advance_workflow(k, jobs[k])
    BY <1>3, <1>7, <1>10 DEF handle_snooze_result
  <2>2. /\ jobs' = [jobs EXCEPT ![k] = moved] /\ job_outcomes' = job_outcomes
        /\ snooze_inputs' = snooze_inputs /\ publish_queue' = publish_queue \cup {request}
    BY <2>1 DEF advance_workflow, WORKFLOW_ORDER
  <2>3. moved \in [job : Job, step : Nat]
    BY <2>1 DEF TypeOK, WorkflowTypeOK, TrackedJob
  <2>4. moved # None
    BY <2>3, NoneIsNoRecord
  <2>5. /\ jobs'[k] = moved
        /\ \A x \in Keys : x # k => jobs'[x] = jobs[x]
    BY <2>2 DEF TypeOK, WorkflowTypeOK
  <2>6. Acknowledged'
    BY <1>4, <2>2 DEF EffectInv, Acknowledged
  <2>7. ASSUME NEW x \in Keys PROVE SnoozeInv(x)' /\ PublishInv(x)'
    <3>1. /\ Commands(x)' = Commands(x) /\ Attempts(x)' = Attempts(x)
          /\ Batched(x)' = Batched(x) /\ Reported(x)' = Reported(x)
      BY <1>4, <2>2 DEF Commands, Attempts, Batched, Reported
    <3>2. CASE x = k
      <4>1. SnoozeInv(x)'
        BY <1>7, <1>10, <3>1, <3>2, NoSnooze
      <4>2. Requests(k)' = {request}
        BY <1>7, <1>10, <2>2 DEF Requests
      <4>3. /\ jobs'[k] # None /\ jobs'[k].step = 2
            /\ request.status = jobs'[k].job.status
        BY <2>4, <2>5
      <4>4. Attempts(k)' = {} /\ Batched(k)' = {} /\ Reported(k)' = {}
        BY <1>7, <1>10, <3>1, <3>2
      <4> HIDE DEF moved, request
      <4>5. PublishInv(k)'
        BY <4>2, <4>3, <4>4 DEF PublishInv, AtMostOne
      <4> QED BY <3>2, <4>1, <4>5
    <3>3. CASE x # k
      <4>1. Requests(x)' = Requests(x)
        BY <2>2, <3>3 DEF Requests
      <4>2. SnoozeInv(x)'
        BY <1>6, <2>5, <3>1, <3>3, SnoozeFrame DEF EffectInv
      <4>3. PublishInv(x)'
        BY <1>4, <2>5, <3>1, <3>3, <4>1, PublishFrame DEF EffectInv
      <4> QED BY <4>2, <4>3
    <3> QED BY <3>2, <3>3
  <2> QED BY <2>6, <2>7 DEF EffectInv
<1> QED BY <1>2, <1>8, <1>9, <1>10 DEF SnoozeOutcome

\* A result of the publish engine ends the job it belongs to.
LEMMA EffectPublishResult ==
  ASSUME TypeOK, JobInv, EffectInv, NEW result \in publish_outcomes,
         dispatch_publish_result(result), UNCHANGED <<snoozeVars, publishVars>>
  PROVE  EffectInv'
<1>1. PICK k \in Keys : k = result.key
  BY DEF TypeOK, ChannelsTypeOK, PublishResult
<1>2. /\ jobs[k] # None /\ jobs' = [jobs EXCEPT ![k] = None]
      /\ publish_outcomes' = publish_outcomes \ {result}
      /\ UNCHANGED <<snooze_inputs, snooze_outcomes, publish_queue>>
  BY <1>1 DEF dispatch_publish_result, send_failed, snoozeChannels
<1>3. SnoozeInv(k) /\ PublishInv(k)
  BY DEF EffectInv
<1>4. result \in Reported(k)
  BY <1>1 DEF Reported
<1>5. /\ jobs[k].step = 2
      /\ result.ok => kafka[k] = jobs[k].job.status
      /\ Requests(k) = {} /\ Attempts(k) = {} /\ Batched(k) = {}
      /\ Reported(k) = {result}
  BY <1>3, <1>4 DEF PublishInv, AtMostOne
<1>6. Commands(k) = {} /\ ~Holds(snooze_outcomes, Answers(k))
  BY <1>3, <1>5, NoEffect
<1>7. Reported(k)' = {}
  BY <1>2, <1>5 DEF Reported
<1>8. \A x \in Keys : x # k => Reported(x)' = Reported(x)
  BY <1>1, <1>2 DEF Reported
<1>9. \A x \in Keys :
        /\ Holds(snooze_outcomes, Answers(x))' <=> Holds(snooze_outcomes, Answers(x))
        /\ HoldsOne(snooze_outcomes, Answers(x))'
  BY <1>2 DEF Answers, EffectInv, SnoozeInv
<1>10. PICK o \in {Failed(jobs[k].job), Committed(jobs[k].job)} :
         /\ job_outcomes' = Append(job_outcomes, o)
         /\ o.kind = "Committed" => result.ok
  <2>1. CASE result.ok
    BY <1>1, <2>1 DEF dispatch_publish_result
  <2>2. CASE ~result.ok
    <3>1. job_outcomes' = Append(job_outcomes, Failed(jobs[k].job))
      BY <1>1, <2>2 DEF dispatch_publish_result, send_failed
    <3>2. Failed(jobs[k].job).kind # "Committed"
      BY DEF Failed
    <3> QED BY <3>1, <3>2
  <2> QED BY <2>1, <2>2
<1> QED BY <1>2, <1>5, <1>6, <1>7, <1>8, <1>9, <1>10, EffectFinish

\* An answer takes the place of its command.
LEMMA EffectSnoozeCommand ==
  ASSUME TypeOK, EffectInv, NEW k \in Keys, SnoozeCommand(k)
  PROVE  EffectInv'
<1>1. PICK input \in snooze_inputs : input.key = k /\ handle_snooze_input(input)
  BY DEF SnoozeCommand
<1>2. PICK kind \in {"Accepted", "InvalidWake"} : Respond(input, kind)
  BY <1>1 DEF handle_snooze_input
<1> DEFINE answer == [kind |-> kind, key |-> k]
<1>3. /\ snooze_inputs' = snooze_inputs \ {input}
      /\ snooze_outcomes' = Append(snooze_outcomes, answer)
  BY <1>1, <1>2 DEF Respond
<1>4. answer \in SnoozeOutcome /\ snooze_outcomes \in Seq(SnoozeOutcome)
  BY DEF SnoozeOutcome, TypeOK, ChannelsTypeOK
<1>5. UNCHANGED <<jobs, kafka, job_outcomes, publish_queue, in_flight, completed_batch,
                  publish_outcomes>>
  BY DEF SnoozeCommand, OutsideSnooze, workflowVars, publishVars, jobChannels,
         publishChannels
<1>6. Acknowledged'
  BY <1>5 DEF EffectInv, Acknowledged
<1>7. ASSUME NEW x \in Keys PROVE PublishInv(x)'
  <2>1. /\ Requests(x)' = Requests(x) /\ Attempts(x)' = Attempts(x)
        /\ Batched(x)' = Batched(x) /\ Reported(x)' = Reported(x)
    BY <1>5 DEF Requests, Attempts, Batched, Reported
  <2> QED BY <1>5, <2>1, PublishFrame DEF EffectInv
<1>8. ASSUME NEW x \in Keys PROVE SnoozeInv(x)'
  <2>1. SnoozeInv(x) /\ Answers(x)' = Answers(x)
    BY DEF EffectInv, Answers
  <2>2. answer \in Answers(x) <=> x = k
    BY <1>4 DEF Answers
  <2> HIDE DEF answer
  <2>3. /\ Holds(snooze_outcomes, Answers(x))' <=> Holds(snooze_outcomes, Answers(x)) \/ x = k
        /\ HoldsOne(snooze_outcomes, Answers(x)) /\ (x = k => ~Holds(snooze_outcomes, Answers(x)))
             => HoldsOne(snooze_outcomes, Answers(x))'
    BY <1>3, <1>4, <2>1, <2>2, HoldsAppend
  <2>4. CASE x = k
    <3>1. input \in Commands(k)
      BY <1>1 DEF Commands
    <3>2. /\ jobs[k] # None /\ jobs[k].step = 1
          /\ ~Holds(snooze_outcomes, Answers(k))
          /\ Commands(k) = {input}
      BY <2>1, <2>4, <3>1 DEF SnoozeInv, AtMostOne
    <3>3. Commands(k)' = {}
      BY <1>3, <3>2 DEF Commands
    <3> QED BY <1>5, <2>1, <2>3, <2>4, <3>2, <3>3 DEF SnoozeInv, AtMostOne
  <2>5. CASE x # k
    <3>1. Commands(x)' = Commands(x)
      BY <1>1, <1>3, <2>5 DEF Commands
    <3>2. HoldsOne(snooze_outcomes, Answers(x))
      BY <2>1 DEF SnoozeInv
    <3> QED BY <1>5, <2>1, <2>3, <2>5, <3>1, <3>2, SnoozeFrame
  <2> QED BY <2>4, <2>5
<1> QED BY <1>6, <1>7, <1>8 DEF EffectInv

\* The expiry of a timer is no answer to a command.
LEMMA EffectExpires ==
  ASSUME TypeOK, EffectInv, NEW k \in Keys, SnoozeExpires(k)
  PROVE  EffectInv'
<1> DEFINE expired == [kind |-> "Expired", key |-> k]
<1>1. /\ snooze_inputs' = snooze_inputs
      /\ snooze_outcomes' = Append(snooze_outcomes, expired)
  BY DEF SnoozeExpires, Expire
<1>2. expired \in SnoozeOutcome /\ snooze_outcomes \in Seq(SnoozeOutcome)
  BY DEF SnoozeOutcome, TypeOK, ChannelsTypeOK
<1>3. UNCHANGED <<jobs, kafka, job_outcomes, publish_queue, in_flight, completed_batch,
                  publish_outcomes>>
  BY DEF SnoozeExpires, OutsideSnooze, workflowVars, publishVars, jobChannels,
         publishChannels
<1>4. Acknowledged'
  BY <1>3 DEF EffectInv, Acknowledged
<1>5. ASSUME NEW x \in Keys PROVE SnoozeInv(x)' /\ PublishInv(x)'
  <2>1. /\ Requests(x)' = Requests(x) /\ Attempts(x)' = Attempts(x)
        /\ Batched(x)' = Batched(x) /\ Reported(x)' = Reported(x)
        /\ Commands(x)' = Commands(x) /\ Answers(x)' = Answers(x)
    BY <1>1, <1>3 DEF Requests, Attempts, Batched, Reported, Commands, Answers
  <2>2. expired \notin Answers(x) /\ HoldsOne(snooze_outcomes, Answers(x))
    BY DEF Answers, EffectInv, SnoozeInv
  <2> HIDE DEF expired
  <2>3. /\ Holds(snooze_outcomes, Answers(x))' <=> Holds(snooze_outcomes, Answers(x))
        /\ HoldsOne(snooze_outcomes, Answers(x))'
    BY <1>1, <1>2, <2>1, <2>2, HoldsAppend
  <2>4. SnoozeInv(x)'
    BY <1>3, <2>1, <2>3, SnoozeFrame DEF EffectInv
  <2>5. PublishInv(x)'
    BY <1>3, <2>1, PublishFrame DEF EffectInv
  <2> QED BY <2>4, <2>5
<1> QED BY <1>4, <1>5 DEF EffectInv

\* The publish engine's steps leave the first half alone.
LEMMA SnoozeUntouched ==
  ASSUME EffectInv, UNCHANGED <<jobs, snooze_inputs, snooze_outcomes>>, NEW x \in Keys
  PROVE  SnoozeInv(x)'
<1>1. /\ Commands(x)' = Commands(x)
      /\ Holds(snooze_outcomes, Answers(x))' <=> Holds(snooze_outcomes, Answers(x))
      /\ HoldsOne(snooze_outcomes, Answers(x))'
  BY DEF Commands, Answers, EffectInv, SnoozeInv
<1> QED BY <1>1, SnoozeFrame DEF EffectInv

\* The first attempt takes the place of its request.
LEMMA EffectReceived ==
  ASSUME TypeOK, EffectInv, NEW k \in Keys, PublishReceived(k)
  PROVE  EffectInv'
<1>1. PICK request \in publish_queue : request.key = k /\ ReceivePublish(request)
  BY DEF PublishReceived
<1> DEFINE attempt == [request |-> request, attempt_count |-> 1]
<1>2. /\ publish_queue' = publish_queue \ {request}
      /\ in_flight' = in_flight \cup {attempt}
      /\ UNCHANGED <<completed_batch, kafka, publish_outcomes>>
  BY <1>1 DEF ReceivePublish
<1>3. UNCHANGED <<jobs, job_outcomes, snooze_inputs, snooze_outcomes>>
  BY DEF PublishReceived, OutsidePublish, workflowVars, jobChannels, snoozeChannels
<1>4. Acknowledged'
  BY <1>2, <1>3 DEF EffectInv, Acknowledged
<1>5. ASSUME NEW x \in Keys PROVE PublishInv(x)'
  <2>1. Batched(x)' = Batched(x) /\ Reported(x)' = Reported(x)
    BY <1>2 DEF Batched, Reported
  <2>2. CASE x = k
    <3>1. PublishInv(k) /\ request \in Requests(k)
      BY <1>1 DEF EffectInv, Requests
    <3>2. /\ jobs[k] # None /\ jobs[k].step = 2 /\ request.status = jobs[k].job.status
          /\ Attempts(k) = {} /\ Batched(k) = {} /\ Reported(k) = {}
          /\ Requests(k) = {request}
      BY <3>1 DEF PublishInv, AtMostOne
    <3>3. Requests(k)' = {}
      BY <1>2, <3>2 DEF Requests
    <3>4. Attempts(k)' = {attempt} /\ attempt.request = request
      BY <1>1, <1>2, <3>2 DEF Attempts
    <3> HIDE DEF attempt
    <3> QED BY <1>3, <2>1, <2>2, <3>2, <3>3, <3>4 DEF PublishInv, AtMostOne
  <2>3. CASE x # k
    <3>1. Requests(x)' = Requests(x) /\ Attempts(x)' = Attempts(x)
      BY <1>1, <1>2, <2>3 DEF Requests, Attempts
    <3> QED BY <1>2, <1>3, <2>1, <3>1, PublishFrame DEF EffectInv
  <2> QED BY <2>2, <2>3
<1> QED BY <1>3, <1>4, <1>5, SnoozeUntouched DEF EffectInv

\* An attempt writes the status of the job at its second step, and its result
\* or the next attempt takes its place.  A job reported as committed is of
\* another key.
LEMMA EffectDelivered ==
  ASSUME TypeOK, JobInv, EffectInv, NEW k \in Keys, PublishAccepted(k) \/ PublishFailed(k)
  PROVE  EffectInv'
<1>1. PICK attempt \in in_flight :
        attempt.request.key = k /\ (DeliverOk(attempt) \/ DeliverFails(attempt))
  BY DEF PublishAccepted, PublishFailed
<1>2. UNCHANGED <<jobs, job_outcomes, snooze_inputs, snooze_outcomes, publish_queue>>
  BY <1>1 DEF PublishAccepted, PublishFailed, OutsidePublish, workflowVars, jobChannels,
              snoozeChannels, DeliverOk, DeliverFails
<1>3. PublishInv(k) /\ attempt \in Attempts(k)
  BY <1>1 DEF EffectInv, Attempts
<1>4. /\ jobs[k] # None /\ jobs[k].step = 2 /\ attempt.request.status = jobs[k].job.status
      /\ Requests(k) = {} /\ Batched(k) = {} /\ Reported(k) = {} /\ Attempts(k) = {attempt}
  BY <1>3 DEF PublishInv, AtMostOne
<1>5. /\ \A x \in Keys : x # k => kafka'[x] = kafka[x]
      /\ DeliverOk(attempt) => kafka'[k] = attempt.request.status
  BY <1>1 DEF DeliverOk, DeliverFails, Write, TypeOK, PublishTypeOK
<1>6. Acknowledged'
  <2>1. \A i \in DOMAIN job_outcomes :
          job_outcomes[i].kind = "Committed" => /\ job_outcomes[i].key \in Keys
                                                /\ job_outcomes[i].key # k
    <3>1. ~InOutcomes(k)
      BY <1>4 DEF JobInv, KeyInv, OneJob, InWorkflow
    <3>2. job_outcomes \in Seq(JobOutcome)
      BY DEF TypeOK, ChannelsTypeOK
    <3>3. \A i \in DOMAIN job_outcomes : job_outcomes[i].key \in Keys
      BY <3>2 DEF JobOutcome
    <3> QED BY <3>1, <3>3 DEF InOutcomes
  <2> QED BY <1>2, <1>5, <2>1 DEF EffectInv, Acknowledged
<1> DEFINE Delivered(results, again) ==
             /\ in_flight' = (in_flight \ {attempt}) \cup again
             /\ \/ /\ completed_batch' = completed_batch \cup results
                   /\ publish_outcomes' = publish_outcomes
                \/ /\ publish_outcomes' = publish_outcomes \cup results
                   /\ completed_batch' = completed_batch
             /\ AtMostOne(results) /\ AtMostOne(again) /\ (again = {} \/ results = {})
             /\ \A r \in results : r.key = k /\ (r.ok => DeliverOk(attempt))
             /\ \A a \in again : a.request = attempt.request
<1>7. \E results, again : Delivered(results, again)
  <2>1. ASSUME NEW ok \in BOOLEAN, in_flight' = in_flight \ {attempt},
               handle_completed_work(attempt, ok), ok => DeliverOk(attempt)
        PROVE  Delivered({[key |-> k, ok |-> ok]}, {})
    <3> DEFINE result == [key |-> k, ok |-> ok]
    <3>1. result.key = k /\ result.ok = ok
      OBVIOUS
    <3>2. \/ /\ completed_batch' = completed_batch \cup {result}
             /\ publish_outcomes' = publish_outcomes
          \/ /\ publish_outcomes' = publish_outcomes \cup {result}
             /\ completed_batch' = completed_batch
      BY <1>1, <2>1 DEF handle_completed_work
    <3> HIDE DEF result
    <3>3. Delivered({result}, {})
      BY <2>1, <3>1, <3>2 DEF AtMostOne
    <3> QED BY <3>3 DEF result
  <2> HIDE DEF Delivered
  <2>2. CASE DeliverOk(attempt)
    BY <2>1, <2>2 DEF DeliverOk
  <2>3. CASE DeliverFails(attempt) /\ ~(attempt.attempt_count < MAX_DELIVERY_ATTEMPTS)
    BY <2>1, <2>3 DEF DeliverFails
  <2>4. CASE DeliverFails(attempt) /\ attempt.attempt_count < MAX_DELIVERY_ATTEMPTS
    <3> DEFINE again == [attempt EXCEPT !.attempt_count = @ + 1]
    <3>1. again.request = attempt.request
      BY DEF TypeOK, PublishTypeOK, PublishAttempt
    <3>2. /\ in_flight' = (in_flight \ {attempt}) \cup {again}
          /\ UNCHANGED <<completed_batch, publish_outcomes>>
      BY <2>4 DEF DeliverFails
    <3> HIDE DEF again
    <3>3. Delivered({}, {again})
      BY <3>1, <3>2 DEF AtMostOne, Delivered
    <3> QED BY <3>3
  <2> QED BY <1>1, <2>2, <2>3, <2>4
<1>8. ASSUME NEW x \in Keys PROVE PublishInv(x)'
  <2>1. PICK results, again : Delivered(results, again)
    BY <1>7
  <2>2. Requests(x)' = Requests(x)
    BY <1>2 DEF Requests
  <2>3. CASE x = k
    <3>1. Attempts(k)' = again
      BY <1>1, <1>4, <2>1 DEF Attempts
    <3>2. \/ Batched(k)' = results /\ Reported(k)' = {}
          \/ Batched(k)' = {} /\ Reported(k)' = results
      BY <1>4, <2>1 DEF Batched, Reported
    <3>3. \A r \in results : r.ok => kafka'[k] = jobs'[k].job.status
      BY <1>2, <1>4, <1>5, <2>1
    <3>4. \A a \in again : a.request.status = jobs'[k].job.status
      BY <1>2, <1>4, <2>1
    <3>5. jobs'[k] # None /\ jobs'[k].step = 2
      BY <1>2, <1>4
    <3>6. AtMostOne(results) /\ AtMostOne(again) /\ (again = {} \/ results = {})
      BY <2>1
    <3> QED BY <1>4, <2>2, <2>3, <3>1, <3>2, <3>3, <3>4, <3>5, <3>6 DEF PublishInv, AtMostOne
  <2>4. CASE x # k
    <3>1. Attempts(x)' = Attempts(x)
      BY <1>1, <2>1, <2>4 DEF Attempts
    <3>2. Batched(x)' = Batched(x) /\ Reported(x)' = Reported(x)
      BY <2>1, <2>4 DEF Batched, Reported
    <3> QED BY <1>2, <1>5, <2>2, <2>4, <3>1, <3>2, PublishFrame DEF EffectInv
  <2> QED BY <2>3, <2>4
<1> QED BY <1>2, <1>6, <1>8, SnoozeUntouched DEF EffectInv

\* A flush moves a key's result from the batch to the channel.
LEMMA EffectFlush ==
  ASSUME EffectInv, Flush
  PROVE  EffectInv'
<1>1. /\ publish_outcomes' = publish_outcomes \cup completed_batch
      /\ completed_batch' = {}
      /\ UNCHANGED <<in_flight, kafka, publish_queue>>
  BY DEF Flush, flush_completed_batch
<1>2. UNCHANGED <<jobs, job_outcomes, snooze_inputs, snooze_outcomes>>
  BY DEF Flush, OutsidePublish, workflowVars, jobChannels, snoozeChannels
<1>3. Acknowledged'
  BY <1>1, <1>2 DEF EffectInv, Acknowledged
<1>4. ASSUME NEW x \in Keys PROVE PublishInv(x)'
  <2>1. PublishInv(x)
    BY DEF EffectInv
  <2>2. /\ Requests(x)' = Requests(x) /\ Attempts(x)' = Attempts(x)
        /\ Batched(x)' = {} /\ Reported(x)' = Reported(x) \cup Batched(x)
    BY <1>1 DEF Requests, Attempts, Batched, Reported
  <2>3. AtMostOne(Reported(x)')
    BY <2>1, <2>2 DEF PublishInv, AtMostOne
  <2> QED BY <1>1, <1>2, <2>1, <2>2, <2>3 DEF PublishInv, AtMostOne
<1> QED BY <1>2, <1>3, <1>4, SnoozeUntouched DEF EffectInv

\* Every step of the service keeps the effect invariant.
LEMMA EffectStep == TypeOK /\ JobInv /\ EffectInv /\ [Next]_vars => EffectInv'
<1> SUFFICES ASSUME TypeOK, JobInv, EffectInv, [Next]_vars PROVE EffectInv'
  OBVIOUS
<1>1. CASE Inputs \/ reconcile_job_outcome \/ Send
  <2>1. UNCHANGED <<jobs, effectVars>>
    BY <1>1 DEF Inputs, reconcile_job_outcome, Send, workflowVars
  <2>2. job_outcomes' = job_outcomes \/ (job_outcomes # <<>> /\ job_outcomes' = Tail(job_outcomes))
    BY <1>1 DEF Inputs, handle_user_update, handle_automated_update, jobChannels,
                reconcile_job_outcome, reconcile_success, reconcile_failure,
                dispatch_automated_wake, Send, SendJob, SendFails
  <2> QED BY <2>1, <2>2, EffectCoordinator
<1>2. CASE WorkflowStep
  <2>1. UNCHANGED <<snoozeVars, publishVars>>
    BY <1>2 DEF WorkflowStep
  <2> QED BY <1>2, <2>1, EffectNewJob, EffectSnoozeResult, EffectPublishResult
          DEF WorkflowStep
<1>3. CASE WorkflowEnds
  <2>1. UNCHANGED <<jobs, effectVars, job_outcomes>>
    BY <1>3 DEF WorkflowEnds, WorkflowStops, effectVars
  <2> QED BY <2>1, EffectCoordinator
<1>4. ASSUME NEW k \in Keys,
             \/ SnoozeCommand(k) \/ SnoozeExpires(k)
             \/ PublishReceived(k) \/ PublishAccepted(k) \/ PublishFailed(k)
      PROVE  EffectInv'
  BY <1>4, EffectSnoozeCommand, EffectExpires, EffectReceived, EffectDelivered
<1>5. CASE Flush
  BY <1>5, EffectFlush
<1>6. CASE Clock \/ UNCHANGED vars
  <2>1. /\ UNCHANGED <<jobs, snooze_inputs, snooze_outcomes, publish_queue, publish_outcomes>>
        /\ UNCHANGED <<in_flight, completed_batch, kafka, job_outcomes>>
    BY <1>6 DEF Clock, Tick, OutsideSnooze, vars, workflowVars, publishVars, snoozeChannels,
                publishChannels, jobChannels
  <2> QED BY <2>1 DEF EffectInv, Acknowledged, SnoozeInv, PublishInv, AtMostOne, Holds,
                      HoldsOne, Answers, Commands, Requests, Attempts, Batched, Reported
<1>7. CASE Restart
  BY <1>7, EffectRestart
<1> QED BY <1>1, <1>2, <1>3, <1>4, <1>5, <1>6, <1>7 DEF Next

\* The three invariants together are inductive.
LEMMA EffectsAlways == Spec => [](TypeOK /\ JobInv /\ EffectInv)
BY TypeCorrect, JobInit, JobStep, EffectInit, EffectStep, PTL DEF Spec

\* Every snooze command, answer, publish request, attempt and result belongs to
\* the job the workflow handler tracks for its key, at the step it is at: no
\* lookup of a job can fail, for any number of keys, retries and restarts.
THEOREM EffectHasJobAlways == Spec => []EffectHasJob
<1>1. TypeOK /\ EffectInv => EffectHasJob
  <2> SUFFICES ASSUME TypeOK, EffectInv PROVE EffectHasJob
    OBVIOUS
  <2>1. ASSUME NEW input \in snooze_inputs
        PROVE  /\ jobs[input.key] # None /\ jobs[input.key].step = 1
               /\ input.wake = jobs[input.key].job.status.wake
    <3>1. input.key \in Keys /\ input \in Commands(input.key)
      BY DEF TypeOK, ChannelsTypeOK, SnoozeInput, Commands
    <3> QED BY <3>1 DEF EffectInv, SnoozeInv
  <2>2. ASSUME NEW i \in DOMAIN snooze_outcomes, snooze_outcomes[i].kind # "Expired"
        PROVE  /\ jobs[snooze_outcomes[i].key] # None
               /\ jobs[snooze_outcomes[i].key].step = 1
    <3>1. snooze_outcomes[i] \in SnoozeOutcome
      BY DEF TypeOK, ChannelsTypeOK
    <3>2. /\ snooze_outcomes[i].key \in Keys
          /\ snooze_outcomes[i] \in Answers(snooze_outcomes[i].key)
      BY <2>2, <3>1 DEF SnoozeOutcome, Answers
    <3> QED BY <3>2 DEF EffectInv, SnoozeInv, Holds
  <2>3. ASSUME NEW request \in publish_queue \cup { attempt.request : attempt \in in_flight }
        PROVE  /\ jobs[request.key] # None /\ jobs[request.key].step = 2
               /\ request.status = jobs[request.key].job.status
    <3>1. CASE request \in publish_queue
      <4>1. request.key \in Keys /\ request \in Requests(request.key)
        BY <3>1 DEF TypeOK, ChannelsTypeOK, Publish, Requests
      <4> QED BY <4>1 DEF EffectInv, PublishInv
    <3>2. ASSUME NEW attempt \in in_flight, request = attempt.request
          PROVE  /\ jobs[request.key] # None /\ jobs[request.key].step = 2
                 /\ request.status = jobs[request.key].job.status
      <4>1. request.key \in Keys /\ attempt \in Attempts(request.key)
        BY <3>2 DEF TypeOK, PublishTypeOK, PublishAttempt, Publish, Attempts
      <4> QED BY <3>2, <4>1 DEF EffectInv, PublishInv
    <3> QED BY <3>1, <3>2
  <2>4. ASSUME NEW result \in completed_batch \cup publish_outcomes
        PROVE  jobs[result.key] # None /\ jobs[result.key].step = 2
    <3>1. result.key \in Keys /\ result \in Batched(result.key) \cup Reported(result.key)
      BY DEF TypeOK, ChannelsTypeOK, PublishTypeOK, PublishResult, Batched, Reported
    <3> QED BY <3>1 DEF EffectInv, PublishInv
  <2> QED BY <2>1, <2>2, <2>3, <2>4 DEF EffectHasJob
<1> QED BY <1>1, EffectsAlways, PTL
=============================================================================
