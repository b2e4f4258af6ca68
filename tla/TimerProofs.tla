---------------------------- MODULE TimerProofs ----------------------------
(***************************************************************************)
(* Proofs about snooze timers: a key that is at rest has a timer, or a     *)
(* wake under way, exactly when its confirmed status is to end.            *)
(***************************************************************************)
EXTENDS TopicProofs

-----------------------------------------------------------------------------
(* Statuses and ids *)

\* Only a bypass is to end.
Plain(status) == status.wake # NoWake => status.state = "Bypassed"

\* What an input of this life of the process asked for is plain.
PlainInput(e) == e.id # DEFAULT_HYDRATED_ID => Plain(e.status)

\* A job with the id of its key's intent has its status, too.
SameStatus(j) == j.id = speculative_state[j.key].id => j.status = speculative_state[j.key].status

\* Statuses that the service publishes are the ones that inputs asked for.
StatusInv ==
  /\ \A k \in Keys : /\ confirmed_state[k] # None => PlainInput(confirmed_state[k])
                     /\ speculative_state[k] # None => PlainInput(speculative_state[k])
  /\ committing # None => PlainInput(committing)
  /\ \A j \in Job : Carries(j) => PlainInput(j) /\ SameStatus(j)

\* Every input asks for a plain status, and a bypass ends when its timer does.
LEMMA PlainFacts ==
  /\ \A action \in UserAction : Plain(build_user_status(action))
  /\ \A field \in RedisSeverity : Plain(build_status_from_redis(field))
  /\ Plain(WakeStatus)
  /\ \A status \in Status, epics \in BOOLEAN :
       status.state = "Bypassed" => should_publish(status, epics, WakeStatus)
<1>1. ASSUME NEW action \in UserAction PROVE Plain(build_user_status(action))
  <2>1. /\ build_user_status(action).state = as_state(action)
        /\ build_user_status(action).wake = action.wake
    BY DEF build_user_status, DefaultStatus
  <2>2. action.wake # NoWake => as_state(action) = "Bypassed"
    BY DEF UserAction, as_state
  <2> QED BY <2>1, <2>2 DEF Plain
<1>2. ASSUME NEW field \in RedisSeverity PROVE Plain(build_status_from_redis(field))
  BY DEF Plain, build_status_from_redis, DefaultStatus, RedisSeverity
<1>3. Plain(WakeStatus) /\ WakeStatus.state = "Unbypassed"
  BY DEF Plain, WakeStatus, DefaultStatus
<1>4. ASSUME NEW status \in Status, NEW epics \in BOOLEAN, status.state = "Bypassed"
      PROVE  should_publish(status, epics, WakeStatus)
  BY <1>3, <1>4 DEF should_publish, transition_allowed
<1> QED BY <1>1, <1>2, <1>3, <1>4

\* A step that leaves the coordinator alone and starts no job keeps it.
LEMMA StatusFrame ==
  ASSUME StatusInv, UNCHANGED coordinatorVars, \A j \in Job : Carries(j)' => Carries(j)
  PROVE  StatusInv'
<1>1. UNCHANGED <<confirmed_state, speculative_state, committing>>
  BY DEF coordinatorVars
<1> QED BY <1>1 DEF StatusInv, PlainInput, SameStatus

\* Recorded intent.
LEMMA StatusIntent ==
  ASSUME TypeOK, JobInv, ConfirmInv, StatusInv, NEW k \in Keys, NEW status \in Status,
         Plain(status), NEW pending, RecordIntent(k, status, pending),
         \A j \in Job : Carries(j)' => Carries(j) \/ j = sending'
  PROVE  StatusInv'
<1> DEFINE entry == [status |-> status, id |-> id_counter]
           spec == [speculative_state EXCEPT ![k] = entry]
<1>1. entry \in Entry /\ entry # None /\ entry.id = id_counter /\ entry.status = status
  BY EntryFacts DEF TypeOK, CoordinatorTypeOK
<1> HIDE DEF entry
<1>2. /\ spec \in [Keys -> Entry \cup {None}] /\ spec[k] = entry
      /\ \A x \in Keys : x # k => spec[x] = speculative_state[x]
  BY <1>1 DEF TypeOK, CoordinatorTypeOK
<1>3. /\ speculative_state' = spec
      /\ sending' = IF speculative_state[k] = None
                       THEN send_next_for(k, spec, pending) ELSE None
      /\ UNCHANGED <<confirmed_state, committing>>
  BY DEF RecordIntent, entry
<1> HIDE DEF spec
<1>4. \A x \in Keys : /\ confirmed_state'[x] # None => PlainInput(confirmed_state'[x])
                      /\ speculative_state'[x] # None => PlainInput(speculative_state'[x])
  BY <1>1, <1>2, <1>3 DEF StatusInv, PlainInput
<1>5. committing' # None => PlainInput(committing')
  BY <1>3 DEF StatusInv
<1>6. ASSUME NEW j \in Job, j = sending' PROVE PlainInput(j) /\ SameStatus(j)'
  <2>1. j.key = k /\ j.id = id_counter /\ j.status = status
    BY <1>1, <1>2, <1>3, <1>6, NoneIsNoRecord, SendNextFacts
  <2> QED BY <1>1, <1>2, <1>3, <2>1 DEF PlainInput, SameStatus
<1>7. ASSUME NEW j \in Job, Carries(j) PROVE PlainInput(j) /\ SameStatus(j)'
  <2>1. j.id \in Nat /\ j.key \in Keys /\ j.id < id_counter /\ id_counter \in Nat
    BY <1>7, CarriesFacts, IdTypes DEF ConfirmInv, CarriedInv, IdInv
  <2>2. j.id # id_counter
    BY <2>1
  <2> QED BY <1>1, <1>2, <1>3, <1>7, <2>1, <2>2 DEF StatusInv, SameStatus
<1> QED BY <1>4, <1>5, <1>6, <1>7 DEF StatusInv, PlainInput

\* The other turns of the coordinator.
LEMMA StatusCoordinator ==
  ASSUME TypeOK, JobInv, EffectInv, TopicInv, ConfirmInv, JobInv', StatusInv, jobs' = jobs,
         reconcile_success \/ reconcile_failure \/ SendJob \/ SendFails
  PROVE  StatusInv'
<1>1. CASE reconcile_success
  <2> DEFINE job == Head(job_outcomes).job
             k == job.key
             entry == [status |-> job.status, id |-> job.id]
             pending == pending_confirmations \ {job.id}
  <2>1. /\ job_outcomes # <<>> /\ Head(job_outcomes).kind = "Committed" /\ sending = None
        /\ job_outcomes' = Tail(job_outcomes) /\ job_queue' = job_queue
    BY <1>1 DEF reconcile_success, Listening
  <2>2. job \in Job /\ Carries(job) /\ k \in Keys /\ speculative_state[k] # None
    BY <2>1, HeadFacts, CarriesHead, IdTypes
  <2>3. \A j \in Job : Carries(j)' => Carries(j) \/ j = sending'
    BY <2>1, CarriesCoordinator
  <2>4. PlainInput(job)
    BY <2>2 DEF StatusInv
  <2>5. IF IsSuperseded(job)
          THEN /\ sending' = send_next_for(k, speculative_state, pending)
               /\ committing' = job
               /\ UNCHANGED <<speculative_state, confirmed_state>>
          ELSE /\ speculative_state' = [speculative_state EXCEPT ![k] = None]
               /\ confirmed_state' = [confirmed_state EXCEPT ![k] = entry]
               /\ UNCHANGED <<sending, committing>>
    BY <1>1 DEF reconcile_success
  <2>6. PICK x \in Keys : x = k
    BY <2>2
  <2> HIDE DEF job
  <2>7. CASE IsSuperseded(job)
    <3>1. sending'.key = x /\ sending'.id = speculative_state[x].id
          /\ sending'.status = speculative_state[x].status
      BY <2>2, <2>5, <2>6, <2>7, SendNextFacts DEF TypeOK, CoordinatorTypeOK
    <3>2. \A j \in Job : j = sending' => PlainInput(j) /\ SameStatus(j)'
      BY <2>2, <2>5, <2>6, <2>7, <3>1 DEF StatusInv, PlainInput, SameStatus
    <3>3. \A j \in Job : SameStatus(j) => SameStatus(j)'
      BY <2>5, <2>7 DEF SameStatus
    <3> QED BY <2>3, <2>4, <2>5, <2>7, <3>2, <3>3 DEF StatusInv, PlainInput
  <2>8. CASE ~IsSuperseded(job)
    <3>1. entry.id = job.id /\ entry.status = job.status
      OBVIOUS
    <3> HIDE DEF entry
    <3>2. /\ speculative_state'[x] = None /\ confirmed_state'[x] = entry
          /\ \A y \in Keys : y # x => /\ speculative_state'[y] = speculative_state[y]
                                      /\ confirmed_state'[y] = confirmed_state[y]
      BY <2>5, <2>6, <2>8 DEF TypeOK, CoordinatorTypeOK
    <3>3. ASSUME NEW j \in Job, Carries(j)' PROVE Carries(j) /\ j.key # x /\ j.key \in Keys
      BY <2>1, <2>3, <2>5, <2>8, <3>2, <3>3, CarriesFactsNext, NoneIsNoRecord, IdTypes
    <3>4. \A j \in Job : Carries(j)' => PlainInput(j) /\ SameStatus(j)'
      BY <3>2, <3>3 DEF StatusInv, SameStatus
    <3>5. \A y \in Keys : confirmed_state'[y] # None => PlainInput(confirmed_state'[y])
      BY <2>4, <3>1, <3>2 DEF StatusInv, PlainInput
    <3> QED BY <2>5, <2>8, <3>2, <3>4, <3>5 DEF StatusInv, PlainInput
  <2> QED BY <2>7, <2>8
<1>2. CASE reconcile_failure
  <2> DEFINE job == Head(job_outcomes).job
             pending == pending_confirmations \ {job.id}
  <2>1. /\ job_outcomes # <<>> /\ Head(job_outcomes).kind = "Failed" /\ sending = None
        /\ job_outcomes' = Tail(job_outcomes) /\ job_queue' = job_queue
    BY <1>2 DEF reconcile_failure, Listening
  <2>2. PICK k \in Keys :
          /\ k = Head(job_outcomes).key /\ k = job.key
          /\ speculative_state[k] # None /\ speculative_state'[k] # None
          /\ \A x \in Keys : x # k => speculative_state'[x] = speculative_state[x]
          /\ UNCHANGED <<confirmed_state, committing>>
    BY <1>2, <2>1, FailureFacts, HeadFacts
  <2>3. \A j \in Job : Carries(j)' => Carries(j) \/ j = sending'
    BY <2>1, CarriesCoordinator
  <2>4. /\ sending' = send_next_for(k, speculative_state', pending)
        /\ \/ speculative_state' = speculative_state
           \/ speculative_state' = [speculative_state EXCEPT ![k] = converge_to_last_confirmed(k)]
    BY <1>2, <2>2 DEF reconcile_failure
  <2>5. PlainInput(converge_to_last_confirmed(k))
    <3>1. CASE confirmed_state[k] # None
      BY <3>1 DEF converge_to_last_confirmed, StatusInv
    <3>2. CASE confirmed_state[k] = None
      BY <3>2 DEF converge_to_last_confirmed, PlainInput
    <3> QED BY <3>1, <3>2
  <2>6. \A x \in Keys : speculative_state'[x] # None => PlainInput(speculative_state'[x])
    BY <2>2, <2>4, <2>5 DEF StatusInv, TypeOK, CoordinatorTypeOK
  <2>7. speculative_state' \in [Keys -> Entry \cup {None}]
    <3>1. converge_to_last_confirmed(k) \in Entry
      BY StatusTypes DEF converge_to_last_confirmed, TypeOK, CoordinatorTypeOK, Entry,
                         DEFAULT_HYDRATED_ID
    <3> QED BY <2>4, <3>1 DEF TypeOK, CoordinatorTypeOK
  <2>8. /\ sending' # None /\ sending'.key = k /\ sending'.id = speculative_state'[k].id
        /\ sending'.status = speculative_state'[k].status
    BY <2>2, <2>4, <2>7, SendNextFacts
  <2>9. ASSUME NEW j \in Job, Carries(j)' PROVE PlainInput(j) /\ SameStatus(j)'
    <3>1. CASE j = sending'
      BY <2>2, <2>6, <2>8, <3>1 DEF PlainInput, SameStatus
    <3>2. CASE j # sending'
      <4>1. InSending(k)'
        BY <2>8 DEF InSending
      <4>2. Carries(j) /\ j.key # k /\ j.key \in Keys
        BY <2>3, <2>9, <3>2, <4>1, CarriesFactsNext, IdTypes
      <4> QED BY <2>2, <4>2 DEF StatusInv, SameStatus
    <3> QED BY <3>1, <3>2
  <2> QED BY <2>2, <2>6, <2>9 DEF StatusInv, PlainInput
<1>3. CASE SendJob
  <2>1. /\ sending # None /\ sending' = None /\ committing' = None
        /\ job_queue' = Append(job_queue, sending)
        /\ confirmed_state' = Commit /\ UNCHANGED <<speculative_state, job_outcomes>>
    BY <1>3 DEF SendJob
  <2>2. \A j \in Job : Carries(j)' => Carries(j)
    BY <2>1, IdTypes, CarriesCoordinator, NoneIsNoRecord
  <2>3. ASSUME NEW x \in Keys, confirmed_state'[x] # None PROVE PlainInput(confirmed_state'[x])
    <3>1. CASE confirmed_state'[x] = confirmed_state[x]
      BY <2>3, <3>1 DEF StatusInv
    <3>2. CASE /\ committing # None
               /\ confirmed_state'[x] = [status |-> committing.status, id |-> committing.id]
      BY <3>2 DEF StatusInv, PlainInput
    <3> QED BY <2>1, <3>1, <3>2 DEF Commit, TypeOK, CoordinatorTypeOK
  <2> QED BY <2>1, <2>2, <2>3 DEF StatusInv, PlainInput, SameStatus
<1>4. CASE SendFails
  <2>1. /\ sending' = None /\ committing' = None
        /\ UNCHANGED <<confirmed_state, speculative_state, job_queue, job_outcomes>>
    BY <1>4 DEF SendFails, fail_all_confirmations, jobChannels
  <2>2. \A j \in Job : Carries(j)' => Carries(j)
    BY <2>1, CarriesCoordinator, NoneIsNoRecord
  <2> QED BY <2>1, <2>2 DEF StatusInv, PlainInput, SameStatus
<1> QED BY <1>1, <1>2, <1>3, <1>4

\* At a start there are only hydrated ids.
LEMMA StatusInit == Init => StatusInv
<1> SUFFICES ASSUME Init PROVE StatusInv
  OBVIOUS
<1>1. PICK hydrated \in load_startup_hydration(kafka) : new(hydrated)
  BY DEF Init
<1>2. /\ speculative_state = [k \in Keys |-> None] /\ sending = None /\ committing = None
      /\ job_queue = <<>> /\ job_outcomes = <<>> /\ jobs = [k \in Keys |-> None]
  BY <1>1 DEF new, Init, ChannelsInit, WorkflowInit
<1>3. \A k \in Keys : confirmed_state[k] # None => confirmed_state[k].id = DEFAULT_HYDRATED_ID
  BY <1>1 DEF new
<1>4. \A j \in Job : ~Carries(j)
  <2>1. \A j \in Job : j # None /\ j.key \in Keys
    BY NoneIsNoRecord DEF Job
  <2> QED BY <1>2, <2>1 DEF Carries, Holds
<1> QED BY <1>2, <1>3, <1>4 DEF StatusInv, PlainInput

\* After a restart, too.
LEMMA StatusRestart ==
  ASSUME Restart
  PROVE  StatusInv'
<1>1. PICK hydrated \in load_startup_hydration(kafka) :
        confirmed_state' = [k \in Keys |->
          IF hydrated[k] = None THEN None
          ELSE [status |-> hydrated[k], id |-> DEFAULT_HYDRATED_ID]]
  BY DEF Restart
<1>2. /\ speculative_state' = [k \in Keys |-> None] /\ sending' = None /\ committing' = None
      /\ job_queue' = <<>> /\ job_outcomes' = <<>> /\ jobs' = [k \in Keys |-> None]
  BY DEF Restart
<1>3. \A k \in Keys : confirmed_state'[k] # None => confirmed_state'[k].id = DEFAULT_HYDRATED_ID
  BY <1>1
<1>4. \A j \in Job : ~Carries(j)'
  <2>1. \A j \in Job : j # None /\ j.key \in Keys
    BY NoneIsNoRecord DEF Job
  <2> QED BY <1>2, <2>1 DEF Carries, Holds
<1> QED BY <1>2, <1>3, <1>4 DEF StatusInv, PlainInput

\* Every step of the service keeps the status invariant.
LEMMA StatusStep ==
  TypeOK /\ JobInv /\ EffectInv /\ TopicInv /\ ConfirmInv /\ StatusInv /\ [Next]_vars => StatusInv'
<1> SUFFICES ASSUME TypeOK, JobInv, EffectInv, TopicInv, ConfirmInv, StatusInv, [Next]_vars
             PROVE  StatusInv'
  OBVIOUS
<1>1. JobInv'
  BY JobStep
<1>2. CASE UNCHANGED <<coordinatorVars, workflowVars, jobChannels>>
  <2>1. \A j \in Job : Carries(j)' => Carries(j)
    BY <1>2 DEF Carries, Holds, Outcomes, Committed, Failed, coordinatorVars, workflowVars,
                jobChannels
  <2> QED BY <1>2, <2>1, StatusFrame
<1>3. CASE Inputs
  <2>1. jobs' = jobs /\ UNCHANGED jobChannels
    BY <1>3 DEF Inputs, workflowVars, handle_user_update, handle_automated_update
  <2>2. \A j \in Job : Carries(j)' => Carries(j) \/ j = sending'
    BY <2>1, CarriesCoordinator DEF jobChannels
  <2>3. ASSUME NEW k \in Keys, NEW action \in UserAction, handle_user_update(k, action)
        PROVE  StatusInv'
    BY <2>2, <2>3, StatusTypes, PlainFacts, StatusIntent DEF handle_user_update
  <2>4. ASSUME NEW k \in Keys, NEW field \in RedisInputs,
               handle_automated_update(k, build_status_from_redis(field))
        PROVE  StatusInv'
    BY <2>2, <2>4, StatusTypes, InputsAssumption, PlainFacts, StatusIntent
       DEF handle_automated_update
  <2> QED BY <1>3, <2>3, <2>4 DEF Inputs
<1>4. CASE reconcile_job_outcome
  <2>1. jobs' = jobs
    BY <1>4 DEF reconcile_job_outcome, workflowVars
  <2>2. CASE dispatch_automated_wake
    <3>1. /\ sending = None /\ job_outcomes # <<>>
          /\ job_outcomes' = Tail(job_outcomes) /\ job_queue' = job_queue
      BY <2>2 DEF dispatch_automated_wake, Listening
    <3>2. PICK k \in Keys : k = Head(job_outcomes).key
      BY <3>1, HeadFacts
    <3>3. \A j \in Job : Carries(j)' => Carries(j) \/ j = sending'
      BY <2>1, <3>1, CarriesCoordinator
    <3>4. CASE RecordIntent(k, WakeStatus, pending_confirmations)
      BY <3>3, <3>4, StatusTypes, PlainFacts, StatusIntent
    <3>5. CASE UNCHANGED coordinatorVars
      <4>1. sending' = None
        BY <3>1, <3>5 DEF coordinatorVars
      <4> QED BY <3>3, <3>5, <4>1, NoneIsNoRecord, StatusFrame
    <3> QED BY <2>2, <3>2, <3>4, <3>5 DEF dispatch_automated_wake
  <2> QED BY <1>1, <1>4, <2>1, <2>2, StatusCoordinator DEF reconcile_job_outcome
<1>5. CASE Send
  <2>1. jobs' = jobs
    BY <1>5 DEF Send, workflowVars
  <2> QED BY <1>1, <1>5, <2>1, StatusCoordinator DEF Send
<1>6. CASE WorkflowStep \/ WorkflowEnds
  <2>1. UNCHANGED coordinatorVars
    BY <1>6 DEF WorkflowStep, WorkflowEnds
  <2> QED BY <1>6, <2>1, CarriesHandler, StatusFrame
<1>7. ASSUME NEW k \in Keys, SnoozeCommand(k) \/ SnoozeExpires(k) PROVE StatusInv'
  BY <1>2, <1>7 DEF SnoozeCommand, SnoozeExpires, OutsideSnooze
<1>8. ASSUME NEW k \in Keys, PublishReceived(k) \/ PublishAccepted(k) \/ PublishFailed(k)
      PROVE  StatusInv'
  BY <1>2, <1>8 DEF PublishReceived, PublishAccepted, PublishFailed, OutsidePublish
<1>9. CASE Flush \/ Clock \/ UNCHANGED vars
  BY <1>2, <1>9 DEF Flush, Clock, OutsidePublish, OutsideSnooze, vars
<1>10. CASE Restart
  BY <1>10, StatusRestart
<1> QED BY <1>3, <1>4, <1>5, <1>6, <1>7, <1>8, <1>9, <1>10 DEF Next

-----------------------------------------------------------------------------
(* The inductive invariant *)

\* The answer that a command of key k was obeyed.
Accepted(k) == [kind |-> "Accepted", key |-> k]

\* The outcome of key k's timer.
Expired(k) == [kind |-> "Expired", key |-> k]

\* Key k has a timer for wake, or a wake under way, and no timer for no wake.
Matches(k, wake) ==
  IF wake = NoWake THEN timer[k] = NoWake ELSE OnTime(timer[k], wake) \/ WakeQueued(k)

\* The scheduler has obeyed the command of job j.
Timed(j) ==
  \/ /\ jobs[j.key] # None /\ jobs[j.key].job = j
     /\ jobs[j.key].step = 2 \/ Holds(snooze_outcomes, {Accepted(j.key)})
  \/ Holds(job_outcomes, {Committed(j)})

\* The timer of a key at rest is what its confirmed status says.
RestTimer(k) ==
  /\ speculative_state[k] = None
  /\ confirmed_state[k] # None
  /\ confirmed_state[k].id # DEFAULT_HYDRATED_ID
  => Matches(k, confirmed_state[k].status.wake)

\* Until newer intent is recorded, the timer is what the job says that set it.
JobTimer(j) ==
  /\ Timed(j)
  /\ j.id # DEFAULT_HYDRATED_ID
  /\ speculative_state[j.key].id = j.id
  => Matches(j.key, j.status.wake)

\* The inductive invariant behind TimerMatchesConfirmed.
TimerInv ==
  running /\ workflow_up =>
    (\A k \in Keys : RestTimer(k)) /\ (\A j \in Job : JobTimer(j))

\* A wake under way, in the terms of the channels.
LEMMA WakeFacts ==
  ASSUME NEW k
  PROVE  /\ WakeQueued(k) <=> \/ Holds(snooze_outcomes, {Expired(k)})
                              \/ Holds(job_outcomes, {Wake(k)})
         /\ WakeQueued(k)' <=> \/ Holds(snooze_outcomes', {Expired(k)})
                               \/ Holds(job_outcomes', {Wake(k)})
BY DEF WakeQueued, Holds, Expired, Wake

\* The messages of different kinds and keys differ.
LEMMA MessagesDiffer ==
  /\ \A k, l : Accepted(k) # Expired(l) /\ (Expired(k) = Expired(l) => k = l)
               /\ (Accepted(k) = Accepted(l) => k = l)
  /\ \A k, l : Wake(k) = Wake(l) => k = l
  /\ \A k, j : Wake(k) # Committed(j) /\ Wake(k) # Failed(j)
  /\ \A i, j : Committed(i) # Failed(j) /\ (Committed(i) = Committed(j) => i = j)
BY DEF Accepted, Expired, Wake, Committed, Failed

\* A job whose command was obeyed is on its way, past the coordinator's queue.
LEMMA TimedFacts ==
  ASSUME JobInv, NEW j \in Job, Timed(j)
  PROVE  /\ Carries(j) /\ j.key \in Keys
         /\ InWorkflow(j.key) \/ InOutcomes(j.key)
         /\ ~InSending(j.key) /\ ~InQueue(j.key)
         /\ speculative_state[j.key] # None
<1>1. j.key \in Keys
  BY DEF Job
<1>2. Carries(j)
  BY DEF Timed, Carries, Holds, Outcomes
<1>3. InWorkflow(j.key) \/ InOutcomes(j.key)
  BY DEF Timed, InWorkflow, InOutcomes, Holds, Committed
<1> QED BY <1>1, <1>2, <1>3 DEF JobInv, KeyInv, OneJob, InFlight

\* The same of the state after a step.
LEMMA TimedFactsNext ==
  ASSUME JobInv', NEW j \in Job, Timed(j)'
  PROVE  /\ j.key \in Keys
         /\ ~InSending(j.key)'
         /\ speculative_state'[j.key] # None
<1>1. j.key \in Keys
  BY DEF Job
<1>2. InWorkflow(j.key)' \/ InOutcomes(j.key)'
  BY DEF Timed, InWorkflow, InOutcomes, Holds, Committed
<1> QED BY <1>1, <1>2 DEF JobInv, KeyInv, OneJob, InFlight

\* A step that leaves the coordinator alone keeps the invariant when it times no
\* job and keeps every timer and wake that there is reason for.
LEMMA TimerFrame ==
  ASSUME TimerInv, UNCHANGED coordinatorVars, workflow_up' => workflow_up,
         \A j \in Job : Timed(j)' => Timed(j),
         \A k \in Keys, w \in Wakes \cup {NoWake} : Matches(k, w) => Matches(k, w)',
         TypeOK
  PROVE  TimerInv'
<1>1. UNCHANGED <<confirmed_state, speculative_state, running>>
  BY DEF coordinatorVars
<1> SUFFICES ASSUME running, workflow_up
             PROVE  (\A k \in Keys : RestTimer(k)') /\ (\A j \in Job : JobTimer(j)')
  BY <1>1 DEF TimerInv
<1>2. \A k \in Keys : confirmed_state[k] # None =>
        confirmed_state[k].status.wake \in Wakes \cup {NoWake}
  BY DEF TypeOK, CoordinatorTypeOK, Entry, Status
<1>3. \A j \in Job : j.key \in Keys /\ j.status.wake \in Wakes \cup {NoWake}
  BY DEF Job, Status
<1>4. ASSUME NEW k \in Keys PROVE RestTimer(k)'
  BY <1>1, <1>2 DEF TimerInv, RestTimer
<1>5. ASSUME NEW j \in Job PROVE JobTimer(j)'
  BY <1>1, <1>3 DEF TimerInv, JobTimer
<1> QED BY <1>4, <1>5

\* The handler times no job and hands wakes on.
LEMMA TimerHandler ==
  ASSUME TypeOK, JobInv, EffectInv, TimerInv, WorkflowStep
  PROVE  TimerInv'
<1>1. /\ UNCHANGED coordinatorVars /\ timer' = timer
      /\ job_outcomes \in Seq(JobOutcome) /\ snooze_outcomes \in Seq(SnoozeOutcome)
      /\ jobs \in [Keys -> TrackedJob \cup {None}] /\ \A j \in Job : j.key \in Keys
  BY DEF WorkflowStep, snoozeVars, TypeOK, ChannelsTypeOK, WorkflowTypeOK, Job
<1>2. workflow_up' = workflow_up
  BY DEF WorkflowStep, handle_new_job, handle_snooze_result, dispatch_publish_result
<1>3. ASSUME \A j \in Job : Timed(j)' => Timed(j),
             \A k \in Keys : WakeQueued(k) => WakeQueued(k)'
      PROVE  TimerInv'
  BY <1>1, <1>2, <1>3, TimerFrame DEF Matches
<1>4. CASE handle_new_job
  <2> DEFINE job == Head(job_queue)
             started == [job |-> job, step |-> 1]
  <2>1. /\ job_queue # <<>> /\ snooze_outcomes = <<>>
        /\ UNCHANGED <<snooze_outcomes, job_outcomes>>
    BY <1>4 DEF handle_new_job, advance_workflow, WORKFLOW_ORDER
  <2>2. job \in Job
    BY <2>1, TailFacts DEF TypeOK, ChannelsTypeOK
  <2>3. PICK k \in Keys : k = job.key
    BY <1>1, <2>2
  <2>4. jobs' = [jobs EXCEPT ![k] = started]
    BY <1>4, <2>3 DEF handle_new_job, advance_workflow, WORKFLOW_ORDER
  <2>5. /\ jobs'[k].step = 1
        /\ \A x \in Keys : x # k => jobs'[x] = jobs[x]
    BY <1>1, <2>4
  <2>6. \A x : ~Holds(snooze_outcomes, {Accepted(x)})'
    BY <2>1 DEF Holds
  <2>7. ASSUME NEW j \in Job, Timed(j)' PROVE Timed(j)
    <3>1. Holds(job_outcomes, {Committed(j)})' => Holds(job_outcomes, {Committed(j)})
      BY <2>1 DEF Holds, Committed
    <3> QED BY <1>1, <2>5, <2>6, <2>7, <3>1 DEF Timed
  <2>8. \A x \in Keys : WakeQueued(x) => WakeQueued(x)'
    BY <2>1, WakeFacts
  <2> QED BY <1>3, <2>7, <2>8
<1>5. CASE handle_snooze_result
  <2> DEFINE result == Head(snooze_outcomes)
  <2>1. snooze_outcomes # <<>> /\ snooze_outcomes' = Tail(snooze_outcomes)
    BY <1>5 DEF handle_snooze_result
  <2>2. result \in SnoozeOutcome
    BY <1>1, <2>1, TailFacts
  <2>3. PICK k \in Keys : k = result.key
    BY <2>2 DEF SnoozeOutcome
  <2>4. /\ \A x : Holds(snooze_outcomes', {Accepted(x)}) => Holds(snooze_outcomes, {Accepted(x)})
        /\ \A x : Holds(snooze_outcomes, {Expired(x)}) =>
                    Holds(snooze_outcomes', {Expired(x)}) \/ result = Expired(x)
    BY <1>1, <2>1, HoldsTail
  <2>5. ASSUME jobs[k] # None, jobs' = [jobs EXCEPT ![k] = None], result.kind # "Expired",
               job_outcomes' = Append(job_outcomes, Failed(jobs[k].job))
        PROVE  TimerInv'
    <3>1. Failed(jobs[k].job) \in JobOutcome
      BY <1>1, <2>5, OutcomeTypes DEF TrackedJob
    <3>2. \A x, j : /\ Holds(job_outcomes', {Committed(j)}) => Holds(job_outcomes, {Committed(j)})
                    /\ Holds(job_outcomes, {Wake(x)}) => Holds(job_outcomes', {Wake(x)})
      BY <1>1, <2>5, <3>1, HoldsAppend, MessagesDiffer
    <3>3. \A x \in Keys : jobs'[x] # None => jobs'[x] = jobs[x]
      BY <1>1, <2>5
    <3>4. ASSUME NEW j \in Job, Timed(j)' PROVE Timed(j)
      BY <1>1, <2>4, <3>2, <3>3, <3>4 DEF Timed, Accepted, Committed
    <3>5. \A x : result # Expired(x)
      BY <2>5 DEF Expired
    <3>6. \A x \in Keys : WakeQueued(x) => WakeQueued(x)'
      BY <2>4, <3>2, <3>5, WakeFacts
    <3> QED BY <1>3, <3>4, <3>6
  <2>6. CASE result.kind = "Accepted" /\ jobs[k] # None /\ advance_workflow(k, jobs[k])
    <3>1. result = Accepted(k)
      BY <2>2, <2>3, <2>6 DEF SnoozeOutcome, Accepted
    <3>2. Holds(snooze_outcomes, {Accepted(k)})
      BY <1>1, <2>1, <3>1, HoldsTail
    <3>3. Holds(snooze_outcomes, Answers(k))
      BY <1>1, <3>2, TailFacts DEF Holds, Answers, Accepted
    <3>4. jobs[k].step = 1
      BY <3>3 DEF EffectInv, SnoozeInv
    <3>5. /\ jobs' = [jobs EXCEPT ![k] = [job |-> jobs[k].job, step |-> 2]]
          /\ job_outcomes' = job_outcomes
      BY <2>6, <3>4 DEF advance_workflow, WORKFLOW_ORDER
    <3>6. /\ jobs'[k].job = jobs[k].job
          /\ \A x \in Keys : x # k => jobs'[x] = jobs[x]
      BY <1>1, <3>5
    <3>7. ASSUME NEW j \in Job, Timed(j)' PROVE Timed(j)
      <4>1. Holds(job_outcomes, {Committed(j)})' => Holds(job_outcomes, {Committed(j)})
        BY <3>5 DEF Holds, Committed
      <4>2. Holds(snooze_outcomes, {Accepted(j.key)})' => Holds(snooze_outcomes, {Accepted(j.key)})
        BY <2>4 DEF Holds, Accepted
      <4> QED BY <1>1, <2>6, <3>2, <3>6, <3>7, <4>1, <4>2 DEF Timed
    <3>8. \A x \in Keys : WakeQueued(x) => WakeQueued(x)'
      BY <2>4, <3>1, <3>5, WakeFacts, MessagesDiffer
    <3> QED BY <1>3, <3>7, <3>8
  <2>7. CASE /\ result.kind = "Expired"
             /\ job_outcomes' = Append(job_outcomes, Wake(k)) /\ jobs' = jobs
    <3>1. Wake(k) \in JobOutcome
      BY OutcomeTypes
    <3>2. \A x, j : /\ Holds(job_outcomes', {Committed(j)}) => Holds(job_outcomes, {Committed(j)})
                    /\ Holds(job_outcomes, {Wake(x)}) => Holds(job_outcomes', {Wake(x)})
      BY <1>1, <2>7, <3>1, HoldsAppend, MessagesDiffer
    <3>3. Holds(job_outcomes', {Wake(k)})
      BY <1>1, <2>7, <3>1, HoldsAppend
    <3>4. ASSUME NEW j \in Job, Timed(j)' PROVE Timed(j)
      BY <2>4, <2>7, <3>2, <3>4 DEF Timed, Accepted, Committed
    <3>5. \A x \in Keys : result = Expired(x) => x = k
      BY <2>3 DEF Expired
    <3>6. \A x \in Keys : WakeQueued(x) => WakeQueued(x)'
      BY <2>4, <3>2, <3>3, <3>5, WakeFacts
    <3> QED BY <1>3, <3>4, <3>6
  <2> QED BY <1>5, <2>3, <2>5, <2>6, <2>7 DEF handle_snooze_result, send_failed
<1>6. ASSUME NEW result \in publish_outcomes, dispatch_publish_result(result)
      PROVE  TimerInv'
  <2>1. PICK k \in Keys : k = result.key
    BY DEF TypeOK, ChannelsTypeOK, PublishResult
  <2>2. /\ jobs[k] # None /\ jobs' = [jobs EXCEPT ![k] = None] /\ snooze_outcomes' = snooze_outcomes
        /\ \E o \in Outcomes(jobs[k].job) : job_outcomes' = Append(job_outcomes, o)
    BY <1>6, <2>1 DEF dispatch_publish_result, send_failed, Outcomes, snoozeChannels
  <2>3. PICK o \in Outcomes(jobs[k].job) : job_outcomes' = Append(job_outcomes, o)
    BY <2>2
  <2>4. jobs[k].job \in Job /\ jobs[k].job.key = k /\ jobs[k].step = 2
    <3>1. result \in Reported(k)
      BY <2>1 DEF Reported
    <3> QED BY <1>1, <2>2, <3>1 DEF EffectInv, PublishInv, TrackedJob, JobInv, TrackedKeys
  <2>5. o \in JobOutcome
    BY <2>4, OutcomeTypes DEF Outcomes
  <2>6. \A x, j : /\ Holds(job_outcomes', {Committed(j)}) =>
                       Holds(job_outcomes, {Committed(j)}) \/ j = jobs[k].job
                  /\ Holds(job_outcomes, {Wake(x)}) => Holds(job_outcomes', {Wake(x)})
    <3>1. \A M : Holds(job_outcomes', M) <=> Holds(job_outcomes, M) \/ o \in M
      BY <1>1, <2>3, <2>5, HoldsAppend
    <3>2. \A j : o = Committed(j) => j = jobs[k].job
      BY MessagesDiffer DEF Outcomes
    <3> QED BY <3>1, <3>2
  <2>7. \A x \in Keys : jobs'[x] # None => jobs'[x] = jobs[x]
    BY <1>1, <2>2
  <2>8. ASSUME NEW j \in Job, Timed(j)' PROVE Timed(j)
    BY <1>1, <2>2, <2>4, <2>6, <2>7, <2>8 DEF Timed, Accepted, Committed
  <2>9. \A x \in Keys : WakeQueued(x) => WakeQueued(x)'
    BY <2>2, <2>6, WakeFacts
  <2> QED BY <1>3, <2>8, <2>9
<1> QED BY <1>4, <1>5, <1>6 DEF WorkflowStep

\* The scheduler's answer comes with the timer it is about.
LEMMA TimerCommand ==
  ASSUME TypeOK, JobInv, EffectInv, TimerInv, NEW k \in Keys, SnoozeCommand(k)
  PROVE  TimerInv'
<1>1. PICK input \in snooze_inputs : input.key = k /\ handle_snooze_input(input)
  BY DEF SnoozeCommand
<1>2. /\ UNCHANGED <<coordinatorVars, jobs, workflow_up, job_outcomes>>
      /\ UNCHANGED <<confirmed_state, speculative_state, running>>
  BY DEF SnoozeCommand, OutsideSnooze, workflowVars, jobChannels, coordinatorVars
<1>3. /\ snooze_outcomes \in Seq(SnoozeOutcome) /\ timer \in [Keys -> Wakes \cup {NoWake}]
      /\ \A j \in Job : j.key \in Keys
  BY DEF TypeOK, ChannelsTypeOK, SnoozeTypeOK, Job
<1>4. jobs[k] # None /\ jobs[k].step = 1 /\ input.wake = jobs[k].job.status.wake
  <2>1. input \in Commands(k)
    BY <1>1 DEF Commands
  <2> QED BY <2>1 DEF EffectInv, SnoozeInv
<1>5. InWorkflow(k) /\ ~InOutcomes(k) /\ speculative_state[k] # None
  BY <1>4 DEF InWorkflow, JobInv, KeyInv, OneJob, InFlight
<1>6. ASSUME NEW kind \in {"Accepted", "InvalidWake"},
             snooze_outcomes' = Append(snooze_outcomes, [kind |-> kind, key |-> k])
      PROVE  /\ \A x : Holds(snooze_outcomes, {Expired(x)}) => Holds(snooze_outcomes', {Expired(x)})
             /\ \A x : Holds(snooze_outcomes', {Accepted(x)}) =>
                         Holds(snooze_outcomes, {Accepted(x)}) \/ (x = k /\ kind = "Accepted")
  <2>1. [kind |-> kind, key |-> k] \in SnoozeOutcome
    BY DEF SnoozeOutcome
  <2>2. \A x : [kind |-> kind, key |-> k] = Accepted(x) => x = k /\ kind = "Accepted"
    BY DEF Accepted
  <2> QED BY <1>3, <1>6, <2>1, <2>2, HoldsAppend
<1>7. CASE UNCHANGED timer /\ Respond(input, "InvalidWake")
  <2>1. snooze_outcomes' = Append(snooze_outcomes, [kind |-> "InvalidWake", key |-> k])
    BY <1>1, <1>7 DEF Respond
  <2>2. \A x : /\ Holds(snooze_outcomes, {Expired(x)}) => Holds(snooze_outcomes', {Expired(x)})
               /\ Holds(snooze_outcomes', {Accepted(x)}) => Holds(snooze_outcomes, {Accepted(x)})
    BY <1>6, <2>1
  <2>3. ASSUME NEW j \in Job, Timed(j)' PROVE Timed(j)
    BY <1>2, <2>2, <2>3 DEF Timed, Accepted, Committed
  <2>4. \A x \in Keys : WakeQueued(x) => WakeQueued(x)'
    BY <1>2, <2>2, WakeFacts
  <2>5. \A x \in Keys, w \in Wakes \cup {NoWake} : Matches(x, w) => Matches(x, w)'
    BY <1>7, <2>4 DEF Matches
  <2> QED BY <1>2, <2>3, <2>5, TimerFrame
<1>8. CASE /\ timer' \in {CancelTimer(k), SetTimer(k, input.wake)}
           /\ IF input.wake = NoWake THEN timer'[k] = NoWake
                                     ELSE OnTime(timer'[k], input.wake)
           /\ \A x \in Keys : x # k => timer'[x] = timer[x]
           /\ Respond(input, "Accepted")
  <2>1. snooze_outcomes' = Append(snooze_outcomes, [kind |-> "Accepted", key |-> k])
    BY <1>1, <1>8 DEF Respond
  <2>2. \A x : /\ Holds(snooze_outcomes, {Expired(x)}) => Holds(snooze_outcomes', {Expired(x)})
               /\ x # k /\ Holds(snooze_outcomes', {Accepted(x)}) =>
                    Holds(snooze_outcomes, {Accepted(x)})
    <3>1. \A x : Holds(snooze_outcomes', {Accepted(x)}) =>
                   Holds(snooze_outcomes, {Accepted(x)}) \/ (x = k /\ "Accepted" = "Accepted")
      BY <1>6, <2>1
    <3>2. \A x : Holds(snooze_outcomes, {Expired(x)}) => Holds(snooze_outcomes', {Expired(x)})
      BY <1>6, <2>1
    <3> QED BY <3>1, <3>2
  <2>3. \A x \in Keys : WakeQueued(x) => WakeQueued(x)'
    BY <1>2, <2>2, WakeFacts
  <2> SUFFICES ASSUME running, workflow_up
               PROVE  (\A x \in Keys : RestTimer(x)') /\ (\A j \in Job : JobTimer(j)')
    BY <1>2 DEF TimerInv, coordinatorVars
  <2>4. ASSUME NEW x \in Keys PROVE RestTimer(x)'
    BY <1>2, <1>5, <1>8, <2>3 DEF TimerInv, RestTimer, Matches
  <2>5. ASSUME NEW j \in Job PROVE JobTimer(j)'
    <3>1. CASE j.key # k
      <4>1. Timed(j)' => Timed(j)
        BY <1>2, <2>2, <3>1 DEF Timed, Accepted, Committed
      <4> QED BY <1>2, <1>3, <1>8, <2>3, <3>1, <4>1 DEF TimerInv, JobTimer, Matches
    <3>2. CASE j.key = k
      <4>1. ~Holds(job_outcomes, {Committed(j)})
        BY <1>5, <3>2 DEF InOutcomes, Holds, Committed
      <4>2. Timed(j)' => j.status.wake = input.wake
        BY <1>2, <1>4, <3>2, <4>1 DEF Timed, Holds, Committed
      <4> QED BY <1>8, <3>2, <4>2 DEF JobTimer, Matches
    <3> QED BY <3>1, <3>2
  <2> QED BY <2>4, <2>5
<1>9. CASE input.wake = NoWake /\ timer' = CancelTimer(k) /\ Respond(input, "Accepted")
  BY <1>3, <1>8, <1>9 DEF CancelTimer
<1>10. CASE /\ input.wake # NoWake /\ input.wake >= now
            /\ timer' = SetTimer(k, input.wake) /\ Respond(input, "Accepted")
  <2>1. OnTime(timestamp_secs_to_instant(input.wake), input.wake)
    <3>1. input.wake \in Wakes \cup {NoWake} /\ now \in 0 .. MaxTime
      BY DEF TypeOK, ChannelsTypeOK, SnoozeInput, SnoozeTypeOK
    <3> QED BY <1>10, <3>1, MaxDelayAssumption, MaxTimeAssumption
            DEF timestamp_secs_to_instant, OnTime, NoWake, Wakes
  <2> QED BY <1>3, <1>8, <1>10, <2>1 DEF SetTimer
<1> QED BY <1>1, <1>7, <1>9, <1>10 DEF handle_snooze_input

\* A timer that fires leaves a wake behind.
LEMMA TimerExpires ==
  ASSUME TypeOK, TimerInv, NEW k \in Keys, SnoozeExpires(k)
  PROVE  TimerInv'
<1>1. /\ timer' = [timer EXCEPT ![k] = NoWake]
      /\ snooze_outcomes' = Append(snooze_outcomes, Expired(k))
      /\ UNCHANGED <<coordinatorVars, jobs, workflow_up, job_outcomes>>
  BY DEF SnoozeExpires, Expire, Expired, OutsideSnooze, workflowVars, jobChannels
<1>2. /\ snooze_outcomes \in Seq(SnoozeOutcome) /\ timer \in [Keys -> Wakes \cup {NoWake}]
      /\ Expired(k) \in SnoozeOutcome
  BY DEF TypeOK, ChannelsTypeOK, SnoozeTypeOK, Expired, SnoozeOutcome
<1>3. /\ \A x : Holds(snooze_outcomes, {Expired(x)}) => Holds(snooze_outcomes', {Expired(x)})
      /\ Holds(snooze_outcomes', {Expired(k)})
      /\ \A x : Holds(snooze_outcomes', {Accepted(x)}) => Holds(snooze_outcomes, {Accepted(x)})
  BY <1>1, <1>2, HoldsAppend, MessagesDiffer
<1>4. ASSUME NEW j \in Job, Timed(j)' PROVE Timed(j)
  BY <1>1, <1>3, <1>4 DEF Timed, Accepted, Committed
<1>5. WakeQueued(k)' /\ \A x \in Keys : WakeQueued(x) => WakeQueued(x)'
  BY <1>1, <1>3, WakeFacts
<1>6. timer'[k] = NoWake /\ \A x \in Keys : x # k => timer'[x] = timer[x]
  BY <1>1, <1>2
<1>7. \A x \in Keys, w \in Wakes \cup {NoWake} : Matches(x, w) => Matches(x, w)'
  BY <1>5, <1>6 DEF Matches
<1> QED BY <1>1, <1>4, <1>7, TimerFrame

\* A turn of the coordinator moves no timer and times no job, and the only wake it
\* takes is the one at the head of the channel.
LEMMA TimerTurn ==
  ASSUME TypeOK, UNCHANGED <<jobs, timer, snooze_outcomes>>,
         \/ job_outcomes' = job_outcomes
         \/ job_outcomes # <<>> /\ job_outcomes' = Tail(job_outcomes)
  PROVE  /\ \A j \in Job : Timed(j)' => Timed(j)
         /\ \A x : /\ WakeQueued(x)
                   /\ ~(job_outcomes # <<>> /\ job_outcomes' = Tail(job_outcomes)
                          /\ Head(job_outcomes) = Wake(x))
                   => WakeQueued(x)'
<1>1. job_outcomes \in Seq(JobOutcome)
  BY DEF TypeOK, ChannelsTypeOK
<1>2. /\ \A j : Holds(job_outcomes', {Committed(j)}) => Holds(job_outcomes, {Committed(j)})
      /\ \A x : Holds(job_outcomes, {Wake(x)}) =>
                  \/ Holds(job_outcomes', {Wake(x)})
                  \/ /\ job_outcomes # <<>> /\ job_outcomes' = Tail(job_outcomes)
                     /\ Head(job_outcomes) = Wake(x)
  BY <1>1, HoldsTail
<1>3. ASSUME NEW j \in Job, Timed(j)' PROVE Timed(j)
  <2>1. Holds(snooze_outcomes, {Accepted(j.key)})' => Holds(snooze_outcomes, {Accepted(j.key)})
    BY DEF Holds, Accepted
  <2> QED BY <1>2, <1>3, <2>1 DEF Timed, Committed
<1> QED BY <1>2, <1>3, WakeFacts

\* A turn that concerns key k alone keeps the invariant when it keeps it for k.
LEMMA TimerOthers ==
  ASSUME TypeOK, TimerInv, UNCHANGED <<jobs, timer, snooze_outcomes, workflow_up>>,
         running' => running,
         \/ job_outcomes' = job_outcomes
         \/ job_outcomes # <<>> /\ job_outcomes' = Tail(job_outcomes),
         NEW k \in Keys,
         \A x \in Keys : x # k => /\ speculative_state'[x] = speculative_state[x]
                                  /\ confirmed_state'[x] = confirmed_state[x]
                                  /\ job_outcomes = <<>> \/ Head(job_outcomes) # Wake(x),
         running /\ workflow_up =>
           RestTimer(k)' /\ \A j \in Job : j.key = k => JobTimer(j)'
  PROVE  TimerInv'
<1> SUFFICES ASSUME running, workflow_up
             PROVE  (\A x \in Keys : RestTimer(x)') /\ (\A j \in Job : JobTimer(j)')
  BY DEF TimerInv
<1>1. \A x \in Keys : x # k /\ WakeQueued(x) => WakeQueued(x)'
  BY TimerTurn
<1>2. ASSUME NEW x \in Keys, x # k PROVE RestTimer(x)'
  BY <1>1, <1>2 DEF TimerInv, RestTimer, Matches
<1>3. ASSUME NEW j \in Job, j.key # k PROVE JobTimer(j)'
  <2>1. j.key \in Keys
    BY DEF Job
  <2>2. Timed(j)' => Timed(j)
    BY TimerTurn
  <2> QED BY <1>1, <1>3, <2>1, <2>2 DEF TimerInv, JobTimer, Matches
<1> QED BY <1>2, <1>3

\* Recorded intent leaves its key neither at rest nor with a timed job of its id.
LEMMA TimerIntent ==
  ASSUME TypeOK, JobInv, ConfirmInv, TimerInv, NEW k \in Keys, NEW status \in Status,
         NEW pending, RecordIntent(k, status, pending),
         UNCHANGED <<jobs, timer, snooze_outcomes, workflow_up>>,
         \/ job_outcomes' = job_outcomes
         \/ job_outcomes # <<>> /\ job_outcomes' = Tail(job_outcomes),
         \A x \in Keys : x # k => job_outcomes = <<>> \/ Head(job_outcomes) # Wake(x)
  PROVE  TimerInv'
<1> DEFINE entry == [status |-> status, id |-> id_counter]
<1>1. entry # None /\ entry.id = id_counter
  BY EntryFacts DEF TypeOK, CoordinatorTypeOK
<1>2. /\ speculative_state' = [speculative_state EXCEPT ![k] = entry]
      /\ UNCHANGED <<confirmed_state, running>>
  BY DEF RecordIntent
<1> HIDE DEF entry
<1>3. /\ speculative_state'[k] = entry
      /\ \A x \in Keys : x # k => speculative_state'[x] = speculative_state[x]
  BY <1>2 DEF TypeOK, CoordinatorTypeOK
<1>4. RestTimer(k)'
  BY <1>1, <1>3 DEF RestTimer
<1>5. ASSUME NEW j \in Job, j.key = k PROVE JobTimer(j)'
  <2>1. SUFFICES ASSUME Timed(j)' PROVE j.id # id_counter
    BY <1>1, <1>3, <1>5 DEF JobTimer
  <2>2. Carries(j) /\ speculative_state[k] # None
    BY <1>5, <2>1, TimerTurn, TimedFacts
  <2>3. /\ j.id \in Nat /\ id_counter \in Nat /\ speculative_state[k].id \in Nat
        /\ j.id <= speculative_state[k].id /\ speculative_state[k].id < id_counter
    BY <1>5, <2>2, IdTypes DEF ConfirmInv, CarriedInv, IdInv
  <2> QED BY <2>3
<1> QED BY <1>2, <1>3, <1>4, <1>5, TimerOthers

\* A wake that is taken is obeyed, unless its key is to wake no more.
LEMMA TimerWake ==
  ASSUME TypeOK, JobInv, EffectInv, ConfirmInv, StatusInv, TimerInv, dispatch_automated_wake,
         UNCHANGED <<jobs, timer, snooze_outcomes, workflow_up>>
  PROVE  TimerInv'
<1>1. /\ job_outcomes # <<>> /\ job_outcomes' = Tail(job_outcomes)
      /\ Head(job_outcomes).kind = "Wake"
  BY DEF dispatch_automated_wake
<1>2. PICK k \in Keys : k = Head(job_outcomes).key
  BY <1>1, HeadFacts
<1>3. \A x \in Keys : x # k => Head(job_outcomes) # Wake(x)
  BY <1>2 DEF Wake
<1>4. CASE RecordIntent(k, WakeStatus, pending_confirmations)
  BY <1>1, <1>3, <1>4, StatusTypes, TimerIntent
<1>5. CASE /\ UNCHANGED coordinatorVars
           /\ ~should_publish(get_latest_status(k), k \in EpicsKeys, WakeStatus)
  <2>1. UNCHANGED <<speculative_state, confirmed_state, running>>
    BY <1>5 DEF coordinatorVars
  <2>2. ASSUME NEW status \in Status, status = get_latest_status(k), Plain(status)
        PROVE  status.wake = NoWake
    <3>1. (k \in EpicsKeys) \in BOOLEAN
      OBVIOUS
    <3> QED BY <1>5, <2>2, <3>1, PlainFacts DEF Plain
  <2>3. ASSUME running, workflow_up PROVE RestTimer(k)'
    <3> SUFFICES ASSUME speculative_state[k] = None, confirmed_state[k] # None,
                        confirmed_state[k].id # DEFAULT_HYDRATED_ID
                 PROVE  Matches(k, confirmed_state[k].status.wake)'
      BY <2>1 DEF RestTimer
    <3>1. confirmed_state[k].status \in Status /\ Plain(confirmed_state[k].status)
      BY IdTypes DEF StatusInv, PlainInput, Entry
    <3>2. confirmed_state[k].status = get_latest_status(k)
      BY DEF get_latest_status
    <3>3. confirmed_state[k].status.wake = NoWake
      BY <2>2, <3>1, <3>2
    <3> QED BY <2>1, <2>3, <3>3 DEF TimerInv, RestTimer, Matches
  <2>4. ASSUME running, workflow_up, NEW j \in Job, j.key = k PROVE JobTimer(j)'
    <3> SUFFICES ASSUME Timed(j)', j.id # DEFAULT_HYDRATED_ID, speculative_state[k].id = j.id
                 PROVE  Matches(k, j.status.wake)'
      BY <2>1, <2>4 DEF JobTimer
    <3>1. Timed(j) /\ Carries(j) /\ speculative_state[k] # None
      BY <1>1, <2>4, TimerTurn, TimedFacts
    <3>2. j.status \in Status /\ Plain(j.status) /\ j.status = speculative_state[k].status
      BY <2>4, <3>1 DEF StatusInv, PlainInput, SameStatus, Job
    <3>3. j.status = get_latest_status(k)
      BY <3>1, <3>2 DEF get_latest_status
    <3>4. j.status.wake = NoWake
      BY <2>2, <3>2, <3>3
    <3> QED BY <2>4, <3>1, <3>4 DEF TimerInv, JobTimer, Matches
  <2> QED BY <1>1, <1>3, <2>1, <2>3, <2>4, TimerOthers
<1> QED BY <1>2, <1>4, <1>5 DEF dispatch_automated_wake

\* The job of a success has its command obeyed: what it confirms has its timer.
LEMMA TimerSuccess ==
  ASSUME TypeOK, JobInv, EffectInv, JobInv', TimerInv, reconcile_success,
         UNCHANGED <<jobs, timer, snooze_outcomes, workflow_up>>
  PROVE  TimerInv'
<1> DEFINE job == Head(job_outcomes).job
           entry == [status |-> job.status, id |-> job.id]
           pending == pending_confirmations \ {job.id}
<1>1. /\ job_outcomes # <<>> /\ job_outcomes' = Tail(job_outcomes)
      /\ Head(job_outcomes).kind = "Committed" /\ running' = running
  BY DEF reconcile_success
<1>2. PICK k \in Keys : /\ k = Head(job_outcomes).key /\ k = job.key
                        /\ job \in Job /\ speculative_state[k] # None
  BY <1>1, HeadFacts
<1>3. \A x : Head(job_outcomes) # Wake(x)
  BY <1>1 DEF Wake
<1>4. Timed(job)
  <2>1. job_outcomes \in Seq(JobOutcome)
    BY DEF TypeOK, ChannelsTypeOK
  <2>2. Head(job_outcomes) = Committed(job)
    BY <1>1, <1>2, <2>1, TailFacts DEF JobOutcome, Committed
  <2>3. Holds(job_outcomes, {Committed(job)})
    BY <1>1, <2>1, <2>2, HoldsTail
  <2> QED BY <2>3 DEF Timed
<1>5. IF IsSuperseded(job)
        THEN /\ sending' = send_next_for(k, speculative_state, pending)
             /\ UNCHANGED <<speculative_state, confirmed_state>>
        ELSE /\ speculative_state' = [speculative_state EXCEPT ![k] = None]
             /\ confirmed_state' = [confirmed_state EXCEPT ![k] = entry]
  BY <1>2 DEF reconcile_success
<1>6. entry.id = job.id /\ entry.status = job.status
  OBVIOUS
<1> HIDE DEF job, entry, pending
<1>7. CASE IsSuperseded(job)
  <2>1. UNCHANGED <<speculative_state, confirmed_state>> /\ InSending(k)'
    BY <1>2, <1>5, <1>7, SendNextFacts DEF InSending, TypeOK, CoordinatorTypeOK
  <2>2. RestTimer(k)'
    BY <1>2, <2>1 DEF RestTimer
  <2>3. \A j \in Job : j.key = k => JobTimer(j)'
    BY <2>1, TimedFactsNext DEF JobTimer
  <2> QED BY <1>1, <1>3, <2>1, <2>2, <2>3, TimerOthers
<1>8. CASE ~IsSuperseded(job)
  <2>1. /\ speculative_state'[k] = None /\ confirmed_state'[k] = entry
        /\ \A x \in Keys : x # k => /\ speculative_state'[x] = speculative_state[x]
                                    /\ confirmed_state'[x] = confirmed_state[x]
    BY <1>5, <1>8 DEF TypeOK, CoordinatorTypeOK
  <2>2. speculative_state[k].id = job.id
    BY <1>2, <1>8 DEF IsSuperseded
  <2>3. ASSUME running, workflow_up PROVE RestTimer(k)'
    <3>1. WakeQueued(k) => WakeQueued(k)'
      BY <1>1, <1>3, TimerTurn
    <3>2. job.id # DEFAULT_HYDRATED_ID => Matches(k, job.status.wake)
      BY <1>2, <1>4, <2>2, <2>3 DEF TimerInv, JobTimer
    <3> QED BY <1>6, <2>1, <3>1, <3>2 DEF RestTimer, Matches
  <2>4. \A j \in Job : j.key = k => JobTimer(j)'
    BY <2>1, TimedFactsNext DEF JobTimer
  <2> QED BY <1>1, <1>3, <2>1, <2>3, <2>4, TimerOthers
<1> QED BY <1>7, <1>8

\* After a failure the key's intent is sent again: no job of it is timed.
LEMMA TimerFailure ==
  ASSUME TypeOK, JobInv, EffectInv, TypeOK', JobInv', TimerInv, reconcile_failure,
         UNCHANGED <<jobs, timer, snooze_outcomes, workflow_up>>
  PROVE  TimerInv'
<1> DEFINE job == Head(job_outcomes).job
           pending == pending_confirmations \ {job.id}
<1>1. /\ job_outcomes # <<>> /\ job_outcomes' = Tail(job_outcomes)
      /\ Head(job_outcomes).kind = "Failed"
  BY DEF reconcile_failure
<1>2. PICK k \in Keys :
        /\ k = Head(job_outcomes).key /\ k = job.key
        /\ speculative_state[k] # None /\ speculative_state'[k] # None
        /\ \A x \in Keys : x # k => speculative_state'[x] = speculative_state[x]
        /\ UNCHANGED <<confirmed_state, running>>
  BY <1>1, FailureFacts, HeadFacts
<1>3. \A x : Head(job_outcomes) # Wake(x)
  BY <1>1 DEF Wake
<1>4. sending' = send_next_for(k, speculative_state', pending)
  BY <1>2 DEF reconcile_failure
<1>5. InSending(k)'
  <2>1. speculative_state' \in [Keys -> Entry \cup {None}]
    BY DEF TypeOK, CoordinatorTypeOK
  <2> QED BY <1>2, <1>4, <2>1, SendNextFacts DEF InSending
<1>6. \A j \in Job : j.key = k => JobTimer(j)'
  BY <1>5, TimedFactsNext DEF JobTimer
<1>7. RestTimer(k)'
  BY <1>2 DEF RestTimer
<1> QED BY <1>1, <1>2, <1>3, <1>6, <1>7, TimerOthers

\* A commit that waited for the send is of a key that is not at rest.
LEMMA TimerSend ==
  ASSUME TypeOK, JobInv, TopicInv, TimerInv, SendJob \/ SendFails,
         UNCHANGED <<jobs, timer, snooze_outcomes, workflow_up>>
  PROVE  TimerInv'
<1>1. CASE SendFails
  <2>1. ~running'
    BY <1>1 DEF SendFails, fail_all_confirmations
  <2> QED BY <2>1 DEF TimerInv
<1>2. CASE SendJob
  <2>1. /\ sending # None /\ confirmed_state' = Commit
        /\ UNCHANGED <<speculative_state, running, job_outcomes>>
    BY <1>2 DEF SendJob
  <2>2. PICK k \in Keys : k = sending.key
    BY <2>1, IdTypes
  <2>3. speculative_state[k] # None
    BY <2>1, <2>2 DEF JobInv, KeyInv, InFlight, InSending
  <2>4. \A x \in Keys : x # k => confirmed_state'[x] = confirmed_state[x]
    BY <2>1, <2>2 DEF Commit, TopicInv, CommitInv, TypeOK, CoordinatorTypeOK
  <2>5. \A x \in Keys : WakeQueued(x) => WakeQueued(x)'
    BY <2>1, WakeFacts
  <2>6. \A j \in Job : Timed(j)' => Timed(j)
    BY <2>1, TimerTurn
  <2> SUFFICES ASSUME running, workflow_up
               PROVE  (\A x \in Keys : RestTimer(x)') /\ (\A j \in Job : JobTimer(j)')
    BY <2>1 DEF TimerInv
  <2>7. ASSUME NEW x \in Keys PROVE RestTimer(x)'
    BY <2>1, <2>3, <2>4, <2>5 DEF TimerInv, RestTimer, Matches
  <2>8. ASSUME NEW j \in Job PROVE JobTimer(j)'
    <3>1. j.key \in Keys
      BY DEF Job
    <3> QED BY <2>1, <2>5, <2>6, <3>1 DEF TimerInv, JobTimer, Matches
  <2> QED BY <2>7, <2>8
<1> QED BY <1>1, <1>2

\* A process that starts has published nothing and timed nothing.
LEMMA TimerInit == Init => TimerInv
<1> SUFFICES ASSUME Init PROVE TimerInv
  OBVIOUS
<1>1. PICK hydrated \in load_startup_hydration(kafka) : new(hydrated)
  BY DEF Init
<1>2. job_outcomes = <<>> /\ jobs = [k \in Keys |-> None]
  BY <1>1 DEF new, Init, ChannelsInit, WorkflowInit
<1>3. \A k \in Keys : confirmed_state[k] # None => confirmed_state[k].id = DEFAULT_HYDRATED_ID
  BY <1>1 DEF new
<1>4. \A j \in Job : ~Timed(j)
  BY <1>2 DEF Timed, Holds, Job
<1> QED BY <1>3, <1>4 DEF TimerInv, RestTimer, JobTimer

\* A restart leaves only hydrated statuses, which no timer answers for, and no job.
LEMMA TimerRestart ==
  ASSUME Restart
  PROVE  TimerInv'
<1>1. PICK hydrated \in load_startup_hydration(kafka) :
        confirmed_state' = [k \in Keys |->
          IF hydrated[k] = None THEN None
          ELSE [status |-> hydrated[k], id |-> DEFAULT_HYDRATED_ID]]
  BY DEF Restart
<1>2. job_outcomes' = <<>> /\ jobs' = [k \in Keys |-> None]
  BY DEF Restart
<1>3. \A k \in Keys : confirmed_state'[k] # None => confirmed_state'[k].id = DEFAULT_HYDRATED_ID
  BY <1>1
<1>4. \A j \in Job : ~Timed(j)'
  BY <1>2 DEF Timed, Holds, Job
<1> QED BY <1>3, <1>4 DEF TimerInv, RestTimer, JobTimer

\* Every step of the service keeps the timer invariant.
LEMMA TimerStep ==
  /\ TypeOK /\ JobInv /\ EffectInv /\ TopicInv /\ ConfirmInv /\ StatusInv /\ TimerInv
  /\ [Next]_vars
  => TimerInv'
<1> SUFFICES ASSUME TypeOK, JobInv, EffectInv, TopicInv, ConfirmInv, StatusInv, TimerInv,
                    [Next]_vars
             PROVE  TimerInv'
  OBVIOUS
<1>1. TypeOK' /\ JobInv'
  BY TypeStep, JobStep
<1>2. CASE UNCHANGED <<coordinatorVars, workflowVars, jobChannels, timer, snooze_outcomes>>
  <2>1. UNCHANGED <<jobs, workflow_up, job_outcomes>>
    BY <1>2 DEF workflowVars, jobChannels
  <2>2. \A j \in Job : Timed(j)' => Timed(j)
    BY <1>2, <2>1, TimerTurn
  <2>3. \A k \in Keys, w \in Wakes \cup {NoWake} : Matches(k, w) => Matches(k, w)'
    BY <1>2, <2>1, WakeFacts DEF Matches
  <2> QED BY <1>2, <2>1, <2>2, <2>3, TimerFrame
<1>3. CASE Inputs
  <2>1. UNCHANGED <<jobs, timer, snooze_outcomes, workflow_up, job_outcomes>>
    BY <1>3 DEF Inputs, workflowVars, effectVars, snoozeVars, snoozeChannels,
                handle_user_update, handle_automated_update, jobChannels
  <2>2. ASSUME NEW k \in Keys, NEW action \in UserAction, handle_user_update(k, action)
        PROVE  TimerInv'
    BY <2>1, <2>2, StatusTypes, TimerIntent DEF handle_user_update, TakesInput
  <2>3. ASSUME NEW k \in Keys, NEW field \in RedisInputs,
               handle_automated_update(k, build_status_from_redis(field))
        PROVE  TimerInv'
    BY <2>1, <2>3, StatusTypes, InputsAssumption, TimerIntent
       DEF handle_automated_update, TakesInput
  <2> QED BY <1>3, <2>2, <2>3 DEF Inputs
<1>4. CASE reconcile_job_outcome \/ Send
  <2>1. UNCHANGED <<jobs, timer, snooze_outcomes, workflow_up>>
    BY <1>4 DEF reconcile_job_outcome, Send, workflowVars, effectVars, snoozeVars, snoozeChannels
  <2> QED BY <1>1, <1>4, <2>1, TimerSuccess, TimerFailure, TimerWake, TimerSend
          DEF reconcile_job_outcome, Send
<1>5. CASE WorkflowStep
  BY <1>5, TimerHandler
<1>6. CASE WorkflowEnds
  <2>1. ~workflow_up'
    BY <1>6 DEF WorkflowEnds, WorkflowStops
  <2> QED BY <2>1 DEF TimerInv
<1>7. ASSUME NEW k \in Keys, SnoozeCommand(k) \/ SnoozeExpires(k) PROVE TimerInv'
  BY <1>7, TimerCommand, TimerExpires
<1>8. ASSUME NEW k \in Keys, PublishReceived(k) \/ PublishAccepted(k) \/ PublishFailed(k)
      PROVE  TimerInv'
  BY <1>2, <1>8 DEF PublishReceived, PublishAccepted, PublishFailed, OutsidePublish,
                    snoozeVars, snoozeChannels
<1>9. CASE Flush \/ Clock \/ UNCHANGED vars
  BY <1>2, <1>9 DEF Flush, Clock, Tick, OutsidePublish, OutsideSnooze, vars, snoozeVars,
                    snoozeChannels
<1>10. CASE Restart
  BY <1>10, TimerRestart
<1> QED BY <1>3, <1>4, <1>5, <1>6, <1>7, <1>8, <1>9, <1>10 DEF Next

\* All the invariants of the service together.
LEMMA TimerAlways ==
  Spec => [](TypeOK /\ JobInv /\ EffectInv /\ TopicInv /\ ConfirmInv /\ StatusInv /\ TimerInv)
BY ConfirmAlways, StatusInit, StatusStep, TimerInit, TimerStep, PTL DEF Spec

\* A key that came to rest on a status published since startup has a timer for the
\* wake of that status, or its unbypass under way, exactly when the status is to
\* end: no retry, rollback or superseded snooze leaves its timer behind, no snooze
\* is without one, and none fires late or, but for MAX_DELAY, early.
THEOREM TimerMatchesConfirmedAlways == Spec => []TimerMatchesConfirmed
<1>1. TimerInv => TimerMatchesConfirmed
  BY DEF TimerInv, RestTimer, Matches, TimerMatchesConfirmed
<1> QED BY <1>1, TimerAlways, PTL
=============================================================================
