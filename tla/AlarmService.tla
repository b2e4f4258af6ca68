---------------------------- MODULE AlarmService ----------------------------
(***************************************************************************)
(* The alarm service: coordinator, workflow handler, snooze scheduler and  *)
(* publish engine as src/runtime.rs connects them, the inputs the adapters *)
(* hand to the coordinator, the end of the workflow handler, and process   *)
(* restarts that lose everything but the Kafka topic.                      *)
(***************************************************************************)
EXTENDS Coordinator, WorkflowHandler, SnoozeScheduler, PublishEngine

CONSTANTS
  MaxInput,          \* inputs arrive while id_counter is at most this
  MaxRestarts,       \* how often the process may be restarted
  WorkflowMayStop,   \* whether the workflow handler may end in this instance
  RedisInputs,       \* the severity fields that Redis entries carry
  AcnetStatuses      \* the statuses AEOLUS may report for a non-EPICS key

ASSUME InputsAssumption ==
  /\ MaxInput \in Nat /\ MaxRestarts \in Nat
  /\ WorkflowMayStop \in BOOLEAN
  /\ RedisInputs \subseteq RedisSeverity
  /\ AcnetStatuses \subseteq Status

VARIABLE restarts    \* how often the process was restarted

vars == <<coordinatorVars, workflowVars, snoozeVars, publishVars, jobChannels,
          snoozeChannels, publishChannels, restarts>>

effectVars == <<snoozeVars, publishVars, snoozeChannels, publishChannels>>

-----------------------------------------------------------------------------
(* Startup *)

\* What AEOLUS may report: any alarms of the keys that are not EPICS's.
load_acnet_hydration == [Keys \ EpicsKeys -> AcnetStatuses \cup {None}]

\* Mutant: skips the bypasses that are to end.
reduce_snapshot_permanent(topic) ==
  [k \in EpicsKeys |->
     IF is_bypassed(topic[k]) /\ topic[k].wake = NoWake THEN topic[k] ELSE None]

\* The records of the topic, reduced to the EPICS keys whose last one is a bypass.
\* The service writes no other kind of record than a status of the key itself.
reduce_snapshot(topic) ==
  [k \in EpicsKeys |-> IF is_bypassed(topic[k]) THEN topic[k] ELSE None]

\* The statuses the coordinator may be started with.
load_startup_hydration(topic) ==
  { [k \in Keys |-> IF k \in EpicsKeys THEN reduce_snapshot(topic)[k] ELSE acnet[k]] :
    acnet \in load_acnet_hydration }

Init ==
  /\ ChannelsInit /\ WorkflowInit /\ SnoozeInit /\ PublishInit
  /\ \E hydrated \in load_startup_hydration(kafka) : new(hydrated)
  /\ restarts = 0

\* The process is killed and started again.
Restart ==
  /\ restarts < MaxRestarts
  /\ restarts' = restarts + 1
  /\ \E hydrated \in load_startup_hydration(kafka) :
       confirmed_state' = [k \in Keys |->
         IF hydrated[k] = None THEN None
         ELSE [status |-> hydrated[k], id |-> DEFAULT_HYDRATED_ID]]
  /\ speculative_state' = [k \in Keys |-> None]
  /\ pending_confirmations' = {}
  /\ id_counter' = INITIAL_PUBLISH_ID
  /\ sending' = None /\ committing' = None
  /\ running' = TRUE
  /\ replies' = {} /\ dropped' = {}
  /\ last_intent' = [k \in Keys |-> DEFAULT_HYDRATED_ID]
  /\ jobs' = [k \in Keys |-> None] /\ workflow_up' = TRUE
  /\ timer' = [k \in Keys |-> NoWake]
  /\ in_flight' = {} /\ completed_batch' = {}
  /\ job_queue' = <<>> /\ job_outcomes' = <<>>
  /\ snooze_inputs' = {} /\ snooze_outcomes' = <<>>
  /\ publish_queue' = {} /\ publish_outcomes' = {}
  /\ UNCHANGED <<now, kafka>>

-----------------------------------------------------------------------------
(* Steps of the tasks *)

Inputs ==
  /\ id_counter <= MaxInput
  /\ \/ \E k \in Keys, action \in UserAction : handle_user_update(k, action)
     \/ \E k \in Keys, field \in RedisInputs :
          handle_automated_update(k, build_status_from_redis(field))
  /\ UNCHANGED <<workflowVars, effectVars, restarts>>

reconcile_job_outcome ==
  /\ reconcile_success \/ reconcile_failure \/ dispatch_automated_wake
  /\ UNCHANGED <<workflowVars, effectVars, restarts>>

Send ==
  /\ \/ workflow_up /\ SendJob
     \/ ~workflow_up /\ SendFails
  /\ UNCHANGED <<workflowVars, effectVars, restarts>>

WorkflowStep ==
  /\ \/ handle_new_job
     \/ handle_snooze_result
     \/ \E result \in publish_outcomes : dispatch_publish_result(result)
  /\ UNCHANGED <<coordinatorVars, snoozeVars, publishVars, restarts>>

WorkflowEnds ==
  /\ WorkflowMayStop /\ WorkflowStops
  /\ UNCHANGED <<coordinatorVars, snoozeVars, publishVars, restarts>>

OutsideSnooze == <<coordinatorVars, workflowVars, publishVars, jobChannels,
                   publishChannels, restarts>>

SnoozeCommand(k) ==
  /\ \E input \in snooze_inputs : input.key = k /\ handle_snooze_input(input)
  /\ UNCHANGED OutsideSnooze

SnoozeExpires(k) == Expire(k) /\ UNCHANGED OutsideSnooze

Clock == Tick /\ UNCHANGED OutsideSnooze

OutsidePublish == <<coordinatorVars, workflowVars, snoozeVars, jobChannels,
                    snoozeChannels, restarts>>

PublishAccepted(k) ==
  /\ \E attempt \in in_flight : attempt.request.key = k /\ DeliverOk(attempt)
  /\ UNCHANGED OutsidePublish

PublishReceived(k) ==
  /\ \E request \in publish_queue : request.key = k /\ ReceivePublish(request)
  /\ UNCHANGED OutsidePublish

PublishFailed(k) ==
  /\ \E attempt \in in_flight : attempt.request.key = k /\ DeliverFails(attempt)
  /\ UNCHANGED OutsidePublish

Flush == flush_completed_batch /\ UNCHANGED OutsidePublish

Next ==
  \/ Inputs \/ reconcile_job_outcome \/ Send
  \/ WorkflowStep \/ WorkflowEnds
  \/ \E k \in Keys : \/ SnoozeCommand(k) \/ SnoozeExpires(k)
                     \/ PublishReceived(k) \/ PublishAccepted(k) \/ PublishFailed(k)
  \/ Flush \/ Clock \/ Restart

Spec == Init /\ [][Next]_vars

\* Every task keeps running and the clock advances.  The scheduler's select is
\* not biased: commands do not keep an elapsed timer from being taken.  That a
\* job put to Kafka again and again is accepted some time is assumed of the
\* broker.
Fairness ==
  /\ WF_vars(reconcile_job_outcome) /\ WF_vars(Send)
  /\ WF_vars(WorkflowStep) /\ WF_vars(Flush) /\ WF_vars(Clock)
  /\ \A k \in Keys : /\ WF_vars(SnoozeCommand(k)) /\ WF_vars(SnoozeExpires(k))
                     /\ WF_vars(PublishReceived(k)) /\ SF_vars(PublishAccepted(k))

FairSpec == Spec /\ Fairness

-----------------------------------------------------------------------------
(* Invariants *)

\* Every variable, channel and message has the shape the Rust types give it.
TypeOK ==
  /\ ChannelsTypeOK /\ CoordinatorTypeOK /\ WorkflowTypeOK
  /\ SnoozeTypeOK /\ PublishTypeOK
  /\ restarts \in 0 .. MaxRestarts

\* Where a job of key k can be.
InWorkflow(k) == jobs[k] # None

InFlight(k) == InSending(k) \/ InQueue(k) \/ InWorkflow(k) \/ InOutcomes(k)

OneJob(k) ==
  /\ InSending(k) => ~InQueue(k) /\ ~InWorkflow(k) /\ ~InOutcomes(k)
  /\ InQueue(k) => ~InWorkflow(k) /\ ~InOutcomes(k)
  /\ InWorkflow(k) => ~InOutcomes(k)
  /\ OnceInQueue(k)
  /\ OnceInOutcomes(k)

\* A key never has two jobs on their way from the coordinator through the
\* workflow handler and back, and has none without a speculative entry: the
\* map insert of add_work replaces no job, and reconcile_failure never meets
\* "Lost state for job".
OneJobPerKey ==
  \A k \in Keys : OneJob(k) /\ (InFlight(k) /\ running => speculative_state[k] # None)

\* No key is stuck: while both tasks live, speculative state always has a job
\* on its way whose outcome will move it on.
IntentHasJob ==
  running /\ workflow_up =>
    \A k \in Keys : speculative_state[k] # None => InFlight(k)

\* Every effect command and every answer belongs to the job the workflow
\* handler tracks, at the step it is at: remove_work and lookup_job find
\* their job ("Every key must have an associated job"), and what is published
\* is the status of the job that the outcome will commit.
EffectHasJob ==
  workflow_up =>
    /\ \A input \in snooze_inputs :
         /\ jobs[input.key] # None
         /\ jobs[input.key].step = 1
         /\ input.wake = jobs[input.key].job.status.wake
    /\ \A i \in DOMAIN snooze_outcomes :
         snooze_outcomes[i].kind # "Expired" =>
           /\ jobs[snooze_outcomes[i].key] # None
           /\ jobs[snooze_outcomes[i].key].step = 1
    /\ \A request \in publish_queue \cup { attempt.request : attempt \in in_flight } :
         /\ jobs[request.key] # None
         /\ jobs[request.key].step = 2
         /\ request.status = jobs[request.key].job.status
    /\ \A result \in completed_batch \cup publish_outcomes :
         /\ jobs[result.key] # None
         /\ jobs[result.key].step = 2

\* A user who was told Ok has the action, or something newer, in the confirmed
\* state that snapshots show, as soon as the coordinator is back at its select.
OkMeansConfirmed ==
  Listening =>
    \A reply \in replies :
      reply.result = "Ok" =>
        /\ confirmed_state[reply.key] # None
        /\ confirmed_state[reply.key].id >= reply.id

\* No accepted input is silently lost: once a key has come to rest, its last
\* accepted input is the confirmed one, or a user was told that it failed.
NoIntentLost ==
  running =>
    \A k \in Keys :
      speculative_state[k] = None /\ last_intent[k] # DEFAULT_HYDRATED_ID =>
        \/ /\ confirmed_state[k] # None
           /\ confirmed_state[k].id = last_intent[k]
        \/ [id |-> last_intent[k], key |-> k, result |-> "Internal"] \in replies

\* Once a key that had an input has come to rest, the last record of the topic
\* is the confirmed status, whatever lost acknowledgements, retries and
\* rollbacks came before: consumers and snapshots agree.
SnapshotMatchesKafka ==
  running =>
    \A k \in Keys :
      speculative_state[k] = None /\ last_intent[k] # DEFAULT_HYDRATED_ID =>
        /\ confirmed_state[k] # None
        /\ kafka[k] = confirmed_state[k].status

\* An unbypass for k is on its way from a timer that fired.
WakeQueued(k) ==
  \/ \E i \in DOMAIN snooze_outcomes :
       snooze_outcomes[i] = [kind |-> "Expired", key |-> k]
  \/ \E i \in DOMAIN job_outcomes : job_outcomes[i] = Wake(k)

\* A timer that fires at deadline does for wake: it fires never after wake, and
\* before it only when the delay was cut to MAX_DELAY.
OnTime(deadline, wake) ==
  /\ deadline # NoWake
  /\ \/ deadline = wake
     \/ MAX_DELAY <= deadline /\ deadline < wake

\* Once a key has come to rest on a status published since startup, it has a
\* timer for the wake of that very status, not of one that was superseded or
\* rolled back (or its unbypass is under way), and none when the status has no
\* wake (handle_snooze_input and timestamp_secs_to_instant, snooze.rs:89-174).
TimerMatchesConfirmed ==
  running /\ workflow_up =>
    \A k \in Keys :
      /\ speculative_state[k] = None
      /\ confirmed_state[k] # None
      /\ confirmed_state[k].id # DEFAULT_HYDRATED_ID
      => IF confirmed_state[k].status.wake = NoWake
           THEN timer[k] = NoWake
           ELSE OnTime(timer[k], confirmed_state[k].status.wake) \/ WakeQueued(k)

-----------------------------------------------------------------------------
(* Action properties *)

\* A user confirmation is told something only by the outcome of its own job
\* or by the end of the coordinator, and told once.
AnsweredOnce ==
  [][ restarts' = restarts =>
        \A r \in replies' \ replies :
          /\ r.id \in pending_confirmations \ pending_confirmations'
          /\ \/ ~running'
             \/ /\ job_outcomes' = Tail(job_outcomes)
                /\ Head(job_outcomes).job.id = r.id ]_vars

\* A restart keeps every EPICS bypass that was at rest, with its wake time, and
\* brings back none that had ended.
BypassSurvivesRestart ==
  [][ restarts' # restarts =>
        \A k \in EpicsKeys :
          /\ running /\ speculative_state[k] = None /\ confirmed_state[k] # None
          => IF confirmed_state[k].status.state = "Bypassed"
               THEN /\ confirmed_state'[k] # None
                    /\ confirmed_state'[k].status = confirmed_state[k].status
               ELSE confirmed_state'[k] = None ]_vars

\* "Stale results do not replace newer intent": a snooze that ends leaves a
\* key alone whose latest status is not a bypass that is due.
StaleWakeIgnored ==
  [][ dispatch_automated_wake =>
        LET k      == Head(job_outcomes).key
            latest == get_latest_status(k)
        IN  \/ latest # None /\ latest.state = "Bypassed" /\ latest.wake \in 1 .. now
            \/ speculative_state' = speculative_state ]_vars

-----------------------------------------------------------------------------
(* Liveness *)

\* Every key comes to rest after its last input: a failed job is retried or
\* rolled back until Kafka has taken a status of the key.
IntentSettles ==
  \A k \in Keys : speculative_state[k] # None ~> speculative_state[k] = None \/ ~running

\* The status to be published for k is a snooze whose end has come already.
SnoozeOverdue(k) ==
  speculative_state[k] # None /\ speculative_state[k].status.wake \in 1 .. now

\* Every key comes to rest after its last input, unless what it should come to
\* rest on is a snooze that is over: failures, lost acknowledgements, wakes and
\* superseded jobs alone never leave a key retrying for ever.
SettlesUnlessOverdue ==
  \A k \in Keys : speculative_state[k] # None ~>
                    speculative_state[k] = None \/ SnoozeOverdue(k) \/ ~running

\* A confirmed snooze does not outlast its time: the timer, the wake outcome and
\* the Unbypassed job all get through, unless an overdue snooze is published
\* over it.
SnoozeEnds ==
  \A k \in Keys :
    (confirmed_state[k] # None /\ confirmed_state[k].status.wake # NoWake)
      ~> \/ confirmed_state[k] = None
         \/ confirmed_state[k].status.wake = NoWake
         \/ SnoozeOverdue(k)

\* Every user confirmation is eventually answered.
ConfirmationAnswered ==
  \A id \in 1 .. MaxInput :
    id \in pending_confirmations ~> id \notin pending_confirmations
=============================================================================
