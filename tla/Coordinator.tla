---------------------------- MODULE Coordinator ----------------------------
(***************************************************************************)
(* The alarm-state coordinator (src/engine/coordinator.rs): one task that  *)
(* owns the confirmed and speculative caches and the pending user          *)
(* confirmations, and turns inputs into jobs and job outcomes into state.  *)
(*                                                                         *)
(* An action is one turn of the event loop up to its only await, the send  *)
(* of a job.  A turn that has a job to send leaves it in `sending`; the    *)
(* coordinator does nothing else until the send ends.                      *)
(*                                                                         *)
(* Every action constrains the coordinator's variables and the job         *)
(* channels, and leaves the rest to the module that composes it.           *)
(***************************************************************************)
EXTENDS Channels

VARIABLES
  confirmed_state,        \* [Keys -> Entry or None]
  speculative_state,      \* [Keys -> Entry or None]
  pending_confirmations,  \* ids whose oneshot sender is still held
  id_counter,
  sending,                \* the job whose send is awaited, or None
  committing,             \* the job to confirm once the send has ended, or None
  running,                \* the event loop has not ended
  replies,                \* history: what user confirmations were told
  dropped,                \* history: ids whose sender was dropped unanswered
  last_intent             \* history: [Keys -> id of the last accepted input]

coordinatorVars == <<confirmed_state, speculative_state, pending_confirmations,
                     id_counter, sending, committing, running, replies, dropped,
                     last_intent>>

DEFAULT_HYDRATED_ID == 0
INITIAL_PUBLISH_ID == 1

Reply == [id : Nat, key : Keys, result : {"Ok", "Internal"}]

CoordinatorTypeOK ==
  /\ confirmed_state \in [Keys -> Entry \cup {None}]
  /\ speculative_state \in [Keys -> Entry \cup {None}]
  /\ pending_confirmations \subseteq Nat
  /\ id_counter \in Nat
  /\ sending \in Job \cup {None}
  /\ committing \in Job \cup {None}
  /\ running \in BOOLEAN
  /\ replies \subseteq Reply
  /\ dropped \subseteq Nat
  /\ last_intent \in [Keys -> Nat]

\* AlarmStateCoordinator::new, given the hydrated statuses.
new(hydrated) ==
  /\ confirmed_state = [k \in Keys |->
       IF hydrated[k] = None THEN None
       ELSE [status |-> hydrated[k], id |-> DEFAULT_HYDRATED_ID]]
  /\ speculative_state = [k \in Keys |-> None]
  /\ pending_confirmations = {}
  /\ id_counter = INITIAL_PUBLISH_ID
  /\ sending = None /\ committing = None
  /\ running = TRUE
  /\ replies = {} /\ dropped = {}
  /\ last_intent = [k \in Keys |-> DEFAULT_HYDRATED_ID]

-----------------------------------------------------------------------------
(* Queries *)

get_latest_status(k) ==
  IF speculative_state[k] # None THEN speculative_state[k].status
  ELSE IF confirmed_state[k] # None THEN confirmed_state[k].status
  ELSE None

\* Mutant: shows the entries that are no alarms, too.
handle_snapshot_unfiltered == { k \in Keys : confirmed_state[k] # None }

\* The alarms a snapshot request is answered with.
handle_snapshot ==
  { k \in Keys : /\ confirmed_state[k] # None
                 /\ confirmed_state[k].status.state \notin {"Ok", "Unbypassed"} }

\* The event loop is back at its select.
Listening == running /\ sending = None

\* The select is biased: no input is taken while an outcome waits.
TakesInput == Listening /\ job_outcomes = <<>>

-----------------------------------------------------------------------------
(* Sending jobs *)

\* Mutant: takes the hydrated id for no intent.
send_next_for_skips_hydrated(k, spec, pending) ==
  IF spec[k] = None THEN None
  ELSE IF spec[k].id = DEFAULT_HYDRATED_ID THEN None
  ELSE [id |-> spec[k].id, key |-> k, status |-> spec[k].status,
        user_initiated |-> spec[k].id \in pending]

\* The job send_next_for would send, given the state it finds: None for none.
send_next_for(k, spec, pending) ==
  IF spec[k] = None THEN None
  ELSE [id |-> spec[k].id, key |-> k, status |-> spec[k].status,
        user_initiated |-> spec[k].id \in pending]

\* Mutant: sends whether or not the key has a job in flight.
RecordIntent_always_sends(k, status, pending) ==
  LET spec == [speculative_state EXCEPT ![k] = [status |-> status, id |-> id_counter]]
  IN  /\ id_counter' = id_counter + 1
      /\ speculative_state' = spec
      /\ pending_confirmations' = pending
      /\ sending' = send_next_for(k, spec, pending)
      /\ last_intent' = [last_intent EXCEPT ![k] = id_counter]
      /\ UNCHANGED <<confirmed_state, committing, running, replies, dropped>>

\* Both kinds of update: allocate an id, record the intent, and send it when
\* the key has no job in flight.
RecordIntent(k, status, pending) ==
  LET spec == [speculative_state EXCEPT ![k] = [status |-> status, id |-> id_counter]]
  IN  /\ id_counter' = id_counter + 1
      /\ speculative_state' = spec
      /\ pending_confirmations' = pending
      /\ sending' = IF speculative_state[k] = None
                      THEN send_next_for(k, spec, pending) ELSE None
      /\ last_intent' = [last_intent EXCEPT ![k] = id_counter]
      /\ UNCHANGED <<confirmed_state, committing, running, replies, dropped>>

\* Ends the event loop.  Only ids that some speculative entry carries are
\* answered; the other senders are dropped.  told: the answers so far.
fail_all_confirmations(pending, told) ==
  LET answered == { k \in Keys : /\ speculative_state[k] # None
                                 /\ speculative_state[k].id \in pending }
  IN  /\ running' = FALSE
      /\ sending' = None /\ committing' = None
      /\ pending_confirmations' = {}
      /\ replies' = told \cup
           { [id |-> speculative_state[k].id, key |-> k, result |-> "Internal"] :
               k \in answered }
      /\ dropped' = dropped \cup
           (pending \ { speculative_state[k].id : k \in answered })
      /\ UNCHANGED <<confirmed_state, speculative_state, id_counter, last_intent>>

\* Mutant: the commit of a superseded job is skipped.
Commit_lost == confirmed_state

\* confirmed_state after the commit that waited for the send, if any.
Commit ==
  IF committing = None THEN confirmed_state
  ELSE [confirmed_state EXCEPT ![committing.key] =
          [status |-> committing.status, id |-> committing.id]]

\* The awaited send ends: the workflow handler's queue had room.  After a
\* superseded success the confirmed entry is written only now.
SendJob ==
  /\ running /\ sending # None
  /\ Len(job_queue) < JobCap
  /\ job_queue' = Append(job_queue, sending)
  /\ sending' = None
  /\ committing' = None
  /\ confirmed_state' = Commit
  /\ UNCHANGED <<speculative_state, pending_confirmations, id_counter, running,
                 replies, dropped, last_intent, job_outcomes>>

\* The awaited send ends: the workflow handler has gone.
SendFails ==
  /\ running /\ sending # None
  /\ fail_all_confirmations(pending_confirmations, replies)
  /\ UNCHANGED jobChannels

-----------------------------------------------------------------------------
(* Inputs.  A rejected or ignored input changes nothing: a rejected user
   action is answered on the spot. *)

handle_user_update(k, action) ==
  /\ TakesInput
  /\ user_action_allowed(get_latest_status(k), action)
  /\ RecordIntent(k, build_user_status(action), pending_confirmations \cup {id_counter})
  /\ UNCHANGED jobChannels

handle_automated_update(k, status) ==
  /\ TakesInput
  /\ should_publish(get_latest_status(k), k \in EpicsKeys, status)
  /\ RecordIntent(k, status, pending_confirmations)
  /\ UNCHANGED jobChannels

-----------------------------------------------------------------------------
(* Job outcomes *)

\* Mutant: answers whoever waits for the key's latest intent.
Answer_latest(job, result) ==
  LET current == speculative_state[job.key]
  IN  IF current # None /\ current.id \in pending_confirmations
        THEN replies \cup {[id |-> current.id, key |-> job.key, result |-> result]}
        ELSE replies

\* The answers given once job's confirmation, if it is held, has been told result.
Answer(job, result) ==
  IF job.id \in pending_confirmations
    THEN replies \cup {[id |-> job.id, key |-> job.key, result |-> result]}
    ELSE replies

\* Mutant: any success clears the speculative entry.
IsSuperseded_never(job) == FALSE

\* Newer intent for the key was recorded while job was in flight.
IsSuperseded(job) ==
  LET current == speculative_state[job.key]
  IN  current # None /\ current.id # job.id

reconcile_success ==
  /\ Listening
  /\ job_outcomes # <<>> /\ Head(job_outcomes).kind = "Committed"
  /\ LET success == Head(job_outcomes).job
         k       == success.key
         entry   == [status |-> success.status, id |-> success.id]
         pending == pending_confirmations \ {success.id}
     IN  /\ pending_confirmations' = pending
         /\ replies' = Answer(success, "Ok")
         /\ IF IsSuperseded(success)
              THEN /\ sending' = send_next_for(k, speculative_state, pending)
                   /\ committing' = success
                   /\ UNCHANGED <<speculative_state, confirmed_state>>
              ELSE /\ speculative_state' = [speculative_state EXCEPT ![k] = None]
                   /\ confirmed_state' = [confirmed_state EXCEPT ![k] = entry]
                   /\ UNCHANGED <<sending, committing>>
  /\ job_outcomes' = Tail(job_outcomes)
  /\ UNCHANGED <<id_counter, running, dropped, last_intent, job_queue>>

\* Mutant: forgets the intent instead of publishing the confirmed status again.
converge_to_last_confirmed_forgets(k) == None

\* What converge_to_last_confirmed leaves in speculative_state[k].
converge_to_last_confirmed(k) ==
  IF confirmed_state[k] # None THEN confirmed_state[k]
  ELSE [status |-> DefaultStatus, id |-> DEFAULT_HYDRATED_ID]

\* OneJobPerKey rules out the error "Lost state for job": a failure without a
\* speculative entry would end the event loop here.
reconcile_failure ==
  /\ Listening
  /\ job_outcomes # <<>> /\ Head(job_outcomes).kind = "Failed"
  /\ LET job     == Head(job_outcomes).job
         k       == job.key
         current == speculative_state[k]
         pending == pending_confirmations \ {job.id}
         spec    == IF ~IsSuperseded(job) /\ job.user_initiated
                      THEN [speculative_state EXCEPT ![k] = converge_to_last_confirmed(k)]
                      ELSE speculative_state
     IN  IF current = None
           THEN fail_all_confirmations(pending, Answer(job, "Internal"))
           ELSE /\ pending_confirmations' = pending
                /\ replies' = Answer(job, "Internal")
                /\ speculative_state' = spec
                /\ sending' = send_next_for(k, spec, pending)
                /\ UNCHANGED <<confirmed_state, id_counter, committing, running,
                               dropped, last_intent>>
  /\ job_outcomes' = Tail(job_outcomes)
  /\ UNCHANGED job_queue

\* An elapsed snooze timer re-enters as an automated Unbypassed update.
dispatch_automated_wake ==
  /\ Listening
  /\ job_outcomes # <<>> /\ Head(job_outcomes).kind = "Wake"
  /\ LET k == Head(job_outcomes).key
     IN  IF should_publish(get_latest_status(k), k \in EpicsKeys, WakeStatus)
           THEN RecordIntent(k, WakeStatus, pending_confirmations)
           ELSE UNCHANGED coordinatorVars
  /\ job_outcomes' = Tail(job_outcomes)
  /\ UNCHANGED job_queue

-----------------------------------------------------------------------------
(* Jobs on their way.  A key's job is being sent, in the queue to the handler
   or in an outcome that the handler has given back; a Wake carries no job. *)

InSending(k)  == sending # None /\ sending.key = k
InQueue(k)    == \E i \in DOMAIN job_queue : job_queue[i].key = k
InOutcomes(k) == \E i \in DOMAIN job_outcomes :
                   job_outcomes[i].kind # "Wake" /\ job_outcomes[i].key = k

OnceInQueue(k) ==
  \A i, j \in DOMAIN job_queue : job_queue[i].key = k /\ job_queue[j].key = k => i = j

OnceInOutcomes(k) ==
  \A i, j \in DOMAIN job_outcomes :
    /\ job_outcomes[i].kind # "Wake" /\ job_outcomes[i].key = k
    /\ job_outcomes[j].kind # "Wake" /\ job_outcomes[j].key = k
    => i = j
=============================================================================
