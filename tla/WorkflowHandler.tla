-------------------------- MODULE WorkflowHandler --------------------------
(***************************************************************************)
(* The workflow handler (src/engine/workflow.rs): runs every job through   *)
(* WORKFLOW_ORDER, one effect at a time, and reports the outcome.          *)
(*                                                                         *)
(* An action is one turn of its event loop.  It constrains the handler's   *)
(* variables and the channels the turn uses; the composing module leaves   *)
(* the rest alone.                                                         *)
(***************************************************************************)
EXTENDS Channels

VARIABLES
  jobs,          \* [Keys -> TrackedJob or None]
  workflow_up    \* the task is alive: its ends of the channels are open

workflowVars == <<jobs, workflow_up>>

WORKFLOW_ORDER == <<"Snooze", "Publish">>

\* step: how many effects have been dispatched.
TrackedJob == [job : Job, step : Nat]

WorkflowTypeOK ==
  /\ jobs \in [Keys -> TrackedJob \cup {None}]
  /\ workflow_up \in BOOLEAN

WorkflowInit ==
  /\ jobs = [k \in Keys |-> None]
  /\ workflow_up = TRUE

-----------------------------------------------------------------------------

send_failed(k) ==
  /\ jobs' = [jobs EXCEPT ![k] = None]
  /\ job_outcomes' = Append(job_outcomes, Failed(jobs[k].job))

\* Dispatches the effect after the ones already done, and counts it.  A job
\* past the last one fails ("Overran workflow steps").
advance_workflow(k, tracked) ==
  LET job  == tracked.job
      step == tracked.step
  IN  IF step < Len(WORKFLOW_ORDER)
        THEN /\ jobs' = [jobs EXCEPT ![k] = [job |-> job, step |-> step + 1]]
             /\ snooze_inputs' =
                  IF WORKFLOW_ORDER[step + 1] = "Snooze"
                    THEN snooze_inputs \cup {[key |-> k, wake |-> job.status.wake]}
                    ELSE snooze_inputs
             /\ publish_queue' =
                  IF WORKFLOW_ORDER[step + 1] = "Publish"
                    THEN publish_queue \cup
                           {[key |-> k, status |-> job.status,
                             user_initiated |-> job.user_initiated]}
                    ELSE publish_queue
             /\ UNCHANGED job_outcomes
        ELSE /\ send_failed(k)
             /\ UNCHANGED <<snooze_inputs, publish_queue>>

-----------------------------------------------------------------------------

handle_new_job ==
  /\ workflow_up
  /\ job_queue # <<>>
  /\ publish_outcomes = {} /\ snooze_outcomes = <<>>
  /\ LET job == Head(job_queue)
     IN  advance_workflow(job.key, [job |-> job, step |-> 0])
  /\ job_queue' = Tail(job_queue)
  /\ UNCHANGED <<workflow_up, snooze_outcomes, publish_outcomes>>

\* The three snooze outcomes.  A missing job would panic here (Option::expect):
\* EffectHasJob rules it out.
handle_snooze_result ==
  /\ workflow_up
  /\ snooze_outcomes # <<>>
  /\ publish_outcomes = {}
  /\ LET result == Head(snooze_outcomes)
         k      == result.key
     IN  \/ /\ result.kind = "Accepted"
            /\ jobs[k] # None
            /\ advance_workflow(k, jobs[k])
         \/ /\ result.kind = "Expired"
            /\ job_outcomes' = Append(job_outcomes, Wake(k))
            /\ UNCHANGED <<jobs, snooze_inputs, publish_queue>>
         \/ /\ result.kind = "InvalidWake"
            /\ jobs[k] # None
            /\ send_failed(k)
            /\ UNCHANGED <<snooze_inputs, publish_queue>>
  /\ snooze_outcomes' = Tail(snooze_outcomes)
  /\ UNCHANGED <<workflow_up, job_queue, publish_outcomes>>

\* One result of a Single or a Batch.
dispatch_publish_result(result) ==
  /\ workflow_up
  /\ result \in publish_outcomes
  /\ jobs[result.key] # None
  /\ LET k == result.key
     IN  \/ /\ result.ok
            /\ jobs' = [jobs EXCEPT ![k] = None]
            /\ job_outcomes' = Append(job_outcomes, Committed(jobs[k].job))
         \/ /\ ~result.ok
            /\ send_failed(k)
  /\ publish_outcomes' = publish_outcomes \ {result}
  /\ UNCHANGED <<workflow_up, job_queue, snoozeChannels, publish_queue>>

\* The task ends (a panic): its ends of the channels close.
WorkflowStops ==
  /\ workflow_up
  /\ workflow_up' = FALSE
  /\ job_queue' = <<>>
  /\ UNCHANGED <<jobs, job_outcomes, snoozeChannels, publishChannels>>
=============================================================================
