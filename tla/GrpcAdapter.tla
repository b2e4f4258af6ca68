---------------------------- MODULE GrpcAdapter ----------------------------
(***************************************************************************)
(* The gRPC adapter (src/adapters/grpc.rs) and the user ingress            *)
(* (src/engine/ingress.rs) in front of the alarm service: calls that       *)
(* submit one update per device into the coordinator's bounded user queue  *)
(* and wait for all the confirmations, and snapshot requests that go       *)
(* through the same queue.                                                 *)
(*                                                                         *)
(* The coordinator is the one of module Coordinator.  Of the workflow      *)
(* handler and the effects only the outside is kept, as AlarmService shows *)
(* it: every job sent to it comes back committed or failed, those of       *)
(* different keys in any order; job_queue holds the jobs it has not given  *)
(* back.  One life of the process: the handler may end, and with it the    *)
(* coordinator; nothing is started again.  Automated updates, which the    *)
(* coordinator takes only when no user message waits, are AlarmService's;  *)
(* here callers supersede each other.                                      *)
(***************************************************************************)
EXTENDS Coordinator, SequencesExt

CONSTANTS
  Callers,      \* calls of acknowledge, activate, bypass and snooze
  Viewers,      \* the callers who then call get_snapshot
  Requests,     \* [Callers -> what the caller may ask for]
  UserCap,      \* capacity of the user queue
  Hydrated      \* [Keys -> the status the coordinator is started with, or None]

ASSUME GrpcAssumption ==
  /\ Viewers \subseteq Callers
  /\ UserCap \in Nat \ {0}
  /\ Hydrated \in [Keys -> Status \cup {None}]

\* devices: the keys the device strings stand for, None for one that is not a
\* key.
Request == [rpc : {"acknowledge", "activate", "bypass", "snooze"},
            devices : Seq(Keys \cup {None}), wake : Wakes \cup {NoWake}]

ASSUME RequestsAssumption ==
  DOMAIN Requests = Callers /\ \A c \in Callers : Requests[c] \subseteq Request

\* One update of a call: in the queue, refused by the policy, or recorded.
Ticket == [state : {"queued", "refused", "recorded"}, id : Nat]

Response == {"Ok", "InvalidArgument", "Internal", "ResourceExhausted"}

ASSUME NoneIsNoResponse == None \notin Response

VARIABLES
  workflow_up,   \* the workflow handler has not ended
  user_queue,    \* the coordinator's user queue
  calls,         \* [Callers -> stage, request, tickets so far, response]
  views          \* [Viewers -> stage, statuses shown; history: what was
                 \*  acknowledged before the request, ids confirmed at the answer]

effectChannels == <<snoozeChannels, publishChannels>>    \* empty here
handlerVars == <<workflow_up, effectChannels>>
serviceVars == <<coordinatorVars, jobChannels, handlerVars>>
grpcVars == <<user_queue, calls, views>>
vars == <<serviceVars, grpcVars>>

Queued == [call : Callers, index : Nat] \cup [view : Viewers]

Call == [stage : {"idle", "submitting", "waiting", "done"}, request : Request \cup {None},
         tickets : Seq(Ticket), response : Response \cup {None}]

\* An update of a key, with the id the coordinator gave it.
Update == [key : Keys, id : Nat, status : Status]

View == [stage : {"idle", "waiting", "done", "failed"}, known : SUBSET Update,
         shown : UNION { [alarms -> Status] : alarms \in SUBSET Keys }, ids : [Keys -> Nat]]

\* Every call, view and queued message has its type, the user queue its bound.
TypeOK ==
  /\ ChannelsTypeOK /\ CoordinatorTypeOK
  /\ workflow_up \in BOOLEAN
  /\ user_queue \in Seq(Queued) /\ Len(user_queue) <= UserCap
  /\ calls \in [Callers -> Call]
  /\ \A c \in Callers : calls[c].request \in Requests[c] \cup {None}
  /\ views \in [Viewers -> View]

Init ==
  /\ ChannelsInit
  /\ new(Hydrated)
  /\ workflow_up = TRUE
  /\ user_queue = <<>>
  /\ calls = [c \in Callers |->
       [stage |-> "idle", request |-> None, tickets |-> <<>>, response |-> None]]
  /\ views = [v \in Viewers |-> [stage |-> "idle", known |-> {}, shown |-> <<>>,
                                 ids |-> [k \in Keys |-> DEFAULT_HYDRATED_ID]]]

-----------------------------------------------------------------------------
(* Submitting *)

\* The action of each of the four procedures.
action(request) ==
  [kind |-> CASE request.rpc = "acknowledge" -> "Acknowledge"
              [] request.rpc = "activate"    -> "Activate"
              [] OTHER                       -> "Bypass",
   wake |-> IF request.rpc = "snooze" THEN request.wake ELSE NoWake]

\* build_keys finds a device that is no key, or the wake timestamp is missing.
Malformed(request) ==
  \/ \E i \in DOMAIN request.devices : request.devices[i] = None
  \/ request.rpc = "snooze" /\ request.wake = NoWake

Return(c, response) ==
  calls' = [calls EXCEPT ![c].stage = "done", ![c].response = response]

\* A procedure is called.  Nothing is submitted for a malformed request.
Begin(c, request) ==
  /\ calls[c].stage = "idle"
  /\ calls' = IF Malformed(request)
       THEN [calls EXCEPT ![c].stage = "done", ![c].response = "InvalidArgument"]
       ELSE [calls EXCEPT ![c].stage = IF request.devices = <<>>
                                         THEN "waiting" ELSE "submitting",
                          ![c].request = request]
  /\ UNCHANGED <<serviceVars, user_queue, views>>

\* Mutant: lets one message too many in.
try_send_overfills(message) ==
  running /\ Len(user_queue) <= UserCap /\ user_queue' = Append(user_queue, message)

\* UserIngressHandle::try_send, when it succeeds.
try_send(message) ==
  running /\ Len(user_queue) < UserCap /\ user_queue' = Append(user_queue, message)

map_user_send_error == IF running THEN "ResourceExhausted" ELSE "Internal"

\* Mutant: takes back what the call has queued.
SubmitFails_retracts(c) ==
  /\ ~running \/ Len(user_queue) >= UserCap
  /\ Return(c, map_user_send_error)
  /\ user_queue' = SelectSeq(user_queue, LAMBDA m : "call" \in DOMAIN m => m.call # c)

\* The whole call fails.  What was queued for earlier devices stays queued.
SubmitFails(c) ==
  /\ ~running \/ Len(user_queue) >= UserCap
  /\ Return(c, map_user_send_error)
  /\ UNCHANGED user_queue

\* submit_updates, one device.
SubmitNext(c) ==
  LET next == Len(calls[c].tickets) + 1
  IN  /\ calls[c].stage = "submitting"
      /\ \/ /\ try_send([call |-> c, index |-> next])
            /\ calls' = [calls EXCEPT
                 ![c].stage = IF next < Len(calls[c].request.devices)
                                THEN "submitting" ELSE "waiting",
                 ![c].tickets = Append(@, [state |-> "queued", id |-> DEFAULT_HYDRATED_ID])]
         \/ SubmitFails(c)
      /\ UNCHANGED <<serviceVars, views>>

-----------------------------------------------------------------------------
(* Confirmations *)

\* Mutant: expects the coordinator to come to every queued update.
confirmation_waits(ticket) ==
  CASE ticket.state = "refused" -> "StateNotAllowed"
    [] ticket.state = "queued"  -> None
    [] OTHER -> IF ticket.id \in dropped THEN "Dropped"
                ELSE LET told == { r \in replies : r.id = ticket.id }
                     IN  IF told = {} THEN None ELSE (CHOOSE r \in told : TRUE).result

\* What the receiver of an update yields, None as long as it yields nothing.
\* The coordinator's end drops the senders it did not use.
confirmation(ticket) ==
  CASE ticket.state = "refused" -> "StateNotAllowed"
    [] ticket.state = "queued"  -> IF running THEN None ELSE "Dropped"
    [] OTHER -> IF ticket.id \in dropped THEN "Dropped"
                ELSE LET told == { r \in replies : r.id = ticket.id }
                     IN  IF told = {} THEN None ELSE (CHOOSE r \in told : TRUE).result

\* join_all: every receiver has yielded.
Confirmed(c) ==
  \A i \in DOMAIN calls[c].tickets : confirmation(calls[c].tickets[i]) # None

\* Mutant: one success is enough.
build_grpc_result_partial(results) ==
  IF results = {} \/ "Ok" \in results THEN "Ok"
  ELSE IF results \subseteq {"Ok", "StateNotAllowed"} THEN "InvalidArgument"
  ELSE "Internal"

build_grpc_result(results) ==
  IF results \subseteq {"Ok"} THEN "Ok"
  ELSE IF results \subseteq {"Ok", "StateNotAllowed"} THEN "InvalidArgument"
  ELSE "Internal"

handle_confirmation(c) ==
  /\ calls[c].stage = "waiting"
  /\ Confirmed(c)
  /\ Return(c, build_grpc_result({ confirmation(calls[c].tickets[i]) :
                                      i \in DOMAIN calls[c].tickets }))
  /\ UNCHANGED <<serviceVars, user_queue, views>>

-----------------------------------------------------------------------------
(* Snapshots *)

\* History: the updates that callers were told Ok about, with their ids.
Acknowledged ==
  UNION { { [key |-> calls[c].request.devices[i], id |-> calls[c].tickets[i].id,
             status |-> build_user_status(action(calls[c].request))] :
              i \in DOMAIN calls[c].request.devices } :
            c \in { d \in Callers : calls[d].response = "Ok" } }

\* History: the id of the entry that each key is confirmed with.
ConfirmedIds ==
  [k \in Keys |-> IF confirmed_state[k] = None THEN DEFAULT_HYDRATED_ID ELSE confirmed_state[k].id]

get_snapshot(v) ==
  /\ views[v].stage = "idle" /\ calls[v].stage = "done"
  /\ \/ /\ try_send([view |-> v])
        /\ views' = [views EXCEPT ![v].stage = "waiting", ![v].known = Acknowledged]
     \/ /\ ~running \/ Len(user_queue) >= UserCap
        /\ views' = [views EXCEPT ![v].stage = "failed"]
        /\ UNCHANGED user_queue
  /\ UNCHANGED <<serviceVars, calls>>

\* The coordinator ended before it came to the request.
SnapshotDropped(v) ==
  /\ views[v].stage = "waiting" /\ ~running
  /\ views' = [views EXCEPT ![v].stage = "failed"]
  /\ UNCHANGED <<serviceVars, user_queue, calls>>

-----------------------------------------------------------------------------
(* The coordinator's end of the queues *)

\* A user message is taken: the update is recorded or refused, the snapshot
\* answered.
TakeUser ==
  /\ TakesInput /\ user_queue # <<>>
  /\ user_queue' = Tail(user_queue)
  /\ LET message == Head(user_queue)
     IN  \/ /\ "view" \in DOMAIN message
            /\ views' = [views EXCEPT ![message.view].stage = "done",
                 ![message.view].shown = [k \in handle_snapshot |-> confirmed_state[k].status],
                 ![message.view].ids = ConfirmedIds]
            /\ UNCHANGED <<serviceVars, calls>>
         \/ /\ "call" \in DOMAIN message
            /\ LET c == message.call
                   i == message.index
                   k == calls[c].request.devices[i]
                   a == action(calls[c].request)
               IN  \/ /\ handle_user_update(k, a)
                      /\ calls' = [calls EXCEPT ![c].tickets[i] =
                           [state |-> "recorded", id |-> id_counter]]
                      /\ UNCHANGED handlerVars
                   \/ /\ ~user_action_allowed(get_latest_status(k), a)
                      /\ calls' = [calls EXCEPT ![c].tickets[i].state = "refused"]
                      /\ UNCHANGED serviceVars
            /\ UNCHANGED views

Reconcile ==
  /\ reconcile_success \/ reconcile_failure
  /\ UNCHANGED <<handlerVars, grpcVars>>

\* The send of a job ends.  When the coordinator ends, its queue goes with it.
Send ==
  /\ \/ workflow_up /\ SendJob
     \/ ~workflow_up /\ SendFails
  /\ user_queue' = IF running' THEN user_queue ELSE <<>>
  /\ UNCHANGED <<handlerVars, calls, views>>

-----------------------------------------------------------------------------
(* The workflow handler, from outside *)

\* The i-th of the jobs that were sent comes back.
Report(i, outcome) ==
  /\ workflow_up
  /\ job_queue' = RemoveAt(job_queue, i)
  /\ job_outcomes' = Append(job_outcomes, outcome)
  /\ UNCHANGED <<coordinatorVars, handlerVars, grpcVars>>

ReportCommitted(k) ==
  \E i \in DOMAIN job_queue : job_queue[i].key = k /\ Report(i, Committed(job_queue[i]))

ReportFailed(k) ==
  \E i \in DOMAIN job_queue : job_queue[i].key = k /\ Report(i, Failed(job_queue[i]))

WorkflowStops ==
  /\ workflow_up
  /\ workflow_up' = FALSE
  /\ job_queue' = <<>>
  /\ UNCHANGED <<coordinatorVars, job_outcomes, effectChannels, grpcVars>>

-----------------------------------------------------------------------------

CallStep(c) == SubmitNext(c) \/ handle_confirmation(c)

Next ==
  \/ \E c \in Callers : \/ \E request \in Requests[c] : Begin(c, request)
                        \/ CallStep(c)
  \/ \E v \in Viewers : get_snapshot(v) \/ SnapshotDropped(v)
  \/ TakeUser \/ Reconcile \/ Send
  \/ WorkflowStops
  \/ \E k \in Keys : ReportCommitted(k) \/ ReportFailed(k)

Spec == Init /\ [][Next]_vars

\* Calls run on tasks of their own and the service's tasks keep running; a job
\* that is tried again and again succeeds some time.  Nobody has to call, no
\* update has to arrive.
Fairness ==
  /\ \A c \in Callers : WF_vars(CallStep(c))
  /\ WF_vars(TakeUser) /\ WF_vars(Reconcile) /\ WF_vars(Send)
  /\ \A k \in Keys : SF_vars(ReportCommitted(k))

FairSpec == Spec /\ Fairness

-----------------------------------------------------------------------------
(* Properties *)

\* A caller who gets Ok has every one of the devices done: each was recorded,
\* written to the topic and confirmed, or something newer was.
OkMeansEveryDevice ==
  Listening =>
    \A p \in Acknowledged :
      /\ confirmed_state[p.key] # None
      /\ confirmed_state[p.key].id >= p.id
      /\ p.id > DEFAULT_HYDRATED_ID

\* Whoever asks for a snapshot after an Ok sees the action, or something newer
\* of the key that was confirmed when the snapshot was answered.  Newer intent
\* alone is no excuse: also the entry of a superseded job, which is confirmed
\* only after the Ok and the send of the next job, is there in time.
SnapshotShowsOk ==
  \A v \in Viewers : views[v].stage = "done" =>
    \A p \in views[v].known :
      /\ views[v].ids[p.key] >= p.id
      /\ views[v].ids[p.key] = p.id =>
           IF p.status.state \in {"Ok", "Unbypassed"}
             THEN p.key \notin DOMAIN views[v].shown
             ELSE p.key \in DOMAIN views[v].shown /\ views[v].shown[p.key] = p.status

\* A job with the id is being sent, with the workflow handler, or in an outcome.
OnItsWay(id) ==
  \/ sending # None /\ sending.id = id
  \/ \E i \in DOMAIN job_queue : job_queue[i].id = id
  \/ \E i \in DOMAIN job_outcomes : job_outcomes[i].kind # "Wake" /\ job_outcomes[i].job.id = id

\* A recorded update of c was not answered and has no job, and another entry,
\* or none, is what the service tries to publish for its key: newer intent
\* replaced it before its job was sent.
Superseded(c) ==
  \E i \in DOMAIN calls[c].tickets :
    LET ticket == calls[c].tickets[i]
        k      == calls[c].request.devices[i]
    IN  /\ ticket.state = "recorded" /\ ticket.id \in pending_confirmations
        /\ speculative_state[k] = None \/ speculative_state[k].id # ticket.id
        /\ ~OnItsWay(ticket.id)

\* A call ends, unless an update of it was superseded or the workflow handler
\* has gone.
CallEnds ==
  \A c \in Callers :
    calls[c].stage = "waiting" ~>
      calls[c].stage = "done" \/ Superseded(c) \/ ~workflow_up

\* Once the coordinator has ended, no caller is left waiting: every sender was
\* used or dropped, the queued and the superseded ones included.
EndAnswersEveryone ==
  \A c \in Callers : calls[c].stage = "waiting" /\ ~running ~> calls[c].stage = "done"

\* What was queued is carried through although the call was told that a later
\* device found the queue full.
PrefixTaken ==
  \A c \in Callers :
    calls[c].response = "ResourceExhausted" ~>
      ~running \/ \A i \in DOMAIN calls[c].tickets : calls[c].tickets[i].state # "queued"
=============================================================================
