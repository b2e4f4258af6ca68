------------------------------ MODULE Channels ------------------------------
(***************************************************************************)
(* The message types of the runtime and the channels src/runtime.rs wires  *)
(* between its four tasks:                                                 *)
(*                                                                         *)
(*   Coordinator --job_queue--> WorkflowHandler --snooze_inputs--> Snooze  *)
(*               <-job_outcomes-                <-snooze_outcomes-         *)
(*                                              --publish_queue--> Publish *)
(*                                              <-publish_outcomes-        *)
(*                                                                         *)
(* The two channels whose order a decision can depend on are sequences.    *)
(* snooze_outcomes is one as well: an expiry and the answer to a command   *)
(* of the same key must not overtake each other.  Snooze commands, publish *)
(* requests and publish outcomes of different keys are independent, and no *)
(* key has two of them, so those channels are sets.                        *)
(***************************************************************************)
EXTENDS Policy, Sequences

CONSTANTS
  Keys,        \* alarm identities, DEVICE#Source
  EpicsKeys,   \* those whose source is Epics
  JobCap       \* capacity of job_queue

ASSUME KeysAssumption == EpicsKeys \subseteq Keys
ASSUME JobCapAssumption == JobCap \in Nat \ {0}

\* A (status, id) pair of an AlarmsCache.
Entry == [status : Status, id : Nat]

Job == [id : Nat, key : Keys, status : Status, user_initiated : BOOLEAN]

\* Wake carries a key and no job; Committed and Failed give the job back.
JobOutcome == [kind : {"Committed", "Failed"}, key : Keys, job : Job]
                \cup [kind : {"Wake"}, key : Keys, job : {None}]

Committed(job) == [kind |-> "Committed", key |-> job.key, job |-> job]
Failed(job)    == [kind |-> "Failed", key |-> job.key, job |-> job]
Wake(k)        == [kind |-> "Wake", key |-> k, job |-> None]

\* Set when wake is a timestamp, Cancel when it is NoWake.
SnoozeInput   == [key : Keys, wake : Wakes \cup {NoWake}]
SnoozeOutcome == [kind : {"Accepted", "InvalidWake", "Expired"}, key : Keys]

\* Publish::User or Publish::Automated around the details.
Publish        == [key : Keys, status : Status, user_initiated : BOOLEAN]
PublishResult  == [key : Keys, ok : BOOLEAN]

ASSUME NoneIsNoRecord == None \notin Entry \cup Job \cup [job : Job, step : Nat]

VARIABLES
  job_queue,         \* Seq(Job)
  job_outcomes,      \* Seq(JobOutcome)
  snooze_inputs,     \* SUBSET SnoozeInput
  snooze_outcomes,   \* Seq(SnoozeOutcome)
  publish_queue,     \* SUBSET Publish
  publish_outcomes   \* SUBSET PublishResult

jobChannels     == <<job_queue, job_outcomes>>
snoozeChannels  == <<snooze_inputs, snooze_outcomes>>
publishChannels == <<publish_queue, publish_outcomes>>

ChannelsTypeOK ==
  /\ job_queue \in Seq(Job)
  /\ job_outcomes \in Seq(JobOutcome)
  /\ snooze_inputs \subseteq SnoozeInput
  /\ snooze_outcomes \in Seq(SnoozeOutcome)
  /\ publish_queue \subseteq Publish
  /\ publish_outcomes \subseteq PublishResult

ChannelsInit ==
  /\ job_queue = <<>> /\ job_outcomes = <<>>
  /\ snooze_inputs = {} /\ snooze_outcomes = <<>>
  /\ publish_queue = {} /\ publish_outcomes = {}
=============================================================================
