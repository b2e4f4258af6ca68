---------------------------- MODULE Backpressure ----------------------------
(***************************************************************************)
(* The bounded channels of src/runtime.rs and the sends their tasks await. *)
(*                                                                         *)
(* Every channel between the coordinator, the workflow handler, the snooze *)
(* scheduler and the publish engine holds a limited number of messages,    *)
(* and every task awaits room before it goes back to its select.  Tasks    *)
(* that fill each other's channels can therefore wait for each other.      *)
(*                                                                         *)
(* Only what decides who waits is kept: which keys have a job, where the   *)
(* job is, and which messages exist.  What the policy, the wall clock, the *)
(* user and Kafka decide is a free choice.                                 *)
(***************************************************************************)
EXTENDS Naturals, Sequences, FiniteSets

CONSTANTS
  Keys,              \* alarm identities
  None,              \* an absent message
  JobCap,            \* capacity of the job and the job outcome channel
  SnoozeCap,         \* capacity of the two snooze channels
  PublishCap,        \* capacity of the two publish channels
  BATCH_SIZE,        \* automated publish results that go back at once
  PublishMayFail     \* whether Kafka may fail in this instance

ASSUME BackpressureAssumption ==
  /\ IsFiniteSet(Keys)
  /\ JobCap \in Nat \ {0} /\ SnoozeCap \in Nat \ {0} /\ PublishCap \in Nat \ {0}
  /\ BATCH_SIZE \in Nat \ {0}
  /\ PublishMayFail \in BOOLEAN

Tasks == {"coordinator", "handler", "scheduler", "engine"}

Channels == {"jobs", "outcomes", "snooze", "snooze_outcomes", "publish",
             "publish_outcomes"}

Cap == [c \in Channels |->
          CASE c \in {"jobs", "outcomes"} -> JobCap
            [] c \in {"snooze", "snooze_outcomes"} -> SnoozeCap
            [] OTHER -> PublishCap]

Note(kinds) == [kind : kinds, key : Keys]

\* A message is about one key; only publish results come in batches.
Message == [c \in Channels |->
  CASE c = "jobs"             -> Note({"Job"})
    [] c = "outcomes"         -> Note({"Committed", "Failed", "Wake"})
    [] c = "snooze"           -> Note({"Snooze"})
    [] c = "snooze_outcomes"  -> Note({"Accepted", "InvalidWake", "Expired"})
    [] c = "publish"          -> Note({"Publish"})
    [] c = "publish_outcomes" -> SUBSET Note({"Ok", "Err"})]

ASSUME NoneIsNoSend == \A c \in Channels : \A m \in Message[c] : [to |-> c, message |-> m] # None

VARIABLES
  chan,         \* the messages of every channel
  outbox,       \* [Tasks -> the message whose send the task awaits, or None]
  batch,        \* results of the outcome the handler works through
  armed,        \* keys with a snooze timer
  in_flight,    \* keys with a publish attempt
  completed,    \* automated results not yet flushed
  intent        \* [Keys -> "none", "busy" or "newer"]: speculative state that
                \* the key's job carries, or that is newer than its job

vars == <<chan, outbox, batch, armed, in_flight, completed, intent>>
effectVars == <<armed, in_flight, completed>>

\* Every message is one of its channel's, no channel holds more than it may.
TypeOK ==
  /\ DOMAIN chan = Channels /\ DOMAIN outbox = Tasks
  /\ \A c \in Channels : chan[c] \in Seq(Message[c]) /\ Len(chan[c]) <= Cap[c]
  /\ \A t \in Tasks : outbox[t] # None =>
       outbox[t].to \in Channels /\ outbox[t].message \in Message[outbox[t].to]
  /\ batch \subseteq Note({"Ok", "Err"}) /\ completed \subseteq Note({"Ok", "Err"})
  /\ armed \subseteq Keys /\ in_flight \subseteq Keys
  /\ intent \in [Keys -> {"none", "busy", "newer"}]

Init ==
  /\ chan = [c \in Channels |-> <<>>]
  /\ outbox = [t \in Tasks |-> None]
  /\ batch = {} /\ armed = {} /\ in_flight = {} /\ completed = {}
  /\ intent = [k \in Keys |-> "none"]

-----------------------------------------------------------------------------
(* Channels *)

msg(kind, k) == [kind |-> kind, key |-> k]

\* The task has sent what it had to send and is back at its select.
Listening(t) == outbox[t] = None

Has(c) == chan[c] # <<>>

\* The messages of c without the first.
Recv(c) == [chan EXCEPT ![c] = Tail(@)]

\* The task will await room for message in c.
Awaits(t, c, message) == outbox' = [outbox EXCEPT ![t] = [to |-> c, message |-> message]]

\* Mutant: counts one place too few.
HasRoom_spare(c) == Len(chan[c]) + 1 < Cap[c]

\* Mutant: lets one message too many in.
HasRoom_overfills(c) == Len(chan[c]) <= Cap[c]

HasRoom(c) == Len(chan[c]) < Cap[c]

\* The send a task awaits ends.
Send(t) ==
  /\ ~Listening(t)
  /\ HasRoom(outbox[t].to)
  /\ chan' = [chan EXCEPT ![outbox[t].to] = Append(@, outbox[t].message)]
  /\ outbox' = [outbox EXCEPT ![t] = None]
  /\ UNCHANGED <<batch, effectVars, intent>>

-----------------------------------------------------------------------------
(* The coordinator *)

\* An update is recorded, and sent if the key has no job.
Record(k) ==
  IF intent[k] = "none"
    THEN /\ intent' = [intent EXCEPT ![k] = "busy"]
         /\ Awaits("coordinator", "jobs", msg("Job", k))
    ELSE /\ intent' = [intent EXCEPT ![k] = "newer"]
         /\ UNCHANGED outbox

Input(k) ==
  /\ Listening("coordinator") /\ ~Has("outcomes")
  /\ Record(k)
  /\ UNCHANGED <<chan, batch, effectVars>>

\* Mutant: a failed job is sent again and its intent forgotten.
SendNext_forgets(k) ==
  /\ intent' = [intent EXCEPT ![k] = "none"]
  /\ Awaits("coordinator", "jobs", msg("Job", k))

\* The key's latest intent is sent.
SendNext(k) ==
  /\ intent' = [intent EXCEPT ![k] = "busy"]
  /\ Awaits("coordinator", "jobs", msg("Job", k))

\* A success that is not superseded ends the job; a superseded one, and every
\* failure, sends the next.  A wake is an update that may be ignored.
reconcile_job_outcome ==
  /\ Listening("coordinator") /\ Has("outcomes")
  /\ LET kind == Head(chan["outcomes"]).kind
         k    == Head(chan["outcomes"]).key
     IN  \/ /\ kind = "Committed" /\ intent[k] # "newer"
            /\ intent' = [intent EXCEPT ![k] = "none"]
            /\ UNCHANGED outbox
         \/ /\ kind = "Committed" => intent[k] = "newer"
            /\ kind # "Wake"
            /\ SendNext(k)
         \/ /\ kind = "Wake"
            /\ Record(k) \/ UNCHANGED <<intent, outbox>>
  /\ chan' = Recv("outcomes")
  /\ UNCHANGED <<batch, effectVars>>

-----------------------------------------------------------------------------
(* The workflow handler *)

AtSelect == Listening("handler") /\ batch = {}

handle_publish_outcome ==
  /\ AtSelect /\ Has("publish_outcomes")
  /\ batch' = Head(chan["publish_outcomes"])
  /\ chan' = Recv("publish_outcomes")
  /\ UNCHANGED <<outbox, effectVars, intent>>

dispatch_publish_result ==
  /\ Listening("handler")
  /\ \E result \in batch :
       /\ batch' = batch \ {result}
       /\ Awaits("handler", "outcomes",
                 msg(IF result.kind = "Ok" THEN "Committed" ELSE "Failed", result.key))
  /\ UNCHANGED <<chan, effectVars, intent>>

handle_snooze_result ==
  /\ AtSelect /\ ~Has("publish_outcomes") /\ Has("snooze_outcomes")
  /\ LET result == Head(chan["snooze_outcomes"])
     IN  CASE result.kind = "Accepted" ->
                Awaits("handler", "publish", msg("Publish", result.key))
           [] result.kind = "Expired" ->
                Awaits("handler", "outcomes", msg("Wake", result.key))
           [] OTHER ->
                Awaits("handler", "outcomes", msg("Failed", result.key))
  /\ chan' = Recv("snooze_outcomes")
  /\ UNCHANGED <<batch, effectVars, intent>>

handle_new_job ==
  /\ AtSelect /\ ~Has("publish_outcomes") /\ ~Has("snooze_outcomes") /\ Has("jobs")
  /\ Awaits("handler", "snooze", msg("Snooze", Head(chan["jobs"]).key))
  /\ chan' = Recv("jobs")
  /\ UNCHANGED <<batch, effectVars, intent>>

HandlerStep ==
  \/ handle_publish_outcome \/ dispatch_publish_result
  \/ handle_snooze_result \/ handle_new_job

-----------------------------------------------------------------------------
(* The snooze scheduler *)

\* The command sets, cancels or is refused.
handle_snooze_input ==
  /\ Listening("scheduler") /\ Has("snooze")
  /\ LET k == Head(chan["snooze"]).key
     IN  \/ /\ armed' \in {armed \cup {k}, armed \ {k}}
            /\ Awaits("scheduler", "snooze_outcomes", msg("Accepted", k))
         \/ /\ Awaits("scheduler", "snooze_outcomes", msg("InvalidWake", k))
            /\ UNCHANGED armed
  /\ chan' = Recv("snooze")
  /\ UNCHANGED <<batch, in_flight, completed, intent>>

Expire(k) ==
  /\ Listening("scheduler")
  /\ k \in armed
  /\ armed' = armed \ {k}
  /\ Awaits("scheduler", "snooze_outcomes", msg("Expired", k))
  /\ UNCHANGED <<chan, batch, in_flight, completed, intent>>

-----------------------------------------------------------------------------
(* The publish engine.  An attempt that fails and is tried again changes
   nothing here. *)

ReceivePublish ==
  /\ Listening("engine") /\ Has("publish")
  /\ in_flight' = in_flight \cup {Head(chan["publish"]).key}
  /\ chan' = Recv("publish")
  /\ UNCHANGED <<outbox, batch, armed, completed, intent>>

\* The last attempt ends.  A user's result goes back alone, an automated one
\* waits for the flush or for a full batch.
handle_completed_work(k) ==
  /\ Listening("engine")
  /\ k \in in_flight
  /\ in_flight' = in_flight \ {k}
  /\ \E kind \in IF PublishMayFail THEN {"Ok", "Err"} ELSE {"Ok"} :
       LET result == msg(kind, k)
           done   == completed \cup {result}
       IN  \/ /\ Awaits("engine", "publish_outcomes", {result})
              /\ UNCHANGED completed
           \/ /\ Cardinality(done) >= BATCH_SIZE
              /\ Awaits("engine", "publish_outcomes", done)
              /\ completed' = {}
           \/ /\ Cardinality(done) < BATCH_SIZE
              /\ completed' = done
              /\ UNCHANGED outbox
  /\ UNCHANGED <<chan, batch, armed, intent>>

\* Mutant: waits for a full batch.
flush_completed_batch_full ==
  /\ Listening("engine")
  /\ Cardinality(completed) >= BATCH_SIZE
  /\ Awaits("engine", "publish_outcomes", completed)
  /\ completed' = {}
  /\ UNCHANGED <<chan, batch, armed, in_flight, intent>>

flush_completed_batch ==
  /\ Listening("engine")
  /\ completed # {}
  /\ Awaits("engine", "publish_outcomes", completed)
  /\ completed' = {}
  /\ UNCHANGED <<chan, batch, armed, in_flight, intent>>

-----------------------------------------------------------------------------

Next ==
  \/ \E t \in Tasks : Send(t)
  \/ \E k \in Keys : Input(k) \/ Expire(k) \/ handle_completed_work(k)
  \/ reconcile_job_outcome \/ HandlerStep
  \/ handle_snooze_input \/ ReceivePublish \/ flush_completed_batch

Spec == Init /\ [][Next]_vars

\* Every task runs whenever it can.  The scheduler's select is not biased; the
\* engine's is, but each completion needs a request taken at the lowest
\* priority, so neither the flush tick nor a completion waits for ever.
Fairness ==
  /\ \A t \in Tasks : WF_vars(Send(t))
  /\ WF_vars(reconcile_job_outcome) /\ WF_vars(HandlerStep)
  /\ WF_vars(handle_snooze_input)
  /\ WF_vars(ReceivePublish) /\ SF_vars(flush_completed_batch)
  /\ \A k \in Keys : SF_vars(handle_completed_work(k))

FairSpec == Spec /\ Fairness

-----------------------------------------------------------------------------
(* Properties *)

\* The task that empties the channel.
Receiver == [c \in Channels |->
               CASE c \in {"jobs", "snooze_outcomes", "publish_outcomes"} -> "handler"
                 [] c = "outcomes" -> "coordinator"
                 [] c = "snooze" -> "scheduler"
                 [] OTHER -> "engine"]

\* The task waits for room that only the receiver of the full channel makes.
WaitsFor(t, u) == ~Listening(t) /\ ~HasRoom(outbox[t].to) /\ Receiver[outbox[t].to] = u

\* No two tasks wait for each other.  A longer circle would need the handler
\* twice: it is at one end of every channel.
NoCircularWait == \A t, u \in Tasks : ~(WaitsFor(t, u) /\ WaitsFor(u, t))

\* The places a job of k can be in: messages that are not wakes, results.
About(c, m) ==
  IF c = "publish_outcomes" THEN { r.key : r \in m }
  ELSE IF m.kind \in {"Wake", "Expired"} THEN {} ELSE {m.key}
Places(k) ==
  { p \in Channels \X (1 .. JobCap + SnoozeCap + PublishCap) :
      p[2] \in DOMAIN chan[p[1]] /\ k \in About(p[1], chan[p[1]][p[2]]) }
    \cup { t \in Tasks :
             ~Listening(t) /\ k \in About(outbox[t].to, outbox[t].message) }
    \cup { m \in batch \cup completed : m.key = k }
    \cup (in_flight \cap {k})

\* A key has one job as long as it has intent and none at rest, wherever sends
\* are awaited: it is what bounds the messages in the channels.
OneJobPerKey ==
  \A k \in Keys : Cardinality(Places(k)) = IF intent[k] = "none" THEN 0 ELSE 1

\* The outcome of k's job waits for the coordinator.
Returned(k) ==
  \E i \in DOMAIN chan["outcomes"] :
    chan["outcomes"][i].key = k /\ chan["outcomes"][i].kind # "Wake"

\* What the workflow handler reports is reconciled: while an outcome waits, the
\* coordinator comes back to its select, where outcomes have the first turn.
OutcomesReconciled == Has("outcomes") ~> Listening("coordinator")

\* Every job comes back to the coordinator, whatever jobs, wakes and inputs of
\* other keys go on at the same time.
JobReturns ==
  \A k \in Keys : (\E i \in DOMAIN chan["jobs"] : chan["jobs"][i].key = k) ~> Returned(k)
=============================================================================
