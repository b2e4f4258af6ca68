-------------------------- MODULE BackpressureProofs --------------------------
(***************************************************************************)
(* Proofs about the bounded channels: a key has one job, wherever sends    *)
(* are awaited, and with room for one message of every key no two tasks    *)
(* wait for each other.                                                    *)
(***************************************************************************)
EXTENDS Backpressure, FiniteSetTheorems, TLAPS

-----------------------------------------------------------------------------
(* Sequences *)

\* What is left after the first element is gone.
LEMMA TailFacts ==
  ASSUME NEW S, NEW s \in Seq(S), s # <<>>
  PROVE  /\ Head(s) \in S /\ Tail(s) \in Seq(S)
         /\ Len(s) \in Nat /\ Len(s) >= 1 /\ Len(Tail(s)) = Len(s) - 1
         /\ DOMAIN s = 1 .. Len(s) /\ DOMAIN Tail(s) = 1 .. (Len(s) - 1)
         /\ s[1] = Head(s)
         /\ \A i \in 1 .. (Len(s) - 1) : Tail(s)[i] = s[i + 1]
OBVIOUS

\* What is there with one element more.
LEMMA AppendFacts ==
  ASSUME NEW S, NEW s \in Seq(S), NEW x \in S
  PROVE  /\ Append(s, x) \in Seq(S)
         /\ Len(s) \in Nat /\ Len(Append(s, x)) = Len(s) + 1
         /\ DOMAIN s = 1 .. Len(s) /\ DOMAIN Append(s, x) = 1 .. (Len(s) + 1)
         /\ Append(s, x)[Len(s) + 1] = x
         /\ \A i \in 1 .. Len(s) : Append(s, x)[i] = s[i]
OBVIOUS

-----------------------------------------------------------------------------
(* Messages, channels and tasks *)

\* What the channels carry.
LEMMA MessageFacts ==
  /\ Message["jobs"] = Note({"Job"}) /\ Message["outcomes"] = Note({"Committed", "Failed", "Wake"})
  /\ Message["snooze"] = Note({"Snooze"}) /\ Message["publish"] = Note({"Publish"})
  /\ Message["snooze_outcomes"] = Note({"Accepted", "InvalidWake", "Expired"})
  /\ Message["publish_outcomes"] = SUBSET Note({"Ok", "Err"})
BY DEF Message, Channels

\* How much they hold.
LEMMA CapFacts ==
  /\ Cap["jobs"] = JobCap /\ Cap["snooze"] = SnoozeCap /\ Cap["publish"] = PublishCap
  /\ \A c \in Channels : Cap[c] \in Nat /\ Cap[c] <= JobCap + SnoozeCap + PublishCap
BY BackpressureAssumption DEF Cap, Channels

\* Which channels a task sends to.
Route(t) ==
  IF t = "coordinator" THEN {"jobs"}
  ELSE IF t = "handler" THEN {"outcomes", "snooze", "publish"}
  ELSE IF t = "scheduler" THEN {"snooze_outcomes"}
  ELSE {"publish_outcomes"}

\* Every awaited send is along its route.
Routed == \A t \in Tasks : outbox[t] # None => outbox[t].to \in Route(t)

\* What is at the head of a channel.
LEMMA HeadMessage ==
  ASSUME TypeOK, NEW c \in Channels, Has(c)
  PROVE  /\ chan[c] \in Seq(Message[c]) /\ chan[c] # <<>>
         /\ Head(chan[c]) \in Message[c]
<1>1. chan[c] \in Seq(Message[c]) /\ chan[c] # <<>>
  BY DEF TypeOK, Has
<1> QED BY <1>1, TailFacts

\* It is about a key, unless it is a batch of results.
LEMMA HeadNote ==
  ASSUME TypeOK, NEW c \in Channels \ {"publish_outcomes"}, Has(c)
  PROVE  Head(chan[c]).key \in Keys
<1>1. Head(chan[c]) \in Message[c]
  BY HeadMessage
<1>2. \E kinds : Message[c] = Note(kinds)
  BY MessageFacts DEF Channels
<1>3. PICK kinds : Head(chan[c]) \in Note(kinds)
  BY <1>1, <1>2
<1> QED BY <1>3 DEF Note

-----------------------------------------------------------------------------
(* Type correctness *)

\* Taking a message keeps the types of the channels.
LEMMA RecvType ==
  ASSUME TypeOK, NEW c \in Channels, Has(c), chan' = Recv(c)
  PROVE  /\ DOMAIN chan' = Channels
         /\ \A d \in Channels : chan'[d] \in Seq(Message[d]) /\ Len(chan'[d]) <= Cap[d]
<1>1. /\ DOMAIN chan' = Channels /\ chan'[c] = Tail(chan[c])
      /\ \A d \in Channels : d # c => chan'[d] = chan[d]
  BY DEF TypeOK, Recv
<1>2. chan[c] \in Seq(Message[c]) /\ chan[c] # <<>> /\ Len(chan[c]) <= Cap[c]
  BY DEF TypeOK, Has
<1>3. chan'[c] \in Seq(Message[c]) /\ Len(chan'[c]) <= Cap[c]
  <2>1. /\ Tail(chan[c]) \in Seq(Message[c])
        /\ Len(chan[c]) \in Nat /\ Len(Tail(chan[c])) = Len(chan[c]) - 1
    BY <1>2, TailFacts
  <2>2. Cap[c] \in Nat
    BY CapFacts
  <2> QED BY <1>1, <1>2, <2>1, <2>2
<1> QED BY <1>1, <1>3 DEF TypeOK

\* A sequence with room for one more takes it.
LEMMA AppendFits ==
  ASSUME NEW S, NEW s \in Seq(S), NEW x \in S, NEW n \in Nat, Len(s) < n,
         NEW t, t = Append(s, x)
  PROVE  t \in Seq(S) /\ Len(t) <= n
BY AppendFacts

\* Sending one into a channel that has room does, too.
LEMMA SendType ==
  ASSUME TypeOK, NEW c \in Channels, NEW m \in Message[c], HasRoom(c),
         chan' = [chan EXCEPT ![c] = Append(@, m)]
  PROVE  /\ DOMAIN chan' = Channels
         /\ \A d \in Channels : chan'[d] \in Seq(Message[d]) /\ Len(chan'[d]) <= Cap[d]
<1>1. /\ DOMAIN chan' = Channels /\ chan'[c] = Append(chan[c], m)
      /\ \A d \in Channels : d # c => chan'[d] = chan[d]
  BY DEF TypeOK
<1>2. chan[c] \in Seq(Message[c]) /\ Len(chan[c]) < Cap[c]
  BY DEF TypeOK, HasRoom
<1>3. chan'[c] \in Seq(Message[c]) /\ Len(chan'[c]) <= Cap[c]
  BY <1>1, <1>2, CapFacts, AppendFits
<1> QED BY <1>1, <1>3 DEF TypeOK

\* Waiting with a message of the channel keeps the types of the outboxes.
LEMMA AwaitsType ==
  ASSUME TypeOK, Routed, NEW t \in Tasks, NEW c \in Route(t), NEW m \in Message[c], c \in Channels,
         Awaits(t, c, m)
  PROVE  /\ DOMAIN outbox' = Tasks
         /\ \A u \in Tasks : outbox'[u] # None =>
              outbox'[u].to \in Channels /\ outbox'[u].message \in Message[outbox'[u].to]
         /\ Routed'
<1>1. /\ DOMAIN outbox' = Tasks /\ outbox'[t] = [to |-> c, message |-> m]
      /\ \A u \in Tasks : u # t => outbox'[u] = outbox[u]
  BY DEF TypeOK, Awaits
<1>2. ASSUME NEW u \in Tasks, outbox'[u] # None
      PROVE  /\ outbox'[u].to \in Channels /\ outbox'[u].message \in Message[outbox'[u].to]
             /\ outbox'[u].to \in Route(u)
  <2>1. CASE u = t
    BY <1>1, <2>1
  <2>2. CASE u # t
    BY <1>1, <1>2, <2>2 DEF TypeOK, Routed
  <2> QED BY <2>1, <2>2
<1> QED BY <1>1, <1>2 DEF Routed

\* Nothing is awaited and no message exists when the tasks start.
LEMMA TypeInit == Init => TypeOK /\ Routed
<1> SUFFICES ASSUME Init PROVE TypeOK /\ Routed
  OBVIOUS
<1>1. \A S : <<>> \in Seq(S) /\ Len(<<>>) = 0
  OBVIOUS
<1>2. \A c \in Channels : chan[c] \in Seq(Message[c]) /\ Len(chan[c]) <= Cap[c]
  BY <1>1, CapFacts DEF Init
<1> QED BY <1>2 DEF Init, TypeOK, Routed

\* The types of everything but the channels and the outboxes.
OtherTypes ==
  /\ batch \subseteq Note({"Ok", "Err"}) /\ completed \subseteq Note({"Ok", "Err"})
  /\ armed \subseteq Keys /\ in_flight \subseteq Keys
  /\ intent \in [Keys -> {"none", "busy", "newer"}]

\* Every step of every task keeps the types.
LEMMA TypeStep == TypeOK /\ Routed /\ [Next]_vars => TypeOK' /\ Routed'
<1> SUFFICES ASSUME TypeOK, Routed, [Next]_vars PROVE TypeOK' /\ Routed'
  OBVIOUS
<1>1. /\ OtherTypes /\ DOMAIN chan = Channels /\ DOMAIN outbox = Tasks
      /\ "coordinator" \in Tasks /\ "handler" \in Tasks /\ "scheduler" \in Tasks /\ "engine" \in Tasks
      /\ \A k \in Keys : \A kind, kinds : kind \in kinds => msg(kind, k) \in Note(kinds)
  BY DEF TypeOK, OtherTypes, Tasks, msg, Note
<1>2. ASSUME OtherTypes',
             chan' = chan \/ \E c \in Channels : Has(c) /\ chan' = Recv(c),
             \/ outbox' = outbox
             \/ \E t \in Tasks : \E c \in Route(t) \cap Channels : \E m \in Message[c] : Awaits(t, c, m)
      PROVE  TypeOK' /\ Routed'
  <2>1. /\ DOMAIN chan' = Channels
        /\ \A d \in Channels : chan'[d] \in Seq(Message[d]) /\ Len(chan'[d]) <= Cap[d]
    BY <1>2, RecvType DEF TypeOK
  <2>2. /\ DOMAIN outbox' = Tasks
        /\ \A u \in Tasks : outbox'[u] # None =>
             outbox'[u].to \in Channels /\ outbox'[u].message \in Message[outbox'[u].to]
        /\ Routed'
    BY <1>2, AwaitsType DEF TypeOK, Routed
  <2> QED BY <1>2, <2>1, <2>2 DEF TypeOK, OtherTypes
<1>3. ASSUME NEW t \in Tasks, Send(t) PROVE TypeOK' /\ Routed'
  <2>1. PICK c \in Channels : \E m \in Message[c] : c = outbox[t].to /\ m = outbox[t].message
    BY <1>3 DEF Send, Listening, TypeOK
  <2>2. PICK m \in Message[c] : m = outbox[t].message
    BY <2>1
  <2>3. /\ DOMAIN chan' = Channels
        /\ \A d \in Channels : chan'[d] \in Seq(Message[d]) /\ Len(chan'[d]) <= Cap[d]
    BY <1>1, <1>3, <2>1, <2>2, SendType DEF Send
  <2>4. /\ DOMAIN outbox' = Tasks
        /\ \A u \in Tasks : outbox'[u] # None => outbox'[u] = outbox[u]
    BY <1>1, <1>3 DEF Send
  <2>5. OtherTypes'
    BY <1>1, <1>3 DEF Send, effectVars, OtherTypes
  <2> QED BY <2>3, <2>4, <2>5 DEF TypeOK, Routed, OtherTypes
<1>4. ASSUME NEW k \in Keys, Record(k)
      PROVE  /\ intent' \in [Keys -> {"none", "busy", "newer"}]
             /\ \/ outbox' = outbox
                \/ Awaits("coordinator", "jobs", msg("Job", k)) /\ msg("Job", k) \in Message["jobs"]
  BY <1>1, <1>4, MessageFacts DEF Record, OtherTypes
<1>5. ASSUME NEW k \in Keys, Input(k) PROVE TypeOK' /\ Routed'
  <2>1. Record(k) /\ chan' = chan /\ UNCHANGED <<batch, armed, in_flight, completed>>
    BY <1>5 DEF Input, effectVars
  <2> QED BY <1>1, <1>2, <1>4, <2>1 DEF OtherTypes, Route, Channels
<1>6. CASE reconcile_job_outcome
  <2> DEFINE kind == Head(chan["outcomes"]).kind
             k == Head(chan["outcomes"]).key
  <2>1. /\ "outcomes" \in Channels /\ Has("outcomes") /\ chan' = Recv("outcomes")
        /\ UNCHANGED <<batch, armed, in_flight, completed>>
    BY <1>6 DEF reconcile_job_outcome, effectVars, Channels
  <2>2. k \in Keys
    BY <2>1, HeadNote
  <2>3. /\ intent' \in [Keys -> {"none", "busy", "newer"}]
        /\ \/ outbox' = outbox
           \/ Awaits("coordinator", "jobs", msg("Job", k)) /\ msg("Job", k) \in Message["jobs"]
    <3>1. CASE intent' = [intent EXCEPT ![k] = "none"] /\ UNCHANGED outbox
      BY <1>1, <3>1 DEF OtherTypes
    <3>2. CASE SendNext(k)
      BY <1>1, <2>2, <3>2, MessageFacts DEF SendNext, OtherTypes
    <3>3. CASE Record(k)
      BY <1>4, <2>2, <3>3
    <3>4. CASE UNCHANGED <<intent, outbox>>
      BY <1>1, <3>4 DEF OtherTypes
    <3> QED BY <1>6, <3>1, <3>2, <3>3, <3>4 DEF reconcile_job_outcome
  <2> QED BY <1>1, <1>2, <2>1, <2>3 DEF OtherTypes, Route, Channels
<1>7. CASE handle_publish_outcome
  <2>1. /\ "publish_outcomes" \in Channels /\ Has("publish_outcomes")
        /\ chan' = Recv("publish_outcomes") /\ batch' = Head(chan["publish_outcomes"])
        /\ UNCHANGED <<outbox, intent, armed, in_flight, completed>>
    BY <1>7 DEF handle_publish_outcome, effectVars, Channels
  <2>2. batch' \subseteq Note({"Ok", "Err"})
    BY <2>1, HeadMessage, MessageFacts
  <2> QED BY <1>1, <1>2, <2>1, <2>2 DEF OtherTypes
<1>8. CASE dispatch_publish_result
  <2>1. PICK result \in batch :
          /\ batch' = batch \ {result}
          /\ Awaits("handler", "outcomes",
                    msg(IF result.kind = "Ok" THEN "Committed" ELSE "Failed", result.key))
    BY <1>8 DEF dispatch_publish_result
  <2>2. chan' = chan /\ UNCHANGED <<intent, armed, in_flight, completed>>
    BY <1>8 DEF dispatch_publish_result, effectVars
  <2>3. msg(IF result.kind = "Ok" THEN "Committed" ELSE "Failed", result.key) \in Message["outcomes"]
    BY <1>1, MessageFacts DEF OtherTypes, Note, msg
  <2> QED BY <1>1, <1>2, <2>1, <2>2, <2>3 DEF OtherTypes, Route, Channels
<1>9. CASE handle_snooze_result
  <2> DEFINE result == Head(chan["snooze_outcomes"])
  <2>1. /\ "snooze_outcomes" \in Channels /\ Has("snooze_outcomes")
        /\ chan' = Recv("snooze_outcomes")
        /\ UNCHANGED <<batch, intent, armed, in_flight, completed>>
    BY <1>9 DEF handle_snooze_result, effectVars, Channels
  <2>2. result.key \in Keys
    BY <2>1, HeadNote
  <2>3. \/ Awaits("handler", "publish", msg("Publish", result.key))
        \/ Awaits("handler", "outcomes", msg("Wake", result.key))
        \/ Awaits("handler", "outcomes", msg("Failed", result.key))
    BY <1>9 DEF handle_snooze_result
  <2>4. /\ msg("Publish", result.key) \in Message["publish"]
        /\ msg("Wake", result.key) \in Message["outcomes"]
        /\ msg("Failed", result.key) \in Message["outcomes"]
    BY <1>1, <2>2, MessageFacts
  <2> QED BY <1>1, <1>2, <2>1, <2>3, <2>4 DEF OtherTypes, Route, Channels
<1>10. CASE handle_new_job
  <2>1. /\ "jobs" \in Channels /\ Has("jobs") /\ chan' = Recv("jobs")
        /\ UNCHANGED <<batch, intent, armed, in_flight, completed>>
        /\ Awaits("handler", "snooze", msg("Snooze", Head(chan["jobs"]).key))
    BY <1>10 DEF handle_new_job, effectVars, Channels
  <2>2. msg("Snooze", Head(chan["jobs"]).key) \in Message["snooze"]
    BY <1>1, <2>1, HeadNote, MessageFacts
  <2> QED BY <1>1, <1>2, <2>1, <2>2 DEF OtherTypes, Route, Channels
<1>11. CASE handle_snooze_input
  <2> DEFINE k == Head(chan["snooze"]).key
  <2>1. /\ "snooze" \in Channels /\ Has("snooze") /\ chan' = Recv("snooze")
        /\ UNCHANGED <<batch, intent, in_flight, completed>>
        /\ armed' \in {armed \cup {k}, armed \ {k}, armed}
        /\ \E kind \in {"Accepted", "InvalidWake"} :
             Awaits("scheduler", "snooze_outcomes", msg(kind, k))
    BY <1>11 DEF handle_snooze_input, Channels
  <2>2. k \in Keys
    BY <2>1, HeadNote
  <2>3. \A kind \in {"Accepted", "InvalidWake"} : msg(kind, k) \in Message["snooze_outcomes"]
    BY <1>1, <2>2, MessageFacts
  <2>4. armed' \subseteq Keys
    BY <1>1, <2>1, <2>2 DEF OtherTypes
  <2> QED BY <1>1, <1>2, <2>1, <2>3, <2>4 DEF OtherTypes, Route, Channels
<1>12. ASSUME NEW k \in Keys, Expire(k) PROVE TypeOK' /\ Routed'
  <2>1. msg("Expired", k) \in Message["snooze_outcomes"]
    BY <1>1, MessageFacts
  <2>2. OtherTypes' /\ chan' = chan /\ Awaits("scheduler", "snooze_outcomes", msg("Expired", k))
    BY <1>1, <1>12 DEF Expire, OtherTypes
  <2> QED BY <1>1, <1>2, <2>1, <2>2 DEF Route, Channels
<1>13. CASE ReceivePublish
  <2>1. /\ "publish" \in Channels /\ Has("publish") /\ chan' = Recv("publish")
        /\ UNCHANGED <<batch, intent, armed, completed, outbox>>
        /\ in_flight' = in_flight \cup {Head(chan["publish"]).key}
    BY <1>13 DEF ReceivePublish, Channels
  <2>2. in_flight' \subseteq Keys
    BY <1>1, <2>1, HeadNote DEF OtherTypes
  <2> QED BY <1>1, <1>2, <2>1, <2>2 DEF OtherTypes
<1>14. ASSUME NEW k \in Keys, handle_completed_work(k) PROVE TypeOK' /\ Routed'
  <2>1. PICK kind \in {"Ok", "Err"} :
          \/ Awaits("engine", "publish_outcomes", {msg(kind, k)}) /\ completed' = completed
          \/ /\ Awaits("engine", "publish_outcomes", completed \cup {msg(kind, k)})
             /\ completed' = {}
          \/ completed' = completed \cup {msg(kind, k)} /\ outbox' = outbox
    BY <1>14 DEF handle_completed_work
  <2>2. /\ chan' = chan /\ in_flight' = in_flight \ {k}
        /\ UNCHANGED <<batch, armed, intent>>
    BY <1>14 DEF handle_completed_work
  <2>3. msg(kind, k) \in Note({"Ok", "Err"})
    BY <1>1
  <2>4. /\ {msg(kind, k)} \in Message["publish_outcomes"]
        /\ completed \cup {msg(kind, k)} \in Message["publish_outcomes"]
        /\ completed' \subseteq Note({"Ok", "Err"})
    BY <1>1, <2>1, <2>3, MessageFacts DEF OtherTypes
  <2> QED BY <1>1, <1>2, <2>1, <2>2, <2>4 DEF OtherTypes, Route, Channels
<1>15. CASE flush_completed_batch
  <2>1. OtherTypes' /\ chan' = chan /\ Awaits("engine", "publish_outcomes", completed)
    BY <1>1, <1>15 DEF flush_completed_batch, OtherTypes
  <2>2. completed \in Message["publish_outcomes"]
    BY <1>1, MessageFacts DEF OtherTypes
  <2> QED BY <1>1, <1>2, <2>1, <2>2 DEF Route, Channels
<1>16. CASE UNCHANGED vars
  BY <1>1, <1>2, <1>16 DEF vars, OtherTypes
<1> QED BY <1>3, <1>5, <1>6, <1>7, <1>8, <1>9, <1>10, <1>11, <1>12, <1>13, <1>14, <1>15, <1>16
        DEF Next, HandlerStep

\* No channel ever holds more than it may, and every message and every awaited
\* send is one of its channel's, for any number of keys and any capacities.
THEOREM BackpressureTypeCorrect == Spec => []TypeOK
<1>1. Spec => [](TypeOK /\ Routed)
  BY TypeInit, TypeStep, PTL DEF Spec
<1> QED BY <1>1, PTL

-----------------------------------------------------------------------------
(* Where jobs are *)

\* What can hold a job of a key.
Holders == Channels \cup Tasks \cup {"batch", "completed", "in_flight"}

\* Holder h has the job of key x.
At(h, x) ==
  \/ h \in Channels /\ \E i \in DOMAIN chan[h] : x \in About(h, chan[h][i])
  \/ h \in Tasks /\ outbox[h] # None /\ x \in About(outbox[h].to, outbox[h].message)
  \/ h = "batch" /\ \E m \in batch : m.key = x
  \/ h = "completed" /\ \E m \in completed : m.key = x
  \/ h = "in_flight" /\ x \in in_flight

\* Channel c has the job of x once.
OnceIn(c, x) ==
  \A i, j \in DOMAIN chan[c] :
    x \in About(c, chan[c][i]) /\ x \in About(c, chan[c][j]) => i = j

\* The job of x is in one place when the coordinator has intent for x, else in none.
KeyInv(x) ==
  /\ \A g, h \in Holders : At(g, x) /\ At(h, x) => g = h
  /\ intent[x] # "none" <=> \E h \in Holders : At(h, x)
  /\ \A c \in Channels : OnceIn(c, x)

\* No key has two results among these.
Distinct(results) == \A m, n \in results : m.key = n.key => m = n

ResultInv ==
  /\ Distinct(batch) /\ Distinct(completed)
  /\ outbox["engine"] # None => Distinct(outbox["engine"].message)
  /\ \A i \in DOMAIN chan["publish_outcomes"] : Distinct(chan["publish_outcomes"][i])

\* The inductive invariant behind OneJobPerKey and NoCircularWait.
JobInv == ResultInv /\ \A x \in Keys : KeyInv(x)

\* The holders are different things.
LEMMA HolderFacts ==
  /\ Channels \cap Tasks = {}
  /\ Channels \subseteq Holders /\ Tasks \subseteq Holders
  /\ "batch" \in Holders /\ "completed" \in Holders /\ "in_flight" \in Holders
  /\ \A h \in Channels \cup Tasks : h # "batch" /\ h # "completed" /\ h # "in_flight"
  /\ "coordinator" \in Tasks /\ "handler" \in Tasks /\ "scheduler" \in Tasks /\ "engine" \in Tasks
  /\ "jobs" \in Channels /\ "outcomes" \in Channels /\ "snooze" \in Channels
  /\ "snooze_outcomes" \in Channels /\ "publish" \in Channels /\ "publish_outcomes" \in Channels
BY DEF Holders, Channels, Tasks

\* What each of them holds.
LEMMA AtFacts ==
  ASSUME NEW x
  PROVE  /\ \A c \in Channels : At(c, x) <=> \E i \in DOMAIN chan[c] : x \in About(c, chan[c][i])
         /\ \A t \in Tasks : At(t, x) <=>
              outbox[t] # None /\ x \in About(outbox[t].to, outbox[t].message)
         /\ At("batch", x) <=> \E m \in batch : m.key = x
         /\ At("completed", x) <=> \E m \in completed : m.key = x
         /\ At("in_flight", x) <=> x \in in_flight
BY HolderFacts DEF At

\* The same of the state after a step.
LEMMA AtFactsNext ==
  ASSUME NEW x
  PROVE  /\ \A c \in Channels : At(c, x)' <=> \E i \in DOMAIN chan'[c] : x \in About(c, chan'[c][i])
         /\ \A t \in Tasks : At(t, x)' <=>
              outbox'[t] # None /\ x \in About(outbox'[t].to, outbox'[t].message)
         /\ At("batch", x)' <=> \E m \in batch' : m.key = x
         /\ At("completed", x)' <=> \E m \in completed' : m.key = x
         /\ At("in_flight", x)' <=> x \in in_flight'
BY HolderFacts DEF At, About

\* A job that moves from one holder to another, and every job that stays, keeps
\* the invariant.
LEMMA KeyMoves ==
  ASSUME NEW x, KeyInv(x), \A c \in Channels : OnceIn(c, x)',
         intent'[x] = "none" <=> intent[x] = "none",
         NEW D, NEW from \in Holders, NEW to \in Holders,
         x \in D => At(from, x),
         \A h \in Holders : At(h, x)' <=> \/ At(h, x) /\ ~(h = from /\ x \in D)
                                          \/ h = to /\ x \in D
  PROVE  KeyInv(x)'
<1>1. \A g, h \in Holders : At(g, x)' /\ At(h, x)' => g = h
  BY DEF KeyInv
<1>2. intent'[x] # "none" <=> \E h \in Holders : At(h, x)'
  BY DEF KeyInv
<1> QED BY <1>1, <1>2 DEF KeyInv

\* Taking a message from channel c.
LEMMA RecvAt ==
  ASSUME TypeOK, NEW c \in Channels, Has(c), chan' = Recv(c), NEW x, \A d \in Channels : OnceIn(d, x)
  PROVE  /\ \A d \in Channels : /\ OnceIn(d, x)'
                                /\ At(d, x)' <=> At(d, x) /\ ~(d = c /\ x \in About(c, Head(chan[c])))
         /\ x \in About(c, Head(chan[c])) => At(c, x)
<1> DEFINE n == Len(chan[c])
<1>1. /\ chan'[c] = Tail(chan[c])
      /\ \A d \in Channels : d # c => chan'[d] = chan[d]
  BY DEF TypeOK, Recv
<1>2. /\ n \in Nat /\ n >= 1 /\ DOMAIN chan[c] = 1 .. n /\ DOMAIN chan'[c] = 1 .. (n - 1)
      /\ chan[c][1] = Head(chan[c])
      /\ \A i \in 1 .. (n - 1) : chan'[c][i] = chan[c][i + 1]
  <2>1. chan[c] \in Seq(Message[c]) /\ chan[c] # <<>>
    BY HeadMessage
  <2> QED BY <1>1, <2>1, TailFacts
<1> HIDE DEF n
<1>3. /\ \A i \in 1 .. (n - 1) : i + 1 \in 1 .. n /\ i + 1 # 1
      /\ \A i \in 1 .. n : i = 1 \/ (i - 1 \in 1 .. (n - 1) /\ i = (i - 1) + 1)
      /\ 1 \in 1 .. n
      /\ \A i, j \in 1 .. (n - 1) : i + 1 = j + 1 => i = j
  BY <1>2
<1>4. x \in About(c, Head(chan[c])) => At(c, x)
  BY <1>2, <1>3, AtFacts
<1>5. At(c, x)' => At(c, x) /\ x \notin About(c, Head(chan[c]))
  <2> SUFFICES ASSUME At(c, x)' PROVE At(c, x) /\ x \notin About(c, Head(chan[c]))
    OBVIOUS
  <2>1. PICK i \in 1 .. (n - 1) : x \in About(c, chan'[c][i])
    BY <1>2, AtFactsNext
  <2>2. x \in About(c, chan[c][i + 1]) /\ i + 1 \in DOMAIN chan[c] /\ i + 1 # 1
    BY <1>2, <1>3, <2>1
  <2>3. x \notin About(c, chan[c][1])
    BY <1>2, <1>3, <2>2 DEF OnceIn
  <2> QED BY <1>2, <2>2, <2>3, AtFacts
<1>6. At(c, x) /\ x \notin About(c, Head(chan[c])) => At(c, x)'
  <2> SUFFICES ASSUME At(c, x), x \notin About(c, Head(chan[c])) PROVE At(c, x)'
    OBVIOUS
  <2>1. PICK i \in 1 .. n : x \in About(c, chan[c][i])
    BY <1>2, AtFacts
  <2>2. PICK j \in 1 .. (n - 1) : i = j + 1
    BY <1>2, <1>3, <2>1
  <2> QED BY <1>2, <2>1, <2>2, AtFactsNext
<1>7. OnceIn(c, x)'
  <2> SUFFICES ASSUME NEW i \in 1 .. (n - 1), NEW j \in 1 .. (n - 1),
                      x \in About(c, chan'[c][i]), x \in About(c, chan'[c][j])
               PROVE  i = j
    BY <1>2 DEF OnceIn, About
  <2>1. i + 1 = j + 1
    BY <1>2, <1>3 DEF OnceIn
  <2> QED BY <1>3, <2>1
<1>8. ASSUME NEW d \in Channels, d # c PROVE OnceIn(d, x)' /\ (At(d, x)' <=> At(d, x))
  <2>1. OnceIn(d, x)'
    BY <1>1, <1>8 DEF OnceIn, About
  <2> QED BY <1>1, <1>8, <2>1, AtFacts, AtFactsNext
<1> QED BY <1>4, <1>5, <1>6, <1>7, <1>8

\* Sending message m into channel c.
LEMMA SendAt ==
  ASSUME TypeOK, NEW c \in Channels, NEW m \in Message[c],
         chan' = [chan EXCEPT ![c] = Append(@, m)], NEW x, \A d \in Channels : OnceIn(d, x),
         x \in About(c, m) => ~At(c, x)
  PROVE  \A d \in Channels : /\ OnceIn(d, x)'
                             /\ At(d, x)' <=> At(d, x) \/ (d = c /\ x \in About(c, m))
<1> DEFINE n == Len(chan[c])
<1>1. /\ chan'[c] = Append(chan[c], m)
      /\ \A d \in Channels : d # c => chan'[d] = chan[d]
  BY DEF TypeOK
<1>2. /\ n \in Nat /\ DOMAIN chan[c] = 1 .. n /\ DOMAIN chan'[c] = 1 .. (n + 1)
      /\ chan'[c][n + 1] = m
      /\ \A i \in 1 .. n : chan'[c][i] = chan[c][i]
  <2>1. chan[c] \in Seq(Message[c])
    BY DEF TypeOK
  <2> QED BY <1>1, <2>1, AppendFacts
<1> HIDE DEF n
<1>3. /\ \A i \in 1 .. (n + 1) : i \in 1 .. n \/ i = n + 1
      /\ \A i \in 1 .. n : i \in 1 .. (n + 1)
      /\ n + 1 \in 1 .. (n + 1)
  BY <1>2
<1>4. At(c, x)' <=> At(c, x) \/ x \in About(c, m)
  <2>1. ASSUME NEW i \in 1 .. (n + 1), x \in About(c, chan'[c][i])
        PROVE  At(c, x) \/ x \in About(c, m)
    BY <1>2, <1>3, <2>1, AtFacts
  <2>2. ASSUME At(c, x) PROVE At(c, x)'
    <3>1. PICK i \in 1 .. n : x \in About(c, chan[c][i])
      BY <1>2, <2>2, AtFacts
    <3>2. i \in DOMAIN chan'[c] /\ x \in About(c, chan'[c][i])
      BY <1>2, <1>3, <3>1
    <3> QED BY <3>2, AtFactsNext
  <2>3. x \in About(c, m) => At(c, x)'
    BY <1>2, <1>3, AtFactsNext
  <2> QED BY <1>2, <2>1, <2>2, <2>3, AtFactsNext
<1>5. OnceIn(c, x)'
  <2> SUFFICES ASSUME NEW i \in 1 .. (n + 1), NEW j \in 1 .. (n + 1),
                      x \in About(c, chan'[c][i]), x \in About(c, chan'[c][j])
               PROVE  i = j
    BY <1>2 DEF OnceIn, About
  <2>1. CASE x \in About(c, m)
    <3>1. \A l \in 1 .. n : x \notin About(c, chan[c][l])
      BY <1>2, <2>1, AtFacts
    <3> QED BY <1>2, <1>3, <3>1
  <2>2. CASE x \notin About(c, m)
    <3>1. i \in 1 .. n /\ j \in 1 .. n
      BY <1>2, <1>3, <2>2
    <3> QED BY <1>2, <3>1 DEF OnceIn
  <2> QED BY <2>1, <2>2
<1>6. ASSUME NEW d \in Channels, d # c PROVE OnceIn(d, x)' /\ (At(d, x)' <=> At(d, x))
  <2>1. OnceIn(d, x)'
    BY <1>1, <1>6 DEF OnceIn, About
  <2> QED BY <1>1, <1>6, <2>1, AtFacts, AtFactsNext
<1> QED BY <1>4, <1>5, <1>6

\* Task t starts to wait with message m for channel c.
LEMMA AwaitsAt ==
  ASSUME TypeOK, NEW t \in Tasks, Listening(t), NEW c \in Channels, NEW m \in Message[c],
         Awaits(t, c, m), NEW x
  PROVE  \A u \in Tasks : At(u, x)' <=> At(u, x) \/ (u = t /\ x \in About(c, m))
<1>1. /\ outbox'[t] = [to |-> c, message |-> m]
      /\ \A u \in Tasks : u # t => outbox'[u] = outbox[u]
  BY DEF TypeOK, Awaits
<1>2. outbox'[t] # None /\ outbox'[t].to = c /\ outbox'[t].message = m
  BY <1>1, NoneIsNoSend
<1>3. ~At(t, x) /\ (At(t, x)' <=> x \in About(c, m))
  BY <1>2, AtFacts, AtFactsNext DEF Listening
<1>4. \A u \in Tasks : u # t => (At(u, x)' <=> At(u, x))
  BY <1>1, AtFacts, AtFactsNext
<1> QED BY <1>3, <1>4

\* What a step leaves alone it moves no job of.
LEMMA UnchangedAt ==
  ASSUME NEW x
  PROVE  /\ chan' = chan => \A c \in Channels : /\ OnceIn(c, x) => OnceIn(c, x)'
                                                /\ At(c, x)' <=> At(c, x)
         /\ outbox' = outbox => \A t \in Tasks : At(t, x)' <=> At(t, x)
         /\ batch' = batch => (At("batch", x)' <=> At("batch", x))
         /\ completed' = completed => (At("completed", x)' <=> At("completed", x))
         /\ in_flight' = in_flight => (At("in_flight", x)' <=> At("in_flight", x))
<1>1. chan' = chan => \A c \in Channels : OnceIn(c, x) => OnceIn(c, x)'
  BY DEF OnceIn, About
<1> QED BY <1>1, AtFacts, AtFactsNext

\* Which keys a message is about.
LEMMA AboutFacts ==
  /\ \A c \in Channels \ {"publish_outcomes"} : \A m :
       About(c, m) = IF m.kind \in {"Wake", "Expired"} THEN {} ELSE {m.key}
  /\ \A kind, k : msg(kind, k).kind = kind /\ msg(kind, k).key = k
  /\ \A results : About("publish_outcomes", results) = { r.key : r \in results }
BY DEF About, msg

-----------------------------------------------------------------------------
(* Every step keeps the invariant *)

\* A task takes a message and starts to wait with one about the same key.
LEMMA RelayKeeps ==
  ASSUME TypeOK, JobInv, NEW t \in Tasks, Listening(t), NEW c \in Channels, Has(c), chan' = Recv(c),
         NEW d \in Channels, NEW m \in Message[d], Awaits(t, d, m),
         About(d, m) = About(c, Head(chan[c])),
         UNCHANGED <<batch, completed, in_flight>>,
         \A x \in Keys : intent'[x] = "none" <=> intent[x] = "none",
         NEW x \in Keys
  PROVE  KeyInv(x)'
<1>1. KeyInv(x) /\ \A e \in Channels : OnceIn(e, x)
  BY DEF JobInv, KeyInv
<1>2. PICK D : D = About(d, m)
  OBVIOUS
<1>3. /\ \A e \in Channels : OnceIn(e, x)' /\ (At(e, x)' <=> At(e, x) /\ ~(e = c /\ x \in D))
      /\ x \in D => At(c, x)
  BY <1>1, <1>2, RecvAt
<1>4. \A u \in Tasks : At(u, x)' <=> At(u, x) \/ (u = t /\ x \in D)
  BY <1>2, AwaitsAt
<1>5. \A h \in Holders : At(h, x)' <=> \/ At(h, x) /\ ~(h = c /\ x \in D)
                                       \/ h = t /\ x \in D
  BY <1>3, <1>4, UnchangedAt, HolderFacts DEF Holders
<1> QED BY <1>1, <1>3, <1>5, HolderFacts, KeyMoves

\* The coordinator records an update: a job starts for a key that had none.
LEMMA RecordKeeps ==
  ASSUME TypeOK, JobInv, NEW k \in Keys, Listening("coordinator"), Record(k),
         UNCHANGED <<batch, completed, in_flight>>,
         NEW x \in Keys, \A c \in Channels : OnceIn(c, x)' /\ (At(c, x)' <=> At(c, x))
  PROVE  KeyInv(x)'
<1>1. KeyInv(x) /\ intent \in [Keys -> {"none", "busy", "newer"}]
  BY DEF JobInv, TypeOK
<1>2. /\ At("batch", x)' <=> At("batch", x)
      /\ At("completed", x)' <=> At("completed", x)
      /\ At("in_flight", x)' <=> At("in_flight", x)
  BY UnchangedAt
<1>3. CASE /\ intent[k] = "none" /\ intent' = [intent EXCEPT ![k] = "busy"]
           /\ Awaits("coordinator", "jobs", msg("Job", k))
  <2>1. /\ msg("Job", k) \in Message["jobs"] /\ About("jobs", msg("Job", k)) = {k}
        /\ "jobs" \in Channels /\ "coordinator" \in Tasks
    BY MessageFacts, AboutFacts, HolderFacts DEF Note, msg
  <2>2. \A u \in Tasks : At(u, x)' <=> At(u, x) \/ (u = "coordinator" /\ x \in {k})
    BY <1>3, <2>1, AwaitsAt
  <2>3. CASE x = k
    <3>1. \A h \in Holders : At(h, x)' <=> h = "coordinator"
      BY <1>1, <1>2, <1>3, <2>2, <2>3, HolderFacts DEF KeyInv, Holders
    <3>2. intent'[x] # "none"
      BY <1>1, <1>3, <2>3
    <3> QED BY <3>1, <3>2, HolderFacts DEF KeyInv
  <2>4. CASE x # k
    <3>1. \A h \in Holders : At(h, x)' <=> At(h, x)
      BY <1>2, <2>2, <2>4 DEF Holders
    <3>2. intent'[x] = intent[x]
      BY <1>1, <1>3, <2>4
    <3> QED BY <1>1, <3>1, <3>2 DEF KeyInv
  <2> QED BY <2>3, <2>4
<1>4. CASE /\ intent[k] # "none" /\ intent' = [intent EXCEPT ![k] = "newer"]
           /\ UNCHANGED outbox
  <2>1. \A h \in Holders : At(h, x)' <=> At(h, x)
    BY <1>2, <1>4, UnchangedAt DEF Holders
  <2>2. intent'[x] = "none" <=> intent[x] = "none"
    BY <1>1, <1>4
  <2> QED BY <1>1, <2>1, <2>2 DEF KeyInv
<1> QED BY <1>3, <1>4 DEF Record

\* The messages about results are still without doubles.
LEMMA ResultRecv ==
  ASSUME TypeOK, ResultInv, NEW c \in Channels, Has(c), chan' = Recv(c)
  PROVE  /\ \A i \in DOMAIN chan'["publish_outcomes"] : Distinct(chan'["publish_outcomes"][i])
         /\ c = "publish_outcomes" => Distinct(Head(chan[c]))
<1>1. /\ chan'[c] = Tail(chan[c])
      /\ \A d \in Channels : d # c => chan'[d] = chan[d]
  BY DEF TypeOK, Recv
<1>2. CASE c # "publish_outcomes"
  BY <1>1, <1>2, HolderFacts DEF ResultInv
<1>3. CASE c = "publish_outcomes"
  <2>1. chan[c] \in Seq(Message[c]) /\ chan[c] # <<>>
    BY HeadMessage
  <2>2. /\ Len(chan[c]) \in Nat /\ Len(chan[c]) >= 1
        /\ DOMAIN chan[c] = 1 .. Len(chan[c]) /\ DOMAIN chan'[c] = 1 .. (Len(chan[c]) - 1)
        /\ chan[c][1] = Head(chan[c])
        /\ \A i \in 1 .. (Len(chan[c]) - 1) : chan'[c][i] = chan[c][i + 1]
    BY <1>1, <2>1, TailFacts
  <2>3. PICK n \in Nat : n = Len(chan[c])
    BY <2>2
  <2>4. /\ \A i \in 1 .. (n - 1) : i + 1 \in 1 .. n
        /\ 1 \in 1 .. n
    BY <2>2, <2>3
  <2>5. Distinct(Head(chan[c]))
    BY <1>3, <2>2, <2>3, <2>4 DEF ResultInv
  <2>6. \A i \in DOMAIN chan'[c] : Distinct(chan'[c][i])
    BY <1>3, <2>2, <2>3, <2>4 DEF ResultInv
  <2> QED BY <1>3, <2>5, <2>6
<1> QED BY <1>2, <1>3

\* A step of another task than the engine keeps the results without doubles.
LEMMA ResultFrame ==
  ASSUME TypeOK, ResultInv, Distinct(batch'), completed' = completed,
         chan' = chan \/ \E c \in Channels : Has(c) /\ chan' = Recv(c),
         outbox' = outbox \/ \E t \in Tasks \ {"engine"} : \E c, m : Awaits(t, c, m)
  PROVE  ResultInv'
<1>1. \A i \in DOMAIN chan'["publish_outcomes"] : Distinct(chan'["publish_outcomes"][i])
  BY ResultRecv DEF ResultInv
<1>2. outbox'["engine"] = outbox["engine"]
  BY HolderFacts DEF Awaits, TypeOK
<1> QED BY <1>1, <1>2 DEF ResultInv, Distinct

\* The awaited send ends: the job is in the channel instead.
LEMMA SendKeeps ==
  ASSUME TypeOK, Routed, JobInv, NEW t \in Tasks, Send(t)
  PROVE  JobInv'
<1>1. PICK c \in Channels : \E m \in Message[c] : c = outbox[t].to /\ m = outbox[t].message
  BY DEF Send, Listening, TypeOK
<1>2. PICK m \in Message[c] : m = outbox[t].message
  BY <1>1
<1>3. /\ chan' = [chan EXCEPT ![c] = Append(@, m)]
      /\ outbox' = [outbox EXCEPT ![t] = None]
      /\ outbox[t] # None /\ UNCHANGED <<batch, completed, in_flight, intent>>
  BY <1>1, <1>2 DEF Send, Listening, effectVars
<1>4. outbox'[t] = None /\ \A u \in Tasks : u # t => outbox'[u] = outbox[u]
  BY <1>3 DEF TypeOK
<1>5. ASSUME NEW x \in Keys PROVE KeyInv(x)'
  <2>1. KeyInv(x) /\ \A e \in Channels : OnceIn(e, x)
    BY DEF JobInv, KeyInv
  <2>2. PICK D : D = About(c, m)
    OBVIOUS
  <2>3. At(t, x) <=> x \in D
    BY <1>1, <1>2, <1>3, <2>2, AtFacts
  <2>4. x \in D => ~At(c, x)
    BY <2>1, <2>3, HolderFacts DEF KeyInv
  <2>5. \A d \in Channels : OnceIn(d, x)' /\ (At(d, x)' <=> At(d, x) \/ (d = c /\ x \in D))
    BY <1>3, <2>1, <2>2, <2>4, SendAt
  <2>6. \A u \in Tasks : At(u, x)' <=> At(u, x) /\ ~(u = t /\ x \in D)
    BY <1>4, <2>3, AtFacts, AtFactsNext
  <2>7. \A h \in Holders : At(h, x)' <=> \/ At(h, x) /\ ~(h = t /\ x \in D)
                                         \/ h = c /\ x \in D
    BY <1>3, <2>5, <2>6, UnchangedAt, HolderFacts DEF Holders
  <2>8. /\ c \in Holders /\ t \in Holders /\ \A d \in Channels : OnceIn(d, x)'
        /\ intent'[x] = "none" <=> intent[x] = "none"
        /\ x \in D => At(t, x)
    BY <1>3, <2>3, <2>5, HolderFacts
  <2>0. \A g, h \in Holders : At(g, x)' /\ At(h, x)' => g = h
    BY <2>1, <2>7, <2>8 DEF KeyInv
  <2>10. intent'[x] # "none" <=> \E h \in Holders : At(h, x)'
    BY <2>1, <2>7, <2>8 DEF KeyInv
  <2> QED BY <2>8, <2>0, <2>10 DEF KeyInv
<1>6. \A i \in DOMAIN chan'["publish_outcomes"] : Distinct(chan'["publish_outcomes"][i])
  <2>1. CASE c # "publish_outcomes"
    <3>1. chan'["publish_outcomes"] = chan["publish_outcomes"]
      BY <1>3, <2>1, HolderFacts DEF TypeOK
    <3> QED BY <3>1 DEF JobInv, ResultInv
  <2>2. CASE c = "publish_outcomes"
    <3>1. t = "engine"
      BY <1>1, <1>3, <2>2 DEF Routed, Route, Tasks
    <3>2. Distinct(m)
      BY <1>2, <1>3, <3>1 DEF JobInv, ResultInv
    <3>3. chan[c] \in Seq(Message[c]) /\ chan'[c] = Append(chan[c], m)
      BY <1>3 DEF TypeOK
    <3>4. PICK n \in Nat : /\ DOMAIN chan[c] = 1 .. n /\ DOMAIN chan'[c] = 1 .. (n + 1)
                           /\ chan'[c][n + 1] = m
                           /\ \A i \in 1 .. n : chan'[c][i] = chan[c][i]
      BY <3>3, AppendFacts
    <3>5. \A i \in 1 .. (n + 1) : i \in 1 .. n \/ i = n + 1
      OBVIOUS
    <3> QED BY <2>2, <3>2, <3>4, <3>5 DEF JobInv, ResultInv
  <2> QED BY <2>1, <2>2
<1>7. outbox'["engine"] # None => outbox'["engine"] = outbox["engine"]
  BY <1>4, HolderFacts
<1>8. ResultInv'
  BY <1>3, <1>6, <1>7 DEF JobInv, ResultInv, Distinct
<1> QED BY <1>5, <1>8 DEF JobInv

\* The coordinator's turns.
LEMMA CoordinatorKeeps ==
  ASSUME TypeOK, JobInv, reconcile_job_outcome \/ \E k \in Keys : Input(k)
  PROVE  JobInv'
<1>1. /\ "outcomes" \in Channels /\ "coordinator" \in Tasks /\ Listening("coordinator")
      /\ UNCHANGED <<batch, completed, in_flight>>
      /\ Distinct(batch) /\ ResultInv /\ "coordinator" # "engine"
  BY HolderFacts DEF reconcile_job_outcome, Input, effectVars, JobInv, ResultInv
<1>2. ASSUME NEW k \in Keys, Record(k)
      PROVE  outbox' = outbox \/ \E t \in Tasks \ {"engine"} : \E c, m : Awaits(t, c, m)
  BY <1>1, <1>2 DEF Record
<1>3. ASSUME NEW k \in Keys, Input(k) PROVE JobInv'
  <2>1. Record(k) /\ chan' = chan
    BY <1>3 DEF Input
  <2>2. ASSUME NEW x \in Keys PROVE KeyInv(x)'
    <3>1. \A c \in Channels : OnceIn(c, x)' /\ (At(c, x)' <=> At(c, x))
      BY <2>1, UnchangedAt DEF JobInv, KeyInv
    <3> QED BY <1>1, <2>1, <3>1, RecordKeeps
  <2>3. ResultInv'
    BY <1>1, <1>2, <2>1, ResultFrame
  <2> QED BY <2>2, <2>3 DEF JobInv
<1>4. CASE reconcile_job_outcome
  <2>1. Has("outcomes") /\ chan' = Recv("outcomes")
    BY <1>4 DEF reconcile_job_outcome
  <2>2. PICK head \in Note({"Committed", "Failed", "Wake"}) : head = Head(chan["outcomes"])
    BY <1>1, <2>1, HeadMessage, MessageFacts
  <2>3. PICK k \in Keys : k = head.key
    BY <2>2 DEF Note
  <2>4. /\ About("outcomes", head) = IF head.kind = "Wake" THEN {} ELSE {k}
        /\ head.kind \in {"Committed", "Failed", "Wake"}
    <3>1. head.kind \in {"Committed", "Failed", "Wake"}
      BY <2>2 DEF Note
    <3> QED BY <2>3, <3>1 DEF About
  <2>5. ASSUME NEW x \in Keys
        PROVE  /\ KeyInv(x)
               /\ \A d \in Channels :
                    /\ OnceIn(d, x)'
                    /\ At(d, x)' <=> At(d, x) /\ ~(d = "outcomes" /\ x \in About("outcomes", head))
               /\ x \in About("outcomes", head) => At("outcomes", x)
    BY <1>1, <2>1, <2>2, RecvAt DEF JobInv, KeyInv
  <2>6. CASE /\ head.kind = "Committed" /\ intent' = [intent EXCEPT ![k] = "none"]
             /\ UNCHANGED outbox
    <3>1. ASSUME NEW x \in Keys PROVE KeyInv(x)'
      <4>1. \A h \in Holders : At(h, x)' <=> At(h, x) /\ ~(h = "outcomes" /\ x = k)
        BY <1>1, <2>4, <2>5, <2>6, UnchangedAt, HolderFacts DEF Holders
      <4>2. x = k => At("outcomes", x)
        BY <2>4, <2>5, <2>6
      <4>3. intent'[x] = IF x = k THEN "none" ELSE intent[x]
        BY <2>6 DEF TypeOK
      <4>4. CASE x = k
        <5>1. \A h \in Holders : ~At(h, x)'
          BY <2>5, <4>1, <4>2, <4>4, HolderFacts DEF KeyInv
        <5> QED BY <2>5, <4>3, <4>4, <5>1 DEF KeyInv
      <4>5. CASE x # k
        BY <2>5, <4>1, <4>3, <4>5 DEF KeyInv
      <4> QED BY <4>4, <4>5
    <3>2. ResultInv'
      BY <1>1, <2>1, <2>6, ResultFrame
    <3> QED BY <3>1, <3>2 DEF JobInv
  <2>7. CASE head.kind # "Wake" /\ SendNext(k)
    <3>1. /\ msg("Job", k) \in Message["jobs"] /\ "jobs" \in Channels
          /\ About("jobs", msg("Job", k)) = {k}
      BY MessageFacts, AboutFacts, HolderFacts DEF Note, msg
    <3>2. /\ Awaits("coordinator", "jobs", msg("Job", k))
          /\ intent' = [intent EXCEPT ![k] = "busy"]
      BY <2>7 DEF SendNext
    <3>3. intent[k] # "none"
      BY <2>4, <2>5, <2>7, HolderFacts DEF KeyInv
    <3>4. \A x \in Keys : intent'[x] = "none" <=> intent[x] = "none"
      BY <3>2, <3>3 DEF TypeOK
    <3>5. About("jobs", msg("Job", k)) = About("outcomes", Head(chan["outcomes"]))
      BY <2>2, <2>4, <2>7, <3>1
    <3>6. ASSUME NEW x \in Keys PROVE KeyInv(x)'
      BY <1>1, <2>1, <3>1, <3>2, <3>4, <3>5, RelayKeeps
    <3>7. ResultInv'
      BY <1>1, <2>1, <3>2, ResultFrame
    <3> QED BY <3>6, <3>7 DEF JobInv
  <2>8. CASE head.kind = "Wake" /\ (Record(k) \/ UNCHANGED <<intent, outbox>>)
    <3>1. ASSUME NEW x \in Keys PROVE KeyInv(x)'
      <4>1. \A c \in Channels : OnceIn(c, x)' /\ (At(c, x)' <=> At(c, x))
        BY <2>4, <2>5, <2>8
      <4>2. CASE Record(k)
        BY <1>1, <4>1, <4>2, RecordKeeps
      <4>3. CASE UNCHANGED <<intent, outbox>>
        <5>1. \A h \in Holders : At(h, x)' <=> At(h, x)
          BY <1>1, <4>1, <4>3, UnchangedAt DEF Holders
        <5> QED BY <2>5, <4>1, <4>3, <5>1 DEF KeyInv
      <4> QED BY <2>8, <4>2, <4>3
    <3>2. ResultInv'
      BY <1>1, <1>2, <2>1, <2>8, ResultFrame
    <3> QED BY <3>1, <3>2 DEF JobInv
  <2> QED BY <1>4, <2>2, <2>3, <2>4, <2>6, <2>7, <2>8 DEF reconcile_job_outcome
<1> QED BY <1>3, <1>4

\* The handler's turns.
LEMMA HandlerKeeps ==
  ASSUME TypeOK, JobInv, HandlerStep
  PROVE  JobInv'
<1>1. /\ "handler" \in Tasks /\ Listening("handler") /\ UNCHANGED <<completed, in_flight, intent>>
      /\ Distinct(batch) /\ ResultInv /\ "handler" # "engine"
      /\ \A x \in Keys : KeyInv(x) /\ \A c \in Channels : OnceIn(c, x)
  BY HolderFacts DEF HandlerStep, handle_publish_outcome, dispatch_publish_result,
                     handle_snooze_result, handle_new_job, AtSelect, effectVars, JobInv, ResultInv,
                     KeyInv
<1>2. CASE handle_publish_outcome
  <2>1. /\ batch = {} /\ Has("publish_outcomes") /\ chan' = Recv("publish_outcomes")
        /\ batch' = Head(chan["publish_outcomes"]) /\ outbox' = outbox
        /\ "publish_outcomes" \in Channels
    BY <1>2, HolderFacts DEF handle_publish_outcome, AtSelect
  <2>2. PICK D : D = About("publish_outcomes", Head(chan["publish_outcomes"]))
    OBVIOUS
  <2>3. ASSUME NEW x \in Keys PROVE KeyInv(x)'
    <3>1. ~At("batch", x) /\ (At("batch", x)' <=> x \in D)
      <4>1. D = { r.key : r \in batch' }
        BY <2>1, <2>2, AboutFacts
      <4> QED BY <2>1, <4>1, AtFacts, AtFactsNext
    <3>2. /\ \A d \in Channels : OnceIn(d, x)' /\ (At(d, x)' <=> At(d, x) /\ ~(d = "publish_outcomes" /\ x \in D))
          /\ x \in D => At("publish_outcomes", x)
      BY <1>1, <2>1, <2>2, RecvAt
    <3>3. \A h \in Holders : At(h, x)' <=> \/ At(h, x) /\ ~(h = "publish_outcomes" /\ x \in D)
                                           \/ h = "batch" /\ x \in D
      BY <1>1, <2>1, <3>1, <3>2, UnchangedAt, HolderFacts DEF Holders
    <3> QED BY <1>1, <3>2, <3>3, HolderFacts, KeyMoves
  <2>4. ResultInv'
    BY <1>1, <2>1, ResultRecv, ResultFrame
  <2> QED BY <2>3, <2>4 DEF JobInv
<1>3. CASE dispatch_publish_result
  <2>1. PICK result \in batch :
          /\ batch' = batch \ {result}
          /\ Awaits("handler", "outcomes",
                    msg(IF result.kind = "Ok" THEN "Committed" ELSE "Failed", result.key))
    BY <1>3 DEF dispatch_publish_result
  <2>2. PICK k \in Keys : k = result.key
    BY DEF TypeOK, Note
  <2>3. PICK m : m = msg(IF result.kind = "Ok" THEN "Committed" ELSE "Failed", result.key)
    OBVIOUS
  <2>4. m \in Message["outcomes"] /\ About("outcomes", m) = {k} /\ "outcomes" \in Channels
    BY <2>2, <2>3, MessageFacts, HolderFacts DEF About, Note, msg
  <2>5. chan' = chan
    BY <1>3 DEF dispatch_publish_result
  <2>6. ASSUME NEW x \in Keys PROVE KeyInv(x)'
    <3>1. \A u \in Tasks : At(u, x)' <=> At(u, x) \/ (u = "handler" /\ x \in {k})
      BY <1>1, <2>1, <2>3, <2>4, AwaitsAt
    <3>2. /\ At("batch", x)' <=> At("batch", x) /\ x \notin {k}
          /\ x \in {k} => At("batch", x)
      BY <1>1, <2>1, <2>2, AtFacts, AtFactsNext DEF Distinct
    <3>3. \A h \in Holders : At(h, x)' <=> \/ At(h, x) /\ ~(h = "batch" /\ x \in {k})
                                           \/ h = "handler" /\ x \in {k}
      BY <1>1, <2>5, <3>1, <3>2, UnchangedAt, HolderFacts DEF Holders
    <3>4. \A c \in Channels : OnceIn(c, x)'
      BY <1>1, <2>5, UnchangedAt
    <3>5. \A g, h \in Holders : At(g, x)' /\ At(h, x)' => g = h
      BY <1>1, <3>2, <3>3, HolderFacts DEF KeyInv
    <3>6. intent'[x] # "none" <=> \E h \in Holders : At(h, x)'
      BY <1>1, <3>2, <3>3, HolderFacts DEF KeyInv
    <3> QED BY <3>4, <3>5, <3>6 DEF KeyInv
  <2>7. Distinct(batch')
    BY <1>1, <2>1 DEF Distinct
  <2>8. ResultInv'
    BY <1>1, <2>1, <2>5, <2>7, ResultFrame
  <2> QED BY <2>6, <2>8 DEF JobInv
<1>4. ASSUME NEW c \in Channels, Has(c), chan' = Recv(c), NEW d \in Channels, NEW m \in Message[d],
             Awaits("handler", d, m), About(d, m) = About(c, Head(chan[c])), batch' = batch
      PROVE  JobInv'
  <2>1. ASSUME NEW x \in Keys PROVE KeyInv(x)'
    BY <1>1, <1>4, RelayKeeps
  <2>2. ResultInv'
    BY <1>1, <1>4, ResultFrame
  <2> QED BY <2>1, <2>2 DEF JobInv
<1>5. CASE handle_snooze_result
  <2> DEFINE result == Head(chan["snooze_outcomes"])
  <2>1. /\ Has("snooze_outcomes") /\ chan' = Recv("snooze_outcomes") /\ batch' = batch
        /\ "snooze_outcomes" \in Channels /\ "publish" \in Channels /\ "outcomes" \in Channels
        /\ result \in Note({"Accepted", "InvalidWake", "Expired"})
    BY <1>5, HeadMessage, MessageFacts, HolderFacts DEF handle_snooze_result
  <2>2. result.key \in Keys /\ result.kind \in {"Accepted", "InvalidWake", "Expired"}
    BY <2>1 DEF Note
  <2>3. CASE /\ result.kind = "Accepted"
             /\ Awaits("handler", "publish", msg("Publish", result.key))
    <3>1. /\ msg("Publish", result.key) \in Message["publish"]
          /\ About("publish", msg("Publish", result.key)) = {result.key}
      BY <2>2, MessageFacts DEF About, Note, msg
    <3>2. About("snooze_outcomes", result) = {result.key}
      BY <2>3 DEF About
    <3> QED BY <1>4, <2>1, <2>3, <3>1, <3>2
  <2>4. CASE result.kind = "Expired" /\ Awaits("handler", "outcomes", msg("Wake", result.key))
    <3>1. /\ msg("Wake", result.key) \in Message["outcomes"]
          /\ About("outcomes", msg("Wake", result.key)) = {}
      BY <2>2, MessageFacts DEF About, Note, msg
    <3>2. About("snooze_outcomes", result) = {}
      BY <2>4 DEF About
    <3> QED BY <1>4, <2>1, <2>4, <3>1, <3>2
  <2>5. CASE /\ result.kind = "InvalidWake"
             /\ Awaits("handler", "outcomes", msg("Failed", result.key))
    <3>1. /\ msg("Failed", result.key) \in Message["outcomes"]
          /\ About("outcomes", msg("Failed", result.key)) = {result.key}
      BY <2>2, MessageFacts DEF About, Note, msg
    <3>2. About("snooze_outcomes", result) = {result.key}
      BY <2>5 DEF About
    <3> QED BY <1>4, <2>1, <2>5, <3>1, <3>2
  <2> QED BY <1>5, <2>2, <2>3, <2>4, <2>5 DEF handle_snooze_result
<1>6. CASE handle_new_job
  <2> DEFINE job == Head(chan["jobs"])
  <2>1. /\ Has("jobs") /\ chan' = Recv("jobs") /\ batch' = batch
        /\ Awaits("handler", "snooze", msg("Snooze", job.key))
        /\ "jobs" \in Channels /\ "snooze" \in Channels /\ job \in Note({"Job"})
    BY <1>6, HeadMessage, MessageFacts, HolderFacts DEF handle_new_job
  <2>2. job.key \in Keys /\ job.kind = "Job"
    BY <2>1 DEF Note
  <2>3. /\ msg("Snooze", job.key) \in Message["snooze"]
        /\ About("snooze", msg("Snooze", job.key)) = {job.key}
    BY <2>2, MessageFacts DEF About, Note, msg
  <2>4. About("jobs", job) = {job.key}
    BY <2>2 DEF About
  <2> QED BY <1>4, <2>1, <2>3, <2>4
<1> QED BY <1>2, <1>3, <1>5, <1>6 DEF HandlerStep

\* The scheduler's turns.
LEMMA SchedulerKeeps ==
  ASSUME TypeOK, JobInv, handle_snooze_input \/ \E k \in Keys : Expire(k)
  PROVE  JobInv'
<1>1. /\ "scheduler" \in Tasks /\ Listening("scheduler") /\ "scheduler" # "engine"
      /\ UNCHANGED <<batch, completed, in_flight, intent>>
      /\ Distinct(batch) /\ ResultInv /\ "snooze" \in Channels /\ "snooze_outcomes" \in Channels
      /\ \A x \in Keys : KeyInv(x) /\ \A c \in Channels : OnceIn(c, x)
  BY HolderFacts DEF handle_snooze_input, Expire, JobInv, ResultInv, KeyInv
<1>2. ASSUME NEW k \in Keys, Expire(k) PROVE JobInv'
  <2>1. chan' = chan /\ Awaits("scheduler", "snooze_outcomes", msg("Expired", k))
    BY <1>2 DEF Expire
  <2>2. /\ msg("Expired", k) \in Message["snooze_outcomes"]
        /\ About("snooze_outcomes", msg("Expired", k)) = {}
    BY MessageFacts DEF About, Note, msg
  <2>3. ASSUME NEW x \in Keys PROVE KeyInv(x)'
    <3>1. \A u \in Tasks : At(u, x)' <=> At(u, x)
      BY <1>1, <2>1, <2>2, AwaitsAt
    <3>2. \A h \in Holders : At(h, x)' <=> At(h, x)
      BY <1>1, <2>1, <3>1, UnchangedAt DEF Holders
    <3>3. \A c \in Channels : OnceIn(c, x)'
      BY <1>1, <2>1, UnchangedAt
    <3> QED BY <1>1, <3>2, <3>3 DEF KeyInv
  <2>4. ResultInv'
    BY <1>1, <2>1, ResultFrame
  <2> QED BY <2>3, <2>4 DEF JobInv
<1>3. CASE handle_snooze_input
  <2> DEFINE command == Head(chan["snooze"])
  <2>1. /\ Has("snooze") /\ chan' = Recv("snooze") /\ command \in Note({"Snooze"})
    BY <1>1, <1>3, HeadMessage, MessageFacts DEF handle_snooze_input
  <2>2. PICK kind \in {"Accepted", "InvalidWake"} :
          Awaits("scheduler", "snooze_outcomes", msg(kind, command.key))
    BY <1>3 DEF handle_snooze_input
  <2>3. command.key \in Keys /\ command.kind = "Snooze"
    BY <2>1 DEF Note
  <2>4. /\ msg(kind, command.key) \in Message["snooze_outcomes"]
        /\ About("snooze_outcomes", msg(kind, command.key)) = {command.key}
    BY <2>3, MessageFacts DEF About, Note, msg
  <2>5. About("snooze", command) = {command.key}
    BY <2>3 DEF About
  <2>6. ASSUME NEW x \in Keys PROVE KeyInv(x)'
    BY <1>1, <2>1, <2>2, <2>4, <2>5, RelayKeeps
  <2>7. ResultInv'
    BY <1>1, <2>1, <2>2, ResultFrame
  <2> QED BY <2>6, <2>7 DEF JobInv
<1> QED BY <1>2, <1>3

\* The engine takes a request.
LEMMA ReceiveKeeps ==
  ASSUME TypeOK, JobInv, ReceivePublish
  PROVE  JobInv'
<1>1. /\ Has("publish") /\ chan' = Recv("publish") /\ "publish" \in Channels
      /\ UNCHANGED <<outbox, batch, completed, intent>>
      /\ in_flight' = in_flight \cup {Head(chan["publish"]).key}
      /\ \A x \in Keys : KeyInv(x) /\ \A c \in Channels : OnceIn(c, x)
      /\ Distinct(batch) /\ ResultInv
  BY HolderFacts DEF ReceivePublish, JobInv, ResultInv, KeyInv
<1>2. PICK k \in Keys : k = Head(chan["publish"]).key /\ About("publish", Head(chan["publish"])) = {k}
  <2>1. Head(chan["publish"]) \in Note({"Publish"})
    BY <1>1, HeadMessage, MessageFacts
  <2> QED BY <2>1 DEF Note, About
<1>3. ASSUME NEW x \in Keys PROVE KeyInv(x)'
  <2>1. /\ \A d \in Channels : OnceIn(d, x)' /\ (At(d, x)' <=> At(d, x) /\ ~(d = "publish" /\ x = k))
        /\ x = k => At("publish", x)
    BY <1>1, <1>2, RecvAt
  <2>2. At("in_flight", x)' <=> At("in_flight", x) \/ x = k
    BY <1>1, <1>2, AtFacts, AtFactsNext
  <2>3. \A h \in Holders : At(h, x)' <=> \/ At(h, x) /\ ~(h = "publish" /\ x = k)
                                         \/ h = "in_flight" /\ x = k
    BY <1>1, <2>1, <2>2, UnchangedAt, HolderFacts DEF Holders
  <2>4. \A g, h \in Holders : At(g, x)' /\ At(h, x)' => g = h
    BY <1>1, <2>1, <2>3, HolderFacts DEF KeyInv
  <2>5. intent'[x] # "none" <=> \E h \in Holders : At(h, x)'
    BY <1>1, <2>1, <2>3, HolderFacts DEF KeyInv
  <2> QED BY <2>1, <2>4, <2>5 DEF KeyInv
<1>4. ResultInv'
  BY <1>1, ResultFrame
<1> QED BY <1>3, <1>4 DEF JobInv

\* The engine waits with results, which are of the keys it had them of.
LEMMA ReportKeeps ==
  ASSUME TypeOK, JobInv, Listening("engine"), chan' = chan, UNCHANGED <<batch, intent>>,
         NEW results \in SUBSET Note({"Ok", "Err"}), Distinct(results),
         Awaits("engine", "publish_outcomes", results),
         \A m \in results : m.key \in in_flight \/ \E n \in completed : n.key = m.key,
         completed' \subseteq completed, in_flight' \subseteq in_flight,
         \A x \in Keys : /\ x \in in_flight' <=> x \in in_flight /\ \A m \in results : m.key # x
                         /\ (\E m \in completed' : m.key = x) <=>
                              /\ \E m \in completed : m.key = x
                              /\ \A m \in results : m.key # x
  PROVE  JobInv'
<1>1. /\ "publish_outcomes" \in Channels /\ "engine" \in Tasks
      /\ results \in Message["publish_outcomes"]
      /\ \A x \in Keys : KeyInv(x) /\ \A c \in Channels : OnceIn(c, x)
      /\ ResultInv
  BY MessageFacts, HolderFacts DEF JobInv, KeyInv
<1>2. PICK D : \A y : y \in D <=> \E m \in results : m.key = y
  <2>1. \A y : y \in { m.key : m \in results } <=> \E m \in results : m.key = y
    OBVIOUS
  <2> QED BY <2>1
<1>3. ASSUME NEW x \in Keys PROVE KeyInv(x)'
  <2>1. \A u \in Tasks : At(u, x)' <=> At(u, x) \/ (u = "engine" /\ x \in D)
    <3>1. x \in About("publish_outcomes", results) <=> x \in D
      BY <1>2, AboutFacts
    <3> QED BY <1>1, <3>1, AwaitsAt
  <2>2. /\ At("in_flight", x)' <=> At("in_flight", x) /\ x \notin D
        /\ At("completed", x)' <=> At("completed", x) /\ x \notin D
        /\ x \in D => At("in_flight", x) \/ At("completed", x)
    BY <1>2, AtFacts, AtFactsNext
  <2>3. \A c \in Channels : OnceIn(c, x)' /\ (At(c, x)' <=> At(c, x))
    BY <1>1, UnchangedAt
  <2>4. At("batch", x)' <=> At("batch", x)
    BY UnchangedAt
  <2>5. CASE x \in D
    <3>1. \A h \in Holders : At(h, x) => h = "in_flight" \/ h = "completed"
      BY <1>1, <2>2, <2>5, HolderFacts DEF KeyInv
    <3>2. \A h \in Holders : At(h, x)' <=> h = "engine"
      BY <2>1, <2>2, <2>3, <2>4, <2>5, <3>1, HolderFacts DEF Holders
    <3>3. intent'[x] # "none"
      BY <1>1, <2>2, <2>5, HolderFacts DEF KeyInv
    <3> QED BY <2>3, <3>2, <3>3, HolderFacts DEF KeyInv
  <2>6. CASE x \notin D
    <3>1. \A h \in Holders : At(h, x)' <=> At(h, x)
      BY <2>1, <2>2, <2>3, <2>4, <2>6 DEF Holders
    <3> QED BY <1>1, <2>3, <3>1 DEF KeyInv
  <2> QED BY <2>5, <2>6
<1>4. ResultInv'
  <2>1. outbox'["engine"].message = results
    BY <1>1 DEF Awaits, TypeOK
  <2>2. Distinct(completed') /\ Distinct(batch')
    BY <1>1 DEF ResultInv, Distinct
  <2>3. \A i \in DOMAIN chan'["publish_outcomes"] : Distinct(chan'["publish_outcomes"][i])
    BY <1>1 DEF ResultInv
  <2>4. Distinct(outbox'["engine"].message)
    BY <2>1
  <2> QED BY <2>2, <2>3, <2>4 DEF ResultInv, Distinct
<1> QED BY <1>3, <1>4 DEF JobInv

\* The engine's other turns.
LEMMA EngineKeeps ==
  ASSUME TypeOK, JobInv, flush_completed_batch \/ \E k \in Keys : handle_completed_work(k)
  PROVE  JobInv'
<1>1. /\ Listening("engine") /\ chan' = chan /\ UNCHANGED <<batch, intent>>
      /\ \A x \in Keys : KeyInv(x) /\ \A c \in Channels : OnceIn(c, x)
      /\ completed \subseteq Note({"Ok", "Err"}) /\ Distinct(completed) /\ ResultInv
  BY DEF flush_completed_batch, handle_completed_work, JobInv, KeyInv, ResultInv, TypeOK
<1>2. CASE flush_completed_batch
  <2>1. /\ Awaits("engine", "publish_outcomes", completed) /\ completed' = {}
        /\ in_flight' = in_flight
    BY <1>2 DEF flush_completed_batch
  <2>2. \A x \in Keys : x \in in_flight => \A m \in completed : m.key # x
    BY <1>1, AtFacts, HolderFacts DEF KeyInv
  <2> QED BY <1>1, <2>1, <2>2, ReportKeeps
<1>3. ASSUME NEW k \in Keys, handle_completed_work(k) PROVE JobInv'
  <2>1. PICK kind \in {"Ok", "Err"} :
          \/ Awaits("engine", "publish_outcomes", {msg(kind, k)}) /\ completed' = completed
          \/ /\ Awaits("engine", "publish_outcomes", completed \cup {msg(kind, k)})
             /\ completed' = {}
          \/ completed' = completed \cup {msg(kind, k)} /\ outbox' = outbox
    BY <1>3 DEF handle_completed_work
  <2>2. k \in in_flight /\ in_flight' = in_flight \ {k} /\ in_flight \subseteq Keys
    BY <1>3 DEF handle_completed_work, TypeOK
  <2>0. msg(kind, k) \in Note({"Ok", "Err"}) /\ msg(kind, k).key = k
    BY DEF msg, Note
  <2>3. PICK result \in Note({"Ok", "Err"}) : result = msg(kind, k) /\ result.key = k
    BY <2>0
  <2>4. \A x \in Keys : x \in in_flight => \A m \in completed : m.key # x
    BY <1>1, AtFacts, HolderFacts DEF KeyInv
  <2>5. Distinct({result}) /\ Distinct(completed \cup {result})
    BY <1>1, <2>2, <2>3, <2>4 DEF Distinct
  <2>6. CASE Awaits("engine", "publish_outcomes", {result}) /\ completed' = completed
    <3>1. \A x \in Keys : /\ x \in in_flight' <=> x \in in_flight /\ \A m \in {result} : m.key # x
                          /\ (\E m \in completed' : m.key = x) <=>
                               /\ \E m \in completed : m.key = x
                               /\ \A m \in {result} : m.key # x
      BY <2>2, <2>3, <2>4, <2>6
    <3>2. /\ {result} \in SUBSET Note({"Ok", "Err"})
          /\ \A m \in {result} : m.key \in in_flight \/ \E n \in completed : n.key = m.key
      BY <2>2, <2>3
    <3> QED BY <1>1, <2>2, <2>5, <2>6, <3>1, <3>2, ReportKeeps
  <2>7. CASE /\ Awaits("engine", "publish_outcomes", completed \cup {result}) /\ completed' = {}
    <3> DEFINE done == completed \cup {result}
    <3>1. \A x \in Keys : /\ x \in in_flight' <=> x \in in_flight /\ \A m \in done : m.key # x
                          /\ (\E m \in completed' : m.key = x) <=>
                               /\ \E m \in completed : m.key = x
                               /\ \A m \in done : m.key # x
      BY <2>2, <2>3, <2>4, <2>7
    <3>2. /\ done \in SUBSET Note({"Ok", "Err"})
          /\ \A m \in done : m.key \in in_flight \/ \E n \in completed : n.key = m.key
      BY <1>1, <2>2, <2>3
    <3>3. /\ Distinct(done) /\ Awaits("engine", "publish_outcomes", done)
          /\ completed' \subseteq completed /\ in_flight' \subseteq in_flight
      BY <2>2, <2>5, <2>7
    <3> HIDE DEF done
    <3> QED BY <1>1, <3>1, <3>2, <3>3, ReportKeeps
  <2>8. CASE completed' = completed \cup {result} /\ outbox' = outbox
    <3>1. ASSUME NEW x \in Keys PROVE KeyInv(x)'
      <4>1. /\ At("in_flight", x)' <=> At("in_flight", x) /\ x # k
            /\ At("completed", x)' <=> At("completed", x) \/ x = k
            /\ x = k => At("in_flight", x)
        BY <2>2, <2>3, <2>8, AtFacts, AtFactsNext
      <4>2. \A c \in Channels : OnceIn(c, x)'
        BY <1>1, UnchangedAt
      <4>3. \A h \in Holders : At(h, x)' <=> \/ At(h, x) /\ ~(h = "in_flight" /\ x = k)
                                             \/ h = "completed" /\ x = k
        BY <1>1, <2>8, <4>1, UnchangedAt, HolderFacts DEF Holders
      <4>4. \A g, h \in Holders : At(g, x)' /\ At(h, x)' => g = h
        BY <1>1, <4>1, <4>3, HolderFacts DEF KeyInv
      <4>5. intent'[x] # "none" <=> \E h \in Holders : At(h, x)'
        BY <1>1, <4>1, <4>3, HolderFacts DEF KeyInv
      <4> QED BY <4>2, <4>4, <4>5 DEF KeyInv
    <3>2. Distinct(completed') /\ Distinct(batch')
      BY <1>1, <2>5, <2>8 DEF ResultInv
    <3>3. ResultInv'
      BY <1>1, <2>8, <3>2 DEF ResultInv, Distinct
    <3> QED BY <3>1, <3>3 DEF JobInv
  <2> QED BY <2>1, <2>3, <2>6, <2>7, <2>8
<1> QED BY <1>2, <1>3

\* There is no job when the tasks start.
LEMMA JobInit == Init => JobInv
<1> SUFFICES ASSUME Init PROVE JobInv
  OBVIOUS
<1>1. /\ \A c \in Channels : DOMAIN chan[c] = {}
      /\ \A t \in Tasks : outbox[t] = None
      /\ batch = {} /\ completed = {} /\ in_flight = {}
      /\ \A x \in Keys : intent[x] = "none"
  BY DEF Init
<1>2. ASSUME NEW x \in Keys PROVE KeyInv(x)
  <2>1. ASSUME NEW h \in Holders PROVE ~At(h, x)
    BY <1>1 DEF At
  <2>2. \A c \in Channels : OnceIn(c, x)
    BY <1>1 DEF OnceIn
  <2> QED BY <1>1, <2>1, <2>2 DEF KeyInv
<1>3. ResultInv
  BY <1>1, HolderFacts DEF ResultInv, Distinct
<1> QED BY <1>2, <1>3 DEF JobInv

\* Every step of every task keeps where the jobs are consistent.
LEMMA JobStep == TypeOK /\ Routed /\ JobInv /\ [Next]_vars => JobInv'
<1> SUFFICES ASSUME TypeOK, Routed, JobInv, [Next]_vars PROVE JobInv'
  OBVIOUS
<1>1. CASE UNCHANGED vars
  <2>1. ASSUME NEW x \in Keys PROVE KeyInv(x)'
    <3>1. KeyInv(x) /\ intent'[x] = intent[x]
      BY <1>1 DEF JobInv, vars
    <3>2. \A h \in Holders : At(h, x)' <=> At(h, x)
      BY <1>1, UnchangedAt DEF vars, Holders
    <3>3. \A c \in Channels : OnceIn(c, x)'
      BY <1>1, <3>1, UnchangedAt DEF vars, KeyInv
    <3> QED BY <3>1, <3>2, <3>3 DEF KeyInv
  <2>2. ResultInv'
    BY <1>1 DEF JobInv, ResultInv, Distinct, vars
  <2> QED BY <2>1, <2>2 DEF JobInv
<1>2. CASE \E t \in Tasks : Send(t)
  BY <1>2, SendKeeps
<1>3. CASE reconcile_job_outcome \/ \E k \in Keys : Input(k)
  BY <1>3, CoordinatorKeeps
<1>4. CASE HandlerStep
  BY <1>4, HandlerKeeps
<1>5. CASE handle_snooze_input \/ \E k \in Keys : Expire(k)
  BY <1>5, SchedulerKeeps
<1>6. CASE ReceivePublish
  BY <1>6, ReceiveKeeps
<1>7. CASE flush_completed_batch \/ \E k \in Keys : handle_completed_work(k)
  BY <1>7, EngineKeeps
<1> QED BY <1>1, <1>2, <1>3, <1>4, <1>5, <1>6, <1>7 DEF Next

\* The inductive invariant holds always.
LEMMA JobAlways == Spec => [](TypeOK /\ Routed /\ JobInv)
BY TypeInit, TypeStep, JobInit, JobStep, PTL DEF Spec

-----------------------------------------------------------------------------
(* One job per key *)

\* What holds the job of a key once is one place for OneJobPerKey.
LEMMA PlacesCounted ==
  ASSUME TypeOK, ResultInv, NEW k \in Keys, KeyInv(k)
  PROVE  Cardinality(Places(k)) = IF intent[k] = "none" THEN 0 ELSE 1
<1> DEFINE Queued == { p \in Channels \X (1 .. JobCap + SnoozeCap + PublishCap) :
                         p[2] \in DOMAIN chan[p[1]] /\ k \in About(p[1], chan[p[1]][p[2]]) }
           Awaited == { t \in Tasks :
                          ~Listening(t) /\ k \in About(outbox[t].to, outbox[t].message) }
           Results == { m \in batch \cup completed : m.key = k }
           Flying == in_flight \cap {k}
<1>1. Places(k) = Queued \cup Awaited \cup Results \cup Flying
  BY DEF Places
<1>2. /\ (\E p \in Queued : TRUE) <=> \E c \in Channels : At(c, k)
      /\ \A p, q \in Queued : p = q
  <2>1. ASSUME NEW p \in Queued
        PROVE  /\ p[1] \in Channels /\ p[2] \in DOMAIN chan[p[1]] /\ p = <<p[1], p[2]>>
               /\ k \in About(p[1], chan[p[1]][p[2]]) /\ At(p[1], k)
    BY AtFacts
  <2>2. ASSUME NEW c \in Channels, At(c, k) PROVE \E p \in Queued : TRUE
    <3>1. PICK i \in DOMAIN chan[c] : k \in About(c, chan[c][i])
      BY <2>2, AtFacts
    <3>2. i \in 1 .. JobCap + SnoozeCap + PublishCap
      <4>1. /\ chan[c] \in Seq(Message[c]) /\ Len(chan[c]) <= Cap[c]
            /\ Cap[c] \in Nat /\ Cap[c] <= JobCap + SnoozeCap + PublishCap
        BY CapFacts DEF TypeOK
      <4>2. i \in 1 .. Len(chan[c]) /\ Len(chan[c]) \in Nat
        BY <3>1, <4>1
      <4> QED BY <4>1, <4>2, BackpressureAssumption
    <3>3. <<c, i>> \in Queued
      BY <3>1, <3>2
    <3> QED BY <3>3
  <2>3. ASSUME NEW p \in Queued, NEW q \in Queued PROVE p = q
    <3>1. p[1] = q[1]
      BY <2>1, HolderFacts DEF KeyInv
    <3>2. p[2] = q[2]
      BY <2>1, <3>1 DEF KeyInv, OnceIn
    <3> QED BY <2>1, <3>1, <3>2
  <2> HIDE DEF Queued
  <2> QED BY <2>1, <2>2, <2>3
<1>3. /\ (\E p \in Awaited : TRUE) <=> \E t \in Tasks : At(t, k)
      /\ \A p, q \in Awaited : p = q
  BY AtFacts, HolderFacts DEF KeyInv, Listening
<1>4. /\ (\E p \in Results : TRUE) <=> At("batch", k) \/ At("completed", k)
      /\ \A p, q \in Results : p = q
  <2>1. (\E p \in Results : TRUE) <=> At("batch", k) \/ At("completed", k)
    BY AtFacts
  <2>2. ~(At("batch", k) /\ At("completed", k))
    BY HolderFacts DEF KeyInv
  <2>3. ASSUME NEW p \in Results, NEW q \in Results PROVE p = q
    <3>1. (p \in batch /\ q \in batch) \/ (p \in completed /\ q \in completed)
      BY <2>2, AtFacts
    <3> QED BY <3>1 DEF ResultInv, Distinct
  <2> QED BY <2>1, <2>3
<1>5. /\ (\E p \in Flying : TRUE) <=> At("in_flight", k)
      /\ \A p, q \in Flying : p = q
  BY AtFacts
<1> HIDE DEF Queued, Awaited, Results, Flying
<1>6. (\E p \in Places(k) : TRUE) <=> \E h \in Holders : At(h, k)
  BY <1>1, <1>2, <1>3, <1>4, <1>5 DEF Holders
<1>7. ASSUME NEW p \in Places(k), NEW q \in Places(k) PROVE p = q
  <2>1. \A g, h \in Holders : At(g, k) /\ At(h, k) => g = h
    BY DEF KeyInv
  <2>2. CASE p \in Queued
    BY <1>1, <1>2, <1>3, <1>4, <1>5, <2>1, <2>2, HolderFacts
  <2>3. CASE p \in Awaited
    BY <1>1, <1>2, <1>3, <1>4, <1>5, <2>1, <2>3, HolderFacts
  <2>4. CASE p \in Results
    BY <1>1, <1>2, <1>3, <1>4, <1>5, <2>1, <2>4, HolderFacts
  <2>5. CASE p \in Flying
    BY <1>1, <1>2, <1>3, <1>4, <1>5, <2>1, <2>5, HolderFacts
  <2> QED BY <1>1, <2>2, <2>3, <2>4, <2>5
<1>8. CASE intent[k] = "none"
  <2>1. Places(k) = {}
    BY <1>6, <1>8 DEF KeyInv
  <2> QED BY <1>8, <2>1, FS_EmptySet
<1>9. CASE intent[k] # "none"
  <2>1. PICK p \in Places(k) : TRUE
    BY <1>6, <1>9 DEF KeyInv
  <2>2. Places(k) = {p}
    BY <1>7, <2>1
  <2> QED BY <1>9, <2>2, FS_Singleton
<1> QED BY <1>8, <1>9

\* A key has one job as long as the coordinator has intent for it and none at
\* rest, whatever the capacities, the batch size and the number of keys:
\* try_send_next_job sends no second job before the first is reconciled, and no
\* task loses or doubles a job while it awaits a send.
THEOREM BackpressureOneJob == Spec => []OneJobPerKey
<1>1. TypeOK /\ JobInv => OneJobPerKey
  BY PlacesCounted DEF JobInv, OneJobPerKey
<1> QED BY <1>1, JobAlways, PTL

-----------------------------------------------------------------------------
(* No circular wait *)

\* Every message of such a channel is a job's, so one of a key that is not there
\* finds room when the channel has room for a message of every key.
LEMMA RoomForAll ==
  ASSUME TypeOK, NEW c \in {"jobs", "snooze", "publish"}, NEW k \in Keys, ~At(c, k),
         \A x \in Keys : OnceIn(c, x), Cardinality(Keys) <= Cap[c]
  PROVE  HasRoom(c)
<1> SUFFICES ASSUME ~HasRoom(c) PROVE FALSE
  OBVIOUS
<1>1. /\ c \in Channels /\ chan[c] \in Seq(Message[c])
      /\ \E kind \in {"Job", "Snooze", "Publish"} : Message[c] = Note({kind})
  BY MessageFacts DEF TypeOK, Channels
<1>2. PICK n \in Nat : n = Len(chan[c]) /\ DOMAIN chan[c] = 1 .. n /\ n = Cap[c]
  BY <1>1, CapFacts DEF TypeOK, HasRoom
<1>3. \A i \in 1 .. n : chan[c][i].key \in Keys /\ About(c, chan[c][i]) = {chan[c][i].key}
  <2> SUFFICES ASSUME NEW i \in 1 .. n
               PROVE  chan[c][i].key \in Keys /\ About(c, chan[c][i]) = {chan[c][i].key}
    OBVIOUS
  <2>1. chan[c][i] \in Message[c]
    BY <1>1, <1>2
  <2>2. chan[c][i].key \in Keys /\ chan[c][i].kind \in {"Job", "Snooze", "Publish"}
    BY <1>1, <2>1 DEF Note
  <2> QED BY <2>2, AboutFacts DEF Channels
<1>4. \A i \in 1 .. n : chan[c][i].key \in Keys \ {k}
  <2>1. \A i \in 1 .. n : k \notin About(c, chan[c][i])
    BY <1>1, <1>2 DEF At
  <2> QED BY <1>3, <2>1
<1>5. /\ IsFiniteSet(Keys \ {k}) /\ Cardinality(Keys \ {k}) = Cardinality(Keys) - 1
      /\ Cardinality(Keys) \in Nat
  BY FS_RemoveElement, FS_CardinalityType, BackpressureAssumption
<1>6. IsFiniteSet(1 .. n) /\ Cardinality(1 .. n) = n
  BY <1>2, FS_Interval
<1>7. Cardinality(Keys \ {k}) < Cardinality(1 .. n)
  BY <1>2, <1>5, <1>6
<1>8. PICK f \in [1 .. n -> Keys \ {k}] : \A i \in 1 .. n : f[i] = chan[c][i].key
  <2>1. [i \in 1 .. n |-> chan[c][i].key] \in [1 .. n -> Keys \ {k}]
    BY <1>4
  <2> QED BY <2>1
<1>9. PICK i \in 1 .. n, j \in 1 .. n : i # j /\ f[i] = f[j]
  BY <1>5, <1>6, <1>7, FS_PigeonHole
<1> QED BY <1>2, <1>3, <1>8, <1>9 DEF OnceIn

\* What a task awaits room for on the way to Kafka is a job, which is nowhere else.
LEMMA JobGoesOn ==
  ASSUME TypeOK, JobInv, NEW t \in Tasks, ~Listening(t),
         outbox[t].to \in {"jobs", "snooze", "publish"},
         Cardinality(Keys) <= JobCap, Cardinality(Keys) <= SnoozeCap,
         Cardinality(Keys) <= PublishCap
  PROVE  HasRoom(outbox[t].to)
<1>1. PICK c \in {"jobs", "snooze", "publish"} : c = outbox[t].to
  OBVIOUS
<1>2. PICK m \in Message[c] : m = outbox[t].message
  BY <1>1 DEF TypeOK, Listening
<1>3. m.key \in Keys /\ m.kind \in {"Job", "Snooze", "Publish"}
  <2>1. PICK kind \in {"Job", "Snooze", "Publish"} : Message[c] = Note({kind})
    BY <1>1, MessageFacts
  <2> QED BY <1>2, <2>1 DEF Note
<1>4. c \in Channels /\ About(c, m) = {m.key}
  BY <1>3, AboutFacts DEF Channels
<1>5. At(t, m.key)
  BY <1>1, <1>2, <1>4, AtFacts DEF Listening
<1>6. ~At(c, m.key)
  BY <1>3, <1>4, <1>5, HolderFacts DEF JobInv, KeyInv
<1>7. \A x \in Keys : OnceIn(c, x)
  BY <1>4 DEF JobInv, KeyInv
<1>8. Cardinality(Keys) <= Cap[c]
  BY CapFacts
<1> QED BY <1>1, <1>3, <1>6, <1>7, <1>8, RoomForAll

\* With room for a message of every key no two tasks wait for each other's
\* channel: every circle has the workflow handler at one end, and a send towards
\* Kafka always finds room.
THEOREM NoCircularWaitAlways ==
  ASSUME Cardinality(Keys) <= JobCap, Cardinality(Keys) <= SnoozeCap,
         Cardinality(Keys) <= PublishCap
  PROVE  Spec => []NoCircularWait
<1>1. TypeOK /\ Routed /\ JobInv => NoCircularWait
  <2> SUFFICES ASSUME TypeOK, Routed, JobInv, NEW t \in Tasks, NEW u \in Tasks,
                      WaitsFor(t, u), WaitsFor(u, t)
               PROVE  FALSE
    BY DEF NoCircularWait
  <2>1. \A v \in Tasks : ~Listening(v) /\ outbox[v].to \in {"jobs", "snooze", "publish"} =>
          HasRoom(outbox[v].to)
    BY JobGoesOn
  <2>2. ASSUME NEW v \in Tasks, NEW w, WaitsFor(v, w)
        PROVE  \/ v = "handler" /\ w = "coordinator"
               \/ v # "handler" /\ v # "coordinator" /\ w = "handler"
    BY <2>1, <2>2 DEF WaitsFor, Listening, Routed, Route, Receiver, Channels, Tasks
  <2> QED BY <2>2
<1> QED BY <1>1, JobAlways, PTL
=============================================================================
