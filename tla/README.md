# Formal model of the Acorn alarms service

TLA+ modules for the Rust service in `src/`: TLC configurations that check them
on small instances, and TLAPS proofs that hold for every instance. Paths below
are relative to the repository's own `src/` directory (`engine/coordinator.rs`
is `src/src/engine/coordinator.rs` in `PROJECT.json`).

## The system

The service takes alarm updates from a Redis stream and commands from operators
(gRPC), decides which of them change the state of an alarm, and publishes the
new status of the alarm to a Kafka topic. Four Tokio tasks do the work, connected
by bounded channels (`runtime.rs`):

```
 Redis  -> ingress ->              jobs               snooze commands
                      coordinator -----> workflow    -----------------> snooze
 gRPC   -> ingress -> (the state)  <----- handler    <----------------- scheduler
                                 outcomes    |  ^       publish requests
                                             |  +------------------------- publish engine -> Kafka
                                             +--------------------------->
```

| Component | State it keeps | Operations | What makes it correct |
|---|---|---|---|
| Policy (`engine/policy.rs`, `model/user_action.rs`) | none | `should_publish`, `user_action_allowed` | decides from the latest known status of the key |
| Coordinator (`engine/coordinator.rs`) | confirmed and speculative cache, pending confirmations, id counter | user update, automated update, snapshot, committed / failed / wake outcome, end of the loop | one job per key; nothing accepted is lost; a confirmation is told the fate of its own job; stale results do not replace newer intent |
| Workflow handler (`engine/workflow.rs`) | one tracked job per key, with its step | new job, snooze result, publish result | every effect and result finds its job; snooze comes before publish |
| Snooze scheduler (`effects/snooze.rs`) | one timer per key | set, replace, cancel, expire | timers agree with the status at rest; snoozes end |
| Publish engine (`effects/publish.rs`) | attempts in flight, unsent batch | receive, attempt, retry, batch flush | each request is answered once; the topic ends on the confirmed status |
| Startup hydration (`runtime/hydration.rs`, `adapters/*_hydration.rs`) | none | reduce the topic, read AEOLUS, merge | restarts keep the EPICS bypasses, whatever else is in the topic; no source hides another |
| Keys (`model/key.rs`) | none | parse, normalise, print | a printed key parses to itself or to nothing |
| Runtime wiring (`runtime.rs`) | the channels | bounded sends | tasks do not wait for each other |
| Ingress (`engine/ingress.rs`) | overload mode, latest update per key | direct send, retain, drain | no update is lost or overtaken by an older one |
| Redis adapter (`adapters/redis.rs`) | none | parse, forward | severity mapping; back pressure |
| gRPC adapter (`adapters/grpc.rs`) | none | submit for several keys, await the answers, snapshot | a request's result is that of its keys; a caller sees what it was told |
| Metrics, configuration | counters | | no decision depends on them |

What is hard to test here: the interleaving of four tasks and a clock; inputs
that arrive while a job of the same key is in flight; expiries that race with
commands; publishes that fail after the broker has taken them; a handler that
ends; restarts between a Kafka write and its outcome; channels that are full on
both sides; a backlog that is filled and drained at once; requests of which only
some devices were queued; topics with records nobody here wrote. The list, with lines, is
`hazards` in `PROJECT.json`.

## Modules

| Module | Models |
|---|---|
| `Policy` | statuses, Redis severities, user actions and the decisions on them |
| `Channels` | message types and the six channels between the tasks |
| `Coordinator` | `engine/coordinator.rs`; where a key's job is on its way |
| `WorkflowHandler` | `engine/workflow.rs` |
| `SnoozeScheduler` | `effects/snooze.rs` and the wall clock |
| `PublishEngine` | `effects/publish.rs` and the Kafka topic |
| `AlarmService` | the composition: startup, restart, the four tasks, fairness, and all properties |
| `AlarmRegister` | the abstract specification: what consumers of the topic and readers of snapshots see |
| `AlarmServiceRefinement` | the refinement mapping from `AlarmService` to `AlarmRegister` |
| `Ingress` | `AutomatedIngressHandle` and its drain task in `engine/ingress.rs`, the reader loop |
| `Backpressure` | the four tasks again, reduced to who waits for room in which channel (`runtime.rs`) |
| `GrpcAdapter` | `adapters/grpc.rs` and the user queue, in front of module `Coordinator` |
| `Hydration` | `runtime/hydration.rs`, both loaders and `model/key.rs`, over the topic as a log |
| `MCAlarmService`, `MCGrpcAdapter`, `MCHydration` | constants of the TLC instances |
| `CoordinatorProofs` | lemmas about sequences and about the coordinator's turns, for the modules that compose it |
| `AlarmServiceProofs`, `TopicProofs`, `TimerProofs` | the theorems about `AlarmService`, each module built on the one before, the first on `CoordinatorProofs` |
| `GrpcProofs` | the theorems about `GrpcAdapter`, built on `CoordinatorProofs` |
| `IngressProofs`, `BackpressureProofs`, `HydrationProofs` | the theorems about those modules |

`AlarmService` composes `Policy`, `Channels`, `Coordinator`, `WorkflowHandler`,
`SnoozeScheduler` and `PublishEngine`; `GrpcAdapter` composes `Coordinator` with the
adapter and the outside of the workflow handler. `Ingress`, `Backpressure` and
`Hydration` stand alone: each asks a question that does not depend on what the others
keep, and says what it leaves free.

Each component module declares its own variables and constrains them and the
channels its turns use; `AlarmService` adds what each turn leaves alone. Names
are the source's names wherever TLA+ allows it.

**Data.** A status is its `state`, `severity` and `wake`; device and source are
the key; user, time and EPICS type are never read by a decision. Keys are model
values, some of them EPICS keys. A wake is a whole number of time units, 0 for
none. `None` is an absent `Option`.

**Coordinator.** An action is one turn of the event loop up to its only await,
the send of a job. A turn with a job to send leaves it in `sending`, and the
coordinator does nothing else until the send ends (`SendJob` when the queue has
room, `SendFails` when the handler is gone). `reconcile_success` of a superseded
job writes `confirmed_state` after that await, so the job waits in `committing`.
The select is biased: inputs are taken only when no outcome waits (`TakesInput`).
Rejected and ignored inputs change nothing and are stuttering steps.
`replies`, `dropped` and `last_intent` are history variables.

**Workflow handler.** The three arms of its biased select are the three actions
of `WorkflowStep`, with their priorities as guards. A batch of results is taken one
result at a time; nothing else of the handler can come between, since a waiting
result has priority. The `expect`s on missing jobs are guards that
`EffectHasJob` shows to be true. `WorkflowStops` is the end of the task by a
panic: the jobs in its queue are gone, outcomes already sent can still be read.

**Snooze scheduler.** `timer` stands for the registry and the delay queue. The
clock counts units while real timestamps are whole seconds of a finer clock, so
a wake equal to `now` may be accepted or be invalid. A delay is capped at
`MAX_DELAY`. The select is not biased.

**Publish engine.** `kafka` holds the last status written per key. A failed attempt
may or may not have written (a lost acknowledgement). It is assumed that an
attempt writes before it returns or never. A batch may be flushed at any moment,
which covers both the tick and a full batch.

**Startup and restart.** `Init` and `Restart` seed the confirmed state with
`load_startup_hydration`: EPICS keys whose last record is a bypass, and any report of
AEOLUS for the others. A restart loses everything but the topic and the clock.

Channels other than `job_queue` are unbounded in `AlarmService`. Commands and results of
different keys commute and no key has two, so three of the channels are sets.

**Bounded channels.** `Backpressure` keeps, of the same four tasks, which keys have a job,
where it is and which messages wait. A task that has something to send holds it in
`outbox` and does nothing else until the channel has room. The policy's, the clock's,
the user's and the broker's decisions are free choices, so it has every waiting
pattern of the real tasks (and some that the policy would exclude).

**Ingress.** The reader and the drain task share `overload_mode` and `pending` under a
mutex. The actions are the stretches under the lock and the queue operations between
them: `ReadEntry`, `TrySend`, `EnterOverload` for the reader, `Notified`, `PopFront`,
`SendPopped` for the drain task. `pending` is the insertion-ordered map of the `ringmap`
crate: a key that is updated keeps its place. `notified` is the permit of
`tokio::sync::Notify`. There is one reader, as in `main.rs`. The metrics calls and the
entry time are left out.

**gRPC adapter.** A call goes through `Begin`, one `SubmitNext` per device and
`handle_confirmation`; other callers, and the coordinator, may run between any two devices.
An update is a ticket: queued, refused, or recorded under an id whose answer
`Coordinator` keeps in `replies`, or whose sender it dropped. Devices are keys already;
a text that is none is `None` (parsing is in `Hydration`). The workflow handler is seen from
outside: a job that was sent comes back committed or failed, or the handler ends. A view is what a
snapshot answered, with two pieces of history: the Oks given before it was asked for, and the id under
which each key was confirmed when it was answered. `CallEnds` exempts a call only when its update lost
its place before a job carried it (`Superseded`), which is the `superseded` finding.

**Hydration.** The topic is a log of records with a key text and a payload: a status, a
tombstone, or something that cannot be read. The service writes statuses under the
text its keys print; other producers write any record of a given set; compaction
removes replaced records at any time. A text is the sequence of pieces between its `#`
characters. `trim_start`, `trim_end` and `to_uppercase` work on pieces: `Key::from` trims a device
as a whole (before its first and after its last piece, `trim_upper_piece`), `Key::try_from` the parts it
has split off (`trim_upper`). Bypasses are written
only for keys that users can name, since only user actions bypass; Redis entries also make
keys that no text names (a `#` in the device, an unknown source, a blank device, which
`redis.rs` lets through because it tests the device before trimming).

**Abstract specification.** `AlarmRegister` has a set of open keys, the topic, what is
visible and whether the service is up. The topic changes only for open keys; what is visible
changes only to what the topic says at that moment, and a key is closed only in such a
step; a restart closes everything and restores the EPICS bypasses. In the mapping a
key is open while it has speculative state, and visible is the status in
`confirmed_state`.

## Runs

The first seven runs use `MCAlarmService`. Inputs stop when `id_counter` exceeds
`MaxInput`, after which the service may come to rest: deadlock is therefore not checked
there, nor in `ingress` and `grpc`, whose inputs end as well.

| Run | Instance | Shows |
|---|---|---|
| `service` | an EPICS and an analog key, 2 inputs, time 0..1, 2 attempts, job queue of 1 | types, one job per key, no stranded key, effects find their job, Ok means confirmed, no input lost, topic and timers agree with the confirmed state, answers go to their own job; `AlarmRegister` is implemented |
| `restart` | one EPICS key, 3 inputs per process, time 0..2, 2 restarts, handler may end | effects still find their job, topic and confirmed state still agree, bypasses survive restarts; `AlarmRegister` is implemented through crashes |
| `liveness` | one analog key, 3 inputs, time 0..2, `MAX_DELAY` 1, 1 attempt, fair | keys come to rest, snoozes end |
| `superseded` | one EPICS key, 3 inputs, no snoozes, reliable broker, fair | a superseded user action is never answered (finding) |
| `stale_wake` | one EPICS key, 3 inputs, time 0..2, reliable broker | an old wake ends a newer bypass (finding) |
| `rollback` | one EPICS key, 2 inputs, time 0..2, 1 attempt, fair | a rollback to an overdue snooze never settles (finding) |
| `lost_timer` | one EPICS key, 1 input, time 0..1, reliable broker, one restart, fair | a hydrated snooze has no timer (finding) |
| `ingress` | three keys, 6 stream entries, queue of 2, coordinator may end, fair | no key is reordered or loses its last update, no wake-up of the drain task is lost, overload mode ends |
| `backpressure` | two keys, every channel and batch of 2, failing broker, fair | tasks never wait for each other, every job comes back; deadlock is checked |
| `overcommitted` | the same, job channels of 1, fair | coordinator and handler wait for each other (finding) |
| `grpc` | two calls on an EPICS and an analog key, one snapshot, user queue of 2, handler may end, fair | responses say what was done to every device, snapshots show it, calls end |
| `hydration` | one device name in four sources, 3 records, six kinds of foreign records, three AEOLUS reports | starts find the service's own bypasses and nothing else under its keys, conflicts are real |

**Why the bounds suffice.** A key is touched by at most one job, so what
happens to it depends on its own inputs and on its turn in the shared channels:
two keys show the second, and one key with three inputs (a job in flight, one that waits, one
that replaces it) the first. Two time units are enough for a snooze to be set,
become due and be overdue; `MAX_DELAY` 1 makes a timer fire early. One slot in the job
queue makes sends wait. Two attempts are the code's own number; where
retries do not matter one attempt keeps the run small. Two restarts let a
restarted process act and be killed again. The proofs cover all other sizes
for the properties they state.

In `ingress` three keys and a queue of two make a backlog of two keys while a third is
in the drain task's hands, and six entries let a retained key be updated, drained,
updated again and offered directly after overload mode has ended. In `backpressure` the
capacities equal the number of keys, which is the limit the run is about: one less in the
job channels is `overcommitted`. In `grpc` two calls of up to two devices fill the queue of
two, supersede each other and are refused by the policy; `MaxTime` is 0, since snoozes
differ for the adapter only in the wake being present. In `hydration` three records are what it takes
for an unreadable one, or a compaction, to fall between a bypass and its end.

**Properties.** Beside `TypeOK`: `OneJobPerKey`, `IntentHasJob`, `EffectHasJob`
(jobs, commands and answers match across tasks); `OkMeansConfirmed`,
`NoIntentLost`, `AnsweredOnce` (what users and inputs are promised);
`SnapshotMatchesKafka`, `TimerMatchesConfirmed`, `BypassSurvivesRestart` (the
confirmed state, the topic, the timers and the next process agree);
`SettlesUnlessOverdue`, `SnoozeEnds` (progress); `ImplementsRegister` (the refinement).
`InOrder`, `LatestSurvives`, `OldestFirst` (what coalescing may do to a key), `DrainWillRun`,
`OverloadEnds`, `LatestArrives` (the drain task). `NoCircularWait`, `OneJobPerKey` of
`Backpressure` (what bounds the channels), `JobReturns`. `OkMeansEveryDevice`,
`SnapshotShowsOk`, `CallEnds`, `EndAnswersEveryone`, `PrefixTaken` (what callers are told, and
that they are told). `LastReadableDecides` (`reduce_snapshot` against a reference definition),
`OwnBypassReturns`, `ConflictNeedsEpicsReport`, `NoSourceHidden`. Each has mutants in
`PROJECT.json`: a plausible slip in the code that breaks it.

**Fairness.** Weak fairness of every task and of the clock: a Tokio task that can run
is polled. The scheduler's select is random, so its two arms are fair separately.
Strong fairness of a publish being accepted is an assumption on the broker: a key
whose status is put to Kafka again and again gets through some time. Inputs, failures,
the end of the handler and restarts are not fair.

In `Ingress` the coordinator is assumed to keep taking automated updates: they have the
lowest priority in its select, so this says that outcomes and user commands leave it time.
In `Backpressure` the engine's select is biased, with completions first, then the flush
tick, then requests. Each completion needs a request that was taken earlier, so neither
completions nor the tick can be kept from their turn for ever: both are strongly fair, as
the awaited send of the engine disables them now and then. In `GrpcAdapter` a job that is
sent again and again is committed some time, the broker assumption from outside.

## Findings

1. *A superseded confirmation is never answered* (`superseded`). A user action
   recorded while another job of the key is in flight is only in
   `speculative_state`; a newer input overwrites it, and its id is never sent.
   The caller waits until the coordinator ends, or for ever.
2. *A stale wake ends a newer bypass* (`stale_wake`). `JobOutcome::Wake` carries no
   id, so an expiry on its way while the operator makes the bypass permanent, or
   longer, still unbypasses the key.
3. *An overdue rollback spins* (`rollback`). Rolling back to a snooze whose time
   has passed makes a job the scheduler refuses, which is sent again without end. A
   new input for the key ends the loop. `SettlesUnlessOverdue` shows this is
   the only way a key fails to settle.
4. *Restored snoozes have no timer* (`lost_timer`). Hydration fills the confirmed
   state and not the scheduler.
5. *Full job channels stop the service* (`overcommitted`). Coordinator and workflow handler
   each await room in the channel the other empties. With more active keys than the
   capacity (4096 by default), the coordinator can wait for room for a job while the
   handler waits for room for an outcome or a wake, and neither takes anything any
   more. The snooze channels hold 128 by default, so the handler and the scheduler can
   come to wait for each other with far fewer keys: with `SnoozeCap` below the number of keys
   `NoCircularWait` fails too. `backpressure` shows that a capacity of one message per key is enough.

Observed and not turned into a run: in overload mode `send_automated_update` never
awaits capacity, although its comment (`ingress.rs:87-88`) and the README say that the
reader slows down (the backlog is still bounded, by one entry per key); and once the
coordinator has gone in overload mode, updates are accepted without an error.

## Proofs

Everything below is proved for every set of keys and every value of the other constants
that satisfies the named assumptions of the modules. They are of three kinds: `None` and other
markers are no values (`NoneIsNoStatus`, `NoneIsNoRecord`, `NoneIsNoResponse`, `NoneIsNoSend`, the
first lines of `TextAssumption`); capacities and bounds are naturals, sets of inputs contain
inputs of the right type (`GrpcAssumption`, `RequestsAssumption`, `InputAssumption` and the like); and
what `model/key.rs` gets from the standard library: trimming and upper-casing twice is the same as once,
they can be done in either order, and the name a source prints is the name it is read by (`TextAssumption`). One theorem has
hypotheses of its own; it says so.

| Module | Theorem | States |
|---|---|---|
| `AlarmServiceProofs` | `TypeCorrect` | `Spec => []TypeOK` |
| | `OneJobPerKeyAlways` | `Spec => []OneJobPerKey` |
| | `IntentHasJobAlways` | `Spec => []IntentHasJob` |
| | `EffectHasJobAlways` | `Spec => []EffectHasJob` |
| `TopicProofs` | `SnapshotMatchesKafkaAlways` | `Spec => []SnapshotMatchesKafka` |
| | `BypassSurvivesRestartAlways` | `Spec => BypassSurvivesRestart` |
| | `RegisterImplemented` | `Spec => ImplementsRegister` |
| | `OkMeansConfirmedAlways` | `Spec => []OkMeansConfirmed` |
| | `NoIntentLostAlways` | `Spec => []NoIntentLost` |
| | `AnsweredOnceAlways` | `Spec => AnsweredOnce` |
| `TimerProofs` | `TimerMatchesConfirmedAlways` | `Spec => []TimerMatchesConfirmed` |
| `IngressProofs` | `IngressTypeCorrect` | `Spec => []TypeOK` |
| | `DrainWillRunAlways` | `Spec => []DrainWillRun` |
| | `InOrderAlways` | `Spec => []InOrder` |
| | `LatestSurvivesAlways` | `Spec => []LatestSurvives` |
| | `OldestFirstAlways` | `Spec => OldestFirst` |
| `BackpressureProofs` | `BackpressureTypeCorrect` | `Spec => []TypeOK` |
| | `BackpressureOneJob` | `Spec => []OneJobPerKey` |
| | `NoCircularWaitAlways` | `Spec => []NoCircularWait`, when `JobCap`, `SnoozeCap` and `PublishCap` are at least the number of keys |
| `GrpcProofs` | `GrpcType` | `Spec => []TypeOK` |
| | `GrpcOkMeansEveryDevice` | `Spec => []OkMeansEveryDevice` |
| | `GrpcSnapshotShowsOk` | `Spec => []SnapshotShowsOk` |
| `HydrationProofs` | `HydrationType` | `Spec => []TypeOK` |
| | `HydrationLastReadable` | `Spec => []LastReadableDecides` |
| | `HydrationOwnBypass` | `Spec => []OwnBypassReturns` |
| | `HydrationConflict` | `Spec => ConflictNeedsEpicsReport` |
| | `HydrationSources` | `Spec => NoSourceHidden` |

So every invariant, every action property and the refinement that a passing run checks also
holds of every instance; only liveness rests on the runs alone. Each theorem rests on an inductive
invariant, which TLC checked on the instances above as well.

**Where a job is** (`JobInv`, `AlarmServiceProofs`). Behind `OneJobPerKey` and
`IntentHasJob`, neither of which is inductive alone. That a reconciled outcome frees its
key needs the job of the outcome to carry the key it is filed under. That new intent may be
sent when there is no speculative entry needs that a job in flight implies an
entry; that an entry is never stranded needs that a job is sent, or is still in
flight, whenever one stays. `KeyInv(k)` says these of one key: its job is at most at
one place of `sending`, `job_queue`, `jobs` and `job_outcomes`, and at one of them
exactly while there is an entry and both tasks live. The lemmas on channels say how a
step moves the place of one key's job and no other's, and one lemma per group of actions follows.

**What a tracked job has outside the handler** (`EffectInv`, `AlarmServiceProofs`). At step 1 a key
has at most one of a snooze command and its answer, at step 2 at most one of a
publish request, an attempt, a batched and a reported result, each with the status of the
job. `EffectHasJob` itself does not exclude a second result behind the first, which would find no
job. The invariant also carries what a good result means: the topic has the job's status,
from the attempt to the outcome the coordinator reads.

**Topic and confirmed state** (`TopicInv`, `TopicProofs`). A key without speculative entry
has in `confirmed_state` what the topic says, and so does a commit that waits for a
send, whose key is still open. With `EffectInv` this gives `SnapshotMatchesKafka`; since a restart
reads nothing but the topic, it gives `BypassSurvivesRestart` too. The refinement is proved
action by action: every action maps to a step of `AlarmRegister` or to a stutter.

**Ids and confirmations** (`ConfirmInv`, `TopicProofs`). Ids grow: no job on
its way is older than what is confirmed or newer than the key's intent, so a late outcome cannot
overwrite a newer commit. A user's job on its way still has its confirmation
waiting, and an id that waits names one key, so an answer reaches its own caller. `OkInv` covers the
stretch in which the user was told Ok and `confirmed_state` is not yet written (`committing`).
`IntentKept` says where the last accepted input of a key is: intent, confirmed, or reported to
its user as failed.

**Timers** (`StatusInv`, `TimerInv`, `TimerProofs`). `TimerMatchesConfirmed` speaks of keys at rest.
While a job is on its way, the timer is that of the last command obeyed: for a
job whose command was obeyed and whose id is still the key's latest, the timer or a wake under way is
what the job's status says (`JobTimer`): set for its very wake, or earlier by the cap on
delays and never later (`OnTime`). Superseded jobs promise nothing; the job that
supersedes them sets the timer again. That a rolled-back or repeated status is the one its id stands for is
`SameStatus`, and that only bypasses have a wake is `Plain`.

**Ingress** (`IngressInv`). Updates of a key are ordered along the way they take: queue, the one
the drain task holds, the retained ones, and the one the reader holds. That the reader may offer
directly is justified by `reader # Idle => ~overload_mode` with the first
half of `DrainWillRun`: outside of overload mode nothing is retained. `FreshInv` (everything on its way is newer
than what was received) and `LatestInv` carry `LatestSurvives` through coalescing.

**Bounded channels** (`Routed` and `JobInv`, `BackpressureProofs`). `KeyInv(x)` gives the job of
`x` one holder among the channels, the awaited sends, the handler's batch, the engine's attempts and
results, exactly while the key has intent. Wakes are not jobs and may fill their
channels; the argument for `NoCircularWait` does not need a bound on them: of two
tasks that wait for each other one sends towards Kafka (`jobs`, `snooze` or `publish`), these
channels hold jobs only, one per key, and the sender's key is not among them, so by the pigeonhole
principle there is room. The hypothesis is needed: `overcommitted` violates it by one and stops.

**Calls and snapshots** (`IInv`, `GrpcProofs`). Four layers. *Jobs* (`JobInv`): one per key, as in
`AlarmServiceProofs`, with the handler reduced to a bag of jobs that come back in any order. *Order*
(`OrderInv`): confirmed is no newer than the job on its way, that no newer than the intent, that no
newer than the last accepted input; an Ok reply is confirmed or is what `committing` holds.
*Owners* (`Owned(n, k, s)`): everything that carries id `n`, in either cache, in a job, in an
outcome or in a reply, is about key `k` and status `s`. A new id is nobody's, and every turn
hands id, key and status on together; a rollback brings back the confirmed ones, or the hydrated id
0, which is why the statement is about positive ids. *Calls* (`Shape`, `Backed`, `QueueInv`): the
tickets of a call are those of its first devices, a recorded one owns its id, and no two
messages of the user queue are for one ticket, so a ticket of a call that was told Ok never changes.
Between the layers stands `Keeps`, what no turn of the service takes back. `SnapshotShowsOk` needs
all four: a snapshot is taken at the select, where `committing` is empty, so the Ok is
confirmed under its id or a newer one. The view records the confirmed ids of that moment
(history): when it is the id of the Ok, the owner of the id gives the
status that is shown. A superseded job is not exempt: its Ok is confirmed like any other.

**Hydration** (`TypeInv`, `OwnInv`, `HydrationProofs`). The loaders are passes over a
sequence. The library's induction rule takes an operator, which no installed prover can instantiate; the
least-number principle is about sets and can be used, so induction over the length is
proved from it (`Induction`). First that the pass exists (`ReducePassExists`, `LoadPassExists`: the
recursive function unfolds), then what it has computed after `n` records (`Decided`, `Collected`), which gives
`LastReadableDecides`. `OwnBypassReturns` is about the topic over time: `OwnInv` says that the last
record about a key which no other producer wrote to is the status written last, and that a
record of the service is read back under the key it was written for (`RoundTrip`). Compaction
keeps it because it only takes records that a later one of the same text replaces, or a
tombstone. Merging is a matter of sources: the topic yields EPICS keys only, so a conflict needs an
EPICS report.

Proving found that some `CASE` expressions with overlapping guards said less than was meant
(TLC takes the first arm, the logic leaves the choice open): `get_latest_status`,
`build_grpc_result` and `apply_record` are chains of `IF` now, as the `match` and `if` of the
code are. `Backpressure` states that `None` is no awaited send (`NoneIsNoSend`), `GrpcAdapter` that it is
no response (`NoneIsNoResponse`), without which an Ok could be an absent answer.

Only model-checked: all liveness (fairness and `ENABLED` are beyond the prover): `SettlesUnlessOverdue`,
`SnoozeEnds`, `OverloadEnds`, `LatestArrives`, `JobReturns`, `CallEnds`, `EndAnswersEveryone`,
`PrefixTaken`. The findings are counterexamples and stay with their runs.

## Not modelled

Left out for good: metrics (counters, histograms and gauges that are logged and that
no decision reads), configuration, logging, generated protobuf code, transport of Redis
and gRPC (third-party libraries). A late write of an attempt that already returned an
error is assumed not to happen. The error path of a send to an effect task that has gone
needs a panic of that task and is left out. A caller that hangs up leaves its updates
in the queue and its answers unread, which changes nothing for the service.

Two places where the project could grow:

1. A restart in `GrpcAdapter`. A caller whose process ends is answered by its connection, not by
   this code, and the service's side of a restart is in `AlarmService`; composing the two would say
   what a caller may conclude from a lost connection.
2. The pieces of liveness that are safety: that a job which is taken is never again taken back
   without an answer is proved (`OneJobPerKey`, `IntentHasJob`, `EffectHasJob`, `DrainWillRun`); what
   remains of `SettlesUnlessOverdue` is the fairness argument, for a prover that has one.
