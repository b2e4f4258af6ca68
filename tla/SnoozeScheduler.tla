-------------------------- MODULE SnoozeScheduler --------------------------
(***************************************************************************)
(* The snooze scheduler (src/effects/snooze.rs): at most one timer per     *)
(* key, set, replaced or cancelled by commands, reporting its expiry.      *)
(*                                                                         *)
(* The clock counts whole units.  Wake timestamps are whole seconds and    *)
(* the wall clock is not, so while now = wake the wake is either exactly   *)
(* now or already past.                                                    *)
(***************************************************************************)
EXTENDS Channels

CONSTANT MAX_DELAY       \* the longest delay a timer is given

ASSUME MaxDelayAssumption == MAX_DELAY \in Nat \ {0}

VARIABLES
  timer,    \* registry and delay_queue: [Keys -> deadline], NoWake for no timer
  now       \* the wall clock

snoozeVars == <<timer, now>>

SnoozeTypeOK ==
  /\ timer \in [Keys -> Wakes \cup {NoWake}]
  /\ now \in 0 .. MaxTime

SnoozeInit ==
  /\ timer = [k \in Keys |-> NoWake]
  /\ now = 0

\* Mutant: reads the wake timestamp as a delay.
timestamp_secs_to_instant_delay(wake) == now + wake

\* When a timer for wake fires, if it is set now.
timestamp_secs_to_instant(wake) ==
  IF wake - now <= MAX_DELAY THEN wake ELSE now + MAX_DELAY

\* Mutant: replaces a timer but never starts one.
SetTimer_only_resets(k, wake) ==
  IF timer[k] = NoWake THEN timer
  ELSE [timer EXCEPT ![k] = timestamp_secs_to_instant(wake)]

\* Snooze::Set: registers or replaces the key's timer.
SetTimer(k, wake) == [timer EXCEPT ![k] = timestamp_secs_to_instant(wake)]

\* Mutant: leaves the timer armed.
CancelTimer_ignored(k) == timer

\* Snooze::Cancel: removes the key's timer, if it has one.
CancelTimer(k) == [timer EXCEPT ![k] = NoWake]

Respond(input, kind) ==
  /\ snooze_inputs' = snooze_inputs \ {input}
  /\ snooze_outcomes' = Append(snooze_outcomes, [kind |-> kind, key |-> input.key])
  /\ UNCHANGED now

handle_snooze_input(input) ==
  /\ input \in snooze_inputs
  /\ \/ /\ input.wake = NoWake
        /\ timer' = CancelTimer(input.key)
        /\ Respond(input, "Accepted")
     \/ /\ input.wake # NoWake /\ input.wake >= now
        /\ timer' = SetTimer(input.key, input.wake)
        /\ Respond(input, "Accepted")
     \/ /\ input.wake # NoWake /\ input.wake <= now
        /\ UNCHANGED timer
        /\ Respond(input, "InvalidWake")

\* delay_queue yields an elapsed timer.
Expire(k) ==
  /\ timer[k] # NoWake /\ timer[k] <= now
  /\ timer' = [timer EXCEPT ![k] = NoWake]
  /\ snooze_outcomes' = Append(snooze_outcomes, [kind |-> "Expired", key |-> k])
  /\ UNCHANGED <<now, snooze_inputs>>

Tick ==
  /\ now < MaxTime
  /\ now' = now + 1
  /\ UNCHANGED <<timer, snoozeChannels>>
=============================================================================
