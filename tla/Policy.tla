------------------------------- MODULE Policy -------------------------------
(***************************************************************************)
(* Alarm statuses, user actions and the transition policy                  *)
(* (src/engine/policy.rs, src/model/user_action.rs).                       *)
(*                                                                         *)
(* A status is reduced to the three fields a decision reads.  Device and   *)
(* source are the identity of the alarm, its key; the user name, time and  *)
(* EPICS type are carried along and never read.  A wake timestamp is a     *)
(* positive integer of whole time units, and 0 stands for "no wake".       *)
(***************************************************************************)
EXTENDS Integers

CONSTANTS
  None,        \* an absent Option
  MaxTime      \* last instant of the modelled clock

ASSUME MaxTimeAssumption == MaxTime \in Nat

NoWake == 0
Wakes  == 1 .. MaxTime

State == {"Unknown", "Ok", "Alarmed", "Latched", "Acknowledged",
          "Bypassed", "Unbypassed"}

Severity == {"Unknown", "Low", "High"}

Status == [state : State, severity : Severity, wake : Wakes \cup {NoWake}]

ASSUME NoneIsNoStatus == None \notin Status

\* The protobuf default: unknown state and severity, no wake.
DefaultStatus == [state |-> "Unknown", severity |-> "Unknown", wake |-> NoWake]

-----------------------------------------------------------------------------
(* Inputs *)

\* What a Redis Stream entry's severity field says, after upper-casing:
\* MINOR reads as LOW, MAJOR as HIGH, anything else as OTHER.
RedisSeverity == {"NO_ALARM", "LOW", "HIGH", "OTHER"}

build_status_from_redis(field) ==
  CASE field = "NO_ALARM" -> [DefaultStatus EXCEPT !.state = "Ok"]
    [] field = "LOW"  -> [DefaultStatus EXCEPT !.state = "Alarmed", !.severity = "Low"]
    [] field = "HIGH" -> [DefaultStatus EXCEPT !.state = "Alarmed", !.severity = "High"]
    [] OTHER -> DefaultStatus

UserAction ==
  [kind : {"Acknowledge", "Activate"}, wake : {NoWake}]
    \cup [kind : {"Bypass"}, wake : Wakes \cup {NoWake}]

as_state(action) ==
  CASE action.kind = "Acknowledge" -> "Acknowledged"
    [] action.kind = "Activate"    -> "Unbypassed"
    [] OTHER                       -> "Bypassed"

build_user_status(action) ==
  [DefaultStatus EXCEPT !.state = as_state(action), !.wake = action.wake]

\* The update the coordinator synthesizes when a snooze timer has fired.
WakeStatus == [DefaultStatus EXCEPT !.state = "Unbypassed"]

-----------------------------------------------------------------------------
(* Decisions.  prev is the latest known status of the key, or None. *)

is_bypassed(prev) == prev # None /\ prev.state = "Bypassed"

transition_allowed(prev, next) ==
  \/ prev \in {"Bypassed", "Unknown"}
  \/ <<prev, next>> \in { <<"Ok", "Alarmed">>, <<"Alarmed", "Latched">>,
                          <<"Alarmed", "Ok">>, <<"Acknowledged", "Ok">>,
                          <<"Acknowledged", "Alarmed">> }

\* Whether an automated update changes what should be published.
should_publish(prev, epics, alarm) ==
  /\ is_bypassed(prev) => ~epics \/ alarm.state = "Unbypassed"
  /\ prev # None => \/ transition_allowed(prev.state, alarm.state)
                    \/ prev.severity # alarm.severity

\* Whether a user action may be applied to the latest known status.
user_action_allowed(prev, action) ==
  LET latest == IF prev = None THEN DefaultStatus ELSE prev
  IN  CASE action.kind = "Acknowledge" -> latest.state \in {"Alarmed", "Latched"}
        [] action.kind = "Activate"    -> latest.state = "Bypassed"
        [] OTHER -> latest.state # "Bypassed" \/ latest.wake # action.wake
=============================================================================
