--------------------------- MODULE MCGrpcAdapter ---------------------------
(* Instances of GrpcAdapter for TLC. *)
EXTENDS GrpcAdapter, TLC

CONSTANTS
  epics, analog,     \* one key of each kind
  c1, c2

MCKeys == {epics, analog}

\* AEOLUS reports an alarm.
MCHydrated ==
  epics :> None @@
  analog :> [DefaultStatus EXCEPT !.state = "Alarmed", !.severity = "High"]

MCCallers == {c1, c2}

\* Several devices, an action that one of them does not allow, a device that
\* is no key, a missing wake.
MCRequests ==
  c1 :> { [rpc |-> "bypass", devices |-> <<epics, analog>>, wake |-> NoWake],
          [rpc |-> "bypass", devices |-> <<analog, None>>, wake |-> NoWake] }
  @@
  c2 :> { [rpc |-> "acknowledge", devices |-> <<analog, epics>>, wake |-> NoWake],
          [rpc |-> "activate", devices |-> <<epics>>, wake |-> NoWake],
          [rpc |-> "snooze", devices |-> <<epics>>, wake |-> NoWake] }
=============================================================================
