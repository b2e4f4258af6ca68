--------------------------- MODULE MCAlarmService ---------------------------
(* Instances of AlarmService for TLC. *)
EXTENDS AlarmServiceRefinement

CONSTANTS epics, analog     \* one key of each kind

MCKeys == {epics, analog}
MCAcnet == {[DefaultStatus EXCEPT !.state = "Alarmed", !.severity = "High"]}
=============================================================================
