----------------------- MODULE AlarmServiceRefinement -----------------------
(***************************************************************************)
(* AlarmService implements AlarmRegister: open work is what the            *)
(* coordinator has speculative state for, and what is visible is its       *)
(* confirmed state.                                                        *)
(***************************************************************************)
EXTENDS AlarmService

open == { k \in Keys : speculative_state[k] # None }

visible == [k \in Keys |-> IF confirmed_state[k] = None THEN None
                                                        ELSE confirmed_state[k].status]

Register == INSTANCE AlarmRegister WITH published <- kafka, up <- running

\* The tasks together keep the promise of AlarmRegister: every step of theirs is
\* one of its steps or changes nothing a consumer or a snapshot can see.  In
\* particular the commit of a superseded job, which waits for a send, still
\* makes visible what the topic says then, and no failure, rollback or lost
\* acknowledgement closes a key on something else.
ImplementsRegister == Register!Spec
=============================================================================
