-------------------------- MODULE MCSubagentStage --------------------------
(* SubagentStage on a run of a few events with one or two delegations.     *)
EXTENDS SubagentStage

CONSTANTS d1, d2

\* Safety runs only: nothing tells two delegations apart.
DelegationSymmetry == Permutations(Delegations)

-----------------------------------------------------------------------------
(* What a delegation announces is neither overtaken by what upstream       *)
(* produces after it nor ahead of the call that started it, and all of it  *)
(* is shown by the time the stage ends.                                    *)
ProgressInPlace == NotOvertaken /\ StartFollowsItsCall /\ NothingLost
=============================================================================
