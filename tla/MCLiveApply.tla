----------------------------- MODULE MCLiveApply -----------------------------
(* Plans and expiry instants for the model checker.                        *)
EXTENDS LiveApplyRefinement, TLC

CONSTANTS a1, a2, s1, s2, s3

(* One plan of two operations.                                             *)
OnePlan == (a1 :> <<s1, s2>>)
OneExpiry == (a1 :> 1)

(* Two plans for the same board, reviewed against the same revision.       *)
TwoPlans == (a1 :> <<s1, s2>>) @@ (a2 :> <<s3>>)
TwoExpiries == (a1 :> 1) @@ (a2 :> 2)

=============================================================================
