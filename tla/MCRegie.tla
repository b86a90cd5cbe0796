------------------------------- MODULE MCRegie -------------------------------
(* Two decisions about one review for the model checker.                   *)
EXTENDS ReviewSession, TLC

CONSTANTS a1, a2, s1, s2

(* The decisions approve one or both of two operations.                    *)
Decisions == (a1 :> <<s1>>) @@ (a2 :> <<s1, s2>>)
Expiries == (a1 :> 1) @@ (a2 :> 1)
==============================================================================
