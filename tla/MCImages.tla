------------------------------- MODULE MCImages -------------------------------
(* Two replacements and a deletion of one asset's images. *)
EXTENDS ManagedImage, TLC

CONSTANTS r1, r2, f1, f2

Outputs == r1 :> f1 @@ r2 :> f2
Sources == [r \in Replacing |-> r]
=============================================================================
