--------------------------- MODULE MCLightningProxy ---------------------------
(* Values of the constants of LightningProxy for model checking. *)
EXTENDS LightningProxy, TLC

\* Calls alternate between the two methods.
MCOp       == [n \in Calls |-> IF n % 2 = 1 THEN "ComputeInputScript" ELSE "SignOutputRaw"]
BothMethods == Ops

\* Callers are interchangeable, and so are connections.
Symmetry == Permutations(Callers) \cup Permutations(Conns)
=============================================================================
