----------------------------- MODULE MCIdList -----------------------------
(* Instances of IdList for TLC.                                            *)
EXTENDS IdList

OutOfNode  == {"node"}
OutOfBoth  == {"node", "array"}
=============================================================================
