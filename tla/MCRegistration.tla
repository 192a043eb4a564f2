--------------------------- MODULE MCRegistration ---------------------------
(***************************************************************************)
(* Registration for TLC: two agents of the same server name, either one    *)
(* server with two protocols or two servers of different versions.         *)
(***************************************************************************)
EXTENDS Registration, TLC

CONSTANTS a1, a2, n1  (* two agents and a server name *)

Id(v1, p1, v2, p2) ==
  (a1 :> [name |-> n1, version |-> v1, protocol |-> p1])
  @@ (a2 :> [name |-> n1, version |-> v2, protocol |-> p2])

MCIdents == {Id(1, "ksxdr", 1, "kshttp"), Id(1, "ksxdr", 2, "ksxdr")}
=============================================================================
