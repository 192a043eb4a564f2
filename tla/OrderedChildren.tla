-------------------------- MODULE OrderedChildren --------------------------
(***************************************************************************)
(* What an association promises: every parent has a sequence of children   *)
(* and every child one of parents, which agree on who is linked; there is  *)
(* one parent at most unless the association is n:m, and one child at most *)
(* if it is 1:1; and linking, moving or unlinking disturbs no other link.  *)
(***************************************************************************)
EXTENDS Naturals, Sequences, SequencesExt

CONSTANTS Parents, Children

VARIABLES
  assoctype,  (* of the association                                        *)
  children,   (* of each parent                                            *)
  parents     (* of each child                                             *)

vars == <<assoctype, children, parents>>

(* A sequence without the element c, which is in it once at most.           *)
Without(s, c) ==
  IF c \in ToSet(s) THEN RemoveAt(s, CHOOSE i \in 1..Len(s) : s[i] = c) ELSE s

(* The sequences that s may become when c is linked, moved or unlinked.    *)
Results(s, c) ==
  {Without(s, c)} \cup {InsertAt(Without(s, c), i, c) : i \in 1..Len(Without(s, c)) + 1}

(* The link of p and c comes, goes or gets another place in either list,   *)
(* by which now becomes next.                                              *)
Change(p, c, now, next) ==
  /\ next.children = [now.children EXCEPT ![p] = next.children[p]]
  /\ next.parents = [now.parents EXCEPT ![c] = next.parents[c]]
  /\ next.children[p] \in Results(now.children[p], c)
  /\ next.parents[c] \in Results(now.parents[c], p)
  /\ c \in ToSet(next.children[p]) <=> p \in ToSet(next.parents[c])
  /\ assoctype # "n:m" => Len(next.parents[c]) <= 1
  /\ assoctype = "1:1" => Len(next.children[p]) <= 1

Init ==
  /\ assoctype \in {"1:1", "1:n", "n:m"}
  /\ children = [p \in Parents |-> <<>>]
  /\ parents = [c \in Children |-> <<>>]

Lists == [children |-> children, parents |-> parents]

Next ==
  /\ UNCHANGED assoctype
  /\ \E now \in {Lists}, next \in {Lists'} :
       \E p \in Parents, c \in Children : Change(p, c, now, next)

Spec == Init /\ [][Next]_vars
=============================================================================
