------------------------------- MODULE IdMap -------------------------------
(***************************************************************************)
(* What the list of ids of a database promises: it relates the numeric ids *)
(* of the existing objects to the objects.  An id is never related again   *)
(* after its release, and a search finds an object iff it exists.          *)
(***************************************************************************)
EXTENDS Integers

CONSTANTS MaxId, Nobody

VARIABLES
  known,   (* the ids that are related to an object                        *)
  top,     (* all ids below have been given out                            *)
  goal,    (* the id being searched for, or Nobody                         *)
  purpose, (* is it searched for to "find" or to "release" it?             *)
  found    (* the outcome of the last search                               *)

vars == <<known, top, goal, purpose, found>>

Ids == 0..MaxId

Init ==
  /\ \E n \in Ids : known = 0..n /\ top = n + 1
  /\ goal = Nobody
  /\ purpose = "find"
  /\ found = FALSE

Relate ==
  /\ goal = Nobody
  /\ top \in Ids
  /\ top' = top + 1
  /\ known' \in {known, known \cup {top}}
  /\ UNCHANGED <<goal, purpose, found>>

Ask(id, p) ==
  /\ goal = Nobody
  /\ goal' = id
  /\ purpose' = p
  /\ UNCHANGED <<known, top, found>>

Answer ==
  /\ goal # Nobody
  /\ goal' = Nobody
  /\ found' = (goal \in known)
  /\ known' = IF purpose = "release" THEN known \ {goal} ELSE known
  /\ UNCHANGED <<top, purpose>>

Next ==
  \/ Relate
  \/ Answer
  \/ \E id \in Ids, p \in {"find", "release"} : Ask(id, p)

Spec == Init /\ [][Next]_vars
=============================================================================
