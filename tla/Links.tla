------------------------------- MODULE Links -------------------------------
(***************************************************************************)
(* The pointers of a 1:n association and what linking and unlinking do to  *)
(* them (core/ov/source/ov_association.c: ov_association_link and          *)
(* ov_association_unlink).  The head in the link table of a parent points  *)
(* to its first and its last child, the anchor in the link table of a      *)
(* child to the previous and the next child and to the parent.             *)
(*                                                                         *)
(* The operators take the heads and anchors of all objects as a record l.  *)
(* A place is a placement hint with its relative, as in a KS request.  The *)
(* hint is a number that nobody checks when the request is read: one that  *)
(* stands for nothing is "UNKNOWN".  A parent hint other than the default, *)
(* the first and the last makes no sense in a 1:n association.             *)
(***************************************************************************)
EXTENDS Integers, Sequences, SequencesExt, FiniteSets

CONSTANT Nil  (* the null pointer                                          *)

Relative == {"BEFORE", "AFTER"}

Simple == {"DEFAULT", "BEGIN", "END"}

Hints == Simple \cup Relative \cup {"UNKNOWN"}

(* The places among the children C, and what else a request may ask for.   *)
Known(C) ==
  [parenthint : {"DEFAULT"}, hint : Simple, rel : {Nil}]
    \cup [parenthint : {"DEFAULT"}, hint : Relative, rel : C]

Place(C) == Known(C) \cup [parenthint : {"DEFAULT"}, hint : {"UNKNOWN"}, rel : {Nil}]

(* The hints of which ov_association_link makes something.                 *)
IsKnown(place) == place.parenthint \in Simple /\ place.hint # "UNKNOWN"

(* The tables of parents P and children C.                                 *)
LinkTables(P, C) ==
  [pfirst    : [P -> C \cup {Nil}],
   plast     : [P -> C \cup {Nil}],
   pprevious : [C -> C \cup {Nil}],
   pnext     : [C -> C \cup {Nil}],
   pparent   : [C -> P \cup {Nil}]]

Empty(P, C) ==
  [pfirst    |-> [p \in P |-> Nil],
   plast     |-> [p \in P |-> Nil],
   pprevious |-> [c \in C |-> Nil],
   pnext     |-> [c \in C |-> Nil],
   pparent   |-> [c \in C |-> Nil]]

(* The macros that read pointers return NULL for NULL.                     *)
Previous(l, c) == IF c = Nil THEN Nil ELSE l.pprevious[c]
PNext(l, c)    == IF c = Nil THEN Nil ELSE l.pnext[c]
Parent(l, c)   == IF c = Nil THEN Nil ELSE l.pparent[c]

(* The children of p in their order: from the first on, until no next one  *)
(* comes (or there are more than can be, after a pointer went wrong).      *)
ChildrenOf(l, p) ==
  LET most == Cardinality(DOMAIN l.pnext)
      walk[n \in 0..most] ==
        IF n = 0 THEN <<>>
        ELSE LET s == walk[n - 1]
                 c == IF s = <<>> THEN l.pfirst[p] ELSE l.pnext[Last(s)]
             IN  IF c = Nil THEN s ELSE Append(s, c)
  IN  walk[most]

----------------------------------------------------------------------------
(* y stored in the pointer of x; nothing is stored if x is NULL.           *)
Stored(f, x, y) == [d \in DOMAIN f |-> IF d = x THEN y ELSE f[d]]

(* The actual linkage of child c between prev and next.                    *)
Bug_Spliced(l, p, c, prev, next) ==  (* the successor is forgotten         *)
  [l EXCEPT !.pfirst[p]    = IF prev = Nil THEN c ELSE @,
            !.plast[p]     = IF next = Nil THEN c ELSE @,
            !.pnext        = Stored(Stored(@, prev, c), c, next),
            !.pprevious[c] = prev,
            !.pparent[c]   = p]
Spliced(l, p, c, prev, next) ==
  [pfirst    |-> [l.pfirst EXCEPT ![p] = IF prev = Nil THEN c ELSE @],
   plast     |-> [l.plast EXCEPT ![p] = IF next = Nil THEN c ELSE @],
   pprevious |-> Stored(Stored(l.pprevious, next, c), c, prev),
   pnext     |-> Stored(Stored(l.pnext, prev, c), c, next),
   pparent   |-> [l.pparent EXCEPT ![c] = p]]

(* The predecessor and the successor that the placement stands for.        *)
Predecessor(l, p, place) ==
  CASE place.hint = "BEGIN"  -> Previous(l, l.pfirst[p])
    [] place.hint = "BEFORE" -> l.pprevious[place.rel]
    [] place.hint = "AFTER"  -> place.rel
    [] OTHER                 -> l.plast[p]

Successor(l, p, place) ==
  CASE place.hint = "BEGIN"  -> l.pfirst[p]
    [] place.hint = "BEFORE" -> place.rel
    [] place.hint = "AFTER"  -> l.pnext[place.rel]
    [] OTHER                 -> PNext(l, l.plast[p])

Placed(l, p, c, place) ==
  Spliced(l, p, c, Predecessor(l, p, place), Successor(l, p, place))

(* The linkage of c undone.                                                *)
Bug_Unlinked(l, p, c) ==  (* the head keeps its last child                 *)
  LET prev == l.pprevious[c]
      next == l.pnext[c]
  IN  [l EXCEPT !.pfirst[p]  = IF prev = Nil THEN next ELSE @,
                !.pnext      = Stored(Stored(@, prev, next), c, Nil),
                !.pprevious  = Stored(Stored(@, next, prev), c, Nil),
                !.pparent[c] = Nil]
Unlinked(l, p, c) ==
  LET prev == l.pprevious[c]
      next == l.pnext[c]
  IN  [pfirst    |-> [l.pfirst EXCEPT ![p] = IF prev = Nil THEN next ELSE @],
       plast     |-> [l.plast EXCEPT ![p] = IF next = Nil THEN prev ELSE @],
       pprevious |-> Stored(Stored(l.pprevious, next, prev), c, Nil),
       pnext     |-> Stored(Stored(l.pnext, prev, next), c, Nil),
       pparent   |-> [l.pparent EXCEPT ![c] = Nil]]

UnlinkOutcome(l, p, c) == IF l.pparent[c] = p THEN Unlinked(l, p, c) ELSE l

(* Is the child, linked to p already, where it is wanted?                  *)
InPlace(l, p, c, place) ==
  CASE place.hint = "BEGIN"  -> l.pfirst[p] = c
    [] place.hint = "END"    -> l.plast[p] = c
    [] place.hint = "BEFORE" -> Previous(l, place.rel) = c
    [] place.hint = "AFTER"  -> PNext(l, place.rel) = c
    [] place.hint = "UNKNOWN" -> FALSE
    [] OTHER                 -> TRUE

(* What ov_association_link returns.  There is a clash if the association  *)
(* binds names and the parent has a child of that name.                    *)
Bug_AnyRelative(l, p, c, place, clash) ==  (* whose child is the relative? *)
  IF l.pparent[c] \notin {Nil, p}                       THEN "ALREADYEXISTS"
  ELSE IF l.pparent[c] = p /\ InPlace(l, p, c, place)   THEN "OK"
  ELSE IF clash                                         THEN "ALREADYEXISTS"
  ELSE IF ~IsKnown(place)                               THEN "BADPLACEMENT"
  ELSE "OK"
LinkResult(l, p, c, place, clash) ==
  IF l.pparent[c] \notin {Nil, p}                       THEN "ALREADYEXISTS"
  ELSE IF l.pparent[c] = p /\ InPlace(l, p, c, place)   THEN "OK"
  ELSE IF clash                                         THEN "ALREADYEXISTS"
  ELSE IF ~IsKnown(place)                               THEN "BADPLACEMENT"
  ELSE IF place.hint \in Relative /\ Parent(l, place.rel) # p
                                                        THEN "BADPARAM"
  ELSE IF place.hint \in Relative /\ place.rel = c      THEN "BADPLACEMENT"
  ELSE "OK"

(* What it does: a child that is linked but not where it is wanted is      *)
(* unlinked and linked again, with the placement computed anew.            *)
Bug_NeverMoved(l, p, c, place, clash) ==
  IF LinkResult(l, p, c, place, clash) # "OK" \/ l.pparent[c] = p
  THEN l ELSE Placed(l, p, c, place)
LinkOutcome(l, p, c, place, clash) ==
  IF \/ LinkResult(l, p, c, place, clash) # "OK"
     \/ l.pparent[c] = p /\ InPlace(l, p, c, place)
  THEN l ELSE Placed(UnlinkOutcome(l, p, c), p, c, place)

----------------------------------------------------------------------------
(* The pointers of the anchors agree: a child is the previous one of its   *)
(* next and the next one of its previous, and these have its parent.       *)
AnchorsAgree(l) ==
  \A c \in DOMAIN l.pparent :
    /\ l.pnext[c] # Nil     => /\ l.pprevious[l.pnext[c]] = c
                               /\ l.pparent[l.pnext[c]] = l.pparent[c]
                               /\ l.pparent[c] # Nil
    /\ l.pprevious[c] # Nil => /\ l.pnext[l.pprevious[c]] = c
                               /\ l.pparent[l.pprevious[c]] = l.pparent[c]
                               /\ l.pparent[c] # Nil

(* Heads point to children without a neighbour on that side, and every     *)
(* child without one is pointed to.                                        *)
HeadsAgree(l) ==
  /\ \A p \in DOMAIN l.pfirst :
       /\ l.pfirst[p] # Nil => l.pparent[l.pfirst[p]] = p /\ l.pprevious[l.pfirst[p]] = Nil
       /\ l.plast[p] # Nil  => l.pparent[l.plast[p]] = p /\ l.pnext[l.plast[p]] = Nil
  /\ \A c \in DOMAIN l.pparent : l.pparent[c] # Nil =>
       /\ l.pprevious[c] = Nil => l.pfirst[l.pparent[c]] = c
       /\ l.pnext[c] = Nil     => l.plast[l.pparent[c]] = c
=============================================================================
