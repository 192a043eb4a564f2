----------------------------- MODULE ManyLinks -----------------------------
(***************************************************************************)
(* The pointers of an n:m association (core/ov/source/ov_association.c).   *)
(* A link is a block of the database (OV_NMLINK) that is in two lists at   *)
(* once: that of the links of its parent, by its anchor "parent", and that *)
(* of the links of its child, by its anchor "child".  Each of the two is   *)
(* a list as in module Links.                                              *)
(*                                                                         *)
(* The operators take both tables as a record m.  A place names a hint and *)
(* a relative for either list: where the child goes among the children of  *)
(* the parent, and where the parent goes among the parents of the child.   *)
(* A block that was freed is taken as empty, since nobody points to it.    *)
(***************************************************************************)
EXTENDS Links

CONSTANTS
  Parents,   (* the objects of the parent class                            *)
  Children,  (* the objects of the child class                             *)
  Blocks     (* the blocks that the database has room for                  *)

ASSUME ManyLinksAssumption ==
  Nil \notin Parents \cup Children \cup Blocks /\ IsFiniteSet(Blocks)

(* One half of a place, with the object that a relative hint refers to.    *)
HalfPlaces(Objects) ==
  [hint : Simple \cup {"UNKNOWN"}, rel : {Nil}]
    \cup [hint : Relative, rel : Objects]

ManyPlaces == [parent : HalfPlaces(Parents), child : HalfPlaces(Children)]

NoLinks == [parent |-> Empty(Parents, Blocks), child |-> Empty(Children, Blocks)]

PParent(m, b) == m.parent.pparent[b]
PChild(m, b)  == m.child.pparent[b]

(* The link of p and c, which the code finds by going along a list.        *)
Between(m, p, c) ==
  IF \E b \in Blocks : PParent(m, b) = p /\ PChild(m, b) = c
  THEN CHOOSE b \in Blocks : PParent(m, b) = p /\ PChild(m, b) = c
  ELSE Nil

(* What allocating a block for a new link may yield.                       *)
Free(m) == {b \in Blocks : PParent(m, b) = Nil}

Allocated(m) == IF Free(m) = {} THEN {Nil} ELSE Free(m)

ManyChildren(m, p) ==
  LET s == ChildrenOf(m.parent, p) IN [i \in DOMAIN s |-> PChild(m, s[i])]

ManyParents(m, c) ==
  LET s == ChildrenOf(m.child, c) IN [i \in DOMAIN s |-> PParent(m, s[i])]

----------------------------------------------------------------------------
(* The half place of an object as one of its link, as in module Links.     *)
InList(half, link) ==
  [parenthint |-> "DEFAULT", hint |-> half.hint,
   rel |-> IF half.hint \in Relative THEN link ELSE Nil]

(* The place of a link of p among those of p, and of one of c among those  *)
(* of c.                                                                   *)
ChildPlace(m, p, place)  == InList(place.child, Between(m, p, place.child.rel))
ParentPlace(m, c, place) == InList(place.parent, Between(m, place.parent.rel, c))

(* A hint is unknown, or the object that it refers to has no link with p,  *)
(* or with c.                                                              *)
Misplaced(m, p, c, place) ==
  \/ "UNKNOWN" \in {place.parent.hint, place.child.hint}
  \/ place.parent.hint \in Relative /\ Between(m, place.parent.rel, c) = Nil
  \/ place.child.hint \in Relative /\ Between(m, p, place.child.rel) = Nil

Answer(result, m) == [result |-> result, links |-> m]

(* p and c have no link yet, and the allocation yields block b.            *)
Fresh(m, p, c, place, b) ==
  IF Misplaced(m, p, c, place) THEN Answer("BADPLACEMENT", m)
  ELSE IF b = Nil              THEN Answer("DBOUTOFMEMORY", m)
  ELSE Answer("OK", [parent |-> Placed(m.parent, p, b, ChildPlace(m, p, place)),
                     child  |-> Placed(m.child, c, b, ParentPlace(m, c, place))])

(* Is a link l where it is wanted in a list with these anchors, whose      *)
(* objects are the values of others?                                       *)
Stays(list, others, l, half) ==
  CASE half.hint = "BEGIN"  -> list.pprevious[l] = Nil
    [] half.hint = "END"    -> list.pnext[l] = Nil
    [] half.hint = "BEFORE" -> list.pnext[l] # Nil /\ others[list.pnext[l]] = half.rel
    [] half.hint = "AFTER"  -> list.pprevious[l] # Nil /\ others[list.pprevious[l]] = half.rel
    [] OTHER                -> TRUE

(* Is it in both?  A child's default falls through to the first place, and *)
(* with an unknown hint the child counts as placed, but not the parent.    *)
StaysInBoth(m, l, place) ==
  \/ place.parent.hint = "DEFAULT" /\ place.child.hint = "DEFAULT"
  \/ /\ place.parent.hint # "UNKNOWN"
     /\ Stays(m.child, m.parent.pparent, l, place.parent)
     /\ Stays(m.parent, m.child.pparent, l,
              IF place.child.hint = "DEFAULT" THEN [place.child EXCEPT !.hint = "BEGIN"]
              ELSE place.child)

(* A default becomes the place that the link has now.                      *)
Bug_Kept(list, others, l, half) == half  (* a default means the end        *)
Kept(list, others, l, half) ==
  CASE half.hint # "DEFAULT" -> half
    [] half.hint = "DEFAULT" /\ list.pprevious[l] # Nil ->
         [hint |-> "AFTER", rel |-> others[list.pprevious[l]]]
    [] OTHER -> [hint |-> "BEGIN", rel |-> Nil]

KeptPlace(m, l, place) ==
  [parent |-> Kept(m.child, m.parent.pparent, l, place.parent),
   child  |-> Kept(m.parent, m.child.pparent, l, place.child)]

(* The link l of p and c is taken out of both lists and freed.             *)
Bug_Removed(m, p, c, l) == [m EXCEPT !.parent = Unlinked(@, p, l),
                                     !.child.pparent[l] = Nil]
Removed(m, p, c, l) ==
  [parent |-> Unlinked(m.parent, p, l),
   child  |-> Unlinked(m.child, c, l)]

WithoutLink(m, p, c) ==
  IF Between(m, p, c) = Nil THEN m ELSE Removed(m, p, c, Between(m, p, c))

(* A hint must not refer to what is moved.                                 *)
Bug_AboutItself(p, c, place) == FALSE
AboutItself(p, c, place) ==
  \/ place.parent.hint \in Relative /\ place.parent.rel = p
  \/ place.child.hint \in Relative /\ place.child.rel = c

(* The answer to link, and what it makes of the pointers.  A link that is  *)
(* not where it is wanted is removed, and the function calls itself.       *)
LinkAnswer(m, p, c, place, b) ==
  LET l == Between(m, p, c)
  IN  IF l = Nil                        THEN Fresh(m, p, c, place, b)
      ELSE IF StaysInBoth(m, l, place)  THEN Answer("OK", m)
      ELSE IF \/ Misplaced(m, p, c, place)
              \/ AboutItself(p, c, place) THEN Answer("BADPLACEMENT", m)
      ELSE Fresh(WithoutLink(m, p, c), p, c, KeptPlace(m, l, place), b)

(* The block that link may get: a moved link's own one is free by then.    *)
Available(m, p, c) == Allocated(WithoutLink(m, p, c))

----------------------------------------------------------------------------
ManyTables == [parent : LinkTables(Parents, Blocks), child : LinkTables(Children, Blocks)]

(* Both lists of every link are sound, a block is in a list of parents iff *)
(* it is in one of children, and no two link the same objects.             *)
ManyAgree(m) ==
  /\ AnchorsAgree(m.parent) /\ HeadsAgree(m.parent)
  /\ AnchorsAgree(m.child) /\ HeadsAgree(m.child)
  /\ \A b \in Blocks : PParent(m, b) = Nil <=> PChild(m, b) = Nil
  /\ \A a, b \in Blocks :
       PParent(m, a) # Nil /\ PParent(m, a) = PParent(m, b) /\ PChild(m, a) = PChild(m, b) => a = b

(* The link of p and c is in both lists where the place says; nothing is   *)
(* said by an unknown hint.                                                *)
IsPlaced(m, p, c, place) ==
  LET l == Between(m, p, c)
  IN  /\ l # Nil
      /\ place.child.hint # "UNKNOWN" => InPlace(m.parent, p, l, ChildPlace(m, p, place))
      /\ InPlace(m.child, c, l, ParentPlace(m, c, place))
=============================================================================
