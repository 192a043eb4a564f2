---------------------------- MODULE Association ----------------------------
(***************************************************************************)
(* An association whose links clients make, move and undo                  *)
(* (core/ov/source/ov_association.c).  It is of one of three types: 1:n,   *)
(* with the pointers of module Links; n:m, with those of ManyLinks; and    *)
(* 1:1, where either object has a pointer to the other one.  Parents and   *)
(* children may overlap, but no object is linked to itself.                *)
(***************************************************************************)
EXTENDS ManyLinks

CONSTANT Name  (* v_identifier of each child                               *)

ASSUME AssociationAssumption == Children = DOMAIN Name /\ IsFiniteSet(Children)

VARIABLES
  assoctype,  (* the type of the association                               *)
  local,      (* does the association bind names (OV_AP_LOCAL)?            *)
  links,      (* 1:n: the heads and anchors                                *)
  pairs,      (* 1:1: the pointer of every parent and every child          *)
  many        (* n:m: the heads and anchors of both sides                  *)

vars == <<assoctype, local, links, pairs, many>>

(* The placements that clients ask for.                                    *)
Wanted ==
  Place(Children) \cup [parenthint : {"BEFORE", "UNKNOWN"}, hint : {"DEFAULT"}, rel : {Nil}]

(* ov_association_searchchild finds a child of that name.                  *)
NameTaken(p, n) == \E d \in ToSet(ChildrenOf(links, p)) : Name[d] = n

Clash(p, c) == local /\ NameTaken(p, Name[c])

Init ==
  /\ assoctype \in {"1:1", "1:n", "n:m"}
  /\ local \in BOOLEAN
  /\ links = Empty(Parents, Children)
  /\ pairs = [child |-> [p \in Parents |-> Nil], parent |-> [c \in Children |-> Nil]]
  /\ many = NoLinks

----------------------------------------------------------------------------
(* 1:n associations.  Each of the three is a whole call; the answer is     *)
(* LinkResult.                                                             *)
Link(p, c, place) ==
  /\ assoctype = "1:n"
  /\ p # c
  /\ links' = LinkOutcome(links, p, c, place, Clash(p, c))
  /\ UNCHANGED <<assoctype, local, pairs, many>>

(* Without a link between p and c nothing happens.                         *)
Unlink(p, c) ==
  /\ assoctype = "1:n"
  /\ links' = UnlinkOutcome(links, p, c)
  /\ UNCHANGED <<assoctype, local, pairs, many>>

(* dolink, which checks nothing: the meta model and createobject link a    *)
(* new object at the end, with a name that the parent does not have yet.   *)
DoLink(p, c) ==
  /\ assoctype = "1:n"
  /\ p # c
  /\ links.pparent[c] = Nil
  /\ ~Clash(p, c)
  /\ links' = Spliced(links, p, c, links.plast[p], Nil)
  /\ UNCHANGED <<assoctype, local, pairs, many>>

----------------------------------------------------------------------------
(* 1:1 associations: a link is refused if either has one, the same one     *)
(* included.  There are no places but those of the parent, which are one.  *)
PairResult(p, c, parenthint) ==
  CASE pairs.parent[c] # Nil \/ pairs.child[p] # Nil -> "ALREADYEXISTS"
    [] pairs.parent[c] = Nil /\ pairs.child[p] = Nil /\ parenthint \notin Simple -> "BADPLACEMENT"
    [] OTHER -> "OK"

LinkPair(p, c, parenthint) ==
  /\ assoctype = "1:1"
  /\ p # c
  /\ PairResult(p, c, parenthint) = "OK"
  /\ pairs' = [child |-> [pairs.child EXCEPT ![p] = c], parent |-> [pairs.parent EXCEPT ![c] = p]]
  /\ UNCHANGED <<assoctype, local, links, many>>

UnlinkPair(p, c) ==
  /\ assoctype = "1:1"
  /\ pairs.parent[c] = p
  /\ pairs' = [child |-> [pairs.child EXCEPT ![p] = Nil], parent |-> [pairs.parent EXCEPT ![c] = Nil]]
  /\ UNCHANGED <<assoctype, local, links, many>>

----------------------------------------------------------------------------
(* n:m associations.                                                       *)
LinkMany(p, c, place, b) ==
  /\ assoctype = "n:m"
  /\ p # c
  /\ many' = LinkAnswer(many, p, c, place, b).links
  /\ UNCHANGED <<assoctype, local, links, pairs>>

UnlinkMany(p, c) ==
  /\ assoctype = "n:m"
  /\ many' = WithoutLink(many, p, c)
  /\ UNCHANGED <<assoctype, local, links, pairs>>

----------------------------------------------------------------------------
Next ==
  \E p \in Parents, c \in Children :
    \/ Unlink(p, c) \/ DoLink(p, c) \/ \E place \in Wanted : Link(p, c, place)
    \/ UnlinkPair(p, c) \/ \E parenthint \in Hints : LinkPair(p, c, parenthint)
    \/ UnlinkMany(p, c)
    \/ \E b \in Available(many, p, c), place \in ManyPlaces : LinkMany(p, c, place, b)

Spec == Init /\ [][Next]_vars

----------------------------------------------------------------------------
Pairs == [child : [Parents -> Children \cup {Nil}], parent : [Children -> Parents \cup {Nil}]]

TypeOK ==
  /\ assoctype \in {"1:1", "1:n", "n:m"}
  /\ local \in BOOLEAN
  /\ links \in LinkTables(Parents, Children)
  /\ pairs \in Pairs
  /\ many \in ManyTables

(* The doubly linked lists are sound, whatever was linked, moved and       *)
(* unlinked before, and so are the pairs and both lists of n:m links.      *)
PointersAgree ==
  /\ AnchorsAgree(links) /\ HeadsAgree(links)
  /\ \A p \in Parents, c \in Children : pairs.child[p] = c <=> pairs.parent[c] = p
  /\ ManyAgree(many)

(* So they are, of the right classes, and only of these.                   *)
LinksSound == TypeOK /\ PointersAgree

(* A call that returns OK leaves the child where its placement hint says,  *)
(* also if the child was linked before and has to be moved.  In an n:m     *)
(* association it leaves the parent where its hint says, too (an unknown   *)
(* hint for the child of an existing link says nothing), and one that      *)
(* fails leaves all links as they were: what was removed to be moved is    *)
(* linked again.                                                           *)
OKMeansInPlace ==
  /\ assoctype = "1:n" => \A p \in Parents, c \in Children, place \in Wanted :
       LinkResult(links, p, c, place, Clash(p, c)) = "OK" =>
         LET after == LinkOutcome(links, p, c, place, Clash(p, c))
         IN  after.pparent[c] = p /\ InPlace(after, p, c, place)
  /\ assoctype = "n:m" => \A p \in Parents, c \in Children, place \in ManyPlaces :
       \A b \in Available(many, p, c) :
         LET after == LinkAnswer(many, p, c, place, b)
         IN  IF after.result = "OK" THEN IsPlaced(after.links, p, c, place)
             ELSE after.links = many

(* Iterating over the children of a parent finds each of them once.        *)
AllFound ==
  \A p \in Parents :
    /\ ToSet(ChildrenOf(links, p)) = {c \in Children : links.pparent[c] = p}
    /\ IsInjective(ChildrenOf(links, p))

Sequence(x) == IF x = Nil THEN <<>> ELSE <<x>>

Lists ==
  INSTANCE OrderedChildren
    WITH children <- [p \in Parents |->
                       CASE assoctype = "1:1" -> Sequence(pairs.child[p])
                         [] assoctype = "1:n" -> ChildrenOf(links, p)
                         [] assoctype = "n:m" -> ManyChildren(many, p)],
         parents <- [c \in Children |->
                       CASE assoctype = "1:1" -> Sequence(pairs.parent[c])
                         [] assoctype = "1:n" -> Sequence(links.pparent[c])
                         [] assoctype = "n:m" -> ManyParents(many, c)]

(* The pointers implement sequences of children and of parents.            *)
ImplementsSequences == Lists!Spec

(* A link of an n:m association that is moved in one of the two lists      *)
(* keeps its place in the other one, for which no place was asked.         *)
OtherSideKept ==
  assoctype = "n:m" =>
    \A p \in Parents, c \in Children : Between(many, p, c) # Nil =>
      \A place \in ManyPlaces, b \in Available(many, p, c) :
        LET after == LinkAnswer(many, p, c, place, b).links
        IN  /\ place.parent.hint = "DEFAULT" => ManyParents(after, c) = ManyParents(many, c)
            /\ place.child.hint = "DEFAULT" => ManyChildren(after, p) = ManyChildren(many, p)
=============================================================================
