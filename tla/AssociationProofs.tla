------------------------- MODULE AssociationProofs -------------------------
(***************************************************************************)
(* Theorems about associations of all three types (module Association),    *)
(* from the lemmas about what linking and unlinking do to the pointers of  *)
(* a list (Lemmas).                                                        *)
(***************************************************************************)
EXTENDS Association, Lemmas

(***************************************************************************)
(* The pointers of n:m associations (module ManyLinks), from the lemmas    *)
(* about each of the two lists that a link is in.                          *)
(***************************************************************************)

(* Both lists are sound, a block is in both or in none, and no two blocks  *)
(* link the same objects.                                                  *)
InBothOrNone(m) == \A b \in Blocks : PParent(m, b) = Nil <=> PChild(m, b) = Nil

OnePerPair(m) ==
  \A a, b \in Blocks :
    PParent(m, a) # Nil /\ PParent(m, a) = PParent(m, b) /\ PChild(m, a) = PChild(m, b) => a = b

ManySound(m) ==
  /\ m \in ManyTables
  /\ Sound(m.parent, Parents, Blocks) /\ Sound(m.child, Children, Blocks)
  /\ InBothOrNone(m) /\ OnePerPair(m)

LEMMA ManySoundAgrees ==
  ASSUME NEW m, ManySound(m)
  PROVE  m \in ManyTables /\ ManyAgree(m)
BY DEF ManySound, ManyAgree, Sound, InBothOrNone, OnePerPair

LEMMA Types ==
  ASSUME NEW m, ManySound(m)
  PROVE  /\ m.parent.pparent \in [Blocks -> Parents \cup {Nil}]
         /\ m.child.pparent \in [Blocks -> Children \cup {Nil}]
BY DEF ManySound, Sound, LinkTables

(* The search finds the link of two objects iff there is one.              *)
LEMMA BetweenFinds ==
  ASSUME NEW m, ManySound(m), NEW p \in Parents, NEW c \in Children
  PROVE  /\ Between(m, p, c) \in Blocks \cup {Nil}
         /\ Between(m, p, c) # Nil =>
              PParent(m, Between(m, p, c)) = p /\ PChild(m, Between(m, p, c)) = c
         /\ \A b \in Blocks : PParent(m, b) = p /\ PChild(m, b) = c => Between(m, p, c) = b
<1>1. Nil \notin Blocks /\ p # Nil
  BY ManyLinksAssumption
<1>2. CASE \E b \in Blocks : PParent(m, b) = p /\ PChild(m, b) = c
  <2>1. /\ Between(m, p, c) \in Blocks
        /\ PParent(m, Between(m, p, c)) = p /\ PChild(m, Between(m, p, c)) = c
    BY <1>2 DEF Between
  <2> QED
    BY <1>1, <2>1 DEF ManySound, OnePerPair
<1>3. CASE ~\E b \in Blocks : PParent(m, b) = p /\ PChild(m, b) = c
  BY <1>3 DEF Between
<1> QED
  BY <1>2, <1>3

----------------------------------------------------------------------------
(* Removing a link.                                                        *)
LEMMA WithoutIsSound ==
  ASSUME NEW m, ManySound(m), NEW p \in Parents, NEW c \in Children
  PROVE  LET n == WithoutLink(m, p, c)
         IN  /\ ManySound(n)
             /\ Between(n, p, c) = Nil
             /\ \A b \in Blocks : /\ PParent(n, b) = IF b = Between(m, p, c) THEN Nil ELSE PParent(m, b)
                                  /\ PChild(n, b) = IF b = Between(m, p, c) THEN Nil ELSE PChild(m, b)
<1> DEFINE n == WithoutLink(m, p, c)
           l == Between(m, p, c)
<1>1. Nil \notin Blocks /\ Nil \notin Parents /\ Nil \notin Children
  BY ManyLinksAssumption
<1>2. CASE l = Nil
  BY <1>1, <1>2 DEF WithoutLink
<1>3. CASE l # Nil
  <2>1. l \in Blocks /\ m.parent.pparent[l] = p /\ m.child.pparent[l] = c
    BY <1>3, BetweenFinds DEF PParent, PChild
  <2>2. n = [parent |-> Unlinked(m.parent, p, l), child |-> Unlinked(m.child, c, l)]
    BY <1>3 DEF WithoutLink, Removed
  <2> HIDE DEF n, l
  <2>3. Sound(m.parent, Parents, Blocks) /\ Sound(m.child, Children, Blocks)
    BY DEF ManySound
  <2>4. /\ Sound(n.parent, Parents, Blocks)
        /\ n.parent.pparent = [m.parent.pparent EXCEPT ![l] = Nil]
    BY <1>1, <2>1, <2>2, <2>3, UnlinkedSound
  <2>5. /\ Sound(n.child, Children, Blocks)
        /\ n.child.pparent = [m.child.pparent EXCEPT ![l] = Nil]
    BY <1>1, <2>1, <2>2, <2>3, UnlinkedSound
  <2>6. \A b \in Blocks : /\ PParent(n, b) = IF b = l THEN Nil ELSE PParent(m, b)
                          /\ PChild(n, b) = IF b = l THEN Nil ELSE PChild(m, b)
    BY <2>4, <2>5, Types DEF PParent, PChild
  <2>7. n \in ManyTables
    BY <2>2, <2>4, <2>5 DEF ManyTables, Sound
  <2>8. InBothOrNone(n)
    BY <2>6 DEF InBothOrNone, ManySound
  <2>9. OnePerPair(n)
    BY <2>6 DEF OnePerPair, ManySound
  <2>10. ManySound(n)
    BY <2>4, <2>5, <2>7, <2>8, <2>9 DEF ManySound
  <2>11. \A b \in Blocks : ~(PParent(n, b) = p /\ PChild(n, b) = c)
    BY <1>1, <2>6, BetweenFinds DEF l
  <2>12. Between(n, p, c) = Nil
    BY <2>11 DEF Between
  <2> QED
    BY <2>6, <2>10, <2>12 DEF n, l
<1> QED
  BY <1>2, <1>3

----------------------------------------------------------------------------
(* Making a link.                                                          *)

(* One of its lists: the place of a block there.                           *)
LEMMA PlacedOnOneSide ==
  ASSUME NEW P, NEW C, Nil \notin P \cup C, NEW l, Sound(l, P, C), NEW p \in P,
         NEW b \in C, l.pparent[b] = Nil,
         NEW half, half.hint \in Simple \cup Relative,
         NEW r, half.hint \in Relative => r \in C /\ l.pparent[r] = p
  PROVE  LET n == Placed(l, p, b, InList(half, r))
         IN  /\ Sound(n, P, C)
             /\ n.pparent = [l.pparent EXCEPT ![b] = p]
             /\ InPlace(n, p, b, InList(half, r))
<1> DEFINE place == InList(half, r)
           n == Placed(l, p, b, place)
<1>1. place \in Known(C) /\ place.hint = half.hint
  BY DEF InList, Known, Relative, Simple
<1>2. place.hint \in Relative => place.rel = r /\ r # b /\ l.pparent[place.rel] = p
  BY <1>1 DEF InList
<1>3. n.pparent = [l.pparent EXCEPT ![b] = p]
  BY DEF Placed, Spliced
<1> HIDE DEF place
<1>4. Adjacent(l, p, Predecessor(l, p, place), Successor(l, p, place))
  BY <1>1, <1>2, PlaceAdjacent
<1>5. Sound(n, P, C)
  BY <1>4, SplicedSound DEF Placed
<1>6. InPlace(n, p, b, place)
  BY <1>1, <1>2, PlacedInPlace
<1> QED
  BY <1>3, <1>5, <1>6 DEF place

(* A half place of a client, or one that a default was replaced by.        *)
Half(half, Objects) ==
  /\ half.hint \in Hints
  /\ half.hint \in Relative => half.rel \in Objects

LEMMA FreshIsSound ==
  ASSUME NEW m, ManySound(m), NEW p \in Parents, NEW c \in Children, Between(m, p, c) = Nil,
         NEW place, Half(place.parent, Parents), Half(place.child, Children),
         NEW b \in Allocated(m)
  PROVE  LET a == Fresh(m, p, c, place, b)
         IN  /\ ManySound(a.links)
             /\ a.result = "OK" => IsPlaced(a.links, p, c, place)
             /\ a.result # "OK" => a.links = m
             /\ a.result = "OK" <=> ~Misplaced(m, p, c, place) /\ b # Nil
<1> DEFINE a == Fresh(m, p, c, place, b)
           cp == Between(m, p, place.child.rel)
           pp == Between(m, place.parent.rel, c)
<1>1. Nil \notin Blocks /\ Nil \notin Parents /\ Nil \notin Children
  BY ManyLinksAssumption
<1>2. CASE Misplaced(m, p, c, place) \/ b = Nil
  BY <1>2 DEF Fresh, Answer
<1>3. CASE ~Misplaced(m, p, c, place) /\ b # Nil
  <2> DEFINE n == [parent |-> Placed(m.parent, p, b, InList(place.child, cp)),
                   child  |-> Placed(m.child, c, b, InList(place.parent, pp))]
  <2>1. a = [result |-> "OK", links |-> n]
    BY <1>3 DEF Fresh, Answer, ChildPlace, ParentPlace
  <2>2. b \in Blocks /\ PParent(m, b) = Nil /\ PChild(m, b) = Nil
    BY <1>3 DEF Allocated, Free, ManySound, InBothOrNone
  <2>3. place.child.hint \in Relative =>
          /\ place.child.rel \in Children /\ cp \in Blocks
          /\ PParent(m, cp) = p /\ PChild(m, cp) = place.child.rel
    BY <1>3, BetweenFinds DEF Half, Misplaced
  <2>4. place.parent.hint \in Relative =>
          /\ place.parent.rel \in Parents /\ pp \in Blocks
          /\ PParent(m, pp) = place.parent.rel /\ PChild(m, pp) = c
    BY <1>3, BetweenFinds DEF Half, Misplaced
  <2> HIDE DEF cp, pp
  <2>16. place.child.hint \in Simple \cup Relative /\ place.parent.hint \in Simple \cup Relative
    BY <1>3 DEF Half, Hints, Misplaced
  <2>5. /\ Sound(n.parent, Parents, Blocks)
        /\ n.parent.pparent = [m.parent.pparent EXCEPT ![b] = p]
        /\ InPlace(n.parent, p, b, InList(place.child, cp))
    BY <1>1, <2>2, <2>3, <2>16, PlacedOnOneSide DEF ManySound, PParent
  <2>6. /\ Sound(n.child, Children, Blocks)
        /\ n.child.pparent = [m.child.pparent EXCEPT ![b] = c]
        /\ InPlace(n.child, c, b, InList(place.parent, pp))
    BY <1>1, <2>2, <2>4, <2>16, PlacedOnOneSide DEF ManySound, PChild
  <2>7. n \in ManyTables
    BY <2>5, <2>6 DEF ManyTables, Sound
  <2> HIDE DEF n
  <2>8. \A d \in Blocks : /\ PParent(n, d) = IF d = b THEN p ELSE PParent(m, d)
                          /\ PChild(n, d) = IF d = b THEN c ELSE PChild(m, d)
    BY <2>5, <2>6, Types DEF PParent, PChild
  <2>9. \A d \in Blocks : ~(PParent(m, d) = p /\ PChild(m, d) = c)
    BY <1>1, BetweenFinds
  <2>10. ManySound(n)
    <3>1. InBothOrNone(n)
      BY <1>1, <2>8 DEF InBothOrNone, ManySound
    <3>2. OnePerPair(n)
      BY <2>8, <2>9 DEF OnePerPair, ManySound
    <3> QED
      BY <2>5, <2>6, <2>7, <3>1, <3>2 DEF ManySound
  <2>11. Between(n, p, c) = b
    BY <2>2, <2>8, <2>10, BetweenFinds
  <2>12. place.child.hint \in Relative => Between(n, p, place.child.rel) = cp
    BY <2>2, <2>3, <2>8, <2>10, <1>1, BetweenFinds
  <2>13. place.parent.hint \in Relative => Between(n, place.parent.rel, c) = pp
    BY <2>2, <2>4, <2>8, <2>10, <1>1, BetweenFinds
  <2>14. /\ ChildPlace(n, p, place) = InList(place.child, cp)
         /\ ParentPlace(n, c, place) = InList(place.parent, pp)
    BY <2>12, <2>13 DEF ChildPlace, ParentPlace, InList
  <2>15. IsPlaced(n, p, c, place)
    BY <1>3, <2>5, <2>6, <2>11, <2>14 DEF IsPlaced
  <2> QED
    BY <1>3, <2>1, <2>10, <2>15
<1> QED
  BY <1>2, <1>3

----------------------------------------------------------------------------
(* Moving a link.                                                          *)

(* A link that stays is in place, for module Links.                        *)
LEMMA StaysIsInPlace ==
  ASSUME NEW P, NEW C, Nil \notin P \cup C, NEW l, Sound(l, P, C), NEW p \in P,
         NEW b \in C, l.pparent[b] = p,
         NEW half, half.hint # "UNKNOWN", NEW others, Stays(l, others, b, half),
         NEW r, \A d \in C : l.pparent[d] = p /\ others[d] = half.rel => r = d
  PROVE  InPlace(l, p, b, InList(half, r))
<1>1. l \in LinkTables(P, C) /\ p # Nil /\ b # Nil
  BY DEF Sound
<1>2. InList(half, r).hint = half.hint /\ (half.hint \in Relative => InList(half, r).rel = r)
  BY DEF InList
<1>3. CASE half.hint = "BEGIN"
  BY <1>1, <1>2, <1>3 DEF Stays, InPlace, Sound, HeadsAgree, LinkTables
<1>4. CASE half.hint = "END"
  BY <1>1, <1>2, <1>4 DEF Stays, InPlace, Sound, HeadsAgree, LinkTables
<1>5. CASE half.hint = "BEFORE"
  <2> DEFINE d == l.pnext[b]
  <2>1. d # Nil /\ others[d] = half.rel
    BY <1>5 DEF Stays
  <2>2. d \in C /\ l.pprevious[d] = b /\ l.pparent[d] = p
    BY <1>1, <2>1 DEF Sound, AnchorsAgree, LinkTables
  <2>3. r = d /\ d # Nil
    BY <2>1, <2>2
  <2> QED
    BY <1>2, <1>5, <2>2, <2>3 DEF InPlace, Previous, Relative
<1>6. CASE half.hint = "AFTER"
  <2> DEFINE d == l.pprevious[b]
  <2>1. d # Nil /\ others[d] = half.rel
    BY <1>6 DEF Stays
  <2>2. d \in C /\ l.pnext[d] = b /\ l.pparent[d] = p
    BY <1>1, <2>1 DEF Sound, AnchorsAgree, LinkTables
  <2>3. r = d /\ d # Nil
    BY <2>1, <2>2
  <2> QED
    BY <1>2, <1>6, <2>2, <2>3 DEF InPlace, PNext, Relative
<1>7. CASE half.hint \notin {"BEGIN", "END", "BEFORE", "AFTER"}
  BY <1>2, <1>7 DEF InPlace
<1> QED
  BY <1>3, <1>4, <1>5, <1>6, <1>7

(* A link that stays in both lists is where the place says.                *)
LEMMA StayingIsPlaced ==
  ASSUME NEW m, ManySound(m), NEW p \in Parents, NEW c \in Children, Between(m, p, c) # Nil,
         NEW place, Half(place.parent, Parents), Half(place.child, Children),
         StaysInBoth(m, Between(m, p, c), place)
  PROVE  IsPlaced(m, p, c, place)
<1> DEFINE l == Between(m, p, c)
           cp == Between(m, p, place.child.rel)
           pp == Between(m, place.parent.rel, c)
<1>1. Nil \notin Blocks /\ Nil \notin Parents /\ Nil \notin Children
  BY ManyLinksAssumption
<1>2. l \in Blocks /\ m.parent.pparent[l] = p /\ m.child.pparent[l] = c
  BY BetweenFinds DEF PParent, PChild
<1>3. Sound(m.parent, Parents, Blocks) /\ Sound(m.child, Children, Blocks)
  BY DEF ManySound
<1> HIDE DEF l
<1>4. ASSUME place.child.hint # "UNKNOWN"
      PROVE  InPlace(m.parent, p, l, InList(place.child, cp))
  <2>1. CASE place.child.hint = "DEFAULT"
    BY <2>1 DEF InPlace, InList
  <2>2. CASE place.child.hint # "DEFAULT"
    <3>1. Stays(m.parent, m.child.pparent, l, place.child)
      BY <2>2 DEF StaysInBoth, l
    <3>2. CASE place.child.hint \in Relative
      <4>1. \A d \in Blocks : m.parent.pparent[d] = p /\ m.child.pparent[d] = place.child.rel => cp = d
        BY <3>2, BetweenFinds DEF Half, PParent, PChild
      <4> HIDE DEF cp
      <4> QED
        BY <1>1, <1>2, <1>3, <1>4, <3>1, <4>1, StaysIsInPlace
    <3>3. CASE place.child.hint \notin Relative
      <4>1. place.child.hint \in {"BEGIN", "END"}
        BY <1>4, <2>2, <3>3 DEF Half, Hints, Simple
      <4> QED
        BY <1>1, <1>2, <1>3, <3>1, <4>1
           DEF Stays, InList, InPlace, Sound, HeadsAgree, LinkTables
    <3> QED
      BY <3>2, <3>3
  <2> QED
    BY <2>1, <2>2
<1>6. place.parent.hint # "UNKNOWN"
  BY DEF StaysInBoth
<1>5. InPlace(m.child, c, l, InList(place.parent, pp))
  <2>1. CASE place.parent.hint = "DEFAULT"
    BY <2>1 DEF InPlace, InList
  <2>2. CASE place.parent.hint # "DEFAULT"
    <3>1. Stays(m.child, m.parent.pparent, l, place.parent)
      BY <2>2 DEF StaysInBoth, l
    <3>2. CASE place.parent.hint \in Relative
      <4>1. \A d \in Blocks : m.child.pparent[d] = c /\ m.parent.pparent[d] = place.parent.rel => pp = d
        BY <3>2, BetweenFinds DEF Half, PParent, PChild
      <4> HIDE DEF pp
      <4> QED
        BY <1>1, <1>2, <1>3, <1>6, <3>1, <4>1, StaysIsInPlace
    <3>3. CASE place.parent.hint \notin Relative
      <4>1. place.parent.hint \in {"BEGIN", "END"}
        BY <1>6, <2>2, <3>3 DEF Half, Hints, Simple
      <4> QED
        BY <1>1, <1>2, <1>3, <3>1, <4>1
           DEF Stays, InList, InPlace, Sound, HeadsAgree, LinkTables
    <3> QED
      BY <3>2, <3>3
  <2> QED
    BY <2>1, <2>2
<1> QED
  BY <1>4, <1>5 DEF IsPlaced, ChildPlace, ParentPlace, l

(* A default is replaced by the place behind another link of the list, or  *)
(* by the first one.                                                       *)
LEMMA KeptPlaces ==
  ASSUME NEW P, NEW C, Nil \notin P \cup C, NEW l, Sound(l, P, C),
         NEW b \in C, l.pparent[b] # Nil, NEW half, NEW others
  PROVE  LET kept == Kept(l, others, b, half)
         IN  IF half.hint # "DEFAULT" THEN kept = half
             ELSE \/ kept.hint = "BEGIN"
                  \/ /\ kept.hint = "AFTER"
                     /\ \E d \in C : /\ d # b /\ l.pparent[d] = l.pparent[b]
                                     /\ kept.rel = others[d]
<1>1. l \in LinkTables(P, C)
  BY DEF Sound
<1>2. CASE half.hint # "DEFAULT"
  BY <1>2 DEF Kept
<1>3. CASE half.hint = "DEFAULT" /\ l.pprevious[b] # Nil
  <2> DEFINE d == l.pprevious[b]
  <2>1. d \in C /\ l.pnext[d] = b /\ l.pparent[d] = l.pparent[b]
    BY <1>1, <1>3 DEF Sound, AnchorsAgree, LinkTables
  <2>2. d # b
    <3>1. PICK rank \in [C -> Nat] : \A e \in C : l.pnext[e] # Nil => rank[e] < rank[l.pnext[e]]
      BY <1>1 DEF Sound, Acyclic, Ranks, LinkTables
    <3>2. rank[b] \in Nat
      OBVIOUS
    <3> QED
      BY <2>1, <3>1, <3>2
  <2>3. Kept(l, others, b, half) = [hint |-> "AFTER", rel |-> others[d]]
    BY <1>3 DEF Kept
  <2> QED
    BY <1>3, <2>1, <2>2, <2>3
<1>4. CASE half.hint = "DEFAULT" /\ l.pprevious[b] = Nil
  BY <1>4 DEF Kept
<1> QED
  BY <1>2, <1>3, <1>4

LEMMA KeptIsKnown ==
  ASSUME NEW l, NEW others, NEW b, NEW half, half.hint # "UNKNOWN"
  PROVE  Kept(l, others, b, half).hint # "UNKNOWN"
BY DEF Kept

(* What a default was replaced by is a place, too.                         *)
LEMMA KeptHalf ==
  ASSUME NEW m, ManySound(m), NEW p \in Parents, NEW c \in Children, Between(m, p, c) # Nil,
         NEW place, Half(place.parent, Parents), Half(place.child, Children)
  PROVE  LET kept == KeptPlace(m, Between(m, p, c), place)
         IN  Half(kept.parent, Parents) /\ Half(kept.child, Children)
<1> DEFINE l == Between(m, p, c)
           kept == KeptPlace(m, l, place)
<1>1. Nil \notin Parents \cup Blocks /\ Nil \notin Children \cup Blocks
  BY ManyLinksAssumption
<1>2. l \in Blocks /\ m.parent.pparent[l] = p /\ m.child.pparent[l] = c /\ p # Nil /\ c # Nil
  BY <1>1, BetweenFinds DEF PParent, PChild
<1>3. /\ Sound(m.parent, Parents, Blocks) /\ Sound(m.child, Children, Blocks)
      /\ \A d \in Blocks : m.child.pparent[d] # Nil => m.parent.pparent[d] \in Parents
      /\ \A d \in Blocks : m.parent.pparent[d] # Nil => m.child.pparent[d] \in Children
  BY Types DEF ManySound, InBothOrNone, PParent, PChild
<1> HIDE DEF l
<1>4. Half(kept.parent, Parents)
  <2> DEFINE k == Kept(m.child, m.parent.pparent, l, place.parent)
  <2>1. IF place.parent.hint # "DEFAULT" THEN k = place.parent
        ELSE \/ k.hint = "BEGIN"
             \/ /\ k.hint = "AFTER"
                /\ \E d \in Blocks : /\ d # l /\ m.child.pparent[d] = m.child.pparent[l]
                                     /\ k.rel = m.parent.pparent[d]
    BY <1>1, <1>2, <1>3, KeptPlaces
  <2> HIDE DEF k
  <2>2. Half(k, Parents)
    BY <1>2, <1>3, <2>1 DEF Half, Hints, Simple, Relative
  <2> QED
    BY <2>2 DEF KeptPlace, k
<1>5. Half(kept.child, Children)
  <2> DEFINE k == Kept(m.parent, m.child.pparent, l, place.child)
  <2>1. IF place.child.hint # "DEFAULT" THEN k = place.child
        ELSE \/ k.hint = "BEGIN"
             \/ /\ k.hint = "AFTER"
                /\ \E d \in Blocks : /\ d # l /\ m.parent.pparent[d] = m.parent.pparent[l]
                                     /\ k.rel = m.child.pparent[d]
    BY <1>1, <1>2, <1>3, KeptPlaces
  <2> HIDE DEF k
  <2>2. Half(k, Children)
    BY <1>2, <1>3, <2>1 DEF Half, Hints, Simple, Relative
  <2> QED
    BY <2>2 DEF KeptPlace, k
<1> QED
  BY <1>4, <1>5 DEF l

(* What is known when link has removed the link that it is to move: its    *)
(* call of itself finds all that the place refers to, and a free block.    *)
LEMMA MovedIsPlaced ==
  ASSUME NEW m, ManySound(m), NEW p \in Parents, NEW c \in Children, Between(m, p, c) # Nil,
         NEW place, Half(place.parent, Parents), Half(place.child, Children),
         ~Misplaced(m, p, c, place), ~AboutItself(p, c, place),
         NEW b \in Available(m, p, c)
  PROVE  LET a == Fresh(WithoutLink(m, p, c), p, c, KeptPlace(m, Between(m, p, c), place), b)
         IN  a.result = "OK" /\ ManySound(a.links) /\ IsPlaced(a.links, p, c, place)
<1> DEFINE l == Between(m, p, c)
           n == WithoutLink(m, p, c)
           kept == KeptPlace(m, l, place)
           a == Fresh(n, p, c, kept, b)
<1>1. Nil \notin Blocks /\ Nil \notin Parents /\ Nil \notin Children
  BY ManyLinksAssumption
<1>2. l \in Blocks /\ m.parent.pparent[l] = p /\ m.child.pparent[l] = c
  BY BetweenFinds DEF PParent, PChild
<1>3. /\ ManySound(n) /\ Between(n, p, c) = Nil
      /\ \A d \in Blocks : /\ PParent(n, d) = IF d = l THEN Nil ELSE PParent(m, d)
                           /\ PChild(n, d) = IF d = l THEN Nil ELSE PChild(m, d)
  BY WithoutIsSound
<1>4. /\ Sound(m.parent, Parents, Blocks) /\ Sound(m.child, Children, Blocks)
      /\ \A d \in Blocks : m.child.pparent[d] # Nil => m.parent.pparent[d] \in Parents
      /\ \A d \in Blocks : m.parent.pparent[d] # Nil => m.child.pparent[d] \in Children
  BY Types DEF ManySound, InBothOrNone, PParent, PChild
<1> HIDE DEF l, n
<1>5. /\ Half(kept.parent, Parents)
      /\ place.parent.hint # "DEFAULT" => kept.parent = place.parent
      /\ place.parent.hint = "DEFAULT" /\ kept.parent.hint \in Relative =>
           \E d \in Blocks : d # l /\ m.child.pparent[d] = c /\ kept.parent.rel = m.parent.pparent[d]
  <2>1. kept.parent = Kept(m.child, m.parent.pparent, l, place.parent)
    BY DEF KeptPlace
  <2>2. IF place.parent.hint # "DEFAULT" THEN kept.parent = place.parent
        ELSE \/ kept.parent.hint = "BEGIN"
             \/ /\ kept.parent.hint = "AFTER"
                /\ \E d \in Blocks : /\ d # l /\ m.child.pparent[d] = m.child.pparent[l]
                                     /\ kept.parent.rel = m.parent.pparent[d]
    BY <1>1, <1>2, <1>4, <2>1, KeptPlaces
  <2> QED
    BY <1>1, <1>2, <1>4, <2>2 DEF Half, Hints, Simple, Relative
<1>6. /\ Half(kept.child, Children)
      /\ place.child.hint # "DEFAULT" => kept.child = place.child
      /\ place.child.hint = "DEFAULT" /\ kept.child.hint \in Relative =>
           \E d \in Blocks : d # l /\ m.parent.pparent[d] = p /\ kept.child.rel = m.child.pparent[d]
  <2>1. kept.child = Kept(m.parent, m.child.pparent, l, place.child)
    BY DEF KeptPlace
  <2>2. IF place.child.hint # "DEFAULT" THEN kept.child = place.child
        ELSE \/ kept.child.hint = "BEGIN"
             \/ /\ kept.child.hint = "AFTER"
                /\ \E d \in Blocks : /\ d # l /\ m.parent.pparent[d] = m.parent.pparent[l]
                                     /\ kept.child.rel = m.child.pparent[d]
    BY <1>1, <1>2, <1>4, <2>1, KeptPlaces
  <2> QED
    BY <1>1, <1>2, <1>4, <2>2 DEF Half, Hints, Simple, Relative
<1> HIDE DEF kept
<1>7. kept.parent.hint \in Relative => Between(n, kept.parent.rel, c) # Nil
  <2>1. ASSUME kept.parent.hint \in Relative
        PROVE  \E d \in Blocks : d # l /\ PChild(m, d) = c /\ PParent(m, d) = kept.parent.rel
    <3>1. CASE place.parent.hint = "DEFAULT"
      BY <1>5, <2>1, <3>1 DEF PParent, PChild
    <3>2. CASE place.parent.hint # "DEFAULT"
      <4>1. /\ kept.parent = place.parent /\ place.parent.rel \in Parents
            /\ place.parent.rel # p /\ Between(m, place.parent.rel, c) # Nil
        BY <1>5, <2>1, <3>2 DEF Misplaced, AboutItself, Half
      <4> QED
        BY <1>2, <4>1, BetweenFinds DEF PParent, PChild
    <3> QED
      BY <3>1, <3>2
  <2>2. kept.parent.hint \in Relative => kept.parent.rel \in Parents
    BY <1>5 DEF Half
  <2> QED
    BY <1>1, <1>3, <2>1, <2>2, BetweenFinds
<1>8. kept.child.hint \in Relative => Between(n, p, kept.child.rel) # Nil
  <2>1. ASSUME kept.child.hint \in Relative
        PROVE  \E d \in Blocks : d # l /\ PParent(m, d) = p /\ PChild(m, d) = kept.child.rel
    <3>1. CASE place.child.hint = "DEFAULT"
      BY <1>6, <2>1, <3>1 DEF PParent, PChild
    <3>2. CASE place.child.hint # "DEFAULT"
      <4>1. /\ kept.child = place.child /\ place.child.rel \in Children
            /\ place.child.rel # c /\ Between(m, p, place.child.rel) # Nil
        BY <1>6, <2>1, <3>2 DEF Misplaced, AboutItself, Half
      <4> QED
        BY <1>2, <4>1, BetweenFinds DEF PParent, PChild
    <3> QED
      BY <3>1, <3>2
  <2>2. kept.child.hint \in Relative => kept.child.rel \in Children
    BY <1>6 DEF Half
  <2> QED
    BY <1>1, <1>3, <2>1, <2>2, BetweenFinds
<1>9. ~Misplaced(n, p, c, kept)
  <2>1. place.parent.hint # "UNKNOWN" /\ place.child.hint # "UNKNOWN"
    BY DEF Misplaced
  <2>2. kept.parent.hint # "UNKNOWN" /\ kept.child.hint # "UNKNOWN"
    BY <2>1, KeptIsKnown DEF KeptPlace, kept
  <2> QED
    BY <1>7, <1>8, <2>2 DEF Misplaced
<1>10. b \in Allocated(n) /\ b # Nil
  <2>1. b \in Allocated(n)
    BY DEF Available, n
  <2>2. l \in Free(n)
    BY <1>2, <1>3 DEF Free
  <2> QED
    BY <1>1, <2>1, <2>2 DEF Allocated, Free
<1>11. a.result = "OK" /\ ManySound(a.links) /\ IsPlaced(a.links, p, c, kept)
  BY <1>3, <1>5, <1>6, <1>9, <1>10, FreshIsSound
<1> HIDE DEF a
<1>12. IsPlaced(a.links, p, c, place)
  <2> DEFINE e == Between(a.links, p, c)
  <2>1. e # Nil
    BY <1>11 DEF IsPlaced
  <2>2. InPlace(a.links.parent, p, e, ChildPlace(a.links, p, place))
    <3>0. place.child.hint # "UNKNOWN"
      BY DEF Misplaced
    <3>1. CASE place.child.hint = "DEFAULT"
      BY <3>1 DEF InPlace, ChildPlace, InList
    <3>2. CASE place.child.hint # "DEFAULT"
      BY <1>6, <1>11, <3>0, <3>2 DEF IsPlaced, ChildPlace
    <3> QED
      BY <3>1, <3>2
  <2>3. InPlace(a.links.child, c, e, ParentPlace(a.links, c, place))
    <3>1. CASE place.parent.hint = "DEFAULT"
      BY <3>1 DEF InPlace, ParentPlace, InList
    <3>2. CASE place.parent.hint # "DEFAULT"
      BY <1>5, <1>11, <3>2 DEF IsPlaced, ParentPlace
    <3> QED
      BY <3>1, <3>2
  <2> QED
    BY <2>1, <2>2, <2>3 DEF IsPlaced
<1> QED
  BY <1>11, <1>12 DEF a, kept, l, n

(* Whatever is asked for, link leaves the pointers sound; it has done what *)
(* it says OK to, and nothing at all otherwise.                            *)
LEMMA LinkAnswered ==
  ASSUME NEW m, ManySound(m), NEW p \in Parents, NEW c \in Children,
         NEW place \in ManyPlaces, NEW b \in Available(m, p, c)
  PROVE  LET a == LinkAnswer(m, p, c, place, b)
         IN  /\ ManySound(a.links)
             /\ a.result = "OK" => IsPlaced(a.links, p, c, place)
             /\ a.result # "OK" => a.links = m
<1>1. Half(place.parent, Parents) /\ Half(place.child, Children)
  BY DEF ManyPlaces, HalfPlaces, Half, Hints, Relative, Simple
<1>2. CASE Between(m, p, c) = Nil
  <2>1. b \in Allocated(m)
    BY <1>2 DEF Available, WithoutLink
  <2> QED
    BY <1>1, <1>2, <2>1, FreshIsSound DEF LinkAnswer
<1>3. CASE Between(m, p, c) # Nil /\ StaysInBoth(m, Between(m, p, c), place)
  BY <1>1, <1>3, StayingIsPlaced DEF LinkAnswer, Answer
<1>4. CASE /\ Between(m, p, c) # Nil /\ ~StaysInBoth(m, Between(m, p, c), place)
           /\ Misplaced(m, p, c, place) \/ AboutItself(p, c, place)
  BY <1>4 DEF LinkAnswer, Answer
<1>5. CASE /\ Between(m, p, c) # Nil /\ ~StaysInBoth(m, Between(m, p, c), place)
           /\ ~Misplaced(m, p, c, place) /\ ~AboutItself(p, c, place)
  BY <1>1, <1>5, MovedIsPlaced DEF LinkAnswer
<1> QED
  BY <1>2, <1>3, <1>4, <1>5

----------------------------------------------------------------------------
PairsSound ==
  /\ pairs \in Pairs
  /\ \A p \in Parents, c \in Children : pairs.child[p] = c <=> pairs.parent[c] = p

IInv ==
  /\ assoctype \in {"1:1", "1:n", "n:m"} /\ local \in BOOLEAN
  /\ Sound(links, Parents, Children)
  /\ PairsSound
  /\ ManySound(many)

----------------------------------------------------------------------------
LEMMA InitSound == Init => IInv
<1> SUFFICES ASSUME Init PROVE IInv
  OBVIOUS
<1>1. Nil \notin Parents \cup Children /\ Nil \notin Parents \cup Blocks /\ Nil \notin Children \cup Blocks
  BY ManyLinksAssumption
<1>2. Sound(links, Parents, Children)
  BY <1>1, EmptyIsSound DEF Init
<1>3. PairsSound
  BY <1>1 DEF Init, PairsSound, Pairs
<1>4. ManySound(many)
  <2>1. many = [parent |-> Empty(Parents, Blocks), child |-> Empty(Children, Blocks)]
    BY DEF Init, NoLinks
  <2>2. Sound(many.parent, Parents, Blocks) /\ Sound(many.child, Children, Blocks)
    BY <1>1, <2>1, EmptyIsSound
  <2>3. many \in ManyTables
    BY <2>1, <2>2 DEF ManyTables, Sound
  <2>4. \A b \in Blocks : PParent(many, b) = Nil /\ PChild(many, b) = Nil
    BY <2>1 DEF PParent, PChild, Empty
  <2> QED
    BY <2>2, <2>3, <2>4 DEF ManySound, InBothOrNone, OnePerPair
<1> QED
  BY <1>2, <1>3, <1>4 DEF Init, IInv

LEMMA NextSound == IInv /\ [Next]_vars => IInv'
<1> SUFFICES ASSUME IInv, [Next]_vars
             PROVE  IInv'
  OBVIOUS
<1>0. /\ Nil \notin Parents /\ Nil \notin Children /\ Nil \notin Parents \cup Children
      /\ Sound(links, Parents, Children) /\ PairsSound /\ ManySound(many)
  BY ManyLinksAssumption DEF IInv
<1>1. ASSUME NEW p \in Parents, NEW c \in Children, NEW place \in Wanted, Link(p, c, place)
      PROVE  IInv'
  <2>1. IsKnown(place) => place \in Known(Children)
    BY DEF Wanted, Place, IsKnown, Simple
  <2>2. Sound(links', Parents, Children)
    BY <1>0, <1>1, <2>1, LinkSound DEF Link
  <2> QED
    BY <1>1, <2>2 DEF IInv, Link, PairsSound
<1>2. ASSUME NEW p \in Parents, NEW c \in Children, Unlink(p, c)
      PROVE  IInv'
  <2>1. Sound(links', Parents, Children)
    BY <1>0, <1>2, UnlinkedSound DEF Unlink, UnlinkOutcome
  <2> QED
    BY <1>2, <2>1 DEF IInv, Unlink, PairsSound
<1>3. ASSUME NEW p \in Parents, NEW c \in Children, DoLink(p, c)
      PROVE  IInv'
  <2>1. Adjacent(links, p, links.plast[p], Nil)
    BY <1>0 DEF Adjacent, Sound, LinkTables, HeadsAgree, HeadsPaired
  <2>2. Sound(links', Parents, Children)
    BY <1>0, <1>3, <2>1, SplicedSound DEF DoLink
  <2> QED
    BY <1>3, <2>2 DEF IInv, DoLink, PairsSound
<1>4. ASSUME NEW p \in Parents, NEW c \in Children, NEW parenthint \in Hints, LinkPair(p, c, parenthint)
      PROVE  IInv'
  <2>1. pairs.parent[c] = Nil /\ pairs.child[p] = Nil
    BY <1>4 DEF LinkPair, PairResult
  <2>2. PairsSound'
    BY <1>0, <1>4, <2>1 DEF LinkPair, PairsSound, Pairs
  <2> QED
    BY <1>4, <2>2 DEF IInv, LinkPair
<1>5. ASSUME NEW p \in Parents, NEW c \in Children, UnlinkPair(p, c)
      PROVE  IInv'
  <2>1. PairsSound'
    BY <1>0, <1>5 DEF UnlinkPair, PairsSound, Pairs
  <2> QED
    BY <1>5, <2>1 DEF IInv, UnlinkPair
<1>6. ASSUME NEW p \in Parents, NEW c \in Children, NEW place \in ManyPlaces,
             NEW b \in Available(many, p, c), LinkMany(p, c, place, b)
      PROVE  IInv'
  <2>1. ManySound(many')
    BY <1>0, <1>6, LinkAnswered DEF LinkMany
  <2> QED
    BY <1>6, <2>1 DEF IInv, LinkMany, PairsSound
<1>7. ASSUME NEW p \in Parents, NEW c \in Children, UnlinkMany(p, c)
      PROVE  IInv'
  <2>1. ManySound(many')
    BY <1>0, <1>7, WithoutIsSound DEF UnlinkMany
  <2> QED
    BY <1>7, <2>1 DEF IInv, UnlinkMany, PairsSound
<1>8. CASE UNCHANGED vars
  BY <1>8 DEF vars, IInv, PairsSound
<1> QED
  BY <1>1, <1>2, <1>3, <1>4, <1>5, <1>6, <1>7, <1>8 DEF Next

----------------------------------------------------------------------------
(* The doubly linked lists are sound and the pairs agree, whatever was     *)
(* linked, moved and unlinked before, for every number of objects.         *)
THEOREM PointersAreSound == Spec => []PointersAgree
<1>1. IInv => PointersAgree
  BY ManySoundAgrees DEF IInv, Sound, PairsSound, PointersAgree
<1> QED
  BY InitSound, NextSound, <1>1, PTL DEF Spec

(* All pointers point to objects of their class, or to blocks.             *)
THEOREM LinksTypeCorrect == Spec => []TypeOK
<1>1. IInv => TypeOK
  BY ManySoundAgrees DEF IInv, Sound, PairsSound, TypeOK
<1> QED
  BY InitSound, NextSound, <1>1, PTL DEF Spec

(* Both together: of the right classes, and in agreement.                  *)
THEOREM LinksAreSound == Spec => []LinksSound
<1>1. TypeOK /\ PointersAgree => LinksSound
  BY DEF LinksSound
<1> QED
  BY PointersAreSound, LinksTypeCorrect, <1>1, PTL

(* A call that returns OK leaves the child where its placement hint says,  *)
(* also if it was linked before and has to be moved; in an n:m association *)
(* one that fails has changed nothing.                                     *)
THEOREM OKIsInPlace == Spec => []OKMeansInPlace
<1>1. IInv => OKMeansInPlace
  <2> SUFFICES ASSUME IInv
               PROVE  OKMeansInPlace
    OBVIOUS
  <2>1. Nil \notin Parents \cup Children /\ Sound(links, Parents, Children) /\ ManySound(many)
    BY ManyLinksAssumption DEF IInv
  <2>2. ASSUME NEW p \in Parents, NEW c \in Children, NEW place \in Wanted,
               LinkResult(links, p, c, place, Clash(p, c)) = "OK"
        PROVE  LET after == LinkOutcome(links, p, c, place, Clash(p, c))
               IN  after.pparent[c] = p /\ InPlace(after, p, c, place)
    <3>1. IsKnown(place) => place \in Known(Children)
      BY DEF Wanted, Place, IsKnown, Simple
    <3> QED
      BY <2>1, <2>2, <3>1, LinkDone
  <2>3. ASSUME NEW p \in Parents, NEW c \in Children, NEW place \in ManyPlaces,
               NEW b \in Available(many, p, c)
        PROVE  LET after == LinkAnswer(many, p, c, place, b)
               IN  IF after.result = "OK" THEN IsPlaced(after.links, p, c, place)
                   ELSE after.links = many
    BY <2>1, LinkAnswered
  <2> QED
    BY <2>2, <2>3 DEF OKMeansInPlace
<1> QED
  BY InitSound, NextSound, <1>1, PTL DEF Spec

----------------------------------------------------------------------------
(* No element of s occurs twice.                                           *)
NoTwice(s) == \A i, j \in 1..Len(s) : i # j => s[i] # s[j]

(* What a sequence is without c, and what it may become with c.            *)
LEMMA WithoutAt ==
  ASSUME NEW S, NEW s \in Seq(S), NoTwice(s), NEW i \in 1..Len(s)
  PROVE  Lists!Without(s, s[i]) = RemoveAt(s, i)
<1>1. s[i] \in ToSet(s)
  BY DEF ToSet
<1>2. (CHOOSE j \in 1..Len(s) : s[j] = s[i]) = i
  BY DEF NoTwice
<1> QED
  BY <1>1, <1>2 DEF Lists!Without, Lists!ToSet, ToSet, Lists!RemoveAt, RemoveAt

LEMMA WithoutNone ==
  ASSUME NEW S, NEW s \in Seq(S), NEW c, \A i \in 1..Len(s) : s[i] # c
  PROVE  Lists!Without(s, c) = s
<1>1. c \notin ToSet(s)
  BY DEF ToSet
<1> QED
  BY <1>1 DEF Lists!Without, Lists!ToSet, ToSet

LEMMA InsertedResults ==
  ASSUME NEW s, NEW c, NEW i \in 1..Len(Lists!Without(s, c)) + 1
  PROVE  InsertAt(Lists!Without(s, c), i, c) \in Lists!Results(s, c)
BY DEF Lists!Results, Lists!InsertAt, InsertAt

LEMMA WithoutResults ==
  ASSUME NEW s, NEW c
  PROVE  Lists!Without(s, c) \in Lists!Results(s, c)
BY DEF Lists!Results

----------------------------------------------------------------------------
(* The objects that the blocks of a list stand for.                        *)
Mapped(s, f) == [i \in DOMAIN s |-> f[s[i]]]

(* The elements of s stand for objects in O; two tables agree about them.  *)
Stand(s, f, O) == \A i \in 1..Len(s) : f[s[i]] \in O

Agree(s, f, g) == \A i \in 1..Len(s) : g[s[i]] = f[s[i]]

AgreeBut(s, f, g, i) == \A j \in 1..Len(s) : j # i => g[s[j]] = f[s[j]]

LEMMA MappedTyped ==
  ASSUME NEW C, NEW O, NEW f, NEW s \in Seq(C), Stand(s, f, O)
  PROVE  Mapped(s, f) \in Seq(O) /\ Len(Mapped(s, f)) = Len(s) /\ \A i \in 1..Len(s) : Mapped(s, f)[i] = f[s[i]]
<1>1. DOMAIN s = 1..Len(s) /\ Len(s) \in Nat
  OBVIOUS
<1>2. Mapped(s, f) \in [1..Len(s) -> O]
  BY <1>1 DEF Mapped, Stand
<1>3. Mapped(s, f) \in Seq(O)
  BY <1>1, <1>2, IsASeq
<1>4. Len(Mapped(s, f)) = Len(s)
  BY <1>1, <1>2, <1>3, LenProperties
<1> QED
  BY <1>1, <1>3, <1>4 DEF Mapped

LEMMA MappedSame ==
  ASSUME NEW C, NEW s \in Seq(C), NEW f, NEW g, Agree(s, f, g)
  PROVE  Mapped(s, f) = Mapped(s, g)
BY DEF Mapped, Agree

LEMMA MappedInsert ==
  ASSUME NEW C, NEW O, NEW s \in Seq(C), NEW f, NEW g, Stand(s, f, O), Agree(s, f, g),
         NEW b \in C, g[b] \in O, NEW i \in 1..Len(s) + 1
  PROVE  Mapped(InsertAt(s, i, b), g) = InsertAt(Mapped(s, f), i, g[b])
<1> DEFINE t == InsertAt(s, i, b)
           u == InsertAt(Mapped(s, f), i, g[b])
           v == Mapped(t, g)
<1>1. /\ t \in Seq(C) /\ Len(t) = Len(s) + 1 /\ Len(s) \in Nat
      /\ \A j \in 1..Len(s) + 1 : t[j] = IF j < i THEN s[j] ELSE IF j = i THEN b ELSE s[j - 1]
  BY InsertAtProperties
<1>2. /\ Mapped(s, f) \in Seq(O) /\ Len(Mapped(s, f)) = Len(s)
      /\ \A j \in 1..Len(s) : Mapped(s, f)[j] = f[s[j]]
  BY MappedTyped
<1>3. /\ u \in Seq(O) /\ Len(u) = Len(s) + 1
      /\ \A j \in 1..Len(s) + 1 : u[j] = IF j < i THEN Mapped(s, f)[j]
                                         ELSE IF j = i THEN g[b] ELSE Mapped(s, f)[j - 1]
  <2> DEFINE w == Mapped(s, f)
             e == g[b]
  <2>1. w \in Seq(O) /\ Len(w) = Len(s) /\ e \in O /\ i \in 1..Len(w) + 1
    BY <1>2
  <2> HIDE DEF w, e
  <2>2. /\ InsertAt(w, i, e) \in Seq(O) /\ Len(InsertAt(w, i, e)) = Len(w) + 1
        /\ \A j \in 1..Len(w) + 1 : InsertAt(w, i, e)[j] = IF j < i THEN w[j] ELSE IF j = i THEN e ELSE w[j - 1]
    BY <2>1, InsertAtProperties
  <2> QED
    BY <2>1, <2>2 DEF w, e
<1> HIDE DEF t, u
<1>4. Stand(t, g, O)
  <2>1. \A k \in 1..Len(s) : g[s[k]] \in O
    BY DEF Stand, Agree
  <2>2. ASSUME NEW j \in 1..Len(s) + 1
        PROVE  t[j] = b \/ \E k \in 1..Len(s) : t[j] = s[k]
    <3>1. CASE j < i
      <4>1. j \in 1..Len(s) /\ t[j] = s[j]
        BY <1>1, <3>1
      <4> QED
        BY <4>1
    <3>2. CASE j = i
      BY <1>1, <3>2
    <3>3. CASE j > i
      <4>1. j - 1 \in 1..Len(s) /\ t[j] = s[j - 1]
        BY <1>1, <3>3
      <4> QED
        BY <4>1
    <3> QED
      BY <1>1, <3>1, <3>2, <3>3
  <2> QED
    BY <1>1, <2>1, <2>2 DEF Stand
<1>5. v \in Seq(O) /\ Len(v) = Len(t) /\ \A j \in 1..Len(t) : v[j] = g[t[j]]
  BY <1>1, <1>4, MappedTyped
<1> HIDE DEF v
<1>6. \A j \in 1..Len(v) : v[j] = u[j]
  <2> SUFFICES ASSUME NEW j \in 1..Len(s) + 1
               PROVE  g[t[j]] = u[j]
    BY <1>1, <1>5
  <2>1. CASE j < i
    <3>1. j \in 1..Len(s)
      BY <1>1, <2>1
    <3>2. t[j] = s[j]
      BY <1>1, <2>1
    <3>3. u[j] = Mapped(s, f)[j]
      BY <1>3, <2>1
    <3> QED
      BY <1>2, <3>1, <3>2, <3>3 DEF Agree, AgreeBut
  <2>2. CASE j = i
    BY <1>1, <1>3, <2>2
  <2>3. CASE j > i
    <3>1. j - 1 \in 1..Len(s) /\ t[j] = s[j - 1] /\ u[j] = Mapped(s, f)[j - 1]
      BY <1>1, <1>3, <2>3
    <3> QED
      BY <1>2, <3>1 DEF Agree, AgreeBut
  <2> QED
    BY <1>1, <2>1, <2>2, <2>3
<1>7. v = u
  BY <1>1, <1>3, <1>5, <1>6, SeqEqual
<1> QED
  BY <1>7 DEF v, u, t

LEMMA MappedRemove ==
  ASSUME NEW C, NEW O, NEW s \in Seq(C), NEW f, NEW g, Stand(s, f, O),
         NEW i \in 1..Len(s), AgreeBut(s, f, g, i)
  PROVE  Mapped(RemoveAt(s, i), g) = RemoveAt(Mapped(s, f), i)
<1> DEFINE t == RemoveAt(s, i)
           u == RemoveAt(Mapped(s, f), i)
           v == Mapped(t, g)
<1>1. /\ t \in Seq(C) /\ Len(t) = Len(s) - 1 /\ Len(s) \in Nat
      /\ \A j \in 1..Len(s) - 1 : t[j] = IF j < i THEN s[j] ELSE s[j + 1]
  BY RemoveAtProperties
<1>2. /\ Mapped(s, f) \in Seq(O) /\ Len(Mapped(s, f)) = Len(s)
      /\ \A j \in 1..Len(s) : Mapped(s, f)[j] = f[s[j]]
  BY MappedTyped
<1>3. /\ u \in Seq(O) /\ Len(u) = Len(s) - 1
      /\ \A j \in 1..Len(s) - 1 : u[j] = IF j < i THEN Mapped(s, f)[j] ELSE Mapped(s, f)[j + 1]
  <2> DEFINE w == Mapped(s, f)
  <2>1. w \in Seq(O) /\ Len(w) = Len(s) /\ i \in 1..Len(w)
    BY <1>2
  <2> HIDE DEF w
  <2>2. /\ RemoveAt(w, i) \in Seq(O) /\ Len(RemoveAt(w, i)) = Len(w) - 1
        /\ \A j \in 1..Len(w) - 1 : RemoveAt(w, i)[j] = IF j < i THEN w[j] ELSE w[j + 1]
    BY <2>1, RemoveAtProperties
  <2> QED
    BY <2>1, <2>2 DEF w
<1> HIDE DEF t, u
<1>4. Stand(t, g, O)
  BY <1>1 DEF Stand, Agree, AgreeBut
<1>5. v \in Seq(O) /\ Len(v) = Len(t) /\ \A j \in 1..Len(t) : v[j] = g[t[j]]
  BY <1>1, <1>4, MappedTyped
<1> HIDE DEF v
<1>6. \A j \in 1..Len(v) : v[j] = u[j]
  <2> SUFFICES ASSUME NEW j \in 1..Len(s) - 1
               PROVE  g[t[j]] = u[j]
    BY <1>1, <1>5
  <2>1. CASE j < i
    <3>1. j \in 1..Len(s) /\ j # i /\ t[j] = s[j] /\ u[j] = Mapped(s, f)[j]
      BY <1>1, <1>3, <2>1
    <3> QED
      BY <1>2, <3>1 DEF Agree, AgreeBut
  <2>2. CASE ~(j < i)
    <3>1. j + 1 \in 1..Len(s) /\ j + 1 # i /\ t[j] = s[j + 1] /\ u[j] = Mapped(s, f)[j + 1]
      BY <1>1, <1>3, <2>2
    <3> QED
      BY <1>2, <3>1 DEF Agree, AgreeBut
  <2> QED
    BY <2>1, <2>2
<1>7. v = u
  BY <1>1, <1>3, <1>5, <1>6, SeqEqual
<1> QED
  BY <1>7 DEF v, u, t

----------------------------------------------------------------------------
(* Every linked block stands for an object in O; two tables f and g agree  *)
(* about all blocks but b.                                                 *)
Belong(l, C, f, O) == \A d \in C : l.pparent[d] # Nil => f[d] \in O

ElseSame(C, f, g, b) == \A d \in C : d # b => g[d] = f[d]

LEMMA MappedUnlinked ==
  ASSUME NEW P, NEW C, Nil \notin P \cup C, IsFiniteSet(C), NEW l, Sound(l, P, C), NEW p \in P,
         NEW b \in C, l.pparent[b] = p,
         NEW O, NEW f, Belong(l, C, f, O), NEW g, ElseSame(C, f, g, b)
  PROVE  LET m == Unlinked(l, p, b)
             s == ChildrenOf(l, p)
         IN  /\ \A i \in 1..Len(s) : s[i] = b => Mapped(ChildrenOf(m, p), g) = RemoveAt(Mapped(s, f), i)
             /\ \A q \in P : q # p => Mapped(ChildrenOf(m, q), g) = Mapped(ChildrenOf(l, q), f)
<1> DEFINE m == Unlinked(l, p, b)
           s == ChildrenOf(l, p)
<1>1. /\ \A i \in 1..Len(s) : s[i] = b => ChildrenOf(m, p) = RemoveAt(s, i)
      /\ \A q \in P : q # p => ChildrenOf(m, q) = ChildrenOf(l, q)
  BY ChildrenUnlinked
<1>2. p # Nil
  OBVIOUS
<1>3. ASSUME NEW i \in 1..Len(s), s[i] = b
      PROVE  Mapped(ChildrenOf(m, p), g) = RemoveAt(Mapped(s, f), i)
  <2>1. /\ s \in Seq(C) /\ \A j \in 1..Len(s) : s[j] \in C /\ l.pparent[s[j]] = p
        /\ \A j, k \in 1..Len(s) : j # k => s[j] # s[k]
    BY ChildrenOnce
  <2>2. ChildrenOf(m, p) = RemoveAt(s, i)
    BY <1>1, <1>3
  <2> HIDE DEF s, m
  <2>3. Stand(s, f, O) /\ AgreeBut(s, f, g, i)
    BY <1>2, <1>3, <2>1 DEF Stand, AgreeBut, Belong, ElseSame
  <2>4. Mapped(RemoveAt(s, i), g) = RemoveAt(Mapped(s, f), i)
    BY <2>1, <2>3, MappedRemove
  <2> QED
    BY <2>2, <2>4
<1>4. ASSUME NEW q \in P, q # p
      PROVE  Mapped(ChildrenOf(m, q), g) = Mapped(ChildrenOf(l, q), f)
  <2> DEFINE t == ChildrenOf(l, q)
  <2>1. t \in Seq(C) /\ \A j \in 1..Len(t) : t[j] \in C /\ l.pparent[t[j]] = q
    BY ChildrenOnce
  <2>2. ChildrenOf(m, q) = t
    BY <1>1, <1>4
  <2> HIDE DEF t, m
  <2>3. Agree(t, f, g)
    BY <1>4, <2>1 DEF Agree, ElseSame
  <2>4. Mapped(t, f) = Mapped(t, g)
    BY <2>1, <2>3, MappedSame
  <2> QED
    BY <2>2, <2>4 DEF t
<1> QED
  BY <1>3, <1>4

LEMMA MappedSpliced ==
  ASSUME NEW P, NEW C, Nil \notin P \cup C, IsFiniteSet(C), NEW l, Sound(l, P, C), NEW p \in P,
         NEW b \in C, l.pparent[b] = Nil, NEW prev, NEW next, Adjacent(l, p, prev, next),
         NEW O, NEW f, Belong(l, C, f, O), NEW g, ElseSame(C, f, g, b), g[b] \in O
  PROVE  LET m == Spliced(l, p, b, prev, next)
             s == ChildrenOf(l, p)
         IN  /\ \E i \in 1..Len(s) + 1 : Before(s, i) = prev
             /\ \A i \in 1..Len(s) + 1 : Before(s, i) = prev =>
                  Mapped(ChildrenOf(m, p), g) = InsertAt(Mapped(s, f), i, g[b])
             /\ \A q \in P : q # p => Mapped(ChildrenOf(m, q), g) = Mapped(ChildrenOf(l, q), f)
<1> DEFINE m == Spliced(l, p, b, prev, next)
           s == ChildrenOf(l, p)
<1>1. /\ \E i \in 1..Len(s) + 1 : Before(s, i) = prev
      /\ \A i \in 1..Len(s) + 1 : Before(s, i) = prev => ChildrenOf(m, p) = InsertAt(s, i, b)
      /\ \A q \in P : q # p => ChildrenOf(m, q) = ChildrenOf(l, q)
  BY ChildrenSpliced
<1>2. p # Nil
  OBVIOUS
<1>3. ASSUME NEW i \in 1..Len(s) + 1, Before(s, i) = prev
      PROVE  Mapped(ChildrenOf(m, p), g) = InsertAt(Mapped(s, f), i, g[b])
  <2>1. s \in Seq(C) /\ \A j \in 1..Len(s) : s[j] \in C /\ l.pparent[s[j]] = p
    BY ChildrenOnce
  <2>2. ChildrenOf(m, p) = InsertAt(s, i, b)
    BY <1>1, <1>3
  <2> HIDE DEF s, m
  <2>3. Stand(s, f, O) /\ Agree(s, f, g)
    BY <1>2, <2>1 DEF Stand, Agree, Belong, ElseSame
  <2>4. Mapped(InsertAt(s, i, b), g) = InsertAt(Mapped(s, f), i, g[b])
    BY <2>1, <2>3, MappedInsert
  <2> QED
    BY <2>2, <2>4
<1>4. ASSUME NEW q \in P, q # p
      PROVE  Mapped(ChildrenOf(m, q), g) = Mapped(ChildrenOf(l, q), f)
  <2> DEFINE t == ChildrenOf(l, q)
  <2>1. t \in Seq(C) /\ \A j \in 1..Len(t) : t[j] \in C /\ l.pparent[t[j]] = q
    BY ChildrenOnce
  <2>2. ChildrenOf(m, q) = t
    BY <1>1, <1>4
  <2> HIDE DEF t, m
  <2>3. Agree(t, f, g)
    BY <1>4, <2>1 DEF Agree, ElseSame
  <2>4. Mapped(t, f) = Mapped(t, g)
    BY <2>1, <2>3, MappedSame
  <2> QED
    BY <2>2, <2>4 DEF t
<1> QED
  BY <1>1, <1>3, <1>4

----------------------------------------------------------------------------
(* The sequences of an n:m association.                                    *)

LEMMA ManyMapped ==
  ASSUME NEW m, NEW p, NEW c
  PROVE  /\ ManyChildren(m, p) = Mapped(ChildrenOf(m.parent, p), m.child.pparent)
         /\ ManyParents(m, c) = Mapped(ChildrenOf(m.child, c), m.parent.pparent)
BY DEF ManyChildren, ManyParents, Mapped, PChild, PParent

LEMMA ManyBelong ==
  ASSUME NEW m, ManySound(m)
  PROVE  /\ Nil \notin Parents \cup Blocks /\ Nil \notin Children \cup Blocks /\ IsFiniteSet(Blocks)
         /\ Sound(m.parent, Parents, Blocks) /\ Sound(m.child, Children, Blocks)
         /\ Belong(m.parent, Blocks, m.child.pparent, Children)
         /\ Belong(m.child, Blocks, m.parent.pparent, Parents)
BY Types, ManyLinksAssumption DEF ManySound, InBothOrNone, Belong, PParent, PChild

(* One element for each link, and none twice.                              *)
LEMMA ManySequences ==
  ASSUME NEW m, ManySound(m), NEW p \in Parents, NEW c \in Children
  PROVE  /\ ManyChildren(m, p) \in Seq(Children) /\ NoTwice(ManyChildren(m, p))
         /\ ManyParents(m, c) \in Seq(Parents) /\ NoTwice(ManyParents(m, c))
         /\ c \in ToSet(ManyChildren(m, p)) <=> Between(m, p, c) # Nil
         /\ p \in ToSet(ManyParents(m, c)) <=> Between(m, p, c) # Nil
<1> DEFINE s == ChildrenOf(m.parent, p)
           t == ChildrenOf(m.child, c)
           f == m.child.pparent
           g == m.parent.pparent
           l == Between(m, p, c)
<1>1. /\ Nil \notin Parents \cup Blocks /\ Nil \notin Children \cup Blocks /\ IsFiniteSet(Blocks)
      /\ Sound(m.parent, Parents, Blocks) /\ Sound(m.child, Children, Blocks)
      /\ Belong(m.parent, Blocks, f, Children) /\ Belong(m.child, Blocks, g, Parents)
  BY ManyBelong
<1>2. /\ s \in Seq(Blocks) /\ Len(s) \in Nat
      /\ \A i \in 1..Len(s) : s[i] \in Blocks /\ g[s[i]] = p
      /\ \A i, j \in 1..Len(s) : i # j => s[i] # s[j]
      /\ \A b \in Blocks : g[b] = p => \E i \in 1..Len(s) : s[i] = b
  BY <1>1, ChildrenOnce
<1>3. /\ t \in Seq(Blocks) /\ Len(t) \in Nat
      /\ \A i \in 1..Len(t) : t[i] \in Blocks /\ f[t[i]] = c
      /\ \A i, j \in 1..Len(t) : i # j => t[i] # t[j]
      /\ \A b \in Blocks : f[b] = c => \E i \in 1..Len(t) : t[i] = b
  BY <1>1, ChildrenOnce
<1>4. ManyChildren(m, p) = Mapped(s, f) /\ ManyParents(m, c) = Mapped(t, g)
  BY ManyMapped
<1>5. /\ \A a, b \in Blocks : g[a] = p /\ g[b] = p /\ f[a] = f[b] => a = b
      /\ \A a, b \in Blocks : f[a] = c /\ f[b] = c /\ g[a] = g[b] => a = b
  BY <1>1, Types DEF ManySound, OnePerPair, InBothOrNone, PParent, PChild
<1>6. /\ l \in Blocks \cup {Nil}
      /\ l # Nil => g[l] = p /\ f[l] = c
      /\ \A b \in Blocks : g[b] = p /\ f[b] = c => l = b
  BY BetweenFinds DEF PParent, PChild
<1>7. p # Nil /\ c # Nil /\ Nil \notin Blocks
  BY <1>1
<1> HIDE DEF s, t, f, g, l
<1>8. /\ Mapped(s, f) \in Seq(Children) /\ Len(Mapped(s, f)) = Len(s)
      /\ \A i \in 1..Len(s) : Mapped(s, f)[i] = f[s[i]]
  <2>1. Stand(s, f, Children)
    BY <1>1, <1>2, <1>7 DEF Stand, Belong, g
  <2> QED
    BY <1>2, <2>1, MappedTyped
<1>9. /\ Mapped(t, g) \in Seq(Parents) /\ Len(Mapped(t, g)) = Len(t)
      /\ \A i \in 1..Len(t) : Mapped(t, g)[i] = g[t[i]]
  <2>1. Stand(t, g, Parents)
    BY <1>1, <1>3, <1>7 DEF Stand, Belong, f
  <2> QED
    BY <1>3, <2>1, MappedTyped
<1>10. NoTwice(Mapped(s, f))
  BY <1>2, <1>5, <1>8 DEF NoTwice
<1>11. NoTwice(Mapped(t, g))
  BY <1>3, <1>5, <1>9 DEF NoTwice
<1>12. c \in ToSet(Mapped(s, f)) <=> l # Nil
  <2>1. ToSet(Mapped(s, f)) = {f[s[i]] : i \in 1..Len(s)}
    BY <1>8 DEF ToSet
  <2>2. ASSUME l # Nil PROVE c \in ToSet(Mapped(s, f))
    <3>1. l \in Blocks /\ g[l] = p /\ f[l] = c
      BY <1>6, <2>2
    <3>2. PICK i \in 1..Len(s) : s[i] = l
      BY <1>2, <3>1
    <3> QED
      BY <2>1, <3>1, <3>2
  <2>3. ASSUME c \in ToSet(Mapped(s, f)) PROVE l # Nil
    <3>1. PICK i \in 1..Len(s) : f[s[i]] = c
      BY <2>1, <2>3
    <3> QED
      BY <1>2, <1>6, <1>7, <3>1
  <2> QED
    BY <2>2, <2>3
<1>13. p \in ToSet(Mapped(t, g)) <=> l # Nil
  <2>1. ToSet(Mapped(t, g)) = {g[t[i]] : i \in 1..Len(t)}
    BY <1>9 DEF ToSet
  <2>2. ASSUME l # Nil PROVE p \in ToSet(Mapped(t, g))
    <3>1. l \in Blocks /\ g[l] = p /\ f[l] = c
      BY <1>6, <2>2
    <3>2. PICK i \in 1..Len(t) : t[i] = l
      BY <1>3, <3>1
    <3> QED
      BY <2>1, <3>1, <3>2
  <2>3. ASSUME p \in ToSet(Mapped(t, g)) PROVE l # Nil
    <3>1. PICK i \in 1..Len(t) : g[t[i]] = p
      BY <2>1, <2>3
    <3> QED
      BY <1>3, <1>6, <1>7, <3>1
  <2> QED
    BY <2>2, <2>3
<1> QED
  BY <1>4, <1>8, <1>9, <1>10, <1>11, <1>12, <1>13 DEF l

(* Removing the link of p and c takes c from the children of p and p from  *)
(* the parents of c, at the positions i and j of the link.                 *)
LEMMA RemovedAt ==
  ASSUME NEW m, ManySound(m), NEW p \in Parents, NEW c \in Children, Between(m, p, c) # Nil
  PROVE  LET n == WithoutLink(m, p, c)
             l == Between(m, p, c)
             s == ChildrenOf(m.parent, p)
             t == ChildrenOf(m.child, c)
         IN  /\ \A i \in 1..Len(s) : s[i] = l => ManyChildren(n, p) = RemoveAt(ManyChildren(m, p), i)
             /\ \A i \in 1..Len(t) : t[i] = l => ManyParents(n, c) = RemoveAt(ManyParents(m, c), i)
             /\ \A q \in Parents : q # p => ManyChildren(n, q) = ManyChildren(m, q)
             /\ \A d \in Children : d # c => ManyParents(n, d) = ManyParents(m, d)
<1> DEFINE n == WithoutLink(m, p, c)
           l == Between(m, p, c)
           s == ChildrenOf(m.parent, p)
           t == ChildrenOf(m.child, c)
           f == m.child.pparent
           g == m.parent.pparent
<1>1. /\ Nil \notin Parents \cup Blocks /\ Nil \notin Children \cup Blocks /\ IsFiniteSet(Blocks)
      /\ Sound(m.parent, Parents, Blocks) /\ Sound(m.child, Children, Blocks)
      /\ Belong(m.parent, Blocks, f, Children) /\ Belong(m.child, Blocks, g, Parents)
  BY ManyBelong
<1>2. l \in Blocks /\ g[l] = p /\ f[l] = c
  BY BetweenFinds DEF PParent, PChild
<1>3. n.parent = Unlinked(m.parent, p, l) /\ n.child = Unlinked(m.child, c, l)
  BY DEF WithoutLink, Removed
<1>4. ElseSame(Blocks, f, n.child.pparent, l) /\ ElseSame(Blocks, g, n.parent.pparent, l)
  BY WithoutIsSound DEF ElseSame, PParent, PChild
<1>5. \A q, d : /\ ManyChildren(m, q) = Mapped(ChildrenOf(m.parent, q), f)
                /\ ManyParents(m, d) = Mapped(ChildrenOf(m.child, d), g)
                /\ ManyChildren(n, q) = Mapped(ChildrenOf(n.parent, q), n.child.pparent)
                /\ ManyParents(n, d) = Mapped(ChildrenOf(n.child, d), n.parent.pparent)
  BY ManyMapped
<1> SUFFICES /\ \A i \in 1..Len(s) : s[i] = l => ManyChildren(n, p) = RemoveAt(ManyChildren(m, p), i)
             /\ \A i \in 1..Len(t) : t[i] = l => ManyParents(n, c) = RemoveAt(ManyParents(m, c), i)
             /\ \A q \in Parents : q # p => ManyChildren(n, q) = ManyChildren(m, q)
             /\ \A d \in Children : d # c => ManyParents(n, d) = ManyParents(m, d)
  OBVIOUS
<1> DEFINE fn == n.child.pparent
           gn == n.parent.pparent
           children == Unlinked(m.parent, p, l)
           parents == Unlinked(m.child, c, l)
<1> HIDE DEF n, l
<1>6. /\ \A i \in 1..Len(s) : s[i] = l => Mapped(ChildrenOf(children, p), fn) = RemoveAt(Mapped(s, f), i)
      /\ \A q \in Parents : q # p => Mapped(ChildrenOf(children, q), fn) = Mapped(ChildrenOf(m.parent, q), f)
  BY <1>1, <1>2, <1>4, MappedUnlinked
<1>7. /\ \A i \in 1..Len(t) : t[i] = l => Mapped(ChildrenOf(parents, c), gn) = RemoveAt(Mapped(t, g), i)
      /\ \A d \in Children : d # c => Mapped(ChildrenOf(parents, d), gn) = Mapped(ChildrenOf(m.child, d), g)
  BY <1>1, <1>2, <1>4, MappedUnlinked
<1> HIDE DEF s, t, f, g, children, parents
<1> QED
  BY <1>3, <1>5, <1>6, <1>7 DEF s, t, f, g, children, parents

LEMMA WithoutLinkSequences ==
  ASSUME NEW m, ManySound(m), NEW p \in Parents, NEW c \in Children
  PROVE  LET n == WithoutLink(m, p, c)
         IN  /\ ManyChildren(n, p) = Lists!Without(ManyChildren(m, p), c)
             /\ ManyParents(n, c) = Lists!Without(ManyParents(m, c), p)
             /\ \A q \in Parents : q # p => ManyChildren(n, q) = ManyChildren(m, q)
             /\ \A d \in Children : d # c => ManyParents(n, d) = ManyParents(m, d)
<1> DEFINE n == WithoutLink(m, p, c)
           l == Between(m, p, c)
           u == ManyChildren(m, p)
           v == ManyParents(m, c)
<1>1. /\ u \in Seq(Children) /\ NoTwice(u) /\ v \in Seq(Parents) /\ NoTwice(v)
      /\ c \in ToSet(u) <=> l # Nil
      /\ p \in ToSet(v) <=> l # Nil
  BY ManySequences
<1>2. CASE l = Nil
  <2>1. n = m
    BY <1>2 DEF WithoutLink
  <2> HIDE DEF n, u, v
  <2>2. (\A i \in 1..Len(u) : u[i] # c) /\ (\A i \in 1..Len(v) : v[i] # p)
    BY <1>1, <1>2 DEF ToSet
  <2>3. Lists!Without(u, c) = u /\ Lists!Without(v, p) = v
    BY <1>1, <2>2, WithoutNone
  <2> QED
    BY <2>1, <2>3 DEF n, u, v
<1>3. CASE l # Nil
  <2> DEFINE s == ChildrenOf(m.parent, p)
             t == ChildrenOf(m.child, c)
  <2>1. /\ \A i \in 1..Len(s) : s[i] = l => ManyChildren(n, p) = RemoveAt(u, i)
        /\ \A i \in 1..Len(t) : t[i] = l => ManyParents(n, c) = RemoveAt(v, i)
        /\ \A q \in Parents : q # p => ManyChildren(n, q) = ManyChildren(m, q)
        /\ \A d \in Children : d # c => ManyParents(n, d) = ManyParents(m, d)
    BY <1>3, RemovedAt
  <2>2. l \in Blocks /\ m.parent.pparent[l] = p /\ m.child.pparent[l] = c
    BY <1>3, BetweenFinds DEF PParent, PChild
  <2>3. /\ Nil \notin Parents \cup Blocks /\ Nil \notin Children \cup Blocks /\ IsFiniteSet(Blocks)
        /\ Sound(m.parent, Parents, Blocks) /\ Sound(m.child, Children, Blocks)
    BY ManyBelong
  <2>4. PICK i \in 1..Len(s) : s[i] = l
    BY <2>2, <2>3, ChildrenOnce
  <2>5. PICK j \in 1..Len(t) : t[j] = l
    BY <2>2, <2>3, ChildrenOnce
  <2>6. s \in Seq(Blocks) /\ DOMAIN s = 1..Len(s) /\ t \in Seq(Blocks) /\ DOMAIN t = 1..Len(t)
    BY <2>3, ChildrenOnce
  <2>7. u = Mapped(s, m.child.pparent) /\ v = Mapped(t, m.parent.pparent)
    BY ManyMapped
  <2> HIDE DEF u, v, s, t, n
  <2>8. u[i] = c /\ DOMAIN u = 1..Len(s) /\ v[j] = p /\ DOMAIN v = 1..Len(t)
    BY <2>2, <2>4, <2>5, <2>6, <2>7 DEF Mapped
  <2>9. i \in 1..Len(u) /\ j \in 1..Len(v)
    BY <1>1, <2>8
  <2>10. Lists!Without(u, c) = RemoveAt(u, i)
    BY <1>1, <2>8, <2>9, WithoutAt
  <2>11. Lists!Without(v, p) = RemoveAt(v, j)
    BY <1>1, <2>8, <2>9, WithoutAt
  <2> QED
    BY <2>1, <2>4, <2>5, <2>10, <2>11 DEF n, u, v
<1> QED
  BY <1>2, <1>3

(* A new link is between neighbours in both lists.                         *)
LEMMA FreshAdjacent ==
  ASSUME NEW m, ManySound(m), NEW p \in Parents, NEW c \in Children,
         NEW place, Half(place.parent, Parents), Half(place.child, Children), ~Misplaced(m, p, c, place)
  PROVE  LET x == ChildPlace(m, p, place)
             y == ParentPlace(m, c, place)
         IN  /\ Adjacent(m.parent, p, Predecessor(m.parent, p, x), Successor(m.parent, p, x))
             /\ Adjacent(m.child, c, Predecessor(m.child, c, y), Successor(m.child, c, y))
<1> DEFINE cp == Between(m, p, place.child.rel)
           pp == Between(m, place.parent.rel, c)
           x == ChildPlace(m, p, place)
           y == ParentPlace(m, c, place)
<1>1. /\ Nil \notin Parents \cup Blocks /\ Nil \notin Children \cup Blocks
      /\ Sound(m.parent, Parents, Blocks) /\ Sound(m.child, Children, Blocks)
  BY ManyBelong
<1>2. place.child.hint \in Relative => cp \in Blocks /\ m.parent.pparent[cp] = p
  BY BetweenFinds DEF Half, Misplaced, PParent
<1>3. place.parent.hint \in Relative => pp \in Blocks /\ m.child.pparent[pp] = c
  BY BetweenFinds DEF Half, Misplaced, PChild
<1> HIDE DEF cp, pp
<1>8. place.child.hint # "UNKNOWN" /\ place.parent.hint # "UNKNOWN"
  BY DEF Misplaced
<1>4. /\ x \in Known(Blocks)
      /\ x.hint \in Relative => m.parent.pparent[x.rel] = p
  BY <1>2, <1>8 DEF ChildPlace, InList, Known, Half, Relative, Hints, Simple, cp
<1>5. /\ y \in Known(Blocks)
      /\ y.hint \in Relative => m.child.pparent[y.rel] = c
  BY <1>3, <1>8 DEF ParentPlace, InList, Known, Half, Relative, Hints, Simple, pp
<1> HIDE DEF x, y
<1>6. Adjacent(m.parent, p, Predecessor(m.parent, p, x), Successor(m.parent, p, x))
  BY <1>1, <1>4, PlaceAdjacent
<1>7. Adjacent(m.child, c, Predecessor(m.child, c, y), Successor(m.child, c, y))
  BY <1>1, <1>5, PlaceAdjacent
<1> QED
  BY <1>6, <1>7 DEF x, y

(* Making a link inserts c among the children of p and p among the parents *)
(* of c, behind the links that the two places stand for.                   *)
LEMMA FreshAt ==
  ASSUME NEW m, ManySound(m), NEW p \in Parents, NEW c \in Children, Between(m, p, c) = Nil,
         NEW place, Half(place.parent, Parents), Half(place.child, Children), ~Misplaced(m, p, c, place),
         NEW b \in Allocated(m), b # Nil
  PROVE  LET n == Fresh(m, p, c, place, b).links
             s == ChildrenOf(m.parent, p)
             t == ChildrenOf(m.child, c)
             prev == Predecessor(m.parent, p, ChildPlace(m, p, place))
             pprev == Predecessor(m.child, c, ParentPlace(m, c, place))
         IN  /\ \E i \in 1..Len(s) + 1 : Before(s, i) = prev
             /\ \A i \in 1..Len(s) + 1 : Before(s, i) = prev => ManyChildren(n, p) = InsertAt(ManyChildren(m, p), i, c)
             /\ \E i \in 1..Len(t) + 1 : Before(t, i) = pprev
             /\ \A i \in 1..Len(t) + 1 : Before(t, i) = pprev => ManyParents(n, c) = InsertAt(ManyParents(m, c), i, p)
             /\ \A q \in Parents : q # p => ManyChildren(n, q) = ManyChildren(m, q)
             /\ \A d \in Children : d # c => ManyParents(n, d) = ManyParents(m, d)
<1> DEFINE n == Fresh(m, p, c, place, b).links
           s == ChildrenOf(m.parent, p)
           t == ChildrenOf(m.child, c)
           x == ChildPlace(m, p, place)
           y == ParentPlace(m, c, place)
           prev == Predecessor(m.parent, p, x)
           next == Successor(m.parent, p, x)
           pprev == Predecessor(m.child, c, y)
           pnext == Successor(m.child, c, y)
           f == m.child.pparent
           g == m.parent.pparent
<1>1. /\ Nil \notin Parents \cup Blocks /\ Nil \notin Children \cup Blocks /\ IsFiniteSet(Blocks)
      /\ Sound(m.parent, Parents, Blocks) /\ Sound(m.child, Children, Blocks)
      /\ Belong(m.parent, Blocks, f, Children) /\ Belong(m.child, Blocks, g, Parents)
  BY ManyBelong
<1>2. b \in Blocks /\ g[b] = Nil /\ f[b] = Nil
  BY DEF Allocated, Free, ManySound, InBothOrNone, PParent, PChild
<1>3. /\ n.parent = Spliced(m.parent, p, b, prev, next)
      /\ n.child = Spliced(m.child, c, b, pprev, pnext)
  BY DEF Fresh, Answer, Placed
<1>4. Adjacent(m.parent, p, prev, next) /\ Adjacent(m.child, c, pprev, pnext)
  BY FreshAdjacent
<1>5. n.parent.pparent = [g EXCEPT ![b] = p] /\ n.child.pparent = [f EXCEPT ![b] = c]
  BY <1>3 DEF Spliced
<1>6. /\ ElseSame(Blocks, f, n.child.pparent, b) /\ ElseSame(Blocks, g, n.parent.pparent, b)
      /\ n.parent.pparent[b] = p /\ n.child.pparent[b] = c
  BY <1>2, <1>5, Types DEF ElseSame
<1>7. \A q, d : /\ ManyChildren(m, q) = Mapped(ChildrenOf(m.parent, q), f)
                /\ ManyParents(m, d) = Mapped(ChildrenOf(m.child, d), g)
                /\ ManyChildren(n, q) = Mapped(ChildrenOf(n.parent, q), n.child.pparent)
                /\ ManyParents(n, d) = Mapped(ChildrenOf(n.child, d), n.parent.pparent)
  BY ManyMapped
<1> SUFFICES /\ \E i \in 1..Len(s) + 1 : Before(s, i) = prev
             /\ \A i \in 1..Len(s) + 1 : Before(s, i) = prev => ManyChildren(n, p) = InsertAt(ManyChildren(m, p), i, c)
             /\ \E i \in 1..Len(t) + 1 : Before(t, i) = pprev
             /\ \A i \in 1..Len(t) + 1 : Before(t, i) = pprev => ManyParents(n, c) = InsertAt(ManyParents(m, c), i, p)
             /\ \A q \in Parents : q # p => ManyChildren(n, q) = ManyChildren(m, q)
             /\ \A d \in Children : d # c => ManyParents(n, d) = ManyParents(m, d)
  OBVIOUS
<1> DEFINE fn == n.child.pparent
           gn == n.parent.pparent
           children == Spliced(m.parent, p, b, prev, next)
           parents == Spliced(m.child, c, b, pprev, pnext)
<1> HIDE DEF n, x, y, prev, next, pprev, pnext
<1>8. fn[b] \in Children /\ gn[b] \in Parents
  BY <1>6
<1>9. /\ \E i \in 1..Len(s) + 1 : Before(s, i) = prev
      /\ \A i \in 1..Len(s) + 1 : Before(s, i) = prev => Mapped(ChildrenOf(children, p), fn) = InsertAt(Mapped(s, f), i, fn[b])
      /\ \A q \in Parents : q # p => Mapped(ChildrenOf(children, q), fn) = Mapped(ChildrenOf(m.parent, q), f)
  BY <1>1, <1>2, <1>4, <1>6, <1>8, MappedSpliced
<1>10. /\ \E i \in 1..Len(t) + 1 : Before(t, i) = pprev
       /\ \A i \in 1..Len(t) + 1 : Before(t, i) = pprev => Mapped(ChildrenOf(parents, c), gn) = InsertAt(Mapped(t, g), i, gn[b])
       /\ \A d \in Children : d # c => Mapped(ChildrenOf(parents, d), gn) = Mapped(ChildrenOf(m.child, d), g)
  BY <1>1, <1>2, <1>4, <1>6, <1>8, MappedSpliced
<1> HIDE DEF s, t, f, g, children, parents
<1>11. /\ \A q : Mapped(ChildrenOf(children, q), fn) = ManyChildren(n, q)
       /\ \A d : Mapped(ChildrenOf(parents, d), gn) = ManyParents(n, d)
       /\ \A q : Mapped(ChildrenOf(m.parent, q), f) = ManyChildren(m, q)
       /\ \A d : Mapped(ChildrenOf(m.child, d), g) = ManyParents(m, d)
       /\ Mapped(s, f) = ManyChildren(m, p) /\ Mapped(t, g) = ManyParents(m, c)
  BY <1>3, <1>7 DEF s, t, children, parents
<1> QED
  BY <1>6, <1>9, <1>10, <1>11

(* Link either changes nothing, or it removes the link of p and c, if      *)
(* there is one, and makes a new one, at the place that was asked for or   *)
(* the one that the default was replaced by.                               *)
LEMMA LinkOrNothing ==
  ASSUME NEW m, ManySound(m), NEW p \in Parents, NEW c \in Children,
         NEW place \in ManyPlaces, NEW b \in Available(m, p, c)
  PROVE  \/ LinkAnswer(m, p, c, place, b).links = m
         \/ LET n == WithoutLink(m, p, c)
                kept == IF Between(m, p, c) = Nil THEN place ELSE KeptPlace(m, Between(m, p, c), place)
            IN  /\ LinkAnswer(m, p, c, place, b).links = Fresh(n, p, c, kept, b).links
                /\ ManySound(n) /\ Between(n, p, c) = Nil
                /\ Half(kept.parent, Parents) /\ Half(kept.child, Children) /\ ~Misplaced(n, p, c, kept)
                /\ b \in Allocated(n) /\ b # Nil
<1> DEFINE n == WithoutLink(m, p, c)
           l == Between(m, p, c)
           kept == IF l = Nil THEN place ELSE KeptPlace(m, l, place)
<1>1. Half(place.parent, Parents) /\ Half(place.child, Children)
  BY DEF ManyPlaces, HalfPlaces, Half, Hints, Relative, Simple
<1>2. ManySound(n) /\ Between(n, p, c) = Nil /\ b \in Allocated(n)
  BY WithoutIsSound DEF Available
<1>3. CASE l = Nil
  <2>1. n = m /\ kept = place
    BY <1>3 DEF WithoutLink
  <2>2. LinkAnswer(m, p, c, place, b) = Fresh(m, p, c, place, b)
    BY <1>3 DEF LinkAnswer
  <2>3. CASE Misplaced(m, p, c, place) \/ b = Nil
    BY <2>2, <2>3 DEF Fresh, Answer
  <2>4. CASE ~(Misplaced(m, p, c, place) \/ b = Nil)
    <3> HIDE DEF n, kept, l
    <3> QED
      BY <1>1, <1>2, <2>1, <2>2, <2>4 DEF n, kept, l
  <2> QED
    BY <2>3, <2>4
<1>4. CASE l # Nil /\ (StaysInBoth(m, l, place) \/ Misplaced(m, p, c, place) \/ AboutItself(p, c, place))
  BY <1>4 DEF LinkAnswer, Answer
<1>5. CASE l # Nil /\ ~(StaysInBoth(m, l, place) \/ Misplaced(m, p, c, place) \/ AboutItself(p, c, place))
  <2>1. kept = KeptPlace(m, l, place)
    BY <1>5
  <2>2. LinkAnswer(m, p, c, place, b) = Fresh(n, p, c, kept, b)
    BY <1>5 DEF LinkAnswer
  <2>3. Fresh(n, p, c, kept, b).result = "OK"
    BY <1>1, <1>5, <2>1, MovedIsPlaced
  <2>4. Half(kept.parent, Parents) /\ Half(kept.child, Children)
    BY <1>1, <1>5, <2>1, KeptHalf
  <2> HIDE DEF n, kept
  <2>5. ~Misplaced(n, p, c, kept) /\ b # Nil
    BY <2>3 DEF Fresh, Answer
  <2> QED
    BY <1>2, <2>2, <2>4, <2>5 DEF n, kept, l
<1> QED
  BY <1>3, <1>4, <1>5

(* What link and unlink make of the sequences of an n:m association.       *)
LEMMA LinkSequences ==
  ASSUME NEW m, ManySound(m), NEW p \in Parents, NEW c \in Children,
         NEW place \in ManyPlaces, NEW b \in Available(m, p, c)
  PROVE  LET a == LinkAnswer(m, p, c, place, b).links
         IN  \/ a = m
             \/ /\ ManyChildren(a, p) \in Lists!Results(ManyChildren(m, p), c)
                /\ ManyParents(a, c) \in Lists!Results(ManyParents(m, c), p)
                /\ \A q \in Parents : q # p => ManyChildren(a, q) = ManyChildren(m, q)
                /\ \A d \in Children : d # c => ManyParents(a, d) = ManyParents(m, d)
<1> DEFINE a == LinkAnswer(m, p, c, place, b).links
           n == WithoutLink(m, p, c)
           kept == IF Between(m, p, c) = Nil THEN place ELSE KeptPlace(m, Between(m, p, c), place)
           s == ChildrenOf(n.parent, p)
           t == ChildrenOf(n.child, c)
<1>1. CASE a = m
  BY <1>1
<1>2. CASE a # m
  <2>1. /\ a = Fresh(n, p, c, kept, b).links
        /\ ManySound(n) /\ Between(n, p, c) = Nil
        /\ Half(kept.parent, Parents) /\ Half(kept.child, Children) /\ ~Misplaced(n, p, c, kept)
        /\ b \in Allocated(n) /\ b # Nil
    BY <1>2, LinkOrNothing
  <2>2. /\ ManyChildren(n, p) = Lists!Without(ManyChildren(m, p), c)
        /\ ManyParents(n, c) = Lists!Without(ManyParents(m, c), p)
        /\ \A q \in Parents : q # p => ManyChildren(n, q) = ManyChildren(m, q)
        /\ \A d \in Children : d # c => ManyParents(n, d) = ManyParents(m, d)
    BY WithoutLinkSequences
  <2> HIDE DEF a, n, kept
  <2>3. /\ \E i \in 1..Len(s) + 1 : ManyChildren(a, p) = InsertAt(ManyChildren(n, p), i, c)
        /\ \E i \in 1..Len(t) + 1 : ManyParents(a, c) = InsertAt(ManyParents(n, c), i, p)
        /\ \A q \in Parents : q # p => ManyChildren(a, q) = ManyChildren(n, q)
        /\ \A d \in Children : d # c => ManyParents(a, d) = ManyParents(n, d)
    <3> DEFINE z == Fresh(n, p, c, kept, b).links
               prev == Predecessor(n.parent, p, ChildPlace(n, p, kept))
               pprev == Predecessor(n.child, c, ParentPlace(n, c, kept))
    <3>1. /\ \E i \in 1..Len(s) + 1 : Before(s, i) = prev
          /\ \A i \in 1..Len(s) + 1 : Before(s, i) = prev => ManyChildren(z, p) = InsertAt(ManyChildren(n, p), i, c)
          /\ \E i \in 1..Len(t) + 1 : Before(t, i) = pprev
          /\ \A i \in 1..Len(t) + 1 : Before(t, i) = pprev => ManyParents(z, c) = InsertAt(ManyParents(n, c), i, p)
          /\ \A q \in Parents : q # p => ManyChildren(z, q) = ManyChildren(n, q)
          /\ \A d \in Children : d # c => ManyParents(z, d) = ManyParents(n, d)
      BY <2>1, FreshAt
    <3> HIDE DEF z, prev, pprev, s, t
    <3>2. a = z
      BY <2>1 DEF z
    <3> QED
      BY <3>1, <3>2
  <2>4. Len(ManyChildren(n, p)) = Len(s) /\ Len(ManyParents(n, c)) = Len(t)
    <3>1. /\ Nil \notin Parents \cup Blocks /\ Nil \notin Children \cup Blocks /\ IsFiniteSet(Blocks)
          /\ Sound(n.parent, Parents, Blocks) /\ Sound(n.child, Children, Blocks)
      BY <2>1, ManyBelong
    <3>2. s \in Seq(Blocks) /\ t \in Seq(Blocks)
      BY <3>1, ChildrenOnce
    <3>3. ManyChildren(n, p) \in Seq(Children) /\ ManyParents(n, c) \in Seq(Parents)
      BY <2>1, ManySequences
    <3>4. ManyChildren(n, p) = Mapped(s, n.child.pparent) /\ ManyParents(n, c) = Mapped(t, n.parent.pparent)
      BY ManyMapped
    <3> HIDE DEF s, t
    <3>5. DOMAIN ManyChildren(n, p) = 1..Len(s) /\ DOMAIN ManyParents(n, c) = 1..Len(t)
      BY <3>2, <3>4 DEF Mapped
    <3> QED
      BY <3>2, <3>3, <3>5, LenProperties
  <2> HIDE DEF s, t
  <2>5. /\ ManyChildren(a, p) \in Lists!Results(ManyChildren(m, p), c)
        /\ ManyParents(a, c) \in Lists!Results(ManyParents(m, c), p)
    BY <2>2, <2>3, <2>4, InsertedResults
  <2> QED
    BY <2>2, <2>3, <2>5 DEF a
<1> QED
  BY <1>1, <1>2

(* The same for a 1:n association.                                         *)
LEMMA UnlinkedWithout ==
  ASSUME NEW l, Sound(l, Parents, Children), NEW p \in Parents, NEW c \in Children
  PROVE  LET m == UnlinkOutcome(l, p, c)
         IN  /\ ChildrenOf(m, p) = Lists!Without(ChildrenOf(l, p), c)
             /\ \A q \in Parents : q # p => ChildrenOf(m, q) = ChildrenOf(l, q)
<1> DEFINE m == UnlinkOutcome(l, p, c)
           s == ChildrenOf(l, p)
<1>1. Nil \notin Parents \cup Children /\ IsFiniteSet(Children)
  BY ManyLinksAssumption, AssociationAssumption
<1>2. /\ s \in Seq(Children) /\ Len(s) \in Nat
      /\ \A i \in 1..Len(s) : l.pparent[s[i]] = p
      /\ NoTwice(s)
      /\ l.pparent[c] = p => \E i \in 1..Len(s) : s[i] = c
  BY <1>1, ChildrenOnce DEF NoTwice
<1>3. CASE l.pparent[c] = p
  <2>1. m = Unlinked(l, p, c)
    BY <1>3 DEF UnlinkOutcome
  <2>2. /\ \A i \in 1..Len(s) : s[i] = c => ChildrenOf(m, p) = RemoveAt(s, i)
        /\ \A q \in Parents : q # p => ChildrenOf(m, q) = ChildrenOf(l, q)
    BY <1>1, <1>3, <2>1, ChildrenUnlinked
  <2>3. PICK i \in 1..Len(s) : s[i] = c
    BY <1>2, <1>3
  <2> HIDE DEF s, m
  <2>4. Lists!Without(s, c) = RemoveAt(s, i)
    BY <1>2, <2>3, WithoutAt
  <2> QED
    BY <2>2, <2>3, <2>4 DEF s, m
<1>4. CASE l.pparent[c] # p
  <2>1. m = l
    BY <1>4 DEF UnlinkOutcome
  <2> HIDE DEF s, m
  <2>2. \A i \in 1..Len(s) : s[i] # c
    BY <1>2, <1>4
  <2>3. Lists!Without(s, c) = s
    BY <1>2, <2>2, WithoutNone
  <2> QED
    BY <2>1, <2>3 DEF s, m
<1> QED
  BY <1>3, <1>4

LEMMA SplicedResults ==
  ASSUME NEW l, Sound(l, Parents, Children), NEW p \in Parents, NEW c \in Children, l.pparent[c] = Nil,
         NEW prev, NEW next, Adjacent(l, p, prev, next)
  PROVE  LET m == Spliced(l, p, c, prev, next)
         IN  /\ \E i \in 1..Len(ChildrenOf(l, p)) + 1 : ChildrenOf(m, p) = InsertAt(ChildrenOf(l, p), i, c)
             /\ \A q \in Parents : q # p => ChildrenOf(m, q) = ChildrenOf(l, q)
<1>1. Nil \notin Parents \cup Children /\ IsFiniteSet(Children)
  BY ManyLinksAssumption, AssociationAssumption
<1> QED
  BY <1>1, ChildrenSpliced

----------------------------------------------------------------------------
(* The sequences that the pointers implement.                              *)
KidsOf(p) ==
  CASE assoctype = "1:1" -> Sequence(pairs.child[p])
    [] assoctype = "1:n" -> ChildrenOf(links, p)
    [] assoctype = "n:m" -> ManyChildren(many, p)

EldersOf(c) ==
  CASE assoctype = "1:1" -> Sequence(pairs.parent[c])
    [] assoctype = "1:n" -> Sequence(links.pparent[c])
    [] assoctype = "n:m" -> ManyParents(many, c)

Kids == [p \in Parents |-> KidsOf(p)]

Elders == [c \in Children |-> EldersOf(c)]

(* A step that changes the link of p and c and no other one.               *)
Changes(p, c) ==
  /\ \A q \in Parents : q # p => Kids'[q] = Kids[q]
  /\ \A d \in Children : d # c => Elders'[d] = Elders[d]
  /\ Kids'[p] \in Lists!Results(Kids[p], c)
  /\ Elders'[c] \in Lists!Results(Elders[c], p)
  /\ c \in ToSet(Kids'[p]) <=> p \in ToSet(Elders'[c])
  /\ assoctype # "n:m" => Len(Elders'[c]) <= 1
  /\ assoctype = "1:1" => Len(Kids'[p]) <= 1

LEMMA ChangesIsNext ==
  ASSUME NEW p \in Parents, NEW c \in Children, Changes(p, c), UNCHANGED assoctype
  PROVE  Lists!Next
<1> DEFINE now == [children |-> Kids, parents |-> Elders]
           next == [children |-> Kids', parents |-> Elders']
<1>1. Lists!Lists = now /\ Lists!Lists' = next
  BY DEF Lists!Lists, Kids, Elders, KidsOf, EldersOf
<1>2. next.children = [now.children EXCEPT ![p] = next.children[p]]
  <2>1. Kids = [q \in Parents |-> Kids[q]] /\ Kids' = [q \in Parents |-> Kids'[q]]
    BY DEF Kids
  <2>2. Kids' = [Kids EXCEPT ![p] = Kids'[p]]
    BY <2>1 DEF Changes
  <2> QED
    BY <2>2
<1>3. next.parents = [now.parents EXCEPT ![c] = next.parents[c]]
  <2>1. Elders = [d \in Children |-> Elders[d]] /\ Elders' = [d \in Children |-> Elders'[d]]
    BY DEF Elders
  <2>2. Elders' = [Elders EXCEPT ![c] = Elders'[c]]
    BY <2>1 DEF Changes
  <2> QED
    BY <2>2
<1>4. /\ next.children[p] \in Lists!Results(now.children[p], c)
      /\ next.parents[c] \in Lists!Results(now.parents[c], p)
      /\ c \in ToSet(next.children[p]) <=> p \in ToSet(next.parents[c])
      /\ assoctype # "n:m" => Len(next.parents[c]) <= 1
      /\ assoctype = "1:1" => Len(next.children[p]) <= 1
  BY DEF Changes
<1> HIDE DEF now, next
<1>5. Lists!Change(p, c, now, next)
  BY <1>2, <1>3, <1>4 DEF Lists!Change, Lists!ToSet, ToSet
<1> QED
  BY <1>1, <1>5 DEF Lists!Next

(* A pointer as a sequence.                                                *)
LEMMA SequenceFacts ==
  ASSUME NEW x, NEW y, NEW p, p # Nil, x \in {Nil, p}, y \in {Nil, p}
  PROVE  /\ Sequence(y) \in Lists!Results(Sequence(x), p)
         /\ Len(Sequence(y)) <= 1
         /\ p \in ToSet(Sequence(y)) <=> y = p
<1>1. <<p>> \in Seq({p}) /\ Len(<<p>>) = 1 /\ 1 \in 1..Len(<<p>>) /\ <<p>>[1] = p
  OBVIOUS
<1>2. <<>> \in Seq({p}) /\ Len(<<>>) = 0
  OBVIOUS
<1>3. Lists!Without(Sequence(x), p) = <<>>
  <2>1. CASE x = Nil
    <3> DEFINE s == <<>>
    <3>1. s \in Seq({p}) /\ \A i \in 1..Len(s) : s[i] # p
      OBVIOUS
    <3> HIDE DEF s
    <3>2. Lists!Without(s, p) = s
      BY <3>1, WithoutNone
    <3> QED
      BY <2>1, <3>2 DEF Sequence, s
  <2>2. CASE x # Nil
    <3> DEFINE s == <<p>>
    <3>1. s \in Seq({p}) /\ NoTwice(s) /\ 1 \in 1..Len(s) /\ s[1] = p /\ Len(s) = 1
      BY <1>1 DEF NoTwice
    <3> HIDE DEF s
    <3>2. Lists!Without(s, s[1]) = RemoveAt(s, 1)
      BY <3>1, WithoutAt
    <3>3. RemoveAt(s, 1) \in Seq({p}) /\ Len(RemoveAt(s, 1)) = Len(s) - 1
      BY <3>1, RemoveAtProperties
    <3>4. RemoveAt(s, 1) = <<>>
      <4> DEFINE t == RemoveAt(s, 1)
      <4>1. t \in Seq({p}) /\ Len(t) = 0
        BY <3>1, <3>3
      <4> HIDE DEF t
      <4>2. t = <<>>
        BY <4>1
      <4> QED
        BY <4>2 DEF t
    <3> QED
      BY <2>2, <3>1, <3>2, <3>4 DEF s, Sequence
  <2> QED
    BY <2>1, <2>2
<1>4. CASE y = Nil
  <2>1. Lists!Without(Sequence(x), p) \in Lists!Results(Sequence(x), p)
    BY WithoutResults
  <2> QED
    BY <1>2, <1>3, <1>4, <2>1 DEF Sequence, ToSet
<1>5. CASE y # Nil
  <2>1. InsertAt(<<>>, 1, p) \in Lists!Results(Sequence(x), p)
    <3> DEFINE w == Lists!Without(Sequence(x), p)
    <3>1. 1 \in 1..Len(w) + 1
      BY <1>2, <1>3
    <3> HIDE DEF w
    <3>2. 1 \in 1..Len(Lists!Without(Sequence(x), p)) + 1
      BY <3>1 DEF w
    <3>3. InsertAt(Lists!Without(Sequence(x), p), 1, p) \in Lists!Results(Sequence(x), p)
      BY <3>2, InsertedResults
    <3> QED
      BY <1>3, <3>3
  <2>2. InsertAt(<<>>, 1, p) = <<p>>
    <3> DEFINE none == <<>>
               Only == {p}
    <3>1. PICK i \in 1..1 : i = 1
      OBVIOUS
    <3>2. none \in Seq(Only) /\ i \in 1..Len(none) + 1 /\ p \in Only
      BY <1>2, <3>1
    <3>3. Len(none) = 0
      BY <1>2
    <3> HIDE DEF none, Only
    <3> DEFINE t == InsertAt(none, i, p)
    <3>4. /\ t \in Seq(Only) /\ Len(t) = Len(none) + 1
          /\ \A j \in 1..Len(none) + 1 : t[j] = IF j < i THEN none[j] ELSE IF j = i THEN p ELSE none[j - 1]
      BY <3>2, InsertAtProperties
    <3> HIDE DEF t
    <3>5. t \in Seq(Only) /\ Len(t) = 1 /\ t[1] = p
      BY <3>1, <3>4, <3>3
    <3>6. t = <<p>>
      BY <3>5
    <3> QED
      BY <3>1, <3>6 DEF t, none
  <2> QED
    BY <1>1, <1>5, <2>1, <2>2 DEF Sequence, ToSet
<1> QED
  BY <1>4, <1>5

----------------------------------------------------------------------------
(* Each action is a step of the abstract lists, or none.                   *)

LEMMA NothingChanges ==
  ASSUME UNCHANGED vars
  PROVE  UNCHANGED Lists!vars
BY DEF vars, Lists!vars

(* 1:n associations.                                                       *)
LEMMA ListLinked ==
  ASSUME IInv, assoctype = "1:n", UNCHANGED <<assoctype, local, pairs, many>>,
         Sound(links', Parents, Children), NEW p \in Parents, NEW c \in Children,
         links.pparent[c] \in {Nil, p}, links'.pparent[c] \in {Nil, p},
         \A d \in Children : d # c => links'.pparent[d] = links.pparent[d],
         ChildrenOf(links', p) \in Lists!Results(ChildrenOf(links, p), c),
         \A q \in Parents : q # p => ChildrenOf(links', q) = ChildrenOf(links, q)
  PROVE  Lists!Next
<1>1. Nil \notin Parents \cup Children /\ IsFiniteSet(Children) /\ p # Nil
  BY ManyLinksAssumption, AssociationAssumption
<1>2. /\ \A q \in Parents : Kids[q] = ChildrenOf(links, q) /\ Kids'[q] = ChildrenOf(links', q)
      /\ \A d \in Children : Elders[d] = Sequence(links.pparent[d]) /\ Elders'[d] = Sequence(links'.pparent[d])
  BY DEF Kids, Elders, KidsOf, EldersOf
<1> DEFINE x == links.pparent[c]
           y == links'.pparent[c]
           s == ChildrenOf(links', p)
<1>3. x \in {Nil, p} /\ y \in {Nil, p}
  OBVIOUS
<1>4. c \in ToSet(s) <=> y = p
  BY <1>1, ChildrenListed
<1> HIDE DEF x, y
<1>5. /\ Sequence(y) \in Lists!Results(Sequence(x), p)
      /\ Len(Sequence(y)) <= 1
      /\ p \in ToSet(Sequence(y)) <=> y = p
  BY <1>1, <1>3, SequenceFacts
<1>6. Changes(p, c)
  BY <1>2, <1>4, <1>5 DEF Changes, x, y
<1> QED
  BY <1>6, ChangesIsNext

(* n:m associations.                                                       *)
LEMMA ManyLinked ==
  ASSUME IInv, assoctype = "n:m", UNCHANGED <<assoctype, local, links, pairs>>,
         ManySound(many'), NEW p \in Parents, NEW c \in Children,
         ManyChildren(many', p) \in Lists!Results(ManyChildren(many, p), c),
         ManyParents(many', c) \in Lists!Results(ManyParents(many, c), p),
         \A q \in Parents : q # p => ManyChildren(many', q) = ManyChildren(many, q),
         \A d \in Children : d # c => ManyParents(many', d) = ManyParents(many, d)
  PROVE  Lists!Next
<1>1. /\ \A q \in Parents : Kids[q] = ManyChildren(many, q) /\ Kids'[q] = ManyChildren(many', q)
      /\ \A d \in Children : Elders[d] = ManyParents(many, d) /\ Elders'[d] = ManyParents(many', d)
  BY DEF Kids, Elders, KidsOf, EldersOf
<1>2. c \in ToSet(ManyChildren(many', p)) <=> p \in ToSet(ManyParents(many', c))
  BY ManySequences
<1>3. Changes(p, c)
  BY <1>1, <1>2 DEF Changes
<1> QED
  BY <1>3, ChangesIsNext

(* 1:1 associations.                                                       *)
LEMMA PairLinked ==
  ASSUME IInv, assoctype = "1:1", UNCHANGED <<assoctype, local, links, many>>,
         NEW p \in Parents, NEW c \in Children, NEW x, NEW y,
         pairs.child[p] \in {Nil, c}, pairs.parent[c] \in {Nil, p},
         x \in {Nil, c}, y \in {Nil, p}, x = c <=> y = p,
         pairs' = [child |-> [pairs.child EXCEPT ![p] = x], parent |-> [pairs.parent EXCEPT ![c] = y]]
  PROVE  Lists!Next
<1>1. p # Nil /\ c # Nil
  BY ManyLinksAssumption
<1>2. /\ \A q \in Parents : Kids[q] = Sequence(pairs.child[q]) /\ Kids'[q] = Sequence(pairs'.child[q])
      /\ \A d \in Children : Elders[d] = Sequence(pairs.parent[d]) /\ Elders'[d] = Sequence(pairs'.parent[d])
  BY DEF Kids, Elders, KidsOf, EldersOf
<1>3. /\ \A q \in Parents : pairs'.child[q] = IF q = p THEN x ELSE pairs.child[q]
      /\ \A d \in Children : pairs'.parent[d] = IF d = c THEN y ELSE pairs.parent[d]
  BY DEF IInv, PairsSound, Pairs
<1>4. /\ Sequence(x) \in Lists!Results(Sequence(pairs.child[p]), c)
      /\ Len(Sequence(x)) <= 1
      /\ c \in ToSet(Sequence(x)) <=> x = c
  <2> DEFINE u == pairs.child[p]
  <2>1. u \in {Nil, c}
    OBVIOUS
  <2> HIDE DEF u
  <2>2. /\ Sequence(x) \in Lists!Results(Sequence(u), c)
        /\ Len(Sequence(x)) <= 1
        /\ c \in ToSet(Sequence(x)) <=> x = c
    BY <1>1, <2>1, SequenceFacts
  <2> QED
    BY <2>2 DEF u
<1>5. /\ Sequence(y) \in Lists!Results(Sequence(pairs.parent[c]), p)
      /\ Len(Sequence(y)) <= 1
      /\ p \in ToSet(Sequence(y)) <=> y = p
  <2> DEFINE u == pairs.parent[c]
  <2>1. u \in {Nil, p}
    OBVIOUS
  <2> HIDE DEF u
  <2>2. /\ Sequence(y) \in Lists!Results(Sequence(u), p)
        /\ Len(Sequence(y)) <= 1
        /\ p \in ToSet(Sequence(y)) <=> y = p
    BY <1>1, <2>1, SequenceFacts
  <2> QED
    BY <2>2 DEF u
<1>6. Changes(p, c)
  BY <1>2, <1>3, <1>4, <1>5 DEF Changes
<1> QED
  BY <1>6, ChangesIsNext

LEMMA LinkStep ==
  ASSUME IInv, IInv', NEW p \in Parents, NEW c \in Children, NEW place \in Wanted, Link(p, c, place)
  PROVE  Lists!Next \/ UNCHANGED vars
<1> DEFINE clash == Clash(p, c)
           m == UnlinkOutcome(links, p, c)
           prev == Predecessor(m, p, place)
           next == Successor(m, p, place)
<1>1. /\ Nil \notin Parents \cup Children /\ Sound(links, Parents, Children) /\ Sound(links', Parents, Children)
      /\ IsKnown(place) => place \in Known(Children)
  BY ManyLinksAssumption DEF IInv, Wanted, Place, IsKnown, Simple
<1>2. links' = LinkOutcome(links, p, c, place, clash)
  BY DEF Link
<1>3. CASE \/ LinkResult(links, p, c, place, clash) # "OK"
           \/ links.pparent[c] = p /\ InPlace(links, p, c, place)
  BY <1>2, <1>3 DEF LinkOutcome, Link, vars
<1>4. CASE ~(\/ LinkResult(links, p, c, place, clash) # "OK"
             \/ links.pparent[c] = p /\ InPlace(links, p, c, place))
  <2>1. links.pparent[c] \in {Nil, p}
    BY <1>4 DEF LinkResult
  <2>2. /\ place \in Known(Children)
        /\ Sound(m, Parents, Children) /\ m.pparent[c] = Nil
        /\ place.hint \in Relative => m.pparent[place.rel] = p
    BY <1>1, <1>4, LinkGoesOn
  <2>3. links' = Spliced(m, p, c, prev, next)
    BY <1>2, <1>4 DEF LinkOutcome, Placed
  <2>4. Adjacent(m, p, prev, next)
    BY <1>1, <2>2, PlaceAdjacent
  <2>5. /\ ChildrenOf(m, p) = Lists!Without(ChildrenOf(links, p), c)
        /\ \A q \in Parents : q # p => ChildrenOf(m, q) = ChildrenOf(links, q)
    BY <1>1, UnlinkedWithout
  <2>6. \A d \in Children : m.pparent[d] = IF d = c THEN Nil ELSE links.pparent[d]
    BY <1>1, <2>1 DEF UnlinkOutcome, Unlinked, Sound, LinkTables
  <2> HIDE DEF m, prev, next, clash
  <2>7. \A d \in Children : links'.pparent[d] = IF d = c THEN p ELSE links.pparent[d]
    BY <2>2, <2>3, <2>6 DEF Spliced, Sound, LinkTables
  <2>8. /\ \E i \in 1..Len(ChildrenOf(m, p)) + 1 : ChildrenOf(links', p) = InsertAt(ChildrenOf(m, p), i, c)
        /\ \A q \in Parents : q # p => ChildrenOf(links', q) = ChildrenOf(m, q)
    BY <2>2, <2>3, <2>4, SplicedResults
  <2>9. ChildrenOf(links', p) \in Lists!Results(ChildrenOf(links, p), c)
    BY <2>5, <2>8, InsertedResults
  <2>10. \A q \in Parents : q # p => ChildrenOf(links', q) = ChildrenOf(links, q)
    BY <2>5, <2>8
  <2>11. assoctype = "1:n" /\ UNCHANGED <<assoctype, local, pairs, many>>
    BY DEF Link
  <2> QED
    BY <1>1, <2>1, <2>7, <2>9, <2>10, <2>11, ListLinked
<1> QED
  BY <1>3, <1>4

LEMMA UnlinkStep ==
  ASSUME IInv, IInv', NEW p \in Parents, NEW c \in Children, Unlink(p, c)
  PROVE  Lists!Next \/ UNCHANGED vars
<1>1. /\ Nil \notin Parents \cup Children /\ Sound(links, Parents, Children) /\ Sound(links', Parents, Children)
  BY ManyLinksAssumption DEF IInv
<1>2. links' = UnlinkOutcome(links, p, c) /\ assoctype = "1:n" /\ UNCHANGED <<assoctype, local, pairs, many>>
  BY DEF Unlink
<1>3. CASE links.pparent[c] # p
  BY <1>2, <1>3 DEF UnlinkOutcome, vars
<1>4. CASE links.pparent[c] = p
  <2>1. \A d \in Children : links'.pparent[d] = IF d = c THEN Nil ELSE links.pparent[d]
    BY <1>1, <1>2, <1>4 DEF UnlinkOutcome, Unlinked, Sound, LinkTables
  <2>2. /\ ChildrenOf(links', p) = Lists!Without(ChildrenOf(links, p), c)
        /\ \A q \in Parents : q # p => ChildrenOf(links', q) = ChildrenOf(links, q)
    BY <1>1, <1>2, UnlinkedWithout
  <2>3. ChildrenOf(links', p) \in Lists!Results(ChildrenOf(links, p), c)
    BY <2>2, WithoutResults
  <2> QED
    BY <1>1, <1>2, <1>4, <2>1, <2>2, <2>3, ListLinked
<1> QED
  BY <1>3, <1>4

LEMMA DoLinkStep ==
  ASSUME IInv, IInv', NEW p \in Parents, NEW c \in Children, DoLink(p, c)
  PROVE  Lists!Next
<1>1. /\ Nil \notin Parents \cup Children /\ Sound(links, Parents, Children) /\ Sound(links', Parents, Children)
  BY ManyLinksAssumption DEF IInv
<1> DEFINE prev == links.plast[p]
<1>2. /\ links' = Spliced(links, p, c, prev, Nil) /\ assoctype = "1:n"
      /\ links.pparent[c] = Nil /\ UNCHANGED <<assoctype, local, pairs, many>>
  BY DEF DoLink
<1>3. Adjacent(links, p, prev, Nil)
  BY <1>1 DEF Adjacent, Sound, LinkTables, HeadsAgree, HeadsPaired
<1> HIDE DEF prev
<1>4. \A d \in Children : links'.pparent[d] = IF d = c THEN p ELSE links.pparent[d]
  BY <1>1, <1>2 DEF Spliced, Sound, LinkTables
<1>5. /\ \E i \in 1..Len(ChildrenOf(links, p)) + 1 : ChildrenOf(links', p) = InsertAt(ChildrenOf(links, p), i, c)
      /\ \A q \in Parents : q # p => ChildrenOf(links', q) = ChildrenOf(links, q)
  BY <1>1, <1>2, <1>3, SplicedResults
<1>6. UnlinkOutcome(links, p, c) = links
  BY <1>1, <1>2 DEF UnlinkOutcome
<1>7. ChildrenOf(links, p) = Lists!Without(ChildrenOf(links, p), c)
  BY <1>1, <1>6, UnlinkedWithout
<1>8. ChildrenOf(links', p) \in Lists!Results(ChildrenOf(links, p), c)
  BY <1>5, <1>7, InsertedResults
<1> QED
  BY <1>1, <1>2, <1>4, <1>5, <1>8, ListLinked

LEMMA NoFirstChild ==
  ASSUME NEW P, NEW C, Nil \notin P \cup C, IsFiniteSet(C), NEW l, Sound(l, P, C), NEW p \in P, l.pfirst[p] = Nil
  PROVE  ChildrenOf(l, p) = <<>>
<1> DEFINE s == ChildrenOf(l, p)
<1>1. IsList(l, p, C, s)
  BY ChildrenAreList
<1> HIDE DEF s
<1>2. s \in Seq(C) /\ At(s, 1) = Nil
  BY <1>1 DEF IsList
<1>3. Len(s) = 0
  BY <1>2 DEF At
<1>4. s = <<>>
  BY <1>2, <1>3
<1> QED
  BY <1>4 DEF s

LEMMA InitLists == Init => Lists!Init
<1> SUFFICES ASSUME Init PROVE Lists!Init
  OBVIOUS
<1>1. IInv
  BY InitSound
<1>2. Nil \notin Parents \cup Children /\ IsFiniteSet(Children)
  BY ManyLinksAssumption, AssociationAssumption
<1>3. \A p \in Parents : ChildrenOf(links, p) = <<>>
  BY <1>1, <1>2, NoFirstChild DEF IInv, Init, Empty
<1>4. \A p \in Parents : Sequence(pairs.child[p]) = <<>>
  BY DEF Init, Sequence
<1>5. \A c \in Children : Sequence(pairs.parent[c]) = <<>> /\ Sequence(links.pparent[c]) = <<>>
  BY DEF Init, Sequence, Empty
<1>6. (\A p \in Parents : ManyChildren(many, p) = <<>>) /\ \A c \in Children : ManyParents(many, c) = <<>>
  <2>1. /\ Nil \notin Parents \cup Blocks /\ Nil \notin Children \cup Blocks /\ IsFiniteSet(Blocks)
        /\ Sound(many.parent, Parents, Blocks) /\ Sound(many.child, Children, Blocks)
    BY <1>1, ManyBelong DEF IInv
  <2>2. /\ \A p \in Parents : many.parent.pfirst[p] = Nil
        /\ \A c \in Children : many.child.pfirst[c] = Nil
    BY DEF Init, NoLinks, Empty
  <2>3. \A p \in Parents : ChildrenOf(many.parent, p) = <<>>
    BY <2>1, <2>2, NoFirstChild
  <2>4. \A c \in Children : ChildrenOf(many.child, c) = <<>>
    BY <2>1, <2>2, NoFirstChild
  <2>5. \A f : Mapped(<<>>, f) = <<>>
    BY DEF Mapped
  <2> QED
    BY <2>3, <2>4, <2>5, ManyMapped
<1>7. assoctype \in {"1:1", "1:n", "n:m"}
  BY DEF Init
<1>8. (\A p \in Parents : KidsOf(p) = <<>>) /\ \A c \in Children : EldersOf(c) = <<>>
  BY <1>3, <1>4, <1>5, <1>6, <1>7 DEF KidsOf, EldersOf
<1>9. Kids = [p \in Parents |-> <<>>] /\ Elders = [c \in Children |-> <<>>]
  BY <1>8 DEF Kids, Elders
<1> QED
  BY <1>7, <1>9 DEF Lists!Init, Kids, Elders, KidsOf, EldersOf

LEMMA NextLists == IInv /\ IInv' /\ [Next]_vars => [Lists!Next]_Lists!vars
<1> SUFFICES ASSUME IInv, IInv', [Next]_vars
             PROVE  Lists!Next \/ UNCHANGED vars
  BY NothingChanges
<1>0. ManySound(many) /\ ManySound(many')
  BY DEF IInv
<1>1. ASSUME NEW p \in Parents, NEW c \in Children, NEW place \in Wanted, Link(p, c, place)
      PROVE  Lists!Next \/ UNCHANGED vars
  BY <1>1, LinkStep
<1>2. ASSUME NEW p \in Parents, NEW c \in Children, Unlink(p, c)
      PROVE  Lists!Next \/ UNCHANGED vars
  BY <1>2, UnlinkStep
<1>3. ASSUME NEW p \in Parents, NEW c \in Children, DoLink(p, c)
      PROVE  Lists!Next \/ UNCHANGED vars
  BY <1>3, DoLinkStep
<1>4. ASSUME NEW p \in Parents, NEW c \in Children, NEW parenthint \in Hints, LinkPair(p, c, parenthint)
      PROVE  Lists!Next
  <2>1. /\ pairs.child[p] = Nil /\ pairs.parent[c] = Nil /\ assoctype = "1:1"
        /\ UNCHANGED <<assoctype, local, links, many>>
        /\ pairs' = [child |-> [pairs.child EXCEPT ![p] = c], parent |-> [pairs.parent EXCEPT ![c] = p]]
    BY <1>4 DEF LinkPair, PairResult
  <2> QED
    BY <2>1, PairLinked
<1>5. ASSUME NEW p \in Parents, NEW c \in Children, UnlinkPair(p, c)
      PROVE  Lists!Next
  <2>1. /\ pairs.parent[c] = p /\ assoctype = "1:1"
        /\ UNCHANGED <<assoctype, local, links, many>>
        /\ pairs' = [child |-> [pairs.child EXCEPT ![p] = Nil], parent |-> [pairs.parent EXCEPT ![c] = Nil]]
    BY <1>5 DEF UnlinkPair
  <2>2. pairs.child[p] = c
    BY <2>1 DEF IInv, PairsSound
  <2>3. p # Nil /\ c # Nil
    BY ManyLinksAssumption
  <2>4. Nil = c <=> Nil = p
    BY <2>3
  <2> QED
    BY <2>1, <2>2, <2>4, PairLinked
<1>6. ASSUME NEW p \in Parents, NEW c \in Children, NEW place \in ManyPlaces,
             NEW b \in Available(many, p, c), LinkMany(p, c, place, b)
      PROVE  Lists!Next \/ UNCHANGED vars
  <2>1. assoctype = "n:m" /\ UNCHANGED <<assoctype, local, links, pairs>>
    BY <1>6 DEF LinkMany
  <2>2. \/ many' = many
        \/ /\ ManyChildren(many', p) \in Lists!Results(ManyChildren(many, p), c)
           /\ ManyParents(many', c) \in Lists!Results(ManyParents(many, c), p)
           /\ \A q \in Parents : q # p => ManyChildren(many', q) = ManyChildren(many, q)
           /\ \A d \in Children : d # c => ManyParents(many', d) = ManyParents(many, d)
    BY <1>0, <1>6, LinkSequences DEF LinkMany
  <2>3. CASE many' = many
    BY <2>1, <2>3 DEF vars
  <2>4. CASE many' # many
    BY <1>0, <2>1, <2>2, <2>4, ManyLinked
  <2> QED
    BY <2>3, <2>4
<1>7. ASSUME NEW p \in Parents, NEW c \in Children, UnlinkMany(p, c)
      PROVE  Lists!Next
  <2>1. assoctype = "n:m" /\ UNCHANGED <<assoctype, local, links, pairs>>
    BY <1>7 DEF UnlinkMany
  <2>2. /\ ManyChildren(many', p) = Lists!Without(ManyChildren(many, p), c)
        /\ ManyParents(many', c) = Lists!Without(ManyParents(many, c), p)
        /\ \A q \in Parents : q # p => ManyChildren(many', q) = ManyChildren(many, q)
        /\ \A d \in Children : d # c => ManyParents(many', d) = ManyParents(many, d)
    BY <1>0, <1>7, WithoutLinkSequences DEF UnlinkMany
  <2>3. /\ ManyChildren(many', p) \in Lists!Results(ManyChildren(many, p), c)
        /\ ManyParents(many', c) \in Lists!Results(ManyParents(many, c), p)
    BY <2>2, WithoutResults
  <2> QED
    BY <1>0, <2>1, <2>2, <2>3, ManyLinked
<1> QED
  BY <1>1, <1>2, <1>3, <1>4, <1>5, <1>6, <1>7 DEF Next

(* The pointers implement sequences of children and of parents: linking,   *)
(* moving and unlinking changes the two sequences of the objects that are  *)
(* named, at one position each, and no other one.                          *)
THEOREM SequencesImplemented == Spec => ImplementsSequences
<1>1. Init => Lists!Init
  BY InitLists
<1>2. IInv /\ IInv' /\ [Next]_vars => [Lists!Next]_Lists!vars
  BY NextLists
<1> QED
  BY <1>1, <1>2, InitSound, NextSound, PTL DEF Spec, ImplementsSequences, Lists!Spec

(* Iterating over the children of a parent finds each of them once.        *)
THEOREM EachFoundOnce == Spec => []AllFound
<1>1. IInv => AllFound
  <2> SUFFICES ASSUME IInv, NEW p \in Parents
               PROVE  /\ ToSet(ChildrenOf(links, p)) = {c \in Children : links.pparent[c] = p}
                      /\ IsInjective(ChildrenOf(links, p))
    BY DEF AllFound
  <2>1. Nil \notin Parents \cup Children /\ IsFiniteSet(Children) /\ Sound(links, Parents, Children)
    BY ManyLinksAssumption, AssociationAssumption DEF IInv
  <2> DEFINE s == ChildrenOf(links, p)
  <2>2. ToSet(s) = {c \in Children : links.pparent[c] = p}
    BY <2>1, ChildrenListed
  <2>3. s \in Seq(Children) /\ \A i, j \in 1..Len(s) : i # j => s[i] # s[j]
    BY <2>1, ChildrenOnce
  <2> HIDE DEF s
  <2>4. IsInjective(s)
    BY <2>3 DEF IsInjective
  <2> QED
    BY <2>2, <2>4 DEF s
<1> QED
  BY InitSound, NextSound, <1>1, PTL DEF Spec

----------------------------------------------------------------------------
(* The other side of a link that is moved.                                 *)

(* An element that is taken out and put back where it was.                 *)
LEMMA PutBack ==
  ASSUME NEW S, NEW s \in Seq(S), NEW i \in 1..Len(s)
  PROVE  InsertAt(RemoveAt(s, i), i, s[i]) = s
<1> DEFINE t == RemoveAt(s, i)
           e == s[i]
           u == InsertAt(t, i, e)
<1>1. /\ t \in Seq(S) /\ Len(t) = Len(s) - 1 /\ Len(s) \in Nat
      /\ \A j \in 1..Len(s) - 1 : t[j] = IF j < i THEN s[j] ELSE s[j + 1]
  BY RemoveAtProperties
<1>2. e \in S /\ i \in 1..Len(s)
  OBVIOUS
<1> HIDE DEF t, e
<1>3. i \in 1..Len(t) + 1
  BY <1>1, <1>2
<1>4. /\ u \in Seq(S) /\ Len(u) = Len(t) + 1
      /\ \A j \in 1..Len(t) + 1 : u[j] = IF j < i THEN t[j] ELSE IF j = i THEN e ELSE t[j - 1]
  BY <1>1, <1>2, <1>3, InsertAtProperties
<1> HIDE DEF u
<1>5. \A j \in 1..Len(u) : u[j] = s[j]
  <2> SUFFICES ASSUME NEW j \in 1..Len(s)
               PROVE  u[j] = s[j]
    BY <1>1, <1>4
  <2>1. CASE j < i
    <3>1. j \in 1..Len(s) - 1 /\ j \in 1..Len(t) + 1
      BY <1>1, <1>2, <2>1
    <3>2. u[j] = t[j] /\ t[j] = s[j]
      BY <1>1, <1>4, <2>1, <3>1
    <3> QED
      BY <3>2
  <2>2. CASE j = i
    BY <1>3, <1>4, <2>2 DEF e
  <2>3. CASE j > i
    <3>1. j - 1 \in 1..Len(s) - 1 /\ j \in 1..Len(t) + 1 /\ ~(j - 1 < i) /\ (j - 1) + 1 = j
      BY <1>1, <1>2, <2>3
    <3>2. u[j] = t[j - 1] /\ t[j - 1] = s[j]
      BY <1>1, <1>4, <2>3, <3>1
    <3> QED
      BY <3>2
  <2> QED
    BY <1>1, <2>1, <2>2, <2>3
<1>6. u = s
  BY <1>1, <1>4, <1>5, SeqEqual
<1> QED
  BY <1>6 DEF t, e, u

(* The previous child is another one of the same parent.                   *)
LEMMA PreviousIsAnother ==
  ASSUME NEW P, NEW C, Nil \notin P \cup C, NEW l, Sound(l, P, C), NEW b \in C, l.pprevious[b] # Nil
  PROVE  l.pprevious[b] \in C /\ l.pprevious[b] # b /\ l.pparent[l.pprevious[b]] = l.pparent[b]
<1> DEFINE d == l.pprevious[b]
<1>1. d \in C /\ l.pnext[d] = b /\ l.pparent[d] = l.pparent[b]
  BY DEF Sound, AnchorsAgree, LinkTables
<1>2. PICK rank \in [C -> Nat] : \A e \in C : l.pnext[e] # Nil => rank[e] < rank[l.pnext[e]]
  BY DEF Sound, Acyclic, Ranks, LinkTables
<1>3. rank[b] \in Nat
  OBVIOUS
<1> QED
  BY <1>1, <1>2, <1>3

(* The place that a default is replaced by is where the link was.          *)
LEMMA KeptPredecessor ==
  ASSUME NEW P, NEW C, Nil \notin P \cup C, IsFiniteSet(C), NEW l, Sound(l, P, C), NEW p \in P,
         NEW b \in C, l.pparent[b] = p, NEW i \in 1..Len(ChildrenOf(l, p)), ChildrenOf(l, p)[i] = b,
         NEW half, half.hint = "DEFAULT", NEW others,
         NEW r, l.pprevious[b] # Nil => r = l.pprevious[b]
  PROVE  LET n == Unlinked(l, p, b)
             s == ChildrenOf(n, p)
         IN  /\ i \in 1..Len(s) + 1
             /\ Before(s, i) = Predecessor(n, p, InList(Kept(l, others, b, half), r))
<1> DEFINE n == Unlinked(l, p, b)
           t == ChildrenOf(l, p)
           s == ChildrenOf(n, p)
           kept == Kept(l, others, b, half)
<1>1. t \in Seq(C) /\ Len(t) \in Nat /\ l.pprevious[b] = Before(t, i)
  BY ChildrenOnce
<1>2. s = RemoveAt(t, i)
  BY ChildrenUnlinked
<1>3. n \in LinkTables(P, C) /\ HeadsAgree(n)
  BY UnlinkedSound DEF Sound
<1>4. IF l.pprevious[b] # Nil THEN kept = [hint |-> "AFTER", rel |-> others[l.pprevious[b]]]
      ELSE kept = [hint |-> "BEGIN", rel |-> Nil]
  BY DEF Kept
<1> SUFFICES /\ i \in 1..Len(s) + 1
             /\ Before(s, i) = Predecessor(n, p, InList(kept, r))
  OBVIOUS
<1> HIDE DEF n, t, s, kept
<1>5. /\ Len(s) = Len(t) - 1
      /\ \A j \in 1..Len(t) - 1 : s[j] = IF j < i THEN t[j] ELSE t[j + 1]
  BY <1>1, <1>2, RemoveAtProperties DEF t
<1>6. i \in 1..Len(t)
  BY DEF t
<1>7. Before(s, i) = Before(t, i)
  BY <1>1, <1>5, <1>6 DEF Before
<1>8. i \in 1..Len(s) + 1
  BY <1>1, <1>5, <1>6
<1>9. CASE l.pprevious[b] # Nil
  BY <1>1, <1>4, <1>7, <1>8, <1>9 DEF Predecessor, InList, Relative
<1>10. CASE l.pprevious[b] = Nil
  <2>1. Predecessor(n, p, InList(kept, r)) = Previous(n, n.pfirst[p])
    BY <1>4, <1>10 DEF Predecessor, InList
  <2>2. Previous(n, n.pfirst[p]) = Nil
    BY <1>3 DEF Previous, HeadsAgree, LinkTables
  <2> QED
    BY <1>1, <1>7, <1>8, <1>10, <2>1, <2>2
<1> QED
  BY <1>9, <1>10

(* What is removed and made again at the place that it had is as before.   *)
LEMMA MovedBack ==
  ASSUME NEW m, ManySound(m), NEW p \in Parents, NEW c \in Children, Between(m, p, c) # Nil,
         NEW place, NEW b \in Blocks, b \in Allocated(WithoutLink(m, p, c)),
         LET kept == KeptPlace(m, Between(m, p, c), place)
         IN  /\ Half(kept.parent, Parents) /\ Half(kept.child, Children)
             /\ ~Misplaced(WithoutLink(m, p, c), p, c, kept)
  PROVE  LET a == Fresh(WithoutLink(m, p, c), p, c, KeptPlace(m, Between(m, p, c), place), b).links
         IN  /\ place.parent.hint = "DEFAULT" => ManyParents(a, c) = ManyParents(m, c)
             /\ place.child.hint = "DEFAULT" => ManyChildren(a, p) = ManyChildren(m, p)
<1> DEFINE l == Between(m, p, c)
           n == WithoutLink(m, p, c)
           kept == KeptPlace(m, l, place)
           a == Fresh(n, p, c, kept, b).links
           s == ChildrenOf(m.parent, p)
           t == ChildrenOf(m.child, c)
           x == ChildPlace(n, p, kept)
           y == ParentPlace(n, c, kept)
<1>1. /\ Nil \notin Parents \cup Blocks /\ Nil \notin Children \cup Blocks /\ IsFiniteSet(Blocks)
      /\ Sound(m.parent, Parents, Blocks) /\ Sound(m.child, Children, Blocks)
      /\ Belong(m.parent, Blocks, m.child.pparent, Children)
      /\ Belong(m.child, Blocks, m.parent.pparent, Parents)
  BY ManyBelong
<1>2. l \in Blocks /\ m.parent.pparent[l] = p /\ m.child.pparent[l] = c
  BY BetweenFinds DEF PParent, PChild
<1>3. ManySound(n) /\ Between(n, p, c) = Nil
  BY WithoutIsSound
<1>4. \A d \in Blocks : d # l => PParent(n, d) = PParent(m, d) /\ PChild(n, d) = PChild(m, d)
  BY WithoutIsSound
<1>5. n.parent = Unlinked(m.parent, p, l) /\ n.child = Unlinked(m.child, c, l)
  BY DEF WithoutLink, Removed
<1>6. PICK i \in 1..Len(s) : s[i] = l
  BY <1>1, <1>2, ChildrenOnce
<1>7. PICK j \in 1..Len(t) : t[j] = l
  BY <1>1, <1>2, ChildrenOnce
<1>8. ManyChildren(n, p) = RemoveAt(ManyChildren(m, p), i) /\ ManyParents(n, c) = RemoveAt(ManyParents(m, c), j)
  BY <1>6, <1>7, RemovedAt
<1>9. /\ ManyChildren(m, p) = Mapped(s, m.child.pparent) /\ s \in Seq(Blocks)
      /\ ManyParents(m, c) = Mapped(t, m.parent.pparent) /\ t \in Seq(Blocks)
  BY <1>1, ManyMapped, ChildrenOnce
<1>10. ManyChildren(m, p) \in Seq(Children) /\ ManyParents(m, c) \in Seq(Parents)
  BY ManySequences
<1>11. b # Nil /\ Half(kept.parent, Parents) /\ Half(kept.child, Children) /\ ~Misplaced(n, p, c, kept)
  BY <1>1
<1>12. b \in Allocated(n)
  OBVIOUS
<1> SUFFICES /\ place.parent.hint = "DEFAULT" => ManyParents(a, c) = ManyParents(m, c)
             /\ place.child.hint = "DEFAULT" => ManyChildren(a, p) = ManyChildren(m, p)
  OBVIOUS
<1> HIDE DEF l, s, t
<1>13. /\ i \in 1..Len(ManyChildren(m, p)) /\ ManyChildren(m, p)[i] = c
       /\ j \in 1..Len(ManyParents(m, c)) /\ ManyParents(m, c)[j] = p
  <2>1. DOMAIN s = 1..Len(s) /\ DOMAIN t = 1..Len(t)
    BY <1>9
  <2>2. /\ DOMAIN ManyChildren(m, p) = 1..Len(s) /\ DOMAIN ManyParents(m, c) = 1..Len(t)
        /\ ManyChildren(m, p)[i] = c /\ ManyParents(m, c)[j] = p
    BY <1>2, <1>6, <1>7, <1>9, <2>1 DEF Mapped
  <2> QED
    BY <1>6, <1>7, <1>10, <2>2
<1> HIDE DEF n, kept
<1>14. /\ \A k \in 1..Len(ChildrenOf(n.parent, p)) + 1 :
            Before(ChildrenOf(n.parent, p), k) = Predecessor(n.parent, p, x) =>
              ManyChildren(a, p) = InsertAt(ManyChildren(n, p), k, c)
       /\ \A k \in 1..Len(ChildrenOf(n.child, c)) + 1 :
            Before(ChildrenOf(n.child, c), k) = Predecessor(n.child, c, y) =>
              ManyParents(a, c) = InsertAt(ManyParents(n, c), k, p)
  BY <1>3, <1>11, <1>12, FreshAt
<1>15. ASSUME place.parent.hint = "DEFAULT"
       PROVE  ManyParents(a, c) = ManyParents(m, c)
  <2> DEFINE d == m.child.pprevious[l]
             half == Kept(m.child, m.parent.pparent, l, place.parent)
             r == Between(n, half.rel, c)
  <2>1. ASSUME d # Nil
        PROVE  r = d
    <3>1. d \in Blocks /\ d # l /\ m.child.pparent[d] = c
      BY <1>1, <1>2, <2>1, PreviousIsAnother
    <3>2. PChild(n, d) = c /\ PParent(n, d) = m.parent.pparent[d] /\ m.parent.pparent[d] \in Parents
      BY <1>1, <1>4, <3>1 DEF Belong, PChild, PParent
    <3>3. half = [hint |-> "AFTER", rel |-> m.parent.pparent[d]]
      BY <1>15, <2>1 DEF Kept
    <3> QED
      BY <1>3, <3>1, <3>2, <3>3, BetweenFinds
  <2>2. y = InList(half, r)
    BY DEF ParentPlace, KeptPlace, kept
  <2> HIDE DEF half, r
  <2>3. /\ j \in 1..Len(ChildrenOf(n.child, c)) + 1
        /\ Before(ChildrenOf(n.child, c), j) = Predecessor(n.child, c, y)
    BY <1>1, <1>2, <1>5, <1>7, <1>15, <2>1, <2>2, KeptPredecessor DEF t, half
  <2>4. ManyParents(a, c) = InsertAt(RemoveAt(ManyParents(m, c), j), j, p)
    BY <1>8, <1>14, <2>3
  <2> QED
    BY <1>10, <1>13, <2>4, PutBack
<1>16. ASSUME place.child.hint = "DEFAULT"
       PROVE  ManyChildren(a, p) = ManyChildren(m, p)
  <2> DEFINE d == m.parent.pprevious[l]
             half == Kept(m.parent, m.child.pparent, l, place.child)
             r == Between(n, p, half.rel)
  <2>1. ASSUME d # Nil
        PROVE  r = d
    <3>1. d \in Blocks /\ d # l /\ m.parent.pparent[d] = p
      BY <1>1, <1>2, <2>1, PreviousIsAnother
    <3>2. PParent(n, d) = p /\ PChild(n, d) = m.child.pparent[d] /\ m.child.pparent[d] \in Children
      BY <1>1, <1>4, <3>1 DEF Belong, PChild, PParent
    <3>3. half = [hint |-> "AFTER", rel |-> m.child.pparent[d]]
      BY <1>16, <2>1 DEF Kept
    <3> QED
      BY <1>3, <3>1, <3>2, <3>3, BetweenFinds
  <2>2. x = InList(half, r)
    BY DEF ChildPlace, KeptPlace, kept
  <2> HIDE DEF half, r
  <2>3. /\ i \in 1..Len(ChildrenOf(n.parent, p)) + 1
        /\ Before(ChildrenOf(n.parent, p), i) = Predecessor(n.parent, p, x)
    BY <1>1, <1>2, <1>5, <1>6, <1>16, <2>1, <2>2, KeptPredecessor DEF s, half
  <2>4. ManyChildren(a, p) = InsertAt(RemoveAt(ManyChildren(m, p), i), i, c)
    BY <1>8, <1>14, <2>3
  <2> QED
    BY <1>10, <1>13, <2>4, PutBack
<1> QED
  BY <1>15, <1>16

(* A link of an n:m association that is moved in one of the two lists      *)
(* keeps its place in the other one, for which no place was asked, though  *)
(* it is taken out of both and may be another block afterwards.            *)
THEOREM OtherSideStays == Spec => []OtherSideKept
<1>1. IInv => OtherSideKept
  <2> SUFFICES ASSUME IInv, NEW p \in Parents, NEW c \in Children, Between(many, p, c) # Nil,
                      NEW place \in ManyPlaces, NEW b \in Available(many, p, c)
               PROVE  LET after == LinkAnswer(many, p, c, place, b).links
                      IN  /\ place.parent.hint = "DEFAULT" => ManyParents(after, c) = ManyParents(many, c)
                          /\ place.child.hint = "DEFAULT" => ManyChildren(after, p) = ManyChildren(many, p)
    BY DEF OtherSideKept
  <2> DEFINE after == LinkAnswer(many, p, c, place, b).links
             n == WithoutLink(many, p, c)
             kept == KeptPlace(many, Between(many, p, c), place)
  <2>1. ManySound(many)
    BY DEF IInv
  <2>2. CASE after = many
    BY <2>2
  <2>3. CASE after # many
    <3>1. /\ after = Fresh(n, p, c, kept, b).links
          /\ Half(kept.parent, Parents) /\ Half(kept.child, Children) /\ ~Misplaced(n, p, c, kept)
          /\ b \in Allocated(n) /\ b # Nil
      BY <2>1, <2>3, LinkOrNothing
    <3>2. b \in Blocks
      BY <3>1 DEF Allocated, Free
    <3> QED
      BY <2>1, <3>1, <3>2, MovedBack
  <2> QED
    BY <2>2, <2>3
<1> QED
  BY InitSound, NextSound, <1>1, PTL DEF Spec
=============================================================================
