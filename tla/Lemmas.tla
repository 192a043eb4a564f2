------------------------------- MODULE Lemmas -------------------------------
(***************************************************************************)
(* What the proofs of several components need: induction over numbers,     *)
(* what insertions into sequences and removals do, and the pointers of 1:n *)
(* associations (module Links).                                            *)
(***************************************************************************)
EXTENDS Links, FiniteSetTheorems, SequenceTheorems, WellFoundedInduction, TLAPS

(***************************************************************************)
(* Induction over the natural numbers, stated without operator parameters: *)
(* for sets of numbers.  The induction theorems of the library have        *)
(* operators as parameters, which the provers cannot instantiate.          *)
(***************************************************************************)

(* A set of numbers that is not empty has a least element.                 *)
LEMMA LeastElement ==
  ASSUME NEW T, T \subseteq Nat, T # {}
  PROVE  \E m \in T : \A k \in T : m <= k
<1> DEFINE R == {p \in Nat \X Nat : p[1] < p[2]}
<1>1. R = OpToRel(<, Nat)
  BY DEF OpToRel
<1>2. IsWellFoundedOn(R, Nat)
  BY <1>1, NatLessThanWellFounded
<1>3. PICK m \in T : \A k \in T : <<k, m>> \notin R
  <2> HIDE DEF R
  <2> QED
    BY <1>2, WFMin
<1>4. \A k \in T : ~ (k < m)
  <2> SUFFICES ASSUME NEW k \in T, k < m
               PROVE  FALSE
    OBVIOUS
  <2>1. <<k, m>> \in R
    OBVIOUS
  <2> QED
    BY <1>3, <2>1
<1>5. \A k \in T : m <= k
  BY <1>4
<1> QED
  BY <1>5

(* A set that has 0, and with a number also the next one, has all numbers. *)
LEMMA AllNumbers ==
  ASSUME NEW S, 0 \in S, \A n \in Nat : n \in S => n + 1 \in S
  PROVE  Nat \subseteq S
<1> SUFFICES ASSUME Nat \ S # {}
             PROVE  FALSE
  OBVIOUS
<1>1. PICK m \in Nat \ S : \A k \in Nat \ S : m <= k
  <2>1. Nat \ S \subseteq Nat
    OBVIOUS
  <2> QED
    BY <2>1, LeastElement
<1>2. m # 0 /\ m - 1 \in Nat /\ m - 1 \in S
  BY <1>1
<1> QED
  BY <1>1, <1>2

(* From x one gets, n times by the function h, to some element: the        *)
(* sequence of these elements exists.                                      *)
Iterates(g, T, h, x, n) ==
  g \in [0..n -> T] /\ g[0] = x /\ \A i \in 1..n : g[i] = h[g[i - 1]]

LEMMA IteratesExist ==
  ASSUME NEW T, NEW h, \A t \in T : h[t] \in T, NEW x \in T, NEW n \in Nat
  PROVE  \E g : Iterates(g, T, h, x, n)
<1> DEFINE S == {k \in Nat : \E g \in [0..k -> T] : g[0] = x /\ \A i \in 1..k : g[i] = h[g[i - 1]]}
<1>1. 0 \in S
  <2> DEFINE g == [i \in 0..0 |-> x]
  <2>1. g \in [0..0 -> T] /\ g[0] = x
    OBVIOUS
  <2>2. \A i \in 1..0 : FALSE
    OBVIOUS
  <2> HIDE DEF g
  <2>3. \E f \in [0..0 -> T] : f[0] = x /\ \A i \in 1..0 : f[i] = h[f[i - 1]]
    BY <2>1, <2>2
  <2> QED
    BY <2>3
<1>2. ASSUME NEW k \in Nat, k \in S
      PROVE  k + 1 \in S
  <2>1. PICK g \in [0..k -> T] : g[0] = x /\ \A i \in 1..k : g[i] = h[g[i - 1]]
    BY <1>2
  <2> DEFINE f == [i \in 0..(k + 1) |-> IF i = k + 1 THEN h[g[k]] ELSE g[i]]
  <2>2. f \in [0..(k + 1) -> T]
    BY <2>1
  <2>3. f[0] = x
    BY <2>1
  <2>4. \A i \in 1..(k + 1) : f[i] = h[f[i - 1]]
    BY <2>1
  <2> HIDE DEF f
  <2> QED
    BY <2>2, <2>3, <2>4
<1> HIDE DEF S
<1>3. n \in S
  BY <1>1, <1>2, AllNumbers
<1> QED
  BY <1>3 DEF S, Iterates

----------------------------------------------------------------------------
(* InsertAt makes room for one element and keeps the others in order.      *)
LEMMA InsertAtProperties ==
  ASSUME NEW S, NEW s \in Seq(S), NEW i \in 1..Len(s)+1, NEW e \in S
  PROVE  /\ InsertAt(s, i, e) \in Seq(S)
         /\ Len(InsertAt(s, i, e)) = Len(s) + 1
         /\ \A j \in 1..Len(s)+1 :
              InsertAt(s, i, e)[j] = IF j < i THEN s[j]
                                     ELSE IF j = i THEN e ELSE s[j-1]
<1> DEFINE a == SubSeq(s, 1, i-1)
           b == SubSeq(s, i, Len(s))
<1>1. a \in Seq(S) /\ Len(a) = i-1 /\ \A j \in 1..i-1 : a[j] = s[j]
  BY SubSeqProperties, ElementOfSeq, LenProperties
<1>2. b \in Seq(S) /\ Len(b) = Len(s)-i+1 /\ \A j \in 1..Len(s)-i+1 : b[j] = s[i+j-1]
  BY SubSeqProperties, ElementOfSeq, LenProperties
<1>3. <<e>> \in Seq(S) /\ Len(<<e>>) = 1 /\ <<e>>[1] = e
  OBVIOUS
<1> HIDE DEF a, b
<1>4. /\ a \o <<e>> \in Seq(S) /\ Len(a \o <<e>>) = i
      /\ \A j \in 1..i : (a \o <<e>>)[j] = IF j < i THEN s[j] ELSE e
  BY <1>1, <1>3, ConcatProperties
<1>5. /\ (a \o <<e>>) \o b \in Seq(S) /\ Len((a \o <<e>>) \o b) = Len(s)+1
      /\ \A j \in 1..Len(s)+1 :
           ((a \o <<e>>) \o b)[j] = IF j < i THEN s[j] ELSE IF j = i THEN e ELSE s[j-1]
  <2>1. /\ (a \o <<e>>) \o b \in Seq(S)
        /\ Len((a \o <<e>>) \o b) = i + (Len(s)-i+1)
        /\ \A j \in 1..(i + (Len(s)-i+1)) :
             ((a \o <<e>>) \o b)[j] = IF j <= i THEN (a \o <<e>>)[j] ELSE b[j-i]
    <3> DEFINE c == a \o <<e>>
    <3>1. c \in Seq(S) /\ Len(c) = i /\ Len(b) = Len(s)-i+1 /\ b \in Seq(S)
      BY <1>2, <1>4
    <3> HIDE DEF c
    <3>2. /\ c \o b \in Seq(S)
          /\ Len(c \o b) = Len(c) + Len(b)
          /\ \A j \in 1..(Len(c) + Len(b)) :
               (c \o b)[j] = IF j <= Len(c) THEN c[j] ELSE b[j - Len(c)]
      BY <3>1, ConcatProperties
    <3> QED BY <3>1, <3>2 DEF c
  <2>2. \A j \in 1..Len(s)+1 : j > i => b[j-i] = s[j-1]
    BY <1>2, LenProperties
  <2> DEFINE c == a \o <<e>>
             d == c \o b
  <2>3. /\ d \in Seq(S) /\ Len(d) = i + (Len(s)-i+1)
        /\ \A j \in 1..(i + (Len(s)-i+1)) : d[j] = IF j <= i THEN c[j] ELSE b[j-i]
        /\ \A j \in 1..i : c[j] = IF j < i THEN s[j] ELSE e
    BY <2>1, <1>4
  <2>4. Len(s) \in Nat
    BY LenProperties
  <2> HIDE DEF d, c
  <2>5. ASSUME NEW j \in 1..Len(s)+1
        PROVE  d[j] = IF j < i THEN s[j] ELSE IF j = i THEN e ELSE s[j-1]
    <3>1. d[j] = IF j <= i THEN c[j] ELSE b[j-i]
      BY <2>3, <2>4
    <3>2. CASE j <= i
      <4>1. c[j] = IF j < i THEN s[j] ELSE e
        BY <2>3, <2>4, <3>2
      <4> QED
        BY <2>4, <3>1, <3>2, <4>1
    <3>3. CASE j > i
      <4>1. b[j-i] = s[j-1]
        BY <2>2, <3>3
      <4> QED
        BY <2>4, <3>1, <3>3, <4>1
    <3> QED
      BY <2>4, <3>2, <3>3
  <2> QED BY <2>3, <2>4, <2>5 DEF c, d
<1> QED BY <1>5 DEF InsertAt, a, b

(* RemoveAt closes the gap and keeps the others in order.                  *)
LEMMA RemoveAtProperties ==
  ASSUME NEW S, NEW s \in Seq(S), NEW i \in 1..Len(s)
  PROVE  /\ RemoveAt(s, i) \in Seq(S)
         /\ Len(RemoveAt(s, i)) = Len(s) - 1
         /\ \A j \in 1..Len(s)-1 :
              RemoveAt(s, i)[j] = IF j < i THEN s[j] ELSE s[j+1]
<1> DEFINE a == SubSeq(s, 1, i-1)
           b == SubSeq(s, i+1, Len(s))
<1>1. a \in Seq(S) /\ Len(a) = i-1 /\ \A j \in 1..i-1 : a[j] = s[j]
  BY SubSeqProperties, ElementOfSeq, LenProperties
<1>2. b \in Seq(S) /\ Len(b) = Len(s)-i /\ \A j \in 1..Len(s)-i : b[j] = s[i+j]
  BY SubSeqProperties, ElementOfSeq, LenProperties
<1> HIDE DEF a, b
<1>3. /\ a \o b \in Seq(S)
      /\ Len(a \o b) = (i-1) + (Len(s)-i)
      /\ \A j \in 1..((i-1) + (Len(s)-i)) :
           (a \o b)[j] = IF j <= i-1 THEN a[j] ELSE b[j-(i-1)]
  <2>1. /\ a \o b \in Seq(S)
        /\ Len(a \o b) = Len(a) + Len(b)
        /\ \A j \in 1..(Len(a) + Len(b)) :
             (a \o b)[j] = IF j <= Len(a) THEN a[j] ELSE b[j - Len(a)]
    BY <1>1, <1>2, ConcatProperties
  <2>2. Len(a) = i-1 /\ Len(b) = Len(s)-i
    BY <1>1, <1>2
  <2> QED BY <2>1, <2>2
<1>4. \A j \in 1..Len(s)-1 : j >= i => b[j-(i-1)] = s[j+1]
  BY <1>2, LenProperties
<1>5. RemoveAt(s, i) = a \o b
  BY DEF RemoveAt, a, b
<1>6. Len(s) \in Nat /\ (i-1) + (Len(s)-i) = Len(s)-1
  BY LenProperties
<1>7. \A j \in 1..Len(s)-1 : (a \o b)[j] = IF j < i THEN s[j] ELSE s[j+1]
  <2> TAKE j \in 1..Len(s)-1
  <2>1. (a \o b)[j] = IF j <= i-1 THEN a[j] ELSE b[j-(i-1)]
    BY <1>3, <1>6
  <2>2. j \in Int /\ i \in Int
    BY <1>6
  <2>3. CASE j < i
    <3>1. j <= i-1 /\ j \in 1..i-1
      BY <2>2, <2>3
    <3> QED BY <2>1, <2>3, <3>1, <1>1
  <2>4. CASE ~(j < i)
    <3>1. ~(j <= i-1) /\ j >= i
      BY <2>2, <2>4
    <3> QED BY <2>1, <2>4, <3>1, <1>4
  <2> QED BY <2>3, <2>4
<1> QED BY <1>3, <1>5, <1>6, <1>7

(* An element that is in a sequence is removed where it is first.          *)
LEMMA RemoveFirstProperties ==
  ASSUME NEW S, NEW s \in Seq(S), NEW e
  PROVE  /\ RemoveFirst(s, e) \in Seq(S)
         /\ Contains(s, e) => \E i \in 1..Len(s) : s[i] = e /\ RemoveFirst(s, e) = RemoveAt(s, i)
         /\ ~Contains(s, e) => RemoveFirst(s, e) = s
<1>1. CASE Contains(s, e)
  <2> DEFINE I == {i \in 1..Len(s) : s[i] = e}
             i == SelectInSeq(s, LAMBDA v : v = e)
  <2>1. I # {} /\ I \subseteq Nat /\ i = Min(I)
    BY <1>1 DEF Contains, SelectInSeq
  <2> HIDE DEF i
  <2>2. PICK m \in I : \A k \in I : m <= k
    BY <2>1, LeastElement
  <2>3. i \in I
    BY <2>1, <2>2 DEF Min
  <2>4. RemoveFirst(s, e) = RemoveAt(s, i)
    BY <1>1 DEF RemoveFirst, Contains, i
  <2>5. RemoveAt(s, i) \in Seq(S)
    BY <2>3, RemoveAtProperties
  <2> QED
    BY <1>1, <2>3, <2>4, <2>5
<1>2. CASE ~Contains(s, e)
  BY <1>2 DEF Contains, RemoveFirst
<1> QED
  BY <1>1, <1>2

(* The others stay in.                                                     *)
LEMMA RemoveFirstKeeps ==
  ASSUME NEW S, NEW s \in Seq(S), NEW e, NEW d, d # e, Contains(s, d)
  PROVE  Contains(RemoveFirst(s, e), d)
<1>1. CASE ~Contains(s, e)
  BY <1>1, RemoveFirstProperties
<1>2. CASE Contains(s, e)
  <2>1. PICK i \in 1..Len(s) : s[i] = e /\ RemoveFirst(s, e) = RemoveAt(s, i)
    BY <1>2, RemoveFirstProperties
  <2>2. PICK j \in 1..Len(s) : s[j] = d
    BY DEF Contains
  <2> DEFINE t == RemoveAt(s, i)
             k == IF j < i THEN j ELSE j - 1
  <2>3. /\ Len(t) = Len(s) - 1 /\ Len(s) \in Nat
        /\ \A n \in 1..Len(s) - 1 : t[n] = IF n < i THEN s[n] ELSE s[n + 1]
    BY RemoveAtProperties
  <2>4. j # i
    BY <2>1, <2>2
  <2>5. k \in 1..Len(s) - 1 /\ (IF k < i THEN k ELSE k + 1) = j
    BY <2>3, <2>4
  <2> HIDE DEF t, k
  <2>6. k \in 1..Len(t) /\ t[k] = d
    BY <2>2, <2>3, <2>5
  <2> QED
    BY <2>1, <2>6 DEF Contains, t
<1> QED
  BY <1>1, <1>2

(***************************************************************************)
(* The pointers of 1:n associations between any parents P and children C.  *)
(* They are sound if the anchors agree, the heads agree, and a parent has  *)
(* a first child iff it has a last one, and if no list comes back to an    *)
(* element.  Linking between neighbours, and unlinking, keep them sound;   *)
(* iterating over sound pointers yields the children of a parent, each of  *)
(* them once, in their order.                                              *)
(***************************************************************************)

HeadsPaired(l) == \A p \in DOMAIN l.pfirst : l.pfirst[p] = Nil <=> l.plast[p] = Nil

(* Some rank of the children increases along pnext.                        *)
Ranks(rank, l) == \A c \in DOMAIN l.pnext : l.pnext[c] # Nil => rank[c] < rank[l.pnext[c]]

Acyclic(l) == \E rank \in [DOMAIN l.pnext -> Nat] : Ranks(rank, l)

Sound(l, P, C) ==
  /\ l \in LinkTables(P, C)
  /\ AnchorsAgree(l) /\ HeadsAgree(l) /\ HeadsPaired(l) /\ Acyclic(l)

(* prev and next are neighbours among the children of p, or the ends.      *)
Adjacent(l, p, prev, next) ==
  /\ prev \in DOMAIN l.pparent \cup {Nil} /\ next \in DOMAIN l.pparent \cup {Nil}
  /\ prev = Nil => l.pfirst[p] = next
  /\ next = Nil => l.plast[p] = prev
  /\ prev # Nil => l.pparent[prev] = p /\ l.pnext[prev] = next
  /\ next # Nil => l.pparent[next] = p /\ l.pprevious[next] = prev

----------------------------------------------------------------------------
(* Linking and unlinking store only pointers to objects.                   *)

LEMMA SplicedTyped ==
  ASSUME NEW P, NEW C, Nil \notin P \cup C, NEW l \in LinkTables(P, C), NEW p \in P, NEW c \in C,
         NEW prev \in C \cup {Nil}, NEW next \in C \cup {Nil}
  PROVE  Spliced(l, p, c, prev, next) \in LinkTables(P, C)
BY DEF Spliced, Stored, LinkTables

LEMMA UnlinkedTyped ==
  ASSUME NEW P, NEW C, Nil \notin P \cup C, NEW l \in LinkTables(P, C), NEW p \in P, NEW c \in C
  PROVE  Unlinked(l, p, c) \in LinkTables(P, C)
BY DEF Unlinked, Stored, LinkTables

(* No pointers at all are sound.                                           *)
LEMMA EmptyIsSound ==
  ASSUME NEW P, NEW C, Nil \notin P \cup C
  PROVE  Sound(Empty(P, C), P, C)
<1> DEFINE l == Empty(P, C)
<1>1. l \in LinkTables(P, C)
  BY DEF Empty, LinkTables
<1>2. AnchorsAgree(l) /\ HeadsAgree(l) /\ HeadsPaired(l)
  BY DEF Empty, AnchorsAgree, HeadsAgree, HeadsPaired
<1>3. Acyclic(l)
  <2>1. [c \in C |-> 0] \in [DOMAIN l.pnext -> Nat] /\ Ranks([c \in C |-> 0], l)
    BY DEF Empty, Ranks
  <2> QED
    BY <2>1 DEF Acyclic
<1> QED
  BY <1>1, <1>2, <1>3 DEF Sound

----------------------------------------------------------------------------
(* Unlinking and linking keep the pointers sound.                          *)

LEMMA UnlinkedSound ==
  ASSUME NEW P, NEW C, Nil \notin P \cup C, NEW l, Sound(l, P, C), NEW p \in P, NEW c \in C, l.pparent[c] = p
  PROVE  LET m == Unlinked(l, p, c)
         IN  Sound(m, P, C) /\ m.pparent = [l.pparent EXCEPT ![c] = Nil]
<1> DEFINE m == Unlinked(l, p, c)
           prev == l.pprevious[c]
           next == l.pnext[c]
<1>1. /\ l \in LinkTables(P, C) /\ m \in LinkTables(P, C)
      /\ prev \in C \cup {Nil} /\ next \in C \cup {Nil}
  BY UnlinkedTyped DEF Sound, LinkTables
<1>2. /\ m.pfirst = [l.pfirst EXCEPT ![p] = IF prev = Nil THEN next ELSE @]
      /\ m.plast = [l.plast EXCEPT ![p] = IF next = Nil THEN prev ELSE @]
      /\ \A d \in C :
           /\ m.pnext[d] = IF d = c THEN Nil ELSE IF d = prev THEN next ELSE l.pnext[d]
           /\ m.pprevious[d] = IF d = c THEN Nil ELSE IF d = next THEN prev ELSE l.pprevious[d]
      /\ m.pparent = [l.pparent EXCEPT ![c] = Nil]
  BY <1>1 DEF Unlinked, Stored, LinkTables
<1> HIDE DEF m
<1>3. AnchorsAgree(m)
  BY <1>1, <1>2 DEF Sound, AnchorsAgree, LinkTables
<1>4. HeadsAgree(m)
  <2>1. ASSUME NEW q \in P
        PROVE  m.pfirst[q] # Nil => m.pparent[m.pfirst[q]] = q /\ m.pprevious[m.pfirst[q]] = Nil
    BY <1>1, <1>2 DEF Sound, AnchorsAgree, HeadsAgree, LinkTables
  <2>2. ASSUME NEW q \in P
        PROVE  m.plast[q] # Nil => m.pparent[m.plast[q]] = q /\ m.pnext[m.plast[q]] = Nil
    BY <1>1, <1>2 DEF Sound, AnchorsAgree, HeadsAgree, LinkTables
  <2>3. ASSUME NEW d \in C, m.pparent[d] # Nil, m.pprevious[d] = Nil
        PROVE  m.pfirst[m.pparent[d]] = d
    BY <1>1, <1>2, <2>3 DEF Sound, AnchorsAgree, HeadsAgree, LinkTables
  <2>4. ASSUME NEW d \in C, m.pparent[d] # Nil, m.pnext[d] = Nil
        PROVE  m.plast[m.pparent[d]] = d
    BY <1>1, <1>2, <2>4 DEF Sound, AnchorsAgree, HeadsAgree, LinkTables
  <2> QED
    BY <1>1, <2>1, <2>2, <2>3, <2>4 DEF HeadsAgree, LinkTables
<1>5. HeadsPaired(m)
  BY <1>1, <1>2 DEF Sound, HeadsAgree, HeadsPaired, LinkTables
<1>6. Acyclic(m)
  <2>1. PICK rank \in [C -> Nat] : \A d \in C : l.pnext[d] # Nil => rank[d] < rank[l.pnext[d]]
    BY <1>1 DEF Sound, Acyclic, Ranks, LinkTables
  <2>2. /\ prev # Nil => rank[prev] < rank[c]
        /\ next # Nil => rank[c] < rank[next]
    BY <1>1, <2>1 DEF Sound, AnchorsAgree, LinkTables
  <2>3. \A d \in C : m.pnext[d] # Nil => rank[d] < rank[m.pnext[d]]
    BY <1>1, <1>2, <2>1, <2>2
  <2> QED
    BY <1>1, <2>1, <2>3 DEF Acyclic, Ranks, LinkTables
<1> QED
  BY <1>1, <1>2, <1>3, <1>4, <1>5, <1>6 DEF Sound, m

LEMMA SplicedSound ==
  ASSUME NEW P, NEW C, Nil \notin P \cup C, NEW l, Sound(l, P, C), NEW p \in P, NEW c \in C, l.pparent[c] = Nil,
         NEW prev, NEW next, Adjacent(l, p, prev, next)
  PROVE  Sound(Spliced(l, p, c, prev, next), P, C)
<1> DEFINE m == Spliced(l, p, c, prev, next)
<1>1. /\ l \in LinkTables(P, C) /\ m \in LinkTables(P, C)
      /\ prev \in C \cup {Nil} /\ next \in C \cup {Nil}
  <2>1. /\ l \in LinkTables(P, C)
        /\ prev \in C \cup {Nil} /\ next \in C \cup {Nil}
    BY DEF Sound, LinkTables, Adjacent
  <2> QED
    BY <2>1, SplicedTyped
<1>2. /\ m.pfirst = [l.pfirst EXCEPT ![p] = IF prev = Nil THEN c ELSE @]
      /\ m.plast = [l.plast EXCEPT ![p] = IF next = Nil THEN c ELSE @]
      /\ \A d \in C :
           /\ m.pnext[d] = IF d = c THEN next ELSE IF d = prev THEN c ELSE l.pnext[d]
           /\ m.pprevious[d] = IF d = c THEN prev ELSE IF d = next THEN c ELSE l.pprevious[d]
      /\ m.pparent = [l.pparent EXCEPT ![c] = p]
  BY <1>1 DEF Spliced, Stored, LinkTables
<1> HIDE DEF m
<1>3. AnchorsAgree(m)
  <2>1. ASSUME NEW d \in C, m.pnext[d] # Nil
        PROVE  /\ m.pprevious[m.pnext[d]] = d
               /\ m.pparent[m.pnext[d]] = m.pparent[d]
               /\ m.pparent[d] # Nil
    BY <1>1, <1>2, <2>1 DEF Sound, Adjacent, AnchorsAgree, LinkTables
  <2>2. ASSUME NEW d \in C, m.pprevious[d] # Nil
        PROVE  /\ m.pnext[m.pprevious[d]] = d
               /\ m.pparent[m.pprevious[d]] = m.pparent[d]
               /\ m.pparent[d] # Nil
    BY <1>1, <1>2, <2>2 DEF Sound, Adjacent, AnchorsAgree, LinkTables
  <2> QED
    BY <1>1, <2>1, <2>2 DEF AnchorsAgree, LinkTables
<1>4. HeadsAgree(m)
  <2>1. ASSUME NEW q \in P
        PROVE  m.pfirst[q] # Nil => m.pparent[m.pfirst[q]] = q /\ m.pprevious[m.pfirst[q]] = Nil
    BY <1>1, <1>2 DEF Sound, Adjacent, AnchorsAgree, HeadsAgree, LinkTables
  <2>2. ASSUME NEW q \in P
        PROVE  m.plast[q] # Nil => m.pparent[m.plast[q]] = q /\ m.pnext[m.plast[q]] = Nil
    BY <1>1, <1>2 DEF Sound, Adjacent, AnchorsAgree, HeadsAgree, LinkTables
  <2>3. ASSUME NEW d \in C, m.pparent[d] # Nil, m.pprevious[d] = Nil
        PROVE  m.pfirst[m.pparent[d]] = d
    BY <1>1, <1>2, <2>3 DEF Sound, Adjacent, AnchorsAgree, HeadsAgree, LinkTables
  <2>4. ASSUME NEW d \in C, m.pparent[d] # Nil, m.pnext[d] = Nil
        PROVE  m.plast[m.pparent[d]] = d
    BY <1>1, <1>2, <2>4 DEF Sound, Adjacent, AnchorsAgree, HeadsAgree, LinkTables
  <2> QED
    BY <1>1, <2>1, <2>2, <2>3, <2>4 DEF HeadsAgree, LinkTables
<1>5. HeadsPaired(m)
  BY <1>1, <1>2 DEF Sound, Adjacent, HeadsAgree, HeadsPaired, LinkTables
<1>6. Acyclic(m)
  <2>1. PICK rank \in [C -> Nat] : \A d \in C : l.pnext[d] # Nil => rank[d] < rank[l.pnext[d]]
    BY <1>1 DEF Sound, Acyclic, Ranks, LinkTables
  <2> DEFINE new == IF prev # Nil THEN 2 * rank[prev] + 2
                    ELSE IF next # Nil THEN 2 * rank[next] ELSE 0
             r == [d \in C |-> IF d = c THEN new ELSE 2 * rank[d] + 1]
  <2>2. prev # c /\ next # c
    BY <1>1 DEF Adjacent
  <2>3. /\ prev # Nil => new = 2 * rank[prev] + 2
        /\ prev # Nil /\ next # Nil => rank[prev] < rank[next]
        /\ prev = Nil /\ next # Nil => new = 2 * rank[next]
        /\ new \in Nat
    BY <1>1, <2>1 DEF Adjacent
  <2> HIDE DEF new
  <2>4. r \in [C -> Nat]
    BY <2>1, <2>3
  <2>5. \A d \in C : r[d] = IF d = c THEN new ELSE 2 * rank[d] + 1
    OBVIOUS
  <2> HIDE DEF r
  <2>6. next # Nil => r[c] < r[next]
    BY <1>1, <2>1, <2>2, <2>3, <2>5
  <2>7. prev # Nil => r[prev] < r[c]
    BY <1>1, <2>1, <2>2, <2>3, <2>5
  <2>8. \A d \in C \ {c, prev} : l.pnext[d] # Nil => l.pnext[d] \in C \ {c}
    BY <1>1 DEF Sound, AnchorsAgree, LinkTables
  <2>9. \A d \in C \ {c, prev} : m.pnext[d] # Nil => r[d] < r[m.pnext[d]]
    BY <1>2, <2>1, <2>5, <2>8
  <2>10. \A d \in C : m.pnext[d] # Nil => r[d] < r[m.pnext[d]]
    BY <1>2, <2>6, <2>7, <2>9
  <2> QED
    BY <1>1, <2>4, <2>10 DEF Acyclic, Ranks, LinkTables
<1> QED
  BY <1>1, <1>3, <1>4, <1>5, <1>6 DEF Sound, m
----------------------------------------------------------------------------
(* The pointers of the placement hint are those of neighbours.             *)
LEMMA PlaceAdjacent ==
  ASSUME NEW P, NEW C, Nil \notin P \cup C, NEW l, Sound(l, P, C), NEW p \in P, NEW place \in Known(C),
         place.hint \in Relative => l.pparent[place.rel] = p
  PROVE  Adjacent(l, p, Predecessor(l, p, place), Successor(l, p, place))
<1>1. /\ l \in LinkTables(P, C)
      /\ l.pfirst[p] \in C \cup {Nil} /\ l.plast[p] \in C \cup {Nil}
      /\ l.pfirst[p] = Nil <=> l.plast[p] = Nil
  BY DEF Sound, LinkTables, HeadsPaired
<1>2. CASE place.hint = "BEGIN"
  <2>1. Predecessor(l, p, place) = Nil /\ Successor(l, p, place) = l.pfirst[p]
    BY <1>1, <1>2 DEF Predecessor, Successor, Previous, Sound, HeadsAgree, LinkTables
  <2> QED
    BY <1>1, <2>1 DEF Adjacent, Sound, HeadsAgree, LinkTables
<1>3. CASE place.hint = "BEFORE"
  <2>1. /\ place.rel \in C /\ l.pparent[place.rel] = p
        /\ Predecessor(l, p, place) = l.pprevious[place.rel]
        /\ Successor(l, p, place) = place.rel
    BY <1>3 DEF Predecessor, Successor, Known, Simple, Relative
  <2> QED
    BY <1>1, <2>1 DEF Adjacent, Sound, LinkTables, AnchorsAgree, HeadsAgree
<1>4. CASE place.hint = "AFTER"
  <2>1. /\ place.rel \in C /\ l.pparent[place.rel] = p
        /\ Predecessor(l, p, place) = place.rel
        /\ Successor(l, p, place) = l.pnext[place.rel]
    BY <1>4 DEF Predecessor, Successor, Known, Simple, Relative
  <2> QED
    BY <1>1, <2>1 DEF Adjacent, Sound, LinkTables, AnchorsAgree, HeadsAgree
<1>5. CASE place.hint \notin {"BEGIN", "BEFORE", "AFTER"}
  <2>1. Predecessor(l, p, place) = l.plast[p] /\ Successor(l, p, place) = Nil
    BY <1>1, <1>5 DEF Predecessor, Successor, PNext, Sound, HeadsAgree, LinkTables
  <2> QED
    BY <1>1, <2>1 DEF Adjacent, Sound, HeadsAgree, LinkTables
<1> QED
  BY <1>2, <1>3, <1>4, <1>5

(* What is known when link has unlinked the child and goes on.             *)
LEMMA LinkGoesOn ==
  ASSUME NEW P, NEW C, Nil \notin P \cup C, NEW l, Sound(l, P, C), NEW p \in P, NEW c \in C, NEW clash,
         NEW place, IsKnown(place) => place \in Known(C),
         LinkResult(l, p, c, place, clash) = "OK",
         ~(l.pparent[c] = p /\ InPlace(l, p, c, place))
  PROVE  LET m == UnlinkOutcome(l, p, c)
         IN  /\ place \in Known(C)
             /\ Sound(m, P, C) /\ m.pparent[c] = Nil
             /\ place.hint \in Relative => place.rel # c /\ m.pparent[place.rel] = p
<1> DEFINE m == UnlinkOutcome(l, p, c)
<1>1. /\ l.pparent[c] \in {Nil, p}
      /\ IsKnown(place)
      /\ place.hint \in Relative => Parent(l, place.rel) = p /\ place.rel # c
  BY DEF LinkResult
<1>2. place \in Known(C)
  BY <1>1
<1>3. place.hint \in Relative => place.rel \in C
  BY <1>2 DEF Known, Simple, Relative
<1>4. /\ Sound(m, P, C) /\ m.pparent[c] = Nil
      /\ \A d \in C : d # c => m.pparent[d] = l.pparent[d]
  <2>1. l.pparent \in [C -> P \cup {Nil}]
    BY DEF Sound, LinkTables
  <2>2. CASE l.pparent[c] = p
    <3>1. m = Unlinked(l, p, c)
      BY <2>2 DEF UnlinkOutcome
    <3> HIDE DEF m
    <3>2. Sound(m, P, C) /\ m.pparent = [l.pparent EXCEPT ![c] = Nil]
      BY <2>2, <3>1, UnlinkedSound
    <3> QED
      BY <2>1, <3>2
  <2>3. CASE l.pparent[c] # p
    BY <1>1, <2>3 DEF UnlinkOutcome
  <2> QED
    BY <2>2, <2>3
<1>5. place.hint \in Relative => m.pparent[place.rel] = p
  BY <1>1, <1>3, <1>4 DEF Parent
<1> QED
  BY <1>1, <1>2, <1>4, <1>5

(* Whatever is asked for, the call of link leaves the pointers sound.      *)
LEMMA LinkSound ==
  ASSUME NEW P, NEW C, Nil \notin P \cup C, NEW l, Sound(l, P, C), NEW p \in P, NEW c \in C, NEW clash,
         NEW place, IsKnown(place) => place \in Known(C)
  PROVE  Sound(LinkOutcome(l, p, c, place, clash), P, C)
<1>1. CASE \/ LinkResult(l, p, c, place, clash) # "OK"
           \/ l.pparent[c] = p /\ InPlace(l, p, c, place)
  BY <1>1 DEF LinkOutcome
<1>2. CASE ~(\/ LinkResult(l, p, c, place, clash) # "OK"
             \/ l.pparent[c] = p /\ InPlace(l, p, c, place))
  <2> DEFINE m == UnlinkOutcome(l, p, c)
  <2>1. /\ place \in Known(C)
        /\ Sound(m, P, C) /\ m.pparent[c] = Nil
        /\ place.hint \in Relative => m.pparent[place.rel] = p
    BY <1>2, LinkGoesOn
  <2>2. Adjacent(m, p, Predecessor(m, p, place), Successor(m, p, place))
    BY <2>1, PlaceAdjacent
  <2>3. Sound(Placed(m, p, c, place), P, C)
    BY <2>1, <2>2, SplicedSound DEF Placed
  <2> QED
    BY <1>2, <2>3 DEF LinkOutcome
<1> QED
  BY <1>1, <1>2

(* A child that is placed gets to where its hint says.                     *)
LEMMA PlacedInPlace ==
  ASSUME NEW P, NEW C, Nil \notin P \cup C, NEW l, Sound(l, P, C), NEW p \in P, NEW c \in C, NEW place \in Known(C),
         place.hint \in Relative => place.rel # c /\ l.pparent[place.rel] = p
  PROVE  LET m == Placed(l, p, c, place)
         IN  m.pparent[c] = p /\ InPlace(m, p, c, place)
<1> DEFINE m == Placed(l, p, c, place)
           prev == Predecessor(l, p, place)
           next == Successor(l, p, place)
<1>1. /\ l \in LinkTables(P, C)
      /\ place.hint \in Relative => place.rel \in C
  BY DEF Sound, Known, Simple, Relative
<1>2. /\ prev = Nil => m.pfirst[p] = c
      /\ next = Nil => m.plast[p] = c
      /\ \A d \in C : d # c => /\ d = prev => m.pnext[d] = c
                               /\ d = next => m.pprevious[d] = c
      /\ m.pparent[c] = p
  BY <1>1 DEF Placed, Spliced, Stored, LinkTables
<1> SUFFICES m.pparent[c] = p /\ InPlace(m, p, c, place)
  OBVIOUS
<1> HIDE DEF m, prev, next
<1>3. CASE place.hint = "BEGIN"
  <2>1. prev = Nil
    BY <1>1, <1>3 DEF prev, Predecessor, Previous, Sound, HeadsAgree, LinkTables
  <2> QED
    BY <1>2, <1>3, <2>1 DEF InPlace
<1>4. CASE place.hint = "BEFORE"
  <2>1. next = place.rel
    BY <1>4 DEF next, Successor
  <2>2. place.rel \in C /\ place.rel # c /\ place.rel # Nil
    BY <1>1, <1>4 DEF Relative
  <2>3. m.pprevious[place.rel] = c
    BY <1>2, <2>1, <2>2
  <2> QED
    BY <1>2, <1>4, <2>2, <2>3 DEF InPlace, Previous
<1>5. CASE place.hint = "AFTER"
  <2>1. prev = place.rel
    BY <1>5 DEF prev, Predecessor
  <2>2. place.rel \in C /\ place.rel # c /\ place.rel # Nil
    BY <1>1, <1>5 DEF Relative
  <2>3. m.pnext[place.rel] = c
    BY <1>2, <2>1, <2>2
  <2> QED
    BY <1>2, <1>5, <2>2, <2>3 DEF InPlace, PNext
<1>6. CASE place.hint = "END"
  <2>1. next = Nil
    BY <1>1, <1>6 DEF next, Successor, PNext, Sound, HeadsAgree, LinkTables
  <2> QED
    BY <1>2, <1>6, <2>1 DEF InPlace
<1>7. CASE place.hint \notin {"BEGIN", "BEFORE", "AFTER", "END"}
  <2>1. place.hint # "UNKNOWN"
    BY DEF Known, Simple, Relative
  <2> QED
    BY <1>2, <1>7, <2>1 DEF InPlace
<1> QED
  BY <1>3, <1>4, <1>5, <1>6, <1>7

(* What link answers OK to is done.                                        *)
LEMMA LinkDone ==
  ASSUME NEW P, NEW C, Nil \notin P \cup C, NEW l, Sound(l, P, C), NEW p \in P, NEW c \in C, NEW clash,
         NEW place, IsKnown(place) => place \in Known(C),
         LinkResult(l, p, c, place, clash) = "OK"
  PROVE  LET m == LinkOutcome(l, p, c, place, clash)
         IN  m.pparent[c] = p /\ InPlace(m, p, c, place)
<1>1. CASE l.pparent[c] = p /\ InPlace(l, p, c, place)
  BY <1>1 DEF LinkOutcome
<1>2. CASE ~(l.pparent[c] = p /\ InPlace(l, p, c, place))
  <2> DEFINE m == UnlinkOutcome(l, p, c)
  <2>1. /\ place \in Known(C)
        /\ Sound(m, P, C)
        /\ place.hint \in Relative => place.rel # c /\ m.pparent[place.rel] = p
    BY <1>2, LinkGoesOn
  <2>2. Placed(m, p, c, place).pparent[c] = p /\ InPlace(Placed(m, p, c, place), p, c, place)
    BY <2>1, PlacedInPlace
  <2> QED
    BY <1>2, <2>2 DEF LinkOutcome
<1> QED
  BY <1>1, <1>2

----------------------------------------------------------------------------
(* Walking along the pointers to the next ones.                            *)

(* From the first child of p along pnext one gets to all of its children.  *)
LEMMA AllReached ==
  ASSUME NEW P, NEW C, Nil \notin P \cup C, NEW l, Sound(l, P, C), NEW p \in P, NEW S,
         l.pfirst[p] \in S \cup {Nil}, \A c \in C : c \in S => l.pnext[c] \in S \cup {Nil}
  PROVE  \A c \in C : l.pparent[c] = p => c \in S
<1> DEFINE D == {c \in C : l.pparent[c] = p /\ c \notin S}
<1> SUFFICES ASSUME D # {}
             PROVE  FALSE
  OBVIOUS
<1>1. PICK rank \in [C -> Nat] : \A c \in C : l.pnext[c] # Nil => rank[c] < rank[l.pnext[c]]
  BY DEF Sound, Acyclic, Ranks, LinkTables
<1>2. PICK d \in D : \A c \in D : rank[d] <= rank[c]
  <2> DEFINE T == {rank[c] : c \in D}
  <2>1. T \subseteq Nat /\ T # {}
    BY <1>1
  <2> HIDE DEF T
  <2>2. PICK n \in T : \A k \in T : n <= k
    BY <2>1, LeastElement
  <2> QED
    BY <2>2 DEF T
<1>3. CASE l.pprevious[d] = Nil
  <2>1. l.pfirst[p] = d
    BY <1>2, <1>3 DEF Sound, HeadsAgree, LinkTables
  <2> QED
    BY <1>2, <2>1
<1>4. CASE l.pprevious[d] # Nil
  <2> DEFINE e == l.pprevious[d]
  <2>1. e \in C /\ l.pnext[e] = d /\ l.pparent[e] = p
    BY <1>2, <1>4 DEF Sound, AnchorsAgree, LinkTables
  <2> HIDE DEF e
  <2>2. rank[e] < rank[d] /\ rank[e] \in Nat /\ rank[d] \in Nat
    BY <1>1, <1>2, <2>1
  <2>3. e \in S
    BY <1>2, <2>1, <2>2
  <2> QED
    BY <1>2, <2>1, <2>3
<1> QED
  BY <1>3, <1>4

(* A parent without a first child has none at all.                         *)
LEMMA NoChildren ==
  ASSUME NEW P, NEW C, Nil \notin P \cup C, NEW l, Sound(l, P, C), NEW p \in P, l.pfirst[p] = Nil
  PROVE  \A c \in C : l.pparent[c] # p
<1> DEFINE S == {}
<1>1. l.pfirst[p] \in S \cup {Nil} /\ \A c \in C : c \in S => l.pnext[c] \in S \cup {Nil}
  OBVIOUS
<1> HIDE DEF S
<1>2. \A c \in C : l.pparent[c] = p => c \in S
  BY <1>1, AllReached
<1> QED
  BY <1>2 DEF S

(* The step of ChildrenOf, and a walk of such steps.                       *)
After(l, p, s) == IF s = <<>> THEN l.pfirst[p] ELSE l.pnext[Last(s)]

Further(l, p, s) == IF After(l, p, s) = Nil THEN s ELSE Append(s, After(l, p, s))

Walk(l, p, w) ==
  w = [n \in 0..Cardinality(DOMAIN l.pnext) |-> IF n = 0 THEN <<>> ELSE Further(l, p, w[n - 1])]

(* ChildrenOf is the end of a walk, provided that there is one.            *)
LEMMA ChildrenWalked ==
  ASSUME NEW l, NEW p, NEW g, Walk(l, p, g)
  PROVE  \E w : Walk(l, p, w) /\ ChildrenOf(l, p) = w[Cardinality(DOMAIN l.pnext)]
<1> DEFINE most == Cardinality(DOMAIN l.pnext)
           w == CHOOSE f : f =
                  [n \in 0..most |->
                     IF n = 0 THEN <<>>
                     ELSE LET s == f[n - 1]
                              c == IF s = <<>> THEN l.pfirst[p] ELSE l.pnext[Last(s)]
                          IN  IF c = Nil THEN s ELSE Append(s, c)]
<1>1. g = [n \in 0..most |->
             IF n = 0 THEN <<>>
             ELSE LET s == g[n - 1]
                      c == IF s = <<>> THEN l.pfirst[p] ELSE l.pnext[Last(s)]
                  IN  IF c = Nil THEN s ELSE Append(s, c)]
  BY Zenon DEF Walk, Further, After
<1>2. w = [n \in 0..most |->
             IF n = 0 THEN <<>>
             ELSE LET s == w[n - 1]
                      c == IF s = <<>> THEN l.pfirst[p] ELSE l.pnext[Last(s)]
                  IN  IF c = Nil THEN s ELSE Append(s, c)]
  BY <1>1, Zenon
<1>3. ChildrenOf(l, p) = w[most]
  BY Zenon DEF ChildrenOf
<1>4. Walk(l, p, w)
  <2> HIDE DEF w
  <2> QED
    BY <1>2, Zenon DEF Walk, Further, After
<1> QED
  BY <1>3, <1>4

(* What a walk has collected: children of p, one after the other.          *)
Listed(l, p, C, s) ==
  /\ s \in Seq(C)
  /\ \A i \in 1..Len(s) : l.pparent[s[i]] = p
  /\ s # <<>> => s[1] = l.pfirst[p]
  /\ \A i \in 1..Len(s) : i # Len(s) => s[i + 1] = l.pnext[s[i]]

LEMMA FurtherListed ==
  ASSUME NEW P, NEW C, Nil \notin P \cup C, NEW l, Sound(l, P, C), NEW p \in P, NEW s, Listed(l, p, C, s)
  PROVE  /\ Listed(l, p, C, Further(l, p, s))
         /\ \/ Len(Further(l, p, s)) = Len(s) + 1
            \/ Further(l, p, s) = s /\ After(l, p, s) = Nil
<1> DEFINE c == After(l, p, s)
<1>1. s \in Seq(C) /\ (s # <<>> => Last(s) = s[Len(s)] /\ Last(s) \in C /\ Len(s) \in 1..Len(s))
  BY DEF Listed, Last
<1>2. c \in C \cup {Nil}
  BY <1>1 DEF After, Sound, LinkTables
<1>3. CASE c = Nil
  BY <1>3 DEF Further
<1>4. CASE c # Nil
  <2>1. c \in C /\ Further(l, p, s) = Append(s, c)
    BY <1>2, <1>4 DEF Further
  <2>2. l.pparent[c] = p
    <3>1. CASE s = <<>>
      BY <1>4, <3>1 DEF After, Sound, HeadsAgree, LinkTables
    <3>2. CASE s # <<>>
      <4>1. c = l.pnext[Last(s)] /\ l.pparent[Last(s)] = p /\ Last(s) \in C
        BY <1>1, <3>2 DEF After, Listed
      <4> QED
        BY <1>4, <4>1 DEF Sound, AnchorsAgree, LinkTables
    <3> QED
      BY <3>1, <3>2
  <2>3. s = <<>> => c = l.pfirst[p]
    BY DEF After
  <2>4. s # <<>> => c = l.pnext[s[Len(s)]]
    BY <1>1 DEF After
  <2> HIDE DEF c
  <2> DEFINE t == Append(s, c)
  <2>5. /\ t \in Seq(C) /\ Len(t) = Len(s) + 1 /\ t[Len(s) + 1] = c
        /\ \A i \in 1..Len(s) : t[i] = s[i]
    BY <1>1, <2>1
  <2>6. t # <<>> /\ Len(s) \in Nat /\ (s = <<>> <=> Len(s) = 0)
    BY <1>1, <2>5
  <2> HIDE DEF t
  <2>7. Listed(l, p, C, t)
    <3>1. \A i \in 1..Len(t) : l.pparent[t[i]] = p
      BY <2>2, <2>5, <2>6 DEF Listed
    <3>2. t[1] = l.pfirst[p]
      BY <2>3, <2>5, <2>6 DEF Listed
    <3>3. \A i \in 1..Len(t) : i # Len(t) => t[i + 1] = l.pnext[t[i]]
      BY <2>4, <2>5, <2>6 DEF Listed
    <3> QED
      BY <2>5, <3>1, <3>2, <3>3 DEF Listed
  <2> QED
    BY <2>1, <2>5, <2>7 DEF t
<1> QED
  BY <1>3, <1>4

LEMMA WalkListed ==
  ASSUME NEW P, NEW C, Nil \notin P \cup C, IsFiniteSet(C), NEW l, Sound(l, P, C), NEW p \in P
  PROVE  LET s == ChildrenOf(l, p)
         IN  /\ Listed(l, p, C, s)
             /\ Len(s) = Cardinality(C) \/ After(l, p, s) = Nil
<1> DEFINE most == Cardinality(C)
           h == [s \in Seq(C) |-> Further(l, p, s)]
<1>1. most \in Nat /\ DOMAIN l.pnext = C
  BY FS_CardinalityType DEF Sound, LinkTables
<1>2. h \in [Seq(C) -> Seq(C)]
  <2> SUFFICES ASSUME NEW s \in Seq(C)
               PROVE  Further(l, p, s) \in Seq(C)
    OBVIOUS
  <2>1. s # <<>> => Last(s) \in C
    BY DEF Last
  <2>2. After(l, p, s) \in C \cup {Nil}
    BY <2>1 DEF After, Sound, LinkTables
  <2> QED
    BY <2>2 DEF Further
<1>3. PICK g \in [0..most -> Seq(C)] : g[0] = <<>> /\ \A i \in 1..most : g[i] = h[g[i - 1]]
  <2> DEFINE T == Seq(C)
             start == <<>>
  <2>1. start \in T /\ (\A t \in T : h[t] \in T) /\ most \in Nat
    BY <1>1, <1>2
  <2> HIDE DEF h, most, T, start
  <2>2. PICK f : Iterates(f, T, h, start, most)
    BY <2>1, IteratesExist
  <2> QED
    BY <2>2 DEF T, start, Iterates
<1>4. Walk(l, p, g)
  <2> SUFFICES ASSUME NEW n \in 0..most
               PROVE  g[n] = IF n = 0 THEN <<>> ELSE Further(l, p, g[n - 1])
    BY <1>1, <1>3 DEF Walk
  <2>1. CASE n = 0
    BY <1>3, <2>1
  <2>2. CASE n # 0
    <3>1. n \in 1..most /\ n - 1 \in 0..most
      BY <1>1, <2>2
    <3>2. g[n] = h[g[n - 1]] /\ g[n - 1] \in Seq(C)
      BY <1>3, <3>1
    <3> QED
      BY <2>2, <3>2
  <2> QED
    BY <2>1, <2>2
<1>5. PICK w : Walk(l, p, w) /\ ChildrenOf(l, p) = w[most]
  BY <1>1, <1>4, ChildrenWalked
<1>6. w[0] = <<>> /\ \A n \in Nat : n + 1 <= most => w[n + 1] = Further(l, p, w[n])
  BY <1>1, <1>5 DEF Walk
<1> DEFINE Good(n) == /\ Listed(l, p, C, w[n])
                      /\ Len(w[n]) = n \/ After(l, p, w[n]) = Nil
           S == {n \in Nat : n <= most => Good(n)}
<1>7. 0 \in S
  <2>1. <<>> \in Seq(C) /\ Len(<<>>) = 0 /\ \A i \in 1..0 : FALSE
    OBVIOUS
  <2>2. Listed(l, p, C, <<>>)
    BY <2>1 DEF Listed
  <2> QED
    BY <1>6, <2>1, <2>2
<1>8. \A n \in Nat : n \in S => n + 1 \in S
  <2> SUFFICES ASSUME NEW n \in Nat, n \in S, n + 1 <= most
               PROVE  n + 1 \in S
    BY <1>1
  <2>1. Listed(l, p, C, w[n]) /\ (Len(w[n]) = n \/ After(l, p, w[n]) = Nil)
    BY <1>1
  <2>2. w[n + 1] = Further(l, p, w[n])
    BY <1>6
  <2>3. Listed(l, p, C, w[n + 1])
    BY <2>1, <2>2, FurtherListed
  <2>4. Len(w[n + 1]) = n + 1 \/ After(l, p, w[n + 1]) = Nil
    <3>1. CASE After(l, p, w[n]) = Nil
      BY <2>2, <3>1 DEF Further
    <3>2. CASE After(l, p, w[n]) # Nil
      BY <2>1, <2>2, <3>2, FurtherListed
    <3> QED
      BY <3>1, <3>2
  <2> QED
    BY <2>3, <2>4
<1> HIDE DEF S
<1>9. most \in S
  BY <1>1, <1>7, <1>8, AllNumbers
<1> QED
  BY <1>1, <1>5, <1>9 DEF S

(* A walk meets no child twice.                                            *)
LEMMA ListedOnce ==
  ASSUME NEW P, NEW C, Nil \notin P \cup C, NEW l, Sound(l, P, C), NEW p \in P, NEW s, Listed(l, p, C, s)
  PROVE  \A i, j \in 1..Len(s) : i # j => s[i] # s[j]
<1>1. PICK rank \in [C -> Nat] : \A c \in C : l.pnext[c] # Nil => rank[c] < rank[l.pnext[c]]
  BY DEF Sound, Acyclic, Ranks, LinkTables
<1>2. s \in Seq(C) /\ Len(s) \in Nat /\ \A i \in 1..Len(s) : s[i] \in C /\ rank[s[i]] \in Nat
  BY <1>1 DEF Listed
<1> DEFINE Grows(n) == \A i \in 1..n : i # n => rank[s[i]] < rank[s[n]]
           S == {n \in Nat : n <= Len(s) => Grows(n)}
<1>3. 0 \in S
  OBVIOUS
<1>4. \A n \in Nat : n \in S => n + 1 \in S
  <2> SUFFICES ASSUME NEW n \in Nat, n \in S, n + 1 <= Len(s)
               PROVE  Grows(n + 1)
    OBVIOUS
  <2>1. Grows(n)
    BY <1>2
  <2>2. CASE n = 0
    BY <2>2
  <2>3. CASE n # 0
    <3>1. n \in 1..Len(s) /\ n + 1 \in 1..Len(s) /\ n # Len(s)
      BY <1>2, <2>3
    <3>2. s[n + 1] = l.pnext[s[n]]
      BY <3>1 DEF Listed
    <3>3. rank[s[n]] < rank[s[n + 1]]
      BY <1>1, <1>2, <3>1, <3>2
    <3> QED
      BY <1>2, <2>1, <3>1, <3>3
  <2> QED
    BY <2>2, <2>3
<1> HIDE DEF S
<1>5. Nat \subseteq S
  BY <1>3, <1>4, AllNumbers
<1>6. \A n \in 1..Len(s) : Grows(n)
  BY <1>2, <1>5 DEF S
<1> QED
  BY <1>2, <1>6

(* A walk that cannot go on has met them all.                              *)
LEMMA ListedAll ==
  ASSUME NEW P, NEW C, Nil \notin P \cup C, IsFiniteSet(C), NEW l, Sound(l, P, C), NEW p \in P,
         NEW s, Listed(l, p, C, s), Len(s) = Cardinality(C) \/ After(l, p, s) = Nil
  PROVE  ToSet(s) = {c \in C : l.pparent[c] = p}
<1>1. /\ s # <<>> => s[1] = l.pfirst[p]
      /\ \A i \in 1..Len(s) : i # Len(s) => l.pnext[s[i]] = s[i + 1]
      /\ \A i \in 1..Len(s) : l.pparent[s[i]] = p
  BY DEF Listed
<1>2. /\ s \in Seq(C) /\ Len(s) \in Nat /\ DOMAIN s = 1..Len(s)
      /\ s # <<>> => 1 \in 1..Len(s)
      /\ \A i \in 1..Len(s) : s[i] \in C /\ (i # Len(s) => i + 1 \in 1..Len(s))
  BY DEF Listed
<1>3. ToSet(s) = {s[i] : i \in 1..Len(s)}
  BY <1>2 DEF ToSet
<1>4. ToSet(s) \subseteq {c \in C : l.pparent[c] = p}
  <2> SUFFICES ASSUME NEW i \in 1..Len(s)
               PROVE  s[i] \in C /\ l.pparent[s[i]] = p
    BY <1>3
  <2> QED
    BY <1>1, <1>2
<1>5. ASSUME After(l, p, s) = Nil
      PROVE  \A c \in C : l.pparent[c] = p => c \in ToSet(s)
  <2>1. l.pfirst[p] \in ToSet(s) \cup {Nil}
    <3>1. CASE s = <<>>
      BY <1>5, <3>1 DEF After
    <3>2. CASE s # <<>>
      <4>1. s[1] = l.pfirst[p] /\ 1 \in 1..Len(s)
        BY <1>1, <1>2, <3>2
      <4> QED
        BY <1>3, <4>1
    <3> QED
      BY <3>1, <3>2
  <2>2. ASSUME NEW i \in 1..Len(s)
        PROVE  l.pnext[s[i]] \in ToSet(s) \cup {Nil}
    <3>1. CASE i = Len(s)
      <4>1. s # <<>>
        <5>1. Len(<<>>) = 0
          OBVIOUS
        <5>2. Len(s) \in Nat
          BY <1>2
        <5>3. Len(s) # 0
          BY <5>2
        <5> QED
          BY <5>1, <5>3, Zenon
      <4>2. Last(s) = s[i]
        BY <3>1 DEF Last
      <4> QED
        BY <1>5, <4>1, <4>2 DEF After
    <3>2. CASE i # Len(s)
      <4>1. l.pnext[s[i]] = s[i + 1] /\ i + 1 \in 1..Len(s)
        BY <1>1, <1>2, <3>2
      <4> QED
        BY <1>3, <4>1
    <3> QED
      BY <3>1, <3>2
  <2>3. \A c \in C : c \in ToSet(s) => l.pnext[c] \in ToSet(s) \cup {Nil}
    BY <1>3, <2>2
  <2> DEFINE S == ToSet(s)
  <2>4. l.pfirst[p] \in S \cup {Nil} /\ \A c \in C : c \in S => l.pnext[c] \in S \cup {Nil}
    BY <2>1, <2>3
  <2> HIDE DEF S
  <2>5. \A c \in C : l.pparent[c] = p => c \in S
    BY <2>4, AllReached
  <2> QED
    BY <2>5 DEF S
<1>6. ASSUME Len(s) = Cardinality(C)
      PROVE  C \subseteq ToSet(s)
  <2> DEFINE I == 1..Len(s)
  <2>1. s \in Injection(I, C)
    <3>1. s \in [I -> C]
      BY <1>2
    <3>2. \A i, j \in I : s[i] = s[j] => i = j
      BY ListedOnce
    <3> QED
      BY <3>1, <3>2 DEF Injection, IsInjective
  <2>2. IsFiniteSet(I) /\ Cardinality(I) = Cardinality(C)
    BY <1>2, <1>6, FS_Interval
  <2> HIDE DEF I
  <2>3. s \in Surjection(I, C)
    BY <2>1, <2>2, FS_Injection
  <2> QED
    BY <1>3, <2>3 DEF Surjection, I
<1> QED
  BY <1>4, <1>5, <1>6

(* Among finitely many children, ChildrenOf has exactly those of p.        *)
LEMMA ChildrenListed ==
  ASSUME NEW P, NEW C, Nil \notin P \cup C, IsFiniteSet(C), NEW l, Sound(l, P, C), NEW p \in P
  PROVE  ToSet(ChildrenOf(l, p)) = {c \in C : l.pparent[c] = p}
BY WalkListed, ListedAll

----------------------------------------------------------------------------
(* The list of a parent as a sequence.                                     *)

(* What is before and at a position where an element may be inserted.      *)
Before(s, i) == IF i = 1 THEN Nil ELSE s[i - 1]
At(s, i)     == IF i = Len(s) + 1 THEN Nil ELSE s[i]

(* From the first child of p one gets along s, and no further.             *)
IsList(l, p, C, s) ==
  /\ s \in Seq(C)
  /\ l.pfirst[p] = At(s, 1)
  /\ \A i \in 1..Len(s) : l.pparent[s[i]] = p /\ l.pnext[s[i]] = At(s, i + 1)

(* The sequence of the children of p is its list: there is no room for a   *)
(* further child among the finitely many.                                  *)
LEMMA ChildrenAreList ==
  ASSUME NEW P, NEW C, Nil \notin P \cup C, IsFiniteSet(C), NEW l, Sound(l, P, C), NEW p \in P
  PROVE  IsList(l, p, C, ChildrenOf(l, p))
<1> DEFINE s == ChildrenOf(l, p)
<1>1. Listed(l, p, C, s) /\ (Len(s) = Cardinality(C) \/ After(l, p, s) = Nil)
  BY WalkListed
<1> SUFFICES IsList(l, p, C, s)
  OBVIOUS
<1> HIDE DEF s
<1>2. s \in Seq(C) /\ Len(s) \in Nat /\ (s = <<>> <=> Len(s) = 0)
  BY <1>1 DEF Listed
<1>3. After(l, p, s) = Nil
  <2> SUFFICES ASSUME After(l, p, s) # Nil
               PROVE  FALSE
    OBVIOUS
  <2> DEFINE t == Further(l, p, s)
  <2>1. Listed(l, p, C, t) /\ Len(t) = Len(s) + 1
    BY <1>1, FurtherListed
  <2> HIDE DEF t
  <2>2. \A i, j \in 1..Len(t) : i # j => t[i] # t[j]
    BY <2>1, ListedOnce
  <2> DEFINE I == 1..Len(t)
  <2>3. t \in [I -> C] /\ Len(t) = Cardinality(C) + 1
    BY <1>1, <2>1 DEF Listed
  <2>4. IsFiniteSet(I) /\ Cardinality(I) = Cardinality(C) + 1 /\ Cardinality(C) \in Nat
    BY <2>3, FS_Interval, FS_CardinalityType
  <2>5. \A i, j \in I : i # j => t[i] # t[j]
    BY <2>2
  <2>6. Cardinality(C) < Cardinality(I)
    BY <2>4
  <2> HIDE DEF I
  <2>7. \E x, y \in I : x # y /\ t[x] = t[y]
    BY <2>3, <2>4, <2>6, FS_PigeonHole
  <2> QED
    BY <2>5, <2>7
<1>4. CASE s = <<>>
  BY <1>2, <1>3, <1>4 DEF IsList, At, After
<1>5. CASE s # <<>>
  <2>1. Last(s) = s[Len(s)] /\ l.pnext[s[Len(s)]] = Nil
    BY <1>3, <1>5 DEF After, Last
  <2>2. l.pfirst[p] = At(s, 1)
    BY <1>1, <1>2, <1>5 DEF Listed, At
  <2>3. ASSUME NEW i \in 1..Len(s)
        PROVE  l.pparent[s[i]] = p /\ l.pnext[s[i]] = At(s, i + 1)
    BY <1>1, <1>2, <2>1 DEF Listed, At
  <2> QED
    BY <1>2, <2>2, <2>3 DEF IsList
<1> QED
  BY <1>4, <1>5

(* What is known of the positions of a list.                               *)
LEMMA ListPositions ==
  ASSUME NEW P, NEW C, Nil \notin P \cup C, NEW l, Sound(l, P, C), NEW p \in P, NEW s, IsList(l, p, C, s)
  PROVE  /\ s \in Seq(C) /\ Len(s) \in Nat
         /\ \A i \in 1..Len(s) : s[i] \in C /\ l.pparent[s[i]] = p /\ l.pprevious[s[i]] = Before(s, i)
         /\ \A i, j \in 1..Len(s) : i # j => s[i] # s[j]
<1>1. s \in Seq(C) /\ Len(s) \in Nat /\ (s = <<>> <=> Len(s) = 0) /\ \A i \in 1..Len(s) : s[i] \in C
  BY DEF IsList
<1>2. Listed(l, p, C, s)
  BY <1>1 DEF IsList, Listed, At
<1>3. \A i, j \in 1..Len(s) : i # j => s[i] # s[j]
  BY <1>2, ListedOnce
<1>4. ASSUME NEW i \in 1..Len(s)
      PROVE  l.pprevious[s[i]] = Before(s, i)
  <2>1. CASE i = 1
    BY <1>1, <2>1 DEF IsList, At, Before, Sound, HeadsAgree, LinkTables
  <2>2. CASE i # 1
    <3>1. i - 1 \in 1..Len(s) /\ l.pnext[s[i - 1]] = s[i] /\ s[i - 1] \in C /\ s[i] \in C
      BY <1>1, <2>2 DEF IsList, At
    <3> QED
      BY <2>2, <3>1 DEF Before, Sound, AnchorsAgree, LinkTables
  <2> QED
    BY <2>1, <2>2
<1> QED
  BY <1>1, <1>3, <1>4 DEF IsList

(* A parent has only one list.                                             *)
LEMMA NoLongerList ==
  ASSUME NEW C, Nil \notin C, NEW l, NEW p, NEW s, NEW t, IsList(l, p, C, s), IsList(l, p, C, t)
  PROVE  Len(s) <= Len(t) /\ \A i \in 1..Len(s) : s[i] = t[i]
<1>1. /\ s \in Seq(C) /\ Len(s) \in Nat /\ t \in Seq(C) /\ Len(t) \in Nat
      /\ \A i \in 1..Len(s) : s[i] \in C
  BY DEF IsList
<1> DEFINE Same(n) == n <= Len(t) /\ \A i \in 1..n : s[i] = t[i]
           S == {n \in Nat : n <= Len(s) => Same(n)}
<1>2. 0 \in S
  BY <1>1
<1>3. \A n \in Nat : n \in S => n + 1 \in S
  <2> SUFFICES ASSUME NEW n \in Nat, n \in S, n + 1 <= Len(s)
               PROVE  Same(n + 1)
    OBVIOUS
  <2>1. Same(n) /\ n + 1 \in 1..Len(s)
    BY <1>1
  <2>2. At(s, n + 1) = s[n + 1] /\ s[n + 1] # Nil
    BY <1>1, <2>1 DEF At
  <2>3. At(s, n + 1) = At(t, n + 1)
    <3>1. CASE n = 0
      BY <3>1 DEF IsList
    <3>2. CASE n # 0
      BY <1>1, <2>1, <3>2 DEF IsList
    <3> QED
      BY <3>1, <3>2
  <2>4. n + 1 <= Len(t) /\ t[n + 1] = s[n + 1]
    BY <1>1, <2>1, <2>2, <2>3 DEF At
  <2> QED
    BY <2>1, <2>4
<1> HIDE DEF S
<1>4. Len(s) \in S
  BY <1>1, <1>2, <1>3, AllNumbers
<1> QED
  BY <1>1, <1>4 DEF S

LEMMA OneList ==
  ASSUME NEW P, NEW C, Nil \notin P \cup C, IsFiniteSet(C), NEW l, Sound(l, P, C), NEW p \in P,
         NEW s, IsList(l, p, C, s)
  PROVE  ChildrenOf(l, p) = s
<1> DEFINE t == ChildrenOf(l, p)
<1>1. IsList(l, p, C, t)
  BY ChildrenAreList
<1> HIDE DEF t
<1>2. Len(s) <= Len(t) /\ (\A i \in 1..Len(s) : s[i] = t[i]) /\ Len(t) <= Len(s)
  BY <1>1, NoLongerList
<1>3. s \in Seq(C) /\ t \in Seq(C) /\ Len(s) \in Nat /\ Len(t) \in Nat
  BY <1>1 DEF IsList
<1>4. Len(s) = Len(t)
  BY <1>2, <1>3
<1>5. s = t
  BY <1>2, <1>3, <1>4, SeqEqual
<1> QED
  BY <1>5 DEF t

(* Neighbours are before and at some position of the list.                 *)
LEMMA AdjacentAt ==
  ASSUME NEW P, NEW C, Nil \notin P \cup C, IsFiniteSet(C), NEW l, Sound(l, P, C), NEW p \in P,
         NEW s, IsList(l, p, C, s), NEW prev, NEW next, Adjacent(l, p, prev, next)
  PROVE  \E i \in 1..Len(s) + 1 : Before(s, i) = prev
<1>1. s \in Seq(C) /\ Len(s) \in Nat
  BY DEF IsList
<1>2. CASE prev = Nil
  <2>1. 1 \in 1..Len(s) + 1 /\ Before(s, 1) = prev
    BY <1>1, <1>2 DEF Before
  <2> QED
    BY <2>1
<1>3. CASE prev # Nil
  <2>1. prev \in C /\ l.pparent[prev] = p
    BY <1>3 DEF Adjacent, Sound, LinkTables
  <2>2. prev \in ToSet(s)
    BY <2>1, OneList, ChildrenListed
  <2>3. PICK j \in 1..Len(s) : s[j] = prev
    BY <1>1, <2>2 DEF ToSet
  <2>4. j + 1 \in 1..Len(s) + 1 /\ Before(s, j + 1) = prev
    BY <1>1, <2>3 DEF Before
  <2> QED
    BY <2>4
<1> QED
  BY <1>2, <1>3

(* A child that is linked between neighbours gets to that position.        *)
LEMMA SplicedList ==
  ASSUME NEW P, NEW C, Nil \notin P \cup C, NEW l, Sound(l, P, C), NEW p \in P, NEW c \in C, l.pparent[c] = Nil,
         NEW prev, NEW next, Adjacent(l, p, prev, next),
         NEW s, IsList(l, p, C, s), NEW i \in 1..Len(s) + 1, Before(s, i) = prev
  PROVE  IsList(Spliced(l, p, c, prev, next), p, C, InsertAt(s, i, c))
<1> DEFINE m == Spliced(l, p, c, prev, next)
           t == InsertAt(s, i, c)
<1>1. /\ l \in LinkTables(P, C)
      /\ prev \in C \cup {Nil} /\ next \in C \cup {Nil} /\ Nil \notin C /\ p # Nil
  BY DEF Sound, LinkTables, Adjacent
<1>2. /\ m.pfirst[p] = IF prev = Nil THEN c ELSE l.pfirst[p]
      /\ \A d \in C : m.pnext[d] = IF d = c THEN next ELSE IF d = prev THEN c ELSE l.pnext[d]
      /\ \A d \in C : m.pparent[d] = IF d = c THEN p ELSE l.pparent[d]
  BY <1>1 DEF Spliced, Stored, LinkTables
<1>3. /\ s \in Seq(C) /\ Len(s) \in Nat
      /\ \A j \in 1..Len(s) : s[j] \in C /\ l.pparent[s[j]] = p
      /\ \A j, k \in 1..Len(s) : j # k => s[j] # s[k]
  BY ListPositions
<1>4. /\ l.pfirst[p] = At(s, 1)
      /\ \A j \in 1..Len(s) : l.pnext[s[j]] = At(s, j + 1)
  BY DEF IsList
<1>5. /\ t \in Seq(C) /\ Len(t) = Len(s) + 1
      /\ \A j \in 1..Len(s) + 1 : t[j] = IF j < i THEN s[j] ELSE IF j = i THEN c ELSE s[j - 1]
  BY <1>3, InsertAtProperties
<1>6. next = At(s, i)
  <2>1. CASE i = 1
    BY <1>4, <2>1 DEF Before, Adjacent
  <2>2. CASE i # 1
    <3>1. i - 1 \in 1..Len(s) /\ prev = s[i - 1] /\ prev # Nil /\ l.pnext[prev] = At(s, i)
      BY <1>1, <1>3, <1>4, <2>2 DEF Before
    <3> QED
      BY <3>1 DEF Adjacent
  <2> QED
    BY <2>1, <2>2
<1> SUFFICES IsList(m, p, C, t)
  OBVIOUS
<1> HIDE DEF m, t
<1>7. m.pfirst[p] = At(t, 1)
  <2>1. CASE i = 1
    BY <1>2, <1>3, <1>5, <2>1 DEF Before, At
  <2>2. CASE i # 1
    <3>1. 1 \in 1..Len(s) /\ i - 1 \in 1..Len(s) /\ prev = s[i - 1] /\ prev # Nil
      BY <1>1, <1>3, <2>2 DEF Before
    <3>2. t[1] = s[1] /\ l.pfirst[p] = s[1]
      BY <1>3, <1>4, <1>5, <2>2, <3>1 DEF At
    <3> QED
      BY <1>2, <1>3, <1>5, <3>1, <3>2 DEF At
  <2> QED
    BY <2>1, <2>2
<1>8. ASSUME NEW j \in 1..Len(t)
      PROVE  m.pparent[t[j]] = p /\ m.pnext[t[j]] = At(t, j + 1)
  <2>1. j \in 1..Len(s) + 1 /\ j \in Int /\ i \in Int
    BY <1>3, <1>5
  <2>2. \A k \in 1..Len(s) : s[k] # c
    BY <1>1, <1>3
  <2>3. CASE j = i
    <3>1. t[j] = c
      BY <1>5, <2>1, <2>3
    <3>2. At(t, j + 1) = At(s, i)
      BY <1>3, <1>5, <2>1, <2>3 DEF At
    <3> QED
      BY <1>2, <1>6, <3>1, <3>2
  <2>4. CASE j < i
    <3>1. j \in 1..Len(s) /\ t[j] = s[j]
      BY <1>3, <1>5, <2>1, <2>4
    <3>2. CASE j = i - 1
      <4>1. prev = s[j] /\ At(t, j + 1) = c
        BY <1>3, <1>5, <2>1, <3>2 DEF Before, At
      <4> QED
        BY <1>2, <1>3, <2>2, <3>1, <4>1
    <3>3. CASE j # i - 1
      <4>1. j + 1 < i /\ j + 1 \in 1..Len(s) /\ i # 1 /\ i - 1 \in 1..Len(s)
        BY <1>3, <2>1, <2>4, <3>3
      <4>2. s[j] # prev
        BY <1>3, <3>1, <3>3, <4>1 DEF Before
      <4>3. At(t, j + 1) = s[j + 1] /\ At(s, j + 1) = s[j + 1]
        BY <1>3, <1>5, <4>1 DEF At
      <4> QED
        BY <1>2, <1>3, <1>4, <2>2, <3>1, <4>2, <4>3
    <3> QED
      BY <3>2, <3>3
  <2>5. CASE j > i
    <3>1. j - 1 \in 1..Len(s) /\ t[j] = s[j - 1]
      BY <1>3, <1>5, <2>1, <2>5
    <3>2. s[j - 1] # prev
      <4>1. CASE i = 1
        BY <1>1, <1>3, <3>1, <4>1 DEF Before
      <4>2. CASE i # 1
        <5>1. i - 1 \in 1..Len(s) /\ i - 1 # j - 1 /\ prev = s[i - 1]
          BY <1>3, <2>1, <2>5, <4>2 DEF Before
        <5> QED
          BY <1>3, <3>1, <5>1
      <4> QED
        BY <4>1, <4>2
    <3>3. At(t, j + 1) = At(s, j)
      BY <1>3, <1>5, <2>1, <2>5 DEF At
    <3>4. l.pnext[s[j - 1]] = At(s, j)
      BY <1>4, <2>1, <3>1
    <3> QED
      BY <1>2, <1>3, <2>2, <3>1, <3>2, <3>3, <3>4
  <2> QED
    BY <2>1, <2>3, <2>4, <2>5
<1> QED
  BY <1>5, <1>7, <1>8 DEF IsList

(* A child that is unlinked leaves its position.                           *)
LEMMA UnlinkedList ==
  ASSUME NEW P, NEW C, Nil \notin P \cup C, NEW l, Sound(l, P, C), NEW p \in P, NEW c \in C,
         NEW s, IsList(l, p, C, s), NEW i \in 1..Len(s), s[i] = c
  PROVE  IsList(Unlinked(l, p, c), p, C, RemoveAt(s, i))
<1> DEFINE m == Unlinked(l, p, c)
           t == RemoveAt(s, i)
           prev == l.pprevious[c]
           next == l.pnext[c]
<1>1. /\ l \in LinkTables(P, C)
      /\ prev \in C \cup {Nil} /\ next \in C \cup {Nil} /\ Nil \notin C
  BY DEF Sound, LinkTables
<1>2. /\ m.pfirst[p] = IF prev = Nil THEN next ELSE l.pfirst[p]
      /\ \A d \in C : m.pnext[d] = IF d = c THEN Nil ELSE IF d = prev THEN next ELSE l.pnext[d]
      /\ \A d \in C : m.pparent[d] = IF d = c THEN Nil ELSE l.pparent[d]
  BY <1>1 DEF Unlinked, Stored, LinkTables
<1>3. /\ s \in Seq(C) /\ Len(s) \in Nat
      /\ \A j \in 1..Len(s) : s[j] \in C /\ l.pparent[s[j]] = p
      /\ \A j, k \in 1..Len(s) : j # k => s[j] # s[k]
      /\ prev = Before(s, i)
  BY ListPositions
<1>4. /\ l.pfirst[p] = At(s, 1)
      /\ \A j \in 1..Len(s) : l.pnext[s[j]] = At(s, j + 1)
      /\ next = At(s, i + 1)
  BY DEF IsList
<1>5. /\ t \in Seq(C) /\ Len(t) = Len(s) - 1
      /\ \A j \in 1..Len(s) - 1 : t[j] = IF j < i THEN s[j] ELSE s[j + 1]
  BY <1>3, RemoveAtProperties
<1> SUFFICES IsList(m, p, C, t)
  OBVIOUS
<1> HIDE DEF m, t, prev, next
<1>7. m.pfirst[p] = At(t, 1)
  <2>1. CASE i = 1
    <3>1. At(t, 1) = At(s, 2)
      BY <1>3, <1>5, <2>1 DEF At
    <3> QED
      BY <1>2, <1>3, <1>4, <2>1, <3>1 DEF Before
  <2>2. CASE i # 1
    <3>1. 1 \in 1..Len(s) - 1 /\ i - 1 \in 1..Len(s) /\ prev = s[i - 1] /\ prev # Nil
      BY <1>1, <1>3, <2>2 DEF Before
    <3>2. t[1] = s[1] /\ l.pfirst[p] = s[1]
      BY <1>3, <1>4, <1>5, <2>2, <3>1 DEF At
    <3> QED
      BY <1>2, <1>3, <1>5, <3>1, <3>2 DEF At
  <2> QED
    BY <2>1, <2>2
<1>8. ASSUME NEW j \in 1..Len(t)
      PROVE  m.pparent[t[j]] = p /\ m.pnext[t[j]] = At(t, j + 1)
  <2>1. j \in 1..Len(s) - 1 /\ j \in Int /\ i \in Int /\ j \in 1..Len(s) /\ j + 1 \in 1..Len(s)
    BY <1>3, <1>5
  <2>2. \A k \in 1..Len(s) : k # i => s[k] # c
    BY <1>3
  <2>3. CASE j < i - 1
    <3>1. t[j] = s[j] /\ At(t, j + 1) = s[j + 1] /\ At(s, j + 1) = s[j + 1]
      BY <1>3, <1>5, <2>1, <2>3 DEF At
    <3>2. s[j] # c /\ s[j] # prev
      BY <1>3, <2>1, <2>2, <2>3 DEF Before
    <3>3. s[j] \in C /\ l.pparent[s[j]] = p /\ l.pnext[s[j]] = At(s, j + 1)
      BY <1>3, <1>4, <2>1
    <3>4. m.pparent[s[j]] = p /\ m.pnext[s[j]] = l.pnext[s[j]]
      BY <1>2, <3>2, <3>3
    <3> QED
      BY <3>1, <3>3, <3>4
  <2>4. CASE j = i - 1
    <3>1. t[j] = s[j] /\ prev = s[j] /\ s[j] # c
      BY <1>3, <1>5, <2>1, <2>2, <2>4 DEF Before
    <3>2. At(t, j + 1) = At(s, i + 1)
      BY <1>3, <1>5, <2>1, <2>4 DEF At
    <3>3. prev \in C /\ l.pparent[prev] = p /\ prev # c
      BY <1>3, <2>1, <3>1
    <3>4. m.pparent[prev] = p /\ m.pnext[prev] = next
      BY <1>2, <3>3
    <3> QED
      BY <1>4, <3>1, <3>2, <3>4
  <2>5. CASE j >= i
    <3>1. t[j] = s[j + 1] /\ s[j + 1] # c
      BY <1>3, <1>5, <2>1, <2>2, <2>5
    <3>2. s[j + 1] # prev
      <4>1. CASE i = 1
        BY <1>1, <1>3, <2>1, <4>1 DEF Before
      <4>2. CASE i # 1
        <5>1. i - 1 \in 1..Len(s) /\ i - 1 # j + 1 /\ prev = s[i - 1]
          BY <1>3, <2>1, <2>5, <4>2 DEF Before
        <5> QED
          BY <1>3, <2>1, <5>1
      <4> QED
        BY <4>1, <4>2
    <3>3. At(t, j + 1) = At(s, j + 2) /\ l.pnext[s[j + 1]] = At(s, j + 2)
      BY <1>3, <1>4, <1>5, <2>1, <2>5 DEF At
    <3>4. s[j + 1] \in C /\ l.pparent[s[j + 1]] = p
      BY <1>3, <2>1
    <3>5. m.pparent[s[j + 1]] = p /\ m.pnext[s[j + 1]] = l.pnext[s[j + 1]]
      BY <1>2, <3>1, <3>2, <3>4
    <3> QED
      BY <3>1, <3>3, <3>5
  <2> QED
    BY <2>1, <2>3, <2>4, <2>5
<1> QED
  BY <1>5, <1>7, <1>8 DEF IsList

(* Neither disturbs the list of another parent.                            *)
LEMMA OthersSpliced ==
  ASSUME NEW P, NEW C, Nil \notin P \cup C, NEW l, Sound(l, P, C), NEW p \in P, NEW c \in C, l.pparent[c] = Nil,
         NEW prev, NEW next, Adjacent(l, p, prev, next), NEW q \in P, q # p, NEW s, IsList(l, q, C, s)
  PROVE  IsList(Spliced(l, p, c, prev, next), q, C, s)
<1> DEFINE m == Spliced(l, p, c, prev, next)
<1>1. /\ l \in LinkTables(P, C) /\ q # Nil
      /\ prev \in C \cup {Nil} /\ Nil \notin C
      /\ prev # Nil => l.pparent[prev] = p
  BY DEF Sound, LinkTables, Adjacent
<1>2. /\ m.pfirst[q] = l.pfirst[q]
      /\ \A d \in C : m.pnext[d] = IF d = c THEN next ELSE IF d = prev THEN c ELSE l.pnext[d]
      /\ \A d \in C : m.pparent[d] = IF d = c THEN p ELSE l.pparent[d]
  BY <1>1 DEF Spliced, Stored, LinkTables
<1> HIDE DEF m
<1>3. ASSUME NEW i \in 1..Len(s)
      PROVE  m.pparent[s[i]] = q /\ m.pnext[s[i]] = At(s, i + 1)
  <2>1. s[i] \in C /\ l.pparent[s[i]] = q /\ l.pnext[s[i]] = At(s, i + 1)
    BY DEF IsList
  <2>2. s[i] # c /\ s[i] # prev
    BY <1>1, <2>1
  <2> QED
    BY <1>2, <2>1, <2>2
<1> QED
  BY <1>2, <1>3 DEF IsList, m

LEMMA OthersUnlinked ==
  ASSUME NEW P, NEW C, Nil \notin P \cup C, NEW l, Sound(l, P, C), NEW p \in P, NEW c \in C, l.pparent[c] = p,
         NEW q \in P, q # p, NEW s, IsList(l, q, C, s)
  PROVE  IsList(Unlinked(l, p, c), q, C, s)
<1> DEFINE m == Unlinked(l, p, c)
           prev == l.pprevious[c]
           next == l.pnext[c]
<1>1. /\ l \in LinkTables(P, C) /\ q # Nil
      /\ prev \in C \cup {Nil} /\ Nil \notin C
      /\ prev # Nil => l.pparent[prev] = p
  BY DEF Sound, AnchorsAgree, LinkTables
<1>2. /\ m.pfirst[q] = l.pfirst[q]
      /\ \A d \in C : m.pnext[d] = IF d = c THEN Nil ELSE IF d = prev THEN next ELSE l.pnext[d]
      /\ \A d \in C : m.pparent[d] = IF d = c THEN Nil ELSE l.pparent[d]
  BY <1>1 DEF Unlinked, Stored, LinkTables
<1> HIDE DEF m, prev
<1>3. ASSUME NEW i \in 1..Len(s)
      PROVE  m.pparent[s[i]] = q /\ m.pnext[s[i]] = At(s, i + 1)
  <2>1. s[i] \in C /\ l.pparent[s[i]] = q /\ l.pnext[s[i]] = At(s, i + 1)
    BY DEF IsList
  <2>2. s[i] # c /\ s[i] # prev
    BY <1>1, <2>1
  <2> QED
    BY <1>2, <2>1, <2>2
<1> QED
  BY <1>2, <1>3 DEF IsList, m

----------------------------------------------------------------------------
(* The children of each parent, in their order, as sequences.              *)

(* No child is found twice, and every child of p is found.                 *)
LEMMA ChildrenOnce ==
  ASSUME NEW P, NEW C, Nil \notin P \cup C, IsFiniteSet(C), NEW l, Sound(l, P, C), NEW p \in P
  PROVE  LET s == ChildrenOf(l, p)
         IN  /\ s \in Seq(C) /\ Len(s) \in Nat
             /\ \A i \in 1..Len(s) : s[i] \in C /\ l.pparent[s[i]] = p /\ l.pprevious[s[i]] = Before(s, i)
             /\ \A i, j \in 1..Len(s) : i # j => s[i] # s[j]
             /\ \A c \in C : l.pparent[c] = p => \E i \in 1..Len(s) : s[i] = c
<1> DEFINE s == ChildrenOf(l, p)
<1>1. IsList(l, p, C, s) /\ ToSet(s) = {c \in C : l.pparent[c] = p}
  BY ChildrenAreList, ChildrenListed
<1> SUFFICES /\ s \in Seq(C) /\ Len(s) \in Nat
             /\ \A i \in 1..Len(s) : s[i] \in C /\ l.pparent[s[i]] = p /\ l.pprevious[s[i]] = Before(s, i)
             /\ \A i, j \in 1..Len(s) : i # j => s[i] # s[j]
             /\ \A c \in C : l.pparent[c] = p => \E i \in 1..Len(s) : s[i] = c
  OBVIOUS
<1> HIDE DEF s
<1>2. /\ s \in Seq(C) /\ Len(s) \in Nat
      /\ \A i \in 1..Len(s) : s[i] \in C /\ l.pparent[s[i]] = p /\ l.pprevious[s[i]] = Before(s, i)
      /\ \A i, j \in 1..Len(s) : i # j => s[i] # s[j]
  BY <1>1, ListPositions
<1>3. \A c \in C : l.pparent[c] = p => \E i \in 1..Len(s) : s[i] = c
  BY <1>1, <1>2 DEF ToSet
<1> QED
  BY <1>2, <1>3

(* Linking a child inserts it behind prev.                                 *)
LEMMA ChildrenSpliced ==
  ASSUME NEW P, NEW C, Nil \notin P \cup C, IsFiniteSet(C), NEW l, Sound(l, P, C), NEW p \in P,
         NEW c \in C, l.pparent[c] = Nil, NEW prev, NEW next, Adjacent(l, p, prev, next)
  PROVE  LET m == Spliced(l, p, c, prev, next)
             s == ChildrenOf(l, p)
         IN  /\ \E i \in 1..Len(s) + 1 : Before(s, i) = prev
             /\ \A i \in 1..Len(s) + 1 : Before(s, i) = prev => ChildrenOf(m, p) = InsertAt(s, i, c)
             /\ \A q \in P : q # p => ChildrenOf(m, q) = ChildrenOf(l, q)
<1> DEFINE m == Spliced(l, p, c, prev, next)
           s == ChildrenOf(l, p)
<1>1. Sound(m, P, C) /\ IsList(l, p, C, s)
  BY SplicedSound, ChildrenAreList
<1> HIDE DEF s
<1>2. \E i \in 1..Len(s) + 1 : Before(s, i) = prev
  BY <1>1, AdjacentAt
<1>3. ASSUME NEW i \in 1..Len(s) + 1, Before(s, i) = prev
      PROVE  ChildrenOf(m, p) = InsertAt(s, i, c)
  <2>1. IsList(m, p, C, InsertAt(s, i, c))
    BY <1>1, <1>3, SplicedList
  <2> HIDE DEF m
  <2> QED
    BY <1>1, <2>1, OneList
<1>4. ASSUME NEW q \in P, q # p
      PROVE  ChildrenOf(m, q) = ChildrenOf(l, q)
  <2> DEFINE t == ChildrenOf(l, q)
  <2>1. IsList(l, q, C, t)
    BY ChildrenAreList
  <2> HIDE DEF t
  <2>2. IsList(m, q, C, t)
    BY <1>4, <2>1, OthersSpliced
  <2> HIDE DEF m
  <2>3. ChildrenOf(m, q) = t
    BY <1>1, <2>2, OneList
  <2> QED
    BY <2>3 DEF t
<1> QED
  BY <1>2, <1>3, <1>4 DEF s

(* Unlinking a child removes it.                                           *)
LEMMA ChildrenUnlinked ==
  ASSUME NEW P, NEW C, Nil \notin P \cup C, IsFiniteSet(C), NEW l, Sound(l, P, C), NEW p \in P,
         NEW c \in C, l.pparent[c] = p
  PROVE  LET m == Unlinked(l, p, c)
             s == ChildrenOf(l, p)
         IN  /\ \A i \in 1..Len(s) : s[i] = c => ChildrenOf(m, p) = RemoveAt(s, i)
             /\ \A q \in P : q # p => ChildrenOf(m, q) = ChildrenOf(l, q)
<1> DEFINE m == Unlinked(l, p, c)
           s == ChildrenOf(l, p)
<1>1. Sound(m, P, C) /\ IsList(l, p, C, s)
  BY UnlinkedSound, ChildrenAreList
<1> HIDE DEF s
<1>2. ASSUME NEW i \in 1..Len(s), s[i] = c
      PROVE  ChildrenOf(m, p) = RemoveAt(s, i)
  <2>1. IsList(m, p, C, RemoveAt(s, i))
    BY <1>1, <1>2, UnlinkedList
  <2> HIDE DEF m
  <2> QED
    BY <1>1, <2>1, OneList
<1>3. ASSUME NEW q \in P, q # p
      PROVE  ChildrenOf(m, q) = ChildrenOf(l, q)
  <2> DEFINE t == ChildrenOf(l, q)
  <2>1. IsList(l, q, C, t)
    BY ChildrenAreList
  <2> HIDE DEF t
  <2>2. IsList(m, q, C, t)
    BY <1>3, <2>1, OthersUnlinked
  <2> HIDE DEF m
  <2>3. ChildrenOf(m, q) = t
    BY <1>1, <2>2, OneList
  <2> QED
    BY <2>3 DEF t
<1> QED
  BY <1>2, <1>3 DEF s
=============================================================================
