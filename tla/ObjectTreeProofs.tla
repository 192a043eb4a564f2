-------------------------- MODULE ObjectTreeProofs --------------------------
(***************************************************************************)
(* Theorems about the hierarchy of objects (module ObjectTree), for any    *)
(* finite set of objects: it is a tree of the objects that exist, with     *)
(* unique paths, whatever is created, deleted and renamed, with whatever   *)
(* nested calls; and what is seen of it between the calls of clients       *)
(* implements module Hierarchy.                                            *)
(***************************************************************************)
EXTENDS ObjectTree, Lemmas

----------------------------------------------------------------------------
(* The objects above an object.                                            *)

(* One step up; the root and the null pointer stay where they are.         *)
Up(l) == [d \in Parents \cup {Nil} |-> IF d \in Children THEN l.pparent[d] ELSE d]

Chain(l, p, c) == Iterates(c, Parents \cup {Nil}, Up(l), p, Cardinality(Children))

Tables == LinkTables(Parents, Children)

LEMMA ObjectsFinite ==
  /\ Cardinality(Children) \in Nat /\ IsFiniteSet(Children)
  /\ Children \subseteq Parents /\ Root \in Parents /\ Root \notin Children /\ Nil \notin Parents
  /\ Nil \notin Parents \cup Children
BY ObjectTreeAssumption, FS_CardinalityType

(* AndAbove collects the chain of the parents.                             *)
Rising(l, p, w) ==
  w = [n \in 0..Cardinality(Children) |->
         IF n = 0 THEN {p} ELSE w[n - 1] \cup {l.pparent[d] : d \in w[n - 1] \cap Children}]

LEMMA AboveRises ==
  ASSUME NEW l, NEW p, NEW g, Rising(l, p, g)
  PROVE  \E w : Rising(l, p, w) /\ AndAbove(l, p) = w[Cardinality(Children)] \ {Nil}
<1> DEFINE w == CHOOSE f : f =
                  [n \in 0..Cardinality(Children) |->
                     IF n = 0 THEN {p}
                     ELSE LET lower == f[n - 1]
                          IN  lower \cup {l.pparent[d] : d \in lower \cap Children}]
<1>1. g = [n \in 0..Cardinality(Children) |->
             IF n = 0 THEN {p}
             ELSE LET lower == g[n - 1]
                  IN  lower \cup {l.pparent[d] : d \in lower \cap Children}]
  BY Zenon DEF Rising
<1>2. w = [n \in 0..Cardinality(Children) |->
             IF n = 0 THEN {p}
             ELSE LET lower == w[n - 1]
                  IN  lower \cup {l.pparent[d] : d \in lower \cap Children}]
  BY <1>1, Zenon
<1>3. AndAbove(l, p) = w[Cardinality(Children)] \ {Nil}
  BY Zenon DEF AndAbove
<1>4. Rising(l, p, w)
  <2> HIDE DEF w
  <2> QED
    BY <1>2, Zenon DEF Rising
<1> QED
  BY <1>3, <1>4

LEMMA AboveIsChain ==
  ASSUME NEW l \in Tables, NEW p \in Parents
  PROVE  /\ \E c : /\ Chain(l, p, c)
                   /\ AndAbove(l, p) = {c[i] : i \in 0..Cardinality(Children)} \ {Nil}
         /\ \E g : Rising(l, p, g)
<1> DEFINE N == Cardinality(Children)
<1>1. N \in Nat /\ Children \subseteq Parents
  BY ObjectsFinite
<1>2. \A d \in Parents \cup {Nil} : Up(l)[d] \in Parents \cup {Nil}
  BY <1>1 DEF Up, Tables, LinkTables
<1>3. PICK c : Chain(l, p, c)
  <2> DEFINE T == Parents \cup {Nil}
             h == Up(l)
  <2>1. p \in T /\ N \in Nat /\ \A t \in T : h[t] \in T
    BY <1>1, <1>2
  <2> HIDE DEF T, h, N
  <2>2. \E c : Iterates(c, T, h, p, N)
    BY <2>1, IteratesExist
  <2> QED
    BY <2>2 DEF Chain, T, h, N
<1>4. /\ c[0] = p
      /\ \A n \in 0..N : c[n] \in Parents \cup {Nil}
      /\ \A n \in 1..N : c[n] = IF c[n - 1] \in Children THEN l.pparent[c[n - 1]] ELSE c[n - 1]
  <2>1. /\ c \in [0..N -> Parents \cup {Nil}] /\ c[0] = p
        /\ \A n \in 1..N : c[n] = Up(l)[c[n - 1]]
    BY <1>3 DEF Chain, Iterates
  <2>2. \A n \in 1..N : n - 1 \in 0..N
    BY <1>1
  <2> QED
    BY <2>1, <2>2 DEF Up
<1> DEFINE Upto(n) == {c[i] : i \in 0..n}
           g == [n \in 0..N |-> Upto(n)]
<1>5. /\ Upto(0) = {p}
      /\ \A n \in 1..N : Upto(n) = Upto(n - 1) \cup {l.pparent[d] : d \in Upto(n - 1) \cap Children}
  <2>1. Upto(0) = {p}
    BY <1>4
  <2>2. ASSUME NEW n \in 1..N
        PROVE  Upto(n) = Upto(n - 1) \cup {l.pparent[d] : d \in Upto(n - 1) \cap Children}
    <3>1. ASSUME NEW i \in 0..n
          PROVE  c[i] \in Upto(n - 1) \cup {l.pparent[d] : d \in Upto(n - 1) \cap Children}
      <4>1. CASE i # n
        <5>1. i \in 0..(n - 1)
          BY <4>1
        <5> QED
          BY <5>1
      <4>2. CASE i = n
        <5>1. n - 1 \in 0..(n - 1) /\ c[n - 1] \in Upto(n - 1)
          BY <1>1
        <5> QED
          BY <1>4, <4>2, <5>1
      <4> QED
        BY <4>1, <4>2
    <3>2. ASSUME NEW i \in 0..(n - 1), c[i] \in Children
          PROVE  l.pparent[c[i]] \in Upto(n)
      <4>1. i + 1 \in 1..N /\ i + 1 \in 0..n /\ (i + 1) - 1 = i
        BY <1>1
      <4>2. c[i + 1] = l.pparent[c[i]]
        BY <1>4, <3>2, <4>1
      <4> QED
        BY <4>1, <4>2
    <3>3. \A i \in 0..(n - 1) : i \in 0..n
      BY <1>1
    <3> QED
      BY <3>1, <3>2, <3>3
  <2> QED
    BY <2>1, <2>2
<1> HIDE DEF Upto
<1>6. Rising(l, p, g)
  <2>1. \A n \in 1..N : n - 1 \in 0..N
    BY <1>1
  <2>2. \A n \in 0..N : g[n] = IF n = 0 THEN {p} ELSE g[n - 1] \cup {l.pparent[d] : d \in g[n - 1] \cap Children}
    BY <1>1, <1>5, <2>1
  <2> HIDE DEF N
  <2>3. g = [n \in 0..N |-> g[n]]
    OBVIOUS
  <2> HIDE DEF g
  <2> QED
    BY <2>2, <2>3 DEF Rising, N
<1>7. PICK w : Rising(l, p, w) /\ AndAbove(l, p) = w[N] \ {Nil}
  BY <1>6, AboveRises
<1>8. /\ w[0] = {p}
      /\ \A n \in 1..N : w[n] = w[n - 1] \cup {l.pparent[d] : d \in w[n - 1] \cap Children}
  BY <1>1, <1>7 DEF Rising
<1> DEFINE S == {n \in Nat : n <= N => w[n] = Upto(n)}
<1>9. 0 \in S
  BY <1>5, <1>8
<1>10. \A n \in Nat : n \in S => n + 1 \in S
  <2> SUFFICES ASSUME NEW n \in Nat, n \in S, n + 1 <= N
               PROVE  w[n + 1] = Upto(n + 1)
    OBVIOUS
  <2>1. w[n] = Upto(n) /\ n + 1 \in 1..N /\ (n + 1) - 1 = n
    BY <1>1
  <2> QED
    BY <1>5, <1>8, <2>1
<1> HIDE DEF S
<1>11. w[N] = Upto(N)
  <2>1. N \in S
    BY <1>1, <1>9, <1>10, AllNumbers
  <2> QED
    BY <1>1, <2>1 DEF S
<1>12. \E c1 : /\ Chain(l, p, c1)
              /\ AndAbove(l, p) = {c1[i] : i \in 0..N} \ {Nil}
  BY <1>3, <1>7, <1>11 DEF Upto
<1> QED
  BY <1>6, <1>12

(* A depth that decreases towards the root: there is no cycle.             *)
Deepens(l, depth) ==
  \A d \in Children : l.pparent[d] # Nil => depth[l.pparent[d]] < depth[d]

Rooted(l) == \E depth \in [Parents -> Nat] : Deepens(l, depth)

(* A set with the parents of its objects.                                  *)
Closed(l, S) == \A d \in S \cap Children : l.pparent[d] \in S \cup {Nil}

(* The chain does not end before the root, or where there is no parent.    *)
LEMMA ChainEnds ==
  ASSUME NEW l \in Tables, NEW depth \in [Parents -> Nat], Deepens(l, depth),
         NEW p \in Parents, NEW c, Chain(l, p, c)
  PROVE  c[Cardinality(Children)] \notin Children
<1> DEFINE N == Cardinality(Children)
           h == Up(l)
<1>1. /\ N \in Nat /\ IsFiniteSet(Children) /\ Children \subseteq Parents /\ Nil \notin Parents
      /\ c \in [0..N -> Parents \cup {Nil}] /\ c[0] = p
      /\ \A n \in 1..N : c[n] = h[c[n - 1]]
  BY ObjectsFinite DEF Chain, Iterates
<1>2. \A n \in 1..N : c[n - 1] \in Parents \cup {Nil}
  BY <1>1
<1>3. \A n \in 1..N : c[n] = IF c[n - 1] \in Children THEN l.pparent[c[n - 1]] ELSE c[n - 1]
  BY <1>1, <1>2 DEF Up
<1> HIDE DEF h
<1> SUFFICES ASSUME c[N] \in Children
             PROVE  FALSE
  OBVIOUS
<1> DEFINE S == {n \in Nat : n <= N => c[N - n] \in Children}
<1>4. 0 \in S
  BY <1>1
<1>5. ASSUME NEW n \in Nat, n \in S
      PROVE  n + 1 \in S
  <2> SUFFICES ASSUME n + 1 <= N
               PROVE  c[N - (n + 1)] \in Children
    OBVIOUS
  <2>1. N - n \in 1..N /\ (N - n) - 1 = N - (n + 1) /\ c[N - n] \in Children
    BY <1>1, <1>5
  <2> QED
    BY <1>3, <2>1
<1> HIDE DEF S
<1>6. Nat \subseteq S
  BY <1>4, <1>5, AllNumbers
<1>7. \A n \in 0..N : c[n] \in Children
  <2> TAKE n \in 0..N
  <2>1. N - n \in Nat /\ N - n <= N /\ N - (N - n) = n
    BY <1>1
  <2> QED
    BY <1>6, <2>1 DEF S
<1>8. \A n \in 1..N : depth[c[n]] < depth[c[n - 1]]
  <2> TAKE n \in 1..N
  <2>1. n - 1 \in 0..N /\ c[n - 1] \in Children /\ c[n] \in Children
    BY <1>1, <1>7
  <2> QED
    BY <1>1, <1>3, <2>1 DEF Deepens
<1> DEFINE D == {k \in Nat : \A n \in 0..N : n + k + 1 <= N => depth[c[n + k + 1]] < depth[c[n]]}
<1>9. 0 \in D
  <2> SUFFICES ASSUME NEW n \in 0..N, n + 1 <= N
               PROVE  depth[c[n + 1]] < depth[c[n]]
    BY <1>1
  <2>1. n + 1 \in 1..N /\ (n + 1) - 1 = n
    BY <1>1
  <2> QED
    BY <1>8, <2>1
<1>10. ASSUME NEW k \in Nat, k \in D
       PROVE  k + 1 \in D
  <2> SUFFICES ASSUME NEW n \in 0..N, n + k + 2 <= N
               PROVE  depth[c[n + k + 2]] < depth[c[n]]
    BY <1>1
  <2>1. n + k + 2 \in 1..N /\ (n + k + 2) - 1 = n + k + 1 /\ n + k + 1 \in 0..N /\ n + k + 2 \in 0..N
    BY <1>1
  <2>2. depth[c[n + k + 2]] < depth[c[n + k + 1]]
    BY <1>8, <2>1
  <2>3. depth[c[n + k + 1]] < depth[c[n]]
    BY <1>10, <2>1, <1>1
  <2>4. \A m \in 0..N : depth[c[m]] \in Nat
    BY <1>1, <1>7
  <2>5. depth[c[n]] \in Nat /\ depth[c[n + k + 1]] \in Nat /\ depth[c[n + k + 2]] \in Nat
    BY <2>1, <2>4
  <2> QED
    BY <2>2, <2>3, <2>5
<1> HIDE DEF D
<1>11. Nat \subseteq D
  BY <1>9, <1>10, AllNumbers
<1>12. \A i, j \in 0..N : i < j => c[i] # c[j]
  <2> SUFFICES ASSUME NEW i \in 0..N, NEW j \in 0..N, i < j
               PROVE  c[i] # c[j]
    OBVIOUS
  <2>1. PICK k \in Nat : j = i + k + 1
    <3>1. (j - i) - 1 \in Nat /\ j = i + ((j - i) - 1) + 1
      BY <1>1
    <3> QED
      BY <3>1
  <2>2. depth[c[j]] < depth[c[i]]
    <3>1. k \in D
      BY <1>11
    <3> QED
      BY <2>1, <3>1 DEF D
  <2>3. depth[c[i]] \in Nat
    BY <1>1, <1>7
  <2> QED
    BY <2>2, <2>3
<1>13. c \in [0..N -> Children]
  BY <1>1, <1>7
<1>14. IsFiniteSet(0..N) /\ Cardinality(0..N) = N + 1
  BY <1>1, FS_Interval
<1>15. PICK i, j \in 0..N : i # j /\ c[i] = c[j]
  <2>1. Cardinality(Children) < Cardinality(0..N)
    BY <1>1, <1>14
  <2>2. IsFiniteSet(Children)
    BY <1>1
  <2> HIDE DEF N
  <2> QED
    BY <1>13, <1>14, <2>1, <2>2, FS_PigeonHole, Zenon
<1>16. i < j \/ j < i
  BY <1>1, <1>15
<1> HIDE DEF N
<1> QED
  BY <1>12, <1>15, <1>16

(* AndAbove is the least set with p that is closed.                        *)
LEMMA AboveIs ==
  ASSUME NEW l \in Tables, Rooted(l), NEW p \in Parents
  PROVE  /\ p \in AndAbove(l, p) /\ AndAbove(l, p) \subseteq Parents
         /\ Closed(l, AndAbove(l, p))
         /\ \A S : p \in S /\ Closed(l, S) => AndAbove(l, p) \subseteq S
<1> DEFINE N == Cardinality(Children)
<1>1. PICK depth \in [Parents -> Nat] : Deepens(l, depth)
  BY DEF Rooted
<1>2. PICK c : Chain(l, p, c) /\ AndAbove(l, p) = {c[i] : i \in 0..N} \ {Nil}
  BY AboveIsChain
<1>3. /\ N \in Nat /\ Children \subseteq Parents /\ Nil \notin Parents
      /\ c \in [0..N -> Parents \cup {Nil}] /\ c[0] = p
      /\ \A n \in 1..N : c[n] = Up(l)[c[n - 1]]
  BY <1>2, ObjectsFinite DEF Chain, Iterates
<1>4. \A n \in 1..N : n - 1 \in 0..N /\ c[n - 1] \in Parents \cup {Nil}
  BY <1>3
<1>5. \A n \in 1..N : c[n] = IF c[n - 1] \in Children THEN l.pparent[c[n - 1]] ELSE c[n - 1]
  BY <1>3, <1>4 DEF Up
<1>6. c[N] \notin Children
  BY <1>1, <1>2, ChainEnds
<1>7. p \in AndAbove(l, p) /\ AndAbove(l, p) \subseteq Parents
  BY <1>2, <1>3
<1>8. ASSUME NEW d \in AndAbove(l, p) \cap Children
      PROVE  l.pparent[d] \in AndAbove(l, p) \cup {Nil}
  <2>1. PICK i \in 0..N : d = c[i]
    BY <1>2, <1>8
  <2>2. i + 1 \in 1..N /\ i + 1 \in 0..N /\ (i + 1) - 1 = i
    BY <1>3, <1>6, <1>8, <2>1
  <2>3. c[i + 1] = l.pparent[d]
    BY <1>5, <1>8, <2>1, <2>2
  <2> QED
    BY <1>2, <2>2, <2>3
<1>9. ASSUME NEW S, p \in S, Closed(l, S)
      PROVE  AndAbove(l, p) \subseteq S
  <2> DEFINE R == {n \in Nat : n <= N => c[n] \in S \cup {Nil}}
  <2>1. 0 \in R
    BY <1>3, <1>9
  <2>2. ASSUME NEW n \in Nat, n \in R
        PROVE  n + 1 \in R
    <3> SUFFICES ASSUME n + 1 <= N
                 PROVE  c[n + 1] \in S \cup {Nil}
      OBVIOUS
    <3>1. n + 1 \in 1..N /\ (n + 1) - 1 = n /\ c[n] \in S \cup {Nil}
      BY <1>3, <2>2
    <3>2. c[n + 1] = IF c[n] \in Children THEN l.pparent[c[n]] ELSE c[n]
      BY <1>5, <3>1
    <3> QED
      BY <1>3, <1>9, <3>1, <3>2 DEF Closed
  <2> HIDE DEF R
  <2>3. Nat \subseteq R
    BY <2>1, <2>2, AllNumbers
  <2>4. \A n \in 0..N : c[n] \in S \cup {Nil}
    BY <1>3, <2>3 DEF R
  <2> QED
    BY <1>2, <2>4
<1> QED
  BY <1>7, <1>8, <1>9 DEF Closed

LEMMA AboveTransitive ==
  ASSUME NEW l \in Tables, Rooted(l), NEW p \in Parents, NEW a \in AndAbove(l, p)
  PROVE  AndAbove(l, a) \subseteq AndAbove(l, p)
<1>1. a \in Parents /\ Closed(l, AndAbove(l, p))
  BY AboveIs
<1> QED
  BY <1>1, AboveIs

LEMMA AboveAntisymmetric ==
  ASSUME NEW l \in Tables, Rooted(l), NEW p \in Parents, NEW a \in AndAbove(l, p), p \in AndAbove(l, a)
  PROVE  a = p
<1>1. PICK depth \in [Parents -> Nat] : Deepens(l, depth)
  BY DEF Rooted
<1>2. ASSUME NEW b \in Parents
      PROVE  \A d \in AndAbove(l, b) : d = b \/ depth[d] < depth[b]
  <2> DEFINE S == {b} \cup {d \in Parents : depth[d] < depth[b]}
  <2>1. ASSUME NEW d \in S \cap Children
        PROVE  l.pparent[d] \in S \cup {Nil}
    <3>1. d \in Parents /\ l.pparent[d] \in Parents \cup {Nil}
      BY ObjectsFinite DEF Tables, LinkTables
    <3> SUFFICES ASSUME l.pparent[d] # Nil
                 PROVE  l.pparent[d] \in S
      OBVIOUS
    <3>2. depth[l.pparent[d]] < depth[d]
      BY <1>1, <2>1 DEF Deepens
    <3>3. l.pparent[d] \in Parents /\ depth[l.pparent[d]] \in Nat /\ depth[d] \in Nat /\ depth[b] \in Nat
      BY <3>1
    <3>4. d = b \/ depth[d] < depth[b]
      BY <2>1
    <3> QED
      BY <3>2, <3>3, <3>4
  <2> HIDE DEF S
  <2>2. Closed(l, S)
    BY <2>1 DEF Closed
  <2>3. b \in S
    BY DEF S
  <2>4. AndAbove(l, b) \subseteq S
    BY <2>2, <2>3, AboveIs
  <2> QED
    BY <2>4 DEF S
<1>3. a \in Parents
  BY AboveIs
<1>4. (a = p \/ depth[a] < depth[p]) /\ (p = a \/ depth[p] < depth[a])
  BY <1>2, <1>3
<1>5. depth[a] \in Nat /\ depth[p] \in Nat
  BY <1>3
<1> QED
  BY <1>4, <1>5

LEMMA AboveParent ==
  ASSUME NEW l \in Tables, Rooted(l), NEW d \in Children
  PROVE  AndAbove(l, d) = IF l.pparent[d] = Nil THEN {d} ELSE {d} \cup AndAbove(l, l.pparent[d])
<1> DEFINE q == l.pparent[d]
<1>1. d \in Parents /\ q \in Parents \cup {Nil}
  BY ObjectsFinite DEF Tables, LinkTables
<1>2. d \in AndAbove(l, d) /\ q \in AndAbove(l, d) \cup {Nil}
  BY <1>1, AboveIs DEF Closed
<1>3. CASE q = Nil
  <2>1. Closed(l, {d})
    BY <1>3 DEF Closed
  <2>2. AndAbove(l, d) \subseteq {d}
    BY <1>1, <2>1, AboveIs
  <2> QED
    BY <1>2, <1>3, <2>2
<1>4. CASE q # Nil
  <2>1. q \in Parents /\ q \in AndAbove(l, d)
    BY <1>1, <1>2, <1>4
  <2>2. AndAbove(l, q) \subseteq AndAbove(l, d)
    BY <1>1, <2>1, AboveTransitive
  <2>3. Closed(l, {d} \cup AndAbove(l, q))
    <3>1. q \in AndAbove(l, q) /\ Closed(l, AndAbove(l, q))
      BY <2>1, AboveIs
    <3> QED
      BY <3>1 DEF Closed
  <2>4. AndAbove(l, d) \subseteq {d} \cup AndAbove(l, q)
    BY <1>1, <2>3, AboveIs
  <2> QED
    BY <1>2, <1>4, <2>2, <2>4
<1> QED
  BY <1>3, <1>4

(* Only the parents of the objects above matter.                           *)
LEMMA AboveSame ==
  ASSUME NEW l \in Tables, Rooted(l), NEW m \in Tables, Rooted(m), NEW p \in Parents,
         \A d \in AndAbove(l, p) \cap Children : m.pparent[d] = l.pparent[d]
  PROVE  AndAbove(m, p) = AndAbove(l, p)
<1>1. /\ p \in AndAbove(l, p) /\ Closed(l, AndAbove(l, p))
      /\ p \in AndAbove(m, p) /\ Closed(m, AndAbove(m, p))
  BY AboveIs
<1>2. AndAbove(m, p) \subseteq AndAbove(l, p)
  <2>1. Closed(m, AndAbove(l, p))
    BY <1>1 DEF Closed
  <2> QED
    BY <1>1, <2>1, AboveIs
<1>3. AndAbove(l, p) \subseteq AndAbove(m, p)
  <2>1. Closed(l, AndAbove(m, p))
    BY <1>1, <1>2 DEF Closed
  <2> QED
    BY <1>1, <2>1, AboveIs
<1> QED
  BY <1>2, <1>3

(* Objects that exist are in others or in the root, and the rest in none.  *)
Living(l, S) ==
  \A d \in Children : IF d \in S THEN l.pparent[d] \in S \cup {Root} ELSE l.pparent[d] = Nil

LEMMA AboveLiving ==
  ASSUME NEW l \in Tables, Rooted(l), NEW S \in SUBSET Children, Living(l, S), NEW p \in S \cup {Root}
  PROVE  Root \in AndAbove(l, p) /\ AndAbove(l, p) \subseteq S \cup {Root}
<1> DEFINE A == AndAbove(l, p)
<1>1. p \in Parents /\ Nil \notin Parents /\ Parents = Children \cup {Root} /\ Root \notin Children
  BY ObjectTreeAssumption
<1>2. A \subseteq S \cup {Root}
  <2>1. Closed(l, S \cup {Root})
    BY <1>1 DEF Closed, Living
  <2> QED
    BY <1>1, <2>1, AboveIs
<1>3. Root \in A
  <2>1. PICK depth \in [Parents -> Nat] : Deepens(l, depth)
    BY DEF Rooted
  <2> DEFINE T == {depth[d] : d \in A}
  <2>2. p \in A /\ A \subseteq Parents /\ Closed(l, A)
    BY <1>1, AboveIs
  <2>3. T \subseteq Nat /\ T # {}
    BY <2>2
  <2> HIDE DEF T
  <2>4. PICK m \in T : \A k \in T : m <= k
    BY <2>3, LeastElement
  <2>5. PICK d \in A : depth[d] = m
    BY DEF T
  <2> SUFFICES ASSUME d \in Children
               PROVE  FALSE
    BY <1>1, <2>2, <2>5
  <2>6. d \in S /\ l.pparent[d] \in S \cup {Root} /\ l.pparent[d] # Nil
    BY <1>1, <1>2 DEF Living
  <2>7. l.pparent[d] \in A /\ depth[l.pparent[d]] < depth[d]
    BY <2>1, <2>2, <2>6 DEF Closed, Deepens
  <2>8. depth[l.pparent[d]] \in T /\ m \in Nat /\ depth[l.pparent[d]] \in Nat
    BY <2>2, <2>3, <2>7 DEF T
  <2> QED
    BY <2>4, <2>5, <2>7, <2>8
<1> QED
  BY <1>2, <1>3

----------------------------------------------------------------------------
(* The objects above, when an object is linked or unlinked.                *)

LEMMA LinkedRooted ==
  ASSUME NEW l \in Tables, Rooted(l), NEW m \in Tables, NEW c \in Children, NEW p \in Parents,
         c \notin AndAbove(l, p), m.pparent = [l.pparent EXCEPT ![c] = p]
  PROVE  Rooted(m)
<1>1. PICK depth \in [Parents -> Nat] : Deepens(l, depth)
  BY DEF Rooted
<1> DEFINE below == {d \in Parents : c \in AndAbove(l, d)}
           deeper == [d \in Parents |-> IF d \in below THEN depth[d] + depth[p] + 1 ELSE depth[d]]
<1>2. c \in Parents /\ c \in AndAbove(l, c) /\ Nil \notin Parents
  BY ObjectsFinite, AboveIs
<1>3. deeper \in [Parents -> Nat]
  OBVIOUS
<1>4. ASSUME NEW d \in Children, m.pparent[d] # Nil
      PROVE  deeper[m.pparent[d]] < deeper[d]
  <2>1. /\ d \in Parents /\ l.pparent \in [Children -> Parents \cup {Nil}]
        /\ m.pparent[d] \in Parents
    BY <1>4, ObjectsFinite DEF Tables, LinkTables
  <2>2. CASE d = c
    <3>1. m.pparent[d] = p /\ p \notin below /\ c \in below
      BY <1>2, <2>1, <2>2
    <3>2. deeper[p] = depth[p] /\ deeper[c] = depth[c] + depth[p] + 1
      BY <1>2, <3>1
    <3>3. depth[c] \in Nat /\ depth[p] \in Nat
      BY <1>2
    <3> QED
      BY <2>2, <3>1, <3>2, <3>3
  <2>3. CASE d # c
    <3> DEFINE q == l.pparent[d]
    <3>1. m.pparent[d] = q /\ q \in Parents
      BY <2>1, <2>3
    <3>2. d \in below <=> q \in below
      <4>1. AndAbove(l, d) = {d} \cup AndAbove(l, q)
        BY <1>2, <3>1, AboveParent
      <4> QED
        BY <2>1, <2>3, <3>1, <4>1
    <3>3. depth[q] < depth[d]
      BY <1>1, <1>2, <3>1 DEF Deepens
    <3>4. depth[q] \in Nat /\ depth[d] \in Nat /\ depth[p] \in Nat
      BY <2>1, <3>1
    <3>5. /\ deeper[q] = IF q \in below THEN depth[q] + depth[p] + 1 ELSE depth[q]
          /\ deeper[d] = IF d \in below THEN depth[d] + depth[p] + 1 ELSE depth[d]
      BY <2>1, <3>1
    <3> HIDE DEF deeper, below
    <3>6. deeper[q] < deeper[d]
      BY <3>2, <3>3, <3>4, <3>5
    <3> QED
      BY <3>1, <3>6
  <2> QED
    BY <2>2, <2>3
<1> HIDE DEF deeper
<1> QED
  BY <1>3, <1>4 DEF Rooted, Deepens

LEMMA LinkedAbove ==
  ASSUME NEW l \in Tables, Rooted(l), NEW m \in Tables, NEW c \in Children, NEW p \in Parents,
         c \notin AndAbove(l, p), m.pparent = [l.pparent EXCEPT ![c] = p]
  PROVE  /\ \A d \in Parents : c \notin AndAbove(l, d) => AndAbove(m, d) = AndAbove(l, d)
         /\ AndAbove(m, c) = {c} \cup AndAbove(l, p)
<1>1. Rooted(m)
  BY LinkedRooted
<1>2. /\ l.pparent \in [Children -> Parents \cup {Nil}] /\ Nil \notin Parents
      /\ m.pparent[c] = p /\ \A d \in Children : d # c => m.pparent[d] = l.pparent[d]
  BY ObjectsFinite DEF Tables, LinkTables
<1>3. ASSUME NEW d \in Parents, c \notin AndAbove(l, d)
      PROVE  AndAbove(m, d) = AndAbove(l, d)
  BY <1>1, <1>2, <1>3, AboveSame
<1>4. AndAbove(m, c) = {c} \cup AndAbove(l, p)
  <2>1. AndAbove(m, c) = {c} \cup AndAbove(m, p)
    BY <1>1, <1>2, AboveParent
  <2> QED
    BY <1>3, <2>1
<1> QED
  BY <1>3, <1>4

LEMMA UnlinkedRooted ==
  ASSUME NEW l \in Tables, Rooted(l), NEW m \in Tables, NEW c \in Children,
         m.pparent = [l.pparent EXCEPT ![c] = Nil]
  PROVE  /\ Rooted(m)
         /\ \A d \in Parents : c \notin AndAbove(l, d) => AndAbove(m, d) = AndAbove(l, d)
<1>1. PICK depth \in [Parents -> Nat] : Deepens(l, depth)
  BY DEF Rooted
<1>2. /\ l.pparent \in [Children -> Parents \cup {Nil}]
      /\ m.pparent[c] = Nil /\ \A d \in Children : d # c => m.pparent[d] = l.pparent[d]
  BY DEF Tables, LinkTables
<1>3. Deepens(m, depth)
  BY <1>1, <1>2 DEF Deepens
<1>4. Rooted(m)
  BY <1>3 DEF Rooted
<1>5. ASSUME NEW d \in Parents, c \notin AndAbove(l, d)
      PROVE  AndAbove(m, d) = AndAbove(l, d)
  BY <1>2, <1>4, <1>5, AboveSame
<1> QED
  BY <1>4, <1>5

(* A child without a parent that can be linked to p gets that parent, and  *)
(* no other one changes.                                                   *)
LEMMA LinkedParents ==
  ASSUME NEW l \in Tables, NEW p \in Parents, NEW c \in Children, l.pparent[c] = Nil, NEW clash,
         NEW place, LinkResult(l, p, c, place, clash) = "OK"
  PROVE  LinkOutcome(l, p, c, place, clash).pparent = [l.pparent EXCEPT ![c] = p]
<1>1. p # Nil
  BY ObjectsFinite
<1>2. LinkOutcome(l, p, c, place, clash) = Placed(UnlinkOutcome(l, p, c), p, c, place)
  BY <1>1 DEF LinkOutcome
<1>3. UnlinkOutcome(l, p, c) = l
  BY <1>1 DEF UnlinkOutcome
<1> QED
  BY <1>2, <1>3 DEF Placed, Spliced

----------------------------------------------------------------------------
(* The invariant.                                                          *)

Frames == stack \in Seq(Frame)

Types ==
  /\ alive \in SUBSET Children
  /\ holder \in [Held -> Holders \cup {Nil}]
  /\ name \in [Children -> Names \cup {Nil}]
  /\ before \in [parent : [Children -> Parents \cup {Nil}],
                 name : [Children -> Names \cup {Nil}],
                 holder : [Held -> Holders \cup {Nil}]]

Pointers == Sound(links, Parents, Children) /\ Rooted(links) /\ Living(links, alive)

(* A call is for an object that exists, below those of the calls it is     *)
(* made from, and constructors are called by constructors only.            *)
Nested(s, l, S) ==
  \A j \in DOMAIN s :
    /\ s[j].obj \in S
    /\ \A i \in DOMAIN s : i < j =>
         /\ s[i].obj \in AndAbove(l, s[j].obj) /\ s[i].obj # s[j].obj
         /\ s[j].at = "constructor" => s[i].at = "constructor"

(* What is not started up is at or below the object of the first call.     *)
Starting ==
  /\ started \subseteq alive
  /\ \A d \in alive \ started : stack # <<>> /\ stack[1].obj \in AndAbove(links, d)

IInv == Types /\ Frames /\ Pointers /\ Nested(stack, links, alive) /\ Starting /\ LinksOfTheLiving /\ PathsUnique

LEMMA PointersSound ==
  ASSUME Pointers
  PROVE  /\ links \in Tables /\ Rooted(links) /\ Living(links, alive)
         /\ Sound(links, Parents, Children) /\ Nil \notin Parents \cup Children
         /\ links.pparent \in [Children -> Parents \cup {Nil}]
BY ObjectsFinite DEF Pointers, Sound, Tables, LinkTables

LEMMA TreeFollows ==
  ASSUME Types, Pointers, Running
  PROVE  TreeOfTheLiving
<1>1. AnchorsAgree(links) /\ HeadsAgree(links) /\ links \in LinkTables(Parents, Children)
  BY DEF Pointers, Sound
<1>2. ASSUME NEW o \in Children
      PROVE  IF o \in alive THEN /\ {Root, lost} \cap AndAbove(links, o) # {}
                                 /\ AndAbove(links, o) \subseteq alive \cup {Root}
                            ELSE links.pparent[o] = Nil /\ links.pfirst[o] = Nil
  <2>1. CASE o \in alive
    <3>1. Root \in AndAbove(links, o) /\ AndAbove(links, o) \subseteq alive \cup {Root}
      BY <2>1, AboveLiving, PointersSound DEF Types
    <3> QED
      BY <2>1, <3>1
  <2>2. CASE o \notin alive
    <3>1. o \in Parents /\ links.pfirst[o] \in Children \cup {Nil} /\ Root # o
      BY <1>1, ObjectsFinite DEF LinkTables
    <3>2. links.pfirst[o] # Nil => links.pparent[links.pfirst[o]] = o
      BY <1>1, <3>1 DEF HeadsAgree, LinkTables
    <3>3. Living(links, alive) /\ o # Nil
      BY <3>1, PointersSound
    <3> QED
      BY <2>2, <3>1, <3>2, <3>3 DEF Living
  <2> QED
    BY <2>1, <2>2
<1> QED
  BY <1>1, <1>2 DEF TreeOfTheLiving, Running

(* The tables while an object is moved.                                    *)
LEMMA MovedSound ==
  ASSUME Types, Pointers, NEW o \in alive
  PROVE  /\ Sound(Moved(o), Parents, Children) /\ Moved(o) \in Tables
         /\ Moved(o).pparent = [links.pparent EXCEPT ![o] = Nil]
<1>1. o \in Children /\ links.pparent[o] \in Parents
  BY PointersSound, ObjectsFinite DEF Types, Living
<1>2. Sound(Moved(o), Parents, Children) /\ Moved(o).pparent = [links.pparent EXCEPT ![o] = Nil]
  BY <1>1, PointersSound, UnlinkedSound DEF Moved
<1> QED
  BY <1>2 DEF Sound, Tables

(* The link of an object that is moved is refused for its hint alone.      *)
LEMMA MovedLinks ==
  ASSUME Types, Pointers, NEW o \in alive, NEW p \in alive \cup {Root}, NEW n,
         NEW place \in Place(Children), p # links.pparent[o], RenameResult(o, p, n, place) = "OK"
  PROVE  Refused(o, p, n, place) <=> ~IsKnown(place)
<1> DEFINE m == Moved(o)
<1>1. /\ o \in Children /\ p \in Parents /\ o # Nil /\ p # Nil
      /\ Sound(m, Parents, Children) /\ m.pparent = [links.pparent EXCEPT ![o] = Nil]
      /\ links.pparent \in [Children -> Parents \cup {Nil}]
  BY PointersSound, ObjectsFinite, MovedSound DEF Types
<1>2. m.pparent[o] = Nil /\ \A d \in Children : d # o => m.pparent[d] = links.pparent[d]
  BY <1>1
<1>3. place.rel # o /\ ~NameTaken(p, n) /\ (place.hint \in Relative => Parent(links, place.rel) = p)
  BY DEF RenameResult, RenameChecks
<1>4. ~TakenThen(o, p, n)
  <2>1. ToSet(ChildrenOf(links, p)) = {c \in Children : links.pparent[c] = p}
    BY <1>1, ObjectsFinite, PointersSound, ChildrenListed
  <2>2. ToSet(ChildrenOf(m, p)) = {c \in Children : m.pparent[c] = p}
    BY <1>1, ObjectsFinite, PointersSound, ChildrenListed
  <2> QED
    BY <1>1, <1>2, <1>3, <2>1, <2>2 DEF TakenThen, NameTaken
<1>6. place.hint \in Relative => Parent(m, place.rel) = p
  <2> SUFFICES ASSUME place.hint \in Relative
               PROVE  Parent(m, place.rel) = p
    OBVIOUS
  <2>1. place.rel \in Children
    BY DEF Place, Known, Simple, Relative
  <2> QED
    BY <1>2, <1>3, <2>1, PointersSound DEF Parent
<1> HIDE DEF m
<1>7. LinkResult(m, p, o, place, TakenThen(o, p, n)) = IF IsKnown(place) THEN "OK" ELSE "BADPLACEMENT"
  BY <1>1, <1>2, <1>3, <1>4, <1>6 DEF LinkResult
<1> QED
  BY <1>7 DEF m, Refused

LEMMA CallsFew ==
  ASSUME Types, Frames, Nested(stack, links, alive)
  PROVE  Len(stack) <= Cardinality(Children)
<1> DEFINE f == [i \in 1..Len(stack) |-> stack[i].obj]
<1>1. Len(stack) \in Nat /\ DOMAIN stack = 1..Len(stack)
  BY DEF Frames
<1>2. f \in Injection(1..Len(stack), Children)
  <2>1. \A i \in 1..Len(stack) : f[i] \in Children
    BY <1>1 DEF Types, Nested
  <2>2. ASSUME NEW i \in 1..Len(stack), NEW j \in 1..Len(stack), f[i] = f[j]
        PROVE  i = j
    <3>1. ~(i < j) /\ ~(j < i)
      BY <1>1, <2>2 DEF Nested
    <3> QED
      BY <1>1, <3>1
  <2> QED
    BY <2>1, <2>2 DEF Injection, IsInjective
<1>3. Cardinality(1..Len(stack)) <= Cardinality(Children)
  <2> HIDE DEF f
  <2> QED
    BY <1>2, ObjectsFinite, FS_Injection
<1>4. Cardinality(1..Len(stack)) = Len(stack)
  <2>1. ASSUME NEW k \in Nat
        PROVE  Cardinality(1..k) = k
    BY FS_Interval
  <2> QED
    BY <1>1, <2>1
<1> QED
  BY <1>3, <1>4

LEMMA InvariantImplies ==
  ASSUME IInv, Running
  PROVE  TreeSound
<1>1. TypeOK
  <2>1. Len(stack) <= Cardinality(Children)
    BY CallsFew DEF IInv
  <2> QED
    BY <2>1 DEF IInv, Types, Frames, Pointers, Sound, Starting, TypeOK, Running
<1>2. TreeOfTheLiving
  BY TreeFollows DEF IInv
<1>3. LinksOfTheLiving /\ PathsUnique
  BY DEF IInv
<1>4. AllStarted
  BY DEF IInv, Starting, AllStarted
<1>5. AbortsOnUnknownHint
  BY MovedLinks DEF IInv, AbortsOnUnknownHint
<1> QED
  BY <1>1, <1>2, <1>3, <1>4, <1>5 DEF TreeSound

----------------------------------------------------------------------------
(* The stack of the calls.                                                 *)

LEMMA TopFrame ==
  ASSUME NEW s \in Seq(Frame), s # <<>>
  PROVE  /\ Len(s) \in Nat /\ Len(s) \in DOMAIN s /\ DOMAIN s = 1..Len(s)
         /\ Last(s) = s[Len(s)] /\ Last(s) \in Frame
BY DEF Last

LEMMA Popped ==
  ASSUME NEW s \in Seq(Frame), s # <<>>
  PROVE  /\ Front(s) \in Seq(Frame) /\ DOMAIN Front(s) = 1..(Len(s) - 1)
         /\ \A i \in 1..(Len(s) - 1) : Front(s)[i] = s[i]
         /\ Front(s) = <<>> <=> Len(s) = 1
<1>1. Len(s) \in Nat /\ Len(s) >= 1 /\ \A i \in 1..Len(s) : s[i] \in Frame
  OBVIOUS
<1>2. Front(s) = [i \in 1..(Len(s) - 1) |-> s[i]]
  BY <1>1 DEF Front
<1>3. Front(s) \in Seq(Frame)
  BY <1>1, <1>2
<1>4. DOMAIN Front(s) = 1..(Len(s) - 1) /\ \A i \in 1..(Len(s) - 1) : Front(s)[i] = s[i]
  BY <1>1, <1>2
<1>5. Len(Front(s)) = Len(s) - 1
  BY <1>1, <1>3, <1>4
<1>6. Front(s) = <<>> <=> Len(Front(s)) = 0
  BY <1>3
<1> QED
  BY <1>1, <1>3, <1>4, <1>5, <1>6

LEMMA NestedPopped ==
  ASSUME NEW s \in Seq(Frame), s # <<>>, NEW l, NEW S, Nested(s, l, S)
  PROVE  Nested(Front(s), l, S)
<1>1. DOMAIN s = 1..Len(s) /\ \A i \in 1..(Len(s) - 1) : i \in 1..Len(s)
  BY TopFrame
<1>2. DOMAIN Front(s) = 1..(Len(s) - 1) /\ \A i \in 1..(Len(s) - 1) : Front(s)[i] = s[i]
  BY Popped
<1> QED
  BY <1>1, <1>2 DEF Nested

LEMMA NestedPushed ==
  ASSUME NEW l \in Tables, Rooted(l), NEW S \in SUBSET Children,
         NEW s \in Seq(Frame), Nested(s, l, S), NEW o \in S, NEW at,
         s # <<>> => Last(s).obj \in AndAbove(l, o) /\ Last(s).obj # o,
         at = "constructor" => s = <<>> \/ Last(s).at = "constructor"
  PROVE  Nested(Calling(s, o, at), l, S)
<1> DEFINE r == Calling(s, o, at)
           k == Len(s)
<1>1. /\ k \in Nat /\ DOMAIN s = 1..k /\ DOMAIN r = 1..(k + 1)
      /\ \A i \in 1..k : r[i] = s[i]
      /\ r[k + 1] = [obj |-> o, at |-> at, made |-> 0]
      /\ s = <<>> <=> k = 0
  BY DEF Calling
<1> HIDE DEF r, k
<1>2. ASSUME NEW i \in 1..k
      PROVE  /\ s[i].obj \in AndAbove(l, o) /\ s[i].obj # o
             /\ at = "constructor" => s[i].at = "constructor"
  <2>1. s # <<>> /\ k \in 1..k /\ Last(s) = s[k] /\ s[k].obj \in S /\ o \in Parents /\ s[k].obj \in Parents
    BY <1>1, TopFrame, ObjectsFinite DEF k, Nested
  <2>2. CASE i = k
    BY <2>1, <2>2
  <2>3. CASE i # k
    <3>1. i < k
      BY <1>1, <2>3
    <3>2. /\ s[i].obj \in AndAbove(l, s[k].obj) /\ s[i].obj # s[k].obj
          /\ s[k].at = "constructor" => s[i].at = "constructor"
      BY <1>1, <2>1, <3>1 DEF Nested
    <3>3. s[i].obj \in AndAbove(l, o)
      BY <2>1, <3>2, AboveTransitive
    <3>4. s[i].obj # o
      BY <2>1, <3>2, AboveAntisymmetric
    <3> QED
      BY <2>1, <3>2, <3>3, <3>4
  <2> QED
    BY <2>2, <2>3
<1>3. ASSUME NEW j \in 1..(k + 1)
      PROVE  /\ r[j].obj \in S
             /\ \A i \in 1..(k + 1) : i < j =>
                  /\ r[i].obj \in AndAbove(l, r[j].obj) /\ r[i].obj # r[j].obj
                  /\ r[j].at = "constructor" => r[i].at = "constructor"
  <2>1. CASE j \in 1..k
    <3>1. r[j] = s[j] /\ \A i \in 1..(k + 1) : i < j => i \in 1..k /\ r[i] = s[i]
      BY <1>1, <2>1
    <3> QED
      BY <1>1, <2>1, <3>1 DEF Nested
  <2>2. CASE j = k + 1
    BY <1>1, <1>2, <2>2
  <2> QED
    BY <1>1, <2>1, <2>2
<1>4. Nested(r, l, S)
  BY <1>1, <1>3 DEF Nested
<1> QED
  BY <1>4 DEF r

(* The top frame changes, but neither its object nor into a constructor.   *)
LEMMA NestedChanged ==
  ASSUME NEW l, NEW S, NEW s \in Seq(Frame), s # <<>>, Nested(s, l, S), NEW r,
         DOMAIN r = DOMAIN s,
         \A i \in DOMAIN s : r[i].obj = s[i].obj /\ (i # Len(s) => r[i].at = s[i].at),
         r[Len(s)].at = "constructor" => Last(s).at = "constructor"
  PROVE  Nested(r, l, S)
<1>1. /\ Len(s) \in Nat /\ DOMAIN s = 1..Len(s) /\ Last(s) = s[Len(s)]
  BY TopFrame
<1>2. \A i, j \in DOMAIN s : i < j => i # Len(s)
  BY <1>1
<1> QED
  BY <1>1, <1>2 DEF Nested

(* The objects that are being cleaned up.                                  *)
Going(s) == {s[i].obj : i \in {j \in DOMAIN s : s[j].at = "cleanup"}}

LEMMA LinksAreLiving ==
  /\ LinksOfTheLiving <=>
       \A t \in Held : holder[t] # Nil => {t, holder[t]} \subseteq alive \ Going(stack)
  /\ LinksOfTheLiving' <=>
       \A t \in Held : holder'[t] # Nil => {t, holder'[t]} \subseteq alive' \ Going(stack')
BY Zenon DEF LinksOfTheLiving, Going

LEMMA GoingPushed ==
  ASSUME NEW s \in Seq(Frame), NEW o, NEW at, at # "cleanup"
  PROVE  Going(Calling(s, o, at)) = Going(s)
<1> DEFINE r == Calling(s, o, at)
           k == Len(s)
<1>1. /\ k \in Nat /\ DOMAIN s = 1..k /\ DOMAIN r = 1..(k + 1)
      /\ \A i \in 1..k : r[i] = s[i]
      /\ r[k + 1].at # "cleanup"
  BY DEF Calling
<1> HIDE DEF r, k
<1>2. {j \in DOMAIN r : r[j].at = "cleanup"} = {j \in DOMAIN s : s[j].at = "cleanup"}
  BY <1>1
<1>3. Going(r) = Going(s)
  BY <1>1, <1>2 DEF Going
<1> QED
  BY <1>3 DEF r

LEMMA GoingPopped ==
  ASSUME NEW s \in Seq(Frame), s # <<>>
  PROVE  Going(Front(s)) \subseteq Going(s)
<1> DEFINE r == Front(s)
<1>1. DOMAIN s = 1..Len(s) /\ \A i \in 1..(Len(s) - 1) : i \in 1..Len(s)
  BY TopFrame
<1>2. \A i \in DOMAIN r : i \in DOMAIN s /\ r[i] = s[i]
  BY <1>1, Popped
<1> HIDE DEF r
<1>3. Going(r) \subseteq Going(s)
  BY <1>2 DEF Going
<1> QED
  BY <1>3 DEF r

(* Under a constructor there are only constructors.                        *)
LEMMA NoneGoing ==
  ASSUME NEW l, NEW S, NEW s \in Seq(Frame), s # <<>>, Nested(s, l, S), Last(s).at = "constructor"
  PROVE  Going(s) = {}
<1>1. /\ Len(s) \in Nat /\ DOMAIN s = 1..Len(s) /\ Last(s) = s[Len(s)] /\ Len(s) \in DOMAIN s
  BY TopFrame
<1>2. \A i \in DOMAIN s : i = Len(s) \/ i < Len(s)
  BY <1>1
<1>3. \A i \in DOMAIN s : s[i].at = "constructor"
  BY <1>1, <1>2 DEF Nested
<1> QED
  BY <1>3 DEF Going

----------------------------------------------------------------------------
(* The steps.                                                              *)

LEMMA InitInvariant == Init => IInv
<1> SUFFICES ASSUME Init
             PROVE  IInv
  OBVIOUS
<1>1. /\ Nil \notin Parents \cup Children /\ links = Empty(Parents, Children)
      /\ alive = {} /\ started = {} /\ stack = <<>>
      /\ holder = [t \in Held |-> Nil] /\ name = [o \in Children |-> Nil] /\ before = NoTree
  BY ObjectsFinite DEF Init, NoTree
<1>2. links.pparent = [c \in Children |-> Nil]
  BY <1>1 DEF Empty
<1>3. Types
  BY <1>1 DEF Types, NoTree, Empty
<1>4. Frames /\ Nested(stack, links, alive) /\ Starting
  BY <1>1 DEF Frames, Nested, Starting
<1>5. Pointers
  <2>1. Sound(links, Parents, Children)
    BY <1>1, EmptyIsSound
  <2>2. Rooted(links)
    <3>1. [p \in Parents |-> 0] \in [Parents -> Nat] /\ Deepens(links, [p \in Parents |-> 0])
      BY <1>2 DEF Deepens
    <3> QED
      BY <3>1 DEF Rooted
  <2>3. Living(links, alive)
    BY <1>1, <1>2 DEF Living
  <2> QED
    BY <2>1, <2>2, <2>3 DEF Pointers
<1>6. LinksOfTheLiving /\ PathsUnique
  <2>1. \A t \in Held : holder[t] = Nil
    BY <1>1
  <2>2. LinksOfTheLiving
    BY <2>1, LinksAreLiving
  <2> QED
    BY <1>1, <2>2 DEF PathsUnique
<1> QED
  BY <1>3, <1>4, <1>5, <1>6 DEF IInv

(* As long as the tree stays as it is, so does what is said of it alone.   *)
LEMMA TreeUnchanged ==
  ASSUME IInv, UNCHANGED <<alive, links, name>>
  PROVE  /\ Pointers' /\ PathsUnique' /\ alive' \in SUBSET Children
         /\ name' \in [Children -> Names \cup {Nil}]
<1>1. Pointers'
  BY DEF IInv, Pointers, Sound, Rooted, Living, Deepens
<1>2. PathsUnique'
  BY DEF IInv, PathsUnique
<1> QED
  BY <1>1, <1>2 DEF IInv, Types

(* What the calls before saw, when a call is made or returns.              *)
LEMMA TreeTyped ==
  ASSUME IInv
  PROVE  {before, Tree, NoTree} \subseteq [parent : [Children -> Parents \cup {Nil}],
                                           name : [Children -> Names \cup {Nil}],
                                           holder : [Held -> Holders \cup {Nil}]]
<1>1. links.pparent \in [Children -> Parents \cup {Nil}]
  BY PointersSound DEF IInv
<1>2. Empty(Parents, Children).pparent \in [Children -> Parents \cup {Nil}]
  BY DEF Empty
<1> QED
  BY <1>1, <1>2 DEF IInv, Types, Tree, NoTree

(* Below an object that exists there are only objects that do.             *)
LEMMA BelowLiving ==
  ASSUME IInv, NEW o \in alive
  PROVE  AndBelow(o) \subseteq alive
<1> SUFFICES ASSUME NEW d \in Children, o \in AndAbove(links, d), d \notin alive
             PROVE  FALSE
  BY DEF AndBelow
<1>1. links \in Tables /\ Rooted(links) /\ Living(links, alive)
  BY PointersSound DEF IInv
<1>2. links.pparent[d] = Nil
  BY <1>1 DEF Living
<1>3. AndAbove(links, d) = {d}
  BY <1>1, <1>2, AboveParent
<1> QED
  BY <1>3

(* The call of a method for an object below that of the top frame.         *)
LEMMA ShutdownCalled ==
  ASSUME IInv, NEW o \in alive, Call(o, "shutdown"), UNCHANGED <<alive, links, holder, name, started>>,
         stack # <<>> => Top.obj \in AndAbove(links, o) /\ Top.obj # o
  PROVE  IInv'
<1>1. stack \in Seq(Frame) /\ stack' = Calling(stack, o, "shutdown")
  BY DEF IInv, Frames, Call
<1>2. links \in Tables /\ Rooted(links) /\ alive \in SUBSET Children
  BY PointersSound DEF IInv, Types
<1>3. Types'
  <2>1. before' \in {before, Tree}
    BY DEF Call
  <2> QED
    BY <2>1, TreeTyped DEF IInv, Types
<1>4. Frames'
  <2>1. [obj |-> o, at |-> "shutdown", made |-> 0] \in Frame
    BY <1>2, ObjectTreeAssumption DEF Frame
  <2> QED
    BY <1>1, <2>1 DEF Frames, Calling
<1>5. Pointers' /\ PathsUnique'
  BY TreeUnchanged
<1>6. Nested(stack, links, alive)'
  <2>1. Nested(stack, links, alive) /\ (stack # <<>> => Last(stack).obj \in AndAbove(links, o) /\ Last(stack).obj # o)
    BY DEF IInv, Top
  <2>2. Nested(Calling(stack, o, "shutdown"), links, alive)
    BY <1>1, <1>2, <2>1, NestedPushed
  <2> QED
    BY <1>1, <2>2
<1>7. Starting'
  <2>1. stack = <<>> => alive \ started = {}
    BY DEF IInv, Starting
  <2>2. stack # <<>> => stack'[1] = stack[1] /\ stack' # <<>>
    BY <1>1 DEF Calling
  <2> QED
    BY <2>1, <2>2 DEF IInv, Starting
<1>8. LinksOfTheLiving'
  <2>1. Going(stack') = Going(stack)
    BY <1>1, GoingPushed
  <2>2. \A t \in Held : holder[t] # Nil => {t, holder[t]} \subseteq alive \ Going(stack)
    BY LinksAreLiving DEF IInv
  <2>3. \A t \in Held : holder'[t] # Nil => {t, holder'[t]} \subseteq alive' \ Going(stack')
    BY <2>1, <2>2
  <2> QED
    BY <2>3, LinksAreLiving
<1> QED
  BY <1>3, <1>4, <1>5, <1>6, <1>7, <1>8 DEF IInv

LEMMA DeleteKeeps ==
  ASSUME IInv, NEW o \in Children, Delete(o)
  PROVE  IInv'
<1>1. CASE stack = <<>>
  BY <1>1, ShutdownCalled DEF Delete, MayDelete
<1>2. CASE stack # <<>>
  <2>1. Top \in Frame /\ Top.obj \in alive
    BY <1>2, TopFrame DEF IInv, Frames, Nested, Top
  <2>2. o \in AndBelow(Top.obj) /\ o # Top.obj
    BY <1>2 DEF Delete, MayDelete
  <2>3. o \in alive /\ Top.obj \in AndAbove(links, o)
    BY <2>1, <2>2, BelowLiving DEF AndBelow
  <2> QED
    BY <2>2, <2>3, ShutdownCalled DEF Delete
<1> QED
  BY <1>1, <1>2

LEMMA CleanChildKeeps ==
  ASSUME IInv, CleanChild
  PROVE  IInv'
<1> DEFINE o == Top.obj
           c == links.pfirst[o]
<1>1. stack # <<>> /\ c # Nil /\ Call(c, "shutdown") /\ UNCHANGED <<alive, links, holder, name, started>>
  BY DEF CleanChild
<1>2. o \in alive /\ o \in Children /\ o \in Parents /\ o # Nil /\ alive \subseteq Children
  BY <1>1, TopFrame, ObjectsFinite DEF IInv, Types, Frames, Nested, Top
<1>3. links \in Tables /\ Rooted(links) /\ Living(links, alive) /\ HeadsAgree(links)
  BY PointersSound DEF IInv, Sound
<1>4. c \in Children /\ links.pparent[c] = o
  BY <1>1, <1>2, <1>3 DEF Tables, LinkTables, HeadsAgree
<1>5. c \in alive
  BY <1>2, <1>3, <1>4 DEF Living
<1>6. AndAbove(links, c) = {c} \cup AndAbove(links, o)
  BY <1>2, <1>3, <1>4, AboveParent
<1>7. o \in AndAbove(links, o)
  BY <1>2, <1>3, AboveIs
<1>8. o # c
  <2>1. PICK depth \in [Parents -> Nat] : Deepens(links, depth)
    BY <1>3 DEF Rooted
  <2>2. depth[o] < depth[c]
    BY <1>2, <1>4, <2>1 DEF Deepens
  <2>3. depth[o] \in Nat
    BY <1>2
  <2> QED
    BY <2>2, <2>3
<1> HIDE DEF c
<1> QED
  BY <1>1, <1>5, <1>6, <1>7, <1>8, ShutdownCalled

(* The object of the first call is above all others, and exists.           *)
LEMMA FirstAbove ==
  ASSUME IInv, stack # <<>>
  PROVE  /\ Top \in Frame /\ Top.obj \in alive /\ Top.obj \in Parents
         /\ stack[1].obj \in AndAbove(links, Top.obj)
         /\ \A d \in AndBelow(Top.obj) : stack[1].obj \in AndAbove(links, d)
<1>1. /\ stack \in Seq(Frame) /\ Len(stack) \in Nat /\ Len(stack) \in DOMAIN stack
      /\ DOMAIN stack = 1..Len(stack) /\ Top = stack[Len(stack)] /\ Top \in Frame
  BY TopFrame DEF IInv, Frames, Top
<1>2. Top.obj \in alive /\ Top.obj \in Parents
  BY <1>1, ObjectsFinite DEF IInv, Types, Nested
<1>3. links \in Tables /\ Rooted(links)
  BY PointersSound DEF IInv
<1>4. stack[1].obj \in AndAbove(links, Top.obj)
  <2>1. CASE Len(stack) = 1
    BY <1>1, <1>2, <1>3, <2>1, AboveIs
  <2>2. CASE Len(stack) # 1
    <3>1. 1 \in DOMAIN stack /\ 1 < Len(stack)
      BY <1>1, <2>2
    <3> QED
      BY <1>1, <3>1 DEF IInv, Nested
  <2> QED
    BY <2>1, <2>2
<1>5. ASSUME NEW d \in AndBelow(Top.obj)
      PROVE  stack[1].obj \in AndAbove(links, d)
  <2>1. d \in Parents /\ Top.obj \in AndAbove(links, d)
    BY ObjectsFinite DEF AndBelow
  <2> QED
    BY <1>3, <1>4, <2>1, AboveTransitive
<1> QED
  BY <1>1, <1>2, <1>4, <1>5

(* A call goes on to cleanupinst; what it shuts down is below its object.  *)
LEMMA Proceeds ==
  ASSUME IInv, stack # <<>>, Proceed, UNCHANGED <<alive, links, name>>,
         started' \subseteq started, started \ started' \subseteq AndBelow(Top.obj)
  PROVE  IInv'
<1> DEFINE k == Len(stack)
<1>1. /\ stack \in Seq(Frame) /\ k \in Nat /\ k \in DOMAIN stack /\ DOMAIN stack = 1..k
      /\ Top = stack[k] /\ 1 \in DOMAIN stack
  BY TopFrame DEF IInv, Frames, Top
<1>2. /\ stack' = [stack EXCEPT ![k].at = "cleanup"] /\ stack' \in Seq(Frame)
      /\ DOMAIN stack' = DOMAIN stack /\ stack' # <<>>
      /\ \A i \in DOMAIN stack : stack'[i].obj = stack[i].obj /\ (i # k => stack'[i] = stack[i])
      /\ stack'[k].at = "cleanup"
  <2>1. stack' = [stack EXCEPT ![k].at = "cleanup"]
    BY DEF Proceed
  <2>2. stack[k] \in Frame
    BY <1>1
  <2>3. [stack[k] EXCEPT !.at = "cleanup"] \in Frame
    BY <2>2 DEF Frame
  <2>4. stack' = [stack EXCEPT ![k] = [stack[k] EXCEPT !.at = "cleanup"]]
    BY <2>1
  <2>5. stack' \in Seq(Frame)
    BY <1>1, <2>3, <2>4
  <2>6. DOMAIN stack' = DOMAIN stack /\ \A i \in DOMAIN stack : i # k => stack'[i] = stack[i]
    BY <1>1, <2>4
  <2>7. stack'[k] = [stack[k] EXCEPT !.at = "cleanup"]
    BY <1>1, <2>4
  <2>8. stack'[k].obj = stack[k].obj /\ stack'[k].at = "cleanup"
    BY <2>2, <2>7 DEF Frame
  <2> QED
    BY <1>1, <2>1, <2>5, <2>6, <2>8
<1>3. holder' = Alone(Top.obj) /\ before' = before
  BY DEF Proceed
<1>4. Types'
  BY <1>3, TreeUnchanged DEF IInv, Types, Alone
<1>5. Frames' /\ Pointers' /\ PathsUnique'
  BY <1>2, TreeUnchanged DEF Frames
<1>6. Nested(stack, links, alive)'
  <2>1. Nested(stack', links, alive)
    <3>1. \A i \in DOMAIN stack : i # k => stack'[i].at = stack[i].at
      BY <1>2
    <3>2. stack'[k].at # "constructor"
      BY <1>2
    <3> QED
      BY <1>1, <1>2, <3>1, <3>2, NestedChanged DEF IInv
  <2> QED
    BY <2>1
<1>7. Starting'
  <2>1. stack'[1].obj = stack[1].obj
    BY <1>1, <1>2
  <2>2. ASSUME NEW d \in alive \ started'
        PROVE  stack[1].obj \in AndAbove(links, d)
    BY <2>2, FirstAbove DEF IInv, Starting
  <2> QED
    BY <1>2, <2>1, <2>2 DEF IInv, Starting
<1>8. LinksOfTheLiving'
  <2>1. Going(stack') \subseteq Going(stack) \cup {Top.obj}
    BY <1>1, <1>2 DEF Going
  <2>2. \A t \in Held : holder[t] # Nil => {t, holder[t]} \subseteq alive \ Going(stack)
    BY LinksAreLiving DEF IInv
  <2>3. \A t \in Held : holder'[t] # Nil => holder'[t] = holder[t] /\ Top.obj \notin {t, holder[t]}
    BY <1>3 DEF Alone
  <2>4. \A t \in Held : holder'[t] # Nil => {t, holder'[t]} \subseteq alive' \ Going(stack')
    BY <2>1, <2>2, <2>3
  <2> QED
    BY <2>4, LinksAreLiving
<1> QED
  BY <1>4, <1>5, <1>6, <1>7, <1>8 DEF IInv

LEMMA CreateFailsKeeps ==
  ASSUME IInv, CreateFails
  PROVE  IInv'
BY Proceeds DEF CreateFails

LEMMA ShutdownReturnsKeeps ==
  ASSUME IInv, ShutdownReturns
  PROVE  IInv'
BY Proceeds DEF ShutdownReturns

LEMMA CreateSucceedsKeeps ==
  ASSUME IInv, CreateSucceeds
  PROVE  IInv'
<1>1. /\ stack # <<>> /\ Top.at = "constructor" /\ stack' = Front(stack)
      /\ started' = started \cup AndBelow(Top.obj)
      /\ UNCHANGED <<alive, links, holder, name>>
      /\ before' \in {before, NoTree}
  BY DEF CreateSucceeds, Return
<1>2. /\ stack \in Seq(Frame) /\ Len(stack) \in Nat /\ DOMAIN stack = 1..Len(stack) /\ Top = stack[Len(stack)]
      /\ stack' \in Seq(Frame) /\ \A i \in 1..(Len(stack) - 1) : stack'[i] = stack[i]
      /\ stack' = <<>> <=> Len(stack) = 1
  BY <1>1, TopFrame, Popped DEF IInv, Frames, Top
<1>3. Types'
  BY <1>1, TreeTyped DEF IInv, Types
<1>4. Frames' /\ Pointers' /\ PathsUnique'
  BY <1>1, <1>2, TreeUnchanged DEF Frames
<1>5. Nested(stack, links, alive)'
  <2>1. Nested(Front(stack), links, alive)
    BY <1>1, <1>2, NestedPopped DEF IInv
  <2> QED
    BY <1>1, <2>1
<1>6. Starting'
  <2>1. started' \subseteq alive
    BY <1>1, FirstAbove, BelowLiving DEF IInv, Starting
  <2>2. \A d \in alive \ started' : stack[1].obj \in AndAbove(links, d)
    BY <1>1 DEF IInv, Starting
  <2>3. CASE Len(stack) = 1
    <3>1. \A d \in alive \ started' : d \in AndBelow(Top.obj)
      BY <1>2, <2>2, <2>3 DEF AndBelow, IInv, Types
    <3> QED
      BY <1>1, <2>1, <3>1 DEF Starting
  <2>4. CASE Len(stack) # 1
    <3>1. stack' # <<>> /\ stack'[1] = stack[1]
      BY <1>1, <1>2, <2>4
    <3> QED
      BY <1>1, <2>1, <2>2, <3>1 DEF Starting
  <2> QED
    BY <2>3, <2>4
<1>7. LinksOfTheLiving'
  <2>1. Going(stack') \subseteq Going(stack)
    BY <1>1, <1>2, GoingPopped
  <2>2. \A t \in Held : holder[t] # Nil => {t, holder[t]} \subseteq alive \ Going(stack)
    BY LinksAreLiving DEF IInv
  <2>3. \A t \in Held : holder'[t] # Nil => {t, holder'[t]} \subseteq alive' \ Going(stack')
    BY <1>1, <2>1, <2>2
  <2> QED
    BY <2>3, LinksAreLiving
<1> QED
  BY <1>3, <1>4, <1>5, <1>6, <1>7 DEF IInv

(* Objects are linked while none of them is cleaned up.                    *)
LEMMA HoldKeeps ==
  ASSUME IInv, NEW u \in Holders, NEW t \in Held, Hold(u, t)
  PROVE  IInv'
<1>1. /\ MayLink(u, t) /\ holder' = [holder EXCEPT ![t] = u]
      /\ UNCHANGED <<alive, links, name, started, stack, before>>
  BY DEF Hold
<1>2. Types'
  BY <1>1 DEF IInv, Types
<1>3. Frames' /\ Pointers' /\ PathsUnique' /\ Nested(stack, links, alive)' /\ Starting'
  BY <1>1, TreeUnchanged DEF IInv, Frames, Starting, Nested
<1>4. LinksOfTheLiving'
  <2>1. \A d \in Held : holder[d] # Nil => {d, holder[d]} \subseteq alive \ Going(stack)
    BY LinksAreLiving DEF IInv
  <2>2. {u, t} \subseteq alive /\ Going(stack) = {}
    <3>1. CASE stack = <<>>
      BY <1>1, <3>1 DEF MayLink, Going
    <3>2. CASE stack # <<>>
      BY <1>1, <3>2, NoneGoing DEF MayLink, Top, IInv, Frames
    <3> QED
      BY <3>1, <3>2
  <2>3. \A d \in Held : holder'[d] # Nil => {d, holder'[d]} \subseteq alive' \ Going(stack')
    BY <1>1, <2>1, <2>2 DEF IInv, Types
  <2> QED
    BY <2>3, LinksAreLiving
<1> QED
  BY <1>2, <1>3, <1>4 DEF IInv

LEMMA LetGoKeeps ==
  ASSUME IInv, NEW u \in Holders, NEW t \in Held, LetGo(u, t)
  PROVE  IInv'
<1>1. holder' = [holder EXCEPT ![t] = Nil] /\ UNCHANGED <<alive, links, name, started, stack, before>>
  BY DEF LetGo
<1>2. Types'
  BY <1>1 DEF IInv, Types
<1>3. Frames' /\ Pointers' /\ PathsUnique' /\ Nested(stack, links, alive)' /\ Starting'
  BY <1>1, TreeUnchanged DEF IInv, Frames, Starting, Nested
<1>4. LinksOfTheLiving'
  <2>1. \A d \in Held : holder[d] # Nil => {d, holder[d]} \subseteq alive \ Going(stack)
    BY LinksAreLiving DEF IInv
  <2>2. \A d \in Held : holder'[d] # Nil => {d, holder'[d]} \subseteq alive' \ Going(stack')
    BY <1>1, <2>1 DEF IInv, Types
  <2> QED
    BY <2>2, LinksAreLiving
<1> QED
  BY <1>2, <1>3, <1>4 DEF IInv

(* A call is as far below if the objects above its object stay the same.   *)
LEMMA NestedSame ==
  ASSUME NEW s, NEW l, NEW S, Nested(s, l, S), NEW m, NEW T,
         \A j \in DOMAIN s : s[j].obj \in T /\ AndAbove(m, s[j].obj) = AndAbove(l, s[j].obj)
  PROVE  Nested(s, m, T)
BY DEF Nested

(* The tree with a new object.                                             *)
LEMMA CreatedTree ==
  ASSUME IInv, NEW c \in Children \ alive, NEW p \in Parents, NEW n \in Names,
         NEW place \in Place(Children), Create(p, c, n, place)
  PROVE  /\ p \in alive \cup {Root} /\ ~NameTaken(p, n)
         /\ links'.pparent = [links.pparent EXCEPT ![c] = p]
         /\ Pointers' /\ links' \in Tables
         /\ \A d \in alive : AndAbove(links', d) = AndAbove(links, d)
         /\ AndAbove(links', c) = {c} \cup AndAbove(links, p)
<1>1. /\ MayCreate(p) /\ CreateResult(p, c, n, place) = "OK" /\ alive' = alive \cup {c}
      /\ links' = LinkOutcome(links, p, c, place, NameTaken(p, n))
  BY DEF Create
<1>2. p \in alive \cup {Root}
  <2>1. CASE stack = <<>>
    BY <1>1, <2>1 DEF MayCreate
  <2>2. CASE stack # <<>>
    BY <1>1, <2>2, FirstAbove DEF MayCreate
  <2> QED
    BY <2>1, <2>2
<1>3. /\ links \in Tables /\ Rooted(links) /\ Living(links, alive) /\ Sound(links, Parents, Children)
      /\ Nil \notin Parents \cup Children /\ links.pparent \in [Children -> Parents \cup {Nil}]
      /\ alive \in SUBSET Children /\ alive \subseteq Parents
  BY PointersSound, ObjectsFinite DEF IInv, Types
<1>4. links.pparent[c] = Nil /\ p # Nil
  BY <1>3 DEF Living
<1>5. LinkResult(links, p, c, place, NameTaken(p, n)) = "OK" /\ ~NameTaken(p, n)
  <2>1. LinkResult(links, p, c, place, NameTaken(p, n)) = "OK"
    BY <1>1 DEF CreateResult
  <2> QED
    BY <1>4, <2>1 DEF LinkResult
<1>6. Sound(links', Parents, Children) /\ links' \in Tables
  <2>2. IsKnown(place) => place \in Known(Children)
    BY DEF Place, IsKnown
  <2>1. Sound(links', Parents, Children)
    BY <1>1, <1>3, <2>2, LinkSound
  <2> QED
    BY <2>1 DEF Sound, Tables
<1>7. links'.pparent = [links.pparent EXCEPT ![c] = p]
  BY <1>1, <1>3, <1>4, <1>5, LinkedParents
<1>8. ASSUME NEW d \in alive \cup {Root}
      PROVE  c \notin AndAbove(links, d)
  <2>1. c # Root
    BY ObjectsFinite
  <2> QED
    BY <1>3, <2>1, AboveLiving
<1>9. Rooted(links')
  BY <1>2, <1>3, <1>6, <1>7, <1>8, LinkedRooted
<1>10. /\ \A d \in alive : AndAbove(links', d) = AndAbove(links, d)
       /\ AndAbove(links', c) = {c} \cup AndAbove(links, p)
  BY <1>2, <1>3, <1>6, <1>7, <1>8, LinkedAbove
<1>11. Living(links', alive')
  BY <1>1, <1>2, <1>3, <1>7 DEF Living
<1> QED
  BY <1>2, <1>5, <1>6, <1>7, <1>9, <1>10, <1>11 DEF Pointers, Living, Rooted, Deepens

LEMMA CreateKeeps ==
  ASSUME IInv, NEW c \in Children \ alive, NEW p \in Parents, NEW n \in Names,
         NEW place \in Place(Children), Create(p, c, n, place)
  PROVE  IInv'
<1> DEFINE k == Len(stack)
           base == IF stack = <<>> THEN stack ELSE [stack EXCEPT ![k].made = @ + 1]
<1>1. /\ MayCreate(p) /\ alive' = alive \cup {c} /\ name' = [name EXCEPT ![c] = n]
      /\ UNCHANGED <<holder, started>>
      /\ stack' = Calling(base, c, "constructor") /\ before' \in {before, Tree}
  BY DEF Create, Call
<1>2. /\ p \in alive \cup {Root} /\ ~NameTaken(p, n)
      /\ links'.pparent = [links.pparent EXCEPT ![c] = p]
      /\ Pointers' /\ links' \in Tables
      /\ \A d \in alive : AndAbove(links', d) = AndAbove(links, d)
      /\ AndAbove(links', c) = {c} \cup AndAbove(links, p)
  BY CreatedTree
<1>3. alive \in SUBSET Children /\ stack \in Seq(Frame) /\ Nested(stack, links, alive)
  BY DEF IInv, Types, Frames
<1>4. stack # <<>> => /\ k \in Nat /\ k \in DOMAIN stack /\ DOMAIN stack = 1..k /\ 1 \in DOMAIN stack
                      /\ Top = stack[k] /\ Top \in Frame /\ Top.obj \in alive
                      /\ Top.at = "constructor" /\ p = Top.obj /\ Top.made < MaxMade
  BY <1>1, <1>3, TopFrame, FirstAbove DEF Top, MayCreate
<1>5. stack # <<>> =>
        /\ base \in Seq(Frame) /\ base # <<>> /\ DOMAIN base = DOMAIN stack
        /\ \A i \in DOMAIN stack : base[i].obj = stack[i].obj /\ base[i].at = stack[i].at
        /\ Last(base).obj = p /\ Last(base).at = "constructor"
  <2> SUFFICES ASSUME stack # <<>>
               PROVE  /\ base \in Seq(Frame) /\ base # <<>> /\ DOMAIN base = DOMAIN stack
                      /\ \A i \in DOMAIN stack : base[i].obj = stack[i].obj /\ base[i].at = stack[i].at
                      /\ Last(base).obj = p /\ Last(base).at = "constructor"
    OBVIOUS
  <2> DEFINE e == [stack[k] EXCEPT !.made = @ + 1]
  <2>1. stack[k].made + 1 \in 0..MaxMade
    BY <1>4, ObjectTreeAssumption DEF Frame
  <2>2. e \in Frame /\ e.obj = stack[k].obj /\ e.at = stack[k].at
    BY <1>4, <2>1 DEF Frame
  <2>3. base = [stack EXCEPT ![k] = e]
    OBVIOUS
  <2> HIDE DEF e, base, k
  <2>4. base \in Seq(Frame) /\ base # <<>> /\ DOMAIN base = DOMAIN stack /\ Len(base) = k
    BY <1>3, <1>4, <2>2, <2>3
  <2>5. base[k] = e /\ \A i \in DOMAIN stack : i # k => base[i] = stack[i]
    BY <1>3, <1>4, <2>3
  <2>6. Last(base) = e
    BY <2>4, <2>5 DEF Last
  <2> QED
    BY <1>4, <2>2, <2>4, <2>5, <2>6
<1> HIDE DEF base
<1>6. base \in Seq(Frame) /\ (stack = <<>> => base = <<>>) /\ (stack # <<>> => base # <<>>)
  BY <1>3, <1>5 DEF base
<1>7. Types'
  BY <1>1, <1>3, TreeTyped DEF IInv, Types
<1>8. Frames'
  <2>1. [obj |-> c, at |-> "constructor", made |-> 0] \in Frame
    BY ObjectTreeAssumption DEF Frame
  <2> QED
    BY <1>1, <1>6, <2>1 DEF Frames, Calling
<1>9. Nested(stack', links', alive')
  <2>1. Nested(base, links', alive')
    <3>1. CASE stack = <<>>
      BY <1>6, <3>1 DEF Nested
    <3>2. CASE stack # <<>>
      <4>1. Nested(base, links, alive)
        BY <1>3, <1>4, <1>5, <3>2, NestedChanged DEF Top
      <4>2. \A j \in DOMAIN base : base[j].obj \in alive
        BY <4>1 DEF Nested
      <4> QED
        BY <1>1, <1>2, <4>1, <4>2, NestedSame
    <3> QED
      BY <3>1, <3>2
  <2>2. base # <<>> => Last(base).obj \in AndAbove(links', c) /\ Last(base).obj # c
    <3> SUFFICES ASSUME base # <<>>
                 PROVE  p \in AndAbove(links', c) /\ p # c
      BY <1>5, <1>6
    <3>1. links \in Tables /\ Rooted(links)
      BY PointersSound DEF IInv
    <3>2. p \in AndAbove(links, p)
      BY <3>1, AboveIs
    <3> QED
      BY <1>2, <1>4, <1>6, <3>2
  <2>3. Rooted(links')
    BY <1>2 DEF Pointers, Rooted, Deepens
  <2>4. alive' \in SUBSET Children /\ c \in alive'
    BY <1>1, <1>3
  <2>5. base = <<>> \/ Last(base).at = "constructor"
    BY <1>5, <1>6
  <2>6. Nested(Calling(base, c, "constructor"), links', alive')
    BY <1>2, <1>6, <2>1, <2>2, <2>3, <2>4, <2>5, NestedPushed
  <2> QED
    BY <1>1, <2>6
<1>10. Starting'
  <2>1. /\ stack' # <<>>
        /\ stack = <<>> => stack'[1].obj = c
        /\ stack # <<>> => stack'[1].obj = stack[1].obj
    BY <1>1, <1>4, <1>5, <1>6 DEF Calling
  <2>2. started \subseteq alive'
    BY <1>1 DEF IInv, Starting
  <2>3. ASSUME NEW d \in alive \ started
        PROVE  stack'[1].obj \in AndAbove(links', d)
    BY <1>2, <2>1, <2>3 DEF IInv, Starting
  <2>4. stack'[1].obj \in AndAbove(links', c)
    BY <1>2, <1>4, <2>1, FirstAbove
  <2> QED
    BY <1>1, <2>1, <2>2, <2>3, <2>4 DEF Starting
<1>11. LinksOfTheLiving'
  <2>1. stack' \in Seq(Frame) /\ stack' # <<>> /\ Last(stack').at = "constructor"
    BY <1>1, <1>6, <1>8 DEF Frames, Calling, Last
  <2>2. Going(stack') = {}
    BY <1>9, <2>1, NoneGoing
  <2>3. \A t \in Held : holder[t] # Nil => {t, holder[t]} \subseteq alive \ Going(stack)
    BY LinksAreLiving DEF IInv
  <2>4. \A t \in Held : holder'[t] # Nil => {t, holder'[t]} \subseteq alive' \ Going(stack')
    BY <1>1, <2>2, <2>3
  <2> QED
    BY <2>4, LinksAreLiving
<1>12. PathsUnique'
  <2>1. links.pparent \in [Children -> Parents \cup {Nil}] /\ name \in [Children -> Names \cup {Nil}]
    BY PointersSound DEF IInv, Types
  <2>2. \A d \in Children : links.pparent[d] = p => name[d] # n
    <3>1. ToSet(ChildrenOf(links, p)) = {d \in Children : links.pparent[d] = p}
      BY ObjectsFinite, PointersSound, ChildrenListed DEF IInv
    <3> QED
      BY <1>2, <3>1 DEF NameTaken
  <2>3. \A o, d \in alive : (o # d /\ links.pparent[o] = links.pparent[d]) => name[o] # name[d]
    BY DEF IInv, PathsUnique
  <2>4. \A d \in alive : d # c
    OBVIOUS
  <2>5. ASSUME NEW o \in alive', NEW d \in alive', o # d, links'.pparent[o] = links'.pparent[d]
        PROVE  name'[o] # name'[d]
    BY <1>1, <1>2, <1>3, <2>1, <2>2, <2>3, <2>4, <2>5
  <2> QED
    BY <2>5 DEF PathsUnique
<1> QED
  BY <1>2, <1>7, <1>8, <1>9, <1>10, <1>11, <1>12 DEF IInv

(* The tree without the object that is freed, which has no children.       *)
LEMMA FreedTree ==
  ASSUME IInv, Free
  PROVE  /\ Top.obj \in alive /\ Top.obj \in Children
         /\ links'.pparent = [links.pparent EXCEPT ![Top.obj] = Nil]
         /\ Pointers' /\ links' \in Tables
         /\ \A d \in Parents : d # Top.obj =>
              Top.obj \notin AndAbove(links, d) /\ AndAbove(links', d) = AndAbove(links, d)
<1> DEFINE o == Top.obj
<1>1. /\ stack # <<>> /\ Top.at = "cleanup" /\ links.pfirst[o] = Nil
      /\ alive' = alive \ {o} /\ links' = Unlinked(links, links.pparent[o], o)
  BY DEF Free
<1>2. /\ o \in alive /\ o \in Children /\ o \in Parents /\ alive \in SUBSET Children
      /\ links \in Tables /\ Rooted(links) /\ Living(links, alive) /\ Sound(links, Parents, Children)
      /\ Nil \notin Parents \cup Children /\ links.pparent \in [Children -> Parents \cup {Nil}]
  BY <1>1, FirstAbove, PointersSound, ObjectsFinite DEF IInv, Types
<1>3. links.pparent[o] \in Parents
  BY <1>2, ObjectsFinite DEF Living
<1>4. \A d \in Children : links.pparent[d] # o
  BY <1>1, <1>2, NoChildren
<1>5. Sound(links', Parents, Children) /\ links'.pparent = [links.pparent EXCEPT ![o] = Nil]
  BY <1>1, <1>2, <1>3, UnlinkedSound
<1>6. links' \in Tables
  BY <1>5 DEF Sound, Tables
<1> HIDE DEF o
<1>7. ASSUME NEW d \in Parents, d # o
      PROVE  o \notin AndAbove(links, d)
  <2>1. Closed(links, Parents \ {o})
    BY <1>2, <1>4 DEF Closed
  <2>2. AndAbove(links, d) \subseteq Parents \ {o}
    BY <1>2, <1>7, <2>1, AboveIs
  <2> QED
    BY <2>2
<1>8. Rooted(links') /\ \A d \in Parents : d # o => AndAbove(links', d) = AndAbove(links, d)
  BY <1>2, <1>5, <1>6, <1>7, UnlinkedRooted
<1>9. Living(links', alive')
  BY <1>1, <1>2, <1>4, <1>5 DEF o, Living
<1>10. Pointers'
  BY <1>5, <1>8, <1>9 DEF Pointers, Rooted, Deepens, Living
<1> QED
  BY <1>2, <1>5, <1>6, <1>7, <1>8, <1>10 DEF o

(* An object without children, and its memory, goes.                       *)
LEMMA FreeKeeps ==
  ASSUME IInv, Free
  PROVE  IInv'
<1> DEFINE o == Top.obj
           k == Len(stack)
<1>1. /\ stack # <<>> /\ Top.at = "cleanup" /\ links.pfirst[o] = Nil
      /\ alive' = alive \ {o} /\ links' = Unlinked(links, links.pparent[o], o)
      /\ name' = [name EXCEPT ![o] = Nil] /\ started' = started \ {o}
      /\ stack' = Front(stack) /\ before' \in {before, NoTree} /\ UNCHANGED holder
  BY DEF Free, Return
<1>2. /\ stack \in Seq(Frame) /\ k \in Nat /\ k \in DOMAIN stack /\ DOMAIN stack = 1..k /\ Top = stack[k]
      /\ stack' \in Seq(Frame) /\ DOMAIN stack' = 1..(k - 1)
      /\ \A i \in 1..(k - 1) : stack'[i] = stack[i]
      /\ stack' = <<>> <=> k = 1
      /\ Nested(stack, links, alive)
  BY <1>1, TopFrame, Popped DEF IInv, Frames, Top
<1>3. /\ o \in alive /\ o \in Children /\ o \in Parents /\ alive \in SUBSET Children /\ alive \subseteq Parents
      /\ links \in Tables /\ Rooted(links) /\ Living(links, alive) /\ Sound(links, Parents, Children)
      /\ Nil \notin Parents \cup Children /\ links.pparent \in [Children -> Parents \cup {Nil}]
  BY <1>1, FirstAbove, PointersSound, ObjectsFinite DEF IInv, Types
<1>4. /\ links'.pparent = [links.pparent EXCEPT ![o] = Nil]
      /\ Pointers' /\ links' \in Tables
      /\ \A d \in Parents : d # o => o \notin AndAbove(links, d) /\ AndAbove(links', d) = AndAbove(links, d)
  BY FreedTree
<1> HIDE DEF o, k
<1>5. Types' /\ Frames'
  BY <1>1, <1>2, <1>3, TreeTyped DEF IInv, Types, Frames
<1>6. \A i \in 1..(k - 1) : stack[i].obj \in alive /\ stack[i].obj # o
  <2>1. \A i \in 1..(k - 1) : i \in DOMAIN stack /\ i < k
    BY <1>2
  <2> QED
    BY <1>2, <2>1 DEF o, Nested
<1>7. Nested(stack', links', alive')
  <2>1. Nested(stack', links, alive)
    BY <1>1, <1>2, NestedPopped
  <2>2. \A j \in DOMAIN stack' : stack'[j].obj \in alive' /\ AndAbove(links', stack'[j].obj) = AndAbove(links, stack'[j].obj)
    BY <1>1, <1>2, <1>3, <1>4, <1>6 DEF o
  <2> QED
    BY <2>1, <2>2, NestedSame
<1>8. Starting'
  <2>1. started' \subseteq alive'
    BY <1>1 DEF IInv, Starting, o
  <2>2. ASSUME NEW d \in alive' \ started'
        PROVE  stack' # <<>> /\ stack'[1].obj \in AndAbove(links', d)
    <3>1. d \in alive \ started /\ d # o /\ d \in Parents
      BY <1>1, <1>3 DEF o
    <3>2. stack[1].obj \in AndAbove(links, d)
      BY <3>1 DEF IInv, Starting
    <3>3. k # 1
      BY <1>2, <1>4, <3>1, <3>2 DEF o
    <3>4. stack' # <<>> /\ stack'[1] = stack[1]
      BY <1>2, <3>3
    <3> QED
      BY <1>4, <3>1, <3>2, <3>4
  <2> QED
    BY <2>1, <2>2 DEF Starting
<1>9. LinksOfTheLiving'
  <2>1. Going(stack') \subseteq Going(stack)
    BY <1>1, <1>2, GoingPopped
  <2>2. o \in Going(stack)
    BY <1>1, <1>2 DEF o, Going
  <2>3. \A t \in Held : holder[t] # Nil => {t, holder[t]} \subseteq alive \ Going(stack)
    BY LinksAreLiving DEF IInv
  <2>4. \A t \in Held : holder'[t] # Nil => {t, holder'[t]} \subseteq alive' \ Going(stack')
    BY <1>1, <2>1, <2>2, <2>3 DEF o
  <2> QED
    BY <2>4, LinksAreLiving
<1>10. PathsUnique'
  <2>1. \A e, d \in alive : (e # d /\ links.pparent[e] = links.pparent[d]) => name[e] # name[d]
    BY DEF IInv, PathsUnique
  <2>2. \A d \in alive' : d \in alive /\ links'.pparent[d] = links.pparent[d] /\ name'[d] = name[d]
    BY <1>1, <1>3, <1>4 DEF o, IInv, Types
  <2> QED
    BY <2>1, <2>2 DEF PathsUnique
<1> QED
  BY <1>4, <1>5, <1>7, <1>8, <1>9, <1>10 DEF IInv

(* The tree with an object that has moved.                                 *)
LEMMA RenamedTree ==
  ASSUME IInv, NEW o \in alive, NEW p \in Parents, NEW n \in Names, NEW place \in Place(Children),
         Rename(o, p, n, place), ~Refused(o, p, n, place)
  PROVE  /\ Pointers'
         /\ links'.pparent = [links.pparent EXCEPT ![o] = p]
<1>1. /\ p \in alive \cup {Root} /\ RenameResult(o, p, n, place) = "OK" /\ alive' = alive
      /\ links' = IF p = links.pparent[o] THEN links
                  ELSE LinkOutcome(Moved(o), p, o, place, TakenThen(o, p, n))
  BY DEF Rename
<1>2. /\ o \in Children /\ alive \in SUBSET Children /\ p \in Parents
      /\ links \in Tables /\ Rooted(links) /\ Living(links, alive) /\ Sound(links, Parents, Children)
      /\ Nil \notin Parents \cup Children /\ links.pparent \in [Children -> Parents \cup {Nil}]
  BY PointersSound DEF IInv, Types
<1>3. CASE p = links.pparent[o]
  <2>1. links' = links
    BY <1>1, <1>3
  <2>2. links.pparent = [links.pparent EXCEPT ![o] = p]
    BY <1>2, <1>3
  <2>3. Rooted(links') /\ Living(links', alive') /\ Sound(links', Parents, Children)
    BY <1>1, <1>2, <2>1
  <2> QED
    BY <2>1, <2>2, <2>3 DEF Pointers, Rooted, Deepens, Living
<1>4. CASE p # links.pparent[o]
  <2> DEFINE m == Moved(o)
             taken == TakenThen(o, p, n)
  <2>1. /\ Sound(m, Parents, Children) /\ m \in Tables
        /\ m.pparent = [links.pparent EXCEPT ![o] = Nil]
    BY MovedSound DEF IInv
  <2>2. LinkResult(m, p, o, place, taken) = "OK"
    BY <1>4 DEF Refused
  <2>9. IsKnown(place) => place \in Known(Children)
    BY DEF Place, IsKnown
  <2>3. links' = LinkOutcome(m, p, o, place, taken)
    BY <1>1, <1>4
  <2> HIDE DEF m, taken
  <2>4. Sound(links', Parents, Children) /\ links' \in Tables
    <3>1. Sound(links', Parents, Children)
      BY <1>2, <2>1, <2>3, <2>9, LinkSound
    <3> QED
      BY <3>1 DEF Sound, Tables
  <2>5. links'.pparent = [links.pparent EXCEPT ![o] = p]
    <3>1. m.pparent[o] = Nil
      BY <1>2, <2>1
    <3>2. links'.pparent = [m.pparent EXCEPT ![o] = p]
      BY <1>2, <2>1, <2>2, <2>3, <3>1, LinkedParents
    <3> QED
      BY <1>2, <2>1, <3>2
  <2>6. o \notin AndAbove(links, p)
    BY <1>1, <1>4 DEF RenameResult, RenameChecks
  <2>7. Rooted(links')
    BY <1>2, <2>4, <2>5, <2>6, LinkedRooted
  <2>8. Living(links', alive')
    BY <1>1, <1>2, <2>5 DEF Living
  <2> QED
    BY <2>4, <2>5, <2>7, <2>8 DEF Pointers, Rooted, Deepens, Living
<1> QED
  BY <1>3, <1>4

LEMMA RenameKeeps ==
  ASSUME IInv, NEW o \in alive, NEW p \in Parents, NEW n \in Names, NEW place \in Place(Children),
         Rename(o, p, n, place), ~Refused(o, p, n, place)
  PROVE  IInv'
<1>1. /\ stack = <<>> /\ p \in alive \cup {Root} /\ RenameResult(o, p, n, place) = "OK"
      /\ name' = [name EXCEPT ![o] = n] /\ UNCHANGED <<alive, holder, started, stack, before>>
  BY DEF Rename
<1>2. Pointers' /\ links'.pparent = [links.pparent EXCEPT ![o] = p]
  BY RenamedTree
<1>3. Types' /\ Frames'
  BY <1>1 DEF IInv, Types, Frames
<1>4. Nested(stack, links, alive)' /\ Starting'
  BY <1>1 DEF IInv, Nested, Starting
<1>5. LinksOfTheLiving'
  <2>1. \A d \in Held : holder[d] # Nil => {d, holder[d]} \subseteq alive \ Going(stack)
    BY LinksAreLiving DEF IInv
  <2>2. \A d \in Held : holder'[d] # Nil => {d, holder'[d]} \subseteq alive' \ Going(stack')
    BY <1>1, <2>1
  <2> QED
    BY <2>2, LinksAreLiving
<1>6. PathsUnique'
  <2>1. links.pparent \in [Children -> Parents \cup {Nil}] /\ name \in [Children -> Names \cup {Nil}]
        /\ alive \subseteq Children
    BY PointersSound DEF IInv, Types
  <2>2. \A d \in Children : links.pparent[d] = p => name[d] # n
    <3>1. ToSet(ChildrenOf(links, p)) = {d \in Children : links.pparent[d] = p}
      BY ObjectsFinite, PointersSound, ChildrenListed DEF IInv
    <3>2. ~NameTaken(p, n)
      BY <1>1 DEF RenameResult, RenameChecks
    <3> QED
      BY <3>1, <3>2 DEF NameTaken
  <2>3. \A e, d \in alive : (e # d /\ links.pparent[e] = links.pparent[d]) => name[e] # name[d]
    BY DEF IInv, PathsUnique
  <2>4. ASSUME NEW e \in alive', NEW d \in alive', e # d, links'.pparent[e] = links'.pparent[d]
        PROVE  name'[e] # name'[d]
    BY <1>1, <1>2, <2>1, <2>2, <2>3, <2>4
  <2> QED
    BY <2>4 DEF PathsUnique
<1> QED
  BY <1>2, <1>3, <1>4, <1>5, <1>6 DEF IInv

----------------------------------------------------------------------------
(* When the link of a moved object is refused, that object is lost with    *)
(* what is below, and nothing else is.                                     *)
LEMMA RefusedTree ==
  ASSUME IInv, NEW o \in alive, NEW p \in Parents, NEW n \in Names, NEW place \in Place(Children),
         Rename(o, p, n, place), Refused(o, p, n, place)
  PROVE  /\ links' = Moved(o)
         /\ TreeOfTheLiving'
<1> DEFINE m == Moved(o)
           S == alive \cup {Root}
<1>1. /\ o \in Children /\ alive \in SUBSET Children /\ Parents = Children \cup {Root}
      /\ links \in Tables /\ Rooted(links) /\ Living(links, alive)
      /\ Nil \notin Parents /\ links.pparent \in [Children -> Parents \cup {Nil}]
  BY PointersSound, ObjectTreeAssumption DEF IInv, Types
<1>2. /\ Sound(m, Parents, Children) /\ m \in Tables
      /\ m.pparent = [links.pparent EXCEPT ![o] = Nil]
  BY MovedSound DEF IInv
<1> HIDE DEF m
<1>3. links' = m /\ lost' = o /\ alive' = alive
  BY DEF Rename, Refused, LinkOutcome, m
<1>4. Rooted(m) /\ \A d \in Parents : o \notin AndAbove(links, d) => AndAbove(m, d) = AndAbove(links, d)
  BY <1>1, <1>2, UnlinkedRooted
<1>5. ASSUME NEW d \in alive
      PROVE  {Root, o} \cap AndAbove(m, d) # {} /\ AndAbove(m, d) \subseteq S
  <2>1. Closed(m, S)
    BY <1>1, <1>2 DEF Closed, Living
  <2>2. AndAbove(m, d) \subseteq S
    BY <1>1, <1>2, <1>4, <2>1, AboveIs
  <2>3. o \notin AndAbove(m, d) => AndAbove(links, d) = AndAbove(m, d)
    BY <1>1, <1>2, <1>4, AboveSame
  <2>4. Root \in AndAbove(links, d)
    BY <1>1, AboveLiving
  <2> QED
    BY <2>2, <2>3, <2>4
<1>6. ASSUME NEW d \in Children \ alive
      PROVE  m.pparent[d] = Nil /\ m.pfirst[d] = Nil
  <2>1. m.pparent[d] = Nil
    BY <1>1, <1>2 DEF Living
  <2>2. d \in Parents /\ m.pfirst[d] \in Children \cup {Nil} /\ d # Root
    BY <1>1, <1>2, ObjectTreeAssumption DEF Tables, LinkTables
  <2>3. m.pfirst[d] # Nil => m.pparent[m.pfirst[d]] = d
    BY <1>2, <2>2 DEF Sound, HeadsAgree, LinkTables
  <2>4. \A e \in Children : m.pparent[e] # d
    BY <1>1, <1>2, <2>2 DEF Living
  <2> QED
    BY <2>1, <2>2, <2>3, <2>4
<1>7. m.pparent[o] = Nil
  BY <1>1, <1>2
<1>8. AnchorsAgree(links') /\ HeadsAgree(links')
  BY <1>2, <1>3 DEF Sound
<1>9. ASSUME NEW d \in Children
      PROVE  IF d \in alive' THEN /\ {Root, lost'} \cap AndAbove(links', d) # {}
                                  /\ AndAbove(links', d) \subseteq alive' \cup {Root}
                             ELSE links'.pparent[d] = Nil /\ links'.pfirst[d] = Nil
  BY <1>3, <1>5, <1>6, <1>9
<1>10. TreeOfTheLiving'
  BY <1>3, <1>7, <1>8, <1>9 DEF TreeOfTheLiving
<1> QED
  BY <1>3, <1>10 DEF m

LEMMA RefusedKeeps ==
  ASSUME IInv, NEW o \in alive, NEW p \in Parents, NEW n \in Names, NEW place \in Place(Children),
         Rename(o, p, n, place), Refused(o, p, n, place)
  PROVE  TreeSound' /\ ~Running'
<1>1. /\ stack = <<>> /\ lost' = o /\ before' = Tree
      /\ p \in alive \cup {Root} /\ RenameResult(o, p, n, place) = "OK"
      /\ name' = [name EXCEPT ![o] = n] /\ UNCHANGED <<alive, holder, started, stack>>
  BY DEF Rename
<1>2. links' = Moved(o) /\ TreeOfTheLiving'
  BY RefusedTree
<1>3. /\ Moved(o) \in Tables /\ Moved(o).pparent = [links.pparent EXCEPT ![o] = Nil]
  BY MovedSound DEF IInv
<1>4. /\ o \in Children /\ o # Nil /\ alive \in SUBSET Children /\ name \in [Children -> Names \cup {Nil}]
      /\ links.pparent \in [Children -> Parents \cup {Nil}] /\ Nil \notin Parents /\ Living(links, alive)
      /\ holder \in [Held -> Holders \cup {Nil}]
  BY PointersSound, ObjectsFinite DEF IInv, Types
<1>5. TypeOK'
  <2>1. Tree \in [parent : [Children -> Parents \cup {Nil}], name : [Children -> Names \cup {Nil}],
                  holder : [Held -> Holders \cup {Nil}]]
    BY <1>4 DEF Tree
  <2>2. started \in SUBSET Children /\ stack \in Seq(Frame) /\ Len(stack) <= Cardinality(Children)
    BY CallsFew DEF IInv, Types, Starting, Frames
  <2>3. name' \in [Children -> Names \cup {Nil}]
    BY <1>1, <1>4
  <2> QED
    BY <1>1, <1>2, <1>3, <1>4, <2>1, <2>2, <2>3 DEF TypeOK, Tables
<1>6. LinksOfTheLiving'
  <2>1. \A d \in Held : holder[d] # Nil => {d, holder[d]} \subseteq alive \ Going(stack)
    BY LinksAreLiving DEF IInv
  <2>2. \A d \in Held : holder'[d] # Nil => {d, holder'[d]} \subseteq alive' \ Going(stack')
    BY <1>1, <2>1
  <2> QED
    BY <2>2, LinksAreLiving
<1>7. PathsUnique'
  <2>1. \A d \in alive : links.pparent[d] # Nil
    BY <1>4, ObjectsFinite DEF Living
  <2>2. ASSUME NEW e \in alive', NEW d \in alive', e # d, links'.pparent[e] = links'.pparent[d]
        PROVE  name'[e] # name'[d]
    <3>1. e # o /\ d # o
      BY <1>1, <1>2, <1>3, <1>4, <2>1, <2>2
    <3> QED
      BY <1>1, <1>2, <1>3, <1>4, <2>2, <3>1 DEF IInv, PathsUnique
  <2> QED
    BY <2>2 DEF PathsUnique
<1>8. AllStarted'
  BY <1>1 DEF IInv, Starting, AllStarted
<1>9. ~Running'
  BY <1>1, <1>4 DEF Running
<1>10. AbortsOnUnknownHint'
  BY <1>9 DEF AbortsOnUnknownHint
<1> QED
  BY <1>2, <1>5, <1>6, <1>7, <1>8, <1>9, <1>10 DEF TreeSound

----------------------------------------------------------------------------
LEMMA CallsKeep ==
  ASSUME IInv, Calls
  PROVE  IInv'
<1>1. CASE Progress
  BY <1>1, CreateFailsKeeps, CreateSucceedsKeeps, ShutdownReturnsKeeps, CleanChildKeeps, FreeKeeps DEF Progress
<1>2. ASSUME NEW o \in Children, Delete(o)
      PROVE  IInv'
  BY <1>2, DeleteKeeps
<1>3. ASSUME NEW u \in Holders, NEW t \in Held, Hold(u, t) \/ LetGo(u, t)
      PROVE  IInv'
  BY <1>3, HoldKeeps, LetGoKeeps
<1>4. ASSUME NEW c \in Children \ alive, NEW p \in Parents, NEW n \in Names, NEW place \in Place(Children),
             Create(p, c, n, place)
      PROVE  IInv'
  BY <1>4, CreateKeeps
<1> QED
  BY <1>1, <1>2, <1>3, <1>4 DEF Calls

LEMMA NothingKeeps ==
  ASSUME IInv, UNCHANGED vars
  PROVE  IInv'
<1>1. UNCHANGED <<alive, links, holder, name, started, stack, before>>
  BY DEF vars
<1>2. Pointers' /\ PathsUnique'
  BY <1>1, TreeUnchanged
<1>3. LinksOfTheLiving'
  BY <1>1, LinksAreLiving DEF IInv
<1> QED
  BY <1>1, <1>2, <1>3 DEF IInv, Types, Frames, Nested, Starting

(* After an abort nothing happens any more.                                *)
LEMMA AbortedKeeps ==
  ASSUME TreeSound, ~Running, UNCHANGED vars
  PROVE  TreeSound' /\ ~Running'
<1>1. UNCHANGED <<alive, links, holder, name, started, stack, before, lost>>
  BY DEF vars
<1>2. ~Running'
  BY <1>1 DEF Running
<1>3. TypeOK' /\ AllStarted' /\ PathsUnique'
  BY <1>1 DEF TreeSound, TypeOK, AllStarted, PathsUnique
<1>4. TreeOfTheLiving'
  BY <1>1 DEF TreeSound, TreeOfTheLiving
<1>5. LinksOfTheLiving'
  BY <1>1, LinksAreLiving DEF TreeSound
<1>6. AbortsOnUnknownHint'
  BY <1>2 DEF AbortsOnUnknownHint
<1> QED
  BY <1>2, <1>3, <1>4, <1>5, <1>6 DEF TreeSound

(* While the server runs the invariant holds, and afterwards what was      *)
(* promised.                                                               *)
Kept == (Running /\ IInv) \/ (~Running /\ TreeSound)

LEMMA NextKeeps ==
  ASSUME Kept, [Next]_vars
  PROVE  Kept'
<1>1. CASE Running /\ Calls /\ UNCHANGED lost
  <2>1. Running' /\ IInv
    BY <1>1 DEF Running, Kept
  <2> QED
    BY <1>1, <2>1, CallsKeep DEF Kept
<1>2. CASE Running /\ Renames
  <2>1. IInv
    BY <1>2 DEF Kept
  <2>2. PICK o \in alive, p \in Parents, n \in Names, place \in Place(Children) : Rename(o, p, n, place)
    BY <1>2 DEF Renames
  <2>3. CASE Refused(o, p, n, place)
    BY <2>1, <2>2, <2>3, RefusedKeeps DEF Kept
  <2>4. CASE ~Refused(o, p, n, place)
    <3>1. Running'
      BY <1>2, <2>2, <2>4 DEF Rename, Running
    <3> QED
      BY <2>1, <2>2, <2>4, <3>1, RenameKeeps DEF Kept
  <2> QED
    BY <2>3, <2>4
<1>3. CASE UNCHANGED vars
  <2>1. lost' = lost
    BY <1>3 DEF vars
  <2>2. CASE Running
    BY <1>3, <2>1, <2>2, NothingKeeps DEF Kept, Running
  <2>3. CASE ~Running
    BY <1>3, <2>3, AbortedKeeps DEF Kept
  <2> QED
    BY <2>2, <2>3
<1> QED
  BY <1>1, <1>2, <1>3 DEF Next, Aborted

(* Whatever is created, deleted, renamed and linked, and whatever the      *)
(* methods called meanwhile do, the objects form a tree with unique paths, *)
(* no link leads to an object that is gone or going, and between calls     *)
(* every object is started up.  A rename that passes the checks aborts the *)
(* server exactly if it moves an object with an unknown hint, which loses  *)
(* that object and what is below it, and nothing else.                     *)
THEOREM TreeIsSound == Spec => []TreeSound
<1>1. Init => Kept
  BY InitInvariant DEF Kept, Running, Init
<1>2. Kept /\ [Next]_vars => Kept'
  BY NextKeeps
<1>3. Kept => TreeSound
  BY InvariantImplies DEF Kept
<1> QED
  BY <1>1, <1>2, <1>3, PTL DEF Spec

----------------------------------------------------------------------------
(* What is seen between calls: the promise of module Hierarchy.            *)

LEMMA SeenRises ==
  ASSUME NEW l, NEW p, NEW g, Rising(l, p, g)
  PROVE  \E w : Rising(l, p, w) /\ Seen!Above(l.pparent, p) = w[Cardinality(Children)]
<1> DEFINE w == CHOOSE f : f =
                  [n \in 0..Cardinality(Children) |->
                     IF n = 0 THEN {p}
                     ELSE LET lower == f[n - 1]
                          IN  lower \cup {l.pparent[d] : d \in lower \cap Children}]
<1>1. g = [n \in 0..Cardinality(Children) |->
             IF n = 0 THEN {p}
             ELSE LET lower == g[n - 1]
                  IN  lower \cup {l.pparent[d] : d \in lower \cap Children}]
  BY Zenon DEF Rising
<1>2. w = [n \in 0..Cardinality(Children) |->
             IF n = 0 THEN {p}
             ELSE LET lower == w[n - 1]
                  IN  lower \cup {l.pparent[d] : d \in lower \cap Children}]
  BY <1>1, Zenon
<1>3. Seen!Above(l.pparent, p) = w[Cardinality(Children)]
  BY Zenon DEF Seen!Above, Cardinality, Seen!Cardinality
<1>4. Rising(l, p, w)
  <2> HIDE DEF w
  <2> QED
    BY <1>2, Zenon DEF Rising
<1> QED
  BY <1>3, <1>4

(* The promise collects the same objects.                                  *)
LEMMA SeenAbove ==
  ASSUME NEW l \in Tables, NEW p \in Parents
  PROVE  /\ Seen!Above(l.pparent, p) \ {Nil} = AndAbove(l, p)
         /\ \A T : p \in T /\ (\A d \in T \cap Children : l.pparent[d] \in T)
                     => Seen!Above(l.pparent, p) \subseteq T
<1> DEFINE N == Cardinality(Children)
<1>1. N \in Nat
  BY ObjectsFinite
<1>2. PICK g : Rising(l, p, g)
  BY AboveIsChain
<1>3. PICK v : Rising(l, p, v) /\ AndAbove(l, p) = v[N] \ {Nil}
  BY <1>2, AboveRises
<1>4. PICK w : Rising(l, p, w) /\ Seen!Above(l.pparent, p) = w[N]
  BY <1>2, SeenRises
<1>5. ASSUME NEW x, Rising(l, p, x)
      PROVE  /\ x[0] = {p}
             /\ \A n \in Nat : n + 1 <= N =>
                  x[n + 1] = x[n] \cup {l.pparent[d] : d \in x[n] \cap Children}
  <2>1. \A n \in 0..N : x[n] = IF n = 0 THEN {p}
                               ELSE x[n - 1] \cup {l.pparent[d] : d \in x[n - 1] \cap Children}
    BY <1>5 DEF Rising
  <2>2. ASSUME NEW n \in Nat, n + 1 <= N
        PROVE  x[n + 1] = x[n] \cup {l.pparent[d] : d \in x[n] \cap Children}
    <3>1. n + 1 \in 0..N /\ n + 1 # 0 /\ (n + 1) - 1 = n
      BY <1>1, <2>2
    <3> QED
      BY <2>1, <3>1
  <2>3. 0 \in 0..N
    BY <1>1
  <2> QED
    BY <2>1, <2>2, <2>3
<1> HIDE DEF N
<1>6. w[N] = v[N]
  <2> DEFINE R == {n \in Nat : n <= N => w[n] = v[n]}
  <2>1. 0 \in R
    BY <1>3, <1>4, <1>5
  <2>2. ASSUME NEW n \in Nat, n \in R
        PROVE  n + 1 \in R
    <3> SUFFICES ASSUME n + 1 <= N
                 PROVE  w[n + 1] = v[n + 1]
      OBVIOUS
    <3>1. w[n] = v[n]
      BY <1>1, <2>2
    <3>2. /\ w[n + 1] = w[n] \cup {l.pparent[d] : d \in w[n] \cap Children}
          /\ v[n + 1] = v[n] \cup {l.pparent[d] : d \in v[n] \cap Children}
      BY <1>3, <1>4, <1>5
    <3> QED
      BY <3>1, <3>2
  <2> HIDE DEF R
  <2>3. Nat \subseteq R
    BY <2>1, <2>2, AllNumbers
  <2> QED
    BY <1>1, <2>3 DEF R
<1>7. ASSUME NEW T, p \in T, \A d \in T \cap Children : l.pparent[d] \in T
      PROVE  w[N] \subseteq T
  <2> DEFINE R == {n \in Nat : n <= N => w[n] \subseteq T}
  <2>1. 0 \in R
    BY <1>4, <1>5, <1>7
  <2>2. ASSUME NEW n \in Nat, n \in R
        PROVE  n + 1 \in R
    <3> SUFFICES ASSUME n + 1 <= N
                 PROVE  w[n + 1] \subseteq T
      OBVIOUS
    <3>1. w[n] \subseteq T
      BY <1>1, <2>2
    <3>2. w[n + 1] = w[n] \cup {l.pparent[d] : d \in w[n] \cap Children}
      BY <1>4, <1>5
    <3> QED
      BY <1>7, <3>1, <3>2
  <2> HIDE DEF R
  <2>3. Nat \subseteq R
    BY <2>1, <2>2, AllNumbers
  <2> QED
    BY <1>1, <2>3 DEF R
<1> QED
  BY <1>3, <1>4, <1>6, <1>7

LEMMA SeenLiving ==
  ASSUME NEW l \in Tables, Rooted(l), NEW S \in SUBSET Children, Living(l, S)
  PROVE  /\ Seen!Exist(l.pparent) = S
         /\ \A d \in S : /\ Root \in Seen!Above(l.pparent, d) /\ Nil \notin Seen!Above(l.pparent, d)
                         /\ \A o \in Children : o \in Seen!Above(l.pparent, d) <=> o \in AndAbove(l, d)
<1>1. Parents = Children \cup {Root} /\ Nil \notin Parents
  BY ObjectTreeAssumption
<1>2. Seen!Exist(l.pparent) = S
  BY <1>1 DEF Seen!Exist, Living
<1>3. ASSUME NEW d \in S
      PROVE  /\ Root \in Seen!Above(l.pparent, d) /\ Nil \notin Seen!Above(l.pparent, d)
             /\ \A o \in Children : o \in Seen!Above(l.pparent, d) <=> o \in AndAbove(l, d)
  <2>1. d \in Parents
    BY <1>1
  <2>2. Seen!Above(l.pparent, d) \ {Nil} = AndAbove(l, d)
    BY <2>1, SeenAbove
  <2>3. Seen!Above(l.pparent, d) \subseteq S \cup {Root}
    <3> DEFINE T == S \cup {Root}
    <3>1. d \in T /\ (\A e \in T \cap Children : l.pparent[e] \in T)
      BY ObjectTreeAssumption DEF Living
    <3> HIDE DEF T
    <3>2. Seen!Above(l.pparent, d) \subseteq T
      BY <2>1, <3>1, SeenAbove
    <3> QED
      BY <3>2 DEF T
  <2>4. Root \in AndAbove(l, d)
    BY AboveLiving
  <2> QED
    BY <1>1, <2>2, <2>3, <2>4
<1> QED
  BY <1>2, <1>3

LEMMA SeenSound ==
  ASSUME NEW l \in Tables, Rooted(l), NEW S \in SUBSET Children, Living(l, S), NEW n,
         \A o, d \in S : (o # d /\ l.pparent[o] = l.pparent[d]) => n[o] # n[d]
  PROVE  Seen!Sound(l.pparent, n)
BY SeenLiving, Zenon DEF Seen!Sound

Trees == [parent : [Children -> Parents \cup {Nil}],
          name : [Children -> Names \cup {Nil}],
          holder : [Held -> Holders \cup {Nil}]]

(* The tree b before the calls in progress, and its objects.               *)
Past(b) == [Empty(Parents, Children) EXCEPT !.pparent = b.parent]
Were(b) == {d \in Children : b.parent[d] # Nil}

Nameless(S, n) == \A d \in Children \ S : n[d] = Nil

Remembered(b) ==
  /\ Rooted(Past(b)) /\ Living(Past(b), Were(b)) /\ Nameless(Were(b), b.name)
  /\ \A t \in Held : b.holder[t] # Nil => {t, b.holder[t]} \subseteq Were(b)

(* Since then an object o was created: nothing of the tree has changed,    *)
(* what is new is at or below o, and so is an end of each new link.        *)
Creating(b, o, S, l, n, h) ==
  /\ o \in Children \ Were(b)
  /\ Were(b) \subseteq S
  /\ \A d \in Were(b) : l.pparent[d] = b.parent[d] /\ n[d] = b.name[d]
  /\ \A d \in S \ Were(b) : o \in AndAbove(l, d)
  /\ \A t \in Held : h[t] # b.holder[t] => b.holder[t] = Nil /\ ~({t, h[t]} \subseteq Were(b))

(* Or it is being deleted: nothing is new, what is gone was at or below o, *)
(* and so was an end of each link that is undone.                          *)
Deleting(b, o, S, l, n, h) ==
  /\ o \in Were(b)
  /\ S \subseteq Were(b)
  /\ \A d \in S : l.pparent[d] = b.parent[d] /\ n[d] = b.name[d]
  /\ \A d \in Were(b) \ S : o \in AndAbove(Past(b), d)
  /\ \A t \in Held : h[t] # b.holder[t] =>
       h[t] = Nil /\ \E d \in {t, b.holder[t]} : o \in AndAbove(Past(b), d)

Midway(b, f, S, l, n, h) ==
  /\ Remembered(b)
  /\ Creating(b, f.obj, S, l, n, h) \/ (f.at # "constructor" /\ Deleting(b, f.obj, S, l, n, h))

Seeing ==
  /\ Nameless(alive, name)
  /\ stack # <<>> => Midway(before, stack[1], alive, links, name, holder)

----------------------------------------------------------------------------
LEMMA PastTyped ==
  ASSUME NEW b \in Trees
  PROVE  /\ Past(b) \in Tables /\ Past(b).pparent = b.parent /\ Were(b) \in SUBSET Children
         /\ \A d \in Children : d \in Were(b) <=> b.parent[d] # Nil
<1>1. Empty(Parents, Children) \in Tables
  BY DEF Empty, Tables, LinkTables
<1>2. b.parent \in [Children -> Parents \cup {Nil}]
  BY DEF Trees
<1> QED
  BY <1>1, <1>2 DEF Past, Were, Tables, LinkTables

LEMMA SameParents ==
  ASSUME NEW l \in Tables, NEW m \in Tables, m.pparent = l.pparent, Rooted(l),
         NEW S, Living(l, S)
  PROVE  /\ Rooted(m) /\ Living(m, S)
         /\ \A d \in Parents : AndAbove(m, d) = AndAbove(l, d)
<1>1. Rooted(m)
  BY DEF Rooted, Deepens
<1>2. \A d \in Parents : AndAbove(m, d) = AndAbove(l, d)
  BY <1>1, AboveSame
<1> QED
  BY <1>1, <1>2 DEF Living

(* What was there is not below the new object.                             *)
LEMMA OldNotBelow ==
  ASSUME NEW b \in Trees, Remembered(b), NEW l \in Tables, Rooted(l), NEW o, NEW S, NEW n, NEW h,
         Creating(b, o, S, l, n, h), NEW d \in Were(b)
  PROVE  o \notin AndAbove(l, d)
<1>1. /\ Past(b).pparent = b.parent /\ Were(b) \in SUBSET Children
      /\ Root \notin Children /\ Children \subseteq Parents
  BY PastTyped, ObjectsFinite
<1>2. Closed(l, Were(b) \cup {Root})
  BY <1>1 DEF Closed, Creating, Remembered, Living
<1>3. AndAbove(l, d) \subseteq Were(b) \cup {Root}
  BY <1>1, <1>2, AboveIs
<1> QED
  BY <1>1, <1>3 DEF Creating

(* What is still there has the same objects above it.                      *)
LEMMA StillAbove ==
  ASSUME NEW b \in Trees, Remembered(b), NEW l \in Tables, Rooted(l), NEW o, NEW S \in SUBSET Children,
         NEW n, NEW h, Living(l, S), Deleting(b, o, S, l, n, h), NEW d \in S
  PROVE  AndAbove(Past(b), d) = AndAbove(l, d)
<1>1. /\ Past(b) \in Tables /\ Past(b).pparent = b.parent /\ Rooted(Past(b))
      /\ Root \notin Children /\ d \in Parents
  BY PastTyped, ObjectsFinite DEF Remembered
<1>2. AndAbove(l, d) \subseteq S \cup {Root}
  BY AboveLiving
<1>3. \A e \in AndAbove(l, d) \cap Children : Past(b).pparent[e] = l.pparent[e]
  BY <1>1, <1>2 DEF Deleting
<1> QED
  BY <1>1, <1>3, AboveSame

(* The state when the first call is made.                                  *)
LEMMA TreeRemembered ==
  ASSUME IInv, Nameless(alive, name)
  PROVE  /\ Tree \in Trees /\ Tree.parent = links.pparent /\ Tree.name = name /\ Tree.holder = holder
         /\ Were(Tree) = alive /\ Remembered(Tree)
         /\ \A d \in Parents : AndAbove(Past(Tree), d) = AndAbove(links, d)
<1>1. /\ Tree \in Trees /\ Tree.parent = links.pparent /\ Tree.name = name /\ Tree.holder = holder
  BY TreeTyped DEF Trees, Tree
<1>2. /\ links \in Tables /\ Rooted(links) /\ Living(links, alive) /\ alive \in SUBSET Children
      /\ Nil \notin Parents /\ Parents = Children \cup {Root}
  BY PointersSound, ObjectTreeAssumption DEF IInv, Types
<1> DEFINE b == Tree
<1>3. b \in Trees /\ b.parent = links.pparent /\ b.name = name /\ b.holder = holder
  BY <1>1
<1> HIDE DEF b
<1>4. Past(b) \in Tables /\ Past(b).pparent = links.pparent
  BY <1>3, PastTyped
<1>5. Rooted(Past(b)) /\ Living(Past(b), alive) /\ \A d \in Parents : AndAbove(Past(b), d) = AndAbove(links, d)
  BY <1>2, <1>4, SameParents
<1>6. Were(b) = alive
  BY <1>2, <1>3 DEF Were, Living
<1>7. \A t \in Held : holder[t] # Nil => {t, holder[t]} \subseteq alive
  BY LinksAreLiving DEF IInv
<1>8. Remembered(b)
  BY <1>3, <1>5, <1>6, <1>7 DEF Remembered
<1> QED
  BY <1>3, <1>5, <1>6, <1>8 DEF b

(* What the calls under way know of the tree before.                       *)
LEMMA BeforeFacts ==
  ASSUME IInv, stack # <<>>, Midway(before, stack[1], alive, links, name, holder)
  PROVE  /\ before \in Trees /\ Remembered(before)
         /\ links \in Tables /\ Rooted(links) /\ Living(links, alive) /\ alive \in SUBSET Children
         /\ stack[1].obj \in AndAbove(links, Top.obj)
         /\ Top \in Frame /\ Top.obj \in alive /\ Top.obj \in Children
         /\ Top.at = "constructor" => stack[1].at = "constructor"
<1>1. /\ links \in Tables /\ Rooted(links) /\ Living(links, alive) /\ alive \in SUBSET Children
  BY PointersSound DEF IInv, Types
<1>2. Top \in Frame /\ Top.obj \in alive /\ stack[1].obj \in AndAbove(links, Top.obj)
  BY FirstAbove
<1>3. Top.at = "constructor" => stack[1].at = "constructor"
  <2>1. /\ Len(stack) \in Nat /\ Len(stack) \in DOMAIN stack /\ DOMAIN stack = 1..Len(stack)
        /\ Top = stack[Len(stack)]
    BY TopFrame DEF IInv, Frames, Top
  <2>2. 1 \in DOMAIN stack /\ (Len(stack) = 1 \/ 1 < Len(stack))
    BY <2>1
  <2> QED
    BY <2>1, <2>2 DEF IInv, Nested
<1>4. before \in Trees
  BY DEF IInv, Types, Trees
<1> QED
  BY <1>1, <1>2, <1>3, <1>4 DEF Midway

----------------------------------------------------------------------------
(* Midway through each step of the calls.                                  *)

LEMMA OnlyStack ==
  ASSUME Seeing, UNCHANGED <<alive, links, holder, name>>,
         stack # <<>>, stack' # <<>>, before' = before, stack'[1].obj = stack[1].obj,
         stack'[1].at = "constructor" => stack[1].at = "constructor"
  PROVE  Seeing'
BY DEF Seeing, Midway

(* A call in the middle of others, or the first one.                       *)
LEMMA CallSeeing ==
  ASSUME IInv, Seeing, NEW o \in alive, Call(o, "shutdown"),
         UNCHANGED <<alive, links, holder, name>>
  PROVE  Seeing'
<1>1. stack \in Seq(Frame) /\ stack' = Calling(stack, o, "shutdown")
  BY DEF IInv, Frames, Call
<1>2. CASE stack # <<>>
  <2>1. stack' # <<>> /\ stack'[1] = stack[1] /\ before' = before
    BY <1>1, <1>2 DEF Calling, Call
  <2> QED
    BY <1>2, <2>1, OnlyStack
<1>3. CASE stack = <<>>
  <2> DEFINE b == Tree
             f == [obj |-> o, at |-> "shutdown", made |-> 0]
  <2>1. before' = b /\ stack'[1] = f /\ f.obj = o /\ f.at = "shutdown"
    BY <1>1, <1>3 DEF Calling, Call
  <2>2. /\ b.parent = links.pparent /\ b.name = name /\ b.holder = holder
        /\ Were(b) = alive /\ Remembered(b)
    BY TreeRemembered DEF Seeing
  <2> HIDE DEF b, f
  <2>3. Deleting(b, o, alive, links, name, holder)
    BY <2>2 DEF Deleting
  <2>4. Midway(b, f, alive, links, name, holder)
    BY <2>1, <2>2, <2>3 DEF Midway
  <2> QED
    BY <2>1, <2>4 DEF Seeing
<1> QED
  BY <1>2, <1>3

(* The links of an object below that of the first call are undone.         *)
LEMMA AloneSeeing ==
  ASSUME IInv, Seeing, stack # <<>>, Proceed, UNCHANGED <<alive, links, name>>
  PROVE  Seeing'
<1> DEFINE k == Len(stack)
           o == Top.obj
           b == before
           r == stack[1].obj
<1>1. /\ stack \in Seq(Frame) /\ k \in Nat /\ k \in DOMAIN stack /\ DOMAIN stack = 1..k
      /\ 1 \in DOMAIN stack /\ \A i \in DOMAIN stack : stack[i] \in Frame
  BY TopFrame DEF IInv, Frames
<1>2. /\ stack' = [stack EXCEPT ![k].at = "cleanup"] /\ holder' = Alone(o) /\ before' = before
  BY DEF Proceed
<1>3. /\ stack' # <<>> /\ stack'[1].obj = stack[1].obj
      /\ stack'[1].at = "constructor" => stack[1].at = "constructor"
  <2>1. CASE k = 1
    BY <1>1, <1>2, <2>1 DEF Frame
  <2>2. CASE k # 1
    BY <1>1, <1>2, <2>2
  <2> QED
    BY <2>1, <2>2
<1>4. Midway(b, stack[1], alive, links, name, holder)
  BY DEF Seeing
<1>5. /\ b \in Trees /\ Remembered(b) /\ links \in Tables /\ Rooted(links) /\ Living(links, alive)
      /\ alive \in SUBSET Children /\ r \in AndAbove(links, o) /\ o \in alive
  BY <1>4, BeforeFacts
<1>6. \A t \in Held : holder'[t] = IF o \in {t, holder[t]} THEN Nil ELSE holder[t]
  BY <1>2 DEF Alone
<1> HIDE DEF o, b, r, k
<1>7. CASE Creating(b, r, alive, links, name, holder)
  <2>1. o \notin Were(b)
    BY <1>5, <1>7, OldNotBelow
  <2>2. ASSUME NEW t \in Held, holder'[t] # b.holder[t]
        PROVE  b.holder[t] = Nil /\ ~({t, holder'[t]} \subseteq Were(b))
    <3>1. holder[t] # b.holder[t] => b.holder[t] = Nil /\ ~({t, holder[t]} \subseteq Were(b))
      BY <1>7 DEF Creating
    <3>2. b.holder[t] # Nil => {t, b.holder[t]} \subseteq Were(b)
      BY <1>5 DEF Remembered
    <3>3. CASE o \in {t, holder[t]}
      <4>1. holder'[t] = Nil
        BY <1>6, <3>3
      <4> QED
        BY <2>1, <2>2, <3>1, <3>2, <3>3, <4>1
    <3>4. CASE o \notin {t, holder[t]}
      <4>1. holder'[t] = holder[t]
        BY <1>6, <3>4
      <4> QED
        BY <2>2, <3>1, <4>1
    <3> QED
      BY <3>3, <3>4
  <2>3. Creating(b, r, alive, links, name, holder')
    BY <1>7, <2>2 DEF Creating
  <2> QED
    BY <1>2, <1>3, <1>4, <2>3 DEF Seeing, Midway, b, r
<1>8. CASE stack[1].at # "constructor" /\ Deleting(b, r, alive, links, name, holder)
  <2>1. r \in AndAbove(Past(b), o)
    BY <1>5, <1>8, StillAbove
  <2>2. ASSUME NEW t \in Held, holder'[t] # b.holder[t]
        PROVE  holder'[t] = Nil /\ \E d \in {t, b.holder[t]} : r \in AndAbove(Past(b), d)
    <3>1. holder[t] # b.holder[t] =>
            holder[t] = Nil /\ \E d \in {t, b.holder[t]} : r \in AndAbove(Past(b), d)
      BY <1>8 DEF Deleting
    <3>2. CASE o \in {t, holder[t]}
      <4>1. holder'[t] = Nil
        BY <1>6, <3>2
      <4> QED
        BY <2>1, <2>2, <3>1, <3>2, <4>1
    <3>3. CASE o \notin {t, holder[t]}
      <4>1. holder'[t] = holder[t]
        BY <1>6, <3>3
      <4> QED
        BY <2>2, <3>1, <4>1
    <3> QED
      BY <3>2, <3>3
  <2>3. Deleting(b, r, alive, links, name, holder')
    BY <1>8, <2>2 DEF Deleting
  <2> QED
    BY <1>2, <1>3, <1>4, <1>8, <2>3 DEF Seeing, Midway, b, r
<1> QED
  BY <1>4, <1>7, <1>8 DEF Midway, r

LEMMA PoppedSeeing ==
  ASSUME IInv, Seeing, Return, stack # <<>>, stack' # <<>>, UNCHANGED <<alive, links, holder, name>>
  PROVE  Seeing'
<1>1. stack \in Seq(Frame) /\ stack' = Front(stack)
  BY DEF IInv, Frames, Return
<1>2. 1 \in 1..(Len(stack) - 1) /\ Len(stack) # 1
  BY <1>1, TopFrame, Popped
<1>3. stack'[1] = stack[1] /\ before' = before
  BY <1>1, <1>2, Popped DEF Return
<1> QED
  BY <1>3, OnlyStack

LEMMA HoldSeeing ==
  ASSUME IInv, Seeing, NEW u \in Holders, NEW t \in Held, Hold(u, t)
  PROVE  Seeing'
<1>1. /\ MayLink(u, t) /\ holder[t] = Nil /\ holder' = [holder EXCEPT ![t] = u]
      /\ UNCHANGED <<alive, links, name, started, stack, before>>
      /\ holder \in [Held -> Holders \cup {Nil}]
  BY DEF Hold, IInv, Types
<1>2. CASE stack = <<>>
  BY <1>1, <1>2 DEF Seeing
<1>3. CASE stack # <<>>
  <2> DEFINE o == Top.obj
             b == before
             r == stack[1].obj
  <2>1. Midway(b, stack[1], alive, links, name, holder)
    BY <1>3 DEF Seeing
  <2>2. /\ b \in Trees /\ Remembered(b) /\ links \in Tables /\ Rooted(links) /\ Living(links, alive)
        /\ alive \in SUBSET Children /\ r \in AndAbove(links, o) /\ o \in alive
        /\ Top.at = "constructor" => stack[1].at = "constructor"
    BY <1>3, <2>1, BeforeFacts
  <2>3. Top.at = "constructor" /\ o \in {u, t}
    BY <1>1, <1>3 DEF MayLink
  <2>4. \A d \in Held : holder'[d] = IF d = t THEN u ELSE holder[d]
    BY <1>1
  <2> HIDE DEF o, b, r
  <2>5. Creating(b, r, alive, links, name, holder)
    BY <2>1, <2>2, <2>3 DEF Midway, r
  <2>6. o \notin Were(b)
    BY <2>2, <2>5, OldNotBelow
  <2>7. ASSUME NEW d \in Held, holder'[d] # b.holder[d]
        PROVE  b.holder[d] = Nil /\ ~({d, holder'[d]} \subseteq Were(b))
    <3>1. holder[d] # b.holder[d] => b.holder[d] = Nil /\ ~({d, holder[d]} \subseteq Were(b))
      BY <2>5 DEF Creating
    <3>2. CASE d = t
      <4>1. holder'[d] = u /\ holder[d] = Nil
        BY <1>1, <2>4, <3>2
      <4> QED
        BY <2>3, <2>6, <3>1, <3>2, <4>1
    <3>3. CASE d # t
      <4>1. holder'[d] = holder[d]
        BY <2>4, <3>3
      <4> QED
        BY <2>7, <3>1, <4>1
    <3> QED
      BY <3>2, <3>3
  <2>8. Creating(b, r, alive, links, name, holder')
    BY <2>5, <2>7 DEF Creating
  <2> QED
    BY <1>1, <1>3, <2>1, <2>8 DEF Seeing, Midway, b, r
<1> QED
  BY <1>2, <1>3

LEMMA CreateSeeing ==
  ASSUME IInv, Seeing, NEW c \in Children \ alive, NEW p \in Parents, NEW n \in Names,
         NEW place \in Place(Children), Create(p, c, n, place)
  PROVE  Seeing'
<1>1. /\ MayCreate(p) /\ alive' = alive \cup {c} /\ name' = [name EXCEPT ![c] = n] /\ holder' = holder
  BY DEF Create
<1>2. /\ links'.pparent = [links.pparent EXCEPT ![c] = p]
      /\ \A d \in alive : AndAbove(links', d) = AndAbove(links, d)
      /\ AndAbove(links', c) = {c} \cup AndAbove(links, p)
  BY CreatedTree
<1>3. /\ links.pparent \in [Children -> Parents \cup {Nil}] /\ name \in [Children -> Names \cup {Nil}]
      /\ alive \in SUBSET Children /\ stack \in Seq(Frame) /\ links \in Tables /\ Rooted(links)
      /\ Root \notin Children
  BY PointersSound, ObjectsFinite DEF IInv, Types, Frames
<1>4. \A d \in Children : d # c => links'.pparent[d] = links.pparent[d] /\ name'[d] = name[d]
  BY <1>1, <1>2, <1>3
<1>5. Nameless(alive', name')
  BY <1>1, <1>4 DEF Seeing, Nameless
<1>6. CASE stack = <<>>
  <2> DEFINE b == Tree
             f == [obj |-> c, at |-> "constructor", made |-> 0]
  <2>1. before' = b /\ stack'[1] = f /\ f.obj = c
    BY <1>6 DEF Create, Calling, Call
  <2>2. /\ b.parent = links.pparent /\ b.name = name /\ b.holder = holder
        /\ Were(b) = alive /\ Remembered(b)
    BY TreeRemembered DEF Seeing
  <2> HIDE DEF b, f
  <2>3. Creating(b, c, alive', links', name', holder')
    BY <1>1, <1>2, <1>3, <1>4, <2>2 DEF Creating
  <2>4. Midway(b, f, alive', links', name', holder')
    BY <2>1, <2>2, <2>3 DEF Midway
  <2> QED
    BY <1>5, <2>1, <2>4 DEF Seeing
<1>7. CASE stack # <<>>
  <2> DEFINE b == before
             r == stack[1].obj
             k == Len(stack)
             e == [stack[k] EXCEPT !.made = @ + 1]
             base == [stack EXCEPT ![k] = e]
  <2>1. Midway(b, stack[1], alive, links, name, holder)
    BY <1>7 DEF Seeing
  <2>2. /\ b \in Trees /\ Remembered(b) /\ links \in Tables /\ Rooted(links) /\ Living(links, alive)
        /\ alive \in SUBSET Children /\ r \in AndAbove(links, Top.obj) /\ Top.obj \in alive
        /\ Top.at = "constructor" => stack[1].at = "constructor"
    BY <1>7, <2>1, BeforeFacts
  <2>3. Top.at = "constructor" /\ p = Top.obj
    BY <1>1, <1>7 DEF MayCreate
  <2>4. before' = b /\ stack' # <<>> /\ stack'[1].obj = r
    <3>1. /\ k \in Nat /\ k \in DOMAIN stack /\ DOMAIN stack = 1..k /\ 1 \in DOMAIN stack
          /\ stack[k] \in Frame
      BY <1>3, <1>7, TopFrame
    <3>2. stack' = Calling(base, c, "constructor") /\ before' = b
      BY <1>7 DEF Create
    <3>3. e.obj = stack[k].obj
      BY <3>1 DEF Frame
    <3> HIDE DEF e
    <3>4. base[1].obj = r /\ DOMAIN base = 1..k /\ Len(base) = k
      BY <1>3, <3>1, <3>3
    <3> HIDE DEF base, k, r
    <3>5. stack' # <<>> /\ stack'[1] = base[1]
      BY <3>1, <3>2, <3>4 DEF Calling
    <3> QED
      BY <3>2, <3>4, <3>5
  <2> HIDE DEF b, r
  <2>5. Creating(b, r, alive, links, name, holder)
    BY <2>1, <2>2, <2>3 DEF Midway, r
  <2>6. \A d \in alive' \ Were(b) : r \in AndAbove(links', d)
    BY <1>1, <1>2, <2>2, <2>3, <2>5 DEF Creating
  <2>7. Creating(b, r, alive', links', name', holder')
    BY <1>1, <1>3, <1>4, <2>5, <2>6 DEF Creating
  <2> QED
    BY <1>5, <2>1, <2>4, <2>7 DEF Seeing, Midway
<1> QED
  BY <1>6, <1>7

(* An object that is freed while others are still at work.                 *)
LEMMA FreeSeeing ==
  ASSUME IInv, Seeing, Free, stack' # <<>>
  PROVE  Seeing'
<1> DEFINE b == before
           r == stack[1].obj
           o == Top.obj
           k == Len(stack)
<1>1. /\ stack # <<>> /\ alive' = alive \ {o} /\ name' = [name EXCEPT ![o] = Nil] /\ holder' = holder
      /\ stack' = Front(stack)
  BY DEF Free, Return
<1>2. /\ links'.pparent = [links.pparent EXCEPT ![o] = Nil]
      /\ \A d \in Parents : d # o =>
           o \notin AndAbove(links, d) /\ AndAbove(links', d) = AndAbove(links, d)
  BY FreedTree
<1>3. Midway(b, stack[1], alive, links, name, holder)
  BY <1>1 DEF Seeing
<1>4. /\ b \in Trees /\ Remembered(b) /\ links \in Tables /\ Rooted(links) /\ Living(links, alive)
      /\ alive \in SUBSET Children /\ r \in AndAbove(links, o) /\ o \in alive
  BY <1>1, <1>3, BeforeFacts
<1>5. before' = b /\ stack'[1] = stack[1]
  <2>1. /\ stack \in Seq(Frame) /\ k \in Nat /\ DOMAIN stack = 1..k
        /\ k # 1 /\ \A i \in 1..(k - 1) : stack'[i] = stack[i]
    BY <1>1, TopFrame, Popped DEF IInv, Frames
  <2>2. 1 \in 1..(k - 1)
    BY <1>1, <2>1
  <2> QED
    BY <2>1, <2>2 DEF Free, Return
<1>6. /\ links.pparent \in [Children -> Parents \cup {Nil}] /\ name \in [Children -> Names \cup {Nil}]
      /\ Children \subseteq Parents
  BY PointersSound, ObjectsFinite DEF IInv, Types
<1> HIDE DEF o, b, r, k
<1>7. \A d \in Children : d # o => links'.pparent[d] = links.pparent[d] /\ name'[d] = name[d]
  BY <1>1, <1>2, <1>6
<1>8. Nameless(alive', name')
  <2>1. o \in Children => name'[o] = Nil
    BY <1>1, <1>6
  <2> QED
    BY <1>1, <1>7, <2>1 DEF Seeing, Nameless
<1>9. \A d \in alive' : d # o /\ d \in alive /\ AndAbove(links', d) = AndAbove(links, d)
  BY <1>1, <1>2, <1>4, <1>6
<1>10. CASE Creating(b, r, alive, links, name, holder)
  <2>1. o \notin Were(b)
    BY <1>4, <1>10, OldNotBelow
  <2>2. \A d \in Were(b) : d \in alive' /\ d \in Children /\ d # o
    BY <1>1, <1>10, <2>1 DEF Creating, Were
  <2>3. Creating(b, r, alive', links', name', holder')
    BY <1>1, <1>7, <1>9, <1>10, <2>2 DEF Creating
  <2> QED
    BY <1>1, <1>3, <1>5, <1>8, <2>3 DEF Seeing, Midway, b, r
<1>11. CASE stack[1].at # "constructor" /\ Deleting(b, r, alive, links, name, holder)
  <2>1. r \in AndAbove(Past(b), o)
    BY <1>4, <1>11, StillAbove
  <2>2. \A d \in Were(b) \ alive' : r \in AndAbove(Past(b), d)
    BY <1>1, <1>11, <2>1 DEF Deleting
  <2>3. \A d \in alive' : d \in Children /\ d \in alive /\ d # o
    BY <1>4, <1>9
  <2>4. Deleting(b, r, alive', links', name', holder')
    BY <1>1, <1>7, <1>11, <2>2, <2>3 DEF Deleting
  <2> QED
    BY <1>1, <1>3, <1>5, <1>8, <1>11, <2>4 DEF Seeing, Midway, b, r
<1> QED
  BY <1>3, <1>10, <1>11 DEF Midway, r

----------------------------------------------------------------------------
(* What is seen.                                                           *)

LEMMA WhatIsSeen ==
  /\ Running /\ stack = <<>> =>
                     /\ Visible.parent = links.pparent
                     /\ Visible.name = name /\ Visible.holder = holder
  /\ stack # <<>> => Visible = before
  /\ Running' /\ stack' = <<>> =>
                      /\ Visible'.parent = links'.pparent
                      /\ Visible'.name = name' /\ Visible'.holder = holder'
  /\ stack' # <<>> => Visible' = before'
BY DEF Visible, Tree

LEMMA LinksThen ==
  ASSUME IInv'
  PROVE  /\ links' \in Tables /\ Rooted(links') /\ Living(links', alive') /\ alive' \in SUBSET Children
         /\ links'.pparent \in [Children -> Parents \cup {Nil}]
         /\ name' \in [Children -> Names \cup {Nil}] /\ holder' \in [Held -> Holders \cup {Nil}]
         /\ Seen!Sound(links'.pparent, name')
         /\ \A t \in Held : holder'[t] # Nil => {t, holder'[t]} \subseteq alive'
<1>1. /\ links' \in Tables /\ Rooted(links') /\ Living(links', alive') /\ alive' \in SUBSET Children
      /\ name' \in [Children -> Names \cup {Nil}] /\ holder' \in [Held -> Holders \cup {Nil}]
  BY DEF IInv, Types, Pointers, Sound, Tables, Rooted, Deepens, Living
<1>2. links'.pparent \in [Children -> Parents \cup {Nil}]
  BY <1>1 DEF Tables, LinkTables
<1>3. \A o, d \in alive' : (o # d /\ links'.pparent[o] = links'.pparent[d]) => name'[o] # name'[d]
  BY DEF IInv, PathsUnique
<1>4. Seen!Sound(links'.pparent, name')
  BY <1>1, <1>3, SeenSound
<1>5. LinksOfTheLiving'
  BY DEF IInv
<1>6. \A t \in Held : holder'[t] # Nil => {t, holder'[t]} \subseteq alive'
  BY <1>5, LinksAreLiving
<1> QED
  BY <1>1, <1>2, <1>4, <1>6

LEMMA InitSeen ==
  ASSUME Init
  PROVE  Seen!Init
<1>1. links.pparent = [c \in Children |-> Nil] /\ name = [o \in Children |-> Nil]
      /\ holder = [t \in Held |-> Nil] /\ stack = <<>> /\ Running
  BY DEF Init, Empty, NoTree, Running
<1> QED
  BY <1>1, WhatIsSeen DEF Seen!Init

(* The first call has returned, and there is a new object.                 *)
LEMMA CreatedSeen ==
  ASSUME IInv, IInv', Seeing, CreateSucceeds, stack' = <<>>, Running'
  PROVE  \E o \in Children : Seen!Create(o)
<1> DEFINE b == before
           r == stack[1].obj
<1>1. /\ stack # <<>> /\ Top.at = "constructor" /\ UNCHANGED <<alive, links, holder, name>>
      /\ stack' = Front(stack)
  BY DEF CreateSucceeds, Return
<1>2. Midway(b, stack[1], alive, links, name, holder)
  BY <1>1 DEF Seeing
<1>3. b \in Trees /\ Remembered(b) /\ (Top.at = "constructor" => stack[1].at = "constructor")
  BY <1>1, <1>2, BeforeFacts
<1>4. Creating(b, r, alive, links, name, holder)
  BY <1>1, <1>2, <1>3 DEF Midway
<1>5. /\ links' \in Tables /\ Rooted(links') /\ Living(links', alive') /\ alive' \in SUBSET Children
      /\ Seen!Sound(links'.pparent, name')
      /\ \A t \in Held : holder'[t] # Nil => {t, holder'[t]} \subseteq alive'
  BY LinksThen
<1>6. /\ Seen!Exist(links'.pparent) = alive
      /\ \A d \in alive : \A o \in Children :
           o \in Seen!Above(links'.pparent, d) <=> o \in AndAbove(links', d)
  BY <1>1, <1>5, SeenLiving
<1>7. Seen!Exist(b.parent) = Were(b)
  BY DEF Seen!Exist, Were
<1>8. /\ Visible = b /\ Visible'.parent = links'.pparent
      /\ Visible'.name = name /\ Visible'.holder = holder
  BY <1>1, WhatIsSeen
<1> HIDE DEF b, r
<1>9. r \in alive \ Were(b)
  <2>1. r \in alive
    BY <1>1 DEF r, IInv, Nested, Frames
  <2> QED
    BY <1>4, <2>1 DEF Creating
<1>10. \A d \in alive \ Were(b) : r \in Seen!Above(links'.pparent, d)
  BY <1>1, <1>4, <1>6 DEF Creating
<1>11. \A d \in Were(b) : links'.pparent[d] = b.parent[d] /\ name[d] = b.name[d]
  BY <1>1, <1>4 DEF Creating
<1>12. ASSUME NEW t \in Held, holder[t] # b.holder[t]
       PROVE  /\ b.holder[t] = Nil
              /\ {t, holder[t]} \subseteq alive
              /\ {t, holder[t]} \cap Were(b) # {t, holder[t]}
  <2>1. b.holder[t] = Nil /\ ~({t, holder[t]} \subseteq Were(b))
    BY <1>4, <1>12 DEF Creating
  <2>2. {t, holder[t]} \subseteq alive
    BY <1>1, <1>5, <1>12, <2>1
  <2> QED
    BY <2>1, <2>2
<1>13. Seen!Sound(links'.pparent, name)
  BY <1>1, <1>5
<1>14. Seen!Create(r)
  BY <1>6, <1>7, <1>8, <1>9, <1>10, <1>11, <1>12, <1>13, Zenon DEF Seen!Create
<1>15. r \in Children
  BY <1>4 DEF Creating
<1> QED
  BY <1>14, <1>15

(* The object of the first call is freed, after it was to be deleted, or   *)
(* to be created and failed.                                               *)
LEMMA FreedSeen ==
  ASSUME IInv, IInv', Seeing, Free, stack' = <<>>, Running'
  PROVE  (\E o \in Children : Seen!Delete(o)) \/ UNCHANGED Seen!vars
<1> DEFINE b == before
           o == stack[1].obj
           l == links'.pparent
           n == name'
           h == holder'
<1>1. /\ stack # <<>> /\ alive' = alive \ {Top.obj} /\ name' = [name EXCEPT ![Top.obj] = Nil]
      /\ holder' = holder /\ Top.at = "cleanup" /\ stack' = Front(stack)
  BY DEF Free, Return
<1>2. Top.obj = o /\ Top = stack[1]
  BY <1>1, TopFrame, Popped DEF IInv, Frames, Top
<1>3. /\ o \in alive /\ o \in Children /\ l = [links.pparent EXCEPT ![o] = Nil]
      /\ \A d \in Parents : d # o => o \notin AndAbove(links, d)
  BY <1>2, FreedTree
<1>4. Midway(b, stack[1], alive, links, name, holder)
  BY <1>1 DEF Seeing
<1>5. /\ b \in Trees /\ Remembered(b) /\ links \in Tables /\ Rooted(links) /\ Living(links, alive)
      /\ alive \in SUBSET Children
  BY <1>1, <1>4, BeforeFacts
<1>6. /\ Living(links', alive') /\ l \in [Children -> Parents \cup {Nil}]
      /\ n \in [Children -> Names \cup {Nil}] /\ h \in [Held -> Holders \cup {Nil}]
  BY LinksThen
<1>7. /\ links.pparent \in [Children -> Parents \cup {Nil}] /\ name \in [Children -> Names \cup {Nil}]
      /\ Nil \notin Parents /\ Children \subseteq Parents
  BY PointersSound, ObjectsFinite DEF IInv, Types
<1>8. /\ b.parent \in [Children -> Parents \cup {Nil}] /\ b.name \in [Children -> Names \cup {Nil}]
      /\ b.holder \in [Held -> Holders \cup {Nil}]
  BY <1>5 DEF Trees
<1>9. Visible = b /\ Visible'.parent = l /\ Visible'.name = n /\ Visible'.holder = h
  BY <1>1, WhatIsSeen
<1>10. \A t \in Held : holder[t] # Nil => {t, holder[t]} \subseteq alive'
  BY <1>1, LinksThen
<1>11. \A d \in Children : IF d \in alive' THEN l[d] = links.pparent[d] /\ n[d] = name[d]
                                           ELSE l[d] = Nil /\ n[d] = Nil
  <2>1. \A d \in Children : d # o => l[d] = links.pparent[d] /\ n[d] = name[d]
    BY <1>1, <1>2, <1>3, <1>7
  <2>2. l[o] = Nil /\ n[o] = Nil
    BY <1>1, <1>2, <1>3, <1>7
  <2>3. \A d \in Children \ alive : links.pparent[d] = Nil /\ name[d] = Nil
    BY <1>5 DEF Living, Seeing, Nameless
  <2> QED
    BY <1>1, <1>2, <2>1, <2>2, <2>3
<1>12. /\ Were(b) \in SUBSET Children /\ \A d \in Children : d \in Were(b) <=> b.parent[d] # Nil
       /\ Past(b) \in Tables /\ Past(b).pparent = b.parent
  BY <1>5, PastTyped
<1>13. \A d \in Children \ Were(b) : b.name[d] = Nil /\ b.parent[d] = Nil
  BY <1>5, <1>12 DEF Remembered, Nameless
<1> HIDE DEF b, o, l, n, h
<1>14. ASSUME Creating(b, o, alive, links, name, holder)
       PROVE  UNCHANGED Seen!vars
  <2>1. alive' = Were(b)
    <3>1. \A d \in alive \ Were(b) : d = o
      BY <1>3, <1>5, <1>7, <1>14 DEF Creating
    <3> QED
      BY <1>1, <1>2, <1>14, <3>1 DEF Creating
  <2>2. \A d \in Were(b) : links.pparent[d] = b.parent[d] /\ name[d] = b.name[d]
    BY <1>14 DEF Creating
  <2>3. l = b.parent /\ n = b.name
    BY <1>6, <1>8, <1>11, <1>13, <2>1, <2>2
  <2>4. h = b.holder
    <3>1. ASSUME NEW t \in Held, holder[t] # b.holder[t]
          PROVE  FALSE
      <4>1. b.holder[t] = Nil /\ ~({t, holder[t]} \subseteq Were(b))
        BY <1>14, <3>1 DEF Creating
      <4> QED
        BY <1>10, <2>1, <3>1, <4>1
    <3> QED
      BY <1>1, <1>6, <1>8, <3>1 DEF h
  <2> QED
    BY <1>9, <2>3, <2>4 DEF Seen!vars
<1>15. ASSUME Deleting(b, o, alive, links, name, holder)
       PROVE  Seen!Delete(o)
  <2> DEFINE gone == {d \in Seen!Exist(b.parent) : o \in Seen!Above(b.parent, d)}
  <2>1. Seen!Exist(b.parent) = Were(b) /\ \A d \in Were(b) : d \in gone <=> o \in AndAbove(Past(b), d)
    <3>1. Rooted(Past(b)) /\ Living(Past(b), Were(b))
      BY <1>5 DEF Remembered
    <3> QED
      BY <1>3, <1>12, <3>1, SeenLiving
  <2>2. gone \subseteq Were(b)
    BY <2>1
  <2> HIDE DEF gone
  <2>3. alive' = Were(b) \ gone
    <3>1. \A d \in alive : d \in Were(b) /\ (d # o => d \notin gone)
      <4> TAKE d \in alive
      <4>1. d \in Were(b) /\ d \in Parents
        BY <1>5, <1>7, <1>15 DEF Deleting
      <4>2. AndAbove(Past(b), d) = AndAbove(links, d)
        BY <1>5, <1>15, StillAbove
      <4> QED
        BY <1>3, <2>1, <4>1, <4>2
    <3>2. \A d \in Were(b) \ gone : d \in alive
      BY <1>15, <2>1 DEF Deleting
    <3>3. o \in gone
      <4>1. o \in AndAbove(Past(b), o)
        <5>1. Rooted(Past(b)) /\ o \in Parents
          BY <1>3, <1>5, <1>7 DEF Remembered
        <5> QED
          BY <1>12, <5>1, AboveIs
      <4> QED
        BY <1>15, <2>1, <4>1 DEF Deleting
    <3> QED
      BY <1>1, <1>2, <3>1, <3>2, <3>3
  <2>4. \A d \in alive' : links.pparent[d] = b.parent[d] /\ name[d] = b.name[d]
    BY <1>1, <1>15 DEF Deleting
  <2>5. \A d \in Children : /\ l[d] = IF d \in gone THEN Nil ELSE b.parent[d]
                            /\ n[d] = IF d \in gone THEN Nil ELSE b.name[d]
    BY <1>11, <1>13, <2>2, <2>3, <2>4
  <2>6. /\ l = [d \in Children |-> IF d \in gone THEN Nil ELSE b.parent[d]]
        /\ n = [d \in Children |-> IF d \in gone THEN Nil ELSE b.name[d]]
    BY <1>6, <2>5
  <2>7. ASSUME NEW t \in Held
        PROVE  h[t] = IF {t, b.holder[t]} \cap gone = {} THEN b.holder[t] ELSE Nil
    <3>1. CASE holder[t] # b.holder[t]
      <4>1. holder[t] = Nil /\ \E d \in {t, b.holder[t]} : o \in AndAbove(Past(b), d)
        BY <1>15, <3>1 DEF Deleting
      <4>2. {t, b.holder[t]} \subseteq Were(b)
        BY <1>5, <3>1, <4>1 DEF Remembered
      <4> QED
        BY <1>1, <2>1, <4>1, <4>2 DEF h
    <3>2. CASE holder[t] = b.holder[t]
      <4>1. holder[t] # Nil => {t, holder[t]} \cap gone = {}
        BY <1>10, <2>3
      <4> QED
        BY <1>1, <3>2, <4>1 DEF h
    <3> QED
      BY <3>1, <3>2
  <2>8. h = [t \in Held |-> IF {t, b.holder[t]} \cap gone = {} THEN b.holder[t] ELSE Nil]
    BY <1>6, <2>7
  <2>9. gone = {d \in Seen!Exist(Visible.parent) : o \in Seen!Above(Visible.parent, d)}
    BY <1>9 DEF gone
  <2>10. /\ Visible'.parent = [d \in Children |-> IF d \in gone THEN Nil ELSE Visible.parent[d]]
         /\ Visible'.name = [d \in Children |-> IF d \in gone THEN Nil ELSE Visible.name[d]]
         /\ Visible'.holder = [t \in Held |-> IF {t, Visible.holder[t]} \cap gone = {}
                                              THEN Visible.holder[t] ELSE Nil]
    BY <1>9, <2>6, <2>8, Zenon
  <2> QED
    BY <2>9, <2>10, Zenon DEF Seen!Delete
<1> QED
  BY <1>3, <1>4, <1>14, <1>15 DEF Midway, o

LEMMA RenamedSeen ==
  ASSUME IInv, IInv', NEW o \in alive, NEW p \in Parents, NEW n \in Names, NEW place \in Place(Children),
         Rename(o, p, n, place), ~Refused(o, p, n, place), Running, Running'
  PROVE  \E d \in Children, q \in Children \cup {Root} : Seen!Rename(d, q, Visible'.name[d])
<1>1. /\ stack = <<>> /\ stack' = <<>> /\ name' = [name EXCEPT ![o] = n] /\ holder' = holder
  BY DEF Rename
<1>2. links'.pparent = [links.pparent EXCEPT ![o] = p]
  BY RenamedTree
<1>3. /\ links \in Tables /\ Rooted(links) /\ Living(links, alive) /\ alive \in SUBSET Children
      /\ name \in [Children -> Names \cup {Nil}] /\ Parents = Children \cup {Root}
  BY PointersSound, ObjectTreeAssumption DEF IInv, Types
<1>4. o \in Seen!Exist(links.pparent)
  BY <1>3, SeenLiving
<1>5. Seen!Sound(links'.pparent, name')
  BY LinksThen
<1>6. name'[o] = n
  BY <1>1, <1>3
<1>7. /\ Visible.parent = links.pparent /\ Visible.name = name /\ Visible.holder = holder
      /\ Visible'.parent = links'.pparent /\ Visible'.name = name' /\ Visible'.holder = holder'
  BY <1>1, WhatIsSeen
<1>8. Seen!Rename(o, p, Visible'.name[o])
  BY <1>1, <1>2, <1>4, <1>5, <1>6, <1>7 DEF Seen!Rename
<1> QED
  BY <1>3, <1>8

LEMMA HoldSeen ==
  ASSUME IInv, NEW u \in Holders, NEW t \in Held, Hold(u, t), stack = <<>>, Running, Running'
  PROVE  Seen!Link(u, t)
<1>1. /\ {u, t} \subseteq alive /\ holder[t] = Nil /\ holder' = [holder EXCEPT ![t] = u]
      /\ UNCHANGED <<alive, links, name, started, stack, before>>
  BY DEF Hold, MayLink
<1>2. /\ links \in Tables /\ Rooted(links) /\ Living(links, alive) /\ alive \in SUBSET Children
  BY PointersSound DEF IInv, Types
<1>3. Seen!Exist(links.pparent) = alive
  BY <1>2, SeenLiving
<1>4. /\ Visible.parent = links.pparent /\ Visible.name = name /\ Visible.holder = holder
      /\ Visible'.parent = links'.pparent /\ Visible'.name = name' /\ Visible'.holder = holder'
  BY <1>1, WhatIsSeen
<1> QED
  BY <1>1, <1>3, <1>4 DEF Seen!Link

LEMMA LetGoSeen ==
  ASSUME NEW u \in Holders, NEW t \in Held, LetGo(u, t), Running, Running'
  PROVE  Seen!Unlink(t)
<1>1. /\ stack = <<>> /\ holder' = [holder EXCEPT ![t] = Nil]
      /\ UNCHANGED <<alive, links, name, started, stack, before>>
  BY DEF LetGo
<1>2. /\ Visible.parent = links.pparent /\ Visible.name = name /\ Visible.holder = holder
      /\ Visible'.parent = links'.pparent /\ Visible'.name = name' /\ Visible'.holder = holder'
  BY <1>1, WhatIsSeen
<1> QED
  BY <1>1, <1>2 DEF Seen!Unlink

----------------------------------------------------------------------------
(* In the middle of calls, and when the first one is made, nothing is      *)
(* seen.                                                                   *)
LEMMA NothingSeen ==
  ASSUME Running, stack' # <<>>, before' = IF stack = <<>> THEN Tree ELSE before
  PROVE  UNCHANGED Seen!vars
<1>1. Visible' = Visible
  BY DEF Visible
<1> QED
  BY <1>1 DEF Seen!vars

LEMMA CallNotEmpty == \A s, o, at : Calling(s, o, at) # <<>>
BY DEF Calling

SeenStep == Seen!Next \/ UNCHANGED Seen!vars

LEMMA ProgressSeen ==
  ASSUME IInv, IInv', Seeing, Running, Running', Progress
  PROVE  Seeing' /\ SeenStep
<1>1. stack # <<>>
  BY DEF Progress, CreateFails, CreateSucceeds, ShutdownReturns, CleanChild, Free
<1>2. CASE CreateFails \/ ShutdownReturns
  <2>1. Proceed /\ UNCHANGED <<alive, links, name>>
    BY <1>2 DEF CreateFails, ShutdownReturns
  <2>2. Seeing'
    BY <1>1, <2>1, AloneSeeing
  <2>3. stack' # <<>> /\ before' = before
    BY <1>1, <2>1, TopFrame DEF Proceed, IInv, Frames
  <2> QED
    BY <1>1, <2>2, <2>3, NothingSeen DEF SeenStep
<1>3. CASE CreateSucceeds
  <2>1. Return /\ UNCHANGED <<alive, links, holder, name>>
    BY <1>3 DEF CreateSucceeds
  <2>2. CASE stack' = <<>>
    <3>1. Seeing'
      BY <2>1, <2>2 DEF Seeing
    <3>2. \E o \in Children : Seen!Create(o)
      BY <1>3, <2>2, CreatedSeen
    <3> QED
      BY <3>1, <3>2 DEF SeenStep, Seen!Next
  <2>3. CASE stack' # <<>>
    <3>1. before' = before
      BY <1>1, <2>1, <2>3, Popped DEF Return, IInv, Frames
    <3> QED
      BY <1>1, <2>1, <2>3, <3>1, PoppedSeeing, NothingSeen DEF SeenStep
  <2> QED
    BY <2>2, <2>3
<1>4. CASE CleanChild
  <2> DEFINE c == links.pfirst[Top.obj]
  <2>1. /\ c # Nil /\ Call(c, "shutdown") /\ UNCHANGED <<alive, links, holder, name>>
    BY <1>4 DEF CleanChild
  <2>2. Top.obj \in Parents /\ Top.obj # Nil
    BY <1>1, FirstAbove, ObjectsFinite
  <2>3. links \in Tables /\ Living(links, alive) /\ HeadsAgree(links)
    BY PointersSound DEF IInv, Sound
  <2>4. c \in alive
    BY <2>1, <2>2, <2>3 DEF Tables, LinkTables, HeadsAgree, Living
  <2> HIDE DEF c
  <2>5. stack' # <<>> /\ before' = before
    BY <1>1, <2>1, CallNotEmpty DEF Call
  <2> QED
    BY <1>1, <2>1, <2>4, <2>5, CallSeeing, NothingSeen DEF SeenStep
<1>5. CASE Free
  <2>1. CASE stack' = <<>>
    <3>1. (\E o \in Children : Seen!Delete(o)) \/ UNCHANGED Seen!vars
      BY <1>5, <2>1, FreedSeen
    <3>2. Seeing'
      <4>1. name \in [Children -> Names \cup {Nil}] /\ alive' = alive \ {Top.obj}
            /\ name' = [name EXCEPT ![Top.obj] = Nil]
        BY <1>5 DEF IInv, Types, Free
      <4>2. Nameless(alive', name')
        BY <4>1 DEF Seeing, Nameless
      <4> QED
        BY <2>1, <4>2 DEF Seeing
    <3> QED
      BY <3>1, <3>2 DEF SeenStep, Seen!Next
  <2>2. CASE stack' # <<>>
    <3>1. before' = before
      BY <1>1, <1>5, <2>2, Popped DEF Free, Return, IInv, Frames
    <3> QED
      BY <1>1, <1>5, <2>2, <3>1, FreeSeeing, NothingSeen DEF SeenStep
  <2> QED
    BY <2>1, <2>2
<1> QED
  BY <1>2, <1>3, <1>4, <1>5 DEF Progress

LEMMA CallsSeen ==
  ASSUME IInv, IInv', Seeing, Running, Running', Calls
  PROVE  Seeing' /\ SeenStep
<1>1. CASE Progress
  BY <1>1, ProgressSeen
<1>2. ASSUME NEW o \in Children, Delete(o)
      PROVE  Seeing' /\ SeenStep
  <2>1. /\ MayDelete(o) /\ Call(o, "shutdown") /\ UNCHANGED <<alive, links, holder, name>>
    BY <1>2 DEF Delete
  <2>2. o \in alive
    <3>1. CASE stack = <<>>
      BY <2>1, <3>1 DEF MayDelete
    <3>2. CASE stack # <<>>
      BY <2>1, <3>2, FirstAbove, BelowLiving DEF MayDelete
    <3> QED
      BY <3>1, <3>2
  <2>3. stack' # <<>> /\ before' = IF stack = <<>> THEN Tree ELSE before
    BY <2>1, CallNotEmpty DEF Call
  <2> QED
    BY <2>1, <2>2, <2>3, CallSeeing, NothingSeen DEF SeenStep
<1>3. ASSUME NEW u \in Holders, NEW t \in Held, Hold(u, t)
      PROVE  Seeing' /\ SeenStep
  <2>1. Seeing'
    BY <1>3, HoldSeeing
  <2>2. CASE stack = <<>>
    BY <1>3, <2>1, <2>2, HoldSeen DEF SeenStep, Seen!Next
  <2>3. CASE stack # <<>>
    BY <1>3, <2>1, <2>3, NothingSeen DEF SeenStep, Hold
  <2> QED
    BY <2>2, <2>3
<1>4. ASSUME NEW u \in Holders, NEW t \in Held, LetGo(u, t)
      PROVE  Seeing' /\ SeenStep
  <2>1. Seeing'
    BY <1>4 DEF LetGo, Seeing
  <2> QED
    BY <1>4, <2>1, LetGoSeen DEF SeenStep, Seen!Next
<1>5. ASSUME NEW c \in Children \ alive, NEW p \in Parents, NEW n \in Names, NEW place \in Place(Children),
             Create(p, c, n, place)
      PROVE  Seeing' /\ SeenStep
  <2>1. Seeing'
    BY <1>5, CreateSeeing
  <2>2. stack' # <<>> /\ before' = IF stack = <<>> THEN Tree ELSE before
    BY <1>5, CallNotEmpty DEF Create, Call
  <2> QED
    BY <2>1, <2>2, NothingSeen DEF SeenStep
<1> QED
  BY <1>1, <1>2, <1>3, <1>4, <1>5 DEF Calls

(* An abort shows nothing.                                                 *)
Watched == Running => Seeing

LEMMA NextSeen ==
  ASSUME Kept, Kept', Watched, [Next]_vars
  PROVE  Watched' /\ SeenStep
<1>1. CASE Running /\ Calls /\ UNCHANGED lost
  <2>1. Running' /\ IInv /\ IInv' /\ Seeing
    BY <1>1 DEF Running, Kept, Watched
  <2> QED
    BY <1>1, <2>1, CallsSeen DEF Watched
<1>2. CASE Running /\ Renames
  <2>1. IInv /\ Seeing
    BY <1>2 DEF Kept, Watched
  <2>2. PICK o \in alive, p \in Parents, n \in Names, place \in Place(Children) : Rename(o, p, n, place)
    BY <1>2 DEF Renames
  <2>3. CASE Refused(o, p, n, place)
    <3>1. ~Running'
      BY <2>1, <2>2, <2>3, RefusedKeeps
    <3>2. stack = <<>> /\ before' = Tree
      BY <2>2, <2>3 DEF Rename
    <3>3. Visible' = Visible
      BY <1>2, <3>1, <3>2 DEF Visible
    <3> QED
      BY <3>1, <3>3 DEF Watched, SeenStep, Seen!vars
  <2>4. CASE ~Refused(o, p, n, place)
    <3>1. Running' /\ IInv'
      BY <1>2, <2>2, <2>4 DEF Rename, Running, Kept
    <3>2. Seeing'
      BY <2>1, <2>2, <2>4 DEF Rename, Seeing, Nameless, IInv, Types
    <3>3. \E d \in Children, q \in Children \cup {Root} : Seen!Rename(d, q, Visible'.name[d])
      BY <1>2, <2>1, <2>2, <2>4, <3>1, RenamedSeen
    <3> QED
      BY <3>2, <3>3 DEF SeenStep, Seen!Next, Watched
  <2> QED
    BY <2>3, <2>4
<1>3. CASE UNCHANGED vars
  <2>1. UNCHANGED <<alive, links, holder, name, started, stack, before, lost>>
    BY <1>3 DEF vars
  <2>2. Watched'
    BY <2>1 DEF Watched, Seeing, Running
  <2>3. UNCHANGED Seen!vars
    BY <2>1 DEF Seen!vars, Visible, Tree, Running
  <2> QED
    BY <2>2, <2>3 DEF SeenStep
<1> QED
  BY <1>1, <1>2, <1>3 DEF Next, Aborted

(* Seen between the calls of clients, to create, delete, move, link and    *)
(* unlink objects are single steps: a creation that fails leaves nothing   *)
(* behind, a deletion takes what is below and its links and no more,       *)
(* whatever the methods called meanwhile create, link and delete.          *)
THEOREM HierarchyImplemented == Spec => ImplementsHierarchy
<1>1. Init => Kept /\ Watched /\ Seen!Init
  <2> SUFFICES ASSUME Init
               PROVE  Kept /\ Watched /\ Seen!Init
    OBVIOUS
  <2>1. Seeing
    BY DEF Init, Seeing, Nameless, NoTree
  <2>2. Kept
    BY InitInvariant DEF Kept, Running, Init
  <2> QED
    BY <2>1, <2>2, InitSeen DEF Watched
<1>2. Kept /\ [Next]_vars => Kept'
  BY NextKeeps
<1>3. Kept /\ Kept' /\ Watched /\ [Next]_vars => Watched' /\ [Seen!Next]_(Seen!vars)
  BY NextSeen DEF SeenStep
<1> QED
  BY <1>1, <1>2, <1>3, PTL DEF Spec, ImplementsHierarchy, Seen!Spec
=============================================================================
