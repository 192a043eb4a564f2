---------------------------- MODULE IdListProofs ----------------------------
(***************************************************************************)
(* Theorems about the list of ids (module IdList): the nodes are sound,    *)
(* and they implement the map from ids to objects (module IdMap), for any  *)
(* number of nodes of any size, whatever was related and released before,  *)
(* and through failed allocations.                                         *)
(***************************************************************************)
EXTENDS IdList, SequenceTheorems, FiniteSetTheorems, TLAPS

(* The lemmas about numbers and sequences; those about the pointers of     *)
(* associations are not used.                                              *)
General == INSTANCE Lemmas

(* Removal from a sequence closes the gap.                                 *)
LEMMA RemoveAtProperties ==
  ASSUME NEW S, NEW s \in Seq(S), NEW i \in 1..Len(s)
  PROVE  /\ RemoveAt(s, i) \in Seq(S)
         /\ Len(RemoveAt(s, i)) = Len(s) - 1
         /\ \A j \in 1..Len(s)-1 : RemoveAt(s, i)[j] = IF j < i THEN s[j] ELSE s[j+1]
<1>1. RemoveAt(s, i) = General!RemoveAt(s, i)
  BY DEF RemoveAt, General!RemoveAt
<1> QED
  BY <1>1, General!RemoveAtProperties

Ascending(r) == \A i, j \in 1..Len(r) : i < j => r[i] < r[j]

(* What a node x holds: ids below top, between its minId and its maxId.    *)
(* A node that could not be entered into the array may hold nothing, and   *)
(* its minId was given to nobody; exact tells that there was none.         *)
Holds(x, top, exact) ==
  /\ Ascending(x.relations)
  /\ x.minId < top
  /\ x.relations # <<>> =>
       /\ x.minId <= x.relations[1]
       /\ exact => x.minId = x.relations[1]
       /\ x.maxId = x.relations[Len(x.relations)]
       /\ x.maxId < top

Half(x) == 2 * Len(x.relations) >= Chunk

Has(x, id) == \E j \in 1..Len(x.relations) : x.relations[j] = id

(* A list of nodes ch with the fields nd, and the array ar.                *)
Tables(ch, nd) ==
  /\ ch \in Seq(Nodes) /\ ch # <<>>
  /\ nd \in [Nodes -> Node]
  /\ \A n \in Nodes : Len(nd[n].relations) <= Chunk

Numbered(ch, nd, ar) ==
  /\ \A i \in 1..Len(ch) : nd[ch[i]].nodeNumber = i
  /\ ar = Nil \/ ar \in [1..MaxNodes -> Nodes \cup {Nil}]
  /\ ar # Nil => \A i \in 1..Len(ch) : ar[i] = ch[i]

(* The nodes hold something, but for a last one that is in no array; all   *)
(* ids of one are below all those of the next; and of two neighbours one   *)
(* is half full.                                                           *)
Kept(ch, nd, ar, top, exact) ==
  /\ \A i \in 1..Len(ch) : Holds(nd[ch[i]], top, exact)
  /\ \A i \in 1..Len(ch) : nd[ch[i]].relations = <<>> => ar = Nil /\ i = Len(ch)
  /\ \A i, j \in 1..Len(ch) : i < j => nd[ch[i]].maxId < nd[ch[j]].minId
  /\ \A i, j \in 1..Len(ch) : j = i + 1 => Half(nd[ch[i]]) \/ Half(nd[ch[j]])

Sound(ch, nd, ar, top, exact) ==
  Tables(ch, nd) /\ Numbered(ch, nd, ar) /\ Kept(ch, nd, ar, top, exact)

KnownOf(ch, nd) == UNION {ToSet(nd[n].relations) : n \in ToSet(ch)}

Types ==
  /\ counter \in Nat /\ counter <= MaxId + 1
  /\ room \in Nat
  /\ nodeCount = Len(chain)
  /\ pLast = chain[Len(chain)]
  /\ maxId \in Ids
  /\ purpose \in {"find", "release"}
  /\ found \in BOOLEAN
  /\ damaged \in BOOLEAN

(* The first ids are always there, so that there is a node and maxId is    *)
(* not 0.                                                                  *)
Whole ==
  /\ 0..Permanent - 1 \subseteq KnownOf(chain, node)
  /\ pNodes = Nil => damaged
  /\ pNodes # Nil => maxId = node[pLast].maxId

(* A search has an array, and when it leaves the list there was nothing to *)
(* find.                                                                   *)
Searching ==
  /\ goal \in Ids \cup {Nobody}
  /\ cursor \in Nodes \cup {Nil}
  /\ goal # Nobody =>
       /\ pNodes # Nil
       /\ cursor = Nil => goal \notin KnownOf(chain, node)
       /\ cursor # Nil => \E i \in 1..Len(chain) : cursor = chain[i]
       /\ purpose = "release" => goal >= Permanent

IInv == Types /\ Sound(chain, node, pNodes, counter, ~damaged) /\ Whole /\ Searching

----------------------------------------------------------------------------
LEMMA ChunkSize == Chunk \in Nat /\ Chunk >= 4 /\ Chunk % 2 = 0
BY IdListAssumption

LEMMA IdsAreNaturals == Ids \subseteq Nat /\ MaxId \in Nat
BY IdListAssumption DEF Ids

(* The elements of a node of ids.                                          *)
LEMMA NodeTypes ==
  ASSUME NEW x \in Node
  PROVE  /\ x.relations \in Seq(Ids) /\ Len(x.relations) \in Nat
         /\ \A j \in 1..Len(x.relations) : x.relations[j] \in Ids
         /\ x.relations = <<>> <=> Len(x.relations) = 0
         /\ x.minId \in Ids /\ x.maxId \in Ids /\ x.nodeNumber \in 0..MaxNodes
<1>1. x.relations \in Seq(Ids) /\ x.minId \in Ids /\ x.maxId \in Ids /\ x.nodeNumber \in 0..MaxNodes
  BY DEF Node
<1>2. /\ Len(x.relations) \in Nat
      /\ \A j \in 1..Len(x.relations) : x.relations[j] \in Ids
  BY <1>1, LenProperties, ElementOfSeq
<1>3. x.relations = <<>> <=> Len(x.relations) = 0
  BY <1>1, EmptySeq
<1> QED
  BY <1>1, <1>2, <1>3

(* The nodes of the list.                                                  *)
LEMMA ListTypes ==
  ASSUME NEW ch, NEW nd, Tables(ch, nd)
  PROVE  /\ Len(ch) \in Nat /\ Len(ch) >= 1 /\ Len(ch) \in 1..Len(ch)
         /\ ch \in [1..Len(ch) -> Nodes]
         /\ \A i \in 1..Len(ch) : ch[i] \in Nodes /\ nd[ch[i]] \in Node
<1>1. Len(ch) \in Nat /\ Len(ch) >= 1 /\ ch \in [1..Len(ch) -> Nodes]
  BY LenProperties, EmptySeq DEF Tables
<1> QED
  BY <1>1 DEF Tables

(* An id is known if some node of the list has it.                         *)
LEMMA KnownIs ==
  ASSUME NEW ch, NEW nd, Tables(ch, nd)
  PROVE  \A id : id \in KnownOf(ch, nd) <=> \E i \in 1..Len(ch) : Has(nd[ch[i]], id)
<1>1. DOMAIN ch = 1..Len(ch)
  BY LenProperties DEF Tables
<1>2. \A i \in 1..Len(ch) : nd[ch[i]] \in Node
  BY ListTypes
<1>3. \A i \in 1..Len(ch) : DOMAIN nd[ch[i]].relations = 1..Len(nd[ch[i]].relations)
  BY <1>2, NodeTypes, LenProperties
<1> DEFINE held(i) == {nd[ch[i]].relations[j] : j \in 1..Len(nd[ch[i]].relations)}
<1>4. KnownOf(ch, nd) = UNION {held(i) : i \in 1..Len(ch)}
  BY <1>1, <1>3 DEF ToSet, KnownOf
<1> SUFFICES ASSUME NEW id
             PROVE  id \in KnownOf(ch, nd) <=> \E i \in 1..Len(ch) : Has(nd[ch[i]], id)
  OBVIOUS
<1>5. \A i \in 1..Len(ch) : id \in held(i) <=> Has(nd[ch[i]], id)
  BY DEF Has
<1> HIDE DEF held
<1>6. id \in UNION {held(i) : i \in 1..Len(ch)} <=> \E i \in 1..Len(ch) : id \in held(i)
  OBVIOUS
<1> QED
  BY <1>4, <1>5, <1>6

(* The numbers tell the nodes apart.                                       *)
LEMMA NumbersDiffer ==
  ASSUME NEW ch, NEW nd, NEW ar, Tables(ch, nd), Numbered(ch, nd, ar)
  PROVE  \A i, j \in 1..Len(ch) : ch[i] = ch[j] => i = j
BY DEF Numbered

LEMMA PlaceIs ==
  ASSUME IInv
  PROVE  \A i \in 1..Len(chain) : Place(chain[i]) = i
<1>1. \A i, j \in 1..Len(chain) : chain[i] = chain[j] => i = j
  BY NumbersDiffer DEF IInv, Sound
<1> TAKE i \in 1..Len(chain)
<1>2. Place(chain[i]) \in 1..Len(chain) /\ chain[Place(chain[i])] = chain[i]
  BY Zenon DEF Place
<1> QED
  BY <1>1, <1>2

(* There are as many numbers as there are nodes at most.                   *)
LEMMA ListFits ==
  ASSUME NEW ch, NEW nd, NEW ar, Tables(ch, nd), Numbered(ch, nd, ar)
  PROVE  /\ Len(ch) <= MaxNodes /\ MaxNodes \in Nat
         /\ ToSet(ch) # Nodes => Len(ch) < MaxNodes
<1>1. IsFiniteSet(Nodes) /\ MaxNodes \in Nat
  BY IdListAssumption, FS_CardinalityType DEF MaxNodes
<1>2. ch \in [1..Len(ch) -> Nodes] /\ Len(ch) \in Nat /\ Len(ch) >= 1
  BY ListTypes
<1>3. ch \in Injection(1..Len(ch), Nodes)
  BY <1>2, NumbersDiffer DEF Injection, IsInjective
<1>4. IsFiniteSet(1..Len(ch)) /\ Cardinality(1..Len(ch)) = Len(ch)
  BY <1>2, FS_Interval
<1>5. /\ Cardinality(1..Len(ch)) <= Cardinality(Nodes)
      /\ Cardinality(1..Len(ch)) = Cardinality(Nodes) <=> ch \in Surjection(1..Len(ch), Nodes)
  BY <1>1, <1>3, FS_Injection
<1>6. ch \in Surjection(1..Len(ch), Nodes) => ToSet(ch) = Nodes
  BY <1>2 DEF Surjection, ToSet
<1> QED
  BY <1>1, <1>2, <1>4, <1>5, <1>6 DEF MaxNodes

----------------------------------------------------------------------------
(* The bisection: the bounds keep id between them, if it is there at all,  *)
(* and get closer until they are neighbours.                               *)
Interval(r) == (1..Len(r)) \X (1..Len(r))

Between(r, id, p) ==
  /\ p \in Interval(r) /\ p[1] <= p[2]
  /\ \A j \in 1..Len(r) : r[j] = id => p[1] <= j /\ j <= p[2]

LEMMA HalvedCloser ==
  ASSUME NEW r \in Seq(Ids), Ascending(r), NEW id \in Ids, NEW p, Between(r, id, p)
  PROVE  /\ Between(r, id, Halved(r, id, p))
         /\ p[2] - p[1] > 1 => Halved(r, id, p)[2] - Halved(r, id, p)[1] < p[2] - p[1]
<1> DEFINE mid == (p[2] - p[1]) \div 2 + p[1]
<1>1. Len(r) \in Nat /\ \A j \in 1..Len(r) : r[j] \in Nat
  BY LenProperties, ElementOfSeq, IdsAreNaturals
<1>2. p = <<p[1], p[2]>> /\ p[1] \in 1..Len(r) /\ p[2] \in 1..Len(r) /\ p[1] <= p[2]
  BY DEF Between, Interval
<1>3. id \in Nat
  BY IdsAreNaturals
<1>4. /\ mid \in Int /\ p[1] <= mid /\ mid <= p[2] /\ mid \in 1..Len(r)
      /\ p[2] - p[1] > 1 => p[1] < mid /\ mid < p[2]
  BY <1>1, <1>2
<1> HIDE DEF mid
<1>5. CASE id > r[mid]
  <2>1. Halved(r, id, p) = <<mid, p[2]>>
    BY <1>1, <1>3, <1>4, <1>5 DEF Halved, mid
  <2>2. \A j \in 1..Len(r) : r[j] = id => mid <= j
    BY <1>1, <1>3, <1>4, <1>5 DEF Ascending
  <2> QED
    BY <1>1, <1>2, <1>4, <2>1, <2>2 DEF Between, Interval
<1>6. CASE id < r[mid]
  <2>1. Halved(r, id, p) = <<p[1], mid>>
    BY <1>1, <1>3, <1>4, <1>6 DEF Halved, mid
  <2>2. \A j \in 1..Len(r) : r[j] = id => j <= mid
    BY <1>1, <1>3, <1>4, <1>6 DEF Ascending
  <2> QED
    BY <1>1, <1>2, <1>4, <2>1, <2>2 DEF Between, Interval
<1>7. CASE id = r[mid]
  <2>1. Halved(r, id, p) = <<mid, mid>>
    BY <1>1, <1>3, <1>4, <1>7 DEF Halved, mid
  <2>2. \A j \in 1..Len(r) : r[j] = id => j = mid
    BY <1>1, <1>3, <1>4, <1>7 DEF Ascending
  <2> QED
    BY <1>1, <1>2, <1>4, <2>1, <2>2 DEF Between, Interval
<1> QED
  BY <1>1, <1>3, <1>4, <1>5, <1>6, <1>7

(* One pass, and the sequence of the bounds after each pass.               *)
Pass(r, id) ==
  [p \in Interval(r) |-> IF p[2] - p[1] > 1 THEN Halved(r, id, p) ELSE p]

Passes(r, id, f) ==
  f = [k \in 0..Len(r) |-> IF k = 0 THEN Halved(r, id, <<1, Len(r)>>)
                           ELSE Pass(r, id)[f[k - 1]]]

LEMMA BoundsAre ==
  ASSUME NEW r, NEW id, NEW g, Passes(r, id, g)
  PROVE  Passes(r, id, Bounds(r, id))
<1> DEFINE pass == [p \in (1..Len(r)) \X (1..Len(r)) |->
                      IF p[2] - p[1] > 1 THEN Halved(r, id, p) ELSE p]
           f == CHOOSE f : f = [k \in 0..Len(r) |->
                  IF k = 0 THEN Halved(r, id, <<1, Len(r)>>) ELSE pass[f[k - 1]]]
<1>1. g = [k \in 0..Len(r) |-> IF k = 0 THEN Halved(r, id, <<1, Len(r)>>) ELSE pass[g[k - 1]]]
  BY Zenon DEF Passes, Pass, Interval
<1>2. f = [k \in 0..Len(r) |-> IF k = 0 THEN Halved(r, id, <<1, Len(r)>>) ELSE pass[f[k - 1]]]
  BY <1>1, Zenon
<1>3. Bounds(r, id) = f
  BY Zenon DEF Bounds
<1>4. Passes(r, id, f)
  <2> HIDE DEF f
  <2> QED
    BY <1>2, Zenon DEF Passes, Pass, Interval
<1> QED
  BY <1>3, <1>4

LEMMA PassesExist ==
  ASSUME NEW r \in Seq(Ids), r # <<>>, Ascending(r), NEW id \in Ids
  PROVE  \E f : Passes(r, id, f)
<1> DEFINE T == {p \in Interval(r) : Between(r, id, p)}
           h == [p \in T |-> Pass(r, id)[p]]
           x == Halved(r, id, <<1, Len(r)>>)
<1>1. Len(r) \in Nat /\ Len(r) >= 1
  BY LenProperties, EmptySeq
<1>2. Between(r, id, <<1, Len(r)>>)
  BY <1>1 DEF Between, Interval
<1>3. x \in T
  BY <1>2, HalvedCloser DEF Between
<1>4. \A p \in T : h[p] \in T
  <2> TAKE p \in T
  <2>1. h[p] = IF p[2] - p[1] > 1 THEN Halved(r, id, p) ELSE p
    BY DEF Pass
  <2> QED
    BY <2>1, HalvedCloser DEF Between
<1> HIDE DEF T, h, x
<1>5. PICK f : General!Iterates(f, T, h, x, Len(r))
  BY <1>1, <1>3, <1>4, General!IteratesExist
<1>6. \A k \in 1..Len(r) : f[k] = Pass(r, id)[f[k - 1]]
  <2> TAKE k \in 1..Len(r)
  <2>1. f[k] = h[f[k - 1]] /\ f[k - 1] \in T
    BY <1>1, <1>5 DEF General!Iterates
  <2> QED
    BY <2>1 DEF h
<1>7. f = [k \in 0..Len(r) |-> IF k = 0 THEN x ELSE Pass(r, id)[f[k - 1]]]
  BY <1>1, <1>5, <1>6 DEF General!Iterates
<1> QED
  BY <1>7 DEF Passes, x

(* After as many passes as there are relations the bounds are neighbours.  *)
LEMMA BoundsNarrow ==
  ASSUME NEW r \in Seq(Ids), r # <<>>, Ascending(r), NEW id \in Ids
  PROVE  LET p == Bounds(r, id)[Len(r)] IN Between(r, id, p) /\ p[2] - p[1] <= 1
<1> DEFINE f == Bounds(r, id)
           S == {k \in Nat : k <= Len(r) =>
                   Between(r, id, f[k]) /\ (f[k][2] - f[k][1] <= 1 \/ f[k][2] - f[k][1] <= Len(r) - k)}
<1>1. Len(r) \in Nat /\ Len(r) >= 1
  BY LenProperties, EmptySeq
<1>2. Passes(r, id, f)
  BY PassesExist, BoundsAre
<1> HIDE DEF f
<1>3. f[0] = Halved(r, id, <<1, Len(r)>>) /\ \A k \in 1..Len(r) : f[k] = Pass(r, id)[f[k - 1]]
  <2> DEFINE body(k) == IF k = 0 THEN Halved(r, id, <<1, Len(r)>>) ELSE Pass(r, id)[f[k - 1]]
  <2>1. f = [k \in 0..Len(r) |-> body(k)]
    BY <1>2, Zenon DEF Passes
  <2> HIDE DEF body
  <2>2. \A k \in 0..Len(r) : f[k] = body(k)
    BY <2>1
  <2>3. 0 \in 0..Len(r) /\ \A k \in 1..Len(r) : k \in 0..Len(r) /\ k # 0
    BY <1>1
  <2> QED
    BY <2>2, <2>3 DEF body
<1>4. \A p : Between(r, id, p) => p[1] \in Int /\ p[2] \in Int /\ p[2] - p[1] <= Len(r) - 1
  BY <1>1 DEF Between, Interval
<1>5. 0 \in S
  <2>1. Between(r, id, <<1, Len(r)>>)
    BY <1>1 DEF Between, Interval
  <2>2. Between(r, id, f[0])
    BY <1>3, <2>1, HalvedCloser
  <2>3. f[0][2] - f[0][1] <= Len(r) - 1 /\ f[0][1] \in Int /\ f[0][2] \in Int
    BY <1>4, <2>2
  <2> QED
    BY <1>1, <2>2, <2>3
<1>6. ASSUME NEW k \in Nat, k \in S
      PROVE  k + 1 \in S
  <2> SUFFICES ASSUME k + 1 <= Len(r)
               PROVE  /\ Between(r, id, f[k + 1])
                      /\ f[k + 1][2] - f[k + 1][1] <= 1 \/ f[k + 1][2] - f[k + 1][1] <= Len(r) - (k + 1)
    OBVIOUS
  <2> DEFINE p == f[k]
  <2>1. Between(r, id, p) /\ (p[2] - p[1] <= 1 \/ p[2] - p[1] <= Len(r) - k)
    BY <1>1, <1>6
  <2>2. p \in Interval(r) /\ p[1] \in Int /\ p[2] \in Int
    BY <1>4, <2>1 DEF Between
  <2>3. f[k + 1] = IF p[2] - p[1] > 1 THEN Halved(r, id, p) ELSE p
    <3>1. k + 1 \in 1..Len(r) /\ (k + 1) - 1 = k
      BY <1>1
    <3>2. f[k + 1] = Pass(r, id)[f[k]]
      BY <1>3, <3>1
    <3> QED
      BY <2>2, <3>2 DEF Pass
  <2> HIDE DEF p
  <2>4. CASE p[2] - p[1] > 1
    <3>1. /\ Between(r, id, f[k + 1])
          /\ f[k + 1][2] - f[k + 1][1] < p[2] - p[1]
      BY <2>1, <2>3, <2>4, HalvedCloser
    <3>2. f[k + 1][2] \in Int /\ f[k + 1][1] \in Int
      BY <1>4, <3>1
    <3> QED
      BY <1>1, <2>1, <2>2, <2>4, <3>1, <3>2
  <2>5. CASE ~(p[2] - p[1] > 1)
    BY <2>1, <2>2, <2>3, <2>5
  <2> QED
    BY <2>4, <2>5
<1> HIDE DEF S
<1>7. Len(r) \in S
  BY <1>1, <1>5, <1>6, General!AllNumbers
<1>8. Between(r, id, f[Len(r)]) /\ f[Len(r)][2] - f[Len(r)][1] <= 1
  <2>1. Between(r, id, f[Len(r)]) /\ (f[Len(r)][2] - f[Len(r)][1] <= 1 \/ f[Len(r)][2] - f[Len(r)][1] <= Len(r) - Len(r))
    BY <1>1, <1>7 DEF S
  <2>2. f[Len(r)][2] \in Int /\ f[Len(r)][1] \in Int
    BY <1>4, <2>1
  <2> QED
    BY <1>1, <2>1, <2>2
<1> QED
  BY <1>8 DEF f

(* So the index is that of id, or 0 if it is not there.                    *)
LEMMA IndexRight ==
  ASSUME NEW r \in Seq(Ids), r # <<>>, Ascending(r), NEW id \in Ids
  PROVE  LET i == RelationIndex(r, id)
         IN  IF \E j \in 1..Len(r) : r[j] = id THEN i \in 1..Len(r) /\ r[i] = id ELSE i = 0
<1> DEFINE p == Bounds(r, id)[Len(r)]
           low == p[1]
<1>1. Between(r, id, p) /\ p[2] - p[1] <= 1
  BY BoundsNarrow
<1> HIDE DEF p
<1>2. Len(r) \in Nat /\ low \in 1..Len(r) /\ p[2] \in 1..Len(r) /\ p[2] - low <= 1
  BY <1>1, LenProperties DEF Between, Interval
<1>3. RelationIndex(r, id) =
        CASE r[low] = id -> low
          [] r[low] # id /\ low < Len(r) /\ r[low + 1] = id -> low + 1
          [] OTHER -> 0
  BY <1>2 DEF RelationIndex, p
<1>4. \A j \in 1..Len(r) : r[j] = id => j = low \/ j = low + 1
  BY <1>1, <1>2 DEF Between
<1> QED
  BY <1>2, <1>3, <1>4

----------------------------------------------------------------------------
(* The ids of a node lie between its minId and its maxId.                  *)
LEMMA HeldBetween ==
  ASSUME NEW x \in Node, NEW top \in Nat, NEW m \in BOOLEAN, Holds(x, top, m), NEW id, Has(x, id)
  PROVE  id \in Nat /\ x.minId <= id /\ id <= x.maxId /\ id < top /\ x.relations # <<>>
<1>1. PICK j \in 1..Len(x.relations) : x.relations[j] = id
  BY DEF Has
<1>2. /\ Len(x.relations) \in Nat /\ x.minId \in Nat /\ x.maxId \in Nat
      /\ \A k \in 1..Len(x.relations) : x.relations[k] \in Nat
      /\ x.relations = <<>> <=> Len(x.relations) = 0
  BY NodeTypes, IdsAreNaturals
<1>3. x.relations[1] <= id /\ id <= x.relations[Len(x.relations)]
  <2>1. 1 = j \/ 1 < j
    BY <1>2
  <2>2. j = Len(x.relations) \/ j < Len(x.relations)
    BY <1>2
  <2>3. 1 \in 1..Len(x.relations) /\ Len(x.relations) \in 1..Len(x.relations)
    BY <1>2
  <2> QED
    BY <1>1, <1>2, <2>1, <2>2, <2>3 DEF Holds, Ascending
<1> QED
  BY <1>1, <1>2, <1>3 DEF Holds

(* All ids that are known were given out.                                  *)
LEMMA KnownBelow ==
  ASSUME NEW ch, NEW nd, NEW ar, NEW top \in Nat, NEW m \in BOOLEAN, Sound(ch, nd, ar, top, m)
  PROVE  \A id \in KnownOf(ch, nd) : id \in Ids /\ id < top
<1> SUFFICES ASSUME NEW id \in KnownOf(ch, nd)
             PROVE  id \in Ids /\ id < top
  OBVIOUS
<1>1. PICK i \in 1..Len(ch) : Has(nd[ch[i]], id)
  BY KnownIs DEF Sound
<1>2. nd[ch[i]] \in Node /\ Holds(nd[ch[i]], top, m)
  BY ListTypes DEF Kept, Sound
<1>3. id < top
  BY <1>1, <1>2, HeldBetween
<1> QED
  BY <1>1, <1>2, <1>3, NodeTypes DEF Has

(* A node whose bounds include an id has it if any node has.               *)
LEMMA OnlyOneHas ==
  ASSUME NEW ch, NEW nd, NEW ar, NEW top \in Nat, NEW m \in BOOLEAN, Sound(ch, nd, ar, top, m),
         NEW i \in 1..Len(ch), NEW id \in Nat, nd[ch[i]].minId <= id, id <= nd[ch[i]].maxId
  PROVE  id \in KnownOf(ch, nd) <=> Has(nd[ch[i]], id)
<1> SUFFICES ASSUME NEW j \in 1..Len(ch), Has(nd[ch[j]], id)
             PROVE  j = i
  BY KnownIs DEF Sound
<1>1. /\ nd[ch[i]] \in Node /\ nd[ch[j]] \in Node /\ Holds(nd[ch[j]], top, m)
      /\ \A k, l \in 1..Len(ch) : k < l => nd[ch[k]].maxId < nd[ch[l]].minId
  BY ListTypes DEF Kept, Sound
<1>2. nd[ch[j]].minId <= id /\ id <= nd[ch[j]].maxId
  BY <1>1, HeldBetween
<1>3. /\ nd[ch[j]].minId \in Nat /\ nd[ch[j]].maxId \in Nat
      /\ nd[ch[i]].minId \in Nat /\ nd[ch[i]].maxId \in Nat
  BY <1>1, NodeTypes, IdsAreNaturals
<1>4. /\ j < i => nd[ch[j]].maxId < nd[ch[i]].minId
      /\ i < j => nd[ch[i]].maxId < nd[ch[j]].minId
  BY <1>1
<1>5. ~(j < i) /\ ~(i < j)
  BY <1>2, <1>3, <1>4
<1> QED
  BY <1>5

(* So the search has come to the node that has the goal, if any has.       *)
LEMMA ArrivedRight ==
  ASSUME IInv, Arrived
  PROVE  \E i \in 1..Len(chain) :
           /\ cursor = chain[i] /\ goal \in Ids /\ pNodes # Nil
           /\ IF goal \in KnownOf(chain, node)
              THEN Index \in 1..Len(node[cursor].relations) /\ node[cursor].relations[Index] = goal
              ELSE Index = 0
<1> USE DEF IInv
<1>1. goal \in Ids /\ pNodes # Nil
  BY DEF Searching, Arrived
<1>2. PICK i \in 1..Len(chain) : cursor = chain[i]
  BY DEF Searching, Arrived
<1> DEFINE x == node[chain[i]]
<1>3. /\ x \in Node /\ x.relations # <<>> /\ Holds(x, counter, ~damaged) /\ x = node[cursor]
      /\ counter \in Nat /\ (~damaged) \in BOOLEAN
  BY <1>1, <1>2, ListTypes DEF Kept, Sound, Types
<1>4. goal \in Nat /\ x.minId <= goal /\ goal <= x.maxId
  <2>1. goal \in Nat
    BY <1>1, IdsAreNaturals
  <2>2. x.minId \in Nat /\ x.maxId \in Nat
    BY <1>3, NodeTypes, IdsAreNaturals
  <2> QED
    BY <2>1, <2>2, <1>3 DEF Arrived
<1>5. goal \in KnownOf(chain, node) <=> Has(x, goal)
  BY <1>3, <1>4, OnlyOneHas
<1>6. /\ x.relations \in Seq(Ids) /\ Ascending(x.relations)
      /\ Index = RelationIndex(x.relations, goal)
  BY <1>3, NodeTypes DEF Holds, Index
<1>7. IF \E j \in 1..Len(x.relations) : x.relations[j] = goal
      THEN Index \in 1..Len(x.relations) /\ x.relations[Index] = goal ELSE Index = 0
  BY <1>1, <1>3, <1>6, IndexRight
<1> QED
  BY <1>1, <1>2, <1>3, <1>5, <1>7 DEF Has

(* A new id at the end of the node x.                                      *)
LEMMA AppendedHolds ==
  ASSUME NEW x \in Node, NEW y \in Node, NEW top \in Ids, NEW m \in BOOLEAN, Holds(x, top, m),
         y.relations = Append(x.relations, top), y.minId = x.minId, y.maxId = top,
         x.relations # <<>> \/ ~m
  PROVE  /\ Holds(y, top + 1, m) /\ y.relations # <<>>
         /\ Len(y.relations) = Len(x.relations) + 1
         /\ \A id : Has(y, id) <=> Has(x, id) \/ id = top
<1> DEFINE r == x.relations
           s == y.relations
<1>1. r \in Seq(Ids) /\ Len(r) \in Nat /\ \A j \in 1..Len(r) : r[j] \in Nat
  BY NodeTypes, IdsAreNaturals
<1>2. /\ s # <<>> /\ Len(s) = Len(r) + 1 /\ s[Len(r) + 1] = top
      /\ \A j \in 1..Len(r) : s[j] = r[j]
  BY <1>1, AppendProperties
<1>3. top \in Nat /\ x.minId \in Nat
  BY NodeTypes, IdsAreNaturals
<1>4. \A j \in 1..Len(r) : r[j] < top
  <2> TAKE j \in 1..Len(r)
  <2>1. Has(x, r[j])
    BY DEF Has
  <2> QED
    BY <1>3, <2>1, HeldBetween
<1>5. \A j \in 1..Len(s) : j \in 1..Len(r) \/ j = Len(r) + 1
  BY <1>1, <1>2
<1>6. Ascending(s)
  <2> SUFFICES ASSUME NEW i \in 1..Len(s), NEW j \in 1..Len(s), i < j
               PROVE  s[i] < s[j]
    BY DEF Ascending
  <2>1. i \in 1..Len(r)
    BY <1>1, <1>2
  <2>2. CASE j \in 1..Len(r)
    BY <1>2, <2>1, <2>2 DEF Holds, Ascending
  <2>3. CASE j = Len(r) + 1
    BY <1>2, <1>4, <2>1, <2>3
  <2> QED
    BY <1>5, <2>2, <2>3
<1>7. r = <<>> <=> Len(r) = 0
  BY NodeTypes
<1>8. s[1] = (IF r = <<>> THEN top ELSE r[1])
  <2>1. CASE r = <<>>
    BY <1>2, <1>7, <2>1
  <2>2. CASE r # <<>>
    <3>1. 1 \in 1..Len(r)
      BY <1>1, <1>7, <2>2
    <3> QED
      BY <1>2, <2>2, <3>1
  <2> QED
    BY <2>1, <2>2
<1>9. Holds(y, top + 1, m)
  BY <1>1, <1>2, <1>3, <1>6, <1>8 DEF Holds
<1>10. \A id : Has(y, id) <=> Has(x, id) \/ id = top
  <2> TAKE id
  <2>1. Len(r) + 1 \in 1..Len(s) /\ \A j \in 1..Len(r) : j \in 1..Len(s)
    BY <1>1, <1>2
  <2> QED
    BY <1>2, <1>5, <2>1 DEF Has
<1> QED
  BY <1>2, <1>9, <1>10

LEMMA HoldsOn ==
  ASSUME NEW x \in Node, NEW top \in Nat, NEW m \in BOOLEAN, Holds(x, top, m), NEW n \in BOOLEAN, n => m
  PROVE  Holds(x, top, n) /\ Holds(x, top + 1, n)
<1>1. x.minId \in Nat /\ x.maxId \in Nat
  BY NodeTypes, IdsAreNaturals
<1> QED
  BY <1>1 DEF Holds

----------------------------------------------------------------------------
(* Only the node at place i of the list gets other fields.                 *)
OnlyAt(ch, nd, nd2, i) ==
  /\ nd2 \in [Nodes -> Node]
  /\ \A n \in Nodes : n # ch[i] => nd2[n] = nd[n]
  /\ nd2[ch[i]].nodeNumber = nd[ch[i]].nodeNumber
  /\ Len(nd2[ch[i]].relations) <= Chunk

LEMMA OneChanged ==
  ASSUME NEW ch, NEW nd, NEW ar, Tables(ch, nd), Numbered(ch, nd, ar),
         NEW i \in 1..Len(ch), NEW nd2, OnlyAt(ch, nd, nd2, i)
  PROVE  /\ Tables(ch, nd2) /\ Numbered(ch, nd2, ar)
         /\ \A j \in 1..Len(ch) : j # i => nd2[ch[j]] = nd[ch[j]]
<1>1. ch[i] \in Nodes /\ \A j \in 1..Len(ch) : ch[j] \in Nodes
  BY ListTypes
<1>2. Tables(ch, nd2)
  BY <1>1 DEF Tables, OnlyAt
<1>3. \A j \in 1..Len(ch) : j # i => nd2[ch[j]] = nd[ch[j]]
  BY <1>1, NumbersDiffer DEF OnlyAt
<1> QED
  BY <1>2, <1>3 DEF Numbered, OnlyAt

(* Insert.                                                                 *)
Appends(ch, nd, ar, top, m, k, nd2) ==
  /\ m => ar # Nil
  /\ k = Len(ch) /\ OnlyAt(ch, nd, nd2, k)
  /\ nd2[ch[k]].relations = Append(nd[ch[k]].relations, top)
  /\ nd2[ch[k]].minId = nd[ch[k]].minId /\ nd2[ch[k]].maxId = top

LEMMA Inserted ==
  ASSUME NEW ch, NEW nd, NEW ar, NEW top \in Ids, NEW m \in BOOLEAN, Sound(ch, nd, ar, top, m),
         NEW k, NEW nd2, Appends(ch, nd, ar, top, m, k, nd2)
  PROVE  /\ Sound(ch, nd2, ar, top + 1, m)
         /\ KnownOf(ch, nd2) = KnownOf(ch, nd) \cup {top}
<1> DEFINE x == nd[ch[k]]
           y == nd2[ch[k]]
<1>0. /\ (m => ar # Nil) /\ k = Len(ch) /\ OnlyAt(ch, nd, nd2, k)
      /\ y.relations = Append(x.relations, top) /\ y.minId = x.minId /\ y.maxId = top
  BY DEF Appends
<1>1. Tables(ch, nd) /\ Numbered(ch, nd, ar) /\ Kept(ch, nd, ar, top, m)
  BY DEF Sound
<1>2. k \in 1..Len(ch) /\ Len(ch) \in Nat /\ ch[k] \in Nodes /\ x \in Node /\ y \in Node
  BY <1>0, <1>1, ListTypes DEF OnlyAt
<1>3. /\ Tables(ch, nd2) /\ Numbered(ch, nd2, ar)
      /\ \A j \in 1..Len(ch) : j # k => nd2[ch[j]] = nd[ch[j]]
  BY <1>0, <1>1, <1>2, OneChanged
<1>4. Holds(x, top, m) /\ (x.relations # <<>> \/ ~m)
  BY <1>0, <1>1, <1>2 DEF Kept
<1>5. /\ Holds(y, top + 1, m) /\ y.relations # <<>>
      /\ Len(y.relations) = Len(x.relations) + 1
      /\ \A id : Has(y, id) <=> Has(x, id) \/ id = top
  <2>1. y.relations = Append(x.relations, top) /\ y.minId = x.minId /\ y.maxId = top
    BY <1>0
  <2>2. x \in Node /\ y \in Node /\ Holds(x, top, m) /\ (x.relations # <<>> \/ ~m)
    BY <1>2, <1>4
  <2> HIDE DEF x, y
  <2> QED
    BY <2>1, <2>2, AppendedHolds
<1>6. Len(x.relations) \in Nat /\ x.minId \in Nat /\ top \in Nat
  BY <1>2, NodeTypes, IdsAreNaturals
<1>7. \A j \in 1..Len(ch) : Holds(nd2[ch[j]], top + 1, m)
  <2> TAKE j \in 1..Len(ch)
  <2>1. Holds(nd[ch[j]], top + 1, m)
    BY <1>1, <1>6, ListTypes, HoldsOn DEF Kept
  <2> QED
    BY <2>1, <1>3, <1>5
<1>8. \A j \in 1..Len(ch) : nd2[ch[j]].relations = <<>> => ar = Nil /\ j = Len(ch)
  BY <1>0, <1>1, <1>3, <1>5 DEF Kept
<1>9. \A i, j \in 1..Len(ch) : i < j => nd2[ch[i]].maxId < nd2[ch[j]].minId
  <2> SUFFICES ASSUME NEW i \in 1..Len(ch), NEW j \in 1..Len(ch), i < j
               PROVE  nd2[ch[i]].maxId < nd2[ch[j]].minId
    OBVIOUS
  <2>1. i # k /\ nd[ch[i]].maxId < nd[ch[j]].minId
    BY <1>0, <1>1, <1>2 DEF Kept
  <2> QED
    BY <1>0, <1>3, <2>1
<1>10. \A i, j \in 1..Len(ch) : j = i + 1 => Half(nd2[ch[i]]) \/ Half(nd2[ch[j]])
  <2>1. Half(x) => Half(y)
    BY <1>5, <1>6, ChunkSize DEF Half
  <2>2. \A i \in 1..Len(ch) : Half(nd[ch[i]]) => Half(nd2[ch[i]])
    BY <2>1, <1>3
  <2> QED
    BY <2>2, <1>1 DEF Kept
<1>11. KnownOf(ch, nd2) = KnownOf(ch, nd) \cup {top}
  <2>1. \A id : id \in KnownOf(ch, nd2) <=> \E i \in 1..Len(ch) : Has(nd2[ch[i]], id)
    BY <1>3, KnownIs
  <2>2. \A id : id \in KnownOf(ch, nd) <=> \E i \in 1..Len(ch) : Has(nd[ch[i]], id)
    BY <1>1, KnownIs
  <2>3. \A i \in 1..Len(ch) : \A id : Has(nd2[ch[i]], id) <=> Has(nd[ch[i]], id) \/ (i = k /\ id = top)
    BY <1>3, <1>5
  <2> QED
    BY <2>1, <2>2, <2>3, <1>2
<1> QED
  BY <1>3, <1>7, <1>8, <1>9, <1>10, <1>11 DEF Kept, Sound

(* A new node behind a full one, with the new id or, when there is no      *)
(* array, with nothing.                                                    *)
Links(ch, nd, top, new, nd2, ar2) ==
  /\ Len(nd[ch[Len(ch)]].relations) >= Chunk
  /\ new \in Nodes /\ new \notin ToSet(ch)
  /\ nd2 \in [Nodes -> Node] /\ \A n \in Nodes : n # new => nd2[n] = nd[n]
  /\ nd2[new].nodeNumber = Len(ch) + 1 /\ nd2[new].minId = top
  /\ \/ nd2[new].relations = <<top>> /\ nd2[new].maxId = top
     \/ nd2[new].relations = <<>> /\ ar2 = Nil

Linked(ch, nd, ch2, nd2, new, ar2, top, m2) ==
  /\ Tables(ch2, nd2)
  /\ \A i \in 1..Len(ch2) : nd2[ch2[i]].nodeNumber = i
  /\ Kept(ch2, nd2, ar2, top, m2)
  /\ KnownOf(ch2, nd2) =
       KnownOf(ch, nd) \cup {nd2[new].relations[j] : j \in 1..Len(nd2[new].relations)}
  /\ Len(ch2) = Len(ch) + 1 /\ ch2[Len(ch) + 1] = new
  /\ \A i \in 1..Len(ch) : ch2[i] = ch[i] /\ nd2[ch[i]] = nd[ch[i]]

LEMMA LinkedSound ==
  ASSUME NEW ch, NEW nd, NEW ar, NEW top \in Ids, NEW m \in BOOLEAN, Sound(ch, nd, ar, top, m),
         NEW new, NEW nd2, NEW ar2, Links(ch, nd, top, new, nd2, ar2), NEW m2 \in BOOLEAN, m2 => m
  PROVE  Linked(ch, nd, Append(ch, new), nd2, new, ar2, top + 1, m2)
<1> DEFINE ch2 == Append(ch, new)
           k == Len(ch)
           y == nd2[new]
<1>0. /\ Len(nd[ch[Len(ch)]].relations) >= Chunk
      /\ new \in Nodes /\ new \notin ToSet(ch)
      /\ nd2 \in [Nodes -> Node] /\ \A n \in Nodes : n # new => nd2[n] = nd[n]
      /\ nd2[new].nodeNumber = Len(ch) + 1 /\ nd2[new].minId = top
      /\ \/ nd2[new].relations = <<top>> /\ nd2[new].maxId = top
         \/ nd2[new].relations = <<>> /\ ar2 = Nil
  BY DEF Links
<1>1. Tables(ch, nd) /\ Numbered(ch, nd, ar) /\ Kept(ch, nd, ar, top, m)
  BY DEF Sound
<1>2. /\ k \in 1..k /\ k \in Nat
      /\ \A i \in 1..k : ch[i] \in Nodes /\ nd[ch[i]] \in Node
      /\ ch \in Seq(Nodes) /\ DOMAIN ch = 1..k
  BY <1>1, ListTypes, LenProperties DEF Tables
<1>3. /\ ch2 \in Seq(Nodes) /\ ch2 # <<>> /\ Len(ch2) = k + 1 /\ ch2[k + 1] = new
      /\ \A i \in 1..k : ch2[i] = ch[i]
  BY <1>0, <1>2, AppendProperties
<1> HIDE DEF ch2, k
<1>4. \A i \in 1..k : nd2[ch[i]] = nd[ch[i]] /\ ch[i] # new
  BY <1>0, <1>2 DEF ToSet
<1>5. \A i \in 1..k + 1 : i \in 1..k \/ i = k + 1
  BY <1>2
<1>6. /\ y \in Node /\ y.minId = top /\ y.nodeNumber = k + 1 /\ top \in Nat
      /\ \/ y.relations = <<top>> /\ y.maxId = top
         \/ y.relations = <<>> /\ ar2 = Nil
  BY <1>0, IdsAreNaturals DEF k
<1>7. /\ Holds(y, top + 1, m2) /\ Len(y.relations) <= Chunk
      /\ y.relations = <<>> => ar2 = Nil
  <2>1. CASE y.relations = <<top>>
    <3>1. Len(y.relations) = 1 /\ y.relations[1] = top /\ y.relations # <<>>
      BY <2>1
    <3>2. y.maxId = top
      BY <1>6, <3>1
    <3>3. Ascending(y.relations)
      BY <3>1 DEF Ascending
    <3> QED
      BY <1>6, <3>1, <3>2, <3>3, ChunkSize DEF Holds
  <2>2. CASE y.relations = <<>>
    <3>1. Len(y.relations) = 0
      BY <2>2
    <3>2. Ascending(y.relations)
      BY <3>1 DEF Ascending
    <3>3. ar2 = Nil
      BY <2>2, <1>6
    <3> QED
      BY <1>6, <2>2, <3>1, <3>2, <3>3, ChunkSize DEF Holds
  <2> QED
    BY <1>6, <2>1, <2>2
<1> HIDE DEF y
<1>8. Tables(ch2, nd2)
  <2>1. \A n \in Nodes : Len(nd2[n].relations) <= Chunk
    BY <1>0, <1>1, <1>7 DEF Tables, y
  <2> QED
    BY <1>0, <1>3, <2>1 DEF Tables
<1>9. \A i \in 1..k + 1 : nd2[ch2[i]].nodeNumber = i
  <2>1. \A i \in 1..k : nd2[ch2[i]].nodeNumber = i
    BY <1>1, <1>3, <1>4 DEF Numbered, k
  <2> QED
    BY <1>3, <1>5, <1>6, <2>1 DEF y
<1>10. \A i \in 1..k :
         /\ nd2[ch2[i]] = nd[ch[i]] /\ Holds(nd[ch[i]], top, m)
         /\ nd[ch[i]].relations # <<>> /\ nd[ch[i]].maxId < top
  <2> TAKE i \in 1..k
  <2>1. nd2[ch2[i]] = nd[ch[i]] /\ Holds(nd[ch[i]], top, m)
    BY <1>1, <1>3, <1>4 DEF Kept, k
  <2>2. nd[ch[i]].relations # <<>>
    <3>1. CASE i = k
      <4>1. Len(nd[ch[i]].relations) # 0
        BY <1>0, <3>1, ChunkSize DEF k
      <4> QED
        BY <1>2, <4>1, NodeTypes
    <3>2. CASE i # k
      BY <1>1, <3>2 DEF Kept, k
    <3> QED
      BY <3>1, <3>2
  <2> QED
    BY <2>1, <2>2 DEF Holds
<1>11. \A i \in 1..k + 1 : Holds(nd2[ch2[i]], top + 1, m2)
  <2> TAKE i \in 1..k + 1
  <2>1. CASE i \in 1..k
    <3>1. nd[ch[i]] \in Node /\ Holds(nd[ch[i]], top, m) /\ nd2[ch2[i]] = nd[ch[i]]
      BY <1>2, <1>10, <2>1
    <3>2. Holds(nd[ch[i]], top + 1, m2)
      BY <1>6, <3>1, HoldsOn
    <3> QED
      BY <3>1, <3>2
  <2>2. CASE i = k + 1
    BY <1>3, <1>7, <2>2 DEF y
  <2> QED
    BY <1>5, <2>1, <2>2
<1>12. \A i \in 1..k + 1 : nd2[ch2[i]].relations = <<>> => ar2 = Nil /\ i = k + 1
  BY <1>3, <1>5, <1>7, <1>10 DEF y
<1>13. \A i, j \in 1..k + 1 : i < j => nd2[ch2[i]].maxId < nd2[ch2[j]].minId
  <2> SUFFICES ASSUME NEW i \in 1..k + 1, NEW j \in 1..k + 1, i < j
               PROVE  nd2[ch2[i]].maxId < nd2[ch2[j]].minId
    OBVIOUS
  <2>1. i \in 1..k
    BY <1>2, <1>5
  <2>2. CASE j \in 1..k
    BY <1>1, <1>10, <2>1, <2>2 DEF Kept, k
  <2>3. CASE j = k + 1
    BY <1>3, <1>6, <1>10, <2>1, <2>3 DEF y
  <2> QED
    BY <1>5, <2>2, <2>3
<1>14. \A i, j \in 1..k + 1 : j = i + 1 => Half(nd2[ch2[i]]) \/ Half(nd2[ch2[j]])
  <2> SUFFICES ASSUME NEW i \in 1..k, i + 1 \in 1..k + 1
               PROVE  Half(nd2[ch2[i]]) \/ Half(nd2[ch2[i + 1]])
    BY <1>2, <1>5
  <2>1. CASE i = k
    <3>1. Len(nd[ch[k]].relations) \in Nat
      BY <1>2, NodeTypes
    <3>2. Half(nd[ch[k]])
      BY <1>0, <3>1, ChunkSize DEF Half, k
    <3> QED
      BY <1>10, <2>1, <3>2
  <2>2. CASE i # k
    <3>1. i + 1 \in 1..k
      BY <1>2, <2>2
    <3> QED
      BY <1>1, <1>10, <3>1 DEF Kept, k
  <2> QED
    BY <2>1, <2>2
<1>15. KnownOf(ch2, nd2) = KnownOf(ch, nd) \cup {y.relations[j] : j \in 1..Len(y.relations)}
  <2>1. \A id : id \in KnownOf(ch2, nd2) <=> \E i \in 1..k + 1 : Has(nd2[ch2[i]], id)
    BY <1>3, <1>8, KnownIs
  <2>2. \A id : id \in KnownOf(ch, nd) <=> \E i \in 1..k : Has(nd[ch[i]], id)
    BY <1>1, KnownIs DEF k
  <2>3. \A id : Has(nd2[ch2[k + 1]], id) <=> id \in {y.relations[j] : j \in 1..Len(y.relations)}
    BY <1>3 DEF Has, y
  <2>4. \A id, i : i \in 1..k => (Has(nd2[ch2[i]], id) <=> Has(nd[ch[i]], id))
    BY <1>10
  <2>5. \A i \in 1..k : i \in 1..k + 1
    BY <1>2
  <2>6. k + 1 \in 1..k + 1
    BY <1>2
  <2>7. \A id : id \in KnownOf(ch2, nd2) <=>
                  id \in KnownOf(ch, nd) \/ id \in {y.relations[j] : j \in 1..Len(y.relations)}
    BY <1>5, <2>1, <2>2, <2>3, <2>4, <2>5, <2>6
  <2> QED
    BY <2>7
<1>16. Kept(ch2, nd2, ar2, top + 1, m2)
  BY <1>3, <1>11, <1>12, <1>13, <1>14 DEF Kept
<1> QED
  BY <1>3, <1>4, <1>8, <1>9, <1>15, <1>16 DEF ch2, k, y, Linked

----------------------------------------------------------------------------
(* The relations of a node with one removed, and those of two put together.*)
In(r, id) == \E j \in 1..Len(r) : r[j] = id

LEMMA RemovedOne ==
  ASSUME NEW r \in Seq(Ids), Ascending(r), NEW i \in 1..Len(r)
  PROVE  /\ RemoveAt(r, i) \in Seq(Ids) /\ Ascending(RemoveAt(r, i))
         /\ Len(RemoveAt(r, i)) = Len(r) - 1 /\ Len(r) \in Nat
         /\ \A id : In(RemoveAt(r, i), id) <=> In(r, id) /\ id # r[i]
<1> DEFINE s == RemoveAt(r, i)
<1>1. /\ s \in Seq(Ids) /\ Len(s) = Len(r) - 1
      /\ \A j \in 1..Len(r) - 1 : s[j] = IF j < i THEN r[j] ELSE r[j + 1]
  BY RemoveAtProperties
<1>2. Len(r) \in Nat /\ i \in 1..Len(r) /\ \A j \in 1..Len(r) : r[j] \in Nat
  BY LenProperties, ElementOfSeq, IdsAreNaturals
<1> HIDE DEF s
<1>3. Ascending(s)
  <2> SUFFICES ASSUME NEW j \in 1..Len(s), NEW k \in 1..Len(s), j < k
               PROVE  s[j] < s[k]
    BY DEF Ascending
  <2> DEFINE from(l) == IF l < i THEN l ELSE l + 1
  <2>1. \A l \in 1..Len(s) : from(l) \in 1..Len(r) /\ s[l] = r[from(l)]
    BY <1>1, <1>2
  <2>2. from(j) < from(k)
    BY <1>1, <1>2
  <2> HIDE DEF from
  <2> QED
    BY <2>1, <2>2 DEF Ascending
<1>4. \A id : In(s, id) => In(r, id) /\ id # r[i]
  <2> SUFFICES ASSUME NEW j \in 1..Len(s)
               PROVE  In(r, s[j]) /\ s[j] # r[i]
    BY DEF In
  <2>1. CASE j < i
    BY <1>1, <1>2, <2>1 DEF In, Ascending
  <2>2. CASE ~(j < i)
    <3>1. s[j] = r[j + 1] /\ j + 1 \in 1..Len(r) /\ i < j + 1
      BY <1>1, <1>2, <2>2
    <3>2. r[i] < r[j + 1] /\ r[i] \in Nat /\ r[j + 1] \in Nat
      BY <1>2, <3>1 DEF Ascending
    <3> QED
      BY <3>1, <3>2 DEF In
  <2> QED
    BY <2>1, <2>2
<1>5. \A id : In(r, id) /\ id # r[i] => In(s, id)
  <2> SUFFICES ASSUME NEW j \in 1..Len(r), r[j] # r[i]
               PROVE  In(s, r[j])
    BY DEF In
  <2>1. CASE j < i
    <3>1. j \in 1..Len(s) /\ s[j] = r[j]
      BY <1>1, <1>2, <2>1
    <3> QED
      BY <3>1 DEF In
  <2>2. CASE i < j
    <3>1. j - 1 \in 1..Len(s) /\ s[j - 1] = r[j]
      BY <1>1, <1>2, <2>2
    <3> QED
      BY <3>1 DEF In
  <2> QED
    BY <2>1, <2>2, <1>2
<1> QED
  BY <1>1, <1>2, <1>3, <1>4, <1>5 DEF s

LEMMA JoinedBoth ==
  ASSUME NEW r \in Seq(Ids), Ascending(r), NEW s \in Seq(Ids), Ascending(s),
         \A i \in 1..Len(r), j \in 1..Len(s) : r[i] < s[j], Len(r) + Len(s) <= Chunk
  PROVE  /\ Joined(r, s) \in Seq(Ids) /\ Ascending(Joined(r, s))
         /\ Len(Joined(r, s)) = Len(r) + Len(s) /\ Len(r) \in Nat /\ Len(s) \in Nat
         /\ \A id : In(Joined(r, s), id) <=> In(r, id) \/ In(s, id)
<1> DEFINE t == r \o s
<1>1. Joined(r, s) = t
  BY DEF Joined
<1>2. /\ t \in Seq(Ids) /\ Len(t) = Len(r) + Len(s)
      /\ \A j \in 1..Len(r) + Len(s) : t[j] = IF j <= Len(r) THEN r[j] ELSE s[j - Len(r)]
  BY ConcatProperties
<1>3. /\ Len(r) \in Nat /\ Len(s) \in Nat
      /\ \A j \in 1..Len(r) : r[j] \in Nat
      /\ \A j \in 1..Len(s) : s[j] \in Nat
  BY LenProperties, ElementOfSeq, IdsAreNaturals
<1> HIDE DEF t
<1>4. /\ \A j \in 1..Len(r) : j \in 1..Len(t) /\ t[j] = r[j]
      /\ \A j \in 1..Len(s) : j + Len(r) \in 1..Len(t) /\ t[j + Len(r)] = s[j]
      /\ \A j \in 1..Len(t) : j \notin 1..Len(r) => j - Len(r) \in 1..Len(s) /\ t[j] = s[j - Len(r)]
  <2>1. \A j \in 1..Len(r) : j \in 1..Len(t) /\ t[j] = r[j]
    BY <1>2, <1>3
  <2>2. ASSUME NEW j \in 1..Len(s)
        PROVE  j + Len(r) \in 1..Len(t) /\ t[j + Len(r)] = s[j]
    <3>1. j + Len(r) \in 1..Len(t) /\ ~(j + Len(r) <= Len(r)) /\ (j + Len(r)) - Len(r) = j
      BY <1>2, <1>3
    <3> QED
      BY <1>2, <3>1
  <2>3. \A j \in 1..Len(t) : j \notin 1..Len(r) => j - Len(r) \in 1..Len(s) /\ t[j] = s[j - Len(r)]
    BY <1>2, <1>3
  <2> QED
    BY <2>1, <2>2, <2>3
<1>5. Ascending(t)
  <2> SUFFICES ASSUME NEW i \in 1..Len(t), NEW j \in 1..Len(t), i < j
               PROVE  t[i] < t[j]
    BY DEF Ascending
  <2>1. CASE j \in 1..Len(r)
    BY <1>3, <1>4, <2>1 DEF Ascending
  <2>2. CASE i \in 1..Len(r) /\ j \notin 1..Len(r)
    BY <1>3, <1>4, <2>2
  <2>3. CASE i \notin 1..Len(r) /\ j \notin 1..Len(r)
    <3>1. /\ i - Len(r) \in 1..Len(s) /\ t[i] = s[i - Len(r)]
          /\ j - Len(r) \in 1..Len(s) /\ t[j] = s[j - Len(r)]
          /\ i - Len(r) < j - Len(r)
      BY <1>2, <1>3, <1>4, <2>3
    <3> QED
      BY <3>1 DEF Ascending
  <2> QED
    BY <1>2, <1>3, <2>1, <2>2, <2>3
<1>6. \A id : In(t, id) <=> In(r, id) \/ In(s, id)
  <2>1. \A id : In(r, id) \/ In(s, id) => In(t, id)
    BY <1>4 DEF In
  <2>2. \A id : In(t, id) => In(r, id) \/ In(s, id)
    BY <1>4 DEF In
  <2> QED
    BY <2>1, <2>2
<1> QED
  BY <1>1, <1>2, <1>3, <1>5, <1>6

(* A node that is given relations that ascend.                             *)
LEMMA FilledHolds ==
  ASSUME NEW y \in Node, NEW top, NEW m, Ascending(y.relations), y.relations # <<>>,
         y.minId = y.relations[1], y.maxId = y.relations[Len(y.relations)],
         \A j \in 1..Len(y.relations) : y.relations[j] < top
  PROVE  Holds(y, top, m)
<1>1. /\ Len(y.relations) \in Nat /\ Len(y.relations) # 0 /\ \A j \in 1..Len(y.relations) : y.relations[j] \in Nat
  BY NodeTypes, IdsAreNaturals
<1>2. 1 \in 1..Len(y.relations) /\ Len(y.relations) \in 1..Len(y.relations)
  BY <1>1
<1> QED
  BY <1>1, <1>2 DEF Holds

----------------------------------------------------------------------------
(* The node d of number k is unlinked, the array and the numbers move up   *)
(* (Drop).                                                                 *)
Up(x)    == [x EXCEPT !.nodeNumber = @ - 1]
Blank(x) == [x EXCEPT !.relations = <<>>, !.minId = 0, !.maxId = 0, !.nodeNumber = 0]

Unlinked(count, nd, ar, d, k, nd2, ar2) ==
  LET last  == count - 1
      moved == {ar[i] : i \in (k + 1)..count}
  IN  /\ ar2 = [i \in 1..MaxNodes |->
                  CASE i \in k..last -> ar[i + 1]
                    [] i = count -> Nil
                    [] OTHER -> ar[i]]
      /\ nd2 = [n \in Nodes |->
                  CASE n \in moved -> Up(nd[n])
                    [] n = d -> Blank(nd[n])
                    [] OTHER -> nd[n]]

Same(x, y) == x.relations = y.relations /\ x.minId = y.minId /\ x.maxId = y.maxId

LEMMA SameHolds ==
  ASSUME NEW x, NEW y, Same(x, y)
  PROVE  /\ \A top, m : Holds(x, top, m) => Holds(y, top, m)
         /\ \A id : Has(x, id) <=> Has(y, id)
         /\ Half(x) <=> Half(y)
BY DEF Same, Holds, Has, Half

LEMMA Renumbered ==
  ASSUME NEW x \in Node, x.nodeNumber # 0
  PROVE  Up(x) \in Node /\ Same(x, Up(x)) /\ Up(x).nodeNumber = x.nodeNumber - 1
<1>1. MaxNodes \in Nat
  BY IdListAssumption, FS_CardinalityType DEF MaxNodes
<1> QED
  BY <1>1 DEF Node, Same, Up

LEMMA Cleared ==
  ASSUME NEW x \in Node
  PROVE  Blank(x) \in Node /\ Blank(x).relations = <<>>
<1>1. MaxNodes \in Nat /\ MaxId \in Nat
  BY IdListAssumption, FS_CardinalityType DEF MaxNodes
<1>2. <<>> \in Seq(Ids) /\ 0 \in Ids /\ 0 \in 0..MaxNodes
  BY <1>1 DEF Ids
<1>3. Blank(x) \in Node
  BY <1>2 DEF Blank, Node
<1>4. Blank(x).relations = <<>>
  BY DEF Blank, Node
<1> QED
  BY <1>3, <1>4

(* The places of the list without k.                                       *)
Without(k, j) == IF j < k THEN j ELSE j + 1

LEMMA UnlinkedTables ==
  ASSUME NEW ch, NEW nd, NEW ar, Tables(ch, nd), Numbered(ch, nd, ar), ar # Nil, Len(ch) >= 2,
         NEW k \in 1..Len(ch), NEW nd2, NEW ar2, Unlinked(Len(ch), nd, ar, ch[k], k, nd2, ar2)
  PROVE  LET ch2 == RemoveAt(ch, k)
         IN  /\ Tables(ch2, nd2) /\ Numbered(ch2, nd2, ar2)
             /\ Len(ch) \in Nat /\ Len(ch2) = Len(ch) - 1 /\ ar2[Len(ch2)] = ch2[Len(ch2)]
             /\ ar2 \in [1..MaxNodes -> Nodes \cup {Nil}]
             /\ \A j \in 1..Len(ch2) :
                  /\ Without(k, j) \in 1..Len(ch) /\ Without(k, j) # k
                  /\ Same(nd[ch[Without(k, j)]], nd2[ch2[j]])
<1> DEFINE ch2 == RemoveAt(ch, k)
           d == ch[k]
           n == Len(ch)
           moved == {ar[i] : i \in (k + 1)..n}
<1>1. /\ n \in Nat /\ n >= 2 /\ k \in 1..n
      /\ \A i \in 1..n : ch[i] \in Nodes /\ nd[ch[i]] \in Node /\ nd[ch[i]].nodeNumber = i /\ ar[i] = ch[i]
      /\ ch \in Seq(Nodes) /\ nd \in [Nodes -> Node]
  <2>1. /\ n \in Nat /\ n >= 1
        /\ \A i \in 1..n : ch[i] \in Nodes /\ nd[ch[i]] \in Node
    BY ListTypes
  <2>4. n >= 2
    OBVIOUS
  <2>2. \A i \in 1..n : nd[ch[i]].nodeNumber = i /\ ar[i] = ch[i]
    BY DEF Numbered
  <2>3. ch \in Seq(Nodes) /\ nd \in [Nodes -> Node]
    BY DEF Tables
  <2> QED
    BY <2>1, <2>2, <2>3, <2>4
<1>2. /\ ch2 \in Seq(Nodes) /\ Len(ch2) = n - 1
      /\ \A j \in 1..n - 1 : ch2[j] = IF j < k THEN ch[j] ELSE ch[j + 1]
  BY <1>1, RemoveAtProperties
<1>3. n <= MaxNodes /\ MaxNodes \in Nat
  BY ListFits
<1>4. \A i, j \in 1..n : ch[i] = ch[j] => i = j
  BY NumbersDiffer
<1> DEFINE A(i) == CASE i \in k..n - 1 -> ar[i + 1] [] i = n -> Nil [] OTHER -> ar[i]
           N(z) == CASE z \in moved -> Up(nd[z]) [] z = d -> Blank(nd[z]) [] OTHER -> nd[z]
<1>6. ar2 = [i \in 1..MaxNodes |-> A(i)] /\ nd2 = [z \in Nodes |-> N(z)]
  BY Zenon DEF Unlinked
<1> HIDE DEF ch2, n
<1>7. \A i \in 1..n : ch[i] \in moved <=> i > k
  <2> TAKE i \in 1..n
  <2>1. ASSUME i > k
        PROVE  ch[i] \in moved
    <3>1. i \in (k + 1)..n /\ ar[i] = ch[i]
      BY <1>1, <2>1
    <3> QED
      BY <3>1
  <2>2. ASSUME ch[i] \in moved
        PROVE  i > k
    <3>1. PICK j \in (k + 1)..n : ch[i] = ar[j]
      BY <2>2
    <3>2. j \in 1..n /\ j > k
      BY <1>1
    <3>3. ar[j] = ch[j]
      BY <1>1, <3>2
    <3> QED
      BY <1>4, <3>1, <3>2, <3>3
  <2> QED
    BY <2>1, <2>2
<1>8. \A z \in moved : \E i \in 1..n : z = ch[i] /\ nd[z].nodeNumber # 0
  <2> TAKE z \in moved
  <2>1. PICK j \in (k + 1)..n : z = ar[j]
    OBVIOUS
  <2>2. j \in 1..n /\ j # 0
    BY <1>1
  <2> QED
    BY <1>1, <2>1, <2>2
<1> HIDE DEF moved, d
<1>5. d = ch[k] /\ d \notin moved
  BY <1>1, <1>7 DEF d
<1>9. \A z \in Nodes :
         /\ z \in moved => nd2[z] = Up(nd[z])
         /\ z = d => nd2[z] = Blank(nd[z])
         /\ z \notin moved /\ z # d => nd2[z] = nd[z]
  <2> SUFFICES ASSUME NEW z \in Nodes
               PROVE  /\ z \in moved => N(z) = Up(nd[z])
                      /\ z = d => N(z) = Blank(nd[z])
                      /\ z \notin moved /\ z # d => N(z) = nd[z]
    BY <1>6
  <2> QED
    BY <1>5, Zenon
<1>10. \A i \in 1..MaxNodes :
         /\ i \in k..n - 1 => ar2[i] = ar[i + 1]
         /\ i = n => ar2[i] = Nil
         /\ i \notin k..n - 1 /\ i # n => ar2[i] = ar[i]
  <2> SUFFICES ASSUME NEW i \in 1..MaxNodes
               PROVE  /\ i \in k..n - 1 => A(i) = ar[i + 1]
                      /\ i = n => A(i) = Nil
                      /\ i \notin k..n - 1 /\ i # n => A(i) = ar[i]
    BY <1>6
  <2>1. ~(i \in k..n - 1 /\ i = n)
    BY <1>1
  <2> QED
    BY <2>1, Zenon
<1> HIDE DEF A, N
<1>11. \A j \in 1..n - 1 :
        /\ Without(k, j) \in 1..n /\ Without(k, j) # k
        /\ ch2[j] = ch[Without(k, j)]
        /\ nd2[ch2[j]].nodeNumber = j
        /\ Same(nd[ch[Without(k, j)]], nd2[ch2[j]])
  <2> TAKE j \in 1..n - 1
  <2>1. CASE j < k
    <3>0. Without(k, j) = j /\ j \in 1..n /\ j # k
      BY <1>1, <2>1 DEF Without
    <3>1. Without(k, j) = j /\ j \in 1..n /\ j # k /\ ch2[j] = ch[j]
      BY <1>2, <2>1, <3>0
    <3>2. ch[j] \notin moved /\ ch[j] # d /\ ch[j] \in Nodes
      BY <1>1, <1>4, <1>5, <1>7, <2>1, <3>1
    <3>3. nd2[ch[j]] = nd[ch[j]]
      BY <1>9, <3>2
    <3> QED
      BY <1>1, <3>1, <3>3 DEF Same
  <2>2. CASE ~(j < k)
    <3>1. Without(k, j) = j + 1 /\ j + 1 \in 1..n /\ j + 1 > k /\ j + 1 # k /\ ch2[j] = ch[j + 1]
      BY <1>1, <1>2, <2>2 DEF Without
    <3>2. ch[j + 1] \in moved /\ ch[j + 1] \in Nodes /\ nd[ch[j + 1]] \in Node /\ nd[ch[j + 1]].nodeNumber = j + 1
      BY <1>1, <1>7, <3>1
    <3>3. nd2[ch[j + 1]] = Up(nd[ch[j + 1]])
      BY <1>9, <3>2
    <3>4. j + 1 # 0 /\ (j + 1) - 1 = j
      BY <1>1
    <3>5. Same(nd[ch[j + 1]], nd2[ch[j + 1]]) /\ nd2[ch[j + 1]].nodeNumber = j
      BY <3>2, <3>3, <3>4, Renumbered
    <3> QED
      BY <3>1, <3>5
  <2> QED
    BY <2>1, <2>2
<1>12. nd2 \in [Nodes -> Node] /\ \A z \in Nodes : Len(nd2[z].relations) <= Chunk
  <2>1. ASSUME NEW z \in Nodes
        PROVE  nd2[z] \in Node /\ Len(nd2[z].relations) <= Chunk
    <3>1. nd[z] \in Node /\ Len(nd[z].relations) <= Chunk
      BY DEF Tables
    <3>2. CASE z \in moved
      <4>1. nd2[z] = Up(nd[z]) /\ nd[z].nodeNumber # 0
        BY <1>9, <1>8, <3>2
      <4>2. nd2[z] \in Node /\ Same(nd[z], nd2[z])
        BY <3>1, <4>1, Renumbered
      <4> QED
        BY <3>1, <4>2 DEF Same
    <3>3. CASE z \notin moved /\ z = d
      <4>1. nd2[z] = Blank(nd[z])
        BY <1>9, <3>3
      <4>2. nd2[z] \in Node /\ nd2[z].relations = <<>>
        BY <3>1, <4>1, Cleared
      <4>3. Len(nd2[z].relations) = 0
        BY <4>2
      <4> QED
        BY <4>2, <4>3, ChunkSize
    <3>4. CASE z \notin moved /\ z # d
      <4>1. nd2[z] = nd[z]
        BY <1>9, <3>4
      <4> QED
        BY <3>1, <4>1
    <3> QED
      BY <3>2, <3>3, <3>4
  <2> QED
    BY <1>6, <2>1
<1>13. Tables(ch2, nd2)
  <2>1. ch2 # <<>>
    BY <1>1, <1>2, EmptySeq
  <2> QED
    BY <1>2, <1>12, <2>1 DEF Tables
<1>14. \A i \in 1..n - 1 : ar2[i] = ch2[i]
  <2> TAKE i \in 1..n - 1
  <2>1. i \in 1..MaxNodes /\ i # n /\ i \in 1..n
    BY <1>1, <1>3
  <2>2. CASE i < k
    <3>1. i \notin k..n - 1 /\ ar2[i] = ar[i]
      BY <1>1, <1>10, <2>1, <2>2
    <3> QED
      BY <1>1, <1>2, <2>1, <2>2, <3>1
  <2>3. CASE ~(i < k)
    <3>1. i \in k..n - 1 /\ i + 1 \in 1..n
      BY <1>1, <2>3
    <3>2. ar2[i] = ar[i + 1]
      BY <1>10, <2>1, <3>1
    <3> QED
      BY <1>1, <1>2, <2>3, <3>1, <3>2
  <2> QED
    BY <2>2, <2>3
<1>15. ar2 \in [1..MaxNodes -> Nodes \cup {Nil}]
  <2>1. ar \in [1..MaxNodes -> Nodes \cup {Nil}]
    BY DEF Numbered
  <2>2. \A i \in k..n - 1 : i + 1 \in 1..MaxNodes
    BY <1>1, <1>3
  <2>3. \A i \in 1..MaxNodes : ar2[i] \in Nodes \cup {Nil}
    BY <1>10, <2>1, <2>2
  <2> QED
    BY <1>6, <2>3
<1>16. Numbered(ch2, nd2, ar2)
  BY <1>2, <1>11, <1>14, <1>15 DEF Numbered
<1>17. ar2[Len(ch2)] = ch2[Len(ch2)]
  <2>1. n - 1 \in 1..n - 1
    BY <1>1
  <2> QED
    BY <1>2, <1>14, <2>1
<1> QED
  BY <1>1, <1>2, <1>11, <1>13, <1>15, <1>16, <1>17 DEF n, ch2

(* What is left is kept, if it was kept but for the node at place k.       *)
KeptBut(ch, nd, k, top, m) ==
  /\ \A i \in 1..Len(ch) : i # k => Holds(nd[ch[i]], top, m) /\ nd[ch[i]].relations # <<>>
  /\ \A i, j \in 1..Len(ch) : i < j /\ i # k /\ j # k => nd[ch[i]].maxId < nd[ch[j]].minId
  /\ \A i, j \in 1..Len(ch) :
       i # k /\ j # k /\ (j = i + 1 \/ (i = k - 1 /\ j = k + 1)) => Half(nd[ch[i]]) \/ Half(nd[ch[j]])

LEMMA UnlinkedSound ==
  ASSUME NEW ch, NEW nd, NEW ar, Tables(ch, nd), Numbered(ch, nd, ar), ar # Nil, Len(ch) >= 2,
         NEW k \in 1..Len(ch), NEW nd2, NEW ar2, Unlinked(Len(ch), nd, ar, ch[k], k, nd2, ar2),
         NEW top, NEW m, KeptBut(ch, nd, k, top, m)
  PROVE  LET ch2 == RemoveAt(ch, k)
         IN  /\ Sound(ch2, nd2, ar2, top, m)
             /\ \A id : id \in KnownOf(ch2, nd2) <=> \E i \in 1..Len(ch) : i # k /\ Has(nd[ch[i]], id)
<1> DEFINE ch2 == RemoveAt(ch, k)
           n == Len(ch)
           from(j) == Without(k, j)
<1>1. /\ Tables(ch2, nd2) /\ Numbered(ch2, nd2, ar2)
      /\ n \in Nat /\ Len(ch2) = n - 1
      /\ \A j \in 1..n - 1 : from(j) \in 1..n /\ from(j) # k /\ Same(nd[ch[from(j)]], nd2[ch2[j]])
  BY UnlinkedTables
<1> HIDE DEF ch2, n
<1>2. \A i, j \in 1..n - 1 : i < j => from(i) < from(j)
  BY <1>1 DEF Without
<1>3. \A i, j \in 1..n - 1 : j = i + 1 => from(j) = from(i) + 1 \/ (from(i) = k - 1 /\ from(j) = k + 1)
  BY <1>1 DEF Without, n
<1>4. \A i \in 1..n : i # k => \E j \in 1..n - 1 : from(j) = i
  <2> SUFFICES ASSUME NEW i \in 1..n, i # k
               PROVE  \E j \in 1..n - 1 : from(j) = i
    OBVIOUS
  <2>1. CASE i < k
    <3>1. i \in 1..n - 1 /\ from(i) = i
      BY <1>1, <2>1 DEF Without, n
    <3> QED
      BY <3>1
  <2>2. CASE i > k
    <3>1. i - 1 \in 1..n - 1 /\ from(i - 1) = i
      BY <1>1, <2>2 DEF Without, n
    <3> QED
      BY <3>1
  <2> QED
    BY <1>1, <2>1, <2>2 DEF n
<1> HIDE DEF from
<1>5. \A j \in 1..n - 1 :
        /\ Holds(nd2[ch2[j]], top, m) /\ nd2[ch2[j]].relations # <<>>
        /\ nd2[ch2[j]].maxId = nd[ch[from(j)]].maxId /\ nd2[ch2[j]].minId = nd[ch[from(j)]].minId
        /\ Half(nd2[ch2[j]]) <=> Half(nd[ch[from(j)]])
        /\ \A id : Has(nd2[ch2[j]], id) <=> Has(nd[ch[from(j)]], id)
  <2> TAKE j \in 1..n - 1
  <2>1. Same(nd[ch[from(j)]], nd2[ch2[j]]) /\ from(j) \in 1..n /\ from(j) # k
    BY <1>1
  <2>2. Holds(nd[ch[from(j)]], top, m) /\ nd[ch[from(j)]].relations # <<>>
    BY <2>1 DEF KeptBut, n
  <2>3. Holds(nd2[ch2[j]], top, m)
    BY <2>1, <2>2, SameHolds
  <2>4. /\ Half(nd2[ch2[j]]) <=> Half(nd[ch[from(j)]])
        /\ \A id : Has(nd2[ch2[j]], id) <=> Has(nd[ch[from(j)]], id)
    BY <2>1, SameHolds
  <2> QED
    BY <2>1, <2>2, <2>3, <2>4 DEF Same
<1>6. \A i, j \in 1..n - 1 : i < j => nd2[ch2[i]].maxId < nd2[ch2[j]].minId
  <2> SUFFICES ASSUME NEW i \in 1..n - 1, NEW j \in 1..n - 1, i < j
               PROVE  nd2[ch2[i]].maxId < nd2[ch2[j]].minId
    OBVIOUS
  <2>1. from(i) \in 1..n /\ from(j) \in 1..n /\ from(i) # k /\ from(j) # k /\ from(i) < from(j)
    BY <1>1, <1>2
  <2>2. nd[ch[from(i)]].maxId < nd[ch[from(j)]].minId
    BY <2>1 DEF KeptBut, n
  <2> QED
    BY <1>5, <2>2
<1>7. \A i, j \in 1..n - 1 : j = i + 1 => Half(nd2[ch2[i]]) \/ Half(nd2[ch2[j]])
  <2> SUFFICES ASSUME NEW i \in 1..n - 1, NEW j \in 1..n - 1, j = i + 1
               PROVE  Half(nd2[ch2[i]]) \/ Half(nd2[ch2[j]])
    OBVIOUS
  <2>1. /\ from(i) \in 1..n /\ from(j) \in 1..n /\ from(i) # k /\ from(j) # k
        /\ from(j) = from(i) + 1 \/ (from(i) = k - 1 /\ from(j) = k + 1)
    BY <1>1, <1>3
  <2>2. Half(nd[ch[from(i)]]) \/ Half(nd[ch[from(j)]])
    BY <2>1 DEF KeptBut, n
  <2> QED
    BY <1>5, <2>2
<1>8. Sound(ch2, nd2, ar2, top, m)
  BY <1>1, <1>5, <1>6, <1>7 DEF Sound, Kept
<1>9. \A id : id \in KnownOf(ch2, nd2) <=> \E i \in 1..n : i # k /\ Has(nd[ch[i]], id)
  <2>1. \A id : id \in KnownOf(ch2, nd2) <=> \E j \in 1..n - 1 : Has(nd2[ch2[j]], id)
    BY <1>1, KnownIs
  <2>2. \A id : \A j \in 1..n - 1 : Has(nd2[ch2[j]], id) <=> Has(nd[ch[from(j)]], id)
    BY <1>5
  <2> QED
    BY <2>1, <2>2, <1>1, <1>4
<1> QED
  BY <1>8, <1>9 DEF n, ch2

----------------------------------------------------------------------------
(* Two nodes have no id in common.                                         *)
LEMMA HeldOnce ==
  ASSUME NEW ch, NEW nd, NEW ar, NEW top \in Nat, NEW m \in BOOLEAN, Sound(ch, nd, ar, top, m),
         NEW i \in 1..Len(ch), NEW j \in 1..Len(ch), NEW id, Has(nd[ch[i]], id), Has(nd[ch[j]], id)
  PROVE  i = j
<1>1. /\ nd[ch[i]] \in Node /\ nd[ch[j]] \in Node
      /\ Holds(nd[ch[i]], top, m) /\ Holds(nd[ch[j]], top, m)
      /\ \A k, l \in 1..Len(ch) : k < l => nd[ch[k]].maxId < nd[ch[l]].minId
  BY ListTypes DEF Kept, Sound
<1>2. /\ id \in Nat /\ nd[ch[i]].minId <= id /\ id <= nd[ch[i]].maxId
      /\ nd[ch[j]].minId <= id /\ id <= nd[ch[j]].maxId
  BY <1>1, HeldBetween
<1>3. /\ nd[ch[j]].minId \in Nat /\ nd[ch[j]].maxId \in Nat
      /\ nd[ch[i]].minId \in Nat /\ nd[ch[i]].maxId \in Nat
  BY <1>1, NodeTypes, IdsAreNaturals
<1>4. /\ j < i => nd[ch[j]].maxId < nd[ch[i]].minId
      /\ i < j => nd[ch[i]].maxId < nd[ch[j]].minId
  BY <1>1
<1>5. ~(j < i) /\ ~(i < j)
  BY <1>2, <1>3, <1>4
<1> QED
  BY <1>5

(* A node filled with some of its ids, or of its own and those of the next *)
(* one, stays between its neighbours.                                      *)
LEMMA FilledBetween ==
  ASSUME NEW y \in Node, NEW top \in Nat, NEW m \in BOOLEAN, NEW low \in Nat, NEW high \in Nat,
         Ascending(y.relations), y.relations # <<>>,
         y.minId = y.relations[1], y.maxId = y.relations[Len(y.relations)],
         \A id : Has(y, id) => id < top /\ low <= id /\ id <= high
  PROVE  Holds(y, top, m) /\ low <= y.minId /\ y.maxId <= high
<1>1. Len(y.relations) \in Nat /\ Len(y.relations) # 0
  BY NodeTypes
<1>2. 1 \in 1..Len(y.relations) /\ Len(y.relations) \in 1..Len(y.relations)
  BY <1>1
<1>3. Has(y, y.minId) /\ Has(y, y.maxId)
  BY <1>2 DEF Has
<1>4. \A j \in 1..Len(y.relations) : y.relations[j] < top
  BY DEF Has
<1>5. Holds(y, top, m)
  BY <1>4, FilledHolds
<1> QED
  BY <1>3, <1>5

(* Shrink: a node keeps some of its ids, and is half full, or else its     *)
(* neighbours are.                                                         *)
LEMMA ShrunkSound ==
  ASSUME NEW ch, NEW nd, NEW ar, NEW top \in Nat, NEW m \in BOOLEAN, Sound(ch, nd, ar, top, m),
         NEW k \in 1..Len(ch), NEW nd2, OnlyAt(ch, nd, nd2, k),
         LET y == nd2[ch[k]]
         IN  /\ Ascending(y.relations) /\ y.relations # <<>>
             /\ y.minId = y.relations[1] /\ y.maxId = y.relations[Len(y.relations)]
             /\ \A id : Has(y, id) => Has(nd[ch[k]], id)
             /\ \/ Half(y)
                \/ /\ k + 1 \in 1..Len(ch) => Half(nd[ch[k + 1]])
                   /\ k - 1 \in 1..Len(ch) => Half(nd[ch[k - 1]])
  PROVE  Sound(ch, nd2, ar, top, m)
<1> DEFINE x == nd[ch[k]]
           y == nd2[ch[k]]
<1>1. Tables(ch, nd) /\ Numbered(ch, nd, ar) /\ Kept(ch, nd, ar, top, m)
  BY DEF Sound
<1>2. /\ k \in 1..Len(ch) /\ Len(ch) \in Nat /\ ch[k] \in Nodes /\ x \in Node /\ y \in Node
      /\ Holds(x, top, m)
  BY <1>1, ListTypes DEF OnlyAt, Kept
<1>3. /\ Tables(ch, nd2) /\ Numbered(ch, nd2, ar)
      /\ \A j \in 1..Len(ch) : j # k => nd2[ch[j]] = nd[ch[j]]
  BY <1>1, <1>2, OneChanged
<1>4. x.minId \in Nat /\ x.maxId \in Nat
  BY <1>2, NodeTypes, IdsAreNaturals
<1>5. Holds(y, top, m) /\ x.minId <= y.minId /\ y.maxId <= x.maxId /\ y.relations # <<>>
  <2>1. \A id : Has(y, id) => id < top /\ x.minId <= id /\ id <= x.maxId
    BY <1>2, HeldBetween
  <2>2. /\ Ascending(y.relations) /\ y.relations # <<>>
        /\ y.minId = y.relations[1] /\ y.maxId = y.relations[Len(y.relations)]
    OBVIOUS
  <2> HIDE DEF x, y
  <2> QED
    BY <1>2, <1>4, <2>1, <2>2, FilledBetween
<1>6. \A j \in 1..Len(ch) : Holds(nd2[ch[j]], top, m)
  BY <1>1, <1>3, <1>5 DEF Kept
<1>7. \A j \in 1..Len(ch) : nd2[ch[j]].relations = <<>> => ar = Nil /\ j = Len(ch)
  BY <1>1, <1>3, <1>5 DEF Kept
<1>8. \A i, j \in 1..Len(ch) : i < j => nd2[ch[i]].maxId < nd2[ch[j]].minId
  <2> SUFFICES ASSUME NEW i \in 1..Len(ch), NEW j \in 1..Len(ch), i < j
               PROVE  nd2[ch[i]].maxId < nd2[ch[j]].minId
    OBVIOUS
  <2>1. nd[ch[i]].maxId < nd[ch[j]].minId
    BY <1>1 DEF Kept
  <2>2. /\ nd[ch[i]].maxId \in Nat /\ nd[ch[j]].minId \in Nat
        /\ nd2[ch[i]].maxId \in Nat /\ nd2[ch[j]].minId \in Nat
    BY <1>1, <1>3, ListTypes, NodeTypes, IdsAreNaturals
  <2>4. nd2[ch[i]].maxId <= nd[ch[i]].maxId
    BY <1>3, <1>5, <2>2
  <2>5. nd[ch[j]].minId <= nd2[ch[j]].minId
    BY <1>3, <1>5, <2>2
  <2> DEFINE e == nd[ch[i]].maxId
             f == nd[ch[j]].minId
             u == nd2[ch[i]].maxId
             v == nd2[ch[j]].minId
  <2>6. e \in Nat /\ f \in Nat /\ u \in Nat /\ v \in Nat /\ e < f /\ u <= e /\ f <= v
    BY <2>1, <2>2, <2>4, <2>5
  <2> HIDE DEF e, f, u, v
  <2>7. u < v
    BY <2>6
  <2> QED
    BY <2>7 DEF u, v
<1>9. \A i, j \in 1..Len(ch) : j = i + 1 => Half(nd2[ch[i]]) \/ Half(nd2[ch[j]])
  <2> SUFFICES ASSUME NEW i \in 1..Len(ch), i + 1 \in 1..Len(ch)
               PROVE  Half(nd2[ch[i]]) \/ Half(nd2[ch[i + 1]])
    OBVIOUS
  <2>1. CASE i = k
    <3>1. i + 1 # k
      BY <1>2, <2>1
    <3> QED
      BY <1>3, <2>1, <3>1
  <2>2. CASE i + 1 = k
    <3>1. i # k /\ i = k - 1
      BY <1>2, <2>2
    <3> QED
      BY <1>3, <2>2, <3>1
  <2>3. CASE i # k /\ i + 1 # k
    BY <1>1, <1>3, <2>3 DEF Kept
  <2> QED
    BY <2>1, <2>2, <2>3
<1> QED
  BY <1>3, <1>6, <1>7, <1>8, <1>9 DEF Kept, Sound

(* Two neighbours p and p + 1, of which one has lost an id, are put        *)
(* together in one of them, a; the other, k, is to be unlinked.            *)
Merges(ch, nd, p, r, s, a, k, nd2) ==
  /\ p \in 1..Len(ch) /\ p + 1 \in 1..Len(ch)
  /\ a \in {p, p + 1} /\ k \in {p, p + 1} /\ a # k
  /\ r \in Seq(Ids) /\ Ascending(r) /\ 2 * Len(r) < Chunk /\ \A id : In(r, id) => Has(nd[ch[p]], id)
  /\ s \in Seq(Ids) /\ Ascending(s) /\ 2 * Len(s) < Chunk /\ \A id : In(s, id) => Has(nd[ch[p + 1]], id)
  /\ Len(r) + Len(s) = Len(nd[ch[p]].relations) + Len(nd[ch[p + 1]].relations) - 1
  /\ nd2 \in [Nodes -> Node]
  /\ \A n \in Nodes : n # ch[a] => nd2[n] = nd[n]
  /\ nd2[ch[a]].nodeNumber = nd[ch[a]].nodeNumber
  /\ nd2[ch[a]].relations = Joined(r, s)
  /\ nd2[ch[a]].minId = Joined(r, s)[1]
  /\ nd2[ch[a]].maxId = Joined(r, s)[Len(Joined(r, s))]

Merged(ch, nd, ar, top, m, r, s, a, k, nd2) ==
  /\ Tables(ch, nd2) /\ Numbered(ch, nd2, ar) /\ KeptBut(ch, nd2, k, top, m)
  /\ \A j \in 1..Len(ch) : j # a => nd2[ch[j]] = nd[ch[j]]
  /\ \A id : Has(nd2[ch[a]], id) <=> In(r, id) \/ In(s, id)

LEMMA MergedKept ==
  ASSUME NEW ch, NEW nd, NEW ar, NEW top \in Nat, NEW m \in BOOLEAN, Sound(ch, nd, ar, top, m), ar # Nil,
         NEW p, NEW r, NEW s, NEW a, NEW k, NEW nd2, Merges(ch, nd, p, r, s, a, k, nd2)
  PROVE  Merged(ch, nd, ar, top, m, r, s, a, k, nd2)
<1> DEFINE x == nd[ch[p]]
           z == nd[ch[p + 1]]
           y == nd2[ch[a]]
           n == Len(ch)
<1>1. Tables(ch, nd) /\ Numbered(ch, nd, ar) /\ Kept(ch, nd, ar, top, m)
  BY DEF Sound
<1>0. /\ p \in 1..n /\ p + 1 \in 1..n /\ a \in {p, p + 1} /\ k \in {p, p + 1} /\ a # k
      /\ r \in Seq(Ids) /\ Ascending(r) /\ s \in Seq(Ids) /\ Ascending(s)
      /\ Len(r) + Len(s) = Len(x.relations) + Len(z.relations) - 1
      /\ 2 * Len(r) < Chunk /\ 2 * Len(s) < Chunk
  BY DEF Merges
<1>2. /\ n \in Nat /\ p \in 1..n /\ p + 1 \in 1..n /\ a \in 1..n /\ k \in 1..n
      /\ \A i \in 1..n : /\ nd[ch[i]] \in Node /\ Holds(nd[ch[i]], top, m) /\ nd[ch[i]].relations # <<>>
                         /\ nd[ch[i]].minId \in Nat /\ nd[ch[i]].maxId \in Nat
                         /\ ch[i] \in Nodes
  BY <1>0, <1>1, ListTypes, NodeTypes, IdsAreNaturals DEF Kept
<1>3. /\ Len(x.relations) \in Nat /\ Len(z.relations) \in Nat /\ Len(x.relations) >= 1 /\ Len(z.relations) >= 1
      /\ Len(r) \in Nat /\ Len(s) \in Nat /\ x.maxId < z.minId
      /\ Len(r) + Len(s) \in Nat /\ Len(r) + Len(s) >= 1
  <2>1. Len(x.relations) \in Nat /\ Len(z.relations) \in Nat /\ Len(x.relations) # 0 /\ Len(z.relations) # 0
    BY <1>2, NodeTypes
  <2>2. Len(r) \in Nat /\ Len(s) \in Nat
    BY <1>0, LenProperties
  <2>3. x.maxId < z.minId
    BY <1>1, <1>2 DEF Kept
  <2>4. Len(x.relations) >= 1 /\ Len(z.relations) >= 1
    BY <2>1
  <2>5. Len(r) + Len(s) \in Nat /\ Len(r) + Len(s) >= 1
    <3> DEFINE u == Len(x.relations)
               v == Len(z.relations)
    <3>1. Len(r) + Len(s) = u + v - 1 /\ u \in Nat /\ v \in Nat /\ u >= 1 /\ v >= 1
      BY <1>0, <2>1, <2>4
    <3> HIDE DEF u, v
    <3> QED
      BY <2>2, <3>1
  <2> QED
    BY <2>1, <2>2, <2>3, <2>4, <2>5
<1>4. /\ \A id : In(r, id) => id \in Nat /\ x.minId <= id /\ id <= x.maxId /\ id < top
      /\ \A id : In(s, id) => id \in Nat /\ z.minId <= id /\ id <= z.maxId /\ id < top
  <2>1. /\ \A id : In(r, id) => Has(x, id)
        /\ \A id : In(s, id) => Has(z, id)
    BY DEF Merges
  <2> HIDE DEF x, z
  <2>2. x \in Node /\ z \in Node /\ Holds(x, top, m) /\ Holds(z, top, m)
    BY <1>2 DEF x, z
  <2> QED
    BY <2>1, <2>2, HeldBetween
<1>5. \A i \in 1..Len(r), j \in 1..Len(s) : r[i] < s[j]
  <2> TAKE i \in 1..Len(r), j \in 1..Len(s)
  <2>1. In(r, r[i]) /\ In(s, s[j])
    BY DEF In
  <2>2. r[i] \in Nat /\ r[i] <= x.maxId /\ s[j] \in Nat /\ z.minId <= s[j]
    BY <1>4, <2>1
  <2>3. x.maxId \in Nat /\ z.minId \in Nat /\ x.maxId < z.minId
    BY <1>2, <1>3
  <2> DEFINE e == r[i]
             f == s[j]
             u == x.maxId
             v == z.minId
  <2>4. e \in Nat /\ f \in Nat /\ u \in Nat /\ v \in Nat /\ e <= u /\ u < v /\ v <= f
    BY <2>2, <2>3
  <2> HIDE DEF e, f, u, v
  <2>5. e < f
    BY <2>4
  <2> QED
    BY <2>5 DEF e, f
<1>6. Len(r) + Len(s) <= Chunk
  BY <1>0, <1>3, ChunkSize
<1> DEFINE t == Joined(r, s)
<1>7. /\ t \in Seq(Ids) /\ Ascending(t) /\ Len(t) = Len(r) + Len(s)
      /\ \A id : In(t, id) <=> In(r, id) \/ In(s, id)
  BY <1>0, <1>5, <1>6, JoinedBoth
<1>8. y.relations = t /\ y.minId = t[1] /\ y.maxId = t[Len(t)] /\ y \in Node
  BY <1>2 DEF Merges
<1> HIDE DEF t, x, y, z, n
<1>9. t # <<>> /\ Len(t) <= Chunk
  <2>1. Len(t) # 0
    BY <1>3, <1>7
  <2> QED
    BY <1>6, <1>7, <2>1, EmptySeq
<1>10. \A id : Has(y, id) <=> In(t, id)
  BY <1>8 DEF Has, In
<1>11. /\ x.minId \in Nat /\ z.maxId \in Nat /\ x.maxId \in Nat /\ z.minId \in Nat
       /\ x.minId <= x.maxId /\ z.minId <= z.maxId
  <2>1. x \in Node /\ z \in Node /\ Holds(x, top, m) /\ Holds(z, top, m)
    BY <1>2 DEF x, z
  <2>2. 1 \in 1..Len(x.relations) /\ 1 \in 1..Len(z.relations)
    BY <1>3
  <2>3. Has(x, x.relations[1]) /\ Has(z, z.relations[1])
    BY <2>2 DEF Has
  <2>4. /\ x.relations[1] \in Nat /\ x.minId <= x.relations[1] /\ x.relations[1] <= x.maxId
        /\ z.relations[1] \in Nat /\ z.minId <= z.relations[1] /\ z.relations[1] <= z.maxId
    BY <2>1, <2>3, HeldBetween
  <2>5. x.minId \in Nat /\ z.maxId \in Nat /\ x.maxId \in Nat /\ z.minId \in Nat
    BY <1>2 DEF x, z
  <2> QED
    BY <2>4, <2>5
<1>12. Holds(y, top, m) /\ x.minId <= y.minId /\ y.maxId <= z.maxId /\ y.relations # <<>>
  <2>1. \A id : Has(y, id) => id < top /\ x.minId <= id /\ id <= z.maxId
    BY <1>3, <1>4, <1>7, <1>10, <1>11
  <2>2. /\ Ascending(y.relations) /\ y.relations # <<>>
        /\ y.minId = y.relations[1] /\ y.maxId = y.relations[Len(y.relations)]
    BY <1>7, <1>8, <1>9
  <2> QED
    BY <1>8, <1>11, <2>1, <2>2, FilledBetween
<1>13. Half(x) \/ Half(z) => Half(y)
  <2>1. Len(y.relations) = Len(x.relations) + Len(z.relations) - 1
    BY <1>0, <1>7, <1>8
  <2>2. Len(y.relations) >= Len(x.relations) /\ Len(y.relations) >= Len(z.relations)
    BY <1>3, <2>1
  <2>3. Len(y.relations) \in Nat /\ Len(x.relations) \in Nat /\ Len(z.relations) \in Nat
    BY <1>3, <1>7, <1>8
  <2> QED
    BY <2>2, <2>3, ChunkSize DEF Half
<1>14. OnlyAt(ch, nd, nd2, a)
  BY <1>8, <1>9 DEF OnlyAt, y, Merges
<1>15. /\ Tables(ch, nd2) /\ Numbered(ch, nd2, ar)
       /\ \A j \in 1..n : j # a => nd2[ch[j]] = nd[ch[j]]
  BY <1>1, <1>2, <1>14, OneChanged DEF n
<1>16. \A i \in 1..n : i # k => Holds(nd2[ch[i]], top, m) /\ nd2[ch[i]].relations # <<>>
  BY <1>2, <1>12, <1>15 DEF y
<1>17. \A i, j \in 1..n : i < j /\ i # k /\ j # k => nd2[ch[i]].maxId < nd2[ch[j]].minId
  <2> SUFFICES ASSUME NEW i \in 1..n, NEW j \in 1..n, i < j, i # k, j # k
               PROVE  nd2[ch[i]].maxId < nd2[ch[j]].minId
    OBVIOUS
  <2>1. \A e, f \in 1..n : e < f => nd[ch[e]].maxId < nd[ch[f]].minId
    BY <1>1 DEF Kept, n
  <2>2. y.minId \in Nat /\ y.maxId \in Nat
    BY <1>8, NodeTypes, IdsAreNaturals
  <2>3. CASE i = a
    <3>1. p + 1 < j /\ j # a
      BY <1>0, <1>2, <2>3
    <3>2. z.maxId < nd[ch[j]].minId
      BY <1>2, <2>1, <3>1 DEF z
    <3>3. nd[ch[j]].minId \in Nat
      BY <1>2
    <3> QED
      <4>1. nd2[ch[i]] = y /\ nd2[ch[j]] = nd[ch[j]]
        BY <1>15, <2>3, <3>1 DEF y
      <4>2. y.maxId < nd[ch[j]].minId
        BY <1>11, <1>12, <2>2, <3>2, <3>3
      <4> QED
        BY <4>1, <4>2
  <2>4. CASE j = a
    <3>1. i < p /\ i # a
      BY <1>0, <1>2, <2>4
    <3>2. nd[ch[i]].maxId < x.minId
      BY <1>2, <2>1, <3>1 DEF x
    <3>3. nd[ch[i]].maxId \in Nat
      BY <1>2
    <3> QED
      <4>1. nd2[ch[j]] = y /\ nd2[ch[i]] = nd[ch[i]]
        BY <1>15, <2>4, <3>1 DEF y
      <4>2. nd[ch[i]].maxId < y.minId
        BY <1>11, <1>12, <2>2, <3>2, <3>3
      <4> QED
        BY <4>1, <4>2
  <2>5. CASE i # a /\ j # a
    BY <1>15, <2>1, <2>5
  <2> QED
    BY <2>3, <2>4, <2>5
<1>18. \A i, j \in 1..n :
         i # k /\ j # k /\ (j = i + 1 \/ (i = k - 1 /\ j = k + 1)) => Half(nd2[ch[i]]) \/ Half(nd2[ch[j]])
  <2> SUFFICES ASSUME NEW i \in 1..n, NEW j \in 1..n, i # k, j # k, j = i + 1 \/ (i = k - 1 /\ j = k + 1)
               PROVE  Half(nd2[ch[i]]) \/ Half(nd2[ch[j]])
    OBVIOUS
  <2>1. \A e \in 1..n : e + 1 \in 1..n => Half(nd[ch[e]]) \/ Half(nd[ch[e + 1]])
    BY <1>1 DEF Kept, n
  <2>2. CASE i = a
    <3>1. j = p + 2 /\ j # a /\ (p + 1) + 1 = j
      BY <1>0, <1>2, <2>2
    <3>2. Half(z) \/ Half(nd[ch[j]])
      BY <1>2, <2>1, <3>1 DEF z
    <3> QED
      BY <1>13, <1>15, <2>2, <3>1, <3>2 DEF y
  <2>3. CASE j = a
    <3>1. i = p - 1 /\ i # a /\ i + 1 = p
      <4>1. p \in Int /\ i \in Int /\ j \in Int
        BY <1>0, <1>2
      <4>2. CASE a = p /\ k = p + 1
        BY <2>3, <4>1, <4>2
      <4>3. CASE a = p + 1 /\ k = p
        BY <2>3, <4>1, <4>3
      <4> QED
        BY <1>0, <4>2, <4>3
    <3>2. Half(nd[ch[i]]) \/ Half(x)
      BY <1>2, <2>1, <3>1 DEF x
    <3> QED
      BY <1>13, <1>15, <2>3, <3>1, <3>2 DEF y
  <2>4. CASE i # a /\ j # a
    <3>1. j = i + 1
      BY <1>0, <1>2, <2>4
    <3> QED
      BY <1>15, <2>1, <2>4, <3>1
  <2> QED
    BY <2>2, <2>3, <2>4
<1> QED
  BY <1>7, <1>10, <1>15, <1>16, <1>17, <1>18 DEF KeptBut, Merged, n, y

----------------------------------------------------------------------------
(* The actions, on the variables.                                          *)
LEMMA NilIs ==
  /\ Nil \notin Nodes /\ MaxNodes \in Nat /\ Nil \notin [1..MaxNodes -> Nodes \cup {Nil}]
  /\ Nobody \notin Ids /\ 0 \in Ids
<1>1. MaxNodes \in Nat
  BY IdListAssumption, FS_CardinalityType DEF MaxNodes
<1> QED
  BY <1>1, IdListAssumption DEF MaxNodes, Ids

LEMMA SmallIs ==
  ASSUME NEW r, Len(r) \in Nat
  PROVE  Small(r) <=> 2 * Len(r) < Chunk
BY ChunkSize DEF Small

(* The fields of a node that is given relations.                           *)
LEMMA WithIs ==
  ASSUME NEW n \in Nodes, node \in [Nodes -> Node], NEW r \in Seq(Ids), r # <<>>
  PROVE  /\ With(n, r) \in Node
         /\ With(n, r).relations = r /\ With(n, r).minId = r[1] /\ With(n, r).maxId = r[Len(r)]
         /\ With(n, r).nodeNumber = node[n].nodeNumber
<1>1. Len(r) \in Nat /\ Len(r) # 0
  BY LenProperties, EmptySeq
<1>2. 1 \in 1..Len(r) /\ Len(r) \in 1..Len(r)
  BY <1>1
<1>3. r[1] \in Ids /\ r[Len(r)] \in Ids
  BY <1>2, ElementOfSeq
<1>4. Head(r) = r[1] /\ Last(r) = r[Len(r)]
  BY DEF Last
<1>5. With(n, r) = [node[n] EXCEPT !.relations = r, !.minId = r[1], !.maxId = r[Len(r)]]
  BY <1>4, Zenon DEF With
<1>6. node[n] \in Node
  OBVIOUS
<1> QED
  BY <1>3, <1>5, <1>6 DEF Node

(* The neighbours of a node.                                               *)
LEMMA Neighbours ==
  ASSUME IInv, NEW c \in 1..Len(chain)
  PROVE  /\ PNext(chain[c]) = IF c = Len(chain) THEN Nil ELSE chain[c + 1]
         /\ PPrevious(chain[c]) = IF c = 1 THEN Nil ELSE chain[c - 1]
         /\ \A i \in 1..Len(chain) : chain[i] \in Nodes /\ chain[i] # Nil
         /\ Len(chain) \in Nat
BY PlaceIs, ListTypes, NilIs DEF PNext, PPrevious, IInv, Sound

(* What a release finds.                                                   *)
Releasing(c) ==
  /\ c \in 1..Len(chain) /\ cursor = chain[c] /\ pNodes # Nil /\ goal >= Permanent
  /\ Has(node[cursor], goal)
  /\ Remaining \in Seq(Ids) /\ Ascending(Remaining)
  /\ Len(Remaining) = Len(node[cursor].relations) - 1
  /\ \A id : In(Remaining, id) <=> Has(node[cursor], id) /\ id # goal

LEMMA ReleasesIs ==
  ASSUME IInv, Releases
  PROVE  \E c : Releasing(c)
<1>1. purpose = "release" /\ Arrived /\ Index # 0
  BY DEF Releases
<1>2. PICK c \in 1..Len(chain) :
        /\ cursor = chain[c] /\ goal \in Ids /\ pNodes # Nil
        /\ Index \in 1..Len(node[cursor].relations) /\ node[cursor].relations[Index] = goal
  BY <1>1, ArrivedRight
<1>3. goal >= Permanent
  BY <1>1 DEF IInv, Searching, Arrived
<1>4. node[cursor] \in Node /\ Ascending(node[cursor].relations)
  BY <1>2, ListTypes DEF IInv, Sound, Kept, Holds
<1>5. node[cursor].relations \in Seq(Ids)
  BY <1>4, NodeTypes
<1>6. /\ Remaining \in Seq(Ids) /\ Ascending(Remaining)
      /\ Len(Remaining) = Len(node[cursor].relations) - 1
      /\ \A id : In(Remaining, id) <=> In(node[cursor].relations, id) /\ id # goal
  BY <1>2, <1>4, <1>5, RemovedOne DEF Remaining
<1>7. Has(node[cursor], goal)
  BY <1>2 DEF Has
<1> QED
  BY <1>2, <1>3, <1>6, <1>7 DEF Releasing, In, Has

LEMMA DropIs ==
  ASSUME IInv, NEW k \in 1..Len(chain), NEW d, d = chain[k], NEW m, m[d].nodeNumber = k, Drop(d, m)
  PROVE  /\ chain' = RemoveAt(chain, k)
         /\ Unlinked(Len(chain), m, pNodes, chain[k], k, node', pNodes')
         /\ nodeCount' = Len(chain) - 1 /\ pLast' = pNodes'[Len(chain) - 1]
         /\ maxId' = node'[pLast'].maxId
         /\ Len(chain) - 1 \in Nat => room' \in Nat
<1>1. Place(d) = k
  BY PlaceIs
<1>2. nodeCount = Len(chain) /\ room \in Nat
  BY DEF IInv, Types
<1>3. Unlinked(nodeCount, m, pNodes, d, m[d].nodeNumber, node', pNodes')
  BY Zenon DEF Drop, Unlinked, Up, Blank
<1>4. /\ chain' = RemoveAt(chain, Place(d)) /\ nodeCount' = nodeCount - 1
      /\ room' = IF (nodeCount - 1) % ListChunk = 0 THEN nodeCount - 1 ELSE room
      /\ pLast' = pNodes'[nodeCount - 1] /\ maxId' = node'[pLast'].maxId
  BY Zenon DEF Drop
<1> QED
  BY <1>1, <1>2, <1>3, <1>4

(* A release answers the search, and the id is known no more.              *)
Freed ==
  /\ IInv'
  /\ goal \in KnownOf(chain, node)
  /\ KnownOf(chain', node') = KnownOf(chain, node) \ {goal}

LEMMA AfterRelease ==
  ASSUME IInv, Releases, Sound(chain', node', pNodes', counter, ~damaged), pNodes' # Nil,
         KnownOf(chain', node') = KnownOf(chain, node) \ {goal},
         nodeCount' = Len(chain'), pLast' = chain'[Len(chain')], maxId' = node'[pLast'].maxId, room' \in Nat
  PROVE  Freed
<1>1. /\ goal' = Nobody /\ cursor' = Nil /\ found' = TRUE
      /\ UNCHANGED <<purpose, counter, damaged>>
  BY DEF Releases, Done
<1>2. Sound(chain', node', pNodes', counter', ~damaged')
  BY <1>1
<1>3. maxId' \in Ids
  <2>1. node'[pLast'] \in Node
    BY ListTypes DEF Sound
  <2> QED
    BY <2>1, NodeTypes
<1>4. Types'
  BY <1>1, <1>3 DEF IInv, Types
<1>5. PICK c : Releasing(c)
  BY ReleasesIs
<1>6. Whole'
  <2>1. 0..Permanent - 1 \subseteq KnownOf(chain, node)
    BY DEF IInv, Whole
  <2>2. goal \notin 0..Permanent - 1
    <3>1. goal >= Permanent /\ Permanent \in Nat
      BY <1>5, IdListAssumption DEF Releasing
    <3>2. goal \in Nat
      BY IdsAreNaturals DEF IInv, Searching, Releases, Arrived
    <3> QED
      BY <3>1, <3>2
  <2>3. 0..Permanent - 1 \subseteq KnownOf(chain', node')
    BY <2>1, <2>2
  <2> QED
    BY <2>3 DEF Whole
<1>7. Searching'
  BY <1>1 DEF Searching
<1>8. goal \in KnownOf(chain, node)
  BY <1>5, KnownIs DEF Releasing, IInv, Sound
<1>9. IInv'
  BY <1>2, <1>4, <1>6, <1>7 DEF IInv
<1> QED
  BY <1>8, <1>9 DEF Freed

(* What unlinking the node at place k does, if m are the fields of the     *)
(* nodes before that.                                                      *)
Left(m, k) ==
  /\ Tables(chain, m) /\ Numbered(chain, m, pNodes) /\ KeptBut(chain, m, k, counter, ~damaged)
  /\ \A id : (\E i \in 1..Len(chain) : i # k /\ Has(m[chain[i]], id)) <=> id \in KnownOf(chain, node) /\ id # goal

LEMMA DropSound ==
  ASSUME IInv, Releases, NEW k \in 1..Len(chain), NEW m, Drop(chain[k], m), Len(chain) >= 2, pNodes # Nil,
         Left(m, k)
  PROVE  Freed
<1>0. Tables(chain, m) /\ Numbered(chain, m, pNodes) /\ KeptBut(chain, m, k, counter, ~damaged)
  BY DEF Left
<1>1. m[chain[k]].nodeNumber = k
  BY <1>0 DEF Numbered
<1>2. /\ chain' = RemoveAt(chain, k)
      /\ Unlinked(Len(chain), m, pNodes, chain[k], k, node', pNodes')
      /\ nodeCount' = Len(chain) - 1 /\ pLast' = pNodes'[Len(chain) - 1]
      /\ maxId' = node'[pLast'].maxId
      /\ Len(chain) - 1 \in Nat => room' \in Nat
  BY <1>1, DropIs
<1>3. /\ Len(chain) \in Nat /\ Len(chain') = Len(chain) - 1 /\ pNodes'[Len(chain')] = chain'[Len(chain')]
      /\ pNodes' \in [1..MaxNodes -> Nodes \cup {Nil}]
  <2> DEFINE ch2 == RemoveAt(chain, k)
  <2>1. /\ Len(chain) \in Nat /\ Len(ch2) = Len(chain) - 1 /\ pNodes'[Len(ch2)] = ch2[Len(ch2)]
        /\ pNodes' \in [1..MaxNodes -> Nodes \cup {Nil}]
    <3>1. Unlinked(Len(chain), m, pNodes, chain[k], k, node', pNodes')
      BY <1>2
    <3> QED
      BY <1>0, <3>1, UnlinkedTables
  <2>2. chain' = ch2
    BY <1>2
  <2> HIDE DEF ch2
  <2> QED
    BY <2>1, <2>2
<1>4. /\ Sound(chain', node', pNodes', counter, ~damaged)
      /\ \A id : id \in KnownOf(chain', node') <=> \E i \in 1..Len(chain) : i # k /\ Has(m[chain[i]], id)
  BY <1>0, <1>2, UnlinkedSound
<1>5. KnownOf(chain', node') = KnownOf(chain, node) \ {goal}
  <2>1. \A id : id \in KnownOf(chain', node') <=> id \in KnownOf(chain, node) /\ id # goal
    BY <1>4 DEF Left
  <2> QED
    BY <2>1
<1>6. pNodes' # Nil
  BY <1>3, NilIs
<1>7. room' \in Nat /\ nodeCount' = Len(chain') /\ pLast' = chain'[Len(chain')]
  BY <1>2, <1>3
<1> QED
  BY <1>2, <1>4, <1>5, <1>6, <1>7, AfterRelease

ButGoal(p, r, s) ==
  /\ \A id : In(r, id) <=> Has(node[chain[p]], id) /\ id # goal
  /\ \A id : In(s, id) <=> Has(node[chain[p + 1]], id) /\ id # goal
  /\ \A i \in 1..Len(chain) : Has(node[chain[i]], goal) => i \in {p, p + 1}

LEMMA MergeSound ==
  ASSUME IInv, Releases, NEW p, NEW r, NEW s, NEW a, NEW k, NEW m,
         Merges(chain, node, p, r, s, a, k, m), Drop(chain[k], m), pNodes # Nil, ButGoal(p, r, s)
  PROVE  Freed
<1>1. p \in 1..Len(chain) /\ p + 1 \in 1..Len(chain) /\ a \in {p, p + 1} /\ k \in {p, p + 1} /\ a # k
  BY DEF Merges
<1>2. Len(chain) \in Nat /\ Len(chain) >= 2 /\ k \in 1..Len(chain)
  <2>1. Len(chain) \in Nat
    BY ListTypes DEF IInv, Sound
  <2> QED
    BY <1>1, <2>1
<1>3. /\ Tables(chain, m) /\ Numbered(chain, m, pNodes) /\ KeptBut(chain, m, k, counter, ~damaged)
      /\ \A j \in 1..Len(chain) : j # a => m[chain[j]] = node[chain[j]]
      /\ \A id : Has(m[chain[a]], id) <=> In(r, id) \/ In(s, id)
  <2>1. counter \in Nat /\ (~damaged) \in BOOLEAN /\ Sound(chain, node, pNodes, counter, ~damaged)
    BY DEF IInv, Types
  <2>2. PICK e \in BOOLEAN : e = ~damaged
    BY <2>1
  <2>3. Sound(chain, node, pNodes, counter, e)
    BY <2>1, <2>2
  <2>4. KeptBut(chain, m, k, counter, e) => KeptBut(chain, m, k, counter, ~damaged)
    BY <2>2
  <2>5. Merged(chain, node, pNodes, counter, e, r, s, a, k, m)
    <3>1. counter \in Nat /\ e \in BOOLEAN
      BY <2>1
    <3> QED
      BY <3>1, <2>3, MergedKept
  <2> QED
    BY <2>4, <2>5 DEF Merged
<1>4. \A id : id \in KnownOf(chain, node) <=> \E i \in 1..Len(chain) : Has(node[chain[i]], id)
  BY KnownIs DEF IInv, Sound
<1>5. \A i \in 1..Len(chain) : i # k => i = a \/ i \notin {p, p + 1}
  BY <1>1
<1>6. \A id : (\E i \in 1..Len(chain) : i # k /\ Has(m[chain[i]], id)) <=> id \in KnownOf(chain, node) /\ id # goal
  <2> SUFFICES ASSUME NEW id
               PROVE  (\E i \in 1..Len(chain) : i # k /\ Has(m[chain[i]], id)) <=>
                      id \in KnownOf(chain, node) /\ id # goal
    OBVIOUS
  <2>1. ASSUME NEW i \in 1..Len(chain), i # k, Has(m[chain[i]], id)
        PROVE  id \in KnownOf(chain, node) /\ id # goal
    <3>1. CASE i = a
      BY <1>1, <1>3, <1>4, <2>1, <3>1 DEF ButGoal
    <3>2. CASE i # a
      <4>1. Has(node[chain[i]], id) /\ i \notin {p, p + 1}
        BY <1>3, <1>5, <2>1, <3>2
      <4>2. id # goal
        BY <4>1 DEF ButGoal
      <4> QED
        BY <1>4, <4>1, <4>2
    <3> QED
      BY <3>1, <3>2
  <2>2. ASSUME NEW i \in 1..Len(chain), Has(node[chain[i]], id), id # goal
        PROVE  \E j \in 1..Len(chain) : j # k /\ Has(m[chain[j]], id)
    <3>1. CASE i \in {p, p + 1}
      <4>1. Has(m[chain[a]], id)
        BY <1>3, <2>2, <3>1 DEF ButGoal
      <4> QED
        BY <1>1, <4>1
    <3>2. CASE i \notin {p, p + 1}
      BY <1>1, <1>3, <2>2, <3>2
    <3> QED
      BY <3>1, <3>2
  <2> QED
    BY <1>4, <2>1, <2>2
<1>7. Left(m, k)
  BY <1>3, <1>6 DEF Left
<1> QED
  BY <1>2, <1>7, DropSound

(* Two sequences put together are relations of a node.                     *)
LEMMA JoinedIds ==
  ASSUME NEW r \in Seq(Ids), NEW s \in Seq(Ids), 2 * Len(r) < Chunk, 2 * Len(s) < Chunk,
         Len(r) + Len(s) # 0
  PROVE  Joined(r, s) \in Seq(Ids) /\ Joined(r, s) # <<>>
<1>1. Len(r) \in Nat /\ Len(s) \in Nat
  BY LenProperties
<1>2. Len(r) + Len(s) <= Chunk
  BY <1>1, ChunkSize
<1>3. Joined(r, s) = r \o s
  BY <1>2 DEF Joined
<1>4. r \o s \in Seq(Ids) /\ Len(r \o s) = Len(r) + Len(s)
  BY ConcatProperties
<1>5. r \o s # <<>>
  BY <1>4, EmptySeq
<1> QED
  BY <1>3, <1>4, <1>5

(* What holds when a release has found its relation.                       *)
LEMMA WhenReleasing ==
  ASSUME IInv, NEW c, Releasing(c)
  PROVE  /\ c \in 1..Len(chain) /\ cursor = chain[c] /\ pNodes # Nil /\ Len(chain) \in Nat
         /\ Remaining \in Seq(Ids) /\ Ascending(Remaining) /\ Len(Remaining) \in Nat
         /\ Len(Remaining) = Len(node[chain[c]].relations) - 1
         /\ \A i \in 1..Len(chain) :
              /\ chain[i] \in Nodes /\ chain[i] # Nil
              /\ node[chain[i]] \in Node /\ node[chain[i]].nodeNumber = i
              /\ node[chain[i]].relations \in Seq(Ids) /\ Ascending(node[chain[i]].relations)
              /\ Len(node[chain[i]].relations) \in Nat /\ Len(node[chain[i]].relations) >= 1
              /\ Has(node[chain[i]], goal) <=> i = c
         /\ node \in [Nodes -> Node]
<1>1. /\ c \in 1..Len(chain) /\ cursor = chain[c] /\ pNodes # Nil /\ Has(node[chain[c]], goal)
      /\ Remaining \in Seq(Ids) /\ Ascending(Remaining)
      /\ Len(Remaining) = Len(node[chain[c]].relations) - 1
  BY DEF Releasing
<1>2. Len(Remaining) \in Nat
  BY <1>1, LenProperties
<1>3. Tables(chain, node) /\ Numbered(chain, node, pNodes) /\ Kept(chain, node, pNodes, counter, ~damaged)
  BY DEF IInv, Sound
<1>4. ASSUME NEW i \in 1..Len(chain)
      PROVE  /\ chain[i] \in Nodes /\ chain[i] # Nil
             /\ node[chain[i]] \in Node /\ node[chain[i]].nodeNumber = i
             /\ node[chain[i]].relations \in Seq(Ids) /\ Ascending(node[chain[i]].relations)
             /\ Len(node[chain[i]].relations) \in Nat /\ Len(node[chain[i]].relations) >= 1
             /\ Has(node[chain[i]], goal) <=> i = c
  <2>1. chain[i] \in Nodes /\ node[chain[i]] \in Node
    BY <1>3, ListTypes
  <2>2. chain[i] # Nil
    BY <2>1, NilIs
  <2>3. node[chain[i]].nodeNumber = i
    BY <1>3 DEF Numbered
  <2>4. Ascending(node[chain[i]].relations) /\ node[chain[i]].relations # <<>>
    BY <1>1, <1>3 DEF Kept, Holds
  <2>5. node[chain[i]].relations \in Seq(Ids) /\ Len(node[chain[i]].relations) \in Nat
    BY <2>1, NodeTypes
  <2>6. Len(node[chain[i]].relations) # 0
    BY <2>1, <2>4, NodeTypes
  <2>7. Len(node[chain[i]].relations) >= 1
    BY <2>5, <2>6
  <2>8. Has(node[chain[i]], goal) => i = c
    <3>1. counter \in Nat /\ (~damaged) \in BOOLEAN /\ Sound(chain, node, pNodes, counter, ~damaged)
      BY DEF IInv, Types
    <3> QED
      BY <1>1, <3>1, HeldOnce
  <2> QED
    BY <1>1, <2>1, <2>2, <2>3, <2>4, <2>5, <2>7, <2>8
<1>5. Len(chain) \in Nat /\ node \in [Nodes -> Node]
  BY <1>3, ListTypes DEF Tables
<1> QED
  BY <1>1, <1>2, <1>4, <1>5

LEMMA MergeNextSound ==
  ASSUME IInv, MergeNext
  PROVE  Freed
<1>1. Releases /\ MergeableNext
  BY DEF MergeNext
<1>2. PICK c : Releasing(c)
  BY <1>1, ReleasesIs
<1> DEFINE d == chain[c + 1]
           r == Remaining
           s == node[d].relations
           m == [node EXCEPT ![cursor] = With(cursor, Joined(r, s))]
           n == Len(chain)
<1>3. /\ c \in 1..n /\ cursor = chain[c] /\ pNodes # Nil /\ n \in Nat
      /\ r \in Seq(Ids) /\ Ascending(r) /\ Len(r) \in Nat /\ Len(r) = Len(node[chain[c]].relations) - 1
      /\ node \in [Nodes -> Node] /\ cursor \in Nodes
  BY <1>2, WhenReleasing
<1>4. PNext(cursor) = d /\ c + 1 \in 1..n
  <2>1. PNext(cursor) # Nil /\ PNext(cursor) = IF c = n THEN Nil ELSE d
    BY <1>1, <1>3, Neighbours DEF MergeableNext
  <2> QED
    BY <1>3, <2>1
<1>5. /\ d \in Nodes /\ d # cursor
      /\ s \in Seq(Ids) /\ Ascending(s) /\ Len(s) \in Nat /\ Len(s) >= 1
      /\ ~Has(node[d], goal)
  <2>1. \A i \in 1..n : chain[i] \in Nodes /\ node[chain[i]].nodeNumber = i
    BY <1>2, WhenReleasing
  <2>2. d # cursor
    BY <1>3, <1>4, <2>1
  <2>3. ~Has(node[d], goal)
    <3>1. c + 1 # c
      BY <1>3
    <3> QED
      BY <1>2, <1>4, <3>1, WhenReleasing
  <2> QED
    BY <1>2, <1>4, <2>1, <2>2, <2>3, WhenReleasing
<1>6. 2 * Len(r) < Chunk /\ 2 * Len(s) < Chunk
  BY <1>1, <1>3, <1>4, <1>5, SmallIs DEF MergeableNext
<1>7. Drop(d, m)
  BY <1>4, Zenon DEF MergeNext
<1> HIDE DEF d, r, s
<1>8. Joined(r, s) \in Seq(Ids) /\ Joined(r, s) # <<>>
  <2>1. Len(r) + Len(s) # 0
    BY <1>3, <1>5
  <2> QED
    BY <1>3, <1>5, <1>6, <2>1, JoinedIds
<1>9. /\ m \in [Nodes -> Node] /\ \A z \in Nodes : z # cursor => m[z] = node[z]
      /\ m[cursor].nodeNumber = node[cursor].nodeNumber
      /\ m[cursor].relations = Joined(r, s)
      /\ m[cursor].minId = Joined(r, s)[1]
      /\ m[cursor].maxId = Joined(r, s)[Len(Joined(r, s))]
  <2> DEFINE w == With(cursor, Joined(r, s))
  <2>1. /\ w \in Node /\ w.relations = Joined(r, s) /\ w.minId = Joined(r, s)[1]
        /\ w.maxId = Joined(r, s)[Len(Joined(r, s))] /\ w.nodeNumber = node[cursor].nodeNumber
    BY <1>3, <1>8, WithIs
  <2> HIDE DEF w
  <2>2. m = [node EXCEPT ![cursor] = w]
    BY DEF w
  <2> HIDE DEF m
  <2> QED
    BY <1>3, <2>1, <2>2
<1> HIDE DEF m
<1>10. /\ \A id : In(r, id) <=> Has(node[cursor], id) /\ id # goal
       /\ \A id : In(s, id) <=> Has(node[d], id)
  BY <1>2 DEF Releasing, In, Has, r, s
<1>11. Merges(chain, node, c, r, s, c, c + 1, m)
  <2>1. Len(r) + Len(s) = Len(node[chain[c]].relations) + Len(node[chain[c + 1]].relations) - 1
    BY <1>2, <1>3, <1>5, WhenReleasing DEF s, d
  <2>2. \A id : In(r, id) => Has(node[chain[c]], id)
    BY <1>3, <1>10
  <2>3. \A id : In(s, id) => Has(node[chain[c + 1]], id)
    BY <1>10 DEF d
  <2>4. c # c + 1
    BY <1>3
  <2> QED
    BY <1>3, <1>4, <1>5, <1>6, <1>9, <2>1, <2>2, <2>3, <2>4 DEF Merges
<1>12. ButGoal(c, r, s)
  <2>1. \A i \in 1..Len(chain) : Has(node[chain[i]], goal) => i = c
    BY <1>2, WhenReleasing
  <2>2. \A id : In(s, id) <=> Has(node[chain[c + 1]], id) /\ id # goal
    BY <1>5, <1>10 DEF d
  <2> QED
    BY <1>3, <1>10, <2>1, <2>2 DEF ButGoal
<1> QED
  BY <1>1, <1>3, <1>7, <1>11, <1>12, MergeSound DEF d

LEMMA MergePreviousSound ==
  ASSUME IInv, MergePrevious
  PROVE  Freed
<1>1. Releases /\ MergeablePrevious
  BY DEF MergePrevious
<1>2. PICK c : Releasing(c)
  BY <1>1, ReleasesIs
<1> DEFINE q == chain[c - 1]
           r == node[q].relations
           s == Remaining
           m == [node EXCEPT ![q] = With(q, Joined(r, s))]
           n == Len(chain)
<1>3. /\ c \in 1..n /\ cursor = chain[c] /\ pNodes # Nil /\ n \in Nat
      /\ s \in Seq(Ids) /\ Ascending(s) /\ Len(s) \in Nat /\ Len(s) = Len(node[chain[c]].relations) - 1
      /\ node \in [Nodes -> Node] /\ cursor \in Nodes
  BY <1>2, WhenReleasing
<1>4. PPrevious(cursor) = q /\ c - 1 \in 1..n /\ (c - 1) + 1 = c
  <2>1. PPrevious(cursor) # Nil /\ PPrevious(cursor) = IF c = 1 THEN Nil ELSE q
    BY <1>1, <1>3, Neighbours DEF MergeablePrevious
  <2> QED
    BY <1>3, <2>1
<1>5. /\ q \in Nodes /\ q # cursor
      /\ r \in Seq(Ids) /\ Ascending(r) /\ Len(r) \in Nat /\ Len(r) >= 1
      /\ ~Has(node[q], goal)
  <2>1. \A i \in 1..n : chain[i] \in Nodes /\ node[chain[i]].nodeNumber = i
    BY <1>2, WhenReleasing
  <2>2. q # cursor
    BY <1>3, <1>4, <2>1
  <2>3. ~Has(node[q], goal)
    <3>1. c - 1 # c
      BY <1>3
    <3> QED
      BY <1>2, <1>4, <3>1, WhenReleasing
  <2> QED
    BY <1>2, <1>4, <2>1, <2>2, <2>3, WhenReleasing
<1>6. 2 * Len(r) < Chunk /\ 2 * Len(s) < Chunk
  BY <1>1, <1>3, <1>4, <1>5, SmallIs DEF MergeablePrevious
<1>7. Drop(cursor, m)
  BY <1>4, Zenon DEF MergePrevious
<1> HIDE DEF q, r, s
<1>8. Joined(r, s) \in Seq(Ids) /\ Joined(r, s) # <<>>
  <2>1. Len(r) + Len(s) # 0
    BY <1>3, <1>5
  <2> QED
    BY <1>3, <1>5, <1>6, <2>1, JoinedIds
<1>9. /\ m \in [Nodes -> Node] /\ \A z \in Nodes : z # q => m[z] = node[z]
      /\ m[q].nodeNumber = node[q].nodeNumber
      /\ m[q].relations = Joined(r, s)
      /\ m[q].minId = Joined(r, s)[1]
      /\ m[q].maxId = Joined(r, s)[Len(Joined(r, s))]
  <2> DEFINE w == With(q, Joined(r, s))
  <2>1. /\ w \in Node /\ w.relations = Joined(r, s) /\ w.minId = Joined(r, s)[1]
        /\ w.maxId = Joined(r, s)[Len(Joined(r, s))] /\ w.nodeNumber = node[q].nodeNumber
    BY <1>3, <1>5, <1>8, WithIs
  <2> HIDE DEF w
  <2>2. m = [node EXCEPT ![q] = w]
    BY DEF w
  <2> HIDE DEF m
  <2> QED
    BY <1>3, <1>5, <2>1, <2>2
<1> HIDE DEF m
<1>10. /\ \A id : In(s, id) <=> Has(node[cursor], id) /\ id # goal
       /\ \A id : In(r, id) <=> Has(node[q], id)
  BY <1>2 DEF Releasing, In, Has, r, s
<1>11. Merges(chain, node, c - 1, r, s, c - 1, c, m)
  <2>1. Len(r) + Len(s) = Len(node[chain[c - 1]].relations) + Len(node[chain[c]].relations) - 1
    BY <1>2, <1>3, <1>5, WhenReleasing DEF r, q
  <2>2. \A id : In(r, id) => Has(node[chain[c - 1]], id)
    BY <1>10 DEF q
  <2>3. \A id : In(s, id) => Has(node[chain[c]], id)
    BY <1>3, <1>10
  <2>4. c - 1 # c
    BY <1>3
  <2>5. /\ m[chain[c - 1]].nodeNumber = node[chain[c - 1]].nodeNumber
        /\ m[chain[c - 1]].relations = Joined(r, s)
        /\ m[chain[c - 1]].minId = Joined(r, s)[1]
        /\ m[chain[c - 1]].maxId = Joined(r, s)[Len(Joined(r, s))]
        /\ \A z \in Nodes : z # chain[c - 1] => m[z] = node[z]
    BY <1>9 DEF q
  <2> QED
    BY <1>3, <1>4, <1>5, <1>6, <1>9, <2>1, <2>2, <2>3, <2>4, <2>5 DEF Merges
<1>12. ButGoal(c - 1, r, s)
  <2>1. \A i \in 1..Len(chain) : Has(node[chain[i]], goal) => i = c
    BY <1>2, WhenReleasing
  <2>2. \A id : In(r, id) <=> Has(node[chain[c - 1]], id) /\ id # goal
    BY <1>5, <1>10 DEF q
  <2> QED
    BY <1>3, <1>4, <1>10, <2>1, <2>2 DEF ButGoal
<1> QED
  BY <1>1, <1>3, <1>7, <1>11, <1>12, MergeSound

(* What remains is nothing, or its neighbours are half full, or it is.     *)
LEMMA NotMergeable ==
  ASSUME IInv, NEW c, Releasing(c), ~MergeableNext, ~MergeablePrevious
  PROVE  \/ 2 * Len(Remaining) >= Chunk
         \/ /\ c + 1 \in 1..Len(chain) => Half(node[chain[c + 1]])
            /\ c - 1 \in 1..Len(chain) => Half(node[chain[c - 1]])
<1>1. /\ c \in 1..Len(chain) /\ cursor = chain[c] /\ Len(chain) \in Nat /\ Len(Remaining) \in Nat
      /\ \A i \in 1..Len(chain) : chain[i] # Nil /\ Len(node[chain[i]].relations) \in Nat
  BY WhenReleasing
<1> SUFFICES ASSUME ~(2 * Len(Remaining) >= Chunk)
             PROVE  /\ c + 1 \in 1..Len(chain) => Half(node[chain[c + 1]])
                    /\ c - 1 \in 1..Len(chain) => Half(node[chain[c - 1]])
  OBVIOUS
<1>2. Small(Remaining)
  BY <1>1, SmallIs, ChunkSize
<1>3. ASSUME c + 1 \in 1..Len(chain)
      PROVE  Half(node[chain[c + 1]])
  <2>1. PNext(cursor) = chain[c + 1] /\ chain[c + 1] # Nil
    BY <1>1, <1>3, Neighbours
  <2>2. ~Small(node[chain[c + 1]].relations)
    BY <1>2, <2>1 DEF MergeableNext
  <2> QED
    BY <1>1, <1>3, <2>2, SmallIs, ChunkSize DEF Half
<1>4. ASSUME c - 1 \in 1..Len(chain)
      PROVE  Half(node[chain[c - 1]])
  <2>1. PPrevious(cursor) = chain[c - 1] /\ chain[c - 1] # Nil
    BY <1>1, <1>4, Neighbours
  <2>2. ~Small(node[chain[c - 1]].relations)
    BY <1>2, <2>1 DEF MergeablePrevious
  <2> QED
    BY <1>1, <1>4, <2>2, SmallIs, ChunkSize DEF Half
<1> QED
  BY <1>3, <1>4

LEMMA DropEmptySound ==
  ASSUME IInv, DropEmpty
  PROVE  Freed
<1>1. Releases /\ ~MergeableNext /\ ~MergeablePrevious /\ Remaining = <<>> /\ Drop(cursor, node)
  BY DEF DropEmpty
<1>2. PICK c : Releasing(c)
  BY <1>1, ReleasesIs
<1>3. /\ c \in 1..Len(chain) /\ cursor = chain[c] /\ pNodes # Nil /\ Len(chain) \in Nat
      /\ \A i \in 1..Len(chain) : Has(node[chain[i]], goal) <=> i = c
  BY <1>2, WhenReleasing
<1>4. \A id : ~In(Remaining, id)
  BY <1>1 DEF In
<1>5. \A id : Has(node[chain[c]], id) <=> id = goal
  BY <1>2, <1>3, <1>4 DEF Releasing
<1>6. \A id : id \in KnownOf(chain, node) <=> \E i \in 1..Len(chain) : Has(node[chain[i]], id)
  BY KnownIs DEF IInv, Sound
<1>7. Len(chain) >= 2
  <2>1. 0 \in 0..Permanent - 1 /\ Permanent \in Nat /\ Permanent >= 2
    BY IdListAssumption
  <2>2. 0 \in KnownOf(chain, node)
    BY <2>1 DEF IInv, Whole
  <2>3. goal # 0
    BY <1>2, <2>1 DEF Releasing
  <2>4. PICK i \in 1..Len(chain) : Has(node[chain[i]], 0)
    BY <1>6, <2>2
  <2>5. i # c
    BY <1>5, <2>3, <2>4
  <2> QED
    BY <1>3, <2>5
<1>8. KeptBut(chain, node, c, counter, ~damaged)
  <2>1. Kept(chain, node, pNodes, counter, ~damaged)
    BY DEF IInv, Sound
  <2>2. /\ c + 1 \in 1..Len(chain) => Half(node[chain[c + 1]])
        /\ c - 1 \in 1..Len(chain) => Half(node[chain[c - 1]])
    <3>1. ~(2 * Len(Remaining) >= Chunk)
      <4>1. Len(Remaining) = 0
        BY <1>1
      <4> QED
        BY <4>1, ChunkSize
    <3> QED
      BY <1>1, <1>2, <3>1, NotMergeable
  <2>3. \A i, j \in 1..Len(chain) :
          i # c /\ j # c /\ (j = i + 1 \/ (i = c - 1 /\ j = c + 1)) => Half(node[chain[i]]) \/ Half(node[chain[j]])
    BY <2>1, <2>2 DEF Kept
  <2> QED
    BY <1>3, <2>1, <2>3 DEF Kept, KeptBut
<1>9. Left(node, c)
  <2>1. Tables(chain, node) /\ Numbered(chain, node, pNodes)
    BY DEF IInv, Sound
  <2>2. \A id : (\E i \in 1..Len(chain) : i # c /\ Has(node[chain[i]], id)) <=>
                id \in KnownOf(chain, node) /\ id # goal
    BY <1>3, <1>5, <1>6
  <2> QED
    BY <1>8, <2>1, <2>2 DEF Left
<1> QED
  BY <1>1, <1>3, <1>7, <1>9, DropSound

LEMMA ShrinkSound ==
  ASSUME IInv, Shrink
  PROVE  Freed
<1>1. /\ Releases /\ ~MergeableNext /\ ~MergeablePrevious /\ Remaining # <<>>
      /\ node' = [node EXCEPT ![cursor] = With(cursor, Remaining)]
      /\ maxId' = node'[pLast].maxId
      /\ UNCHANGED <<chain, pNodes, room, nodeCount, pLast>>
  BY DEF Shrink
<1>2. PICK c : Releasing(c)
  BY <1>1, ReleasesIs
<1>3. /\ c \in 1..Len(chain) /\ cursor = chain[c] /\ pNodes # Nil /\ Len(chain) \in Nat
      /\ Remaining \in Seq(Ids) /\ Ascending(Remaining) /\ Len(Remaining) \in Nat
      /\ Len(Remaining) = Len(node[chain[c]].relations) - 1
      /\ node \in [Nodes -> Node] /\ cursor \in Nodes
      /\ \A i \in 1..Len(chain) : Has(node[chain[i]], goal) <=> i = c
  BY <1>2, WhenReleasing
<1> DEFINE y == With(cursor, Remaining)
<1>4. /\ y \in Node /\ y.relations = Remaining /\ y.minId = Remaining[1]
      /\ y.maxId = Remaining[Len(Remaining)] /\ y.nodeNumber = node[cursor].nodeNumber
  BY <1>1, <1>3, WithIs
<1> HIDE DEF y
<1>5. node' = [node EXCEPT ![cursor] = y]
  BY <1>1 DEF y
<1>6. /\ node' \in [Nodes -> Node] /\ node'[cursor] = y
      /\ \A z \in Nodes : z # cursor => node'[z] = node[z]
  BY <1>3, <1>4, <1>5
<1>7. /\ Tables(chain, node) /\ Numbered(chain, node, pNodes) /\ counter \in Nat /\ (~damaged) \in BOOLEAN
      /\ Sound(chain, node, pNodes, counter, ~damaged)
  BY DEF IInv, Sound, Types
<1>8. OnlyAt(chain, node, node', c)
  <2>1. Len(node[cursor].relations) <= Chunk /\ Len(node[cursor].relations) \in Nat
    BY <1>3, <1>7, NodeTypes DEF Tables
  <2>2. Len(Remaining) <= Chunk
    BY <1>3, <2>1, ChunkSize
  <2> QED
    BY <1>3, <1>4, <1>6, <2>2 DEF OnlyAt
<1>9. /\ \A id : Has(y, id) <=> In(Remaining, id)
      /\ \A id : Has(y, id) <=> Has(node[chain[c]], id) /\ id # goal
  <2>1. \A id : Has(y, id) <=> In(Remaining, id)
    BY <1>4 DEF Has, In
  <2> QED
    BY <1>2, <1>3, <2>1 DEF Releasing
<1>10. \/ Half(y)
       \/ /\ c + 1 \in 1..Len(chain) => Half(node[chain[c + 1]])
          /\ c - 1 \in 1..Len(chain) => Half(node[chain[c - 1]])
  BY <1>1, <1>2, <1>4, NotMergeable DEF Half
<1>11. Sound(chain, node', pNodes, counter, ~damaged)
  <2>1. PICK e \in BOOLEAN : e = ~damaged
    BY <1>7
  <2>2. Sound(chain, node, pNodes, counter, e)
    BY <1>7, <2>1
  <2>3. /\ Ascending(node'[chain[c]].relations) /\ node'[chain[c]].relations # <<>>
        /\ node'[chain[c]].minId = node'[chain[c]].relations[1]
        /\ node'[chain[c]].maxId = node'[chain[c]].relations[Len(node'[chain[c]].relations)]
        /\ \A id : Has(node'[chain[c]], id) => Has(node[chain[c]], id)
        /\ \/ Half(node'[chain[c]])
           \/ /\ c + 1 \in 1..Len(chain) => Half(node[chain[c + 1]])
              /\ c - 1 \in 1..Len(chain) => Half(node[chain[c - 1]])
    BY <1>1, <1>3, <1>4, <1>6, <1>9, <1>10
  <2>4. Sound(chain, node', pNodes, counter, e)
    BY <1>3, <1>7, <1>8, <2>2, <2>3, ShrunkSound
  <2> QED
    BY <2>1, <2>4
<1>12. KnownOf(chain', node') = KnownOf(chain, node) \ {goal}
  <2>1. \A id : id \in KnownOf(chain, node) <=> \E i \in 1..Len(chain) : Has(node[chain[i]], id)
    BY <1>7, KnownIs
  <2>2. \A id : id \in KnownOf(chain, node') <=> \E i \in 1..Len(chain) : Has(node'[chain[i]], id)
    BY <1>11, KnownIs DEF Sound
  <2>3. \A i \in 1..Len(chain) : i # c => node'[chain[i]] = node[chain[i]]
    BY <1>3, <1>7, <1>8, OneChanged
  <2>4. \A id : \A i \in 1..Len(chain) : Has(node'[chain[i]], id) <=> Has(node[chain[i]], id) /\ id # goal
    BY <1>3, <1>6, <1>9, <2>3
  <2>5. \A id : id \in KnownOf(chain, node') <=> id \in KnownOf(chain, node) /\ id # goal
    BY <2>1, <2>2, <2>4
  <2>6. chain' = chain
    BY <1>1
  <2>7. KnownOf(chain, node') = KnownOf(chain, node) \ {goal}
    BY <2>5
  <2> QED
    BY <2>6, <2>7
<1>13. /\ Sound(chain', node', pNodes', counter, ~damaged) /\ pNodes' # Nil
       /\ nodeCount' = Len(chain') /\ pLast' = chain'[Len(chain')] /\ maxId' = node'[pLast'].maxId /\ room' \in Nat
  BY <1>1, <1>3, <1>11 DEF IInv, Types
<1> QED
  BY <1>1, <1>12, <1>13, AfterRelease

----------------------------------------------------------------------------
(* A new object gets the next id; without memory for a node the id is lost.*)
Created ==
  /\ IInv'
  /\ \/ KnownOf(chain', node') = KnownOf(chain, node)
     \/ KnownOf(chain', node') = KnownOf(chain, node) \cup {counter}

LEMMA AfterCreation ==
  ASSUME IInv, Idle, NewId, Sound(chain', node', pNodes', counter + 1, ~damaged'),
         nodeCount' = Len(chain'), pLast' = chain'[Len(chain')], maxId' \in Ids, room' \in Nat,
         damaged' \in BOOLEAN, pNodes' = Nil => damaged',
         pNodes' # Nil => maxId' = node'[pLast'].maxId,
         \/ KnownOf(chain', node') = KnownOf(chain, node)
         \/ KnownOf(chain', node') = KnownOf(chain, node) \cup {counter}
  PROVE  Created
<1>1. /\ goal' = Nobody /\ cursor' = cursor /\ found' = found /\ purpose' = purpose
      /\ counter' = counter + 1 /\ counter \in Ids
  BY DEF Idle, NewId
<1>2. Types'
  <2>1. counter \in Nat /\ counter <= MaxId /\ MaxId \in Nat
    BY <1>1, IdListAssumption DEF Ids
  <2>2. counter' \in Nat /\ counter' <= MaxId + 1
    BY <1>1, <2>1
  <2> QED
    BY <1>1, <2>2 DEF IInv, Types
<1>3. Whole'
  <2>1. 0..Permanent - 1 \subseteq KnownOf(chain', node')
    BY DEF IInv, Whole
  <2> QED
    BY <2>1 DEF Whole
<1>4. Searching'
  BY <1>1 DEF IInv, Searching
<1>5. Sound(chain', node', pNodes', counter', ~damaged')
  BY <1>1
<1>6. IInv'
  BY <1>2, <1>3, <1>4, <1>5 DEF IInv
<1> QED
  BY <1>6 DEF Created

(* What holds when an object is created.                                   *)
LEMMA WhenCreating ==
  ASSUME IInv, NewId
  PROVE  /\ Tables(chain, node) /\ Numbered(chain, node, pNodes)
         /\ Sound(chain, node, pNodes, counter, ~damaged)
         /\ counter \in Ids /\ counter \in Nat /\ (~damaged) \in BOOLEAN /\ (~damaged => pNodes # Nil)
         /\ nodeCount = Len(chain) /\ pLast = chain[Len(chain)] /\ pLast \in Nodes /\ node[pLast] \in Node
         /\ node[pLast].nodeNumber = Len(chain) /\ Len(chain) \in Nat /\ Len(chain) \in 1..Len(chain)
         /\ node \in [Nodes -> Node] /\ Count(pLast) \in Nat
<1>1. /\ Tables(chain, node) /\ Numbered(chain, node, pNodes) /\ nodeCount = Len(chain)
      /\ pLast = chain[Len(chain)] /\ Sound(chain, node, pNodes, counter, ~damaged)
  BY DEF IInv, Types, Sound
<1>2. Len(chain) \in Nat /\ Len(chain) \in 1..Len(chain) /\ pLast \in Nodes /\ node[pLast] \in Node
  BY <1>1, ListTypes
<1>3. Count(pLast) \in Nat
  BY <1>2, NodeTypes DEF Count
<1>4. node[pLast].nodeNumber = Len(chain)
  BY <1>1, <1>2 DEF Numbered
<1>5. counter \in Ids /\ counter \in Nat /\ (~damaged) \in BOOLEAN
  BY IdsAreNaturals DEF NewId, IInv, Types
<1>6. ~damaged => pNodes # Nil
  BY DEF IInv, Whole
<1> QED
  BY <1>1, <1>2, <1>3, <1>4, <1>5, <1>6 DEF Tables

LEMMA InsertSound ==
  ASSUME IInv, Insert
  PROVE  Created
<1>1. /\ Idle /\ NewId /\ Count(pLast) < Chunk
      /\ node' = [node EXCEPT ![pLast].relations = Append(@, counter), ![pLast].maxId = counter]
      /\ maxId' = counter
      /\ UNCHANGED <<chain, pNodes, room, nodeCount, pLast, damaged>>
  BY DEF Insert
<1>2. /\ Tables(chain, node) /\ Sound(chain, node, pNodes, counter, ~damaged)
      /\ counter \in Ids /\ counter \in Nat /\ (~damaged) \in BOOLEAN /\ (~damaged => pNodes # Nil)
      /\ nodeCount = Len(chain) /\ pLast = chain[Len(chain)] /\ pLast \in Nodes /\ node[pLast] \in Node
      /\ Len(chain) \in Nat /\ node \in [Nodes -> Node] /\ Count(pLast) \in Nat
  BY <1>1, WhenCreating
<1> DEFINE x == node[pLast]
           r == Append(x.relations, counter)
           y == [x EXCEPT !.relations = r, !.maxId = counter]
<1>3. x.relations \in Seq(Ids) /\ x.minId \in Ids /\ x.maxId \in Ids /\ x.nodeNumber \in 0..MaxNodes
  BY <1>2, NodeTypes
<1>4. r \in Seq(Ids) /\ Len(r) = Count(pLast) + 1 /\ Len(r) <= Chunk
  BY <1>1, <1>2, <1>3, ChunkSize, AppendProperties DEF Count
<1> HIDE DEF r
<1>5. /\ y \in Node /\ y.relations = r /\ y.minId = x.minId /\ y.maxId = counter
      /\ y.nodeNumber = x.nodeNumber
  BY <1>2, <1>3, <1>4 DEF Node
<1>6. node' = [node EXCEPT ![pLast] = y]
  BY <1>1, <1>2 DEF r, Node
<1> HIDE DEF y
<1>7. node' \in [Nodes -> Node] /\ node'[pLast] = y /\ \A n \in Nodes : n # pLast => node'[n] = node[n]
  BY <1>2, <1>5, <1>6
<1>8. OnlyAt(chain, node, node', Len(chain))
  BY <1>2, <1>4, <1>5, <1>7 DEF OnlyAt
<1>9. PICK e \in BOOLEAN : e = ~damaged
  BY <1>2
<1>10. /\ Sound(chain, node', pNodes, counter + 1, e)
       /\ KnownOf(chain, node') = KnownOf(chain, node) \cup {counter}
  <2>1. Sound(chain, node, pNodes, counter, e) /\ (e => pNodes # Nil)
    BY <1>2, <1>9
  <2>2. PICK k : k = Len(chain)
    OBVIOUS
  <2>3. /\ node'[chain[k]].relations = Append(node[chain[k]].relations, counter)
        /\ node'[chain[k]].minId = node[chain[k]].minId /\ node'[chain[k]].maxId = counter
    BY <1>2, <1>5, <1>7, <2>2 DEF r
  <2>4. counter \in Ids /\ e \in BOOLEAN /\ OnlyAt(chain, node, node', k)
    BY <1>2, <1>8, <1>9, <2>2
  <2>5. Appends(chain, node, pNodes, counter, e, k, node')
    BY <2>1, <2>2, <2>3, <2>4 DEF Appends
  <2> QED
    BY <2>1, <2>4, <2>5, Inserted
<1>11. /\ Sound(chain', node', pNodes', counter + 1, ~damaged')
       /\ KnownOf(chain', node') = KnownOf(chain, node) \cup {counter}
  BY <1>1, <1>9, <1>10
<1>12. /\ nodeCount' = Len(chain') /\ pLast' = chain'[Len(chain')] /\ maxId' \in Ids /\ room' \in Nat
       /\ damaged' \in BOOLEAN /\ (pNodes' = Nil => damaged')
       /\ (pNodes' # Nil => maxId' = node'[pLast'].maxId)
  BY <1>1, <1>2, <1>5, <1>7 DEF IInv, Types
<1> QED
  BY <1>1, <1>11, <1>12, AfterCreation

LEMMA NodeAllocFailsSound ==
  ASSUME IInv, NodeAllocFails
  PROVE  Created
<1>1. /\ Idle /\ NewId
      /\ UNCHANGED <<chain, node, pNodes, room, nodeCount, pLast, maxId, damaged>>
  BY DEF NodeAllocFails
<1>2. /\ Tables(chain, node) /\ Numbered(chain, node, pNodes)
      /\ Sound(chain, node, pNodes, counter, ~damaged)
      /\ counter \in Nat /\ (~damaged) \in BOOLEAN /\ (~damaged => pNodes # Nil)
      /\ nodeCount = Len(chain) /\ pLast = chain[Len(chain)]
  BY <1>1, WhenCreating
<1>3. PICK e \in BOOLEAN : e = ~damaged
  BY <1>2
<1>4. \A i \in 1..Len(chain) : Holds(node[chain[i]], counter + 1, e)
  <2> TAKE i \in 1..Len(chain)
  <2>1. node[chain[i]] \in Node /\ Holds(node[chain[i]], counter, e)
    BY <1>2, <1>3, ListTypes DEF Sound, Kept
  <2> QED
    BY <1>2, <2>1, HoldsOn
<1>5. Sound(chain, node, pNodes, counter + 1, e)
  BY <1>2, <1>4 DEF Sound, Kept
<1>6. Sound(chain', node', pNodes', counter + 1, ~damaged') /\ KnownOf(chain', node') = KnownOf(chain, node)
  BY <1>1, <1>3, <1>5
<1>7. /\ nodeCount' = Len(chain') /\ pLast' = chain'[Len(chain')] /\ maxId' \in Ids /\ room' \in Nat
      /\ damaged' \in BOOLEAN /\ (pNodes' = Nil => damaged')
      /\ pNodes' # Nil => maxId' = node'[pLast'].maxId
  BY <1>1, <1>2 DEF IInv, Types, Whole
<1> QED
  BY <1>1, <1>6, <1>7, AfterCreation

(* The array that is filled anew.                                          *)
LEMMA NewArray ==
  ASSUME NEW ch, NEW nd, Tables(ch, nd), \A i \in 1..Len(ch) : nd[ch[i]].nodeNumber = i,
         NEW ar2,
         ar2 = [i \in 1..MaxNodes |->
                  IF \E m \in ToSet(ch) : nd[m].nodeNumber = i
                  THEN CHOOSE m \in ToSet(ch) : nd[m].nodeNumber = i
                  ELSE Nil]
  PROVE  Numbered(ch, nd, ar2) /\ ar2 # Nil
<1>1. Len(ch) <= MaxNodes /\ MaxNodes \in Nat /\ Len(ch) \in Nat
  <2>1. Numbered(ch, nd, Nil)
    BY DEF Numbered
  <2> QED
    BY <2>1, ListFits, ListTypes
<1>2. DOMAIN ch = 1..Len(ch) /\ \A i \in 1..Len(ch) : ch[i] \in Nodes
  BY ListTypes, LenProperties DEF Tables
<1>3. \A i \in 1..MaxNodes :
        (\E m \in ToSet(ch) : nd[m].nodeNumber = i) =>
          /\ (CHOOSE m \in ToSet(ch) : nd[m].nodeNumber = i) \in ToSet(ch)
          /\ nd[CHOOSE m \in ToSet(ch) : nd[m].nodeNumber = i].nodeNumber = i
  OBVIOUS
<1>4. ToSet(ch) \subseteq Nodes
  BY <1>2 DEF ToSet
<1>5. ar2 \in [1..MaxNodes -> Nodes \cup {Nil}]
  BY <1>3, <1>4
<1>6. ASSUME NEW i \in 1..Len(ch)
      PROVE  ar2[i] = ch[i]
  <2>1. ch[i] \in ToSet(ch) /\ nd[ch[i]].nodeNumber = i /\ i \in 1..MaxNodes
    BY <1>1, <1>2 DEF ToSet
  <2>2. ar2[i] \in ToSet(ch) /\ nd[ar2[i]].nodeNumber = i
    BY <1>3, <2>1
  <2>3. PICK j \in 1..Len(ch) : ar2[i] = ch[j]
    BY <1>2, <2>2 DEF ToSet
  <2> QED
    BY <2>2, <2>3
<1> QED
  BY <1>5, <1>6, NilIs DEF Numbered

(* A node behind the last one, which is full.                              *)
LEMMA NewNodeLinks ==
  ASSUME IInv, NEW r, NewNode(r), r \in {<<>>, <<counter>>}, NEW ar2, r = <<>> => ar2 = Nil
  PROVE  /\ Links(chain, node, counter, Fresh, node', ar2)
         /\ chain' = Append(chain, Fresh) /\ pLast' = Fresh /\ nodeCount' = Len(chain) + 1
         /\ Len(chain) + 1 \in 1..MaxNodes /\ Fresh \in Nodes /\ Idle /\ NewId
         /\ node'[Fresh].relations = r /\ (r # <<>> => node'[Fresh].maxId = counter)
<1>1. /\ Idle /\ NewId /\ Count(pLast) >= Chunk /\ ToSet(chain) # Nodes
      /\ chain' = Append(chain, Fresh) /\ pLast' = Fresh
      /\ nodeCount' = node[pLast].nodeNumber + 1
      /\ \E max \in (IF r = <<>> THEN {0, MaxId} ELSE {counter}) :
           node' = [node EXCEPT ![Fresh] = [relations |-> r, minId |-> counter, maxId |-> max,
                                            nodeNumber |-> node[pLast].nodeNumber + 1]]
  BY DEF NewNode
<1>2. /\ Tables(chain, node) /\ Numbered(chain, node, pNodes)
      /\ counter \in Ids /\ pLast = chain[Len(chain)] /\ node[pLast].nodeNumber = Len(chain)
      /\ node \in [Nodes -> Node] /\ Len(chain) \in Nat
  BY <1>1, WhenCreating
<1>3. Len(chain) + 1 \in 1..MaxNodes
  <2>1. Len(chain) < MaxNodes /\ MaxNodes \in Nat
    BY <1>1, <1>2, ListFits
  <2> QED
    BY <1>2, <2>1
<1>4. Fresh \in Nodes /\ Fresh \notin ToSet(chain)
  <2>1. DOMAIN chain = 1..Len(chain) /\ \A i \in 1..Len(chain) : chain[i] \in Nodes
    BY <1>2, ListTypes, LenProperties DEF Tables
  <2>2. ToSet(chain) \subseteq Nodes
    BY <2>1 DEF ToSet
  <2>3. \E n \in Nodes : n \notin ToSet(chain)
    BY <1>1, <2>2
  <2> QED
    BY <2>3 DEF Fresh
<1>5. PICK max \in (IF r = <<>> THEN {0, MaxId} ELSE {counter}) :
           node' = [node EXCEPT ![Fresh] = [relations |-> r, minId |-> counter, maxId |-> max,
                                            nodeNumber |-> Len(chain) + 1]]
  BY <1>1, <1>2
<1> DEFINE y == [relations |-> r, minId |-> counter, maxId |-> max, nodeNumber |-> Len(chain) + 1]
<1>6. y \in Node
  <2>1. r \in Seq(Ids)
    <3>1. <<counter>> \in Seq(Ids)
      BY <1>2
    <3>2. <<>> \in Seq(Ids)
      OBVIOUS
    <3> QED
      BY <3>1, <3>2
  <2>2. max \in Ids
    BY <1>2, <1>5, IdListAssumption DEF Ids
  <2>3. Len(chain) + 1 \in 0..MaxNodes
    BY <1>3
  <2> QED
    BY <1>2, <2>1, <2>2, <2>3 DEF Node
<1>7. /\ y.relations = r /\ y.minId = counter /\ y.nodeNumber = Len(chain) + 1
      /\ r # <<>> => y.maxId = counter
  BY <1>5
<1>8. node' = [node EXCEPT ![Fresh] = y]
  BY <1>5
<1> HIDE DEF y
<1>9. /\ node' \in [Nodes -> Node] /\ node'[Fresh] = y
      /\ \A n \in Nodes : n # Fresh => node'[n] = node[n]
  BY <1>2, <1>4, <1>6, <1>8
<1>10. Len(node[chain[Len(chain)]].relations) >= Chunk
  BY <1>1, <1>2 DEF Count
<1>11. \/ y.relations = <<counter>> /\ y.maxId = counter
       \/ y.relations = <<>> /\ ar2 = Nil
  BY <1>7
<1>12. Links(chain, node, counter, Fresh, node', ar2)
  BY <1>4, <1>7, <1>9, <1>10, <1>11 DEF Links
<1> QED
  BY <1>1, <1>2, <1>3, <1>4, <1>7, <1>9, <1>12

LEMMA InsertInNewNodeSound ==
  ASSUME IInv, InsertInNewNode
  PROVE  Created
<1>1. /\ NewNode(<<counter>>) /\ maxId' = counter /\ UNCHANGED damaged
      /\ \/ /\ room' = nodeCount' + ListChunk
            /\ pNodes' = [i \in 1..MaxNodes |->
                            IF \E m \in ToSet(chain') : node'[m].nodeNumber = i
                            THEN CHOOSE m \in ToSet(chain') : node'[m].nodeNumber = i
                            ELSE Nil]
         \/ /\ pNodes # Nil
            /\ pNodes' = [pNodes EXCEPT ![nodeCount'] = Fresh]
            /\ UNCHANGED room
  BY Zenon DEF InsertInNewNode
<1>2. /\ Links(chain, node, counter, Fresh, node', pNodes')
      /\ chain' = Append(chain, Fresh) /\ pLast' = Fresh /\ nodeCount' = Len(chain) + 1
      /\ Len(chain) + 1 \in 1..MaxNodes /\ Fresh \in Nodes /\ Idle /\ NewId
      /\ node'[Fresh].relations = <<counter>> /\ node'[Fresh].maxId = counter
  <2>1. <<counter>> \in {<<>>, <<counter>>} /\ <<counter>> # <<>>
    OBVIOUS
  <2> QED
    BY <1>1, <2>1, NewNodeLinks
<1>3. /\ Sound(chain, node, pNodes, counter, ~damaged) /\ Numbered(chain, node, pNodes)
      /\ counter \in Ids /\ (~damaged) \in BOOLEAN /\ (~damaged => pNodes # Nil) /\ Len(chain) \in Nat
  BY <1>2, WhenCreating
<1>4. PICK e \in BOOLEAN : e = ~damaged
  BY <1>3
<1>5. Linked(chain, node, chain', node', Fresh, pNodes', counter + 1, e)
  <2>1. Sound(chain, node, pNodes, counter, e) /\ counter \in Ids /\ e \in BOOLEAN
    BY <1>3, <1>4
  <2>2. Links(chain, node, counter, Fresh, node', pNodes') /\ chain' = Append(chain, Fresh)
    BY <1>2
  <2>3. Linked(chain, node, Append(chain, Fresh), node', Fresh, pNodes', counter + 1, e)
    BY <2>1, <2>2, LinkedSound
  <2> QED
    BY <2>2, <2>3
<1>6. /\ Tables(chain', node') /\ \A i \in 1..Len(chain') : node'[chain'[i]].nodeNumber = i
      /\ Kept(chain', node', pNodes', counter + 1, e)
      /\ Len(chain') = Len(chain) + 1 /\ chain'[Len(chain) + 1] = Fresh
      /\ \A i \in 1..Len(chain) : chain'[i] = chain[i]
  BY <1>5 DEF Linked
<1>7. Numbered(chain', node', pNodes') /\ pNodes' # Nil
  <2>1. CASE pNodes' = [i \in 1..MaxNodes |->
                          IF \E m \in ToSet(chain') : node'[m].nodeNumber = i
                          THEN CHOOSE m \in ToSet(chain') : node'[m].nodeNumber = i
                          ELSE Nil]
    BY <1>6, <2>1, NewArray
  <2>2. CASE pNodes # Nil /\ pNodes' = [pNodes EXCEPT ![nodeCount'] = Fresh]
    <3>1. pNodes \in [1..MaxNodes -> Nodes \cup {Nil}] /\ \A i \in 1..Len(chain) : pNodes[i] = chain[i]
      BY <1>3, <2>2 DEF Numbered
    <3>2. /\ pNodes' \in [1..MaxNodes -> Nodes \cup {Nil}] /\ pNodes'[Len(chain) + 1] = Fresh
          /\ \A i \in 1..MaxNodes : i # Len(chain) + 1 => pNodes'[i] = pNodes[i]
      BY <1>2, <2>2, <3>1
    <3>3. \A i \in 1..Len(chain) + 1 :
            \/ i = Len(chain) + 1
            \/ i \in 1..Len(chain) /\ i \in 1..MaxNodes /\ i # Len(chain) + 1
      <4>1. Len(chain) \in Nat /\ MaxNodes \in Nat /\ Len(chain) + 1 <= MaxNodes
        BY <1>2, <1>3, NilIs
      <4> QED
        BY <4>1
    <3>4. \A i \in 1..Len(chain') : pNodes'[i] = chain'[i]
      BY <1>6, <3>1, <3>2, <3>3
    <3> QED
      BY <1>6, <3>2, <3>4, NilIs DEF Numbered
  <2> QED
    BY <1>1, <2>1, <2>2
<1>8. Sound(chain', node', pNodes', counter + 1, ~damaged')
  BY <1>1, <1>4, <1>6, <1>7 DEF Sound
<1>9. KnownOf(chain', node') = KnownOf(chain, node) \cup {counter}
  <2>1. KnownOf(chain', node') =
          KnownOf(chain, node) \cup {node'[Fresh].relations[j] : j \in 1..Len(node'[Fresh].relations)}
    BY <1>5 DEF Linked
  <2>2. \A j : j \in 1..Len(<<counter>>) <=> j = 1
    OBVIOUS
  <2>3. {<<counter>>[j] : j \in 1..Len(<<counter>>)} = {counter}
    BY <2>2
  <2> QED
    BY <1>2, <2>1, <2>3
<1>10. room' \in Nat
  <2>1. room \in Nat /\ ListChunk \in Nat /\ nodeCount' \in Nat
    BY <1>2, <1>3, IdListAssumption DEF IInv, Types
  <2> QED
    BY <1>1, <2>1
<1>11. /\ nodeCount' = Len(chain') /\ pLast' = chain'[Len(chain')] /\ maxId' \in Ids
       /\ damaged' \in BOOLEAN /\ (pNodes' = Nil => damaged')
       /\ (pNodes' # Nil => maxId' = node'[pLast'].maxId)
  BY <1>1, <1>2, <1>3, <1>6, <1>7 DEF IInv, Types
<1> QED
  BY <1>2, <1>8, <1>9, <1>10, <1>11, AfterCreation

LEMMA ArrayAllocFailsSound ==
  ASSUME IInv, ArrayAllocFails
  PROVE  Created
<1>1. /\ NewNode(<<>>) /\ pNodes' = Nil /\ room' = 0 /\ damaged' = TRUE /\ maxId' = maxId
  BY DEF ArrayAllocFails
<1>2. /\ Links(chain, node, counter, Fresh, node', Nil)
      /\ chain' = Append(chain, Fresh) /\ pLast' = Fresh /\ nodeCount' = Len(chain) + 1
      /\ Fresh \in Nodes /\ Idle /\ NewId /\ node'[Fresh].relations = <<>>
  BY <1>1, NewNodeLinks
<1>3. /\ Sound(chain, node, pNodes, counter, ~damaged)
      /\ counter \in Ids /\ (~damaged) \in BOOLEAN /\ Len(chain) \in Nat
  BY <1>2, WhenCreating
<1>4. PICK e \in BOOLEAN : e = ~damaged
  BY <1>3
<1>5. Linked(chain, node, chain', node', Fresh, Nil, counter + 1, FALSE)
  <2>1. Sound(chain, node, pNodes, counter, e) /\ counter \in Ids /\ e \in BOOLEAN
    BY <1>3, <1>4
  <2>2. PICK f \in BOOLEAN : f = FALSE
    OBVIOUS
  <2>3. f \in BOOLEAN /\ (f => e)
    BY <2>2
  <2>4. Linked(chain, node, Append(chain, Fresh), node', Fresh, Nil, counter + 1, f)
    BY <1>2, <2>1, <2>3, LinkedSound
  <2> QED
    BY <1>2, <2>2, <2>4
<1>6. /\ Tables(chain', node') /\ \A i \in 1..Len(chain') : node'[chain'[i]].nodeNumber = i
      /\ Kept(chain', node', Nil, counter + 1, FALSE)
      /\ Len(chain') = Len(chain) + 1 /\ chain'[Len(chain) + 1] = Fresh
      /\ KnownOf(chain', node') =
           KnownOf(chain, node) \cup {node'[Fresh].relations[j] : j \in 1..Len(node'[Fresh].relations)}
  BY <1>5 DEF Linked
<1>7. Sound(chain', node', pNodes', counter + 1, ~damaged')
  <2>1. Numbered(chain', node', Nil)
    BY <1>6 DEF Numbered
  <2>2. (~damaged') = FALSE
    BY <1>1
  <2> QED
    BY <1>1, <1>6, <2>1, <2>2 DEF Sound
<1>8. KnownOf(chain', node') = KnownOf(chain, node)
  <2>1. {node'[Fresh].relations[j] : j \in 1..Len(node'[Fresh].relations)} = {}
    BY <1>2
  <2> QED
    BY <1>6, <2>1
<1>9. /\ nodeCount' = Len(chain') /\ pLast' = chain'[Len(chain')] /\ maxId' \in Ids
      /\ damaged' \in BOOLEAN /\ (pNodes' = Nil => damaged')
      /\ (pNodes' # Nil => maxId' = node'[pLast'].maxId) /\ room' \in Nat
  BY <1>1, <1>2, <1>3, <1>6 DEF IInv, Types
<1> QED
  BY <1>2, <1>7, <1>8, <1>9, AfterCreation

----------------------------------------------------------------------------
(* Nothing that is known is beyond maxId, which the first search is for.   *)
LEMMA KnownUpTo ==
  ASSUME IInv, pNodes # Nil
  PROVE  /\ \A id \in KnownOf(chain, node) : id <= maxId
         /\ maxId \in Nat /\ maxId >= 1
<1>1. /\ Sound(chain, node, pNodes, counter, ~damaged) /\ counter \in Nat /\ (~damaged) \in BOOLEAN
      /\ maxId = node[chain[Len(chain)]].maxId /\ maxId \in Nat
  BY IdsAreNaturals DEF IInv, Types, Whole
<1>2. PICK e \in BOOLEAN : e = ~damaged
  BY <1>1
<1>3. Tables(chain, node) /\ Kept(chain, node, pNodes, counter, e)
  BY <1>1, <1>2 DEF Sound
<1>4. /\ Len(chain) \in Nat /\ Len(chain) \in 1..Len(chain)
      /\ \A i \in 1..Len(chain) : node[chain[i]] \in Node
  BY <1>3, ListTypes
<1> DEFINE z == node[chain[Len(chain)]]
<1>5. z.minId \in Nat /\ z.maxId \in Nat /\ z.minId <= z.maxId
  <2>1. z \in Node /\ Holds(z, counter, e) /\ z.relations # <<>>
    BY <1>3, <1>4 DEF Kept
  <2>2. Len(z.relations) \in Nat /\ Len(z.relations) # 0 /\ z.minId \in Nat /\ z.maxId \in Nat
    BY <2>1, NodeTypes, IdsAreNaturals
  <2>3. Has(z, z.relations[1])
    BY <2>2 DEF Has
  <2>4. z.minId <= z.relations[1] /\ z.relations[1] <= z.maxId /\ z.relations[1] \in Nat
    BY <1>1, <2>1, <2>3, HeldBetween
  <2> QED
    BY <2>2, <2>4
<1>6. ASSUME NEW id \in KnownOf(chain, node)
      PROVE  id \in Nat /\ id <= maxId
  <2>1. PICK i \in 1..Len(chain) : Has(node[chain[i]], id)
    BY <1>3, KnownIs
  <2>2. node[chain[i]] \in Node /\ Holds(node[chain[i]], counter, e)
    BY <1>3, <1>4 DEF Kept
  <2>3. id \in Nat /\ id <= node[chain[i]].maxId
    BY <1>1, <2>1, <2>2, HeldBetween
  <2>4. node[chain[i]].maxId \in Nat
    BY <2>2, NodeTypes, IdsAreNaturals
  <2>5. CASE i = Len(chain)
    BY <1>1, <2>3, <2>5
  <2>6. CASE i # Len(chain)
    <3>1. node[chain[i]].maxId < z.minId
      BY <1>3, <1>4, <2>6 DEF Kept
    <3> QED
      BY <1>1, <1>5, <2>3, <2>4, <3>1
  <2> QED
    BY <2>5, <2>6
<1>7. 1 \in KnownOf(chain, node)
  <2>1. 1 \in 0..Permanent - 1
    BY IdListAssumption
  <2> QED
    BY <2>1 DEF IInv, Whole
<1> QED
  BY <1>1, <1>6, <1>7

(* A step of a search leaves the list as it is.                            *)
LEMMA ListStays ==
  ASSUME IInv, UNCHANGED list, purpose' \in {"find", "release"}, found' \in BOOLEAN, Searching'
  PROVE  IInv' /\ counter' = counter /\ KnownOf(chain', node') = KnownOf(chain, node)
<1>1. UNCHANGED <<counter, chain, node, pNodes, room, nodeCount, pLast, maxId, damaged>>
  BY DEF list
<1>2. Types'
  BY <1>1 DEF IInv, Types
<1>3. Sound(chain', node', pNodes', counter', ~damaged')
  BY <1>1 DEF IInv
<1>4. KnownOf(chain', node') = KnownOf(chain, node)
  BY <1>1
<1>5. Whole'
  BY <1>1, <1>4 DEF IInv, Whole
<1> QED
  BY <1>1, <1>2, <1>3, <1>4, <1>5 DEF IInv

(* The walk starts at one end of the list.                                 *)
LEMMA Fraction ==
  ASSUME NEW a \in Nat, NEW b \in Nat, b >= 1, a <= b
  PROVE  a \div b = IF a = b THEN 1 ELSE 0
<1>1. a \div b \in Nat /\ b * (a \div b) <= a /\ a < b * (a \div b) + b
  OBVIOUS
<1> QED
  BY <1>1

LEMMA SeekSound ==
  ASSUME IInv, NEW id \in Ids, NEW p \in {"find", "release"}, Seek(id, p), p = "release" => id >= Permanent
  PROVE  IInv' /\ counter' = counter /\ KnownOf(chain', node') = KnownOf(chain, node)
<1>1. /\ pNodes # Nil /\ goal' = id /\ purpose' = p /\ UNCHANGED <<list, found>>
      /\ cursor' = IF id > maxId THEN Nil ELSE pNodes[(id \div maxId) * (nodeCount - 1) + 1]
  BY DEF Seek
<1>2. /\ \A known \in KnownOf(chain, node) : known <= maxId
      /\ maxId \in Nat /\ maxId >= 1 /\ id \in Nat
  BY <1>1, KnownUpTo, IdsAreNaturals
<1>3. ASSUME id <= maxId
      PROVE  \E i \in 1..Len(chain) : cursor' = chain[i] /\ chain[i] \in Nodes
  <2>1. /\ nodeCount = Len(chain) /\ Len(chain) \in Nat /\ Len(chain) >= 1
        /\ \A i \in 1..Len(chain) : pNodes[i] = chain[i] /\ chain[i] \in Nodes
    BY <1>1, ListTypes DEF IInv, Types, Sound, Numbered
  <2>2. id \div maxId \in {0, 1}
    BY <1>2, <1>3, Fraction
  <2>3. (id \div maxId) * (nodeCount - 1) + 1 \in 1..Len(chain)
    <3>1. CASE id \div maxId = 0
      BY <2>1, <3>1
    <3>2. CASE id \div maxId = 1
      BY <2>1, <3>2
    <3> QED
      BY <2>2, <3>1, <3>2
  <2>4. cursor' = pNodes[(id \div maxId) * (nodeCount - 1) + 1]
    BY <1>1, <1>2, <1>3
  <2> QED
    BY <2>1, <2>3, <2>4
<1>4. ASSUME id > maxId
      PROVE  cursor' = Nil /\ id \notin KnownOf(chain, node)
  BY <1>1, <1>2, <1>4
<1>5. UNCHANGED <<chain, node, pNodes>>
  BY <1>1 DEF list
<1>6. Searching'
  <2>1. /\ goal' \in Ids \cup {Nobody} /\ cursor' \in Nodes \cup {Nil} /\ pNodes' # Nil
        /\ (cursor' = Nil => goal' \notin KnownOf(chain', node'))
        /\ (cursor' # Nil => \E i \in 1..Len(chain') : cursor' = chain'[i])
        /\ (purpose' = "release" => goal' >= Permanent)
    BY <1>1, <1>2, <1>3, <1>4, <1>5, NilIs
  <2> QED
    BY <2>1 DEF Searching
<1> QED
  BY <1>1, <1>6, ListStays DEF IInv, Types

(* A walk leaves the list only if the goal is not there.                   *)
LEMMA WhenWalking ==
  ASSUME IInv, goal # Nobody, cursor # Nil
  PROVE  /\ goal \in Nat /\ goal \in Ids /\ pNodes # Nil /\ purpose \in {"find", "release"}
         /\ found \in BOOLEAN /\ (purpose = "release" => goal >= Permanent)
         /\ \E i \in 1..Len(chain) :
              /\ cursor = chain[i]
              /\ PNext(cursor) = (IF i = Len(chain) THEN Nil ELSE chain[i + 1])
              /\ PPrevious(cursor) = (IF i = 1 THEN Nil ELSE chain[i - 1])
         /\ \A i \in 1..Len(chain) : chain[i] \in Nodes
         /\ Len(chain) \in Nat
<1>1. PICK i \in 1..Len(chain) : cursor = chain[i]
  BY DEF IInv, Searching
<1>2. /\ PNext(cursor) = IF i = Len(chain) THEN Nil ELSE chain[i + 1]
      /\ PPrevious(cursor) = IF i = 1 THEN Nil ELSE chain[i - 1]
      /\ \A j \in 1..Len(chain) : chain[j] \in Nodes
      /\ Len(chain) \in Nat
  BY <1>1, Neighbours
<1>3. /\ goal \in Nat /\ goal \in Ids /\ pNodes # Nil /\ purpose \in {"find", "release"} /\ found \in BOOLEAN
      /\ (purpose = "release" => goal >= Permanent)
  BY IdsAreNaturals DEF IInv, Searching, Types
<1> QED
  BY <1>1, <1>2, <1>3

LEMMA WalkSound ==
  ASSUME IInv, goal # Nobody, cursor # Nil, UNCHANGED <<list, goal, purpose, found>>,
         \/ cursor' = Nil /\ goal \notin KnownOf(chain, node)
         \/ \E i \in 1..Len(chain) : cursor' = chain[i]
  PROVE  IInv' /\ counter' = counter /\ KnownOf(chain', node') = KnownOf(chain, node)
<1>1. /\ goal \in Ids /\ pNodes # Nil /\ purpose \in {"find", "release"}
      /\ found \in BOOLEAN /\ (purpose = "release" => goal >= Permanent)
      /\ \A i \in 1..Len(chain) : chain[i] \in Nodes
  BY WhenWalking
<1>2. UNCHANGED <<chain, node, pNodes>> /\ UNCHANGED <<goal, purpose, found>>
  BY DEF list
<1>3. Searching'
  <2>1. /\ goal' \in Ids \cup {Nobody} /\ cursor' \in Nodes \cup {Nil} /\ pNodes' # Nil
        /\ (cursor' = Nil => goal' \notin KnownOf(chain', node'))
        /\ (cursor' # Nil => \E i \in 1..Len(chain') : cursor' = chain'[i])
        /\ (purpose' = "release" => goal' >= Permanent)
    BY <1>1, <1>2, NilIs
  <2> QED
    BY <2>1 DEF Searching
<1> QED
  BY <1>1, <1>2, <1>3, ListStays

LEMMA WalkNextSound ==
  ASSUME IInv, WalkNext
  PROVE  IInv' /\ counter' = counter /\ KnownOf(chain', node') = KnownOf(chain, node)
<1>1. /\ goal # Nobody /\ cursor # Nil /\ node[cursor].maxId < goal /\ cursor' = PNext(cursor)
      /\ UNCHANGED <<list, goal, purpose, found>>
  BY DEF WalkNext
<1>2. PICK i \in 1..Len(chain) :
        cursor = chain[i] /\ PNext(cursor) = (IF i = Len(chain) THEN Nil ELSE chain[i + 1])
  BY <1>1, WhenWalking
<1>3. Len(chain) \in Nat /\ pNodes # Nil /\ goal \in Nat
  BY <1>1, WhenWalking
<1>4. CASE i = Len(chain)
  <2>1. node[cursor].maxId = maxId /\ maxId \in Nat
    BY <1>2, <1>3, <1>4, KnownUpTo DEF IInv, Types, Whole
  <2>2. goal \notin KnownOf(chain, node)
    BY <1>1, <1>3, <2>1, KnownUpTo
  <2> QED
    BY <1>1, <1>2, <1>4, <2>2, WalkSound
<1>5. CASE i # Len(chain)
  <2>1. i + 1 \in 1..Len(chain) /\ cursor' = chain[i + 1]
    BY <1>1, <1>2, <1>3, <1>5
  <2> QED
    BY <1>1, <2>1, WalkSound
<1> QED
  BY <1>4, <1>5

LEMMA WalkPreviousSound ==
  ASSUME IInv, WalkPrevious
  PROVE  IInv' /\ counter' = counter /\ KnownOf(chain', node') = KnownOf(chain, node)
<1>1. /\ goal # Nobody /\ cursor # Nil /\ node[cursor].maxId >= goal /\ node[cursor].minId > goal
      /\ cursor' = PPrevious(cursor) /\ UNCHANGED <<list, goal, purpose, found>>
  BY DEF WalkPrevious
<1>2. PICK i \in 1..Len(chain) :
        cursor = chain[i] /\ PPrevious(cursor) = (IF i = 1 THEN Nil ELSE chain[i - 1])
  BY <1>1, WhenWalking
<1>3. Len(chain) \in Nat /\ pNodes # Nil /\ goal \in Nat
  BY <1>1, WhenWalking
<1>4. CASE i = 1
  <2>1. PICK e \in BOOLEAN : e = ~damaged
    BY DEF IInv, Types
  <2>2. /\ Sound(chain, node, pNodes, counter, e) /\ Tables(chain, node)
        /\ Kept(chain, node, pNodes, counter, e) /\ counter \in Nat
    BY <2>1 DEF IInv, Sound, Types
  <2>3. ASSUME goal \in KnownOf(chain, node)
        PROVE  FALSE
    <3>1. PICK j \in 1..Len(chain) : Has(node[chain[j]], goal)
      BY <2>2, <2>3, KnownIs
    <3>2. /\ node[chain[j]] \in Node /\ Holds(node[chain[j]], counter, e)
          /\ node[chain[i]] \in Node
      BY <2>2, ListTypes DEF Kept
    <3>3. node[chain[j]].minId <= goal
      BY <2>2, <3>1, <3>2, HeldBetween
    <3>4. /\ node[chain[j]].minId \in Nat /\ node[chain[i]].maxId \in Nat /\ node[chain[i]].minId \in Nat
      BY <3>2, NodeTypes, IdsAreNaturals
    <3>5. CASE j = i
      BY <1>1, <1>2, <1>3, <3>3, <3>4, <3>5
    <3>6. CASE j # i
      <4>1. node[chain[i]].maxId < node[chain[j]].minId
        BY <1>3, <1>4, <2>2, <3>6 DEF Kept
      <4> QED
        BY <1>1, <1>2, <1>3, <3>3, <3>4, <4>1
    <3> QED
      BY <3>5, <3>6
  <2> QED
    BY <1>1, <1>2, <1>4, <2>3, WalkSound
<1>5. CASE i # 1
  <2>1. i - 1 \in 1..Len(chain) /\ cursor' = chain[i - 1]
    BY <1>1, <1>2, <1>3, <1>5
  <2> QED
    BY <1>1, <2>1, WalkSound
<1> QED
  BY <1>4, <1>5

(* The end of a search.                                                    *)
LEMMA DoneSound ==
  ASSUME IInv, Done, UNCHANGED list, found' \in BOOLEAN
  PROVE  IInv' /\ counter' = counter /\ KnownOf(chain', node') = KnownOf(chain, node)
<1>1. goal' = Nobody /\ cursor' = Nil /\ purpose' = purpose
  BY DEF Done
<1>2. Searching'
  BY <1>1 DEF Searching
<1> QED
  BY <1>1, <1>2, ListStays DEF IInv, Types

LEMMA NotFoundSound ==
  ASSUME IInv, NotFound
  PROVE  /\ IInv' /\ counter' = counter /\ KnownOf(chain', node') = KnownOf(chain, node)
         /\ goal \notin KnownOf(chain, node)
<1>1. goal # Nobody /\ (cursor = Nil \/ (Arrived /\ Index = 0)) /\ found' = FALSE /\ Done /\ UNCHANGED list
  BY DEF NotFound
<1>2. goal \notin KnownOf(chain, node)
  <2>1. CASE cursor = Nil
    BY <1>1, <2>1 DEF IInv, Searching
  <2>2. CASE Arrived /\ Index = 0
    BY <2>2, ArrivedRight
  <2> QED
    BY <1>1, <2>1, <2>2
<1> QED
  BY <1>1, <1>2, DoneSound

LEMMA FoundSound ==
  ASSUME IInv, Found
  PROVE  /\ IInv' /\ counter' = counter /\ KnownOf(chain', node') = KnownOf(chain, node)
         /\ goal \in KnownOf(chain, node)
<1>1. purpose = "find" /\ Arrived /\ Index # 0 /\ found' = TRUE /\ Done /\ UNCHANGED list
  BY DEF Found
<1>2. goal \in KnownOf(chain, node)
  BY <1>1, ArrivedRight
<1> QED
  BY <1>1, <1>2, DoneSound

----------------------------------------------------------------------------
(* A new database has a single node, which holds the first ids.            *)
LEMMA InitSound == Init => IInv /\ KnownOf(chain, node) = 0..Permanent - 1
<1> SUFFICES ASSUME Init
             PROVE  IInv /\ KnownOf(chain, node) = 0..Permanent - 1
  OBVIOUS
<1>1. /\ Permanent \in Nat /\ Permanent >= 2 /\ Permanent <= Chunk /\ Permanent <= MaxId + 1
      /\ MaxId \in Nat /\ ListChunk \in Nat /\ Chunk \in Nat
  BY IdListAssumption
<1>2. MaxNodes \in Nat /\ MaxNodes >= 1
  BY IdListAssumption, FS_EmptySet, FS_CardinalityType DEF MaxNodes
<1>3. First \in Nodes
  BY IdListAssumption DEF First
<1> DEFINE r == [i \in 1..Permanent |-> i - 1]
           x == [relations |-> r, minId |-> 0, maxId |-> Permanent - 1, nodeNumber |-> 1]
           none == [relations |-> <<>>, minId |-> 0, maxId |-> 0, nodeNumber |-> 0]
<1>4. /\ r \in Seq(Ids) /\ Len(r) = Permanent /\ Ascending(r) /\ r # <<>>
      /\ \A i \in 1..Permanent : r[i] = i - 1
      /\ \A id : (\E i \in 1..Permanent : r[i] = id) <=> id \in 0..Permanent - 1
  <2>1. \A i \in 1..Permanent : i - 1 \in Ids
    BY <1>1 DEF Ids
  <2>2. r \in Seq(Ids)
    BY <1>1, <2>1
  <2>3. Len(r) = Permanent /\ \A i \in 1..Permanent : r[i] = i - 1
    BY <1>1, <2>2, LenProperties
  <2>4. Ascending(r)
    BY <1>1, <2>3 DEF Ascending
  <2>5. r # <<>>
    BY <1>1, <2>3
  <2>6. ASSUME NEW id \in 0..Permanent - 1
        PROVE  \E i \in 1..Permanent : r[i] = id
    <3>1. id + 1 \in 1..Permanent /\ r[id + 1] = id
      BY <1>1, <2>3
    <3> QED
      BY <3>1
  <2>7. \A i \in 1..Permanent : r[i] \in 0..Permanent - 1
    BY <1>1, <2>3
  <2> QED
    BY <2>2, <2>3, <2>4, <2>5, <2>6, <2>7
<1>5. /\ chain = <<First>> /\ nodeCount = 1 /\ pLast = First /\ maxId = Permanent - 1
      /\ counter = Permanent /\ node = [n \in Nodes |-> IF n = First THEN x ELSE none]
      /\ pNodes = [i \in 1..MaxNodes |-> IF i = 1 THEN First ELSE Nil]
      /\ room = ListChunk /\ goal = Nobody /\ purpose = "find" /\ cursor = Nil
      /\ found = FALSE /\ damaged = FALSE
  BY DEF Init
<1> HIDE DEF r
<1>6. /\ x \in Node /\ none \in Node /\ Len(none.relations) <= Chunk
      /\ x.relations = r /\ x.minId = 0 /\ x.maxId = Permanent - 1 /\ x.nodeNumber = 1
  <2>1. 0 \in Ids /\ Permanent - 1 \in Ids /\ 1 \in 0..MaxNodes /\ 0 \in 0..MaxNodes
    BY <1>1, <1>2 DEF Ids
  <2>2. <<>> \in Seq(Ids) /\ Len(<<>>) = 0
    OBVIOUS
  <2> QED
    BY <1>1, <1>4, <2>1, <2>2 DEF Node
<1> HIDE DEF x, none
<1>7. /\ node \in [Nodes -> Node] /\ node[First] = x
      /\ \A n \in Nodes : Len(node[n].relations) <= Chunk
  BY <1>1, <1>3, <1>4, <1>5, <1>6
<1>8. Len(chain) = 1 /\ chain[1] = First /\ chain \in Seq(Nodes) /\ chain # <<>>
  BY <1>3, <1>5
<1>9. Tables(chain, node)
  BY <1>7, <1>8 DEF Tables
<1>10. /\ pNodes \in [1..MaxNodes -> Nodes \cup {Nil}] /\ pNodes[1] = First /\ pNodes # Nil
  BY <1>2, <1>3, <1>5, NilIs
<1>11. \A i \in 1..Len(chain) : i = 1
  BY <1>8
<1>12. Numbered(chain, node, pNodes)
  BY <1>6, <1>7, <1>8, <1>10, <1>11 DEF Numbered
<1>13. Holds(x, counter, TRUE)
  BY <1>1, <1>4, <1>5, <1>6 DEF Holds
<1>14. Kept(chain, node, pNodes, counter, TRUE)
  <2>1. \A i \in 1..Len(chain) : Holds(node[chain[i]], counter, TRUE)
    BY <1>7, <1>8, <1>11, <1>13
  <2>2. \A i \in 1..Len(chain) : node[chain[i]].relations # <<>>
    BY <1>4, <1>6, <1>7, <1>8, <1>11
  <2>3. \A i, j \in 1..Len(chain) : ~(i < j) /\ j # i + 1
    BY <1>8
  <2> QED
    BY <2>1, <2>2, <2>3 DEF Kept
<1>15. Sound(chain, node, pNodes, counter, ~damaged)
  <2>1. (~damaged) = TRUE
    BY <1>5
  <2> QED
    BY <1>9, <1>12, <1>14, <2>1 DEF Sound
<1>16. KnownOf(chain, node) = 0..Permanent - 1
  <2>1. \A id : id \in KnownOf(chain, node) <=> \E i \in 1..Len(chain) : Has(node[chain[i]], id)
    BY <1>9, KnownIs
  <2>2. 1 \in 1..Len(chain)
    BY <1>8
  <2>3. \A id : id \in KnownOf(chain, node) <=> Has(x, id)
    BY <1>7, <1>8, <1>11, <2>1, <2>2
  <2>4. \A id : Has(x, id) <=> id \in 0..Permanent - 1
    BY <1>4, <1>6 DEF Has
  <2> QED
    BY <2>3, <2>4
<1>17. Types
  <2>1. maxId \in Ids
    BY <1>1, <1>5 DEF Ids
  <2>2. counter \in Nat /\ counter <= MaxId + 1 /\ room \in Nat
    BY <1>1, <1>5
  <2> QED
    BY <1>5, <1>8, <2>1, <2>2 DEF Types
<1>18. Whole
  BY <1>5, <1>6, <1>7, <1>10, <1>16 DEF Whole
<1>19. Searching
  BY <1>5 DEF Searching
<1> QED
  BY <1>15, <1>16, <1>17, <1>18, <1>19 DEF IInv

(* What the steps do to the ids that are known: what the map does.         *)
Seeks == \E id \in Ids, p \in {"find", "release"} : Seek(id, p)

LEMMA AskSound ==
  ASSUME IInv, NEW id \in Ids, GetObjectById(id) \/ Release(id)
  PROVE  Seeks /\ IInv' /\ counter' = counter /\ KnownOf(chain', node') = KnownOf(chain, node)
<1>1. CASE GetObjectById(id)
  <2>1. Seek(id, "find")
    BY <1>1 DEF GetObjectById
  <2> QED
    BY <2>1, SeekSound DEF Seeks
<1>2. CASE Release(id)
  <2>1. Seek(id, "release") /\ id >= Permanent
    BY <1>2 DEF Release
  <2> QED
    BY <2>1, SeekSound DEF Seeks
<1> QED
  BY <1>1, <1>2

LEMMA CreateSound ==
  ASSUME IInv, Create
  PROVE  Created
BY InsertSound, InsertInNewNodeSound, NodeAllocFailsSound, ArrayAllocFailsSound DEF Create

LEMMA ReleaseSound ==
  ASSUME IInv, MergeNext \/ MergePrevious \/ DropEmpty \/ Shrink
  PROVE  Freed /\ Releases
<1>1. Freed
  BY MergeNextSound, MergePreviousSound, DropEmptySound, ShrinkSound
<1>2. Releases
  BY DEF MergeNext, MergePrevious, DropEmpty, Shrink
<1> QED
  BY <1>1, <1>2

LEMMA IInvInductive == IInv /\ [Next]_vars => IInv'
<1> SUFFICES ASSUME IInv, [Next]_vars
             PROVE  IInv'
  OBVIOUS
<1>1. CASE Create
  BY <1>1, CreateSound DEF Created
<1>2. CASE WalkNext
  BY <1>2, WalkNextSound
<1>3. CASE WalkPrevious
  BY <1>3, WalkPreviousSound
<1>4. CASE NotFound
  BY <1>4, NotFoundSound
<1>5. CASE Found
  BY <1>5, FoundSound
<1>6. CASE MergeNext \/ MergePrevious \/ DropEmpty \/ Shrink
  BY <1>6, ReleaseSound DEF Freed
<1>7. CASE \E id \in Ids : GetObjectById(id) \/ Release(id)
  BY <1>7, AskSound
<1>8. CASE UNCHANGED vars
  <2>1. UNCHANGED list /\ UNCHANGED <<goal, purpose, cursor, found>>
    BY <1>8 DEF vars, list
  <2>2. Searching'
    BY <2>1 DEF IInv, Searching, list
  <2> QED
    BY <2>1, <2>2, ListStays DEF IInv, Types
<1> QED
  BY <1>1, <1>2, <1>3, <1>4, <1>5, <1>6, <1>7, <1>8 DEF Next, Search

LEMMA SpecIInv == Spec => []IInv
<1>1. Init => IInv
  BY InitSound
<1> QED
  BY <1>1, IInvInductive, PTL DEF Spec

----------------------------------------------------------------------------
(* The nodes are as every walk, bisection and release expects them to be.  *)
LEMMA IInvNodesSound == IInv => NodesSound
<1> SUFFICES ASSUME IInv
             PROVE  NodesSound
  OBVIOUS
<1>1. /\ Types /\ Whole /\ Searching /\ Tables(chain, node) /\ Numbered(chain, node, pNodes)
      /\ Kept(chain, node, pNodes, counter, ~damaged)
  BY DEF IInv, Sound
<1>2. /\ Len(chain) \in Nat /\ Len(chain) >= 1 /\ Len(chain) \in 1..Len(chain)
      /\ DOMAIN chain = 1..Len(chain)
      /\ \A i \in 1..Len(chain) : chain[i] \in Nodes /\ node[chain[i]] \in Node
  BY <1>1, ListTypes, LenProperties DEF Tables
<1>3. TypeOK
  <2>1. nodeCount \in 1..MaxNodes
    <3>1. Len(chain) <= MaxNodes /\ MaxNodes \in Nat
      BY <1>1, ListFits
    <3> QED
      BY <1>1, <1>2, <3>1 DEF Types
  <2>2. counter \in 0..MaxId + 1
    BY <1>1, IdsAreNaturals DEF Types
  <2> QED
    BY <1>1, <1>2, <2>1, <2>2 DEF TypeOK, Types, Tables, Numbered, Searching, Count
<1>4. ArrayMirrorsList
  BY <1>1, <1>2 DEF ArrayMirrorsList, Types, Numbered, Last
<1>5. ~damaged => pNodes # Nil
  BY <1>1 DEF Whole
<1>6. IdsAscend
  <2> SUFFICES ASSUME ~damaged
               PROVE  /\ \A n \in ToSet(chain) :
                           /\ node[n].relations # <<>>
                           /\ \A i, j \in 1..Count(n) : i < j => node[n].relations[i] < node[n].relations[j]
                           /\ node[n].minId = Head(node[n].relations)
                           /\ node[n].maxId = Last(node[n].relations)
                      /\ \A i \in 1..Len(chain) - 1 : node[chain[i]].maxId < node[chain[i + 1]].minId
                      /\ maxId = node[pLast].maxId
                      /\ maxId < counter
    BY DEF IdsAscend
  <2>1. \A i \in 1..Len(chain) : Holds(node[chain[i]], counter, ~damaged) /\ node[chain[i]].relations # <<>>
    BY <1>1, <1>5 DEF Kept
  <2>2. ASSUME NEW n \in ToSet(chain)
        PROVE  /\ node[n].relations # <<>>
               /\ \A i, j \in 1..Count(n) : i < j => node[n].relations[i] < node[n].relations[j]
               /\ node[n].minId = Head(node[n].relations)
               /\ node[n].maxId = Last(node[n].relations)
    <3>1. PICK k \in 1..Len(chain) : n = chain[k]
      BY <1>2 DEF ToSet
    <3>2. node[n] \in Node /\ Holds(node[n], counter, ~damaged) /\ node[n].relations # <<>>
      BY <1>2, <2>1, <3>1
    <3>3. node[n].relations \in Seq(Ids)
      BY <3>2, NodeTypes
    <3> QED
      BY <3>2, <3>3 DEF Holds, Ascending, Count, Last
  <2>3. \A i \in 1..Len(chain) - 1 : node[chain[i]].maxId < node[chain[i + 1]].minId
    <3> TAKE i \in 1..Len(chain) - 1
    <3>1. i \in 1..Len(chain) /\ i + 1 \in 1..Len(chain) /\ i < i + 1
      BY <1>2
    <3> QED
      BY <1>1, <3>1 DEF Kept
  <2>4. maxId = node[pLast].maxId
    BY <1>1, <1>5 DEF Whole
  <2>5. maxId < counter
    BY <1>1, <1>2, <2>1, <2>4 DEF Types, Holds
  <2> QED
    BY <2>2, <2>3, <2>4, <2>5
<1>7. HalfFull
  <2> SUFFICES ASSUME NEW i \in 1..Len(chain) - 1
               PROVE  2 * Count(chain[i]) >= Chunk \/ 2 * Count(chain[i + 1]) >= Chunk
    BY DEF HalfFull
  <2>1. i \in 1..Len(chain) /\ i + 1 \in 1..Len(chain)
    BY <1>2
  <2> QED
    BY <1>1, <2>1 DEF Kept, Half, Count
<1> QED
  BY <1>3, <1>4, <1>6, <1>7 DEF NodesSound

(* After any sequence of insertions and releases, with or without memory,  *)
(* the list, the array, the numbers and the bounds of the nodes agree, the *)
(* ids ascend and the nodes are half full.                                 *)
THEOREM NodesStaySound == Spec => []NodesSound
BY SpecIInv, IInvNodesSound, PTL

----------------------------------------------------------------------------
LEMMA KnownOfIs == Known = KnownOf(chain, node)
BY DEF Known, KnownOf

LEMMA InitMap == Init => Map!Init
<1> SUFFICES ASSUME Init
             PROVE  Map!Init
  OBVIOUS
<1>1. Known = 0..Permanent - 1
  BY InitSound, KnownOfIs
<1>2. counter = Permanent /\ goal = Nobody /\ purpose = "find" /\ found = FALSE
  BY DEF Init
<1>3. Permanent - 1 \in Map!Ids /\ counter = (Permanent - 1) + 1
  BY <1>2, IdListAssumption DEF Map!Ids
<1> QED
  BY <1>1, <1>2, <1>3 DEF Map!Init

LEMMA NextMap == IInv /\ [Next]_vars => [Map!Next]_(Map!vars)
<1> SUFFICES ASSUME IInv, [Next]_vars
             PROVE  Map!Next \/ UNCHANGED <<Known, counter, goal, purpose, found>>
  BY DEF Map!vars
<1>0. Known = KnownOf(chain, node) /\ Known' = KnownOf(chain', node')
  BY DEF Known, KnownOf
<1>1. CASE Create
  <2>1. goal = Nobody /\ counter \in Ids /\ counter' = counter + 1 /\ UNCHANGED <<goal, purpose, found>>
    BY <1>1 DEF Create, Insert, InsertInNewNode, NodeAllocFails, ArrayAllocFails, NewNode, Idle, NewId
  <2>2. Known' \in {Known, Known \cup {counter}}
    BY <1>0, <1>1, CreateSound DEF Created
  <2>3. Map!Relate
    BY <2>1, <2>2 DEF Map!Relate, Map!Ids, Ids
  <2> QED
    BY <2>3 DEF Map!Next
<1>2. CASE WalkNext
  BY <1>0, <1>2, WalkNextSound DEF WalkNext
<1>3. CASE WalkPrevious
  BY <1>0, <1>3, WalkPreviousSound DEF WalkPrevious
<1>4. CASE NotFound
  <2>1. goal # Nobody /\ found' = FALSE /\ goal' = Nobody /\ purpose' = purpose
    BY <1>4 DEF NotFound, Done
  <2>2. Known' = Known /\ counter' = counter /\ goal \notin Known
    BY <1>0, <1>4, NotFoundSound
  <2>3. Known' = IF purpose = "release" THEN Known \ {goal} ELSE Known
    BY <2>2
  <2>4. found' = (goal \in Known)
    <3>1. goal \notin Known /\ found' = FALSE
      BY <2>1, <2>2
    <3>2. \A e : e \notin Known => (e \in Known) = FALSE
      OBVIOUS
    <3>3. (goal \in Known) = FALSE
      BY <3>1, <3>2
    <3> QED
      BY <3>1, <3>3
  <2>5. Map!Answer
    BY <2>1, <2>2, <2>3, <2>4 DEF Map!Answer
  <2> QED
    BY <2>5 DEF Map!Next
<1>5. CASE Found
  <2>1. goal # Nobody /\ found' = TRUE /\ goal' = Nobody /\ purpose' = purpose /\ purpose = "find"
    BY <1>5 DEF Found, Arrived, Done
  <2>2. Known' = Known /\ counter' = counter /\ goal \in Known
    BY <1>0, <1>5, FoundSound
  <2>3. Map!Answer
    BY <2>1, <2>2 DEF Map!Answer
  <2> QED
    BY <2>3 DEF Map!Next
<1>6. CASE MergeNext \/ MergePrevious \/ DropEmpty \/ Shrink
  <2>1. Freed /\ Releases
    BY <1>6, ReleaseSound
  <2>2. /\ goal # Nobody /\ found' = TRUE /\ goal' = Nobody /\ purpose' = purpose /\ purpose = "release"
        /\ counter' = counter
    BY <2>1 DEF Releases, Arrived, Done
  <2>3. Known' = Known \ {goal} /\ goal \in Known
    BY <1>0, <2>1 DEF Freed
  <2>4. Map!Answer
    BY <2>2, <2>3 DEF Map!Answer
  <2> QED
    BY <2>4 DEF Map!Next
<1>7. CASE \E id \in Ids : GetObjectById(id) \/ Release(id)
  <2>1. PICK id \in Ids : GetObjectById(id) \/ Release(id)
    BY <1>7
  <2>2. Seeks /\ counter' = counter /\ Known' = Known
    BY <1>0, <2>1, AskSound
  <2>3. PICK i \in Ids, p \in {"find", "release"} : Seek(i, p)
    BY <2>2 DEF Seeks
  <2>4. Map!Ask(i, p)
    BY <2>2, <2>3 DEF Map!Ask, Seek
  <2> QED
    BY <2>3, <2>4 DEF Map!Next, Map!Ids, Ids
<1>8. CASE UNCHANGED vars
  BY <1>8 DEF vars, Known
<1> QED
  BY <1>1, <1>2, <1>3, <1>4, <1>5, <1>6, <1>7, <1>8 DEF Next, Search

(* The nodes implement a map from ids: no relation is lost or left over    *)
(* when nodes are filled, put together and dropped, no id is given out     *)
(* twice, and a search answers that an object exists iff it does.          *)
THEOREM MapImplemented == Spec => ImplementsMap
<1>1. IInv /\ [Next]_vars => [Map!Next]_(Map!vars)
  BY NextMap
<1> QED
  BY <1>1, InitMap, SpecIInv, PTL DEF Spec, ImplementsMap, Map!Spec
=============================================================================
