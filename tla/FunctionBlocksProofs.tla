------------------------ MODULE FunctionBlocksProofs ------------------------
(***************************************************************************)
(* A run of the UrTask, however deep the tree below it is, and whatever    *)
(* clients do between two runs, leaves the connections with the elements   *)
(* of what they are linked to, and the blocks with an output for their     *)
(* input or a request to compute it, and the tasks in their cycles.        *)
(***************************************************************************)
EXTENDS FunctionBlocks, FiniteSetTheorems, SequenceTheorems, WellFoundedInduction, TLAPS

General == INSTANCE Lemmas WITH Nil <- NoObject

----------------------------------------------------------------------------
(* Arithmetic: a and b differ by a whole number of cycles c.               *)
Congruent(a, b, c) == \E k \in Int : a = b + k * c

LEMMA Division ==
  ASSUME NEW a \in Int, NEW c \in Nat \ {0}
  PROVE  a % c \in 0..(c - 1) /\ a \div c \in Int /\ a = c * (a \div c) + (a % c)
OBVIOUS

LEMMA Multiples ==
  ASSUME NEW c \in Nat \ {0}, NEW x \in Int, x >= 1
  PROVE  c * x >= c
OBVIOUS

LEMMA OneRemainder ==
  ASSUME NEW c \in Nat \ {0}, NEW x \in Int, NEW y \in Int,
         NEW r \in 0..(c - 1), NEW s \in 0..(c - 1), c * x + r = c * y + s
  PROVE  r = s
<1>1. c * (x - y) = s - r
  OBVIOUS
<1>2. ~(x - y >= 1)
  BY <1>1, Multiples
<1>3. c * (y - x) = r - s
  OBVIOUS
<1>4. ~(y - x >= 1)
  BY <1>3, Multiples
<1> QED
  BY <1>1, <1>2, <1>4

(* What is congruent has the same remainder, wherever one counts from.     *)
LEMMA CongruentRemainder ==
  ASSUME NEW a \in Int, NEW b \in Int, NEW c \in Nat \ {0}, Congruent(a, b, c)
  PROVE  a % c = b % c
<1>1. PICK k \in Int : a = b + k * c
  BY DEF Congruent
<1> DEFINE x == a \div c
           y == b \div c
<1>2. a % c \in 0..(c - 1) /\ x \in Int /\ a = c * x + (a % c)
  BY Division
<1>3. b % c \in 0..(c - 1) /\ y \in Int /\ b = c * y + (b % c)
  BY Division
<1> HIDE DEF x, y
<1>4. c * x + (a % c) = c * (y + k) + (b % c)
  <2>1. c * (y + k) = c * y + k * c
    BY <1>3
  <2> QED
    BY <1>1, <1>2, <1>3, <2>1
<1>5. y + k \in Int
  BY <1>3
<1> QED
  BY <1>2, <1>3, <1>4, <1>5, OneRemainder

LEMMA CongruentSame ==
  ASSUME NEW a \in Int, NEW c \in Int
  PROVE  Congruent(a, a, c)
<1>1. 0 \in Int /\ a = a + 0 * c
  OBVIOUS
<1> QED
  BY <1>1 DEF Congruent

LEMMA CongruentSum ==
  ASSUME NEW a \in Int, NEW b \in Int, NEW d \in Int, NEW c \in Int,
         Congruent(a, b, c), Congruent(b, d, c)
  PROVE  Congruent(a, d, c)
<1>1. PICK k \in Int : a = b + k * c
  BY DEF Congruent
<1>2. PICK j \in Int : b = d + j * c
  BY DEF Congruent
<1>3. (k + j) * c = k * c + j * c /\ k + j \in Int
  OBVIOUS
<1>4. a = d + (k + j) * c
  BY <1>1, <1>2, <1>3
<1> QED
  BY <1>3, <1>4 DEF Congruent

LEMMA CongruentShift ==
  ASSUME NEW a \in Int, NEW b \in Int, NEW d \in Int, NEW e \in Int, NEW c \in Int,
         Congruent(a, b, c), Congruent(d, e, c)
  PROVE  Congruent(d + a, e + b, c)
<1>1. PICK k \in Int : a = b + k * c
  BY DEF Congruent
<1>2. PICK j \in Int : d = e + j * c
  BY DEF Congruent
<1>3. (k + j) * c = k * c + j * c /\ k + j \in Int
  OBVIOUS
<1>4. d + a = (e + b) + (k + j) * c
  BY <1>1, <1>2, <1>3
<1> QED
  BY <1>3, <1>4 DEF Congruent

LEMMA CongruentBack ==
  ASSUME NEW a \in Int, NEW b \in Int, NEW c \in Int, Congruent(a, b, c)
  PROVE  Congruent(b, a, c)
<1>1. PICK k \in Int : a = b + k * c
  BY DEF Congruent
<1> DEFINE j == -k
<1>2. j \in Int /\ j * c = -(k * c)
  OBVIOUS
<1> HIDE DEF j
<1>3. b = a + j * c
  BY <1>1, <1>2
<1> QED
  BY <1>2, <1>3 DEF Congruent

(* A cycle later, and the next point of the cycle from now on.             *)
LEMMA CongruentNext ==
  ASSUME NEW d \in Int, NEW c \in Nat
  PROVE  /\ d + c \in Int /\ Congruent(d + c, d, c)
         /\ c # 0 => /\ d % c \in Int /\ Congruent(d % c, d, c)
                     /\ -((-d) % c) \in Int /\ Congruent(-((-d) % c), d, c)
<1>1. Congruent(d + c, d, c)
  <2>1. 1 \in Int /\ d + c = d + 1 * c
    OBVIOUS
  <2> QED
    BY <2>1 DEF Congruent
<1>2. ASSUME c # 0 PROVE d % c \in Int /\ Congruent(d % c, d, c)
  <2> DEFINE x == d \div c
  <2>1. d % c \in 0..(c - 1) /\ x \in Int /\ d = c * x + (d % c)
    BY <1>2, Division
  <2> HIDE DEF x
  <2>2. -x \in Int /\ (-x) * c = -(c * x)
    BY <2>1
  <2>3. d % c = d + (-x) * c
    BY <2>1, <2>2
  <2>4. d % c \in Int
    BY <2>1
  <2> DEFINE k == -x
  <2>5. k \in Int /\ d % c = d + k * c
    BY <2>2, <2>3
  <2> HIDE DEF k
  <2> QED
    BY <2>4, <2>5 DEF Congruent
<1>3. ASSUME c # 0 PROVE -((-d) % c) \in Int /\ Congruent(-((-d) % c), d, c)
  <2> DEFINE e == -d
             x == e \div c
  <2>0. e \in Int
    OBVIOUS
  <2>1. e % c \in 0..(c - 1) /\ x \in Int /\ e = c * x + (e % c)
    BY <1>3, <2>0, Division
  <2> HIDE DEF x
  <2>2. c * x = x * c
    BY <2>1
  <2>3. -(e % c) = d + x * c
    BY <2>1, <2>2
  <2>4. -(e % c) \in Int
    BY <2>1
  <2>5. Congruent(-(e % c), d, c)
    BY <2>1, <2>3 DEF Congruent
  <2> QED
    BY <2>4, <2>5
<1> QED
  BY <1>1, <1>2, <1>3

----------------------------------------------------------------------------
(* Loops.  If a step h(i) leads from T to T, the results of n such steps   *)
(* from x on exist, and are in T.                                          *)
Leads(h, n, T) == \A i \in 1..n : \A t \in T : h[i][t] \in T

Results(g, h, n, T, x) ==
  g \in [0..n -> T] /\ g[0] = x /\ \A i \in 1..n : g[i] = h[i][g[i - 1]]

LEMMA LoopExists ==
  ASSUME NEW T, NEW x \in T, NEW n \in Nat, NEW h, Leads(h, n, T)
  PROVE  \E g : Results(g, h, n, T, x)
<1> DEFINE S == {k \in Nat : k <= n =>
                   \E g \in [0..k -> T] : g[0] = x /\ \A i \in 1..k : g[i] = h[i][g[i - 1]]}
<1>1. 0 \in S
  <2> DEFINE g == [i \in 0..0 |-> x]
  <2>1. g \in [0..0 -> T] /\ g[0] = x
    OBVIOUS
  <2>2. \A i \in 1..0 : FALSE
    OBVIOUS
  <2> HIDE DEF g
  <2>3. \E f \in [0..0 -> T] : f[0] = x /\ \A i \in 1..0 : f[i] = h[i][f[i - 1]]
    BY <2>1, <2>2
  <2> QED
    BY <2>3
<1>2. ASSUME NEW k \in Nat, k \in S
      PROVE  k + 1 \in S
  <2> SUFFICES ASSUME k + 1 <= n
               PROVE  \E g \in [0..(k + 1) -> T] :
                        g[0] = x /\ \A i \in 1..(k + 1) : g[i] = h[i][g[i - 1]]
    OBVIOUS
  <2>1. PICK g \in [0..k -> T] : g[0] = x /\ \A i \in 1..k : g[i] = h[i][g[i - 1]]
    BY <1>2
  <2> DEFINE f == [i \in 0..(k + 1) |-> IF i = k + 1 THEN h[k + 1][g[k]] ELSE g[i]]
  <2>2. h[k + 1][g[k]] \in T
    <3>1. k + 1 \in 1..n /\ g[k] \in T
      BY <2>1
    <3> QED
      BY <3>1 DEF Leads
  <2>3. f \in [0..(k + 1) -> T]
    BY <2>1, <2>2
  <2>4. f[0] = x
    BY <2>1
  <2>5. \A i \in 1..(k + 1) : f[i] = h[i][f[i - 1]]
    <3> TAKE i \in 1..(k + 1)
    <3>1. f[i - 1] = g[i - 1]
      OBVIOUS
    <3>2. CASE i = k + 1
      BY <3>1, <3>2
    <3>3. CASE i # k + 1
      <4>1. i \in 1..k /\ f[i] = g[i]
        BY <3>3
      <4> QED
        BY <2>1, <3>1, <4>1
    <3> QED
      BY <3>2, <3>3
  <2> HIDE DEF f
  <2> QED
    BY <2>3, <2>4, <2>5
<1> HIDE DEF S
<1>3. Nat \subseteq S
  BY <1>1, <1>2, General!AllNumbers
<1>4. n \in S
  BY <1>3
<1> QED
  BY <1>4 DEF S, Results

LEMMA LoopStays ==
  ASSUME NEW T, NEW n \in Nat, NEW f, f[0] \in T,
         \A i \in 1..n : f[i - 1] \in T => f[i] \in T
  PROVE  \A i \in 0..n : f[i] \in T
<1> DEFINE S == {k \in Nat : k <= n => f[k] \in T}
<1>1. 0 \in S
  OBVIOUS
<1>2. ASSUME NEW k \in Nat, k \in S
      PROVE  k + 1 \in S
  <2> SUFFICES ASSUME k + 1 <= n PROVE f[k + 1] \in T
    OBVIOUS
  <2>1. f[k] \in T /\ k + 1 \in 1..n /\ (k + 1) - 1 = k
    BY <1>2
  <2> QED
    BY <2>1
<1> HIDE DEF S
<1>3. Nat \subseteq S
  BY <1>1, <1>2, General!AllNumbers
<1> QED
  BY <1>3 DEF S

----------------------------------------------------------------------------
(* What Without leaves in a list, and what Append adds.                    *)
LEMMA Appended ==
  ASSUME NEW S, NEW s \in Seq(S), NEW e \in S
  PROVE  Append(s, e) \in Seq(S) /\ ToSet(Append(s, e)) = ToSet(s) \cup {e}
<1>1. Len(s) \in Nat /\ DOMAIN s = 1..Len(s)
  OBVIOUS
<1>2. /\ Append(s, e) \in Seq(S) /\ Len(Append(s, e)) = Len(s) + 1
      /\ \A i \in 1..Len(s) : Append(s, e)[i] = s[i]
      /\ Append(s, e)[Len(s) + 1] = e
  BY AppendProperties
<1>3. DOMAIN Append(s, e) = 1..(Len(s) + 1)
  BY <1>2
<1>4. 1..(Len(s) + 1) = (1..Len(s)) \cup {Len(s) + 1}
  BY <1>1
<1>5. ToSet(Append(s, e)) = {Append(s, e)[i] : i \in (1..Len(s)) \cup {Len(s) + 1}}
  BY <1>3, <1>4 DEF ToSet
<1>6. ToSet(s) = {s[i] : i \in 1..Len(s)}
  BY <1>1 DEF ToSet
<1> QED
  BY <1>2, <1>5, <1>6

Parts(list, x, f) ==
  f = [i \in 0..Len(list) |->
         IF i = 0 THEN <<>> ELSE IF list[i] \in x THEN f[i - 1] ELSE Append(f[i - 1], list[i])]

LEMMA PartsExist ==
  ASSUME NEW S, NEW list \in Seq(S), NEW x
  PROVE  \E f : Parts(list, x, f)
<1> DEFINE n == Len(list)
           T == Seq(S)
           h == [i \in 1..n |-> [t \in T |-> IF list[i] \in x THEN t ELSE Append(t, list[i])]]
<1>1. n \in Nat /\ <<>> \in T
  OBVIOUS
<1>2. \A i \in 1..n : \A t \in T : h[i][t] = (IF list[i] \in x THEN t ELSE Append(t, list[i]))
  OBVIOUS
<1>3. Leads(h, n, T)
  <2> SUFFICES ASSUME NEW i \in 1..n, NEW t \in T PROVE h[i][t] \in T
    BY DEF Leads
  <2>1. list[i] \in S
    OBVIOUS
  <2>2. Append(t, list[i]) \in T
    BY <2>1, AppendProperties
  <2> QED
    BY <1>2, <2>2
<1> HIDE DEF T, h
<1> DEFINE start == <<>>
<1>4. start \in T
  BY <1>1
<1> HIDE DEF start, n
<1>5. PICK g : Results(g, h, n, T, start)
  BY <1>1, <1>3, <1>4, LoopExists
<1>6. \A i \in 0..n : g[i] = IF i = 0 THEN <<>> ELSE IF list[i] \in x THEN g[i - 1]
                                                     ELSE Append(g[i - 1], list[i])
  <2> TAKE i \in 0..n
  <2>1. CASE i = 0
    BY <1>5, <2>1 DEF start, Results
  <2>2. CASE i # 0
    <3>1. i \in 1..n /\ i - 1 \in 0..n
      BY <1>1, <2>2
    <3>2. g[i] = h[i][g[i - 1]] /\ g[i - 1] \in T
      BY <1>5, <3>1 DEF Results
    <3> QED
      BY <1>2, <2>2, <3>1, <3>2
  <2> QED
    BY <2>1, <2>2
<1>7. g = [i \in 0..n |-> IF i = 0 THEN <<>> ELSE IF list[i] \in x THEN g[i - 1]
                                                ELSE Append(g[i - 1], list[i])]
  BY <1>5, <1>6 DEF Results
<1> QED
  BY <1>7 DEF Parts, n

LEMMA WithoutParts ==
  ASSUME NEW list, NEW x, NEW g, Parts(list, x, g)
  PROVE  \E f : Parts(list, x, f) /\ Without(list, x) = f[Len(list)]
<1> DEFINE f == CHOOSE f : f = [i \in 0..Len(list) |->
                  IF i = 0 THEN <<>> ELSE IF list[i] \in x THEN f[i - 1] ELSE Append(f[i - 1], list[i])]
<1>1. g = [i \in 0..Len(list) |->
             IF i = 0 THEN <<>> ELSE IF list[i] \in x THEN g[i - 1] ELSE Append(g[i - 1], list[i])]
  BY Zenon DEF Parts
<1>2. f = [i \in 0..Len(list) |->
             IF i = 0 THEN <<>> ELSE IF list[i] \in x THEN f[i - 1] ELSE Append(f[i - 1], list[i])]
  BY <1>1, Zenon
<1>3. Without(list, x) = f[Len(list)]
  BY Zenon DEF Without
<1>4. Parts(list, x, f)
  <2> HIDE DEF f
  <2> QED
    BY <1>2, Zenon DEF Parts
<1> HIDE DEF f
<1> QED
  BY <1>3, <1>4

LEMMA WithoutProperties ==
  ASSUME NEW S, NEW list \in Seq(S), NEW x
  PROVE  Without(list, x) \in Seq(S) /\ ToSet(Without(list, x)) = ToSet(list) \ x
<1>1. PICK f : Parts(list, x, f) /\ Without(list, x) = f[Len(list)]
  BY PartsExist, WithoutParts
<1> DEFINE n == Len(list)
           seen(k) == {list[i] : i \in 1..k}
           N == {k \in Nat : k <= n => f[k] \in Seq(S) /\ ToSet(f[k]) = seen(k) \ x}
<1>2. n \in Nat
  OBVIOUS
<1>3. \A i \in 0..n : f[i] = IF i = 0 THEN <<>> ELSE IF list[i] \in x THEN f[i - 1]
                                                     ELSE Append(f[i - 1], list[i])
  <2> DEFINE body(i) == IF i = 0 THEN <<>> ELSE IF list[i] \in x THEN f[i - 1] ELSE Append(f[i - 1], list[i])
  <2>1. f = [i \in 0..n |-> body(i)]
    BY <1>1, Zenon DEF Parts
  <2> HIDE DEF body
  <2>2. \A i \in 0..n : f[i] = body(i)
    BY <2>1
  <2> QED
    BY <2>2 DEF body
<1>4. 0 \in N
  <2>1. f[0] = <<>>
    BY <1>2, <1>3
  <2>2. seen(0) = {} /\ ToSet(<<>>) = {}
    BY DEF ToSet
  <2>3. f[0] \in Seq(S) /\ ToSet(f[0]) = seen(0) \ x
    BY <2>1, <2>2
  <2> HIDE DEF seen
  <2> QED
    BY <2>3
<1>5. ASSUME NEW k \in Nat, k \in N
      PROVE  k + 1 \in N
  <2> SUFFICES ASSUME k + 1 <= n
               PROVE  f[k + 1] \in Seq(S) /\ ToSet(f[k + 1]) = seen(k + 1) \ x
    OBVIOUS
  <2>1. f[k] \in Seq(S) /\ ToSet(f[k]) = seen(k) \ x
    BY <1>2, <1>5
  <2>2. k + 1 \in 0..n /\ k + 1 # 0 /\ (k + 1) - 1 = k /\ list[k + 1] \in S
    BY <1>2
  <2>3. f[k + 1] = IF list[k + 1] \in x THEN f[k] ELSE Append(f[k], list[k + 1])
    BY <1>3, <2>2
  <2>4. seen(k + 1) = seen(k) \cup {list[k + 1]}
    <3>1. 1..(k + 1) = (1..k) \cup {k + 1}
      OBVIOUS
    <3> QED
      BY <3>1
  <2> HIDE DEF seen
  <2>5. /\ Append(f[k], list[k + 1]) \in Seq(S)
        /\ ToSet(Append(f[k], list[k + 1])) = ToSet(f[k]) \cup {list[k + 1]}
    BY <2>1, <2>2, Appended
  <2>6. CASE list[k + 1] \in x
    BY <2>1, <2>3, <2>4, <2>6
  <2>7. CASE list[k + 1] \notin x
    BY <2>1, <2>3, <2>4, <2>5, <2>7
  <2> QED
    BY <2>6, <2>7
<1>6. ToSet(list) = seen(n)
  BY <1>2 DEF ToSet
<1> HIDE DEF N, seen
<1>7. Nat \subseteq N
  BY <1>4, <1>5, General!AllNumbers
<1>8. f[n] \in Seq(S) /\ ToSet(f[n]) = seen(n) \ x
  BY <1>2, <1>7 DEF N
<1> QED
  BY <1>1, <1>6, <1>8

----------------------------------------------------------------------------
(* What holds of the net before, during and after a run.                   *)
Nets ==
  [kids : [Runnable -> Seq(Runnable)],
   ins  : [Objects -> Seq(Connections)],
   outs : [Objects -> Seq(Connections)],
   task : [Runnable -> Task],
   val  : [Blocks \cup Ports -> [{"in", "out"} -> Values] \cup [{"value"} -> Values]],
   conn : [Connections -> Connection]]

ValuesTyped(n) ==
  /\ \A b \in Blocks : n.val[b] \in [{"in", "out"} -> Values]
  /\ \A x \in Ports : n.val[x] \in [{"value"} -> Values]

(* The elements that have been found are those that would be found now.    *)
Found(k) == k.source # NoElement \/ k.target # NoElement

Resolved(n, c) ==
  Found(n.conn[c]) =>
    /\ n.conn[c].source = <<Source(n, c), n.conn[c].sport>> /\ Source(n, c) \in Objects
    /\ n.conn[c].target = <<Target(n, c), n.conn[c].tport>> /\ Target(n, c) \in Objects
    /\ Consistent(n, c)

Follows(n, b) == n.val[b].out = n.val[b].in \/ n.val[b].in = Bad \/ n.task[b].eex

Sound(n) ==
  /\ n \in Nets /\ ValuesTyped(n)
  /\ \A c \in Connections : Resolved(n, c)
  /\ \A b \in Blocks : Follows(n, b)

(* A task that was t is still in its cycle.                                *)
InCycle(t, u) == u.cyc = 0 \/ (u.cyc = t.cyc /\ Congruent(u.due, t.due, t.cyc))

(* Or it has fallen one unit of time behind.                               *)
Behind(t, u) == Inexact(t) /\ u.cyc = t.cyc /\ Congruent(u.due, t.due - 1, t.cyc)

(* A step of a run leads from n to m: the net stays sound and the          *)
(* connections linked as they are, and the tasks stay in their cycles.     *)
Goes(n, m) ==
  /\ Sound(m)
  /\ m.ins = n.ins /\ m.outs = n.outs
  /\ \A o \in Runnable : InCycle(n.task[o], m.task[o])

LEMMA CycleAndDue ==
  ASSUME NEW t \in Task
  PROVE  t.cyc \in Nat /\ t.cyc \in Int /\ t.due \in Int
<1>1. CycleTimes \subseteq Nat
  BY TimesAssumption
<1>2. CycleTimes \cup {0} \subseteq Nat
  BY <1>1
<1>3. t.cyc \in CycleTimes \cup {0} /\ t.due \in Int
  BY DEF Task
<1>4. t.cyc \in Nat
  BY <1>2, <1>3
<1> QED
  BY <1>3, <1>4

LEMMA TaskTyped ==
  ASSUME NEW n \in Nets, NEW o \in Runnable
  PROVE  n.task[o] \in Task /\ n.task[o].cyc \in Nat /\ n.task[o].cyc \in Int /\ n.task[o].due \in Int
<1>1. n.task[o] \in Task
  BY DEF Nets
<1> QED
  BY <1>1, CycleAndDue

LEMMA GoesSame ==
  ASSUME NEW n, Sound(n)
  PROVE  Goes(n, n)
<1> SUFFICES ASSUME NEW o \in Runnable PROVE InCycle(n.task[o], n.task[o])
  BY DEF Goes
<1>1. n.task[o].cyc \in Int /\ n.task[o].due \in Int
  BY TaskTyped DEF Sound
<1> QED
  BY <1>1, CongruentSame DEF InCycle

LEMMA InCycleSum ==
  ASSUME NEW t \in Task, NEW u \in Task, NEW w \in Task, InCycle(t, u), InCycle(u, w)
  PROVE  InCycle(t, w)
<1>1. t.due \in Int /\ u.due \in Int /\ w.due \in Int /\ t.cyc \in Int /\ u.cyc \in Int
  BY CycleAndDue
<1>2. CASE w.cyc = 0
  BY <1>2 DEF InCycle
<1>3. CASE w.cyc # 0
  <2>1. w.cyc = u.cyc /\ Congruent(w.due, u.due, u.cyc)
    BY <1>3 DEF InCycle
  <2>2. u.cyc = t.cyc /\ Congruent(u.due, t.due, t.cyc)
    BY <1>3, <2>1 DEF InCycle
  <2>3. Congruent(w.due, t.due, t.cyc)
    BY <1>1, <2>1, <2>2, CongruentSum
  <2> QED
    BY <2>1, <2>2, <2>3 DEF InCycle
<1> QED
  BY <1>2, <1>3

LEMMA GoesOn ==
  ASSUME NEW n, Sound(n), NEW m, Goes(n, m), NEW k, Goes(m, k)
  PROVE  Goes(n, k)
<1> SUFFICES ASSUME NEW o \in Runnable PROVE InCycle(n.task[o], k.task[o])
  BY DEF Goes
<1>1. n.task[o] \in Task /\ m.task[o] \in Task /\ k.task[o] \in Task
  BY DEF Goes, Sound, Nets
<1> QED
  BY <1>1, InCycleSum DEF Goes

(* What the elements depend on, and what does not concern them.            *)
LEMMA EndsSame ==
  ASSUME NEW n, NEW m, m.ins = n.ins, m.outs = n.outs, NEW c
  PROVE  Source(m, c) = Source(n, c) /\ Target(m, c) = Target(n, c)
BY DEF Source, Target

LEMMA HolderIs ==
  ASSUME NEW links, NEW c, Holder(links, c) # NoObject
  PROVE  Holder(links, c) \in Objects /\ c \in ToSet(links[Holder(links, c)])
BY DEF Holder

LEMMA HolderSame ==
  ASSUME NEW links, NEW others, NEW c, \A o \in Objects : c \in ToSet(links[o]) <=> c \in ToSet(others[o])
  PROVE  Holder(links, c) = Holder(others, c)
<1> DEFINE h(x) == {o \in Objects : c \in ToSet(x[o])}
<1>1. h(links) = h(others)
  OBVIOUS
<1>2. \A x : Holder(x, c) = IF h(x) = {} THEN NoObject ELSE CHOOSE o \in h(x) : TRUE
  BY DEF Holder
<1> HIDE DEF h
<1> QED
  BY <1>1, <1>2

LEMMA ResolvedSame ==
  ASSUME NEW n, NEW m, m.ins = n.ins, m.outs = n.outs, NEW c \in Connections,
         m.conn[c] = n.conn[c], Resolved(n, c)
  PROVE  Resolved(m, c)
BY EndsSame DEF Resolved, Found, Consistent

LEMMA EndsTyped ==
  ASSUME NEW n, NEW c
  PROVE  Source(n, c) \in Objects \cup {NoObject} /\ Target(n, c) \in Objects \cup {NoObject}
BY HolderIs DEF Source, Target

LEMMA PortsAreNoBlocks == Blocks \cap Ports = {}
BY ObjectsAssumption DEF Runnable

(* What a variable of an object can be.                                    *)
LEMMA WritableOf ==
  ASSUME NEW o, NEW name \in Writable(o)
  PROVE  (o \in Blocks /\ name = "in") \/ (o \in Ports /\ o \notin Blocks /\ name = "value")
<1>1. CASE o \in Blocks
  BY <1>1, PortsAreNoBlocks DEF Writable
<1>2. CASE o \notin Blocks /\ o \in Ports
  BY <1>2, PortsAreNoBlocks DEF Writable
<1>3. CASE o \notin Blocks /\ o \notin Ports
  BY <1>3 DEF Writable
<1> QED
  BY <1>1, <1>2, <1>3

LEMMA ReadableOf ==
  ASSUME NEW o, NEW name \in Readable(o)
  PROVE  (o \in Blocks /\ name \in {"in", "out"}) \/ (o \in Ports /\ o \notin Blocks /\ name = "value")
<1>1. CASE o \in Blocks
  BY <1>1, PortsAreNoBlocks DEF Readable
<1>2. CASE o \notin Blocks /\ o \in Ports
  BY <1>2, PortsAreNoBlocks DEF Readable
<1>3. CASE o \notin Blocks /\ o \notin Ports
  BY <1>3 DEF Readable
<1> QED
  BY <1>1, <1>2, <1>3

LEMMA ReadsValue ==
  ASSUME NEW n, n \in Nets, ValuesTyped(n), NEW o, NEW name \in Readable(o)
  PROVE  n.val[o][name] \in Values
<1>1. CASE o \in Blocks /\ name \in {"in", "out"}
  BY <1>1 DEF ValuesTyped
<1>2. CASE o \in Ports /\ name = "value"
  BY <1>2 DEF ValuesTyped
<1> QED
  BY <1>1, <1>2, ReadableOf

(* A task whose cycle and time stay is in its cycle.                       *)
LEMMA InCycleSame ==
  ASSUME NEW t \in Task, NEW u, u.cyc = t.cyc, u.due = t.due
  PROVE  InCycle(t, u)
<1>1. t.cyc \in Int /\ t.due \in Int
  BY CycleAndDue
<1>2. Congruent(t.due, t.due, t.cyc)
  BY <1>1, CongruentSame
<1> QED
  BY <1>2 DEF InCycle

(* A value that changes requests an execution: so the output of the block  *)
(* may lag behind.                                                         *)
LEMMA SetVarGoes ==
  ASSUME NEW n, Sound(n), NEW o, NEW name \in Writable(o), NEW v \in Values
  PROVE  Goes(n, SetVar(n, o, <<o, name>>, v))
<1> DEFINE x == Executor(o)
           m == SetVar(n, o, <<o, name>>, v)
<1>1. CASE n.val[o][name] = v
  <2>1. m = n
    BY <1>1 DEF SetVar
  <2> QED
    BY <2>1, GoesSame
<1>2. CASE n.val[o][name] # v
  <2>0. n \in Nets /\ ValuesTyped(n)
    BY DEF Sound
  <2>1. m = [n EXCEPT !.val = [n.val EXCEPT ![o][name] = v], !.task = [n.task EXCEPT ![x].eex = TRUE]]
    BY <1>2, <2>0 DEF SetVar, Nets
  <2> HIDE DEF m, x
  <2>2. /\ m.kids = n.kids /\ m.ins = n.ins /\ m.outs = n.outs /\ m.conn = n.conn
        /\ m.val = [n.val EXCEPT ![o][name] = v]
        /\ m.task = [n.task EXCEPT ![x].eex = TRUE]
    BY <2>0, <2>1 DEF Nets
  <2>3. /\ m = [kids |-> m.kids, ins |-> m.ins, outs |-> m.outs, task |-> m.task, val |-> m.val, conn |-> m.conn]
    BY <2>0, <2>1 DEF Nets
  <2>4. m.task \in [Runnable -> Task] /\ \A y \in Runnable :
          m.task[y].cyc = n.task[y].cyc /\ m.task[y].due = n.task[y].due
          /\ (n.task[y].eex => m.task[y].eex) /\ (y = x => m.task[y].eex)
    <3>1. \A y \in Runnable : m.task[y] = IF y = x THEN [n.task[y] EXCEPT !.eex = TRUE] ELSE n.task[y]
      BY <2>0, <2>2 DEF Nets
    <3>2. \A t \in Task : LET u == [t EXCEPT !.eex = TRUE]
                          IN  u \in Task /\ u.cyc = t.cyc /\ u.due = t.due /\ u.eex
      BY DEF Task
    <3>3. DOMAIN m.task = Runnable /\ m.task = [y \in Runnable |-> m.task[y]]
      BY <2>0, <2>2 DEF Nets
    <3>4. ASSUME NEW y \in Runnable
          PROVE  /\ m.task[y] \in Task
                 /\ m.task[y].cyc = n.task[y].cyc /\ m.task[y].due = n.task[y].due
                 /\ n.task[y].eex => m.task[y].eex
                 /\ y = x => m.task[y].eex
      <4>1. n.task[y] \in Task
        BY <2>0, TaskTyped
      <4> QED
        BY <3>1, <3>2, <4>1
    <3> QED
      BY <3>3, <3>4
  <2>6. /\ \A b \in Blocks : m.val[b] \in [{"in", "out"} -> Values]
        /\ \A b \in Ports : m.val[b] \in [{"value"} -> Values]
        /\ DOMAIN m.val = Blocks \cup Ports
    <3>0. Blocks \cap Ports = {}
      BY PortsAreNoBlocks
    <3>1. CASE o \in Blocks /\ name = "in"
      BY <2>0, <2>2, <3>0, <3>1 DEF Nets, ValuesTyped
    <3>2. CASE o \in Ports /\ o \notin Blocks /\ name = "value"
      BY <2>0, <2>2, <3>0, <3>2 DEF Nets, ValuesTyped
    <3> QED
      BY <3>1, <3>2, WritableOf
  <2>7. m.val \in [Blocks \cup Ports -> [{"in", "out"} -> Values] \cup [{"value"} -> Values]]
    BY <2>0, <2>2, <2>6 DEF Nets
  <2>8. m \in Nets /\ ValuesTyped(m)
    BY <2>0, <2>2, <2>3, <2>4, <2>6, <2>7 DEF Nets, ValuesTyped
  <2>9. \A c \in Connections : Resolved(m, c)
    BY <2>2, ResolvedSame DEF Sound
  <2>10. \A b \in Blocks : Follows(m, b)
    <3> SUFFICES ASSUME NEW b \in Blocks PROVE Follows(m, b)
      OBVIOUS
    <3>1. Follows(n, b) /\ b \in Runnable
      BY DEF Sound, Runnable
    <3>2. CASE b # o
      <4>1. m.val[b] = n.val[b]
        BY <2>0, <2>2, <3>2 DEF Nets
      <4> QED
        BY <2>4, <3>1, <4>1 DEF Follows
    <3>3. CASE b = o
      <4>1. x = b
        BY <3>3, ObjectsAssumption DEF x, Executor, Runnable
      <4> QED
        BY <2>4, <3>1, <4>1 DEF Follows
    <3> QED
      BY <3>2, <3>3
  <2>11. \A y \in Runnable : InCycle(n.task[y], m.task[y])
    BY <2>0, <2>4, TaskTyped, InCycleSame
  <2> QED
    BY <2>2, <2>8, <2>9, <2>10, <2>11 DEF Goes, Sound, m
<1> QED
  BY <1>1, <1>2

(* Tasks change, but no request of a block is withdrawn.                   *)
LEMMA TasksSound ==
  ASSUME NEW n, Sound(n), NEW f \in [Runnable -> Task],
         \A b \in Blocks : n.task[b].eex => f[b].eex
  PROVE  LET m == [n EXCEPT !.task = f]
         IN  Sound(m) /\ m.ins = n.ins /\ m.outs = n.outs /\ m.task = f
<1> DEFINE m == [n EXCEPT !.task = f]
<1>1. n \in Nets /\ ValuesTyped(n)
  BY DEF Sound
<1>2. m \in Nets
  BY <1>1 DEF Nets
<1>3. /\ m.kids = n.kids /\ m.ins = n.ins /\ m.outs = n.outs /\ m.conn = n.conn
      /\ m.val = n.val /\ m.task = f
  BY <1>1 DEF Nets
<1> HIDE DEF m
<1>4. ValuesTyped(m)
  BY <1>1, <1>3 DEF ValuesTyped
<1>5. \A c \in Connections : Resolved(m, c)
  BY <1>3, ResolvedSame DEF Sound
<1>6. ASSUME NEW b \in Blocks PROVE Follows(m, b)
  <2>1. Follows(n, b)
    BY DEF Sound
  <2> QED
    BY <1>3, <2>1 DEF Follows
<1>7. Sound(m)
  BY <1>2, <1>4, <1>5, <1>6 DEF Sound
<1> QED
  BY <1>3, <1>7 DEF m

(* And they stay in their cycles.                                          *)
LEMMA TasksGo ==
  ASSUME NEW n, Sound(n), NEW f \in [Runnable -> Task],
         \A y \in Runnable : InCycle(n.task[y], f[y]),
         \A b \in Blocks : n.task[b].eex => f[b].eex
  PROVE  Goes(n, [n EXCEPT !.task = f])
<1> DEFINE m == [n EXCEPT !.task = f]
<1>1. Sound(m) /\ m.ins = n.ins /\ m.outs = n.outs /\ m.task = f
  BY TasksSound
<1> HIDE DEF m
<1>2. Goes(n, m)
  BY <1>1 DEF Goes
<1> QED
  BY <1>2 DEF m

(* A connection changes, and its elements still are those it would find.   *)
LEMMA ConnectionGoes ==
  ASSUME NEW n, Sound(n), NEW c \in Connections, NEW k \in Connection,
         Found(k) =>
           /\ k.source = <<Source(n, c), k.sport>> /\ Source(n, c) \in Objects
           /\ k.target = <<Target(n, c), k.tport>> /\ Target(n, c) \in Objects
           /\ k.sport \in Readable(Source(n, c)) /\ k.tport \in Writable(Target(n, c))
  PROVE  Goes(n, [n EXCEPT !.conn[c] = k])
<1> DEFINE m == [n EXCEPT !.conn[c] = k]
<1>1. n \in Nets /\ ValuesTyped(n)
  BY DEF Sound
<1>2. m \in Nets
  BY <1>1 DEF Nets
<1>3. /\ m.kids = n.kids /\ m.ins = n.ins /\ m.outs = n.outs /\ m.task = n.task
      /\ m.val = n.val /\ m.conn[c] = k
      /\ \A d \in Connections : d # c => m.conn[d] = n.conn[d]
  BY <1>1 DEF Nets
<1> HIDE DEF m
<1>4. ValuesTyped(m)
  BY <1>1, <1>3 DEF ValuesTyped
<1>5. ASSUME NEW d \in Connections PROVE Resolved(m, d)
  <2>1. CASE d # c
    BY <1>3, <2>1, ResolvedSame DEF Sound
  <2>2. CASE d = c
    <3>1. Source(m, c) = Source(n, c) /\ Target(m, c) = Target(n, c)
      BY <1>3, EndsSame
    <3> QED
      BY <1>3, <2>2, <3>1 DEF Resolved, Consistent
  <2> QED
    BY <2>1, <2>2
<1>6. ASSUME NEW b \in Blocks PROVE Follows(m, b)
  BY <1>3 DEF Sound, Follows
<1>7. \A y \in Runnable : InCycle(n.task[y], m.task[y])
  BY <1>1, <1>3, TaskTyped, InCycleSame
<1>8. Goes(n, m)
  BY <1>2, <1>3, <1>4, <1>5, <1>6, <1>7 DEF Goes, Sound
<1> QED
  BY <1>8 DEF m

(* What the lookup finds is what the connection is linked to, or nothing.  *)
LEMMA ElementsRight ==
  ASSUME NEW n, Sound(n), NEW c \in Connections,
         Source(n, c) \in Objects, Target(n, c) \in Objects
  PROVE  LET k == Elements(n, c)
         IN  /\ k \in Connection
             /\ Found(k) =>
                  /\ k.source = <<Source(n, c), k.sport>>
                  /\ k.target = <<Target(n, c), k.tport>>
                  /\ k.sport \in Readable(Source(n, c)) /\ k.tport \in Writable(Target(n, c))
<1> DEFINE j == n.conn[c]
           k == Elements(n, c)
<1>1. j \in Connection /\ NoElement \in Element
  BY DEF Sound, Nets, Element
<1>2. CASE j.source # NoElement /\ j.target # NoElement
  <2>1. k = j
    BY <1>2 DEF Elements
  <2>2. Resolved(n, c) /\ Found(j)
    BY <1>2 DEF Sound, Found
  <2> QED
    BY <1>1, <2>1, <2>2 DEF Resolved, Consistent
<1>3. CASE ~(j.source # NoElement /\ j.target # NoElement) /\ Consistent(n, c)
  <2>1. k = [j EXCEPT !.source = <<Source(n, c), j.sport>>, !.target = <<Target(n, c), j.tport>>]
    BY <1>3 DEF Elements
  <2>2. j.sport \in Readable(Source(n, c)) /\ j.tport \in Writable(Target(n, c))
    BY <1>3 DEF Consistent
  <2>3. j.sport \in Names /\ j.tport \in Names
    BY <2>2, ReadableOf, WritableOf DEF Names
  <2>4. <<Source(n, c), j.sport>> \in Element /\ <<Target(n, c), j.tport>> \in Element
    BY <2>3 DEF Element
  <2> HIDE DEF j, k
  <2>5. k \in Connection
    BY <1>1, <2>1, <2>4 DEF Connection
  <2>6. /\ k.source = <<Source(n, c), k.sport>> /\ k.target = <<Target(n, c), k.tport>>
        /\ k.sport = j.sport /\ k.tport = j.tport
    BY <1>1, <2>1 DEF Connection
  <2> QED
    BY <2>2, <2>5, <2>6 DEF k
<1>4. CASE ~(j.source # NoElement /\ j.target # NoElement) /\ ~Consistent(n, c)
  <2>1. k = Invalid([j EXCEPT !.on = FALSE])
    BY <1>4 DEF Elements
  <2> HIDE DEF j, k
  <2>2. k \in Connection /\ k.source = NoElement /\ k.target = NoElement
    BY <1>1, <2>1 DEF Invalid, Connection
  <2> QED
    BY <2>2 DEF k, Found
<1> QED
  BY <1>2, <1>3, <1>4

LEMMA TriggerGoes ==
  ASSUME NEW n, Sound(n), NEW c \in Connections
  PROVE  Goes(n, Trigger(n, c))
<1> DEFINE k == Elements(n, c)
           m == [n EXCEPT !.conn[c] = k]
<1>1. CASE ~n.conn[c].on \/ Source(n, c) = NoObject \/ Target(n, c) = NoObject
  <2>1. Trigger(n, c) = n
    BY <1>1 DEF Trigger
  <2> QED
    BY <2>1, GoesSame
<1>2. CASE ~(~n.conn[c].on \/ Source(n, c) = NoObject \/ Target(n, c) = NoObject)
  <2>1. Source(n, c) \in Objects /\ Target(n, c) \in Objects
    BY <1>2, EndsTyped
  <2>2. /\ k \in Connection
        /\ Found(k) =>
             /\ k.source = <<Source(n, c), k.sport>>
             /\ k.target = <<Target(n, c), k.tport>>
             /\ k.sport \in Readable(Source(n, c)) /\ k.tport \in Writable(Target(n, c))
    BY <2>1, ElementsRight
  <2> HIDE DEF k
  <2>3. Goes(n, m)
    BY <2>1, <2>2, ConnectionGoes
  <2>4. CASE k.source = NoElement
    <3> DEFINE f == [o \in Runnable |-> IF o \in Blamed(n, c) THEN [m.task[o] EXCEPT !.err = TRUE] ELSE m.task[o]]
    <3>1. Trigger(n, c) = [m EXCEPT !.task = f]
      BY <1>2, <2>4 DEF Trigger, k
    <3>2. m \in Nets
      BY <2>3 DEF Goes, Sound
    <3> HIDE DEF m
    <3>3. \A t \in Task : LET u == [t EXCEPT !.err = TRUE]
                          IN  u \in Task /\ u.cyc = t.cyc /\ u.due = t.due /\ u.eex = t.eex
      BY DEF Task
    <3>4. ASSUME NEW y \in Runnable
          PROVE  f[y] \in Task /\ InCycle(m.task[y], f[y]) /\ (m.task[y].eex => f[y].eex)
      <4>1. m.task[y] \in Task
        BY <3>2, TaskTyped
      <4>2. f[y] \in Task /\ f[y].cyc = m.task[y].cyc /\ f[y].due = m.task[y].due /\ f[y].eex = m.task[y].eex
        BY <3>3, <4>1
      <4> QED
        BY <4>1, <4>2, InCycleSame
    <3>5. f \in [Runnable -> Task]
      BY <3>4
    <3> HIDE DEF f
    <3>6. Sound(m) /\ (\A y \in Runnable : InCycle(m.task[y], f[y])) /\ \A b \in Blocks : m.task[b].eex => f[b].eex
      BY <2>3, <3>4 DEF Goes, Runnable
    <3>7. Goes(m, [m EXCEPT !.task = f])
      BY <3>5, <3>6, TasksGo
    <3> QED
      BY <2>3, <3>1, <3>7, GoesOn
  <2>5. CASE k.source # NoElement
    <3>1. Trigger(n, c) = SetVar(m, Target(n, c), k.target, m.val[k.source[1]][k.source[2]])
      BY <1>2, <2>5 DEF Trigger, k
    <3>2. /\ k.source = <<Source(n, c), k.sport>> /\ k.target = <<Target(n, c), k.tport>>
          /\ k.sport \in Readable(Source(n, c)) /\ k.tport \in Writable(Target(n, c))
      BY <2>2, <2>5 DEF Found
    <3> HIDE DEF m
    <3>3. Sound(m) /\ m \in Nets /\ ValuesTyped(m)
      BY <2>3 DEF Goes, Sound
    <3>4. k.source[1] = Source(n, c) /\ k.source[2] = k.sport
      BY <3>2
    <3>5. m.val[Source(n, c)][k.sport] \in Values
      BY <3>2, <3>3, ReadsValue
    <3>6. Goes(m, SetVar(m, Target(n, c), <<Target(n, c), k.tport>>, m.val[Source(n, c)][k.sport]))
      BY <3>2, <3>3, <3>5, SetVarGoes
    <3>7. Trigger(n, c) = SetVar(m, Target(n, c), <<Target(n, c), k.tport>>, m.val[Source(n, c)][k.sport])
      BY <3>1, <3>2, <3>4
    <3> QED
      BY <2>3, <3>6, <3>7, GoesOn
  <2> QED
    BY <2>4, <2>5
<1> QED
  BY <1>1, <1>2

(* Triggering connections one after the other.                             *)
StepsTriggerAll(n, cs, f) ==
  f = [i \in 0..Len(cs) |-> IF i = 0 THEN n ELSE Trigger(f[i - 1], cs[i])]

LEMMA TriggerAllSteps ==
  ASSUME NEW n, NEW cs, NEW g, StepsTriggerAll(n, cs, g)
  PROVE  \E f : StepsTriggerAll(n, cs, f) /\ TriggerAll(n, cs) = f[Len(cs)]
<1> DEFINE f == CHOOSE f : f = [i \in 0..Len(cs) |-> IF i = 0 THEN n ELSE Trigger(f[i - 1], cs[i])]
<1>1. g = [i \in 0..Len(cs) |-> IF i = 0 THEN n ELSE Trigger(g[i - 1], cs[i])]
  BY Zenon DEF StepsTriggerAll
<1>2. f = [i \in 0..Len(cs) |-> IF i = 0 THEN n ELSE Trigger(f[i - 1], cs[i])]
  BY <1>1, Zenon
<1>3. TriggerAll(n, cs) = f[Len(cs)]
  BY Zenon DEF TriggerAll
<1>4. StepsTriggerAll(n, cs, f)
  <2> HIDE DEF f
  <2> QED
    BY <1>2, Zenon DEF StepsTriggerAll
<1> HIDE DEF f
<1> QED
  BY <1>3, <1>4

LEMMA TriggerAllGoes ==
  ASSUME NEW n, Sound(n), NEW cs \in Seq(Connections)
  PROVE  Goes(n, TriggerAll(n, cs))
<1> DEFINE T == {m \in Nets : Goes(n, m)}
           h == [i \in 1..Len(cs) |-> [t \in T |-> Trigger(t, cs[i])]]
<1>1. Len(cs) \in Nat /\ \A i \in 1..Len(cs) : cs[i] \in Connections
  OBVIOUS
<1>2. n \in T
  BY GoesSame DEF Sound
<1>3. ASSUME NEW i \in 1..Len(cs), NEW t \in T
      PROVE  Trigger(t, cs[i]) \in T
  <2>1. Sound(t) /\ cs[i] \in Connections
    BY <1>1 DEF Goes
  <2>2. Goes(t, Trigger(t, cs[i]))
    BY <2>1, TriggerGoes
  <2>3. Goes(n, Trigger(t, cs[i]))
    BY <2>2, GoesOn
  <2> QED
    BY <2>3 DEF Goes, Sound
<1>4. \A i \in 1..Len(cs) : \A t \in T : h[i][t] = Trigger(t, cs[i])
  OBVIOUS
<1>5. Leads(h, Len(cs), T)
  BY <1>3, <1>4 DEF Leads
<1> HIDE DEF T, h
<1>6. PICK g : Results(g, h, Len(cs), T, n)
  BY <1>1, <1>2, <1>5, LoopExists
<1>7. \A i \in 0..Len(cs) : g[i] = IF i = 0 THEN n ELSE Trigger(g[i - 1], cs[i])
  <2> TAKE i \in 0..Len(cs)
  <2>1. CASE i = 0
    BY <1>6, <2>1 DEF Results
  <2>2. CASE i # 0
    <3>1. i \in 1..Len(cs) /\ i - 1 \in 0..Len(cs)
      BY <1>1, <2>2
    <3>2. g[i] = h[i][g[i - 1]] /\ g[i - 1] \in T
      BY <1>6, <3>1 DEF Results
    <3> QED
      BY <1>4, <2>2, <3>1, <3>2
  <2> QED
    BY <2>1, <2>2
<1>8. g = [i \in 0..Len(cs) |-> IF i = 0 THEN n ELSE Trigger(g[i - 1], cs[i])]
  BY <1>6, <1>7 DEF Results
<1>9. StepsTriggerAll(n, cs, g)
  BY <1>8 DEF StepsTriggerAll
<1>10. PICK f : StepsTriggerAll(n, cs, f) /\ TriggerAll(n, cs) = f[Len(cs)]
  BY <1>9, TriggerAllSteps
<1>11. \A i \in 0..Len(cs) : f[i] = IF i = 0 THEN n ELSE Trigger(f[i - 1], cs[i])
  <2> DEFINE body(i) == IF i = 0 THEN n ELSE Trigger(f[i - 1], cs[i])
  <2>1. f = [i \in 0..Len(cs) |-> body(i)]
    BY <1>10, Zenon DEF StepsTriggerAll
  <2> HIDE DEF body
  <2>2. \A i \in 0..Len(cs) : f[i] = body(i)
    BY <2>1
  <2> QED
    BY <2>2 DEF body
<1>12. f[0] \in T
  BY <1>1, <1>2, <1>11
<1>13. ASSUME NEW i \in 1..Len(cs), f[i - 1] \in T
       PROVE  f[i] \in T
  <2>1. i \in 0..Len(cs) /\ i # 0
    OBVIOUS
  <2>2. f[i] = Trigger(f[i - 1], cs[i])
    BY <1>11, <2>1
  <2> QED
    BY <1>3, <1>13, <2>2
<1>14. \A i \in 0..Len(cs) : f[i] \in T
  BY <1>1, <1>12, <1>13, LoopStays
<1>15. TriggerAll(n, cs) \in T
  BY <1>1, <1>10, <1>14
<1> QED
  BY <1>15 DEF T

LEMMA GetsGoes ==
  ASSUME NEW n, Sound(n), NEW o \in Objects
  PROVE  Goes(n, Gets(n, o)) /\ Goes(n, Sends(n, o))
<1>1. n.ins[o] \in Seq(Connections) /\ n.outs[o] \in Seq(Connections)
  BY DEF Sound, Nets
<1>2. Without(n.ins[o], Sending(n)) \in Seq(Connections)
  BY <1>1, WithoutProperties
<1>3. Without(n.outs[o], Connections \ Sending(n)) \in Seq(Connections)
  BY <1>1, WithoutProperties
<1> QED
  BY <1>2, <1>3, TriggerAllGoes DEF Gets, Sends

LEMMA PassGoes ==
  ASSUME NEW n, Sound(n), NEW o \in Objects
  PROVE  Goes(n, Sends(Gets(n, o), o))
<1>1. Goes(n, Gets(n, o))
  BY GetsGoes
<1>2. Sound(Gets(n, o))
  BY <1>1 DEF Goes
<1>3. Goes(Gets(n, o), Sends(Gets(n, o), o))
  BY <1>2, GetsGoes
<1> QED
  BY <1>1, <1>3, GoesOn

(* And those of the ports of a chart.                                      *)
StepsPassThrough(n, ports, f) ==
  f = [i \in 0..Len(ports) |-> IF i = 0 THEN n ELSE Sends(Gets(f[i - 1], ports[i]), ports[i])]

LEMMA PassThroughSteps ==
  ASSUME NEW n, NEW ports, NEW g, StepsPassThrough(n, ports, g)
  PROVE  \E f : StepsPassThrough(n, ports, f) /\ PassThrough(n, ports) = f[Len(ports)]
<1> DEFINE f == CHOOSE f : f = [i \in 0..Len(ports) |-> IF i = 0 THEN n ELSE Sends(Gets(f[i - 1], ports[i]), ports[i])]
<1>1. g = [i \in 0..Len(ports) |-> IF i = 0 THEN n ELSE Sends(Gets(g[i - 1], ports[i]), ports[i])]
  BY Zenon DEF StepsPassThrough
<1>2. f = [i \in 0..Len(ports) |-> IF i = 0 THEN n ELSE Sends(Gets(f[i - 1], ports[i]), ports[i])]
  BY <1>1, Zenon
<1>3. PassThrough(n, ports) = f[Len(ports)]
  BY Zenon DEF PassThrough
<1>4. StepsPassThrough(n, ports, f)
  <2> HIDE DEF f
  <2> QED
    BY <1>2, Zenon DEF StepsPassThrough
<1> HIDE DEF f
<1> QED
  BY <1>3, <1>4

LEMMA PassThroughGoes ==
  ASSUME NEW n, Sound(n), NEW ports \in Seq(Objects)
  PROVE  Goes(n, PassThrough(n, ports))
<1> DEFINE T == {m \in Nets : Goes(n, m)}
           h == [i \in 1..Len(ports) |-> [t \in T |-> Sends(Gets(t, ports[i]), ports[i])]]
<1>1. Len(ports) \in Nat /\ \A i \in 1..Len(ports) : ports[i] \in Objects
  OBVIOUS
<1>2. n \in T
  BY GoesSame DEF Sound
<1>3. ASSUME NEW i \in 1..Len(ports), NEW t \in T
      PROVE  Sends(Gets(t, ports[i]), ports[i]) \in T
  <2>1. Sound(t) /\ ports[i] \in Objects
    BY <1>1 DEF Goes
  <2>2. Goes(t, Sends(Gets(t, ports[i]), ports[i]))
    BY <2>1, PassGoes
  <2>3. Goes(n, Sends(Gets(t, ports[i]), ports[i]))
    BY <2>2, GoesOn
  <2> QED
    BY <2>3 DEF Goes, Sound
<1>4. \A i \in 1..Len(ports) : \A t \in T : h[i][t] = Sends(Gets(t, ports[i]), ports[i])
  OBVIOUS
<1>5. Leads(h, Len(ports), T)
  BY <1>3, <1>4 DEF Leads
<1> HIDE DEF T, h
<1>6. PICK g : Results(g, h, Len(ports), T, n)
  BY <1>1, <1>2, <1>5, LoopExists
<1>7. \A i \in 0..Len(ports) : g[i] = IF i = 0 THEN n ELSE Sends(Gets(g[i - 1], ports[i]), ports[i])
  <2> TAKE i \in 0..Len(ports)
  <2>1. CASE i = 0
    BY <1>6, <2>1 DEF Results
  <2>2. CASE i # 0
    <3>1. i \in 1..Len(ports) /\ i - 1 \in 0..Len(ports)
      BY <1>1, <2>2
    <3>2. g[i] = h[i][g[i - 1]] /\ g[i - 1] \in T
      BY <1>6, <3>1 DEF Results
    <3> QED
      BY <1>4, <2>2, <3>1, <3>2
  <2> QED
    BY <2>1, <2>2
<1>8. g = [i \in 0..Len(ports) |-> IF i = 0 THEN n ELSE Sends(Gets(g[i - 1], ports[i]), ports[i])]
  BY <1>6, <1>7 DEF Results
<1>9. StepsPassThrough(n, ports, g)
  BY <1>8 DEF StepsPassThrough
<1>10. PICK f : StepsPassThrough(n, ports, f) /\ PassThrough(n, ports) = f[Len(ports)]
  BY <1>9, PassThroughSteps
<1>11. \A i \in 0..Len(ports) : f[i] = IF i = 0 THEN n ELSE Sends(Gets(f[i - 1], ports[i]), ports[i])
  <2> DEFINE body(i) == IF i = 0 THEN n ELSE Sends(Gets(f[i - 1], ports[i]), ports[i])
  <2>1. f = [i \in 0..Len(ports) |-> body(i)]
    BY <1>10, Zenon DEF StepsPassThrough
  <2> HIDE DEF body
  <2>2. \A i \in 0..Len(ports) : f[i] = body(i)
    BY <2>1
  <2> QED
    BY <2>2 DEF body
<1>12. f[0] \in T
  BY <1>1, <1>2, <1>11
<1>13. ASSUME NEW i \in 1..Len(ports), f[i - 1] \in T
       PROVE  f[i] \in T
  <2>1. i \in 0..Len(ports) /\ i # 0
    OBVIOUS
  <2>2. f[i] = Sends(Gets(f[i - 1], ports[i]), ports[i])
    BY <1>11, <2>1
  <2> QED
    BY <1>3, <1>13, <2>2
<1>14. \A i \in 0..Len(ports) : f[i] \in T
  BY <1>1, <1>12, <1>13, LoopStays
<1>15. PassThrough(n, ports) \in T
  BY <1>1, <1>10, <1>14
<1> QED
  BY <1>15 DEF T

LEMMA GetInputsGoes ==
  ASSUME NEW n, Sound(n), NEW o \in Runnable
  PROVE  Goes(n, GetInputs(n, o)) /\ Goes(n, SendOutputs(n, o))
<1> DEFINE is == IF o \in Charts THEN InPorts[o] ELSE <<>>
           os == IF o \in Charts THEN OutPorts[o] ELSE <<>>
<1>1. is \in Seq(Objects) /\ os \in Seq(Objects)
  <2>1. Ports \subseteq Objects
    BY DEF Objects
  <2>2. CASE o \in Charts
    BY <2>1, <2>2, ObjectsAssumption
  <2>3. CASE o \notin Charts
    BY <2>3
  <2> QED
    BY <2>2, <2>3
<1> HIDE DEF is, os
<1>2. o \in Objects
  BY DEF Objects
<1>3. Goes(n, Gets(n, o)) /\ Goes(n, Sends(n, o))
  BY <1>2, GetsGoes
<1>4. Sound(Gets(n, o)) /\ Sound(Sends(n, o))
  BY <1>3 DEF Goes
<1>5. Goes(Gets(n, o), PassThrough(Gets(n, o), is)) /\ Goes(Sends(n, o), PassThrough(Sends(n, o), os))
  BY <1>1, <1>4, PassThroughGoes
<1>6. Goes(n, PassThrough(Gets(n, o), is)) /\ Goes(n, PassThrough(Sends(n, o), os))
  BY <1>3, <1>5, GoesOn
<1> QED
  BY <1>6 DEF GetInputs, SendOutputs, is, os

----------------------------------------------------------------------------
(* The steps of the execute methods.                                       *)
LEMMA TaskGoes ==
  ASSUME NEW n, Sound(n), NEW o \in Runnable, NEW u \in Task, InCycle(n.task[o], u),
         o \in Blocks /\ n.task[o].eex => u.eex
  PROVE  Goes(n, [n EXCEPT !.task[o] = u])
<1> DEFINE f == [n.task EXCEPT ![o] = u]
<1>1. n \in Nets
  BY DEF Sound
<1>2. f \in [Runnable -> Task] /\ f[o] = u /\ \A y \in Runnable : y # o => f[y] = n.task[y]
  BY <1>1 DEF Nets
<1> HIDE DEF f
<1>3. \A y \in Runnable : InCycle(n.task[y], f[y])
  BY <1>1, <1>2, TaskTyped, InCycleSame
<1>4. \A b \in Blocks : n.task[b].eex => f[b].eex
  BY <1>2 DEF Runnable
<1>5. Goes(n, [n EXCEPT !.task = f])
  BY <1>2, <1>3, <1>4, TasksGo
<1>6. [n EXCEPT !.task[o] = u] = [n EXCEPT !.task = f]
  BY <1>1 DEF Nets, f
<1> QED
  BY <1>5, <1>6

LEMMA KidsGo ==
  ASSUME NEW n, Sound(n), NEW f \in [Runnable -> Seq(Runnable)]
  PROVE  Goes(n, [n EXCEPT !.kids = f])
<1> DEFINE m == [n EXCEPT !.kids = f]
<1>1. n \in Nets /\ ValuesTyped(n)
  BY DEF Sound
<1>2. m \in Nets
  BY <1>1 DEF Nets
<1>3. /\ m.ins = n.ins /\ m.outs = n.outs /\ m.conn = n.conn
      /\ m.val = n.val /\ m.task = n.task
  BY <1>1 DEF Nets
<1> HIDE DEF m
<1>4. ValuesTyped(m)
  BY <1>1, <1>3 DEF ValuesTyped
<1>5. \A c \in Connections : Resolved(m, c)
  BY <1>3, ResolvedSame DEF Sound
<1>6. ASSUME NEW b \in Blocks PROVE Follows(m, b)
  BY <1>3 DEF Sound, Follows
<1>7. \A y \in Runnable : InCycle(n.task[y], m.task[y])
  BY <1>1, <1>3, TaskTyped, InCycleSame
<1>8. Goes(n, m)
  BY <1>2, <1>3, <1>4, <1>5, <1>6, <1>7 DEF Goes, Sound
<1> QED
  BY <1>8 DEF m

LEMMA UnlinkedGoes ==
  ASSUME NEW n, Sound(n), NEW o
  PROVE  Goes(n, Unlinked(n, o))
<1> DEFINE f == [p \in Runnable |-> Without(n.kids[p], {o})]
<1>1. n \in Nets
  BY DEF Sound
<1>2. ASSUME NEW p \in Runnable PROVE Without(n.kids[p], {o}) \in Seq(Runnable)
  <2>1. n.kids[p] \in Seq(Runnable)
    BY <1>1 DEF Nets
  <2> QED
    BY <2>1, WithoutProperties
<1>3. f \in [Runnable -> Seq(Runnable)]
  BY <1>2
<1>4. Unlinked(n, o) = [n EXCEPT !.kids = f]
  BY <1>1 DEF Unlinked, Nets
<1> HIDE DEF f
<1> QED
  BY <1>3, <1>4, KidsGo

LEMMA LinkedGoes ==
  ASSUME NEW n, Sound(n), NEW p \in Runnable, NEW o \in Runnable
  PROVE  Goes(n, Linked(n, p, o))
<1> DEFINE m == Unlinked(n, o)
           f == [m.kids EXCEPT ![p] = Append(m.kids[p], o)]
<1>1. Goes(n, m) /\ Sound(m) /\ m \in Nets
  BY UnlinkedGoes DEF Goes, Sound
<1>2. CASE Linked(n, p, o) = n
  BY <1>2, GoesSame
<1>3. CASE Linked(n, p, o) # n
  <2>1. Linked(n, p, o) = [m EXCEPT !.kids[p] = Append(@, o)]
    BY <1>3 DEF Linked
  <2> HIDE DEF m
  <2>2. m.kids[p] \in Seq(Runnable) /\ m.kids \in [Runnable -> Seq(Runnable)]
    BY <1>1 DEF Nets
  <2>3. Append(m.kids[p], o) \in Seq(Runnable)
    BY <2>2, Appended
  <2>4. f \in [Runnable -> Seq(Runnable)]
    BY <2>2, <2>3
  <2>5. [m EXCEPT !.kids[p] = Append(@, o)] = [m EXCEPT !.kids = f]
    BY <1>1 DEF Nets
  <2> HIDE DEF f
  <2>6. Goes(m, [m EXCEPT !.kids = f])
    BY <1>1, <2>4, KidsGo
  <2> QED
    BY <1>1, <2>1, <2>5, <2>6, GoesOn
<1> QED
  BY <1>2, <1>3

(* A task is due again a number of cycles later.                           *)
LEMMA NextProcTimeGoes ==
  ASSUME NEW n, Sound(n), NEW o \in Runnable
  PROVE  Goes(n, SetNextProcTime(n, o))
<1> DEFINE t == n.task[o]
           m == SetNextProcTime(n, o)
<1>1. n \in Nets /\ t \in Task /\ t.cyc \in Nat /\ t.due \in Int
  BY TaskTyped DEF Sound
<1>2. ASSUME NEW d \in Int, Congruent(d, t.due, t.cyc)
      PROVE  Goes(n, [n EXCEPT !.task[o].due = d])
  <2> DEFINE u == [t EXCEPT !.due = d]
  <2>1. u \in Task /\ u.cyc = t.cyc /\ u.due = d /\ u.eex = t.eex
    BY <1>1 DEF Task
  <2>2. [n EXCEPT !.task[o].due = d] = [n EXCEPT !.task[o] = u]
    BY <1>1 DEF Nets
  <2> HIDE DEF u
  <2>3. InCycle(t, u)
    BY <1>2, <2>1 DEF InCycle
  <2> QED
    BY <2>1, <2>2, <2>3, TaskGoes
<1>3. CASE t.mode = "ON" /\ t.cyc = 0
  <2>1. m = n
    BY <1>3 DEF SetNextProcTime
  <2> QED
    BY <2>1, GoesSame
<1>4. CASE t.mode = "ON" /\ t.cyc # 0
  <2> DEFINE d == NextDue(t.due, t.cyc)
  <2>1. m = [n EXCEPT !.task[o].due = d]
    BY <1>1, <1>4 DEF SetNextProcTime, Nets
  <2>2. d \in Int /\ Congruent(d, t.due, t.cyc)
    BY <1>1, <1>4, CongruentNext DEF NextDue
  <2> HIDE DEF d, m
  <2> QED
    BY <1>2, <2>1, <2>2 DEF m
<1>5. CASE t.mode = "UNLINK"
  <2>1. m = Unlinked(n, o)
    BY <1>5 DEF SetNextProcTime
  <2> QED
    BY <2>1, UnlinkedGoes
<1>6. CASE t.mode = "CATCHUP"
  <2> DEFINE d == t.due + t.cyc
  <2>1. m = [n EXCEPT !.task[o].due = d]
    BY <1>1, <1>6 DEF SetNextProcTime, Nets
  <2>2. d \in Int /\ Congruent(d, t.due, t.cyc)
    BY <1>1, CongruentNext
  <2> HIDE DEF d, m
  <2> QED
    BY <1>2, <2>1, <2>2 DEF m
<1>7. CASE t.mode \notin {"ON", "UNLINK", "CATCHUP"}
  <2> DEFINE u == [t EXCEPT !.mode = "OFF"]
  <2>1. m = [n EXCEPT !.task[o].mode = "OFF"]
    BY <1>7 DEF SetNextProcTime
  <2>2. u \in Task /\ u.cyc = t.cyc /\ u.due = t.due /\ u.eex = t.eex
    BY <1>1 DEF Task, ActiModes
  <2>3. m = [n EXCEPT !.task[o] = u]
    BY <1>1, <2>1 DEF Nets
  <2> HIDE DEF u, m
  <2>4. InCycle(t, u)
    BY <1>1, <2>2, InCycleSame
  <2> QED
    BY <2>2, <2>3, <2>4, TaskGoes DEF m
<1> QED
  BY <1>3, <1>4, <1>5, <1>6, <1>7

(* A block that is executed: its output follows its input, or it is off    *)
(* because of the input.                                                   *)
LEMMA FailedGoes ==
  ASSUME NEW n, Sound(n), NEW b \in Blocks, n.val[b].in = Bad
  PROVE  Goes(n, Failed(Begun(n, b), b))
<1> DEFINE u == [n.task[b] EXCEPT !.eex = FALSE, !.mode = "OFF", !.err = TRUE]
           m == [n EXCEPT !.task[b] = u]
<1>1. n \in Nets /\ ValuesTyped(n) /\ b \in Runnable
  BY DEF Sound, Runnable
<1>2. n.task[b] \in Task
  BY <1>1, TaskTyped
<1>3. u \in Task /\ u.cyc = n.task[b].cyc /\ u.due = n.task[b].due
  BY <1>2 DEF Task, ActiModes
<1>4. Failed(Begun(n, b), b) = m
  BY <1>1, <1>2 DEF Failed, Begun, Nets, Task
<1> HIDE DEF u
<1>5. /\ m.kids = n.kids /\ m.ins = n.ins /\ m.outs = n.outs /\ m.conn = n.conn
      /\ m.val = n.val /\ m.task = [n.task EXCEPT ![b] = u]
  BY <1>1 DEF Nets
<1>6. m \in Nets
  BY <1>1, <1>3 DEF Nets
<1> HIDE DEF m
<1>7. ValuesTyped(m)
  BY <1>1, <1>5 DEF ValuesTyped
<1>8. \A c \in Connections : Resolved(m, c)
  BY <1>5, ResolvedSame DEF Sound
<1>9. ASSUME NEW d \in Blocks PROVE Follows(m, d)
  <2>1. CASE d = b
    BY <1>5, <2>1 DEF Follows
  <2>2. CASE d # b
    <3>1. m.task[d] = n.task[d]
      BY <1>1, <1>5, <2>2 DEF Nets, Runnable
    <3> QED
      BY <1>5, <3>1 DEF Follows, Sound
  <2> QED
    BY <2>1, <2>2
<1>10. ASSUME NEW y \in Runnable PROVE InCycle(n.task[y], m.task[y])
  <2>1. m.task[y].cyc = n.task[y].cyc /\ m.task[y].due = n.task[y].due
    BY <1>1, <1>3, <1>5 DEF Nets
  <2> QED
    BY <1>1, <2>1, TaskTyped, InCycleSame
<1> QED
  BY <1>4, <1>5, <1>6, <1>7, <1>8, <1>9, <1>10 DEF Goes, Sound

LEMMA BlockMethodGoes ==
  ASSUME NEW n, Sound(n), NEW b \in Blocks
  PROVE  Goes(n, BlockMethod(Begun(n, b), b))
<1> DEFINE u == [n.task[b] EXCEPT !.eex = FALSE]
           m == [n EXCEPT !.task[b] = u, !.val[b]["out"] = n.val[b]["in"]]
<1>1. n \in Nets /\ ValuesTyped(n) /\ b \in Runnable /\ b \in Blocks \cup Ports
  BY DEF Sound, Runnable
<1>2. n.task[b] \in Task
  BY <1>1, TaskTyped
<1>3. u \in Task /\ u.cyc = n.task[b].cyc /\ u.due = n.task[b].due
  BY <1>2 DEF Task
<1>4. BlockMethod(Begun(n, b), b) = m
  BY <1>1, <1>2 DEF BlockMethod, Begun, Nets, Task
<1> HIDE DEF u
<1>5. /\ m.kids = n.kids /\ m.ins = n.ins /\ m.outs = n.outs /\ m.conn = n.conn
      /\ m.val = [n.val EXCEPT ![b]["out"] = n.val[b]["in"]] /\ m.task = [n.task EXCEPT ![b] = u]
      /\ m = [kids |-> m.kids, ins |-> m.ins, outs |-> m.outs, task |-> m.task, val |-> m.val, conn |-> m.conn]
  <2>1. m = [n EXCEPT !.task = [n.task EXCEPT ![b] = u], !.val = [n.val EXCEPT ![b]["out"] = n.val[b]["in"]]]
    BY <1>1 DEF Nets
  <2> HIDE DEF m
  <2> QED
    BY <1>1, <2>1 DEF Nets
<1>6. /\ \A d \in Blocks : m.val[d] \in [{"in", "out"} -> Values]
      /\ \A x \in Ports : m.val[x] \in [{"value"} -> Values]
      /\ \A d \in Blocks : d # b => m.val[d] = n.val[d]
      /\ m.val[b].out = m.val[b].in
  <2>1. n.val[b] \in [{"in", "out"} -> Values] /\ b \notin Ports
    BY <1>1, PortsAreNoBlocks DEF ValuesTyped
  <2>2. n.val[b]["in"] \in Values
    BY <2>1
  <2> QED
    BY <1>1, <1>5, <2>1, <2>2, PortsAreNoBlocks DEF ValuesTyped, Nets
<1>7. m.val \in [Blocks \cup Ports -> [{"in", "out"} -> Values] \cup [{"value"} -> Values]]
  <2>1. DOMAIN m.val = Blocks \cup Ports /\ m.val = [x \in Blocks \cup Ports |-> m.val[x]]
    BY <1>1, <1>5 DEF Nets
  <2> QED
    BY <1>6, <2>1
<1> HIDE DEF m
<1>8. m.task \in [Runnable -> Task]
  BY <1>1, <1>3, <1>5 DEF Nets
<1>9. m \in Nets /\ ValuesTyped(m)
  BY <1>1, <1>5, <1>6, <1>7, <1>8 DEF Nets, ValuesTyped
<1>10. \A c \in Connections : Resolved(m, c)
  BY <1>5, ResolvedSame DEF Sound
<1>11. ASSUME NEW d \in Blocks PROVE Follows(m, d)
  <2>1. CASE d = b
    BY <1>6, <2>1 DEF Follows
  <2>2. CASE d # b
    <3>1. m.task[d] = n.task[d]
      BY <1>1, <1>5, <2>2 DEF Nets, Runnable
    <3> QED
      BY <1>6, <2>2, <3>1 DEF Follows, Sound
  <2> QED
    BY <2>1, <2>2
<1>12. ASSUME NEW y \in Runnable PROVE InCycle(n.task[y], m.task[y])
  <2>1. m.task[y].cyc = n.task[y].cyc /\ m.task[y].due = n.task[y].due
    BY <1>1, <1>3, <1>5 DEF Nets
  <2> QED
    BY <1>1, <2>1, TaskTyped, InCycleSame
<1> QED
  BY <1>4, <1>5, <1>9, <1>10, <1>11, <1>12 DEF Goes, Sound

LEMMA BlockGoes ==
  ASSUME NEW n, Sound(n), NEW b \in Blocks
  PROVE  Goes(n, BlockBegins(n, b))
<1>1. CASE ~n.task[b].eex
  <2>1. BlockBegins(n, b) = n
    BY <1>1 DEF BlockBegins
  <2> QED
    BY <2>1, GoesSame
<1>2. CASE n.task[b].eex /\ n.val[b]["in"] = Bad
  <2>1. BlockBegins(n, b) = Failed(Begun(n, b), b)
    BY <1>2 DEF BlockBegins
  <2>2. n.val[b].in = Bad
    BY <1>2
  <2> QED
    BY <2>1, <2>2, FailedGoes
<1>3. CASE n.task[b].eex /\ n.val[b]["in"] # Bad
  <2> DEFINE m == BlockMethod(Begun(n, b), b)
  <2>1. BlockBegins(n, b) = SendOutputs(m, b)
    BY <1>3 DEF BlockBegins
  <2>2. Goes(n, m)
    BY BlockMethodGoes
  <2> HIDE DEF m
  <2>3. Sound(m) /\ b \in Runnable
    BY <2>2 DEF Goes, Runnable
  <2>4. Goes(m, SendOutputs(m, b))
    BY <2>3, GetInputsGoes
  <2> QED
    BY <2>1, <2>2, <2>4, GoesOn
<1> QED
  BY <1>1, <1>2, <1>3

LEMMA TaskSet ==
  ASSUME NEW t \in Task, NEW m \in ActiModes, NEW c \in CycleTimes \cup {0}, NEW d \in Int,
         NEW u, u = [t EXCEPT !.mode = m, !.cyc = c, !.due = d]
  PROVE  u \in Task
BY DEF Task

LEMMA ReadyTask ==
  ASSUME NEW t \in Task, NEW m, m = "ON", NEW c, c = 0, NEW u, u = [t EXCEPT !.mode = m, !.cyc = c, !.due = c]
  PROVE  u \in Task
<1>1. m \in ActiModes /\ c \in CycleTimes \cup {0} /\ c \in Int
  BY DEF ActiModes
<1> QED
  BY <1>1, TaskSet

(* intask as the chart makes it ready.                                     *)
LEMMA ReadyIs ==
  ASSUME NEW n \in Nets, NEW i \in Runnable
  PROVE  \E u \in Task : u.cyc = 0 /\ u.eex = n.task[i].eex /\ Ready(n, i) = [n EXCEPT !.task[i] = u]
<1>1. PICK t \in Task : t = n.task[i]
  BY TaskTyped
<1>2. PICK m, c : m = "ON" /\ c = 0
  OBVIOUS
<1>3. PICK u : u = [t EXCEPT !.mode = m, !.cyc = c, !.due = c]
  OBVIOUS
<1>4. u \in Task
  BY <1>2, <1>3, ReadyTask
<1>5. u.cyc = c /\ u.eex = t.eex
  BY <1>3 DEF Task
<1>6. Ready(n, i) = [n EXCEPT !.task[i] = [n.task[i] EXCEPT !.mode = m, !.cyc = c, !.due = c]]
  BY <1>2 DEF Ready
<1>7. Ready(n, i) = [n EXCEPT !.task[i] = u]
  BY <1>1, <1>3, <1>6
<1> QED
  BY <1>1, <1>2, <1>4, <1>5, <1>7

LEMMA ChartGoes ==
  ASSUME NEW n, Sound(n), NEW o \in Charts
  PROVE  Goes(n, ChartMethod(Begun(n, o), o))
<1> DEFINE i == InTask[o]
           b == Begun(n, o)
           m == Ready(b, i)
<1>1. n \in Nets /\ o \in Runnable /\ o \notin Blocks /\ i \in Runnable /\ i \notin Blocks
  BY ObjectsAssumption DEF Sound, Runnable
<1>2. Goes(n, b)
  <2> DEFINE u == [n.task[o] EXCEPT !.eex = FALSE]
  <2>1. n.task[o] \in Task
    BY <1>1, TaskTyped
  <2>2. u \in Task /\ u.cyc = n.task[o].cyc /\ u.due = n.task[o].due
    BY <2>1 DEF Task
  <2>3. b = [n EXCEPT !.task[o] = u]
    BY <1>1 DEF Begun, Nets
  <2> HIDE DEF u, b
  <2>4. InCycle(n.task[o], u)
    BY <2>1, <2>2, InCycleSame
  <2> QED
    BY <1>1, <2>2, <2>3, <2>4, TaskGoes DEF b
<1> HIDE DEF b, i
<1>3. Goes(b, m)
  <2>1. b \in Nets /\ Sound(b)
    BY <1>2 DEF Goes, Sound
  <2>2. PICK u \in Task : u.cyc = 0 /\ m = [b EXCEPT !.task[i] = u]
    BY <1>1, <2>1, ReadyIs
  <2>3. InCycle(b.task[i], u)
    BY <2>2 DEF InCycle
  <2> HIDE DEF m
  <2> QED
    BY <1>1, <2>1, <2>2, <2>3, TaskGoes
<1>4. ChartMethod(b, o) = IF Parent(b, i) = o THEN m ELSE Linked(Unlinked(m, i), o, i)
  BY DEF ChartMethod, i
<1> HIDE DEF m
<1>5. Goes(m, Unlinked(m, i)) /\ Goes(Unlinked(m, i), Linked(Unlinked(m, i), o, i))
  <2>1. Sound(m)
    BY <1>3 DEF Goes
  <2>2. Goes(m, Unlinked(m, i))
    BY <2>1, UnlinkedGoes
  <2>3. Sound(Unlinked(m, i))
    BY <2>2 DEF Goes
  <2> QED
    BY <1>1, <2>2, <2>3, LinkedGoes
<1>6. Goes(n, m)
  BY <1>2, <1>3, GoesOn
<1>7. Goes(n, Unlinked(m, i))
  BY <1>5, <1>6, GoesOn
<1>8. Goes(n, Linked(Unlinked(m, i), o, i))
  BY <1>5, <1>7, GoesOn
<1> QED
  BY <1>4, <1>6, <1>8 DEF b

LEMMA BeginsGoes ==
  ASSUME NEW n, Sound(n), NEW o \in Runnable
  PROVE  Goes(n, Begins(n, o))
<1> DEFINE m == GetInputs(n, o)
<1>1. Goes(n, m)
  BY GetInputsGoes
<1> HIDE DEF m
<1>2. Sound(m)
  BY <1>1 DEF Goes
<1>3. CASE o \in Blocks
  <2>1. Begins(n, o) = BlockBegins(m, o)
    BY <1>3, ObjectsAssumption DEF Begins, Performs, m
  <2>2. Goes(m, BlockBegins(m, o))
    BY <1>2, <1>3, BlockGoes
  <2> QED
    BY <1>1, <2>1, <2>2, GoesOn
<1>4. CASE o \in Charts
  <2>1. Begins(n, o) = ChartMethod(Begun(m, o), o)
    BY <1>4, ObjectsAssumption DEF Begins, Performs, m
  <2>2. Goes(m, ChartMethod(Begun(m, o), o))
    BY <1>2, <1>4, ChartGoes
  <2> QED
    BY <1>1, <2>1, <2>2, GoesOn
<1>5. CASE o \notin Blocks /\ o \notin Charts
  <2>1. Begins(n, o) = m
    BY <1>5 DEF Begins, Performs, m
  <2> QED
    BY <1>1, <2>1
<1> QED
  BY <1>3, <1>4, <1>5

LEMMA EndsGoes ==
  ASSUME NEW n, Sound(n), NEW o \in Runnable
  PROVE  Goes(n, Ends(n, o))
<1> DEFINE m == IF o \in Blocks THEN n ELSE SendOutputs(n, o)
<1>1. Goes(n, SendOutputs(n, o)) /\ Goes(n, n)
  BY GetInputsGoes, GoesSame
<1>2. Goes(n, m)
  BY <1>1
<1> HIDE DEF m
<1>3. Sound(m)
  BY <1>2 DEF Goes
<1>4. Goes(m, SetNextProcTime(m, o))
  BY <1>3, NextProcTimeGoes
<1>5. Ends(n, o) = SetNextProcTime(m, o)
  BY DEF Ends, m
<1> QED
  BY <1>2, <1>4, <1>5, GoesOn

----------------------------------------------------------------------------
(* The run.                                                                *)
Frame == [task : Runnable, next : Runnable \cup {NoObject}]

Runs == [net : Nets, stack : Seq(Frame)]

LEMMA NextTyped ==
  ASSUME NEW n \in Nets, NEW o
  PROVE  NextChild(n, o) \in Runnable \cup {NoObject}
<1> DEFINE p == Parent(n, o)
           list == n.kids[p]
           i == CHOOSE j \in DOMAIN list : list[j] = o
<1>1. CASE p = NoObject
  BY <1>1 DEF NextChild
<1>2. CASE p # NoObject
  <2>1. p \in Runnable /\ o \in ToSet(list)
    BY <1>2 DEF Parent
  <2>2. list \in Seq(Runnable)
    BY <2>1 DEF Nets
  <2>3. \E j \in DOMAIN list : list[j] = o
    BY <2>1 DEF ToSet
  <2>4. i \in DOMAIN list
    BY <2>3
  <2>5. NextChild(n, o) = IF i = Len(list) THEN NoObject ELSE list[i + 1]
    BY <1>2 DEF NextChild
  <2> HIDE DEF i, list
  <2>6. i # Len(list) => list[i + 1] \in Runnable
    <3>1. DOMAIN list = 1..Len(list) /\ Len(list) \in Nat
      BY <2>2
    <3>2. i # Len(list) => i + 1 \in 1..Len(list)
      BY <2>4, <3>1
    <3> QED
      BY <2>2, <3>2
  <2> QED
    BY <2>5, <2>6
<1> QED
  BY <1>1, <1>2

LEMMA FirstTyped ==
  ASSUME NEW n \in Nets, NEW o \in Runnable
  PROVE  FirstChild(n, o) \in Runnable \cup {NoObject}
<1>1. n.kids[o] \in Seq(Runnable)
  BY DEF Nets
<1>2. n.kids[o] # <<>> => Head(n.kids[o]) \in Runnable
  BY <1>1
<1> QED
  BY <1>2 DEF FirstChild

LEMMA EntersGoes ==
  ASSUME NEW r \in Runs, Sound(r.net), NEW o \in Runnable
  PROVE  Enters(r, o) \in Runs /\ Goes(r.net, Enters(r, o).net)
<1> DEFINE n == Begins(r.net, o)
           x == FirstChild(n, o)
           top == [task |-> o, next |-> x]
<1>1. Goes(r.net, n) /\ n \in Nets
  BY BeginsGoes DEF Goes, Sound
<1>2. CASE ~Due(r.net, o)
  <2>1. Enters(r, o) = r
    BY <1>2 DEF Enters
  <2> QED
    BY <2>1, GoesSame
<1> HIDE DEF n
<1>3. CASE Due(r.net, o) /\ n.task[o].mode = "OFF"
  <2>1. Enters(r, o) = [r EXCEPT !.net = n]
    BY <1>3 DEF Enters, Descends, n
  <2>2. [r EXCEPT !.net = n] \in Runs /\ [r EXCEPT !.net = n].net = n
    BY <1>1 DEF Runs
  <2> QED
    BY <1>1, <2>1, <2>2
<1>4. CASE Due(r.net, o) /\ n.task[o].mode # "OFF"
  <2>1. Enters(r, o) = Calls(r, n, o)
    BY <1>4 DEF Enters, Descends, n
  <2>2. x \in Runnable \cup {NoObject}
    BY <1>1, FirstTyped
  <2>3. Calls(r, n, o) = [net |-> n, stack |-> <<top>> \o r.stack]
    BY DEF Calls
  <2> HIDE DEF x
  <2>4. top \in Frame
    BY <2>2 DEF Frame
  <2> HIDE DEF top
  <2>5. r.stack \in Seq(Frame) /\ <<top>> \in Seq(Frame)
    BY <2>4 DEF Runs
  <2>6. <<top>> \o r.stack \in Seq(Frame)
    BY <2>5, ConcatProperties
  <2>7. [net |-> n, stack |-> <<top>> \o r.stack] \in Runs
    BY <1>1, <2>6 DEF Runs
  <2> QED
    BY <1>1, <2>1, <2>3, <2>7
<1> QED
  BY <1>2, <1>3, <1>4

LEMMA ContinuesGoes ==
  ASSUME NEW r \in Runs, Sound(r.net)
  PROVE  Continues(r) \in Runs /\ Goes(r.net, Continues(r).net)
<1> DEFINE top == Head(r.stack)
           next == NextChild(r.net, top.next)
<1>0. r.net \in Nets /\ r.stack \in Seq(Frame)
  BY DEF Runs
<1>1. CASE r.stack = <<>>
  <2>1. Continues(r) = r
    BY <1>1 DEF Continues
  <2> QED
    BY <2>1, GoesSame
<1>2. ASSUME r.stack # <<>>
      PROVE  top \in Frame /\ Tail(r.stack) \in Seq(Frame)
  BY <1>0, <1>2
<1>3. CASE r.stack # <<>> /\ top.next = NoObject
  <2>1. Continues(r) = [net |-> Ends(r.net, top.task), stack |-> Tail(r.stack)]
    BY <1>3 DEF Continues
  <2>2. top.task \in Runnable
    BY <1>2, <1>3 DEF Frame
  <2>3. Goes(r.net, Ends(r.net, top.task))
    BY <2>2, EndsGoes
  <2>4. Ends(r.net, top.task) \in Nets
    BY <2>3 DEF Goes, Sound
  <2>5. [net |-> Ends(r.net, top.task), stack |-> Tail(r.stack)] \in Runs
    BY <1>2, <1>3, <2>4 DEF Runs
  <2> QED
    BY <2>1, <2>3, <2>5
<1>4. CASE r.stack # <<>> /\ top.next # NoObject
  <2> DEFINE up == [top EXCEPT !.next = next]
             q == [r EXCEPT !.stack = <<up>> \o Tail(r.stack)]
  <2>1. Continues(r) = Enters(q, top.next)
    BY <1>4 DEF Continues
  <2>2. top \in Frame /\ top.next \in Runnable
    BY <1>2, <1>4 DEF Frame
  <2>3. next \in Runnable \cup {NoObject}
    BY <1>0, NextTyped
  <2> HIDE DEF next, top
  <2>4. up \in Frame
    BY <2>2, <2>3 DEF Frame
  <2> HIDE DEF up
  <2>5. <<up>> \in Seq(Frame) /\ Tail(r.stack) \in Seq(Frame)
    BY <1>2, <1>4, <2>4
  <2>6. <<up>> \o Tail(r.stack) \in Seq(Frame)
    BY <2>5, ConcatProperties
  <2>7. q \in Runs /\ q.net = r.net
    BY <2>6 DEF Runs
  <2> HIDE DEF q
  <2>8. Sound(q.net)
    BY <2>7
  <2>9. Enters(q, top.next) \in Runs /\ Goes(q.net, Enters(q, top.next).net)
    BY <2>2, <2>7, <2>8, EntersGoes
  <2> QED
    BY <2>1, <2>7, <2>9
<1> QED
  BY <1>1, <1>3, <1>4

Begin(n, o) == Enters([net |-> n, stack |-> <<>>], o)

StepsExec(n, o, f) ==
  f = [i \in 0..RunLength |-> IF i = 0 THEN Begin(n, o) ELSE Continues(f[i - 1])]

LEMMA ExecSteps ==
  ASSUME NEW n, NEW o, NEW g, StepsExec(n, o, g)
  PROVE  \E f : StepsExec(n, o, f) /\ Exec(n, o) = f[RunLength].net
<1> DEFINE f == CHOOSE f : f = [i \in 0..RunLength |->
                  IF i = 0 THEN Enters([net |-> n, stack |-> <<>>], o) ELSE Continues(f[i - 1])]
<1>1. g = [i \in 0..RunLength |-> IF i = 0 THEN Enters([net |-> n, stack |-> <<>>], o) ELSE Continues(g[i - 1])]
  BY Zenon DEF StepsExec, Begin
<1>2. f = [i \in 0..RunLength |-> IF i = 0 THEN Enters([net |-> n, stack |-> <<>>], o) ELSE Continues(f[i - 1])]
  BY <1>1, Zenon
<1>3. Exec(n, o) = f[RunLength].net
  BY Zenon DEF Exec
<1>4. StepsExec(n, o, f)
  <2> HIDE DEF f
  <2> QED
    BY <1>2, Zenon DEF StepsExec, Begin
<1> HIDE DEF f
<1> QED
  BY <1>3, <1>4

(* However long the run is, and however the tree changes below it.         *)
LEMMA ExecGoes ==
  ASSUME NEW n, Sound(n), NEW o \in Runnable
  PROVE  Goes(n, Exec(n, o))
<1> DEFINE T == {r \in Runs : Goes(n, r.net)}
           h == [i \in 1..RunLength |-> [r \in T |-> Continues(r)]]
           x == Begin(n, o)
<1>1. RunLength \in Nat
  BY ValuesAssumption
<1>2. x \in T
  <2> DEFINE r == [net |-> n, stack |-> <<>>]
  <2>1. r \in Runs /\ r.net = n
    BY DEF Runs, Sound
  <2> HIDE DEF r
  <2>2. Enters(r, o) \in Runs /\ Goes(n, Enters(r, o).net)
    BY <2>1, EntersGoes
  <2> QED
    BY <2>2 DEF Begin, r
<1>3. ASSUME NEW r \in T PROVE Continues(r) \in T
  <2>1. r \in Runs /\ Sound(r.net) /\ Goes(n, r.net)
    BY DEF Goes
  <2>2. Continues(r) \in Runs /\ Goes(r.net, Continues(r).net)
    BY <2>1, ContinuesGoes
  <2>3. Goes(n, Continues(r).net)
    BY <2>1, <2>2, GoesOn
  <2> QED
    BY <2>2, <2>3
<1>4. \A i \in 1..RunLength : \A r \in T : h[i][r] = Continues(r)
  OBVIOUS
<1>5. Leads(h, RunLength, T)
  BY <1>3, <1>4 DEF Leads
<1> HIDE DEF T, h, x
<1>6. PICK g : Results(g, h, RunLength, T, x)
  BY <1>1, <1>2, <1>5, LoopExists
<1>7. \A i \in 0..RunLength : g[i] = IF i = 0 THEN x ELSE Continues(g[i - 1])
  <2> TAKE i \in 0..RunLength
  <2>1. CASE i = 0
    BY <1>6, <2>1 DEF Results
  <2>2. CASE i # 0
    <3>1. i \in 1..RunLength /\ i - 1 \in 0..RunLength
      BY <1>1, <2>2
    <3>2. g[i] = h[i][g[i - 1]] /\ g[i - 1] \in T
      BY <1>6, <3>1 DEF Results
    <3> QED
      BY <1>4, <2>2, <3>1, <3>2
  <2> QED
    BY <2>1, <2>2
<1>8. g = [i \in 0..RunLength |-> IF i = 0 THEN x ELSE Continues(g[i - 1])]
  BY <1>6, <1>7 DEF Results
<1>9. StepsExec(n, o, g)
  BY <1>8 DEF StepsExec, x
<1>10. PICK f : StepsExec(n, o, f) /\ Exec(n, o) = f[RunLength].net
  BY <1>9, ExecSteps
<1>11. \A i \in 0..RunLength : f[i] = IF i = 0 THEN x ELSE Continues(f[i - 1])
  <2> DEFINE body(i) == IF i = 0 THEN Begin(n, o) ELSE Continues(f[i - 1])
  <2>1. f = [i \in 0..RunLength |-> body(i)]
    BY <1>10, Zenon DEF StepsExec
  <2> HIDE DEF body
  <2>2. \A i \in 0..RunLength : f[i] = body(i)
    BY <2>1
  <2> QED
    BY <2>2 DEF body, x
<1>12. f[0] \in T
  BY <1>1, <1>2, <1>11
<1>13. ASSUME NEW i \in 1..RunLength, f[i - 1] \in T
       PROVE  f[i] \in T
  <2>1. i \in 0..RunLength /\ i # 0
    OBVIOUS
  <2>2. f[i] = Continues(f[i - 1])
    BY <1>11, <2>1
  <2> QED
    BY <1>3, <1>13, <2>2
<1>14. \A i \in 0..RunLength : f[i] \in T
  BY <1>1, <1>12, <1>13, LoopStays
<1>15. f[RunLength] \in T
  BY <1>1, <1>14
<1> QED
  BY <1>10, <1>15 DEF T

----------------------------------------------------------------------------
(* The invariant: the net is sound, and only objects that exist are        *)
(* linked.                                                                 *)
IInv ==
  /\ Sound(Net)
  /\ alive \subseteq Objects
  /\ OnlyOf(ins, alive) /\ OnlyOf(outs, alive)
  /\ event \in Int /\ now \in Int

(* When a task can fall behind.                                            *)
Drifting(o) ==
  /\ Inexact(task[o])
  /\ \/ last' = "start" /\ task[o].mode = "ON"
     \/ last' = "client" /\ task[o].mode # "ON" /\ task'[o].mode = "ON"

PhaseSteps(o) ==
  \/ (now' + task'[o].due) % task'[o].cyc = (now + task[o].due) % task[o].cyc
  \/ /\ Drifting(o)
     /\ (now' + task'[o].due) % task'[o].cyc = (((now + task[o].due) % task[o].cyc) - 1) % task[o].cyc

Phases ==
  \A o \in Runnable :
    task[o].cyc > 0 /\ task'[o].cyc = task[o].cyc /\ last' # o => PhaseSteps(o)

LEMMA IInvElements == IInv => ElementsCurrent
<1> SUFFICES ASSUME IInv, NEW c \in Connections, Found(conn[c])
             PROVE  /\ conn[c].source = <<Source(Net, c), conn[c].sport>> /\ conn[c].source[1] \in alive
                    /\ conn[c].target = <<Target(Net, c), conn[c].tport>> /\ conn[c].target[1] \in alive
  BY DEF ElementsCurrent, Found
<1>1. Net.ins = ins /\ Net.outs = outs /\ Net.conn = conn
  BY DEF Net
<1>2. /\ conn[c].source = <<Source(Net, c), conn[c].sport>> /\ Source(Net, c) \in Objects
      /\ conn[c].target = <<Target(Net, c), conn[c].tport>> /\ Target(Net, c) \in Objects
  BY <1>1 DEF IInv, Sound, Resolved
<1>3. NoObject \notin Objects
  BY ObjectsAssumption
<1>4. c \in ToSet(outs[Source(Net, c)]) /\ c \in ToSet(ins[Target(Net, c)])
  <2>1. Holder(outs, c) # NoObject /\ Holder(ins, c) # NoObject
    BY <1>1, <1>2, <1>3 DEF Source, Target
  <2>2. c \in ToSet(outs[Holder(outs, c)]) /\ c \in ToSet(ins[Holder(ins, c)])
    BY <2>1, HolderIs
  <2> QED
    BY <1>1, <2>2 DEF Source, Target
<1>5. ToSet(<<>>) = {}
  BY DEF ToSet
<1>6. Source(Net, c) \in alive /\ Target(Net, c) \in alive
  BY <1>2, <1>4, <1>5 DEF IInv, OnlyOf
<1> QED
  BY <1>2, <1>6

LEMMA IInvOutputs == IInv => OutputsFollow
<1> SUFFICES ASSUME IInv, NEW b \in Blocks
             PROVE  val[b].out = val[b].in \/ val[b].in = Bad \/ task[b].eex
  BY DEF OutputsFollow
<1>1. Follows(Net, b)
  BY DEF IInv, Sound
<1> QED
  BY <1>1 DEF Follows, Net

LEMMA InitIInv == Init => IInv
<1> SUFFICES ASSUME Init PROVE IInv
  OBVIOUS
<1>1. PICK l \in Layouts :
        /\ alive = l.alive
        /\ kids = l.kids /\ ins = l.ins /\ outs = l.outs
        /\ task = [o \in Runnable |-> l.task[o] @@ NewTask]
        /\ conn = [c \in Connections |-> l.conn[c] @@ NewConnection]
        /\ val = [o \in Blocks \cup Ports |-> IF o \in Blocks THEN [in |-> 0, out |-> 0] ELSE [value |-> 0]]
        /\ event = task[UrTask].due
        /\ now = 0
  BY DEF Init
<1>2. /\ l.alive \in SUBSET Objects
      /\ l.kids \in [Runnable -> Seq(Runnable)]
      /\ l.ins \in [Objects -> Seq(Connections)] /\ OnlyOf(l.ins, l.alive)
      /\ l.outs \in [Objects -> Seq(Connections)] /\ OnlyOf(l.outs, l.alive)
      /\ \A o \in Runnable : (l.task[o] @@ NewTask) \in Task
      /\ \A c \in Connections :
           /\ (l.conn[c] @@ NewConnection) \in Connection
           /\ (l.conn[c] @@ NewConnection).source = NoElement
           /\ (l.conn[c] @@ NewConnection).target = NoElement
  BY LayoutsAssumption
<1>3. task \in [Runnable -> Task] /\ conn \in [Connections -> Connection]
  BY <1>1, <1>2
<1>4. \A c \in Connections : conn[c].source = NoElement /\ conn[c].target = NoElement
  BY <1>1, <1>2
<1>5. 0 \in Values
  BY ValuesAssumption
<1>6. /\ \A b \in Blocks : val[b] = [in |-> 0, out |-> 0]
      /\ \A x \in Ports : val[x] = [value |-> 0]
  BY <1>1, PortsAreNoBlocks
<1>7. [in |-> 0, out |-> 0] \in [{"in", "out"} -> Values] /\ [value |-> 0] \in [{"value"} -> Values]
  BY <1>5
<1>8. val \in [Blocks \cup Ports -> [{"in", "out"} -> Values] \cup [{"value"} -> Values]]
  BY <1>1, <1>7
<1>9. /\ Net.kids = kids /\ Net.ins = ins /\ Net.outs = outs /\ Net.task = task
      /\ Net.val = val /\ Net.conn = conn
  BY DEF Net
<1>10. Net \in Nets
  BY <1>1, <1>2, <1>3, <1>8 DEF Net, Nets
<1>11. ValuesTyped(Net)
  BY <1>6, <1>7, <1>9 DEF ValuesTyped
<1>12. \A c \in Connections : Resolved(Net, c)
  BY <1>4, <1>9 DEF Resolved, Found
<1>13. ASSUME NEW b \in Blocks PROVE Follows(Net, b)
  <2>1. val[b] = [in |-> 0, out |-> 0]
    BY <1>6
  <2>2. val[b].in = 0 /\ val[b].out = 0
    BY <2>1
  <2> QED
    BY <1>9, <2>2 DEF Follows
<1>14. event \in Int /\ now \in Int
  <2>1. UrTask \in Runnable
    BY ObjectsAssumption DEF Runnable
  <2>2. task[UrTask] \in Task
    BY <1>3, <2>1
  <2>3. task[UrTask].due \in Int
    BY <2>2, CycleAndDue
  <2> QED
    BY <1>1, <2>3
<1> QED
  BY <1>1, <1>2, <1>10, <1>11, <1>12, <1>13, <1>14 DEF IInv, Sound

----------------------------------------------------------------------------
(* Steps.                                                                  *)
LEMMA NetIs ==
  /\ Net.kids = kids /\ Net.ins = ins /\ Net.outs = outs /\ Net.task = task
  /\ Net.val = val /\ Net.conn = conn
BY DEF Net

LEMMA BecomesIs ==
  ASSUME NEW m, m \in Nets, Becomes(m)
  PROVE  Net' = m
<1>1. m = [kids |-> m.kids, ins |-> m.ins, outs |-> m.outs, task |-> m.task, val |-> m.val, conn |-> m.conn]
  BY DEF Nets
<1>2. Net' = [kids |-> kids', ins |-> ins', outs |-> outs', task |-> task', val |-> val', conn |-> conn']
  BY DEF Net
<1> QED
  BY <1>1, <1>2 DEF Becomes

LEMMA PhaseSame ==
  ASSUME NEW t \in Task, NEW u \in Task, InCycle(t, u), t.cyc > 0, u.cyc = t.cyc, NEW k \in Int
  PROVE  (k + u.due) % u.cyc = (k + t.due) % t.cyc
<1>1. t.cyc \in Nat \ {0} /\ t.cyc \in Int /\ t.due \in Int /\ u.due \in Int
  <2>1. t.cyc \in Nat /\ t.due \in Int /\ u.due \in Int
    BY CycleAndDue
  <2> QED
    BY <2>1
<1>2. Congruent(u.due, t.due, t.cyc)
  BY <1>1 DEF InCycle
<1>3. Congruent(k, k, t.cyc)
  BY <1>1, CongruentSame
<1>4. Congruent(k + u.due, k + t.due, t.cyc)
  BY <1>1, <1>2, <1>3, CongruentShift
<1>5. k + u.due \in Int /\ k + t.due \in Int
  BY <1>1
<1>6. (k + u.due) % t.cyc = (k + t.due) % t.cyc
  BY <1>1, <1>4, <1>5, CongruentRemainder
<1> QED
  BY <1>6

LEMMA PhaseBehind ==
  ASSUME NEW t \in Task, NEW u \in Task, Behind(t, u), t.cyc > 0, NEW k \in Int
  PROVE  (k + u.due) % u.cyc = (((k + t.due) % t.cyc) - 1) % t.cyc
<1>1. t.cyc \in Nat \ {0} /\ t.cyc \in Int /\ t.cyc \in Nat /\ t.due \in Int /\ u.due \in Int
  <2>1. t.cyc \in Nat /\ t.due \in Int /\ u.due \in Int
    BY CycleAndDue
  <2> QED
    BY <2>1
<1> DEFINE c == t.cyc
           a == k + u.due
           b == k + t.due
           r == b % c
<1>2. a \in Int /\ b \in Int /\ t.due - 1 \in Int /\ b - 1 \in Int /\ b - 1 = k + (t.due - 1)
      /\ b + (-1) = b - 1 /\ -1 \in Int
  BY <1>1
<1>3. Congruent(a, b - 1, c)
  <2>1. Congruent(u.due, t.due - 1, c) /\ Congruent(k, k, c)
    BY <1>1, CongruentSame DEF Behind
  <2>2. Congruent(k + u.due, k + (t.due - 1), c)
    BY <1>1, <1>2, <2>1, CongruentShift
  <2> QED
    BY <1>2, <2>2
<1>4. r \in Int /\ Congruent(r, b, c)
  BY <1>1, <1>2, CongruentNext
<1> HIDE DEF r, a, b
<1>5. Congruent((-1) + r, (-1) + b, c)
  <2>1. Congruent(-1, -1, c)
    BY <1>1, <1>2, CongruentSame
  <2> QED
    BY <1>1, <1>2, <1>4, <2>1, CongruentShift
<1>6. r - 1 \in Int /\ Congruent(r - 1, b - 1, c)
  <2>1. (-1) + r = r - 1 /\ (-1) + b = b - 1
    BY <1>2, <1>4
  <2> QED
    BY <1>4, <1>5, <2>1
<1>7. Congruent(a, r - 1, c)
  BY <1>1, <1>2, <1>3, <1>6, CongruentBack, CongruentSum
<1>8. a % c = (r - 1) % c
  BY <1>1, <1>2, <1>6, <1>7, CongruentRemainder
<1>9. u.cyc = c
  BY DEF Behind
<1> QED
  BY <1>8, <1>9 DEF a, b, r

(* A step of the net by itself, in which no time passes.                   *)
LEMMA GoesStep ==
  ASSUME IInv, NEW m, Goes(Net, m), Becomes(m),
         alive' = alive, now' = now, event' \in Int
  PROVE  IInv' /\ Phases
<1>1. m \in Nets /\ Sound(m) /\ m.ins = ins /\ m.outs = outs
  BY NetIs DEF Goes, Sound
<1>2. Net' = m /\ task' = m.task /\ ins' = ins /\ outs' = outs
  BY <1>1, BecomesIs DEF Becomes
<1>3. IInv'
  BY <1>1, <1>2 DEF IInv, OnlyOf
<1>4. ASSUME NEW o \in Runnable, task[o].cyc > 0, task'[o].cyc = task[o].cyc
      PROVE  (now' + task'[o].due) % task'[o].cyc = (now + task[o].due) % task[o].cyc
  <2>1. task[o] \in Task /\ task'[o] \in Task
    <3>1. Net \in Nets /\ Net.task = task
      BY NetIs DEF IInv, Sound
    <3> QED
      BY <1>1, <1>2, <3>1, TaskTyped
  <2>2. InCycle(task[o], task'[o])
    BY <1>2, NetIs DEF Goes
  <2>3. now \in Int
    BY DEF IInv
  <2>4. (now + task'[o].due) % task'[o].cyc = (now + task[o].due) % task[o].cyc
    BY <1>4, <2>1, <2>2, <2>3, PhaseSame
  <2> QED
    BY <2>4
<1> QED
  BY <1>3, <1>4 DEF Phases, PhaseSteps

(* A run, and when the UrTask is called again.                             *)
LEMMA RunAgainIs ==
  ASSUME NEW u \in Task, NEW ran \in BOOLEAN
  PROVE  RunAgain(u, ran) \in Int /\ (u.cyc # 0 => Congruent(RunAgain(u, ran), u.due, u.cyc))
<1> DEFINE c == u.cyc
           d == u.due
<1>1. c \in Nat /\ d \in Int
  BY CycleAndDue
<1>2. CASE c = 0
  <2>1. RunAgain(u, ran) = Second
    BY <1>2 DEF RunAgain
  <2> QED
    BY <1>2, <2>1, TimesAssumption
<1>3. CASE c # 0 /\ ran
  <2>1. RunAgain(u, ran) = d
    BY <1>1, <1>3 DEF RunAgain
  <2> QED
    BY <1>1, <2>1, CongruentSame
<1>4. CASE c # 0 /\ ~ran
  <2>1. RunAgain(u, ran) = IF d + c > 0 THEN d + c ELSE c - ((-d) % c)
    BY <1>1, <1>4 DEF RunAgain
  <2> DEFINE e == -((-d) % c)
  <2>2. /\ d + c \in Int /\ Congruent(d + c, d, c)
        /\ e \in Int /\ Congruent(e, d, c)
    BY <1>1, <1>4, CongruentNext
  <2>3. (-d) % c \in Int
    <3>1. -d \in Int /\ c \in Nat \ {0}
      BY <1>1, <1>4
    <3>2. (-d) % c \in 0..(c - 1)
      BY <3>1, Division
    <3> QED
      BY <3>2
  <2>4. e + c = c - ((-d) % c)
    BY <1>1, <2>3
  <2> HIDE DEF e
  <2>5. e + c \in Int /\ Congruent(e + c, e, c)
    BY <1>1, <2>2, CongruentNext
  <2>6. c \in Int
    BY <1>1
  <2>7. Congruent(e + c, d, c)
    BY <1>1, <2>2, <2>5, <2>6, CongruentSum
  <2>8. CASE d + c > 0
    BY <2>1, <2>2, <2>8
  <2>9. CASE ~(d + c > 0)
    BY <2>1, <2>4, <2>5, <2>7, <2>9
  <2> QED
    BY <2>8, <2>9
<1> QED
  BY <1>2, <1>3, <1>4

LEMMA UrRunStep == IInv /\ UrRun => IInv' /\ Phases
<1> SUFFICES ASSUME IInv, UrRun PROVE IInv' /\ Phases
  OBVIOUS
<1> DEFINE on == task[UrTask].mode # "OFF"
           n == IF on THEN Exec(Net, UrTask) ELSE Net
           due == RunAgain(n.task[UrTask], on)
           m == [n EXCEPT !.task[UrTask].due = due]
<1>1. Becomes(m) /\ event' = due /\ alive' = alive /\ now' = now
  BY DEF UrRun, Ran
<1>2. UrTask \in Runnable /\ on \in BOOLEAN
  BY ObjectsAssumption DEF Runnable
<1>3. Goes(Net, n)
  BY <1>2, ExecGoes, GoesSame DEF IInv
<1> HIDE DEF n, on
<1>4. Sound(n) /\ n \in Nets
  BY <1>3 DEF Goes, Sound
<1> DEFINE t == n.task[UrTask]
           u == [t EXCEPT !.due = due]
<1>5. t \in Task
  BY <1>2, <1>4, TaskTyped
<1>6. due \in Int /\ (t.cyc # 0 => Congruent(due, t.due, t.cyc))
  BY <1>2, <1>5, RunAgainIs
<1> HIDE DEF due
<1>7. u \in Task /\ u.cyc = t.cyc /\ u.due = due /\ u.eex = t.eex
  BY <1>5, <1>6 DEF Task
<1>8. InCycle(t, u)
  BY <1>6, <1>7 DEF InCycle
<1>9. m = [n EXCEPT !.task[UrTask] = u]
  BY <1>4 DEF Nets
<1> HIDE DEF u, m
<1>10. Goes(n, m)
  BY <1>2, <1>4, <1>7, <1>8, <1>9, TaskGoes
<1>11. Goes(Net, m)
  BY <1>3, <1>4, <1>10, GoesOn DEF IInv
<1>12. event' \in Int
  BY <1>1, <1>6
<1> QED
  BY <1>1, <1>11, <1>12, GoesStep

(* A second passes for all tasks, and for the time they are counted from.  *)
LEMMA LaterCongruent ==
  ASSUME NEW d \in Int, NEW k \in Int, NEW c \in CycleTimes, c # 0
  PROVE  /\ Later(d) \in Int /\ (k + 1) % Wrap \in Int
         /\ (((k + 1) % Wrap) + Later(d)) % c = (k + d) % c
<1>1. c \in Nat \ {0} /\ c \in Int /\ Wrap \in Nat \ {0} /\ Wrap \in Int /\ Wrap % c = 0
  BY TimesAssumption
<1> DEFINE q == Wrap \div c
<1>2. q \in Int /\ Wrap = c * q + (Wrap % c)
  BY <1>1, Division
<1>3. Wrap = q * c
  BY <1>1, <1>2
<1> HIDE DEF q
<1>4. Later(d) \in Int /\ Congruent(Later(d), d - 1, c)
  <2>1. CASE d > -Wrap
    <3>1. Later(d) = d - 1
      BY <2>1 DEF Later
    <3>2. d - 1 \in Int
      OBVIOUS
    <3> QED
      BY <1>1, <3>1, <3>2, CongruentSame
  <2>2. CASE ~(d > -Wrap)
    <3>1. Later(d) = d - 1 + Wrap
      BY <2>2 DEF Later
    <3>2. Later(d) = (d - 1) + q * c
      BY <1>3, <3>1
    <3>3. Later(d) \in Int
      BY <1>1, <3>1
    <3> QED
      BY <1>2, <3>2, <3>3 DEF Congruent
  <2> QED
    BY <2>1, <2>2
<1> DEFINE r == (k + 1) % Wrap
           x == (k + 1) \div Wrap
<1>5. r \in 0..(Wrap - 1) /\ x \in Int /\ k + 1 = Wrap * x + r
  <2>1. k + 1 \in Int
    OBVIOUS
  <2> QED
    BY <1>1, <2>1, Division
<1> HIDE DEF r, x
<1>6. r \in Int
  BY <1>1, <1>5
<1>7. Congruent(k + 1, r, c)
  <2> DEFINE y == q * x
  <2>1. y \in Int /\ Wrap * x = y * c
    BY <1>2, <1>3, <1>1, <1>5
  <2> HIDE DEF y
  <2>2. k + 1 = y * c + r /\ y * c \in Int
    BY <1>1, <1>5, <2>1
  <2>3. k + 1 = r + y * c
    BY <1>6, <2>2
  <2> QED
    BY <2>1, <2>3 DEF Congruent
<1>9. Congruent(r, k + 1, c)
  BY <1>1, <1>6, <1>7, CongruentBack
<1>10. Congruent(r + Later(d), (k + 1) + (d - 1), c)
  <2>1. k + 1 \in Int /\ d - 1 \in Int
    OBVIOUS
  <2> QED
    BY <1>1, <1>4, <1>6, <1>9, <2>1, CongruentShift
<1>11. (k + 1) + (d - 1) = k + d
  OBVIOUS
<1>12. r + Later(d) \in Int /\ k + d \in Int
  BY <1>4, <1>6
<1>13. (r + Later(d)) % c = (k + d) % c
  BY <1>1, <1>10, <1>11, <1>12, CongruentRemainder
<1> QED
  BY <1>4, <1>6, <1>13 DEF r

LEMMA TickStep == IInv /\ Tick => IInv' /\ Phases
<1> SUFFICES ASSUME IInv, Tick PROVE IInv' /\ Phases
  OBVIOUS
<1> DEFINE f == [o \in Runnable |-> [task[o] EXCEPT !.due = Later(@)]]
           m == [Net EXCEPT !.task = f]
<1>1. /\ task' = f /\ event' = Later(event) /\ now' = (now + 1) % Wrap
      /\ alive' = alive /\ kids' = kids /\ ins' = ins /\ outs' = outs /\ val' = val /\ conn' = conn
  BY DEF Tick
<1>2. Wrap \in Nat \ {0}
  BY TimesAssumption
<1>3. \A d \in Int : Later(d) \in Int
  BY <1>2 DEF Later
<1>4. Sound(Net) /\ Net \in Nets /\ Net.task = task
  BY NetIs DEF IInv, Sound
<1>5. ASSUME NEW o \in Runnable
      PROVE  /\ task[o] \in Task /\ f[o] \in Task /\ f[o].cyc = task[o].cyc
             /\ f[o].due = Later(task[o].due) /\ f[o].eex = task[o].eex
  <2>1. task[o] \in Task /\ task[o].due \in Int
    BY <1>4, TaskTyped
  <2>2. Later(task[o].due) \in Int
    BY <1>3, <2>1
  <2>3. f[o] = [task[o] EXCEPT !.due = Later(task[o].due)]
    OBVIOUS
  <2> HIDE DEF f
  <2> QED
    BY <2>1, <2>2, <2>3 DEF Task
<1>6. f \in [Runnable -> Task]
  BY <1>5
<1> HIDE DEF f
<1>7. \A b \in Blocks : Net.task[b].eex => f[b].eex
  BY <1>4, <1>5 DEF Runnable
<1>8. Sound(m)
  BY <1>4, <1>6, <1>7, TasksSound
<1>9. m \in Nets /\ Becomes(m)
  <2>1. m = [kids |-> kids, ins |-> ins, outs |-> outs, task |-> f, val |-> val, conn |-> conn]
    BY DEF Net
  <2> HIDE DEF m
  <2> QED
    BY <1>1, <1>8, <2>1 DEF Sound, Becomes
<1>10. Net' = m
  BY <1>9, BecomesIs
<1>11. IInv'
  <2>1. event \in Int /\ now \in Int
    BY DEF IInv
  <2>2. event' \in Int
    BY <1>1, <1>3, <2>1
  <2>3. now' \in Int
    <3>1. now + 1 \in Int
      BY <2>1
    <3>2. (now + 1) % Wrap \in 0..(Wrap - 1)
      BY <1>2, <3>1, Division
    <3> QED
      BY <1>1, <1>2, <3>2
  <2> QED
    BY <1>1, <1>8, <1>10, <2>2, <2>3 DEF IInv, OnlyOf
<1>12. ASSUME NEW o \in Runnable, task[o].cyc > 0
       PROVE  (now' + task'[o].due) % task'[o].cyc = (now + task[o].due) % task[o].cyc
  <2>1. task[o].cyc \in CycleTimes /\ task[o].cyc # 0 /\ task[o].due \in Int
    <3>1. task[o] \in Task
      BY <1>5
    <3>2. task[o].cyc \in CycleTimes \cup {0} /\ task[o].due \in Int
      BY <3>1 DEF Task
    <3>3. task[o].cyc \in Nat
      BY <3>1, CycleAndDue
    <3> QED
      BY <1>12, <3>2, <3>3
  <2>2. now \in Int
    BY DEF IInv
  <2>3. (((now + 1) % Wrap) + Later(task[o].due)) % task[o].cyc = (now + task[o].due) % task[o].cyc
    BY <2>1, <2>2, LaterCongruent
  <2>4. now' = (now + 1) % Wrap /\ task'[o].due = Later(task[o].due) /\ task'[o].cyc = task[o].cyc
    BY <1>1, <1>5
  <2> QED
    BY <2>3, <2>4
<1> QED
  BY <1>11, <1>12 DEF Phases, PhaseSteps

----------------------------------------------------------------------------
(* What clients do.                                                        *)

(* A step that leaves the net sound, and the cycles of all tasks but the   *)
(* one whose proctime is set; those that drift fall behind.                *)
LEMMA SoundStep ==
  ASSUME IInv, NEW m, Sound(m), Becomes(m),
         alive' \subseteq Objects, OnlyOf(m.ins, alive'), OnlyOf(m.outs, alive'),
         now' = now, event' \in Int,
         \A o \in Runnable :
           \/ last' = o
           \/ InCycle(task[o], m.task[o])
           \/ Behind(task[o], m.task[o]) /\ last' = "start" /\ task[o].mode = "ON"
  PROVE  IInv' /\ Phases
<1>1. m \in Nets
  BY DEF Sound
<1>2. Net' = m /\ task' = m.task /\ ins' = m.ins /\ outs' = m.outs
  BY <1>1, BecomesIs DEF Becomes
<1>3. IInv'
  BY <1>2 DEF IInv
<1>4. ASSUME NEW o \in Runnable, task[o].cyc > 0, task'[o].cyc = task[o].cyc, last' # o
      PROVE  PhaseSteps(o)
  <2>1. task[o] \in Task /\ task'[o] \in Task
    <3>1. Net \in Nets /\ Net.task = task
      BY NetIs DEF IInv, Sound
    <3> QED
      BY <1>1, <1>2, <3>1, TaskTyped
  <2>2. now \in Int
    BY DEF IInv
  <2>3. CASE InCycle(task[o], task'[o])
    <3>1. (now + task'[o].due) % task'[o].cyc = (now + task[o].due) % task[o].cyc
      BY <1>4, <2>1, <2>2, <2>3, PhaseSame
    <3> QED
      BY <3>1 DEF PhaseSteps
  <2>4. CASE Behind(task[o], task'[o]) /\ Drifting(o)
    <3>1. (now + task'[o].due) % task'[o].cyc = (((now + task[o].due) % task[o].cyc) - 1) % task[o].cyc
      BY <1>4, <2>1, <2>2, <2>4, PhaseBehind
    <3> QED
      BY <2>4, <3>1 DEF PhaseSteps
  <2>5. InCycle(task[o], task'[o]) \/ (Behind(task[o], task'[o]) /\ Drifting(o))
    BY <1>2, <1>4 DEF Drifting, Behind
  <2> QED
    BY <2>3, <2>4, <2>5
<1> QED
  BY <1>3, <1>4 DEF Phases

LEMMA Becoming ==
  ASSUME NEW m \in Nets,
         kids' = m.kids, ins' = m.ins, outs' = m.outs, task' = m.task, val' = m.val, conn' = m.conn
  PROVE  Becomes(m)
BY DEF Becomes

LEMMA Same ==
  ASSUME IInv, UNCHANGED vars
  PROVE  IInv' /\ Phases
<1>1. Sound(Net) /\ Becomes(Net) /\ now' = now /\ event' = event /\ alive' = alive
  BY NetIs DEF IInv, vars, Becomes
<1>2. Goes(Net, Net)
  BY <1>1, GoesSame
<1>3. event' \in Int
  BY <1>1 DEF IInv
<1> QED
  BY <1>1, <1>2, <1>3, GoesStep

(* fb_set_proctime keeps the cycle, or falls behind.                       *)
LEMMA SetProcTimeIs ==
  ASSUME NEW t \in Task, NEW less \in BOOLEAN, NEW cut \in BOOLEAN
  PROVE  LET s == SetProcTime(t, less, cut)
         IN  /\ s \in Task
             /\ InCycle(t, s) \/ Behind(t, s)
             /\ s.eex = t.eex /\ s.cyc = t.cyc /\ s.mode = t.mode
<1> DEFINE s == SetProcTime(t, less, cut)
<1>1. t.cyc \in Nat /\ t.due \in Int
  BY CycleAndDue
<1>2. ASSUME NEW d \in Int,
             t.cyc = 0 \/ Congruent(d, t.due, t.cyc) \/ (Congruent(d, t.due - 1, t.cyc) /\ Inexact(t))
      PROVE  LET u == [t EXCEPT !.due = d]
             IN  /\ u \in Task
                 /\ InCycle(t, u) \/ Behind(t, u)
                 /\ u.eex = t.eex /\ u.cyc = t.cyc /\ u.mode = t.mode
  <2> DEFINE u == [t EXCEPT !.due = d]
  <2>1. u \in Task /\ u.cyc = t.cyc /\ u.due = d /\ u.eex = t.eex /\ u.mode = t.mode
    BY DEF Task
  <2> HIDE DEF u
  <2>2. InCycle(t, u) \/ Behind(t, u)
    BY <1>2, <2>1 DEF InCycle, Behind
  <2> QED
    BY <2>1, <2>2 DEF u
<1>3. CASE t.due >= 0
  <2>1. s = t
    BY <1>3 DEF SetProcTime
  <2>2. InCycle(t, t)
    BY InCycleSame
  <2> QED
    BY <2>1, <2>2
<1>4. CASE ~(t.due >= 0) /\ t.cyc = 0
  <2>1. s = [t EXCEPT !.due = 0]
    BY <1>4 DEF SetProcTime, Task
  <2>2. PICK d \in Int : d = 0
    OBVIOUS
  <2>3. s = [t EXCEPT !.due = d]
    BY <2>1, <2>2
  <2> QED
    BY <1>2, <1>4, <2>3
<1>5. CASE ~(t.due >= 0) /\ t.cyc # 0
  <2> DEFINE n == Missed(t, less)
             e == IF cut /\ Inexact(t) /\ n # 0 THEN 1 ELSE 0
             d == t.due + n * t.cyc - e
  <2>1. s = [t EXCEPT !.due = d]
    BY <1>5 DEF SetProcTime, Task
  <2>2. n \in Int
    <3>1. (-t.due) \div t.cyc \in Int
      BY <1>1, <1>5
    <3>2. ((-t.due) \div t.cyc) - 1 \in Int
      BY <3>1
    <3> QED
      BY <3>1, <3>2 DEF Missed
  <2> HIDE DEF n
  <2>3. (e = 0 \/ e = 1) /\ (e = 1 => Inexact(t))
    OBVIOUS
  <2> HIDE DEF e
  <2>4. d \in Int
    BY <1>1, <2>2, <2>3
  <2>5. Congruent(d, t.due, t.cyc) \/ (Congruent(d, t.due - 1, t.cyc) /\ Inexact(t))
    <3>1. CASE e = 0
      <4>1. d = t.due + n * t.cyc
        BY <1>1, <2>2, <3>1
      <4> QED
        BY <2>2, <4>1 DEF Congruent
    <3>2. CASE e = 1
      <4>1. PICK p \in Int : p = n * t.cyc
        BY <1>1, <2>2
      <4>2. t.due + p - 1 = (t.due - 1) + p
        BY <1>1
      <4>3. d = (t.due - 1) + n * t.cyc
        BY <3>2, <4>1, <4>2
      <4> QED
        BY <2>2, <2>3, <3>2, <4>3 DEF Congruent
    <3> QED
      BY <2>3, <3>1, <3>2
  <2> HIDE DEF d
  <2>6. LET u == [t EXCEPT !.due = d]
        IN  /\ u \in Task
            /\ InCycle(t, u) \/ Behind(t, u)
            /\ u.eex = t.eex /\ u.cyc = t.cyc /\ u.mode = t.mode
    BY <1>2, <2>4, <2>5
  <2> QED
    BY <2>1, <2>6
<1> QED
  BY <1>3, <1>4, <1>5

(* A client changes one task; the request of a block is made, not          *)
(* withdrawn.                                                              *)
LEMMA SetTaskStep ==
  ASSUME IInv, NEW o \in Runnable, NEW t \in Task, t.eex = task[o].eex,
         \/ last' = o \/ InCycle(task[o], t) \/ t.cyc # task[o].cyc
         \/ /\ Behind(task[o], t)
            /\ last' = "client" /\ task[o].mode # "ON" /\ t.mode = "ON",
         SetTask(o, t), alive' = alive, now' = now, event' \in Int
  PROVE  IInv' /\ Phases
<1> DEFINE u == IF o \in Tasks THEN t ELSE [t EXCEPT !.eex = TRUE]
           f == [task EXCEPT ![o] = u]
           m == [Net EXCEPT !.task = f]
<1>1. /\ task' = f
      /\ kids' = kids /\ ins' = ins /\ outs' = outs /\ val' = val /\ conn' = conn
  BY DEF SetTask
<1>2. Sound(Net) /\ Net \in Nets /\ Net.task = task /\ task \in [Runnable -> Task]
  BY NetIs DEF IInv, Sound, Nets
<1>3. u \in Task /\ u.cyc = t.cyc /\ u.due = t.due /\ u.mode = t.mode /\ (u.eex <=> (t.eex \/ o \notin Tasks))
  <2>1. t.eex \in BOOLEAN
    BY DEF Task
  <2>2. CASE o \in Tasks
    BY <2>1, <2>2
  <2>3. CASE o \notin Tasks
    BY <2>3 DEF Task
  <2> QED
    BY <2>2, <2>3
<1> HIDE DEF u
<1>4. f \in [Runnable -> Task] /\ f[o] = u /\ \A y \in Runnable : y # o => f[y] = task[y]
  BY <1>2, <1>3
<1> HIDE DEF f
<1>5. \A b \in Blocks : Net.task[b].eex => f[b].eex
  <2> SUFFICES ASSUME NEW b \in Blocks, task[b].eex PROVE f[b].eex
    BY <1>2
  <2>1. b \in Runnable
    BY DEF Runnable
  <2>2. CASE b # o
    BY <1>4, <2>1, <2>2
  <2>3. CASE b = o
    <3>1. t.eex
      BY <2>3
    <3>2. u.eex
      BY <1>3, <3>1
    <3> QED
      BY <1>4, <2>3, <3>2
  <2> QED
    BY <2>2, <2>3
<1>6. Sound(m) /\ m.ins = ins /\ m.outs = outs /\ m.task = f
  BY <1>2, <1>4, <1>5, NetIs, TasksSound
<1>7. m = [kids |-> kids, ins |-> ins, outs |-> outs, task |-> f, val |-> val, conn |-> conn]
  BY DEF Net
<1> HIDE DEF m
<1>8. m \in Nets /\ Becomes(m)
  BY <1>1, <1>6, <1>7 DEF Sound, Becomes
<1>9. Net' = m
  BY <1>8, BecomesIs
<1>10. IInv'
  BY <1>1, <1>6, <1>9 DEF IInv, OnlyOf
<1>11. ASSUME NEW y \in Runnable, task[y].cyc > 0, task'[y].cyc = task[y].cyc, last' # y
       PROVE  PhaseSteps(y)
  <2>1. task[y] \in Task /\ task'[y] \in Task /\ now \in Int
    BY <1>1, <1>2, <1>4 DEF IInv
  <2>2. InCycle(task[y], task'[y]) \/ (Behind(task[y], task'[y]) /\ Drifting(y))
    <3>1. CASE y # o
      <4>1. task'[y] = task[y]
        BY <1>1, <1>4, <3>1
      <4> QED
        BY <2>1, <4>1, InCycleSame
    <3>2. CASE y = o
      <4>1. task'[y].cyc = t.cyc /\ task'[y].due = t.due /\ task'[y].mode = t.mode
        BY <1>1, <1>3, <1>4, <3>2
      <4>2. CASE InCycle(task[o], t)
        BY <3>2, <4>1, <4>2 DEF InCycle
      <4>3. CASE /\ Behind(task[o], t)
                 /\ last' = "client" /\ task[o].mode # "ON" /\ t.mode = "ON"
        BY <3>2, <4>1, <4>3 DEF Behind, Drifting
      <4> QED
        BY <1>11, <3>2, <4>1, <4>2, <4>3
    <3> QED
      BY <3>1, <3>2
  <2>3. CASE InCycle(task[y], task'[y])
    <3>1. (now + task'[y].due) % task'[y].cyc = (now + task[y].due) % task[y].cyc
      BY <1>11, <2>1, <2>3, PhaseSame
    <3> QED
      BY <3>1 DEF PhaseSteps
  <2>4. CASE Behind(task[y], task'[y]) /\ Drifting(y)
    <3>1. (now + task'[y].due) % task'[y].cyc = (((now + task[y].due) % task[y].cyc) - 1) % task[y].cyc
      BY <1>11, <2>1, <2>4, PhaseBehind
    <3> QED
      BY <2>4, <3>1 DEF PhaseSteps
  <2> QED
    BY <2>2, <2>3, <2>4
<1> QED
  BY <1>10, <1>11 DEF Phases

LEMMA EventKept ==
  ASSUME IInv, event' = event
  PROVE  event' \in Int
BY DEF IInv

LEMMA ActimodeStep ==
  ASSUME IInv, NEW o \in Runnable, NEW mode \in Modes[o], SetActimode(o, mode)
  PROVE  IInv' /\ Phases
<1>0. PICK less \in BOOLEAN, cut \in BOOLEAN :
        LET t == IF mode = "ON" THEN SetProcTime(task[o], less, cut) ELSE task[o]
        IN  SetTask(o, [t EXCEPT !.mode = mode, !.err = IF mode = "OFF" THEN @ ELSE FALSE])
  BY DEF SetActimode
<1> DEFINE t == IF mode = "ON" THEN SetProcTime(task[o], less, cut) ELSE task[o]
           u == [t EXCEPT !.mode = mode, !.err = IF mode = "OFF" THEN @ ELSE FALSE]
<1>1. /\ SetTask(o, u) /\ alive' = alive /\ now' = now /\ event' = event
      /\ last' = "client" /\ mode # task[o].mode
  BY <1>0 DEF SetActimode, Client, Kept
<1>2. task[o] \in Task
  BY NetIs DEF IInv, Sound, Nets
<1>3. mode \in ActiModes
  BY ValuesAssumption
<1>4. /\ t \in Task /\ t.eex = task[o].eex
      /\ InCycle(task[o], t) \/ (Behind(task[o], t) /\ mode = "ON")
  <2>1. CASE mode = "ON"
    BY <1>2, <2>1, SetProcTimeIs
  <2>2. CASE mode # "ON"
    BY <1>2, <2>2, InCycleSame
  <2> QED
    BY <2>1, <2>2
<1> HIDE DEF t
<1>5. u \in Task /\ u.cyc = t.cyc /\ u.due = t.due /\ u.eex = t.eex /\ u.mode = mode
  BY <1>3, <1>4 DEF Task
<1> HIDE DEF u
<1>6. \/ InCycle(task[o], u)
      \/ Behind(task[o], u) /\ last' = "client" /\ task[o].mode # "ON" /\ u.mode = "ON"
  BY <1>1, <1>4, <1>5 DEF InCycle, Behind
<1>7. event' \in Int
  BY <1>1, EventKept
<1> QED
  BY <1>1, <1>4, <1>5, <1>6, <1>7, SetTaskStep

LEMMA CyctimeStep ==
  ASSUME IInv, NEW o \in Runnable, NEW c \in CycleTimes, SetCyctime(o, c)
  PROVE  IInv' /\ Phases
<1> DEFINE u == [task[o] EXCEPT !.cyc = c]
<1>1. SetTask(o, u) /\ alive' = alive /\ now' = now /\ event' = event
  BY DEF SetCyctime, Client, Kept
<1>2. task[o] \in Task
  BY NetIs DEF IInv, Sound, Nets
<1>3. u \in Task /\ u.cyc = c /\ u.due = task[o].due /\ u.eex = task[o].eex
  BY <1>2 DEF Task
<1> HIDE DEF u
<1>4. InCycle(task[o], u) \/ u.cyc # task[o].cyc
  BY <1>2, <1>3, InCycleSame
<1>5. event' \in Int
  BY <1>1, EventKept
<1> QED
  BY <1>1, <1>3, <1>4, <1>5, SetTaskStep

LEMMA ProctimeStep ==
  ASSUME IInv, NEW o \in Runnable, NEW d \in Times, SetProctime(o, d)
  PROVE  IInv' /\ Phases
<1> DEFINE t == [task[o] EXCEPT !.due = d]
<1>1. /\ alive' = alive /\ now' = now /\ last' = o
      /\ IF o = UrTask
         THEN \E less, cut \in BOOLEAN :
                SetTask(o, SetProcTime(t, less, cut)) /\ event' = SetProcTime(t, less, cut).due
         ELSE SetTask(o, t) /\ event' = event
  BY DEF SetProctime, Client
<1>2. task[o] \in Task /\ d \in Int
  BY NetIs, TimesAssumption DEF IInv, Sound, Nets
<1>3. t \in Task /\ t.eex = task[o].eex
  BY <1>2 DEF Task
<1> HIDE DEF t
<1>4. CASE o = UrTask
  <2>1. PICK less \in BOOLEAN, cut \in BOOLEAN :
          SetTask(o, SetProcTime(t, less, cut)) /\ event' = SetProcTime(t, less, cut).due
    BY <1>1, <1>4
  <2> DEFINE u == SetProcTime(t, less, cut)
  <2>2. u \in Task /\ u.eex = t.eex
    BY <1>3, SetProcTimeIs
  <2>3. SetTask(o, u) /\ event' = u.due
    BY <2>1
  <2> HIDE DEF u
  <2>4. event' \in Int
    BY <2>2, <2>3, CycleAndDue
  <2> QED
    BY <1>1, <1>3, <2>2, <2>3, <2>4, SetTaskStep
<1>5. CASE o # UrTask
  <2>1. SetTask(o, t) /\ event' \in Int
    BY <1>1, <1>5, EventKept
  <2> QED
    BY <1>1, <1>3, <2>1, SetTaskStep
<1> QED
  BY <1>4, <1>5

LEMMA InputStep ==
  ASSUME IInv, NEW o \in Objects, NEW name \in Writable(o), NEW v \in Values, SetInput(o, name, v)
  PROVE  IInv' /\ Phases
<1> DEFINE m == SetVar(Net, o, <<o, name>>, v)
<1>1. Becomes(m) /\ alive' = alive /\ now' = now /\ event' = event
  BY DEF SetInput, Client, Kept
<1>2. Goes(Net, m)
  BY SetVarGoes DEF IInv
<1>3. event' \in Int
  BY <1>1, EventKept
<1> QED
  BY <1>1, <1>2, <1>3, GoesStep

LEMMA TreeStep ==
  ASSUME IInv, NEW o \in Runnable, NEW p \in Runnable, LinkTask(p, o) \/ UnlinkTask(o)
  PROVE  IInv' /\ Phases
<1>1. PICK m \in {Linked(Net, p, o), Unlinked(Net, o)} :
        Becomes(m) /\ alive' = alive /\ now' = now /\ event' = event
  BY DEF LinkTask, UnlinkTask, Client, Kept
<1>2. Goes(Net, Linked(Net, p, o)) /\ Goes(Net, Unlinked(Net, o))
  BY LinkedGoes, UnlinkedGoes DEF IInv
<1>3. Goes(Net, m)
  BY <1>2
<1>4. event' \in Int
  BY <1>1, EventKept
<1> QED
  BY <1>1, <1>3, <1>4, GoesStep

(* Connections are linked otherwise: those that could be concerned have    *)
(* lost their elements.                                                    *)
LEMMA Relinked ==
  ASSUME NEW n, Sound(n), NEW m \in Nets, m.task = n.task, m.val = n.val,
         \A c \in Connections :
           \/ ~Found(m.conn[c])
           \/ /\ m.conn[c] = n.conn[c]
              /\ Source(m, c) = Source(n, c) /\ Target(m, c) = Target(n, c)
  PROVE  Sound(m)
<1>1. ValuesTyped(m)
  BY DEF Sound, ValuesTyped
<1>2. ASSUME NEW c \in Connections PROVE Resolved(m, c)
  <2>1. Resolved(n, c)
    BY DEF Sound
  <2> QED
    BY <2>1 DEF Resolved, Consistent
<1>3. ASSUME NEW b \in Blocks PROVE Follows(m, b)
  <2>1. Follows(n, b)
    BY DEF Sound
  <2> QED
    BY <2>1 DEF Follows
<1> QED
  BY <1>1, <1>2, <1>3 DEF Sound

LEMMA InvalidTyped ==
  ASSUME NEW k \in Connection
  PROVE  Invalid(k) \in Connection /\ ~Found(Invalid(k))
<1>1. NoElement \in Element
  BY DEF Element
<1> QED
  BY <1>1 DEF Invalid, Connection, Found

(* What a list no longer holds.                                            *)
LEMMA EmptyList ==
  ASSUME NEW S, NEW s \in Seq(S), ToSet(s) = {}
  PROVE  s = <<>>
<1>1. Len(s) \in Nat /\ DOMAIN s = 1..Len(s)
  OBVIOUS
<1>2. ASSUME Len(s) # 0 PROVE FALSE
  <2>1. 1 \in DOMAIN s
    BY <1>1, <1>2
  <2> QED
    BY <2>1 DEF ToSet
<1> QED
  BY <1>2

Cut(links, cs) == [o \in Objects |-> Without(links[o], cs)]

LEMMA CutProperties ==
  ASSUME NEW links \in [Objects -> Seq(Connections)], NEW cs
  PROVE  /\ Cut(links, cs) \in [Objects -> Seq(Connections)]
         /\ \A o \in Objects : ToSet(Cut(links, cs)[o]) = ToSet(links[o]) \ cs
         /\ \A c \in Connections \ cs : Holder(Cut(links, cs), c) = Holder(links, c)
         /\ \A o \in Objects : ToSet(links[o]) \subseteq cs \/ links[o] = <<>> => Cut(links, cs)[o] = <<>>
<1> DEFINE f == Cut(links, cs)
<1>1. ASSUME NEW o \in Objects
      PROVE  f[o] \in Seq(Connections) /\ ToSet(f[o]) = ToSet(links[o]) \ cs
  <2>1. f[o] = Without(links[o], cs)
    BY DEF Cut
  <2>2. links[o] \in Seq(Connections)
    OBVIOUS
  <2>3. Without(links[o], cs) \in Seq(Connections) /\ ToSet(Without(links[o], cs)) = ToSet(links[o]) \ cs
    BY <2>2, WithoutProperties
  <2> QED
    BY <2>1, <2>3
<1>2. f \in [Objects -> Seq(Connections)]
  <2>1. f = [o \in Objects |-> f[o]]
    BY DEF Cut
  <2> QED
    BY <1>1, <2>1
<1> HIDE DEF f
<1>3. ASSUME NEW c \in Connections \ cs PROVE Holder(f, c) = Holder(links, c)
  <2>1. \A o \in Objects : c \in ToSet(f[o]) <=> c \in ToSet(links[o])
    BY <1>1
  <2> QED
    BY <2>1, HolderSame
<1>4. ASSUME NEW o \in Objects, ToSet(links[o]) \subseteq cs \/ links[o] = <<>> PROVE f[o] = <<>>
  <2>1. ToSet(<<>>) = {}
    BY DEF ToSet
  <2>2. ToSet(f[o]) = {}
    BY <1>1, <1>4, <2>1
  <2> QED
    BY <1>1, <2>2, EmptyList
<1> QED
  BY <1>1, <1>2, <1>3, <1>4 DEF f

(* Both ways to take connections off.                                      *)
LEMMA DetachedIs ==
  ASSUME NEW n, Sound(n), NEW cs, NEW m, m \in {Detached(n, cs), DetachedSource(n, cs)}
  PROVE  /\ Sound(m) /\ m.task = n.task
         /\ m.ins \in {n.ins, Cut(n.ins, cs)} /\ m.outs \in {n.outs, Cut(n.outs, cs)}
<1> DEFINE k == [c \in Connections |-> IF c \in cs THEN Invalid([n.conn[c] EXCEPT !.on = FALSE]) ELSE n.conn[c]]
<1>1. n \in Nets /\ n.ins \in [Objects -> Seq(Connections)] /\ n.outs \in [Objects -> Seq(Connections)]
  BY DEF Sound, Nets
<1>2. PICK is \in {n.ins, Cut(n.ins, cs)}, os \in {n.outs, Cut(n.outs, cs)} :
        m = [n EXCEPT !.ins = is, !.outs = os, !.conn = k]
  <2>1. Detached(n, cs) = [n EXCEPT !.ins = Cut(n.ins, cs), !.outs = n.outs, !.conn = k]
    BY <1>1 DEF Detached, Cut, Nets
  <2>2. DetachedSource(n, cs) = [n EXCEPT !.ins = n.ins, !.outs = Cut(n.outs, cs), !.conn = k]
    BY <1>1 DEF DetachedSource, Cut, Nets
  <2> HIDE DEF k
  <2> QED
    BY <2>1, <2>2
<1>3. ASSUME NEW c \in Connections
      PROVE  /\ k[c] \in Connection
             /\ c \in cs => ~Found(k[c])
             /\ c \notin cs => k[c] = n.conn[c]
  <2>1. n.conn[c] \in Connection
    BY <1>1 DEF Nets
  <2>2. [n.conn[c] EXCEPT !.on = FALSE] \in Connection
    BY <2>1 DEF Connection
  <2>3. /\ Invalid([n.conn[c] EXCEPT !.on = FALSE]) \in Connection
        /\ ~Found(Invalid([n.conn[c] EXCEPT !.on = FALSE]))
    BY <2>2, InvalidTyped
  <2> QED
    BY <2>1, <2>3
<1>4. k \in [Connections -> Connection]
  BY <1>3
<1> HIDE DEF k
<1>5. is \in [Objects -> Seq(Connections)] /\ os \in [Objects -> Seq(Connections)]
  <2>1. Cut(n.ins, cs) \in [Objects -> Seq(Connections)]
    BY <1>1, CutProperties
  <2>2. Cut(n.outs, cs) \in [Objects -> Seq(Connections)]
    BY <1>1, CutProperties
  <2> QED
    BY <1>1, <2>1, <2>2
<1>6. /\ m.ins = is /\ m.outs = os /\ m.conn = k
      /\ m.kids = n.kids /\ m.task = n.task /\ m.val = n.val
  BY <1>1, <1>2 DEF Nets
<1>7. m \in Nets
  BY <1>1, <1>2, <1>4, <1>5 DEF Nets
<1>8. ASSUME NEW c \in Connections \ cs
      PROVE  Source(m, c) = Source(n, c) /\ Target(m, c) = Target(n, c)
  <2>1. Holder(is, c) = Holder(n.ins, c) /\ Holder(os, c) = Holder(n.outs, c)
    BY <1>1, CutProperties
  <2> QED
    BY <1>6, <2>1 DEF Source, Target
<1>9. Sound(m)
  BY <1>3, <1>6, <1>7, <1>8, Relinked
<1> QED
  BY <1>6, <1>9

LEMMA Unlinking ==
  ASSUME NEW exist, NEW links \in [Objects -> Seq(Connections)], OnlyOf(links, exist), NEW cs,
         NEW rest, rest \in {links, Cut(links, cs)}
  PROVE  OnlyOf(rest, exist)
BY CutProperties DEF OnlyOf

LEMMA AllInCycle ==
  ASSUME IInv, NEW m, m.task = task
  PROVE  \A o \in Runnable : InCycle(task[o], m.task[o])
<1>1. Net \in Nets /\ Net.task = task
  BY NetIs DEF IInv, Sound
<1> QED
  BY <1>1, TaskTyped, InCycleSame

LEMMA UnlinkStep ==
  ASSUME IInv, NEW c \in Connections, UnlinkSource(c) \/ UnlinkTarget(c)
  PROVE  IInv' /\ Phases
<1>1. PICK m \in {Detached(Net, {c}), DetachedSource(Net, {c})} :
        Becomes(m) /\ alive' = alive /\ now' = now /\ event' = event
  BY DEF UnlinkSource, UnlinkTarget, Client, Kept
<1>2. Sound(Net)
  BY DEF IInv
<1>3. /\ Sound(m) /\ m.task = task
      /\ m.ins \in {ins, Cut(ins, {c})} /\ m.outs \in {outs, Cut(outs, {c})}
  BY <1>2, NetIs, DetachedIs
<1>4. ins \in [Objects -> Seq(Connections)] /\ outs \in [Objects -> Seq(Connections)]
  BY <1>2, NetIs DEF Sound, Nets
<1>5. OnlyOf(m.ins, alive) /\ OnlyOf(m.outs, alive)
  BY <1>3, <1>4, Unlinking DEF IInv
<1>6. event' \in Int /\ alive' \subseteq Objects
  BY <1>1, EventKept DEF IInv
<1>7. \A o \in Runnable : last' = o \/ InCycle(task[o], m.task[o])
  BY <1>3, AllInCycle
<1>8. OnlyOf(m.ins, alive') /\ OnlyOf(m.outs, alive')
  BY <1>1, <1>5
<1> QED
  BY <1>1, <1>3, <1>6, <1>7, <1>8, SoundStep

(* An object is deleted with the links of its connections.                 *)
LEMMA DeleteStep ==
  ASSUME IInv, NEW o \in Objects, Delete(o)
  PROVE  IInv' /\ Phases
<1> DEFINE a == Unlinked(Net, o)
           b == Detached(a, ToSet(ins[o]))
           m == DetachedSource(b, ToSet(outs[o]))
<1>1. Becomes(m) /\ alive' = alive \ {o} /\ now' = now /\ event' = event
  BY DEF Delete, Client
<1>2. Sound(Net) /\ ins \in [Objects -> Seq(Connections)] /\ outs \in [Objects -> Seq(Connections)]
  BY NetIs DEF IInv, Sound, Nets
<1>3. Sound(a) /\ a.ins = ins /\ a.outs = outs /\ a.task = task
  <2>1. Goes(Net, a)
    BY <1>2, UnlinkedGoes
  <2>2. a.task = Net.task
    BY <1>2 DEF Unlinked, Sound, Nets
  <2> QED
    BY <2>1, <2>2, NetIs DEF Goes
<1> HIDE DEF a
<1>4. Sound(b) /\ b.task = task
  BY <1>3, DetachedIs
<1>5. b.ins = Cut(ins, ToSet(ins[o])) /\ b.outs = outs
  BY <1>3 DEF Detached, Cut, Sound, Nets
<1> HIDE DEF b
<1>6. Sound(m) /\ m.task = task
  BY <1>4, DetachedIs
<1>7. m.ins = Cut(ins, ToSet(ins[o])) /\ m.outs = Cut(outs, ToSet(outs[o]))
  BY <1>4, <1>5 DEF DetachedSource, Cut, Sound, Nets
<1> HIDE DEF m
<1>8. \A links \in {ins, outs} : OnlyOf(Cut(links, ToSet(links[o])), alive \ {o})
  <2> SUFFICES ASSUME NEW links \in {ins, outs}, NEW x \in Objects \ (alive \ {o})
               PROVE  Cut(links, ToSet(links[o]))[x] = <<>>
    BY DEF OnlyOf
  <2>1. x = o \/ links[x] = <<>>
    BY DEF IInv, OnlyOf
  <2> DEFINE cs == ToSet(links[o])
  <2>2. ToSet(links[x]) \subseteq cs \/ links[x] = <<>>
    BY <2>1
  <2>3. links \in [Objects -> Seq(Connections)] /\ x \in Objects
    BY <1>2
  <2> HIDE DEF cs
  <2>4. Cut(links, cs)[x] = <<>>
    BY <2>2, <2>3, CutProperties
  <2> QED
    BY <2>4 DEF cs
<1>9. OnlyOf(m.ins, alive') /\ OnlyOf(m.outs, alive')
  BY <1>1, <1>7, <1>8
<1>10. event' \in Int /\ alive' \subseteq Objects
  BY <1>1, EventKept DEF IInv
<1>11. \A x \in Runnable : last' = x \/ InCycle(task[x], m.task[x])
  BY <1>6, AllInCycle
<1> QED
  BY <1>1, <1>6, <1>9, <1>10, <1>11, SoundStep

(* A connection is linked anew: no other one notices, and it forgets what  *)
(* it had found.                                                           *)
Adds(more, links, o, c) == more = [links EXCEPT ![o] = Append(links[o], c)]

HoldsMore(more, links, o, c) ==
  /\ more \in [Objects -> Seq(Connections)]
  /\ \A d \in Connections : d # c => Holder(more, d) = Holder(links, d)
  /\ \A x \in Objects : x # o => more[x] = links[x]

LEMMA HeldNew ==
  ASSUME NEW links \in [Objects -> Seq(Connections)], NEW o \in Objects, NEW c \in Connections,
         NEW more, Adds(more, links, o, c)
  PROVE  HoldsMore(more, links, o, c)
<1>0. more = [links EXCEPT ![o] = Append(links[o], c)]
  BY DEF Adds
<1>1. links[o] \in Seq(Connections)
  OBVIOUS
<1>2. Append(links[o], c) \in Seq(Connections) /\ ToSet(Append(links[o], c)) = ToSet(links[o]) \cup {c}
  BY <1>1, Appended
<1>3. more \in [Objects -> Seq(Connections)]
  BY <1>0, <1>2
<1>4. more[o] = Append(links[o], c) /\ \A x \in Objects : x # o => more[x] = links[x]
  BY <1>0
<1>5. ASSUME NEW d \in Connections, d # c PROVE Holder(more, d) = Holder(links, d)
  <2>1. \A x \in Objects : d \in ToSet(more[x]) <=> d \in ToSet(links[x])
    BY <1>2, <1>4, <1>5
  <2> QED
    BY <2>1, HolderSame
<1> QED
  BY <1>3, <1>4, <1>5 DEF HoldsMore

LEMMA ReconnectedStep ==
  ASSUME IInv, NEW c \in Connections, NEW o \in Objects \cap alive, LinkSource(c, o) \/ LinkTarget(c, o)
  PROVE  IInv' /\ Phases
<1> DEFINE add(links) == [links EXCEPT ![o] = Append(links[o], c)]
           k == [conn EXCEPT ![c] = Invalid(conn[c])]
<1>1. PICK is \in {ins, add(ins)}, os \in {outs, add(outs)} : Reconnected(c, is, os, conn[c])
  BY DEF LinkSource, LinkTarget
<1> DEFINE m == [kids |-> kids, ins |-> is, outs |-> os, task |-> task, val |-> val, conn |-> k]
<1>2. Becomes(m) /\ alive' = alive /\ now' = now /\ event' = event
  BY <1>1 DEF Reconnected, Becomes, Client, Kept
<1>3. Sound(Net) /\ Net \in Nets
  BY DEF IInv, Sound
<1>4. /\ kids \in [Runnable -> Seq(Runnable)]
      /\ ins \in [Objects -> Seq(Connections)] /\ outs \in [Objects -> Seq(Connections)]
      /\ task \in [Runnable -> Task] /\ conn \in [Connections -> Connection]
      /\ val \in [Blocks \cup Ports -> [{"in", "out"} -> Values] \cup [{"value"} -> Values]]
  BY <1>3, NetIs DEF Nets
<1>5. \A links \in {ins, outs} :
        /\ add(links) \in [Objects -> Seq(Connections)]
        /\ \A d \in Connections : d # c => Holder(add(links), d) = Holder(links, d)
        /\ OnlyOf(add(links), alive)
  <2> SUFFICES ASSUME NEW links \in {ins, outs}
               PROVE  /\ add(links) \in [Objects -> Seq(Connections)]
                      /\ \A d \in Connections : d # c => Holder(add(links), d) = Holder(links, d)
                      /\ OnlyOf(add(links), alive)
    OBVIOUS
  <2>1. links \in [Objects -> Seq(Connections)] /\ OnlyOf(links, alive)
    BY <1>4 DEF IInv
  <2> DEFINE more == add(links)
  <2>2. Adds(more, links, o, c)
    BY DEF Adds
  <2> HIDE DEF add, more
  <2>3. HoldsMore(more, links, o, c)
    BY <2>1, <2>2, HeldNew
  <2>6. OnlyOf(more, alive)
    BY <2>1, <2>3 DEF OnlyOf, HoldsMore
  <2> QED
    BY <2>3, <2>6 DEF HoldsMore, more
<1> HIDE DEF add
<1>6. is \in [Objects -> Seq(Connections)] /\ os \in [Objects -> Seq(Connections)]
  BY <1>1, <1>4, <1>5
<1>7. OnlyOf(is, alive) /\ OnlyOf(os, alive)
  BY <1>1, <1>5 DEF IInv
<1>8. \A d \in Connections : d # c => Holder(is, d) = Holder(ins, d) /\ Holder(os, d) = Holder(outs, d)
  BY <1>1, <1>5
<1>9. k \in [Connections -> Connection] /\ ~Found(k[c]) /\ \A d \in Connections : d # c => k[d] = conn[d]
  <2>1. conn[c] \in Connection
    BY <1>4
  <2>2. Invalid(conn[c]) \in Connection /\ ~Found(Invalid(conn[c]))
    BY <2>1, InvalidTyped
  <2> QED
    BY <1>4, <2>2
<1> HIDE DEF k
<1>10. m \in Nets
  BY <1>4, <1>6, <1>9 DEF Nets
<1>11. ASSUME NEW d \in Connections
       PROVE  \/ ~Found(m.conn[d])
              \/ /\ m.conn[d] = Net.conn[d]
                 /\ Source(m, d) = Source(Net, d) /\ Target(m, d) = Target(Net, d)
  <2>1. CASE d = c
    BY <1>9, <2>1
  <2>2. CASE d # c
    BY <1>8, <1>9, <2>2, NetIs DEF Source, Target
  <2> QED
    BY <2>1, <2>2
<1>12. m.task = Net.task /\ m.val = Net.val
  BY NetIs
<1>13. m.ins = is /\ m.outs = os /\ m.task = task
  OBVIOUS
<1> HIDE DEF m
<1>14. Sound(m)
  BY <1>3, <1>10, <1>11, <1>12, Relinked
<1>15. event' \in Int /\ alive' \subseteq Objects
  BY <1>2, EventKept DEF IInv
<1>16. \A x \in Runnable : last' = x \/ InCycle(task[x], m.task[x])
  BY <1>13, AllInCycle
<1>17. OnlyOf(m.ins, alive') /\ OnlyOf(m.outs, alive')
  BY <1>2, <1>7, <1>13
<1> QED
  BY <1>2, <1>14, <1>15, <1>16, <1>17, SoundStep

(* A variable of a connection is set.                                      *)
LEMMA ConnectionSet ==
  ASSUME IInv, NEW c \in Connections, NEW k \in Connection, SetConnection(c, k),
         \/ ~Found(k)
         \/ /\ k.source = conn[c].source /\ k.target = conn[c].target
            /\ k.sport = conn[c].sport /\ k.tport = conn[c].tport
  PROVE  IInv' /\ Phases
<1> DEFINE m == [Net EXCEPT !.conn[c] = k]
<1>1. Sound(Net)
  BY DEF IInv
<1>2. Becomes(m) /\ alive' = alive /\ now' = now /\ event' = event
  BY DEF SetConnection, Becomes, Net, Client, Kept
<1>3. Found(k) =>
        /\ k.source = <<Source(Net, c), k.sport>> /\ Source(Net, c) \in Objects
        /\ k.target = <<Target(Net, c), k.tport>> /\ Target(Net, c) \in Objects
        /\ k.sport \in Readable(Source(Net, c)) /\ k.tport \in Writable(Target(Net, c))
  <2> SUFFICES ASSUME Found(k)
               PROVE  /\ k.source = <<Source(Net, c), k.sport>> /\ Source(Net, c) \in Objects
                      /\ k.target = <<Target(Net, c), k.tport>> /\ Target(Net, c) \in Objects
                      /\ k.sport \in Readable(Source(Net, c)) /\ k.tport \in Writable(Target(Net, c))
    OBVIOUS
  <2>1. Resolved(Net, c) /\ Found(Net.conn[c])
    BY <1>1, NetIs DEF Sound, Found
  <2> QED
    BY <2>1, NetIs DEF Resolved, Consistent
<1>4. Goes(Net, m)
  BY <1>1, <1>3, ConnectionGoes
<1>5. event' \in Int
  BY <1>2, EventKept
<1> HIDE DEF m
<1> QED
  BY <1>2, <1>4, <1>5, GoesStep

LEMMA VariableStep ==
  ASSUME IInv, NEW c \in Connections, NEW name \in Names,
         Switch(c) \/ SetSourcetrig(c) \/ SetSourceport(c, name) \/ SetTargetport(c, name)
  PROVE  IInv' /\ Phases
<1>1. conn[c] \in Connection
  BY NetIs DEF IInv, Sound, Nets
<1>2. CASE Switch(c)
  <2> DEFINE k == [conn[c] EXCEPT !.on = ~@]
  <2>1. SetConnection(c, k)
    BY <1>2 DEF Switch
  <2>2. /\ k \in Connection
        /\ k.source = conn[c].source /\ k.target = conn[c].target
        /\ k.sport = conn[c].sport /\ k.tport = conn[c].tport
    BY <1>1 DEF Connection
  <2> HIDE DEF k
  <2> QED
    BY <2>1, <2>2, ConnectionSet
<1>3. CASE SetSourcetrig(c)
  <2> DEFINE k == [conn[c] EXCEPT !.trig = ~@]
  <2>1. SetConnection(c, k)
    BY <1>3 DEF SetSourcetrig
  <2>2. /\ k \in Connection
        /\ k.source = conn[c].source /\ k.target = conn[c].target
        /\ k.sport = conn[c].sport /\ k.tport = conn[c].tport
    BY <1>1 DEF Connection
  <2> HIDE DEF k
  <2> QED
    BY <2>1, <2>2, ConnectionSet
<1>4. CASE SetSourceport(c, name)
  <2> DEFINE j == [conn[c] EXCEPT !.sport = name]
  <2>1. SetConnection(c, Invalid(j))
    BY <1>4 DEF SetSourceport
  <2>2. j \in Connection
    BY <1>1 DEF Connection
  <2> HIDE DEF j
  <2>3. Invalid(j) \in Connection /\ ~Found(Invalid(j))
    BY <2>2, InvalidTyped
  <2> QED
    BY <2>1, <2>3, ConnectionSet
<1>5. CASE SetTargetport(c, name)
  <2> DEFINE j == [conn[c] EXCEPT !.tport = name]
  <2>1. SetConnection(c, Invalid(j))
    BY <1>5 DEF SetTargetport
  <2>2. j \in Connection
    BY <1>1 DEF Connection
  <2> HIDE DEF j
  <2>3. Invalid(j) \in Connection /\ ~Found(Invalid(j))
    BY <2>2, InvalidTyped
  <2> QED
    BY <2>1, <2>3, ConnectionSet
<1> QED
  BY <1>2, <1>3, <1>4, <1>5

(* The server starts again: all elements are looked up anew.               *)
LEMMA RestartStep ==
  ASSUME IInv, Restart
  PROVE  IInv' /\ Phases
<1>0. PICK less \in SUBSET Runnable, cut \in SUBSET Runnable :
        task' = [o \in Runnable |-> IF task[o].mode = "ON"
                                    THEN SetProcTime(task[o], o \in less, o \in cut) ELSE task[o]]
  BY DEF Restart
<1> DEFINE f == [o \in Runnable |-> IF task[o].mode = "ON"
                                    THEN SetProcTime(task[o], o \in less, o \in cut) ELSE task[o]]
           k == [c \in Connections |-> Invalid(conn[c])]
           m == [kids |-> kids, ins |-> ins, outs |-> outs, task |-> f, val |-> val, conn |-> k]
           n == [Net EXCEPT !.task = f]
<1>1. /\ task' = f /\ event' = f[UrTask].due /\ conn' = k
      /\ Becomes(m) /\ alive' = alive /\ now' = now /\ last' = "start"
  <2>1. /\ task' = f /\ conn' = k /\ event' = task'[UrTask].due
        /\ UNCHANGED <<alive, kids, ins, outs, val>> /\ now' = now /\ last' = "start"
    BY <1>0 DEF Restart, Client
  <2> HIDE DEF f, k
  <2> QED
    BY <2>1 DEF Becomes
<1>2. Sound(Net) /\ Net \in Nets
  BY DEF IInv, Sound
<1>3. ASSUME NEW o \in Runnable
      PROVE  /\ f[o] \in Task /\ f[o].eex = task[o].eex
             /\ \/ InCycle(task[o], f[o])
                \/ Behind(task[o], f[o]) /\ task[o].mode = "ON"
  <2>1. task[o] \in Task
    BY <1>2, NetIs DEF Nets
  <2>2. CASE task[o].mode = "ON"
    <3>1. (o \in less) \in BOOLEAN /\ (o \in cut) \in BOOLEAN
      OBVIOUS
    <3>2. f[o] = SetProcTime(task[o], o \in less, o \in cut)
      BY <2>2
    <3> QED
      BY <2>1, <2>2, <3>1, <3>2, SetProcTimeIs
  <2>3. CASE task[o].mode # "ON"
    BY <2>1, <2>3, InCycleSame
  <2> QED
    BY <2>2, <2>3
<1>4. ASSUME NEW c \in Connections PROVE k[c] \in Connection /\ ~Found(k[c])
  <2>1. conn[c] \in Connection
    BY <1>2, NetIs DEF Nets
  <2> QED
    BY <2>1, InvalidTyped
<1>5. f \in [Runnable -> Task] /\ k \in [Connections -> Connection]
  BY <1>3, <1>4
<1> HIDE DEF f, k
<1>6. \A b \in Blocks : Net.task[b].eex => f[b].eex
  BY <1>3, NetIs DEF Runnable
<1>7. Sound(n) /\ n.task = f /\ n.val = val
  <2>1. Sound(n) /\ n.task = f
    BY <1>2, <1>5, <1>6, TasksSound
  <2> QED
    BY <2>1 DEF Net
<1>8. m \in Nets
  BY <1>2, <1>5, NetIs DEF Nets
<1>9. m.task = f /\ m.val = val /\ m.ins = ins /\ m.outs = outs /\ \A c \in Connections : ~Found(m.conn[c])
  BY <1>4
<1> HIDE DEF m, n
<1>10. Sound(m)
  BY <1>7, <1>8, <1>9, Relinked
<1>11. OnlyOf(m.ins, alive') /\ OnlyOf(m.outs, alive') /\ alive' \subseteq Objects
  BY <1>1, <1>9 DEF IInv
<1>12. event' \in Int
  <2>1. f[UrTask] \in Task
    BY <1>3, ObjectsAssumption DEF Runnable
  <2> QED
    BY <1>1, <2>1, CycleAndDue
<1>13. \A x \in Runnable :
         \/ last' = x
         \/ InCycle(task[x], m.task[x])
         \/ Behind(task[x], m.task[x]) /\ last' = "start" /\ task[x].mode = "ON"
  BY <1>1, <1>3, <1>9
<1> QED
  BY <1>1, <1>10, <1>11, <1>12, <1>13, SoundStep

LEMMA ClientStep == IInv /\ ClientActs => IInv' /\ Phases
<1> SUFFICES ASSUME IInv, ClientActs PROVE IInv' /\ Phases
  OBVIOUS
<1>1. ASSUME NEW o \in Runnable,
             \/ \E m \in Modes[o] : SetActimode(o, m)
             \/ \E c \in CycleTimes : SetCyctime(o, c)
             \/ \E d \in Times : SetProctime(o, d)
             \/ UnlinkTask(o)
             \/ \E p \in Runnable : LinkTask(p, o)
             \/ Delete(o)
      PROVE  IInv' /\ Phases
  <2>1. o \in Objects
    BY DEF Objects
  <2>2. CASE \E m \in Modes[o] : SetActimode(o, m)
    BY <2>2, ActimodeStep
  <2>3. CASE \E c \in CycleTimes : SetCyctime(o, c)
    BY <2>3, CyctimeStep
  <2>4. CASE \E d \in Times : SetProctime(o, d)
    BY <2>4, ProctimeStep
  <2>5. CASE UnlinkTask(o)
    BY <2>5, TreeStep
  <2>6. CASE \E p \in Runnable : LinkTask(p, o)
    BY <2>6, TreeStep
  <2>7. CASE Delete(o)
    BY <2>1, <2>7, DeleteStep
  <2> QED
    BY <1>1, <2>2, <2>3, <2>4, <2>5, <2>6, <2>7
<1>2. ASSUME NEW o \in Objects, NEW v \in Values, NEW name \in Writable(o), SetInput(o, name, v)
      PROVE  IInv' /\ Phases
  BY <1>2, InputStep
<1>3. ASSUME NEW c \in Connections,
             \/ \E o \in (Blocks \cup Ports) \cap alive : LinkSource(c, o) \/ LinkTarget(c, o)
             \/ UnlinkSource(c) \/ UnlinkTarget(c)
             \/ Switch(c) \/ SetSourcetrig(c)
             \/ \E name \in Names : SetSourceport(c, name) \/ SetTargetport(c, name)
      PROVE  IInv' /\ Phases
  <2>1. Blocks \cup Ports \subseteq Objects
    BY DEF Objects, Runnable
  <2>2. CASE \E o \in (Blocks \cup Ports) \cap alive : LinkSource(c, o) \/ LinkTarget(c, o)
    BY <2>1, <2>2, ReconnectedStep
  <2>3. CASE UnlinkSource(c) \/ UnlinkTarget(c)
    BY <2>3, UnlinkStep
  <2>4. CASE Switch(c) \/ SetSourcetrig(c)
    <3>1. "in" \in Names
      BY DEF Names
    <3> QED
      BY <2>4, <3>1, VariableStep
  <2>5. CASE \E name \in Names : SetSourceport(c, name) \/ SetTargetport(c, name)
    BY <2>5, VariableStep
  <2> QED
    BY <1>3, <2>2, <2>3, <2>4, <2>5
<1> QED
  BY <1>1, <1>2, <1>3, RestartStep DEF ClientActs

LEMMA NextIInv == IInv /\ [Next]_vars => IInv' /\ Phases
BY UrRunStep, TickStep, ClientStep, Same DEF Next

LEMMA Invariance == Spec => []IInv
<1>1. Init => IInv
  BY InitIInv
<1>2. IInv /\ [Next]_vars => IInv'
  BY NextIInv
<1> QED
  BY <1>1, <1>2, PTL DEF Spec

----------------------------------------------------------------------------
(* The theorems.                                                           *)

(* What a connection has found is what it is linked to, and exists: links, *)
(* names and objects change between two lookups, and so do the tasks that  *)
(* are executed (fb_connection_getelements, fb_outputconnections_unlink).  *)
THEOREM ElementsStayCurrent == Spec => []ElementsCurrent
<1>1. IInv => ElementsCurrent
  BY IInvElements
<1> QED
  BY <1>1, Invariance, PTL

(* No change of an input is forgotten, whatever wrote it and whatever the  *)
(* block was doing (fb_object_setvar, fb_functionblock_execTypeMethod).    *)
THEOREM OutputsAlwaysFollow == Spec => []OutputsFollow
<1>1. IInv => OutputsFollow
  BY IInvOutputs
<1> QED
  BY <1>1, Invariance, PTL

(* No run and no passing of time moves a task out of its cycle; the client *)
(* that sets its proctime does, and fb_set_proctime by one unit towards    *)
(* the past when a late task is switched on or the server starts, if a     *)
(* double does not hold the cycle time (fb_task.c:125-137).                *)
THEOREM PhaseIsKept == Spec => PhaseKept
<1> DEFINE A == \A o \in Runnable :
                  task[o].cyc > 0 /\ task'[o].cyc = task[o].cyc /\ last' # o =>
                    Phase(o)' = Phase(o) \/ Drifts(o)
<1>1. IInv /\ [Next]_vars => A
  <2>1. Phases => A
    BY DEF Phases, PhaseSteps, Phase, Drifts, Drifting
  <2> QED
    BY <2>1, NextIInv
<1>2. IInv /\ [Next]_vars => [A]_vars
  BY <1>1
<1>3. [][A]_vars => PhaseKept
  BY DEF PhaseKept
<1> QED
  BY <1>2, <1>3, Invariance, PTL DEF Spec

=============================================================================
