------------------------- MODULE ConnectionsProofs -------------------------
(***************************************************************************)
(* Theorems about the connections of a server (module Connections), for    *)
(* any number of connections and any clients.                              *)
(***************************************************************************)
EXTENDS Connections, SequenceTheorems, TLAPS

(* The lemmas about sequences; those about pointers are not used.          *)
General == INSTANCE Lemmas

Part     == Nat \X Nat
ChanType == [state : {"none", "open", "closed", "gone"}, in : Seq(Part), rd : Nat,
             rest : BOOLEAN, out : Seq(Nat),
             quiet : Nat, limit : Nat, closing : BOOLEAN, handler : {"none", "own", "push"}]
HttpType == [status : {"INITIAL", "HEADERPARSED", "SHUTDOWN"}, length : BOOLEAN]

DataTypes ==
  /\ plan \in Cases
  /\ sent \in [Conns -> Part]
  /\ wire \in [Conns -> Seq(Part)]
  /\ got \in [Conns -> Seq(Nat)]
  /\ chan \in [Conns -> ChanType]
  /\ http \in [Conns -> HttpType]

----------------------------------------------------------------------------
(* Data.  The parts are sent one after the other, and those that have not  *)
(* been dropped are received in that order.                                *)
Less(x, y)   == x[1] < y[1] \/ (x[1] = y[1] /\ x[2] < y[2])
AtMost(x, y) == x[1] < y[1] \/ (x[1] = y[1] /\ x[2] <= y[2])
Rising(q)    == \A i, j \in 1..Len(q) : i < j => Less(q[i], q[j])

PartOf(rs, x)      == x[1] \in 1..Len(rs) /\ x[2] \in 1..rs[x[1]].parts
Complete(rs, s, r) == r < s[1] \/ (r = s[1] /\ s[2] = rs[r].parts)

Flow(rs, s, w, q) ==
  /\ s = <<1, 0>> \/ PartOf(rs, s)
  /\ \A i \in 1..Len(w) : PartOf(rs, w[i]) /\ AtMost(w[i], s)
  /\ \A i \in 1..Len(q) : PartOf(rs, q[i]) /\ AtMost(q[i], s)
  /\ Rising(w) /\ Rising(q)
  /\ \A i \in 1..Len(q), j \in 1..Len(w) : Less(q[i], w[j])

(* What was answered has been sent, or denied when it had begun, and what  *)
(* follows belongs to later requests, or to the rest of what was denied.   *)
Begun(rs, s, r) == Complete(rs, s, r) \/ (rs[r].kind = "denied" /\ r = s[1] /\ s[2] > 0)
After(rs, r, x) == r < x[1] \/ (rs[r].kind = "denied" /\ r = x[1] /\ x[2] = 2)

InOrder(rs, s, w, c, g) ==
  /\ \A i, j \in 1..Len(g) : i < j => g[i] < g[j]
  /\ \A i \in 1..Len(g) :
       /\ Begun(rs, s, g[i])
       /\ \A j \in c.rd + 1..Len(c.in) : After(rs, g[i], c.in[j])
       /\ \A j \in 1..Len(w) : After(rs, g[i], w[j])

(* While a channel is open, only what the push handler wrote is unsent.    *)
Unsent(o) == o = <<>> \/ o = <<0>>

Buffers(p, c) ==
  /\ c.rd <= Len(c.in)
  /\ p.protocol # "ksxdr" => c.rd = 0
  /\ c.state \in {"none", "open"} => Unsent(c.out)
  /\ c.state = "none" => c.handler = "none"

(* A kshttp handler that has shut down itself read a header it could not   *)
(* parse, and the header that it has parsed is in the buffer.              *)
Spoilt(rs, s, w) ==
  \E r \in 1..Len(rs) :
    rs[r].kind = "bad" /\ Complete(rs, s, r) /\ \A j \in 1..Len(w) : r < w[j][1]
Parsed(rs, q) == q # <<>> /\ (rs[q[1][1]].kind = "post" \/ Len(q) >= rs[q[1][1]].parts)

Status(p, s, w, c, st) ==
  /\ p.protocol = "ksxdr" => st = "INITIAL"
  /\ c.state # "gone" /\ c.handler = "none" => st = "INITIAL"
  /\ c.state = "open" /\ c.handler = "own" /\ st = "SHUTDOWN" => Spoilt(p.requests, s, w)
  /\ c.state = "open" /\ c.handler = "own" /\ st = "HEADERPARSED" =>
       (c.in = <<>> /\ w = <<>>) \/ Parsed(p.requests, c.in)

Data(p, s, w, c, st, g) ==
  /\ Flow(p.requests, s, w, c.in)
  /\ InOrder(p.requests, s, w, c, g)
  /\ Buffers(p, c)
  /\ Status(p, s, w, c, st)

DataInv ==
  /\ DataTypes
  /\ \A k \in Conns : Data(plan[k], sent[k], wire[k], chan[k], http[k].status, got[k])

----------------------------------------------------------------------------
(* What the clients send.                                                  *)
Client(p) ==
  /\ Len(p.requests) \in Nat /\ DOMAIN p.requests = 1..Len(p.requests)
  /\ \A r \in 1..Len(p.requests) :
       /\ p.requests[r].parts \in 1..2
       /\ p.requests[r].frag \in BOOLEAN
       /\ p.requests[r].kind \in KindsOf(p.protocol)

LEMMA ClientsTyped ==
  ASSUME NEW c \in Cases, NEW k \in Conns
  PROVE  Client(c[k])
<1> DEFINE rs == c[k].requests
           R == [kind : KindsOf(c[k].protocol), parts : 1..2, frag : BOOLEAN]
<1>1. rs \in Seq(R)
  BY ConnectionsAssumption
<1> HIDE DEF R
<1>2. Len(rs) \in Nat /\ DOMAIN rs = 1..Len(rs) /\ \A r \in 1..Len(rs) : rs[r] \in R
  BY <1>1, LenProperties, ElementOfSeq
<1>3. \A q \in R : q.parts \in 1..2 /\ q.frag \in BOOLEAN /\ q.kind \in KindsOf(c[k].protocol)
  BY DEF R
<1> HIDE DEF rs
<1>4. \A r \in 1..Len(rs) :
        /\ rs[r].parts \in 1..2 /\ rs[r].frag \in BOOLEAN
        /\ rs[r].kind \in KindsOf(c[k].protocol)
  BY <1>1, <1>2, <1>3
<1> QED
  BY <1>2, <1>4 DEF Client, rs

(* A request of which all parts are there, from place i on, has been sent, *)
(* and what is behind it belongs to later requests.                        *)
LEMMA Whole ==
  ASSUME NEW p, Client(p), NEW s \in Part, NEW w, NEW q \in Seq(Part), Flow(p.requests, s, w, q),
         NEW i \in 1..Len(q), i + p.requests[q[i][1]].parts - 1 <= Len(q)
  PROVE  /\ q[i][1] \in 1..Len(p.requests)
         /\ Complete(p.requests, s, q[i][1])
         /\ \A j \in i + p.requests[q[i][1]].parts..Len(q) : q[i][1] < q[j][1]
<1> DEFINE rs == p.requests
           r == q[i][1]
           n == rs[r].parts
<1>1. /\ \A j \in 1..Len(q) : PartOf(rs, q[j]) /\ AtMost(q[j], s) /\ q[j] \in Part
      /\ Rising(q) /\ Len(q) \in Nat /\ Len(rs) \in Nat
      /\ s = <<1, 0>> \/ PartOf(rs, s)
  BY LenProperties, ElementOfSeq DEF Flow, Client
<1>2. /\ s[1] \in Nat /\ s[2] \in Nat
      /\ \A j \in 1..Len(q) : q[j][1] \in Nat /\ q[j][2] \in Nat
  BY <1>1 DEF Part
<1>3. r \in 1..Len(rs) /\ q[i][2] \in 1..n /\ n \in 1..2
  BY <1>1 DEF PartOf, Client
<1>4. \A j \in 1..Len(q) : q[j][1] = r => q[j][2] \in 1..n
  BY <1>1 DEF PartOf
<1>5. s[1] = r => s[2] \in 0..n
  BY <1>1, <1>3 DEF PartOf
<1>6. \A j \in i + n..Len(q) : r < q[j][1]
  <2> SUFFICES ASSUME NEW j \in i + n..Len(q)
               PROVE  r < q[j][1]
    OBVIOUS
  <2>1. CASE n = 1
    <3>1. Less(q[i], q[j])
      BY <1>1, <2>1 DEF Rising
    <3> QED
      BY <1>2, <1>3, <1>4, <2>1, <3>1 DEF Less
  <2>2. CASE n = 2
    <3>1. Less(q[i], q[i + 1]) /\ Less(q[i + 1], q[j])
      BY <1>1, <2>2 DEF Rising
    <3>2. i + 1 \in 1..Len(q) /\ j \in 1..Len(q)
      BY <1>1, <2>2
    <3>3. /\ q[i][1] < q[i + 1][1] \/ (q[i][1] = q[i + 1][1] /\ q[i][2] < q[i + 1][2])
          /\ q[i + 1][1] < q[j][1] \/ (q[i + 1][1] = q[j][1] /\ q[i + 1][2] < q[j][2])
      BY <3>1 DEF Less
    <3>4. /\ q[i + 1][1] \in Nat /\ q[i + 1][2] \in Nat /\ q[j][1] \in Nat /\ q[j][2] \in Nat
          /\ q[j][1] = r => q[j][2] \in 1..2
      BY <1>2, <1>4, <2>2, <3>2
    <3> DEFINE a1 == q[i][1]
               a2 == q[i][2]
               b1 == q[i + 1][1]
               b2 == q[i + 1][2]
               c1 == q[j][1]
               c2 == q[j][2]
    <3>5. /\ a1 < b1 \/ (a1 = b1 /\ a2 < b2)
          /\ b1 < c1 \/ (b1 = c1 /\ b2 < c2)
          /\ b1 \in Nat /\ b2 \in Nat /\ c1 \in Nat /\ c2 \in Nat
          /\ c1 = a1 => c2 \in 1..2
          /\ a1 \in Nat /\ a2 \in 1..2
      BY <1>2, <1>3, <2>2, <3>3, <3>4
    <3> HIDE DEF a1, a2, b1, b2, c1, c2
    <3>6. a1 < c1
      BY <3>5
    <3> QED
      BY <3>6 DEF a1, c1
  <2> QED
    BY <1>3, <2>1, <2>2
<1>7. Complete(rs, s, r)
  <2>1. CASE n = 1
    <3>1. AtMost(q[i], s)
      BY <1>1
    <3> QED
      BY <1>2, <1>3, <1>5, <2>1, <3>1 DEF AtMost, Complete
  <2>2. CASE n = 2
    <3>1. i + 1 \in 1..Len(q)
      BY <1>1, <2>2
    <3>2. Less(q[i], q[i + 1]) /\ AtMost(q[i + 1], s)
      BY <1>1, <3>1 DEF Rising
    <3>3. /\ q[i][1] < q[i + 1][1] \/ (q[i][1] = q[i + 1][1] /\ q[i][2] < q[i + 1][2])
          /\ q[i + 1][1] < s[1] \/ (q[i + 1][1] = s[1] /\ q[i + 1][2] <= s[2])
      BY <3>2 DEF Less, AtMost
    <3>4. q[i + 1][1] \in Nat /\ q[i + 1][2] \in Nat
      BY <1>2, <3>1
    <3> DEFINE a1 == q[i][1]
               a2 == q[i][2]
               b1 == q[i + 1][1]
               b2 == q[i + 1][2]
               c1 == s[1]
               c2 == s[2]
    <3>5. /\ a1 < b1 \/ (a1 = b1 /\ a2 < b2)
          /\ b1 < c1 \/ (b1 = c1 /\ b2 <= c2)
          /\ b1 \in Nat /\ b2 \in Nat /\ c1 \in Nat /\ c2 \in Nat
          /\ c1 = a1 => c2 \in 0..2
          /\ a1 \in Nat /\ a2 \in 1..2
      BY <1>2, <1>3, <1>5, <2>2, <3>3, <3>4
    <3> HIDE DEF a1, a2, b1, b2, c1, c2
    <3>6. a1 < c1 \/ (a1 = c1 /\ c2 = 2)
      BY <3>5
    <3> QED
      BY <2>2, <3>6 DEF a1, c1, c2, Complete
  <2> QED
    BY <1>3, <2>1, <2>2
<1> QED
  BY <1>3, <1>6, <1>7

NoParts(w) == w = <<>>

(* A part that is sent is behind all others.                               *)
Following(rs, s) ==
  IF s[2] < rs[s[1]].parts THEN <<s[1], s[2] + 1>> ELSE <<s[1] + 1, 1>>

LEMMA SentData ==
  ASSUME NEW p, Client(p), NEW s \in Part, NEW w \in Seq(Part), NEW c \in ChanType, NEW st,
         NEW g \in Seq(Nat), Data(p, s, w, c, st, g),
         NEW n, n = Following(p.requests, s), n[1] \in 1..Len(p.requests),
         st = "HEADERPARSED" => ~NoParts(c.in)
  PROVE  n \in Part /\ Data(p, n, Append(w, n), c, st, g)
<1> DEFINE rs == p.requests
           q == c.in
           v == Append(w, n)
<1>1. /\ s = <<1, 0>> \/ PartOf(rs, s)
      /\ \A i \in 1..Len(w) : PartOf(rs, w[i]) /\ AtMost(w[i], s)
      /\ \A i \in 1..Len(q) : PartOf(rs, q[i]) /\ AtMost(q[i], s)
      /\ Rising(w) /\ Rising(q)
      /\ \A i \in 1..Len(q), j \in 1..Len(w) : Less(q[i], w[j])
  BY DEF Data, Flow
<1>2. s[1] \in 1..Len(rs) /\ rs[s[1]].parts \in 1..2 /\ s[2] \in 0..rs[s[1]].parts
  <2>1. CASE PartOf(rs, s)
    BY <2>1 DEF PartOf, Client
  <2>2. CASE s = <<1, 0>>
    <3>1. n[1] \in {1, 2}
      BY <2>2 DEF Following
    <3>2. 1 \in 1..Len(rs)
      BY <3>1 DEF Client
    <3> QED
      BY <2>2, <3>2 DEF Client
  <2> QED
    BY <1>1, <2>1, <2>2
<1>3. /\ n \in Part /\ PartOf(rs, n) /\ Less(s, n)
      /\ \A r \in Nat : Complete(rs, s, r) => r < n[1]
      /\ \A r \in Nat : Begun(rs, s, r) => After(rs, r, n)
  <2>1. CASE s[2] < rs[s[1]].parts
    <3>1. n = <<s[1], s[2] + 1>>
      BY <2>1 DEF Following
    <3>2. n[1] = s[1] /\ n[2] = s[2] + 1 /\ s[1] \in Nat /\ s[2] \in Nat
      BY <1>2, <3>1
    <3>3. s[1] \in 1..Len(rs) /\ s[2] + 1 \in 1..rs[s[1]].parts
      <4> DEFINE m == rs[s[1]].parts
      <4>1. m \in 1..2 /\ s[2] < m /\ s[2] \in Nat
        BY <1>2, <2>1, <3>2
      <4> HIDE DEF m
      <4>2. s[2] + 1 \in 1..m
        BY <4>1
      <4> QED
        BY <1>2, <4>2 DEF m
    <3> HIDE DEF rs
    <3>4. n \in Part /\ PartOf(rs, n)
      BY <3>1, <3>2, <3>3 DEF Part, PartOf
    <3>5. Less(s, n)
      BY <3>2 DEF Less
    <3>6. \A r \in Nat : Complete(rs, s, r) => r < n[1]
      BY <2>1, <3>2 DEF Complete
    <3>7. \A r \in Nat : Begun(rs, s, r) => After(rs, r, n)
      <4>1. n[2] \in 1..2
        BY <1>2, <3>2, <3>3 DEF PartOf, rs
      <4> QED
        BY <3>2, <3>6, <4>1 DEF Begun, After
    <3> QED
      BY <3>4, <3>5, <3>6, <3>7
  <2>2. CASE ~(s[2] < rs[s[1]].parts)
    <3>1. n = <<s[1] + 1, 1>>
      BY <2>2 DEF Following
    <3>2. s[1] + 1 \in 1..Len(rs) /\ rs[s[1] + 1].parts \in 1..2
      BY <3>1 DEF Client
    <3>3. n[1] = s[1] + 1 /\ n[2] = 1 /\ s[1] \in Nat
      BY <1>2, <3>1
    <3> HIDE DEF rs
    <3>4. n \in Part /\ PartOf(rs, n)
      BY <3>1, <3>2, <3>3 DEF Part, PartOf
    <3>5. Less(s, n)
      BY <3>3 DEF Less
    <3>6. \A r \in Nat : Complete(rs, s, r) => r < n[1]
      BY <3>3 DEF Complete
    <3>7. \A r \in Nat : Begun(rs, s, r) => After(rs, r, n)
      BY <3>3, <3>6 DEF Begun, After
    <3> QED
      BY <3>4, <3>5, <3>6, <3>7
  <2> QED
    BY <2>1, <2>2
<1>4. /\ v \in Seq(Part) /\ Len(v) = Len(w) + 1 /\ v[Len(w) + 1] = n /\ Len(w) \in Nat
      /\ \A i \in 1..Len(w) : v[i] = w[i]
  BY <1>3, AppendProperties, LenProperties
<1>5. /\ q \in Seq(Part) /\ Len(q) \in Nat
      /\ \A i \in 1..Len(q) : q[i] \in Part
      /\ \A i \in 1..Len(w) : w[i] \in Part
  BY LenProperties, ElementOfSeq DEF ChanType
<1>6. \A x \in Part : AtMost(x, s) => Less(x, n) /\ AtMost(x, n)
  BY <1>3 DEF AtMost, Less, Part
<1>7. AtMost(n, n)
  BY <1>3 DEF AtMost, Part
<1> HIDE DEF rs, q, v
<1>8. Flow(rs, n, v, q)
  <2>1. \A i \in 1..Len(v) : i <= Len(w) \/ i = Len(w) + 1
    BY <1>4
  <2>2. \A i \in 1..Len(v) : PartOf(rs, v[i]) /\ AtMost(v[i], n)
    BY <1>1, <1>3, <1>4, <1>5, <1>6, <1>7, <2>1
  <2>3. \A i \in 1..Len(q) : PartOf(rs, q[i]) /\ AtMost(q[i], n)
    BY <1>1, <1>5, <1>6
  <2>4. Rising(v)
    <3> SUFFICES ASSUME NEW i \in 1..Len(v), NEW j \in 1..Len(v), i < j
                 PROVE  Less(v[i], v[j])
      BY DEF Rising
    <3>1. i \in 1..Len(w) /\ v[i] = w[i]
      BY <1>4
    <3>2. CASE j \in 1..Len(w)
      BY <1>1, <1>4, <3>1, <3>2 DEF Rising
    <3>3. CASE j = Len(w) + 1
      <4>1. v[j] = n /\ Less(w[i], n)
        BY <1>1, <1>4, <1>5, <1>6, <3>1, <3>3
      <4> QED
        BY <3>1, <4>1
    <3>4. j \in 1..Len(w) \/ j = Len(w) + 1
      BY <1>4
    <3> QED
      BY <3>2, <3>3, <3>4
  <2>5. \A i \in 1..Len(q), j \in 1..Len(v) : Less(q[i], v[j])
    BY <1>1, <1>4, <1>5, <1>6, <2>1
  <2> QED
    BY <1>1, <1>3, <2>2, <2>3, <2>4, <2>5 DEF Flow
<1>9. InOrder(rs, n, v, c, g)
  <2>1. \A i \in 1..Len(g) : g[i] \in Nat
    BY ElementOfSeq
  <2>2. InOrder(rs, s, w, c, g)
    BY DEF Data, rs
  <2>3. \A i \in 1..Len(g) : Begun(rs, s, g[i]) /\ After(rs, g[i], n)
    BY <1>3, <2>1, <2>2 DEF InOrder
  <2>4. \A i \in 1..Len(g) : Begun(rs, n, g[i])
    BY <2>3 DEF Begun, Complete, After
  <2>5. \A j \in 1..Len(v) : (j \in 1..Len(w) /\ v[j] = w[j]) \/ v[j] = n
    BY <1>4
  <2>6. \A i \in 1..Len(g), j \in 1..Len(w) : After(rs, g[i], w[j])
    BY <2>2 DEF InOrder
  <2>7. \A i \in 1..Len(g), j \in 1..Len(v) : After(rs, g[i], v[j])
    BY <2>3, <2>5, <2>6
  <2> QED
    BY <2>2, <2>4, <2>7 DEF InOrder
<1>10. Status(p, n, v, c, st)
  <2>1. Status(p, s, w, c, st)
    BY DEF Data
  <2>2. ASSUME Spoilt(rs, s, w)
        PROVE  Spoilt(rs, n, v)
    <3>1. PICK r \in 1..Len(rs) :
            rs[r].kind = "bad" /\ Complete(rs, s, r) /\ \A j \in 1..Len(w) : r < w[j][1]
      BY <2>2 DEF Spoilt
    <3>2. r < n[1]
      BY <1>3, <3>1
    <3>3. Complete(rs, n, r)
      BY <3>2 DEF Complete
    <3>4. \A j \in 1..Len(v) : (j \in 1..Len(w) /\ v[j] = w[j]) \/ v[j] = n
      BY <1>4
    <3>5. \A j \in 1..Len(v) : r < v[j][1]
      BY <3>1, <3>2, <3>4
    <3> QED
      BY <3>1, <3>3, <3>5 DEF Spoilt
  <2> QED
    BY <2>1, <2>2 DEF Status, NoParts, rs
<1> QED
  BY <1>3, <1>8, <1>9, <1>10 DEF Data, rs, q, v

(* Parts on their way are lost.                                            *)
LEMMA EmptyFlow ==
  /\ Len(<<>>) = 0 /\ <<>> \in Seq(Part)
  /\ \A i \in 1..Len(<<>>) : FALSE
  /\ Rising(<<>>)
<1>1. Len(<<>>) = 0 /\ <<>> \in Seq(Part)
  BY EmptySeq
<1> DEFINE q == <<>>
<1> HIDE DEF q
<1>2. Len(q) = 0
  BY <1>1 DEF q
<1>3. \A i \in 1..Len(q) : FALSE
  BY <1>2
<1>4. Rising(q)
  BY <1>3 DEF Rising
<1> QED
  BY <1>1, <1>3, <1>4 DEF q

LEMMA DroppedData ==
  ASSUME NEW p, NEW s, NEW w, NEW c, NEW st, NEW g, Data(p, s, w, c, st, g)
  PROVE  Data(p, s, <<>>, c, st, g)
<1> DEFINE v == <<>>
<1>1. (\A i \in 1..Len(v) : FALSE) /\ Rising(v)
  BY EmptyFlow
<1>2. v = <<>>
  OBVIOUS
<1> HIDE DEF v
<1>3. Flow(p.requests, s, v, c.in)
  BY <1>1 DEF Data, Flow
<1>4. InOrder(p.requests, s, v, c, g)
  BY <1>1 DEF Data, InOrder
<1>5. Status(p, s, v, c, st)
  BY <1>1, <1>2 DEF Data, Status, Spoilt
<1>6. Data(p, s, v, c, st, g)
  BY <1>3, <1>4, <1>5 DEF Data
<1> QED
  BY <1>6 DEF v

(* A channel whose buffer is freed.                                        *)
LEMMA FreedData ==
  ASSUME NEW p, NEW s, NEW w, NEW c, NEW st, NEW g, Data(p, s, w, c, st, g),
         NEW d, d.in = <<>>, d.rd = 0, d.handler = c.handler \/ d.state = "gone",
         c.state # "none", d.state = c.state \/ d.state \in {"closed", "gone"}, c.state = "gone" => d.state = "gone",
         d.state = "open" => w = <<>> /\ (Unsent(d.out))
  PROVE  Data(p, s, w, d, st, g)
<1> DEFINE v == <<>>
<1>1. (\A i \in 1..Len(v) : FALSE) /\ Rising(v) /\ Len(v) = 0
  BY EmptyFlow
<1>2. v = d.in
  OBVIOUS
<1>3. 0 + 1..0 = {}
  OBVIOUS
<1> HIDE DEF v
<1>4. Flow(p.requests, s, w, v)
  BY <1>1 DEF Data, Flow
<1>5. InOrder(p.requests, s, w, d, g)
  <2>1. d.rd + 1..Len(d.in) = {}
    BY <1>1, <1>2, <1>3
  <2> QED
    BY <2>1 DEF Data, InOrder
<1>6. Buffers(p, d)
  BY <1>1, <1>2 DEF Data, Buffers
<1>7. Status(p, s, w, d, st)
  <2>1. Status(p, s, w, c, st)
    BY DEF Data
  <2> QED
    BY <2>1 DEF Status
<1> QED
  BY <1>2, <1>4, <1>5, <1>6, <1>7 DEF Data

(* What concerns neither the buffer nor the handler.                       *)
LEMMA SameData ==
  ASSUME NEW p, NEW s, NEW w, NEW c, NEW st, NEW g, Data(p, s, w, c, st, g),
         NEW d, d.in = c.in, d.rd = c.rd, d.handler = c.handler,
         c.state # "gone", d.state \in {"open", "closed"},
         d.state = "open" => Unsent(d.out),
         c.state = "open" \/ d.state = "closed" \/ c.handler = "none"
  PROVE  Data(p, s, w, d, st, g)
<1>1. InOrder(p.requests, s, w, d, g) /\ Flow(p.requests, s, w, d.in)
  BY DEF Data, InOrder
<1>2. Buffers(p, d)
  BY DEF Data, Buffers
<1>3. Status(p, s, w, d, st)
  <2>1. Status(p, s, w, c, st)
    BY DEF Data
  <2> QED
    BY <2>1 DEF Status
<1> QED
  BY <1>1, <1>2, <1>3 DEF Data

----------------------------------------------------------------------------
(* Answers.  What the push handler writes is none.                         *)
LEMMA RemoveFirstSame ==
  ASSUME NEW o, NEW e
  PROVE  RemoveFirst(o, e) = General!RemoveFirst(o, e)
BY DEF RemoveFirst, RemoveAt, SelectInSeq, Min, General!RemoveFirst, General!RemoveAt, General!SelectInSeq, General!Min

LEMMA AppendedToOne ==
  ASSUME NEW o \in Seq(Nat), NEW r \in Nat
  PROVE  Len(o) = 1 =>
           /\ Append(o, r) \in Seq(Nat) /\ Len(Append(o, r)) = 2
           /\ Append(o, r)[1] = o[1] /\ Append(o, r)[2] = r
<1> DEFINE t == Append(o, r)
<1>1. /\ t \in Seq(Nat) /\ Len(t) = Len(o) + 1
      /\ \A i \in 1..Len(o) : t[i] = o[i]
      /\ t[Len(o) + 1] = r
  BY AppendProperties
<1> HIDE DEF t
<1>2. Len(o) = 1 => Len(t) = 2 /\ t[1] = o[1] /\ t[2] = r
  BY <1>1
<1> QED
  BY <1>1, <1>2 DEF t

LEMMA SentAnswers ==
  ASSUME NEW o, Unsent(o)
  PROVE  /\ o \in Seq(Nat)
         /\ RemoveFirst(o, 0) = <<>>
         /\ \A r \in Nat \ {0} : Append(o, r) \in Seq(Nat) /\ RemoveFirst(Append(o, r), 0) = <<r>>
<1>1. CASE o = <<>>
  <2>1. o \in Seq(Nat) /\ Len(o) = 0
    BY <1>1, EmptySeq
  <2>2. RemoveFirst(o, 0) = <<>>
    BY <1>1, <2>1 DEF RemoveFirst
  <2>3. ASSUME NEW r \in Nat \ {0}
        PROVE  Append(o, r) \in Seq(Nat) /\ RemoveFirst(Append(o, r), 0) = <<r>>
    <3> DEFINE t == Append(o, r)
    <3>1. t \in Seq(Nat) /\ Len(t) = 1 /\ t[1] = r
      BY <2>1, AppendProperties
    <3>2. t = <<r>>
      <4> DEFINE u == <<r>>
      <4>1. u \in Seq(Nat) /\ Len(u) = 1 /\ u[1] = r
        OBVIOUS
      <4> HIDE DEF t, u
      <4>2. t = u
        BY <3>1, <4>1, SeqEqual
      <4> QED
        BY <4>2 DEF u
    <3> HIDE DEF t
    <3>3. RemoveFirst(t, 0) = t
      BY <3>1 DEF RemoveFirst
    <3> QED
      BY <3>1, <3>2, <3>3 DEF t
  <2> QED
    BY <2>1, <2>2, <2>3
<1>2. CASE o = <<0>>
  <2>1. o \in Seq(Nat) /\ Len(o) = 1 /\ o[1] = 0
    BY <1>2
  <2> DEFINE u == RemoveFirst(o, 0)
  <2>2. u \in Seq(Nat) /\ \E i \in 1..Len(o) : o[i] = 0 /\ u = General!RemoveAt(o, i)
    <3>1. General!Contains(o, 0)
      BY <2>1 DEF General!Contains
    <3>2. /\ General!RemoveFirst(o, 0) \in Seq(Nat)
          /\ \E i \in 1..Len(o) : o[i] = 0 /\ General!RemoveFirst(o, 0) = General!RemoveAt(o, i)
      BY <2>1, <3>1, General!RemoveFirstProperties
    <3> QED
      BY <3>2, RemoveFirstSame
  <2>3. u = General!RemoveAt(o, 1)
    BY <2>1, <2>2
  <2>4. Len(u) = 0
    <3>1. 1 \in 1..Len(o)
      BY <2>1
    <3>2. Len(General!RemoveAt(o, 1)) = Len(o) - 1
      BY <2>1, <3>1, General!RemoveAtProperties
    <3> QED
      BY <2>1, <2>3, <3>2
  <2>5. u = <<>>
    <3> HIDE DEF u
    <3> QED
      BY <2>2, <2>4, EmptySeq
  <2>6. ASSUME NEW r \in Nat \ {0}
        PROVE  Append(o, r) \in Seq(Nat) /\ RemoveFirst(Append(o, r), 0) = <<r>>
    <3> DEFINE t == Append(o, r)
               v == RemoveFirst(t, 0)
    <3>1. t \in Seq(Nat) /\ Len(t) = 2 /\ t[1] = 0 /\ t[2] = r
      BY <2>1, AppendedToOne
    <3> HIDE DEF t
    <3>2. v \in Seq(Nat) /\ \E i \in 1..Len(t) : t[i] = 0 /\ v = General!RemoveAt(t, i)
      <4>1. General!Contains(t, 0)
        BY <3>1 DEF General!Contains
      <4>2. /\ General!RemoveFirst(t, 0) \in Seq(Nat)
            /\ \E i \in 1..Len(t) : t[i] = 0 /\ General!RemoveFirst(t, 0) = General!RemoveAt(t, i)
        BY <3>1, <4>1, General!RemoveFirstProperties
      <4> QED
        BY <4>2, RemoveFirstSame
    <3>3. v = General!RemoveAt(t, 1)
      <4>1. PICK i \in 1..Len(t) : t[i] = 0 /\ v = General!RemoveAt(t, i)
        BY <3>2
      <4>2. i = 1
        BY <3>1, <4>1
      <4> QED
        BY <4>1, <4>2
    <3>4. Len(v) = 1 /\ v[1] = r
      <4> DEFINE x == General!RemoveAt(t, 1)
      <4>1. 1 \in 1..Len(t)
        BY <3>1
      <4>2. Len(x) = Len(t) - 1 /\ \A j \in 1..Len(t) - 1 : x[j] = IF j < 1 THEN t[j] ELSE t[j + 1]
        BY <3>1, <4>1, General!RemoveAtProperties
      <4> HIDE DEF x
      <4>3. Len(x) = 1 /\ x[1] = r
        BY <3>1, <4>2
      <4> QED
        BY <3>3, <4>3 DEF x
    <3>5. v = <<r>>
      <4> DEFINE x == <<r>>
      <4>1. x \in Seq(Nat) /\ Len(x) = 1 /\ x[1] = r
        OBVIOUS
      <4> HIDE DEF v, x
      <4>2. v = x
        BY <3>2, <3>4, <4>1, SeqEqual
      <4> QED
        BY <4>2 DEF x
    <3> QED
      BY <3>1, <3>5 DEF t
  <2> QED
    BY <2>1, <2>5, <2>6
<1> QED
  BY <1>1, <1>2 DEF Unsent

(* What is left in the buffer was in it before.                            *)
LEMMA LeftInOrder ==
  ASSUME NEW rs, NEW s, NEW w, NEW c, NEW g \in Seq(Nat), InOrder(rs, s, w, c, g), NEW d,
         \A j \in d.rd + 1..Len(d.in) : \E m \in c.rd + 1..Len(c.in) : d.in[j] = c.in[m]
  PROVE  InOrder(rs, s, w, d, g) /\ g \o <<>> = g
<1>1. g \o <<>> = g
  BY ConcatEmptySeq
<1> QED
  BY <1>1 DEF InOrder

(* What is left in the buffer d belongs to later requests than r.          *)
Behind(rs, c, d, r) ==
  \A j \in d.rd + 1..Len(d.in) :
     \E m \in c.rd + 1..Len(c.in) : d.in[j] = c.in[m] /\ After(rs, r, c.in[m])

(* The part x is not the rest of what was denied.                          *)
Beginning(rs, x) == x[2] = 1 \/ rs[x[1]].kind # "denied"

(* The first request in the buffer is answered.                            *)
LEMMA AnswerInOrder ==
  ASSUME NEW rs, NEW s, NEW w, NoParts(w), NEW c, c.rd \in Nat, Len(c.in) \in Nat, c.rd < Len(c.in),
         NEW g \in Seq(Nat), InOrder(rs, s, w, c, g),
         NEW r \in Nat, r = c.in[c.rd + 1][1], Beginning(rs, c.in[c.rd + 1]), Begun(rs, s, r),
         NEW d, Behind(rs, c, d, r)
  PROVE  InOrder(rs, s, w, d, g \o <<r>>) /\ g \o <<r>> \in Seq(Nat)
<1> DEFINE h == g \o <<r>>
           u == <<r>>
<1>1. u \in Seq(Nat) /\ Len(u) = 1 /\ u[1] = r
  OBVIOUS
<1>2. Len(g) \in Nat /\ \A i \in 1..Len(g) : g[i] \in Nat
  BY LenProperties, ElementOfSeq
<1>3. /\ h \in Seq(Nat) /\ Len(h) = Len(g) + 1
      /\ \A i \in 1..Len(g) + 1 : h[i] = IF i <= Len(g) THEN g[i] ELSE r
  <2> HIDE DEF u
  <2>1. /\ g \o u \in Seq(Nat) /\ Len(g \o u) = Len(g) + Len(u)
        /\ \A i \in 1..Len(g) + Len(u) : (g \o u)[i] = IF i <= Len(g) THEN g[i] ELSE u[i - Len(g)]
    BY <1>1, ConcatProperties
  <2> DEFINE v == g \o u
  <2>2. h = v
    BY DEF u
  <2> HIDE DEF h, v
  <2>3. \A i \in 1..Len(g) + 1 : i <= Len(g) \/ i - Len(g) = 1
    BY <1>2
  <2>4. Len(g) + Len(u) = Len(g) + 1
    BY <1>1
  <2>5. \A i \in 1..Len(g) + 1 : v[i] = IF i <= Len(g) THEN g[i] ELSE u[i - Len(g)]
    BY <2>1, <2>4 DEF v
  <2> QED
    BY <1>1, <2>1, <2>2, <2>3, <2>4, <2>5 DEF v
<1> HIDE DEF h, u
<1>4. \A i \in 1..Len(g) : g[i] < r
  <2>1. c.rd + 1 \in c.rd + 1..Len(c.in)
    OBVIOUS
  <2>2. \A i \in 1..Len(g) : After(rs, g[i], c.in[c.rd + 1])
    BY <2>1 DEF InOrder
  <2> SUFFICES ASSUME NEW i \in 1..Len(g)
               PROVE  g[i] < r
    OBVIOUS
  <2> DEFINE x == c.in[c.rd + 1]
             y == g[i]
  <2>3. After(rs, y, x) /\ Beginning(rs, x) /\ r = x[1]
    BY <2>2
  <2> HIDE DEF x, y
  <2>4. y < r
    BY <2>3 DEF After, Beginning
  <2> QED
    BY <2>4 DEF y
<1>5. \A i \in 1..Len(h) : (i \in 1..Len(g) /\ h[i] = g[i]) \/ (i = Len(g) + 1 /\ h[i] = r)
  BY <1>2, <1>3
<1>6. \A i, j \in 1..Len(h) : i < j => h[i] < h[j]
  <2> SUFFICES ASSUME NEW i \in 1..Len(h), NEW j \in 1..Len(h), i < j
               PROVE  h[i] < h[j]
    OBVIOUS
  <2>1. i \in 1..Len(g) /\ h[i] = g[i]
    BY <1>2, <1>3, <1>5
  <2>2. CASE j \in 1..Len(g) /\ h[j] = g[j]
    BY <2>1, <2>2 DEF InOrder
  <2>3. CASE h[j] = r
    BY <1>4, <2>1, <2>3
  <2> QED
    BY <1>5, <2>2, <2>3
<1>7. \A i \in 1..Len(h) : Begun(rs, s, h[i])
  <2>1. \A i \in 1..Len(g) : Begun(rs, s, g[i])
    BY DEF InOrder
  <2> QED
    BY <1>5, <2>1
<1>8. \A i \in 1..Len(h), j \in d.rd + 1..Len(d.in) : After(rs, h[i], d.in[j])
  <2> SUFFICES ASSUME NEW i \in 1..Len(h), NEW j \in d.rd + 1..Len(d.in)
               PROVE  After(rs, h[i], d.in[j])
    OBVIOUS
  <2>1. PICK m \in c.rd + 1..Len(c.in) : d.in[j] = c.in[m] /\ After(rs, r, c.in[m])
    BY DEF Behind
  <2>2. CASE h[i] = r
    BY <2>1, <2>2
  <2>3. CASE i \in 1..Len(g) /\ h[i] = g[i]
    <3>1. After(rs, g[i], c.in[m])
      BY <2>3 DEF InOrder
    <3> QED
      BY <2>1, <2>3, <3>1
  <2> QED
    BY <1>5, <2>2, <2>3
<1>9. \A j \in 1..Len(w) : FALSE
  BY EmptyFlow DEF NoParts
<1>10. InOrder(rs, s, w, d, h)
  BY <1>6, <1>7, <1>8, <1>9 DEF InOrder
<1> QED
  BY <1>3, <1>10 DEF h

(* What a handler finds when it is called, and what it leaves: with the    *)
(* answer that it gave, if any, everything is in order.                    *)
Passed(rs, s) == \E r \in 1..Len(rs) : rs[r].kind = "bad" /\ r < s[1]

Found(p, s, w, e, st, g) ==
  /\ e \in ChanType
  /\ Flow(p.requests, s, w, e.in)
  /\ InOrder(p.requests, s, w, e, g)
  /\ e.rd < Len(e.in)
  /\ p.protocol # "ksxdr" => e.rd = 0
  /\ e.state \in {"open", "closed"}
  /\ Unsent(e.out)
  /\ e.handler \in {"own", "push"}
  /\ p.protocol = "ksxdr" => st = "INITIAL"
  /\ e.handler = "own" /\ st = "SHUTDOWN" => Passed(p.requests, s)
  /\ e.handler = "own" /\ st = "HEADERPARSED" => Parsed(p.requests, e.in)

Ordered(p, s, w, c, g) ==
  /\ Flow(p.requests, s, w, c.in) /\ c.rd <= Len(c.in)
  /\ InOrder(p.requests, s, w, c, g)

Answers(p, s, w, c, g) ==
  /\ Ordered(p, s, w, c, g)
  /\ g \o RemoveFirst(c.out, 0) \in Seq(Nat)
  /\ InOrder(p.requests, s, w, c, g \o RemoveFirst(c.out, 0))

Left(p, s, w, e, d, g) ==
  /\ d.c \in ChanType /\ d.h \in HttpType
  /\ d.c.state = e.state /\ d.c.handler \in {"own", "push"}
  /\ Ordered(p, s, w, d.c, g)
  /\ p.protocol # "ksxdr" => d.c.rd = 0
  /\ d.effect = "failed" => d.c.out = <<>>
  /\ d.effect # "failed" => Answers(p, s, w, d.c, g)
  /\ p.protocol = "ksxdr" => d.h.status = "INITIAL"
  /\ d.c.handler = "own" /\ ~d.c.closing =>
       /\ d.h.status = "SHUTDOWN" => Spoilt(p.requests, s, w)
       /\ d.h.status = "HEADERPARSED" => Parsed(p.requests, d.c.in)

(* A channel whose buffer is as it was, or is freed, or of which a whole   *)
(* message is read.                                                        *)
LEMMA Unread ==
  ASSUME NEW p, NEW s, NEW w, NEW e, NEW g \in Seq(Nat), e \in ChanType,
         Flow(p.requests, s, w, e.in), InOrder(p.requests, s, w, e, g), e.rd <= Len(e.in),
         Unsent(e.out),
         NEW d, d.in = e.in /\ d.rd = e.rd, d.out = e.out
  PROVE  Answers(p, s, w, d, g)
<1>1. RemoveFirst(d.out, 0) = <<>>
  BY SentAnswers
<1>2. g \o <<>> = g
  BY ConcatEmptySeq
<1>3. InOrder(p.requests, s, w, d, g)
  BY DEF InOrder
<1>4. Flow(p.requests, s, w, d.in) /\ d.rd <= Len(d.in)
  OBVIOUS
<1> QED
  BY <1>1, <1>2, <1>3, <1>4 DEF Answers, Ordered

LEMMA FreedBuffer ==
  ASSUME NEW rs, NEW s, NEW w, NEW q, Flow(rs, s, w, q), NEW d, d.in = <<>>, d.rd = 0
  PROVE  /\ Flow(rs, s, w, d.in) /\ d.rd <= Len(d.in)
         /\ d.rd + 1..Len(d.in) = {}
<1> DEFINE v == <<>>
<1>1. (\A i \in 1..Len(v) : FALSE) /\ Rising(v) /\ Len(v) = 0
  BY EmptyFlow
<1>2. v = d.in
  OBVIOUS
<1> HIDE DEF v
<1>3. Flow(rs, s, w, v)
  BY <1>1 DEF Flow
<1> QED
  BY <1>1, <1>2, <1>3

(* What reading n parts makes of the buffer of e.                          *)
ReadOn(e, d, n) ==
  \/ d.in = <<>> /\ d.rd = 0
  \/ d.in = e.in /\ d.rd = e.rd + n

Wrote(p, e, d, r, n) ==
  /\ r = e.in[e.rd + 1][1] /\ n = p.requests[r].parts
  /\ e.rd + n <= Len(e.in)
  /\ d.out = Append(e.out, r)
  /\ ReadOn(e, d, n)

LEMMA Answering ==
  ASSUME NEW p, Client(p), NEW s \in Part, NEW w, NoParts(w), NEW e \in ChanType, NEW g \in Seq(Nat),
         Flow(p.requests, s, w, e.in), InOrder(p.requests, s, w, e, g), e.rd < Len(e.in),
         Unsent(e.out), NEW d, NEW r, NEW n, Wrote(p, e, d, r, n),
         Beginning(p.requests, e.in[e.rd + 1])
  PROVE  Answers(p, s, w, d, g)
<1> DEFINE rs == p.requests
           i == e.rd + 1
<1>1. e.in \in Seq(Part) /\ e.rd \in Nat /\ Len(e.in) \in Nat /\ i \in 1..Len(e.in)
  BY LenProperties DEF ChanType
<1>2. PartOf(rs, e.in[i]) /\ Len(rs) \in Nat /\ \A x \in 1..Len(rs) : rs[x].parts \in 1..2
  BY <1>1 DEF Flow, Client
<1>3. /\ r = e.in[i][1] /\ n = rs[r].parts /\ e.rd + n <= Len(e.in)
      /\ d.out = Append(e.out, r) /\ ReadOn(e, d, n)
  BY DEF Wrote
<1>4. r \in 1..Len(rs) /\ n \in 1..2 /\ r \in Nat \ {0} /\ r \in Nat /\ n \in Nat
  <2> HIDE DEF rs, i
  <2>1. r \in 1..Len(rs)
    BY <1>2, <1>3 DEF PartOf
  <2>2. n \in 1..2
    BY <1>2, <1>3, <2>1
  <2> QED
    BY <1>2, <2>1, <2>2
<1>5. /\ Complete(rs, s, r)
      /\ \A j \in i + n..Len(e.in) : r < e.in[j][1]
  <2>1. e.in[i][1] = r /\ rs[e.in[i][1]].parts = n
    BY <1>3
  <2>2. i + n - 1 <= Len(e.in)
    <3> DEFINE x == e.rd
               y == Len(e.in)
    <3>1. i = x + 1 /\ x + n <= y /\ x \in Nat /\ y \in Nat /\ n \in Nat
      BY <1>1, <1>3, <1>4
    <3> HIDE DEF x, y, i
    <3>2. i + n - 1 <= y
      BY <3>1
    <3> QED
      BY <3>2 DEF y
  <2> HIDE DEF i
  <2>3. i + rs[e.in[i][1]].parts - 1 <= Len(e.in)
    BY <2>1, <2>2
  <2>4. /\ Complete(p.requests, s, e.in[i][1])
        /\ \A j \in i + p.requests[e.in[i][1]].parts..Len(e.in) : e.in[i][1] < e.in[j][1]
    BY <1>1, <2>3, Whole
  <2> QED
    BY <2>1, <2>4
<1>6. RemoveFirst(d.out, 0) = <<r>>
  BY <1>3, <1>4, SentAnswers
<1> HIDE DEF rs
<1>7. Flow(rs, s, w, d.in) /\ d.rd <= Len(d.in) /\ Behind(rs, e, d, r)
  <2>1. CASE d.in = <<>> /\ d.rd = 0
    <3>1. /\ Flow(rs, s, w, d.in) /\ d.rd <= Len(d.in)
          /\ d.rd + 1..Len(d.in) = {}
      BY <2>1, FreedBuffer DEF rs
    <3> QED
      BY <3>1 DEF Behind
  <2>2. CASE d.in = e.in /\ d.rd = e.rd + n
    <3>2. ASSUME NEW j \in d.rd + 1..Len(d.in)
          PROVE  \E m \in e.rd + 1..Len(e.in) : d.in[j] = e.in[m] /\ After(rs, r, e.in[m])
      <4>1. j \in e.rd + 1..Len(e.in) /\ j \in i + n..Len(e.in) /\ d.in[j] = e.in[j]
        BY <1>1, <1>4, <2>2
      <4>2. After(rs, r, e.in[j])
        BY <1>5, <4>1 DEF After
      <4> QED
        BY <4>1, <4>2
    <3>3. Flow(rs, s, w, d.in) /\ d.rd <= Len(d.in)
      BY <1>3, <2>2 DEF rs
    <3> QED
      BY <3>2, <3>3 DEF Behind
  <2> QED
    BY <1>3, <2>1, <2>2 DEF ReadOn
<1>8. InOrder(rs, s, w, e, g)
  BY DEF rs
<1>9. InOrder(rs, s, w, d, g)
  BY <1>7, <1>8, LeftInOrder DEF Behind
<1>10. InOrder(rs, s, w, d, g \o <<r>>) /\ g \o <<r>> \in Seq(Nat)
  <2>1. Begun(rs, s, r)
    BY <1>5 DEF Begun
  <2>2. Beginning(rs, e.in[e.rd + 1])
    BY DEF rs
  <2> QED
    BY <1>1, <1>3, <1>4, <1>7, <1>8, <2>1, <2>2, AnswerInOrder
<1> QED
  BY <1>6, <1>7, <1>9, <1>10 DEF rs, Answers, Ordered

(* What is denied when its header is read.                                 *)
Refused(p, e, d, r) ==
  /\ r = e.in[e.rd + 1][1] /\ e.in[e.rd + 1][2] = 1 /\ p.requests[r].kind = "denied"
  /\ d.out = Append(e.out, r) /\ d.in = e.in /\ d.rd = e.rd + 1

LEMMA Refusing ==
  ASSUME NEW p, Client(p), NEW s \in Part, NEW w, NoParts(w), NEW e \in ChanType, NEW g \in Seq(Nat),
         Flow(p.requests, s, w, e.in), InOrder(p.requests, s, w, e, g), e.rd < Len(e.in),
         Unsent(e.out), NEW d, NEW r, Refused(p, e, d, r)
  PROVE  Answers(p, s, w, d, g)
<1> DEFINE rs == p.requests
           i == e.rd + 1
<1>1. e.in \in Seq(Part) /\ e.rd \in Nat /\ Len(e.in) \in Nat /\ i \in 1..Len(e.in)
  BY LenProperties DEF ChanType
<1>2. /\ \A j \in 1..Len(e.in) : PartOf(rs, e.in[j]) /\ AtMost(e.in[j], s) /\ e.in[j] \in Part
      /\ Rising(e.in) /\ Len(rs) \in Nat /\ \A x \in 1..Len(rs) : rs[x].parts \in 1..2
      /\ s[1] \in Nat /\ s[2] \in Nat
  BY <1>1, ElementOfSeq DEF Flow, Client, Part
<1>3. /\ r = e.in[i][1] /\ e.in[i][2] = 1 /\ rs[r].kind = "denied"
      /\ d.out = Append(e.out, r) /\ d.in = e.in /\ d.rd = e.rd + 1
  BY DEF Refused
<1> HIDE DEF rs
<1>4. r \in 1..Len(rs) /\ r \in Nat \ {0} /\ r \in Nat
  BY <1>1, <1>2, <1>3 DEF PartOf
<1>5. Begun(rs, s, r)
  <2>1. AtMost(e.in[i], s)
    BY <1>1, <1>2
  <2> QED
    BY <1>2, <1>3, <1>4, <2>1 DEF AtMost, Begun, Complete
<1>6. ASSUME NEW j \in d.rd + 1..Len(d.in)
      PROVE  d.in[j] = e.in[j] /\ j \in e.rd + 1..Len(e.in) /\ After(rs, r, e.in[j])
  <2>1. j \in 1..Len(e.in) /\ i < j /\ j \in e.rd + 1..Len(e.in) /\ d.in[j] = e.in[j]
    BY <1>1, <1>3
  <2>2. Less(e.in[i], e.in[j]) /\ PartOf(rs, e.in[j]) /\ e.in[j] \in Part
    BY <1>1, <1>2, <2>1 DEF Rising
  <2> DEFINE x == e.in[i]
             y == e.in[j]
  <2>3. /\ x[1] = r /\ x[2] = 1 /\ Less(x, y) /\ y \in Part /\ PartOf(rs, y)
        /\ \A z \in 1..Len(rs) : rs[z].parts \in 1..2
    BY <1>2, <1>3, <2>2
  <2> HIDE DEF x, y, i
  <2>4. /\ y[1] \in Nat /\ y[2] \in 1..2
        /\ r < y[1] \/ (r = y[1] /\ 1 < y[2])
    <3>1. y[1] \in Nat /\ y[1] \in 1..Len(rs) /\ y[2] \in 1..rs[y[1]].parts
      BY <2>3 DEF PartOf, Part
    <3>2. y[2] \in 1..2
      <4> DEFINE m == rs[y[1]].parts
      <4>1. m \in 1..2 /\ y[2] \in 1..m
        BY <2>3, <3>1
      <4> HIDE DEF m
      <4> QED
        BY <4>1
    <3>3. r < y[1] \/ (r = y[1] /\ 1 < y[2])
      BY <2>3 DEF Less
    <3> QED
      BY <3>1, <3>2, <3>3
  <2>5. After(rs, r, y)
    BY <1>3, <2>4 DEF After
  <2> QED
    BY <2>1, <2>5 DEF y
<1>7. Flow(rs, s, w, d.in) /\ d.rd <= Len(d.in) /\ Behind(rs, e, d, r)
  <2>1. Behind(rs, e, d, r)
    BY <1>6 DEF Behind
  <2>2. Flow(rs, s, w, d.in)
    BY <1>3 DEF rs
  <2>3. d.rd <= Len(d.in)
    BY <1>1, <1>3
  <2> QED
    BY <2>1, <2>2, <2>3
<1>8. InOrder(rs, s, w, e, g) /\ Beginning(rs, e.in[i])
  BY <1>3 DEF rs, Beginning
<1>9. InOrder(rs, s, w, d, g)
  BY <1>7, <1>8, LeftInOrder DEF Behind
<1>10. InOrder(rs, s, w, d, g \o <<r>>) /\ g \o <<r>> \in Seq(Nat)
  BY <1>1, <1>3, <1>4, <1>5, <1>7, <1>8, AnswerInOrder
<1>11. RemoveFirst(d.out, 0) = <<r>>
  BY <1>3, <1>4, SentAnswers
<1> QED
  BY <1>7, <1>9, <1>10, <1>11 DEF rs, Answers, Ordered

(* Reading a message frees the buffer or moves the pointer behind it; what *)
(* is behind fragments is cut off with them.                               *)
LEMMA ConsumeReads ==
  ASSUME NEW c \in ChanType, NEW n \in 1..2, c.rd + n <= Len(c.in), NEW frag
  PROVE  LET m == Consume(c, n, frag)
         IN  /\ m \in ChanType
             /\ m.state = c.state /\ m.handler = c.handler /\ m.closing = c.closing /\ m.out = c.out
             /\ ReadOn(c, m, n)
<1> DEFINE m == Consume(c, n, frag)
           t == IF frag THEN SubSeq(c.in, 1, c.rd + n) ELSE c.in
<1>1. c.rd \in Nat /\ c.in \in Seq(Part) /\ Len(c.in) \in Nat
  BY LenProperties DEF ChanType
<1>2. <<>> \in Seq(Part)
  BY EmptySeq
<1>3. CASE c.rd + n = Len(t)
  <2>1. m = [c EXCEPT !.in = <<>>, !.rd = 0, !.rest = FALSE]
    BY <1>3 DEF Consume, Emptied
  <2>2. \A x \in Seq(Part) : LET y == [c EXCEPT !.in = x, !.rd = 0, !.rest = FALSE]
          IN /\ y \in ChanType
             /\ y.state = c.state /\ y.handler = c.handler /\ y.closing = c.closing /\ y.out = c.out
             /\ y.in = x /\ y.rd = 0
    BY DEF ChanType
  <2> HIDE DEF m
  <2>3. m \in ChanType /\ m.state = c.state /\ m.handler = c.handler /\ m.closing = c.closing
        /\ m.out = c.out /\ m.in = <<>> /\ m.rd = 0
    BY <1>2, <2>1, <2>2
  <2> QED
    BY <2>3 DEF ReadOn, m
<1>4. CASE c.rd + n # Len(t)
  <2>1. ~frag
    <3> SUFFICES ASSUME frag
                 PROVE  FALSE
      OBVIOUS
    <3>1. t = SubSeq(c.in, 1, c.rd + n)
      OBVIOUS
    <3>2. \A i \in 1..c.rd + n : c.in[i] \in Part
      BY <1>1, ElementOfSeq
    <3>3. c.rd + n \in Int /\ 1 <= c.rd + n
      BY <1>1
    <3>4. Len(SubSeq(c.in, 1, c.rd + n)) = c.rd + n
      <4> DEFINE z == c.rd + n
      <4>1. z \in Int /\ 1 <= z /\ z - 1 + 1 = z /\ \A i \in 1..z : c.in[i] \in Part
        BY <3>2, <3>3
      <4> HIDE DEF z
      <4>2. Len(SubSeq(c.in, 1, z)) = IF 1 <= z THEN z - 1 + 1 ELSE 0
        BY <4>1, SubSeqProperties
      <4>3. Len(SubSeq(c.in, 1, z)) = z
        BY <4>1, <4>2
      <4> QED
        BY <4>3 DEF z
    <3> QED
      BY <1>4, <3>1, <3>4
  <2>2. m = [c EXCEPT !.in = c.in, !.rd = c.rd + n]
    BY <1>4, <2>1 DEF Consume
  <2>3. \A x \in Nat : LET y == [c EXCEPT !.in = c.in, !.rd = x]
        IN /\ y \in ChanType
           /\ y.state = c.state /\ y.handler = c.handler /\ y.closing = c.closing /\ y.out = c.out
           /\ y.in = c.in /\ y.rd = x
    BY <1>1 DEF ChanType
  <2>4. c.rd + n \in Nat
    BY <1>1
  <2> HIDE DEF m
  <2>5. m \in ChanType /\ m.state = c.state /\ m.handler = c.handler /\ m.closing = c.closing
        /\ m.out = c.out /\ m.in = c.in /\ m.rd = c.rd + n
    BY <2>2, <2>3, <2>4
  <2> QED
    BY <2>5 DEF ReadOn, m
<1> QED
  BY <1>3, <1>4

(* The handler of ksxdr.                                                   *)
LEMMA XdrLeaves ==
  ASSUME NEW k \in Conns, NEW p, p = plan[k], Client(p), p.protocol = "ksxdr",
         NEW s \in Part, NEW w, NoParts(w), NEW e, NEW h \in HttpType, NEW g \in Seq(Nat),
         Found(p, s, w, e, h.status, g), e.handler = "own", AtMessage(e)
  PROVE  Left(p, s, w, e, XdrRequest(k, e, h), g)
<1> DEFINE r == e.in[e.rd + 1][1]
           q == Request(k, r)
           n == q.parts
           o == Append(e.out, r)
           d == XdrRequest(k, e, h)
<1>1. /\ e \in ChanType /\ Flow(p.requests, s, w, e.in) /\ InOrder(p.requests, s, w, e, g)
      /\ e.rd < Len(e.in) /\ Unsent(e.out) /\ h.status = "INITIAL"
  BY DEF Found
<1>2. /\ e.rd \in Nat /\ e.in \in Seq(Part) /\ Len(e.in) \in Nat /\ e.rd <= Len(e.in)
      /\ e.state \in {"none", "open", "closed", "gone"} /\ e.rd + 1 \in 1..Len(e.in)
  BY <1>1, LenProperties DEF ChanType
<1>3. r \in 1..Len(p.requests) /\ q = p.requests[r] /\ r \in Nat \ {0}
  <2>1. PartOf(p.requests, e.in[e.rd + 1])
    BY <1>1, <1>2 DEF Flow
  <2>2. Len(p.requests) \in Nat
    BY DEF Client
  <2> QED
    BY <2>1, <2>2 DEF PartOf, Request
<1>4. n \in 1..2 /\ q.kind \in KindsOf("ksxdr")
  BY <1>3 DEF Client
<1>5. o \in Seq(Nat)
  BY <1>1, <1>3, SentAnswers
<1>6. n = p.requests[r].parts
  BY <1>3
<1>7. r = e.in[e.rd + 1][1] /\ e.in[e.rd + 1][2] = 1 /\ Beginning(p.requests, e.in[e.rd + 1])
  BY DEF AtMessage, Beginning
<1>8. CASE q.kind = "invalid"
  <2> DEFINE c == [Emptied(e) EXCEPT !.out = <<>>]
  <2>1. d.c = c /\ d.h = h /\ d.effect = "failed"
    BY <1>8 DEF XdrRequest, Done
  <2>2. c.in = <<>> /\ c.rd = 0 /\ c.out = <<>> /\ c.state = e.state /\ c.handler = "own" /\ c \in ChanType
    <3>1. <<>> \in Seq(Part) /\ <<>> \in Seq(Nat)
      BY EmptySeq
    <3> QED
      BY <1>1, <3>1 DEF Emptied, ChanType
  <2> HIDE DEF c, d, r, q, n, o
  <2>3. /\ Flow(p.requests, s, w, c.in) /\ c.rd <= Len(c.in)
        /\ c.rd + 1..Len(c.in) = {}
    BY <1>1, <2>2, FreedBuffer
  <2>4. InOrder(p.requests, s, w, c, g)
    BY <1>1, <2>3, LeftInOrder
  <2>5. Left(p, s, w, e, d, g)
    BY <1>1, <2>1, <2>2, <2>3, <2>4 DEF Left, Ordered
  <2> QED
    BY <2>5 DEF d
<1>9. CASE q.kind = "denied"
  <2> DEFINE c == Denied(e, r)
  <2>1. d.c = c /\ d.h = h /\ d.effect = "none"
    BY <1>9 DEF XdrRequest, Done
  <2>2. c = [e EXCEPT !.rd = e.rd + 1, !.rest = TRUE, !.out = o]
    BY <1>1 DEF Denied, Answer, ChanType
  <2> HIDE DEF c, d, r, q, n, o
  <2>3. /\ c.in = e.in /\ c.rd = e.rd + 1 /\ c.out = o /\ c.state = e.state
        /\ c.handler = "own" /\ c \in ChanType
    <3> DEFINE x == e.rd + 1
    <3>1. x \in Nat /\ c = [e EXCEPT !.rd = x, !.rest = TRUE, !.out = o]
      BY <1>2, <2>2
    <3> HIDE DEF x
    <3>2. /\ c.in = e.in /\ c.rd = x /\ c.out = o /\ c.state = e.state
          /\ c.handler = "own" /\ c \in ChanType
      BY <1>1, <1>5, <3>1 DEF ChanType
    <3> QED
      BY <3>2 DEF x
  <2>4. p.requests[r].kind = "denied"
    BY <1>3, <1>9
  <2>5. c.out = Append(e.out, r)
    BY <2>3 DEF o
  <2>6. Answers(p, s, w, c, g)
    <3>1. Refused(p, e, c, r)
      BY <1>7, <2>3, <2>4, <2>5 DEF Refused
    <3> QED
      BY <1>1, <3>1, Refusing
  <2>7. Left(p, s, w, e, d, g)
    BY <1>1, <2>1, <2>3, <2>6 DEF Left, Answers
  <2> QED
    BY <2>7 DEF d
<1>10. CASE q.kind \notin {"invalid", "denied"} /\ ~HoldsComplete(k, e)
  <2> DEFINE c == [e EXCEPT !.limit = Incomplete]
  <2>1. d.c = c /\ d.h = h /\ d.effect = "none"
    BY <1>10 DEF XdrRequest, Done
  <2>2. /\ c.in = e.in /\ c.rd = e.rd /\ c.out = e.out /\ c.state = e.state
        /\ c.handler = "own" /\ c \in ChanType
    BY <1>1 DEF Incomplete, ChanType
  <2> HIDE DEF c, d, r, q, n, o
  <2>3. Answers(p, s, w, c, g)
    BY <1>1, <1>2, <2>2, Unread
  <2>4. Left(p, s, w, e, d, g)
    BY <1>1, <2>1, <2>2, <2>3 DEF Left, Answers
  <2> QED
    BY <2>4 DEF d
<1>11. CASE q.kind \notin {"invalid", "denied"} /\ HoldsComplete(k, e)
  <2> DEFINE b == [e EXCEPT !.limit = Unused]
             m == Consume(b, n, q.frag)
             c == Answer(m, r)
  <2>1. d.c = c /\ d.h = h /\ d.effect = q.kind
    BY <1>11 DEF XdrRequest, Done
  <2>2. /\ b.in = e.in /\ b.rd = e.rd /\ b.out = e.out /\ b.state = e.state
        /\ b.handler = "own" /\ b \in ChanType
    BY <1>1 DEF Unused, ChanType
  <2>3. Len(e.in) - e.rd >= n
    BY <1>11 DEF HoldsComplete
  <2> HIDE DEF b, n
  <2>4. b.rd + n <= Len(b.in) /\ e.rd + n <= Len(e.in)
    BY <1>2, <1>4, <2>2, <2>3
  <2>5. /\ m \in ChanType
        /\ m.state = b.state /\ m.handler = b.handler /\ m.closing = b.closing /\ m.out = b.out
        /\ ReadOn(b, m, n)
    BY <1>4, <2>2, <2>4, ConsumeReads
  <2> HIDE DEF m
  <2>6. c = [m EXCEPT !.out = o]
    BY <2>2, <2>5 DEF Answer
  <2>7. d.effect \notin {"failed", "unhandled"}
    BY <1>4, <2>1 DEF KindsOf
  <2> HIDE DEF c, d, r, q, o
  <2>8. /\ c.in = m.in /\ c.rd = m.rd /\ c.out = o /\ c.state = e.state
        /\ c.handler = "own" /\ c \in ChanType
    BY <1>5, <2>2, <2>5, <2>6 DEF ChanType
  <2>9. ReadOn(e, c, n) /\ c.out = Append(e.out, r)
    BY <2>2, <2>5, <2>8 DEF ReadOn, o
  <2>10. Answers(p, s, w, c, g)
    <3>1. Wrote(p, e, c, r, n)
      BY <1>6, <1>7, <2>4, <2>9 DEF Wrote
    <3> QED
      BY <1>1, <1>7, <3>1, Answering
  <2>11. Left(p, s, w, e, d, g)
    BY <1>1, <2>1, <2>7, <2>8, <2>10 DEF Left, Answers
  <2> QED
    BY <2>11 DEF d
<1> QED
  BY <1>8, <1>9, <1>10, <1>11

(* Where no message begins.                                                *)
LEMMA NotedUnsent ==
  ASSUME NEW c \in ChanType
  PROVE  LET m == Noted(c)
         IN  /\ m \in ChanType /\ (Unsent(c.out) => Unsent(m.out))
             /\ m.in = c.in /\ m.rd = c.rd /\ m.state = c.state /\ m.handler = c.handler
             /\ m.closing = c.closing
<1> DEFINE o == IF Contains(c.out, 0) THEN c.out ELSE Append(c.out, 0)
<1>1. ASSUME c.out = <<>>
      PROVE  Unsent(o)
  <2>1. Append(c.out, 0) = <<0>>
    BY <1>1
  <2> QED
    BY <1>1, <2>1 DEF Unsent
<1>2. ASSUME c.out = << 0 >>
      PROVE  Unsent(o)
  <2>1. 1 \in 1..Len(c.out) /\ c.out[1] = 0
    BY <1>2
  <2>2. Contains(c.out, 0)
    BY <2>1 DEF Contains
  <2> QED
    BY <1>2, <2>2 DEF Unsent
<1>3. Unsent(c.out) => Unsent(o)
  BY <1>1, <1>2 DEF Unsent
<1>4. o \in Seq(Nat)
  BY AppendProperties DEF ChanType
<1>5. Noted(c) = [c EXCEPT !.out = o]
  BY DEF Noted
<1> HIDE DEF o
<1> QED
  BY <1>3, <1>4, <1>5 DEF ChanType

LEMMA MisreadLeaves ==
  ASSUME NEW p, p.protocol = "ksxdr", NEW s \in Part, NEW w, NEW e, NEW h \in HttpType,
         NEW g \in Seq(Nat), Found(p, s, w, e, h.status, g), e.handler = "own",
         NEW d \in Misread(e, h)
  PROVE  Left(p, s, w, e, d, g)
<1>1. /\ e \in ChanType /\ Flow(p.requests, s, w, e.in) /\ InOrder(p.requests, s, w, e, g)
      /\ e.rd < Len(e.in) /\ Unsent(e.out) /\ h.status = "INITIAL"
  BY DEF Found
<1>2. e.rd \in Nat /\ e.in \in Seq(Part) /\ Len(e.in) \in Nat /\ e.rd <= Len(e.in)
  BY <1>1, LenProperties DEF ChanType
<1>3. CASE d = Done([Emptied(e) EXCEPT !.out = <<>>], h, "failed")
  <2> DEFINE c == [Emptied(e) EXCEPT !.out = <<>>]
  <2>1. d.c = c /\ d.h = h /\ d.effect = "failed"
    BY <1>3 DEF Done
  <2>2. c.in = <<>> /\ c.rd = 0 /\ c.out = <<>> /\ c.state = e.state /\ c.handler = "own" /\ c \in ChanType
    <3>1. <<>> \in Seq(Part) /\ <<>> \in Seq(Nat)
      BY EmptySeq
    <3> QED
      BY <1>1, <3>1 DEF Emptied, ChanType
  <2> HIDE DEF c
  <2>3. /\ Flow(p.requests, s, w, c.in) /\ c.rd <= Len(c.in)
        /\ c.rd + 1..Len(c.in) = {}
    BY <1>1, <2>2, FreedBuffer
  <2>4. InOrder(p.requests, s, w, c, g)
    BY <1>1, <2>3, LeftInOrder
  <2> QED
    BY <1>1, <2>1, <2>2, <2>3, <2>4 DEF Left, Ordered
<1>4. CASE d = Done([e EXCEPT !.limit = Incomplete], h, "none")
  <2> DEFINE c == [e EXCEPT !.limit = Incomplete]
  <2>1. d.c = c /\ d.h = h /\ d.effect = "none"
    BY <1>4 DEF Done
  <2>2. /\ c.in = e.in /\ c.rd = e.rd /\ c.out = e.out /\ c.state = e.state
        /\ c.handler = "own" /\ c \in ChanType
    BY <1>1 DEF Incomplete, ChanType
  <2> HIDE DEF c
  <2>3. Answers(p, s, w, c, g)
    BY <1>1, <1>2, <2>2, Unread
  <2> QED
    BY <1>1, <2>1, <2>2, <2>3 DEF Left, Answers
<1>5. CASE \E x \in FurtherOn(e) : d = Done(Noted(x), h, "none")
  <2>1. PICK x \in FurtherOn(e) : d = Done(Noted(x), h, "none")
    BY <1>5
  <2>2. PICK n \in e.rd..Len(e.in), b \in BOOLEAN : x = [e EXCEPT !.rd = n, !.rest = b]
    BY <2>1 DEF FurtherOn
  <2>3. n \in Nat
    BY <1>2
  <2>4. /\ x.in = e.in /\ x.rd = n /\ x.out = e.out /\ x.state = e.state
        /\ x.handler = "own" /\ x \in ChanType
    BY <1>1, <2>2, <2>3 DEF ChanType
  <2> DEFINE c == Noted(x)
  <2>5. d.c = c /\ d.h = h /\ d.effect = "none"
    BY <2>1 DEF Done
  <2>6. /\ c \in ChanType /\ Unsent(c.out)
        /\ c.in = e.in /\ c.rd = n /\ c.state = e.state /\ c.handler = "own"
    BY <1>1, <2>4, NotedUnsent
  <2> HIDE DEF c
  <2>7. RemoveFirst(c.out, 0) = <<>>
    BY <2>6, SentAnswers
  <2>8. \A j \in c.rd + 1..Len(c.in) : \E m \in e.rd + 1..Len(e.in) : c.in[j] = e.in[m]
    <3> TAKE j \in c.rd + 1..Len(c.in)
    <3>1. j \in e.rd + 1..Len(e.in)
      BY <1>2, <2>3, <2>6
    <3> QED
      BY <2>6, <3>1
  <2>9. InOrder(p.requests, s, w, c, g) /\ g \o <<>> = g
    BY <1>1, <2>8, LeftInOrder
  <2>10. c.rd <= Len(c.in) /\ Flow(p.requests, s, w, c.in)
    BY <1>1, <1>2, <2>6
  <2>11. Answers(p, s, w, c, g)
    BY <2>7, <2>9, <2>10 DEF Answers, Ordered
  <2> QED
    BY <1>1, <2>5, <2>6, <2>11 DEF Left, Answers
<1> QED
  BY <1>3, <1>4, <1>5 DEF Misread

(* The handler of kshttp.                                                  *)
LEMMA HttpLeaves ==
  ASSUME NEW k \in Conns, NEW p, p = plan[k], Client(p), p.protocol # "ksxdr",
         NEW s \in Part, NEW w, NoParts(w), NEW e, NEW h \in HttpType, NEW g \in Seq(Nat),
         Found(p, s, w, e, h.status, g), e.handler = "own"
  PROVE  Left(p, s, w, e, HttpRequest(k, e, h), g)
<1> DEFINE rs == p.requests
           r == e.in[1][1]
           q == Request(k, r)
           n == q.parts
           length == HasLength(h, q)
           d == HttpRequest(k, e, h)
<1>1. /\ e \in ChanType /\ Flow(rs, s, w, e.in) /\ InOrder(rs, s, w, e, g)
      /\ e.rd < Len(e.in) /\ Unsent(e.out) /\ e.rd = 0
      /\ (h.status = "SHUTDOWN" => Passed(rs, s)) /\ (h.status = "HEADERPARSED" => Parsed(rs, e.in))
  BY DEF Found
<1>2. /\ e.in \in Seq(Part) /\ Len(e.in) \in Nat /\ e.rd <= Len(e.in) /\ 1 \in 1..Len(e.in)
      /\ e.state \in {"none", "open", "closed", "gone"} /\ e.rd \in Nat
  BY <1>1, LenProperties DEF ChanType
<1>3. PartOf(rs, e.in[1]) /\ AtMost(e.in[1], s) /\ Len(rs) \in Nat
  BY <1>1, <1>2 DEF Flow, Client
<1>4. r \in 1..Len(rs) /\ q = rs[r] /\ r \in Nat \ {0}
  BY <1>3 DEF PartOf, Request
<1>5. n \in 1..2 /\ q.kind \in KindsOf(p.protocol) /\ q.kind \notin {"failed", "unhandled", "denied"}
  <2>1. q.kind \in KindsOf(p.protocol)
    BY <1>4 DEF Client
  <2> QED
    BY <1>4, <2>1 DEF Client, KindsOf
<1>6. length \in BOOLEAN /\ h.status \in {"INITIAL", "HEADERPARSED", "SHUTDOWN"}
  BY <1>1 DEF HasLength, HttpType
<1>7. Answers(p, s, w, e, g)
  BY <1>1, <1>2, Unread
<1>12. CASE h.status = "SHUTDOWN"
  <2>1. d.c = e /\ d.h = h /\ d.effect = "unhandled"
    BY <1>1, <1>12 DEF HttpRequest, Done
  <2> HIDE DEF d
  <2>2. Spoilt(rs, s, w)
    <3>1. PICK x \in 1..Len(rs) : rs[x].kind = "bad" /\ x < s[1]
      BY <1>1, <1>12 DEF Passed
    <3>2. \A j \in 1..Len(w) : FALSE
      BY EmptyFlow DEF NoParts
    <3> QED
      BY <3>1, <3>2 DEF Spoilt, Complete
  <2>3. Left(p, s, w, e, d, g)
    BY <1>1, <1>7, <1>12, <2>1, <2>2 DEF Left, Answers
  <2> QED
    BY <2>3 DEF d
<1>8. CASE h.status = "INITIAL" /\ ~HeaderIn(e, q)
  <2>1. d.c = e /\ d.h = h /\ d.effect = "none"
    BY <1>1, <1>8 DEF HttpRequest, Done
  <2> HIDE DEF d
  <2>2. Left(p, s, w, e, d, g)
    BY <1>1, <1>7, <1>8, <2>1 DEF Left, Answers
  <2> QED
    BY <2>2 DEF d
<1>9. CASE h.status = "INITIAL" /\ HeaderIn(e, q) /\ Malformed(q)
  <2> DEFINE h2 == [h EXCEPT !.status = "SHUTDOWN"]
  <2>1. d.c = e /\ d.h = h2 /\ d.effect = "none"
    BY <1>1, <1>9 DEF HttpRequest, Done
  <2>2. h2 \in HttpType /\ h2.status = "SHUTDOWN"
    BY DEF HttpType
  <2>3. Spoilt(rs, s, w)
    <3>1. n <= Len(e.in)
      BY <1>2, <1>5, <1>9 DEF HeaderIn, Malformed
    <3> DEFINE b == 1
    <3>2. b + p.requests[e.in[b][1]].parts - 1 <= Len(e.in)
      <4> DEFINE m == rs[e.in[1][1]].parts
      <4>1. m = n /\ m \in 1..2
        BY <1>4, <1>5
      <4> HIDE DEF m, n
      <4>2. 1 + m - 1 <= Len(e.in)
        BY <1>2, <3>1, <4>1
      <4> QED
        BY <4>2 DEF m
    <3>3. b \in 1..Len(e.in) /\ e.in[b][1] = r
      BY <1>2
    <3> HIDE DEF b
    <3>4. Complete(rs, s, r)
      BY <1>1, <1>2, <3>2, <3>3, Whole
    <3>5. \A j \in 1..Len(w) : FALSE
      BY EmptyFlow DEF NoParts
    <3> QED
      BY <1>4, <1>9, <3>4, <3>5 DEF Spoilt, Malformed
  <2> HIDE DEF d, h2
  <2>4. Left(p, s, w, e, d, g)
    BY <1>1, <1>7, <1>9, <2>1, <2>2, <2>3 DEF Left, Answers
  <2> QED
    BY <2>4 DEF d
<1>10. CASE h.status # "SHUTDOWN" /\ (h.status = "INITIAL" => HeaderIn(e, q) /\ ~Malformed(q)) /\ ~BodyIn(e, q, length)
  <2> DEFINE h2 == [status |-> "HEADERPARSED", length |-> length]
  <2>1. d.c = e /\ d.h = h2 /\ d.effect = "none"
    BY <1>1, <1>10 DEF HttpRequest, Done
  <2>2. h2 \in HttpType /\ h2.status = "HEADERPARSED"
    BY <1>6 DEF HttpType
  <2>3. Parsed(rs, e.in)
    <3>1. CASE h.status = "INITIAL"
      <4>1. e.in # <<>>
        BY <1>2, EmptySeq
      <4>2. rs[e.in[1][1]].kind = "post" \/ Len(e.in) >= rs[e.in[1][1]].parts
        BY <1>4, <1>10, <3>1 DEF HeaderIn
      <4> QED
        BY <4>1, <4>2 DEF Parsed
    <3>2. CASE h.status = "HEADERPARSED"
      BY <1>1, <3>2
    <3> QED
      BY <1>6, <1>10, <3>1, <3>2
  <2> HIDE DEF d, h2
  <2>4. Left(p, s, w, e, d, g)
    BY <1>1, <1>7, <2>1, <2>2, <2>3 DEF Left, Answers
  <2> QED
    BY <2>4 DEF d
<1>11. CASE h.status # "SHUTDOWN" /\ (h.status = "INITIAL" => HeaderIn(e, q) /\ ~Malformed(q)) /\ BodyIn(e, q, length)
  <2> DEFINE o == Append(e.out, r)
             b == q.kind = "close"
             z == IF q.kind = "stream" THEN "push" ELSE e.handler
             c == [Answer(Emptied(e), r) EXCEPT !.closing = b, !.handler = z]
             h2 == [status |-> IF q.kind \in {"close", "stream"} THEN "SHUTDOWN" ELSE "INITIAL",
                    length |-> length]
  <2>1. d = HttpAnswer(e, r, q, length)
    BY <1>1, <1>11 DEF HttpRequest
  <2>2. d.c = c /\ d.h = h2 /\ d.effect = q.kind
    <3>1. Answer(Emptied(e), r).handler = e.handler
      BY <1>1 DEF Answer, Emptied, ChanType
    <3> QED
      BY <2>1, <3>1 DEF HttpAnswer, Done
  <2>3. /\ h2 \in HttpType /\ h2.status \in {"INITIAL", "SHUTDOWN"}
        /\ h2.status = "SHUTDOWN" => b \/ z = "push"
        /\ b \in BOOLEAN /\ z \in {"own", "push"}
    BY <1>6 DEF HttpType
  <2>4. o \in Seq(Nat) /\ <<>> \in Seq(Part)
    BY <1>1, <1>4, SentAnswers, EmptySeq
  <2>5. n <= Len(e.in)
    <3>1. CASE q.kind = "post"
      BY <1>2, <1>5, <1>11, <3>1 DEF HasLength, BodyIn
    <3>2. CASE q.kind # "post" /\ h.status = "INITIAL"
      BY <1>2, <1>5, <1>11, <3>2 DEF HeaderIn
    <3>3. CASE q.kind # "post" /\ h.status = "HEADERPARSED"
      <4>1. Len(e.in) >= rs[e.in[1][1]].parts
        BY <1>1, <1>4, <3>3 DEF Parsed
      <4>2. n = rs[e.in[1][1]].parts
        BY <1>4
      <4>3. n \in Nat
        BY <1>5
      <4> HIDE DEF n, q, r, rs
      <4> QED
        BY <1>2, <4>1, <4>2, <4>3
    <3> HIDE DEF n, q, r, rs
    <3> QED
      BY <1>6, <1>11, <3>1, <3>2, <3>3
  <2>6. r = e.in[e.rd + 1][1] /\ n = rs[r].parts /\ e.rd + n <= Len(e.in)
    <3>1. e.rd + 1 = 1 /\ e.rd + n = n
      BY <1>1, <1>5
    <3>2. r = e.in[1][1] /\ n = rs[r].parts
      BY <1>4
    <3> HIDE DEF r, n, rs
    <3> QED
      BY <2>5, <3>1, <3>2
  <2> HIDE DEF b, z
  <2>7. c = [e EXCEPT !.in = <<>>, !.rd = 0, !.rest = FALSE, !.out = o, !.closing = b, !.handler = z]
    BY <1>1 DEF Answer, Emptied, ChanType
  <2> HIDE DEF c, d, h2, o, n, q, r
  <2>8. /\ c.in = <<>> /\ c.rd = 0 /\ c.out = o /\ c.state = e.state /\ c.closing = b /\ c.handler = z
        /\ c \in ChanType
    BY <1>1, <2>3, <2>4, <2>7 DEF ChanType
  <2>9. ReadOn(e, c, n) /\ c.out = Append(e.out, r)
    BY <2>8 DEF ReadOn, o
  <2>10. Answers(p, s, w, c, g)
    <3>1. Wrote(p, e, c, r, n)
      BY <2>6, <2>9 DEF Wrote
    <3>2. Beginning(rs, e.in[e.rd + 1])
      <4>1. rs[r].kind # "denied"
        BY <1>4, <1>5
      <4> QED
        BY <2>6, <4>1 DEF Beginning
    <3> QED
      BY <1>1, <3>1, <3>2, Answering
  <2>11. Left(p, s, w, e, d, g)
    BY <1>5, <2>2, <2>3, <2>8, <2>10 DEF Left, Answers
  <2> QED
    BY <2>11 DEF d
<1> QED
  BY <1>6, <1>8, <1>9, <1>10, <1>11, <1>12

LEMMA HandlerLeaves ==
  ASSUME DataTypes, NEW k \in Conns, NEW p, p = plan[k], Client(p), NEW s \in Part, NEW w, NoParts(w),
         NEW e, NEW g \in Seq(Nat), Found(p, s, w, e, http[k].status, g),
         NEW d \in HandleRequest(k, e)
  PROVE  Left(p, s, w, e, d, g)
<1> DEFINE h == http[k]
<1>1. h \in HttpType
  BY DEF DataTypes
<1>2. CASE e.handler = "push"
  <2>1. d = Done(e, h, "none")
    BY <1>2 DEF HandleRequest
  <2>2. d.c = e /\ d.h = h /\ d.effect = "none"
    BY <2>1 DEF Done
  <2>3. /\ e \in ChanType /\ Flow(p.requests, s, w, e.in) /\ InOrder(p.requests, s, w, e, g)
        /\ e.rd < Len(e.in) /\ Unsent(e.out)
    BY DEF Found
  <2>4. e.rd <= Len(e.in)
    BY <2>3, LenProperties DEF ChanType
  <2>5. Answers(p, s, w, e, g)
    BY <2>3, <2>4, Unread
  <2> QED
    BY <1>1, <1>2, <2>2, <2>3, <2>5 DEF Left, Answers, Found
<1>3. CASE e.handler # "push" /\ p.protocol = "ksxdr" /\ AtMessage(e)
  <2>1. d = XdrRequest(k, e, h) /\ e.handler = "own"
    BY <1>3 DEF HandleRequest, Found
  <2>2. Left(p, s, w, e, XdrRequest(k, e, h), g)
    BY <1>1, <1>3, <2>1, XdrLeaves
  <2> QED
    BY <2>1, <2>2
<1>5. CASE e.handler # "push" /\ p.protocol = "ksxdr" /\ ~AtMessage(e)
  <2>1. d \in Misread(e, h) /\ e.handler = "own"
    BY <1>5 DEF HandleRequest, Found
  <2> QED
    BY <1>1, <1>5, <2>1, MisreadLeaves
<1>4. CASE e.handler # "push" /\ p.protocol # "ksxdr"
  <2>1. d = HttpRequest(k, e, h) /\ e.handler = "own"
    BY <1>4 DEF HandleRequest, Found
  <2>2. Left(p, s, w, e, HttpRequest(k, e, h), g)
    BY <1>1, <1>4, <2>1, HttpLeaves
  <2> QED
    BY <2>1, <2>2
<1> QED
  BY <1>2, <1>3, <1>4, <1>5

----------------------------------------------------------------------------
(* The steps, as far as data is concerned.                                 *)

(* What has arrived is received behind what was kept.                      *)
Together(rs, s, w, c, v, e, g) ==
  /\ Flow(rs, s, w, e.in) /\ InOrder(rs, s, w, e, g)
  /\ e.rd <= Len(e.in) /\ Len(e.in) = Len(c.in) + Len(v)
  /\ \A i \in 1..Len(c.in) : e.in[i] = c.in[i]

LEMMA Joined ==
  ASSUME NEW rs, NEW s, NEW v \in Seq(Part), NEW c, c.in \in Seq(Part), c.rd \in Nat, c.rd <= Len(c.in),
         NEW g, Flow(rs, s, v, c.in), InOrder(rs, s, v, c, g),
         NEW w, NoParts(w), NEW e, e.in = c.in \o v, e.rd = c.rd
  PROVE  Together(rs, s, w, c, v, e, g)
<1> DEFINE q == c.in
           u == q \o v
           m == Len(q)
           n == Len(v)
<1>1. q \in Seq(Part) /\ v \in Seq(Part) /\ m \in Nat /\ n \in Nat
  BY LenProperties
<1>2. /\ Len(u) = m + n /\ \A i \in 1..m + n : u[i] = IF i <= m THEN q[i] ELSE v[i - m]
  BY <1>1, ConcatProperties
<1>3. e.in = u /\ e.rd = c.rd /\ c.rd \in Nat /\ c.rd <= m
  OBVIOUS
<1>4. Flow(rs, s, v, q) /\ \A j \in 1..Len(w) : FALSE
  BY EmptyFlow DEF NoParts
<1>5. Rising(w)
  BY <1>4 DEF Rising
<1> HIDE DEF u, q, m, n
<1>6. \A i \in 1..Len(u) :
        (i \in 1..m /\ u[i] = q[i]) \/ (i > m /\ i - m \in 1..n /\ u[i] = v[i - m])
  <2> TAKE i \in 1..Len(u)
  <2>1. i \in 1..m + n /\ (i <= m \/ (i > m /\ i - m \in 1..n))
    BY <1>1, <1>2
  <2> QED
    BY <1>1, <1>2, <2>1
<1>7. m = Len(q) /\ n = Len(v)
  BY DEF m, n, q
<1>8. \A i \in 1..Len(u) : PartOf(rs, u[i]) /\ AtMost(u[i], s)
  <2>1. /\ \A i \in 1..m : PartOf(rs, q[i]) /\ AtMost(q[i], s)
        /\ \A i \in 1..n : PartOf(rs, v[i]) /\ AtMost(v[i], s)
    BY <1>4, <1>7 DEF Flow
  <2> QED
    BY <1>6, <2>1
<1>9. Rising(u)
  <2> SUFFICES ASSUME NEW i \in 1..Len(u), NEW j \in 1..Len(u), i < j
               PROVE  Less(u[i], u[j])
    BY DEF Rising
  <2>1. CASE (i \in 1..m /\ u[i] = q[i]) /\ (j \in 1..m /\ u[j] = q[j])
    BY <1>4, <1>7, <2>1 DEF Flow, Rising
  <2>2. CASE (i \in 1..m /\ u[i] = q[i]) /\ (j > m /\ j - m \in 1..n /\ u[j] = v[j - m])
    BY <1>4, <1>7, <2>2 DEF Flow
  <2>3. CASE (i > m /\ i - m \in 1..n /\ u[i] = v[i - m]) /\ (j > m /\ j - m \in 1..n /\ u[j] = v[j - m])
    <3>1. i - m < j - m
      BY <1>1, <1>2
    <3>2. Rising(v)
      BY <1>4 DEF Flow
    <3>3. Less(v[i - m], v[j - m])
      BY <1>7, <2>3, <3>1, <3>2 DEF Rising
    <3> QED
      BY <2>3, <3>3
  <2>4. ~((i > m) /\ (j \in 1..m))
    BY <1>1, <1>2
  <2> QED
    BY <1>6, <2>1, <2>2, <2>3, <2>4
<1>10. Flow(rs, s, w, u)
  BY <1>4, <1>5, <1>8, <1>9 DEF Flow
<1>11. InOrder(rs, s, w, e, g)
  <2>1. \A i \in 1..Len(g), j \in e.rd + 1..Len(e.in) : After(rs, g[i], e.in[j])
    <3> SUFFICES ASSUME NEW i \in 1..Len(g), NEW j \in c.rd + 1..Len(u)
                 PROVE  After(rs, g[i], u[j])
      BY <1>3
    <3>1. j \in 1..Len(u)
      BY <1>1, <1>2, <1>3
    <3>2. CASE j \in 1..m /\ u[j] = q[j]
      <4>1. j \in c.rd + 1..Len(c.in) /\ c.in[j] = q[j]
        BY <1>1, <1>3, <3>2 DEF m, q
      <4> QED
        BY <3>2, <4>1 DEF InOrder
    <3>3. CASE j - m \in 1..n /\ u[j] = v[j - m]
      BY <1>7, <3>3 DEF InOrder
    <3> QED
      BY <1>6, <3>1, <3>2, <3>3
  <2> QED
    BY <1>4, <2>1 DEF InOrder
<1>12. \A i \in 1..m : u[i] = q[i]
  BY <1>1, <1>2
<1>13. c.rd <= Len(u)
  BY <1>1, <1>2, <1>3
<1> QED
  BY <1>2, <1>3, <1>10, <1>11, <1>12, <1>13 DEF u, q, m, n, Together

LEMMA OfOne ==
  ASSUME DataInv, NEW k \in Conns
  PROVE  /\ Client(plan[k]) /\ sent[k] \in Part /\ wire[k] \in Seq(Part) /\ chan[k] \in ChanType
         /\ http[k] \in HttpType /\ got[k] \in Seq(Nat)
         /\ Data(plan[k], sent[k], wire[k], chan[k], http[k].status, got[k])
         /\ sent = [sent EXCEPT ![k] = sent[k]] /\ wire = [wire EXCEPT ![k] = wire[k]]
         /\ chan = [chan EXCEPT ![k] = chan[k]] /\ http = [http EXCEPT ![k] = http[k]]
         /\ got = [got EXCEPT ![k] = got[k]]
<1>1. Client(plan[k])
  BY ClientsTyped DEF DataInv, DataTypes
<1> QED
  BY <1>1 DEF DataInv, DataTypes

LEMMA ReceivedFound ==
  ASSUME DataInv, NEW k \in Conns, chan[k].state = "open", wire[k] # <<>>, NEW w, NoParts(w)
  PROVE  Found(plan[k], sent[k], w, Received(k), http[k].status, got[k])
<1> DEFINE p == plan[k]
           c == chan[k]
           v == wire[k]
           s == sent[k]
           g == got[k]
           st == http[k].status
           e == Received(k)
           o == IF net[k] = "fin" THEN "closed" ELSE "open"
           z == IF c.handler = "none" THEN "own" ELSE c.handler
<1>1. /\ c \in ChanType /\ v \in Seq(Part) /\ Data(p, s, v, c, st, g) /\ c.state = "open"
      /\ c.in \in Seq(Part) /\ c.rd \in Nat /\ c.handler \in {"none", "own", "push"}
  BY DEF DataInv, DataTypes, ChanType
<1>2. c.in \o v \in Seq(Part)
  BY <1>1, ConcatProperties
<1>3. /\ e.in = c.in \o v /\ e.rd = c.rd /\ e.out = c.out /\ e.handler = z /\ e.state = o /\ e \in ChanType
  <2> DEFINE u == c.in \o v
             x == [c EXCEPT !.in = u, !.quiet = 0]
             y == IF net[k] = "fin" THEN [x EXCEPT !.state = "closed", !.limit = Unused] ELSE x
  <2>1. e = IF y.handler = "none" THEN [y EXCEPT !.handler = "own", !.limit = Associated] ELSE y
    <3>1. y.handler = c.handler /\ x.handler = c.handler
      BY <1>1 DEF ChanType
    <3> QED
      BY <3>1 DEF Received, Closed
  <2> HIDE DEF u, e
  <2>2. x \in ChanType /\ x.in = u /\ x.rd = c.rd /\ x.out = c.out /\ x.handler = c.handler /\ x.state = "open"
    BY <1>1, <1>2 DEF ChanType, u
  <2> HIDE DEF x
  <2>3. y \in ChanType /\ y.in = u /\ y.rd = c.rd /\ y.out = c.out /\ y.handler = c.handler /\ y.state = o
    BY <2>2 DEF ChanType, Unused
  <2> HIDE DEF y
  <2>4. e \in ChanType /\ e.in = u /\ e.rd = c.rd /\ e.out = c.out /\ e.handler = z /\ e.state = o
    BY <2>1, <2>3 DEF ChanType, Associated
  <2> QED
    BY <2>4 DEF u
<1> HIDE DEF e
<1>4. Flow(p.requests, s, v, c.in) /\ InOrder(p.requests, s, v, c, g) /\ Buffers(p, c) /\ Status(p, s, v, c, st)
  BY <1>1 DEF Data
<1> HIDE DEF p, c, v, s, g, st
<1>5. c.rd <= Len(c.in) /\ (p.protocol # "ksxdr" => c.rd = 0) /\ Unsent(c.out)
  BY <1>1, <1>4 DEF Buffers
<1>6. /\ Flow(p.requests, s, w, e.in) /\ InOrder(p.requests, s, w, e, g)
      /\ e.rd <= Len(e.in) /\ Len(e.in) = Len(c.in) + Len(v)
      /\ \A i \in 1..Len(c.in) : e.in[i] = c.in[i]
  <2>1. Flow(p.requests, s, v, c.in) /\ InOrder(p.requests, s, v, c, g)
    BY <1>4
  <2>2. v \in Seq(Part) /\ c.in \in Seq(Part) /\ c.rd \in Nat /\ c.rd <= Len(c.in)
    BY <1>1, <1>5
  <2>3. e.in = c.in \o v /\ e.rd = c.rd
    BY <1>3
  <2> HIDE DEF o, z
  <2>4. Together(p.requests, s, w, c, v, e, g)
    BY <2>1, <2>2, <2>3, Joined
  <2> QED
    BY <2>4 DEF Together
<1>7. Len(v) \in Nat \ {0} /\ Len(c.in) \in Nat /\ v # <<>>
  BY <1>1, EmptySeq, LenProperties DEF v
<1>8. e.rd < Len(e.in)
  <2> DEFINE x == Len(e.in)
             y == Len(c.in)
             z2 == Len(v)
  <2>1. x = y + z2 /\ y \in Nat /\ z2 \in Nat /\ z2 # 0 /\ c.rd <= y /\ c.rd \in Nat /\ e.rd = c.rd
    BY <1>1, <1>3, <1>5, <1>6, <1>7
  <2> HIDE DEF x, y, z2
  <2>2. e.rd < x
    BY <2>1
  <2> QED
    BY <2>2 DEF x
<1>9. ASSUME e.handler = "own", st = "SHUTDOWN"
      PROVE  Passed(p.requests, s)
  <2> DEFINE rs == p.requests
  <2>1. Spoilt(rs, s, v)
    BY <1>1, <1>3, <1>4, <1>9 DEF Status
  <2>2. PICK r \in 1..Len(rs) : rs[r].kind = "bad" /\ \A j \in 1..Len(v) : r < v[j][1]
    BY <2>1 DEF Spoilt
  <2>3. 1 \in 1..Len(v) /\ v \in Seq(Part) /\ s \in Part
    BY <1>1, <1>7, OfOne DEF s
  <2>4. AtMost(v[1], s) /\ v[1] \in Part
    BY <1>4, <2>3, ElementOfSeq DEF Flow
  <2> DEFINE x == v[1]
  <2>5. r < x[1] /\ AtMost(x, s) /\ x \in Part /\ s \in Part
    BY <2>2, <2>3, <2>4
  <2>6. Len(rs) \in Nat
    <3>1. Client(p)
      BY ClientsTyped DEF DataInv, DataTypes, p
    <3> QED
      BY <3>1 DEF Client
  <2> HIDE DEF rs, x
  <2>7. r < s[1]
    BY <2>5, <2>6 DEF AtMost, Part
  <2>8. Passed(rs, s)
    BY <2>2, <2>7 DEF Passed
  <2> QED
    BY <2>8 DEF rs
<1>10. ASSUME e.handler = "own", st = "HEADERPARSED"
       PROVE  Parsed(p.requests, e.in)
  <2>1. Parsed(p.requests, c.in)
    BY <1>1, <1>3, <1>4, <1>7, <1>10 DEF Status
  <2>2. c.in # <<>> /\ (p.requests[c.in[1][1]].kind = "post" \/ Len(c.in) >= p.requests[c.in[1][1]].parts)
    BY <2>1 DEF Parsed
  <2>3. Len(c.in) \in Nat \ {0}
    BY <1>1, <2>2, EmptySeq
  <2>4. e.in[1] = c.in[1] /\ Len(e.in) \in Nat /\ Len(e.in) >= Len(c.in) /\ Len(e.in) # 0
    <3>1. 1 \in 1..Len(c.in)
      BY <2>3
    <3>2. e.in[1] = c.in[1]
      BY <1>6, <3>1
    <3> DEFINE x == Len(e.in)
               y == Len(c.in)
               z2 == Len(v)
    <3>3. x = y + z2 /\ y \in Nat /\ z2 \in Nat /\ y # 0
      BY <1>6, <1>7, <2>3
    <3> HIDE DEF x, y, z2
    <3>4. x \in Nat /\ x >= y /\ x # 0
      BY <3>3
    <3> QED
      BY <3>2, <3>4 DEF x, y
  <2>5. e.in # <<>>
    BY <2>4, EmptySeq
  <2>6. PartOf(p.requests, c.in[1])
    BY <1>4, <2>3 DEF Flow
  <2>7. p.requests[c.in[1][1]].parts \in 1..2
    <3>1. Client(p)
      BY ClientsTyped DEF DataInv, DataTypes, p
    <3> QED
      BY <2>6, <3>1 DEF PartOf, Client
  <2>8. p.requests[e.in[1][1]].kind = "post" \/ Len(e.in) >= p.requests[e.in[1][1]].parts
    BY <2>2, <2>3, <2>4, <2>7
  <2> QED
    BY <2>5, <2>8 DEF Parsed
<1> HIDE DEF o, z
<1>11. e.state \in {"open", "closed"} /\ e.handler \in {"own", "push"}
  BY <1>1, <1>3 DEF o, z
<1>12. p.protocol = "ksxdr" => st = "INITIAL"
  BY <1>4 DEF Status
<1>13. Found(p, s, w, e, st, g)
  BY <1>3, <1>5, <1>6, <1>8, <1>9, <1>10, <1>11, <1>12 DEF Found
<1> QED
  BY <1>13 DEF e, p, s, g, st

(* One connection changes.                                                 *)
Becomes(k, s, w, c, h, g) ==
  /\ s \in Part /\ w \in Seq(Part) /\ c \in ChanType /\ h \in HttpType /\ g \in Seq(Nat)
  /\ plan' = plan
  /\ sent' = [sent EXCEPT ![k] = s] /\ wire' = [wire EXCEPT ![k] = w]
  /\ chan' = [chan EXCEPT ![k] = c] /\ http' = [http EXCEPT ![k] = h]
  /\ got' = [got EXCEPT ![k] = g]

LEMMA OneData ==
  ASSUME DataInv, NEW k \in Conns, NEW s, NEW w, NEW c, NEW h, NEW g,
         Data(plan[k], s, w, c, h.status, g), Becomes(k, s, w, c, h, g)
  PROVE  DataInv'
<1>1. DataTypes'
  BY DEF DataInv, DataTypes, Becomes
<1>2. ASSUME NEW j \in Conns
      PROVE  Data(plan[j], sent[j], wire[j], chan[j], http[j].status, got[j])'
  <2>1. CASE j = k
    <3>1. k \in DOMAIN sent /\ k \in DOMAIN wire /\ k \in DOMAIN chan /\ k \in DOMAIN http /\ k \in DOMAIN got
      BY DEF DataInv, DataTypes
    <3>2. sent'[k] = s /\ wire'[k] = w /\ chan'[k] = c /\ http'[k] = h /\ got'[k] = g
      BY <3>1 DEF Becomes
    <3>3. plan'[k] = plan[k]
      BY DEF Becomes
    <3> QED
      BY <2>1, <3>2, <3>3
  <2>2. CASE j # k
    <3>1. /\ sent'[j] = sent[j] /\ wire'[j] = wire[j] /\ chan'[j] = chan[j]
          /\ http'[j] = http[j] /\ got'[j] = got[j]
      BY <2>2 DEF DataInv, DataTypes, Becomes
    <3>2. Data(plan[j], sent[j], wire[j], chan[j], http[j].status, got[j])
      BY DEF DataInv
    <3> QED
      BY <3>1, <3>2 DEF Becomes
  <2> QED
    BY <2>1, <2>2
<1> QED
  BY <1>1, <1>2 DEF DataInv

(* What a step leaves alone, and a channel that is deleted.                *)
LEMMA AloneData ==
  ASSUME DataInv, UNCHANGED <<plan, sent, wire, got, chan, http>>
  PROVE  DataInv'
BY DEF DataInv, DataTypes

LEMMA GoneData ==
  ASSUME NEW p, NEW s, NEW v, NEW q, Flow(p.requests, s, v, q),
         NEW x, NEW c, NEW g, InOrder(p.requests, s, x, c, g),
         NEW st, p.protocol = "ksxdr" => st = "INITIAL",
         NEW w, NoParts(w)
  PROVE  Deleted \in ChanType /\ Data(p, s, w, Deleted, st, g)
<1> DEFINE d == Deleted
<1>1. /\ d \in ChanType /\ d.in = <<>> /\ d.rd = 0 /\ d.state = "gone"
  <2>1. <<>> \in Seq(Part) /\ <<>> \in Seq(Nat)
    BY EmptySeq
  <2> QED
    BY <2>1 DEF Deleted, NoChannel, Unassociated, ChanType
<1>2. \A i \in 1..Len(w) : FALSE
  BY EmptyFlow DEF NoParts
<1>3. Rising(w)
  BY <1>2 DEF Rising
<1> HIDE DEF d
<1>4. Flow(p.requests, s, w, q)
  BY <1>2, <1>3 DEF Flow
<1>5. /\ Flow(p.requests, s, w, d.in) /\ d.rd <= Len(d.in)
      /\ d.rd + 1..Len(d.in) = {}
  BY <1>1, <1>4, FreedBuffer
<1>6. InOrder(p.requests, s, w, d, g)
  BY <1>2, <1>5 DEF InOrder
<1>7. Buffers(p, d)
  BY <1>1, <1>5 DEF Buffers
<1>8. Status(p, s, w, d, st)
  BY <1>1 DEF Status
<1>9. d \in ChanType /\ Data(p, s, w, d, st, g)
  BY <1>1, <1>5, <1>6, <1>7, <1>8 DEF Data
<1> QED
  BY <1>9 DEF d

LEMMA DeleteData ==
  ASSUME DataInv, NEW k \in Conns, NEW ts, NEW hs, DeleteChannel(k, ts, hs),
         plan' = plan, sent' = sent,
         NEW h \in HttpType, http' = [http EXCEPT ![k] = h],
         plan[k].protocol = "ksxdr" => h.status = "INITIAL",
         NEW g \in Seq(Nat), got' = [got EXCEPT ![k] = g],
         NEW x, NEW c, InOrder(plan[k].requests, sent[k], x, c, g)
  PROVE  DataInv'
<1> DEFINE w == <<>>
<1>1. w \in Seq(Part) /\ NoParts(w)
  BY EmptySeq DEF NoParts
<1>2. chan' = [chan EXCEPT ![k] = Deleted] /\ wire' = [wire EXCEPT ![k] = w]
  BY DEF DeleteChannel
<1>3. sent[k] \in Part /\ sent' = [sent EXCEPT ![k] = sent[k]]
  BY OfOne
<1>4. Flow(plan[k].requests, sent[k], wire[k], chan[k].in)
  BY OfOne DEF Data
<1> HIDE DEF w
<1>5. Deleted \in ChanType /\ Data(plan[k], sent[k], w, Deleted, h.status, g)
  BY <1>1, <1>4, GoneData
<1> QED
  BY <1>1, <1>2, <1>3, <1>5, OneData DEF Becomes

(* A channel that is deleted when nothing was answered.                    *)
LEMMA LostData ==
  ASSUME DataInv, NEW k \in Conns, NEW ts, NEW hs, DeleteChannel(k, ts, hs),
         UNCHANGED <<plan, sent, http, got>>
  PROVE  DataInv'
<1>1. /\ http[k] \in HttpType /\ http' = [http EXCEPT ![k] = http[k]]
      /\ got[k] \in Seq(Nat) /\ got' = [got EXCEPT ![k] = got[k]]
      /\ Data(plan[k], sent[k], wire[k], chan[k], http[k].status, got[k])
  BY OfOne
<1>2. /\ InOrder(plan[k].requests, sent[k], wire[k], chan[k], got[k])
      /\ plan[k].protocol = "ksxdr" => http[k].status = "INITIAL"
  BY <1>1 DEF Data, Status
<1> QED
  BY <1>1, <1>2, DeleteData

LEMMA KeptData ==
  ASSUME DataInv, NEW k \in Conns, NEW c \in ChanType,
         Data(plan[k], sent[k], wire[k], c, http[k].status, got[k]),
         chan' = [chan EXCEPT ![k] = c], UNCHANGED <<plan, sent, wire, http, got>>
  PROVE  DataInv'
<1> DEFINE s == sent[k]
           w == wire[k]
           h == http[k]
           g == got[k]
<1>1. /\ s \in Part /\ w \in Seq(Part) /\ h \in HttpType /\ g \in Seq(Nat)
      /\ sent' = [sent EXCEPT ![k] = s] /\ wire' = [wire EXCEPT ![k] = w]
      /\ http' = [http EXCEPT ![k] = h] /\ got' = [got EXCEPT ![k] = g]
      /\ plan' = plan
  BY OfOne
<1>2. Data(plan[k], s, w, c, h.status, g)
  OBVIOUS
<1> HIDE DEF s, w, h, g
<1> QED
  <2>1. Becomes(k, s, w, c, h, g)
    BY <1>1 DEF Becomes
  <2> QED
    BY <1>2, <2>1, OneData

(* A channel that is left alone, or whose buffer is freed, or that is      *)
(* deleted, when it has received nothing for long.                         *)
LEMMA TimeOutData ==
  ASSUME DataInv, NEW k \in Conns, NEW c \in ChanType,
         c.state \in {"open", "closed"}, c.state = "open" => NoParts(wire[k]),
         Data(plan[k], sent[k], wire[k], c, http[k].status, got[k]),
         TimeOut(k, c), UNCHANGED <<plan, sent, http, got>>
  PROVE  DataInv'
<1>1. CASE c.quiet >= c.limit
  BY <1>1, LostData DEF TimeOut
<1>2. CASE ~(c.quiet >= c.limit) /\ ~(c.quiet >= Unused)
  <2>1. chan' = [chan EXCEPT ![k] = c] /\ wire' = wire
    BY <1>2 DEF TimeOut, Keep
  <2> QED
    BY <2>1, KeptData
<1>3. CASE ~(c.quiet >= c.limit) /\ c.quiet >= Unused
  <2> DEFINE d == Emptied(c)
  <2>1. chan' = [chan EXCEPT ![k] = d] /\ wire' = wire
    BY <1>3 DEF TimeOut, Keep
  <2>2. /\ d \in ChanType /\ d.in = <<>> /\ d.rd = 0 /\ d.handler = c.handler /\ d.state = c.state
        /\ d.out = c.out
    BY EmptySeq DEF Emptied, ChanType
  <2> HIDE DEF d
  <2>3. d.state = "open" => wire[k] = <<>> /\ Unsent(d.out)
    BY <2>2 DEF NoParts, Data, Buffers
  <2>4. Data(plan[k], sent[k], wire[k], d, http[k].status, got[k])
    BY <2>2, <2>3, FreedData
  <2> QED
    BY <2>1, <2>2, <2>4, KeptData
<1> QED
  BY <1>1, <1>2, <1>3

(* The clients and the network.                                            *)
LEMMA ClientData ==
  ASSUME DataInv, NEW k \in Conns, Connect(k) \/ SendPart(k) \/ Leave(k) \/ GiveUp(k)
  PROVE  DataInv'
<1>1. CASE Connect(k) \/ GiveUp(k)
  BY <1>1, AloneData DEF Connect, GiveUp, server
<1>2. CASE SendPart(k)
  <2> DEFINE p == plan[k]
             n == NextPart(k)
             c == chan[k]
             s == sent[k]
             w == wire[k]
             h == http[k]
             g == got[k]
             v == Append(w, n)
  <2>1. /\ Client(p) /\ s \in Part /\ w \in Seq(Part) /\ c \in ChanType /\ h \in HttpType
        /\ g \in Seq(Nat) /\ Data(p, s, w, c, h.status, g)
        /\ chan = [chan EXCEPT ![k] = c] /\ http = [http EXCEPT ![k] = h]
        /\ got = [got EXCEPT ![k] = g]
    BY OfOne
  <2>2. /\ n[1] \in DOMAIN p.requests /\ sent' = [sent EXCEPT ![k] = n]
        /\ wire' = [wire EXCEPT ![k] = v]
        /\ h.status = "HEADERPARSED" => ~NoParts(c.in)
    BY <1>2 DEF SendPart, GoesOn, NoParts
  <2>3. /\ plan' = plan /\ chan' = chan /\ http' = http /\ got' = got
    BY <1>2 DEF SendPart, server
  <2>4. n = Following(p.requests, s)
    BY DEF NextPart, Request, Following
  <2> HIDE DEF n, p, c, s, w, h, g
  <2>5. n[1] \in 1..Len(p.requests)
    BY <2>1, <2>2 DEF Client
  <2>6. n \in Part /\ Data(p, n, v, c, h.status, g)
    <3> DEFINE st == h.status
    <3>1. Data(p, s, w, c, st, g) /\ (st = "HEADERPARSED" => ~NoParts(c.in))
      BY <2>1, <2>2
    <3> HIDE DEF st
    <3>2. n \in Part /\ Data(p, n, v, c, st, g)
      BY <2>1, <2>4, <2>5, <3>1, SentData
    <3> QED
      BY <3>2 DEF st
  <2>7. v \in Seq(Part)
    BY <2>1, <2>6, AppendProperties
  <2> HIDE DEF v
  <2>8. /\ sent' = [sent EXCEPT ![k] = n] /\ wire' = [wire EXCEPT ![k] = v]
        /\ chan' = [chan EXCEPT ![k] = c] /\ http' = [http EXCEPT ![k] = h]
        /\ got' = [got EXCEPT ![k] = g] /\ plan' = plan
    BY <2>1, <2>2, <2>3
  <2>9. Data(plan[k], n, v, c, h.status, g)
    BY <2>6 DEF p
  <2>10. n \in Part /\ c \in ChanType /\ h \in HttpType /\ g \in Seq(Nat)
    BY <2>1, <2>6
  <2> QED
    BY <2>7, <2>8, <2>9, <2>10, OneData DEF Becomes
<1>3. CASE Leave(k)
  <2>1. UNCHANGED <<plan, sent, got, chan, http>>
    BY <1>3 DEF Leave, server
  <2>2. CASE wire' = wire
    BY <2>1, <2>2, AloneData
  <2>3. CASE wire' # wire
    <3> DEFINE s == sent[k]
               c == chan[k]
               h == http[k]
               g == got[k]
               v == <<>>
    <3>1. /\ s \in Part /\ c \in ChanType /\ h \in HttpType /\ g \in Seq(Nat)
          /\ Data(plan[k], s, wire[k], c, h.status, g)
      BY OfOne
    <3>2. wire' = [wire EXCEPT ![k] = v] /\ v \in Seq(Part)
      BY <1>3, <2>3, EmptySeq DEF Leave
    <3>3. Data(plan[k], s, v, c, h.status, g)
      BY <3>1, DroppedData
    <3>4. /\ plan' = plan
          /\ sent' = [sent EXCEPT ![k] = s] /\ chan' = [chan EXCEPT ![k] = c]
          /\ http' = [http EXCEPT ![k] = h] /\ got' = [got EXCEPT ![k] = g]
      BY <2>1, OfOne
    <3> HIDE DEF s, c, h, g, v
    <3>5. s \in Part /\ c \in ChanType /\ h \in HttpType /\ g \in Seq(Nat)
      BY <3>1
    <3> QED
      BY <3>2, <3>3, <3>4, <3>5, OneData DEF Becomes
  <2> QED
    BY <2>2, <2>3
<1> QED
  BY <1>1, <1>2, <1>3

LEMMA LaterData ==
  ASSUME DataInv, NEW k \in Conns, Later(k)
  PROVE  DataInv'
<1>1. PICK q \in {chan[k].limit, Unused} : chan' = [chan EXCEPT ![k].quiet = q]
  BY DEF Later
<1> DEFINE c == chan[k]
           d == [c EXCEPT !.quiet = q]
<1>2. /\ c \in ChanType /\ c.state \in {"open", "closed"}
      /\ Data(plan[k], sent[k], wire[k], c, http[k].status, got[k])
  BY OfOne DEF Later
<1>3. chan' = [chan EXCEPT ![k] = d]
  BY <1>1
<1>4. /\ d \in ChanType /\ d.in = c.in /\ d.rd = c.rd /\ d.handler = c.handler
      /\ d.state = c.state /\ d.out = c.out
  <2>1. q \in Nat
    <3>1. c.limit \in Nat /\ q \in {c.limit, Unused}
      BY <1>2 DEF ChanType
    <3> HIDE DEF c
    <3> QED
      BY <3>1 DEF Unused
  <2> HIDE DEF c
  <2> QED
    BY <1>2, <2>1 DEF ChanType
<1> HIDE DEF c, d
<1>5. d.state = "open" => Unsent(d.out)
  BY <1>2, <1>4 DEF Data, Buffers
<1>6. Data(plan[k], sent[k], wire[k], d, http[k].status, got[k])
  BY <1>2, <1>4, <1>5, SameData
<1>7. UNCHANGED <<plan, sent, wire, http, got>>
  BY DEF Later, clients
<1> QED
  BY <1>3, <1>4, <1>6, <1>7, KeptData

(* The other tasks.                                                        *)
LEMMA OthersData ==
  ASSUME DataInv,
         VisitListener \/ VisitServerRep \/ \E k \in Conns : VisitHandler(k) \/ VisitPush(k)
  PROVE  DataInv'
<1>1. CASE VisitListener
  <2>1. UNCHANGED <<plan, sent, wire, http, got>>
    BY <1>1 DEF VisitListener, clients
  <2>2. CASE chan' = chan
    BY <2>1, <2>2, AloneData
  <2>3. CASE chan' # chan
    <3>1. PICK k \in Conns : chan[k].state = "none" /\ chan' = [chan EXCEPT ![k].state = "open"]
      BY <1>1, <2>3 DEF VisitListener
    <3> DEFINE c == chan[k]
               d == [c EXCEPT !.state = "open"]
    <3>2. /\ c \in ChanType /\ c.state = "none"
          /\ Data(plan[k], sent[k], wire[k], c, http[k].status, got[k])
      BY <3>1, OfOne
    <3>3. chan' = [chan EXCEPT ![k] = d]
      BY <3>1
    <3>4. /\ d \in ChanType /\ d.in = c.in /\ d.rd = c.rd /\ d.handler = c.handler
          /\ d.state = "open" /\ d.out = c.out
      BY <3>2 DEF ChanType
    <3> HIDE DEF c, d
    <3>5. Unsent(d.out) /\ c.handler = "none"
      BY <3>2, <3>4 DEF Data, Buffers
    <3>6. Data(plan[k], sent[k], wire[k], d, http[k].status, got[k])
      BY <3>2, <3>4, <3>5, SameData
    <3> QED
      BY <2>1, <3>3, <3>4, <3>6, KeptData
  <2> QED
    BY <2>2, <2>3
<1>2. CASE VisitServerRep
  BY <1>2, AloneData DEF VisitServerRep, clients
<1>3. ASSUME NEW k \in Conns, VisitHandler(k)
      PROVE  DataInv'
  BY <1>3, AloneData DEF VisitHandler, clients
<1>4. ASSUME NEW k \in Conns, VisitPush(k)
      PROVE  DataInv'
  <2>1. UNCHANGED <<plan, sent, wire, http, got>>
    BY <1>4 DEF VisitPush, clients
  <2>2. CASE chan' = chan
    BY <2>1, <2>2, AloneData
  <2>3. CASE chan' # chan
    <3> DEFINE c == chan[k]
               d == Noted(c)
    <3>1. c \in ChanType /\ Data(plan[k], sent[k], wire[k], c, http[k].status, got[k])
      BY OfOne
    <3>2. chan' = [chan EXCEPT ![k] = d]
      BY <1>4, <2>3 DEF VisitPush
    <3>5. /\ d \in ChanType /\ d.in = c.in /\ d.rd = c.rd /\ d.handler = c.handler
          /\ d.state = c.state /\ (Unsent(c.out) => Unsent(d.out))
      BY <3>1, NotedUnsent
    <3> HIDE DEF c, d
    <3>6. Data(plan[k], sent[k], wire[k], d, http[k].status, got[k])
      <4> DEFINE p == plan[k]
                 s == sent[k]
                 w == wire[k]
                 g == got[k]
                 st == http[k].status
      <4>1. /\ Flow(p.requests, s, w, c.in) /\ InOrder(p.requests, s, w, c, g)
            /\ Buffers(p, c) /\ Status(p, s, w, c, st)
        BY <3>1 DEF Data
      <4> HIDE DEF p, s, w, g, st
      <4>2. InOrder(p.requests, s, w, d, g) /\ Flow(p.requests, s, w, d.in)
        BY <3>5, <4>1 DEF InOrder
      <4>3. Buffers(p, d)
        BY <3>5, <4>1 DEF Buffers
      <4>4. Status(p, s, w, d, st)
        BY <3>5, <4>1 DEF Status
      <4>5. Data(p, s, w, d, st, g)
        BY <4>2, <4>3, <4>4 DEF Data
      <4> QED
        BY <4>5 DEF p, s, w, g, st
    <3> QED
      BY <2>1, <3>2, <3>5, <3>6, KeptData
  <2> QED
    BY <2>2, <2>3
<1> QED
  BY <1>1, <1>2, <1>3, <1>4

(* The method of a channel that receives nothing new.                      *)
LEMMA FlushedData ==
  ASSUME NEW p, NEW s, NEW w, NEW c \in ChanType, NEW st, NEW g, Data(p, s, w, c, st, g),
         c.state \in {"open", "closed"}
  PROVE  Flushed(c) \in ChanType /\ Flushed(c).state = c.state /\ Data(p, s, w, Flushed(c), st, g)
<1> DEFINE d == Flushed(c)
<1>1. /\ d \in ChanType /\ d.in = c.in /\ d.rd = c.rd /\ d.handler = c.handler /\ d.state = c.state
      /\ d.state = "open" => d.out = <<>>
  <2>1. <<>> \in Seq(Nat)
    BY EmptySeq
  <2> QED
    BY <2>1 DEF Flushed, ChanType
<1> HIDE DEF d
<1>2. d.state = "open" => Unsent(d.out)
  BY <1>1 DEF Unsent
<1>3. Data(p, s, w, d, st, g)
  BY <1>1, <1>2, SameData
<1> QED
  BY <1>1, <1>3 DEF d

LEMMA ClosedData ==
  ASSUME NEW p, NEW s, NEW w, NEW c \in ChanType, NEW st, NEW g, Data(p, s, w, c, st, g),
         c.state \in {"open", "closed"}
  PROVE  Closed(c) \in ChanType /\ Closed(c).state = "closed" /\ Data(p, s, w, Closed(c), st, g)
<1> DEFINE d == Closed(c)
<1>1. /\ d \in ChanType /\ d.in = c.in /\ d.rd = c.rd /\ d.handler = c.handler
      /\ d.state = "closed"
  BY DEF Closed, Unused, ChanType
<1> HIDE DEF d
<1>2. Data(p, s, w, d, st, g)
  BY <1>1, SameData
<1> QED
  BY <1>1, <1>2 DEF d

LEMMA ResetData ==
  ASSUME DataInv, NEW k \in Conns, ReceiveReset(k)
  PROVE  DataInv'
<1> DEFINE p == plan[k]
           s == sent[k]
           v == wire[k]
           a == chan[k]
           h == http[k]
           g == got[k]
           w == <<>>
           c == [a EXCEPT !.in = @ \o v]
           d == Closed(c)
<1>1. /\ s \in Part /\ v \in Seq(Part) /\ a \in ChanType /\ h \in HttpType /\ g \in Seq(Nat)
      /\ Data(p, s, v, a, h.status, g) /\ a.state = "open"
  BY OfOne DEF ReceiveReset
<1>2. /\ plan' = plan /\ sent' = [sent EXCEPT ![k] = s]
      /\ http' = [http EXCEPT ![k] = h] /\ got' = [got EXCEPT ![k] = g]
      /\ UNCHANGED <<plan, sent, http, got>>
  BY OfOne DEF ReceiveReset, clients
<1>3. CASE c.in = <<>>
  <2>1. DeleteChannel(k, tasks, hand)
    BY <1>3 DEF ReceiveReset
  <2> QED
    BY <1>2, <2>1, LostData
<1>4. CASE c.in # <<>>
  <2>1. chan' = [chan EXCEPT ![k] = d] /\ wire' = [wire EXCEPT ![k] = w]
    BY <1>4 DEF ReceiveReset
  <2>2. w \in Seq(Part) /\ NoParts(w)
    BY EmptySeq DEF NoParts
  <2> HIDE DEF p, s, v, a, h, g, w
  <2>3. /\ d \in ChanType /\ d.in = a.in \o v /\ d.rd = a.rd /\ d.handler = a.handler
        /\ d.state = "closed"
    <3> DEFINE u == a.in \o v
    <3>1. u \in Seq(Part)
      BY <1>1, ConcatProperties DEF ChanType
    <3>2. c = [a EXCEPT !.in = u]
      BY <1>1 DEF ChanType
    <3> HIDE DEF u, c
    <3>3. c \in ChanType /\ c.in = u /\ c.rd = a.rd /\ c.handler = a.handler
      BY <1>1, <3>1, <3>2 DEF ChanType
    <3>4. d \in ChanType /\ d.in = u /\ d.rd = a.rd /\ d.handler = a.handler /\ d.state = "closed"
      BY <3>3 DEF Closed, Unused, ChanType
    <3> QED
      BY <3>4 DEF u
  <2> HIDE DEF d
  <2>4. /\ Flow(p.requests, s, v, a.in) /\ InOrder(p.requests, s, v, a, g) /\ Buffers(p, a)
        /\ Status(p, s, v, a, h.status)
    BY <1>1 DEF Data
  <2>5. a.in \in Seq(Part) /\ a.rd \in Nat /\ a.rd <= Len(a.in)
    BY <1>1, <2>4 DEF ChanType, Buffers
  <2>6. Together(p.requests, s, w, a, v, d, g)
    BY <1>1, <2>2, <2>3, <2>4, <2>5, Joined
  <2>7. Flow(p.requests, s, w, d.in) /\ InOrder(p.requests, s, w, d, g)
    BY <2>6 DEF Together
  <2>8. Buffers(p, d)
    BY <2>3, <2>4, <2>6 DEF Buffers, Together
  <2>9. Status(p, s, w, d, h.status)
    BY <1>1, <2>3, <2>4 DEF Status
  <2>10. Data(plan[k], s, w, d, h.status, g)
    BY <2>7, <2>8, <2>9 DEF Data, p
  <2>11. /\ s \in Part /\ w \in Seq(Part) /\ d \in ChanType /\ h \in HttpType /\ g \in Seq(Nat)
         /\ plan' = plan /\ sent' = [sent EXCEPT ![k] = s] /\ wire' = [wire EXCEPT ![k] = w]
         /\ chan' = [chan EXCEPT ![k] = d] /\ http' = [http EXCEPT ![k] = h]
         /\ got' = [got EXCEPT ![k] = g]
    BY <1>1, <1>2, <2>1, <2>2, <2>3
  <2> QED
    BY <2>10, <2>11, OneData DEF Becomes
<1> QED
  BY <1>3, <1>4

LEMMA IdleData ==
  ASSUME DataInv, NEW k \in Conns, ReceiveEnd(k) \/ ReceiveNothing(k) \/ NotOpen(k)
  PROVE  DataInv'
<1> DEFINE c == chan[k]
<1>1. /\ c \in ChanType /\ Data(plan[k], sent[k], wire[k], c, http[k].status, got[k])
  BY OfOne
<1>2. CASE ReceiveEnd(k)
  <2> DEFINE d == Closed(c)
  <2>1. c.state \in {"open", "closed"} /\ NoParts(wire[k]) /\ UNCHANGED <<plan, sent, http, got>>
    BY <1>2 DEF ReceiveEnd, clients, NoParts
  <2>2. /\ d \in ChanType /\ d.state = "closed"
        /\ Data(plan[k], sent[k], wire[k], d, http[k].status, got[k])
    BY <1>1, <2>1, ClosedData
  <2>3. DeleteChannel(k, tasks, hand) \/ TimeOut(k, Flushed(d)) \/ TimeOut(k, d)
    BY <1>2 DEF ReceiveEnd
  <2> HIDE DEF d
  <2>4. CASE DeleteChannel(k, tasks, hand)
    BY <2>1, <2>4, LostData
  <2>5. CASE TimeOut(k, d)
    BY <2>1, <2>2, <2>5, TimeOutData
  <2>6. CASE TimeOut(k, Flushed(d))
    <3> DEFINE e == Flushed(d)
    <3>1. /\ e \in ChanType /\ e.state \in {"open", "closed"}
          /\ Data(plan[k], sent[k], wire[k], e, http[k].status, got[k])
      BY <2>2, FlushedData
    <3>2. TimeOut(k, e)
      BY <2>6
    <3> HIDE DEF e
    <3> QED
      BY <2>1, <3>1, <3>2, TimeOutData
  <2> QED
    BY <2>3, <2>4, <2>5, <2>6
<1>3. CASE ReceiveNothing(k)
  <2>1. c.state = "open" /\ NoParts(wire[k]) /\ UNCHANGED <<plan, sent, http>>
    BY <1>3 DEF ReceiveNothing, NoParts
  <2>2. got' = got
    <3>1. CASE Deliver(k, c)
      <4>1. Unsent(c.out) /\ got[k] \in Seq(Nat)
        BY <1>1, <2>1, OfOne DEF Data, Buffers
      <4>2. got[k] \o RemoveFirst(c.out, 0) = got[k]
        BY <4>1, SentAnswers, ConcatEmptySeq
      <4>3. got = [got EXCEPT ![k] = got[k]]
        BY OfOne
      <4>4. got' = got \/ got' = [got EXCEPT ![k] = got[k] \o RemoveFirst(c.out, 0)]
        BY <3>1 DEF Deliver
      <4> QED
        BY <4>2, <4>3, <4>4
    <3>2. Deliver(k, c) \/ got' = got
      BY <1>3 DEF ReceiveNothing
    <3> QED
      BY <3>1, <3>2
  <2>3. UNCHANGED <<plan, sent, http, got>>
    BY <2>1, <2>2
  <2>4. DeleteChannel(k, tasks, hand) \/ TimeOut(k, Flushed(c)) \/ TimeOut(k, c)
    BY <1>3 DEF ReceiveNothing
  <2> HIDE DEF c
  <2>5. CASE DeleteChannel(k, tasks, hand)
    BY <2>3, <2>5, LostData
  <2>6. CASE TimeOut(k, c)
    BY <1>1, <2>1, <2>3, <2>6, TimeOutData
  <2>7. CASE TimeOut(k, Flushed(c))
    <3> DEFINE e == Flushed(c)
    <3>1. /\ e \in ChanType /\ e.state \in {"open", "closed"}
          /\ Data(plan[k], sent[k], wire[k], e, http[k].status, got[k])
      BY <1>1, <2>1, FlushedData
    <3>2. TimeOut(k, e)
      BY <2>7
    <3> HIDE DEF e
    <3> QED
      BY <2>1, <2>3, <3>1, <3>2, TimeOutData
  <2> QED
    BY <2>4, <2>5, <2>6, <2>7
<1>4. CASE NotOpen(k)
  <2> DEFINE d == Closed(c)
  <2>1. c.state = "closed" /\ UNCHANGED <<plan, sent, http, got>>
    BY <1>4 DEF NotOpen, clients
  <2>2. /\ d \in ChanType /\ d.state = "closed"
        /\ Data(plan[k], sent[k], wire[k], d, http[k].status, got[k])
    BY <1>1, <2>1, ClosedData
  <2>3. DeleteChannel(k, tasks, hand) \/ TimeOut(k, d)
    BY <1>4 DEF NotOpen
  <2> HIDE DEF d
  <2>4. CASE DeleteChannel(k, tasks, hand)
    BY <2>1, <2>4, LostData
  <2>5. CASE TimeOut(k, d)
    BY <2>1, <2>2, <2>5, TimeOutData
  <2> QED
    BY <2>3, <2>4, <2>5
<1> QED
  BY <1>2, <1>3, <1>4

(* A channel that has called a handler.                                    *)
Keeps(e, b, c) ==
  /\ e.state \in {"open", "closed"} /\ ~(b.closing /\ b.state = "open")
  /\ c.in = b.in /\ c.rd = b.rd /\ c.state = b.state /\ c.handler = b.handler
  /\ c.state = "open" => Unsent(c.out)

LEMMA HandledData ==
  ASSUME NEW p, NEW s, NEW w, NoParts(w), NEW e, NEW d, NEW g, Left(p, s, w, e, d, g),
         NEW c, Keeps(e, d.c, c),
         NEW a, InOrder(p.requests, s, w, d.c, a)
  PROVE  Data(p, s, w, c, d.h.status, a)
<1> DEFINE st == d.h.status
           b == d.c
<1>1. /\ b.state = e.state /\ b.handler \in {"own", "push"}
      /\ Flow(p.requests, s, w, b.in) /\ b.rd <= Len(b.in)
      /\ p.protocol # "ksxdr" => b.rd = 0
      /\ p.protocol = "ksxdr" => st = "INITIAL"
      /\ b.handler = "own" /\ ~b.closing =>
           /\ st = "SHUTDOWN" => Spoilt(p.requests, s, w)
           /\ st = "HEADERPARSED" => Parsed(p.requests, b.in)
  BY DEF Left, Ordered
<1>2. /\ c.in = b.in /\ c.rd = b.rd /\ c.state = b.state /\ c.handler = b.handler
      /\ c.state = "open" => Unsent(c.out)
      /\ e.state \in {"open", "closed"} /\ ~(b.closing /\ b.state = "open")
  BY DEF Keeps
<1>3. InOrder(p.requests, s, w, b, a)
  OBVIOUS
<1> HIDE DEF st, b
<1>4. Flow(p.requests, s, w, c.in) /\ InOrder(p.requests, s, w, c, a)
  BY <1>1, <1>2, <1>3 DEF InOrder
<1>5. Buffers(p, c)
  BY <1>1, <1>2 DEF Buffers
<1>6. Status(p, s, w, c, st)
  BY <1>1, <1>2 DEF Status, NoParts
<1> QED
  BY <1>4, <1>5, <1>6 DEF Data, st

LEMMA HandleDataData ==
  ASSUME DataInv, NEW k \in Conns, HandleData(k)
  PROVE  DataInv'
<1> DEFINE p == plan[k]
           s == sent[k]
           g == got[k]
           w == <<>>
           e == Received(k)
<1>1. /\ plan' = plan /\ sent' = sent /\ chan[k].state = "open" /\ wire[k] # <<>>
  BY DEF HandleData
<1>2. CASE Unknown(k) \/ Orphan(k)
  <2>1. DeleteChannel(k, tasks, hand) /\ UNCHANGED <<plan, sent, http, got>>
    BY <1>2 DEF HandleData
  <2> QED
    BY <2>1, LostData
<1>3. CASE ~(Unknown(k) \/ Orphan(k))
  <2>1. w \in Seq(Part) /\ NoParts(w)
    BY EmptySeq DEF NoParts
  <2>2. /\ Client(p) /\ s \in Part /\ g \in Seq(Nat) /\ sent = [sent EXCEPT ![k] = s]
        /\ got = [got EXCEPT ![k] = g] /\ DataTypes
    BY OfOne DEF DataInv
  <2>13. PICK d \in HandleRequest(k, e) :
        /\ http' = [http EXCEPT ![k] = d.h]
        /\ IF d.effect = "failed" THEN UNCHANGED <<got, lost>> ELSE Deliver(k, d.c)
        /\ \/ /\ d.c.closing /\ d.c.state = "open"
              /\ \E ts, hs : DeleteChannel(k, ts, hs)
           \/ /\ ~(d.c.closing /\ d.c.state = "open")
              /\ chan' = [chan EXCEPT ![k] = IF d.effect = "failed" THEN d.c ELSE Flushed(d.c)]
              /\ wire' = [wire EXCEPT ![k] = w]
    BY <1>3 DEF HandleData
  <2> DEFINE c == IF d.effect = "failed" THEN d.c ELSE Flushed(d.c)
  <2>3. /\ http' = [http EXCEPT ![k] = d.h]
        /\ d.effect = "failed" => got' = got
        /\ d.effect # "failed" => Deliver(k, d.c)
        /\ \/ /\ d.c.closing /\ d.c.state = "open"
              /\ \E ts, hs : DeleteChannel(k, ts, hs)
           \/ /\ ~(d.c.closing /\ d.c.state = "open")
              /\ chan' = [chan EXCEPT ![k] = c] /\ wire' = [wire EXCEPT ![k] = w]
    BY <2>13
  <2>4. d.effect # "failed" =>
          got' = got \/ got' = [got EXCEPT ![k] = g \o RemoveFirst(d.c.out, 0)]
    BY <2>3 DEF Deliver
  <2> HIDE DEF w
  <2>5. Found(p, s, w, e, http[k].status, g)
    BY <1>1, <2>1, ReceivedFound
  <2> HIDE DEF e
  <2>6. Left(p, s, w, e, d, g)
    <3> DEFINE pk == plan[k]
    <3>1. pk = plan[k] /\ Client(pk) /\ Found(pk, s, w, e, http[k].status, g)
      BY <2>2, <2>5
    <3> HIDE DEF p, pk
    <3>2. Left(pk, s, w, e, d, g)
      BY <2>1, <2>2, <3>1, HandlerLeaves
    <3> QED
      BY <3>2 DEF pk, p
  <2>7. Left(p, s, w, e, d, g) /\ e.state \in {"open", "closed"}
    BY <2>5, <2>6 DEF Found
  <2>8. /\ d.c \in ChanType /\ d.h \in HttpType /\ d.c.state = e.state
        /\ InOrder(p.requests, s, w, d.c, g)
        /\ p.protocol = "ksxdr" => d.h.status = "INITIAL"
        /\ d.effect = "failed" => d.c.out = <<>>
    BY <2>7 DEF Left, Ordered
  <2>9. \E x \in Seq(Nat) : got' = [got EXCEPT ![k] = x] /\ InOrder(p.requests, s, w, d.c, x)
    <3>1. CASE got' = got
      BY <2>2, <2>8, <3>1
    <3>2. CASE got' # got
      <4>1. d.effect # "failed" /\ got' = [got EXCEPT ![k] = g \o RemoveFirst(d.c.out, 0)]
        BY <2>3, <2>4, <3>2
      <4>2. /\ g \o RemoveFirst(d.c.out, 0) \in Seq(Nat)
            /\ InOrder(p.requests, s, w, d.c, g \o RemoveFirst(d.c.out, 0))
        BY <2>7, <4>1 DEF Left, Answers
      <4> QED
        BY <4>1, <4>2
    <3> QED
      BY <3>1, <3>2
  <2>10. PICK x \in Seq(Nat) : got' = [got EXCEPT ![k] = x] /\ InOrder(p.requests, s, w, d.c, x)
    BY <2>9
  <2>11. CASE \E ts, hs : DeleteChannel(k, ts, hs)
    <3>1. PICK ts, hs : DeleteChannel(k, ts, hs)
      BY <2>11
    <3> DEFINE h == d.h
               b == d.c
    <3>2. /\ h \in HttpType /\ http' = [http EXCEPT ![k] = h]
          /\ plan[k].protocol = "ksxdr" => h.status = "INITIAL"
      BY <2>3, <2>8
    <3>3. InOrder(plan[k].requests, sent[k], w, b, x)
      BY <2>10
    <3> HIDE DEF h, b
    <3> QED
      BY <1>1, <2>10, <3>1, <3>2, <3>3, DeleteData
  <2>12. CASE /\ ~(d.c.closing /\ d.c.state = "open")
              /\ chan' = [chan EXCEPT ![k] = c] /\ wire' = [wire EXCEPT ![k] = w]
    <3> DEFINE b == d.c
               h == d.h
    <3>1. /\ c \in ChanType /\ c.in = b.in /\ c.rd = b.rd /\ c.state = b.state
          /\ c.handler = b.handler
          /\ c.state = "open" => c.out = <<>>
      <4>1. CASE d.effect = "failed"
        BY <2>8, <4>1
      <4>2. CASE d.effect # "failed"
        <5>1. b \in ChanType /\ <<>> \in Seq(Nat) /\ c = Flushed(b)
          BY <2>8, <4>2, EmptySeq
        <5> HIDE DEF b, c
        <5> QED
          BY <5>1 DEF Flushed, ChanType
      <4> QED
        BY <4>1, <4>2
    <3> HIDE DEF c
    <3>2. c.state = "open" => Unsent(c.out)
      BY <3>1 DEF Unsent
    <3>3. Data(p, s, w, c, d.h.status, x)
      <4>1. Keeps(e, d.c, c)
        BY <2>7, <2>12, <3>1, <3>2 DEF Keeps
      <4>2. InOrder(p.requests, s, w, d.c, x) /\ NoParts(w) /\ Left(p, s, w, e, d, g)
        BY <2>1, <2>7, <2>10
      <4> HIDE DEF p, s, g, h, b
      <4> QED
        BY <4>1, <4>2, HandledData
    <3>4. h \in HttpType /\ http' = [http EXCEPT ![k] = h] /\ Data(plan[k], s, w, c, h.status, x)
      BY <2>3, <2>8, <3>3
    <3>5. /\ plan' = plan /\ sent' = [sent EXCEPT ![k] = s] /\ chan' = [chan EXCEPT ![k] = c]
          /\ wire' = [wire EXCEPT ![k] = w] /\ got' = [got EXCEPT ![k] = x]
          /\ s \in Part /\ c \in ChanType /\ w \in Seq(Part)
      BY <1>1, <2>1, <2>2, <2>10, <2>12, <3>1
    <3> HIDE DEF h, s
    <3> QED
      BY <3>4, <3>5, OneData DEF Becomes
  <2> QED
    BY <2>3, <2>11, <2>12
<1> QED
  BY <1>2, <1>3

----------------------------------------------------------------------------
LEMMA DataInit ==
  ASSUME Init
  PROVE  DataInv
<1> DEFINE v == <<>>
           c == NoChannel
           s == <<1, 0>>
<1>1. v \in Seq(Part) /\ v \in Seq(Nat) /\ Len(v) = 0 /\ (\A i \in 1..Len(v) : FALSE) /\ Rising(v)
  BY EmptySeq, EmptyFlow
<1>2. /\ c \in ChanType /\ c.in = v /\ c.rd = 0 /\ c.out = v /\ c.state = "none" /\ c.handler = "none"
  BY <1>1 DEF NoChannel, Unassociated, ChanType
<1>3. DataTypes
  BY <1>1, <1>2 DEF Init, DataTypes, Part, HttpType
<1>4. Unsent(v)
  BY DEF Unsent
<1>5. ASSUME NEW k \in Conns
      PROVE  /\ sent[k] = s /\ wire[k] = v /\ chan[k] = c /\ http[k].status = "INITIAL"
             /\ got[k] = v
  BY DEF Init
<1> HIDE DEF v, c
<1>6. ASSUME NEW p
      PROVE  Data(p, s, v, c, "INITIAL", v)
  <2>1. Flow(p.requests, s, v, v)
    BY <1>1 DEF Flow
  <2>2. InOrder(p.requests, s, v, c, v)
    BY <1>1 DEF InOrder
  <2>3. Buffers(p, c)
    BY <1>1, <1>2, <1>4 DEF Buffers
  <2>4. Status(p, s, v, c, "INITIAL")
    BY DEF Status
  <2> QED
    BY <1>2, <2>1, <2>2, <2>3, <2>4 DEF Data
<1>7. ASSUME NEW k \in Conns
      PROVE  Data(plan[k], sent[k], wire[k], chan[k], http[k].status, got[k])
  BY <1>5, <1>6
<1> QED
  BY <1>3, <1>7 DEF DataInv

LEMMA DataNext ==
  ASSUME DataInv, [Next]_vars
  PROVE  DataInv'
<1>1. CASE Server
  <2>1. ASSUME NEW k \in Conns, VisitChannel(k)
        PROVE  DataInv'
    BY <2>1, ResetData, IdleData, HandleDataData DEF VisitChannel
  <2> QED
    BY <1>1, <2>1, OthersData DEF Server
<1>2. CASE Clients
  BY <1>2, ClientData DEF Clients
<1>3. CASE Network
  BY <1>3, ClientData, LaterData DEF Network
<1>4. CASE UNCHANGED vars
  BY <1>4, AloneData DEF vars
<1> QED
  BY <1>1, <1>2, <1>3, <1>4 DEF Next, Undefined

(* Every client gets its answers in the order of its requests, none twice  *)
(* and none before the request was sent completely, or had begun, if it is *)
(* denied: what the channels have kept of earlier parts, what arrives with *)
(* it, what requests leave behind, what is read where no message begins    *)
(* and what timeouts free never mixes them up (TCPChannel.c, the           *)
(* HandleRequest methods of xdrClientHandler.c and httpclienthandler.c).   *)
THEOREM AnswersStayInOrder == Spec => []AnswersInOrder
<1>1. Init => DataInv
  BY DataInit
<1>2. DataInv /\ [Next]_vars => DataInv'
  BY DataNext
<1>3. DataInv => AnswersInOrder
  <2> SUFFICES ASSUME DataInv, NEW k \in Conns
               PROVE  /\ \A i, j \in DOMAIN got[k] : i < j => got[k][i] < got[k][j]
                      /\ \A i \in DOMAIN got[k] : Due(k, got[k][i])
    BY DEF AnswersInOrder
  <2> DEFINE g == got[k]
  <2>1. g \in Seq(Nat) /\ InOrder(plan[k].requests, sent[k], wire[k], chan[k], g)
    BY OfOne DEF Data
  <2> HIDE DEF g
  <2>2. DOMAIN g = 1..Len(g)
    BY <2>1, LenProperties
  <2>3. \A i, j \in 1..Len(g) : i < j => g[i] < g[j]
    BY <2>1 DEF InOrder
  <2>4. \A i \in 1..Len(g) : Due(k, g[i])
    BY <2>1 DEF InOrder, Begun, Complete, Due, AllSent, Request
  <2> QED
    BY <2>2, <2>3, <2>4 DEF g
<1> QED
  BY <1>1, <1>2, <1>3, PTL DEF Spec
----------------------------------------------------------------------------
(* The list of tasks.                                                      *)
Before(ts, x, y) == \E i, j \in 1..Len(ts) : i < j /\ ts[i] = x /\ ts[j] = y

Tasks ==
  {Listener, ServerRep} \cup {Channel(k) : k \in Conns}
  \cup {Handler(k) : k \in Conns} \cup {Push(k) : k \in Conns}

(* Each task is there once, and the listener is the first.                 *)
Listed(ts) ==
  /\ ts \in Seq(Tasks) /\ 0 < Len(ts) /\ ts[1] = Listener
  /\ \A i, j \in 1..Len(ts) : ts[i] = ts[j] => i = j

Added(ts, us, x) ==
  /\ Listed(us)
  /\ \A y : Contains(us, y) <=> Contains(ts, y) \/ y = x
  /\ \A y, z : Before(ts, y, z) => Before(us, y, z)
  /\ \A y : Contains(ts, y) => Before(us, y, x)

Removed(ts, us, x) ==
  /\ Listed(us)
  /\ \A y : Contains(us, y) <=> Contains(ts, y) /\ y # x
  /\ \A y, z : y # x /\ z # x /\ Before(ts, y, z) => Before(us, y, z)

LEMMA TasksDiffer ==
  /\ \A k \in Conns : /\ Channel(k) \in Tasks /\ Handler(k) \in Tasks /\ Push(k) \in Tasks
                      /\ Listener \notin {Channel(k), Handler(k), Push(k)}
                      /\ ServerRep \notin {Channel(k), Handler(k), Push(k)}
  /\ \A j, k \in Conns :
       /\ Channel(j) = Channel(k) => j = k
       /\ Handler(j) = Handler(k) => j = k
       /\ Push(j) = Push(k) => j = k
       /\ Channel(j) # Handler(k) /\ Channel(j) # Push(k) /\ Handler(j) # Push(k)
  /\ Listener # ServerRep /\ ServerRep \in Tasks /\ Listener \in Tasks
<1>1. \A j, k \in Conns :
        /\ <<"channel", j>> = <<"channel", k>> => j = k
        /\ <<"handler", j>> = <<"handler", k>> => j = k
        /\ <<"push", j>> = <<"push", k>> => j = k
        /\ <<"channel", j>> # <<"handler", k>> /\ <<"channel", j>> # <<"push", k>>
        /\ <<"handler", j>> # <<"push", k>>
  OBVIOUS
<1>2. \A k \in Conns :
        /\ <<"listener", Nil>> \notin {<<"channel", k>>, <<"handler", k>>, <<"push", k>>}
        /\ <<"rep", Nil>> \notin {<<"channel", k>>, <<"handler", k>>, <<"push", k>>}
  OBVIOUS
<1>3. <<"listener", Nil>> # <<"rep", Nil>>
  OBVIOUS
<1>4. /\ \A k \in Conns : Channel(k) \in Tasks /\ Handler(k) \in Tasks /\ Push(k) \in Tasks
      /\ ServerRep \in Tasks /\ Listener \in Tasks
  BY DEF Tasks
<1> QED
  BY <1>1, <1>2, <1>3, <1>4 DEF Channel, Handler, Push, Listener, ServerRep

LEMMA TaskAdded ==
  ASSUME NEW ts, Listed(ts), NEW x \in Tasks, ~Contains(ts, x)
  PROVE  Added(ts, Append(ts, x), x)
<1> DEFINE us == Append(ts, x)
           n == Len(ts)
<1>1. ts \in Seq(Tasks) /\ n \in Nat /\ 0 < n /\ ts[1] = Listener
  BY LenProperties DEF Listed
<1>2. /\ us \in Seq(Tasks) /\ Len(us) = n + 1 /\ us[n + 1] = x
      /\ \A i \in 1..n : us[i] = ts[i]
  BY <1>1, AppendProperties
<1>3. \A i \in 1..n : ts[i] # x
  BY DEF Contains
<1>4. \A i, j \in 1..n : ts[i] = ts[j] => i = j
  BY DEF Listed
<1> HIDE DEF us
<1>5. \A i \in 1..Len(us) : (i \in 1..n /\ us[i] = ts[i]) \/ (i = n + 1 /\ us[i] = x)
  <2> HIDE DEF n
  <2> QED
    BY <1>1, <1>2
<1>6. (\A i \in 1..n : i \in 1..Len(us)) /\ n + 1 \in 1..Len(us) /\ 1 \in 1..n
  BY <1>1, <1>2
<1>7. Listed(us)
  <2>1. \A i, j \in 1..Len(us) : us[i] = us[j] => i = j
    BY <1>3, <1>4, <1>5
  <2>2. us[1] = Listener /\ 0 < Len(us)
    BY <1>1, <1>2, <1>6
  <2> QED
    BY <1>2, <2>1, <2>2 DEF Listed
<1>8. ASSUME NEW y
      PROVE  Contains(us, y) <=> Contains(ts, y) \/ y = x
  BY <1>2, <1>5, <1>6 DEF Contains, n
<1>9. ASSUME NEW y, NEW z, Before(ts, y, z)
      PROVE  Before(us, y, z)
  <2>1. PICK i \in 1..n, j \in 1..n : i < j /\ ts[i] = y /\ ts[j] = z
    BY <1>9 DEF Before
  <2> QED
    BY <1>2, <1>6, <2>1 DEF Before
<1>10. ASSUME NEW y, Contains(ts, y)
       PROVE  Before(us, y, x)
  <2>1. PICK i \in 1..n : ts[i] = y
    BY <1>10 DEF Contains
  <2>2. i < n + 1
    BY <1>1, <2>1
  <2> QED
    BY <1>2, <1>6, <2>1, <2>2 DEF Before
<1>11. Added(ts, us, x)
  BY <1>7, <1>8, <1>9, <1>10 DEF Added
<1> QED
  BY <1>11 DEF us

LEMMA TaskRemoved ==
  ASSUME NEW ts, Listed(ts), NEW x, x # Listener
  PROVE  Removed(ts, RemoveFirst(ts, x), x)
<1> DEFINE us == RemoveFirst(ts, x)
           n == Len(ts)
<1>1. ts \in Seq(Tasks) /\ n \in Nat /\ 0 < n /\ ts[1] = Listener
  BY LenProperties DEF Listed
<1>2. \A i, j \in 1..n : ts[i] = ts[j] => i = j
  BY DEF Listed
<1>3. CASE ~\E i \in 1..Len(ts) : ts[i] = x
  <2>1. us = ts /\ ~Contains(ts, x)
    BY <1>3 DEF RemoveFirst, Contains
  <2> QED
    BY <2>1 DEF Removed
<1>4. CASE \E i \in 1..Len(ts) : ts[i] = x
  <2>1. us \in Seq(Tasks) /\ \E i \in 1..n : ts[i] = x /\ us = General!RemoveAt(ts, i)
    <3>1. General!Contains(ts, x)
      BY <1>4 DEF General!Contains
    <3>2. /\ General!RemoveFirst(ts, x) \in Seq(Tasks)
          /\ \E i \in 1..Len(ts) : ts[i] = x /\ General!RemoveFirst(ts, x) = General!RemoveAt(ts, i)
      BY <1>1, <3>1, General!RemoveFirstProperties
    <3> QED
      BY <3>2, RemoveFirstSame
  <2>2. PICK m \in 1..n : ts[m] = x /\ us = General!RemoveAt(ts, m)
    BY <2>1
  <2>3. /\ Len(us) = n - 1
        /\ \A j \in 1..n - 1 : us[j] = IF j < m THEN ts[j] ELSE ts[j + 1]
    <3> DEFINE vs == General!RemoveAt(ts, m)
    <3>1. /\ Len(vs) = Len(ts) - 1
          /\ \A j \in 1..Len(ts) - 1 : vs[j] = IF j < m THEN ts[j] ELSE ts[j + 1]
      BY <1>1, General!RemoveAtProperties
    <3>2. us = vs
      BY <2>2
    <3> HIDE DEF us, vs
    <3> QED
      BY <3>1, <3>2
  <2> HIDE DEF us, n
  <2>4. \A j \in 1..Len(us) : (j < m /\ j \in 1..n /\ us[j] = ts[j])
                              \/ (j >= m /\ j + 1 \in 1..n /\ us[j] = ts[j + 1])
    BY <1>1, <2>3
  <2>5. \A i \in 1..n : \/ i = m
                        \/ i < m /\ i \in 1..Len(us) /\ us[i] = ts[i]
                        \/ i > m /\ i - 1 \in 1..Len(us) /\ us[i - 1] = ts[i]
    <3> TAKE i \in 1..n
    <3>1. CASE i < m
      BY <1>1, <2>3, <3>1
    <3>2. CASE i > m
      <4>1. i - 1 \in 1..n - 1 /\ ~(i - 1 < m) /\ (i - 1) + 1 = i
        BY <1>1, <3>2
      <4> QED
        BY <2>3, <3>2, <4>1
    <3> QED
      BY <1>1, <3>1, <3>2
  <2>6. m > 1
    BY <1>1, <2>2
  <2>7. Listed(us)
    <3>1. ASSUME NEW i \in 1..Len(us), NEW j \in 1..Len(us), us[i] = us[j]
          PROVE  i = j
      <4>1. CASE i < m /\ j < m
        BY <1>2, <2>4, <3>1, <4>1
      <4>2. CASE i >= m /\ j >= m
        <5>1. i + 1 = j + 1
          BY <1>2, <2>4, <3>1, <4>2
        <5> QED
          BY <5>1
      <4>3. CASE i < m /\ j >= m
        <5>1. i = j + 1
          BY <1>2, <2>4, <3>1, <4>3
        <5> QED
          BY <4>3, <5>1
      <4>4. CASE i >= m /\ j < m
        <5>1. i + 1 = j
          BY <1>2, <2>4, <3>1, <4>4
        <5> QED
          BY <4>4, <5>1
      <4>5. (i < m \/ i >= m) /\ (j < m \/ j >= m)
        OBVIOUS
      <4> QED
        BY <4>1, <4>2, <4>3, <4>4, <4>5
    <3>2. 0 < Len(us) /\ us[1] = Listener
      <4>1. n - 1 > 0 /\ 1 \in 1..n - 1 /\ 1 < m
        BY <1>1, <2>6
      <4> QED
        BY <1>1, <2>3, <4>1
    <3> QED
      BY <2>1, <3>1, <3>2 DEF Listed, us
  <2>8. ASSUME NEW y
        PROVE  Contains(us, y) <=> Contains(ts, y) /\ y # x
    <3>1. ASSUME Contains(us, y)
          PROVE  Contains(ts, y) /\ y # x
      <4>1. PICK j \in 1..Len(us) : us[j] = y
        BY <3>1 DEF Contains
      <4>2. \E i \in 1..n : i # m /\ ts[i] = y
        BY <2>4, <4>1
      <4> QED
        BY <1>2, <2>2, <4>2 DEF Contains, n
    <3>2. ASSUME Contains(ts, y), y # x
          PROVE  Contains(us, y)
      <4>1. PICK i \in 1..n : ts[i] = y
        BY <3>2 DEF Contains, n
      <4>2. i # m
        BY <2>2, <3>2, <4>1
      <4> QED
        BY <2>5, <4>1, <4>2 DEF Contains
    <3> QED
      BY <3>1, <3>2
  <2>9. ASSUME NEW y, NEW z, y # x, z # x, Before(ts, y, z)
        PROVE  Before(us, y, z)
    <3>1. PICK i \in 1..n, j \in 1..n : i < j /\ ts[i] = y /\ ts[j] = z
      BY <2>9 DEF Before, n
    <3>2. i # m /\ j # m
      BY <2>2, <2>9, <3>1
    <3>3. CASE i < m /\ j < m
      BY <2>5, <3>1, <3>3 DEF Before
    <3>4. CASE i < m /\ j > m
      <4>1. i < j - 1
        BY <3>4
      <4> QED
        BY <2>5, <3>1, <3>4, <4>1 DEF Before
    <3>5. CASE i > m /\ j > m
      <4>1. i - 1 < j - 1
        BY <3>1
      <4> QED
        BY <2>5, <3>1, <3>5, <4>1 DEF Before
    <3>6. (i < m \/ i > m) /\ (j < m \/ j > m) /\ ~(i > m /\ j < m)
      BY <3>1, <3>2
    <3> QED
      BY <3>3, <3>4, <3>5, <3>6
  <2>10. Removed(ts, us, x)
    BY <2>7, <2>8, <2>9 DEF Removed
  <2> QED
    BY <2>10 DEF us
<1> QED
  BY <1>3, <1>4

(* The task after t is in the list, is not t, and has nothing between t    *)
(* and itself.                                                             *)
LEMMA SuccessorSound ==
  ASSUME Listed(tasks), NEW t, Contains(tasks, t)
  PROVE  /\ Contains(tasks, Successor(t))
         /\ t # Listener => Successor(t) # t
         /\ \A x, y : Before(tasks, t, x) /\ Before(tasks, x, y) => Successor(t) # y
<1> DEFINE n == Len(tasks)
           i == CHOOSE i \in DOMAIN tasks : tasks[i] = t
<1>1. /\ tasks \in Seq(Tasks) /\ n \in Nat /\ 0 < n /\ tasks[1] = Listener /\ DOMAIN tasks = 1..n
      /\ \A a, b \in 1..n : tasks[a] = tasks[b] => a = b
  BY LenProperties DEF Listed
<1>2. i \in 1..n /\ tasks[i] = t
  BY <1>1 DEF Contains
<1>3. Successor(t) = IF i = n THEN Head(tasks) ELSE tasks[i + 1]
  BY DEF Successor
<1>4. Head(tasks) = tasks[1]
  BY <1>1
<1> HIDE DEF i, n
<1>5. CASE i = n
  <2>1. Successor(t) = tasks[1] /\ 1 \in 1..n
    BY <1>1, <1>3, <1>4, <1>5
  <2>2. \A x : ~Before(tasks, t, x)
    <3> SUFFICES ASSUME NEW x, Before(tasks, t, x)
                 PROVE  FALSE
      OBVIOUS
    <3>1. PICK a \in 1..n, b \in 1..n : a < b /\ tasks[a] = t
      BY DEF Before, n
    <3>2. a = i
      BY <1>1, <1>2, <3>1
    <3> QED
      BY <1>1, <1>5, <3>1, <3>2
  <2>3. Contains(tasks, Successor(t))
    BY <2>1 DEF Contains, n
  <2> QED
    BY <1>1, <2>1, <2>2, <2>3
<1>6. CASE i # n
  <2>1. Successor(t) = tasks[i + 1] /\ i + 1 \in 1..n /\ i + 1 # i
    BY <1>1, <1>2, <1>3, <1>6
  <2>2. Successor(t) # t
    BY <1>1, <1>2, <2>1
  <2>3. ASSUME NEW x, NEW y, Before(tasks, t, x), Before(tasks, x, y), Successor(t) = y
        PROVE  FALSE
    <3>1. PICK a \in 1..n, b \in 1..n : a < b /\ tasks[a] = t /\ tasks[b] = x
      BY <2>3 DEF Before, n
    <3>2. PICK c \in 1..n, d \in 1..n : c < d /\ tasks[c] = x /\ tasks[d] = y
      BY <2>3 DEF Before, n
    <3>3. a = i /\ b = c /\ d = i + 1
      BY <1>1, <1>2, <2>1, <2>3, <3>1, <3>2
    <3> QED
      BY <1>2, <3>1, <3>2, <3>3
  <2>4. Contains(tasks, Successor(t))
    BY <2>1 DEF Contains, n
  <2> QED
    BY <2>2, <2>3, <2>4
<1> QED
  BY <1>5, <1>6

(* What the list says of connection k.                                     *)
Living(c)  == c.state \in {"open", "closed"}
HandStates == {"none", "linked", "unlinked", "doomed", "gone"}

Agrees(k, ts, c, h) ==
  /\ Living(c) <=> Contains(ts, Channel(k))
  /\ h \in {"linked", "unlinked", "doomed"} <=> Contains(ts, Handler(k))
  /\ Contains(ts, Push(k)) <=> Living(c) /\ c.handler = "push"
  /\ c.state # "gone" /\ c.handler = "none" => h = "none"
  /\ Living(c) /\ c.handler = "own" => h \in {"linked", "gone"}
  /\ Living(c) /\ c.handler = "push" => h = "unlinked"
  /\ Living(c) /\ Contains(ts, Handler(k)) => Before(ts, Channel(k), Handler(k))
  /\ Contains(ts, Push(k)) => Before(ts, Handler(k), Push(k))

(* A server is registered behind a handler that was asked to.              *)
RepRight(ts, hs) ==
  Contains(ts, ServerRep) =>
    \E k \in Conns :
      /\ Asked(k, "register")
      /\ hs[k] # "none" /\ (hs[k] = "linked" => Before(ts, Handler(k), ServerRep))

Fits(ts, cs, hs) ==
  /\ cs \in [Conns -> ChanType] /\ hs \in [Conns -> HandStates]
  /\ Listed(ts)
  /\ \A k \in Conns : Agrees(k, ts, cs[k], hs[k])
  /\ RepRight(ts, hs)

PassInv  == Fits(tasks, chan, hand) /\ (Contains(tasks, at) \/ MayVanish(at))
PassHeld == Fits(tasks, chan, hand) /\ Contains(tasks, at)

(* What a change of the list leaves to the other connections.              *)
Same(ts, us, j) ==
  /\ Contains(us, Channel(j)) <=> Contains(ts, Channel(j))
  /\ Contains(us, Handler(j)) <=> Contains(ts, Handler(j))
  /\ Contains(us, Push(j)) <=> Contains(ts, Push(j))
  /\ Before(ts, Channel(j), Handler(j)) => Before(us, Channel(j), Handler(j))
  /\ Before(ts, Handler(j), Push(j)) => Before(us, Handler(j), Push(j))

RepStep(ts, us, k, g, h) ==
  /\ Contains(us, ServerRep) => Contains(ts, ServerRep)
  /\ h = "none" => g = "none"
  /\ h = "linked" => g \in {"linked", "none"}
  /\ \A j \in Conns :
       Contains(us, ServerRep) /\ Before(ts, Handler(j), ServerRep) /\ (j = k => h = "linked")
         => Before(us, Handler(j), ServerRep)

LEMMA OtherSame ==
  ASSUME NEW ts, NEW us, NEW x, Added(ts, us, x) \/ Removed(ts, us, x),
         NEW j \in Conns, x # Channel(j), x # Handler(j), x # Push(j)
  PROVE  Same(ts, us, j)
BY DEF Added, Removed, Same

LEMMA SameAgrees ==
  ASSUME NEW ts, NEW us, NEW j, NEW c, NEW h, Agrees(j, ts, c, h), Same(ts, us, j)
  PROVE  Agrees(j, us, c, h)
BY DEF Agrees, Same

LEMMA FitsOne ==
  ASSUME NEW ts, NEW us, NEW cs, NEW hs, Fits(ts, cs, hs), NEW k \in Conns,
         NEW c \in ChanType, NEW h \in HandStates, Listed(us), Agrees(k, us, c, h),
         \A j \in Conns : j # k => Same(ts, us, j), RepStep(ts, us, k, hs[k], h)
  PROVE  Fits(us, [cs EXCEPT ![k] = c], [hs EXCEPT ![k] = h])
<1> DEFINE cn == [cs EXCEPT ![k] = c]
           hn == [hs EXCEPT ![k] = h]
<1>1. /\ cn \in [Conns -> ChanType] /\ cn[k] = c /\ \A j \in Conns : j # k => cn[j] = cs[j]
      /\ hn \in [Conns -> HandStates] /\ hn[k] = h /\ \A j \in Conns : j # k => hn[j] = hs[j]
  BY DEF Fits
<1> HIDE DEF cn, hn
<1>2. ASSUME NEW j \in Conns
      PROVE  Agrees(j, us, cn[j], hn[j])
  <2>1. CASE j = k
    BY <1>1, <2>1
  <2>2. CASE j # k
    <3>1. Agrees(j, ts, cs[j], hs[j]) /\ Same(ts, us, j)
      BY <2>2 DEF Fits
    <3>2. Agrees(j, us, cs[j], hs[j])
      BY <3>1, SameAgrees
    <3> QED
      BY <1>1, <2>2, <3>2
  <2> QED
    BY <2>1, <2>2
<1>3. RepRight(us, hn)
  <2> SUFFICES ASSUME Contains(us, ServerRep)
               PROVE  \E j \in Conns :
                        /\ Asked(j, "register")
                        /\ hn[j] # "none" /\ (hn[j] = "linked" => Before(us, Handler(j), ServerRep))
    BY DEF RepRight
  <2>1. PICK j \in Conns :
          /\ Asked(j, "register")
          /\ hs[j] # "none" /\ (hs[j] = "linked" => Before(ts, Handler(j), ServerRep))
    BY DEF Fits, RepRight, RepStep
  <2>2. CASE j = k
    BY <1>1, <2>1, <2>2 DEF RepStep
  <2>3. CASE j # k
    BY <1>1, <2>1, <2>3 DEF RepStep
  <2> QED
    BY <2>2, <2>3
<1>4. Fits(us, cn, hn)
  BY <1>1, <1>2, <1>3 DEF Fits
<1> QED
  BY <1>4 DEF cn, hn

LEMMA OfConnection ==
  ASSUME NEW ts, NEW cs, NEW hs, Fits(ts, cs, hs), NEW k \in Conns
  PROVE  /\ Agrees(k, ts, cs[k], hs[k]) /\ Listed(ts)
         /\ cs[k] \in ChanType /\ hs[k] \in HandStates
         /\ hs = [hs EXCEPT ![k] = hs[k]] /\ cs = [cs EXCEPT ![k] = cs[k]]
BY DEF Fits

(* A connection is accepted.                                               *)
LEMMA AcceptFits ==
  ASSUME NEW ts, NEW cs, NEW hs, Fits(ts, cs, hs), NEW k \in Conns,
         cs[k].state = "none", cs[k].handler = "none",
         NEW c \in ChanType, c.state = "open", c.handler = "none"
  PROVE  Fits(Append(ts, Channel(k)), [cs EXCEPT ![k] = c], hs)
<1> DEFINE us == Append(ts, Channel(k))
           h == hs[k]
<1>1. /\ Agrees(k, ts, cs[k], h) /\ Listed(ts) /\ h \in HandStates /\ hs = [hs EXCEPT ![k] = h]
  BY OfConnection
<1>2. h = "none" /\ ~Contains(ts, Channel(k)) /\ ~Contains(ts, Handler(k)) /\ ~Contains(ts, Push(k))
  BY <1>1 DEF Agrees, Living
<1>3. Added(ts, us, Channel(k))
  BY <1>1, <1>2, TaskAdded, TasksDiffer
<1> HIDE DEF us, h
<1>4. /\ Listed(us) /\ Contains(us, Channel(k)) /\ ~Contains(us, Handler(k))
      /\ ~Contains(us, Push(k))
  BY <1>2, <1>3, TasksDiffer DEF Added
<1>5. Agrees(k, us, c, h)
  BY <1>2, <1>4 DEF Agrees, Living
<1>6. \A j \in Conns : j # k => Same(ts, us, j)
  BY <1>3, OtherSame, TasksDiffer
<1>7. RepStep(ts, us, k, h, h)
  BY <1>2, <1>3, TasksDiffer DEF RepStep, Added
<1>8. Fits(us, [cs EXCEPT ![k] = c], [hs EXCEPT ![k] = h])
  BY <1>1, <1>4, <1>5, <1>6, <1>7, FitsOne DEF h
<1> QED
  BY <1>1, <1>8 DEF us

(* A handler is made for a channel, or the channel goes on with its own.   *)
LEMMA AssociateFits ==
  ASSUME NEW ts, NEW cs, NEW hs, Fits(ts, cs, hs), NEW k \in Conns,
         Living(cs[k]), cs[k].handler = "none",
         NEW c \in ChanType, Living(c), c.handler = "own"
  PROVE  /\ Fits(Append(ts, Handler(k)), [cs EXCEPT ![k] = c], [hs EXCEPT ![k] = "linked"])
         /\ \A y : Contains(ts, y) => Contains(Append(ts, Handler(k)), y)
<1> DEFINE us == Append(ts, Handler(k))
<1>1. /\ Agrees(k, ts, cs[k], hs[k]) /\ Listed(ts) /\ hs[k] \in HandStates
  BY OfConnection
<1>2. hs[k] = "none" /\ Contains(ts, Channel(k)) /\ ~Contains(ts, Handler(k)) /\ ~Contains(ts, Push(k))
  BY <1>1 DEF Agrees, Living
<1>3. Added(ts, us, Handler(k))
  BY <1>1, <1>2, TaskAdded, TasksDiffer
<1> HIDE DEF us
<1>4. /\ Listed(us) /\ Contains(us, Channel(k)) /\ Contains(us, Handler(k))
      /\ ~Contains(us, Push(k)) /\ Before(us, Channel(k), Handler(k))
  BY <1>2, <1>3, TasksDiffer DEF Added
<1>5. Agrees(k, us, c, "linked")
  BY <1>4 DEF Agrees, Living
<1>6. \A j \in Conns : j # k => Same(ts, us, j)
  BY <1>3, OtherSame, TasksDiffer
<1>7. RepStep(ts, us, k, hs[k], "linked")
  BY <1>2, <1>3, TasksDiffer DEF RepStep, Added
<1>8. "linked" \in HandStates
  BY DEF HandStates
<1>9. Fits(us, [cs EXCEPT ![k] = c], [hs EXCEPT ![k] = "linked"])
  BY <1>4, <1>5, <1>6, <1>7, <1>8, FitsOne
<1> QED
  BY <1>3, <1>9 DEF us, Added

LEMMA GoesOnFits ==
  ASSUME NEW ts, NEW cs, NEW hs, Fits(ts, cs, hs), NEW k \in Conns,
         NEW c \in ChanType, Living(cs[k]) <=> Living(c), c.state = "gone" <=> cs[k].state = "gone",
         c.handler = cs[k].handler
  PROVE  Fits(ts, [cs EXCEPT ![k] = c], hs)
<1> DEFINE h == hs[k]
<1>1. /\ Agrees(k, ts, cs[k], h) /\ Listed(ts) /\ h \in HandStates /\ hs = [hs EXCEPT ![k] = h]
  BY OfConnection
<1> HIDE DEF h
<1>2. Agrees(k, ts, c, h)
  BY <1>1 DEF Agrees
<1>3. (\A j \in Conns : j # k => Same(ts, ts, j)) /\ RepStep(ts, ts, k, h, h)
  BY DEF Same, RepStep
<1>4. Fits(ts, [cs EXCEPT ![k] = c], [hs EXCEPT ![k] = h])
  BY <1>1, <1>2, <1>3, FitsOne DEF h
<1> QED
  BY <1>1, <1>4

(* A push handler takes the place of the handler.                          *)
LEMMA StreamFits ==
  ASSUME NEW ts, NEW cs, NEW hs, Fits(ts, cs, hs), NEW k \in Conns,
         Living(cs[k]), cs[k].handler = "own", hs[k] = "linked",
         NEW c \in ChanType, Living(c), c.handler = "push"
  PROVE  /\ Fits(Append(ts, Push(k)), [cs EXCEPT ![k] = c], [hs EXCEPT ![k] = "unlinked"])
         /\ \A y : Contains(ts, y) => Contains(Append(ts, Push(k)), y)
<1> DEFINE us == Append(ts, Push(k))
<1>1. /\ Agrees(k, ts, cs[k], hs[k]) /\ Listed(ts) /\ hs[k] \in HandStates
  BY OfConnection
<1>2. /\ hs[k] = "linked" /\ Contains(ts, Channel(k)) /\ Contains(ts, Handler(k)) /\ ~Contains(ts, Push(k))
      /\ Before(ts, Channel(k), Handler(k))
  BY <1>1 DEF Agrees, Living
<1>3. Added(ts, us, Push(k))
  BY <1>1, <1>2, TaskAdded, TasksDiffer
<1> HIDE DEF us
<1>4. /\ Listed(us) /\ Contains(us, Channel(k)) /\ Contains(us, Handler(k))
      /\ Contains(us, Push(k)) /\ Before(us, Channel(k), Handler(k))
      /\ Before(us, Handler(k), Push(k))
  BY <1>2, <1>3 DEF Added
<1>5. Agrees(k, us, c, "unlinked")
  BY <1>4 DEF Agrees, Living
<1>6. \A j \in Conns : j # k => Same(ts, us, j)
  BY <1>3, OtherSame, TasksDiffer
<1>7. RepStep(ts, us, k, hs[k], "unlinked")
  BY <1>2, <1>3, TasksDiffer DEF RepStep, Added
<1>8. "unlinked" \in HandStates
  BY DEF HandStates
<1>9. Fits(us, [cs EXCEPT ![k] = c], [hs EXCEPT ![k] = "unlinked"])
  BY <1>4, <1>5, <1>6, <1>7, <1>8, FitsOne
<1> QED
  BY <1>3, <1>9 DEF us, Added

LEMMA RegisterFits ==
  ASSUME NEW ts, NEW cs, NEW hs, Fits(ts, cs, hs), NEW k \in Conns,
         hs[k] = "linked", Asked(k, "register")
  PROVE  /\ Fits(Registered(ts), cs, hs)
         /\ \A y : Contains(ts, y) => Contains(Registered(ts), y)
<1> DEFINE us == Append(ts, ServerRep)
<1>1. CASE Contains(ts, ServerRep)
  <2>1. Registered(ts) = ts
    BY <1>1 DEF Registered
  <2> QED
    BY <2>1
<1>2. CASE ~Contains(ts, ServerRep)
  <2>1. Registered(ts) = us
    BY <1>2 DEF Registered
  <2>2. Agrees(k, ts, cs[k], hs[k]) /\ Listed(ts)
    BY OfConnection
  <2>3. Contains(ts, Handler(k))
    BY <2>2 DEF Agrees
  <2>4. Added(ts, us, ServerRep)
    BY <1>2, <2>2, TaskAdded, TasksDiffer
  <2> HIDE DEF us
  <2>5. \A j \in Conns : Agrees(j, us, cs[j], hs[j])
    <3> SUFFICES ASSUME NEW j \in Conns
                 PROVE  Agrees(j, us, cs[j], hs[j])
      OBVIOUS
    <3>1. Same(ts, us, j)
      BY <2>4, OtherSame, TasksDiffer
    <3>2. Agrees(j, ts, cs[j], hs[j])
      BY DEF Fits
    <3> QED
      BY <3>1, <3>2, SameAgrees
  <2>6. Before(us, Handler(k), ServerRep)
    BY <2>3, <2>4 DEF Added
  <2>8. RepRight(us, hs)
    BY <2>6 DEF RepRight
  <2>9. Fits(us, cs, hs)
    BY <2>4, <2>5, <2>8 DEF Fits, Added
  <2> QED
    BY <2>1, <2>4, <2>9 DEF Added
<1> QED
  BY <1>1, <1>2

LEMMA RepGoneFits ==
  ASSUME NEW ts, NEW cs, NEW hs, Fits(ts, cs, hs)
  PROVE  /\ Fits(RemoveFirst(ts, ServerRep), cs, hs)
         /\ \A y : Contains(ts, y) /\ y # ServerRep => Contains(RemoveFirst(ts, ServerRep), y)
<1> DEFINE us == RemoveFirst(ts, ServerRep)
<1>1. Removed(ts, us, ServerRep)
  BY TaskRemoved, TasksDiffer DEF Fits
<1> HIDE DEF us
<1>2. \A j \in Conns : Agrees(j, us, cs[j], hs[j])
  <2> SUFFICES ASSUME NEW j \in Conns
               PROVE  Agrees(j, us, cs[j], hs[j])
    OBVIOUS
  <2>1. Same(ts, us, j)
    BY <1>1, OtherSame, TasksDiffer
  <2>2. Agrees(j, ts, cs[j], hs[j])
    BY DEF Fits
  <2> QED
    BY <2>1, <2>2, SameAgrees
<1>3. RepRight(us, hs)
  BY <1>1 DEF RepRight, Removed
<1>4. Fits(us, cs, hs)
  BY <1>1, <1>2, <1>3 DEF Fits, Removed
<1> QED
  BY <1>1, <1>4 DEF us, Removed

(* A channel is deleted with its push handler, which switches its handler  *)
(* on; a handler deletes itself.                                           *)
LEMMA DeleteFits ==
  ASSUME NEW ts, NEW cs, NEW hs, Fits(ts, cs, hs), NEW k \in Conns, Deleted \in ChanType
  PROVE  LET us == RemoveFirst(RemoveFirst(ts, Channel(k)), Push(k))
         IN  /\ Fits(us, [cs EXCEPT ![k] = Deleted],
                         [hs EXCEPT ![k] = IF hs[k] = "linked" THEN "doomed" ELSE hs[k]])
             /\ \A y : Contains(ts, y) /\ y # Channel(k) /\ y # Push(k) => Contains(us, y)
<1> DEFINE vs == RemoveFirst(ts, Channel(k))
           us == RemoveFirst(vs, Push(k))
           h == IF hs[k] = "linked" THEN "doomed" ELSE hs[k]
<1>1. /\ Agrees(k, ts, cs[k], hs[k]) /\ Listed(ts) /\ hs[k] \in HandStates
  BY OfConnection
<1>2. Removed(ts, vs, Channel(k))
  BY <1>1, TaskRemoved, TasksDiffer
<1> HIDE DEF vs
<1>3. Removed(vs, us, Push(k))
  BY <1>2, TaskRemoved, TasksDiffer DEF Removed
<1>4. /\ h \in HandStates /\ h # "linked" /\ (h = "none" => hs[k] = "none")
      /\ (h \in {"linked", "unlinked", "doomed"} <=> hs[k] \in {"linked", "unlinked", "doomed"})
  BY <1>1 DEF HandStates
<1> HIDE DEF us, h
<1>5. /\ Listed(us) /\ ~Contains(us, Channel(k)) /\ ~Contains(us, Push(k))
      /\ Contains(us, Handler(k)) <=> Contains(ts, Handler(k))
  BY <1>2, <1>3, TasksDiffer DEF Removed
<1>6. Agrees(k, us, Deleted, h)
  <2>1. Deleted.state = "gone"
    BY DEF Deleted, NoChannel
  <2> HIDE DEF Deleted
  <2> QED
    BY <1>1, <1>4, <1>5, <2>1 DEF Agrees, Living
<1>7. \A j \in Conns : j # k => Same(ts, us, j)
  <2> SUFFICES ASSUME NEW j \in Conns, j # k
               PROVE  Same(ts, us, j)
    OBVIOUS
  <2>1. Same(ts, vs, j) /\ Same(vs, us, j)
    BY <1>2, <1>3, OtherSame, TasksDiffer
  <2> QED
    BY <2>1 DEF Same
<1>8. RepStep(ts, us, k, hs[k], h)
  <2>1. Contains(us, ServerRep) => Contains(ts, ServerRep)
    BY <1>2, <1>3 DEF Removed
  <2>2. \A j \in Conns : Before(ts, Handler(j), ServerRep) => Before(us, Handler(j), ServerRep)
    BY <1>2, <1>3, TasksDiffer DEF Removed
  <2> QED
    BY <1>4, <2>1, <2>2 DEF RepStep
<1>9. Fits(us, [cs EXCEPT ![k] = Deleted], [hs EXCEPT ![k] = h])
  BY <1>4, <1>5, <1>6, <1>7, <1>8, FitsOne
<1>10. \A y : Contains(ts, y) /\ y # Channel(k) /\ y # Push(k) => Contains(us, y)
  BY <1>2, <1>3 DEF Removed
<1> QED
  BY <1>9, <1>10 DEF us, vs, h

LEMMA HandlerGoneFits ==
  ASSUME NEW ts, NEW cs, NEW hs, Fits(ts, cs, hs), NEW k \in Conns, hs[k] = "doomed"
  PROVE  /\ Fits(RemoveFirst(ts, Handler(k)), cs, [hs EXCEPT ![k] = "gone"])
         /\ \A y : Contains(ts, y) /\ y # Handler(k) => Contains(RemoveFirst(ts, Handler(k)), y)
<1> DEFINE us == RemoveFirst(ts, Handler(k))
           c == cs[k]
<1>1. /\ Agrees(k, ts, c, hs[k]) /\ Listed(ts) /\ c \in ChanType /\ cs = [cs EXCEPT ![k] = c]
  BY OfConnection
<1>2. Removed(ts, us, Handler(k))
  BY <1>1, TaskRemoved, TasksDiffer
<1> HIDE DEF us, c
<1>3. c.handler \in {"none", "own", "push"} /\ c.state \in {"none", "open", "closed", "gone"}
  BY <1>1 DEF ChanType
<1>4. ~Living(c)
  BY <1>1, <1>3 DEF Agrees, Living
<1>5. /\ Listed(us) /\ ~Contains(us, Handler(k)) /\ ~Contains(us, Channel(k)) /\ ~Contains(us, Push(k))
  BY <1>1, <1>2, <1>4 DEF Removed, Agrees
<1>6. Agrees(k, us, c, "gone")
  BY <1>1, <1>4, <1>5 DEF Agrees, Living
<1>7. \A j \in Conns : j # k => Same(ts, us, j)
  BY <1>2, OtherSame, TasksDiffer
<1>8. RepStep(ts, us, k, hs[k], "gone")
  BY <1>2, TasksDiffer DEF RepStep, Removed
<1>9. "gone" \in HandStates
  BY DEF HandStates
<1>10. Fits(us, [cs EXCEPT ![k] = c], [hs EXCEPT ![k] = "gone"])
  BY <1>1, <1>5, <1>6, <1>7, <1>8, <1>9, FitsOne
<1> QED
  BY <1>1, <1>2, <1>10 DEF us, Removed

(* A handler that has shut down itself is deleted under its channel.       *)
LEMMA UnhandledFits ==
  ASSUME NEW ts, NEW cs, NEW hs, Fits(ts, cs, hs), NEW k \in Conns,
         Living(cs[k]), cs[k].handler = "own",
         NEW c \in ChanType, Living(c), c.handler = "own"
  PROVE  /\ Fits(RemoveFirst(ts, Handler(k)), [cs EXCEPT ![k] = c], [hs EXCEPT ![k] = "gone"])
         /\ \A y : Contains(ts, y) /\ y # Handler(k) => Contains(RemoveFirst(ts, Handler(k)), y)
<1> DEFINE us == RemoveFirst(ts, Handler(k))
<1>1. /\ Agrees(k, ts, cs[k], hs[k]) /\ Listed(ts)
  BY OfConnection
<1>2. Removed(ts, us, Handler(k))
  BY <1>1, TaskRemoved, TasksDiffer
<1> HIDE DEF us
<1>3. hs[k] \in {"linked", "gone"} /\ Contains(ts, Channel(k)) /\ ~Contains(ts, Push(k))
  BY <1>1 DEF Agrees
<1>4. /\ Listed(us) /\ ~Contains(us, Handler(k)) /\ Contains(us, Channel(k)) /\ ~Contains(us, Push(k))
  BY <1>2, <1>3, TasksDiffer DEF Removed
<1>5. Agrees(k, us, c, "gone")
  BY <1>4 DEF Agrees, Living
<1>6. \A j \in Conns : j # k => Same(ts, us, j)
  BY <1>2, OtherSame, TasksDiffer
<1>7. RepStep(ts, us, k, hs[k], "gone")
  BY <1>2, TasksDiffer DEF RepStep, Removed
<1>8. "gone" \in HandStates
  BY DEF HandStates
<1>9. Fits(us, [cs EXCEPT ![k] = c], [hs EXCEPT ![k] = "gone"])
  BY <1>4, <1>5, <1>6, <1>7, <1>8, FitsOne
<1> QED
  BY <1>2, <1>9 DEF us, Removed

(* What a request does to the channel and to the list.                     *)
Affects(k, e, d) ==
  /\ d.c \in ChanType /\ d.c.state = e.state
  /\ d.effect = "stream" => e.handler = "own" /\ d.c.handler = "push"
  /\ d.effect # "stream" => d.c.handler = e.handler
  /\ d.effect \in {"register", "unregister"} => e.handler = "own" /\ Asked(k, d.effect)
  /\ d.effect = "unhandled" => e.handler = "own" /\ Passed(plan[k].requests, sent[k])

LEMMA XdrAffects ==
  ASSUME NEW k \in Conns, Client(plan[k]), plan[k].protocol = "ksxdr", NEW e \in ChanType,
         sent[k] \in Part, NEW w, Flow(plan[k].requests, sent[k], w, e.in), e.rd < Len(e.in),
         NEW h, e.in[e.rd + 1][1] \in 1..Len(plan[k].requests),
         NEW d, d = XdrRequest(k, e, h)
  PROVE  /\ d.effect \notin {"stream", "unhandled"} /\ d.c.handler = e.handler
         /\ d.effect \in {"register", "unregister"} => Asked(k, d.effect)
<1> DEFINE r == e.in[e.rd + 1][1]
           q == Request(k, r)
<1>1. q = plan[k].requests[r] /\ r \in 1..Len(plan[k].requests)
  BY DEF Request
<1>2. q.kind \in {"service", "denied", "invalid", "register", "unregister"}
  BY <1>1 DEF Client, KindsOf
<1>3. HoldsComplete(k, e) => Asked(k, q.kind)
  <2> SUFFICES ASSUME HoldsComplete(k, e)
               PROVE  Asked(k, q.kind)
    OBVIOUS
  <2> DEFINE i == e.rd + 1
             p == plan[k]
             n == p.requests[e.in[i][1]].parts
  <2>1. e.rd \in Nat /\ e.in \in Seq(Part) /\ Len(e.in) \in Nat /\ i \in 1..Len(e.in)
    BY LenProperties DEF ChanType
  <2>2. n \in 1..2 /\ Len(e.in) - e.rd >= n
    BY DEF Client, HoldsComplete, Request
  <2> HIDE DEF n
  <2>3. i + n - 1 <= Len(e.in)
    BY <2>1, <2>2
  <2>4. i + p.requests[e.in[i][1]].parts - 1 <= Len(e.in)
    BY <2>3 DEF n
  <2>5. Client(p) /\ Flow(p.requests, sent[k], w, e.in)
    OBVIOUS
  <2> HIDE DEF i, p
  <2>6. Complete(p.requests, sent[k], e.in[i][1])
    BY <2>1, <2>4, <2>5, Whole
  <2>7. AllSent(k, r)
    BY <2>6 DEF Complete, AllSent, Request, i, p
  <2>8. r \in DOMAIN plan[k].requests
    BY DEF Client
  <2> QED
    BY <2>7, <2>8 DEF Asked
<1>4. CASE q.kind = "invalid"
  <2>1. d = Done([Emptied(e) EXCEPT !.out = <<>>], h, "failed")
    BY <1>4 DEF XdrRequest
  <2>2. d.effect = "failed" /\ d.c = [Emptied(e) EXCEPT !.out = <<>>]
    BY <2>1 DEF Done
  <2> QED
    BY <2>2 DEF Emptied, ChanType
<1>5. CASE q.kind = "denied"
  <2>1. d = Done(Denied(e, r), h, "none")
    BY <1>5 DEF XdrRequest
  <2>2. d.effect = "none" /\ d.c = Denied(e, r)
    BY <2>1 DEF Done
  <2> QED
    BY <2>2 DEF Denied, Answer, ChanType
<1>6. CASE q.kind \notin {"invalid", "denied"} /\ ~HoldsComplete(k, e)
  <2>1. d = Done([e EXCEPT !.limit = Incomplete], h, "none")
    BY <1>6 DEF XdrRequest
  <2>2. d.effect = "none" /\ d.c = [e EXCEPT !.limit = Incomplete]
    BY <2>1 DEF Done
  <2> QED
    BY <2>2 DEF ChanType
<1>7. CASE q.kind \notin {"invalid", "denied"} /\ HoldsComplete(k, e)
  <2> DEFINE b == [e EXCEPT !.limit = Unused]
             m == Consume(b, q.parts, q.frag)
  <2>1. d = Done(Answer(m, r), h, q.kind)
    BY <1>7 DEF XdrRequest
  <2>2. b \in ChanType /\ b.handler = e.handler
    BY DEF Unused, ChanType
  <2> HIDE DEF b
  <2>3. /\ m.handler = e.handler
        /\ \A o : [m EXCEPT !.out = o].handler = m.handler
    <3> DEFINE t == IF q.frag THEN SubSeq(b.in, 1, b.rd + q.parts) ELSE b.in
               n == b.rd + q.parts
    <3>1. m = Emptied(b) \/ m = [b EXCEPT !.in = t, !.rd = n]
      BY DEF Consume
    <3> HIDE DEF t, n, m
    <3> QED
      BY <2>2, <3>1 DEF Emptied, ChanType
  <2> HIDE DEF m, q, r
  <2>4. d.c = Answer(m, r) /\ d.effect = q.kind
    BY <2>1 DEF Done
  <2>5. d.c.handler = e.handler
    BY <2>3, <2>4 DEF Answer
  <2> QED
    BY <1>2, <1>3, <1>7, <2>4, <2>5
<1> QED
  BY <1>4, <1>5, <1>6, <1>7

LEMMA MisreadAffects ==
  ASSUME NEW e \in ChanType, NEW h, NEW d \in Misread(e, h)
  PROVE  d.effect \in {"none", "failed"} /\ d.c.handler = e.handler
<1>1. CASE d = Done([Emptied(e) EXCEPT !.out = <<>>], h, "failed")
  <2>1. d.effect = "failed" /\ d.c = [Emptied(e) EXCEPT !.out = <<>>]
    BY <1>1 DEF Done
  <2> QED
    BY <2>1 DEF Emptied, ChanType
<1>2. CASE d = Done([e EXCEPT !.limit = Incomplete], h, "none")
  <2>1. d.effect = "none" /\ d.c = [e EXCEPT !.limit = Incomplete]
    BY <1>2 DEF Done
  <2> QED
    BY <2>1 DEF ChanType
<1>3. CASE \E x \in FurtherOn(e) : d = Done(Noted(x), h, "none")
  <2>1. PICK x \in FurtherOn(e) : d = Done(Noted(x), h, "none")
    BY <1>3
  <2>2. PICK n \in e.rd..Len(e.in), b \in BOOLEAN : x = [e EXCEPT !.rd = n, !.rest = b]
    BY <2>1 DEF FurtherOn
  <2>3. x.handler = e.handler /\ \A o : [x EXCEPT !.out = o].handler = x.handler
    BY <2>2 DEF ChanType
  <2>4. d.effect = "none" /\ d.c = Noted(x)
    BY <2>1 DEF Done
  <2>5. Noted(x).handler = x.handler
    BY <2>3 DEF Noted
  <2> QED
    BY <2>3, <2>4, <2>5
<1> QED
  BY <1>1, <1>2, <1>3 DEF Misread

LEMMA HttpAffects ==
  ASSUME NEW k \in Conns, NEW e \in ChanType, e.handler = "own",
         Client(plan[k]), plan[k].protocol # "ksxdr",
         NEW h, e.in[1][1] \in 1..Len(plan[k].requests),
         NEW d, d = HttpRequest(k, e, h)
  PROVE  /\ d.effect = "stream" => d.c.handler = "push"
         /\ d.effect # "stream" => d.c.handler = "own"
         /\ d.effect \notin {"register", "unregister"}
         /\ d.effect = "unhandled" => h.status = "SHUTDOWN"
<1> DEFINE r == e.in[1][1]
           q == Request(k, r)
           length == HasLength(h, q)
<1>1. q = plan[k].requests[r] /\ r \in 1..Len(plan[k].requests)
  BY DEF Request
<1>2. q.kind \notin {"register", "unregister", "unhandled"}
  BY <1>1 DEF Client, KindsOf
<1>3. \/ \E x : d = Done(e, x, "none")
      \/ h.status = "SHUTDOWN" /\ d = Done(e, h, "unhandled")
      \/ d = HttpAnswer(e, r, q, length)
  BY DEF HttpRequest
<1> HIDE DEF q, r, length
<1>4. CASE \E x : d = Done(e, x, "none")
  <2>1. d.c = e /\ d.effect = "none"
    BY <1>4 DEF Done
  <2> QED
    BY <2>1
<1>6. CASE h.status = "SHUTDOWN" /\ d = Done(e, h, "unhandled")
  <2>1. d.c = e /\ d.effect = "unhandled"
    BY <1>6 DEF Done
  <2> QED
    BY <1>6, <2>1
<1>5. CASE d = HttpAnswer(e, r, q, length)
  <2> DEFINE a == Answer(Emptied(e), r)
             b == q.kind = "close"
             z == IF q.kind = "stream" THEN "push" ELSE "own"
  <2>1. a.handler = "own" /\ \A x, y : [a EXCEPT !.closing = x, !.handler = y].handler = y
    BY DEF Answer, Emptied, ChanType
  <2>2. d.c = [a EXCEPT !.closing = b, !.handler = IF q.kind = "stream" THEN "push" ELSE a.handler]
    BY <1>5 DEF HttpAnswer, Done
  <2>3. d.effect = q.kind
    BY <1>5 DEF HttpAnswer, Done
  <2> HIDE DEF a, b
  <2>4. d.c.handler = z
    BY <2>1, <2>2
  <2> QED
    BY <1>2, <2>3, <2>4
<1> QED
  BY <1>3, <1>4, <1>5, <1>6

LEMMA RequestAffects ==
  ASSUME DataTypes, NEW k \in Conns, Client(plan[k]), NEW w, NoParts(w),
         NEW e, NEW g \in Seq(Nat), Found(plan[k], sent[k], w, e, http[k].status, g),
         NEW d \in HandleRequest(k, e)
  PROVE  Affects(k, e, d)
<1> DEFINE p == plan[k]
           s == sent[k]
           h == http[k]
<1>0. s \in Part
  BY DEF DataTypes
<1>1. d.c \in ChanType /\ d.c.state = e.state
  <2>1. Left(p, s, w, e, d, g)
    <3>1. p = plan[k] /\ Client(p) /\ Found(p, s, w, e, http[k].status, g)
      OBVIOUS
    <3> HIDE DEF p, s
    <3> QED
      BY <1>0, <3>1, HandlerLeaves
  <2> QED
    BY <2>1 DEF Left
<1>2. /\ e \in ChanType /\ Flow(p.requests, s, w, e.in) /\ e.rd < Len(e.in)
      /\ (p.protocol # "ksxdr" => e.rd = 0) /\ e.handler \in {"own", "push"}
      /\ (e.handler = "own" /\ h.status = "SHUTDOWN" => Passed(p.requests, s))
  BY DEF Found
<1>3. e.rd + 1 \in 1..Len(e.in) /\ (p.protocol # "ksxdr" => e.rd + 1 = 1)
  BY <1>2, LenProperties DEF ChanType
<1>4. e.in[e.rd + 1][1] \in 1..Len(p.requests)
  BY <1>2, <1>3 DEF Flow, PartOf
<1>5. CASE e.handler = "push"
  <2>1. d = Done(e, h, "none")
    BY <1>5 DEF HandleRequest
  <2>2. d.c = e /\ d.effect = "none"
    BY <2>1 DEF Done
  <2> QED
    BY <1>1, <2>2 DEF Affects
<1>6. CASE e.handler = "own" /\ p.protocol = "ksxdr" /\ AtMessage(e)
  <2>1. d = XdrRequest(k, e, h)
    BY <1>6 DEF HandleRequest
  <2> HIDE DEF h
  <2>2. /\ d.effect \notin {"stream", "unhandled"} /\ d.c.handler = e.handler
        /\ d.effect \in {"register", "unregister"} => Asked(k, d.effect)
    BY <1>0, <1>2, <1>4, <1>6, <2>1, XdrAffects
  <2> QED
    BY <1>1, <1>6, <2>2 DEF Affects
<1>8. CASE e.handler = "own" /\ p.protocol = "ksxdr" /\ ~AtMessage(e)
  <2>1. d \in Misread(e, h)
    BY <1>8 DEF HandleRequest
  <2>2. d.effect \in {"none", "failed"} /\ d.c.handler = e.handler
    BY <1>2, <2>1, MisreadAffects
  <2> QED
    BY <1>1, <2>2 DEF Affects
<1>7. CASE e.handler = "own" /\ p.protocol # "ksxdr"
  <2>1. d = HttpRequest(k, e, h)
    BY <1>7 DEF HandleRequest
  <2>2. e.in[1][1] \in 1..Len(p.requests)
    BY <1>3, <1>4, <1>7
  <2>5. h.status = "SHUTDOWN" => Passed(plan[k].requests, sent[k])
    BY <1>2, <1>7
  <2> HIDE DEF h
  <2>3. /\ d.effect = "stream" => d.c.handler = "push"
        /\ d.effect # "stream" => d.c.handler = "own"
        /\ d.effect \notin {"register", "unregister"}
        /\ d.effect = "unhandled" => h.status = "SHUTDOWN"
    BY <1>2, <1>7, <2>1, <2>2, HttpAffects
  <2> QED
    BY <1>1, <1>7, <2>3, <2>5 DEF Affects
<1> QED
  BY <1>2, <1>5, <1>6, <1>7, <1>8

----------------------------------------------------------------------------
(* The pass.  What is read before the method of a channel is called is     *)
(* none of the tasks which that method deletes, but for those that may     *)
(* vanish.                                                                 *)
LEMMA AskedAgain ==
  ASSUME UNCHANGED <<plan, sent>>
  PROVE  \A k \in Conns : \A kind : Asked(k, kind)' <=> Asked(k, kind)
BY DEF Asked, AllSent, Request

LEMMA FitsAgain ==
  ASSUME UNCHANGED <<plan, sent>>, Fits(tasks', chan', hand')
  PROVE  Fits(tasks, chan, hand)'
<1>1. \A k \in Conns : \A kind : Asked(k, kind)' <=> Asked(k, kind)
  BY AskedAgain
<1>2. RepRight(tasks', hand')
  BY DEF Fits
<1>3. RepRight(tasks, hand)'
  BY <1>1, <1>2 DEF RepRight
<1> QED
  BY <1>3 DEF Fits

LEMMA PassAgain ==
  ASSUME UNCHANGED <<plan, sent>>, Fits(tasks', chan', hand'), Contains(tasks', at')
  PROVE  PassHeld'
BY FitsAgain DEF PassHeld

LEMMA NextStays ==
  ASSUME PassHeld, at' = Successor(at), NEW k \in Conns, at = Channel(k)
  PROVE  /\ Living(chan[k]) /\ Contains(tasks, at') /\ at' # Channel(k) /\ at' # Push(k)
         /\ hand[k] \in {"linked", "none"} /\ at' = ServerRep
              => \E j \in Conns : j # k /\ Asked(j, "register")
<1> DEFINE n == Successor(at)
<1>1. /\ Fits(tasks, chan, hand) /\ Contains(tasks, at) /\ Listed(tasks)
      /\ Agrees(k, tasks, chan[k], hand[k]) /\ RepRight(tasks, hand)
  BY DEF PassHeld, Fits
<1>2. /\ Contains(tasks, n) /\ n # Channel(k)
      /\ \A x, y : Before(tasks, Channel(k), x) /\ Before(tasks, x, y) => n # y
  BY <1>1, SuccessorSound, TasksDiffer
<1> HIDE DEF n
<1>3. Living(chan[k])
  BY <1>1 DEF Agrees
<1>4. n # Push(k)
  <2>1. Contains(tasks, Push(k)) =>
          Before(tasks, Channel(k), Handler(k)) /\ Before(tasks, Handler(k), Push(k))
    BY <1>1 DEF Agrees
  <2> QED
    BY <1>2, <2>1
<1>5. ASSUME hand[k] \in {"linked", "none"}, n = ServerRep
      PROVE  \E j \in Conns : j # k /\ Asked(j, "register")
  <2>1. PICK j \in Conns :
          /\ Asked(j, "register")
          /\ hand[j] # "none" /\ (hand[j] = "linked" => Before(tasks, Handler(j), ServerRep))
    BY <1>1, <1>2, <1>5 DEF RepRight
  <2>2. j # k
    <3> SUFFICES ASSUME j = k
                 PROVE  FALSE
      OBVIOUS
    <3>1. hand[k] = "linked" /\ Before(tasks, Handler(k), ServerRep)
      BY <1>5, <2>1
    <3>2. Before(tasks, Channel(k), Handler(k))
      BY <1>1, <1>3, <3>1 DEF Agrees
    <3> QED
      BY <1>2, <1>5, <3>1, <3>2
  <2> QED
    BY <2>1, <2>2
<1> QED
  BY <1>2, <1>3, <1>4, <1>5 DEF n

(* The other tasks that stay.                                              *)
LEMMA NextOf ==
  ASSUME PassHeld, NEW t, Visit(t), t # Listener
  PROVE  Contains(tasks, at') /\ at' # t
BY SuccessorSound DEF PassHeld, Fits, Visit

LEMMA NextOfListener ==
  ASSUME PassHeld, Visit(Listener)
  PROVE  Contains(tasks, at')
BY SuccessorSound DEF PassHeld, Fits, Visit

LEMMA DeleteStep ==
  ASSUME UNCHANGED <<plan, sent>>, NEW k \in Conns, NEW ts, NEW cs, NEW hs, Fits(ts, cs, hs),
         Deleted \in ChanType, [cs EXCEPT ![k] = Deleted] = [chan EXCEPT ![k] = Deleted],
         DeleteChannel(k, ts, hs)
  PROVE  /\ Fits(tasks, chan, hand)'
         /\ \A y : Contains(ts, y) /\ y # Channel(k) /\ y # Push(k) => Contains(tasks', y)
         /\ hs[k] = "gone" => hand'[k] = "gone"
<1>1. /\ tasks' = RemoveFirst(RemoveFirst(ts, Channel(k)), Push(k))
      /\ chan' = [cs EXCEPT ![k] = Deleted]
      /\ hand' = [hs EXCEPT ![k] = IF hs[k] = "linked" THEN "doomed" ELSE hs[k]]
  BY DEF DeleteChannel
<1>2. /\ Fits(tasks', chan', hand')
      /\ \A y : Contains(ts, y) /\ y # Channel(k) /\ y # Push(k) => Contains(tasks', y)
  BY <1>1, DeleteFits
<1>3. hs[k] = "gone" => hand'[k] = "gone"
  BY <1>1 DEF Fits
<1> QED
  BY <1>2, <1>3, FitsAgain

LEMMA DeletedTyped == Deleted \in ChanType
<1>1. <<>> \in Seq(Part) /\ <<>> \in Seq(Nat)
  BY EmptySeq
<1> QED
  BY <1>1 DEF Deleted, NoChannel, Unassociated, ChanType

(* A channel that goes on, and one that has received nothing for long.     *)
GoesOnAs(c, d) == d \in ChanType /\ Living(c) /\ Living(d) /\ d.handler = c.handler

LEMMA GoesOnPass ==
  ASSUME PassHeld, UNCHANGED <<plan, sent>>, NEW k \in Conns, NEW d, GoesOnAs(chan[k], d),
         chan' = [chan EXCEPT ![k] = d], tasks' = tasks, hand' = hand, Contains(tasks, at')
  PROVE  PassHeld'
<1>1. /\ d \in ChanType /\ Living(d) /\ Living(chan[k]) /\ d.handler = chan[k].handler
      /\ d.state = "gone" <=> chan[k].state = "gone"
  BY DEF GoesOnAs, Living
<1>2. Fits(tasks, [chan EXCEPT ![k] = d], hand)
  BY <1>1, GoesOnFits DEF PassHeld
<1> QED
  BY <1>2, PassAgain

LEMMA VisitDeletePass ==
  ASSUME PassHeld, UNCHANGED <<plan, sent>>, NEW k \in Conns, Visit(Channel(k)),
         DeleteChannel(k, tasks, hand)
  PROVE  PassHeld'
<1>1. at = Channel(k) /\ at' = Successor(at)
  BY DEF Visit
<1>2. Contains(tasks, at') /\ at' # Channel(k) /\ at' # Push(k)
  BY <1>1, NextStays
<1>3. Fits(tasks, chan, hand)
  BY DEF PassHeld
<1>4. /\ Fits(tasks, chan, hand)'
      /\ \A y : Contains(tasks, y) /\ y # Channel(k) /\ y # Push(k) => Contains(tasks', y)
  BY <1>3, DeletedTyped, DeleteStep
<1> QED
  BY <1>2, <1>4 DEF PassHeld

LEMMA TimeOutPass ==
  ASSUME PassHeld, UNCHANGED <<plan, sent>>, NEW k \in Conns, Visit(Channel(k)),
         NEW c, GoesOnAs(chan[k], c), TimeOut(k, c)
  PROVE  PassHeld'
<1>1. Contains(tasks, at')
  BY NextStays DEF Visit
<1>2. CASE DeleteChannel(k, tasks, hand)
  BY <1>2, VisitDeletePass
<1>3. CASE Keep(k, c)
  BY <1>1, <1>3, GoesOnPass DEF Keep
<1>4. CASE Keep(k, Emptied(c))
  <2> DEFINE d == Emptied(c)
  <2>1. GoesOnAs(chan[k], d)
    <3>1. <<>> \in Seq(Part) /\ c \in ChanType
      BY EmptySeq DEF GoesOnAs
    <3>2. d \in ChanType /\ d.state = c.state /\ d.handler = c.handler
      BY <3>1 DEF ChanType, Emptied
    <3> HIDE DEF d
    <3> QED
      BY <3>2 DEF GoesOnAs, Living
  <2> HIDE DEF d
  <2>2. chan' = [chan EXCEPT ![k] = d] /\ tasks' = tasks /\ hand' = hand
    BY <1>4 DEF Keep, d
  <2> QED
    BY <1>1, <2>1, <2>2, GoesOnPass
<1> QED
  BY <1>2, <1>3, <1>4 DEF TimeOut

LEMMA ClosedGoesOn ==
  ASSUME NEW c \in ChanType, Living(c)
  PROVE  GoesOnAs(c, Closed(c)) /\ GoesOnAs(c, Flushed(c))
<1>1. /\ Closed(c) \in ChanType /\ Closed(c).handler = c.handler /\ Closed(c).state = "closed"
  BY DEF Closed, Unused, ChanType
<1>2. /\ Flushed(c) \in ChanType /\ Flushed(c).handler = c.handler /\ Flushed(c).state = c.state
  BY EmptySeq DEF Flushed, ChanType
<1> QED
  BY <1>1, <1>2 DEF GoesOnAs, Living

LEMMA ReceivePass ==
  ASSUME DataInv, PassHeld, NEW k \in Conns,
         ReceiveReset(k) \/ ReceiveEnd(k) \/ ReceiveNothing(k) \/ NotOpen(k)
  PROVE  PassHeld'
<1> DEFINE c == chan[k]
<1>1. Visit(Channel(k)) /\ UNCHANGED <<plan, sent>> /\ Contains(tasks, at')
  BY NextStays DEF ReceiveReset, ReceiveEnd, ReceiveNothing, NotOpen, Visit, clients
<1>2. c \in ChanType /\ Living(c)
  BY <1>1, OfOne, NextStays DEF Visit
<1>3. GoesOnAs(c, c) /\ GoesOnAs(c, Closed(c)) /\ GoesOnAs(c, Flushed(c))
  BY <1>2, ClosedGoesOn DEF GoesOnAs
<1>4. CASE DeleteChannel(k, tasks, hand)
  BY <1>1, <1>4, VisitDeletePass
<1>5. ASSUME NEW d, GoesOnAs(c, d), TimeOut(k, d)
      PROVE  PassHeld'
  BY <1>1, <1>5, TimeOutPass
<1>6. CASE ReceiveReset(k) /\ ~DeleteChannel(k, tasks, hand)
  <2> DEFINE u == c.in \o wire[k]
             b == [c EXCEPT !.in = u]
             d == Closed(b)
  <2>1. chan' = [chan EXCEPT ![k] = d] /\ tasks' = tasks /\ hand' = hand
    BY <1>6 DEF ReceiveReset
  <2>2. GoesOnAs(c, d)
    <3>1. u \in Seq(Part)
      BY <1>2, OfOne, ConcatProperties DEF ChanType
    <3> HIDE DEF u, c
    <3>2. b \in ChanType /\ b.state = c.state /\ b.handler = c.handler
      BY <1>2, <3>1 DEF ChanType
    <3> HIDE DEF b
    <3>3. GoesOnAs(b, Closed(b))
      BY <1>2, <3>2, ClosedGoesOn DEF Living
    <3> QED
      BY <1>2, <3>2, <3>3 DEF GoesOnAs
  <2> HIDE DEF d
  <2> QED
    BY <1>1, <2>1, <2>2, GoesOnPass
<1>7. CASE ReceiveEnd(k)
  <2> DEFINE d == Closed(c)
  <2>1. DeleteChannel(k, tasks, hand) \/ TimeOut(k, d) \/ TimeOut(k, Flushed(d))
    BY <1>7 DEF ReceiveEnd
  <2>2. GoesOnAs(c, d)
    BY <1>3
  <2> HIDE DEF d
  <2>3. GoesOnAs(c, Flushed(d))
    BY <2>2, ClosedGoesOn DEF GoesOnAs
  <2> QED
    BY <1>4, <1>5, <2>1, <2>2, <2>3
<1>8. CASE ReceiveNothing(k)
  BY <1>3, <1>4, <1>5, <1>8 DEF ReceiveNothing
<1>9. CASE NotOpen(k)
  BY <1>3, <1>4, <1>5, <1>9 DEF NotOpen
<1> QED
  BY <1>4, <1>6, <1>7, <1>8, <1>9

(* A request that is handled: the handler is made when there is none, then *)
(* the request has its effect, then the channel is what it has become.     *)
Calls(k, e) ==
  /\ e \in ChanType /\ Living(e) /\ Living(chan[k])
  /\ e.handler = IF chan[k].handler = "none" THEN "own" ELSE chan[k].handler

LEMMA AssociatedFits ==
  ASSUME Fits(tasks, chan, hand), NEW k \in Conns, NEW e, Calls(k, e)
  PROVE  /\ Fits(Associate(k).ts, [chan EXCEPT ![k] = e], Associate(k).hs)
         /\ \A y : Contains(tasks, y) => Contains(Associate(k).ts, y)
         /\ e.handler = "own" /\ ~Orphan(k) => Associate(k).hs[k] = "linked"
<1>1. e \in ChanType /\ Living(e) /\ Living(chan[k])
  BY DEF Calls
<1>2. CASE chan[k].handler = "none"
  <2>1. /\ Associate(k).ts = Append(tasks, Handler(k))
        /\ Associate(k).hs = [hand EXCEPT ![k] = "linked"]
    BY <1>2 DEF Associate
  <2>2. e.handler = "own"
    BY <1>2 DEF Calls
  <2>3. /\ Fits(Append(tasks, Handler(k)), [chan EXCEPT ![k] = e], [hand EXCEPT ![k] = "linked"])
        /\ \A y : Contains(tasks, y) => Contains(Append(tasks, Handler(k)), y)
    BY <1>1, <1>2, <2>2, AssociateFits
  <2>4. [hand EXCEPT ![k] = "linked"][k] = "linked"
    BY DEF Fits
  <2> QED
    BY <2>1, <2>3, <2>4
<1>3. CASE chan[k].handler # "none"
  <2>1. Associate(k).ts = tasks /\ Associate(k).hs = hand
    BY <1>3 DEF Associate
  <2>2. e.handler = chan[k].handler /\ (e.state = "gone" <=> chan[k].state = "gone")
    BY <1>1, <1>3 DEF Calls, Living
  <2>3. Fits(tasks, [chan EXCEPT ![k] = e], hand)
    BY <1>1, <2>2, GoesOnFits
  <2>4. e.handler = "own" /\ ~Orphan(k) => hand[k] = "linked"
    BY <1>1, <2>2 DEF Fits, Agrees, Orphan
  <2> QED
    BY <2>1, <2>3, <2>4
<1> QED
  BY <1>2, <1>3

Spares(k, d, y) ==
  /\ y = ServerRep => d.effect # "unregister"
  /\ y = Handler(k) => d.effect # "unhandled"

LEMMA EffectFits ==
  ASSUME NEW ts, NEW cs, NEW hs, Fits(ts, cs, hs), NEW k \in Conns,
         Living(cs[k]), NEW d, Affects(k, cs[k], d), cs[k].handler = "own" => hs[k] = "linked",
         NEW c \in ChanType, Living(c), c.handler = d.c.handler
  PROVE  LET f == Effect(k, d.effect, ts, hs)
         IN  /\ Fits(f.ts, [cs EXCEPT ![k] = c], f.hs)
             /\ \A y : Contains(ts, y) /\ Spares(k, d, y) => Contains(f.ts, y)
             /\ d.effect = "unhandled" => f.hs[k] = "gone"
<1> DEFINE f == Effect(k, d.effect, ts, hs)
           e == cs[k]
<1>1. /\ d.effect = "stream" => e.handler = "own" /\ c.handler = "push"
      /\ d.effect # "stream" => c.handler = e.handler
      /\ d.effect \in {"register", "unregister"} => e.handler = "own" /\ Asked(k, d.effect)
      /\ d.effect = "unhandled" => e.handler = "own"
  BY DEF Affects
<1>2. Living(e) /\ (c.state = "gone" <=> e.state = "gone")
  BY DEF Living
<1>3. ASSUME NEW us, Fits(us, cs, hs), d.effect # "stream"
      PROVE  Fits(us, [cs EXCEPT ![k] = c], hs)
  BY <1>1, <1>2, <1>3, GoesOnFits
<1>4. CASE d.effect = "register"
  <2>1. f.ts = Registered(ts) /\ f.hs = hs
    BY <1>4 DEF Effect
  <2> HIDE DEF f
  <2>2. Fits(Registered(ts), cs, hs) /\ \A y : Contains(ts, y) => Contains(Registered(ts), y)
    BY <1>1, <1>2, <1>4, RegisterFits
  <2>3. Fits(f.ts, [cs EXCEPT ![k] = c], f.hs)
    BY <1>3, <1>4, <2>1, <2>2
  <2> QED
    BY <1>4, <2>1, <2>2, <2>3 DEF f
<1>5. CASE d.effect = "unregister"
  <2>1. f.ts = RemoveFirst(ts, ServerRep) /\ f.hs = hs
    BY <1>5 DEF Effect, Unregistered
  <2> HIDE DEF f
  <2>2. /\ Fits(RemoveFirst(ts, ServerRep), cs, hs)
        /\ \A y : Contains(ts, y) /\ y # ServerRep => Contains(RemoveFirst(ts, ServerRep), y)
    BY RepGoneFits
  <2>3. Fits(f.ts, [cs EXCEPT ![k] = c], f.hs)
    BY <1>3, <1>5, <2>1, <2>2
  <2> QED
    BY <1>5, <2>1, <2>2, <2>3 DEF f, Spares
<1>8. CASE d.effect = "unhandled"
  <2>1. f.ts = RemoveFirst(ts, Handler(k)) /\ f.hs = [hs EXCEPT ![k] = "gone"]
    BY <1>8 DEF Effect
  <2> HIDE DEF f
  <2>2. /\ Fits(RemoveFirst(ts, Handler(k)), [cs EXCEPT ![k] = c], [hs EXCEPT ![k] = "gone"])
        /\ \A y : Contains(ts, y) /\ y # Handler(k) => Contains(RemoveFirst(ts, Handler(k)), y)
    BY <1>1, <1>2, <1>8, UnhandledFits
  <2>3. [hs EXCEPT ![k] = "gone"][k] = "gone"
    BY DEF Fits
  <2> QED
    BY <1>8, <2>1, <2>2, <2>3 DEF f, Spares
<1>6. CASE d.effect = "stream"
  <2>1. f.ts = Append(ts, Push(k)) /\ f.hs = [hs EXCEPT ![k] = "unlinked"]
    BY <1>6 DEF Effect, Streaming
  <2> HIDE DEF f
  <2>2. /\ Fits(Append(ts, Push(k)), [cs EXCEPT ![k] = c], [hs EXCEPT ![k] = "unlinked"])
        /\ \A y : Contains(ts, y) => Contains(Append(ts, Push(k)), y)
    BY <1>1, <1>2, <1>6, StreamFits
  <2> QED
    BY <1>6, <2>1, <2>2 DEF f
<1>7. CASE d.effect \notin {"register", "unregister", "stream", "unhandled"}
  <2>1. f.ts = ts /\ f.hs = hs
    BY <1>1, <1>7 DEF Effect
  <2> HIDE DEF f
  <2>2. Fits(f.ts, [cs EXCEPT ![k] = c], f.hs)
    BY <1>3, <1>7, <2>1
  <2> QED
    BY <1>7, <2>1, <2>2 DEF f
<1> QED
  BY <1>4, <1>5, <1>6, <1>7, <1>8

LEMMA ReceivedCalls ==
  ASSUME DataInv, PassHeld, NEW k \in Conns, at = Channel(k), at' = Successor(at),
         chan[k].state = "open", wire[k] # <<>>, ~Orphan(k),
         NEW d \in HandleRequest(k, Received(k))
  PROVE  /\ Calls(k, Received(k)) /\ Affects(k, Received(k), d)
         /\ d.effect = "unregister" /\ at' = ServerRep
              => \E j \in Conns : j # k /\ Asked(j, "register")
<1> DEFINE e == Received(k)
           w == <<>>
           s == sent[k]
           g == got[k]
<1>1. NoParts(w) /\ Client(plan[k]) /\ s \in Part /\ g \in Seq(Nat) /\ DataTypes
  BY OfOne DEF NoParts, DataInv
<1>2. chan[k] \in ChanType /\ Living(chan[k]) /\ chan[k].handler \in {"none", "own", "push"}
  BY OfOne DEF ChanType, Living
<1> HIDE DEF w
<1>3. Found(plan[k], sent[k], w, e, http[k].status, got[k])
  BY <1>1, ReceivedFound
<1>4. e.handler = IF chan[k].handler = "none" THEN "own" ELSE chan[k].handler
  <2> DEFINE c == chan[k]
             v == c.in \o wire[k]
             a == [c EXCEPT !.in = v, !.quiet = 0]
             b == IF net[k] = "fin" THEN Closed(a) ELSE a
  <2>1. v \in Seq(Part)
    BY <1>2, OfOne, ConcatProperties DEF ChanType
  <2>2. e = IF a.handler = "none" THEN [b EXCEPT !.handler = "own", !.limit = Associated] ELSE b
    BY DEF Received
  <2> HIDE DEF e, v, c
  <2>3. a \in ChanType /\ a.handler = c.handler
    BY <1>2, <2>1 DEF ChanType, c
  <2> HIDE DEF a
  <2>4. b \in ChanType /\ b.handler = c.handler
    BY <2>3 DEF Closed, Unused, ChanType
  <2> HIDE DEF b
  <2>5. [b EXCEPT !.handler = "own", !.limit = Associated].handler = "own"
    BY <2>4 DEF ChanType
  <2> QED
    BY <2>2, <2>3, <2>4, <2>5 DEF c
<1>8. d \in HandleRequest(k, e)
  OBVIOUS
<1> HIDE DEF e
<1>5. Calls(k, e)
  BY <1>2, <1>3, <1>4 DEF Calls, Found, Living
<1>6. Affects(k, e, d)
  <2>1. Found(plan[k], sent[k], w, e, http[k].status, g) /\ g \in Seq(Nat)
    BY <1>1, <1>3
  <2>2. NoParts(w) /\ Client(plan[k]) /\ DataTypes
    BY <1>1
  <2> HIDE DEF g
  <2> QED
    BY <1>8, <2>1, <2>2, RequestAffects
<1>7. ASSUME d.effect = "unregister", at' = ServerRep
      PROVE  \E j \in Conns : j # k /\ Asked(j, "register")
  <2>1. e.handler = "own"
    BY <1>6, <1>7 DEF Affects
  <2>2. chan[k].handler = "own" \/ chan[k].handler = "none"
    BY <1>2, <1>4, <2>1
  <2>3. hand[k] \in {"linked", "none"}
    BY <1>2, <2>2 DEF PassHeld, Fits, Agrees, Living, Orphan
  <2> QED
    BY <1>7, <2>3, NextStays
<1> QED
  BY <1>5, <1>6, <1>7 DEF e

LEMMA HandleDataPass ==
  ASSUME DataInv, PassHeld, NEW k \in Conns, HandleData(k)
  PROVE  PassInv'
<1> DEFINE a == Associate(k)
           e == Received(k)
           cs == [chan EXCEPT ![k] = e]
<1>1. /\ UNCHANGED <<plan, sent>> /\ Visit(Channel(k)) /\ at = Channel(k) /\ at' = Successor(at)
      /\ chan[k].state = "open" /\ wire[k] # <<>>
  BY DEF HandleData, Visit
<1>2. CASE Unknown(k) \/ Orphan(k)
  <2>1. PassHeld'
    BY <1>1, <1>2, VisitDeletePass DEF HandleData
  <2> QED
    BY <2>1 DEF PassHeld, PassInv
<1>3. CASE ~(Unknown(k) \/ Orphan(k))
  <2>0. PICK d \in HandleRequest(k, e) :
          LET f == Effect(k, d.effect, a.ts, a.hs)
              b == d.c
          IN  \/ DeleteChannel(k, f.ts, f.hs)
              \/ /\ chan' = [chan EXCEPT ![k] = IF d.effect = "failed" THEN b ELSE Flushed(b)]
                 /\ tasks' = f.ts /\ hand' = f.hs
    BY <1>3 DEF HandleData
  <2> DEFINE b == d.c
             f == Effect(k, d.effect, a.ts, a.hs)
             c == IF d.effect = "failed" THEN b ELSE Flushed(b)
  <2>1. \/ DeleteChannel(k, f.ts, f.hs)
        \/ chan' = [chan EXCEPT ![k] = c] /\ tasks' = f.ts /\ hand' = f.hs
    BY <2>0
  <2>2. /\ Calls(k, e) /\ Affects(k, e, d)
        /\ d.effect = "unregister" /\ at' = ServerRep
             => \E j \in Conns : j # k /\ Asked(j, "register")
    BY <1>1, <1>3, ReceivedCalls
  <2> HIDE DEF e
  <2>3. e \in ChanType /\ Living(e)
    BY <2>2 DEF Calls
  <2>4. /\ Fits(a.ts, cs, a.hs) /\ \A y : Contains(tasks, y) => Contains(a.ts, y)
        /\ e.handler = "own" => a.hs[k] = "linked"
    BY <1>3, <2>2, AssociatedFits DEF PassHeld
  <2>5. b \in ChanType /\ Living(b)
    BY <2>2, <2>3 DEF Affects, Living
  <2>6. cs[k] = e /\ \A x : [cs EXCEPT ![k] = x] = [chan EXCEPT ![k] = x]
    BY DEF PassHeld, Fits
  <2> HIDE DEF a, cs
  <2>8. ASSUME NEW x \in ChanType, Living(x), x.handler = b.handler
        PROVE  /\ Fits(f.ts, [chan EXCEPT ![k] = x], f.hs)
               /\ \A y : Contains(a.ts, y) /\ Spares(k, d, y) => Contains(f.ts, y)
               /\ d.effect = "unhandled" => f.hs[k] = "gone"
    <3>1. Living(cs[k]) /\ Affects(k, cs[k], d) /\ (cs[k].handler = "own" => a.hs[k] = "linked")
      BY <2>2, <2>3, <2>4, <2>6
    <3>2. /\ Fits(f.ts, [cs EXCEPT ![k] = x], f.hs)
          /\ \A y : Contains(a.ts, y) /\ Spares(k, d, y) => Contains(f.ts, y)
          /\ d.effect = "unhandled" => f.hs[k] = "gone"
      BY <2>4, <2>8, <3>1, EffectFits
    <3> QED
      BY <2>6, <3>2
  <2> HIDE DEF f
  <2>9. /\ Fits(f.ts, [chan EXCEPT ![k] = b], f.hs)
        /\ at' # Channel(k) /\ at' # Push(k)
        /\ \/ Contains(f.ts, at')
           \/ at' = ServerRep /\ d.effect = "unregister"
           \/ at' = Handler(k) /\ d.effect = "unhandled"
        /\ d.effect = "unhandled" => f.hs[k] = "gone"
    <3>1. Contains(a.ts, at') /\ at' # Channel(k) /\ at' # Push(k)
      BY <1>1, <2>4, NextStays
    <3> HIDE DEF b
    <3> QED
      BY <2>5, <2>8, <3>1 DEF Spares
  <2>10. c \in ChanType /\ Living(c) /\ c.handler = b.handler
    <3> HIDE DEF b
    <3>1. GoesOnAs(b, Flushed(b))
      BY <2>5, ClosedGoesOn
    <3> QED
      BY <2>5, <3>1 DEF GoesOnAs
  <2> HIDE DEF b, c
  <2>11. Fits(f.ts, [chan EXCEPT ![k] = c], f.hs)
    BY <2>8, <2>10
  <2>12. /\ Fits(tasks, chan, hand)' /\ (Contains(f.ts, at') => Contains(tasks', at'))
         /\ f.hs[k] = "gone" => hand'[k] = "gone"
    <3>1. CASE DeleteChannel(k, f.ts, f.hs)
      <4> DEFINE bs == [chan EXCEPT ![k] = b]
      <4>1. [bs EXCEPT ![k] = Deleted] = [chan EXCEPT ![k] = Deleted]
        BY DEF PassHeld, Fits
      <4>2. Fits(f.ts, bs, f.hs)
        BY <2>9
      <4> HIDE DEF bs
      <4>3. /\ Fits(tasks, chan, hand)'
            /\ \A y : Contains(f.ts, y) /\ y # Channel(k) /\ y # Push(k) => Contains(tasks', y)
            /\ f.hs[k] = "gone" => hand'[k] = "gone"
        BY <1>1, <3>1, <4>1, <4>2, DeletedTyped, DeleteStep
      <4> QED
        BY <2>9, <4>3
    <3>2. CASE chan' = [chan EXCEPT ![k] = c] /\ tasks' = f.ts /\ hand' = f.hs
      BY <1>1, <2>11, <3>2, FitsAgain
    <3> QED
      BY <2>1, <3>1, <3>2
  <2>13. CASE Contains(f.ts, at')
    BY <2>12, <2>13 DEF PassInv
  <2>14. CASE at' = ServerRep /\ d.effect = "unregister"
    <3>1. PICK j \in Conns : j # k /\ Asked(j, "register")
      BY <2>2, <2>14
    <3>2. Asked(k, "unregister")
      BY <2>2, <2>14 DEF Affects
    <3>3. Asked(j, "register")' /\ Asked(k, "unregister")'
      BY <1>1, <3>1, <3>2, AskedAgain
    <3>4. MayVanish(at)'
      BY <2>14, <3>1, <3>3 DEF MayVanish, ServerRep
    <3> QED
      BY <2>12, <3>4 DEF PassInv
  <2>15. CASE at' = Handler(k) /\ d.effect = "unhandled"
    <3>1. PICK r \in 1..Len(plan[k].requests) :
            plan[k].requests[r].kind = "bad" /\ r < sent[k][1]
      BY <2>2, <2>15 DEF Affects, Passed
    <3>2. r \in DOMAIN plan'[k].requests /\ plan'[k].requests[r].kind = "bad" /\ r < sent'[k][1]
      BY <1>1, <3>1, OfOne DEF Client
    <3>3. hand'[k] = "gone"
      BY <2>9, <2>12, <2>15
    <3>4. MayVanish(at)'
      BY <2>15, <3>2, <3>3 DEF MayVanish, Request, Handler
    <3> QED
      BY <2>12, <3>4 DEF PassInv
  <2> QED
    BY <2>9, <2>13, <2>14, <2>15
<1> QED
  BY <1>2, <1>3

(* The other tasks.                                                        *)
LEMMA ListenerPass ==
  ASSUME DataInv, PassHeld, VisitListener
  PROVE  PassHeld'
<1>1. UNCHANGED <<plan, sent>> /\ hand' = hand /\ Contains(tasks, at') /\ Fits(tasks, chan, hand)
  BY NextOfListener DEF VisitListener, PassHeld, clients
<1>2. CASE tasks' = tasks /\ chan' = chan
  BY <1>1, <1>2, PassAgain
<1>3. ASSUME NEW k \in Conns, chan[k].state = "none", tasks' = Append(tasks, Channel(k)),
             chan' = [chan EXCEPT ![k].state = "open"]
      PROVE  PassHeld'
  <2> DEFINE c == chan[k]
             d == [c EXCEPT !.state = "open"]
  <2>1. c \in ChanType /\ c.state = "none" /\ chan' = [chan EXCEPT ![k] = d]
    BY <1>3, OfOne
  <2>2. c.handler = "none"
    BY <2>1, OfOne DEF Data, Buffers
  <2>3. d \in ChanType /\ d.state = "open" /\ d.handler = "none"
    <3> HIDE DEF c
    <3> QED
      BY <2>1, <2>2 DEF ChanType
  <2> HIDE DEF d
  <2>4. Fits(tasks', chan', hand')
    <3>1. chan[k].state = "none" /\ chan[k].handler = "none"
      BY <2>1, <2>2
    <3> HIDE DEF c
    <3>2. Fits(Append(tasks, Channel(k)), [chan EXCEPT ![k] = d], hand)
      BY <1>1, <2>3, <3>1, AcceptFits
    <3> QED
      BY <1>1, <1>3, <2>1, <3>2
  <2>5. Contains(tasks', at')
    <3>1. Listed(tasks) /\ Channel(k) \in Tasks /\ ~Contains(tasks, Channel(k))
      BY <1>1, <2>1, TasksDiffer DEF Fits, Agrees, Living
    <3>2. Added(tasks, Append(tasks, Channel(k)), Channel(k))
      BY <3>1, TaskAdded
    <3> QED
      BY <1>1, <1>3, <3>2 DEF Added
  <2> QED
    BY <1>1, <2>4, <2>5, PassAgain
<1> QED
  BY <1>2, <1>3 DEF VisitListener

LEMMA OthersPass ==
  ASSUME DataInv, PassHeld,
         VisitServerRep \/ \E k \in Conns : VisitHandler(k) \/ VisitPush(k) \/ Later(k)
  PROVE  PassHeld'
<1>0. Fits(tasks, chan, hand)
  BY DEF PassHeld
<1>1. CASE VisitServerRep
  <2>1. /\ UNCHANGED <<plan, sent>> /\ chan' = chan /\ hand' = hand /\ Contains(tasks, at') /\ at' # ServerRep
        /\ tasks' = tasks \/ tasks' = RemoveFirst(tasks, ServerRep)
    BY <1>1, NextOf, TasksDiffer DEF VisitServerRep, clients
  <2> QED
    BY <1>0, <2>1, RepGoneFits, PassAgain
<1>2. ASSUME NEW k \in Conns, VisitHandler(k)
      PROVE  PassHeld'
  <2>1. /\ UNCHANGED <<plan, sent>> /\ chan' = chan /\ Contains(tasks, at') /\ at' # Handler(k)
        /\ \/ tasks' = tasks /\ hand' = hand
           \/ /\ hand[k] = "doomed" /\ tasks' = RemoveFirst(tasks, Handler(k))
              /\ hand' = [hand EXCEPT ![k] = "gone"]
    BY <1>2, NextOf, TasksDiffer DEF VisitHandler, clients
  <2> QED
    BY <1>0, <2>1, HandlerGoneFits, PassAgain
<1>3. ASSUME NEW k \in Conns, VisitPush(k)
      PROVE  PassHeld'
  <2> DEFINE c == chan[k]
             d == Noted(c)
  <2>1. /\ UNCHANGED <<plan, sent>> /\ tasks' = tasks /\ hand' = hand /\ Contains(tasks, at')
        /\ chan' = chan \/ chan' = [chan EXCEPT ![k] = d]
    BY <1>3, NextOf, TasksDiffer DEF VisitPush, clients
  <2>2. c \in ChanType /\ Living(c)
    BY <1>0, <1>3, OfOne DEF VisitPush, Visit, Fits, Agrees
  <2> HIDE DEF c
  <2>3. d \in ChanType /\ d.state = c.state /\ d.handler = c.handler
    BY <2>2, NotedUnsent
  <2> HIDE DEF d
  <2>4. GoesOnAs(c, d)
    BY <2>2, <2>3 DEF GoesOnAs, Living
  <2>5. CASE chan' = chan
    BY <1>0, <2>1, <2>5, PassAgain
  <2>6. CASE chan' = [chan EXCEPT ![k] = d]
    BY <2>1, <2>4, <2>6, GoesOnPass DEF c
  <2> QED
    BY <2>1, <2>5, <2>6
<1>4. ASSUME NEW k \in Conns, Later(k)
      PROVE  PassHeld'
  <2>1. PICK q \in {chan[k].limit, Unused} : chan' = [chan EXCEPT ![k].quiet = q]
    BY <1>4 DEF Later
  <2>2. UNCHANGED <<plan, sent>> /\ tasks' = tasks /\ hand' = hand /\ at' = at /\ Contains(tasks, at')
    BY <1>4 DEF Later, PassHeld, clients
  <2> DEFINE c == chan[k]
             d == [c EXCEPT !.quiet = q]
  <2>3. c \in ChanType /\ chan' = [chan EXCEPT ![k] = d] /\ Living(c)
    BY <1>4, <2>1, OfOne DEF Later, Living
  <2>4. GoesOnAs(c, d)
    <3>1. q \in Nat
      BY <2>3 DEF Unused, ChanType
    <3> HIDE DEF c
    <3>2. d \in ChanType /\ d.state = c.state /\ d.handler = c.handler
      BY <2>3, <3>1 DEF ChanType
    <3> QED
      BY <2>3, <3>2 DEF GoesOnAs, Living
  <2> HIDE DEF d
  <2> QED
    BY <2>2, <2>3, <2>4, GoesOnPass
<1> QED
  BY <1>1, <1>2, <1>3, <1>4

LEMMA PassInit ==
  ASSUME Init
  PROVE  PassInv
<1> DEFINE ts == <<Listener>>
<1>1. /\ tasks = ts /\ at = Listener /\ hand = [k \in Conns |-> "none"]
      /\ chan = [k \in Conns |-> NoChannel] /\ chan \in [Conns -> ChanType]
  BY DataInit DEF Init, DataInv, DataTypes
<1>2. ts \in Seq(Tasks) /\ Len(ts) = 1 /\ ts[1] = Listener
  BY TasksDiffer
<1>3. NoChannel.state = "none" /\ NoChannel.handler = "none"
  BY DEF NoChannel
<1> HIDE DEF ts
<1>4. Listed(ts) /\ \A y : Contains(ts, y) <=> y = Listener
  BY <1>2 DEF Listed, Contains
<1>5. ASSUME NEW k \in Conns
      PROVE  Agrees(k, ts, chan[k], hand[k])
  <2>1. chan[k] = NoChannel /\ hand[k] = "none"
    BY <1>1
  <2>2. ~Contains(ts, Channel(k)) /\ ~Contains(ts, Handler(k)) /\ ~Contains(ts, Push(k))
    BY <1>4, TasksDiffer
  <2> HIDE DEF NoChannel
  <2> QED
    BY <1>3, <2>1, <2>2 DEF Agrees, Living
<1>6. RepRight(ts, hand)
  BY <1>4, TasksDiffer DEF RepRight
<1>7. hand \in [Conns -> HandStates]
  BY <1>1 DEF HandStates
<1> QED
  BY <1>1, <1>4, <1>5, <1>6, <1>7 DEF PassInv, Fits

(* The clients ask for ever more.                                          *)
LEMMA AskedMore ==
  ASSUME DataTypes, NEW k \in Conns, Client(plan[k]), SendPart(k)
  PROVE  \A j \in Conns :
           /\ \A r : r \in DOMAIN plan[j].requests /\ AllSent(j, r) => AllSent(j, r)'
           /\ \A r : r \in DOMAIN plan[j].requests /\ r < sent[j][1] => r < sent'[j][1]
<1>1. sent \in [Conns -> Part] /\ sent' = [sent EXCEPT ![k] = NextPart(k)] /\ plan' = plan
  BY DEF DataTypes, SendPart
<1>2. \A j \in Conns : j # k => sent'[j] = sent[j]
  BY <1>1
<1> DEFINE s == sent[k][1]
           i == sent[k][2]
           m == Request(k, s).parts
<1>3. s \in Nat /\ i \in Nat
  BY <1>1 DEF Part
<1>4. sent'[k] = IF i < m THEN <<s, i + 1>> ELSE <<s + 1, 1>>
  BY <1>1 DEF NextPart
<1>5. DOMAIN plan[k].requests \subseteq Nat
  BY DEF Client
<1> HIDE DEF s, i
<1>6. sent'[k][1] \in {s, s + 1} /\ (sent'[k][1] = s => i < m)
  BY <1>3, <1>4
<1>7. ASSUME NEW r, r \in DOMAIN plan[k].requests, AllSent(k, r)
      PROVE  r < sent'[k][1]
  <2>1. r < s \/ (r = s /\ i = m)
    BY <1>7 DEF AllSent, s, i
  <2>2. r \in Nat
    BY <1>5, <1>7
  <2> HIDE DEF m
  <2>3. i = m => ~(i < m)
    BY <1>3
  <2> QED
    BY <1>3, <1>6, <2>1, <2>2, <2>3
<1>8. ASSUME NEW r, r \in DOMAIN plan[k].requests, r < sent[k][1]
      PROVE  r < sent'[k][1]
  BY <1>7, <1>8 DEF AllSent
<1>9. ASSUME NEW j \in Conns, j # k, NEW r
      PROVE  AllSent(j, r)' <=> AllSent(j, r)
  BY <1>1, <1>2, <1>9 DEF AllSent, Request
<1>10. ASSUME NEW r, r < sent'[k][1]
       PROVE  AllSent(k, r)'
  BY <1>10 DEF AllSent
<1> QED
  BY <1>2, <1>7, <1>8, <1>9, <1>10

LEMMA AskedPass ==
  ASSUME PassInv, UNCHANGED <<plan, tasks, at, chan, hand>>,
         \A j \in Conns :
           /\ \A r : r \in DOMAIN plan[j].requests /\ AllSent(j, r) => AllSent(j, r)'
           /\ \A r : r \in DOMAIN plan[j].requests /\ r < sent[j][1] => r < sent'[j][1]
  PROVE  PassInv'
<1>1. ASSUME NEW j \in Conns, NEW kind, Asked(j, kind)
      PROVE  Asked(j, kind)'
  BY <1>1 DEF Asked, Request
<1>2. RepRight(tasks, hand)'
  BY <1>1 DEF PassInv, Fits, RepRight
<1>3. Fits(tasks, chan, hand)'
  BY <1>2 DEF PassInv, Fits
<1>4. ASSUME MayVanish(at)
      PROVE  MayVanish(at)'
  <2>1. CASE at = ServerRep /\ \E j, k \in Conns : j # k /\ Asked(j, "register") /\ Asked(k, "unregister")
    <3>1. PICK j \in Conns, k \in Conns : j # k /\ Asked(j, "register") /\ Asked(k, "unregister")
      BY <2>1
    <3>2. Asked(j, "register")' /\ Asked(k, "unregister")'
      BY <1>1, <3>1
    <3> QED
      BY <2>1, <3>1, <3>2 DEF MayVanish, ServerRep
  <2>2. ASSUME NEW k \in Conns, at = Handler(k), hand[k] = "gone",
               NEW r \in DOMAIN plan[k].requests, Request(k, r).kind = "bad", r < sent[k][1]
        PROVE  MayVanish(at)'
    <3>1. r < sent'[k][1] /\ at' = Handler(k) /\ hand'[k] = "gone"
      BY <2>2
    <3>2. r \in DOMAIN plan'[k].requests /\ plan'[k].requests[r].kind = "bad"
      BY <2>2 DEF Request
    <3> QED
      BY <3>1, <3>2 DEF MayVanish, Handler, Request
  <2> QED
    BY <1>4, <2>1, <2>2 DEF MayVanish
<1> QED
  BY <1>3, <1>4 DEF PassInv

LEMMA PassNext ==
  ASSUME DataInv, PassInv, [Next]_vars
  PROVE  PassInv'
<1>0. PassHeld' => PassInv'
  BY DEF PassHeld, PassInv
<1>1. CASE Server
  <2>1. ASSUME NEW t, Visit(t)
        PROVE  PassHeld
    BY <2>1 DEF Visit, PassInv, PassHeld
  <2>2. ASSUME NEW k \in Conns, VisitChannel(k)
        PROVE  PassInv'
    <3>1. PassHeld
      BY <2>1, <2>2
         DEF VisitChannel, ReceiveReset, ReceiveEnd, ReceiveNothing, NotOpen, HandleData
    <3> QED
      BY <1>0, <2>2, <3>1, ReceivePass, HandleDataPass DEF VisitChannel
  <2>3. CASE VisitListener
    <3>1. PassHeld
      BY <2>1, <2>3 DEF VisitListener
    <3> QED
      BY <1>0, <2>3, <3>1, ListenerPass
  <2>4. CASE VisitServerRep \/ \E k \in Conns : VisitHandler(k) \/ VisitPush(k)
    <3>1. PassHeld
      BY <2>1, <2>4 DEF VisitServerRep, VisitHandler, VisitPush
    <3> QED
      BY <1>0, <2>4, <3>1, OthersPass
  <2> QED
    BY <1>1, <2>2, <2>3, <2>4 DEF Server
<1>2. CASE UNCHANGED <<plan, sent, tasks, at, chan, hand>>
  BY <1>2, AskedPass DEF AllSent, Request
<1>3. ASSUME NEW k \in Conns, SendPart(k)
      PROVE  PassInv'
  <2>1. UNCHANGED <<plan, tasks, at, chan, hand>>
    BY <1>3 DEF SendPart, server
  <2>2. Client(plan[k]) /\ DataTypes
    BY OfOne DEF DataInv
  <2> QED
    BY <1>3, <2>1, <2>2, AskedMore, AskedPass
<1>4. CASE Clients
  BY <1>2, <1>3, <1>4 DEF Clients, Connect, Leave, server
<1>5. ASSUME NEW k \in Conns, Later(k)
      PROVE  PassInv'
  <2>1. at = Channel(k) /\ Living(chan[k])
    BY <1>5 DEF Later, Living
  <2>2. PassHeld
    BY <2>1 DEF PassInv, PassHeld, Fits, Agrees
  <2> QED
    BY <1>0, <1>5, <2>2, OthersPass
<1>6. CASE Network
  BY <1>2, <1>5, <1>6 DEF Network, GiveUp, server
<1>7. CASE UNCHANGED vars
  BY <1>2, <1>7 DEF vars, clients
<1> QED
  BY <1>1, <1>4, <1>6, <1>7 DEF Next

(* Whatever methods delete or add on the way, the task that RootComTask    *)
(* has read before calling one is in the list afterwards, and the list has *)
(* each living channel and handler once and a push handler only for the    *)
(* channel it took over (RootComTask.c, TCPChannel.c).  There are two      *)
(* exceptions: the entry of a server that was registered over one          *)
(* connection and is unregistered over another one (Manager.c), and a      *)
(* handler of kshttp to which more is sent after a header that it could    *)
(* not parse (httpclienthandler.c).                                        *)
THEOREM PassStaysSound == Spec => []PassSound
<1>1. Init => DataInv /\ PassInv
  BY DataInit, PassInit
<1>2. DataInv /\ PassInv /\ [Next]_vars => (DataInv /\ PassInv)'
  BY DataNext, PassNext
<1>3. PassInv => PassSound
  <2> SUFFICES ASSUME PassInv
               PROVE  PassSound
    OBVIOUS
  <2>1. IsInjective(tasks)
    <3>1. DOMAIN tasks = 1..Len(tasks) /\ \A i, j \in 1..Len(tasks) : tasks[i] = tasks[j] => i = j
      BY LenProperties DEF PassInv, Fits, Listed
    <3> QED
      BY <3>1 DEF IsInjective
  <2> QED
    BY <2>1 DEF PassSound, PassInv, Fits, Agrees, Living
<1> QED
  BY <1>1, <1>2, <1>3, PTL DEF Spec
=============================================================================
