-------------------------- MODULE SchedulerProofs --------------------------
(***************************************************************************)
(* Theorems about the scheduler, for any set of objects and any bounds;    *)
(* about the life of the objects it calls, for any number of blocks,       *)
(* events and crashes; about the values their variables take, for any      *)
(* values and any width of static vectors; and about the state charts that *)
(* tasks execute, for any steps, transitions and sub-charts.               *)
(***************************************************************************)
EXTENDS Scheduler, TaskLifecycle, SetVar, StateChart, SequenceTheorems, FiniteSetTheorems, WellFoundedInduction, TLAPS

(* The lemmas about sequences; those about pointers are not used.          *)
General == INSTANCE Lemmas WITH Nil <- NoObj

(* Insertion makes room for one element, removal closes the gap.           *)
LEMMA InsertAtProperties ==
  ASSUME NEW S, NEW s \in Seq(S), NEW i \in 1..Len(s)+1, NEW e \in S
  PROVE  /\ InsertAt(s, i, e) \in Seq(S)
         /\ Len(InsertAt(s, i, e)) = Len(s) + 1
         /\ \A j \in 1..Len(s)+1 :
              InsertAt(s, i, e)[j] = IF j < i THEN s[j] ELSE IF j = i THEN e ELSE s[j-1]
<1>1. InsertAt(s, i, e) = General!InsertAt(s, i, e)
  BY DEF InsertAt, General!InsertAt
<1>2. /\ General!InsertAt(s, i, e) \in Seq(S)
      /\ Len(General!InsertAt(s, i, e)) = Len(s) + 1
      /\ \A j \in 1..Len(s)+1 :
            General!InsertAt(s, i, e)[j] = IF j < i THEN s[j] ELSE IF j = i THEN e ELSE s[j-1]
  BY General!InsertAtProperties
<1> QED
  BY <1>1, <1>2

LEMMA RemoveAtProperties ==
  ASSUME NEW S, NEW s \in Seq(S), NEW i \in 1..Len(s)
  PROVE  /\ RemoveAt(s, i) \in Seq(S)
         /\ Len(RemoveAt(s, i)) = Len(s) - 1
         /\ \A j \in 1..Len(s)-1 : RemoveAt(s, i)[j] = IF j < i THEN s[j] ELSE s[j+1]
<1>1. RemoveAt(s, i) = General!RemoveAt(s, i)
  BY DEF RemoveAt, General!RemoveAt
<1> QED
  BY <1>1, General!RemoveAtProperties

----------------------------------------------------------------------------
(* Lemmas on the operators that the list operations are built from.        *)

(* A nonempty set of naturals has a least element, and Min is that.        *)
LEMMA MinOfNats ==
  ASSUME NEW S \in SUBSET Nat, S # {}
  PROVE  Min(S) \in S /\ \A y \in S : Min(S) <= y
<1>1. PICK x \in S : \A y \in S : ~ (<<y, x>> \in OpToRel(<, Nat))
  BY WFMin, NatLessThanWellFounded
<1>2. \A y \in S : x <= y
  <2> TAKE y \in S
  <2>1. ~ (y < x)
    BY <1>1 DEF OpToRel
  <2> QED BY <2>1
<1> QED BY <1>2 DEF Min

----------------------------------------------------------------------------
(* Lemmas on the event queue.                                              *)

(* The times of events are naturals.                                       *)
LEMMA EventTypes ==
  /\ \A e \in Event : e.obj \in Objects /\ e.time \in Time /\ e.time \in Int
  /\ Time \subseteq Nat
BY SchedulerAssumption DEF Event, Time

(* The elements of a queue are events, and it has a length.                *)
LEMMA QueueTypes ==
  ASSUME NEW q \in Seq(Event)
  PROVE  /\ Len(q) \in Nat
         /\ DOMAIN q = 1..Len(q)
         /\ \A j \in 1..Len(q) : /\ q[j] \in Event
                                  /\ q[j].obj \in Objects
                                  /\ q[j].time \in Time
                                  /\ q[j].time \in Int
BY EventTypes, LenProperties, ElementOfSeq

(* insertevent finds a place: everything before it is no later than the    *)
(* new event, and what follows is later.                                   *)
LEMMA PlaceProperties ==
  ASSUME NEW q \in Seq(Event), NEW t \in Time
  PROVE  /\ Place(q, t) \in 1..Len(q)+1
         /\ \A j \in 1..Len(q) : j < Place(q, t) => q[j].time <= t
         /\ Place(q, t) \in 1..Len(q) => q[Place(q, t)].time > t
<1> DEFINE S == {i \in 1..Len(q)+1 : i \in 1..Len(q) => q[i].time > t}
<1>1. Len(q) \in Nat /\ \A j \in 1..Len(q) : q[j].time \in Int
  BY QueueTypes
<1>2. S \in SUBSET Nat /\ Len(q)+1 \in S
  BY <1>1
<1>3. Min(S) \in S /\ \A y \in S : Min(S) <= y
  BY <1>2, MinOfNats
<1>4. Place(q, t) = Min(S)
  BY DEF Place
<1>5. \A j \in 1..Len(q) : j < Min(S) => q[j].time <= t
  <2> SUFFICES ASSUME NEW j \in 1..Len(q), j < Min(S) PROVE q[j].time <= t
    OBVIOUS
  <2>1. j \notin S
    BY <1>1, <1>2, <1>3
  <2>2. t \in Int
    BY EventTypes
  <2> QED BY <1>1, <2>1, <2>2
<1> QED BY <1>1, <1>3, <1>4, <1>5

(* The first event of an object that has one.                              *)
LEMMA FirstIndexProperties ==
  ASSUME NEW q \in Seq(Event), NEW o, Queued(q, o)
  PROVE  /\ FirstIndex(q, o) \in 1..Len(q)
         /\ q[FirstIndex(q, o)].obj = o
<1>1. Indices(q, o) \in SUBSET Nat /\ Indices(q, o) # {}
  BY LenProperties DEF Indices, Queued
<1> QED BY <1>1, MinOfNats DEF FirstIndex, Indices

(* No two positions hold events of one object.                             *)
UniqueObjects(q) ==
  \A i, j \in 1..Len(q) : q[i].obj = q[j].obj => i = j

(* Inserting an event keeps the queue a sequence ordered by time; the      *)
(* events of all objects stay, and the new one is there.                   *)
LEMMA InsertEventProperties ==
  ASSUME NEW q \in Seq(Event), NEW e \in Event
  PROVE  /\ InsertEvent(q, e) \in Seq(Event)
         /\ Ordered(q) => Ordered(InsertEvent(q, e))
         /\ UniqueObjects(q) /\ ~Queued(q, e.obj) => UniqueObjects(InsertEvent(q, e))
         /\ \A o : Queued(InsertEvent(q, e), o) <=> Queued(q, o) \/ o = e.obj
<1> DEFINE p == Place(q, e.time)
           r == InsertEvent(q, e)
<1>0. e.time \in Time /\ Time \subseteq Int
  BY EventTypes
<1>1. /\ p \in 1..Len(q)+1
      /\ \A j \in 1..Len(q) : j < p => q[j].time <= e.time
      /\ p \in 1..Len(q) => q[p].time > e.time
  BY <1>0, PlaceProperties
<1>2. /\ r \in Seq(Event)
      /\ Len(r) = Len(q) + 1
      /\ \A j \in 1..Len(q)+1 :
           r[j] = IF j < p THEN q[j] ELSE IF j = p THEN e ELSE q[j-1]
  <2>1. r = InsertAt(q, p, e)
    BY DEF InsertEvent
  <2>2. p \in 1..Len(q)+1
    BY <1>1
  <2> HIDE DEF p, r
  <2>3. /\ InsertAt(q, p, e) \in Seq(Event)
        /\ Len(InsertAt(q, p, e)) = Len(q) + 1
        /\ \A j \in 1..Len(q)+1 :
             InsertAt(q, p, e)[j] = IF j < p THEN q[j] ELSE IF j = p THEN e ELSE q[j-1]
    BY <2>2, InsertAtProperties
  <2> QED BY <2>1, <2>3
<1>3. Len(q) \in Nat /\ \A j \in 1..Len(q) : q[j] \in Event /\ q[j].time \in Int
  BY QueueTypes
<1> HIDE DEF p, r
<1>4. ASSUME Ordered(q) PROVE Ordered(r)
  <2> SUFFICES ASSUME NEW i \in 1..Len(r), NEW j \in 1..Len(r), i < j
               PROVE  r[i].time <= r[j].time
    BY DEF Ordered
  <2>0. \A k, l \in 1..Len(q) : k <= l => q[k].time <= q[l].time
    BY <1>3, <1>4 DEF Ordered
  <2>1. \A k \in 1..Len(q) : k >= p => q[k].time > e.time
    <3> TAKE k \in 1..Len(q)
    <3> HAVE k >= p
    <3>1. p \in 1..Len(q)
      BY <1>1, <1>3
    <3>2. q[p].time <= q[k].time /\ q[p].time > e.time
      BY <3>1, <2>0, <1>1
    <3>3. q[p].time \in Int /\ q[k].time \in Int /\ e.time \in Int
      BY <3>1, <1>0, <1>3
    <3> QED BY <3>2, <3>3
  <2>2. i \in Int /\ j \in Int /\ p \in Int /\ Len(r) = Len(q) + 1
    BY <1>1, <1>2, <1>3
  <2>3. CASE j < p
    <3>1. i \in 1..Len(q) /\ j \in 1..Len(q) /\ r[i] = q[i] /\ r[j] = q[j]
      BY <2>2, <2>3, <1>1, <1>2, <1>3
    <3> QED BY <3>1, <2>0, <2>2
  <2>4. CASE j = p
    <3>1. i \in 1..Len(q) /\ r[i] = q[i] /\ r[j] = e
      BY <2>2, <2>4, <1>1, <1>2, <1>3
    <3> QED BY <3>1, <2>2, <2>4, <1>1
  <2>5. CASE j > p
    <3>1. j-1 \in 1..Len(q) /\ r[j] = q[j-1]
      BY <2>2, <2>5, <1>1, <1>2, <1>3
    <3>2. CASE i < p
      <4>1. i \in 1..Len(q) /\ r[i] = q[i]
        BY <3>2, <2>2, <1>1, <1>2, <1>3
      <4> QED BY <4>1, <3>1, <2>0, <2>2
    <3>3. CASE i = p
      <4>1. r[i] = e
        BY <3>3, <2>2, <1>1, <1>2
      <4>2. q[j-1].time > e.time
        BY <3>1, <3>3, <2>1, <2>2, <2>5
      <4>3. q[j-1].time \in Int /\ e.time \in Int
        BY <3>1, <1>0, <1>3
      <4> QED BY <4>1, <4>2, <4>3, <3>1
    <3>4. CASE i > p
      <4>1. i-1 \in 1..Len(q) /\ r[i] = q[i-1]
        BY <3>4, <2>2, <1>1, <1>2, <1>3
      <4> QED BY <4>1, <3>1, <2>0, <2>2
    <3> QED BY <3>2, <3>3, <3>4, <2>2
  <2> QED BY <2>3, <2>4, <2>5, <2>2
<1>5. \A o : Queued(r, o) <=> Queued(q, o) \/ o = e.obj
  <2> TAKE o
  <2>1. ASSUME Queued(q, o) PROVE Queued(r, o)
    <3>1. PICK k \in 1..Len(q) : q[k].obj = o
      BY <2>1 DEF Queued, Indices
    <3>2. CASE k < p
      BY <3>1, <3>2, <1>2, <1>3 DEF Queued, Indices
    <3>3. CASE k >= p
      <4>1. k+1 \in 1..Len(r) /\ r[k+1] = q[k]
        BY <3>1, <3>3, <1>1, <1>2, <1>3
      <4> QED BY <4>1, <3>1 DEF Queued, Indices
    <3> QED BY <3>2, <3>3, <1>1
  <2>2. Queued(r, e.obj)
    BY <1>1, <1>2, <1>3 DEF Queued, Indices
  <2>3. ASSUME Queued(r, o), o # e.obj PROVE Queued(q, o)
    <3>1. PICK k \in 1..Len(r) : r[k].obj = o
      BY <2>3 DEF Queued, Indices
    <3>2. CASE k < p
      BY <3>1, <3>2, <1>1, <1>2, <1>3 DEF Queued, Indices
    <3>3. CASE k > p
      <4>1. k-1 \in 1..Len(q) /\ r[k] = q[k-1]
        BY <3>1, <3>3, <1>1, <1>2, <1>3
      <4> QED BY <4>1, <3>1 DEF Queued, Indices
    <3> QED BY <3>1, <3>2, <3>3, <2>3, <1>1, <1>2, <1>3
  <2> QED BY <2>1, <2>2, <2>3
<1>6. ASSUME UniqueObjects(q), ~Queued(q, e.obj) PROVE UniqueObjects(r)
  <2>0. \A k \in 1..Len(q) : q[k].obj # e.obj
    BY <1>6 DEF Queued, Indices
  <2> SUFFICES ASSUME NEW i \in 1..Len(r), NEW j \in 1..Len(r), r[i].obj = r[j].obj
               PROVE  i = j
    BY DEF UniqueObjects
  <2> DEFINE old(k) == IF k < p THEN k ELSE k-1
  <2>1. \A k \in 1..Len(r) : k # p => old(k) \in 1..Len(q) /\ r[k] = q[old(k)]
    BY <1>1, <1>2, <1>3
  <2> HIDE DEF old
  <2>2. r[p] = e /\ \A k \in 1..Len(r) : k # p => r[k].obj # e.obj
    BY <2>0, <2>1, <1>1, <1>2, <1>3
  <2>3. CASE i # p /\ j # p
    <3>1. old(i) = old(j)
      BY <2>1, <2>3, <1>6 DEF UniqueObjects
    <3>2. i \in Int /\ j \in Int /\ p \in Int
      BY <1>1, <1>2, <1>3
    <3> QED BY <3>1, <3>2, <2>3 DEF old
  <2> QED BY <2>2, <2>3
<1> QED BY <1>2, <1>4, <1>5, <1>6 DEF r

(* Taking the event at one position out keeps the queue ordered and its    *)
(* objects unique; the object taken out is gone, all others stay.          *)
LEMMA RemoveAtQueue ==
  ASSUME NEW q \in Seq(Event), NEW i \in 1..Len(q)
  PROVE  /\ RemoveAt(q, i) \in Seq(Event)
         /\ Ordered(q) => Ordered(RemoveAt(q, i))
         /\ UniqueObjects(q) =>
              /\ UniqueObjects(RemoveAt(q, i))
              /\ \A o : Queued(RemoveAt(q, i), o) <=> Queued(q, o) /\ o # q[i].obj
<1> DEFINE r == RemoveAt(q, i)
           old(k) == IF k < i THEN k ELSE k+1
<1>1. /\ r \in Seq(Event) /\ Len(r) = Len(q)-1
      /\ \A k \in 1..Len(q)-1 : r[k] = IF k < i THEN q[k] ELSE q[k+1]
  BY RemoveAtProperties
<1> HIDE DEF r
<1>2. Len(q) \in Nat /\ \A j \in 1..Len(q) : q[j] \in Event /\ q[j].time \in Int
  BY QueueTypes
<1>3. \A k \in 1..Len(r) : /\ old(k) \in 1..Len(q) /\ old(k) # i
                            /\ r[k] = q[old(k)]
  BY <1>1, <1>2
<1>4. ASSUME NEW k \in 1..Len(r), NEW l \in 1..Len(r)
      PROVE  /\ k < l => old(k) < old(l)
             /\ old(k) = old(l) => k = l
  BY <1>1, <1>2
<1>5. \A m \in 1..Len(q) : m # i => \E k \in 1..Len(r) : r[k] = q[m]
  <2> TAKE m \in 1..Len(q)
  <2> HAVE m # i
  <2>1. CASE m < i
    BY <2>1, <1>1, <1>2
  <2>2. CASE m > i
    <3>1. m-1 \in 1..Len(r) /\ r[m-1] = q[m]
      BY <2>2, <1>1, <1>2
    <3> QED BY <3>1
  <2> QED BY <2>1, <2>2, <1>2
<1> HIDE DEF old
<1>6. ASSUME Ordered(q) PROVE Ordered(r)
  <2> SUFFICES ASSUME NEW k \in 1..Len(r), NEW l \in 1..Len(r), k < l
               PROVE  r[k].time <= r[l].time
    BY DEF Ordered
  <2>1. r[k] = q[old(k)] /\ r[l] = q[old(l)] /\ old(k) < old(l)
    BY <1>3, <1>4
  <2>2. q[old(k)].time <= q[old(l)].time
    BY <2>1, <1>3, <1>6 DEF Ordered
  <2> QED BY <2>1, <2>2
<1>7. ASSUME UniqueObjects(q)
      PROVE  /\ UniqueObjects(r)
             /\ \A o : Queued(r, o) <=> Queued(q, o) /\ o # q[i].obj
  <2>1. UniqueObjects(r)
    <3> SUFFICES ASSUME NEW k \in 1..Len(r), NEW l \in 1..Len(r), r[k].obj = r[l].obj
                 PROVE  k = l
      BY DEF UniqueObjects
    <3>1. q[old(k)].obj = q[old(l)].obj
      BY <1>3
    <3>2. old(k) = old(l)
      BY <3>1, <1>3, <1>7 DEF UniqueObjects
    <3> QED BY <3>2, <1>4
  <2>2. ASSUME NEW o, Queued(r, o) PROVE Queued(q, o) /\ o # q[i].obj
    <3>1. PICK k \in 1..Len(r) : r[k].obj = o
      BY <2>2 DEF Queued, Indices
    <3>2. q[old(k)].obj = o /\ old(k) \in 1..Len(q) /\ old(k) # i
      BY <3>1, <1>3
    <3> QED BY <3>2, <1>7 DEF Queued, Indices, UniqueObjects
  <2>3. ASSUME NEW o, Queued(q, o), o # q[i].obj PROVE Queued(r, o)
    <3>1. PICK m \in 1..Len(q) : q[m].obj = o
      BY <2>3 DEF Queued, Indices
    <3>2. PICK k \in 1..Len(r) : r[k] = q[m]
      BY <2>3, <3>1, <1>5
    <3> QED BY <3>1, <3>2 DEF Queued, Indices
  <2> QED BY <2>1, <2>2, <2>3
<1> QED BY <1>1, <1>6, <1>7 DEF r

(* The tail of a queue is what remains without its first event.            *)
LEMMA TailIsRemoveAt ==
  ASSUME NEW q \in Seq(Event), q # <<>>
  PROVE  1 \in 1..Len(q) /\ Head(q) = q[1] /\ Tail(q) = RemoveAt(q, 1)
<1>1. 1 \in 1..Len(q)
  BY EmptySeq, LenProperties
<1>2. Tail(q) = SubSeq(q, 2, Len(q)) /\ SubSeq(q, 1, 0) = <<>>
  BY TailIsSubSeq, SubSeqEmpty
<1>3. SubSeq(q, 2, Len(q)) \in Seq(Event)
  BY <1>2, HeadTailProperties
<1>4. RemoveAt(q, 1) = <<>> \o SubSeq(q, 2, Len(q))
  BY <1>2 DEF RemoveAt
<1> QED BY <1>1, <1>2, <1>3, <1>4, ConcatEmptySeq

(* unregister on a queue of unique objects.                                *)
LEMMA RemoveEventProperties ==
  ASSUME NEW q \in Seq(Event), NEW o, UniqueObjects(q)
  PROVE  /\ RemoveEvent(q, o) \in Seq(Event)
         /\ Ordered(q) => Ordered(RemoveEvent(q, o))
         /\ UniqueObjects(RemoveEvent(q, o))
         /\ \A p : Queued(RemoveEvent(q, o), p) <=> Queued(q, p) /\ p # o
<1>1. CASE Queued(q, o)
  <2>1. FirstIndex(q, o) \in 1..Len(q) /\ q[FirstIndex(q, o)].obj = o
    BY <1>1, FirstIndexProperties
  <2>2. RemoveEvent(q, o) = RemoveAt(q, FirstIndex(q, o))
    BY <1>1 DEF RemoveEvent
  <2> QED BY <2>1, <2>2, RemoveAtQueue
<1>2. CASE ~Queued(q, o)
  BY <1>2 DEF RemoveEvent
<1> QED BY <1>1, <1>2

(* setabseventtime on a queue of unique objects.                           *)
LEMMA MoveEventProperties ==
  ASSUME NEW q \in Seq(Event), NEW o \in Objects, NEW t \in Time, UniqueObjects(q)
  PROVE  /\ MoveEvent(q, o, t) \in Seq(Event)
         /\ Ordered(q) => Ordered(MoveEvent(q, o, t))
         /\ UniqueObjects(MoveEvent(q, o, t))
         /\ \A p : Queued(MoveEvent(q, o, t), p) <=> Queued(q, p)
<1>1. CASE Queued(q, o)
  <2> DEFINE r == RemoveEvent(q, o)
             e == [obj |-> o, time |-> t]
  <2>1. /\ r \in Seq(Event) /\ (Ordered(q) => Ordered(r)) /\ UniqueObjects(r)
        /\ \A p : Queued(r, p) <=> Queued(q, p) /\ p # o
    BY RemoveEventProperties
  <2>2. e \in Event /\ e.obj = o
    BY DEF Event
  <2>3. MoveEvent(q, o, t) = InsertEvent(r, e)
    BY <1>1 DEF MoveEvent
  <2> HIDE DEF r, e
  <2>4. /\ InsertEvent(r, e) \in Seq(Event)
        /\ Ordered(r) => Ordered(InsertEvent(r, e))
        /\ UniqueObjects(r) /\ ~Queued(r, e.obj) => UniqueObjects(InsertEvent(r, e))
        /\ \A p : Queued(InsertEvent(r, e), p) <=> Queued(r, p) \/ p = e.obj
    BY <2>1, <2>2, InsertEventProperties
  <2>5. ~Queued(r, e.obj)
    BY <2>1, <2>2
  <2>6. \A p : Queued(InsertEvent(r, e), p) <=> Queued(q, p)
    BY <1>1, <2>1, <2>2, <2>4
  <2> QED BY <2>1, <2>3, <2>4, <2>5, <2>6
<1>2. CASE ~Queued(q, o)
  BY <1>2 DEF MoveEvent
<1> QED BY <1>1, <1>2

----------------------------------------------------------------------------
(* The inductive invariant.                                                *)
IInv == TypeOK /\ QueueOrdered /\ OneEventPerObject /\ ActiveIffQueued

(* The sleep of the server loop is within its cap.                         *)
LEMMA SleepSpanType ==
  ASSUME TypeOK, NEW time \in Time
  PROVE  SleepSpan(time) \in 0..MaxSleep
<1>1. CASE queue = <<>>
  BY <1>1, SchedulerAssumption DEF SleepSpan
<1>2. CASE queue # <<>>
  <2> DEFINE s == Span(time, Head(queue).time)
  <2>1. Head(queue).time \in Int
    BY <1>2, HeadTailProperties, EventTypes DEF TypeOK
  <2>2. s \in Nat
    BY <2>1, EventTypes DEF Span
  <2>3. {MaxSleep, s} \in SUBSET Nat /\ MaxSleep \in {MaxSleep, s}
    BY <2>2, SchedulerAssumption
  <2> HIDE DEF s
  <2>4. Min({MaxSleep, s}) \in {MaxSleep, s} /\ Min({MaxSleep, s}) <= MaxSleep
    BY <2>3, MinOfNats
  <2>5. SleepSpan(time) = Min({MaxSleep, s})
    BY <1>2 DEF SleepSpan, s
  <2> QED BY <2>2, <2>4, <2>5, SchedulerAssumption
<1> QED BY <1>1, <1>2

(* What dispatching makes of a queue.                                      *)
Stamped(q, t) == InsertEvent(Tail(q), [Head(q) EXCEPT !.time = t])

LEMMA DispatchProperties ==
  ASSUME NEW q \in Seq(Event), q # <<>>, NEW t \in Time,
         Ordered(q), UniqueObjects(q)
  PROVE  /\ Stamped(q, t) \in Seq(Event)
         /\ Ordered(Stamped(q, t))
         /\ UniqueObjects(Stamped(q, t))
         /\ \A p : Queued(Stamped(q, t), p) <=> Queued(q, p)
         /\ Head(q).obj \in Objects
<1> DEFINE e == [Head(q) EXCEPT !.time = t]
           r == Tail(q)
<1>1. 1 \in 1..Len(q) /\ Head(q) = q[1] /\ r = RemoveAt(q, 1)
  BY TailIsRemoveAt
<1>2. Head(q) \in Event
  BY <1>1, QueueTypes
<1>3. e \in Event /\ e.obj = q[1].obj /\ Head(q).obj \in Objects
  BY <1>1, <1>2 DEF Event
<1>4. Queued(q, q[1].obj)
  BY <1>1 DEF Queued, Indices
<1> HIDE DEF e, r
<1>5. /\ r \in Seq(Event) /\ Ordered(r) /\ UniqueObjects(r)
      /\ \A p : Queued(r, p) <=> Queued(q, p) /\ p # q[1].obj
  BY <1>1, RemoveAtQueue
<1>6. /\ InsertEvent(r, e) \in Seq(Event)
      /\ Ordered(InsertEvent(r, e))
      /\ ~Queued(r, e.obj) => UniqueObjects(InsertEvent(r, e))
      /\ \A p : Queued(InsertEvent(r, e), p) <=> Queued(r, p) \/ p = e.obj
  BY <1>3, <1>5, InsertEventProperties
<1>7. ~Queued(r, e.obj) /\ \A p : Queued(InsertEvent(r, e), p) <=> Queued(q, p)
  BY <1>3, <1>4, <1>5, <1>6
<1>8. Stamped(q, t) = InsertEvent(r, e)
  BY DEF Stamped, r, e
<1> QED BY <1>3, <1>5, <1>6, <1>7, <1>8

LEMMA InitIInv == Init => IInv
<1> SUFFICES ASSUME Init PROVE IInv
  OBVIOUS
<1>1. TypeOK
  BY EmptySeq, SchedulerAssumption DEF Init, TypeOK, Phases, Time
<1>2. Len(queue) = 0
  BY DEF Init
<1>3. QueueOrdered /\ OneEventPerObject
  BY <1>2 DEF QueueOrdered, Ordered, OneEventPerObject
<1>4. ActiveIffQueued
  BY <1>2 DEF Init, ActiveIffQueued, Queued, Indices
<1> QED BY <1>1, <1>3, <1>4 DEF IInv

LEMMA NextIInv == IInv /\ [Next]_vars => IInv'
<1> SUFFICES ASSUME IInv, [Next]_vars PROVE IInv'
  OBVIOUS
<1>0. /\ queue \in Seq(Event) /\ Ordered(queue) /\ UniqueObjects(queue)
      /\ active \in SUBSET Objects /\ now \in Time /\ Time \subseteq Nat
      /\ \A o \in Objects : o \in active <=> Queued(queue, o)
  BY EventTypes DEF IInv, TypeOK, QueueOrdered, OneEventPerObject, UniqueObjects, ActiveIffQueued
<1> DEFINE QueueInv == /\ queue' \in Seq(Event) /\ Ordered(queue') /\ UniqueObjects(queue')
                       /\ \A o \in Objects : o \in active' <=> Queued(queue', o)
<1>1. ASSUME QueueInv, TypeOK' PROVE IInv'
  BY <1>1 DEF IInv, QueueOrdered, OneEventPerObject, UniqueObjects, ActiveIffQueued
<1>2. ASSUME NEW o \in Objects, Register(o) PROVE IInv'
  <2> DEFINE e == [obj |-> o, time |-> now]
  <2>1. e \in Event /\ e.obj = o
    BY <1>0 DEF Event
  <2>2. queue' = InsertEvent(queue, e) /\ active' = active \cup {o} /\ ~Queued(queue, o)
    BY <1>2 DEF Register
  <2> HIDE DEF e
  <2>3. QueueInv
    BY <1>0, <2>1, <2>2, InsertEventProperties
  <2>4. TypeOK'
    BY <1>0, <1>2, <2>2, <2>3 DEF IInv, TypeOK, Register, ApiCall
  <2> QED BY <1>1, <2>3, <2>4
<1>3. ASSUME NEW o \in Objects, Unregister(o) PROVE IInv'
  <2>1. /\ queue' = RemoveEvent(queue, o)
        /\ active' = IF Queued(queue, o) THEN active \ {o} ELSE active
    BY <1>3 DEF Unregister
  <2>2. QueueInv
    BY <1>0, <2>1, RemoveEventProperties
  <2>3. TypeOK'
    BY <1>0, <1>3, <2>1, <2>2 DEF IInv, TypeOK, Unregister, ApiCall
  <2> QED BY <1>1, <2>2, <2>3
<1>4. ASSUME NEW o \in Objects, NEW t \in Time, SetAbsEventTime(o, t) PROVE IInv'
  <2>1. queue' = MoveEvent(queue, o, t) /\ active' = active
    BY <1>4 DEF SetAbsEventTime
  <2>2. QueueInv
    BY <1>0, <2>1, MoveEventProperties
  <2>3. TypeOK'
    BY <1>4, <2>1, <2>2 DEF IInv, TypeOK, SetAbsEventTime, ApiCall
  <2> QED BY <1>1, <2>2, <2>3
<1>5. ASSUME NEW o \in Objects, NEW span \in 0..MaxSpan, SetRelEventTime(o, span) PROVE IInv'
  <2>1. /\ queue' = MoveEvent(queue, o, now + span) /\ active' = active
        /\ now + span \in Time
    BY <1>0, <1>5, SchedulerAssumption DEF SetRelEventTime, Time
  <2>2. QueueInv
    BY <1>0, <2>1, MoveEventProperties
  <2>3. TypeOK'
    BY <1>5, <2>1, <2>2 DEF IInv, TypeOK, SetRelEventTime, ApiCall
  <2> QED BY <1>1, <2>2, <2>3
<1>6. CASE Dispatch
  <2>1. queue' = Stamped(queue, now) /\ active' = active /\ queue # <<>>
    BY <1>6 DEF Dispatch, Stamped, Due
  <2>2. QueueInv /\ Head(queue).obj \in Objects
    BY <1>0, <2>1, DispatchProperties
  <2>3. TypeOK'
    BY <1>0, <1>6, <2>1, <2>2 DEF IInv, TypeOK, Dispatch, Phases
  <2> QED BY <1>1, <2>2, <2>3
<1>7. ASSUME UNCHANGED <<queue, active>>, TypeOK' PROVE IInv'
  BY <1>0, <1>1, <1>7
<1>8. CASE Return
  <2>1. SleepSpan(now) \in 0..MaxSleep
    BY <1>0, SleepSpanType DEF IInv
  <2> QED BY <1>7, <1>8, <2>1 DEF IInv, TypeOK, Return, Phases
<1>9. CASE Idle
  <2>1. SleepSpan(now) \in 0..MaxSleep /\ MaxSleep \in 0..MaxSleep
    BY <1>0, SleepSpanType, SchedulerAssumption DEF IInv
  <2> QED BY <1>7, <1>9, <2>1 DEF IInv, TypeOK, Idle, Phases
<1>10. CASE Wake
  BY <1>7, <1>10 DEF IInv, TypeOK, Wake, Phases
<1>11. CASE EnterLoop
  BY <1>7, <1>11 DEF IInv, TypeOK, EnterLoop, Phases
<1>12. ASSUME NEW b \in BOOLEAN, SetActivityLock(b) PROVE IInv'
  BY <1>7, <1>12 DEF IInv, TypeOK, SetActivityLock
<1>13. CASE Tick
  <2>1. now + 1 \in Time
    BY <1>0, <1>13, SchedulerAssumption DEF Tick, Time
  <2> QED BY <1>7, <1>13, <2>1 DEF IInv, TypeOK, Tick
<1>14. CASE ClockJump
  BY <1>7, <1>14 DEF IInv, TypeOK, ClockJump
<1>15. CASE UNCHANGED vars
  BY <1>7, <1>15 DEF IInv, TypeOK, vars
<1> QED
  BY <1>2, <1>3, <1>4, <1>5, <1>6, <1>8, <1>9, <1>10, <1>11, <1>12, <1>13, <1>14, <1>15
     DEF Next, Client, Server

(* The list is ordered and without doublets and the flags agree with it,   *)
(* whatever the methods do to it and wherever the clock goes.              *)
THEOREM QueueIsSound == Spec => []QueueSound
<1>1. IInv => QueueSound
  BY DEF IInv, QueueSound
<1> QED BY <1>1, InitIInv, NextIInv, PTL DEF Spec

(* Every variable keeps its type: all queue elements are events of objects *)
(* with times within the bound, and the sleep is never negative.           *)
THEOREM TypeCorrect == Spec => []TypeOK
<1>1. IInv => TypeOK
  BY DEF IInv
<1> QED BY <1>1, InitIInv, NextIInv, PTL DEF Spec

(* The list stays ordered by time, whatever the clients ask for and        *)
(* wherever the clock goes.                                                *)
THEOREM QueueIsOrdered == Spec => []QueueOrdered
<1>1. IInv => QueueOrdered
  BY DEF IInv
<1> QED BY <1>1, InitIInv, NextIInv, PTL DEF Spec

(* If the clients register no object twice, unregister leaves no event of  *)
(* the object in the list.                                                 *)
THEOREM EventsAreUnique == Spec => []OneEventPerObject
<1>1. IInv => OneEventPerObject
  BY DEF IInv
<1> QED BY <1>1, InitIInv, NextIInv, PTL DEF Spec

(* OV_OS_ACTIVE tells which objects the list points to, so that the test   *)
(* of ov_class_deleteobject leaves no pointer to freed memory.             *)
THEOREM ActiveMeansQueued == Spec => []ActiveIffQueued
<1>1. IInv => ActiveIffQueued
  BY DEF IInv
<1> QED BY <1>1, InitIInv, NextIInv, PTL DEF Spec

----------------------------------------------------------------------------
(* getnexteventtime.  No induction is needed: it is right in every state   *)
(* in which the list is ordered and holds one event per object.            *)
LEMMA NextEventTimeFromIInv == IInv => NextEventTimeExact
<1> SUFFICES ASSUME IInv,
                    ~activitylock, now >= firedAt, Queued(queue, running),
                    EventTime(queue, running) = firedAt,
                    NEW s \in 0..MaxTime
             PROVE  (\E i \in 1..Len(queue) :
                       queue[i].obj # running /\ queue[i].time <= now + s)
                      <=> s >= NextEventTime
  BY DEF NextEventTimeExact
<1> DEFINE r == FirstIndex(queue, running)
<1>1. /\ queue \in Seq(Event) /\ now \in Nat /\ firedAt \in Nat /\ s \in Nat
      /\ Len(queue) \in Nat
      /\ \A i \in 1..Len(queue) : queue[i].time \in Int
  BY EventTypes, QueueTypes, SchedulerAssumption DEF IInv, TypeOK
<1>2. r \in 1..Len(queue) /\ queue[r].obj = running /\ queue[r].time = firedAt
  BY <1>1, FirstIndexProperties DEF EventTime
<1> HIDE DEF r
<1>3. \A i, j \in 1..Len(queue) : i <= j => queue[i].time <= queue[j].time
  BY <1>1 DEF IInv, QueueOrdered, Ordered
<1>4. \A i \in 1..Len(queue) : queue[i].obj = running <=> i = r
  BY <1>2 DEF IInv, OneEventPerObject
<1>5. CASE Len(queue) = 1
  <2>1. NextEventTime = MaxTime + 1
    BY <1>5 DEF NextEventTime
  <2>2. ~(s >= NextEventTime)
    BY <1>1, <2>1, SchedulerAssumption
  <2>3. \A i \in 1..Len(queue) : i = r
    BY <1>2, <1>5
  <2> QED BY <2>2, <2>3, <1>4
<1>6. CASE Len(queue) > 1
  <2>1. NextEventTime = Span(now, queue[2].time) /\ 2 \in 1..Len(queue)
    BY <1>1, <1>6 DEF NextEventTime
  <2>2. CASE r = 1
    <3>1. s >= NextEventTime <=> queue[2].time <= now + s
      BY <1>1, <2>1 DEF Span
    <3>2. queue[2].obj # running
      BY <1>4, <2>1, <2>2
    <3>3. ASSUME NEW i \in 1..Len(queue), queue[i].obj # running, queue[i].time <= now + s
          PROVE  queue[2].time <= now + s
      <4>1. 2 <= i
        BY <3>3, <1>2, <1>4, <2>2
      <4>2. queue[2].time <= queue[i].time
        BY <4>1, <1>3, <2>1
      <4> QED BY <4>2, <3>3, <2>1, <1>1
    <3>4. queue[2].time <= now + s =>
            \E i \in 1..Len(queue) : queue[i].obj # running /\ queue[i].time <= now + s
      BY <3>2, <2>1
    <3>5. (\E i \in 1..Len(queue) : queue[i].obj # running /\ queue[i].time <= now + s)
            => queue[2].time <= now + s
      BY <3>3
    <3> QED BY <3>1, <3>4, <3>5
  <2>3. CASE r # 1
    <3>1. 1 \in 1..Len(queue) /\ 1 <= r /\ 2 <= r
      BY <1>1, <1>2, <1>6, <2>3
    <3>2. queue[1].time <= firedAt /\ queue[2].time <= firedAt
      BY <3>1, <2>1, <1>2, <1>3
    <3>3. queue[1].obj # running /\ queue[1].time <= now + s
      BY <3>1, <3>2, <1>1, <1>4, <2>3
    <3>4. s >= NextEventTime
      BY <3>2, <2>1, <1>1 DEF Span
    <3>5. \E i \in 1..Len(queue) : queue[i].obj # running /\ queue[i].time <= now + s
      BY <3>1, <3>3
    <3> QED BY <3>4, <3>5
  <2> QED BY <2>2, <2>3
<1>7. Len(queue) = 1 \/ Len(queue) > 1
  <2>1. Len(queue) \in Nat
    BY <1>1
  <2>2. r \in 1..Len(queue)
    BY <1>2
  <2>3. Len(queue) # 0
    BY <2>2
  <2>4. \A n \in Nat : n # 0 => n = 1 \/ n > 1
    OBVIOUS
  <2> QED BY <2>1, <2>3, <2>4
<1> QED BY <1>5, <1>6, <1>7

(* A method that has not moved its own event learns from getnexteventtime  *)
(* exactly how long it may run before another event is due, although the   *)
(* code takes its own event to be the first of the list.                   *)
THEOREM NextEventTimeIsExact == Spec => []NextEventTimeExact
BY InitIInv, NextIInv, NextEventTimeFromIInv, PTL DEF Spec

----------------------------------------------------------------------------
(* The refinement of TimerService.                                         *)

Entries(q) == {q[i] : i \in 1..Len(q)}

DueOf(q) == [o \in Objects |-> IF Queued(q, o) THEN EventTime(q, o) ELSE MaxTime + 1]

(* In a queue of unique objects the due time of an object is that of any   *)
(* of its events.                                                          *)
LEMMA DueOfElements ==
  ASSUME NEW q \in Seq(Event), UniqueObjects(q), NEW o \in Objects
  PROVE  /\ \A x \in Entries(q) : x.obj = o => Queued(q, o) /\ DueOf(q)[o] = x.time
         /\ (\A x \in Entries(q) : x.obj # o) => ~Queued(q, o) /\ DueOf(q)[o] = MaxTime + 1
<1>1. ASSUME NEW i \in 1..Len(q), q[i].obj = o
      PROVE  Queued(q, o) /\ DueOf(q)[o] = q[i].time
  <2>1. Queued(q, o)
    BY <1>1 DEF Queued, Indices
  <2>2. FirstIndex(q, o) = i
    BY <2>1, <1>1, FirstIndexProperties DEF UniqueObjects
  <2> QED BY <2>1, <2>2 DEF DueOf, EventTime
<1>2. ASSUME \A x \in Entries(q) : x.obj # o
      PROVE  ~Queued(q, o) /\ DueOf(q)[o] = MaxTime + 1
  <2>1. ~Queued(q, o)
    BY <1>2 DEF Entries, Queued, Indices
  <2> QED BY <2>1 DEF DueOf
<1> QED BY <1>1, <1>2 DEF Entries

(* The events after an insertion, and after a removal.                     *)
LEMMA ElementsInsert ==
  ASSUME NEW q \in Seq(Event), NEW e \in Event
  PROVE  Entries(InsertEvent(q, e)) = Entries(q) \cup {e}
<1> DEFINE p == Place(q, e.time)
           r == InsertEvent(q, e)
<1>1. p \in 1..Len(q)+1
  BY EventTypes, PlaceProperties
<1>2. /\ Len(r) = Len(q) + 1
      /\ \A j \in 1..Len(q)+1 :
           r[j] = IF j < p THEN q[j] ELSE IF j = p THEN e ELSE q[j-1]
  <2>1. r = InsertAt(q, p, e)
    BY DEF InsertEvent
  <2> HIDE DEF p, r
  <2>2. /\ Len(InsertAt(q, p, e)) = Len(q) + 1
        /\ \A j \in 1..Len(q)+1 :
             InsertAt(q, p, e)[j] = IF j < p THEN q[j] ELSE IF j = p THEN e ELSE q[j-1]
    BY <1>1, InsertAtProperties
  <2> QED BY <2>1, <2>2
<1>3. Len(q) \in Nat
  BY QueueTypes
<1> HIDE DEF p, r
<1>4. ASSUME NEW j \in 1..Len(q) PROVE q[j] \in Entries(r)
  <2>1. CASE j < p
    BY <2>1, <1>1, <1>2, <1>3 DEF Entries
  <2>2. CASE j >= p
    <3>1. j+1 \in 1..Len(r) /\ r[j+1] = q[j]
      BY <2>2, <1>1, <1>2, <1>3
    <3> QED BY <3>1 DEF Entries
  <2> QED BY <2>1, <2>2, <1>1
<1>5. e \in Entries(r)
  BY <1>1, <1>2, <1>3 DEF Entries
<1>6. ASSUME NEW j \in 1..Len(r), j # p PROVE r[j] \in Entries(q)
  <2>1. CASE j < p
    BY <2>1, <1>1, <1>2, <1>3 DEF Entries
  <2>2. CASE j > p
    <3>1. j-1 \in 1..Len(q) /\ r[j] = q[j-1]
      BY <2>2, <1>1, <1>2, <1>3
    <3> QED BY <3>1 DEF Entries
  <2> QED BY <2>1, <2>2, <1>1, <1>6
<1>7. \A j \in 1..Len(r) : r[j] \in Entries(q) \cup {e}
  BY <1>1, <1>2, <1>3, <1>6
<1> QED BY <1>4, <1>5, <1>7 DEF Entries, r

LEMMA ElementsRemove ==
  ASSUME NEW q \in Seq(Event), NEW i \in 1..Len(q), UniqueObjects(q)
  PROVE  Entries(RemoveAt(q, i)) = {x \in Entries(q) : x.obj # q[i].obj}
<1> DEFINE r == RemoveAt(q, i)
<1>1. /\ Len(r) = Len(q)-1
      /\ \A k \in 1..Len(q)-1 : r[k] = IF k < i THEN q[k] ELSE q[k+1]
  BY RemoveAtProperties
<1>2. Len(q) \in Nat
  BY QueueTypes
<1> HIDE DEF r
<1>3. ASSUME NEW k \in 1..Len(r)
      PROVE  r[k] \in Entries(q) /\ r[k].obj # q[i].obj
  <2>1. CASE k < i
    BY <2>1, <1>1, <1>2 DEF Entries, UniqueObjects
  <2>2. CASE k >= i
    <3>1. k+1 \in 1..Len(q) /\ r[k] = q[k+1] /\ k+1 # i
      BY <2>2, <1>1, <1>2
    <3> QED BY <3>1 DEF Entries, UniqueObjects
  <2> QED BY <2>1, <2>2, <1>1, <1>2
<1>4. ASSUME NEW m \in 1..Len(q), q[m].obj # q[i].obj
      PROVE  q[m] \in Entries(r)
  <2>1. CASE m < i
    BY <2>1, <1>1, <1>2 DEF Entries
  <2>2. CASE m > i
    <3>1. m-1 \in 1..Len(r) /\ r[m-1] = q[m]
      BY <2>2, <1>1, <1>2
    <3> QED BY <3>1 DEF Entries
  <2> QED BY <2>1, <2>2, <1>2, <1>4
<1> QED BY <1>3, <1>4 DEF Entries, r

(* Inserting an event sets the due time of its object and no other.        *)
LEMMA DueInsert ==
  ASSUME NEW q \in Seq(Event), UniqueObjects(q), NEW e \in Event, ~Queued(q, e.obj)
  PROVE  DueOf(InsertEvent(q, e)) = [DueOf(q) EXCEPT ![e.obj] = e.time]
<1> DEFINE r == InsertEvent(q, e)
<1>1. r \in Seq(Event) /\ UniqueObjects(r) /\ Entries(r) = Entries(q) \cup {e}
  BY InsertEventProperties, ElementsInsert
<1>2. \A x \in Entries(q) : x.obj # e.obj
  BY DEF Entries, Queued, Indices
<1> HIDE DEF r
<1>3. ASSUME NEW o \in Objects
      PROVE  DueOf(r)[o] = IF o = e.obj THEN e.time ELSE DueOf(q)[o]
  <2>1. CASE o = e.obj
    BY <1>1, <2>1, DueOfElements
  <2>2. CASE o # e.obj /\ \E x \in Entries(q) : x.obj = o
    <3>1. PICK x \in Entries(q) : x.obj = o
      BY <2>2
    <3>2. DueOf(q)[o] = x.time
      BY <3>1, DueOfElements
    <3>3. DueOf(r)[o] = x.time
      BY <3>1, <1>1, DueOfElements
    <3> QED BY <2>2, <3>2, <3>3
  <2>3. CASE o # e.obj /\ \A x \in Entries(q) : x.obj # o
    <3>1. DueOf(q)[o] = MaxTime + 1
      BY <2>3, DueOfElements
    <3>2. \A x \in Entries(r) : x.obj # o
      BY <2>3, <1>1
    <3>3. DueOf(r)[o] = MaxTime + 1
      BY <3>2, <1>1, DueOfElements
    <3> QED BY <2>3, <3>1, <3>3
  <2> QED BY <2>1, <2>2, <2>3
<1>4. DueOf(r) = [o \in Objects |-> IF o = e.obj THEN e.time ELSE DueOf(q)[o]]
  <2>1. /\ DueOf(r) = [o \in Objects |-> DueOf(r)[o]]
    BY DEF DueOf
  <2> QED BY <2>1, <1>3
<1>5. [DueOf(q) EXCEPT ![e.obj] = e.time]
        = [o \in Objects |-> IF o = e.obj THEN e.time ELSE DueOf(q)[o]]
  BY DEF DueOf
<1> QED BY <1>4, <1>5 DEF r

(* Removing the event at a position makes its object due never.            *)
LEMMA DueRemoveAt ==
  ASSUME NEW q \in Seq(Event), UniqueObjects(q), NEW i \in 1..Len(q)
  PROVE  DueOf(RemoveAt(q, i)) = [DueOf(q) EXCEPT ![q[i].obj] = MaxTime + 1]
<1> DEFINE r == RemoveAt(q, i)
           p == q[i].obj
<1>1. /\ r \in Seq(Event) /\ UniqueObjects(r)
      /\ Entries(r) = {x \in Entries(q) : x.obj # p}
  BY RemoveAtQueue, ElementsRemove
<1> HIDE DEF r, p
<1>2. ASSUME NEW o \in Objects
      PROVE  DueOf(r)[o] = IF o = p THEN MaxTime + 1 ELSE DueOf(q)[o]
  <2>1. CASE o = p
    <3>1. \A x \in Entries(r) : x.obj # o
      BY <2>1, <1>1
    <3> QED BY <2>1, <3>1, <1>1, DueOfElements
  <2>2. CASE o # p /\ \E x \in Entries(q) : x.obj = o
    <3>1. PICK x \in Entries(q) : x.obj = o
      BY <2>2
    <3>2. DueOf(q)[o] = x.time
      BY <3>1, DueOfElements
    <3>3. DueOf(r)[o] = x.time
      BY <3>1, <2>2, <1>1, DueOfElements
    <3> QED BY <2>2, <3>2, <3>3
  <2>3. CASE o # p /\ \A x \in Entries(q) : x.obj # o
    <3>1. DueOf(q)[o] = MaxTime + 1
      BY <2>3, DueOfElements
    <3>2. \A x \in Entries(r) : x.obj # o
      BY <2>3, <1>1
    <3>3. DueOf(r)[o] = MaxTime + 1
      BY <3>2, <1>1, DueOfElements
    <3> QED BY <2>3, <3>1, <3>3
  <2> QED BY <2>1, <2>2, <2>3
<1>3. DueOf(r) = [o \in Objects |-> IF o = p THEN MaxTime + 1 ELSE DueOf(q)[o]]
  <2>1. DueOf(r) = [o \in Objects |-> DueOf(r)[o]]
    BY DEF DueOf
  <2> QED BY <2>1, <1>2
<1>4. [DueOf(q) EXCEPT ![p] = MaxTime + 1]
        = [o \in Objects |-> IF o = p THEN MaxTime + 1 ELSE DueOf(q)[o]]
  BY DEF DueOf
<1> QED BY <1>3, <1>4 DEF r, p

(* unregister and setabseventtime, as seen in the due times.               *)
LEMMA DueRemove ==
  ASSUME NEW q \in Seq(Event), UniqueObjects(q), NEW o \in Objects
  PROVE  DueOf(RemoveEvent(q, o)) = [DueOf(q) EXCEPT ![o] = MaxTime + 1]
<1>1. CASE Queued(q, o)
  <2>1. FirstIndex(q, o) \in 1..Len(q) /\ q[FirstIndex(q, o)].obj = o
    BY <1>1, FirstIndexProperties
  <2>2. RemoveEvent(q, o) = RemoveAt(q, FirstIndex(q, o))
    BY <1>1 DEF RemoveEvent
  <2> QED BY <2>1, <2>2, DueRemoveAt
<1>2. CASE ~Queued(q, o)
  BY <1>2 DEF RemoveEvent, DueOf
<1> QED BY <1>1, <1>2

LEMMA DueReinsert ==
  ASSUME NEW q \in Seq(Event), UniqueObjects(q), NEW i \in 1..Len(q), NEW t \in Time
  PROVE  DueOf(InsertEvent(RemoveAt(q, i), [obj |-> q[i].obj, time |-> t]))
           = [DueOf(q) EXCEPT ![q[i].obj] = t]
<1> DEFINE r == RemoveAt(q, i)
           e == [obj |-> q[i].obj, time |-> t]
<1>1. e \in Event /\ e.obj = q[i].obj /\ e.time = t
  BY QueueTypes DEF Event
<1>2. DueOf(r) = [DueOf(q) EXCEPT ![q[i].obj] = MaxTime + 1]
  BY DueRemoveAt
<1>3. r \in Seq(Event) /\ UniqueObjects(r) /\ ~Queued(r, q[i].obj)
  BY RemoveAtQueue
<1> HIDE DEF r, e
<1>4. DueOf(InsertEvent(r, e)) = [DueOf(r) EXCEPT ![q[i].obj] = t]
  BY <1>1, <1>3, DueInsert
<1>5. [[DueOf(q) EXCEPT ![q[i].obj] = MaxTime + 1] EXCEPT ![q[i].obj] = t]
        = [DueOf(q) EXCEPT ![q[i].obj] = t]
  BY DEF DueOf
<1> QED BY <1>2, <1>4, <1>5 DEF r, e

LEMMA DueMove ==
  ASSUME NEW q \in Seq(Event), UniqueObjects(q), NEW o \in Objects, NEW t \in Time
  PROVE  DueOf(MoveEvent(q, o, t))
           = IF Queued(q, o) THEN [DueOf(q) EXCEPT ![o] = t] ELSE DueOf(q)
<1>1. CASE Queued(q, o)
  <2>1. FirstIndex(q, o) \in 1..Len(q) /\ q[FirstIndex(q, o)].obj = o
    BY <1>1, FirstIndexProperties
  <2>2. MoveEvent(q, o, t)
          = InsertEvent(RemoveAt(q, FirstIndex(q, o)), [obj |-> o, time |-> t])
    BY <1>1 DEF RemoveEvent, MoveEvent
  <2> QED BY <1>1, <2>1, <2>2, DueReinsert
<1>2. CASE ~Queued(q, o)
  BY <1>2 DEF MoveEvent
<1> QED BY <1>1, <1>2

(* The first event is that of an object that is due first.                 *)
LEMMA DueHead ==
  ASSUME NEW q \in Seq(Event), q # <<>>, Ordered(q), UniqueObjects(q)
  PROVE  /\ Head(q).obj \in Objects /\ Head(q).time \in Time
         /\ DueOf(q)[Head(q).obj] = Head(q).time
         /\ \A p \in Objects : Head(q).time <= DueOf(q)[p]
<1>1. 1 \in 1..Len(q) /\ Head(q) = q[1]
  BY TailIsRemoveAt
<1>2. Head(q).obj \in Objects /\ Head(q).time \in Time /\ Head(q) \in Entries(q)
  BY <1>1, QueueTypes DEF Entries
<1>3. DueOf(q)[Head(q).obj] = Head(q).time
  BY <1>2, DueOfElements
<1>4. ASSUME NEW p \in Objects PROVE Head(q).time <= DueOf(q)[p]
  <2>1. CASE Queued(q, p)
    <3> DEFINE k == FirstIndex(q, p)
    <3>1. k \in 1..Len(q) /\ DueOf(q)[p] = q[k].time
      BY <2>1, FirstIndexProperties DEF DueOf, EventTime
    <3> HIDE DEF k
    <3>2. Len(q) \in Nat /\ q[k].time \in Int /\ q[1].time \in Int
      BY <1>1, <3>1, QueueTypes
    <3>3. k = 1 \/ 1 < k
      BY <3>1, <3>2
    <3>4. q[1].time <= q[k].time
      BY <3>1, <3>2, <3>3, <1>1 DEF Ordered
    <3> QED BY <3>1, <3>4, <1>1
  <2>2. CASE ~Queued(q, p)
    <3>1. DueOf(q)[p] = MaxTime + 1
      BY <2>2 DEF DueOf
    <3> QED BY <3>1, <1>2, SchedulerAssumption DEF Time
  <2> QED BY <2>1, <2>2
<1> QED BY <1>2, <1>3, <1>4

(* No method is being called while the server looks for an event.          *)
NoneRunning == phase # "exec" => running = NoObj

LEMMA InitNoneRunning == Init => NoneRunning
BY DEF Init, NoneRunning

LEMMA NextNoneRunning == NoneRunning /\ [Next]_vars => NoneRunning'
BY DEF NoneRunning, Next, Client, Server, vars, Register, Unregister, SetAbsEventTime,
       SetRelEventTime, SetActivityLock, ApiCall, EnterLoop, Dispatch, Return, Idle,
       Wake, Tick, ClockJump

LEMMA DueTimeIsDueOf == DueTime = DueOf(queue) /\ DueTime' = DueOf(queue')
BY DEF DueTime, DueOf, Queued, Indices, EventTime, FirstIndex, Min

LEMMA InitTimers == Init => Timers!Init
<1> SUFFICES ASSUME Init PROVE Timers!Init
  OBVIOUS
<1>1. \A o \in Objects : ~Queued(queue, o)
  BY DEF Init, Queued, Indices
<1>2. DueTime = [o \in Objects |-> MaxTime + 1]
  BY <1>1 DEF DueTime
<1> QED BY <1>2 DEF Init, Timers!Init, Timers!Never

LEMMA NextTimers == IInv /\ NoneRunning /\ [Next]_vars => [Timers!Next]_(Timers!vars)
<1> SUFFICES ASSUME IInv, NoneRunning, [Next]_vars
             PROVE  Timers!Next \/ UNCHANGED <<DueTime, now, running>>
  BY DEF Timers!vars
<1>0. /\ queue \in Seq(Event) /\ Ordered(queue) /\ UniqueObjects(queue)
      /\ now \in Time /\ Time \subseteq Nat /\ MaxTime \in Nat /\ now # MaxTime + 1
  BY EventTypes, SchedulerAssumption
     DEF IInv, TypeOK, QueueOrdered, OneEventPerObject, UniqueObjects, Time
<1>1. DueTime = DueOf(queue) /\ DueTime' = DueOf(queue')
  BY DueTimeIsDueOf
<1>2. ASSUME NEW o \in Objects, Register(o) PROVE Timers!Start(o)
  <2> DEFINE e == [obj |-> o, time |-> now]
  <2>1. e \in Event /\ e.obj = o /\ e.time = now
    BY <1>0 DEF Event
  <2>2. queue' = InsertEvent(queue, e) /\ ~Queued(queue, o) /\ UNCHANGED <<now, running>>
    BY <1>2 DEF Register, ApiCall
  <2> HIDE DEF e
  <2>3. DueOf(queue') = [DueOf(queue) EXCEPT ![o] = now]
    BY <1>0, <2>1, <2>2, DueInsert
  <2>4. DueOf(queue)[o] = MaxTime + 1
    BY <2>2 DEF DueOf
  <2> QED BY <1>1, <2>2, <2>3, <2>4 DEF Timers!Start, Timers!Never
<1>3. ASSUME NEW o \in Objects, Unregister(o) PROVE Timers!Cancel(o)
  <2>1. queue' = RemoveEvent(queue, o) /\ UNCHANGED <<now, running>>
    BY <1>3 DEF Unregister, ApiCall
  <2>2. DueOf(queue') = [DueOf(queue) EXCEPT ![o] = MaxTime + 1]
    BY <1>0, <2>1, DueRemove
  <2> QED BY <1>1, <2>1, <2>2 DEF Timers!Cancel, Timers!Never
<1>4. ASSUME NEW o \in Objects, NEW t \in Time, queue' = MoveEvent(queue, o, t),
             UNCHANGED <<now, running>>
      PROVE  Timers!Postpone(o, t) \/ UNCHANGED <<DueTime, now, running>>
  <2>1. DueOf(queue') = IF Queued(queue, o) THEN [DueOf(queue) EXCEPT ![o] = t]
                                            ELSE DueOf(queue)
    BY <1>0, <1>4, DueMove
  <2>2. CASE Queued(queue, o)
    <3>1. DueOf(queue)[o] \in Time
      BY <2>2, <1>0, FirstIndexProperties, QueueTypes DEF DueOf, EventTime
    <3>2. DueOf(queue)[o] # MaxTime + 1
      BY <3>1, <1>0 DEF Time
    <3> QED BY <1>1, <1>4, <2>1, <2>2, <3>2 DEF Timers!Postpone, Timers!Never
  <2>3. CASE ~Queued(queue, o)
    BY <1>1, <1>4, <2>1, <2>3
  <2> QED BY <2>2, <2>3
<1>5. ASSUME NEW o \in Objects, NEW t \in Time, SetAbsEventTime(o, t)
      PROVE  Timers!Postpone(o, t) \/ UNCHANGED <<DueTime, now, running>>
  BY <1>4, <1>5 DEF SetAbsEventTime, ApiCall
<1>6. ASSUME NEW o \in Objects, NEW span \in 0..MaxSpan, SetRelEventTime(o, span)
      PROVE  Timers!Postpone(o, now + span) \/ UNCHANGED <<DueTime, now, running>>
  <2>1. now + span \in Time
    BY <1>0, <1>6, SchedulerAssumption DEF SetRelEventTime, Time
  <2> QED BY <2>1, <1>4, <1>6 DEF SetRelEventTime, ApiCall
<1>7. ASSUME Dispatch PROVE Timers!Fire(Head(queue).obj) /\ Head(queue).obj \in Objects
  <2>1. /\ phase = "call" /\ queue # <<>> /\ now > Head(queue).time
        /\ queue' = InsertEvent(Tail(queue), [Head(queue) EXCEPT !.time = now])
        /\ running' = Head(queue).obj /\ UNCHANGED now
    BY <1>7 DEF Dispatch, Due
  <2>2. /\ Head(queue).obj \in Objects /\ Head(queue).time \in Time
        /\ DueOf(queue)[Head(queue).obj] = Head(queue).time
        /\ \A p \in Objects : Head(queue).time <= DueOf(queue)[p]
    BY <1>0, <2>1, DueHead
  <2>3. 1 \in 1..Len(queue) /\ Head(queue) = queue[1] /\ Tail(queue) = RemoveAt(queue, 1)
    BY <1>0, <2>1, TailIsRemoveAt
  <2>4. queue[1] \in Event
    BY <1>0, <2>3, QueueTypes
  <2>5. [Head(queue) EXCEPT !.time = now] = [obj |-> queue[1].obj, time |-> now]
    BY <2>3, <2>4 DEF Event
  <2>6. DueOf(queue') = [DueOf(queue) EXCEPT ![Head(queue).obj] = now]
    <3>1. DueOf(InsertEvent(RemoveAt(queue, 1), [obj |-> queue[1].obj, time |-> now]))
            = [DueOf(queue) EXCEPT ![queue[1].obj] = now]
      BY <1>0, <2>3, DueReinsert
    <3> QED BY <3>1, <2>1, <2>3, <2>5
  <2>7. running = NoObj
    BY <2>1 DEF NoneRunning
  <2>8. DueOf(queue)[Head(queue).obj] < now
    BY <2>1, <2>2, <1>0
  <2> QED BY <1>1, <2>1, <2>2, <2>6, <2>7, <2>8 DEF Timers!Fire
<1>8. ASSUME Return PROVE Timers!Finish
  BY <1>1, <1>8 DEF Return, Timers!Finish
<1>9. ASSUME Tick \/ ClockJump PROVE Timers!Clock
  <2>1. now' \in Time /\ UNCHANGED <<queue, running>>
    BY <1>0, <1>9, SchedulerAssumption DEF Tick, ClockJump, Time
  <2> QED BY <2>1, <1>1 DEF Timers!Clock, Timers!Time, Time
<1>10. ASSUME UNCHANGED <<queue, now, running>> PROVE UNCHANGED <<DueTime, now, running>>
  BY <1>1, <1>10
<1>11. CASE EnterLoop \/ Idle \/ Wake \/ (\E b \in BOOLEAN : SetActivityLock(b)) \/ UNCHANGED vars
  BY <1>10, <1>11 DEF EnterLoop, Idle, Wake, SetActivityLock, vars
<1>12. CASE \E o \in Objects, span \in 0..MaxSpan : SetRelEventTime(o, span)
  <2>1. PICK o \in Objects, span \in 0..MaxSpan : SetRelEventTime(o, span)
    BY <1>12
  <2>2. now + span \in Time
    BY <1>0, <2>1, SchedulerAssumption DEF SetRelEventTime, Time
  <2> QED BY <2>1, <2>2, <1>6 DEF Timers!Next, Timers!Time, Time
<1>13. CASE \E o \in Objects, t \in Time : SetAbsEventTime(o, t)
  BY <1>5, <1>13 DEF Timers!Next, Timers!Time, Time
<1> QED
  BY <1>2, <1>3, <1>7, <1>8, <1>9, <1>11, <1>12, <1>13 DEF Next, Client, Server, Timers!Next

(* The ordered list implements the timers.                                 *)
THEOREM QueueImplementsTimers == Spec => ImplementsTimers
<1>1. IInv /\ NoneRunning /\ [Next]_vars => [Timers!Next]_(Timers!vars)
  BY NextTimers
<1> QED
  BY <1>1, InitTimers, InitIInv, NextIInv, InitNoneRunning, NextNoneRunning, PTL
     DEF Spec, ImplementsTimers, Timers!Spec

----------------------------------------------------------------------------
(* Falling asleep.                                                         *)

(* Both steps that put the server to sleep compute the span with the time  *)
(* they note, and from the queue they leave.                               *)
LEMMA SleepEnds ==
  ASSUME TypeOK, queue # <<>>
  PROVE  now + SleepSpan(now) <= Head(queue).time \/ Head(queue).time <= now
<1>1. /\ now \in Nat /\ Head(queue).time \in Nat /\ MaxSleep \in Nat
  BY EventTypes, QueueTypes, TailIsRemoveAt, SchedulerAssumption DEF TypeOK
<1> DEFINE t == Head(queue).time
           S == {MaxSleep, Span(now, t)}
<1>2. CASE t > now
  <2>1. S \in SUBSET Nat /\ S # {} /\ Span(now, t) = t - now /\ Span(now, t) \in S
    BY <1>1, <1>2 DEF Span
  <2>2. SleepSpan(now) = Min(S)
    BY DEF SleepSpan
  <2> HIDE DEF S, t
  <2>3. Min(S) <= t - now /\ Min(S) \in Nat
    BY <2>1, MinOfNats
  <2> QED BY <1>1, <2>2, <2>3 DEF t
<1>3. CASE ~(t > now)
  BY <1>1, <1>3
<1> QED BY <1>2, <1>3

(* The server wakes no later than the first event is due, unless that is   *)
(* due already (schedulenextevent and the loop of ov_runtimeserver.c).     *)
THEOREM NeverOversleeps == Spec => NoOversleep
<1> DEFINE A == ( /\ phase # "sleep" /\ phase' = "sleep"
                  /\ queue' # <<>>
                  /\ ~activitylock' )
                => \/ now' + delay' <= Head(queue').time
                   \/ Head(queue').time <= now'
<1>1. IInv /\ [Next]_vars => [A]_vars
  <2> SUFFICES ASSUME IInv, Next, phase # "sleep", phase' = "sleep", queue' # <<>>, ~activitylock'
               PROVE  now' + delay' <= Head(queue').time \/ Head(queue').time <= now'
    OBVIOUS
  <2>1. Return \/ Idle
    BY DEF Next, Client, Server, ApiCall, Register, Unregister, SetAbsEventTime, SetRelEventTime,
           SetActivityLock, EnterLoop, Dispatch, Wake, Tick, ClockJump
  <2>2. queue' = queue /\ now' = now /\ delay' = SleepSpan(now)
    BY <2>1 DEF Return, Idle
  <2> QED BY <2>2, SleepEnds DEF IInv
<1> QED BY <1>1, InitIInv, NextIInv, PTL DEF Spec, NoOversleep

----------------------------------------------------------------------------
(* Taking turns.                                                           *)

(* Whose event is new or has another time than before is behind all others *)
(* of that time: from queue q to queue r.                                  *)
TakesTurns(q, r) ==
  \A o, p \in Objects :
    ( /\ o # p
      /\ Queued(q, p) /\ Queued(r, p)
      /\ EventTime(r, p) = EventTime(q, p)
      /\ Queued(r, o)
      /\ Queued(q, o) => EventTime(r, o) # EventTime(q, o)
      /\ EventTime(r, o) = EventTime(r, p) )
    => FirstIndex(r, p) < FirstIndex(r, o)

(* insertevent walks past the events of the same time.                     *)
LEMMA InsertedLast ==
  ASSUME NEW q \in Seq(Event), Ordered(q), UniqueObjects(q),
         NEW e \in Event, ~Queued(q, e.obj),
         NEW p \in Objects, p # e.obj, Queued(InsertEvent(q, e), p),
         EventTime(InsertEvent(q, e), p) = e.time
  PROVE  FirstIndex(InsertEvent(q, e), p) < FirstIndex(InsertEvent(q, e), e.obj)
<1> DEFINE k == Place(q, e.time)
           r == InsertEvent(q, e)
           j == FirstIndex(r, p)
           i == FirstIndex(r, e.obj)
<1>1. /\ k \in 1..Len(q)+1 /\ (k \in 1..Len(q) => q[k].time > e.time)
      /\ e.time \in Int
  BY EventTypes, PlaceProperties
<1>2. /\ Len(r) = Len(q) + 1 /\ Len(q) \in Nat
      /\ \A m \in 1..Len(q)+1 :
           r[m] = IF m < k THEN q[m] ELSE IF m = k THEN e ELSE q[m-1]
  <2>1. r = InsertAt(q, k, e)
    BY DEF InsertEvent
  <2>2. Len(q) \in Nat
    BY QueueTypes
  <2> HIDE DEF k, r
  <2>3. k \in 1..Len(q)+1
    BY <1>1
  <2>4. /\ Len(InsertAt(q, k, e)) = Len(q) + 1
        /\ \A m \in 1..Len(q)+1 :
             InsertAt(q, k, e)[m] = IF m < k THEN q[m] ELSE IF m = k THEN e ELSE q[m-1]
    BY <2>3, InsertAtProperties
  <2> QED BY <2>1, <2>2, <2>4
<1>3. r \in Seq(Event) /\ UniqueObjects(r) /\ Queued(r, e.obj)
  BY InsertEventProperties
<1> HIDE DEF k, r
<1>4. j \in 1..Len(r) /\ r[j].obj = p /\ r[j].time = e.time
  BY <1>3, FirstIndexProperties DEF EventTime, r
<1>5. i \in 1..Len(r) /\ r[i].obj = e.obj
  BY <1>3, FirstIndexProperties
<1> HIDE DEF i, j
<1>6. i = k
  <2>1. k \in 1..Len(r) /\ r[k] = e
    BY <1>1, <1>2
  <2> QED BY <1>3, <1>5, <2>1 DEF UniqueObjects
<1>7. j # k
  BY <1>1, <1>2, <1>4
<1>8. ~(j > k)
  <2> SUFFICES ASSUME j > k PROVE FALSE
    OBVIOUS
  <2>1. k \in 1..Len(q) /\ j-1 \in 1..Len(q) /\ r[j] = q[j-1] /\ k <= j-1
    BY <1>1, <1>2, <1>4
  <2>2. q[k].time \in Int /\ q[j-1].time \in Int
    BY <2>1, QueueTypes
  <2>3. q[k].time <= q[j-1].time
    <3>1. CASE k = j-1
      BY <2>2, <3>1
    <3>2. CASE k < j-1
      BY <2>1, <3>2 DEF Ordered
    <3> QED BY <1>1, <1>4, <2>1, <3>1, <3>2
  <2> QED BY <1>1, <1>4, <2>1, <2>2, <2>3
<1> QED BY <1>1, <1>2, <1>4, <1>6, <1>7, <1>8 DEF i, j, r

(* The due time tells who is queued.                                       *)
LEMMA QueuedByDue ==
  ASSUME NEW q \in Seq(Event), NEW o \in Objects
  PROVE  /\ Queued(q, o) <=> DueOf(q)[o] # MaxTime + 1
         /\ Queued(q, o) => DueOf(q)[o] = EventTime(q, o)
<1>1. ASSUME Queued(q, o) PROVE EventTime(q, o) \in Time
  BY <1>1, FirstIndexProperties, QueueTypes DEF EventTime
<1>2. MaxTime + 1 \notin Time
  BY SchedulerAssumption DEF Time
<1> QED BY <1>1, <1>2 DEF DueOf

LEMMA TurnsKept ==
  ASSUME NEW q \in Seq(Event), NEW r \in Seq(Event),
         \A o \in Objects : DueOf(r)[o] \in {DueOf(q)[o], MaxTime + 1}
  PROVE  TakesTurns(q, r)
<1> SUFFICES ASSUME NEW o \in Objects, Queued(r, o),
                    Queued(q, o) => EventTime(r, o) # EventTime(q, o)
             PROVE  FALSE
  BY DEF TakesTurns
<1> QED BY QueuedByDue

LEMMA TurnsInsert ==
  ASSUME NEW q \in Seq(Event), NEW s \in Seq(Event), Ordered(s), UniqueObjects(s),
         NEW e \in Event, ~Queued(s, e.obj),
         \A o \in Objects : o # e.obj => DueOf(s)[o] = DueOf(q)[o]
  PROVE  TakesTurns(q, InsertEvent(s, e))
<1> DEFINE r == InsertEvent(s, e)
<1>1. r \in Seq(Event) /\ DueOf(r) = [DueOf(s) EXCEPT ![e.obj] = e.time]
  BY InsertEventProperties, DueInsert
<1>2. e.obj \in Objects /\ DueOf(r)[e.obj] = e.time
  BY <1>1, EventTypes DEF DueOf
<1>3. \A o \in Objects : o # e.obj => DueOf(r)[o] = DueOf(q)[o]
  BY <1>1 DEF DueOf
<1>4. Queued(r, e.obj)
  BY InsertEventProperties
<1>5. EventTime(r, e.obj) = e.time
  BY <1>1, <1>2, <1>4, QueuedByDue
<1>6. ASSUME NEW p \in Objects, p # e.obj, Queued(r, p), EventTime(r, p) = e.time
      PROVE  FirstIndex(r, p) < FirstIndex(r, e.obj)
  BY <1>6, InsertedLast
<1> HIDE DEF r
<1>7. ASSUME NEW o \in Objects, o # e.obj, Queued(r, o)
      PROVE  Queued(q, o) /\ EventTime(r, o) = EventTime(q, o)
  <2>1. DueOf(r)[o] = DueOf(q)[o]
    BY <1>3, <1>7
  <2>2. DueOf(r)[o] # MaxTime + 1 /\ DueOf(r)[o] = EventTime(r, o)
    BY <1>1, <1>7, QueuedByDue
  <2>3. Queued(q, o)
    BY <2>1, <2>2, QueuedByDue
  <2> QED BY <2>1, <2>2, <2>3, QueuedByDue
<1>8. TakesTurns(q, r)
  BY <1>5, <1>6, <1>7 DEF TakesTurns
<1> QED BY <1>8 DEF r

(* setabseventtime and the stamp of schedulenextevent put an event anew.   *)
LEMMA TurnsReinsert ==
  ASSUME NEW q \in Seq(Event), Ordered(q), UniqueObjects(q), NEW i \in 1..Len(q), NEW t \in Time
  PROVE  TakesTurns(q, InsertEvent(RemoveAt(q, i), [obj |-> q[i].obj, time |-> t]))
<1> DEFINE s == RemoveAt(q, i)
           e == [obj |-> q[i].obj, time |-> t]
<1>1. e \in Event /\ e.obj = q[i].obj
  BY QueueTypes DEF Event
<1>2. /\ s \in Seq(Event) /\ Ordered(s) /\ UniqueObjects(s) /\ ~Queued(s, e.obj)
  BY <1>1, RemoveAtQueue
<1>3. \A o \in Objects : o # e.obj => DueOf(s)[o] = DueOf(q)[o]
  <2>1. DueOf(s) = [DueOf(q) EXCEPT ![q[i].obj] = MaxTime + 1]
    BY DueRemoveAt
  <2> QED BY <1>1, <2>1 DEF DueOf
<1> HIDE DEF s, e
<1>4. TakesTurns(q, InsertEvent(s, e))
  BY <1>1, <1>2, <1>3, TurnsInsert
<1> QED BY <1>4 DEF s, e

LEMMA TurnsMove ==
  ASSUME NEW q \in Seq(Event), Ordered(q), UniqueObjects(q), NEW o \in Objects, NEW t \in Time
  PROVE  TakesTurns(q, MoveEvent(q, o, t))
<1>1. CASE Queued(q, o)
  <2>1. FirstIndex(q, o) \in 1..Len(q) /\ q[FirstIndex(q, o)].obj = o
    BY <1>1, FirstIndexProperties
  <2>2. MoveEvent(q, o, t)
          = InsertEvent(RemoveAt(q, FirstIndex(q, o)), [obj |-> o, time |-> t])
    BY <1>1 DEF RemoveEvent, MoveEvent
  <2> QED BY <2>1, <2>2, TurnsReinsert
<1>2. CASE ~Queued(q, o)
  BY <1>2, TurnsKept DEF MoveEvent
<1> QED BY <1>1, <1>2

LEMMA NextTakesTurns == IInv /\ [Next]_vars => TakesTurns(queue, queue')
<1> SUFFICES ASSUME IInv, [Next]_vars PROVE TakesTurns(queue, queue')
  OBVIOUS
<1>0. /\ queue \in Seq(Event) /\ Ordered(queue) /\ UniqueObjects(queue)
      /\ now \in Time /\ Time \subseteq Nat
  BY EventTypes DEF IInv, TypeOK, QueueOrdered, OneEventPerObject, UniqueObjects
<1>1. ASSUME UNCHANGED queue PROVE TakesTurns(queue, queue')
  BY <1>0, <1>1, TurnsKept
<1>2. ASSUME NEW o \in Objects, Register(o) PROVE TakesTurns(queue, queue')
  <2> DEFINE e == [obj |-> o, time |-> now]
  <2>1. e \in Event /\ e.obj = o
    BY <1>0 DEF Event
  <2>2. queue' = InsertEvent(queue, e) /\ ~Queued(queue, o)
    BY <1>2 DEF Register
  <2> HIDE DEF e
  <2>3. TakesTurns(queue, InsertEvent(queue, e))
    BY <1>0, <2>1, <2>2, TurnsInsert
  <2> QED BY <2>2, <2>3
<1>3. ASSUME NEW o \in Objects, Unregister(o) PROVE TakesTurns(queue, queue')
  <2>1. queue' = RemoveEvent(queue, o)
    BY <1>3 DEF Unregister
  <2>2. DueOf(RemoveEvent(queue, o)) = [DueOf(queue) EXCEPT ![o] = MaxTime + 1]
    BY <1>0, DueRemove
  <2>3. RemoveEvent(queue, o) \in Seq(Event)
    BY <1>0, RemoveEventProperties
  <2>4. \A p \in Objects : DueOf(RemoveEvent(queue, o))[p] \in {DueOf(queue)[p], MaxTime + 1}
    BY <2>2 DEF DueOf
  <2> QED BY <1>0, <2>1, <2>3, <2>4, TurnsKept
<1>4. ASSUME NEW o \in Objects, NEW t \in Time, queue' = MoveEvent(queue, o, t)
      PROVE  TakesTurns(queue, queue')
  BY <1>0, <1>4, TurnsMove
<1>5. ASSUME NEW o \in Objects, NEW span \in 0..MaxSpan, SetRelEventTime(o, span)
      PROVE  TakesTurns(queue, queue')
  <2>1. queue' = MoveEvent(queue, o, now + span) /\ now + span \in Time
    BY <1>0, <1>5, SchedulerAssumption DEF SetRelEventTime, Time
  <2> QED BY <1>4, <2>1
<1>6. CASE Dispatch
  <2>1. queue' = Stamped(queue, now) /\ queue # <<>>
    BY <1>6 DEF Dispatch, Stamped, Due
  <2>2. 1 \in 1..Len(queue) /\ Head(queue) = queue[1] /\ Tail(queue) = RemoveAt(queue, 1)
    BY <1>0, <2>1, TailIsRemoveAt
  <2>3. [Head(queue) EXCEPT !.time = now] = [obj |-> queue[1].obj, time |-> now]
    <3>1. queue[1] \in Event
      BY <1>0, <2>2, QueueTypes
    <3> QED BY <2>2, <3>1 DEF Event
  <2> QED BY <1>0, <2>1, <2>2, <2>3, TurnsReinsert DEF Stamped
<1>7. CASE \E o \in Objects, t \in Time : SetAbsEventTime(o, t)
  BY <1>4, <1>7 DEF SetAbsEventTime
<1> QED
  BY <1>1, <1>2, <1>3, <1>5, <1>6, <1>7
     DEF Next, Client, Server, vars, SetActivityLock, EnterLoop, Return, Idle, Wake, Tick, ClockJump

(* Objects of the same period take turns: who comes anew at a time is      *)
(* called after all that were due then already (insertevent).              *)
THEOREM NewcomersGoLast == Spec => NewcomerGoesLast
<1>1. IInv /\ [Next]_vars => [TakesTurns(queue, queue')]_vars
  BY NextTakesTurns
<1>2. TakesTurns(queue, queue') =>
        \A o, p \in Objects :
          ( /\ o # p
            /\ Queued(queue, p) /\ Queued(queue', p)
            /\ EventTime(queue', p) = EventTime(queue, p)
            /\ Queued(queue', o)
            /\ Queued(queue, o) => EventTime(queue', o) # EventTime(queue, o)
            /\ EventTime(queue', o) = EventTime(queue', p) )
          => FirstIndex(queue', p) < FirstIndex(queue', o)
  BY DEF TakesTurns
<1> QED BY <1>1, <1>2, InitIInv, NextIInv, PTL DEF Spec, NewcomerGoesLast

-----------------------------------------------------------------------------
(* The life of the objects that are scheduled (TaskLifecycle).             *)

Running == {"starting", "up", "stopping"}

(* There is one UrTask at most, so that the search finds the one that the  *)
(* process knows.                                                          *)
OneUrTask ==
  \A a, b \in Blocks : kind[a] = "UrTask" /\ kind[b] = "UrTask" => a = b

(* The flag of a task that is not the UrTask is set only where a task is   *)
(* taken for a deleted UrTask, and stays only over a crash.                *)
TasksInactive ==
  \A b \in Blocks : kind[b] = "task" /\ "active" \in state[b] => crashes > 0 \/ Forsaken(b)

(* Without a process there is neither a queue nor anything cached; while   *)
(* there is one, it knows the UrTask, or has known it.                     *)
CacheRight ==
  IF proc \in Running
  THEN /\ pUrTask \in Blocks
       /\ fate = "alive" => kind[pUrTask] = "UrTask"
       /\ fate = "deleted" => kind[pUrTask] = "free"
       /\ proc = "starting" => fate = "alive"
  ELSE pUrTask = Null /\ creating = Null /\ fate = "alive" /\ \A b \in Blocks : events[b] = 0

(* An object under construction has neither flags nor events, unless it    *)
(* is built where the UrTask was.                                          *)
HalfCreated ==
  creating # Null =>
    /\ proc = "up"
    /\ kind[creating] # "free"
    /\ IF creating = pUrTask
       THEN fate = "replaced" /\ ("active" \in state[creating] => events[creating] > 0)
       ELSE events[creating] = 0 /\ state[creating] = {}

(* The events of an object before and after it is started up.              *)
Before(b) == IF missing /\ b = pUrTask THEN 1 ELSE 0
After(b)  == IF b = pUrTask THEN Before(b) + 1 ELSE IF kind[b] = "RootComTask" THEN 1 ELSE 0

FlagRight(b) ==
  /\ "active" \in state[b] => events[b] > 0 \/ (kind[b] = "task" /\ crashes > 0)
  /\ events[b] > 0 => "active" \in state[b]

StartedRight(b) ==
  /\ IF Forsaken(b) THEN events[b] >= 1 ELSE events[b] = After(b)
  /\ FlagRight(b)

(* What is taken for the UrTask is stopped like it.                        *)
TakenRight(b) ==
  Forsaken(b) /\ "active" \in state[b] => b \in todo /\ events[b] > 0

(* Startup and shutdown have come as far as todo says.                     *)
Progress ==
  /\ proc = "starting" =>
       \A b \in Live : IF b \in todo THEN events[b] = Before(b) ELSE StartedRight(b)
  /\ proc = "up" => \A b \in Live \ {creating} : StartedRight(b)
  /\ proc = "stopping" => \A b \in Live : TakenRight(b)

(* The inductive invariant.                                                *)
LifecycleInv ==
  /\ LifecycleTypeOK
  /\ OneUrTask
  /\ TasksInactive
  /\ CacheRight
  /\ HalfCreated
  /\ NoDanglingEvent
  /\ Progress

----------------------------------------------------------------------------
(* What the invariant says of who is scheduled: what pUrTask points to, if *)
(* it is a task, and the RootComTasks.                                     *)
LEMMA WhoIsScheduled ==
  ASSUME LifecycleInv, proc \in Running, NEW b \in Blocks
  PROVE  /\ GetUrTask(kind) = pUrTask
         /\ IsUrTask(b, kind) <=> kind[b] \in {"task", "UrTask"} /\ b = pUrTask
         /\ Scheduled(b, kind) <=> kind[b] = "RootComTask" \/ (kind[b] # "free" /\ b = pUrTask)
         /\ fate = "alive" => (kind[b] = "UrTask" <=> b = pUrTask)
BY LifecycleAssumption
   DEF LifecycleInv, LifecycleTypeOK, CacheRight, OneUrTask, GetUrTask, IsUrTask, Scheduled, Kinds

(* The search of /Tasks/UrTask finds it.                                   *)
LEMMA SearchFinds ==
  ASSUME UrTasks(kind) # {}
  PROVE  Search(kind) \in Blocks /\ kind[Search(kind)] = "UrTask"
BY DEF UrTasks, Search

LEMMA InitLifecycleInv == LifecycleInit => LifecycleInv
<1> SUFFICES ASSUME LifecycleInit PROVE LifecycleInv
  OBVIOUS
<1> USE DEF LifecycleInit
<1>1. CASE NewDatabase
  <2> USE <1>1 DEF NewDatabase
  <2>1. LifecycleTypeOK
    <3>1. proc \in Processes /\ pUrTask \in Blocks /\ creating = Null /\ fate \in Fates
      BY DEF Processes, Fates
    <3>2. kind \in [Blocks -> Kinds] /\ state \in [Blocks -> SUBSET Flags]
      BY DEF Kinds, Flags
    <3>3. events \in [Blocks -> 0..MaxEvents] /\ crashes \in 0..MaxCrashes
      BY LifecycleAssumption
    <3>4. rootStarted \in BOOLEAN /\ missing \in BOOLEAN
      OBVIOUS
    <3>5. off \in SUBSET Blocks /\ todo \in SUBSET Blocks
      OBVIOUS
    <3> QED BY <3>1, <3>2, <3>3, <3>4, <3>5 DEF LifecycleTypeOK
  <2>2. OneUrTask /\ TasksInactive /\ CacheRight /\ HalfCreated /\ NoDanglingEvent
    BY DEF OneUrTask, TasksInactive, CacheRight, HalfCreated, NoDanglingEvent, Running, Live
  <2>3. Progress
    BY DEF Progress, Live, StartedRight, FlagRight, Before, After, Flags, Forsaken
  <2> QED BY <2>1, <2>2, <2>3 DEF LifecycleInv
<1>2. CASE NoTasksLeft
  <2> USE <1>2 DEF NoTasksLeft
  <2>0. \A b \in Blocks : kind[b] = "free"
    BY LifecycleAssumption
  <2>1. LifecycleTypeOK
    <3>1. proc \in Processes /\ pUrTask = Null /\ creating = Null /\ fate \in Fates
      BY DEF Processes, Fates
    <3>2. kind \in [Blocks -> Kinds] /\ state \in [Blocks -> SUBSET Flags]
      BY DEF Kinds, Flags
    <3>3. events \in [Blocks -> 0..MaxEvents] /\ crashes \in 0..MaxCrashes
      BY LifecycleAssumption
    <3>4. rootStarted \in BOOLEAN /\ missing \in BOOLEAN
      OBVIOUS
    <3>5. off \in SUBSET Blocks /\ todo \in SUBSET Blocks
      OBVIOUS
    <3> QED BY <3>1, <3>2, <3>3, <3>4, <3>5 DEF LifecycleTypeOK
  <2>2. OneUrTask /\ TasksInactive /\ CacheRight /\ HalfCreated /\ NoDanglingEvent
    BY <2>0 DEF OneUrTask, TasksInactive, CacheRight, HalfCreated, NoDanglingEvent, Running, Live
  <2>3. Progress
    BY DEF Progress
  <2> QED BY <2>1, <2>2, <2>3 DEF LifecycleInv
<1> QED BY <1>1, <1>2

----------------------------------------------------------------------------
(* The steps of the process.                                               *)

(* The end of the process leaves the objects and takes everything else.    *)
LEMMA ExitIInv ==
  ASSUME LifecycleInv, Exit, UNCHANGED <<kind, state, off, missing>>,
         rootStarted' \in BOOLEAN, crashes' \in 0..MaxCrashes,
         \A b \in Blocks : kind[b] = "task" /\ "active" \in state[b] => crashes' > 0
  PROVE  LifecycleInv'
<1>1. LifecycleTypeOK'
  BY LifecycleAssumption DEF LifecycleInv, LifecycleTypeOK, Exit, Processes, Fates
<1>2. OneUrTask' /\ TasksInactive'
  BY DEF LifecycleInv, OneUrTask, TasksInactive
<1>3. CacheRight' /\ HalfCreated' /\ NoDanglingEvent' /\ Progress'
  BY DEF Exit, CacheRight, HalfCreated, NoDanglingEvent, Progress, Running
<1> QED BY <1>1, <1>2, <1>3 DEF LifecycleInv

LEMMA ShutdownDoneIInv == LifecycleInv /\ ShutdownDone => LifecycleInv'
<1> SUFFICES ASSUME LifecycleInv, ShutdownDone PROVE LifecycleInv'
  OBVIOUS
<1>1. /\ Exit /\ UNCHANGED <<kind, state, off, missing>>
      /\ rootStarted' \in BOOLEAN /\ crashes' = crashes /\ crashes \in 0..MaxCrashes
      /\ proc = "stopping" /\ todo = {}
  BY DEF ShutdownDone, LifecycleInv, LifecycleTypeOK
<1>2. ASSUME NEW b \in Blocks, kind[b] = "task", "active" \in state[b]
      PROVE  crashes > 0
  <2>1. ~Forsaken(b)
    BY <1>1, <1>2 DEF LifecycleInv, Progress, TakenRight, Live
  <2> QED BY <1>2, <2>1 DEF LifecycleInv, TasksInactive
<1> QED BY <1>1, <1>2, ExitIInv

LEMMA CrashIInv == LifecycleInv /\ Crash => LifecycleInv'
<1> SUFFICES ASSUME LifecycleInv, Crash PROVE LifecycleInv'
  OBVIOUS
<1>1. /\ Exit /\ UNCHANGED <<kind, state, off, missing>>
      /\ rootStarted' \in BOOLEAN /\ crashes' \in 0..MaxCrashes /\ crashes' > 0
  BY LifecycleAssumption DEF Crash, LifecycleInv, LifecycleTypeOK
<1> QED BY <1>1, ExitIInv

(* The process before the libraries are opened.                            *)
LEMMA LoadIInv == LifecycleInv /\ (Load \/ RefuseStartup \/ CreateUrTaskFails) => LifecycleInv'
<1> SUFFICES ASSUME LifecycleInv, Load \/ RefuseStartup \/ CreateUrTaskFails PROVE LifecycleInv'
  OBVIOUS
<1>0. /\ proc \notin Running /\ proc' \in {"down", "loaded"} /\ rootStarted' \in BOOLEAN
      /\ UNCHANGED <<kind, state, off, events, pUrTask, todo, creating, crashes, missing, fate>>
  BY DEF Load, RefuseStartup, CreateUrTaskFails, Running, LifecycleInv, LifecycleTypeOK
<1>1. LifecycleTypeOK'
  BY <1>0 DEF LifecycleInv, LifecycleTypeOK, Processes
<1>2. OneUrTask' /\ TasksInactive' /\ NoDanglingEvent'
  BY <1>0 DEF LifecycleInv, OneUrTask, TasksInactive, NoDanglingEvent, Live, Forsaken
<1>3. CacheRight' /\ HalfCreated' /\ Progress'
  BY <1>0 DEF LifecycleInv, CacheRight, HalfCreated, Progress, Running
<1> QED BY <1>1, <1>2, <1>3 DEF LifecycleInv

LEMMA OpenLibrariesIInv == LifecycleInv /\ OpenLibraries => LifecycleInv'
<1> SUFFICES ASSUME LifecycleInv, OpenLibraries PROVE LifecycleInv'
  OBVIOUS
<1> USE DEF OpenLibraries
<1>0. /\ Search(kind) \in Blocks /\ kind[Search(kind)] = "UrTask"
      /\ \A b \in Blocks : events[b] = 0
      /\ creating = Null /\ fate = "alive"
  BY SearchFinds DEF LifecycleInv, CacheRight, Running
<1>1. LifecycleTypeOK'
  BY <1>0 DEF LifecycleInv, LifecycleTypeOK, Processes, Live
<1>2. OneUrTask' /\ TasksInactive' /\ NoDanglingEvent'
  BY <1>0 DEF LifecycleInv, OneUrTask, TasksInactive, NoDanglingEvent, Live, Forsaken
<1>3. CacheRight' /\ HalfCreated'
  BY <1>0 DEF LifecycleInv, CacheRight, HalfCreated, Running
<1>4. Progress'
  BY <1>0 DEF Progress, Live, Before
<1> QED BY <1>1, <1>2, <1>3, <1>4 DEF LifecycleInv

LEMMA OpenAndCreateIInv ==
  ASSUME LifecycleInv, NEW c \in Blocks, OpenAndCreateUrTask(c)
  PROVE  LifecycleInv'
<1> USE DEF OpenAndCreateUrTask, Becomes, Registered
<1>0. /\ \A b \in Blocks : events[b] = 0
      /\ creating = Null /\ kind[c] = "free" /\ fate = "alive"
      /\ \A b \in Blocks : kind[b] # "UrTask"
  BY DEF LifecycleInv, CacheRight, Running, UrTasks
<1>1. /\ kind \in [Blocks -> Kinds] /\ kind' = [kind EXCEPT ![c] = "UrTask"]
      /\ events \in [Blocks -> 0..MaxEvents] /\ events' = [events EXCEPT ![c] = 1]
      /\ state \in [Blocks -> SUBSET Flags]
      /\ state' = [state EXCEPT ![c] = {"init", "started", "active"}]
  <2>1. /\ kind \in [Blocks -> Kinds] /\ events \in [Blocks -> 0..MaxEvents]
        /\ state \in [Blocks -> SUBSET Flags]
    BY DEF LifecycleInv, LifecycleTypeOK
  <2>2. Registered([events |-> events[c], state |-> {"init", "started"}])
          = [events |-> 1, state |-> {"init", "started", "active"}]
    <3>1. {"init", "started"} \cup {"active"} = {"init", "started", "active"}
      OBVIOUS
    <3>2. events[c] = 0 /\ 0 + 1 = 1
      BY <1>0
    <3> QED BY <3>1, <3>2
  <2> QED BY <2>1, <2>2
<1>2. LifecycleTypeOK'
  BY <1>0, <1>1, LifecycleAssumption DEF LifecycleInv, LifecycleTypeOK, Processes, Kinds, Flags, Live
<1>3. OneUrTask' /\ TasksInactive' /\ NoDanglingEvent'
  BY <1>0, <1>1 DEF LifecycleInv, OneUrTask, TasksInactive, NoDanglingEvent, Live, Forsaken
<1>4. CacheRight' /\ HalfCreated'
  BY <1>0, <1>1 DEF CacheRight, HalfCreated, Running
<1>5. Progress'
  BY <1>0, <1>1 DEF Progress, Live, Before
<1> QED BY <1>2, <1>3, <1>4, <1>5 DEF LifecycleInv

LEMMA StartObjectIInv ==
  ASSUME LifecycleInv, NEW c \in Blocks, StartObject(c)
  PROVE  LifecycleInv'
<1> DEFINE x == StartedUp(It(c), c, kind)
           called == kind[c] = "RootComTask" \/ (kind[c] # "free" /\ c = pUrTask)
<1>0. /\ events[c] \in 0..MaxEvents /\ state[c] \in SUBSET Flags
      /\ Scheduled(c, kind) <=> called
      /\ fate = "alive" /\ pUrTask \in Blocks /\ (kind[c] = "UrTask" <=> c = pUrTask)
  BY WhoIsScheduled DEF StartObject, LifecycleInv, LifecycleTypeOK, Running, CacheRight
<1>1. /\ x.events = IF called THEN events[c] + 1 ELSE events[c]
      /\ x.state = IF called THEN state[c] \cup {"started", "active"} ELSE state[c] \cup {"started"}
  BY <1>0 DEF StartedUp, It, Registered
<1>2. /\ x.events \in 0..MaxEvents /\ x.state \in SUBSET Flags
      /\ events' = [events EXCEPT ![c] = x.events] /\ state' = [state EXCEPT ![c] = x.state]
  BY <1>0, <1>1, LifecycleAssumption DEF StartObject, Becomes, Flags
<1> HIDE DEF x
<1>3. /\ proc = "starting" /\ c \in todo /\ todo' = todo \ {c}
      /\ UNCHANGED <<proc, rootStarted, kind, off, pUrTask, creating, crashes, missing, fate>>
  BY DEF StartObject
<1>4. LifecycleTypeOK'
  BY <1>2, <1>3 DEF LifecycleInv, LifecycleTypeOK
<1>5. OneUrTask' /\ CacheRight' /\ HalfCreated'
  BY <1>3 DEF LifecycleInv, OneUrTask, CacheRight, HalfCreated, Running
<1>6. TasksInactive'
  BY <1>0, <1>1, <1>2, <1>3 DEF LifecycleInv, LifecycleTypeOK, TasksInactive, Forsaken
<1>7. NoDanglingEvent'
  BY <1>0, <1>1, <1>2, <1>3 DEF LifecycleInv, LifecycleTypeOK, NoDanglingEvent, Live, Kinds
<1>8. Progress'
  <2>1. c \in Live => events[c] = Before(c)
    BY <1>3 DEF LifecycleInv, Progress
  <2>2. c \in Live => StartedRight(c)'
    <3>1. SUFFICES ASSUME c \in Live PROVE StartedRight(c)'
      OBVIOUS
    <3>2. kind[c] \in {"task", "UrTask", "RootComTask"} /\ missing \in BOOLEAN
      BY <3>1 DEF LifecycleInv, LifecycleTypeOK, Live, Kinds
    <3>3. events'[c] = x.events /\ state'[c] = x.state
      BY <1>2 DEF LifecycleInv, LifecycleTypeOK
    <3>4. kind[c] = "task" /\ "active" \in state[c] => crashes > 0
      BY <1>0 DEF LifecycleInv, TasksInactive, Forsaken
    <3>5. FlagRight(c)'
      BY <1>0, <1>1, <1>3, <2>1, <3>1, <3>2, <3>3, <3>4 DEF FlagRight, Before
    <3>6. events'[c] = After(c)' /\ ~Forsaken(c)'
      BY <1>0, <1>1, <1>3, <2>1, <3>1, <3>2, <3>3 DEF Before, After, Forsaken
    <3> QED BY <3>5, <3>6 DEF StartedRight
  <2>3. \A b \in Live \ {c} : events'[b] = events[b] /\ state'[b] = state[b]
    BY <1>2 DEF LifecycleInv, LifecycleTypeOK, Live
  <2> QED BY <1>3, <2>2, <2>3 DEF LifecycleInv, Progress, StartedRight, FlagRight, Before, After, Live, Forsaken
<1> QED BY <1>4, <1>5, <1>6, <1>7, <1>8 DEF LifecycleInv

LEMMA StartupDoneIInv == LifecycleInv /\ StartupDone => LifecycleInv'
<1> SUFFICES ASSUME LifecycleInv, StartupDone PROVE LifecycleInv'
  OBVIOUS
<1> USE DEF StartupDone
<1>1. LifecycleTypeOK'
  BY DEF LifecycleInv, LifecycleTypeOK, Processes
<1>2. OneUrTask' /\ TasksInactive' /\ NoDanglingEvent' /\ CacheRight' /\ HalfCreated'
  BY DEF LifecycleInv, OneUrTask, TasksInactive, NoDanglingEvent, Live, CacheRight, HalfCreated, Running, Forsaken
<1>3. Progress'
  BY DEF LifecycleInv, Progress, Live, StartedRight, FlagRight, Before, After, Forsaken
<1> QED BY <1>1, <1>2, <1>3 DEF LifecycleInv

LEMMA ShutdownIInv == LifecycleInv /\ Shutdown => LifecycleInv'
<1> SUFFICES ASSUME LifecycleInv, Shutdown PROVE LifecycleInv'
  OBVIOUS
<1> USE DEF Shutdown
<1>1. LifecycleTypeOK'
  BY DEF LifecycleInv, LifecycleTypeOK, Processes, Live
<1>2. OneUrTask' /\ TasksInactive' /\ NoDanglingEvent' /\ CacheRight' /\ HalfCreated'
  BY DEF LifecycleInv, OneUrTask, TasksInactive, NoDanglingEvent, Live, CacheRight, HalfCreated, Running, Forsaken
<1>3. Progress'
  <2> SUFFICES ASSUME NEW b \in Live PROVE TakenRight(b)'
    BY DEF Progress, Live
  <2>1. StartedRight(b) /\ events[b] \in 0..MaxEvents
    BY LifecycleAssumption DEF LifecycleInv, LifecycleTypeOK, Progress, Live
  <2> QED BY <2>1 DEF TakenRight, StartedRight, Forsaken
<1> QED BY <1>1, <1>2, <1>3 DEF LifecycleInv

LEMMA StopObjectIInv ==
  ASSUME LifecycleInv, NEW c \in Blocks, StopObject(c)
  PROVE  LifecycleInv'
<1> DEFINE x == ShutDown(It(c), c, kind)
<1>0. events[c] \in 0..MaxEvents /\ state[c] \in SUBSET Flags
  BY DEF LifecycleInv, LifecycleTypeOK
<1>1. x.events \in 0..events[c] /\ x.state \subseteq state[c]
  BY <1>0, LifecycleAssumption DEF ShutDown, It, Unregistered
<1>2. /\ x.events \in 0..MaxEvents /\ x.state \in SUBSET Flags
      /\ events' = [events EXCEPT ![c] = x.events] /\ state' = [state EXCEPT ![c] = x.state]
  BY <1>0, <1>1, LifecycleAssumption DEF StopObject, Becomes
<1>9. c \in Live /\ Forsaken(c) => "active" \notin x.state
  <2> SUFFICES ASSUME c \in Live, Forsaken(c) PROVE "active" \notin x.state
    OBVIOUS
  <2>1. Scheduled(c, kind)
    BY WhoIsScheduled DEF StopObject, Running, Live, Forsaken
  <2>2. "active" \in state[c] => events[c] > 0
    BY DEF StopObject, LifecycleInv, Progress, TakenRight
  <2>3. Unregistered(It(c)).state = IF events[c] = 0 THEN state[c] ELSE state[c] \ {"active"}
    BY DEF Unregistered, It
  <2>4. x.state = Unregistered(It(c)).state \ {"started"}
    BY <2>1 DEF ShutDown, Unregistered, It
  <2> QED BY <1>0, <2>2, <2>3, <2>4
<1> HIDE DEF x
<1>3. /\ proc = "stopping" /\ todo' = todo \ {c}
      /\ UNCHANGED <<proc, rootStarted, kind, off, pUrTask, creating, crashes, missing, fate>>
  BY DEF StopObject
<1>4. LifecycleTypeOK'
  BY <1>2, <1>3 DEF LifecycleInv, LifecycleTypeOK
<1>5. OneUrTask' /\ CacheRight' /\ HalfCreated'
  BY <1>3 DEF LifecycleInv, OneUrTask, CacheRight, HalfCreated, Running
<1>6. TasksInactive'
  BY <1>1, <1>2, <1>3 DEF LifecycleInv, LifecycleTypeOK, TasksInactive, Forsaken
<1>7. NoDanglingEvent'
  BY <1>0, <1>1, <1>2, <1>3 DEF LifecycleInv, LifecycleTypeOK, NoDanglingEvent, Live
<1>8. Progress'
  <2> SUFFICES ASSUME NEW b \in Live PROVE TakenRight(b)'
    BY <1>3 DEF Progress, Live
  <2>1. CASE b = c
    BY <1>2, <1>3, <1>9, <2>1 DEF TakenRight, Forsaken, LifecycleInv, LifecycleTypeOK
  <2>2. CASE b # c
    <3>1. events'[b] = events[b] /\ state'[b] = state[b] /\ TakenRight(b)
      BY <1>2, <1>3, <2>2 DEF LifecycleInv, LifecycleTypeOK, Live, Progress
    <3> QED BY <1>3, <2>2, <3>1 DEF TakenRight, Forsaken
  <2> QED BY <2>1, <2>2
<1> QED BY <1>4, <1>5, <1>6, <1>7, <1>8 DEF LifecycleInv

----------------------------------------------------------------------------
(* Services.                                                               *)

LEMMA CreateIInv ==
  ASSUME LifecycleInv, NEW c \in Blocks, NEW k \in Kinds \ {"free"}, Create(c, k)
  PROVE  LifecycleInv'
<1>1. /\ proc = "up" /\ creating = Null /\ creating' = c /\ kind[c] = "free"
      /\ kind' = [kind EXCEPT ![c] = k] /\ state' = [state EXCEPT ![c] = {}]
      /\ off' = off \cup {c}
      /\ fate' = IF c = pUrTask THEN "replaced" ELSE fate
      /\ k = "UrTask" => UrTasks(kind) = {}
      /\ UNCHANGED <<events, pUrTask, proc, rootStarted, todo, crashes, missing>>
  BY DEF Create, Service
<1>2. c # pUrTask => events[c] = 0
  BY <1>1 DEF LifecycleInv, LifecycleTypeOK, NoDanglingEvent, Live
<1>3. LifecycleTypeOK'
  BY <1>1 DEF LifecycleInv, LifecycleTypeOK, Kinds, Fates
<1>4. OneUrTask' /\ TasksInactive'
  BY <1>1 DEF LifecycleInv, LifecycleTypeOK, OneUrTask, TasksInactive, UrTasks, Forsaken
<1>7. NoDanglingEvent'
  BY <1>1, <1>2 DEF LifecycleInv, LifecycleTypeOK, NoDanglingEvent, Live
<1>5. CacheRight' /\ HalfCreated'
  BY <1>1, <1>2 DEF LifecycleInv, LifecycleTypeOK, CacheRight, HalfCreated, Running
<1>6. Progress'
  <2> SUFFICES ASSUME NEW b \in Live' \ {c} PROVE StartedRight(b)'
    BY <1>1 DEF Progress
  <2>1. b \in Live /\ b # c /\ kind'[b] = kind[b] /\ state'[b] = state[b] /\ StartedRight(b)
    BY <1>1, LifecycleAssumption DEF LifecycleInv, LifecycleTypeOK, Progress, Live
  <2>2. Forsaken(b)' <=> Forsaken(b)
    BY <1>1, <2>1 DEF Forsaken
  <2> QED BY <1>1, <2>1, <2>2 DEF StartedRight, FlagRight, Before, After
<1> QED BY <1>3, <1>4, <1>5, <1>6, <1>7 DEF LifecycleInv

LEMMA SetProctimeIInv ==
  ASSUME LifecycleInv, NEW c \in Blocks, SetProctime(c)
  PROVE  LifecycleInv'
<1> DEFINE x == IF IsUrTask(c, kind) THEN Registered(Unregistered(It(c))) ELSE It(c)
<1>1. /\ proc = "up" /\ kind[c] \in {"task", "UrTask"}
      /\ events' = [events EXCEPT ![c] = x.events] /\ state' = [state EXCEPT ![c] = x.state]
      /\ x.events <= MaxEvents
      /\ UNCHANGED <<kind, off, creating, proc, rootStarted, todo, crashes, missing, fate>>
      /\ events[c] \in 0..MaxEvents /\ state[c] \in SUBSET Flags
  BY DEF SetProctime, Service, Becomes, LifecycleInv, LifecycleTypeOK
<1>2. pUrTask' = pUrTask /\ (IsUrTask(c, kind) <=> c = pUrTask)
  BY <1>1, WhoIsScheduled DEF SetProctime, Running
<1>3. c = pUrTask => /\ x.events = IF events[c] = 0 THEN 1 ELSE events[c]
                     /\ x.state = state[c] \cup {"active"}
  <2> SUFFICES ASSUME c = pUrTask
               PROVE  /\ x.events = IF events[c] = 0 THEN 1 ELSE events[c]
                      /\ x.state = state[c] \cup {"active"}
    OBVIOUS
  <2>1. CASE events[c] = 0
    BY <1>2, <2>1 DEF Registered, Unregistered, It
  <2>2. CASE events[c] # 0
    <3>1. (state[c] \ {"active"}) \cup {"active"} = state[c] \cup {"active"}
      OBVIOUS
    <3>2. events[c] - 1 + 1 = events[c]
      BY <1>1
    <3> QED BY <1>2, <2>2, <3>1, <3>2 DEF Registered, Unregistered, It
  <2> QED BY <2>1, <2>2
<1>4. c = pUrTask /\ fate = "alive" => x.events = events[c] /\ x.state = state[c]
  <2> SUFFICES ASSUME c = pUrTask, fate = "alive" PROVE x.events = events[c] /\ x.state = state[c]
    OBVIOUS
  <2>1. c # creating
    BY LifecycleAssumption DEF LifecycleInv, HalfCreated
  <2>2. StartedRight(c) /\ ~Forsaken(c)
    BY <1>1, <2>1 DEF LifecycleInv, Progress, Live, Forsaken
  <2>3. events[c] > 0 /\ "active" \in state[c]
    BY <2>2 DEF StartedRight, FlagRight, After, Before
  <2>4. state[c] \cup {"active"} = state[c]
    BY <2>3
  <2> QED BY <1>1, <1>3, <2>3, <2>4
<1>5. c # pUrTask => x.events = events[c] /\ x.state = state[c]
  BY <1>2 DEF It
<1> HIDE DEF x
<1>6. CASE x.events = events[c] /\ x.state = state[c]
  <2>1. UNCHANGED <<events, state, pUrTask>>
    BY <1>1, <1>2, <1>6 DEF LifecycleInv, LifecycleTypeOK
  <2> QED
    BY <1>1, <2>1 DEF LifecycleInv, LifecycleTypeOK, OneUrTask, TasksInactive, CacheRight, HalfCreated,
         NoDanglingEvent, Progress, Live, StartedRight, FlagRight, Before, After, Forsaken
<1>7. CASE Forsaken(c)
  <2>1. /\ x.events \in 1..MaxEvents /\ x.state \in SUBSET Flags /\ "active" \in x.state
    BY <1>1, <1>3, <1>7, LifecycleAssumption DEF Forsaken, Flags
  <2>2. LifecycleTypeOK'
    BY <1>1, <1>2, <2>1 DEF LifecycleInv, LifecycleTypeOK
  <2>3. OneUrTask' /\ CacheRight'
    BY <1>1, <1>2 DEF LifecycleInv, OneUrTask, CacheRight, Running
  <2>4. TasksInactive'
    BY <1>1, <1>2, <1>7 DEF LifecycleInv, LifecycleTypeOK, TasksInactive, Forsaken
  <2>5. NoDanglingEvent'
    BY <1>1, <1>2 DEF LifecycleInv, LifecycleTypeOK, NoDanglingEvent, Live
  <2>6. HalfCreated'
    BY <1>1, <1>2, <1>7, <2>1 DEF LifecycleInv, LifecycleTypeOK, HalfCreated, Forsaken
  <2>7. Progress'
    <3> SUFFICES ASSUME NEW b \in Live \ {creating} PROVE StartedRight(b)'
      BY <1>1 DEF Progress, Live
    <3>1. CASE b = c
      BY <1>1, <1>2, <1>7, <2>1, <3>1
         DEF LifecycleInv, LifecycleTypeOK, StartedRight, FlagRight, Forsaken
    <3>2. CASE b # c
      <4>1. events'[b] = events[b] /\ state'[b] = state[b] /\ StartedRight(b)
        BY <1>1, <3>2 DEF LifecycleInv, LifecycleTypeOK, Progress, Live
      <4> QED BY <1>1, <1>2, <4>1 DEF StartedRight, FlagRight, Before, After, Forsaken
    <3> QED BY <3>1, <3>2
  <2> QED BY <2>2, <2>3, <2>4, <2>5, <2>6, <2>7 DEF LifecycleInv
<1> QED
  BY <1>4, <1>5, <1>6, <1>7 DEF Forsaken

(* An object whose creation failed leaves no event behind, unless it was   *)
(* built where the UrTask had been.                                        *)
LEMMA CreateFailsIInv == LifecycleInv /\ CreateFails => LifecycleInv'
<1> SUFFICES ASSUME LifecycleInv, CreateFails PROVE LifecycleInv'
  OBVIOUS
<1> PICK c \in Blocks : c = creating
  BY DEF CreateFails, LifecycleInv, LifecycleTypeOK
<1>1. /\ proc = "up" /\ creating' = Null
      /\ kind' = [kind EXCEPT ![c] = "free"] /\ state' = [state EXCEPT ![c] = {}]
      /\ UNCHANGED <<off, events, pUrTask, fate, proc, rootStarted, todo, crashes, missing>>
  BY DEF CreateFails, Service
<1>2. IF c = pUrTask THEN fate = "replaced" ELSE events[c] = 0
  BY <1>1, LifecycleAssumption DEF LifecycleInv, HalfCreated
<1>3. LifecycleTypeOK'
  BY <1>1 DEF LifecycleInv, LifecycleTypeOK, Kinds
<1>4. OneUrTask' /\ TasksInactive' /\ NoDanglingEvent'
  BY <1>1, <1>2 DEF LifecycleInv, LifecycleTypeOK, OneUrTask, TasksInactive, NoDanglingEvent, Live, Forsaken
<1>5. CacheRight' /\ HalfCreated'
  BY <1>1, <1>2 DEF LifecycleInv, LifecycleTypeOK, CacheRight, HalfCreated, Running
<1>6. Progress'
  <2> SUFFICES ASSUME NEW b \in Live' PROVE StartedRight(b)'
    BY <1>1 DEF Progress
  <2>1. b \in Live /\ b # c /\ kind'[b] = kind[b] /\ state'[b] = state[b] /\ StartedRight(b)
    BY <1>1, LifecycleAssumption DEF LifecycleInv, LifecycleTypeOK, Progress, Live
  <2> QED BY <1>1, <2>1 DEF StartedRight, FlagRight, Before, After, Forsaken
<1> QED BY <1>3, <1>4, <1>5, <1>6 DEF LifecycleInv

LEMMA CreateSucceedsIInv == LifecycleInv /\ CreateSucceeds => LifecycleInv'
<1> SUFFICES ASSUME LifecycleInv, CreateSucceeds PROVE LifecycleInv'
  OBVIOUS
<1> PICK c \in Blocks : c = creating
  BY DEF CreateSucceeds, LifecycleInv, LifecycleTypeOK
<1> DEFINE x == StartedUp([It(c) EXCEPT !.state = @ \cup {"init"}], c, kind)
           called == kind[c] = "RootComTask" \/ c = pUrTask
<1>1. /\ proc = "up" /\ creating' = Null
      /\ events' = [events EXCEPT ![c] = x.events] /\ state' = [state EXCEPT ![c] = x.state]
      /\ x.events <= MaxEvents
      /\ UNCHANGED <<kind, off, fate, proc, rootStarted, todo, crashes, missing>>
      /\ events[c] \in 0..MaxEvents /\ state[c] \in SUBSET Flags
  BY DEF CreateSucceeds, Service, Becomes, LifecycleInv, LifecycleTypeOK
<1>2. /\ kind[c] # "free"
      /\ IF c = pUrTask THEN fate = "replaced" ELSE events[c] = 0 /\ state[c] = {}
  BY <1>1, LifecycleAssumption DEF LifecycleInv, HalfCreated
<1>3. pUrTask' = pUrTask /\ (Scheduled(c, kind) <=> called)
  BY <1>1, <1>2, WhoIsScheduled DEF CreateSucceeds, Running
<1>4. /\ x.events = IF called THEN events[c] + 1 ELSE events[c]
      /\ x.state = IF called THEN state[c] \cup {"init", "started", "active"}
                   ELSE state[c] \cup {"init", "started"}
  <2>1. [It(c) EXCEPT !.state = @ \cup {"init"}] = [events |-> events[c], state |-> state[c] \cup {"init"}]
    BY DEF It
  <2>2. (state[c] \cup {"init"}) \cup {"started"} = state[c] \cup {"init", "started"}
    OBVIOUS
  <2>3. (state[c] \cup {"init", "started"}) \cup {"active"} = state[c] \cup {"init", "started", "active"}
    OBVIOUS
  <2> QED BY <1>3, <2>1, <2>2, <2>3 DEF StartedUp, Registered
<1> HIDE DEF x
<1>5. x.events \in 0..MaxEvents /\ x.state \in SUBSET Flags
  BY <1>1, <1>4, LifecycleAssumption DEF Flags
<1>6. LifecycleTypeOK'
  BY <1>1, <1>3, <1>5 DEF LifecycleInv, LifecycleTypeOK
<1>7. OneUrTask' /\ CacheRight' /\ HalfCreated'
  BY <1>1, <1>3 DEF LifecycleInv, OneUrTask, CacheRight, HalfCreated, Running
<1>8. TasksInactive' /\ NoDanglingEvent'
  BY <1>1, <1>2, <1>3, <1>4
     DEF LifecycleInv, LifecycleTypeOK, TasksInactive, NoDanglingEvent, Live, Forsaken
<1>9. Progress'
  <2>1. \A b \in Live \ {c} : StartedRight(b)
    BY <1>1 DEF LifecycleInv, Progress
  <2>2. StartedRight(c)'
    <3>1. events'[c] = x.events /\ state'[c] = x.state
      BY <1>1 DEF LifecycleInv, LifecycleTypeOK
    <3>2. CASE c = pUrTask
      BY <1>1, <1>2, <1>3, <1>4, <3>1, <3>2 DEF StartedRight, FlagRight, Forsaken
    <3>3. CASE c # pUrTask
      BY <1>1, <1>2, <1>3, <1>4, <3>1, <3>3 DEF StartedRight, FlagRight, After, Before, Forsaken
    <3> QED BY <3>2, <3>3
  <2>3. \A b \in Live \ {c} : events'[b] = events[b] /\ state'[b] = state[b]
    BY <1>1 DEF LifecycleInv, LifecycleTypeOK, Live
  <2> QED BY <1>1, <1>3, <2>1, <2>2, <2>3 DEF Progress, StartedRight, FlagRight, Before, After, Live, Forsaken
<1> QED BY <1>6, <1>7, <1>8, <1>9 DEF LifecycleInv

LEMMA SetActimodeIInv ==
  ASSUME LifecycleInv, NEW c \in Blocks, SetActimode(c)
  PROVE  LifecycleInv'
<1>1. /\ off' \in SUBSET Blocks
      /\ UNCHANGED <<kind, state, events, pUrTask, creating, proc, rootStarted, todo, crashes, missing, fate>>
  BY DEF SetActimode, Service, LifecycleInv, LifecycleTypeOK
<1> QED
  BY <1>1 DEF LifecycleInv, LifecycleTypeOK, OneUrTask, TasksInactive, CacheRight, HalfCreated,
       NoDanglingEvent, Progress, Live, StartedRight, TakenRight, FlagRight, Before, After, Forsaken

(* deleteobject takes the event of the object off the queue; one remains   *)
(* of an UrTask that had two.                                              *)
LEMMA DeleteIInv ==
  ASSUME LifecycleInv, NEW c \in Blocks, Delete(c)
  PROVE  LifecycleInv'
<1> DEFINE x == ShutDown(It(c), c, kind)
           y == IF "active" \in x.state THEN Unregistered(x) ELSE x
<1>1. /\ proc = "up" /\ creating = Null /\ c \in Live
      /\ kind' = [kind EXCEPT ![c] = "free"] /\ state' = [state EXCEPT ![c] = {}]
      /\ events' = [events EXCEPT ![c] = y.events]
      /\ fate' = IF c = pUrTask /\ fate = "alive" THEN "deleted" ELSE fate
      /\ y.events <= MaxEvents
      /\ UNCHANGED <<off, creating, proc, rootStarted, todo, crashes, missing>>
      /\ events[c] \in 0..MaxEvents /\ state[c] \in SUBSET Flags
  BY DEF Delete, Service, Becomes, LifecycleInv, LifecycleTypeOK
<1>2. pUrTask' = pUrTask /\ (Scheduled(c, kind) <=> kind[c] = "RootComTask" \/ c = pUrTask)
  BY <1>1, WhoIsScheduled DEF Delete, Running, Live
<1>3. StartedRight(c)
  BY <1>1, LifecycleAssumption DEF LifecycleInv, Progress, Live
<1>4. /\ x.events = IF Scheduled(c, kind) /\ events[c] # 0 THEN events[c] - 1 ELSE events[c]
      /\ Scheduled(c, kind) /\ events[c] # 0 => "active" \notin x.state
  BY DEF ShutDown, It, Unregistered
<1>5. y.events \in 0..x.events
  BY <1>1, <1>4 DEF Unregistered
<1>6. c # pUrTask => y.events = 0
  <2> SUFFICES ASSUME c # pUrTask PROVE y.events = 0
    OBVIOUS
  <2>1. events[c] = IF kind[c] = "RootComTask" THEN 1 ELSE 0
    BY <1>3 DEF StartedRight, After, Forsaken
  <2> QED BY <1>2, <1>4, <1>5, <2>1
<1>7. c = pUrTask /\ fate = "alive" /\ ~missing => y.events = 0
  <2> SUFFICES ASSUME c = pUrTask, fate = "alive", ~missing PROVE y.events = 0
    OBVIOUS
  <2>1. events[c] = 1
    BY <1>3 DEF StartedRight, After, Before, Forsaken
  <2> QED BY <1>2, <1>4, <1>5, <2>1
<1>8. y.events \in 0..MaxEvents
  BY <1>1, <1>4, <1>5, LifecycleAssumption
<1> HIDE DEF x, y
<1>9. LifecycleTypeOK'
  BY <1>1, <1>2, <1>8, LifecycleAssumption DEF LifecycleInv, LifecycleTypeOK, Kinds, Fates
<1>10. OneUrTask' /\ TasksInactive'
  BY <1>1, <1>2 DEF LifecycleInv, LifecycleTypeOK, OneUrTask, TasksInactive, Forsaken
<1>11. CacheRight' /\ HalfCreated'
  BY <1>1, <1>2 DEF LifecycleInv, LifecycleTypeOK, CacheRight, HalfCreated, Running, Live
<1>12. NoDanglingEvent'
  <2> SUFFICES ASSUME NEW b \in Blocks, events'[b] > 0, b \notin Live'
               PROVE  \/ b = pUrTask' /\ fate' = "deleted" /\ missing'
                      \/ b = pUrTask' /\ fate' = "replaced"
    BY DEF NoDanglingEvent
  <2>1. CASE b = c
    <3>1. events'[b] = y.events
      BY <1>1, <2>1 DEF LifecycleInv, LifecycleTypeOK
    <3>2. b = pUrTask
      BY <1>6, <2>1, <3>1
    <3>3. fate \in {"alive", "replaced"}
      BY <1>1, <2>1, <3>2 DEF LifecycleInv, LifecycleTypeOK, CacheRight, Running, Live, Fates
    <3> QED BY <1>1, <1>2, <1>7, <2>1, <3>1, <3>2, <3>3 DEF LifecycleInv, LifecycleTypeOK
  <2>2. CASE b # c
    <3>1. events[b] > 0 /\ b \notin Live
      BY <1>1, <2>2 DEF LifecycleInv, LifecycleTypeOK, Live
    <3>2. b = pUrTask /\ c # pUrTask
      BY <2>2, <3>1 DEF LifecycleInv, NoDanglingEvent
    <3> QED BY <1>1, <1>2, <3>1, <3>2 DEF LifecycleInv, NoDanglingEvent
  <2> QED BY <2>1, <2>2
<1>13. Progress'
  <2> SUFFICES ASSUME NEW b \in Live' PROVE StartedRight(b)'
    BY <1>1 DEF Progress
  <2>1. /\ b \in Live /\ b # c /\ kind'[b] = kind[b] /\ state'[b] = state[b] /\ events'[b] = events[b]
        /\ StartedRight(b)
    BY <1>1, LifecycleAssumption DEF LifecycleInv, LifecycleTypeOK, Progress, Live
  <2>2. Forsaken(b)' <=> Forsaken(b)
    BY <1>1, <1>2, <2>1 DEF Forsaken
  <2> QED BY <1>1, <1>2, <2>1, <2>2 DEF StartedRight, FlagRight, Before, After
<1> QED BY <1>9, <1>10, <1>11, <1>12, <1>13 DEF LifecycleInv

----------------------------------------------------------------------------
LEMMA NextLifecycleInv == LifecycleInv /\ [LifecycleNext]_lifecycleVars => LifecycleInv'
<1> SUFFICES ASSUME LifecycleInv, [LifecycleNext]_lifecycleVars PROVE LifecycleInv'
  OBVIOUS
<1>1. CASE Load \/ RefuseStartup \/ CreateUrTaskFails \/ OpenLibraries \/ StartupDone \/ Shutdown
  BY <1>1, LoadIInv, OpenLibrariesIInv, StartupDoneIInv, ShutdownIInv
<1>2. CASE ShutdownDone \/ Crash
  BY <1>2, ShutdownDoneIInv, CrashIInv
<1>3. CASE \E b \in Blocks : OpenAndCreateUrTask(b) \/ StartObject(b) \/ StopObject(b)
  BY <1>3, OpenAndCreateIInv, StartObjectIInv, StopObjectIInv
<1>4. CASE CreateFails \/ CreateSucceeds
  BY <1>4, CreateFailsIInv, CreateSucceedsIInv
<1>5. CASE \E b \in Blocks : SetProctime(b) \/ SetActimode(b) \/ Delete(b)
  BY <1>5, SetProctimeIInv, SetActimodeIInv, DeleteIInv
<1>6. CASE \E b \in Blocks, k \in Kinds \ {"free"} : Create(b, k)
  BY <1>6, CreateIInv
<1>7. CASE UNCHANGED lifecycleVars
  BY <1>7 DEF lifecycleVars, LifecycleInv, LifecycleTypeOK, OneUrTask, TasksInactive, CacheRight, HalfCreated,
       NoDanglingEvent, Progress, Live, StartedRight, TakenRight, FlagRight, Before, After, Forsaken
<1> QED BY <1>1, <1>2, <1>3, <1>4, <1>5, <1>6, <1>7 DEF LifecycleNext, Proceed

(* The queue, the flags and the objects agree whenever the server is up.   *)
LEMMA IInvImpliesFlagsMatch == LifecycleInv => FlagsMatchEvents
<1> SUFFICES ASSUME LifecycleInv PROVE FlagsMatchEvents
  OBVIOUS
<1>1. ScheduledOnce
  <2> SUFFICES ASSUME proc = "up", NEW b \in Live \ {creating}
               PROVE  IF Forsaken(b) THEN events[b] >= 1
                      ELSE IF kind[b] = "RootComTask" \/ b = pUrTask
                      THEN events[b] = 1 \/ (missing /\ b = pUrTask /\ events[b] = 2)
                      ELSE events[b] = 0
    BY DEF ScheduledOnce
  <2>1. IF Forsaken(b) THEN events[b] >= 1 ELSE events[b] = After(b)
    BY DEF LifecycleInv, Progress, StartedRight
  <2> QED BY <2>1 DEF After, Before
<1>2. ActiveFlagRight
  <2> SUFFICES ASSUME proc = "up", NEW b \in Live
               PROVE  /\ "active" \in state[b] => events[b] > 0 \/ (kind[b] = "task" /\ crashes > 0)
                      /\ events[b] > 0 => "active" \in state[b] \/ (Forsaken(b) /\ b = creating)
    BY DEF ActiveFlagRight
  <2>1. CASE b = creating
    BY <2>1, LifecycleAssumption DEF LifecycleInv, HalfCreated, Live, Forsaken
  <2>2. CASE b # creating
    BY <2>2 DEF LifecycleInv, Progress, StartedRight, FlagRight
  <2> QED BY <2>1, <2>2
<1> QED BY <1>1, <1>2 DEF LifecycleInv, FlagsMatchEvents

LEMMA Invariance == LifecycleSpec => []LifecycleInv
<1>1. LifecycleInv /\ [LifecycleNext]_lifecycleVars => LifecycleInv'
  BY NextLifecycleInv
<1> QED BY <1>1, InitLifecycleInv, PTL DEF LifecycleSpec

(* No event points to memory that was freed, whatever fails, crashes and   *)
(* restarts, and whatever is deleted, the UrTask included: deleteobject    *)
(* and createobject leave none behind, except in the block to which a      *)
(* stale pUrTask points.                                                   *)
THEOREM NothingDangles == LifecycleSpec => []NoDanglingEvent
<1>1. LifecycleInv => NoDanglingEvent
  BY DEF LifecycleInv
<1> QED BY <1>1, Invariance, PTL

(* Whenever the server is up each scheduled object has its event, nothing  *)
(* else has one, and the flags by which objects are unregistered agree,    *)
(* but for the one block to which a stale pUrTask points.                  *)
THEOREM FlagsAndEventsAgree == LifecycleSpec => []FlagsMatchEvents
BY IInvImpliesFlagsMatch, Invariance, PTL

----------------------------------------------------------------------------
(* Values of variables: conversions.                                       *)

(* A cast keeps what can be represented.                                   *)
LEMMA Wraps ==
  ASSUME NEW n \in Int
  PROVE  /\ Wrap(Byte, n) \in Byte /\ (n \in Byte => Wrap(Byte, n) = n)
         /\ Wrap(Int3, n) \in Int3 /\ (n \in Int3 => Wrap(Int3, n) = n)
         /\ Wrap(UInt3, n) \in UInt3 /\ (n \in UInt3 => Wrap(UInt3, n) = n)
         /\ (Wrap(Int3, n) - n) % 8 = 0
<1>1. Cardinality(Byte) = 4 /\ Cardinality(Int3) = 8 /\ Cardinality(UInt3) = 8
  <2>1. 0 \in Int /\ 3 \in Int /\ 7 \in Int /\ -4 \in Int
    OBVIOUS
  <2>2. Cardinality(0..3) = IF 0 > 3 THEN 0 ELSE 3 - 0 + 1
    BY <2>1, FS_Interval
  <2>3. Cardinality(0..7) = IF 0 > 7 THEN 0 ELSE 7 - 0 + 1
    BY <2>1, FS_Interval
  <2>4. Cardinality(-4..3) = IF -4 > 3 THEN 0 ELSE 3 - (-4) + 1
    BY <2>1, FS_Interval
  <2> QED
    BY <2>2, <2>3, <2>4 DEF Byte, Int3, UInt3
<1>2. \E x \in 0..3 : (x - n) % 4 = 0
  <2> DEFINE x == n % 4
             q == n \div 4
  <2>1. x \in 0..3 /\ q \in Int /\ n = 4 * q + x
    OBVIOUS
  <2> HIDE DEF x, q
  <2> QED
    BY <2>1
<1>3. \E x \in 0..7 : (x - n) % 8 = 0
  <2> DEFINE x == n % 8
             q == n \div 8
  <2>1. x \in 0..7 /\ q \in Int /\ n = 8 * q + x
    OBVIOUS
  <2> HIDE DEF x, q
  <2> QED
    BY <2>1
<1>4. \E x \in -4..3 : (x - n) % 8 = 0
  <2>1. PICK x \in 0..7 : (x - n) % 8 = 0
    BY <1>3
  <2>2. (x - 8 - n) % 8 = 0
    BY <2>1
  <2>3. x \in -4..3 \/ x - 8 \in -4..3
    BY <2>1
  <2> QED
    BY <2>1, <2>2, <2>3
<1>5. Wrap(Byte, n) \in 0..3 /\ (Wrap(Byte, n) - n) % 4 = 0
  BY <1>1, <1>2 DEF Wrap, Byte
<1>6. Wrap(Int3, n) \in -4..3 /\ (Wrap(Int3, n) - n) % 8 = 0
  BY <1>1, <1>4 DEF Wrap, Int3
<1>7. Wrap(UInt3, n) \in 0..7 /\ (Wrap(UInt3, n) - n) % 8 = 0
  BY <1>1, <1>3 DEF Wrap, UInt3
<1>8. /\ \A w, x \in 0..3 : (w - x) % 4 = 0 => w = x
      /\ \A w, x \in 0..7 : (w - x) % 8 = 0 => w = x
      /\ \A w, x \in -4..3 : (w - x) % 8 = 0 => w = x
  OBVIOUS
<1> QED
  BY <1>5, <1>6, <1>7, <1>8 DEF Byte, Int3, UInt3

LEMMA Truncs ==
  ASSUME NEW h \in Int
  PROVE  Trunc(h) \in Int /\ \A n \in Int : Trunc(2 * n) = n
BY DEF Trunc

(* The amount a text stands for.                                           *)
LEMMA TextAmounts ==
  ASSUME NEW v \in Texts
  PROVE  Strtod(v) \in Int /\ Atol(v) \in Int
<1>1. CASE v = <<>>
  BY <1>1, Truncs DEF Strtod, Atol
<1>2. CASE v = <<"word">>
  BY <1>2, Truncs DEF Strtod, Atol
<1>3. CASE v \in {"bool"} \X BOOLEAN
  BY <1>3, Truncs DEF Strtod, Atol
<1>4. CASE v \in {"int", "dec"} \X Int
  <2>1. v # <<>> /\ v[1] \in {"int", "dec"} /\ v[2] \in Int
    BY <1>4
  <2> QED
    BY <2>1, Truncs DEF Strtod, Atol
<1>5. CASE v \in {"clock"} \X UInt3 \X {0, 1}
  BY <1>5, Truncs DEF Strtod, Atol, Year
<1> QED
  BY <1>1, <1>2, <1>3, <1>4, <1>5 DEF Texts

(* Elements, and the amounts they stand for.                               *)
LEMMA ElementTypes ==
  ASSUME NEW t \in Types, NEW v \in Elements(t)
  PROVE  /\ t = "BYTE" => v \in 0..3
         /\ t = "BOOL" => v \in 0..1
         /\ t = "INT" => v \in -4..3
         /\ t = "UINT" => v \in 0..7
         /\ t \in RealTypes => v \in Int
         /\ t = "TIME" => v[1] \in 0..7 /\ v[2] \in 0..1 /\ v = <<v[1], v[2]>>
         /\ t = "TIME_SPAN" => /\ v[1] \in -4..3 /\ v[2] \in -1..1 /\ v = <<v[1], v[2]>>
                               /\ v[1] < 0 => v[2] <= 0
                               /\ v[1] > 0 => v[2] >= 0
         /\ t = "STRING" => v \in Texts
<1>1. t = "BYTE" => v \in 0..3
  BY DEF Elements, Byte, RealTypes
<1>2. t = "BOOL" => v \in 0..1
  BY DEF Elements, RealTypes
<1>3. t = "INT" => v \in -4..3
  BY DEF Elements, Int3, RealTypes
<1>4. t = "UINT" => v \in 0..7
  BY DEF Elements, UInt3, RealTypes
<1>5. t \in RealTypes => v \in Int
  BY DEF Elements, RealTypes
<1>6. t = "TIME" => v[1] \in 0..7 /\ v[2] \in 0..1 /\ v = <<v[1], v[2]>>
  BY DEF Elements, UInt3, RealTypes
<1>7. ASSUME t = "TIME_SPAN"
      PROVE  /\ v[1] \in -4..3 /\ v[2] \in -1..1 /\ v = <<v[1], v[2]>>
             /\ v[1] < 0 => v[2] <= 0
             /\ v[1] > 0 => v[2] >= 0
  <2>1. v \in Int3 \X Usecs /\ v[1] * v[2] >= 0
    BY <1>7 DEF Elements, RealTypes
  <2>2. v[1] \in -4..3 /\ v[2] \in -1..1 /\ v = <<v[1], v[2]>>
    BY <2>1 DEF Int3, Usecs
  <2>3. \A a \in -4..3, b \in -1..1 : a * b >= 0 => (a < 0 => b <= 0) /\ (a > 0 => b >= 0)
    OBVIOUS
  <2> QED
    BY <2>1, <2>2, <2>3
<1>8. t = "STRING" => v \in Texts
  BY DEF Elements, RealTypes
<1> QED
  BY <1>1, <1>2, <1>3, <1>4, <1>5, <1>6, <1>7, <1>8

LEMMA Amounts ==
  ASSUME NEW t \in Types, NEW v \in Elements(t)
  PROVE  /\ t \in {"BYTE", "BOOL", "INT", "UINT"} => Amount(t, v) = 2 * v
         /\ t \in RealTypes => Amount(t, v) = v
         /\ t \in {"TIME", "TIME_SPAN"} => Amount(t, v) = 2 * v[1] + v[2] /\ Trunc(Amount(t, v)) = v[1]
         /\ t = "STRING" => Amount(t, v) = Strtod(v) /\ Trunc(Amount(t, v)) = Atol(v)
         /\ Amount(t, v) \in Int
<1>1. t \in {"BYTE", "BOOL", "INT", "UINT"} => Amount(t, v) = 2 * v
  BY DEF Amount, RealTypes
<1>2. t \in RealTypes => Amount(t, v) = v
  BY DEF Amount, RealTypes
<1>3. t \in {"TIME", "TIME_SPAN"} => Amount(t, v) = 2 * v[1] + v[2]
  BY DEF Amount, RealTypes
<1>4. t = "STRING" => Amount(t, v) = Strtod(v)
  BY DEF Amount, RealTypes
<1>5. t = "STRING" => Trunc(Amount(t, v)) = Atol(v)
  BY <1>4 DEF Atol
<1>6. t \in {"TIME", "TIME_SPAN"} => Trunc(2 * v[1] + v[2]) = v[1]
  <2> DEFINE a == v[1]
             b == v[2]
  <2>1. t \in {"TIME", "TIME_SPAN"} =>
          a \in -4..7 /\ b \in -1..1 /\ (a <= 0 => t = "TIME" \/ b <= 0 \/ a = 0) /\ (a > 0 => b >= 0) /\ (a < 0 => b <= 0)
    BY ElementTypes
  <2> HIDE DEF a, b
  <2>2. \A x \in -4..7, y \in -1..1 : (x > 0 => y >= 0) /\ (x < 0 => y <= 0) => Trunc(2 * x + y) = x
    BY DEF Trunc
  <2> QED
    BY <2>1, <2>2 DEF a, b
<1>7. Amount(t, v) \in Int
  BY <1>1, <1>2, <1>3, <1>4, ElementTypes, TextAmounts DEF Types, RealTypes
<1> QED
  BY <1>1, <1>2, <1>3, <1>4, <1>5, <1>6, <1>7

(* Conversion to integers.                                                 *)
LEMMA WholeKept ==
  ASSUME NEW R \in {Byte, Int3, UInt3}, NEW t \in Types, NEW v \in Elements(t), NEW x \in Whole(R, t, v)
  PROVE  x \in R /\ (Trunc(Amount(t, v)) \in R => x = Trunc(Amount(t, v)))
<1>1. \A n \in Int : Wrap(R, n) \in R /\ (n \in R => Wrap(R, n) = n)
  BY Wraps
<1>2. CASE t \in RealTypes
  <2>1. x \in Cast(R, v)
    BY <1>2 DEF Whole, RealTypes
  <2>2. Amount(t, v) = v
    BY <1>2, Amounts
  <2> QED
    BY <2>1, <2>2 DEF Cast
<1>3. CASE t \in {"TIME", "TIME_SPAN"}
  <2>1. x = Wrap(R, v[1]) /\ Trunc(Amount(t, v)) = v[1] /\ v[1] \in Int
    BY <1>3, Amounts, ElementTypes DEF Whole, RealTypes
  <2> QED
    BY <1>1, <2>1
<1>4. CASE t = "STRING"
  <2>1. x = Wrap(R, Atol(v)) /\ Trunc(Amount(t, v)) = Atol(v) /\ Atol(v) \in Int
    BY <1>4, Amounts, ElementTypes, TextAmounts DEF Whole, RealTypes
  <2> QED
    BY <1>1, <2>1
<1>5. CASE t \in {"BYTE", "BOOL", "INT", "UINT"}
  <2>1. x = Wrap(R, v) /\ v \in Int /\ Amount(t, v) = 2 * v
    BY <1>5, Amounts, ElementTypes DEF Whole, RealTypes
  <2>2. Trunc(Amount(t, v)) = v
    BY <2>1, Truncs
  <2> QED
    BY <1>1, <2>1, <2>2
<1> QED
  BY <1>2, <1>3, <1>4, <1>5 DEF Types, RealTypes

(* What a variable of type d may hold.                                     *)
Domain(d) ==
  CASE d = "BYTE" -> Byte
    [] d = "BOOL" -> Int3
    [] d = "INT" -> Int3
    [] d = "UINT" -> UInt3
    [] d \in RealTypes -> Int
    [] d = "TIME" -> UInt3 \X Usecs
    [] d = "TIME_SPAN" -> Int3 \X Usecs
    [] d = "STRING" -> Texts

(* What a conversion should yield of v of type t.                          *)
Yields(x, t, v) == x \in Domain(decl.type) /\ Faithful(decl.type, x, t, v)

(* A value of the variable's own type is taken as it is.                   *)
LEMMA OwnType ==
  ASSUME decl.type \in Types, NEW v \in Elements(decl.type)
  PROVE  Yields(v, decl.type, v)
<1> DEFINE d == decl.type
<1>1. Faithful(decl.type, v, d, v)
  BY DEF Faithful
<1>2. d \in {"BYTE", "BOOL", "INT", "UINT"} => v \in Domain(d)
  BY ElementTypes DEF Domain, RealTypes, Byte, Int3, UInt3
<1>3. d \in RealTypes => v \in Domain(d)
  BY ElementTypes DEF Domain, RealTypes
<1>4. d \in {"TIME", "TIME_SPAN"} => v \in Domain(d)
  BY ElementTypes DEF Domain, RealTypes, Int3, UInt3, Usecs
<1>5. d = "STRING" => v \in Domain(d)
  BY ElementTypes DEF Domain, RealTypes
<1> QED
  BY <1>1, <1>2, <1>3, <1>4, <1>5 DEF Yields, Types, RealTypes

(* Conversions to integers.                                                *)
LEMMA ToWhole ==
  ASSUME NEW t \in Types, NEW v \in Elements(t)
  PROVE  /\ decl.type = "BYTE" => \A x \in ToByte(t, v) : Yields(x, t, v)
         /\ decl.type = "INT" => \A x \in ToInt(t, v) : Yields(x, t, v)
         /\ decl.type = "UINT" => \A x \in ToUint(t, v) : Yields(x, t, v)
<1>1. ASSUME NEW R \in {Byte, Int3, UInt3}, NEW x \in Whole(R, t, v),
             decl.type \in DOMAIN Ranges, Ranges[decl.type] = R, Domain(decl.type) = R, t = decl.type => x = v
      PROVE  Yields(x, t, v)
  <2>1. x \in R /\ (Trunc(Amount(t, v)) \in R => x = Trunc(Amount(t, v)))
    BY <1>1, WholeKept
  <2>2. CASE t = decl.type
    BY <1>1, <2>1, <2>2 DEF Yields, Faithful
  <2>3. CASE t # decl.type
    <3>1. Faithful(decl.type, x, t, v)
      BY <1>1, <2>1, <2>3 DEF Faithful, Ranges, RealTypes
    <3> QED
      BY <1>1, <2>1, <3>1 DEF Yields
  <2> QED
    BY <2>2, <2>3
<1>2. DOMAIN Ranges = {"BYTE", "INT", "UINT"} /\ Ranges["BYTE"] = Byte /\ Ranges["INT"] = Int3 /\ Ranges["UINT"] = UInt3
  BY DEF Ranges
<1>3. Domain("BYTE") = Byte /\ Domain("INT") = Int3 /\ Domain("UINT") = UInt3
  BY DEF Domain, RealTypes
<1>4. ASSUME NEW R \in {Byte, Int3, UInt3}, NEW x \in Whole(R, t, v), t \in {"BYTE", "INT", "UINT"}, v \in R
      PROVE  x = v
  <2>1. x = Wrap(R, v) /\ v \in Int
    BY <1>4, ElementTypes DEF Whole, RealTypes
  <2> QED
    BY <1>4, <2>1, Wraps
<1>5. (t = "BYTE" => v \in Byte) /\ (t = "INT" => v \in Int3) /\ (t = "UINT" => v \in UInt3)
  BY ElementTypes DEF Byte, Int3, UInt3
<1>6. ASSUME decl.type = "BYTE", NEW x \in ToByte(t, v)
      PROVE  Yields(x, t, v)
  <2>1. x \in Whole(Byte, t, v)
    BY <1>6 DEF ToByte
  <2>2. t = decl.type => x = v
    BY <1>4, <1>5, <1>6, <2>1
  <2> QED
    BY <1>1, <1>2, <1>3, <1>6, <2>1, <2>2
<1>7. ASSUME decl.type = "INT", NEW x \in ToInt(t, v)
      PROVE  Yields(x, t, v)
  <2>1. x \in Whole(Int3, t, v)
    BY <1>7 DEF ToInt
  <2>2. t = decl.type => x = v
    BY <1>4, <1>5, <1>7, <2>1
  <2> QED
    BY <1>1, <1>2, <1>3, <1>7, <2>1, <2>2
<1>8. ASSUME decl.type = "UINT", NEW x \in ToUint(t, v)
      PROVE  Yields(x, t, v)
  <2>1. x \in Whole(UInt3, t, v)
    BY <1>8 DEF ToUint
  <2>2. t = decl.type => x = v
    BY <1>4, <1>5, <1>8, <2>1
  <2> QED
    BY <1>1, <1>2, <1>3, <1>8, <2>1, <2>2
<1> QED
  BY <1>6, <1>7, <1>8

(* Conversion to truth values, and what a static vector does instead.      *)
LEMMA ToTruth ==
  ASSUME decl.type = "BOOL", NEW t \in Types, NEW v \in Elements(t)
  PROVE  /\ \A x \in ToBool(t, v) : Yields(x, t, v) \/ (t = "STRING" /\ Atol(v) = 0)
         /\ v = <<"bool", TRUE>> => \A x \in ToBool(t, v) : Yields(x, t, v)
         /\ \A x \in ToInt(t, v) :
              \/ Yields(x, t, v)
              \/ t = "BOOL"
              \/ t \in RealTypes /\ (Trunc(v) = 0 \/ Trunc(v) \notin Int3)
              \/ t \in {"TIME", "TIME_SPAN"} /\ v[1] = 0
              \/ t = "STRING" /\ (v = <<"bool", TRUE>> \/ Wrap(Int3, Atol(v)) = 0)
<1>1. Domain("BOOL") = -4..3
  BY DEF Domain, RealTypes, Int3
<1>2. ASSUME NEW x \in -4..3, t # "BOOL",
             x # 0 <=> Amount(t, v) # 0 \/ (t = "STRING" /\ v = <<"bool", TRUE>>)
      PROVE  Yields(x, t, v)
  <2>1. Faithful(decl.type, x, t, v)
    BY <1>2 DEF Faithful, Ranges, RealTypes
  <2> QED
    BY <1>1, <1>2, <2>1 DEF Yields
<1>3. ASSUME NEW x \in ToBool(t, v)
      PROVE  x \in {0, 1} /\ (x # 0 <=> IsTrue(t, v))
  BY <1>3 DEF ToBool
<1>4. t \in {"BYTE", "INT", "UINT", "SINGLE", "DOUBLE"} => (IsTrue(t, v) <=> Amount(t, v) # 0)
  <2>1. t \in {"BYTE", "INT", "UINT", "SINGLE", "DOUBLE"} => (IsTrue(t, v) <=> v # 0)
    BY DEF IsTrue
  <2>2. t \in {"BYTE", "INT", "UINT"} => v \in Int /\ Amount(t, v) = 2 * v
    BY Amounts, ElementTypes
  <2>3. t \in {"SINGLE", "DOUBLE"} => v \in Int /\ Amount(t, v) = v
    BY Amounts, ElementTypes DEF RealTypes
  <2> QED
    BY <2>1, <2>2, <2>3
<1>5. t \in {"TIME", "TIME_SPAN"} => (IsTrue(t, v) <=> Amount(t, v) # 0)
  <2>1. t \in {"TIME", "TIME_SPAN"} => (IsTrue(t, v) <=> v # <<0, 0>>)
    BY DEF IsTrue
  <2>2. t \in {"TIME", "TIME_SPAN"} =>
          /\ v = <<v[1], v[2]>> /\ v[1] \in -4..7 /\ v[2] \in -1..1 /\ Amount(t, v) = 2 * v[1] + v[2]
    BY Amounts, ElementTypes
  <2>3. v = <<v[1], v[2]>> => (v = <<0, 0>> <=> v[1] = 0 /\ v[2] = 0)
    OBVIOUS
  <2> QED
    BY <2>1, <2>2, <2>3
<1>6. t = "STRING" => (IsTrue(t, v) <=> v = <<"bool", TRUE>> \/ Atol(v) # 0)
  BY DEF IsTrue
<1>7. t = "STRING" /\ Atol(v) # 0 => Amount(t, v) # 0
  BY Amounts DEF Atol, Trunc
<1>8. ASSUME NEW x \in ToBool(t, v), t # "STRING" \/ v = <<"bool", TRUE>> \/ Atol(v) # 0
      PROVE  Yields(x, t, v)
  <2>1. CASE t = "BOOL"
    <3>1. v \in {0, 1}
      BY <2>1, ElementTypes
    <3>2. IsTrue(t, v) <=> v # 0
      BY <2>1 DEF IsTrue
    <3>3. x = v
      BY <1>3, <1>8, <3>1, <3>2
    <3> QED
      BY <2>1, <3>3, OwnType DEF Types
  <2>2. CASE t # "BOOL" /\ t # "STRING"
    <3>1. x # 0 <=> Amount(t, v) # 0
      BY <1>3, <1>4, <1>5, <1>8, <2>2 DEF Types
    <3>2. x \in -4..3
      BY <1>3, <1>8
    <3> QED
      BY <1>2, <2>2, <3>1, <3>2
  <2>3. CASE t = "STRING"
    <3>1. x # 0 <=> Amount(t, v) # 0 \/ v = <<"bool", TRUE>>
      BY <1>3, <1>6, <1>7, <1>8, <2>3
    <3>2. x \in -4..3
      BY <1>3, <1>8
    <3> QED
      BY <1>2, <2>3, <3>1, <3>2
  <2> QED
    BY <2>1, <2>2, <2>3
<1>9. ASSUME NEW x \in ToInt(t, v), t # "BOOL",
             t \in RealTypes => Trunc(v) # 0 /\ Trunc(v) \in Int3,
             t \in {"TIME", "TIME_SPAN"} => v[1] # 0,
             t = "STRING" => v # <<"bool", TRUE>> /\ Wrap(Int3, Atol(v)) # 0
      PROVE  Yields(x, t, v)
  <2>1. x \in Whole(Int3, t, v) /\ x \in -4..3
    BY <1>9, WholeKept DEF ToInt, Int3
  <2>2. ASSUME x # 0 <=> Amount(t, v) # 0, v # <<"bool", TRUE>> \/ t # "STRING"
        PROVE  Yields(x, t, v)
    BY <1>2, <1>9, <2>1, <2>2
  <2>3. CASE t \in RealTypes
    <3>1. x = Trunc(v) /\ Amount(t, v) = v /\ v \in Int
      BY <1>9, <2>1, <2>3, Amounts, ElementTypes, WholeKept
    <3>2. Trunc(v) # 0 => v # 0
      BY <3>1 DEF Trunc
    <3> QED
      BY <1>9, <2>2, <2>3, <3>1, <3>2 DEF RealTypes
  <2>4. CASE t \in {"TIME", "TIME_SPAN"}
    <3>1. x = Wrap(Int3, v[1]) /\ v[1] \in -4..7 /\ v[2] \in -1..1 /\ Amount(t, v) = 2 * v[1] + v[2]
      BY <2>1, <2>4, Amounts, ElementTypes DEF Whole, RealTypes
    <3>2. (x - v[1]) % 8 = 0
      BY <3>1, Wraps
    <3>3. \A a \in -4..3, b \in -4..7 : (a - b) % 8 = 0 /\ b # 0 => a # 0
      OBVIOUS
    <3>4. x # 0 /\ Amount(t, v) # 0
      BY <1>9, <2>1, <2>4, <3>1, <3>2, <3>3
    <3> QED
      BY <2>2, <2>4, <3>4
  <2>5. CASE t = "STRING"
    <3>1. x = Wrap(Int3, Atol(v))
      BY <2>1, <2>5 DEF Whole, RealTypes
    <3>2. Atol(v) # 0
      <4>1. Wrap(Int3, 0) = 0
        <5>1. 0 \in Int /\ 0 \in Int3
          BY DEF Int3
        <5> QED
          BY <5>1, Wraps
      <4> QED
        BY <1>9, <2>5, <4>1
    <3> QED
      BY <1>7, <1>9, <2>2, <2>5, <3>1, <3>2
  <2>6. CASE t \in {"BYTE", "INT", "UINT"}
    <3>1. x = Wrap(Int3, v) /\ v \in -4..7 /\ Amount(t, v) = 2 * v
      BY <2>1, <2>6, Amounts, ElementTypes DEF Whole, RealTypes
    <3>2. (x - v) % 8 = 0
      BY <3>1, Wraps
    <3>3. \A a \in -4..3, b \in -4..7 : (a - b) % 8 = 0 => (a # 0 <=> b # 0)
      OBVIOUS
    <3>4. x # 0 <=> Amount(t, v) # 0
      <4>1. x # 0 <=> v # 0
        BY <2>1, <3>1, <3>2, <3>3
      <4> QED
        BY <3>1, <4>1
    <3> QED
      BY <2>2, <2>6, <3>4
  <2> QED
    BY <1>9, <2>3, <2>4, <2>5, <2>6 DEF Types, RealTypes
<1> QED
  BY <1>8, <1>9

(* Conversion to real numbers; a static vector of DOUBLEs takes only the   *)
(* fraction of a time span.                                                *)
LEMMA ToNumber ==
  ASSUME decl.type \in RealTypes, NEW t \in Types, NEW v \in Elements(t)
  PROVE  /\ \A x \in ToReal(t, v) : Yields(x, t, v)
         /\ t = "TIME_SPAN" => v[2] \in Domain(decl.type) /\ (v[1] = 0 => Yields(v[2], t, v))
<1>1. Domain(decl.type) = Int
  BY DEF Domain, RealTypes
<1>2. ASSUME NEW x, x = Amount(t, v)
      PROVE  Yields(x, t, v)
  <2>1. x \in Int
    BY <1>2, Amounts
  <2>2. CASE t = decl.type
    BY <1>2, <2>2, OwnType, Amounts DEF Types, RealTypes
  <2>3. CASE t # decl.type
    <3>1. Faithful(decl.type, x, t, v)
      BY <1>2, <2>3 DEF Faithful, Ranges, RealTypes
    <3> QED
      BY <1>1, <2>1, <3>1 DEF Yields
  <2> QED
    BY <2>2, <2>3
<1>3. ASSUME NEW x \in ToReal(t, v)
      PROVE  x = Amount(t, v)
  <2>1. t \in RealTypes => x = v
    BY <1>3 DEF ToReal, RealTypes
  <2>2. t \in {"TIME", "TIME_SPAN"} => x = 2 * v[1] + v[2]
    BY <1>3 DEF ToReal, RealTypes
  <2>3. t = "STRING" => x = Strtod(v)
    BY <1>3 DEF ToReal, RealTypes
  <2>4. t \in {"BYTE", "BOOL", "INT", "UINT"} => x = 2 * v
    BY <1>3 DEF ToReal, RealTypes
  <2> QED
    BY <2>1, <2>2, <2>3, <2>4, Amounts DEF Types, RealTypes
<1>4. t = "TIME_SPAN" => v[2] \in Int /\ (v[1] = 0 => v[2] = Amount(t, v))
  <2>1. t = "TIME_SPAN" => v[2] \in -1..1 /\ Amount(t, v) = 2 * v[1] + v[2]
    BY ElementTypes, Amounts
  <2> QED
    BY <2>1
<1> QED
  BY <1>1, <1>2, <1>3, <1>4

(* Conversion to times; a static vector drops the fraction of a single     *)
(* time span.                                                              *)
LEMMA ToMoment ==
  ASSUME decl.type = "TIME", NEW t \in Types, NEW v \in Elements(t)
  PROVE  /\ \A x \in ToTime(t, v) : Yields(x, t, v)
         /\ t = "TIME_SPAN" => <<Wrap(UInt3, v[1]), 0>> \in Domain(decl.type)
<1>1. Domain("TIME") = UInt3 \X Usecs
  BY DEF Domain, RealTypes
<1>2. ASSUME NEW x \in UInt3 \X Usecs, t \notin {"TIME", "STRING"},
             Amount(t, v) \in 0..15 => 2 * x[1] + x[2] = Amount(t, v)
      PROVE  Yields(x, t, v)
  <2>1. Faithful(decl.type, x, t, v)
    BY <1>2 DEF Faithful, Ranges, RealTypes
  <2> QED
    BY <1>1, <1>2, <2>1 DEF Yields
<1>3. ASSUME NEW n \in Int
      PROVE  Wrap(UInt3, n) \in 0..7 /\ (n \in 0..7 => Wrap(UInt3, n) = n)
  BY Wraps DEF UInt3
<1>4. ASSUME NEW x \in ToTime(t, v), t = "TIME"
      PROVE  Yields(x, t, v)
  <2>1. x = v
    BY <1>4 DEF ToTime, RealTypes
  <2> QED
    BY <1>4, <2>1, OwnType DEF Types
<1>5. ASSUME t = "TIME_SPAN", NEW u \in {0, v[2]}
      PROVE  <<Wrap(UInt3, v[1]), u>> \in UInt3 \X Usecs
  <2>1. v[1] \in Int /\ v[2] \in -1..1
    BY <1>5, ElementTypes
  <2> QED
    BY <1>3, <1>5, <2>1 DEF UInt3, Usecs
<1>6. ASSUME NEW x \in ToTime(t, v), t = "TIME_SPAN"
      PROVE  Yields(x, t, v)
  <2>1. x = <<Wrap(UInt3, v[1]), v[2]>>
    BY <1>6 DEF ToTime, RealTypes
  <2>2. /\ v[1] \in -4..3 /\ v[2] \in -1..1 /\ Amount(t, v) = 2 * v[1] + v[2]
        /\ v[1] < 0 => v[2] <= 0
    BY <1>6, ElementTypes, Amounts
  <2>3. Amount(t, v) \in 0..15 => v[1] \in 0..7
    BY <2>2
  <2>4. Amount(t, v) \in 0..15 => 2 * x[1] + x[2] = Amount(t, v)
    BY <1>3, <2>1, <2>2, <2>3
  <2> QED
    BY <1>2, <1>5, <1>6, <2>1, <2>4
<1>7. ASSUME NEW x \in ToTime(t, v), t \in RealTypes
      PROVE  Yields(x, t, v)
  <2>1. /\ x \in Cast(UInt3, v) \X Usecs
        /\ v >= 0 /\ Trunc(v) \in UInt3 => 2 * x[1] + x[2] = v /\ x[2] >= 0
    BY <1>7 DEF ToTime, RealTypes
  <2>2. v \in Int /\ Amount(t, v) = v
    BY <1>7, ElementTypes, Amounts
  <2>3. x \in UInt3 \X Usecs
    BY <2>1 DEF Cast
  <2>4. v \in 0..15 => v >= 0 /\ Trunc(v) \in UInt3
    BY DEF Trunc, UInt3
  <2> QED
    BY <1>2, <1>7, <2>1, <2>2, <2>3, <2>4 DEF RealTypes
<1>8. ASSUME NEW x \in ToTime(t, v), t = "STRING"
      PROVE  Yields(x, t, v)
  <2>1. x \in Ascii2time(v) /\ v \in Texts
    BY <1>8, ElementTypes DEF ToTime, RealTypes
  <2>2. x \in UInt3 \X Usecs /\ (v # <<>> /\ v[1] = "clock" => x = <<v[2], v[3]>>)
    <3>1. CASE v = <<>>
      BY <2>1, <3>1 DEF Ascii2time, UInt3, Usecs
    <3>2. CASE v \in {"clock"} \X UInt3 \X {0, 1}
      <4>1. v # <<>> /\ v[1] = "clock" /\ v[2] \in UInt3 /\ v[3] \in {0, 1}
        BY <3>2
      <4> QED
        BY <2>1, <4>1 DEF Ascii2time, UInt3, Usecs
    <3>3. CASE v # <<>> /\ v[1] # "clock"
      BY <2>1, <3>3 DEF Ascii2time, Usecs
    <3>4. v \in Texts => v = <<>> \/ v \in {"clock"} \X UInt3 \X {0, 1} \/ (v # <<>> /\ v[1] # "clock")
      BY DEF Texts
    <3> QED
      BY <2>1, <3>1, <3>2, <3>3, <3>4
  <2>3. Faithful(decl.type, x, t, v)
    BY <1>8, <2>2 DEF Faithful, Ranges, RealTypes
  <2> QED
    BY <1>1, <2>2, <2>3 DEF Yields
<1>9. ASSUME NEW x \in ToTime(t, v), t \in {"BYTE", "BOOL", "INT", "UINT"}
      PROVE  Yields(x, t, v)
  <2>1. x = <<Wrap(UInt3, v), 0>>
    BY <1>9 DEF ToTime, RealTypes
  <2>2. v \in -4..7 /\ Amount(t, v) = 2 * v
    BY <1>9, ElementTypes, Amounts
  <2>3. x \in UInt3 \X Usecs
    BY <1>3, <2>1, <2>2 DEF UInt3, Usecs
  <2>4. Amount(t, v) \in 0..15 => 2 * x[1] + x[2] = Amount(t, v)
    BY <1>3, <2>1, <2>2
  <2> QED
    BY <1>2, <1>9, <2>3, <2>4
<1> QED
  BY <1>1, <1>4, <1>5, <1>6, <1>7, <1>8, <1>9 DEF Types, RealTypes

(* Conversion to time spans.                                               *)
LEMMA SpanOfText ==
  ASSUME NEW v \in Texts
  PROVE  /\ F2ts(v) \in Int3 \X Usecs
         /\ Strtod(v) \in -9..7 /\ Strtod(v) # -1 => 2 * F2ts(v)[1] + F2ts(v)[2] = Strtod(v)
<1> DEFINE h == Strtod(v)
           u == IF v # <<>> /\ v[1] = "clock" THEN v[3] ELSE (IF h < 0 THEN -h ELSE h) % 2
           w == Wrap(Int3, Trunc(h))
<1>1. h \in Int /\ Trunc(h) \in Int
  BY TextAmounts, Truncs
<1>2. F2ts(v) = <<w, IF Trunc(h) < 0 THEN -u ELSE u>>
  BY DEF F2ts
<1>3. w \in -4..3 /\ (Trunc(h) \in -4..3 => w = Trunc(h))
  BY <1>1, Wraps DEF Int3
<1>4. u \in 0..1
  <2>1. CASE v # <<>> /\ v[1] = "clock"
    <3>1. v \in {"clock"} \X UInt3 \X {0, 1}
      BY <2>1 DEF Texts
    <3> QED
      BY <2>1, <3>1
  <2>2. CASE ~(v # <<>> /\ v[1] = "clock")
    BY <1>1, <2>2
  <2> QED
    BY <2>1, <2>2
<1>5. h \in -9..7 => u = (IF h < 0 THEN -h ELSE h) % 2
  BY DEF Strtod, Year
<1>6. h \in -9..7 => Trunc(h) = IF h >= 0 THEN h \div 2 ELSE -((-h) \div 2)
  BY DEF Trunc
<1> DEFINE T == Trunc(h)
<1> HIDE DEF h, u, w, T
<1>7. ASSUME h \in -9..7, h # -1
      PROVE  T \in -4..3 /\ 2 * T + (IF T < 0 THEN -u ELSE u) = h
  <2>1. u = (IF h < 0 THEN -h ELSE h) % 2 /\ T = IF h >= 0 THEN h \div 2 ELSE -((-h) \div 2)
    BY <1>5, <1>6, <1>7 DEF T
  <2> QED
    BY <1>7, <2>1
<1>8. F2ts(v) \in Int3 \X Usecs
  BY <1>2, <1>3, <1>4 DEF Int3, Usecs
<1>9. h \in -9..7 /\ h # -1 => 2 * F2ts(v)[1] + F2ts(v)[2] = h
  BY <1>2, <1>3, <1>7 DEF T
<1> QED
  BY <1>8, <1>9 DEF h

LEMMA ToLength ==
  ASSUME decl.type = "TIME_SPAN", NEW t \in Types, NEW v \in Elements(t), NEW x \in ToSpan(t, v)
  PROVE  Yields(x, t, v) \/ (x \in Domain(decl.type) /\ t = "STRING" /\ Strtod(v) = -1)
<1>1. Domain("TIME_SPAN") = Int3 \X Usecs
  BY DEF Domain, RealTypes
<1>2. ASSUME x \in Int3 \X Usecs, t # "TIME_SPAN",
             Amount(t, v) \in -9..7 => 2 * x[1] + x[2] = Amount(t, v)
      PROVE  Yields(x, t, v)
  <2>1. Faithful(decl.type, x, t, v)
    BY <1>2 DEF Faithful, Ranges, RealTypes
  <2> QED
    BY <1>1, <1>2, <2>1 DEF Yields
<1>3. ASSUME NEW n \in Int
      PROVE  Wrap(Int3, n) \in -4..3 /\ (n \in -4..3 => Wrap(Int3, n) = n)
  BY Wraps DEF Int3
<1>4. CASE t = "TIME_SPAN"
  <2>1. x = v
    BY <1>4 DEF ToSpan, RealTypes
  <2> QED
    BY <1>4, <2>1, OwnType DEF Types
<1>5. CASE t = "TIME"
  <2>1. x = <<Wrap(Int3, v[1]), v[2]>>
    BY <1>5 DEF ToSpan, RealTypes
  <2>2. v[1] \in 0..7 /\ v[2] \in 0..1 /\ Amount(t, v) = 2 * v[1] + v[2]
    BY <1>5, ElementTypes, Amounts
  <2>3. x \in Int3 \X Usecs
    BY <1>3, <2>1, <2>2 DEF Int3, Usecs
  <2>4. Amount(t, v) \in -9..7 => v[1] \in -4..3
    BY <2>2
  <2> QED
    BY <1>2, <1>3, <1>5, <2>1, <2>2, <2>3, <2>4
<1>6. CASE t \in RealTypes
  <2>1. v \in Int /\ Amount(t, v) = v
    BY <1>6, ElementTypes, Amounts
  <2>2. x \in IF Trunc(v) \in Int3 THEN {<<Trunc(v), v - 2 * Trunc(v)>>} ELSE Int3 \X Usecs
    BY <1>6 DEF ToSpan, RealTypes
  <2>3. v - 2 * Trunc(v) \in Usecs /\ (v \in -9..7 => Trunc(v) \in Int3)
    BY <2>1 DEF Trunc, Usecs, Int3
  <2>4. x \in Int3 \X Usecs
    BY <2>2, <2>3
  <2>5. v \in -9..7 => 2 * x[1] + x[2] = v
    BY <2>1, <2>2, <2>3, Truncs
  <2> QED
    BY <1>2, <1>6, <2>1, <2>4, <2>5 DEF RealTypes
<1>7. CASE t = "STRING"
  <2>1. x = F2ts(v) /\ v \in Texts /\ Amount(t, v) = Strtod(v)
    BY <1>7, ElementTypes, Amounts DEF ToSpan, RealTypes
  <2> QED
    BY <1>1, <1>2, <1>7, <2>1, SpanOfText
<1>8. CASE t \in {"BYTE", "BOOL", "INT", "UINT"}
  <2>1. x = <<Wrap(Int3, v), 0>>
    BY <1>8 DEF ToSpan, RealTypes
  <2>2. v \in -4..7 /\ Amount(t, v) = 2 * v
    BY <1>8, ElementTypes, Amounts
  <2>3. x \in Int3 \X Usecs
    BY <1>3, <2>1, <2>2 DEF Int3, Usecs
  <2>4. Amount(t, v) \in -9..7 => 2 * x[1] + x[2] = Amount(t, v)
    BY <1>3, <2>1, <2>2
  <2> QED
    BY <1>2, <1>8, <2>3, <2>4
<1> QED
  BY <1>4, <1>5, <1>6, <1>7, <1>8 DEF Types, RealTypes

(* Conversion to texts.                                                    *)
LEMMA ToWords ==
  ASSUME decl.type = "STRING", NEW t \in Types, NEW v \in Elements(t), NEW x \in ToText(t, v)
  PROVE  Yields(x, t, v)
<1>1. Domain("STRING") = Texts
  BY DEF Domain, RealTypes
<1>2. /\ \A n \in Int : <<"int", n>> \in Texts /\ <<"dec", n>> \in Texts
      /\ \A n \in UInt3, u \in {0, 1} : <<"clock", n, u>> \in Texts
  BY DEF Texts
<1>3. \A b \in BOOLEAN : <<"bool", b>> \in Texts
  BY DEF Texts
<1>4. CASE t = "STRING"
  <2>1. x = v
    BY <1>4 DEF ToText, RealTypes
  <2> QED
    BY <1>4, <2>1, OwnType DEF Types
<1>5. CASE t = "BOOL"
  <2>1. x = <<"bool", v # 0>>
    BY <1>5 DEF ToText, RealTypes
  <2>2. Faithful(decl.type, x, t, v)
    BY <1>5, <2>1 DEF Faithful, Ranges, RealTypes
  <2>3. x \in Texts
    BY <1>3, <2>1
  <2> QED
    BY <1>1, <2>2, <2>3 DEF Yields
<1>6. CASE t = "TIME"
  <2>1. x = <<"clock", v[1], v[2]>>
    BY <1>6 DEF ToText, RealTypes, Time2ascii
  <2>2. v[1] \in UInt3 /\ v[2] \in {0, 1}
    BY <1>6, ElementTypes DEF UInt3
  <2>3. Faithful(decl.type, x, t, v)
    BY <1>6, <2>1 DEF Faithful, Ranges, RealTypes
  <2> QED
    BY <1>1, <1>2, <2>1, <2>2, <2>3 DEF Yields
<1>7. ASSUME t \notin {"BOOL", "TIME", "STRING"}, Strtod(x) = Amount(t, v), x \in Texts
      PROVE  Yields(x, t, v)
  <2>1. Faithful(decl.type, x, t, v)
    BY <1>7 DEF Faithful, Ranges, RealTypes
  <2> QED
    BY <1>1, <1>7, <2>1 DEF Yields
<1>8. CASE t \in RealTypes
  <2>1. x = <<"dec", v>> /\ v \in Int /\ Amount(t, v) = v
    BY <1>8, ElementTypes, Amounts DEF ToText, RealTypes
  <2>2. Strtod(x) = v
    BY <2>1 DEF Strtod
  <2> QED
    BY <1>2, <1>7, <1>8, <2>1, <2>2 DEF RealTypes
<1>9. CASE t = "TIME_SPAN"
  <2>1. x = <<"dec", 2 * v[1] + v[2]>> /\ Amount(t, v) = 2 * v[1] + v[2]
    BY <1>9, Amounts DEF ToText, RealTypes, Timespan2ascii
  <2>2. Strtod(x) = 2 * v[1] + v[2] /\ Amount(t, v) \in Int
    BY <2>1, Amounts DEF Strtod
  <2> QED
    BY <1>2, <1>7, <1>9, <2>1, <2>2
<1>10. CASE t \in {"BYTE", "INT", "UINT"}
  <2>1. x = <<"int", v>> /\ v \in Int /\ Amount(t, v) = 2 * v
    BY <1>10, ElementTypes, Amounts DEF ToText, RealTypes
  <2>2. Strtod(x) = 2 * v
    BY <2>1 DEF Strtod
  <2> QED
    BY <1>2, <1>7, <1>10, <2>1, <2>2
<1> QED
  BY <1>4, <1>5, <1>6, <1>8, <1>9, <1>10 DEF Types, RealTypes

----------------------------------------------------------------------------
(* Values of several elements.                                             *)

LEMMA SourceElements ==
  ASSUME NEW s, IsValue(s)
  PROVE  /\ Len(s.val) \in Nat /\ s.stamp \in Nat
         /\ s.type \in Types \cup {"VOID"} /\ s.vec \in BOOLEAN /\ s.pv \in BOOLEAN
         /\ \A i \in 1..Len(s.val) : s.type \in Types /\ s.val[i] \in Elements(s.type)
<1>1. CASE s.type = "VOID"
  <2>1. s.val = <<>>
    BY <1>1 DEF IsValue, void
  <2> QED
    BY <1>1, <2>1 DEF IsValue
<1>2. CASE s.type # "VOID"
  <2>1. s.val \in Seq(Elements(s.type)) /\ s.type \in Types
    BY <1>2 DEF IsValue
  <2> QED
    BY <2>1, LenProperties, ElementOfSeq DEF IsValue
<1> QED
  BY <1>1, <1>2

LEMMA ZeroTyped ==
  ASSUME decl.type \in Types
  PROVE  Zero(decl.type) \in Domain(decl.type)
<1> DEFINE d == decl.type
<1>1. d \in {"TIME", "TIME_SPAN"} => Zero(d) = <<0, 0>>
  BY DEF Zero
<1>2. d = "STRING" => Zero(d) = <<>>
  BY DEF Zero
<1>3. d \in {"BYTE", "BOOL", "INT", "UINT", "SINGLE", "DOUBLE"} => Zero(d) = 0
  BY DEF Zero
<1>4. d = "TIME" => <<0, 0>> \in Domain(d)
  BY DEF Domain, RealTypes, UInt3, Usecs
<1>5. d = "TIME_SPAN" => <<0, 0>> \in Domain(d)
  BY DEF Domain, RealTypes, Int3, Usecs
<1>6. d = "STRING" => <<>> \in Domain(d)
  BY DEF Domain, RealTypes, Texts
<1>7. d \in {"BYTE", "BOOL", "INT", "UINT", "SINGLE", "DOUBLE"} => 0 \in Domain(d)
  BY DEF Domain, RealTypes, Byte, Int3, UInt3
<1> QED
  BY <1>1, <1>2, <1>3, <1>4, <1>5, <1>6, <1>7 DEF Types

(* The elements f that a conversion makes of the value s.                  *)
Good(x, s, v) == Yields(x, s.type, v) \/ (x \in Domain(decl.type) /\ Unfaithful(decl, s, v))

Made(f, s, n) ==
  /\ f \in [1..n -> Domain(decl.type)]
  /\ \A i \in 1..n :
       IF i > Len(s.val) THEN f[i] = Zero(decl.type)
       ELSE Faithful(decl.type, f[i], s.type, s.val[i]) \/ Unfaithful(decl, s, s.val[i])

LEMMA Filling ==
  ASSUME decl.type \in Types, NEW s, IsValue(s), NEW n \in Nat, NEW U, NEW f \in [1..n -> U],
         \A i \in 1..n : IF i <= Len(s.val) THEN Good(f[i], s, s.val[i]) ELSE f[i] = Zero(decl.type)
  PROVE  Made(f, s, n)
<1>1. Len(s.val) \in Nat
  BY SourceElements
<1>2. \A i \in 1..n : f[i] \in Domain(decl.type)
  BY <1>1, ZeroTyped DEF Good, Yields
<1>3. \A i \in 1..n :
        IF i > Len(s.val) THEN f[i] = Zero(decl.type)
        ELSE Faithful(decl.type, f[i], s.type, s.val[i]) \/ Unfaithful(decl, s, s.val[i])
  BY <1>1 DEF Good, Yields
<1>4. f \in [1..n -> Domain(decl.type)]
  BY <1>2
<1> QED
  BY <1>3, <1>4 DEF Made

LEMMA FilledWhole ==
  ASSUME NEW s, IsValue(s), NEW n \in Nat
  PROVE  /\ decl.type = "BYTE" => \A f \in Filled(n, s, 0, ToByte) : Made(f, s, n)
         /\ decl.type = "INT" => \A f \in Filled(n, s, 0, ToInt) : Made(f, s, n)
         /\ decl.type = "UINT" => \A f \in Filled(n, s, 0, ToUint) : Made(f, s, n)
<1>1. \A i \in 1..Len(s.val) : s.type \in Types /\ s.val[i] \in Elements(s.type)
  BY SourceElements
<1>2. ASSUME decl.type = "BYTE", NEW f \in Filled(n, s, 0, ToByte)
      PROVE  Made(f, s, n)
  <2>1. PICK U : f \in [1..n -> U]
    BY <1>2 DEF Filled, Tuples
  <2>2. \A i \in 1..n : f[i] \in IF i <= Len(s.val) THEN ToByte(s.type, s.val[i]) ELSE {0}
    BY <1>2 DEF Filled, Tuples
  <2>3. \A i \in 1..n : IF i <= Len(s.val) THEN Good(f[i], s, s.val[i]) ELSE f[i] = Zero(decl.type)
    BY <1>1, <1>2, <2>2, SourceElements, ToWhole DEF Good, Zero
  <2> QED
    BY <1>2, <2>1, <2>3, Filling DEF Types
<1>3. ASSUME decl.type = "INT", NEW f \in Filled(n, s, 0, ToInt)
      PROVE  Made(f, s, n)
  <2>1. PICK U : f \in [1..n -> U]
    BY <1>3 DEF Filled, Tuples
  <2>2. \A i \in 1..n : f[i] \in IF i <= Len(s.val) THEN ToInt(s.type, s.val[i]) ELSE {0}
    BY <1>3 DEF Filled, Tuples
  <2>3. \A i \in 1..n : IF i <= Len(s.val) THEN Good(f[i], s, s.val[i]) ELSE f[i] = Zero(decl.type)
    BY <1>1, <1>3, <2>2, SourceElements, ToWhole DEF Good, Zero
  <2> QED
    BY <1>3, <2>1, <2>3, Filling DEF Types
<1>4. ASSUME decl.type = "UINT", NEW f \in Filled(n, s, 0, ToUint)
      PROVE  Made(f, s, n)
  <2>1. PICK U : f \in [1..n -> U]
    BY <1>4 DEF Filled, Tuples
  <2>2. \A i \in 1..n : f[i] \in IF i <= Len(s.val) THEN ToUint(s.type, s.val[i]) ELSE {0}
    BY <1>4 DEF Filled, Tuples
  <2>3. \A i \in 1..n : IF i <= Len(s.val) THEN Good(f[i], s, s.val[i]) ELSE f[i] = Zero(decl.type)
    BY <1>1, <1>4, <2>2, SourceElements, ToWhole DEF Good, Zero
  <2> QED
    BY <1>4, <2>1, <2>3, Filling DEF Types
<1> QED
  BY <1>2, <1>3, <1>4

LEMMA FilledOthers ==
  ASSUME NEW s, IsValue(s), NEW n \in Nat
  PROVE  /\ decl.type \in RealTypes => \A f \in Filled(n, s, 0, ToReal) : Made(f, s, n)
         /\ decl.type = "TIME" => \A f \in Filled(n, s, <<0, 0>>, ToTime) : Made(f, s, n)
         /\ decl.type = "TIME_SPAN" => \A f \in Filled(n, s, <<0, 0>>, ToSpan) : Made(f, s, n)
         /\ decl.type = "STRING" => \A f \in Filled(n, s, <<>>, ToText) : Made(f, s, n)
         /\ decl.type = "BOOL" /\ decl.shape # "static" => \A f \in Filled(n, s, 0, ToBool) : Made(f, s, n)
<1>1. \A i \in 1..Len(s.val) : s.type \in Types /\ s.val[i] \in Elements(s.type)
  BY SourceElements
<1>2. ASSUME decl.type \in RealTypes, NEW f \in Filled(n, s, 0, ToReal)
      PROVE  Made(f, s, n)
  <2>1. PICK U : f \in [1..n -> U]
    BY <1>2 DEF Filled, Tuples
  <2>2. \A i \in 1..n : f[i] \in IF i <= Len(s.val) THEN ToReal(s.type, s.val[i]) ELSE {0}
    BY <1>2 DEF Filled, Tuples
  <2>3. \A i \in 1..n : IF i <= Len(s.val) THEN Good(f[i], s, s.val[i]) ELSE f[i] = Zero(decl.type)
    BY <1>1, <1>2, <2>2, SourceElements, ToNumber DEF Good, Zero, RealTypes
  <2> QED
    BY <1>2, <2>1, <2>3, Filling DEF Types, RealTypes
<1>3. ASSUME decl.type = "TIME", NEW f \in Filled(n, s, <<0, 0>>, ToTime)
      PROVE  Made(f, s, n)
  <2>1. PICK U : f \in [1..n -> U]
    BY <1>3 DEF Filled, Tuples
  <2>2. \A i \in 1..n : f[i] \in IF i <= Len(s.val) THEN ToTime(s.type, s.val[i]) ELSE {<<0, 0>>}
    BY <1>3 DEF Filled, Tuples
  <2>3. \A i \in 1..n : IF i <= Len(s.val) THEN Good(f[i], s, s.val[i]) ELSE f[i] = Zero(decl.type)
    <3>1. Zero(decl.type) = <<0, 0>>
      BY <1>3 DEF Zero
    <3>2. \A i \in 1..Len(s.val) : \A x \in ToTime(s.type, s.val[i]) : Good(x, s, s.val[i])
      BY <1>1, <1>3, ToMoment DEF Good
    <3> TAKE i \in 1..n
    <3>3. Len(s.val) \in Nat
      BY SourceElements
    <3>4. CASE i <= Len(s.val)
      <4>1. i \in 1..Len(s.val)
        BY <3>3, <3>4
      <4>2. f[i] \in ToTime(s.type, s.val[i])
        BY <2>2, <3>4
      <4> QED
        BY <3>2, <3>4, <4>1, <4>2
    <3>5. CASE ~(i <= Len(s.val))
      BY <2>2, <3>1, <3>5
    <3> QED
      BY <3>4, <3>5
  <2> QED
    BY <1>3, <2>1, <2>3, Filling DEF Types
<1>4. ASSUME decl.type = "TIME_SPAN", NEW f \in Filled(n, s, <<0, 0>>, ToSpan)
      PROVE  Made(f, s, n)
  <2>1. PICK U : f \in [1..n -> U]
    BY <1>4 DEF Filled, Tuples
  <2>2. \A i \in 1..n : f[i] \in IF i <= Len(s.val) THEN ToSpan(s.type, s.val[i]) ELSE {<<0, 0>>}
    BY <1>4 DEF Filled, Tuples
  <2>3. \A i \in 1..n : IF i <= Len(s.val) THEN Good(f[i], s, s.val[i]) ELSE f[i] = Zero(decl.type)
    BY <1>1, <1>4, <2>2, SourceElements, ToLength DEF Good, Zero, Unfaithful, RealTypes
  <2> QED
    BY <1>4, <2>1, <2>3, Filling DEF Types
<1>5. ASSUME decl.type = "STRING", NEW f \in Filled(n, s, <<>>, ToText)
      PROVE  Made(f, s, n)
  <2>1. PICK U : f \in [1..n -> U]
    BY <1>5 DEF Filled, Tuples
  <2>2. \A i \in 1..n : f[i] \in IF i <= Len(s.val) THEN ToText(s.type, s.val[i]) ELSE {<<>>}
    BY <1>5 DEF Filled, Tuples
  <2>3. \A i \in 1..n : IF i <= Len(s.val) THEN Good(f[i], s, s.val[i]) ELSE f[i] = Zero(decl.type)
    BY <1>1, <1>5, <2>2, SourceElements, ToWords DEF Good, Zero
  <2> QED
    BY <1>5, <2>1, <2>3, Filling DEF Types
<1>6. ASSUME decl.type = "BOOL", decl.shape # "static", NEW f \in Filled(n, s, 0, ToBool)
      PROVE  Made(f, s, n)
  <2>1. PICK U : f \in [1..n -> U]
    BY <1>6 DEF Filled, Tuples
  <2>2. \A i \in 1..n : f[i] \in IF i <= Len(s.val) THEN ToBool(s.type, s.val[i]) ELSE {0}
    BY <1>6 DEF Filled, Tuples
  <2>3. \A i \in 1..n : IF i <= Len(s.val) THEN Good(f[i], s, s.val[i]) ELSE f[i] = Zero(decl.type)
    <3>1. Zero(decl.type) = 0
      BY <1>6 DEF Zero
    <3>2. \A v : s.type = "STRING" /\ Atol(v) = 0 => Unfaithful(decl, s, v)
      BY <1>6 DEF Unfaithful, RealTypes
    <3>3. \A i \in 1..Len(s.val) : \A x \in ToBool(s.type, s.val[i]) : Good(x, s, s.val[i])
      <4>1. \A i \in 1..Len(s.val) : \A x \in ToBool(s.type, s.val[i]) : x \in Domain(decl.type)
        <5>1. Domain(decl.type) = -4..3
          BY <1>6 DEF Domain, RealTypes, Int3
        <5>2. \A t, v : \A x \in ToBool(t, v) : x \in {0, 1}
          BY DEF ToBool
        <5> QED
          BY <5>1, <5>2
      <4> QED
        BY <1>1, <1>6, <3>2, <4>1, ToTruth DEF Good
    <3> TAKE i \in 1..n
    <3>4. Len(s.val) \in Nat
      BY SourceElements
    <3>5. CASE i <= Len(s.val)
      <4>1. i \in 1..Len(s.val)
        BY <3>4, <3>5
      <4>2. f[i] \in ToBool(s.type, s.val[i])
        BY <2>2, <3>5
      <4> QED
        BY <3>3, <3>5, <4>1, <4>2
    <3>6. CASE ~(i <= Len(s.val))
      BY <2>2, <3>1, <3>6
    <3> QED
      BY <3>5, <3>6
  <2> QED
    BY <1>6, <2>1, <2>3, Filling DEF Types
<1> QED
  BY <1>2, <1>3, <1>4, <1>5, <1>6

(* Scalars.                                                                *)
LEMMA ScalarMade ==
  ASSUME decl.type \in Types, decl.shape = "scalar", NEW s, IsValue(s), NEW f \in Scalar(s)
  PROVE  Made(f, s, 1)
<1>1. CASE decl.type = "BYTE"
  <2>1. f \in Filled(1, s, 0, ToByte)
    BY <1>1 DEF Scalar, ScalarByte
  <2> QED
    BY <1>1, <2>1, FilledWhole
<1>2. CASE decl.type = "INT"
  <2>1. f \in Filled(1, s, 0, ToInt)
    BY <1>2 DEF Scalar, ScalarInt
  <2> QED
    BY <1>2, <2>1, FilledWhole
<1>3. CASE decl.type = "UINT"
  <2>1. f \in Filled(1, s, 0, ToUint)
    BY <1>3 DEF Scalar, ScalarUint
  <2> QED
    BY <1>3, <2>1, FilledWhole
<1>4. CASE decl.type = "SINGLE"
  <2>1. f \in Filled(1, s, 0, ToReal)
    BY <1>4 DEF Scalar, ScalarSingle
  <2> QED
    BY <1>4, <2>1, FilledOthers DEF RealTypes
<1>5. CASE decl.type = "DOUBLE"
  <2>1. f \in Filled(1, s, 0, ToReal)
    BY <1>5 DEF Scalar, ScalarDouble
  <2> QED
    BY <1>5, <2>1, FilledOthers DEF RealTypes
<1>6. CASE decl.type = "TIME"
  <2>1. f \in Filled(1, s, <<0, 0>>, ToTime)
    BY <1>6 DEF Scalar, ScalarTime
  <2> QED
    BY <1>6, <2>1, FilledOthers
<1>7. CASE decl.type = "TIME_SPAN"
  <2>1. f \in Filled(1, s, <<0, 0>>, ToSpan)
    BY <1>7 DEF Scalar, ScalarTimeSpan
  <2> QED
    BY <1>7, <2>1, FilledOthers
<1>8. CASE decl.type = "STRING"
  <2>1. f \in Filled(1, s, <<>>, ToText)
    BY <1>8 DEF Scalar, ScalarString
  <2> QED
    BY <1>8, <2>1, FilledOthers
<1>9. CASE decl.type = "BOOL" /\ ~(s.type = "BYTE" /\ ~s.vec)
  <2>1. f \in Filled(1, s, 0, ToBool)
    BY <1>9 DEF Scalar, ScalarBool
  <2> QED
    BY <1>9, <2>1, FilledOthers
<1>10. CASE decl.type = "BOOL" /\ s.type = "BYTE" /\ ~s.vec
  <2>1. PICK b \in Int3 : f = <<b>>
    BY <1>10 DEF Scalar, ScalarBool
  <2>2. f \in [1..1 -> Int3] /\ f[1] = b
    BY <2>1
  <2>3. Len(s.val) = 1
    BY <1>10 DEF IsValue
  <2>4. \A v : Unfaithful(decl, s, v)
    BY <1>10 DEF Unfaithful, RealTypes
  <2>5. Domain(decl.type) = Int3
    BY <1>10 DEF Domain, RealTypes
  <2> QED
    BY <2>2, <2>3, <2>4, <2>5 DEF Made
<1> QED
  BY <1>1, <1>2, <1>3, <1>4, <1>5, <1>6, <1>7, <1>8, <1>9, <1>10 DEF Types

(* Dynamic vectors.                                                        *)
LEMMA DynvecMade ==
  ASSUME decl.type \in Types, decl.shape = "dynvec", NEW s, IsValue(s), NEW f \in Dynvec(s)
  PROVE  Made(f, s, Len(s.val))
<1>1. Len(s.val) \in Nat
  BY SourceElements
<1>2. CASE decl.type = "BYTE"
  <2>1. f \in Filled(Len(s.val), s, 0, ToByte)
    BY <1>2 DEF Dynvec, DynvecByte
  <2> QED
    BY <1>2, <2>1, FilledWhole, <1>1
<1>3. CASE decl.type = "INT"
  <2>1. f \in Filled(Len(s.val), s, 0, ToInt)
    BY <1>3 DEF Dynvec, DynvecInt
  <2> QED
    BY <1>3, <2>1, FilledWhole, <1>1
<1>4. CASE decl.type = "UINT"
  <2>1. f \in Filled(Len(s.val), s, 0, ToUint)
    BY <1>4 DEF Dynvec, DynvecUint
  <2> QED
    BY <1>4, <2>1, FilledWhole, <1>1
<1>5. CASE decl.type = "TIME_SPAN"
  <2>1. f \in Filled(Len(s.val), s, <<0, 0>>, ToSpan)
    BY <1>5 DEF Dynvec, DynvecTimeSpan
  <2> QED
    BY <1>5, <2>1, FilledOthers, <1>1
<1>6. CASE decl.type = "STRING"
  <2>1. f \in Filled(Len(s.val), s, <<>>, ToText)
    BY <1>6 DEF Dynvec, DynvecString
  <2> QED
    BY <1>6, <2>1, FilledOthers, <1>1
<1>7. CASE decl.type = "TIME" /\ ~(s.type = "STRING" /\ s.val = <<<<>>>> /\ ~s.vec)
  <2>1. f \in Filled(Len(s.val), s, <<0, 0>>, ToTime)
    BY <1>7 DEF Dynvec, DynvecTime
  <2> QED
    BY <1>1, <1>7, <2>1, FilledOthers
<1>8. CASE decl.type \in RealTypes /\ ~(s.type = "UINT" /\ s.vec)
  <2>1. f \in Filled(Len(s.val), s, 0, ToReal)
    BY <1>8 DEF Dynvec, DynvecSingle, DynvecDouble, RealTypes
  <2> QED
    BY <1>1, <1>8, <2>1, FilledOthers
<1>9. CASE decl.type = "BOOL" /\ ~(s.type = "BYTE" /\ s.vec)
  <2>1. f \in Filled(Len(s.val), s, 0, ToBool)
    BY <1>9 DEF Dynvec, DynvecBool
  <2> QED
    BY <1>1, <1>9, <2>1, FilledOthers
<1>10. CASE decl.type = "TIME" /\ s.type = "STRING" /\ s.val = <<<<>>>> /\ ~s.vec
  <2>1. PICK u \in {0, 1} : f = <<<<0, u>>>>
    BY <1>10 DEF Dynvec, DynvecTime
  <2>2. <<0, u>> \in Domain(decl.type)
    BY <1>10 DEF Domain, RealTypes, UInt3, Usecs
  <2>3. Len(s.val) = 1 /\ s.val[1] = <<>>
    BY <1>10
  <2>4. \A x : Faithful(decl.type, x, s.type, <<>>)
    BY <1>10 DEF Faithful, Ranges, RealTypes
  <2>5. f \in [1..1 -> Domain(decl.type)]
    BY <2>1, <2>2
  <2> QED
    BY <2>3, <2>4, <2>5 DEF Made
<1>11. ASSUME \A v : Unfaithful(decl, s, v), f \in [1..Len(s.val) -> Domain(decl.type)]
      PROVE  Made(f, s, Len(s.val))
  BY <1>1, <1>11 DEF Made
<1>12. CASE decl.type \in RealTypes /\ s.type = "UINT" /\ s.vec
  <2>1. f \in [1..Len(s.val) -> Reals]
    BY <1>12 DEF Dynvec, DynvecSingle, DynvecDouble, RealTypes, Misread
  <2>2. \A v : Unfaithful(decl, s, v)
    BY <1>12 DEF Unfaithful, RealTypes
  <2>3. Domain(decl.type) = Int
    BY <1>12 DEF Domain, RealTypes
  <2>4. f \in [1..Len(s.val) -> Int]
    BY <2>1 DEF Reals
  <2> QED
    BY <1>11, <2>2, <2>3, <2>4
<1>13. CASE decl.type = "BOOL" /\ s.type = "BYTE" /\ s.vec
  <2>1. f \in [1..Len(s.val) -> Int3]
    BY <1>13 DEF Dynvec, DynvecBool
  <2>2. \A v : Unfaithful(decl, s, v)
    BY <1>13 DEF Unfaithful, RealTypes
  <2>3. Domain(decl.type) = Int3
    BY <1>13 DEF Domain, RealTypes
  <2> QED
    BY <1>11, <2>1, <2>2, <2>3
<1> QED
  BY <1>2, <1>3, <1>4, <1>5, <1>6, <1>7, <1>8, <1>9, <1>10, <1>12, <1>13 DEF Types, RealTypes

(* Static vectors.                                                         *)
LEMMA StaticMade ==
  ASSUME decl.type \in Types \ {"STRING"}, decl.shape = "static", NEW s, IsValue(s), NEW f \in Static(s)
  PROVE  Made(f, s, Width)
<1>1. Width \in Nat /\ Len(s.val) \in Nat
  BY DeclsAssumption, SourceElements
<1>2. \A i \in 1..Len(s.val) : s.type \in Types /\ s.val[i] \in Elements(s.type)
  BY SourceElements
<1>3. CASE decl.type = "BYTE"
  <2>1. f \in Filled(Width, s, 0, ToByte)
    BY <1>3 DEF Static, StaticByte
  <2> QED
    BY <1>1, <1>3, <2>1, FilledWhole
<1>4. CASE decl.type = "INT"
  <2>1. f \in Filled(Width, s, 0, ToInt)
    BY <1>4 DEF Static, StaticInt
  <2> QED
    BY <1>1, <1>4, <2>1, FilledWhole
<1>5. CASE decl.type = "UINT"
  <2>1. f \in Filled(Width, s, 0, ToUint)
    BY <1>5 DEF Static, StaticUint
  <2> QED
    BY <1>1, <1>5, <2>1, FilledWhole
<1>6. CASE decl.type = "SINGLE"
  <2>1. f \in Filled(Width, s, 0, ToReal)
    BY <1>6 DEF Static, StaticSingle
  <2> QED
    BY <1>1, <1>6, <2>1, FilledOthers DEF RealTypes
<1>7. CASE decl.type = "TIME_SPAN"
  <2>1. f \in Filled(Width, s, <<0, 0>>, ToSpan)
    BY <1>7 DEF Static, StaticTimeSpan
  <2> QED
    BY <1>1, <1>7, <2>1, FilledOthers
<1>8. ASSUME NEW U, f \in [1..Width -> U], NEW P, NEW z, z = Zero(decl.type),
             \A i \in 1..Width : f[i] \in IF i <= Len(s.val) THEN P[i] ELSE {z},
             \A i \in 1..Len(s.val) : \A x \in P[i] : Good(x, s, s.val[i])
      PROVE  Made(f, s, Width)
  <2>1. ASSUME NEW i \in 1..Width
        PROVE  IF i <= Len(s.val) THEN Good(f[i], s, s.val[i]) ELSE f[i] = Zero(decl.type)
    <3>1. CASE i <= Len(s.val)
      <4>1. i \in 1..Len(s.val)
        BY <1>1, <3>1
      <4>2. f[i] \in P[i]
        BY <1>8, <3>1
      <4> QED
        BY <1>8, <3>1, <4>1, <4>2
    <3>2. CASE ~(i <= Len(s.val))
      BY <1>8, <3>2
    <3> QED
      BY <3>1, <3>2
  <2> QED
    BY <1>1, <1>8, <2>1, Filling
<1>9. CASE decl.type = "BOOL"
  <2> DEFINE P == [i \in 1..Len(s.val) |->
                     IF s.type \in {"BYTE", "BOOL"} \/ (s.type = "STRING" /\ s.val[i] = <<"bool", TRUE>>)
                     THEN ToBool(s.type, s.val[i]) ELSE ToInt(s.type, s.val[i])]
  <2>1. PICK U : f \in [1..Width -> U]
    BY <1>9 DEF Static, StaticBool, Filled, Tuples
  <2>2. \A i \in 1..Width :
          f[i] \in IF i <= Len(s.val)
                   THEN IF s.type \in {"BYTE", "BOOL"} \/ (s.type = "STRING" /\ s.val[i] = <<"bool", TRUE>>)
                        THEN ToBool(s.type, s.val[i]) ELSE ToInt(s.type, s.val[i])
                   ELSE {0}
    BY <1>9 DEF Static, StaticBool, Filled, Tuples
  <2>3. \A i \in 1..Width : f[i] \in IF i <= Len(s.val) THEN P[i] ELSE {0}
    <3> TAKE i \in 1..Width
    <3>1. i <= Len(s.val) => i \in 1..Len(s.val)
      BY <1>1
    <3> QED
      BY <2>2, <3>1
  <2>4. ASSUME NEW i \in 1..Len(s.val), NEW x \in P[i]
        PROVE  Good(x, s, s.val[i])
    <3> DEFINE t == s.type
               v == s.val[i]
    <3>1. t \in Types /\ v \in Elements(t)
      BY <1>2
    <3>2. CASE t \in {"BYTE", "BOOL"} \/ (t = "STRING" /\ v = <<"bool", TRUE>>)
      <4>1. x \in ToBool(t, v)
        BY <2>4, <3>2
      <4> QED
        BY <1>9, <3>1, <3>2, <4>1, ToTruth DEF Good
    <3>3. CASE ~(t \in {"BYTE", "BOOL"} \/ (t = "STRING" /\ v = <<"bool", TRUE>>))
      <4>1. x \in ToInt(t, v)
        BY <2>4, <3>3
      <4>2. x \in Domain(decl.type)
        <5>1. x \in Int3
          BY <3>1, <4>1, WholeKept DEF ToInt
        <5> QED
          BY <1>9, <5>1 DEF Domain, RealTypes
      <4>3. \/ t \in RealTypes /\ (Trunc(v) = 0 \/ Trunc(v) \notin Int3)
            \/ t \in {"TIME", "TIME_SPAN"} /\ v[1] = 0
            \/ t = "STRING" /\ Wrap(Int3, Atol(v)) = 0
            => Unfaithful(decl, s, v)
        BY <1>9 DEF Unfaithful, RealTypes
      <4> QED
        BY <1>9, <3>1, <3>3, <4>1, <4>2, <4>3, ToTruth DEF Good
    <3> QED
      BY <3>2, <3>3
  <2>5. Zero(decl.type) = 0
    BY <1>9 DEF Zero
  <2> HIDE DEF P
  <2> QED
    BY <1>8, <2>1, <2>3, <2>4, <2>5
<1>10. CASE decl.type = "DOUBLE"
  <2> DEFINE P == [i \in 1..Len(s.val) |->
                     IF s.type = "TIME_SPAN" THEN {s.val[i][2]} ELSE ToReal(s.type, s.val[i])]
  <2>1. PICK U : f \in [1..Width -> U]
    BY <1>10 DEF Static, StaticDouble, Filled, Tuples
  <2>2. \A i \in 1..Width :
          f[i] \in IF i <= Len(s.val)
                   THEN IF s.type = "TIME_SPAN" THEN {s.val[i][2]} ELSE ToReal(s.type, s.val[i])
                   ELSE {0}
    BY <1>10 DEF Static, StaticDouble, Filled, Tuples
  <2>3. \A i \in 1..Width : f[i] \in IF i <= Len(s.val) THEN P[i] ELSE {0}
    <3> TAKE i \in 1..Width
    <3>1. i <= Len(s.val) => i \in 1..Len(s.val)
      BY <1>1
    <3> QED
      BY <2>2, <3>1
  <2>4. ASSUME NEW i \in 1..Len(s.val), NEW x \in P[i]
        PROVE  Good(x, s, s.val[i])
    <3> DEFINE v == s.val[i]
    <3>1. s.type \in Types /\ v \in Elements(s.type) /\ decl.type \in RealTypes
      BY <1>2, <1>10 DEF RealTypes
    <3>2. CASE s.type = "TIME_SPAN"
      <4>1. x = v[2]
        BY <2>4, <3>2
      <4>2. v[1] # 0 => Unfaithful(decl, s, v)
        BY <1>10, <3>2 DEF Unfaithful, RealTypes
      <4> QED
        BY <3>1, <3>2, <4>1, <4>2, ToNumber DEF Good
    <3>3. CASE s.type # "TIME_SPAN"
      <4>1. x \in ToReal(s.type, v)
        BY <2>4, <3>3
      <4> QED
        BY <3>1, <4>1, ToNumber DEF Good
    <3> QED
      BY <3>2, <3>3
  <2>5. Zero(decl.type) = 0
    BY <1>10 DEF Zero
  <2> HIDE DEF P
  <2> QED
    BY <1>8, <2>1, <2>3, <2>4, <2>5
<1>11. CASE decl.type = "TIME"
  <2> DEFINE P == [i \in 1..Len(s.val) |->
                     IF s.type = "TIME_SPAN" /\ ~s.vec THEN {<<Wrap(UInt3, s.val[i][1]), 0>>}
                     ELSE ToTime(s.type, s.val[i])]
  <2>1. PICK U : f \in [1..Width -> U]
    BY <1>11 DEF Static, StaticTime, Filled, Tuples
  <2>2. \A i \in 1..Width :
          f[i] \in IF i <= Len(s.val)
                   THEN IF s.type = "TIME_SPAN" /\ ~s.vec THEN {<<Wrap(UInt3, s.val[i][1]), 0>>}
                        ELSE ToTime(s.type, s.val[i])
                   ELSE {<<0, 0>>}
    BY <1>11 DEF Static, StaticTime, Filled, Tuples
  <2>3. \A i \in 1..Width : f[i] \in IF i <= Len(s.val) THEN P[i] ELSE {<<0, 0>>}
    <3> TAKE i \in 1..Width
    <3>1. i <= Len(s.val) => i \in 1..Len(s.val)
      BY <1>1
    <3> QED
      BY <2>2, <3>1
  <2>4. ASSUME NEW i \in 1..Len(s.val), NEW x \in P[i]
        PROVE  Good(x, s, s.val[i])
    <3> DEFINE v == s.val[i]
    <3>1. s.type \in Types /\ v \in Elements(s.type)
      BY <1>2
    <3>2. CASE s.type = "TIME_SPAN" /\ ~s.vec
      <4>1. x = <<Wrap(UInt3, v[1]), 0>>
        BY <2>4, <3>2
      <4>2. Unfaithful(decl, s, v)
        BY <1>11, <3>2 DEF Unfaithful, RealTypes
      <4> QED
        BY <1>11, <3>1, <3>2, <4>1, <4>2, ToMoment DEF Good
    <3>3. CASE ~(s.type = "TIME_SPAN" /\ ~s.vec)
      <4>1. x \in ToTime(s.type, v)
        BY <2>4, <3>3
      <4> QED
        BY <1>11, <3>1, <4>1, ToMoment DEF Good
    <3> QED
      BY <3>2, <3>3
  <2>5. Zero(decl.type) = <<0, 0>>
    BY <1>11 DEF Zero
  <2> HIDE DEF P
  <2> QED
    BY <1>8, <2>1, <2>3, <2>4, <2>5
<1> QED
  BY <1>3, <1>4, <1>5, <1>6, <1>7, <1>9, <1>10, <1>11 DEF Types

----------------------------------------------------------------------------
(* Values of variables: the invariant.                                     *)

(* How many elements the variable has after it took the value s.           *)
Slots(s) == CASE decl.shape = "scalar" -> 1 [] decl.shape = "dynvec" -> Len(s.val) [] OTHER -> Width

VarTyped ==
  /\ decl \in Decls /\ eexreq \in BOOLEAN
  /\ IF decl.type = "ANY"
     THEN /\ var = [type |-> var.type, vec |-> var.vec, pv |-> var.pv, val |-> var.val, stamp |-> var.stamp]
          /\ var.pv \/ var.stamp = 0
     ELSE /\ var = [val |-> var.val, stamp |-> var.stamp]
          /\ var.val \in Seq(Domain(decl.type))

ValueInv == VarTyped /\ HoldsLastValue

(* Conversion yields the right elements, and as many as the shape asks for.*)
LEMMA ConvertedMade ==
  ASSUME decl \in Decls, decl.type # "ANY", NEW s, IsValue(s), NEW f \in Converted(s)
  PROVE  Made(f, s, Slots(s)) /\ Slots(s) \in Nat
<1>1. /\ decl.type \in Types /\ decl.shape \in {"scalar", "dynvec", "static"}
      /\ ~(decl.type = "STRING" /\ decl.shape = "static") /\ Width \in Nat
  BY DeclsAssumption
<1>2. Len(s.val) \in Nat
  BY SourceElements
<1>3. CASE decl.shape = "scalar"
  <2>1. f \in Scalar(s) /\ Slots(s) = 1
    BY <1>3 DEF Converted, Slots
  <2> QED
    BY <1>1, <1>3, <2>1, ScalarMade
<1>4. CASE decl.shape = "dynvec"
  <2>1. f \in Dynvec(s) /\ Slots(s) = Len(s.val)
    BY <1>4 DEF Converted, Slots
  <2> QED
    BY <1>1, <1>2, <1>4, <2>1, DynvecMade
<1>5. CASE decl.shape = "static"
  <2>1. f \in Static(s) /\ Slots(s) = Width
    BY <1>5 DEF Converted, Slots
  <2>2. decl.type \in Types \ {"STRING"}
    BY <1>1, <1>5
  <2> QED
    BY <1>1, <1>5, <2>1, <2>2, StaticMade
<1> QED
  BY <1>1, <1>3, <1>4, <1>5

(* What a write of a typed variable comes to: the converted value is       *)
(* stored, or nothing, or the database is full half-way.                   *)
LEMMA Outcomes ==
  ASSUME VarTyped, decl.type # "ANY", NEW s, IsValue(s), SetVarvalue(s)
  PROVE  \/ \E new \in Converted(s) : Stored(s, new)
         \/ result' # "OK" /\ UNCHANGED <<var, eexreq>>
         \/ \E val \in Seq(Domain(decl.type)) : HalfStored(s, val)
<1>1. CASE BadType(s)
  BY <1>1 DEF SetVarvalue, Fails
<1>2. CASE ~BadType(s) /\ Allocates(s) /\ Fails("DBOUTOFMEMORY")
  BY <1>2 DEF Fails
<1>3. var.val \in Seq(Domain(decl.type)) /\ decl \in Decls
  BY DEF VarTyped
<1>4. ASSUME NEW n \in Nat, decl.type = "STRING"
      PROVE  Blank(n) \in Seq(Domain(decl.type))
  <2>1. <<>> \in Domain(decl.type)
    BY <1>4 DEF Domain, RealTypes, Texts
  <2> QED
    BY <2>1 DEF Blank
<1>5. ASSUME NEW new \in Converted(s),
             CASE decl.shape = "scalar" -> ScalarEval(s, new)
               [] decl.shape = "dynvec" -> DynvecEval(s, new)
               [] decl.shape = "static" -> StaticEval(s, new)
      PROVE  \/ Stored(s, new)
             \/ result' # "OK" /\ UNCHANGED <<var, eexreq>>
             \/ \E val \in Seq(Domain(decl.type)) : HalfStored(s, val)
  <2>1. decl.shape \in {"scalar", "dynvec", "static"}
    BY <1>3, DeclsAssumption
  <2>2. CASE decl.shape = "scalar"
    <3>1. ScalarEval(s, new)
      BY <1>5, <2>2
    <3> QED
      BY <1>3, <3>1 DEF ScalarEval, Accessor, Fails
  <2>3. CASE decl.shape = "static"
    <3>1. StaticEval(s, new)
      BY <1>5, <2>3
    <3> QED
      BY <3>1 DEF StaticEval, Accessor, Fails
  <2>4. CASE decl.shape = "dynvec"
    <3>1. DynvecEval(s, new)
      BY <1>5, <2>4
    <3>2. Made(new, s, Slots(s)) /\ Slots(s) \in Nat
      BY <1>3, <1>5, ConvertedMade
    <3>3. Len(new) \in Nat /\ Len(var.val) \in Nat
      <4>1. new \in Seq(Domain(decl.type))
        BY <3>2 DEF Made
      <4> QED
        BY <1>3, <4>1
    <3> QED
      BY <1>3, <1>4, <3>1, <3>3 DEF DynvecEval, Accessor, Fails
  <2> QED
    BY <2>1, <2>2, <2>3, <2>4
<1> QED
  BY <1>1, <1>2, <1>5 DEF SetVarvalue

(* After the converted value was stored the variable holds it, also when   *)
(* it was not stored because nothing differed.                             *)
LEMMA StoredHolds ==
  ASSUME VarTyped, decl.type # "ANY", NEW s, IsValue(s), NEW new \in Converted(s), Stored(s, new),
         src' = s, decl' = decl
  PROVE  ValueInv'
<1>1. Made(new, s, Slots(s)) /\ Slots(s) \in Nat
  BY ConvertedMade DEF VarTyped
<1>2. var' = [val |-> new, stamp |-> Stamp(s)] /\ eexreq' \in BOOLEAN
  BY DEF Stored, Changed, VarTyped
<1>3. new \in [1..Slots(s) -> Domain(decl.type)]
  BY <1>1 DEF Made
<1>4. new \in Seq(Domain(decl.type)) /\ Len(new) = Slots(s) /\ DOMAIN new = 1..Slots(s)
  BY <1>1, <1>3
<1>5. VarTyped'
  <2>1. Domain(decl.type)' = Domain(decl.type)
    BY DEF Domain
  <2> QED
    BY <1>2, <1>4, <2>1 DEF VarTyped
<1>6. Stamp(s)' = Stamp(s) /\ Zero(decl.type)' = Zero(decl.type)
  BY DEF Stamp, Zero
<1>7. HoldsLastValue'
  <2>1. Len(var'.val) = (CASE decl'.shape = "scalar" -> 1 [] decl'.shape = "dynvec" -> Len(src'.val) [] OTHER -> Width)
    BY <1>2, <1>4 DEF Slots
  <2>2. \A i \in DOMAIN var'.val :
          IF i > Len(src'.val) THEN var'.val[i] = Zero(decl'.type)
          ELSE \/ Faithful(decl'.type, var'.val[i], src'.type, src'.val[i])
               \/ Unfaithful(decl', src', src'.val[i])
    BY <1>1, <1>2, <1>4 DEF Made
  <2>3. var'.stamp = Stamp(src)'
    BY <1>2 DEF Stamp
  <2> QED
    BY <2>1, <2>2, <2>3 DEF HoldsLastValue
<1> QED
  BY <1>5, <1>7 DEF ValueInv

(* The invariant holds initially, and each step keeps it.                  *)
LEMMA ValueInvInit == ValueInit => ValueInv
<1> SUFFICES ASSUME ValueInit PROVE ValueInv
  OBVIOUS
<1>1. decl \in Decls /\ var = Empty(decl) /\ result = "NONE" /\ eexreq = FALSE
  BY DEF ValueInit
<1>2. HoldsLastValue
  BY <1>1 DEF HoldsLastValue
<1>3. CASE decl.type = "ANY"
  BY <1>1, <1>3 DEF Empty, void, VarTyped, ValueInv, HoldsLastValue
<1>4. CASE decl.type # "ANY"
  <2>1. decl.type \in Types /\ decl.shape \in {"scalar", "dynvec", "static"} /\ Width \in Nat
    BY <1>1, <1>4, DeclsAssumption
  <2>2. PICK n \in Nat : var = [val |-> [i \in 1..n |-> Zero(decl.type)], stamp |-> 0]
    BY <1>1, <1>4, <2>1 DEF Empty
  <2>3. var.val \in Seq(Domain(decl.type))
    BY <2>1, <2>2, ZeroTyped
  <2> QED
    BY <1>1, <1>2, <1>4, <2>2, <2>3 DEF VarTyped, ValueInv
<1> QED
  BY <1>3, <1>4

(* A variable of type ANY that seems not to differ does not.               *)
LEMMA AnySame ==
  ASSUME VarTyped, decl.type = "ANY", NEW s, IsValue(s), SameAny(s)
  PROVE  var = Kept(s)
<1>1. s = [type |-> s.type, vec |-> s.vec, pv |-> s.pv, val |-> s.val, stamp |-> s.stamp]
  BY DEF IsValue
<1>2. Kept(s) = [type |-> s.type, vec |-> s.vec, pv |-> s.pv, val |-> s.val,
                 stamp |-> IF s.pv THEN s.stamp ELSE 0]
  BY <1>1 DEF Kept
<1>3. var = [type |-> var.type, vec |-> var.vec, pv |-> var.pv, val |-> var.val, stamp |-> var.stamp]
  BY DEF VarTyped
<1> QED
  BY <1>2, <1>3 DEF VarTyped, SameAny

(* A write to a variable of type ANY.                                      *)
LEMMA AnyHolds ==
  ASSUME VarTyped, decl.type = "ANY", NEW s, IsValue(s), SetAny(s), src' = s, decl' = decl
  PROVE  ValueInv'
<1>1. ASSUME var' = Kept(s), eexreq' \in BOOLEAN
      PROVE  ValueInv'
  <2>1. s = [type |-> s.type, vec |-> s.vec, pv |-> s.pv, val |-> s.val, stamp |-> s.stamp]
    BY DEF IsValue
  <2>2. Kept(s) = [type |-> s.type, vec |-> s.vec, pv |-> s.pv, val |-> s.val,
                   stamp |-> IF s.pv THEN s.stamp ELSE 0]
    BY <2>1 DEF Kept
  <2>3. VarTyped'
    BY <1>1, <2>2 DEF VarTyped
  <2>4. HoldsLastValue'
    BY <1>1 DEF HoldsLastValue, Kept
  <2> QED
    BY <2>3, <2>4 DEF ValueInv
<1>2. ASSUME result' # "OK", UNCHANGED <<var, eexreq>>
      PROVE  ValueInv'
  BY <1>2 DEF ValueInv, VarTyped, HoldsLastValue
<1>3. CASE SameAny(s) /\ ~decl.accessor
  BY <1>1, <1>3, AnySame DEF SetAny, VarTyped
<1>4. CASE ~(SameAny(s) /\ ~decl.accessor)
  <2>1. \/ \E code \in {"BADVALUE", "REFUSED", "DBOUTOFMEMORY"} : Fails(code)
        \/ var' = Kept(s) /\ eexreq' = (eexreq \/ ~SameAny(s))
    BY <1>4 DEF SetAny
  <2>2. CASE var' = Kept(s) /\ eexreq' = (eexreq \/ ~SameAny(s))
    BY <1>1, <2>2
  <2>3. CASE \E code \in {"BADVALUE", "REFUSED", "DBOUTOFMEMORY"} : Fails(code)
    BY <1>2, <2>3 DEF Fails
  <2> QED
    BY <2>1, <2>2, <2>3
<1> QED
  BY <1>3, <1>4

LEMMA ValueInvNext == ValueInv /\ [ValueNext]_valueVars => ValueInv'
<1> SUFFICES ASSUME ValueInv, [ValueNext]_valueVars PROVE ValueInv'
  OBVIOUS
<1>1. VarTyped /\ HoldsLastValue
  BY DEF ValueInv
<1>2. CASE Execute \/ UNCHANGED valueVars
  <2>1. decl' = decl /\ var' = var /\ src' = src /\ result' = result /\ eexreq' \in BOOLEAN
    BY <1>1, <1>2 DEF Execute, valueVars, VarTyped
  <2>2. VarTyped'
    BY <1>1, <2>1 DEF VarTyped
  <2>3. HoldsLastValue'
    BY <1>1, <2>1 DEF HoldsLastValue, Stamp, Kept
  <2> QED
    BY <2>2, <2>3 DEF ValueInv
<1>3. ASSUME NEW i \in DOMAIN Sources, Write(Sources[i])
      PROVE  ValueInv'
  <2> DEFINE s == Sources[i]
  <2>1. IsValue(s)
    BY <1>3, SourcesAssumption
  <2>2. src' = s /\ decl' = decl
    BY <1>3 DEF Write
  <2>3. CASE decl.type = "ANY"
    <3>1. SetAny(s)
      BY <1>3, <2>3 DEF Write
    <3> HIDE DEF s
    <3> QED
      BY <1>1, <2>1, <2>2, <2>3, <3>1, AnyHolds
  <2>4. CASE decl.type # "ANY"
    <3>1. SetVarvalue(s)
      BY <1>3, <2>4 DEF Write
    <3> HIDE DEF s
    <3>2. \/ \E new \in Converted(s) : Stored(s, new)
          \/ result' # "OK" /\ UNCHANGED <<var, eexreq>>
          \/ \E val \in Seq(Domain(decl.type)) : HalfStored(s, val)
      BY <1>1, <2>1, <2>4, <3>1, Outcomes
    <3>3. CASE \E new \in Converted(s) : Stored(s, new)
      BY <1>1, <2>1, <2>2, <2>4, <3>3, StoredHolds
    <3>4. CASE result' # "OK" /\ UNCHANGED <<var, eexreq>>
      BY <1>1, <2>2, <2>4, <3>4 DEF ValueInv, VarTyped, HoldsLastValue
    <3>5. CASE \E val \in Seq(Domain(decl.type)) : HalfStored(s, val)
      <4>1. PICK val \in Seq(Domain(decl.type)) : HalfStored(s, val)
        BY <3>5
      <4>2. var' = [val |-> val, stamp |-> Stamp(s)] /\ result' # "OK" /\ eexreq' = eexreq
        BY <1>1, <2>4, <4>1 DEF HalfStored, VarTyped
      <4> QED
        BY <1>1, <2>2, <2>4, <4>2 DEF ValueInv, VarTyped, HoldsLastValue
    <3> QED
      BY <3>2, <3>3, <3>4, <3>5
  <2> QED
    BY <2>3, <2>4
<1> QED
  BY <1>2, <1>3 DEF ValueNext

(* A variable never holds the wrong value after a write that succeeded:    *)
(* whatever failed before, and in each of the functions for scalars and    *)
(* vectors, what is stored, or taken not to differ, is what the value      *)
(* amounts to, but for the conversions listed in Unfaithful (fb_setvar.c). *)
THEOREM LastValueHeld == ValueSpec => []HoldsLastValue
<1>1. ValueInv => HoldsLastValue
  BY DEF ValueInv
<1> QED
  BY <1>1, ValueInvInit, ValueInvNext, PTL DEF ValueSpec

(* The test for a difference is exact for every type, shape and value: a   *)
(* write that succeeds requests an execution of the block if and only if   *)
(* it changed the variable (fb_object_setvar).                             *)
THEOREM RequestsAreExact == ValueSpec => RequestsExact
<1> DEFINE Exact == result' = "OK" /\ ~eexreq =>
                      eexreq' = (IF decl.type = "ANY" THEN ~SameAny(src') ELSE var' # var)
<1>1. ASSUME ValueInv, [ValueNext]_valueVars
      PROVE  [Exact]_valueVars
  <2> SUFFICES ASSUME ValueNext, result' = "OK", eexreq = FALSE
               PROVE  eexreq' = (IF decl.type = "ANY" THEN ~SameAny(src') ELSE var' # var)
    BY <1>1 DEF ValueInv, VarTyped
  <2>1. VarTyped
    BY <1>1 DEF ValueInv
  <2>2. PICK i \in DOMAIN Sources : Write(Sources[i])
    BY DEF ValueNext, Execute
  <2> DEFINE s == Sources[i]
  <2>3. IsValue(s) /\ src' = s
    BY <2>2, SourcesAssumption DEF Write
  <2>4. CASE decl.type = "ANY"
    <3>1. SetAny(s)
      BY <2>2, <2>4 DEF Write
    <3> HIDE DEF s
    <3>2. eexreq' = (eexreq \/ ~SameAny(s)) \/ (SameAny(s) /\ eexreq' = eexreq)
      BY <3>1 DEF SetAny, Fails
    <3>3. eexreq' = ~SameAny(s)
      BY <3>2
    <3> QED
      BY <2>3, <2>4, <3>3
  <2>5. CASE decl.type # "ANY"
    <3>1. SetVarvalue(s)
      BY <2>2, <2>5 DEF Write
    <3> HIDE DEF s
    <3>2. \E new \in Converted(s) : Stored(s, new)
      BY <2>1, <2>3, <2>5, <3>1, Outcomes DEF HalfStored
    <3>3. var = [val |-> var.val, stamp |-> var.stamp]
      BY <2>1, <2>5 DEF VarTyped
    <3>4. (var' # var /\ eexreq' = TRUE) \/ (var' = var /\ eexreq' = FALSE)
      BY <3>2, <3>3 DEF Stored, Changed
    <3> QED
      BY <2>5, <3>4
  <2> QED
    BY <2>4, <2>5
<1> QED
  BY <1>1, ValueInvInit, ValueInvNext, PTL DEF ValueSpec, RequestsExact

(* Writing a value as a text and reading that text.                        *)
LEMMA RoundTrip ==
  ASSUME NEW d \in Types, NEW v \in Domain(d), NEW text \in ToText(d, v),
         ~(d = "TIME_SPAN" /\ ((v[1] = 0 /\ v[2] < 0) \/ v[1] * v[2] < 0)),
         ~(d = "BOOL" /\ v \notin {0, 1})
  PROVE  Readers(d, text) = {v}
<1>1. ASSUME NEW R \in {Byte, Int3, UInt3}, v \in R, d \in {"BYTE", "INT", "UINT"}
      PROVE  Whole(R, "STRING", text) = {v}
  <2>1. text = <<"int", v>> /\ v \in Int
    BY <1>1 DEF ToText, RealTypes, Byte, Int3, UInt3
  <2>2. Strtod(text) = 2 * v
    BY <2>1 DEF Strtod
  <2>3. Atol(text) = v
    BY <2>1, <2>2, Truncs DEF Atol
  <2>4. Wrap(R, v) = v
    BY <1>1, <2>1, Wraps
  <2> QED
    BY <2>3, <2>4 DEF Whole, RealTypes
<1>2. CASE d = "BYTE"
  BY <1>1, <1>2 DEF Domain, Readers, ToByte, RealTypes
<1>3. CASE d = "INT"
  BY <1>1, <1>3 DEF Domain, Readers, ToInt, RealTypes
<1>4. CASE d = "UINT"
  BY <1>1, <1>4 DEF Domain, Readers, ToUint, RealTypes
<1>5. CASE d = "BOOL"
  <2>1. v \in {0, 1}
    BY <1>5
  <2>2. text = <<"bool", v # 0>>
    BY <1>5 DEF ToText, RealTypes
  <2>3. (v = 1 => text = <<"bool", TRUE>>) /\ (v = 0 => text = <<"bool", FALSE>>)
    <3>1. (v = 1 => (v # 0) = TRUE) /\ (v = 0 => (v # 0) = FALSE)
      OBVIOUS
    <3> QED
      BY <2>2, <3>1
  <2>4. Atol(<<"bool", FALSE>>) = 0
    BY DEF Atol, Strtod, Trunc
  <2>5. <<"bool", FALSE>> # <<"bool", TRUE>>
    OBVIOUS
  <2>6. IsTrue("STRING", <<"bool", TRUE>>) /\ ~IsTrue("STRING", <<"bool", FALSE>>)
    BY <2>4, <2>5 DEF IsTrue
  <2>7. ToBool("STRING", <<"bool", TRUE>>) = {1} /\ ToBool("STRING", <<"bool", FALSE>>) = {0}
    BY <2>6 DEF ToBool
  <2>8. Readers(d, text) = ToBool("STRING", text)
    BY <1>5 DEF Readers, RealTypes
  <2> QED
    BY <2>1, <2>3, <2>7, <2>8
<1>6. CASE d \in RealTypes
  <2>1. text = <<"dec", v>>
    BY <1>6 DEF ToText, RealTypes
  <2>2. Strtod(text) = v
    BY <2>1 DEF Strtod
  <2>3. Readers(d, text) = ToReal("STRING", text)
    BY <1>6 DEF Readers, RealTypes
  <2> QED
    BY <2>2, <2>3 DEF ToReal, RealTypes
<1>7. CASE d = "TIME"
  <2>1. text = <<"clock", v[1], v[2]>> /\ v = <<v[1], v[2]>>
    BY <1>7 DEF ToText, Time2ascii, Domain, RealTypes
  <2>2. Readers(d, text) = ToTime("STRING", text)
    BY <1>7 DEF Readers, RealTypes
  <2>3. ToTime("STRING", text) = Ascii2time(text)
    BY DEF ToTime, RealTypes
  <2> QED
    BY <2>1, <2>2, <2>3 DEF Ascii2time
<1>8. CASE d = "TIME_SPAN"
  <2>1. v \in Int3 \X Usecs
    BY <1>8 DEF Domain, RealTypes
  <2>2. PICK a \in -4..3, b \in -1..1 : v = <<a, b>>
    BY <2>1 DEF Int3, Usecs
  <2>3. ~(a = 0 /\ b < 0) /\ ~(a * b < 0)
    BY <1>8, <2>2
  <2>4. text = <<"dec", 2 * a + b>>
    BY <1>8, <2>2 DEF ToText, Timespan2ascii, RealTypes
  <2>5. Strtod(text) = 2 * a + b
    BY <2>4 DEF Strtod
  <2>6. /\ \A x \in -4..3, y \in -1..1 : ~(x = 0 /\ y < 0) /\ ~(x * y < 0) => Trunc(2 * x + y) = x
        /\ \A x \in -4..3, y \in -1..1 : ~(x = 0 /\ y < 0) /\ ~(x * y < 0) /\ 2 * x + y < 0 =>
             x < 0 /\ (-(2 * x + y)) % 2 = -y
        /\ \A x \in -4..3, y \in -1..1 : ~(x = 0 /\ y < 0) /\ ~(x * y < 0) /\ ~(2 * x + y < 0) =>
             ~(x < 0) /\ (2 * x + y) % 2 = y
    BY DEF Trunc
  <2>7. Wrap(Int3, a) = a
    BY Wraps DEF Int3
  <2>8. F2ts(text) = <<a, b>>
    BY <2>2, <2>3, <2>4, <2>5, <2>6, <2>7 DEF F2ts
  <2>9. Readers(d, text) = ToSpan("STRING", text)
    BY <1>8 DEF Readers, RealTypes
  <2> QED
    BY <2>2, <2>8, <2>9 DEF ToSpan, RealTypes
<1>9. CASE d = "STRING"
  <2>1. text = v
    BY <1>9 DEF ToText, RealTypes
  <2> QED
    BY <1>9, <2>1 DEF Readers, RealTypes
<1> QED
  BY <1>2, <1>3, <1>4, <1>5, <1>6, <1>7, <1>8, <1>9 DEF Types, RealTypes

(* What a variable holds survives being written as a text and read back,   *)
(* whatever it was converted from, but for the values ReadsBack lists.     *)
THEOREM TextsReadBack == ValueSpec => []ReadsBack
<1>1. ASSUME ValueInv
      PROVE  ReadsBack
  <2> SUFFICES ASSUME decl.type # "ANY", NEW i \in DOMAIN var.val
               PROVE  LET v == var.val[i] IN
                      \/ \A text \in ToText(decl.type, v) : Readers(decl.type, text) = {v}
                      \/ decl.type = "TIME_SPAN" /\ ((v[1] = 0 /\ v[2] < 0) \/ v[1] * v[2] < 0)
                      \/ decl.type = "BOOL" /\ v \notin {0, 1}
                      \/ decl.type = "TIME" /\ v[2] < 0
    BY DEF ReadsBack
  <2> DEFINE v == var.val[i]
  <2>1. decl.type \in Types
    BY <1>1, DeclsAssumption DEF ValueInv, VarTyped
  <2>2. var.val \in Seq(Domain(decl.type))
    BY <1>1 DEF ValueInv, VarTyped
  <2>3. v \in Domain(decl.type)
    BY <2>2
  <2> HIDE DEF v
  <2>4. \/ \A text \in ToText(decl.type, v) : Readers(decl.type, text) = {v}
        \/ decl.type = "TIME_SPAN" /\ ((v[1] = 0 /\ v[2] < 0) \/ v[1] * v[2] < 0)
        \/ decl.type = "BOOL" /\ v \notin {0, 1}
    BY <2>1, <2>3, RoundTrip
  <2> QED
    BY <2>4 DEF v
<1> QED
  BY <1>1, ValueInvInit, ValueInvNext, PTL DEF ValueSpec

----------------------------------------------------------------------------
(***************************************************************************)
(* Sequential state charts (StateChart), for any charts, steps and         *)
(* transitions.  The methods work on nets, so a lemma says of a method     *)
(* which net m it makes of a net n, and what of n it does not touch.       *)
(***************************************************************************)

(* Chart x and its steps are in net m as they are in net n.                *)
Same(n, m, x) ==
  /\ m.chart[x] = n.chart[x]
  /\ \A s \in StepsOf(x) : m.step[s] = n.step[s] /\ (s \in m.begun <=> s \in n.begun)

Roles(n, m, x) == \A s \in StepsOf(x) : m.step[s].role = n.step[s].role

(* What has been performed so far is paired.                               *)
PairedTrace(n) == \A i \in DOMAIN n.trace : Paired(n.trace[i])

(* The same in the middle of a cycle.                                      *)
Cycling(n) == n.trace # <<>> /\ \A i \in DOMAIN n.trace : Paired(n.trace[i])

(* Between two executions of chart c, a step of it is begun exactly while  *)
(* it is in its second qualifier, and is then the active step.             *)
Settled(n, c) ==
  /\ n.chart[c].active = <<>> \/ \E a \in StepsOf(c) : n.chart[c].active = <<a>>
  /\ \A s \in StepsOf(c) :
       /\ s \in n.begun <=> n.step[s].qual = "DO"
       /\ s \in n.begun => n.chart[c].active = <<s>> /\ n.step[s].entry = "OFF"
       /\ n.step[s].X => s \in n.begun
       /\ n.step[s].phase = "EXITTRANS" => s \in n.begun

(* A sub-chart is told to start or stop, and is never interrupted.         *)
SubRight(n, d) ==
  /\ n.chart[d].en \in {"START", "STOP"} /\ n.chart[d].ws # "BREAK"
  /\ n.chart[d].ws = "START" => n.chart[d].phase = "EXITTRANS"

SubSound(n, d) == Settled(n, d) /\ SubRight(n, d)

(* What other charts may do to sub-chart d: it stays sound.                *)
Near(n, m, d) ==
  /\ SubSound(n, d) => SubSound(m, d)
  /\ n.chart[d].mode = "ON" => m.chart[d].mode = "ON"
  /\ Roles(n, m, d)

(* From n to m, nothing but c and what it may execute has changed.         *)
Apart(n, m, c) ==
  IF c = MainChart THEN \A d \in SubCharts : Near(n, m, d)
  ELSE \A x \in Charts \ {c} : Same(n, m, x)

(* Chart c can be executed in net n.                                       *)
Ready(n, c) ==
  /\ n \in Nets /\ Cycling(n)
  /\ c = MainChart => \A d \in SubCharts : SubSound(n, d)

(* Sub-chart d needs no owner.                                             *)
Ended(n, d) == n.begun \cap StepsOf(d) = {} \/ n.chart[d].ws = "TERMINATE"

SetChart(n, c, r) == [n EXCEPT !.chart[c] = r]
SetStep(n, s, r) == [n EXCEPT !.step[s] = r]

(* Writing the record of a chart or of a step changes nothing else.        *)
LEMMA SetChartFacts ==
  ASSUME NEW n \in Nets, NEW c \in Charts, NEW r \in Chart
  PROVE  /\ SetChart(n, c, r) \in Nets
         /\ SetChart(n, c, r).chart[c] = r
         /\ \A x \in Charts \ {c} : SetChart(n, c, r).chart[x] = n.chart[x]
         /\ SetChart(n, c, r).step = n.step
         /\ SetChart(n, c, r).result = n.result
         /\ SetChart(n, c, r).trace = n.trace
         /\ SetChart(n, c, r).begun = n.begun
BY DEF SetChart, Nets

LEMMA SetStepFacts ==
  ASSUME NEW n \in Nets, NEW s \in Steps, NEW r \in Step
  PROVE  /\ SetStep(n, s, r) \in Nets
         /\ SetStep(n, s, r).step[s] = r
         /\ \A x \in Steps \ {s} : SetStep(n, s, r).step[x] = n.step[x]
         /\ SetStep(n, s, r).chart = n.chart
         /\ SetStep(n, s, r).result = n.result
         /\ SetStep(n, s, r).trace = n.trace
         /\ SetStep(n, s, r).begun = n.begun
BY DEF SetStep, Nets

(* What is said of a chart depends on it and its steps alone.              *)
LEMMA SameSound ==
  ASSUME NEW n, NEW m, NEW d, Same(n, m, d)
  PROVE  /\ Settled(n, d) => Settled(m, d)
         /\ SubRight(n, d) => SubRight(m, d)
         /\ SubSound(n, d) => SubSound(m, d)
         /\ Ended(n, d) => Ended(m, d)
         /\ Roles(n, m, d)
         /\ Near(n, m, d)
<1>1. Settled(n, d) => Settled(m, d)
  BY DEF Same, Settled
<1>2. SubRight(n, d) => SubRight(m, d)
  BY DEF Same, SubRight
<1>3. Ended(n, d) => Ended(m, d)
  BY DEF Same, Ended
<1>4. Roles(n, m, d)
  BY DEF Same, Roles
<1> QED
  BY <1>1, <1>2, <1>3, <1>4 DEF SubSound, Near, Same

(* Actions that do not come out of order keep the trace paired.            *)
LEMMA DidFacts ==
  ASSUME NEW n \in Nets, NEW s \in Steps, NEW q \in Qualifiers, Cycling(n),
         q = "entry" <=> s \notin n.begun
  PROVE  /\ Did(n, q, s) \in Nets /\ Cycling(Did(n, q, s))
         /\ Did(n, q, s).chart = n.chart
         /\ Did(n, q, s).step = n.step
         /\ Did(n, q, s).result = n.result
         /\ \A x \in Steps \ {s} : x \in Did(n, q, s).begun <=> x \in n.begun
         /\ s \in Did(n, q, s).begun <=> q # "exit"
<1> DEFINE e == [what |-> q, who |-> s, before |-> n.begun]
           b == CASE q = "entry" -> n.begun \cup {s} [] q = "exit" -> n.begun \ {s} [] q = "do" -> n.begun
<1>1. n.begun \subseteq Steps /\ n.trace \in Seq(Act)
  BY DEF Nets
<1>2. e \in Act /\ Paired(e)
  BY <1>1 DEF Act, Paired, Qualifiers
<1>3. /\ b \in SUBSET Steps
      /\ \A x \in Steps \ {s} : x \in b <=> x \in n.begun
      /\ s \in b <=> q # "exit"
  BY <1>1 DEF Qualifiers
<1> HIDE DEF e, b
<1>4. Append(n.trace, e) \in Seq(Act)
  BY <1>1, <1>2
<1>5. Did(n, q, s) = [n EXCEPT !.trace = Append(n.trace, e), !.begun = b]
  BY DEF Did, e, b
<1>6. /\ Did(n, q, s) \in Nets
      /\ Did(n, q, s).chart = n.chart
      /\ Did(n, q, s).step = n.step
      /\ Did(n, q, s).result = n.result
      /\ Did(n, q, s).trace = Append(n.trace, e)
      /\ Did(n, q, s).begun = b
  BY <1>3, <1>4, <1>5 DEF Nets
<1>7. Cycling(Did(n, q, s))
  <2>1. \A i \in DOMAIN Append(n.trace, e) : Paired(Append(n.trace, e)[i])
    <3> SUFFICES ASSUME NEW i \in DOMAIN Append(n.trace, e)
                 PROVE  Paired(Append(n.trace, e)[i])
      OBVIOUS
    <3>1. CASE i \in DOMAIN n.trace
      BY <1>1, <1>2, <3>1 DEF Cycling
    <3>2. CASE i = Len(n.trace) + 1
      BY <1>1, <1>2, <3>2
    <3> QED
      BY <1>1, <1>2, <3>1, <3>2
  <2>2. Append(n.trace, e) # <<>>
    BY <1>1
  <2> QED
    BY <1>6, <2>1, <2>2 DEF Cycling
<1> QED
  BY <1>3, <1>6, <1>7

(* Only chart c and its steps change, and no actions are performed.        *)
Others(n, m, c) == \A x \in Charts \ {c} : Same(n, m, x)

Local(n, m, c) ==
  /\ m \in Nets /\ m.trace = n.trace /\ m.result = n.result
  /\ Others(n, m, c)

(* Writing a chart or a step is local to the chart.                        *)
LEMMA SetChartLocal ==
  ASSUME NEW n \in Nets, NEW c \in Charts, NEW r \in Chart
  PROVE  Local(n, SetChart(n, c, r), c)
BY SetChartFacts DEF Local, Others, Same

LEMMA SetStepLocal ==
  ASSUME NEW n \in Nets, NEW s \in Steps, NEW r \in Step
  PROVE  Local(n, SetStep(n, s, r), ChartOf[s])
BY SetStepFacts DEF Local, Others, Same, StepsOf

(* These relations between nets are transitive.                            *)
LEMMA SameTrans ==
  ASSUME NEW n, NEW m, NEW k, NEW x, Same(n, m, x), Same(m, k, x)
  PROVE  Same(n, k, x)
BY DEF Same

LEMMA LocalTrans ==
  ASSUME NEW n, NEW m, NEW k, NEW c, Local(n, m, c), Local(m, k, c)
  PROVE  Local(n, k, c)
BY SameTrans DEF Local, Others

LEMMA NearTrans ==
  ASSUME NEW n, NEW m, NEW k, NEW d, Near(n, m, d), Near(m, k, d)
  PROVE  Near(n, k, d)
BY DEF Near, Roles

LEMMA ApartTrans ==
  ASSUME NEW n, NEW m, NEW k, NEW c, Apart(n, m, c), Apart(m, k, c)
  PROVE  Apart(n, k, c)
BY SameTrans, NearTrans DEF Apart

(* What touches chart c only leaves every other one sound.                 *)
LEMMA OthersApart ==
  ASSUME NEW n, NEW m, NEW c, Others(n, m, c)
  PROVE  Apart(n, m, c)
<1>1. CASE c = MainChart
  BY <1>1, SameSound DEF Apart, Others, SubCharts
<1>2. CASE c # MainChart
  BY <1>2 DEF Apart, Others
<1> QED
  BY <1>1, <1>2

(* From a net that is ready for c to the next one.                         *)
LEMMA ApartReady ==
  ASSUME NEW n, NEW m \in Nets, NEW c, Ready(n, c), Apart(n, m, c), Cycling(m)
  PROVE  Ready(m, c)
BY DEF Ready, Apart, Near

LEMMA LocalReady ==
  ASSUME NEW n, NEW m, NEW c, Ready(n, c), Local(n, m, c)
  PROVE  Ready(m, c) /\ Apart(n, m, c) /\ Others(n, m, c)
<1>1. Apart(n, m, c) /\ m \in Nets
  BY OthersApart DEF Local
<1>2. Cycling(m)
  BY DEF Ready, Local, Cycling
<1> QED
  BY <1>1, <1>2, ApartReady DEF Local

----------------------------------------------------------------------------
(* What executing sub-chart d does.                                        *)
RunRight(n, m, d) ==
  /\ m \in Nets /\ Cycling(m) /\ SubSound(m, d)
  /\ Others(n, m, d) /\ Roles(n, m, d) /\ m.result = n.result
  /\ n.chart[d].mode = "ON" => m.chart[d].mode = "ON"
  /\ n.chart[d].en = "STOP" /\ n.chart[d].mode # "OFF" => Ended(m, d)

RunOK(run) ==
  \A d \in SubCharts, n \in Nets :
    Cycling(n) /\ SubSound(n, d) => RunRight(n, run[d][n], d)

(* Executed from chart c, that does not disturb c.                         *)
Ran(n, m, c, e) ==
  /\ Ready(m, c) /\ Apart(n, m, c)
  /\ m.result = n.result
  /\ \A x \in Charts \ {e} : Same(n, m, x)

(* An execute block leaves everything but its target as it was, and the    *)
(* target sound.                                                           *)
LEMMA ExecuteBlockRight ==
  ASSUME NEW run, NEW n, NEW d \in SubCharts, RunOK(run), Ready(n, MainChart)
  PROVE  Ran(n, ExecuteBlock(run, n, d), MainChart, d)
<1> DEFINE r1 == [n.chart[d] EXCEPT !.mode = "ONCE", !.en = "START"]
           m1 == SetChart(n, d, r1)
           m2 == run[d][m1]
           r3 == [m2.chart[d] EXCEPT !.mode = n.chart[d].mode]
           m3 == SetChart(m2, d, r3)
<1>1. n \in Nets /\ d \in Charts /\ n.chart[d] \in Chart /\ SubSound(n, d) /\ Cycling(n)
  BY DEF Ready, Nets, SubCharts
<1>2. /\ r1 \in Chart /\ r1.en = "START" /\ r1.ws = n.chart[d].ws
      /\ r1.phase = n.chart[d].phase /\ r1.active = n.chart[d].active
  BY <1>1 DEF Chart, Commands
<1>3. /\ m1 \in Nets /\ m1.chart[d] = r1 /\ m1.step = n.step /\ m1.begun = n.begun
      /\ m1.trace = n.trace
  <2> HIDE DEF r1
  <2> QED
    BY <1>1, <1>2, SetChartFacts
<1>4. Local(n, m1, d)
  <2> HIDE DEF r1
  <2> QED
    BY <1>1, <1>2, SetChartLocal
<1>5. m1 = [n EXCEPT !.chart[d].mode = "ONCE", !.chart[d].en = "START"]
  BY <1>1 DEF SetChart, Nets, Chart
<1> HIDE DEF r1, m1
<1>6. SubSound(m1, d) /\ Cycling(m1)
  <2>1. Settled(m1, d)
    BY <1>1, <1>2, <1>3 DEF SubSound, Settled
  <2>2. SubRight(m1, d)
    BY <1>1, <1>2, <1>3 DEF SubSound, SubRight
  <2>3. Cycling(m1)
    BY <1>1, <1>3 DEF Cycling
  <2> QED
    BY <2>1, <2>2, <2>3 DEF SubSound
<1>7. RunRight(m1, m2, d)
  BY <1>3, <1>6 DEF RunOK
<1> HIDE DEF m2
<1>8. m2 \in Nets /\ m2.chart[d] \in Chart
  BY <1>1, <1>7 DEF RunRight, Nets
<1>9. /\ r3 \in Chart /\ r3.en = m2.chart[d].en /\ r3.ws = m2.chart[d].ws
      /\ r3.phase = m2.chart[d].phase /\ r3.active = m2.chart[d].active
      /\ r3.mode = n.chart[d].mode
  BY <1>1, <1>8 DEF Chart, Commands
<1>10. m3 = ExecuteBlock(run, n, d)
  BY <1>5, <1>8 DEF m2, SetChart, ExecuteBlock, Nets, Chart
<1> HIDE DEF r3
<1>11. /\ m3 \in Nets /\ m3.chart[d] = r3 /\ m3.step = m2.step /\ m3.begun = m2.begun
       /\ m3.trace = m2.trace /\ Local(m2, m3, d)
  BY <1>1, <1>8, <1>9, SetChartFacts, SetChartLocal
<1> HIDE DEF m3
<1>12. SubSound(m3, d) /\ Cycling(m3)
  <2>1. Settled(m3, d)
    BY <1>7, <1>9, <1>11 DEF RunRight, SubSound, Settled
  <2>2. SubRight(m3, d)
    BY <1>7, <1>9, <1>11 DEF RunRight, SubSound, SubRight
  <2>3. Cycling(m3)
    BY <1>7, <1>11 DEF RunRight, Cycling
  <2> QED
    BY <2>1, <2>2, <2>3 DEF SubSound
<1>13. \A x \in Charts \ {d} : Same(n, m3, x)
  BY <1>4, <1>7, <1>11, SameTrans DEF RunRight, Local, Others
<1>14. Roles(n, m3, d)
  BY <1>3, <1>7, <1>11 DEF RunRight, Roles
<1>15. m3.result = n.result
  BY <1>4, <1>7, <1>11 DEF RunRight, Local
<1>16. Apart(n, m3, MainChart)
  <2> SUFFICES ASSUME NEW e \in SubCharts
               PROVE  Near(n, m3, e)
    BY DEF Apart
  <2>1. CASE e = d
    BY <2>1, <1>9, <1>11, <1>12, <1>14 DEF Near
  <2>2. CASE e # d
    BY <2>2, <1>13, SameSound DEF SubCharts
  <2> QED
    BY <2>1, <2>2
<1>17. Ready(m3, MainChart)
  BY <1>11, <1>12, <1>16, ApartReady
<1> QED
  BY <1>10, <1>13, <1>15, <1>16, <1>17 DEF Ran

----------------------------------------------------------------------------
(* The actions q of step s of chart c are performed.                       *)
Acted(n, m, c, s, q) ==
  /\ Ready(m, c) /\ Apart(n, m, c) /\ m.result = n.result
  /\ m.chart[c] = n.chart[c]
  /\ \A x \in StepsOf(c) : m.step[x] = n.step[x]
  /\ \A x \in StepsOf(c) \ {s} : x \in m.begun <=> x \in n.begun
  /\ s \in m.begun <=> q # "exit"
  /\ \A d \in SubCharts \ {c} : d # Executes[s][q] => Same(n, m, d)

(* Actions without a sub-chart.                                            *)
LEMMA DidActed ==
  ASSUME NEW n, NEW c \in Charts, NEW s \in StepsOf(c), NEW q \in Qualifiers, Ready(n, c),
         q = "entry" <=> s \notin n.begun
  PROVE  Acted(n, Did(n, q, s), c, s, q) /\ Others(n, Did(n, q, s), c)
<1> DEFINE m == Did(n, q, s)
<1>1. n \in Nets /\ Cycling(n) /\ s \in Steps /\ ChartOf[s] = c
  BY DEF Ready, StepsOf
<1>2. /\ m \in Nets /\ Cycling(m)
      /\ m.chart = n.chart /\ m.step = n.step /\ m.result = n.result
      /\ \A x \in Steps \ {s} : x \in m.begun <=> x \in n.begun
      /\ s \in m.begun <=> q # "exit"
  BY <1>1, DidFacts
<1> HIDE DEF m
<1>3. Others(n, m, c)
  BY <1>1, <1>2 DEF Others, Same, StepsOf
<1>4. Apart(n, m, c)
  BY <1>3, OthersApart
<1>5. Ready(m, c)
  BY <1>2, <1>4, ApartReady
<1>6. \A x \in StepsOf(c) \ {s} : x \in m.begun <=> x \in n.begun
  BY <1>2 DEF StepsOf
<1>7. \A d \in SubCharts \ {c} : Same(n, m, d)
  BY <1>3 DEF Others, SubCharts
<1>8. Acted(n, m, c, s, q)
  BY <1>2, <1>4, <1>5, <1>6, <1>7 DEF Acted
<1> QED
  BY <1>3, <1>8 DEF m

(* All actions.                                                            *)
LEMMA ActionsRight ==
  ASSUME NEW run, NEW n, NEW c \in Charts, NEW s \in StepsOf(c), NEW q \in Qualifiers,
         Ready(n, c), c = MainChart => RunOK(run),
         q = "entry" <=> s \notin n.begun
  PROVE  Acted(n, Actions(run, n, s, q), c, s, q)
<1> DEFINE k == Did(n, q, s)
           d == Executes[s][q]
           m == ExecuteBlock(run, k, d)
<1>1. Acted(n, k, c, s, q) /\ Others(n, k, c)
  BY DidActed
<1>2. CASE d = NoChart
  BY <1>1, <1>2 DEF Actions
<1>3. CASE d # NoChart
  <2>1. d \in SubCharts /\ c = MainChart
    BY <1>3, ChartAssumption DEF StepsOf
  <2>2. Ready(k, MainChart)
    BY <1>1, <2>1 DEF Acted
  <2>3. Ran(k, m, MainChart, d)
    <3> HIDE DEF k, d
    <3> QED
      BY <2>1, <2>2, ExecuteBlockRight
  <2>4. Actions(run, n, s, q) = m
    BY <1>3 DEF Actions
  <2> HIDE DEF k, d, m
  <2>5. Same(k, m, c)
    BY <2>1, <2>3 DEF Ran, SubCharts
  <2>6. Apart(n, m, c)
    BY <1>1, <2>1, <2>3, ApartTrans DEF Ran, Acted
  <2>7. \A e \in SubCharts \ {c} : e # d => Same(n, m, e)
    BY <1>1, <2>3, SameTrans DEF Ran, Others, SubCharts
  <2>8. Ready(m, c) /\ m.result = n.result
    BY <1>1, <2>1, <2>3 DEF Ran, Acted
  <2>9. /\ m.chart[c] = n.chart[c]
        /\ \A x \in StepsOf(c) : m.step[x] = n.step[x]
        /\ \A x \in StepsOf(c) \ {s} : x \in m.begun <=> x \in n.begun
        /\ s \in m.begun <=> q # "exit"
    BY <1>1, <2>5 DEF Same, Acted
  <2>10. \A e \in SubCharts \ {c} : e # Executes[s][q] => Same(n, m, e)
    BY <2>7 DEF d
  <2> QED
    BY <2>4, <2>6, <2>8, <2>9, <2>10 DEF Acted
<1> QED
  BY <1>2, <1>3

(* The parts of step s have been executed: it has been entered.            *)
Executed(n, m, c, s) ==
  /\ Ready(m, c) /\ Apart(n, m, c) /\ m.result = n.result
  /\ m.chart[c] = n.chart[c]
  /\ \A x \in StepsOf(c) \ {s} : m.step[x] = n.step[x] /\ (x \in m.begun <=> x \in n.begun)
  /\ s \in m.begun
  /\ m.step[s] = [n.step[s] EXCEPT !.entry = "OFF"]
  /\ \A d \in SubCharts \ {c} :
       d # Executes[s]["entry"] /\ d # Executes[s]["do"] => Same(n, m, d)

(* The parts of a step: first do, then both for a step that was begun      *)
(* before, and for one that is entered now.                                *)
LEMMA DoTaskRight ==
  ASSUME NEW run, NEW n, NEW c \in Charts, NEW s \in StepsOf(c),
         Ready(n, c), c = MainChart => RunOK(run), s \in n.begun
  PROVE  Acted(n, DoTask(run, n, s), c, s, "do")
<1>1. CASE n.step[s].do = "OFF"
  <2>1. Others(n, n, c) /\ \A d \in SubCharts : Same(n, n, d)
    BY DEF Others, Same
  <2>2. Apart(n, n, c)
    BY <2>1, OthersApart
  <2>3. Acted(n, n, c, s, "do")
    BY <2>1, <2>2 DEF Acted
  <2> QED
    BY <1>1, <2>3 DEF DoTask
<1>2. CASE n.step[s].do # "OFF"
  <2>1. "do" \in Qualifiers
    BY DEF Qualifiers
  <2>2. Acted(n, Actions(run, n, s, "do"), c, s, "do")
    BY <2>1, ActionsRight
  <2> QED
    BY <1>2, <2>2 DEF DoTask
<1> QED
  BY <1>1, <1>2

LEMMA PartsAgain ==
  ASSUME NEW run, NEW n, NEW c \in Charts, NEW s \in StepsOf(c),
         Ready(n, c), c = MainChart => RunOK(run),
         s \in n.begun, n.step[s].entry = "OFF"
  PROVE  Executed(n, Parts(run, n, s), c, s)
<1> DEFINE m == DoTask(run, n, s)
<1>1. Parts(run, n, s) = m
  BY DEF Parts, EntryTask
<1>2. Acted(n, m, c, s, "do")
  BY DoTaskRight
<1> HIDE DEF m
<1>3. n.step[s] \in Step
  BY DEF Ready, Nets, StepsOf
<1>4. n.step[s] = [n.step[s] EXCEPT !.entry = "OFF"]
  BY <1>3 DEF Step
<1>5. s \in m.begun
  BY <1>2 DEF Acted
<1>6. m.step[s] = [n.step[s] EXCEPT !.entry = "OFF"]
  BY <1>2, <1>4 DEF Acted
<1> QED
  BY <1>1, <1>2, <1>5, <1>6 DEF Acted, Executed

LEMMA PartsFirst ==
  ASSUME NEW run, NEW n, NEW c \in Charts, NEW s \in StepsOf(c),
         Ready(n, c), c = MainChart => RunOK(run),
         s \notin n.begun, n.step[s].entry = "ONCE"
  PROVE  Executed(n, Parts(run, n, s), c, s)
<1> DEFINE k == Actions(run, n, s, "entry")
           r == [k.step[s] EXCEPT !.entry = "OFF"]
           l == SetStep(k, s, r)
           m == DoTask(run, l, s)
<1>1. "entry" \in Qualifiers
  BY DEF Qualifiers
<1>2. Acted(n, k, c, s, "entry")
  BY <1>1, ActionsRight
<1>3. k \in Nets /\ s \in Steps /\ ChartOf[s] = c /\ k.step[s] \in Step /\ k.step[s] = n.step[s]
  BY <1>2 DEF Acted, Ready, Nets, StepsOf
<1>4. l = EntryTask(run, n, s)
  <2>1. n.step[s].entry # "OFF"
    OBVIOUS
  <2>2. EntryTask(run, n, s) = [k EXCEPT !.step[s].entry = IF @ = "ON" THEN "ON" ELSE "OFF"]
    BY <2>1 DEF EntryTask
  <2>3. (IF k.step[s].entry = "ON" THEN "ON" ELSE "OFF") = "OFF"
    BY <1>3
  <2> HIDE DEF k
  <2> QED
    BY <1>3, <2>2, <2>3 DEF SetStep, Nets, Step
<1>5. Parts(run, n, s) = m
  BY <1>4 DEF Parts
<1>6. r \in Step /\ r = [n.step[s] EXCEPT !.entry = "OFF"]
  BY <1>3 DEF Step
<1> HIDE DEF k, r
<1>7. /\ l \in Nets /\ l.step[s] = r /\ (\A x \in Steps \ {s} : l.step[x] = k.step[x])
      /\ l.chart = k.chart /\ l.result = k.result /\ l.begun = k.begun
      /\ Local(k, l, c)
  <2>1. k \in Nets /\ s \in Steps /\ r \in Step /\ ChartOf[s] = c
    BY <1>3, <1>6
  <2>2. Local(k, l, ChartOf[s])
    BY <2>1, SetStepLocal
  <2>3. Local(k, l, c)
    BY <2>1, <2>2
  <2> QED
    BY <2>1, <2>3, SetStepFacts
<1> HIDE DEF l
<1>8. Ready(l, c) /\ Apart(k, l, c) /\ Others(k, l, c)
  BY <1>2, <1>7, LocalReady DEF Acted
<1>9. s \in l.begun
  BY <1>2, <1>7 DEF Acted
<1>10. Acted(l, m, c, s, "do")
  BY <1>8, <1>9, DoTaskRight
<1> HIDE DEF m
<1>11. Apart(n, m, c)
  BY <1>2, <1>8, <1>10, ApartTrans DEF Acted
<1>12. \A x \in StepsOf(c) \ {s} : l.step[x] = k.step[x]
  BY <1>7 DEF StepsOf
<1>13. \A x \in StepsOf(c) \ {s} : m.step[x] = n.step[x] /\ (x \in m.begun <=> x \in n.begun)
  BY <1>2, <1>7, <1>10, <1>12 DEF Acted
<1>14. s \in m.begun /\ m.step[s] = [n.step[s] EXCEPT !.entry = "OFF"]
  BY <1>6, <1>7, <1>10 DEF Acted
<1>15. m.chart[c] = n.chart[c] /\ m.result = n.result /\ Ready(m, c)
  BY <1>2, <1>7, <1>10 DEF Acted
<1>16. \A d \in SubCharts \ {c} :
         d # Executes[s]["entry"] /\ d # Executes[s]["do"] => Same(n, m, d)
  <2> SUFFICES ASSUME NEW d \in SubCharts \ {c}, d # Executes[s]["entry"], d # Executes[s]["do"]
               PROVE  Same(n, m, d)
    OBVIOUS
  <2>1. Same(n, k, d)
    BY <1>2 DEF Acted
  <2>2. Same(k, l, d)
    BY <1>8 DEF Others, SubCharts
  <2>3. Same(l, m, d)
    BY <1>10 DEF Acted
  <2> QED
    BY <2>1, <2>2, <2>3, SameTrans
<1> QED
  BY <1>5, <1>11, <1>13, <1>14, <1>15, <1>16 DEF Executed

----------------------------------------------------------------------------
(* What the steps of a chart may do to the variables of the chart.         *)
Goes(r, q) ==
  /\ q.en = r.en /\ q.mode = r.mode /\ q.phase = r.phase /\ q.qual = r.qual
  /\ q.ws \in {r.ws, "STOP", "TERMINATE"}

(* The working state of chart c when step s is entered.                    *)
WorkingAt(n, c, s) == IF n.step[s].role = "END" THEN "TERMINATE" ELSE n.chart[c].ws

LEMMA GoesTrans ==
  ASSUME NEW a, NEW b, NEW d, Goes(a, b), Goes(b, d)
  PROVE  Goes(a, d)
BY DEF Goes

(* Phase 1 of the step method, and then the parts: the step has begun, and *)
(* its entry actions are performed if and only if it is entered.           *)
LEMMA EntryDoFacts ==
  ASSUME NEW n \in Nets, NEW c \in Charts, NEW s \in StepsOf(c)
  PROVE  LET m == EntryDo(n, s)
         IN  /\ Local(n, m, c) /\ m.begun = n.begun
             /\ Goes(n.chart[c], m.chart[c]) /\ m.chart[c].active = n.chart[c].active
             /\ \A x \in Steps \ {s} : m.step[x] = n.step[x]
             /\ m.step[s].role = n.step[s].role
             /\ m.chart[c].ws = WorkingAt(n, c, s) /\ m.step[s].phase = "EXITTRANS"
             /\ m.step[s].qual = "DO" /\ m.step[s].mode = n.step[s].mode
             /\ m.step[s].entry = IF n.step[s].qual = "ENTRY" THEN "ONCE" ELSE n.step[s].entry
<1> DEFINE r == [n.step[s] EXCEPT !.X = TRUE, !.phase = "EXITTRANS", !.qual = "DO",
                                  !.entry = IF n.step[s].qual = "ENTRY" THEN "ONCE" ELSE n.step[s].entry,
                                  !.do = IF n.step[s].qual = "ENTRY" THEN "ON" ELSE n.step[s].do]
           k == SetStep(n, s, r)
           q == [n.chart[c] EXCEPT !.ws = IF n.step[s].role = "END" THEN "TERMINATE" ELSE @]
           m == SetChart(k, c, q)
<1>1. s \in Steps /\ ChartOf[s] = c /\ n.step[s] \in Step /\ n.chart[c] \in Chart
  BY DEF StepsOf, Nets
<1>2. /\ r \in Step /\ r.role = n.step[s].role /\ r.qual = "DO" /\ r.mode = n.step[s].mode
      /\ r.phase = "EXITTRANS"
      /\ r.entry = IF n.step[s].qual = "ENTRY" THEN "ONCE" ELSE n.step[s].entry
  BY <1>1 DEF Step, WorkPhases
<1>3. /\ q \in Chart /\ Goes(n.chart[c], q) /\ q.active = n.chart[c].active
      /\ q.ws = WorkingAt(n, c, s)
  BY <1>1 DEF Chart, Goes, WorkingAt
<1>4. m = EntryDo(n, s)
  <2>1. EntryDo(n, s) = [n EXCEPT !.step[s] = r, !.chart[c].ws = q.ws]
    <3>1. q.ws = IF n.step[s].role = "END" THEN "TERMINATE" ELSE n.chart[c].ws
      BY <1>1 DEF Chart
    <3> HIDE DEF q
    <3> QED
      BY <1>1, <3>1 DEF EntryDo, Nets
  <2>2. k.chart[c] = n.chart[c] /\ k.chart = n.chart /\ c \in DOMAIN k.chart
    BY <1>1 DEF SetStep, Nets
  <2>3. q = [n.chart[c] EXCEPT !.ws = q.ws]
    BY <1>1 DEF Chart
  <2> HIDE DEF q, r
  <2>4. EntryDo(n, s) = [k EXCEPT !.chart[c] = [n.chart[c] EXCEPT !.ws = q.ws]]
    BY <1>1, <2>1 DEF SetStep, Nets
  <2> HIDE DEF k
  <2> QED
    BY <2>3, <2>4 DEF SetChart
<1> HIDE DEF r, q
<1>5. /\ k \in Nets /\ k.step[s] = r /\ (\A x \in Steps \ {s} : k.step[x] = n.step[x])
      /\ k.chart = n.chart /\ k.begun = n.begun
  BY <1>1, <1>2, SetStepFacts
<1>6. Local(n, k, c)
  <2>1. Local(n, k, ChartOf[s])
    BY <1>1, <1>2, SetStepLocal
  <2> QED
    BY <1>1, <2>1
<1> HIDE DEF k
<1>7. /\ m \in Nets /\ m.chart[c] = q /\ m.step = k.step /\ m.begun = k.begun
      /\ Local(k, m, c)
  BY <1>3, <1>5, SetChartFacts, SetChartLocal
<1> HIDE DEF m
<1>8. Local(n, m, c)
  BY <1>6, <1>7, LocalTrans
<1> QED
  BY <1>2, <1>3, <1>4, <1>5, <1>7, <1>8

(* Step s performs phase 1 and its parts: it has been entered.             *)
Entered(n, m, c, s) ==
  /\ Ready(m, c) /\ Apart(n, m, c) /\ m.result = n.result
  /\ Goes(n.chart[c], m.chart[c]) /\ m.chart[c].active = n.chart[c].active
  /\ \A x \in StepsOf(c) \ {s} : m.step[x] = n.step[x] /\ (x \in m.begun <=> x \in n.begun)
  /\ s \in m.begun /\ m.step[s].role = n.step[s].role
  /\ m.step[s].qual = "DO" /\ m.step[s].entry = "OFF"
  /\ m.chart[c].ws = WorkingAt(n, c, s) /\ m.step[s].phase = "EXITTRANS"
  /\ \A d \in SubCharts \ {c} :
       d # Executes[s]["entry"] /\ d # Executes[s]["do"] => Same(n, m, d)

LEMMA EntryPartsRight ==
  ASSUME NEW run, NEW n, NEW c \in Charts, NEW s \in StepsOf(c),
         Ready(n, c), c = MainChart => RunOK(run),
         s \in n.begun <=> n.step[s].qual = "DO",
         s \in n.begun => n.step[s].entry = "OFF"
  PROVE  Entered(n, Parts(run, EntryDo(n, s), s), c, s)
<1> DEFINE k == EntryDo(n, s)
           m == Parts(run, k, s)
<1>1. n \in Nets /\ s \in Steps /\ n.step[s] \in Step
  BY DEF Ready, Nets, StepsOf
<1>2. /\ Local(n, k, c) /\ k.begun = n.begun
      /\ Goes(n.chart[c], k.chart[c]) /\ k.chart[c].active = n.chart[c].active
      /\ \A x \in Steps \ {s} : k.step[x] = n.step[x]
      /\ k.step[s].role = n.step[s].role
      /\ k.step[s].qual = "DO"
      /\ k.chart[c].ws = WorkingAt(n, c, s) /\ k.step[s].phase = "EXITTRANS"
      /\ k.step[s].entry = IF n.step[s].qual = "ENTRY" THEN "ONCE" ELSE n.step[s].entry
  BY <1>1, EntryDoFacts
<1> HIDE DEF k
<1>3. Ready(k, c) /\ Apart(n, k, c) /\ Others(n, k, c)
  BY <1>2, LocalReady
<1>4. Executed(k, m, c, s)
  <2>1. CASE s \in n.begun
    <3>1. s \in k.begun /\ k.step[s].entry = "OFF"
      BY <1>2, <2>1
    <3> QED
      BY <1>3, <3>1, PartsAgain
  <2>2. CASE s \notin n.begun
    <3>1. n.step[s].qual = "ENTRY"
      BY <1>1, <2>2 DEF Step
    <3>2. s \notin k.begun /\ k.step[s].entry = "ONCE"
      BY <1>2, <2>2, <3>1
    <3> QED
      BY <1>3, <3>2, PartsFirst
  <2> QED
    BY <2>1, <2>2
<1> HIDE DEF m
<1>5. Apart(n, m, c)
  BY <1>3, <1>4, ApartTrans DEF Executed
<1>6. m.result = n.result /\ Ready(m, c)
  BY <1>2, <1>4 DEF Executed, Local
<1>7. Goes(n.chart[c], m.chart[c]) /\ m.chart[c].active = n.chart[c].active
  BY <1>2, <1>4 DEF Executed
<1>8. \A x \in StepsOf(c) \ {s} : m.step[x] = n.step[x] /\ (x \in m.begun <=> x \in n.begun)
  <2>1. \A x \in StepsOf(c) \ {s} : k.step[x] = n.step[x]
    BY <1>2 DEF StepsOf
  <2> QED
    BY <1>2, <1>4, <2>1 DEF Executed
<1>9. /\ s \in m.begun /\ m.step[s].role = n.step[s].role
      /\ m.step[s].qual = "DO" /\ m.step[s].entry = "OFF"
      /\ m.chart[c].ws = WorkingAt(n, c, s) /\ m.step[s].phase = "EXITTRANS"
  <2>1. k.step[s] \in Step
    BY <1>1, <1>3 DEF Ready, Nets
  <2> QED
    BY <1>2, <1>4, <2>1 DEF Executed, Step
<1>10. \A d \in SubCharts \ {c} :
         d # Executes[s]["entry"] /\ d # Executes[s]["do"] => Same(n, m, d)
  <2> SUFFICES ASSUME NEW d \in SubCharts \ {c}, d # Executes[s]["entry"], d # Executes[s]["do"]
               PROVE  Same(n, m, d)
    OBVIOUS
  <2>1. Same(n, k, d)
    BY <1>3 DEF Others, SubCharts
  <2>2. Same(k, m, d)
    BY <1>4 DEF Executed
  <2> QED
    BY <2>1, <2>2, SameTrans
<1>11. Entered(n, m, c, s)
  BY <1>5, <1>6, <1>7, <1>8, <1>9, <1>10 DEF Entered
<1> QED
  BY <1>11 DEF k, m

----------------------------------------------------------------------------
(* Whose do actions run the sub-charts that may be active: those of O.     *)
OwnedBy(n, O) ==
  \A d \in SubCharts : Ended(n, d) \/ \E o \in O : Executes[o]["do"] = d

ModesOn(n) == \A d \in SubCharts : n.chart[d].mode = "ON"

(* The sub-charts of the do actions of s have been stopped.                *)
Halted(n, m, c, s) ==
  /\ Ready(m, c) /\ Apart(n, m, c) /\ m.result = n.result /\ Same(n, m, c)
  /\ c = MainChart /\ ModesOn(n) /\ OwnedBy(n, {s}) => OwnedBy(m, {})

(* The sub-charts of the do actions stop, and the others are not touched.  *)
LEMMA StopSubChartsRight ==
  ASSUME NEW run, NEW n, NEW c \in Charts, NEW s \in StepsOf(c),
         Ready(n, c), c = MainChart => RunOK(run)
  PROVE  Halted(n, StopSubCharts(run, n, s), c, s)
<1> DEFINE d == Executes[s]["do"]
           r == [n.chart[d] EXCEPT !.en = "STOP"]
           k == SetChart(n, d, r)
           m == run[d][k]
<1>1. "do" \in Qualifiers /\ n \in Nets /\ Cycling(n)
  BY DEF Qualifiers, Ready
<1>2. CASE d = NoChart
  <2>1. Others(n, n, c) /\ Same(n, n, c)
    BY DEF Others, Same
  <2>2. Apart(n, n, c)
    BY <2>1, OthersApart
  <2>3. OwnedBy(n, {s}) => OwnedBy(n, {})
    BY <1>2, ChartAssumption DEF OwnedBy, SubCharts
  <2>4. Halted(n, n, c, s)
    BY <2>1, <2>2, <2>3 DEF Halted
  <2> QED
    BY <1>2, <2>4 DEF StopSubCharts
<1>3. CASE d # NoChart
  <2>1. d \in SubCharts /\ c = MainChart
    BY <1>1, <1>3, ChartAssumption DEF StepsOf
  <2>2. d \in Charts /\ n.chart[d] \in Chart /\ SubSound(n, d)
    BY <1>1, <2>1 DEF Ready, Nets, SubCharts
  <2>3. /\ r \in Chart /\ r.en = "STOP" /\ r.ws = n.chart[d].ws /\ r.mode = n.chart[d].mode
        /\ r.phase = n.chart[d].phase /\ r.active = n.chart[d].active
    BY <2>2 DEF Chart, Commands
  <2>4. StopSubCharts(run, n, s) = m
    BY <1>3, <1>1, <2>2 DEF StopSubCharts, SetChart, Nets, Chart
  <2> HIDE DEF r
  <2>5. /\ k \in Nets /\ k.chart[d] = r /\ k.step = n.step /\ k.begun = n.begun
        /\ k.trace = n.trace /\ Local(n, k, d)
    <3> HIDE DEF d
    <3> QED
      BY <1>1, <2>2, <2>3, SetChartFacts, SetChartLocal
  <2> HIDE DEF k, d
  <2>6. SubSound(k, d) /\ Cycling(k)
    <3>1. Settled(k, d)
      BY <2>2, <2>3, <2>5 DEF SubSound, Settled
    <3>2. SubRight(k, d)
      BY <2>2, <2>3, <2>5 DEF SubSound, SubRight
    <3>3. Cycling(k)
      BY <1>1, <2>5 DEF Cycling
    <3> QED
      BY <3>1, <3>2, <3>3 DEF SubSound
  <2>7. RunRight(k, m, d)
    BY <2>1, <2>5, <2>6 DEF RunOK
  <2> HIDE DEF m
  <2>8. \A x \in Charts \ {d} : Same(n, m, x)
    BY <2>5, <2>7, SameTrans DEF RunRight, Local, Others
  <2>9. m.result = n.result /\ m \in Nets /\ Cycling(m) /\ SubSound(m, d)
    BY <2>5, <2>7 DEF RunRight, Local
  <2>10. Roles(n, m, d)
    BY <2>5, <2>7 DEF RunRight, Roles
  <2>11. Same(n, m, c)
    BY <2>1, <2>8 DEF SubCharts
  <2>12. n.chart[d].mode = "ON" => m.chart[d].mode = "ON"
    BY <2>3, <2>5, <2>7 DEF RunRight
  <2>13. Apart(n, m, c)
    <3> SUFFICES ASSUME NEW e \in SubCharts
                 PROVE  Near(n, m, e)
      BY <2>1 DEF Apart
    <3>1. CASE e = d
      BY <3>1, <2>9, <2>10, <2>12 DEF Near
    <3>2. CASE e # d
      BY <3>2, <2>8, SameSound DEF SubCharts
    <3> QED
      BY <3>1, <3>2
  <2>14. Ready(m, c)
    BY <2>9, <2>13, ApartReady
  <2>15. ASSUME ModesOn(n), OwnedBy(n, {s})
         PROVE  OwnedBy(m, {})
    <3> SUFFICES ASSUME NEW e \in SubCharts
                 PROVE  Ended(m, e)
      BY DEF OwnedBy
    <3>1. CASE e = d
      <4>1. k.chart[d].en = "STOP" /\ k.chart[d].mode = "ON"
        BY <2>1, <2>3, <2>5, <2>15 DEF ModesOn
      <4> QED
        BY <3>1, <2>7, <4>1 DEF RunRight
    <3>2. CASE e # d
      <4>1. Ended(n, e)
        BY <2>15, <3>2 DEF OwnedBy, d
      <4>2. Same(n, m, e)
        BY <2>8, <3>2 DEF SubCharts
      <4> QED
        BY <4>1, <4>2, SameSound
    <3> QED
      BY <3>1, <3>2
  <2>16. Halted(n, m, c, s)
    BY <2>9, <2>11, <2>13, <2>14, <2>15 DEF Halted
  <2> QED
    BY <2>4, <2>16
<1> QED
  BY <1>2, <1>3

----------------------------------------------------------------------------
(* The transition that fires, and the step it leads to.                    *)
LEMMA NextStepRight ==
  ASSUME NEW r, NEW s \in Steps
  PROVE  \/ NextStep(r, s) = NoStep
         \/ NextStep(r, s) \in StepsOf(ChartOf[s]) \ {s}
<1> DEFINE T == Firing(r, s)
<1>1. Outgoing[s] \in Seq(Transitions)
  BY ChartAssumption
<1>2. T \subseteq DOMAIN Outgoing[s] /\ T \subseteq Nat
  BY <1>1 DEF Firing
<1>3. CASE T = {}
  BY <1>3 DEF NextStep
<1>4. CASE T # {}
  <2> HIDE DEF T
  <2>1. \E i \in T : \A j \in T : i <= j
    BY <1>2, <1>4, General!LeastElement
  <2>2. Fired(r, s) \in T
    BY <2>1, Zenon DEF Fired, T
  <2>3. /\ NextStep(r, s) = Target[Outgoing[s][Fired(r, s)]]
        /\ Fired(r, s) \in DOMAIN Outgoing[s]
    BY <1>2, <1>4, <2>2 DEF NextStep, T
  <2> DEFINE i == Fired(r, s)
  <2> HIDE DEF i
  <2>4. i \in DOMAIN Outgoing[s] /\ NextStep(r, s) = Target[Outgoing[s][i]]
    BY <2>3 DEF i
  <2> QED
    BY <2>4, ChartAssumption DEF StepsOf
<1> QED
  BY <1>3, <1>4

(* Task lists of one or two steps, with a step removed or appended.        *)
LEMMA RemoveFirstSame ==
  ASSUME NEW o, NEW e
  PROVE  RemoveFirst(o, e) = General!RemoveFirst(o, e)
BY DEF RemoveFirst, RemoveAt, SelectInSeq, Min, General!RemoveFirst, General!RemoveAt,
       General!SelectInSeq, General!Min

LEMMA OneUnlinked ==
  ASSUME NEW s \in Steps
  PROVE  RemoveFirst(<<s>>, s) = <<>>
<1> DEFINE o == <<s>>
           u == General!RemoveFirst(o, s)
<1>1. o \in Seq(Steps) /\ Len(o) = 1 /\ o[1] = s
  OBVIOUS
<1> HIDE DEF o
<1>2. General!Contains(o, s)
  BY <1>1 DEF General!Contains
<1>3. PICK i \in 1..Len(o) : o[i] = s /\ u = General!RemoveAt(o, i)
  BY <1>1, <1>2, General!RemoveFirstProperties
<1> HIDE DEF u
<1>4. u \in Seq(Steps) /\ Len(u) = Len(o) - 1
  BY <1>1, <1>3, General!RemoveAtProperties
<1>5. u = <<>>
  BY <1>1, <1>4
<1> QED
  BY <1>5, RemoveFirstSame DEF u, o

LEMMA OneAppended ==
  ASSUME NEW S, NEW s \in S, NEW x \in S
  PROVE  Append(<<s>>, x) = <<s, x>>
<1> DEFINE o == <<s>>
           u == Append(o, x)
<1>1. o \in Seq(S) /\ Len(o) = 1 /\ o[1] = s
  OBVIOUS
<1> HIDE DEF o
<1>2. /\ u \in Seq(S) /\ Len(u) = Len(o) + 1
      /\ \A i \in 1..Len(o) : u[i] = o[i]
      /\ u[Len(o) + 1] = x
  <2>1. o \in Seq(S)
    BY <1>1
  <2> QED
    BY <2>1
<1> HIDE DEF u
<1>3. u \in Seq(S) /\ Len(u) = 2 /\ u[1] = s /\ u[2] = x
  BY <1>1, <1>2
<1>4. u = <<s, x>>
  BY <1>3
<1> QED
  BY <1>4 DEF u, o

LEMMA Unlinking ==
  ASSUME NEW s \in Steps, NEW x \in Steps, x # s
  PROVE  /\ RemoveFirst(<<s, x>>, s) = <<x>>
         /\ RemoveFirst(<<s>>, x) = <<s>>
<1>1. <<s>> \in Seq(Steps) /\ <<s, x>> \in Seq(Steps)
  OBVIOUS
<1>3. RemoveFirst(<<s, x>>, s) = <<x>>
  <2> DEFINE o == <<s, x>>
             u == General!RemoveFirst(o, s)
  <2>1. o \in Seq(Steps) /\ Len(o) = 2 /\ o[1] = s /\ o[2] = x
    OBVIOUS
  <2> HIDE DEF o
  <2>2. General!Contains(o, s)
    BY <2>1 DEF General!Contains
  <2>3. PICK i \in 1..Len(o) : o[i] = s /\ u = General!RemoveAt(o, i)
    BY <2>1, <2>2, General!RemoveFirstProperties
  <2> HIDE DEF u
  <2>4. /\ u \in Seq(Steps) /\ Len(u) = Len(o) - 1
        /\ \A j \in 1..Len(o) - 1 : u[j] = IF j < i THEN o[j] ELSE o[j + 1]
    BY <2>1, <2>3, General!RemoveAtProperties
  <2>5. i = 1
    BY <2>1, <2>3
  <2>6. Len(u) = 1 /\ u[1] = x
    BY <2>1, <2>4, <2>5
  <2>7. u = <<x>>
    BY <2>4, <2>6
  <2> QED
    BY <2>7, RemoveFirstSame DEF u, o
<1>4. RemoveFirst(<<s>>, x) = <<s>>
  <2>1. ~General!Contains(<<s>>, x)
    BY DEF General!Contains
  <2> QED
    BY <1>1, <2>1, General!RemoveFirstProperties, RemoveFirstSame
<1> QED
  BY <1>3, <1>4

----------------------------------------------------------------------------
(* The steps of chart c but s are as after a reset.                        *)
Rested(n, c, s) ==
  \A x \in StepsOf(c) \ {s} :
    /\ x \notin n.begun /\ n.step[x].qual = "ENTRY"
    /\ n.step[x].X = FALSE /\ n.step[x].phase = "ENTRYDO"

(* Step s is about to be left, for step next if there is one.              *)
Leaving(n, c, s, next) ==
  /\ s \in n.begun /\ n.step[s].entry = "OFF" /\ Rested(n, c, s)
  /\ \/ next = NoStep /\ n.chart[c].active = <<s>> /\ n.chart[c].ws = "STOP"
     \/ next \in StepsOf(c) \ {s} /\ n.chart[c].active = <<s, next>>

(* The active step of a settled chart rests: no other one has begun.       *)
LEMMA SettledRested ==
  ASSUME NEW n \in Nets, NEW c \in Charts, NEW s \in StepsOf(c), Settled(n, c),
         n.chart[c].active = <<s>>
  PROVE  Rested(n, c, s)
<1> SUFFICES ASSUME NEW x \in StepsOf(c) \ {s}
             PROVE  /\ x \notin n.begun /\ n.step[x].qual = "ENTRY"
                    /\ n.step[x].X = FALSE /\ n.step[x].phase = "ENTRYDO"
  BY DEF Rested
<1>1. n.step[x] \in Step
  BY DEF Nets, StepsOf
<1>2. <<x>> # <<s>>
  OBVIOUS
<1>3. x \notin n.begun
  BY <1>2 DEF Settled
<1>4. n.step[x].qual # "DO" /\ ~n.step[x].X /\ n.step[x].phase # "EXITTRANS"
  BY <1>3 DEF Settled
<1> QED
  BY <1>1, <1>3, <1>4 DEF Step, WorkPhases

(* What comes from step s, for the step next or without one.               *)
LEMMA LinkNextRight ==
  ASSUME NEW n, NEW c \in Charts, NEW s \in StepsOf(c), NEW next,
         next = NoStep \/ next \in StepsOf(c) \ {s},
         Ready(n, c), Settled(n, c), n.chart[c].active = <<s>>, s \in n.begun
  PROVE  LET m == LinkNext(n, s, next)
         IN  /\ Local(n, m, c) /\ m.begun = n.begun /\ Roles(n, m, c)
             /\ Goes(n.chart[c], m.chart[c]) /\ Leaving(m, c, s, next)
             /\ next # NoStep => m.chart[c].ws = n.chart[c].ws
<1>1. n \in Nets /\ s \in Steps /\ ChartOf[s] = c /\ n.chart[c] \in Chart /\ NoStep \notin Steps
  BY ChartAssumption DEF Ready, Nets, StepsOf
<1>2. Rested(n, c, s) /\ n.step[s].entry = "OFF"
  BY <1>1, SettledRested DEF Settled
<1>3. CASE next = NoStep
  <2> DEFINE q == [n.chart[c] EXCEPT !.ws = "STOP"]
             m == SetChart(n, c, q)
  <2>1. q \in Chart /\ Goes(n.chart[c], q) /\ q.active = n.chart[c].active /\ q.ws = "STOP"
    BY <1>1 DEF Chart, Goes
  <2>2. m = LinkNext(n, s, next)
    BY <1>1, <1>3 DEF LinkNext, SetChart
  <2> HIDE DEF q
  <2>3. m \in Nets /\ m.chart[c] = q /\ m.step = n.step /\ m.begun = n.begun /\ Local(n, m, c)
    BY <1>1, <2>1, SetChartFacts, SetChartLocal
  <2> HIDE DEF m
  <2>4. Leaving(m, c, s, next)
    BY <1>2, <1>3, <2>1, <2>3 DEF Leaving, Rested
  <2>5. Roles(n, m, c)
    BY <2>3 DEF Roles
  <2> QED
    BY <1>3, <2>1, <2>2, <2>3, <2>4, <2>5
<1>4. CASE next \in StepsOf(c) \ {s}
  <2> DEFINE q == [n.chart[c] EXCEPT !.active = <<s, next>>]
             r == [n.step[next] EXCEPT !.mode = "ON", !.phase = "ENTRYDO", !.qual = "ENTRY"]
             k == SetChart(n, c, q)
             m == SetStep(k, next, r)
  <2>1. next \in Steps /\ next # NoStep /\ ChartOf[next] = c /\ n.step[next] \in Step
    BY <1>1, <1>4 DEF StepsOf, Nets
  <2>2. q \in Chart /\ Goes(n.chart[c], q) /\ q.active = <<s, next>> /\ q.ws = n.chart[c].ws
    <3>1. <<s, next>> \in Seq(Steps)
      BY <1>1, <2>1
    <3> QED
      BY <1>1, <3>1 DEF Chart, Goes
  <2>3. /\ r \in Step /\ r.role = n.step[next].role /\ r.qual = "ENTRY"
        /\ r.phase = "ENTRYDO" /\ r.X = n.step[next].X
    BY <2>1 DEF Step, WorkPhases
  <2>4. m = LinkNext(n, s, next)
    <3>1. RemoveFirst(<<s>>, next) = <<s>>
      BY <1>1, <1>4, <2>1, Unlinking
    <3>2. Append(RemoveFirst(n.chart[c].active, next), next) = <<s, next>>
      <4>1. RemoveFirst(n.chart[c].active, next) = <<s>>
        BY <3>1
      <4>2. Append(<<s>>, next) = <<s, next>>
        BY <1>1, <2>1, OneAppended
      <4> QED
        BY <4>1, <4>2
    <3> DEFINE l == Append(RemoveFirst(n.chart[c].active, next), next)
    <3>3. LinkNext(n, s, next) = [n EXCEPT !.chart[c].active = l, !.step[next] = r]
      BY <1>1, <2>1 DEF LinkNext, Nets
    <3> HIDE DEF l, r
    <3>4. l = <<s, next>>
      BY <3>2 DEF l
    <3>5. LinkNext(n, s, next) = [n EXCEPT !.chart[c].active = <<s, next>>, !.step[next] = r]
      BY <3>3, <3>4
    <3> QED
      BY <1>1, <2>1, <3>5 DEF SetStep, SetChart, Nets
  <2> HIDE DEF q, r
  <2>5. k \in Nets /\ k.chart[c] = q /\ k.step = n.step /\ k.begun = n.begun /\ Local(n, k, c)
    BY <1>1, <2>2, SetChartFacts, SetChartLocal
  <2> HIDE DEF k
  <2>6. /\ m \in Nets /\ m.step[next] = r /\ (\A x \in Steps \ {next} : m.step[x] = k.step[x])
        /\ m.chart = k.chart /\ m.begun = k.begun /\ Local(k, m, ChartOf[next])
    BY <2>1, <2>3, <2>5, SetStepFacts, SetStepLocal
  <2> HIDE DEF m
  <2>7. Local(n, m, c)
    BY <2>1, <2>5, <2>6, LocalTrans
  <2>8. \A x \in StepsOf(c) \ {next} : m.step[x] = n.step[x]
    BY <2>5, <2>6 DEF StepsOf
  <2>9. Roles(n, m, c)
    BY <2>3, <2>6, <2>8 DEF Roles
  <2>10. m.step[s] = n.step[s] /\ m.begun = n.begun /\ m.chart[c] = q
    BY <1>4, <2>5, <2>6, <2>8
  <2>11. Leaving(m, c, s, next)
    <3>1. Rested(m, c, s)
      BY <1>2, <1>4, <2>3, <2>6, <2>8, <2>10 DEF Rested
    <3> QED
      BY <1>2, <1>4, <2>2, <2>10, <3>1 DEF Leaving, Rested
  <2> QED
    BY <2>2, <2>4, <2>7, <2>9, <2>10, <2>11
<1> QED
  BY <1>3, <1>4

(* The step that is left goes, and has not begun any more.                 *)
LEMMA LeaveStepRight ==
  ASSUME NEW n \in Nets, NEW c \in Charts, NEW s \in StepsOf(c), NEW next,
         next = NoStep \/ next \in StepsOf(c) \ {s},
         n.chart[c].active = IF next = NoStep THEN <<s>> ELSE <<s, next>>
  PROVE  LET m == LeaveStep(n, s)
         IN  /\ Local(n, m, c) /\ m.begun = n.begun /\ Roles(n, m, c)
             /\ Goes(n.chart[c], m.chart[c])
             /\ m.chart[c].active = IF next = NoStep THEN <<>> ELSE <<next>>
             /\ m.chart[c].ws = n.chart[c].ws
             /\ \A x \in StepsOf(c) \ {s} : m.step[x] = n.step[x]
             /\ m.step[s].entry = n.step[s].entry /\ m.step[s].do = "OFF"
             /\ m.step[s].X = FALSE /\ m.step[s].qual = "ENTRY"
<1> DEFINE l == IF next = NoStep THEN <<>> ELSE <<next>>
           q == [n.chart[c] EXCEPT !.active = l]
           r == [n.step[s] EXCEPT !.do = "OFF", !.X = FALSE, !.qual = "ENTRY"]
           k == SetChart(n, c, q)
           m == SetStep(k, s, r)
<1>1. s \in Steps /\ ChartOf[s] = c /\ n.chart[c] \in Chart /\ n.step[s] \in Step /\ NoStep \notin Steps
  BY ChartAssumption DEF Nets, StepsOf
<1>2. l = RemoveFirst(n.chart[c].active, s) /\ l \in Seq(Steps)
  <2>1. CASE next = NoStep
    <3>1. RemoveFirst(<<s>>, s) = <<>>
      BY <1>1, OneUnlinked
    <3>2. <<>> \in Seq(Steps)
      OBVIOUS
    <3> QED
      BY <2>1, <3>1, <3>2
  <2>2. CASE next # NoStep
    <3>1. next \in Steps /\ next # s
      BY <2>2 DEF StepsOf
    <3>2. RemoveFirst(<<s, next>>, s) = <<next>>
      BY <1>1, <3>1, Unlinking
    <3>3. <<next>> \in Seq(Steps)
      BY <3>1
    <3> QED
      BY <2>2, <3>2, <3>3
  <2> QED
    BY <2>1, <2>2
<1>3. q \in Chart /\ Goes(n.chart[c], q) /\ q.active = l /\ q.ws = n.chart[c].ws
  <2> HIDE DEF l
  <2> QED
    BY <1>1, <1>2 DEF Chart, Goes
<1>4. /\ r \in Step /\ r.role = n.step[s].role /\ r.qual = "ENTRY" /\ r.entry = n.step[s].entry
      /\ r.do = "OFF" /\ r.X = FALSE
  BY <1>1 DEF Step, WorkPhases
<1>5. m = LeaveStep(n, s)
  <2> HIDE DEF l, r
  <2>1. Unlinked(n, c, s) = k
    BY <1>1, <1>2 DEF Unlinked, SetChart, Nets
  <2>2. k.step[s] = n.step[s]
    BY DEF SetChart, Nets
  <2> HIDE DEF k
  <2>3. LeaveStep(n, s) = [k EXCEPT !.step[s] = r]
    BY <1>1, <2>1, <2>2 DEF LeaveStep, r
  <2> QED
    BY <2>3 DEF SetStep
<1> HIDE DEF q, r, l
<1>6. k \in Nets /\ k.chart[c] = q /\ k.step = n.step /\ k.begun = n.begun /\ Local(n, k, c)
  BY <1>3, SetChartFacts, SetChartLocal
<1> HIDE DEF k
<1>7. /\ m \in Nets /\ m.step[s] = r /\ (\A x \in Steps \ {s} : m.step[x] = k.step[x])
      /\ m.chart = k.chart /\ m.begun = k.begun /\ Local(k, m, ChartOf[s])
  BY <1>1, <1>4, <1>6, SetStepFacts, SetStepLocal
<1> HIDE DEF m
<1>8. Local(n, m, c)
  BY <1>1, <1>6, <1>7, LocalTrans
<1>9. \A x \in StepsOf(c) \ {s} : m.step[x] = n.step[x]
  BY <1>6, <1>7 DEF StepsOf
<1>10. Roles(n, m, c)
  BY <1>4, <1>7, <1>9 DEF Roles
<1>11. m.chart[c] = q /\ m.step[s] = r /\ m.begun = n.begun
  BY <1>6, <1>7
<1> QED
  BY <1>3, <1>4, <1>5, <1>8, <1>9, <1>10, <1>11 DEF l

(* Chart c is at step next now, or without a step.                         *)
LeftFor(n, m, c, next) ==
  IF next = NoStep THEN m.chart[c].active = <<>> /\ m.chart[c].ws = "STOP"
  ELSE /\ m.chart[c].active = <<next>> /\ m.chart[c].ws = WorkingAt(n, c, next)
       /\ m.step[next].phase = "EXITTRANS"

(* Step s has been left; next is active now, if there is one.              *)
Left(n, m, c, s, next) ==
  /\ Ready(m, c) /\ Apart(n, m, c) /\ m.result = n.result /\ Roles(n, m, c)
  /\ Goes(n.chart[c], m.chart[c]) /\ Settled(m, c)
  /\ s \notin m.begun /\ m.step[s].entry = "OFF" /\ m.step[s].do = "OFF"
  /\ next # NoStep => next \in m.begun
  /\ LeftFor(n, m, c, next)
  /\ c = MainChart /\ OnlyDo /\ ModesOn(n) /\ OwnedBy(n, {s}) =>
       OwnedBy(m, IF next = NoStep THEN {} ELSE {next})

LEMMA EndedStays ==
  ASSUME NEW n, NEW m, NEW O, OwnedBy(n, O), \A d \in SubCharts : Same(n, m, d)
  PROVE  OwnedBy(m, O)
BY SameSound DEF OwnedBy

(* Phase 2 of the step method, with the next step.                         *)
LEMMA LeavesRight ==
  ASSUME NEW run, NEW n, NEW c \in Charts, NEW s \in StepsOf(c), NEW next,
         Ready(n, c), c = MainChart => RunOK(run), Leaving(n, c, s, next)
  PROVE  Left(n, Leaves(run, n, s, next), c, s, next)
<1> DEFINE k == StopSubCharts(run, n, s)
           l == Actions(run, k, s, "exit")
           u == LeaveStep(l, s)
           v == RunNext(run, u, next)
           r == [v.step[s] EXCEPT !.phase = "ENTRYDO"]
           m == SetStep(v, s, r)
<1>1. s \in Steps /\ ChartOf[s] = c /\ NoStep \notin Steps /\ "exit" \in Qualifiers
  BY ChartAssumption DEF StepsOf, Qualifiers
<1>2. Halted(n, k, c, s)
  BY StopSubChartsRight
<1> HIDE DEF k
<1>3. Ready(k, c) /\ s \in k.begun
  BY <1>2 DEF Halted, Leaving, Same
<1>4. Acted(k, l, c, s, "exit")
  BY <1>1, <1>3, ActionsRight
<1> HIDE DEF l
<1>5. /\ l.chart[c] = n.chart[c] /\ s \notin l.begun
      /\ \A x \in StepsOf(c) : l.step[x] = n.step[x]
      /\ \A x \in StepsOf(c) \ {s} : x \in l.begun <=> x \in n.begun
  BY <1>2, <1>4 DEF Halted, Acted, Same
<1>6. /\ l \in Nets /\ Ready(l, c) /\ Apart(n, l, c) /\ l.result = n.result
  BY <1>2, <1>4, ApartTrans DEF Halted, Acted, Ready
<1>7. Rested(l, c, s) /\ l.step[s].entry = "OFF"
  BY <1>5 DEF Leaving, Rested
<1>8. /\ next = NoStep \/ next \in StepsOf(c) \ {s}
      /\ l.chart[c].active = IF next = NoStep THEN <<s>> ELSE <<s, next>>
  BY <1>1, <1>5 DEF Leaving, StepsOf
<1>9. /\ Local(l, u, c) /\ u.begun = l.begun /\ Roles(l, u, c)
      /\ Goes(l.chart[c], u.chart[c])
      /\ u.chart[c].active = IF next = NoStep THEN <<>> ELSE <<next>>
      /\ u.chart[c].ws = l.chart[c].ws
      /\ \A x \in StepsOf(c) \ {s} : u.step[x] = l.step[x]
      /\ u.step[s].entry = l.step[s].entry /\ u.step[s].do = "OFF"
      /\ u.step[s].X = FALSE /\ u.step[s].qual = "ENTRY"
  BY <1>6, <1>8, LeaveStepRight
<1> HIDE DEF u
<1>10. Ready(u, c) /\ Apart(l, u, c) /\ Others(l, u, c)
  BY <1>6, <1>9, LocalReady
<1>11. Rested(u, c, s)
  BY <1>7, <1>9 DEF Rested
<1>12. /\ Ready(v, c) /\ Apart(u, v, c) /\ v.result = u.result /\ Roles(u, v, c)
       /\ Goes(u.chart[c], v.chart[c]) /\ v.chart[c].active = u.chart[c].active
       /\ v.step[s] = u.step[s] /\ s \notin v.begun
       /\ \A x \in StepsOf(c) \ {s, next} : v.step[x] = u.step[x] /\ x \notin v.begun
       /\ next # NoStep => next \in v.begun /\ v.step[next].qual = "DO" /\ v.step[next].entry = "OFF"
       /\ next = NoStep => v = u
       /\ next # NoStep => v.chart[c].ws = WorkingAt(u, c, next) /\ v.step[next].phase = "EXITTRANS"
       /\ c = MainChart /\ OnlyDo /\ OwnedBy(u, {}) =>
            OwnedBy(v, IF next = NoStep THEN {} ELSE {next})
  <2>1. CASE next = NoStep
    <3>1. v = u
      BY <2>1 DEF RunNext
    <3> HIDE DEF v
    <3>2. Apart(u, u, c) /\ Roles(u, u, c) /\ Goes(u.chart[c], u.chart[c])
      <4>1. Others(u, u, c)
        BY DEF Others, Same
      <4> QED
        BY <4>1, OthersApart DEF Roles, Goes
    <3>3. s \notin u.begun /\ \A x \in StepsOf(c) \ {s, next} : x \notin u.begun
      BY <1>5, <1>9, <1>11 DEF Rested
    <3> QED
      BY <1>10, <2>1, <3>1, <3>2, <3>3
  <2>2. CASE next # NoStep
    <3>1. next \in StepsOf(c) \ {s}
      BY <1>8, <2>2
    <3>2. next \notin u.begun /\ u.step[next].qual = "ENTRY"
      BY <1>11, <3>1 DEF Rested
    <3>3. Entered(u, Parts(run, EntryDo(u, next), next), c, next)
      BY <1>10, <3>1, <3>2, EntryPartsRight
    <3>4. v = Parts(run, EntryDo(u, next), next)
      BY <2>2 DEF RunNext
    <3>5. Entered(u, v, c, next)
      BY <3>3, <3>4
    <3> HIDE DEF v
    <3>6. /\ v.step[s] = u.step[s] /\ s \notin v.begun
          /\ \A x \in StepsOf(c) \ {s, next} : v.step[x] = u.step[x] /\ x \notin v.begun
      BY <1>5, <1>9, <1>11, <3>1, <3>5 DEF Entered, Rested
    <3>7. Roles(u, v, c)
      BY <3>5 DEF Entered, Roles
    <3>8. ASSUME c = MainChart, OnlyDo, OwnedBy(u, {})
          PROVE  OwnedBy(v, {next})
      <4> SUFFICES ASSUME NEW d \in SubCharts, Executes[next]["do"] # d
                   PROVE  Ended(v, d)
        BY DEF OwnedBy
      <4>1. Executes[next]["entry"] = NoChart /\ d \in SubCharts \ {c} /\ d # NoChart
        BY <3>1, <3>8, ChartAssumption DEF OnlyDo, StepsOf, SubCharts
      <4>2. Same(u, v, d)
        BY <3>5, <4>1 DEF Entered
      <4>3. Ended(u, d)
        BY <3>8 DEF OwnedBy
      <4> QED
        BY <4>2, <4>3, SameSound
    <3> QED
      BY <2>2, <3>5, <3>6, <3>7, <3>8 DEF Entered
  <2> QED
    BY <2>1, <2>2
<1> HIDE DEF v
<1>13. v \in Nets /\ v.step[s] \in Step
  BY <1>1, <1>12 DEF Ready, Nets
<1>14. m = Leaves(run, n, s, next)
  BY <1>1, <1>13 DEF Leaves, k, l, u, v, SetStep, Nets
<1>15. /\ r \in Step /\ r.phase = "ENTRYDO" /\ r.role = v.step[s].role /\ r.X = v.step[s].X
       /\ r.qual = v.step[s].qual /\ r.entry = v.step[s].entry /\ r.do = v.step[s].do
  BY <1>13 DEF Step, WorkPhases
<1> HIDE DEF r
<1>16. /\ m \in Nets /\ m.step[s] = r /\ (\A x \in Steps \ {s} : m.step[x] = v.step[x])
       /\ m.chart = v.chart /\ m.begun = v.begun /\ Local(v, m, ChartOf[s])
  BY <1>1, <1>13, <1>15, SetStepFacts, SetStepLocal
<1> HIDE DEF m
<1>17. Ready(m, c) /\ Apart(v, m, c) /\ Others(v, m, c)
  <2>1. Local(v, m, c)
    BY <1>1, <1>16
  <2> QED
    BY <1>12, <2>1, LocalReady
<1>18. \A x \in StepsOf(c) \ {s} : m.step[x] = v.step[x]
  BY <1>16 DEF StepsOf
<1>19. Apart(n, m, c)
  BY <1>6, <1>10, <1>12, <1>17, ApartTrans
<1>20. m.result = n.result
  BY <1>1, <1>6, <1>9, <1>12, <1>16 DEF Local
<1>21. Roles(n, m, c)
  <2>1. Roles(v, m, c)
    BY <1>15, <1>16, <1>18 DEF Roles
  <2>2. Roles(n, l, c)
    BY <1>5 DEF Roles
  <2> QED
    BY <1>9, <1>12, <2>1, <2>2 DEF Roles
<1>22. Goes(n.chart[c], m.chart[c])
  BY <1>5, <1>9, <1>12, <1>16, GoesTrans
<1>23. s \notin m.begun /\ m.step[s].entry = "OFF" /\ m.step[s].do = "OFF"
  BY <1>7, <1>9, <1>12, <1>15, <1>16
<1>24. Settled(m, c)
  <2>1. m.chart[c].active = IF next = NoStep THEN <<>> ELSE <<next>>
    BY <1>9, <1>12, <1>16
  <2>2. m.chart[c].active = <<>> \/ \E a \in StepsOf(c) : m.chart[c].active = <<a>>
    BY <1>8, <2>1
  <2> SUFFICES ASSUME NEW x \in StepsOf(c)
               PROVE  /\ x \in m.begun <=> m.step[x].qual = "DO"
                      /\ x \in m.begun => m.chart[c].active = <<x>> /\ m.step[x].entry = "OFF"
                      /\ m.step[x].X => x \in m.begun
                      /\ m.step[x].phase = "EXITTRANS" => x \in m.begun
    BY <2>2 DEF Settled
  <2>3. CASE x = s
    BY <2>3, <1>9, <1>12, <1>15, <1>16, <1>23
  <2>4. CASE x # s /\ x = next
    <3>1. next # NoStep
      BY <1>1, <2>4 DEF StepsOf
    <3> QED
      BY <2>1, <2>4, <3>1, <1>12, <1>16, <1>18
  <2>5. CASE x # s /\ x # next
    BY <2>5, <1>11, <1>12, <1>16, <1>18 DEF Rested
  <2> QED
    BY <2>3, <2>4, <2>5
<1>25. ASSUME c = MainChart, OnlyDo, ModesOn(n), OwnedBy(n, {s})
       PROVE  OwnedBy(m, IF next = NoStep THEN {} ELSE {next})
  <2>1. OwnedBy(k, {})
    BY <1>2, <1>25 DEF Halted
  <2>2. \A d \in SubCharts : Same(k, l, d)
    BY <1>1, <1>4, <1>25, ChartAssumption DEF Acted, OnlyDo, SubCharts
  <2>3. OwnedBy(l, {})
    BY <2>1, <2>2, EndedStays
  <2>4. OwnedBy(u, {})
    BY <2>3, <1>10, <1>25, EndedStays DEF Others, SubCharts
  <2>5. OwnedBy(v, IF next = NoStep THEN {} ELSE {next})
    BY <1>12, <1>25, <2>4
  <2> QED
    BY <2>5, <1>17, <1>25, EndedStays DEF Others, SubCharts
<1>26. LeftFor(n, m, c, next)
  <2>1. m.chart[c].active = IF next = NoStep THEN <<>> ELSE <<next>>
    BY <1>9, <1>12, <1>16
  <2>2. CASE next = NoStep
    BY <1>1, <1>5, <1>9, <1>12, <1>16, <2>1, <2>2 DEF LeftFor, Leaving, StepsOf
  <2>3. CASE next # NoStep
    <3>1. next \in StepsOf(c) \ {s}
      BY <1>8, <2>3
    <3>2. u.step[next].role = n.step[next].role
      BY <1>5, <1>9, <3>1
    <3>3. WorkingAt(u, c, next) = WorkingAt(n, c, next)
      BY <1>5, <1>9, <3>2 DEF WorkingAt
    <3>4. m.step[next].phase = "EXITTRANS"
      BY <1>12, <1>18, <2>3, <3>1
    <3> QED
      BY <1>12, <1>16, <2>1, <2>3, <3>3, <3>4 DEF LeftFor
  <2> QED
    BY <2>2, <2>3
<1>27. Left(n, m, c, s, next)
  BY <1>12, <1>16, <1>17, <1>19, <1>20, <1>21, <1>22, <1>23, <1>24, <1>25, <1>26 DEF Left
<1> QED
  BY <1>14, <1>27

----------------------------------------------------------------------------
(* The active step s has been executed, or left.                           *)
Moved(n, m, c, s) ==
  /\ Ready(m, c) /\ Apart(n, m, c) /\ m.result = n.result /\ Roles(n, m, c)
  /\ Goes(n.chart[c], m.chart[c])

(* The step method keeps the step s of chart c active.                     *)
Keeps(n, c, s) ==
  n.step[s].phase = "ENTRYDO" \/ (Firing(n.result, s) = {} /\ n.chart[c].ws # "STOP")

(* The step method.                                                        *)
LEMMA StepMethodRight ==
  ASSUME NEW run, NEW n, NEW c \in Charts, NEW s \in StepsOf(c),
         Ready(n, c), c = MainChart => RunOK(run),
         Settled(n, c), n.chart[c].active = <<s>>
  PROVE  LET m == StepMethod(run, n, s)
             next == NextStep(n.result, s)
         IN  /\ Moved(n, m, c, s)
             /\ Keeps(n, c, s) => m = EntryDo(n, s)
             /\ ~Keeps(n, c, s) => Left(n, m, c, s, next)
<1> DEFINE next == NextStep(n.result, s)
           fires == Firing(n.result, s) # {}
           m == StepMethod(run, n, s)
<1>1. n \in Nets /\ s \in Steps /\ ChartOf[s] = c /\ n.step[s] \in Step /\ NoStep \notin Steps
  BY ChartAssumption DEF Ready, Nets, StepsOf
<1>2. CASE n.step[s].phase = "ENTRYDO" \/ (~fires /\ n.chart[c].ws # "STOP")
  <2>1. m = EntryDo(n, s)
    BY <1>1, <1>2 DEF StepMethod
  <2>2. /\ Local(n, m, c) /\ Goes(n.chart[c], m.chart[c])
        /\ \A x \in Steps \ {s} : m.step[x] = n.step[x]
        /\ m.step[s].role = n.step[s].role
    BY <1>1, <2>1, EntryDoFacts
  <2> HIDE DEF m
  <2>3. Ready(m, c) /\ Apart(n, m, c) /\ m.result = n.result
    BY <2>2, LocalReady DEF Local
  <2>4. Roles(n, m, c)
    BY <2>2 DEF Roles, StepsOf
  <2>5. Moved(n, m, c, s)
    BY <2>2, <2>3, <2>4 DEF Moved
  <2>6. Keeps(n, c, s)
    BY <1>2 DEF Keeps
  <2> QED
    BY <2>1, <2>5, <2>6 DEF m
<1>3. CASE ~(n.step[s].phase = "ENTRYDO" \/ (~fires /\ n.chart[c].ws # "STOP"))
  <2> DEFINE k == IF fires THEN LinkNext(n, s, next) ELSE n
  <2>1. m = Leaves(run, k, s, next)
    BY <1>1, <1>3 DEF StepMethod
  <2>2. s \in n.begun
    <3>1. n.step[s].phase = "EXITTRANS"
      BY <1>1, <1>3 DEF Step, WorkPhases
    <3> QED
      BY <3>1 DEF Settled
  <2>3. next = NoStep \/ next \in StepsOf(c) \ {s}
    BY <1>1, NextStepRight
  <2>4. (~fires => next = NoStep) /\ (~fires => n.chart[c].ws = "STOP") /\ ~Keeps(n, c, s)
    BY <1>3 DEF NextStep, Keeps
  <2> HIDE DEF m, next, fires
  <2>5. /\ Local(n, k, c) /\ k.begun = n.begun /\ Roles(n, k, c)
        /\ Goes(n.chart[c], k.chart[c]) /\ Leaving(k, c, s, next)
        /\ next # NoStep => k.chart[c].ws = n.chart[c].ws
    <3>1. CASE fires
      BY <2>2, <2>3, <3>1, LinkNextRight
    <3>2. CASE ~fires
      <4>1. k = n /\ next = NoStep
        BY <2>4, <3>2
      <4>2. Rested(n, c, s)
        BY <1>1, SettledRested
      <4>3. Leaving(n, c, s, next)
        BY <2>2, <2>4, <3>2, <4>1, <4>2 DEF Leaving, Settled
      <4>4. Local(n, n, c) /\ Roles(n, n, c) /\ Goes(n.chart[c], n.chart[c])
        BY <1>1 DEF Local, Others, Same, Roles, Goes
      <4> QED
        BY <4>1, <4>3, <4>4
    <3> QED
      BY <3>1, <3>2
  <2> HIDE DEF k
  <2>6. Ready(k, c) /\ Apart(n, k, c) /\ Others(n, k, c)
    BY <2>5, LocalReady
  <2>7. Left(k, Leaves(run, k, s, next), c, s, next)
    BY <2>5, <2>6, LeavesRight
  <2>8. Left(k, m, c, s, next)
    BY <2>1, <2>7
  <2>9. Apart(n, m, c)
    BY <2>6, <2>8, ApartTrans DEF Left
  <2>10. Goes(n.chart[c], m.chart[c]) /\ Roles(n, m, c) /\ m.result = n.result
    BY <2>5, <2>8, GoesTrans DEF Left, Roles, Local
  <2>11. ASSUME c = MainChart, OnlyDo, ModesOn(n), OwnedBy(n, {s})
         PROVE  OwnedBy(m, IF next = NoStep THEN {} ELSE {next})
    <3>1. \A d \in SubCharts : Same(n, k, d)
      BY <2>6, <2>11 DEF Others, SubCharts
    <3>2. ModesOn(k) /\ OwnedBy(k, {s})
      BY <2>11, <3>1, EndedStays DEF ModesOn, Same
    <3> QED
      BY <2>8, <2>11, <3>2 DEF Left
  <2>12. LeftFor(n, m, c, next)
    <3>1. LeftFor(k, m, c, next)
      BY <2>8 DEF Left
    <3>2. next # NoStep => WorkingAt(k, c, next) = WorkingAt(n, c, next)
      BY <2>3, <2>5 DEF WorkingAt, Roles
    <3> QED
      BY <3>1, <3>2 DEF LeftFor
  <2>13. Left(n, m, c, s, next)
    BY <2>8, <2>9, <2>10, <2>11, <2>12 DEF Left
  <2>14. Moved(n, m, c, s)
    BY <2>8, <2>9, <2>10 DEF Left, Moved
  <2> QED
    BY <2>4, <2>13, <2>14 DEF m, next
<1> QED
  BY <1>2, <1>3

----------------------------------------------------------------------------
(* Only the active step of the main chart can own.                         *)
LEMMA OwnerActive ==
  ASSUME NEW n, NEW s \in StepsOf(MainChart), n \in Nets, Settled(n, MainChart),
         n.chart[MainChart].active = <<s>>, OwnedBy(n, n.begun)
  PROVE  OwnedBy(n, {s})
<1> SUFFICES ASSUME NEW d \in SubCharts, NEW o \in n.begun, Executes[o]["do"] = d
             PROVE  Executes[s]["do"] = d
  BY DEF OwnedBy
<1>1. o \in Steps /\ "do" \in Qualifiers /\ d # NoChart
  BY ChartAssumption DEF Nets, Qualifiers, SubCharts
<1>2. o \in StepsOf(MainChart)
  BY <1>1, ChartAssumption DEF StepsOf
<1>3. <<o>> = <<s>>
  BY <1>2 DEF Settled
<1>4. o = s
  BY <1>3
<1> QED
  BY <1>4

LEMMA PartsOff ==
  ASSUME NEW run, NEW n, NEW s, n.step[s].entry = "OFF", n.step[s].do = "OFF"
  PROVE  Parts(run, n, s) = n
BY DEF Parts, EntryTask, DoTask

(* What the execution of its task list does to chart c.                    *)
Worked(n, m, c) ==
  /\ Ready(m, c) /\ Apart(n, m, c) /\ m.result = n.result /\ Roles(n, m, c)
  /\ Goes(n.chart[c], m.chart[c]) /\ Settled(m, c)
  /\ c = MainChart /\ OnlyDo /\ ModesOn(n) /\ OwnedBy(n, n.begun) => OwnedBy(m, m.begun)

(* Where chart c is when its active step s has been executed.              *)
WentOn(n, m, c, s) ==
  IF Keeps(n, c, s)
  THEN /\ m.chart[c].active = <<s>> /\ m.chart[c].ws = WorkingAt(n, c, s)
       /\ m.step[s].phase = "EXITTRANS"
  ELSE LeftFor(n, m, c, NextStep(n.result, s))

(* The active step is executed: either it stays, or the next one has been  *)
(* entered.                                                                *)
LEMMA ExecStepRight ==
  ASSUME NEW run, NEW n, NEW c \in Charts, NEW s \in StepsOf(c),
         Ready(n, c), c = MainChart => RunOK(run),
         Settled(n, c), n.chart[c].active = <<s>>
  PROVE  /\ Worked(n, ExecStep(run, n, s), c)
         /\ n.step[s].mode # "OFF" => WentOn(n, ExecStep(run, n, s), c, s)
<1> DEFINE k == StepMethod(run, n, s)
           next == NextStep(n.result, s)
           m == Parts(run, k, s)
<1>1. n \in Nets /\ s \in Steps /\ ChartOf[s] = c /\ NoStep \notin Steps
  BY ChartAssumption DEF Ready, Nets, StepsOf
<1>2. CASE n.step[s].mode = "OFF"
  <2>1. Apart(n, n, c) /\ Roles(n, n, c) /\ Goes(n.chart[c], n.chart[c])
    <3>1. Others(n, n, c)
      BY DEF Others, Same
    <3> QED
      BY <3>1, OthersApart DEF Roles, Goes
  <2>2. Worked(n, n, c)
    BY <2>1 DEF Worked
  <2> QED
    BY <1>2, <2>2 DEF ExecStep
<1>3. CASE n.step[s].mode # "OFF"
  <2>1. ExecStep(run, n, s) = m
    BY <1>3 DEF ExecStep
  <2>2. /\ Keeps(n, c, s) => k = EntryDo(n, s)
        /\ ~Keeps(n, c, s) => Left(n, k, c, s, next)
    BY StepMethodRight
  <2>3. CASE Keeps(n, c, s)
    <3>1. (s \in n.begun <=> n.step[s].qual = "DO") /\ (s \in n.begun => n.step[s].entry = "OFF")
      BY DEF Settled
    <3>2. Entered(n, Parts(run, EntryDo(n, s), s), c, s)
      BY <3>1, EntryPartsRight
    <3>3. Entered(n, m, c, s)
      BY <2>2, <2>3, <3>2
    <3>4. Rested(n, c, s)
      BY <1>1, SettledRested
    <3> HIDE DEF m
    <3>5. Roles(n, m, c)
      BY <3>3 DEF Entered, Roles
    <3>6. Settled(m, c)
      BY <3>3, <3>4 DEF Entered, Rested, Settled
    <3>7. ASSUME c = MainChart, OnlyDo, OwnedBy(n, n.begun)
          PROVE  OwnedBy(m, m.begun)
      <4>1. OwnedBy(n, {s})
        BY <1>1, <3>7, OwnerActive
      <4> SUFFICES ASSUME NEW d \in SubCharts, ~Ended(m, d)
                   PROVE  \E o \in m.begun : Executes[o]["do"] = d
        BY DEF OwnedBy
      <4>2. Executes[s]["do"] = d
        <5> SUFFICES ASSUME Executes[s]["do"] # d
                     PROVE  Ended(m, d)
          OBVIOUS
        <5>1. Executes[s]["entry"] = NoChart /\ d \in SubCharts \ {c} /\ d # NoChart
          BY <1>1, <3>7, ChartAssumption DEF OnlyDo, SubCharts
        <5>2. Same(n, m, d)
          BY <3>3, <5>1 DEF Entered
        <5>3. Ended(n, d)
          BY <4>1 DEF OwnedBy
        <5> QED
          BY <5>2, <5>3, SameSound
      <4>3. s \in m.begun
        BY <3>3 DEF Entered
      <4> QED
        BY <4>2, <4>3
    <3>8. Worked(n, m, c)
      BY <3>3, <3>5, <3>6, <3>7 DEF Entered, Worked
    <3>9. WentOn(n, m, c, s)
      BY <2>3, <3>3 DEF Entered, WentOn
    <3> QED
      BY <2>1, <3>8, <3>9
  <2>4. CASE ~Keeps(n, c, s)
    <3>0. Left(n, k, c, s, next)
      BY <2>2, <2>4
    <3>1. m = k
      BY <3>0, PartsOff DEF Left
    <3>4. WentOn(n, k, c, s)
      BY <2>4, <3>0 DEF Left, WentOn
    <3> HIDE DEF k, m, next
    <3>2. ASSUME c = MainChart, OnlyDo, ModesOn(n), OwnedBy(n, n.begun)
          PROVE  OwnedBy(k, k.begun)
      <4>1. OwnedBy(n, {s})
        BY <1>1, <3>2, OwnerActive
      <4>2. OwnedBy(k, IF next = NoStep THEN {} ELSE {next})
        BY <3>0, <3>2, <4>1 DEF Left
      <4>3. next # NoStep => next \in k.begun
        BY <3>0 DEF Left
      <4> QED
        BY <4>2, <4>3 DEF OwnedBy
    <3>3. Worked(n, k, c)
      BY <3>0, <3>2 DEF Left, Worked
    <3> QED
      BY <2>1, <3>1, <3>3, <3>4
  <2> QED
    BY <2>3, <2>4
<1> QED
  BY <1>2, <1>3

(* The task list of chart c, which is empty or has one step.               *)
LEMMA ExecActiveRight ==
  ASSUME NEW run, NEW n, NEW c \in Charts,
         Ready(n, c), c = MainChart => RunOK(run), Settled(n, c)
  PROVE  /\ Worked(n, ExecActive(run, c)[n], c)
         /\ (\A s \in StepsOf(c) : n.chart[c].active = <<s>> => n.step[s].mode = "OFF")
              => ExecActive(run, c)[n] = n
         /\ \A s \in StepsOf(c) :
              n.chart[c].active = <<s>> /\ n.step[s].mode # "OFF"
                => WentOn(n, ExecActive(run, c)[n], c, s)
<1>0. n \in Nets
  BY DEF Ready
<1>1. CASE n.chart[c].active = <<>>
  <2>1. ExecActive(run, c)[n] = n
    BY <1>0, <1>1 DEF ExecActive
  <2>2. Apart(n, n, c) /\ Roles(n, n, c) /\ Goes(n.chart[c], n.chart[c])
    <3>1. Others(n, n, c)
      BY DEF Others, Same
    <3> QED
      BY <3>1, OthersApart DEF Roles, Goes
  <2>3. Worked(n, n, c)
    BY <2>2 DEF Worked
  <2>4. \A s \in StepsOf(c) : n.chart[c].active # <<s>>
    BY <1>1
  <2> QED
    BY <2>1, <2>3, <2>4
<1>2. ASSUME NEW s \in StepsOf(c), n.chart[c].active = <<s>>
      PROVE  /\ Worked(n, ExecActive(run, c)[n], c)
             /\ n.step[s].mode = "OFF" => ExecActive(run, c)[n] = n
             /\ n.step[s].mode # "OFF" => WentOn(n, ExecActive(run, c)[n], c, s)
  <2>1. <<s>> # <<>> /\ Head(<<s>>) = s
    OBVIOUS
  <2>2. ExecActive(run, c)[n] = ExecStep(run, n, s)
    BY <1>0, <1>2, <2>1 DEF ExecActive, ActiveStep
  <2>3. n.step[s].mode = "OFF" => ExecStep(run, n, s) = n
    BY DEF ExecStep
  <2>4. /\ Worked(n, ExecStep(run, n, s), c)
        /\ n.step[s].mode # "OFF" => WentOn(n, ExecStep(run, n, s), c, s)
    BY <1>2, ExecStepRight
  <2> QED
    BY <2>2, <2>3, <2>4
<1> QED
  BY <1>1, <1>2 DEF Settled

----------------------------------------------------------------------------
(* Resets.                                                                 *)
LEMMA StartedStep ==
  ASSUME NEW n, NEW d \in Charts
  PROVE  /\ Started(n, d) \in Seq(Steps)
         /\ Started(n, d) = <<>> \/ \E a \in StepsOf(d) : Started(n, d) = <<a>>
<1>1. CASE StartSteps(n, d) = {}
  BY <1>1 DEF Started
<1>2. CASE StartSteps(n, d) # {}
  <2> DEFINE a == CHOOSE s \in StartSteps(n, d) : TRUE
  <2>1. a \in StartSteps(n, d)
    BY <1>2, Zenon
  <2>2. Started(n, d) = <<a>>
    BY <1>2 DEF Started
  <2> HIDE DEF a
  <2>3. a \in StepsOf(d) /\ a \in Steps
    BY <2>1 DEF StartSteps, StepsOf
  <2> QED
    BY <2>2, <2>3
<1> QED
  BY <1>1, <1>2

LEMMA ResetStepRight ==
  ASSUME NEW r \in Step
  PROVE  /\ ResetStep(r) \in Step /\ ResetStep(r).role = r.role
         /\ ResetStep(r).mode = "OFF" /\ ResetStep(r).X = FALSE
         /\ ResetStep(r).phase = "ENTRYDO" /\ ResetStep(r).qual = "ENTRY"
BY DEF ResetStep, Step, WorkPhases

LEMMA ResetChartRight ==
  ASSUME NEW n \in Nets, NEW d \in Charts, NEW c \in Charts
  PROVE  LET q == ResetChart(n, d, c)
             r == n.chart[d]
         IN  /\ q \in Chart /\ q.active = Started(n, d)
             /\ q.ws = r.ws /\ q.phase = r.phase /\ q.qual = r.qual
             /\ d = c => q.en = r.en /\ q.mode = r.mode
             /\ d # c => q.en = "STOP" /\ q.mode = "ON"
<1> DEFINE a == Started(n, d)
           e == StartSteps(n, d) = {}
<1>1. a \in Seq(Steps) /\ e \in BOOLEAN /\ n.chart[d] \in Chart
  BY StartedStep DEF Nets
<1>2. ResetChart(n, d, c) =
        [n.chart[d] EXCEPT !.active = a, !.error = n.chart[d].error \/ e,
                           !.mode = IF d = c THEN n.chart[d].mode ELSE "ON",
                           !.en = IF d = c THEN n.chart[d].en ELSE "STOP"]
  BY <1>1 DEF ResetChart, Chart
<1> HIDE DEF a, e
<1>3. CASE d = c
  BY <1>1, <1>2, <1>3 DEF Chart, Commands, a
<1>4. CASE d # c
  BY <1>1, <1>2, <1>4 DEF Chart, Commands, a
<1> QED
  BY <1>3, <1>4

(* The steps of d as after a reset.                                        *)
Off(m, d) ==
  \A s \in StepsOf(d) : s \notin m.begun /\ m.step[s].mode = "OFF" /\ m.step[s].phase = "ENTRYDO"

(* A chart that is reset is settled, with all steps off; one that is not   *)
(* reset is as before.                                                     *)
LEMMA ResetRight ==
  ASSUME NEW n \in Nets, NEW c \in Charts
  PROVE  LET m == ResetSsc(n, c)
         IN  /\ m \in Nets /\ m.trace = n.trace /\ m.result = n.result
             /\ m.begun \subseteq n.begun
             /\ \A x \in Charts : Roles(n, m, x)
             /\ \A d \in Reset(n, c) : Settled(m, d) /\ Off(m, d) /\ m.chart[d] = ResetChart(n, d, c)
             /\ \A x \in Charts \ Reset(n, c) : Same(n, m, x)
<1> DEFINE b == {s \in n.begun : ChartOf[s] \notin Reset(n, c)}
           f == [s \in Steps |-> IF ChartOf[s] \in Reset(n, c) THEN ResetStep(n.step[s]) ELSE n.step[s]]
           g == [d \in Charts |-> IF d \in Reset(n, c) THEN ResetChart(n, d, c) ELSE n.chart[d]]
           m == ResetSsc(n, c)
<1>1. n.begun \subseteq Steps /\ Reset(n, c) \subseteq Charts
  BY DEF Nets, Reset
<1>2. f \in [Steps -> Step]
  BY ResetStepRight DEF Nets
<1>3. g \in [Charts -> Chart]
  BY ResetChartRight DEF Nets
<1>4. b \subseteq Steps /\ b \subseteq n.begun
  BY <1>1
<1>5. m = [n EXCEPT !.begun = b, !.step = f, !.chart = g]
  BY DEF ResetSsc
<1>6. \A s \in Steps : s \in b <=> s \in n.begun /\ ChartOf[s] \notin Reset(n, c)
  OBVIOUS
<1>7. \A s \in Steps : /\ ChartOf[s] \in Reset(n, c) => f[s] = ResetStep(n.step[s])
                       /\ ChartOf[s] \notin Reset(n, c) => f[s] = n.step[s]
  OBVIOUS
<1>8. \A d \in Charts : /\ d \in Reset(n, c) => g[d] = ResetChart(n, d, c)
                        /\ d \notin Reset(n, c) => g[d] = n.chart[d]
  OBVIOUS
<1> HIDE DEF b, f, g, m
<1>9. /\ m \in Nets /\ m.trace = n.trace /\ m.result = n.result
      /\ m.begun = b /\ m.step = f /\ m.chart = g
  BY <1>2, <1>3, <1>4, <1>5 DEF Nets
<1>10. \A s \in Steps : n.step[s] \in Step
  BY DEF Nets
<1>11. \A x \in Charts : Roles(n, m, x)
  <2> SUFFICES ASSUME NEW s \in Steps
               PROVE  m.step[s].role = n.step[s].role
    BY DEF Roles, StepsOf
  <2>1. ResetStep(n.step[s]).role = n.step[s].role
    BY <1>10, ResetStepRight
  <2> QED
    BY <1>7, <1>9, <2>1
<1>12. \A x \in Charts \ Reset(n, c) : Same(n, m, x)
  BY <1>6, <1>7, <1>8, <1>9 DEF Same, StepsOf
<1>13. ASSUME NEW d \in Reset(n, c)
       PROVE  Settled(m, d) /\ Off(m, d) /\ m.chart[d] = ResetChart(n, d, c)
  <2>1. d \in Charts /\ m.chart[d] = ResetChart(n, d, c)
    BY <1>1, <1>8, <1>9
  <2>2. \A s \in StepsOf(d) :
          /\ s \notin m.begun /\ m.step[s].mode = "OFF" /\ m.step[s].X = FALSE
          /\ m.step[s].phase = "ENTRYDO" /\ m.step[s].qual = "ENTRY"
    <3> SUFFICES ASSUME NEW s \in StepsOf(d)
                 PROVE  /\ s \notin m.begun /\ m.step[s].mode = "OFF" /\ m.step[s].X = FALSE
                        /\ m.step[s].phase = "ENTRYDO" /\ m.step[s].qual = "ENTRY"
      OBVIOUS
    <3>1. s \in Steps /\ ChartOf[s] \in Reset(n, c)
      BY <1>13 DEF StepsOf
    <3>2. m.step[s] = ResetStep(n.step[s]) /\ s \notin m.begun
      BY <1>6, <1>7, <1>9, <3>1
    <3>3. n.step[s] \in Step
      BY <1>10, <3>1
    <3> QED
      BY <3>2, <3>3, ResetStepRight
  <2>3. m.chart[d].active = <<>> \/ \E a \in StepsOf(d) : m.chart[d].active = <<a>>
    <3>1. m.chart[d].active = Started(n, d)
      BY <2>1, ResetChartRight
    <3> QED
      BY <2>1, <3>1, StartedStep
  <2>4. Settled(m, d)
    BY <2>2, <2>3 DEF Settled
  <2>5. Off(m, d)
    BY <2>2 DEF Off
  <2> QED
    BY <2>1, <2>4, <2>5
<1> QED
  BY <1>4, <1>9, <1>11, <1>12, <1>13 DEF m

(* What a reset from n to m does for chart c and those below.              *)
WasReset(n, m, c) ==
  /\ Ready(m, c) /\ m.result = n.result /\ m.begun \subseteq n.begun
  /\ \A x \in Charts : Roles(n, m, x)
  /\ Settled(m, c) /\ Off(m, c)
  /\ m.chart[c].ws = n.chart[c].ws /\ m.chart[c].phase = n.chart[c].phase
  /\ m.chart[c].en = n.chart[c].en /\ m.chart[c].mode = n.chart[c].mode
  /\ m.chart[c].qual = n.chart[c].qual /\ m.chart[c].active = Started(n, c)
  /\ c # MainChart => Others(n, m, c)
  /\ c = MainChart /\ ModesOn(n) => ModesOn(m)
  /\ c = MainChart /\ StartSteps(n, c) # {} => ModesOn(m) /\ m.begun = {}

(* A reset, for a chart of either kind.                                    *)
LEMMA ResetSscRight ==
  ASSUME NEW n, NEW c \in Charts, Ready(n, c)
  PROVE  WasReset(n, ResetSsc(n, c), c)
<1> DEFINE m == ResetSsc(n, c)
<1>1. n \in Nets /\ c \in Reset(n, c)
  BY DEF Ready, Reset
<1>2. /\ m \in Nets /\ m.trace = n.trace /\ m.result = n.result
      /\ m.begun \subseteq n.begun
      /\ \A x \in Charts : Roles(n, m, x)
      /\ \A d \in Reset(n, c) : Settled(m, d) /\ Off(m, d) /\ m.chart[d] = ResetChart(n, d, c)
      /\ \A x \in Charts \ Reset(n, c) : Same(n, m, x)
  BY <1>1, ResetRight
<1> HIDE DEF m
<1>3. Cycling(m)
  BY <1>2 DEF Ready, Cycling
<1>4. /\ Settled(m, c) /\ Off(m, c)
      /\ m.chart[c].ws = n.chart[c].ws /\ m.chart[c].phase = n.chart[c].phase
      /\ m.chart[c].en = n.chart[c].en /\ m.chart[c].mode = n.chart[c].mode
      /\ m.chart[c].qual = n.chart[c].qual /\ m.chart[c].active = Started(n, c)
  BY <1>1, <1>2, ResetChartRight
<1>5. ASSUME c # MainChart PROVE Others(n, m, c)
  BY <1>2, <1>5 DEF Others, Reset
<1>6. ASSUME c = MainChart, NEW d \in SubCharts
      PROVE  SubSound(m, d) /\ (n.chart[d].mode = "ON" => m.chart[d].mode = "ON")
  <2>1. SubSound(n, d) /\ d \in Charts /\ d # c
    BY <1>6 DEF Ready, SubCharts
  <2>2. CASE d \in Reset(n, c)
    <3>1. /\ Settled(m, d) /\ m.chart[d].en = "STOP" /\ m.chart[d].mode = "ON"
          /\ m.chart[d].ws = n.chart[d].ws /\ m.chart[d].phase = n.chart[d].phase
      BY <1>1, <1>2, <2>1, <2>2, ResetChartRight
    <3> QED
      BY <2>1, <3>1 DEF SubSound, SubRight
  <2>3. CASE d \notin Reset(n, c)
    <3>1. Same(n, m, d)
      BY <1>2, <2>1, <2>3
    <3> QED
      BY <2>1, <3>1, SameSound DEF Near
  <2> QED
    BY <2>2, <2>3
<1>7. Ready(m, c)
  BY <1>2, <1>3, <1>6 DEF Ready
<1>8. ASSUME c = MainChart, StartSteps(n, c) # {}
      PROVE  ModesOn(m) /\ m.begun = {}
  <2>1. Reset(n, c) = Charts
    BY <1>8 DEF Reset
  <2>2. \A d \in SubCharts : m.chart[d].mode = "ON"
    <3> SUFFICES ASSUME NEW d \in SubCharts PROVE m.chart[d].mode = "ON"
      OBVIOUS
    <3>1. d \in Charts /\ d # c /\ d \in Reset(n, c)
      BY <1>8, <2>1 DEF SubCharts
    <3> QED
      BY <1>1, <1>2, <3>1, ResetChartRight
  <2>3. \A s \in Steps : s \notin m.begun
    <3> SUFFICES ASSUME NEW s \in Steps PROVE s \notin m.begun
      OBVIOUS
    <3>1. ChartOf[s] \in Reset(n, c) /\ s \in StepsOf(ChartOf[s])
      BY <2>1, ChartAssumption DEF StepsOf
    <3> QED
      BY <1>2, <3>1 DEF Off
  <2>4. m.begun = {}
    BY <1>2, <2>3 DEF Nets
  <2> QED
    BY <2>2, <2>4 DEF ModesOn
<1>9. c = MainChart /\ ModesOn(n) => ModesOn(m)
  BY <1>6 DEF ModesOn
<1>10. WasReset(n, m, c)
  BY <1>2, <1>4, <1>5, <1>7, <1>8, <1>9 DEF WasReset
<1> QED
  BY <1>10 DEF m

----------------------------------------------------------------------------
(* Changes of a chart and its steps that its settled state survives.       *)
Calm(n, m, c) ==
  /\ Local(n, m, c) /\ m.begun = n.begun /\ Roles(n, m, c)
  /\ m.chart[c].active = n.chart[c].active
  /\ m.chart[c].en = n.chart[c].en /\ m.chart[c].mode = n.chart[c].mode
  /\ \A s \in StepsOf(c) :
       /\ m.step[s].qual = n.step[s].qual /\ m.step[s].entry = n.step[s].entry
       /\ m.step[s].X => n.step[s].X
       /\ m.step[s].phase = "EXITTRANS" => n.step[s].phase = "EXITTRANS"

LEMMA CalmTrans ==
  ASSUME NEW n, NEW m, NEW k, NEW c, Calm(n, m, c), Calm(m, k, c)
  PROVE  Calm(n, k, c)
<1>1. Local(n, k, c)
  BY LocalTrans DEF Calm
<1> QED
  BY <1>1 DEF Calm, Roles

(* The sub-charts that may be active have an owner, if the main chart has  *)
(* a start step to be reset to.                                            *)
Owned(n) == StartSteps(n, MainChart) # {} => OwnedBy(n, n.begun)

(* What is calm keeps the invariant of the steps.                          *)
LEMMA CalmRight ==
  ASSUME NEW n, NEW m, NEW c, Ready(n, c), Settled(n, c), Calm(n, m, c)
  PROVE  /\ Ready(m, c) /\ Settled(m, c) /\ Apart(n, m, c) /\ m.result = n.result
         /\ Roles(n, m, c)
         /\ c = MainChart => /\ ModesOn(n) => ModesOn(m)
                             /\ Owned(n) => Owned(m)
<1>1. Ready(m, c) /\ Apart(n, m, c) /\ Others(n, m, c)
  BY LocalReady DEF Calm
<1>2. Settled(m, c)
  BY DEF Settled, Calm
<1>3. ASSUME c = MainChart
      PROVE  /\ ModesOn(n) => ModesOn(m)
             /\ Owned(n) => Owned(m)
  <2>1. \A d \in SubCharts : Same(n, m, d)
    BY <1>1, <1>3 DEF Others, SubCharts
  <2>2. ModesOn(n) => ModesOn(m)
    BY <2>1 DEF ModesOn, Same
  <2>3. ASSUME Owned(n) PROVE Owned(m)
    <3> SUFFICES ASSUME StartSteps(m, MainChart) # {}
                 PROVE  OwnedBy(m, m.begun)
      BY DEF Owned
    <3>1. StartSteps(n, MainChart) # {}
      BY <1>3 DEF StartSteps, Calm, Roles
    <3>2. OwnedBy(n, n.begun)
      BY <2>3, <3>1 DEF Owned
    <3>3. OwnedBy(m, n.begun)
      BY <2>1, <3>2, EndedStays
    <3> QED
      BY <3>3 DEF Calm
  <2> QED
    BY <2>2, <2>3
<1> QED
  BY <1>1, <1>2, <1>3 DEF Calm, Local

----------------------------------------------------------------------------
(* Between two executions of the main chart: once it was reset, its sub-   *)
(* charts are on; before it runs, nothing has begun.                       *)
MainRight(n) ==
  LET m == n.chart[MainChart]
  IN  /\ m.ws # "INIT" \/ m.phase = "EXITTRANS" => ModesOn(n)
      /\ m.ws = "INIT" => n.begun = {}

ChartRight(n, c) == IF c = MainChart THEN MainRight(n) ELSE SubRight(n, c)

(* The active step of c is not executed in this cycle.                     *)
Asleep(n, c) == \A s \in StepsOf(c) : n.chart[c].active = <<s>> => n.step[s].mode = "OFF"

(* What the method of chart c does, before its task list is executed.      *)
Performed(n, m, c) ==
  /\ Ready(m, c) /\ Settled(m, c) /\ ChartRight(m, c)
  /\ m.result = n.result /\ \A x \in Charts : Roles(n, m, x)
  /\ m.chart[c].mode = n.chart[c].mode
  /\ c # MainChart => Others(n, m, c)
  /\ c # MainChart /\ n.chart[c].en = "STOP" => m.chart[c].ws # "START" /\ Ended(m, c)
  /\ m.chart[c].ws # "START" => Asleep(m, c)
  /\ c = MainChart /\ Owned(n) => Owned(m)

(* Something calm, and then the working state.                             *)
LEMMA PerformedAfter ==
  ASSUME NEW n, NEW k, NEW m, NEW c \in Charts,
         Apart(n, k, c), k.result = n.result, Roles(n, k, c),
         k.chart[c].mode = n.chart[c].mode, k.chart[c].en = n.chart[c].en,
         Performed(k, m, c), c = MainChart /\ Owned(n) => Owned(k) \/ Owned(m)
  PROVE  Performed(n, m, c)
<1>1. \A x \in Charts : Roles(n, m, x)
  <2> SUFFICES ASSUME NEW x \in Charts
               PROVE  Roles(n, m, x)
    OBVIOUS
  <2>1. Roles(n, k, x)
    <3>1. CASE x = c
      BY <3>1
    <3>2. CASE x # c /\ c = MainChart
      BY <3>2 DEF Apart, Near, SubCharts
    <3>3. CASE x # c /\ c # MainChart
      BY <3>3, SameSound DEF Apart
    <3> QED
      BY <3>1, <3>2, <3>3
  <2>2. Roles(k, m, x)
    BY DEF Performed
  <2> QED
    BY <2>1, <2>2 DEF Roles
<1>2. c # MainChart => Others(n, m, c)
  BY SameTrans DEF Apart, Others, Performed
<1> QED
  BY <1>1, <1>2 DEF Performed

(* A working state is done.                                                *)
LEMMA DoneRight ==
  ASSUME NEW n \in Nets, NEW c \in Charts
  PROVE  LET m == Done(c)[n]
         IN  /\ Local(n, m, c) /\ m.begun = n.begun /\ m.step = n.step
             /\ m.chart[c].phase = "EXITTRANS"
             /\ m.chart[c].active = n.chart[c].active /\ m.chart[c].ws = n.chart[c].ws
             /\ m.chart[c].en = n.chart[c].en /\ m.chart[c].mode = n.chart[c].mode
             /\ m.chart[c].qual = n.chart[c].qual
<1> DEFINE q == [n.chart[c] EXCEPT !.phase = "EXITTRANS"]
           m == SetChart(n, c, q)
<1>1. n.chart[c] \in Chart
  BY DEF Nets
<1>2. /\ q \in Chart /\ q.phase = "EXITTRANS" /\ q.active = n.chart[c].active
      /\ q.ws = n.chart[c].ws /\ q.en = n.chart[c].en /\ q.mode = n.chart[c].mode
      /\ q.qual = n.chart[c].qual
  BY <1>1 DEF Chart, WorkPhases
<1>3. Done(c)[n] = m
  BY <1>1 DEF Done, SetChart
<1> HIDE DEF q
<1>4. m.chart[c] = q /\ m.step = n.step /\ m.begun = n.begun /\ Local(n, m, c)
  BY <1>2, SetChartFacts, SetChartLocal
<1> QED
  BY <1>2, <1>3, <1>4

(* When a chart is about to be reset by its method.                        *)
BeforeReset(n, c) ==
  /\ Ready(n, c) /\ n.chart[c].ws # "START"
  /\ c = MainChart => /\ n.chart[c].ws # "INIT" => ModesOn(n)
                      /\ n.chart[c].ws = "INIT" => n.begun = {} /\ n.chart[c].phase = "ENTRYDO"
  /\ c # MainChart => n.chart[c].ws # "BREAK" /\ n.chart[c].en \in {"START", "STOP"}

LEMMA AfterReset ==
  ASSUME NEW n, NEW m, NEW c \in Charts, WasReset(n, m, c)
  PROVE  /\ c = MainChart => Owned(m)
         /\ Asleep(m, c) /\ Ended(m, c)
<1>1. Asleep(m, c) /\ Ended(m, c)
  BY DEF WasReset, Off, Asleep, Ended
<1>2. ASSUME c = MainChart, StartSteps(m, MainChart) # {}
      PROVE  OwnedBy(m, m.begun)
  <2>1. StartSteps(n, c) # {}
    BY <1>2 DEF WasReset, StartSteps, Roles
  <2>2. m.begun = {}
    BY <1>2, <2>1 DEF WasReset
  <2> QED
    BY <2>2 DEF OwnedBy, Ended
<1> QED
  BY <1>1, <1>2 DEF Owned

(* A reset leaves a chart as its method should, if it was ready before.    *)
LEMMA ResetPerformed ==
  ASSUME NEW n, NEW c \in Charts, BeforeReset(n, c)
  PROVE  /\ Performed(n, ResetSsc(n, c), c)
         /\ c = MainChart => Owned(ResetSsc(n, c))
<1> DEFINE m == ResetSsc(n, c)
<1>1. WasReset(n, m, c)
  BY ResetSscRight DEF BeforeReset
<1> HIDE DEF m
<1>2. (c = MainChart => Owned(m)) /\ Asleep(m, c) /\ Ended(m, c)
  BY <1>1, AfterReset
<1>3. ChartRight(m, c)
  <2>1. CASE c = MainChart
    BY <1>1, <2>1 DEF WasReset, BeforeReset, ChartRight, MainRight
  <2>2. CASE c # MainChart
    BY <1>1, <2>2 DEF WasReset, BeforeReset, ChartRight, SubRight
  <2> QED
    BY <2>1, <2>2
<1>4. Performed(n, m, c)
  BY <1>1, <1>2, <1>3 DEF WasReset, BeforeReset, Performed
<1> QED
  BY <1>2, <1>4 DEF m

(* INIT, and the second half of STOP.                                      *)
LEMMA DoResetRight ==
  ASSUME NEW n, NEW c \in Charts, BeforeReset(n, c)
  PROVE  /\ Performed(n, DoReset(n, c), c)
         /\ c = MainChart => Owned(DoReset(n, c))
<1>1. CASE ResetFails(n, c)
  BY <1>1, ResetPerformed DEF DoReset
<1>2. CASE ~ResetFails(n, c)
  <2> DEFINE k == ResetSsc(n, c)
             m == Done(c)[k]
  <2>1. DoReset(n, c) = m
    BY <1>2 DEF DoReset
  <2>2. WasReset(n, k, c) /\ StartSteps(n, c) # {}
    BY <1>2, ResetSscRight DEF BeforeReset, ResetFails, Reset
  <2> HIDE DEF k
  <2>3. k \in Nets
    BY <2>2 DEF WasReset, Ready
  <2>4. /\ Local(k, m, c) /\ m.begun = k.begun /\ m.step = k.step
        /\ m.chart[c].active = k.chart[c].active /\ m.chart[c].ws = k.chart[c].ws
        /\ m.chart[c].en = k.chart[c].en /\ m.chart[c].mode = k.chart[c].mode
    BY <2>3, DoneRight
  <2> HIDE DEF m
  <2>5. Calm(k, m, c)
    BY <2>4 DEF Calm, Roles
  <2>6. /\ Ready(m, c) /\ Settled(m, c) /\ Apart(k, m, c) /\ m.result = k.result
        /\ Roles(k, m, c) /\ (c = MainChart => (ModesOn(k) => ModesOn(m)) /\ (Owned(k) => Owned(m)))
    BY <2>2, <2>5, CalmRight DEF WasReset
  <2>7. (c = MainChart => Owned(k)) /\ Asleep(k, c) /\ Ended(k, c)
    BY <2>2, AfterReset
  <2>8. Asleep(m, c) /\ Ended(m, c)
    BY <2>4, <2>7 DEF Asleep, Ended
  <2>9. ChartRight(m, c)
    <3>1. CASE c = MainChart
      BY <2>2, <2>4, <2>6, <3>1 DEF WasReset, ChartRight, MainRight
    <3>2. CASE c # MainChart
      BY <2>2, <2>4, <3>2 DEF WasReset, BeforeReset, ChartRight, SubRight
    <3> QED
      BY <3>1, <3>2
  <2>10. \A x \in Charts : Roles(n, m, x)
    <3> SUFFICES ASSUME NEW x \in Charts
                 PROVE  Roles(n, m, x)
      OBVIOUS
    <3>1. Roles(n, k, x)
      BY <2>2 DEF WasReset
    <3> QED
      BY <2>4, <3>1 DEF Roles
  <2>11. c # MainChart => Others(n, m, c)
    BY <2>2, <2>4, SameTrans DEF WasReset, Local, Others
  <2>12. Performed(n, m, c)
    BY <2>2, <2>4, <2>6, <2>7, <2>8, <2>9, <2>10, <2>11 DEF WasReset, BeforeReset, Performed
  <2> QED
    BY <2>1, <2>6, <2>7, <2>12
<1> QED
  BY <1>1, <1>2

----------------------------------------------------------------------------
(* The working states.  Step a is the active one, and off.                 *)
StateReady(n, c, a) ==
  /\ Ready(n, c) /\ Settled(n, c) /\ Asleep(n, c)
  /\ \/ a = NoStep /\ n.chart[c].active = <<>>
     \/ a \in StepsOf(c) /\ n.chart[c].active = <<a>>
  /\ c = MainChart => /\ n.chart[c].ws # "INIT" => ModesOn(n)
                      /\ n.chart[c].ws = "INIT" => n.begun = {} /\ n.chart[c].phase = "ENTRYDO"
  /\ c # MainChart => /\ n.chart[c].ws # "BREAK" /\ n.chart[c].en \in {"START", "STOP"}
                      /\ n.chart[c].en = "STOP" => n.chart[c].ws # "START"

LEMMA SetStepCalm ==
  ASSUME NEW n \in Nets, NEW c \in Charts, NEW a \in StepsOf(c), NEW r \in Step,
         r.role = n.step[a].role, r.qual = n.step[a].qual, r.entry = n.step[a].entry,
         r.X => n.step[a].X, r.phase = "EXITTRANS" => n.step[a].phase = "EXITTRANS"
  PROVE  LET m == SetStep(n, a, r)
         IN  /\ Calm(n, m, c) /\ m.chart = n.chart /\ m.step[a] = r /\ m \in Nets
             /\ \A x \in Steps \ {a} : m.step[x] = n.step[x]
<1> DEFINE m == SetStep(n, a, r)
<1>1. a \in Steps /\ ChartOf[a] = c
  BY DEF StepsOf
<1>2. /\ m \in Nets /\ m.step[a] = r /\ (\A x \in Steps \ {a} : m.step[x] = n.step[x])
      /\ m.chart = n.chart /\ m.begun = n.begun
  BY <1>1, SetStepFacts
<1>3. Local(n, m, c)
  BY <1>1, SetStepLocal
<1> HIDE DEF m
<1>4. \A x \in StepsOf(c) : x # a => m.step[x] = n.step[x]
  BY <1>2 DEF StepsOf
<1>5. Roles(n, m, c)
  BY <1>2, <1>4 DEF Roles
<1>6. Calm(n, m, c)
  BY <1>2, <1>3, <1>4, <1>5 DEF Calm
<1> QED
  BY <1>2, <1>6 DEF m

LEMMA SetChartCalm ==
  ASSUME NEW n \in Nets, NEW c \in Charts, NEW q \in Chart,
         q.active = n.chart[c].active, q.en = n.chart[c].en, q.mode = n.chart[c].mode
  PROVE  LET m == SetChart(n, c, q)
         IN  Calm(n, m, c) /\ m.chart[c] = q /\ m.step = n.step /\ m \in Nets
<1> DEFINE m == SetChart(n, c, q)
<1>1. m \in Nets /\ m.chart[c] = q /\ m.step = n.step /\ m.begun = n.begun /\ Local(n, m, c)
  BY SetChartFacts, SetChartLocal
<1> HIDE DEF m
<1>2. Calm(n, m, c)
  BY <1>1 DEF Calm, Roles
<1> QED
  BY <1>1, <1>2 DEF m

(* Something calm completes a working state.                               *)
LEMMA CalmThenDone ==
  ASSUME NEW n, NEW k, NEW c \in Charts, NEW a, StateReady(n, c, a),
         Calm(n, k, c), k.chart[c].ws = n.chart[c].ws, n.chart[c].ws # "INIT",
         n.chart[c].ws = "START" \/ (c = MainChart /\ Asleep(k, c))
  PROVE  Performed(n, Done(c)[k], c)
<1> DEFINE m == Done(c)[k]
<1>1. k \in Nets /\ n \in Nets
  BY DEF Calm, Local, StateReady, Ready
<1>2. /\ Local(k, m, c) /\ m.begun = k.begun /\ m.step = k.step
      /\ m.chart[c].phase = "EXITTRANS"
      /\ m.chart[c].active = k.chart[c].active /\ m.chart[c].ws = k.chart[c].ws
      /\ m.chart[c].en = k.chart[c].en /\ m.chart[c].mode = k.chart[c].mode
  BY <1>1, DoneRight
<1> HIDE DEF m
<1>3. Calm(k, m, c)
  BY <1>2 DEF Calm, Roles
<1>4. Calm(n, m, c)
  BY <1>3, CalmTrans
<1>5. /\ Ready(m, c) /\ Settled(m, c) /\ Apart(n, m, c) /\ m.result = n.result
      /\ Roles(n, m, c) /\ (c = MainChart => (ModesOn(n) => ModesOn(m)) /\ (Owned(n) => Owned(m)))
  BY <1>4, CalmRight DEF StateReady
<1>6. ChartRight(m, c)
  <2>1. CASE c = MainChart
    BY <1>2, <1>5, <2>1 DEF StateReady, ChartRight, MainRight
  <2>2. CASE c # MainChart
    BY <1>2, <1>3, <1>4, <2>2 DEF StateReady, ChartRight, SubRight, Calm
  <2> QED
    BY <2>1, <2>2
<1>7. m.chart[c].ws # "START" => Asleep(m, c)
  BY <1>2 DEF Asleep
<1>8. Others(n, m, c)
  BY <1>4 DEF Calm, Local
<1>9. \A x \in Charts : Roles(n, m, x)
  <2> SUFFICES ASSUME NEW x \in Charts, x # c
               PROVE  Roles(n, m, x)
    BY <1>5
  <2> QED
    BY <1>8, SameSound DEF Others
<1>10. m.chart[c].mode = n.chart[c].mode
  BY <1>4 DEF Calm
<1>11. c # MainChart => n.chart[c].en # "STOP"
  BY DEF StateReady
<1>12. Performed(n, m, c)
  BY <1>5, <1>6, <1>7, <1>8, <1>9, <1>10, <1>11 DEF Performed
<1> QED
  BY <1>12 DEF m

(* START, BREAK and TERMINATE.                                             *)
LEMMA DoStartRight ==
  ASSUME NEW n, NEW c \in Charts, NEW a, StateReady(n, c, a), n.chart[c].ws = "START"
  PROVE  Performed(n, DoStart(n, c, a), c)
<1>1. n \in Nets /\ NoStep \notin Steps
  BY ChartAssumption DEF StateReady, Ready
<1>2. CASE a = NoStep
  <2>1. Calm(n, n, c)
    BY <1>1 DEF Calm, Local, Others, Same, Roles
  <2>2. Performed(n, Done(c)[n], c)
    BY <2>1, CalmThenDone
  <2> QED
    BY <1>2, <2>2 DEF DoStart
<1>3. CASE a # NoStep
  <2> DEFINE r == [n.step[a] EXCEPT !.mode = "ON"]
             k == SetStep(n, a, r)
  <2>1. a \in StepsOf(c) /\ n.step[a] \in Step
    BY <1>1, <1>3 DEF StateReady, StepsOf, Nets
  <2>2. /\ r \in Step /\ r.role = n.step[a].role /\ r.qual = n.step[a].qual
        /\ r.entry = n.step[a].entry /\ r.X = n.step[a].X /\ r.phase = n.step[a].phase
    BY <2>1 DEF Step
  <2>3. DoStart(n, c, a) = Done(c)[k]
    BY <1>1, <1>3, <2>1 DEF DoStart, SetStep
  <2> HIDE DEF r
  <2>4. Calm(n, k, c) /\ k.chart = n.chart
    BY <1>1, <2>1, <2>2, SetStepCalm
  <2> HIDE DEF k
  <2>5. Performed(n, Done(c)[k], c)
    BY <2>4, CalmThenDone
  <2> QED
    BY <2>3, <2>5
<1> QED
  BY <1>2, <1>3

LEMMA DoBreakRight ==
  ASSUME NEW n, NEW c \in Charts, NEW a, StateReady(n, c, a), n.chart[c].ws = "BREAK"
  PROVE  Performed(n, DoBreak(n, c, a), c)
<1>1. n \in Nets /\ NoStep \notin Steps /\ c = MainChart
  BY ChartAssumption DEF StateReady, Ready
<1>2. CASE a = NoStep
  <2>1. Calm(n, n, c)
    BY <1>1 DEF Calm, Local, Others, Same, Roles
  <2>2. Performed(n, Done(c)[n], c)
    BY <1>1, <2>1, CalmThenDone DEF StateReady
  <2> QED
    BY <1>2, <2>2 DEF DoBreak
<1>3. CASE a # NoStep
  <2> DEFINE r == [n.step[a] EXCEPT !.mode = "OFF", !.phase = "ENTRYDO", !.X = FALSE]
             k == SetStep(n, a, r)
  <2>1. a \in StepsOf(c) /\ n.step[a] \in Step
    BY <1>1, <1>3 DEF StateReady, StepsOf, Nets
  <2>2. /\ r \in Step /\ r.role = n.step[a].role /\ r.qual = n.step[a].qual
        /\ r.entry = n.step[a].entry /\ r.X = FALSE /\ r.phase = "ENTRYDO" /\ r.mode = "OFF"
    BY <2>1 DEF Step, WorkPhases
  <2>3. DoBreak(n, c, a) = Done(c)[k]
    BY <1>1, <1>3, <2>1 DEF DoBreak, SetStep
  <2> HIDE DEF r
  <2>4. Calm(n, k, c) /\ k.chart = n.chart /\ k.step[a] = r
    BY <1>1, <2>1, <2>2, SetStepCalm
  <2> HIDE DEF k
  <2>5. Asleep(k, c)
    <3> SUFFICES ASSUME NEW s \in StepsOf(c), k.chart[c].active = <<s>>
                 PROVE  k.step[s].mode = "OFF"
      BY DEF Asleep
    <3>1. <<s>> = <<a>>
      BY <1>3, <2>4 DEF StateReady
    <3>2. s = a
      BY <3>1
    <3> QED
      BY <2>2, <2>4, <3>2
  <2>6. Performed(n, Done(c)[k], c)
    BY <1>1, <2>4, <2>5, CalmThenDone
  <2> QED
    BY <2>3, <2>6
<1> QED
  BY <1>2, <1>3

LEMMA DoTerminateRight ==
  ASSUME NEW n, NEW c \in Charts, NEW a, StateReady(n, c, a), n.chart[c].ws = "TERMINATE"
  PROVE  Performed(n, DoTerminate(n, c), c)
<1>1. n \in Nets /\ n.chart[c] \in Chart
  BY DEF StateReady, Ready, Nets
<1>2. BeforeReset(n, c)
  BY DEF StateReady, BeforeReset
<1>3. CASE n.chart[c].en # "RESET"
  <2>1. ChartRight(n, c)
    BY DEF StateReady, ChartRight, MainRight, SubRight
  <2>2. Ended(n, c)
    BY DEF Ended
  <2>3. Others(n, n, c) /\ \A x \in Charts : Roles(n, n, x)
    BY DEF Others, Same, Roles
  <2>4. Performed(n, n, c)
    BY <2>1, <2>2, <2>3 DEF StateReady, Performed
  <2> QED
    BY <1>3, <2>4 DEF DoTerminate
<1>4. CASE n.chart[c].en = "RESET" /\ ResetFails(n, c)
  <2>1. DoTerminate(n, c) = ResetSsc(n, c)
    BY <1>4 DEF DoTerminate
  <2> QED
    BY <1>2, <2>1, ResetPerformed
<1>5. CASE n.chart[c].en = "RESET" /\ ~ResetFails(n, c)
  <2> DEFINE k == ResetSsc(n, c)
             l == Done(c)[k]
             q == [l.chart[c] EXCEPT !.ws = "INIT", !.en = "STOP"]
             m == SetChart(l, c, q)
  <2>1. c = MainChart
    BY <1>5 DEF StateReady
  <2>2. WasReset(n, k, c) /\ StartSteps(n, c) # {}
    BY <1>2, <1>5, ResetSscRight DEF BeforeReset, ResetFails, Reset
  <2>3. DoTerminate(n, c) = [l EXCEPT !.chart[c].ws = "INIT", !.chart[c].en = "STOP"]
    BY <1>5 DEF DoTerminate
  <2> HIDE DEF k
  <2>4. k \in Nets
    BY <2>2 DEF WasReset, Ready
  <2>5. /\ Local(k, l, c) /\ l.begun = k.begun /\ l.step = k.step
        /\ l.chart[c].phase = "EXITTRANS"
        /\ l.chart[c].active = k.chart[c].active
        /\ l.chart[c].mode = k.chart[c].mode
    BY <2>4, DoneRight
  <2> HIDE DEF l
  <2>6. l \in Nets /\ l.chart[c] \in Chart
    BY <2>5 DEF Local, Nets
  <2>7. /\ q \in Chart /\ q.ws = "INIT" /\ q.active = l.chart[c].active
        /\ q.mode = l.chart[c].mode
    BY <2>6 DEF Chart, Commands
  <2>8. DoTerminate(n, c) = m
    BY <2>3, <2>6 DEF SetChart, Nets, Chart
  <2> HIDE DEF q
  <2>9. m.chart[c] = q /\ m.step = l.step /\ m.begun = l.begun /\ Local(l, m, c)
    BY <2>6, <2>7, SetChartFacts, SetChartLocal
  <2> HIDE DEF m
  <2>10. Local(k, m, c)
    BY <2>5, <2>9, LocalTrans
  <2>11. Ready(m, c) /\ Others(k, m, c) /\ m.result = k.result
    BY <2>2, <2>10, LocalReady DEF WasReset, Local
  <2>12. Settled(m, c)
    BY <2>2, <2>5, <2>7, <2>9 DEF WasReset, Settled
  <2>13. ModesOn(m) /\ m.begun = {}
    BY <2>1, <2>2, <2>5, <2>9, <2>11 DEF WasReset, ModesOn, Others, Same, SubCharts
  <2>14. ChartRight(m, c)
    BY <2>1, <2>13 DEF ChartRight, MainRight
  <2>15. \A x \in Charts : Roles(n, m, x)
    BY <2>2, <2>5, <2>9 DEF WasReset, Roles
  <2>16. Asleep(m, c)
    BY <2>2, <2>5, <2>9 DEF WasReset, Off, Asleep
  <2>17. Owned(m)
    BY <2>13 DEF Owned, OwnedBy, Ended
  <2>18. Performed(n, m, c)
    BY <2>1, <2>2, <2>5, <2>7, <2>9, <2>11, <2>12, <2>14, <2>15, <2>16, <2>17 DEF WasReset, Performed
  <2> QED
    BY <2>8, <2>18
<1> QED
  BY <1>3, <1>4, <1>5

(* What comes of the active step when its chart stops; a reset follows.    *)
LEMMA StoppedRight ==
  ASSUME NEW run, NEW n, NEW c \in Charts, NEW a,
         c = MainChart => RunOK(run), StateReady(n, c, a), n.chart[c].ws = "STOP"
  PROVE  LET m == Stopped(run, n, c, a)
         IN  /\ Ready(m, c) /\ Apart(n, m, c) /\ m.result = n.result /\ Roles(n, m, c)
             /\ Goes(n.chart[c], m.chart[c])
<1> DEFINE m == Stopped(run, n, c, a)
<1>1. n \in Nets /\ n.chart[c] \in Chart /\ Ready(n, c) /\ Settled(n, c)
  BY DEF StateReady, Ready, Nets
<1>2. CASE n.chart[c].qual # "ENTRY"
  <2>1. m = n
    BY <1>2 DEF Stopped
  <2>2. Others(n, n, c)
    BY DEF Others, Same
  <2>3. Apart(n, n, c)
    BY <2>2, OthersApart
  <2> QED
    BY <1>1, <2>1, <2>3 DEF Roles, Goes
<1>3. CASE n.chart[c].qual = "ENTRY" /\ a = NoStep
  <2> DEFINE q == [n.chart[c] EXCEPT !.error = TRUE]
             k == SetChart(n, c, q)
  <2>1. q \in Chart /\ Goes(n.chart[c], q)
    BY <1>1 DEF Chart, Goes
  <2>2. m = k
    BY <1>1, <1>3 DEF Stopped, SetChart
  <2> HIDE DEF q, m
  <2>3. k.chart[c] = q /\ k.step = n.step /\ Local(n, k, c)
    BY <1>1, <2>1, SetChartFacts, SetChartLocal
  <2> HIDE DEF k
  <2>4. Ready(k, c) /\ Apart(n, k, c) /\ k.result = n.result
    BY <1>1, <2>3, LocalReady DEF Local
  <2>5. Roles(n, k, c)
    BY <2>3 DEF Roles
  <2> QED
    BY <2>1, <2>2, <2>3, <2>4, <2>5 DEF m
<1>4. CASE n.chart[c].qual = "ENTRY" /\ a # NoStep
  <2>1. m = StepMethod(run, n, a)
    BY <1>4 DEF Stopped
  <2>2. a \in StepsOf(c) /\ n.chart[c].active = <<a>>
    BY <1>4 DEF StateReady
  <2>3. Moved(n, StepMethod(run, n, a), c, a)
    BY <1>1, <2>2, StepMethodRight
  <2> QED
    BY <2>1, <2>3 DEF Moved
<1> QED
  BY <1>2, <1>3, <1>4

(* When the chart is reset after that.                                     *)
InDo(n, c) == [n EXCEPT !.chart[c].qual = "DO"]

HaltsFor(n, k, l, c) ==
  /\ BeforeReset(l, c) /\ Apart(n, l, c) /\ l.result = n.result /\ Roles(n, l, c)
  /\ l.chart[c].en = n.chart[c].en /\ l.chart[c].mode = n.chart[c].mode
  /\ l.chart[c].phase = n.chart[c].phase
  /\ l.chart[c].qual = "DO" /\ l.chart[c].ws = k.chart[c].ws

LEMMA StoppedBefore ==
  ASSUME NEW run, NEW n, NEW c \in Charts, NEW a,
         c = MainChart => RunOK(run), StateReady(n, c, a), n.chart[c].ws = "STOP"
  PROVE  HaltsFor(n, Stopped(run, n, c, a), InDo(Stopped(run, n, c, a), c), c)
<1> DEFINE k == Stopped(run, n, c, a)
           q == [k.chart[c] EXCEPT !.qual = "DO"]
           l == SetChart(k, c, q)
<1>1. /\ Ready(k, c) /\ Apart(n, k, c) /\ k.result = n.result /\ Roles(n, k, c)
      /\ Goes(n.chart[c], k.chart[c])
  BY StoppedRight
<1> HIDE DEF k
<1>2. k \in Nets /\ k.chart[c] \in Chart
  BY <1>1 DEF Ready, Nets
<1>3. /\ q \in Chart /\ q.ws = k.chart[c].ws /\ q.en = k.chart[c].en /\ q.mode = k.chart[c].mode
      /\ q.phase = k.chart[c].phase /\ q.qual = "DO"
  BY <1>2 DEF Chart
<1>4. l = InDo(k, c)
  BY <1>2 DEF SetChart, InDo
<1> HIDE DEF q
<1>5. l \in Nets /\ l.chart[c] = q /\ l.step = k.step /\ Local(k, l, c)
  BY <1>2, <1>3, SetChartFacts, SetChartLocal
<1> HIDE DEF l
<1>6. Ready(l, c) /\ Apart(k, l, c) /\ l.result = k.result
  BY <1>1, <1>5, LocalReady DEF Local
<1>7. Apart(n, l, c)
  BY <1>1, <1>6, ApartTrans
<1>8. Roles(n, l, c)
  BY <1>1, <1>5 DEF Roles
<1>9. /\ l.chart[c].ws \in {"STOP", "TERMINATE"}
      /\ l.chart[c].en = n.chart[c].en /\ l.chart[c].mode = n.chart[c].mode
      /\ l.chart[c].phase = n.chart[c].phase
  BY <1>1, <1>3, <1>5 DEF Goes
<1>10. c = MainChart => ModesOn(l)
  BY <1>7 DEF StateReady, ModesOn, Apart, Near
<1>11. BeforeReset(l, c)
  BY <1>6, <1>9, <1>10 DEF BeforeReset, StateReady
<1>12. l.result = n.result /\ l.chart[c].qual = "DO" /\ l.chart[c].ws = k.chart[c].ws
  BY <1>1, <1>3, <1>5, <1>6
<1>13. HaltsFor(n, k, l, c)
  BY <1>7, <1>8, <1>9, <1>11, <1>12 DEF HaltsFor
<1> QED
  BY <1>4, <1>13 DEF k

(* STOP: the active step is left, and then the chart is reset.             *)
LEMMA DoStopRight ==
  ASSUME NEW run, NEW n, NEW c \in Charts, NEW a,
         c = MainChart => RunOK(run), StateReady(n, c, a), n.chart[c].ws = "STOP"
  PROVE  Performed(n, DoStop(run, n, c, a), c)
<1> DEFINE k == Stopped(run, n, c, a)
           l == InDo(k, c)
           m == DoReset(l, c)
<1>1. DoStop(run, n, c, a) = m
  BY DEF DoStop, InDo
<1>2. HaltsFor(n, k, l, c)
  BY StoppedBefore
<1> HIDE DEF k, l
<1>3. Performed(l, m, c) /\ (c = MainChart => Owned(m))
  BY <1>2, DoResetRight DEF HaltsFor
<1> HIDE DEF m
<1>4. Performed(n, m, c)
  BY <1>2, <1>3, PerformedAfter DEF HaltsFor
<1> QED
  BY <1>1, <1>4

(* The chart looks into its working state as one that is done before.      *)
InDoFor(n, k, c, a) ==
  /\ StateReady(k, c, a) /\ Apart(n, k, c) /\ Roles(n, k, c)
  /\ c = MainChart /\ Owned(n) => Owned(k)
  /\ k.step = n.step /\ k.result = n.result
  /\ k.chart[c].ws = n.chart[c].ws /\ k.chart[c].en = n.chart[c].en
  /\ k.chart[c].mode = n.chart[c].mode /\ k.chart[c].active = n.chart[c].active
  /\ k.chart[c].phase = n.chart[c].phase /\ k.chart[c].qual = "DO"

LEMMA InDoRight ==
  ASSUME NEW n, NEW c \in Charts, NEW a, StateReady(n, c, a)
  PROVE  InDoFor(n, InDo(n, c), c, a)
<1> DEFINE q == [n.chart[c] EXCEPT !.qual = "DO"]
           k == SetChart(n, c, q)
<1>1. n \in Nets /\ n.chart[c] \in Chart /\ Ready(n, c) /\ Settled(n, c)
  BY DEF StateReady, Ready, Nets
<1>2. /\ q \in Chart /\ q.ws = n.chart[c].ws /\ q.en = n.chart[c].en /\ q.mode = n.chart[c].mode
      /\ q.active = n.chart[c].active /\ q.phase = n.chart[c].phase /\ q.qual = "DO"
  BY <1>1 DEF Chart
<1>3. k = InDo(n, c)
  BY <1>1 DEF SetChart, InDo
<1> HIDE DEF q
<1>4. Calm(n, k, c) /\ k.chart[c] = q /\ k.step = n.step
  BY <1>1, <1>2, SetChartCalm
<1> HIDE DEF k
<1>5. /\ Ready(k, c) /\ Settled(k, c) /\ Apart(n, k, c) /\ k.result = n.result
      /\ Roles(n, k, c) /\ (c = MainChart => (ModesOn(n) => ModesOn(k)) /\ (Owned(n) => Owned(k)))
  BY <1>1, <1>4, CalmRight
<1>6. k.begun = n.begun
  BY <1>4 DEF Calm
<1>7. StateReady(k, c, a)
  BY <1>2, <1>4, <1>5, <1>6 DEF StateReady, Asleep
<1>8. InDoFor(n, k, c, a)
  BY <1>2, <1>4, <1>5, <1>7 DEF InDoFor
<1> QED
  BY <1>3, <1>8

(* All working states.                                                     *)
LEMMA DoStateRight ==
  ASSUME NEW run, NEW n, NEW c \in Charts, NEW a,
         c = MainChart => RunOK(run), StateReady(n, c, a)
  PROVE  Performed(n, DoState(run, n, c, a), c)
<1> DEFINE k == InDo(n, c)
<1>1. n \in Nets /\ n.chart[c] \in Chart
  BY DEF StateReady, Ready, Nets
<1>2. InDoFor(n, k, c, a)
  BY InDoRight
<1>3. k = [n EXCEPT !.chart[c].qual = "DO"]
  BY DEF InDo
<1> HIDE DEF k
<1>4. StateReady(k, c, a) /\ k.chart[c].ws = n.chart[c].ws
  BY <1>2 DEF InDoFor
<1>5. ASSUME NEW m, Performed(k, m, c)
      PROVE  Performed(n, m, c)
  BY <1>2, <1>5, PerformedAfter DEF InDoFor
<1>6. CASE n.chart[c].ws = "INIT"
  <2>1. DoState(run, n, c, a) = DoReset(k, c)
    BY <1>3, <1>6 DEF DoState
  <2>2. BeforeReset(k, c)
    BY <1>4, <1>6 DEF BeforeReset, StateReady
  <2>3. Performed(k, DoReset(k, c), c)
    BY <2>2, DoResetRight
  <2> QED
    BY <1>5, <2>1, <2>3
<1>7. CASE n.chart[c].ws = "START"
  <2>1. DoState(run, n, c, a) = DoStart(k, c, a)
    BY <1>3, <1>7 DEF DoState
  <2>2. Performed(k, DoStart(k, c, a), c)
    BY <1>4, <1>7, DoStartRight
  <2> QED
    BY <1>5, <2>1, <2>2
<1>8. CASE n.chart[c].ws = "BREAK"
  <2>1. DoState(run, n, c, a) = DoBreak(k, c, a)
    BY <1>3, <1>8 DEF DoState
  <2>2. Performed(k, DoBreak(k, c, a), c)
    BY <1>4, <1>8, DoBreakRight
  <2> QED
    BY <1>5, <2>1, <2>2
<1>9. CASE n.chart[c].ws = "STOP"
  <2>1. DoState(run, n, c, a) = DoStop(run, n, c, a)
    BY <1>9 DEF DoState
  <2> QED
    BY <1>9, <2>1, DoStopRight
<1>10. CASE n.chart[c].ws = "TERMINATE"
  <2>1. DoState(run, n, c, a) = DoTerminate(n, c)
    BY <1>10 DEF DoState
  <2> QED
    BY <1>10, <2>1, DoTerminateRight
<1> QED
  BY <1>1, <1>6, <1>7, <1>8, <1>9, <1>10 DEF Chart

----------------------------------------------------------------------------
(* The method of a chart.                                                  *)
LEMMA NextWorkingStateRight ==
  ASSUME NEW ws \in {"INIT", "START", "BREAK", "STOP", "TERMINATE"}, NEW en \in Commands
  PROVE  /\ NextWorkingState(ws, en) \in {"INIT", "START", "BREAK", "STOP", "TERMINATE"}
         /\ NextWorkingState(ws, en) = "INIT" => ws = "INIT"
         /\ en = "STOP" => NextWorkingState(ws, en) # "START"
         /\ en \in {"START", "STOP"} => NextWorkingState(ws, en) # "BREAK"
<1>1. CASE ws = "INIT"
  BY <1>1 DEF NextWorkingState
<1>2. CASE ws # "INIT" /\ en = "RESET"
  BY <1>2 DEF NextWorkingState
<1>3. CASE ws = "STOP" /\ en = "BREAK"
  BY <1>3 DEF NextWorkingState
<1>4. CASE ws # "INIT" /\ en # "RESET" /\ ~(ws = "STOP" /\ en = "BREAK")
  <2>1. NextWorkingState(ws, en) = en
    BY <1>4 DEF NextWorkingState
  <2> QED
    BY <1>4, <2>1 DEF Commands
<1> QED
  BY <1>1, <1>2, <1>3, <1>4

(* The beginning of the method is calm.                                    *)
LEMMA FreshRight ==
  ASSUME NEW n \in Nets, NEW c \in Charts, NEW a,
         a = NoStep \/ a \in StepsOf(c)
  PROVE  LET m == Fresh(n, c, a)
         IN  /\ Calm(n, m, c)
             /\ m.chart[c].ws = n.chart[c].ws /\ m.chart[c].phase = n.chart[c].phase
             /\ m.chart[c].qual = n.chart[c].qual
             /\ \A x \in Steps : m.step[x].phase = n.step[x].phase
             /\ a # NoStep => m.step[a].mode = "OFF"
<1> DEFINE q == [n.chart[c] EXCEPT !.error = FALSE]
           k == SetChart(n, c, q)
           r == [k.step[a] EXCEPT !.mode = "OFF"]
           m == SetStep(k, a, r)
<1>1. n.chart[c] \in Chart /\ NoStep \notin Steps
  BY ChartAssumption DEF Nets
<1>2. /\ q \in Chart /\ q.ws = n.chart[c].ws /\ q.phase = n.chart[c].phase
      /\ q.active = n.chart[c].active /\ q.en = n.chart[c].en /\ q.mode = n.chart[c].mode
      /\ q.qual = n.chart[c].qual
  BY <1>1 DEF Chart
<1>3. k = [n EXCEPT !.chart[c].error = FALSE]
  BY <1>1 DEF SetChart
<1> HIDE DEF q
<1>4. Calm(n, k, c) /\ k.chart[c] = q /\ k.step = n.step /\ k \in Nets
  BY <1>2, SetChartCalm
<1> HIDE DEF k
<1>5. CASE a = NoStep
  BY <1>2, <1>3, <1>4, <1>5 DEF Fresh
<1>6. CASE a # NoStep
  <2>1. a \in StepsOf(c) /\ k.step[a] \in Step
    BY <1>4, <1>6 DEF StepsOf, Nets
  <2>2. /\ r \in Step /\ r.role = k.step[a].role /\ r.qual = k.step[a].qual
        /\ r.entry = k.step[a].entry /\ r.X = k.step[a].X /\ r.phase = k.step[a].phase
        /\ r.mode = "OFF"
    BY <2>1 DEF Step
  <2>3. Fresh(n, c, a) = m
    BY <1>3, <1>6 DEF Fresh, SetStep
  <2> HIDE DEF r
  <2>4. /\ Calm(k, m, c) /\ m.chart = k.chart /\ m.step[a] = r
        /\ \A x \in Steps \ {a} : m.step[x] = k.step[x]
    BY <1>4, <2>1, <2>2, SetStepCalm
  <2> HIDE DEF m
  <2>5. Calm(n, m, c)
    BY <1>4, <2>4, CalmTrans
  <2>6. \A x \in Steps : m.step[x].phase = n.step[x].phase
    BY <1>4, <2>2, <2>4
  <2> QED
    BY <1>2, <1>4, <2>2, <2>3, <2>4, <2>5, <2>6
<1> QED
  BY <1>5, <1>6

LEMMA TransitRight ==
  ASSUME NEW n \in Nets, NEW c \in Charts
  PROVE  LET m == Transit(n, c)
         IN  /\ Calm(n, m, c) /\ m.step = n.step /\ m.chart[c].phase = "ENTRYDO"
             /\ m.chart[c].ws = NextWorkingState(n.chart[c].ws, n.chart[c].en)
             /\ m.chart[c].qual = IF m.chart[c].ws = n.chart[c].ws THEN n.chart[c].qual ELSE "ENTRY"
<1> DEFINE p == n.chart[c]
           ws == NextWorkingState(p.ws, p.en)
           e == IF ws = p.ws THEN p.qual ELSE "ENTRY"
           q == [p EXCEPT !.ws = ws, !.phase = "ENTRYDO", !.qual = e]
           m == SetChart(n, c, q)
<1>1. p \in Chart
  BY DEF Nets
<1>2. ws \in {"INIT", "START", "BREAK", "STOP", "TERMINATE"}
  BY <1>1, NextWorkingStateRight DEF Chart
<1>3. Transit(n, c) = m
  BY DEF Transit, SetChart
<1> HIDE DEF ws
<1>4. e \in {"ENTRY", "DO"}
  BY <1>1 DEF Chart
<1> HIDE DEF e
<1>5. /\ q \in Chart /\ q.ws = ws /\ q.phase = "ENTRYDO" /\ q.qual = e
      /\ q.active = p.active /\ q.en = p.en /\ q.mode = p.mode
  <2> HIDE DEF p
  <2> QED
    BY <1>1, <1>2, <1>4 DEF Chart, WorkPhases
<1> HIDE DEF q
<1>6. Calm(n, m, c) /\ m.chart[c] = q /\ m.step = n.step
  BY <1>5, SetChartCalm
<1> QED
  BY <1>3, <1>5, <1>6 DEF ws, e

(* Before the working state is performed.                                  *)
Look(n, c, a) == IF Looks(n, c) THEN Transit(Fresh(n, c, a), c) ELSE Fresh(n, c, a)

Looked(n, k, c, a) ==
  /\ StateReady(k, c, a)
  /\ Apart(n, k, c) /\ k.result = n.result /\ Roles(n, k, c)
  /\ c = MainChart /\ Owned(n) => Owned(k)
  /\ k.chart[c].en = n.chart[c].en /\ k.chart[c].mode = n.chart[c].mode
  /\ k.chart[c].active = n.chart[c].active
  /\ \A x \in StepsOf(c) : k.step[x].phase = n.step[x].phase

(* The working state that is performed, and how far it has come.           *)
LooksAt(n, k, c) ==
  IF Looks(n, c)
  THEN /\ k.chart[c].ws = NextWorkingState(n.chart[c].ws, n.chart[c].en)
       /\ k.chart[c].phase = "ENTRYDO"
       /\ k.chart[c].qual = IF k.chart[c].ws = n.chart[c].ws THEN n.chart[c].qual ELSE "ENTRY"
  ELSE /\ k.chart[c].ws = n.chart[c].ws /\ k.chart[c].phase = n.chart[c].phase
       /\ k.chart[c].qual = n.chart[c].qual

LEMMA LookRight ==
  ASSUME NEW n, NEW c \in Charts, Ready(n, c), Settled(n, c), ChartRight(n, c)
  PROVE  LET a == ActiveStep(n.chart[c].active)
         IN  Looked(n, Look(n, c, a), c, a) /\ LooksAt(n, Look(n, c, a), c)
<1> DEFINE a == ActiveStep(n.chart[c].active)
           m == Fresh(n, c, a)
           k == IF Looks(n, c) THEN Transit(m, c) ELSE m
<1>1. n \in Nets /\ n.chart[c] \in Chart /\ NoStep \notin Steps
  BY ChartAssumption DEF Ready, Nets
<1>2. \/ a = NoStep /\ n.chart[c].active = <<>>
      \/ a \in StepsOf(c) /\ n.chart[c].active = <<a>>
  <2>1. CASE n.chart[c].active = <<>>
    BY <2>1 DEF ActiveStep
  <2>2. ASSUME NEW s \in StepsOf(c), n.chart[c].active = <<s>>
        PROVE  a = s
    <3>1. <<s>> # <<>> /\ Head(<<s>>) = s
      OBVIOUS
    <3> QED
      BY <2>2, <3>1 DEF ActiveStep
  <2> QED
    BY <2>1, <2>2 DEF Settled
<1>3. Look(n, c, a) = k
  BY DEF Look
<1> HIDE DEF a
<1>4. /\ Calm(n, m, c)
      /\ m.chart[c].ws = n.chart[c].ws /\ m.chart[c].phase = n.chart[c].phase
      /\ m.chart[c].qual = n.chart[c].qual
      /\ \A x \in Steps : m.step[x].phase = n.step[x].phase
      /\ a # NoStep => m.step[a].mode = "OFF"
  BY <1>1, <1>2, FreshRight
<1> HIDE DEF m
<1>5. m \in Nets /\ m.chart[c].en = n.chart[c].en
  BY <1>4 DEF Calm, Local
<1>6. /\ Calm(m, Transit(m, c), c) /\ Transit(m, c).step = m.step
      /\ Transit(m, c).chart[c].phase = "ENTRYDO"
      /\ Transit(m, c).chart[c].ws = NextWorkingState(n.chart[c].ws, n.chart[c].en)
      /\ Transit(m, c).chart[c].qual =
           IF Transit(m, c).chart[c].ws = n.chart[c].ws THEN n.chart[c].qual ELSE "ENTRY"
  BY <1>4, <1>5, TransitRight
<1>7. Calm(n, k, c) /\ k.step = m.step
  <2>1. CASE Looks(n, c)
    BY <1>4, <1>6, <2>1, CalmTrans
  <2>2. CASE ~Looks(n, c)
    BY <1>4, <2>2
  <2> QED
    BY <2>1, <2>2
<1>8. /\ Looks(n, c) => /\ k.chart[c].phase = "ENTRYDO"
                        /\ k.chart[c].ws = NextWorkingState(n.chart[c].ws, n.chart[c].en)
      /\ ~Looks(n, c) => k.chart[c].phase = n.chart[c].phase /\ k.chart[c].ws = n.chart[c].ws
  BY <1>4, <1>6
<1>9. LooksAt(n, k, c)
  BY <1>4, <1>6 DEF LooksAt
<1> HIDE DEF k
<1>10. /\ Ready(k, c) /\ Settled(k, c) /\ Apart(n, k, c) /\ k.result = n.result
      /\ Roles(n, k, c) /\ (c = MainChart => (ModesOn(n) => ModesOn(k)) /\ (Owned(n) => Owned(k)))
  BY <1>7, CalmRight
<1>11. k.begun = n.begun /\ k.chart[c].active = n.chart[c].active
       /\ k.chart[c].en = n.chart[c].en /\ k.chart[c].mode = n.chart[c].mode
  BY <1>7 DEF Calm
<1>12. Asleep(k, c)
  <2> SUFFICES ASSUME NEW s \in StepsOf(c), n.chart[c].active = <<s>>
               PROVE  k.step[s].mode = "OFF"
    BY <1>11 DEF Asleep
  <2>1. a # NoStep /\ <<s>> = <<a>>
    BY <1>1, <1>2 DEF StepsOf
  <2>2. s = a
    BY <2>1
  <2> QED
    BY <1>4, <1>7, <2>1, <2>2
<1>13. /\ n.chart[c].ws \in {"INIT", "START", "BREAK", "STOP", "TERMINATE"}
       /\ n.chart[c].en \in Commands /\ n.chart[c].phase \in WorkPhases
  BY <1>1 DEF Chart
<1>14. ASSUME c = MainChart
       PROVE  /\ k.chart[c].ws # "INIT" => ModesOn(k)
              /\ k.chart[c].ws = "INIT" => k.begun = {} /\ k.chart[c].phase = "ENTRYDO"
  <2>1. MainRight(n)
    BY <1>14 DEF ChartRight
  <2>2. CASE Looks(n, c)
    <3>1. ModesOn(k)
      BY <1>10, <1>14, <2>1, <2>2 DEF Looks, MainRight
    <3>2. k.chart[c].ws = "INIT" => n.chart[c].ws = "INIT"
      BY <1>8, <1>13, <2>2, NextWorkingStateRight
    <3> QED
      BY <1>8, <1>11, <1>14, <2>1, <2>2, <3>1, <3>2 DEF MainRight
  <2>3. CASE ~Looks(n, c)
    <3>1. n.chart[c].ws # "INIT" => ModesOn(k)
      BY <1>10, <1>14, <2>1 DEF MainRight
    <3>2. n.chart[c].ws = "INIT" => n.begun = {} /\ n.chart[c].phase = "ENTRYDO"
      BY <1>13, <1>14, <2>1, <2>3 DEF MainRight, Looks, WorkPhases
    <3> QED
      BY <1>8, <1>11, <2>3, <3>1, <3>2
  <2> QED
    BY <2>2, <2>3
<1>15. ASSUME c # MainChart
       PROVE  /\ k.chart[c].ws # "BREAK" /\ k.chart[c].en \in {"START", "STOP"}
              /\ k.chart[c].en = "STOP" => k.chart[c].ws # "START"
  <2>1. SubRight(n, c)
    BY <1>15 DEF ChartRight
  <2>2. CASE Looks(n, c)
    BY <1>8, <1>11, <1>13, <2>1, <2>2, NextWorkingStateRight DEF SubRight
  <2>3. CASE ~Looks(n, c)
    BY <1>8, <1>11, <2>1, <2>3 DEF SubRight, Looks
  <2> QED
    BY <2>2, <2>3
<1>16. StateReady(k, c, a)
  BY <1>2, <1>10, <1>11, <1>12, <1>14, <1>15 DEF StateReady
<1>17. \A x \in StepsOf(c) : k.step[x].phase = n.step[x].phase
  BY <1>4, <1>7 DEF StepsOf
<1>18. Looked(n, k, c, a)
  BY <1>10, <1>11, <1>16, <1>17 DEF Looked
<1> QED
  BY <1>3, <1>18, <1>9 DEF a

(* The whole method.                                                       *)
LEMMA ChartMethodRight ==
  ASSUME NEW run, NEW n, NEW c \in Charts, c = MainChart => RunOK(run),
         Ready(n, c), Settled(n, c), ChartRight(n, c)
  PROVE  Performed(n, ChartMethod(run, n, c), c)
<1> DEFINE a == ActiveStep(n.chart[c].active)
           k == Look(n, c, a)
           e == DoState(run, k, c, a)
<1>1. ChartMethod(run, n, c) = e
  BY DEF ChartMethod, Look
<1>2. Looked(n, k, c, a)
  BY LookRight
<1> HIDE DEF a, k
<1>3. Performed(k, DoState(run, k, c, a), c)
  BY <1>2, DoStateRight DEF Looked
<1> HIDE DEF e
<1>4. Performed(k, e, c)
  BY <1>3 DEF e
<1>5. Performed(n, e, c)
  BY <1>2, <1>4, PerformedAfter DEF Looked
<1> QED
  BY <1>1, <1>5

----------------------------------------------------------------------------
(* A chart is executed.                                                    *)
ChartRan(n, m, c) ==
  /\ Ready(m, c) /\ Settled(m, c) /\ ChartRight(m, c)
  /\ m.result = n.result /\ \A x \in Charts : Roles(n, m, x)
  /\ c # MainChart => Others(n, m, c)
  /\ n.chart[c].mode = "ON" => m.chart[c].mode = "ON"
  /\ c # MainChart /\ n.chart[c].en = "STOP" /\ n.chart[c].mode # "OFF" => Ended(m, c)
  /\ c = MainChart /\ OnlyDo /\ Owned(n) => Owned(m)

(* The whole chart, with its method and its task list.                     *)
LEMMA ExecChartRight ==
  ASSUME NEW run, NEW n, NEW c \in Charts, c = MainChart => RunOK(run),
         Ready(n, c), Settled(n, c), ChartRight(n, c)
  PROVE  ChartRan(n, ExecChart(run, n, c), c)
<1>1. CASE n.chart[c].mode = "OFF"
  <2>1. ExecChart(run, n, c) = n
    BY <1>1 DEF ExecChart
  <2>2. Others(n, n, c) /\ \A x \in Charts : Roles(n, n, x)
    BY DEF Others, Same, Roles
  <2>3. ChartRan(n, n, c)
    BY <1>1, <2>2 DEF ChartRan
  <2> QED
    BY <2>1, <2>3
<1>2. CASE n.chart[c].mode # "OFF"
  <2> DEFINE k == ChartMethod(run, n, c)
             l == ExecActive(run, c)[k]
             r == [l.chart[c] EXCEPT !.mode = IF l.chart[c].mode = "ON" THEN "ON" ELSE "OFF"]
             m == SetChart(l, c, r)
  <2>1. Performed(n, k, c)
    BY ChartMethodRight
  <2> HIDE DEF k
  <2>2. Ready(k, c) /\ Settled(k, c)
    BY <2>1 DEF Performed
  <2>3. /\ Worked(k, l, c)
        /\ (\A s \in StepsOf(c) : k.chart[c].active = <<s>> => k.step[s].mode = "OFF") => l = k
    BY <2>2, ExecActiveRight
  <2> HIDE DEF l
  <2>4. k.chart[c].ws # "START" => l = k
    BY <2>1, <2>3 DEF Performed, Asleep
  <2>5. /\ Ready(l, c) /\ l \in Nets /\ l.chart[c] \in Chart /\ k \in Nets /\ k.chart[c] \in Chart
        /\ Settled(l, c) /\ Apart(k, l, c) /\ l.result = k.result /\ Roles(k, l, c)
    BY <2>2, <2>3 DEF Worked, Ready, Nets
  <2>6. ChartRan(n, l, c)
    <3>1. \A x \in Charts : Roles(k, l, x)
      <4> SUFFICES ASSUME NEW x \in Charts \ {c} PROVE Roles(k, l, x)
        BY <2>5
      <4>1. CASE c = MainChart
        BY <2>5, <4>1 DEF Apart, Near, SubCharts
      <4>2. CASE c # MainChart
        BY <2>5, <4>2, SameSound DEF Apart
      <4> QED
        BY <4>1, <4>2
    <3>2. \A x \in Charts : Roles(n, l, x)
      BY <2>1, <3>1 DEF Performed, Roles
    <3>3. c # MainChart => Others(n, l, c)
      BY <2>1, <2>5, SameTrans DEF Performed, Apart, Others
    <3>4. ChartRight(l, c)
      <4>1. CASE k.chart[c].ws # "START"
        BY <2>1, <2>4, <4>1 DEF Performed
      <4>2. CASE k.chart[c].ws = "START" /\ c = MainChart
        <5>1. ModesOn(k)
          BY <2>1, <4>2 DEF Performed, ChartRight, MainRight
        <5>2. ModesOn(l)
          BY <2>5, <4>2, <5>1 DEF Apart, Near, ModesOn
        <5>3. l.chart[c].ws # "INIT"
          BY <2>3, <4>2 DEF Worked, Goes
        <5> QED
          BY <4>2, <5>2, <5>3 DEF ChartRight, MainRight
      <4>3. CASE k.chart[c].ws = "START" /\ c # MainChart
        <5>1. SubRight(k, c)
          BY <2>1, <4>3 DEF Performed, ChartRight
        <5>2. SubRight(l, c)
          BY <2>3, <4>3, <5>1 DEF Worked, Goes, SubRight
        <5> QED
          BY <4>3, <5>2 DEF ChartRight
      <4> QED
        BY <4>1, <4>2, <4>3
    <3>5. n.chart[c].mode = "ON" => l.chart[c].mode = "ON"
      BY <2>1, <2>3 DEF Performed, Worked, Goes
    <3>6. c # MainChart /\ n.chart[c].en = "STOP" => Ended(l, c)
      BY <2>1, <2>4 DEF Performed
    <3>7. ASSUME c = MainChart, OnlyDo, Owned(n)
          PROVE  Owned(l)
      <4>1. Owned(k)
        BY <2>1, <3>7 DEF Performed
      <4>2. CASE k.chart[c].ws # "START"
        BY <2>4, <4>1, <4>2
      <4>3. CASE k.chart[c].ws = "START"
        <5>1. ModesOn(k)
          BY <2>1, <3>7, <4>3 DEF Performed, ChartRight, MainRight
        <5>2. StartSteps(l, MainChart) # {} => StartSteps(k, MainChart) # {}
          BY <2>5, <3>7 DEF StartSteps, Roles
        <5> QED
          BY <2>3, <3>7, <4>1, <5>1, <5>2 DEF Owned, Worked
      <4> QED
        BY <4>2, <4>3
    <3>8. l.result = n.result
      BY <2>1, <2>5 DEF Performed
    <3> QED
      BY <2>5, <3>2, <3>3, <3>4, <3>5, <3>6, <3>7, <3>8 DEF ChartRan
  <2>7. /\ r \in Chart /\ r.en = l.chart[c].en /\ r.ws = l.chart[c].ws
        /\ r.phase = l.chart[c].phase /\ r.active = l.chart[c].active
        /\ l.chart[c].mode = "ON" => r.mode = "ON"
    BY <2>5 DEF Chart
  <2>8. m = ExecChart(run, n, c)
    BY <1>2, <2>5 DEF k, l, ExecChart, SetChart, Nets, Chart
  <2> HIDE DEF r
  <2>9. /\ m \in Nets /\ m.chart[c] = r /\ m.step = l.step /\ m.begun = l.begun
        /\ m.result = l.result /\ Local(l, m, c)
    BY <2>5, <2>7, SetChartFacts, SetChartLocal
  <2> HIDE DEF m
  <2>10. ChartRan(n, m, c)
    <3>1. Ready(m, c) /\ Apart(l, m, c) /\ Others(l, m, c)
      BY <2>5, <2>9, LocalReady
    <3>2. Settled(m, c)
      BY <2>5, <2>7, <2>9 DEF Settled
    <3>3. c # MainChart => \A x \in {c} : SubRight(l, x) => SubRight(m, x)
      BY <2>7, <2>9 DEF SubRight
    <3>4. c = MainChart => /\ ModesOn(l) => ModesOn(m)
                           /\ OwnedBy(l, l.begun) => OwnedBy(m, m.begun)
      <4> SUFFICES ASSUME c = MainChart
                   PROVE  /\ ModesOn(l) => ModesOn(m)
                          /\ OwnedBy(l, l.begun) => OwnedBy(m, m.begun)
        OBVIOUS
      <4>1. \A d \in SubCharts : Same(l, m, d)
        BY <3>1 DEF Others, SubCharts
      <4>2. ModesOn(l) => ModesOn(m)
        BY <4>1 DEF ModesOn, Same
      <4>3. OwnedBy(l, l.begun) => OwnedBy(m, l.begun)
        BY <4>1, EndedStays
      <4> QED
        BY <2>9, <4>2, <4>3
    <3>5. ChartRight(m, c)
      <4>1. ChartRight(l, c)
        BY <2>6 DEF ChartRan
      <4>2. CASE c = MainChart
        BY <2>7, <2>9, <3>4, <4>1, <4>2 DEF ChartRight, MainRight
      <4>3. CASE c # MainChart
        BY <3>3, <4>1, <4>3 DEF ChartRight
      <4> QED
        BY <4>2, <4>3
    <3>6. \A x \in Charts : Roles(n, m, x)
      BY <2>6, <2>9 DEF ChartRan, Roles
    <3>7. c # MainChart => Others(n, m, c)
      BY <2>6, <3>1, SameTrans DEF ChartRan, Others
    <3>8. Ended(l, c) => Ended(m, c)
      BY <2>7, <2>9 DEF Ended
    <3>9. c = MainChart /\ Owned(l) => Owned(m)
      BY <2>9, <3>4 DEF Owned, StartSteps
    <3> QED
      BY <2>6, <2>7, <2>9, <3>1, <3>2, <3>5, <3>6, <3>7, <3>8, <3>9 DEF ChartRan
  <2> QED
    BY <2>8, <2>10
<1> QED
  BY <1>1, <1>2

(* The sub-charts run as the methods of their owners may expect.           *)
LEMMA SubChartsRunRight == RunOK(SubChartsRun)
<1> SUFFICES ASSUME NEW d \in SubCharts, NEW n \in Nets, Cycling(n), SubSound(n, d)
             PROVE  RunRight(n, SubChartsRun[d][n], d)
  BY DEF RunOK
<1> DEFINE m == ExecChart(Nothing, n, d)
<1>1. SubChartsRun[d][n] = m
  BY DEF SubChartsRun
<1>2. d \in Charts /\ d # MainChart
  BY DEF SubCharts
<1>3. Ready(n, d) /\ Settled(n, d) /\ ChartRight(n, d)
  BY <1>2 DEF Ready, SubSound, ChartRight
<1>4. ChartRan(n, m, d)
  BY <1>2, <1>3, ExecChartRight
<1> HIDE DEF m
<1>5. m \in Nets /\ Cycling(m) /\ SubSound(m, d)
  BY <1>2, <1>4 DEF ChartRan, Ready, ChartRight, SubSound
<1>6. Others(n, m, d) /\ Roles(n, m, d) /\ m.result = n.result
  BY <1>2, <1>4 DEF ChartRan
<1> QED
  BY <1>1, <1>2, <1>4, <1>5, <1>6 DEF ChartRan, RunRight

----------------------------------------------------------------------------
(* The inductive invariant.                                                *)
Sound(n) ==
  /\ n \in Nets /\ PairedTrace(n)
  /\ \A c \in Charts : Settled(n, c) /\ ChartRight(n, c)
  /\ OnlyDo => Owned(n)

(* The charts as their constructors make them.                             *)
LEMMA NewChartsSound == ChartInit => Sound(Net)
<1> SUFFICES ASSUME ChartInit PROVE Sound(Net)
  OBVIOUS
<1>1. \A c \in Charts : NewChart(c) \in Chart
  <2>1. <<>> \in Seq(Steps)
    OBVIOUS
  <2> QED
    BY <2>1 DEF NewChart, Chart, Commands, WorkPhases
<1>2. \A s \in Steps : NewStep(s) \in Step
  BY DEF NewStep, Step, WorkPhases
<1>3. Net.chart \in [Charts -> Chart] /\ Net.step \in [Steps -> Step]
  BY <1>1, <1>2 DEF ChartInit, Net
<1>4. /\ Net.result \in [Transitions -> BOOLEAN] /\ Net.trace = <<>> /\ Net.begun = {}
      /\ Net.trace \in Seq(Act)
  BY DEF ChartInit, Net
<1>5. Net \in Nets
  BY <1>3, <1>4 DEF Net, Nets
<1>6. ASSUME NEW c \in Charts PROVE Settled(Net, c) /\ ChartRight(Net, c)
  <2>1. /\ Net.chart[c].active = <<>> /\ Net.chart[c].ws = "INIT"
        /\ Net.chart[c].phase = "ENTRYDO" /\ Net.chart[c].en = "STOP"
    BY DEF ChartInit, Net, NewChart
  <2>2. \A s \in Steps : /\ Net.step[s].qual = "ENTRY" /\ ~Net.step[s].X
                         /\ Net.step[s].phase = "ENTRYDO"
    BY DEF ChartInit, Net, NewStep
  <2>3. Settled(Net, c)
    BY <1>4, <2>1, <2>2 DEF Settled, StepsOf
  <2>4. SubRight(Net, c)
    BY <2>1 DEF SubRight
  <2>5. c = MainChart => MainRight(Net)
    BY <1>4, <2>1 DEF MainRight
  <2> QED
    BY <2>3, <2>4, <2>5 DEF ChartRight
<1>7. PairedTrace(Net)
  BY <1>4 DEF PairedTrace
<1>8. Owned(Net)
  BY <1>4 DEF Owned, OwnedBy, Ended
<1> QED
  BY <1>5, <1>6, <1>7, <1>8 DEF Sound

(* A cycle.                                                                *)
LEMMA CycleSound == Sound(Net) /\ Cycle => Sound(Net)'
<1> SUFFICES ASSUME Sound(Net), Cycle PROVE Sound(Net)'
  OBVIOUS
<1> DEFINE e == [what |-> "cycle", who |-> NoStep, before |-> begun]
           n == Begins
           m == ExecChart(SubChartsRun, n, MainChart)
<1>0. MainChart \in Charts /\ MainChart \notin SubCharts /\ SubCharts \subseteq Charts
  BY ChartAssumption DEF SubCharts
<1>1. e \in Act /\ Paired(e)
  BY DEF Sound, Nets, Net, Act, Paired
<1> HIDE DEF e
<1>2. <<e>> \in Seq(Act) /\ \A i \in DOMAIN <<e>> : Paired(<<e>>[i])
  BY <1>1
<1>3. /\ n \in Nets /\ n.trace = <<e>> /\ n.chart = Net.chart /\ n.step = Net.step
      /\ n.begun = Net.begun /\ n.result = Net.result
  BY <1>2 DEF Begins, Sound, Nets, e
<1> HIDE DEF n
<1>4. Cycling(n)
  BY <1>2, <1>3 DEF Cycling
<1>5. \A c \in Charts : Settled(n, c) /\ ChartRight(n, c)
  <2> SUFFICES ASSUME NEW c \in Charts PROVE Settled(n, c) /\ ChartRight(n, c)
    OBVIOUS
  <2>1. Settled(Net, c) /\ ChartRight(Net, c)
    BY DEF Sound
  <2>2. Settled(n, c)
    BY <1>3, <2>1 DEF Settled
  <2>3. SubRight(Net, c) => SubRight(n, c)
    BY <1>3 DEF SubRight
  <2>4. MainRight(Net) => MainRight(n)
    BY <1>3 DEF MainRight, ModesOn
  <2> QED
    BY <2>1, <2>2, <2>3, <2>4 DEF ChartRight
<1>6. OnlyDo => Owned(n)
  BY <1>3 DEF Sound, Owned, OwnedBy, Ended, StartSteps
<1>7. Ready(n, MainChart)
  BY <1>0, <1>3, <1>4, <1>5 DEF Ready, SubSound, ChartRight
<1>8. Settled(n, MainChart) /\ ChartRight(n, MainChart)
  BY <1>0, <1>5
<1>9. ChartRan(n, m, MainChart)
  BY <1>0, <1>7, <1>8, SubChartsRunRight, ExecChartRight
<1>10. NetBecomes(m)
  BY DEF Cycle, n
<1> HIDE DEF m
<1>11. m \in Nets /\ Ready(m, MainChart)
  BY <1>9 DEF ChartRan, Ready
<1>12. Net' = m
  BY <1>10, <1>11 DEF NetBecomes, Net, Nets
<1>13. \A c \in Charts : Settled(m, c) /\ ChartRight(m, c)
  <2> SUFFICES ASSUME NEW c \in Charts PROVE Settled(m, c) /\ ChartRight(m, c)
    OBVIOUS
  <2>1. CASE c = MainChart
    BY <1>9, <2>1 DEF ChartRan
  <2>2. CASE c # MainChart
    BY <1>11, <2>2 DEF Ready, SubSound, ChartRight, SubCharts
  <2> QED
    BY <2>1, <2>2
<1>14. OnlyDo => Owned(m)
  BY <1>6, <1>9 DEF ChartRan
<1>15. Sound(m)
  BY <1>11, <1>13, <1>14 DEF Sound, Ready, Cycling, PairedTrace
<1> QED
  BY <1>12, <1>15

(* What clients may do between two cycles.                                 *)
Served(n, m) ==
  /\ m \in Nets /\ m.trace = <<>> /\ m.begun = n.begun
  /\ \A c \in Charts :
       /\ m.chart[c].active = n.chart[c].active /\ m.chart[c].ws = n.chart[c].ws
       /\ m.chart[c].phase = n.chart[c].phase /\ m.chart[c].mode = n.chart[c].mode
       /\ m.chart[c].qual = n.chart[c].qual
       /\ c # MainChart => m.chart[c].en = n.chart[c].en
  /\ \A s \in Steps :
       /\ m.step[s].qual = n.step[s].qual /\ m.step[s].entry = n.step[s].entry
       /\ m.step[s].X = n.step[s].X /\ m.step[s].phase = n.step[s].phase
  /\ \/ StartSteps(m, MainChart) \subseteq StartSteps(n, MainChart)
     \/ n.chart[MainChart].ws = "INIT"

LEMMA ServedSound ==
  ASSUME NEW n, NEW m, Sound(n), Served(n, m)
  PROVE  Sound(m)
<1>0. MainChart \in Charts /\ SubCharts \subseteq Charts /\ \A c : StepsOf(c) \subseteq Steps
  BY ChartAssumption DEF SubCharts, StepsOf
<1>1. ASSUME NEW c \in Charts PROVE Settled(m, c) /\ ChartRight(m, c)
  <2>1. Settled(n, c) /\ ChartRight(n, c)
    BY DEF Sound
  <2>2. Settled(m, c)
    <3>1. m.chart[c].active = n.chart[c].active /\ m.begun = n.begun
      BY DEF Served
    <3>2. \A s \in StepsOf(c) :
            /\ m.step[s].qual = n.step[s].qual /\ m.step[s].entry = n.step[s].entry
            /\ m.step[s].X = n.step[s].X /\ m.step[s].phase = n.step[s].phase
      BY <1>0 DEF Served
    <3> QED
      BY <2>1, <3>1, <3>2 DEF Settled
  <2>3. c # MainChart /\ SubRight(n, c) => SubRight(m, c)
    BY DEF Served, SubRight
  <2>4. MainRight(n) => MainRight(m)
    BY <1>0 DEF Served, MainRight, ModesOn
  <2> QED
    BY <2>1, <2>2, <2>3, <2>4 DEF ChartRight
<1>2. PairedTrace(m)
  BY DEF PairedTrace, Served
<1>3. ASSUME OnlyDo PROVE Owned(m)
  <2>1. \A d \in SubCharts : Ended(n, d) => Ended(m, d)
    BY <1>0 DEF Served, Ended
  <2>2. CASE n.chart[MainChart].ws = "INIT"
    <3>1. MainRight(n)
      BY <1>0 DEF Sound, ChartRight
    <3>2. m.begun = {}
      BY <2>2, <3>1 DEF MainRight, Served
    <3> QED
      BY <3>2 DEF Owned, OwnedBy, Ended
  <2>3. CASE StartSteps(m, MainChart) \subseteq StartSteps(n, MainChart)
    BY <1>3, <2>1, <2>3 DEF Sound, Owned, OwnedBy, Served
  <2> QED
    BY <2>2, <2>3 DEF Served
<1> QED
  BY <1>1, <1>2, <1>3 DEF Sound, Served

(* Each of the acts of clients.                                            *)
LEMMA CommandSound ==
  ASSUME Sound(Net), NEW c \in Commands, Command(c)
  PROVE  Sound(Net)' /\ Served(Net, Net')
<1>0. MainChart \in Charts
  BY ChartAssumption
<1>1. chart \in [Charts -> Chart] /\ step \in [Steps -> Step] /\ Net \in Nets
  BY DEF Sound, Net, Nets
<1> DEFINE r == [chart[MainChart] EXCEPT !.en = c]
<1>2. /\ r \in Chart /\ r.active = chart[MainChart].active /\ r.ws = chart[MainChart].ws
      /\ r.phase = chart[MainChart].phase /\ r.mode = chart[MainChart].mode
      /\ r.qual = chart[MainChart].qual
  BY <1>0, <1>1 DEF Chart
<1>3. chart' = [chart EXCEPT ![MainChart] = r]
  BY <1>1 DEF Command
<1> HIDE DEF r
<1>4. /\ chart' \in [Charts -> Chart] /\ chart'[MainChart] = r
      /\ \A x \in Charts \ {MainChart} : chart'[x] = chart[x]
  BY <1>0, <1>1, <1>2, <1>3
<1>5. step' = step /\ begun' = begun /\ trace' = <<>> /\ results' = results
  BY DEF Command, Quiet
<1>6. Net' \in Nets
  BY <1>1, <1>4, <1>5 DEF Net, Nets
<1>7. Served(Net, Net')
  BY <1>0, <1>2, <1>4, <1>5, <1>6 DEF Served, Net, StartSteps
<1>8. Sound(Net')
  BY <1>7, ServedSound
<1> QED
  BY <1>7, <1>8

LEMMA SetResultSound ==
  ASSUME Sound(Net), NEW t \in Transitions, SetResult(t)
  PROVE  Sound(Net)' /\ Served(Net, Net')
<1>1. results \in [Transitions -> BOOLEAN] /\ Net \in Nets
  BY DEF Sound, Net, Nets
<1>2. results' \in [Transitions -> BOOLEAN]
  BY <1>1 DEF SetResult
<1>3. step' = step /\ chart' = chart /\ begun' = begun /\ trace' = <<>>
  BY DEF SetResult, Quiet
<1>4. Net' \in Nets
  BY <1>1, <1>2, <1>3 DEF Net, Nets
<1>5. Served(Net, Net')
  BY <1>3, <1>4 DEF Served, Net, StartSteps
<1>6. Sound(Net')
  BY <1>5, ServedSound
<1> QED
  BY <1>5, <1>6

LEMMA SetInitStepSound ==
  ASSUME Sound(Net), NEW s \in InitSteps, SetInitStep(s)
  PROVE  Sound(Net)' /\ Served(Net, Net')
<1> DEFINE c == ChartOf[s]
           role(x) == IF x = s THEN "START" ELSE IF step[x].role = "END" THEN "END" ELSE "NORMAL"
           named(x) == [step[x] EXCEPT !.role = role(x), !.mode = IF x = s THEN "ON" ELSE "OFF"]
<1>1. step \in [Steps -> Step] /\ Net \in Nets /\ s \in Steps
  BY ChartAssumption DEF Sound, Net, Nets
<1>2. \A x \in Steps : /\ named(x) \in Step
                       /\ named(x).qual = step[x].qual /\ named(x).entry = step[x].entry
                       /\ named(x).X = step[x].X /\ named(x).phase = step[x].phase
  BY <1>1 DEF Step
<1>3. step' = [x \in Steps |-> IF ChartOf[x] = c THEN named(x) ELSE step[x]]
  BY DEF SetInitStep
<1> HIDE DEF named
<1>4. /\ step' \in [Steps -> Step]
      /\ \A x \in Steps : /\ step'[x].qual = step[x].qual /\ step'[x].entry = step[x].entry
                          /\ step'[x].X = step[x].X /\ step'[x].phase = step[x].phase
      /\ \A x \in Steps : ChartOf[x] # c => step'[x] = step[x]
  BY <1>1, <1>2, <1>3
<1>5. /\ chart' = chart /\ begun' = begun /\ trace' = <<>> /\ results' = results
      /\ chart[c].ws = "INIT"
  BY DEF SetInitStep, Quiet
<1>6. Net' \in Nets
  BY <1>1, <1>4, <1>5 DEF Net, Nets
<1>7. StartSteps(Net', MainChart) \subseteq StartSteps(Net, MainChart) \/ Net.chart[MainChart].ws = "INIT"
  <2>1. CASE c = MainChart
    BY <1>5, <2>1 DEF Net
  <2>2. CASE c # MainChart
    BY <1>4, <2>2 DEF StartSteps, StepsOf, Net
  <2> QED
    BY <2>1, <2>2
<1>8. Served(Net, Net')
  BY <1>4, <1>5, <1>6, <1>7 DEF Served, Net
<1>9. Sound(Net')
  BY <1>8, ServedSound
<1> QED
  BY <1>8, <1>9

LEMMA SetEndStepSound ==
  ASSUME Sound(Net), NEW s \in EndSteps, SetEndStep(s)
  PROVE  Sound(Net)' /\ Served(Net, Net')
<1> DEFINE r == [step[s] EXCEPT !.role = "END"]
<1>1. step \in [Steps -> Step] /\ Net \in Nets /\ s \in Steps
  BY ChartAssumption DEF Sound, Net, Nets
<1>2. /\ r \in Step /\ r.role = "END" /\ r.qual = step[s].qual /\ r.entry = step[s].entry
      /\ r.X = step[s].X /\ r.phase = step[s].phase
  BY <1>1 DEF Step
<1>3. step' = [step EXCEPT ![s] = r]
  BY <1>1 DEF SetEndStep
<1> HIDE DEF r
<1>4. /\ step' \in [Steps -> Step] /\ step'[s] = r
      /\ \A x \in Steps \ {s} : step'[x] = step[x]
  BY <1>1, <1>2, <1>3
<1>5. \A x \in Steps : /\ step'[x].qual = step[x].qual /\ step'[x].entry = step[x].entry
                       /\ step'[x].X = step[x].X /\ step'[x].phase = step[x].phase
                       /\ step'[x].role = "START" => step[x].role = "START"
  BY <1>2, <1>4
<1>6. chart' = chart /\ begun' = begun /\ trace' = <<>> /\ results' = results
  BY DEF SetEndStep, Quiet
<1>7. Net' \in Nets
  BY <1>1, <1>4, <1>6 DEF Net, Nets
<1>8. StartSteps(Net', MainChart) \subseteq StartSteps(Net, MainChart)
  BY <1>5 DEF StartSteps, StepsOf, Net
<1>9. Served(Net, Net')
  BY <1>5, <1>6, <1>7, <1>8 DEF Served, Net
<1>10. Sound(Net')
  BY <1>9, ServedSound
<1> QED
  BY <1>9, <1>10

(* Every step of the specification preserves the invariant.                *)
LEMMA SoundStays == Sound(Net) /\ [ChartNext]_chartVars => Sound(Net)'
<1> SUFFICES ASSUME Sound(Net), [ChartNext]_chartVars PROVE Sound(Net)'
  OBVIOUS
<1>1. CASE Cycle
  BY <1>1, CycleSound
<1>2. ASSUME NEW e \in Commands, Command(e) PROVE Sound(Net)'
  BY <1>2, CommandSound
<1>3. ASSUME NEW t \in Transitions, SetResult(t) PROVE Sound(Net)'
  BY <1>3, SetResultSound
<1>4. ASSUME NEW s \in InitSteps, SetInitStep(s) PROVE Sound(Net)'
  BY <1>4, SetInitStepSound
<1>5. ASSUME NEW s \in EndSteps, SetEndStep(s) PROVE Sound(Net)'
  BY <1>5, SetEndStepSound
<1>6. CASE UNCHANGED chartVars
  <2>1. Net' = Net
    BY <1>6 DEF chartVars, Net
  <2> QED
    BY <2>1
<1> QED
  BY <1>1, <1>2, <1>3, <1>4, <1>5, <1>6 DEF ChartNext

(* The variables keep their types, what a cycle performs is paired, steps  *)
(* and charts are settled between two cycles, sub-charts are on from the   *)
(* first reset of the main chart, and sub-charts that run have an owner.   *)
THEOREM ChartsStaySound == ChartSpec => []Sound(Net)
<1>1. ChartInit => Sound(Net)
  BY NewChartsSound
<1>2. Sound(Net) /\ [ChartNext]_chartVars => Sound(Net)'
  BY SoundStays
<1> QED
  BY <1>1, <1>2, PTL DEF ChartSpec

(* The exit actions of a step follow its entry actions, and its entry      *)
(* actions are not repeated before: for every chart, every nesting of      *)
(* sub-charts in actions and every command.                                *)
THEOREM EntryAndExitPaired == ChartSpec => EntryExitPaired
<1>1. Sound(Net)' => [\A i \in DOMAIN trace' : Paired(trace'[i])]_chartVars
  BY DEF Sound, PairedTrace, Net
<1>2. ChartSpec => []Sound(Net)
  BY ChartsStaySound
<1> QED
  BY <1>1, <1>2, PTL DEF EntryExitPaired

(* A chart never has two active steps, and only its active step is begun.  *)
LEMMA OneStepSound == Sound(Net) => OneActiveStep
<1> SUFFICES ASSUME Sound(Net), NEW c \in Charts
             PROVE  LET linked == ToSet(chart[c].active)
                        flagged == {s \in StepsOf(c) : step[s].X}
                    IN  /\ Len(chart[c].active) <= 1 /\ linked \subseteq StepsOf(c)
                        /\ flagged \subseteq linked \cap begun
                        /\ begun \cap StepsOf(c) \subseteq linked
  BY DEF OneActiveStep
<1>1. Settled(Net, c)
  BY DEF Sound
<1>2. \A s \in StepsOf(c) : /\ step[s].X => s \in begun
                            /\ s \in begun => chart[c].active = <<s>>
  BY <1>1 DEF Settled, Net
<1>3. CASE chart[c].active = <<>>
  <2>1. Len(<<>>) = 0 /\ ToSet(<<>>) = {} /\ \A s : <<s>> # <<>>
    BY DEF ToSet
  <2> QED
    BY <1>2, <1>3, <2>1
<1>4. ASSUME NEW a \in StepsOf(c), chart[c].active = <<a>>
      PROVE  /\ Len(chart[c].active) <= 1 /\ ToSet(chart[c].active) = {a}
             /\ \A s : chart[c].active = <<s>> => s = a
  <2>1. Len(<<a>>) = 1 /\ ToSet(<<a>>) = {a} /\ \A s : <<a>> = <<s>> => s = a
    BY DEF ToSet
  <2> QED
    BY <1>4, <2>1
<1>5. CASE \E a \in StepsOf(c) : chart[c].active = <<a>>
  <2>1. PICK a \in StepsOf(c) : chart[c].active = <<a>>
    BY <1>5
  <2>2. /\ Len(chart[c].active) <= 1 /\ ToSet(chart[c].active) = {a}
        /\ \A s : chart[c].active = <<s>> => s = a
    BY <1>4, <2>1
  <2> QED
    BY <1>2, <2>2
<1> QED
  BY <1>1, <1>3, <1>5 DEF Settled, Net

(* A sub-chart that runs has an owner.                                     *)
LEMMA OwnersSound == OnlyDo /\ Sound(Net) => SubStepNeedsOwner
<1> SUFFICES ASSUME OnlyDo, Sound(Net), StartStep # NoStep,
                    NEW d \in SubCharts, NEW s \in begun,
                    ChartOf[s] = d, chart[d].ws # "TERMINATE"
             PROVE  \E o \in begun : \E q \in {"entry", "do", "exit"} : Executes[o][q] = d
  BY DEF SubStepNeedsOwner
<1>1. StartSteps(Net, MainChart) # {}
  BY DEF StartStep, StartSteps, MainSteps, Net
<1>2. OwnedBy(Net, begun)
  BY <1>1 DEF Sound, Owned, Net
<1>3. s \in StepsOf(d)
  BY DEF Sound, Nets, Net, StepsOf
<1>4. ~Ended(Net, d)
  BY <1>3 DEF Ended, Net
<1> QED
  BY <1>2, <1>4 DEF OwnedBy

(* One chart has at most one step linked to its task list, only that step  *)
(* can have X set, and it has been entered.                                *)
THEOREM OneStepActive == ChartSpec => []OneActiveStep
BY ChartsStaySound, OneStepSound, PTL

(* A running sub-chart has an owner: a step that has begun and whose do    *)
(* actions run it.                                                         *)
THEOREM StepsStaySound ==
  ASSUME OnlyDo
  PROVE  ChartSpec => []StepsSound
<1>1. Sound(Net) => StepsSound
  BY OneStepSound, OwnersSound DEF StepsSound
<1>2. ChartSpec => []Sound(Net)
  BY ChartsStaySound
<1> QED
  BY <1>1, <1>2, PTL

----------------------------------------------------------------------------
(* The main chart implements ChartMachine, if its sub-charts keep a start  *)
(* step.                                                                   *)

(* Every sub-chart has a start step that clients do not make an end step.  *)
SubStarts(n) == \A d \in SubCharts : StartSteps(n, d) \ EndSteps # {}

LEMMA SubStartsStay ==
  ASSUME NEW n, NEW m, SubStarts(n), \A d \in SubCharts : Roles(n, m, d)
  PROVE  SubStarts(m)
BY DEF SubStarts, Roles, StartSteps

(* A reset of the main chart, which fails only for want of a start step.   *)
ResetTo(n, m) ==
  LET r == n.chart[MainChart]
      q == m.chart[MainChart]
  IN  /\ q.ws = r.ws /\ q.en = r.en /\ q.qual = r.qual /\ q.active = Started(n, MainChart)
      /\ q.phase = IF StartSteps(n, MainChart) = {} THEN r.phase ELSE "EXITTRANS"
      /\ \A s \in StepsOf(MainChart) : m.step[s].phase = "ENTRYDO"

LEMMA MainResetFails ==
  ASSUME NEW n, SubStarts(n)
  PROVE  ResetFails(n, MainChart) <=> StartSteps(n, MainChart) = {}
<1>1. CASE StartSteps(n, MainChart) = {}
  BY <1>1 DEF ResetFails, Reset
<1>2. CASE StartSteps(n, MainChart) # {}
  <2>1. \A d \in Charts : d # MainChart => StartSteps(n, d) # {}
    BY DEF SubStarts, SubCharts
  <2> QED
    BY <1>2, <2>1 DEF ResetFails, Reset
<1> QED
  BY <1>1, <1>2

LEMMA DoResetExact ==
  ASSUME NEW n, BeforeReset(n, MainChart), SubStarts(n)
  PROVE  ResetTo(n, DoReset(n, MainChart))
<1> DEFINE k == ResetSsc(n, MainChart)
           m == Done(MainChart)[k]
<1>1. MainChart \in Charts
  BY ChartAssumption
<1>2. WasReset(n, k, MainChart)
  BY <1>1, ResetSscRight DEF BeforeReset
<1> HIDE DEF k
<1>3. k \in Nets /\ \A s \in StepsOf(MainChart) : k.step[s].phase = "ENTRYDO"
  BY <1>2 DEF WasReset, Ready, Off
<1>4. /\ m.step = k.step /\ m.chart[MainChart].phase = "EXITTRANS"
      /\ m.chart[MainChart].active = k.chart[MainChart].active
      /\ m.chart[MainChart].ws = k.chart[MainChart].ws
      /\ m.chart[MainChart].en = k.chart[MainChart].en
      /\ m.chart[MainChart].qual = k.chart[MainChart].qual
  BY <1>1, <1>3, DoneRight
<1>5. CASE StartSteps(n, MainChart) = {}
  <2>1. DoReset(n, MainChart) = k
    BY <1>5, MainResetFails DEF DoReset, k
  <2> QED
    BY <1>2, <1>3, <1>5, <2>1 DEF WasReset, ResetTo
<1>6. CASE StartSteps(n, MainChart) # {}
  <2>1. DoReset(n, MainChart) = m
    BY <1>6, MainResetFails DEF DoReset, k
  <2> HIDE DEF m
  <2> QED
    BY <1>2, <1>3, <1>4, <1>6, <2>1 DEF WasReset, ResetTo
<1> QED
  BY <1>5, <1>6

(* What the working state START does, before the task list is executed.    *)
StartTo(n, m, a) ==
  LET r == n.chart[MainChart]
      q == m.chart[MainChart]
  IN  /\ q.ws = r.ws /\ q.en = r.en /\ q.active = r.active
      /\ q.phase = "EXITTRANS" /\ q.qual = r.qual
      /\ m.result = n.result /\ \A s \in StepsOf(MainChart) : m.step[s].phase = n.step[s].phase
      /\ a # NoStep => m.step[a].mode = "ON"

LEMMA DoStartExact ==
  ASSUME NEW n \in Nets, NEW a, a = NoStep \/ a \in StepsOf(MainChart)
  PROVE  StartTo(n, DoStart(n, MainChart, a), a)
<1>1. MainChart \in Charts /\ NoStep \notin Steps
  BY ChartAssumption
<1>2. ASSUME NEW k \in Nets, k.chart = n.chart, k.result = n.result,
             \A s \in StepsOf(MainChart) : k.step[s].phase = n.step[s].phase,
             a # NoStep => k.step[a].mode = "ON"
      PROVE  StartTo(n, Done(MainChart)[k], a)
  <2> DEFINE m == Done(MainChart)[k]
  <2>1. /\ Local(k, m, MainChart) /\ m.step = k.step /\ m.chart[MainChart].phase = "EXITTRANS"
        /\ m.chart[MainChart].active = k.chart[MainChart].active
        /\ m.chart[MainChart].ws = k.chart[MainChart].ws
        /\ m.chart[MainChart].en = k.chart[MainChart].en
        /\ m.chart[MainChart].qual = k.chart[MainChart].qual
    BY <1>1, DoneRight
  <2> HIDE DEF m
  <2>2. StartTo(n, m, a)
    BY <1>2, <2>1 DEF StartTo, Local
  <2> QED
    BY <2>2 DEF m
<1>3. CASE a = NoStep
  <2>1. StartTo(n, Done(MainChart)[n], a)
    BY <1>2, <1>3
  <2> QED
    BY <1>3, <2>1 DEF DoStart
<1>4. CASE a # NoStep
  <2> DEFINE r == [n.step[a] EXCEPT !.mode = "ON"]
             k == SetStep(n, a, r)
  <2>1. a \in Steps /\ n.step[a] \in Step
    BY <1>4 DEF StepsOf, Nets
  <2>2. r \in Step /\ r.phase = n.step[a].phase /\ r.mode = "ON"
    BY <2>1 DEF Step
  <2>3. DoStart(n, MainChart, a) = Done(MainChart)[k]
    BY <1>4, <2>1 DEF DoStart, SetStep
  <2> HIDE DEF r
  <2>4. /\ k \in Nets /\ k.chart = n.chart /\ k.result = n.result /\ k.step[a] = r
        /\ \A x \in Steps \ {a} : k.step[x] = n.step[x]
    BY <2>1, <2>2, SetStepFacts
  <2> HIDE DEF k
  <2>5. \A s \in StepsOf(MainChart) : k.step[s].phase = n.step[s].phase
    BY <2>2, <2>4 DEF StepsOf
  <2>6. k.step[a].mode = "ON"
    BY <2>2, <2>4
  <2>7. StartTo(n, Done(MainChart)[k], a)
    BY <1>2, <2>4, <2>5, <2>6
  <2> QED
    BY <2>3, <2>7
<1> QED
  BY <1>3, <1>4

(* BREAK.                                                                  *)
BreakTo(n, m, a) ==
  LET r == n.chart[MainChart]
      q == m.chart[MainChart]
  IN  /\ q.ws = r.ws /\ q.en = r.en /\ q.active = r.active /\ q.phase = "EXITTRANS"
      /\ a # NoStep => m.step[a].phase = "ENTRYDO"

LEMMA DoBreakExact ==
  ASSUME NEW n \in Nets, NEW a, a = NoStep \/ a \in StepsOf(MainChart)
  PROVE  BreakTo(n, DoBreak(n, MainChart, a), a)
<1>1. MainChart \in Charts /\ NoStep \notin Steps
  BY ChartAssumption
<1>2. ASSUME NEW k \in Nets, k.chart = n.chart, a # NoStep => k.step[a].phase = "ENTRYDO"
      PROVE  BreakTo(n, Done(MainChart)[k], a)
  <2> DEFINE m == Done(MainChart)[k]
  <2>1. /\ m.step = k.step /\ m.chart[MainChart].phase = "EXITTRANS"
        /\ m.chart[MainChart].active = k.chart[MainChart].active
        /\ m.chart[MainChart].ws = k.chart[MainChart].ws
        /\ m.chart[MainChart].en = k.chart[MainChart].en
    BY <1>1, DoneRight
  <2> HIDE DEF m
  <2>2. BreakTo(n, m, a)
    BY <1>2, <2>1 DEF BreakTo
  <2> QED
    BY <2>2 DEF m
<1>3. CASE a = NoStep
  <2>1. BreakTo(n, Done(MainChart)[n], a)
    BY <1>2, <1>3
  <2> QED
    BY <1>3, <2>1 DEF DoBreak
<1>4. CASE a # NoStep
  <2> DEFINE r == [n.step[a] EXCEPT !.mode = "OFF", !.phase = "ENTRYDO", !.X = FALSE]
             k == SetStep(n, a, r)
  <2>1. a \in Steps /\ n.step[a] \in Step
    BY <1>4 DEF StepsOf, Nets
  <2>2. r \in Step /\ r.phase = "ENTRYDO"
    BY <2>1 DEF Step, WorkPhases
  <2>3. DoBreak(n, MainChart, a) = Done(MainChart)[k]
    BY <1>4, <2>1 DEF DoBreak, SetStep
  <2> HIDE DEF r
  <2>4. k \in Nets /\ k.chart = n.chart /\ k.step[a] = r
    BY <2>1, <2>2, SetStepFacts
  <2> HIDE DEF k
  <2>5. k.step[a].phase = "ENTRYDO"
    BY <2>2, <2>4
  <2>6. BreakTo(n, Done(MainChart)[k], a)
    BY <1>2, <2>4, <2>5
  <2> QED
    BY <2>3, <2>6
<1> QED
  BY <1>3, <1>4

(* Roles alone decide what a reset links.                                  *)
LEMMA StartedStays ==
  ASSUME NEW n, NEW m, NEW d, Roles(n, m, d)
  PROVE  StartSteps(m, d) = StartSteps(n, d) /\ Started(m, d) = Started(n, d)
<1>1. StartSteps(m, d) = StartSteps(n, d)
  BY DEF StartSteps, Roles
<1> QED
  BY <1>1 DEF Started

(* STOP: the working state that the last execution of active step a leaves *)
(* behind.                                                                 *)
StopAt(n, a) ==
  IF a = NoStep THEN "STOP"
  ELSE IF Keeps(n, MainChart, a) THEN WorkingAt(n, MainChart, a)
  ELSE IF NextStep(n.result, a) = NoStep THEN "STOP"
  ELSE WorkingAt(n, MainChart, NextStep(n.result, a))

StopTo(n, m, a) ==
  LET r == n.chart[MainChart]
      q == m.chart[MainChart]
  IN  /\ q.ws = IF r.qual = "ENTRY" THEN StopAt(n, a) ELSE "STOP"
      /\ q.en = r.en /\ q.qual = "DO" /\ q.active = Started(n, MainChart)
      /\ q.phase = IF StartSteps(n, MainChart) = {} THEN r.phase ELSE "EXITTRANS"
      /\ \A s \in StepsOf(MainChart) : m.step[s].phase = "ENTRYDO"

LEMMA StoppedExact ==
  ASSUME NEW run, RunOK(run), NEW n, NEW a, StateReady(n, MainChart, a),
         n.chart[MainChart].ws = "STOP"
  PROVE  Stopped(run, n, MainChart, a).chart[MainChart].ws =
           IF n.chart[MainChart].qual = "ENTRY" THEN StopAt(n, a) ELSE "STOP"
<1> DEFINE c == MainChart
           m == Stopped(run, n, c, a)
<1>1. c \in Charts /\ n \in Nets /\ n.chart[c] \in Chart /\ Ready(n, c) /\ Settled(n, c)
  BY ChartAssumption DEF StateReady, Ready, Nets
<1>2. CASE n.chart[c].qual # "ENTRY"
  BY <1>2 DEF Stopped
<1>3. CASE n.chart[c].qual = "ENTRY" /\ a = NoStep
  <2>1. m = [n EXCEPT !.chart[c].error = TRUE]
    BY <1>3 DEF Stopped
  <2>2. m.chart[c].ws = "STOP"
    BY <1>1, <2>1 DEF Nets, Chart
  <2> QED
    BY <1>3, <2>2 DEF StopAt
<1>4. CASE n.chart[c].qual = "ENTRY" /\ a # NoStep
  <2>1. m = StepMethod(run, n, a)
    BY <1>4 DEF Stopped
  <2>2. a \in StepsOf(c) /\ n.chart[c].active = <<a>>
    BY <1>4 DEF StateReady
  <2>3. /\ Keeps(n, c, a) => StepMethod(run, n, a) = EntryDo(n, a)
        /\ ~Keeps(n, c, a) => Left(n, StepMethod(run, n, a), c, a, NextStep(n.result, a))
    BY <1>1, <2>2, StepMethodRight
  <2>4. EntryDo(n, a).chart[c].ws = WorkingAt(n, c, a)
    BY <1>1, <2>2, EntryDoFacts
  <2>5. CASE Keeps(n, c, a)
    BY <1>4, <2>1, <2>3, <2>4, <2>5 DEF StopAt
  <2>6. CASE ~Keeps(n, c, a)
    <3>1. LeftFor(n, m, c, NextStep(n.result, a))
      BY <2>1, <2>3, <2>6 DEF Left
    <3> HIDE DEF m
    <3>2. m.chart[c].ws = StopAt(n, a)
      BY <1>4, <2>6, <3>1 DEF LeftFor, StopAt
    <3> QED
      BY <1>4, <3>2 DEF m
  <2> QED
    BY <2>5, <2>6
<1> QED
  BY <1>2, <1>3, <1>4

LEMMA DoStopExact ==
  ASSUME NEW run, RunOK(run), NEW n, NEW a, StateReady(n, MainChart, a), SubStarts(n),
         n.chart[MainChart].ws = "STOP"
  PROVE  StopTo(n, DoStop(run, n, MainChart, a), a)
<1> DEFINE k == Stopped(run, n, MainChart, a)
           l == InDo(k, MainChart)
           m == DoReset(l, MainChart)
<1>1. MainChart \in Charts
  BY ChartAssumption
<1>2. DoStop(run, n, MainChart, a) = m
  BY DEF DoStop, InDo
<1>3. HaltsFor(n, k, l, MainChart)
  BY <1>1, StoppedBefore
<1>4. k.chart[MainChart].ws = IF n.chart[MainChart].qual = "ENTRY" THEN StopAt(n, a) ELSE "STOP"
  BY StoppedExact
<1> HIDE DEF k, l
<1>5. SubStarts(l)
  <2>1. \A d \in SubCharts : Roles(n, l, d)
    BY <1>3 DEF HaltsFor, Apart, Near
  <2> QED
    BY <2>1, SubStartsStay
<1>6. ResetTo(l, m)
  BY <1>3, <1>5, DoResetExact DEF HaltsFor
<1>7. StartSteps(l, MainChart) = StartSteps(n, MainChart) /\ Started(l, MainChart) = Started(n, MainChart)
  BY <1>3, StartedStays DEF HaltsFor
<1> HIDE DEF m
<1>8. StopTo(n, m, a)
  BY <1>3, <1>4, <1>6, <1>7 DEF HaltsFor, ResetTo, StopTo
<1> QED
  BY <1>2, <1>8

(* TERMINATE.                                                              *)
TerminateTo(n, m) ==
  LET r == n.chart[MainChart]
      q == m.chart[MainChart]
  IN  /\ r.en # "RESET" => m = n
      /\ r.en = "RESET" /\ StartSteps(n, MainChart) = {} =>
           q.ws = "TERMINATE" /\ q.en = r.en /\ q.active = <<>>
      /\ r.en = "RESET" /\ StartSteps(n, MainChart) # {} =>
           /\ q.ws = "INIT" /\ q.en = "STOP" /\ q.active = Started(n, MainChart)
           /\ q.phase = "EXITTRANS"
           /\ \A s \in StepsOf(MainChart) : m.step[s].phase = "ENTRYDO"

LEMMA DoTerminateExact ==
  ASSUME NEW n, Ready(n, MainChart), SubStarts(n), n.chart[MainChart].ws = "TERMINATE"
  PROVE  TerminateTo(n, DoTerminate(n, MainChart))
<1> DEFINE c == MainChart
           k == ResetSsc(n, c)
           l == Done(c)[k]
<1>1. c \in Charts
  BY ChartAssumption
<1>2. WasReset(n, k, c)
  BY <1>1, ResetSscRight
<1>3. ResetFails(n, c) <=> StartSteps(n, c) = {}
  BY MainResetFails
<1>4. CASE n.chart[c].en # "RESET"
  BY <1>4 DEF DoTerminate, TerminateTo
<1>5. CASE n.chart[c].en = "RESET" /\ StartSteps(n, c) = {}
  <2>1. DoTerminate(n, c) = k
    BY <1>3, <1>5 DEF DoTerminate
  <2>2. Started(n, c) = <<>>
    BY <1>5 DEF Started
  <2> HIDE DEF k
  <2>3. TerminateTo(n, k)
    BY <1>2, <1>5, <2>2 DEF WasReset, TerminateTo
  <2> QED
    BY <2>1, <2>3
<1>6. CASE n.chart[c].en = "RESET" /\ StartSteps(n, c) # {}
  <2> DEFINE q == [l.chart[c] EXCEPT !.ws = "INIT", !.en = "STOP"]
             m == SetChart(l, c, q)
  <2>1. DoTerminate(n, c) = [l EXCEPT !.chart[c].ws = "INIT", !.chart[c].en = "STOP"]
    BY <1>3, <1>6 DEF DoTerminate
  <2> HIDE DEF k
  <2>2. k \in Nets /\ \A s \in StepsOf(c) : k.step[s].phase = "ENTRYDO"
    BY <1>2 DEF WasReset, Ready, Off
  <2>3. /\ Local(k, l, c) /\ l.step = k.step
        /\ l.chart[c].phase = "EXITTRANS"
        /\ l.chart[c].active = k.chart[c].active
    BY <1>1, <2>2, DoneRight
  <2> HIDE DEF l
  <2>4. l \in Nets /\ l.chart[c] \in Chart
    BY <1>1, <2>3 DEF Local, Nets
  <2>5. /\ q \in Chart /\ q.ws = "INIT" /\ q.en = "STOP" /\ q.active = l.chart[c].active
        /\ q.phase = l.chart[c].phase
    BY <2>4 DEF Chart, Commands
  <2>6. DoTerminate(n, c) = m
    BY <1>1, <2>1, <2>4 DEF SetChart, Nets, Chart
  <2> HIDE DEF q
  <2>7. m.chart[c] = q /\ m.step = l.step
    BY <1>1, <2>4, <2>5, SetChartFacts
  <2> HIDE DEF m
  <2>8. TerminateTo(n, m)
    BY <1>2, <1>6, <2>2, <2>3, <2>5, <2>7 DEF WasReset, TerminateTo
  <2> QED
    BY <2>6, <2>8
<1> QED
  BY <1>4, <1>5, <1>6

(* What performing the working state does, in each of them.                *)
DoneTo(n, m, a) ==
  LET k == InDo(n, MainChart)
      ws == n.chart[MainChart].ws
  IN  /\ ws = "INIT" => ResetTo(k, m)
      /\ ws = "START" => StartTo(k, m, a)
      /\ ws = "BREAK" => BreakTo(k, m, a)
      /\ ws = "STOP" => StopTo(n, m, a)
      /\ ws = "TERMINATE" => TerminateTo(n, m)

LEMMA DoStateExact ==
  ASSUME NEW run, RunOK(run), NEW n, NEW a, StateReady(n, MainChart, a), SubStarts(n)
  PROVE  DoneTo(n, DoState(run, n, MainChart, a), a)
<1> DEFINE k == InDo(n, MainChart)
           m == DoState(run, n, MainChart, a)
<1>1. MainChart \in Charts
  BY ChartAssumption
<1>2. InDoFor(n, k, MainChart, a)
  BY <1>1, InDoRight
<1>3. k = [n EXCEPT !.chart[MainChart].qual = "DO"]
  BY DEF InDo
<1> HIDE DEF k
<1>4. /\ StateReady(k, MainChart, a) /\ k.chart[MainChart].ws = n.chart[MainChart].ws
      /\ k \in Nets /\ (a = NoStep \/ a \in StepsOf(MainChart)) /\ Ready(n, MainChart)
  BY <1>2 DEF InDoFor, StateReady, Ready
<1>5. SubStarts(k)
  <2>1. \A d \in SubCharts : Roles(n, k, d)
    BY <1>2 DEF InDoFor, Apart, Near
  <2> QED
    BY <2>1, SubStartsStay
<1>6. ASSUME n.chart[MainChart].ws = "INIT" PROVE ResetTo(k, m)
  <2>1. m = DoReset(k, MainChart)
    BY <1>3, <1>6 DEF DoState
  <2>2. BeforeReset(k, MainChart)
    BY <1>4, <1>6 DEF BeforeReset, StateReady
  <2> HIDE DEF m
  <2> QED
    BY <1>5, <2>1, <2>2, DoResetExact
<1>7. ASSUME n.chart[MainChart].ws = "START" PROVE StartTo(k, m, a)
  <2>1. m = DoStart(k, MainChart, a)
    BY <1>3, <1>7 DEF DoState
  <2> HIDE DEF m
  <2> QED
    BY <1>4, <2>1, DoStartExact
<1>8. ASSUME n.chart[MainChart].ws = "BREAK" PROVE BreakTo(k, m, a)
  <2>1. m = DoBreak(k, MainChart, a)
    BY <1>3, <1>8 DEF DoState
  <2> HIDE DEF m
  <2> QED
    BY <1>4, <2>1, DoBreakExact
<1>9. ASSUME n.chart[MainChart].ws = "STOP" PROVE StopTo(n, m, a)
  <2>1. m = DoStop(run, n, MainChart, a)
    BY <1>9 DEF DoState
  <2> HIDE DEF m
  <2> QED
    BY <1>9, <2>1, DoStopExact
<1>10. ASSUME n.chart[MainChart].ws = "TERMINATE" PROVE TerminateTo(n, m)
  <2>1. m = DoTerminate(n, MainChart)
    BY <1>10 DEF DoState
  <2> HIDE DEF m
  <2> QED
    BY <1>4, <1>10, <2>1, DoTerminateExact
<1> HIDE DEF m
<1>11. DoneTo(n, m, a)
  BY <1>6, <1>7, <1>8, <1>9, <1>10 DEF DoneTo, k
<1> QED
  BY <1>11 DEF m

(* The main chart between two cycles.                                      *)
BetweenCycles(n) ==
  LET r == n.chart[MainChart]
  IN  /\ r.mode = "ON"
      /\ r.ws \in {"START", "BREAK"} => r.phase = "EXITTRANS"
      /\ r.ws = "STOP" => r.qual = "DO"
      /\ r.ws \in {"INIT", "STOP"} /\ r.phase = "ENTRYDO" => r.active = <<>>
      /\ \A a \in StepsOf(MainChart) : r.active = <<a>> =>
           /\ r.ws = "START" => n.step[a].phase = "EXITTRANS"
           /\ r.ws \in {"INIT", "BREAK", "STOP"} => n.step[a].phase = "ENTRYDO"

(* A cycle from n to m, by way of net k when the working state is known    *)
(* and of net e when it has been performed.  Step a was active.            *)
CycledBy(n, k, e, m, a) ==
  LET q == m.chart[MainChart]
      p == e.chart[MainChart]
  IN  /\ Looked(n, k, MainChart, a) /\ LooksAt(n, k, MainChart) /\ DoneTo(k, e, a)
      /\ Roles(n, e, MainChart) /\ e.result = n.result
      /\ Ready(e, MainChart) /\ Ready(m, MainChart)
      /\ p.mode = "ON" /\ Goes(p, q)
      /\ p.ws # "START" \/ p.active = <<>> => m = e
      /\ p.ws = "START" /\ p.active = <<a>> /\ a \in StepsOf(MainChart) /\ e.step[a].mode # "OFF"
           => WentOn(e, m, MainChart, a)

LEMMA MainCycle ==
  ASSUME NEW run, RunOK(run), NEW n, Ready(n, MainChart), Settled(n, MainChart),
         ChartRight(n, MainChart), SubStarts(n), n.chart[MainChart].mode = "ON"
  PROVE  LET a == ActiveStep(n.chart[MainChart].active)
             k == Look(n, MainChart, a)
             e == DoState(run, k, MainChart, a)
         IN  CycledBy(n, k, e, ExecChart(run, n, MainChart), a)
<1> DEFINE a == ActiveStep(n.chart[MainChart].active)
           k == Look(n, MainChart, a)
           e == DoState(run, k, MainChart, a)
           l == ExecActive(run, MainChart)[e]
           m == ExecChart(run, n, MainChart)
<1>1. MainChart \in Charts
  BY ChartAssumption
<1>2. Looked(n, k, MainChart, a) /\ LooksAt(n, k, MainChart)
  BY <1>1, LookRight
<1>3. ChartMethod(run, n, MainChart) = e
  BY DEF ChartMethod, Look
<1>4. Performed(n, e, MainChart)
  <2>1. Performed(n, ChartMethod(run, n, MainChart), MainChart)
    BY <1>1, ChartMethodRight
  <2> HIDE DEF e
  <2> QED
    BY <1>3, <2>1
<1>5. m = [l EXCEPT !.chart[MainChart].mode = IF l.chart[MainChart].mode = "ON" THEN "ON" ELSE "OFF"]
  <2> HIDE DEF e
  <2> QED
    BY <1>3 DEF ExecChart
<1> HIDE DEF a
<1> HIDE DEF k
<1>6. StateReady(k, MainChart, a) /\ SubStarts(k)
  <2>1. StateReady(k, MainChart, a) /\ Apart(n, k, MainChart)
    BY <1>2 DEF Looked
  <2>2. \A d \in SubCharts : Roles(n, k, d)
    BY <2>1 DEF Apart, Near
  <2> QED
    BY <2>1, <2>2, SubStartsStay
<1>7. DoneTo(k, e, a)
  BY <1>6, DoStateExact
<1> HIDE DEF e
<1>8. Ready(e, MainChart) /\ Settled(e, MainChart)
  BY <1>4 DEF Performed
<1>9. /\ Worked(e, l, MainChart)
      /\ (\A s \in StepsOf(MainChart) :
            e.chart[MainChart].active = <<s>> => e.step[s].mode = "OFF") => l = e
      /\ \A s \in StepsOf(MainChart) :
            e.chart[MainChart].active = <<s>> /\ e.step[s].mode # "OFF"
              => WentOn(e, l, MainChart, s)
  BY <1>1, <1>8, ExecActiveRight
<1> HIDE DEF l
<1>10. l \in Nets /\ l.chart[MainChart].mode = "ON" /\ Goes(e.chart[MainChart], l.chart[MainChart])
  BY <1>4, <1>9 DEF Worked, Ready, Performed, Goes
<1>11. m = l
  <2>1. m = [l EXCEPT !.chart[MainChart].mode = "ON"]
    BY <1>5, <1>10
  <2>2. l.chart[MainChart] = [l.chart[MainChart] EXCEPT !.mode = "ON"]
    BY <1>1, <1>10 DEF Nets, Chart
  <2>3. l.chart = [l.chart EXCEPT ![MainChart] = [l.chart[MainChart] EXCEPT !.mode = "ON"]]
    BY <1>1, <1>10, <2>2 DEF Nets
  <2> QED
    BY <1>10, <2>1, <2>3 DEF Nets
<1> HIDE DEF m
<1>12. ASSUME e.chart[MainChart].ws # "START" \/ e.chart[MainChart].active = <<>>
       PROVE  l = e
  <2>1. CASE e.chart[MainChart].ws # "START"
    BY <1>4, <1>9, <2>1 DEF Performed, Asleep
  <2>2. CASE e.chart[MainChart].active = <<>>
    BY <1>9, <2>2
  <2> QED
    BY <1>12, <2>1, <2>2
<1>13. /\ Roles(n, e, MainChart) /\ e.result = n.result
       /\ e.chart[MainChart].mode = "ON" /\ Ready(l, MainChart)
  BY <1>1, <1>4, <1>9 DEF Performed, Worked
<1>14. CycledBy(n, k, e, m, a)
  BY <1>2, <1>7, <1>8, <1>9, <1>10, <1>11, <1>12, <1>13 DEF CycledBy
<1> QED
  BY <1>14 DEF a, k, e, m

(* The start step of the main chart in net n, and the step that is active. *)
StartOf(n) ==
  LET starts == StartSteps(n, MainChart)
  IN  IF starts = {} THEN NoStep ELSE CHOOSE s \in starts : TRUE

ActiveAt(n) == ActiveStep(n.chart[MainChart].active)

(* What the user sees of a net.                                            *)
SeenAs(r) ==
  CASE r.ws = "INIT" /\ r.qual = "ENTRY" /\ r.phase = "ENTRYDO" -> "New"
    [] r.ws = "START"     -> "Running"
    [] r.ws = "BREAK"     -> "Held"
    [] r.ws = "TERMINATE" -> "Done"
    [] OTHER              -> "Idle"

EndsOf(n) == {s \in MainSteps : n.step[s].role = "END"}

LEMMA OneStepList ==
  ASSUME NEW s
  PROVE  <<s>> # <<>> /\ ActiveStep(<<s>>) = s /\ ActiveStep(<<>>) = NoStep
BY DEF ActiveStep

LEMMA StartedOne ==
  ASSUME NEW n
  PROVE  /\ StartOf(n) = NoStep <=> StartSteps(n, MainChart) = {}
         /\ Started(n, MainChart) = IF StartOf(n) = NoStep THEN <<>> ELSE <<StartOf(n)>>
         /\ StartOf(n) \in MainSteps \cup {NoStep}
         /\ ActiveStep(Started(n, MainChart)) = StartOf(n)
<1> DEFINE starts == StartSteps(n, MainChart)
<1>1. starts \subseteq Steps /\ starts \subseteq MainSteps /\ NoStep \notin Steps
  BY ChartAssumption DEF StartSteps, StepsOf, MainSteps
<1>2. CASE starts = {}
  <2>1. StartOf(n) = NoStep /\ Started(n, MainChart) = <<>>
    BY <1>2 DEF StartOf, Started
  <2> QED
    BY <1>2, <2>1, OneStepList
<1>3. CASE starts # {}
  <2>1. (CHOOSE s \in starts : TRUE) \in starts
    BY <1>3
  <2>2. StartOf(n) \in starts /\ Started(n, MainChart) = <<StartOf(n)>>
    BY <1>3, <2>1 DEF StartOf, Started
  <2> QED
    BY <1>1, <1>3, <2>2, OneStepList
<1> QED
  BY <1>2, <1>3

(* The main chart is back at its start step, or without one.               *)
BackAtStart(n, m) ==
  LET q == m.chart[MainChart]
  IN  /\ q.ws \in {"INIT", "STOP", "TERMINATE"} /\ q.mode = "ON"
      /\ q.ws = "STOP" => q.qual = "DO"
      /\ q.ws = "INIT" => q.qual = "DO" \/ q.phase = "EXITTRANS"
      /\ q.active = Started(n, MainChart)
      /\ q.phase = "EXITTRANS" \/ q.active = <<>>
      /\ \A s \in StepsOf(MainChart) : q.active = <<s>> => m.step[s].phase = "ENTRYDO"

LEMMA BackSeen ==
  ASSUME NEW n, NEW m, BackAtStart(n, m)
  PROVE  /\ BetweenCycles(m) /\ ActiveAt(m) = StartOf(n)
         /\ SeenAs(m.chart[MainChart]) =
              IF m.chart[MainChart].ws = "TERMINATE" THEN "Done" ELSE "Idle"
<1>1. BetweenCycles(m)
  BY DEF BackAtStart, BetweenCycles
<1>2. ActiveAt(m) = StartOf(n)
  BY StartedOne DEF BackAtStart, ActiveAt
<1>3. SeenAs(m.chart[MainChart]) =
              IF m.chart[MainChart].ws = "TERMINATE" THEN "Done" ELSE "Idle"
  BY DEF BackAtStart, SeenAs
<1> QED
  BY <1>1, <1>2, <1>3

(* The main chart runs on at step s, or comes to its end there.            *)
Arrived(n, m, s) ==
  LET q == m.chart[MainChart]
  IN  /\ q.ws = IF s \in EndsOf(n) THEN "TERMINATE" ELSE "START"
      /\ q.mode = "ON" /\ q.phase = "EXITTRANS"
      /\ q.en = n.chart[MainChart].en
      /\ \/ s = NoStep /\ q.active = <<>>
         \/ s \in StepsOf(MainChart) /\ q.active = <<s>> /\ m.step[s].phase = "EXITTRANS"

LEMMA ArrivedSeen ==
  ASSUME NEW n, NEW m, NEW s, Arrived(n, m, s)
  PROVE  /\ BetweenCycles(m) /\ ActiveAt(m) = s
         /\ SeenAs(m.chart[MainChart]) = IF s \in EndsOf(n) THEN "Done" ELSE "Running"
<1>1. BetweenCycles(m)
  <2>1. \A x \in StepsOf(MainChart) : m.chart[MainChart].active = <<x>> => x = s
    BY OneStepList DEF Arrived
  <2>2. /\ m.chart[MainChart].ws \in {"START", "TERMINATE"} /\ m.chart[MainChart].mode = "ON"
        /\ m.chart[MainChart].phase = "EXITTRANS"
    BY DEF Arrived
  <2>3. ASSUME NEW x \in StepsOf(MainChart), m.chart[MainChart].active = <<x>>
        PROVE  m.step[x].phase = "EXITTRANS"
    <3>1. x = s /\ m.chart[MainChart].active # <<>>
      BY <2>1, <2>3, OneStepList
    <3> QED
      BY <3>1 DEF Arrived
  <2> QED
    BY <2>2, <2>3 DEF BetweenCycles
<1>2. ActiveAt(m) = s
  BY OneStepList DEF Arrived, ActiveAt
<1>3. SeenAs(m.chart[MainChart]) = IF s \in EndsOf(n) THEN "Done" ELSE "Running"
  BY DEF Arrived, SeenAs
<1> QED
  BY <1>1, <1>2, <1>3

(* A transition that leads nowhere has fired.                              *)
Nowhere(n, m) ==
  LET q == m.chart[MainChart]
  IN  /\ q.ws = "STOP" /\ q.mode = "ON" /\ q.qual = "DO" /\ q.active = <<>>
      /\ q.en = n.chart[MainChart].en

LEMMA NowhereSeen ==
  ASSUME NEW n, NEW m, Nowhere(n, m)
  PROVE  /\ BetweenCycles(m) /\ ActiveAt(m) = NoStep
         /\ SeenAs(m.chart[MainChart]) = "Idle"
BY OneStepList DEF Nowhere, BetweenCycles, ActiveAt, SeenAs

(* The main chart is held at its active step.                              *)
HeldAt(n, m) ==
  LET q == m.chart[MainChart]
  IN  /\ q.ws = "BREAK" /\ q.mode = "ON" /\ q.phase = "EXITTRANS"
      /\ q.active = n.chart[MainChart].active /\ q.en = n.chart[MainChart].en
      /\ \A s \in StepsOf(MainChart) : q.active = <<s>> => m.step[s].phase = "ENTRYDO"

LEMMA HeldSeen ==
  ASSUME NEW n, NEW m, HeldAt(n, m)
  PROVE  /\ BetweenCycles(m) /\ ActiveAt(m) = ActiveAt(n)
         /\ SeenAs(m.chart[MainChart]) = "Held"
BY DEF HeldAt, BetweenCycles, ActiveAt, SeenAs

(* The main chart rests at its end.                                        *)
RestsAt(n, m) ==
  LET q == m.chart[MainChart]
  IN  /\ q.ws = "TERMINATE" /\ q.mode = "ON"
      /\ q.active = n.chart[MainChart].active /\ q.en = n.chart[MainChart].en

LEMMA RestsSeen ==
  ASSUME NEW n, NEW m, RestsAt(n, m)
  PROVE  /\ BetweenCycles(m) /\ ActiveAt(m) = ActiveAt(n)
         /\ SeenAs(m.chart[MainChart]) = "Done"
BY DEF RestsAt, BetweenCycles, ActiveAt, SeenAs

(* A cycle that starts in the state between two cycles.                    *)
Passage(n, k, e, m, a) ==
  CycledBy(n, k, e, m, a) /\ BetweenCycles(n) /\ Ready(n, MainChart)

(* What the cycle has not changed before its working state is performed.   *)
AsBefore(n, k, a) ==
  LET r == n.chart[MainChart]
      p == k.chart[MainChart]
      d == InDo(k, MainChart)
  IN  /\ n \in Nets /\ k \in Nets /\ r \in Chart /\ p \in Chart
      /\ p.en = r.en /\ p.active = r.active
      /\ \A s \in StepsOf(MainChart) :
           k.step[s].phase = n.step[s].phase /\ k.step[s].role = n.step[s].role
      /\ k.result = n.result
      /\ StartSteps(k, MainChart) = StartSteps(n, MainChart)
      /\ Started(k, MainChart) = Started(n, MainChart)
      /\ \/ a = NoStep /\ r.active = <<>>
         \/ a \in StepsOf(MainChart) /\ r.active = <<a>>
      /\ InDoFor(k, d, MainChart, a)
      /\ StartSteps(d, MainChart) = StartSteps(n, MainChart)
      /\ Started(d, MainChart) = Started(n, MainChart)

LEMMA PassageBefore ==
  ASSUME NEW n, NEW k, NEW e, NEW m, NEW a, Passage(n, k, e, m, a)
  PROVE  AsBefore(n, k, a)
<1>1. MainChart \in Charts
  BY ChartAssumption
<1>2. Looked(n, k, MainChart, a) /\ Ready(n, MainChart)
  BY DEF Passage, CycledBy
<1>3. /\ StateReady(k, MainChart, a) /\ Roles(n, k, MainChart) /\ Ready(k, MainChart)
  BY <1>2 DEF Looked, StateReady
<1>4. InDoFor(k, InDo(k, MainChart), MainChart, a)
  BY <1>1, <1>3, InDoRight
<1>5. /\ StartSteps(k, MainChart) = StartSteps(n, MainChart)
      /\ Started(k, MainChart) = Started(n, MainChart)
  BY <1>3, StartedStays
<1>6. Roles(k, InDo(k, MainChart), MainChart)
  BY <1>4 DEF InDoFor
<1>7. /\ StartSteps(InDo(k, MainChart), MainChart) = StartSteps(n, MainChart)
      /\ Started(InDo(k, MainChart), MainChart) = Started(n, MainChart)
  BY <1>5, <1>6, StartedStays
<1>8. /\ n \in Nets /\ k \in Nets /\ n.chart[MainChart] \in Chart /\ k.chart[MainChart] \in Chart
  BY <1>1, <1>2, <1>3 DEF Ready, Nets
<1>9. /\ k.chart[MainChart].en = n.chart[MainChart].en
      /\ k.chart[MainChart].active = n.chart[MainChart].active
      /\ \A s \in StepsOf(MainChart) :
           k.step[s].phase = n.step[s].phase /\ k.step[s].role = n.step[s].role
      /\ k.result = n.result
  BY <1>2, <1>3 DEF Looked, Roles
<1>10. \/ a = NoStep /\ n.chart[MainChart].active = <<>>
       \/ a \in StepsOf(MainChart) /\ n.chart[MainChart].active = <<a>>
  BY <1>3, <1>9 DEF StateReady
<1> QED
  BY <1>4, <1>5, <1>7, <1>8, <1>9, <1>10 DEF AsBefore

(* INIT and STOP.                                                          *)
LEMMA PassesBack ==
  ASSUME NEW n, NEW k, NEW e, NEW m, NEW a, Passage(n, k, e, m, a),
         k.chart[MainChart].ws \in {"INIT", "STOP"}
  PROVE  /\ BackAtStart(n, m) /\ m.chart[MainChart].en = n.chart[MainChart].en
         /\ m.chart[MainChart].ws =
              IF k.chart[MainChart].ws = "INIT" THEN "INIT"
              ELSE IF k.chart[MainChart].qual = "ENTRY" THEN StopAt(k, a) ELSE "STOP"
<1> DEFINE p == k.chart[MainChart]
           d == InDo(k, MainChart)
           o == e.chart[MainChart]
<1>1. AsBefore(n, k, a) /\ InDoFor(k, d, MainChart, a)
  BY PassageBefore DEF AsBefore
<1>2. DoneTo(k, e, a) /\ o.mode = "ON"
  BY DEF Passage, CycledBy
<1>3. /\ o.ws = IF p.ws = "INIT" THEN "INIT" ELSE IF p.qual = "ENTRY" THEN StopAt(k, a) ELSE "STOP"
      /\ o.en = p.en /\ o.qual = "DO" /\ o.active = Started(n, MainChart)
      /\ o.phase = "EXITTRANS" \/ StartSteps(n, MainChart) = {}
      /\ \A s \in StepsOf(MainChart) : e.step[s].phase = "ENTRYDO"
  <2>1. CASE p.ws = "INIT"
    <3>1. ResetTo(d, e)
      BY <1>2, <2>1 DEF DoneTo
    <3>2. /\ d.chart[MainChart].ws = "INIT" /\ d.chart[MainChart].en = p.en
          /\ d.chart[MainChart].qual = "DO"
      BY <1>1, <2>1 DEF InDoFor
    <3>3. /\ StartSteps(d, MainChart) = StartSteps(n, MainChart)
          /\ Started(d, MainChart) = Started(n, MainChart)
      BY <1>1 DEF AsBefore
    <3> QED
      BY <2>1, <3>1, <3>2, <3>3 DEF ResetTo
  <2>2. CASE p.ws = "STOP"
    <3>1. StopTo(k, e, a)
      BY <1>2, <2>2 DEF DoneTo
    <3>3. /\ StartSteps(k, MainChart) = StartSteps(n, MainChart)
          /\ Started(k, MainChart) = Started(n, MainChart)
      BY <1>1 DEF AsBefore
    <3> QED
      BY <2>2, <3>1, <3>3 DEF StopTo
  <2> QED
    BY <2>1, <2>2
<1>4. p.ws = "STOP" => StopAt(k, a) \in {"STOP", "TERMINATE"}
  BY DEF StopAt, WorkingAt
<1>5. o.ws \in {"INIT", "STOP", "TERMINATE"}
  BY <1>3, <1>4
<1>6. m = e
  BY <1>5 DEF Passage, CycledBy
<1>7. o.phase = "EXITTRANS" \/ o.active = <<>>
  BY <1>3, StartedOne
<1>8. p.en = n.chart[MainChart].en
  BY <1>1 DEF AsBefore
<1>9. BackAtStart(n, e)
  BY <1>2, <1>3, <1>5, <1>7 DEF BackAtStart
<1> QED
  BY <1>3, <1>6, <1>8, <1>9

(* TERMINATE.                                                              *)
LEMMA PassesEnd ==
  ASSUME NEW n, NEW k, NEW e, NEW m, NEW a, Passage(n, k, e, m, a),
         k.chart[MainChart].ws = "TERMINATE"
  PROVE  /\ n.chart[MainChart].en # "RESET" => RestsAt(n, m)
         /\ n.chart[MainChart].en = "RESET" =>
              /\ BackAtStart(n, m)
              /\ IF StartOf(n) = NoStep
                 THEN m.chart[MainChart].ws = "TERMINATE" /\ m.chart[MainChart].en = "RESET"
                 ELSE m.chart[MainChart].ws = "INIT" /\ m.chart[MainChart].en = "STOP"
<1> DEFINE p == k.chart[MainChart]
           r == n.chart[MainChart]
           o == e.chart[MainChart]
<1>1. /\ StartSteps(k, MainChart) = StartSteps(n, MainChart) /\ p.en = r.en
      /\ Started(k, MainChart) = Started(n, MainChart) /\ p.active = r.active
  BY PassageBefore DEF AsBefore
<1>2. DoneTo(k, e, a) /\ o.mode = "ON"
  BY DEF Passage, CycledBy
<1>3. TerminateTo(k, e)
  BY <1>2 DEF DoneTo
<1>4. o.ws \in {"TERMINATE", "INIT"}
  BY <1>1, <1>3 DEF TerminateTo
<1>5. m = e
  BY <1>4 DEF Passage, CycledBy
<1>6. ASSUME r.en # "RESET" PROVE RestsAt(n, e)
  <2>1. e = k
    BY <1>1, <1>3, <1>6 DEF TerminateTo
  <2> QED
    BY <1>1, <1>2, <2>1 DEF RestsAt
<1>7. ASSUME r.en = "RESET", StartOf(n) = NoStep
      PROVE  BackAtStart(n, e) /\ o.ws = "TERMINATE" /\ o.en = "RESET"
  <2>1. StartSteps(n, MainChart) = {} /\ Started(n, MainChart) = <<>>
    BY <1>7, StartedOne
  <2>2. o.ws = "TERMINATE" /\ o.en = "RESET" /\ o.active = <<>>
    BY <1>1, <1>3, <1>7, <2>1 DEF TerminateTo
  <2>3. \A s \in StepsOf(MainChart) : o.active # <<s>>
    BY <2>2, OneStepList
  <2> QED
    BY <1>2, <2>1, <2>2, <2>3 DEF BackAtStart
<1>8. ASSUME r.en = "RESET", StartOf(n) # NoStep
      PROVE  BackAtStart(n, e) /\ o.ws = "INIT" /\ o.en = "STOP"
  <2>1. StartSteps(n, MainChart) # {}
    BY <1>8, StartedOne
  <2>2. /\ o.ws = "INIT" /\ o.en = "STOP" /\ o.active = Started(n, MainChart)
        /\ o.phase = "EXITTRANS"
        /\ \A s \in StepsOf(MainChart) : e.step[s].phase = "ENTRYDO"
    BY <1>1, <1>3, <1>8, <2>1 DEF TerminateTo
  <2> QED
    BY <1>2, <2>2 DEF BackAtStart
<1> QED
  BY <1>5, <1>6, <1>7, <1>8

(* BREAK.                                                                  *)
LEMMA PassesHeld ==
  ASSUME NEW n, NEW k, NEW e, NEW m, NEW a, Passage(n, k, e, m, a),
         k.chart[MainChart].ws = "BREAK"
  PROVE  HeldAt(n, m)
<1> DEFINE p == k.chart[MainChart]
           r == n.chart[MainChart]
           d == InDo(k, MainChart)
           o == e.chart[MainChart]
<1>1. /\ p.en = r.en /\ p.active = r.active /\ InDoFor(k, d, MainChart, a)
      /\ \/ a = NoStep /\ r.active = <<>>
         \/ a \in StepsOf(MainChart) /\ r.active = <<a>>
  BY PassageBefore DEF AsBefore
<1>2. DoneTo(k, e, a) /\ o.mode = "ON"
  BY DEF Passage, CycledBy
<1>3. BreakTo(d, e, a)
  BY <1>2 DEF DoneTo
<1>4. o.ws = "BREAK" /\ o.en = r.en /\ o.active = r.active /\ o.phase = "EXITTRANS"
  BY <1>1, <1>3 DEF BreakTo, InDoFor
<1>5. m = e
  BY <1>4 DEF Passage, CycledBy
<1>6. ASSUME NEW s \in StepsOf(MainChart), o.active = <<s>>
      PROVE  e.step[s].phase = "ENTRYDO"
  <2>1. a # NoStep /\ s = a
    <3>1. r.active = <<s>> /\ r.active # <<>>
      BY <1>4, <1>6, OneStepList
    <3>2. a \in StepsOf(MainChart) /\ <<a>> = <<s>>
      BY <1>1, <3>1
    <3>3. NoStep \notin StepsOf(MainChart)
      BY ChartAssumption DEF StepsOf
    <3>4. a = s
      BY <3>2, OneStepList
    <3> QED
      BY <3>2, <3>3, <3>4
  <2> QED
    BY <1>3, <2>1 DEF BreakTo
<1> QED
  BY <1>2, <1>4, <1>5, <1>6 DEF HeldAt

(* START.                                                                  *)
Stays(n, a) == n.step[a].phase = "ENTRYDO" \/ Firing(n.result, a) = {}

LEMMA NoEnd ==
  ASSUME NEW n
  PROVE  NoStep \notin EndsOf(n) /\ NoStep \notin StepsOf(MainChart)
BY ChartAssumption DEF EndsOf, MainSteps, StepsOf

LEMMA PassesOn ==
  ASSUME NEW n, NEW k, NEW e, NEW m, NEW a, Passage(n, k, e, m, a),
         k.chart[MainChart].ws = "START"
  PROVE  /\ a = NoStep => Arrived(n, m, a)
         /\ a # NoStep /\ Stays(n, a) => Arrived(n, m, a)
         /\ a # NoStep /\ ~Stays(n, a) =>
              IF NextStep(n.result, a) = NoStep THEN Nowhere(n, m)
              ELSE Arrived(n, m, NextStep(n.result, a))
<1> DEFINE p == k.chart[MainChart]
           r == n.chart[MainChart]
           d == InDo(k, MainChart)
           o == e.chart[MainChart]
           q == m.chart[MainChart]
           next == NextStep(n.result, a)
<1>1. /\ p.en = r.en /\ p.active = r.active /\ InDoFor(k, d, MainChart, a)
      /\ \/ a = NoStep /\ r.active = <<>>
         \/ a \in StepsOf(MainChart) /\ r.active = <<a>>
      /\ \A s \in StepsOf(MainChart) : k.step[s].phase = n.step[s].phase
      /\ k.result = n.result
  BY PassageBefore DEF AsBefore
<1>2. /\ DoneTo(k, e, a) /\ o.mode = "ON" /\ Roles(n, e, MainChart) /\ e.result = n.result
      /\ Goes(o, q)
      /\ o.ws # "START" \/ o.active = <<>> => m = e
      /\ o.ws = "START" /\ o.active = <<a>> /\ a \in StepsOf(MainChart) /\ e.step[a].mode # "OFF"
           => WentOn(e, m, MainChart, a)
  BY DEF Passage, CycledBy
<1>3. StartTo(d, e, a)
  BY <1>2 DEF DoneTo
<1>4. /\ o.ws = "START" /\ o.en = r.en /\ o.active = r.active /\ o.phase = "EXITTRANS"
      /\ o.qual = "DO"
  BY <1>1, <1>3 DEF StartTo, InDoFor
<1>5. \A s \in StepsOf(MainChart) : e.step[s].phase = n.step[s].phase
  BY <1>1, <1>3 DEF StartTo, InDoFor
<1>6. q.en = r.en /\ q.mode = "ON" /\ q.phase = "EXITTRANS" /\ q.qual = "DO"
  BY <1>2, <1>4 DEF Goes
<1>7. NoStep \notin EndsOf(n) /\ NoStep \notin StepsOf(MainChart)
  BY NoEnd
<1>8. ASSUME NEW s \in StepsOf(MainChart)
      PROVE  WorkingAt(e, MainChart, s) = IF s \in EndsOf(n) THEN "TERMINATE" ELSE "START"
  BY <1>2, <1>4 DEF WorkingAt, EndsOf, Roles, MainSteps
<1>9. ASSUME a = NoStep PROVE Arrived(n, m, a)
  <2>1. r.active = <<>>
    BY <1>1, <1>7, <1>9
  <2>2. m = e
    BY <1>2, <1>4, <2>1
  <2> QED
    BY <1>4, <1>6, <1>7, <1>9, <2>1, <2>2 DEF Arrived
<1>10. ASSUME a # NoStep
       PROVE  /\ a \in StepsOf(MainChart) /\ WentOn(e, m, MainChart, a)
              /\ Keeps(e, MainChart, a) <=> Stays(n, a)
  <2>1. a \in StepsOf(MainChart) /\ r.active = <<a>>
    BY <1>1, <1>10
  <2>2. e.step[a].mode # "OFF"
    BY <1>3, <1>10 DEF StartTo
  <2>3. WentOn(e, m, MainChart, a)
    BY <1>2, <1>4, <2>1, <2>2
  <2>4. Keeps(e, MainChart, a) <=> Stays(n, a)
    BY <1>2, <1>4, <1>5, <2>1 DEF Keeps, Stays
  <2> QED
    BY <2>1, <2>3, <2>4
<1>11. ASSUME a # NoStep, Stays(n, a) PROVE Arrived(n, m, a)
  <2>1. /\ q.active = <<a>> /\ q.ws = WorkingAt(e, MainChart, a)
        /\ m.step[a].phase = "EXITTRANS" /\ a \in StepsOf(MainChart)
    BY <1>10, <1>11 DEF WentOn
  <2> QED
    BY <1>6, <1>8, <2>1 DEF Arrived
<1>12. ASSUME a # NoStep, ~Stays(n, a)
       PROVE  IF next = NoStep THEN Nowhere(n, m) ELSE Arrived(n, m, next)
  <2>1. LeftFor(e, m, MainChart, next)
    BY <1>2, <1>10, <1>12 DEF WentOn
  <2>2. CASE next = NoStep
    <3>1. q.active = <<>> /\ q.ws = "STOP"
      BY <2>1, <2>2 DEF LeftFor
    <3> QED
      BY <1>6, <2>2, <3>1 DEF Nowhere
  <2>3. CASE next # NoStep
    <3>1. next \in StepsOf(MainChart)
      <4>1. a \in Steps /\ ChartOf[a] = MainChart
        BY <1>10, <1>12 DEF StepsOf
      <4> QED
        BY <2>3, <4>1, NextStepRight
    <3>2. /\ q.active = <<next>> /\ q.ws = WorkingAt(e, MainChart, next)
          /\ m.step[next].phase = "EXITTRANS"
      BY <2>1, <2>3 DEF LeftFor
    <3>3. WorkingAt(e, MainChart, next) = IF next \in EndsOf(n) THEN "TERMINATE" ELSE "START"
      BY <1>8, <3>1
    <3> HIDE DEF next
    <3>4. Arrived(n, m, next)
      BY <1>6, <3>1, <3>2, <3>3 DEF Arrived
    <3> QED
      BY <2>3, <3>4
  <2> QED
    BY <2>2, <2>3
<1> QED
  BY <1>9, <1>11, <1>12

(* The machine's view of its transitions is that of the step method.       *)
LEMMA TargetsFired ==
  ASSUME NEW r, NEW s \in Steps
  PROVE  /\ Firing(r, s) = {} => Targets(s, r) = {}
         /\ Firing(r, s) # {} => Targets(s, r) = {NextStep(r, s)}
<1>1. s # NoStep /\ Outgoing[s] \in Seq(Transitions)
  BY ChartAssumption
<1>2. First(s, r) = {i \in Firing(r, s) : \A j \in Firing(r, s) : i <= j}
  <2>1. DOMAIN Outgoing[s] = 1..Len(Outgoing[s]) /\ Len(Outgoing[s]) \in Nat
    BY <1>1
  <2>2. Firing(r, s) \subseteq 1..Len(Outgoing[s])
    BY <2>1 DEF Firing
  <2>3. ASSUME NEW i \in First(s, r)
        PROVE  i \in Firing(r, s) /\ \A j \in Firing(r, s) : i <= j
    <3>1. i \in Firing(r, s) /\ \A j \in 1..i - 1 : ~r[Outgoing[s][j]]
      BY DEF First, Firing
    <3>2. ASSUME NEW j \in Firing(r, s) PROVE i <= j
      <4>1. r[Outgoing[s][j]]
        BY DEF Firing
      <4>2. i \in Nat /\ j \in Nat /\ j >= 1
        BY <2>1, <2>2, <3>1
      <4>3. j \notin 1..i - 1
        BY <3>1, <4>1
      <4> QED
        BY <4>2, <4>3
    <3> QED
      BY <3>1, <3>2
  <2>4. ASSUME NEW i \in Firing(r, s), \A j \in Firing(r, s) : i <= j
        PROVE  i \in First(s, r)
    <3>1. ASSUME NEW j \in 1..i - 1 PROVE ~r[Outgoing[s][j]]
      <4>1. i \in 1..Len(Outgoing[s])
        BY <2>2
      <4>2. j \in DOMAIN Outgoing[s] /\ ~(i <= j)
        BY <2>1, <4>1
      <4>3. j \notin Firing(r, s)
        BY <2>4, <4>2
      <4> QED
        BY <4>2, <4>3 DEF Firing
    <3> QED
      BY <3>1 DEF First, Firing
  <2> QED
    BY <2>3, <2>4
<1>3. ASSUME Firing(r, s) = {} PROVE Targets(s, r) = {}
  <2>1. First(s, r) = {}
    BY <1>2, <1>3
  <2> QED
    BY <1>1, <2>1 DEF Targets
<1>4. ASSUME Firing(r, s) # {} PROVE Targets(s, r) = {NextStep(r, s)}
  <2>1. \E i \in Firing(r, s) : \A j \in Firing(r, s) : i <= j
    <3>1. Firing(r, s) \subseteq Nat
      BY <1>1 DEF Firing
    <3> QED
      BY <1>4, <3>1, General!LeastElement
  <2>2. Fired(r, s) \in Firing(r, s) /\ \A j \in Firing(r, s) : Fired(r, s) <= j
    BY <2>1 DEF Fired
  <2>3. Firing(r, s) \subseteq Nat
    BY <1>1 DEF Firing
  <2>4. First(s, r) = {Fired(r, s)}
    BY <1>2, <2>2, <2>3
  <2> QED
    BY <1>1, <1>4, <2>4 DEF Targets, NextStep
<1> QED
  BY <1>3, <1>4

(* A cycle in the variables of the machine.                                *)
Views(n, m) ==
  /\ StateSeen = SeenAs(n.chart[MainChart]) /\ StateSeen' = SeenAs(m.chart[MainChart])
  /\ ActiveStep(chart[MainChart].active) = ActiveAt(n)
  /\ ActiveStep(chart[MainChart].active)' = ActiveAt(m)
  /\ chart[MainChart].en = n.chart[MainChart].en
  /\ (chart[MainChart].en)' = m.chart[MainChart].en
  /\ StartStep = StartOf(n)
  /\ {s \in MainSteps : step[s].role = "END"} = EndsOf(n)
  /\ results = n.result

MachineMoves ==
  \/ Machine!Reset
  \/ /\ (chart[MainChart].en)' = chart[MainChart].en
     /\ \/ Machine!Begin \/ Machine!Stay \/ Machine!Move \/ Machine!Resume \/ Machine!Hold
        \/ Machine!Stop \/ Machine!Prepare \/ Machine!Rest \/ Machine!Lose

(* Which working states follow which.                                      *)
Follows(n, k) ==
  LET r == n.chart[MainChart]
      p == k.chart[MainChart]
      r1 == r.phase = "EXITTRANS"
  IN  /\ p.ws = "INIT" => r.ws = "INIT" /\ (~r1 \/ r.en # "START")
      /\ p.ws = "START" => r1 /\ r.en = "START"
      /\ p.ws = "BREAK" => r.en = "BREAK" /\ r.ws \in {"START", "BREAK"}
      /\ p.ws = "STOP" => IF r.ws = "STOP" THEN p.qual = "DO" /\ (~r1 \/ r.en \in {"STOP", "BREAK"})
                          ELSE r.en = "STOP" /\ r.ws \in {"START", "BREAK"} /\ p.qual = "ENTRY"
      /\ p.ws = "TERMINATE" => r.ws = "TERMINATE" \/ (r.en = "RESET" /\ r.ws # "INIT")

LEMMA LookFollows ==
  ASSUME NEW n, NEW k, NEW e, NEW m, NEW a, Passage(n, k, e, m, a)
  PROVE  /\ Follows(n, k)
         /\ k.chart[MainChart].ws \in {"INIT", "START", "BREAK", "STOP", "TERMINATE"}
<1> DEFINE r == n.chart[MainChart]
           p == k.chart[MainChart]
<1>1. /\ r \in Chart /\ p \in Chart
  BY PassageBefore DEF AsBefore
<1>2. /\ r.ws \in {"START", "BREAK"} => r.phase = "EXITTRANS"
      /\ r.ws = "STOP" => r.qual = "DO"
  BY DEF Passage, BetweenCycles
<1>3. LooksAt(n, k, MainChart)
  BY DEF Passage, CycledBy
<1>4. /\ r.ws \in {"INIT", "START", "BREAK", "STOP", "TERMINATE"} /\ r.phase \in WorkPhases
      /\ r.en \in Commands /\ p.ws \in {"INIT", "START", "BREAK", "STOP", "TERMINATE"}
  BY <1>1 DEF Chart
<1>5. CASE Looks(n, MainChart)
  <2>1. /\ p.ws = NextWorkingState(r.ws, r.en)
        /\ p.qual = IF p.ws = r.ws THEN r.qual ELSE "ENTRY"
        /\ r.phase = "EXITTRANS" /\ r.ws # "TERMINATE"
    BY <1>3, <1>5 DEF LooksAt, Looks
  <2>2. CASE r.ws = "INIT"
    BY <1>4, <2>1, <2>2 DEF NextWorkingState, Follows
  <2>3. CASE r.ws = "START"
    BY <1>4, <2>1, <2>3 DEF NextWorkingState, Follows, Commands
  <2>4. CASE r.ws = "BREAK"
    BY <1>4, <2>1, <2>4 DEF NextWorkingState, Follows, Commands
  <2>5. CASE r.ws = "STOP"
    BY <1>2, <1>4, <2>1, <2>5 DEF NextWorkingState, Follows, Commands
  <2> QED
    BY <1>4, <2>1, <2>2, <2>3, <2>4, <2>5
<1>6. CASE ~Looks(n, MainChart)
  <2>1. p.ws = r.ws /\ p.qual = r.qual /\ (r.phase # "EXITTRANS" \/ r.ws = "TERMINATE")
    BY <1>3, <1>6 DEF LooksAt, Looks
  <2> QED
    BY <1>2, <1>4, <2>1 DEF Follows, WorkPhases
<1> QED
  BY <1>4, <1>5, <1>6

(* The active step of a passage.                                           *)
LEMMA PassageAt ==
  ASSUME NEW n, NEW k, NEW e, NEW m, NEW a, Passage(n, k, e, m, a)
  PROVE  /\ ActiveAt(n) = a /\ n.chart[MainChart] \in Chart
         /\ a # NoStep => a \in StepsOf(MainChart) /\ a \in Steps /\ n.chart[MainChart].active = <<a>>
         /\ n.chart[MainChart].active = <<>> <=> a = NoStep
<1>1. /\ n.chart[MainChart] \in Chart
      /\ \/ a = NoStep /\ n.chart[MainChart].active = <<>>
         \/ a \in StepsOf(MainChart) /\ n.chart[MainChart].active = <<a>>
  BY PassageBefore DEF AsBefore
<1>2. NoStep \notin StepsOf(MainChart) /\ StepsOf(MainChart) \subseteq Steps
  BY NoEnd DEF StepsOf
<1> QED
  BY <1>1, <1>2, OneStepList DEF ActiveAt

(* INIT.                                                                   *)
LEMMA InitMoves ==
  ASSUME NEW n, NEW k, NEW e, NEW m, NEW a, Passage(n, k, e, m, a), Views(n, m),
         k.chart[MainChart].ws = "INIT"
  PROVE  MachineMoves /\ BetweenCycles(m)
<1> DEFINE r == n.chart[MainChart]
           q == m.chart[MainChart]
<1>1. r.ws = "INIT" /\ (r.phase # "EXITTRANS" \/ r.en # "START")
  BY LookFollows DEF Follows
<1>2. BackAtStart(n, m) /\ q.en = r.en /\ q.ws = "INIT"
  BY PassesBack
<1>3. BetweenCycles(m) /\ ActiveAt(m) = StartOf(n) /\ SeenAs(q) = "Idle"
  BY <1>2, BackSeen
<1>4. ActiveAt(n) = a /\ r \in Chart /\ (r.active = <<>> => a = NoStep)
  BY PassageAt
<1>5. r.phase = "ENTRYDO" => a = NoStep
  BY <1>1, <1>4 DEF Passage, BetweenCycles
<1>6. r.phase \in WorkPhases /\ r.en \in Commands
  BY <1>4 DEF Chart
<1>7. SeenAs(r) \in {"New", "Idle"}
  BY <1>1 DEF SeenAs
<1>8. CASE r.en = "RESET" /\ SeenAs(r) = "Idle"
  <2>1. Machine!Reset
    BY <1>2, <1>3, <1>8 DEF Views, Machine!Reset, Machine!At
  <2> QED
    BY <1>3, <2>1 DEF MachineMoves
<1>9. CASE r.en # "RESET" \/ SeenAs(r) = "New"
  <2>1. SeenAs(r) = "New" \/ r.en \in {"STOP", "BREAK"} \/ a = NoStep
    BY <1>1, <1>5, <1>6, <1>7, <1>9 DEF Commands, WorkPhases
  <2>2. Machine!Prepare
    BY <1>3, <1>4, <1>7, <2>1 DEF Views, Machine!Prepare, Machine!At
  <2>3. (chart[MainChart].en)' = chart[MainChart].en
    BY <1>2 DEF Views
  <2> QED
    BY <1>3, <2>2, <2>3 DEF MachineMoves
<1> QED
  BY <1>7, <1>8, <1>9

(* When a stop leaves the machine done.                                    *)
LEMMA StopEnds ==
  ASSUME NEW n, NEW k, NEW e, NEW m, NEW a, Passage(n, k, e, m, a),
         k.chart[MainChart].ws = "STOP", StopAt(k, a) = "TERMINATE"
  PROVE  (Targets(a, n.result) \cup {a}) \cap EndsOf(n) # {}
<1>1. /\ \A s \in StepsOf(MainChart) : k.step[s].role = n.step[s].role
      /\ k.result = n.result
  BY PassageBefore DEF AsBefore
<1>2. a # NoStep
  BY DEF StopAt
<1>3. a \in StepsOf(MainChart) /\ a \in Steps /\ ChartOf[a] = MainChart
  BY <1>2, PassageAt DEF StepsOf
<1>4. ASSUME NEW s \in StepsOf(MainChart), WorkingAt(k, MainChart, s) = "TERMINATE"
      PROVE  s \in EndsOf(n)
  BY <1>1, <1>4 DEF WorkingAt, EndsOf, MainSteps
<1>5. CASE Keeps(k, MainChart, a)
  <2>1. WorkingAt(k, MainChart, a) = "TERMINATE"
    BY <1>2, <1>5 DEF StopAt
  <2> QED
    BY <1>3, <1>4, <2>1
<1>6. CASE ~Keeps(k, MainChart, a)
  <2> DEFINE next == NextStep(n.result, a)
  <2>1. next # NoStep /\ WorkingAt(k, MainChart, next) = "TERMINATE"
    BY <1>1, <1>2, <1>6 DEF StopAt
  <2>2. next \in StepsOf(MainChart)
    BY <1>3, <2>1, NextStepRight
  <2>3. Firing(n.result, a) # {}
    BY <2>1 DEF NextStep
  <2>4. Targets(a, n.result) = {next}
    BY <1>3, <2>3, TargetsFired
  <2> HIDE DEF next
  <2>5. next \in EndsOf(n)
    BY <1>4, <2>1, <2>2
  <2> QED
    BY <2>4, <2>5
<1> QED
  BY <1>5, <1>6

(* STOP.                                                                   *)
LEMMA StopMoves ==
  ASSUME NEW n, NEW k, NEW e, NEW m, NEW a, Passage(n, k, e, m, a), Views(n, m),
         k.chart[MainChart].ws = "STOP"
  PROVE  MachineMoves /\ BetweenCycles(m)
<1> DEFINE r == n.chart[MainChart]
           p == k.chart[MainChart]
           q == m.chart[MainChart]
<1>1. IF r.ws = "STOP" THEN p.qual = "DO" /\ (r.phase # "EXITTRANS" \/ r.en \in {"STOP", "BREAK"})
      ELSE r.en = "STOP" /\ r.ws \in {"START", "BREAK"} /\ p.qual = "ENTRY"
  BY LookFollows DEF Follows
<1>2. /\ BackAtStart(n, m) /\ q.en = r.en
      /\ q.ws = IF p.qual = "ENTRY" THEN StopAt(k, a) ELSE "STOP"
  BY PassesBack
<1>3. /\ BetweenCycles(m) /\ ActiveAt(m) = StartOf(n)
      /\ SeenAs(q) = IF q.ws = "TERMINATE" THEN "Done" ELSE "Idle"
  BY <1>2, BackSeen
<1>4. ActiveAt(n) = a /\ r \in Chart /\ (r.active = <<>> => a = NoStep)
  BY PassageAt
<1>5. (chart[MainChart].en)' = chart[MainChart].en
  BY <1>2 DEF Views
<1>6. CASE r.ws = "STOP"
  <2>1. SeenAs(r) = "Idle" /\ SeenAs(q) = "Idle"
    BY <1>1, <1>2, <1>3, <1>6 DEF SeenAs
  <2>2. r.phase = "ENTRYDO" => a = NoStep
    BY <1>4, <1>6 DEF Passage, BetweenCycles
  <2>3. r.en \in {"STOP", "BREAK"} \/ a = NoStep
    BY <1>1, <1>4, <1>6, <2>2 DEF Chart, WorkPhases
  <2>4. Machine!Prepare
    BY <1>3, <1>4, <2>1, <2>3 DEF Views, Machine!Prepare, Machine!At
  <2> QED
    BY <1>3, <1>5, <2>4 DEF MachineMoves
<1>7. CASE r.ws # "STOP"
  <2>1. SeenAs(r) \in {"Running", "Held"}
    BY <1>1, <1>7 DEF SeenAs
  <2>2. SeenAs(q) = "Done" => (Targets(a, n.result) \cup {a}) \cap EndsOf(n) # {}
    BY <1>1, <1>2, <1>3, <1>7, StopEnds
  <2>3. Machine!Stop
    BY <1>1, <1>3, <1>4, <1>7, <2>1, <2>2 DEF Views, Machine!Stop, Machine!At
  <2> QED
    BY <1>3, <1>5, <2>3 DEF MachineMoves
<1> QED
  BY <1>6, <1>7

(* BREAK.                                                                  *)
LEMMA BreakMoves ==
  ASSUME NEW n, NEW k, NEW e, NEW m, NEW a, Passage(n, k, e, m, a), Views(n, m),
         k.chart[MainChart].ws = "BREAK"
  PROVE  MachineMoves /\ BetweenCycles(m)
<1> DEFINE r == n.chart[MainChart]
<1>1. r.en = "BREAK" /\ r.ws \in {"START", "BREAK"}
  BY LookFollows DEF Follows
<1>2. HeldAt(n, m)
  BY PassesHeld
<1>3. /\ BetweenCycles(m) /\ ActiveAt(m) = ActiveAt(n)
      /\ SeenAs(m.chart[MainChart]) = "Held" /\ m.chart[MainChart].en = r.en
  BY <1>2, HeldSeen DEF HeldAt
<1>4. SeenAs(r) \in {"Running", "Held"}
  BY <1>1 DEF SeenAs
<1>5. Machine!Hold /\ (chart[MainChart].en)' = chart[MainChart].en
  BY <1>1, <1>3, <1>4 DEF Views, Machine!Hold, Machine!At
<1> QED
  BY <1>3, <1>5 DEF MachineMoves

(* TERMINATE.                                                              *)
LEMMA EndMoves ==
  ASSUME NEW n, NEW k, NEW e, NEW m, NEW a, Passage(n, k, e, m, a), Views(n, m),
         k.chart[MainChart].ws = "TERMINATE"
  PROVE  MachineMoves /\ BetweenCycles(m)
<1> DEFINE r == n.chart[MainChart]
           q == m.chart[MainChart]
<1>1. r.ws = "TERMINATE" \/ (r.en = "RESET" /\ r.ws # "INIT")
  BY LookFollows DEF Follows
<1>2. SeenAs(r) # "New"
  BY <1>1 DEF SeenAs
<1>3. CASE r.en # "RESET"
  <2>1. RestsAt(n, m)
    BY <1>3, PassesEnd
  <2>2. /\ BetweenCycles(m) /\ ActiveAt(m) = ActiveAt(n)
        /\ SeenAs(q) = "Done" /\ q.en = r.en
    BY <2>1, RestsSeen DEF RestsAt
  <2>3. SeenAs(r) = "Done"
    BY <1>1, <1>3 DEF SeenAs
  <2>4. Machine!Rest /\ (chart[MainChart].en)' = chart[MainChart].en
    BY <1>3, <2>2, <2>3 DEF Views, Machine!Rest
  <2> QED
    BY <2>2, <2>4 DEF MachineMoves
<1>4. CASE r.en = "RESET" /\ StartOf(n) = NoStep
  <2>1. BackAtStart(n, m) /\ q.ws = "TERMINATE" /\ q.en = "RESET"
    BY <1>4, PassesEnd
  <2>2. BetweenCycles(m) /\ ActiveAt(m) = NoStep /\ SeenAs(q) = "Done"
    BY <1>4, <2>1, BackSeen
  <2>3. Machine!Lose /\ (chart[MainChart].en)' = chart[MainChart].en
    BY <1>4, <2>1, <2>2 DEF Views, Machine!Lose
  <2> QED
    BY <2>2, <2>3 DEF MachineMoves
<1>5. CASE r.en = "RESET" /\ StartOf(n) # NoStep
  <2>1. BackAtStart(n, m) /\ q.ws = "INIT" /\ q.en = "STOP"
    BY <1>5, PassesEnd
  <2>2. BetweenCycles(m) /\ ActiveAt(m) = StartOf(n) /\ SeenAs(q) = "Idle"
    BY <2>1, BackSeen
  <2>3. Machine!Reset
    BY <1>2, <1>5, <2>1, <2>2 DEF Views, Machine!Reset, Machine!At
  <2> QED
    BY <2>2, <2>3 DEF MachineMoves
<1> QED
  BY <1>3, <1>4, <1>5

(* START.                                                                  *)
LEMMA StartMoves ==
  ASSUME NEW n, NEW k, NEW e, NEW m, NEW a, Passage(n, k, e, m, a), Views(n, m),
         k.chart[MainChart].ws = "START"
  PROVE  MachineMoves /\ BetweenCycles(m)
<1> DEFINE r == n.chart[MainChart]
           q == m.chart[MainChart]
           next == NextStep(n.result, a)
<1>1. r.phase = "EXITTRANS" /\ r.en = "START"
  BY LookFollows DEF Follows
<1>2. /\ ActiveAt(n) = a /\ r \in Chart
      /\ a # NoStep => a \in StepsOf(MainChart) /\ a \in Steps /\ r.active = <<a>>
  BY PassageAt
<1>3. r.ws \in {"INIT", "START", "BREAK", "STOP"}
  <2>1. r.ws # "TERMINATE"
    <3>1. LooksAt(n, k, MainChart)
      BY DEF Passage, CycledBy
    <3> QED
      BY <3>1 DEF LooksAt, Looks
  <2> QED
    BY <1>2, <2>1 DEF Chart
<1>4. /\ a = NoStep \/ Stays(n, a) => Arrived(n, m, a)
      /\ a # NoStep /\ ~Stays(n, a) =>
           IF next = NoStep THEN Nowhere(n, m) ELSE Arrived(n, m, next)
  BY PassesOn
<1> HIDE DEF next
<1>5. CASE r.ws \in {"INIT", "BREAK", "STOP"}
  <2>1. a # NoStep => Stays(n, a)
    BY <1>2, <1>5 DEF Passage, BetweenCycles, Stays
  <2>2. Arrived(n, m, a)
    BY <1>4, <2>1
  <2>3. /\ BetweenCycles(m) /\ ActiveAt(m) = a /\ q.en = r.en
        /\ SeenAs(q) = IF a \in EndsOf(n) THEN "Done" ELSE "Running"
    BY <2>2, ArrivedSeen DEF Arrived
  <2>4. SeenAs(r) = IF r.ws = "BREAK" THEN "Held" ELSE "Idle"
    BY <1>1, <1>5 DEF SeenAs
  <2>5. Machine!Begin \/ Machine!Resume
    BY <1>1, <1>2, <2>3, <2>4
       DEF Views, Machine!Begin, Machine!Resume, Machine!Arrive, Machine!At
  <2>6. (chart[MainChart].en)' = chart[MainChart].en
    BY <2>3 DEF Views
  <2> QED
    BY <2>3, <2>5, <2>6 DEF MachineMoves
<1>6. CASE r.ws = "START"
  <2>1. SeenAs(r) = "Running"
    BY <1>6 DEF SeenAs
  <2>2. CASE a = NoStep \/ Stays(n, a)
    <3>1. /\ BetweenCycles(m) /\ ActiveAt(m) = a /\ q.en = r.en
          /\ SeenAs(q) = IF a \in EndsOf(n) THEN "Done" ELSE "Running"
      BY <1>4, <2>2, ArrivedSeen DEF Arrived
    <3>2. Targets(a, n.result) = {}
      <4>1. CASE a = NoStep
        BY <4>1 DEF Targets
      <4>2. CASE a # NoStep
        <5>1. n.step[a].phase = "EXITTRANS"
          BY <1>2, <1>6, <4>2 DEF Passage, BetweenCycles
        <5>2. Firing(n.result, a) = {}
          BY <2>2, <4>2, <5>1 DEF Stays
        <5> QED
          BY <1>2, <4>2, <5>2, TargetsFired
      <4> QED
        BY <4>1, <4>2
    <3>3. Machine!Stay
      BY <1>1, <1>2, <2>1, <3>1, <3>2 DEF Views, Machine!Stay, Machine!Arrive, Machine!At
    <3>4. (chart[MainChart].en)' = chart[MainChart].en
      BY <3>1 DEF Views
    <3> QED
      BY <3>1, <3>3, <3>4 DEF MachineMoves
  <2>3. CASE a # NoStep /\ ~Stays(n, a)
    <3>1. Targets(a, n.result) = {next}
      BY <1>2, <2>3, TargetsFired DEF Stays, next
    <3>2. CASE next = NoStep
      <4>1. BetweenCycles(m) /\ ActiveAt(m) = NoStep /\ SeenAs(q) = "Idle" /\ q.en = r.en
        BY <1>4, <2>3, <3>2, NowhereSeen DEF Nowhere
      <4>2. Machine!Move
        BY <1>1, <1>2, <2>1, <3>1, <3>2, <4>1 DEF Views, Machine!Move, Machine!At
      <4>3. (chart[MainChart].en)' = chart[MainChart].en
        BY <4>1 DEF Views
      <4> QED
        BY <4>1, <4>2, <4>3 DEF MachineMoves
    <3>3. CASE next # NoStep
      <4>1. Arrived(n, m, next)
        BY <1>4, <2>3, <3>3
      <4>2. /\ BetweenCycles(m) /\ ActiveAt(m) = next /\ q.en = r.en
            /\ SeenAs(q) = IF next \in EndsOf(n) THEN "Done" ELSE "Running"
        BY <4>1, ArrivedSeen DEF Arrived
      <4>3. Machine!Move
        BY <1>1, <1>2, <2>1, <3>1, <3>3, <4>2
           DEF Views, Machine!Move, Machine!Arrive, Machine!At
      <4>4. (chart[MainChart].en)' = chart[MainChart].en
        BY <4>2 DEF Views
      <4> QED
        BY <4>2, <4>3, <4>4 DEF MachineMoves
    <3> QED
      BY <3>2, <3>3
  <2> QED
    BY <2>2, <2>3
<1> QED
  BY <1>3, <1>5, <1>6

(* The state between two cycles: the invariant that the steps of the       *)
(* machine need.                                                           *)
Standing(n) == Sound(n) /\ BetweenCycles(n) /\ SubStarts(n)

LEMMA NewChartsStanding ==
  ASSUME SubChartsStart, ChartInit
  PROVE  Standing(Net)
<1>1. Sound(Net)
  BY NewChartsSound
<1>2. MainChart \in Charts /\ SubCharts \subseteq Charts
  BY ChartAssumption DEF SubCharts
<1>3. BetweenCycles(Net)
  <2>1. Net.chart[MainChart] = NewChart(MainChart)
    BY <1>2 DEF ChartInit, Net
  <2>2. \A s \in StepsOf(MainChart) : Net.chart[MainChart].active # <<s>>
    BY <2>1, OneStepList DEF NewChart
  <2> QED
    BY <2>1, <2>2 DEF NewChart, BetweenCycles
<1>4. SubStarts(Net)
  <2> SUFFICES ASSUME NEW d \in SubCharts PROVE InitStep[d] \in StartSteps(Net, d) \ EndSteps
    BY DEF SubStarts
  <2> DEFINE s == InitStep[d]
  <2>1. s \in StepsOf(d) /\ s \notin EndSteps /\ s # EndStep[d]
    BY DEF SubChartsStart
  <2>2. Net.step[s] = NewStep(s) /\ ChartOf[s] = d
    BY <2>1 DEF ChartInit, Net, StepsOf
  <2>3. (CASE s = InitStep[d] -> "START" [] s = EndStep[d] -> "END" [] OTHER -> "NORMAL") = "START"
    BY <2>1
  <2>4. NewStep(s).role = "START"
    BY <2>2, <2>3 DEF NewStep
  <2> QED
    BY <2>1, <2>2, <2>4 DEF StartSteps
<1> QED
  BY <1>1, <1>3, <1>4 DEF Standing

(* A cycle takes the main chart from one such state to the next, by a step *)
(* of the machine.                                                         *)
LEMMA CycleMoves ==
  ASSUME Standing(Net), Cycle
  PROVE  Standing(Net)' /\ Machine!Cycle
<1> DEFINE e == [what |-> "cycle", who |-> NoStep, before |-> begun]
           n == Begins
           m == ExecChart(SubChartsRun, n, MainChart)
           a == ActiveStep(n.chart[MainChart].active)
           k == Look(n, MainChart, a)
           o == DoState(SubChartsRun, k, MainChart, a)
<1>1. MainChart \in Charts /\ MainChart \notin SubCharts /\ SubCharts \subseteq Charts
  BY ChartAssumption DEF SubCharts
<1>2. Sound(Net) /\ Sound(Net)' /\ Net \in Nets /\ Net' \in Nets
  BY CycleSound DEF Standing, Sound
<1>3. e \in Act /\ Paired(e)
  BY <1>2 DEF Nets, Net, Act, Paired
<1> HIDE DEF e
<1>4. <<e>> \in Seq(Act) /\ \A i \in DOMAIN <<e>> : Paired(<<e>>[i])
  BY <1>3
<1>5. /\ n \in Nets /\ n.trace = <<e>> /\ n.chart = Net.chart /\ n.step = Net.step
      /\ n.begun = Net.begun /\ n.result = Net.result
  BY <1>2, <1>4 DEF Begins, Nets, e
<1>6. NetBecomes(m)
  BY DEF Cycle
<1> HIDE DEF n
<1>7. Cycling(n)
  BY <1>4, <1>5, OneStepList DEF Cycling
<1>8. \A c \in Charts : Settled(n, c) /\ ChartRight(n, c)
  <2> SUFFICES ASSUME NEW c \in Charts PROVE Settled(n, c) /\ ChartRight(n, c)
    OBVIOUS
  <2>1. Settled(Net, c) /\ ChartRight(Net, c)
    BY <1>2 DEF Sound
  <2>2. Settled(n, c)
    BY <1>5, <2>1 DEF Settled
  <2>3. SubRight(Net, c) => SubRight(n, c)
    BY <1>5 DEF SubRight
  <2>4. MainRight(Net) => MainRight(n)
    BY <1>5 DEF MainRight, ModesOn
  <2> QED
    BY <2>1, <2>2, <2>3, <2>4 DEF ChartRight
<1>9. Ready(n, MainChart) /\ Settled(n, MainChart) /\ ChartRight(n, MainChart)
  BY <1>1, <1>5, <1>7, <1>8 DEF Ready, SubSound, ChartRight
<1>10. BetweenCycles(n) /\ SubStarts(n)
  BY <1>5 DEF Standing, BetweenCycles, SubStarts, StartSteps
<1>11. n.chart[MainChart].mode = "ON"
  BY <1>10 DEF BetweenCycles
<1>12. CycledBy(n, k, o, m, a)
  BY <1>9, <1>10, <1>11, SubChartsRunRight, MainCycle
<1>13. ChartRan(n, m, MainChart)
  BY <1>1, <1>9, SubChartsRunRight, ExecChartRight
<1> HIDE DEF a
<1> HIDE DEF k
<1> HIDE DEF o
<1> HIDE DEF m
<1>14. Passage(n, k, o, m, a)
  BY <1>9, <1>10, <1>12 DEF Passage
<1>15. /\ chart = n.chart /\ step = n.step /\ results = n.result /\ chart' = m.chart
       /\ step' = m.step /\ results' = m.result /\ trace' = m.trace
  BY <1>5, <1>6 DEF Net, NetBecomes
<1>16. Views(n, m)
  BY <1>15 DEF Views, StateSeen, SeenAs, ActiveAt, StartStep, StartOf, StartSteps, Net, EndsOf
<1>17. MachineMoves /\ BetweenCycles(m)
  BY <1>14, <1>16, LookFollows, InitMoves, StartMoves, StopMoves, BreakMoves, EndMoves
<1>18. \A c \in Charts : Roles(n, m, c)
  BY <1>13 DEF ChartRan
<1>19. Standing(Net)'
  <2>1. SubStarts(m)
    BY <1>1, <1>10, <1>18, SubStartsStay
  <2>2. BetweenCycles(Net)'
    BY <1>15, <1>17 DEF BetweenCycles, Net
  <2>3. SubStarts(Net)'
    BY <1>15, <2>1 DEF SubStarts, StartSteps, Net
  <2> QED
    BY <1>2, <2>2, <2>3 DEF Standing
<1>20. (trace # <<>>)' = TRUE
  BY <1>12, <1>15 DEF CycledBy, Ready, Cycling
<1>21. results' = results
  BY <1>13, <1>15 DEF ChartRan
<1>22. \A s \in MainSteps : step'[s].role = step[s].role
  BY <1>1, <1>15, <1>18 DEF Roles, MainSteps
<1>23. {s \in MainSteps : step[s].role = "END"}' = {s \in MainSteps : step[s].role = "END"}
  BY <1>22 DEF MainSteps, StepsOf
<1>24. StartStep' = StartStep
  <2>1. StartSteps(Net, MainChart)' = StartSteps(Net, MainChart)
    BY <1>22 DEF StartSteps, Net, MainSteps, StepsOf
  <2> QED
    BY <2>1 DEF StartStep
<1>25. Machine!Cycle
  BY <1>17, <1>20, <1>21, <1>23, <1>24 DEF Machine!Cycle, MachineMoves
<1> QED
  BY <1>19, <1>25

(* What clients do is a step of the environment.                           *)
LEMMA ServedMoves ==
  ASSUME Standing(Net), Served(Net, Net'), Sound(Net)', SubStarts(Net)'
  PROVE  Standing(Net)' /\ Machine!Environment
<1>1. MainChart \in Charts
  BY ChartAssumption
<1>2. /\ chart'[MainChart].active = chart[MainChart].active
      /\ chart'[MainChart].ws = chart[MainChart].ws
      /\ chart'[MainChart].phase = chart[MainChart].phase
      /\ chart'[MainChart].qual = chart[MainChart].qual
      /\ chart'[MainChart].mode = chart[MainChart].mode
      /\ \A s \in Steps : step'[s].phase = step[s].phase
      /\ trace' = <<>>
  BY <1>1 DEF Served, Net
<1>3. BetweenCycles(Net)'
  BY <1>2 DEF Standing, BetweenCycles, Net, StepsOf
<1>4. StateSeen' = StateSeen
  BY <1>2 DEF StateSeen
<1>5. ActiveStep(chart[MainChart].active)' = ActiveStep(chart[MainChart].active)
  BY <1>2
<1>6. (trace # <<>>)' = FALSE
  BY <1>2
<1> QED
  BY <1>3, <1>4, <1>5, <1>6 DEF Standing, Machine!Environment

(* The start steps of the sub-charts survive what clients do.              *)
LEMMA InitStepKeepsStarts ==
  ASSUME SubChartsStart, Standing(Net), NEW s \in InitSteps, SetInitStep(s)
  PROVE  SubStarts(Net)'
<1> DEFINE role(x) == IF x = s THEN "START" ELSE IF step[x].role = "END" THEN "END" ELSE "NORMAL"
           named(x) == [step[x] EXCEPT !.role = role(x), !.mode = IF x = s THEN "ON" ELSE "OFF"]
<1>1. step \in [Steps -> Step] /\ s \in Steps
  BY ChartAssumption DEF Standing, Sound, Net, Nets
<1>2. named(s).role = "START"
  BY <1>1 DEF Step
<1>3. step' = [x \in Steps |-> IF ChartOf[x] = ChartOf[s] THEN named(x) ELSE step[x]]
  BY DEF SetInitStep
<1> HIDE DEF named
<1>4. /\ step'[s].role = "START"
      /\ \A x \in Steps : ChartOf[x] # ChartOf[s] => step'[x] = step[x]
  BY <1>1, <1>2, <1>3
<1> SUFFICES ASSUME NEW d \in SubCharts
             PROVE  \E x \in StepsOf(d) : step'[x].role = "START" /\ x \notin EndSteps
  BY DEF SubStarts, StartSteps, Net
<1>5. CASE ChartOf[s] = d
  <2>1. s \in StepsOf(d) /\ s \notin EndSteps
    BY <1>1, <1>5 DEF SubChartsStart, StepsOf
  <2> QED
    BY <1>4, <2>1
<1>6. CASE ChartOf[s] # d
  <2>1. \E x \in StepsOf(d) : step[x].role = "START" /\ x \notin EndSteps
    BY DEF Standing, SubStarts, StartSteps, Net
  <2> QED
    BY <1>4, <1>6, <2>1 DEF StepsOf
<1> QED
  BY <1>5, <1>6

LEMMA EndStepKeepsStarts ==
  ASSUME Standing(Net), NEW s \in EndSteps, SetEndStep(s)
  PROVE  SubStarts(Net)'
<1>1. step \in [Steps -> Step]
  BY DEF Standing, Sound, Net, Nets
<1>2. \A x \in Steps \ {s} : step'[x] = step[x]
  BY <1>1 DEF SetEndStep
<1> SUFFICES ASSUME NEW d \in SubCharts
             PROVE  \E x \in StepsOf(d) : step'[x].role = "START" /\ x \notin EndSteps
  BY DEF SubStarts, StartSteps, Net
<1>3. \E x \in StepsOf(d) : step[x].role = "START" /\ x \notin EndSteps
  BY DEF Standing, SubStarts, StartSteps, Net
<1> QED
  BY <1>2, <1>3 DEF StepsOf

(* Every step of the chart is one of the machine, or of its environment.   *)
LEMMA EveryStepMoves ==
  SubChartsStart /\ Standing(Net) /\ [ChartNext]_chartVars
    => Standing(Net)' /\ [Machine!Environment \/ Machine!Cycle]_(Machine!vars)
<1> SUFFICES ASSUME SubChartsStart, Standing(Net), [ChartNext]_chartVars
             PROVE  Standing(Net)' /\ [Machine!Environment \/ Machine!Cycle]_(Machine!vars)
  OBVIOUS
<1> USE DEF Standing
<1>1. CASE Cycle
  BY <1>1, CycleMoves
<1>2. ASSUME NEW e \in Commands, Command(e) PROVE Standing(Net)' /\ Machine!Environment
  <2>1. Sound(Net)' /\ Served(Net, Net')
    BY <1>2, CommandSound
  <2>2. SubStarts(Net)'
    BY <1>2 DEF Command, SubStarts, StartSteps, Net
  <2> QED
    BY <2>1, <2>2, ServedMoves
<1>3. ASSUME NEW t \in Transitions, SetResult(t) PROVE Standing(Net)' /\ Machine!Environment
  <2>1. Sound(Net)' /\ Served(Net, Net')
    BY <1>3, SetResultSound
  <2>2. SubStarts(Net)'
    BY <1>3 DEF SetResult, SubStarts, StartSteps, Net
  <2> QED
    BY <2>1, <2>2, ServedMoves
<1>4. ASSUME NEW s \in InitSteps, SetInitStep(s) PROVE Standing(Net)' /\ Machine!Environment
  <2>1. Sound(Net)' /\ Served(Net, Net')
    BY <1>4, SetInitStepSound
  <2>2. SubStarts(Net)'
    BY <1>4, InitStepKeepsStarts
  <2> QED
    BY <2>1, <2>2, ServedMoves
<1>5. ASSUME NEW s \in EndSteps, SetEndStep(s) PROVE Standing(Net)' /\ Machine!Environment
  <2>1. Sound(Net)' /\ Served(Net, Net')
    BY <1>5, SetEndStepSound
  <2>2. SubStarts(Net)'
    BY <1>5, EndStepKeepsStarts
  <2> QED
    BY <2>1, <2>2, ServedMoves
<1>6. CASE UNCHANGED chartVars
  <2>1. Net' = Net /\ chart' = chart /\ step' = step /\ results' = results /\ trace' = trace
    BY <1>6 DEF chartVars, Net
  <2>2. Standing(Net)'
    BY <2>1
  <2>3. UNCHANGED Machine!vars
    BY <2>1 DEF Machine!vars, StateSeen, StartStep, StartSteps, Net
  <2> QED
    BY <2>2, <2>3
<1> QED
  BY <1>1, <1>2, <1>3, <1>4, <1>5, <1>6 DEF ChartNext

LEMMA NewChartsAreNew == ChartInit => Machine!Init
<1> SUFFICES ASSUME ChartInit PROVE Machine!Init
  OBVIOUS
<1>1. MainChart \in Charts
  BY ChartAssumption
<1>2. chart[MainChart] = NewChart(MainChart) /\ trace = <<>>
  BY <1>1 DEF ChartInit
<1>3. StateSeen = "New"
  BY <1>2 DEF StateSeen, NewChart
<1>4. chart[MainChart].en = "STOP" /\ ActiveStep(chart[MainChart].active) = NoStep
  <2>1. chart[MainChart].en = "STOP" /\ chart[MainChart].active = <<>>
    BY <1>2 DEF NewChart
  <2> QED
    BY <2>1, OneStepList
<1>5. StartStep \in MainSteps \cup {NoStep}
  BY StartedOne DEF StartStep, StartOf
<1> QED
  BY <1>2, <1>3, <1>4, <1>5 DEF Machine!Init

(* The main chart implements ChartMachine: the machine that is at one step *)
(* at a time, moves along transitions whose conditions hold and obeys the  *)
(* last command within one cycle; for every chart, whatever its steps do,  *)
(* and whatever clients command and rename, as long as its sub-charts keep *)
(* a start step to be reset to.                                            *)
THEOREM ChartImplementsMachine ==
  ASSUME SubChartsStart
  PROVE  ChartSpec => ImplementsMachine
<1>1. ChartInit => Standing(Net) /\ Machine!Init
  BY NewChartsStanding, NewChartsAreNew
<1>2. Standing(Net) /\ [ChartNext]_chartVars
        => Standing(Net)' /\ [Machine!Environment \/ Machine!Cycle]_(Machine!vars)
  BY EveryStepMoves
<1> QED
  BY <1>1, <1>2, PTL DEF ChartSpec, ImplementsMachine, Machine!Spec

=============================================================================
