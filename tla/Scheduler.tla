----------------------------- MODULE Scheduler -----------------------------
(***************************************************************************)
(* The scheduler of ACPLT/OV (core/ov/source/ov_scheduler.c) and the       *)
(* server loop that drives it (core/runtimeserver/ov_runtimeserver.c).     *)
(*                                                                         *)
(* The scheduler keeps one heap-allocated event per registered active      *)
(* object in a singly linked list ordered by time.  The server calls       *)
(* ov_scheduler_schedulenextevent in a loop: it dispatches at most the     *)
(* first event, by calling the object's executefnc, and returns how long   *)
(* the server may sleep.  The executefnc is free to call the scheduler     *)
(* again: to register, unregister and move events, its own among them.     *)
(*                                                                         *)
(* The linked list is a sequence of events; an event is an element of the  *)
(* list or has been freed, the code holds no other pointer to one across   *)
(* a callback.  Only one event per object is registered here: the code     *)
(* does not check it, its callers are expected to (see ActiveObjects).     *)
(***************************************************************************)
EXTENDS Integers, Sequences, SequencesExt

CONSTANTS
  Objects,      (* the active objects                                      *)
  NoObj,        (* the null pointer                                        *)
  MaxTime,      (* bound of the clock and of the event times               *)
  MaxSpan,      (* bound of the time spans given to setreleventtime        *)
  MaxSleep,     (* the server loop sleeps no longer than this              *)
  ClockMayJump, (* may the wall clock be set while the server runs?        *)
  PastTimes     (* may clients ask for event times that have passed?       *)

ASSUME SchedulerAssumption ==
  /\ NoObj \notin Objects
  /\ MaxTime \in Nat
  /\ MaxSpan \in Nat
  /\ MaxSleep \in Nat
  /\ ClockMayJump \in BOOLEAN
  /\ PastTimes \in BOOLEAN

VARIABLES
  queue,        (* pfirstevent and the events linked behind it             *)
  active,       (* the objects whose v_objectstate has OV_OS_ACTIVE set    *)
  now,          (* the wall clock that ov_time_gettime reads               *)
  activitylock, (* ov_activitylock                                         *)
  phase,        (* where the server's only thread is                       *)
  running,      (* the object whose executefnc is being called             *)
  firedAt,      (* local variable time of schedulenextevent at the call    *)
  delay,        (* how long the server loop sleeps                         *)
  asleepSince   (* when it fell asleep                                     *)

vars == <<queue, active, now, activitylock, phase, running, firedAt, delay, asleepSince>>

Time   == 0..MaxTime
Event  == [obj : Objects, time : Time]
Phases == {"startup", "call", "exec", "sleep"}

----------------------------------------------------------------------------
(* The event queue.                                                        *)

(* insertevent walks to the first event that is later than the new one.    *)
Bug_PlaceBeforeEqual(q, t) ==
  Min({i \in 1..Len(q)+1 : i \in 1..Len(q) => q[i].time >= t})
Place(q, t) == Min({i \in 1..Len(q)+1 : i \in 1..Len(q) => q[i].time > t})

InsertEvent(q, e) == InsertAt(q, Place(q, e.time), e)

Indices(q, o) == {i \in 1..Len(q) : q[i].obj = o}

Queued(q, o) == Indices(q, o) # {}

(* All searches of the list stop at the first event of the object.         *)
FirstIndex(q, o) == Min(Indices(q, o))

RemoveEvent(q, o) == IF Queued(q, o) THEN RemoveAt(q, FirstIndex(q, o)) ELSE q

(* setabseventtime: an object without an event is left alone.              *)
Bug_MoveInPlace(q, o, t) ==
  IF Queued(q, o) THEN [q EXCEPT ![FirstIndex(q, o)].time = t] ELSE q
MoveEvent(q, o, t) ==
  IF Queued(q, o) THEN InsertEvent(RemoveEvent(q, o), [obj |-> o, time |-> t])
                  ELSE q

EventTime(q, o) == q[FirstIndex(q, o)].time

(* The span from time s to time t, which is not negative.                  *)
Span(s, t) == IF t > s THEN t - s ELSE 0

(* What schedulenextevent returns, after the cap of the server loop.       *)
SleepSpan(time) ==
  IF queue = <<>> THEN MaxSleep
  ELSE Min({MaxSleep, Span(time, Head(queue).time)})

----------------------------------------------------------------------------
(* The calls of the clients.  They are made from the thread of the server: *)
(* while the database starts up or from inside an executefnc.              *)

ApiCall == phase \in {"startup", "exec"} /\
           UNCHANGED <<now, activitylock, phase, running, firedAt, delay, asleepSince>>

Register(o) ==
  /\ ApiCall
  /\ ~Queued(queue, o)
  /\ queue' = InsertEvent(queue, [obj |-> o, time |-> now])
  /\ active' = active \cup {o}

(* The flag is cleared only when an event was found.                       *)
Unregister(o) ==
  /\ ApiCall
  /\ queue' = RemoveEvent(queue, o)
  /\ active' = IF Queued(queue, o) THEN active \ {o} ELSE active

SetAbsEventTime(o, t) ==
  /\ ApiCall
  /\ t >= now \/ PastTimes
  /\ queue' = MoveEvent(queue, o, t)
  /\ UNCHANGED active

SetRelEventTime(o, span) ==
  /\ ApiCall
  /\ now + span <= MaxTime
  /\ queue' = MoveEvent(queue, o, now + span)
  /\ UNCHANGED active

(* A client switches the activities off or on (ov_vendortree.c).           *)
SetActivityLock(b) ==
  /\ phase = "exec"
  /\ activitylock' = b
  /\ UNCHANGED <<queue, active, now, phase, running, firedAt, delay, asleepSince>>

----------------------------------------------------------------------------
(* The server loop.                                                        *)

EnterLoop ==
  /\ phase = "startup"
  /\ phase' = "call"
  /\ UNCHANGED <<queue, active, now, activitylock, running, firedAt, delay, asleepSince>>

Due == ~activitylock /\ queue # <<>> /\ now > Head(queue).time

(* schedulenextevent stamps the first event with the current time, moves   *)
(* it to its new place and then calls the object's method.                 *)
Bug_DispatchKeepsTime ==
  /\ phase = "call"
  /\ Due
  /\ queue' = InsertEvent(Tail(queue), Head(queue))
  /\ running' = Head(queue).obj
  /\ firedAt' = now
  /\ phase' = "exec"
  /\ UNCHANGED <<active, now, activitylock, delay, asleepSince>>
Dispatch ==
  /\ phase = "call"
  /\ Due
  /\ queue' = InsertEvent(Tail(queue), [Head(queue) EXCEPT !.time = now])
  /\ running' = Head(queue).obj
  /\ firedAt' = now
  /\ phase' = "exec"
  /\ UNCHANGED <<active, now, activitylock, delay, asleepSince>>

(* The method returns; the clock is read again to compute the sleep.       *)
Bug_ReturnStaleClock ==
  /\ phase = "exec"
  /\ running' = NoObj
  /\ delay' = SleepSpan(firedAt)
  /\ asleepSince' = now
  /\ phase' = "sleep"
  /\ UNCHANGED <<queue, active, now, activitylock, firedAt>>
Return ==
  /\ phase = "exec"
  /\ running' = NoObj
  /\ delay' = SleepSpan(now)
  /\ asleepSince' = now
  /\ phase' = "sleep"
  /\ UNCHANGED <<queue, active, now, activitylock, firedAt>>

Idle ==
  /\ phase = "call"
  /\ ~Due
  /\ delay' = IF activitylock THEN MaxSleep ELSE SleepSpan(now)
  /\ asleepSince' = now
  /\ phase' = "sleep"
  /\ UNCHANGED <<queue, active, now, activitylock, running, firedAt>>

(* A signal may end nanosleep early, and the loop does not look.           *)
Wake ==
  /\ phase = "sleep"
  /\ phase' = "call"
  /\ UNCHANGED <<queue, active, now, activitylock, running, firedAt, delay, asleepSince>>

Tick ==
  /\ now < MaxTime
  /\ now' = now + 1
  /\ UNCHANGED <<queue, active, activitylock, phase, running, firedAt, delay, asleepSince>>

(* gettimeofday follows the wall clock, which may be set to any time.      *)
ClockJump ==
  /\ ClockMayJump
  /\ now' \in Time
  /\ UNCHANGED <<queue, active, activitylock, phase, running, firedAt, delay, asleepSince>>

----------------------------------------------------------------------------
(* The server may be started with the activities locked (option -a).       *)
Init ==
  /\ queue = <<>>
  /\ active = {}
  /\ now = 0
  /\ activitylock \in BOOLEAN
  /\ phase = "startup"
  /\ running = NoObj
  /\ firedAt = 0
  /\ delay = 0
  /\ asleepSince = 0

Client ==
  \/ \E o \in Objects : Register(o)
  \/ \E o \in Objects : Unregister(o)
  \/ \E o \in Objects, t \in Time : SetAbsEventTime(o, t)
  \/ \E o \in Objects, span \in 0..MaxSpan : SetRelEventTime(o, span)
  \/ \E b \in BOOLEAN : SetActivityLock(b)

Server == EnterLoop \/ Dispatch \/ Return \/ Idle \/ Wake

Next == Client \/ Server \/ Tick \/ ClockJump

Spec == Init /\ [][Next]_vars

(* The server's thread goes on: startup ends, methods return (fb_task and  *)
(* RootComTask loop only over finitely many children), sleeps end.         *)
FairSpec == Spec /\ WF_vars(Server)

----------------------------------------------------------------------------
(* Every variable has its type.                                            *)
TypeOK ==
  /\ queue \in Seq(Event)
  /\ active \in SUBSET Objects
  /\ now \in Time
  /\ activitylock \in BOOLEAN
  /\ phase \in Phases
  /\ running \in Objects \cup {NoObj}
  /\ firedAt \in Time
  /\ delay \in 0..MaxSleep
  /\ asleepSince \in Time

(* The list is ordered by time: the header calls OV_SCHEDULER_EVENT an     *)
(* "event in a simple event queue, ordered by time", and schedulenextevent *)
(* only ever looks at the first one.                                       *)
Ordered(q) == \A i, j \in 1..Len(q) : i < j => q[i].time <= q[j].time

QueueOrdered == Ordered(queue)

(* An object has one event at most, so that unregister leaves none behind. *)
OneEventPerObject ==
  \A i, j \in 1..Len(queue) : queue[i].obj = queue[j].obj => i = j

(* The flag OV_OS_ACTIVE, by which ov_class_deleteobject decides whether   *)
(* to unregister an object before its memory is freed, tells exactly       *)
(* which objects the queue points to.                                      *)
ActiveIffQueued == \A o \in Objects : o \in active <=> Queued(queue, o)

(* All that the functions of the scheduler rely on when they are called:   *)
(* an ordered list without doublets, and flags that agree with it, after   *)
(* whatever the methods did to the list while an event was executed.       *)
QueueSound == TypeOK /\ QueueOrdered /\ OneEventPerObject /\ ActiveIffQueued

(* The span to the event after the first one, as getnexteventtime computes *)
(* it for a method that wants to know how long it may run; MaxTime + 1     *)
(* stands for OV_VL_MAXINT.                                                *)
Bug_NextEventTimeOfFirst ==
  IF ~activitylock /\ Len(queue) > 1 THEN Span(now, queue[1].time)
                                     ELSE MaxTime + 1
NextEventTime ==
  IF ~activitylock /\ Len(queue) > 1 THEN Span(now, queue[2].time)
                                     ELSE MaxTime + 1

(* getnexteventtime takes the first event for the one being executed, but  *)
(* schedulenextevent has put that behind all events that are due.  Still   *)
(* it is right as long as the method has not moved its own event and the   *)
(* clock was not set back: another event is due within s iff s is at least *)
(* the span returned.                                                      *)
NextEventTimeExact ==
  ( /\ phase = "exec"
    /\ ~activitylock
    /\ now >= firedAt
    /\ Queued(queue, running)
    /\ EventTime(queue, running) = firedAt )
  => \A s \in 0..MaxTime :
       (\E i \in 1..Len(queue) : queue[i].obj # running /\ queue[i].time <= now + s)
         <=> s >= NextEventTime

(* The server does not sleep past an event: when it falls asleep, it will  *)
(* wake no later than the first event is due, unless that is due already.  *)
NoOversleep ==
  [][( /\ phase # "sleep" /\ phase' = "sleep"
       /\ queue' # <<>>
       /\ ~activitylock' )
     => \/ now' + delay' <= Head(queue').time
        \/ Head(queue').time <= now']_vars

(* A newcomer takes its place behind the events of the same time, so that  *)
(* objects with the same period take turns.                                *)
NewcomerGoesLast ==
  [][\A o, p \in Objects :
       ( /\ o # p
         /\ Queued(queue, p) /\ Queued(queue', p)
         /\ EventTime(queue', p) = EventTime(queue, p)
         /\ Queued(queue', o)
         /\ Queued(queue, o) => EventTime(queue', o) # EventTime(queue, o)
         /\ EventTime(queue', o) = EventTime(queue', p) )
       => FirstIndex(queue', p) < FirstIndex(queue', o)]_vars

AskForPast ==
  \E o \in Objects, t \in Time : t < now /\ SetAbsEventTime(o, t)

(* An event that is due is dispatched, unless a client moves or removes it *)
(* or the activities are locked: whatever the clock does, as long as       *)
(* clients do not ask again and again for times that have passed.          *)
DueEventServed ==
  \/ []<><<AskForPast>>_vars
  \/ \A o \in Objects :
    (Queued(queue, o) /\ EventTime(queue, o) < now)
      ~> \/ running = o
         \/ ~Queued(queue, o)
         \/ EventTime(queue, o) >= now
         \/ activitylock
----------------------------------------------------------------------------
(* The due times, as a client sees them, without the list.                 *)
DueTime ==
  [o \in Objects |-> IF Queued(queue, o) THEN EventTime(queue, o) ELSE MaxTime + 1]

Timers == INSTANCE TimerService WITH due <- DueTime

(* The list implements the timers: every registered object keeps the due   *)
(* time last given to it, whatever happens to the others, and a call of    *)
(* schedulenextevent calls one of the objects that are due first.          *)
ImplementsTimers == Timers!Spec
=============================================================================
