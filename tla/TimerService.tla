---------------------------- MODULE TimerService ----------------------------
(***************************************************************************)
(* What the scheduler promises: every registered object has one due time,  *)
(* and of the objects whose due time has passed one with the earliest is   *)
(* called.  It says nothing of lists.                                      *)
(***************************************************************************)
EXTENDS Integers

CONSTANTS Objects, NoObj, MaxTime

VARIABLES
  due,          (* the due time of each object, Never if not registered    *)
  now,          (* the clock                                               *)
  running       (* the object being called                                 *)

vars == <<due, now, running>>

Time  == 0..MaxTime
Never == MaxTime + 1

Init ==
  /\ due = [o \in Objects |-> Never]
  /\ now = 0
  /\ running = NoObj

(* Registered objects are due at once.                                     *)
Start(o) ==
  /\ due[o] = Never
  /\ due' = [due EXCEPT ![o] = now]
  /\ UNCHANGED <<now, running>>

Cancel(o) ==
  /\ due' = [due EXCEPT ![o] = Never]
  /\ UNCHANGED <<now, running>>

Postpone(o, t) ==
  /\ due[o] # Never
  /\ due' = [due EXCEPT ![o] = t]
  /\ UNCHANGED <<now, running>>

(* Calls do not nest; the object called is due again from now on.          *)
Fire(o) ==
  /\ running = NoObj
  /\ due[o] < now
  /\ \A p \in Objects : due[o] <= due[p]
  /\ due' = [due EXCEPT ![o] = now]
  /\ running' = o
  /\ UNCHANGED now

Finish ==
  /\ running' = NoObj
  /\ UNCHANGED <<due, now>>

Clock == now' \in Time /\ UNCHANGED <<due, running>>

Next ==
  \/ \E o \in Objects : Start(o)
  \/ \E o \in Objects : Cancel(o)
  \/ \E o \in Objects, t \in Time : Postpone(o, t)
  \/ \E o \in Objects : Fire(o)
  \/ Finish
  \/ Clock

Spec == Init /\ [][Next]_vars
=============================================================================
