-------------------------- MODULE MCFunctionBlocks --------------------------
(***************************************************************************)
(* FunctionBlocks for TLC: a project with two blocks and a task, and one   *)
(* with a chart.                                                           *)
(***************************************************************************)
EXTENDS FunctionBlocks

CONSTANTS U, I, A, B, C, p, q, c1, c2

MCInTask == C :> I
MCInPorts == C :> <<p>>
MCOutPorts == C :> <<q>>

Nobody == [o \in Objects |-> <<>>]

On(cycle) == [mode |-> "ON", cyc |-> cycle]
Get(from, to) == [on |-> TRUE, sport |-> from, tport |-> to]
Send(from, to) == [on |-> TRUE, trig |-> TRUE, sport |-> from, tport |-> to]

(* A sends to B, which is executed every third second; A may fetch B's   *)
(* output.                                                                 *)
Loop ==
  [ops |-> 0, alive |-> {U, A, B},
   kids |-> [o \in Runnable |-> IF o = U THEN <<A, B>> ELSE <<>>],
   outs |-> A :> <<c1>> @@ B :> <<c2>> @@ Nobody,
   ins  |-> B :> <<c1>> @@ A :> <<c2>> @@ Nobody,
   task |-> U :> On(1) @@ A :> On(1) @@ B :> On(3) @@ [o \in Runnable |-> NewTask],
   conn |-> c1 :> Send("out", "in") @@ c2 :> [Get("out", "in") EXCEPT !.on = FALSE]]

(* A chart whose input port feeds the block in it, and that block its      *)
(* output port.                                                            *)
Chart ==
  [ops |-> 1, alive |-> {U, C, I, A, p, q},
   kids |-> [o \in Runnable |-> IF o = U THEN <<C>> ELSE IF o = C THEN <<I>> ELSE IF o = I THEN <<A>> ELSE <<>>],
   outs |-> p :> <<c1>> @@ A :> <<c2>> @@ Nobody,
   ins  |-> A :> <<c1>> @@ q :> <<c2>> @@ Nobody,
   task |-> U :> On(1) @@ C :> On(3) @@ A :> On(0) @@ [o \in Runnable |-> NewTask],
   conn |-> c1 :> Get("value", "in") @@ c2 :> Get("out", "value")]

(* The same, after the task in the chart was linked below the UrTask.      *)
Astray == [Chart EXCEPT !.kids = [@ EXCEPT ![U] = <<C, I>>, ![C] = <<>>]]

MCLayouts == {Loop, Chart, Astray}
MCTimes == {-1, 1}
MCModes == [o \in Runnable |-> IF o = A THEN {"OFF", "ON", "UNLINK", "ONCE", "CATCHUP"} ELSE {"OFF", "ON"}]
=============================================================================
