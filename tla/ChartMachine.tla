---------------------------- MODULE ChartMachine ----------------------------
(***************************************************************************)
(* What a sequential state chart promises its user: a machine that is at   *)
(* one step at a time, moves along transitions whose conditions hold, and  *)
(* obeys the last command within one cycle.  StateChart implements it.     *)
(***************************************************************************)
CONSTANTS
  Step, NoStep,
  Targets(_, _)  (* the steps to which a machine at a step moves under     *)
                 (* some conditions: {} if it stays, {NoStep} if the       *)
                 (* transition leads nowhere                               *)

VARIABLES
  cmd,        (* "STOP", "START", "BREAK" or "RESET"                       *)
  state,      (* "New", "Idle", "Running", "Held" or "Done"                *)
  step,       (* where the machine is                                      *)
  start,      (* the initial step                                          *)
  ends,       (* the end steps                                             *)
  conditions, (* the results of the transitions                            *)
  ran         (* the last that happened was a cycle                        *)

vars == <<cmd, state, step, start, ends, conditions, ran>>

Init ==
  /\ cmd = "STOP" /\ state = "New" /\ step = NoStep
  /\ start \in Step \cup {NoStep} /\ ends \subseteq Step
  /\ ran = FALSE

(* The user and the process, between two cycles.                           *)
Environment == ran' = FALSE /\ UNCHANGED <<state, step>>

At(newState, newStep) == state' = newState /\ step' = newStep

(* A machine that arrives at an end step is done.                          *)
Arrive(s) == At(IF s \in ends THEN "Done" ELSE "Running", s)

Reset ==
  /\ cmd = "RESET" /\ state # "New"
  /\ At("Idle", start)
  /\ cmd' \in {cmd, "STOP"}

Begin == cmd = "START" /\ state = "Idle" /\ Arrive(step)

Stay == cmd = "START" /\ state = "Running" /\ Targets(step, conditions) = {} /\ Arrive(step)

(* A transition to nowhere leaves the machine without a step.              *)
Move ==
  /\ cmd = "START" /\ state = "Running"
  /\ \E s \in Targets(step, conditions) :
       IF s = NoStep THEN At("Idle", NoStep) ELSE Arrive(s)

Resume == cmd = "START" /\ state = "Held" /\ Arrive(step)

Hold == cmd = "BREAK" /\ state \in {"Running", "Held"} /\ At("Held", step)

(* A stop that coincides with the arrival at an end step leaves the        *)
(* machine done, with its steps reset all the same.                        *)
Stop ==
  /\ cmd = "STOP" /\ state \in {"Running", "Held"}
  /\ \/ At("Idle", start)
     \/ /\ (Targets(step, conditions) \cup {step}) \cap ends # {}
        /\ At("Done", start)

(* Without a new command an idle machine takes up a new initial step, and  *)
(* finds back to it.                                                       *)
Prepare ==
  \/ state = "New" /\ At("Idle", start)
  \/ /\ state = "Idle" /\ (cmd \in {"STOP", "BREAK"} \/ step = NoStep)
     /\ At("Idle", start)

Rest == cmd # "RESET" /\ state = "Done" /\ UNCHANGED <<state, step>>

(* Without an initial step a machine loses its step when it is reset, and  *)
(* can do nothing any more.                                                *)
Lose ==
  /\ start = NoStep
  /\ state \in {"Running", "Held"} => cmd \in {"STOP", "RESET"}
  /\ state' \in {"Idle", "Done"} /\ step' = NoStep

Cycle ==
  /\ ran' = TRUE
  /\ UNCHANGED <<start, ends, conditions>>
  /\ \/ Reset
     \/ /\ UNCHANGED cmd
        /\ Begin \/ Stay \/ Move \/ Resume \/ Hold \/ Stop \/ Prepare \/ Rest \/ Lose

Spec == Init /\ [][Environment \/ Cycle]_vars
=============================================================================
