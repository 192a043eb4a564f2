----------------------------- MODULE StateChart -----------------------------
(***************************************************************************)
(* Sequential state charts (syslibs/ssc): a chart and the sub-charts that  *)
(* the actions of its steps run, as cycles of the function block system    *)
(* execute them.  A cycle runs to its end before the server looks at the   *)
(* next request, so it is one action; between two cycles clients command   *)
(* the chart and the process changes the results of the transitions.       *)
(***************************************************************************)
EXTENDS Naturals, SequencesExt

CONSTANTS
  Charts, MainChart,   (* the main chart is in a task list; the others     *)
                       (* lie under its part .actions                      *)
  Steps, ChartOf,      (* the chart that each step is in                   *)
  InitStep, EndStep,   (* chart -> the steps made by its constructor       *)
  NoStep,
  Transitions, Outgoing,  (* step -> its transitions, in order             *)
  Target,              (* transition -> the step it leads to, or NoStep    *)
  NoChart,
  Executes,            (* step -> qualifier -> the sub-chart that an       *)
                       (* execute action block runs, or NoChart            *)
  InitSteps, EndSteps  (* the steps that clients name in initStepName and  *)
                       (* endStepName                                      *)

SubCharts == Charts \ {MainChart}

Qualifiers == {"entry", "do", "exit"}
Commands == {"STOP", "START", "BREAK", "RESET"}
WorkPhases == {"ENTRYDO", "EXITTRANS"}

(* ssc_nextTransitions_link refuses transitions from a step to itself.     *)
ASSUME ChartAssumption ==
  /\ MainChart \in Charts /\ NoStep \notin Steps /\ NoChart \notin Charts
  /\ ChartOf \in [Steps -> Charts] /\ Outgoing \in [Steps -> Seq(Transitions)]
  /\ \A s \in Steps : \A i \in DOMAIN Outgoing[s] :
       \/ Target[Outgoing[s][i]] = NoStep
       \/ Target[Outgoing[s][i]] \in {x \in Steps \ {s} : ChartOf[x] = ChartOf[s]}
  /\ Executes \in [Steps -> [Qualifiers -> SubCharts \cup {NoChart}]]
  /\ \A s \in Steps : ChartOf[s] # MainChart => \A q \in Qualifiers : Executes[s][q] = NoChart
  /\ InitSteps \subseteq Steps /\ EndSteps \subseteq Steps

VARIABLES
  chart,   (* EN, workingState, woStPhase, woStQualifier, actimode, error  *)
           (* and the steps linked to taskActiveStep, of each chart        *)
  step,    (* internalRole, X, phase, qualifier, actimode of each step and *)
           (* the actimodes of its parts entry and do                      *)
  results, (* the variable result of each transition                       *)
  trace,   (* what the last cycle did, in order; <<>> after other steps    *)
  begun    (* the steps whose entry actions were followed neither by their *)
           (* exit actions nor by a reset                                  *)

chartVars == <<chart, step, results, trace, begun>>

StepsOf(c) == {s \in Steps : ChartOf[s] = c}

----------------------------------------------------------------------------
(* The methods of charts and steps work on the objects they reach: a net   *)
(* n is the state of all of them in the middle of a cycle.                 *)

Net == [chart |-> chart, step |-> step, result |-> results, trace |-> trace, begun |-> begun]

Chart ==
  [en : Commands, ws : {"INIT", "START", "BREAK", "STOP", "TERMINATE"}, phase : WorkPhases,
   qual : {"ENTRY", "DO"}, error : BOOLEAN, mode : {"OFF", "ON", "ONCE"}, active : Seq(Steps)]

Step ==
  [role : {"START", "NORMAL", "END"}, X : BOOLEAN, phase : WorkPhases, qual : {"ENTRY", "DO"},
   mode : {"OFF", "ON"}, entry : {"OFF", "ON", "ONCE"}, do : {"OFF", "ON"}]

(* An act has the steps that were begun when it happened.                  *)
Act == [what : Qualifiers \cup {"cycle"}, who : Steps \cup {NoStep}, before : SUBSET Steps]

Nets ==
  [chart : [Charts -> Chart], step : [Steps -> Step], result : [Transitions -> BOOLEAN],
   trace : Seq(Act), begun : SUBSET Steps]

(* The actions q of step s are performed.                                  *)
Did(n, q, s) ==
  [n EXCEPT !.trace = Append(@, [what |-> q, who |-> s, before |-> n.begun]),
            !.begun = CASE q = "entry" -> @ \cup {s} [] q = "exit" -> @ \ {s} [] q = "do" -> @]

Unlinked(n, c, s) == [n EXCEPT !.chart[c].active = RemoveFirst(@, s)]

(* ssc_step_resetStep.                                                     *)
ResetStep(r) ==
  [r EXCEPT !.mode = "OFF", !.X = FALSE, !.phase = "ENTRYDO", !.qual = "ENTRY",
            !.entry = "ON", !.do = "ON"]

StartSteps(n, c) == {s \in StepsOf(c) : n.step[s].role = "START"}

(* ssc_SequentialStateChart_resetSsc: the steps of the chart are reset and *)
(* its start step is linked; then its sub-charts are switched on, told to  *)
(* stop and reset likewise, while their working states stay as they are.   *)
(* It fails without a start step.                                          *)
Reset(n, c) == IF c = MainChart /\ StartSteps(n, c) # {} THEN Charts ELSE {c}

Started(n, c) ==
  IF StartSteps(n, c) = {} THEN <<>> ELSE <<CHOOSE s \in StartSteps(n, c) : TRUE>>

ResetChart(n, d, c) ==
  [n.chart[d] EXCEPT !.active = Started(n, d),
                     !.error = @ \/ StartSteps(n, d) = {},
                     !.mode = IF d = c THEN @ ELSE "ON",
                     !.en = IF d = c THEN @ ELSE "STOP"]

ResetSsc(n, c) ==
  [n EXCEPT
     !.begun = {s \in @ : ChartOf[s] \notin Reset(n, c)},
     !.step = [s \in Steps |-> IF ChartOf[s] \in Reset(n, c) THEN ResetStep(n.step[s]) ELSE n.step[s]],
     !.chart = [d \in Charts |-> IF d \in Reset(n, c) THEN ResetChart(n, d, c) ELSE n.chart[d]]]

ResetFails(n, c) == \E d \in Reset(n, c) : StartSteps(n, d) = {}

----------------------------------------------------------------------------
(* Charts execute steps, and steps execute sub-charts by the same methods. *)
(* The methods take what this does as a parameter: run[d] is the function  *)
(* that executes sub-chart d in a net.                                     *)

(* The actions of step s with qualifier q.  An execute block starts its    *)
(* target, lets it run one cycle and puts its mode back                    *)
(* (ssc_execute_typemethod).                                               *)
ExecuteBlock(run, n, d) ==
  [run[d][[n EXCEPT !.chart[d].mode = "ONCE", !.chart[d].en = "START"]] EXCEPT
     !.chart[d].mode = n.chart[d].mode]

Actions(run, n, s, q) ==
  IF Executes[s][q] = NoChart THEN Did(n, q, s)
  ELSE ExecuteBlock(run, Did(n, q, s), Executes[s][q])

(* A part of a step as a task: it is skipped when it is off, and goes off  *)
(* after a single execution.                                               *)
EntryTask(run, n, s) ==
  IF n.step[s].entry = "OFF" THEN n
  ELSE [Actions(run, n, s, "entry") EXCEPT !.step[s].entry = IF @ = "ON" THEN "ON" ELSE "OFF"]

DoTask(run, n, s) == IF n.step[s].do = "OFF" THEN n ELSE Actions(run, n, s, "do")

(* fb_task_execChildObjects of a step, after its typemethod.               *)
Parts(run, n, s) == DoTask(run, EntryTask(run, n, s), s)

(* Phase 1 of ssc_step_typemethod.                                         *)
EntryDo(n, s) ==
  LET entering == n.step[s].qual = "ENTRY"
  IN  [n EXCEPT
         !.step[s] = [@ EXCEPT !.X = TRUE, !.phase = "EXITTRANS", !.qual = "DO",
                               !.entry = IF entering THEN "ONCE" ELSE n.step[s].entry,
                               !.do = IF entering THEN "ON" ELSE n.step[s].do],
         !.chart[ChartOf[s]].ws = IF n.step[s].role = "END" THEN "TERMINATE" ELSE @]

(* The transitions of s that may fire, by their places.                    *)
Firing(r, s) == {i \in DOMAIN Outgoing[s] : r[Outgoing[s][i]]}

(* BUG: a later transition overrides the first one.                        *)
Bug_Fired(r, s) == CHOOSE i \in Firing(r, s) : \A j \in Firing(r, s) : i >= j

(* The first transition whose result is true.                              *)
Fired(r, s) == CHOOSE i \in Firing(r, s) : \A j \in Firing(r, s) : i <= j

NextStep(r, s) == IF Firing(r, s) = {} THEN NoStep ELSE Target[Outgoing[s][Fired(r, s)]]

(* The next step is linked behind the active one and made ready.           *)
LinkNext(n, s, next) ==
  LET c == ChartOf[s]
  IN  IF next = NoStep THEN [n EXCEPT !.chart[c].ws = "STOP"]
      ELSE [n EXCEPT
              !.chart[c].active = Append(RemoveFirst(@, next), next),
              !.step[next] = [@ EXCEPT !.mode = "ON", !.phase = "ENTRYDO", !.qual = "ENTRY"]]

(* Sub-charts that the do actions run are told to stop, and run once more. *)
StopSubCharts(run, n, s) ==
  LET d == Executes[s]["do"]
  IN  IF d = NoChart THEN n ELSE run[d][[n EXCEPT !.chart[d].en = "STOP"]]

(* BUG: the step stays in the task list.                                   *)
Bug_LeaveStep(n, s) == [n EXCEPT !.step[s] = [@ EXCEPT !.do = "OFF", !.X = FALSE, !.qual = "ENTRY"]]

LeaveStep(n, s) ==
  [Unlinked(n, ChartOf[s], s) EXCEPT !.step[s] = [@ EXCEPT !.do = "OFF", !.X = FALSE, !.qual = "ENTRY"]]

(* The next step runs its entry and do actions in the same cycle.          *)
RunNext(run, n, next) ==
  IF next = NoStep THEN n ELSE Parts(run, EntryDo(n, next), next)

(* Phase 2: a step that is left, for a transition or because its chart     *)
(* stops, performs its exit actions.                                       *)
Leaves(run, n, s, next) ==
  [RunNext(run, LeaveStep(Actions(run, StopSubCharts(run, n, s), s, "exit"), s), next)
     EXCEPT !.step[s].phase = "ENTRYDO"]

(* ssc_step_typemethod.  A step that stays performs phase 1 again.         *)
StepMethod(run, n, s) ==
  LET fires == Firing(n.result, s) # {}
      next == NextStep(n.result, s)
  IN  IF n.step[s].phase = "ENTRYDO" \/ (~fires /\ n.chart[ChartOf[s]].ws # "STOP")
      THEN EntryDo(n, s)
      ELSE Leaves(run, IF fires THEN LinkNext(n, s, next) ELSE n, s, next)

(* fb_functionblock_execute of a step.                                     *)
ExecStep(run, n, s) ==
  IF n.step[s].mode = "OFF" THEN n ELSE Parts(run, StepMethod(run, n, s), s)

----------------------------------------------------------------------------
(* The step that ssc_SequentialStateChart_typemethod finds active.         *)
ActiveStep(active) == IF active = <<>> THEN NoStep ELSE Head(active)

(* BUG: a chart that runs is not stopped.                                  *)
Bug_NextWorkingState(ws, en) ==
  CASE ws = "INIT" -> IF en = "START" THEN "START" ELSE "INIT"
    [] ws # "INIT" /\ en = "RESET" -> "TERMINATE"
    [] ws = "START" /\ en = "STOP" -> "START"
    [] OTHER -> en

(* The transitions between working states.  INIT knows only START; STOP    *)
(* knows no BREAK.                                                         *)
NextWorkingState(ws, en) ==
  CASE ws = "INIT" -> IF en = "START" THEN "START" ELSE "INIT"
    [] ws # "INIT" /\ en = "RESET" -> "TERMINATE"
    [] ws = "STOP" /\ en = "BREAK" -> "STOP"
    [] OTHER -> en

Transit(n, c) ==
  LET r == n.chart[c]
      ws == NextWorkingState(r.ws, r.en)
  IN  [n EXCEPT !.chart[c] = [r EXCEPT !.ws = ws, !.phase = "ENTRYDO",
                                       !.qual = IF ws = r.ws THEN r.qual ELSE "ENTRY"]]

(* A working state is done: the chart looks at EN in the next cycle.       *)
Done(c) == [n \in Nets |-> [n EXCEPT !.chart[c].phase = "EXITTRANS"]]

(* A reset that fails leaves the method, so that the next cycle tries it   *)
(* again.                                                                  *)
DoReset(n, c) == IF ResetFails(n, c) THEN ResetSsc(n, c) ELSE Done(c)[ResetSsc(n, c)]

DoStart(n, c, a) == Done(c)[IF a = NoStep THEN n ELSE [n EXCEPT !.step[a].mode = "ON"]]

(* BUG: the step forgets that it has been entered.                         *)
Bug_DoBreak(n, c, a) ==
  Done(c)[IF a = NoStep THEN n
       ELSE [n EXCEPT !.step[a] = [@ EXCEPT !.mode = "OFF", !.phase = "ENTRYDO", !.X = FALSE, !.qual = "ENTRY"]]]

DoBreak(n, c, a) ==
  Done(c)[IF a = NoStep THEN n
       ELSE [n EXCEPT !.step[a] = [@ EXCEPT !.mode = "OFF", !.phase = "ENTRYDO", !.X = FALSE]]]

(* On entry to STOP the method of the active step performs its exit        *)
(* actions; BREAK has put that step back to phase 1, where it does not.    *)
Stopped(run, n, c, a) ==
  IF n.chart[c].qual # "ENTRY" THEN n
  ELSE IF a = NoStep THEN [n EXCEPT !.chart[c].error = TRUE]
  ELSE StepMethod(run, n, a)

DoStop(run, n, c, a) == DoReset([Stopped(run, n, c, a) EXCEPT !.chart[c].qual = "DO"], c)

DoTerminate(n, c) ==
  IF n.chart[c].en # "RESET" THEN n
  ELSE IF ResetFails(n, c) THEN ResetSsc(n, c)
  ELSE [Done(c)[ResetSsc(n, c)] EXCEPT !.chart[c].ws = "INIT", !.chart[c].en = "STOP"]

DoState(run, n, c, a) ==
  LET m == [n EXCEPT !.chart[c].qual = "DO"]
  IN  CASE n.chart[c].ws = "INIT"      -> DoReset(m, c)
        [] n.chart[c].ws = "START"     -> DoStart(m, c, a)
        [] n.chart[c].ws = "BREAK"     -> DoBreak(m, c, a)
        [] n.chart[c].ws = "STOP"      -> DoStop(run, n, c, a)
        [] n.chart[c].ws = "TERMINATE" -> DoTerminate(n, c)

(* ssc_SequentialStateChart_typemethod: the active step is switched off;   *)
(* then, if the last cycle completed its working state, EN is looked at;   *)
(* then the working state is performed, with the step that was active.     *)
Fresh(n, c, a) ==
  LET m == [n EXCEPT !.chart[c].error = FALSE]
  IN  IF a = NoStep THEN m ELSE [m EXCEPT !.step[a].mode = "OFF"]

Looks(n, c) == n.chart[c].phase = "EXITTRANS" /\ n.chart[c].ws # "TERMINATE"

ChartMethod(run, n, c) ==
  LET a == ActiveStep(n.chart[c].active)
      m == Fresh(n, c, a)
  IN  DoState(run, IF Looks(n, c) THEN Transit(m, c) ELSE m, c, a)

(* The task linked to taskActiveStep, of which there is one at most.  What *)
(* comes after it is read before it is executed, so that a step linked     *)
(* meanwhile waits for the next cycle.                                     *)
ExecActive(run, c) ==
  [n \in Nets |->
     IF n.chart[c].active = <<>> THEN n ELSE ExecStep(run, n, ActiveStep(n.chart[c].active))]

(* fb_functionchart_execute, with the method and the children; a chart in  *)
(* mode ONCE goes off.                                                     *)
ExecChart(run, n, c) ==
  IF n.chart[c].mode = "OFF" THEN n
  ELSE [ExecActive(run, c)[ChartMethod(run, n, c)] EXCEPT
          !.chart[c].mode = IF @ = "ON" THEN "ON" ELSE "OFF"]

(* The steps of a sub-chart execute no charts.                             *)
Nothing == [d \in SubCharts |-> [n \in Nets |-> n]]

SubChartsRun == [d \in SubCharts |-> [n \in Nets |-> ExecChart(Nothing, n, d)]]

----------------------------------------------------------------------------
NewChart(c) ==
  [en |-> "STOP", ws |-> "INIT", phase |-> "ENTRYDO", qual |-> "ENTRY", error |-> FALSE,
   mode |-> IF c = MainChart THEN "ON" ELSE "OFF", active |-> <<>>]

(* The constructors of a step and of its chart.                            *)
NewStep(s) ==
  LET c == ChartOf[s]
      role == CASE s = InitStep[c] -> "START" [] s = EndStep[c] -> "END" [] OTHER -> "NORMAL"
  IN  [role |-> role, X |-> FALSE, phase |-> "ENTRYDO", qual |-> "ENTRY",
       mode |-> IF role = "START" THEN "ON" ELSE "OFF", entry |-> "ON", do |-> "ON"]

ChartInit ==
  /\ chart = [c \in Charts |-> NewChart(c)]
  /\ step = [s \in Steps |-> NewStep(s)]
  /\ results = [t \in Transitions |-> FALSE]
  /\ trace = <<>>
  /\ begun = {}

(* One execution of the main chart by the task above it.                   *)
Begins == [Net EXCEPT !.trace = <<[what |-> "cycle", who |-> NoStep, before |-> begun]>>]

NetBecomes(n) ==
  chart' = n.chart /\ step' = n.step /\ results' = n.result /\ trace' = n.trace /\ begun' = n.begun

Cycle == NetBecomes(ExecChart(SubChartsRun, Begins, MainChart))

(* Nothing runs between two cycles.                                        *)
Quiet == trace' = <<>> /\ UNCHANGED begun

(* A client writes EN of the main chart.  (That of a sub-chart is written  *)
(* again by whatever executes it.)                                         *)
Command(e) ==
  /\ e # chart[MainChart].en
  /\ chart' = [chart EXCEPT ![MainChart].en = e]
  /\ Quiet /\ UNCHANGED <<step, results>>

(* The condition of a transition changes.                                  *)
SetResult(t) ==
  /\ results' = [results EXCEPT ![t] = ~@]
  /\ Quiet /\ UNCHANGED <<chart, step>>

(* ssc_SequentialStateChart_initStepName_set: only in INIT; the other      *)
(* steps lose the role, and all but the new one go off.                    *)
SetInitStep(s) ==
  LET c == ChartOf[s]
      role(x) == IF x = s THEN "START" ELSE IF step[x].role = "END" THEN "END" ELSE "NORMAL"
      named(x) == [step[x] EXCEPT !.role = role(x), !.mode = IF x = s THEN "ON" ELSE "OFF"]
  IN  /\ chart[c].ws = "INIT" /\ step[s].role # "START"
      /\ step' = [x \in Steps |-> IF ChartOf[x] = c THEN named(x) ELSE step[x]]
      /\ Quiet /\ UNCHANGED <<chart, results>>

(* ssc_SequentialStateChart_endStepName_set: at any time, and without      *)
(* taking the role from the end steps named before.                        *)
SetEndStep(s) ==
  /\ step[s].role # "END"
  /\ step' = [step EXCEPT ![s].role = "END"]
  /\ Quiet /\ UNCHANGED <<chart, results>>

ChartNext ==
  \/ Cycle
  \/ \E e \in Commands : Command(e)
  \/ \E t \in Transitions : SetResult(t)
  \/ \E s \in InitSteps : SetInitStep(s)
  \/ \E s \in EndSteps : SetEndStep(s)

ChartSpec == ChartInit /\ [][ChartNext]_chartVars

----------------------------------------------------------------------------
(* One chart has at most one step linked to its task list, and only that   *)
(* step can have X set; X of a running chart is set exactly for it, and    *)
(* the entry actions of a step with X have been performed.                 *)
OneActiveStep ==
  \A c \in Charts :
    LET linked == ToSet(chart[c].active)
        flagged == {s \in StepsOf(c) : step[s].X}
    IN  /\ Len(chart[c].active) <= 1 /\ linked \subseteq StepsOf(c)
        /\ flagged \subseteq linked \cap begun
        /\ begun \cap StepsOf(c) \subseteq linked

(* The exit actions of a step follow its entry actions, and its entry      *)
(* actions are not repeated before its exit or a reset, whatever is        *)
(* commanded and whatever happens twice in one cycle.                      *)
Paired(e) ==
  /\ e.what = "entry" => e.who \notin e.before
  /\ e.what \in {"do", "exit"} => e.who \in e.before

EntryExitPaired == [][\A i \in DOMAIN trace' : Paired(trace'[i])]_chartVars

MainSteps == StepsOf(MainChart)

StartStep ==
  LET starts == StartSteps(Net, MainChart)
  IN  IF starts = {} THEN NoStep ELSE CHOOSE s \in starts : TRUE

(* Steps run charts as their do actions only.  A step that is left stops   *)
(* those charts, and not the ones that its entry actions run.              *)
OnlyDo == \A s \in Steps : Executes[s]["entry"] = NoChart /\ Executes[s]["exit"] = NoChart

(* The start steps that sub-charts have, from their constructors or by     *)
(* name, are not named as end steps: so each keeps one to be reset to.     *)
SubChartsStart ==
  \A d \in SubCharts :
    /\ InitStep[d] \in StepsOf(d) \ {EndStep[d]}
    /\ ({InitStep[d]} \cup (InitSteps \cap StepsOf(d))) \cap EndSteps = {}

(* A step of a sub-chart is active only while a step that runs that chart  *)
(* is, unless the sub-chart has come to its end (then no one resets it     *)
(* when its owner is left), or the main chart has no start step to be      *)
(* reset to.                                                               *)
SubStepNeedsOwner ==
  \/ StartStep = NoStep
  \/ chart[MainChart].error
  \/ \A d \in SubCharts, s \in begun :
       ChartOf[s] = d /\ chart[d].ws # "TERMINATE" =>
         \E o \in begun : \E q \in {"entry", "do", "exit"} : Executes[o][q] = d

(* So the steps that a cycle finds begun are one of each chart, down from  *)
(* the step of the main chart that is active.                              *)
StepsSound == OneActiveStep /\ SubStepNeedsOwner

(* The chart as its user sees it.                                          *)
StateSeen ==
  LET r == chart[MainChart]
  IN  CASE r.ws = "INIT" /\ r.qual = "ENTRY" /\ r.phase = "ENTRYDO" -> "New"
        [] r.ws = "START"     -> "Running"
        [] r.ws = "BREAK"     -> "Held"
        [] r.ws = "TERMINATE" -> "Done"
        [] OTHER              -> "Idle"

(* Where the first transition leads whose condition holds.                 *)
First(s, r) ==
  {i \in DOMAIN Outgoing[s] : r[Outgoing[s][i]] /\ \A j \in 1..i - 1 : ~r[Outgoing[s][j]]}

Targets(s, r) == IF s = NoStep THEN {} ELSE {Target[Outgoing[s][i]] : i \in First(s, r)}

Machine == INSTANCE ChartMachine WITH
  Step <- MainSteps,
  cmd <- chart[MainChart].en,
  state <- StateSeen,
  step <- ActiveStep(chart[MainChart].active),
  start <- StartStep, ran <- trace # <<>>,
  ends <- {s \in MainSteps : step[s].role = "END"},
  conditions <- results

(* The main chart implements the machine.                                  *)
ImplementsMachine == Machine!Spec

=============================================================================
