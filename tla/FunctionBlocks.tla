--------------------------- MODULE FunctionBlocks ---------------------------
(***************************************************************************)
(* The function block system (syslibs/fb): the tree of tasks, function     *)
(* blocks and function charts that the UrTask executes, and the            *)
(* connections that carry values between them.  The scheduler calls        *)
(* fb_task_run, which executes the whole tree before the server looks at   *)
(* the next request, so that a run is one action; clients change modes,    *)
(* times, the tree, the connections and values between two runs.           *)
(***************************************************************************)
EXTENDS Integers, SequencesExt

CONSTANTS
  Tasks, Blocks, Charts, Ports,  (* the objects (fb_object) by class       *)
  UrTask,
  InTask,               (* chart -> its part intask                        *)
  InPorts, OutPorts,    (* chart -> its ports with flag "i", with flag "o" *)
  Connections,
  NoObject, NoElement,
  Bad,                  (* an input with which the method of a block fails *)
  Values,
  Layouts,              (* the projects that a client has loaded           *)
  CycleTimes,
  ExactTimes,           (* the cycle times of whole 64ths of a second: in  *)
                        (* seconds, a double holds these without an error  *)
  Second,               (* how many units of time make a second; the unit  *)
                        (* of the code is the microsecond                  *)
  Modes,                (* task -> the modes that clients give it          *)
  Movable,              (* the tasks and blocks that clients link, unlink  *)
                        (* and delete                                      *)
  Times,                (* the times that clients set                      *)
  Wrap,                 (* bounds how late tasks are: see Later            *)
  RunLength,            (* bounds how often a run enters or leaves a task  *)
  MaxOps                (* how often clients act                           *)

Runnable == Tasks \cup Blocks \cup Charts
Objects == Runnable \cup Ports

ActiModes == {"OFF", "ON", "UNLINK", "ONCE", "CATCHUP"}
Names == {"in", "out", "value"}

ASSUME ObjectsAssumption ==
  /\ Tasks \cap Blocks = {} /\ Tasks \cap Charts = {} /\ Blocks \cap Charts = {}
  /\ Ports \cap Runnable = {} /\ NoObject \notin Objects /\ IsFiniteSet(Runnable)
  /\ UrTask \in Tasks /\ InTask \in [Charts -> Tasks \ {UrTask}]
  /\ InPorts \in [Charts -> Seq(Ports)] /\ OutPorts \in [Charts -> Seq(Ports)]
  /\ Movable \subseteq Tasks \cup Blocks

ASSUME ValuesAssumption ==
  /\ {0, Bad} \subseteq Values
  /\ Modes \in [Runnable -> SUBSET ActiModes]
  /\ RunLength \in Nat /\ MaxOps \in Nat

ASSUME TimesAssumption ==
  /\ CycleTimes \subseteq Nat /\ Times \subseteq Int /\ Second \in Nat \ {0}
  /\ Wrap \in Nat \ {0} /\ \A c \in CycleTimes \ {0} : Wrap % c = 0

VARIABLES
  alive,   (* the objects that exist                                        *)
  kids,    (* the association tasklist                                     *)
  ins, outs, (* the associations inputconnections and outputconnections    *)
  task,    (* actimode, cyctime, ErrState, eexreq, and proctime, which is  *)
           (* counted from the present: 0 is now, -1 one unit ago          *)
  val,     (* the variables of blocks ("in", "out") and ports ("value")    *)
  conn,    (* on, sourcetrig, sourceport, targetport, and the elements     *)
           (* found for them                                               *)
  event,   (* when the scheduler calls the UrTask                          *)
  now,     (* the time, modulo Wrap                                        *)
  last,    (* what happened last: "run", "tick", "client", "start" of the  *)
           (* server, or the object whose proctime a client has set         *)
  ops      (* how often clients have acted                                 *)

vars == <<alive, kids, ins, outs, task, val, conn, event, now, last, ops>>

----------------------------------------------------------------------------
(* The methods work on the objects they reach: a net n is the state of all *)
(* of them in the middle of a run.                                         *)

Net == [kids |-> kids, ins |-> ins, outs |-> outs, task |-> task, val |-> val, conn |-> conn]

(* The object that has c in its list (the associations are 1:n).           *)
Holder(links, c) ==
  LET h == {o \in Objects : c \in ToSet(links[o])}
  IN  IF h = {} THEN NoObject ELSE CHOOSE o \in h : TRUE

Source(n, c) == Holder(n.outs, c)
Target(n, c) == Holder(n.ins, c)

Parent(n, o) ==
  IF \E p \in Runnable : o \in ToSet(n.kids[p])
  THEN CHOOSE p \in Runnable : o \in ToSet(n.kids[p]) ELSE NoObject

Readable(o) == CASE o \in Blocks -> {"in", "out"} [] o \in Ports -> {"value"} [] OTHER -> {}
Writable(o) == CASE o \in Blocks -> {"in"} [] o \in Ports -> {"value"} [] OTHER -> {}

(* A list without the members of the set x.                                *)
Without(list, x) ==
  LET f[i \in 0..Len(list)] ==
        IF i = 0 THEN <<>> ELSE IF list[i] \in x THEN f[i - 1] ELSE Append(f[i - 1], list[i])
  IN  f[Len(list)]

(* What is executed because a variable of o has changed: the block itself, *)
(* or the chart of a port.                                                 *)
Executor(o) ==
  IF o \in Ports THEN CHOOSE c \in Charts : o \in ToSet(InPorts[c]) \cup ToSet(OutPorts[c])
  ELSE o

Invalid(k) == [k EXCEPT !.source = NoElement, !.target = NoElement]

(* BUG: a value that does not change withdraws a request.                  *)
Bug_SetVar(n, o, e, v) ==
  [n EXCEPT !.val[e[1]][e[2]] = v, !.task[Executor(o)].eex = n.val[e[1]][e[2]] # v]

(* fb_object_setvar and fb_port_setvar: a value that changes requests an   *)
(* execution.                                                              *)
SetVar(n, o, e, v) ==
  IF n.val[e[1]][e[2]] = v THEN n
  ELSE [n EXCEPT !.val[e[1]][e[2]] = v, !.task[Executor(o)].eex = TRUE]

(* fb_connection_checkelements, with both ends linked.                     *)
Consistent(n, c) ==
  /\ n.conn[c].sport \in Readable(Source(n, c))
  /\ n.conn[c].tport \in Writable(Target(n, c))

(* What fb_connection_getelements makes of connection c, and the trigger   *)
(* if it fails.                                                            *)
Elements(n, c) ==
  LET k == n.conn[c]
  IN  IF k.source # NoElement /\ k.target # NoElement THEN k
      ELSE IF Consistent(n, c)
      THEN [k EXCEPT !.source = <<Source(n, c), k.sport>>, !.target = <<Target(n, c), k.tport>>]
      ELSE Invalid([k EXCEPT !.on = FALSE])

Blamed(n, c) == {Source(n, c), Target(n, c)} \cap (Blocks \cup Charts)

(* fb_connection_trigger: nothing happens while the connection is off or   *)
(* an end is missing.  The elements are looked up only once; the value     *)
(* goes from one found to the other.                                       *)
Trigger(n, c) ==
  LET k == Elements(n, c)
      m == [n EXCEPT !.conn[c] = k]
  IN  IF ~n.conn[c].on \/ Source(n, c) = NoObject \/ Target(n, c) = NoObject THEN n
      ELSE IF k.source = NoElement
      THEN [m EXCEPT !.task = [o \in Runnable |-> IF o \in Blamed(n, c) THEN [@[o] EXCEPT !.err = TRUE] ELSE @[o]]]
      ELSE SetVar(m, Target(n, c), k.target, m.val[k.source[1]][k.source[2]])

TriggerAll(n, cs) ==
  LET f[i \in 0..Len(cs)] == IF i = 0 THEN n ELSE Trigger(f[i - 1], cs[i]) IN f[Len(cs)]

(* The input connections that the target fetches, and the output           *)
(* connections on which the source sends.                                  *)
Sending(n) == {c \in Connections : n.conn[c].trig}

Gets(n, o) == TriggerAll(n, Without(n.ins[o], Sending(n)))
Sends(n, o) == TriggerAll(n, Without(n.outs[o], Connections \ Sending(n)))

PassThrough(n, ports) ==
  LET f[i \in 0..Len(ports)] == IF i = 0 THEN n ELSE Sends(Gets(f[i - 1], ports[i]), ports[i])
  IN  f[Len(ports)]

(* fb_object_triggerInpGetConnections and triggerOutSendConnections: the   *)
(* object's own connections, then those of the ports of a chart.           *)
GetInputs(n, o) == PassThrough(Gets(n, o), IF o \in Charts THEN InPorts[o] ELSE <<>>)

(* BUG: the output ports of a chart are forgotten.                         *)
Bug_SendOutputs(n, o) == Sends(n, o)

SendOutputs(n, o) == PassThrough(Sends(n, o), IF o \in Charts THEN OutPorts[o] ELSE <<>>)

----------------------------------------------------------------------------
(* o and the tasks above it.                                               *)
Ancestors(n, o) ==
  LET f[i \in 0..Cardinality(Runnable)] ==
        IF i = 0 THEN {o} ELSE LET s == f[i - 1] IN s \cup {Parent(n, x) : x \in s}
  IN  f[Cardinality(Runnable)] \ {NoObject}

Unlinked(n, o) ==
  [n EXCEPT !.kids = [p \in Runnable |-> Without(@[p], {o})]]

(* fb_tasklist_link: refused if it closed a cycle, or if o has another     *)
(* parent; a child that is linked again goes to the end.                   *)
Linked(n, p, o) ==
  IF o \in Ancestors(n, p) \/ Parent(n, o) \notin {NoObject, p} THEN n
  ELSE [Unlinked(n, o) EXCEPT !.kids[p] = Append(@, o)]

----------------------------------------------------------------------------
(* Cycles until a time that is d from now and comes again every c: the     *)
(* first at or after now, but one at least.                                *)
NextDue(d, c) == IF d + c >= 0 THEN d + c ELSE (d % c)

(* BUG: a task that was off begins a new cycle.                            *)
Bug_SetProcTime(t, less, cut) == IF t.due >= 0 THEN t ELSE [t EXCEPT !.due = 0]

(* fb_set_proctime: to the last point of the old cycle that is not in the  *)
(* future.  It computes with doubles.  Where these do not hold the cycle   *)
(* time, the quotient of a whole number of cycles may be one less (less),  *)
(* and the microseconds of the product, which are cut off, one less (cut). *)
Inexact(t) == t.due < 0 /\ t.cyc \notin ExactTimes \cup {0}

Missed(t, less) ==
  LET n == (-t.due) \div t.cyc
  IN  IF less /\ Inexact(t) /\ (-t.due) % t.cyc = 0 THEN n - 1 ELSE n

SetProcTime(t, less, cut) ==
  IF t.due >= 0 THEN t
  ELSE [t EXCEPT !.due =
          IF t.cyc = 0 THEN 0
          ELSE @ + Missed(t, less) * t.cyc
                 - (IF cut /\ Inexact(t) /\ Missed(t, less) # 0 THEN 1 ELSE 0)]

(* fb_task_setNextProcTime.                                                *)
SetNextProcTime(n, o) ==
  CASE n.task[o].mode = "ON" ->
         IF n.task[o].cyc = 0 THEN n ELSE [n EXCEPT !.task[o].due = NextDue(@, n.task[o].cyc)]
    [] n.task[o].mode = "UNLINK" -> Unlinked(n, o)
    [] n.task[o].mode = "CATCHUP" -> [n EXCEPT !.task[o].due = @ + n.task[o].cyc]
    [] OTHER -> [n EXCEPT !.task[o].mode = "OFF"]

(* fb_functionblock_execTypeMethod withdraws the request first.            *)
Begun(n, o) == [n EXCEPT !.task[o].eex = FALSE]

Failed(n, o) == [n EXCEPT !.task[o] = [@ EXCEPT !.mode = "OFF", !.err = TRUE]]

(* The blocks of the model copy their input to their output.               *)
BlockMethod(n, o) == [n EXCEPT !.val[o]["out"] = n.val[o]["in"]]

(* fb_functionchart_typemethod: intask is made ready, and brought back if  *)
(* it was linked elsewhere.                                                *)
Ready(n, i) == [n EXCEPT !.task[i] = [@ EXCEPT !.mode = "ON", !.cyc = 0, !.due = 0]]

ChartMethod(n, o) ==
  LET i == InTask[o]
      m == Ready(n, i)
  IN  IF Parent(n, i) = o THEN m ELSE Linked(Unlinked(m, i), o, i)

(* The execute methods of the three classes.  What is off or not yet due   *)
(* is skipped, with all below it.  A block that fails goes off before its  *)
(* children are executed and its next time is set.                         *)
Due(n, o) == n.task[o].due <= 0 /\ n.task[o].mode # "OFF"

NextChild(n, o) ==
  LET list == n.kids[Parent(n, o)]
      i == CHOOSE j \in DOMAIN list : list[j] = o
  IN  IF Parent(n, o) = NoObject \/ i = Len(list) THEN NoObject ELSE list[i + 1]

FirstChild(n, o) == IF n.kids[o] = <<>> THEN NoObject ELSE Head(n.kids[o])

BlockBegins(n, o) ==
  CASE ~n.task[o].eex -> n
    [] n.task[o].eex /\ n.val[o]["in"] = Bad -> Failed(Begun(n, o), o)
    [] OTHER -> SendOutputs(BlockMethod(Begun(n, o), o), o)

(* The execute methods up to the execution of the children.  The method of *)
(* a chart runs each time: its class requests that.                        *)
Performs(n, o) ==
  CASE o \in Blocks -> BlockBegins(n, o)
    [] o \in Charts -> ChartMethod(Begun(n, o), o)
    [] OTHER -> n

Begins(n, o) == Performs(GetInputs(n, o), o)

(* And from there on.                                                      *)
Ends(n, o) == SetNextProcTime(IF o \in Blocks THEN n ELSE SendOutputs(n, o), o)

(* A run r in progress is the net, and a stack of the tasks whose children *)
(* are being executed, with the child that comes next.                     *)
Calls(r, n, o) == [net |-> n, stack |-> <<[task |-> o, next |-> FirstChild(n, o)]>> \o r.stack]

(* BUG: a block without a request is left at once.                         *)
Bug_Enters(r, o) ==
  LET n == Begins(r.net, o)
  IN  IF ~Due(r.net, o) THEN r
      ELSE IF n.task[o].mode = "OFF" \/ (o \in Blocks /\ ~GetInputs(r.net, o).task[o].eex) THEN [r EXCEPT !.net = n]
      ELSE Calls(r, n, o)

(* A block that has failed is off, and its method returns.                 *)
Descends(r, n, o) ==
  IF n.task[o].mode = "OFF" THEN [r EXCEPT !.net = n] ELSE Calls(r, n, o)

Enters(r, o) == IF Due(r.net, o) THEN Descends(r, Begins(r.net, o), o) ELSE r

(* fb_task_execChildObjects: the next child is read before one is          *)
(* executed.                                                               *)
Continues(r) ==
  LET top == Head(r.stack)
      next == NextChild(r.net, top.next)
  IN  IF r.stack = <<>> THEN r
      ELSE IF top.next = NoObject THEN [net |-> Ends(r.net, top.task), stack |-> Tail(r.stack)]
      ELSE Enters([r EXCEPT !.stack = <<[top EXCEPT !.next = next]>> \o Tail(@)], top.next)

Exec(n, o) ==
  LET f[i \in 0..RunLength] ==
        IF i = 0 THEN Enters([net |-> n, stack |-> <<>>], o) ELSE Continues(f[i - 1])
  IN  f[RunLength].net

----------------------------------------------------------------------------
NewTask == [mode |-> "OFF", cyc |-> 0, due |-> 0, err |-> FALSE, eex |-> FALSE]

NewConnection ==
  [on |-> FALSE, trig |-> FALSE, sport |-> "", tport |-> "", source |-> NoElement, target |-> NoElement]

Task ==
  [mode : ActiModes, cyc : CycleTimes \cup {0}, due : Int, err : BOOLEAN, eex : BOOLEAN]

Element == (Objects \X Names) \cup {NoElement}

Connection ==
  [on : BOOLEAN, trig : BOOLEAN, sport : Names \cup {""}, tport : Names \cup {""},
   source : Element, target : Element]

(* Only objects that exist are linked, and elements are not yet looked up. *)
OnlyOf(links, exist) == \A o \in Objects \ exist : links[o] = <<>>

ASSUME LayoutsAssumption ==
  \A l \in Layouts :
    /\ l.ops \in Nat
    /\ l.alive \in SUBSET Objects
    /\ l.kids \in [Runnable -> Seq(Runnable)]
    /\ l.ins \in [Objects -> Seq(Connections)] /\ OnlyOf(l.ins, l.alive)
    /\ l.outs \in [Objects -> Seq(Connections)] /\ OnlyOf(l.outs, l.alive)
    /\ \A o \in Runnable : (l.task[o] @@ NewTask) \in Task
    /\ \A c \in Connections :
         /\ (l.conn[c] @@ NewConnection) \in Connection
         /\ (l.conn[c] @@ NewConnection).source = NoElement
         /\ (l.conn[c] @@ NewConnection).target = NoElement

(* Clients have just loaded a project, and acted on it l.ops times.        *)
Init ==
  \E l \in Layouts :
    /\ alive = l.alive
    /\ kids = l.kids /\ ins = l.ins /\ outs = l.outs
    /\ task = [o \in Runnable |-> l.task[o] @@ NewTask]
    /\ conn = [c \in Connections |-> l.conn[c] @@ NewConnection]
    /\ val = [o \in Blocks \cup Ports |-> IF o \in Blocks THEN [in |-> 0, out |-> 0] ELSE [value |-> 0]]
    /\ event = task[UrTask].due
    /\ now = 0 /\ last = "client" /\ ops = l.ops

Becomes(n) ==
  /\ kids' = n.kids /\ ins' = n.ins /\ outs' = n.outs
  /\ task' = n.task /\ val' = n.val /\ conn' = n.conn

(* fb_task_run, called by the scheduler.                                   *)
(* It is called again at its proctime; without a cycle time a second       *)
(* later; when it is off, at the next point of its cycle in the future.    *)
RunAgain(u, ran) ==
  CASE u.cyc = 0 -> Second
    [] u.cyc > 0 /\ ran -> u.due
    [] OTHER -> IF u.due + u.cyc > 0 THEN u.due + u.cyc ELSE u.cyc - ((-u.due) % u.cyc)

Ran(n, on) ==
  LET due == RunAgain(n.task[UrTask], on)
  IN  Becomes([n EXCEPT !.task[UrTask].due = due]) /\ event' = due

UrRun ==
  /\ event <= 0
  /\ LET on == task[UrTask].mode # "OFF"
     IN  Ran(IF on THEN Exec(Net, UrTask) ELSE Net, on)
  /\ last' = "run"
  /\ UNCHANGED <<alive, now, ops>>

(* Time passes.  The scheduler is never more than Wrap late.  Another task *)
(* that is further behind is taken Wrap forward: it is overdue as before,  *)
(* and at the same point of its cycle.                                     *)
Later(d) == IF d > -Wrap THEN d - 1 ELSE d - 1 + Wrap

Tick ==
  /\ event > -Wrap
  /\ task' = [o \in Runnable |-> [task[o] EXCEPT !.due = Later(@)]]
  /\ event' = Later(event) /\ now' = (now + 1) % Wrap
  /\ last' = "tick"
  /\ UNCHANGED <<alive, kids, ins, outs, val, conn, ops>>

----------------------------------------------------------------------------
(* Clients act between two runs.                                           *)
Client ==
  /\ ops < MaxOps /\ ops' = ops + 1
  /\ UNCHANGED now

Kept == last' = "client" /\ UNCHANGED <<alive, event>>

(* A client that changes a variable of a block requests its execution.     *)
SetTask(o, t) ==
  /\ t # task[o]
  /\ task' = [task EXCEPT ![o] = IF o \in Tasks THEN t ELSE [t EXCEPT !.eex = TRUE]]
  /\ UNCHANGED <<kids, ins, outs, val, conn>>

(* fb_task_actimode_set.                                                   *)
SetActimode(o, m) ==
  /\ Client /\ Kept
  /\ m # task[o].mode
  /\ \E less, cut \in BOOLEAN :
       LET t == IF m = "ON" THEN SetProcTime(task[o], less, cut) ELSE task[o]
       IN  SetTask(o, [t EXCEPT !.mode = m, !.err = IF m = "OFF" THEN @ ELSE FALSE])

(* fb_task_cyctime_set.                                                    *)
SetCyctime(o, c) ==
  /\ Client /\ Kept
  /\ SetTask(o, [task[o] EXCEPT !.cyc = c])

(* fb_task_proctime_set: only for the UrTask does it concern the scheduler.*)
SetProctime(o, d) ==
  /\ Client /\ last' = o /\ UNCHANGED alive
  /\ LET t == [task[o] EXCEPT !.due = d]
     IN  IF o = UrTask
         THEN \E less, cut \in BOOLEAN :
                LET u == SetProcTime(t, less, cut) IN SetTask(o, u) /\ event' = u.due
         ELSE SetTask(o, t) /\ UNCHANGED event

(* A client writes an input, or the value of a port.                       *)
SetInput(o, name, v) ==
  /\ Client /\ Kept
  /\ val[o][name] # v
  /\ Becomes(SetVar(Net, o, <<o, name>>, v))

LinkTask(p, o) ==
  /\ Client /\ Kept
  /\ Linked(Net, p, o) # Net
  /\ Becomes(Linked(Net, p, o))

UnlinkTask(o) ==
  /\ Client /\ Kept
  /\ Parent(Net, o) # NoObject
  /\ Becomes(Unlinked(Net, o))

Reconnected(c, newIns, newOuts, k) ==
  /\ Client /\ Kept
  /\ ins' = newIns /\ outs' = newOuts
  /\ conn' = [conn EXCEPT ![c] = Invalid(k)]
  /\ UNCHANGED <<kids, task, val>>

(* fb_outputconnections_link and fb_inputconnections_link: a link that is  *)
(* made invalidates the elements.                                          *)
LinkSource(c, o) ==
  /\ Source(Net, c) = NoObject
  /\ Reconnected(c, ins, [outs EXCEPT ![o] = Append(@, c)], conn[c])

LinkTarget(c, o) ==
  /\ Target(Net, c) = NoObject
  /\ Reconnected(c, [ins EXCEPT ![o] = Append(@, c)], outs, conn[c])

(* BUG: the elements outlive the link.                                     *)
Bug_Detached(n, cs) ==
  [n EXCEPT !.ins = [o \in Objects |-> Without(@[o], cs)],
            !.conn = [c \in Connections |-> IF c \in cs THEN [@[c] EXCEPT !.on = FALSE] ELSE @[c]]]

(* fb_inputconnections_unlink: the connections go off.                     *)
Detached(n, cs) ==
  [n EXCEPT !.ins = [o \in Objects |-> Without(@[o], cs)],
            !.conn = [c \in Connections |-> IF c \in cs THEN Invalid([@[c] EXCEPT !.on = FALSE]) ELSE @[c]]]

(* fb_outputconnections_unlink.                                            *)
DetachedSource(n, cs) ==
  [n EXCEPT !.outs = [o \in Objects |-> Without(@[o], cs)],
            !.conn = [c \in Connections |-> IF c \in cs THEN Invalid([@[c] EXCEPT !.on = FALSE]) ELSE @[c]]]

UnlinkSource(c) ==
  /\ Client /\ Kept
  /\ Source(Net, c) # NoObject
  /\ Becomes(DetachedSource(Net, {c}))

UnlinkTarget(c) ==
  /\ Client /\ Kept
  /\ Target(Net, c) # NoObject
  /\ Becomes(Detached(Net, {c}))

SetConnection(c, k) ==
  /\ Client /\ Kept
  /\ k # conn[c]
  /\ conn' = [conn EXCEPT ![c] = k]
  /\ UNCHANGED <<kids, ins, outs, task, val>>

(* The variables on (fb_connection_on_set) and sourcetrig.                 *)
Switch(c) == SetConnection(c, [conn[c] EXCEPT !.on = ~@])
SetSourcetrig(c) == SetConnection(c, [conn[c] EXCEPT !.trig = ~@])

(* fb_connection_sourceport_set and fb_connection_targetport_set.          *)
SetSourceport(c, name) ==
  /\ name # conn[c].sport
  /\ SetConnection(c, Invalid([conn[c] EXCEPT !.sport = name]))
SetTargetport(c, name) ==
  /\ name # conn[c].tport
  /\ SetConnection(c, Invalid([conn[c] EXCEPT !.tport = name]))

(* ov_class_deleteobject of a task or a block.  One that is off and has no *)
(* children can be deleted although it has connections.                    *)
Delete(o) ==
  /\ Client /\ last' = "client" /\ UNCHANGED event
  /\ task[o].mode = "OFF" /\ kids[o] = <<>>
  /\ alive' = alive \ {o}
  /\ Becomes(DetachedSource(Detached(Unlinked(Net, o), ToSet(ins[o])), ToSet(outs[o])))

(* The server stops and starts again: fb_task_startup and                  *)
(* fb_connection_startup of every object.                                  *)
Restart ==
  /\ Client /\ last' = "start"
  /\ \E less, cut \in SUBSET {o \in Runnable : Inexact(task[o])} :
       task' = [o \in Runnable |-> IF task[o].mode = "ON"
                                   THEN SetProcTime(task[o], o \in less, o \in cut) ELSE task[o]]
  /\ event' = task'[UrTask].due
  /\ conn' = [c \in Connections |-> Invalid(conn[c])]
  /\ UNCHANGED <<alive, kids, ins, outs, val>>

ClientActs ==
  \/ \E o \in Runnable \cap alive :
       \/ \E m \in Modes[o] : SetActimode(o, m)
       \/ \E c \in CycleTimes : SetCyctime(o, c)
       \/ \E d \in Times : SetProctime(o, d)
       \/ o \in Movable /\ UnlinkTask(o)
       \/ o \in Movable /\ \E p \in Runnable \cap alive : LinkTask(p, o)
       \/ o \in Movable \ {InTask[c] : c \in Charts} /\ Delete(o)
  \/ \E o \in Objects \cap alive, v \in Values : \E name \in Writable(o) : SetInput(o, name, v)
  \/ \E c \in Connections :
       \/ \E o \in (Blocks \cup Ports) \cap alive : LinkSource(c, o) \/ LinkTarget(c, o)
       \/ UnlinkSource(c) \/ UnlinkTarget(c)
       \/ Switch(c) \/ SetSourcetrig(c)
       \/ \E name \in Names : SetSourceport(c, name) \/ SetTargetport(c, name)
  \/ Restart

Next == UrRun \/ Tick \/ ClientActs

Spec == Init /\ [][Next]_vars

(* The scheduler serves the event of the UrTask, and time passes.  (Only   *)
(* UrRun makes last "run", and only Tick changes now.)                     *)
FairSpec ==
  /\ Spec
  /\ WF_last(event <= 0 /\ last' = "run")
  /\ WF_now(event > -Wrap /\ now' = (now + 1) % Wrap)

----------------------------------------------------------------------------
(* The elements that a connection has found are those of the ports it now  *)
(* names, of the objects it is now linked to.                              *)
ElementsCurrent ==
  \A c \in Connections :
    LET k == conn[c]
    IN  k.source # NoElement \/ k.target # NoElement =>
          /\ k.source = <<Source(Net, c), k.sport>> /\ k.source[1] \in alive
          /\ k.target = <<Target(Net, c), k.tport>> /\ k.target[1] \in alive

(* The output of a block is that for its input, or the block will compute  *)
(* it as soon as it is executed: no change of an input is forgotten.       *)
OutputsFollow ==
  \A b \in Blocks : val[b].out = val[b].in \/ val[b].in = Bad \/ task[b].eex

(* A task stays in its cycle, however late it runs, unless a client sets   *)
(* its proctime.  Only fb_set_proctime can move it, when the task is       *)
(* switched on after it was due or the server starts: by one unit of time  *)
(* towards the past, and only where a double does not hold the cycle time. *)
Phase(o) == (now + task[o].due) % task[o].cyc

Drifts(o) ==
  /\ Inexact(task[o])
  /\ \/ last' = "start" /\ task[o].mode = "ON"
     \/ last' = "client" /\ task[o].mode # "ON" /\ task'[o].mode = "ON"
  /\ Phase(o)' = (Phase(o) - 1) % task[o].cyc

PhaseKept ==
  [][\A o \in Runnable : task[o].cyc > 0 /\ task'[o].cyc = task[o].cyc /\ last' # o =>
        Phase(o)' = Phase(o) \/ Drifts(o)]_vars

(* o and all tasks above it are on, up to the UrTask.                      *)
Active(o) ==
  LET above == Ancestors(Net, o)
  IN  UrTask \in above /\ \A a \in above : task[a].mode = "ON"

(* A task with a cycle is served, if it and the tasks above it are on.     *)
Cyclic(o) == task[o].cyc > 0 /\ Active(o)

Served == \A o \in Runnable : Cyclic(o) ~> ~Cyclic(o) \/ task[o].due >= 0

(* A value arrives: if a block that runs fetches its input, this is what   *)
(* the source puts out in the end.                                         *)
Fetches(c) ==
  LET t == Target(Net, c)
  IN  /\ conn[c].on /\ ~conn[c].trig
      /\ Source(Net, c) # NoObject /\ t # NoObject /\ Consistent(Net, c)
      /\ Active(Executor(t))
      /\ \A d \in Connections \ {c} : Target(Net, d) # t

Arrived(c) == val[Target(Net, c)][conn[c].tport] = val[Source(Net, c)][conn[c].sport]

ValuesArrive == \A c \in Connections : Fetches(c) ~> ~Fetches(c) \/ Arrived(c)
=============================================================================
