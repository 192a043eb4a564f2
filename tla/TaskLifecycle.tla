--------------------------- MODULE TaskLifecycle ---------------------------
(***************************************************************************)
(* The life of the objects that are scheduled: how ov_class_createobject,  *)
(* ov_class_deleteobject, the startup and shutdown of the database and     *)
(* crashes of the server register them and take them off the queue.        *)
(*                                                                         *)
(* Objects live in blocks of the database, a mapped file that outlives the *)
(* server; their v_objectstate is stored there.  The event queue and the   *)
(* pointer pUrTask of fb_database.c belong to the process.  Of the queue   *)
(* only counts how many events point to a block (see Scheduler for the     *)
(* rest).  The task named /Tasks/UrTask and the RootComTasks are scheduled *)
(* objects, other tasks are not; tasks have no child tasks here, and the   *)
(* links that keep an object from being deleted are left out.              *)
(***************************************************************************)
EXTENDS Integers, FiniteSets

CONSTANTS
  Blocks,       (* blocks of the database memory                           *)
  Null,         (* the null pointer                                        *)
  MaxEvents,    (* bound of the events that point to one block             *)
  MaxCrashes    (* bound of the crashes of the server                      *)

ASSUME LifecycleAssumption ==
  /\ Null \notin Blocks
  /\ MaxEvents \in Nat \ {0}
  /\ MaxCrashes \in Nat

VARIABLES
  proc,         (* what the server process is doing                        *)
  rootStarted,  (* OV_OS_STARTED of the root object                        *)
  kind,         (* the object in each block                                *)
  state,        (* its v_objectstate                                       *)
  off,          (* the blocks of the tasks with actimode OFF               *)
  events,       (* how many events of the queue point to each block        *)
  pUrTask,      (* the cached pointer to the UrTask                        *)
  todo,         (* blocks still to be visited by startup or shutdown       *)
  creating,     (* the object for which createobject has not returned      *)
  crashes,      (* how often the server has crashed                        *)
  missing,      (* was there no UrTask when the libraries were opened?     *)
  fate          (* what has become of the object pUrTask points to         *)

lifecycleVars == <<proc, rootStarted, kind, state, off, events, pUrTask, todo, creating, crashes, missing, fate>>

Processes == {"down", "loaded", "starting", "up", "stopping"}
Kinds     == {"free", "task", "UrTask", "RootComTask"}
Flags     == {"init", "started", "active"}
Fates     == {"alive", "deleted", "replaced"}

Live == {b \in Blocks : kind[b] # "free"}

(* The path /Tasks/UrTask, resolved among the objects k.                   *)
UrTasks(k) == {b \in Blocks : k[b] = "UrTask"}
Search(k)  == IF UrTasks(k) = {} THEN Null ELSE CHOOSE b \in UrTasks(k) : TRUE

(* fb_database_geturtask searches once and then returns what it has found. *)
GetUrTask(k) == IF pUrTask # Null THEN pUrTask ELSE Search(k)

IsUrTask(b, k) == k[b] \in {"task", "UrTask"} /\ GetUrTask(k) = b

RootComTasks == {b \in Blocks : kind[b] = "RootComTask"}

Scheduled(b, k) == IsUrTask(b, k) \/ k[b] = "RootComTask"

----------------------------------------------------------------------------
(* What the methods of an object do to its events and flags: they take and *)
(* return a record with both.                                              *)

It(b) == [events |-> events[b], state |-> state[b]]

Registered(x) == [events |-> x.events + 1, state |-> x.state \cup {"active"}]

Unregistered(x) ==
  IF x.events = 0 THEN x
  ELSE [events |-> x.events - 1, state |-> x.state \ {"active"}]

(* m_startup: of ov_object, fb_task and ksbase_RootComTask.                *)
StartedUp(x, b, k) ==
  LET y == [x EXCEPT !.state = @ \cup {"started"}]
  IN  IF Scheduled(b, k) THEN Registered(y) ELSE y

(* m_shutdown.                                                             *)
ShutDown(x, b, k) ==
  LET y == IF Scheduled(b, k) THEN Unregistered(x) ELSE x
  IN  [y EXCEPT !.state = @ \ {"started"}]

(* Store the outcome.                                                      *)
Becomes(b, x) ==
  /\ x.events <= MaxEvents
  /\ events' = [events EXCEPT ![b] = x.events]
  /\ state' = [state EXCEPT ![b] = x.state]

----------------------------------------------------------------------------
(* The server process.                                                     *)

Load ==
  /\ proc = "down"
  /\ proc' = "loaded"
  /\ UNCHANGED <<rootStarted, kind, state, off, events, pUrTask, todo, creating, crashes, missing, fate>>

(* ov_database_startup clears the flag and gives up; the server exits.     *)
Bug_RefuseKeepsFlag ==
  /\ proc = "loaded"
  /\ rootStarted
  /\ proc' = "down"
  /\ UNCHANGED <<rootStarted, kind, state, off, events, pUrTask, todo, creating, crashes, missing, fate>>
RefuseStartup ==
  /\ proc = "loaded"
  /\ rootStarted
  /\ rootStarted' = FALSE
  /\ proc' = "down"
  /\ UNCHANGED <<kind, state, off, events, pUrTask, todo, creating, crashes, missing, fate>>

(* The libraries are opened, and library fb looks for the UrTask           *)
(* (fb_database_checkstruct).                                              *)
OpenLibraries ==
  /\ proc = "loaded"
  /\ ~rootStarted
  /\ UrTasks(kind) # {}
  /\ proc' = "starting"
  /\ pUrTask' = Search(kind)
  /\ todo' = Live
  /\ missing' = FALSE
  /\ UNCHANGED <<rootStarted, kind, state, off, events, creating, crashes, fate>>

(* If it is missing, it is created: createobject starts it up, checkstruct *)
(* turns it on, and then the root object starts it up with all the others. *)
OpenAndCreateUrTask(b) ==
  /\ proc = "loaded"
  /\ ~rootStarted
  /\ UrTasks(kind) = {}
  /\ kind[b] = "free"
  /\ proc' = "starting"
  /\ pUrTask' = b
  /\ kind' = [kind EXCEPT ![b] = "UrTask"]
  /\ Becomes(b, Registered([events |-> events[b], state |-> {"init", "started"}]))
  /\ off' = off \ {b}
  /\ todo' = Live \cup {b}
  /\ missing' = TRUE
  /\ UNCHANGED <<rootStarted, creating, crashes, fate>>

(* There is no memory for it: the startup fails, and the server exits.     *)
NoRoom == UrTasks(kind) = {} /\ Live = Blocks

CreateUrTaskFails ==
  /\ proc = "loaded"
  /\ ~rootStarted
  /\ NoRoom
  /\ proc' = "down"
  /\ UNCHANGED <<rootStarted, kind, state, off, events, pUrTask, todo, creating, crashes, missing, fate>>

(* The root object starts all objects up, started before or not.           *)
StartObject(b) ==
  /\ proc = "starting"
  /\ b \in todo
  /\ Becomes(b, StartedUp(It(b), b, kind))
  /\ todo' = todo \ {b}
  /\ UNCHANGED <<proc, rootStarted, kind, off, pUrTask, creating, crashes, missing, fate>>

StartupDone ==
  /\ proc = "starting"
  /\ todo = {}
  /\ rootStarted' = TRUE
  /\ proc' = "up"
  /\ UNCHANGED <<kind, state, off, events, pUrTask, todo, creating, crashes, missing, fate>>

Shutdown ==
  /\ proc = "up"
  /\ creating = Null
  /\ proc' = "stopping"
  /\ todo' = Live
  /\ UNCHANGED <<rootStarted, kind, state, off, events, pUrTask, creating, crashes, missing, fate>>

StopObject(b) ==
  /\ proc = "stopping"
  /\ b \in todo
  /\ Becomes(b, ShutDown(It(b), b, kind))
  /\ todo' = todo \ {b}
  /\ UNCHANGED <<proc, rootStarted, kind, off, pUrTask, creating, crashes, missing, fate>>

(* The flag of the root object is cleared last; the process ends, and with *)
(* it the queue and pUrTask.                                               *)
Exit ==
  /\ proc' = "down"
  /\ events' = [b \in Blocks |-> 0]
  /\ pUrTask' = Null
  /\ todo' = {}
  /\ creating' = Null
  /\ fate' = "alive"

ShutdownDone ==
  /\ proc = "stopping"
  /\ todo = {}
  /\ Exit
  /\ rootStarted' = FALSE
  /\ UNCHANGED <<kind, state, off, crashes, missing>>

Crash ==
  /\ proc # "down"
  /\ Exit
  /\ crashes < MaxCrashes
  /\ crashes' = crashes + 1
  /\ UNCHANGED <<rootStarted, kind, state, off, missing>>

----------------------------------------------------------------------------
(* Services, while the server is up.                                       *)

Service == proc = "up" /\ UNCHANGED <<proc, rootStarted, todo, crashes, missing>>

(* createobject, up to the constructor.  Names are unique in a domain.  A  *)
(* second RootComTask is refused by its constructor.                       *)
Create(b, k) ==
  /\ Service
  /\ creating = Null
  /\ kind[b] = "free"
  /\ k = "UrTask" => UrTasks(kind) = {}
  /\ kind' = [kind EXCEPT ![b] = k]
  /\ state' = [state EXCEPT ![b] = {}]
  /\ off' = off \cup {b}
  /\ creating' = b
  /\ fate' = IF b = pUrTask THEN "replaced" ELSE fate
  /\ UNCHANGED <<events, pUrTask>>

(* fb_task_proctime_set: unregister first, not to be registered twice.     *)
Bug_SetProctimeRegisters(b) ==
  /\ Service
  /\ kind[b] \in {"task", "UrTask"}
  /\ creating # Null => creating = b
  /\ pUrTask' = GetUrTask(kind)
  /\ Becomes(b, IF IsUrTask(b, kind) THEN Registered(It(b)) ELSE It(b))
  /\ UNCHANGED <<kind, off, creating, fate>>
SetProctime(b) ==
  /\ Service
  /\ kind[b] \in {"task", "UrTask"}
  /\ creating # Null => creating = b
  /\ pUrTask' = GetUrTask(kind)
  /\ Becomes(b, IF IsUrTask(b, kind) THEN Registered(Unregistered(It(b))) ELSE It(b))
  /\ UNCHANGED <<kind, off, creating, fate>>

(* An initialization parameter is refused: the object is destroyed and its *)
(* memory freed (unless the activities are locked: then this does not      *)
(* happen).                                                                *)
CreateFails ==
  /\ Service
  /\ creating # Null
  /\ kind' = [kind EXCEPT ![creating] = "free"]
  /\ state' = [state EXCEPT ![creating] = {}]
  /\ creating' = Null
  /\ UNCHANGED <<off, events, pUrTask, fate>>

CreateSucceeds ==
  /\ Service
  /\ creating # Null
  /\ kind[creating] = "RootComTask" => RootComTasks = {creating}
  /\ Becomes(creating, StartedUp([It(creating) EXCEPT !.state = @ \cup {"init"}],
                                 creating, kind))
  /\ pUrTask' = IF kind[creating] = "RootComTask" THEN pUrTask ELSE GetUrTask(kind)
  /\ creating' = Null
  /\ UNCHANGED <<kind, off, fate>>

SetActimode(b) ==
  /\ Service
  /\ creating = Null
  /\ kind[b] \in {"task", "UrTask"}
  /\ off' = IF b \in off THEN off \ {b} ELSE off \cup {b}
  /\ UNCHANGED <<kind, state, events, pUrTask, creating, fate>>

(* Tasks must be off (fb_task_getaccess), "Auch UrTask".  deleteobject    *)
(* shuts the object down, unregisters it if it is still active, and frees  *)
(* its memory.  pUrTask is not reset.                                      *)
Bug_DeleteWithoutShutdown(b) ==
  /\ Service
  /\ creating = Null
  /\ b \in Live
  /\ kind[b] \in {"task", "UrTask"} => b \in off
  /\ pUrTask' = GetUrTask(kind)
  /\ kind' = [kind EXCEPT ![b] = "free"]
  /\ state' = [state EXCEPT ![b] = {}]
  /\ fate' = IF b = pUrTask /\ fate = "alive" THEN "deleted" ELSE fate
  /\ UNCHANGED <<off, events, creating>>
Delete(b) ==
  /\ Service
  /\ creating = Null
  /\ b \in Live
  /\ kind[b] \in {"task", "UrTask"} => b \in off
  /\ LET x == ShutDown(It(b), b, kind)
         y == IF "active" \in x.state THEN Unregistered(x) ELSE x
     IN  Becomes(b, [y EXCEPT !.state = {}])
  /\ kind' = [kind EXCEPT ![b] = "free"]
  /\ pUrTask' = IF kind[b] = "RootComTask" THEN pUrTask ELSE GetUrTask(kind)
  /\ fate' = IF b = pUrTask /\ fate = "alive" THEN "deleted" ELSE fate
  /\ UNCHANGED <<off, creating>>

----------------------------------------------------------------------------
(* A new database, in which library fb has been created: fb has created    *)
(* the UrTask and turned it on.                                            *)
NewDatabase ==
  /\ proc = "up"
  /\ rootStarted = TRUE
  /\ pUrTask \in Blocks
  /\ state = [b \in Blocks |-> IF b = pUrTask THEN Flags ELSE {}]
  /\ events = [b \in Blocks |-> IF b = pUrTask THEN 1 ELSE 0]

(* Or one in which clients had deleted all tasks before the last shutdown. *)
NoTasksLeft ==
  /\ proc = "down"
  /\ rootStarted = FALSE
  /\ pUrTask = Null
  /\ state = [b \in Blocks |-> {}]
  /\ events = [b \in Blocks |-> 0]

LifecycleInit ==
  /\ NewDatabase \/ NoTasksLeft
  /\ kind = [b \in Blocks |-> IF b = pUrTask THEN "UrTask" ELSE "free"]
  /\ off = {}
  /\ todo = {}
  /\ creating = Null
  /\ crashes = 0
  /\ missing = FALSE
  /\ fate = "alive"

Proceed ==
  \/ Load \/ RefuseStartup \/ OpenLibraries \/ CreateUrTaskFails \/ StartupDone
  \/ ShutdownDone
  \/ \E b \in Blocks : OpenAndCreateUrTask(b) \/ StartObject(b) \/ StopObject(b)

LifecycleNext ==
  \/ Proceed \/ Shutdown \/ Crash \/ CreateFails \/ CreateSucceeds
  \/ \E b \in Blocks :
       \/ SetProctime(b) \/ SetActimode(b) \/ Delete(b)
       \/ \E k \in Kinds \ {"free"} : Create(b, k)

LifecycleSpec == LifecycleInit /\ [][LifecycleNext]_lifecycleVars

(* Startup and shutdown go on, and the server is started again after every *)
(* exit.                                                                   *)
LifecycleFairSpec == LifecycleSpec /\ WF_lifecycleVars(Proceed)

----------------------------------------------------------------------------
LifecycleTypeOK ==
  /\ proc \in Processes
  /\ rootStarted \in BOOLEAN
  /\ kind \in [Blocks -> Kinds]
  /\ state \in [Blocks -> SUBSET Flags]
  /\ off \in SUBSET Blocks
  /\ events \in [Blocks -> 0..MaxEvents]
  /\ pUrTask \in Blocks \cup {Null}
  /\ todo \in SUBSET Blocks
  /\ creating \in Blocks \cup {Null}
  /\ crashes \in 0..MaxCrashes
  /\ missing \in BOOLEAN
  /\ fate \in Fates

(* The block to which pUrTask still points although its UrTask was deleted *)
Forsaken(b) == b = pUrTask /\ fate # "alive"

(* No event points to memory that has been freed: deleteobject             *)
(* unregisters an object that "is still active".  Only the block of the    *)
(* UrTask may keep one when the UrTask is deleted: if it was registered    *)
(* twice, or once another object was created there and taken for it.       *)
NoDanglingEvent ==
  \A b \in Blocks : events[b] > 0 =>
    \/ b \in Live
    \/ b = pUrTask /\ fate = "deleted" /\ missing
    \/ b = pUrTask /\ fate = "replaced"

(* While the server is up, the UrTask that it knows and the RootComTasks   *)
(* have an event each and nothing else has one: nothing is called twice a  *)
(* cycle, and nothing is forgotten.  Only an UrTask that this start of the *)
(* server had to create has been started up twice, and has two, and what   *)
(* took the place of a deleted UrTask may have more.                       *)
ScheduledOnce ==
  proc = "up" =>
    \A b \in Live \ {creating} :
      IF Forsaken(b) THEN events[b] >= 1
      ELSE IF kind[b] = "RootComTask" \/ b = pUrTask
      THEN events[b] = 1 \/ (missing /\ b = pUrTask /\ events[b] = 2)
      ELSE events[b] = 0

(* OV_OS_ACTIVE may survive a crash while the queue does not; once the     *)
(* server is up again, the flag is right.  It stays with a task that had   *)
(* been taken for the UrTask, and is not there yet for what is created     *)
(* where an event was left behind.                                         *)
ActiveFlagRight ==
  proc = "up" =>
    \A b \in Live :
      /\ "active" \in state[b] => events[b] > 0 \/ (kind[b] = "task" /\ crashes > 0)
      /\ events[b] > 0 => "active" \in state[b] \/ (Forsaken(b) /\ b = creating)

(* The queue, the flags in the database and the kinds of the objects       *)
(* agree, whatever crashes, restarts and failed creations came before.     *)
FlagsMatchEvents == LifecycleTypeOK /\ ScheduledOnce /\ ActiveFlagRight

(* "The next try to start the database will succeed": crashes, at most     *)
(* MaxCrashes of them, do not keep the server from coming up again.  Only  *)
(* clients do, if they delete the UrTask and leave no memory for another.  *)
ComesUpAgain == []<>(proc = "up" \/ NoRoom)
=============================================================================
