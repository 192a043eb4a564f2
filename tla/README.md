# ACPLT/RTE: a TLA+ model of the runtime environment

ACPLT/RTE is a runtime environment for process control in C: a server that
keeps an object-oriented database (ACPLT/OV) in a mapped file, runs function
blocks and state charts cyclically, and serves clients over the network
(ACPLT/KS). This directory holds TLA+ modules of its core, configurations that
check them with TLC, and theorems with proofs for TLAPS. `PROJECT.json` relates
every definition to the source lines it stands for. Paths below are relative to
the repository; `ov/` is `src/core/ov/source`, `syslibs/` is `src/syslibs`.

    tlc -workers 2 -config MCScheduler.cfg MCScheduler      # one run
    tlapm SchedulerProofs.tla                               # one module's proofs

Contents: 1 the system, 2 the modules and the code, 3 the runs, 4 bounds,
5 fairness, 6 proofs, 7 findings, 8 observations without a run, 9 what is not
modelled, 10 the plan.

## 1. The system

The server is one process with one thread that matters to the database; a
second one resolves host names. Everything in the database is shared state: the
components below call one another's methods synchronously, through virtual
tables, and a method is free to call back into the component that called it.
Concurrency is therefore mostly re-entrancy, plus clients of the network whose
requests come in any order between the calls, plus the process dying at any
point while the mapped file lives on.

| Component (files) | State | Operations | Talks to | Hard | Correct if |
|---|---|---|---|---|---|
| Scheduler, server loop (`ov/ov_scheduler.c`, `src/core/runtimeserver/ov_runtimeserver.c`) | list of events ordered by time, on the heap; `ov_activitylock`; wall clock | register, unregister, set absolute and relative time, dispatch, next event time, sleep | calls the `executefnc` of active objects, which call it back | methods that move any event, their own included, while it is dispatched; clock set; long sleeps | ordered queue, one event per object, the flag `OV_OS_ACTIVE` tells who is queued, due events are served, no oversleeping |
| Task life cycle (`syslibs/fb/source/fb_task.c`, `fb_database.c`, `syslibs/ksbase/source/RootComTask.c`, `ov/ov_class.c`, `ov/ov_database.c`) | `v_objectstate` in the file, cached pointer to the UrTask in the process | startup, shutdown, create, delete, set of the process time, crash, restart | scheduler, class | state that survives a crash against state that does not; methods called twice | every scheduled object has exactly one event, none points to freed memory, the server comes up again |
| Id list (`ov/ov_database.c:129-640`) | nodes of id relations, their array, counter | insert, search, release | class (create, delete), KS access by id | merging and renumbering over long sequences of deletions; failing allocations; unsuccessful search | a map from ids to objects; every search ends |
| Associations (`ov/ov_association.c`) | heads and anchors in the link tables of objects | link, move, unlink, dolink, iterate, search by name | everything | placement hints relative to the child itself or stale after unlinking | doubly linked lists that are sound and complete; a call that says OK has done it |
| Object hierarchy (`ov/ov_class.c`, `ov/ov_object.c`) | objects, names, `OV_OS_STARTED` | createobject, deleteobject, cleanupinst, renameobject | constructors, shutdown methods, associations | nested calls, failure in the middle, checks made before the unlinking and used after | a tree of living objects with unique paths; a request is all or nothing |
| TCP channels and the worker thread (`syslibs/TCPbind`) | channels, list of lookups shared by two threads, sockets | open, close, receive, send, delete; resolve, connect, free | clients of KS, ComTasks | two threads without a lock; sockets reused; shutdown | list sound, a socket has one owner, a lookup ends, shutdown ends |
| Function blocks (`syslibs/fb`) | task lists, modes, cycle and next times, requests to execute (`eexreq`), connections with the variables they have looked up, ports of charts | execute, set the next time, link, unlink, switch, trigger a connection, set a variable | scheduler; typemethods of libraries | requests withdrawn and made in one cycle; lists changed under iteration; cached addresses; calls that come late | no change of an input is lost, a connection works on the objects it links, a task keeps its phase and runs |
| Conversion of values (`fb_setvar.c`) | the variable | convert, compare, store, request execution | connections, services of KS | 27 functions for 9 types in 3 shapes that should agree; ranges, signs, missing elements; memory missing in the middle | the variable holds the last value as well as its type can, and the block is executed iff it changed |
| Sequential state charts (`syslibs/ssc`) | working state, active step, phases and qualifiers of steps, transitions | typemethods of chart and step, reset, commands, init and end step names | task tree, which executes chart and steps; charts that charts execute | several steps run in one cycle; commands in any state; resets that reach sub-charts | one active step, exit follows entry, a sub-chart stops with its owner |
| Registration (`syslibs/ksxdr`, `syslibs/ksbase`) | states of agent, client and channel in each server; entries with a time to live in the manager | register, answer, give up, pause, unregister, expire | channels, network | late, lost and repeated messages, timeouts of three layers, crash of the manager | who believes to be registered is listed; the list settles to what runs |
| Serving of connections (`syslibs/ksbase/source/RootComTask.c`, `TCPbind/source/TCPListener.c`, `TCPChannel.c`, `ksxdr/source/xdrClientHandler.c`, `kshttp/source/httpclienthandler.c`) | list of communication tasks, buffers, limits and state of each channel, its handler | accept, receive, identify, handle a request, send, time out, delete | clients of KS, manager | tasks deleted in the pass over them; requests in parts; timeouts while a client thinks; clients that vanish | the pass is sound, answers come in order, whoever waits gets one, nothing is left behind |
| Client API (`ksapi`), encodings | request states | encode, decode | channels | | |
| Database file (`ov_database.c`, `ov_malloc.c`) | mapped file, pool | load, map, flush, backup | operating system | crash while it is written | |
| Elements, paths, variables, vendor tree | none of their own | resolve, get, set | KS services | | |
| Libraries, codegen, builder, dbutil, strings, vectors, time, log | | | | | |
| kshist, opcua, cshmi, UDPbind, supervision | | | | | |

The hazards of each, with the line where they bite and the properties that
guard against them, are the `hazards` of `PROJECT.json`.

## 2. The modules and the code

    SchedulerProofs                  -->  Scheduler, TaskLifecycle, SetVar, StateChart
                                          Scheduler    ==>  TimerService
    IdListProofs                     -->  IdList       ==>  IdMap
    Association  -->  ManyLinks      -->  Links
                                          Association  ==>  OrderedChildren
    AssociationProofs                -->  Association, Lemmas
    ObjectTree                       -->  Links
                                          ObjectTree   ==>  Hierarchy
    ObjectTreeProofs                 -->  ObjectTree, Lemmas
    Lemmas                           -->  Links
    NetworkProofs                    -->  AresWorker, Registration
    ConnectionsProofs                -->  Connections
    StateChart                            ==>  ChartMachine
    FunctionBlocksProofs             -->  FunctionBlocks

`A --> B`: A EXTENDS B; `A ==> B`: A is shown to implement B. Lemmas has what is proved of
tables of pointers, sequences and finite sets; SchedulerProofs, IdListProofs, NetworkProofs,
FunctionBlocksProofs and ConnectionsProofs take the lemmas on sequences from it (`General == INSTANCE Lemmas`).
The module `MCX` gives the constants of module X their values for the runs.

Definitions keep the names of the functions and variables they stand for.
`Bug_X`, before `X`, is `X` with a plausible mistake in it; no specification
uses it; it shows what a property is able to catch.

**Scheduler** (`ov_scheduler.c`, the loop of `ov_runtimeserver.c:93-121`). The
linked list is the sequence `queue`; searching it from the front is
`FirstIndex`, `insertevent` is `InsertEvent`. `phase` says where the thread is:
starting up, between calls, inside an `executefnc`, asleep. Since
`schedulenextevent` calls out in its middle it is two actions, `Dispatch` (stamp
the first event with the present time, put it back, call) and `Return` (read the
clock again, compute the sleep), and the actions of clients come in between,
which is the re-entrancy of the code. Times are numbers; a clock that may be set
is `ClockJump`. `ov_scheduler_register` does not check for a second event of the
same object; that its callers never ask for one is an assumption of this module
(a guard of `Register`) and a checked property of the next but one
(`FlagsMatchEvents`).

**TimerService** is what the scheduler promises, without lists: a due time for
each object, and of those that are due one of the earliest is called.

**TaskLifecycle** counts, for each block of database memory, the events that
point to it, next to what the file holds: the kind of object in the block and
its flags. A crash loses the events and the cached `pUrTask` and keeps the file.
`OpenLibraries` and `OpenAndCreateUrTask` are the search and the creation of
`/Tasks/UrTask` by `fb_database_checkstruct`; `StartObject` and `StopObject`
visit the objects one by one, and a crash may come between any two.
`RefuseStartup` is the check of the root object's flag by
`ov_database_startup`, which clears it and gives up, so that "the next try to
start the database will succeed"; `CreateUrTaskFails` is a start that finds neither an UrTask nor
memory for one. `Create` up to `CreateSucceeds` or
`CreateFails` is one `createobject`, cut where start values are set, whose set
accessor `fb_task_proctime_set` (`SetProctime`) talks to the scheduler. Clients may delete
the UrTask (`fb_task_getaccess`: "Auch UrTask"), and `pUrTask` is not reset then; the history variable
`fate` says whether what it points to is the UrTask, free, or something created in its place.

**IdList** has the linked nodes as the sequence `chain`, their fields in `node`,
and the array `pNodes` with its allocated size `room`. A search is a walk of
single steps (`WalkNext`, `WalkPrevious`) from a node that a division of ids
picks, so that its end is something to check; the bisection inside a node is the
operator `RelationIndex`, computed with the bounds of the loop of the code. A
release ends in exactly one of `MergeNext`, `MergePrevious`, `DropEmpty` and
`Shrink`. Any allocation may fail. **IdMap** is the promise: ids that are known
or not, and searches that tell which.

**Links** holds the pointers of a 1:n association and, as operators on them,
what `ov_association_link` and `ov_association_unlink` do: `LinkResult` is
the cascade of checks with the code returned, `LinkOutcome` the pointers
afterwards. The placement hint is a number of the request, and one that stands for nothing (`UNKNOWN`)
gets here unchecked. **ManyLinks** does the same for n:m: a link is a block (`OV_NMLINK`) that is in
two lists at once, that of its parent and that of its child, and each of the two is a list
as in Links, so that `Spliced` and `Unlinked` are used for either side. `LinkAnswer` is
`ov_association_link`, with the check whether the link stays (`StaysInBoth`), and the removal and
second call if not. **Association** makes actions of both, and of 1:1 associations, for two parents whose
children come and go; the type is chosen at the beginning. **OrderedChildren** says what they amount to: a
sequence of children for each parent, and one of parents for each child.

**ObjectTree** uses the same operators for `ov_containment`. The calls of
`createobject` and `deleteobject` in progress are a `stack` of frames, since
constructors create objects (as `ssc_SequentialStateChart_constructor` does) and
shutdown methods delete them (as `TCPbind_TCPListener_shutdown` does).
`Proceed`, `CleanChild` and `Free` are what `cleanupinst` does: links of other associations are undone first, since
it goes from the derived classes to `ov_object`, then children are deleted. `Rename` is the rename
service with `renameobject`, which unlinks the object before it links it. If that fails
(`Refused`), `Ov_AbortIfNot` ends the server; `lost` is then the object left without a parent, and `Aborted` the rest of
the behaviour. One 1:n association (`holder`) stands for all others; `Hold` and `LetGo` are the link
and unlink services, and what constructors and the links of a creation request do. **Hierarchy** is the
promise to clients: each request is one step, seen between requests.

**AresWorker** has two threads. A step of the worker (`workerThread`) lies
between two accesses to what the other thread also touches: noting the next
element and taking up a lookup (`Visit`), `getaddrinfo` (`Resolve`), `socket`,
`connect`, and the check for deletion with the unlinking (`CheckDelete`). The
server's thread opens, closes and deletes channels and calls the typemethod of
a channel, which passes from the outcome of the lookup to receiving in one
call (`server = "receiving"`). Sockets are numbers that the kernel gives out
again, lowest first. The stores of a thread are seen by the other in their order.
Connections break, and channels are closed and deleted, at any time, also while a lookup is under way. What that does to
sockets is modelled (`struck` names those closed for another channel). A channel that is deleted before it has taken over the outcome of its lookup, or a
worker that is stopped then, leaves an element that is freed and still used: what the program does from there on is undefined in C, and the
model ends (`undefined`).
`MayOpen` is the guard of `ksxdr_initiateConnection` and of its counterpart in
kshttp; the manager and the ask list of ksxdr open channels of their own without
looking, and are left out.

**FunctionBlocks** (`syslibs/fb`). A run of the UrTask (`fb_task_run`) ends before
the server looks at the next request, so it is one action, `UrRun`. What it does
to the objects it reaches is computed on a `Net`, a record of their state in the
middle of the run: `Exec` and the operators under it take a net and return one, and
follow the code call by call: `GetInputs`, `Begun`, `BlockMethod`, `SendOutputs` are the steps
of the execute methods, `Trigger` is `fb_connection_trigger` with the elements it caches.
The code executes the tree by methods that call each other. The model has their stack: `Begins` is what the method of a
task, block or chart does before its children are executed, `Ends` what it does afterwards,
and `Continues` one turn of the loop of `fb_task_execChildObjects`, which reads the child after the next before it calls the next
one. `Exec` repeats this up to `RunLength` times; when the stack is empty, nothing more happens. A block copies its input to
its output and fails for the value `Bad`; a chart has a task `intask` for its blocks
and ports that pass values on. Next times are kept relative to the present, so that
`Tick` ages them, in units of which `Second` make a second; the unit of the code is the
microsecond. Only `fb_set_proctime` leaves whole numbers: it computes in seconds with doubles,
and cuts off what is below a microsecond. A cycle time of whole 64ths of a second (`ExactTimes`) is not affected. For
others a quotient that should be whole may come out one lower (`less` in `SetProcTime`: a cycle is not skipped), and the microseconds of the product one lower (`cut`).
Larger errors need times beyond 2^31 seconds. The actions of clients are `ClientActs`. How a value is
converted on its way is the next module's subject.

**SetVar** (`fb_setvar.c`). One variable of some type and shape, and one write
after the other. `ToInt` and its like are the conversion of one element, which
the functions for scalars, dynamic and static vectors of the code repeat;
`ScalarInt`, `DynvecInt`, `StaticInt` and their like are these functions,
so that where one of them differs from the others (a test for the wrong type, a missing
`+`) its definition differs. What C leaves undefined, or what depends on memory
next to a value, is a set of results. Reals count halves, times have half seconds
for microseconds, integers two or three bits; they overflow as those of the code.

**StateChart** (`syslibs/ssc`). A cycle of the chart is one action, computed on a
net as above: `ChartMethod` with the working states, `StepMethod` with the phases
of a step, the parts `entry` and `do` as tasks, and `ExecuteBlock`, through which
an action runs a sub-chart. Charts execute steps and steps execute charts: the methods
take what executing a sub-chart does as a parameter (`run`), which is `SubChartsRun` for the main chart and
`Nothing` for its sub-charts. `trace` is the sequence of what the cycle did, and
`begun` the steps whose entry actions were not yet ended; both are history, which
the code does not have. **ChartMachine** is the chart as its user sees it: a machine
in one of five states that obeys the last command and moves along transitions.

**Registration** (`ksxdr/source/xdrManagerCom.c`, `xdrClient_*.c`,
`ksbase/source/Manager.c`, `ServerRep.c`). An agent registers its server at the
manager of the host, over a client and a channel whose states it does not see: `com`,
`cl` and `chan` are the three state machines, `wire` and `answers` the
messages under way. `out` is the `v_outData` of the channel: a request is written there before the connection
exists and stays when the client is reset, so that the channel sends it when it opens, together with what was appended behind. `own` tells whether a request or an
answer bears the xid that the client waits for, `conn` whether its connection is still open, `more` whether the next request came
along with it. The manager handles one request of what it receives at a time; the others wait in `buf` until more arrives.
`Register` follows `Manager.c` through what a full pool does to it: the entry of a new server may be missing or incomplete though the
answer is OK (`Incomplete`; `unlisted` names the agents that were told so), and a renewal may fail halfway (`HalfRenewed`).
`Tick` is the passing of five seconds, once everything that is due
within milliseconds is done. Faults (`BreakConnection`, `ManagerCrash`, a manager without its object, a failed lookup, a
shutdown, a full pool, a delay) take from a budget. The fields of AresWorker are
here reduced to the state of a channel.

**Connections** is the serving side. The list of `RootComTask.c` is `tasks`; the pass
reads the task to visit next (`at`) before it calls the method of the current one, so
`Visit` sets `at` first and what the method deletes comes after, which is where it can
go wrong. After the last task the pass begins anew; the sleep in between is left out. The
method of a channel has one action for each way through it: `ReceiveReset`, `ReceiveEnd`,
`ReceiveNothing`, `NotOpen`, `HandleData`. `chan` holds the fields of a channel, with
parts of requests for bytes, `hand` what became of its handler, `http` the state of the
parser. `XdrRequest` and `HttpRequest` are the two `HandleRequest`, which give the
channel, the parser and an `Effect` on the list: a ServerRep that is registered or
unregistered, a handler that deletes itself, or the push handler that takes over.
A request that ksxdr denies is answered when its header is read, and the rest of its message stays in the buffer (`rest`). The next header is then
read from the middle of a message, or from parts of one whose beginning was dropped (not `AtMessage`). `Misread` has what can come of it:
no header, an incomplete message, or one more denial, which leaves the buffer 28 bytes `FurtherOn`; `HandleRequest` gives this set. `Noted` is an answer to no request. If the next task
is gone when the pass goes on, what the program does is undefined, and the model ends (`Undefined`).
Times are levels (2, 60, 300 and 1200 seconds), since each limit is compared only with the
time since the last data. The client's side of it is `net`, `sent`, `wire` and `got`.

## 3. The runs

Twelve runs.

| Run | Shows |
|---|---|
| `scheduler` | Two objects register, unregister and move each other's events from inside their methods while the clock runs and jumps: `QueueSound` (types, order, one event for each object, and the flag by which `deleteobject` decides whether to unregister tells who is queued), `NextEventTimeExact` (the span `getnexteventtime` returns to a method is right although it takes the first event for the running one), `NewcomerGoesLast` (objects of the same period take turns), `NoOversleep` (the server wakes no later than the next event is due), `ImplementsTimers`, `DueEventServed` (what is due is dispatched, as long as methods do not ask again and again for times that have passed). |
| `task_lifecycle` | Creation, start values, deletion, startup, shutdown and crashes in any order: `NoDanglingEvent`, `FlagsMatchEvents`, `ComesUpAgain`, all with the UrTask deleted and created anew. `NoDanglingEvent` confines the events that are left behind to the block of a deleted UrTask, and says when there is one. |
| `idlist` | Insertions, searches and releases in any order with failing allocations: `NodesSound` (array and list agree, ids ascend, no two neighbours are less than half full), `SearchEnds` for objects that exist, `ImplementsMap`. |
| `idlist_room` | (violation) The array is too small after it was shrunk: see 7. |
| `association` | All links, moves and unlinks with all hints and unknown ones, in associations of each type: `LinksSound` (pointers agree), `OKMeansInPlace` (what fails changes nothing; an unknown hint for the child of an n:m link that stays where the other hint says counts as none), `OtherSideKept` (an n:m link that is moved among the children of its parent keeps its place among the parents of its child, and vice versa), `ImplementsSequences` (iterating finds each child once, in the order asked for). |
| `object_tree` | Nested creation and deletion, failures, renames, links: `TreeSound` (a tree of objects that exist, with unique paths; no link to an object that is gone or going; a rename that passes the checks reaches `Ov_AbortIfNot` exactly if it moves an object with an unknown hint, and then loses that object and what is below, no more; no object stays half created), `CallsReturn`, `ImplementsHierarchy` (a failed creation leaves nothing, a deletion takes all below and no more, each with its links). |
| `ares` | Two channels and the worker: `ListAndSocketsSound` (`ListSound`: both threads only hold pointers to memory that is allocated; `SocketsHeld`: a socket has one owner, and is open as long as it is held, but for those that were closed twice), whatever breaks, is closed or deleted during a lookup, until an element is freed that is still used (`undefined`); `LookupEnds`, `Reclaimed`, `WorkerStops`. |
| `function_blocks` | Two small projects run while clients act: `ElementsCurrent` (a connection works on the objects it links now), `OutputsFollow` (no change of an input is forgotten), `PhaseKept` (neither runs nor late service move a cycle; being switched on late, or a start of the server, by one unit at most and only where a double does not hold the cycle time), `Served` (what is on, under tasks that are on, runs), `ValuesArrive` (through connections, ports and charts). |
| `setvar` | 34 kinds of variables take 39 values in any order: `HoldsLastValue`, `ReadsBack` (a value survives being written as a text), `RequestsExact` (the block is executed iff the variable changed). The conversions that break the rule are listed in `Unfaithful`, and in section 8. |
| `charts` | All commands in all states, transitions that become true and false, steps renamed: `StepsSound` (one active step in each chart, and sub-charts are active only below a step that runs them), `EntryExitPaired` (in one cycle as over many), `ImplementsMachine`. |
| `registration` | Two agents of one name, two protocols or two versions, two faults: `RegisteredIsListed` (who was told OK is in the list, whatever was lost, left over or delayed; the exception is an agent that was told OK for an entry that could not be made), `ListSettles`. |
| `connections` | Clients of ksxdr and kshttp that are patient, hasty, confused, of another version or another protocol, send requests in parts and leave at any time: `PassSound` (the pass never holds a deleted task but the two kinds that `MayVanish` names, and each living task is in the list once), `AnswersInOrder` (never out of order, twice or early; a denied request is answered at its header), `Answered` (whoever waits for an answer gets it, however long it thought between two parts, unless its request is `Stale` or `Misled`), `Reclaimed` (what was made for a client goes with it). |

Every property of a passing run catches a mutant of some definition; they are listed in `PROJECT.json`.

## 4. Bounds

Sizes, as distinct states:

| Run | Constants | States |
|---|---|---|
| `scheduler` | 2 objects, times 0..4, spans to 2, sleeps to 2, clock may be set, times may be past | 50,760 |
| `task_lifecycle` | 3 blocks, 2 events a block, 2 crashes | 38,958 |
| `idlist` | 3 nodes of 4, ids to 10, array in steps of 2, memory may be missing | 193,564 |
| `idlist_room` | the same without searches for released ids, only nodes run out | 1,830 until the violation |
| `association` | 2 parents, 4 children, 2 of them with the same name, 3 blocks for n:m links; symmetric parents and blocks | 472 |
| `object_tree` | root and 4 objects, 2 names, 2 levels; 2 objects that hold, one that is held | 361,245 |
| `ares` | 2 channels, 3 elements, 1 socket, 2 addresses | 233,967 |
| `function_blocks` | 2 tasks, 2 blocks, a chart with 2 ports, 2 connections, cycles 0, 1 and 3, 2 acts of clients | 130,206 |
| `setvar` | 34 variables, 39 values, vectors of 2, integers of 2 or 3 bits | 108,005 |
| `charts` | chart of 4 steps, sub-chart of 2, 6 transitions | 175,600 |
| `registration` | 2 agents, 1 name, 2 faults, times to 4 units, 2 requests left over | 2,019,815 |
| `connections` | 2 connections, 14 casts of clients, up to 4 requests in 1 or 2 parts | 160,843 |

The bounds are chosen by what has to be able to happen:

- `scheduler`: two objects, so that an event is moved before, behind and beside
  another one (that a move passes over several is left to the proofs, which are for any
  number); five times and spans up to 2, so that
  ties, past and future all occur. `MaxTime` bounds clock and event times: a
  request for a later time is not made. `MaxSleep` stands for the cap of the
  loop, which sets a sleep of two seconds or more to one second (the code's cap is not
  quite a minimum: a span between one and two seconds stays as it is). Objects are
  interchangeable, but the run checks liveness, hence no symmetry.
- `task_lifecycle`: three blocks, one for the UrTask and two for others, so that
  blocks are used again; a database that starts with the UrTask and one in which it is missing; two crashes, since the start after a crash gives up
  and another crash may follow it; three events per block, so that one too many is
  seen by `FlagsMatchEvents` and not cut off: `MaxEvents` is a guard of actions that
  add events.
- `idlist`: nodes of four relations instead of 512: less than half full,
  half full, three and full are then different, and with two for
  `ListChunk` (32 in the code) the array grows and shrinks. Three nodes give a first, a middle and a last one;
  eleven ids fill them. The code makes no use of
  the values of `Chunk` and `ListChunk` but that the first one is even.
- `association`: two parents and four children, two of the same name: moving a
  child within four takes it over at least one neighbour on either side. Three blocks for n:m links make lists of three on the
  one side and of two on the other; a fourth link finds no memory. A link that is moved gets
  the block it gave back, which the allocator keeps in a list of its size. Parents and blocks may be exchanged (no liveness
  is checked); children may not, for their names.
- `object_tree`: four objects below the root, two names, two levels allowed
  below the first, two children made by a constructor: a subtree can be moved
  below another, and deletion nests three deep. One of the two objects that may hold others may be held itself, by
  itself, too: links go across, up and down the tree.
- `ares`: two channels, three elements (the last one that cannot be freed, one in
  the middle, one new), two addresses for a name (one fails, one is tried next) and one socket,
  so that a number is used again at once, also between the two calls that close it, and `socket` fails.
- `function_blocks`: a loop of two blocks, where one sends and the other may
  fetch, on different cycles; and a chart with a block inside, an input and an output
  port, in place or with `intask` linked elsewhere. `MaxOps`: from each of these projects clients act
  twice, or once in the chart, on any object, between runs and ticks that go on
  for ever. `RunLength`: 12 turns empty the stack in every run of these projects (10 are
  too few for some). A cycle of three is inexact, so that one unit can be told from any other shift; `Wrap`: the scheduler is at most three units late, and a task that is further behind
  is taken to be at the same point of its cycle; cycle times divide `Wrap`.
- `setvar`: a value of each type, vectors shorter, as long as and longer than the
  static one, values out of range of each integer, negative and with fractions;
  two stamps. After a write only the last one matters, which is what lets two or
  three values of a type stand for all.
- `charts`: initial, two inner and end step; the two inner ones run the
  same sub-chart, so that it is stopped and started in one cycle; one has
  transitions to the end, back, and to nowhere. `InitSteps` and `EndSteps` are
  what clients name: an inner step, and the initial step itself.
- `registration`: a unit is five seconds, and times are shortened in
  proportion of what matters: one unit between tries (5 s in the code), 2 for a
  renewal (30 s), 3 for a pause (120 s), 2 to live (30 s), 4 to linger
  (300 s), 2 for the client's timeout (30 s); the pause and a renewal together are
  shorter than an entry lives and lingers, as in the code (`RegistrationAssumption`).
  `MaxFaults` is 2: a message is lost and its retry as well. `MaxOut`: of the requests left in a `v_outData` the last two are told apart;
  only the last one can be awaited, and one before it is enough to answer in its place.
- `connections`: two connections, each used once. Three casts have two clients (one that registers a
  server next to one that is pushed to; one with a malformed header next to one that is served; one that registers a server and one that
  unregisters it), where
  the channels, handlers and the ServerRep are neighbours in the list in every order that the
  arrivals allow; in the others each kind of client is alone, so that up to four requests in
  one or two parts can be followed to the end. Two parts are enough to be incomplete,
  complete, or complete with the beginning of the next. What the clients do not do is
  named at `ConnectionsAssumption` and `GoesOn`: fragments come at the beginning of the buffer only, with nothing denied before them
  (their recombination writes over what is there), and a client of kshttp does not go on with a request whose beginning
  the server has dropped. Denied and malformed requests stand anywhere, in one part or two, and
  a server is unregistered over any connection. The header of
  a POST is in its first part. What the push handler writes twice before it is sent counts
  once. Time passes when a channel is visited and nothing has arrived. One of the two
  sockets of the listener is modelled, and a client reads what it is sent.

## 5. Fairness

`Spec` has none; it is used wherever safety is all that is checked. Liveness uses:

- Scheduler: weak fairness of the server's steps. One thread runs
  the loop; methods return (those of the code loop over finitely many children),
  sleeps end. Clients have no fairness: they need not call.
- TaskLifecycle: weak fairness of the steps of startup and shutdown, and the
  server is started again after it exits, which is what its service manager or user
  does. Crashes are bounded by `MaxCrashes`, otherwise a server that crashes at
  each start never comes up.
- IdList, ObjectTree: weak fairness of the loop of the search and of calls in progress: sequential code.
- AresWorker: weak fairness of the worker (`getaddrinfo` and `connect` return,
  with success or not; the 10 ms sleep ends), of what the server's thread has
  begun, and strong fairness of a channel's typemethod after a lookup: the
  RootComTask calls each active ComTask again and again, but between two calls
  requests of clients may switch it off and on, so weak would not do.

- FunctionBlocks: weak fairness of the run of the UrTask when its event is due
  (what `DueEventServed` promises of the scheduler) and of the clock. Clients
  have none; they act at most `MaxOps` times.
- Registration: weak fairness of the processes that run and of time together (time
  waits for what is due, and between two ticks only finitely much can be done), and a
  manager that crashed is started again. Agents need not start, and faults need not occur.
- Connections: weak fairness of the server (`ov_runtimeserver.c` runs until it is told to stop, and
  each method returns), strong fairness of time for each connection (it passes at any visit
  of a channel that is silent, but data interrupt the silence again and again), and TCP
  gives up repeating in the end. Clients have none.

Each liveness property has a disjunct for what legitimately takes its ground
away: activities locked, the event moved or removed (`DueEventServed`), memory
lost (`SearchEnds`), no address found (`LookupEnds`), a task switched off (`Served`,
`ValuesArrive`), a name held by another version or a channel that is dead (`ListSettles`). `Reclaimed` speaks of times
when no lookup is begun any more: while new ones keep coming, the worker's pass
may go on along the ever-growing end of the list and never return to what was
marked behind it. In Connections, `Answered` leaves out a request without a body that comes after a
POST over the same connection (`Stale`) and one that comes after a denied one (`Misled`), and `Reclaimed` the handler that a push handler took the
place of (`Streamed`); all three are in section 8. AresWorker and Connections promise nothing where the program has become undefined (`undefined`, `Undefined`).

## 6. Proofs

TLAPS checks, for every value of the constants that satisfies the named
assumptions of each module (`SchedulerAssumption`, `LifecycleAssumption`, `DeclsAssumption`, `SourcesAssumption`, `IdListAssumption`, `ManyLinksAssumption`,
`AssociationAssumption`, `ObjectTreeAssumption`, `AresAssumption`, `RegistrationAssumption`, `ConnectionsAssumption`,
`ObjectsAssumption`, `ValuesAssumption`, `TimesAssumption` and `LayoutsAssumption` of FunctionBlocks; `ChartAssumption`).
They ask for values whose elements have the type they claim, finite sets of nodes, children, blocks and objects (memory ends), for numbers in the ranges
their types have, and, where it matters: chunks of an even number of ids that is 4 or more; intervals of registration that are no longer than the
slow one, with an entry that lives longer than two of them (`Period + Slow < TTL + Linger`); and clients that send requests of their own protocol, in fragments as said in section 4.
Two theorems have a hypothesis besides, each true of the run's constants, and each with what happens without it in
section 8; both are on the projects: `StepsStaySound` (`OnlyDo`: sub-charts are run as do actions) and `ChartImplementsMachine` (`SubChartsStart`: sub-charts keep a start step).

**SchedulerProofs**: `QueueIsSound`, of which `TypeCorrect`, `QueueIsOrdered`, `EventsAreUnique`,
and `ActiveMeansQueued` are the parts; `NextEventTimeIsExact`, `NeverOversleeps`, `NewcomersGoLast`,
`QueueImplementsTimers`. The inductive invariant is

    IInv == TypeOK /\ QueueOrdered /\ OneEventPerObject /\ ActiveIffQueued

None of the four is inductive alone: inserting keeps the order only in an
ordered list; `unregister` removes the first event of an object and clears the
flag, which is right only if there was just one; and that a newly registered
object has no other event is known from the flag only if flag and queue agree.
Below it lie lemmas on `InsertAt` and `RemoveAt` of sequences, on `Place` (the
index `insertevent` finds, from the well-foundedness of the naturals, since it is the
least of a set), and on what `InsertEvent`, `RemoveEvent`, `MoveEvent` and
dispatching do to order, uniqueness and membership; the step of the
invariance proof for each action then only cites these. `NextEventTimeIsExact` follows from the
invariant alone: in an ordered queue of unique objects the second event is due
within a span iff some event of an object other than the running one is, as long as the
running one's event is due already. `NeverOversleeps` rests on the end of a sleep being computed from the
head of an ordered queue with the clock of the same iteration (`SleepEnds`); `NewcomersGoLast` on what an insertion does to
the order of all others (`InsertedLast`), stated of the queue as a whole (`TakesTurns`) and
shown of every action. The refinement maps an
object that is not queued to `MaxTime + 1`, and maps every action to `Start`,
`Cancel`, `Postpone`, `Fire`, `Finish`, `Clock` or a stutter.

**TaskLifecycle** (its theorems are in SchedulerProofs, too): `NothingDangles`, `FlagsAndEventsAgree`. The inductive invariant `LifecycleInv` adds to
`NoDanglingEvent` what it rests on: there is one UrTask at most, and the process knows it or has known it (`OneUrTask`,
`CacheRight`), so that a task can be taken for it in one block only (`Forsaken`); an object under construction
has neither flags nor events unless it is there (`HalfCreated`), so that it may be freed if it fails; a task keeps the flag of
one that was taken for the UrTask only over a crash (`TasksInactive`), since an orderly shutdown clears it (`TakenRight`); and
`Progress`, which says how many events each object has before and after the loop of the startup
has visited it. `FlagsMatchEvents` is what is left of `Progress` when there is nothing more to visit.

**SetVar** (its theorems are in SchedulerProofs, the values being those of the blocks that are scheduled): `LastValueHeld`, `RequestsAreExact`,
`TextsReadBack`, for any variables, any sequence of values of any length, and any width of static vectors; integers keep the ranges of the model.
The functions of the code are not alike, and so the proof goes through all of them: what is in a variable of a type (`Domain`, which is more than
the values of that type: `BOOL`s other than 0 and 1, times with a negative fraction); that the conversion of one element ends there and
is `Faithful`, for each pair of types (`ToWhole`, `ToTruth`, `ToNumber`, `ToMoment`, `ToLength`, `ToWords`, from what casts do, `Wraps`); and that each of the
functions for a scalar, a dynamic or a static vector (`ScalarMade`, `DynvecMade`, `StaticMade`) makes a sequence of the right length
of elements that are faithful, zero where the source ends, or listed in `Unfaithful`. `HoldsLastValue` is not inductive alone: that
nothing needs to be stored when nothing differs, and that every change is noticed, is right only if a variable has no more than the comparison looks at
(`VarTyped`: a variable without state and time has no stamp, an ANY that is no PV has none either). An error that leaves the
variable half changed (`HalfStored`) must leave elements of its type (`Outcomes`), since they may be what the next write is compared with. The proof
found an exception that the values of the run do not show: a static vector of BOOLs may take a text whose number wraps to zero, and a real
number that is out of range, for FALSE. `Unfaithful` has it now.

**StateChart** (its theorems are in SchedulerProofs, charts being tasks): `ChartsStaySound`, the inductive invariant, from which `OneStepActive` and
`EntryAndExitPaired` follow for any charts, steps and transitions, any nesting of sub-charts in entry, do and exit actions, and any commands, and
`StepsStaySound` for charts that steps run as their do actions (`OnlyDo`). The invariant is `Sound(Net)`: the types; that what the last cycle performed is
paired; that each chart is `Settled`, which says that a step has begun exactly while its qualifier is DO, and is then the only one linked, with its part
`entry` off (or its entry actions would be repeated); `SubRight`, that a sub-chart is never left in BREAK or on the way to
START, and `MainRight`, that all sub-charts are on from the first reset of the main chart on (or one could not be told to stop), and nothing has begun before;
and `Owned`, that a sub-chart that runs has an owner. The proof goes along the calls. Each method leads from a net that is `Ready` to one that is, and says
what it does to its own chart (`Moved`, `Left`, `Entered`, `Calm`, `Performed`, `ChartRan`) and that all others are the `Same`, or for the main chart `Apart`.
What a method asks of the charts it executes (`RunOK`) is what `ExecChartRight` says of a chart, so the main chart follows from
its sub-charts (`SubChartsRunRight`) by the same lemmas. In the middle of a method two steps may be linked (`Leaving`) and a step may have begun
that is not the active one; that none of this remains is the matter of `LeavesRight` and of the resets. TLC had checked the parts of the invariant on
the constants of `charts`, and on others with two sub-charts and sub-charts in entry and exit actions.

`ChartImplementsMachine` is the refinement: every cycle of the main chart is a step of ChartMachine and every act of a client one of its environment, for
any chart and any actions, if its sub-charts keep a start step (`SubChartsStart`; module MCStateChart has TLC evaluate it for the run). This cannot be
dropped. `endStepName` takes the role of the start step from it if both are the same; a sub-chart that is left without one makes the reset of the
main chart fail after its steps were reset, and then the chart stands at its start step in a working state that is not done, which is no step of the machine
(TLC finds this within five steps if the start step of the sub-chart is added to `EndSteps`). A main chart without a start step is covered: that is `Lose`.
The inductive invariant is `Standing(Net)`, that is `Sound(Net)`, `SubStarts` (what `SubChartsStart` leaves of the roles) and `BetweenCycles`, how the working
state goes with its phase and qualifier and with the phase of the active step. In START that step waits for its transitions; in all others it is back in its first phase, so that
`Begin` and `Resume` stay at it for one cycle whatever its transitions say. The lemmas above say what a method preserves; those named `...Exact` add what
it makes of the main chart. `MainCycle` composes them (`Passage`), `LookFollows` splits by the working state that is performed, the `Passes...` lemmas give the
outcome (`BackAtStart`, `Arrived`, `Nowhere`, `HeldAt`, `RestsAt`), and the `...Moves` lemmas name the action of the machine. `TargetsFired` shows that
the first transition whose condition holds, which is all that the machine knows, is what the loop of the step method finds.

**IdListProofs**: `NodesStaySound`, `MapImplemented`, for any set of nodes, any chunk size and any failing allocations. The inductive
invariant is

    IInv == Types /\ Sound(chain, node, pNodes, counter, ~damaged) /\ Whole /\ Searching

`Sound` says that the nodes are in the list in the order of their numbers and in the array at these (`Numbered`), hold ascending ids
within the bounds they name, all below those of the next node, and that of two neighbours one is half full (`Kept`). The last is what `NodesSound` says too, and
all of it is needed: whether a node can be put together with its neighbour is decided by the counts, and the neighbour takes part in
another such pair afterwards. What was too strong at first: a node that could not be entered into the
array may be empty and then has a `minId` that nobody got, so `Holds` has a case for it (`damaged`). `Whole` has the permanent ids, since without one
entry there might be no first node. A search has lost nothing when it has left the list (`Searching`). The lemmas say what `splitting` and `putting
together`, which the code does by copying relations and renumbering all nodes behind, do to `Sound` and to the ids that are `KnownOf`
the list, and that bisection finds the place in the array (`BoundsNarrow`, `IndexRight`: the bounds always enclose it). The
refinement then needs only the ids: insertion adds one or none, release takes one away, no other step changes any.

**Lemmas**: numbers, sequences, iteration; then one table of pointers for any sets of parents and children, as Links has it.
`Sound(links, Parents, Children)` has the types, `AnchorsAgree`, `HeadsAgree`,
and two strengthenings: `HeadsPaired`, that a parent has a first child iff
it has a last one (without it, linking at the end of a list that has only a first
child would be a counterexample to induction), and `Acyclic`, that some rank of the children increases along `pnext`. The latter
is for n:m, where a default placement is replaced by the predecessor of the link (`Kept`), and a link that was its own
predecessor would be placed behind what was just removed, and for iterating. Lemmas state that `Unlinked` and
`Spliced` keep pointers sound (the latter for any two neighbours that are
`Adjacent`), that every placement hint yields such neighbours
(`PlaceAdjacent`), that a hint that was acceptable before the child is unlinked
is so afterwards (`LinkGoesOn`, which is why the code may compute the
placement after the unlinking), and that the child then is where the hint
says (`PlacedInPlace`). `ChildrenListed`
says what iterating yields: the children, all of them and no others. `ChildrenOf` is a recursive function; its
values are those of a walk, whose properties hold after each step (`FurtherListed`), and it does not
end before the last child because a list without cycles has no two equal elements (`ListedOnce`). There is only one such
walk (`OneList`), and `ChildrenSpliced` and `ChildrenUnlinked` say at which position of it a child is inserted or removed. The induction is over sets of
numbers (`AllNumbers`), since the theorems of the library have operators as parameters.

**AssociationProofs**: `LinksAreSound` (that is `PointersAreSound` and `LinksTypeCorrect`), `OKIsInPlace`, `EachFoundOnce`, `OtherSideStays` and
`SequencesImplemented`, for
associations of each type. The steps for 1:n rest on the lemmas on one table of pointers; those for n:m use
them twice, for parents and blocks
and for children and blocks. The inductive invariant is `Sound(links, Parents, Children)`, `ManySound(many)`
and that pairs point to each other. For n:m, `MovedIsPlaced` shows that the second call always succeeds, so that
no link is lost by moving it; the block that is given back is what makes its allocation succeed. For the refinement the lists of blocks are mapped to the
objects at their other ends (`Mapped`): each pointer operation is an insertion or a removal at one position of one such sequence and leaves
every other one alone. A move is both. `OtherSideStays` needs one fact more: a link that is taken out of a list and
inserted behind the one that was before it is at its place again (`PutBack`, `MovedBack`), also if that one was not there, because it was the first.

**ObjectTreeProofs**: `TreeIsSound`, for any finite set of objects and any depth of nested calls. `AndAbove` is
shown to be the least set that has the object and, with each one, its parent (`AboveIs`); it ends, since
a chain of more objects than there are would have one twice, and some depth decreases along it (`Rooted`). From this follow
how the sets of the objects above change when one is linked (`LinkedAbove`; the new depths after a move are those of `LinkedRooted`) or
unlinked, and that they lead to the root (`AboveLiving`). The inductive invariant adds to `TreeSound` that the objects of the calls
in progress exist and lie each below the ones before, with constructors called by constructors only (`Nested`),
so that what is freed is never the object of a call that still runs, and nothing is linked while anything is cleaned up;
and that whatever is not started up lies at or below the object of the first call (`Starting`). It holds while the server runs (`Kept`).
`AbortsOnUnknownHint` rests on `ChildrenListed`, since the
check for the name is made by iterating, once before and once after the unlinking (`MovedLinks`). After an abort the objects that are
below the lost one lead to it, and all others to the root as before (`RefusedTree`).
`HierarchyImplemented`: what clients see changes at once when the first call ends, and `Tree` holds what it was when that call began. While a
call is in progress the invariant `WhatIsSeen` relates the two. Of a creation: nothing of the remembered tree has changed, what is new
lies at or below the object of the first call, and so does one end of each new link (`Creating`). So freeing that object with all below it
restores the tree, whatever constructors did. Of a deletion: what is gone was at or below the object deleted, and only links of it are
gone (`Deleting`), since a shutdown method deletes only what is below its object. `SeenAbove` identifies the
objects above an object in both modules. TLC had checked this invariant on the constants of `object_tree` before it was proved.

**NetworkProofs** has two parts. AresWorker: `ListAndSocketsAreSound`, for any number of channels, elements, sockets and addresses, with
connections that break and channels that are closed or deleted at any time. `ListSound` and `SocketsHeld` need each other:
an element is freed only when it is marked, it is marked only by the channel that holds it, and
that channel takes the socket over in the same step. The inductive invariant makes of `ListSound` a list that is
linked both ways (`Linked`) and never returns to an element it has passed (`Acyclic`: some rank of the elements
increases along `pNext`), since an element that followed itself would be
visited after it was freed; says that nothing deleted is worked for (`WorkerRight`, `ElementsRight`),
that a lookup has one channel (`LookupsRight`), that sockets have one holder (`SocketsRight`), unless they are `struck`, that is
closed a second time after the worker was given their number, for as long as anyone names them; and what
the shutdown leaves (`StopRight`). All of this is stated until an element is freed that is still used (`undefined`), which only the deletion of a channel with a lookup and the shutdown of
the worker do. One lemma does for all steps of the worker that keep the list (`Stores`), two for
those of the server (`SocketGiven`, `ChannelKeepsSocket`); unlinking, appending and giving
back have their own.

Registration, in the same module: `RegisteredStaysListed`, `OneRequestAwaited`, for any agents, names and timings. The invariant has two parts. `OneAwaited` (what
`OneRequestAwaited` states): of the requests of an agent that wait in `out`, are under way in `wire` or wait at the manager in `buf`, and of the answers under way, at most one bears the
xid that the agent's client waits for; it is the last of all, and the agent is `WAITING`. Left-over requests and their
answers may be there in any number; they are not taken for the awaited one, since the xid differs. So an OK
that is accepted is the answer to the request that was sent last. `Promised`: an agent that is registered, or is about to be told so, has its entry, or was told OK without memory for it (`unlisted`), with no request of its own to take it away under
way, and the entry lasts longer than the time until the agent's next run (`Lasts`), for an answer still under way one `Period` longer,
since that is added when it arrives. An agent that waits runs again within `Slow`, which is where `Period + Slow < TTL + Linger` comes from. What is left
is that no other agent's request does more to the entry than renew it: one for another version of the name is refused, one that fails halfway keeps what is
listed, and one to unregister takes only its own protocol away (`RegisterProperties`, `UnregisterProperties`).

**ConnectionsProofs**: `AnswersStayInOrder`, for any clients and any connections. `DataInv` follows the parts of requests from the client over the connection and the
buffer to the answer: they are in the order in which they were sent (`Flow`), what was answered had been sent completely and is earlier than all that is kept (`InOrder`),
nothing but what a push handler writes is unsent while a channel is open (`Buffers`), and the status of a handler says what its buffer begins with
(`Status`): without that, freeing a part of the buffer might leave the rest of a request that looks like another one.

`PassStaysSound`, for any clients, too: the task that RootComTask reads before it calls a method is in the list afterwards, or is one of the two of `MayVanish`: the ServerRep, after it was asked for over one
connection to be registered and over another one to be unregistered, or the handler of a kshttp client that sent more after a malformed header. This holds because of the
order of the list, which no line of the code states: a channel comes before its handler, that before the push handler that took over, and a handler before the ServerRep that it may
unregister, if no other one may (`Agrees`, `RepRight`, together `Fits`). A channel's method deletes no task but the channel itself, its push handler, the ServerRep, and its own handler if that was given a malformed header. Between the
channel and the first two of the others stands the handler, so that neither is the task behind the channel (`SuccessorSound`, `NextStays`). While a step of the server runs, the
list fits, and what has been asked for only grows (`PassHeld`, `AskedMore`). `DataInv` is needed
again, since whether a kshttp handler deletes itself depends on its buffer; that a header may be read from the middle of a message (`Misread`) changes neither invariant, since no
request is carried out and none is answered twice. When the next task is gone, nothing more happens (`Undefined`), and both still hold.

**FunctionBlocksProofs**: `ElementsStayCurrent`, `OutputsAlwaysFollow` and `PhaseIsKept`, for any tree of finitely many tasks, blocks and charts, any
number of connections, values and clients, and any `RunLength`, so also for runs that are cut off anywhere. The inductive invariant is

    IInv == Sound(Net) /\ alive \subseteq Objects /\ OnlyOf(ins, alive) /\ OnlyOf(outs, alive) /\ event \in Int /\ now \in Int

`Sound` is stated of a net, not of a state, since a run is one step of the specification and many calls in the code: it has the types, that what a
connection has found is what it would find now (`Resolved`), and that each block follows its input (`Follows`). `Resolved` says more than `ElementsCurrent`: the
names still fit the classes of the two objects (`Consistent`). Without that, a value fetched over old elements might be one that its target
cannot hold. The deletion of an object takes it out of `alive` and its connections out of both lists in one step, so nothing is resolved to what is gone (`OnlyOf`).
Each call of a run is shown to lead from a sound net to a sound one (`Goes`), with the connections linked as they were and every task at the same
point of its cycle or without one. `Goes` is transitive, which carries it through the loops over connections and ports and through
the stack of calls (`LoopExists`, `LoopStays`: the recursive functions of the model are the results of a step done n times). The request of a block must be withdrawn
before its outputs are sent and not after, or an output connection that leads back to the block's own input would have its request lost: `Follows` may fail
only for the net in between, from which the method starts. A phase is kept since all changes of a due time are by a whole number of cycles
(`Congruent`, `CongruentNext`), and `Later` takes `Wrap` units of time, which
are a whole number of cycles of every task. The one exception is in the statement: `SetProcTimeIs` shows that what `fb_set_proctime` returns is
in the cycle (`InCycle`) or one unit behind it (`Behind`), the latter only for a late task with an inexact cycle time; `Drifts` names the two steps that can call it so.

Only model-checked: all liveness (and ENABLED), which TLAPS does not do (of FunctionBlocks this is `Served` and `ValuesArrive`).

## 7. Findings

One run ends in a counterexample, which is a disagreement of the code with its comment:

- `idlist_room` (`ov_database.c:436`): the array of nodes is enlarged at multiples
  of the chunk size ("pNodes array is full"), but a release shrinks it to the exact
  number of nodes at such a multiple, so that the next node is written behind it.

## 8. Observations without a run

Met while reading and modelling. Some can be seen with TLC by changing a
configuration, as said there.

Tasks and scheduler:

- After the UrTask was deleted, a task that gets its memory passes for it, since
  `pUrTask` still points there (`fb_database.c:247`); if its process time is set when it is created, it is
  registered twice, and if its creation fails after that, it is freed with its event still in the queue
  (`ov_class.c:604`): the exceptions of `NoDanglingEvent` and `FlagsMatchEvents`.
  An UrTask that is created anew elsewhere does not run until the next start.
- A database without an UrTask and without memory for one does not start any more (`NoRoom`, the exception of `ComesUpAgain`).
- `ov_scheduler_execnamedeventonce` calls all events that match and returns
  FALSE whatever it did (`ov_scheduler.c:353-397`).
- An UrTask that `fb_database_checkstruct` has to create is started up by
  `createobject` and again with the root object (`fb_database.c:407`): it has two events until
  the next start, is called twice as often, and one event is left behind if it is deleted.
  `FlagsMatchEvents` names this as its only exception (`missing`).

Database:

- A search for a released id that lies between two nodes walks to and fro for
  ever (`ov_database.c:280`; `AnySearchEnds` in MCIdList).
- After a failed allocation of a larger array `pNodes` is null (`ov_database.c:438`);
  the variable `damaged` of IdList marks these states.
- `ov_path.c:84` masks 16 bits of each half of a 64-bit id.
- The height of a subtree that is moved is not counted against
  `MaxHierarchyDepth` (`ov_class.c:803`; `DepthBounded` in MCObjectTree).
- A rename that moves an object with a placement hint that stands for nothing passes all checks, and the object is unlinked before
  `ov_association_link` answers `OV_ERR_BADPLACEMENT` (`ov_association.c:742`): `Ov_AbortIfNot` (`ov_class.c:847`) ends a server
  built with `OV_DEBUG`, as `AbortsOnUnknownHint` says. Without it the macro does nothing: the service answers OK,
  and the object is in no domain. What such a server does afterwards is not modelled.
- Moving a child within the same parent of an association that binds names is refused, because its own
  name is found (`ov_association.c:537`).
- Moving a link of an n:m association frees it and allocates it anew (`ov_association.c:862`). It is not lost, since the allocator
  gives the block back; `result`, which is tested in between, keeps its initial `OV_ERR_OK`. The default placement
  of the child falls through to that at the front (575): a link that is right where it is is moved and comes back (`OtherSideKept`).
- `cleanupinst` reads through a null pointer if the link table could not be allocated (`ov_class.c:873`).
- The results for the links of a creation request are allocated with the number of its
  parameters (`ovks_backend_createobject.c:298`).
- The rename service tests the pointer to a result instead of the result
  (`ovks_backend_renameobject.c:203`), so that a placement by an absolute path renames nothing and is answered with OK if
  the path can be resolved; the deletion service ignores it (`ovks_backend_deleteobject.c:124`).

Channels:

- A channel whose host name is not found stays `OPENING` (`TCPChannel.c:386`);
  xdrClient and httpClient, which open a channel only if it is not open or opening
  (`xdrClient_genericfuncs.c:113`), never open it again (`OpeningEnds` in MCAresWorker).
  In Registration this is the state "dead": such a server never registers again.
- A channel that is deleted while its lookup is pending, or after it failed,
  frees an element that the worker may still visit, with `ov_free` although it
  comes from `calloc` (`TCPChannel.c:305-312`); a shutdown of the worker frees all elements, also those that channels point to. This is
  the exception `undefined` of `ListAndSocketsSound`.
- `TCPChannel.c:454`, `:670` and `:302` close a socket that `socket_set` closes
  again; between the two the worker may have got the number for another channel, which then has a socket that is closed, or that is given to
  a third one (`struck` in `SocketsHeld`).
- When `getpeername` fails the connected socket is never closed (`TCPChannel.c:126-133`).
- `CloseConnection` does nothing to a channel that is `OPENING`: it opens afterwards.
- `v_handleValid` and the thread handle of the aresWorker survive a crash
  (`aresWorker.c:262`): the next start creates no thread, and the shutdown joins a stale handle.

Connections (the first two are the exceptions of `PassSound`, see `MayVanish`; both occur in the run):

- After a malformed header a kshttp client that sends more data has its handler deleted in
  the channel's method (`httpclienthandler.c:107`), while the pass holds it as the
  next task if the two are neighbours (`RootComTask.c:230`).
- `UNREGISTER` over another connection deletes a ServerRep (`Manager.c:211`) that may follow that
  connection's channel in the list, in the same way.
- The handler whose channel was taken over by a push handler is never deleted
  (`httpclienthandler.c:236`). That is what keeps the pass sound there: the mutant that
  deletes it violates `PassSound`.
- `contentLength` is not reset between requests (`argshandling.c:243-259`): after a POST, a GET over
  the same connection waits for a body.
- Each arrival of data handles one request: pipelined requests of ksxdr lag behind by
  as many arrivals, those of kshttp are dropped with the buffer.
- Data and FIN in one pass: the request is executed, the answer never sent (`TCPChannel.c:484`).
- `prepend_length` counts all of `v_outData`, also what was not sent before (`xdrClientHandler.c:76`).
- A denied request leaves the rest of its message in the buffer (`xdrClientHandler.c:400-419`), and the next header is read there: requests behind it are not answered, or
  answered as something else (the exception `Misled` of `Answered`).
- `unfragmentXDRmessage` cuts off what is behind the fragments.
- A channel that nobody identifies is deleted by `AssociateClientHandler` (`TCPChannel.c:882`)
  inside its own method, which goes on to use it (534). The model takes it for deleted.
- The channel leaves `AssocCurrentChannel` linked if no identificator answers (386-388).
- If the channel for an accepted connection cannot be created, its socket stays open (`TCPListener.c:464`).
- A client that does not read stops the server in `send`; `SIGPIPE` is not ignored.
- When the buffer of a request whose header was parsed is freed after 300 s, the
  length of the header is subtracted from what comes next (`httpserver_httpgenerics.c:153`).
- `ksbase.ovm:101` says that invalid data should be freed; a malformed header stays in the buffer.

Function blocks:

- The loop of `fb_task.c:159-161` stops at a time equal to the present, although
  the comment says "in the future".
- An UrTask in mode UNLINK with a cycle time keeps an event time that has passed, and
  is dispatched again and again.
- A sending connection that is switched on later delivers nothing until its source computes again.
- The next child is read before the current one is executed: if that moves the
  next one, the walk goes on in another list (`fb_task.c:446`).
- An active connection with one end linked stays on and does nothing.
- A block that is off and has no children can be deleted although it is connected.
- `fb_set_proctime` truncates microseconds: each time a task that is late is switched
  on, or the server starts, a cycle time with a fraction that doubles do not hold may
  lose one (`Drifts` in `PhaseKept`). For more than 2^31 missed cycles its conversion to an
  `OV_INT` (`fb_task.c:132`) is undefined; the model has no task that far behind.
- Any variable that a client writes requests an execution, `actimode` too.
- `ControlChart.c` tests an index with `> 0`, so that the first entry is ignored.

Values (`fb_setvar.c`; the exceptions of `HoldsLastValue` and `ReadsBack`):

- A scalar BOOL reads a BYTE through the BOOL of the union; a dynamic vector of
  BOOLs tests for BYTE_VEC where BOOL_VEC is meant; a static one casts numbers, and those that
  texts stand for, instead of comparing them with zero.
- A dynamic vector of INTs refuses every PV of another type, since it compares the type with its flags.
- Dynamic vectors of SINGLE and DOUBLE take the words of a UINT vector for reals.
- A static vector of DOUBLEs loses the seconds of a TIME_SPAN (`=` for `+=`, about line 7130), one of
  TIMEs drops its microseconds.
- A dynamic vector of TIMEs leaves the microseconds of an empty text undefined.
- "-0.5" becomes a span of plus half a second; "0:00:01.5" one of 5 microseconds;
  summer-time texts read back an hour off.
- An ANY never takes a BYTE.
- A write that fails for want of memory has stored state and time of a PV, or
  emptied texts, without requesting an execution; writing the old value then counts as no change.

State charts:

- STOP after BREAK performs no exit actions (`ssclib.h` says that STOP does), and RESET
  performs none at all.
- A transition that is true when the chart is stopped runs entry and do of its step,
  whose exit actions never follow.
- STOP in the cycle that reaches the end step leaves the chart in TERMINATE with its steps reset.
- A sub-chart that reached its end stays in TERMINATE and does not run again when its step is entered again.
- Sub-charts that entry or exit actions run are not stopped when the step is left (`step.c:189-205` looks at do actions only).
- Naming the start step as end step outside of INIT makes every reset fail, and leaves
  steps of sub-charts active. In a sub-chart it makes the resets of the main chart fail halfway: INIT and STOP are
  repeated in each cycle without looking at EN again, and after a RESET TERMINATE stands over a chart that is at its start step.
- An initial step that is named when START was already commanded is taken up one start later.
- A transition to no step leaves the chart in STOP for a cycle, and then in START without an active step.
- The constructor ignores whether its steps could be created (`SequentialStateChart.c:131`).

Registration:

- The callback adds its 30 s to a next time that was already put off by 30 s
  (`xdrManagerCom.c:697`): a server registers every 60 s with a time to live of 30 s, and is
  INACTIVE half of the time. (The entry lingers, hence `RegisteredIsListed` holds.)
- A request that was written before the connection existed stays in `v_outData` over a reset (`ClientBase.c:104-131`) and is sent when the channel opens
  (`TCPChannel.c:620-622`), with nobody waiting. The next request is appended behind it; the answer to the first one ends it with a mismatch of xids
  (`xdrClient_main.c:299-305`), although the server was registered. The length of the second message counts both (`xdrClientHandler.c:76`), which has no effect here, as the manager
  handles one request of what has arrived and the connection is closed before there is more.
- When its domain or its ServerRep's protocols cannot be stored, the manager answers OK nevertheless (`Manager.c:90-182`; the
  exception `unlisted` of `RegisteredIsListed`). A renewal that cannot store the port leaves `v_port` shorter than `v_protocols`, and later ones fail.
- `v_Tries` counts a request and its timeout: the "3 times" of line 639 are two. A pause begins one cycle late.
- A ServerRep that cannot be created leaves an empty domain under which its name can
  never register again (`Manager.c:107`).
- A protocol that is gone stays listed as long as another one renews the entry.
- Another version of a name is refused until the first one is gone.
- A shutdown while a request is pending, or without an open connection, unregisters nothing.
- The sleep of the RootComTask is estimated from the tasks executed in the same pass, not from those that were
  not due (`RootComTask.c:258`).

## 9. What is not modelled

- The walk of `--exec`, which runs once before the loop (`ov_scheduler.c:353-397`).
- The file itself and its memory pool: mapping, relocation, backup, flush. What
  survives a crash is modelled (TaskLifecycle); torn writes are not.
- Part objects.
- Memory exhaustion, but in IdList, in the allocation of n:m links, in creations, in writes of variables, in `insertGetAddrInfo` and at the manager.
- The content of messages and variables, paths, types and access rights, except
  that tasks which are on cannot be deleted.
- Function blocks: typemethods of libraries, connections to variables of tasks, the
  supervision of execution times, methods that change the tree (but `intask` and
  mode UNLINK). SetVar: static vectors of texts, rounding of SINGLE, texts that are null,
  `MaxVectorLength`, summer time.
- State charts: blocks that set variables or send commands, sub-charts of
  sub-charts, the deletion of charts that run.
- Registration: the port mapper and the connection to a manager in the same process;
  `httpManagerCom` is not modelled separately, since it has the same structure; the other
  requests of clients and their encoding.
- Connections: services that delete communication tasks by their names, a complete call that is read from the middle of other messages, fragments behind what was denied, what a service does with the database otherwise, the opening and deletion of listeners, channels whose data
  go to a DataHandler, the serial and UDP channels, the cycle times of communication tasks.
- Adapters and tools: opcua, cshmi, kshist, code generator, builder, dbutil:
  wrappers of other stacks, displays, and sequential programs that convert text.
- Windows and embedded variants of the code.

## 10. The plan

1. Done: what runs (Scheduler, TaskLifecycle, FunctionBlocks, StateChart), what
   exists and how it is linked (ObjectTree, Association, IdList), what values are (SetVar), and what
   talks to other processes (AresWorker, Registration, Connections).
2. The ask list of ksxdr over the channels of AresWorker; paths
   and the services of KS on ObjectTree; listeners that are opened and deleted at run time.
3. Part objects in ObjectTree.

The suite is kept to about a dozen runs, so that all of it can be checked after
every change; later modules take the place of runs that ask a shallower question.
