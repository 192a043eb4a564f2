---------------------------- MODULE Registration ----------------------------
(***************************************************************************)
(* How the servers of a host register at its MANAGER                       *)
(* (ksxdr/source/xdrManagerCom.c, xdrClient_*.c; ksbase/source/Manager.c,  *)
(* ServerRep.c).                                                           *)
(*                                                                         *)
(* An agent is the xdrManagerCom object of a server: it asks the manager   *)
(* over a TCP connection to be registered for a time to live, and again    *)
(* and again, waits for the answer, gives up and starts anew.  The client  *)
(* it uses for that has a state machine of its own, and so has the channel *)
(* under it, in whose v_outData requests wait for the connection, longer   *)
(* than the client waits for them.  The manager keeps a domain for each    *)
(* server name, with one ServerRep in it, and lets that expire.            *)
(*                                                                         *)
(* The RootComTask of each process runs what is due within a millisecond,  *)
(* so that time passes only when nothing is left to do; a unit of time is  *)
(* five seconds.  Faults are limited by the budget MaxFaults: crashes,     *)
(* shutdowns, broken connections, failed lookups, delays and a full pool.  *)
(* What is sent at once also arrives at once.                              *)
(***************************************************************************)
EXTENDS Integers, Sequences, SequencesExt

CONSTANTS
  Agents,     (* the xdrManagerCom objects                                 *)
  Names,      (* the server names                                          *)
  Idents,     (* who the agents may be: functions from Agents to records   *)
              (* [name, version, protocol]                                 *)
  Retry,      (* 5000 ms: first cycle, and after a failure                 *)
  Period,     (* 30 s: what the callback adds                              *)
  Slow,       (* 120000 ms: after three tries                              *)
  TTL,        (* 30 s: the time to live asked for                          *)
  Linger,     (* 300 s: how long an expired entry is kept                  *)
  ClientTimeout, (* 30 s: v_timeout of the client                          *)
  Nothing,    (* a protocol whose name could not be stored                 *)
  MaxOut,     (* bound: of the requests left in a v_outData, so many are   *)
              (* told apart                                                *)
  MaxFaults   (* bound: how many faults occur                              *)

(* The manager tells registrations apart by name, version and protocol.    *)
ASSUME RegistrationAssumption ==
  /\ {Retry, Period, Slow, TTL, Linger, ClientTimeout} \subseteq Nat \ {0}
  /\ MaxFaults \in Nat /\ MaxOut \in Nat \ {0}
  /\ Retry <= Slow /\ Period <= Slow
  /\ Period + Slow < TTL + Linger
  /\ \A id \in Idents, a \in Agents : id[a].name \in Names /\ id[a].protocol # Nothing
  /\ \A id \in Idents : IsInjective([a \in Agents |-> <<id[a].name, id[a].version, id[a].protocol>>])

VARIABLES
  ident,      (* who the agents are; never changes                         *)
  up,         (* the agents that run                                       *)
  com,        (* the agents: [state, tries, cyc, next]; next is the time   *)
              (* until NextExecTime                                        *)
  cl,         (* their clients: [state, actimode, callback, result,        *)
              (* since]; since is the time since timeLastEvent             *)
  chan,       (* ConnectionState of their channels; "dead" is OPENING with *)
              (* the channel switched off                                  *)
  out,        (* v_outData of their channels: requests, see New            *)
  wire,       (* the requests that are under way to the manager            *)
  buf,        (* what the manager has received over it and not yet handled *)
  answers,    (* what is under way back: [result, own]                     *)
  mup,        (* does the manager run?                                     *)
  servers,    (* the domains in /servers: no domain, an empty one, or one  *)
              (* with a ServerRep [version, protocols, short, left, state] *)
              (* short tells whether v_port lacks an entry; left is the    *)
              (* time until expirationtime                                 *)
  unlisted,   (* history: the agents that were told OK the last time       *)
              (* although memory was lacking for their entry               *)
  faults      (* how many faults may still occur                           *)

network == <<chan, out, wire, buf, answers>>
manager == <<mup, servers, unlisted>>
vars == <<ident, up, com, cl, network, manager, faults>>

NoDomain == [kind |-> "none"]
EmptyDomain == [kind |-> "empty"]
Rep(version, protocols, short) ==
  [kind |-> "rep", version |-> version, protocols |-> protocols, short |-> short,
   left |-> TTL, state |-> "ONLINE"]

Fault == faults > 0 /\ faults' = faults - 1

(* startup of xdrManagerCom; the NextExecTime of a new object has passed.  *)
NewCom == [state |-> "NOTREGISTERED", tries |-> 0, cyc |-> Retry, next |-> 0]

NewClient == [state |-> "INITIAL", actimode |-> 0, callback |-> FALSE,
              result |-> "OK", since |-> 0]

----------------------------------------------------------------------------
(* The client (xdrClient_main.c, _managerfuncs.c, _genericfuncs.c).        *)

(* own: its xid is the client's v_sentXID; conn: its connection is open;   *)
(* more: the next one was sent together with it.                           *)
New(what) == [what |-> what, own |-> TRUE, conn |-> TRUE, more |-> FALSE]

Foreign(requests) == [i \in DOMAIN requests |-> [requests[i] EXCEPT !.own = FALSE]]

(* What was sent over a connection arrives after it was closed, but is not *)
(* answered.  What the manager has received before waits for it.           *)
Orphaned(b, w) ==
  IF w = <<>> THEN <<>>
  ELSE [i \in 1..Len(b \o w) |->
          [(b \o w)[i] EXCEPT !.own = FALSE, !.conn = FALSE, !.more = @ \/ i <= Len(b)]]

(* Closing sets the state only if there is a socket.                       *)
Disconnect(a) ==
  /\ chan' = IF chan[a] = "OPEN" THEN [chan EXCEPT ![a] = "CLOSED"] ELSE chan
  /\ wire' = [wire EXCEPT ![a] = Orphaned(buf[a], @)]
  /\ buf' = [buf EXCEPT ![a] = <<>>]
  /\ answers' = [answers EXCEPT ![a] = <<>>]

(* A request that was not sent stays in v_outData.                         *)
Bug_Reset(a) ==
  /\ cl' = [cl EXCEPT ![a].actimode = 0, ![a].callback = FALSE]
  /\ out' = [out EXCEPT ![a] = Foreign(@)]
  /\ Disconnect(a)
Reset(a) ==
  /\ cl' = [cl EXCEPT ![a] = [NewClient EXCEPT !.since = cl[a].since]]
  /\ out' = [out EXCEPT ![a] = Foreign(@)]
  /\ Disconnect(a)

MayRequest(a) == cl[a].state \in {"COMPLETED", "INITIAL"}

(* A new request is appended behind what is there; the oldest are dropped  *)
(* beyond the bound.                                                       *)
LastOnes(requests) ==
  IF Len(requests) <= MaxOut THEN requests
  ELSE SubSeq(requests, Len(requests) - MaxOut + 1, Len(requests))

Queued(a, what) ==
  LastOnes([i \in DOMAIN out[a] |-> [out[a][i] EXCEPT !.own = FALSE, !.more = TRUE]]
           \o <<New(what)>>)

Send(a, requests, callback) ==
  /\ cl' = [cl EXCEPT ![a] = [@ EXCEPT !.state = "AWAITINGANSWER", !.actimode = 1,
                                       !.callback = callback, !.since = 0]]
  /\ wire' = [wire EXCEPT ![a] = @ \o requests]
  /\ out' = [out EXCEPT ![a] = <<>>]
  /\ UNCHANGED <<chan, buf, answers>>

(* initiateConnection leaves a connection alone that is open or opening.   *)
Await(a, requests, callback) ==
  /\ chan' = IF chan[a] \in {"OPENING", "dead"} THEN chan
             ELSE [chan EXCEPT ![a] = "OPENING"]
  /\ cl' = [cl EXCEPT ![a] =
              [@ EXCEPT !.state = "AWAITINGCONNECTION", !.actimode = 1, !.callback = callback,
                        !.since = IF chan[a] \in {"OPENING", "dead"} THEN cl[a].since ELSE 0]]
  /\ out' = [out EXCEPT ![a] = requests]
  /\ UNCHANGED <<wire, buf, answers>>

RequestRegister(a) ==
  IF ~MayRequest(a) THEN UNCHANGED <<cl, network>>
  ELSE IF chan[a] = "OPEN" THEN Send(a, Queued(a, "REGISTER"), TRUE)
  ELSE Await(a, Queued(a, "REGISTER"), TRUE)

TimedOut(a) == cl[a].since > ClientTimeout

(* The typemethod of the client.  It has something to do when the          *)
(* connection is open, the time is over or an answer was processed.        *)
ClientDue(a) ==
  /\ a \in up /\ cl[a].actimode = 1
  /\ \/ cl[a].state = "COMPLETED"
     \/ cl[a].state = "AWAITINGCONNECTION" /\ (chan[a] = "OPEN" \/ TimedOut(a))
     \/ cl[a].state = "AWAITINGANSWER" /\ TimedOut(a)

(* The channel has sent the request itself when it was opened.             *)
TrySend(a) ==
  /\ cl[a].state = "AWAITINGCONNECTION" /\ chan[a] = "OPEN"
  /\ Send(a, out[a], cl[a].callback)
  /\ UNCHANGED com

ClientTimesOut(a) ==
  /\ \/ cl[a].state = "AWAITINGCONNECTION" /\ chan[a] # "OPEN"
     \/ cl[a].state = "AWAITINGANSWER"
  /\ TimedOut(a)
  /\ cl' = [cl EXCEPT ![a].state = "ERROR", ![a].actimode = 0]
  /\ out' = IF cl[a].state = "AWAITINGCONNECTION" THEN [out EXCEPT ![a] = <<>>] ELSE out
  /\ UNCHANGED <<com, chan, wire, buf, answers>>

(* ksxdr_xdrManagercom_Callback: the next execution was already put off    *)
(* when the request was made.                                              *)
Callback(c, result) ==
  IF result = "OK"
  THEN [state |-> "REGISTERED", tries |-> 0, cyc |-> Period, next |-> c.next + Period]
  ELSE [c EXCEPT !.state = "ERROR"]

Completed(a) ==
  /\ cl[a].state = "COMPLETED"
  /\ cl' = [cl EXCEPT ![a].actimode = 0]
  /\ com' = IF cl[a].callback THEN [com EXCEPT ![a] = Callback(@, cl[a].result)] ELSE com
  /\ UNCHANGED network

ClientRun(a) ==
  /\ ClientDue(a)
  /\ TrySend(a) \/ ClientTimesOut(a) \/ Completed(a)
  /\ UNCHANGED <<ident, up, manager, faults>>

(* HandleData.  Of answers that arrive together the first one counts.  The *)
(* answer to another request than the last one, or one that is no success, *)
(* ends the request; else the data are kept for the callback, even after   *)
(* the client's timeout.                                                   *)
AnswerArrived(a) == a \in up /\ chan[a] = "OPEN" /\ answers[a] # <<>>

HandleData(a) ==
  /\ AnswerArrived(a)
  /\ LET r == Head(answers[a])
     IN  /\ cl' = [cl EXCEPT ![a] =
                     IF ~r.own \/ r.result = "SYSTEM_ERR"
                     THEN [@ EXCEPT !.state = "ERROR", !.actimode = 0]
                     ELSE [@ EXCEPT !.state = "COMPLETED", !.actimode = 1, !.result = r.result]]
         /\ out' = IF r.own THEN out ELSE [out EXCEPT ![a] = <<>>]
  /\ \E n \in 1..Len(answers[a]) :
       answers' = [answers EXCEPT ![a] = SubSeq(@, n + 1, Len(@))]
  /\ UNCHANGED <<ident, up, com, chan, wire, buf, manager, faults>>

(* The lookup and the connect of an opening connection end; the channel    *)
(* sends what is in v_outData, whoever waits for it.  If the lookup fails, *)
(* the channel is switched off, and its state is not changed.              *)
Opened(a) ==
  /\ a \in up /\ chan[a] = "OPENING"
  /\ \/ /\ mup
        /\ chan' = [chan EXCEPT ![a] = "OPEN"]
        /\ wire' = [wire EXCEPT ![a] = @ \o out[a]]
        /\ out' = [out EXCEPT ![a] = <<>>]
        /\ UNCHANGED faults
     \/ /\ ~mup
        /\ chan' = [chan EXCEPT ![a] = "COULDNOTOPEN"]
        /\ UNCHANGED <<out, wire, faults>>
     \/ /\ Fault
        /\ chan' = [chan EXCEPT ![a] = "dead"]
        /\ UNCHANGED <<out, wire>>
  /\ UNCHANGED <<ident, up, com, cl, buf, answers, manager>>

----------------------------------------------------------------------------
(* The agent.  RootComTask sets NextExecTime by the interval that held     *)
(* before the typemethod is called.                                        *)

ComDue(a) == a \in up /\ com[a].next = 0

Request(a) ==
  /\ com[a].state # "WAITING" /\ com[a].tries < 3
  /\ com' = [com EXCEPT ![a] = [state |-> "WAITING", tries |-> @.tries + 1,
                                cyc |-> Retry, next |-> @.cyc]]
  /\ RequestRegister(a)

Pause(a) ==
  /\ com[a].state # "WAITING" /\ com[a].tries >= 3
  /\ com' = [com EXCEPT ![a] = [@ EXCEPT !.tries = 0, !.cyc = Slow, !.next = com[a].cyc]]
  /\ Reset(a)

GiveUp(a) ==
  /\ com[a].state = "WAITING"
  /\ com' = [com EXCEPT ![a] = [state |-> "ERROR", tries |-> @.tries + 1,
                                cyc |-> Retry, next |-> @.cyc]]
  /\ Reset(a)

ComRun(a) ==
  /\ ComDue(a)
  /\ Request(a) \/ Pause(a) \/ GiveUp(a)
  /\ UNCHANGED <<ident, up, manager, faults>>

Start(a) ==
  /\ a \notin up
  /\ up' = up \cup {a}
  /\ com' = [com EXCEPT ![a] = NewCom]
  /\ cl' = [cl EXCEPT ![a] = NewClient]
  /\ chan' = [chan EXCEPT ![a] = "CLOSED"]
  /\ out' = [out EXCEPT ![a] = <<>>]
  /\ UNCHANGED <<ident, wire, buf, answers, manager, faults>>

(* shutdown: the request is sent if the client is free and the connection  *)
(* open; else it would have to wait for the connection, but the process    *)
(* ends, as it does in a crash.  What was sent before arrives before it.   *)
Shutdown(a) ==
  /\ Fault /\ a \in up
  /\ up' = up \ {a}
  /\ com' = [com EXCEPT ![a] = NewCom]
  /\ cl' = [cl EXCEPT ![a] = NewClient]
  /\ chan' = [chan EXCEPT ![a] = "CLOSED"]
  /\ out' = [out EXCEPT ![a] = <<>>]
  /\ \/ wire' = [wire EXCEPT ![a] = Orphaned(buf[a], @)]
     \/ /\ MayRequest(a) /\ chan[a] = "OPEN"
        /\ wire' = [wire EXCEPT ![a] = Orphaned(buf[a], @ \o Queued(a, "UNREGISTER"))]
  /\ buf' = [buf EXCEPT ![a] = <<>>]
  /\ answers' = [answers EXCEPT ![a] = <<>>]
  /\ UNCHANGED <<ident, manager>>

BreakConnection(a) ==
  /\ Fault /\ chan[a] = "OPEN"
  /\ chan' = [chan EXCEPT ![a] = "CLOSED"]
  /\ wire' = [wire EXCEPT ![a] = <<>>]
  /\ buf' = [buf EXCEPT ![a] = <<>>]
  /\ answers' = [answers EXCEPT ![a] = <<>>]
  /\ UNCHANGED <<ident, up, com, cl, out, manager>>

----------------------------------------------------------------------------
(* The manager (Manager.c).                                                *)

Entry(a) == servers[ident[a].name]

Matches(a) == Entry(a).kind = "rep" /\ Entry(a).version = ident[a].version

Lists(a) == Matches(a) /\ Contains(Entry(a).protocols, ident[a].protocol)

SetEntry(a, e) == servers' = [servers EXCEPT ![ident[a].name] = e]

Renewed(e, protocol) ==
  Rep(e.version,
      IF Contains(e.protocols, protocol) THEN e.protocols ELSE Append(e.protocols, protocol),
      e.short)

(* What a renewal leaves that fails: nothing is renewed, but a protocol    *)
(* may be appended, with or without its name, and without its port.        *)
HalfRenewed(e, protocol) ==
  {e} \cup (IF Contains(e.protocols, protocol) THEN {}
            ELSE {[e EXCEPT !.protocols = Append(@, p), !.short = TRUE] :
                    p \in {protocol, Nothing}})

(* What a first registration leaves that answers OK although the pool is   *)
(* full: no domain, or a ServerRep without protocols or without ports.     *)
Incomplete(a) ==
  {NoDomain, Rep(ident[a].version, <<>>, FALSE), Rep(ident[a].version, <<ident[a].protocol>>, TRUE)}

Granted(a) == unlisted' = unlisted \ {a}

Register(a, result) ==
  \/ /\ Entry(a).kind = "none"
     /\ \/ /\ SetEntry(a, Rep(ident[a].version, <<ident[a].protocol>>, FALSE))
           /\ result = "OK" /\ Granted(a) /\ UNCHANGED faults
        \/ \E e \in Incomplete(a) :
             /\ SetEntry(a, e)
             /\ result = "OK" /\ Fault
             /\ unlisted' = IF e.kind = "rep" /\ e.protocols # <<>>
                            THEN unlisted \ {a} ELSE unlisted \cup {a}
        \/ /\ SetEntry(a, EmptyDomain)
           /\ result = "SYSTEM_ERR" /\ Fault /\ UNCHANGED unlisted
  \/ /\ Matches(a)
     /\ SetEntry(a, Renewed(Entry(a), ident[a].protocol))
     /\ result = "OK" /\ Granted(a) /\ UNCHANGED faults
  \/ /\ Matches(a)
     /\ \/ Fault /\ \E e \in HalfRenewed(Entry(a), ident[a].protocol) : SetEntry(a, e)
        \/ Entry(a).short /\ Lists(a) /\ UNCHANGED <<servers, faults>>
     /\ result = "SYSTEM_ERR" /\ UNCHANGED unlisted
  \/ /\ Entry(a).kind # "none" /\ ~Matches(a)
     /\ result = "SYSTEM_ERR" /\ UNCHANGED <<servers, unlisted, faults>>

Bug_Unregister(a) ==
  /\ IF Matches(a) THEN SetEntry(a, NoDomain) ELSE UNCHANGED servers
  /\ UNCHANGED <<unlisted, faults>>
Unregister(a) ==
  /\ IF ~Lists(a) THEN UNCHANGED servers
     ELSE IF Len(Entry(a).protocols) = 1 THEN SetEntry(a, NoDomain)
     ELSE SetEntry(a, [Entry(a) EXCEPT !.protocols = RemoveFirst(@, ident[a].protocol)])
  /\ UNCHANGED <<unlisted, faults>>

(* The method of the channel at the manager: what arrived is received, and *)
(* one request is handled.  The others wait until more arrives, over the   *)
(* same connection.                                                        *)
Together(w, n) == ~w[n].more /\ \A i \in 1..n : w[i].conn = w[1].conn

Arrived(b, w, n) == (IF w[1].conn THEN b ELSE <<>>) \o SubSeq(w, 1, n)

Answer(a, request, result) ==
  answers' = IF Head(wire[a]).conn
             THEN [answers EXCEPT ![a] = Append(@, [result |-> result, own |-> request.own])]
             ELSE answers

(* A manager without a Manager object says so.                             *)
Serve(a, request) ==
  \/ /\ request.what = "REGISTER"
     /\ \E result \in {"OK", "SYSTEM_ERR"} : Register(a, result) /\ Answer(a, request, result)
  \/ /\ request.what = "REGISTER" /\ Fault
     /\ Answer(a, request, "NOMANAGER") /\ UNCHANGED <<servers, unlisted>>
  \/ /\ request.what = "UNREGISTER"
     /\ Unregister(a) /\ UNCHANGED answers

Handle(a) ==
  /\ mup /\ wire[a] # <<>>
  /\ \E n \in 1..Len(wire[a]) :
       /\ Together(wire[a], n)
       /\ wire' = [wire EXCEPT ![a] = SubSeq(@, n + 1, Len(@))]
       /\ LET requests == Arrived(buf[a], wire[a], n)
          IN  /\ buf' = IF wire[a][1].conn THEN [buf EXCEPT ![a] = Tail(requests)] ELSE buf
              /\ Serve(a, Head(requests))
  /\ UNCHANGED <<ident, up, com, cl, chan, out, mup>>

(* The typemethod of a ServerRep.                                          *)
RepDue(n) ==
  /\ mup /\ servers[n].kind = "rep"
  /\ servers[n].left < 0 /\ (servers[n].state = "ONLINE" \/ servers[n].left < -Linger)

RepRun(n) ==
  /\ RepDue(n)
  /\ servers' = [servers EXCEPT ![n] =
                   IF @.left < -Linger THEN NoDomain ELSE [@ EXCEPT !.state = "INACTIVE"]]
  /\ UNCHANGED <<ident, up, com, cl, network, mup, unlisted, faults>>

(* The entries are in the database, which outlives the process.            *)
ManagerCrash ==
  /\ Fault /\ mup
  /\ mup' = FALSE
  /\ chan' = [a \in Agents |-> IF chan[a] = "OPEN" THEN "CLOSED" ELSE chan[a]]
  /\ wire' = [a \in Agents |-> <<>>]
  /\ buf' = [a \in Agents |-> <<>>]
  /\ answers' = [a \in Agents |-> <<>>]
  /\ UNCHANGED <<ident, up, com, cl, out, servers, unlisted>>

ManagerStart ==
  /\ ~mup
  /\ mup' = TRUE
  /\ UNCHANGED <<ident, up, com, cl, network, servers, unlisted, faults>>

----------------------------------------------------------------------------
(* Time.                                                                   *)

LocalWork ==
  \/ \E a \in Agents : ComDue(a) \/ ClientDue(a)
  \/ \E n \in Names : RepDue(n)

RemoteWork ==
  \E a \in Agents :
    (a \in up /\ chan[a] = "OPENING") \/ AnswerArrived(a) \/ (mup /\ wire[a] # <<>>)

Older(e) ==
  IF e.kind = "rep" THEN [e EXCEPT !.left = Max({@ - 1, -Linger - 1})] ELSE e

(* A lookup or a message that takes long is a fault.                       *)
Tick ==
  /\ ~LocalWork
  /\ IF RemoteWork THEN Fault ELSE UNCHANGED faults
  /\ com' = [a \in Agents |-> IF a \in up THEN [com[a] EXCEPT !.next = @ - 1] ELSE com[a]]
  /\ cl' = [a \in Agents |->
              IF cl[a].state \in {"AWAITINGCONNECTION", "AWAITINGANSWER"}
              THEN [cl[a] EXCEPT !.since = Min({@ + 1, ClientTimeout + 1})]
              ELSE cl[a]]
  /\ servers' = [n \in Names |-> Older(servers[n])]
  /\ UNCHANGED <<ident, up, network, mup, unlisted>>

----------------------------------------------------------------------------
Init ==
  /\ ident \in Idents
  /\ up = {}
  /\ com = [a \in Agents |-> NewCom]
  /\ cl = [a \in Agents |-> NewClient]
  /\ chan = [a \in Agents |-> "CLOSED"]
  /\ out = [a \in Agents |-> <<>>]
  /\ wire = [a \in Agents |-> <<>>]
  /\ buf = [a \in Agents |-> <<>>]
  /\ answers = [a \in Agents |-> <<>>]
  /\ mup = TRUE
  /\ servers = [n \in Names |-> NoDomain]
  /\ unlisted = {}
  /\ faults = MaxFaults

Agent(a) == ComRun(a) \/ ClientRun(a) \/ HandleData(a) \/ Opened(a)

Manager == (\E a \in Agents : Handle(a)) \/ (\E n \in Names : RepRun(n))

Work == (\E a \in Agents : Agent(a)) \/ Manager \/ Tick

Environment ==
  \/ \E a \in Agents : Start(a) \/ Shutdown(a) \/ BreakConnection(a)
  \/ ManagerCrash \/ ManagerStart

Next == Work \/ Environment

Spec == Init /\ [][Next]_vars

(* The processes go on, and so does time.  It is enough that one of them   *)
(* does: between two ticks only finitely much can be done, and time waits  *)
(* for that.  A manager is started again; an agent need not be.            *)
Fairness == WF_vars(Work) /\ WF_vars(ManagerStart)

FairSpec == Spec /\ Fairness

----------------------------------------------------------------------------
(* An agent that believes it is registered is listed by the manager, with  *)
(* its version and its protocol: the entry outlives the time to the next   *)
(* registration, whatever was lost, left over or delayed before, and       *)
(* nobody else's unregistering takes it away.  The exception is an agent   *)
(* that the manager answered OK without memory for its entry.              *)
RegisteredIsListed ==
  \A a \in up : com[a].state = "REGISTERED" => Lists(a) \/ a \in unlisted

(* What a registration depends on beside the agent itself: that the name   *)
(* is not held by a server of another version or by the empty domain that  *)
(* a full pool left behind, and that the channel is not switched off.      *)
Claims(a, b) == ident[a].name = ident[b].name /\ ident[a].version # ident[b].version

Obstructed(a) ==
  \/ chan[a] = "dead"
  \/ Entry(a).kind = "empty"
  \/ \E b \in Agents \ {a} : Claims(a, b) /\ (b \in up \/ (Entry(a).kind = "rep" /\ ~Matches(a)))

(* Another agent of the same server keeps the entry alive.                 *)
Kept(a) == \E b \in up : ident[b].name = ident[a].name /\ ident[b].version = ident[a].version

(* In the end the list is right for good, through crashes of the manager,  *)
(* broken connections, late answers and pauses: an agent that runs is      *)
(* listed, and the entry of one that is gone has gone as well.             *)
ListSettles ==
  <>[](\A a \in Agents : IF a \in up THEN Lists(a) \/ Obstructed(a)
                                     ELSE ~Lists(a) \/ Kept(a))
=============================================================================
