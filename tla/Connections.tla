---------------------------- MODULE Connections ----------------------------
(***************************************************************************)
(* How a server serves the connections of its clients: RootComTask, the    *)
(* TCPListener, its TCPChannels, and the client handlers of ksxdr and      *)
(* kshttp (ksbase/source/RootComTask.c, ComTask.c, ClientHandler.c,        *)
(* TCPbind/source/TCPListener.c, TCPChannel.c, ksxdr/source/               *)
(* xdrClientHandler.c, kshttp/source/httpclienthandler.c,                  *)
(* service_getvarpush.c).                                                  *)
(*                                                                         *)
(* All of them are communication tasks in one list.  RootComTask passes    *)
(* along that list for ever and runs the method of each active task; what  *)
(* a method does, creating and deleting tasks included, is one step.  The  *)
(* model ends when the task to be visited next was deleted meanwhile: what *)
(* the program does then is undefined.                                     *)
(*                                                                         *)
(* Clients connect, send requests part by part, and leave in between by a  *)
(* FIN, a RST or without a word.                                           *)
(*                                                                         *)
(* Each connection is used once.  One of the two sockets of the listener   *)
(* is modelled.  A client reads what it is sent, so that send() takes      *)
(* everything.  Services that delete tasks by their names are not          *)
(* modelled, except that the entry of a server is unregistered.            *)
(***************************************************************************)
EXTENDS Integers, Sequences, FiniteSets, SequencesExt

CONSTANTS
  Conns,      (* the connections                                           *)
  Cases,      (* who the clients may be: functions from Conns to records   *)
              (* [protocol, polite, requests]; a request is a record       *)
              (* [kind, parts, frag]: it is sent in so many parts, which   *)
              (* may be fragments of the RPC record; a client without      *)
              (* requests does not connect                                 *)
  Nil

Answerable ==
  {"service", "denied", "register", "unregister", "get", "post", "close", "stream"}

KindsOf(protocol) ==
  CASE protocol = "ksxdr"  -> {"service", "denied", "invalid", "register", "unregister"}
    [] protocol = "kshttp" -> {"get", "post", "close", "stream", "bad"}
    [] OTHER               -> {"alien"}

(* A bound on the clients: fragments are sent at the beginning of the      *)
(* buffer only, where nothing is left behind that was denied.              *)
ASSUME ConnectionsAssumption ==
  \A c \in Cases, k \in Conns : LET rs == c[k].requests IN
    /\ rs \in Seq([kind : KindsOf(c[k].protocol), parts : 1..2, frag : BOOLEAN])
    /\ \A r \in DOMAIN rs : rs[r].frag =>
         r = 1 \/ (c[k].polite /\ \A i \in 1..r - 1 : rs[i].kind # "denied")

VARIABLES
  plan,       (* who the clients are; never changes                        *)
  net,        (* the clients' ends: "new", "up", "fin", "rst" or "cut"     *)
  lost,       (* was anything sent into a connection that is cut?          *)
  sent,       (* the last part the clients have sent: <<request, part>>    *)
  wire,       (* the parts that have arrived and are not yet received      *)
  got,        (* the requests whose answers the clients have               *)
  tasks,      (* AssocComTaskList                                          *)
  at,         (* childTask: the task that is visited next                  *)
  chan,       (* the channels, see NoChannel                               *)
  hand,       (* the handlers made for them: "none", "linked", "unlinked", *)
              (* "doomed" (unlinked, with actimode 1) or "gone"            *)
  http        (* [status, length] of a kshttp handler: its                 *)
              (* CommunicationStatus, and whether contentLength # 0        *)

clients == <<net, lost, sent>>
vars == <<plan, net, lost, sent, wire, got, tasks, at, chan, hand, http>>

(* Time since LastReceiveTime, and timeouts, are in levels: 1 for          *)
(* v_timeoutIncomplete (2 s), 2 for the ConnectionTimeOut of a new channel *)
(* (60 s), 3 for UnusedDataTimeOut and the connectionTimeout of ksxdr      *)
(* (300 s), 4 for TTL_AFTER_ASSOC (1200 s).                                *)
Incomplete == 1
Unassociated == 2
Unused == 3
Associated == 4

(* state: ConnectionState; in: the data of v_inData; rd: how many parts of *)
(* it are before readPT, or rest: readPT is inside the last of them; out:  *)
(* v_outData, as requests answered and 0 for what answers none, as what    *)
(* the push handler writes; quiet, limit: see above; closing:              *)
(* CloseAfterSend; handler: whose HandleRequest is called.                 *)
NoChannel == [state |-> "none", in |-> <<>>, rd |-> 0, rest |-> FALSE, out |-> <<>>, quiet |-> 0,
              limit |-> Unassociated, closing |-> FALSE, handler |-> "none"]
Deleted == [NoChannel EXCEPT !.state = "gone"]

Channel(k) == <<"channel", k>>
Handler(k) == <<"handler", k>>
Push(k) == <<"push", k>>
Listener == <<"listener", Nil>>
ServerRep == <<"rep", Nil>>

Request(k, r) == plan[k].requests[r]
NextPart(k) ==
  LET r == sent[k][1] IN
  IF sent[k][2] < Request(k, r).parts THEN <<r, sent[k][2] + 1>> ELSE <<r + 1, 1>>

Init ==
  /\ plan \in Cases
  /\ net = [k \in Conns |-> "new"]
  /\ lost = [k \in Conns |-> FALSE]
  /\ sent = [k \in Conns |-> <<1, 0>>]
  /\ wire = [k \in Conns |-> <<>>]
  /\ got = [k \in Conns |-> <<>>]
  /\ tasks = <<Listener>>
  /\ at = Listener
  /\ chan = [k \in Conns |-> NoChannel]
  /\ hand = [k \in Conns |-> "none"]
  /\ http = [k \in Conns |-> [status |-> "INITIAL", length |-> FALSE]]

----------------------------------------------------------------------------
(* The clients and the network.                                            *)

server == <<tasks, at, chan, hand, http>>

Connect(k) ==
  /\ net[k] = "new" /\ plan[k].requests # <<>>
  /\ net' = [net EXCEPT ![k] = "up"]
  /\ UNCHANGED <<plan, lost, sent, wire, got, server>>

(* Bound: a client of kshttp does not go on with a request whose beginning *)
(* the server has dropped.                                                 *)
GoesOn(k, r, p) ==
  /\ p = 2 /\ plan[k].protocol = "kshttp" => Contains(wire[k] \o chan[k].in, <<r, 1>>)
  /\ http[k].status = "HEADERPARSED" => chan[k].in # <<>>

(* A polite client sends a request when it has the answer to the one       *)
(* before.                                                                 *)
SendPart(k) ==
  /\ net[k] = "up" /\ chan[k].state # "gone"
  /\ LET part == NextPart(k)
     IN  /\ part[1] \in DOMAIN plan[k].requests
         /\ GoesOn(k, part[1], part[2])
         /\ plan[k].polite /\ part[2] = 1 /\ part[1] > 1 => Contains(got[k], part[1] - 1)
         /\ wire' = [wire EXCEPT ![k] = Append(@, part)]
  /\ sent' = [sent EXCEPT ![k] = NextPart(k)]
  /\ UNCHANGED <<plan, net, lost, got, server>>

(* A reset may overtake what has arrived before.                           *)
Leave(k) ==
  /\ net[k] = "up" /\ chan[k].state # "gone"
  /\ \E how \in {"fin", "rst", "cut"} : net' = [net EXCEPT ![k] = how]
  /\ wire' \in {wire} \cup (IF net'[k] = "rst" THEN {[wire EXCEPT ![k] = <<>>]} ELSE {})
  /\ UNCHANGED <<plan, lost, sent, got, server>>

(* TCP gives up repeating what is not acknowledged.                        *)
GiveUp(k) ==
  /\ net[k] = "cut" /\ lost[k]
  /\ net' = [net EXCEPT ![k] = "rst"]
  /\ UNCHANGED <<plan, lost, sent, wire, got, server>>

(* Time passes while nothing has arrived that is not received: RootComTask *)
(* visits the channel every millisecond.  It matters when it does so.      *)
Later(k) ==
  /\ at = Channel(k)
  /\ chan[k].state \in {"open", "closed"} /\ wire[k] = <<>>
  /\ \E q \in {chan[k].limit, Unused} :
       /\ q > chan[k].quiet
       /\ chan' = [chan EXCEPT ![k].quiet = q]
  /\ UNCHANGED <<plan, clients, wire, got, tasks, at, hand, http>>

----------------------------------------------------------------------------
(* The pass of RootComTask.  The task to visit next is read before the     *)
(* method of the current one is called, and no server step is left if it   *)
(* is deleted there; after the last one the pass begins anew.  The         *)
(* listener is the first task and stays.                                   *)
Successor(t) ==
  LET i == CHOOSE i \in DOMAIN tasks : tasks[i] = t
  IN  IF i = Len(tasks) THEN Head(tasks) ELSE tasks[i + 1]

Visit(t) ==
  /\ at = t /\ Contains(tasks, t)
  /\ at' = Successor(t)

(* accept() takes one connection, whatever has become of it.               *)
VisitListener ==
  /\ Visit(Listener)
  /\ LET pending == {k \in Conns : net[k] # "new" /\ chan[k].state = "none"}
     IN  IF pending = {} THEN UNCHANGED <<tasks, chan>>
         ELSE \E k \in pending :
                /\ tasks' = Append(tasks, Channel(k))
                /\ chan' = [chan EXCEPT ![k].state = "open"]
  /\ UNCHANGED <<plan, clients, wire, got, hand, http>>

(* A handler is active only after its channel was shut down; its method    *)
(* deletes it.                                                             *)
VisitHandler(k) ==
  /\ Visit(Handler(k))
  /\ IF hand[k] = "doomed"
     THEN tasks' = RemoveFirst(tasks, Handler(k)) /\ hand' = [hand EXCEPT ![k] = "gone"]
     ELSE UNCHANGED <<tasks, hand>>
  /\ UNCHANGED <<plan, clients, wire, got, chan, http>>

(* The method of the push handler: the values may have changed since the   *)
(* last time.  What answers no request, written twice before it is sent,   *)
(* counts once.                                                            *)
Noted(c) == [c EXCEPT !.out = IF Contains(@, 0) THEN @ ELSE Append(@, 0)]

VisitPush(k) ==
  /\ Visit(Push(k))
  /\ chan' \in {chan, [chan EXCEPT ![k] = Noted(@)]}
  /\ UNCHANGED <<plan, clients, wire, got, tasks, hand, http>>

(* A ServerRep may have expired long ago.                                  *)
VisitServerRep ==
  /\ Visit(ServerRep)
  /\ tasks' \in {tasks, RemoveFirst(tasks, ServerRep)}
  /\ UNCHANGED <<plan, clients, wire, got, chan, hand, http>>

----------------------------------------------------------------------------
(* The method of a channel.                                                *)

(* Ov_DeleteObject of a channel, which takes the push handler below it     *)
(* along; its shutdown switches a linked handler on.                       *)
Bug_DeleteChannel(k, ts, hs) ==
  /\ tasks' = RemoveFirst(RemoveFirst(ts, Channel(k)), Push(k))
  /\ chan' = [chan EXCEPT ![k] = Deleted]
  /\ hand' = [hs EXCEPT ![k] = IF @ = "linked" THEN "unlinked" ELSE @]
  /\ wire' = [wire EXCEPT ![k] = <<>>]
DeleteChannel(k, ts, hs) ==
  /\ tasks' = RemoveFirst(RemoveFirst(ts, Channel(k)), Push(k))
  /\ chan' = [chan EXCEPT ![k] = Deleted]
  /\ hand' = [hs EXCEPT ![k] = IF @ = "linked" THEN "doomed" ELSE @]
  /\ wire' = [wire EXCEPT ![k] = <<>>]

Keep(k, c) ==
  /\ chan' = [chan EXCEPT ![k] = c]
  /\ UNCHANGED <<tasks, hand, wire>>

(* TCPbind_TCPChannel_SendData.                                            *)
Deliver(k, c) ==
  /\ got' = IF c.state = "open" /\ net[k] = "up"
            THEN [got EXCEPT ![k] = @ \o RemoveFirst(c.out, 0)] ELSE got
  /\ lost' = IF c.state = "open" /\ net[k] = "cut" /\ c.out # <<>>
             THEN [lost EXCEPT ![k] = TRUE] ELSE lost
Flushed(c) == [c EXCEPT !.out = IF c.state = "open" THEN <<>> ELSE @, !.quiet = 0]

Emptied(c) == [c EXCEPT !.in = <<>>, !.rd = 0, !.rest = FALSE]

TimeOut(k, c) ==
  IF c.quiet >= c.limit THEN DeleteChannel(k, tasks, hand)
  ELSE Keep(k, IF c.quiet >= Unused THEN Emptied(c) ELSE c)

Closed(c) == [c EXCEPT !.state = "closed", !.limit = Unused]

(* recv() fails: what was received before in this call is not handled.     *)
ReceiveReset(k) ==
  /\ Visit(Channel(k)) /\ chan[k].state = "open" /\ net[k] = "rst"
  /\ LET c == [chan[k] EXCEPT !.in = @ \o wire[k]]
     IN  IF c.in = <<>> THEN DeleteChannel(k, tasks, hand)
         ELSE /\ chan' = [chan EXCEPT ![k] = Closed(c)]
              /\ wire' = [wire EXCEPT ![k] = <<>>]
              /\ UNCHANGED <<tasks, hand>>
  /\ UNCHANGED <<plan, clients, got, http>>

(* recv() returns 0.                                                       *)
ReceiveEnd(k) ==
  /\ Visit(Channel(k)) /\ chan[k].state = "open" /\ net[k] = "fin" /\ wire[k] = <<>>
  /\ LET c == Closed(chan[k])
     IN  IF c.in = <<>> THEN DeleteChannel(k, tasks, hand)
         ELSE TimeOut(k, IF c.out # <<>> THEN Flushed(c) ELSE c)
  /\ UNCHANGED <<plan, clients, got, http>>

(* There is nothing to receive, but perhaps something to send.             *)
ReceiveNothing(k) ==
  /\ Visit(Channel(k)) /\ chan[k].state = "open" /\ net[k] \in {"up", "cut"} /\ wire[k] = <<>>
  /\ IF chan[k].out # <<>>
     THEN /\ Deliver(k, chan[k])
          /\ IF chan[k].closing THEN DeleteChannel(k, tasks, hand)
             ELSE TimeOut(k, Flushed(chan[k]))
     ELSE UNCHANGED <<got, lost>> /\ TimeOut(k, chan[k])
  /\ UNCHANGED <<plan, net, sent, http>>

NotOpen(k) ==
  /\ Visit(Channel(k)) /\ chan[k].state = "closed"
  /\ IF chan[k].in = <<>> THEN DeleteChannel(k, tasks, hand)
     ELSE TimeOut(k, Closed(chan[k]))
  /\ UNCHANGED <<plan, clients, got, http>>

----------------------------------------------------------------------------
(* Requests.  HandleRequest gives what may become of the channel c and of  *)
(* the state h of the kshttp handler, and the effect on the list of tasks. *)

Done(c, h, effect) == [c |-> c, h |-> h, effect |-> effect]
Answer(c, r) == [c EXCEPT !.out = Append(@, r)]

Denied(c, r) == Answer([c EXCEPT !.rd = @ + 1, !.rest = TRUE], r)

(* Where a message that was denied or dropped goes on, a header is read    *)
(* nevertheless.  It is too short or no call, the header of something      *)
(* incomplete, or denied as well, and readPT is 28 bytes further on, which *)
(* may be the beginning of a message again.  (That a complete call is read *)
(* out of the middle of other messages is not modelled.)                   *)
AtMessage(c) == ~c.rest /\ c.in[c.rd + 1][2] = 1
FurtherOn(c) ==
  LET places == {p \in (c.rd..Len(c.in)) \X BOOLEAN : c.rest \/ p[1] > c.rd}
  IN  {[c EXCEPT !.rd = p[1], !.rest = p[2]] : p \in places}

Misread(c, h) ==
  {Done([Emptied(c) EXCEPT !.out = <<>>], h, "failed"),
   Done([c EXCEPT !.limit = Incomplete], h, "none")}
  \cup {Done(Noted(d), h, "none") : d \in FurtherOn(c)}

(* bufferHoldsCompleteRequest, for the message that begins at readPT.      *)
HoldsComplete(k, c) ==
  Len(c.in) - c.rd >= Request(k, c.in[c.rd + 1][1]).parts

(* A message is consumed, and the buffer is freed when nothing is behind   *)
(* it.  Putting fragments together cuts off what is.                       *)
Bug_Consume(c, n, frag) == IF c.rd + n = Len(c.in) THEN Emptied(c) ELSE c
Consume(c, n, frag) ==
  LET t == IF frag THEN SubSeq(c.in, 1, c.rd + n) ELSE c.in
  IN  IF c.rd + n = Len(t) THEN Emptied(c) ELSE [c EXCEPT !.in = t, !.rd = c.rd + n]

(* ksxdr: one request of what has arrived.  An unknown version is answered *)
(* when the header is read; the rest of that message stays behind.         *)
XdrRequest(k, c, h) ==
  LET r == c.in[c.rd + 1][1]
      q == Request(k, r)
  IN  IF q.kind = "invalid" THEN Done([Emptied(c) EXCEPT !.out = <<>>], h, "failed")
      ELSE IF q.kind = "denied" THEN Done(Denied(c, r), h, "none")
      ELSE IF ~HoldsComplete(k, c) THEN Done([c EXCEPT !.limit = Incomplete], h, "none")
      ELSE Done(Answer(Consume([c EXCEPT !.limit = Unused], q.parts, q.frag), r), h, q.kind)

(* kshttp: the header of a POST is in its first part.  The length of its   *)
(* body stays with the handler, which waits for a body of later requests.  *)
Malformed(q) == q.kind = "bad"
HasLength(h, q) == h.length \/ q.kind = "post"
HeaderIn(c, q) == q.kind = "post" \/ Len(c.in) >= q.parts
BodyIn(c, q, length) ==
  ~length \/ Len(c.in) >= (IF q.kind = "post" THEN q.parts ELSE q.parts + 1)

(* Everything received is freed with the request.  After a stream request  *)
(* the channel belongs to the push handler.                                *)
Bug_HttpAnswer(c, r, q, length) ==
  Done([Answer(c, r) EXCEPT !.closing = q.kind = "close",
                            !.handler = IF q.kind = "stream" THEN "push" ELSE @],
       [status |-> IF q.kind \in {"close", "stream"} THEN "SHUTDOWN" ELSE "INITIAL",
        length |-> length], q.kind)
HttpAnswer(c, r, q, length) ==
  Done([Answer(Emptied(c), r) EXCEPT !.closing = q.kind = "close",
                                     !.handler = IF q.kind = "stream" THEN "push" ELSE @],
       [status |-> IF q.kind \in {"close", "stream"} THEN "SHUTDOWN" ELSE "INITIAL",
        length |-> length], q.kind)

HttpRequest(k, c, h) ==
  LET r == c.in[1][1]
      q == Request(k, r)
      length == HasLength(h, q)
  IN  IF h.status = "SHUTDOWN" THEN Done(c, h, "unhandled")
      ELSE IF h.status = "INITIAL" /\ ~HeaderIn(c, q) THEN Done(c, h, "none")
      ELSE IF h.status = "INITIAL" /\ Malformed(q)
           THEN Done(c, [h EXCEPT !.status = "SHUTDOWN"], "none")
      ELSE IF ~BodyIn(c, q, length)
           THEN Done(c, [status |-> "HEADERPARSED", length |-> length], "none")
      ELSE HttpAnswer(c, r, q, length)

HandleRequest(k, c) ==
  IF c.handler = "push" THEN {Done(c, http[k], "none")}
  ELSE IF plan[k].protocol # "ksxdr" THEN {HttpRequest(k, c, http[k])}
  ELSE IF AtMessage(c) THEN {XdrRequest(k, c, http[k])}
  ELSE Misread(c, http[k])

(* What a request does to the list of tasks ts and the handlers hs.  The   *)
(* push handler takes the place of the handler, which is left alone.       *)
Registered(ts) == IF Contains(ts, ServerRep) THEN ts ELSE Append(ts, ServerRep)
Unregistered(ts) == RemoveFirst(ts, ServerRep)

Bug_Streaming(k, ts, hs) ==
  [ts |-> Append(RemoveFirst(ts, Handler(k)), Push(k)), hs |-> [hs EXCEPT ![k] = "gone"]]
Streaming(k, ts, hs) ==
  [ts |-> Append(ts, Push(k)), hs |-> [hs EXCEPT ![k] = "unlinked"]]

Effect(k, effect, ts, hs) ==
  CASE effect = "register" -> [ts |-> Registered(ts), hs |-> hs]
    [] effect = "unregister" -> [ts |-> Unregistered(ts), hs |-> hs]
    [] effect = "stream" -> Streaming(k, ts, hs)
    [] effect = "unhandled" -> [ts |-> RemoveFirst(ts, Handler(k)), hs |-> [hs EXCEPT ![k] = "gone"]]
    [] OTHER -> [ts |-> ts, hs |-> hs]

(* AssociateClientHandler asks all identificators; if none knows the       *)
(* protocol, the channel is deleted.  The handler is a task as well.       *)
Identified(k) == plan[k].protocol # "alien"
Unknown(k) == chan[k].handler = "none" /\ ~Identified(k)
Orphan(k) == chan[k].handler = "own" /\ hand[k] = "gone"

Associate(k) ==
  IF chan[k].handler # "none" THEN [ts |-> tasks, hs |-> hand]
  ELSE [ts |-> Append(tasks, Handler(k)), hs |-> [hand EXCEPT ![k] = "linked"]]

Bug_Received(k) ==
  LET c == [chan[k] EXCEPT !.in = wire[k], !.rd = 0, !.quiet = 0]
      e == IF net[k] = "fin" THEN Closed(c) ELSE c
  IN  IF c.handler = "none" THEN [e EXCEPT !.handler = "own", !.limit = Associated] ELSE e
Received(k) ==
  LET c == [chan[k] EXCEPT !.in = @ \o wire[k], !.quiet = 0]
      e == IF net[k] = "fin" THEN Closed(c) ELSE c
  IN  IF c.handler = "none" THEN [e EXCEPT !.handler = "own", !.limit = Associated] ELSE e

HandleData(k) ==
  /\ Visit(Channel(k)) /\ chan[k].state = "open" /\ net[k] # "rst" /\ wire[k] # <<>>
  /\ IF Unknown(k) \/ Orphan(k)
     THEN DeleteChannel(k, tasks, hand) /\ UNCHANGED <<got, lost, http>>
     ELSE \E d \in HandleRequest(k, Received(k)) :
          LET new == Associate(k)
              e == Effect(k, d.effect, new.ts, new.hs)
          IN  /\ http' = [http EXCEPT ![k] = d.h]
              /\ IF d.effect = "failed" THEN UNCHANGED <<got, lost>> ELSE Deliver(k, d.c)
              /\ IF d.c.closing /\ d.c.state = "open" THEN DeleteChannel(k, e.ts, e.hs)
                 ELSE /\ chan' = [chan EXCEPT ![k] =
                                     IF d.effect = "failed" THEN d.c ELSE Flushed(d.c)]
                      /\ tasks' = e.ts /\ hand' = e.hs
                      /\ wire' = [wire EXCEPT ![k] = <<>>]
  /\ UNCHANGED <<plan, net, sent>>

VisitChannel(k) ==
  ReceiveReset(k) \/ ReceiveEnd(k) \/ ReceiveNothing(k) \/ NotOpen(k) \/ HandleData(k)

----------------------------------------------------------------------------
Server ==
  \/ VisitListener \/ VisitServerRep
  \/ \E k \in Conns : VisitChannel(k) \/ VisitHandler(k) \/ VisitPush(k)

Clients == \E k \in Conns : Connect(k) \/ SendPart(k) \/ Leave(k)

Network == \E k \in Conns : GiveUp(k) \/ Later(k)

(* The program reads a task that does not exist any more.                  *)
Undefined == ~Contains(tasks, at)

Next == Server \/ Clients \/ Network \/ (Undefined /\ UNCHANGED vars)

Spec == Init /\ [][Next]_vars

(* The server runs, time passes, and TCP gives up in the end.  Clients     *)
(* need not do anything.                                                   *)
Fairness ==
  /\ WF_vars(Server)
  /\ \A k \in Conns : SF_vars(Later(k))
  /\ WF_vars(\E k \in Conns : GiveUp(k))

FairSpec == Spec /\ Fairness

----------------------------------------------------------------------------
AllSent(k, r) ==
  r < sent[k][1] \/ (r = sent[k][1] /\ sent[k][2] = Request(k, r).parts)

Asked(k, kind) ==
  \E r \in DOMAIN plan[k].requests : Request(k, r).kind = kind /\ AllSent(k, r)

(* The two tasks that a method deletes though RootComTask may have read    *)
(* them before: the entry of a server that was registered over another     *)
(* connection, and the handler of kshttp that gets more data after a       *)
(* header it could not parse.                                              *)
MayVanish(t) ==
  \/ t = ServerRep /\ \E j, k \in Conns : j # k /\ Asked(j, "register") /\ Asked(k, "unregister")
  \/ \E k \in Conns :
       /\ t = Handler(k) /\ hand[k] = "gone"
       /\ \E r \in DOMAIN plan[k].requests : Request(k, r).kind = "bad" /\ r < sent[k][1]

(* The task read before the method of the current one is called is there   *)
(* afterwards, whether channels are deleted with their push handlers,      *)
(* handlers after their channels, or entries that expire, unless it is one *)
(* of the two above.  The list holds each living task once.                *)
PassSound ==
  /\ Contains(tasks, at) \/ MayVanish(at)
  /\ IsInjective(tasks)
  /\ \A k \in Conns :
       /\ chan[k].state \in {"open", "closed"} <=> Contains(tasks, Channel(k))
       /\ hand[k] \in {"linked", "unlinked", "doomed"} <=> Contains(tasks, Handler(k))
       /\ Contains(tasks, Push(k)) => chan[k].handler = "push"

(* Answers come in the order of the requests, at most one for each, and    *)
(* none before the last part of its request was sent (before the first, if *)
(* it is denied), however the parts arrive, are kept, dropped, misread or  *)
(* followed by further requests.                                           *)
Due(k, r) ==
  AllSent(k, r) \/ (Request(k, r).kind = "denied" /\ r = sent[k][1] /\ sent[k][2] > 0)

AnswersInOrder ==
  \A k \in Conns :
    /\ \A i, j \in DOMAIN got[k] : i < j => got[k][i] < got[k][j]
    /\ \A i \in DOMAIN got[k] : Due(k, got[k][i])

(* A request that needs no body but follows one that had one, and a        *)
(* request behind one that was denied, the rest of which is in the buffer. *)
Stale(k, r) ==
  Request(k, r).kind # "post" /\ \E i \in 1..r - 1 : Request(k, i).kind = "post"
Misled(k, r) == \E i \in 1..r - 1 : Request(k, i).kind = "denied"

(* A client that sends one request after the other gets an answer to every *)
(* request it has sent completely, unless it leaves, whatever the other    *)
(* clients do and however long it has waited between two parts or          *)
(* requests: no timeout overtakes a request that has arrived.  The         *)
(* exceptions are a request without a body after a POST, a request behind  *)
(* a denied one, and that the program gets undefined.                      *)
Waiting(k) ==
  /\ plan[k].polite /\ net[k] = "up"
  /\ \E r \in DOMAIN plan[k].requests :
       /\ AllSent(k, r) /\ ~Contains(got[k], r)
       /\ Request(k, r).kind \in Answerable /\ ~Stale(k, r) /\ ~Misled(k, r)

Answered == \A k \in Conns : Waiting(k) ~> ~Waiting(k) \/ Undefined

(* What was made for a client that has gone, goes as well: the channel,    *)
(* the push handler and the handler, unless the program gets undefined.    *)
(* The exception is a handler whose place was taken by a push handler,     *)
(* which stays for ever.                                                   *)
Streamed(k) == \E r \in DOMAIN plan[k].requests : Request(k, r).kind = "stream"

Reclaimed ==
  \A k \in Conns :
    net[k] \in {"fin", "rst", "cut"} ~>
      \/ Undefined
      \/ \A t \in {Channel(k), Push(k), Handler(k)} :
           Contains(tasks, t) => t = Handler(k) /\ Streamed(k)
=============================================================================
