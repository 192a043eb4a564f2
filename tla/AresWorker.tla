----------------------------- MODULE AresWorker -----------------------------
(***************************************************************************)
(* How the TCP channels of clients are opened and closed                   *)
(* (syslibs/TCPbind/source/TCPChannel.c) with the help of a thread of its  *)
(* own that resolves addresses and connects (aresWorker.c).                *)
(*                                                                         *)
(* The server's thread appends elements with lookups to a doubly linked    *)
(* list; the worker walks along it again and again, does what is waiting,  *)
(* and unlinks and frees what is to be deleted.  There is no lock.  The    *)
(* worker never unlinks the last element, so the list has a dummy to begin *)
(* with, and the one store that both threads look at is that of pNext of   *)
(* the last element.  A step is what happens between two such accesses;    *)
(* the stores of a thread are seen in their order, as on x86.              *)
(*                                                                         *)
(* Sockets are small numbers that the kernel gives out again once they are *)
(* closed.  Sending and receiving is left out but for what it does to the  *)
(* state of a channel; so are the channels that a listener accepts, and    *)
(* those of the manager and the ask list of ksxdr.                         *)
(*                                                                         *)
(* A channel may be deleted, and the worker stopped, at any time: the code *)
(* then frees an element of the list that is still used, and from there on *)
(* its behaviour is undefined.  This is where the model ends (undefined).  *)
(***************************************************************************)
EXTENDS Integers, FiniteSets, FiniteSetsExt

CONSTANTS
  Channels,  (* the TCPChannels                                            *)
  Elems,     (* the memory for elements of the list                        *)
  Nil,       (* the null pointer                                           *)
  MaxSocket, (* sockets are numbered from 1 on                             *)
  MaxAddrs   (* getaddrinfo gives no more addresses                        *)

ASSUME AresAssumption ==
  /\ Nil \notin Elems \cup Channels
  /\ Elems # {}
  /\ MaxSocket \in Nat
  /\ MaxAddrs \in Nat \ {0}

VARIABLES
  elem,       (* the elements                                              *)
  pFirstElem,
  pLastElem,
  run,        (* runWorkerThread                                           *)
  worker,     (* where the worker is                                       *)
  pCurrElem,  (* its local variables                                       *)
  pNextElem,
  left,       (* and the addresses it has not tried yet                    *)
  channel,    (* the channels                                              *)
  server,     (* where the server's thread is                              *)
  busy,       (* the channel it is there for                               *)
  open,       (* the sockets that the kernel has open                      *)
  struck,     (* history: those closed while they were another one's, till *)
              (* no one names them any more                                *)
  undefined   (* history: has an element been freed that is still used?    *)

theList    == <<elem, pFirstElem, pLastElem>>
theWorker  == <<run, worker, pCurrElem, pNextElem, left>>
theServer  == <<channel, server, busy>>
theHistory == <<struck, undefined>>
aresVars   == <<elem, pFirstElem, pLastElem, run, worker, pCurrElem, pNextElem,
                left, channel, server, busy, open, struck, undefined>>

Invalid == -1
Socket  == 1..MaxSocket

Element ==
  [status : {"FREED", "WAITING", "WORKING", "DONE"}, delete : BOOLEAN, failed : BOOLEAN,
   socket : {Invalid, 0} \cup Socket, pPrevious : Elems \cup {Nil}, pNext : Elems \cup {Nil}]

Channel ==
  [state : {"CLOSED", "OPENING", "OPEN", "COULDNOTOPEN", "SENDERROR"},
   socket : {Invalid} \cup Socket, addrInfoReq : Elems \cup {Nil}, actimode : BOOLEAN]

(* An element as calloc gives it, with its place in the list.              *)
Calloc(status, previous) ==
  [status |-> status, delete |-> FALSE, failed |-> FALSE, socket |-> 0,
   pPrevious |-> previous, pNext |-> Nil]

Freed == Calloc("FREED", Nil)

Allocated == {e \in Elems : elem[e].status # "FREED"}

(* Who names a socket as its own: a lookup, and later its channel, till it  *)
(* has been closed (the first time).                                       *)
Holders(s) ==
  {e \in Allocated : elem[e].socket = s /\ ~elem[e].delete}
    \cup {c \in Channels : channel[c].socket = s /\ ~(server = "closing" /\ busy = c)}

Looking == \E e \in Elems : elem[e].status \in {"WAITING", "WORKING"}

----------------------------------------------------------------------------
(* The worker's thread.                                                    *)

WorkerStep == UNCHANGED <<run, theServer, pLastElem, undefined>>

Bug_PassNeverEnds ==  (* the flag is not looked at                         *)
  /\ WorkerStep
  /\ worker = "sleep"
  /\ worker' = "visit" /\ pCurrElem' = pFirstElem
  /\ UNCHANGED <<elem, pFirstElem, pNextElem, left, open, struck>>
StartPass ==
  /\ WorkerStep
  /\ worker = "sleep"
  /\ IF run THEN worker' = "visit" /\ pCurrElem' = pFirstElem
            ELSE worker' = "ended" /\ UNCHANGED pCurrElem
  /\ UNCHANGED <<elem, pFirstElem, pNextElem, left, open, struck>>

(* The next element is noted before anything is done to this one.          *)
Visit ==
  /\ WorkerStep
  /\ worker = "visit"
  /\ pNextElem' = elem[pCurrElem].pNext
  /\ IF elem[pCurrElem].status = "WAITING"
     THEN worker' = "resolve" /\ elem' = [elem EXCEPT ![pCurrElem].status = "WORKING"]
     ELSE worker' = "check" /\ UNCHANGED elem
  /\ UNCHANGED <<pFirstElem, pCurrElem, left, open, struck>>

Resolve ==
  /\ WorkerStep
  /\ worker = "resolve"
  /\ \/ /\ elem' = [elem EXCEPT ![pCurrElem].failed = TRUE, ![pCurrElem].status = "DONE"]
        /\ worker' = "check"
        /\ UNCHANGED left
     \/ /\ left' \in 1..MaxAddrs
        /\ worker' = "socket"
        /\ UNCHANGED elem
  /\ UNCHANGED <<pFirstElem, pCurrElem, pNextElem, open, struck>>

(* An address was of no use: try the next one, or be done.                 *)
NoConnection ==
  /\ left' = left - 1
  /\ worker' = IF left = 1 THEN "check" ELSE "socket"
  /\ elem' = [elem EXCEPT ![pCurrElem].socket = Invalid,
                          ![pCurrElem].status = IF left = 1 THEN "DONE" ELSE @]

CreateSocket ==
  /\ WorkerStep
  /\ worker = "socket"
  /\ IF Socket \subseteq open
     THEN NoConnection /\ UNCHANGED <<open, struck>>
     ELSE LET s == Min(Socket \ open)
          IN  /\ open' = open \cup {s}
              /\ struck' = IF Holders(s) = {} THEN struck \ {s} ELSE struck
              /\ elem' = [elem EXCEPT ![pCurrElem].socket = s]
              /\ worker' = "connect"
              /\ UNCHANGED left
  /\ UNCHANGED <<pFirstElem, pCurrElem, pNextElem>>

Connect ==
  /\ WorkerStep
  /\ worker = "connect"
  /\ elem' = [elem EXCEPT ![pCurrElem].status = "DONE"]
  /\ left' = 0
  /\ worker' = "check"
  /\ UNCHANGED <<pFirstElem, pCurrElem, pNextElem, open, struck>>

Bug_ConnectFailsKeepsSocket ==  (* the socket is closed, but still named   *)
  /\ WorkerStep
  /\ worker = "connect"
  /\ open' = open \ {elem[pCurrElem].socket}
  /\ left' = left - 1
  /\ worker' = IF left = 1 THEN "check" ELSE "socket"
  /\ elem' = [elem EXCEPT ![pCurrElem].status = IF left = 1 THEN "DONE" ELSE @]
  /\ UNCHANGED <<pFirstElem, pCurrElem, pNextElem, struck>>
Bug_ConnectFailsNotDone ==  (* the status stays                            *)
  /\ WorkerStep
  /\ worker = "connect"
  /\ open' = open \ {elem[pCurrElem].socket}
  /\ left' = left - 1
  /\ worker' = IF left = 1 THEN "check" ELSE "socket"
  /\ elem' = [elem EXCEPT ![pCurrElem].socket = Invalid]
  /\ UNCHANGED <<pFirstElem, pCurrElem, pNextElem, struck>>
ConnectFails ==
  /\ WorkerStep
  /\ worker = "connect"
  /\ open' = open \ {elem[pCurrElem].socket}
  /\ NoConnection
  /\ UNCHANGED <<pFirstElem, pCurrElem, pNextElem, struck>>

(* The element is unlinked and freed, unless it is the last one.           *)
Unlinked(x) ==
  [e \in Elems |->
     CASE e = pCurrElem   -> Freed
       [] e = x.pPrevious -> [elem[e] EXCEPT !.pNext = x.pNext]
       [] e = x.pNext     -> [elem[e] EXCEPT !.pPrevious = x.pPrevious]
       [] OTHER           -> elem[e]]

Deletes(x) == x.delete /\ x.pNext # Nil

Bug_CheckFromNew ==  (* the last element is told by what was noted before  *)
  /\ WorkerStep
  /\ worker = "check"
  /\ LET x == elem[pCurrElem]
     IN  IF x.delete
         THEN /\ elem' = Unlinked(x)
              /\ pFirstElem' = IF x.pPrevious = Nil THEN x.pNext ELSE pFirstElem
         ELSE UNCHANGED <<elem, pFirstElem>>
  /\ pCurrElem' = pNextElem
  /\ worker' = IF pNextElem = Nil THEN "sleep" ELSE "visit"
  /\ UNCHANGED <<pNextElem, left, open, struck>>
Bug_CheckOnlyInMiddle ==  (* the first element is never deleted            *)
  /\ WorkerStep
  /\ worker = "check"
  /\ LET x == elem[pCurrElem]
     IN  IF Deletes(x) /\ x.pPrevious # Nil
         THEN elem' = Unlinked(x)
         ELSE UNCHANGED elem
  /\ pCurrElem' = pNextElem
  /\ worker' = IF pNextElem = Nil THEN "sleep" ELSE "visit"
  /\ UNCHANGED <<pFirstElem, pNextElem, left, open, struck>>
CheckDelete ==
  /\ WorkerStep
  /\ worker = "check"
  /\ LET x == elem[pCurrElem]
     IN  IF Deletes(x)
         THEN /\ elem' = Unlinked(x)
              /\ pFirstElem' = IF x.pPrevious = Nil THEN x.pNext ELSE pFirstElem
         ELSE UNCHANGED <<elem, pFirstElem>>
  /\ pCurrElem' = pNextElem
  /\ worker' = IF pNextElem = Nil THEN "sleep" ELSE "visit"
  /\ UNCHANGED <<pNextElem, left, open, struck>>

----------------------------------------------------------------------------
(* The server's thread: calls of clients and of the RootComTask.           *)

ServerFree == server = "free" /\ UNCHANGED theWorker

(* v_socket set to Invalid: socket_set closes the one that was there.      *)
SocketClosed(c) == open \ {channel[c].socket}

Closed(x) == [x EXCEPT !.socket = Invalid,
                       !.state = IF x.socket = Invalid THEN @ ELSE "CLOSED"]

CloseConnection(c) ==
  /\ ServerFree /\ UNCHANGED theHistory
  /\ open' = SocketClosed(c)
  /\ channel' = [channel EXCEPT ![c] = Closed(@)]
  /\ UNCHANGED <<theList, server, busy>>

(* xdrClient and httpClient leave a channel alone that is open or being    *)
(* opened.                                                                 *)
MayOpen(c) == channel[c].state \notin {"OPEN", "OPENING"}

(* OpenConnection and insertGetAddrInfo.  The store of pLastElem may come  *)
(* later than that of pNext: only the server's thread looks at it.         *)
OpenConnection(c) ==
  /\ ServerFree /\ UNCHANGED theHistory
  /\ MayOpen(c)
  /\ pLastElem # Nil
  /\ open' = SocketClosed(c)
  /\ \E e \in Elems \ Allocated :
       /\ elem' = [elem EXCEPT ![e] = Calloc("WAITING", pLastElem), ![pLastElem].pNext = e]
       /\ pLastElem' = e
       /\ channel' = [channel EXCEPT ![c] = [state |-> "OPENING", socket |-> Invalid,
                                             addrInfoReq |-> e, actimode |-> TRUE]]
  /\ UNCHANGED <<pFirstElem, server, busy>>

(* After the shutdown of the worker, or without memory.                    *)
InsertFails(c) ==
  /\ ServerFree /\ UNCHANGED theHistory
  /\ MayOpen(c)
  /\ pLastElem = Nil \/ Allocated = Elems
  /\ open' = SocketClosed(c)
  /\ channel' = [channel EXCEPT ![c] = [Closed(@) EXCEPT !.state = "COULDNOTOPEN", !.addrInfoReq = Nil]]
  /\ UNCHANGED <<theList, server, busy>>

(* The typemethod of a channel, called while v_actimode is 1.  It looks at *)
(* the element once the lookup is done.                                    *)
LookupDone(c) ==
  /\ ServerFree /\ UNCHANGED theHistory
  /\ channel[c].actimode
  /\ channel[c].state = "OPENING"
  /\ elem[channel[c].addrInfoReq].status = "DONE"

(* No address was found: this is not tried again.                          *)
LookupFailed(c) ==
  /\ LookupDone(c)
  /\ elem[channel[c].addrInfoReq].failed
  /\ channel' = [channel EXCEPT ![c].actimode = FALSE]
  /\ UNCHANGED <<theList, server, busy, open>>

(* OpenConnection_afterAddrinfo: none of the addresses could be connected  *)
(* to, or the peer has gone already (the socket stays open then).          *)
ConnectFailed(c) ==
  LET e == channel[c].addrInfoReq
  IN  /\ LookupDone(c)
      /\ ~elem[e].failed
      /\ channel' = [channel EXCEPT ![c].state = "COULDNOTOPEN", ![c].addrInfoReq = Nil,
                                    ![c].actimode = FALSE]
      /\ elem' = [elem EXCEPT ![e].delete = TRUE]
      /\ UNCHANGED <<pFirstElem, pLastElem, server, busy, open>>

(* The connection is open, and the same call goes on to receive.  (The     *)
(* number may have been closed and given out again: getpeername tells only *)
(* that it is open.)                                                       *)
Connected(c) ==
  LET e == channel[c].addrInfoReq
  IN  /\ LookupDone(c)
      /\ ~elem[e].failed /\ elem[e].socket \in open
      /\ channel' = [channel EXCEPT ![c].state = "OPEN", ![c].addrInfoReq = Nil,
                                    ![c].socket = elem[e].socket]
      /\ elem' = [elem EXCEPT ![e].delete = TRUE]
      /\ server' = "receiving" /\ busy' = c
      /\ UNCHANGED <<pFirstElem, pLastElem, open>>

Receiving(c) ==
  /\ UNCHANGED <<theWorker, theList, theHistory>>
  /\ \/ server = "free" /\ channel[c].actimode /\ channel[c].state = "OPEN"
     \/ server = "receiving" /\ busy = c

ReceiveData(c) ==
  /\ Receiving(c)
  /\ server' = "free" /\ busy' = Nil
  /\ UNCHANGED <<channel, open>>

PeerCloses(c) ==
  /\ Receiving(c)
  /\ channel[c].socket \in open
  /\ open' = SocketClosed(c)
  /\ channel' = [channel EXCEPT ![c] = Closed(@)]
  /\ server' = "free" /\ busy' = Nil

(* recv fails, or nothing has been received for too long: the socket is    *)
(* closed, and then closed once more in socket_set.  Between the two the   *)
(* worker may be given its number, and loses its socket then.              *)
Break(c) ==
  /\ Receiving(c)
  /\ open' = SocketClosed(c)
  /\ server' = "closing" /\ busy' = c
  /\ UNCHANGED channel

CloseAgain ==
  /\ server = "closing"
  /\ open' = SocketClosed(busy)
  /\ struck' = struck \cup (open \cap {channel[busy].socket})
  /\ channel' = [channel EXCEPT ![busy] = Closed(@)]
  /\ server' = "free" /\ busy' = Nil
  /\ UNCHANGED <<theWorker, theList, undefined>>

(* SendData fails in send, or in select.                                   *)
SendFails(c) ==
  /\ ServerFree /\ UNCHANGED theHistory
  /\ channel[c].state = "OPEN"
  /\ \E s \in {"SENDERROR", "CLOSED"} : channel' = [channel EXCEPT ![c].state = s]
  /\ UNCHANGED <<theList, server, busy, open>>

(* The channel is shut down and deleted; another one takes its place.  The *)
(* socket is closed twice, and the element of its lookup is freed, which   *)
(* is still linked and may be the one that is worked for.                  *)
Delete(c) ==
  /\ ServerFree
  /\ undefined' = (channel[c].addrInfoReq # Nil)
  /\ elem' = [e \in Elems |-> IF e = channel[c].addrInfoReq THEN Freed ELSE elem[e]]
  /\ IF channel[c].socket = Invalid
     THEN /\ channel' = [channel EXCEPT ![c] = [state |-> "CLOSED", socket |-> Invalid,
                                                addrInfoReq |-> Nil, actimode |-> FALSE]]
          /\ UNCHANGED <<server, busy, open>>
     ELSE /\ channel' = [channel EXCEPT ![c].addrInfoReq = Nil, ![c].actimode = FALSE]
          /\ open' = SocketClosed(c)
          /\ server' = "closing" /\ busy' = c
  /\ UNCHANGED <<pFirstElem, pLastElem, struck>>

(* The aresWorker is shut down: the server's thread waits for the worker   *)
(* and then frees the list.                                                *)
StopWorker ==
  /\ server = "free"
  /\ run
  /\ run' = FALSE
  /\ server' = "joining"
  /\ UNCHANGED <<theList, worker, pCurrElem, pNextElem, left, channel, busy, open, theHistory>>

(* A channel that still waits for its lookup, or has not taken its outcome *)
(* over, keeps a pointer to what is freed.                                 *)
Joined ==
  /\ server = "joining"
  /\ worker = "ended"
  /\ undefined' = \E c \in Channels : channel[c].addrInfoReq # Nil
  /\ elem' = [e \in Elems |-> Freed]
  /\ pFirstElem' = Nil /\ pLastElem' = Nil
  /\ server' = "free"
  /\ UNCHANGED <<theWorker, channel, busy, open, struck>>

----------------------------------------------------------------------------
(* The aresWorker has been started up, with a dummy element.               *)
Dummy == CHOOSE e \in Elems : TRUE

AresInit ==
  /\ elem = [e \in Elems |-> IF e = Dummy THEN [Calloc("DONE", Nil) EXCEPT !.delete = TRUE]
                                          ELSE Freed]
  /\ pFirstElem = Dummy /\ pLastElem = Dummy
  /\ run = TRUE
  /\ worker = "sleep" /\ pCurrElem = Nil /\ pNextElem = Nil /\ left = 0
  /\ channel = [c \in Channels |-> [state |-> "CLOSED", socket |-> Invalid,
                                 addrInfoReq |-> Nil, actimode |-> FALSE]]
  /\ server = "free" /\ busy = Nil
  /\ open = {}
  /\ struck = {} /\ undefined = FALSE

Worker ==
  /\ ~undefined
  /\ StartPass \/ Visit \/ Resolve \/ CreateSocket \/ Connect \/ ConnectFails \/ CheckDelete

AfterLookup(c) == ~undefined /\ (LookupFailed(c) \/ ConnectFailed(c) \/ Connected(c))

(* What the server's thread has begun it brings to an end.                 *)
Return ==
  /\ ~undefined
  /\ CloseAgain \/ Joined \/ (server = "receiving" /\ \E c \in Channels : ReceiveData(c))

(* What is done from outside at any time.                                  *)
Calls(c) ==
  \/ CloseConnection(c) \/ OpenConnection(c) \/ InsertFails(c) \/ SendFails(c) \/ Delete(c)
  \/ PeerCloses(c) \/ Break(c)

AresNext ==
  \/ Worker \/ Return \/ \E c \in Channels : AfterLookup(c)
  \/ ~undefined /\ (StopWorker \/ \E c \in Channels : Calls(c))
  \/ undefined /\ UNCHANGED aresVars

AresSpec == AresInit /\ [][AresNext]_aresVars

(* The worker's thread goes on (getaddrinfo and connect return), so does   *)
(* the server's, and the RootComTask calls each active channel again and   *)
(* again, whatever else the server's thread does in between.               *)
AresFairSpec ==
  /\ AresSpec
  /\ WF_aresVars(Worker)
  /\ WF_aresVars(Return)
  /\ \A c \in Channels : SF_aresVars(AfterLookup(c))

----------------------------------------------------------------------------
TypeOK ==
  /\ elem \in [Elems -> Element]
  /\ pFirstElem \in Elems \cup {Nil} /\ pLastElem \in Elems \cup {Nil}
  /\ run \in BOOLEAN
  /\ worker \in {"sleep", "visit", "resolve", "socket", "connect", "check", "ended"}
  /\ pCurrElem \in Elems \cup {Nil} /\ pNextElem \in Elems \cup {Nil}
  /\ left \in 0..MaxAddrs
  /\ channel \in [Channels -> Channel]
  /\ \A c \in Channels : channel[c].state = "OPENING" => channel[c].addrInfoReq # Nil
  /\ server \in {"free", "receiving", "closing", "joining"}
  /\ busy \in Channels \cup {Nil}
  /\ open \in SUBSET Socket /\ struck \in SUBSET Socket
  /\ undefined \in BOOLEAN

(* "Last element is never deleted, so the pointer is always valid": the    *)
(* list is sound although two threads work on it without a lock, and       *)
(* neither of them holds a pointer to an element that has been freed.      *)
ListSound ==
  /\ TypeOK
  /\ pLastElem # Nil => {pFirstElem, pLastElem} \subseteq Allocated
  /\ \A e \in Allocated :
       /\ elem[e].pNext = Nil <=> e = pLastElem
       /\ elem[e].pPrevious = Nil <=> e = pFirstElem
       /\ elem[e].pNext # Nil => /\ elem[e].pNext \in Allocated
                                 /\ elem[elem[e].pNext].pPrevious = e
  /\ worker \notin {"sleep", "ended"} => pCurrElem \in Allocated
  /\ worker \in {"resolve", "socket", "connect", "check"} =>
       pNextElem \in {Nil, elem[pCurrElem].pNext}
  /\ \A c \in Channels : channel[c].addrInfoReq \in Allocated \cup {Nil}

(* A socket that the worker has connected goes to one channel, and stays   *)
(* open until that channel closes it.  The exceptions are those numbers    *)
(* that were closed for the second time when the worker had been given     *)
(* them anew, as long as someone names them.                               *)
SocketsHeld ==
  \A s \in Socket \ struck :
    Cardinality(Holders(s)) <= 1 /\ (Holders(s) # {} => s \in open)

(* What two threads without a lock depend on: the list and the sockets,    *)
(* whatever breaks or is deleted while lookups are under way.  The         *)
(* exception is named by undefined: a channel was deleted, or the worker   *)
(* stopped, before the channel had taken the outcome of its lookup over.   *)
ListAndSocketsSound == undefined \/ (ListSound /\ SocketsHeld)

(* A lookup comes to an end: the channel does not stay OPENING, unless no  *)
(* address was found, or the list was destroyed.                           *)
LookupEnds ==
  \A c \in Channels :
    (channel[c].state = "OPENING") ~>
       \/ channel[c].state # "OPENING" \/ undefined
       \/ elem[channel[c].addrInfoReq].failed

(* Clients open a channel "if there is no connection (open or opening)":   *)
(* so it must not stay OPENING for ever.  The code does not have this      *)
(* property when the address is not found.                                 *)
OpeningEnds ==
  \A c \in Channels : (channel[c].state = "OPENING") ~> (channel[c].state # "OPENING")

(* "Deletion is scheduled, not done yet": once no lookup is begun any more *)
(* all elements that are to be deleted are freed, but for the last one.    *)
(* While lookups keep coming a pass may go on for ever, and leave what has *)
(* been marked behind it.  (Nothing is said of a list that was destroyed.) *)
Reclaimed ==
  <>[]~Looking =>
    <>[](undefined \/ \A e \in Allocated : elem[e].delete => elem[e].pNext = Nil)

(* The shutdown of the aresWorker does not wait for ever, whatever is      *)
(* under way when it begins.                                               *)
WorkerStops == (server = "joining") ~> (server = "free")
=============================================================================
