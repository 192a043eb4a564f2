--------------------------- MODULE NetworkProofs ---------------------------
(***************************************************************************)
(* Theorems about the two ends of the TCP binding: the channels of clients *)
(* with the worker that opens them (AresWorker), and the registration of   *)
(* servers over such channels (Registration), which each is a              *)
(* specification of its own.                                               *)
(***************************************************************************)
EXTENDS AresWorker, Registration, SequenceTheorems, FiniteSetTheorems, WellFoundedInduction, TLAPS

----------------------------------------------------------------------------
(* AresWorker.  The list of lookups and the sockets stay sound although    *)
(* two threads work on them without a lock: for any number of channels,    *)
(* elements, sockets and addresses, whatever breaks and is deleted while   *)
(* lookups are under way, till an element is freed that is still used.     *)

(* The list is doubly linked: ListSound says this of pNext, and unlinking  *)
(* also needs it of pPrevious.                                             *)
Link(e) ==
  /\ elem[e].pNext = Nil <=> e = pLastElem
  /\ elem[e].pPrevious = Nil <=> e = pFirstElem
  /\ elem[e].pNext # Nil =>
       elem[e].pNext \in Allocated /\ elem[elem[e].pNext].pPrevious = e
  /\ elem[e].pPrevious # Nil =>
       elem[e].pPrevious \in Allocated /\ elem[elem[e].pPrevious].pNext = e

Linked ==
  /\ pLastElem # Nil => {pFirstElem, pLastElem} \subseteq Allocated
  /\ \A e \in Allocated : Link(e)

(* Following pNext never comes back: otherwise an element could be its own *)
(* successor, and the worker would go on to what it has just freed.        *)
Ascends(rank) ==
  \A e \in Allocated : elem[e].pNext # Nil => rank[e] < rank[elem[e].pNext]

Acyclic == \E rank \in [Elems -> Int] : Ascends(rank)

(* The worker holds an element that is allocated and the one behind it,    *)
(* unless that is newer than its look.  While it works for an element this *)
(* is neither deleted nor done, and has a socket when it connects.         *)
Working == worker \in {"resolve", "socket", "connect"}

WorkerRight ==
  /\ worker \notin {"sleep", "ended"} => pCurrElem \in Allocated
  /\ Working \/ worker = "check" => pNextElem \in {Nil, elem[pCurrElem].pNext}
  /\ Working => elem[pCurrElem].status = "WORKING"
  /\ worker = "socket" => elem[pCurrElem].socket \notin Socket /\ left # 0
  /\ worker = "connect" => elem[pCurrElem].socket \in Socket /\ left # 0

(* What is waiting or worked for has not been deleted; what waits or is    *)
(* being resolved has no socket yet, and what is done has one, or none was *)
(* connected to.                                                           *)
ElementsRight ==
  /\ \A e \in Elems : elem[e].status \in {"WAITING", "WORKING"} => ~elem[e].delete
  /\ \A e \in Elems : elem[e].status = "WAITING" => elem[e].socket = 0
  /\ worker = "resolve" => elem[pCurrElem].socket = 0
  /\ \A e \in Elems :
       elem[e].status = "DONE" /\ ~elem[e].delete => elem[e].failed \/ elem[e].socket # 0

(* A lookup belongs to one channel, and is not deleted before it gives it  *)
(* back; a channel that is OPENING has no socket.                          *)
LookupsRight ==
  /\ \A c \in Channels :
       channel[c].addrInfoReq # Nil =>
         channel[c].addrInfoReq \in Allocated /\ ~elem[channel[c].addrInfoReq].delete
  /\ \A c, d \in Channels :
       channel[c].addrInfoReq # Nil /\ channel[c].addrInfoReq = channel[d].addrInfoReq => c = d
  /\ \A c \in Channels : channel[c].state = "OPENING" => channel[c].socket = Invalid

(* Sockets have one holder and are open, but for those that were struck.   *)
HasSocket(e) == e \in Allocated /\ ~elem[e].delete /\ elem[e].socket \in Socket
OwnsSocket(c) == channel[c].socket # Invalid /\ ~(server = "closing" /\ busy = c)

SocketsRight ==
  /\ \A e \in Elems : HasSocket(e) => elem[e].socket \in open \cup struck
  /\ \A e, f \in Elems :
       HasSocket(e) /\ HasSocket(f) /\ elem[e].socket = elem[f].socket =>
         e = f \/ elem[e].socket \in struck
  /\ \A c \in Channels : OwnsSocket(c) => channel[c].socket \in open \cup struck
  /\ \A c, d \in Channels :
       OwnsSocket(c) /\ OwnsSocket(d) /\ channel[c].socket = channel[d].socket =>
         c = d \/ channel[c].socket \in struck
  /\ \A e \in Elems, c \in Channels :
       HasSocket(e) /\ OwnsSocket(c) /\ elem[e].socket = channel[c].socket =>
         elem[e].socket \in struck
  /\ server = "closing" => busy \in Channels

(* Once the worker was waited for there is no list.                        *)
StopRight ==
  /\ run => pLastElem # Nil /\ server # "joining" /\ worker # "ended"
  /\ ~run => server = "joining" \/ (pLastElem = Nil /\ worker = "ended")

(* The inductive invariant.                                                *)
AresInv ==
  /\ TypeOK
  /\ Linked
  /\ Acyclic
  /\ WorkerRight
  /\ ElementsRight
  /\ LookupsRight
  /\ SocketsRight
  /\ StopRight

(* It holds till an element is freed that is still used.                   *)
AresSafe == undefined \/ AresInv

----------------------------------------------------------------------------
(* Constants and elements.                                                 *)

(* The kernel gives out the least socket that is not open.                 *)
LEMMA LeastSocket ==
  ASSUME NEW S \in SUBSET Socket, S # {}
  PROVE  Min(S) \in S
<1>1. S \in SUBSET Nat
  BY AresAssumption DEF Socket
<1>2. PICK x \in S : \A y \in S : ~ (<<y, x>> \in OpToRel(<, Nat))
  BY <1>1, WFMin, NatLessThanWellFounded
<1>3. \A y \in S : x <= y
  <2> TAKE y \in S
  <2>1. ~ (y < x)
    BY <1>1, <1>2 DEF OpToRel
  <2> QED BY <1>1, <2>1
<1> QED BY <1>3 DEF Min

(* The fields of an element.                                               *)
LEMMA Fields ==
  ASSUME TypeOK, NEW e \in Elems
  PROVE  /\ elem[e] = [status |-> elem[e].status, delete |-> elem[e].delete,
                       failed |-> elem[e].failed, socket |-> elem[e].socket,
                       pPrevious |-> elem[e].pPrevious, pNext |-> elem[e].pNext]
         /\ elem[e] \in Element
BY DEF TypeOK, Element

(* A step that leaves the pointers of the list alone, and neither takes    *)
(* nor frees an element, keeps the list as it is.                          *)
LinksKept ==
  /\ pFirstElem' = pFirstElem /\ pLastElem' = pLastElem
  /\ \A e \in Elems :
       /\ elem'[e].pNext = elem[e].pNext /\ elem'[e].pPrevious = elem[e].pPrevious
       /\ elem'[e].status = "FREED" <=> elem[e].status = "FREED"

LEMMA LinksKeptSound ==
  ASSUME TypeOK, Linked, Acyclic, LinksKept
  PROVE  Linked' /\ Acyclic' /\ Allocated' = Allocated
<1>1. Allocated' = Allocated
  BY DEF Allocated, LinksKept
<1>2. Linked'
  <2>1. Allocated \subseteq Elems
    BY DEF Allocated
  <2> QED BY <1>1, <2>1, AresAssumption DEF Linked, Link, LinksKept
<1>3. Acyclic'
  BY <1>1 DEF Acyclic, Ascends, LinksKept, Allocated
<1> QED BY <1>1, <1>2, <1>3

LEMMA InitIInv == AresInit => AresInv
<1> SUFFICES ASSUME AresInit PROVE AresInv
  OBVIOUS
<1> USE AresAssumption DEF AresInit, Calloc, Freed
<1>0. Dummy \in Elems
  BY DEF Dummy
<1>1. Allocated = {Dummy}
  BY <1>0 DEF Allocated
<1>2. /\ elem[Dummy] = [status |-> "DONE", delete |-> TRUE, failed |-> FALSE, socket |-> 0,
                        pPrevious |-> Nil, pNext |-> Nil]
      /\ \A e \in Elems : e # Dummy =>
           elem[e] = [status |-> "FREED", delete |-> FALSE, failed |-> FALSE, socket |-> 0,
                      pPrevious |-> Nil, pNext |-> Nil]
  BY <1>0
<1>3. TypeOK
  <2>1. elem \in [Elems -> Element]
    BY <1>0 DEF Element
  <2>2. channel \in [Channels -> Channel]
    BY DEF Channel
  <2>3. run \in BOOLEAN
    OBVIOUS
  <2>4. /\ pFirstElem \in Elems \cup {Nil} /\ pLastElem \in Elems \cup {Nil}
        /\ pCurrElem \in Elems \cup {Nil} /\ pNextElem \in Elems \cup {Nil}
        /\ worker \in {"sleep", "visit", "resolve", "socket", "connect", "check", "ended"}
        /\ server \in {"free", "receiving", "closing", "joining"}
        /\ busy \in Channels \cup {Nil} /\ open \in SUBSET Socket /\ left \in 0..MaxAddrs
    BY <1>0
  <2>5. \A c \in Channels : channel[c].state = "OPENING" => channel[c].addrInfoReq # Nil
    OBVIOUS
  <2>6. struck \in SUBSET Socket /\ undefined \in BOOLEAN
    OBVIOUS
  <2> QED BY <2>1, <2>2, <2>3, <2>4, <2>5, <2>6 DEF TypeOK
<1>4. Linked
  BY <1>0, <1>1, <1>2 DEF Linked, Link
<1>5. Acyclic
  <2>1. [e \in Elems |-> 0] \in [Elems -> Int] /\ Ascends([e \in Elems |-> 0])
    BY <1>1, <1>2 DEF Ascends
  <2> QED BY <2>1 DEF Acyclic
<1>6. WorkerRight /\ LookupsRight /\ StopRight
  BY <1>0 DEF WorkerRight, Working, LookupsRight, StopRight
<1>7. ElementsRight
  BY <1>2 DEF ElementsRight
<1>8. SocketsRight
  <2>1. \A e \in Elems : ~HasSocket(e)
    BY <1>1, <1>2 DEF HasSocket
  <2>2. \A c \in Channels : ~OwnsSocket(c)
    BY DEF OwnsSocket
  <2> QED BY <2>1, <2>2 DEF SocketsRight
<1> QED BY <1>3, <1>4, <1>5, <1>6, <1>7, <1>8 DEF AresInv

----------------------------------------------------------------------------
(* The worker's steps.                                                     *)

LEMMA StartPassIInv == AresInv /\ StartPass => AresInv'
<1> SUFFICES ASSUME AresInv, StartPass PROVE AresInv'
  OBVIOUS
<1>1. /\ UNCHANGED <<elem, pFirstElem, pLastElem, channel, server, busy, open, run, pNextElem, left>>
      /\ UNCHANGED <<struck, undefined>> /\ worker = "sleep"
      /\ \/ run /\ worker' = "visit" /\ pCurrElem' = pFirstElem
         \/ ~run /\ worker' = "ended" /\ pCurrElem' = pCurrElem
  BY DEF StartPass, WorkerStep, theServer
<1>2. TypeOK'
  BY <1>1 DEF AresInv, TypeOK
<1>3. Linked' /\ Acyclic' /\ Allocated' = Allocated
  BY <1>1, LinksKeptSound DEF AresInv, LinksKept
<1>4. WorkerRight'
  BY <1>1, <1>3 DEF AresInv, WorkerRight, Working, Linked, StopRight
<1>5. ElementsRight' /\ LookupsRight'
  BY <1>1, <1>3 DEF AresInv, ElementsRight, LookupsRight
<1>6. SocketsRight'
  BY <1>1, <1>3 DEF AresInv, SocketsRight, HasSocket, OwnsSocket
<1>7. StopRight'
  BY <1>1 DEF AresInv, StopRight
<1> QED BY <1>2, <1>3, <1>4, <1>5, <1>6, <1>7 DEF AresInv

(* What all steps between two looks at the list have in common: they store *)
(* status, outcome and socket of the element that is worked for.           *)
LEMMA Stores ==
  ASSUME AresInv, WorkerStep, pCurrElem \in Elems,
         NEW x \in Element, elem' = [elem EXCEPT ![pCurrElem] = x],
         elem[pCurrElem].status # "FREED", x.status # "FREED",
         x.pNext = elem[pCurrElem].pNext, x.pPrevious = elem[pCurrElem].pPrevious,
         x.delete = elem[pCurrElem].delete,
         UNCHANGED <<pFirstElem, pCurrElem>>
  PROVE  /\ elem' \in [Elems -> Element] /\ elem'[pCurrElem] = x
         /\ \A e \in Elems : e # pCurrElem => elem'[e] = elem[e]
         /\ \A e \in Elems : elem'[e].pNext = elem[e].pNext /\ elem'[e].delete = elem[e].delete
         /\ Linked' /\ Acyclic' /\ Allocated' = Allocated /\ LookupsRight'
<1>1. /\ elem' \in [Elems -> Element] /\ elem'[pCurrElem] = x
      /\ \A e \in Elems : e # pCurrElem => elem'[e] = elem[e]
  BY DEF AresInv, TypeOK
<1>2. LinksKept
  BY <1>1 DEF LinksKept, WorkerStep
<1>3. Linked' /\ Acyclic' /\ Allocated' = Allocated
  BY <1>2, LinksKeptSound DEF AresInv
<1>4. LookupsRight'
  BY <1>1, <1>3 DEF AresInv, LookupsRight, WorkerStep, theServer, Allocated
<1> QED BY <1>1, <1>2, <1>3, <1>4 DEF LinksKept

LEMMA VisitIInv == AresInv /\ Visit => AresInv'
<1> SUFFICES ASSUME AresInv, Visit PROVE AresInv'
  OBVIOUS
<1> DEFINE e == pCurrElem
<1>1. /\ UNCHANGED <<pFirstElem, pLastElem, pCurrElem, channel, server, busy, open, run, left>>
      /\ UNCHANGED <<struck, undefined>>
      /\ worker = "visit" /\ e \in Allocated /\ e \in Elems
      /\ pNextElem' = elem[e].pNext
  BY DEF Visit, WorkerStep, theServer, AresInv, WorkerRight, Allocated
<1>2. CASE elem[e].status = "WAITING"
  <2> DEFINE x == [elem[e] EXCEPT !.status = "WORKING"]
  <2>1. /\ worker' = "resolve" /\ elem' = [elem EXCEPT ![e] = x]
        /\ x \in Element /\ x.status = "WORKING" /\ x.pNext = elem[e].pNext
        /\ x.pPrevious = elem[e].pPrevious /\ x.delete = elem[e].delete
        /\ x.socket = elem[e].socket
    BY <1>1, <1>2, Fields DEF Visit, Element, AresInv
  <2> HIDE DEF x
  <2>2. /\ elem' \in [Elems -> Element] /\ elem'[e] = x
        /\ \A f \in Elems : f # e => elem'[f] = elem[f]
        /\ Linked' /\ Acyclic' /\ Allocated' = Allocated /\ LookupsRight'
    BY <1>1, <1>2, <2>1, Stores DEF Visit
  <2>3. TypeOK'
    BY <1>1, <2>1, <2>2 DEF AresInv, TypeOK, Element
  <2>4. elem[e].socket = 0 /\ ~elem[e].delete
    BY <1>1, <1>2 DEF AresInv, ElementsRight
  <2>5. WorkerRight' /\ ElementsRight'
    BY <1>1, <2>1, <2>2, <2>4 DEF AresInv, WorkerRight, Working, ElementsRight
  <2>6. \A f \in Elems : HasSocket(f)' <=> HasSocket(f)
    BY <1>1, <2>1, <2>2 DEF HasSocket
  <2>7. SocketsRight'
    BY <1>1, <1>2, <2>1, <2>2, <2>6 DEF AresInv, SocketsRight, OwnsSocket
  <2>8. StopRight'
    BY <1>1, <2>1 DEF AresInv, StopRight
  <2> QED BY <2>2, <2>3, <2>5, <2>7, <2>8 DEF AresInv
<1>3. CASE elem[e].status # "WAITING"
  <2>1. worker' = "check" /\ elem' = elem
    BY <1>3 DEF Visit
  <2>2. Linked' /\ Acyclic' /\ Allocated' = Allocated
    BY <1>1, <2>1, LinksKeptSound DEF AresInv, LinksKept
  <2>3. TypeOK'
    BY <1>1, <2>1 DEF AresInv, TypeOK, Element
  <2>4. WorkerRight' /\ ElementsRight' /\ LookupsRight' /\ StopRight'
    BY <1>1, <2>1, <2>2 DEF AresInv, WorkerRight, Working, ElementsRight, LookupsRight, StopRight
  <2>5. SocketsRight'
    BY <1>1, <2>1, <2>2 DEF AresInv, SocketsRight, HasSocket, OwnsSocket
  <2> QED BY <2>2, <2>3, <2>4, <2>5 DEF AresInv
<1> QED BY <1>2, <1>3

(* What is worked for is allocated, being worked for, and not deleted.     *)
LEMMA WorkedFor ==
  ASSUME AresInv, Working
  PROVE  /\ pCurrElem \in Elems /\ pCurrElem \in Allocated
         /\ elem[pCurrElem].status = "WORKING" /\ ~elem[pCurrElem].delete
         /\ elem[pCurrElem].socket \in {Invalid, 0} \cup Socket
BY DEF AresInv, Working, WorkerRight, ElementsRight, Allocated, TypeOK, Element

LEMMA ResolveIInv == AresInv /\ Resolve => AresInv'
<1> SUFFICES ASSUME AresInv, Resolve PROVE AresInv'
  OBVIOUS
<1> DEFINE e == pCurrElem
<1>1. /\ UNCHANGED <<pFirstElem, pLastElem, pCurrElem, pNextElem, channel, server, busy, open, run>>
      /\ UNCHANGED <<struck, undefined>>
      /\ worker = "resolve" /\ Working /\ elem[e].socket = 0
  BY DEF Resolve, WorkerStep, theServer, Working, AresInv, ElementsRight
<1>2. /\ e \in Elems /\ e \in Allocated /\ elem[e].status = "WORKING" /\ ~elem[e].delete
  BY <1>1, WorkedFor
<1>3. CASE worker' = "check"
  <2> DEFINE x == [elem[e] EXCEPT !.failed = TRUE, !.status = "DONE"]
  <2>1. left' = left /\ elem' = [elem EXCEPT ![e] = x]
    <3>1. /\ left' = left
          /\ elem' = [elem EXCEPT ![e].failed = TRUE, ![e].status = "DONE"]
      BY <1>3 DEF Resolve
    <3> QED BY <1>2, <3>1 DEF AresInv, TypeOK
  <2>2. /\ x \in Element /\ x.status = "DONE" /\ x.pNext = elem[e].pNext
        /\ x.pPrevious = elem[e].pPrevious /\ x.delete = elem[e].delete
        /\ x.socket = elem[e].socket /\ x.failed
    BY <1>2, Fields DEF Element, AresInv
  <2> HIDE DEF x
  <2>3. /\ elem' \in [Elems -> Element] /\ elem'[e] = x
        /\ \A f \in Elems : f # e => elem'[f] = elem[f]
        /\ Linked' /\ Acyclic' /\ Allocated' = Allocated /\ LookupsRight'
    BY <1>1, <1>2, <2>1, <2>2, Stores DEF Resolve
  <2>4. TypeOK'
    BY <1>1, <1>3, <2>1, <2>3 DEF AresInv, TypeOK
  <2>5. WorkerRight' /\ ElementsRight' /\ StopRight'
    BY <1>1, <1>2, <1>3, <2>2, <2>3
       DEF AresInv, WorkerRight, Working, ElementsRight, StopRight
  <2>6. \A f \in Elems : HasSocket(f)' <=> HasSocket(f)
    BY <1>1, <2>2, <2>3 DEF HasSocket
  <2>7. SocketsRight'
    BY <1>1, <1>2, <2>2, <2>3, <2>6 DEF AresInv, SocketsRight, OwnsSocket
  <2> QED BY <2>3, <2>4, <2>5, <2>7 DEF AresInv
<1>4. CASE worker' = "socket"
  <2>1. elem' = elem /\ left' \in 1..MaxAddrs
    BY <1>4 DEF Resolve
  <2>2. Linked' /\ Acyclic' /\ Allocated' = Allocated
    BY <1>1, <2>1, LinksKeptSound DEF AresInv, LinksKept
  <2>3. TypeOK'
    BY <1>1, <1>4, <2>1, AresAssumption DEF AresInv, TypeOK
  <2>4. 0 \notin Socket
    BY AresAssumption DEF Socket
  <2>5. WorkerRight' /\ ElementsRight' /\ LookupsRight' /\ StopRight'
    BY <1>1, <1>4, <2>1, <2>2, <2>4
       DEF AresInv, WorkerRight, Working, ElementsRight, LookupsRight, StopRight
  <2>6. SocketsRight'
    BY <1>1, <2>1, <2>2 DEF AresInv, SocketsRight, HasSocket, OwnsSocket
  <2> QED BY <2>2, <2>3, <2>5, <2>6 DEF AresInv
<1> QED BY <1>3, <1>4 DEF Resolve

(* After an address that was of no use the element names no socket; what   *)
(* has been closed for it was held by no one else.                         *)
LEMMA NoConnectionIInv ==
  ASSUME AresInv, WorkerStep, worker \in {"socket", "connect"}, NoConnection,
         open' = open \ {elem[pCurrElem].socket},
         UNCHANGED <<pFirstElem, pCurrElem, pNextElem, struck>>
  PROVE  AresInv'
<1> DEFINE e == pCurrElem
           x == [elem[e] EXCEPT !.socket = Invalid,
                                !.status = IF left = 1 THEN "DONE" ELSE @]
<1>1. /\ UNCHANGED <<pFirstElem, pLastElem, pCurrElem, pNextElem, channel, server, busy, run>>
      /\ UNCHANGED <<struck, undefined>> /\ Working /\ left # 0
  BY DEF WorkerStep, theServer, Working, AresInv, WorkerRight
<1>2. /\ e \in Elems /\ e \in Allocated /\ elem[e].status = "WORKING" /\ ~elem[e].delete
  BY <1>1, WorkedFor
<1>3. left \in 0..MaxAddrs /\ Invalid \notin Socket
  BY AresAssumption DEF AresInv, TypeOK, Invalid, Socket
<1>4. /\ left' \in 0..MaxAddrs
      /\ worker' = "check" \/ (worker' = "socket" /\ left' # 0)
  BY <1>1, <1>3, AresAssumption DEF NoConnection
<1>5. elem' = [elem EXCEPT ![e] = x]
  BY <1>2 DEF NoConnection, AresInv, TypeOK
<1>6. /\ x \in Element /\ x.status \in {"DONE", "WORKING"} /\ x.pNext = elem[e].pNext
      /\ x.pPrevious = elem[e].pPrevious /\ x.delete = elem[e].delete
      /\ x.socket = Invalid
      /\ worker' = "socket" => x.status = "WORKING"
  BY <1>2, Fields DEF Element, AresInv, NoConnection
<1> HIDE DEF x
<1>7. /\ elem' \in [Elems -> Element] /\ elem'[e] = x
      /\ \A f \in Elems : f # e => elem'[f] = elem[f]
      /\ Linked' /\ Acyclic' /\ Allocated' = Allocated /\ LookupsRight'
  BY <1>1, <1>2, <1>5, <1>6, Stores
<1>8. TypeOK'
  BY <1>1, <1>4, <1>7 DEF AresInv, TypeOK
<1>9. WorkerRight' /\ ElementsRight' /\ StopRight'
  <2>1. Invalid # 0
    BY DEF Invalid
  <2>2. WorkerRight' /\ StopRight'
    BY <1>1, <1>2, <1>3, <1>4, <1>6, <1>7 DEF AresInv, WorkerRight, Working, StopRight
  <2> QED BY <1>1, <1>2, <1>4, <1>6, <1>7, <2>1, <2>2 DEF AresInv, ElementsRight
<1>10. ~HasSocket(e)' /\ \A f \in Elems \ {e} : HasSocket(f)' <=> HasSocket(f)
  BY <1>2, <1>3, <1>6, <1>7 DEF HasSocket
<1>11. \A f \in Elems \ {e} :
         HasSocket(f) /\ elem[f].socket = elem[e].socket => elem[f].socket \in struck
  BY <1>2 DEF AresInv, SocketsRight, HasSocket
<1>12. \A c \in Channels :
         OwnsSocket(c) /\ channel[c].socket = elem[e].socket => channel[c].socket \in struck
  <2> SUFFICES ASSUME NEW c \in Channels, OwnsSocket(c), channel[c].socket = elem[e].socket
               PROVE  channel[c].socket \in struck
    OBVIOUS
  <2>1. HasSocket(e)
    BY <1>2 DEF HasSocket, AresInv, TypeOK, Channel, OwnsSocket
  <2> QED BY <1>2, <2>1 DEF AresInv, SocketsRight
<1>13. SocketsRight'
  <2>1. \A f \in Elems : HasSocket(f)' => f # e /\ HasSocket(f) /\ elem'[f] = elem[f]
    BY <1>7, <1>10
  <2>2. \A c \in Channels : OwnsSocket(c)' <=> OwnsSocket(c)
    BY <1>1 DEF OwnsSocket
  <2> QED BY <1>1, <1>11, <1>12, <2>1, <2>2 DEF AresInv, SocketsRight
<1> QED BY <1>7, <1>8, <1>9, <1>13 DEF AresInv

LEMMA ConnectFailsIInv == AresInv /\ ConnectFails => AresInv'
BY NoConnectionIInv DEF ConnectFails

LEMMA CreateSocketIInv == AresInv /\ CreateSocket => AresInv'
<1> SUFFICES ASSUME AresInv, CreateSocket PROVE AresInv'
  OBVIOUS
<1> DEFINE e == pCurrElem
<1>1. /\ UNCHANGED <<pFirstElem, pLastElem, pCurrElem, pNextElem, channel, server, busy, run, undefined>>
      /\ worker = "socket" /\ Working /\ elem[e].socket \notin Socket
      /\ left # 0 /\ left \in 0..MaxAddrs
      /\ open \in SUBSET Socket
  BY DEF CreateSocket, WorkerStep, theServer, Working, AresInv, WorkerRight, TypeOK
<1>2. /\ e \in Elems /\ e \in Allocated /\ elem[e].status = "WORKING" /\ ~elem[e].delete
  BY <1>1, WorkedFor
<1>3. CASE Socket \subseteq open
  <2>1. open' = open \ {elem[e].socket}
    BY <1>1, <1>3 DEF CreateSocket
  <2> QED BY <1>1, <1>3, <2>1, NoConnectionIInv DEF CreateSocket
<1>4. CASE ~(Socket \subseteq open)
  <2> DEFINE s == Min(Socket \ open)
             x == [elem[e] EXCEPT !.socket = s]
  <2>1. s \in Socket /\ s \notin open
    BY <1>4, LeastSocket
  <2>2. /\ elem' = [elem EXCEPT ![e] = x] /\ open' = open \cup {s}
        /\ worker' = "connect" /\ left' = left
        /\ struck' = IF Holders(s) = {} THEN struck \ {s} ELSE struck
    BY <1>2, <1>4 DEF CreateSocket, AresInv, TypeOK
  <2> HIDE DEF s
  <2>3. /\ x \in Element /\ x.status = "WORKING" /\ x.pNext = elem[e].pNext
        /\ x.pPrevious = elem[e].pPrevious /\ x.delete = elem[e].delete
        /\ x.socket = s
    BY <1>2, <2>1, Fields DEF Element, AresInv
  <2> HIDE DEF x
  <2>4. /\ elem' \in [Elems -> Element] /\ elem'[e] = x
        /\ \A f \in Elems : f # e => elem'[f] = elem[f]
        /\ Linked' /\ Acyclic' /\ Allocated' = Allocated /\ LookupsRight'
    BY <1>1, <1>2, <2>2, <2>3, Stores DEF CreateSocket
  <2>5. TypeOK'
    <3>1. struck' \in SUBSET Socket
      BY <2>2 DEF AresInv, TypeOK
    <3> QED BY <1>1, <2>1, <2>2, <2>4, <3>1 DEF AresInv, TypeOK
  <2>6. WorkerRight' /\ ElementsRight' /\ StopRight'
    BY <1>1, <1>2, <2>1, <2>2, <2>3, <2>4
       DEF AresInv, WorkerRight, Working, ElementsRight, StopRight
  <2>7. \A f \in Elems \ {e} : (HasSocket(f)' <=> HasSocket(f)) /\ elem'[f] = elem[f]
    BY <2>4 DEF HasSocket
  <2>8. \A f \in Elems : HasSocket(f) /\ elem[f].socket = s => s \in struck'
    <3> SUFFICES ASSUME NEW f \in Elems, HasSocket(f), elem[f].socket = s PROVE s \in struck'
      OBVIOUS
    <3>1. s \in struck
      BY <2>1 DEF AresInv, SocketsRight
    <3>2. f \in Holders(s)
      BY DEF Holders, HasSocket
    <3> QED BY <2>2, <3>1, <3>2
  <2>9. \A c \in Channels : OwnsSocket(c) /\ channel[c].socket = s => s \in struck'
    <3> SUFFICES ASSUME NEW c \in Channels, OwnsSocket(c), channel[c].socket = s PROVE s \in struck'
      OBVIOUS
    <3>1. s \in struck
      BY <2>1 DEF AresInv, SocketsRight
    <3>2. c \in Holders(s)
      BY DEF Holders, OwnsSocket
    <3> QED BY <2>2, <3>1, <3>2
  <2>10. SocketsRight'
    <3>1. (\A c \in Channels : OwnsSocket(c)' <=> OwnsSocket(c)) /\ \A t \in struck : t \in struck' \/ t = s
      BY <1>1, <2>2 DEF OwnsSocket
    <3>2. \A f \in Elems : HasSocket(f)' => elem'[f].socket \in open' \cup struck'
      BY <2>2, <2>3, <2>4, <2>7, <3>1 DEF AresInv, SocketsRight
    <3>3. \A f, g \in Elems :
            HasSocket(f)' /\ HasSocket(g)' /\ elem'[f].socket = elem'[g].socket =>
              f = g \/ elem'[f].socket \in struck'
      BY <2>3, <2>4, <2>7, <2>8, <3>1 DEF AresInv, SocketsRight
    <3>4. \A c \in Channels : OwnsSocket(c)' => channel'[c].socket \in open' \cup struck'
      BY <1>1, <2>2, <3>1 DEF AresInv, SocketsRight
    <3>5. \A c, d \in Channels :
            OwnsSocket(c)' /\ OwnsSocket(d)' /\ channel'[c].socket = channel'[d].socket =>
              c = d \/ channel'[c].socket \in struck'
      BY <1>1, <2>9, <3>1 DEF AresInv, SocketsRight
    <3>6. \A f \in Elems, c \in Channels :
            HasSocket(f)' /\ OwnsSocket(c)' /\ elem'[f].socket = channel'[c].socket =>
              elem'[f].socket \in struck'
      BY <1>1, <2>3, <2>4, <2>7, <2>9, <3>1 DEF AresInv, SocketsRight
    <3> QED BY <1>1, <3>2, <3>3, <3>4, <3>5, <3>6 DEF AresInv, SocketsRight
  <2> QED BY <2>4, <2>5, <2>6, <2>10 DEF AresInv
<1> QED BY <1>3, <1>4

LEMMA ConnectIInv == AresInv /\ Connect => AresInv'
<1> SUFFICES ASSUME AresInv, Connect PROVE AresInv'
  OBVIOUS
<1> DEFINE e == pCurrElem
           x == [elem[e] EXCEPT !.status = "DONE"]
<1>1. /\ UNCHANGED <<pFirstElem, pLastElem, pCurrElem, pNextElem, channel, server, busy, open, run>>
      /\ UNCHANGED <<struck, undefined>> /\ left' = 0
      /\ worker = "connect" /\ Working /\ worker' = "check"
  BY DEF Connect, WorkerStep, theServer, Working
<1>2. /\ e \in Elems /\ e \in Allocated /\ elem[e].status = "WORKING" /\ ~elem[e].delete
  BY <1>1, WorkedFor
<1>3. elem' = [elem EXCEPT ![e] = x]
  BY <1>2 DEF Connect, AresInv, TypeOK
<1>4. /\ x \in Element /\ x.status = "DONE" /\ x.pNext = elem[e].pNext
      /\ x.pPrevious = elem[e].pPrevious /\ x.delete = elem[e].delete
      /\ x.socket = elem[e].socket
  BY <1>2, Fields DEF Element, AresInv
<1> HIDE DEF x
<1>5. /\ elem' \in [Elems -> Element] /\ elem'[e] = x
      /\ \A f \in Elems : f # e => elem'[f] = elem[f]
      /\ Linked' /\ Acyclic' /\ Allocated' = Allocated /\ LookupsRight'
  BY <1>1, <1>2, <1>3, <1>4, Stores DEF Connect
<1>6. TypeOK'
  BY <1>1, <1>5, AresAssumption DEF AresInv, TypeOK
<1>7. WorkerRight' /\ ElementsRight' /\ StopRight'
  <2>1. elem[e].socket # 0
    BY <1>1, AresAssumption DEF AresInv, WorkerRight, Socket
  <2> QED BY <1>1, <1>2, <1>4, <1>5, <2>1
             DEF AresInv, WorkerRight, Working, ElementsRight, StopRight
<1>8. \A f \in Elems : HasSocket(f)' <=> HasSocket(f)
  BY <1>1, <1>4, <1>5 DEF HasSocket
<1>9. SocketsRight'
  BY <1>1, <1>2, <1>4, <1>5, <1>8 DEF AresInv, SocketsRight, OwnsSocket
<1> QED BY <1>5, <1>6, <1>7, <1>9 DEF AresInv

(* Unlinking joins the neighbours, which are other elements; what follows  *)
(* another element still follows it.                                       *)
LEMMA UnlinkedSound ==
  ASSUME AresInv, NEW e \in Allocated, e = pCurrElem, elem[e].pNext # Nil,
         elem' = Unlinked(elem[e]), pLastElem' = pLastElem,
         pFirstElem' = IF elem[e].pPrevious = Nil THEN elem[e].pNext ELSE pFirstElem
  PROVE  /\ elem' \in [Elems -> Element]
         /\ elem'[e].status = "FREED"
         /\ \A f \in Elems : f # e =>
              /\ elem'[f].status = elem[f].status /\ elem'[f].delete = elem[f].delete
              /\ elem'[f].socket = elem[f].socket /\ elem'[f].failed = elem[f].failed
         /\ Allocated' = Allocated \ {e}
         /\ Linked' /\ Acyclic'
         /\ elem[e].pNext \in Allocated'
         /\ pFirstElem' \in Elems \cup {Nil}
<1> DEFINE p == elem[e].pPrevious
           n == elem[e].pNext
<1>1. /\ Nil \notin Elems /\ e \in Elems /\ e # Nil
      /\ n \in Elems /\ n \in Allocated /\ elem[n].pPrevious = e
      /\ p # Nil => p \in Elems /\ p \in Allocated /\ elem[p].pNext = e
  BY AresAssumption DEF AresInv, Linked, Link, Allocated
<1> HIDE DEF p, n
<1>2. PICK rank \in [Elems -> Int] : Ascends(rank)
  BY DEF AresInv, Acyclic
<1>3. n # e /\ p # e /\ p # n
  <2>1. \A f \in Allocated : elem[f].pNext \in Elems => rank[f] < rank[elem[f].pNext]
    BY <1>1, <1>2 DEF Ascends
  <2>2. rank[e] < rank[n] /\ (p # Nil => rank[p] < rank[e])
    BY <1>1, <2>1 DEF n
  <2>3. rank[e] \in Int /\ rank[n] \in Int
    BY <1>1
  <2>4. n # e
    BY <2>2, <2>3
  <2>5. p # Nil => rank[p] \in Int
    BY <1>1
  <2>6. p # e
    BY <1>1, <2>2, <2>3
  <2>7. p # n
    BY <1>1, <2>2, <2>3, <2>5
  <2> QED BY <2>4, <2>6, <2>7
<1>4. elem' = [f \in Elems |->
                 CASE f = e -> Freed
                   [] f = p -> [elem[f] EXCEPT !.pNext = n]
                   [] f = n -> [elem[f] EXCEPT !.pPrevious = p]
                   [] OTHER -> elem[f]]
  BY DEF Unlinked, p, n
<1>5. \A f \in Elems :
        elem[f] \in Element /\ elem[f].pNext \in Elems \cup {Nil}
                            /\ elem[f].pPrevious \in Elems \cup {Nil}
  BY DEF AresInv, TypeOK, Element
<1>6. elem'[e] = Freed
  BY <1>1, <1>3, <1>4
<1>7. p # Nil => elem'[p] = [elem[p] EXCEPT !.pNext = n]
  BY <1>1, <1>3, <1>4
<1>8. elem'[n] = [elem[n] EXCEPT !.pPrevious = p]
  BY <1>1, <1>3, <1>4
<1>9. \A f \in Elems : f \notin {e, p, n} => elem'[f] = elem[f]
  BY <1>4
<1>10. p \in Elems \cup {Nil}
  BY <1>1
<1>11. Freed \in Element /\ Freed.status = "FREED"
  BY DEF Freed, Calloc, Element
<1>12. \A f \in Elems : f # e =>
         /\ elem'[f] \in Element
         /\ elem'[f].status = elem[f].status /\ elem'[f].delete = elem[f].delete
         /\ elem'[f].socket = elem[f].socket /\ elem'[f].failed = elem[f].failed
         /\ elem'[f].pNext = IF f = p THEN n ELSE elem[f].pNext
         /\ elem'[f].pPrevious = IF f = n THEN p ELSE elem[f].pPrevious
  <2> SUFFICES ASSUME NEW f \in Elems, f # e
               PROVE  /\ elem'[f] \in Element
                      /\ elem'[f].status = elem[f].status /\ elem'[f].delete = elem[f].delete
                      /\ elem'[f].socket = elem[f].socket /\ elem'[f].failed = elem[f].failed
                      /\ elem'[f].pNext = IF f = p THEN n ELSE elem[f].pNext
                      /\ elem'[f].pPrevious = IF f = n THEN p ELSE elem[f].pPrevious
    OBVIOUS
  <2>1. CASE f = p
    BY <1>1, <1>3, <1>5, <1>7, <2>1 DEF Element
  <2>2. CASE f = n
    BY <1>3, <1>5, <1>8, <1>10, <2>2 DEF Element
  <2>3. CASE f \notin {e, p, n}
    BY <1>5, <1>9, <2>3
  <2> QED BY <2>1, <2>2, <2>3
<1>13. elem' \in [Elems -> Element]
  <2>1. \A f \in Elems : elem'[f] \in Element
    BY <1>6, <1>11, <1>12
  <2> QED BY <1>4, <2>1
<1>14. Allocated' = Allocated \ {e}
  BY <1>6, <1>11, <1>12 DEF Allocated
<1>15. Linked'
  <2>1. \A f \in Allocated : f \in Elems /\ Link(f)
    BY DEF Allocated, AresInv, Linked
  <2>2. pLastElem # e
    BY <1>1, <2>1 DEF Link, n
  <2>3. pLastElem # Nil => {pFirstElem, pLastElem} \subseteq Allocated
    BY DEF AresInv, Linked
  <2>4. p = Nil <=> e = pFirstElem
    BY <2>1 DEF Link, p
  <2>5. pFirstElem' = IF p = Nil THEN n ELSE pFirstElem
    BY DEF p, n
  <2>6. (pLastElem # Nil => {pFirstElem, pLastElem} \subseteq Allocated)'
    BY <1>1, <1>3, <1>14, <2>2, <2>3, <2>4, <2>5
  <2>7. ASSUME NEW f \in Allocated \ {e} PROVE Link(f)'
    <3>1. f \in Elems /\ f \in Allocated /\ f # e /\ Link(f)
      BY <2>1
    <3>2. /\ elem'[f].pNext = IF f = p THEN n ELSE elem[f].pNext
          /\ elem'[f].pPrevious = IF f = n THEN p ELSE elem[f].pPrevious
      BY <1>12, <3>1
    <3>3. elem'[f].pNext = Nil <=> f = pLastElem'
      BY <1>1, <3>1, <3>2 DEF Link
    <3>4. elem'[f].pPrevious = Nil <=> f = pFirstElem'
      <4>1. CASE f = n
        BY <1>1, <1>3, <2>4, <2>5, <3>1, <3>2, <4>1 DEF Link
      <4>2. CASE f # n
        BY <2>4, <2>5, <3>1, <3>2, <4>2 DEF Link
      <4> QED BY <4>1, <4>2
    <3>5. elem'[f].pNext # Nil =>
            elem'[f].pNext \in Allocated \ {e} /\ elem'[elem'[f].pNext].pPrevious = f
      <4>1. CASE f = p
        BY <1>1, <1>3, <1>12, <3>2, <4>1
      <4>2. CASE f # p
        <5> SUFFICES ASSUME elem[f].pNext # Nil
                     PROVE  /\ elem[f].pNext \in Allocated \ {e}
                            /\ elem'[elem[f].pNext].pPrevious = f
          BY <3>2, <4>2
        <5>1. elem[f].pNext \in Allocated /\ elem[elem[f].pNext].pPrevious = f
          BY <3>1 DEF Link
        <5>2. elem[f].pNext # e
          BY <4>2, <5>1 DEF p
        <5>3. elem[f].pNext # n
          BY <1>1, <3>1, <5>1
        <5> QED BY <1>12, <2>1, <5>1, <5>2, <5>3
      <4> QED BY <4>1, <4>2
    <3>6. elem'[f].pPrevious # Nil =>
            elem'[f].pPrevious \in Allocated \ {e} /\ elem'[elem'[f].pPrevious].pNext = f
      <4>1. CASE f = n
        BY <1>1, <1>3, <1>12, <3>2, <4>1
      <4>2. CASE f # n
        <5> SUFFICES ASSUME elem[f].pPrevious # Nil
                     PROVE  /\ elem[f].pPrevious \in Allocated \ {e}
                            /\ elem'[elem[f].pPrevious].pNext = f
          BY <3>2, <4>2
        <5>1. elem[f].pPrevious \in Allocated /\ elem[elem[f].pPrevious].pNext = f
          BY <3>1 DEF Link
        <5>2. elem[f].pPrevious # e
          BY <4>2, <5>1 DEF n
        <5>3. elem[f].pPrevious # p
          BY <1>1, <3>1, <5>1
        <5> QED BY <1>12, <2>1, <5>1, <5>2, <5>3
      <4> QED BY <4>1, <4>2
    <3> QED BY <1>14, <3>3, <3>4, <3>5, <3>6 DEF Link
  <2> QED BY <1>14, <2>6, <2>7 DEF Linked
<1>16. Acyclic'
  <2>1. \A f \in Allocated \ {e} : elem'[f].pNext # Nil => rank[f] < rank[elem'[f].pNext]
    <3> SUFFICES ASSUME NEW f \in Allocated \ {e}, elem'[f].pNext # Nil
                 PROVE  rank[f] < rank[elem'[f].pNext]
      OBVIOUS
    <3>1. f \in Elems /\ f \in Allocated
      BY DEF Allocated
    <3>2. CASE f = p
      <4>1. rank[p] < rank[e] /\ rank[e] < rank[n]
        BY <1>1, <1>2, <3>1, <3>2 DEF Ascends, n
      <4>2. rank[p] \in Int /\ rank[e] \in Int /\ rank[n] \in Int
        BY <1>1, <3>1, <3>2
      <4> QED BY <1>12, <3>1, <3>2, <4>1, <4>2
    <3>3. CASE f # p
      BY <1>2, <1>12, <3>1, <3>3 DEF Ascends
    <3> QED BY <3>2, <3>3
  <2> QED BY <1>14, <2>1 DEF Acyclic, Ascends
<1>17. pFirstElem' \in Elems \cup {Nil}
  BY <1>1 DEF AresInv, TypeOK, n
<1>18. n \in Allocated'
  BY <1>1, <1>3, <1>14
<1> QED BY <1>6, <1>11, <1>12, <1>13, <1>14, <1>15, <1>16, <1>17, <1>18 DEF n

LEMMA CheckDeleteIInv == AresInv /\ CheckDelete => AresInv'
<1> SUFFICES ASSUME AresInv, CheckDelete PROVE AresInv'
  OBVIOUS
<1> DEFINE e == pCurrElem
<1>1. /\ UNCHANGED <<pLastElem, pNextElem, left, channel, server, busy, open, run>>
      /\ UNCHANGED <<struck, undefined>>
      /\ worker = "check" /\ pCurrElem' = pNextElem
      /\ worker' = IF pNextElem = Nil THEN "sleep" ELSE "visit"
      /\ e \in Allocated /\ e \in Elems
      /\ pNextElem \in {Nil, elem[e].pNext}
  BY DEF CheckDelete, WorkerStep, theServer, AresInv, WorkerRight, Allocated
<1>2. StopRight'
  BY <1>1 DEF AresInv, StopRight
<1>3. CASE Deletes(elem[e])
  <2>1. /\ elem' = Unlinked(elem[e])
        /\ pFirstElem' = IF elem[e].pPrevious = Nil THEN elem[e].pNext ELSE pFirstElem
        /\ elem[e].delete /\ elem[e].pNext # Nil
    BY <1>3 DEF CheckDelete, Deletes
  <2>2. /\ elem' \in [Elems -> Element]
        /\ elem'[e].status = "FREED"
        /\ \A f \in Elems : f # e =>
             /\ elem'[f].status = elem[f].status /\ elem'[f].delete = elem[f].delete
             /\ elem'[f].socket = elem[f].socket /\ elem'[f].failed = elem[f].failed
        /\ Allocated' = Allocated \ {e}
        /\ Linked' /\ Acyclic'
        /\ elem[e].pNext \in Allocated'
        /\ pFirstElem' \in Elems \cup {Nil}
    <3> DEFINE x == e
    <3>1. x \in Allocated /\ x = pCurrElem
      BY <1>1
    <3> HIDE DEF x
    <3>2. /\ elem' \in [Elems -> Element]
          /\ elem'[x].status = "FREED"
          /\ \A f \in Elems : f # x =>
               /\ elem'[f].status = elem[f].status /\ elem'[f].delete = elem[f].delete
               /\ elem'[f].socket = elem[f].socket /\ elem'[f].failed = elem[f].failed
          /\ Allocated' = Allocated \ {x}
          /\ Linked' /\ Acyclic'
          /\ elem[x].pNext \in Allocated'
          /\ pFirstElem' \in Elems \cup {Nil}
      BY <1>1, <2>1, <3>1, UnlinkedSound
    <3> QED BY <3>1, <3>2
  <2>3. TypeOK'
    BY <1>1, <2>2 DEF AresInv, TypeOK
  <2>4. WorkerRight'
    BY <1>1, <2>2 DEF WorkerRight, Working
  <2>5. ElementsRight'
    BY <1>1, <2>2 DEF AresInv, ElementsRight
  <2>6. LookupsRight'
    <3>1. \A c \in Channels : channel[c].addrInfoReq # Nil =>
            /\ channel[c].addrInfoReq \in Allocated \ {e}
            /\ channel[c].addrInfoReq \in Elems
            /\ ~elem[channel[c].addrInfoReq].delete
      BY <2>1 DEF AresInv, LookupsRight, Allocated
    <3> QED BY <1>1, <2>2, <3>1 DEF AresInv, LookupsRight
  <2>7. \A f \in Elems : HasSocket(f)' => f # e /\ HasSocket(f) /\ elem'[f].socket = elem[f].socket
    BY <2>2 DEF HasSocket
  <2>8. SocketsRight'
    BY <1>1, <2>2, <2>7 DEF AresInv, SocketsRight, OwnsSocket
  <2> QED BY <1>2, <2>2, <2>3, <2>4, <2>5, <2>6, <2>8 DEF AresInv
<1>4. CASE ~Deletes(elem[e])
  <2>1. elem' = elem /\ pFirstElem' = pFirstElem
    BY <1>4 DEF CheckDelete
  <2>2. Linked' /\ Acyclic' /\ Allocated' = Allocated
    BY <1>1, <2>1, LinksKeptSound DEF AresInv, LinksKept
  <2>3. TypeOK'
    BY <1>1, <2>1 DEF AresInv, TypeOK
  <2>4. WorkerRight'
    <3>1. elem[e].pNext \in {Nil} \cup Allocated
      BY <1>1 DEF AresInv, Linked, Link
    <3> QED BY <1>1, <2>1, <2>2, <3>1 DEF WorkerRight, Working
  <2>5. ElementsRight' /\ LookupsRight'
    BY <1>1, <2>1, <2>2 DEF AresInv, ElementsRight, LookupsRight
  <2>6. SocketsRight'
    BY <1>1, <2>1, <2>2 DEF AresInv, SocketsRight, HasSocket, OwnsSocket
  <2> QED BY <1>2, <2>2, <2>3, <2>4, <2>5, <2>6 DEF AresInv
<1> QED BY <1>3, <1>4

----------------------------------------------------------------------------
(* The steps of the server's thread.                                       *)

(* Those that leave the list and the worker alone keep what is said of     *)
(* them.                                                                   *)
LEMMA ListKept ==
  ASSUME AresInv, UNCHANGED theList, UNCHANGED <<worker, pCurrElem, pNextElem, left>>
  PROVE  /\ Linked' /\ Acyclic' /\ Allocated' = Allocated /\ WorkerRight' /\ ElementsRight'
         /\ \A f \in Elems : HasSocket(f)' <=> HasSocket(f)
<1>1. LinksKept
  BY DEF theList, LinksKept
<1>2. Linked' /\ Acyclic' /\ Allocated' = Allocated
  BY <1>1, LinksKeptSound DEF AresInv
<1>3. WorkerRight' /\ ElementsRight'
  BY <1>2 DEF theList, AresInv, WorkerRight, Working, ElementsRight
<1>4. \A f \in Elems : HasSocket(f)' <=> HasSocket(f)
  BY <1>2 DEF theList, HasSocket
<1> QED BY <1>2, <1>3, <1>4

(* One channel c changes to x, and lets its socket go.  What it closes is  *)
(* its own, but for the second time: then it may be another one's.         *)
LEMMA SocketGiven ==
  ASSUME AresInv, UNCHANGED theList, NEW c \in Channels, NEW x \in Channel,
         channel' = [channel EXCEPT ![c] = x], open' = open \ {channel[c].socket},
         x.socket = Invalid,
         x.addrInfoReq \in {Nil, channel[c].addrInfoReq},
         x.state = "OPENING" => x.addrInfoReq # Nil,
         UNCHANGED <<run, worker, pCurrElem, pNextElem, left, undefined>>,
         server' = "free", busy' \in {busy, Nil},
         \/ server \in {"free", "receiving"} /\ struck' = struck
         \/ /\ server = "closing" /\ busy = c
            /\ struck' = struck \cup (open \cap {channel[c].socket})
  PROVE  AresInv'
<1>1. /\ Linked' /\ Acyclic' /\ Allocated' = Allocated /\ WorkerRight' /\ ElementsRight'
      /\ \A f \in Elems : HasSocket(f)' <=> HasSocket(f)
  BY ListKept
<1>2. /\ channel' \in [Channels -> Channel] /\ channel'[c] = x
      /\ \A d \in Channels : d # c => channel'[d] = channel[d]
  BY DEF AresInv, TypeOK
<1>3. TypeOK'
  BY <1>2 DEF theList, AresInv, TypeOK
<1>4. LookupsRight'
  <2>1. \A d \in Channels : channel'[d].addrInfoReq \in {Nil, channel[d].addrInfoReq}
    BY <1>2
  <2>2. \A d \in Channels : channel'[d].state = "OPENING" => channel'[d].socket = Invalid
    BY <1>2 DEF AresInv, LookupsRight
  <2> QED BY <1>1, <2>1, <2>2 DEF theList, AresInv, LookupsRight
<1>5. StopRight'
  BY DEF theList, AresInv, StopRight
<1>6. SocketsRight'
  <2> DEFINE s == channel[c].socket
  <2>0. Invalid \notin Socket
    BY AresAssumption DEF Invalid, Socket
  <2>1. \A f \in Elems : HasSocket(f)' => HasSocket(f) /\ elem'[f] = elem[f] /\ elem[f].socket # Invalid
    BY <1>1, <2>0 DEF theList, HasSocket
  <2>2. \A d \in Channels : OwnsSocket(d)' => d # c /\ OwnsSocket(d) /\ channel'[d] = channel[d]
    BY <1>2 DEF OwnsSocket
  <2>3. struck \subseteq struck' /\ open' = open \ {s}
    OBVIOUS
  <2>4. \A f \in Elems : HasSocket(f) /\ elem[f].socket = s => s \in struck'
    <3>1. CASE server = "closing"
      BY <3>1 DEF AresInv, SocketsRight
    <3>2. CASE server # "closing"
      BY <2>0, <2>3, <3>2 DEF AresInv, SocketsRight, HasSocket, OwnsSocket
    <3> QED BY <3>1, <3>2
  <2>5. \A d \in Channels : d # c /\ OwnsSocket(d) /\ channel[d].socket = s => s \in struck'
    <3>1. CASE server = "closing"
      BY <3>1 DEF AresInv, SocketsRight
    <3>2. CASE server # "closing"
      BY <2>3, <3>2 DEF AresInv, SocketsRight, OwnsSocket
    <3> QED BY <3>1, <3>2
  <2>6. \A f \in Elems : HasSocket(f)' => elem'[f].socket \in open' \cup struck'
    BY <2>1, <2>3, <2>4 DEF AresInv, SocketsRight
  <2>7. \A f, g \in Elems :
          HasSocket(f)' /\ HasSocket(g)' /\ elem'[f].socket = elem'[g].socket =>
            f = g \/ elem'[f].socket \in struck'
    BY <2>1, <2>3 DEF AresInv, SocketsRight
  <2>8. \A d \in Channels : OwnsSocket(d)' => channel'[d].socket \in open' \cup struck'
    BY <2>2, <2>3, <2>5 DEF AresInv, SocketsRight
  <2>9. \A d, g \in Channels :
          OwnsSocket(d)' /\ OwnsSocket(g)' /\ channel'[d].socket = channel'[g].socket =>
            d = g \/ channel'[d].socket \in struck'
    BY <2>2, <2>3 DEF AresInv, SocketsRight
  <2>10. \A f \in Elems, d \in Channels :
           HasSocket(f)' /\ OwnsSocket(d)' /\ elem'[f].socket = channel'[d].socket =>
             elem'[f].socket \in struck'
    BY <2>1, <2>2, <2>3 DEF AresInv, SocketsRight
  <2> QED BY <2>6, <2>7, <2>8, <2>9, <2>10 DEF SocketsRight
<1> QED BY <1>1, <1>3, <1>4, <1>5, <1>6 DEF AresInv

LEMMA CloseConnectionIInv ==
  ASSUME AresInv, NEW c \in Channels, CloseConnection(c)
  PROVE  AresInv'
<1> DEFINE x == Closed(channel[c])
<1>1. /\ UNCHANGED theList /\ server = "free" /\ server' = "free" /\ busy' = busy
      /\ UNCHANGED <<run, worker, pCurrElem, pNextElem, left, undefined>> /\ struck' = struck
      /\ channel' = [channel EXCEPT ![c] = x] /\ open' = open \ {channel[c].socket}
  BY DEF CloseConnection, ServerFree, theWorker, theHistory, SocketClosed
<1>2. /\ x \in Channel /\ x.socket = Invalid /\ x.addrInfoReq = channel[c].addrInfoReq
      /\ x.state = "OPENING" => x.addrInfoReq # Nil
  BY DEF Closed, AresInv, TypeOK, Channel
<1> HIDE DEF x
<1> QED BY <1>1, <1>2, SocketGiven

LEMMA InsertFailsIInv ==
  ASSUME AresInv, NEW c \in Channels, InsertFails(c)
  PROVE  AresInv'
<1> DEFINE x == [Closed(channel[c]) EXCEPT !.state = "COULDNOTOPEN", !.addrInfoReq = Nil]
<1>1. /\ UNCHANGED theList /\ server = "free" /\ server' = "free" /\ busy' = busy
      /\ UNCHANGED <<run, worker, pCurrElem, pNextElem, left, undefined>> /\ struck' = struck
      /\ channel' = [channel EXCEPT ![c] = x] /\ open' = open \ {channel[c].socket}
  BY DEF InsertFails, ServerFree, theWorker, theHistory, SocketClosed
<1>2. /\ x \in Channel /\ x.socket = Invalid /\ x.addrInfoReq = Nil
      /\ x.state = "COULDNOTOPEN"
  BY DEF Closed, AresInv, TypeOK, Channel
<1> HIDE DEF x
<1> QED BY <1>1, <1>2, SocketGiven

LEMMA PeerClosesIInv ==
  ASSUME AresInv, NEW c \in Channels, PeerCloses(c)
  PROVE  AresInv'
<1> DEFINE x == Closed(channel[c])
<1>1. /\ UNCHANGED theList /\ server \in {"free", "receiving"} /\ server' = "free" /\ busy' = Nil
      /\ UNCHANGED <<run, worker, pCurrElem, pNextElem, left, undefined>> /\ struck' = struck
      /\ channel' = [channel EXCEPT ![c] = x] /\ open' = open \ {channel[c].socket}
  BY DEF PeerCloses, Receiving, theWorker, theHistory, SocketClosed
<1>2. /\ x \in Channel /\ x.socket = Invalid /\ x.addrInfoReq = channel[c].addrInfoReq
      /\ x.state = "OPENING" => x.addrInfoReq # Nil
  BY DEF Closed, AresInv, TypeOK, Channel
<1> HIDE DEF x
<1> QED BY <1>1, <1>2, SocketGiven

LEMMA CloseAgainIInv == AresInv /\ CloseAgain => AresInv'
<1> SUFFICES ASSUME AresInv, CloseAgain PROVE AresInv'
  OBVIOUS
<1>1. PICK c \in Channels : busy = c
  BY DEF CloseAgain, AresInv, SocketsRight
<1> DEFINE x == Closed(channel[c])
<1>2. /\ UNCHANGED theList /\ server = "closing" /\ server' = "free" /\ busy' = Nil
      /\ UNCHANGED <<run, worker, pCurrElem, pNextElem, left, undefined>>
      /\ struck' = struck \cup (open \cap {channel[c].socket})
      /\ channel' = [channel EXCEPT ![c] = x] /\ open' = open \ {channel[c].socket}
  BY <1>1 DEF CloseAgain, theWorker, SocketClosed
<1>3. /\ x \in Channel /\ x.socket = Invalid /\ x.addrInfoReq = channel[c].addrInfoReq
      /\ x.state = "OPENING" => x.addrInfoReq # Nil
  BY DEF Closed, AresInv, TypeOK, Channel
<1> HIDE DEF x
<1> QED BY <1>1, <1>2, <1>3, SocketGiven

(* A step that leaves the list, the worker and the sockets alone; the      *)
(* socket of the channel that is broken off is closed, but not forgotten.  *)
LEMMA ChannelKeepsSocket ==
  ASSUME AresInv, UNCHANGED theList, NEW c \in Channels, NEW x \in Channel,
         channel' = [channel EXCEPT ![c] = x],
         x.socket = channel[c].socket,
         x.addrInfoReq \in {Nil, channel[c].addrInfoReq},
         x.state = "OPENING" => x.addrInfoReq # Nil /\ channel[c].state = "OPENING",
         UNCHANGED <<run, worker, pCurrElem, pNextElem, left, struck, undefined>>,
         server \in {"free", "receiving"},
         \/ server' = "free" /\ busy' \in {busy, Nil} /\ open' = open
         \/ /\ server' = "closing" /\ busy' = c
            /\ open' = open \ {channel[c].socket}
  PROVE  AresInv'
<1>1. /\ Linked' /\ Acyclic' /\ Allocated' = Allocated /\ WorkerRight' /\ ElementsRight'
      /\ \A f \in Elems : HasSocket(f)' <=> HasSocket(f)
  BY ListKept
<1>2. /\ channel' \in [Channels -> Channel] /\ channel'[c] = x
      /\ \A d \in Channels : d # c => channel'[d] = channel[d]
  BY DEF AresInv, TypeOK
<1>3. TypeOK'
  BY <1>2 DEF theList, AresInv, TypeOK
<1>4. \A d \in Channels : channel'[d].socket = channel[d].socket
  BY <1>2
<1>5. LookupsRight'
  <2>1. \A d \in Channels : channel'[d].addrInfoReq \in {Nil, channel[d].addrInfoReq}
    BY <1>2
  <2>2. \A d \in Channels : channel'[d].state = "OPENING" => channel'[d].socket = Invalid
    BY <1>2 DEF AresInv, LookupsRight
  <2> QED BY <1>1, <2>1, <2>2 DEF theList, AresInv, LookupsRight
<1>6. StopRight'
  BY DEF theList, AresInv, StopRight
<1>7. SocketsRight'
  <2>0. Invalid \notin Socket
    BY AresAssumption DEF Invalid, Socket
  <2>1. \A f \in Elems : HasSocket(f)' => HasSocket(f) /\ elem'[f] = elem[f] /\ elem[f].socket # Invalid
    BY <1>1, <2>0 DEF theList, HasSocket
  <2>2. \A d \in Channels : OwnsSocket(d)' => OwnsSocket(d) /\ (server' = "closing" => d # c)
    BY <1>4 DEF OwnsSocket
  <2>3. \A f \in Elems : HasSocket(f)' => elem'[f].socket \in open' \cup struck
    <3>1. CASE open' = open
      BY <2>1, <3>1 DEF AresInv, SocketsRight
    <3>2. CASE open' = open \ {channel[c].socket}
      BY <2>1, <3>2 DEF AresInv, SocketsRight, OwnsSocket
    <3> QED BY <3>1, <3>2
  <2>4. \A f, g \in Elems :
          HasSocket(f)' /\ HasSocket(g)' /\ elem'[f].socket = elem'[g].socket =>
            f = g \/ elem'[f].socket \in struck
    BY <2>1 DEF AresInv, SocketsRight
  <2>5. \A d \in Channels : OwnsSocket(d)' => channel'[d].socket \in open' \cup struck
    <3>1. CASE open' = open
      BY <1>4, <2>2, <3>1 DEF AresInv, SocketsRight
    <3>2. CASE server' = "closing" /\ open' = open \ {channel[c].socket}
      BY <1>4, <2>2, <3>2 DEF AresInv, SocketsRight, OwnsSocket
    <3> QED BY <3>1, <3>2
  <2>6. \A d, g \in Channels :
          OwnsSocket(d)' /\ OwnsSocket(g)' /\ channel'[d].socket = channel'[g].socket =>
            d = g \/ channel'[d].socket \in struck
    BY <1>4, <2>2 DEF AresInv, SocketsRight
  <2>7. \A f \in Elems, d \in Channels :
          HasSocket(f)' /\ OwnsSocket(d)' /\ elem'[f].socket = channel'[d].socket =>
            elem'[f].socket \in struck
    BY <1>4, <2>1, <2>2 DEF AresInv, SocketsRight
  <2> QED BY <2>3, <2>4, <2>5, <2>6, <2>7 DEF SocketsRight
<1> QED BY <1>1, <1>3, <1>5, <1>6, <1>7 DEF AresInv

LEMMA LookupFailedIInv ==
  ASSUME AresInv, NEW c \in Channels, LookupFailed(c)
  PROVE  AresInv'
<1> DEFINE x == [channel[c] EXCEPT !.actimode = FALSE]
<1>1. /\ UNCHANGED theList /\ server = "free" /\ UNCHANGED <<server, busy>> /\ open' = open
      /\ UNCHANGED <<run, worker, pCurrElem, pNextElem, left, struck, undefined>>
      /\ channel' = [channel EXCEPT ![c] = x]
  BY DEF LookupFailed, LookupDone, ServerFree, theWorker, theHistory, AresInv, TypeOK
<1>2. /\ x \in Channel /\ x.socket = channel[c].socket /\ x.addrInfoReq = channel[c].addrInfoReq
      /\ x.state = "OPENING" => x.addrInfoReq # Nil /\ channel[c].state = "OPENING"
  BY DEF AresInv, TypeOK, Channel
<1> HIDE DEF x
<1> QED BY <1>1, <1>2, ChannelKeepsSocket

LEMMA SendFailsIInv ==
  ASSUME AresInv, NEW c \in Channels, SendFails(c)
  PROVE  AresInv'
<1>1. PICK s \in {"SENDERROR", "CLOSED"} : channel' = [channel EXCEPT ![c].state = s]
  BY DEF SendFails
<1> DEFINE x == [channel[c] EXCEPT !.state = s]
<1>2. /\ UNCHANGED theList /\ server = "free" /\ UNCHANGED <<server, busy>> /\ open' = open
      /\ UNCHANGED <<run, worker, pCurrElem, pNextElem, left, struck, undefined>>
      /\ channel' = [channel EXCEPT ![c] = x]
  BY <1>1 DEF SendFails, ServerFree, theWorker, theHistory, AresInv, TypeOK
<1>3. /\ x \in Channel /\ x.socket = channel[c].socket /\ x.addrInfoReq = channel[c].addrInfoReq
      /\ x.state # "OPENING"
  BY DEF AresInv, TypeOK, Channel
<1> HIDE DEF x
<1> QED BY <1>2, <1>3, ChannelKeepsSocket

LEMMA ReceiveDataIInv ==
  ASSUME AresInv, NEW c \in Channels, ReceiveData(c)
  PROVE  AresInv'
<1>1. /\ UNCHANGED theList /\ server \in {"free", "receiving"} /\ server' = "free" /\ busy' = Nil
      /\ UNCHANGED <<run, worker, pCurrElem, pNextElem, left, struck, undefined>> /\ open' = open
      /\ channel' = [channel EXCEPT ![c] = channel[c]]
  BY DEF ReceiveData, Receiving, theWorker, theHistory, AresInv, TypeOK
<1>2. /\ channel[c] \in Channel /\ (channel[c].state = "OPENING" => channel[c].addrInfoReq # Nil)
  BY DEF AresInv, TypeOK
<1> QED BY <1>1, <1>2, ChannelKeepsSocket

LEMMA BreakIInv ==
  ASSUME AresInv, NEW c \in Channels, Break(c)
  PROVE  AresInv'
<1>1. /\ UNCHANGED theList /\ server \in {"free", "receiving"} /\ server' = "closing"
      /\ busy' = c
      /\ UNCHANGED <<run, worker, pCurrElem, pNextElem, left, struck, undefined>>
      /\ open' = open \ {channel[c].socket}
      /\ channel' = [channel EXCEPT ![c] = channel[c]]
  BY DEF Break, Receiving, theWorker, theHistory, SocketClosed, AresInv, TypeOK
<1>2. /\ channel[c] \in Channel /\ (channel[c].state = "OPENING" => channel[c].addrInfoReq # Nil)
  BY DEF AresInv, TypeOK
<1> QED BY <1>1, <1>2, ChannelKeepsSocket

LEMMA DeleteIInv ==
  ASSUME AresInv, ~undefined, NEW c \in Channels, Delete(c)
  PROVE  AresSafe'
<1> SUFFICES ASSUME ~undefined' PROVE AresInv'
  BY DEF AresSafe
<1>1. /\ server = "free" /\ channel[c].addrInfoReq = Nil
      /\ UNCHANGED <<pFirstElem, pLastElem, run, worker, pCurrElem, pNextElem, left, struck>>
      /\ undefined' = undefined
  <2>1. undefined' = FALSE
    BY DEF Delete
  <2>2. undefined = FALSE
    BY DEF AresInv, TypeOK
  <2> QED BY <2>1, <2>2 DEF Delete, ServerFree, theWorker
<1>2. UNCHANGED theList
  <2>1. elem' = [e \in Elems |-> IF e = channel[c].addrInfoReq THEN Freed ELSE elem[e]]
    BY DEF Delete
  <2>2. elem' = [e \in Elems |-> elem[e]]
    BY <1>1, <2>1, AresAssumption
  <2>3. elem' = elem
    BY <2>2 DEF AresInv, TypeOK
  <2> QED BY <1>1, <2>3 DEF theList
<1>3. CASE channel[c].socket = Invalid
  <2> DEFINE x == [state |-> "CLOSED", socket |-> Invalid, addrInfoReq |-> Nil, actimode |-> FALSE]
  <2>1. channel' = [channel EXCEPT ![c] = x] /\ UNCHANGED <<server, busy, open>>
    BY <1>3 DEF Delete
  <2>2. x \in Channel /\ x.socket = channel[c].socket /\ x.addrInfoReq = Nil /\ x.state # "OPENING"
    BY <1>3 DEF Channel
  <2> HIDE DEF x
  <2> QED BY <1>1, <1>2, <2>1, <2>2, ChannelKeepsSocket
<1>4. CASE channel[c].socket # Invalid
  <2> DEFINE x == [channel[c] EXCEPT !.addrInfoReq = Nil, !.actimode = FALSE]
  <2>1. /\ channel' = [channel EXCEPT ![c] = x] /\ server' = "closing" /\ busy' = c
        /\ open' = open \ {channel[c].socket}
    BY <1>4 DEF Delete, SocketClosed, AresInv, TypeOK
  <2>2. x \in Channel /\ x.socket = channel[c].socket /\ x.addrInfoReq = Nil /\ x.state = channel[c].state
    BY DEF AresInv, TypeOK, Channel
  <2>3. x.state # "OPENING"
    BY <1>4, <2>2 DEF AresInv, LookupsRight
  <2> HIDE DEF x
  <2> QED BY <1>1, <1>2, <2>1, <2>2, <2>3, ChannelKeepsSocket
<1> QED BY <1>3, <1>4

(* The element is given back by the channel c that it belongs to, and its  *)
(* socket, if it is taken, has no other holder.                            *)
LEMMA GivenBack ==
  ASSUME AresInv, NEW c \in Channels, LookupDone(c),
         NEW e \in Elems, e = channel[c].addrInfoReq,
         elem' = [elem EXCEPT ![e].delete = TRUE],
         NEW x \in Channel, channel' = [channel EXCEPT ![c] = x],
         x.state # "OPENING", x.addrInfoReq = Nil,
         x.socket = Invalid \/ (x.socket = elem[e].socket /\ x.socket \in Socket),
         UNCHANGED <<pFirstElem, pLastElem, open>>,
         server' \in {"free", "receiving"}, busy' \in Channels \cup {Nil}
  PROVE  AresInv'
<1>1. /\ UNCHANGED <<run, worker, pCurrElem, pNextElem, left, struck, undefined>> /\ server = "free"
      /\ elem[e].status = "DONE" /\ channel[c].state = "OPENING"
      /\ channel[c].socket = Invalid /\ e # Nil /\ e \in Allocated /\ ~elem[e].delete
  BY AresAssumption DEF LookupDone, ServerFree, theWorker, theHistory, AresInv, LookupsRight
<1> DEFINE y == [elem[e] EXCEPT !.delete = TRUE]
<1>2. elem' = [elem EXCEPT ![e] = y]
  BY DEF AresInv, TypeOK
<1>3. /\ y \in Element /\ y.status = "DONE" /\ y.pNext = elem[e].pNext /\ y.delete
      /\ y.pPrevious = elem[e].pPrevious /\ y.socket = elem[e].socket
  <2>1. elem[e] \in Element
    BY DEF AresInv, TypeOK
  <2> QED
    BY <1>1, <2>1 DEF Element
<1> HIDE DEF y
<1>4. /\ elem' \in [Elems -> Element] /\ elem'[e] = y
      /\ \A f \in Elems : f # e => elem'[f] = elem[f]
  BY <1>2, <1>3 DEF AresInv, TypeOK
<1>5. /\ channel' \in [Channels -> Channel] /\ channel'[c] = x
      /\ \A d \in Channels : d # c => channel'[d] = channel[d]
  BY DEF AresInv, TypeOK
<1>6. Linked' /\ Acyclic' /\ Allocated' = Allocated
  <2>1. LinksKept
    BY <1>1, <1>3, <1>4 DEF LinksKept
  <2> QED BY <2>1, LinksKeptSound DEF AresInv
<1>7. TypeOK'
  BY <1>1, <1>4, <1>5 DEF AresInv, TypeOK
<1>8. WorkerRight'
  <2>1. Working => pCurrElem # e
    BY <1>1, WorkedFor
  <2>2. pCurrElem \in Allocated => pCurrElem \in Elems /\ elem'[pCurrElem].pNext = elem[pCurrElem].pNext
    BY <1>3, <1>4 DEF Allocated
  <2>3. Working => elem'[pCurrElem] = elem[pCurrElem]
    BY <1>4, <2>1, WorkedFor
  <2> QED BY <1>1, <1>6, <2>2, <2>3 DEF AresInv, WorkerRight, Working
<1>9. ElementsRight'
  <2>1. worker = "resolve" => elem'[pCurrElem].socket = 0
    BY <1>1, <1>4, WorkedFor DEF Working, AresInv, ElementsRight
  <2> QED BY <1>1, <1>3, <1>4, <2>1 DEF AresInv, ElementsRight
<1>10. LookupsRight'
  <2>1. \A d \in Channels : d # c => channel[d].addrInfoReq # e
    BY <1>1 DEF AresInv, LookupsRight
  <2>2. \A d \in Channels : channel'[d].addrInfoReq # Nil =>
          /\ d # c /\ channel'[d] = channel[d] /\ channel[d].addrInfoReq # e
          /\ channel[d].addrInfoReq \in Allocated /\ channel[d].addrInfoReq \in Elems
          /\ ~elem[channel[d].addrInfoReq].delete
    BY <1>5, <2>1 DEF AresInv, LookupsRight, Allocated
  <2>3. \A d \in Channels : channel'[d].addrInfoReq # Nil =>
          channel'[d].addrInfoReq \in Allocated' /\ ~elem'[channel'[d].addrInfoReq].delete
    BY <1>4, <1>6, <2>2
  <2>4. \A d, g \in Channels :
          channel'[d].addrInfoReq # Nil /\ channel'[d].addrInfoReq = channel'[g].addrInfoReq => d = g
    <3> SUFFICES ASSUME NEW d \in Channels, NEW g \in Channels,
                        channel'[d].addrInfoReq # Nil, channel'[d].addrInfoReq = channel'[g].addrInfoReq
                 PROVE  d = g
      OBVIOUS
    <3>1. channel'[d] = channel[d] /\ channel'[g] = channel[g]
      BY <2>2
    <3> QED BY <3>1 DEF AresInv, LookupsRight
  <2>5. \A d \in Channels : channel'[d].state = "OPENING" => channel'[d].socket = Invalid
    BY <1>5 DEF AresInv, LookupsRight
  <2> QED BY <2>3, <2>4, <2>5 DEF LookupsRight
<1>11. StopRight'
  <2>1. server' # "joining"
    OBVIOUS
  <2>2. /\ (run => pLastElem # Nil /\ worker # "ended")'
        /\ (~run => pLastElem = Nil /\ worker = "ended")'
    BY <1>1 DEF AresInv, StopRight
  <2> QED BY <2>1, <2>2 DEF StopRight
<1>12. SocketsRight'
  <2>1. \A f \in Elems : HasSocket(f)' => f # e /\ HasSocket(f) /\ elem'[f] = elem[f]
    BY <1>3, <1>4, <1>6 DEF HasSocket
  <2>2. Invalid \notin Socket
    BY AresAssumption DEF Invalid, Socket
  <2>3. x.socket # Invalid => HasSocket(e) /\ x.socket = elem[e].socket
    BY <1>1 DEF HasSocket
  <2>4. \A d \in Channels : d # c /\ OwnsSocket(d)' => channel'[d] = channel[d] /\ OwnsSocket(d)
    BY <1>1, <1>5 DEF OwnsSocket
  <2>5. OwnsSocket(c)' => x.socket # Invalid /\ channel'[c].socket = x.socket
    BY <1>5 DEF OwnsSocket
  <2>6. \A f \in Elems : HasSocket(f)' => elem'[f].socket \in open' \cup struck'
    BY <1>1, <2>1 DEF AresInv, SocketsRight
  <2>7. \A f, g \in Elems :
          HasSocket(f)' /\ HasSocket(g)' /\ elem'[f].socket = elem'[g].socket =>
            f = g \/ elem'[f].socket \in struck'
    BY <1>1, <2>1 DEF AresInv, SocketsRight
  <2>8. \A d \in Channels : OwnsSocket(d)' => channel'[d].socket \in open' \cup struck'
    BY <1>1, <2>3, <2>4, <2>5 DEF AresInv, SocketsRight
  <2>9. \A d \in Channels :
          d # c /\ OwnsSocket(d) /\ x.socket # Invalid /\ channel[d].socket = x.socket => x.socket \in struck
    BY <2>3 DEF AresInv, SocketsRight
  <2>10. \A d, g \in Channels :
           OwnsSocket(d)' /\ OwnsSocket(g)' /\ channel'[d].socket = channel'[g].socket =>
             d = g \/ channel'[d].socket \in struck'
    <3> SUFFICES ASSUME NEW d \in Channels, NEW g \in Channels, OwnsSocket(d)', OwnsSocket(g)', d # g,
                        channel'[d].socket = channel'[g].socket
                 PROVE  channel'[d].socket \in struck
      BY <1>1
    <3>1. CASE d = c
      BY <2>4, <2>5, <2>9, <3>1
    <3>2. CASE g = c
      BY <2>4, <2>5, <2>9, <3>2
    <3>3. CASE d # c /\ g # c
      BY <2>4, <3>3 DEF AresInv, SocketsRight
    <3> QED BY <3>1, <3>2, <3>3
  <2>11. \A f \in Elems, d \in Channels :
           HasSocket(f)' /\ OwnsSocket(d)' /\ elem'[f].socket = channel'[d].socket =>
             elem'[f].socket \in struck'
    <3> SUFFICES ASSUME NEW f \in Elems, NEW d \in Channels, HasSocket(f)', OwnsSocket(d)',
                        elem'[f].socket = channel'[d].socket
                 PROVE  elem'[f].socket \in struck
      BY <1>1
    <3>1. f # e /\ HasSocket(f) /\ elem'[f] = elem[f]
      BY <2>1
    <3>2. CASE d # c
      BY <2>4, <3>1, <3>2 DEF AresInv, SocketsRight
    <3>3. CASE d = c
      BY <2>3, <2>5, <3>1, <3>3 DEF AresInv, SocketsRight
    <3> QED BY <3>2, <3>3
  <2> QED BY <2>6, <2>7, <2>8, <2>10, <2>11 DEF SocketsRight
<1> QED BY <1>6, <1>7, <1>8, <1>9, <1>10, <1>11, <1>12 DEF AresInv

LEMMA ConnectFailedIInv ==
  ASSUME AresInv, NEW c \in Channels, ConnectFailed(c)
  PROVE  AresInv'
<1> DEFINE e == channel[c].addrInfoReq
           x == [channel[c] EXCEPT !.state = "COULDNOTOPEN", !.addrInfoReq = Nil, !.actimode = FALSE]
<1>1. /\ LookupDone(c) /\ elem' = [elem EXCEPT ![e].delete = TRUE]
      /\ UNCHANGED <<pFirstElem, pLastElem, open, server, busy>>
      /\ channel' = [channel EXCEPT ![c] = x] /\ server = "free"
  BY DEF ConnectFailed, LookupDone, ServerFree, AresInv, TypeOK
<1>2. e \in Elems /\ channel[c].socket = Invalid
  BY <1>1 DEF LookupDone, AresInv, TypeOK, Channel, LookupsRight
<1>3. x \in Channel /\ x.state = "COULDNOTOPEN" /\ x.addrInfoReq = Nil /\ x.socket = Invalid
  BY <1>2 DEF AresInv, TypeOK, Channel
<1>4. busy' \in Channels \cup {Nil}
  BY <1>1 DEF AresInv, TypeOK
<1> HIDE DEF x
<1>5. ASSUME NEW f \in Elems, f = e PROVE AresInv'
  BY <1>1, <1>3, <1>4, <1>5, GivenBack
<1> QED BY <1>2, <1>5

LEMMA ConnectedIInv ==
  ASSUME AresInv, NEW c \in Channels, Connected(c)
  PROVE  AresInv'
<1> DEFINE e == channel[c].addrInfoReq
           x == [channel[c] EXCEPT !.state = "OPEN", !.addrInfoReq = Nil, !.socket = elem[e].socket]
<1>1. /\ LookupDone(c) /\ elem' = [elem EXCEPT ![e].delete = TRUE]
      /\ ~elem[e].failed /\ elem[e].socket \in open
      /\ UNCHANGED <<pFirstElem, pLastElem, open>> /\ server' = "receiving" /\ busy' = c
      /\ channel' = [channel EXCEPT ![c] = x]
  BY DEF Connected, LookupDone, ServerFree, AresInv, TypeOK
<1>2. e \in Elems /\ elem[e].status = "DONE" /\ ~elem[e].delete
  BY <1>1 DEF LookupDone, AresInv, TypeOK, Channel, LookupsRight
<1>3. elem[e].socket \in Socket
  BY <1>1 DEF AresInv, TypeOK
<1>4. x \in Channel /\ x.state = "OPEN" /\ x.addrInfoReq = Nil /\ x.socket = elem[e].socket
  BY <1>3 DEF AresInv, TypeOK, Channel
<1> HIDE DEF x
<1>5. ASSUME NEW f \in Elems, f = e PROVE AresInv'
  BY <1>1, <1>3, <1>4, <1>5, GivenBack
<1> QED BY <1>2, <1>5

(* A new element is linked behind the last one, which had none behind it:  *)
(* the worker sees it now or in its next pass.                             *)
LEMMA OpenConnectionIInv ==
  ASSUME AresInv, NEW c \in Channels, OpenConnection(c)
  PROVE  AresInv'
<1>1. /\ server = "free" /\ pLastElem # Nil /\ open' = open \ {channel[c].socket}
      /\ UNCHANGED <<pFirstElem, server, busy, run, worker, pCurrElem, pNextElem, left, struck, undefined>>
  BY DEF OpenConnection, ServerFree, theWorker, theHistory, SocketClosed
<1>2. PICK e \in Elems \ Allocated :
        /\ elem' = [elem EXCEPT ![e] = Calloc("WAITING", pLastElem), ![pLastElem].pNext = e]
        /\ pLastElem' = e
        /\ channel' = [channel EXCEPT ![c] = [state |-> "OPENING", socket |-> Invalid,
                                              addrInfoReq |-> e, actimode |-> TRUE]]
  BY DEF OpenConnection
<1> DEFINE x == [state |-> "OPENING", socket |-> Invalid, addrInfoReq |-> e, actimode |-> TRUE]
<1>3. PICK p \in Allocated : p = pLastElem
  BY <1>1 DEF AresInv, Linked
<1>4. /\ p \in Elems /\ p # e /\ p # Nil /\ e # Nil /\ elem[p].pNext = Nil
      /\ \A f \in Allocated : f \in Elems /\ f # e /\ Link(f)
  BY <1>3, AresAssumption DEF AresInv, Linked, Link, Allocated
<1> DEFINE y == Calloc("WAITING", p)
           z == [elem[p] EXCEPT !.pNext = e]
<1>5. elem' = [elem EXCEPT ![e] = y, ![p] = z]
  BY <1>2, <1>3, <1>4 DEF AresInv, TypeOK
<1>6. /\ y \in Element /\ y.status = "WAITING" /\ ~y.delete /\ y.socket = 0
      /\ y.pPrevious = p /\ y.pNext = Nil
  BY <1>4 DEF Calloc, Element
<1>7. /\ z \in Element /\ z.status = elem[p].status /\ z.delete = elem[p].delete
      /\ z.socket = elem[p].socket /\ z.failed = elem[p].failed
      /\ z.pPrevious = elem[p].pPrevious /\ z.pNext = e
  BY <1>4, Fields DEF AresInv, Element
<1>8. x \in Channel /\ x.state = "OPENING" /\ x.socket = Invalid /\ x.addrInfoReq = e
  BY DEF Channel
<1> HIDE DEF x, y, z
<1>9. /\ elem' \in [Elems -> Element] /\ elem'[e] = y /\ elem'[p] = z
      /\ \A f \in Elems : f \notin {e, p} => elem'[f] = elem[f]
  BY <1>4, <1>5, <1>6, <1>7 DEF AresInv, TypeOK
<1>10. /\ channel' \in [Channels -> Channel] /\ channel'[c] = x
       /\ \A d \in Channels : d # c => channel'[d] = channel[d]
  BY <1>2, <1>8 DEF AresInv, TypeOK, x
<1>11. \A f \in Elems : f # e =>
         /\ elem'[f].status = elem[f].status /\ elem'[f].delete = elem[f].delete
         /\ elem'[f].socket = elem[f].socket /\ elem'[f].failed = elem[f].failed
         /\ elem'[f].pPrevious = elem[f].pPrevious
         /\ elem'[f].pNext = IF f = p THEN e ELSE elem[f].pNext
  BY <1>7, <1>9
<1>12. Allocated' = Allocated \cup {e}
  BY <1>6, <1>9, <1>11 DEF Allocated
<1>13. TypeOK'
  BY <1>1, <1>2, <1>4, <1>8, <1>9, <1>10 DEF AresInv, TypeOK
<1>14. Linked'
  <2>1. (pLastElem # Nil => {pFirstElem, pLastElem} \subseteq Allocated)'
    BY <1>1, <1>2, <1>12 DEF AresInv, Linked
  <2>2. Link(e)'
    <3>1. pFirstElem' # e
      BY <1>1, <1>2 DEF AresInv, Linked
    <3> QED BY <1>2, <1>4, <1>6, <1>7, <1>9, <1>12, <3>1 DEF Link
  <2>3. ASSUME NEW f \in Allocated PROVE Link(f)'
    <3>1. f \in Elems /\ f # e /\ Link(f)
      BY <1>4
    <3>2. elem'[f].pNext = Nil <=> f = pLastElem'
      <4>1. elem[f].pNext = Nil => f = p
        BY <1>3, <3>1 DEF Link
      <4>2. elem'[f].pNext # Nil
        BY <1>4, <1>11, <3>1, <4>1
      <4>3. f # pLastElem'
        BY <1>2, <3>1
      <4> QED BY <4>2, <4>3
    <3>3. elem'[f].pPrevious = Nil <=> f = pFirstElem'
      BY <1>1, <1>11, <3>1 DEF Link
    <3>4. elem'[f].pNext # Nil =>
            elem'[f].pNext \in Allocated' /\ elem'[elem'[f].pNext].pPrevious = f
      <4>1. CASE f = p
        BY <1>4, <1>6, <1>9, <1>11, <1>12, <4>1
      <4>2. CASE f # p
        BY <1>4, <1>11, <1>12, <3>1, <4>2 DEF Link
      <4> QED BY <4>1, <4>2
    <3>5. elem'[f].pPrevious # Nil =>
            elem'[f].pPrevious \in Allocated' /\ elem'[elem'[f].pPrevious].pNext = f
      <4> SUFFICES ASSUME elem[f].pPrevious # Nil
                   PROVE  /\ elem[f].pPrevious \in Allocated'
                          /\ elem'[elem[f].pPrevious].pNext = f
        BY <1>11, <3>1
      <4>1. elem[f].pPrevious \in Allocated /\ elem[elem[f].pPrevious].pNext = f
        BY <3>1 DEF Link
      <4>2. elem[f].pPrevious # p
        BY <1>4, <3>1, <4>1, AresAssumption
      <4> QED BY <1>4, <1>11, <1>12, <4>1, <4>2
    <3> QED BY <3>2, <3>3, <3>4, <3>5 DEF Link
  <2> QED BY <1>12, <2>1, <2>2, <2>3 DEF Linked
<1>15. Acyclic'
  <2>1. PICK rank \in [Elems -> Int] : Ascends(rank)
    BY DEF AresInv, Acyclic
  <2> DEFINE r == [rank EXCEPT ![e] = rank[p] + 1]
  <2>2. r \in [Elems -> Int] /\ r[e] = rank[p] + 1 /\ rank[p] \in Int
    BY <1>4, <2>1
  <2>3. \A f \in Elems : f # e => r[f] = rank[f]
    BY <2>1
  <2> HIDE DEF r
  <2>4. \A f \in Allocated : elem[f].pNext # Nil => elem[f].pNext # e
    BY <1>4 DEF Link
  <2>5. ASSUME NEW f \in Allocated', elem'[f].pNext # Nil PROVE r[f] < r[elem'[f].pNext]
    <3>1. f # e /\ f \in Allocated /\ f \in Elems
      BY <1>4, <1>6, <1>9, <1>12, <2>5
    <3>2. CASE f = p
      BY <1>4, <1>11, <2>2, <2>3, <3>1, <3>2
    <3>3. CASE f # p
      <4>1. elem'[f].pNext = elem[f].pNext /\ elem[f].pNext # Nil
        BY <1>11, <2>5, <3>1, <3>3
      <4>2. elem[f].pNext \in Elems /\ elem[f].pNext # e
        BY <1>4, <2>4, <3>1, <4>1 DEF Link
      <4>3. rank[f] < rank[elem[f].pNext]
        BY <2>1, <3>1, <4>1 DEF Ascends
      <4> QED BY <2>3, <3>1, <4>1, <4>2, <4>3
    <3> QED BY <3>2, <3>3
  <2> QED BY <2>2, <2>5 DEF Acyclic, Ascends
<1>16. WorkerRight'
  <2>1. worker \notin {"sleep", "ended"} => pCurrElem \in Allocated
    BY DEF AresInv, WorkerRight
  <2>2. pCurrElem \in Allocated =>
          /\ pCurrElem \in Elems /\ pCurrElem # e
          /\ elem'[pCurrElem].status = elem[pCurrElem].status
          /\ elem'[pCurrElem].socket = elem[pCurrElem].socket
    BY <1>4, <1>11
  <2>3. pCurrElem \in Allocated =>
          elem'[pCurrElem].pNext = elem[pCurrElem].pNext \/ elem[pCurrElem].pNext = Nil
    BY <1>4, <1>11
  <2> QED BY <1>1, <1>12, <2>1, <2>2, <2>3 DEF AresInv, WorkerRight, Working
<1>17. ElementsRight'
  <2>1. worker = "resolve" => elem'[pCurrElem].socket = 0
    BY <1>4, <1>11, WorkedFor DEF Working, AresInv, ElementsRight
  <2> QED BY <1>1, <1>6, <1>9, <1>11, <2>1 DEF AresInv, ElementsRight
<1>18. LookupsRight'
  <2>1. \A d \in Channels : d # c /\ channel[d].addrInfoReq # Nil =>
          /\ channel[d].addrInfoReq \in Allocated
          /\ channel[d].addrInfoReq \in Elems /\ channel[d].addrInfoReq # e
          /\ ~elem[channel[d].addrInfoReq].delete
    BY <1>4 DEF AresInv, LookupsRight
  <2>2. \A d \in Channels : channel'[d].addrInfoReq # Nil =>
          channel'[d].addrInfoReq \in Allocated' /\ ~elem'[channel'[d].addrInfoReq].delete
    <3> TAKE d \in Channels
    <3>1. CASE d = c
      BY <1>6, <1>8, <1>9, <1>10, <1>12, <3>1
    <3>2. CASE d # c
      BY <1>10, <1>11, <1>12, <2>1, <3>2
    <3> QED BY <3>1, <3>2
  <2>3. \A d, g \in Channels :
          channel'[d].addrInfoReq # Nil /\ channel'[d].addrInfoReq = channel'[g].addrInfoReq => d = g
    BY <1>4, <1>8, <1>10, <2>1 DEF AresInv, LookupsRight
  <2>4. \A d \in Channels : channel'[d].state = "OPENING" => channel'[d].socket = Invalid
    BY <1>8, <1>10 DEF AresInv, LookupsRight
  <2> QED BY <2>2, <2>3, <2>4 DEF LookupsRight
<1>19. StopRight'
  <2>1. run
    BY <1>1 DEF AresInv, StopRight
  <2> QED BY <1>1, <1>2, <1>4, <2>1 DEF AresInv, StopRight
<1>20. SocketsRight'
  <2>1. \A f \in Elems : HasSocket(f)' => f # e /\ HasSocket(f) /\ elem'[f].socket = elem[f].socket
    <3>1. 0 \notin Socket
      BY DEF Socket
    <3> QED BY <1>6, <1>9, <1>11, <1>12, <3>1 DEF HasSocket
  <2>2. Invalid \notin Socket
    BY AresAssumption DEF Invalid, Socket
  <2>3. \A d \in Channels : OwnsSocket(d)' => d # c /\ OwnsSocket(d) /\ channel'[d] = channel[d]
    BY <1>1, <1>8, <1>10 DEF OwnsSocket
  <2>4. OwnsSocket(c) \/ channel[c].socket = Invalid
    BY <1>1 DEF OwnsSocket
  <2>5. \A f \in Elems : HasSocket(f) => elem[f].socket # Invalid
    BY <2>2 DEF HasSocket
  <2>6. \A f \in Elems : HasSocket(f)' => elem'[f].socket \in open' \cup struck'
    BY <1>1, <2>1, <2>4, <2>5 DEF AresInv, SocketsRight
  <2>7. \A f, g \in Elems :
          HasSocket(f)' /\ HasSocket(g)' /\ elem'[f].socket = elem'[g].socket =>
            f = g \/ elem'[f].socket \in struck'
    BY <1>1, <2>1 DEF AresInv, SocketsRight
  <2>8. \A d \in Channels : OwnsSocket(d)' => channel'[d].socket \in open' \cup struck'
    BY <1>1, <2>3, <2>4 DEF AresInv, SocketsRight, OwnsSocket
  <2>9. \A d, g \in Channels :
          OwnsSocket(d)' /\ OwnsSocket(g)' /\ channel'[d].socket = channel'[g].socket =>
            d = g \/ channel'[d].socket \in struck'
    BY <1>1, <2>3 DEF AresInv, SocketsRight
  <2>10. \A f \in Elems, d \in Channels :
           HasSocket(f)' /\ OwnsSocket(d)' /\ elem'[f].socket = channel'[d].socket =>
             elem'[f].socket \in struck'
    BY <1>1, <2>1, <2>3 DEF AresInv, SocketsRight
  <2> QED BY <1>1, <2>6, <2>7, <2>8, <2>9, <2>10 DEF SocketsRight
<1> QED BY <1>13, <1>14, <1>15, <1>16, <1>17, <1>18, <1>19, <1>20 DEF AresInv

LEMMA StopWorkerIInv == AresInv /\ StopWorker => AresInv'
<1> SUFFICES ASSUME AresInv, StopWorker PROVE AresInv'
  OBVIOUS
<1>1. /\ UNCHANGED theList /\ server = "free" /\ run /\ ~run' /\ run' = FALSE /\ server' = "joining"
      /\ UNCHANGED <<worker, pCurrElem, pNextElem, left, channel, busy, open, struck, undefined>>
  BY DEF StopWorker, theHistory
<1>2. /\ Linked' /\ Acyclic' /\ Allocated' = Allocated /\ WorkerRight' /\ ElementsRight'
      /\ \A f \in Elems : HasSocket(f)' <=> HasSocket(f)
  BY <1>1, ListKept
<1>3. TypeOK'
  BY <1>1 DEF theList, AresInv, TypeOK
<1>4. LookupsRight' /\ StopRight'
  BY <1>1, <1>2 DEF theList, AresInv, LookupsRight, StopRight
<1>5. SocketsRight'
  BY <1>1, <1>2 DEF theList, AresInv, SocketsRight, OwnsSocket
<1> QED BY <1>2, <1>3, <1>4, <1>5 DEF AresInv

(* The list is freed when the worker has ended; if no channel has a lookup *)
(* then all is well.                                                       *)
LEMMA JoinedIInv == AresInv /\ ~undefined /\ Joined => AresSafe'
<1> SUFFICES ASSUME AresInv, ~undefined, Joined, ~undefined' PROVE AresInv'
  BY DEF AresSafe
<1>1. /\ server = "joining" /\ worker = "ended" /\ server' = "free"
      /\ elem' = [e \in Elems |-> Freed] /\ pFirstElem' = Nil /\ pLastElem' = Nil
      /\ UNCHANGED <<run, worker, pCurrElem, pNextElem, left, channel, busy, open, struck>>
      /\ \A c \in Channels : channel[c].addrInfoReq = Nil
      /\ undefined' \in BOOLEAN
  BY DEF Joined, theWorker
<1>2. Freed \in Element /\ Freed.status = "FREED" /\ ~Freed.delete
  BY DEF Freed, Calloc, Element
<1>3. \A e \in Elems : elem'[e].status = "FREED" /\ ~elem'[e].delete
  BY <1>1, <1>2
<1>4. Allocated' = {}
  BY <1>3 DEF Allocated
<1>5. TypeOK'
  BY <1>1, <1>2 DEF AresInv, TypeOK
<1>6. Linked' /\ WorkerRight' /\ ElementsRight'
  BY <1>1, <1>3, <1>4 DEF Linked, WorkerRight, Working, ElementsRight
<1>7. Acyclic'
  <2>1. [e \in Elems |-> 0] \in [Elems -> Int]
    OBVIOUS
  <2> QED BY <1>4, <2>1 DEF Acyclic, Ascends
<1>8. LookupsRight'
  BY <1>1 DEF AresInv, LookupsRight
<1>9. LookupsRight' /\ StopRight'
  BY <1>1, <1>8 DEF AresInv, LookupsRight, StopRight
<1>10. SocketsRight'
  <2>1. \A e \in Elems : ~HasSocket(e)'
    BY <1>4 DEF HasSocket
  <2>2. \A c \in Channels : OwnsSocket(c)' => OwnsSocket(c)
    BY <1>1 DEF OwnsSocket
  <2> QED BY <1>1, <2>1, <2>2 DEF AresInv, SocketsRight
<1> QED BY <1>5, <1>6, <1>7, <1>9, <1>10 DEF AresInv

----------------------------------------------------------------------------
(* The inductive argument.                                                 *)

LEMMA StutterIInv == AresInv /\ UNCHANGED aresVars => AresInv'
<1> SUFFICES ASSUME AresInv, UNCHANGED aresVars PROVE AresInv'
  OBVIOUS
<1>1. /\ UNCHANGED <<elem, pFirstElem, pLastElem, run, worker, pCurrElem, pNextElem, left>>
      /\ UNCHANGED <<channel, server, busy, open, struck, undefined>> /\ UNCHANGED theList
  BY DEF aresVars, theList
<1>2. /\ Linked' /\ Acyclic' /\ Allocated' = Allocated /\ WorkerRight' /\ ElementsRight'
      /\ \A f \in Elems : HasSocket(f)' <=> HasSocket(f)
  BY <1>1, ListKept
<1>3. TypeOK'
  BY <1>1 DEF AresInv, TypeOK
<1>4. LookupsRight' /\ StopRight'
  BY <1>1, <1>2 DEF AresInv, LookupsRight, StopRight
<1>5. SocketsRight'
  BY <1>1, <1>2 DEF AresInv, SocketsRight, OwnsSocket
<1> QED BY <1>2, <1>3, <1>4, <1>5 DEF AresInv

LEMMA NextIInv == AresSafe /\ [AresNext]_aresVars => AresSafe'
<1> SUFFICES ASSUME AresSafe, [AresNext]_aresVars PROVE AresSafe'
  OBVIOUS
<1>0. CASE undefined
  <2>1. UNCHANGED aresVars
    BY <1>0 DEF AresNext, Worker, Return, AfterLookup
  <2> QED BY <1>0, <2>1 DEF aresVars, AresSafe
<1> SUFFICES ASSUME ~undefined PROVE AresSafe'
  BY <1>0
<1> SUFFICES ASSUME AresInv PROVE AresSafe'
  BY DEF AresSafe
<1>1. CASE Worker
  BY <1>1, StartPassIInv, VisitIInv, ResolveIInv, CreateSocketIInv, ConnectIInv,
     ConnectFailsIInv, CheckDeleteIInv DEF Worker, AresSafe
<1>2. CASE Return
  BY <1>2, CloseAgainIInv, JoinedIInv, ReceiveDataIInv DEF Return, AresSafe
<1>3. CASE StopWorker
  BY <1>3, StopWorkerIInv DEF AresSafe
<1>4. ASSUME NEW c \in Channels, Calls(c) PROVE AresSafe'
  <2>1. CASE CloseConnection(c)
    BY <2>1, CloseConnectionIInv DEF AresSafe
  <2>2. CASE OpenConnection(c)
    BY <2>2, OpenConnectionIInv DEF AresSafe
  <2>3. CASE InsertFails(c)
    BY <2>3, InsertFailsIInv DEF AresSafe
  <2>4. CASE SendFails(c)
    BY <2>4, SendFailsIInv DEF AresSafe
  <2>5. CASE Delete(c)
    BY <2>5, DeleteIInv
  <2>6. CASE PeerCloses(c)
    BY <2>6, PeerClosesIInv DEF AresSafe
  <2>7. CASE Break(c)
    BY <2>7, BreakIInv DEF AresSafe
  <2> QED BY <1>4, <2>1, <2>2, <2>3, <2>4, <2>5, <2>6, <2>7 DEF Calls
<1>5. ASSUME NEW c \in Channels, AfterLookup(c) PROVE AresSafe'
  BY <1>5, LookupFailedIInv, ConnectFailedIInv, ConnectedIInv DEF AfterLookup, AresSafe
<1>6. CASE UNCHANGED aresVars
  BY <1>6, StutterIInv DEF AresSafe
<1> QED BY <1>1, <1>2, <1>3, <1>4, <1>5, <1>6 DEF AresNext

(* The invariant gives what is claimed of the list and of the sockets.     *)
LEMMA IInvList == AresInv => ListSound
<1> SUFFICES ASSUME AresInv PROVE ListSound
  OBVIOUS
<1>1. \A c \in Channels : channel[c].addrInfoReq \in Allocated \cup {Nil}
  BY DEF AresInv, LookupsRight
<1>2. /\ worker \notin {"sleep", "ended"} => pCurrElem \in Allocated
      /\ worker \in {"resolve", "socket", "connect", "check"} =>
           pNextElem \in {Nil, elem[pCurrElem].pNext}
  BY DEF AresInv, WorkerRight, Working
<1>3. /\ pLastElem # Nil => {pFirstElem, pLastElem} \subseteq Allocated
      /\ \A e \in Allocated :
           /\ elem[e].pNext = Nil <=> e = pLastElem
           /\ elem[e].pPrevious = Nil <=> e = pFirstElem
           /\ elem[e].pNext # Nil => /\ elem[e].pNext \in Allocated
                                     /\ elem[elem[e].pNext].pPrevious = e
  BY DEF AresInv, Linked, Link
<1> QED BY <1>1, <1>2, <1>3 DEF AresInv, ListSound

LEMMA IInvSockets == AresInv => SocketsHeld
<1> SUFFICES ASSUME AresInv, NEW s \in Socket \ struck
             PROVE  Cardinality(Holders(s)) <= 1 /\ (Holders(s) # {} => s \in open)
  BY DEF SocketsHeld
<1>1. Invalid \notin Socket
  BY AresAssumption DEF Invalid, Socket
<1>2. \A h \in Holders(s) :
        \/ h \in Elems /\ HasSocket(h) /\ elem[h].socket = s
        \/ h \in Channels /\ OwnsSocket(h) /\ channel[h].socket = s
  BY <1>1 DEF Holders, HasSocket, OwnsSocket, Allocated
<1>3. \A g, h \in Holders(s) : g = h
  <2> SUFFICES ASSUME NEW g \in Holders(s), NEW h \in Holders(s) PROVE g = h
    OBVIOUS
  <2>1. CASE g \in Elems /\ HasSocket(g) /\ elem[g].socket = s
    BY <1>2, <2>1 DEF AresInv, SocketsRight
  <2>2. CASE g \in Channels /\ OwnsSocket(g) /\ channel[g].socket = s
    BY <1>2, <2>2 DEF AresInv, SocketsRight
  <2> QED BY <1>2, <2>1, <2>2
<1>4. Cardinality(Holders(s)) <= 1
  <2>1. CASE Holders(s) = {}
    BY <2>1, FS_EmptySet
  <2>2. CASE Holders(s) # {}
    <3>1. PICK h \in Holders(s) : TRUE
      BY <2>2
    <3>2. Holders(s) = {h}
      BY <1>3, <3>1
    <3>3. Cardinality({h}) = 1
      BY FS_Singleton
    <3> QED BY <3>2, <3>3
  <2> QED BY <2>1, <2>2
<1>5. \A h \in Holders(s) : s \in open
  BY <1>2 DEF AresInv, SocketsRight
<1> QED BY <1>4, <1>5

(* What two threads without a lock depend on: neither holds a pointer to   *)
(* what has been freed, the list is linked both ways, and a socket that    *)
(* the worker has connected goes to one channel and stays open until that  *)
(* closes it (aresWorker.c, TCPChannel.c); whatever breaks, is opened,     *)
(* closed or deleted meanwhile.  Excepted are the numbers of sockets that  *)
(* were closed twice with the worker in between (struck), as long as they  *)
(* are named, and what follows when a channel is deleted or the worker     *)
(* stopped with a lookup not yet taken over (undefined).                   *)
THEOREM ListAndSocketsAreSound == AresSpec => []ListAndSocketsSound
<1>1. AresInit => AresSafe
  BY InitIInv DEF AresSafe
<1>2. AresSafe /\ [AresNext]_aresVars => AresSafe'
  BY NextIInv
<1>3. AresSafe => ListAndSocketsSound
  BY IInvList, IInvSockets DEF ListAndSocketsSound, AresSafe
<1> QED BY <1>1, <1>2, <1>3, PTL DEF AresSpec

----------------------------------------------------------------------------
(* Registration: for any agents and names, any intervals and any number of *)
(* faults.                                                                 *)

(* The lemmas about sequences; those about pointers are not used.          *)
General == INSTANCE Lemmas WITH Nil <- {}

Results == {"OK", "SYSTEM_ERR", "NOMANAGER"}
Message == [what : {"REGISTER", "UNREGISTER"}, own : BOOLEAN, conn : BOOLEAN, more : BOOLEAN]
Reply   == [result : Results, own : BOOLEAN]
ComType == [state : {"NOTREGISTERED", "WAITING", "ERROR", "REGISTERED"},
            tries : Nat, cyc : {Retry, Period, Slow}, next : Nat]
ClType  == [state : {"INITIAL", "AWAITINGCONNECTION", "AWAITINGANSWER", "COMPLETED", "ERROR"},
            actimode : {0, 1}, callback : BOOLEAN, result : Results, since : Nat]

Versions  == {id[a].version : id \in Idents, a \in Agents}
Protocols == {id[a].protocol : id \in Idents, a \in Agents}
Lefts     == {x \in Int : x <= TTL}
Reps      == [kind : {"rep"}, version : Versions, protocols : Seq(Protocols \cup {Nothing}),
              short : BOOLEAN, left : Lefts, state : {"ONLINE", "INACTIVE"}]
Entries   == {NoDomain, EmptyDomain} \cup Reps

Types ==
  /\ ident \in Idents
  /\ up \subseteq Agents
  /\ com \in [Agents -> ComType]
  /\ cl \in [Agents -> ClType]
  /\ out \in [Agents -> Seq(Message)]
  /\ wire \in [Agents -> Seq(Message)]
  /\ buf \in [Agents -> Seq(Message)]
  /\ answers \in [Agents -> Seq(Reply)]
  /\ servers \in [Names -> Entries]

(* Of an agent that is up or not, with the states m of the agent and c of  *)
(* its client, with s under way back, b received by the manager, w under   *)
(* way to it and o in v_outData: of all that, at most one bears the xid    *)
(* the client compares with.  It is the last, what is before it was left   *)
(* by requests that were given up, and as long as there is one, the agent  *)
(* waits.                                                                  *)
Answered(c) == c.state = "COMPLETED" /\ c.actimode = 1

NoneOwn(r) == \A i \in 1..Len(r) : ~r[i].own
OwnLast(r) == \A i \in 1..Len(r) : r[i].own => i = Len(r)

Quiet(b, w, o) == b = <<>> /\ w = <<>> /\ o = <<>>

Chain(s, b, w, o) ==
  /\ OwnLast(s) /\ OwnLast(b) /\ OwnLast(w) /\ OwnLast(o)
  /\ NoneOwn(s) \/ Quiet(b, w, o)
  /\ NoneOwn(b) \/ (w = <<>> /\ o = <<>>)
  /\ NoneOwn(w) \/ o = <<>>

NothingOwn(s, b, w, o) == NoneOwn(s) /\ NoneOwn(b) /\ NoneOwn(w) /\ NoneOwn(o)

OneAwaited(u, m, c, s, b, w, o) ==
  /\ Chain(s, b, w, o)
  /\ NothingOwn(s, b, w, o) \/ (u /\ m.state = "WAITING" /\ ~Answered(c))
  /\ Answered(c) => u /\ m.state = "WAITING"
  /\ m.state = "WAITING" => m.next <= Slow
  /\ m.state = "REGISTERED" => m.tries = 0

(* It is listed in entry e, so that the entry outlasts the time till its   *)
(* next run and another one.                                               *)
Held(e, id) == e.kind = "rep" /\ e.version = id.version /\ Contains(e.protocols, id.protocol)

Lasts(m, e, id, more) == Held(e, id) /\ m.next + more < e.left + Linger

(* So it is if it is registered, and, till then, if the answer says so     *)
(* that arrives or that the client has, unless memory was lacking (x).     *)
(* Nothing of its own is under way then that could change it.              *)
Promised(u, m, c, s, b, w, o, e, id, x) ==
  u => /\ m.state = "REGISTERED" => Quiet(b, w, o) /\ (x \/ Lasts(m, e, id, 0))
       /\ Answered(c) /\ c.result = "OK" => Quiet(b, w, o) /\ (x \/ Lasts(m, e, id, Period))
       /\ \A i \in 1..Len(s) : s[i].own /\ s[i].result = "OK" => x \/ Lasts(m, e, id, Period)

IInv ==
  /\ Types
  /\ \A a \in Agents :
       OneAwaited(a \in up, com[a], cl[a], answers[a], buf[a], wire[a], out[a])
  /\ \A a \in Agents :
       Promised(a \in up, com[a], cl[a], answers[a], buf[a], wire[a], out[a], Entry(a), ident[a],
                a \in unlisted)

LEMMA Intervals ==
  /\ Retry \in Nat /\ Period \in Nat /\ Slow \in Nat /\ TTL \in Nat /\ Linger \in Nat
  /\ ClientTimeout \in Nat /\ Retry > 0 /\ Period > 0 /\ Slow > 0 /\ TTL > 0
  /\ Retry <= Slow /\ Period <= Slow /\ Period + Slow < TTL + Linger
  /\ MaxOut \in Nat \ {0}
BY RegistrationAssumption

LEMMA IdentTypes ==
  ASSUME Types, NEW a \in Agents
  PROVE  /\ ident[a].name \in Names /\ ident[a].version \in Versions /\ ident[a].protocol \in Protocols
         /\ Entry(a) \in Entries
BY RegistrationAssumption DEF Types, Versions, Protocols, Entry

(* Two agents of one name and version have different protocols.            *)
LEMMA Different ==
  ASSUME Types, NEW a \in Agents, NEW b \in Agents, a # b,
         ident[a].name = ident[b].name, ident[a].version = ident[b].version
  PROVE  ident[a].protocol # ident[b].protocol
<1> DEFINE f == [d \in Agents |-> <<ident[d].name, ident[d].version, ident[d].protocol>>]
<1>1. IsInjective(f)
  BY RegistrationAssumption DEF Types
<1>2. f[a] = f[b] => a = b
  BY <1>1 DEF IsInjective
<1> QED
  BY <1>2

LEMMA MaxMinOfTwo ==
  ASSUME NEW x \in Int, NEW y \in Int
  PROVE  /\ Max({x, y}) \in Int /\ Max({x, y}) >= x /\ Max({x, y}) \in {x, y}
         /\ Min({x, y}) \in {x, y}
<1>1. \E m \in {x, y} : \A k \in {x, y} : m >= k
  OBVIOUS
<1>2. \E m \in {x, y} : \A k \in {x, y} : m <= k
  OBVIOUS
<1>3. Max({x, y}) \in {x, y} /\ \A k \in {x, y} : Max({x, y}) >= k
  BY <1>1 DEF Max
<1>4. Min({x, y}) \in {x, y}
  BY <1>2 DEF Min
<1> QED
  BY <1>3, <1>4

----------------------------------------------------------------------------
(* What joining and cutting requests does to those that are awaited.       *)
LEMMA JoinedOwn ==
  ASSUME NEW X, NEW s \in Seq(X), NEW t \in Seq(X)
  PROVE  /\ s \o t \in Seq(X)
         /\ NoneOwn(s) /\ NoneOwn(t) => NoneOwn(s \o t)
         /\ OwnLast(s) /\ OwnLast(t) /\ (NoneOwn(s) \/ t = <<>>) => OwnLast(s \o t)
<1> DEFINE v == s \o t
<1>1. /\ v \in Seq(X) /\ Len(v) = Len(s) + Len(t) /\ Len(s) \in Nat /\ Len(t) \in Nat
      /\ \A i \in 1..Len(s) + Len(t) : v[i] = IF i <= Len(s) THEN s[i] ELSE t[i - Len(s)]
  BY ConcatProperties, LenProperties
<1>2. t = <<>> => v = s
  BY ConcatEmptySeq
<1> HIDE DEF v
<1>3. ASSUME NEW i \in 1..Len(v)
      PROVE  \/ i \in 1..Len(s) /\ v[i] = s[i]
             \/ i - Len(s) \in 1..Len(t) /\ v[i] = t[i - Len(s)]
  BY <1>1
<1>4. ASSUME NoneOwn(s), NoneOwn(t)
      PROVE  NoneOwn(v)
  BY <1>3, <1>4 DEF NoneOwn
<1>5. ASSUME NoneOwn(s), OwnLast(t)
      PROVE  OwnLast(v)
  <2>1. ASSUME NEW i \in 1..Len(v), v[i].own
        PROVE  i = Len(v)
    <3>1. i - Len(s) \in 1..Len(t) /\ v[i] = t[i - Len(s)]
      BY <1>3, <1>5, <2>1 DEF NoneOwn
    <3>2. i - Len(s) = Len(t)
      BY <1>5, <2>1, <3>1 DEF OwnLast
    <3> QED
      BY <1>1, <3>2
  <2> QED
    BY <2>1 DEF OwnLast
<1> QED
  BY <1>1, <1>2, <1>4, <1>5 DEF v

LEMMA CutOff ==
  ASSUME NEW X, NEW s \in Seq(X), NEW n \in 1..Len(s)
  PROVE  LET t == SubSeq(s, n + 1, Len(s))
         IN  /\ t \in Seq(X)
             /\ \A i \in 1..Len(t) : i + n \in 1..Len(s) /\ t[i] = s[i + n]
             /\ NoneOwn(s) => NoneOwn(t)
             /\ OwnLast(s) => OwnLast(t)
             /\ n = Len(s) => t = <<>>
<1> DEFINE t == SubSeq(s, n + 1, Len(s))
<1>0. Len(s) \in Nat /\ \A i \in 1..Len(s) : s[i] \in X
  BY LenProperties, ElementOfSeq
<1>1. /\ t \in Seq(X)
      /\ Len(t) = IF n + 1 <= Len(s) THEN Len(s) - (n + 1) + 1 ELSE 0
      /\ \A i \in 1..(Len(s) - (n + 1) + 1) : t[i] = s[(n + 1) + i - 1]
  BY <1>0, SubSeqProperties
<1>2. n = Len(s) => t = <<>>
  BY <1>0, SubSeqEmpty
<1> HIDE DEF t
<1>3. Len(t) = Len(s) - n
  BY <1>0, <1>1
<1>4. ASSUME NEW i \in 1..Len(t)
      PROVE  i + n \in 1..Len(s) /\ t[i] = s[i + n]
  <2>1. (n + 1) + i - 1 = i + n /\ i \in 1..(Len(s) - (n + 1) + 1)
    BY <1>0, <1>3
  <2> QED
    BY <1>0, <1>1, <1>3, <2>1
<1>5. NoneOwn(s) => NoneOwn(t)
  BY <1>4 DEF NoneOwn
<1>6. ASSUME OwnLast(s), NEW i \in 1..Len(t), t[i].own
      PROVE  i = Len(t)
  <2>1. i + n = Len(s)
    BY <1>4, <1>6 DEF OwnLast
  <2> QED
    BY <1>0, <1>3, <2>1
<1>7. OwnLast(s) => OwnLast(t)
  BY <1>6 DEF OwnLast
<1> QED
  BY <1>1, <1>2, <1>4, <1>5, <1>7 DEF t

LEMMA CutTo ==
  ASSUME NEW X, NEW s \in Seq(X), NEW n \in 1..Len(s)
  PROVE  LET t == SubSeq(s, 1, n)
         IN  /\ t \in Seq(X) /\ Len(t) = n
             /\ \A i \in 1..n : i \in 1..Len(s) /\ t[i] = s[i]
<1> DEFINE t == SubSeq(s, 1, n)
<1>0. Len(s) \in Nat /\ \A i \in 1..n : s[i] \in X
  BY LenProperties, ElementOfSeq
<1>1. /\ t \in Seq(X)
      /\ Len(t) = IF 1 <= n THEN n - 1 + 1 ELSE 0
      /\ \A i \in 1..(n - 1 + 1) : t[i] = s[1 + i - 1]
  BY <1>0, SubSeqProperties
<1> HIDE DEF t
<1>2. ASSUME NEW i \in 1..n
      PROVE  i \in 1..Len(s) /\ t[i] = s[i]
  <2>1. 1 + i - 1 = i /\ i \in 1..(n - 1 + 1)
    OBVIOUS
  <2> QED
    BY <1>0, <1>1, <2>1
<1> QED
  BY <1>1, <1>2 DEF t

LEMMA EmptyOwn == NoneOwn(<<>>) /\ OwnLast(<<>>)
BY DEF NoneOwn, OwnLast

LEMMA NoneIsLast ==
  ASSUME NEW r, NoneOwn(r)
  PROVE  OwnLast(r)
BY DEF NoneOwn, OwnLast

(* A request that was given up is not awaited any more.                    *)
LEMMA ForeignProperties ==
  ASSUME NEW r \in Seq(Message)
  PROVE  Foreign(r) \in Seq(Message) /\ NoneOwn(Foreign(r))
<1>1. Len(r) \in Nat /\ DOMAIN r = 1..Len(r) /\ \A i \in 1..Len(r) : r[i] \in Message
  OBVIOUS
<1> DEFINE v == [i \in 1..Len(r) |-> [r[i] EXCEPT !.own = FALSE]]
<1>2. v \in [1..Len(r) -> Message] /\ \A i \in 1..Len(r) : ~v[i].own
  BY <1>1 DEF Message
<1>3. Foreign(r) = v
  BY <1>1 DEF Foreign
<1> HIDE DEF v
<1>4. v \in Seq(Message)
  BY <1>1, <1>2, IsASeq
<1>5. Len(v) = Len(r)
  BY <1>1, <1>2, <1>4, LenProperties
<1> QED
  BY <1>2, <1>3, <1>4, <1>5 DEF NoneOwn

LEMMA OrphanedProperties ==
  ASSUME NEW b \in Seq(Message), NEW w \in Seq(Message)
  PROVE  /\ Orphaned(b, w) \in Seq(Message) /\ NoneOwn(Orphaned(b, w))
         /\ w = <<>> => Orphaned(b, w) = <<>>
<1> DEFINE r == b \o w
<1>1. r \in Seq(Message)
  BY ConcatProperties
<1> HIDE DEF r
<1>2. Len(r) \in Nat /\ \A i \in 1..Len(r) : r[i] \in Message
  BY <1>1
<1> DEFINE v == [i \in 1..Len(r) |-> [r[i] EXCEPT !.own = FALSE, !.conn = FALSE,
                                                   !.more = r[i].more \/ i <= Len(b)]]
<1>3. v \in [1..Len(r) -> Message] /\ \A i \in 1..Len(r) : ~v[i].own
  BY <1>2 DEF Message
<1>4. Orphaned(b, w) = IF w = <<>> THEN <<>> ELSE v
  BY DEF Orphaned, r
<1> HIDE DEF v
<1>5. v \in Seq(Message)
  BY <1>2, <1>3, IsASeq
<1>6. Len(v) = Len(r)
  BY <1>2, <1>3, <1>5, LenProperties
<1>7. NoneOwn(v)
  BY <1>3, <1>6 DEF NoneOwn
<1>8. <<>> \in Seq(Message)
  OBVIOUS
<1> QED
  BY <1>4, <1>5, <1>7, <1>8, EmptyOwn

(* A new request is behind all others.                                     *)
LEMMA QueuedProperties ==
  ASSUME IInv, NEW a \in Agents, NEW what \in {"REGISTER", "UNREGISTER"}
  PROVE  Queued(a, what) \in Seq(Message) /\ OwnLast(Queued(a, what))
<1> DEFINE r == out[a]
           v == [i \in 1..Len(r) |-> [r[i] EXCEPT !.own = FALSE, !.more = TRUE]]
           x == New(what)
           q == v \o <<x>>
<1>1. r \in Seq(Message) /\ Len(r) \in Nat /\ DOMAIN r = 1..Len(r) /\ \A i \in 1..Len(r) : r[i] \in Message
  BY DEF IInv, Types
<1>2. v \in [1..Len(r) -> Message] /\ \A i \in 1..Len(r) : ~v[i].own
  BY <1>1 DEF Message
<1>3. x \in Message
  BY DEF New, Message
<1>4. Queued(a, what) = LastOnes(q)
  BY <1>1 DEF Queued
<1> HIDE DEF v, x
<1>5. v \in Seq(Message) /\ Len(v) = Len(r)
  <2>1. v \in Seq(Message)
    BY <1>1, <1>2, IsASeq
  <2> QED
    BY <1>1, <1>2, <2>1, LenProperties
<1>6. NoneOwn(v)
  BY <1>2, <1>5 DEF NoneOwn
<1>7. <<x>> \in Seq(Message) /\ OwnLast(<<x>>)
  BY <1>3 DEF OwnLast
<1>8. q \in Seq(Message) /\ OwnLast(q)
  BY <1>5, <1>6, <1>7, NoneIsLast, JoinedOwn
<1> HIDE DEF q
<1>9. CASE Len(q) <= MaxOut
  BY <1>4, <1>8, <1>9 DEF LastOnes
<1>10. CASE ~(Len(q) <= MaxOut)
  <2> DEFINE k == Len(q) - MaxOut
  <2>1. k \in 1..Len(q)
    BY <1>8, <1>10, Intervals
  <2>2. LastOnes(q) = SubSeq(q, k + 1, Len(q))
    BY <1>10 DEF LastOnes
  <2> HIDE DEF k
  <2> QED
    BY <1>4, <1>8, <2>1, <2>2, CutOff
<1> QED
  BY <1>9, <1>10

----------------------------------------------------------------------------
LEMMA InitKeeps == Init => IInv
<1> SUFFICES ASSUME Init
             PROVE  IInv
  OBVIOUS
<1>1. NewCom \in ComType /\ NewClient \in ClType
  BY Intervals DEF NewCom, NewClient, ComType, ClType, Results
<1>2. Types
  BY <1>1 DEF Init, Types, Entries
<1>3. ASSUME NEW a \in Agents
      PROVE  OneAwaited(a \in up, com[a], cl[a], answers[a], buf[a], wire[a], out[a])
  BY EmptyOwn DEF Init, OneAwaited, Chain, NothingOwn, Answered, NewCom, NewClient
<1>4. ASSUME NEW a \in Agents
      PROVE  Promised(a \in up, com[a], cl[a], answers[a], buf[a], wire[a], out[a], Entry(a), ident[a],
                      a \in unlisted)
  BY DEF Init, Promised
<1> QED
  BY <1>2, <1>3, <1>4 DEF IInv

(* What is known of one agent, before and after a step.                    *)
OneTyped(a) ==
  /\ com[a] \in ComType /\ cl[a] \in ClType /\ answers[a] \in Seq(Reply)
  /\ buf[a] \in Seq(Message) /\ wire[a] \in Seq(Message) /\ out[a] \in Seq(Message)

OneKept(a) ==
  /\ OneAwaited(a \in up, com[a], cl[a], answers[a], buf[a], wire[a], out[a])
  /\ Promised(a \in up, com[a], cl[a], answers[a], buf[a], wire[a], out[a], Entry(a), ident[a],
              a \in unlisted)

LEMMA OfOne ==
  ASSUME IInv, NEW a \in Agents
  PROVE  OneTyped(a) /\ OneKept(a)
BY DEF IInv, Types, OneTyped, OneKept

(* A step that changes nothing but one agent and its messages.             *)
OnlyOf(a) ==
  /\ up' \subseteq Agents /\ \A b \in Agents \ {a} : b \in up' <=> b \in up
  /\ com' = [com EXCEPT ![a] = com'[a]] /\ cl' = [cl EXCEPT ![a] = cl'[a]]
  /\ out' = [out EXCEPT ![a] = out'[a]] /\ wire' = [wire EXCEPT ![a] = wire'[a]]
  /\ buf' = [buf EXCEPT ![a] = buf'[a]] /\ answers' = [answers EXCEPT ![a] = answers'[a]]
  /\ UNCHANGED <<ident, servers, unlisted>>

LEMMA OneAgent ==
  ASSUME IInv, NEW a \in Agents, OnlyOf(a), OneTyped(a)', OneKept(a)'
  PROVE  IInv'
<1>1. Types'
  <2>1. com' \in [Agents -> ComType] /\ cl' \in [Agents -> ClType]
    BY DEF IInv, Types, OnlyOf, OneTyped
  <2>2. wire' \in [Agents -> Seq(Message)] /\ answers' \in [Agents -> Seq(Reply)]
    BY DEF IInv, Types, OnlyOf, OneTyped
  <2>3. out' \in [Agents -> Seq(Message)] /\ buf' \in [Agents -> Seq(Message)]
    BY DEF IInv, Types, OnlyOf, OneTyped
  <2> QED
    BY <2>1, <2>2, <2>3 DEF IInv, Types, OnlyOf
<1>2. ASSUME NEW b \in Agents, b # a
      PROVE  /\ (b \in up') <=> (b \in up)
             /\ com'[b] = com[b] /\ cl'[b] = cl[b] /\ wire'[b] = wire[b] /\ answers'[b] = answers[b]
             /\ out'[b] = out[b] /\ buf'[b] = buf[b]
  <2>1. (b \in up') <=> (b \in up)
    BY <1>2 DEF OnlyOf
  <2>2. com'[b] = com[b] /\ cl'[b] = cl[b]
    BY <1>2 DEF IInv, Types, OnlyOf
  <2>3. wire'[b] = wire[b] /\ answers'[b] = answers[b]
    BY <1>2 DEF IInv, Types, OnlyOf
  <2>4. out'[b] = out[b] /\ buf'[b] = buf[b]
    BY <1>2 DEF IInv, Types, OnlyOf
  <2> QED
    BY <2>1, <2>2, <2>3, <2>4
<1>3. \A b \in Agents : Entry(b)' = Entry(b) /\ ident'[b] = ident[b]
  BY DEF OnlyOf, Entry
<1>4. unlisted' = unlisted
  BY DEF OnlyOf
<1>5. ASSUME NEW b \in Agents
      PROVE  OneKept(b)'
  <2>1. CASE b = a
    BY <2>1
  <2>2. CASE b # a
    <3>1. OneKept(b)
      BY OfOne
    <3>2. OneAwaited(b \in up, com[b], cl[b], answers[b], buf[b], wire[b], out[b])'
      BY <1>2, <2>2, <3>1 DEF OneKept, OneAwaited
    <3>3. Promised(b \in up, com[b], cl[b], answers[b], buf[b], wire[b], out[b], Entry(b), ident[b],
                   b \in unlisted)'
      BY <1>2, <1>3, <1>4, <2>2, <3>1 DEF OneKept, Promised
    <3> QED
      BY <3>2, <3>3 DEF OneKept
  <2> QED
    BY <2>1, <2>2
<1> QED
  BY <1>1, <1>5 DEF IInv, OneKept

(* An agent that does not wait has nothing under way that is awaited.      *)
LEMMA NotWaiting ==
  ASSUME NEW u, NEW m, NEW c, NEW s, NEW b, NEW w, NEW o,
         OneAwaited(u, m, c, s, b, w, o), ~u \/ m.state # "WAITING" \/ Answered(c)
  PROVE  NothingOwn(s, b, w, o)
BY DEF OneAwaited

(* A new request, or what waits in v_outData, is sent or put there.        *)
LEMMA ChainNew ==
  ASSUME NEW s \in Seq(Reply), NEW b \in Seq(Message), NEW w \in Seq(Message), NEW o \in Seq(Message),
         NEW q \in Seq(Message), NothingOwn(s, b, w, o), OwnLast(q)
  PROVE  Chain(s, b, w \o q, <<>>) /\ Chain(s, b, w, q) /\ w \o q \in Seq(Message)
<1>1. OwnLast(s) /\ OwnLast(b) /\ OwnLast(w)
  BY NoneIsLast DEF NothingOwn
<1>2. w \o q \in Seq(Message) /\ OwnLast(w \o q)
  BY <1>1, JoinedOwn DEF NothingOwn
<1> QED
  BY <1>1, <1>2, EmptyOwn DEF Chain, NothingOwn

LEMMA ChainSent ==
  ASSUME NEW s \in Seq(Reply), NEW b \in Seq(Message), NEW w \in Seq(Message), NEW o \in Seq(Message),
         Chain(s, b, w, o)
  PROVE  /\ Chain(s, b, w \o o, <<>>) /\ w \o o \in Seq(Message)
         /\ NothingOwn(s, b, w, o) => NothingOwn(s, b, w \o o, <<>>)
<1>1. w \o o \in Seq(Message) /\ OwnLast(w \o o)
  BY JoinedOwn DEF Chain
<1>2. NothingOwn(s, b, w, o) => NothingOwn(s, b, w \o o, <<>>)
  BY JoinedOwn, EmptyOwn DEF NothingOwn
<1>3. w = <<>> /\ o = <<>> => w \o o = <<>>
  BY ConcatEmptySeq
<1> QED
  BY <1>1, <1>2, <1>3, EmptyOwn DEF Chain, Quiet

LEMMA ChainNone ==
  ASSUME NEW s, NEW b, NEW w, NEW o, NothingOwn(s, b, w, o)
  PROVE  Chain(s, b, w, o)
BY NoneIsLast DEF NothingOwn, Chain

----------------------------------------------------------------------------
(* The steps of one agent and of its messages.                             *)
LEMMA RequestKeeps ==
  ASSUME IInv, NEW a \in Agents, a \in up, Request(a), UNCHANGED <<ident, up, servers, unlisted>>
  PROVE  IInv'
<1> DEFINE s == answers[a]  b == buf[a]  w == wire[a]  o == out[a]  c == cl[a]  m == com[a]
           q == Queued(a, "REGISTER")
           n == [state |-> "WAITING", tries |-> m.tries + 1, cyc |-> Retry, next |-> m.cyc]
<1>1. /\ m \in ComType /\ c \in ClType /\ s \in Seq(Reply)
      /\ b \in Seq(Message) /\ w \in Seq(Message) /\ o \in Seq(Message)
      /\ OneAwaited(a \in up, m, c, s, b, w, o)
      /\ m.state # "WAITING"
  BY OfOne DEF Request, OneTyped, OneKept
<1>2. com' = [com EXCEPT ![a] = n] /\ com'[a] = n
  BY DEF Request, IInv, Types
<1>3. n \in ComType /\ n.state = "WAITING" /\ n.next <= Slow
  <2>1. m.tries + 1 \in Nat /\ m.cyc \in {Retry, Period, Slow}
    BY <1>1 DEF ComType
  <2>2. m.cyc \in Nat /\ m.cyc <= Slow
    BY <2>1, Intervals
  <2> QED
    BY <2>1, <2>2 DEF ComType
<1>4. NothingOwn(s, b, w, o)
  BY <1>1, NotWaiting
<1>5. ~Answered(c)
  BY <1>1 DEF OneAwaited
<1>6. q \in Seq(Message) /\ OwnLast(q)
  <2>1. "REGISTER" \in {"REGISTER", "UNREGISTER"}
    OBVIOUS
  <2> QED
    BY <2>1, QueuedProperties
<1> HIDE DEF n
<1>7. CASE UNCHANGED <<cl, network>>
  <2>1. /\ OnlyOf(a) /\ cl'[a] = c /\ answers'[a] = s /\ buf'[a] = b /\ wire'[a] = w /\ out'[a] = o
    BY <1>2, <1>7 DEF OnlyOf, IInv, Types, network
  <2>2. OneAwaited(a \in up, n, c, s, b, w, o)
    BY <1>1, <1>3, <1>4, <1>5 DEF OneAwaited
  <2>3. Promised(a \in up, n, c, s, b, w, o, Entry(a), ident[a], a \in unlisted)
    BY <1>3, <1>4, <1>5 DEF Promised, NothingOwn, NoneOwn
  <2>4. Entry(a)' = Entry(a)
    BY DEF Entry
  <2>5. OneTyped(a)'
    BY <1>1, <1>2, <1>3, <2>1 DEF OneTyped
  <2>6. OneKept(a)'
    BY <1>2, <2>1, <2>2, <2>3, <2>4 DEF OneKept
  <2> QED
    BY <2>1, <2>5, <2>6, OneAgent
<1>8. CASE Send(a, q, TRUE)
  <2> DEFINE d == [c EXCEPT !.state = "AWAITINGANSWER", !.actimode = 1, !.callback = TRUE, !.since = 0]
             v == w \o q
  <2>1. /\ OnlyOf(a) /\ cl'[a] = d /\ answers'[a] = s /\ buf'[a] = b /\ wire'[a] = v /\ out'[a] = <<>>
    BY <1>2, <1>8 DEF Send, OnlyOf, IInv, Types
  <2>2. v \in Seq(Message) /\ Chain(s, b, v, <<>>)
    BY <1>1, <1>4, <1>6, ChainNew
  <2>3. d \in ClType /\ d.state = "AWAITINGANSWER" /\ ~Answered(d)
    BY <1>1 DEF ClType, Answered
  <2> HIDE DEF d, v
  <2>4. OneAwaited(a \in up, n, d, s, b, v, <<>>)
    BY <1>3, <2>2, <2>3 DEF OneAwaited
  <2>5. Promised(a \in up, n, d, s, b, v, <<>>, Entry(a), ident[a], a \in unlisted)
    BY <1>3, <1>4, <2>3 DEF Promised, NothingOwn, NoneOwn
  <2>6. Entry(a)' = Entry(a)
    BY DEF Entry
  <2>7. OneTyped(a)'
    BY <1>1, <1>2, <1>3, <2>1, <2>2, <2>3 DEF OneTyped
  <2>8. OneKept(a)'
    BY <1>2, <2>1, <2>4, <2>5, <2>6 DEF OneKept
  <2> QED
    BY <2>1, <2>7, <2>8, OneAgent
<1>9. CASE Await(a, q, TRUE)
  <2>1. PICK t \in Nat :
          cl' = [cl EXCEPT ![a] = [c EXCEPT !.state = "AWAITINGCONNECTION", !.actimode = 1,
                                            !.callback = TRUE, !.since = t]]
    BY <1>1, <1>9 DEF Await, ClType
  <2> DEFINE d == [c EXCEPT !.state = "AWAITINGCONNECTION", !.actimode = 1, !.callback = TRUE, !.since = t]
  <2>2. /\ OnlyOf(a) /\ cl'[a] = d /\ answers'[a] = s /\ buf'[a] = b /\ wire'[a] = w /\ out'[a] = q
    BY <1>2, <1>9, <2>1 DEF Await, OnlyOf, IInv, Types
  <2>3. d \in ClType /\ d.state = "AWAITINGCONNECTION" /\ ~Answered(d)
    BY <1>1 DEF ClType, Answered
  <2> HIDE DEF d, q
  <2>4. Chain(s, b, w, q)
    BY <1>1, <1>4, <1>6, ChainNew
  <2>5. OneAwaited(a \in up, n, d, s, b, w, q)
    BY <1>3, <2>3, <2>4 DEF OneAwaited
  <2>6. Promised(a \in up, n, d, s, b, w, q, Entry(a), ident[a], a \in unlisted)
    BY <1>3, <1>4, <2>3 DEF Promised, NothingOwn, NoneOwn
  <2>7. Entry(a)' = Entry(a)
    BY DEF Entry
  <2>8. OneTyped(a)'
    BY <1>1, <1>2, <1>3, <1>6, <2>2, <2>3 DEF OneTyped
  <2>9. OneKept(a)'
    BY <1>2, <2>2, <2>5, <2>6, <2>7 DEF OneKept
  <2> QED
    BY <2>2, <2>8, <2>9, OneAgent
<1> QED
  BY <1>7, <1>8, <1>9 DEF Request, RequestRegister

(* After a reset nothing is under way that is awaited.                     *)
LEMMA ResetKeeps ==
  ASSUME IInv, NEW a \in Agents, Reset(a), NEW n \in ComType, com' = [com EXCEPT ![a] = n],
         n.state \notin {"WAITING", "REGISTERED"}, UNCHANGED <<ident, up, servers, unlisted>>
  PROVE  IInv'
<1> DEFINE v == Orphaned(buf[a], wire[a])
           f == Foreign(out[a])
           d == [NewClient EXCEPT !.since = cl[a].since]
<1>1. wire[a] \in Seq(Message) /\ buf[a] \in Seq(Message) /\ out[a] \in Seq(Message) /\ cl[a] \in ClType
  BY OfOne DEF OneTyped
<1>2. OnlyOf(a) /\ com'[a] = n /\ cl'[a] = d
  BY DEF Reset, Disconnect, OnlyOf, IInv, Types
<1>3. answers'[a] = <<>> /\ buf'[a] = <<>> /\ wire'[a] = v /\ out'[a] = f
  BY DEF Reset, Disconnect, IInv, Types
<1>4. v \in Seq(Message) /\ NoneOwn(v)
  BY <1>1, OrphanedProperties
<1>5. f \in Seq(Message) /\ NoneOwn(f)
  BY <1>1, ForeignProperties
<1>6. d \in ClType /\ ~Answered(d)
  BY <1>1 DEF ClType, NewClient, Answered, Results
<1> HIDE DEF d, v, f
<1>7. NothingOwn(<<>>, <<>>, v, f) /\ Chain(<<>>, <<>>, v, f)
  BY <1>4, <1>5, EmptyOwn, ChainNone DEF NothingOwn
<1>8. OneAwaited(a \in up, n, d, <<>>, <<>>, v, f)
  BY <1>6, <1>7 DEF OneAwaited
<1>9. Promised(a \in up, n, d, <<>>, <<>>, v, f, Entry(a), ident[a], a \in unlisted)
  BY <1>6 DEF Promised
<1>10. Entry(a)' = Entry(a)
  BY DEF Entry
<1>11. OneKept(a)'
  BY <1>2, <1>3, <1>8, <1>9, <1>10 DEF OneKept
<1>12. OneTyped(a)'
  BY <1>2, <1>3, <1>4, <1>5, <1>6 DEF OneTyped
<1> QED
  BY <1>2, <1>11, <1>12, OneAgent

LEMMA ComRunKeeps ==
  ASSUME IInv, NEW a \in Agents, ComRun(a)
  PROVE  IInv'
<1>1. com[a] \in ComType /\ (com[a].state = "REGISTERED" => com[a].tries = 0)
  BY OfOne DEF OneTyped, OneKept, OneAwaited
<1>2. a \in up /\ UNCHANGED <<ident, up, servers, unlisted>>
  BY DEF ComRun, ComDue, manager
<1>3. CASE Request(a)
  BY <1>2, <1>3, RequestKeeps
<1>4. CASE Pause(a)
  <2> DEFINE n == [com[a] EXCEPT !.tries = 0, !.cyc = Slow, !.next = com[a].cyc]
  <2>1. com' = [com EXCEPT ![a] = n] /\ Reset(a)
    BY <1>4 DEF Pause
  <2>2. com[a].state \notin {"WAITING", "REGISTERED"}
    BY <1>1, <1>4 DEF ComType, Pause
  <2>3. com[a].cyc \in Nat /\ Slow \in {Retry, Period, Slow}
    BY <1>1, Intervals DEF ComType
  <2>4. n \in ComType /\ n.state \notin {"WAITING", "REGISTERED"}
    BY <1>1, <2>2, <2>3 DEF ComType
  <2> QED
    BY <1>2, <2>1, <2>4, ResetKeeps
<1>5. CASE GiveUp(a)
  <2> DEFINE n == [state |-> "ERROR", tries |-> com[a].tries + 1, cyc |-> Retry, next |-> com[a].cyc]
  <2>1. com' = [com EXCEPT ![a] = n] /\ Reset(a)
    BY <1>5 DEF GiveUp
  <2>2. n \in ComType /\ n.state \notin {"WAITING", "REGISTERED"}
    BY <1>1, <1>5, Intervals DEF ComType
  <2> QED
    BY <1>2, <2>1, <2>2, ResetKeeps
<1> QED
  BY <1>3, <1>4, <1>5 DEF ComRun

(* What waits is sent, by the client or by the channel.                    *)
LEMMA SentKeeps ==
  ASSUME IInv, NEW a \in Agents, NEW d \in ClType, OnlyOf(a), up' = up,
         com'[a] = com[a], cl'[a] = d, answers'[a] = answers[a], buf'[a] = buf[a],
         wire'[a] = wire[a] \o out[a], out'[a] = <<>>,
         d = cl[a] \/ (cl[a].state = "AWAITINGCONNECTION" /\ d.state = "AWAITINGANSWER")
  PROVE  IInv'
<1> DEFINE s == answers[a]  b == buf[a]  w == wire[a]  o == out[a]  c == cl[a]  m == com[a]
           v == w \o o
<1>1. /\ m \in ComType /\ c \in ClType /\ s \in Seq(Reply)
      /\ b \in Seq(Message) /\ w \in Seq(Message) /\ o \in Seq(Message)
      /\ OneAwaited(a \in up, m, c, s, b, w, o)
      /\ Promised(a \in up, m, c, s, b, w, o, Entry(a), ident[a], a \in unlisted)
  BY OfOne DEF OneTyped, OneKept
<1>2. /\ Chain(s, b, v, <<>>) /\ v \in Seq(Message)
      /\ NothingOwn(s, b, w, o) => NothingOwn(s, b, v, <<>>)
  BY <1>1, ChainSent DEF OneAwaited
<1>3. w = <<>> /\ o = <<>> => v = <<>>
  BY <1>1, ConcatEmptySeq
<1>4. (Answered(d) <=> Answered(c)) /\ (Answered(d) => d.result = c.result)
  BY DEF Answered
<1> HIDE DEF v
<1>5. OneAwaited(a \in up, m, d, s, b, v, <<>>)
  BY <1>1, <1>2, <1>4 DEF OneAwaited
<1>6. Promised(a \in up, m, d, s, b, v, <<>>, Entry(a), ident[a], a \in unlisted)
  BY <1>1, <1>3, <1>4 DEF Promised, Quiet
<1>7. wire'[a] = v /\ Entry(a)' = Entry(a) /\ UNCHANGED <<ident, unlisted>>
  BY DEF v, OnlyOf, Entry
<1>8. OneTyped(a)'
  BY <1>1, <1>2, <1>7 DEF OneTyped
<1>9. OneKept(a)'
  BY <1>5, <1>6, <1>7 DEF OneKept
<1> QED
  BY <1>8, <1>9, OneAgent

LEMMA ClientRunKeeps ==
  ASSUME IInv, NEW a \in Agents, ClientRun(a)
  PROVE  IInv'
<1> DEFINE s == answers[a]  b == buf[a]  w == wire[a]  o == out[a]  c == cl[a]  m == com[a]
<1>1. /\ m \in ComType /\ c \in ClType /\ s \in Seq(Reply)
      /\ b \in Seq(Message) /\ w \in Seq(Message) /\ o \in Seq(Message)
      /\ OneAwaited(a \in up, m, c, s, b, w, o)
      /\ Promised(a \in up, m, c, s, b, w, o, Entry(a), ident[a], a \in unlisted)
  BY OfOne DEF OneTyped, OneKept
<1>2. a \in up /\ c.actimode = 1 /\ UNCHANGED <<ident, up, servers, unlisted>>
  BY DEF ClientRun, ClientDue, manager
<1>0. Entry(a)' = Entry(a)
  BY <1>2 DEF Entry
<1>3. CASE TrySend(a)
  <2> DEFINE d == [c EXCEPT !.state = "AWAITINGANSWER", !.actimode = 1, !.callback = c.callback, !.since = 0]
  <2>1. OnlyOf(a) /\ com'[a] = m /\ cl'[a] = d /\ answers'[a] = s /\ buf'[a] = b
    BY <1>2, <1>3 DEF TrySend, Send, OnlyOf, IInv, Types
  <2>2. wire'[a] = w \o o /\ out'[a] = <<>>
    BY <1>3 DEF TrySend, Send, IInv, Types
  <2>3. d \in ClType /\ d.state = "AWAITINGANSWER" /\ c.state = "AWAITINGCONNECTION"
    BY <1>1, <1>3 DEF ClType, TrySend
  <2> HIDE DEF d
  <2> QED
    BY <1>2, <2>1, <2>2, <2>3, SentKeeps
<1>4. CASE ClientTimesOut(a)
  <2> DEFINE d == [c EXCEPT !.state = "ERROR", !.actimode = 0]
  <2>1. OnlyOf(a) /\ com'[a] = m /\ cl'[a] = d /\ wire'[a] = w /\ answers'[a] = s /\ buf'[a] = b
    BY <1>2, <1>4 DEF ClientTimesOut, OnlyOf, IInv, Types
  <2>2. PICK p \in {o, <<>>} : out'[a] = p
    BY <1>4 DEF ClientTimesOut, IInv, Types
  <2>3. d \in ClType /\ d.state = "ERROR" /\ ~Answered(d)
    BY <1>1 DEF ClType, Answered
  <2> HIDE DEF d
  <2>4. p \in Seq(Message) /\ Chain(s, b, w, p) /\ (NothingOwn(s, b, w, o) => NothingOwn(s, b, w, p))
    <3>1. Chain(s, b, w, o) /\ o \in Seq(Message)
      BY <1>1 DEF OneAwaited
    <3>2. <<>> \in Seq(Message) /\ NoneOwn(<<>>) /\ OwnLast(<<>>)
      BY EmptyOwn
    <3>3. CASE p = o
      BY <3>1, <3>3
    <3>4. CASE p = <<>>
      <4>1. Chain(s, b, w, <<>>)
        BY <3>1, <3>2 DEF Chain, Quiet
      <4>2. NothingOwn(s, b, w, o) => NothingOwn(s, b, w, <<>>)
        BY <3>2 DEF NothingOwn
      <4> QED
        BY <3>2, <3>4, <4>1, <4>2
    <3> QED
      BY <2>2, <3>3, <3>4
  <2>5. OneAwaited(a \in up, m, d, s, b, w, p)
    BY <1>1, <2>3, <2>4 DEF OneAwaited
  <2>6. Promised(a \in up, m, d, s, b, w, p, Entry(a), ident[a], a \in unlisted)
    BY <1>1, <2>2, <2>3 DEF Promised, Quiet
  <2>7. OneTyped(a)'
    BY <1>1, <2>1, <2>2, <2>3, <2>4 DEF OneTyped
  <2>8. OneKept(a)'
    BY <1>0, <1>2, <2>1, <2>2, <2>5, <2>6 DEF OneKept
  <2> QED
    BY <2>1, <2>7, <2>8, OneAgent
<1>5. CASE Completed(a)
  <2> DEFINE d == [c EXCEPT !.actimode = 0]
             n == IF c.callback THEN Callback(m, c.result) ELSE m
  <2>1. /\ OnlyOf(a) /\ com'[a] = n /\ cl'[a] = d
        /\ answers'[a] = s /\ buf'[a] = b /\ wire'[a] = w /\ out'[a] = o
    BY <1>2, <1>5 DEF Completed, OnlyOf, IInv, Types, network
  <2>2. Answered(c) /\ m.state = "WAITING" /\ m.next <= Slow
    BY <1>1, <1>2, <1>5 DEF Completed, Answered, OneAwaited
  <2>3. NothingOwn(s, b, w, o) /\ Chain(s, b, w, o)
    BY <1>1, <2>2 DEF OneAwaited
  <2>4. d \in ClType /\ ~Answered(d)
    <3>1. c \in ClType
      BY <1>1
    <3> QED
      BY <3>1 DEF ClType, Answered
  <2>5. n \in ComType /\ (n.state = "WAITING" => n.next <= Slow) /\ (n.state = "REGISTERED" => n.tries = 0)
    <3>1. m.next + Period \in Nat /\ 0 \in Nat
      BY <1>1, Intervals DEF ComType
    <3>2. Callback(m, c.result) \in ComType
      BY <1>1, <3>1 DEF ComType, Callback
    <3>3. Callback(m, c.result).state = "REGISTERED" => Callback(m, c.result).tries = 0
      BY <2>2 DEF Callback
    <3>4. Callback(m, c.result).state # "WAITING"
      BY <1>1 DEF Callback, ComType
    <3> QED
      BY <1>1, <2>2, <3>2, <3>3, <3>4
  <2>6. n.state = "REGISTERED" => c.result = "OK" /\ n.next = m.next + Period
    BY <2>2 DEF Callback
  <2>7. n.state = "REGISTERED" => Quiet(b, w, o) /\ (a \in unlisted \/ Lasts(m, Entry(a), ident[a], Period))
    BY <1>1, <1>2, <2>2, <2>6 DEF Promised
  <2>8. Lasts(m, Entry(a), ident[a], Period) /\ n.state = "REGISTERED" => Lasts(n, Entry(a), ident[a], 0)
    BY <1>1, <2>5, <2>6, Intervals DEF Lasts, ComType
  <2> HIDE DEF d, n
  <2>9. OneAwaited(a \in up, n, d, s, b, w, o)
    BY <2>3, <2>4, <2>5 DEF OneAwaited
  <2>10. Promised(a \in up, n, d, s, b, w, o, Entry(a), ident[a], a \in unlisted)
    BY <2>3, <2>4, <2>7, <2>8 DEF Promised, NothingOwn, NoneOwn
  <2>11. OneTyped(a)'
    BY <1>1, <2>1, <2>4, <2>5 DEF OneTyped
  <2>12. OneKept(a)'
    BY <1>0, <1>2, <2>1, <2>9, <2>10 DEF OneKept
  <2> QED
    BY <2>1, <2>11, <2>12, OneAgent
<1> QED
  BY <1>3, <1>4, <1>5 DEF ClientRun

(* The answer that is awaited is the last that arrives; the agent has      *)
(* nothing else under way then.                                            *)
LEMMA HandleDataKeeps ==
  ASSUME IInv, NEW a \in Agents, HandleData(a)
  PROVE  IInv'
<1> DEFINE s == answers[a]  b == buf[a]  w == wire[a]  o == out[a]  c == cl[a]  m == com[a]
           r == Head(s)
           bad == ~r.own \/ r.result = "SYSTEM_ERR"
           d == IF bad THEN [c EXCEPT !.state = "ERROR", !.actimode = 0]
                ELSE [c EXCEPT !.state = "COMPLETED", !.actimode = 1, !.result = r.result]
           p == IF r.own THEN o ELSE <<>>
<1>1. /\ m \in ComType /\ c \in ClType /\ s \in Seq(Reply)
      /\ b \in Seq(Message) /\ w \in Seq(Message) /\ o \in Seq(Message)
      /\ OneAwaited(a \in up, m, c, s, b, w, o)
      /\ Promised(a \in up, m, c, s, b, w, o, Entry(a), ident[a], a \in unlisted)
  BY OfOne DEF OneTyped, OneKept
<1>2. a \in up /\ s # <<>> /\ UNCHANGED <<ident, up, servers, unlisted>> /\ Entry(a)' = Entry(a)
  BY DEF HandleData, AnswerArrived, manager, Entry
<1>3. PICK n \in 1..Len(s) : answers' = [answers EXCEPT ![a] = SubSeq(s, n + 1, Len(s))]
  BY DEF HandleData
<1> DEFINE q == SubSeq(s, n + 1, Len(s))
<1>4. OnlyOf(a) /\ com'[a] = m /\ cl'[a] = d /\ answers'[a] = q /\ buf'[a] = b /\ wire'[a] = w
  BY <1>2, <1>3 DEF HandleData, OnlyOf, IInv, Types
<1>5. out'[a] = p
  BY DEF HandleData, IInv, Types
<1>6. /\ q \in Seq(Reply)
      /\ \A i \in 1..Len(q) : i + n \in 1..Len(s) /\ q[i] = s[i + n]
      /\ NoneOwn(s) => NoneOwn(q)
      /\ OwnLast(s) => OwnLast(q)
      /\ n = Len(s) => q = <<>>
  BY <1>1, CutOff
<1>7. Len(s) \in Nat \ {0} /\ r = s[1] /\ r \in Reply
  BY <1>1, <1>2, EmptySeq, HeadTailProperties
<1> HIDE DEF q
<1>8. ASSUME r.own
      PROVE  q = <<>> /\ Quiet(b, w, o) /\ a \in up /\ m.state = "WAITING"
  <2>0. 1 \in 1..Len(s) /\ s[1].own
    BY <1>7, <1>8
  <2>1. Len(s) = 1 /\ ~NoneOwn(s)
    BY <1>1, <2>0 DEF OneAwaited, Chain, OwnLast, NoneOwn
  <2>2. n = Len(s)
    BY <2>1
  <2> QED
    BY <1>1, <1>6, <2>1, <2>2 DEF OneAwaited, Chain, NothingOwn
<1>9. d \in ClType /\ (bad => ~Answered(d)) /\ (~bad => r.own /\ Answered(d) /\ d.result = r.result)
  BY <1>1, <1>7 DEF ClType, Answered, Reply
<1>10. p \in Seq(Message) /\ Chain(q, b, w, p) /\ (NothingOwn(s, b, w, o) => NothingOwn(q, b, w, p))
  BY <1>1, <1>6, EmptyOwn DEF OneAwaited, Chain, NothingOwn, Quiet
<1>11. OneAwaited(a \in up, m, d, q, b, w, p)
  <2>1. CASE bad
    BY <1>1, <1>9, <1>10, <2>1 DEF OneAwaited
  <2>2. CASE ~bad
    <3>1. NothingOwn(q, b, w, p)
      BY <1>8, <1>9, <2>2, EmptyOwn DEF NothingOwn, Quiet
    <3> QED
      BY <1>1, <1>8, <1>9, <1>10, <2>2, <3>1 DEF OneAwaited
  <2> QED
    BY <2>1, <2>2
<1>12. Promised(a \in up, m, d, q, b, w, p, Entry(a), ident[a], a \in unlisted)
  <2>1. m.state = "REGISTERED" => Quiet(b, w, p) /\ (a \in unlisted \/ Lasts(m, Entry(a), ident[a], 0))
    BY <1>1, <1>2 DEF Promised, Quiet
  <2>2. ASSUME Answered(d), d.result = "OK"
        PROVE  Quiet(b, w, p) /\ (a \in unlisted \/ Lasts(m, Entry(a), ident[a], Period))
    <3>1. ~bad
      BY <1>9, <2>2
    <3>2. r.own /\ r.result = "OK"
      BY <1>9, <2>2, <3>1
    <3>3. Quiet(b, w, p)
      BY <1>8, <3>2
    <3>4. 1 \in 1..Len(s) /\ s[1].own /\ s[1].result = "OK"
      BY <1>7, <3>2
    <3>5. a \in unlisted \/ Lasts(m, Entry(a), ident[a], Period)
      BY <1>1, <1>2, <3>4 DEF Promised
    <3> QED
      BY <3>3, <3>5
  <2>3. ASSUME NEW i \in 1..Len(q), q[i].own, q[i].result = "OK"
        PROVE  a \in unlisted \/ Lasts(m, Entry(a), ident[a], Period)
    BY <1>1, <1>2, <1>6, <2>3 DEF Promised
  <2> HIDE DEF d, p
  <2> QED
    BY <2>1, <2>2, <2>3 DEF Promised
<1> HIDE DEF d, p
<1>13. OneTyped(a)'
  BY <1>1, <1>4, <1>5, <1>6, <1>9, <1>10 DEF OneTyped
<1>14. OneKept(a)'
  BY <1>2, <1>4, <1>5, <1>11, <1>12 DEF OneKept
<1> QED
  BY <1>4, <1>13, <1>14, OneAgent

(* Nothing of this changes when a connection fails, or the manager starts. *)
LEMMA SameKeeps ==
  ASSUME IInv, UNCHANGED <<ident, up, com, cl, out, wire, buf, answers, servers, unlisted>>
  PROVE  IInv'
<1>1. Types'
  BY DEF IInv, Types
<1>2. ASSUME NEW a \in Agents
      PROVE  OneKept(a)'
  <2>1. OneKept(a)
    BY OfOne
  <2> QED
    BY <2>1 DEF OneKept, Entry
<1> QED
  BY <1>1, <1>2 DEF IInv, OneKept

LEMMA OpenedKeeps ==
  ASSUME IInv, NEW a \in Agents, Opened(a)
  PROVE  IInv'
<1>1. UNCHANGED <<ident, up, com, cl, buf, answers, servers, unlisted>>
  BY DEF Opened, manager
<1>2. CASE UNCHANGED <<out, wire>>
  BY <1>1, <1>2, SameKeeps
<1>3. CASE wire' = [wire EXCEPT ![a] = @ \o out[a]] /\ out' = [out EXCEPT ![a] = <<>>]
  <2>1. OnlyOf(a) /\ com'[a] = com[a] /\ cl'[a] = cl[a] /\ answers'[a] = answers[a] /\ buf'[a] = buf[a]
    BY <1>1, <1>3 DEF OnlyOf, IInv, Types
  <2>2. wire'[a] = wire[a] \o out[a] /\ out'[a] = <<>> /\ cl[a] \in ClType
    BY <1>3 DEF IInv, Types
  <2> QED
    BY <1>1, <2>1, <2>2, SentKeeps
<1> QED
  BY <1>2, <1>3 DEF Opened

LEMMA StartKeeps ==
  ASSUME IInv, NEW a \in Agents, Start(a)
  PROVE  IInv'
<1> DEFINE s == answers[a]  b == buf[a]  w == wire[a]
<1>1. /\ s \in Seq(Reply) /\ b \in Seq(Message) /\ w \in Seq(Message)
      /\ OneAwaited(a \in up, com[a], cl[a], s, b, w, out[a]) /\ a \notin up
  BY OfOne DEF OneTyped, OneKept, Start
<1>2. NothingOwn(s, b, w, <<>>) /\ Chain(s, b, w, <<>>)
  <2>1. NothingOwn(s, b, w, out[a])
    BY <1>1 DEF OneAwaited
  <2>2. NothingOwn(s, b, w, <<>>)
    BY <2>1, EmptyOwn DEF NothingOwn
  <2> QED
    BY <2>2, ChainNone
<1>3. OnlyOf(a) /\ com'[a] = NewCom /\ cl'[a] = NewClient
  BY DEF Start, manager, OnlyOf, IInv, Types
<1>4. answers'[a] = s /\ buf'[a] = b /\ wire'[a] = w /\ out'[a] = <<>>
  BY DEF Start, IInv, Types
<1>5. NewCom \in ComType /\ NewClient \in ClType /\ ~Answered(NewClient)
  BY Intervals DEF NewCom, NewClient, ComType, ClType, Results, Answered
<1>6. OneAwaited(TRUE, NewCom, NewClient, s, b, w, <<>>)
  BY <1>2, <1>5 DEF OneAwaited, NewCom
<1>7. Promised(TRUE, NewCom, NewClient, s, b, w, <<>>, Entry(a)', ident[a]', a \in unlisted')
  BY <1>2, <1>5 DEF Promised, NewCom, NothingOwn, NoneOwn
<1>8. a \in up'
  BY DEF Start
<1>9. OneTyped(a)'
  BY <1>1, <1>3, <1>4, <1>5 DEF OneTyped
<1>10. OneKept(a)'
  BY <1>3, <1>4, <1>6, <1>7, <1>8 DEF OneKept, OneAwaited, Promised
<1> QED
  BY <1>3, <1>9, <1>10, OneAgent

LEMMA ShutdownKeeps ==
  ASSUME IInv, NEW a \in Agents, Shutdown(a)
  PROVE  IInv'
<1>1. wire[a] \in Seq(Message) /\ buf[a] \in Seq(Message)
  BY OfOne DEF OneTyped
<1>2. PICK v \in Seq(Message) : wire' = [wire EXCEPT ![a] = Orphaned(buf[a], v)]
  <2>0. "UNREGISTER" \in {"REGISTER", "UNREGISTER"}
    OBVIOUS
  <2>1. Queued(a, "UNREGISTER") \in Seq(Message)
    BY <2>0, QueuedProperties
  <2>2. wire[a] \o Queued(a, "UNREGISTER") \in Seq(Message)
    BY <1>1, <2>1, ConcatProperties
  <2> QED
    BY <1>1, <2>2 DEF Shutdown
<1> DEFINE t == Orphaned(buf[a], v)
<1>3. t \in Seq(Message) /\ NoneOwn(t)
  BY <1>1, <1>2, OrphanedProperties
<1>4. OnlyOf(a) /\ a \notin up' /\ com'[a] = NewCom /\ cl'[a] = NewClient
  BY <1>2 DEF Shutdown, manager, OnlyOf, IInv, Types
<1>5. answers'[a] = <<>> /\ buf'[a] = <<>> /\ wire'[a] = t /\ out'[a] = <<>>
  BY <1>2 DEF Shutdown, IInv, Types
<1>6. NewCom \in ComType /\ NewClient \in ClType /\ ~Answered(NewClient)
  BY Intervals DEF NewCom, NewClient, ComType, ClType, Results, Answered
<1> HIDE DEF t
<1>7. NothingOwn(<<>>, <<>>, t, <<>>) /\ Chain(<<>>, <<>>, t, <<>>)
  BY <1>3, EmptyOwn, ChainNone DEF NothingOwn
<1>8. OneAwaited(FALSE, NewCom, NewClient, <<>>, <<>>, t, <<>>)
  BY <1>6, <1>7 DEF OneAwaited, NewCom
<1>9. OneTyped(a)'
  BY <1>3, <1>4, <1>5, <1>6 DEF OneTyped
<1>10. OneKept(a)'
  BY <1>4, <1>5, <1>8 DEF OneKept, OneAwaited, Promised
<1> QED
  BY <1>4, <1>9, <1>10, OneAgent

(* A connection breaks, or the manager crashes: nothing is left under way. *)
LEMMA NothingLeft ==
  ASSUME NEW u, NEW m, NEW c, NEW s, NEW b, NEW w, NEW o, NEW e, NEW id, NEW x,
         OneAwaited(u, m, c, s, b, w, o), Promised(u, m, c, s, b, w, o, e, id, x)
  PROVE  OneAwaited(u, m, c, <<>>, <<>>, <<>>, o) /\ Promised(u, m, c, <<>>, <<>>, <<>>, o, e, id, x)
<1>1. OneAwaited(u, m, c, <<>>, <<>>, <<>>, o)
  BY EmptyOwn DEF OneAwaited, Chain, NothingOwn
<1>2. Promised(u, m, c, <<>>, <<>>, <<>>, o, e, id, x)
  BY DEF Promised, Quiet
<1> QED
  BY <1>1, <1>2

LEMMA BreakKeeps ==
  ASSUME IInv, NEW a \in Agents, BreakConnection(a)
  PROVE  IInv'
<1>1. OneTyped(a) /\ OneKept(a)
  BY OfOne
<1>2. /\ OnlyOf(a) /\ up' = up /\ com'[a] = com[a] /\ cl'[a] = cl[a] /\ out'[a] = out[a]
      /\ UNCHANGED <<ident, servers, unlisted>>
  BY DEF BreakConnection, manager, OnlyOf, IInv, Types
<1>3. wire'[a] = <<>> /\ answers'[a] = <<>> /\ buf'[a] = <<>>
  BY DEF BreakConnection, IInv, Types
<1>4. /\ OneAwaited(a \in up, com[a], cl[a], <<>>, <<>>, <<>>, out[a])
      /\ Promised(a \in up, com[a], cl[a], <<>>, <<>>, <<>>, out[a], Entry(a), ident[a], a \in unlisted)
  BY <1>1, NothingLeft DEF OneKept
<1>5. Entry(a)' = Entry(a)
  BY <1>2 DEF Entry
<1>6. OneTyped(a)'
  BY <1>1, <1>2, <1>3 DEF OneTyped
<1>7. OneKept(a)'
  BY <1>2, <1>3, <1>4, <1>5 DEF OneKept
<1> QED
  BY <1>2, <1>6, <1>7, OneAgent

LEMMA ManagerCrashKeeps ==
  ASSUME IInv, ManagerCrash
  PROVE  IInv'
<1>1. UNCHANGED <<ident, up, com, cl, out, servers, unlisted>>
  BY DEF ManagerCrash
<1>2. \A a \in Agents : wire'[a] = <<>> /\ answers'[a] = <<>> /\ buf'[a] = <<>> /\ Entry(a)' = Entry(a)
  BY DEF ManagerCrash, Entry
<1>3. Types'
  BY DEF ManagerCrash, IInv, Types
<1>4. ASSUME NEW a \in Agents
      PROVE  OneKept(a)'
  <2>1. OneKept(a)
    BY OfOne
  <2>2. /\ OneAwaited(a \in up, com[a], cl[a], <<>>, <<>>, <<>>, out[a])
        /\ Promised(a \in up, com[a], cl[a], <<>>, <<>>, <<>>, out[a], Entry(a), ident[a], a \in unlisted)
    BY <2>1, NothingLeft DEF OneKept
  <2> QED
    BY <1>1, <1>2, <2>2 DEF OneKept
<1> QED
  BY <1>3, <1>4 DEF IInv, OneKept

----------------------------------------------------------------------------
(* The manager receives n of the requests under way.  It handles the first *)
(* of what it has then.                                                    *)
LEMMA FirstOwn ==
  ASSUME NEW b \in Seq(Message), NEW w \in Seq(Message), NEW n \in 1..Len(w), NoneOwn(b), OwnLast(w)
  PROVE  LET r == Arrived(b, w, n)
         IN  /\ r \in Seq(Message) /\ Head(r) \in Message /\ Tail(r) \in Seq(Message)
             /\ OwnLast(Tail(r))
             /\ ~NoneOwn(Tail(r)) \/ Head(r).own => n = Len(w) /\ ~NoneOwn(w)
             /\ Head(r).own => Tail(r) = <<>>
<1> DEFINE p == IF w[1].conn THEN b ELSE <<>>
           t == SubSeq(w, 1, n)
           r == p \o t
<1>1. Arrived(b, w, n) = r
  BY DEF Arrived
<1>2. p \in Seq(Message) /\ NoneOwn(p) /\ Len(p) \in Nat
  BY EmptyOwn
<1>3. /\ t \in Seq(Message) /\ Len(t) = n
      /\ \A i \in 1..n : i \in 1..Len(w) /\ t[i] = w[i]
  BY CutTo
<1>4. Len(w) \in Nat /\ n \in Nat /\ n >= 1 /\ n <= Len(w)
  BY LenProperties
<1> HIDE DEF p, t
<1>5. /\ r \in Seq(Message) /\ Len(r) = Len(p) + n
      /\ \A i \in 1..Len(p) + n : r[i] = IF i <= Len(p) THEN p[i] ELSE t[i - Len(p)]
  BY <1>2, <1>3, ConcatProperties
<1> HIDE DEF r
<1>6. r # <<>>
  <2>1. r = <<>> => Len(r) = 0
    BY EmptySeq
  <2> QED
    BY <1>2, <1>4, <1>5, <2>1
<1>7. ASSUME NEW i \in 1..Len(r), r[i].own
      PROVE  i = Len(r) /\ n = Len(w) /\ ~NoneOwn(w)
  <2>1. ~(i <= Len(p))
    BY <1>2, <1>5, <1>7 DEF NoneOwn
  <2>2. i - Len(p) \in 1..n /\ r[i] = t[i - Len(p)]
    BY <1>2, <1>4, <1>5, <2>1
  <2>3. i - Len(p) \in 1..Len(w) /\ w[i - Len(p)].own
    BY <1>3, <1>7, <2>2
  <2>4. i - Len(p) = Len(w) /\ ~NoneOwn(w)
    BY <2>3 DEF OwnLast, NoneOwn
  <2>5. n = Len(w)
    BY <1>4, <2>2, <2>4
  <2>6. i = Len(p) + n
    BY <1>2, <1>4, <2>4, <2>5
  <2> QED
    BY <1>5, <2>4, <2>5, <2>6
<1> DEFINE l == Tail(r)
<1>8. /\ Head(r) \in Message /\ Head(r) = r[1] /\ l \in Seq(Message) /\ Len(l) = Len(r) - 1
      /\ \A i \in 1..Len(l) : l[i] = r[i + 1]
      /\ Len(r) \in Nat \ {0}
  BY <1>5, <1>6, EmptySeq, HeadTailProperties
<1> HIDE DEF l
<1>9. ASSUME NEW i \in 1..Len(l), l[i].own
      PROVE  i = Len(l) /\ n = Len(w) /\ ~NoneOwn(w)
  <2>1. i + 1 \in 1..Len(r) /\ r[i + 1].own
    BY <1>8, <1>9
  <2>2. i + 1 = Len(r) /\ n = Len(w) /\ ~NoneOwn(w)
    BY <1>7, <2>1
  <2> QED
    BY <1>8, <2>2
<1>10. Head(r).own => n = Len(w) /\ ~NoneOwn(w) /\ l = <<>>
  <2>1. 1 \in 1..Len(r)
    BY <1>8
  <2>2. Head(r).own => n = Len(w) /\ ~NoneOwn(w) /\ Len(r) = 1
    BY <1>7, <1>8, <2>1
  <2>3. Len(l) = 0 => l = <<>>
    BY <1>8, EmptySeq
  <2> QED
    BY <1>8, <2>2, <2>3
<1>11. OwnLast(l)
  BY <1>9 DEF OwnLast
<1>12. ~NoneOwn(l) => n = Len(w) /\ ~NoneOwn(w)
  BY <1>9 DEF NoneOwn
<1> QED
  BY <1>1, <1>5, <1>8, <1>10, <1>11, <1>12 DEF l

(* Then v is left of what is under way, d of what it has received, and q   *)
(* is under way back.                                                      *)
Receives(s, b, w, n, result, q, d, v) ==
  /\ v = SubSeq(w, n + 1, Len(w))
  /\ d = IF w[1].conn THEN Tail(Arrived(b, w, n)) ELSE b
  /\ \/ q = s
     \/ w[1].conn /\ q = Append(s, [result |-> result, own |-> Head(Arrived(b, w, n)).own])

StillAwaited(u, m, c, result, q, d, v, o) ==
  /\ q \in Seq(Reply) /\ d \in Seq(Message) /\ v \in Seq(Message)
  /\ OneAwaited(u, m, c, q, d, v, o)
  /\ \A i \in 1..Len(q) : q[i].own => q[i].result = result /\ u /\ m.state = "WAITING"

LEMMA Received ==
  ASSUME NEW u, NEW m \in ComType, NEW c \in ClType, NEW s \in Seq(Reply), NEW b \in Seq(Message),
         NEW w \in Seq(Message), NEW o \in Seq(Message), OneAwaited(u, m, c, s, b, w, o),
         NEW n \in 1..Len(w), NEW result \in Results,
         NEW q, NEW d, NEW v, Receives(s, b, w, n, result, q, d, v)
  PROVE  StillAwaited(u, m, c, result, q, d, v, o)
<1> DEFINE r == Arrived(b, w, n)
           h == Head(r)
           l == Tail(r)
           x == [result |-> result, own |-> h.own]
<1>1. Len(w) \in Nat /\ w # <<>>
  <2>1. Len(w) \in Nat
    BY LenProperties
  <2>2. w = <<>> => Len(w) = 0
    BY EmptySeq
  <2> QED
    BY <2>1, <2>2
<1>2. NoneOwn(s) /\ NoneOwn(b) /\ OwnLast(w) /\ OwnLast(o) /\ (NoneOwn(w) \/ o = <<>>)
  BY <1>1 DEF OneAwaited, Chain, Quiet
<1>3. /\ r \in Seq(Message) /\ h \in Message /\ l \in Seq(Message) /\ OwnLast(l)
      /\ ~NoneOwn(l) \/ h.own => n = Len(w) /\ ~NoneOwn(w)
      /\ h.own => l = <<>>
  BY <1>2, FirstOwn
<1>4. /\ v \in Seq(Message)
      /\ NoneOwn(w) => NoneOwn(v)
      /\ OwnLast(v)
      /\ n = Len(w) => v = <<>>
  <2>1. v = SubSeq(w, n + 1, Len(w))
    BY DEF Receives
  <2> QED
    BY <1>2, <2>1, CutOff
<1>5. x \in Reply
  BY <1>3 DEF Reply, Message
<1>6. d = (IF w[1].conn THEN l ELSE b) /\ (q = s \/ (w[1].conn /\ q = Append(s, x)))
  BY DEF Receives
<1>7. x.result = result /\ x.own = h.own
  OBVIOUS
<1> HIDE DEF r, h, l, x
<1>8. ~NoneOwn(w) => u /\ m.state = "WAITING" /\ ~Answered(c)
  BY DEF OneAwaited, NothingOwn
<1>9. /\ q \in Seq(Reply) /\ OwnLast(q) /\ (~NoneOwn(q) => h.own /\ w[1].conn)
      /\ \A i \in 1..Len(q) : q[i].own => q[i].result = result
  <2>1. CASE q = s
    BY <1>2, <2>1, NoneIsLast DEF NoneOwn
  <2>2. CASE w[1].conn /\ q = Append(s, x)
    <3>1. /\ q \in Seq(Reply) /\ Len(q) = Len(s) + 1 /\ Len(s) \in Nat
          /\ \A i \in 1..Len(s) : q[i] = s[i]
          /\ q[Len(s) + 1] = x
      BY <1>5, <2>2, AppendProperties, LenProperties
    <3>2. ASSUME NEW i \in 1..Len(q), q[i].own
          PROVE  i = Len(q) /\ q[i] = x
      <4>1. i \notin 1..Len(s)
        BY <1>2, <3>1, <3>2 DEF NoneOwn
      <4>2. i = Len(s) + 1
        BY <3>1, <4>1
      <4> QED
        BY <3>1, <4>2
    <3>3. OwnLast(q)
      BY <3>2 DEF OwnLast
    <3>4. ~NoneOwn(q) => h.own
      BY <1>7, <3>2 DEF NoneOwn
    <3>5. \A i \in 1..Len(q) : q[i].own => q[i].result = result
      BY <1>7, <3>2
    <3> QED
      BY <2>2, <3>1, <3>3, <3>4, <3>5
  <2> QED
    BY <1>6, <2>1, <2>2
<1>10. d \in Seq(Message) /\ OwnLast(d) /\ (~NoneOwn(d) => ~NoneOwn(l))
  BY <1>2, <1>3, <1>6, NoneIsLast
<1>11. ~NoneOwn(q) => Quiet(d, v, o)
  BY <1>2, <1>3, <1>4, <1>6, <1>9 DEF Quiet
<1>12. ~NoneOwn(d) => v = <<>> /\ o = <<>>
  BY <1>2, <1>3, <1>4, <1>10
<1>13. ~NoneOwn(v) => o = <<>>
  BY <1>2, <1>4
<1>14. Chain(q, d, v, o)
  BY <1>2, <1>4, <1>9, <1>10, <1>11, <1>12, <1>13 DEF Chain
<1>15. NoneOwn(w) => NoneOwn(q) /\ NoneOwn(d) /\ NoneOwn(v)
  BY <1>3, <1>4, <1>9, <1>10
<1>16. OneAwaited(u, m, c, q, d, v, o)
  <2>1. CASE NoneOwn(w)
    <3>1. NothingOwn(s, b, w, o) => NothingOwn(q, d, v, o)
      BY <1>15, <2>1 DEF NothingOwn
    <3> QED
      BY <1>14, <3>1 DEF OneAwaited
  <2>2. CASE ~NoneOwn(w)
    BY <1>8, <1>14, <2>2 DEF OneAwaited
  <2> QED
    BY <2>1, <2>2
<1>17. ASSUME NEW i \in 1..Len(q), q[i].own
       PROVE  q[i].result = result /\ u /\ m.state = "WAITING"
  <2>1. ~NoneOwn(q)
    BY <1>17 DEF NoneOwn
  <2> QED
    BY <1>3, <1>8, <1>9, <1>17, <2>1
<1> QED
  BY <1>4, <1>9, <1>10, <1>16, <1>17 DEF StillAwaited

(* What the manager may do to the entry that another agent relies on.      *)
Keeps(e, f, id) == Held(e, id) => Held(f, id) /\ f.left >= e.left

LEMMA PromiseKept ==
  ASSUME NEW u, NEW m \in ComType, NEW c, NEW s, NEW b, NEW w, NEW o,
         NEW e \in Entries, NEW f \in Entries, NEW id, NEW x,
         Promised(u, m, c, s, b, w, o, e, id, x), Keeps(e, f, id)
  PROVE  Promised(u, m, c, s, b, w, o, f, id, x)
<1>1. ASSUME NEW more \in {0, Period}, Lasts(m, e, id, more)
      PROVE  Lasts(m, f, id, more)
  <2>1. Held(e, id) /\ Held(f, id) /\ m.next + more < e.left + Linger /\ f.left >= e.left
    BY <1>1 DEF Lasts, Keeps
  <2>2. e \in Reps /\ f \in Reps
    BY <2>1 DEF Held, Entries, NoDomain, EmptyDomain
  <2>3. e.left \in Int /\ f.left \in Int /\ m.next \in Int /\ more \in Int /\ Linger \in Int
    BY <2>2, Intervals DEF Reps, Lefts, ComType
  <2>4. m.next + more < f.left + Linger
    BY <2>1, <2>3
  <2> QED
    BY <2>1, <2>4 DEF Lasts
<1>2. 0 \in {0, Period} /\ Period \in {0, Period}
  OBVIOUS
<1> QED
  BY <1>1, <1>2 DEF Promised

(* A request of agent a is handled, the others keep what they have, and if *)
(* the answer is that a is registered, then it is, for the time to live,   *)
(* unless memory was lacking.                                              *)
Taken(a, n, result) ==
  LET r == Arrived(buf[a], wire[a], n)
  IN  /\ wire' = [wire EXCEPT ![a] = SubSeq(@, n + 1, Len(@))]
      /\ buf' = IF wire[a][1].conn THEN [buf EXCEPT ![a] = Tail(r)] ELSE buf
      /\ \/ answers' = answers
         \/ /\ wire[a][1].conn
            /\ answers' = [answers EXCEPT ![a] = Append(@, [result |-> result, own |-> Head(r).own])]

Listed(a, result) ==
  /\ servers' \in [Names -> Entries]
  /\ \A b \in Agents \ {a} : Keeps(Entry(b), Entry(b)', ident[b]) /\ (b \in unlisted' <=> b \in unlisted)
  /\ result = "OK" => a \in unlisted' \/ (Held(Entry(a)', ident[a]) /\ Entry(a)'.left = TTL)

LEMMA HandledKeeps ==
  ASSUME IInv, NEW a \in Agents, NEW result \in Results, NEW n \in 1..Len(wire[a]),
         Taken(a, n, result), UNCHANGED <<ident, up, com, cl, out>>, Listed(a, result)
  PROVE  IInv'
<1> DEFINE s == answers[a]  b == buf[a]  w == wire[a]  o == out[a]  c == cl[a]  m == com[a]
           r == Arrived(b, w, n)
           v == SubSeq(w, n + 1, Len(w))
           d == IF w[1].conn THEN Tail(r) ELSE b
           q == answers'[a]
<1>1. /\ m \in ComType /\ c \in ClType /\ s \in Seq(Reply)
      /\ b \in Seq(Message) /\ w \in Seq(Message) /\ o \in Seq(Message)
      /\ OneAwaited(a \in up, m, c, s, b, w, o)
      /\ Promised(a \in up, m, c, s, b, w, o, Entry(a), ident[a], a \in unlisted)
  BY OfOne DEF OneTyped, OneKept
<1>2. wire' = [wire EXCEPT ![a] = v] /\ wire'[a] = v
  BY DEF Taken, IInv, Types
<1>3. buf' = [buf EXCEPT ![a] = d] /\ buf'[a] = d
  BY DEF Taken, IInv, Types
<1>4. /\ answers' = [answers EXCEPT ![a] = q]
      /\ q = s \/ (w[1].conn /\ q = Append(s, [result |-> result, own |-> Head(r).own]))
  BY DEF Taken, IInv, Types
<1> HIDE DEF d, q
<1>5. /\ q \in Seq(Reply) /\ d \in Seq(Message) /\ v \in Seq(Message)
      /\ OneAwaited(a \in up, m, c, q, d, v, o)
      /\ \A i \in 1..Len(q) : q[i].own => q[i].result = result /\ a \in up /\ m.state = "WAITING"
  <2> DEFINE u == a \in up
  <2>2. Receives(s, b, w, n, result, q, d, v)
    BY <1>4 DEF Receives, d
  <2>3. /\ m \in ComType /\ c \in ClType /\ s \in Seq(Reply) /\ b \in Seq(Message)
        /\ w \in Seq(Message) /\ o \in Seq(Message) /\ OneAwaited(u, m, c, s, b, w, o)
        /\ n \in 1..Len(w) /\ result \in Results
    BY <1>1
  <2> HIDE DEF u, m, c, s, b, w, o, v
  <2>4. StillAwaited(u, m, c, result, q, d, v, o)
    BY <2>2, <2>3, Received
  <2> QED
    BY <2>4 DEF u, v, StillAwaited
<1>6. w # <<>>
  <2>1. w = <<>> => Len(w) = 0
    BY EmptySeq
  <2> QED
    BY <2>1
<1> HIDE DEF v, r
<1>7. Types'
  BY <1>2, <1>3, <1>4, <1>5 DEF IInv, Types, Listed
<1>8. ASSUME NEW k \in Agents, k # a
      PROVE  wire'[k] = wire[k] /\ answers'[k] = answers[k] /\ buf'[k] = buf[k]
  BY <1>2, <1>3, <1>4, <1>8 DEF IInv, Types
<1>9. OneKept(a)'
  <2>1. OneAwaited(a \in up, com[a], cl[a], answers[a], buf[a], wire[a], out[a])'
    BY <1>2, <1>3, <1>5 DEF q
  <2>2. Promised(a \in up, m, c, q, d, v, o, Entry(a)', ident[a], a \in unlisted')
    <3>1. a \in up => m.state # "REGISTERED" /\ ~(Answered(c) /\ c.result = "OK")
      BY <1>1, <1>6 DEF Promised, Quiet
    <3>2. ASSUME NEW i \in 1..Len(q), q[i].own, q[i].result = "OK"
          PROVE  a \in unlisted' \/ Lasts(m, Entry(a)', ident[a], Period)
      <4>1. result = "OK" /\ m.state = "WAITING"
        BY <1>5, <3>2
      <4>2. m.next \in Nat /\ m.next <= Slow
        BY <1>1, <4>1 DEF OneAwaited, ComType
      <4>3. m.next + Period < TTL + Linger
        BY <4>2, Intervals
      <4>4. a \in unlisted' \/ (Held(Entry(a)', ident[a]) /\ Entry(a)'.left = TTL)
        BY <4>1 DEF Listed
      <4> QED
        BY <4>3, <4>4 DEF Lasts
    <3> QED
      BY <3>1, <3>2 DEF Promised
  <2> QED
    BY <1>2, <1>3, <2>1, <2>2 DEF OneKept, q
<1>10. ASSUME NEW k \in Agents, k # a
       PROVE  OneKept(k)'
  <2>1. OneKept(k) /\ com[k] \in ComType
    BY OfOne DEF OneTyped
  <2>2. Entry(k) \in Entries /\ Entry(k)' \in Entries
    BY <1>7, IdentTypes DEF IInv, Entry, Types
  <2>3. Keeps(Entry(k), Entry(k)', ident[k]) /\ (k \in unlisted' <=> k \in unlisted)
    BY <1>10 DEF Listed
  <2>4. Promised(k \in up, com[k], cl[k], answers[k], buf[k], wire[k], out[k], Entry(k), ident[k],
                 k \in unlisted)
    BY <2>1 DEF OneKept
  <2>5. Promised(k \in up, com[k], cl[k], answers[k], buf[k], wire[k], out[k], Entry(k)', ident[k],
                 k \in unlisted)
    BY <2>1, <2>2, <2>3, <2>4, PromiseKept
  <2>6. OneAwaited(k \in up, com[k], cl[k], answers[k], buf[k], wire[k], out[k])'
    BY <1>8, <1>10, <2>1 DEF OneKept
  <2>7. Promised(k \in up, com[k], cl[k], answers[k], buf[k], wire[k], out[k], Entry(k), ident[k],
                 k \in unlisted)'
    BY <1>8, <1>10, <2>3, <2>5 DEF Promised
  <2> QED
    BY <2>6, <2>7 DEF OneKept
<1> QED
  BY <1>7, <1>9, <1>10 DEF IInv, OneKept

(* Contains and RemoveFirst are those of the lemmas.                       *)
LEMMA RemoveFirstKeeps ==
  ASSUME NEW S, NEW s \in Seq(S), NEW e
  PROVE  /\ RemoveFirst(s, e) \in Seq(S)
         /\ \A d : d # e /\ Contains(s, d) => Contains(RemoveFirst(s, e), d)
<1>1. RemoveFirst(s, e) = General!RemoveFirst(s, e)
  BY DEF RemoveFirst, RemoveAt, SelectInSeq, Min,
         General!RemoveFirst, General!RemoveAt, General!SelectInSeq, General!Min
<1>2. General!RemoveFirst(s, e) \in Seq(S)
  BY General!RemoveFirstProperties
<1>3. ASSUME NEW d, d # e, Contains(s, d)
      PROVE  Contains(RemoveFirst(s, e), d)
  <2>1. General!Contains(s, d)
    BY <1>3 DEF Contains, General!Contains
  <2>2. General!Contains(General!RemoveFirst(s, e), d)
    BY <1>3, <2>1, General!RemoveFirstKeeps
  <2> QED
    BY <1>1, <2>2 DEF Contains, General!Contains
<1> QED
  BY <1>1, <1>2, <1>3

LEMMA AppendContains ==
  ASSUME NEW S, NEW s \in Seq(S), NEW e \in S
  PROVE  /\ Append(s, e) \in Seq(S) /\ Contains(Append(s, e), e)
         /\ \A d : Contains(s, d) => Contains(Append(s, e), d)
<1> DEFINE t == Append(s, e)
<1>1. /\ t \in Seq(S) /\ Len(t) = Len(s) + 1 /\ Len(s) \in Nat
      /\ \A i \in 1..Len(s) : t[i] = s[i]
      /\ t[Len(s) + 1] = e
  BY AppendProperties, LenProperties
<1> HIDE DEF t
<1>2. Contains(t, e)
  <2>1. Len(s) + 1 \in 1..Len(t)
    BY <1>1
  <2> QED
    BY <1>1, <2>1 DEF Contains
<1>3. ASSUME NEW d, Contains(s, d)
      PROVE  Contains(t, d)
  <2>1. PICK i \in 1..Len(s) : s[i] = d
    BY <1>3 DEF Contains
  <2>2. i \in 1..Len(t) /\ t[i] = d
    BY <1>1, <2>1
  <2> QED
    BY <2>2 DEF Contains
<1> QED
  BY <1>1, <1>2, <1>3 DEF t

LEMMA RepProperties ==
  ASSUME NEW v \in Versions, NEW p \in Seq(Protocols \cup {Nothing}), NEW short \in BOOLEAN
  PROVE  /\ Rep(v, p, short) \in Reps /\ Rep(v, p, short).kind = "rep" /\ Rep(v, p, short).version = v
         /\ Rep(v, p, short).protocols = p /\ Rep(v, p, short).left = TTL
BY Intervals DEF Rep, Reps, Lefts

LEMMA RenewedProperties ==
  ASSUME NEW e \in Reps, NEW p \in Protocols
  PROVE  /\ Renewed(e, p) \in Reps /\ Renewed(e, p).kind = "rep" /\ Renewed(e, p).version = e.version
         /\ Renewed(e, p).left = TTL /\ Contains(Renewed(e, p).protocols, p)
         /\ \A d : Contains(e.protocols, d) => Contains(Renewed(e, p).protocols, d)
<1> DEFINE q == IF Contains(e.protocols, p) THEN e.protocols ELSE Append(e.protocols, p)
<1>1. e.version \in Versions /\ e.protocols \in Seq(Protocols \cup {Nothing}) /\ e.short \in BOOLEAN
  BY DEF Reps
<1>2. /\ q \in Seq(Protocols \cup {Nothing}) /\ Contains(q, p)
      /\ \A d : Contains(e.protocols, d) => Contains(q, d)
  <2>1. p \in Protocols \cup {Nothing}
    OBVIOUS
  <2> QED
    BY <1>1, <2>1, AppendContains
<1>3. Renewed(e, p) = Rep(e.version, q, e.short)
  BY DEF Renewed
<1> HIDE DEF q
<1>4. /\ Rep(e.version, q, e.short) \in Reps /\ Rep(e.version, q, e.short).kind = "rep"
      /\ Rep(e.version, q, e.short).version = e.version
      /\ Rep(e.version, q, e.short).protocols = q /\ Rep(e.version, q, e.short).left = TTL
  <2> DEFINE v == e.version  x == e.short
  <2>1. v \in Versions /\ x \in BOOLEAN /\ q \in Seq(Protocols \cup {Nothing})
    BY <1>1, <1>2
  <2> HIDE DEF v, x
  <2>2. /\ Rep(v, q, x) \in Reps /\ Rep(v, q, x).kind = "rep" /\ Rep(v, q, x).version = v
        /\ Rep(v, q, x).protocols = q /\ Rep(v, q, x).left = TTL
    BY <2>1, RepProperties
  <2> QED
    BY <2>2 DEF v, x
<1> QED
  BY <1>2, <1>3, <1>4

(* A renewal that fails takes nothing away.                                *)
LEMMA HalfRenewedProperties ==
  ASSUME NEW e \in Reps, NEW p \in Protocols, NEW f \in HalfRenewed(e, p)
  PROVE  /\ f \in Reps /\ f.kind = e.kind /\ f.version = e.version /\ f.left = e.left
         /\ \A d : Contains(e.protocols, d) => Contains(f.protocols, d)
<1>1. CASE f = e
  BY <1>1
<1>2. CASE f # e
  <2>1. PICK x \in {p, Nothing} : f = [e EXCEPT !.protocols = Append(e.protocols, x), !.short = TRUE]
    BY <1>2 DEF HalfRenewed
  <2>2. x \in Protocols \cup {Nothing} /\ e.protocols \in Seq(Protocols \cup {Nothing})
    BY DEF Reps
  <2> DEFINE q == Append(e.protocols, x)
  <2>3. q \in Seq(Protocols \cup {Nothing}) /\ \A d : Contains(e.protocols, d) => Contains(q, d)
    BY <2>2, AppendContains
  <2>4. f = [e EXCEPT !.protocols = q, !.short = TRUE]
    BY <2>1
  <2> HIDE DEF q
  <2>5. f \in Reps /\ f.kind = e.kind /\ f.version = e.version /\ f.left = e.left /\ f.protocols = q
    BY <2>3, <2>4 DEF Reps
  <2> QED
    BY <2>3, <2>5
<1> QED
  BY <1>1, <1>2

(* Setting the entry of agent a to f.                                      *)
LEMMA EntrySet ==
  ASSUME IInv, NEW a \in Agents, NEW f \in Entries, SetEntry(a, f), UNCHANGED ident
  PROVE  /\ servers' \in [Names -> Entries] /\ Entry(a)' = f
         /\ \A b \in Agents : /\ ident[b].name = ident[a].name => Entry(b) = Entry(a) /\ Entry(b)' = f
                              /\ ident[b].name # ident[a].name => Entry(b)' = Entry(b)
<1> DEFINE n == ident[a].name
<1>1. servers' = [servers EXCEPT ![n] = f] /\ servers \in [Names -> Entries]
  BY DEF SetEntry, IInv, Types
<1>2. \A b \in Agents : ident[b].name \in Names
  BY IdentTypes DEF IInv
<1> QED
  BY <1>1, <1>2 DEF Entry

LEMMA HeldRep ==
  ASSUME IInv, NEW a \in Agents, Held(Entry(a), ident[a])
  PROVE  Entry(a) \in Reps /\ Entry(a).kind = "rep" /\ Entry(a).left \in Int /\ Entry(a).left <= TTL
<1>1. Entry(a) \in Entries
  BY IdentTypes DEF IInv
<1> QED
  BY <1>1 DEF Held, Entries, NoDomain, EmptyDomain, Reps, Lefts

(* A first entry, or one that a renewal leaves, takes nothing from anyone. *)
LEMMA FirstKeeps ==
  ASSUME IInv, NEW a \in Agents, NEW f \in Entries, SetEntry(a, f), UNCHANGED ident, Entry(a).kind = "none"
  PROVE  \A b \in Agents : Keeps(Entry(b), Entry(b)', ident[b])
<1> SUFFICES ASSUME NEW b \in Agents, Held(Entry(b), ident[b])
             PROVE  Held(Entry(b)', ident[b]) /\ Entry(b)'.left >= Entry(b).left
  BY DEF Keeps
<1>1. Entry(b) \in Reps /\ Entry(b).kind = "rep" /\ Entry(b).left \in Int
  BY HeldRep
<1>2. ident[b].name # ident[a].name
  BY <1>1, EntrySet
<1>3. Entry(b)' = Entry(b)
  BY <1>2, EntrySet
<1> QED
  BY <1>1, <1>3

LEMMA RenewalKeeps ==
  ASSUME IInv, NEW a \in Agents, NEW f \in Reps, SetEntry(a, f), UNCHANGED ident, Matches(a),
         f.kind = "rep", f.version = Entry(a).version, f.left \in {TTL, Entry(a).left},
         \A d : Contains(Entry(a).protocols, d) => Contains(f.protocols, d)
  PROVE  \A b \in Agents : Keeps(Entry(b), Entry(b)', ident[b])
<1> SUFFICES ASSUME NEW b \in Agents, Held(Entry(b), ident[b])
             PROVE  Held(Entry(b)', ident[b]) /\ Entry(b)'.left >= Entry(b).left
  BY DEF Keeps
<1>1. Entry(b) \in Reps /\ Entry(b).kind = "rep" /\ Entry(b).left \in Int /\ Entry(b).left <= TTL
  BY HeldRep
<1>2. f \in Entries
  BY DEF Entries
<1>3. CASE ident[b].name = ident[a].name
  <2>1. Entry(b) = Entry(a) /\ Entry(b)' = f
    BY <1>2, <1>3, EntrySet
  <2>2. f.left >= Entry(b).left
    BY <1>1, <2>1, Intervals
  <2> QED
    BY <2>1, <2>2 DEF Held
<1>4. CASE ident[b].name # ident[a].name
  <2>1. Entry(b)' = Entry(b)
    BY <1>2, <1>4, EntrySet
  <2> QED
    BY <1>1, <2>1
<1> QED
  BY <1>3, <1>4

LEMMA SameServers ==
  ASSUME IInv, NEW a \in Agents, NEW r, r # "OK", UNCHANGED <<ident, servers>>,
         \A b \in Agents \ {a} : b \in unlisted' <=> b \in unlisted
  PROVE  Listed(a, r)
<1>1. \A b \in Agents : Entry(b)' = Entry(b)
  BY DEF Entry
<1>2. ASSUME NEW b \in Agents, Held(Entry(b), ident[b])
      PROVE  Held(Entry(b)', ident[b]) /\ Entry(b)'.left >= Entry(b).left
  <2>1. Entry(b).left \in Int
    BY <1>2, HeldRep
  <2> QED
    BY <1>1, <1>2, <2>1
<1>3. \A b \in Agents : Keeps(Entry(b), Entry(b)', ident[b])
  BY <1>2 DEF Keeps
<1> QED
  BY <1>3 DEF Listed, IInv, Types

(* Registering agent a takes nothing from another one, and registers it if *)
(* it says so, unless memory is lacking.                                   *)
LEMMA RegisterProperties ==
  ASSUME IInv, NEW a \in Agents, NEW r \in Results, Register(a, r), UNCHANGED ident
  PROVE  Listed(a, r)
<1> DEFINE e == Entry(a)  p == ident[a].protocol
<1>1. /\ ident[a].version \in Versions /\ p \in Protocols /\ e \in Entries
      /\ servers \in [Names -> Entries]
  BY IdentTypes DEF IInv, Types
<1>0. \A b \in Agents \ {a} : b \in unlisted' <=> b \in unlisted
  BY DEF Register, Granted
<1> DEFINE q == <<p>>
           f == Rep(ident[a].version, q, FALSE)
           g == Rep(ident[a].version, q, TRUE)
           h == Rep(ident[a].version, <<>>, FALSE)
<1>2. q \in Seq(Protocols \cup {Nothing}) /\ <<>> \in Seq(Protocols \cup {Nothing}) /\ Contains(q, p)
  <2>1. q \in Seq(Protocols \cup {Nothing})
    BY <1>1
  <2>2. Contains(q, p)
    BY DEF Contains
  <2> QED
    BY <2>1, <2>2
<1> HIDE DEF q
<1>3. /\ f \in Reps /\ f.kind = "rep" /\ f.version = ident[a].version /\ f.protocols = q /\ f.left = TTL
      /\ g \in Reps /\ g.kind = "rep" /\ g.version = ident[a].version /\ g.protocols = q /\ g.left = TTL
  BY <1>1, <1>2, RepProperties
<1>4. h \in Reps /\ h.kind = "rep" /\ h.protocols = <<>>
  BY <1>1, <1>2, RepProperties
<1>5. CASE e.kind = "none"
  <2>0. ~Matches(a)
    BY <1>5 DEF Matches
  <2>1. \/ SetEntry(a, f)
        \/ \E x \in Incomplete(a) :
             /\ SetEntry(a, x)
             /\ unlisted' = IF x.kind = "rep" /\ x.protocols # <<>>
                            THEN unlisted \ {a} ELSE unlisted \cup {a}
        \/ SetEntry(a, EmptyDomain) /\ r = "SYSTEM_ERR"
    BY <1>5, <2>0 DEF Register, q
  <2>2. Incomplete(a) = {NoDomain, h, g}
    BY DEF Incomplete, q
  <2>3. NoDomain.kind = "none" /\ EmptyDomain \in Entries /\ NoDomain \in Entries
    BY DEF NoDomain, Entries
  <2>4. f \in Entries /\ g \in Entries /\ h \in Entries
    BY <1>3, <1>4 DEF Entries
  <2> HIDE DEF f, g, h
  <2>5. PICK x \in Entries : /\ SetEntry(a, x)
                             /\ r = "OK" => a \in unlisted' \/ x = f \/ x = g
    <3>1. CASE SetEntry(a, f)
      BY <2>4, <3>1
    <3>2. CASE SetEntry(a, EmptyDomain) /\ r = "SYSTEM_ERR"
      BY <2>3, <3>2
    <3>3. ASSUME NEW x \in Incomplete(a), SetEntry(a, x),
                 unlisted' = IF x.kind = "rep" /\ x.protocols # <<>>
                             THEN unlisted \ {a} ELSE unlisted \cup {a}
          PROVE  x \in Entries /\ (a \in unlisted' \/ x = g)
      <4>1. x \in Entries /\ (x = NoDomain \/ x = h \/ x = g)
        BY <2>2, <2>3, <2>4
      <4>2. x # g => ~(x.kind = "rep" /\ x.protocols # <<>>)
        BY <1>4, <2>3, <4>1
      <4> QED
        BY <3>3, <4>1, <4>2
    <3> QED
      BY <2>1, <3>1, <3>2, <3>3
  <2>6. \A b \in Agents : Keeps(Entry(b), Entry(b)', ident[b])
    BY <1>5, <2>5, FirstKeeps
  <2>7. servers' \in [Names -> Entries] /\ Entry(a)' = x
    BY <2>5, EntrySet
  <2>8. x = f \/ x = g => Held(x, ident[a]) /\ x.left = TTL
    BY <1>2, <1>3 DEF Held
  <2> QED
    BY <1>0, <2>5, <2>6, <2>7, <2>8 DEF Listed
<1>6. CASE Matches(a)
  <2>1. e \in Reps /\ e.kind = "rep" /\ e.version = ident[a].version
    BY <1>1, <1>6 DEF Matches, Entries, NoDomain, EmptyDomain
  <2>2. CASE SetEntry(a, Renewed(e, p))
    <3> DEFINE k == Renewed(e, p)
    <3>1. /\ k \in Reps /\ k.kind = "rep" /\ k.version = e.version /\ k.left = TTL
          /\ Contains(k.protocols, p) /\ \A d : Contains(e.protocols, d) => Contains(k.protocols, d)
      <4>1. p \in Protocols /\ e \in Reps
        BY <1>1, <2>1
      <4> QED
        BY <4>1, RenewedProperties
    <3>2. SetEntry(a, k)
      BY <2>2
    <3> HIDE DEF k
    <3>3. \A b \in Agents : Keeps(Entry(b), Entry(b)', ident[b])
      BY <1>6, <3>1, <3>2, RenewalKeeps
    <3>4. k \in Entries
      BY <3>1 DEF Entries
    <3>5. servers' \in [Names -> Entries] /\ Entry(a)' = k
      BY <3>2, <3>4, EntrySet
    <3>6. Held(k, ident[a]) /\ k.left = TTL
      BY <2>1, <3>1 DEF Held
    <3> QED
      BY <1>0, <3>3, <3>5, <3>6 DEF Listed
  <2>3. CASE r = "SYSTEM_ERR" /\ \E k \in HalfRenewed(e, p) : SetEntry(a, k)
    <3>1. PICK k \in HalfRenewed(e, p) : SetEntry(a, k)
      BY <2>3
    <3>2. /\ k \in Reps /\ k.kind = e.kind /\ k.version = e.version /\ k.left = e.left
          /\ \A d : Contains(e.protocols, d) => Contains(k.protocols, d)
      BY <1>1, <2>1, <3>1, HalfRenewedProperties
    <3>3. k.kind = "rep" /\ k.left \in {TTL, e.left}
      BY <2>1, <3>2
    <3>4. \A b \in Agents : Keeps(Entry(b), Entry(b)', ident[b])
      BY <1>6, <3>1, <3>2, <3>3, RenewalKeeps
    <3>5. k \in Entries
      BY <3>2 DEF Entries
    <3>6. servers' \in [Names -> Entries]
      BY <3>1, <3>5, EntrySet
    <3> QED
      BY <1>0, <2>3, <3>4, <3>6 DEF Listed
  <2>4. CASE r = "SYSTEM_ERR" /\ UNCHANGED servers
    BY <1>0, <2>4, SameServers
  <2> QED
    BY <1>6, <2>1, <2>2, <2>3, <2>4 DEF Register
<1>7. CASE e.kind # "none" /\ ~Matches(a)
  <2>1. UNCHANGED servers /\ r # "OK"
    BY <1>7 DEF Register
  <2> QED
    BY <1>0, <2>1, SameServers
<1> QED
  BY <1>5, <1>6, <1>7

(* Unregistering agent a takes nothing from another one.                   *)
LEMMA UnregisterProperties ==
  ASSUME IInv, NEW a \in Agents, Unregister(a), UNCHANGED ident
  PROVE  /\ servers' \in [Names -> Entries]
         /\ \A b \in Agents \ {a} : Keeps(Entry(b), Entry(b)', ident[b])
<1> DEFINE n == ident[a].name  e == Entry(a)  p == ident[a].protocol
<1>1. n \in Names /\ e \in Entries /\ servers \in [Names -> Entries] /\ e = servers[n]
  BY IdentTypes DEF IInv, Types, Entry
<1>2. ASSUME NEW b \in Agents, Held(Entry(b), ident[b])
      PROVE  Entry(b) \in Reps /\ Entry(b).left \in Int
  <2>1. Entry(b) \in Entries
    BY IdentTypes DEF IInv
  <2> QED
    BY <1>2, <2>1 DEF Held, Entries, NoDomain, EmptyDomain, Reps, Lefts
<1>3. CASE ~Lists(a)
  <2>1. UNCHANGED servers
    BY <1>3 DEF Unregister
  <2>2. \A b \in Agents : Entry(b)' = Entry(b)
    BY <2>1 DEF Entry
  <2> QED
    BY <1>1, <1>2, <2>1, <2>2 DEF Keeps
<1>4. CASE Lists(a)
  <2>1. /\ e \in Reps /\ e.kind = "rep" /\ e.version = ident[a].version /\ Contains(e.protocols, p)
        /\ e.protocols \in Seq(Protocols \cup {Nothing})
    BY <1>1, <1>4 DEF Lists, Matches, Entries, NoDomain, EmptyDomain, Reps
  <2> DEFINE f == IF Len(e.protocols) = 1 THEN NoDomain ELSE [e EXCEPT !.protocols = RemoveFirst(e.protocols, p)]
  <2>2. SetEntry(a, f)
    BY <1>4 DEF Unregister
  <2>3. /\ RemoveFirst(e.protocols, p) \in Seq(Protocols \cup {Nothing})
        /\ \A d : d # p /\ Contains(e.protocols, d) => Contains(RemoveFirst(e.protocols, p), d)
    BY <2>1, RemoveFirstKeeps
  <2>4. f \in Entries
    BY <2>1, <2>3 DEF Entries, Reps
  <2>5. servers' = [servers EXCEPT ![n] = f]
    BY <2>2 DEF SetEntry
  <2>6. ASSUME NEW b \in Agents, b # a, Held(Entry(b), ident[b])
        PROVE  Held(Entry(b)', ident[b]) /\ Entry(b)'.left >= Entry(b).left
    <3>1. CASE ident[b].name = n
      <4>1. Entry(b) = e /\ ident[b].version = ident[a].version /\ Contains(e.protocols, ident[b].protocol)
        BY <2>1, <2>6, <3>1 DEF Entry, Held
      <4>2. ident[b].protocol # p
        BY <2>6, <3>1, <4>1, Different DEF IInv
      <4>3. Len(e.protocols) # 1
        BY <2>1, <4>1, <4>2 DEF Contains
      <4>4. Entry(b)' = [e EXCEPT !.protocols = RemoveFirst(e.protocols, p)]
        BY <1>1, <2>5, <3>1, <4>3 DEF Entry
      <4>5. Contains(RemoveFirst(e.protocols, p), ident[b].protocol)
        BY <2>3, <4>1, <4>2
      <4>6. e.left \in Int
        BY <2>1 DEF Reps, Lefts
      <4> QED
        BY <2>1, <4>1, <4>4, <4>5, <4>6 DEF Held, Reps
    <3>2. CASE ident[b].name # n
      <4>1. Entry(b)' = Entry(b)
        BY <1>1, <2>5, <3>2 DEF Entry
      <4> QED
        BY <1>2, <2>6, <4>1
    <3> QED
      BY <3>1, <3>2
  <2> HIDE DEF f
  <2>7. servers' \in [Names -> Entries]
    BY <1>1, <2>4, <2>5
  <2> QED
    BY <2>6, <2>7 DEF Keeps
<1> QED
  BY <1>3, <1>4

LEMMA HandleKeeps ==
  ASSUME IInv, NEW a \in Agents, Handle(a)
  PROVE  IInv'
<1> DEFINE w == wire[a]  b == buf[a]
<1>1. PICK n \in 1..Len(w) :
        /\ wire' = [wire EXCEPT ![a] = SubSeq(@, n + 1, Len(@))]
        /\ buf' = IF w[1].conn THEN [buf EXCEPT ![a] = Tail(Arrived(b, w, n))] ELSE buf
        /\ Serve(a, Head(Arrived(b, w, n)))
  BY DEF Handle
<1>2. UNCHANGED <<ident, up, com, cl, out>>
  BY DEF Handle
<1>3. w \in Seq(Message) /\ w # <<>> /\ Head(w) = w[1]
  BY OfOne DEF OneTyped, Handle
<1> DEFINE h == Head(Arrived(b, w, n))
<1>4. ASSUME NEW r \in Results, Answer(a, h, r)
      PROVE  Taken(a, n, r)
  <2>1. \/ answers' = answers
        \/ w[1].conn /\ answers' = [answers EXCEPT ![a] = Append(@, [result |-> r, own |-> h.own])]
    BY <1>3, <1>4 DEF Answer
  <2> QED
    BY <1>1, <2>1 DEF Taken
<1>5. CASE \E r \in {"OK", "SYSTEM_ERR"} : Register(a, r) /\ Answer(a, h, r)
  <2>1. PICK r \in {"OK", "SYSTEM_ERR"} : Register(a, r) /\ Answer(a, h, r)
    BY <1>5
  <2>2. r \in Results
    BY DEF Results
  <2>3. Taken(a, n, r) /\ Listed(a, r)
    BY <1>2, <1>4, <2>1, <2>2, RegisterProperties
  <2> QED
    BY <1>2, <2>2, <2>3, HandledKeeps
<1>6. CASE Answer(a, h, "NOMANAGER") /\ UNCHANGED <<servers, unlisted>>
  <2>1. "NOMANAGER" \in Results /\ "NOMANAGER" # "OK"
    BY DEF Results
  <2>2. Taken(a, n, "NOMANAGER") /\ Listed(a, "NOMANAGER")
    BY <1>2, <1>4, <1>6, <2>1, SameServers
  <2> QED
    BY <1>2, <2>1, <2>2, HandledKeeps
<1>7. CASE Unregister(a) /\ UNCHANGED answers
  <2>1. "SYSTEM_ERR" \in Results /\ "SYSTEM_ERR" # "OK"
    BY DEF Results
  <2>2. /\ servers' \in [Names -> Entries]
        /\ \A k \in Agents \ {a} : Keeps(Entry(k), Entry(k)', ident[k])
    BY <1>2, <1>7, UnregisterProperties
  <2>3. Listed(a, "SYSTEM_ERR")
    BY <1>7, <2>1, <2>2 DEF Listed, Unregister
  <2>4. Taken(a, n, "SYSTEM_ERR")
    BY <1>1, <1>7 DEF Taken
  <2> QED
    BY <1>2, <2>1, <2>3, <2>4, HandledKeeps
<1> QED
  BY <1>1, <1>5, <1>6, <1>7 DEF Serve

----------------------------------------------------------------------------
(* Entries expire, and time passes.                                        *)
LEMMA PromiseFollows ==
  ASSUME NEW u, NEW m, NEW k, NEW c, NEW d, NEW s, NEW b, NEW w, NEW o, NEW e, NEW f, NEW id, NEW x,
         Promised(u, m, c, s, b, w, o, e, id, x), k.state = m.state, d.result = c.result,
         Answered(d) => Answered(c),
         u => \A more \in {0, Period} : Lasts(m, e, id, more) => Lasts(k, f, id, more)
  PROVE  Promised(u, k, d, s, b, w, o, f, id, x)
<1>1. 0 \in {0, Period} /\ Period \in {0, Period}
  OBVIOUS
<1> QED
  BY <1>1 DEF Promised

LEMMA RepRunKeeps ==
  ASSUME IInv, NEW n \in Names, RepRun(n)
  PROVE  IInv'
<1> DEFINE e == servers[n]
           f == IF e.left < -Linger THEN NoDomain ELSE [e EXCEPT !.state = "INACTIVE"]
<1>1. servers \in [Names -> Entries] /\ servers' = [servers EXCEPT ![n] = f] /\ e.kind = "rep"
  BY DEF RepRun, RepDue, IInv, Types
<1>2. UNCHANGED <<ident, up, com, cl, out, wire, buf, answers, unlisted>>
  BY DEF RepRun, network
<1>3. e \in Reps
  BY <1>1 DEF Entries, NoDomain, EmptyDomain
<1>4. f \in Entries
  BY <1>3 DEF Entries, Reps
<1>5. Types'
  BY <1>1, <1>2, <1>4 DEF IInv, Types
<1>6. ASSUME NEW a \in Agents
      PROVE  OneAwaited(a \in up, com[a], cl[a], answers[a], buf[a], wire[a], out[a])'
  BY <1>2 DEF IInv
<1>7. ASSUME NEW a \in Agents
      PROVE  Promised(a \in up, com[a], cl[a], answers[a], buf[a], wire[a], out[a], Entry(a), ident[a],
                      a \in unlisted)'
  <2>1. /\ Promised(a \in up, com[a], cl[a], answers[a], buf[a], wire[a], out[a], Entry(a), ident[a],
                    a \in unlisted)
        /\ com[a].next \in Nat
    BY DEF IInv, Types, ComType
  <2>2. ASSUME NEW more \in {0, Period}, Lasts(com[a], Entry(a), ident[a], more)
        PROVE  Lasts(com[a], Entry(a)', ident[a], more)
    <3>1. CASE ident[a].name = n
      <4>1. Entry(a) = e /\ Entry(a)' = f
        BY <1>1, <1>2, <3>1 DEF Entry
      <4>2. e.left \in Int /\ Linger \in Nat /\ more \in Nat
        BY <1>3, Intervals DEF Reps, Lefts
      <4>3. com[a].next + more < e.left + Linger
        BY <2>2, <4>1 DEF Lasts
      <4>4. ~(e.left < -Linger)
        BY <2>1, <4>2, <4>3
      <4>5. f = [e EXCEPT !.state = "INACTIVE"]
        BY <4>4
      <4>6. f.kind = e.kind /\ f.version = e.version /\ f.protocols = e.protocols /\ f.left = e.left
        BY <1>3, <4>5 DEF Reps
      <4> QED
        BY <2>2, <4>1, <4>6 DEF Lasts, Held
    <3>2. CASE ident[a].name # n
      <4>1. Entry(a)' = Entry(a)
        BY <1>1, <1>2, <3>2 DEF Entry
      <4> QED
        BY <2>2, <4>1
    <3> QED
      BY <3>1, <3>2
  <2>3. Promised(a \in up, com[a], cl[a], answers[a], buf[a], wire[a], out[a], Entry(a)', ident[a],
                 a \in unlisted)
    BY <2>1, <2>2, PromiseFollows
  <2> QED
    BY <1>2, <2>3
<1> QED
  BY <1>5, <1>6, <1>7 DEF IInv

LEMMA OlderProperties ==
  ASSUME NEW e \in Entries
  PROVE  /\ Older(e) \in Entries
         /\ e \in Reps => /\ Older(e).kind = e.kind /\ Older(e).version = e.version
                          /\ Older(e).protocols = e.protocols /\ Older(e).left \in Int
                          /\ Older(e).left >= e.left - 1
<1>1. CASE e \notin Reps
  BY <1>1 DEF Older, Entries, NoDomain, EmptyDomain
<1>2. CASE e \in Reps
  <2> DEFINE l == Max({e.left - 1, -Linger - 1})
  <2>1. e.left \in Int /\ e.left <= TTL /\ e.kind = "rep"
    BY <1>2 DEF Reps, Lefts
  <2>2. l \in Int /\ l >= e.left - 1 /\ l \in {e.left - 1, -Linger - 1}
    <3> DEFINE x == e.left - 1  y == -Linger - 1
    <3>1. x \in Int /\ y \in Int
      BY <2>1, Intervals
    <3> HIDE DEF x, y
    <3>2. Max({x, y}) \in Int /\ Max({x, y}) >= x /\ Max({x, y}) \in {x, y}
      BY <3>1, MaxMinOfTwo
    <3> QED
      BY <3>2 DEF x, y
  <2>3. Older(e) = [e EXCEPT !.left = l]
    BY <2>1 DEF Older
  <2> HIDE DEF l
  <2>4. l \in Lefts
    BY <2>1, <2>2, Intervals DEF Lefts
  <2> QED
    BY <1>2, <2>2, <2>3, <2>4 DEF Reps, Entries
<1> QED
  BY <1>1, <1>2

LEMMA TickKeeps ==
  ASSUME IInv, Tick
  PROVE  IInv'
<1>1. UNCHANGED <<ident, up, out, wire, buf, answers, unlisted>>
  BY DEF Tick, network
<1>2. ASSUME NEW a \in Agents
      PROVE  /\ com[a] \in ComType
             /\ com'[a] = IF a \in up THEN [com[a] EXCEPT !.next = com[a].next - 1] ELSE com[a]
             /\ a \in up => com[a].next > 0
  <2>1. com[a] \in ComType /\ ~ComDue(a)
    BY DEF Tick, LocalWork, IInv, Types
  <2> QED
    BY <2>1 DEF Tick, ComDue, ComType
<1>3. ASSUME NEW a \in Agents
      PROVE  /\ com'[a] \in ComType /\ com'[a].state = com[a].state /\ com'[a].tries = com[a].tries
             /\ com'[a].next <= com[a].next /\ com'[a].next \in Nat /\ com[a].next \in Nat
             /\ a \in up => com'[a].next = com[a].next - 1
  <2> DEFINE m == com[a]
             x == m.next - 1
  <2>1. m \in ComType /\ m.next \in Nat
    BY <1>2 DEF ComType
  <2>2. CASE a \in up
    <3>1. x \in Nat /\ x <= m.next /\ com'[a] = [m EXCEPT !.next = x]
      BY <1>2, <2>1, <2>2
    <3> HIDE DEF x
    <3>2. com'[a].state = m.state /\ com'[a].tries = m.tries /\ com'[a].next = x /\ com'[a] \in ComType
      BY <2>1, <3>1 DEF ComType
    <3>3. com'[a].next = com[a].next - 1
      BY <3>2 DEF x
    <3> QED
      BY <2>1, <3>1, <3>2, <3>3
  <2>3. CASE a \notin up
    <3>1. com'[a] = m
      BY <1>2, <2>3
    <3>2. m.next <= m.next
      BY <2>1
    <3> QED
      BY <2>1, <2>3, <3>1, <3>2
  <2> QED
    BY <2>2, <2>3
<1>4. ASSUME NEW a \in Agents
      PROVE  /\ cl'[a] \in ClType /\ cl'[a].state = cl[a].state
             /\ cl'[a].result = cl[a].result /\ Answered(cl'[a]) = Answered(cl[a])
  <2> DEFINE c == cl[a]
             t == Min({c.since + 1, ClientTimeout + 1})
  <2>1. c \in ClType
    BY DEF IInv, Types
  <2>2. t \in Nat
    <3> DEFINE x == c.since + 1  y == ClientTimeout + 1
    <3>1. x \in Nat /\ y \in Nat
      BY <2>1, Intervals DEF ClType
    <3> HIDE DEF x, y
    <3>2. Min({x, y}) \in {x, y}
      BY <3>1, MaxMinOfTwo
    <3>3. Min({x, y}) \in Nat
      BY <3>1, <3>2
    <3> QED
      BY <3>3 DEF x, y
  <2>3. cl'[a] = IF c.state \in {"AWAITINGCONNECTION", "AWAITINGANSWER"} THEN [c EXCEPT !.since = t] ELSE c
    BY DEF Tick
  <2> HIDE DEF t
  <2> QED
    BY <2>1, <2>2, <2>3 DEF ClType, Answered
<1>5. \A a \in Agents : ident[a].name \in Names /\ Entry(a)' = Older(Entry(a)) /\ Entry(a) \in Entries
  BY <1>1, IdentTypes DEF Tick, Entry, IInv
<1>6. Types'
  <2>1. com' \in [Agents -> ComType] /\ cl' \in [Agents -> ClType]
    BY <1>3, <1>4 DEF Tick
  <2>2. servers' \in [Names -> Entries]
    BY OlderProperties DEF Tick, IInv, Types
  <2> QED
    BY <1>1, <2>1, <2>2 DEF IInv, Types
<1>7. ASSUME NEW a \in Agents
      PROVE  OneAwaited(a \in up, com[a], cl[a], answers[a], buf[a], wire[a], out[a])'
  <2>1. OneAwaited(a \in up, com[a], cl[a], answers[a], buf[a], wire[a], out[a])
    BY DEF IInv
  <2>2. com[a].state = "WAITING" => com'[a].next <= Slow
    BY <1>3, <2>1, Intervals DEF OneAwaited
  <2> QED
    BY <1>1, <1>3, <1>4, <2>1, <2>2 DEF OneAwaited
<1>8. ASSUME NEW a \in Agents
      PROVE  Promised(a \in up, com[a], cl[a], answers[a], buf[a], wire[a], out[a], Entry(a), ident[a],
                      a \in unlisted)'
  <2>1. Promised(a \in up, com[a], cl[a], answers[a], buf[a], wire[a], out[a], Entry(a), ident[a],
                 a \in unlisted)
    BY DEF IInv
  <2>2. ASSUME a \in up, NEW more \in {0, Period}, Lasts(com[a], Entry(a), ident[a], more)
        PROVE  Lasts(com'[a], Entry(a)', ident[a], more)
    <3>1. Held(Entry(a), ident[a]) /\ com[a].next + more < Entry(a).left + Linger
      BY <2>2 DEF Lasts
    <3>2. Entry(a) \in Reps /\ Entry(a).left \in Int
      BY <3>1, HeldRep
    <3>3. /\ Older(Entry(a)).kind = Entry(a).kind /\ Older(Entry(a)).version = Entry(a).version
          /\ Older(Entry(a)).protocols = Entry(a).protocols /\ Older(Entry(a)).left \in Int
          /\ Older(Entry(a)).left >= Entry(a).left - 1
      BY <1>5, <3>2, OlderProperties
    <3>4. com'[a].next = com[a].next - 1 /\ com[a].next \in Int /\ more \in Int /\ Linger \in Int
      BY <1>3, <2>2, Intervals
    <3> DEFINE x == com[a].next
               y == com'[a].next
               l == Entry(a).left
               o == Older(Entry(a)).left
    <3>5. /\ x + more < l + Linger /\ y = x - 1 /\ o >= l - 1
          /\ x \in Int /\ more \in Int /\ Linger \in Int /\ l \in Int /\ o \in Int
      BY <3>1, <3>2, <3>3, <3>4
    <3> HIDE DEF x, y, l, o
    <3>6. y + more < o + Linger
      BY <3>5
    <3>7. com'[a].next + more < Older(Entry(a)).left + Linger
      BY <3>6 DEF y, o
    <3> QED
      <4>1. Held(Entry(a)', ident[a])
        BY <1>5, <3>1, <3>3 DEF Held
      <4>2. com'[a].next + more < Entry(a)'.left + Linger
        BY <1>5, <3>7
      <4> QED
        BY <3>1, <4>1, <4>2 DEF Lasts
  <2>3. com'[a].state = com[a].state /\ cl'[a].result = cl[a].result /\ (Answered(cl'[a]) => Answered(cl[a]))
    BY <1>3, <1>4
  <2> DEFINE u == a \in up
             m == com'[a]
             d == cl'[a]
             f == Entry(a)'
             x == a \in unlisted
  <2>4. u => \A more \in {0, Period} :
               Lasts(com[a], Entry(a), ident[a], more) => Lasts(m, f, ident[a], more)
    BY <2>2
  <2>5. Promised(u, com[a], cl[a], answers[a], buf[a], wire[a], out[a], Entry(a), ident[a], x)
    BY <2>1
  <2>6. m.state = com[a].state /\ d.result = cl[a].result /\ (Answered(d) => Answered(cl[a]))
    BY <2>3
  <2> HIDE DEF u, m, d, f, x
  <2>7. Promised(u, m, d, answers[a], buf[a], wire[a], out[a], f, ident[a], x)
    BY <2>4, <2>5, <2>6, PromiseFollows
  <2> QED
    BY <1>1, <2>7 DEF u, m, d, f, x
<1> QED
  BY <1>6, <1>7, <1>8 DEF IInv

LEMMA NextKeeps == IInv /\ [Next]_vars => IInv'
<1> SUFFICES ASSUME IInv, [Next]_vars
             PROVE  IInv'
  OBVIOUS
<1>1. ASSUME NEW a \in Agents, Agent(a)
      PROVE  IInv'
  BY <1>1, ComRunKeeps, ClientRunKeeps, HandleDataKeeps, OpenedKeeps DEF Agent
<1>2. CASE Manager
  BY <1>2, HandleKeeps, RepRunKeeps DEF Manager
<1>3. CASE Environment
  <2>1. CASE ManagerStart
    BY <2>1, SameKeeps DEF ManagerStart, network
  <2> QED
    BY <1>3, <2>1, StartKeeps, ShutdownKeeps, BreakKeeps, ManagerCrashKeeps DEF Environment
<1>4. CASE UNCHANGED vars
  BY <1>4, SameKeeps DEF vars, network, manager
<1> QED
  BY <1>1, <1>2, <1>3, <1>4, TickKeeps DEF Next, Work

----------------------------------------------------------------------------
(* Whatever was lost, delayed, left over or sent twice, and whoever else   *)
(* registers or unregisters: an agent that is REGISTERED is listed, with   *)
(* its version and its protocol, at every moment until it registers again, *)
(* unless the manager had no memory for the entry when it answered OK.     *)
THEOREM RegisteredStaysListed == Spec => []RegisteredIsListed
<1>1. IInv => RegisteredIsListed
  <2> SUFFICES ASSUME IInv, NEW a \in up, com[a].state = "REGISTERED", a \notin unlisted
               PROVE  Lists(a)
    BY DEF RegisteredIsListed
  <2>1. a \in Agents
    BY DEF IInv, Types
  <2>2. Lasts(com[a], Entry(a), ident[a], 0)
    BY <2>1 DEF IInv, Promised
  <2> QED
    BY <2>2 DEF Lasts, Held, Lists, Matches
<1> QED
  BY <1>1, InitKeeps, NextKeeps, PTL DEF Spec

(* Several requests of an agent and several answers may be under way or    *)
(* lie in buffers, left there by resets.  But at most one of them bears    *)
(* the xid that the client compares with; it is the last of all, and till  *)
(* its answer has come the agent is WAITING: no answer to an old request   *)
(* makes an agent REGISTERED.                                              *)
THEOREM OneRequestAwaited ==
  Spec => [](\A a \in Agents :
               OneAwaited(a \in up, com[a], cl[a], answers[a], buf[a], wire[a], out[a]))
<1>1. IInv => \A a \in Agents :
                OneAwaited(a \in up, com[a], cl[a], answers[a], buf[a], wire[a], out[a])
  BY DEF IInv
<1> QED
  BY <1>1, InitKeeps, NextKeeps, PTL DEF Spec
=============================================================================
