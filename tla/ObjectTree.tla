----------------------------- MODULE ObjectTree -----------------------------
(***************************************************************************)
(* How objects are created, deleted and renamed (core/ov/source/           *)
(* ov_class.c: ov_class_createobject, ..._deleteobject with                *)
(* ..._deleteobject_cleanupinst, ..._renameobject; the rename service in   *)
(* syslibs/ksbase/source/ovks_backend_renameobject.c).                     *)
(*                                                                         *)
(* The objects form a hierarchy by the association ov_containment, whose   *)
(* pointers are those of module Links.  Creating and deleting call methods *)
(* of the class of the object, and these may create and delete objects in  *)
(* turn: constructors create children of the new object (as that of        *)
(* ssc_SequentialStateChart does), shutdown methods delete objects below   *)
(* the one being shut down (as that of TCPbind_TCPListener does).  So the  *)
(* calls in progress are a stack.                                          *)
(*                                                                         *)
(* All objects are domains.  Part objects, which live and die with their   *)
(* outer object, are left out.  One more association, 1:n between objects  *)
(* of derived classes, stands for all others: whose child an object is,    *)
(* without the pointers, which are the matter of module Association.       *)
(***************************************************************************)
EXTENDS Links

CONSTANTS
  Children,          (* all objects but the root                           *)
  Parents,           (* all objects                                        *)
  Root,              (* the root object                                    *)
  Holders, Held,     (* the objects of the parent and of the child class   *)
                     (* of the other association                           *)
  Names,             (* the identifiers                                    *)
  MaxHierarchyDepth, (* vendor variable; 0 means that there is no bound    *)
  MaxMade            (* a constructor creates no more children             *)

ASSUME ObjectTreeAssumption ==
  /\ Root \notin Children
  /\ Parents = Children \cup {Root}
  /\ Nil \notin Parents \cup Names
  /\ IsFiniteSet(Children)
  /\ Holders \subseteq Children /\ Held \subseteq Children
  /\ MaxHierarchyDepth \in Nat
  /\ MaxMade \in Nat

VARIABLES
  alive,    (* the objects whose memory is allocated                       *)
  links,    (* the heads and anchors of ov_containment                     *)
  holder,   (* the parents in the other association                        *)
  name,     (* v_identifier                                                *)
  started,  (* the objects with OV_OS_STARTED                              *)
  stack,    (* the calls of createobject and deleteobject in progress      *)
  before,   (* the tree as it was when the first of these calls was made   *)
  lost      (* the object, unlinked, on which a rename has aborted the     *)
            (* server; Nil as long as the server runs                      *)

vars == <<alive, links, holder, name, started, stack, before, lost>>

(* Where a call is: in the constructor or the shutdown method of the       *)
(* object, or in cleanupinst, deleting its children; and how many children *)
(* the constructor has created.                                            *)
Frame == [obj : Children, at : {"constructor", "shutdown", "cleanup"}, made : 0..MaxMade]

Tree   == [parent |-> links.pparent, name |-> name, holder |-> holder]
NoTree == [parent |-> Empty(Parents, Children).pparent, name |-> [o \in Children |-> Nil],
           holder |-> [t \in Held |-> Nil]]

(* p and the objects that contain it, up to the root, with the pointers l. *)
AndAbove(l, p) ==
  LET up[n \in 0..Cardinality(Children)] ==
        IF n = 0 THEN {p}
        ELSE LET lower == up[n - 1]
             IN  lower \cup {l.pparent[d] : d \in lower \cap Children}
  IN  up[Cardinality(Children)] \ {Nil}

AndBelow(o) == {d \in Children : o \in AndAbove(links, d)}

(* The check of the hierarchy levels, for an object to be put into p.      *)
TooDeep(p) == MaxHierarchyDepth # 0 /\ Cardinality(AndAbove(links, p)) > MaxHierarchyDepth

NameTaken(p, n) == \E d \in ToSet(ChildrenOf(links, p)) : name[d] = n

Top == Last(stack)

(* A call returns; the first one has no more need of the tree before.      *)
Return ==
  /\ stack' = Front(stack)
  /\ before' = IF Len(stack) = 1 THEN NoTree ELSE before

Calling(s, o, at) == Append(s, [obj |-> o, at |-> at, made |-> 0])

Call(o, at) ==
  /\ stack' = Calling(stack, o, at)
  /\ before' = IF stack = <<>> THEN Tree ELSE before

(* The loops of cleanupinst over the other links of an object, its         *)
(* children's and its own.                                                 *)
Bug_Alone(o) == [t \in Held |-> IF t = o THEN Nil ELSE holder[t]]
Alone(o) == [t \in Held |-> IF o \in {t, holder[t]} THEN Nil ELSE holder[t]]

(* Into cleanupinst.  It goes through the derived classes first, so that   *)
(* the other links are gone before the children are.                       *)
Proceed ==
  /\ stack' = [stack EXCEPT ![Len(stack)].at = "cleanup"]
  /\ holder' = Alone(Top.obj)
  /\ UNCHANGED before

----------------------------------------------------------------------------
(* ov_class_createobject.                                                  *)

(* Clients create anywhere, constructors below the new object.             *)
MayCreate(p) ==
  IF stack = <<>> THEN p \in alive \cup {Root} ELSE Top.at = "constructor" /\ p = Top.obj /\ Top.made < MaxMade

CreateResult(p, c, n, place) ==
  IF TooDeep(p) THEN "BADPLACEMENT" ELSE LinkResult(links, p, c, place, NameTaken(p, n))

(* The new object is linked to its parent domain, and its constructor is   *)
(* called.  If the checks or the link fail, nothing has happened.          *)
Create(p, c, n, place) ==
  /\ MayCreate(p)
  /\ c \notin alive
  /\ CreateResult(p, c, n, place) = "OK"
  /\ alive' = alive \cup {c}
  /\ links' = LinkOutcome(links, p, c, place, NameTaken(p, n))
  /\ name' = [name EXCEPT ![c] = n]
  /\ IF stack = <<>> THEN Call(c, "constructor")
     ELSE /\ stack' = Calling([stack EXCEPT ![Len(stack)].made = @ + 1], c, "constructor")
          /\ UNCHANGED before
  /\ UNCHANGED <<holder, started>>

(* The constructor, the initialization by the client or checkinit fails:   *)
(* the object is cleaned up.  (While the activities are locked this does   *)
(* not happen.)                                                            *)
Bug_CreateFails ==  (* freed without cleanupinst                           *)
  /\ stack # <<>> /\ Top.at = "constructor"
  /\ alive' = alive \ {Top.obj}
  /\ Return
  /\ UNCHANGED <<links, holder, name, started>>
CreateFails ==
  /\ stack # <<>> /\ Top.at = "constructor"
  /\ Proceed
  /\ UNCHANGED <<alive, links, name, started>>

(* m_startup starts up the object and all objects below it.                *)
Bug_CreateSucceeds ==  (* a startup method that does not call the base's   *)
  /\ stack # <<>> /\ Top.at = "constructor"
  /\ Return
  /\ UNCHANGED <<alive, links, holder, name, started>>
CreateSucceeds ==
  /\ stack # <<>> /\ Top.at = "constructor"
  /\ started' = started \cup AndBelow(Top.obj)
  /\ Return
  /\ UNCHANGED <<alive, links, holder, name>>

----------------------------------------------------------------------------
(* ov_class_deleteobject.                                                  *)

MayDelete(o) ==
  IF stack = <<>> THEN o \in alive
                  ELSE Top.at = "shutdown" /\ o \in AndBelow(Top.obj) \ {Top.obj}

Delete(o) ==
  /\ MayDelete(o)
  /\ Call(o, "shutdown")
  /\ UNCHANGED <<alive, links, holder, name, started>>

(* m_shutdown shuts down all objects below as well.  The destructor is     *)
(* called, and then cleanupinst.                                           *)
ShutdownReturns ==
  /\ stack # <<>> /\ Top.at = "shutdown"
  /\ started' = started \ AndBelow(Top.obj)
  /\ Proceed
  /\ UNCHANGED <<alive, links, name>>

(* cleanupinst deletes the first child as long as there is one.            *)
CleanChild ==
  /\ stack # <<>> /\ Top.at = "cleanup"
  /\ links.pfirst[Top.obj] # Nil
  /\ Call(links.pfirst[Top.obj], "shutdown")
  /\ UNCHANGED <<alive, links, holder, name, started>>

(* Then it unlinks the object from its parent, and the memory is freed.    *)
Bug_FreedLinked ==  (* freed, but still linked                              *)
  /\ stack # <<>> /\ Top.at = "cleanup"
  /\ links.pfirst[Top.obj] = Nil
  /\ alive' = alive \ {Top.obj}
  /\ name' = [name EXCEPT ![Top.obj] = Nil]
  /\ started' = started \ {Top.obj}
  /\ Return
  /\ UNCHANGED <<links, holder>>
Free ==
  /\ stack # <<>> /\ Top.at = "cleanup"
  /\ links.pfirst[Top.obj] = Nil
  /\ alive' = alive \ {Top.obj}
  /\ links' = Unlinked(links, links.pparent[Top.obj], Top.obj)
  /\ name' = [name EXCEPT ![Top.obj] = Nil]
  /\ started' = started \ {Top.obj}
  /\ Return
  /\ UNCHANGED holder

----------------------------------------------------------------------------
(* ov_class_renameobject, called by the rename service.                    *)

(* The checks.  An object that stays in its domain is not moved, so that   *)
(* its own name counts as taken.                                           *)
Bug_RenameChecks(o, p, n, place) ==  (* into itself?                       *)
  IF place.rel = o                                          THEN "BADPLACEMENT"
  ELSE IF NameTaken(p, n)                                   THEN "CANTMOVE"
  ELSE IF p # links.pparent[o] /\ TooDeep(p)                THEN "BADPLACEMENT"
  ELSE "OK"
RenameChecks(o, p, n, place) ==
  IF place.rel = o                                          THEN "BADPLACEMENT"
  ELSE IF NameTaken(p, n)                                   THEN "CANTMOVE"
  ELSE IF p # links.pparent[o] /\ o \in AndAbove(links, p)  THEN "CANTMOVE"
  ELSE IF p # links.pparent[o] /\ TooDeep(p)                THEN "BADPLACEMENT"
  ELSE "OK"

(* The service looks for the relative in the new domain.                   *)
RenameResult(o, p, n, place) ==
  IF place.hint \in Relative /\ Parent(links, place.rel) # p THEN "BADPLACEMENT"
                                                             ELSE RenameChecks(o, p, n, place)

(* The object gets its new name, and if the domain is another one it is    *)
(* unlinked and linked again.  If the link is refused then, Ov_AbortIfNot  *)
(* ends the server (when built with OV_DEBUG), and the database keeps the  *)
(* object without a parent; clients have last seen the tree as it was.     *)
(* (A relative named by an absolute path makes the service answer with     *)
(* what resolving the path returned, and rename nothing: it asks whether   *)
(* the pointer to that result is OV_ERR_OK.)                               *)
Moved(o) == Unlinked(links, links.pparent[o], o)

TakenThen(o, p, n) == \E d \in ToSet(ChildrenOf(Moved(o), p)) : name[d] = n

Refused(o, p, n, place) ==
  p # links.pparent[o] /\ LinkResult(Moved(o), p, o, place, TakenThen(o, p, n)) # "OK"

Rename(o, p, n, place) ==
  /\ stack = <<>>
  /\ o \in alive /\ p \in alive \cup {Root}
  /\ RenameResult(o, p, n, place) = "OK"
  /\ name' = [name EXCEPT ![o] = n]
  /\ links' = IF p = links.pparent[o] THEN links
              ELSE LinkOutcome(Moved(o), p, o, place, TakenThen(o, p, n))
  /\ lost' = IF Refused(o, p, n, place) THEN o ELSE lost
  /\ before' = IF Refused(o, p, n, place) THEN Tree ELSE before
  /\ UNCHANGED <<alive, holder, started, stack>>

----------------------------------------------------------------------------
(* The link and unlink services, for the other association.  Constructors  *)
(* link the new object, and so does the creation service with the links of *)
(* its request: objects that exist already are linked to it or it to them. *)
MayLink(u, t) ==
  IF stack = <<>> THEN {u, t} \subseteq alive
                  ELSE Top.at = "constructor" /\ Top.obj \in {u, t} /\ {u, t} \subseteq alive

Bug_Hold(u, t) ==  (* what holds t is not looked at                        *)
  /\ MayLink(u, t)
  /\ holder' = [holder EXCEPT ![t] = u]
  /\ UNCHANGED <<alive, links, name, started, stack, before>>
Hold(u, t) ==
  /\ MayLink(u, t)
  /\ holder[t] = Nil
  /\ holder' = [holder EXCEPT ![t] = u]
  /\ UNCHANGED <<alive, links, name, started, stack, before>>

LetGo(u, t) ==
  /\ stack = <<>>
  /\ holder[t] = u
  /\ holder' = [holder EXCEPT ![t] = Nil]
  /\ UNCHANGED <<alive, links, name, started, stack, before>>

----------------------------------------------------------------------------
Init ==
  /\ alive = {}
  /\ links = Empty(Parents, Children)
  /\ holder = NoTree.holder
  /\ name = NoTree.name
  /\ started = {}
  /\ stack = <<>>
  /\ before = NoTree
  /\ lost = Nil

(* The calls return, in the end: the methods do.                           *)
Progress ==
  /\ CreateFails \/ CreateSucceeds \/ ShutdownReturns \/ CleanChild \/ Free
  /\ UNCHANGED lost

(* Guards of Create and Rename stand before their inner quantifiers, too,  *)
(* where they save TLC most of the enumeration.                            *)
Calls ==
  \/ Progress
  \/ \E o \in Children : Delete(o)
  \/ \E u \in Holders, t \in Held : Hold(u, t) \/ LetGo(u, t)
  \/ \E c \in Children \ alive, p \in Parents :
       MayCreate(p) /\ \E n \in Names, place \in Place(Children) : Create(p, c, n, place)

Renames ==
  /\ stack = <<>>
  /\ \E o \in alive, p \in Parents, n \in Names, place \in Place(Children) : Rename(o, p, n, place)

Running == lost = Nil

Aborted == lost # Nil /\ UNCHANGED vars

Next ==
  \/ Running /\ Calls /\ UNCHANGED lost
  \/ Running /\ Renames
  \/ Aborted

Spec == Init /\ [][Next]_vars

FairSpec == Spec /\ WF_vars(Progress)

----------------------------------------------------------------------------
TypeOK ==
  /\ alive \in SUBSET Children
  /\ links \in LinkTables(Parents, Children)
  /\ holder \in [Held -> Holders \cup {Nil}]
  /\ name \in [Children -> Names \cup {Nil}]
  /\ started \in SUBSET Children
  /\ stack \in Seq(Frame) /\ Len(stack) <= Cardinality(Children)
  /\ before \in [parent : [Children -> Parents \cup {Nil}],
                 name : [Children -> Names \cup {Nil}],
                 holder : [Held -> Holders \cup {Nil}]]
  /\ lost \in Children \cup {Nil}

(* The hierarchy is a tree of the objects that exist, also in the middle   *)
(* of a call: none is in a cycle, is lost, or is linked to freed memory.   *)
(* When a rename has aborted the server, its object is lost with all below *)
(* it, still a tree, and nothing else is.                                  *)
TreeOfTheLiving ==
  /\ AnchorsAgree(links) /\ HeadsAgree(links)
  /\ lost # Nil => lost \in alive /\ links.pparent[lost] = Nil
  /\ \A o \in Children :
       IF o \in alive THEN /\ {Root, lost} \cap AndAbove(links, o) # {}
                           /\ AndAbove(links, o) \subseteq alive \cup {Root}
                      ELSE links.pparent[o] = Nil /\ links.pfirst[o] = Nil

(* Nor does any other link lead to an object that is gone or on its way    *)
(* there: cleanupinst does not come back to links it has undone.           *)
LinksOfTheLiving ==
  LET going == {stack[i].obj : i \in {j \in DOMAIN stack : stack[j].at = "cleanup"}}
  IN  \A t \in Held : holder[t] # Nil => {t, holder[t]} \subseteq alive \ going

(* A path leads to one object: siblings have different names.              *)
PathsUnique ==
  \A o, d \in alive : (o # d /\ links.pparent[o] = links.pparent[d]) => name[o] # name[d]

(* No call unwinds with an object half created or half shut down: outside  *)
(* of calls all objects are started up.                                    *)
AllStarted == stack = <<>> => started = alive

(* Ov_AbortIfNot in renameobject, which ends the process: the checks made  *)
(* before the object is unlinked leave the link one reason to fail, a hint *)
(* that stands for nothing, which nobody has looked at by then.            *)
AbortsOnUnknownHint ==
  (Running /\ stack = <<>>) =>
    \A o \in alive, p \in alive \cup {Root}, n \in Names, place \in Place(Children) :
      (p # links.pparent[o] /\ RenameResult(o, p, n, place) = "OK")
        => (Refused(o, p, n, place) <=> ~IsKnown(place))

(* Also in the middle of nested calls: a tree of objects that exist, with  *)
(* unique paths; between calls all of them are started up.  A rename that  *)
(* passes the checks aborts the server exactly if it moves an object with  *)
(* an unknown hint, and loses this object and what is below, no more.      *)
TreeSound ==
  TypeOK /\ TreeOfTheLiving /\ LinksOfTheLiving /\ PathsUnique /\ AllStarted /\ AbortsOnUnknownHint

(* "Check hierarchy levels": no object is deeper than MaxHierarchyDepth.   *)
(* The code does not have this property: the height of a subtree that is   *)
(* moved is not counted.                                                   *)
DepthBounded ==
  MaxHierarchyDepth # 0 =>
    \A o \in alive : Cardinality(AndAbove(links, o)) <= MaxHierarchyDepth + 1

(* Every call returns: cleanupinst does not go on deleting the same child. *)
CallsReturn == stack # <<>> ~> stack = <<>>

Visible == IF Running /\ stack = <<>> THEN Tree ELSE before

Seen == INSTANCE Hierarchy
          WITH Objects <- Children, parent <- Visible.parent, name <- Visible.name,
               holder <- Visible.holder

(* Seen between the calls of clients, creating, deleting and renaming are  *)
(* single steps: a creation that fails leaves nothing behind, whatever its *)
(* constructor had created and linked, and a deletion takes all below,     *)
(* with their links, and no more.  An abort shows nothing.                 *)
ImplementsHierarchy == Seen!Spec
=============================================================================
