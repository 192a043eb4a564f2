----------------------------- MODULE Hierarchy -----------------------------
(***************************************************************************)
(* What clients may rely on of the hierarchy of objects: every object has  *)
(* a place below the root, siblings have different names, and to create,   *)
(* delete and move an object are single steps, whatever the methods of its *)
(* class do meanwhile.  Links of another association go with the objects,  *)
(* and no other one does.                                                  *)
(***************************************************************************)
EXTENDS FiniteSets, Naturals

CONSTANTS Objects, Root, Holders, Held, Nil

VARIABLES
  parent,  (* of each object; Nil if it does not exist                     *)
  name,    (* of each object                                               *)
  holder   (* of each object that may be linked; Nil if it is not          *)

vars == <<parent, name, holder>>

(* The objects from o up to the root, if f is the function to the parents. *)
Above(f, o) ==
  LET up[n \in 0..Cardinality(Objects)] ==
        IF n = 0 THEN {o}
        ELSE LET lower == up[n - 1] IN lower \cup {f[d] : d \in lower \cap Objects}
  IN  up[Cardinality(Objects)]

Exist(f) == {o \in Objects : f[o] # Nil}

Sound(f, n) ==
  /\ \A o \in Exist(f) : Root \in Above(f, o) /\ Nil \notin Above(f, o)
  /\ \A o, d \in Exist(f) : (o # d /\ f[o] = f[d]) => n[o] # n[d]

Init ==
  /\ parent = [o \in Objects |-> Nil]
  /\ name = [o \in Objects |-> Nil]
  /\ holder = [t \in Held |-> Nil]

(* A constructor may create objects below the new one, and link these.     *)
Create(o) ==
  /\ o \in Exist(parent') \ Exist(parent)
  /\ \A d \in Exist(parent') \ Exist(parent) : o \in Above(parent', d)
  /\ \A d \in Exist(parent) : parent'[d] = parent[d] /\ name'[d] = name[d]
  /\ Sound(parent', name')
  /\ \A t \in Held :
       holder'[t] # holder[t] =>
         /\ holder[t] = Nil
         /\ {t, holder'[t]} \subseteq Exist(parent')
         /\ {t, holder'[t]} \cap Exist(parent) # {t, holder'[t]}

Delete(o) ==
  LET gone == {d \in Exist(parent) : o \in Above(parent, d)}
  IN  /\ parent' = [d \in Objects |-> IF d \in gone THEN Nil ELSE parent[d]]
      /\ name' = [d \in Objects |-> IF d \in gone THEN Nil ELSE name[d]]
      /\ holder' = [t \in Held |-> IF {t, holder[t]} \cap gone = {} THEN holder[t] ELSE Nil]

Rename(o, p, n) ==
  /\ o \in Exist(parent)
  /\ parent' = [parent EXCEPT ![o] = p]
  /\ name' = [name EXCEPT ![o] = n]
  /\ Sound(parent', name')
  /\ UNCHANGED holder

Link(u, t) ==
  /\ {u, t} \subseteq Exist(parent)
  /\ holder[t] = Nil
  /\ holder' = [holder EXCEPT ![t] = u]
  /\ UNCHANGED <<parent, name>>

Unlink(t) ==
  /\ holder' = [holder EXCEPT ![t] = Nil]
  /\ UNCHANGED <<parent, name>>

Next ==
  \/ \E o \in Objects :
       \/ Create(o)
       \/ Delete(o)
       \/ \E p \in Objects \cup {Root} : Rename(o, p, name'[o])
  \/ \E t \in Held : Unlink(t) \/ \E u \in Holders : Link(u, t)

Spec == Init /\ [][Next]_vars
=============================================================================
