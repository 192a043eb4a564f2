------------------------------- MODULE IdList -------------------------------
(***************************************************************************)
(* The list that relates the numeric id of every object of a database to   *)
(* the object (core/ov/source/ov_database.c, ov_database_idList...).       *)
(*                                                                         *)
(* The relations are kept in the order of the ids, in nodes of Chunk       *)
(* relations each.  The nodes form a doubly linked list; an array pNodes,  *)
(* which is allocated in steps of ListChunk, points to them, and every     *)
(* node knows its number, which is its place in the array.  Ids are given  *)
(* out in ascending order and never again, so a new relation goes to the   *)
(* last node; releases make holes, and neighbours that are less than half  *)
(* full are put together.                                                  *)
(*                                                                         *)
(* The linked list is the sequence chain, from pFirst along pNext.  Of a   *)
(* relation only the id is kept.  The two dwords of an id are one number.  *)
(***************************************************************************)
EXTENDS Integers, Sequences, SequencesExt, FiniteSets

CONSTANTS
  Nodes,      (* the memory blocks for nodes                               *)
  Nil,        (* the null pointer                                          *)
  Nobody,     (* no id                                                     *)
  Chunk,      (* OV_IDLIST_RELATIONSPERCHUNK                               *)
  ListChunk,  (* OV_IDLIST_NODELISTCHUNKSIZE                               *)
  MaxId,      (* bound of the ids                                          *)
  Permanent,  (* the objects with ids below are never deleted              *)
  Stale,      (* do clients search for the ids of deleted objects?         *)
  OutOf       (* which allocations may fail: "node", "array"               *)

ASSUME IdListAssumption ==
  /\ IsFiniteSet(Nodes) /\ Nodes # {}
  /\ Nil \notin Nodes /\ Nil \notin [1..Cardinality(Nodes) -> Nodes \cup {Nil}]
  /\ Chunk \in Nat /\ Chunk >= 4 /\ Chunk % 2 = 0
  /\ ListChunk \in Nat \ {0}
  /\ MaxId \in Nat
  /\ Nobody \notin Int
  /\ Permanent \in 2..Chunk /\ Permanent <= MaxId + 1
  /\ Stale \in BOOLEAN
  /\ OutOf \subseteq {"node", "array"}

VARIABLES
  counter,    (* the id the next object will get                           *)
  chain,      (* the linked nodes                                          *)
  node,       (* their fields                                              *)
  pNodes,     (* the array of pointers to the nodes, first index 1, or Nil *)
  room,       (* how many pointers have been allocated for it              *)
  nodeCount,  (* idList->nodeCount                                         *)
  pLast,      (* idList->pLast                                             *)
  maxId,      (* idList->maxId                                             *)
  goal,       (* the id idListGetNode searches for, or Nobody              *)
  purpose,    (* what for                                                  *)
  cursor,     (* local variable node of idListGetNode                      *)
  found,      (* has the last search found a relation?                     *)
  damaged     (* has an allocation of the array failed?                    *)

list == <<counter, chain, node, pNodes, room, nodeCount, pLast, maxId, damaged>>
vars == <<counter, chain, node, pNodes, room, nodeCount, pLast, maxId,
          goal, purpose, cursor, found, damaged>>

Ids      == 0..MaxId
MaxNodes == Cardinality(Nodes)
Node     == [relations : Seq(Ids), minId : Ids, maxId : Ids, nodeNumber : 0..MaxNodes]

Count(n) == Len(node[n].relations)
Place(n) == CHOOSE i \in 1..Len(chain) : chain[i] = n

PNext(n)     == IF Place(n) = Len(chain) THEN Nil ELSE chain[Place(n) + 1]
PPrevious(n) == IF Place(n) = 1 THEN Nil ELSE chain[Place(n) - 1]

(* The relations r as the contents of node n; of an empty node minId and   *)
(* maxId keep their values.                                                *)
With(n, r) ==
  IF r = <<>> THEN [node[n] EXCEPT !.relations = r]
  ELSE [node[n] EXCEPT !.relations = r, !.minId = Head(r), !.maxId = Last(r)]

----------------------------------------------------------------------------
(* A new object: getId and idListInsert.                                   *)

Idle == goal = Nobody /\ UNCHANGED <<goal, purpose, cursor, found>>

NewId == counter \in Ids /\ counter' = counter + 1

Bug_InsertStaleMaxId ==
  /\ Idle
  /\ NewId
  /\ Count(pLast) < Chunk
  /\ node' = [node EXCEPT ![pLast].relations = Append(@, counter)]
  /\ maxId' = counter
  /\ UNCHANGED <<chain, pNodes, room, nodeCount, pLast, damaged>>
Insert ==
  /\ Idle
  /\ NewId
  /\ Count(pLast) < Chunk
  /\ node' = [node EXCEPT ![pLast].relations = Append(@, counter),
                          ![pLast].maxId = counter]
  /\ maxId' = counter
  /\ UNCHANGED <<chain, pNodes, room, nodeCount, pLast, damaged>>

(* The block that malloc returns.                                          *)
Fresh == CHOOSE n \in Nodes : n \notin ToSet(chain)

(* The last node is full: a node is linked behind it and numbered.         *)
NewNode(r) ==
  /\ Idle
  /\ NewId
  /\ Count(pLast) >= Chunk
  /\ ToSet(chain) # Nodes
  /\ chain' = Append(chain, Fresh)
  /\ pLast' = Fresh
  /\ nodeCount' = node[pLast].nodeNumber + 1
  /\ \E max \in (IF r = <<>> THEN {0, MaxId} ELSE {counter}) :
       node' = [node EXCEPT ![Fresh] = [relations |-> r, minId |-> counter, maxId |-> max,
                                        nodeNumber |-> node[pLast].nodeNumber + 1]]

(* The node is entered into the array, which is allocated anew when the    *)
(* count of nodes is a multiple of ListChunk.  (Without an array to enter  *)
(* it into, the server faults.)                                            *)
InsertInNewNode ==
  /\ NewNode(<<counter>>)
  /\ maxId' = counter
  /\ UNCHANGED damaged
  /\ IF nodeCount' % ListChunk = 0
     THEN /\ room' = nodeCount' + ListChunk
          /\ pNodes' = [i \in 1..MaxNodes |->
                          IF \E m \in ToSet(chain') : node'[m].nodeNumber = i
                          THEN CHOOSE m \in ToSet(chain') : node'[m].nodeNumber = i
                          ELSE Nil]
     ELSE /\ pNodes # Nil
          /\ pNodes' = [pNodes EXCEPT ![nodeCount'] = Fresh]
          /\ UNCHANGED room

(* No memory for a node: the id is lost, nothing else has happened.        *)
NodeAllocFails ==
  /\ "node" \in OutOf
  /\ Idle
  /\ NewId
  /\ Count(pLast) >= Chunk
  /\ UNCHANGED <<chain, node, pNodes, room, nodeCount, pLast, maxId, damaged>>

(* No memory for the array, after the old one was freed: idListInsert      *)
(* returns between linking the node and filling it.                        *)
ArrayAllocFails ==
  /\ "array" \in OutOf
  /\ NewNode(<<>>)
  /\ nodeCount' % ListChunk = 0
  /\ pNodes' = Nil
  /\ room' = 0
  /\ damaged' = TRUE
  /\ UNCHANGED maxId

----------------------------------------------------------------------------
(* idListGetNode.  Its fraction id64 / maxId is an integer division: the   *)
(* walk starts at the last node for the greatest id and at the first for   *)
(* all others.                                                             *)

(* Without an array it faults too.                                         *)
Seek(id, p) ==
  /\ goal = Nobody
  /\ pNodes # Nil
  /\ goal' = id
  /\ purpose' = p
  /\ cursor' = IF id > maxId THEN Nil
               ELSE pNodes[(id \div maxId) * (nodeCount - 1) + 1]
  /\ UNCHANGED <<list, found>>

Known == UNION {ToSet(node[n].relations) : n \in ToSet(chain)}

Released == {id \in Ids : id < counter} \ Known

(* A path may name an object by its id.                                    *)
GetObjectById(id) ==
  /\ id \in Known \/ (Stale /\ id \in Released)
  /\ Seek(id, "find")

(* Objects are deleted once.                                               *)
Release(id) ==
  /\ id \in Known
  /\ id >= Permanent
  /\ Seek(id, "release")

WalkNext ==
  /\ goal # Nobody /\ cursor # Nil
  /\ node[cursor].maxId < goal
  /\ cursor' = PNext(cursor)
  /\ UNCHANGED <<list, goal, purpose, found>>

WalkPrevious ==
  /\ goal # Nobody /\ cursor # Nil
  /\ node[cursor].maxId >= goal
  /\ node[cursor].minId > goal
  /\ cursor' = PPrevious(cursor)
  /\ UNCHANGED <<list, goal, purpose, found>>

Arrived ==
  /\ goal # Nobody /\ cursor # Nil
  /\ node[cursor].maxId >= goal
  /\ node[cursor].minId <= goal

(* idListGetRelationIndex bisects the relations of the node: one pass of   *)
(* the loop takes the bounds p to those of the half where id may be.  The  *)
(* loop is entered once at least, and after it two relations are left to   *)
(* compare.  It gives the index, from 1 on, or 0.                          *)
Halved(r, id, p) ==
  LET mid == (p[2] - p[1]) \div 2 + p[1]
  IN  CASE id > r[mid] -> <<mid, p[2]>>
        [] id < r[mid] -> <<p[1], mid>>
        [] OTHER       -> <<mid, mid>>

Bounds(r, id) ==
  LET pass == [p \in (1..Len(r)) \X (1..Len(r)) |->
                 IF p[2] - p[1] > 1 THEN Halved(r, id, p) ELSE p]
      bounds[k \in 0..Len(r)] ==
        IF k = 0 THEN Halved(r, id, <<1, Len(r)>>) ELSE pass[bounds[k - 1]]
  IN  bounds

Bug_RelationIndex(r, id) ==
  LET compared == [i \in 1..Len(r) |-> IF r[i] = id THEN i ELSE 0]
  IN  compared[Bounds(r, id)[Len(r)][1]]
RelationIndex(r, id) ==
  LET compared == [i \in 1..Len(r) |->
                     CASE r[i] = id -> i
                       [] r[i] # id /\ i < Len(r) /\ r[i + 1] = id -> i + 1
                       [] OTHER -> 0]
  IN  compared[Bounds(r, id)[Len(r)][1]]

Index == RelationIndex(node[cursor].relations, goal)

Done == goal' = Nobody /\ cursor' = Nil /\ UNCHANGED purpose

NotFound ==
  /\ goal # Nobody
  /\ \/ cursor = Nil
     \/ Arrived /\ Index = 0
  /\ found' = FALSE
  /\ Done
  /\ UNCHANGED list

Found ==
  /\ purpose = "find"
  /\ Arrived /\ Index # 0
  /\ found' = TRUE
  /\ Done
  /\ UNCHANGED list

----------------------------------------------------------------------------
(* idListRelease, once the relation has been found.                        *)

Small(r) == Len(r) \div (Chunk \div 2) < 1

(* The relations of two nodes put together, as far as they fit.            *)
Joined(r, s) ==
  IF Len(r) + Len(s) <= Chunk THEN r \o s ELSE SubSeq(r \o s, 1, Chunk)

Remaining == RemoveAt(node[cursor].relations, Index)

Releases ==
  /\ purpose = "release"
  /\ Arrived /\ Index # 0
  /\ found' = TRUE
  /\ Done
  /\ UNCHANGED <<counter, damaged>>

MergeableNext ==
  /\ PNext(cursor) # Nil
  /\ Small(Remaining)
  /\ Small(node[PNext(cursor)].relations)

MergeablePrevious ==
  /\ PPrevious(cursor) # Nil
  /\ Small(Remaining)
  /\ Small(node[PPrevious(cursor)].relations)

(* Unlink node d: the array and the numbers behind it move up by one.  The *)
(* argument m holds the fields of the nodes before that.                   *)
Drop(d, m) ==
  LET last  == nodeCount - 1
      moved == {pNodes[i] : i \in (m[d].nodeNumber + 1)..nodeCount}
  IN  /\ chain' = RemoveAt(chain, Place(d))
      /\ pNodes' = [i \in 1..MaxNodes |->
                      CASE i \in m[d].nodeNumber..last -> pNodes[i + 1]
                        [] i = nodeCount -> Nil
                        [] OTHER -> pNodes[i]]
      /\ node' = [n \in Nodes |->
                    CASE n \in moved -> [m[n] EXCEPT !.nodeNumber = @ - 1]
                      [] n = d -> [m[n] EXCEPT !.relations = <<>>, !.minId = 0,
                                               !.maxId = 0, !.nodeNumber = 0]
                      [] OTHER -> m[n]]
      /\ nodeCount' = last
      /\ room' = IF last % ListChunk = 0 THEN last ELSE room
      /\ pLast' = pNodes'[last]
      /\ maxId' = node'[pLast'].maxId

MergeNext ==
  /\ Releases
  /\ MergeableNext
  /\ Drop(PNext(cursor),
          [node EXCEPT ![cursor] = With(cursor, Joined(Remaining, node[PNext(cursor)].relations))])

Bug_MergePrevious ==
  /\ Releases
  /\ ~MergeableNext
  /\ MergeablePrevious
  /\ Drop(cursor,
          [node EXCEPT ![PPrevious(cursor)] =
             With(PPrevious(cursor), Joined(Remaining, node[PPrevious(cursor)].relations))])
MergePrevious ==
  /\ Releases
  /\ ~MergeableNext
  /\ MergeablePrevious
  /\ Drop(cursor,
          [node EXCEPT ![PPrevious(cursor)] =
             With(PPrevious(cursor), Joined(node[PPrevious(cursor)].relations, Remaining))])

DropEmpty ==
  /\ Releases
  /\ ~MergeableNext /\ ~MergeablePrevious
  /\ Remaining = <<>>
  /\ Drop(cursor, node)

Shrink ==
  /\ Releases
  /\ ~MergeableNext /\ ~MergeablePrevious
  /\ Remaining # <<>>
  /\ node' = [node EXCEPT ![cursor] = With(cursor, Remaining)]
  /\ maxId' = node'[pLast].maxId
  /\ UNCHANGED <<chain, pNodes, room, nodeCount, pLast>>

----------------------------------------------------------------------------
(* A new database: the first node holds the objects of the meta model.     *)
First == CHOOSE n \in Nodes : TRUE

Init ==
  /\ counter = Permanent
  /\ chain = <<First>>
  /\ node = [n \in Nodes |->
               IF n = First
               THEN [relations |-> [i \in 1..Permanent |-> i - 1], minId |-> 0,
                     maxId |-> Permanent - 1, nodeNumber |-> 1]
               ELSE [relations |-> <<>>, minId |-> 0, maxId |-> 0, nodeNumber |-> 0]]
  /\ pNodes = [i \in 1..MaxNodes |-> IF i = 1 THEN First ELSE Nil]
  /\ room = ListChunk
  /\ nodeCount = 1
  /\ pLast = First
  /\ maxId = Permanent - 1
  /\ goal = Nobody
  /\ purpose = "find"
  /\ cursor = Nil
  /\ found = FALSE
  /\ damaged = FALSE

Create == Insert \/ InsertInNewNode \/ NodeAllocFails \/ ArrayAllocFails

Search ==
  \/ WalkNext \/ WalkPrevious \/ NotFound \/ Found
  \/ MergeNext \/ MergePrevious \/ DropEmpty \/ Shrink

Next == Create \/ Search \/ \E id \in Ids : GetObjectById(id) \/ Release(id)

Spec == Init /\ [][Next]_vars

(* The loop of the search goes on.                                         *)
FairSpec == Spec /\ WF_vars(Search)

----------------------------------------------------------------------------
TypeOK ==
  /\ counter \in 0..MaxId + 1
  /\ chain \in Seq(Nodes)
  /\ node \in [Nodes -> Node]
  /\ \A n \in Nodes : Count(n) <= Chunk
  /\ pNodes = Nil \/ pNodes \in [1..MaxNodes -> Nodes \cup {Nil}]
  /\ room \in Nat
  /\ nodeCount \in 1..MaxNodes
  /\ pLast \in Nodes
  /\ maxId \in Ids
  /\ goal \in Ids \cup {Nobody}
  /\ purpose \in {"find", "release"}
  /\ cursor \in Nodes \cup {Nil}
  /\ found \in BOOLEAN
  /\ damaged \in BOOLEAN

(* The array, the numbers of the nodes and the linked list agree: else the *)
(* walk starts anywhere and releases number the wrong nodes.  After a      *)
(* failed allocation of the array this is restored with the next array.    *)
ArrayMirrorsList ==
  /\ nodeCount = Len(chain)
  /\ pLast = Last(chain)
  /\ \A i \in 1..Len(chain) :
       /\ node[chain[i]].nodeNumber = i
       /\ pNodes # Nil => pNodes[i] = chain[i]

(* The ids ascend through all nodes, minId and maxId are those of the      *)
(* relations and no node is empty: what the walk and the bisection rely    *)
(* on, and what makes the id of a new object the greatest.                 *)
IdsAscend ==
  ~damaged =>
  /\ \A n \in ToSet(chain) :
       /\ node[n].relations # <<>>
       /\ \A i, j \in 1..Count(n) : i < j => node[n].relations[i] < node[n].relations[j]
       /\ node[n].minId = Head(node[n].relations)
       /\ node[n].maxId = Last(node[n].relations)
  /\ \A i \in 1..Len(chain) - 1 : node[chain[i]].maxId < node[chain[i + 1]].minId
  /\ maxId = node[pLast].maxId
  /\ maxId < counter

(* "If the node and the next node are less than half full put them         *)
(* together": no two neighbours are less than half full, however many      *)
(* objects are deleted in whatever order.                                  *)
HalfFull ==
  ~damaged =>
    \A i \in 1..Len(chain) - 1 :
      2 * Count(chain[i]) >= Chunk \/ 2 * Count(chain[i + 1]) >= Chunk

(* The nodes are as every walk, bisection and release expects them to be   *)
(* after any sequence of insertions and releases.                          *)
NodesSound == TypeOK /\ ArrayMirrorsList /\ IdsAscend /\ HalfFull

(* The array has room for a pointer to every node.                         *)
ArrayFits == pNodes # Nil => nodeCount <= room

(* The search for an object that exists ends.                              *)
SearchEnds == (~damaged /\ goal \in Known) ~> (goal = Nobody \/ damaged)

(* The search ends whatever id it is for.  The code does not have this     *)
(* property: between two nodes the walk goes to and fro.                   *)
AnySearchEnds == (goal # Nobody) ~> (goal = Nobody)

Map == INSTANCE IdMap WITH known <- Known, top <- counter

(* The nodes implement the map: no relation is lost or left over when      *)
(* nodes are filled, put together and dropped, and a search finds an       *)
(* object iff it exists.                                                   *)
ImplementsMap == Map!Spec
=============================================================================
