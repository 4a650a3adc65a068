-------------------------------- MODULE Node --------------------------------
(***************************************************************************)
(* source/taskete/node.hpp, node.cpp and execution_payload.hpp: nodes that *)
(* own a type-erased callable and a list of waiting handles, both from a   *)
(* memory resource, and are constructed, moved, run and destroyed by one   *)
(* thread.                                                                 *)
(*                                                                         *)
(* The callable is created by the caller (external), in memory of its own  *)
(* size.  A pointer is <<block, offset>>.  A node keeps the callable as a  *)
(* pointer to its virtual base, which lies where the compiler puts it.     *)
(***************************************************************************)
EXTENDS Integers, Sequences, FiniteSets

CONSTANTS Places,   \* storage for node objects
          Null,     \* nullptr
          Graphs,   \* values of graph_id
          Counts,   \* values of wait_no
          Lists,    \* the handle lists a node is constructed with
          Sizes,    \* sizeof(universal_callable<...>)
          Offsets,  \* where a build may put the base in a universal_callable
          Allocs    \* bound on the allocations

ASSUME NodeAssumption ==
  /\ Allocs \in Nat /\ Sizes \subseteq Nat /\ Offsets \subseteq Nat
  /\ Null \notin (1 .. Allocs) \X Nat
  /\ \A list \in Lists : Len(list) \in Nat

VARIABLES
  node,      \* the node in each place, NoNode before one was constructed
  held,      \* payload pointers of the caller, not given to a node yet
  blocks,    \* what the resource has handed out and not got back
  alive,     \* payloads constructed and not destroyed
  offset,    \* where this build puts execution_payload in its derived class
  allocated, \* history: number of allocations
  misfreed,  \* history: deallocate calls that match no block
  made,      \* history: nodes as they were constructed
  phase      \* "up", "crashed" (nullptr), "aborted" (pure virtual call),
             \* "terminated" (the callable threw)

heap == <<blocks, alive, allocated, misfreed>>
vars == <<node, held, heap, offset, made, phase>>

NoNode == [graph_id |-> Null, wait_counter |-> 0, exec_payload |-> Null,
           handles |-> Null, size |-> 0]

Init ==
  /\ node = [n \in Places |-> NoNode]
  /\ held = {} /\ blocks = {} /\ alive = {} /\ allocated = 0
  /\ offset \in Offsets
  /\ misfreed = {} /\ made = {} /\ phase = "up"

-----------------------------------------------------------------------------
(* The memory resource *)

\* allocate: a new block of that size, in which the caller writes data.
Allocate(size, data) ==
  /\ allocated < Allocs
  /\ allocated' = allocated + 1
  /\ blocks' = blocks \cup {[at |-> <<allocated', 0>>, size |-> size, data |-> data]}

\* deallocate: each call has to name a block by its address and its size.
Deallocate(calls) ==
  LET Named(b) == [at |-> b.at, size |-> b.size]
  IN /\ blocks' = {b \in blocks : Named(b) \notin calls}
     /\ misfreed' = misfreed \cup {c \in calls : \A b \in blocks : Named(b) # c}

-----------------------------------------------------------------------------
\* The caller makes a universal_callable and keeps it as execution_payload*.
MakePayload(size) ==
  /\ Allocate(size, <<>>)
  /\ held' = held \cup {<<allocated', offset>>}
  /\ alive' = alive \cup {<<allocated', offset>>}
  /\ UNCHANGED <<node, offset, misfreed, made, phase>>

\* A node that was constructed and not destroyed; it may be moved from.
Constructed(n) ==
  /\ node[n] # NoNode
  /\ node[n].exec_payload \in alive \cup {Null}

\* A place can take a node when the one in it is not needed any more: it was
\* moved from or destroyed.
Vacant(n) == node[n].exec_payload \notin alive

\* What a node that owns its payload and its list consists of.
Content(nd) ==
  [graph_id |-> nd.graph_id, wait_counter |-> nd.wait_counter,
   payload |-> nd.exec_payload,
   list |-> {b.data : b \in {b \in blocks : b.at = nd.handles}}]

\* Mutant of Construct: the copy loop advances the member handles.
ConstructAdvancesHandles(n, payload, graph, wait_no, list) ==
  /\ Vacant(n) /\ payload \in held
  /\ Allocate(Len(list), list)
  /\ node' = [node EXCEPT ![n] =
                [graph_id |-> graph, wait_counter |-> wait_no,
                 exec_payload |-> payload,
                 handles |-> <<allocated', Len(list)>>, size |-> Len(list)]]
  /\ held' = held \ {payload}
  /\ made' = made \cup {[graph_id |-> graph, wait_counter |-> wait_no,
                         payload |-> payload, list |-> {list}]}
  /\ UNCHANGED <<alive, offset, misfreed, phase>>

\* node(res, graph, wait_no, payload, handle_list, sz), and the constructor of
\* wait_list, which copies the handles into memory of its own.
Construct(n, payload, graph, wait_no, list) ==
  /\ Vacant(n) /\ payload \in held
  /\ Allocate(Len(list), list)
  /\ node' = [node EXCEPT ![n] =
                [graph_id |-> graph, wait_counter |-> wait_no,
                 exec_payload |-> payload,
                 handles |-> <<allocated', 0>>, size |-> Len(list)]]
  /\ held' = held \ {payload}
  /\ made' = made \cup {[graph_id |-> graph, wait_counter |-> wait_no,
                         payload |-> payload, list |-> {list}]}
  /\ UNCHANGED <<alive, offset, misfreed, phase>>

\* allocate throws in the constructor: there is no node, and the payload is
\* still the caller's.
ConstructThrows(n, payload) ==
  /\ Vacant(n) /\ payload \in held
  /\ node' = [node EXCEPT ![n] = NoNode]
  /\ UNCHANGED <<held, heap, offset, made, phase>>

\* wait_list(wait_list&& other): an empty list swaps with the one of nd, which
\* keeps the empty one.
ListMovedOut(nd) == [nd EXCEPT !.handles = Null, !.size = 0]

\* Mutant of Move: other keeps its payload pointer.
MoveKeepsPayload(n, other) ==
  /\ Vacant(n) /\ Constructed(other) /\ n # other
  /\ node' = [node EXCEPT ![n] = node[other], ![other] = ListMovedOut(node[other])]
  /\ UNCHANGED <<held, heap, offset, made, phase>>

\* Mutant of Move: the size of the wait list stays behind.
MoveKeepsSize(n, other) ==
  /\ Vacant(n) /\ Constructed(other) /\ n # other
  /\ node' = [node EXCEPT ![n] = [node[other] EXCEPT !.size = 0],
                          ![other].exec_payload = Null, ![other].handles = Null]
  /\ UNCHANGED <<held, heap, offset, made, phase>>

\* Mutant of Move: the counter starts again.
MoveResetsCounter(n, other) ==
  /\ Vacant(n) /\ Constructed(other) /\ n # other
  /\ node' = [node EXCEPT ![n] = [node[other] EXCEPT !.wait_counter = 0],
                ![other] = [ListMovedOut(node[other]) EXCEPT !.exec_payload = Null]]
  /\ UNCHANGED <<held, heap, offset, made, phase>>

\* node(node&& other): the new node copies the numbers and takes the payload;
\* then the list is moved and other's pointer cleared.
Move(n, other) ==
  /\ Vacant(n) /\ Constructed(other) /\ n # other
  /\ node' = [node EXCEPT ![n] = node[other],
                ![other] = [ListMovedOut(node[other]) EXCEPT !.exec_payload = Null]]
  /\ UNCHANGED <<held, heap, offset, made, phase>>

\* (*exec_payload)() calls std::apply; it is noexcept, so that a callable that
\* throws terminates the program.  A moved-from node has nothing to call.
Invoke(n) ==
  /\ Constructed(n)
  /\ phase' \in IF node[n].exec_payload = Null THEN {"crashed"}
                ELSE {"up", "terminated"}
  /\ UNCHANGED <<node, held, heap, offset, made>>

-----------------------------------------------------------------------------
(* void node::destroy(res) *)

\* What size_of() of the derived class returns.
size_of(payload) ==
  (CHOOSE b \in blocks : b.at = <<payload[1], 0>>).size

\* What wait_list::destroy gives back.
ListBlock(nd) == [at |-> nd.handles, size |-> nd.size]

\* A moved-from node has no payload to destroy.
DestroyNull(n) ==
  /\ Constructed(n) /\ node[n].exec_payload = Null
  /\ phase' = "crashed"
  /\ UNCHANGED <<node, held, heap, offset, made>>

\* size_of() is called on the destroyed payload.  When its destructor has reset
\* the vptr to that of execution_payload, the call is pure virtual.
DestroyAborts(n) ==
  /\ node[n].exec_payload \in alive
  /\ alive' = alive \ {node[n].exec_payload}
  /\ phase' = "aborted"
  /\ UNCHANGED <<node, held, blocks, allocated, misfreed, offset, made>>

\* When the compiler has left the vptr alone, the derived class answers; the
\* payload goes back by the address of its base, then the wait list.
Destroy(n) ==
  /\ node[n].exec_payload \in alive
  /\ alive' = alive \ {node[n].exec_payload}
  /\ Deallocate({[at |-> node[n].exec_payload, size |-> size_of(node[n].exec_payload)],
                 ListBlock(node[n])})
  /\ UNCHANGED <<node, held, allocated, offset, made, phase>>

-----------------------------------------------------------------------------
Next ==
  /\ phase = "up"
  /\ \/ \E size \in Sizes : MakePayload(size)
     \/ \E n \in Places :
          \/ \E payload \in held :
               \/ \E graph \in Graphs, wait_no \in Counts, list \in Lists :
                    Construct(n, payload, graph, wait_no, list)
               \/ ConstructThrows(n, payload)
          \/ \E other \in Places : Move(n, other)
          \/ Invoke(n)
          \/ DestroyNull(n) \/ DestroyAborts(n) \/ Destroy(n)

Spec == Init /\ [][Next]_vars

-----------------------------------------------------------------------------
Pointers == (1 .. Allocs) \X ({0} \cup Offsets)

\* The type of the state.
TypeOK ==
  /\ \A n \in Places :
       /\ node[n].graph_id \in Graphs \cup {Null}
       /\ node[n].exec_payload \in Pointers \cup {Null}
       /\ node[n].handles \in Pointers \cup {Null}
       /\ node[n].size \in Nat
  /\ held \subseteq alive /\ alive \subseteq Pointers
  /\ \A b \in blocks : b.at \in Pointers /\ b.size \in Nat
  /\ offset \in Offsets /\ allocated \in 0 .. Allocs
  /\ phase \in {"up", "crashed", "aborted", "terminated"}

\* Who has to give block b back: the caller, or the node whose payload or wait
\* list is in it.
Owners(b) ==
  {p \in held : p[1] = b.at[1]}
  \cup {n \in Places : /\ Constructed(n)
                       /\ \/ node[n].handles = b.at
                          \/ /\ node[n].exec_payload # Null
                             /\ node[n].exec_payload[1] = b.at[1]}

\* Whatever is moved, destroyed, or throws: every block that is out has exactly
\* one owner, so nothing leaks and nothing is given back twice.  Only where
\* the base does not come first are the blocks of destroyed payloads left over.
BlocksHaveOneOwner ==
  phase # "aborted" =>
    \A b \in blocks :
      \/ Cardinality(Owners(b)) = 1
      \/ offset # 0 /\ <<b.at[1], offset>> \in {c.at : c \in misfreed}

\* What destroy gives back is what was allocated, address and size, also after
\* moves; but the address of a payload is that of its base.
ReturnedAsAllocated ==
  \A c \in misfreed : offset # 0 /\ c.at[2] = offset

\* A node that was moved, however often, still is the one that was constructed:
\* graph, counter, live payload and waiting handles.
MovedNodeIsWhole ==
  phase # "aborted" =>
    \A n \in Places :
      Constructed(n) /\ node[n].exec_payload # Null => Content(node[n]) \in made

=============================================================================
