------------------------------ MODULE FreeList ------------------------------
(***************************************************************************)
(* The free list threaded through the blocks of one pool                   *)
(* (source/taskete/pool_manager.hpp): populate_list builds it, construct   *)
(* takes its first block, mark_as_free puts a block back.  Each of them    *)
(* has the pool to itself (populate_list before the pool is published, the *)
(* others under pool.mtx), so each is one step.                            *)
(*                                                                         *)
(* A free block holds the pointer to the next one.  A block in use holds   *)
(* an object, that is, anything.                                           *)
(***************************************************************************)
EXTENDS Integers, Sequences

CONSTANTS Capacity,  \* options.pool_capacity
          Null       \* nullptr

Blocks == 0 .. Capacity - 1  \* blocks, in the order of their addresses

Links == Blocks \cup {Null}

ASSUME FreeListAssumption == Capacity \in Nat \ {0} /\ Null \notin Nat

VARIABLES head,   \* pool.head
          next,   \* the first word of each block: free_list::next when free
          in_use, \* history: the blocks that hold an object
          chain   \* history: the blocks on the list, first to last

vars == <<head, next, in_use, chain>>

\* populate_list: the blocks by address.
Init ==
  /\ head = 0
  /\ next = [b \in Blocks |-> IF b + 1 < Capacity THEN b + 1 ELSE Null]
  /\ in_use = {}
  /\ chain = [i \in 1 .. Capacity |-> i - 1]

\* Mutant of Pop: hands out the second block and leaves the first.
PopTakesSecond(word) ==
  /\ head # Null
  /\ head' = next[head]
  /\ next' = [next EXCEPT ![head] = word]
  /\ in_use' = in_use \cup ({next[head]} \ {Null})
  /\ chain' = Tail(chain)

\* construct: unlink the first block; the object overwrites the link with
\* some word.
Pop(word) ==
  /\ head # Null
  /\ head' = next[head]
  /\ next' = [next EXCEPT ![head] = word]
  /\ in_use' = in_use \cup {head}
  /\ chain' = Tail(chain)

\* The walk `while (node->next && node->next < new_node)' goes on past node.
WalksPast(node, b) == next[node] # Null /\ next[node] < b

\* Mutant of MarkAsFree: the rest of the list is not linked behind the block.
MarkAsFreeDropsRest(b) ==
  /\ b \in in_use
  /\ \E k \in 1 .. Len(chain) :
       /\ ~WalksPast(chain[k], b)
       /\ \A j \in 1 .. k - 1 : WalksPast(chain[j], b)
       /\ next' = [next EXCEPT ![b] = Null, ![chain[k]] = b]
       /\ chain' = SubSeq(chain, 1, k) \o <<b>> \o SubSeq(chain, k + 1, Len(chain))
  /\ in_use' = in_use \ {b}
  /\ UNCHANGED head

\* Mutant of MarkAsFree: the block always goes right behind the first one.
MarkAsFreeUnordered(b) ==
  /\ b \in in_use
  /\ head # Null
  /\ next' = [next EXCEPT ![b] = next[head], ![head] = b]
  /\ chain' = <<head, b>> \o Tail(chain)
  /\ in_use' = in_use \ {b}
  /\ UNCHANGED head

\* Mutant of MarkAsFreeAlone: the new head is taken one block too far.
MarkAsFreeAloneNext(b) ==
  /\ b \in in_use
  /\ head = Null
  /\ head' = b + 1
  /\ next' = [next EXCEPT ![b] = Null]
  /\ in_use' = in_use \ {b}
  /\ chain' = <<b>>

\* mark_as_free, the list is empty: the block is the new head.
MarkAsFreeAlone(b) ==
  /\ b \in in_use
  /\ head = Null
  /\ head' = b
  /\ next' = [next EXCEPT ![b] = Null]
  /\ in_use' = in_use \ {b}
  /\ chain' = <<b>>

\* mark_as_free: the block goes behind the k-th one, where the walk stops.
MarkAsFree(b) ==
  /\ b \in in_use
  /\ head # Null
  /\ \E k \in 1 .. Len(chain) :
       /\ ~WalksPast(chain[k], b)
       /\ \A j \in 1 .. k - 1 : WalksPast(chain[j], b)
       /\ next' = [next EXCEPT ![b] = next[chain[k]], ![chain[k]] = b]
       /\ chain' = SubSeq(chain, 1, k) \o <<b>> \o SubSeq(chain, k + 1, Len(chain))
  /\ in_use' = in_use \ {b}
  /\ UNCHANGED head

Next ==
  \/ \E word \in Links : Pop(word)
  \/ \E b \in Blocks : MarkAsFreeAlone(b) \/ MarkAsFree(b)

Spec == Init /\ [][Next]_vars

-----------------------------------------------------------------------------
\* The type of the state.
TypeOK ==
  /\ head \in Links
  /\ next \in [Blocks -> Links]
  /\ in_use \subseteq Blocks
  /\ chain \in Seq(Blocks)

\* Following the pointers from head visits the blocks of chain in order and
\* ends at nullptr, whatever the objects wrote into the blocks in use: the
\* list is never cut, never cyclic and never leads into a live object.
Linked ==
  /\ head = IF chain = <<>> THEN Null ELSE chain[1]
  /\ \A i \in 1 .. Len(chain) :
       next[chain[i]] = IF i < Len(chain) THEN chain[i + 1] ELSE Null

\* Every block is on the list once or holds an object, never both: no block
\* is lost by construct and destroy, none is handed out twice.
EachBlockOnce ==
  /\ \A i, j \in 1 .. Len(chain) : chain[i] = chain[j] => i = j
  /\ \A b \in Blocks : (b \in in_use) <=> (\A i \in 1 .. Len(chain) : chain[i] # b)

\* "We keep the free list ordered by address." (pool_manager.hpp:139): so that
\* construct takes the lowest free block, whatever order blocks are freed in.
OrderedByAddress ==
  \A i, j \in 1 .. Len(chain) : i < j => chain[i] < chain[j]

\* What mark_as_free does keep of that order, through any sequence of calls:
\* only the first block can be out of place, since the walk starts at the
\* head and never inserts before it.
TailOrdered ==
  \A i, j \in 2 .. Len(chain) : i < j => chain[i] < chain[j]

=============================================================================
