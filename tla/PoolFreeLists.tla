---------------------------- MODULE PoolFreeLists ----------------------------
(* PoolManager's pools as free lists: each is mapped to the state of the     *)
(* module FreeList.                                                          *)
EXTENDS PoolManager

NullPtr == -1

\* The free list of pool p; before the pool is created, as it will be.
ListOf(p) == IF p \in Created THEN free[p] ELSE populate_list

First(list)   == IF list = <<>> THEN NullPtr ELSE Head(list)
OffList(list) == Blocks \ {list[i] : i \in DOMAIN list}

\* The link in block b: to its successor on the list; an object writes nullptr.
Link(list, b) ==
  IF \E i \in 1 .. Len(list) - 1 : list[i] = b
  THEN list[(CHOOSE i \in 1 .. Len(list) : list[i] = b) + 1]
  ELSE NullPtr

List(p) ==
  INSTANCE FreeList WITH
    Null <- NullPtr, chain <- ListOf(p), in_use <- OffList(ListOf(p)),
    head <- First(ListOf(p)), next <- [b \in Blocks |-> Link(ListOf(p), b)]

\* Whatever the threads do, crash included, every pool behaves as a free list on
\* its own: the module FreeList, and what is proved of it, applies to each (all
\* its variables are functions of ListOf(p) here).
PoolsAreFreeLists ==
  /\ \A p \in 1 .. Calls : List(p)!Init
  /\ [][\A p \in 1 .. Calls : UNCHANGED ListOf(p) \/ List(p)!Next]_vars
=============================================================================
