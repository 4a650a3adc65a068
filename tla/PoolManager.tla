---------------------------- MODULE PoolManager ----------------------------
(***************************************************************************)
(* source/taskete/pool_manager.hpp: threads that construct and destroy     *)
(* objects in a growing vector of pools.                                   *)
(*                                                                         *)
(* A pool is known by the order of its creation, p in 1 .. Len(free); its  *)
(* index in the vector, which the handle carries, counts from 0.  Code     *)
(* that runs alone under a lock and touches nothing outside it is one      *)
(* step; the search of find_or_create_pool reads the heads, which other    *)
(* threads write under pool.mtx, one by one under rw_mutex only.           *)
(***************************************************************************)
EXTENDS Integers, Sequences, FiniteSets

CONSTANTS Threads, NoThread,
          Capacity,            \* options.pool_capacity
          MaxPools,            \* options.max_pools
          Handle(_, _),        \* helper.make_handle of a pool index and a block
          PoolOf(_),           \* helper.extract_pool
          OffsetOf(_),         \* helper.extract_offset
          Calls                \* bound on the calls of construct

Blocks == 0 .. Capacity - 1

\* A construct adds at most one pool, so indices stay below Calls.
ASSUME PoolAssumption ==
  /\ IsFiniteSet(Threads) /\ NoThread \notin Threads
  /\ Capacity \in Nat \ {0} /\ MaxPools \in Nat \ {0} /\ Calls \in Nat

ASSUME HandlesDecode ==
  \A i \in 0 .. Calls - 1, b \in Blocks :
    /\ PoolOf(Handle(i, b)) = i
    /\ OffsetOf(Handle(i, b)) = b

VARIABLES
  pools,       \* the vector, a sequence of pools
  free,        \* the free list of every pool ever created
  mtx,         \* the thread that holds each pool.mtx, or NoThread
  raw,         \* the pools whose raw_mem is allocated
  pc,          \* each thread's next step
  index,       \* each thread's position in the vector
  pool, block, \* the pool and the block each thread works on
  live,        \* history: the objects constructed and not given to destroy
  stray,       \* history: pools given up when emplace_back threw
  lost,        \* history: blocks given up when T's constructor or destructor threw
  calls,       \* history: the number of calls of construct
  phase        \* "up", "crashed" (nullptr dereferenced), "gone" (destructed)

local  == <<pc, index, pool, block>>
memory == <<pools, free, mtx, raw>>
ghosts == <<live, stray, lost, calls, phase>>
vars   == <<memory, local, ghosts>>

Created == 1 .. Len(free)

\* Mutant of populate_list: counts the blocks from 1.
populate_from_one == [i \in 1 .. Capacity |-> i]

\* The blocks of a new pool, by address.
populate_list == [i \in 1 .. Capacity |-> i - 1]

Init ==
  /\ pools = <<>> /\ free = <<>> /\ mtx = <<>> /\ raw = {}
  /\ pc = [t \in Threads |-> "idle"]
  /\ index = [t \in Threads |-> 0]
  /\ pool = [t \in Threads |-> 0]
  /\ block = [t \in Threads |-> 0]
  /\ live = {} /\ stray = {} /\ lost = {} /\ calls = 0 /\ phase = "up"

Goto(t, step) == pc' = [pc EXCEPT ![t] = step]

\* A call ends, by return or by exception: its locals are gone.
Leave(t) ==
  /\ Goto(t, "idle")
  /\ index' = [index EXCEPT ![t] = 0]
  /\ pool' = [pool EXCEPT ![t] = 0]
  /\ block' = [block EXCEPT ![t] = 0]

-----------------------------------------------------------------------------
(* find_or_create_pool.  A thread holds rw_mutex shared while in "find".     *)

ConstructCall(t) ==
  /\ pc[t] = "idle" /\ calls < Calls
  /\ calls' = calls + 1
  /\ Goto(t, "find")
  /\ UNCHANGED <<memory, index, pool, block, live, stray, lost, phase>>

\* std::find_if looks at the next head.
InspectPool(t) ==
  /\ pc[t] = "find" /\ index[t] < Len(pools)
  /\ LET p == pools[index[t] + 1]
     IN IF free[p] # <<>>
        THEN /\ Goto(t, "pop")
             /\ pool' = [pool EXCEPT ![t] = p]
             /\ UNCHANGED index
        ELSE /\ index' = [index EXCEPT ![t] = @ + 1]
             /\ UNCHANGED <<pc, pool>>
  /\ UNCHANGED <<memory, ghosts, block>>

\* No free block: throw bad_alloc at the limit, else create a pool.
NoPoolFree(t) ==
  /\ pc[t] = "find" /\ index[t] = Len(pools)
  /\ IF Len(pools) = MaxPools
     THEN Leave(t)
     ELSE Goto(t, "create") /\ UNCHANGED <<index, pool, block>>
  /\ UNCHANGED <<memory, ghosts>>

CreatePool(t) ==
  /\ pc[t] = "create"
  /\ free' = Append(free, populate_list)
  /\ mtx' = Append(mtx, NoThread)
  /\ raw' = raw \cup {Len(free) + 1}
  /\ pool' = [pool EXCEPT ![t] = Len(free) + 1]
  /\ Goto(t, "publish")
  /\ UNCHANGED <<pools, ghosts, index, block>>

\* new pool or allocate throws; in the latter case the pool struct leaks.
CreateThrows(t) ==
  /\ pc[t] = "create"
  /\ Leave(t)
  /\ UNCHANGED <<memory, ghosts>>

\* Under rw_mutex exclusive: no thread is searching.
PublishPool(t) ==
  /\ pc[t] = "publish" /\ \A u \in Threads : pc[u] # "find"
  /\ pools' = Append(pools, pool[t])
  /\ index' = [index EXCEPT ![t] = Len(pools)]
  /\ Goto(t, "pop")
  /\ UNCHANGED <<free, mtx, raw, ghosts, pool, block>>

\* emplace_back throws: nobody owns the new pool.
PublishThrows(t) ==
  /\ pc[t] = "publish" /\ \A u \in Threads : pc[u] # "find"
  /\ stray' = stray \cup {pool[t]}
  /\ Leave(t)
  /\ UNCHANGED <<memory, live, lost, calls, phase>>

-----------------------------------------------------------------------------
(* construct, with the pool found                                            *)

\* Mutant of PopBlock: the block stays on the list.
PopKeeps(t) ==
  /\ pc[t] = "pop" /\ mtx[pool[t]] = NoThread
  /\ free[pool[t]] # <<>>
  /\ block' = [block EXCEPT ![t] = Head(free[pool[t]])]
  /\ Goto(t, "construct")
  /\ UNCHANGED <<memory, ghosts, index, pool>>

\* Mutant of PopBlock: pool.mtx is not released.
PopHoldsLock(t) ==
  /\ pc[t] = "pop" /\ mtx[pool[t]] = NoThread
  /\ free[pool[t]] # <<>>
  /\ block' = [block EXCEPT ![t] = Head(free[pool[t]])]
  /\ free' = [free EXCEPT ![pool[t]] = Tail(@)]
  /\ mtx' = [mtx EXCEPT ![pool[t]] = t]
  /\ Goto(t, "construct")
  /\ UNCHANGED <<pools, raw, ghosts, index, pool>>

\* Mutant of PopBlock: the head is advanced twice.
PopSkips(t) ==
  /\ pc[t] = "pop" /\ mtx[pool[t]] = NoThread
  /\ free[pool[t]] # <<>>
  /\ block' = [block EXCEPT ![t] = Head(free[pool[t]])]
  /\ free' = [free EXCEPT ![pool[t]] = SubSeq(@, 3, Len(@))]
  /\ Goto(t, "construct")
  /\ UNCHANGED <<pools, mtx, raw, ghosts, index, pool>>

\* Lock pool.mtx, unlink the head, unlock.
PopBlock(t) ==
  /\ pc[t] = "pop" /\ mtx[pool[t]] = NoThread
  /\ free[pool[t]] # <<>>
  /\ block' = [block EXCEPT ![t] = Head(free[pool[t]])]
  /\ free' = [free EXCEPT ![pool[t]] = Tail(@)]
  /\ Goto(t, "construct")
  /\ UNCHANGED <<pools, mtx, raw, ghosts, index, pool>>

\* The same with an empty list: head is nullptr and head->next faults.
PopNull(t) ==
  /\ pc[t] = "pop" /\ mtx[pool[t]] = NoThread
  /\ free[pool[t]] = <<>>
  /\ phase' = "crashed"
  /\ UNCHANGED <<memory, local, live, stray, lost, calls>>

\* Mutant of ConstructObject: the handle carries the last pool's index.
ConstructInLast(t) ==
  /\ pc[t] = "construct"
  /\ live' = live \cup {[handle |-> Handle(Len(pools) - 1, block[t]),
                         pool |-> pool[t], block |-> block[t]]}
  /\ Leave(t)
  /\ UNCHANGED <<memory, stray, lost, calls, phase>>

ConstructObject(t) ==
  /\ pc[t] = "construct"
  /\ live' = live \cup {[handle |-> Handle(index[t], block[t]),
                         pool |-> pool[t], block |-> block[t]]}
  /\ Leave(t)
  /\ UNCHANGED <<memory, stray, lost, calls, phase>>

\* T's constructor throws: the block is not put back.
ConstructThrows(t) ==
  /\ pc[t] = "construct"
  /\ lost' = lost \cup {<<pool[t], block[t]>>}
  /\ Leave(t)
  /\ UNCHANGED <<memory, live, stray, calls, phase>>

-----------------------------------------------------------------------------
(* destroy                                                                   *)

\* The caller gives up an object; get_pool and extract_offset find it.
DestroyCall(t, obj) ==
  /\ pc[t] = "idle"
  /\ obj \in live
  /\ live' = live \ {obj}
  /\ pool' = [pool EXCEPT ![t] = pools[PoolOf(obj.handle) + 1]]
  /\ block' = [block EXCEPT ![t] = OffsetOf(obj.handle)]
  /\ Goto(t, "destroy")
  /\ UNCHANGED <<memory, index, stray, lost, calls, phase>>

\* Lock pool.mtx, destroy the object and call mark_as_free, ...
DestroyObject(t) ==
  /\ pc[t] = "destroy" /\ mtx[pool[t]] = NoThread
  /\ mtx' = [mtx EXCEPT ![pool[t]] = t]
  /\ Goto(t, "mark_as_free")
  /\ UNCHANGED <<pools, free, raw, index, pool, block, ghosts>>

\* ~T() throws (destroy is noexcept only when it cannot): pool.mtx is released
\* and the block is not put back.
DestroyThrows(t) ==
  /\ pc[t] = "destroy" /\ mtx[pool[t]] = NoThread
  /\ lost' = lost \cup {<<pool[t], block[t]>>}
  /\ Leave(t)
  /\ UNCHANGED <<memory, live, stray, calls, phase>>

\* ... which locks pool.mtx again.  The spinlock is not recursive and its
\* holder is this thread, so the walk of mark_as_free is never reached.
SpinInMarkAsFree(t) ==
  /\ pc[t] = "mark_as_free" /\ mtx[pool[t]] # NoThread
  /\ UNCHANGED vars

-----------------------------------------------------------------------------
\* Mutant of Teardown: forgets the last pool.
TeardownShort ==
  /\ \A t \in Threads : pc[t] = "idle"
  /\ raw' = raw \ {pools[i] : i \in 1 .. Len(pools) - 1}
  /\ pools' = <<>>
  /\ phase' = "gone"
  /\ UNCHANGED <<free, mtx, local, live, stray, lost, calls>>

\* ~pool_manager, called when no thread is inside: the pools go back to the
\* resource; objects still alive are not destroyed.
Teardown ==
  /\ \A t \in Threads : pc[t] = "idle"
  /\ raw' = raw \ {pools[i] : i \in DOMAIN pools}
  /\ pools' = <<>>
  /\ phase' = "gone"
  /\ UNCHANGED <<free, mtx, local, live, stray, lost, calls>>

Construct(t) ==
  \/ InspectPool(t) \/ NoPoolFree(t)
  \/ CreatePool(t) \/ CreateThrows(t) \/ PublishPool(t) \/ PublishThrows(t)
  \/ PopBlock(t) \/ PopNull(t)
  \/ ConstructObject(t) \/ ConstructThrows(t)

Destroy(t) == DestroyObject(t) \/ DestroyThrows(t) \/ SpinInMarkAsFree(t)

Next ==
  /\ phase = "up"
  /\ \/ \E t \in Threads :
          \/ ConstructCall(t) \/ Construct(t)
          \/ (\E obj \in live : DestroyCall(t, obj)) \/ Destroy(t)
     \/ Teardown

Spec == Init /\ [][Next]_vars

\* Threads inside a call keep running and the mutexes are fair enough to let
\* each waiting thread in (Calls bounds how often others can overtake it).
FairSpec ==
  Spec /\ \A t \in Threads : WF_vars(phase = "up" /\ (Construct(t) \/ Destroy(t)))

-----------------------------------------------------------------------------
Steps == {"idle", "find", "create", "publish", "pop", "construct", "destroy",
          "mark_as_free"}

\* The type of the state.
TypeOK ==
  /\ pools \in Seq(Created)
  /\ free \in Seq(Seq(Blocks))
  /\ mtx \in [Created -> Threads \cup {NoThread}]
  /\ raw \subseteq Created
  /\ pc \in [Threads -> Steps]
  /\ index \in [Threads -> Nat]
  /\ pool \in [Threads -> Created \cup {0}]
  /\ block \in [Threads -> Blocks]
  /\ \A obj \in live : obj.pool \in Created /\ obj.block \in Blocks
  /\ stray \subseteq Created
  /\ lost \subseteq Created \X Blocks
  /\ calls \in 0 .. Calls
  /\ phase \in {"up", "crashed", "gone"}

\* Who has block b of pool p: places on the free list, threads constructing or
\* destroying an object in it, live objects, a constructor or destructor of T
\* that threw.
Holders(p, b) ==
  {i \in DOMAIN free[p] : free[p][i] = b}
  \cup {t \in Threads : /\ pc[t] \in {"construct", "destroy", "mark_as_free"}
                        /\ pool[t] = p /\ block[t] = b}
  \cup {obj \in live : obj.pool = p /\ obj.block = b}
  \cup {l \in lost : l = <<p, b>>}

\* Every block of every pool has exactly one holder: threads that construct
\* and destroy at the same time never share a block and never lose one.
BlockHeldOnce ==
  \A p \in Created, b \in Blocks : Cardinality(Holders(p, b)) = 1

\* get() finds the object construct returned the handle of, however many
\* pools other threads have added since, and no two objects share a handle.
LiveHandlesDecode ==
  phase = "up" =>
    /\ \A obj \in live : /\ PoolOf(obj.handle) + 1 \in DOMAIN pools
                         /\ pools[PoolOf(obj.handle) + 1] = obj.pool
                         /\ OffsetOf(obj.handle) = obj.block
    /\ \A o1, o2 \in live : o1.handle = o2.handle => o1 = o2

\* The memory of every pool goes back to the resource when the manager is
\* destructed, also that of pools several threads added at the same time;
\* only a pool whose emplace_back threw is left.
MemoryReturned == phase = "gone" => raw = stray

\* A construct returns or throws, whatever the other constructing threads do,
\* unless a thread is caught in destroy.
ConstructEnds ==
  \A t \in Threads :
    pc[t] \in {"find", "create", "publish", "pop", "construct"}
      ~> \/ pc[t] = "idle" \/ phase = "crashed"
         \/ \E u \in Threads : pc[u] = "mark_as_free"

-----------------------------------------------------------------------------
(* What the comments and the documentation say.                              *)

\* pool_manager.hpp:71, "Returns a pool with a free block."
FoundPoolHasBlock == phase # "crashed"

\* pool_options.hpp:12, "Maximum amount of pools to use".
WithinMaxPools == Len(pools) <= MaxPools

\* What find_or_create_pool says of itself, whatever threads search with it
\* (pool_manager.hpp:71-75): the pool it returns has a free block, which
\* construct then takes, and it throws rather than make too many pools.
FindOrCreateContract == FoundPoolHasBlock /\ WithinMaxPools

\* pool_manager.hpp:124, "Marks a block as free by adding it to the free
\* list": a destroy puts its block back and returns.
DestroyReturns ==
  \A t \in Threads : pc[t] = "destroy" ~> pc[t] = "idle"

=============================================================================
