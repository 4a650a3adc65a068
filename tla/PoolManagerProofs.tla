------------------------- MODULE PoolManagerProofs -------------------------
(***************************************************************************)
(* The pool manager's invariants, for any finite set of threads, pools of  *)
(* any capacity, any limit and any number of calls.                        *)
(***************************************************************************)
EXTENDS PoolManager, FiniteSetTheorems, SequenceTheorems, TLAPS

Holding == {"construct", "destroy", "mark_as_free"}
Entries == {pools[i] : i \in DOMAIN pools}

\* The four ways to have block b of pool p (see Holders).
Listed(p, b)  == \E i \in DOMAIN free[p] : free[p][i] = b
Used(t, p, b) == pc[t] \in Holding /\ pool[t] = p /\ block[t] = b
Using(p, b)   == \E t \in Threads : Used(t, p, b)
Living(p, b)  == \E obj \in live : obj.pool = p /\ obj.block = b
Lost(p, b)    == <<p, b>> \in lost

\* A free list has each block once, no two threads work on a block, and no two
\* objects are in one.
ListInv ==
  \A p \in Created : \A i, j \in DOMAIN free[p] : free[p][i] = free[p][j] => i = j
UserInv ==
  \A t, u \in Threads :
    /\ pc[t] \in Holding /\ pc[u] \in Holding
    /\ pool[t] = pool[u] /\ block[t] = block[u]
    => t = u
LiveInv ==
  \A o1, o2 \in live : o1.pool = o2.pool /\ o1.block = o2.block => o1 = o2

\* A block is had in exactly one of the four ways.
HeldOf(p, b) ==
  /\ Listed(p, b) \/ Using(p, b) \/ Living(p, b) \/ Lost(p, b)
  /\ Listed(p, b) => ~Using(p, b) /\ ~Living(p, b) /\ ~Lost(p, b)
  /\ Using(p, b) => ~Living(p, b) /\ ~Lost(p, b)
  /\ Living(p, b) => ~Lost(p, b)
HeldInv == \A p \in Created, b \in Blocks : HeldOf(p, b)

\* The pool a thread has found is where its index says, whatever was published
\* since; a pool not published yet is known to its creator alone.
PlaceOf(t) ==
  /\ pc[t] \in {"pop", "construct"} =>
       index[t] < Len(pools) /\ pools[index[t] + 1] = pool[t]
  /\ pc[t] \in Holding => pool[t] \in Created
  /\ pc[t] = "publish" => pool[t] \in Created /\ pool[t] \notin Entries \cup stray
PlaceInv ==
  /\ \A t \in Threads : PlaceOf(t)
  /\ \A t, u \in Threads :
       pc[t] = "publish" /\ pc[u] = "publish" /\ pool[t] = pool[u] => t = u

\* All memory is in the vector, given up, or with the thread about to publish it.
MemoryInv ==
  /\ Entries \cap stray = {}
  /\ phase # "gone" =>
       \A p \in Created :
         p \in raw <=> \/ p \in Entries \/ p \in stray
                       \/ \E t \in Threads : pc[t] = "publish" /\ pool[t] = p
  /\ phase = "gone" => raw = stray

\* A live object's handle was made of the index its pool still has.
HandleInv ==
  phase # "gone" =>
    \A obj \in live : \E i \in 0 .. Len(pools) - 1 :
      obj.handle = Handle(i, obj.block) /\ pools[i + 1] = obj.pool

\* A call of construct adds at most one pool, and not before it is counted.
Pending == {t \in Threads : pc[t] \in {"find", "create", "publish"}}
CountInv == Len(pools) + Cardinality(Pending) <= calls

IInv ==
  /\ TypeOK /\ ListInv /\ UserInv /\ LiveInv /\ HeldInv /\ PlaceInv /\ MemoryInv
  /\ HandleInv /\ CountInv

-----------------------------------------------------------------------------
(* What steps have in common *)

\* A step of t leaves the locals of other threads alone.
Others(t) ==
  \A u \in Threads \ {t} :
    /\ pc'[u] = pc[u] /\ index'[u] = index[u]
    /\ pool'[u] = pool[u] /\ block'[u] = block[u]

\* A new pool's list has each block once.
LEMMA Populated ==
  /\ populate_list \in Seq(Blocks) /\ Len(populate_list) = Capacity
  /\ DOMAIN populate_list = 1 .. Capacity
  /\ \A i \in 1 .. Capacity : populate_list[i] = i - 1
<1>1. \A i \in 1 .. Capacity : i - 1 \in Blocks
  BY PoolAssumption DEF Blocks
<1> QED
  BY <1>1, PoolAssumption DEF populate_list

\* The empty manager.
LEMMA InitInv == Init => IInv
<1> SUFFICES ASSUME Init PROVE IInv
  OBVIOUS
<1> USE PoolAssumption DEF Init
<1>1. Created = {} /\ Entries = {} /\ Len(pools) = 0 /\ Len(free) = 0
  BY DEF Created, Entries
<1>2. TypeOK
  <2>1. mtx \in [Created -> Threads \cup {NoThread}]
    BY <1>1
  <2>2. pools \in Seq(Created) /\ free \in Seq(Seq(Blocks))
    OBVIOUS
  <2> QED
    BY <2>1, <2>2 DEF TypeOK, Steps, Blocks
<1>3. ListInv /\ UserInv /\ LiveInv /\ HeldInv
  BY <1>1 DEF ListInv, UserInv, LiveInv, HeldInv, Holding
<1>4. PlaceInv /\ MemoryInv /\ HandleInv
  BY <1>1 DEF PlaceInv, PlaceOf, MemoryInv, HandleInv, Holding
<1>5. CountInv
  <2>1. Pending = {}
    BY DEF Pending
  <2> QED
    BY <1>1, <2>1, FS_EmptySet DEF CountInv
<1> QED
  BY <1>2, <1>3, <1>4, <1>5 DEF IInv

\* Steps that neither take a block nor give one up.
LEMMA BlocksFrame ==
  ASSUME IInv, UNCHANGED <<free, live, lost>>,
         \A u \in Threads :
           /\ pc'[u] \in Holding <=> pc[u] \in Holding
           /\ pc[u] \in Holding => pool'[u] = pool[u] /\ block'[u] = block[u]
  PROVE  ListInv' /\ UserInv' /\ LiveInv' /\ HeldInv'
<1>1. ListInv' /\ LiveInv'
  BY DEF IInv, ListInv, LiveInv, Created
<1>2. UserInv'
  BY DEF IInv, UserInv
<1>3. HeldInv'
  <2> SUFFICES ASSUME NEW p \in Created, NEW b \in Blocks PROVE HeldOf(p, b)'
    BY DEF HeldInv, Created
  <2>1. /\ Listed(p, b)' <=> Listed(p, b)
        /\ Living(p, b)' <=> Living(p, b)
        /\ Lost(p, b)' <=> Lost(p, b)
    BY DEF Listed, Living, Lost
  <2>2. Using(p, b)' <=> Using(p, b)
    BY DEF Using, Used
  <2> QED
    BY <2>1, <2>2 DEF IInv, HeldInv, HeldOf
<1> QED
  BY <1>1, <1>2, <1>3

\* Steps that leave the vector and the memory alone.
LEMMA PoolsFrame ==
  ASSUME IInv, UNCHANGED <<pools, Created, raw, stray, phase>>,
         \A u \in Threads : /\ pc'[u] = "publish" <=> pc[u] = "publish"
                            /\ pc[u] = "publish" => pool'[u] = pool[u]
  PROVE  MemoryInv'
BY DEF IInv, MemoryInv, Entries

\* Steps that neither add a pool nor start a call.
LEMMA CountFrame ==
  ASSUME IInv, UNCHANGED <<pools, calls>>, NEW t \in Threads, Others(t),
         pc'[t] \in {"find", "create", "publish"} => pc[t] \in {"find", "create", "publish"}
  PROVE  CountInv'
<1>1. Pending' \subseteq Pending
  BY DEF Pending, Others
<1>2. IsFiniteSet(Pending)
  BY PoolAssumption, FS_Subset DEF Pending
<1>3. IsFiniteSet(Pending') /\ Cardinality(Pending') <= Cardinality(Pending)
  BY <1>1, <1>2, FS_Subset
<1>4. Cardinality(Pending) \in Nat /\ Cardinality(Pending') \in Nat
  BY <1>2, <1>3, FS_CardinalityType
<1>5. Len(pools) \in Nat /\ calls \in Nat
  BY DEF IInv, TypeOK
<1> QED
  BY <1>3, <1>4, <1>5 DEF IInv, CountInv

\* A thread keeps what it knows when others move and the vector stays.
LEMMA OthersPlaced ==
  ASSUME IInv, UNCHANGED <<pools, free, stray>>, NEW t \in Threads, Others(t),
         PlaceOf(t)', pc'[t] = "publish" => pc[t] = "publish" /\ pool'[t] = pool[t]
  PROVE  PlaceInv'
<1>1. \A u \in Threads \ {t} : PlaceOf(u)'
  BY DEF IInv, PlaceInv, PlaceOf, Others, Created, Entries
<1>2. \A u, v \in Threads :
        pc'[u] = "publish" /\ pc'[v] = "publish" /\ pool'[u] = pool'[v] => u = v
  BY DEF IInv, PlaceInv, Others
<1> QED
  BY <1>1, <1>2 DEF PlaceInv

\* Live objects keep their handles while the vector stays.
LEMMA HandlesFrame ==
  ASSUME IInv, UNCHANGED <<pools, phase>>, live' \subseteq live
  PROVE  HandleInv'
BY DEF IInv, HandleInv

\* What Leave does.
LEMMA LeaveEffect ==
  ASSUME TypeOK, NEW t \in Threads, Leave(t)
  PROVE  /\ Others(t) /\ pc'[t] = "idle"
         /\ pc' \in [Threads -> Steps] /\ index' \in [Threads -> Nat]
         /\ pool' \in [Threads -> Created \cup {0}] /\ block' \in [Threads -> Blocks]
BY PoolAssumption DEF TypeOK, Leave, Goto, Others, Steps, Blocks

\* extract_pool and extract_offset of a live object's handle lead to its pool,
\* which has kept its index, and to its block.
LEMMA LiveDecodes ==
  ASSUME IInv, phase = "up", NEW obj \in live
  PROVE  /\ PoolOf(obj.handle) + 1 \in DOMAIN pools
         /\ pools[PoolOf(obj.handle) + 1] = obj.pool
         /\ OffsetOf(obj.handle) = obj.block
<1>1. PICK i \in 0 .. Len(pools) - 1 :
        obj.handle = Handle(i, obj.block) /\ pools[i + 1] = obj.pool
  BY DEF IInv, HandleInv
<1>2. Len(pools) \in Nat /\ DOMAIN pools = 1 .. Len(pools) /\ obj.block \in Blocks
  BY DEF IInv, TypeOK
<1>3. Len(pools) <= Calls
  <2>1. IsFiniteSet(Pending)
    BY PoolAssumption, FS_Subset DEF Pending
  <2>2. Cardinality(Pending) \in Nat
    BY <2>1, FS_CardinalityType
  <2> QED
    BY <1>2, <2>2, PoolAssumption DEF IInv, TypeOK, CountInv
<1>4. i \in 0 .. Calls - 1
  BY <1>2, <1>3, PoolAssumption
<1>5. PoolOf(Handle(i, obj.block)) = i /\ OffsetOf(Handle(i, obj.block)) = obj.block
  BY <1>2, <1>4, HandlesDecode
<1> QED
  BY <1>1, <1>2, <1>5

-----------------------------------------------------------------------------
(* The invariant is inductive *)

\* A call of construct is counted, and starts to search.
LEMMA ConstructCallKeeps ==
  ASSUME IInv, phase = "up", NEW t \in Threads, ConstructCall(t)
  PROVE  IInv'
<1>0. /\ pc[t] = "idle" /\ calls < Calls /\ calls' = calls + 1
      /\ pc' = [pc EXCEPT ![t] = "find"]
      /\ UNCHANGED <<pools, free, mtx, raw, index, pool, block, live, stray, lost, phase>>
  BY DEF ConstructCall, Goto, memory
<1>1. Others(t) /\ pc'[t] = "find" /\ pc' \in [Threads -> Steps]
  BY <1>0 DEF IInv, TypeOK, Others, Steps
<1>2. ListInv' /\ UserInv' /\ LiveInv' /\ HeldInv'
  BY <1>0, <1>1, BlocksFrame DEF Others, Holding
<1>3. MemoryInv'
  BY <1>0, <1>1, PoolsFrame DEF Others, Created
<1>4. PlaceInv'
  BY <1>0, <1>1, OthersPlaced DEF PlaceOf, Holding
<1>5. HandleInv'
  BY <1>0, HandlesFrame
<1>6. CountInv'
  <2>1. Pending' = Pending \cup {t} /\ t \notin Pending
    BY <1>0, <1>1 DEF Pending, Others
  <2>2. IsFiniteSet(Pending)
    BY PoolAssumption, FS_Subset DEF Pending
  <2>3. Cardinality(Pending') = Cardinality(Pending) + 1
    BY <2>1, <2>2, FS_AddElement
  <2>4. Cardinality(Pending) \in Nat /\ Len(pools) \in Nat /\ calls \in Nat
    BY <2>2, FS_CardinalityType DEF IInv, TypeOK
  <2> QED
    BY <1>0, <2>3, <2>4 DEF IInv, CountInv
<1>7. TypeOK'
  <2>1. calls' \in 0 .. Calls
    BY <1>0, PoolAssumption DEF IInv, TypeOK
  <2> QED
    BY <1>0, <1>1, <2>1 DEF IInv, TypeOK, Created
<1> QED
  BY <1>2, <1>3, <1>4, <1>5, <1>6, <1>7 DEF IInv

\* The search stops at a pool of the vector.
LEMMA InspectPoolKeeps ==
  ASSUME IInv, phase = "up", NEW t \in Threads, InspectPool(t)
  PROVE  IInv'
<1>0. /\ pc[t] = "find" /\ index[t] < Len(pools) /\ index[t] \in Nat
      /\ \/ /\ pc' = [pc EXCEPT ![t] = "pop"]
            /\ pool' = [pool EXCEPT ![t] = pools[index[t] + 1]]
            /\ index' = index
         \/ /\ index' = [index EXCEPT ![t] = @ + 1]
            /\ pc' = pc /\ pool' = pool
      /\ UNCHANGED <<pools, free, mtx, raw, block, live, stray, lost, calls, phase>>
  BY DEF InspectPool, Goto, memory, ghosts, IInv, TypeOK
<1>1. pools[index[t] + 1] \in Created
  BY <1>0 DEF IInv, TypeOK
<1>2. /\ pc' \in [Threads -> Steps] /\ index' \in [Threads -> Nat]
      /\ pool' \in [Threads -> Created \cup {0}]
      /\ Others(t)
      /\ \/ pc'[t] = "find"
         \/ pc'[t] = "pop" /\ pool'[t] = pools[index[t] + 1] /\ index'[t] = index[t]
  <2>1. CASE /\ pc' = [pc EXCEPT ![t] = "pop"]
             /\ pool' = [pool EXCEPT ![t] = pools[index[t] + 1]]
             /\ index' = index
    <3>1. pc' \in [Threads -> Steps] /\ pc'[t] = "pop"
      BY <2>1 DEF IInv, TypeOK, Steps
    <3>2. pool' \in [Threads -> Created \cup {0}] /\ pool'[t] = pools[index[t] + 1]
      BY <1>1, <2>1 DEF IInv, TypeOK
    <3>3. Others(t)
      BY <1>0, <2>1 DEF IInv, TypeOK, Others
    <3> QED
      BY <2>1, <3>1, <3>2, <3>3 DEF IInv, TypeOK
  <2>2. CASE /\ index' = [index EXCEPT ![t] = @ + 1]
             /\ pc' = pc /\ pool' = pool
    BY <1>0, <2>2 DEF IInv, TypeOK, Others
  <2> QED
    BY <1>0, <2>1, <2>2
<1>3. ListInv' /\ UserInv' /\ LiveInv' /\ HeldInv'
  BY <1>0, <1>2, BlocksFrame DEF Others, Holding
<1>4. MemoryInv'
  BY <1>0, <1>2, PoolsFrame DEF Others, Created
<1>5. PlaceInv'
  <2>1. PlaceOf(t)'
    BY <1>0, <1>2 DEF PlaceOf, Holding
  <2> QED
    BY <1>0, <1>2, <2>1, OthersPlaced
<1>6. HandleInv' /\ CountInv'
  BY <1>0, <1>2, HandlesFrame, CountFrame
<1>7. TypeOK'
  BY <1>0, <1>2 DEF IInv, TypeOK, Created
<1> QED
  BY <1>3, <1>4, <1>5, <1>6, <1>7 DEF IInv

\* The search has found no block: the call fails or goes on to create a pool.
LEMMA NoPoolFreeKeeps ==
  ASSUME IInv, phase = "up", NEW t \in Threads, NoPoolFree(t)
  PROVE  IInv'
<1>0. /\ pc[t] = "find"
      /\ UNCHANGED <<pools, free, mtx, raw, live, stray, lost, calls, phase>>
  BY DEF NoPoolFree, memory, ghosts
<1>1. /\ Others(t) /\ pc'[t] \in {"idle", "create"}
      /\ pc' \in [Threads -> Steps] /\ index' \in [Threads -> Nat]
      /\ pool' \in [Threads -> Created \cup {0}] /\ block' \in [Threads -> Blocks]
  <2>1. CASE Leave(t)
    BY <2>1, LeaveEffect DEF IInv
  <2>2. CASE Goto(t, "create") /\ UNCHANGED <<index, pool, block>>
    BY <2>2 DEF IInv, TypeOK, Goto, Others, Steps
  <2> QED
    BY <2>1, <2>2 DEF NoPoolFree
<1>2. ListInv' /\ UserInv' /\ LiveInv' /\ HeldInv'
  BY <1>0, <1>1, BlocksFrame DEF Others, Holding
<1>3. MemoryInv'
  BY <1>0, <1>1, PoolsFrame DEF Others, Created
<1>4. PlaceInv'
  BY <1>0, <1>1, OthersPlaced DEF PlaceOf, Holding
<1>5. HandleInv' /\ CountInv'
  BY <1>0, <1>1, HandlesFrame, CountFrame
<1>6. TypeOK'
  BY <1>0, <1>1 DEF IInv, TypeOK, Created
<1> QED
  BY <1>2, <1>3, <1>4, <1>5, <1>6 DEF IInv

\* A new pool comes with all its blocks on its list.
LEMMA CreatePoolKeeps ==
  ASSUME IInv, phase = "up", NEW t \in Threads, CreatePool(t)
  PROVE  IInv'
<1> DEFINE p0 == Len(free) + 1
<1>0. /\ pc[t] = "create" /\ pc' = [pc EXCEPT ![t] = "publish"]
      /\ free' = Append(free, populate_list) /\ mtx' = Append(mtx, NoThread)
      /\ raw' = raw \cup {p0} /\ pool' = [pool EXCEPT ![t] = p0]
      /\ UNCHANGED <<pools, index, block, live, stray, lost, calls, phase>>
  BY DEF CreatePool, Goto, ghosts
<1>1. /\ Len(free) \in Nat /\ Created' = Created \cup {p0} /\ p0 \notin Created
      /\ free' \in Seq(Seq(Blocks)) /\ Len(free') = p0
      /\ \A p \in Created : free'[p] = free[p]
      /\ free'[p0] = populate_list
  <2>1. free \in Seq(Seq(Blocks)) /\ populate_list \in Seq(Blocks)
    BY Populated DEF IInv, TypeOK
  <2>2. /\ free' \in Seq(Seq(Blocks)) /\ Len(free') = p0 /\ Len(free) \in Nat
        /\ \A p \in 1 .. Len(free) : free'[p] = free[p]
        /\ free'[p0] = populate_list
    BY <1>0, <2>1
  <2> QED
    BY <2>2 DEF Created
<1>2. mtx' \in [Created' -> Threads \cup {NoThread}]
  <2>1. mtx \in [1 .. Len(free) -> Threads \cup {NoThread}]
    BY DEF IInv, TypeOK, Created
  <2>2. mtx \in Seq(Threads \cup {NoThread}) /\ Len(mtx) = Len(free)
    <3>0. Len(free) \in Nat
      BY <1>1
    <3>1. mtx \in Seq(Threads \cup {NoThread})
      BY <2>1, <3>0, SeqDef, Zenon
    <3>2. DOMAIN mtx = 1 .. Len(mtx) /\ Len(mtx) \in Nat /\ DOMAIN mtx = 1 .. Len(free)
      BY <2>1, <3>1
    <3> QED
      BY <1>1, <3>1, <3>2
  <2>3. mtx' \in Seq(Threads \cup {NoThread}) /\ Len(mtx') = Len(free) + 1
    BY <1>0, <2>2
  <2>4. Created' = 1 .. Len(mtx')
    BY <1>1, <2>3 DEF Created
  <2> QED
    BY <2>3, <2>4
<1>3. /\ Others(t) /\ pc'[t] = "publish" /\ pool'[t] = p0
      /\ pc' \in [Threads -> Steps]
  BY <1>0 DEF IInv, TypeOK, Others, Steps
<1>4. pool' \in [Threads -> Created' \cup {0}]
  BY <1>0, <1>1 DEF IInv, TypeOK
<1>5. TypeOK'
  <2>1. pools' \in Seq(Created')
    <3>1. pools \in Seq(Created)
      BY DEF IInv, TypeOK
    <3>2. \A i \in 1 .. Len(pools) : pools[i] \in Created'
      BY <1>1, <3>1
    <3> QED
      BY <1>0, <3>1, <3>2
  <2>2. raw' \subseteq Created' /\ stray' \subseteq Created' /\ lost' \subseteq Created' \X Blocks
    BY <1>0, <1>1 DEF IInv, TypeOK
  <2>3. \A obj \in live' : obj.pool \in Created' /\ obj.block \in Blocks
    BY <1>0, <1>1 DEF IInv, TypeOK
  <2> QED
    BY <1>0, <1>1, <1>2, <1>3, <1>4, <2>1, <2>2, <2>3 DEF IInv, TypeOK
<1>6. ListInv'
  <2> SUFFICES ASSUME NEW p \in Created', NEW i \in DOMAIN free'[p], NEW j \in DOMAIN free'[p],
                      free'[p][i] = free'[p][j]
               PROVE  i = j
    BY DEF ListInv
  <2>1. CASE p \in Created
    BY <1>1, <2>1 DEF IInv, ListInv
  <2>2. CASE p = p0
    BY <1>1, <2>2, Populated, PoolAssumption
  <2> QED
    BY <1>1, <2>1, <2>2
<1>7. UserInv' /\ LiveInv'
  BY <1>0, <1>3 DEF IInv, UserInv, LiveInv, Others, Holding
<1>8. HeldInv'
  <2> SUFFICES ASSUME NEW p \in Created', NEW b \in Blocks PROVE HeldOf(p, b)'
    BY DEF HeldInv
  <2>0. /\ Living(p, b)' <=> Living(p, b)
        /\ Lost(p, b)' <=> Lost(p, b)
        /\ Using(p, b)' <=> Using(p, b)
    <3>1. \A u \in Threads : Used(u, p, b)' <=> Used(u, p, b)
      BY <1>0, <1>3 DEF Used, Others, Holding
    <3> QED
      BY <1>0, <3>1 DEF Living, Lost, Using
  <2>1. CASE p \in Created
    <3>1. Listed(p, b)' <=> Listed(p, b)
      BY <1>1, <2>1 DEF Listed
    <3> QED
      BY <2>0, <2>1, <3>1 DEF IInv, HeldInv, HeldOf
  <2>2. CASE p = p0
    <3>1. ~Living(p, b) /\ ~Lost(p, b) /\ ~Using(p, b)
      BY <1>1, <2>2 DEF IInv, TypeOK, PlaceInv, PlaceOf, Living, Lost, Using, Used
    <3>2. Listed(p, b)'
      <4>1. b + 1 \in 1 .. Capacity /\ (b + 1) - 1 = b
        BY PoolAssumption DEF Blocks
      <4>2. b + 1 \in DOMAIN free'[p] /\ free'[p][b + 1] = b
        BY <1>1, <2>2, <4>1, Populated
      <4> QED
        BY <4>2 DEF Listed
    <3> QED
      BY <2>0, <3>1, <3>2 DEF HeldOf
  <2> QED
    BY <1>1, <2>1, <2>2
<1>9. p0 \notin Entries \cup stray
  BY <1>1 DEF IInv, TypeOK, Entries
<1>10. PlaceInv'
  <2>1. PlaceOf(t)'
    BY <1>0, <1>1, <1>3, <1>9 DEF PlaceOf, Holding, Entries
  <2>2. ASSUME NEW u \in Threads, u # t PROVE PlaceOf(u)'
    BY <1>0, <1>1, <1>3, <2>2 DEF IInv, PlaceInv, PlaceOf, Others, Entries
  <2>3. \A u \in Threads : u # t /\ pc'[u] = "publish" => pool'[u] # p0
    BY <1>1, <1>3 DEF IInv, PlaceInv, PlaceOf, Others
  <2>4. \A u, v \in Threads :
          pc'[u] = "publish" /\ pc'[v] = "publish" /\ pool'[u] = pool'[v] => u = v
    BY <1>3, <2>3 DEF IInv, PlaceInv, Others
  <2> QED
    BY <2>1, <2>2, <2>4 DEF PlaceInv
<1>11. MemoryInv'
  <2>1. ASSUME NEW p \in Created'
        PROVE  p \in raw' <=> \/ p \in Entries \/ p \in stray
                              \/ \E u \in Threads : pc'[u] = "publish" /\ pool'[u] = p
    <3>1. CASE p = p0
      BY <1>0, <1>3, <3>1
    <3>2. CASE p \in Created
      <4>1. (\E u \in Threads : pc'[u] = "publish" /\ pool'[u] = p)
              <=> \E u \in Threads : pc[u] = "publish" /\ pool[u] = p
        BY <1>0, <1>1, <1>3, <3>2 DEF Others
      <4> QED
        BY <1>0, <1>1, <3>2, <4>1 DEF IInv, MemoryInv
    <3> QED
      BY <1>1, <3>1, <3>2
  <2> QED
    BY <1>0, <2>1 DEF IInv, MemoryInv, Entries
<1>12. HandleInv' /\ CountInv'
  BY <1>0, <1>3, HandlesFrame, CountFrame
<1> QED
  BY <1>5, <1>6, <1>7, <1>8, <1>10, <1>11, <1>12 DEF IInv

\* A pool cannot be had, and the call fails.
LEMMA CreateThrowsKeeps ==
  ASSUME IInv, phase = "up", NEW t \in Threads, CreateThrows(t)
  PROVE  IInv'
<1>0. /\ pc[t] = "create"
      /\ UNCHANGED <<pools, free, mtx, raw, live, stray, lost, calls, phase>>
  BY DEF CreateThrows, memory, ghosts
<1>1. /\ Others(t) /\ pc'[t] = "idle"
      /\ pc' \in [Threads -> Steps] /\ index' \in [Threads -> Nat]
      /\ pool' \in [Threads -> Created \cup {0}] /\ block' \in [Threads -> Blocks]
  BY LeaveEffect DEF IInv, CreateThrows
<1>2. ListInv' /\ UserInv' /\ LiveInv' /\ HeldInv'
  BY <1>0, <1>1, BlocksFrame DEF Others, Holding
<1>3. MemoryInv'
  BY <1>0, <1>1, PoolsFrame DEF Others, Created
<1>4. PlaceInv'
  BY <1>0, <1>1, OthersPlaced DEF PlaceOf, Holding
<1>5. HandleInv' /\ CountInv'
  BY <1>0, <1>1, HandlesFrame, CountFrame
<1>6. TypeOK'
  BY <1>0, <1>1 DEF IInv, TypeOK, Created
<1> QED
  BY <1>2, <1>3, <1>4, <1>5, <1>6 DEF IInv

\* A pool is published: what others have found stays where they found it.
LEMMA PublishPoolKeeps ==
  ASSUME IInv, phase = "up", NEW t \in Threads, PublishPool(t)
  PROVE  IInv'
<1>0. /\ pc[t] = "publish" /\ pc' = [pc EXCEPT ![t] = "pop"]
      /\ pools' = Append(pools, pool[t]) /\ index' = [index EXCEPT ![t] = Len(pools)]
      /\ UNCHANGED <<free, mtx, raw, pool, block, live, stray, lost, calls, phase>>
  BY DEF PublishPool, Goto, ghosts
<1>1. pool[t] \in Created /\ pool[t] \notin Entries \cup stray
  BY <1>0 DEF IInv, PlaceInv, PlaceOf
<1>2. /\ Len(pools) \in Nat /\ Created' = Created
      /\ pools' \in Seq(Created) /\ Len(pools') = Len(pools) + 1
      /\ \A i \in 1 .. Len(pools) : pools'[i] = pools[i]
      /\ pools'[Len(pools) + 1] = pool[t]
      /\ Entries' = Entries \cup {pool[t]}
  <2>1. pools \in Seq(Created) /\ Created' = Created
    BY <1>0 DEF IInv, TypeOK, Created
  <2>2. /\ Len(pools) \in Nat
        /\ pools' \in Seq(Created) /\ Len(pools') = Len(pools) + 1
        /\ \A i \in 1 .. Len(pools) : pools'[i] = pools[i]
        /\ pools'[Len(pools) + 1] = pool[t]
    BY <1>0, <1>1, <2>1
  <2>3. Entries' = Entries \cup {pool[t]}
    <3>1. DOMAIN pools = 1 .. Len(pools) /\ DOMAIN pools' = 1 .. Len(pools) + 1
      BY <2>1, <2>2
    <3>2. Entries' = {pools'[i] : i \in 1 .. Len(pools) + 1}
      BY <3>1 DEF Entries
    <3>3. Entries = {pools[i] : i \in 1 .. Len(pools)}
      BY <3>1 DEF Entries
    <3>4. \A i : i \in 1 .. Len(pools) + 1 <=> i \in 1 .. Len(pools) \/ i = Len(pools) + 1
      BY <2>2
    <3> QED
      BY <2>2, <3>2, <3>3, <3>4
  <2> QED
    BY <2>1, <2>2, <2>3
<1>3. /\ Others(t) /\ pc'[t] = "pop" /\ index'[t] = Len(pools)
      /\ pc' \in [Threads -> Steps] /\ index' \in [Threads -> Nat]
  BY <1>0, <1>2 DEF IInv, TypeOK, Others, Steps
<1>4. ListInv' /\ UserInv' /\ LiveInv' /\ HeldInv'
  BY <1>0, <1>3, BlocksFrame DEF Others, Holding
<1>5. PlaceInv'
  <2>1. PlaceOf(t)'
    BY <1>0, <1>2, <1>3 DEF PlaceOf, Holding
  <2>2. ASSUME NEW u \in Threads, u # t PROVE PlaceOf(u)'
    <3>1. PlaceOf(u) /\ pc'[u] = pc[u] /\ index'[u] = index[u] /\ index[u] \in Nat
          /\ pool'[u] = pool[u]
      BY <1>0, <1>3, <2>2 DEF IInv, TypeOK, PlaceInv, Others
    <3>2. pc[u] = "publish" => pool[u] # pool[t]
      BY <1>0, <2>2 DEF IInv, PlaceInv
    <3> QED
      BY <1>0, <1>2, <3>1, <3>2 DEF PlaceOf
  <2>3. \A u, v \in Threads :
          pc'[u] = "publish" /\ pc'[v] = "publish" /\ pool'[u] = pool'[v] => u = v
    BY <1>0, <1>3 DEF IInv, PlaceInv, Others
  <2> QED
    BY <2>1, <2>2, <2>3 DEF PlaceInv
<1>6. MemoryInv'
  <2>1. Entries' \cap stray' = {}
    BY <1>0, <1>1, <1>2 DEF IInv, MemoryInv
  <2>2. ASSUME NEW p \in Created
        PROVE  p \in raw' <=> \/ p \in Entries' \/ p \in stray'
                              \/ \E u \in Threads : pc'[u] = "publish" /\ pool'[u] = p
    <3>1. CASE p = pool[t]
      BY <1>0, <1>2, <3>1 DEF IInv, MemoryInv
    <3>2. CASE p # pool[t]
      <4>1. (\E u \in Threads : pc'[u] = "publish" /\ pool'[u] = p)
              <=> \E u \in Threads : pc[u] = "publish" /\ pool[u] = p
        BY <1>0, <1>3, <3>2 DEF Others
      <4> QED
        BY <1>0, <1>2, <3>2, <4>1 DEF IInv, MemoryInv
    <3> QED
      BY <3>1, <3>2
  <2> QED
    BY <1>0, <1>2, <2>1, <2>2 DEF MemoryInv
<1>7. HandleInv'
  <2> SUFFICES ASSUME NEW obj \in live
               PROVE  \E i \in 0 .. Len(pools') - 1 :
                        obj.handle = Handle(i, obj.block) /\ pools'[i + 1] = obj.pool
    BY <1>0 DEF HandleInv
  <2>1. PICK i \in 0 .. Len(pools) - 1 :
          obj.handle = Handle(i, obj.block) /\ pools[i + 1] = obj.pool
    BY <1>0 DEF IInv, HandleInv
  <2>2. i \in 0 .. Len(pools') - 1 /\ i + 1 \in 1 .. Len(pools)
    BY <1>2
  <2> QED
    BY <1>2, <2>1, <2>2
<1>8. CountInv'
  <2>1. Pending' = Pending \ {t} /\ t \in Pending
    BY <1>0, <1>3 DEF Pending, Others
  <2>2. IsFiniteSet(Pending)
    BY PoolAssumption, FS_Subset DEF Pending
  <2>3. Cardinality(Pending') = Cardinality(Pending) - 1
    BY <2>1, <2>2, FS_RemoveElement
  <2>4. Cardinality(Pending) \in Nat /\ calls \in Nat
    BY <2>2, FS_CardinalityType DEF IInv, TypeOK
  <2> QED
    BY <1>0, <1>2, <2>3, <2>4 DEF IInv, CountInv
<1>9. TypeOK'
  BY <1>0, <1>2, <1>3 DEF IInv, TypeOK
<1> QED
  BY <1>4, <1>5, <1>6, <1>7, <1>8, <1>9 DEF IInv

\* A pool that could not be published is given up: no one else has it.
LEMMA PublishThrowsKeeps ==
  ASSUME IInv, phase = "up", NEW t \in Threads, PublishThrows(t)
  PROVE  IInv'
<1>0. /\ pc[t] = "publish" /\ stray' = stray \cup {pool[t]}
      /\ UNCHANGED <<pools, free, mtx, raw, live, lost, calls, phase>>
  BY DEF PublishThrows, memory
<1>1. /\ Others(t) /\ pc'[t] = "idle"
      /\ pc' \in [Threads -> Steps] /\ index' \in [Threads -> Nat]
      /\ pool' \in [Threads -> Created \cup {0}] /\ block' \in [Threads -> Blocks]
  BY LeaveEffect DEF IInv, PublishThrows
<1>2. pool[t] \in Created /\ pool[t] \notin Entries \cup stray
  BY <1>0 DEF IInv, PlaceInv, PlaceOf
<1>3. ListInv' /\ UserInv' /\ LiveInv' /\ HeldInv'
  BY <1>0, <1>1, BlocksFrame DEF Others, Holding
<1>4. PlaceInv'
  <2>1. PlaceOf(t)'
    BY <1>1 DEF PlaceOf, Holding
  <2>2. ASSUME NEW u \in Threads, u # t PROVE PlaceOf(u)'
    <3>1. pc[u] = "publish" => pool[u] # pool[t]
      BY <1>0, <2>2 DEF IInv, PlaceInv
    <3> QED
      BY <1>0, <1>1, <2>2, <3>1 DEF IInv, PlaceInv, PlaceOf, Others, Created, Entries
  <2>3. \A u, v \in Threads :
          pc'[u] = "publish" /\ pc'[v] = "publish" /\ pool'[u] = pool'[v] => u = v
    BY <1>0, <1>1 DEF IInv, PlaceInv, Others
  <2> QED
    BY <2>1, <2>2, <2>3 DEF PlaceInv
<1>5. MemoryInv'
  <2>1. Entries' \cap stray' = {}
    BY <1>0, <1>2 DEF IInv, MemoryInv, Entries
  <2>2. ASSUME NEW p \in Created
        PROVE  p \in raw' <=> \/ p \in Entries \/ p \in stray'
                              \/ \E u \in Threads : pc'[u] = "publish" /\ pool'[u] = p
    <3>1. CASE p = pool[t]
      BY <1>0, <3>1 DEF IInv, MemoryInv
    <3>2. CASE p # pool[t]
      <4>1. (\E u \in Threads : pc'[u] = "publish" /\ pool'[u] = p)
              <=> \E u \in Threads : pc[u] = "publish" /\ pool[u] = p
        BY <1>0, <1>1, <3>2 DEF Others
      <4> QED
        BY <1>0, <3>2, <4>1 DEF IInv, MemoryInv
    <3> QED
      BY <3>1, <3>2
  <2> QED
    BY <1>0, <2>1, <2>2 DEF MemoryInv, Entries, Created
<1>6. HandleInv' /\ CountInv'
  BY <1>0, <1>1, HandlesFrame, CountFrame
<1>7. TypeOK'
  BY <1>0, <1>1, <1>2 DEF IInv, TypeOK, Created
<1> QED
  BY <1>3, <1>4, <1>5, <1>6, <1>7 DEF IInv

\* The head of a list passes from the list to the thread, which alone had the
\* pool's lock.
LEMMA PopBlockKeeps ==
  ASSUME IInv, phase = "up", NEW t \in Threads, PopBlock(t)
  PROVE  IInv'
<1> DEFINE p0 == pool[t]
           b0 == Head(free[p0])
<1>0. /\ pc[t] = "pop" /\ pc' = [pc EXCEPT ![t] = "construct"] /\ free[p0] # <<>>
      /\ block' = [block EXCEPT ![t] = b0]
      /\ free' = [free EXCEPT ![p0] = Tail(free[p0])]
      /\ UNCHANGED <<pools, mtx, raw, index, pool, live, stray, lost, calls, phase>>
  BY DEF PopBlock, Goto, ghosts
<1>1. p0 \in Created
  <2>1. index[t] \in Nat /\ index[t] < Len(pools) /\ pools[index[t] + 1] = p0
        /\ pools \in Seq(Created)
    BY <1>0 DEF IInv, TypeOK, PlaceInv, PlaceOf
  <2>2. index[t] + 1 \in 1 .. Len(pools)
    BY <2>1
  <2> QED
    BY <2>1, <2>2, ElementOfSeq
<1>2. /\ free[p0] \in Seq(Blocks) /\ b0 \in Blocks /\ Tail(free[p0]) \in Seq(Blocks)
      /\ Len(free[p0]) \in Nat /\ DOMAIN free[p0] = 1 .. Len(free[p0])
      /\ 1 \in DOMAIN free[p0] /\ b0 = free[p0][1]
      /\ DOMAIN Tail(free[p0]) = 1 .. Len(free[p0]) - 1
      /\ \A i \in 1 .. Len(free[p0]) - 1 : Tail(free[p0])[i] = free[p0][i + 1]
  <2>1. free[p0] \in Seq(Blocks)
    BY <1>1, ElementOfSeq DEF IInv, TypeOK, Created
  <2> QED
    BY <1>0, <2>1
<1>3. /\ free' \in Seq(Seq(Blocks)) /\ Created' = Created
      /\ free'[p0] = Tail(free[p0])
      /\ \A p \in Created : p # p0 => free'[p] = free[p]
  <2>1. free \in Seq(Seq(Blocks))
    BY DEF IInv, TypeOK
  <2>2. /\ free' \in Seq(Seq(Blocks)) /\ Len(free') = Len(free)
        /\ \A j \in 1 .. Len(free) : free'[j] = IF j = p0 THEN Tail(free[p0]) ELSE free[j]
    BY <1>0, <1>1, <1>2, <2>1, ExceptSeq DEF Created
  <2> QED
    BY <1>1, <2>2 DEF Created
<1>4. /\ Others(t) /\ pc'[t] = "construct" /\ block'[t] = b0
      /\ pc' \in [Threads -> Steps] /\ block' \in [Threads -> Blocks]
  BY <1>0, <1>2 DEF IInv, TypeOK, Others, Steps
<1>5. ListInv'
  <2> SUFFICES ASSUME NEW p \in Created, NEW i \in DOMAIN free'[p], NEW j \in DOMAIN free'[p],
                      free'[p][i] = free'[p][j]
               PROVE  i = j
    BY <1>3 DEF ListInv
  <2>1. CASE p # p0
    BY <1>3, <2>1 DEF IInv, ListInv
  <2>2. CASE p = p0
    <3>1. /\ i \in 1 .. Len(free[p0]) - 1 /\ j \in 1 .. Len(free[p0]) - 1
          /\ free[p0][i + 1] = free[p0][j + 1]
      BY <1>2, <1>3, <2>2
    <3>2. i + 1 \in DOMAIN free[p0] /\ j + 1 \in DOMAIN free[p0]
      BY <1>2, <3>1
    <3>3. i + 1 = j + 1
      BY <1>1, <3>1, <3>2 DEF IInv, ListInv
    <3> QED
      BY <3>1, <3>3
  <2> QED
    BY <2>1, <2>2
<1>6. ASSUME NEW b \in Blocks
      PROVE  Listed(p0, b) <=> b = b0 \/ \E i \in 1 .. Len(free[p0]) - 1 : free[p0][i + 1] = b
  <2>1. \A i : i \in DOMAIN free[p0] <=> i = 1 \/ (i - 1 \in 1 .. Len(free[p0]) - 1 /\ i \in Nat)
    BY <1>2
  <2>2. ASSUME NEW i \in DOMAIN free[p0], free[p0][i] = b, b # b0
        PROVE  \E j \in 1 .. Len(free[p0]) - 1 : free[p0][j + 1] = b
    <3>1. i - 1 \in 1 .. Len(free[p0]) - 1 /\ (i - 1) + 1 = i
      BY <1>2, <2>2
    <3> QED
      BY <2>2, <3>1
  <2>3. ASSUME NEW j \in 1 .. Len(free[p0]) - 1
        PROVE  j + 1 \in DOMAIN free[p0]
    BY <1>2
  <2> QED
    BY <1>2, <2>2, <2>3 DEF Listed
<1>7. ~\E i \in 1 .. Len(free[p0]) - 1 : free[p0][i + 1] = b0
  <2> SUFFICES ASSUME NEW i \in 1 .. Len(free[p0]) - 1, free[p0][i + 1] = b0 PROVE FALSE
    OBVIOUS
  <2>1. i + 1 \in DOMAIN free[p0] /\ i + 1 # 1
    BY <1>2
  <2> QED
    BY <1>1, <1>2, <2>1 DEF IInv, ListInv
<1>8. Listed(p0, b0) /\ HeldOf(p0, b0)
  BY <1>1, <1>2, <1>6 DEF IInv, HeldInv
<1>9. UserInv'
  <2>1. \A u \in Threads \ {t} : ~(pc[u] \in Holding /\ pool[u] = p0 /\ block[u] = b0)
    BY <1>8 DEF HeldOf, Using, Used
  <2> QED
    BY <1>0, <1>4, <2>1 DEF IInv, UserInv, Others
<1>10. HeldInv'
  <2> SUFFICES ASSUME NEW p \in Created, NEW b \in Blocks PROVE HeldOf(p, b)'
    BY <1>3 DEF HeldInv
  <2>0. Living(p, b)' <=> Living(p, b)
    BY <1>0 DEF Living
  <2>a. Lost(p, b)' <=> Lost(p, b)
    BY <1>0 DEF Lost
  <2>b. HeldOf(p, b)
    BY DEF IInv, HeldInv
  <2>1. CASE p = p0 /\ b = b0
    <3>1. Used(t, p, b)'
      BY <1>0, <1>4, <2>1 DEF Used, Holding
    <3>2. ~Listed(p, b)'
      BY <1>2, <1>3, <1>7, <2>1, ZenonT(40) DEF Listed
    <3> QED
      BY <1>8, <2>0, <2>a, <2>1, <3>1, <3>2 DEF HeldOf, Using
  <2>2. CASE p # p0 \/ b # b0
    <3>1. Using(p, b)' <=> Using(p, b)
      <4>1. \A u \in Threads : Used(u, p, b)' <=> Used(u, p, b)
        BY <1>0, <1>4, <2>2 DEF Used, Others, Holding
      <4> QED
        BY <4>1 DEF Using
    <3>2. Listed(p, b)' <=> Listed(p, b)
      <4>1. CASE p # p0
        BY <1>3, <4>1 DEF Listed
      <4>2. CASE p = p0
        <5>1. Listed(p, b)' <=> \E i \in 1 .. Len(free[p0]) - 1 : free[p0][i + 1] = b
          BY <1>2, <1>3, <4>2, ZenonT(40) DEF Listed
        <5> QED
          BY <1>6, <2>2, <4>2, <5>1
      <4> QED
        BY <4>1, <4>2
    <3> QED
      BY <2>0, <2>a, <2>b, <3>1, <3>2 DEF HeldOf
  <2> QED
    BY <2>1, <2>2
<1>11. LiveInv'
  BY <1>0 DEF IInv, LiveInv
<1>12. PlaceInv'
  <2>1. PlaceOf(t)'
    BY <1>0, <1>1, <1>3, <1>4 DEF IInv, PlaceInv, PlaceOf, Holding
  <2>2. ASSUME NEW u \in Threads, u # t PROVE PlaceOf(u)'
    BY <1>0, <1>3, <1>4, <2>2 DEF IInv, PlaceInv, PlaceOf, Others, Entries
  <2>3. \A u, v \in Threads :
          pc'[u] = "publish" /\ pc'[v] = "publish" /\ pool'[u] = pool'[v] => u = v
    BY <1>0, <1>4 DEF IInv, PlaceInv, Others
  <2> QED
    BY <2>1, <2>2, <2>3 DEF PlaceInv
<1>13. MemoryInv'
  BY <1>0, <1>3, <1>4, PoolsFrame DEF Others
<1>14. HandleInv' /\ CountInv'
  BY <1>0, <1>4, HandlesFrame, CountFrame
<1>15. TypeOK'
  BY <1>0, <1>3, <1>4 DEF IInv, TypeOK
<1> QED
  BY <1>5, <1>9, <1>10, <1>11, <1>12, <1>13, <1>14, <1>15 DEF IInv

\* The crash on an empty list changes nothing else.
LEMMA PopNullKeeps ==
  ASSUME IInv, phase = "up", NEW t \in Threads, PopNull(t)
  PROVE  IInv'
<1>0. /\ phase' = "crashed"
      /\ UNCHANGED <<pools, free, mtx, raw, pc, index, pool, block, live, stray, lost, calls>>
  BY DEF PopNull, memory, local
<1>1. ListInv' /\ UserInv' /\ LiveInv' /\ HeldInv'
  BY <1>0, BlocksFrame
<1>2. PlaceInv' /\ MemoryInv'
  BY <1>0 DEF IInv, PlaceInv, PlaceOf, MemoryInv, Entries, Created
<1>3. HandleInv' /\ CountInv'
  BY <1>0 DEF IInv, HandleInv, CountInv, Pending
<1>4. TypeOK'
  BY <1>0 DEF IInv, TypeOK, Created
<1> QED
  BY <1>1, <1>2, <1>3, <1>4 DEF IInv

\* The block of a thread that leaves has one new holder, and no other block is
\* touched.
LEMMA BlockPassedOn ==
  ASSUME IInv, NEW t \in Threads, Others(t), pc[t] \in Holding, pc'[t] = "idle", free' = free,
         pool[t] \in Created, block[t] \in Blocks,
         \A p \in Created, b \in Blocks :
           /\ p # pool[t] \/ b # block[t] =>
                (Living(p, b)' <=> Living(p, b)) /\ (Lost(p, b)' <=> Lost(p, b))
           /\ p = pool[t] /\ b = block[t] /\ Used(t, p, b) /\ HeldOf(p, b) =>
                \/ Living(p, b)' /\ ~Lost(p, b)'
                \/ ~Living(p, b)' /\ Lost(p, b)'
  PROVE  ListInv' /\ UserInv' /\ HeldInv'
<1>1. ListInv'
  BY DEF IInv, ListInv, Created
<1>2. UserInv'
  BY DEF IInv, UserInv, Others, Holding
<1>3. HeldInv'
  <2> SUFFICES ASSUME NEW p \in Created, NEW b \in Blocks PROVE HeldOf(p, b)'
    BY DEF HeldInv, Created
  <2>1. Listed(p, b)' <=> Listed(p, b)
    BY DEF Listed
  <2>2. HeldOf(p, b)
    BY DEF IInv, HeldInv
  <2>3. CASE p = pool[t] /\ b = block[t]
    <3>1. Used(t, p, b) /\ Using(p, b)
      BY <2>3 DEF Used, Using
    <3>2. ~Listed(p, b)
      BY <2>2, <3>1 DEF HeldOf
    <3>3. ~Using(p, b)'
      <4> SUFFICES ASSUME NEW u \in Threads, Used(u, p, b)' PROVE FALSE
        BY DEF Using
      <4>1. u # t
        BY DEF Used, Holding
      <4>2. Used(u, p, b)
        BY <4>1 DEF Used, Others
      <4> QED
        BY <2>3, <3>1, <4>1, <4>2 DEF IInv, UserInv, Used
    <3> QED
      BY <2>1, <2>2, <2>3, <3>1, <3>2, <3>3 DEF HeldOf
  <2>4. CASE p # pool[t] \/ b # block[t]
    <3>1. \A u \in Threads : Used(u, p, b)' <=> Used(u, p, b)
      BY <2>4 DEF Used, Others, Holding
    <3>2. Using(p, b)' <=> Using(p, b)
      BY <3>1 DEF Using
    <3> QED
      BY <2>1, <2>2, <2>4, <3>2 DEF HeldOf
  <2> QED
    BY <2>3, <2>4
<1> QED
  BY <1>1, <1>2, <1>3

\* The object is there: its block passes to it, and its handle carries the index
\* the thread has found the pool at.
LEMMA ConstructObjectKeeps ==
  ASSUME IInv, phase = "up", NEW t \in Threads, ConstructObject(t)
  PROVE  IInv'
<1> DEFINE obj0 == [handle |-> Handle(index[t], block[t]), pool |-> pool[t], block |-> block[t]]
<1>0. /\ pc[t] = "construct" /\ live' = live \cup {obj0}
      /\ UNCHANGED <<pools, free, mtx, raw, stray, lost, calls, phase>>
  BY DEF ConstructObject, memory
<1>1. /\ Others(t) /\ pc'[t] = "idle"
      /\ pc' \in [Threads -> Steps] /\ index' \in [Threads -> Nat]
      /\ pool' \in [Threads -> Created \cup {0}] /\ block' \in [Threads -> Blocks]
  BY LeaveEffect DEF IInv, ConstructObject
<1>2. /\ pc[t] \in Holding /\ pool[t] \in Created /\ block[t] \in Blocks
      /\ index[t] \in Nat /\ index[t] < Len(pools) /\ pools[index[t] + 1] = pool[t]
  BY <1>0 DEF IInv, TypeOK, PlaceInv, PlaceOf, Holding
<1>3. obj0.pool = pool[t] /\ obj0.block = block[t] /\ obj0.handle = Handle(index[t], block[t])
  OBVIOUS
<1> HIDE DEF obj0
<1>4. ~Living(pool[t], block[t]) /\ ~Lost(pool[t], block[t])
  <2>1. Using(pool[t], block[t])
    BY <1>2 DEF Using, Used
  <2> QED
    BY <1>2, <2>1 DEF IInv, HeldInv, HeldOf
<1>5. ListInv' /\ UserInv' /\ HeldInv'
  <2>1. ASSUME NEW p \in Created, NEW b \in Blocks
        PROVE  /\ Living(p, b)' <=> Living(p, b) \/ (p = pool[t] /\ b = block[t])
               /\ Lost(p, b)' <=> Lost(p, b)
    BY <1>0, <1>3 DEF Living, Lost
  <2> QED
    BY <1>0, <1>1, <1>2, <1>4, <2>1, BlockPassedOn
<1>6. LiveInv'
  <2>1. \A o \in live : ~(o.pool = pool[t] /\ o.block = block[t])
    BY <1>4 DEF Living
  <2> QED
    BY <1>0, <1>3, <2>1 DEF IInv, LiveInv
<1>7. HandleInv'
  <2>1. index[t] \in 0 .. Len(pools) - 1
    BY <1>2 DEF IInv, TypeOK
  <2> QED
    BY <1>0, <1>2, <1>3, <2>1 DEF IInv, HandleInv
<1>8. PlaceInv' /\ MemoryInv' /\ CountInv'
  <2>1. PlaceOf(t)'
    BY <1>1 DEF PlaceOf, Holding
  <2>2. PlaceInv'
    BY <1>0, <1>1, <2>1, OthersPlaced
  <2>3. MemoryInv'
    BY <1>0, <1>1, PoolsFrame DEF Others, Created
  <2> QED
    BY <1>0, <1>1, <2>2, <2>3, CountFrame
<1>9. TypeOK'
  BY <1>0, <1>1, <1>2, <1>3 DEF IInv, TypeOK, Created
<1> QED
  BY <1>5, <1>6, <1>7, <1>8, <1>9 DEF IInv

\* T's constructor, or its destructor, throws: the block has gone from every
\* list, once.
LEMMA BlockLost ==
  ASSUME IInv, phase = "up", NEW t \in Threads, pc[t] \in {"construct", "destroy"},
         lost' = lost \cup {<<pool[t], block[t]>>}, Leave(t),
         UNCHANGED <<pools, free, mtx, raw, live, stray, calls, phase>>
  PROVE  IInv'
<1>1. /\ Others(t) /\ pc'[t] = "idle"
      /\ pc' \in [Threads -> Steps] /\ index' \in [Threads -> Nat]
      /\ pool' \in [Threads -> Created \cup {0}] /\ block' \in [Threads -> Blocks]
  BY LeaveEffect DEF IInv
<1>2. pc[t] \in Holding /\ pool[t] \in Created /\ block[t] \in Blocks
  BY DEF IInv, TypeOK, PlaceInv, PlaceOf, Holding
<1>3. ~Living(pool[t], block[t])
  <2>1. Using(pool[t], block[t])
    BY <1>2 DEF Using, Used
  <2> QED
    BY <1>2, <2>1 DEF IInv, HeldInv, HeldOf
<1>4. ListInv' /\ UserInv' /\ HeldInv'
  <2>1. ASSUME NEW p \in Created, NEW b \in Blocks
        PROVE  /\ Living(p, b)' <=> Living(p, b)
               /\ Lost(p, b)' <=> Lost(p, b) \/ (p = pool[t] /\ b = block[t])
    BY DEF Living, Lost
  <2> QED
    BY <1>1, <1>2, <1>3, <2>1, BlockPassedOn
<1>5. LiveInv'
  BY DEF IInv, LiveInv
<1>6. PlaceInv' /\ MemoryInv' /\ HandleInv' /\ CountInv'
  <2>1. PlaceOf(t)'
    BY <1>1 DEF PlaceOf, Holding
  <2>2. PlaceInv'
    BY <1>1, <2>1, OthersPlaced
  <2>3. MemoryInv'
    BY <1>1, PoolsFrame DEF Others, Created
  <2> QED
    BY <1>1, <2>2, <2>3, HandlesFrame, CountFrame
<1>7. TypeOK'
  BY <1>1, <1>2 DEF IInv, TypeOK, Created
<1> QED
  BY <1>4, <1>5, <1>6, <1>7 DEF IInv

\* The handle leads back to the pool and the block of the object, which passes
\* its block to the thread.
LEMMA DestroyCallKeeps ==
  ASSUME IInv, phase = "up", NEW t \in Threads, NEW obj \in live, DestroyCall(t, obj)
  PROVE  IInv'
<1>1. pools[PoolOf(obj.handle) + 1] = obj.pool /\ OffsetOf(obj.handle) = obj.block
      /\ obj.pool \in Created /\ obj.block \in Blocks
  BY LiveDecodes DEF IInv, TypeOK
<1>0. /\ pc[t] = "idle" /\ live' = live \ {obj} /\ pc' = [pc EXCEPT ![t] = "destroy"]
      /\ pool' = [pool EXCEPT ![t] = obj.pool] /\ block' = [block EXCEPT ![t] = obj.block]
      /\ UNCHANGED <<pools, free, mtx, raw, index, stray, lost, calls, phase>>
  BY <1>1 DEF DestroyCall, Goto, memory
<1>2. /\ Others(t) /\ pc'[t] = "destroy" /\ pool'[t] = obj.pool /\ block'[t] = obj.block
      /\ pc' \in [Threads -> Steps] /\ pool' \in [Threads -> Created \cup {0}]
      /\ block' \in [Threads -> Blocks]
  BY <1>0, <1>1 DEF IInv, TypeOK, Others, Steps
<1>3. Living(obj.pool, obj.block) /\ HeldOf(obj.pool, obj.block)
  BY <1>1 DEF Living, IInv, HeldInv
<1>4. LiveInv' /\ ListInv'
  BY <1>0 DEF IInv, LiveInv, ListInv, Created
<1>5. UserInv'
  <2>1. \A u \in Threads : ~(pc[u] \in Holding /\ pool[u] = obj.pool /\ block[u] = obj.block)
    BY <1>3 DEF HeldOf, Using, Used
  <2> QED
    BY <1>2, <2>1 DEF IInv, UserInv, Others
<1>6. HeldInv'
  <2> SUFFICES ASSUME NEW p \in Created, NEW b \in Blocks PROVE HeldOf(p, b)'
    BY <1>0 DEF HeldInv, Created
  <2>1. Listed(p, b)' <=> Listed(p, b)
    BY <1>0 DEF Listed
  <2>2. Lost(p, b)' <=> Lost(p, b)
    BY <1>0 DEF Lost
  <2>3. HeldOf(p, b)
    BY DEF IInv, HeldInv
  <2>4. CASE p = obj.pool /\ b = obj.block
    <3>1. Using(p, b)'
      BY <1>2, <2>4 DEF Using, Used, Holding
    <3>2. ~Living(p, b)'
      BY <1>0, <2>4 DEF IInv, LiveInv, Living
    <3>3. ~Listed(p, b) /\ ~Lost(p, b)
      BY <1>3, <2>4 DEF HeldOf
    <3> QED
      BY <2>1, <2>2, <3>1, <3>2, <3>3 DEF HeldOf
  <2>5. CASE p # obj.pool \/ b # obj.block
    <3>1. \A u \in Threads : Used(u, p, b)' <=> Used(u, p, b)
      BY <1>0, <1>2, <2>5 DEF Used, Others, Holding
    <3>2. Using(p, b)' <=> Using(p, b)
      BY <3>1 DEF Using
    <3>3. Living(p, b)' <=> Living(p, b)
      BY <1>0, <2>5 DEF Living
    <3> QED
      BY <2>1, <2>2, <2>3, <3>2, <3>3 DEF HeldOf
  <2> QED
    BY <2>4, <2>5
<1>7. PlaceInv' /\ MemoryInv' /\ HandleInv' /\ CountInv'
  <2>1. PlaceOf(t)'
    BY <1>0, <1>1, <1>2 DEF PlaceOf, Holding, Created
  <2>2. PlaceInv'
    BY <1>0, <1>2, <2>1, OthersPlaced
  <2>3. MemoryInv'
    BY <1>0, <1>2, PoolsFrame DEF Others, Created
  <2> QED
    BY <1>0, <1>2, <2>2, <2>3, HandlesFrame, CountFrame
<1>8. TypeOK'
  BY <1>0, <1>2 DEF IInv, TypeOK, Created
<1> QED
  BY <1>4, <1>5, <1>6, <1>7, <1>8 DEF IInv

\* The thread in destroy takes the pool's lock and keeps its block.
LEMMA DestroyObjectKeeps ==
  ASSUME IInv, phase = "up", NEW t \in Threads, DestroyObject(t)
  PROVE  IInv'
<1>0. /\ pc[t] = "destroy" /\ pc' = [pc EXCEPT ![t] = "mark_as_free"]
      /\ mtx' = [mtx EXCEPT ![pool[t]] = t]
      /\ UNCHANGED <<pools, free, raw, index, pool, block, live, stray, lost, calls, phase>>
  BY DEF DestroyObject, Goto, ghosts
<1>1. /\ Others(t) /\ pc'[t] = "mark_as_free" /\ pc' \in [Threads -> Steps]
      /\ mtx' \in [Created -> Threads \cup {NoThread}]
  BY <1>0 DEF IInv, TypeOK, Others, Steps
<1>2. ListInv' /\ UserInv' /\ LiveInv' /\ HeldInv'
  BY <1>0, <1>1, BlocksFrame DEF Others, Holding
<1>3. PlaceInv' /\ MemoryInv' /\ HandleInv' /\ CountInv'
  <2>1. PlaceOf(t)'
    BY <1>0, <1>1 DEF IInv, PlaceInv, PlaceOf, Holding, Created
  <2>2. PlaceInv'
    BY <1>0, <1>1, <2>1, OthersPlaced
  <2>3. MemoryInv'
    BY <1>0, <1>1, PoolsFrame DEF Others, Created
  <2> QED
    BY <1>0, <1>1, <2>2, <2>3, HandlesFrame, CountFrame
<1>4. TypeOK'
  BY <1>0, <1>1 DEF IInv, TypeOK, Created
<1> QED
  BY <1>2, <1>3, <1>4 DEF IInv

\* ~pool_manager gives back the pools of the vector; nobody is about to publish.
LEMMA TeardownKeeps ==
  ASSUME IInv, phase = "up", Teardown
  PROVE  IInv'
<1>0. /\ \A t \in Threads : pc[t] = "idle"
      /\ raw' = raw \ Entries /\ pools' = <<>> /\ phase' = "gone"
      /\ UNCHANGED <<free, mtx, pc, index, pool, block, live, stray, lost, calls>>
  BY DEF Teardown, local, Entries
<1>1. ListInv' /\ UserInv' /\ LiveInv' /\ HeldInv'
  BY <1>0, BlocksFrame
<1>2. Entries' = {}
  BY <1>0 DEF Entries
<1>3. PlaceInv'
  BY <1>0, <1>2 DEF PlaceInv, PlaceOf, Holding
<1>4. raw' = stray
  <2>1. raw \subseteq Created /\ stray \subseteq Created
    BY DEF IInv, TypeOK
  <2>2. \A p \in Created : p \in raw <=> p \in Entries \/ p \in stray
    BY <1>0 DEF IInv, MemoryInv
  <2>3. Entries \cap stray = {}
    BY DEF IInv, MemoryInv
  <2> QED
    BY <1>0, <2>1, <2>2, <2>3
<1>5. MemoryInv' /\ HandleInv'
  BY <1>0, <1>2, <1>4 DEF MemoryInv, HandleInv
<1>6. CountInv'
  <2>1. Pending' = {}
    BY <1>0 DEF Pending
  <2>2. Len(pools') = 0 /\ calls' \in Nat
    BY <1>0 DEF IInv, TypeOK
  <2> QED
    BY <2>1, <2>2, FS_EmptySet DEF CountInv
<1>7. TypeOK'
  <2>1. raw' \subseteq Created
    BY <1>0 DEF IInv, TypeOK
  <2>2. pools' \in Seq(Created)
    BY <1>0
  <2> QED
    BY <1>0, <2>1, <2>2 DEF IInv, TypeOK, Created
<1> QED
  BY <1>1, <1>3, <1>5, <1>6, <1>7 DEF IInv

\* Every step; a crashed or destructed manager stays as it is.
LEMMA NextKeeps == IInv /\ [Next]_vars => IInv'
<1> SUFFICES ASSUME IInv, [Next]_vars PROVE IInv'
  OBVIOUS
<1>1. CASE UNCHANGED vars
  <2>0. UNCHANGED <<pools, free, mtx, raw, pc, index, pool, block, live, stray, lost, calls, phase>>
    BY <1>1 DEF vars, memory, local, ghosts
  <2>1. ListInv' /\ UserInv' /\ LiveInv' /\ HeldInv'
    BY <2>0, BlocksFrame
  <2>2. PlaceInv' /\ MemoryInv' /\ HandleInv' /\ CountInv' /\ TypeOK'
    BY <2>0 DEF IInv, PlaceInv, PlaceOf, MemoryInv, Entries, Created, HandleInv, CountInv,
                Pending, TypeOK
  <2> QED
    BY <2>1, <2>2 DEF IInv
<1>2. CASE Next
  <2>1. phase = "up"
    BY <1>2 DEF Next
  <2>2. ASSUME NEW t \in Threads, ConstructCall(t) PROVE IInv'
    BY <2>1, <2>2, ConstructCallKeeps
  <2>3. ASSUME NEW t \in Threads, ConstructThrows(t) \/ DestroyThrows(t) PROVE IInv'
    BY <2>1, <2>3, BlockLost DEF ConstructThrows, DestroyThrows, memory
  <2>4. ASSUME NEW t \in Threads, Construct(t) PROVE IInv'
    BY <2>1, <2>3, <2>4, InspectPoolKeeps, NoPoolFreeKeeps, CreatePoolKeeps, CreateThrowsKeeps,
       PublishPoolKeeps, PublishThrowsKeeps, PopBlockKeeps, PopNullKeeps, ConstructObjectKeeps
       DEF Construct
  <2>5. ASSUME NEW t \in Threads, NEW obj \in live, DestroyCall(t, obj) PROVE IInv'
    BY <2>1, <2>5, DestroyCallKeeps
  <2>6. ASSUME NEW t \in Threads, Destroy(t) PROVE IInv'
    BY <1>1, <2>1, <2>3, <2>6, DestroyObjectKeeps DEF Destroy, SpinInMarkAsFree
  <2>7. CASE Teardown
    BY <2>1, <2>7, TeardownKeeps
  <2> QED
    BY <1>2, <2>2, <2>4, <2>5, <2>6, <2>7 DEF Next
<1> QED
  BY <1>1, <1>2

\* The invariant holds for any threads, pools and number of calls.
THEOREM Invariance == Spec => []IInv
BY InitInv, NextKeeps, PTL DEF Spec

-----------------------------------------------------------------------------
(* What it gives *)

\* The state has its type: every pool and block a step touches exists.
THEOREM Types == Spec => []TypeOK
<1>1. IInv => TypeOK
  BY DEF IInv
<1> QED
  BY <1>1, Invariance, PTL

\* get and destroy find the object whose handle construct returned, whatever
\* pools were added in between, and no two objects share a handle.
THEOREM HandlesStayGood == Spec => []LiveHandlesDecode
<1>1. IInv => LiveHandlesDecode
  <2> SUFFICES ASSUME IInv, phase = "up" PROVE LiveHandlesDecode
    BY DEF LiveHandlesDecode
  <2>1. ASSUME NEW o1 \in live, NEW o2 \in live, o1.handle = o2.handle PROVE o1 = o2
    <3>1. o1.pool = o2.pool /\ o1.block = o2.block
      BY <2>1, LiveDecodes
    <3> QED
      BY <3>1 DEF IInv, LiveInv
  <2> QED
    BY <2>1, LiveDecodes DEF LiveHandlesDecode
<1> QED
  BY <1>1, Invariance, PTL

\* Every block has one holder, whatever threads construct, destroy and throw at
\* the same time.
THEOREM OneHolder == Spec => []BlockHeldOnce
<1>1. IInv => BlockHeldOnce
  <2> SUFFICES ASSUME IInv, NEW p \in Created, NEW b \in Blocks
               PROVE  Cardinality(Holders(p, b)) = 1
    BY DEF BlockHeldOnce
  <2>0. HeldOf(p, b)
    BY DEF IInv, HeldInv
  <2> DEFINE F == {i \in DOMAIN free[p] : free[p][i] = b}
             T == {t \in Threads : pc[t] \in Holding /\ pool[t] = p /\ block[t] = b}
             L == {obj \in live : obj.pool = p /\ obj.block = b}
             X == {l \in lost : l = <<p, b>>}
  <2>1. Holders(p, b) = F \cup T \cup L \cup X
    BY DEF Holders, Holding
  <2>2. /\ Listed(p, b) <=> F # {}
        /\ Using(p, b) <=> T # {}
        /\ Living(p, b) <=> L # {}
        /\ Lost(p, b) <=> X # {}
    BY DEF Listed, Using, Used, Living, Lost
  <2>3. \A x, y \in F : x = y
    BY DEF IInv, ListInv
  <2>4. \A x, y \in T : x = y
    BY DEF IInv, UserInv
  <2>5. \A x, y \in L : x = y
    BY DEF IInv, LiveInv
  <2>6. \A x, y \in X : x = y
    OBVIOUS
  <2> HIDE DEF F, T, L, X
  <2>7. \/ F # {} /\ T = {} /\ L = {} /\ X = {}
        \/ F = {} /\ T # {} /\ L = {} /\ X = {}
        \/ F = {} /\ T = {} /\ L # {} /\ X = {}
        \/ F = {} /\ T = {} /\ L = {} /\ X # {}
    BY <2>0, <2>2 DEF HeldOf
  <2>8. \E x : F \cup T \cup L \cup X = {x}
    BY <2>3, <2>4, <2>5, <2>6, <2>7
  <2> QED
    BY <2>1, <2>8, FS_Singleton
<1> QED
  BY <1>1, Invariance, PTL

\* The destructed manager has given all memory back but that of pools it could
\* not publish.
THEOREM PoolsReturned == Spec => []MemoryReturned
<1>1. IInv => MemoryReturned
  BY DEF IInv, MemoryInv, MemoryReturned
<1> QED
  BY <1>1, Invariance, PTL

-----------------------------------------------------------------------------
(* How far a construct is from its end.  That it gets there is liveness and  *)
(* left to TLC (ConstructEnds); that it never gets away from it, and what    *)
(* can hold it up, is not.                                                   *)

Constructing == {"find", "create", "publish", "pop", "construct"}

\* How many steps a call of construct has left, at most.
Left(t) ==
  CASE pc[t] = "find"      -> 5 + (Len(pools) - index[t])
    [] pc[t] = "create"    -> 4
    [] pc[t] = "publish"   -> 3
    [] pc[t] = "pop"       -> 2
    [] pc[t] = "construct" -> 1
    [] OTHER               -> 0

\* A search starts at the first pool and does not run past the last.
SearchInv ==
  \A t \in Threads : /\ pc[t] = "idle" => index[t] = 0
                     /\ pc[t] = "find" => index[t] <= Len(pools)

\* The only thread that keeps a pool's lock is one inside mark_as_free.
LockInv ==
  \A p \in Created : mtx[p] # NoThread =>
    mtx[p] \in Threads /\ pc[mtx[p]] = "mark_as_free" /\ pool[mtx[p]] = p

\* A step takes a construct nearer its end or leaves all its locals alone.
NearsEnd(t) ==
  pc[t] \in Constructing =>
    \/ Left(t)' < Left(t)
    \/ Left(t)' = Left(t) /\ UNCHANGED <<pc[t], index[t], pool[t], block[t]>>

\* The search begins at the start of the vector, which does not shrink.
LEMMA SearchKeeps ==
  ASSUME IInv, SearchInv, Next
  PROVE  SearchInv'
<1>1. /\ pc \in [Threads -> Steps] /\ index \in [Threads -> Nat] /\ Len(pools) \in Nat
      /\ pools \in Seq(Created)
  BY DEF IInv, TypeOK
<1>3. ASSUME NEW t \in Threads, ConstructCall(t) PROVE SearchInv'
  BY <1>1, <1>3 DEF ConstructCall, Goto, SearchInv, memory
<1>4. ASSUME NEW t \in Threads, InspectPool(t) PROVE SearchInv'
  BY <1>1, <1>4 DEF InspectPool, Goto, SearchInv, memory
<1>5. ASSUME NEW t \in Threads, UNCHANGED pools, Leave(t) PROVE SearchInv'
  BY <1>1, <1>5 DEF Leave, Goto, SearchInv
<1>6. ASSUME NEW t \in Threads, NoPoolFree(t) PROVE SearchInv'
  <2>1. CASE Leave(t)
    BY <1>5, <1>6, <2>1 DEF NoPoolFree, memory
  <2>2. CASE Goto(t, "create") /\ UNCHANGED index
    BY <1>1, <1>6, <2>2 DEF NoPoolFree, Goto, SearchInv, memory
  <2> QED
    BY <1>6, <2>1, <2>2 DEF NoPoolFree
<1>7. ASSUME NEW t \in Threads, CreatePool(t) PROVE SearchInv'
  BY <1>1, <1>7 DEF CreatePool, Goto, SearchInv
<1>8. ASSUME NEW t \in Threads, PublishPool(t) PROVE SearchInv'
  <2>1. /\ pc' = [pc EXCEPT ![t] = "pop"] /\ index' = [index EXCEPT ![t] = Len(pools)]
        /\ \A u \in Threads : pc[u] # "find"
    BY <1>8 DEF PublishPool, Goto
  <2> QED
    BY <1>1, <2>1 DEF SearchInv
<1>9. ASSUME NEW t \in Threads,
             PopBlock(t) \/ DestroyObject(t) \/ \E obj \in live : DestroyCall(t, obj)
      PROVE  SearchInv'
  BY <1>1, <1>9 DEF PopBlock, DestroyObject, DestroyCall, Goto, SearchInv, memory
<1>10. ASSUME NEW t \in Threads, PopNull(t) \/ SpinInMarkAsFree(t) PROVE SearchInv'
  BY <1>10 DEF PopNull, SpinInMarkAsFree, vars, SearchInv, memory, local
<1>11. ASSUME NEW t \in Threads,
              \/ CreateThrows(t) \/ PublishThrows(t) \/ ConstructObject(t)
              \/ ConstructThrows(t) \/ DestroyThrows(t)
       PROVE  SearchInv'
  BY <1>5, <1>11 DEF CreateThrows, PublishThrows, ConstructObject, ConstructThrows, DestroyThrows,
                     memory
<1>12. CASE Teardown
  BY <1>12 DEF Teardown, SearchInv, local
<1> QED
  BY <1>3, <1>4, <1>6, <1>7, <1>8, <1>9, <1>10, <1>11, <1>12 DEF Next, Construct, Destroy

\* destroy takes a pool's lock and is caught with it; every other step that
\* locks has unlocked before another thread can look.
LEMMA LockKeeps ==
  ASSUME IInv, LockInv, Next
  PROVE  LockInv'
<1>1. /\ pc \in [Threads -> Steps] /\ pool \in [Threads -> Created \cup {0}]
      /\ mtx \in [Created -> Threads \cup {NoThread}] /\ Len(free) \in Nat
      /\ Created = 1 .. Len(free) /\ NoThread \notin Threads
  BY PoolAssumption DEF IInv, TypeOK, Created
<1>2. ASSUME NEW t \in Threads, Others(t), UNCHANGED <<mtx, Created>>, pc[t] # "mark_as_free"
      PROVE  LockInv'
  BY <1>2 DEF LockInv, Others
<1>3. ASSUME NEW t \in Threads, Leave(t), pc[t] # "mark_as_free", UNCHANGED <<mtx, Created>>
      PROVE  LockInv'
  BY <1>2, <1>3, LeaveEffect DEF IInv
<1>4. ASSUME NEW t \in Threads, CreatePool(t) PROVE LockInv'
  <2>1. /\ Len(free') = Len(free) + 1 /\ mtx' = Append(mtx, NoThread) /\ pc[t] = "create"
        /\ pc' = [pc EXCEPT ![t] = "publish"] /\ pool' = [pool EXCEPT ![t] = Len(free) + 1]
    BY <1>4, Populated DEF CreatePool, Goto, IInv, TypeOK
  <2>2. mtx \in Seq(Threads \cup {NoThread}) /\ Len(mtx) = Len(free)
    BY <1>1
  <2>3. /\ \A p \in 1 .. Len(free) : mtx'[p] = mtx[p]
        /\ mtx'[Len(free) + 1] = NoThread
    BY <2>1, <2>2
  <2> SUFFICES ASSUME NEW p \in Created', mtx'[p] # NoThread
               PROVE  mtx'[p] \in Threads /\ pc'[mtx'[p]] = "mark_as_free" /\ pool'[mtx'[p]] = p
    BY DEF LockInv
  <2>4. p \in 1 .. Len(free)
    BY <1>1, <2>1, <2>3 DEF Created
  <2>5. mtx[p] \in Threads /\ pc[mtx[p]] = "mark_as_free" /\ pool[mtx[p]] = p
    BY <1>1, <2>3, <2>4 DEF LockInv
  <2> QED
    BY <1>1, <2>1, <2>3, <2>4, <2>5
<1>5. ASSUME NEW t \in Threads, DestroyObject(t) PROVE LockInv'
  <2>1. /\ mtx' = [mtx EXCEPT ![pool[t]] = t] /\ pc' = [pc EXCEPT ![t] = "mark_as_free"]
        /\ pc[t] = "destroy" /\ UNCHANGED <<pool, free>>
    BY <1>5 DEF DestroyObject, Goto
  <2>2. pool[t] \in Created
    BY <2>1 DEF IInv, PlaceInv, PlaceOf, Holding
  <2> QED
    BY <1>1, <2>1, <2>2 DEF LockInv, Created
<1>6. ASSUME NEW t \in Threads,
             \/ ConstructCall(t) \/ InspectPool(t) \/ PublishPool(t)
             \/ \E obj \in live : DestroyCall(t, obj)
      PROVE  LockInv'
  <2>1. Others(t) /\ UNCHANGED <<mtx, free>> /\ pc[t] # "mark_as_free"
    BY <1>1, <1>6 DEF ConstructCall, InspectPool, PublishPool, DestroyCall, Goto, Others, memory,
                      IInv, TypeOK
  <2> QED
    BY <1>2, <2>1 DEF Created
<1>7. ASSUME NEW t \in Threads, PopBlock(t) PROVE LockInv'
  <2>1. Others(t) /\ UNCHANGED mtx /\ pc[t] # "mark_as_free"
    BY <1>1, <1>7 DEF PopBlock, Goto, Others, IInv, TypeOK
  <2>2. Len(free') = Len(free)
    BY <1>7 DEF PopBlock, IInv, TypeOK
  <2> QED
    BY <1>2, <2>1, <2>2 DEF Created
<1>8. ASSUME NEW t \in Threads, NoPoolFree(t) PROVE LockInv'
  <2>1. CASE Leave(t)
    BY <1>3, <1>8, <2>1 DEF NoPoolFree, memory, Created
  <2>2. CASE Goto(t, "create") /\ UNCHANGED <<index, pool, block>>
    <3>1. Others(t) /\ UNCHANGED <<mtx, free>> /\ pc[t] # "mark_as_free"
      BY <1>1, <1>8, <2>2 DEF NoPoolFree, Goto, Others, memory
    <3> QED
      BY <1>2, <3>1 DEF Created
  <2> QED
    BY <1>8, <2>1, <2>2 DEF NoPoolFree
<1>9. ASSUME NEW t \in Threads,
             \/ CreateThrows(t) \/ PublishThrows(t) \/ ConstructObject(t)
             \/ ConstructThrows(t) \/ DestroyThrows(t)
      PROVE  LockInv'
  BY <1>3, <1>9 DEF CreateThrows, PublishThrows, ConstructObject, ConstructThrows, DestroyThrows,
                    memory, Created
<1>10. ASSUME NEW t \in Threads, PopNull(t) \/ SpinInMarkAsFree(t) PROVE LockInv'
  BY <1>10 DEF PopNull, SpinInMarkAsFree, vars, LockInv, memory, local, Created
<1>11. CASE Teardown
  BY <1>11 DEF Teardown, LockInv, local, Created
<1> QED
  BY <1>4, <1>5, <1>6, <1>7, <1>8, <1>9, <1>10, <1>11 DEF Next, Construct, Destroy

\* A step of one thread is a step of its call towards the end and leaves the
\* others where they are: a pool is published only while nobody searches.
LEMMA StepNears ==
  ASSUME IInv, SearchInv, Next, NEW u \in Threads
  PROVE  NearsEnd(u)
<1>1. /\ pc \in [Threads -> Steps] /\ index \in [Threads -> Nat] /\ Len(pools) \in Nat
      /\ pool \in [Threads -> Created \cup {0}] /\ block \in [Threads -> Blocks]
      /\ pools \in Seq(Created)
  BY DEF IInv, TypeOK
<1>2. ASSUME UNCHANGED <<pc[u], index[u], pool[u], block[u]>>,
             pc[u] = "find" => UNCHANGED pools
      PROVE  NearsEnd(u)
  BY <1>2 DEF NearsEnd, Left
<1>3. ASSUME NEW t \in Threads, Others(t), UNCHANGED pools,
             pc[t] \in Constructing => NearsEnd(t)
      PROVE  NearsEnd(u)
  BY <1>2, <1>3 DEF Others, NearsEnd
<1>4. ASSUME pc[u] = "find" PROVE Len(pools) - index[u] \in Nat
  BY <1>1, <1>4 DEF SearchInv
<1>5. ASSUME NEW t \in Threads, Leave(t), UNCHANGED pools PROVE NearsEnd(u)
  <2>1. Others(t) /\ pc'[t] = "idle"
    BY <1>5, LeaveEffect DEF IInv
  <2>2. CASE t = u
    <3>1. Left(u)' = 0
      BY <2>1, <2>2 DEF Left
    <3>2. pc[u] \in Constructing => Left(u) > 0
      <4>1. CASE pc[u] = "find"
        BY <1>1, <1>4, <4>1 DEF Left
      <4>2. CASE pc[u] # "find"
        BY <4>2 DEF Left, Constructing
      <4> QED
        BY <4>1, <4>2
    <3> QED
      BY <3>1, <3>2 DEF NearsEnd
  <2>3. CASE t # u
    BY <1>2, <1>5, <2>1, <2>3 DEF Others
  <2> QED
    BY <2>2, <2>3
<1>6. ASSUME NEW t \in Threads, InspectPool(t) PROVE NearsEnd(u)
  <2>1. /\ pc[t] = "find" /\ index[t] < Len(pools) /\ UNCHANGED <<pools, block>>
        /\ \/ pc' = [pc EXCEPT ![t] = "pop"] /\ UNCHANGED index
              /\ \E p : pool' = [pool EXCEPT ![t] = p]
           \/ index' = [index EXCEPT ![t] = index[t] + 1] /\ UNCHANGED <<pc, pool>>
    BY <1>6 DEF InspectPool, Goto, memory
  <2>2. CASE t = u
    BY <1>1, <1>4, <2>1, <2>2 DEF NearsEnd, Left
  <2>3. CASE t # u
    BY <1>1, <1>2, <2>1, <2>3
  <2> QED
    BY <2>2, <2>3
<1>7. ASSUME NEW t \in Threads, NoPoolFree(t) PROVE NearsEnd(u)
  <2>1. CASE Leave(t)
    BY <1>5, <1>7, <2>1 DEF NoPoolFree, memory
  <2>2. CASE Goto(t, "create") /\ UNCHANGED <<index, pool, block>>
    <3>1. /\ pc[t] = "find" /\ pc' = [pc EXCEPT ![t] = "create"]
          /\ UNCHANGED <<pools, index, pool, block>>
      BY <1>7, <2>2 DEF NoPoolFree, Goto, memory
    <3>2. CASE t = u
      BY <1>1, <1>4, <3>1, <3>2 DEF NearsEnd, Left
    <3>3. CASE t # u
      BY <1>1, <1>2, <3>1, <3>3
    <3> QED
      BY <3>2, <3>3
  <2> QED
    BY <1>7, <2>1, <2>2 DEF NoPoolFree
<1>8. ASSUME NEW t \in Threads, CreatePool(t) PROVE NearsEnd(u)
  <2>1. /\ pc[t] = "create" /\ pc' = [pc EXCEPT ![t] = "publish"]
        /\ pool' = [pool EXCEPT ![t] = Len(free) + 1] /\ UNCHANGED <<pools, index, block>>
    BY <1>8 DEF CreatePool, Goto
  <2>2. CASE t = u
    BY <1>1, <2>1, <2>2 DEF NearsEnd, Left
  <2>3. CASE t # u
    BY <1>1, <1>2, <2>1, <2>3
  <2> QED
    BY <2>2, <2>3
<1>9. ASSUME NEW t \in Threads, PublishPool(t) PROVE NearsEnd(u)
  <2>1. /\ pc[t] = "publish" /\ pc' = [pc EXCEPT ![t] = "pop"] /\ pc[u] # "find"
        /\ index' = [index EXCEPT ![t] = Len(pools)] /\ UNCHANGED <<pool, block>>
    BY <1>9 DEF PublishPool, Goto
  <2>2. CASE t = u
    BY <1>1, <2>1, <2>2 DEF NearsEnd, Left
  <2>3. CASE t # u
    BY <1>1, <1>2, <2>1, <2>3
  <2> QED
    BY <2>2, <2>3
<1>10. ASSUME NEW t \in Threads, PopBlock(t) PROVE NearsEnd(u)
  <2>1. /\ pc[t] = "pop" /\ pc' = [pc EXCEPT ![t] = "construct"]
        /\ block' = [block EXCEPT ![t] = Head(free[pool[t]])] /\ UNCHANGED <<pools, index, pool>>
    BY <1>10 DEF PopBlock, Goto
  <2>2. CASE t = u
    BY <1>1, <2>1, <2>2 DEF NearsEnd, Left
  <2>3. CASE t # u
    BY <1>1, <1>2, <2>1, <2>3
  <2> QED
    BY <2>2, <2>3
<1>11. ASSUME NEW t \in Threads,
              ConstructCall(t) \/ DestroyObject(t) \/ \E obj \in live : DestroyCall(t, obj)
       PROVE  NearsEnd(u)
  <2>1. Others(t) /\ UNCHANGED pools /\ pc[t] \notin Constructing
    BY <1>1, <1>11 DEF ConstructCall, DestroyObject, DestroyCall, Goto, Others, Constructing, memory
  <2> QED
    BY <1>3, <2>1
<1>12. ASSUME NEW t \in Threads, PopNull(t) \/ SpinInMarkAsFree(t) PROVE NearsEnd(u)
  BY <1>2, <1>12 DEF PopNull, SpinInMarkAsFree, vars, memory, local
<1>13. ASSUME NEW t \in Threads,
              \/ CreateThrows(t) \/ PublishThrows(t) \/ ConstructObject(t)
              \/ ConstructThrows(t) \/ DestroyThrows(t)
       PROVE  NearsEnd(u)
  BY <1>5, <1>13 DEF CreateThrows, PublishThrows, ConstructObject, ConstructThrows, DestroyThrows,
                     memory
<1>14. CASE Teardown
  BY <1>2, <1>14 DEF Teardown, local
<1> QED
  BY <1>6, <1>7, <1>8, <1>9, <1>10, <1>11, <1>12, <1>13, <1>14 DEF Next, Construct, Destroy

\* A construct, whatever the other threads do, comes nearer to its end with every
\* step of its thread and is never sent back: find_or_create_pool looks at no pool
\* twice, since none is added to the vector while a thread searches it (lines 81-103).
THEOREM ConstructNearsEnd == Spec => [][\A t \in Threads : NearsEnd(t)]_vars
<1>1. Init => SearchInv
  BY DEF Init, SearchInv
<1>2. IInv /\ SearchInv /\ [Next]_vars => SearchInv'
  <2>1. SearchInv /\ UNCHANGED vars => SearchInv'
    BY DEF SearchInv, vars, local, memory
  <2> QED
    BY <2>1, SearchKeeps
<1>3. IInv /\ SearchInv /\ [Next]_vars => [\A t \in Threads : NearsEnd(t)]_vars
  BY StepNears
<1> QED
  BY <1>1, <1>2, <1>3, Invariance, PTL DEF Spec

\* A thread that waits for a pool's lock waits for one that is caught in
\* mark_as_free (line 129); no order of construct calls blocks another.
THEOREM OnlyDestroyHolds == Spec => []LockInv
<1>1. Init => LockInv
  BY DEF Init, LockInv, Created
<1>2. IInv /\ LockInv /\ [Next]_vars => LockInv'
  <2>1. LockInv /\ UNCHANGED vars => LockInv'
    BY DEF LockInv, Created, vars, local, memory
  <2> QED
    BY <2>1, LockKeeps
<1> QED
  BY <1>1, <1>2, Invariance, PTL DEF Spec

-----------------------------------------------------------------------------
(* Searches that do not overlap.  Both races that break the contract of      *)
(* find_or_create_pool need two threads between find and pop; without them   *)
(* it holds, whatever else goes on.                                          *)

Searching == {"find", "create", "publish", "pop"}

Apart ==
  \A t, u \in Threads : pc[t] \in Searching /\ pc[u] \in Searching => t = u

ApartSpec == Init /\ [][Next /\ Apart']_vars

\* What the searching thread has seen is still so.
SeenOf(t) ==
  /\ pc[t] \in {"create", "publish"} => Len(pools) < MaxPools
  /\ pc[t] = "publish" => pool[t] \in Created /\ free[pool[t]] # <<>>
  /\ pc[t] = "pop" => free[pool[t]] # <<>>
ApartInv ==
  /\ Len(pools) <= MaxPools /\ phase # "crashed"
  /\ Apart /\ \A t \in Threads : SeenOf(t)

\* One search at a time keeps what it has seen.
LEMMA ApartKeeps ==
  ASSUME IInv, ApartInv, Next, Apart'
  PROVE  ApartInv'
<1>1. /\ pc \in [Threads -> Steps] /\ index \in [Threads -> Nat] /\ Len(pools) \in Nat
      /\ pool \in [Threads -> Created \cup {0}] /\ MaxPools \in Nat \ {0}
      /\ pools \in Seq(Created) /\ free \in Seq(Seq(Blocks)) /\ Len(free) \in Nat
      /\ Created = 1 .. Len(free)
  BY PoolAssumption DEF IInv, TypeOK, Created
<1>2. phase = "up" /\ Len(pools) <= MaxPools
  BY DEF Next, ApartInv
<1>3. ASSUME NEW t \in Threads, Others(t), UNCHANGED <<pools, free>>, SeenOf(t)',
             phase' # "crashed"
      PROVE  ApartInv'
  <2>1. \A u \in Threads \ {t} : SeenOf(u)'
    BY <1>3 DEF ApartInv, SeenOf, Others, Created
  <2> QED
    BY <1>2, <1>3, <2>1 DEF ApartInv
<1>4. ASSUME NEW t \in Threads, Leave(t), UNCHANGED <<pools, free>>, phase' = phase
      PROVE  ApartInv'
  <2>1. Others(t) /\ pc'[t] = "idle"
    BY <1>4, LeaveEffect DEF IInv
  <2> QED
    BY <1>2, <1>3, <1>4, <2>1 DEF SeenOf
<1>5. ASSUME NEW t \in Threads, ConstructCall(t) \/ DestroyObject(t) PROVE ApartInv'
  <2>1. /\ Others(t) /\ UNCHANGED <<pools, free>> /\ phase' = phase
        /\ pc'[t] \in {"find", "mark_as_free"}
    BY <1>1, <1>5 DEF ConstructCall, DestroyObject, Goto, Others, memory, ghosts
  <2> QED
    BY <1>2, <1>3, <2>1 DEF SeenOf
<1>6. ASSUME NEW t \in Threads, NEW obj \in live, DestroyCall(t, obj) PROVE ApartInv'
  <2>1. /\ Others(t) /\ UNCHANGED <<pools, free>> /\ phase' = phase /\ pc'[t] = "destroy"
    BY <1>1, <1>6 DEF DestroyCall, Goto, Others, memory
  <2> QED
    BY <1>2, <1>3, <2>1 DEF SeenOf
<1>7. ASSUME NEW t \in Threads, InspectPool(t) PROVE ApartInv'
  <2>1. UNCHANGED <<pools, free>> /\ phase' = phase /\ Others(t)
    BY <1>1, <1>7 DEF InspectPool, Goto, Others, memory, ghosts
  <2>2. \/ pc'[t] = "pop" /\ free[pool'[t]] # <<>>
        \/ pc'[t] = "find"
    BY <1>1, <1>7 DEF InspectPool, Goto
  <2> QED
    BY <1>2, <1>3, <2>1, <2>2 DEF SeenOf
<1>8. ASSUME NEW t \in Threads, NoPoolFree(t) PROVE ApartInv'
  <2>1. CASE Leave(t)
    BY <1>4, <1>8, <2>1 DEF NoPoolFree, memory, ghosts
  <2>2. CASE Len(pools) # MaxPools /\ Goto(t, "create") /\ UNCHANGED <<index, pool, block>>
    <3>1. /\ UNCHANGED <<pools, free>> /\ phase' = phase /\ Others(t) /\ pc'[t] = "create"
      BY <1>1, <1>8, <2>2 DEF NoPoolFree, Goto, Others, memory, ghosts
    <3>2. Len(pools) < MaxPools
      BY <1>1, <1>2, <2>2
    <3> QED
      BY <1>2, <1>3, <3>1, <3>2 DEF SeenOf
  <2> QED
    BY <1>8, <2>1, <2>2 DEF NoPoolFree
<1>9. ASSUME NEW t \in Threads, CreatePool(t) PROVE ApartInv'
  <2>1. /\ free' = Append(free, populate_list) /\ UNCHANGED pools /\ phase' = phase
        /\ pc[t] = "create" /\ pc'[t] = "publish" /\ pool'[t] = Len(free) + 1 /\ Others(t)
    BY <1>1, <1>9 DEF CreatePool, Goto, Others, ghosts
  <2>2. /\ Len(free') = Len(free) + 1 /\ free'[Len(free) + 1] = populate_list
        /\ populate_list # <<>>
    BY <1>1, <2>1, Populated, PoolAssumption
  <2>3. SeenOf(t)'
    BY <1>1, <2>1, <2>2 DEF SeenOf, ApartInv, Created
  <2>4. ASSUME NEW u \in Threads \ {t} PROVE SeenOf(u)'
    BY <2>1, <2>4 DEF ApartInv, Apart, Searching, SeenOf, Others
  <2> QED
    BY <1>2, <2>1, <2>3, <2>4 DEF ApartInv
<1>10. ASSUME NEW t \in Threads, PublishPool(t) PROVE ApartInv'
  <2>1. /\ pools' = Append(pools, pool[t]) /\ UNCHANGED <<free, pool>> /\ phase' = phase
        /\ pc[t] = "publish" /\ pc'[t] = "pop" /\ Others(t)
    BY <1>1, <1>10 DEF PublishPool, Goto, Others, ghosts
  <2>2. Len(pools) < MaxPools /\ pool[t] \in Created /\ free[pool[t]] # <<>>
    BY <2>1 DEF ApartInv, SeenOf
  <2>3. Len(pools') = Len(pools) + 1 /\ Len(pools') <= MaxPools
    BY <1>1, <2>1, <2>2
  <2>4. ASSUME NEW u \in Threads \ {t} PROVE SeenOf(u)'
    BY <2>1, <2>4 DEF ApartInv, Apart, Searching, SeenOf, Others
  <2>5. SeenOf(t)'
    BY <2>1, <2>2 DEF SeenOf
  <2> QED
    BY <1>2, <2>1, <2>3, <2>4, <2>5 DEF ApartInv
<1>11. ASSUME NEW t \in Threads, PopBlock(t) PROVE ApartInv'
  <2>1. /\ UNCHANGED pools /\ phase' = phase /\ pc[t] = "pop" /\ pc'[t] = "construct" /\ Others(t)
    BY <1>1, <1>11 DEF PopBlock, Goto, Others, ghosts
  <2>2. ASSUME NEW u \in Threads \ {t} PROVE SeenOf(u)'
    BY <2>1, <2>2 DEF ApartInv, Apart, Searching, SeenOf, Others
  <2>3. SeenOf(t)'
    BY <2>1 DEF SeenOf
  <2> QED
    BY <1>2, <2>1, <2>2, <2>3 DEF ApartInv
<1>12. ASSUME NEW t \in Threads, PopNull(t) PROVE ApartInv'
  BY <1>12 DEF PopNull, ApartInv, SeenOf
<1>13. ASSUME NEW t \in Threads,
              \/ CreateThrows(t) \/ PublishThrows(t) \/ ConstructObject(t)
              \/ ConstructThrows(t) \/ DestroyThrows(t)
       PROVE  ApartInv'
  BY <1>4, <1>13 DEF CreateThrows, PublishThrows, ConstructObject, ConstructThrows, DestroyThrows,
                     memory, ghosts
<1>14. ASSUME NEW t \in Threads, SpinInMarkAsFree(t) PROVE ApartInv'
  BY <1>14 DEF SpinInMarkAsFree, vars, memory, local, ghosts, ApartInv, SeenOf, Apart, Created
<1>15. CASE Teardown
  BY <1>1, <1>15 DEF Teardown, ApartInv, SeenOf, local
<1> QED
  BY <1>5, <1>6, <1>7, <1>8, <1>9, <1>10, <1>11, <1>12, <1>13, <1>14, <1>15
     DEF Next, Construct, Destroy

\* With one search at a time the limit is kept (line 86) and the pool that
\* find_or_create_pool returns has a free block (line 71).
THEOREM ApartInvariance == ApartSpec => []ApartInv
<1>1. Init => ApartInv
  BY PoolAssumption DEF Init, ApartInv, Apart, Searching, SeenOf
<1>2. IInv /\ ApartInv /\ [Next /\ Apart']_vars => ApartInv'
  <2>1. ApartInv /\ UNCHANGED vars => ApartInv'
    BY DEF ApartInv, SeenOf, Apart, Created, vars, local, memory, ghosts
  <2> QED
    BY <2>1, ApartKeeps
<1>3. ApartSpec => Spec
  BY PTL DEF ApartSpec, Spec
<1> QED
  BY <1>1, <1>2, <1>3, Invariance, PTL DEF ApartSpec

\* max_pools is a limit unless two searches overlap (pool_options.hpp:12).
THEOREM ApartWithinLimit == ApartSpec => []WithinMaxPools
<1>1. ApartInv => WithinMaxPools
  BY DEF ApartInv, WithinMaxPools
<1> QED
  BY <1>1, ApartInvariance, PTL

\* construct never dereferences a null head unless two searches overlap.
THEOREM ApartFindsBlock == ApartSpec => []FoundPoolHasBlock
<1>1. ApartInv => FoundPoolHasBlock
  BY DEF ApartInv, FoundPoolHasBlock
<1> QED
  BY <1>1, ApartInvariance, PTL

\* Both halves at once: the overlap of two searches is the whole cause of the
\* violation of pool_search, whichever half breaks first.
THEOREM ApartKeepsContract == ApartSpec => []FindOrCreateContract
BY ApartWithinLimit, ApartFindsBlock, PTL DEF FindOrCreateContract

=============================================================================
