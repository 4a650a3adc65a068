------------------------ MODULE PoolFreeListsProofs ------------------------
(***************************************************************************)
(* Every pool of the manager implements FreeList, for any finite set of    *)
(* threads, pools of any capacity and any number of calls.                 *)
(***************************************************************************)
EXTENDS PoolFreeLists, PoolManagerProofs

\* Each block once.
Unrepeated(list) == \A i, j \in DOMAIN list : list[i] = list[j] => i = j

\* A block on the list points to the next one, the last and those off the list
\* to nothing.
LEMMA LinkFacts ==
  ASSUME NEW list \in Seq(Blocks), Unrepeated(list)
  PROVE  /\ \A i \in 1 .. Len(list) :
              Link(list, list[i]) = IF i < Len(list) THEN list[i + 1] ELSE NullPtr
         /\ \A b : (\A i \in 1 .. Len(list) : list[i] # b) => Link(list, b) = NullPtr
<1>1. Len(list) \in Nat /\ DOMAIN list = 1 .. Len(list)
  OBVIOUS
<1>2. ASSUME NEW i \in 1 .. Len(list)
      PROVE  Link(list, list[i]) = IF i < Len(list) THEN list[i + 1] ELSE NullPtr
  <2> DEFINE k == CHOOSE j \in 1 .. Len(list) : list[j] = list[i]
  <2>1. k \in 1 .. Len(list) /\ list[k] = list[i]
    OBVIOUS
  <2>2. k = i
    BY <1>1, <2>1 DEF Unrepeated
  <2>3. (\E j \in 1 .. Len(list) - 1 : list[j] = list[i]) <=> i < Len(list)
    BY <1>1 DEF Unrepeated
  <2> QED
    BY <2>2, <2>3 DEF Link
<1>3. ASSUME NEW b, \A i \in 1 .. Len(list) : list[i] # b
      PROVE  Link(list, b) = NullPtr
  BY <1>1, <1>3 DEF Link
<1> QED
  BY <1>2, <1>3

\* populate_list links the blocks by address (pool_manager.hpp, populate_list).
LEMMA NewList ==
  /\ First(populate_list) = 0
  /\ OffList(populate_list) = {}
  /\ [b \in Blocks |-> Link(populate_list, b)]
       = [b \in Blocks |-> IF b + 1 < Capacity THEN b + 1 ELSE NullPtr]
<1> USE Populated, PoolAssumption
<1>1. Unrepeated(populate_list)
  BY DEF Unrepeated
<1>2. First(populate_list) = 0
  BY DEF First
<1>3. OffList(populate_list) = {}
  <2>1. ASSUME NEW b \in Blocks PROVE \E i \in DOMAIN populate_list : populate_list[i] = b
    <3>1. b + 1 \in 1 .. Capacity
      BY DEF Blocks
    <3>2. populate_list[b + 1] = b
      BY <3>1 DEF Blocks
    <3> QED
      BY <3>1, <3>2
  <2> QED
    BY <2>1 DEF OffList
<1>4. ASSUME NEW b \in Blocks
      PROVE  Link(populate_list, b) = IF b + 1 < Capacity THEN b + 1 ELSE NullPtr
  <2>1. b + 1 \in 1 .. Capacity /\ populate_list[b + 1] = b
    BY DEF Blocks
  <2>2. Link(populate_list, b) =
          IF b + 1 < Capacity THEN populate_list[b + 1 + 1] ELSE NullPtr
    BY <1>1, <2>1, LinkFacts
  <2>3. b + 1 < Capacity => populate_list[b + 1 + 1] = b + 1
    BY <2>1
  <2> QED
    BY <2>2, <2>3
<1> QED
  BY <1>2, <1>3, <1>4

\* What unlinking the head does to the links (pool_manager.hpp, construct).
LEMMA Unlink ==
  ASSUME NEW list \in Seq(Blocks), Unrepeated(list), list # <<>>
  PROVE  /\ First(list) # NullPtr /\ First(list) \in Blocks
         /\ First(Tail(list)) = Link(list, First(list))
         /\ OffList(Tail(list)) = OffList(list) \cup {First(list)}
         /\ \A b \in Blocks : Link(Tail(list), b)
              = IF b = First(list) THEN NullPtr ELSE Link(list, b)
<1> DEFINE rest == Tail(list)
<1>1. /\ Len(list) \in Nat /\ Len(list) > 0 /\ DOMAIN list = 1 .. Len(list)
      /\ rest \in Seq(Blocks) /\ Len(rest) = Len(list) - 1
      /\ DOMAIN rest = 1 .. Len(list) - 1
      /\ \A i \in 1 .. Len(list) - 1 : rest[i] = list[i + 1]
  BY EmptySeq, HeadTailProperties
<1> HIDE DEF rest
<1>2. First(list) = list[1] /\ First(list) \in Blocks /\ First(list) # NullPtr
  <2>1. First(list) = list[1] /\ list[1] \in Blocks
    BY <1>1, ElementOfSeq DEF First
  <2> QED
    BY <2>1, PoolAssumption DEF NullPtr, Blocks
<1>3. Unrepeated(rest)
  BY <1>1 DEF Unrepeated
<1>4. First(rest) = Link(list, First(list))
  <2>1. Link(list, list[1]) = IF 1 < Len(list) THEN list[1 + 1] ELSE NullPtr
    BY <1>1, LinkFacts
  <2>2. CASE Len(list) = 1
    <3>1. rest = <<>>
      BY <1>1, <2>2, EmptySeq
    <3> QED
      BY <1>2, <2>1, <2>2, <3>1 DEF First
  <2>3. CASE Len(list) > 1
    <3>1. rest # <<>> /\ Head(rest) = list[2]
      BY <1>1, <2>3
    <3> QED
      BY <1>2, <2>1, <2>3, <3>1 DEF First
  <2> QED
    BY <1>1, <2>2, <2>3
<1>5. OffList(rest) = OffList(list) \cup {First(list)}
  <2>1. ASSUME NEW b \in Blocks
        PROVE  (\E i \in DOMAIN list : list[i] = b)
                 <=> b = list[1] \/ \E i \in DOMAIN rest : rest[i] = b
    <3>1. ASSUME NEW i \in DOMAIN list, i # 1
          PROVE  i - 1 \in DOMAIN rest /\ rest[i - 1] = list[i]
      BY <1>1, <3>1
    <3>2. \A i \in DOMAIN rest : i + 1 \in DOMAIN list
      BY <1>1
    <3> QED
      BY <1>1, <3>1, <3>2
  <2>2. \A i \in DOMAIN rest : rest[i] # list[1]
    BY <1>1 DEF Unrepeated
  <2> QED
    BY <1>2, <2>1, <2>2 DEF OffList
<1>6. ASSUME NEW b \in Blocks
      PROVE  Link(rest, b) = IF b = First(list) THEN NullPtr ELSE Link(list, b)
  <2>1. CASE b = list[1]
    <3>1. \A i \in 1 .. Len(rest) : rest[i] # b
      BY <1>1, <2>1 DEF Unrepeated
    <3> QED
      BY <1>1, <1>2, <1>3, <2>1, <3>1, LinkFacts
  <2>2. CASE b # list[1] /\ \E i \in 1 .. Len(list) : list[i] = b
    <3>1. PICK i \in 1 .. Len(list) : list[i] = b
      BY <2>2
    <3>2. i - 1 \in 1 .. Len(rest) /\ rest[i - 1] = b
      BY <1>1, <2>2, <3>1
    <3>3. Link(list, b) = IF i < Len(list) THEN list[i + 1] ELSE NullPtr
      BY <3>1, LinkFacts
    <3>4. Link(rest, b) = IF i - 1 < Len(rest) THEN rest[(i - 1) + 1] ELSE NullPtr
      BY <1>1, <1>3, <3>2, LinkFacts
    <3>5. (i - 1) + 1 = i /\ (i - 1 < Len(rest) <=> i < Len(list))
      BY <1>1
    <3>6. i < Len(list) => rest[i] = list[i + 1]
      BY <1>1
    <3> QED
      BY <1>2, <2>2, <3>3, <3>4, <3>5, <3>6
  <2>3. CASE \A i \in 1 .. Len(list) : list[i] # b
    <3>1. \A i \in 1 .. Len(rest) : rest[i] # b
      BY <1>1, <2>3
    <3>2. b # First(list)
      BY <1>1, <1>2, <2>3
    <3> QED
      BY <1>1, <1>3, <2>3, <3>1, <3>2, LinkFacts
  <2> QED
    BY <2>1, <2>2, <2>3
<1> QED
  BY <1>2, <1>4, <1>5, <1>6 DEF rest

\* A new pool starts with the list populate_list builds, whenever it is created.
LEMMA ListsStart ==
  ASSUME Init, NEW p \in 1 .. Calls
  PROVE  List(p)!Init
<1>1. ListOf(p) = populate_list
  BY PoolAssumption DEF Init, ListOf, Created
<1>2. List(p)!Blocks = Blocks
  BY DEF List!Blocks, Blocks
<1> QED
  BY <1>1, <1>2, NewList DEF List!Init, populate_list

\* Creating a pool leaves every list as it is, or as it will be.
LEMMA CreateLeavesLists ==
  ASSUME TypeOK, NEW t \in Threads, CreatePool(t), NEW p \in 1 .. Calls
  PROVE  UNCHANGED ListOf(p)
<1>1. free \in Seq(Seq(Blocks)) /\ free' = Append(free, populate_list)
  BY DEF TypeOK, CreatePool
<1>2. /\ Len(free) \in Nat /\ Len(free') = Len(free) + 1
      /\ \A i \in 1 .. Len(free) : free'[i] = free[i]
      /\ free'[Len(free) + 1] = populate_list
  BY <1>1, Populated, AppendProperties
<1>3. CASE p \in Created
  BY <1>2, <1>3 DEF ListOf, Created
<1>4. CASE p = Len(free) + 1
  BY <1>2, <1>4 DEF ListOf, Created
<1>5. CASE p > Len(free) + 1
  BY <1>2, <1>5, PoolAssumption DEF ListOf, Created, populate_list
<1> QED
  BY <1>2, <1>3, <1>4, <1>5, PoolAssumption DEF Created

\* construct's unlinking is a Pop of the list of the pool it found, and of no
\* other; a searching thread's view of the head does not matter.
LEMMA PopIsPop ==
  ASSUME IInv, NEW t \in Threads, PopBlock(t), NEW p \in 1 .. Calls
  PROVE  UNCHANGED ListOf(p) \/ List(p)!Pop(NullPtr)
<1> PICK q : q = pool[t]
  OBVIOUS
<1>1. /\ q \in Created /\ free \in Seq(Seq(Blocks)) /\ free[q] # <<>>
      /\ free' = [free EXCEPT ![q] = Tail(free[q])]
  <2>1. /\ pools \in Seq(Created) /\ index[t] \in Nat /\ index[t] < Len(pools)
        /\ pools[index[t] + 1] = q
    BY DEF IInv, TypeOK, PopBlock, PlaceInv, PlaceOf
  <2>2. q \in Created
    BY <2>1, ElementOfSeq
  <2> QED
    BY <2>2 DEF IInv, TypeOK, PopBlock
<1>2. /\ DOMAIN free = Created /\ Created' = Created
      /\ free[q] \in Seq(Blocks) /\ Unrepeated(free[q])
  BY <1>1 DEF IInv, ListInv, Created, Unrepeated
<1>3. CASE p # q
  BY <1>1, <1>2, <1>3 DEF ListOf, populate_list
<1>4. CASE p = q
  <2>1. ListOf(p) = free[q] /\ ListOf(p)' = Tail(free[q])
    BY <1>1, <1>2, <1>4 DEF ListOf
  <2> QED
    BY <1>1, <1>2, <2>1, Unlink, ZenonT(40) DEF List!Pop
<1> QED
  BY <1>3, <1>4

\* No other step touches a list: destroy never reaches the walk of mark_as_free.
LEMMA ListsStep ==
  ASSUME IInv, Next, NEW p \in 1 .. Calls
  PROVE  UNCHANGED ListOf(p) \/ List(p)!Next
<1>1. ASSUME NEW t \in Threads, PopBlock(t) PROVE UNCHANGED ListOf(p) \/ List(p)!Next
  BY <1>1, PopIsPop DEF List!Next, List!Links
<1>2. ASSUME NEW t \in Threads, CreatePool(t) PROVE UNCHANGED ListOf(p)
  BY <1>2, CreateLeavesLists DEF IInv
<1>3. ASSUME UNCHANGED free PROVE UNCHANGED ListOf(p)
  BY <1>3 DEF ListOf, Created, populate_list
<1>4. \/ UNCHANGED free
      \/ \E t \in Threads : PopBlock(t) \/ CreatePool(t)
  BY DEF Next, Construct, Destroy, ConstructCall, InspectPool, NoPoolFree, CreateThrows,
         PublishPool, PublishThrows, PopNull, ConstructObject, ConstructThrows, DestroyCall,
         DestroyObject, DestroyThrows, SpinInMarkAsFree, Teardown, memory, vars
<1> QED
  BY <1>1, <1>2, <1>3, <1>4

\* However many threads construct and destroy, and whatever throws, every pool is
\* populated, unlinked and left alone as its free list on its own would be
\* (pool_manager.hpp, populate_list, construct and mark_as_free).
THEOREM EveryPoolIsAList == Spec => PoolsAreFreeLists
<1>1. Init => \A p \in 1 .. Calls : List(p)!Init
  BY ListsStart
<1>2. IInv /\ [Next]_vars => [\A p \in 1 .. Calls : UNCHANGED ListOf(p) \/ List(p)!Next]_vars
  BY ListsStep
<1> QED
  BY <1>1, <1>2, Invariance, PTL DEF Spec, PoolsAreFreeLists

=============================================================================
