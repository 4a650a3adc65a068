------------------------- MODULE SharedMemoryProofs -------------------------
(***************************************************************************)
(* The keyed store's invariants and its refinement of KeyedStore, for any  *)
(* finite set of threads, any keys and any number of calls.                *)
(***************************************************************************)
EXTENDS SharedMemory, FiniteSetTheorems, TLAPS

Owning == {"construct", "reenter", "erase", "emplace"}
Busy   == Owning \cup {"allocate"}

\* Where an object can be: in the vector, in the hands of the thread that holds
\* the lock and is at one of steps, or left behind by a step that threw.
Stored(o) == \E i \in DOMAIN memory : memory[i].object = o
Making(o, steps) ==
  writer # NoThread /\ pc[writer] \in steps /\ data[writer].object = o
Orphan(step, o) == <<step, o>> \in threw

\* Exactly the thread that holds memory_lock is between lock and unlock.
LockInv == \A t \in Threads : pc[t] \in Busy <=> writer = t

\* What a thread knows at each step: the key it found missing is still missing
\* while it holds the lock, and its meta_data owns the object only at the end.
KnownAt(t) ==
  /\ pc[t] # "idle" => key[t] \in Keys
  /\ pc[t] \notin Owning => data[t] = Empty
  /\ pc[t] \in Owning =>
       /\ data[t].key = key[t] /\ data[t].object \in 1 .. allocated
       /\ data[t].dtor = IF pc[t] = "emplace" THEN data[t].object ELSE Null
  /\ pc[t] \in Busy => \A i \in DOMAIN memory : memory[i].key # key[t]
LocalInv == \A t \in Threads : KnownAt(t)

\* Entries own their objects, and neither a key nor an object is there twice.
EntryInv ==
  /\ \A i \in DOMAIN memory :
       /\ memory[i].key \in Keys /\ memory[i].object \in 1 .. allocated
       /\ memory[i].dtor = memory[i].object
  /\ \A i, j \in DOMAIN memory :
       (memory[i].key = memory[j].key \/ memory[i].object = memory[j].object) => i = j

\* An object is in one place only, and then it has not been destroyed.
PlaceOf(o) ==
  /\ Stored(o) => ~Making(o, Owning) /\ ~Orphan("erase", o) /\ ~Orphan("construct", o)
  /\ Making(o, Owning) => ~Orphan("erase", o) /\ ~Orphan("construct", o)
  /\ Orphan("erase", o) => ~Orphan("construct", o)
  /\ (Stored(o) \/ Making(o, Owning) \/ Orphan("erase", o) \/ Orphan("construct", o))
       => o <= allocated /\ destroyed[o] = 0
  /\ destroyed[o] <= 1
  /\ o > allocated => destroyed[o] = 0
PlaceInv == \A o \in Objects : PlaceOf(o)

\* The heap holds what can be found in one of those places, and nothing else.
HeapInv ==
  phase # "gone" =>
    \A o \in Objects :
      /\ o \in alive <=> \/ Stored(o) \/ Making(o, {"erase", "emplace"})
                         \/ Orphan("erase", o)
      /\ o \in storage <=> \/ Stored(o) \/ Making(o, Owning)
                           \/ Orphan("erase", o) \/ Orphan("construct", o)
      /\ o \in dtors <=> Stored(o) \/ Making(o, {"emplace"})

\* Until the destruction, what callers were given is what the vector holds.
ReturnInv ==
  /\ SameObjectForKey
  /\ phase # "gone" =>
       \A r \in returned : \E i \in DOMAIN memory :
         r[1] = memory[i].key /\ r[2] = memory[i].object

\* ~shared_memory runs when nobody is inside.
GoneInv ==
  phase = "gone" =>
    LeavesOnlyOrphans /\ memory = <<>> /\ \A t \in Threads : pc[t] = "idle"

\* A call allocates at most one object, and not before it has been counted.
Pending == {t \in Threads : pc[t] \in {"upgrade", "allocate"}}
CountInv == allocated + Cardinality(Pending) <= calls

IInv ==
  /\ TypeOK /\ LockInv /\ LocalInv /\ EntryInv /\ PlaceInv /\ HeapInv
  /\ ReturnInv /\ GoneInv /\ CountInv

-----------------------------------------------------------------------------
(* The lookup and the vector *)

\* read, of any vector.
ReadIn(m, k) ==
  IF \E i \in DOMAIN m : m[i].key = k
  THEN LET i == CHOOSE i \in DOMAIN m :
                  m[i].key = k /\ \A j \in 1 .. i - 1 : m[j].key # k
       IN  m[i].object
  ELSE Null

\* The linear search of read finds the entry of a key when keys are distinct.
LEMMA ReadFinds ==
  ASSUME NEW S, NEW m \in Seq(S), NEW i \in DOMAIN m,
         \A j, l \in DOMAIN m : m[j].key = m[l].key => j = l
  PROVE  ReadIn(m, m[i].key) = m[i].object
<1> DEFINE P(n) == m[n].key = m[i].key /\ \A j \in 1 .. n - 1 : m[j].key # m[i].key
<1>1. DOMAIN m = 1 .. Len(m) /\ Len(m) \in Nat
  OBVIOUS
<1>2. P(i)
  BY <1>1
<1>3. (CHOOSE n \in DOMAIN m : P(n)) = i
  <2>1. (CHOOSE n \in DOMAIN m : P(n)) \in DOMAIN m /\ P(CHOOSE n \in DOMAIN m : P(n))
    BY <1>2
  <2> QED
    BY <2>1
<1> QED
  BY <1>3 DEF ReadIn

\* What get and the two lookups of get_or_construct see: the object of the
\* key's entry, or nullptr when there is none.
LEMMA ReadIs ==
  ASSUME TypeOK, EntryInv
  PROVE  /\ \A i \in DOMAIN memory : read(memory[i].key) = memory[i].object
         /\ \A k : (\A i \in DOMAIN memory : memory[i].key # k) => read(k) = Null
         /\ \A i \in DOMAIN memory : memory[i].object # Null
<1>1. ASSUME NEW i \in DOMAIN memory PROVE read(memory[i].key) = memory[i].object
  BY <1>1, ReadFinds DEF TypeOK, EntryInv, read, ReadIn
<1>2. ASSUME NEW k, \A i \in DOMAIN memory : memory[i].key # k PROVE read(k) = Null
  BY <1>2 DEF read
<1>3. \A i \in DOMAIN memory : memory[i].object # Null
  BY SharedMemoryAssumption DEF EntryInv, TypeOK
<1> QED
  BY <1>1, <1>2, <1>3

\* Moving an element into the grown vector changes neither it nor the heap: what
\* is left of it owns nothing.
LEMMA EmplaceEffect ==
  ASSUME IInv, NEW t \in Threads, NEW grow \in BOOLEAN, EmplaceBack(t, grow)
  PROVE  /\ memory' = Append(memory, data[t])
         /\ UNCHANGED <<storage, alive, dtors, destroyed>>
<1> DEFINE ms == {Move(data[t]).from} \cup
                   {Move(memory[i]).from : i \in IF grow THEN DOMAIN memory ELSE {}}
<1>1. \A x : x \in ms => x = Empty
  BY DEF Move
<1>2. \A o \in Objects : {m \in ms : m.dtor = o} = {}
  <2>1. Empty.dtor = Null
    BY DEF Empty
  <2>2. \A o \in Objects : o # Null
    BY SharedMemoryAssumption DEF Objects
  <2> QED
    BY <1>1, <2>1, <2>2
<1>3. {m.dtor : m \in ms} \ {Null} = {}
  <2>1. Empty.dtor = Null
    BY DEF Empty
  <2> QED
    BY <1>1, <2>1
<1>4. Destruct(ms)
  BY DEF EmplaceBack
<1> HIDE DEF ms
<1>5. UNCHANGED <<storage, alive, dtors>>
  BY <1>3, <1>4 DEF Destruct
<1>6. destroyed' = destroyed
  <2>1. destroyed' = [o \in Objects |-> destroyed[o] + Cardinality({m \in ms : m.dtor = o})]
    BY <1>4 DEF Destruct
  <2>2. \A o \in Objects : Cardinality({m \in ms : m.dtor = o}) = 0
    BY <1>2, FS_EmptySet
  <2>3. destroyed \in [Objects -> Nat]
    BY DEF IInv, TypeOK
  <2>4. \A o \in Objects : destroyed[o] + 0 = destroyed[o]
    BY <2>3
  <2>5. destroyed' = [o \in Objects |-> destroyed[o]]
    BY <2>1, <2>2, <2>4
  <2> QED
    BY <2>3, <2>5
<1>7. memory' = Append(memory, data[t])
  <2>1. memory \in Seq(MetaData) /\ data[t] \in MetaData
    BY DEF IInv, TypeOK
  <2>2. memory' = [i \in DOMAIN memory |-> memory[i]] \o <<data[t]>>
    BY DEF EmplaceBack, Move
  <2>3. [i \in DOMAIN memory |-> memory[i]] = memory
    BY <2>1
  <2> QED
    BY <2>1, <2>2, <2>3
<1> QED
  BY <1>5, <1>6, <1>7

\* What a throwing step destroys: the object, once, if its destructor had been
\* created, and otherwise nothing.
LEMMA ThrowEffect ==
  ASSUME IInv, NEW t \in Threads, Throw(t)
  PROVE  LET owned == IF pc[t] = "emplace" THEN {data[t].object} ELSE {}
         IN /\ alive' = alive \ owned /\ storage' = storage \ owned
            /\ dtors' = dtors \ owned
            /\ destroyed' = [o \in Objects |->
                               IF o \in owned THEN destroyed[o] + 1 ELSE destroyed[o]]
<1> DEFINE owned == IF pc[t] = "emplace" THEN {data[t].object} ELSE {}
<1>0. \A o \in Objects : o # Null
  BY SharedMemoryAssumption DEF Objects
<1>1. data[t].dtor = IF pc[t] = "emplace" THEN data[t].object ELSE Null
  BY DEF IInv, LocalInv, KnownAt, Empty, Owning
<1>2. pc[t] = "emplace" => data[t].object \in Objects
  <2>1. pc[t] = "emplace" => data[t].object \in 1 .. allocated
    BY DEF IInv, LocalInv, KnownAt, Owning
  <2>2. 1 .. allocated \subseteq Objects
    BY SharedMemoryAssumption DEF IInv, TypeOK, Objects
  <2> QED
    BY <2>1, <2>2
<1>3. {m.dtor : m \in {data[t]}} \ {Null} = owned
  BY <1>0, <1>1, <1>2
<1>4. ASSUME NEW o \in Objects
      PROVE  Cardinality({m \in {data[t]} : m.dtor = o}) = IF o \in owned THEN 1 ELSE 0
  <2>1. CASE o \in owned
    <3>1. {m \in {data[t]} : m.dtor = o} = {data[t]}
      BY <1>1, <2>1
    <3> QED
      BY <3>1, <2>1, FS_Singleton
  <2>2. CASE o \notin owned
    <3>1. {m \in {data[t]} : m.dtor = o} = {}
      BY <1>0, <1>1, <2>2
    <3> QED
      BY <3>1, <2>2, FS_EmptySet
  <2> QED
    BY <2>1, <2>2
<1>5. destroyed \in [Objects -> Nat]
  BY DEF IInv, TypeOK
<1>6. Destruct({data[t]})
  BY DEF Throw
<1> HIDE DEF owned
<1>7. destroyed' = [o \in Objects |-> IF o \in owned THEN destroyed[o] + 1 ELSE destroyed[o]]
  <2>1. destroyed' = [o \in Objects |->
                        destroyed[o] + Cardinality({m \in {data[t]} : m.dtor = o})]
    BY <1>6 DEF Destruct
  <2>2. destroyed' = [o \in Objects |-> destroyed[o] + IF o \in owned THEN 1 ELSE 0]
    BY <1>4, <2>1
  <2> QED
    BY <1>5, <2>2
<1>8. alive' = alive \ owned /\ storage' = storage \ owned /\ dtors' = dtors \ owned
  BY <1>3, <1>6 DEF Destruct
<1> QED
  BY <1>7, <1>8 DEF owned

\* What the destructor of the vector destroys: each stored object, once.
LEMMA TeardownEffect ==
  ASSUME IInv, Teardown
  PROVE  \A o \in Objects :
           /\ o \in alive' <=> o \in alive /\ ~Stored(o)
           /\ o \in storage' <=> o \in storage /\ ~Stored(o)
           /\ o \in dtors' <=> o \in dtors /\ ~Stored(o)
           /\ destroyed'[o] = IF Stored(o) THEN destroyed[o] + 1 ELSE destroyed[o]
<1> DEFINE ms == {memory[i] : i \in DOMAIN memory}
<1>0. \A o \in Objects : o # Null
  BY SharedMemoryAssumption DEF Objects
<1>1. Destruct(ms)
  BY DEF Teardown
<1>2. \A o \in Objects : o \in {m.dtor : m \in ms} \ {Null} <=> Stored(o)
  BY <1>0 DEF IInv, EntryInv, Stored
<1>3. ASSUME NEW o \in Objects
      PROVE  Cardinality({m \in ms : m.dtor = o}) = IF Stored(o) THEN 1 ELSE 0
  <2>1. CASE Stored(o)
    <3>1. PICK i \in DOMAIN memory : memory[i].object = o
      BY <2>1 DEF Stored
    <3>2. {m \in ms : m.dtor = o} = {memory[i]}
      BY <3>1 DEF IInv, EntryInv
    <3> QED
      BY <2>1, <3>2, FS_Singleton
  <2>2. CASE ~Stored(o)
    <3>1. {m \in ms : m.dtor = o} = {}
      BY <2>2 DEF IInv, EntryInv, Stored
    <3> QED
      BY <2>2, <3>1, FS_EmptySet
  <2> QED
    BY <2>1, <2>2
<1>4. destroyed \in [Objects -> Nat]
  BY DEF IInv, TypeOK
<1> HIDE DEF ms
<1>5. ASSUME NEW o \in Objects
      PROVE  destroyed'[o] = IF Stored(o) THEN destroyed[o] + 1 ELSE destroyed[o]
  <2>1. destroyed'[o] = destroyed[o] + Cardinality({m \in ms : m.dtor = o})
    BY <1>1 DEF Destruct
  <2> QED
    BY <1>3, <1>4, <2>1
<1>6. ASSUME NEW o \in Objects
      PROVE  /\ o \in alive' <=> o \in alive /\ ~Stored(o)
             /\ o \in storage' <=> o \in storage /\ ~Stored(o)
             /\ o \in dtors' <=> o \in dtors /\ ~Stored(o)
  BY <1>1, <1>2 DEF Destruct
<1> QED
  BY <1>5, <1>6

-----------------------------------------------------------------------------
(* The invariant is inductive *)

\* The empty container.
LEMMA InitInv == Init => IInv
<1> SUFFICES ASSUME Init PROVE IInv
  OBVIOUS
<1> USE SharedMemoryAssumption DEF Init
<1>1. TypeOK
  BY DEF TypeOK, MetaData, Empty, Objects
<1>2. LockInv /\ LocalInv
  BY DEF LockInv, LocalInv, KnownAt, Busy, Owning
<1>3. EntryInv /\ GoneInv
  BY DEF EntryInv, GoneInv
<1>4. PlaceInv /\ HeapInv
  BY DEF PlaceInv, PlaceOf, HeapInv, Stored, Making, Orphan, Objects
<1>5. ReturnInv
  BY DEF ReturnInv, SameObjectForKey
<1>6. CountInv
  <2>1. Pending = {}
    BY DEF Pending
  <2> QED
    BY <2>1, FS_EmptySet DEF CountInv
<1> QED
  BY <1>1, <1>2, <1>3, <1>4, <1>5, <1>6 DEF IInv

\* What a lookup under the lock hands out is an entry of the vector.
LEMMA ReturnKeeps ==
  ASSUME IInv, phase = "up", NEW k \in Keys, Return(k, read(k)), UNCHANGED <<memory, phase>>
  PROVE  ReturnInv' /\ returned' \subseteq Keys \X Objects
<1>1. CASE \A i \in DOMAIN memory : memory[i].key # k
  <2>1. returned' = returned
    BY <1>1, ReadIs DEF IInv, Return
  <2> QED
    BY <2>1 DEF IInv, TypeOK, ReturnInv, SameObjectForKey
<1>2. CASE \E i \in DOMAIN memory : memory[i].key = k
  <2>1. PICK i \in DOMAIN memory : memory[i].key = k
    BY <1>2
  <2>2. read(k) = memory[i].object /\ read(k) # Null
    BY <2>1, ReadIs DEF IInv
  <2>3. returned' = returned \cup {<<k, memory[i].object>>}
    BY <2>2 DEF Return
  <2>4. memory[i].object \in Objects
    BY SharedMemoryAssumption DEF IInv, EntryInv, TypeOK, Objects
  <2>5. \A r \in returned' : \E j \in DOMAIN memory :
          r[1] = memory[j].key /\ r[2] = memory[j].object
    BY <2>1, <2>3 DEF IInv, ReturnInv
  <2>6. SameObjectForKey'
    BY <2>5 DEF IInv, EntryInv, SameObjectForKey
  <2>7. returned' \subseteq Keys \X Objects
    BY <2>3, <2>4 DEF IInv, TypeOK
  <2> QED
    BY <2>5, <2>6, <2>7 DEF ReturnInv
<1> QED
  BY <1>1, <1>2

\* A thread that is looking at nothing under the lock leaves the heap as it is.
LEMMA HeapFrame ==
  ASSUME IInv, UNCHANGED <<memory, storage, alive, dtors, allocated, destroyed, threw, phase>>,
         \A o \in Objects : /\ Making(o, Owning)' <=> Making(o, Owning)
                            /\ Making(o, {"erase", "emplace"})' <=> Making(o, {"erase", "emplace"})
                            /\ Making(o, {"emplace"})' <=> Making(o, {"emplace"})
  PROVE  EntryInv' /\ PlaceInv' /\ HeapInv'
<1>1. EntryInv'
  BY DEF IInv, EntryInv
<1>2. \A o \in Objects : /\ Stored(o)' <=> Stored(o)
                         /\ Orphan("erase", o)' <=> Orphan("erase", o)
                         /\ Orphan("construct", o)' <=> Orphan("construct", o)
  BY DEF Stored, Orphan
<1>3. PlaceInv'
  BY <1>2 DEF IInv, PlaceInv, PlaceOf
<1>4. HeapInv'
  BY <1>2 DEF IInv, HeapInv
<1> QED
  BY <1>1, <1>3, <1>4

\* get only hands out what the vector holds.
LEMMA GetKeeps ==
  ASSUME IInv, phase = "up", NEW t \in Threads, NEW k \in Keys, get(t, k)
  PROVE  IInv'
<1> USE DEF get, local, heap
<1>1. ReturnInv' /\ returned' \subseteq Keys \X Objects
  BY ReturnKeeps
<1>2. TypeOK'
  BY <1>1 DEF IInv, TypeOK
<1>3. LockInv' /\ LocalInv' /\ GoneInv'
  BY DEF IInv, LockInv, LocalInv, KnownAt, GoneInv
<1>4. EntryInv' /\ PlaceInv' /\ HeapInv'
  BY HeapFrame DEF Making
<1>5. CountInv'
  BY DEF IInv, CountInv, Pending
<1> QED
  BY <1>1, <1>2, <1>3, <1>4, <1>5 DEF IInv

\* A new call of get_or_construct is counted before it can allocate.
LEMMA GetFirstKeeps ==
  ASSUME IInv, phase = "up", NEW t \in Threads, NEW k \in Keys, GetFirst(t, k)
  PROVE  IInv'
<1> USE DEF GetFirst, heap, Goto
<1>0. /\ pc[t] = "idle" /\ writer = NoThread /\ writer' = NoThread
      /\ pc' \in [Threads -> {"idle", "upgrade", "allocate", "construct", "reenter",
                              "erase", "emplace"}]
      /\ pc'[t] \in {"idle", "upgrade"}
      /\ \A u \in Threads : u # t => pc'[u] = pc[u] /\ key'[u] = key[u]
      /\ key'[t] = k /\ key' \in [Threads -> Keys \cup {Null}]
  BY DEF IInv, TypeOK
<1>1. ReturnInv' /\ returned' \subseteq Keys \X Objects
  BY ReturnKeeps
<1>2. TypeOK'
  <2>1. calls' \in 0 .. Calls /\ allocated' \in 0 .. calls'
    BY SharedMemoryAssumption DEF IInv, TypeOK
  <2> QED
    BY <1>0, <1>1, <2>1 DEF IInv, TypeOK
<1>3. LockInv' /\ LocalInv' /\ GoneInv'
  <2>1. LockInv'
    BY <1>0, SharedMemoryAssumption DEF IInv, LockInv, Busy, Owning
  <2>2. LocalInv'
    BY <1>0 DEF IInv, LocalInv, KnownAt, Busy, Owning
  <2>3. GoneInv'
    BY DEF GoneInv
  <2> QED
    BY <2>1, <2>2, <2>3
<1>4. EntryInv' /\ PlaceInv' /\ HeapInv'
  BY <1>0, HeapFrame DEF Making
<1>5. CountInv'
  <2>1. Pending' \subseteq Pending \cup {t} /\ t \notin Pending
    BY <1>0 DEF Pending
  <2>2. IsFiniteSet(Pending)
    BY SharedMemoryAssumption, FS_Subset DEF Pending
  <2>3. IsFiniteSet(Pending \cup {t})
        /\ Cardinality(Pending \cup {t}) = Cardinality(Pending) + 1
    BY <2>1, <2>2, FS_AddElement
  <2>4. IsFiniteSet(Pending') /\ Cardinality(Pending') <= Cardinality(Pending \cup {t})
    BY <2>1, <2>3, FS_Subset
  <2>5. Cardinality(Pending) \in Nat /\ Cardinality(Pending') \in Nat
    BY <2>2, <2>4, FS_CardinalityType
  <2> QED
    BY <2>3, <2>4, <2>5 DEF IInv, TypeOK, CountInv
<1> QED
  BY <1>1, <1>2, <1>3, <1>4, <1>5 DEF IInv

\* Whoever locks for writing has seen, under that lock, that the key is missing.
LEMMA LockAndRereadKeeps ==
  ASSUME IInv, phase = "up", NEW t \in Threads, LockAndReread(t)
  PROVE  IInv'
<1> USE DEF LockAndReread, heap, Goto
<1>0. /\ pc[t] = "upgrade" /\ writer = NoThread /\ key[t] \in Keys
      /\ UNCHANGED <<memory, key, data, allocated, phase>>
      /\ pc' \in [Threads -> {"idle", "upgrade", "allocate", "construct", "reenter",
                              "erase", "emplace"}]
      /\ \/ pc'[t] = "idle" /\ writer' = NoThread
         \/ pc'[t] = "allocate" /\ writer' = t /\ read(key[t]) = Null
      /\ \A u \in Threads : u # t => pc'[u] = pc[u]
  BY DEF IInv, TypeOK, LocalInv, KnownAt
<1>1. ReturnInv' /\ returned' \subseteq Keys \X Objects
  BY <1>0, ReturnKeeps
<1>2. TypeOK'
  BY <1>0, <1>1 DEF IInv, TypeOK
<1>3. LockInv'
  BY <1>0, SharedMemoryAssumption DEF IInv, LockInv, Busy, Owning
<1>4. LocalInv'
  <2>1. read(key[t]) = Null => \A i \in DOMAIN memory : memory[i].key # key[t]
    BY ReadIs DEF IInv
  <2> HIDE DEF LockAndReread
  <2> QED
    BY <1>0, <2>1 DEF IInv, LocalInv, KnownAt, Busy, Owning
<1>5. GoneInv'
  BY DEF GoneInv
<1>6. EntryInv' /\ PlaceInv' /\ HeapInv'
  <2>1. \A o, steps : steps \subseteq Owning => ~Making(o, steps) /\ ~Making(o, steps)'
    BY <1>0 DEF Making, Owning
  <2>2. {"erase", "emplace"} \subseteq Owning /\ {"emplace"} \subseteq Owning
    BY DEF Owning
  <2> QED
    BY <2>1, <2>2, HeapFrame
<1>7. CountInv'
  <2>1. Pending' \subseteq Pending
    BY <1>0 DEF Pending
  <2>2. IsFiniteSet(Pending)
    BY SharedMemoryAssumption, FS_Subset DEF Pending
  <2>3. IsFiniteSet(Pending') /\ Cardinality(Pending') <= Cardinality(Pending)
    BY <2>1, <2>2, FS_Subset
  <2>4. Cardinality(Pending) \in Nat /\ Cardinality(Pending') \in Nat
    BY <2>2, <2>3, FS_CardinalityType
  <2> QED
    BY <2>3, <2>4 DEF IInv, TypeOK, CountInv
<1> QED
  BY <1>1, <1>2, <1>3, <1>4, <1>5, <1>6, <1>7 DEF IInv

\* The numbers an allocation may get: the bound on calls leaves room for it.
LEMMA AllocateObjectKeeps ==
  ASSUME IInv, phase = "up", NEW t \in Threads, AllocateObject(t)
  PROVE  IInv'
<1> USE DEF AllocateObject, Goto
<1>0. /\ pc[t] = "allocate" /\ writer = t /\ writer' = t /\ t # NoThread
      /\ UNCHANGED <<memory, key, alive, dtors, destroyed, threw, returned, calls, phase>>
      /\ pc' \in [Threads -> {"idle", "upgrade", "allocate", "construct", "reenter",
                              "erase", "emplace"}]
      /\ pc'[t] = "construct"
      /\ data'[t] = [key |-> key[t], object |-> allocated + 1, dtor |-> Null]
      /\ \A u \in Threads : u # t => pc'[u] = pc[u] /\ data'[u] = data[u]
      /\ allocated' = allocated + 1 /\ storage' = storage \cup {allocated + 1}
  BY SharedMemoryAssumption DEF IInv, TypeOK, LockInv, Busy
<1>1. CountInv' /\ allocated' <= calls
  <2>1. Pending' = Pending \ {t} /\ t \in Pending
    BY <1>0 DEF Pending
  <2>2. IsFiniteSet(Pending)
    BY SharedMemoryAssumption, FS_Subset DEF Pending
  <2>3. IsFiniteSet(Pending') /\ Cardinality(Pending') = Cardinality(Pending) - 1
    BY <2>1, <2>2, FS_RemoveElement
  <2>4. Cardinality(Pending) \in Nat /\ Cardinality(Pending') \in Nat
    BY <2>2, <2>3, FS_CardinalityType
  <2> QED
    BY <1>0, <2>3, <2>4 DEF IInv, TypeOK, CountInv
<1> HIDE DEF AllocateObject
<1>2. allocated \in Nat /\ allocated + 1 \in Objects
  BY <1>0, <1>1, SharedMemoryAssumption DEF IInv, TypeOK, Objects
<1>3. LockInv' /\ GoneInv'
  BY <1>0, SharedMemoryAssumption DEF IInv, LockInv, Busy, Owning, GoneInv
<1>4. LocalInv'
  <2>1. KnownAt(t)'
    BY <1>0, <1>2 DEF IInv, LocalInv, KnownAt, Busy, Owning
  <2>2. ASSUME NEW u \in Threads, u # t PROVE KnownAt(u)'
    BY <1>0, <1>2, <2>2 DEF IInv, LocalInv, KnownAt, LockInv, Busy
  <2> QED
    BY <2>1, <2>2 DEF LocalInv
<1>5. EntryInv'
  BY <1>0, <1>2 DEF IInv, EntryInv
<1>6. ASSUME NEW o \in Objects
      PROVE  /\ Stored(o)' <=> Stored(o)
             /\ \A step : Orphan(step, o)' <=> Orphan(step, o)
             /\ Making(o, Owning)' <=> o = allocated + 1
             /\ ~Making(o, Owning)
             /\ ~Making(o, {"erase", "emplace"}) /\ ~Making(o, {"emplace"})
             /\ ~Making(o, {"erase", "emplace"})' /\ ~Making(o, {"emplace"})'
  BY <1>0 DEF Stored, Orphan, Making, Owning
<1>7. PlaceInv'
  <2> SUFFICES ASSUME NEW o \in Objects PROVE PlaceOf(o)'
    BY DEF PlaceInv
  <2> QED
    BY <1>0, <1>2, <1>6, SharedMemoryAssumption DEF IInv, PlaceInv, PlaceOf, Objects
<1>8. HeapInv'
  BY <1>0, <1>2, <1>6 DEF IInv, HeapInv
<1>9. TypeOK'
  <2>1. data' \in [Threads -> MetaData]
    BY <1>2, SharedMemoryAssumption DEF AllocateObject, IInv, TypeOK, LocalInv, KnownAt, MetaData
  <2>2. storage' \subseteq Objects /\ alive' \subseteq storage' /\ dtors' \subseteq alive'
    BY <1>0, <1>2 DEF IInv, TypeOK
  <2>3. allocated' \in 0 .. calls'
    BY <1>0, <1>1, <1>2 DEF IInv, TypeOK
  <2> QED
    BY <1>0, <2>1, <2>2, <2>3 DEF IInv, TypeOK
<1>10. ReturnInv'
  BY <1>0 DEF IInv, ReturnInv, SameObjectForKey
<1> QED
  BY <1>1, <1>3, <1>4, <1>5, <1>7, <1>8, <1>9, <1>10 DEF IInv

\* The lock holder's steps while it makes its object: the vector and what was
\* returned stay, and the object stays its own.
LEMMA StepFrame ==
  ASSUME IInv, phase = "up", phase' \in {"up", "terminated"},
         NEW t \in Threads, pc[t] \in Owning, NEW step \in Owning,
         pc' = [pc EXCEPT ![t] = step],
         data'[t].object = data[t].object,
         UNCHANGED <<memory, writer, key, allocated, destroyed, threw, returned, calls>>
  PROVE  /\ writer = t /\ t # NoThread /\ pc'[t] = step
         /\ LockInv' /\ EntryInv' /\ PlaceInv' /\ ReturnInv' /\ GoneInv' /\ CountInv'
         /\ \A o : /\ Stored(o)' <=> Stored(o)
                   /\ \A s : Orphan(s, o)' <=> Orphan(s, o)
                   /\ \A s : Making(o, s)' <=> step \in s /\ o = data[t].object
                   /\ \A s : Making(o, s) <=> pc[t] \in s /\ o = data[t].object
<1>1. writer = t /\ t # NoThread /\ pc'[t] = step
  BY SharedMemoryAssumption DEF IInv, TypeOK, LockInv, Busy
<1>2. \A o : /\ Stored(o)' <=> Stored(o)
             /\ \A s : Orphan(s, o)' <=> Orphan(s, o)
             /\ \A s : Making(o, s)' <=> step \in s /\ o = data[t].object
             /\ \A s : Making(o, s) <=> pc[t] \in s /\ o = data[t].object
  BY <1>1 DEF Stored, Orphan, Making
<1>3. LockInv'
  BY <1>1 DEF IInv, TypeOK, LockInv, Busy
<1>4. PlaceInv'
  <2> SUFFICES ASSUME NEW o \in Objects PROVE PlaceOf(o)'
    BY DEF PlaceInv
  <2>1. Making(o, Owning)' <=> Making(o, Owning)
    BY <1>2
  <2> QED
    BY <1>2, <2>1 DEF IInv, PlaceInv, PlaceOf
<1>5. CountInv'
  <2>1. Pending' = Pending
    BY DEF IInv, TypeOK, Pending, Owning
  <2> QED
    BY <2>1 DEF IInv, CountInv
<1>6. EntryInv' /\ GoneInv'
  BY DEF IInv, EntryInv, GoneInv
<1>7. ReturnInv'
  BY DEF IInv, ReturnInv, SameObjectForKey
<1> QED
  BY <1>1, <1>2, <1>3, <1>4, <1>5, <1>6, <1>7

\* T's constructor returns.
LEMMA ConstructObjectKeeps ==
  ASSUME IInv, phase = "up", NEW t \in Threads, ConstructObject(t)
  PROVE  IInv'
<1>0. /\ pc[t] = "construct" /\ pc' = [pc EXCEPT ![t] = "erase"]
      /\ alive' = alive \cup {data[t].object}
      /\ UNCHANGED <<memory, writer, key, data, storage, dtors, allocated, destroyed,
                     threw, returned, calls, phase>>
  BY DEF ConstructObject, Goto
<1>1. pc[t] \in Owning /\ "erase" \in Owning
  BY <1>0 DEF Owning
<1>2. /\ writer = t /\ t # NoThread /\ pc'[t] = "erase"
      /\ LockInv' /\ EntryInv' /\ PlaceInv' /\ ReturnInv' /\ GoneInv' /\ CountInv'
      /\ \A o : /\ Stored(o)' <=> Stored(o)
                /\ \A s : Orphan(s, o)' <=> Orphan(s, o)
                /\ \A s : Making(o, s)' <=> "erase" \in s /\ o = data[t].object
                /\ \A s : Making(o, s) <=> pc[t] \in s /\ o = data[t].object
  BY <1>0, <1>1, StepFrame
<1>3. LocalInv'
  BY <1>0, <1>1 DEF IInv, TypeOK, LocalInv, KnownAt, Busy, Owning
<1>4. HeapInv'
  BY <1>0, <1>1, <1>2 DEF IInv, HeapInv
<1>5. TypeOK'
  <2>1. data[t].object \in Objects /\ data[t].object \in storage
    <3>1. data[t].object \in 1 .. allocated
      BY <1>1 DEF IInv, LocalInv, KnownAt
    <3>2. data[t].object \in Objects
      BY <3>1, SharedMemoryAssumption DEF IInv, TypeOK, Objects
    <3>3. Making(data[t].object, Owning)
      BY <1>1, <1>2
    <3> QED
      BY <3>2, <3>3 DEF IInv, HeapInv
  <2>2. storage' \subseteq Objects /\ alive' \subseteq storage' /\ dtors' \subseteq alive'
    BY <1>0, <2>1 DEF IInv, TypeOK
  <2> QED
    BY <1>0, <2>2 DEF IInv, TypeOK
<1> QED
  BY <1>2, <1>3, <1>4, <1>5 DEF IInv

\* The destructor is created, and from here on the local meta_data owns.
LEMMA CreateDestructorKeeps ==
  ASSUME IInv, phase = "up", NEW t \in Threads, CreateDestructor(t)
  PROVE  IInv'
<1>0. /\ pc[t] = "erase" /\ pc' = [pc EXCEPT ![t] = "emplace"]
      /\ dtors' = dtors \cup {data[t].object}
      /\ data' = [data EXCEPT ![t].dtor = data[t].object]
      /\ UNCHANGED <<memory, writer, key, storage, alive, allocated, destroyed,
                     threw, returned, calls, phase>>
  BY DEF CreateDestructor, Goto
<1>1. pc[t] \in Owning /\ "emplace" \in Owning
  BY <1>0 DEF Owning
<1>2. data[t].object \in 1 .. allocated /\ data[t].object \in Objects
  <2>1. data[t].object \in 1 .. allocated
    BY <1>1 DEF IInv, LocalInv, KnownAt
  <2> QED
    BY <2>1, SharedMemoryAssumption DEF IInv, TypeOK, Objects
<1>3. /\ data' \in [Threads -> MetaData]
      /\ data'[t].object = data[t].object /\ data'[t].key = data[t].key
      /\ data'[t].dtor = data[t].object
      /\ \A u \in Threads : u # t => data'[u] = data[u]
  BY <1>0, <1>2 DEF IInv, TypeOK, MetaData
<1>4. /\ writer = t /\ t # NoThread /\ pc'[t] = "emplace"
      /\ LockInv' /\ EntryInv' /\ PlaceInv' /\ ReturnInv' /\ GoneInv' /\ CountInv'
      /\ \A o : /\ Stored(o)' <=> Stored(o)
                /\ \A s : Orphan(s, o)' <=> Orphan(s, o)
                /\ \A s : Making(o, s)' <=> "emplace" \in s /\ o = data[t].object
                /\ \A s : Making(o, s) <=> pc[t] \in s /\ o = data[t].object
  BY <1>0, <1>1, <1>3, StepFrame
<1>5. LocalInv'
  <2>1. KnownAt(t)'
    BY <1>0, <1>1, <1>2, <1>3, <1>4 DEF IInv, LocalInv, KnownAt, Busy
  <2>2. ASSUME NEW u \in Threads, u # t PROVE KnownAt(u)'
    <3>1. pc'[u] = pc[u] /\ data'[u] = data[u] /\ KnownAt(u)
      BY <1>0, <1>3, <2>2 DEF IInv, TypeOK, LocalInv
    <3> QED
      BY <1>0, <3>1 DEF KnownAt
  <2> QED
    BY <2>1, <2>2 DEF LocalInv
<1>6. HeapInv'
  BY <1>0, <1>1, <1>4 DEF IInv, HeapInv
<1>7. TypeOK'
  <2>1. data[t].object \in alive
    <3>1. Making(data[t].object, {"erase", "emplace"})
      BY <1>0, <1>4
    <3> QED
      BY <1>2, <3>1 DEF IInv, HeapInv
  <2>2. dtors' \subseteq alive'
    BY <1>0, <2>1 DEF IInv, TypeOK
  <2> QED
    BY <1>0, <1>3, <2>2 DEF IInv, TypeOK
<1> QED
  BY <1>4, <1>5, <1>6, <1>7 DEF IInv

\* A constructor that calls back into the container stops in its own lock, or
\* the program ends.
LEMMA ReenterKeeps ==
  ASSUME IInv, phase = "up", NEW t \in Threads, Reenter(t)
  PROVE  IInv'
<1>0. /\ pc[t] = "construct" /\ phase' \in {"up", "terminated"}
      /\ UNCHANGED <<memory, writer, key, data, storage, alive, dtors, allocated,
                     destroyed, threw, returned, calls>>
      /\ \E step \in {"construct", "reenter"} : pc' = [pc EXCEPT ![t] = step]
  BY DEF Reenter, Goto, heap, IInv, TypeOK
<1>1. PICK step \in {"construct", "reenter"} : pc' = [pc EXCEPT ![t] = step]
  BY <1>0
<1>2. pc[t] \in Owning /\ step \in Owning
  BY <1>0, <1>1 DEF Owning
<1>3. /\ writer = t /\ t # NoThread /\ pc'[t] = step
      /\ LockInv' /\ EntryInv' /\ PlaceInv' /\ ReturnInv' /\ GoneInv' /\ CountInv'
      /\ \A o : /\ Stored(o)' <=> Stored(o)
                /\ \A s : Orphan(s, o)' <=> Orphan(s, o)
                /\ \A s : Making(o, s)' <=> step \in s /\ o = data[t].object
                /\ \A s : Making(o, s) <=> pc[t] \in s /\ o = data[t].object
  BY <1>0, <1>1, <1>2, StepFrame
<1>4. LocalInv'
  BY <1>0, <1>1, <1>2 DEF IInv, TypeOK, LocalInv, KnownAt, Busy
<1>5. HeapInv'
  BY <1>0, <1>1, <1>2, <1>3 DEF IInv, HeapInv
<1>6. TypeOK'
  BY <1>0, <1>1 DEF IInv, TypeOK
<1> QED
  BY <1>3, <1>4, <1>5, <1>6 DEF IInv

\* A thread that leaves the unlocked container is no longer pending, and the lock
\* is free.
LEMMA UnlockFrame ==
  ASSUME IInv, NEW t \in Threads, pc[t] \in Busy, writer' = NoThread,
         pc' = [pc EXCEPT ![t] = "idle"], UNCHANGED <<allocated, calls>>
  PROVE  /\ writer = t /\ t # NoThread /\ pc'[t] = "idle"
         /\ pc' \in [Threads -> {"idle", "upgrade", "allocate", "construct", "reenter",
                                 "erase", "emplace"}]
         /\ \A u \in Threads : u # t => pc'[u] = pc[u] /\ pc[u] \notin Busy
         /\ LockInv' /\ CountInv'
         /\ \A o, s : /\ ~Making(o, s)'
                      /\ Making(o, s) <=> pc[t] \in s /\ o = data[t].object
<1>1. /\ writer = t /\ t # NoThread /\ pc'[t] = "idle"
      /\ pc' \in [Threads -> {"idle", "upgrade", "allocate", "construct", "reenter",
                              "erase", "emplace"}]
      /\ \A u \in Threads : u # t => pc'[u] = pc[u] /\ pc[u] \notin Busy
  BY SharedMemoryAssumption DEF IInv, TypeOK, LockInv
<1>2. LockInv'
  BY <1>1, SharedMemoryAssumption DEF LockInv, Busy, Owning
<1>3. CountInv'
  <2>1. Pending' \subseteq Pending
    BY <1>1 DEF Pending
  <2>2. IsFiniteSet(Pending)
    BY SharedMemoryAssumption, FS_Subset DEF Pending
  <2>3. IsFiniteSet(Pending') /\ Cardinality(Pending') <= Cardinality(Pending)
    BY <2>1, <2>2, FS_Subset
  <2>4. Cardinality(Pending) \in Nat /\ Cardinality(Pending') \in Nat
    BY <2>2, <2>3, FS_CardinalityType
  <2> QED
    BY <2>3, <2>4 DEF IInv, TypeOK, CountInv
<1>4. \A o, s : /\ ~Making(o, s)'
                /\ Making(o, s) <=> pc[t] \in s /\ o = data[t].object
  BY <1>1 DEF Making
<1> QED
  BY <1>1, <1>2, <1>3, <1>4

\* emplace_back adds an entry for a key and an object that no other entry has,
\* and only then does the caller learn of it.
LEMMA EmplaceBackKeeps ==
  ASSUME IInv, phase = "up", NEW t \in Threads, NEW grow \in BOOLEAN, EmplaceBack(t, grow)
  PROVE  IInv'
<1>0. /\ pc[t] = "emplace" /\ pc' = [pc EXCEPT ![t] = "idle"] /\ writer' = NoThread
      /\ memory' = Append(memory, data[t])
      /\ data' = [data EXCEPT ![t] = Empty]
      /\ Return(key[t], data[t].object)
      /\ UNCHANGED <<key, storage, alive, dtors, allocated, destroyed, threw, calls, phase>>
  BY EmplaceEffect DEF EmplaceBack, Goto
<1>1. pc[t] \in Owning /\ pc[t] \in Busy
  BY <1>0 DEF Owning, Busy
<1>2. /\ data[t].key = key[t] /\ key[t] \in Keys
      /\ data[t].object \in 1 .. allocated /\ data[t].dtor = data[t].object
      /\ \A i \in DOMAIN memory : memory[i].key # key[t]
  BY <1>0, <1>1 DEF IInv, LocalInv, KnownAt
<1>3. data[t].object \in Objects /\ data[t].object # Null
  BY <1>2, SharedMemoryAssumption DEF IInv, TypeOK, Objects
<1>4. /\ writer = t /\ t # NoThread /\ pc'[t] = "idle"
      /\ pc' \in [Threads -> {"idle", "upgrade", "allocate", "construct", "reenter",
                              "erase", "emplace"}]
      /\ \A u \in Threads : u # t => pc'[u] = pc[u] /\ pc[u] \notin Busy
      /\ LockInv' /\ CountInv'
      /\ \A o, s : /\ ~Making(o, s)'
                   /\ Making(o, s) <=> pc[t] \in s /\ o = data[t].object
  BY <1>0, <1>1, UnlockFrame
<1>5. ~Stored(data[t].object)
  <2>1. Making(data[t].object, Owning)
    BY <1>1, <1>4
  <2> QED
    BY <1>3, <2>1 DEF IInv, PlaceInv, PlaceOf
<1>6. /\ memory \in Seq(MetaData) /\ memory' \in Seq(MetaData)
      /\ Len(memory) \in Nat /\ DOMAIN memory = 1 .. Len(memory)
      /\ DOMAIN memory' = 1 .. Len(memory) + 1
      /\ \A i \in DOMAIN memory : memory'[i] = memory[i]
      /\ memory'[Len(memory) + 1] = data[t]
  <2>1. memory \in Seq(MetaData) /\ data[t] \in MetaData
    BY DEF IInv, TypeOK
  <2> QED
    BY <1>0, <2>1
<1>7. EntryInv'
  <2>1. ASSUME NEW i \in DOMAIN memory'
        PROVE  /\ memory'[i].key \in Keys /\ memory'[i].object \in 1 .. allocated'
               /\ memory'[i].dtor = memory'[i].object
    <3>1. CASE i \in DOMAIN memory
      BY <1>0, <1>6, <3>1 DEF IInv, EntryInv
    <3>2. CASE i = Len(memory) + 1
      BY <1>0, <1>2, <1>6, <3>2
    <3> QED
      BY <1>6, <3>1, <3>2
  <2>2. ASSUME NEW i \in DOMAIN memory', NEW j \in DOMAIN memory',
               memory'[i].key = memory'[j].key \/ memory'[i].object = memory'[j].object
        PROVE  i = j
    <3>1. CASE i \in DOMAIN memory /\ j \in DOMAIN memory
      BY <1>6, <2>2, <3>1 DEF IInv, EntryInv
    <3>2. CASE i = Len(memory) + 1 /\ j \in DOMAIN memory
      BY <1>2, <1>5, <1>6, <2>2, <3>2 DEF Stored
    <3>3. CASE i \in DOMAIN memory /\ j = Len(memory) + 1
      BY <1>2, <1>5, <1>6, <2>2, <3>3 DEF Stored
    <3>4. CASE i = Len(memory) + 1 /\ j = Len(memory) + 1
      BY <3>4
    <3> QED
      BY <1>6, <3>1, <3>2, <3>3, <3>4
  <2> QED
    BY <2>1, <2>2 DEF EntryInv
<1>8. \A o \in Objects : /\ Stored(o)' <=> Stored(o) \/ o = data[t].object
                         /\ \A s : Orphan(s, o)' <=> Orphan(s, o)
  <2>1. \A o \in Objects : \A s : Orphan(s, o)' <=> Orphan(s, o)
    BY <1>0 DEF Orphan
  <2>2. ASSUME NEW o \in Objects, Stored(o) PROVE Stored(o)'
    BY <1>6, <2>2 DEF Stored
  <2>3. ASSUME NEW o \in Objects, o = data[t].object PROVE Stored(o)'
    <3>1. Len(memory) + 1 \in DOMAIN memory'
      BY <1>6
    <3> QED
      BY <1>6, <2>3, <3>1 DEF Stored
  <2>4. ASSUME NEW o \in Objects, Stored(o)', o # data[t].object PROVE Stored(o)
    <3>1. PICK i \in DOMAIN memory' : memory'[i].object = o
      BY <2>4 DEF Stored
    <3>2. i \in DOMAIN memory
      BY <1>6, <2>4, <3>1
    <3> QED
      BY <1>6, <3>1, <3>2 DEF Stored
  <2> QED
    BY <2>1, <2>2, <2>3, <2>4
<1>9. PlaceInv'
  <2> SUFFICES ASSUME NEW o \in Objects PROVE PlaceOf(o)'
    BY DEF PlaceInv
  <2>1. PlaceOf(o)
    BY DEF IInv, PlaceInv
  <2> QED
    BY <1>0, <1>1, <1>4, <1>8, <2>1 DEF PlaceOf
<1>10. HeapInv'
  BY <1>0, <1>4, <1>8, <1>1 DEF IInv, HeapInv
<1>11. LocalInv'
  <2>1. data'[t] = Empty /\ data' \in [Threads -> MetaData]
        /\ \A u \in Threads : u # t => data'[u] = data[u]
    BY <1>0, SharedMemoryAssumption DEF IInv, TypeOK, MetaData, Empty
  <2>2. KnownAt(t)'
    BY <1>4, <2>1 DEF KnownAt, Busy, Owning
  <2>3. ASSUME NEW u \in Threads, u # t PROVE KnownAt(u)'
    <3>1. pc'[u] = pc[u] /\ pc[u] \notin Busy /\ data'[u] = data[u] /\ KnownAt(u)
      BY <1>4, <2>1, <2>3 DEF IInv, LocalInv
    <3> QED
      BY <1>0, <3>1 DEF KnownAt, Busy
  <2> QED
    BY <2>2, <2>3 DEF LocalInv
<1>12. returned' = returned \cup {<<key[t], data[t].object>>}
  BY <1>0, <1>3 DEF Return
<1>13. ReturnInv'
  <2>1. ASSUME NEW r \in returned'
        PROVE  \E i \in DOMAIN memory' : r[1] = memory'[i].key /\ r[2] = memory'[i].object
    <3>1. CASE r \in returned
      <4>1. PICK i \in DOMAIN memory : r[1] = memory[i].key /\ r[2] = memory[i].object
        BY <3>1 DEF IInv, ReturnInv
      <4> QED
        BY <1>6, <4>1
    <3>2. CASE r = <<key[t], data[t].object>>
      <4>1. Len(memory) + 1 \in DOMAIN memory'
        BY <1>6
      <4> QED
        BY <1>2, <1>6, <3>2, <4>1
    <3> QED
      BY <1>12, <3>1, <3>2
  <2>2. SameObjectForKey'
    BY <1>7, <2>1 DEF EntryInv, SameObjectForKey
  <2> QED
    BY <2>1, <2>2 DEF ReturnInv
<1>14. TypeOK'
  <2>1. data' \in [Threads -> MetaData]
    BY <1>0, SharedMemoryAssumption DEF IInv, TypeOK, MetaData, Empty
  <2>2. returned' \subseteq Keys \X Objects
    BY <1>2, <1>3, <1>12 DEF IInv, TypeOK
  <2> QED
    BY <1>0, <1>4, <1>6, <2>1, <2>2 DEF IInv, TypeOK
<1>15. GoneInv'
  BY <1>0 DEF GoneInv
<1> QED
  BY <1>4, <1>7, <1>9, <1>10, <1>11, <1>13, <1>14, <1>15 DEF IInv

\* A step that throws frees the lock, and destroys the object exactly when it
\* was owned; otherwise the object, or its storage, is left behind.
LEMMA ThrowKeeps ==
  ASSUME IInv, phase = "up", NEW t \in Threads, Throw(t)
  PROVE  IInv'
<1> DEFINE owned == IF pc[t] = "emplace" THEN {data[t].object} ELSE {}
<1>0. /\ pc[t] \in {"allocate", "construct", "erase", "emplace"}
      /\ pc' = [pc EXCEPT ![t] = "idle"] /\ writer' = NoThread
      /\ threw' = threw \cup {<<pc[t], data[t].object>>}
      /\ data' = [data EXCEPT ![t] = Empty]
      /\ UNCHANGED <<memory, key, allocated, returned, calls, phase>>
  BY DEF Throw, Goto
<1>1. /\ alive' = alive \ owned /\ storage' = storage \ owned /\ dtors' = dtors \ owned
      /\ destroyed' = [o \in Objects |-> IF o \in owned THEN destroyed[o] + 1 ELSE destroyed[o]]
  BY ThrowEffect
<1>2. pc[t] \in Busy
  BY <1>0 DEF Busy, Owning
<1>3. /\ writer = t /\ t # NoThread /\ pc'[t] = "idle"
      /\ pc' \in [Threads -> {"idle", "upgrade", "allocate", "construct", "reenter",
                              "erase", "emplace"}]
      /\ \A u \in Threads : u # t => pc'[u] = pc[u] /\ pc[u] \notin Busy
      /\ LockInv' /\ CountInv'
      /\ \A o, s : /\ ~Making(o, s)'
                   /\ Making(o, s) <=> pc[t] \in s /\ o = data[t].object
  BY <1>0, <1>2, UnlockFrame
<1>4. data'[t] = Empty /\ data' \in [Threads -> MetaData]
      /\ \A u \in Threads : u # t => data'[u] = data[u]
  BY <1>0, SharedMemoryAssumption DEF IInv, TypeOK, MetaData, Empty
<1>5. LocalInv'
  <2>1. KnownAt(t)'
    BY <1>3, <1>4 DEF KnownAt, Busy, Owning
  <2>2. ASSUME NEW u \in Threads, u # t PROVE KnownAt(u)'
    <3>1. pc'[u] = pc[u] /\ pc[u] \notin Busy /\ data'[u] = data[u] /\ KnownAt(u)
      BY <1>3, <1>4, <2>2 DEF IInv, LocalInv
    <3> QED
      BY <1>0, <3>1 DEF KnownAt, Busy
  <2> QED
    BY <2>1, <2>2 DEF LocalInv
<1>6. EntryInv' /\ GoneInv'
  BY <1>0 DEF IInv, EntryInv, GoneInv
<1>7. ReturnInv'
  BY <1>0 DEF IInv, ReturnInv, SameObjectForKey
<1>8. \A o \in Objects :
        /\ Stored(o)' <=> Stored(o)
        /\ \A s : Orphan(s, o)' <=> Orphan(s, o) \/ (s = pc[t] /\ o = data[t].object)
  BY <1>0 DEF Stored, Orphan
<1>9. \A o \in Objects : \/ o = data[t].object /\ pc[t] \in Owning /\ Making(o, Owning)
                         \/ o # data[t].object
  <2>1. CASE pc[t] = "allocate"
    <3>1. data[t] = Empty
      BY <2>1 DEF IInv, LocalInv, KnownAt, Owning
    <3>2. data[t].object = Null
      BY <3>1 DEF Empty
    <3> QED
      BY <3>2, SharedMemoryAssumption DEF Objects
  <2>2. CASE pc[t] # "allocate"
    <3>1. pc[t] \in Owning
      BY <1>0, <2>2 DEF Owning
    <3> QED
      BY <1>3, <3>1
  <2> QED
    BY <2>1, <2>2
<1>10. ASSUME NEW o \in Objects PROVE PlaceOf(o)'
  <2>1. PlaceOf(o) /\ destroyed[o] \in Nat
    BY DEF IInv, PlaceInv, TypeOK
  <2>2. CASE o # data[t].object
    <3>1. /\ Stored(o)' <=> Stored(o)
          /\ Orphan("erase", o)' <=> Orphan("erase", o)
          /\ Orphan("construct", o)' <=> Orphan("construct", o)
      BY <1>8, <2>2
    <3>2. destroyed'[o] = destroyed[o]
      BY <1>1, <2>2
    <3> QED
      BY <1>0, <1>3, <2>1, <3>1, <3>2 DEF PlaceOf
  <2>3. CASE o = data[t].object /\ pc[t] \in Owning
    <3>1. Making(o, Owning)
      BY <1>3, <2>3
    <3>2. ~Stored(o) /\ ~Orphan("erase", o) /\ ~Orphan("construct", o)
          /\ o <= allocated /\ destroyed[o] = 0
      BY <2>1, <3>1 DEF PlaceOf
    <3>3. CASE pc[t] = "emplace"
      <4>1. destroyed'[o] = 1
        BY <1>1, <2>3, <3>2, <3>3
      <4>2. ~Stored(o)' /\ ~Orphan("erase", o)' /\ ~Orphan("construct", o)'
        BY <1>8, <3>2, <3>3
      <4>3. ~(o > allocated')
        BY <1>0, <3>2, SharedMemoryAssumption DEF IInv, TypeOK, Objects
      <4> QED
        BY <1>3, <4>1, <4>2, <4>3 DEF PlaceOf
    <3>4. CASE pc[t] # "emplace"
      <4>1. destroyed'[o] = 0
        BY <1>1, <3>2, <3>4
      <4>2. ~Stored(o)' /\ ~(Orphan("erase", o)' /\ Orphan("construct", o)')
        BY <1>8, <3>2
      <4> QED
        BY <1>0, <1>3, <3>2, <4>1, <4>2 DEF PlaceOf
    <3> QED
      BY <3>3, <3>4
  <2> QED
    BY <1>9, <2>2, <2>3
<1>11. HeapInv'
  <2> SUFFICES ASSUME NEW o \in Objects
               PROVE  /\ o \in alive' <=> Stored(o)' \/ Orphan("erase", o)'
                      /\ o \in storage' <=> Stored(o)' \/ Orphan("erase", o)' \/ Orphan("construct", o)'
                      /\ o \in dtors' <=> Stored(o)'
    BY <1>3 DEF HeapInv
  <2>1. /\ o \in alive <=> \/ Stored(o) \/ Making(o, {"erase", "emplace"})
                           \/ Orphan("erase", o)
        /\ o \in storage <=> \/ Stored(o) \/ Making(o, Owning)
                             \/ Orphan("erase", o) \/ Orphan("construct", o)
        /\ o \in dtors <=> Stored(o) \/ Making(o, {"emplace"})
    BY DEF IInv, HeapInv
  <2>2. CASE o # data[t].object
    BY <1>1, <1>3, <1>8, <2>1, <2>2
  <2>3. CASE o = data[t].object /\ pc[t] \in Owning
    <3>1. ~Stored(o) /\ ~Orphan("erase", o) /\ ~Orphan("construct", o)
      BY <1>3, <2>3 DEF IInv, PlaceInv, PlaceOf
    <3>2. pc[t] \in {"construct", "erase", "emplace"}
      BY <1>0, <2>3 DEF Owning
    <3>3. /\ Stored(o)' <=> FALSE
          /\ Orphan("erase", o)' <=> pc[t] = "erase"
          /\ Orphan("construct", o)' <=> pc[t] = "construct"
      BY <1>8, <2>3, <3>1
    <3>4. /\ o \in alive <=> pc[t] \in {"erase", "emplace"}
          /\ o \in storage
          /\ o \in dtors <=> pc[t] = "emplace"
      BY <1>3, <2>1, <2>3, <3>1
    <3> QED
      BY <1>1, <2>3, <3>2, <3>3, <3>4
  <2> QED
    BY <1>9, <2>2, <2>3
<1>12. TypeOK'
  <2>1. storage' \subseteq Objects /\ alive' \subseteq storage' /\ dtors' \subseteq alive'
    BY <1>1 DEF IInv, TypeOK
  <2>2. destroyed' \in [Objects -> Nat]
    BY <1>1 DEF IInv, TypeOK
  <2>3. \A x \in threw' : x[2] \in Objects \cup {Null}
    <3>1. data[t].object \in Objects \cup {Null}
      BY DEF IInv, TypeOK, MetaData
    <3> QED
      BY <1>0, <3>1 DEF IInv, TypeOK
  <2> QED
    BY <1>0, <1>3, <1>4, <2>1, <2>2, <2>3 DEF IInv, TypeOK
<1>13. PlaceInv'
  BY <1>10 DEF PlaceInv
<1> QED
  BY <1>3, <1>5, <1>6, <1>7, <1>11, <1>12, <1>13 DEF IInv

\* ~shared_memory destroys what is stored, once, and only the orphans remain.
LEMMA TeardownKeeps ==
  ASSUME IInv, phase = "up", Teardown
  PROVE  IInv'
<1>0. /\ \A t \in Threads : pc[t] = "idle"
      /\ memory' = <<>> /\ phase' = "gone"
      /\ UNCHANGED <<writer, pc, key, data, allocated, threw, returned, calls>>
  BY DEF Teardown, local
<1>1. \A o \in Objects :
        /\ o \in alive' <=> o \in alive /\ ~Stored(o)
        /\ o \in storage' <=> o \in storage /\ ~Stored(o)
        /\ o \in dtors' <=> o \in dtors /\ ~Stored(o)
        /\ destroyed'[o] = IF Stored(o) THEN destroyed[o] + 1 ELSE destroyed[o]
  BY TeardownEffect
<1>2. writer = NoThread
  BY <1>0 DEF IInv, TypeOK, LockInv, Busy, Owning
<1>3. \A o \in Objects : /\ ~Stored(o)'
                         /\ \A s : Orphan(s, o)' <=> Orphan(s, o)
                         /\ \A s : ~Making(o, s) /\ ~Making(o, s)'
  BY <1>0, <1>2 DEF Stored, Orphan, Making
<1>4. storage' \subseteq Objects /\ alive' \subseteq Objects /\ dtors' \subseteq Objects
      /\ destroyed' \in [Objects -> Nat]
  <2> DEFINE ms == {memory[i] : i \in DOMAIN memory}
  <2>1. Destruct(ms)
    BY DEF Teardown
  <2> HIDE DEF ms
  <2>2. destroyed' = [o \in Objects |-> destroyed[o] + Cardinality({m \in ms : m.dtor = o})]
    BY <2>1 DEF Destruct
  <2>3. \A o \in Objects : destroyed'[o] \in Nat
    BY <1>1 DEF IInv, TypeOK
  <2>4. destroyed' \in [Objects -> Nat]
    BY <2>2, <2>3
  <2> QED
    BY <2>1, <2>4 DEF Destruct, IInv, TypeOK
<1>5. ASSUME NEW o \in Objects PROVE PlaceOf(o)'
  <2>1. PlaceOf(o) /\ destroyed[o] \in Nat
    BY DEF IInv, PlaceInv, TypeOK
  <2>2. CASE Stored(o)
    <3>1. destroyed'[o] = 1 /\ o <= allocated /\ ~Orphan("erase", o) /\ ~Orphan("construct", o)
      BY <1>1, <2>1, <2>2 DEF PlaceOf
    <3>2. ~(o > allocated')
      BY <1>0, <3>1, SharedMemoryAssumption DEF IInv, TypeOK, Objects
    <3> QED
      BY <1>3, <3>1, <3>2 DEF PlaceOf
  <2>3. CASE ~Stored(o)
    <3>1. destroyed'[o] = destroyed[o]
      BY <1>1, <2>3
    <3> QED
      BY <1>0, <1>3, <2>1, <3>1 DEF PlaceOf
  <2> QED
    BY <2>2, <2>3
<1>6. LeavesOnlyOrphans' /\ alive' \subseteq storage'
  <2>1. ASSUME NEW o \in Objects
        PROVE  /\ o \in alive' <=> Orphan("erase", o)
               /\ o \in storage' <=> Orphan("erase", o) \/ Orphan("construct", o)
               /\ o \notin dtors'
    <3>1. /\ o \in alive <=> Stored(o) \/ Orphan("erase", o)
          /\ o \in storage <=> Stored(o) \/ Orphan("erase", o) \/ Orphan("construct", o)
          /\ o \in dtors <=> Stored(o)
      BY <1>3 DEF IInv, HeapInv
    <3>2. Stored(o) => ~Orphan("erase", o) /\ ~Orphan("construct", o)
      BY DEF IInv, PlaceInv, PlaceOf
    <3> QED
      BY <1>1, <3>1, <3>2
  <2>2. alive' = {o \in Objects : <<"erase", o>> \in threw'}
    BY <1>0, <1>4, <2>1 DEF Orphan
  <2>3. storage' = alive' \cup {o \in Objects : <<"construct", o>> \in threw'}
    BY <1>0, <1>4, <2>1 DEF Orphan
  <2>4. dtors' = {}
    BY <1>4, <2>1
  <2>5. alive' \subseteq storage'
    BY <2>3
  <2> QED
    BY <2>2, <2>3, <2>4, <2>5 DEF LeavesOnlyOrphans
<1>7. TypeOK'
  <2>1. alive' \subseteq storage' /\ dtors' \subseteq alive'
    BY <1>0, <1>6 DEF LeavesOnlyOrphans
  <2> QED
    BY <1>0, <1>4, <2>1 DEF IInv, TypeOK
<1>8. LockInv' /\ LocalInv'
  BY <1>0 DEF IInv, LockInv, LocalInv, KnownAt
<1>9. EntryInv' /\ GoneInv'
  BY <1>0, <1>6 DEF EntryInv, GoneInv
<1>10. ReturnInv' /\ HeapInv' /\ CountInv'
  BY <1>0 DEF IInv, ReturnInv, SameObjectForKey, HeapInv, CountInv, Pending
<1>11. PlaceInv'
  BY <1>5 DEF PlaceInv
<1> QED
  BY <1>7, <1>8, <1>9, <1>10, <1>11 DEF IInv

\* Every step, and the destructed or terminated container stays as it is.
LEMMA NextKeeps == IInv /\ [Next]_vars => IInv'
<1> SUFFICES ASSUME IInv, [Next]_vars PROVE IInv'
  OBVIOUS
<1>1. CASE UNCHANGED vars
  BY <1>1 DEF vars, local, heap, IInv, TypeOK, LockInv, LocalInv, KnownAt, EntryInv, PlaceInv,
              PlaceOf, HeapInv, Stored, Making, Orphan, ReturnInv, SameObjectForKey, GoneInv,
              LeavesOnlyOrphans, CountInv, Pending
<1>2. CASE Next
  <2>1. phase = "up"
    BY <1>2 DEF Next
  <2>2. ASSUME NEW t \in Threads, NEW k \in Keys, get(t, k) PROVE IInv'
    BY <2>1, <2>2, GetKeeps
  <2>3. ASSUME NEW t \in Threads, NEW k \in Keys, GetFirst(t, k) PROVE IInv'
    BY <2>1, <2>3, GetFirstKeeps
  <2>4. ASSUME NEW t \in Threads, GetOrConstruct(t) PROVE IInv'
    BY <2>1, <2>4, LockAndRereadKeeps, AllocateObjectKeeps, ConstructObjectKeeps,
       CreateDestructorKeeps, EmplaceBackKeeps, ThrowKeeps, ReenterKeeps DEF GetOrConstruct
  <2>5. CASE Teardown
    BY <2>1, <2>5, TeardownKeeps
  <2> QED
    BY <1>2, <2>2, <2>3, <2>4, <2>5 DEF Next
<1> QED
  BY <1>1, <1>2

\* The invariant holds for any threads, keys and number of calls.
THEOREM Invariance == Spec => []IInv
BY InitInv, NextKeeps, PTL DEF Spec

-----------------------------------------------------------------------------
(* What it gives *)

\* The state has its type; at most one object is allocated for each call.
THEOREM Types == Spec => []TypeOK
<1>1. IInv => TypeOK
  BY DEF IInv
<1> QED
  BY <1>1, Invariance, PTL

\* Of callers that race for a key, across both looks and the growth of the
\* vector, all get one object (shared_memory.hpp:137).
THEOREM OneObjectForKey == Spec => []SameObjectForKey
<1>1. IInv => SameObjectForKey
  BY DEF IInv, ReturnInv
<1> QED
  BY <1>1, Invariance, PTL

\* Pointers that get and get_or_construct gave out stay good while the container
\* is there.
THEOREM ValidPointers == Spec => []PointersStayValid
<1>1. IInv => PointersStayValid
  <2> SUFFICES ASSUME IInv, phase = "up", NEW r \in returned
               PROVE  r[2] \in alive /\ read(r[1]) = r[2]
    BY DEF PointersStayValid
  <2>1. PICK i \in DOMAIN memory : r[1] = memory[i].key /\ r[2] = memory[i].object
    BY DEF IInv, ReturnInv
  <2>2. r[2] \in Objects
    BY DEF IInv, TypeOK
  <2>3. r[2] \in alive
    BY <2>1, <2>2 DEF IInv, HeapInv, Stored
  <2> QED
    BY <2>1, <2>3, ReadIs DEF IInv
<1> QED
  BY <1>1, Invariance, PTL

\* No destructor runs twice: not when the vector grows, not when a step throws,
\* not at the end.
THEOREM NoDoubleDestroy == Spec => []DestroyedOnce
<1>1. IInv => DestroyedOnce
  <2> SUFFICES ASSUME IInv, NEW o \in Objects
               PROVE  destroyed[o] <= 1 /\ (destroyed[o] = 1 => o \notin storage)
    BY DEF DestroyedOnce
  <2>1. PlaceOf(o)
    BY DEF IInv, PlaceInv
  <2>2. o \in storage => \/ Stored(o) \/ Making(o, Owning)
                         \/ Orphan("erase", o) \/ Orphan("construct", o)
    <3>1. CASE phase # "gone"
      BY <3>1 DEF IInv, HeapInv
    <3>2. CASE phase = "gone"
      BY <3>2 DEF IInv, GoneInv, LeavesOnlyOrphans, Orphan
    <3> QED
      BY <3>1, <3>2
  <2> QED
    BY <2>1, <2>2 DEF PlaceOf
<1> QED
  BY <1>1, Invariance, PTL

\* The destructed container leaves nothing behind but what throwing steps of
\* meta_data::create lost.
THEOREM OnlyOrphansLeft == Spec => []LeavesOnlyOrphans
<1>1. IInv => LeavesOnlyOrphans
  BY DEF IInv, GoneInv, LeavesOnlyOrphans
<1> QED
  BY <1>1, Invariance, PTL

\* The allocation at shared_memory.hpp:85 is the whole cause of the violation of
\* shared_memory_orphan: unless it threw for some object, every object is
\* destroyed with its container, whatever else threw.
THEOREM DestroyedUnlessErasureThrew ==
  Spec => []((\A o \in Objects : <<"erase", o>> \notin threw) => AllObjectsDestroyed)
<1>1. LeavesOnlyOrphans =>
        ((\A o \in Objects : <<"erase", o>> \notin threw) => AllObjectsDestroyed)
  BY DEF LeavesOnlyOrphans, AllObjectsDestroyed
<1> QED
  BY <1>1, OnlyOrphansLeft, PTL

-----------------------------------------------------------------------------
(* The container implements KeyedStore *)

\* Entries decide what each key reads, before and after a step.
LEMMA ReadIsNext ==
  ASSUME TypeOK', EntryInv'
  PROVE  /\ \A i \in DOMAIN memory' : ReadIn(memory', memory'[i].key) = memory'[i].object
         /\ \A k : (\A i \in DOMAIN memory' : memory'[i].key # k) => ReadIn(memory', k) = Null
         /\ \A k : read(k)' = ReadIn(memory', k)
<1>1. ASSUME NEW i \in DOMAIN memory'
      PROVE  ReadIn(memory', memory'[i].key) = memory'[i].object
  BY <1>1, ReadFinds DEF TypeOK, EntryInv
<1>2. \A k : (\A i \in DOMAIN memory' : memory'[i].key # k) => ReadIn(memory', k) = Null
  BY DEF ReadIn
<1>3. \A k : read(k)' = ReadIn(memory', k)
  BY DEF read, ReadIn
<1> QED
  BY <1>1, <1>2, <1>3

\* A step that leaves the vector alone, and does not destruct the container,
\* stutters.
LEMMA StoreStutters ==
  ASSUME UNCHANGED memory, phase # "gone", phase' # "gone"
  PROVE  UNCHANGED <<[k \in Keys |-> read(k)], phase # "gone">>
<1>1. \A k : read(k)' = read(k)
  BY DEF read
<1> QED
  BY <1>1

\* emplace_back is the Put of its key, ~shared_memory the Close.
LEMMA StoreStep ==
  IInv /\ IInv' /\ [Next]_vars => [Store!Next]_<<[k \in Keys |-> read(k)], phase # "gone">>
<1> SUFFICES ASSUME IInv, IInv', [Next]_vars
             PROVE  [Store!Next]_<<[k \in Keys |-> read(k)], phase # "gone">>
  OBVIOUS
<1> DEFINE st == [k \in Keys |-> read(k)]
           op == phase # "gone"
<1>1. CASE UNCHANGED vars
  <2>1. UNCHANGED <<memory, phase>>
    BY <1>1 DEF vars
  <2>2. \A k : read(k)' = read(k)
    BY <2>1 DEF read
  <2> QED
    BY <2>1, <2>2
<1>2. CASE Next
  <2>0. phase = "up"
    BY <1>2 DEF Next
  <2>1. CASE UNCHANGED memory /\ phase' # "gone"
    BY <2>0, <2>1, StoreStutters
  <2>2. ASSUME NEW t \in Threads, NEW grow \in BOOLEAN, EmplaceBack(t, grow)
        PROVE  Store!Next
    <3>1. /\ memory' = Append(memory, data[t]) /\ phase' = phase /\ pc[t] = "emplace"
      BY <2>2, EmplaceEffect DEF EmplaceBack
    <3>2. /\ data[t].key = key[t] /\ key[t] \in Keys
          /\ data[t].object \in 1 .. allocated
          /\ \A i \in DOMAIN memory : memory[i].key # key[t]
      BY <3>1 DEF IInv, LocalInv, KnownAt, Owning, Busy
    <3>3. data[t].object \in Objects
      BY <3>2, SharedMemoryAssumption DEF IInv, TypeOK, Objects
    <3>4. ~Stored(data[t].object)
      <4>1. writer = t /\ t # NoThread
        BY <3>1, SharedMemoryAssumption DEF IInv, LockInv, Busy, Owning
      <4>2. Making(data[t].object, Owning)
        BY <3>1, <4>1 DEF Making, Owning
      <4> QED
        BY <3>3, <4>2 DEF IInv, PlaceInv, PlaceOf
    <3>5. /\ Len(memory) \in Nat /\ DOMAIN memory = 1 .. Len(memory)
          /\ DOMAIN memory' = 1 .. Len(memory) + 1
          /\ \A i \in DOMAIN memory : memory'[i] = memory[i]
          /\ memory'[Len(memory) + 1] = data[t]
      <4>1. memory \in Seq(MetaData) /\ data[t] \in MetaData
        BY DEF IInv, TypeOK
      <4> QED
        BY <3>1, <4>1
    <3>6. read(key[t]) = Null
      BY <3>2, ReadIs DEF IInv
    <3>7. \A j \in Keys : read(j) # data[t].object
      <4> TAKE j \in Keys
      <4>1. CASE \E i \in DOMAIN memory : memory[i].key = j
        <5>1. PICK i \in DOMAIN memory : memory[i].key = j
          BY <4>1
        <5>2. read(j) = memory[i].object
          BY <5>1, ReadIs DEF IInv
        <5> QED
          BY <3>4, <5>2 DEF Stored
      <4>2. CASE \A i \in DOMAIN memory : memory[i].key # j
        <5>1. read(j) = Null
          BY <4>2, ReadIs DEF IInv
        <5> QED
          BY <3>3, <5>1, SharedMemoryAssumption DEF Objects
      <4> QED
        BY <4>1, <4>2
    <3>8. /\ \A i \in DOMAIN memory' : ReadIn(memory', memory'[i].key) = memory'[i].object
          /\ \A k : (\A i \in DOMAIN memory' : memory'[i].key # k) => ReadIn(memory', k) = Null
          /\ \A k : read(k)' = ReadIn(memory', k)
      BY ReadIsNext DEF IInv
    <3>9. ASSUME NEW j \in Keys
          PROVE  read(j)' = IF j = key[t] THEN data[t].object ELSE read(j)
      <4>1. CASE j = key[t]
        <5>1. Len(memory) + 1 \in DOMAIN memory'
          BY <3>5
        <5> QED
          BY <3>2, <3>5, <3>8, <4>1, <5>1
      <4>2. CASE j # key[t] /\ \E i \in DOMAIN memory : memory[i].key = j
        <5>1. PICK i \in DOMAIN memory : memory[i].key = j
          BY <4>2
        <5>2. i \in DOMAIN memory' /\ memory'[i] = memory[i]
          BY <3>5
        <5>3. read(j) = memory[i].object
          BY <5>1, ReadIs DEF IInv
        <5> QED
          BY <3>8, <4>2, <5>1, <5>2, <5>3
      <4>3. CASE j # key[t] /\ \A i \in DOMAIN memory : memory[i].key # j
        <5>1. \A i \in DOMAIN memory' : memory'[i].key # j
          BY <3>2, <3>5, <4>3
        <5>2. read(j) = Null
          BY <4>3, ReadIs DEF IInv
        <5> QED
          BY <3>8, <4>3, <5>1, <5>2
      <4> QED
        BY <4>1, <4>2, <4>3
    <3>10. Store!Put(key[t], data[t].object)
      <4>1. st[key[t]] = Null /\ \A j \in Keys : st[j] # data[t].object
        BY <3>2, <3>6, <3>7
      <4>2. [k \in Keys |-> read(k)'] = [st EXCEPT ![key[t]] = data[t].object]
        BY <3>9
      <4> QED
        BY <2>0, <3>1, <4>1, <4>2 DEF Store!Put
    <3> QED
      BY <3>2, <3>3, <3>10 DEF Store!Next
  <2>3. CASE Teardown
    <3>1. memory' = <<>> /\ phase' = "gone"
      BY <2>3 DEF Teardown
    <3>2. \A k : read(k)' = Null
      BY <3>1 DEF read
    <3>3. Store!Close
      BY <2>0, <3>1, <3>2 DEF Store!Close
    <3> QED
      BY <3>3 DEF Store!Next
  <2>4. ASSUME NEW t \in Threads, GetOrConstruct(t),
               ~(\E grow \in BOOLEAN : EmplaceBack(t, grow))
        PROVE  UNCHANGED memory /\ phase' # "gone"
    BY <2>0, <2>4 DEF GetOrConstruct, LockAndReread, AllocateObject, ConstructObject,
                      CreateDestructor, Throw, Reenter
  <2>5. ASSUME NEW t \in Threads, NEW k \in Keys, get(t, k) \/ GetFirst(t, k)
        PROVE  UNCHANGED memory /\ phase' # "gone"
    BY <2>0, <2>5 DEF get, GetFirst
  <2> QED
    BY <1>2, <2>1, <2>2, <2>3, <2>4, <2>5 DEF Next
<1> QED
  BY <1>1, <1>2

\* The container implements the keyed store, whose keys get one object, once.
THEOREM RefinesStore == Spec => ImplementsStore
<1>1. Init => Store!Init
  <2> SUFFICES ASSUME Init PROVE Store!Init
    OBVIOUS
  <2>1. \A k : read(k) = Null
    BY DEF Init, read
  <2> QED
    BY <2>1 DEF Init, Store!Init
<1> QED
  BY <1>1, StoreStep, Invariance, PTL DEF Spec, ImplementsStore, Store!Spec

-----------------------------------------------------------------------------
(* How a call ends, and what keeps it from ending *)

\* The steps a call of get_or_construct has left at most.
Left(t) ==
  CASE pc[t] = "upgrade" -> 5 [] pc[t] = "allocate" -> 4 [] pc[t] = "construct" -> 3
    [] pc[t] \in {"erase", "reenter"} -> 2 [] pc[t] = "emplace" -> 1 [] OTHER -> 0

\* A step takes a call nearer its end or leaves it and its locals alone.
NearsEnd(t) ==
  pc[t] # "idle" => Left(t)' < Left(t) \/ UNCHANGED <<pc[t], key[t], data[t]>>

\* Why a call of get_or_construct ends (shared_memory.hpp:169-202): no step, of
\* whatever thread, throwing or not, sends it back, so that it takes five steps
\* of its own at most.
THEOREM CallNearsEnd == Spec => [][\A t \in Threads : NearsEnd(t)]_vars
<1>1. ASSUME IInv, Next, NEW u \in Threads PROVE NearsEnd(u)
  <2>1. /\ pc \in [Threads -> {"idle", "upgrade", "allocate", "construct", "reenter",
                               "erase", "emplace"}]
        /\ key \in [Threads -> Keys \cup {Null}] /\ data \in [Threads -> MetaData]
    BY <1>1 DEF IInv, TypeOK
  <2>2. ASSUME NEW t \in Threads, NEW k \in Keys, get(t, k) \/ GetFirst(t, k) PROVE NearsEnd(u)
    <3>1. CASE get(t, k)
      BY <3>1 DEF get, local, NearsEnd
    <3>2. CASE GetFirst(t, k)
      BY <2>1, <3>2 DEF GetFirst, Goto, NearsEnd
    <3> QED
      BY <2>2, <3>1, <3>2
  <2>3. ASSUME NEW t \in Threads, GetOrConstruct(t) PROVE NearsEnd(u)
    <3>1. CASE LockAndReread(t)
      BY <2>1, <3>1 DEF LockAndReread, Goto, NearsEnd, Left
    <3>2. CASE AllocateObject(t)
      BY <2>1, <3>2 DEF AllocateObject, Goto, NearsEnd, Left
    <3>3. CASE ConstructObject(t)
      BY <2>1, <3>3 DEF ConstructObject, Goto, NearsEnd, Left
    <3>4. CASE CreateDestructor(t)
      BY <2>1, <3>4 DEF CreateDestructor, Goto, NearsEnd, Left
    <3>5. ASSUME NEW grow \in BOOLEAN, EmplaceBack(t, grow) PROVE NearsEnd(u)
      <4>1. /\ pc[t] = "emplace" /\ pc' = [pc EXCEPT ![t] = "idle"] /\ UNCHANGED key
            /\ data' = [data EXCEPT ![t] = Empty]
        BY <3>5 DEF EmplaceBack, Goto
      <4> QED
        BY <2>1, <4>1 DEF NearsEnd, Left
    <3>6. CASE Throw(t)
      <4>1. /\ pc[t] \in {"allocate", "construct", "erase", "emplace"}
            /\ pc' = [pc EXCEPT ![t] = "idle"] /\ UNCHANGED key
            /\ data' = [data EXCEPT ![t] = Empty]
        BY <3>6 DEF Throw, Goto
      <4> QED
        BY <2>1, <4>1 DEF NearsEnd, Left
    <3>7. CASE Reenter(t)
      BY <2>1, <3>7 DEF Reenter, Goto, NearsEnd, Left
    <3> QED
      BY <2>3, <3>1, <3>2, <3>3, <3>4, <3>5, <3>6, <3>7 DEF GetOrConstruct
  <2>4. CASE Teardown
    BY <2>4 DEF Teardown, local, NearsEnd
  <2> QED
    BY <1>1, <2>2, <2>3, <2>4 DEF Next
<1>2. IInv /\ [Next]_vars => [\A t \in Threads : NearsEnd(t)]_vars
  BY <1>1
<1> QED
  BY <1>2, Invariance, PTL DEF Spec

\* A constructor that calls back into its container stops everybody: from then
\* on no thread takes another step, not even a get of another key, and the
\* container is never destructed.
THEOREM ReentryStopsAll == Spec => [][\A u \in Threads : pc[u] # "reenter"]_vars
<1>1. ASSUME IInv, Next, NEW u \in Threads, pc[u] = "reenter" PROVE FALSE
  <2>1. writer = u /\ writer # NoThread
    BY <1>1, SharedMemoryAssumption DEF IInv, LockInv, Busy, Owning
  <2>2. \A t \in Threads : t # u => pc[t] \notin Busy
    BY <1>1, <2>1 DEF IInv, LockInv
  <2>3. ASSUME NEW t \in Threads, NEW k \in Keys, get(t, k) \/ GetFirst(t, k) PROVE FALSE
    BY <2>1, <2>3 DEF get, GetFirst
  <2>4. ASSUME NEW t \in Threads, GetOrConstruct(t) PROVE FALSE
    <3>1. ~LockAndReread(t)
      BY <2>1 DEF LockAndReread
    <3>2. pc[t] \in {"allocate", "construct", "erase", "emplace"}
      BY <2>4, <3>1 DEF GetOrConstruct, AllocateObject, ConstructObject, CreateDestructor,
                        EmplaceBack, Throw, Reenter
    <3>3. t # u /\ pc[t] \in Busy
      BY <1>1, <3>2 DEF Busy, Owning
    <3> QED
      BY <2>2, <3>3
  <2>5. ~Teardown
    BY <1>1 DEF Teardown
  <2> QED
    BY <1>1, <2>3, <2>4, <2>5 DEF Next
<1>2. IInv /\ [Next]_vars => [\A u \in Threads : pc[u] # "reenter"]_vars
  BY <1>1
<1> QED
  BY <1>2, Invariance, PTL DEF Spec

=============================================================================
