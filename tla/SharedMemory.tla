---------------------------- MODULE SharedMemory ----------------------------
(***************************************************************************)
(* source/taskete/shared_memory.hpp and shared_memory.cpp: threads that    *)
(* get and construct objects by key, and the destruction of the container. *)
(*                                                                         *)
(* Objects are numbered in the order of their allocation.  A section under *)
(* the shared lock only reads, so it is one step, taken while no thread    *)
(* holds the lock exclusively; the section under the unique lock is one    *)
(* step for each call that may throw.                                      *)
(***************************************************************************)
EXTENDS Integers, Sequences, FiniteSets

CONSTANTS Threads, NoThread,
          Keys,    \* the keys
          Null,    \* nullptr
          Calls    \* bound on the calls of get_or_construct

Objects == 1 .. Calls

ASSUME SharedMemoryAssumption ==
  /\ IsFiniteSet(Threads) /\ NoThread \notin Threads
  /\ Calls \in Nat /\ Null \notin Nat /\ Null \notin Keys

VARIABLES
  memory,     \* the vector of meta_data
  writer,     \* the thread that holds memory_lock exclusively, or NoThread
  pc, key,    \* each thread's next step and the key it asked for
  data,       \* the local meta_data of each thread
  storage,    \* objects whose storage is allocated
  alive,      \* objects constructed and not destroyed
  dtors,      \* objects whose destructor_implementation is allocated
  allocated,  \* history: number of objects ever allocated
  destroyed,  \* history: how often each object's destructor ran
  threw,      \* history: the steps that threw and the object they were making
  returned,   \* history: the pairs <<key, object>> handed to callers
  calls,      \* history: number of calls of get_or_construct
  phase       \* "up", "gone" (destructed) or "terminated" (std::terminate)

local == <<pc, key, data>>
heap  == <<storage, alive, dtors, allocated, destroyed, threw>>
vars  == <<memory, writer, local, heap, returned, calls, phase>>

\* meta_data{}.  Its key is 0; no lookup ever meets one in the vector.
Empty == [key |-> Null, object |-> Null, dtor |-> Null]

Init ==
  /\ memory = <<>> /\ writer = NoThread
  /\ pc = [t \in Threads |-> "idle"]
  /\ key = [t \in Threads |-> Null]
  /\ data = [t \in Threads |-> Empty]
  /\ storage = {} /\ alive = {} /\ dtors = {} /\ allocated = 0
  /\ destroyed = [o \in Objects |-> 0]
  /\ threw = {} /\ returned = {} /\ calls = 0 /\ phase = "up"

Goto(t, step) == pc' = [pc EXCEPT ![t] = step]

-----------------------------------------------------------------------------
(* meta_data *)

\* Mutant of Move: copies instead of swapping.
MoveCopies(other) == [to |-> other, from |-> other]

\* meta_data(meta_data&& other): the new element and what is left of other.
Move(other) == [to |-> other, from |-> Empty]

\* Mutant of Destruct: dtor->destroy() is missing.
DestructLeavesDtor(ms) ==
  LET owned == {m.dtor : m \in ms} \ {Null}
  IN /\ alive' = alive \ owned
     /\ storage' = storage \ owned
     /\ destroyed' = [o \in Objects |->
                        destroyed[o] + Cardinality({m \in ms : m.dtor = o})]
     /\ UNCHANGED dtors

\* ~meta_data of the elements of ms: destroy and deallocate what they own.
Destruct(ms) ==
  LET owned == {m.dtor : m \in ms} \ {Null}
  IN /\ alive' = alive \ owned
     /\ storage' = storage \ owned
     /\ dtors' = dtors \ owned
     /\ destroyed' = [o \in Objects |->
                        destroyed[o] + Cardinality({m \in ms : m.dtor = o})]

-----------------------------------------------------------------------------
(* get and get_or_construct *)

\* read: the object of the first entry with that key, or nullptr.
read(k) ==
  IF \E i \in DOMAIN memory : memory[i].key = k
  THEN LET i == CHOOSE i \in DOMAIN memory :
                  memory[i].key = k /\ \A j \in 1 .. i - 1 : memory[j].key # k
       IN  memory[i].object
  ELSE Null

\* The caller gets obj; nullptr is not remembered.
Return(k, obj) ==
  returned' = IF obj = Null THEN returned ELSE returned \cup {<<k, obj>>}

get(t, k) ==
  /\ pc[t] = "idle" /\ writer = NoThread
  /\ Return(k, read(k))
  /\ UNCHANGED <<memory, writer, local, heap, calls, phase>>

\* get_or_construct first looks under the shared lock, ...
GetFirst(t, k) ==
  /\ pc[t] = "idle" /\ writer = NoThread /\ calls < Calls
  /\ calls' = calls + 1
  /\ key' = [key EXCEPT ![t] = k]
  /\ Goto(t, IF read(k) # Null THEN "idle" ELSE "upgrade")
  /\ Return(k, read(k))
  /\ UNCHANGED <<memory, writer, data, heap, phase>>

\* Mutant of LockAndReread: trusts what it saw under the shared lock.
LockWithoutReread(t) ==
  /\ pc[t] = "upgrade" /\ writer = NoThread
  /\ writer' = t /\ Goto(t, "allocate")
  /\ UNCHANGED <<memory, key, data, heap, returned, calls, phase>>

\* ... then again under the unique lock.
LockAndReread(t) ==
  /\ pc[t] = "upgrade" /\ writer = NoThread
  /\ IF read(key[t]) # Null
     THEN Goto(t, "idle") /\ UNCHANGED writer
     ELSE Goto(t, "allocate") /\ writer' = t
  /\ Return(key[t], read(key[t]))
  /\ UNCHANGED <<memory, key, data, heap, calls, phase>>

\* meta_data::create: storage for the object, ...
AllocateObject(t) ==
  /\ pc[t] = "allocate"
  /\ allocated' = allocated + 1
  /\ storage' = storage \cup {allocated'}
  /\ data' = [data EXCEPT ![t] = [key |-> key[t], object |-> allocated',
                                  dtor |-> Null]]
  /\ Goto(t, "construct")
  /\ UNCHANGED <<memory, writer, key, alive, dtors, destroyed, threw,
                 returned, calls, phase>>

\* ... the object, ...
ConstructObject(t) ==
  /\ pc[t] = "construct"
  /\ alive' = alive \cup {data[t].object}
  /\ Goto(t, "erase")
  /\ UNCHANGED <<memory, writer, key, data, storage, dtors, allocated, destroyed,
                 threw, returned, calls, phase>>

\* ... and its type-erased destructor.
CreateDestructor(t) ==
  /\ pc[t] = "erase"
  /\ dtors' = dtors \cup {data[t].object}
  /\ data' = [data EXCEPT ![t].dtor = data[t].object]
  /\ Goto(t, "emplace")
  /\ UNCHANGED <<memory, writer, key, storage, alive, allocated, destroyed,
                 threw, returned, calls, phase>>

\* Mutant of EmplaceBack: returns without unlocking.
EmplaceBackKeepsLock(t, grow) ==
  /\ pc[t] = "emplace"
  /\ memory' = Append(memory, Move(data[t]).to)
  /\ Return(key[t], data[t].object)
  /\ data' = [data EXCEPT ![t] = Empty]
  /\ Goto(t, "idle")
  /\ UNCHANGED <<writer, heap, key, calls, phase>>

\* Mutant of EmplaceBack: a growing vector leaves its elements behind.
EmplaceBackDropsOld(t, grow) ==
  /\ pc[t] = "emplace"
  /\ memory' = (IF grow THEN <<>> ELSE memory) \o <<Move(data[t]).to>>
  /\ Return(key[t], data[t].object)
  /\ data' = [data EXCEPT ![t] = Empty]
  /\ writer' = NoThread /\ Goto(t, "idle")
  /\ UNCHANGED <<heap, key, calls, phase>>

\* emplace_back, which moves the elements when the vector has to grow, then
\* the destructors of what was moved from, unlock and return.
EmplaceBack(t, grow) ==
  /\ pc[t] = "emplace"
  /\ memory' = [i \in DOMAIN memory |-> IF grow THEN Move(memory[i]).to ELSE memory[i]]
                 \o <<Move(data[t]).to>>
  /\ Destruct({Move(data[t]).from} \cup
              {Move(memory[i]).from : i \in IF grow THEN DOMAIN memory ELSE {}})
  /\ Return(key[t], data[t].object)
  /\ data' = [data EXCEPT ![t] = Empty]
  /\ writer' = NoThread /\ Goto(t, "idle")
  /\ UNCHANGED <<key, allocated, threw, calls, phase>>

\* A step under the unique lock throws: ~meta_data runs for the local data,
\* which owns nothing before CreateDestructor has run, and the lock is freed.
Throw(t) ==
  /\ pc[t] \in {"allocate", "construct", "erase", "emplace"}
  /\ threw' = threw \cup {<<pc[t], data[t].object>>}
  /\ Destruct({data[t]})
  /\ data' = [data EXCEPT ![t] = Empty]
  /\ writer' = NoThread /\ Goto(t, "idle")
  /\ UNCHANGED <<memory, key, allocated, returned, calls, phase>>

\* T's constructor itself calls get or get_or_construct, and so locks
\* memory_lock shared, which its thread holds exclusively: undefined, it waits
\* for itself or the implementation notices and throws out of the noexcept get.
Reenter(t) ==
  /\ pc[t] = "construct"
  /\ \/ Goto(t, "reenter") /\ UNCHANGED phase
     \/ phase' = "terminated" /\ UNCHANGED pc
  /\ UNCHANGED <<memory, writer, key, data, heap, returned, calls>>

\* ~shared_memory, implicit, when no thread is inside: the member memory
\* destructs its elements.
Teardown ==
  /\ \A t \in Threads : pc[t] = "idle"
  /\ Destruct({memory[i] : i \in DOMAIN memory})
  /\ memory' = <<>>
  /\ phase' = "gone"
  /\ UNCHANGED <<writer, local, allocated, threw, returned, calls>>

GetOrConstruct(t) ==
  \/ LockAndReread(t) \/ AllocateObject(t) \/ ConstructObject(t)
  \/ CreateDestructor(t) \/ (\E grow \in BOOLEAN : EmplaceBack(t, grow))
  \/ Throw(t) \/ Reenter(t)

Next ==
  /\ phase = "up"
  /\ \/ \E t \in Threads :
          (\E k \in Keys : get(t, k) \/ GetFirst(t, k)) \/ GetOrConstruct(t)
     \/ Teardown

Spec == Init /\ [][Next]_vars

\* A thread inside a call keeps running and gets the lock once it stays free
\* (Calls bounds how often others can overtake it).
FairSpec ==
  Spec /\ \A t \in Threads : WF_vars(phase = "up" /\ GetOrConstruct(t))

-----------------------------------------------------------------------------
MetaData == [key : Keys \cup {Null}, object : Objects \cup {Null},
             dtor : Objects \cup {Null}]

\* The type of the state.
TypeOK ==
  /\ memory \in Seq(MetaData)
  /\ writer \in Threads \cup {NoThread}
  /\ pc \in [Threads -> {"idle", "upgrade", "allocate", "construct", "reenter",
                         "erase", "emplace"}]
  /\ key \in [Threads -> Keys \cup {Null}]
  /\ data \in [Threads -> MetaData]
  /\ storage \subseteq Objects /\ alive \subseteq storage /\ dtors \subseteq alive
  /\ allocated \in 0 .. calls /\ calls \in 0 .. Calls
  /\ destroyed \in [Objects -> Nat]
  /\ \A x \in threw : x[2] \in Objects \cup {Null}
  /\ returned \subseteq Keys \X Objects
  /\ phase \in {"up", "gone", "terminated"}

\* "only 1 thread will construct the object" (shared_memory.hpp:137): callers
\* that ask for one key, at whatever time, get one and the same object, and
\* nobody else's.
SameObjectForKey ==
  \A r, s \in returned : r[1] = s[1] <=> r[2] = s[2]

\* A pointer handed out stays good, however the vector grows and whatever
\* other calls throw, until the container is destructed.
PointersStayValid ==
  phase = "up" => \A r \in returned : r[2] \in alive /\ read(r[1]) = r[2]

\* No object is destroyed twice, also when the vector moves its elements, and
\* a destroyed one does not keep its storage.
DestroyedOnce ==
  \A o \in Objects : destroyed[o] <= 1 /\ (destroyed[o] = 1 => o \notin storage)

Store == INSTANCE KeyedStore WITH
           store <- [k \in Keys |-> read(k)], open <- phase # "gone"

\* The container implements the keyed store: a key gets one object, once.
ImplementsStore == Store!Spec

\* Every call of get_or_construct returns or throws, unless a constructor calls
\* back into the container: that one call stops every thread for good.
CallsEnd ==
  \A t \in Threads :
    pc[t] # "idle" ~> \/ pc[t] = "idle" \/ phase = "terminated"
                      \/ \E u \in Threads : pc[u] = "reenter"

\* "we also need to destroy all the objects constructed by the user"
\* (SharedMemory.md:56): no object is alive once its container is destructed.
AllObjectsDestroyed == phase = "gone" => alive = {}

\* Whatever threw, and however the vector grew, the destructed container has
\* destroyed and deallocated everything but what a throwing create may orphan:
\* an object only when the allocation of its destructor threw, storage
\* without an object only when T's constructor did.
LeavesOnlyOrphans ==
  phase = "gone" =>
    /\ alive \subseteq {o \in Objects : <<"erase", o>> \in threw}
    /\ storage \subseteq alive \cup {o \in Objects : <<"construct", o>> \in threw}
    /\ dtors = {}

=============================================================================
