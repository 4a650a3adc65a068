# Taskete: TLA+ models, checks and proofs

Taskete is a small C++ library of the building blocks of a task scheduler.
This directory models the blocks that exist in the repository, checks them with
TLC on small instances and proves with TLAPS that every invariant, and
all four refinements, hold of every instance. `PROJECT.json` lists the runs, the findings, the theorems and, under
`map`, the source lines behind every definition.

Paths below are relative to the repository; `taskete/` stands for
`source/taskete/`.

## 1. The system

| component | state | operations | hard behaviours |
|---|---|---|---|
| `lockfree_ringbuffer` | slots, two atomic cursors, the atomic flag `did_C_reached_P` | `try_push`, `try_pull`, `empty`, `clear`, `free_space` | two threads, no lock, three atomics read and written one after the other |
| free list of a pool | `pool.head` and a pointer in every free block | `populate_list`, the unlinking in `construct`, `mark_as_free` | pointers stored in the memory that objects overwrite |
| `pool_helper` | two masks and a shift, from the options | `make_handle`, `extract_pool`, `extract_offset` | bit arithmetic at the edges of the options |
| `pool_manager` | vector of pools, `rw_mutex`, one spinlock and free list per pool | `construct`, `destroy`, `get`, destructor | a search without the pool's lock, a limit checked under another lock, exceptions |
| `spinlock` (`lock_helpers.hpp`) | an atomic flag | `lock`, `unlock` | not recursive |
| `shared_memory` | vector of `meta_data` (key, object, type-erased destructor), `memory_lock` | `get`, `get_or_construct`, destructor | upgrade from shared to unique lock, vector growth, exceptions half-way through a construction |
| `node`, `wait_list`, `execution_payload` | a node's payload, its wait list, their memory resource | construct, move, destroy, invoke | lifetime of type-erased objects |
| Graph, Scheduler, Worker | named by the documentation only | | |

How they interact, by the documentation: a Scheduler pushes tasks into the ring
of each Worker, which pulls them; a Graph keeps nodes in a `pool_manager`, and
the nodes of a graph share data through a `shared_memory`. In the code,
`pool_manager` calls `pool_helper` for its handles and guards each pool's free
list with a spinlock; the other components do not call each other.

What makes each of them correct:

- ring: elements come out once, in order, unchanged; no unread element is
  overwritten; an element that was pushed can be pulled eventually;
- free list: one acyclic list through exactly the free blocks;
- handles: `get` and `destroy` reach the block `construct` handed out;
- pool manager: every block has one owner, whatever other threads do and
  whatever throws; calls end; the memory goes back;
- shared memory: one object per key, pointers that stay good, every object
  destroyed exactly once;
- nodes: a payload and a wait list have one owner through all moves and go back
  to the resource as they were allocated.

## 2. Modules

| module | models | role |
|---|---|---|
| `BoundedFifo` | what the ring promises | abstract specification |
| `LockfreeRingbuffer` | `lockfree_ringbuffer.hpp` | one step per access to shared memory |
| `LockfreeRingbufferProofs` | | proofs, refinement of `BoundedFifo` included |
| `FreeList` | the free list in `pool_manager.hpp` | pointers in blocks |
| `FreeListProofs` | | proofs |
| `HandleWords` | words, shifts, `log2`, the masks | bit sets, any width |
| `PoolHelper` | `pool_helper.hpp` | the members and the three operations |
| `HandleNumbers` | | the numbers words stand for; handles compared with arithmetic |
| `MCPoolHelper` | | all options of a small width |
| `PoolHelperProofs` | | proofs |
| `PoolManager` | `pool_manager.hpp`, the spinlock | concurrent `construct` and `destroy` |
| `PoolManagerProofs` | | proofs |
| `PoolFreeLists` | | composes `PoolManager` with the lists of `FreeList` |
| `PoolFreeListsProofs` | | proof that every pool implements `FreeList` |
| `MCPoolManager` | | composes both with the handles of `PoolHelper` |
| `ReleaseAcquireRing` | the ring again, with the memory order it asks for | stores that become visible late |
| `ReleaseAcquireRingProofs` | | proofs |
| `Node` | `node.hpp`, `node.cpp`, `execution_payload.hpp` | owners of payloads and wait lists |
| `NodeProofs` | | proofs |
| `MCNode` | | wait lists and symmetry for TLC |
| `KeyedStore` | what `shared_memory` promises | abstract specification |
| `SharedMemory` | `shared_memory.hpp`, `shared_memory.cpp` | concurrent `get_or_construct` |
| `SharedMemoryProofs` | | proofs, refinement of `KeyedStore` included |

A definition whose comment starts with "Mutant of" is a wrong version of the
definition after it. `PROJECT.json` pairs it with the property that must fail
when it takes that definition's place; no specification uses it.

### 2.1 The ring

`LockfreeRingbuffer` has one producer thread (calls `try_push`) and one consumer
thread (calls `try_pull`, `empty`, `clear`), the use the tests and the internal
document describe. Cursors are indices from `head`. Every load or store of a
member that the other thread writes is an action of its own: for `try_push`,
`PushLoad` (lines 83-88), `PushLoadFlag` (88), `PushWrite` (91-94), `PushStore`
(95), `PushRecheck` (96), `PushFull` (97); for `try_pull`, `PullLoad`,
`PullLoadFlag`, `PullRead`, `PullStore`, `PullEmpty`; `empty` and `clear` alike. The
constructor is `Init`. `free_space` is an operator: the value of a call that
nothing overlaps.

Three variables are history. `fifo` is what was published and not pulled.
`c_avail` is its length when the consumer loaded the producer cursor. `collided`
records that a cursor store made the cursors meet inside the other thread's
window:

- the producer has stored its cursor (95) and has not yet decided and stored the
  flag (96-97), and the consumer's store catches up with it; or
- the consumer is committed to storing "empty" (117, 136, or between the load and
  the store of `clear`), and the producer's store catches up with it.

In both cases the late store of the flag is wrong: an empty ring is marked full,
or a full ring empty. These are the only two ways to break the ring, which is
what the properties with `~collided` and the theorems below say; the run
`ring_phantom` shows that they do break it.

Steps of this module interleave: memory is sequentially consistent. The code asks
for less, release stores and acquire loads. `ReleaseAcquireRing` gives each thread a
buffer of stores that the other one does not see yet. They become visible oldest
first (`PushVisible`, `PullVisible`), any time later, while the thread's own loads
go on and see its own stores (`Load`). That is what release and acquire allow
two threads here: a release keeps earlier stores before it, an acquire keeps
later accesses behind it, and a store may pass a later load (95 and 96). A store
order other than that of the buffers would need a second location that both threads
write; only the flag is one. A store with no load before the next one is entered
together with it, since entering a store is invisible: the slot and the cursor in
`try_push`, the cursor and the flag in `try_pull` and `clear`.

Late stores open a third way to collide: both threads have a store of the flag
under way (`FlagsRace`), and the older one may land last. The first two windows
close only when the flag store is visible. Outside the three, the results of the
interleaved model that speak of what threads read and write survive
(`PullReturnsOldest`, `PushNeverOverwrites`), and so does the reason: no slot is
read while a write to it is on the way (`NoPendingRace`). So does the refinement:
the ring is still a `BoundedFifo` of at most `Size` elements, whose pushes and pulls
are the steps at which a thread enters its cursor store (`EnteredIsFifo`).

### 2.2 The free list

`FreeList` keeps `head` and `next`, the first word of every block. `Pop` is the
unlinking in `construct`; it takes the word the object then writes over the link
as a parameter. `MarkAsFreeAlone` and `MarkAsFree` are the two branches of
`mark_as_free`, the walk being "the first block from which `WalksPast` is false".
`in_use` and `chain` are history: the blocks with objects and the list as a
sequence. Every operation has its pool to itself, so each is one step. The comment
in `mark_as_free` has the list ordered by address (`OrderedByAddress`), which the
code does not achieve: its walk starts at the head and inserts behind it.

### 2.3 Handles

A word is the set of its one-bits, so that the masks are set operations and the
width is a parameter. `Construct` is the constructor's three assignments. A shift by
the full width, which the default `max_pools` causes, is undefined; `Outcomes`
has both results builds produce. `Regular` says which options suit the helper:
a capacity that is a power of two, and offset bits, index bits and the bits
cleared by the shifts (as many as `max_pools` is long) that fit into a word
together. A pool manager makes one handle after another with a helper that never
changes, so a behaviour makes one. `HandleNumbers` says which number a word stands
for, the sum of the powers of two of its bits, and states the arithmetic that the
shifts and masks are meant to do. Its recursions are functions, not recursive
operators, so that the proofs can use them.

### 2.4 The pool manager

`PoolManager` has any number of threads. Code that runs alone under a lock is one
step. The search in `find_or_create_pool` looks at one head per step, because it
holds only `rw_mutex` shared while others write heads under `pool.mtx`; the pool
is created outside the locks (`CreatePool`) and added under the unique lock
(`PublishPool`), which needs that no thread is searching. `PopNull` is the
dereference of a null `head` and ends the behaviour with phase `crashed`. `new`,
`allocate`, `emplace_back`, the constructor and the destructor of `T` may throw. `destroy` locks
`pool.mtx`, calls `mark_as_free`, which locks it again, and spins
(`SpinInMarkAsFree`); the walk it would then do is the one of `FreeList`. `Teardown`
is the destructor. The history `live`, `stray` and `lost` names what callers hold,
and what exceptions left behind. `get` only reads and is the invariant
`LiveHandlesDecode`. `PoolFreeLists` maps each pool to the state of `FreeList`
(`List(p)`): head, links, blocks in use. `PoolsAreFreeLists` says that every step of
every thread is a step of those lists or leaves them alone.

### 2.5 Shared memory

`SharedMemory` numbers objects by allocation. `GetFirst` is the lookup of
`get_or_construct` under the shared lock, `LockAndReread` the one under the
unique lock, and `AllocateObject`, `ConstructObject`, `CreateDestructor` and
`EmplaceBack` are what follows, one step for each call that may throw; `Throw`
unwinds from any of them. `EmplaceBack` moves all elements when the vector grows
(`Move` is `meta_data`'s move constructor) and destructs what was moved from
(`Destruct` is `~meta_data`). `Teardown` is the implicit destructor, which destroys
the vector; by the document no object is then left (`AllObjectsDestroyed`), by the
code those are whose type-erased destructor could not be allocated, and nothing else
(`LeavesOnlyOrphans`). `Reenter` is a
constructor of `T` that uses the same container: its thread locks shared what it
holds exclusively, which is undefined and either waits forever or throws out of
the `noexcept` `get`.

### 2.6 Nodes

`Node` has places for node objects, a memory resource whose blocks are known by
address and size, and the pointers a caller has not given to a node yet. `Construct`
is node's constructor with that of `wait_list`, `Move` the move constructor,
`Invoke` a call of the payload, which terminates the program when the callable
throws. `destroy` has three outcomes. `DestroyNull`: the node was moved from.
`DestroyAborts` and `Destroy`: line 15 of `node.cpp` calls the virtual `size_of` on an
object whose destructor has run, which is undefined; it is a pure virtual call
when the destructor has reset the vptr, and answers as before when the compiler has
dropped that store. The payload is given back by the address of its virtual base.
`offset` is where the build puts that base: 0 under the Itanium ABI (Clang), not 0
where virtual bases come last (MSVC). The caller is external: it makes payloads in
blocks of their own size and destroys a node at most once.

## 3. Runs

Passing runs:

| run | instance | what it shows |
|---|---|---|
| `ring_1p1c` | 3 slots, 2 values, all calls overlapping | until a collision: the slots between the cursors hold the fifo (`RingHoldsFifo`), pulls return the oldest (`PullReturnsOldest`), no unread element is overwritten (`PushNeverOverwrites`), no slot is copied by both threads at once (`NoSlotRace`), `empty` never invents an element (`EmptyNeverInvents`), the settled flag is exact (`FlagIsExact`), the ring implements `BoundedFifo` (`FifoUntilCollision`), and a polling consumer gets what was pushed (`PolledIsPulled`); `free_space()` is right exactly while the producer cursor is below the consumer cursor (`FreeSpaceOnlyBehind`) |
| `ring_buffered` | 2 slots, 2 values, up to 3 stores of a thread on their way | the same ring with late stores: it implements `BoundedFifo` (`EnteredIsFifo`), `PullReturnsOldest`, `NoPendingRace`, the flag is exact once all is visible (`FlagExactWhenVisible`), and what was pushed is taken (`PushedIsTaken`) |
| `free_list` | 4 blocks | `Linked`, `EachBlockOnce`, and the order that is kept, behind the first block (`TailOrdered`) |
| `helper_regular` | 5 bits, all capacities and limits | `RegularHandleDecodes`; no other options let every handle decode (`RegularIsExact`) |
| `pool_manager` | 3 threads, pools of 2 blocks, `max_pools` 1, 4 constructs | `BlockHeldOnce`, `LiveHandlesDecode`, `MemoryReturned`, `ConstructEnds`, `PoolsAreFreeLists` |
| `shared_memory` | 3 threads, 2 keys, 4 calls | `SameObjectForKey`, `PointersStayValid`, `DestroyedOnce`, `LeavesOnlyOrphans`, `ImplementsStore`, `CallsEnd` |
| `node` | 3 places, 3 payloads of 2 sizes, both layouts | `BlocksHaveOneOwner`, `ReturnedAsAllocated`, `MovedNodeIsWhole` |

Each also checks its module's `TypeOK`.

Runs that end in a counterexample, each against a statement of the repository
that `PROJECT.json` quotes:

| run | what the code does |
|---|---|
| `ring_phantom` | the consumer takes the only element between lines 95 and 96 of `try_push`; the producer marks the empty ring full, and `try_pull` returns an element that is not there |
| `free_list_order` | a block below the head is freed and put behind the head, so the list is not ordered by address |
| `pool_search` | two threads find the same last free block; the second dereferences a null head. With `MaxPools = 1` the same run ends in the other half of the contract: two threads pass the check of `max_pools` and both add a pool |
| `pool_destroy` | `destroy` waits for a lock it holds |
| `shared_memory_orphan` | the allocation of the type-erased destructor throws after the object was constructed, and the object is never destroyed |

Three of them have a theorem that names the whole cause: without it the quoted
statement holds (`OrderedWhileFreedAbove`, `ApartKeepsContract`,
`DestroyedUnlessErasureThrew`; section 4).

Seen while modelling, where no document says otherwise: a capacity of 6 gives the mask
`101`, with which block 2 decodes as block 0, and the shifts that bound `pool_mask`
take as many bits as `max_pools` is long (capacity 128, `max_pools` 8192: pools from
2048 on decode wrongly); `RegularIsExact` says which options serve, and that no others
do. `free_space()` is 0 on a new ring and `size()` on a full one
(`FreeSpaceOnlyBehind` says when it is right);
`node::destroy` uses its payload after destroying it, and where the virtual base does
not come first gives the wrong address back (`ReturnedAsAllocated` excepts those
builds); a pool whose `emplace_back` throws leaks (`MemoryReturned` excepts it); a
constructor that uses its own container waits for itself (`CallsEnd` excepts it).
The last three are described by the properties, not caught.

### Bounds, and why they are enough

- Ring of 3 slots: the cursors wrap, the ring can be full, empty and in between
  with each cursor ahead of the other, and a push and a pull of neighbouring
  slots can overlap. `Backlog` bounds `fifo` and is reached only after a
  collision, when `fifo` may grow past the ring; with `Backlog >= Size` it
  forbids no step before that.
- Late stores: two slots and three stores per thread are enough for a thread to run
  a whole call ahead of what the other one sees, with the cursor stores of two
  pushes or a cursor and a flag on the way. The invariants also hold for 3 slots
  and 4 stores (26.7 million states, five minutes, so not among the runs).
- Free list of 4 blocks: insertion at the front, in the middle and at the end,
  behind a head above or below the block.
- Words of 5 bits: every pair of options, among them regular ones with two
  offset bits or two index bits, and limits at which the shift is undefined.
- Pool manager: three threads are one more than a race needs; at a limit of one
  pool of two blocks the pool is exhausted, the limit is met and passed, and up to
  three pools are added concurrently. `Calls` bounds the number of constructs.
- Shared memory: two keys, so that one can be constructed while another is looked
  up; four calls with any of them throwing, so that a key can be retried after
  an exception and the vector grows while pointers are out.
- Nodes: three places, so that a node moves twice and back; `Allocs` bounds the
  allocations, three payloads with their lists. Lists of no and of two handles, so
  that a size that stays behind is noticed.

The theorems of section 4 need none of these bounds; a bound on calls, allocations
or stores under way is there a constant of any value. The runs remain the check
that the model does what it is meant to, and the only one of liveness.

The runs of `pool_manager`, `shared_memory`, `node` and the helper say
`CHECK_DEADLOCK FALSE` since their systems stop: the container is destructed,
the calls are used up, or the thread has crashed. The ring and the free list never
stop, and TLC checks that.

### Fairness

- Ring: weak fairness of the steps inside a call (`ProducerStep`,
  `ConsumerStep`), since the calls contain no wait, so a thread that is scheduled
  ends them; strong fairness of `PullLoad`, which is the polling loop of the tests (a
  Worker that calls `empty` or `clear` in between still comes back to `try_pull`).
  The producer need not call at all. With late stores, also weak fairness of
  `PushVisible` and `PullVisible`: the C++ standard has stores become visible in
  finite time. There an element may go by `clear` while the polls in between do not
  see the next one yet, so `PushedIsTaken` counts `clear` too, also one that sees
  nothing.
- Pool manager and shared memory: weak fairness of each thread's steps inside a
  call. A lock step waits until the lock is free; that a waiting thread gets in
  although others take the lock again is up to `std::shared_mutex`, and here follows
  from the bound on calls. Starting a call is not fair.

## 4. Proofs

TLAPS checks eight modules to the last leaf. All theorems are about the
specifications the runs use, and every assumption is evaluated by a run.

`LockfreeRingbufferProofs`, for every `Size > 0` and every set of values:
`TypeCorrect`; `Invariance` of `IInv`; and from it `RingIsFifo`, `PullIsOldest`,
`PushIsSafe`, `SlotsAreExclusive`, `EmptyIsSound`, `FlagTells` and `RefinesFifo`.
Calls that do not overlap never collide (`SerialNeverCollides`), so they make
the ring the queue outright (`SerialIsFifo`). `FreeSpaceTells` is about a quiet
ring. The assumption is `RingAssumption`.

`RingHoldsFifo` is not inductive: that a push finds a free slot and a pull an
element depends on the flag, and on what a thread loaded some steps ago. `IInv`
adds, until a collision,

- `FlagInv`: what equal cursors mean in each combination of windows;
- `ProducerInv`: a producer past its checks has a free slot, and has written
  it by the time it publishes;
- `ConsumerInv`: what the consumer loaded is still there, and an element it is
  about to read exists.

Each step of either thread is a lemma or a case. A few lemmas on `Succ` and `Place`
carry all the wrap-around arithmetic. For the refinement, `ContentsIsFifo` shows that
what can be read off slots, cursors and flag is the history `fifo`, so that a step of
the ring is a step of the queue or leaves it alone.

`ReleaseAcquireRingProofs`, for every `Size > 0` and every depth of the store buffers:
`BufferedTypes`, and from `BufferedInvariance` the theorems `NoLateWrite`,
`FlagTellsEmptyFromFull`, `BufferedPullsOldest` and `BufferedPushKeepsUnread`. None of
these is close to inductive: a thread's stores are in its buffer, in memory, or overwritten, and
slots repeat after a lap. The invariant `BufferedInv` says that, until a collision,
there are two functions that number things without wrapping, counted from the
consumer cursor the producer sees: `pub[i]` is the last element published once the
first `i` stores of the producer are visible, `rel[i]` the last one released once
the first `i` of the consumer are. In terms of these

- `CStores` and `PStores` say what each buffer holds and in which order: an
  element is always followed by the cursor that publishes it;
- `Positions` says that both threads' cursors, and memory's, are at their positions
  modulo `Size`, and the visible elements are in their slots;
- `Flags` says what each thread may conclude from the flag it can see, with its
  own store of it and the other's under way;
- `Producer` and `Consumer` say that what a thread loaded earlier is still good.

The whole argument is that nothing is more than `Size` positions apart. Each
step is a lemma that gives the functions for the next state: entering a store
appends to one, a store becoming visible drops its first value, and a visible
consumer cursor also shifts the origin of both (`PullVisibleKeeps`).
`BufferedRefinesFifo` is the refinement of `BoundedFifo` by this ring: the
positions bound the queue by `Size` (`EntersQueue`), and a store that becomes
visible leaves it alone.

`FreeListProofs`, for every capacity: `ListIsLinked`, `BlocksAreKept`,
`TailIsOrdered`, `TypeCorrect`. The invariant is the conjunction of the four:
the walk of `mark_as_free` is known to follow `chain` only because the list is linked,
and to change no other link only because each block is on it once.
`OrderedWhileFreedAbove`: the whole list is ordered as long as no block below the head
is freed, so that `free_list_order` shows the only way to lose the order.

`PoolHelperProofs`, for every width: `TypeCorrect` for all options, and
`HandlesDecode` for options that suit the helper. The argument is on bit positions:
a power of two gives the mask `0 .. k - 1` and the shift `k` (`DecPower`), an
index below `max_pools` has no bit above those of `max_pools - 1` (`IndexBits`),
and the mask has every bit from `k` up to where the shift cuts (`RegularMask`);
`WordsDecode` puts them together. The converse holds too. `OnlyPowersDecode`: a
capacity that is no power of two has a block that no handle decodes to, its lowest
bit. `ExactOptions`, the theorem for `RegularIsExact`: where
the constructor's shifts are defined, every handle decodes only if the options are
`Regular`, since an index with the top bit of `max_pools - 1` needs it.

`HandlesAreNumbers`: with regular options the handle is the number
`index * capacity + offset`, for every width (`RegularHandleIsNumber`). It needs
inductions over the bits, and the library's induction theorems cannot be used
(section 4, end). They are replaced by first-order statements about sets and
functions: `SetInduction` (a set of numbers that has 0 and with `n` also `n + 1` is
`Nat`, from the well-foundedness of `<`) and `NatRecursion` (a function given by its
value one below exists, so `pow2` and `Lowest` satisfy their defining equations).
`LowestShift`, what a word is worth whose upper bits are another word, is the
heart of it; `HandleValue` and `DivMod` are the arithmetic. `WordOfNumber` goes back
from numbers to words, and `HelperServesManager` is the result in the form the pool
manager needs.

`PoolManagerProofs`, for any finite set of threads and any capacity, limit and number
of calls: `Types`, `HandlesStayGood`, `OneHolder`, `PoolsReturned`. The assumptions are
`PoolAssumption` and `HandlesDecode`: that the handles the manager makes decode.
The latter is assumed for every index below `Calls`, because threads can pass the
limit together (`pool_search`). `HelperServesManager` proves it of the helper: with a
capacity of `2^k` blocks the handles of all pools below `2^d` decode, past the limit
too, as long as `k`, `d` and the length of `max_pools` add up to no more than the
width. The run evaluates it with the helper's own handles. `IInv` adds to the properties:

- `ListInv`, `UserInv`, `LiveInv`, `HeldInv`: `BlockHeldOnce` taken apart into the four ways to
  hold a block, each with at most one holder, so that no step has to count;
- `PlaceInv`: what a thread found is where its index says although it holds no
  lock any more, and an unpublished pool is known to its creator alone;
- `MemoryInv`: where every pool's memory is while threads are inside;
- `HandleInv`: a live handle was made of the index its pool still has;
- `CountInv`: calls that may still add a pool are counted, so an index stays below
  `Calls`, where handles decode.

Two theorems are the safety half of `ConstructEnds`. `ConstructNearsEnd`: `Left(t)`,
the steps a construct has left at most, never grows, whatever other threads do, and
drops with its own steps; it needs that a search has not run past the vector
(`SearchInv`) and that no pool is added while a thread searches. `OnlyDestroyHolds`:
the one thread that keeps a pool's lock from step to step is a `destroy` caught in
`mark_as_free`, which is what `ConstructEnds` makes an exception for.

Three more say what the races of `pool_search` take. `ApartSpec` is the
specification without overlapping searches, from the first look at a pool to the
unlinking of the block, and otherwise with all the concurrency there is. Under it
`max_pools` is a limit (`ApartWithinLimit`) and the pool that was found has a block
(`ApartFindsBlock`), so that `find_or_create_pool` keeps its contract
(`ApartKeepsContract`): a lock around these lines of `construct` would do.

`PoolFreeListsProofs`: `EveryPoolIsAList`, that each pool starts as a populated list and
only ever takes steps of `FreeList`. `ListInv` is what it needs of the invariant: a
block's successor is well defined only while no block is on the list twice
(`LinkFacts`); `Unlink` then shows that taking the head off the sequence is `Pop` on the
links.

`SharedMemoryProofs`, for any finite set of threads, any keys and number of calls:
`Types`, `OneObjectForKey`, `ValidPointers`, `NoDoubleDestroy`, `OnlyOrphansLeft`
(with `DestroyedUnlessErasureThrew`: one allocation is to blame for every object left),
and `RefinesStore`, that the container implements `KeyedStore`. `SameObjectForKey`
alone says nothing of the calls under way. `IInv` adds

- `LockInv` and `LocalInv`: the thread between lock and unlock is the writer, and the
  key it found missing on its second look is still missing when it adds the entry;
- `EntryInv` and `PlaceInv`: neither keys nor objects are in the vector twice, and an
  object is in one place, the vector, the writer's hands or left behind by a throw;
- `HeapInv`: exactly what is in one of these places is alive, has storage and has a
  destructor object;
- `ReturnInv`, `GoneInv`, `CountInv`: what callers were given is in the vector, nobody
  is inside a destructed container, a call allocates at most one object.

Growing the vector is the delicate step: `EmplaceBack` moves and destructs every
element, and the lemmas about it show that each object keeps exactly one owner.

`CallNearsEnd` and `ReentryStopsAll` are the safety half of `CallsEnd`: no step of any
thread sends a call back, and a constructor that calls back into its container stops
everybody, readers of other keys included.

`NodeProofs`, for any places, sizes, wait lists, offsets and number of allocations:
`Types`, `OneOwner`, `GivenBackAsTaken`, `WholeAfterMoves`. The assumption is
`NodeAssumption` (sizes and offsets are numbers, lists have a length, `Null` is no
address). `IInv` adds that a node that can run has a payload and a list of its
own (`WholeInv`, `ApartInv`), that a live payload is the caller's or a node's (`KeptInv`), and that
every block that is out is owned or was given back by the wrong address
(`OwnerInv`). That an address is never handed out twice (`BlockInv`) is what keeps a
destroyed payload apart from a new one.

Model-checked only: all liveness (`PolledIsPulled`, `PushedIsTaken`, `ConstructEnds`,
`CallsEnd`, `DestroyReturns`), since the prover has neither fairness nor `ENABLED`. Of
`ConstructEnds` and `CallsEnd` it has the measure that goes down; that a thread which
can take a step does take it is fairness. Also out of its reach is any theorem with an
operator as a parameter, the library's induction theorems among them; where a proof
needs induction it goes over a set of numbers.

## 5. Not modelled

- Graph, Scheduler and Worker: no code. In particular nothing decrements a
  node's `wait_counter` or walks a wait list yet.
- `source/spdlog`: 96 of 100 lines of C++ in the repository are this vendored
  library and the formatting library inside it. No file of Taskete includes it,
  and the option that compiles it is off (`CMakeLists.txt:7`). Nothing Taskete does
  depends on it, so a model of it would say nothing about Taskete. `test/doctest.h`
  is the test framework.
- Byte layout: a `T` smaller than a free-list node, alignment, and a capacity or a
  ring size of 0.
- More than one producer or consumer thread on a ring, which the documentation
  does not ask for.
- Code that is never called: `meta_data`'s move assignment and `pool`'s move
  constructor.
- Macros without behaviour (`macro_utils.hpp`).

All of Taskete's own state-changing code is modelled.

## 6. Plan

Done in this order: the ring (the only lock-free code), the free list and the
handles it shares a pool with, the pool manager that uses both, the shared memory,
the ring under its real memory order, the nodes, and the composition of pool manager
and free list.

The proofs followed in the order ring, free list, handles, shared memory, pool manager,
nodes, ring with late stores and its refinement, composition of pool manager and free
list, handles as numbers, and last what the violations of the runs take and no more.
What is left is the liveness that section 4 lists as only model-checked. Graph, Scheduler and Worker are to be added when
there is code for them: the composition of a ring with the Worker that polls it,
and of nodes with the pool manager that stores them.
