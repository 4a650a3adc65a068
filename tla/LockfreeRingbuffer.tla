------------------------- MODULE LockfreeRingbuffer -------------------------
(***************************************************************************)
(* source/taskete/lockfree_ringbuffer.hpp, used as its tests use it: one   *)
(* producer thread (the Scheduler) calls try_push, one consumer thread     *)
(* (the Worker) calls try_pull, empty and clear.                           *)
(*                                                                         *)
(* Every access to a member another thread writes is one step.  A thread's *)
(* load of the cursor only it writes is merged with the step that follows. *)
(* Cursors are indices from `head'; accesses interleave (sequential        *)
(* consistency).                                                           *)
(***************************************************************************)
EXTENDS Integers, Sequences

CONSTANTS Size,     \* _size, the number of slots
          Values,   \* the values of the element type T
          Garbage,  \* what a default-initialised, never written slot holds
          Overlap,  \* whether calls of the two threads may overlap in time
          ConsumerCalls,  \* what the consumer thread calls: pull, empty, clear
          Backlog   \* bound on fifo; only a ring that lost elements meets it

ASSUME RingAssumption ==
  /\ Size \in Nat \ {0}
  /\ Garbage \notin Values
  /\ Overlap \in BOOLEAN
  /\ ConsumerCalls \subseteq {"pull", "empty", "clear"}
  /\ Backlog \in Nat /\ Backlog >= Size

VARIABLES
  slots,            \* the storage at head[0 .. Size - 1]
  producer_cursor,  \* index of the last slot written
  consumer_cursor,  \* index of the last slot read
  did_C_reached_P,  \* the flag that tells empty from full when they coincide
  p_pc, p_elem,     \* producer thread: next step, argument of try_push
  c_pc, c_elem,     \* consumer thread: next step, element read by try_pull
  c_seen,           \* the producer cursor the consumer thread loaded
  fifo,             \* history: elements published and not yet pulled
  c_avail,          \* history: Len(fifo) when c_seen was loaded
  collided          \* history: a cursor store met the other cursor inside
                    \* the other thread's window: Unsettled, DeclaringEmpty

ring  == <<slots, producer_cursor, consumer_cursor, did_C_reached_P>>
cvars == <<c_pc, c_elem, c_seen, c_avail>>
vars  == <<ring, p_pc, p_elem, cvars, fifo, collided>>

Slots == 0 .. Size - 1

\* Mutant of Succ: wraps one slot too late.
LateWrap(i) == IF i = Size THEN 0 ELSE i + 1

\* The cursor after i: ++cursor, wrapped at head + size().
Succ(i) == IF i + 1 = Size THEN 0 ELSE i + 1

Init ==
  /\ slots = [i \in Slots |-> Garbage]
  /\ producer_cursor = 0
  /\ consumer_cursor = 0
  /\ did_C_reached_P = TRUE
  /\ p_pc = "idle" /\ p_elem = Garbage
  /\ c_pc = "idle" /\ c_elem = Garbage /\ c_seen = 0 /\ c_avail = 0
  /\ fifo = <<>>
  /\ collided = FALSE

\* A thread starts a call: at any time, or only while the other one is idle.
MayCall(other) == Overlap \/ other = "idle"

-----------------------------------------------------------------------------
\* The producer has published its cursor and has not settled the flag yet.
Unsettled == p_pc \in {"push_recheck", "push_full"}

\* The consumer is committed to declaring the ring empty.
DeclaringEmpty == c_pc \in {"pull_empty", "clear_store", "clear_empty"}

-----------------------------------------------------------------------------
(* bool try_push(T const& elem) *)

\* Mutant of PushLoad: a full ring is not noticed.
PushLoadIgnoresFull(elem) ==
  /\ p_pc = "idle" /\ MayCall(c_pc)
  /\ Len(fifo) <= Backlog
  /\ p_elem' = elem
  /\ p_pc' = "push_write"
  /\ UNCHANGED <<ring, cvars, fifo, collided>>

PushLoad(elem) ==
  /\ p_pc = "idle" /\ MayCall(c_pc)
  /\ Len(fifo) <= Backlog
  /\ p_elem' = elem
  /\ p_pc' = IF producer_cursor = consumer_cursor
             THEN "push_flag" ELSE "push_write"
  /\ UNCHANGED <<ring, cvars, fifo, collided>>

PushLoadFlag ==
  /\ p_pc = "push_flag"
  /\ p_pc' = IF did_C_reached_P THEN "push_write" ELSE "idle"
  /\ UNCHANGED <<ring, p_elem, cvars, fifo, collided>>

\* Mutant of PushWrite: writes before advancing the cursor.
PushWriteAtCursor ==
  /\ p_pc = "push_write"
  /\ slots' = [slots EXCEPT ![producer_cursor] = p_elem]
  /\ p_pc' = "push_store"
  /\ UNCHANGED <<producer_cursor, consumer_cursor, did_C_reached_P, p_elem,
                 cvars, fifo, collided>>

PushWrite ==
  /\ p_pc = "push_write"
  /\ slots' = [slots EXCEPT ![Succ(producer_cursor)] = p_elem]
  /\ p_pc' = "push_store"
  /\ UNCHANGED <<producer_cursor, consumer_cursor, did_C_reached_P, p_elem,
                 cvars, fifo, collided>>

PushStore ==
  /\ p_pc = "push_store"
  /\ producer_cursor' = Succ(producer_cursor)
  /\ p_pc' = "push_recheck"
  /\ fifo' = Append(fifo, p_elem)
  /\ collided' = (collided \/ (DeclaringEmpty /\ producer_cursor' = consumer_cursor))
  /\ UNCHANGED <<slots, consumer_cursor, did_C_reached_P, p_elem, cvars>>

\* Mutant of PushRecheck: never notices that the push filled the ring.
PushNeverFull ==
  /\ p_pc = "push_recheck"
  /\ p_pc' = "idle"
  /\ UNCHANGED <<ring, p_elem, cvars, fifo, collided>>

PushRecheck ==
  /\ p_pc = "push_recheck"
  /\ p_pc' = IF producer_cursor = consumer_cursor THEN "push_full" ELSE "idle"
  /\ UNCHANGED <<ring, p_elem, cvars, fifo, collided>>

\* Mutant of PushFull: stores the wrong value.
PushFullSetsTrue ==
  /\ p_pc = "push_full"
  /\ did_C_reached_P' = TRUE
  /\ p_pc' = "idle"
  /\ UNCHANGED <<slots, producer_cursor, consumer_cursor, p_elem, cvars, fifo,
                 collided>>

PushFull ==
  /\ p_pc = "push_full"
  /\ did_C_reached_P' = FALSE
  /\ p_pc' = "idle"
  /\ UNCHANGED <<slots, producer_cursor, consumer_cursor, p_elem, cvars, fifo,
                 collided>>

-----------------------------------------------------------------------------
(* bool try_pull(T& elem) *)

\* A call loads both cursors and goes to `same' when they coincide, else to
\* `other'.
ConsumerLoad(call, same, other) ==
  /\ c_pc = "idle" /\ MayCall(p_pc)
  /\ call \in ConsumerCalls
  /\ c_seen' = producer_cursor
  /\ c_avail' = Len(fifo)
  /\ c_pc' = IF producer_cursor = consumer_cursor THEN same ELSE other
  /\ UNCHANGED <<ring, p_pc, p_elem, c_elem, fifo, collided>>

PullLoad == ConsumerLoad("pull", "pull_flag", "pull_read")

\* Mutant of PullLoadFlag: reads whether or not the ring is empty.
PullIgnoresFlag ==
  /\ c_pc = "pull_flag"
  /\ c_pc' = "pull_read"
  /\ UNCHANGED <<ring, p_pc, p_elem, c_elem, c_seen, c_avail, fifo, collided>>

PullLoadFlag ==
  /\ c_pc = "pull_flag"
  /\ c_pc' = IF did_C_reached_P THEN "idle" ELSE "pull_read"
  /\ UNCHANGED <<ring, p_pc, p_elem, c_elem, c_seen, c_avail, fifo, collided>>

\* Mutant of PullRead: reads before advancing the cursor.
PullReadAtCursor ==
  /\ c_pc = "pull_read"
  /\ c_elem' = slots[consumer_cursor]
  /\ c_pc' = "pull_store"
  /\ UNCHANGED <<ring, p_pc, p_elem, c_seen, c_avail, fifo, collided>>

PullRead ==
  /\ c_pc = "pull_read"
  /\ c_elem' = slots[Succ(consumer_cursor)]
  /\ c_pc' = "pull_store"
  /\ UNCHANGED <<ring, p_pc, p_elem, c_seen, c_avail, fifo, collided>>

\* Mutant of PullStore: never notices that the pull emptied the ring.
PullNeverEmpties ==
  /\ c_pc = "pull_store"
  /\ consumer_cursor' = Succ(consumer_cursor)
  /\ c_pc' = "idle"
  /\ fifo' = IF fifo = <<>> THEN fifo ELSE Tail(fifo)
  /\ collided' = (collided \/ (Unsettled /\ consumer_cursor' = producer_cursor))
  /\ UNCHANGED <<slots, producer_cursor, did_C_reached_P, p_pc, p_elem, c_elem,
                 c_seen, c_avail>>

PullStore ==
  /\ c_pc = "pull_store"
  /\ consumer_cursor' = Succ(consumer_cursor)
  /\ c_pc' = IF consumer_cursor' = c_seen THEN "pull_empty" ELSE "idle"
  /\ fifo' = IF fifo = <<>> THEN fifo ELSE Tail(fifo)
  /\ collided' = (collided \/ (Unsettled /\ consumer_cursor' = producer_cursor))
  /\ UNCHANGED <<slots, producer_cursor, did_C_reached_P, p_pc, p_elem, c_elem,
                 c_seen, c_avail>>

\* Mutant of SetEmptyFlag: the store is missing.
EmptyFlagLost(pc) ==
  /\ c_pc = pc
  /\ c_pc' = "idle"
  /\ UNCHANGED <<ring, p_pc, p_elem, c_elem, c_seen, c_avail, fifo, collided>>

\* did_C_reached_P.store(true), the last step of try_pull and of clear.
SetEmptyFlag(pc) ==
  /\ c_pc = pc
  /\ did_C_reached_P' = TRUE
  /\ c_pc' = "idle"
  /\ UNCHANGED <<slots, producer_cursor, consumer_cursor, p_pc, p_elem, c_elem,
                 c_seen, c_avail, fifo, collided>>

PullEmpty == SetEmptyFlag("pull_empty")

-----------------------------------------------------------------------------
(* bool empty() and void clear() *)

\* Different cursors: empty() returns false at once.
EmptyLoad == ConsumerLoad("empty", "empty_flag", "idle")

\* empty() returns the flag.
EmptyLoadFlag ==
  /\ c_pc = "empty_flag"
  /\ c_pc' = "idle"
  /\ UNCHANGED <<ring, p_pc, p_elem, c_elem, c_seen, c_avail, fifo, collided>>

ClearLoad == ConsumerLoad("clear", "clear_store", "clear_store")

ClearStore ==
  /\ c_pc = "clear_store"
  /\ consumer_cursor' = c_seen
  /\ c_pc' = "clear_empty"
  /\ fifo' = SubSeq(fifo, c_avail + 1, Len(fifo))
  /\ collided' = (collided \/ (Unsettled /\ consumer_cursor' = producer_cursor))
  /\ UNCHANGED <<slots, producer_cursor, did_C_reached_P, p_pc, p_elem, c_elem,
                 c_seen, c_avail>>

ClearEmpty == SetEmptyFlag("clear_empty")

-----------------------------------------------------------------------------
(* uint32_t free_space(): the value a call returns when nothing overlaps it. *)
(* consumer - producer is a signed pointer difference.                       *)
\* Mutant of free_space: the two branches are swapped.
free_space_swapped ==
  IF producer_cursor = consumer_cursor
  THEN IF did_C_reached_P THEN 0 ELSE Size
  ELSE IF producer_cursor > consumer_cursor
       THEN consumer_cursor - producer_cursor
       ELSE Size - (consumer_cursor - producer_cursor)

free_space ==
  IF producer_cursor = consumer_cursor
  THEN IF did_C_reached_P THEN 0 ELSE Size
  ELSE IF producer_cursor < consumer_cursor
       THEN consumer_cursor - producer_cursor
       ELSE Size - (consumer_cursor - producer_cursor)

-----------------------------------------------------------------------------
ProducerStep == PushLoadFlag \/ PushWrite \/ PushStore \/ PushRecheck \/ PushFull

ConsumerStep ==
  \/ PullLoadFlag \/ PullRead \/ PullStore \/ PullEmpty
  \/ EmptyLoadFlag \/ ClearStore \/ ClearEmpty

Next ==
  \/ \E v \in Values : PushLoad(v)
  \/ ProducerStep
  \/ PullLoad \/ EmptyLoad \/ ClearLoad
  \/ ConsumerStep

Spec == Init /\ [][Next]_vars

\* Each started call runs to its end (no thread is suspended forever) and the
\* Worker calls try_pull again and again (the polling loops of the tests).
FairSpec == Spec /\ WF_vars(ProducerStep) /\ WF_vars(ConsumerStep)
                 /\ SF_vars(PullLoad)

-----------------------------------------------------------------------------
\* The type of the state.
TypeOK ==
  /\ slots \in [Slots -> Values \cup {Garbage}]
  /\ producer_cursor \in Slots
  /\ consumer_cursor \in Slots
  /\ did_C_reached_P \in BOOLEAN
  /\ p_pc \in {"idle", "push_flag", "push_write", "push_store",
               "push_recheck", "push_full"}
  /\ p_elem \in Values \cup {Garbage}
  /\ p_pc # "idle" => p_elem \in Values
  /\ c_pc \in {"idle", "pull_flag", "pull_read", "pull_store", "pull_empty",
               "empty_flag", "clear_store", "clear_empty"}
  /\ c_elem \in Values \cup {Garbage}
  /\ c_seen \in Slots
  /\ c_avail \in Nat
  /\ fifo \in Seq(Values)
  /\ collided \in BOOLEAN

\* The slot i places after slot c, for i in 0 .. Size.
Place(c, i) == IF c + i < Size THEN c + i ELSE c + i - Size

At(i) == Place(consumer_cursor, i)

\* As long as no cursor store has landed in the other thread's unsettled
\* window, the slots from the consumer cursor to the producer cursor hold
\* exactly the elements published and not yet pulled, in order: concurrent
\* try_push, try_pull and clear neither lose, duplicate nor reorder elements.
RingHoldsFifo ==
  ~collided =>
    /\ Len(fifo) <= Size
    /\ producer_cursor = At(Len(fifo))
    /\ \A i \in 1 .. Len(fifo) : slots[At(i)] = fifo[i]

\* try_pull hands out the oldest element, and only when there is one.
PullReturnsOldest ==
  ~collided /\ c_pc = "pull_store" => fifo # <<>> /\ c_elem = Head(fifo)

\* try_push writes only when a slot is free, never over an unread element.
PushNeverOverwrites ==
  ~collided /\ p_pc \in {"push_write", "push_store"} => Len(fifo) < Size

\* The element is copied without synchronisation: the slot try_push writes is
\* never the slot try_pull reads at that moment.
NoSlotRace ==
  ~collided /\ p_pc = "push_write" /\ c_pc = "pull_read"
    => Succ(producer_cursor) # Succ(consumer_cursor)

\* empty() may be late in saying that an element has arrived, but the Worker
\* is never told that there is one when there is none.
EmptyNeverInvents ==
  ~collided /\ c_pc = "empty_flag" /\ ~did_C_reached_P => fifo # <<>>

\* While neither thread is between its cursor store and its store of the
\* flag, equal cursors with the flag mean empty and without it mean full.
FlagIsExact ==
  ~collided /\ producer_cursor = consumer_cursor
    /\ ~Unsettled /\ c_pc \notin {"pull_empty", "clear_empty"}
  => Len(fifo) = IF did_C_reached_P THEN 0 ELSE Size

\* On a quiet ring free_space() is the number of elements that still fit
\* exactly while the producer cursor is below the consumer cursor; with equal
\* cursors it takes empty for full and full for empty, and ahead of the consumer
\* it adds the distance it should subtract.
FreeSpaceOnlyBehind ==
  ~collided /\ p_pc = "idle" /\ c_pc = "idle" =>
    (free_space = Size - Len(fifo) <=> producer_cursor < consumer_cursor)

\* How many elements the ring holds, read off its own state.
Count ==
  IF producer_cursor > consumer_cursor THEN producer_cursor - consumer_cursor
  ELSE IF producer_cursor < consumer_cursor
    THEN Size - (consumer_cursor - producer_cursor)
  ELSE IF Unsettled THEN Size
  ELSE IF c_pc \in {"pull_empty", "clear_empty"} \/ did_C_reached_P THEN 0
  ELSE Size

Contents == [i \in 1 .. Count |-> slots[At(i)]]

Fifo == INSTANCE BoundedFifo WITH queue <- Contents

\* The ring, read off its slots, cursors and flag, implements the bounded
\* queue for as long as there is no collision; a clear() that overlaps a
\* try_push removes the elements it saw and leaves the newer ones.
FifoUntilCollision == Fifo!Init /\ [][collided' \/ Fifo!Next]_Contents

\* Used without overlap, the ring implements the bounded queue.
ImplementsFifo == Fifo!Spec

\* An element that was pushed does not stay behind a transient "empty": a
\* Worker that keeps polling gets to pull (or the ring has collided).
PolledIsPulled == fifo # <<>> ~> (c_pc = "pull_store" \/ fifo = <<>> \/ collided)

-----------------------------------------------------------------------------
(* What the documentation and the tests say of the ring, stated without the  *)
(* exclusion of collisions.                                                  *)

\* test_ringbuffer.cpp:110, REQUIRE(elem == c) with one producer and one
\* consumer: the elements come out in the order they went in.
PulledInOrder == c_pc = "pull_store" => fifo # <<>> /\ c_elem = Head(fifo)

=============================================================================
