---------------------- MODULE LockfreeRingbufferProofs ----------------------
(***************************************************************************)
(* For every ring size and every set of values: until a collision, a ring  *)
(* shared by one producer and one consumer thread is a FIFO queue.         *)
(***************************************************************************)
EXTENDS LockfreeRingbuffer, TLAPS

-----------------------------------------------------------------------------
(* Cursor arithmetic. *)

\* Every place is a slot.
LEMMA PlaceInSlots ==
  ASSUME NEW c \in Slots, NEW i \in 0 .. Size
  PROVE  Place(c, i) \in Slots
BY RingAssumption DEF Slots, Place

\* Advancing a cursor (lines 91 and 111) moves it to the next place.
LEMMA SuccPlace ==
  ASSUME NEW c \in Slots, NEW i \in 0 .. Size - 1
  PROVE  /\ Succ(c) \in Slots
         /\ Succ(Place(c, i)) = Place(c, i + 1)
         /\ Place(Succ(c), i) = Place(c, i + 1)
BY RingAssumption DEF Slots, Place, Succ

\* Places are counted from any cursor.
LEMMA PlaceSum ==
  ASSUME NEW c \in Slots, NEW a \in Nat, NEW i \in Nat, a + i <= Size
  PROVE  Place(Place(c, a), i) = Place(c, a + i)
BY RingAssumption DEF Slots, Place

\* Only after a full lap does a cursor come back.
LEMMA PlaceReturns ==
  ASSUME NEW c \in Slots, NEW i \in 0 .. Size
  PROVE  Place(c, i) = c <=> i = 0 \/ i = Size
BY RingAssumption DEF Slots, Place

\* The Size places after a cursor are different slots.
LEMMA PlaceInjective ==
  ASSUME NEW c \in Slots, NEW i \in 1 .. Size, NEW j \in 1 .. Size, i # j
  PROVE  Place(c, i) # Place(c, j)
BY RingAssumption DEF Slots, Place

-----------------------------------------------------------------------------
(* Type correctness. *)

\* One step of either thread keeps the type of the state (all operations of
\* lockfree_ringbuffer.hpp).
LEMMA TypeStep == TypeOK /\ [Next]_vars => TypeOK'
<1> SUFFICES ASSUME TypeOK, [Next]_vars PROVE TypeOK'
  OBVIOUS
<1> USE RingAssumption DEF TypeOK, ring, cvars
<1>s. ASSUME NEW i \in Slots PROVE Succ(i) \in Slots
  BY DEF Slots, Succ
<1>1. ASSUME NEW v \in Values, PushLoad(v) PROVE TypeOK'
  BY <1>1 DEF PushLoad
<1>2. CASE PushLoadFlag
  BY <1>2 DEF PushLoadFlag
<1>3. CASE PushWrite
  BY <1>3, <1>s DEF PushWrite
<1>4. CASE PushStore
  BY <1>4, <1>s DEF PushStore
<1>5. CASE PushRecheck
  BY <1>5 DEF PushRecheck
<1>6. CASE PushFull
  BY <1>6 DEF PushFull
<1>7. CASE PullLoad \/ EmptyLoad \/ ClearLoad
  BY <1>7 DEF PullLoad, EmptyLoad, ClearLoad, ConsumerLoad
<1>8. CASE PullLoadFlag
  BY <1>8 DEF PullLoadFlag
<1>9. CASE PullRead
  BY <1>9, <1>s DEF PullRead
<1>10. CASE PullStore
  <2>1. fifo' \in Seq(Values)
    BY <1>10 DEF PullStore
  <2> QED
    BY <1>10, <1>s, <2>1 DEF PullStore
<1>11. CASE PullEmpty \/ ClearEmpty
  BY <1>11 DEF PullEmpty, ClearEmpty, SetEmptyFlag
<1>12. CASE EmptyLoadFlag
  BY <1>12 DEF EmptyLoadFlag
<1>13. CASE ClearStore
  <2>1. fifo' \in Seq(Values)
    BY <1>13 DEF ClearStore
  <2> QED
    BY <1>13, <2>1 DEF ClearStore
<1>14. CASE UNCHANGED vars
  BY <1>14 DEF vars
<1> QED
  BY <1>1, <1>2, <1>3, <1>4, <1>5, <1>6, <1>7, <1>8, <1>9, <1>10, <1>11,
     <1>12, <1>13, <1>14 DEF Next, ProducerStep, ConsumerStep

\* The state keeps its type in every behaviour of the ring.
THEOREM TypeCorrect == Spec => []TypeOK
<1>1. Init => TypeOK
  BY RingAssumption DEF Init, TypeOK, Slots
<1> QED
  BY <1>1, TypeStep, PTL DEF Spec

-----------------------------------------------------------------------------
(* The inductive invariant.  RingHoldsFifo alone does not say when the flag  *)
(* can be trusted nor what a thread that has loaded a cursor still knows.    *)

\* While the cursors coincide, a producer that has not settled the flag has
\* just filled the ring, a consumer that has not set the flag has just emptied
\* it, and otherwise the flag says which of the two happened.
FlagInv ==
  producer_cursor = consumer_cursor =>
    /\ Unsettled => Len(fifo) = Size
    /\ c_pc \in {"pull_empty", "clear_empty"} => fifo = <<>>
    /\ ~Unsettled /\ c_pc \notin {"pull_empty", "clear_empty"}
         => (did_C_reached_P <=> fifo = <<>>)

\* A producer past its checks has a free slot, and has written it by the time
\* it publishes.
ProducerInv ==
  /\ p_pc \in {"push_write", "push_store"} => Len(fifo) < Size
  /\ p_pc = "push_store" => slots[Succ(producer_cursor)] = p_elem

\* What the consumer loaded stays true: the elements it saw are still there.
ConsumerInv ==
  /\ c_pc \in {"pull_flag", "empty_flag", "pull_read", "pull_store", "clear_store"}
       => c_avail <= Len(fifo) /\ c_seen = At(c_avail)
  /\ c_pc \in {"pull_flag", "empty_flag"}
       => /\ c_avail \in {0, Size}
          /\ c_avail = 0 /\ Len(fifo) < Size
               => did_C_reached_P /\ p_pc # "push_full"
  /\ c_pc \in {"pull_read", "pull_store"}
       => fifo # <<>> /\ (c_avail = 0 => Len(fifo) = Size)
  /\ c_pc = "pull_store" => c_elem = fifo[1]
  /\ c_pc = "clear_store" /\ c_avail = 0 => Len(fifo) < Size

IInv == RingHoldsFifo /\ (~collided => FlagInv /\ ProducerInv /\ ConsumerInv)

-----------------------------------------------------------------------------
(* The invariant is inductive: one lemma per group of steps. *)

\* Once collided, the history never goes back to clean.
LEMMA CollidedStays == TypeOK /\ [Next]_vars /\ ~collided' => ~collided
<1> SUFFICES ASSUME TypeOK, [Next]_vars, ~collided' PROVE ~collided
  OBVIOUS
<1> QED
  BY DEF TypeOK, Next, vars, ProducerStep, ConsumerStep, PushLoad, PushLoadFlag,
     PushWrite, PushStore, PushRecheck, PushFull, PullLoad, EmptyLoad, ClearLoad,
     ConsumerLoad, PullLoadFlag, PullRead, PullStore, PullEmpty, ClearEmpty,
     SetEmptyFlag, EmptyLoadFlag, ClearStore

\* Steps of try_push that touch neither a slot, nor a cursor, nor the flag
\* (lines 85-89 and 96).
LEMMA PushQuietSteps ==
  ASSUME TypeOK, IInv, ~collided, ~collided',
         \/ \E v \in Values : PushLoad(v)
         \/ PushLoadFlag
         \/ PushRecheck
  PROVE  IInv'
<1> USE RingAssumption DEF ring, cvars
<1>1. /\ Len(fifo) \in Nat
      /\ fifo = <<>> <=> Len(fifo) = 0
      /\ Len(fifo) <= Size
      /\ producer_cursor = consumer_cursor <=> Len(fifo) \in {0, Size}
  <2>1. Len(fifo) \in Nat /\ Len(fifo) <= Size /\ (fifo = <<>> <=> Len(fifo) = 0)
    BY DEF TypeOK, IInv, RingHoldsFifo
  <2> QED
    BY <2>1, PlaceReturns DEF TypeOK, IInv, RingHoldsFifo, At
<1>2. UNCHANGED <<slots, producer_cursor, consumer_cursor, did_C_reached_P, c_pc,
                  c_elem, c_seen, c_avail, fifo, collided>>
  BY DEF PushLoad, PushLoadFlag, PushRecheck
<1>3. RingHoldsFifo'
  BY <1>2 DEF IInv, RingHoldsFifo, At
<1>4. FlagInv' /\ ProducerInv' /\ ConsumerInv'
  <2>1. ASSUME NEW v \in Values, PushLoad(v) PROVE FlagInv' /\ ProducerInv' /\ ConsumerInv'
    BY <2>1, <1>1, <1>2 DEF PushLoad, IInv, FlagInv, ProducerInv, ConsumerInv, Unsettled, At
  <2>2. CASE PushLoadFlag
    BY <2>2, <1>1, <1>2 DEF PushLoadFlag, IInv, FlagInv, ProducerInv, ConsumerInv, Unsettled, At
  <2>3. CASE PushRecheck
    BY <2>3, <1>1, <1>2 DEF PushRecheck, IInv, FlagInv, ProducerInv, ConsumerInv, Unsettled, At
  <2> QED
    BY <2>1, <2>2, <2>3
<1> QED
  BY <1>3, <1>4 DEF IInv

\* try_push copies the element into the slot after the last one held (94).
LEMMA PushWriteStep ==
  ASSUME TypeOK, IInv, ~collided, PushWrite
  PROVE  IInv'
<1> USE RingAssumption DEF ring, cvars
<1>1. Len(fifo) \in Nat /\ Len(fifo) < Size
  BY DEF TypeOK, IInv, ProducerInv, PushWrite
<1>2. Succ(producer_cursor) = At(Len(fifo) + 1)
  <2>1. producer_cursor = Place(consumer_cursor, Len(fifo)) /\ consumer_cursor \in Slots
    BY DEF TypeOK, IInv, RingHoldsFifo, At
  <2>2. Len(fifo) \in 0 .. Size - 1
    BY <1>1
  <2> QED
    BY <2>1, <2>2, SuccPlace DEF At
<1>3. At(Len(fifo) + 1) \in Slots
  BY <1>1, PlaceInSlots DEF TypeOK, At
<1>4. ASSUME NEW i \in 1 .. Len(fifo)
      PROVE  At(i) \in Slots /\ At(i) # At(Len(fifo) + 1)
  BY <1>1, PlaceInSlots, PlaceInjective DEF TypeOK, At
<1>5. /\ slots' = [slots EXCEPT ![Succ(producer_cursor)] = p_elem]
      /\ p_pc' = "push_store"
      /\ UNCHANGED <<producer_cursor, consumer_cursor, did_C_reached_P, p_elem,
                     c_pc, c_elem, c_seen, c_avail, fifo, collided>>
  BY DEF PushWrite
<1>6. RingHoldsFifo'
  BY <1>1, <1>2, <1>3, <1>4, <1>5 DEF TypeOK, IInv, RingHoldsFifo, At
<1>7. ProducerInv'
  <2>1. slots'[Succ(producer_cursor)'] = p_elem'
    BY <1>2, <1>3, <1>5 DEF TypeOK, Succ
  <2> QED
    BY <1>1, <1>5, <2>1 DEF ProducerInv
<1>8. FlagInv' /\ ConsumerInv'
  BY <1>5 DEF PushWrite, IInv, FlagInv, ConsumerInv, Unsettled, At
<1> QED
  BY <1>6, <1>7, <1>8 DEF IInv

\* try_push publishes the element (95): the collision is excluded, so either
\* the cursors differ or the ring has become full with no consumer about to
\* declare it empty.
LEMMA PushStoreStep ==
  ASSUME TypeOK, IInv, ~collided, ~collided', PushStore
  PROVE  IInv'
<1> USE RingAssumption DEF ring, cvars
<1> DEFINE n == Len(fifo)
<1>1. n \in Nat /\ n < Size
  BY DEF TypeOK, IInv, ProducerInv, PushStore
<1>2. /\ producer_cursor' = Place(consumer_cursor, n + 1)
      /\ producer_cursor' = Succ(producer_cursor)
  <2>1. producer_cursor = Place(consumer_cursor, n) /\ consumer_cursor \in Slots
    BY DEF TypeOK, IInv, RingHoldsFifo, At
  <2>2. n \in 0 .. Size - 1
    BY <1>1
  <2>3. producer_cursor' = Succ(producer_cursor)
    BY DEF PushStore
  <2> QED
    BY <2>1, <2>2, <2>3, SuccPlace
<1>3. /\ fifo' = Append(fifo, p_elem)
      /\ p_elem \in Values
      /\ p_pc' = "push_recheck"
      /\ UNCHANGED <<slots, consumer_cursor, did_C_reached_P, p_elem, c_pc, c_elem,
                     c_seen, c_avail>>
  BY DEF PushStore, TypeOK
<1>4. /\ Len(fifo') = n + 1
      /\ \A i \in 1 .. n : fifo'[i] = fifo[i]
      /\ fifo'[n + 1] = p_elem
      /\ fifo' # <<>>
  BY <1>1, <1>3 DEF TypeOK
<1>5. RingHoldsFifo'
  <2>1. producer_cursor' = At(Len(fifo))' /\ Len(fifo)' <= Size
    BY <1>1, <1>2, <1>3, <1>4 DEF At
  <2>2. ASSUME NEW i \in 1 .. n + 1
        PROVE  slots[Place(consumer_cursor, i)] = fifo'[i]
    <3>1. CASE i = n + 1
      BY <3>1, <1>2, <1>4 DEF IInv, ProducerInv, PushStore
    <3>2. CASE i \in 1 .. n
      BY <3>2, <1>4 DEF IInv, RingHoldsFifo, At
    <3> QED
      BY <1>1, <3>1, <3>2
  <2> QED
    BY <2>1, <2>2, <1>3, <1>4 DEF RingHoldsFifo, At
<1>6. producer_cursor' = consumer_cursor => n + 1 = Size /\ ~DeclaringEmpty
  <2>1. producer_cursor' = consumer_cursor => n + 1 = Size
    BY <1>1, <1>2, PlaceReturns DEF TypeOK
  <2> QED
    BY <2>1 DEF PushStore, TypeOK
<1>7. FlagInv' /\ ProducerInv'
  BY <1>3, <1>4, <1>6 DEF FlagInv, ProducerInv, Unsettled, DeclaringEmpty
<1>8. ConsumerInv'
  <2>1. c_pc = "clear_store" /\ c_avail = 0 => n + 1 < Size
    <3>1. n + 1 \in 0 .. Size /\ consumer_cursor \in Slots
      BY <1>1 DEF TypeOK
    <3>2. n + 1 = Size => producer_cursor' = consumer_cursor
      BY <3>1, <1>2, PlaceReturns
    <3> QED
      BY <3>2, <1>1, <1>6 DEF DeclaringEmpty
  <2>2. ~(c_pc \in {"pull_read", "pull_store"} /\ c_avail = 0)
    BY <1>1 DEF IInv, ConsumerInv
  <2>3. c_pc = "pull_store" => c_elem = fifo'[1]
    BY <1>1, <1>4 DEF IInv, ConsumerInv, TypeOK
  <2> QED
    BY <1>1, <1>3, <1>4, <2>1, <2>2, <2>3 DEF IInv, ConsumerInv, TypeOK, At
<1> QED
  BY <1>5, <1>7, <1>8 DEF IInv

\* try_push declares the ring full (97).
LEMMA PushFullStep ==
  ASSUME TypeOK, IInv, ~collided, PushFull
  PROVE  IInv'
<1> USE RingAssumption DEF ring, cvars
<1>1. Len(fifo) \in Nat /\ (fifo = <<>> <=> Len(fifo) = 0) /\ Len(fifo) <= Size
  BY DEF TypeOK, IInv, RingHoldsFifo
<1>2. RingHoldsFifo'
  BY DEF PushFull, IInv, RingHoldsFifo, At
<1>3. FlagInv'
  BY <1>1 DEF PushFull, IInv, FlagInv, Unsettled
<1>4. ProducerInv' /\ ConsumerInv'
  BY <1>1 DEF PushFull, IInv, ProducerInv, ConsumerInv, At
<1> QED
  BY <1>2, <1>3, <1>4 DEF IInv

\* The facts about the history every consumer step starts from.
LEMMA HistoryFacts ==
  ASSUME TypeOK, IInv, ~collided
  PROVE  /\ Len(fifo) \in Nat
         /\ Len(fifo) <= Size
         /\ fifo = <<>> <=> Len(fifo) = 0
         /\ producer_cursor = Place(consumer_cursor, Len(fifo))
         /\ producer_cursor = consumer_cursor <=> Len(fifo) \in {0, Size}
<1>1. /\ Len(fifo) \in Nat /\ Len(fifo) <= Size /\ (fifo = <<>> <=> Len(fifo) = 0)
      /\ producer_cursor = Place(consumer_cursor, Len(fifo))
      /\ consumer_cursor \in Slots
  BY DEF TypeOK, IInv, RingHoldsFifo, At
<1> QED
  BY <1>1, PlaceReturns, RingAssumption

\* try_pull, empty and clear load the cursors (105-106, 125-126, 134).
LEMMA ConsumerLoadStep ==
  ASSUME TypeOK, IInv, ~collided, PullLoad \/ EmptyLoad \/ ClearLoad
  PROVE  IInv'
<1> USE RingAssumption DEF ring, cvars
<1>1. /\ UNCHANGED <<slots, producer_cursor, consumer_cursor, did_C_reached_P, p_pc,
                     p_elem, c_elem, fifo, collided>>
      /\ c_pc = "idle"
      /\ c_seen' = producer_cursor
      /\ c_avail' = Len(fifo)
      /\ c_pc' \in {"pull_flag", "pull_read", "empty_flag", "idle", "clear_store"}
      /\ c_pc' \in {"pull_flag", "empty_flag"} => producer_cursor = consumer_cursor
      /\ c_pc' = "pull_read" => producer_cursor # consumer_cursor
  BY DEF PullLoad, EmptyLoad, ClearLoad, ConsumerLoad
<1>2. RingHoldsFifo' /\ FlagInv' /\ ProducerInv'
  <2>1. RingHoldsFifo'
    BY <1>1 DEF IInv, RingHoldsFifo, At
  <2>2. FlagInv'
    BY <1>1 DEF IInv, FlagInv, Unsettled
  <2>3. ProducerInv'
    BY <1>1 DEF IInv, ProducerInv, Succ
  <2> QED
    BY <2>1, <2>2, <2>3
<1>3. ConsumerInv'
  BY <1>1, HistoryFacts DEF IInv, FlagInv, ConsumerInv, Unsettled, At
<1> QED
  BY <1>2, <1>3 DEF IInv

\* Steps of try_pull and empty that write nothing shared (108, 114, 128).
LEMMA PullQuietSteps ==
  ASSUME TypeOK, IInv, ~collided, PullLoadFlag \/ PullRead \/ EmptyLoadFlag
  PROVE  IInv'
<1> USE RingAssumption DEF ring, cvars
<1>1. UNCHANGED <<slots, producer_cursor, consumer_cursor, did_C_reached_P, p_pc,
                  p_elem, c_seen, c_avail, fifo, collided>>
  BY DEF PullLoadFlag, PullRead, EmptyLoadFlag
<1>2. RingHoldsFifo' /\ ProducerInv'
  BY <1>1 DEF IInv, RingHoldsFifo, ProducerInv, At, Succ
<1>3. FlagInv'
  BY <1>1 DEF IInv, FlagInv, Unsettled, PullLoadFlag, PullRead, EmptyLoadFlag
<1>4. ConsumerInv'
  <2>1. CASE PullLoadFlag
    BY <2>1, <1>1, HistoryFacts DEF PullLoadFlag, IInv, ConsumerInv, At, TypeOK
  <2>2. CASE PullRead
    <3>1. Succ(consumer_cursor) = Place(consumer_cursor, 1)
      BY DEF Succ, Place, TypeOK, Slots
    <3>2. c_elem' = fifo[1]
      BY <2>2, <3>1, HistoryFacts DEF PullRead, IInv, RingHoldsFifo, ConsumerInv, At
    <3> QED
      BY <2>2, <3>2, <1>1 DEF PullRead, IInv, ConsumerInv, At
  <2>3. CASE EmptyLoadFlag
    BY <2>3, <1>1 DEF EmptyLoadFlag, IInv, ConsumerInv, At
  <2> QED
    BY <2>1, <2>2, <2>3
<1> QED
  BY <1>2, <1>3, <1>4 DEF IInv

\* try_pull publishes its cursor (115): if that empties the ring, the cursor it
\* loaded tells it so.
LEMMA PullStoreStep ==
  ASSUME TypeOK, IInv, ~collided, ~collided', PullStore
  PROVE  IInv'
<1> USE RingAssumption DEF ring, cvars
<1> DEFINE n == Len(fifo)
<1>1. /\ n \in Nat /\ 1 <= n /\ n <= Size
      /\ c_avail \in Nat /\ c_avail <= n
      /\ c_seen = Place(consumer_cursor, c_avail)
      /\ c_avail = 0 => n = Size
      /\ fifo # <<>>
  BY HistoryFacts DEF PullStore, IInv, ConsumerInv, TypeOK, At
<1>2. /\ consumer_cursor' = Succ(consumer_cursor)
      /\ fifo' = Tail(fifo)
      /\ c_pc' = IF Succ(consumer_cursor) = c_seen THEN "pull_empty" ELSE "idle"
      /\ UNCHANGED <<slots, producer_cursor, did_C_reached_P, p_pc, p_elem, c_elem,
                     c_seen, c_avail>>
  BY <1>1 DEF PullStore
<1>c. /\ consumer_cursor' = Succ(consumer_cursor)
      /\ UNCHANGED <<slots, producer_cursor, p_pc, p_elem>>
  BY <1>2
<1>3. /\ Len(fifo') = n - 1
      /\ \A i \in 1 .. n - 1 : fifo'[i] = fifo[i + 1]
      /\ fifo' = <<>> <=> n = 1
  <2>1. fifo' \in Seq(Values) /\ Len(fifo') = n - 1
    BY <1>1, <1>2 DEF TypeOK
  <2>2. \A i \in 1 .. n - 1 : fifo'[i] = fifo[i + 1]
    BY <1>1, <1>2 DEF TypeOK
  <2> QED
    BY <2>1, <2>2, <1>1
<1>4. consumer_cursor \in Slots /\ Succ(consumer_cursor) \in Slots
  BY DEF TypeOK, Slots, Succ
<1>5. \A i \in 0 .. n - 1 : Place(Succ(consumer_cursor), i) = Place(consumer_cursor, i + 1)
  BY <1>1, <1>4, SuccPlace
<1>6. RingHoldsFifo'
  <2>1. producer_cursor = Place(consumer_cursor, n)
    BY HistoryFacts
  <2>2. n - 1 \in 0 .. n - 1 /\ (n - 1) + 1 = n
    BY <1>1
  <2>3. producer_cursor = Place(Succ(consumer_cursor), n - 1)
    BY <2>1, <2>2, <1>5
  <2>4. \A i \in 1 .. n - 1 : slots[Place(Succ(consumer_cursor), i)] = fifo'[i]
    BY <1>1, <1>3, <1>5 DEF IInv, RingHoldsFifo, At
  <2> QED
    BY <2>3, <2>4, <1>1, <1>3, <1>c DEF RingHoldsFifo, At
<1>7. producer_cursor = Succ(consumer_cursor) => n = 1 /\ ~Unsettled
  <2>1. n - 1 \in 0 .. Size /\ producer_cursor = Place(Succ(consumer_cursor), n - 1)
    BY <1>1, <1>3, <1>6, <1>c DEF RingHoldsFifo, At
  <2>2. producer_cursor = Succ(consumer_cursor) => n - 1 = 0 \/ n - 1 = Size
    BY <2>1, <1>4, PlaceReturns
  <2>3. producer_cursor = Succ(consumer_cursor) => ~Unsettled
    BY <1>2 DEF PullStore
  <2> QED
    BY <2>2, <2>3, <1>1
<1>8. n = 1 => c_pc' = "pull_empty"
  <2>1. CASE c_avail = 1
    BY <2>1, <1>1, <1>2, <1>4 DEF Place, Succ, Slots
  <2>2. CASE c_avail = 0 /\ Size = 1
    BY <2>2, <1>1, <1>2, <1>4 DEF Place, Succ, Slots
  <2> QED
    BY <2>1, <2>2, <1>1
<1>9. FlagInv'
  BY <1>1, <1>2, <1>3, <1>7, <1>8 DEF FlagInv, Unsettled
<1>10. ProducerInv'
  BY <1>1, <1>3, <1>c DEF IInv, ProducerInv, Succ
<1>11. ConsumerInv'
  BY <1>2 DEF ConsumerInv
<1> QED
  BY <1>6, <1>9, <1>10, <1>11 DEF IInv

\* try_pull and clear declare the ring empty (117, 136).
LEMMA DeclareEmptyStep ==
  ASSUME TypeOK, IInv, ~collided, PullEmpty \/ ClearEmpty
  PROVE  IInv'
<1> USE RingAssumption DEF ring, cvars
<1>1. /\ UNCHANGED <<slots, producer_cursor, consumer_cursor, p_pc, p_elem, c_elem,
                     c_seen, c_avail, fifo, collided>>
      /\ c_pc \in {"pull_empty", "clear_empty"}
      /\ did_C_reached_P' = TRUE
      /\ c_pc' = "idle"
  BY DEF PullEmpty, ClearEmpty, SetEmptyFlag
<1>2. RingHoldsFifo' /\ ProducerInv'
  BY <1>1 DEF IInv, RingHoldsFifo, ProducerInv, At, Succ
<1>3. FlagInv' /\ ConsumerInv'
  BY <1>1, HistoryFacts DEF IInv, FlagInv, ConsumerInv, Unsettled
<1> QED
  BY <1>2, <1>3 DEF IInv

\* clear moves the consumer cursor to where it saw the producer (135); what was
\* published in between stays in the ring.
LEMMA ClearStoreStep ==
  ASSUME TypeOK, IInv, ~collided, ~collided', ClearStore
  PROVE  IInv'
<1> USE RingAssumption DEF ring, cvars
<1> DEFINE n == Len(fifo)
           a == c_avail
<1>1. /\ n \in Nat /\ n <= Size
      /\ a \in Nat /\ a <= n
      /\ c_seen = Place(consumer_cursor, a)
      /\ a = 0 => n < Size
      /\ consumer_cursor \in Slots /\ c_seen \in Slots
      /\ producer_cursor = Place(consumer_cursor, n)
  BY HistoryFacts DEF ClearStore, IInv, ConsumerInv, TypeOK, At
<1>2. /\ consumer_cursor' = c_seen
      /\ fifo' = SubSeq(fifo, a + 1, n)
      /\ c_pc' = "clear_empty"
      /\ UNCHANGED <<slots, producer_cursor, did_C_reached_P, p_pc, p_elem, c_elem,
                     c_seen, c_avail>>
  BY DEF ClearStore
<1>3. /\ Len(fifo') = n - a
      /\ \A i \in 1 .. n - a : fifo'[i] = fifo[a + i]
      /\ fifo' = <<>> <=> n = a
  <2>1. fifo' \in Seq(Values) /\ Len(fifo') = n - a
    BY <1>1, <1>2 DEF TypeOK
  <2>2. \A i \in 1 .. n - a : fifo'[i] = fifo[a + i]
    BY <1>1, <1>2 DEF TypeOK
  <2> QED
    BY <2>1, <2>2, <1>1
<1>4. \A i \in 0 .. n - a : Place(c_seen, i) = Place(consumer_cursor, a + i)
  BY <1>1, PlaceSum
<1>5. RingHoldsFifo'
  <2>1. n - a \in 0 .. n - a /\ a + (n - a) = n
    BY <1>1
  <2>2. producer_cursor = Place(c_seen, n - a)
    BY <2>1, <1>1, <1>4
  <2>3. \A i \in 1 .. n - a : slots[Place(c_seen, i)] = fifo'[i]
    BY <1>1, <1>3, <1>4 DEF IInv, RingHoldsFifo, At
  <2> QED
    BY <2>2, <2>3, <1>1, <1>2, <1>3 DEF RingHoldsFifo, At
<1>6. producer_cursor = c_seen => n = a /\ ~Unsettled
  <2>1. n - a \in 0 .. Size /\ producer_cursor = Place(c_seen, n - a)
    BY <1>1, <1>2, <1>3, <1>5 DEF RingHoldsFifo, At
  <2>2. producer_cursor = c_seen => n - a = 0 \/ n - a = Size
    BY <2>1, <1>1, PlaceReturns
  <2>3. producer_cursor = c_seen => ~Unsettled
    BY <1>2 DEF ClearStore
  <2> QED
    BY <2>2, <2>3, <1>1
<1>7. FlagInv'
  BY <1>1, <1>2, <1>3, <1>6 DEF FlagInv, Unsettled
<1>8. ProducerInv' /\ ConsumerInv'
  BY <1>1, <1>2, <1>3 DEF IInv, ProducerInv, ConsumerInv, Succ
<1> QED
  BY <1>5, <1>7, <1>8 DEF IInv

\* Every step of either thread preserves the invariant.
LEMMA InductiveStep == TypeOK /\ IInv /\ [Next]_vars => IInv'
<1> SUFFICES ASSUME TypeOK, IInv, [Next]_vars PROVE IInv'
  OBVIOUS
<1>1. CASE collided'
  BY <1>1 DEF IInv, RingHoldsFifo
<1>2. CASE ~collided'
  <2>1. ~collided
    BY <1>2, CollidedStays
  <2>2. CASE UNCHANGED vars
    BY <2>2 DEF vars, ring, cvars, IInv, RingHoldsFifo, FlagInv, ProducerInv,
       ConsumerInv, Unsettled, At
  <2> QED
    BY <1>2, <2>1, <2>2, PushQuietSteps, PushWriteStep, PushStoreStep, PushFullStep,
       ConsumerLoadStep, PullQuietSteps, PullStoreStep, DeclareEmptyStep,
       ClearStoreStep DEF Next, ProducerStep, ConsumerStep
<1> QED
  BY <1>1, <1>2

\* The invariant holds throughout.
THEOREM Invariance == Spec => []IInv
<1>1. Init => IInv
  BY RingAssumption DEF Init, IInv, RingHoldsFifo, FlagInv, ProducerInv, ConsumerInv,
     Unsettled, At, Place
<1> QED
  BY <1>1, InductiveStep, TypeCorrect, PTL DEF Spec

-----------------------------------------------------------------------------
(* What follows from it. *)

\* Until a collision, the ring holds exactly what was published and not pulled.
THEOREM RingIsFifo == Spec => []RingHoldsFifo
<1>1. IInv => RingHoldsFifo
  BY DEF IInv
<1> QED
  BY <1>1, Invariance, PTL

\* Until a collision, try_pull returns the oldest element.
THEOREM PullIsOldest == Spec => []PullReturnsOldest
<1>1. TypeOK /\ IInv => PullReturnsOldest
  BY DEF TypeOK, IInv, ConsumerInv, PullReturnsOldest
<1> QED
  BY <1>1, Invariance, TypeCorrect, PTL

\* Until a collision, try_push never overwrites an unread element.
THEOREM PushIsSafe == Spec => []PushNeverOverwrites
<1>1. IInv => PushNeverOverwrites
  BY DEF IInv, ProducerInv, PushNeverOverwrites
<1> QED
  BY <1>1, Invariance, PTL

\* Until a collision, the copies at lines 94 and 114 never touch one slot.
THEOREM SlotsAreExclusive == Spec => []NoSlotRace
<1>1. TypeOK /\ IInv => NoSlotRace
  <2> SUFFICES ASSUME TypeOK, IInv, ~collided, p_pc = "push_write", c_pc = "pull_read"
               PROVE  Succ(producer_cursor) # Succ(consumer_cursor)
    BY DEF NoSlotRace
  <2>1. Len(fifo) \notin {0, Size}
    BY HistoryFacts, RingAssumption DEF IInv, ProducerInv, ConsumerInv
  <2>2. producer_cursor # consumer_cursor
    BY <2>1, HistoryFacts
  <2> QED
    BY <2>2, RingAssumption DEF TypeOK, Slots, Succ
<1> QED
  BY <1>1, Invariance, TypeCorrect, PTL

\* Until a collision, empty() never reports an element that is not there.
THEOREM EmptyIsSound == Spec => []EmptyNeverInvents
<1>1. TypeOK /\ IInv => EmptyNeverInvents
  <2> SUFFICES ASSUME TypeOK, IInv, ~collided, c_pc = "empty_flag", ~did_C_reached_P
               PROVE  fifo # <<>>
    BY DEF EmptyNeverInvents
  <2> QED
    BY HistoryFacts, RingAssumption DEF IInv, ConsumerInv
<1> QED
  BY <1>1, Invariance, TypeCorrect, PTL

\* Until a collision, once both threads have settled, the flag tells a full
\* ring from an empty one.
THEOREM FlagTells == Spec => []FlagIsExact
<1>1. TypeOK /\ IInv => FlagIsExact
  <2> SUFFICES ASSUME TypeOK, IInv, ~collided, producer_cursor = consumer_cursor,
                      ~Unsettled, c_pc \notin {"pull_empty", "clear_empty"}
               PROVE  Len(fifo) = IF did_C_reached_P THEN 0 ELSE Size
    BY DEF FlagIsExact
  <2> QED
    BY HistoryFacts, RingAssumption DEF IInv, FlagInv, TypeOK
<1> QED
  BY <1>1, Invariance, TypeCorrect, PTL

\* On a quiet ring of any size, free_space() is right exactly while the producer
\* cursor is below the consumer cursor.
THEOREM FreeSpaceTells == Spec => []FreeSpaceOnlyBehind
<1>1. TypeOK /\ IInv => FreeSpaceOnlyBehind
  <2> SUFFICES ASSUME TypeOK, IInv, ~collided, p_pc = "idle", c_pc = "idle"
               PROVE  free_space = Size - Len(fifo) <=> producer_cursor < consumer_cursor
    BY DEF FreeSpaceOnlyBehind
  <2>1. /\ Len(fifo) \in 0 .. Size /\ (fifo = <<>> <=> Len(fifo) = 0)
        /\ producer_cursor = Place(consumer_cursor, Len(fifo))
        /\ producer_cursor \in 0 .. Size - 1 /\ consumer_cursor \in 0 .. Size - 1
    BY DEF TypeOK, IInv, RingHoldsFifo, At, Slots
  <2>2. CASE producer_cursor = consumer_cursor
    <3>1. Len(fifo) \in {0, Size} /\ (did_C_reached_P <=> Len(fifo) = 0)
      BY <2>1, <2>2, HistoryFacts DEF IInv, FlagInv, Unsettled
    <3> QED
      BY <2>1, <2>2, <3>1, RingAssumption DEF free_space
  <2>3. CASE producer_cursor < consumer_cursor
    <3>1. Len(fifo) = Size - (consumer_cursor - producer_cursor)
      BY <2>1, <2>3, RingAssumption DEF Place
    <3> QED
      BY <2>1, <2>3, <3>1, RingAssumption DEF free_space
  <2>4. CASE producer_cursor > consumer_cursor
    <3>1. Len(fifo) = producer_cursor - consumer_cursor
      BY <2>1, <2>4, RingAssumption DEF Place
    <3> QED
      BY <2>1, <2>4, <3>1, RingAssumption DEF free_space
  <2> QED
    BY <2>1, <2>2, <2>3, <2>4
<1> QED
  BY <1>1, Invariance, TypeCorrect, PTL

-----------------------------------------------------------------------------
(* Refinement. *)

ContentsAgree == Contents = fifo

\* The content read off slots, cursors and flag is the history.
LEMMA ContentsIsFifo == TypeOK /\ IInv /\ ~collided => ContentsAgree
<1> SUFFICES ASSUME TypeOK, IInv, ~collided PROVE Contents = fifo
  BY DEF ContentsAgree
<1> USE RingAssumption
<1>1. consumer_cursor \in Slots /\ producer_cursor \in Slots /\ fifo \in Seq(Values)
      /\ did_C_reached_P \in BOOLEAN
  BY DEF TypeOK
<1>2. Count = Len(fifo)
  <2>1. CASE producer_cursor # consumer_cursor
    <3>1. /\ producer_cursor = Place(consumer_cursor, Len(fifo))
          /\ Len(fifo) \in 1 .. Size - 1
      BY <2>1, HistoryFacts
    <3>2. CASE producer_cursor > consumer_cursor
      <4>1. Count = producer_cursor - consumer_cursor
        BY <3>2, <1>1 DEF Count, Slots
      <4> QED
        BY <4>1, <3>1, <3>2, <1>1 DEF Place, Slots
    <3>3. CASE producer_cursor < consumer_cursor
      <4>1. Count = Size - (consumer_cursor - producer_cursor)
        BY <3>3, <1>1 DEF Count, Slots
      <4> QED
        BY <4>1, <3>1, <3>3, <1>1 DEF Place, Slots
    <3> QED
      BY <2>1, <3>2, <3>3, <1>1 DEF Slots
  <2>2. CASE producer_cursor = consumer_cursor
    <3>1. Len(fifo) \in {0, Size} /\ ~(producer_cursor > consumer_cursor)
          /\ ~(producer_cursor < consumer_cursor)
      BY <2>2, <1>1, HistoryFacts DEF Slots
    <3>2. CASE Unsettled
      <4>1. Count = Size
        BY <3>1, <3>2, <2>2, HistoryFacts DEF Count, IInv, FlagInv
      <4> QED
        BY <4>1, <3>2, <2>2 DEF IInv, FlagInv
    <3>3. CASE ~Unsettled /\ c_pc \in {"pull_empty", "clear_empty"}
      <4>1. Count = 0
        BY <3>1, <3>3, <2>2 DEF Count
      <4> QED
        BY <4>1, <3>3, <2>2, HistoryFacts DEF IInv, FlagInv
    <3>4. CASE ~Unsettled /\ c_pc \notin {"pull_empty", "clear_empty"}
      <4>1. Count = IF did_C_reached_P THEN 0 ELSE Size
        BY <3>1, <3>4, <2>2 DEF Count
      <4> QED
        BY <4>1, <3>1, <3>4, <2>2, <1>1, HistoryFacts DEF IInv, FlagInv
    <3> QED
      BY <3>2, <3>3, <3>4
  <2> QED
    BY <2>1, <2>2
<1>3. Contents = [i \in 1 .. Len(fifo) |-> fifo[i]]
  BY <1>2 DEF Contents, IInv, RingHoldsFifo
<1>4. fifo = [i \in 1 .. Len(fifo) |-> fifo[i]]
  BY <1>1
<1> QED
  BY <1>3, <1>4

\* Without a collision, a step appends, removes the oldest, drops the oldest
\* c_avail elements (clear), or leaves the history alone.
LEMMA HistoryStep ==
  ASSUME TypeOK, IInv, [Next]_vars, ~collided, ~collided'
  PROVE  \/ fifo' = fifo
         \/ \E v \in Values : Len(fifo) < Size /\ fifo' = Append(fifo, v)
         \/ fifo # <<>> /\ fifo' = Tail(fifo)
         \/ c_pc = "clear_store" /\ fifo' = SubSeq(fifo, c_avail + 1, Len(fifo))
<1>1. CASE PushStore
  BY <1>1 DEF PushStore, TypeOK, IInv, ProducerInv
<1>2. CASE PullStore
  BY <1>2 DEF PullStore
<1>3. CASE ClearStore
  BY <1>3 DEF ClearStore
<1>4. CASE ~PushStore /\ ~PullStore /\ ~ClearStore
  BY <1>4 DEF Next, vars, ProducerStep, ConsumerStep, PushLoad, PushLoadFlag,
     PushWrite, PushRecheck, PushFull, PullLoad, EmptyLoad, ClearLoad, ConsumerLoad,
     PullLoadFlag, PullRead, PullEmpty, ClearEmpty, SetEmptyFlag, EmptyLoadFlag
<1> QED
  BY <1>1, <1>2, <1>3, <1>4

\* Until a collision, the ring implements the bounded FIFO queue of
\* BoundedFifo, for try_push, try_pull, empty and clear in any interleaving.
THEOREM RefinesFifo == Spec => FifoUntilCollision
<1>1. Init => Fifo!Init
  <2> SUFFICES ASSUME Init PROVE Contents = <<>>
    BY DEF Fifo!Init
  <2>1. Count = 0
    BY DEF Init, Count, Unsettled
  <2> QED
    BY <2>1 DEF Contents
<1>p. TypeOK' /\ IInv' /\ ~collided' => ContentsAgree'
  BY ContentsIsFifo, PTL
<1>2. TypeOK /\ TypeOK' /\ IInv /\ IInv' /\ [Next]_vars
        => [collided' \/ Fifo!Next]_Contents
  <2> SUFFICES ASSUME TypeOK, TypeOK', IInv, IInv', [Next]_vars, ~collided'
               PROVE  Contents' = Contents \/ Fifo!Next
    OBVIOUS
  <2>1. ~collided
    BY CollidedStays
  <2>2. Contents = fifo
    BY <2>1, ContentsIsFifo DEF ContentsAgree
  <2>3. Contents' = fifo'
    BY <1>p DEF ContentsAgree
  <2>4. c_pc = "clear_store" => c_avail \in 0 .. Len(fifo)
    BY <2>1 DEF TypeOK, IInv, ConsumerInv
  <2>5. \/ fifo' = fifo
        \/ \E v \in Values : Len(fifo) < Size /\ fifo' = Append(fifo, v)
        \/ fifo # <<>> /\ fifo' = Tail(fifo)
        \/ c_pc = "clear_store" /\ fifo' = SubSeq(fifo, c_avail + 1, Len(fifo))
    BY <2>1, HistoryStep
  <2> QED
    BY <2>2, <2>3, <2>4, <2>5
       DEF Fifo!Next, Fifo!Push, Fifo!Pull, Fifo!DropOldest
<1> QED
  BY <1>1, <1>2, TypeCorrect, Invariance, PTL DEF Spec, FifoUntilCollision

\* Calls that never overlap never collide, so that everything above holds of
\* them without reservation (the "Single Thread" suite of test_ringbuffer.cpp).
THEOREM SerialNeverCollides == ASSUME ~Overlap PROVE Spec => []~collided
<1> DEFINE Serial == (p_pc = "idle" \/ c_pc = "idle") /\ ~collided
<1>1. Init => Serial
  BY DEF Init
<1>2. Serial /\ [Next]_vars => Serial'
  <2> SUFFICES ASSUME Serial, [Next]_vars PROVE Serial'
    OBVIOUS
  <2>1. CASE UNCHANGED vars
    BY <2>1 DEF vars, cvars
  <2>2. CASE \E v \in Values : PushLoad(v)
    BY <2>2 DEF PushLoad, MayCall, cvars
  <2>3. CASE PushLoadFlag \/ PushWrite \/ PushRecheck \/ PushFull
    BY <2>3 DEF PushLoadFlag, PushWrite, PushRecheck, PushFull, cvars
  <2>4. CASE PushStore
    BY <2>4 DEF PushStore, DeclaringEmpty, cvars
  <2>5. CASE PullLoad \/ EmptyLoad \/ ClearLoad
    BY <2>5 DEF PullLoad, EmptyLoad, ClearLoad, ConsumerLoad, MayCall
  <2>6. CASE PullLoadFlag \/ PullRead \/ PullEmpty \/ EmptyLoadFlag \/ ClearEmpty
    BY <2>6 DEF PullLoadFlag, PullRead, PullEmpty, EmptyLoadFlag, ClearEmpty,
                SetEmptyFlag
  <2>7. CASE PullStore \/ ClearStore
    BY <2>7 DEF PullStore, ClearStore, Unsettled
  <2> QED
    BY <2>1, <2>2, <2>3, <2>4, <2>5, <2>6, <2>7 DEF Next, ProducerStep, ConsumerStep
<1> QED
  BY <1>1, <1>2, PTL DEF Spec

\* Calls that never overlap make the ring the bounded FIFO queue outright.
THEOREM SerialIsFifo == ASSUME ~Overlap PROVE Spec => ImplementsFifo
<1>1. ~collided' /\ [collided' \/ Fifo!Next]_Contents => [Fifo!Next]_Contents
  OBVIOUS
<1> QED
  BY <1>1, SerialNeverCollides, RefinesFifo, PTL
     DEF FifoUntilCollision, ImplementsFifo, Fifo!Spec
=============================================================================
