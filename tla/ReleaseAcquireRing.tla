------------------------- MODULE ReleaseAcquireRing -------------------------
(***************************************************************************)
(* lockfree_ringbuffer.hpp with the memory order it asks for: stores are   *)
(* releases and loads acquires, so a thread's stores become visible to the *)
(* other one later, in order, while its own loads go on.                   *)
(*                                                                         *)
(* slots, producer_cursor, consumer_cursor and did_C_reached_P are what    *)
(* the other thread can see; a store waits in the buffer of its thread.    *)
(* Entering a store into one's own buffer is invisible, so the stores that *)
(* follow each other without a load between them are entered in one step.  *)
(***************************************************************************)
EXTENDS LockfreeRingbuffer, FiniteSetsExt

CONSTANT Depth  \* bound on the stores of one thread that are not visible yet

ASSUME DepthAssumption == Depth \in Nat /\ Depth >= 2

VARIABLES p_buffer, c_buffer  \* stores not visible yet, oldest first

buffers == <<p_buffer, c_buffer>>
all     == <<vars, buffers>>

Pending(buffer, loc) == {i \in DOMAIN buffer : buffer[i].loc = loc}

\* A thread reads its own latest store to a location, or what is visible.
Load(buffer, loc, visible) ==
  IF Pending(buffer, loc) = {} THEN visible
  ELSE buffer[Max(Pending(buffer, loc))].value

Slot(i, elem) == [loc |-> "slot", value |-> <<i, elem>>]
Cursor(i)     == [loc |-> "cursor", value |-> i]
Flag(b)       == [loc |-> "flag", value |-> b]

\* Its own cursor and the flag, as each thread reads them.
p_cursor == Load(p_buffer, "cursor", producer_cursor)
c_cursor == Load(c_buffer, "cursor", consumer_cursor)
p_flag   == Load(p_buffer, "flag", did_C_reached_P)
c_flag   == Load(c_buffer, "flag", did_C_reached_P)

\* Both threads have a store of the flag under way: the older one may land last.
FlagsRace(pbuf, cbuf) == Pending(pbuf, "flag") # {} /\ Pending(cbuf, "flag") # {}

InitBuffered == Init /\ p_buffer = <<>> /\ c_buffer = <<>>

-----------------------------------------------------------------------------
(* try_push *)

\* Mutant of BufferedPush: a full ring is not noticed.
BufferedPushIgnoresFull(elem) ==
  /\ p_pc = "idle" /\ Len(fifo) <= Backlog
  /\ p_elem' = elem
  /\ p_pc' = "push_store"
  /\ UNCHANGED <<ring, cvars, fifo, collided, buffers>>

BufferedPush(elem) ==
  /\ p_pc = "idle" /\ Len(fifo) <= Backlog
  /\ p_elem' = elem
  /\ p_pc' = IF p_cursor = consumer_cursor THEN "push_flag" ELSE "push_store"
  /\ UNCHANGED <<ring, cvars, fifo, collided, buffers>>

BufferedPushFlag ==
  /\ p_pc = "push_flag"
  /\ p_pc' = IF p_flag THEN "push_store" ELSE "idle"
  /\ UNCHANGED <<ring, p_elem, cvars, fifo, collided, buffers>>

\* Mutant of BufferedPushStore: the cursor is published before the element.
BufferedPushCursorFirst ==
  /\ p_pc = "push_store" /\ Len(p_buffer) + 2 <= Depth
  /\ p_buffer' = p_buffer \o <<Cursor(Succ(p_cursor)), Slot(Succ(p_cursor), p_elem)>>
  /\ fifo' = Append(fifo, p_elem)
  /\ p_pc' = "push_recheck"
  /\ UNCHANGED <<ring, p_elem, cvars, collided, c_buffer>>

BufferedPushStore ==
  /\ p_pc = "push_store" /\ Len(p_buffer) + 2 <= Depth
  /\ p_buffer' = p_buffer \o <<Slot(Succ(p_cursor), p_elem), Cursor(Succ(p_cursor))>>
  /\ fifo' = Append(fifo, p_elem)
  /\ p_pc' = "push_recheck"
  /\ UNCHANGED <<ring, p_elem, cvars, collided, c_buffer>>

BufferedPushRecheck ==
  /\ p_pc = "push_recheck" /\ Len(p_buffer) < Depth
  /\ p_buffer' = IF p_cursor = consumer_cursor
                 THEN Append(p_buffer, Flag(FALSE)) ELSE p_buffer
  /\ p_pc' = "idle"
  /\ collided' = (collided \/ FlagsRace(p_buffer', c_buffer))
  /\ UNCHANGED <<ring, p_elem, cvars, fifo, c_buffer>>

-----------------------------------------------------------------------------
(* try_pull, empty and clear *)

\* The elements whose cursor store is visible (a collided ring may have lost
\* more than that).
Published == Max({0, Len(fifo) - Cardinality(Pending(p_buffer, "cursor"))})

BufferedLoad(call, same, other) ==
  /\ c_pc = "idle" /\ call \in ConsumerCalls
  /\ c_seen' = producer_cursor
  /\ c_avail' = Published
  /\ c_pc' = IF producer_cursor = c_cursor THEN same ELSE other
  /\ UNCHANGED <<ring, p_pc, p_elem, c_elem, fifo, collided, buffers>>

BufferedPull  == BufferedLoad("pull", "pull_flag", "pull_read")
BufferedEmpty == BufferedLoad("empty", "empty_flag", "idle")
BufferedClear == BufferedLoad("clear", "clear_store", "clear_store")

\* Mutants of BufferedPullFlag: equal cursors always mean full, or always empty.
BufferedPullIgnoresFlag ==
  /\ c_pc = "pull_flag"
  /\ c_pc' = "pull_read"
  /\ UNCHANGED <<ring, p_pc, p_elem, c_elem, c_seen, c_avail, fifo, collided, buffers>>

BufferedPullGivesUp ==
  /\ c_pc = "pull_flag"
  /\ c_pc' = "idle"
  /\ UNCHANGED <<ring, p_pc, p_elem, c_elem, c_seen, c_avail, fifo, collided, buffers>>

BufferedPullFlag ==
  /\ c_pc = "pull_flag"
  /\ c_pc' = IF c_flag THEN "idle" ELSE "pull_read"
  /\ UNCHANGED <<ring, p_pc, p_elem, c_elem, c_seen, c_avail, fifo, collided, buffers>>

BufferedPullRead ==
  /\ c_pc = "pull_read"
  /\ c_elem' = slots[Succ(c_cursor)]
  /\ c_pc' = "pull_store"
  /\ UNCHANGED <<ring, p_pc, p_elem, c_seen, c_avail, fifo, collided, buffers>>

\* Mutant of BufferedPullStore: never notices that the pull emptied the ring.
BufferedPullNeverEmpties ==
  /\ c_pc = "pull_store" /\ Len(c_buffer) + 2 <= Depth
  /\ c_buffer' = Append(c_buffer, Cursor(Succ(c_cursor)))
  /\ fifo' = IF fifo = <<>> THEN fifo ELSE Tail(fifo)
  /\ c_pc' = "idle"
  /\ UNCHANGED <<ring, p_pc, p_elem, c_elem, c_seen, c_avail, collided, p_buffer>>

BufferedPullStore ==
  /\ c_pc = "pull_store" /\ Len(c_buffer) + 2 <= Depth
  /\ c_buffer' = c_buffer \o <<Cursor(Succ(c_cursor))>>
                   \o (IF Succ(c_cursor) = c_seen THEN <<Flag(TRUE)>> ELSE <<>>)
  /\ fifo' = IF fifo = <<>> THEN fifo ELSE Tail(fifo)
  /\ c_pc' = "idle"
  /\ collided' = (collided \/ FlagsRace(p_buffer, c_buffer'))
  /\ UNCHANGED <<ring, p_pc, p_elem, c_elem, c_seen, c_avail, p_buffer>>

BufferedEmptyFlag ==
  /\ c_pc = "empty_flag"
  /\ c_pc' = "idle"
  /\ UNCHANGED <<ring, p_pc, p_elem, c_elem, c_seen, c_avail, fifo, collided, buffers>>

BufferedClearStore ==
  /\ c_pc = "clear_store" /\ Len(c_buffer) + 2 <= Depth
  /\ c_buffer' = c_buffer \o <<Cursor(c_seen), Flag(TRUE)>>
  /\ fifo' = SubSeq(fifo, c_avail + 1, Len(fifo))
  /\ c_pc' = "idle"
  /\ collided' = (collided \/ FlagsRace(p_buffer, c_buffer'))
  /\ UNCHANGED <<ring, p_pc, p_elem, c_elem, c_seen, c_avail, p_buffer>>

-----------------------------------------------------------------------------
(* Stores become visible *)

\* The producer has entered its cursor and not settled the flag yet; the
\* consumer has declared the ring empty, or is about to, and not visibly so.
PushUnsettled == p_pc = "push_recheck" \/ Pending(p_buffer, "flag") # {}
EmptyUnsettled == c_pc = "clear_store" \/ Pending(c_buffer, "flag") # {}

PushVisible ==
  /\ p_buffer # <<>>
  /\ LET s == Head(p_buffer)
     IN /\ slots' = IF s.loc = "slot" THEN [slots EXCEPT ![s.value[1]] = s.value[2]]
                    ELSE slots
        /\ producer_cursor' = IF s.loc = "cursor" THEN s.value ELSE producer_cursor
        /\ did_C_reached_P' = IF s.loc = "flag" THEN s.value ELSE did_C_reached_P
        /\ collided' = (collided \/ (/\ s.loc = "cursor" /\ EmptyUnsettled
                                     /\ s.value = consumer_cursor))
  /\ p_buffer' = Tail(p_buffer)
  /\ UNCHANGED <<consumer_cursor, p_pc, p_elem, cvars, fifo, c_buffer>>

PullVisible ==
  /\ c_buffer # <<>>
  /\ LET s == Head(c_buffer)
     IN /\ consumer_cursor' = IF s.loc = "cursor" THEN s.value ELSE consumer_cursor
        /\ did_C_reached_P' = IF s.loc = "flag" THEN s.value ELSE did_C_reached_P
        /\ collided' = (collided \/ (/\ s.loc = "cursor" /\ PushUnsettled
                                     /\ s.value = p_cursor))
  /\ c_buffer' = Tail(c_buffer)
  /\ UNCHANGED <<slots, producer_cursor, p_pc, p_elem, cvars, fifo, p_buffer>>

-----------------------------------------------------------------------------
BufferedProducerStep == BufferedPushFlag \/ BufferedPushStore \/ BufferedPushRecheck

BufferedConsumerStep ==
  \/ BufferedPullFlag \/ BufferedPullRead \/ BufferedPullStore
  \/ BufferedEmptyFlag \/ BufferedClearStore

NextBuffered ==
  \/ \E v \in Values : BufferedPush(v)
  \/ BufferedProducerStep
  \/ BufferedPull \/ BufferedEmpty \/ BufferedClear
  \/ BufferedConsumerStep
  \/ PushVisible \/ PullVisible

SpecBuffered == InitBuffered /\ [][NextBuffered]_all

\* As FairSpec; and an atomic store becomes visible in finite time.
FairSpecBuffered ==
  /\ SpecBuffered
  /\ WF_all(BufferedProducerStep) /\ WF_all(BufferedConsumerStep)
  /\ WF_all(PushVisible) /\ WF_all(PullVisible)
  /\ SF_all(BufferedPull)

-----------------------------------------------------------------------------
Store ==
  [loc : {"slot"}, value : Slots \X Values] \cup [loc : {"cursor"}, value : Slots]
    \cup [loc : {"flag"}, value : BOOLEAN]

\* The type of the state, the buffers included.
BufferedTypeOK ==
  /\ TypeOK
  /\ \A buffer \in {p_buffer, c_buffer} :
       Len(buffer) <= Depth /\ \A i \in DOMAIN buffer : buffer[i] \in Store

\* The element is copied without synchronisation, and the copy is seen late:
\* when try_pull reads a slot, no write to it is on the way.
NoPendingRace ==
  ~collided /\ c_pc = "pull_read" =>
    \A i \in Pending(p_buffer, "slot") : p_buffer[i].value[1] # Succ(c_cursor)

\* Once everything is visible and nothing is under way, equal cursors with the
\* flag mean empty and without it mean full.
FlagExactWhenVisible ==
  ~collided /\ p_buffer = <<>> /\ c_buffer = <<>> /\ p_pc # "push_recheck"
    /\ producer_cursor = consumer_cursor
  => Len(fifo) = IF did_C_reached_P THEN 0 ELSE Size

EntryFifo == INSTANCE BoundedFifo WITH queue <- fifo

\* Calls take effect in the order in which they enter their cursor, not in the
\* order in which it becomes visible: to its two threads the ring is the bounded
\* queue until a collision, and what it lacks in room is only what a thread
\* cannot see yet.
EnteredIsFifo == EntryFifo!Init /\ [][collided' \/ EntryFifo!Next]_fifo

\* However late the stores become visible, once an element was pushed the
\* consumer gets to take one by try_pull, or to clear the ring (or it has
\* collided).  A clear counts even when it does not see the element yet.
PushedIsTaken ==
  fifo # <<>> ~> (c_pc \in {"pull_store", "clear_store"} \/ fifo = <<>> \/ collided)
=============================================================================
