---------------------- MODULE ReleaseAcquireRingProofs ----------------------
(***************************************************************************)
(* The ring with late stores, for every size, every set of values and any  *)
(* number of stores under way: until a collision it is a FIFO queue.       *)
(***************************************************************************)
EXTENDS ReleaseAcquireRing, LockfreeRingbufferProofs, FiniteSetTheorems,
        WellFoundedInduction

-----------------------------------------------------------------------------
(* The inductive invariant.  Positions are counted from the consumer cursor  *)
(* the producer can see: pub[i] is the last element published once the first *)
(* i stores of p_buffer are visible, rel[i] the last element released once   *)
(* the first i stores of c_buffer are.  Slots are equal after a full lap,    *)
(* positions are not.                                                        *)

\* The last element the producer has entered, and the last the consumer has
\* taken, whether the other thread can see it or not.
Entered(pub) == pub[Len(p_buffer)]
Taken(rel)   == rel[Len(c_buffer)]

\* The producer's stores, which come behind what is visible and reach to the end
\* of fifo: an element is followed by the cursor that publishes it, and a cursor
\* is never visible before its element.
PStores(pub, rel) ==
  /\ pub \in [0 .. Len(p_buffer) -> 0 .. Size]
  /\ Taken(rel) <= pub[0] /\ Entered(pub) = Taken(rel) + Len(fifo)
  /\ \A i, j \in 0 .. Len(p_buffer) : i <= j => pub[i] <= pub[j]
  /\ \A i \in 1 .. Len(p_buffer) :
       \/ /\ p_buffer[i].loc = "slot" /\ pub[i] = pub[i - 1] /\ pub[i] < Entered(pub)
          /\ p_buffer[i].value = <<At(pub[i] + 1), fifo[pub[i] + 1 - Taken(rel)]>>
          /\ i < Len(p_buffer) /\ p_buffer[i + 1].loc = "cursor"
       \/ /\ p_buffer[i].loc = "cursor" /\ pub[i] = pub[i - 1] + 1
          /\ p_buffer[i].value = At(pub[i])
          /\ IF i = 1 THEN slots[At(pub[1])] = fifo[pub[1] - Taken(rel)]
             ELSE p_buffer[i - 1].loc = "slot"
       \/ p_buffer[i].loc = "flag" /\ pub[i] = pub[i - 1] /\ p_buffer[i].value = FALSE
  /\ Cardinality(Pending(p_buffer, "cursor")) = Entered(pub) - pub[0]

\* The consumer's stores.
CStores(rel) ==
  /\ rel \in [0 .. Len(c_buffer) -> 0 .. Size] /\ rel[0] = 0
  /\ \A i, j \in 0 .. Len(c_buffer) : i <= j => rel[i] <= rel[j]
  /\ \A i \in 1 .. Len(c_buffer) :
       \/ c_buffer[i].loc = "cursor" /\ c_buffer[i].value = At(rel[i])
       \/ c_buffer[i].loc = "flag" /\ rel[i] = rel[i - 1] /\ c_buffer[i].value = TRUE

\* Where the cursors are; the visible part of fifo is in the slots.
Positions(pub, rel) ==
  /\ p_cursor = At(Entered(pub)) /\ c_cursor = At(Taken(rel))
  /\ producer_cursor = At(pub[0])
  /\ \A j \in Taken(rel) + 1 .. pub[0] : slots[At(j)] = fifo[j - Taken(rel)]

\* A consumer that has nothing to take has said so last, and a producer's flag
\* that is under way tells of a ring filled since.
SaidEmpty(pub, rel) ==
  /\ c_buffer # <<>> => c_buffer[Len(c_buffer)].loc = "flag"
  /\ \A i \in Pending(p_buffer, "flag") : pub[i] = Taken(rel) + Size

\* What each thread knows of the flag: a full ring is not taken for empty by
\* the producer, nor an empty one for full by the consumer.
Flags(pub, rel) ==
  /\ ~FlagsRace(p_buffer, c_buffer)
  /\ Entered(pub) = Size /\ p_pc # "push_recheck"
       => ~p_flag /\ (pub[0] = Size \/ \E i \in Pending(p_buffer, "flag") : pub[i] = Size)
  /\ \A i \in Pending(c_buffer, "flag") :
       rel[i] = 0 /\ Entered(pub) = Size => p_pc = "push_recheck"
  /\ pub[0] = Taken(rel) => c_flag /\ SaidEmpty(pub, rel)

\* A producer past its checks has a free slot.
Producer(pub) ==
  /\ p_pc \in {"idle", "push_flag", "push_store", "push_recheck"}
  /\ p_pc = "push_store" => Entered(pub) < Size
  /\ p_pc = "push_recheck" => Entered(pub) > 0

\* What the consumer loaded is still published.
Consumer(pub, rel) ==
  /\ c_pc \in {"idle", "pull_flag", "empty_flag", "pull_read", "pull_store", "clear_store"}
  /\ c_pc # "idle"
       => Taken(rel) + c_avail <= pub[0] /\ c_seen = At(Taken(rel) + c_avail)
  /\ c_pc \in {"pull_flag", "empty_flag"}
       => /\ c_avail \in {0, Size}
          /\ c_avail = 0 => /\ pub[0] < Taken(rel) + Size => c_flag
                            /\ SaidEmpty(pub, rel)
  /\ c_pc \in {"pull_read", "pull_store"}
       => Taken(rel) < pub[0] /\ (c_avail = 0 => pub[0] = Taken(rel) + Size)
  /\ c_pc = "pull_store" => c_elem = fifo[1]
  /\ c_pc = "clear_store" /\ c_avail = 0 /\ Taken(rel) = 0 => pub[0] < Size

Holds(pub, rel) ==
  /\ CStores(rel) /\ PStores(pub, rel) /\ Positions(pub, rel)
  /\ Flags(pub, rel) /\ Producer(pub) /\ Consumer(pub, rel)

BufferedInv ==
  ~collided =>
    \E rel \in [0 .. Len(c_buffer) -> 0 .. Size] :
      \E pub \in [0 .. Len(p_buffer) -> 0 .. Size] : Holds(pub, rel)

-----------------------------------------------------------------------------
(* Buffers *)

\* A set of positions in a buffer has a latest one.
LEMMA LatestExists ==
  ASSUME NEW n \in Nat, NEW S \in SUBSET (1 .. n), S # {}
  PROVE  Max(S) \in S /\ \A i \in S : i <= Max(S)
<1> DEFINE R == OpToRel(<, Nat)
           T == {k \in 0 .. n : n - k \in S}
<1>1. IsWellFoundedOn(R, Nat)
  BY NatLessThanWellFounded
<1>2. T \subseteq Nat /\ T # {}
  <2>1. PICK i \in S : TRUE
    OBVIOUS
  <2>2. n - i \in T /\ T \subseteq Nat
    BY <2>1
  <2> HIDE DEF T
  <2> QED
    BY <2>2
<1>3. \A j, k \in Nat : <<j, k>> \in R <=> j < k
  BY DEF OpToRel
<1> HIDE DEF R, T
<1>4. PICK k \in T : \A j \in T : ~(<<j, k>> \in R)
  BY <1>1, <1>2, WFMin
<1>5. n - k \in S /\ k \in 0 .. n
  BY <1>4 DEF T
<1>6. ASSUME NEW i \in S PROVE i <= n - k
  <2>1. n - i \in T /\ n - i \in Nat /\ k \in Nat
    BY <1>5 DEF T
  <2>2. ~(n - i < k)
    BY <1>3, <1>4, <2>1
  <2> QED
    BY <1>5, <2>2
<1>7. \E x \in S : \A y \in S : x >= y
  BY <1>5, <1>6
<1>8. Max(S) \in S /\ \A y \in S : Max(S) >= y
  BY <1>7 DEF Max
<1> QED
  BY <1>8

\* Where the stores of a location are after one more was entered.
LEMMA PendingAppend ==
  ASSUME NEW b \in Seq(Store), NEW s \in Store, NEW loc
  PROVE  /\ Pending(Append(b, s), loc)
              = Pending(b, loc) \cup (IF s.loc = loc THEN {Len(b) + 1} ELSE {})
         /\ s.loc # loc => Pending(Append(b, s), loc) = Pending(b, loc)
<1>1. DOMAIN b = 1 .. Len(b) /\ DOMAIN Append(b, s) = 1 .. Len(b) + 1
  OBVIOUS
<1>2. Append(b, s)[Len(b) + 1] = s /\ \A i \in 1 .. Len(b) : Append(b, s)[i] = b[i]
  OBVIOUS
<1> QED
  BY <1>1, <1>2 DEF Pending

\* Where they are after the oldest one has become visible.
LEMMA PendingTail ==
  ASSUME NEW b \in Seq(Store), b # <<>>, NEW loc
  PROVE  /\ \A i : i \in Pending(Tail(b), loc) <=> i \in 1 .. Len(b) - 1 /\ i + 1 \in Pending(b, loc)
         /\ 1 \in Pending(b, loc) <=> Head(b).loc = loc
<1>1. /\ Tail(b) \in Seq(Store) /\ Len(Tail(b)) = Len(b) - 1 /\ Len(b) \in Nat \ {0}
      /\ \A i \in 1 .. Len(b) - 1 : Tail(b)[i] = b[i + 1]
      /\ Head(b) = b[1]
  OBVIOUS
<1>2. DOMAIN b = 1 .. Len(b) /\ DOMAIN Tail(b) = 1 .. Len(b) - 1
  BY <1>1
<1> QED
  BY <1>1, <1>2 DEF Pending

\* A thread reads the store it has just entered.
LEMMA LoadAppend ==
  ASSUME NEW b \in Seq(Store), NEW s \in Store, NEW loc, NEW v
  PROVE  Load(Append(b, s), loc, v) = IF s.loc = loc THEN s.value ELSE Load(b, loc, v)
<1> DEFINE P == Pending(b, loc)
           Q == Pending(Append(b, s), loc)
<1>1. Q = P \cup (IF s.loc = loc THEN {Len(b) + 1} ELSE {})
  BY PendingAppend
<1>2. P \subseteq 1 .. Len(b) /\ Len(b) \in Nat
  BY DEF Pending
<1>3. Append(b, s)[Len(b) + 1] = s /\ \A i \in 1 .. Len(b) : Append(b, s)[i] = b[i]
  OBVIOUS
<1> HIDE DEF P, Q
<1>4. CASE s.loc = loc
  <2>0. Q = P \cup {Len(b) + 1}
    BY <1>1, <1>4
  <2> DEFINE n == Len(b) + 1
  <2>a. n \in Nat /\ P \subseteq 1 .. n /\ n \in 1 .. n
    BY <1>2
  <2>b. Q = P \cup {n}
    BY <2>0
  <2> HIDE DEF n
  <2>1. Q \subseteq 1 .. n /\ n \in Q
    BY <2>a, <2>b
  <2>2. Max(Q) \in Q /\ \A i \in Q : i <= Max(Q)
    BY <2>a, <2>1, LatestExists
  <2>3. Max(Q) = n
    <3>1. Max(Q) \in 1 .. n /\ n <= Max(Q)
      BY <2>1, <2>2
    <3> QED
      BY <2>a, <3>1
  <2> QED
    BY <1>3, <1>4, <2>1, <2>3 DEF Load, Q, n
<1>5. CASE s.loc # loc
  <2>1. Q = P
    BY <1>1, <1>5
  <2>2. P # {} => Max(P) \in 1 .. Len(b)
    BY <1>2, LatestExists
  <2> QED
    BY <1>3, <1>5, <2>1, <2>2 DEF Load, P, Q
<1> QED
  BY <1>4, <1>5

\* A store that becomes visible changes nothing for the thread that made it.
LEMMA LoadTail ==
  ASSUME NEW b \in Seq(Store), b # <<>>, NEW loc, NEW v
  PROVE  Load(Tail(b), loc, IF Head(b).loc = loc THEN Head(b).value ELSE v)
           = Load(b, loc, v)
<1> DEFINE P == Pending(b, loc)
           Q == Pending(Tail(b), loc)
<1>1. /\ \A i : i \in Q <=> i \in 1 .. Len(b) - 1 /\ i + 1 \in P
      /\ 1 \in P <=> Head(b).loc = loc
  BY PendingTail
<1>2. P \subseteq 1 .. Len(b) /\ Len(b) \in Nat \ {0} /\ Head(b) = b[1]
  BY DEF Pending
<1>3. \A i \in 1 .. Len(b) - 1 : Tail(b)[i] = b[i + 1]
  OBVIOUS
<1> HIDE DEF P, Q
<1>4. CASE Q = {}
  <2>1. P \subseteq {1}
    <3> SUFFICES ASSUME NEW i \in P, i # 1 PROVE FALSE
      OBVIOUS
    <3>1. i - 1 \in 1 .. Len(b) - 1 /\ (i - 1) + 1 = i
      BY <1>2
    <3> QED
      BY <1>1, <1>4, <3>1
  <2>2. P # {} => Max(P) = 1
    BY <1>2, <2>1, LatestExists
  <2> QED
    BY <1>1, <1>2, <1>4, <2>1, <2>2 DEF Load, P, Q
<1>5. CASE Q # {}
  <2>1. Q \in SUBSET (1 .. Len(b) - 1) /\ Len(b) - 1 \in Nat
    BY <1>1, <1>2
  <2>2. Max(Q) \in Q /\ \A i \in Q : i <= Max(Q)
    BY <1>5, <2>1, LatestExists
  <2>3. Max(Q) + 1 \in P /\ Max(Q) \in 1 .. Len(b) - 1
    BY <1>1, <2>2
  <2>4. Max(P) \in P /\ \A i \in P : i <= Max(P)
    BY <1>2, <2>3, LatestExists
  <2>5. Max(P) = Max(Q) + 1
    <3>1. Max(P) \in 1 .. Len(b) /\ Max(P) >= Max(Q) + 1
      BY <1>2, <2>3, <2>4
    <3>2. Max(P) - 1 \in Q
      <4>1. Max(P) - 1 \in 1 .. Len(b) - 1 /\ (Max(P) - 1) + 1 = Max(P)
        BY <1>2, <2>3, <3>1
      <4> QED
        BY <1>1, <2>4, <4>1
    <3> QED
      BY <2>2, <2>3, <3>1, <3>2
  <2>6. Tail(b)[Max(Q)] = b[Max(P)]
    BY <1>3, <2>3, <2>5
  <2> QED
    BY <1>5, <2>3, <2>6 DEF Load, P, Q
<1> QED
  BY <1>4, <1>5

\* The number of stores of a location under way.
LEMMA PendingCount ==
  ASSUME NEW b \in Seq(Store), NEW loc
  PROVE  /\ Cardinality(Pending(b, loc)) \in Nat
         /\ \A s \in Store : Cardinality(Pending(Append(b, s), loc))
              = Cardinality(Pending(b, loc)) + (IF s.loc = loc THEN 1 ELSE 0)
         /\ b # <<>> => Cardinality(Pending(Tail(b), loc))
              = Cardinality(Pending(b, loc)) - (IF Head(b).loc = loc THEN 1 ELSE 0)
<1> DEFINE P == Pending(b, loc)
           Q == Pending(Tail(b), loc)
<1>1. P \subseteq 1 .. Len(b) /\ Len(b) \in Nat
  BY DEF Pending
<1>2. IsFiniteSet(P) /\ Cardinality(P) \in Nat
  <2> HIDE DEF P
  <2>1. IsFiniteSet(1 .. Len(b))
    BY <1>1, FS_Interval
  <2>2. IsFiniteSet(P)
    BY <1>1, <2>1, FS_Subset
  <2> QED
    BY <2>2, FS_CardinalityType
<1>3. ASSUME NEW s \in Store
      PROVE  Cardinality(Pending(Append(b, s), loc))
               = Cardinality(P) + (IF s.loc = loc THEN 1 ELSE 0)
  <2> HIDE DEF P
  <2>1. Pending(Append(b, s), loc) = P \cup (IF s.loc = loc THEN {Len(b) + 1} ELSE {})
    BY PendingAppend DEF P
  <2>2. Len(b) + 1 \notin P
    BY <1>1
  <2>3. Cardinality(P \cup {Len(b) + 1}) = Cardinality(P) + 1
    BY <1>2, <2>2, FS_AddElement
  <2>4. CASE s.loc = loc
    BY <2>1, <2>3, <2>4
  <2>5. CASE s.loc # loc
    <3>1. Pending(Append(b, s), loc) = P
      BY <2>1, <2>5
    <3> QED
      BY <1>2, <2>5, <3>1
  <2> QED
    BY <2>4, <2>5
<1>4. ASSUME b # <<>>
      PROVE  Cardinality(Q) = Cardinality(P) - (IF Head(b).loc = loc THEN 1 ELSE 0)
  <2>1. /\ \A i : i \in Q <=> i \in 1 .. Len(b) - 1 /\ i + 1 \in P
        /\ 1 \in P <=> Head(b).loc = loc
    BY <1>4, PendingTail
  <2> HIDE DEF P, Q
  <2> DEFINE f == [i \in Q |-> i + 1]
  <2>2. f \in [Q -> P \ {1}] /\ \A i \in Q : f[i] = i + 1
    BY <2>1
  <2>3. f \in Injection(Q, P \ {1})
    BY <2>1, <2>2 DEF Injection, IsInjective
  <2>4. f \in Surjection(Q, P \ {1})
    <3> SUFFICES ASSUME NEW j \in P \ {1} PROVE \E i \in Q : f[i] = j
      BY <2>2 DEF Surjection
    <3>1. j - 1 \in Q /\ (j - 1) + 1 = j
      BY <1>1, <2>1
    <3> QED
      BY <2>2, <3>1
  <2>5. ExistsBijection(Q, P \ {1})
    BY <2>3, <2>4 DEF ExistsBijection, Bijection
  <2>6. IsFiniteSet(Q)
    <3>1. Q \subseteq 1 .. Len(b) /\ IsFiniteSet(1 .. Len(b))
      BY <1>1, <2>1, FS_Interval
    <3> QED
      BY <3>1, FS_Subset
  <2>7. Cardinality(P \ {1}) = Cardinality(Q)
    BY <2>5, <2>6, FS_Bijection
  <2>8. Cardinality(P \ {1}) = IF 1 \in P THEN Cardinality(P) - 1 ELSE Cardinality(P)
    BY <1>2, FS_RemoveElement
  <2> QED
    BY <1>2, <2>1, <2>7, <2>8
<1> QED
  BY <1>2, <1>3, <1>4

\* What the three kinds of stores hold.
LEMMA StoreParts ==
  /\ \A s \in Store : /\ s.loc \in {"slot", "cursor", "flag"}
                      /\ s.loc = "slot" => s.value \in Slots \X Values
                      /\ s.loc = "cursor" => s.value \in Slots
                      /\ s.loc = "flag" => s.value \in BOOLEAN
  /\ \A i \in Slots, v \in Values : Slot(i, v) \in Store
  /\ \A i \in Slots : Cursor(i) \in Store
  /\ \A b \in BOOLEAN : Flag(b) \in Store
  /\ \A i, v : Slot(i, v).loc = "slot" /\ Slot(i, v).value = <<i, v>>
  /\ \A i : Cursor(i).loc = "cursor" /\ Cursor(i).value = i
  /\ \A b : Flag(b).loc = "flag" /\ Flag(b).value = b
<1>1. ASSUME NEW s \in Store
      PROVE  /\ s.loc \in {"slot", "cursor", "flag"}
             /\ s.loc = "slot" => s.value \in Slots \X Values
             /\ s.loc = "cursor" => s.value \in Slots
             /\ s.loc = "flag" => s.value \in BOOLEAN
  BY DEF Store
<1>2. /\ \A i \in Slots, v \in Values : Slot(i, v) \in Store
      /\ \A i \in Slots : Cursor(i) \in Store
      /\ \A b \in BOOLEAN : Flag(b) \in Store
  BY DEF Store, Slot, Cursor, Flag
<1>3. /\ \A i, v : Slot(i, v).loc = "slot" /\ Slot(i, v).value = <<i, v>>
      /\ \A i : Cursor(i).loc = "cursor" /\ Cursor(i).value = i
      /\ \A b : Flag(b).loc = "flag" /\ Flag(b).value = b
  BY DEF Slot, Cursor, Flag
<1> QED
  BY <1>1, <1>2, <1>3

\* A thread loads a value of the location's type.
LEMMA LoadType ==
  ASSUME NEW b \in Seq(Store)
  PROVE  /\ \A v \in Slots : Load(b, "cursor", v) \in Slots
         /\ \A v \in BOOLEAN : Load(b, "flag", v) \in BOOLEAN
<1>1. ASSUME NEW loc, Pending(b, loc) # {}
      PROVE  /\ b[Max(Pending(b, loc))] \in Store
             /\ b[Max(Pending(b, loc))].loc = loc
  <2>1. Pending(b, loc) \subseteq 1 .. Len(b) /\ Len(b) \in Nat
    BY DEF Pending
  <2>2. Max(Pending(b, loc)) \in Pending(b, loc)
    BY <1>1, <2>1, LatestExists
  <2> QED
    BY <2>2 DEF Pending
<1>2. \A v \in Slots : Load(b, "cursor", v) \in Slots
  BY <1>1, StoreParts DEF Load
<1>3. \A v \in BOOLEAN : Load(b, "flag", v) \in BOOLEAN
  BY <1>1, StoreParts DEF Load
<1> QED
  BY <1>2, <1>3

\* The larger of a number and zero.
LEMMA AtLeastZero ==
  ASSUME NEW x \in Int
  PROVE  Max({0, x}) = IF x > 0 THEN x ELSE 0
<1>1. \E m \in {0, x} : \A y \in {0, x} : m >= y
  <2>1. CASE x > 0
    BY <2>1
  <2>2. CASE x <= 0
    BY <2>2
  <2> QED
    BY <2>1, <2>2
<1>2. Max({0, x}) \in {0, x} /\ \A y \in {0, x} : Max({0, x}) >= y
  BY <1>1 DEF Max
<1> QED
  BY <1>2

-----------------------------------------------------------------------------
(* Type correctness *)

\* BufferedTypeOK, with buffers that are sequences.
BufferTypes ==
  /\ TypeOK
  /\ p_buffer \in Seq(Store) /\ Len(p_buffer) <= Depth
  /\ c_buffer \in Seq(Store) /\ Len(c_buffer) <= Depth

\* Two stores entered one after the other.
LEMMA TwoStores ==
  ASSUME NEW b \in Seq(Store), NEW s \in Store, NEW t \in Store
  PROVE  /\ b \o <<s>> = Append(b, s)
         /\ b \o <<s, t>> = Append(Append(b, s), t)
         /\ b \o <<s>> \o <<t>> = Append(Append(b, s), t)
         /\ Append(b, s) \in Seq(Store) /\ Len(Append(b, s)) = Len(b) + 1
         /\ Append(Append(b, s), t) \in Seq(Store)
         /\ Len(Append(Append(b, s), t)) = Len(b) + 2
OBVIOUS

\* What try_push enters, of either kind.
LEMMA PushTypes ==
  ASSUME BufferTypes
  PROVE  /\ p_cursor \in Slots /\ c_cursor \in Slots
         /\ p_flag \in BOOLEAN /\ c_flag \in BOOLEAN
         /\ Succ(p_cursor) \in Slots /\ Succ(c_cursor) \in Slots
         /\ Published \in Nat
<1>1. /\ p_cursor \in Slots /\ c_cursor \in Slots
      /\ p_flag \in BOOLEAN /\ c_flag \in BOOLEAN
  BY LoadType DEF BufferTypes, TypeOK, p_cursor, c_cursor, p_flag, c_flag
<1>2. \A i \in Slots : Succ(i) \in Slots
  BY RingAssumption DEF Succ, Slots
<1>3. Cardinality(Pending(p_buffer, "cursor")) \in Nat /\ Len(fifo) \in Nat
  BY PendingCount DEF BufferTypes, TypeOK
<1>4. Published \in Nat
  <2> DEFINE x == Len(fifo) - Cardinality(Pending(p_buffer, "cursor"))
  <2>1. x \in Int
    BY <1>3
  <2>2. Published = Max({0, x})
    BY DEF Published
  <2> HIDE DEF x
  <2> QED
    BY <2>1, <2>2, AtLeastZero
<1> QED
  BY <1>1, <1>2, <1>4

\* What each call enters: a push its element and its cursor, and the flag if it
\* filled the ring; a pull its cursor, and the flag if it emptied the ring.
LEMMA EnteredStores ==
  ASSUME BufferTypes
  PROVE  /\ BufferedPushStore =>
              /\ Slot(Succ(p_cursor), p_elem) \in Store /\ Cursor(Succ(p_cursor)) \in Store
              /\ p_buffer' = Append(Append(p_buffer, Slot(Succ(p_cursor), p_elem)),
                                   Cursor(Succ(p_cursor)))
         /\ Cursor(Succ(c_cursor)) \in Store /\ Cursor(c_seen) \in Store
         /\ Flag(TRUE) \in Store /\ Flag(FALSE) \in Store
         /\ BufferedPullStore =>
              c_buffer' = IF Succ(c_cursor) = c_seen
                          THEN Append(Append(c_buffer, Cursor(Succ(c_cursor))), Flag(TRUE))
                          ELSE Append(c_buffer, Cursor(Succ(c_cursor)))
         /\ BufferedClearStore =>
              c_buffer' = Append(Append(c_buffer, Cursor(c_seen)), Flag(TRUE))
<1>1. /\ Cursor(Succ(c_cursor)) \in Store /\ Cursor(c_seen) \in Store
      /\ Flag(TRUE) \in Store /\ Flag(FALSE) \in Store
      /\ Cursor(Succ(p_cursor)) \in Store
  BY PushTypes, StoreParts DEF BufferTypes, TypeOK
<1>2. p_buffer \in Seq(Store) /\ c_buffer \in Seq(Store)
  BY DEF BufferTypes
<1>3. ASSUME BufferedPushStore
      PROVE  /\ Slot(Succ(p_cursor), p_elem) \in Store
             /\ p_buffer' = Append(Append(p_buffer, Slot(Succ(p_cursor), p_elem)),
                                  Cursor(Succ(p_cursor)))
  <2>1. p_elem \in Values
    BY <1>3 DEF BufferedPushStore, BufferTypes, TypeOK
  <2>2. Slot(Succ(p_cursor), p_elem) \in Store
    BY <2>1, PushTypes, StoreParts
  <2>3. p_buffer' = p_buffer \o <<Slot(Succ(p_cursor), p_elem), Cursor(Succ(p_cursor))>>
    BY <1>3 DEF BufferedPushStore
  <2> QED
    BY <1>1, <1>2, <2>2, <2>3, TwoStores
<1>4. ASSUME BufferedPullStore
      PROVE  c_buffer' = IF Succ(c_cursor) = c_seen
                         THEN Append(Append(c_buffer, Cursor(Succ(c_cursor))), Flag(TRUE))
                         ELSE Append(c_buffer, Cursor(Succ(c_cursor)))
  <2>1. c_buffer' = c_buffer \o <<Cursor(Succ(c_cursor))>>
                      \o (IF Succ(c_cursor) = c_seen THEN <<Flag(TRUE)>> ELSE <<>>)
    BY <1>4 DEF BufferedPullStore
  <2>2. CASE Succ(c_cursor) = c_seen
    <3>1. c_buffer' = c_buffer \o <<Cursor(Succ(c_cursor))>> \o <<Flag(TRUE)>>
      BY <2>1, <2>2
    <3> QED
      BY <1>1, <1>2, <2>2, <3>1, TwoStores
  <2>3. CASE Succ(c_cursor) # c_seen
    <3>1. c_buffer' = c_buffer \o <<Cursor(Succ(c_cursor))>> \o <<>>
      BY <2>1, <2>3
    <3>2. c_buffer \o <<Cursor(Succ(c_cursor))>> \in Seq(Store)
      BY <1>1, <1>2
    <3>3. c_buffer \o <<Cursor(Succ(c_cursor))>> \o <<>> = c_buffer \o <<Cursor(Succ(c_cursor))>>
      BY <3>2
    <3> QED
      BY <1>1, <1>2, <2>3, <3>1, <3>3, TwoStores
  <2> QED
    BY <2>2, <2>3
<1>5. ASSUME BufferedClearStore
      PROVE  c_buffer' = Append(Append(c_buffer, Cursor(c_seen)), Flag(TRUE))
  <2>1. c_buffer' = c_buffer \o <<Cursor(c_seen), Flag(TRUE)>>
    BY <1>5 DEF BufferedClearStore
  <2> QED
    BY <1>1, <1>2, <2>1, TwoStores
<1> QED
  BY <1>1, <1>3, <1>4, <1>5

\* One step keeps the types.
LEMMA BufferedTypeStep == BufferTypes /\ [NextBuffered]_all => BufferTypes'
<1> SUFFICES ASSUME BufferTypes, [NextBuffered]_all PROVE BufferTypes'
  OBVIOUS
<1>a. /\ p_buffer \in Seq(Store) /\ c_buffer \in Seq(Store)
      /\ Len(p_buffer) \in Nat /\ Len(p_buffer) <= Depth
      /\ Len(c_buffer) \in Nat /\ Len(c_buffer) <= Depth /\ Depth \in Nat
  BY DepthAssumption DEF BufferTypes
<1>b. BufferedPushStore => p_buffer' \in Seq(Store) /\ Len(p_buffer') <= Depth
  <2> SUFFICES ASSUME BufferedPushStore PROVE p_buffer' \in Seq(Store) /\ Len(p_buffer') <= Depth
    OBVIOUS
  <2>1. Len(p_buffer) + 2 <= Depth
    BY DEF BufferedPushStore
  <2> QED
    BY <1>a, <2>1, EnteredStores, TwoStores, SMTT(20)
<1>c. BufferedPushRecheck => p_buffer' \in Seq(Store) /\ Len(p_buffer') <= Depth
  <2> SUFFICES ASSUME BufferedPushRecheck PROVE p_buffer' \in Seq(Store) /\ Len(p_buffer') <= Depth
    OBVIOUS
  <2>1. Len(p_buffer) + 1 <= Depth
    BY <1>a DEF BufferedPushRecheck
  <2>2. p_buffer' = p_buffer \/ p_buffer' = Append(p_buffer, Flag(FALSE))
    BY DEF BufferedPushRecheck
  <2>3. Flag(FALSE) \in Store
    BY EnteredStores
  <2>4. Append(p_buffer, Flag(FALSE)) \in Seq(Store)
        /\ Len(Append(p_buffer, Flag(FALSE))) = Len(p_buffer) + 1
    BY <1>a, <2>3, TwoStores
  <2>5. CASE p_buffer' = p_buffer
    BY <1>a, <2>5
  <2>6. CASE p_buffer' = Append(p_buffer, Flag(FALSE))
    BY <1>a, <2>1, <2>4, <2>6
  <2> QED
    BY <2>2, <2>5, <2>6
<1>d. BufferedPullStore \/ BufferedClearStore
        => c_buffer' \in Seq(Store) /\ Len(c_buffer') <= Depth
  <2> SUFFICES ASSUME BufferedPullStore \/ BufferedClearStore
               PROVE  c_buffer' \in Seq(Store) /\ Len(c_buffer') <= Depth
    OBVIOUS
  <2>1. Len(c_buffer) + 2 <= Depth
    BY DEF BufferedPullStore, BufferedClearStore
  <2>2. PICK s \in Store : c_buffer' \in {Append(c_buffer, s), Append(Append(c_buffer, s), Flag(TRUE))}
    BY EnteredStores
  <2>3. Append(c_buffer, s) \in Seq(Store) /\ Len(Append(c_buffer, s)) = Len(c_buffer) + 1
    BY <1>a, TwoStores
  <2>4. /\ Append(Append(c_buffer, s), Flag(TRUE)) \in Seq(Store)
        /\ Len(Append(Append(c_buffer, s), Flag(TRUE))) = Len(c_buffer) + 2
    BY <1>a, EnteredStores, TwoStores
  <2>5. CASE c_buffer' = Append(c_buffer, s)
    BY <1>a, <2>1, <2>3, <2>5
  <2>6. CASE c_buffer' = Append(Append(c_buffer, s), Flag(TRUE))
    BY <1>a, <2>1, <2>4, <2>6
  <2> QED
    BY <2>2, <2>5, <2>6
<1>0. /\ p_cursor \in Slots /\ c_cursor \in Slots
      /\ p_flag \in BOOLEAN /\ c_flag \in BOOLEAN
      /\ Succ(p_cursor) \in Slots /\ Succ(c_cursor) \in Slots
      /\ Published \in Nat
  BY PushTypes
<1> USE RingAssumption, DepthAssumption DEF BufferTypes, TypeOK, ring, cvars, buffers
<1>1. ASSUME NEW v \in Values, BufferedPush(v) PROVE BufferTypes'
  BY <1>1 DEF BufferedPush
<1>2. CASE BufferedPushFlag
  BY <1>2 DEF BufferedPushFlag
<1>3. CASE BufferedPushStore
  <2>1. fifo' \in Seq(Values)
    BY <1>3 DEF BufferedPushStore
  <2> QED
    BY <1>3, <1>b, <2>1 DEF BufferedPushStore
<1>4. CASE BufferedPushRecheck
  <2>5. collided' \in BOOLEAN
    BY <1>4 DEF BufferedPushRecheck, FlagsRace
  <2> QED
    BY <1>4, <1>c, <2>5 DEF BufferedPushRecheck
<1>5. CASE BufferedPull \/ BufferedEmpty \/ BufferedClear
  BY <1>0, <1>5 DEF BufferedPull, BufferedEmpty, BufferedClear, BufferedLoad
<1>6. CASE BufferedPullFlag \/ BufferedEmptyFlag
  BY <1>6 DEF BufferedPullFlag, BufferedEmptyFlag
<1>7. CASE BufferedPullRead
  BY <1>0, <1>7 DEF BufferedPullRead
<1>8. CASE BufferedPullStore
  <2>3. collided' \in BOOLEAN
    BY <1>8 DEF BufferedPullStore, FlagsRace
  <2>4. fifo' \in Seq(Values)
    BY <1>8 DEF BufferedPullStore
  <2> QED
    BY <1>8, <1>d, <2>3, <2>4 DEF BufferedPullStore
<1>9. CASE BufferedClearStore
  <2>3. collided' \in BOOLEAN
    BY <1>9 DEF BufferedClearStore, FlagsRace
  <2>4. fifo' \in Seq(Values)
    BY <1>9 DEF BufferedClearStore
  <2> QED
    BY <1>9, <1>d, <2>3, <2>4 DEF BufferedClearStore
<1>10. CASE PushVisible
  <2>1. Head(p_buffer) \in Store /\ p_buffer' \in Seq(Store) /\ Len(p_buffer') <= Depth
    BY <1>10 DEF PushVisible
  <2>2. /\ producer_cursor' \in Slots /\ did_C_reached_P' \in BOOLEAN
        /\ slots' \in [Slots -> Values \cup {Garbage}]
    BY <1>10, <2>1, StoreParts DEF PushVisible
  <2>3. collided' \in BOOLEAN
    BY <1>10 DEF PushVisible
  <2> QED
    BY <1>10, <2>1, <2>2, <2>3 DEF PushVisible
<1>11. CASE PullVisible
  <2>1. Head(c_buffer) \in Store /\ c_buffer' \in Seq(Store) /\ Len(c_buffer') <= Depth
    BY <1>11 DEF PullVisible
  <2>2. consumer_cursor' \in Slots /\ did_C_reached_P' \in BOOLEAN
    BY <1>11, <2>1, StoreParts DEF PullVisible
  <2>3. collided' \in BOOLEAN
    BY <1>11 DEF PullVisible
  <2> QED
    BY <1>11, <2>1, <2>2, <2>3 DEF PullVisible
<1>12. CASE UNCHANGED all
  BY <1>12 DEF all, vars
<1> QED
  BY <1>1, <1>2, <1>3, <1>4, <1>5, <1>6, <1>7, <1>8, <1>9, <1>10, <1>11, <1>12
     DEF NextBuffered, BufferedProducerStep, BufferedConsumerStep

\* The types hold throughout.
THEOREM BufferedTypes == SpecBuffered => []BufferedTypeOK
<1>1. InitBuffered => BufferTypes
  BY RingAssumption, DepthAssumption DEF InitBuffered, Init, BufferTypes, TypeOK, Slots
<1>2. BufferTypes => BufferedTypeOK
  BY DEF BufferTypes, BufferedTypeOK
<1> QED
  BY <1>1, <1>2, BufferedTypeStep, PTL DEF SpecBuffered

-----------------------------------------------------------------------------
(* The invariant is inductive: one lemma per step of the two threads *)

\* Positions at most one lap apart are at the same place only if they are equal
\* or a lap apart.
LEMMA PlacesMeet ==
  ASSUME Size \in Nat \ {0}, NEW c \in 0 .. Size - 1, NEW x \in 0 .. Size, NEW y \in 0 .. Size,
         y <= x
  PROVE  Place(c, x) = Place(c, y) <=> x \in {y, y + Size}
<1>1. CASE c + x < Size
  BY <1>1 DEF Place
<1>2. CASE c + x >= Size /\ c + y < Size
  BY <1>2 DEF Place
<1>3. CASE c + x >= Size /\ c + y >= Size
  BY <1>3 DEF Place
<1> QED
  BY <1>1, <1>2, <1>3

\* The order of the positions, and what equal cursors mean.
LEMMA PositionFacts ==
  ASSUME BufferTypes, NEW pub, NEW rel, Holds(pub, rel)
  PROVE  /\ Size \in Nat \ {0} /\ consumer_cursor \in 0 .. Size - 1
         /\ Len(p_buffer) \in Nat /\ Len(c_buffer) \in Nat /\ Len(fifo) \in Nat
         /\ pub[0] \in 0 .. Size /\ Entered(pub) \in 0 .. Size /\ Taken(rel) \in 0 .. Size
         /\ Taken(rel) <= pub[0] /\ pub[0] <= Entered(pub)
         /\ Entered(pub) = Taken(rel) + Len(fifo)
         /\ \A i \in 0 .. Len(p_buffer) :
              pub[i] \in 0 .. Size /\ pub[0] <= pub[i] /\ pub[i] <= Entered(pub)
         /\ \A i \in 0 .. Len(c_buffer) : rel[i] \in 0 .. Size /\ rel[i] <= Taken(rel)
         /\ p_cursor = consumer_cursor <=> Entered(pub) \in {0, Size}
         /\ producer_cursor = c_cursor <=> pub[0] \in {Taken(rel), Taken(rel) + Size}
         /\ Published = pub[0] - Taken(rel)
<1>1. /\ Size \in Nat \ {0} /\ consumer_cursor \in 0 .. Size - 1
      /\ Len(p_buffer) \in Nat /\ Len(c_buffer) \in Nat /\ Len(fifo) \in Nat
  BY RingAssumption DEF BufferTypes, TypeOK, Slots
<1>2. 0 \in 0 .. Len(p_buffer) /\ Len(p_buffer) \in 0 .. Len(p_buffer)
      /\ 0 \in 0 .. Len(c_buffer) /\ Len(c_buffer) \in 0 .. Len(c_buffer)
  BY <1>1
<1>3. /\ pub \in [0 .. Len(p_buffer) -> 0 .. Size]
      /\ rel \in [0 .. Len(c_buffer) -> 0 .. Size]
      /\ Taken(rel) <= pub[0] /\ Entered(pub) = Taken(rel) + Len(fifo)
  BY DEF Holds, PStores, CStores
<1>4. pub[0] \in 0 .. Size /\ Entered(pub) \in 0 .. Size /\ Taken(rel) \in 0 .. Size
  BY <1>2, <1>3 DEF Entered, Taken
<1>5. \A i \in 0 .. Len(p_buffer) :
        pub[i] \in 0 .. Size /\ pub[0] <= pub[i] /\ pub[i] <= Entered(pub)
  <2> SUFFICES ASSUME NEW i \in 0 .. Len(p_buffer)
               PROVE  pub[i] \in 0 .. Size /\ pub[0] <= pub[i] /\ pub[i] <= Entered(pub)
    OBVIOUS
  <2>1. 0 <= i /\ i <= Len(p_buffer)
    BY <1>1
  <2> QED
    BY <1>2, <1>3, <2>1 DEF Holds, PStores, Entered
<1>6. \A i \in 0 .. Len(c_buffer) : rel[i] \in 0 .. Size /\ rel[i] <= Taken(rel)
  <2> SUFFICES ASSUME NEW i \in 0 .. Len(c_buffer)
               PROVE  rel[i] \in 0 .. Size /\ rel[i] <= Taken(rel)
    OBVIOUS
  <2>1. i <= Len(c_buffer)
    BY <1>1
  <2> QED
    BY <1>2, <1>3, <2>1 DEF Holds, CStores, Taken
<1>7. pub[0] <= Entered(pub)
  BY <1>2, <1>5
<1>8. /\ p_cursor = At(Entered(pub)) /\ c_cursor = At(Taken(rel)) /\ producer_cursor = At(pub[0])
  BY DEF Holds, Positions
<1> HIDE DEF Holds
<1>9. p_cursor = consumer_cursor <=> Entered(pub) \in {0, Size}
  BY <1>1, <1>4, <1>8 DEF At, Place
<1>10. producer_cursor = c_cursor <=> pub[0] \in {Taken(rel), Taken(rel) + Size}
  <2>1. Place(consumer_cursor, pub[0]) = Place(consumer_cursor, Taken(rel))
          <=> pub[0] \in {Taken(rel), Taken(rel) + Size}
    BY <1>1, <1>3, <1>4, PlacesMeet
  <2> QED
    BY <1>8, <2>1 DEF At
<1>11. Published = pub[0] - Taken(rel)
  <2>1. Cardinality(Pending(p_buffer, "cursor")) = Entered(pub) - pub[0]
    BY DEF Holds, PStores
  <2> DEFINE x == Len(fifo) - Cardinality(Pending(p_buffer, "cursor"))
  <2>2. x = pub[0] - Taken(rel) /\ x \in Nat
    BY <1>1, <1>3, <1>4, <2>1
  <2>3. Published = Max({0, x})
    BY DEF Published
  <2> HIDE DEF x
  <2> QED
    BY <2>2, <2>3, AtLeastZero
<1> QED
  BY <1>1, <1>3, <1>4, <1>5, <1>6, <1>7, <1>9, <1>10, <1>11

\* Steps that change neither the ring nor a buffer keep what only depends on
\* these.
LEMMA QuietStep ==
  ASSUME NEW pub, NEW rel, Holds(pub, rel), UNCHANGED <<ring, fifo, buffers>>
  PROVE  /\ PStores(pub, rel)' /\ CStores(rel)' /\ Positions(pub, rel)'
         /\ Entered(pub)' = Entered(pub) /\ Taken(rel)' = Taken(rel)
         /\ p_cursor' = p_cursor /\ c_cursor' = c_cursor
         /\ p_flag' = p_flag /\ c_flag' = c_flag
         /\ SaidEmpty(pub, rel)' <=> SaidEmpty(pub, rel)
<1>0. UNCHANGED <<slots, producer_cursor, consumer_cursor, did_C_reached_P, fifo,
                  p_buffer, c_buffer>>
  BY DEF ring, buffers
<1>1. /\ Entered(pub)' = Entered(pub) /\ Taken(rel)' = Taken(rel)
      /\ p_cursor' = p_cursor /\ c_cursor' = c_cursor
      /\ p_flag' = p_flag /\ c_flag' = c_flag
      /\ \A i : At(i)' = At(i)
  BY <1>0 DEF Entered, Taken, p_cursor, c_cursor, p_flag, c_flag, At
<1>2. PStores(pub, rel)'
  BY <1>0, <1>1 DEF Holds, PStores
<1>3. CStores(rel)'
  BY <1>0, <1>1 DEF Holds, CStores
<1>4. Positions(pub, rel)'
  BY <1>0, <1>1 DEF Holds, Positions
<1>5. SaidEmpty(pub, rel)' <=> SaidEmpty(pub, rel)
  BY <1>0, <1>1 DEF SaidEmpty
<1> QED
  BY <1>1, <1>2, <1>3, <1>4, <1>5

\* try_push looks whether the ring is full (lines 85-89).
LEMMA BufferedPushKeeps ==
  ASSUME BufferTypes, NEW pub, NEW rel, Holds(pub, rel),
         BufferedPushFlag \/ \E v \in Values : BufferedPush(v)
  PROVE  Holds(pub, rel)'
<1>0. UNCHANGED <<ring, fifo, buffers, cvars>>
  BY DEF BufferedPushFlag, BufferedPush
<1>1. /\ PStores(pub, rel)' /\ CStores(rel)' /\ Positions(pub, rel)'
      /\ Entered(pub)' = Entered(pub) /\ Taken(rel)' = Taken(rel)
      /\ p_cursor' = p_cursor /\ c_cursor' = c_cursor
      /\ p_flag' = p_flag /\ c_flag' = c_flag
      /\ SaidEmpty(pub, rel)' <=> SaidEmpty(pub, rel)
  BY <1>0, QuietStep
<1>2. /\ p_pc # "push_recheck" /\ p_pc' \in {"idle", "push_flag", "push_store"}
      /\ p_pc' = "push_store" => IF p_pc = "push_flag" THEN p_flag
                                 ELSE p_cursor # consumer_cursor
  BY DEF BufferedPushFlag, BufferedPush
<1>3. p_pc' = "push_store" => Entered(pub) < Size
  <2>1. Entered(pub) = Size => ~p_flag /\ p_cursor = consumer_cursor
    BY <1>2, PositionFacts DEF Holds, Flags
  <2> QED
    BY <1>2, <2>1, PositionFacts
<1>4. Flags(pub, rel)'
  BY <1>0, <1>1, <1>2 DEF Holds, Flags, buffers
<1>5. Producer(pub)'
  BY <1>1, <1>2, <1>3 DEF Producer
<1>6. Consumer(pub, rel)'
  <2>1. UNCHANGED <<c_pc, c_elem, c_seen, c_avail, fifo, consumer_cursor>>
    BY <1>0 DEF cvars, ring
  <2> QED
    BY <1>1, <2>1 DEF Holds, Consumer, At
<1> QED
  BY <1>1, <1>4, <1>5, <1>6 DEF Holds

\* The consumer loads the cursors (lines 105, 125 and 134).
LEMMA BufferedLoadKeeps ==
  ASSUME BufferTypes, NEW pub, NEW rel, Holds(pub, rel),
         BufferedPull \/ BufferedEmpty \/ BufferedClear
  PROVE  Holds(pub, rel)'
<1>0. /\ UNCHANGED <<ring, fifo, buffers, p_pc, c_elem>>
      /\ c_seen' = producer_cursor /\ c_avail' = Published
      /\ c_pc' \in {"idle", "pull_flag", "empty_flag", "pull_read", "clear_store"}
      /\ c_pc' \in {"pull_flag", "empty_flag"} => producer_cursor = c_cursor
      /\ c_pc' = "pull_read" => producer_cursor # c_cursor
  BY DEF BufferedPull, BufferedEmpty, BufferedClear, BufferedLoad
<1>1. /\ PStores(pub, rel)' /\ CStores(rel)' /\ Positions(pub, rel)'
      /\ Entered(pub)' = Entered(pub) /\ Taken(rel)' = Taken(rel)
      /\ p_cursor' = p_cursor /\ c_cursor' = c_cursor
      /\ p_flag' = p_flag /\ c_flag' = c_flag
      /\ SaidEmpty(pub, rel)' <=> SaidEmpty(pub, rel)
  BY <1>0, QuietStep
<1>2. Flags(pub, rel)' /\ Producer(pub)'
  BY <1>0, <1>1 DEF Holds, Flags, Producer, buffers
<1>3. /\ c_avail' = pub[0] - Taken(rel) /\ c_seen' = At(pub[0])
      /\ consumer_cursor' = consumer_cursor
  BY <1>0, PositionFacts DEF Holds, Positions, ring
<1>4. Consumer(pub, rel)'
  <2>1. Taken(rel) + c_avail' <= pub[0] /\ c_seen' = At(Taken(rel) + c_avail')
    BY <1>3, PositionFacts
  <2>2. c_pc' \in {"pull_flag", "empty_flag"}
          => /\ c_avail' \in {0, Size}
             /\ c_avail' = 0 => c_flag /\ SaidEmpty(pub, rel)
    BY <1>0, <1>3, PositionFacts DEF Holds, Flags
  <2>3. c_pc' = "pull_read" => Taken(rel) < pub[0] /\ c_avail' # 0
    BY <1>0, <1>3, PositionFacts
  <2>4. c_avail' = 0 /\ Taken(rel) = 0 => pub[0] < Size
    BY <1>3, PositionFacts
  <2>5. At(Taken(rel) + c_avail)' = At(Taken(rel) + c_avail')
    BY <1>1, <1>3 DEF At
  <2> QED
    BY <1>0, <1>1, <2>1, <2>2, <2>3, <2>4, <2>5 DEF Consumer
<1> QED
  BY <1>1, <1>2, <1>4 DEF Holds

\* The consumer reads the flag, and the element (lines 108, 128 and 114).
LEMMA BufferedReadKeeps ==
  ASSUME BufferTypes, NEW pub, NEW rel, Holds(pub, rel),
         BufferedPullFlag \/ BufferedEmptyFlag \/ BufferedPullRead
  PROVE  Holds(pub, rel)'
<1>0. UNCHANGED <<ring, fifo, buffers, p_pc, c_seen, c_avail>>
  BY DEF BufferedPullFlag, BufferedEmptyFlag, BufferedPullRead
<1>1. /\ PStores(pub, rel)' /\ CStores(rel)' /\ Positions(pub, rel)'
      /\ Entered(pub)' = Entered(pub) /\ Taken(rel)' = Taken(rel)
      /\ p_cursor' = p_cursor /\ c_cursor' = c_cursor
      /\ p_flag' = p_flag /\ c_flag' = c_flag
      /\ SaidEmpty(pub, rel)' <=> SaidEmpty(pub, rel)
  BY <1>0, QuietStep
<1>2. Flags(pub, rel)' /\ Producer(pub)'
  BY <1>0, <1>1 DEF Holds, Flags, Producer, buffers
<1>a. At(Taken(rel) + c_avail)' = At(Taken(rel) + c_avail)
  BY <1>0, <1>1 DEF At, ring
<1> SUFFICES Consumer(pub, rel)'
  BY <1>1, <1>2 DEF Holds
<1>3. CASE BufferedEmptyFlag
  BY <1>1, <1>3 DEF BufferedEmptyFlag, Consumer
<1>4. CASE BufferedPullFlag
  <2>1. c_pc = "pull_flag" /\ c_pc' = IF c_flag THEN "idle" ELSE "pull_read"
    BY <1>4 DEF BufferedPullFlag
  <2>2. ~c_flag => Taken(rel) < pub[0] /\ (c_avail = 0 => pub[0] = Taken(rel) + Size)
    BY <2>1, PositionFacts DEF Holds, Consumer
  <2> QED
    BY <1>0, <1>1, <1>a, <2>1, <2>2 DEF Holds, Consumer
<1>5. CASE BufferedPullRead
  <2>1. c_pc = "pull_read" /\ c_pc' = "pull_store" /\ c_elem' = slots[Succ(c_cursor)]
    BY <1>5 DEF BufferedPullRead
  <2>2. Taken(rel) < pub[0] /\ (c_avail = 0 => pub[0] = Taken(rel) + Size)
    BY <2>1 DEF Holds, Consumer
  <2>3. Succ(c_cursor) = At(Taken(rel) + 1)
    <3>1. Taken(rel) \in 0 .. Size - 1 /\ consumer_cursor \in Slots
      BY <2>2, PositionFacts DEF Slots
    <3> QED
      BY <3>1, SuccPlace DEF Holds, Positions, At
  <2>4. slots[At(Taken(rel) + 1)] = fifo[1]
    <3>0. Taken(rel) \in Nat /\ pub[0] \in Nat
      BY PositionFacts
    <3>1. PICK j \in Taken(rel) + 1 .. pub[0] : j = Taken(rel) + 1 /\ j - Taken(rel) = 1
      BY <2>2, <3>0
    <3>2. slots[At(j)] = fifo[j - Taken(rel)]
      BY DEF Holds, Positions
    <3> QED
      BY <3>1, <3>2
  <2> QED
    BY <1>0, <1>1, <1>a, <2>1, <2>2, <2>3, <2>4 DEF Holds, Consumer
<1> QED
  BY <1>3, <1>4, <1>5

\* The elements of a sequence to which one was appended.
LEMMA AppendElements ==
  ASSUME NEW S, NEW s \in Seq(S), NEW x \in S
  PROVE  /\ Append(s, x) \in Seq(S) /\ Len(Append(s, x)) = Len(s) + 1
         /\ \A i \in 1 .. Len(s) : Append(s, x)[i] = s[i]
         /\ Append(s, x)[Len(s) + 1] = x
OBVIOUS

\* try_push enters the element and the cursor (lines 94 and 95).
LEMMA BufferedPushStoreKeeps ==
  ASSUME BufferTypes, BufferTypes', NEW pub, NEW rel, Holds(pub, rel), BufferedPushStore
  PROVE  \E pub2 : Holds(pub2, rel)'
<1> DEFINE n == Len(p_buffer)
           e == Entered(pub)
           t == Taken(rel)
           s1 == Slot(Succ(p_cursor), p_elem)
           s2 == Cursor(Succ(p_cursor))
           f == [i \in 0 .. n + 2 |-> IF i <= n THEN pub[i]
                                      ELSE IF i = n + 1 THEN e ELSE e + 1]
<1>0. /\ p_pc = "push_store" /\ p_pc' = "push_recheck" /\ fifo' = Append(fifo, p_elem)
      /\ UNCHANGED <<slots, producer_cursor, consumer_cursor, did_C_reached_P,
                     c_pc, c_elem, c_seen, c_avail, c_buffer>>
  BY DEF BufferedPushStore, ring, cvars
<1>1. /\ Size \in Nat \ {0} /\ n \in Nat /\ Len(c_buffer) \in Nat /\ Len(fifo) \in Nat
      /\ pub[0] \in 0 .. Size /\ e \in 0 .. Size /\ t \in 0 .. Size
      /\ t <= pub[0] /\ pub[0] <= e /\ e = t + Len(fifo)
      /\ \A i \in 0 .. n : pub[i] \in 0 .. Size /\ pub[0] <= pub[i] /\ pub[i] <= e
      /\ consumer_cursor \in Slots /\ pub[n] = e
  BY PositionFacts DEF Slots, Entered
<1>2. e < Size
  BY <1>0 DEF Holds, Producer
<1>3. Succ(p_cursor) = At(e + 1)
  <2>1. e \in 0 .. Size - 1 /\ p_cursor = Place(consumer_cursor, e)
    BY <1>1, <1>2 DEF Holds, Positions, At
  <2> QED
    BY <1>1, <2>1, SuccPlace DEF At
<1>4. /\ p_buffer \in Seq(Store) /\ s1 \in Store /\ s2 \in Store
      /\ p_buffer' = Append(Append(p_buffer, s1), s2)
      /\ s1.loc = "slot" /\ s1.value = <<At(e + 1), p_elem>>
      /\ s2.loc = "cursor" /\ s2.value = At(e + 1)
  BY <1>3, EnteredStores, StoreParts DEF BufferTypes
<1>5. /\ fifo \in Seq(Values) /\ p_elem \in Values
  BY <1>0 DEF BufferTypes, TypeOK
<1> HIDE DEF s1, s2
<1>6. /\ Len(fifo') = Len(fifo) + 1
      /\ \A k \in 1 .. Len(fifo) : fifo'[k] = fifo[k]
      /\ fifo'[e + 1 - t] = p_elem
  <2>1. e + 1 - t = Len(fifo) + 1
    BY <1>1
  <2>2. /\ Len(fifo') = Len(fifo) + 1
        /\ \A k \in 1 .. Len(fifo) : fifo'[k] = fifo[k]
        /\ fifo'[Len(fifo) + 1] = p_elem
    BY <1>0, <1>5, AppendElements
  <2> QED
    BY <2>1, <2>2
<1>7. /\ Len(p_buffer') = n + 2 /\ Append(p_buffer, s1) \in Seq(Store)
      /\ \A i \in 1 .. n : p_buffer'[i] = p_buffer[i]
      /\ p_buffer'[n + 1] = s1 /\ p_buffer'[n + 2] = s2
  <2> DEFINE b == Append(p_buffer, s1)
  <2>1. /\ b \in Seq(Store) /\ Len(b) = n + 1 /\ b[n + 1] = s1
        /\ \A i \in 1 .. n : b[i] = p_buffer[i]
    BY <1>4, AppendElements
  <2>2. p_buffer' = Append(b, s2)
    BY <1>4
  <2> HIDE DEF b
  <2>3. /\ Len(p_buffer') = Len(b) + 1 /\ p_buffer'[Len(b) + 1] = s2
        /\ \A i \in 1 .. Len(b) : p_buffer'[i] = b[i]
    BY <1>4, <2>1, <2>2, AppendElements
  <2>4. \A i \in 1 .. n + 1 : p_buffer'[i] = b[i]
    BY <2>1, <2>3
  <2>5. (n + 1) + 1 = n + 2 /\ n + 1 \in 1 .. n + 1 /\ \A i \in 1 .. n : i \in 1 .. n + 1
    BY <1>1
  <2> QED
    BY <2>1, <2>3, <2>4, <2>5 DEF b
<1>8. PICK pub2 \in [0 .. n + 2 -> 0 .. Size] :
        /\ \A i \in 0 .. n : pub2[i] = pub[i]
        /\ pub2[n + 1] = e /\ pub2[n + 2] = e + 1 /\ pub2[0] = pub[0]
  <2>1. /\ f \in [0 .. n + 2 -> 0 .. Size]
        /\ \A i \in 0 .. n : f[i] = pub[i]
        /\ f[n + 1] = e /\ f[n + 2] = e + 1 /\ f[0] = pub[0]
    BY <1>1, <1>2
  <2> HIDE DEF f
  <2> QED
    BY <2>1
<1> HIDE DEF n, e, t, f
<1>9. Entered(pub2)' = e + 1 /\ Taken(rel)' = t /\ \A i : At(i)' = At(i)
  BY <1>0, <1>7, <1>8 DEF Entered, Taken, At, t
<1>10. /\ Pending(p_buffer', "flag") = Pending(p_buffer, "flag")
       /\ Pending(p_buffer, "flag") \subseteq 1 .. n
       /\ Cardinality(Pending(p_buffer', "cursor"))
            = Cardinality(Pending(p_buffer, "cursor")) + 1
       /\ p_cursor' = At(e + 1) /\ p_flag' = p_flag /\ c_cursor' = c_cursor /\ c_flag' = c_flag
  <2> DEFINE b == Append(p_buffer, s1)
  <2>1. p_buffer' = Append(b, s2) /\ b \in Seq(Store)
    BY <1>4, <1>7
  <2>2. /\ Pending(b, "flag") = Pending(p_buffer, "flag")
        /\ Cardinality(Pending(b, "cursor")) = Cardinality(Pending(p_buffer, "cursor"))
        /\ Cardinality(Pending(p_buffer, "cursor")) \in Nat
        /\ \A v : Load(b, "flag", v) = Load(p_buffer, "flag", v)
    <3>1. "slot" # "flag" /\ "slot" # "cursor"
      OBVIOUS
    <3>2. Pending(b, "flag") = Pending(p_buffer, "flag") \cup {}
      BY <1>4, <3>1, PendingAppend
    <3>3. /\ Cardinality(Pending(p_buffer, "cursor")) \in Nat
          /\ Cardinality(Pending(b, "cursor")) = Cardinality(Pending(p_buffer, "cursor")) + 0
      BY <1>4, <3>1, PendingCount
    <3>4. \A v : Load(b, "flag", v) = Load(p_buffer, "flag", v)
      BY <1>4, <3>1, LoadAppend
    <3> QED
      BY <3>2, <3>3, <3>4
  <2> HIDE DEF b
  <2>3. /\ Pending(p_buffer', "flag") = Pending(b, "flag")
        /\ Cardinality(Pending(p_buffer', "cursor")) = Cardinality(Pending(b, "cursor")) + 1
        /\ \A v : Load(p_buffer', "flag", v) = Load(b, "flag", v)
        /\ \A v : Load(p_buffer', "cursor", v) = At(e + 1)
    <3>1. "cursor" # "flag"
      OBVIOUS
    <3>2. Pending(p_buffer', "flag") = Pending(b, "flag")
      <4>1. s2 \in Store /\ b \in Seq(Store) /\ s2.loc # "flag"
        BY <1>4, <2>1, <3>1
      <4>2. Pending(Append(b, s2), "flag") = Pending(b, "flag")
        BY <4>1, PendingAppend
      <4> QED
        BY <2>1, <4>2
    <3>3. Cardinality(Pending(p_buffer', "cursor")) = Cardinality(Pending(b, "cursor")) + 1
      BY <1>4, <2>1, PendingCount
    <3>4. \A v : Load(p_buffer', "flag", v) = Load(b, "flag", v)
      BY <1>4, <2>1, <3>1, LoadAppend
    <3>5. \A v : Load(p_buffer', "cursor", v) = At(e + 1)
      BY <1>4, <2>1, LoadAppend
    <3> QED
      BY <3>2, <3>3, <3>4, <3>5
  <2>4. Pending(p_buffer, "flag") \subseteq 1 .. n
    BY <1>4 DEF Pending, n
  <2> QED
    BY <1>0, <2>2, <2>3, <2>4 DEF p_cursor, p_flag, c_cursor, c_flag
<1>11. PStores(pub2, rel)'
  <2>1. \A i, j \in 0 .. n + 2 : i <= j => pub2[i] <= pub2[j]
    <3> SUFFICES ASSUME NEW i \in 0 .. n + 2, NEW j \in 0 .. n + 2, i <= j
                 PROVE  pub2[i] <= pub2[j]
      OBVIOUS
    <3>1. CASE j \in 0 .. n
      <4>1. i \in 0 .. n
        BY <1>1, <3>1
      <4> QED
        BY <1>8, <3>1, <4>1 DEF Holds, PStores, n
    <3>2. CASE j \in {n + 1, n + 2}
      <4>1. i \in 0 .. n \/ i = n + 1 \/ (i = n + 2 /\ j = n + 2)
        BY <1>1, <3>2
      <4>2. e \in Nat /\ pub2[j] \in {e, e + 1}
        BY <1>1, <1>8, <3>2
      <4>3. CASE i \in 0 .. n
        <5>1. pub2[i] = pub[i] /\ pub[i] <= e /\ pub[i] \in Nat
          BY <1>1, <1>8, <4>3
        <5> QED
          BY <4>2, <5>1
      <4>4. CASE i = n + 1
        <5>1. pub2[i] = e
          BY <1>8, <4>4
        <5> QED
          BY <4>2, <5>1
      <4>5. CASE i = n + 2 /\ j = n + 2
        <5>1. pub2[i] = pub2[j] /\ pub2[j] \in Nat
          BY <4>2, <4>5
        <5> QED
          BY <5>1
      <4> QED
        BY <4>1, <4>3, <4>4, <4>5
    <3> QED
      BY <1>1, <3>1, <3>2
  <2>2. ASSUME NEW i \in 1 .. n
        PROVE  \/ /\ p_buffer'[i].loc = "slot" /\ pub2[i] = pub2[i - 1] /\ pub2[i] < e + 1
                  /\ p_buffer'[i].value = <<At(pub2[i] + 1), fifo'[pub2[i] + 1 - t]>>
                  /\ i < n + 2 /\ p_buffer'[i + 1].loc = "cursor"
               \/ /\ p_buffer'[i].loc = "cursor" /\ pub2[i] = pub2[i - 1] + 1
                  /\ p_buffer'[i].value = At(pub2[i])
                  /\ IF i = 1 THEN slots[At(pub2[1])] = fifo'[pub2[1] - t]
                     ELSE p_buffer'[i - 1].loc = "slot"
               \/ /\ p_buffer'[i].loc = "flag" /\ pub2[i] = pub2[i - 1]
                  /\ p_buffer'[i].value = FALSE
    <3>1. /\ i \in 0 .. n /\ i - 1 \in 0 .. n /\ (i # 1 => i - 1 \in 1 .. n)
          /\ (i < n => i + 1 \in 1 .. n) /\ i < n + 2 /\ e < e + 1
      BY <1>1
    <3>2. /\ pub2[i] = pub[i] /\ pub2[i - 1] = pub[i - 1] /\ p_buffer'[i] = p_buffer[i]
          /\ (i # 1 => p_buffer'[i - 1] = p_buffer[i - 1])
          /\ (i < n => p_buffer'[i + 1] = p_buffer[i + 1])
      BY <1>7, <1>8, <3>1
    <3>a. /\ pub[i] \in Nat /\ pub[0] \in Nat /\ e \in Nat /\ t \in Nat /\ Len(fifo) \in Nat
          /\ t <= pub[0] /\ pub[0] <= pub[i] /\ pub[i] <= e /\ e = t + Len(fifo)
      BY <1>1, <3>1, SMTT(20)
    <3>3. pub[i] < e => fifo'[pub[i] + 1 - t] = fifo[pub[i] + 1 - t]
      <4>1. pub[i] < e => pub[i] + 1 - t \in 1 .. Len(fifo)
        BY <3>a
      <4> QED
        BY <1>6, <4>1
    <3>4. pub[i] > pub[0] => fifo'[pub[i] - t] = fifo[pub[i] - t]
      <4>1. pub[i] > pub[0] => pub[i] - t \in 1 .. Len(fifo)
        BY <3>a
      <4> QED
        BY <1>6, <4>1
    <3>5. \/ /\ p_buffer[i].loc = "slot" /\ pub[i] = pub[i - 1] /\ pub[i] < e
             /\ p_buffer[i].value = <<At(pub[i] + 1), fifo[pub[i] + 1 - t]>>
             /\ i < n /\ p_buffer[i + 1].loc = "cursor"
          \/ /\ p_buffer[i].loc = "cursor" /\ pub[i] = pub[i - 1] + 1
             /\ p_buffer[i].value = At(pub[i])
             /\ IF i = 1 THEN slots[At(pub[1])] = fifo[pub[1] - t]
                ELSE p_buffer[i - 1].loc = "slot"
          \/ /\ p_buffer[i].loc = "flag" /\ pub[i] = pub[i - 1] /\ p_buffer[i].value = FALSE
      BY DEF Holds, PStores, n, e, t
    <3>6. CASE p_buffer[i].loc = "slot"
      <4>1. pub[i] < e + 1
        BY <3>a
      <4> QED
        BY <3>1, <3>2, <3>3, <3>5, <3>6, <4>1
    <3>7. CASE p_buffer[i].loc = "cursor"
      <4>1. i = 1 => pub[1] = pub[0] + 1 /\ pub[1] > pub[0] /\ pub2[1] = pub[1]
        BY <1>1, <3>2, <3>5, <3>7
      <4> QED
        BY <3>2, <3>4, <3>5, <3>7, <4>1
    <3>8. CASE p_buffer[i].loc = "flag"
      BY <3>2, <3>5, <3>8
    <3> QED
      BY <3>5, <3>6, <3>7, <3>8
  <2>3. /\ p_buffer'[n + 1].loc = "slot" /\ pub2[n + 1] = pub2[(n + 1) - 1] /\ pub2[n + 1] < e + 1
        /\ p_buffer'[n + 1].value = <<At(pub2[n + 1] + 1), fifo'[pub2[n + 1] + 1 - t]>>
        /\ n + 1 < n + 2 /\ p_buffer'[(n + 1) + 1].loc = "cursor"
    <3>1. (n + 1) - 1 = n /\ (n + 1) + 1 = n + 2 /\ n + 1 < n + 2 /\ e < e + 1 /\ n \in 0 .. n
      BY <1>1
    <3> QED
      BY <1>1, <1>4, <1>6, <1>7, <1>8, <3>1
  <2>4. /\ p_buffer'[n + 2].loc = "cursor" /\ pub2[n + 2] = pub2[(n + 2) - 1] + 1
        /\ p_buffer'[n + 2].value = At(pub2[n + 2])
        /\ n + 2 # 1 /\ p_buffer'[(n + 2) - 1].loc = "slot"
    <3>1. (n + 2) - 1 = n + 1 /\ n + 2 # 1
      BY <1>1
    <3> QED
      BY <1>4, <1>7, <1>8, <3>1
  <2>5. Cardinality(Pending(p_buffer', "cursor")) = (e + 1) - pub2[0]
    BY <1>1, <1>8, <1>10 DEF Holds, PStores, e
  <2>6. t <= pub2[0] /\ e + 1 = t + Len(fifo')
    BY <1>1, <1>6, <1>8
  <2>7. \A i \in 1 .. n + 2 : i \in 1 .. n \/ i = n + 1 \/ i = n + 2
    BY <1>1
  <2> QED
    BY <1>0, <1>7, <1>8, <1>9, <2>1, <2>2, <2>3, <2>4, <2>5, <2>6, <2>7 DEF PStores
<1>12. CStores(rel)'
  BY <1>0, <1>9 DEF Holds, CStores
<1>13. Positions(pub2, rel)'
  <2>1. ASSUME NEW j \in t + 1 .. pub[0] PROVE slots[At(j)] = fifo'[j - t]
    <3>1. j - t \in 1 .. Len(fifo)
      BY <1>1
    <3> QED
      BY <1>6, <3>1 DEF Holds, Positions, t
  <2> QED
    BY <1>0, <1>8, <1>9, <1>10, <2>1 DEF Holds, Positions, t
<1>14. SaidEmpty(pub2, rel)' <=> SaidEmpty(pub, rel)
  <2>1. \A i \in Pending(p_buffer, "flag") : pub2[i] = pub[i]
    BY <1>1, <1>8, <1>10
  <2> QED
    BY <1>0, <1>9, <1>10, <2>1 DEF SaidEmpty, t
<1>15. Flags(pub2, rel)'
  BY <1>0, <1>8, <1>9, <1>10, <1>14 DEF Holds, Flags, FlagsRace, t
<1>16. Producer(pub2)'
  BY <1>0, <1>1, <1>9 DEF Producer
<1>17. Consumer(pub2, rel)'
  <2>1. c_pc = "pull_store" => fifo'[1] = fifo[1]
    <3>1. c_pc = "pull_store" => 1 \in 1 .. Len(fifo)
      BY <1>1 DEF Holds, Consumer, t
    <3> QED
      BY <1>6, <3>1
  <2> QED
    BY <1>0, <1>8, <1>9, <1>10, <1>14, <2>1 DEF Holds, Consumer, t, At
<1> QED
  BY <1>11, <1>12, <1>13, <1>15, <1>16, <1>17 DEF Holds

\* A store changes nothing of what a thread has to say of other locations.
LEMMA OtherLocation ==
  ASSUME NEW b \in Seq(Store), NEW s \in Store, NEW loc, s.loc # loc
  PROVE  /\ Pending(Append(b, s), loc) = Pending(b, loc)
         /\ Cardinality(Pending(Append(b, s), loc)) = Cardinality(Pending(b, loc))
         /\ \A v : Load(Append(b, s), loc, v) = Load(b, loc, v)
<1>1. Pending(Append(b, s), loc) = Pending(b, loc)
  BY PendingAppend
<1>2. \A v : Load(Append(b, s), loc, v) = Load(b, loc, v)
  BY LoadAppend
<1> QED
  BY <1>1, <1>2

\* One more store in a buffer: what stays, and what the thread loads.
LEMMA OneMore ==
  ASSUME NEW b \in Seq(Store), NEW s \in Store
  PROVE  /\ Append(b, s) \in Seq(Store) /\ Len(Append(b, s)) = Len(b) + 1
         /\ \A i \in 1 .. Len(b) : Append(b, s)[i] = b[i]
         /\ Append(b, s)[Len(b) + 1] = s
         /\ \A v : Load(Append(b, s), s.loc, v) = s.value
         /\ Pending(Append(b, s), s.loc) = Pending(b, s.loc) \cup {Len(b) + 1}
         /\ \A loc : Pending(b, loc) \subseteq 1 .. Len(b)
<1>1. /\ Append(b, s) \in Seq(Store) /\ Len(Append(b, s)) = Len(b) + 1
      /\ \A i \in 1 .. Len(b) : Append(b, s)[i] = b[i]
      /\ Append(b, s)[Len(b) + 1] = s
  BY AppendElements
<1>3. \A v : Load(Append(b, s), s.loc, v) = s.value
  BY LoadAppend
<1>4. Pending(Append(b, s), s.loc) = Pending(b, s.loc) \cup {Len(b) + 1}
  BY PendingAppend
<1>5. \A loc : Pending(b, loc) \subseteq 1 .. Len(b)
  BY DEF Pending
<1> QED
  BY <1>1, <1>3, <1>4, <1>5

\* try_push settles the flag (lines 96 and 97).
LEMMA BufferedPushRecheckKeeps ==
  ASSUME BufferTypes, NEW pub, NEW rel, Holds(pub, rel), BufferedPushRecheck, ~collided'
  PROVE  \E pub2 : Holds(pub2, rel)'
<1> DEFINE n == Len(p_buffer)
           e == Entered(pub)
           t == Taken(rel)
           f == [i \in 0 .. n + 1 |-> IF i <= n THEN pub[i] ELSE e]
<1>0. /\ p_pc = "push_recheck" /\ p_pc' = "idle"
      /\ UNCHANGED <<slots, producer_cursor, consumer_cursor, did_C_reached_P,
                     c_pc, c_elem, c_seen, c_avail, fifo, c_buffer>>
  BY DEF BufferedPushRecheck, ring, cvars
<1>1. /\ Size \in Nat \ {0} /\ n \in Nat /\ Len(c_buffer) \in Nat /\ Len(fifo) \in Nat
      /\ pub[0] \in 0 .. Size /\ e \in 0 .. Size /\ t \in 0 .. Size
      /\ t <= pub[0] /\ pub[0] <= e
      /\ \A i \in 0 .. n : pub[i] \in 0 .. Size /\ pub[i] <= e
      /\ pub[n] = e /\ e > 0
      /\ p_cursor = consumer_cursor <=> e \in {0, Size}
  BY <1>0, PositionFacts DEF Entered, Holds, Producer
<1>2. CASE p_cursor # consumer_cursor
  <2>1. UNCHANGED <<ring, fifo, buffers>>
    BY <1>0, <1>2 DEF BufferedPushRecheck, ring, buffers
  <2>2. /\ PStores(pub, rel)' /\ CStores(rel)' /\ Positions(pub, rel)'
        /\ Entered(pub)' = Entered(pub) /\ Taken(rel)' = Taken(rel)
        /\ p_cursor' = p_cursor /\ c_cursor' = c_cursor
        /\ p_flag' = p_flag /\ c_flag' = c_flag
        /\ SaidEmpty(pub, rel)' <=> SaidEmpty(pub, rel)
    BY <2>1, QuietStep
  <2>3. e # Size
    BY <1>1, <1>2
  <2>4. Flags(pub, rel)' /\ Producer(pub)'
    BY <1>0, <2>1, <2>2, <2>3 DEF Holds, Flags, Producer, buffers
  <2>5. Consumer(pub, rel)'
    BY <1>0, <2>2 DEF Holds, Consumer, At
  <2> QED
    BY <2>2, <2>4, <2>5 DEF Holds
<1>3. CASE p_cursor = consumer_cursor
  <2>1. /\ p_buffer \in Seq(Store) /\ Flag(FALSE) \in Store
        /\ Flag(FALSE).loc = "flag" /\ Flag(FALSE).value = FALSE
        /\ p_buffer' = Append(p_buffer, Flag(FALSE))
    BY <1>3, EnteredStores, StoreParts DEF BufferTypes, BufferedPushRecheck
  <2>2. /\ Len(p_buffer') = n + 1 /\ p_buffer'[n + 1] = Flag(FALSE)
        /\ \A i \in 1 .. n : p_buffer'[i] = p_buffer[i]
    BY <2>1, OneMore
  <2>3. /\ Cardinality(Pending(p_buffer', "cursor")) = Cardinality(Pending(p_buffer, "cursor"))
        /\ p_cursor' = p_cursor /\ c_cursor' = c_cursor /\ c_flag' = c_flag
    <3>1. "flag" # "cursor"
      OBVIOUS
    <3>a. p_buffer \in Seq(Store) /\ Flag(FALSE) \in Store /\ Flag(FALSE).loc # "cursor"
      BY <2>1, <3>1
    <3>b. /\ Cardinality(Pending(Append(p_buffer, Flag(FALSE)), "cursor"))
               = Cardinality(Pending(p_buffer, "cursor"))
          /\ \A v : Load(Append(p_buffer, Flag(FALSE)), "cursor", v) = Load(p_buffer, "cursor", v)
      BY <3>a, OtherLocation
    <3>2. /\ Cardinality(Pending(p_buffer', "cursor")) = Cardinality(Pending(p_buffer, "cursor"))
          /\ \A v : Load(p_buffer', "cursor", v) = Load(p_buffer, "cursor", v)
      BY <2>1, <3>b
    <3> QED
      BY <1>0, <3>2 DEF p_cursor, c_cursor, c_flag
  <2>4. /\ p_flag' = FALSE
        /\ Pending(p_buffer', "flag") = Pending(p_buffer, "flag") \cup {n + 1}
        /\ Pending(p_buffer, "flag") \subseteq 1 .. n
    <3>a. p_buffer \in Seq(Store) /\ Flag(FALSE) \in Store
      BY <2>1
    <3>b. /\ \A v : Load(Append(p_buffer, Flag(FALSE)), Flag(FALSE).loc, v) = Flag(FALSE).value
          /\ Pending(Append(p_buffer, Flag(FALSE)), Flag(FALSE).loc)
               = Pending(p_buffer, Flag(FALSE).loc) \cup {Len(p_buffer) + 1}
          /\ Pending(p_buffer, "flag") \subseteq 1 .. Len(p_buffer)
      BY <3>a, OneMore
    <3> QED
      BY <2>1, <3>b DEF p_flag
  <2>5. Pending(c_buffer, "flag") = {}
    <3>1. ~FlagsRace(p_buffer', c_buffer)
      BY DEF BufferedPushRecheck
    <3>2. Pending(p_buffer', "flag") # {}
      BY <2>4
    <3> QED
      BY <3>1, <3>2 DEF FlagsRace
  <2>6. PICK pub2 \in [0 .. n + 1 -> 0 .. Size] :
          /\ \A i \in 0 .. n : pub2[i] = pub[i]
          /\ pub2[n + 1] = e /\ pub2[0] = pub[0]
    <3>1. /\ f \in [0 .. n + 1 -> 0 .. Size]
          /\ \A i \in 0 .. n : f[i] = pub[i]
          /\ f[n + 1] = e /\ f[0] = pub[0]
      BY <1>1
    <3> HIDE DEF f
    <3> QED
      BY <3>1
  <2> HIDE DEF n, e, t, f
  <2>7. Entered(pub2)' = e /\ Taken(rel)' = t /\ \A i : At(i)' = At(i)
    BY <1>0, <2>2, <2>6 DEF Entered, Taken, At, t
  <2>8. e = Size
    BY <1>1, <1>3
  <2>9. PStores(pub2, rel)'
    <3>1. \A i, j \in 0 .. n + 1 : i <= j => pub2[i] <= pub2[j]
      <4> SUFFICES ASSUME NEW i \in 0 .. n + 1, NEW j \in 0 .. n + 1, i <= j
                   PROVE  pub2[i] <= pub2[j]
        OBVIOUS
      <4>1. CASE j \in 0 .. n
        <5>1. i \in 0 .. n
          BY <1>1, <4>1
        <5> QED
          BY <2>6, <4>1, <5>1 DEF Holds, PStores, n
      <4>2. CASE j = n + 1
        <5>1. pub2[i] \in 0 .. Size /\ pub2[j] = Size
          BY <2>6, <2>8, <4>2
        <5> QED
          BY <1>1, <5>1
      <4> QED
        BY <1>1, <4>1, <4>2
    <3>2. ASSUME NEW i \in 1 .. n
          PROVE  \/ /\ p_buffer'[i].loc = "slot" /\ pub2[i] = pub2[i - 1] /\ pub2[i] < e
                    /\ p_buffer'[i].value = <<At(pub2[i] + 1), fifo[pub2[i] + 1 - t]>>
                    /\ i < n + 1 /\ p_buffer'[i + 1].loc = "cursor"
                 \/ /\ p_buffer'[i].loc = "cursor" /\ pub2[i] = pub2[i - 1] + 1
                    /\ p_buffer'[i].value = At(pub2[i])
                    /\ IF i = 1 THEN slots[At(pub2[1])] = fifo[pub2[1] - t]
                       ELSE p_buffer'[i - 1].loc = "slot"
                 \/ /\ p_buffer'[i].loc = "flag" /\ pub2[i] = pub2[i - 1]
                    /\ p_buffer'[i].value = FALSE
      <4>1. /\ i \in 0 .. n /\ i - 1 \in 0 .. n /\ (i # 1 => i - 1 \in 1 .. n)
            /\ (i < n => i + 1 \in 1 .. n) /\ i < n + 1
        BY <1>1
      <4>2. /\ pub2[i] = pub[i] /\ pub2[i - 1] = pub[i - 1] /\ p_buffer'[i] = p_buffer[i]
            /\ (i # 1 => p_buffer'[i - 1] = p_buffer[i - 1])
            /\ (i < n => p_buffer'[i + 1] = p_buffer[i + 1])
        BY <2>2, <2>6, <4>1
      <4>3. \/ /\ p_buffer[i].loc = "slot" /\ pub[i] = pub[i - 1] /\ pub[i] < e
               /\ p_buffer[i].value = <<At(pub[i] + 1), fifo[pub[i] + 1 - t]>>
               /\ i < n /\ p_buffer[i + 1].loc = "cursor"
            \/ /\ p_buffer[i].loc = "cursor" /\ pub[i] = pub[i - 1] + 1
               /\ p_buffer[i].value = At(pub[i])
               /\ IF i = 1 THEN slots[At(pub[1])] = fifo[pub[1] - t]
                  ELSE p_buffer[i - 1].loc = "slot"
            \/ /\ p_buffer[i].loc = "flag" /\ pub[i] = pub[i - 1] /\ p_buffer[i].value = FALSE
        BY DEF Holds, PStores, n, e, t
      <4> QED
        BY <4>1, <4>2, <4>3
    <3>3. /\ p_buffer'[n + 1].loc = "flag" /\ pub2[n + 1] = pub2[(n + 1) - 1]
          /\ p_buffer'[n + 1].value = FALSE
      <4>1. (n + 1) - 1 = n /\ n \in 0 .. n
        BY <1>1
      <4> QED
        BY <1>1, <2>1, <2>2, <2>6, <4>1
    <3>4. /\ Cardinality(Pending(p_buffer', "cursor")) = e - pub2[0]
          /\ t <= pub2[0] /\ e = t + Len(fifo)
      BY <2>3, <2>6 DEF Holds, PStores, e, t
    <3>5. \A i \in 1 .. n + 1 : i \in 1 .. n \/ i = n + 1
      BY <1>1
    <3> QED
      BY <1>0, <2>2, <2>6, <2>7, <3>1, <3>2, <3>3, <3>4, <3>5 DEF PStores
  <2>10. CStores(rel)' /\ Positions(pub2, rel)'
    BY <1>0, <2>3, <2>6, <2>7 DEF Holds, CStores, Positions, e, t
  <2>11. SaidEmpty(pub, rel) => SaidEmpty(pub2, rel)'
    <3> SUFFICES ASSUME SaidEmpty(pub, rel) PROVE SaidEmpty(pub2, rel)'
      OBVIOUS
    <3>1. c_buffer = <<>>
      <4>1. c_buffer \in Seq(Store)
        BY DEF BufferTypes
      <4>2. c_buffer # <<>> => Len(c_buffer) \in Pending(c_buffer, "flag")
        BY <4>1 DEF SaidEmpty, Pending
      <4> QED
        BY <2>5, <4>2
    <3>2. t = 0
      BY <3>1 DEF Holds, CStores, Taken, t
    <3>3. \A i \in Pending(p_buffer', "flag") : pub2[i] = t + Size
      <4>1. pub2[n + 1] = t + Size
        BY <1>1, <2>6, <2>8, <3>2
      <4>2. \A i \in Pending(p_buffer, "flag") : pub2[i] = t + Size
        <5>1. \A i \in 1 .. n : i \in 0 .. n
          BY <1>1
        <5>2. \A i \in Pending(p_buffer, "flag") : pub2[i] = pub[i]
          BY <2>4, <2>6, <5>1
        <5> QED
          BY <5>2 DEF SaidEmpty, t
      <4> QED
        BY <2>4, <4>1, <4>2
    <3> QED
      BY <1>0, <2>7, <3>1, <3>3 DEF SaidEmpty
  <2>12. Flags(pub2, rel)'
    <3>1. ~FlagsRace(p_buffer, c_buffer)'
      BY <1>0, <2>5 DEF FlagsRace
    <3>2. n + 1 \in Pending(p_buffer', "flag") /\ pub2[n + 1] = Size
      BY <2>4, <2>6, <2>8
    <3>3. pub2[0] = t => c_flag /\ SaidEmpty(pub2, rel)'
      BY <2>6, <2>11 DEF Holds, Flags, t
    <3> QED
      BY <1>0, <2>3, <2>4, <2>5, <2>7, <3>1, <3>2, <3>3 DEF Flags
  <2>13. Producer(pub2)'
    BY <1>0 DEF Producer
  <2>14. Consumer(pub2, rel)'
    BY <1>0, <2>3, <2>6, <2>7, <2>11 DEF Holds, Consumer, t, At
  <2> QED
    BY <2>9, <2>10, <2>12, <2>13, <2>14 DEF Holds
<1> QED
  BY <1>2, <1>3

\* The consumer enters its cursor, and then the flag if it has emptied the ring.
LEMMA EntersCursor ==
  ASSUME NEW b \in Seq(Store), NEW x \in Slots
  PROVE  /\ Append(b, Cursor(x)) \in Seq(Store) /\ Len(Append(b, Cursor(x))) = Len(b) + 1
         /\ \A i \in 1 .. Len(b) : Append(b, Cursor(x))[i] = b[i]
         /\ Append(b, Cursor(x))[Len(b) + 1] = Cursor(x)
         /\ Pending(Append(b, Cursor(x)), "flag") = Pending(b, "flag")
         /\ \A v : Load(Append(b, Cursor(x)), "cursor", v) = x
<1>1. Cursor(x) \in Store /\ Cursor(x).loc = "cursor" /\ Cursor(x).value = x
  BY StoreParts
<1>2. Cursor(x).loc # "flag"
  BY <1>1
<1>3. Pending(Append(b, Cursor(x)), "flag") = Pending(b, "flag")
  BY <1>1, <1>2, OtherLocation
<1>4. \A v : Load(Append(b, Cursor(x)), Cursor(x).loc, v) = Cursor(x).value
  BY <1>1, OneMore
<1>5. /\ Append(b, Cursor(x)) \in Seq(Store) /\ Len(Append(b, Cursor(x))) = Len(b) + 1
      /\ \A i \in 1 .. Len(b) : Append(b, Cursor(x))[i] = b[i]
      /\ Append(b, Cursor(x))[Len(b) + 1] = Cursor(x)
  BY <1>1, AppendElements
<1> QED
  BY <1>1, <1>3, <1>4, <1>5

\* A flag entered last is seen by the thread that entered it.
LEMMA EntersFlag ==
  ASSUME NEW b \in Seq(Store)
  PROVE  /\ Append(b, Flag(TRUE)) \in Seq(Store) /\ Len(Append(b, Flag(TRUE))) = Len(b) + 1
         /\ \A i \in 1 .. Len(b) : Append(b, Flag(TRUE))[i] = b[i]
         /\ Append(b, Flag(TRUE))[Len(b) + 1] = Flag(TRUE)
         /\ Pending(Append(b, Flag(TRUE)), "flag") = Pending(b, "flag") \cup {Len(b) + 1}
         /\ \A v : Load(Append(b, Flag(TRUE)), "cursor", v) = Load(b, "cursor", v)
         /\ \A v : Load(Append(b, Flag(TRUE)), "flag", v) = TRUE
<1>0. TRUE \in BOOLEAN
  OBVIOUS
<1>1. Flag(TRUE) \in Store /\ Flag(TRUE).loc = "flag" /\ Flag(TRUE).value = TRUE
  BY <1>0, StoreParts
<1>2. Flag(TRUE).loc # "cursor"
  BY <1>1
<1>3. \A v : Load(Append(b, Flag(TRUE)), "cursor", v) = Load(b, "cursor", v)
  BY <1>1, <1>2, OtherLocation
<1>4. /\ \A v : Load(Append(b, Flag(TRUE)), Flag(TRUE).loc, v) = Flag(TRUE).value
      /\ Pending(Append(b, Flag(TRUE)), Flag(TRUE).loc)
           = Pending(b, Flag(TRUE).loc) \cup {Len(b) + 1}
  BY <1>1, OneMore
<1>5. /\ Append(b, Flag(TRUE)) \in Seq(Store) /\ Len(Append(b, Flag(TRUE))) = Len(b) + 1
      /\ \A i \in 1 .. Len(b) : Append(b, Flag(TRUE))[i] = b[i]
      /\ Append(b, Flag(TRUE))[Len(b) + 1] = Flag(TRUE)
  BY <1>1, AppendElements
<1> QED
  BY <1>1, <1>3, <1>4, <1>5

\* The consumer takes `a' elements and enters its stores: what try_pull and
\* clear have in common.
LEMMA ConsumerTakes ==
  ASSUME BufferTypes, NEW pub, NEW rel, Holds(pub, rel),
         NEW a \in Nat, NEW flagged \in BOOLEAN, Taken(rel) + a <= pub[0],
         c_buffer' = IF flagged
                     THEN Append(Append(c_buffer, Cursor(At(Taken(rel) + a))), Flag(TRUE))
                     ELSE Append(c_buffer, Cursor(At(Taken(rel) + a))),
         fifo' = SubSeq(fifo, a + 1, Len(fifo)), c_pc' = "idle",
         UNCHANGED <<slots, producer_cursor, consumer_cursor, did_C_reached_P, p_pc, p_buffer>>,
         ~FlagsRace(p_buffer, c_buffer'),
         flagged \/ pub[0] # Taken(rel) + a,
         flagged /\ Taken(rel) + a = 0 /\ Entered(pub) = Size => p_pc = "push_recheck"
  PROVE  \E rel2 : Holds(pub, rel2)'
<1> DEFINE m == Len(c_buffer)
           k == IF flagged THEN m + 2 ELSE m + 1
           e == Entered(pub)
           t == Taken(rel)
           f == [i \in 0 .. k |-> IF i <= m THEN rel[i] ELSE t + a]
<1>1. /\ Size \in Nat \ {0} /\ Len(p_buffer) \in Nat /\ m \in Nat /\ Len(fifo) \in Nat
      /\ pub[0] \in 0 .. Size /\ e \in 0 .. Size /\ t \in 0 .. Size
      /\ t + a <= pub[0] /\ pub[0] <= e /\ e = t + Len(fifo)
      /\ \A i \in 0 .. Len(p_buffer) : pub[i] \in 0 .. Size /\ pub[0] <= pub[i] /\ pub[i] <= e
      /\ consumer_cursor \in Slots
  BY PositionFacts DEF Slots
<1>2. /\ \A i \in 0 .. m : rel[i] \in 0 .. Size /\ rel[i] <= t
      /\ rel[m] = t
  BY PositionFacts DEF Taken
<1>3. At(t + a) \in Slots
  <2>1. t + a \in 0 .. Size
    BY <1>1
  <2>2. Place(consumer_cursor, t + a) \in Slots
    BY <1>1, <2>1, PlaceInSlots
  <2> QED
    BY <2>2 DEF At
<1>4. /\ Len(c_buffer') = k
      /\ \A i \in 1 .. m : c_buffer'[i] = c_buffer[i]
      /\ c_buffer'[m + 1] = Cursor(At(t + a))
      /\ flagged => c_buffer'[m + 2] = Flag(TRUE)
      /\ Pending(c_buffer', "flag")
           = Pending(c_buffer, "flag") \cup (IF flagged THEN {m + 2} ELSE {})
      /\ \A v : Load(c_buffer', "cursor", v) = At(t + a)
      /\ flagged => \A v : Load(c_buffer', "flag", v) = TRUE
  <2>1. c_buffer \in Seq(Store)
    BY DEF BufferTypes
  <2>2. c_buffer' = IF flagged THEN Append(Append(c_buffer, Cursor(At(t + a))), Flag(TRUE))
                    ELSE Append(c_buffer, Cursor(At(t + a)))
    OBVIOUS
  <2> DEFINE d == Append(c_buffer, Cursor(At(t + a)))
  <2>3. /\ d \in Seq(Store) /\ Len(d) = m + 1
        /\ \A i \in 1 .. m : d[i] = c_buffer[i]
        /\ d[m + 1] = Cursor(At(t + a))
        /\ Pending(d, "flag") = Pending(c_buffer, "flag")
        /\ \A v : Load(d, "cursor", v) = At(t + a)
    BY <1>3, <2>1, EntersCursor
  <2> HIDE DEF t, m
  <2>4. CASE ~flagged
    BY <2>2, <2>3, <2>4
  <2>5. CASE flagged
    <3>1. c_buffer' = Append(d, Flag(TRUE))
      BY <2>2, <2>5
    <3> HIDE DEF d
    <3>2. /\ Len(c_buffer') = Len(d) + 1
          /\ \A i \in 1 .. Len(d) : c_buffer'[i] = d[i]
          /\ c_buffer'[Len(d) + 1] = Flag(TRUE)
          /\ Pending(c_buffer', "flag") = Pending(d, "flag") \cup {Len(d) + 1}
          /\ \A v : Load(c_buffer', "cursor", v) = Load(d, "cursor", v)
          /\ \A v : Load(c_buffer', "flag", v) = TRUE
      BY <2>3, <3>1, EntersFlag, ZenonT(40)
    <3>3. /\ Len(d) + 1 = m + 2 /\ m + 1 \in 1 .. Len(d)
          /\ \A i \in 1 .. m : i \in 1 .. Len(d)
      BY <1>1, <2>3
    <3> QED
      BY <2>3, <2>5, <3>2, <3>3
  <2> QED
    BY <2>4, <2>5
<1>5. /\ Len(fifo') = Len(fifo) - a
      /\ \A i \in 1 .. Len(fifo) - a : fifo'[i] = fifo[a + i]
  <2>1. fifo \in Seq(Values) /\ a <= Len(fifo)
    BY <1>1 DEF BufferTypes, TypeOK
  <2> QED
    BY <1>1, <2>1, SMTT(20)
<1>6. PICK rel2 \in [0 .. k -> 0 .. Size] :
        /\ \A i \in 0 .. m : rel2[i] = rel[i]
        /\ rel2[m + 1] = t + a /\ rel2[k] = t + a /\ rel2[0] = rel[0]
  <2>1. k \in {m + 1, m + 2} /\ t + a \in 0 .. Size
    BY <1>1
  <2>2. /\ f \in [0 .. k -> 0 .. Size]
        /\ \A i \in 0 .. m : f[i] = rel[i]
        /\ f[m + 1] = t + a /\ f[k] = t + a /\ f[0] = rel[0]
    <3> HIDE DEF k, m, t
    <3> QED
      BY <1>1, <1>2, <2>1
  <2> HIDE DEF f
  <2> QED
    BY <2>2
<1>7. k \in {m + 1, m + 2} /\ (flagged <=> k = m + 2)
  BY <1>1
<1>8. /\ UNCHANGED <<slots, producer_cursor, consumer_cursor, did_C_reached_P, p_pc, p_buffer>>
      /\ \A i : At(i)' = At(i)
      /\ Entered(pub)' = e /\ Taken(rel2)' = t + a
      /\ p_cursor' = p_cursor /\ p_flag' = p_flag /\ c_cursor' = At(t + a)
      /\ flagged => c_flag' = TRUE
  BY <1>4, <1>6 DEF Entered, Taken, At, p_cursor, p_flag, c_cursor, c_flag
<1> HIDE DEF m, k, e, t, f
<1>9. CStores(rel2)'
  <2>1. \A i, j \in 0 .. k : i <= j => rel2[i] <= rel2[j]
    <3> SUFFICES ASSUME NEW i \in 0 .. k, NEW j \in 0 .. k, i <= j
                 PROVE  rel2[i] <= rel2[j]
      OBVIOUS
    <3>1. CASE j \in 0 .. m
      <4>1. i \in 0 .. m
        BY <1>1, <3>1
      <4>2. rel[i] <= rel[j]
        BY <3>1, <4>1 DEF Holds, CStores, m
      <4> QED
        BY <1>6, <3>1, <4>1, <4>2
    <3>2. CASE j \in {m + 1, k}
      <4>1. rel2[j] = t + a
        BY <1>6, <3>2
      <4>2. i \in 0 .. m \/ i = m + 1 \/ i = k
        BY <1>1, <1>7
      <4>3. rel2[i] <= t + a
        <5>1. t \in Nat /\ t + a \in Nat /\ t <= t + a
          BY <1>1
        <5>2. i \in 0 .. m => rel2[i] \in 0 .. Size /\ rel2[i] <= t
          BY <1>2, <1>6
        <5>3. i \notin 0 .. m => rel2[i] = t + a
          BY <1>6, <4>2
        <5> QED
          BY <5>1, <5>2, <5>3
      <4> QED
        BY <4>1, <4>3
    <3> QED
      BY <1>1, <1>7, <3>1, <3>2
  <2>2. ASSUME NEW i \in 1 .. k
        PROVE  \/ c_buffer'[i].loc = "cursor" /\ c_buffer'[i].value = At(rel2[i])
               \/ /\ c_buffer'[i].loc = "flag" /\ rel2[i] = rel2[i - 1]
                  /\ c_buffer'[i].value = TRUE
    <3>1. CASE i \in 1 .. m
      <4>1. i \in 0 .. m /\ i - 1 \in 0 .. m
        BY <1>1, <3>1
      <4>2. \/ c_buffer[i].loc = "cursor" /\ c_buffer[i].value = At(rel[i])
            \/ c_buffer[i].loc = "flag" /\ rel[i] = rel[i - 1] /\ c_buffer[i].value = TRUE
        BY <3>1 DEF Holds, CStores, m
      <4> QED
        BY <1>4, <1>6, <3>1, <4>1, <4>2
    <3>2. CASE i = m + 1
      <4>1. c_buffer'[i] = Cursor(At(t + a)) /\ rel2[i] = t + a
        BY <1>4, <1>6, <3>2
      <4>2. Cursor(At(t + a)).loc = "cursor" /\ Cursor(At(t + a)).value = At(t + a)
        BY StoreParts
      <4> QED
        BY <4>1, <4>2
    <3>3. CASE i = m + 2 /\ flagged
      <4>1. i = k /\ i - 1 = m + 1
        BY <1>1, <1>7, <3>3
      <4>2. c_buffer'[i] = Flag(TRUE)
        BY <1>4, <3>3
      <4> QED
        BY <1>6, <4>1, <4>2, StoreParts
    <3>4. i \in 1 .. m \/ i = m + 1 \/ (i = m + 2 /\ flagged)
      <4>1. m \in Nat /\ k \in {m + 1, m + 2} /\ (flagged <=> k = m + 2)
        BY <1>1, <1>7
      <4> QED
        BY <4>1
    <3> QED
      BY <3>1, <3>2, <3>3, <3>4
  <2>3. rel2[0] = 0
    BY <1>6 DEF Holds, CStores
  <2> QED
    BY <1>4, <1>6, <1>8, <2>1, <2>2, <2>3 DEF CStores
<1>10. PStores(pub, rel2)'
  <2>1. /\ pub \in [0 .. Len(p_buffer) -> 0 .. Size]
        /\ t + a <= pub[0] /\ e = (t + a) + Len(fifo')
        /\ \A i, j \in 0 .. Len(p_buffer) : i <= j => pub[i] <= pub[j]
        /\ Cardinality(Pending(p_buffer, "cursor")) = e - pub[0]
    <3>1. e = (t + a) + Len(fifo')
      BY <1>1, <1>5
    <3> QED
      BY <1>1, <3>1 DEF Holds, PStores, e
  <2>2. ASSUME NEW i \in 1 .. Len(p_buffer)
        PROVE  \/ /\ p_buffer[i].loc = "slot" /\ pub[i] = pub[i - 1] /\ pub[i] < e
                  /\ p_buffer[i].value = <<At(pub[i] + 1), fifo'[pub[i] + 1 - (t + a)]>>
                  /\ i < Len(p_buffer) /\ p_buffer[i + 1].loc = "cursor"
               \/ /\ p_buffer[i].loc = "cursor" /\ pub[i] = pub[i - 1] + 1
                  /\ p_buffer[i].value = At(pub[i])
                  /\ IF i = 1 THEN slots[At(pub[1])] = fifo'[pub[1] - (t + a)]
                     ELSE p_buffer[i - 1].loc = "slot"
               \/ p_buffer[i].loc = "flag" /\ pub[i] = pub[i - 1] /\ p_buffer[i].value = FALSE
    <3>1. \/ /\ p_buffer[i].loc = "slot" /\ pub[i] = pub[i - 1] /\ pub[i] < e
             /\ p_buffer[i].value = <<At(pub[i] + 1), fifo[pub[i] + 1 - t]>>
             /\ i < Len(p_buffer) /\ p_buffer[i + 1].loc = "cursor"
          \/ /\ p_buffer[i].loc = "cursor" /\ pub[i] = pub[i - 1] + 1
             /\ p_buffer[i].value = At(pub[i])
             /\ IF i = 1 THEN slots[At(pub[1])] = fifo[pub[1] - t]
                ELSE p_buffer[i - 1].loc = "slot"
          \/ p_buffer[i].loc = "flag" /\ pub[i] = pub[i - 1] /\ p_buffer[i].value = FALSE
      BY DEF Holds, PStores, e, t
    <3>2. /\ pub[i] \in Nat /\ pub[0] \in Nat /\ e \in Nat /\ t \in Nat /\ Len(fifo) \in Nat
          /\ t + a <= pub[0] /\ pub[0] <= pub[i] /\ pub[i] <= e /\ e = t + Len(fifo)
      <4>1. i \in 0 .. Len(p_buffer)
        BY <1>1
      <4> QED
        BY <1>1, <4>1
    <3>3. pub[i] < e => fifo'[pub[i] + 1 - (t + a)] = fifo[pub[i] + 1 - t]
      <4>1. pub[i] < e => /\ pub[i] + 1 - (t + a) \in 1 .. Len(fifo) - a
                          /\ a + (pub[i] + 1 - (t + a)) = pub[i] + 1 - t
        BY <3>2
      <4> QED
        BY <1>5, <4>1
    <3>4. pub[i] > pub[0] => fifo'[pub[i] - (t + a)] = fifo[pub[i] - t]
      <4>1. pub[i] > pub[0] => /\ pub[i] - (t + a) \in 1 .. Len(fifo) - a
                               /\ a + (pub[i] - (t + a)) = pub[i] - t
        BY <3>2
      <4> QED
        BY <1>5, <4>1
    <3>5. i = 1 /\ pub[i] = pub[i - 1] + 1 => pub[1] > pub[0]
      BY <3>2
    <3> QED
      BY <3>1, <3>3, <3>4, <3>5
  <2> QED
    BY <1>8, <2>1, <2>2 DEF PStores
<1>11. Positions(pub, rel2)'
  <2>1. ASSUME NEW j \in t + a + 1 .. pub[0] PROVE slots[At(j)] = fifo'[j - (t + a)]
    <3>1. /\ j \in t + 1 .. pub[0] /\ j - (t + a) \in 1 .. Len(fifo) - a
          /\ a + (j - (t + a)) = j - t
      BY <1>1
    <3>2. slots[At(j)] = fifo[j - t]
      BY <3>1 DEF Holds, Positions, t
    <3> QED
      BY <1>5, <3>1, <3>2
  <2>2. p_cursor = At(e) /\ producer_cursor = At(pub[0])
    BY DEF Holds, Positions, e
  <2> QED
    BY <1>8, <2>1, <2>2 DEF Positions
<1>12. Flags(pub, rel2)'
  <2>1. /\ e = Size /\ p_pc # "push_recheck"
             => ~p_flag /\ (pub[0] = Size \/ \E i \in Pending(p_buffer, "flag") : pub[i] = Size)
        /\ \A i \in Pending(c_buffer, "flag") : rel[i] = 0 /\ e = Size => p_pc = "push_recheck"
    BY DEF Holds, Flags, e
  <2>2. \A i \in Pending(c_buffer', "flag") : rel2[i] = 0 /\ e = Size => p_pc = "push_recheck"
    <3> SUFFICES ASSUME NEW i \in Pending(c_buffer', "flag"), rel2[i] = 0, e = Size
                 PROVE  p_pc = "push_recheck"
      OBVIOUS
    <3>1. CASE i \in Pending(c_buffer, "flag")
      <4>1. i \in 1 .. m
        BY <3>1 DEF Pending, m, BufferTypes
      <4>2. rel2[i] = rel[i]
        BY <1>1, <1>6, <4>1
      <4> QED
        BY <2>1, <3>1, <4>2
    <3>2. CASE flagged /\ i = m + 2
      <4>1. i = k
        BY <1>7, <3>2
      <4> QED
        BY <1>6, <3>2, <4>1 DEF e, t
    <3> QED
      BY <1>4, <3>1, <3>2
  <2>3. pub[0] = t + a => c_flag' /\ SaidEmpty(pub, rel2)'
    <3> SUFFICES ASSUME pub[0] = t + a PROVE c_flag' /\ SaidEmpty(pub, rel2)'
      OBVIOUS
    <3>1. flagged
      BY DEF t
    <3>2. k \in Pending(c_buffer', "flag") /\ c_buffer'[k] = Flag(TRUE)
      BY <1>4, <1>7, <3>1
    <3>3. Pending(p_buffer, "flag") = {}
      BY <3>2 DEF FlagsRace
    <3>4. c_buffer'[Len(c_buffer')].loc = "flag"
      BY <1>4, <3>2, StoreParts
    <3> QED
      BY <1>8, <3>1, <3>3, <3>4 DEF SaidEmpty
  <2> QED
    BY <1>8, <2>1, <2>2, <2>3 DEF Flags
<1>13. Producer(pub)'
  BY <1>8 DEF Holds, Producer, e
<1>14. Consumer(pub, rel2)'
  BY DEF Consumer
<1> QED
  BY <1>9, <1>10, <1>11, <1>12, <1>13, <1>14 DEF Holds

\* try_pull enters its cursor, and the flag if that emptied the ring (lines 115-117).
LEMMA BufferedPullStoreKeeps ==
  ASSUME BufferTypes, NEW pub, NEW rel, Holds(pub, rel), BufferedPullStore, ~collided'
  PROVE  \E rel2 : Holds(pub, rel2)'
<1>1. /\ c_pc = "pull_store" /\ c_pc' = "idle"
      /\ UNCHANGED <<slots, producer_cursor, consumer_cursor, did_C_reached_P, p_pc, p_buffer>>
      /\ ~FlagsRace(p_buffer, c_buffer')
      /\ fifo' = IF fifo = <<>> THEN fifo ELSE Tail(fifo)
  BY DEF BufferedPullStore, ring
<1>2. /\ Taken(rel) < pub[0] /\ (c_avail = 0 => pub[0] = Taken(rel) + Size)
      /\ Taken(rel) + c_avail <= pub[0] /\ c_seen = At(Taken(rel) + c_avail)
  BY <1>1 DEF Holds, Consumer
<1>3. /\ Size \in Nat \ {0} /\ Taken(rel) \in Nat /\ pub[0] \in Nat /\ Entered(pub) \in Nat
      /\ pub[0] <= Entered(pub) /\ pub[0] <= Size
      /\ Entered(pub) = Taken(rel) + Len(fifo) /\ consumer_cursor \in Slots
      /\ fifo \in Seq(Values) /\ Len(fifo) \in Nat /\ c_avail \in Nat
  BY PositionFacts DEF Slots, BufferTypes, TypeOK
<1>4. Succ(c_cursor) = At(Taken(rel) + 1)
  <2>1. Taken(rel) \in 0 .. Size - 1
    BY <1>2, <1>3
  <2>2. Succ(Place(consumer_cursor, Taken(rel))) = Place(consumer_cursor, Taken(rel) + 1)
    BY <1>3, <2>1, SuccPlace
  <2> QED
    BY <2>2 DEF Holds, Positions, At
<1>5. fifo' = SubSeq(fifo, 1 + 1, Len(fifo))
  <2>1. Len(fifo) > 0
    BY <1>2, <1>3
  <2>2. fifo # <<>> /\ fifo' = Tail(fifo)
    BY <1>1, <1>3, <2>1
  <2> QED
    BY <1>3, <2>2
<1>6. Succ(c_cursor) = c_seen \/ pub[0] # Taken(rel) + 1
  <2> SUFFICES ASSUME pub[0] = Taken(rel) + 1 PROVE Succ(c_cursor) = c_seen
    OBVIOUS
  <2>1. c_avail = 1 \/ (c_avail = 0 /\ Size = 1)
    BY <1>2, <1>3
  <2>2. CASE c_avail = 1
    BY <1>2, <1>4, <2>2
  <2>3. CASE Size = 1
    BY <2>3, PushTypes DEF BufferTypes, TypeOK, Slots
  <2> QED
    BY <2>1, <2>2, <2>3
<1>7. PICK flagged \in BOOLEAN : flagged = (Succ(c_cursor) = c_seen)
  OBVIOUS
<1>8. c_buffer' = IF flagged
                  THEN Append(Append(c_buffer, Cursor(At(Taken(rel) + 1))), Flag(TRUE))
                  ELSE Append(c_buffer, Cursor(At(Taken(rel) + 1)))
  BY <1>4, <1>7, EnteredStores
<1>9. flagged \/ pub[0] # Taken(rel) + 1
  BY <1>6, <1>7
<1>10. Taken(rel) + 1 <= pub[0] /\ Taken(rel) + 1 # 0
  BY <1>2, <1>3
<1> QED
  BY <1>1, <1>5, <1>8, <1>9, <1>10, ConsumerTakes

\* clear enters the cursor it loaded, and the flag (lines 135 and 136).
LEMMA BufferedClearStoreKeeps ==
  ASSUME BufferTypes, NEW pub, NEW rel, Holds(pub, rel), BufferedClearStore, ~collided'
  PROVE  \E rel2 : Holds(pub, rel2)'
<1>1. /\ c_pc = "clear_store" /\ c_pc' = "idle"
      /\ UNCHANGED <<slots, producer_cursor, consumer_cursor, did_C_reached_P, p_pc, p_buffer>>
      /\ ~FlagsRace(p_buffer, c_buffer')
      /\ fifo' = SubSeq(fifo, c_avail + 1, Len(fifo))
  BY DEF BufferedClearStore, ring
<1>2. /\ Taken(rel) + c_avail <= pub[0] /\ c_seen = At(Taken(rel) + c_avail)
      /\ c_avail = 0 /\ Taken(rel) = 0 => pub[0] < Size
  BY <1>1 DEF Holds, Consumer
<1>3. /\ Taken(rel) \in Nat /\ pub[0] \in Nat /\ Size \in Nat
      /\ c_buffer \in Seq(Store) /\ c_avail \in Nat /\ At(Taken(rel) + c_avail) \in Slots
  BY <1>2, PositionFacts DEF BufferTypes, TypeOK
<1>4. c_buffer' = Append(Append(c_buffer, Cursor(At(Taken(rel) + c_avail))), Flag(TRUE))
  BY <1>2, EnteredStores
<1>5. Pending(c_buffer', "flag") # {}
  <2>1. Append(c_buffer, Cursor(At(Taken(rel) + c_avail))) \in Seq(Store)
    BY <1>3, EntersCursor
  <2> QED
    BY <1>4, <2>1, EntersFlag
<1>6. Taken(rel) + c_avail = 0 /\ Entered(pub) = Size => p_pc = "push_recheck"
  <2> SUFFICES ASSUME Taken(rel) + c_avail = 0, Entered(pub) = Size, p_pc # "push_recheck"
               PROVE  FALSE
    OBVIOUS
  <2>1. pub[0] < Size
    BY <1>2, <1>3
  <2>2. Pending(p_buffer, "flag") # {}
    BY <1>3, <2>1 DEF Holds, Flags
  <2> QED
    BY <1>1, <1>5, <2>2 DEF FlagsRace
<1>7. PICK flagged \in BOOLEAN : flagged
  OBVIOUS
<1>8. c_buffer' = IF flagged
                  THEN Append(Append(c_buffer, Cursor(At(Taken(rel) + c_avail))), Flag(TRUE))
                  ELSE Append(c_buffer, Cursor(At(Taken(rel) + c_avail)))
  BY <1>4, <1>7
<1>9. /\ flagged \/ pub[0] # Taken(rel) + c_avail
      /\ flagged /\ Taken(rel) + c_avail = 0 /\ Entered(pub) = Size => p_pc = "push_recheck"
  BY <1>6, <1>7
<1> QED
  BY <1>1, <1>2, <1>3, <1>8, <1>9, ConsumerTakes

\* The oldest store leaves a buffer.
LEMMA OneLess ==
  ASSUME NEW b \in Seq(Store), b # <<>>
  PROVE  /\ Len(b) \in Nat \ {0} /\ Tail(b) \in Seq(Store) /\ Len(Tail(b)) = Len(b) - 1
         /\ Head(b) = b[1] /\ b[1] \in Store
         /\ \A i \in 1 .. Len(b) - 1 : Tail(b)[i] = b[i + 1]
OBVIOUS

\* A store of the producer becomes visible.
LEMMA PushVisibleKeeps ==
  ASSUME BufferTypes, NEW pub, NEW rel, Holds(pub, rel), PushVisible, ~collided'
  PROVE  \E pub2 : Holds(pub2, rel)'
<1> DEFINE n == Len(p_buffer)
           e == Entered(pub)
           t == Taken(rel)
           h == p_buffer[1].loc
           f == [i \in 0 .. n - 1 |-> pub[i + 1]]
<1>1. /\ p_buffer \in Seq(Store) /\ p_buffer # <<>> /\ c_buffer \in Seq(Store)
      /\ p_buffer' = Tail(p_buffer)
      /\ UNCHANGED <<consumer_cursor, p_pc, c_pc, c_elem, c_seen, c_avail, fifo, c_buffer>>
  BY DEF PushVisible, BufferTypes, cvars
<1>2. /\ n \in Nat \ {0} /\ Len(p_buffer') = n - 1 /\ Head(p_buffer) = p_buffer[1]
      /\ p_buffer[1] \in Store
      /\ \A i \in 1 .. n - 1 : p_buffer'[i] = p_buffer[i + 1]
  BY <1>1, OneLess
<1>3. /\ slots' = IF h = "slot" THEN [slots EXCEPT ![p_buffer[1].value[1]] = p_buffer[1].value[2]]
                  ELSE slots
      /\ producer_cursor' = IF h = "cursor" THEN p_buffer[1].value ELSE producer_cursor
      /\ did_C_reached_P' = IF h = "flag" THEN p_buffer[1].value ELSE did_C_reached_P
      /\ ~(h = "cursor" /\ EmptyUnsettled /\ p_buffer[1].value = consumer_cursor)
  BY <1>2 DEF PushVisible
<1>4. /\ Size \in Nat \ {0} /\ Len(fifo) \in Nat /\ Len(c_buffer) \in Nat
      /\ pub[0] \in 0 .. Size /\ pub[1] \in 0 .. Size /\ e \in 0 .. Size /\ t \in 0 .. Size
      /\ t <= pub[0] /\ pub[0] <= pub[1] /\ pub[1] <= e /\ e = t + Len(fifo)
      /\ consumer_cursor \in Slots
  <2>1. 1 \in 0 .. n
    BY <1>2
  <2> QED
    BY <2>1, PositionFacts DEF Slots
<1>5. /\ \A i \in 0 .. n : pub[i] \in 0 .. Size /\ pub[i] <= e
      /\ \A i, j \in 0 .. n : i <= j => pub[i] <= pub[j]
      /\ pub[n] = e
  BY PositionFacts DEF Holds, PStores, Entered
<1>6. ASSUME NEW i \in 1 .. n
      PROVE  \/ /\ p_buffer[i].loc = "slot" /\ pub[i] = pub[i - 1] /\ pub[i] < e
                /\ p_buffer[i].value = <<At(pub[i] + 1), fifo[pub[i] + 1 - t]>>
                /\ i < n /\ p_buffer[i + 1].loc = "cursor"
             \/ /\ p_buffer[i].loc = "cursor" /\ pub[i] = pub[i - 1] + 1
                /\ p_buffer[i].value = At(pub[i])
                /\ IF i = 1 THEN slots[At(pub[1])] = fifo[pub[1] - t]
                   ELSE p_buffer[i - 1].loc = "slot"
             \/ p_buffer[i].loc = "flag" /\ pub[i] = pub[i - 1] /\ p_buffer[i].value = FALSE
  BY DEF Holds, PStores
<1>7. \/ /\ h = "slot" /\ pub[1] = pub[0] /\ pub[1] < e
         /\ p_buffer[1].value = <<At(pub[1] + 1), fifo[pub[1] + 1 - t]>>
         /\ 1 < n /\ p_buffer[2].loc = "cursor"
      \/ /\ h = "cursor" /\ pub[1] = pub[0] + 1 /\ p_buffer[1].value = At(pub[1])
         /\ slots[At(pub[1])] = fifo[pub[1] - t]
      \/ h = "flag" /\ pub[1] = pub[0] /\ p_buffer[1].value = FALSE
  <2>1. 1 \in 1 .. n /\ 1 - 1 = 0 /\ 1 + 1 = 2
    BY <1>2
  <2> QED
    BY <1>6, <2>1
<1>8. PICK pub2 \in [0 .. n - 1 -> 0 .. Size] : \A i \in 0 .. n - 1 : pub2[i] = pub[i + 1]
  <2>1. \A i \in 0 .. n - 1 : i + 1 \in 0 .. n
    BY <1>2
  <2>2. f \in [0 .. n - 1 -> 0 .. Size] /\ \A i \in 0 .. n - 1 : f[i] = pub[i + 1]
    BY <1>5, <2>1
  <2> HIDE DEF f
  <2> QED
    BY <2>2
<1>9. /\ pub2[0] = pub[1] /\ pub2[n - 1] = e
  <2>1. 0 \in 0 .. n - 1 /\ n - 1 \in 0 .. n - 1 /\ 0 + 1 = 1 /\ (n - 1) + 1 = n
    BY <1>2
  <2> QED
    BY <1>5, <1>8, <2>1
<1>10. /\ \A i : i \in Pending(p_buffer', "flag") <=> i \in 1 .. n - 1 /\ i + 1 \in Pending(p_buffer, "flag")
       /\ 1 \in Pending(p_buffer, "flag") <=> h = "flag"
       /\ Cardinality(Pending(p_buffer', "cursor"))
            = Cardinality(Pending(p_buffer, "cursor")) - (IF h = "cursor" THEN 1 ELSE 0)
       /\ Pending(p_buffer, "flag") \subseteq 1 .. n
  <2>1. /\ \A i : i \in Pending(Tail(p_buffer), "flag")
                    <=> i \in 1 .. Len(p_buffer) - 1 /\ i + 1 \in Pending(p_buffer, "flag")
        /\ 1 \in Pending(p_buffer, "flag") <=> Head(p_buffer).loc = "flag"
    BY <1>1, PendingTail
  <2>2. Cardinality(Pending(Tail(p_buffer), "cursor"))
          = Cardinality(Pending(p_buffer, "cursor")) - (IF Head(p_buffer).loc = "cursor" THEN 1 ELSE 0)
    BY <1>1, PendingCount
  <2>3. Pending(p_buffer, "flag") \subseteq 1 .. n
    BY <1>1 DEF Pending
  <2> QED
    BY <1>1, <1>2, <2>1, <2>2, <2>3
<1>11. p_cursor' = p_cursor /\ p_flag' = p_flag /\ c_cursor' = c_cursor
  <2>1. Load(Tail(p_buffer), "cursor", IF Head(p_buffer).loc = "cursor" THEN Head(p_buffer).value
                                       ELSE producer_cursor)
          = Load(p_buffer, "cursor", producer_cursor)
    BY <1>1, LoadTail
  <2>2. Load(Tail(p_buffer), "flag", IF Head(p_buffer).loc = "flag" THEN Head(p_buffer).value
                                     ELSE did_C_reached_P)
          = Load(p_buffer, "flag", did_C_reached_P)
    BY <1>1, LoadTail
  <2> QED
    BY <1>1, <1>2, <1>3, <2>1, <2>2 DEF p_cursor, p_flag, c_cursor
<1>12. h # "flag" => c_flag' = c_flag
  BY <1>1, <1>3 DEF c_flag
<1> HIDE DEF n, e, t, h, f
<1>13. Entered(pub2)' = e /\ Taken(rel)' = t /\ \A i : At(i)' = At(i)
  BY <1>1, <1>2, <1>9 DEF Entered, Taken, At, t
<1>14. PStores(pub2, rel)'
  <2>1. \A i, j \in 0 .. n - 1 : i <= j => pub2[i] <= pub2[j]
    <3> SUFFICES ASSUME NEW i \in 0 .. n - 1, NEW j \in 0 .. n - 1, i <= j
                 PROVE  pub2[i] <= pub2[j]
      OBVIOUS
    <3>1. i + 1 \in 0 .. n /\ j + 1 \in 0 .. n /\ i + 1 <= j + 1
      BY <1>2
    <3>2. pub[i + 1] <= pub[j + 1]
      BY <1>5, <3>1
    <3> QED
      BY <1>8, <3>2
  <2>2. ASSUME NEW i \in 1 .. n - 1
        PROVE  \/ /\ p_buffer'[i].loc = "slot" /\ pub2[i] = pub2[i - 1] /\ pub2[i] < e
                  /\ p_buffer'[i].value = <<At(pub2[i] + 1), fifo[pub2[i] + 1 - t]>>
                  /\ i < n - 1 /\ p_buffer'[i + 1].loc = "cursor"
               \/ /\ p_buffer'[i].loc = "cursor" /\ pub2[i] = pub2[i - 1] + 1
                  /\ p_buffer'[i].value = At(pub2[i])
                  /\ IF i = 1 THEN slots'[At(pub2[1])] = fifo[pub2[1] - t]
                     ELSE p_buffer'[i - 1].loc = "slot"
               \/ /\ p_buffer'[i].loc = "flag" /\ pub2[i] = pub2[i - 1]
                  /\ p_buffer'[i].value = FALSE
    <3> DEFINE j == i + 1
    <3>1. /\ j \in 1 .. n /\ j # 1 /\ j - 1 = i /\ i \in 0 .. n - 1 /\ i - 1 \in 0 .. n - 1
          /\ (i - 1) + 1 = i /\ (j < n => i < n - 1 /\ i + 1 \in 1 .. n - 1)
          /\ (i # 1 => i - 1 \in 1 .. n - 1)
      BY <1>2
    <3>2. /\ p_buffer'[i] = p_buffer[j] /\ pub2[i] = pub[j] /\ pub2[i - 1] = pub[j - 1]
          /\ (j < n => p_buffer'[i + 1] = p_buffer[j + 1])
          /\ (i # 1 => p_buffer'[i - 1] = p_buffer[j - 1])
      BY <1>2, <1>8, <3>1
    <3>3. \/ /\ p_buffer[j].loc = "slot" /\ pub[j] = pub[j - 1] /\ pub[j] < e
             /\ p_buffer[j].value = <<At(pub[j] + 1), fifo[pub[j] + 1 - t]>>
             /\ j < n /\ p_buffer[j + 1].loc = "cursor"
          \/ /\ p_buffer[j].loc = "cursor" /\ pub[j] = pub[j - 1] + 1
             /\ p_buffer[j].value = At(pub[j]) /\ p_buffer[j - 1].loc = "slot"
          \/ p_buffer[j].loc = "flag" /\ pub[j] = pub[j - 1] /\ p_buffer[j].value = FALSE
      BY <1>6, <3>1
    <3>4. ASSUME i = 1, p_buffer[j].loc = "cursor"
          PROVE  slots'[At(pub2[1])] = fifo[pub2[1] - t]
      <4>1. h = "slot" /\ pub2[1] = pub[1] + 1
        BY <3>1, <3>2, <3>3, <3>4 DEF h
      <4>2. /\ p_buffer[1].value[1] = At(pub2[1]) /\ p_buffer[1].value[2] = fifo[pub2[1] - t]
        <5>1. p_buffer[1].value = <<At(pub[1] + 1), fifo[pub[1] + 1 - t]>>
          BY <1>7, <4>1
        <5>2. p_buffer[1].value = <<At(pub2[1]), fifo[pub2[1] - t]>>
          <6>1. pub[1] + 1 = pub2[1] /\ pub[1] + 1 - t = pub2[1] - t
            BY <1>4, <4>1, SMTT(20)
          <6> QED
            BY <5>1, <6>1
        <5> QED
          BY <5>2
      <4>3. pub2[1] \in 0 .. Size
        BY <1>8, <3>1, <3>4
      <4>4. At(pub2[1]) \in Slots
        BY <1>4, <4>3, PlaceInSlots DEF At
      <4>5. slots' = [slots EXCEPT ![At(pub2[1])] = fifo[pub2[1] - t]]
        BY <1>3, <4>1, <4>2
      <4>6. DOMAIN slots = Slots
        BY DEF BufferTypes, TypeOK
      <4> QED
        BY <4>4, <4>5, <4>6
    <3> HIDE DEF j
    <3>5. CASE p_buffer[j].loc = "slot"
      <4>1. i < n - 1 /\ p_buffer'[i + 1].loc = "cursor"
        BY <3>1, <3>2, <3>3, <3>5
      <4> QED
        BY <3>2, <3>3, <3>5, <4>1
    <3>6. CASE p_buffer[j].loc = "cursor"
      BY <3>2, <3>3, <3>4, <3>6
    <3>7. CASE p_buffer[j].loc = "flag"
      BY <3>2, <3>3, <3>7
    <3> QED
      BY <3>3, <3>5, <3>6, <3>7
  <2>3. Cardinality(Pending(p_buffer', "cursor")) = e - pub2[0]
    <3>1. Cardinality(Pending(p_buffer, "cursor")) = e - pub[0]
      BY DEF Holds, PStores, e
    <3>2. pub[1] = pub[0] + (IF h = "cursor" THEN 1 ELSE 0)
      BY <1>4, <1>7
    <3> QED
      BY <1>4, <1>9, <1>10, <3>1, <3>2
  <2>4. t <= pub2[0] /\ e = t + Len(fifo)
    BY <1>4, <1>9
  <2> QED
    BY <1>1, <1>2, <1>8, <1>13, <2>1, <2>2, <2>3, <2>4 DEF PStores
<1>15. CStores(rel)'
  BY <1>1, <1>13 DEF Holds, CStores
<1>16. Positions(pub2, rel)'
  <2>1. producer_cursor' = At(pub2[0])
    <3>1. producer_cursor = At(pub[0])
      BY DEF Holds, Positions
    <3> QED
      BY <1>3, <1>7, <1>9, <3>1
  <2>2. ASSUME NEW j \in t + 1 .. pub[1] PROVE slots'[At(j)] = fifo[j - t]
    <3>1. j \in 1 .. Size
      BY <1>4
    <3>2. CASE j \in t + 1 .. pub[0]
      <4>1. slots[At(j)] = fifo[j - t]
        BY <3>2 DEF Holds, Positions, t
      <4>2. CASE h = "slot"
        <5>1. pub[1] + 1 \in 1 .. Size /\ j # pub[1] + 1
          BY <1>4, <1>7, <3>2, <4>2
        <5>2. At(j) # At(pub[1] + 1)
          BY <1>4, <3>1, <5>1, PlaceInjective DEF At
        <5>3. p_buffer[1].value[1] = At(pub[1] + 1)
          BY <1>7, <4>2
        <5>4. slots' = [slots EXCEPT ![At(pub[1] + 1)] = p_buffer[1].value[2]]
          BY <1>3, <4>2, <5>3
        <5>5. DOMAIN slots = Slots
          BY DEF BufferTypes, TypeOK
        <5>6. At(j) \in Slots
          <6>1. j \in 0 .. Size
            BY <1>4, <3>1
          <6> QED
            BY <1>4, <6>1, PlaceInSlots DEF At
        <5> QED
          BY <4>1, <5>2, <5>4, <5>5, <5>6
      <4>3. CASE h # "slot"
        BY <1>3, <4>1, <4>3
      <4> QED
        BY <4>2, <4>3
    <3>3. CASE j \notin t + 1 .. pub[0]
      <4>1. j > pub[0] /\ pub[0] # pub[1] /\ j <= pub[1] /\ j \in Nat /\ pub[0] \in Nat
        BY <1>4, <3>3
      <4>2. h = "cursor" /\ pub[1] = pub[0] + 1 /\ slots[At(pub[1])] = fifo[pub[1] - t]
        BY <1>7, <4>1
      <4>3. j = pub[1] /\ slots' = slots
        <5>1. j = pub[1]
          BY <4>1, <4>2
        <5> QED
          BY <1>3, <4>2, <5>1
      <4> QED
        BY <4>2, <4>3
    <3> QED
      BY <3>2, <3>3
  <2>3. p_cursor = At(e) /\ c_cursor = At(t)
    BY DEF Holds, Positions, e, t
  <2> QED
    BY <1>1, <1>9, <1>11, <1>13, <2>1, <2>2, <2>3 DEF Positions
<1>17. SaidEmpty(pub, rel) => SaidEmpty(pub2, rel)' /\ (h = "flag" => pub[1] = t + Size)
  <2> SUFFICES ASSUME SaidEmpty(pub, rel)
               PROVE  SaidEmpty(pub2, rel)' /\ (h = "flag" => pub[1] = t + Size)
    OBVIOUS
  <2>1. \A i \in Pending(p_buffer, "flag") : pub[i] = t + Size
    BY DEF SaidEmpty, t
  <2>2. \A i \in Pending(p_buffer', "flag") : pub2[i] = t + Size
    <3> SUFFICES ASSUME NEW i \in Pending(p_buffer', "flag") PROVE pub2[i] = t + Size
      OBVIOUS
    <3>1. i \in 1 .. n - 1 /\ i + 1 \in Pending(p_buffer, "flag")
      BY <1>10
    <3>2. i \in 0 .. n - 1
      BY <1>2, <3>1
    <3> QED
      BY <1>8, <2>1, <3>1, <3>2
  <2>3. h = "flag" => pub[1] = t + Size
    BY <1>10, <2>1
  <2> QED
    BY <1>1, <1>13, <2>2, <2>3 DEF SaidEmpty
<1>18. Flags(pub2, rel)'
  <2>1. ~FlagsRace(p_buffer, c_buffer)'
    <3>1. Pending(p_buffer', "flag") # {} => Pending(p_buffer, "flag") # {}
      BY <1>10
    <3>2. ~FlagsRace(p_buffer, c_buffer)
      BY DEF Holds, Flags
    <3> QED
      BY <1>1, <3>1, <3>2 DEF FlagsRace
  <2>2. ASSUME e = Size, p_pc # "push_recheck"
        PROVE  ~p_flag /\ (pub2[0] = Size \/ \E i \in Pending(p_buffer', "flag") : pub2[i] = Size)
    <3>1. ~p_flag /\ (pub[0] = Size \/ \E i \in Pending(p_buffer, "flag") : pub[i] = Size)
      BY <2>2 DEF Holds, Flags, e
    <3>2. CASE pub[0] = Size
      BY <1>4, <1>9, <3>1, <3>2
    <3>3. ASSUME NEW i \in Pending(p_buffer, "flag"), pub[i] = Size
          PROVE  pub2[0] = Size \/ \E j \in Pending(p_buffer', "flag") : pub2[j] = Size
      <4>1. i \in 1 .. n
        BY <1>10
      <4>2. CASE i = 1
        BY <1>9, <3>3, <4>2
      <4>3. CASE i # 1
        <5>1. i - 1 \in 1 .. n - 1 /\ i - 1 \in 0 .. n - 1 /\ (i - 1) + 1 = i
          BY <1>2, <4>1, <4>3
        <5>2. i - 1 \in Pending(p_buffer', "flag") /\ pub2[i - 1] = Size
          BY <1>8, <1>10, <3>3, <5>1
        <5> QED
          BY <5>2
      <4> QED
        BY <4>2, <4>3
    <3> QED
      BY <3>1, <3>2, <3>3
  <2>3. \A i \in Pending(c_buffer, "flag") : rel[i] = 0 /\ e = Size => p_pc = "push_recheck"
    BY DEF Holds, Flags, e
  <2>4. pub2[0] = t => c_flag' /\ SaidEmpty(pub2, rel)'
    <3> SUFFICES ASSUME pub2[0] = t PROVE c_flag' /\ SaidEmpty(pub2, rel)'
      OBVIOUS
    <3>1. pub[0] = t /\ pub[1] = t /\ pub[1] # t + Size
      BY <1>4, <1>9
    <3>2. c_flag /\ SaidEmpty(pub, rel)
      BY <3>1 DEF Holds, Flags, t
    <3> QED
      BY <1>12, <1>17, <3>1, <3>2
  <2> QED
    BY <1>1, <1>11, <1>13, <2>1, <2>2, <2>3, <2>4 DEF Flags
<1>19. Producer(pub2)'
  BY <1>1, <1>13 DEF Holds, Producer, e
<1>20. Consumer(pub2, rel)'
  <2>1. c_pc # "idle" => t + c_avail <= pub2[0] /\ c_seen = At(t + c_avail)
    <3>1. c_pc # "idle" => t + c_avail <= pub[0] /\ c_seen = At(t + c_avail)
      BY DEF Holds, Consumer, t
    <3>2. c_avail \in Nat
      BY DEF BufferTypes, TypeOK
    <3> QED
      BY <1>4, <1>9, <3>1, <3>2
  <2>2. ASSUME c_pc \in {"pull_flag", "empty_flag"}
        PROVE  /\ c_avail \in {0, Size}
               /\ c_avail = 0 => /\ pub2[0] < t + Size => c_flag'
                                 /\ SaidEmpty(pub2, rel)'
    <3>1. /\ c_avail \in {0, Size}
          /\ c_avail = 0 => (pub[0] < t + Size => c_flag) /\ SaidEmpty(pub, rel)
      BY <2>2 DEF Holds, Consumer, t
    <3>2. pub2[0] < t + Size => pub[0] < t + Size /\ pub[1] # t + Size
      BY <1>4, <1>9
    <3> QED
      BY <1>12, <1>17, <3>1, <3>2
  <2>3. ASSUME c_pc \in {"pull_read", "pull_store"}
        PROVE  t < pub2[0] /\ (c_avail = 0 => pub2[0] = t + Size)
    <3>1. t < pub[0] /\ (c_avail = 0 => pub[0] = t + Size)
      BY <2>3 DEF Holds, Consumer, t
    <3> QED
      BY <1>4, <1>9, <3>1
  <2>4. ASSUME c_pc = "clear_store", c_avail = 0, t = 0 PROVE pub2[0] < Size
    <3>1. pub[0] < Size
      BY <2>4 DEF Holds, Consumer, t
    <3>2. ~(h = "cursor" /\ pub[1] = Size)
      <4> SUFFICES ASSUME h = "cursor", pub[1] = Size PROVE FALSE
        OBVIOUS
      <4>1. p_buffer[1].value = At(Size)
        BY <1>7
      <4>2. At(Size) = consumer_cursor
        BY <1>4 DEF At, Place, Slots
      <4> QED
        BY <1>3, <2>4, <4>1, <4>2 DEF EmptyUnsettled
    <3> QED
      BY <1>4, <1>7, <1>9, <3>1, <3>2
  <2>5. /\ c_pc \in {"idle", "pull_flag", "empty_flag", "pull_read", "pull_store", "clear_store"}
        /\ c_pc = "pull_store" => c_elem = fifo[1]
    BY DEF Holds, Consumer
  <2>6. At(Taken(rel) + c_avail)' = At(t + c_avail)
    BY <1>1, <1>13 DEF At
  <2> QED
    BY <1>1, <1>13, <2>1, <2>2, <2>3, <2>4, <2>5, <2>6 DEF Consumer
<1> QED
  BY <1>14, <1>15, <1>16, <1>18, <1>19, <1>20 DEF Holds

\* A store of the consumer becomes visible: positions are counted from the
\* consumer cursor, so all of them move by what it releases.
LEMMA PullVisibleKeeps ==
  ASSUME BufferTypes, NEW pub, NEW rel, Holds(pub, rel), PullVisible, ~collided'
  PROVE  \E pub2, rel2 : Holds(pub2, rel2)'
<1> DEFINE n == Len(p_buffer)
           m == Len(c_buffer)
           k == rel[1]
           h == c_buffer[1].loc
           f == [i \in 0 .. n |-> pub[i] - k]
           g == [i \in 0 .. m - 1 |-> rel[i + 1] - k]
<1>0. PICK e \in Nat, t \in Nat : e = Entered(pub) /\ t = Taken(rel)
  BY PositionFacts
<1>1. /\ p_buffer \in Seq(Store) /\ c_buffer # <<>> /\ c_buffer \in Seq(Store)
      /\ c_buffer' = Tail(c_buffer)
      /\ UNCHANGED <<slots, producer_cursor, p_pc, c_pc, c_elem, c_seen, c_avail, fifo, p_buffer>>
  BY DEF PullVisible, BufferTypes, cvars
<1>2. /\ m \in Nat \ {0} /\ Len(c_buffer') = m - 1 /\ Head(c_buffer) = c_buffer[1]
      /\ \A i \in 1 .. m - 1 : c_buffer'[i] = c_buffer[i + 1]
  BY <1>1, OneLess
<1>3. /\ consumer_cursor' = IF h = "cursor" THEN c_buffer[1].value ELSE consumer_cursor
      /\ did_C_reached_P' = IF h = "flag" THEN c_buffer[1].value ELSE did_C_reached_P
      /\ ~(h = "cursor" /\ PushUnsettled /\ c_buffer[1].value = p_cursor)
  BY <1>2 DEF PullVisible
<1>4. /\ Size \in Nat \ {0} /\ Len(fifo) \in Nat /\ n \in Nat
      /\ pub[0] \in 0 .. Size /\ e \in 0 .. Size /\ t \in 0 .. Size /\ k \in 0 .. Size
      /\ k <= t /\ t <= pub[0] /\ pub[0] <= e /\ e = t + Len(fifo)
      /\ consumer_cursor \in Slots
  <2>1. 1 \in 0 .. m
    BY <1>2
  <2> QED
    BY <1>0, <2>1, PositionFacts DEF Slots
<1>5. /\ \A i \in 0 .. n : pub[i] \in 0 .. Size /\ pub[0] <= pub[i] /\ pub[i] <= e
      /\ \A i, j \in 0 .. n : i <= j => pub[i] <= pub[j]
      /\ pub[n] = e
  BY <1>0, PositionFacts DEF Holds, PStores, Entered
<1>6. /\ \A i \in 0 .. m : rel[i] \in 0 .. Size
      /\ \A i, j \in 0 .. m : i <= j => rel[i] <= rel[j]
      /\ rel[m] = t
  BY <1>0 DEF Holds, CStores, Taken
<1>7. \/ h = "cursor" /\ c_buffer[1].value = At(k)
      \/ h = "flag" /\ k = 0 /\ c_buffer[1].value = TRUE
  <2>1. 1 \in 1 .. m /\ 1 - 1 = 0
    BY <1>2
  <2> QED
    BY <2>1 DEF Holds, CStores
<1>8. PICK pub2 \in [0 .. n -> 0 .. Size] : \A i \in 0 .. n : pub2[i] = pub[i] - k
  <2>1. \A i \in 0 .. n : pub[i] - k \in 0 .. Size
    <3> HIDE DEF k
    <3> SUFFICES ASSUME NEW i \in 0 .. n PROVE pub[i] - k \in 0 .. Size
      OBVIOUS
    <3>1. pub[i] \in 0 .. Size /\ pub[0] <= pub[i]
      BY <1>5
    <3> QED
      BY <1>4, <3>1
  <2>2. f \in [0 .. n -> 0 .. Size] /\ \A i \in 0 .. n : f[i] = pub[i] - k
    BY <2>1
  <2> HIDE DEF f
  <2> QED
    BY <2>2
<1>9. PICK rel2 \in [0 .. m - 1 -> 0 .. Size] : \A i \in 0 .. m - 1 : rel2[i] = rel[i + 1] - k
  <2>1. \A i \in 0 .. m - 1 : rel[i + 1] - k \in 0 .. Size
    <3> SUFFICES ASSUME NEW i \in 0 .. m - 1 PROVE rel[i + 1] - rel[1] \in 0 .. Size
      OBVIOUS
    <3>1. i + 1 \in 0 .. m /\ 1 \in 0 .. m /\ 1 <= i + 1
      BY <1>2
    <3>2. rel[1] <= rel[i + 1] /\ rel[i + 1] \in 0 .. Size /\ rel[1] \in 0 .. Size
      BY <1>6, <3>1
    <3> QED
      BY <1>4, <3>2, SMTT(20)
  <2>2. g \in [0 .. m - 1 -> 0 .. Size] /\ \A i \in 0 .. m - 1 : g[i] = rel[i + 1] - k
    BY <2>1
  <2> HIDE DEF g
  <2> QED
    BY <2>2
<1>10. /\ pub2[0] = pub[0] - k /\ pub2[n] = e - k /\ rel2[0] = 0 /\ rel2[m - 1] = t - k
  <2>1. 0 \in 0 .. m - 1 /\ m - 1 \in 0 .. m - 1 /\ 0 + 1 = 1 /\ (m - 1) + 1 = m
    BY <1>2
  <2>2. pub2[0] = pub[0] - k /\ pub2[n] = e - k
    BY <1>4, <1>5, <1>8
  <2>3. rel2[0] = rel[1] - rel[1] /\ rel2[m - 1] = t - k
    BY <1>6, <1>9, <2>1
  <2> QED
    BY <1>4, <2>2, <2>3
<1>11. /\ \A i : i \in Pending(c_buffer', "flag") <=> i \in 1 .. m - 1 /\ i + 1 \in Pending(c_buffer, "flag")
       /\ 1 \in Pending(c_buffer, "flag") <=> h = "flag"
       /\ Pending(p_buffer, "flag") \subseteq 0 .. n
  <2>1. /\ \A i : i \in Pending(Tail(c_buffer), "flag")
                    <=> i \in 1 .. Len(c_buffer) - 1 /\ i + 1 \in Pending(c_buffer, "flag")
        /\ 1 \in Pending(c_buffer, "flag") <=> Head(c_buffer).loc = "flag"
    BY <1>1, PendingTail
  <2>2. Pending(p_buffer, "flag") \subseteq 0 .. n
    BY <1>1 DEF Pending
  <2> QED
    BY <1>1, <1>2, <2>1, <2>2
<1>12. c_cursor' = c_cursor /\ c_flag' = c_flag /\ p_cursor' = p_cursor
  <2>1. Load(Tail(c_buffer), "cursor", IF Head(c_buffer).loc = "cursor" THEN Head(c_buffer).value
                                       ELSE consumer_cursor)
          = Load(c_buffer, "cursor", consumer_cursor)
    BY <1>1, LoadTail
  <2>2. Load(Tail(c_buffer), "flag", IF Head(c_buffer).loc = "flag" THEN Head(c_buffer).value
                                     ELSE did_C_reached_P)
          = Load(c_buffer, "flag", did_C_reached_P)
    BY <1>1, LoadTail
  <2> QED
    BY <1>1, <1>2, <1>3, <2>1, <2>2 DEF c_cursor, c_flag, p_cursor
<1>13. h # "flag" => p_flag' = p_flag
  BY <1>1, <1>3 DEF p_flag
<1> HIDE DEF n, m, k, h, f, g
<1>14. ASSUME NEW i \in Nat, k + i <= Size PROVE At(i)' = At(k + i)
  <2>1. At(0) = consumer_cursor
    BY <1>4 DEF At, Place, Slots
  <2>2. consumer_cursor' = Place(consumer_cursor, k)
    BY <1>3, <1>7, <2>1 DEF At
  <2>3. Place(Place(consumer_cursor, k), i) = Place(consumer_cursor, k + i)
    BY <1>4, <1>14, PlaceSum
  <2> QED
    BY <2>2, <2>3 DEF At
<1>15. Entered(pub2)' = e - k /\ Taken(rel2)' = t - k
  BY <1>1, <1>2, <1>10 DEF Entered, Taken, n
<1>16. CStores(rel2)'
  <2>1. \A i, j \in 0 .. m - 1 : i <= j => rel2[i] <= rel2[j]
    <3> SUFFICES ASSUME NEW i \in 0 .. m - 1, NEW j \in 0 .. m - 1, i <= j
                 PROVE  rel2[i] <= rel2[j]
      OBVIOUS
    <3>1. i + 1 \in 0 .. m /\ j + 1 \in 0 .. m /\ i + 1 <= j + 1
      BY <1>2
    <3>2. rel[i + 1] <= rel[j + 1] /\ rel[i + 1] \in 0 .. Size /\ rel[j + 1] \in 0 .. Size
      BY <1>6, <3>1
    <3>3. rel2[i] = rel[i + 1] - k /\ rel2[j] = rel[j + 1] - k
      BY <1>9
    <3> QED
      BY <1>4, <3>2, <3>3, SMTT(20)
  <2>2. ASSUME NEW i \in 1 .. m - 1
        PROVE  \/ c_buffer'[i].loc = "cursor" /\ c_buffer'[i].value = At(rel2[i])'
               \/ /\ c_buffer'[i].loc = "flag" /\ rel2[i] = rel2[i - 1]
                  /\ c_buffer'[i].value = TRUE
    <3>1. /\ i + 1 \in 1 .. m /\ i + 1 \in 0 .. m /\ (i + 1) - 1 = i /\ i \in 0 .. m - 1
          /\ i - 1 \in 0 .. m - 1 /\ (i - 1) + 1 = i
      BY <1>2
    <3>2. \/ c_buffer[i + 1].loc = "cursor" /\ c_buffer[i + 1].value = At(rel[i + 1])
          \/ /\ c_buffer[i + 1].loc = "flag" /\ rel[i + 1] = rel[(i + 1) - 1]
             /\ c_buffer[i + 1].value = TRUE
      BY <3>1 DEF Holds, CStores, m
    <3>3. /\ c_buffer'[i] = c_buffer[i + 1] /\ rel2[i] = rel[i + 1] - k
          /\ rel2[i - 1] = rel[(i - 1) + 1] - k
          /\ rel[i + 1] \in 0 .. Size
      BY <1>2, <1>6, <1>9, <3>1
    <3>4. At(rel2[i])' = At(rel[i + 1])
      <4>1. rel2[i] \in Nat
        BY <1>4, <1>9, <3>1
      <4>2. k + rel2[i] = rel[i + 1] /\ k + rel2[i] <= Size
        BY <1>4, <3>3
      <4> QED
        BY <1>14, <4>1, <4>2
    <3> QED
      BY <3>1, <3>2, <3>3, <3>4
  <2> QED
    BY <1>2, <1>9, <1>10, <2>1, <2>2 DEF CStores
<1>17. PStores(pub2, rel2)'
  <2>1. \A i, j \in 0 .. n : i <= j => pub2[i] <= pub2[j]
    <3> SUFFICES ASSUME NEW i \in 0 .. n, NEW j \in 0 .. n, i <= j
                 PROVE  pub2[i] <= pub2[j]
      OBVIOUS
    <3>1. pub[i] <= pub[j] /\ pub[i] \in 0 .. Size /\ pub[j] \in 0 .. Size
      BY <1>5
    <3>2. pub2[i] = pub[i] - k /\ pub2[j] = pub[j] - k
      BY <1>8
    <3> QED
      BY <1>4, <3>1, <3>2, SMTT(20)
  <2>2. ASSUME NEW i \in 1 .. n
        PROVE  \/ /\ p_buffer[i].loc = "slot" /\ pub2[i] = pub2[i - 1] /\ pub2[i] < e - k
                  /\ p_buffer[i].value = <<At(pub2[i] + 1)', fifo[pub2[i] + 1 - (t - k)]>>
                  /\ i < n /\ p_buffer[i + 1].loc = "cursor"
               \/ /\ p_buffer[i].loc = "cursor" /\ pub2[i] = pub2[i - 1] + 1
                  /\ p_buffer[i].value = At(pub2[i])'
                  /\ IF i = 1 THEN slots[At(pub2[1])'] = fifo[pub2[1] - (t - k)]
                     ELSE p_buffer[i - 1].loc = "slot"
               \/ p_buffer[i].loc = "flag" /\ pub2[i] = pub2[i - 1] /\ p_buffer[i].value = FALSE
    <3>1. \/ /\ p_buffer[i].loc = "slot" /\ pub[i] = pub[i - 1] /\ pub[i] < e
             /\ p_buffer[i].value = <<At(pub[i] + 1), fifo[pub[i] + 1 - t]>>
             /\ i < n /\ p_buffer[i + 1].loc = "cursor"
          \/ /\ p_buffer[i].loc = "cursor" /\ pub[i] = pub[i - 1] + 1
             /\ p_buffer[i].value = At(pub[i])
             /\ IF i = 1 THEN slots[At(pub[1])] = fifo[pub[1] - t]
                ELSE p_buffer[i - 1].loc = "slot"
          \/ p_buffer[i].loc = "flag" /\ pub[i] = pub[i - 1] /\ p_buffer[i].value = FALSE
      BY <1>0 DEF Holds, PStores, n
    <3>2. /\ i \in 0 .. n /\ i - 1 \in 0 .. n
      BY <1>4
    <3>3. /\ pub2[i] = pub[i] - k /\ pub2[i - 1] = pub[i - 1] - k
          /\ pub[i] \in 0 .. Size /\ pub[i - 1] \in 0 .. Size /\ pub2[i] \in 0 .. Size
      BY <1>5, <1>8, <3>2
    <3>4. /\ k + pub2[i] = pub[i] /\ k + pub2[i] <= Size /\ pub2[i] \in Nat
          /\ pub2[i] - (t - k) = pub[i] - t
          /\ pub2[i] + 1 - (t - k) = pub[i] + 1 - t
          /\ pub[i] = pub[i - 1] => pub2[i] = pub2[i - 1]
          /\ pub[i] = pub[i - 1] + 1 => pub2[i] = pub2[i - 1] + 1
      <4>1. /\ k \in Nat /\ t \in Nat /\ Size \in Nat /\ pub[i] \in Nat /\ pub[i - 1] \in Nat
            /\ pub[i] <= Size
        BY <1>4, <3>3
      <4>2. PICK x \in Nat, y \in Nat : x = pub[i] /\ y = pub[i - 1]
        BY <4>1
      <4>3. pub2[i] = x - k /\ pub2[i - 1] = y - k /\ x <= Size
        BY <3>3, <4>1, <4>2
      <4>4. /\ k + (x - k) = x /\ (x - k) - (t - k) = x - t
            /\ (x - k) + 1 - (t - k) = x + 1 - t
            /\ x = y + 1 => x - k = (y - k) + 1
        BY <4>1
      <4>5. pub2[i] \in Nat
        BY <1>4, <3>3
      <4> QED
        BY <4>2, <4>3, <4>4, <4>5
    <3>5. At(pub2[i])' = At(pub[i])
      BY <1>14, <3>4
    <3>6. CASE p_buffer[i].loc = "slot"
      <4>1. /\ pub[i] < e /\ pub[i] = pub[i - 1] /\ i < n /\ p_buffer[i + 1].loc = "cursor"
            /\ p_buffer[i].value = <<At(pub[i] + 1), fifo[pub[i] + 1 - t]>>
        BY <3>1, <3>6
      <4>2. /\ pub2[i] < e - k /\ pub2[i] + 1 \in Nat
            /\ k + (pub2[i] + 1) = pub[i] + 1 /\ k + (pub2[i] + 1) <= Size
        <5>1. /\ k \in Nat /\ Size \in Nat /\ e <= Size /\ pub[i] \in Nat
              /\ pub[i] < e /\ k + pub2[i] = pub[i] /\ pub2[i] \in Nat
          BY <1>4, <3>3, <3>4, <4>1, SMTT(20)
        <5>2. PICK x \in Nat, y \in Nat : x = pub[i] /\ y = pub2[i]
          BY <5>1
        <5>3. x < e /\ k + y = x
          BY <5>1, <5>2
        <5>4. y < e - k /\ y + 1 \in Nat /\ k + (y + 1) = x + 1 /\ k + (y + 1) <= Size
          BY <5>1, <5>3
        <5> QED
          BY <5>2, <5>4
      <4>3. At(pub2[i] + 1)' = At(pub[i] + 1)
        BY <1>14, <4>2
      <4> QED
        BY <3>4, <3>6, <4>1, <4>2, <4>3
    <3>7. CASE p_buffer[i].loc = "cursor"
      BY <3>1, <3>4, <3>5, <3>7
    <3>8. CASE p_buffer[i].loc = "flag"
      BY <3>1, <3>4, <3>8
    <3> QED
      BY <3>1, <3>6, <3>7, <3>8
  <2>3. /\ Cardinality(Pending(p_buffer, "cursor")) = (e - k) - pub2[0]
        /\ t - k <= pub2[0] /\ e - k = (t - k) + Len(fifo)
    <3>1. Cardinality(Pending(p_buffer, "cursor")) = e - pub[0]
      BY <1>0 DEF Holds, PStores
    <3> QED
      BY <1>4, <1>10, <3>1
  <2> QED
    BY <1>1, <1>8, <1>15, <2>1, <2>2, <2>3 DEF PStores, n
<1>18. Positions(pub2, rel2)'
  <2>1. At(e - k)' = At(e) /\ At(t - k)' = At(t) /\ At(pub2[0])' = At(pub[0])
    <3>1. /\ e - k \in Nat /\ k + (e - k) = e /\ e <= Size
          /\ t - k \in Nat /\ k + (t - k) = t /\ t <= Size
          /\ pub2[0] \in Nat /\ k + pub2[0] = pub[0] /\ pub[0] <= Size
      BY <1>4, <1>10, SMTT(20)
    <3>2. k + (e - k) <= Size /\ k + (t - k) <= Size /\ k + pub2[0] <= Size
      BY <3>1
    <3>3. At(e - k)' = At(k + (e - k)) /\ At(t - k)' = At(k + (t - k))
          /\ At(pub2[0])' = At(k + pub2[0])
      BY <1>14, <3>1, <3>2
    <3> QED
      BY <3>1, <3>3
  <2>2. ASSUME NEW j \in (t - k) + 1 .. pub2[0] PROVE slots[At(j)'] = fifo[j - (t - k)]
    <3>1. /\ k + j \in t + 1 .. pub[0] /\ j \in Nat /\ k + j <= Size
          /\ (k + j) - t = j - (t - k)
      BY <1>4, <1>10
    <3>2. At(j)' = At(k + j)
      BY <1>14, <3>1
    <3>3. slots[At(k + j)] = fifo[(k + j) - t]
      BY <1>0, <3>1 DEF Holds, Positions
    <3> QED
      BY <3>1, <3>2, <3>3
  <2>3. p_cursor = At(e) /\ c_cursor = At(t) /\ producer_cursor = At(pub[0])
    BY <1>0 DEF Holds, Positions
  <2> QED
    BY <1>1, <1>12, <1>15, <2>1, <2>2, <2>3 DEF Positions
<1>19. SaidEmpty(pub, rel) => SaidEmpty(pub2, rel2)'
  <2> SUFFICES ASSUME SaidEmpty(pub, rel) PROVE SaidEmpty(pub2, rel2)'
    OBVIOUS
  <2>1. \A i \in Pending(p_buffer, "flag") : pub2[i] = (t - k) + Size
    <3> SUFFICES ASSUME NEW i \in Pending(p_buffer, "flag") PROVE pub2[i] = (t - k) + Size
      OBVIOUS
    <3>1. pub[i] = t + Size
      BY <1>0 DEF SaidEmpty
    <3>2. pub2[i] = pub[i] - k
      BY <1>8, <1>11
    <3> QED
      BY <1>4, <3>1, <3>2
  <2>2. c_buffer' # <<>> => c_buffer'[Len(c_buffer')].loc = "flag"
    <3> SUFFICES ASSUME c_buffer' # <<>> PROVE c_buffer'[m - 1].loc = "flag"
      BY <1>2
    <3>0. c_buffer' \in Seq(Store)
      BY <1>1, OneLess
    <3>1. m - 1 \in 1 .. m - 1 /\ (m - 1) + 1 = m
      BY <1>2, <3>0
    <3>2. c_buffer'[m - 1] = c_buffer[m]
      BY <1>2, <3>1
    <3> QED
      BY <1>1, <3>2 DEF SaidEmpty, m
  <2> QED
    BY <1>1, <1>15, <2>1, <2>2 DEF SaidEmpty
<1>20. e - k = Size => k = 0 /\ e = Size
  BY <1>4
<1>21. Flags(pub2, rel2)'
  <2>1. /\ ~FlagsRace(p_buffer, c_buffer)
        /\ e = Size /\ p_pc # "push_recheck"
             => ~p_flag /\ (pub[0] = Size \/ \E i \in Pending(p_buffer, "flag") : pub[i] = Size)
        /\ \A i \in Pending(c_buffer, "flag") : rel[i] = 0 /\ e = Size => p_pc = "push_recheck"
        /\ pub[0] = t => c_flag /\ SaidEmpty(pub, rel)
    BY <1>0 DEF Holds, Flags
  <2>2. ~FlagsRace(p_buffer, c_buffer)'
    <3>1. Pending(c_buffer', "flag") # {} => Pending(c_buffer, "flag") # {}
      BY <1>11
    <3> QED
      BY <1>1, <2>1, <3>1 DEF FlagsRace
  <2>3. ASSUME e - k = Size, p_pc # "push_recheck"
        PROVE  ~p_flag' /\ (pub2[0] = Size \/ \E i \in Pending(p_buffer, "flag") : pub2[i] = Size)
    <3>1. k = 0 /\ e = Size
      BY <1>20, <2>3
    <3>2. h # "flag"
      BY <1>11, <2>1, <2>3, <3>1 DEF k
    <3>3. ~p_flag'
      BY <1>13, <2>1, <2>3, <3>1, <3>2
    <3>4. \A i \in 0 .. n : pub2[i] = pub[i]
      BY <1>5, <1>8, <3>1
    <3>5. pub2[0] = pub[0] /\ \A i \in Pending(p_buffer, "flag") : pub2[i] = pub[i]
      BY <1>4, <1>11, <3>4
    <3> QED
      BY <2>1, <2>3, <3>1, <3>3, <3>5
  <2>4. ASSUME NEW i \in Pending(c_buffer', "flag"), rel2[i] = 0, e - k = Size
        PROVE  p_pc = "push_recheck"
    <3>1. k = 0 /\ e = Size
      BY <1>20, <2>4
    <3>2. i \in 1 .. m - 1 /\ i + 1 \in Pending(c_buffer, "flag")
      BY <1>11, <2>4
    <3>3. i \in 0 .. m - 1 /\ i + 1 \in 0 .. m
      BY <1>2, <3>2
    <3>4. rel2[i] = rel[i + 1] - k /\ rel[i + 1] \in 0 .. Size
      BY <1>6, <1>9, <3>3
    <3>5. rel[i + 1] = 0
      BY <2>4, <3>1, <3>4
    <3> QED
      BY <2>1, <3>1, <3>2, <3>5
  <2>5. pub2[0] = t - k => c_flag' /\ SaidEmpty(pub2, rel2)'
    <3>1. pub2[0] = t - k => pub[0] = t
      BY <1>4, <1>10
    <3> QED
      BY <1>12, <1>19, <2>1, <3>1
  <2> QED
    BY <1>1, <1>15, <2>2, <2>3, <2>4, <2>5 DEF Flags
<1>22. Producer(pub2)'
  <2>1. /\ p_pc \in {"idle", "push_flag", "push_store", "push_recheck"}
        /\ p_pc = "push_store" => e < Size
        /\ p_pc = "push_recheck" => e > 0
    BY <1>0 DEF Holds, Producer
  <2>2. p_pc = "push_recheck" => e - k > 0
    <3> SUFFICES ASSUME p_pc = "push_recheck", e = k PROVE FALSE
      BY <1>4
    <3>1. k # 0
      BY <1>4, <2>1
    <3>2. h = "cursor" /\ c_buffer[1].value = At(e)
      BY <1>7, <3>1
    <3>3. p_cursor = At(e)
      BY <1>0 DEF Holds, Positions
    <3> QED
      BY <1>3, <3>2, <3>3 DEF PushUnsettled
  <2>3. p_pc = "push_store" => e - k < Size
    BY <1>4, <2>1
  <2> QED
    BY <1>1, <1>15, <2>1, <2>2, <2>3 DEF Producer
<1>23. Consumer(pub2, rel2)'
  <2>1. c_avail \in Nat
    BY DEF BufferTypes, TypeOK
  <2>2. /\ c_pc \in {"idle", "pull_flag", "empty_flag", "pull_read", "pull_store", "clear_store"}
        /\ c_pc # "idle" => t + c_avail <= pub[0] /\ c_seen = At(t + c_avail)
        /\ c_pc \in {"pull_flag", "empty_flag"}
             => /\ c_avail \in {0, Size}
                /\ c_avail = 0 => (pub[0] < t + Size => c_flag) /\ SaidEmpty(pub, rel)
        /\ c_pc \in {"pull_read", "pull_store"}
             => t < pub[0] /\ (c_avail = 0 => pub[0] = t + Size)
        /\ c_pc = "pull_store" => c_elem = fifo[1]
        /\ c_pc = "clear_store" /\ c_avail = 0 /\ t = 0 => pub[0] < Size
    BY <1>0 DEF Holds, Consumer
  <2>3. ASSUME c_pc # "idle"
        PROVE  (t - k) + c_avail <= pub2[0] /\ c_seen = At((t - k) + c_avail)'
    <3>1. t + c_avail <= pub[0] /\ c_seen = At(t + c_avail)
      BY <2>2, <2>3
    <3>2. /\ (t - k) + c_avail \in Nat /\ k + ((t - k) + c_avail) = t + c_avail
          /\ k + ((t - k) + c_avail) <= Size /\ (t - k) + c_avail <= pub2[0]
      BY <1>4, <1>10, <2>1, <3>1, SMTT(20)
    <3>3. PICK i \in Nat : i = (t - k) + c_avail
      BY <3>2
    <3>4. At(i)' = At(k + i)
      BY <1>14, <3>2, <3>3
    <3>5. At((t - k) + c_avail)' = At(i)'
      BY <1>0, <1>1, <3>3 DEF At, k
    <3> QED
      BY <3>1, <3>2, <3>3, <3>4, <3>5
  <2>4. /\ pub2[0] < (t - k) + Size => pub[0] < t + Size
        /\ t < pub[0] => t - k < pub2[0]
        /\ pub[0] = t + Size => pub2[0] = (t - k) + Size
        /\ t - k = 0 /\ (t = 0 => pub[0] < Size) => pub2[0] < Size
    BY <1>4, <1>10, SMTT(20)
  <2> QED
    BY <1>1, <1>12, <1>15, <1>19, <2>2, <2>3, <2>4 DEF Consumer
<1> QED
  BY <1>16, <1>17, <1>18, <1>21, <1>22, <1>23 DEF Holds

-----------------------------------------------------------------------------
(* The theorems *)

\* A collision is never forgotten.
LEMMA BufferedCollidedStays == BufferTypes /\ [NextBuffered]_all /\ ~collided' => ~collided
<1> SUFFICES ASSUME BufferTypes, [NextBuffered]_all, ~collided' PROVE ~collided
  OBVIOUS
<1>1. CASE UNCHANGED all
  BY <1>1 DEF all, vars
<1>2. CASE NextBuffered
  BY <1>2 DEF BufferTypes, TypeOK, NextBuffered, BufferedProducerStep, BufferedConsumerStep,
     BufferedPush, BufferedPushFlag, BufferedPushStore, BufferedPushRecheck,
     BufferedPull, BufferedEmpty, BufferedClear, BufferedLoad, BufferedPullFlag,
     BufferedPullRead, BufferedPullStore, BufferedEmptyFlag, BufferedClearStore,
     PushVisible, PullVisible
<1> QED
  BY <1>1, <1>2

\* Positions found for the next state are of the right type.
LEMMA PositionsExist ==
  ASSUME NEW pub, NEW rel, Holds(pub, rel)'
  PROVE  BufferedInv'
<1>1. /\ rel \in [0 .. Len(c_buffer') -> 0 .. Size]
      /\ pub \in [0 .. Len(p_buffer') -> 0 .. Size]
  BY DEF Holds, PStores, CStores
<1> QED
  BY <1>1 DEF BufferedInv

\* The initial state, and each step, has positions.
LEMMA BufferedInvInit == InitBuffered => BufferedInv
<1> SUFFICES ASSUME InitBuffered PROVE BufferedInv
  OBVIOUS
<1> DEFINE f == [i \in 0 .. 0 |-> 0]
<1>0. Size \in Nat \ {0}
  BY RingAssumption
<1>1. /\ f \in [0 .. 0 -> 0 .. Size] /\ f[0] = 0 /\ \A i \in 0 .. 0 : f[i] = 0
  BY <1>0
<1> HIDE DEF f
<1>2. /\ p_buffer = <<>> /\ c_buffer = <<>> /\ fifo = <<>>
      /\ producer_cursor = 0 /\ consumer_cursor = 0 /\ did_C_reached_P = TRUE
      /\ p_pc = "idle" /\ c_pc = "idle"
  BY DEF InitBuffered, Init
<1>3. /\ Len(p_buffer) = 0 /\ Len(c_buffer) = 0 /\ Len(fifo) = 0
      /\ \A loc : Pending(p_buffer, loc) = {} /\ Pending(c_buffer, loc) = {}
  BY <1>2 DEF Pending
<1>4. /\ p_cursor = 0 /\ c_cursor = 0 /\ p_flag = TRUE /\ c_flag = TRUE
  BY <1>2, <1>3 DEF p_cursor, c_cursor, p_flag, c_flag, Load
<1>5. Entered(f) = 0 /\ Taken(f) = 0 /\ At(0) = 0
  BY <1>0, <1>1, <1>2, <1>3 DEF Entered, Taken, At, Place
<1>6. CStores(f)
  BY <1>1, <1>3 DEF CStores
<1>7. PStores(f, f)
  <2>1. Cardinality(Pending(p_buffer, "cursor")) = 0
    BY <1>3, FS_EmptySet
  <2> QED
    BY <1>1, <1>3, <1>5, <2>1 DEF PStores
<1>8. Positions(f, f)
  BY <1>1, <1>2, <1>4, <1>5 DEF Positions
<1>9. Flags(f, f)
  BY <1>0, <1>1, <1>2, <1>3, <1>4, <1>5 DEF Flags, FlagsRace, SaidEmpty
<1>10. Producer(f) /\ Consumer(f, f)
  BY <1>2 DEF Producer, Consumer
<1>11. Holds(f, f)
  BY <1>6, <1>7, <1>8, <1>9, <1>10 DEF Holds
<1> QED
  BY <1>1, <1>3, <1>11 DEF BufferedInv

\* Positions move along with every step of the two threads, until a collision.
LEMMA BufferedInvStep == BufferTypes /\ BufferedInv /\ [NextBuffered]_all => BufferedInv'
<1> SUFFICES ASSUME BufferTypes, BufferedInv, [NextBuffered]_all, ~collided' PROVE BufferedInv'
  BY DEF BufferedInv
<1>1. ~collided /\ BufferTypes'
  BY BufferedCollidedStays, BufferedTypeStep
<1>2. PICK rel, pub : Holds(pub, rel)
  BY <1>1 DEF BufferedInv
<1>3. CASE BufferedPushFlag \/ \E v \in Values : BufferedPush(v)
  BY <1>2, <1>3, BufferedPushKeeps, PositionsExist
<1>4. CASE BufferedPull \/ BufferedEmpty \/ BufferedClear
  BY <1>2, <1>4, BufferedLoadKeeps, PositionsExist
<1>5. CASE BufferedPullFlag \/ BufferedEmptyFlag \/ BufferedPullRead
  BY <1>2, <1>5, BufferedReadKeeps, PositionsExist
<1>6. CASE BufferedPushStore
  BY <1>1, <1>2, <1>6, BufferedPushStoreKeeps, PositionsExist
<1>7. CASE BufferedPushRecheck
  BY <1>2, <1>7, BufferedPushRecheckKeeps, PositionsExist
<1>8. CASE BufferedPullStore
  BY <1>2, <1>8, BufferedPullStoreKeeps, PositionsExist
<1>9. CASE BufferedClearStore
  BY <1>2, <1>9, BufferedClearStoreKeeps, PositionsExist
<1>10. CASE PushVisible
  BY <1>2, <1>10, PushVisibleKeeps, PositionsExist
<1>11. CASE PullVisible
  BY <1>2, <1>11, PullVisibleKeeps, PositionsExist
<1>12. CASE UNCHANGED all
  <2>1. UNCHANGED <<ring, fifo, buffers>> /\ UNCHANGED <<p_pc, cvars>>
    BY <1>12 DEF all, vars
  <2>2. /\ PStores(pub, rel)' /\ CStores(rel)' /\ Positions(pub, rel)'
        /\ Entered(pub)' = Entered(pub) /\ Taken(rel)' = Taken(rel)
        /\ p_flag' = p_flag /\ c_flag' = c_flag
        /\ SaidEmpty(pub, rel)' <=> SaidEmpty(pub, rel)
    BY <1>2, <2>1, QuietStep
  <2>3. UNCHANGED <<p_pc, c_pc, c_elem, c_seen, c_avail, fifo, consumer_cursor, p_buffer, c_buffer>>
    BY <2>1 DEF cvars, ring, buffers
  <2>4. Flags(pub, rel)' /\ Producer(pub)'
    BY <1>2, <2>2, <2>3 DEF Holds, Flags, Producer
  <2>5. Consumer(pub, rel)'
    BY <1>2, <2>2, <2>3 DEF Holds, Consumer, At
  <2>6. Holds(pub, rel)'
    BY <2>2, <2>4, <2>5 DEF Holds
  <2> QED
    BY <2>6, PositionsExist
<1> QED
  BY <1>3, <1>4, <1>5, <1>6, <1>7, <1>8, <1>9, <1>10, <1>11, <1>12
     DEF NextBuffered, BufferedProducerStep, BufferedConsumerStep

\* Until a collision there are positions for everything that try_push entered,
\* that the other thread sees, and that try_pull and clear took, in this order
\* and never more than Size apart (lines 85-99 and 105-136).
THEOREM BufferedInvariance == SpecBuffered => [](BufferTypes /\ BufferedInv)
<1>1. InitBuffered => BufferTypes
  BY RingAssumption, DepthAssumption DEF InitBuffered, Init, BufferTypes, TypeOK, Slots
<1>2. BufferTypes /\ BufferedInv /\ [NextBuffered]_all => (BufferTypes /\ BufferedInv)'
  BY BufferedTypeStep, BufferedInvStep
<1> QED
  BY <1>1, <1>2, BufferedInvInit, PTL DEF SpecBuffered

\* However late the stores become visible, when try_pull copies a slot no write
\* to that slot is on the way (lines 94 and 114), whatever the ring's size and
\* the depth of the buffers.
THEOREM NoLateWrite == SpecBuffered => []NoPendingRace
<1>1. BufferTypes /\ BufferedInv => NoPendingRace
  <2> SUFFICES ASSUME BufferTypes, BufferedInv, ~collided, c_pc = "pull_read",
                      NEW i \in Pending(p_buffer, "slot")
               PROVE  p_buffer[i].value[1] # Succ(c_cursor)
    BY DEF NoPendingRace
  <2>1. PICK rel, pub : Holds(pub, rel)
    BY DEF BufferedInv
  <2>2. i \in 1 .. Len(p_buffer) /\ p_buffer[i].loc = "slot" /\ i \in 0 .. Len(p_buffer)
    BY DEF Pending, BufferTypes
  <2>3. pub[i] < Entered(pub) /\ p_buffer[i].value[1] = At(pub[i] + 1)
    BY <2>1, <2>2 DEF Holds, PStores
  <2>4. /\ Size \in Nat /\ Taken(rel) \in Nat /\ pub[0] \in Nat /\ pub[i] \in Nat
        /\ pub[0] <= pub[i] /\ Entered(pub) \in Nat /\ Entered(pub) <= Size
        /\ consumer_cursor \in Slots
    BY <2>1, <2>2, PositionFacts DEF Slots
  <2>5. Taken(rel) < pub[0]
    BY <2>1 DEF Holds, Consumer
  <2>6. /\ pub[i] + 1 \in 1 .. Size /\ Taken(rel) + 1 \in 1 .. Size
        /\ pub[i] + 1 # Taken(rel) + 1 /\ Taken(rel) \in 0 .. Size - 1
    BY <2>3, <2>4, <2>5
  <2>7. Succ(Place(consumer_cursor, Taken(rel))) = Place(consumer_cursor, Taken(rel) + 1)
    BY <2>4, <2>6, SuccPlace
  <2>8. Place(consumer_cursor, pub[i] + 1) # Place(consumer_cursor, Taken(rel) + 1)
    BY <2>4, <2>6, PlaceInjective
  <2> QED
    BY <2>1, <2>3, <2>7, <2>8 DEF Holds, Positions, At
<1> QED
  BY <1>1, BufferedInvariance, PTL

\* On a quiet ring whose stores have all landed, the flag tells empty from full
\* when the cursors coincide (lines 85-89, 105-109 and 125-128).
THEOREM FlagTellsEmptyFromFull == SpecBuffered => []FlagExactWhenVisible
<1>1. BufferTypes /\ BufferedInv => FlagExactWhenVisible
  <2> SUFFICES ASSUME BufferTypes, BufferedInv, ~collided, p_buffer = <<>>, c_buffer = <<>>,
                      p_pc # "push_recheck", producer_cursor = consumer_cursor
               PROVE  Len(fifo) = IF did_C_reached_P THEN 0 ELSE Size
    BY DEF FlagExactWhenVisible
  <2>1. PICK rel, pub : Holds(pub, rel)
    BY DEF BufferedInv
  <2>2. /\ Len(p_buffer) = 0 /\ Len(c_buffer) = 0
        /\ \A loc : Pending(p_buffer, loc) = {} /\ Pending(c_buffer, loc) = {}
    BY DEF Pending
  <2>3. /\ p_flag = did_C_reached_P /\ c_flag = did_C_reached_P
        /\ p_cursor = producer_cursor /\ Entered(pub) = pub[0]
    BY <2>2 DEF p_flag, c_flag, p_cursor, Load, Entered
  <2>4. Taken(rel) = 0
    BY <2>1, <2>2 DEF Holds, CStores, Taken
  <2>5. /\ Size \in Nat \ {0} /\ Len(fifo) \in Nat /\ Entered(pub) \in {0, Size}
        /\ Entered(pub) = Taken(rel) + Len(fifo)
    BY <2>1, <2>3, PositionFacts
  <2>6. CASE Entered(pub) = 0
    <3>1. c_flag
      BY <2>1, <2>3, <2>4, <2>6 DEF Holds, Flags
    <3> QED
      BY <2>3, <2>4, <2>5, <2>6, <3>1
  <2>7. CASE Entered(pub) = Size
    <3>1. ~p_flag
      BY <2>1, <2>7 DEF Holds, Flags
    <3> QED
      BY <2>3, <2>4, <2>5, <2>7, <3>1
  <2> QED
    BY <2>5, <2>6, <2>7
<1> QED
  BY <1>1, BufferedInvariance, PTL

\* With late stores too, try_pull hands out the oldest element, and only when
\* there is one (lines 105-117).
THEOREM BufferedPullsOldest == SpecBuffered => []PullReturnsOldest
<1>1. BufferTypes /\ BufferedInv => PullReturnsOldest
  <2> SUFFICES ASSUME BufferTypes, BufferedInv, ~collided, c_pc = "pull_store"
               PROVE  fifo # <<>> /\ c_elem = Head(fifo)
    BY DEF PullReturnsOldest
  <2>1. PICK rel, pub : Holds(pub, rel)
    BY DEF BufferedInv
  <2>2. c_elem = fifo[1] /\ Taken(rel) < pub[0]
    BY <2>1 DEF Holds, Consumer
  <2>3. /\ Taken(rel) \in Nat /\ pub[0] \in Nat /\ Entered(pub) \in Nat /\ Len(fifo) \in Nat
        /\ pub[0] <= Entered(pub) /\ Entered(pub) = Taken(rel) + Len(fifo)
    BY <2>1, PositionFacts
  <2>4. Len(fifo) > 0 /\ fifo \in Seq(Values)
    BY <2>2, <2>3 DEF BufferTypes, TypeOK
  <2> QED
    BY <2>2, <2>4
<1> QED
  BY <1>1, BufferedInvariance, PTL

\* With late stores too, try_push writes only when a slot is free, never over
\* an element that was not read (lines 85-95).
THEOREM BufferedPushKeepsUnread == SpecBuffered => []PushNeverOverwrites
<1>1. BufferTypes /\ BufferedInv => PushNeverOverwrites
  <2> SUFFICES ASSUME BufferTypes, BufferedInv, ~collided, p_pc \in {"push_write", "push_store"}
               PROVE  Len(fifo) < Size
    BY DEF PushNeverOverwrites
  <2>1. PICK rel, pub : Holds(pub, rel)
    BY DEF BufferedInv
  <2>2. Entered(pub) < Size
    BY <2>1 DEF Holds, Producer
  <2>3. /\ Taken(rel) \in Nat /\ Entered(pub) \in Nat /\ Len(fifo) \in Nat /\ Size \in Nat
        /\ Entered(pub) = Taken(rel) + Len(fifo)
    BY <2>1, PositionFacts
  <2> QED
    BY <2>2, <2>3
<1> QED
  BY <1>1, BufferedInvariance, PTL

\* The steps that enter a cursor are pushes, pulls and clears of the queue.
LEMMA EntersQueue ==
  ASSUME BufferTypes, BufferedInv, NextBuffered, ~collided'
  PROVE  EntryFifo!Next \/ UNCHANGED fifo
<1>1. ~collided
  BY BufferedCollidedStays
<1>2. PICK rel, pub : Holds(pub, rel)
  BY <1>1 DEF BufferedInv
<1>3. /\ Taken(rel) \in Nat /\ pub[0] \in Nat /\ Entered(pub) \in Nat /\ Len(fifo) \in Nat
      /\ Size \in Nat /\ pub[0] <= Entered(pub) /\ Entered(pub) = Taken(rel) + Len(fifo)
  BY <1>2, PositionFacts
<1>4. fifo \in Seq(Values) /\ c_avail \in Nat
  BY DEF BufferTypes, TypeOK
<1>5. CASE BufferedPushStore
  <2>1. p_pc = "push_store" /\ fifo' = Append(fifo, p_elem) /\ p_elem \in Values
    BY <1>5 DEF BufferedPushStore, BufferTypes, TypeOK
  <2>2. Len(fifo) < Size
    BY <1>2, <1>3, <2>1 DEF Holds, Producer
  <2> QED
    BY <2>1, <2>2 DEF EntryFifo!Next, EntryFifo!Push
<1>6. CASE BufferedPullStore
  <2>1. c_pc = "pull_store" /\ fifo' = IF fifo = <<>> THEN fifo ELSE Tail(fifo)
    BY <1>6 DEF BufferedPullStore
  <2>2. Len(fifo) > 0
    BY <1>2, <1>3, <2>1 DEF Holds, Consumer
  <2> QED
    BY <1>4, <2>1, <2>2 DEF EntryFifo!Next, EntryFifo!Pull
<1>7. CASE BufferedClearStore
  <2>1. c_pc = "clear_store" /\ fifo' = SubSeq(fifo, c_avail + 1, Len(fifo))
    BY <1>7 DEF BufferedClearStore
  <2>2. Taken(rel) + c_avail <= pub[0]
    BY <1>2, <2>1 DEF Holds, Consumer
  <2>3. c_avail \in 0 .. Len(fifo)
    BY <1>3, <1>4, <2>2
  <2> QED
    BY <2>1, <2>3 DEF EntryFifo!Next, EntryFifo!DropOldest
<1>8. CASE ~(BufferedPushStore \/ BufferedPullStore \/ BufferedClearStore)
  BY <1>8 DEF NextBuffered, BufferedProducerStep, BufferedConsumerStep, BufferedPush,
     BufferedPushFlag, BufferedPushRecheck, BufferedPull, BufferedEmpty, BufferedClear,
     BufferedLoad, BufferedPullFlag, BufferedPullRead, BufferedEmptyFlag, PushVisible,
     PullVisible
<1> QED
  BY <1>5, <1>6, <1>7, <1>8

\* With late stores too, the ring implements the bounded queue until a collision:
\* try_push adds only where there is room, try_pull and clear take only what is
\* there (lines 85-95, 105-117 and 134-136).
THEOREM BufferedRefinesFifo == SpecBuffered => EnteredIsFifo
<1>1. InitBuffered => EntryFifo!Init
  BY DEF InitBuffered, Init, EntryFifo!Init
<1>2. BufferTypes /\ BufferedInv /\ [NextBuffered]_all
        => [collided' \/ EntryFifo!Next]_fifo
  BY EntersQueue DEF all, vars
<1> QED
  BY <1>1, <1>2, BufferedInvariance, PTL DEF SpecBuffered, EnteredIsFifo

=============================================================================
