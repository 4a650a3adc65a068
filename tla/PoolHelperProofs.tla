-------------------------- MODULE PoolHelperProofs --------------------------
(***************************************************************************)
(* pool_helper on words of every width: with options that suit it a handle *)
(* decodes to the pool and the block it was made for.                      *)
(***************************************************************************)
EXTENDS HandleNumbers, WellFoundedInduction, TLAPS

\* Every set of natural numbers but the empty one has a least element.
LEMMA LeastExists ==
  ASSUME NEW T \in SUBSET Nat, T # {}
  PROVE  \E x \in T : \A y \in T : x <= y
<1>1. PICK x \in T : \A y \in T : ~(<<y, x>> \in OpToRel(<, Nat))
  BY NatLessThanWellFounded, WFMin
<1>2. \A y \in T : ~(y < x)
  BY <1>1 DEF OpToRel
<1> QED
  BY <1>2

\* Induction over the bits of a word, for the set of the numbers that have
\* a property.
LEMMA SetInduction ==
  ASSUME NEW T \in SUBSET Nat, 0 \in T, \A n \in T : n + 1 \in T
  PROVE  T = Nat
<1> SUFFICES ASSUME T # Nat PROVE FALSE
  OBVIOUS
<1>1. PICK x \in Nat \ T : \A y \in Nat \ T : x <= y
  BY LeastExists
<1>2. x # 0 /\ x - 1 \in Nat
  BY <1>1
<1>3. x - 1 \in T
  BY <1>1, <1>2
<1>4. (x - 1) + 1 \in T
  BY <1>3
<1> QED
  BY <1>1, <1>4

\* A word other than 0 has a highest bit.
LEMMA TopIsHighest ==
  ASSUME NEW w \in Word, w # {}
  PROVE  Top(w) \in w /\ \A c \in w : c <= Top(w)
<1> USE WidthAssumption DEF Word, Bit
<1> DEFINE T == {n \in Nat : \E b \in w : n = Width - 1 - b}
<1>1. T \in SUBSET Nat
  OBVIOUS
<1>2. \A b \in w : Width - 1 - b \in T
  OBVIOUS
<1>3. T # {}
  BY <1>2
<1> HIDE DEF T
<1>4. PICK x \in T : \A y \in T : x <= y
  BY <1>1, <1>3, LeastExists
<1>5. PICK b \in w : x = Width - 1 - b
  BY <1>4 DEF T
<1>6. ASSUME NEW c \in w PROVE c <= b
  <2>1. Width - 1 - c \in T
    BY <1>2
  <2>2. x <= Width - 1 - c
    BY <2>1, <1>4
  <2> QED
    BY <2>2, <1>5
<1> QED
  BY <1>5, <1>6 DEF Top

\* A word other than 0 has a lowest bit.
LEMMA LowIsLowest ==
  ASSUME NEW w \in Word, w # {}
  PROVE  Low(w) \in w /\ \A c \in w : Low(w) <= c
<1>1. w \in SUBSET Nat
  BY WidthAssumption DEF Word, Bit
<1>2. \E x \in w : \A y \in w : x <= y
  BY <1>1, LeastExists
<1> QED
  BY <1>2 DEF Low

\* log2 bounds the bits of a word from above, and no more than that.
LEMMA Log2Bounds ==
  ASSUME NEW w \in Word
  PROVE  /\ log2(w) \in 0 .. Width
         /\ \A b \in w : b < log2(w)
         /\ w # {} => log2(w) - 1 \in w
<1>1. CASE w = {}
  BY <1>1, WidthAssumption DEF log2
<1>2. CASE w # {}
  <2>1. Top(w) \in w /\ \A c \in w : c <= Top(w)
    BY <1>2, TopIsHighest
  <2>2. log2(w) = Top(w) + 1
    BY <1>2 DEF log2
  <2>3. Top(w) \in Bit /\ \A c \in w : c \in Bit
    BY <2>1 DEF Word
  <2>4. log2(w) \in 0 .. Width /\ log2(w) - 1 = Top(w)
    BY <2>2, <2>3, WidthAssumption DEF Bit
  <2>5. ASSUME NEW c \in w PROVE c < log2(w)
    BY <2>1, <2>2, <2>3, WidthAssumption DEF Bit
  <2> QED
    BY <2>1, <2>4, <2>5
<1> QED
  BY <1>1, <1>2

\* pool_capacity - 1 and max_pools - 1 are words.
LEMMA DecIsWord ==
  ASSUME NEW w \in Word
  PROVE  Dec(w) \in Word
<1>1. CASE w = {}
  BY <1>1 DEF Dec, Word
<1>2. CASE w # {}
  <2>1. Low(w) \in Bit
    BY <1>2, LowIsLowest DEF Word
  <2>2. 0 .. Low(w) - 1 \subseteq Bit
    BY <2>1, WidthAssumption DEF Bit
  <2> QED
    BY <1>2, <2>2 DEF Dec, Word
<1> QED
  BY <1>1, <1>2

\* The offset mask of a capacity that is a power of two has all the bits
\* below it, and the shift is their number.
LEMMA DecPower ==
  ASSUME NEW k \in Bit
  PROVE  Dec({k}) = 0 .. k - 1 /\ log2(Dec({k})) = k
<1>1. {k} \in Word /\ {k} # {}
  BY DEF Word
<1>2. Low({k}) = k
  BY <1>1, LowIsLowest
<1>3. Dec({k}) = 0 .. k - 1
  BY <1>2 DEF Dec
<1>4. Dec({k}) \in Word
  BY <1>1, DecIsWord
<1>5. CASE k = 0
  <2>1. Dec({k}) = {}
    BY <1>3, <1>5
  <2> QED
    BY <2>1, <1>3, <1>5 DEF log2
<1>6. CASE k # 0
  <2>1. k - 1 \in Dec({k}) /\ k \in Nat
    BY <1>3, <1>6, WidthAssumption DEF Bit
  <2>2. k - 1 < log2(Dec({k})) /\ log2(Dec({k})) - 1 \in Dec({k})
        /\ log2(Dec({k})) \in 0 .. Width
    BY <2>1, <1>4, Log2Bounds
  <2> QED
    BY <1>3, <2>1, <2>2
<1> QED
  BY <1>3, <1>5, <1>6

\* An offset below a capacity that is a power of two has only lower bits.
LEMMA OffsetBits ==
  ASSUME NEW k \in Bit, NEW o \in Word, Less(o, {k})
  PROVE  o \subseteq 0 .. k - 1
BY WidthAssumption DEF Less, Word, Bit

\* An index below max_pools has no more bits than max_pools - 1.
LEMMA IndexBits ==
  ASSUME NEW m \in Word, m # {}, NEW i \in Word, Less(i, m), NEW c \in i
  PROVE  c < log2(Dec(m))
<1>1. Dec(m) \in Word
  BY DecIsWord
<1>2. \A b \in Dec(m) : b < log2(Dec(m))
  BY <1>1, Log2Bounds
<1>3. Low(m) \in m /\ \A b \in m : Low(m) <= b
  BY LowIsLowest
<1>4. Dec(m) = (m \ {Low(m)}) \cup 0 .. Low(m) - 1
  BY DEF Dec
<1>5. PICK b \in m \ i : \A d \in i \ m : d < b
  BY DEF Less
<1>6. c \in Nat /\ b \in Nat /\ Low(m) \in Nat /\ log2(Dec(m)) \in 0 .. Width
  <2>1. c \in Bit /\ b \in Bit /\ Low(m) \in Bit
    BY <1>3, <1>5 DEF Word
  <2>2. log2(Dec(m)) \in 0 .. Width
    BY <1>1, Log2Bounds
  <2> QED
    BY <2>1, <2>2, WidthAssumption DEF Bit
<1>7. CASE b # Low(m)
  <2>1. b < log2(Dec(m))
    BY <1>2, <1>4, <1>5, <1>7
  <2>2. CASE c \in m
    <3>1. CASE c = Low(m)
      BY <3>1, <2>1, <1>3, <1>5, <1>6, WidthAssumption
    <3>2. CASE c # Low(m)
      BY <3>2, <2>2, <1>2, <1>4
    <3> QED
      BY <3>1, <3>2
  <2>3. CASE c \notin m
    <3>1. c < b
      BY <2>3, <1>5
    <3> QED
      BY <3>1, <2>1, <1>6, WidthAssumption
  <2> QED
    BY <2>2, <2>3
<1>8. CASE b = Low(m)
  <2>1. CASE c \in m
    BY <2>1, <1>2, <1>4, <1>5, <1>8
  <2>2. CASE c \notin m
    <3>1. c < Low(m)
      BY <2>2, <1>5, <1>8
    <3>2. c \in Dec(m)
      BY <3>1, <1>4, <1>6
    <3> QED
      BY <3>2, <1>2
  <2> QED
    BY <2>1, <2>2
<1> QED
  BY <1>7, <1>8

\* Every mask a build may end up with is a word.
LEMMA MasksAreWords ==
  ASSUME NEW offsets \in Word, NEW limit \in Word, NEW mask \in PoolMasks(offsets, limit)
  PROVE  mask \in Word
<1>1. \A w \in Word : Shl(w, log2(limit)) \in Word /\ Shr(w, log2(limit)) \in Word
                      /\ {} \in Word /\ Bit \ w \in Word
  BY DEF Shl, Shr, Word
<1>2. \A v, w \in Word : Outcomes(v, w, log2(limit)) \subseteq Word
  BY <1>1 DEF Outcomes
<1>3. Outcomes(Shl(Bit \ offsets, log2(limit)), Bit \ offsets, log2(limit)) \subseteq Word
  BY <1>1, <1>2
<1>4. PICK w \in Word : mask \in Outcomes(Shr(w, log2(limit)), w, log2(limit))
  BY <1>3 DEF PoolMasks
<1> QED
  BY <1>1, <1>2, <1>4

\* The mask of suitable options: the bits above the offset whose shift by the
\* length of max_pools stays in the word.
LEMMA RegularMask ==
  ASSUME NEW k \in Bit, NEW limit \in Word, log2(limit) < Width,
         NEW mask \in PoolMasks(0 .. k - 1, limit)
  PROVE  mask = {b \in Bit : k <= b /\ b + log2(limit) < Width}
<1> DEFINE n == log2(limit)
<1>1. n \in Nat /\ n < Width
  BY Log2Bounds
<1> HIDE DEF n
<1>2. mask = Shr(Shl(Bit \ 0 .. k - 1, n), n)
  BY <1>1 DEF PoolMasks, Outcomes, n
<1>3. mask = {b \in Bit : b + n \in Bit /\ (b + n) - n \in Bit \ 0 .. k - 1}
  BY <1>2 DEF Shl, Shr
<1>4. mask = {b \in Bit : k <= b /\ b + n < Width}
  BY <1>1, <1>3, WidthAssumption DEF Bit
<1> QED
  BY <1>4 DEF n

-----------------------------------------------------------------------------
\* The helper is as its constructor left it, and the last handle was made
\* from an index and an offset within the options.
Inv ==
  /\ TypeOK
  /\ pool_capacity # {} /\ max_pools # {}
  /\ Construct
  /\ Less(index, max_pools) /\ Less(offset, pool_capacity)
  /\ handle = make_handle(index, offset)

\* With a capacity that is a power of two, extract_pool and extract_offset
\* undo make_handle for every index that ends below the bits the constructor
\* cleared from the mask.
LEMMA WordsDecode ==
  ASSUME Inv, NEW k \in Bit, pool_capacity = {k}, log2(max_pools) < Width,
         NEW d \in Nat, k + d + log2(max_pools) <= Width,
         NEW i \in Word, \A c \in i : c < d,
         NEW o \in Word, o \subseteq 0 .. k - 1
  PROVE  /\ extract_pool(make_handle(i, o)) = i
         /\ extract_offset(make_handle(i, o)) = o
<1> USE WidthAssumption
<1> DEFINE n == log2(max_pools)
           h == make_handle(i, o)
<1>1. n \in 0 .. Width /\ n < Width /\ k + d + n <= Width
  BY Log2Bounds DEF Inv, TypeOK
<1>2. offset_mask = 0 .. k - 1 /\ pool_shift = k
  BY DecPower DEF Inv, Construct
<1>3. pool_mask = {b \in Bit : k <= b /\ b + n < Width}
  BY <1>2, RegularMask DEF Inv, TypeOK, Construct
<1>4. \A c \in i : c < d /\ c \in Bit
  BY DEF Word
<1>5. h = {b \in Bit : b - k \in i} \cup o
  BY <1>2 DEF make_handle, Shl
<1> HIDE DEF n, h
<1>6. extract_pool(h) = i
  <2>1. extract_pool(h) = {b \in Bit : b + k \in h /\ b + k \in pool_mask}
    BY <1>2 DEF extract_pool, Shr
  <2>2. ASSUME NEW b \in Bit, b + k \in h, b + k \in pool_mask PROVE b \in i
    <3>1. b + k \notin o
      BY DEF Bit
    <3>2. (b + k) - k \in i
      BY <2>2, <3>1, <1>5
    <3> QED
      BY <3>2 DEF Bit
  <2>3. ASSUME NEW b \in i PROVE b \in Bit /\ b + k \in h /\ b + k \in pool_mask
    <3>1. b \in Bit /\ b < d
      BY <1>4
    <3>2. b + k \in Bit /\ (b + k) - k = b /\ k <= b + k /\ (b + k) + n < Width
      BY <3>1, <1>1 DEF Bit
    <3> QED
      BY <3>1, <3>2, <1>3, <1>5
  <2> QED
    BY <2>1, <2>2, <2>3
<1>7. extract_offset(h) = o
  <2>1. ASSUME NEW b \in Bit, b - k \in i PROVE b \notin 0 .. k - 1
    <3>1. b - k \in Bit
      BY <2>1, <1>4
    <3> QED
      BY <3>1 DEF Bit
  <2> QED
    BY <2>1, <1>2, <1>5 DEF extract_offset
<1> QED
  BY <1>6, <1>7 DEF h

\* What Regular says of the last handle: the bits of its index and its
\* offset, and how far the index may reach.
LEMMA RegularBits ==
  ASSUME Inv, Regular
  PROVE  \E k \in Bit, d \in Nat :
           /\ pool_capacity = {k} /\ log2(max_pools) < Width
           /\ k + d + log2(max_pools) <= Width /\ k + d <= Width
           /\ \A c \in index : c < d
           /\ offset \subseteq 0 .. k - 1
<1> DEFINE d == log2(Dec(max_pools))
<1>1. PICK k \in Bit : pool_capacity = {k} /\ k + d + log2(max_pools) <= Width
  BY DEF Regular
<1>2. /\ index \in Word /\ offset \in Word /\ max_pools \in Word
      /\ log2(max_pools) \in Nat /\ d \in Nat
  BY DecIsWord, Log2Bounds DEF Inv, TypeOK
<1>3. \A c \in index : c < d
  BY <1>2, IndexBits DEF Inv
<1>4. offset \subseteq 0 .. k - 1
  BY <1>1, <1>2, OffsetBits DEF Inv
<1>5. log2(max_pools) < Width
  BY DEF Regular
<1> HIDE DEF d
<1>6. k + d <= Width
  BY <1>1, <1>2, WidthAssumption DEF Bit
<1> QED
  BY <1>1, <1>2, <1>3, <1>4, <1>5, <1>6

\* With options that suit the helper, extract_pool and extract_offset undo
\* make_handle.
LEMMA InvDecodes == Inv /\ Regular => Decodes
<1> SUFFICES ASSUME Inv, Regular PROVE Decodes
  OBVIOUS
<1>1. PICK k \in Bit, d \in Nat :
        /\ pool_capacity = {k} /\ log2(max_pools) < Width
        /\ k + d + log2(max_pools) <= Width
        /\ \A c \in index : c < d
        /\ offset \subseteq 0 .. k - 1
  BY RegularBits
<1>2. index \in Word /\ offset \in Word /\ handle = make_handle(index, offset)
  BY DEF Inv, TypeOK
<1> QED
  BY <1>1, <1>2, WordsDecode DEF Decodes

\* The constructor of pool_helper and every make_handle keep the invariant.
THEOREM Invariance == Spec => []Inv
<1> USE WidthAssumption, HelperAssumption
<1>1. Init => Inv
  <2> SUFFICES ASSUME Init PROVE Inv
    OBVIOUS
  <2>1. pool_capacity \in Word /\ pool_capacity # {} /\ max_pools \in Word /\ max_pools # {}
    BY DEF Init
  <2>2. offset_mask \in Word /\ pool_shift \in 0 .. Width
    BY <2>1, DecIsWord, Log2Bounds DEF Init, Construct
  <2>3. pool_mask \in Word
    BY <2>1, <2>2, MasksAreWords DEF Init, Construct
  <2>4. {} \in Word /\ Less({}, max_pools) /\ Less({}, pool_capacity)
    BY <2>1 DEF Less, Word
  <2>5. handle = make_handle(index, offset)
    BY DEF Init, make_handle, Shl
  <2> QED
    BY <2>1, <2>2, <2>3, <2>4, <2>5 DEF Init, Inv, TypeOK
<1>2. Inv /\ [Next]_vars => Inv'
  <2> SUFFICES ASSUME Inv, [Next]_vars PROVE Inv'
    OBVIOUS
  <2>1. CASE UNCHANGED vars
    BY <2>1 DEF vars, options, helper, Inv, TypeOK, Construct, make_handle
  <2>2. ASSUME NEW i \in Word, NEW o \in Word, MakeHandle(i, o) PROVE Inv'
    <3>1. UNCHANGED <<pool_capacity, max_pools, offset_mask, pool_mask, pool_shift>>
          /\ index' = i /\ offset' = o
      BY <2>2 DEF MakeHandle, options, helper
    <3>2. handle' = make_handle(i, o) /\ handle' \in Word
      BY <2>2 DEF MakeHandle, make_handle, Shl, Word
    <3>3. handle' = make_handle(index, offset)'
      BY <3>1, <3>2 DEF make_handle
    <3>4. Less(i, max_pools) /\ Less(o, pool_capacity)
      BY <2>2 DEF MakeHandle
    <3>5. TypeOK'
      BY <3>1, <3>2 DEF Inv, TypeOK
    <3>6. Construct'
      BY <3>1 DEF Inv, Construct
    <3> QED
      BY <3>1, <3>3, <3>4, <3>5, <3>6 DEF Inv
  <2> QED
    BY <2>1, <2>2 DEF Next
<1> QED
  BY <1>1, <1>2, PTL DEF Spec

\* The members and the handles of pool_helper stay within a word, also where
\* a shift by the whole width leaves a mask that is undefined.
THEOREM TypeCorrect == Spec => []TypeOK
BY Invariance, PTL DEF Inv

\* get and destroy find the block construct handed out, for handles of every
\* width, with options that suit the helper.
THEOREM HandlesDecode == Spec => []RegularHandleDecodes
<1>1. Inv => RegularHandleDecodes
  BY InvDecodes DEF RegularHandleDecodes
<1> QED
  BY <1>1, Invariance, PTL

-----------------------------------------------------------------------------
\* A function defined from its value one below exists.
LEMMA NatRecursion ==
  ASSUME NEW base \in Nat, NEW f \in [Nat -> [Nat -> Nat]]
  PROVE  \E g \in [Nat -> Nat] : g[0] = base /\ \A n \in Nat : g[n + 1] = f[n][g[n]]
<1> DEFINE Upto(n, g) == /\ g \in [0 .. n -> Nat] /\ g[0] = base
                         /\ \A m \in 0 .. n - 1 : g[m + 1] = f[m][g[m]]
           A == {m \in Nat : \A n, p \in Nat :
                               \A g \in [0 .. n -> Nat], h \in [0 .. p -> Nat] :
                                 Upto(n, g) /\ Upto(p, h) /\ m <= n /\ m <= p => g[m] = h[m]}
           E == {n \in Nat : \E g \in [0 .. n -> Nat] : Upto(n, g)}
<1>1. A = Nat
  <2>1. 0 \in A
    OBVIOUS
  <2> HIDE DEF Upto
  <2>2. ASSUME NEW m \in A PROVE m + 1 \in A
    <3>1. m \in Nat /\ m + 1 \in Nat
      OBVIOUS
    <3> SUFFICES ASSUME NEW n \in Nat, NEW p \in Nat, NEW g \in [0 .. n -> Nat],
                        NEW h \in [0 .. p -> Nat], Upto(n, g) /\ Upto(p, h) /\ m + 1 <= n /\ m + 1 <= p
                 PROVE  g[m + 1] = h[m + 1]
      BY <3>1, Zenon
    <3>2. m <= n /\ m <= p /\ m \in 0 .. n - 1 /\ m \in 0 .. p - 1
      BY <3>1
    <3>3. g[m] = h[m]
      BY <3>2
    <3>4. g[m + 1] = f[m][g[m]] /\ h[m + 1] = f[m][h[m]]
      BY <3>2 DEF Upto
    <3> QED
      BY <3>3, <3>4
  <2> HIDE DEF A
  <2>3. A \in SUBSET Nat
    BY DEF A
  <2> QED
    BY <2>1, <2>2, <2>3, SetInduction
<1>2. E = Nat
  <2>1. 0 \in E
    <3>1. Upto(0, [j \in 0 .. 0 |-> base])
      OBVIOUS
    <3> QED
      BY <3>1
  <2> HIDE DEF E
  <2>2. ASSUME NEW n \in Nat, NEW g \in [0 .. n -> Nat], Upto(n, g)
        PROVE  \E h \in [0 .. n + 1 -> Nat] : Upto(n + 1, h)
    <3> DEFINE h == [j \in 0 .. n + 1 |-> IF j = n + 1 THEN f[n][g[n]] ELSE g[j]]
    <3>1. f[n][g[n]] \in Nat
      <4>1. g[n] \in Nat
        OBVIOUS
      <4>2. f[n] \in [Nat -> Nat]
        OBVIOUS
      <4> QED
        BY <4>1, <4>2
    <3>2. h \in [0 .. n + 1 -> Nat]
      <4>1. ASSUME NEW j \in 0 .. n + 1 PROVE (IF j = n + 1 THEN f[n][g[n]] ELSE g[j]) \in Nat
        <5>1. CASE j = n + 1
          BY <3>1, <5>1
        <5>2. CASE j # n + 1
          <6>1. j \in 0 .. n
            BY <5>2
          <6>2. g[j] \in Nat
            BY <6>1
          <6> QED
            BY <5>2, <6>2
        <5> QED
          BY <5>1, <5>2
      <4> QED
        BY <4>1
    <3>3. h[0] = base
      BY <2>2
    <3>4. ASSUME NEW m \in 0 .. n PROVE h[m + 1] = f[m][h[m]]
      <4>1. h[m] = g[m]
        OBVIOUS
      <4>2. CASE m = n
        <5>1. h[m + 1] = f[n][g[n]]
          BY <4>2
        <5> QED
          BY <5>1, <4>1, <4>2
      <4>3. CASE m # n
        <5>1. m \in 0 .. n - 1 /\ h[m + 1] = g[m + 1]
          BY <4>3
        <5> QED
          BY <5>1, <4>1, <2>2
      <4> QED
        BY <4>2, <4>3
    <3> HIDE DEF h
    <3>5. (n + 1) - 1 = n
      OBVIOUS
    <3>6. Upto(n + 1, h)
      BY <3>2, <3>3, <3>4, <3>5
    <3> HIDE DEF Upto
    <3> QED
      BY <3>2, <3>6
  <2>3. ASSUME NEW n \in E PROVE n + 1 \in E
    <3> HIDE DEF Upto
    <3>1. n \in Nat /\ n + 1 \in Nat
      BY DEF E
    <3>2. PICK g \in [0 .. n -> Nat] : Upto(n, g)
      BY DEF E
    <3>3. \E h \in [0 .. n + 1 -> Nat] : Upto(n + 1, h)
      BY <3>1, <3>2, <2>2
    <3> QED
      BY <3>1, <3>3 DEF E
  <2>4. E \in SUBSET Nat
    BY DEF E
  <2> QED
    BY <2>1, <2>3, <2>4, SetInduction
<1> DEFINE part == [n \in Nat |-> CHOOSE g \in [0 .. n -> Nat] : Upto(n, g)]
           whole == [n \in Nat |-> part[n][n]]
<1> HIDE DEF Upto
<1>3. \A n \in Nat : part[n] \in [0 .. n -> Nat] /\ Upto(n, part[n])
  <2> SUFFICES ASSUME NEW n \in Nat PROVE part[n] \in [0 .. n -> Nat] /\ Upto(n, part[n])
    OBVIOUS
  <2>1. \E g \in [0 .. n -> Nat] : Upto(n, g)
    BY <1>2
  <2> QED
    BY <2>1
<1>4. \A m, n, p \in Nat : \A g \in [0 .. n -> Nat], h \in [0 .. p -> Nat] :
         Upto(n, g) /\ Upto(p, h) /\ m <= n /\ m <= p => g[m] = h[m]
  BY <1>1
<1> HIDE DEF part, A, E
<1>5. whole \in [Nat -> Nat]
  <2>1. ASSUME NEW n \in Nat PROVE part[n][n] \in Nat
    <3>1. part[n] \in [0 .. n -> Nat]
      BY <1>3, Zenon
    <3>2. n \in 0 .. n
      OBVIOUS
    <3> QED
      BY <3>1, <3>2
  <2> QED
    BY <2>1
<1>6. whole[0] = base
  BY <1>3 DEF Upto
<1>7. ASSUME NEW n \in Nat PROVE whole[n + 1] = f[n][whole[n]]
  <2>1. n + 1 \in Nat /\ n <= n + 1 /\ n <= n /\ n \in 0 .. (n + 1) - 1
    OBVIOUS
  <2>2. Upto(n, part[n]) /\ part[n] \in [0 .. n -> Nat]
    BY <1>3
  <2>3. Upto(n + 1, part[n + 1]) /\ part[n + 1] \in [0 .. n + 1 -> Nat]
    BY <1>3, <2>1
  <2>4. part[n][n] = part[n + 1][n]
    BY <2>1, <2>2, <2>3, <1>4
  <2>5. part[n + 1][n + 1] = f[n][part[n + 1][n]]
    BY <2>1, <2>3 DEF Upto
  <2> QED
    BY <2>1, <2>4, <2>5
<1> HIDE DEF whole
<1> QED
  BY <1>5, <1>6, <1>7

\* The powers of two, and how they multiply.
LEMMA Pow2Step ==
  /\ pow2[0] = 1
  /\ \A n \in Nat : pow2[n] \in Nat \ {0} /\ pow2[n + 1] = 2 * pow2[n]
<1> DEFINE f == [n \in Nat |-> [v \in Nat |-> 2 * v]]
<1>1. f \in [Nat -> [Nat -> Nat]] /\ \A n, v \in Nat : f[n][v] = 2 * v
  OBVIOUS
<1> HIDE DEF f
<1>2. PICK F \in [Nat -> Nat] : F[0] = 1 /\ \A n \in Nat : F[n + 1] = f[n][F[n]]
  <2>1. 1 \in Nat
    OBVIOUS
  <2> QED
    BY <2>1, <1>1, NatRecursion, Zenon
<1>3. \A n \in Nat : F[n + 1] = 2 * F[n]
  BY <1>1, <1>2
<1>4. F = [n \in Nat |-> IF n = 0 THEN 1 ELSE 2 * F[n - 1]]
  BY <1>2, <1>3
<1>5. pow2 = [n \in Nat |-> IF n = 0 THEN 1 ELSE 2 * pow2[n - 1]]
  BY <1>4 DEF pow2
<1>6. pow2[0] = 1 /\ \A n \in Nat : pow2[n + 1] = 2 * pow2[n]
  BY <1>5
<1> DEFINE T == {n \in Nat : pow2[n] \in Nat \ {0}}
<1>7. 0 \in T /\ \A n \in T : n + 1 \in T
  BY <1>6
<1>8. T = Nat
  <2> HIDE DEF T
  <2>1. T \in SUBSET Nat
    BY DEF T
  <2> QED
    BY <1>7, <2>1, SetInduction
<1>9. \A n \in Nat : pow2[n] \in Nat \ {0}
  BY <1>8
<1> QED
  BY <1>6, <1>9

LEMMA Pow2Adds ==
  ASSUME NEW k \in Nat, NEW n \in Nat
  PROVE  pow2[k + n] = pow2[k] * pow2[n]
<1> DEFINE T == {j \in Nat : pow2[k + j] = pow2[k] * pow2[j]}
<1>1. 0 \in T
  BY Pow2Step
<1>2. ASSUME NEW j \in T PROVE j + 1 \in T
  <2>1. pow2[k + (j + 1)] = 2 * pow2[k + j] /\ pow2[j + 1] = 2 * pow2[j]
    <3>1. k + (j + 1) = (k + j) + 1 /\ k + j \in Nat
      OBVIOUS
    <3> QED
      BY <3>1, Pow2Step
  <2>2. pow2[k + j] = pow2[k] * pow2[j] /\ pow2[k] \in Nat /\ pow2[j] \in Nat
    BY Pow2Step
  <2>3. 2 * (pow2[k] * pow2[j]) = pow2[k] * (2 * pow2[j])
    BY <2>2
  <2> QED
    BY <2>1, <2>2, <2>3
<1> HIDE DEF T
<1>3. T = Nat
  <2>1. T \in SUBSET Nat
    BY DEF T
  <2> QED
    BY <1>1, <1>2, <2>1, SetInduction
<1> QED
  BY <1>3 DEF T

\* The value of the lowest bits of a word, from one bit to the next.
LEMMA LowestStep ==
  ASSUME NEW w
  PROVE  /\ Lowest(w)[0] = 0
         /\ \A n \in Nat : /\ Lowest(w)[n] \in Nat
                           /\ Lowest(w)[n + 1] = Lowest(w)[n] + (IF n \in w THEN pow2[n] ELSE 0)
<1> DEFINE bit(n) == IF n \in w THEN pow2[n] ELSE 0
           f == [n \in Nat |-> [v \in Nat |-> v + bit(n)]]
<1>0. \A n \in Nat : bit(n) \in Nat
  BY Pow2Step
<1> HIDE DEF bit
<1>1. f \in [Nat -> [Nat -> Nat]] /\ \A n, v \in Nat : f[n][v] = v + bit(n)
  BY <1>0
<1> HIDE DEF f
<1>2. PICK F \in [Nat -> Nat] : F[0] = 0 /\ \A n \in Nat : F[n + 1] = f[n][F[n]]
  BY <1>1, NatRecursion
<1>3. \A n \in Nat : F[n + 1] = F[n] + bit(n)
  BY <1>1, <1>2
<1>4. F = [n \in Nat |-> IF n = 0 THEN 0 ELSE F[n - 1] + bit(n - 1)]
  BY <1>2, <1>3
<1>5. Lowest(w) = [n \in Nat |-> IF n = 0 THEN 0 ELSE Lowest(w)[n - 1] + bit(n - 1)]
  BY <1>4 DEF Lowest, bit
<1>6. Lowest(w)[0] = 0 /\ \A n \in Nat : Lowest(w)[n + 1] = Lowest(w)[n] + bit(n)
  BY <1>5
<1> DEFINE T == {n \in Nat : Lowest(w)[n] \in Nat}
<1>7. 0 \in T /\ \A n \in T : n + 1 \in T
  BY <1>0, <1>6
<1>8. T = Nat
  <2> HIDE DEF T
  <2>1. T \in SUBSET Nat
    BY DEF T
  <2> QED
    BY <1>7, <2>1, SetInduction
<1>9. \A n \in Nat : Lowest(w)[n] \in Nat
  BY <1>8
<1> QED
  BY <1>6, <1>9 DEF bit

\* The lowest n bits are below the bit that follows them.
LEMMA LowestBound ==
  ASSUME NEW w, NEW n \in Nat
  PROVE  Lowest(w)[n] < pow2[n]
<1> DEFINE T == {j \in Nat : Lowest(w)[j] < pow2[j]}
<1>1. 0 \in T
  BY Pow2Step, LowestStep
<1>2. ASSUME NEW j \in T PROVE j + 1 \in T
  <2>1. j \in Nat /\ Lowest(w)[j] < pow2[j]
    OBVIOUS
  <2>2. Lowest(w)[j] \in Nat /\ pow2[j] \in Nat /\ pow2[j + 1] = 2 * pow2[j]
    BY <2>1, Pow2Step, LowestStep
  <2>3. Lowest(w)[j + 1] = Lowest(w)[j] \/ Lowest(w)[j + 1] = Lowest(w)[j] + pow2[j]
    BY <2>1, <2>2, LowestStep
  <2>4. Lowest(w)[j + 1] < pow2[j + 1]
    BY <2>1, <2>2, <2>3
  <2> QED
    BY <2>1, <2>4
<1> HIDE DEF T
<1>3. T = Nat
  <2>1. T \in SUBSET Nat
    BY DEF T
  <2> QED
    BY <1>1, <1>2, <2>1, SetInduction
<1> QED
  BY <1>3 DEF T

\* A word v that holds the bits of w from bit k on: its value below k + n is
\* what it has below k and w's value below n, k places up.
LEMMA LowestShift ==
  ASSUME NEW v, NEW w, NEW k \in Nat, NEW n \in Nat,
         \A b \in 0 .. n - 1 : k + b \in v <=> b \in w
  PROVE  Lowest(v)[k + n] = Lowest(v)[k] + pow2[k] * Lowest(w)[n]
<1> DEFINE T == {j \in Nat : j <= n => Lowest(v)[k + j] = Lowest(v)[k] + pow2[k] * Lowest(w)[j]}
<1>0. /\ Lowest(v)[k] \in Nat /\ pow2[k] \in Nat
      /\ \A j \in Nat : Lowest(w)[j] \in Nat /\ pow2[j] \in Nat
  BY LowestStep, Pow2Step
<1>1. 0 \in T
  <2>1. Lowest(w)[0] = 0 /\ k + 0 = k
    BY LowestStep
  <2>2. Lowest(v)[k] = Lowest(v)[k] + pow2[k] * 0
    BY <1>0
  <2> QED
    BY <2>1, <2>2
<1>2. ASSUME NEW j \in T PROVE j + 1 \in T
  <2> SUFFICES ASSUME j + 1 <= n
               PROVE  Lowest(v)[k + (j + 1)] = Lowest(v)[k] + pow2[k] * Lowest(w)[j + 1]
    OBVIOUS
  <2>1. j \in Nat /\ j <= n /\ j \in 0 .. n - 1 /\ k + j \in Nat /\ k + (j + 1) = (k + j) + 1
    OBVIOUS
  <2>2. Lowest(v)[k + j] = Lowest(v)[k] + pow2[k] * Lowest(w)[j]
    BY <2>1
  <2>3. Lowest(v)[k + (j + 1)] = Lowest(v)[k + j] + (IF k + j \in v THEN pow2[k + j] ELSE 0)
    BY <2>1, LowestStep
  <2>4. Lowest(w)[j + 1] = Lowest(w)[j] + (IF j \in w THEN pow2[j] ELSE 0)
    BY <2>1, LowestStep
  <2>5. pow2[k + j] = pow2[k] * pow2[j]
    BY <2>1, Pow2Adds
  <2>6. k + j \in v <=> j \in w
    BY <2>1
  <2> HIDE DEF T
  <2>7. Lowest(w)[j] \in Nat /\ pow2[j] \in Nat
    BY <1>0, <2>1
  <2>8. CASE j \in w
    <3>1. Lowest(v)[k + (j + 1)] = Lowest(v)[k] + pow2[k] * Lowest(w)[j] + pow2[k] * pow2[j]
      BY <2>2, <2>3, <2>5, <2>6, <2>8
    <3>2. Lowest(w)[j + 1] = Lowest(w)[j] + pow2[j]
      BY <2>4, <2>8
    <3>3. pow2[k] * (Lowest(w)[j] + pow2[j]) = pow2[k] * Lowest(w)[j] + pow2[k] * pow2[j]
      BY <1>0, <2>7
    <3>4. pow2[k] * Lowest(w)[j] \in Nat /\ pow2[k] * pow2[j] \in Nat
      BY <1>0, <2>7
    <3> QED
      BY <1>0, <3>1, <3>2, <3>3, <3>4
  <2>9. CASE j \notin w
    <3>1. Lowest(v)[k + (j + 1)] = Lowest(v)[k + j] + 0 /\ Lowest(w)[j + 1] = Lowest(w)[j] + 0
      BY <2>3, <2>4, <2>6, <2>9
    <3>2. Lowest(v)[k + j] \in Nat
      BY <2>1, LowestStep
    <3> QED
      BY <3>1, <3>2, <2>2, <2>7
  <2> QED
    BY <2>8, <2>9
<1> HIDE DEF T
<1>3. T = Nat
  <2>1. T \in SUBSET Nat
    BY DEF T
  <2> QED
    BY <1>1, <1>2, <2>1, SetInduction
<1> QED
  BY <1>3 DEF T

\* A word that ends below bit k has its value there.
LEMMA LowestSettles ==
  ASSUME NEW w, NEW k \in Nat, NEW n \in Nat, k <= n, \A b \in w : b < k
  PROVE  Lowest(w)[n] = Lowest(w)[k]
<1>1. PICK j \in Nat : n = k + j
  <2>1. n - k \in Nat /\ n = k + (n - k)
    OBVIOUS
  <2> QED
    BY <2>1
<1>2. \A b \in 0 .. j - 1 : k + b \in w <=> b \in {}
  <2> SUFFICES ASSUME NEW b \in 0 .. j - 1, k + b \in w PROVE FALSE
    OBVIOUS
  <2>1. k + b < k
    OBVIOUS
  <2> QED
    BY <2>1
<1>3. Lowest(w)[k + j] = Lowest(w)[k] + pow2[k] * Lowest({})[j]
  BY <1>2, LowestShift
<1>4. Lowest({})[j] = 0
  <2> DEFINE T == {m \in Nat : Lowest({})[m] = 0}
  <2>1. 0 \in T /\ \A m \in T : m + 1 \in T
    BY LowestStep
  <2> HIDE DEF T
  <2>2. T = Nat
    <3>1. T \in SUBSET Nat
      BY DEF T
    <3> QED
      BY <2>1, <3>1, SetInduction
  <2> QED
    BY <2>2 DEF T
<1>5. Lowest(w)[k] \in Nat /\ pow2[k] \in Nat
  BY LowestStep, Pow2Step
<1> QED
  BY <1>1, <1>3, <1>4, <1>5

\* The value of a word with one bit.
LEMMA ValueOfBit ==
  ASSUME NEW k \in Bit
  PROVE  Value({k}) = pow2[k]
<1>1. k \in Nat /\ k + 1 \in Nat /\ k + 1 <= Width /\ Width \in Nat
  BY WidthAssumption DEF Bit
<1>2. Lowest({k})[Width] = Lowest({k})[k + 1]
  BY <1>1, LowestSettles
<1>3. Lowest({k})[k] = 0
  <2> DEFINE T == {j \in Nat : j <= k => Lowest({k})[j] = 0}
  <2>1. 0 \in T /\ \A j \in T : j + 1 \in T
    BY <1>1, LowestStep
  <2> HIDE DEF T
  <2>2. T = Nat
    <3>1. T \in SUBSET Nat
      BY DEF T
    <3> QED
      BY <2>1, <3>1, SetInduction
  <2> QED
    BY <1>1, <2>2 DEF T
<1>4. Lowest({k})[k + 1] = 0 + pow2[k]
  BY <1>1, <1>3, LowestStep
<1> QED
  BY <1>1, <1>2, <1>4, Pow2Step DEF Value

\* Division with remainder by a power of two.
LEMMA DivMod ==
  ASSUME NEW a \in Nat, NEW m \in Nat, NEW r \in Nat, r < m
  PROVE  (a * m + r) \div m = a /\ (a * m + r) % m = r
OBVIOUS

\* An index shifted past the offset and put together with it is index times
\* capacity plus offset, as long as no bit of the index leaves the word.
LEMMA HandleValue ==
  ASSUME NEW k \in Bit, NEW i \in Word, NEW o \in Word, o \subseteq 0 .. k - 1,
         NEW d \in Nat, k + d <= Width, \A c \in i : c < d
  PROVE  /\ Value(Shl(i, k) \cup o) = Value(i) * pow2[k] + Value(o)
         /\ Value(i) \in Nat /\ Value(o) \in Nat /\ Value(o) < pow2[k]
<1> DEFINE h == Shl(i, k) \cup o
<1>1. k \in Nat /\ Width \in Nat /\ k <= Width /\ d <= Width
  BY WidthAssumption DEF Bit
<1>2. PICK j \in Nat : Width = k + j
  <2>1. Width - k \in Nat /\ Width = k + (Width - k)
    BY <1>1
  <2> QED
    BY <2>1
<1>3. d <= j
  BY <1>1, <1>2
<1>4. \A b \in 0 .. j - 1 : k + b \in h <=> b \in i
  <2> SUFFICES ASSUME NEW b \in 0 .. j - 1 PROVE k + b \in h <=> b \in i
    OBVIOUS
  <2>1. k + b \in Bit /\ (k + b) - k = b /\ k + b \notin 0 .. k - 1
    BY <1>1, <1>2 DEF Bit
  <2> QED
    BY <2>1 DEF Shl
<1>5. \A b \in 0 .. k - 1 : 0 + b \in h <=> b \in o
  <2> SUFFICES ASSUME NEW b \in 0 .. k - 1, b - k \in i PROVE FALSE
    BY <1>1 DEF Shl
  <2>1. b - k \in Bit
    BY DEF Word
  <2> QED
    BY <2>1, <1>1 DEF Bit
<1>6. Lowest(h)[k + j] = Lowest(h)[k] + pow2[k] * Lowest(i)[j]
  <2> HIDE DEF h
  <2> QED
    BY <1>1, <1>4, LowestShift
<1>7. Lowest(h)[k] = Lowest(o)[k]
  <2> HIDE DEF h
  <2>1. 0 \in Nat /\ 0 + k = k
    BY <1>1
  <2>2. Lowest(h)[0 + k] = Lowest(h)[0] + pow2[0] * Lowest(o)[k]
    BY <1>1, <1>5, <2>1, LowestShift
  <2>3. Lowest(h)[0] = 0 /\ pow2[0] = 1 /\ Lowest(o)[k] \in Nat
    BY <1>1, LowestStep, Pow2Step
  <2> QED
    BY <2>1, <2>2, <2>3
<1>8. Lowest(o)[Width] = Lowest(o)[k]
  <2>1. \A b \in o : b < k
    BY <1>1
  <2> QED
    BY <1>1, <2>1, LowestSettles
<1>9. Lowest(i)[j] = Lowest(i)[Width]
  <2>1. Lowest(i)[j] = Lowest(i)[d]
    BY <1>3, LowestSettles
  <2>2. Lowest(i)[Width] = Lowest(i)[d]
    BY <1>1, LowestSettles
  <2> QED
    BY <2>1, <2>2
<1>10. Lowest(o)[k] < pow2[k] /\ Lowest(o)[k] \in Nat /\ Lowest(i)[Width] \in Nat /\ pow2[k] \in Nat
  BY <1>1, LowestBound, LowestStep, Pow2Step
<1>11. Lowest(h)[Width] = Lowest(i)[Width] * pow2[k] + Lowest(o)[Width]
  <2> HIDE DEF h
  <2>1. Lowest(h)[Width] = Lowest(o)[k] + pow2[k] * Lowest(i)[Width]
    BY <1>2, <1>6, <1>7, <1>9
  <2>2. pow2[k] * Lowest(i)[Width] = Lowest(i)[Width] * pow2[k] /\ Lowest(i)[Width] * pow2[k] \in Nat
    BY <1>10
  <2> QED
    BY <1>8, <1>10, <2>1, <2>2
<1> QED
  BY <1>8, <1>10, <1>11 DEF Value


\* With options that suit the helper, make_handle multiplies and adds, and
\* extract_pool and extract_offset divide.
LEMMA InvIsNumber == Inv => RegularHandleIsNumber
<1> SUFFICES ASSUME Inv, Regular
             PROVE  /\ Value(handle) = Value(index) * Value(pool_capacity) + Value(offset)
                    /\ Value(extract_pool(handle)) = Value(handle) \div Value(pool_capacity)
                    /\ Value(extract_offset(handle)) = Value(handle) % Value(pool_capacity)
  BY DEF RegularHandleIsNumber
<1>1. PICK k \in Bit, d \in Nat :
        /\ pool_capacity = {k} /\ log2(max_pools) < Width
        /\ k + d + log2(max_pools) <= Width /\ k + d <= Width
        /\ \A c \in index : c < d
        /\ offset \subseteq 0 .. k - 1
  BY RegularBits
<1>2. index \in Word /\ offset \in Word /\ handle = make_handle(index, offset) /\ pool_shift = k
  BY <1>1, DecPower DEF Inv, TypeOK, Construct
<1>3. handle = Shl(index, k) \cup offset
  BY <1>2 DEF make_handle
<1>4. /\ Value(handle) = Value(index) * pow2[k] + Value(offset)
      /\ Value(index) \in Nat /\ Value(offset) \in Nat /\ Value(offset) < pow2[k]
  BY <1>1, <1>2, <1>3, HandleValue
<1>5. Value(pool_capacity) = pow2[k] /\ pow2[k] \in Nat
  <2>1. k \in Nat
    BY WidthAssumption DEF Bit
  <2> QED
    BY <1>1, <2>1, ValueOfBit, Pow2Step
<1>6. extract_pool(handle) = index /\ extract_offset(handle) = offset
  BY InvDecodes DEF Decodes
<1>7. (Value(index) * pow2[k] + Value(offset)) \div pow2[k] = Value(index)
      /\ (Value(index) * pow2[k] + Value(offset)) % pow2[k] = Value(offset)
  BY <1>4, <1>5, DivMod
<1> QED
  BY <1>4, <1>5, <1>6, <1>7

\* The handle of pool_helper.hpp as a number, for words of every width: the
\* shift by log2(capacity - 1) multiplies by the capacity, and the masks take
\* quotient and remainder.
THEOREM HandlesAreNumbers == Spec => []RegularHandleIsNumber
BY InvIsNumber, Invariance, PTL

\* The bits of the word that stands for n, below bit j, are n's remainder.
LEMMA LowestOfWord ==
  ASSUME NEW n \in Nat, NEW j \in Nat, j <= Width
  PROVE  Lowest(WordOf(n))[j] = n % pow2[j]
<1> DEFINE w == WordOf(n)
           T == {m \in Nat : m <= Width => Lowest(w)[m] = n % pow2[m]}
<1>1. 0 \in T
  <2>1. Lowest(w)[0] = 0 /\ pow2[0] = 1
    BY LowestStep, Pow2Step
  <2>2. n % 1 = 0
    OBVIOUS
  <2> QED
    BY <2>1, <2>2
<1>2. ASSUME NEW m \in T PROVE m + 1 \in T
  <2> SUFFICES ASSUME m + 1 <= Width PROVE Lowest(w)[m + 1] = n % pow2[m + 1]
    OBVIOUS
  <2>1. m \in Nat /\ m \in Bit /\ Lowest(w)[m] = n % pow2[m]
    BY WidthAssumption DEF Bit
  <2> DEFINE P == pow2[m]
             q == n \div P
             a == q \div 2
             e == q % 2
             r == n % P
  <2>2. P \in Nat \ {0} /\ pow2[m + 1] = 2 * P
    BY <2>1, Pow2Step
  <2>3. m \in w <=> e = 1
    BY <2>1 DEF WordOf
  <2>4. Lowest(w)[m + 1] = r + (IF m \in w THEN P ELSE 0)
    BY <2>1, LowestStep
  <2> HIDE DEF P
  <2>5. q \in Nat /\ r \in Nat /\ r < P /\ n = q * P + r
    BY <2>2
  <2> HIDE DEF q, r
  <2>6. a \in Nat /\ e \in {0, 1} /\ q = 2 * a + e
    BY <2>5
  <2> HIDE DEF a, e
  <2>7. n = a * (2 * P) + (e * P + r) /\ 2 * P \in Nat /\ e * P + r \in Nat /\ e * P + r < 2 * P
    <3>1. CASE e = 0
      <4>1. q = 2 * a
        BY <3>1, <2>6
      <4>2. (2 * a) * P = a * (2 * P) /\ e * P = 0
        BY <3>1, <2>2, <2>6
      <4> QED
        BY <4>1, <4>2, <2>2, <2>5, <2>6
    <3>2. CASE e = 1
      <4>1. q = 2 * a + 1
        BY <3>2, <2>6
      <4>2. (2 * a + 1) * P = a * (2 * P) + P /\ e * P = P /\ a * (2 * P) \in Nat
        BY <3>2, <2>2, <2>6
      <4> QED
        BY <4>1, <4>2, <2>2, <2>5, <2>6
    <3> QED
      BY <3>1, <3>2, <2>6
  <2>8. n % (2 * P) = e * P + r
    BY <2>6, <2>7, DivMod, SMTT(20)
  <2>9. Lowest(w)[m + 1] = e * P + r
    BY <2>2, <2>3, <2>4, <2>5, <2>6
  <2> QED
    BY <2>2, <2>8, <2>9
<1> HIDE DEF T
<1>3. T = Nat
  <2>1. T \in SUBSET Nat
    BY DEF T
  <2> QED
    BY <1>1, <1>2, <2>1, SetInduction
<1> QED
  BY <1>3 DEF T

\* A number below pow2[d] is the value of its word, which ends below bit d.
LEMMA WordOfNumber ==
  ASSUME NEW d \in Nat, d <= Width, NEW n \in Nat, n < pow2[d]
  PROVE  /\ WordOf(n) \in Word /\ \A c \in WordOf(n) : c < d
         /\ Value(WordOf(n)) = n
<1>1. Width \in Nat /\ \A b \in Bit : b \in Nat
  BY WidthAssumption DEF Bit
<1>2. ASSUME NEW b \in Nat, d <= b PROVE n < pow2[b]
  <2>1. PICK j \in Nat : b = d + j
    <3>1. b - d \in Nat /\ b = d + (b - d)
      BY <1>2
    <3> QED
      BY <3>1
  <2>2. pow2[b] = pow2[d] * pow2[j]
    BY <2>1, Pow2Adds
  <2>3. pow2[d] \in Nat \ {0} /\ pow2[j] \in Nat \ {0}
    BY Pow2Step
  <2>4. pow2[d] <= pow2[d] * pow2[j] /\ pow2[d] * pow2[j] \in Nat
    BY <2>3
  <2> QED
    BY <2>2, <2>3, <2>4
<1>3. ASSUME NEW c \in WordOf(n) PROVE c < d
  <2>1. c \in Nat /\ (n \div pow2[c]) % 2 = 1
    BY <1>1 DEF WordOf
  <2> SUFFICES ASSUME d <= c PROVE FALSE
    BY <2>1
  <2>2. n < pow2[c] /\ pow2[c] \in Nat
    BY <1>2, <2>1, Pow2Step
  <2>3. n = 0 * pow2[c] + n
    BY <2>2
  <2>4. n \div pow2[c] = 0
    BY <2>2
  <2> QED
    BY <2>1, <2>4
<1>4. n < pow2[Width] /\ pow2[Width] \in Nat
  BY <1>1, <1>2, Pow2Step
<1>5. Lowest(WordOf(n))[Width] = n % pow2[Width]
  BY <1>1, LowestOfWord
<1>6. n % pow2[Width] = n
  BY <1>4
<1> QED
  BY <1>3, <1>5, <1>6 DEF WordOf, Word, Value

\* The form in which pool_manager relies on the helper: with a capacity of
\* pow2[k] blocks, the handle of every block of every pool of index below
\* pow2[d] decodes, also past max_pools, as long as k, d and the length of
\* max_pools together stay within the word.
NumbersDecode ==
  \A k \in Bit, d \in 0 .. Width :
    /\ pool_capacity = {k} /\ log2(max_pools) < Width
    /\ k + d + log2(max_pools) <= Width
    => \A i \in 0 .. pow2[d] - 1, b \in 0 .. Value(pool_capacity) - 1 :
         LET h == make_handle(WordOf(i), WordOf(b))
         IN  Value(extract_pool(h)) = i /\ Value(extract_offset(h)) = b

\* get and destroy find pool and block of pool_manager.hpp by number, which
\* is what the model of the manager assumes of its helper (HandlesDecode).
THEOREM HelperServesManager == Spec => []NumbersDecode
<1>1. Inv => NumbersDecode
  <2> SUFFICES ASSUME Inv, NEW k \in Bit, NEW d \in 0 .. Width,
                      pool_capacity = {k}, log2(max_pools) < Width,
                      k + d + log2(max_pools) <= Width,
                      NEW i \in 0 .. pow2[d] - 1, NEW b \in 0 .. Value(pool_capacity) - 1
               PROVE  /\ Value(extract_pool(make_handle(WordOf(i), WordOf(b)))) = i
                      /\ Value(extract_offset(make_handle(WordOf(i), WordOf(b)))) = b
    BY DEF NumbersDecode
  <2>1. k \in Nat /\ d \in Nat /\ k <= Width /\ d <= Width
    BY WidthAssumption DEF Bit
  <2>2. pow2[d] \in Nat /\ pow2[k] \in Nat /\ Value(pool_capacity) = pow2[k]
    BY <2>1, Pow2Step, ValueOfBit
  <2>3. i \in Nat /\ i < pow2[d] /\ b \in Nat /\ b < pow2[k]
    BY <2>2
  <2>4. WordOf(i) \in Word /\ (\A c \in WordOf(i) : c < d) /\ Value(WordOf(i)) = i
    BY <2>1, <2>3, WordOfNumber
  <2>5. WordOf(b) \in Word /\ (\A c \in WordOf(b) : c < k) /\ Value(WordOf(b)) = b
    BY <2>1, <2>3, WordOfNumber
  <2>6. WordOf(b) \subseteq 0 .. k - 1
    BY <2>1, <2>5, WidthAssumption DEF Word, Bit
  <2>7. /\ extract_pool(make_handle(WordOf(i), WordOf(b))) = WordOf(i)
        /\ extract_offset(make_handle(WordOf(i), WordOf(b))) = WordOf(b)
    BY <2>1, <2>4, <2>5, <2>6, WordsDecode
  <2> QED
    BY <2>4, <2>5, <2>7
<1> QED
  BY <1>1, Invariance, PTL

\* A capacity that is no power of two: its lowest bit is a block of the pool
\* and outside the offset mask.
LEMMA OffsetLost ==
  ASSUME Inv, \A k \in Bit : pool_capacity # {k}
  PROVE  \E o \in Word : Less(o, pool_capacity) /\ \A h \in Word : extract_offset(h) # o
<1> DEFINE l == Low(pool_capacity)
<1>1. pool_capacity \in Word /\ pool_capacity # {} /\ offset_mask = Dec(pool_capacity)
  BY DEF Inv, TypeOK, Construct
<1>2. l \in pool_capacity /\ l \in Bit /\ {l} \in Word
  BY <1>1, LowIsLowest DEF Word
<1>3. l \notin offset_mask
  BY <1>1, WidthAssumption, <1>2 DEF Dec, Bit
<1>4. Less({l}, pool_capacity)
  <2>1. PICK b \in pool_capacity : b # l
    BY <1>2
  <2> QED
    BY <1>2, <2>1 DEF Less
<1>5. \A h \in Word : extract_offset(h) # {l}
  BY <1>3 DEF extract_offset
<1> HIDE DEF l
<1> QED
  BY <1>2, <1>4, <1>5

\* pool_options.hpp lets a user choose any capacity.  The offset mask of
\* pool_helper.hpp serves the powers of two, and no other: for every other
\* capacity some block below it is one that no handle decodes to.
OffsetsServed ==
  (\A o \in Word : Less(o, pool_capacity) => \E h \in Word : extract_offset(h) = o)
    <=> \E k \in Bit : pool_capacity = {k}

\* The capacities of which every block can be found again are the powers of
\* two, which pool_helper neither checks nor rounds up to.
THEOREM OnlyPowersDecode == Spec => []OffsetsServed
<1>1. Inv => OffsetsServed
  <2> SUFFICES ASSUME Inv PROVE OffsetsServed
    OBVIOUS
  <2>1. offset_mask = Dec(pool_capacity)
    BY DEF Inv, Construct
  <2>2. ASSUME NEW k \in Bit, pool_capacity = {k}, NEW o \in Word, Less(o, pool_capacity)
        PROVE  \E h \in Word : extract_offset(h) = o
    <3>1. o \subseteq offset_mask
      BY <2>1, <2>2, OffsetBits, DecPower
    <3> QED
      BY <3>1 DEF extract_offset
  <2> QED
    BY <2>2, OffsetLost DEF OffsetsServed
<1> QED
  BY <1>1, Invariance, PTL

\* A power of two is below the limit when it is a bit of the limit less 1.
LEMMA BitBelow ==
  ASSUME NEW m \in Word, m # {}, NEW c \in Dec(m)
  PROVE  {c} \in Word /\ Less({c}, m)
<1>1. Low(m) \in m /\ Low(m) \in Bit
  BY LowIsLowest DEF Word
<1>2. c \in m \ {Low(m)} \/ c \in 0 .. Low(m) - 1
  BY DEF Dec
<1>3. c \in Bit
  BY DecIsWord DEF Word
<1>4. c # Low(m) /\ (c \notin m => c < Low(m))
  BY <1>1, <1>2, WidthAssumption DEF Bit
<1> QED
  BY <1>1, <1>3, <1>4 DEF Less, Word

\* The options with which get and destroy find every block that construct may
\* hand out: the capacity a power of two, and index, offset and the bits cut
\* from pool_mask within a word.
THEOREM ExactOptions == Spec => []RegularIsExact
<1>1. Inv => RegularIsExact
  <2> SUFFICES ASSUME Inv, log2(max_pools) < Width PROVE AllDecode <=> Regular
    BY DEF RegularIsExact
  <2> DEFINE n == log2(max_pools)
             d == log2(Dec(max_pools))
  <2>1. /\ max_pools \in Word /\ max_pools # {} /\ Dec(max_pools) \in Word
        /\ n \in Nat /\ d \in Nat
    BY DecIsWord, Log2Bounds DEF Inv, TypeOK
  <2>2. ASSUME Regular PROVE AllDecode
    <3> SUFFICES ASSUME NEW i \in Word, NEW o \in Word,
                        Less(i, max_pools), Less(o, pool_capacity)
                 PROVE  /\ extract_pool(make_handle(i, o)) = i
                        /\ extract_offset(make_handle(i, o)) = o
      BY DEF AllDecode
    <3>1. PICK k \in Bit : pool_capacity = {k} /\ k + d + n <= Width
      BY <2>2 DEF Regular
    <3>2. \A c \in i : c < d
      BY <2>1, IndexBits
    <3>3. o \subseteq 0 .. k - 1
      BY <3>1, OffsetBits
    <3> QED
      BY <2>1, <3>1, <3>2, <3>3, WordsDecode
  <2>3. ASSUME AllDecode PROVE Regular
    <3>1. PICK k \in Bit : pool_capacity = {k}
      <4> SUFFICES ASSUME \A k \in Bit : pool_capacity # {k} PROVE FALSE
        OBVIOUS
      <4>1. PICK o \in Word : Less(o, pool_capacity) /\ \A h \in Word : extract_offset(h) # o
        BY OffsetLost
      <4>2. {} \in Word /\ Less({}, max_pools) /\ make_handle({}, o) \in Word
        BY <2>1 DEF Less, Word, make_handle, Shl
      <4> QED
        BY <2>3, <4>1, <4>2 DEF AllDecode
    <3>2. k + d + n <= Width
      <4>1. CASE Dec(max_pools) = {}
        <5>1. d = 0
          BY <4>1 DEF log2
        <5>2. Low(max_pools) \in max_pools /\ max_pools \ {Low(max_pools)} = {}
              /\ 0 .. Low(max_pools) - 1 = {} /\ Low(max_pools) \in Bit
          BY <2>1, <4>1, LowIsLowest DEF Dec, Word
        <5>3. Low(max_pools) = 0
          <6>1. Low(max_pools) \in Nat /\ 0 \notin 0 .. Low(max_pools) - 1
            BY <5>2, WidthAssumption DEF Bit
          <6> QED
            BY <6>1
        <5>4. n - 1 \in max_pools
          BY <2>1, Log2Bounds
        <5>5. n - 1 = 0
          BY <5>2, <5>3, <5>4
        <5> QED
          BY <2>1, <5>1, <5>5, WidthAssumption DEF Bit
      <4>2. CASE Dec(max_pools) # {}
        <5>1. d - 1 \in Dec(max_pools)
          BY <2>1, <4>2, Log2Bounds
        <5> DEFINE c == d - 1
        <5>2. {c} \in Word /\ Less({c}, max_pools)
          BY <2>1, <5>1, BitBelow
        <5>3. {} \in Word /\ Less({}, pool_capacity)
          BY <3>1 DEF Less, Word
        <5>4. extract_pool(make_handle({c}, {})) = {c}
          BY <2>3, <5>2, <5>3 DEF AllDecode
        <5>5. c + pool_shift \in pool_mask
          BY <5>4 DEF extract_pool, Shr
        <5>6. offset_mask = 0 .. k - 1 /\ pool_shift = k
          BY <3>1, DecPower DEF Inv, Construct
        <5>7. pool_mask = {b \in Bit : k <= b /\ b + n < Width}
          BY <2>1, <5>6, RegularMask DEF Inv, Construct
        <5>8. (c + k) + n < Width
          BY <5>5, <5>6, <5>7
        <5> HIDE DEF n, d
        <5> QED
          BY <2>1, <5>8, WidthAssumption DEF Bit
      <4> QED
        BY <4>1, <4>2
    <3> QED
      BY <3>1, <3>2 DEF Regular
  <2> QED
    BY <2>2, <2>3
<1> QED
  BY <1>1, Invariance, PTL

=============================================================================
