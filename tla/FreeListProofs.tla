--------------------------- MODULE FreeListProofs ---------------------------
(* The free list's invariants, for pools of every capacity. *)
EXTENDS FreeList, TLAPS

\* A sequence with x inserted behind its k-th element.
Inserted(s, k, x) == SubSeq(s, 1, k) \o <<x>> \o SubSeq(s, k + 1, Len(s))

\* What insertion (the walk and relinking of mark_as_free) makes of a list.
LEMMA InsertedElements ==
  ASSUME NEW S, NEW s \in Seq(S), NEW x \in S, NEW k \in 1 .. Len(s)
  PROVE  /\ Inserted(s, k, x) \in Seq(S)
         /\ Len(Inserted(s, k, x)) = Len(s) + 1
         /\ \A i \in 1 .. k : Inserted(s, k, x)[i] = s[i]
         /\ Inserted(s, k, x)[k + 1] = x
         /\ \A i \in k + 2 .. Len(s) + 1 : Inserted(s, k, x)[i] = s[i - 1]
<1> DEFINE front == SubSeq(s, 1, k)
           back == SubSeq(s, k + 1, Len(s))
<1>1. /\ front \in Seq(S) /\ Len(front) = k
      /\ \A i \in 1 .. k : front[i] = s[i]
  OBVIOUS
<1>2. /\ back \in Seq(S) /\ Len(back) = Len(s) - k
      /\ \A i \in 1 .. Len(s) - k : back[i] = s[k + i]
  OBVIOUS
<1>3. <<x>> \in Seq(S) /\ Len(<<x>>) = 1 /\ <<x>>[1] = x
  OBVIOUS
<1> HIDE DEF front, back
<1>4. /\ front \o <<x>> \in Seq(S) /\ Len(front \o <<x>>) = k + 1
      /\ \A i \in 1 .. k : (front \o <<x>>)[i] = s[i]
      /\ (front \o <<x>>)[k + 1] = x
  BY <1>1, <1>3
<1>5. Inserted(s, k, x) = (front \o <<x>>) \o back
  BY DEF Inserted, front, back
<1> DEFINE fx == front \o <<x>>
<1> HIDE DEF fx
<1>6. /\ fx \in Seq(S) /\ Len(fx) = k + 1
      /\ \A i \in 1 .. k : fx[i] = s[i]
      /\ fx[k + 1] = x
  BY <1>4 DEF fx
<1>7. Inserted(s, k, x) = fx \o back
  BY <1>5 DEF fx
<1>8. fx \o back \in Seq(S) /\ Len(fx \o back) = Len(s) + 1
  <2>a. fx \in Seq(S) /\ back \in Seq(S)
    BY <1>2, <1>6
  <2>1. fx \o back \in Seq(S) /\ Len(fx \o back) = Len(fx) + Len(back)
    BY <2>a
  <2>2. Len(s) \in Nat /\ (k + 1) + (Len(s) - k) = Len(s) + 1
    OBVIOUS
  <2> QED
    BY <1>2, <1>6, <2>1, <2>2
<1>9. \A i \in 1 .. k + 1 : (fx \o back)[i] = fx[i]
  BY <1>2, <1>6
<1>10. ASSUME NEW i \in k + 2 .. Len(s) + 1
       PROVE  (fx \o back)[i] = s[i - 1]
  <2>1. i - (k + 1) \in 1 .. Len(s) - k /\ k + (i - (k + 1)) = i - 1
    OBVIOUS
  <2>2. (fx \o back)[i] = back[i - (k + 1)]
    BY <1>2, <1>6, <2>1
  <2>3. back[i - (k + 1)] = s[k + (i - (k + 1))]
    BY <1>2, <2>1
  <2> QED
    BY <2>1, <2>2, <2>3
<1>11. \A i \in 1 .. k : i \in 1 .. k + 1
  OBVIOUS
<1> QED
  BY <1>6, <1>7, <1>8, <1>9, <1>10, <1>11

\* What is left of a list when construct takes its first element.
LEMMA TailElements ==
  ASSUME NEW S, NEW s \in Seq(S), s # <<>>
  PROVE  /\ Tail(s) \in Seq(S) /\ Len(Tail(s)) = Len(s) - 1
         /\ \A i \in 1 .. Len(s) - 1 : Tail(s)[i] = s[i + 1]
OBVIOUS

\* The three facts are inductive together: the walk of mark_as_free is only
\* known to follow chain because the list is linked, and each block once on it.
Inv == TypeOK /\ Linked /\ EachBlockOnce /\ TailOrdered

\* populate_list establishes the invariant.
LEMMA Populated == Init => Inv
<1> SUFFICES ASSUME Init PROVE Inv
  OBVIOUS
<1> USE FreeListAssumption DEF Init
<1>1. chain \in Seq(Blocks) /\ Len(chain) = Capacity
      /\ \A i \in 1 .. Capacity : chain[i] = i - 1
  BY DEF Blocks
<1>2. TypeOK
  BY <1>1 DEF TypeOK, Blocks, Links
<1>3. Linked
  <2>1. chain # <<>> /\ chain[1] = 0
    BY <1>1
  <2>2. ASSUME NEW i \in 1 .. Len(chain)
        PROVE  next[chain[i]] = IF i < Len(chain) THEN chain[i + 1] ELSE Null
    <3>1. chain[i] = i - 1 /\ i - 1 \in Blocks /\ i \in 1 .. Capacity
      BY <1>1 DEF Blocks
    <3>2. next[i - 1] = IF (i - 1) + 1 < Capacity THEN (i - 1) + 1 ELSE Null
      BY <3>1
    <3>3. CASE i < Capacity
      <4>1. i + 1 \in 1 .. Capacity /\ (i - 1) + 1 = i
        BY <3>1, <3>3
      <4>2. chain[i + 1] = (i + 1) - 1
        BY <4>1, <1>1
      <4> QED
        BY <1>1, <3>1, <3>2, <3>3, <4>1, <4>2
    <3>4. CASE ~(i < Capacity)
      BY <1>1, <3>1, <3>2, <3>4
    <3> QED
      BY <3>3, <3>4
  <2> QED
    BY <2>1, <2>2 DEF Linked
<1>4. EachBlockOnce
  <2>1. ASSUME NEW b \in Blocks PROVE chain[b + 1] = b /\ b + 1 \in 1 .. Len(chain)
    BY <1>1 DEF Blocks
  <2>2. \A i, j \in 1 .. Len(chain) : chain[i] = chain[j] => i = j
    BY <1>1
  <2>3. \A b \in Blocks : \E i \in 1 .. Len(chain) : chain[i] = b
    BY <2>1
  <2> HIDE DEF Init
  <2>4. in_use = {}
    BY DEF Init
  <2> QED
    BY <2>2, <2>3, <2>4 DEF EachBlockOnce
<1>5. TailOrdered
  BY <1>1 DEF TailOrdered
<1> QED
  BY <1>2, <1>3, <1>4, <1>5 DEF Inv

\* construct keeps it, whatever word the object writes over the link.
LEMMA PopKeepsInv ==
  ASSUME Inv, NEW word \in Links, Pop(word)
  PROVE  Inv'
<1> USE FreeListAssumption DEF Pop
<1>1. /\ chain \in Seq(Blocks) /\ chain # <<>> /\ head = chain[1] /\ head \in Blocks
      /\ next \in [Blocks -> Links]
  BY DEF Inv, TypeOK, Linked, Links
<1>2. /\ chain' \in Seq(Blocks) /\ Len(chain') = Len(chain) - 1
      /\ \A i \in 1 .. Len(chain') : chain'[i] = chain[i + 1]
  BY <1>1, TailElements
<1>3. \A i \in 1 .. Len(chain') : chain'[i] # head
  BY <1>1, <1>2 DEF Inv, EachBlockOnce
<1>4. TypeOK'
  BY <1>1, <1>2 DEF Inv, TypeOK, Links
<1>5. Linked'
  <2>1. head' = IF chain' = <<>> THEN Null ELSE chain'[1]
    <3>1. 1 \in 1 .. Len(chain) /\ Len(chain) \in Nat
      BY <1>1
    <3>2. next[chain[1]] = IF 1 < Len(chain) THEN chain[1 + 1] ELSE Null
      BY <3>1 DEF Inv, Linked
    <3>3. head' = next[chain[1]]
      BY <1>1
    <3> HIDE DEF Pop
    <3>4. CASE Len(chain) = 1
      <4>1. chain' = <<>>
        BY <1>2, <3>4
      <4> QED
        BY <3>2, <3>3, <3>4, <4>1
    <3>5. CASE Len(chain) > 1
      <4>1. 1 \in 1 .. Len(chain') /\ Len(chain') # 0
        BY <1>2, <3>1, <3>5
      <4>3. chain' # <<>>
        BY <4>1
      <4>2. chain'[1] = chain[1 + 1]
        BY <4>1, <1>2
      <4> QED
        BY <3>2, <3>3, <3>5, <4>2, <4>3
    <3> QED
      BY <3>1, <3>4, <3>5
  <2>2. ASSUME NEW i \in 1 .. Len(chain')
        PROVE next'[chain'[i]] = IF i < Len(chain') THEN chain'[i + 1] ELSE Null
    <3>1. next'[chain'[i]] = next[chain[i + 1]]
      BY <1>1, <1>2, <1>3
    <3>2. i + 1 \in 1 .. Len(chain)
      BY <1>1, <1>2
    <3> QED
      BY <1>1, <1>2, <3>1, <3>2 DEF Inv, Linked
  <2> QED
    BY <2>1, <2>2 DEF Linked
<1>6. EachBlockOnce'
  <2>1. \A i, j \in 1 .. Len(chain') : chain'[i] = chain'[j] => i = j
    BY <1>1, <1>2 DEF Inv, EachBlockOnce
  <2>2. ASSUME NEW b \in Blocks
        PROVE  (b \in in_use') <=> (\A i \in 1 .. Len(chain') : chain'[i] # b)
    <3>1. CASE b = head
      BY <1>3, <3>1
    <3>2. CASE b # head
      <4>1. (\A i \in 1 .. Len(chain') : chain'[i] # b)
              <=> (\A i \in 1 .. Len(chain) : chain[i] # b)
        <5>1. ASSUME NEW i \in 1 .. Len(chain), chain[i] = b
              PROVE  i - 1 \in 1 .. Len(chain') /\ chain'[i - 1] = b
          BY <5>1, <3>2, <1>1, <1>2
        <5>2. ASSUME NEW i \in 1 .. Len(chain')
              PROVE  i + 1 \in 1 .. Len(chain) /\ chain[i + 1] = chain'[i]
          BY <1>1, <1>2
        <5> QED
          BY <5>1, <5>2
      <4> QED
        BY <4>1, <3>2 DEF Inv, EachBlockOnce
    <3> QED
      BY <3>1, <3>2
  <2> QED
    BY <2>1, <2>2 DEF EachBlockOnce
<1>7. TailOrdered'
  BY <1>1, <1>2 DEF Inv, TailOrdered
<1> QED
  BY <1>4, <1>5, <1>6, <1>7 DEF Inv

\* mark_as_free on an empty list keeps it.
LEMMA MarkAloneKeepsInv ==
  ASSUME Inv, NEW b \in Blocks, MarkAsFreeAlone(b)
  PROVE  Inv'
<1> USE FreeListAssumption DEF MarkAsFreeAlone
<1>1. chain = <<>>
  BY DEF Inv, TypeOK, Linked, Blocks
<1>2. chain' = <<b>> /\ Len(chain') = 1 /\ chain'[1] = b /\ chain' \in Seq(Blocks)
  OBVIOUS
<1>3. TypeOK'
  BY <1>2 DEF Inv, TypeOK, Links
<1>4. Linked'
  BY <1>2 DEF Inv, TypeOK, Linked
<1>5. EachBlockOnce'
  BY <1>1, <1>2 DEF Inv, EachBlockOnce
<1>6. TailOrdered'
  BY <1>2 DEF TailOrdered
<1> QED
  BY <1>3, <1>4, <1>5, <1>6 DEF Inv

\* mark_as_free with its walk keeps it.
LEMMA MarkKeepsInv ==
  ASSUME Inv, NEW b \in Blocks, MarkAsFree(b)
  PROVE  Inv'
<1> USE FreeListAssumption
<1>1. /\ chain \in Seq(Blocks) /\ next \in [Blocks -> Links] /\ b \in in_use
      /\ \A i \in 1 .. Len(chain) : chain[i] # b /\ chain[i] \in Blocks
  BY DEF MarkAsFree, Inv, TypeOK, EachBlockOnce
<1>2. PICK k \in 1 .. Len(chain) :
        /\ ~WalksPast(chain[k], b)
        /\ \A j \in 1 .. k - 1 : WalksPast(chain[j], b)
        /\ next' = [next EXCEPT ![b] = next[chain[k]], ![chain[k]] = b]
        /\ chain' = Inserted(chain, k, b)
  BY DEF MarkAsFree, Inserted
<1>n. Len(chain) \in Nat /\ k \in Nat /\ k >= 1 /\ k <= Len(chain)
  BY <1>1
<1>i. /\ Inserted(chain, k, b) \in Seq(Blocks)
      /\ Len(Inserted(chain, k, b)) = Len(chain) + 1
      /\ \A i \in 1 .. k : Inserted(chain, k, b)[i] = chain[i]
      /\ Inserted(chain, k, b)[k + 1] = b
      /\ \A i \in k + 2 .. Len(chain) + 1 : Inserted(chain, k, b)[i] = chain[i - 1]
  BY <1>1, InsertedElements, SMTT(30)
<1>3. /\ chain' \in Seq(Blocks) /\ Len(chain') = Len(chain) + 1
      /\ \A i \in 1 .. k : chain'[i] = chain[i]
      /\ chain'[k + 1] = b
      /\ \A i \in k + 2 .. Len(chain) + 1 : chain'[i] = chain[i - 1]
  BY <1>2, <1>i, Zenon
<1>4. head' = head /\ in_use' = in_use \ {b}
  BY DEF MarkAsFree
<1>5. /\ next' \in [Blocks -> Links]
      /\ next'[b] = next[chain[k]] /\ next'[chain[k]] = b
      /\ \A c \in Blocks \ {b, chain[k]} : next'[c] = next[c]
  BY <1>1, <1>2 DEF Links
<1>6. TypeOK'
  BY <1>3, <1>4, <1>5 DEF Inv, TypeOK
<1>7. Linked'
  <2>1. head' = IF chain' = <<>> THEN Null ELSE chain'[1]
    BY <1>1, <1>3, <1>4 DEF Inv, Linked
  <2>2. ASSUME NEW i \in 1 .. Len(chain')
        PROVE next'[chain'[i]] = IF i < Len(chain') THEN chain'[i + 1] ELSE Null
    <3>1. CASE i < k
      <4>1. chain[i] # chain[k] /\ chain[i] \in Blocks \ {b, chain[k]}
        BY <3>1, <1>1 DEF Inv, EachBlockOnce
      <4>2. next'[chain'[i]] = next[chain[i]]
        BY <4>1, <1>3, <1>5, <3>1
      <4> QED
        BY <4>2, <3>1, <1>1, <1>3 DEF Inv, Linked
    <3>2. CASE i = k
      BY <3>2, <1>1, <1>3, <1>5
    <3>3. CASE i = k + 1
      <4>1. next'[chain'[i]] = next[chain[k]]
        BY <3>3, <1>3, <1>5
      <4> QED
        BY <4>1, <3>3, <1>1, <1>3 DEF Inv, Linked
    <3>4. CASE i > k + 1
      <4>a. i - 1 \in 1 .. Len(chain) /\ i - 1 # k /\ i \in k + 2 .. Len(chain) + 1
        BY <3>4, <1>n, <1>3
      <4>1. i - 1 \in 1 .. Len(chain) /\ i - 1 # k /\ chain'[i] = chain[i - 1]
        BY <4>a, <1>3
      <4>2. chain[i - 1] \in Blocks \ {b, chain[k]}
        BY <4>1, <1>1 DEF Inv, EachBlockOnce
      <4>3. next'[chain'[i]] = next[chain[i - 1]]
        BY <4>1, <4>2, <1>5
      <4>4. next[chain[i - 1]] = IF i - 1 < Len(chain) THEN chain[(i - 1) + 1] ELSE Null
        BY <4>1 DEF Inv, Linked
      <4>5. CASE i < Len(chain')
        <5>1. i + 1 \in k + 2 .. Len(chain) + 1 /\ i - 1 < Len(chain)
              /\ (i + 1) - 1 = (i - 1) + 1
          BY <4>5, <4>a, <1>n, <1>3
        <5>2. chain'[i + 1] = chain[(i + 1) - 1]
          BY <5>1, <1>3
        <5> QED
          BY <4>3, <4>4, <4>5, <5>1, <5>2
      <4>6. CASE ~(i < Len(chain'))
        <5>1. ~(i - 1 < Len(chain))
          BY <4>6, <4>a, <1>n, <1>3
        <5> QED
          BY <4>3, <4>4, <4>6, <5>1
      <4> QED
        BY <4>5, <4>6
    <3> QED
      BY <3>1, <3>2, <3>3, <3>4, <1>3
  <2> QED
    BY <2>1, <2>2 DEF Linked
<1>8. EachBlockOnce'
  <2>1. ASSUME NEW i \in 1 .. Len(chain'), NEW j \in 1 .. Len(chain'),
               chain'[i] = chain'[j]
        PROVE  i = j
    <3> DEFINE old(n) == IF n <= k THEN n ELSE n - 1
    <3>1. \A n \in 1 .. Len(chain') : n # k + 1 =>
            old(n) \in 1 .. Len(chain) /\ chain'[n] = chain[old(n)]
      <4> SUFFICES ASSUME NEW n \in 1 .. Len(chain'), n # k + 1
                   PROVE  old(n) \in 1 .. Len(chain) /\ chain'[n] = chain[old(n)]
        OBVIOUS
      <4>1. CASE n <= k
        <5>1. n \in 1 .. k /\ n \in 1 .. Len(chain)
          BY <4>1, <1>n, <1>3
        <5> QED
          BY <4>1, <5>1, <1>3
      <4>2. CASE ~(n <= k)
        <5>1. n \in k + 2 .. Len(chain) + 1 /\ n - 1 \in 1 .. Len(chain)
          BY <4>2, <1>n, <1>3
        <5> QED
          BY <4>2, <5>1, <1>3
      <4> QED
        BY <4>1, <4>2
    <3>2. CASE i = k + 1 \/ j = k + 1
      BY <3>1, <3>2, <2>1, <1>1, <1>3
    <3>3. CASE i # k + 1 /\ j # k + 1
      <4>1. old(i) = old(j)
        <5> HIDE DEF old
        <5>1. /\ old(i) \in 1 .. Len(chain) /\ chain'[i] = chain[old(i)]
              /\ old(j) \in 1 .. Len(chain) /\ chain'[j] = chain[old(j)]
          BY <3>1, <3>3
        <5>2. \A m, n \in 1 .. Len(chain) : chain[m] = chain[n] => m = n
          BY DEF Inv, EachBlockOnce
        <5> QED
          BY <2>1, <5>1, <5>2
      <4> QED
        BY <4>1, <3>3, <1>1, <1>3
    <3> QED
      BY <3>2, <3>3
  <2>2. ASSUME NEW c \in Blocks
        PROVE  (c \in in_use') <=> (\A i \in 1 .. Len(chain') : chain'[i] # c)
    <3>1. CASE c = b
      BY <3>1, <1>3, <1>4
    <3>2. CASE c # b
      <4>1. ASSUME NEW i \in 1 .. Len(chain), chain[i] = c
            PROVE  \E j \in 1 .. Len(chain') : chain'[j] = c
        <5>1. CASE i <= k
          BY <5>1, <4>1, <1>1, <1>3
        <5>2. CASE i > k
          <6>1. i + 1 \in k + 2 .. Len(chain) + 1 /\ i + 1 \in 1 .. Len(chain')
            BY <5>2, <1>1, <1>3
          <6>2. chain'[i + 1] = chain[i]
            BY <6>1, <1>3
          <6> QED
            BY <6>1, <6>2, <4>1
        <5> QED
          BY <5>1, <5>2
      <4>2. ASSUME NEW i \in 1 .. Len(chain'), chain'[i] = c
            PROVE  \E j \in 1 .. Len(chain) : chain[j] = c
        <5>1. CASE i <= k
          BY <5>1, <4>2, <1>1, <1>3, SMTT(20)
        <5>2. CASE i > k + 1
          <6>a. i - 1 \in 1 .. Len(chain) /\ i \in k + 2 .. Len(chain) + 1
            BY <5>2, <1>n, <1>3
          <6>1. i - 1 \in 1 .. Len(chain) /\ chain[i - 1] = c
            BY <6>a, <4>2, <1>3
          <6> QED
            BY <6>1
        <5> QED
          BY <5>1, <5>2, <4>2, <3>2, <1>3
      <4> QED
        BY <4>1, <4>2, <3>2, <1>4 DEF Inv, EachBlockOnce
    <3> QED
      BY <3>1, <3>2
  <2> QED
    BY <2>1, <2>2 DEF EachBlockOnce
<1>9. TailOrdered'
  \* The walk went past chain[j] to a smaller block, and stopped before a
  \* greater one.
  <2>1. \A j \in 2 .. k : chain[j] < b
    <3> SUFFICES ASSUME NEW j \in 2 .. k PROVE chain[j] < b
      OBVIOUS
    <3>1. j - 1 \in 1 .. k - 1 /\ j - 1 < Len(chain) /\ (j - 1) + 1 = j
          /\ j - 1 \in 1 .. Len(chain)
      BY <1>1
    <3>2. next[chain[j - 1]] = chain[j]
      BY <3>1 DEF Inv, Linked
    <3> QED
      BY <3>1, <3>2, <1>2 DEF WalksPast
  <2>2. k < Len(chain) => b < chain[k + 1]
    <3> SUFFICES ASSUME k < Len(chain) PROVE b < chain[k + 1]
      OBVIOUS
    <3>1. next[chain[k]] = chain[k + 1] /\ k + 1 \in 1 .. Len(chain)
      BY <1>1 DEF Inv, Linked
    <3>2. chain[k + 1] \in Blocks /\ chain[k + 1] # b
      BY <3>1, <1>1
    <3> QED
      BY <3>1, <3>2, <1>2 DEF WalksPast, Blocks
  <2>3. \A j \in k + 1 .. Len(chain) : b < chain[j]
    <3> SUFFICES ASSUME NEW j \in k + 1 .. Len(chain) PROVE b < chain[j]
      OBVIOUS
    <3>1. j = k + 1 \/ chain[k + 1] < chain[j]
      BY <1>1 DEF Inv, TailOrdered
    <3>2. chain[k + 1] \in Blocks /\ chain[j] \in Blocks
      BY <1>1
    <3> QED
      BY <2>2, <3>1, <3>2, <1>1 DEF Blocks
  <2> SUFFICES ASSUME NEW i \in 2 .. Len(chain'), NEW j \in 2 .. Len(chain'), i < j
               PROVE  chain'[i] < chain'[j]
    BY DEF TailOrdered
  <2>4. CASE j <= k
    BY <2>4, <1>1, <1>3, SMTT(20) DEF Inv, TailOrdered
  <2>5. CASE j = k + 1
    BY <2>5, <2>1, <1>1, <1>3
  <2>6. CASE j > k + 1 /\ i <= k
    <3>1. j - 1 \in 2 .. Len(chain) /\ i \in 2 .. Len(chain) /\ i < j - 1
          /\ chain'[j] = chain[j - 1] /\ chain'[i] = chain[i]
      BY <2>6, <1>1, <1>3
    <3> QED
      BY <3>1 DEF Inv, TailOrdered
  <2>7. CASE j > k + 1 /\ i = k + 1
    <3>1. j - 1 \in k + 1 .. Len(chain) /\ chain'[j] = chain[j - 1]
      BY <2>7, <1>1, <1>3
    <3> QED
      BY <3>1, <2>3, <2>7, <1>3
  <2>8. CASE i > k + 1
    <3>1. /\ i - 1 \in 2 .. Len(chain) /\ j - 1 \in 2 .. Len(chain) /\ i - 1 < j - 1
          /\ chain'[i] = chain[i - 1] /\ chain'[j] = chain[j - 1]
      BY <2>8, <1>1, <1>3
    <3> QED
      BY <3>1 DEF Inv, TailOrdered
  <2> QED
    BY <2>4, <2>5, <2>6, <2>7, <2>8, <1>3
<1> QED
  BY <1>6, <1>7, <1>8, <1>9 DEF Inv

\* populate_list establishes the invariant, construct and mark_as_free keep
\* it, whatever the capacity and the order of constructs and destroys.
THEOREM Invariance == Spec => []Inv
<1>1. Inv /\ [Next]_vars => Inv'
  <2> SUFFICES ASSUME Inv, [Next]_vars PROVE Inv'
    OBVIOUS
  <2>1. CASE UNCHANGED vars
    BY <2>1 DEF vars, Inv, TypeOK, Linked, EachBlockOnce, TailOrdered
  <2>2. ASSUME NEW word \in Links, Pop(word) PROVE Inv'
    BY <2>2, PopKeepsInv
  <2>3. ASSUME NEW b \in Blocks, MarkAsFreeAlone(b) PROVE Inv'
    BY <2>3, MarkAloneKeepsInv
  <2>4. ASSUME NEW b \in Blocks, MarkAsFree(b) PROVE Inv'
    BY <2>4, MarkKeepsInv
  <2> QED
    BY <2>1, <2>2, <2>3, <2>4 DEF Next
<1> QED
  BY <1>1, Populated, PTL DEF Spec

\* Head, links and list stay inside the pool.
THEOREM TypeCorrect == Spec => []TypeOK
BY Invariance, PTL DEF Inv

\* The pointers from head run through exactly the blocks of chain: construct
\* and destroy never cut the list, close a cycle or link a live object.
THEOREM ListIsLinked == Spec => []Linked
BY Invariance, PTL DEF Inv

\* Every block is free once or in use, never both, never neither.
THEOREM BlocksAreKept == Spec => []EachBlockOnce
BY Invariance, PTL DEF Inv

\* What mark_as_free keeps of the address order.
THEOREM TailIsOrdered == Spec => []TailOrdered
BY Invariance, PTL DEF Inv

-----------------------------------------------------------------------------
(* When the whole list is ordered *)

\* No block is freed that lies below the first free one.
FreedAboveHead == [][\A b \in Blocks : MarkAsFree(b) => head < b]_vars

\* A block freed above the head finds its place in an ordered list.
LEMMA MarkKeepsOrder ==
  ASSUME Inv, OrderedByAddress, NEW b \in Blocks, MarkAsFree(b), head < b
  PROVE  OrderedByAddress'
<1>1. /\ chain \in Seq(Blocks) /\ chain # <<>> /\ head = chain[1]
      /\ \A i \in 1 .. Len(chain) : chain[i] \in Blocks
  BY FreeListAssumption DEF MarkAsFree, Inv, TypeOK, Linked
<1>2. PICK k \in 1 .. Len(chain) : chain' = Inserted(chain, k, b)
  BY DEF MarkAsFree, Inserted
<1>3. Len(chain) \in Nat /\ k \in Nat /\ k >= 1 /\ k <= Len(chain)
  BY <1>1
<1>4. /\ Inserted(chain, k, b) \in Seq(Blocks)
      /\ Len(Inserted(chain, k, b)) = Len(chain) + 1
      /\ \A i \in 1 .. k : Inserted(chain, k, b)[i] = chain[i]
      /\ Inserted(chain, k, b)[k + 1] = b
      /\ \A i \in k + 2 .. Len(chain) + 1 : Inserted(chain, k, b)[i] = chain[i - 1]
  BY <1>1, InsertedElements, SMTT(30)
<1>5. /\ Len(chain') = Len(chain) + 1
      /\ \A i \in 1 .. k : chain'[i] = chain[i]
      /\ chain'[k + 1] = b
      /\ \A i \in k + 2 .. Len(chain) + 1 : chain'[i] = chain[i - 1]
  BY <1>2, <1>4, Zenon
<1>6. chain'[1] = head
  BY <1>1, <1>3, <1>5
<1>7. \A j \in 2 .. Len(chain) : head < chain[j]
  BY <1>1, <1>3 DEF OrderedByAddress
<1>8. ASSUME NEW j \in 2 .. Len(chain') PROVE head < chain'[j]
  <2>1. CASE j <= k
    BY <2>1, <1>3, <1>5, <1>7
  <2>2. CASE j = k + 1
    BY <2>2, <1>5
  <2>3. CASE j > k + 1
    <3>1. j - 1 \in 2 .. Len(chain) /\ j \in k + 2 .. Len(chain) + 1
      BY <2>3, <1>3, <1>5
    <3> QED
      BY <3>1, <1>5, <1>7
  <2> QED
    BY <1>3, <2>1, <2>2, <2>3
<1>9. TailOrdered'
  BY MarkKeepsInv DEF Inv
<1> QED
  BY <1>3, <1>5, <1>6, <1>8, <1>9 DEF TailOrdered, OrderedByAddress

\* Freeing a block below the head (pool_manager.hpp:141-146) is the whole cause
\* of the violation of free_list_order: in every behaviour without it the list
\* is ordered by address as the comment at line 139 says.
THEOREM OrderedWhileFreedAbove == Spec /\ FreedAboveHead => []OrderedByAddress
<1>1. Init => OrderedByAddress
  BY FreeListAssumption DEF Init, OrderedByAddress
<1>2. ASSUME Inv, OrderedByAddress, [Next]_vars,
             [\A b \in Blocks : MarkAsFree(b) => head < b]_vars
      PROVE  OrderedByAddress'
  <2>1. CASE UNCHANGED vars
    BY <1>2, <2>1 DEF vars, OrderedByAddress
  <2>2. ASSUME NEW word \in Links, Pop(word) PROVE OrderedByAddress'
    <3>1. chain \in Seq(Blocks) /\ chain # <<>> /\ chain' = Tail(chain)
      BY <1>2, <2>2 DEF Inv, TypeOK, Linked, Pop
    <3>2. /\ Len(chain) \in Nat /\ Len(chain') = Len(chain) - 1
          /\ \A i \in 1 .. Len(chain) - 1 : chain'[i] = chain[i + 1]
      BY <3>1, TailElements
    <3> QED
      BY <1>2, <3>2 DEF OrderedByAddress
  <2>3. ASSUME NEW b \in Blocks, MarkAsFreeAlone(b) PROVE OrderedByAddress'
    <3>1. chain' = <<b>>
      BY <2>3 DEF MarkAsFreeAlone
    <3> QED
      BY <3>1 DEF OrderedByAddress
  <2>4. ASSUME NEW b \in Blocks, MarkAsFree(b), vars' # vars PROVE OrderedByAddress'
    BY <1>2, <2>4, MarkKeepsOrder
  <2> QED
    BY <1>2, <2>1, <2>2, <2>3, <2>4 DEF Next
<1> QED
  BY <1>1, <1>2, Invariance, PTL DEF Spec, FreedAboveHead
=============================================================================
