----------------------------- MODULE NodeProofs -----------------------------
(***************************************************************************)
(* The ownership of payloads and wait lists, for any places, payload       *)
(* sizes, wait lists, offsets of the base and number of allocations.       *)
(***************************************************************************)
EXTENDS Node, FiniteSetTheorems, TLAPS

\* Addresses handed out so far, and pointers to payloads made so far.
Addresses == (1 .. allocated) \X {0}
Payloads  == (1 .. allocated) \X {offset}

\* A node that can run: its payload is alive.
Full(n) == node[n].exec_payload \in alive

\* A node without a payload has no list either, whether it was moved from or
\* there never was one.
NodeInv ==
  /\ node \in [Places -> [graph_id : Graphs \cup {Null}, wait_counter : Counts \cup {0},
                          exec_payload : Payloads \cup {Null},
                          handles : Addresses \cup {Null}, size : Nat]]
  /\ \A n \in Places : node[n].exec_payload = Null => node[n].handles = Null

\* The resource never hands out an address twice; a live payload is in a block.
BlockInv ==
  /\ \A b \in blocks : b.at \in Addresses /\ b.size \in Nat
  /\ \A b, c \in blocks : b.at = c.at => b = c
  /\ alive \subseteq Payloads /\ held \subseteq alive
  /\ \A p \in alive : \E b \in blocks : b.at = <<p[1], 0>>

\* A node that can run has taken its payload from the caller, has its list and
\* is what some constructor made.
WholeInv ==
  \A n \in Places : Full(n) =>
    /\ node[n].exec_payload \notin held
    /\ \E b \in blocks : b.at = node[n].handles /\ b.size = node[n].size
    /\ Content(node[n]) \in made

\* No block serves two nodes, a node twice, or a node and the caller.
ApartInv ==
  /\ \A n, m \in Places : Full(n) /\ Full(m) =>
       /\ n # m => /\ node[n].exec_payload # node[m].exec_payload
                   /\ node[n].handles # node[m].handles
       /\ node[n].handles # <<node[m].exec_payload[1], 0>>
  /\ \A n \in Places, p \in held : Full(n) => node[n].handles # <<p[1], 0>>

\* A live payload is the caller's or a node's.
KeptInv == \A p \in alive : p \in held \/ \E n \in Places : node[n].exec_payload = p

\* Every block that is out is somebody's, or was a payload destroyed by the
\* address of its base.
Owned(b) ==
  \/ \E p \in held : b.at = <<p[1], 0>>
  \/ \E n \in Places :
       Full(n) /\ (b.at = node[n].handles \/ b.at = <<node[n].exec_payload[1], 0>>)
Leftover(b) == offset # 0 /\ \E c \in misfreed : c.at = <<b.at[1], offset>>
OwnerInv == phase # "aborted" => \A b \in blocks : Owned(b) \/ Leftover(b)

IInv ==
  /\ offset \in Offsets /\ allocated \in 0 .. Allocs
  /\ phase \in {"up", "crashed", "aborted", "terminated"}
  /\ NodeInv /\ BlockInv /\ WholeInv /\ ApartInv /\ KeptInv /\ OwnerInv
  /\ ReturnedAsAllocated

-----------------------------------------------------------------------------
(* Pointers *)

\* A pointer is its two parts, and never nullptr.
LEMMA PointerParts ==
  ASSUME IInv
  PROVE  /\ allocated \in Nat /\ offset \in Nat
         /\ \A p \in Payloads : p[1] \in 1 .. allocated /\ p = <<p[1], offset>> /\ p # Null
         /\ \A a \in Addresses : a[1] \in 1 .. allocated /\ a = <<a[1], 0>> /\ a # Null
<1>1. allocated \in Nat /\ offset \in Nat /\ 1 .. allocated \subseteq 1 .. Allocs
  BY NodeAssumption DEF IInv
<1>2. Payloads \subseteq (1 .. Allocs) \X Nat /\ Addresses \subseteq (1 .. Allocs) \X Nat
  BY <1>1 DEF Payloads, Addresses
<1>3. Null \notin Payloads /\ Null \notin Addresses
  BY <1>2, NodeAssumption
<1>4. \A p \in Payloads : p[1] \in 1 .. allocated /\ p = <<p[1], offset>>
  BY DEF Payloads
<1>5. \A a \in Addresses : a[1] \in 1 .. allocated /\ a = <<a[1], 0>>
  BY DEF Addresses
<1> QED
  BY <1>1, <1>3, <1>4, <1>5

\* What a node that can run points to.
LEMMA FullParts ==
  ASSUME IInv, NEW n \in Places, Full(n)
  PROVE  /\ node[n].exec_payload \in Payloads /\ node[n].exec_payload # Null
         /\ node[n].handles \in Addresses
         /\ node[n].exec_payload[1] \in 1 .. allocated
         /\ node[n].handles[1] \in 1 .. allocated
<1>1. node[n].exec_payload \in Payloads
  BY DEF IInv, BlockInv, Full
<1>2. PICK b \in blocks : b.at = node[n].handles
  BY DEF IInv, WholeInv
<1>3. node[n].handles \in Addresses
  BY <1>2 DEF IInv, BlockInv
<1> QED
  BY <1>1, <1>3, PointerParts

\* Before the first payload is made.
LEMMA InitInv == Init => IInv
<1> SUFFICES ASSUME Init PROVE IInv
  OBVIOUS
<1> USE NodeAssumption DEF Init
<1>1. NodeInv
  BY DEF NodeInv, NoNode
<1>2. BlockInv /\ OwnerInv /\ ReturnedAsAllocated
  BY DEF BlockInv, OwnerInv, ReturnedAsAllocated
<1>3. WholeInv /\ ApartInv /\ KeptInv
  BY DEF WholeInv, ApartInv, KeptInv, Full
<1> QED
  BY <1>1, <1>2, <1>3 DEF IInv

\* allocate returns an address that no block, node or payload has.
LEMMA AllocateEffect ==
  ASSUME IInv, NEW size \in Nat, NEW data, Allocate(size, data), offset' = offset
  PROVE  /\ allocated' = allocated + 1 /\ allocated \in Nat /\ allocated' \in 0 .. Allocs
         /\ blocks' = blocks \cup {[at |-> <<allocated + 1, 0>>, size |-> size, data |-> data]}
         /\ Payloads \subseteq Payloads' /\ <<allocated + 1, offset>> \in Payloads' \ Payloads
         /\ Addresses \subseteq Addresses' /\ <<allocated + 1, 0>> \in Addresses' \ Addresses
         /\ \A b \in blocks' : b.at \in Addresses' /\ b.size \in Nat
         /\ \A b, c \in blocks' : b.at = c.at => b = c
<1>1. /\ allocated' = allocated + 1 /\ allocated < Allocs
      /\ blocks' = blocks \cup {[at |-> <<allocated + 1, 0>>, size |-> size, data |-> data]}
  BY DEF Allocate
<1>2. allocated \in Nat /\ allocated' \in 0 .. Allocs
  BY <1>1, NodeAssumption DEF IInv
<1>3. /\ Payloads \subseteq Payloads' /\ <<allocated + 1, offset>> \in Payloads' \ Payloads
      /\ Addresses \subseteq Addresses' /\ <<allocated + 1, 0>> \in Addresses' \ Addresses
  BY <1>1, <1>2 DEF Payloads, Addresses
<1>4. \A b \in blocks' : b.at \in Addresses' /\ b.size \in Nat
  BY <1>1, <1>3 DEF IInv, BlockInv
<1>5. \A b, c \in blocks' : b.at = c.at => b = c
  BY <1>1, <1>3 DEF IInv, BlockInv
<1> QED
  BY <1>1, <1>2, <1>3, <1>4, <1>5

-----------------------------------------------------------------------------
(* The invariant is inductive *)

\* A new payload is the caller's, in a block of its own.
LEMMA MakePayloadKeeps ==
  ASSUME IInv, phase = "up", NEW size \in Sizes, MakePayload(size)
  PROVE  IInv'
<1> DEFINE k == allocated + 1
           p0 == <<k, offset>>
           b0 == [at |-> <<k, 0>>, size |-> size, data |-> <<>>]
<1>0. /\ Allocate(size, <<>>) /\ held' = held \cup {p0} /\ alive' = alive \cup {p0}
      /\ UNCHANGED <<node, offset, misfreed, made, phase>>
  BY DEF MakePayload, Allocate
<1>1. size \in Nat
  BY NodeAssumption
<1>2. /\ allocated' = k /\ allocated \in Nat /\ allocated' \in 0 .. Allocs
      /\ blocks' = blocks \cup {b0}
      /\ Payloads \subseteq Payloads' /\ p0 \in Payloads' \ Payloads
      /\ Addresses \subseteq Addresses' /\ <<k, 0>> \in Addresses' \ Addresses
      /\ \A b \in blocks' : b.at \in Addresses' /\ b.size \in Nat
      /\ \A b, c \in blocks' : b.at = c.at => b = c
  BY <1>0, <1>1, AllocateEffect
<1>3. b0.at = <<k, 0>> /\ p0[1] = k
  OBVIOUS
<1>a. p0 # Null
  BY <1>2, NodeAssumption DEF IInv
<1> HIDE DEF k, p0, b0
<1>4. \A n \in Places : Full(n)' <=> Full(n)
  BY <1>0, <1>2, <1>a DEF IInv, NodeInv, Full
<1>5. NodeInv'
  BY <1>0, <1>2 DEF IInv, NodeInv
<1>6. BlockInv'
  <2>1. \A p \in alive' : \E b \in blocks' : b.at = <<p[1], 0>>
    BY <1>0, <1>2, <1>3 DEF IInv, BlockInv
  <2>2. alive' \subseteq Payloads' /\ held' \subseteq alive'
    BY <1>0, <1>2 DEF IInv, BlockInv
  <2> QED
    BY <1>2, <2>1, <2>2 DEF BlockInv
<1>7. WholeInv'
  <2> SUFFICES ASSUME NEW n \in Places, Full(n)
               PROVE  /\ node'[n].exec_payload \notin held'
                      /\ \E b \in blocks' : b.at = node'[n].handles /\ b.size = node'[n].size
                      /\ Content(node[n])' \in made'
    BY <1>4 DEF WholeInv
  <2>1. node[n].exec_payload \in Payloads /\ node[n].handles \in Addresses
    BY FullParts
  <2>2. {b \in blocks' : b.at = node[n].handles} = {b \in blocks : b.at = node[n].handles}
    BY <1>2, <1>3, <2>1
  <2>3. Content(node[n])' = Content(node[n])
    BY <1>0, <2>2 DEF Content
  <2> QED
    BY <1>0, <1>2, <2>1, <2>3 DEF IInv, WholeInv
<1>8. ApartInv'
  <2>1. \A n \in Places : Full(n) => node[n].handles # <<k, 0>>
    BY <1>2, FullParts
  <2> QED
    BY <1>0, <1>3, <1>4, <2>1 DEF IInv, ApartInv
<1>9. OwnerInv'
  <2> SUFFICES ASSUME NEW b \in blocks' PROVE Owned(b)' \/ Leftover(b)'
    BY DEF OwnerInv
  <2>1. CASE b = b0
    BY <1>0, <1>3, <2>1 DEF Owned
  <2>2. CASE b \in blocks
    <3>1. Owned(b) \/ Leftover(b)
      BY <2>2 DEF IInv, OwnerInv
    <3>2. Owned(b) => Owned(b)'
      BY <1>0, <1>4 DEF Owned
    <3>3. Leftover(b) => Leftover(b)'
      BY <1>0 DEF Leftover
    <3> QED
      BY <3>1, <3>2, <3>3
  <2> QED
    BY <1>2, <2>1, <2>2
<1>10. ReturnedAsAllocated' /\ KeptInv'
  BY <1>0 DEF IInv, ReturnedAsAllocated, KeptInv
<1> QED
  BY <1>0, <1>2, <1>5, <1>6, <1>7, <1>8, <1>9, <1>10 DEF IInv

\* The constructor takes the payload from the caller and copies the list into a
\* new block.
LEMMA ConstructKeeps ==
  ASSUME IInv, phase = "up", NEW n \in Places, NEW payload \in held, NEW graph \in Graphs,
         NEW wait_no \in Counts, NEW list \in Lists, Construct(n, payload, graph, wait_no, list)
  PROVE  IInv'
<1> DEFINE k == allocated + 1
           nd == [graph_id |-> graph, wait_counter |-> wait_no, exec_payload |-> payload,
                  handles |-> <<k, 0>>, size |-> Len(list)]
           b0 == [at |-> <<k, 0>>, size |-> Len(list), data |-> list]
           m0 == [graph_id |-> graph, wait_counter |-> wait_no, payload |-> payload,
                  list |-> {list}]
<1>0. /\ node[n].exec_payload \notin alive
      /\ Allocate(Len(list), list) /\ node' = [node EXCEPT ![n] = nd]
      /\ held' = held \ {payload} /\ made' = made \cup {m0}
      /\ UNCHANGED <<alive, offset, misfreed, phase>>
  BY DEF Construct, Allocate, Vacant
<1>1. Len(list) \in Nat
  BY NodeAssumption
<1>2. /\ allocated' = k /\ allocated \in Nat /\ allocated' \in 0 .. Allocs
      /\ blocks' = blocks \cup {b0}
      /\ Payloads \subseteq Payloads'
      /\ Addresses \subseteq Addresses' /\ <<k, 0>> \in Addresses' \ Addresses
      /\ \A b \in blocks' : b.at \in Addresses' /\ b.size \in Nat
      /\ \A b, c \in blocks' : b.at = c.at => b = c
  BY <1>0, <1>1, AllocateEffect
<1>3. payload \in alive /\ payload \in Payloads /\ payload # Null
      /\ payload[1] \in 1 .. allocated
  BY PointerParts DEF IInv, BlockInv
<1>4. /\ b0.at = <<k, 0>> /\ b0.size = Len(list) /\ b0.data = list
      /\ nd.exec_payload = payload /\ nd.handles = <<k, 0>> /\ nd.size = Len(list)
      /\ nd.graph_id = graph /\ nd.wait_counter = wait_no
      /\ \A j \in 1 .. allocated : j # k
  BY <1>2
<1>5. nd \in [graph_id : Graphs \cup {Null}, wait_counter : Counts \cup {0},
              exec_payload : Payloads' \cup {Null},
              handles : Addresses' \cup {Null}, size : Nat]
  BY <1>1, <1>2, <1>3
<1>6. m0 = [graph_id |-> nd.graph_id, wait_counter |-> nd.wait_counter,
            payload |-> nd.exec_payload, list |-> {list}]
  OBVIOUS
<1> HIDE DEF k, nd, b0, m0
<1>7. node'[n] = nd /\ \A m \in Places : m # n => node'[m] = node[m]
  BY <1>0 DEF IInv, NodeInv
<1>8. ~Full(n) /\ Full(n)' /\ \A m \in Places : m # n => (Full(m)' <=> Full(m))
  BY <1>0, <1>3, <1>4, <1>7 DEF Full
<1>9. NodeInv'
  <2>1. \A m \in Places : node'[m] \in
          [graph_id : Graphs \cup {Null}, wait_counter : Counts \cup {0},
           exec_payload : Payloads' \cup {Null}, handles : Addresses' \cup {Null}, size : Nat]
    BY <1>2, <1>5, <1>7 DEF IInv, NodeInv
  <2>2. node' \in [Places -> [graph_id : Graphs \cup {Null}, wait_counter : Counts \cup {0},
                              exec_payload : Payloads' \cup {Null},
                              handles : Addresses' \cup {Null}, size : Nat]]
    BY <1>0, <2>1 DEF IInv, NodeInv
  <2>3. \A m \in Places : node'[m].exec_payload = Null => node'[m].handles = Null
    BY <1>3, <1>4, <1>7 DEF IInv, NodeInv
  <2> QED
    BY <2>2, <2>3 DEF NodeInv
<1>10. BlockInv'
  <2>1. alive' \subseteq Payloads' /\ held' \subseteq alive'
    BY <1>0, <1>2 DEF IInv, BlockInv
  <2>2. \A p \in alive' : \E b \in blocks' : b.at = <<p[1], 0>>
    BY <1>0, <1>2 DEF IInv, BlockInv
  <2> QED
    BY <1>2, <2>1, <2>2 DEF BlockInv
<1>11. WholeInv'
  <2> SUFFICES ASSUME NEW m \in Places, Full(m)'
               PROVE  /\ node'[m].exec_payload \notin held'
                      /\ \E b \in blocks' : b.at = node'[m].handles /\ b.size = node'[m].size
                      /\ Content(node[m])' \in made'
    BY DEF WholeInv
  <2>1. CASE m = n
    <3>1. {b \in blocks' : b.at = <<k, 0>>} = {b0}
      BY <1>2, <1>4 DEF IInv, BlockInv
    <3>2. {b.data : b \in {b \in blocks' : b.at = nd.handles}} = {list}
      BY <1>4, <3>1
    <3>3. Content(node[m])' = m0
      BY <1>6, <1>7, <2>1, <3>2 DEF Content
    <3> QED
      BY <1>0, <1>2, <1>4, <1>7, <2>1, <3>3
  <2>2. CASE m # n
    <3>1. Full(m) /\ node'[m] = node[m]
      BY <1>7, <1>8, <2>2
    <3>2. node[m].handles \in Addresses
      BY <3>1, FullParts
    <3>3. {b \in blocks' : b.at = node[m].handles} = {b \in blocks : b.at = node[m].handles}
      BY <1>2, <1>4, <3>2
    <3>4. Content(node[m])' = Content(node[m])
      BY <3>1, <3>3 DEF Content
    <3> QED
      BY <1>0, <1>2, <3>1, <3>4 DEF IInv, WholeInv
  <2> QED
    BY <2>1, <2>2
<1>12. ApartInv'
  <2>1. ASSUME NEW m \in Places, m # n, Full(m)
        PROVE  /\ node[m].exec_payload # payload /\ node[m].handles # <<k, 0>>
               /\ node[m].handles # <<payload[1], 0>>
               /\ <<k, 0>> # <<node[m].exec_payload[1], 0>>
    <3>1. node[m].handles \in Addresses /\ node[m].exec_payload[1] \in 1 .. allocated
      BY <2>1, FullParts
    <3>2. node[m].exec_payload # payload /\ node[m].handles # <<payload[1], 0>>
      BY <2>1 DEF IInv, WholeInv, ApartInv
    <3> QED
      BY <1>2, <1>4, <3>1, <3>2
  <2>2. <<k, 0>> # <<payload[1], 0>>
    BY <1>3, <1>4
  <2>3. \A p \in held' : <<k, 0>> # <<p[1], 0>>
    BY <1>0, <1>4, PointerParts DEF IInv, BlockInv
  <2>4. ASSUME NEW l \in Places, NEW m \in Places, Full(l)', Full(m)'
        PROVE  /\ l # m => /\ node'[l].exec_payload # node'[m].exec_payload
                           /\ node'[l].handles # node'[m].handles
               /\ node'[l].handles # <<node'[m].exec_payload[1], 0>>
    <3>1. CASE l = n /\ m = n
      BY <1>4, <1>7, <2>2, <3>1
    <3>2. CASE l = n /\ m # n
      BY <1>4, <1>7, <1>8, <2>1, <2>4, <3>2
    <3>3. CASE l # n /\ m = n
      BY <1>4, <1>7, <1>8, <2>1, <2>4, <3>3
    <3>4. CASE l # n /\ m # n
      BY <1>7, <1>8, <2>4, <3>4 DEF IInv, ApartInv
    <3> QED
      BY <3>1, <3>2, <3>3, <3>4
  <2>5. ASSUME NEW m \in Places, NEW p \in held', Full(m)'
        PROVE  node'[m].handles # <<p[1], 0>>
    <3>1. CASE m = n
      BY <1>4, <1>7, <2>3, <3>1
    <3>2. CASE m # n
      BY <1>0, <1>7, <1>8, <2>5, <3>2 DEF IInv, ApartInv
    <3> QED
      BY <3>1, <3>2
  <2> QED
    BY <2>4, <2>5 DEF ApartInv
<1>13. OwnerInv'
  <2> SUFFICES ASSUME NEW b \in blocks' PROVE Owned(b)' \/ Leftover(b)'
    BY DEF OwnerInv
  <2>1. CASE b = b0
    BY <1>4, <1>7, <1>8, <2>1 DEF Owned
  <2>2. CASE b \in blocks
    <3>1. Owned(b) \/ Leftover(b)
      BY <2>2 DEF IInv, OwnerInv
    <3>2. ASSUME NEW p \in held, b.at = <<p[1], 0>> PROVE Owned(b)'
      <4>1. CASE p = payload
        BY <1>4, <1>7, <1>8, <3>2, <4>1 DEF Owned
      <4>2. CASE p # payload
        BY <1>0, <3>2, <4>2 DEF Owned
      <4> QED
        BY <4>1, <4>2
    <3>3. ASSUME NEW m \in Places, Full(m),
                 b.at = node[m].handles \/ b.at = <<node[m].exec_payload[1], 0>>
          PROVE  Owned(b)'
      BY <1>7, <1>8, <3>3 DEF Owned
    <3>4. Leftover(b) => Leftover(b)'
      BY <1>0 DEF Leftover
    <3> QED
      BY <3>1, <3>2, <3>3, <3>4 DEF Owned
  <2> QED
    BY <1>2, <2>1, <2>2
<1>14. ReturnedAsAllocated'
  BY <1>0 DEF IInv, ReturnedAsAllocated
<1>15. KeptInv'
  BY <1>0, <1>4, <1>7 DEF IInv, KeptInv
<1> QED
  BY <1>0, <1>2, <1>9, <1>10, <1>11, <1>12, <1>13, <1>14, <1>15 DEF IInv

\* Nodes that can run only change places: what each owns it keeps.
LEMMA NodesMoved ==
  ASSUME IInv, phase = "up", phase' \in {"up", "crashed", "terminated"}, NEW from \in [Places -> Places],
         UNCHANGED <<held, blocks, alive, allocated, misfreed, offset, made>>,
         NodeInv',
         \A n \in Places : Full(n)' => /\ Full(from[n])
                                       /\ node'[n] = node[from[n]],
         \A n, m \in Places : Full(n)' /\ Full(m)' /\ from[n] = from[m] => n = m,
         \A n \in Places : Full(n) => \E m \in Places : Full(m)' /\ node'[m] = node[n]
  PROVE  IInv'
<1>1. BlockInv'
  BY DEF IInv, BlockInv, Addresses, Payloads
<1>2. WholeInv'
  <2> SUFFICES ASSUME NEW n \in Places, Full(n)'
               PROVE  /\ node'[n].exec_payload \notin held'
                      /\ \E b \in blocks' : b.at = node'[n].handles /\ b.size = node'[n].size
                      /\ Content(node[n])' \in made'
    BY DEF WholeInv
  <2>1. Content(node[n])' = Content(node[from[n]])
    BY DEF Content
  <2> QED
    BY <2>1 DEF IInv, WholeInv
<1>3. ApartInv'
  <2>1. ASSUME NEW n \in Places, NEW m \in Places, Full(n)', Full(m)'
        PROVE  /\ n # m => /\ node'[n].exec_payload # node'[m].exec_payload
                           /\ node'[n].handles # node'[m].handles
               /\ node'[n].handles # <<node'[m].exec_payload[1], 0>>
    <3>1. n # m => from[n] # from[m]
      BY <2>1
    <3> QED
      BY <2>1, <3>1 DEF IInv, ApartInv
  <2>2. ASSUME NEW n \in Places, NEW p \in held', Full(n)'
        PROVE  node'[n].handles # <<p[1], 0>>
    BY <2>2 DEF IInv, ApartInv
  <2> QED
    BY <2>1, <2>2 DEF ApartInv
<1>4. OwnerInv'
  <2> SUFFICES ASSUME NEW b \in blocks PROVE Owned(b)' \/ Leftover(b)'
    BY DEF OwnerInv
  <2>1. Owned(b) \/ Leftover(b)
    BY DEF IInv, OwnerInv
  <2>2. Owned(b) => Owned(b)'
    BY DEF Owned
  <2>3. Leftover(b) => Leftover(b)'
    BY DEF Leftover
  <2> QED
    BY <2>1, <2>2, <2>3
<1>5. ReturnedAsAllocated' /\ KeptInv'
  BY DEF IInv, ReturnedAsAllocated, KeptInv, Full
<1> QED
  BY <1>1, <1>2, <1>3, <1>4, <1>5 DEF IInv

\* The constructor throws: the place has no node, and had none that could run.
LEMMA ConstructThrowsKeeps ==
  ASSUME IInv, phase = "up", NEW n \in Places, NEW payload \in held, ConstructThrows(n, payload)
  PROVE  IInv'
<1> DEFINE from == [m \in Places |-> m]
<1>0. /\ node[n].exec_payload \notin alive /\ node' = [node EXCEPT ![n] = NoNode]
      /\ UNCHANGED <<held, blocks, alive, allocated, misfreed, offset, made, phase>>
  BY DEF ConstructThrows, Vacant, heap
<1>1. node'[n] = NoNode /\ \A m \in Places : m # n => node'[m] = node[m]
  BY <1>0 DEF IInv, NodeInv
<1>2. NoNode.exec_payload = Null /\ NoNode.handles = Null /\ Null \notin alive
  BY PointerParts DEF NoNode, IInv, BlockInv
<1>3. ~Full(n) /\ ~Full(n)' /\ \A m \in Places : m # n => (Full(m)' <=> Full(m))
  BY <1>0, <1>1, <1>2 DEF Full
<1>4. NodeInv'
  <2>1. NoNode \in [graph_id : Graphs \cup {Null}, wait_counter : Counts \cup {0},
                    exec_payload : Payloads \cup {Null}, handles : Addresses \cup {Null},
                    size : Nat]
    BY DEF NoNode
  <2>2. Payloads' = Payloads /\ Addresses' = Addresses
    BY <1>0 DEF Payloads, Addresses
  <2> QED
    BY <1>0, <1>1, <1>2, <2>1, <2>2 DEF IInv, NodeInv
<1>5. /\ from \in [Places -> Places]
      /\ \A m \in Places : from[m] = m
  OBVIOUS
<1> HIDE DEF from
<1> QED
  BY <1>0, <1>1, <1>3, <1>4, <1>5, NodesMoved

\* The new node takes all, the old one keeps nothing it could give back.
LEMMA MoveKeeps ==
  ASSUME IInv, phase = "up", NEW n \in Places, NEW other \in Places, Move(n, other)
  PROVE  IInv'
<1> DEFINE from == [m \in Places |-> IF m = n THEN other ELSE m]
           rest == [ListMovedOut(node[other]) EXCEPT !.exec_payload = Null]
<1>0. /\ node[n].exec_payload \notin alive /\ n # other
      /\ node' = [node EXCEPT ![n] = node[other], ![other] = rest]
      /\ UNCHANGED <<held, blocks, alive, allocated, misfreed, offset, made, phase>>
  BY DEF Move, Vacant, heap
<1>1. /\ node'[n] = node[other] /\ node'[other] = rest
      /\ \A m \in Places : m # n /\ m # other => node'[m] = node[m]
  BY <1>0 DEF IInv, NodeInv
<1>2. /\ rest.exec_payload = Null /\ rest.handles = Null
      /\ rest \in [graph_id : Graphs \cup {Null}, wait_counter : Counts \cup {0},
                   exec_payload : Payloads \cup {Null}, handles : Addresses \cup {Null},
                   size : Nat]
  BY DEF IInv, NodeInv, ListMovedOut
<1>3. Null \notin alive
  BY PointerParts DEF IInv, BlockInv
<1> HIDE DEF rest
<1>4. /\ ~Full(n) /\ ~Full(other)' /\ (Full(n)' <=> Full(other))
      /\ \A m \in Places : m # n /\ m # other => (Full(m)' <=> Full(m))
  <2>1. alive' = alive
    BY <1>0
  <2>2. ~Full(n) /\ (Full(n)' <=> Full(other))
    BY <1>0, <1>1, <2>1 DEF Full
  <2>3. ~Full(other)'
    BY <1>1, <1>2, <1>3, <2>1 DEF Full
  <2>4. \A m \in Places : m # n /\ m # other => (Full(m)' <=> Full(m))
    BY <1>1, <2>1 DEF Full
  <2> QED
    BY <2>2, <2>3, <2>4
<1>5. NodeInv'
  <2>1. Payloads' = Payloads /\ Addresses' = Addresses
    BY <1>0 DEF Payloads, Addresses
  <2> QED
    BY <1>0, <1>1, <1>2, <2>1 DEF IInv, NodeInv
<1>6. from \in [Places -> Places] /\ \A m \in Places : from[m] = IF m = n THEN other ELSE m
  OBVIOUS
<1> HIDE DEF from
<1>7. \A m \in Places : Full(m)' => Full(from[m]) /\ node'[m] = node[from[m]]
  BY <1>1, <1>4, <1>6
<1>8. \A l, m \in Places : Full(l)' /\ Full(m)' /\ from[l] = from[m] => l = m
  BY <1>4, <1>6
<1>9. \A l \in Places : Full(l) => \E m \in Places : Full(m)' /\ node'[m] = node[l]
  BY <1>1, <1>4
<1> QED
  BY <1>0, <1>5, <1>6, <1>7, <1>8, <1>9, NodesMoved

\* Steps that end the program, or run a callable, leave the ownership alone.
LEMMA PhaseKeeps ==
  ASSUME IInv, phase = "up", phase' \in {"up", "crashed", "terminated"},
         UNCHANGED <<node, held, heap, offset, made>>
  PROVE  IInv'
<1> DEFINE from == [m \in Places |-> m]
<1>0. UNCHANGED <<node, held, blocks, alive, allocated, misfreed, offset, made>>
  BY DEF heap
<1>1. \A m \in Places : Full(m)' <=> Full(m)
  BY <1>0 DEF Full
<1>2. NodeInv'
  BY <1>0 DEF IInv, NodeInv, Payloads, Addresses
<1>3. from \in [Places -> Places] /\ \A m \in Places : from[m] = m
  OBVIOUS
<1> HIDE DEF from
<1> QED
  BY <1>0, <1>1, <1>2, <1>3, NodesMoved

\* The payload is destroyed: one node can run no more, and the others are not
\* concerned.
LEMMA PayloadDestroyed ==
  ASSUME IInv, NEW n \in Places, Full(n), alive' = alive \ {node[n].exec_payload},
         UNCHANGED <<node, held, offset, allocated>>
  PROVE  /\ ~Full(n)' /\ \A m \in Places : m # n => (Full(m)' <=> Full(m))
         /\ NodeInv' /\ held' \subseteq alive' /\ alive' \subseteq Payloads'
<1>1. ~Full(n)' /\ \A m \in Places : m # n => (Full(m)' <=> Full(m))
  BY DEF IInv, ApartInv, Full
<1>2. Payloads' = Payloads /\ Addresses' = Addresses
  BY DEF Payloads, Addresses
<1>3. NodeInv'
  BY <1>2 DEF IInv, NodeInv
<1>4. held' \subseteq alive' /\ alive' \subseteq Payloads'
  BY <1>2 DEF IInv, BlockInv, WholeInv
<1> QED
  BY <1>1, <1>3, <1>4

\* The program ends between the destructor of the payload and size_of.
LEMMA DestroyAbortsKeeps ==
  ASSUME IInv, phase = "up", NEW n \in Places, DestroyAborts(n)
  PROVE  IInv'
<1>0. /\ Full(n) /\ alive' = alive \ {node[n].exec_payload} /\ phase' = "aborted"
      /\ UNCHANGED <<node, held, blocks, allocated, misfreed, offset, made>>
  BY DEF DestroyAborts, Full
<1>1. /\ ~Full(n)' /\ \A m \in Places : m # n => (Full(m)' <=> Full(m))
      /\ NodeInv' /\ held' \subseteq alive' /\ alive' \subseteq Payloads'
  BY <1>0, PayloadDestroyed
<1>2. BlockInv'
  BY <1>0, <1>1 DEF IInv, BlockInv, Addresses
<1>3. WholeInv'
  <2>1. \A m \in Places : Content(node[m])' = Content(node[m])
    BY <1>0 DEF Content
  <2> QED
    BY <1>0, <1>1, <2>1 DEF IInv, WholeInv
<1>4. ApartInv' /\ KeptInv' /\ OwnerInv' /\ ReturnedAsAllocated'
  BY <1>0, <1>1 DEF IInv, ApartInv, KeptInv, OwnerInv, ReturnedAsAllocated
<1> QED
  BY <1>0, <1>1, <1>2, <1>3, <1>4 DEF IInv

\* What destroy gives back: the list, and the payload's block when the base
\* comes first in it; otherwise the resource is called with an address it does
\* not know.
LEMMA DestroyEffect ==
  ASSUME IInv, NEW n \in Places, Full(n), Destroy(n)
  PROVE  LET k == node[n].exec_payload[1]
         IN /\ \A b : b \in blocks' <=> /\ b \in blocks /\ b.at # node[n].handles
                                        /\ offset = 0 => b.at # <<k, 0>>
            /\ misfreed \subseteq misfreed'
            /\ \A c \in misfreed' \ misfreed : offset # 0 /\ c.at = <<k, offset>>
            /\ offset # 0 => \E c \in misfreed' : c.at = <<k, offset>>
<1> DEFINE k == node[n].exec_payload[1]
           pc1 == [at |-> node[n].exec_payload, size |-> size_of(node[n].exec_payload)]
           lc == ListBlock(node[n])
           Named(b) == [at |-> b.at, size |-> b.size]
<1>1. /\ blocks' = {b \in blocks : Named(b) \notin {pc1, lc}}
      /\ misfreed' = misfreed \cup {c \in {pc1, lc} : \A b \in blocks : Named(b) # c}
  BY DEF Destroy, Deallocate
<1>2. /\ node[n].exec_payload = <<k, offset>> /\ node[n].handles \in Addresses
      /\ node[n].handles # <<k, 0>> /\ offset \in Nat
  BY FullParts, PointerParts DEF IInv, ApartInv
<1>3. PICK pb \in blocks : pb.at = <<k, 0>>
  BY DEF IInv, BlockInv, Full
<1>4. size_of(node[n].exec_payload) = pb.size
  <2>1. (CHOOSE b \in blocks : b.at = <<k, 0>>) = pb
    BY <1>3 DEF IInv, BlockInv
  <2> QED
    BY <2>1 DEF size_of
<1>5. PICK lb \in blocks : lb.at = node[n].handles /\ lb.size = node[n].size
  BY DEF IInv, WholeInv
<1>6. /\ pc1.at = <<k, offset>> /\ pc1.size = pb.size
      /\ lc.at = lb.at /\ lc.size = lb.size
      /\ \A b : Named(b) = pc1 <=> b.at = <<k, offset>> /\ b.size = pb.size
      /\ \A b : Named(b) = lc <=> b.at = lb.at /\ b.size = lb.size
  BY <1>2, <1>4, <1>5 DEF ListBlock
<1>7. \A b \in blocks : Named(b) = lc <=> b.at = node[n].handles
  BY <1>5, <1>6 DEF IInv, BlockInv
<1>8. \A b \in blocks : Named(b) = pc1 <=> offset = 0 /\ b.at = <<k, 0>>
  <2>1. \A b \in blocks : b.at = <<b.at[1], 0>>
    BY PointerParts DEF IInv, BlockInv
  <2>2. CASE offset = 0
    <3>1. \A b \in blocks : b.at = <<k, 0>> => b = pb
      BY <1>3 DEF IInv, BlockInv
    <3> QED
      BY <1>6, <2>2, <3>1
  <2>3. CASE offset # 0
    <3>1. \A b \in blocks : b.at # <<k, offset>>
      BY <2>1, <2>3
    <3> QED
      BY <1>6, <2>3, <3>1
  <2> QED
    BY <2>2, <2>3
<1> HIDE DEF pc1, lc, Named
<1>9. \A b : b \in blocks' <=> /\ b \in blocks /\ b.at # node[n].handles
                               /\ offset = 0 => b.at # <<k, 0>>
  BY <1>1, <1>7, <1>8
<1>10. \A c : c \in misfreed' <=> c \in misfreed \/ (c = pc1 /\ offset # 0)
  <2>1. ~\A b \in blocks : Named(b) # lc
    BY <1>5, <1>7
  <2>2. (\A b \in blocks : Named(b) # pc1) <=> offset # 0
    BY <1>3, <1>8
  <2> QED
    BY <1>1, <2>1, <2>2
<1> QED
  BY <1>6, <1>9, <1>10

\* Destroying a node leaves the other nodes their blocks.
LEMMA DestroyKeeps ==
  ASSUME IInv, phase = "up", NEW n \in Places, Destroy(n)
  PROVE  IInv'
<1> DEFINE k == node[n].exec_payload[1]
<1>0. /\ Full(n) /\ alive' = alive \ {node[n].exec_payload}
      /\ UNCHANGED <<node, held, allocated, offset, made, phase>>
  BY DEF Destroy, Full
<1>1. /\ ~Full(n)' /\ \A m \in Places : m # n => (Full(m)' <=> Full(m))
      /\ NodeInv' /\ held' \subseteq alive' /\ alive' \subseteq Payloads'
  BY <1>0, PayloadDestroyed
<1>2. /\ \A b : b \in blocks' <=> /\ b \in blocks /\ b.at # node[n].handles
                                  /\ offset = 0 => b.at # <<k, 0>>
      /\ misfreed \subseteq misfreed'
      /\ \A c \in misfreed' \ misfreed : offset # 0 /\ c.at = <<k, offset>>
      /\ offset # 0 => \E c \in misfreed' : c.at = <<k, offset>>
  BY <1>0, DestroyEffect
<1>3. \A p \in alive : p[1] = k => p = node[n].exec_payload
  <2>1. node[n].exec_payload \in alive /\ alive \subseteq Payloads
    BY <1>0 DEF IInv, BlockInv, Full
  <2> QED
    BY <2>1, PointerParts
<1>4. ASSUME NEW p \in alive'
      PROVE  <<p[1], 0>> # node[n].handles /\ <<p[1], 0>> # <<k, 0>>
  <2>1. p \in alive /\ p # node[n].exec_payload
    BY <1>0
  <2>2. p[1] # k
    BY <1>3, <2>1
  <2>3. p \in held \/ \E m \in Places : Full(m) /\ node[m].exec_payload = p
    BY <2>1 DEF IInv, KeptInv, Full
  <2>4. node[n].handles # <<p[1], 0>>
    BY <1>0, <2>3 DEF IInv, ApartInv
  <2> QED
    BY <2>2, <2>4
<1>5. BlockInv'
  <2>1. \A b \in blocks' : b.at \in Addresses' /\ b.size \in Nat
    BY <1>0, <1>2 DEF IInv, BlockInv, Addresses
  <2>2. \A b, c \in blocks' : b.at = c.at => b = c
    BY <1>2 DEF IInv, BlockInv
  <2>3. ASSUME NEW p \in alive' PROVE \E b \in blocks' : b.at = <<p[1], 0>>
    <3>1. PICK b \in blocks : b.at = <<p[1], 0>>
      BY <1>0 DEF IInv, BlockInv
    <3>2. b \in blocks'
      BY <1>2, <1>4, <3>1
    <3> QED
      BY <3>1, <3>2
  <2> QED
    BY <1>1, <2>1, <2>2, <2>3 DEF BlockInv
<1>6. ASSUME NEW m \in Places, m # n, Full(m)
      PROVE  node[m].handles # node[n].handles /\ node[m].handles # <<k, 0>>
  BY <1>0, <1>6 DEF IInv, ApartInv
<1>7. WholeInv'
  <2> SUFFICES ASSUME NEW m \in Places, Full(m)'
               PROVE  /\ node'[m].exec_payload \notin held'
                      /\ \E b \in blocks' : b.at = node'[m].handles /\ b.size = node'[m].size
                      /\ Content(node[m])' \in made'
    BY DEF WholeInv
  <2>1. m # n /\ Full(m) /\ node'[m] = node[m]
    BY <1>0, <1>1
  <2>2. {b \in blocks' : b.at = node[m].handles} = {b \in blocks : b.at = node[m].handles}
    BY <1>2, <1>6, <2>1
  <2>3. Content(node[m])' = Content(node[m])
    BY <2>1, <2>2 DEF Content
  <2>4. PICK b \in blocks : b.at = node[m].handles /\ b.size = node[m].size
    BY <2>1 DEF IInv, WholeInv
  <2>5. b \in blocks'
    BY <2>2, <2>4
  <2> QED
    BY <1>0, <2>1, <2>3, <2>4, <2>5 DEF IInv, WholeInv
<1>8. ApartInv' /\ KeptInv'
  BY <1>0, <1>1 DEF IInv, ApartInv, KeptInv
<1>9. OwnerInv'
  <2> SUFFICES ASSUME NEW b \in blocks' PROVE Owned(b)' \/ Leftover(b)'
    BY DEF OwnerInv
  <2>1. b \in blocks /\ b.at # node[n].handles /\ (offset = 0 => b.at # <<k, 0>>)
    BY <1>2
  <2>2. Owned(b) \/ Leftover(b)
    BY <1>0, <2>1 DEF IInv, OwnerInv
  <2>3. Leftover(b) => Leftover(b)'
    BY <1>0, <1>2 DEF Leftover
  <2>4. CASE b.at = <<k, 0>>
    <3>1. b.at[1] = k /\ offset # 0
      BY <2>1, <2>4
    <3>2. PICK c \in misfreed' : c.at = <<k, offset>>
      BY <1>2, <3>1
    <3> QED
      BY <1>0, <3>1, <3>2 DEF Leftover
  <2>5. CASE b.at # <<k, 0>> /\ Owned(b)
    BY <1>0, <1>1, <2>1, <2>5 DEF Owned
  <2> QED
    BY <2>2, <2>3, <2>4, <2>5
<1>10. ReturnedAsAllocated'
  <2> SUFFICES ASSUME NEW c \in misfreed' PROVE offset # 0 /\ c.at[2] = offset
    BY <1>0 DEF ReturnedAsAllocated
  <2>1. CASE c \in misfreed
    BY <2>1 DEF IInv, ReturnedAsAllocated
  <2>2. CASE c \notin misfreed
    BY <1>2, <2>2
  <2> QED
    BY <2>1, <2>2
<1> QED
  BY <1>0, <1>1, <1>5, <1>7, <1>8, <1>9, <1>10 DEF IInv

\* Every step; a program that has ended stays as it is.
LEMMA NextKeeps == IInv /\ [Next]_vars => IInv'
<1> SUFFICES ASSUME IInv, [Next]_vars PROVE IInv'
  OBVIOUS
<1>1. CASE UNCHANGED vars
  <2>1. UNCHANGED <<node, held, blocks, alive, allocated, misfreed, offset, made, phase>>
    BY <1>1 DEF vars, heap
  <2>2. Payloads' = Payloads /\ Addresses' = Addresses /\ \A m : Full(m)' <=> Full(m)
    BY <2>1 DEF Payloads, Addresses, Full
  <2>3. NodeInv' /\ BlockInv'
    BY <2>1, <2>2 DEF IInv, NodeInv, BlockInv
  <2>4. WholeInv'
    <3>1. \A m : Content(node[m])' = Content(node[m])
      BY <2>1 DEF Content
    <3> QED
      BY <2>1, <2>2, <3>1 DEF IInv, WholeInv
  <2>5. ApartInv' /\ KeptInv'
    BY <2>1, <2>2 DEF IInv, ApartInv, KeptInv
  <2>6. OwnerInv'
    <3>1. \A b : (Owned(b)' <=> Owned(b)) /\ (Leftover(b)' <=> Leftover(b))
      BY <2>1, <2>2 DEF Owned, Leftover
    <3> QED
      BY <2>1, <3>1 DEF IInv, OwnerInv
  <2>7. ReturnedAsAllocated'
    BY <2>1 DEF IInv, ReturnedAsAllocated
  <2> QED
    BY <2>1, <2>3, <2>4, <2>5, <2>6, <2>7 DEF IInv
<1>2. CASE Next
  <2>1. phase = "up"
    BY <1>2 DEF Next
  <2>2. ASSUME NEW size \in Sizes, MakePayload(size) PROVE IInv'
    BY <2>1, <2>2, MakePayloadKeeps
  <2>3. ASSUME NEW n \in Places, NEW payload \in held, NEW graph \in Graphs,
               NEW wait_no \in Counts, NEW list \in Lists,
               Construct(n, payload, graph, wait_no, list)
        PROVE  IInv'
    BY <2>1, <2>3, ConstructKeeps
  <2>4. ASSUME NEW n \in Places, NEW payload \in held, ConstructThrows(n, payload) PROVE IInv'
    BY <2>1, <2>4, ConstructThrowsKeeps
  <2>5. ASSUME NEW n \in Places, NEW other \in Places, Move(n, other) PROVE IInv'
    BY <2>1, <2>5, MoveKeeps
  <2>6. ASSUME NEW n \in Places, Invoke(n) \/ DestroyNull(n) PROVE IInv'
    BY <2>1, <2>6, PhaseKeeps DEF Invoke, DestroyNull
  <2>7. ASSUME NEW n \in Places, DestroyAborts(n) PROVE IInv'
    BY <2>1, <2>7, DestroyAbortsKeeps
  <2>8. ASSUME NEW n \in Places, Destroy(n) PROVE IInv'
    BY <2>1, <2>8, DestroyKeeps
  <2> QED
    BY <1>2, <2>2, <2>3, <2>4, <2>5, <2>6, <2>7, <2>8 DEF Next
<1> QED
  BY <1>1, <1>2

\* The invariant holds for any places, payloads, lists and allocations.
THEOREM Invariance == Spec => []IInv
BY InitInv, NextKeeps, PTL DEF Spec

-----------------------------------------------------------------------------
(* What it gives *)

\* The state has its type: every pointer is one the resource handed out.
THEOREM Types == Spec => []TypeOK
<1>1. IInv => TypeOK
  <2> SUFFICES ASSUME IInv PROVE TypeOK
    OBVIOUS
  <2>1. Payloads \subseteq Pointers /\ Addresses \subseteq Pointers
    BY NodeAssumption DEF IInv, Payloads, Addresses, Pointers
  <2> QED
    BY <2>1 DEF IInv, NodeInv, BlockInv, TypeOK
<1> QED
  BY <1>1, Invariance, PTL

\* Each block has one owner, the caller or a node, through moves, destructions
\* and constructors that throw.
THEOREM OneOwner == Spec => []BlocksHaveOneOwner
<1>1. IInv => BlocksHaveOneOwner
  <2> SUFFICES ASSUME IInv, phase # "aborted", NEW b \in blocks, Owned(b)
               PROVE  Cardinality(Owners(b)) = 1
    BY DEF BlocksHaveOneOwner, IInv, OwnerInv, Leftover
  <2>0. b.at = <<b.at[1], 0>> /\ b.at \in Addresses
    BY PointerParts DEF IInv, BlockInv
  <2>1. \A p : p[1] = b.at[1] <=> <<p[1], 0>> = b.at
    BY <2>0
  <2> DEFINE H == {p \in held : p[1] = b.at[1]}
             N == {n \in Places : Full(n) /\ \/ node[n].handles = b.at
                                             \/ node[n].exec_payload[1] = b.at[1]}
  <2>2. Owners(b) = H \cup N
    <3>1. ASSUME NEW n \in Places
          PROVE  (/\ Constructed(n)
                  /\ \/ node[n].handles = b.at
                     \/ /\ node[n].exec_payload # Null
                        /\ node[n].exec_payload[1] = b.at[1])
                 <=> n \in N
      <4>1. CASE node[n].exec_payload = Null
        <5>1. node[n].handles = Null /\ ~Full(n) /\ b.at # Null
          BY <2>0, <4>1, PointerParts DEF IInv, NodeInv, BlockInv, Full
        <5> QED
          BY <4>1, <5>1
      <4>2. CASE node[n].exec_payload # Null
        <5>1. Constructed(n) <=> Full(n)
          BY <4>2 DEF Constructed, Full, NoNode
        <5> QED
          BY <4>2, <5>1
      <4> QED
        BY <4>1, <4>2
    <3> HIDE DEF N
    <3>2. N \subseteq Places
      BY DEF N
    <3> QED
      BY <3>1, <3>2 DEF Owners
  <2>3. \A p, q \in H : p = q
    <3>1. held \subseteq Payloads
      BY DEF IInv, BlockInv
    <3> QED
      BY <3>1, PointerParts
  <2>4. \A n, m \in N : n = m
    <3> SUFFICES ASSUME NEW n \in N, NEW m \in N, n # m PROVE FALSE
      OBVIOUS
    <3>1. Full(n) /\ Full(m) /\ n \in Places /\ m \in Places
      OBVIOUS
    <3>2. /\ node[n].exec_payload # node[m].exec_payload /\ node[n].handles # node[m].handles
          /\ node[n].handles # <<node[m].exec_payload[1], 0>>
          /\ node[m].handles # <<node[n].exec_payload[1], 0>>
      BY <3>1 DEF IInv, ApartInv
    <3>3. node[n].exec_payload[1] # node[m].exec_payload[1]
      BY <3>1, <3>2, FullParts, PointerParts
    <3> QED
      BY <2>1, <3>2, <3>3
  <2>5. \A p \in H, n \in N : FALSE
    <3> SUFFICES ASSUME NEW p \in H, NEW n \in N PROVE FALSE
      OBVIOUS
    <3>1. Full(n) /\ n \in Places /\ p \in held /\ b.at = <<p[1], 0>>
      BY <2>1
    <3>2. node[n].handles # b.at /\ node[n].exec_payload # p
      BY <3>1 DEF IInv, ApartInv, WholeInv
    <3>3. node[n].exec_payload[1] # p[1]
      <4>1. p \in Payloads /\ node[n].exec_payload \in Payloads
        BY <3>1, FullParts DEF IInv, BlockInv
      <4> QED
        BY <3>2, <4>1, PointerParts
    <3> QED
      BY <3>2, <3>3
  <2>6. H # {} \/ N # {}
    BY <2>1 DEF Owned
  <2> HIDE DEF H, N
  <2>7. \E x : H \cup N = {x}
    BY <2>3, <2>4, <2>5, <2>6
  <2> QED
    BY <2>2, <2>7, FS_Singleton
<1> QED
  BY <1>1, Invariance, PTL

\* The resource gets back what it handed out, but for payloads whose base does
\* not come first.
THEOREM GivenBackAsTaken == Spec => []ReturnedAsAllocated
<1>1. IInv => ReturnedAsAllocated
  BY DEF IInv
<1> QED
  BY <1>1, Invariance, PTL

\* However often a node is moved, it stays what its constructor made.
THEOREM WholeAfterMoves == Spec => []MovedNodeIsWhole
<1>1. IInv => MovedNodeIsWhole
  BY DEF IInv, WholeInv, MovedNodeIsWhole, Constructed, Full
<1> QED
  BY <1>1, Invariance, PTL

=============================================================================
