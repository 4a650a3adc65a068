----------------------------- MODULE KeyedStore -----------------------------
(***************************************************************************)
(* What shared_memory promises the nodes of a graph (the comments of       *)
(* source/taskete/shared_memory.hpp): a key gets an object once, keeps it, *)
(* and no object serves two keys, until the store is closed.               *)
(***************************************************************************)
CONSTANTS Keys, Objects, Null

VARIABLES store,  \* the object of each key, or Null
          open    \* the store has not been destructed

Init == store = [k \in Keys |-> Null] /\ open = TRUE

Put(k, obj) ==
  /\ open = TRUE
  /\ store[k] = Null
  /\ \A j \in Keys : store[j] # obj
  /\ store' = [store EXCEPT ![k] = obj]
  /\ UNCHANGED open

Close ==
  /\ open = TRUE /\ open' = FALSE
  /\ store' = [k \in Keys |-> Null]

Next == Close \/ \E k \in Keys, obj \in Objects : Put(k, obj)

Spec == Init /\ [][Next]_<<store, open>>
=============================================================================
