--------------------------- MODULE HandleNumbers ---------------------------
(***************************************************************************)
(* The numbers the words of source/taskete/pool_helper.hpp stand for, and  *)
(* the arithmetic its shifts and masks are meant to do.                    *)
(***************************************************************************)
EXTENDS PoolHelper

pow2[n \in Nat] == IF n = 0 THEN 1 ELSE 2 * pow2[n - 1]

\* The number the lowest n bits of a word stand for.
Lowest(w) ==
  LET sum[n \in Nat] ==
        IF n = 0 THEN 0
                 ELSE sum[n - 1] + (IF n - 1 \in w THEN pow2[n - 1] ELSE 0)
  IN  sum

Value(w) == Lowest(w)[Width]

\* The word that stands for a number below pow2[Width].
WordOf(n) == {b \in Bit : (n \div pow2[b]) % 2 = 1}

\* With options that suit the helper a handle is a number in base
\* pool_capacity, index before offset, and the masks and shifts that take it
\* apart divide by the capacity.
RegularHandleIsNumber ==
  Regular =>
    /\ Value(handle) = Value(index) * Value(pool_capacity) + Value(offset)
    /\ Value(extract_pool(handle)) = Value(handle) \div Value(pool_capacity)
    /\ Value(extract_offset(handle)) = Value(handle) % Value(pool_capacity)
=============================================================================
