----------------------------- MODULE PoolHelper -----------------------------
(***************************************************************************)
(* source/taskete/pool_helper.hpp: how a pool_manager packs a pool index   *)
(* and a block offset into one handle and takes them out again.            *)
(*                                                                         *)
(* The words, and the masks built from them, are those of HandleWords.     *)
(***************************************************************************)
EXTENDS HandleWords

CONSTANTS Capacities,  \* the values of options.pool_capacity considered
          Limits       \* the values of options.max_pools considered

\* A capacity of 0 has no block to hand out and one above half the range of
\* a handle shifts by the whole width; a limit of 0 allows no pool.
ASSUME HelperAssumption ==
  /\ Capacities \subseteq {w \in Word : w # {} /\ Width - 1 \notin Dec(w)}
  /\ Limits \subseteq Word \ {{}}

VARIABLES pool_capacity, max_pools,           \* the options
          offset_mask, pool_mask, pool_shift, \* the helper's members
          index, offset, handle               \* the last make_handle

options == <<pool_capacity, max_pools>>
helper  == <<offset_mask, pool_mask, pool_shift>>
vars    == <<options, helper, index, offset, handle>>

\* pool_helper::pool_helper(options).
Construct ==
  /\ offset_mask = Dec(pool_capacity)
  /\ pool_shift = log2(offset_mask)
  /\ pool_mask \in PoolMasks(offset_mask, max_pools)

\* Mutant of make_handle: the 64-bit value is not cut to a handle_t.
make_handle_wide(i, o) == {b + pool_shift : b \in i} \cup o

make_handle(i, o) == Shl(i, pool_shift) \cup o

\* Mutant of extract_pool: the mask is applied after the shift.
extract_pool_late_mask(h) == Shr(h, pool_shift) \cap pool_mask

extract_pool(h) == Shr(h \cap pool_mask, pool_shift)

extract_offset(h) == h \cap offset_mask

Init ==
  /\ pool_capacity \in Capacities /\ max_pools \in Limits
  /\ Construct
  /\ index = {} /\ offset = {} /\ handle = {}

\* The manager makes a handle for a block of one of its pools.  The helper
\* never changes: one handle in a behaviour stands for all of them.
MakeHandle(i, o) ==
  /\ index = {} /\ offset = {}
  /\ Less(i, max_pools) /\ Less(o, pool_capacity)
  /\ index' = i /\ offset' = o
  /\ handle' = make_handle(i, o)
  /\ UNCHANGED <<options, helper>>

Next == \E i, o \in Word : MakeHandle(i, o)

Spec == Init /\ [][Next]_vars

-----------------------------------------------------------------------------
\* The type of the state.
TypeOK ==
  /\ pool_capacity \in Word /\ max_pools \in Word
  /\ offset_mask \in Word /\ pool_mask \in Word /\ pool_shift \in 0 .. Width
  /\ index \in Word /\ offset \in Word /\ handle \in Word

\* The helper's members suit its options: the capacity is a power of two, and
\* offset, greatest index and the upper bits cleared from the mask (as many
\* as max_pools is long) fit into a word together.
Regular ==
  /\ log2(max_pools) < Width
  /\ \E k \in Bit : /\ pool_capacity = {k}
                   /\ k + log2(Dec(max_pools)) + log2(max_pools) <= Width

Decodes == extract_pool(handle) = index /\ extract_offset(handle) = offset

\* get and destroy find the block that construct handed out: with options
\* that suit the helper, a handle decodes to the pool and the block it was
\* made for (so that no two blocks share a handle).
RegularHandleDecodes == Regular => Decodes

\* Every block of every pool within the options is found by its handle.
AllDecode ==
  \A i, o \in Word :
    Less(i, max_pools) /\ Less(o, pool_capacity) =>
      /\ extract_pool(make_handle(i, o)) = i
      /\ extract_offset(make_handle(i, o)) = o

\* Of all the options pool_options.hpp lets a user choose, exactly the regular
\* ones serve, wherever the shifts of the constructor are defined.  A capacity
\* that is no power of two, or a max_pools whose length cuts into the index
\* bits, leaves some block that get and destroy do not find.
RegularIsExact == log2(max_pools) < Width => (AllDecode <=> Regular)
=============================================================================
