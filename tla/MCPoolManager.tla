---------------------------- MODULE MCPoolManager ----------------------------
(* PoolManager with the handles PoolHelper makes, in words of six bits.    *)
EXTENDS PoolFreeLists

Width == 6
Word(n) == {b \in 0 .. Width - 1 : (n \div 2 ^ b) % 2 = 1}

W == INSTANCE HandleWords

OffsetMask == W!Dec(Word(Capacity))

\* The helper the manager constructs from its options.
Helper ==
  INSTANCE HandleNumbers WITH
    Capacities <- {Word(Capacity)}, Limits <- {Word(MaxPools)},
    pool_capacity <- Word(Capacity), max_pools <- Word(MaxPools),
    offset_mask <- OffsetMask, pool_shift <- W!log2(OffsetMask),
    pool_mask <- CHOOSE w \in W!PoolMasks(OffsetMask, Word(MaxPools)) : TRUE,
    index <- {}, offset <- {}, handle <- {}

MCHandle(i, b) == Helper!make_handle(Word(i), Word(b))
MCPoolOf(h) == Helper!Value(Helper!extract_pool(h))
MCOffsetOf(h) == Helper!Value(Helper!extract_offset(h))
=============================================================================
