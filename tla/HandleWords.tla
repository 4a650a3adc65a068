---------------------------- MODULE HandleWords ----------------------------
(***************************************************************************)
(* The 32-bit words source/taskete/pool_helper.hpp computes with.  A word  *)
(* is the set of its bits that are 1, so that &, | and ~ are set           *)
(* operations and every definition holds for words of any width.           *)
(*                                                                         *)
(* A shift by the whole width is undefined: a build either masks the shift *)
(* count (the word stays) or folds the result to 0.                        *)
(***************************************************************************)
EXTENDS Integers

CONSTANT Width  \* bits of a std::uint32_t and of a handle_t

ASSUME WidthAssumption == Width \in Nat \ {0}

Bit  == 0 .. Width - 1
Word == SUBSET Bit

Shl(w, n) == {b \in Bit : b - n \in w}
Shr(w, n) == {b \in Bit : b + n \in w}

\* The highest and the lowest bit of a word other than 0.
Top(w) == CHOOSE b \in w : \A c \in w : c <= b
Low(w) == CHOOSE b \in w : \A c \in w : b <= c

\* w - 1, and v < w.
Dec(w) == IF w = {} THEN Bit ELSE (w \ {Low(w)}) \cup 0 .. Low(w) - 1
Less(v, w) == \E b \in w \ v : \A c \in v \ w : c < b

\* What the build makes of a shift, defined or not.
Outcomes(shifted, w, n) == IF n < Width THEN {shifted} ELSE {w, {}}

\* The helper's log2: the position of the highest bit, counted from 1.
log2(v) == IF v = {} THEN 0 ELSE Top(v) + 1

\* Mutant of PoolMasks: the bound is one bit shorter.
PoolMasksShort(offsets, limit) ==
  {Shr(Shl(Bit \ offsets, log2(limit) - 1), log2(limit) - 1)}

\* The masks the constructor may end up with: ~offset_mask, its upper bits
\* cleared by a shift to the left and back.
PoolMasks(offsets, limit) ==
  LET up == Outcomes(Shl(Bit \ offsets, log2(limit)), Bit \ offsets, log2(limit))
  IN  UNION {Outcomes(Shr(w, log2(limit)), w, log2(limit)) : w \in up}
=============================================================================
