---------------------------- MODULE MCPoolHelper ----------------------------
(* PoolHelper on small words, with every option its assumptions allow. *)
EXTENDS HandleNumbers

AllCapacities == {w \in Word : w # {} /\ Width - 1 \notin Dec(w)}
AllLimits == Word \ {{}}
=============================================================================
