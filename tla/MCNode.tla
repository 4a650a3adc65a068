------------------------------- MODULE MCNode -------------------------------
(* Node with wait lists of up to two handles, and interchangeable places. *)
EXTENDS Node, TLC

MCLists == {<<>>, <<"h1", "h2">>}

Symmetry == Permutations(Places) \cup Permutations(Graphs)
=============================================================================
