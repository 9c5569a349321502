----------------------------- MODULE MCTerminal -----------------------------
(* Instances of Terminal for TLC: the ids are interchangeable.              *)
EXTENDS Terminal, TLC

Symmetry == Permutations(Ids)
=============================================================================
