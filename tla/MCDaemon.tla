------------------------------ MODULE MCDaemon ------------------------------
(* Instances of Daemon for TLC, with the mapping to ControlLink: two         *)
(* handlers are interchangeable.                                            *)
EXTENDS DaemonRefinement, TLC

Symmetry == Permutations(Handlers)
=============================================================================
