------------------------------- MODULE MCTracing --------------------------------
(***************************************************************************)
(* Two threads, two pages and two descriptors.                             *)
(***************************************************************************)
EXTENDS Tracing, TLC

Symmetry == Permutations(Threads) \cup Permutations(Pages) \cup Permutations(Fds)
================================================================================
