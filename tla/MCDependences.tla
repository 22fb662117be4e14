----------------------------- MODULE MCDependences -----------------------------
(***************************************************************************)
(* Two threads on two cache lines, one of them with two cells.             *)
(***************************************************************************)
EXTENDS Dependences, TLC

MCLineOf == [c \in Cells |-> IF c = "y" THEN "Y" ELSE "X"]
ThreadSymmetry == Permutations(Threads)
================================================================================
