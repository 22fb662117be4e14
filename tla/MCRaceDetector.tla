---------------------------- MODULE MCRaceDetector -----------------------------
(***************************************************************************)
(* The fast detector on small executions.                                  *)
(***************************************************************************)
EXTENDS RaceDetector, Executions
================================================================================
