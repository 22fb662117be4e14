-------------------------- MODULE MCRaceDetectorSlow ---------------------------
(***************************************************************************)
(* The slow detector on small executions.                                  *)
(***************************************************************************)
EXTENDS RaceDetectorSlow, Executions
================================================================================
