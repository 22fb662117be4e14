------------------------------ MODULE EpochClocks ------------------------------
(***************************************************************************)
(* The clocks of the offline analysis: Epoch, ReversedEpoch and the vector *)
(* clocks built from them.  A component holds the position of a node in    *)
(* its thread.  Python positions start at 0 and the absent epoch is None;  *)
(* here positions start at 1 and None is 0, so that Epoch's order (None is *)
(* minus infinity) is the order of the naturals.                           *)
(***************************************************************************)
EXTENDS Naturals

None == 0

(* ReversedEpoch.__lt__: the order is flipped and None is plus infinity. *)
ReversedLess(a, b) == b # None /\ (a = None \/ b < a)

(* AbstractVectorClock.merge with EpochClass = Epoch: the later epoch wins. *)
Merge(v, w) == [t \in DOMAIN v |-> IF v[t] < w[t] THEN w[t] ELSE v[t]]

(* The same loop with EpochClass = ReversedEpoch: the earlier epoch wins. *)
ReversedMerge(v, w) ==
  [t \in DOMAIN v |-> IF ReversedLess(v[t], w[t]) THEN w[t] ELSE v[t]]

(* VectorClock.is_happens_before: the event (t, i) is known to the clock. *)
IsHappensBefore(v, t, i) == i <= v[t]

(* Mutant of IsHappensAfter: None counts as minus infinity. *)
NoneIsHappensAfter(v, t, i) == v[t] <= i

(* ReversedVectorClock.is_happens_after: the event (t, i) is not earlier   *)
(* than the first event of t known to come after the clock.                *)
IsHappensAfter(v, t, i) == v[t] # None /\ v[t] <= i
================================================================================
