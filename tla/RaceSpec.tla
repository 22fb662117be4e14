------------------------------- MODULE RaceSpec --------------------------------
(***************************************************************************)
(* What a persistency race is, stated on the happens-before graph alone,   *)
(* and the detector as its user sees it: a process that examines the       *)
(* writes of the execution one at a time and reports exactly the races of  *)
(* which that write is W(Y).                                               *)
(*                                                                         *)
(* A race is a read R(X), a write W(Y) that depends on it and a write W(X) *)
(* whose value the read may have taken although nothing makes it durable   *)
(* before W(Y).                                                            *)
(***************************************************************************)
EXTENDS HBG

VARIABLES
  hbg, pdg, presets,   \* the input, fixed from the first state
  examined,            \* the writes looked at so far
  races                \* the races reported so far

inputs == <<hbg, pdg, presets>>
vars == <<hbg, pdg, presets, examined, races>>

IsWrite(n) == IsType(hbg, n, "WRITE")

(* Happens-before, as far as the presets let the detector see it. *)
HappensBefore(a, b) ==
  IF presets.ignore_inter_thread_edges
  THEN a[1] = b[1] /\ a[2] < b[2]
  ELSE a \in hbg.past[b]

(* The event e on a line is durable at d: some flush of the line comes     *)
(* between them.                                                           *)
PersistedBefore(e, d) ==
  /\ ~ presets.ignore_flush_nodes
  /\ \E f \in Nodes(hbg) : /\ IsType(hbg, f, "FLUSH")
                           /\ Node(hbg, f).line = Node(hbg, e).line
                           /\ HappensBefore(e, f)
                           /\ HappensBefore(f, d)

(* R(X) itself was made durable after it was read, so W(X) was too. *)
ReadIsPersisted(r, d) ==
  /\ ~ presets.ignore_read_node_persistency
  /\ ~ presets.ignore_persisted_before_index
  /\ PersistedBefore(r, d)

WriteIsPersisted(w, d) ==
  ~ presets.ignore_persisted_before_index /\ PersistedBefore(w, d)

WriteIsLater(w, r) ==
  ~ presets.ignore_happens_after_index /\ HappensBefore(r, w)

IsRace(r, w, d) ==
  /\ <<d, r>> \in pdg
  /\ IsWrite(w)
  /\ Overlap(hbg, w, r)
  /\ ~ Node(hbg, w).nt        \* a non-temporal write needs no flush
  /\ ~ ReadIsPersisted(r, d)
  /\ ~ WriteIsPersisted(w, d)
  /\ ~ WriteIsLater(w, r)

(* With show_only_first_bug_in_thread only the earliest W(X) of a thread   *)
(* is reported for each R(X) and W(Y).                                     *)
IsReported(r, w, d) ==
  /\ IsRace(r, w, d)
  /\ presets.show_only_first_bug_in_thread =>
       \A i \in 1..(w[2] - 1) : ~ IsRace(r, <<w[1], i>>, d)

(* ordered tells whether W(X) happens before W(Y) (is_write_hb_dependent). *)
Race(r, w, d, ordered) == [read |-> r, write |-> w, dependent |-> d, ordered |-> ordered]

RacesOf(d) ==
  {Race(p[1], p[2], d, HappensBefore(p[2], d)) :
     p \in {q \in Nodes(hbg) \X Nodes(hbg) : IsReported(q[1], q[2], d)}}

--------------------------------------------------------------------------------

Init ==
  /\ IsInput(hbg, pdg, presets)
  /\ examined = {}
  /\ races = {}

Examine(d) ==
  /\ IsWrite(d)
  /\ d \notin examined
  /\ examined' = examined \cup {d}
  /\ races' = races \cup RacesOf(d)
  /\ UNCHANGED inputs

Next == \E d \in Nodes(hbg) : Examine(d)

Spec == Init /\ [][Next]_vars
================================================================================
