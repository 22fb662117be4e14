--------------------------- MODULE RaceDetectorSlow ----------------------------
(***************************************************************************)
(* PersistencyRaceDetector.run without use_faster_version: the             *)
(* happens-after stage, then _do_persisted_before_vector_clocks_analysis.  *)
(*                                                                         *)
(* At an epoch node a thread first tells the node's children what it knows *)
(* of its dirty lines and only then takes over what other threads have     *)
(* left for it at the node.  Every line it takes over becomes dirty again  *)
(* for every other thread, so that it is passed on at the next epoch node. *)
(***************************************************************************)
EXTENDS FindBugs

VARIABLES
  epoch_seen,               \* [node -> [line -> clock]]: pvc_per_epoch_node, _last_seen
  epoch_persisted,          \* [node -> [line -> clock]]: pvc_per_epoch_node, _last_persisted
  epoch_lines,              \* [node -> lines]: the keys of pvc_per_epoch_node[node]
  dirty_cachelines,         \* [thread -> lines]
  dirty_cachelines_vector   \* [thread -> [thread -> lines]]

epoch_vars == <<epoch_seen, epoch_persisted, epoch_lines>>
dirty_vars == <<dirty_cachelines, dirty_cachelines_vector>>
vars == <<inputs, ha_vars, find_vars, epoch_vars, dirty_vars>>

Init ==
  /\ FindInit
  /\ epoch_seen = [n \in Nodes(hbg) |-> NoClocks]
  /\ epoch_persisted = [n \in Nodes(hbg) |-> NoClocks]
  /\ epoch_lines = [n \in Nodes(hbg) |-> {}]
  /\ dirty_cachelines = [t \in Threads |-> {}]
  /\ dirty_cachelines_vector = [t \in Threads |-> [u \in Threads |-> {}]]

HappensAfterStep(n) ==
  /\ HANext(n)
  /\ UNCHANGED <<inputs, find_vars, epoch_vars, dirty_vars>>

(* dirty_cachelines[n.tid].add(n.get_cacheline_address()) *)
SetDirty(n) ==
  /\ dirty_cachelines' = [dirty_cachelines EXCEPT ![n[1]] = @ \cup {Node(hbg, n).line}]
  /\ UNCHANGED dirty_cachelines_vector

Write(n) ==
  /\ TouchWrite(n)
  /\ SetDirty(n)
  /\ UNCHANGED <<inputs, ha_vars, epoch_vars>>

Read(n) ==
  /\ TouchRead(n)
  /\ SetDirty(n)
  /\ UNCHANGED <<inputs, ha_vars, epoch_vars>>

Flush(n) ==
  /\ TouchFlush(n)
  /\ SetDirty(n)
  /\ UNCHANGED <<inputs, ha_vars, epoch_vars>>

Skip(n) ==
  /\ SkipFlush(n) \/ SkipEpoch(n)
  /\ UNCHANGED <<inputs, ha_vars, epoch_vars, dirty_vars>>

(* The thread's row of the vector with the temporary buffer dumped in. *)
DumpedVector(t) ==
  [u \in Threads |-> IF u = t THEN {}
                     ELSE dirty_cachelines_vector[t][u] \cup dirty_cachelines[t]]

(* Mutant of ToldLines: telling one child clears the whole row. *)
LinesForTheFirstOnly(n, rank, m) ==
  IF \E j \in InterChildren(hbg, n) : rank[j] < rank[m] THEN {} ELSE DumpedVector(n[1])[m[1]]

(* The lines child m is told about: none if an earlier child was of the    *)
(* same thread, for the cell is cleared after each child.                  *)
ToldLines(n, rank, m) ==
  IF \E j \in InterChildren(hbg, n) : j[1] = m[1] /\ rank[j] < rank[m]
  THEN {} ELSE DumpedVector(n[1])[m[1]]

TellClocks(n, rank, m, told, mine) ==
  [c \in Lines |-> IF c \in ToldLines(n, rank, m) THEN Merge(told[c], mine[c]) ELSE told[c]]

Epoch(n) ==
  LET t        == n[1]
      children == InterChildren(hbg, n)
  IN  /\ ~ presets.ignore_inter_thread_edges
      /\ PBVisit(n, "EPOCH")
      /\ \E rank \in TellOrders(children) :
           /\ epoch_seen' = AfterEpoch(n, epoch_seen, NoClocks,
                [m \in children |-> TellClocks(n, rank, m, epoch_seen[m], last_seen[t])])
           /\ epoch_persisted' = AfterEpoch(n, epoch_persisted, NoClocks,
                [m \in children |-> TellClocks(n, rank, m, epoch_persisted[m], last_persisted[t])])
           /\ epoch_lines' = AfterEpoch(n, epoch_lines, {},
                [m \in children |-> epoch_lines[m] \cup ToldLines(n, rank, m)])
      /\ last_seen' = [last_seen EXCEPT ![t] = MergedClocks(last_seen[t], epoch_seen[n])]
      /\ last_persisted' =
           [last_persisted EXCEPT ![t] = MergedClocks(last_persisted[t], epoch_persisted[n])]
      /\ dirty_cachelines_vector' =
           [dirty_cachelines_vector EXCEPT ![t] =
              [u \in Threads |-> IF \E m \in children : m[1] = u THEN {} ELSE DumpedVector(t)[u]]]
      /\ dirty_cachelines' = [dirty_cachelines EXCEPT ![t] = epoch_lines[n]]
      /\ UNCHANGED <<inputs, ha_vars, races>>

PersistedBeforeStep(n) == Write(n) \/ Read(n) \/ Flush(n) \/ Skip(n) \/ Epoch(n)

(* run() has returned. *)
Finished == pb_visited = Nodes(hbg) /\ HADone /\ UNCHANGED vars

Next ==
  \/ \E n \in Nodes(hbg) : HappensAfterStep(n) \/ PersistedBeforeStep(n)
  \/ Finished

Spec == Init /\ [][Next]_vars
--------------------------------------------------------------------------------

TypeOK ==
  /\ HATypeOK
  /\ FindTypeOK
  /\ epoch_seen \in [Nodes(hbg) -> [Lines -> Clocks]]
  /\ epoch_persisted \in [Nodes(hbg) -> [Lines -> Clocks]]
  /\ epoch_lines \in [Nodes(hbg) -> SUBSET Lines]
  /\ dirty_cachelines \in [Threads -> SUBSET Lines]
  /\ dirty_cachelines_vector \in [Threads -> [Threads -> SUBSET Lines]]

(* On graphs whose edges tell news and are direct the slow version, too,   *)
(* reports the races and nothing else, although it tells an epoch node's   *)
(* children less than the thread knows after that node.                    *)
ImplementsRaceSpec ==
  /\ IsRecorded(hbg) => Abstract!Init
  /\ [][IsRecorded(hbg) => Abstract!Next]_(Abstract!vars)
================================================================================
