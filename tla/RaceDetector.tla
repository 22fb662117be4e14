----------------------------- MODULE RaceDetector ------------------------------
(***************************************************************************)
(* PersistencyRaceDetector.run with use_faster_version: the happens-after  *)
(* stage, then _do_persisted_before_vector_clocks_analysis_fast.           *)
(*                                                                         *)
(* At an epoch node a thread first takes over what other threads have left *)
(* for it there and then tells the node's children what it knows of the    *)
(* lines that are dirty with respect to the child's thread.                *)
(* DirtyCachelinesVector is the bookkeeping of those lines; an epoch node  *)
(* has one of its own, in which it is also told which lines its thread     *)
(* must pass on.                                                           *)
(***************************************************************************)
EXTENDS FindBugs

VARIABLES
  epoch_seen,        \* [node -> [line -> clock]]: pvc_per_epoch_node, _last_seen
  epoch_persisted,   \* [node -> [line -> clock]]: pvc_per_epoch_node, _last_persisted
  pending_dirty,     \* [thread -> lines]: _pending_dirty_cachelines
  dirty,             \* [thread -> [thread -> lines]]: _vector of a thread
  epoch_dirty        \* [node -> [thread -> lines]]: _vector of an epoch node

epoch_vars == <<epoch_seen, epoch_persisted>>
dirty_vars == <<pending_dirty, dirty, epoch_dirty>>
vars == <<inputs, ha_vars, find_vars, epoch_vars, dirty_vars>>

CleanVector == [u \in Threads |-> {}]

Init ==
  /\ FindInit
  /\ epoch_seen = [n \in Nodes(hbg) |-> NoClocks]
  /\ epoch_persisted = [n \in Nodes(hbg) |-> NoClocks]
  /\ pending_dirty = [t \in Threads |-> {}]
  /\ dirty = [t \in Threads |-> CleanVector]
  /\ epoch_dirty = [n \in Nodes(hbg) |-> CleanVector]

HappensAfterStep(n) ==
  /\ HANext(n)
  /\ UNCHANGED <<inputs, find_vars, epoch_vars, dirty_vars>>

(* Mutant of SetCachelineDirty: addresses are not rounded to their line. *)
SetAddressesDirty(n) ==
  /\ pending_dirty' = [pending_dirty EXCEPT ![n[1]] = @ \cup Node(hbg, n).words]
  /\ UNCHANGED <<dirty, epoch_dirty>>

(* set_cacheline_dirty: the line waits in the pending buffer. *)
SetCachelineDirty(n) ==
  /\ pending_dirty' = [pending_dirty EXCEPT ![n[1]] = @ \cup {Node(hbg, n).line}]
  /\ UNCHANGED <<dirty, epoch_dirty>>

Write(n) ==
  /\ TouchWrite(n)
  /\ SetCachelineDirty(n)
  /\ UNCHANGED <<inputs, ha_vars, epoch_vars>>

Read(n) ==
  /\ TouchRead(n)
  /\ SetCachelineDirty(n)
  /\ UNCHANGED <<inputs, ha_vars, epoch_vars>>

Flush(n) ==
  /\ TouchFlush(n)
  /\ SetCachelineDirty(n)
  /\ UNCHANGED <<inputs, ha_vars, epoch_vars>>

Skip(n) ==
  /\ SkipFlush(n) \/ SkipEpoch(n)
  /\ UNCHANGED <<inputs, ha_vars, epoch_vars, dirty_vars>>

(* Mutant of MergedDirty: the pending buffer is not dumped. *)
MergedDirtyWithoutPending(n) ==
  [u \in Threads |-> IF u = n[1] THEN {} ELSE dirty[n[1]][u] \cup epoch_dirty[n][u]]

(***************************************************************************)
(* The epoch node.                                                         *)
(***************************************************************************)
(* The thread's dirty vector after it merged the node's, with the pending  *)
(* buffer dumped into it if some child makes it read the vector.           *)
MergedDirty(n) ==
  LET t == n[1]
  IN  [u \in Threads |->
         IF u = t THEN {}
         ELSE dirty[t][u] \cup epoch_dirty[n][u]
              \cup (IF InterChildren(hbg, n) = {} THEN {} ELSE pending_dirty[t])]

(* What the thread still holds dirty when the turn of child m comes: the   *)
(* cells of the threads told before have been cleared.                     *)
DirtyAtTurn(n, rank, m) ==
  LET told == {k[1] : k \in {j \in InterChildren(hbg, n) : rank[j] < rank[m]}}
  IN  [u \in Threads |-> IF u \in told THEN {} ELSE MergedDirty(n)[u]]

(* Child m's clocks after the turn: only the lines dirty for its thread. *)
TellClocks(n, rank, m, told, mine) ==
  [c \in Lines |-> IF c \in DirtyAtTurn(n, rank, m)[m[1]]
                   THEN Merge(told[c], mine[c]) ELSE told[c]]

(* Mutant of TellDirty: update_child clears the cell and passes nothing on. *)
TellNothingDirty(n, rank, m) == epoch_dirty[m]

(* update_child: m is told which lines to pass on to third threads. *)
TellDirty(n, rank, m) ==
  [u \in Threads |-> IF u \in {n[1], m[1]} THEN epoch_dirty[m][u]
                     ELSE epoch_dirty[m][u] \cup DirtyAtTurn(n, rank, m)[u]]

Epoch(n) ==
  LET t         == n[1]
      children  == InterChildren(hbg, n)
      seen      == MergedClocks(last_seen[t], epoch_seen[n])
      persisted == MergedClocks(last_persisted[t], epoch_persisted[n])
  IN  /\ ~ presets.ignore_inter_thread_edges
      /\ PBVisit(n, "EPOCH")
      /\ last_seen' = [last_seen EXCEPT ![t] = seen]
      /\ last_persisted' = [last_persisted EXCEPT ![t] = persisted]
      /\ \E rank \in TellOrders(children) :
           /\ epoch_seen' = AfterEpoch(n, epoch_seen, NoClocks,
                [m \in children |-> TellClocks(n, rank, m, epoch_seen[m], seen)])
           /\ epoch_persisted' = AfterEpoch(n, epoch_persisted, NoClocks,
                [m \in children |-> TellClocks(n, rank, m, epoch_persisted[m], persisted)])
           /\ epoch_dirty' = AfterEpoch(n, epoch_dirty, CleanVector,
                [m \in children |-> TellDirty(n, rank, m)])
      /\ dirty' = [dirty EXCEPT ![t] =
                     [u \in Threads |-> IF \E m \in children : m[1] = u
                                        THEN {} ELSE MergedDirty(n)[u]]]
      /\ pending_dirty' = [pending_dirty EXCEPT ![t] = IF children = {} THEN @ ELSE {}]
      /\ UNCHANGED <<inputs, ha_vars, races>>

PersistedBeforeStep(n) == Write(n) \/ Read(n) \/ Flush(n) \/ Skip(n) \/ Epoch(n)

(* run() has returned. *)
Finished == pb_visited = Nodes(hbg) /\ HADone /\ UNCHANGED vars

Next ==
  \/ \E n \in Nodes(hbg) : HappensAfterStep(n) \/ PersistedBeforeStep(n)
  \/ Finished

Spec == Init /\ [][Next]_vars
--------------------------------------------------------------------------------

TypeOK ==
  /\ HATypeOK
  /\ FindTypeOK
  /\ epoch_seen \in [Nodes(hbg) -> [Lines -> Clocks]]
  /\ epoch_persisted \in [Nodes(hbg) -> [Lines -> Clocks]]
  /\ pending_dirty \in [Threads -> SUBSET Lines]
  /\ dirty \in [Threads -> [Threads -> SUBSET Lines]]
  /\ epoch_dirty \in [Nodes(hbg) -> [Threads -> SUBSET Lines]]

(* No clock, of a thread or left at an epoch node, has more persisted than *)
(* seen: a flush, which overwrites what persisted with what was seen       *)
(* (PersistencyVectorClock.flush), never forgets what had persisted, and   *)
(* an epoch node tells the two parts of a clock together.                  *)
PersistedNeverAheadOfSeen ==
  \A c \in Lines, u \in Threads :
    /\ \A t \in Threads : last_persisted[t][c][u] <= last_seen[t][c][u]
    /\ \A n \in Nodes(hbg) : epoch_persisted[n][c][u] <= epoch_seen[n][c][u]

(* Where edges tell news but may be missing, as in the tests, a thread can *)
(* hear of a flush through third threads only.  It always does: no write   *)
(* that is persisted before W(Y) is reported, because an epoch node merges *)
(* before it tells its children and tells them what to pass on.            *)
PersistedIsRelayed == EdgesTellNews(hbg) => NoReportedWriteIsPersisted

(* On graphs whose edges tell news and are direct the detector reports the *)
(* races and nothing else, one W(Y) at a time.                             *)
ImplementsRaceSpec ==
  /\ IsRecorded(hbg) => Abstract!Init
  /\ [][IsRecorded(hbg) => Abstract!Next]_(Abstract!vars)
================================================================================
