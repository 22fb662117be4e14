------------------------------- MODULE FindBugs --------------------------------
(***************************************************************************)
(* What the two versions of the detector's second stage share: the         *)
(* persistency vector clocks of the threads, their updates at reads,       *)
(* writes and flushes, and the search for races at a write (_find_bugs).   *)
(* The versions differ in what they do at an epoch node.                   *)
(*                                                                         *)
(* The second stage visits the nodes in topological order                  *)
(* (reverse_postorder), every node after its parents.                      *)
(***************************************************************************)
EXTENDS HappensAfter

CONSTANT Inputs     \* the records [hbg, pdg, presets] an analysis is run on

ASSUME InputsAssumption == \A in \in Inputs : IsInput(in.hbg, in.pdg, in.presets)

VARIABLES
  pb_visited,       \* the nodes the topological traversal has yielded
  last_seen,        \* [thread -> [line -> clock]]: pvc_per_thread, _last_seen
  last_persisted,   \* [thread -> [line -> clock]]: pvc_per_thread, _last_persisted
  races             \* PersistencyRaces._races

inputs == <<hbg, pdg, presets>>
find_vars == <<pb_visited, last_seen, last_persisted, races>>

NoClocks == [c \in Lines |-> EmptyClock]

(* run(): both stages start from empty indexes. *)
FindInit ==
  /\ \E in \in Inputs : hbg = in.hbg /\ pdg = in.pdg /\ presets = in.presets
  /\ HAInit
  /\ pb_visited = {}
  /\ last_seen = [t \in Threads |-> NoClocks]
  /\ last_persisted = [t \in Threads |-> NoClocks]
  /\ races = {}

FindTypeOK ==
  /\ pb_visited \subseteq Nodes(hbg)
  /\ last_seen \in [Threads -> [Lines -> Clocks]]
  /\ last_persisted \in [Threads -> [Lines -> Clocks]]
  /\ races \subseteq [read : Nodes(hbg), write : Nodes(hbg), dependent : Nodes(hbg),
                      ordered : BOOLEAN]

(* nx.topological_sort yields n. *)
PBVisit(n, itype) ==
  /\ HADone
  /\ n \notin pb_visited
  /\ Parents(hbg, n) \subseteq pb_visited
  /\ IsType(hbg, n, itype)
  /\ pb_visited' = pb_visited \cup {n}

(***************************************************************************)
(* _find_bugs(d).                                                          *)
(***************************************************************************)
(* The daisy chain of a line in a thread, from the last access the pvc of  *)
(* d's thread holds persisted (or from its start).                         *)
Chain(c, u, start) ==
  {w \in {u} \X DOMAIN hbg.nodes[u] :
     /\ IsType(hbg, w, "WRITE")
     /\ Node(hbg, w).line = c
     /\ start # None => start <= w[2]}

IsEventPersisted(d, c, e) == IsHappensBefore(last_persisted[d[1]][c], e[1], e[2])

(* The chain's writes that no `continue` of the loop skips. *)
Candidates(d, r, u) ==
  LET c     == Node(hbg, r).line
      start == IF presets.ignore_persisted_before_index
               THEN None ELSE last_persisted[d[1]][c][u]
  IN  {w \in Chain(c, u, start) :
         /\ ~ Node(hbg, w).nt
         /\ Overlap(hbg, w, r)
         /\ ~ presets.ignore_persisted_before_index => ~ IsEventPersisted(d, c, w)}

(* The loop breaks at the first candidate that happens after the read, and *)
(* with show_only_first_bug_in_thread after the first report.              *)
IsHappensAfterRead(r, w) ==
  /\ ~ presets.ignore_happens_after_index
  /\ IsHappensAfter(vc_per_read_node[r], w[1], w[2])

BreaksAt(r, w) == IsHappensAfterRead(r, w) \/ presets.show_only_first_bug_in_thread

Reported(d, r, u) ==
  {w \in Candidates(d, r, u) :
     /\ ~ IsHappensAfterRead(r, w)
     /\ \A v \in Candidates(d, r, u) : v[2] < w[2] => ~ BreaksAt(r, v)}

(* Mutant of ReadIsSkipped: having seen the read passes for persistency. *)
SeenReadIsSkipped(d, r) ==
  IsHappensBefore(last_seen[d[1]][Node(hbg, r).line], r[1], r[2])

(* If the read is persisted, it is not a bug. *)
ReadIsSkipped(d, r) ==
  /\ ~ presets.ignore_read_node_persistency
  /\ ~ presets.ignore_persisted_before_index
  /\ IsEventPersisted(d, Node(hbg, r).line, r)

(* is_write_hb_dependent is part of the report: W(X) was seen before W(Y). *)
RaceReport(d, r, w) ==
  [read |-> r, write |-> w, dependent |-> d,
   ordered |-> IsHappensBefore(last_seen[d[1]][Node(hbg, r).line], w[1], w[2])]

BugsOf(d) ==
  UNION {{RaceReport(d, p[2], w) : w \in UNION {Reported(d, p[2], u) : u \in Threads}} :
           p \in {q \in pdg : q[1] = d /\ ~ ReadIsSkipped(d, q[2])}}

(***************************************************************************)
(* The instruction nodes.  A line touched this way is dirty: the other     *)
(* threads have to be told about it at a later epoch node.                 *)
(***************************************************************************)
Touch(n, itype, seen, persisted) ==
  /\ PBVisit(n, itype)
  /\ last_seen' = [last_seen EXCEPT ![n[1]][Node(hbg, n).line] = seen]
  /\ last_persisted' = [last_persisted EXCEPT ![n[1]][Node(hbg, n).line] = persisted]

SeenAt(n) == last_seen[n[1]][Node(hbg, n).line]
PersistedAt(n) == last_persisted[n[1]][Node(hbg, n).line]

(* Mutant of TouchWrite: a write makes durable what was seen before it. *)
WriteFlushes(n) ==
  /\ Touch(n, "WRITE", [SeenAt(n) EXCEPT ![n[1]] = n[2]], SeenAt(n))
  /\ races' = races \cup BugsOf(n)

(* add_epoch, then the search: the reads d depends on lie on other lines   *)
(* than d, so the search does not see d's own update.                      *)
TouchWrite(n) ==
  /\ Touch(n, "WRITE", [SeenAt(n) EXCEPT ![n[1]] = n[2]], PersistedAt(n))
  /\ races' = races \cup BugsOf(n)

TouchRead(n) ==
  /\ Touch(n, "READ", [SeenAt(n) EXCEPT ![n[1]] = n[2]], PersistedAt(n))
  /\ UNCHANGED races

(* Mutant of TouchFlush: the flush counts as an access of its own. *)
FlushIsAnAccess(n) ==
  /\ ~ presets.ignore_flush_nodes
  /\ Touch(n, "FLUSH", [SeenAt(n) EXCEPT ![n[1]] = n[2]], SeenAt(n))
  /\ UNCHANGED races

(* PersistencyVectorClock.flush copies what was seen over what persisted. *)
TouchFlush(n) ==
  /\ ~ presets.ignore_flush_nodes
  /\ Touch(n, "FLUSH", SeenAt(n), SeenAt(n))
  /\ UNCHANGED races

(* ignore_flush_nodes and ignore_inter_thread_edges skip the node. *)
SkipFlush(n) ==
  /\ presets.ignore_flush_nodes
  /\ PBVisit(n, "FLUSH")
  /\ UNCHANGED <<last_seen, last_persisted, races>>

SkipEpoch(n) ==
  /\ presets.ignore_inter_thread_edges
  /\ PBVisit(n, "EPOCH")
  /\ UNCHANGED <<last_seen, last_persisted, races>>

(***************************************************************************)
(* What both versions need at an epoch node.                               *)
(***************************************************************************)
(* The order in which the loop over the inter children runs: the children  *)
(* come out of a Python set, in any order.                                 *)
TellOrders(S) ==
  {rank \in [S -> 1..Cardinality(S)] : \A a, b \in S : rank[a] = rank[b] => a = b}

(* The thread's clocks after it merged the node's. *)
MergedClocks(mine, told) == [c \in Lines |-> Merge(mine[c], told[c])]

(* A function over the nodes after the epoch node n: n's own entry is      *)
(* deleted, its children's are told, the others stay.                      *)
AfterEpoch(n, f, empty, told) ==
  [m \in Nodes(hbg) |-> IF m = n THEN empty
                        ELSE IF m \in InterChildren(hbg, n) THEN told[m] ELSE f[m]]

--------------------------------------------------------------------------------

(* The detector as its user sees it. *)
Abstract == INSTANCE RaceSpec WITH
  examined <- {n \in pb_visited : IsType(hbg, n, "WRITE")}

(* Every position a persistency clock holds is a read or write of the      *)
(* clock's line, so the daisy chain of that line can be entered there      *)
(* (DaisyChain.get_chain raises IndexError otherwise).                     *)
ChainsCanBeEntered ==
  \A t, u \in Threads, c \in Lines :
    \A k \in {last_seen[t][c][u], last_persisted[t][c][u]} \ {None} :
      /\ <<u, k>> \in pb_visited
      /\ Node(hbg, <<u, k>>).itype \in {"READ", "WRITE"}
      /\ Node(hbg, <<u, k>>).line = c

(* The assertion of add_epoch never fires, in either stage: the node a     *)
(* thread is about to enter is newer (in the first stage older) than all   *)
(* it has heard of itself from other threads.                              *)
EpochsAdvance ==
  \A n \in Nodes(hbg) :
    /\ n \notin pb_visited => \A c \in Lines : last_seen[n[1]][c][n[1]] < n[2]
    /\ n \notin ha_visited => ReversedLess(vc_per_thread[n[1]][n[1]], n[2])

(* A thread believes an access durable only if a flush of its line comes   *)
(* after the access and before everything the thread has still to do.      *)
PersistedIsWitnessed ==
  \A t, u \in Threads, c \in Lines :
    last_persisted[t][c][u] # None =>
      \A n \in ({t} \X DOMAIN hbg.nodes[t]) \ pb_visited :
        Abstract!PersistedBefore(<<u, last_persisted[t][c][u]>>, n)

(* The write a read's clock names for a thread does happen after the read. *)
HappensAfterIsWitnessed ==
  \A r \in Nodes(hbg), u \in Threads :
    vc_per_read_node[r][u] # None =>
      Abstract!HappensBefore(r, <<u, vc_per_read_node[r][u]>>)

(* No race goes unreported, whatever the graph: once W(Y) has been         *)
(* examined, every race it completes is among the reports.                 *)
NoMissedRace ==
  ~ presets.show_only_first_bug_in_thread =>
    \A p \in pdg : p[1] \in pb_visited =>
      \A w \in Nodes(hbg) :
        Abstract!IsRace(p[2], w, p[1]) =>
          \E x \in races : x.read = p[2] /\ x.write = w /\ x.dependent = p[1]

(* is_bug, which run(validate=True) means to apply to every report, says   *)
(* of a write that happens after R(X): "there is no bug" ...               *)
NoReportedWriteIsLater ==
  \A x \in races : ~ Abstract!WriteIsLater(x.write, x.read)

(* ... and the same of a write that is persisted before W(Y).              *)
NoReportedWriteIsPersisted ==
  \A x \in races : ~ Abstract!WriteIsPersisted(x.write, x.dependent)
================================================================================
