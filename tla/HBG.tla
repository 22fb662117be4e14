---------------------------------- MODULE HBG ----------------------------------
(***************************************************************************)
(* The happens-before graph of one execution and the program dependence    *)
(* graph over it, as the analyser holds them after parsing a trace.        *)
(*                                                                         *)
(* A node is its location <<thread, position>> (NodeLocation).  A graph is *)
(* a record of                                                             *)
(*   nodes : each thread's nodes in trace order (_nodes_by_thread);        *)
(*   edges : the inter-thread edges (INTER_THREAD edges of _graph);        *)
(*   past  : for every node the nodes that reach it.  networkx derives it  *)
(*           from the edges on demand (bfs_predecessors); here it is part  *)
(*           of the record and IsHappensBeforeClosure says what it must be.*)
(* An address interval is a set of words; a cache line is a set of words.  *)
(***************************************************************************)
EXTENDS Naturals, Sequences, FiniteSets

CONSTANTS
  Threads,   \* thread identifiers
  Lines,     \* cache lines
  Words,     \* the addresses an access can touch
  LineOf     \* the line of each word (get_cacheline_address)

ASSUME LineOfAssumption == LineOf \in [Words -> Lines]

NoLine == "no line"

InstructionTypes == {"READ", "WRITE", "FLUSH"}

NodeRecords ==
  [itype : InstructionTypes \cup {"EPOCH"},
   words : SUBSET Words,            \* the interval of a read or write
   line  : Lines \cup {NoLine},     \* get_cacheline_address()
   nt    : BOOLEAN]                 \* is_non_temporal

Nodes(g) == UNION {{t} \X DOMAIN g.nodes[t] : t \in Threads}

(* get_node_by_location *)
Node(g, n) == g.nodes[n[1]][n[2]]

IsType(g, n, itype) == Node(g, n).itype = itype

Overlap(g, n, m) == Node(g, n).words \cap Node(g, m).words # {}

InterChildren(g, n) == {e[2] : e \in {x \in g.edges : x[1] = n}}
InterParents(g, n)  == {e[1] : e \in {x \in g.edges : x[2] = n}}

(* The intra-thread edges that HBGBuilder._add_node draws from each node   *)
(* to the next one of its thread.                                          *)
IntraParents(g, n) == {<<n[1], i>> : i \in {j \in DOMAIN g.nodes[n[1]] : j + 1 = n[2]}}

Parents(g, n)  == InterParents(g, n) \cup IntraParents(g, n)
Children(g, n) == {m \in Nodes(g) : n \in Parents(g, m)}

(***************************************************************************)
(* What the builder guarantees: threads of typed nodes, inter-thread edges *)
(* between epoch nodes of different threads (_add_happens_before_edge) and *)
(* no access that crosses a cache line (_find_vars).                       *)
(***************************************************************************)
IsGraph(g) ==
  /\ g.nodes \in [Threads -> Seq(NodeRecords)]
  /\ g.edges \subseteq Nodes(g) \X Nodes(g)
  /\ \A e \in g.edges : /\ e[1][1] # e[2][1]
                        /\ IsType(g, e[1], "EPOCH")
                        /\ IsType(g, e[2], "EPOCH")
  /\ \A n \in Nodes(g) :
       /\ Node(g, n).itype \in InstructionTypes => Node(g, n).line \in Lines
       /\ \A w \in Node(g, n).words : LineOf[w] = Node(g, n).line

(* past is the transitive closure of the edges, and the graph is a DAG     *)
(* (the assertion of HBG.__init__): it contains program order and the      *)
(* edges, it is transitive, it is irreflexive, and it holds nothing else:  *)
(* a path has a last edge and a first edge.                                *)
IsHappensBeforeClosure(g) ==
  /\ g.past \in [Nodes(g) -> SUBSET Nodes(g)]
  /\ \A t \in Threads : \A i, j \in DOMAIN g.nodes[t] :
       i < j => <<t, i>> \in g.past[<<t, j>>]
  /\ \A e \in g.edges : e[1] \in g.past[e[2]]
  /\ \A n \in Nodes(g) : \A m \in g.past[n] : g.past[m] \subseteq g.past[n]
  /\ \A n \in Nodes(g) : n \notin g.past[n]
  /\ \A n \in Nodes(g) : \A m \in g.past[n] :
       /\ \E p \in Parents(g, n) : m = p \/ m \in g.past[p]
       /\ \E c \in Nodes(g) : (c = n \/ c \in g.past[n]) /\ m \in Parents(g, c)

(***************************************************************************)
(* A program dependence graph: <<d, r>> says that the write d depends on   *)
(* the read r.  PDGBuilder.add_dependency asserts the types and the common *)
(* thread; _find_bugs asserts that the lines differ.                       *)
(***************************************************************************)
IsPdg(g, deps) ==
  /\ deps \subseteq Nodes(g) \X Nodes(g)
  /\ \A p \in deps : /\ p[1][1] = p[2][1]
                     /\ p[2][2] < p[1][2]
                     /\ IsType(g, p[1], "WRITE")
                     /\ IsType(g, p[2], "READ")
                     /\ Node(g, p[1]).line # Node(g, p[2]).line

(* generate_mock_pdg_v2: each read is taken by the first later write of    *)
(* its thread to another line.                                             *)
MockPdg(g) ==
  LET Takes(d, r) == /\ d[1] = r[1]
                     /\ r[2] < d[2]
                     /\ IsType(g, d, "WRITE")
                     /\ Node(g, d).line # Node(g, r).line
  IN  {p \in Nodes(g) \X Nodes(g) :
         /\ IsType(g, p[2], "READ")
         /\ Takes(p[1], p[2])
         /\ \A i \in 1..(p[1][2] - 1) : ~ Takes(<<p[1][1], i>>, p[2])}

(* The keyword arguments of PersistencyRaceDetector. *)
Presets ==
  [ignore_inter_thread_edges     : BOOLEAN,
   ignore_flush_nodes            : BOOLEAN,
   ignore_persisted_before_index : BOOLEAN,
   ignore_happens_after_index    : BOOLEAN,
   ignore_read_node_persistency  : BOOLEAN,
   show_only_first_bug_in_thread : BOOLEAN]

(* What an analysis is run on. *)
IsInput(g, deps, p) ==
  IsGraph(g) /\ IsHappensBeforeClosure(g) /\ IsPdg(g, deps) /\ p \in Presets

(***************************************************************************)
(* Two shapes the exactness of the analysis depends on.  The runtime's     *)
(* traces have them as long as no thread acquires in an epoch in which it  *)
(* has released, as a signal handler may, and no thread number is given    *)
(* out again: TraceIsAsAssumed of Recorder.                                *)
(***************************************************************************)
(* The runtime writes an edge only when the acquiring thread's clock grows:*)
(* what an edge says was not known to the target thread before it.         *)
EdgesTellNews(g) ==
  \A e \in g.edges : \A p \in IntraParents(g, e[2]) : e[1] # p /\ e[1] \notin g.past[p]

(* An acquire takes over a whole clock and writes an edge for each of its  *)
(* components that grew: whatever an epoch node has heard of another       *)
(* thread it, or a node before it, has heard directly.                     *)
EdgesAreDirect(g) ==
  \A n \in Nodes(g) : \A m \in g.past[n] :
    IsType(g, n, "EPOCH") /\ IsType(g, m, "EPOCH") /\ m[1] # n[1] =>
      \E e \in g.edges : /\ e[1][1] = m[1] /\ m[2] <= e[1][2]
                         /\ e[2][1] = n[1] /\ e[2][2] <= n[2]

IsRecorded(g) == EdgesTellNews(g) /\ EdgesAreDirect(g)
================================================================================
