------------------------------ MODULE MCRecorder ------------------------------
(***************************************************************************)
(* The graph the recorder writes, against what its clocks know.            *)
(***************************************************************************)
EXTENDS Recorder

(* Program order and the HB_EDGE lines. *)
IsNext(m, n) ==
  m[1] = n[1] /\ m[2] < n[2] /\ \A x \in nodes : x[1] = m[1] => x[2] <= m[2] \/ n[2] <= x[2]
Arcs == hb \cup {arc \in nodes \X nodes : IsNext(arc[1], arc[2])}

(* Paths is their transitive closure. *)
Paths ==
  FoldSet(LAMBDA n, p : p \cup {<<x[1], y[2]>> : x \in {q \in p : q[2] = n},
                                               y \in {q \in p : q[1] = n}},
          Arcs, nodes)

(* The last epoch of u that reaches the last node of t. *)
Known(t, u, paths) ==
  Max({0} \cup {p[1][2] : p \in {q \in paths : q[1][1] = u /\ q[2] = <<t, clock[t][t]>>}})

(* Both ends of every edge have their EPOC_INC line: networkx would add a  *)
(* node that is in no thread's list.                                       *)
EdgeEndsAreNodes == \A e \in hb : e[1] \in nodes /\ e[2] \in nodes

(* The assertion of HBG.__init__. *)
GraphIsAcyclic == LET paths == Paths IN \A n \in nodes : <<n, n>> \notin paths

(* As long as no thread acquires in an epoch in which it has released.     *)
UnmixedIsAcyclic == ~ mixed => GraphIsAcyclic

(* An edge cannot reach back: it ends in the last node of its thread, and  *)
(* no access is logged between that node and the acquire.                  *)
NewEdgesEndNow ==
  \A e \in hb' \ hb : e[2][2] = epoch'[e[2][1]] /\ ~ accessed'[e[2][1]]
EdgesEndNow == [][NewEdgesEndNow]_vars

(* What a thread's clock knows, the graph says.                            *)
GraphIsComplete ==
  LET paths == Paths
  IN  \A t, u \in Tids : Runs(t) /\ u # t => clock[t][u] <= Known(t, u, paths)

(* And nothing else, unless an epoch was mixed or a number given out again.*)
GraphIsSound ==
  ~ mixed /\ ~ reused =>
    LET paths == Paths
    IN  \A t, u \in Tids : Runs(t) /\ u # t => Known(t, u, paths) <= clock[t][u]

(* The two shapes the exactness of the analysis depends on (EdgesTellNews  *)
(* and EdgesAreDirect of HBG): an edge says what the target thread had not *)
(* heard before, and what a node has heard of another thread an edge to    *)
(* it, or to a node of its thread before it, says.                         *)
TraceIsAsAssumed ==
  ~ mixed /\ ~ reused =>
    LET paths == Paths
    IN  /\ \A e \in hb, n \in nodes : IsNext(n, e[2]) => <<e[1], n>> \notin paths
        /\ \A p \in paths :
             p[1][1] # p[2][1] =>
               \E e \in hb : /\ e[1][1] = p[1][1] /\ p[1][2] <= e[1][2]
                            /\ e[2][1] = p[2][1] /\ e[2][2] <= p[2][2]
================================================================================
