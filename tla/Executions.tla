------------------------------- MODULE Executions -------------------------------
(***************************************************************************)
(* Small executions for TLC.  Line X has the words "x" and "z", line Y the *)
(* word "y".                                                               *)
(***************************************************************************)
EXTENDS HBG

CONSTANT Suite      \* which executions: "fast", "slow", "relayed" or "indirect"

MCThreads2 == {0, 1}
MCThreads3 == {0, 1, 2}
MCLines == {"X", "Y"}
MCWords == {"x", "y", "z"}
MCLineOf == [w \in MCWords |-> IF w = "y" THEN "Y" ELSE "X"]

R(S) == [itype |-> "READ", words |-> S, line |-> LineOf[CHOOSE w \in S : TRUE], nt |-> FALSE]
W(S) == [R(S) EXCEPT !.itype = "WRITE"]
WNT(S) == [W(S) EXCEPT !.nt = TRUE]
F(c) == [itype |-> "FLUSH", words |-> {}, line |-> c, nt |-> FALSE]
E == [itype |-> "EPOCH", words |-> {}, line |-> NoLine, nt |-> FALSE]

RX == R({"x"})
WX == W({"x"})
WY == W({"y"})
FX == F("X")

SeqsUpTo(S, k) == UNION {[1..i -> S] : i \in 0..k}

NoPresets == [p \in {"ignore_inter_thread_edges", "ignore_flush_nodes",
                     "ignore_persisted_before_index", "ignore_happens_after_index",
                     "ignore_read_node_persistency", "show_only_first_bug_in_thread"} |-> FALSE]

AtOrBefore(a, b) == a[1] = b[1] /\ a[2] <= b[2]

(* The graph with the given threads and edges.  A node's past is what      *)
(* precedes it in its thread and what precedes the sources of the edges    *)
(* that lead to it, at most four one after another.                        *)
Graph(nodes, edges) ==
  LET all   == UNION {{t} \X DOMAIN nodes[t] : t \in Threads}
      one   == {p \in edges \X edges : p[1] = p[2] \/ AtOrBefore(p[1][2], p[2][1])}
      two   == {p \in edges \X edges : \E e \in edges : <<p[1], e>> \in one /\ <<e, p[2]>> \in one}
      three == {p \in edges \X edges : \E e \in edges : <<p[1], e>> \in two /\ <<e, p[2]>> \in one}
      Past(n) ==
        LET into == {p[1] : p \in {q \in three : AtOrBefore(q[2][2], n)}}
        IN  {m \in all : \/ m[1] = n[1] /\ m[2] < n[2]
                         \/ \E e \in into : AtOrBefore(m, e[1])}
  IN  [nodes |-> nodes, edges |-> edges, past |-> [n \in all |-> Past(n)]]

IsDag(g) == \A n \in Nodes(g) : n \notin g.past[n]

EpochNodes(nodes) ==
  UNION {{t} \X {i \in DOMAIN nodes[t] : nodes[t][i] = E} : t \in DOMAIN nodes}

(* The acyclic graphs over the given threads' nodes with up to k edges in  *)
(* which every epoch node has an edge: one without changes nothing.        *)
Graphs(nodes, k) ==
  LET eps   == EpochNodes(nodes)
      pairs == {e \in eps \X eps : e[1][1] # e[2][1]}
      sets[i \in 0..k] ==
        IF i = 0 THEN {{}} ELSE {s \cup one : s \in sets[i - 1], one \in {{}} \cup {{e} : e \in pairs}}
      used  == {s \in sets[k] : \A n \in eps : \E e \in s : n \in {e[1], e[2]}}
  IN  {g \in {Graph(nodes, edges) : edges \in used} : IsDag(g)}

Input(g, p) == [hbg |-> g, pdg |-> MockPdg(g), presets |-> p]

Count(s, x) == Cardinality({i \in DOMAIN s : s[i] = x})

(* Sequences of up to k nodes with at most two epoch nodes. *)
Mixed(S, k) == {s \in SeqsUpTo(S \cup {E}, k) : Count(s, E) <= 2}

(* The read r somewhere among the nodes of s, then W(Y). *)
WithRead(r, S) ==
  UNION {{SubSeq(s, 1, i) \o <<r>> \o SubSeq(s, i + 1, Len(s)) \o <<WY>> :
            i \in 0..Len(s)} : s \in S}

TwoThreads(S0, S1) ==
  {[t \in Threads |-> IF t = 0 THEN s0 ELSE IF t = 1 THEN s1 ELSE <<>>] : s0 \in S0, s1 \in S1}

(* Around the read and in the other thread, up to k nodes of X but fewer   *)
(* than 2k in all, with one or two writes and at most two flushes.         *)
AnyGraphs(k) ==
  LET Total(p, x) == Count(p[0], x) + Count(p[1], x)
  IN  UNION {Graphs(nodes, 3) :
               nodes \in {p \in TwoThreads(WithRead(RX, Mixed({WX, FX}, k)), Mixed({WX, FX}, k)) :
                            /\ Len(p[0]) - 2 + Len(p[1]) < 2 * k
                            /\ Total(p, WX) \in 1..2
                            /\ Total(p, FX) <= 2}}

(* A read of both words of X, writes of either, one of them non-temporal,  *)
(* and up to k more nodes in each thread.                                  *)
RichGraphs(k) ==
  UNION {Graphs(nodes, 2) :
           nodes \in TwoThreads(WithRead(R({"x", "z"}), Mixed({WX, FX}, k)),
                                {<<w>> \o s \o <<v>> : w, v \in {WX, W({"z"}), WNT({"x"}), E},
                                                       s \in Mixed({FX}, k)})}

ThreeThreads(S0, S1, S2) ==
  {[t \in Threads |-> IF t = 0 THEN s0 ELSE IF t = 1 THEN s1 ELSE s2] :
     s0 \in S0, s1 \in S1, s2 \in S2}

(* Three threads and k edges: the reader, a writer of X, and a thread that *)
(* passes on what it learns, flushing X or not.                            *)
RelayGraphs(k) ==
  UNION {Graphs(nodes, k) :
           nodes \in ThreeThreads({<<RX, E, WY>>, <<E, RX, WY>>, <<E, RX, E, WY>>},
                                  {<<WX, E>>, <<WX, E, FX, E>>, <<E, WX>>},
                                  {<<E, E>>, <<E, FX, E>>})}

(* The same where the edges tell news but direct ones may be missing: the  *)
(* third thread passes on a write and its flush, at the epoch node where   *)
(* it hears of them or at a later one.                                     *)
RelayedGraphs(k) ==
  UNION {{g \in Graphs(nodes, k) : EdgesTellNews(g)} :
           nodes \in ThreeThreads({<<E, RX, WY>>},
                                  {<<WX, E>>, <<WX, FX, E>>, <<WX, E, FX, E>>},
                                  {<<E>>, <<E, E>>, <<E, FX, E>>})}

(* The same execution with an edge for every clock component that grows    *)
(* when an epoch node learns something: the last node of each other thread *)
(* in its past, unless the node before it knew that one already.           *)
WithDirectEdges(g) ==
  LET Last(x, n) == x[1] # n[1] /\ \A m \in g.past[n] : m[1] = x[1] => m[2] <= x[2]
      News(x, n) == \A p \in IntraParents(g, n) : x \notin g.past[p]
  IN  [g EXCEPT !.edges = @ \cup UNION {{<<x, n>> : x \in {y \in g.past[n] : Last(y, n) /\ News(y, n)}} :
                                          n \in {m \in Nodes(g) : InterParents(g, m) # {}}}]

(* The graphs of G as direct edges that tell news record them. *)
Recorded(G) == {g \in {WithDirectEdges(h) : h \in G} : IsRecorded(g)}

(* Each option alone, and all of them. *)
WithOptions(G) ==
  {Input(g, p) : g \in G, p \in {q \in Presets : Count(q, TRUE) \in {1, 6}}}

Plain(G) == {Input(g, NoPresets) : g \in G}

(* TLC keeps the value of this definition, but not that of the one which a *)
(* cfg names and which it computes at every use.                           *)
SuiteInputs ==
  LET both == UNION {Plain(AnyGraphs(3)), Plain(Recorded(RelayGraphs(3))),
                     WithOptions(Recorded(RichGraphs(1)))}
  IN  CASE Suite = "fast"     -> both \cup Plain(RelayedGraphs(3))
        [] Suite = "slow"     -> both
        [] Suite = "relayed"  -> Plain(RelayedGraphs(3))
        [] Suite = "indirect" -> Plain(RelayGraphs(3))

MCInputs == SuiteInputs
================================================================================
