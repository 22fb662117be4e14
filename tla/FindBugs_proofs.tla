---------------------------- MODULE FindBugs_proofs ----------------------------
(***************************************************************************)
(* What holds of the happens-after stage and of the visits of instruction  *)
(* nodes, for either version of the second stage.                          *)
(***************************************************************************)
EXTENDS FindBugs, WellFoundedInduction, TLAPS

InputOK == IsInput(hbg, pdg, presets)

HB(a, b) == Abstract!HappensBefore(a, b)

(***************************************************************************)
(* The graph.                                                              *)
(***************************************************************************)
(* A location is a pair of a thread and a position. *)
LEMMA NodeShape ==
  ASSUME NEW g, IsGraph(g), NEW n \in Nodes(g)
  PROVE  /\ n = <<n[1], n[2]>>
         /\ n[1] \in Threads
         /\ n[2] \in DOMAIN g.nodes[n[1]]
         /\ n[2] \in Nat \ {0}
         /\ g.nodes[n[1]] \in Seq(NodeRecords)
         /\ Node(g, n) \in NodeRecords
<1>1. PICK t \in Threads : n \in {t} \X DOMAIN g.nodes[t]
  BY DEF Nodes
<1>2. /\ n = <<n[1], n[2]>>
      /\ n[1] = t
      /\ n[2] \in DOMAIN g.nodes[t]
  BY <1>1
<1>3. g.nodes[t] \in Seq(NodeRecords)
  BY DEF IsGraph
<1> QED
  BY <1>2, <1>3 DEF Node

(* Every pair of a thread and a position of it is a location. *)
LEMMA NodeIntro ==
  ASSUME NEW g, NEW t \in Threads, NEW i \in DOMAIN g.nodes[t]
  PROVE  <<t, i>> \in Nodes(g)
BY DEF Nodes

(* Positions below a node's are positions of its thread. *)
LEMMA EarlierNode ==
  ASSUME NEW g, IsGraph(g), NEW n \in Nodes(g), NEW i \in Nat \ {0}, i <= n[2]
  PROVE  <<n[1], i>> \in Nodes(g)
<1>1. i \in DOMAIN g.nodes[n[1]]
  BY NodeShape
<1> QED
  BY <1>1, NodeIntro, NodeShape

(* The order is program order and more, it is transitive and irreflexive. *)
LEMMA ProgramOrder ==
  ASSUME InputOK, NEW a \in Nodes(hbg), NEW b \in Nodes(hbg), a[1] = b[1], a[2] < b[2]
  PROVE  a \in hbg.past[b] /\ HB(a, b)
<1>1. IsGraph(hbg) /\ IsHappensBeforeClosure(hbg)
  BY DEF InputOK, IsInput
<1>2. /\ a[1] \in Threads /\ a = <<a[1], a[2]>> /\ b = <<b[1], b[2]>>
      /\ a[2] \in DOMAIN hbg.nodes[a[1]] /\ b[2] \in DOMAIN hbg.nodes[a[1]]
  BY <1>1, NodeShape
<1>3. <<a[1], a[2]>> \in hbg.past[<<a[1], b[2]>>]
  BY <1>1, <1>2 DEF IsHappensBeforeClosure
<1>4. a \in hbg.past[b]
  BY <1>2, <1>3
<1> QED
  BY <1>4 DEF HB, Abstract!HappensBefore

LEMMA EdgeOrder ==
  ASSUME InputOK, ~ presets.ignore_inter_thread_edges, NEW e \in hbg.edges
  PROVE  HB(e[1], e[2])
BY DEF InputOK, IsInput, IsHappensBeforeClosure, HB, Abstract!HappensBefore

LEMMA Transitive ==
  ASSUME InputOK, NEW a \in Nodes(hbg), NEW b \in Nodes(hbg), NEW c \in Nodes(hbg),
         HB(a, b), HB(b, c)
  PROVE  HB(a, c)
<1>1. IsGraph(hbg) /\ IsHappensBeforeClosure(hbg)
  BY DEF InputOK, IsInput
<1>2. a[2] \in Nat /\ b[2] \in Nat /\ c[2] \in Nat
  BY <1>1, NodeShape
<1>3. CASE presets.ignore_inter_thread_edges
  BY <1>2, <1>3 DEF HB, Abstract!HappensBefore
<1>4. CASE ~ presets.ignore_inter_thread_edges
  <2>1. hbg.past[b] \subseteq hbg.past[c]
    BY <1>1, <1>4 DEF HB, Abstract!HappensBefore, IsHappensBeforeClosure
  <2> QED
    BY <2>1, <1>4 DEF HB, Abstract!HappensBefore
<1> QED
  BY <1>3, <1>4

LEMMA Irreflexive ==
  ASSUME InputOK, NEW a \in Nodes(hbg)
  PROVE  ~ HB(a, a)
<1>1. IsGraph(hbg) /\ IsHappensBeforeClosure(hbg)
  BY DEF InputOK, IsInput
<1>2. a[2] \in Nat /\ a \notin hbg.past[a]
  BY <1>1, NodeShape DEF IsHappensBeforeClosure
<1> QED
  BY <1>2 DEF HB, Abstract!HappensBefore

(* Within a thread happens-before is the order of the positions. *)
LEMMA SameThread ==
  ASSUME InputOK, NEW a \in Nodes(hbg), NEW b \in Nodes(hbg), a[1] = b[1], HB(a, b)
  PROVE  a[2] < b[2]
<1>1. IsGraph(hbg)
  BY DEF InputOK, IsInput
<1>2. /\ a = <<a[1], a[2]>> /\ b = <<b[1], b[2]>>
      /\ a[2] \in Nat /\ b[2] \in Nat
  BY <1>1, NodeShape
<1>3. ~ (b[2] < a[2])
  <2> SUFFICES ASSUME b[2] < a[2] PROVE FALSE
    OBVIOUS
  <2>1. HB(b, a)
    BY ProgramOrder
  <2> QED
    BY <2>1, Transitive, Irreflexive
<1>4. a[2] # b[2]
  BY <1>2, Irreflexive
<1> QED
  BY <1>2, <1>3, <1>4

(***************************************************************************)
(* The happens-after stage.                                                *)
(***************************************************************************)
(* The traversal is in postorder: what follows a visited node is visited.  *)
HAFuture ==
  \A n \in ha_visited : \A m \in Nodes(hbg) : n \in hbg.past[m] => m \in ha_visited

(* What a thread's clock names comes after all the thread's nodes that are *)
(* still to be visited.                                                    *)
HAThread ==
  \A t, u \in Threads : vc_per_thread[t][u] # None =>
    /\ <<u, vc_per_thread[t][u]>> \in Nodes(hbg)
    /\ \A n \in Nodes(hbg) \ ha_visited : n[1] = t => HB(n, <<u, vc_per_thread[t][u]>>)

(* What the clock left at an epoch node names comes after the node, ...    *)
HAEpochNode ==
  \A n \in Nodes(hbg), u \in Threads : vc_per_epoch_node[n][u] # None =>
    /\ <<u, vc_per_epoch_node[n][u]>> \in Nodes(hbg)
    /\ HB(n, <<u, vc_per_epoch_node[n][u]>>)

(* ... and what the clock of a read names comes after the read.            *)
HAReadNode ==
  \A n \in Nodes(hbg), u \in Threads : vc_per_read_node[n][u] # None =>
    /\ <<u, vc_per_read_node[n][u]>> \in Nodes(hbg)
    /\ HB(n, <<u, vc_per_read_node[n][u]>>)

HAInv == HATypeOK /\ HAFuture /\ HAThread /\ HAEpochNode /\ HAReadNode

(* A merge takes each component from one of the two clocks. *)
LEMMA MergeTakes ==
  ASSUME NEW v \in Clocks, NEW w \in Clocks
  PROVE  /\ Merge(v, w) \in Clocks
         /\ \A u \in Threads : /\ Merge(v, w)[u] \in {v[u], w[u]}
                               /\ v[u] <= Merge(v, w)[u]
                               /\ w[u] <= Merge(v, w)[u]
BY DEF Clocks, Merge

LEMMA ReversedMergeTakes ==
  ASSUME NEW v \in Clocks, NEW w \in Clocks
  PROVE  /\ ReversedMerge(v, w) \in Clocks
         /\ \A u \in Threads : ReversedMerge(v, w)[u] \in {v[u], w[u]}
BY DEF Clocks, ReversedMerge

LEMMA HAInitially == ASSUME HAInit PROVE HAInv
BY DEF HAInit, HAInv, HATypeOK, HAFuture, HAThread, HAEpochNode, HAReadNode, EmptyClock,
       Clocks, None

(* The visit itself: the nodes of n's thread still to come precede n. *)
LEMMA HAVisited ==
  ASSUME InputOK, HAInv, UNCHANGED inputs,
         NEW n \in Nodes(hbg), NEW itype, HAVisit(n, itype)
  PROVE  /\ ha_visited' \subseteq Nodes(hbg)
         /\ HAFuture'
         /\ \A m \in Nodes(hbg) \ ha_visited' : m \notin ha_visited /\ (m[1] = n[1] => HB(m, n))
<1> USE DEF inputs
<1>1. /\ ha_visited' = ha_visited \cup {n}
      /\ \A c \in Nodes(hbg) : n \in Parents(hbg, c) => c \in ha_visited
  BY DEF HAVisit, Children
<1>2. IsGraph(hbg) /\ IsHappensBeforeClosure(hbg)
  BY DEF InputOK, IsInput
<1>3. ASSUME NEW m \in Nodes(hbg), n \in hbg.past[m]
      PROVE  m \in ha_visited
  <2>1. PICK c \in Nodes(hbg) : n \in Parents(hbg, c) /\ (c = m \/ c \in hbg.past[m])
    BY <1>2, <1>3 DEF IsHappensBeforeClosure
  <2>2. c \in ha_visited
    BY <1>1, <2>1
  <2> QED
    BY <2>1, <2>2, <1>3 DEF HAInv, HAFuture
<1>4. HAFuture'
  <2> SUFFICES ASSUME NEW k \in ha_visited', NEW m \in Nodes(hbg), k \in hbg.past[m]
               PROVE  m \in ha_visited'
    BY DEF HAFuture
  <2>1. m \in ha_visited
    BY <1>1, <1>3 DEF HAInv, HAFuture
  <2> QED
    BY <1>1, <2>1
<1>5. ASSUME NEW m \in Nodes(hbg) \ ha_visited', m[1] = n[1]
      PROVE  HB(m, n)
  <2>1. /\ m = <<m[1], m[2]>> /\ n = <<n[1], n[2]>>
        /\ m[2] \in Nat /\ n[2] \in Nat /\ m # n
    BY <1>1, <1>2, NodeShape
  <2>2. ~ (n[2] < m[2])
    BY <1>1, <1>3, <1>5, ProgramOrder
  <2>3. m[2] < n[2]
    BY <2>1, <2>2, <1>5
  <2> QED
    BY <2>3, <1>5, ProgramOrder
<1> QED
  BY <1>1, <1>4, <1>5 DEF HAInv, HATypeOK

(* The stage preserves its invariant. *)
LEMMA HAStep ==
  ASSUME InputOK, HAInv, UNCHANGED inputs, NEW n \in Nodes(hbg), HANext(n)
  PROVE  HAInv'
<1> USE DEF inputs
<1>1. PICK itype : HAVisit(n, itype)
  BY DEF HANext, HAWrite, HARead, HAFlush, HAEpoch
<1>2. /\ ha_visited' \subseteq Nodes(hbg)
      /\ HAFuture'
      /\ \A m \in Nodes(hbg) \ ha_visited' : m \notin ha_visited /\ (m[1] = n[1] => HB(m, n))
  BY <1>1, HAVisited
<1>3. /\ n \notin ha_visited /\ n = <<n[1], n[2]>> /\ n[1] \in Threads /\ n[2] \in Nat \ {0}
  BY <1>1, NodeShape DEF HAVisit, InputOK, IsInput
<1>4. \A a, b : HB(a, b)' = HB(a, b)
  BY DEF HB, Abstract!HappensBefore
<1>5. HATypeOK
  BY DEF HAInv
<1>6. ASSUME NEW t \in Threads, NEW u \in Threads, t # n[1] \/ vc_per_thread' = vc_per_thread,
             vc_per_thread'[t][u] = vc_per_thread[t][u], vc_per_thread'[t][u] # None
      PROVE  /\ <<u, vc_per_thread'[t][u]>> \in Nodes(hbg)
             /\ \A m \in Nodes(hbg) \ ha_visited' : m[1] = t => HB(m, <<u, vc_per_thread'[t][u]>>)
  BY <1>2, <1>6 DEF HAInv, HAThread
<1>7. CASE HAWrite(n)
  <2>1. HATypeOK'
    BY <1>2, <1>3, <1>5, <1>7 DEF HAWrite, HATypeOK, Clocks
  <2>2. HAThread'
    <3> SUFFICES ASSUME NEW t \in Threads, NEW u \in Threads, vc_per_thread'[t][u] # None
                 PROVE  /\ <<u, vc_per_thread'[t][u]>> \in Nodes(hbg)
                        /\ \A m \in Nodes(hbg) \ ha_visited' :
                             m[1] = t => HB(m, <<u, vc_per_thread'[t][u]>>)
      BY <1>4 DEF HAThread
    <3>1. CASE t = n[1] /\ u = n[1]
      <4>1. vc_per_thread'[t][u] = n[2]
        BY <1>5, <1>7, <3>1 DEF HAWrite, HATypeOK, Clocks
      <4> QED
        BY <1>2, <1>3, <3>1, <4>1
    <3>2. CASE ~ (t = n[1] /\ u = n[1])
      <4>1. vc_per_thread'[t][u] = vc_per_thread[t][u]
        BY <1>5, <1>7, <3>2 DEF HAWrite, HATypeOK, Clocks
      <4> QED
        BY <1>2, <4>1 DEF HAInv, HAThread
    <3> QED
      BY <3>1, <3>2
  <2>3. HAEpochNode' /\ HAReadNode'
    BY <1>4, <1>7 DEF HAWrite, HAInv, HAEpochNode, HAReadNode
  <2> QED
    BY <1>2, <2>1, <2>2, <2>3 DEF HAInv
<1>8. CASE HARead(n)
  <2>1. HATypeOK'
    BY <1>2, <1>3, <1>5, <1>8 DEF HARead, HATypeOK
  <2>2. HAThread'
    BY <1>2, <1>4, <1>8 DEF HARead, HAInv, HAThread
  <2>3. HAEpochNode'
    BY <1>4, <1>8 DEF HARead, HAInv, HAEpochNode
  <2>4. HAReadNode'
    <3> SUFFICES ASSUME NEW m \in Nodes(hbg), NEW u \in Threads, vc_per_read_node'[m][u] # None
                 PROVE  /\ <<u, vc_per_read_node'[m][u]>> \in Nodes(hbg)
                        /\ HB(m, <<u, vc_per_read_node'[m][u]>>)
      BY <1>4 DEF HAReadNode
    <3>1. CASE m = n
      <4>1. vc_per_read_node'[m] = vc_per_thread[n[1]]
        BY <1>5, <1>8, <3>1 DEF HARead, HATypeOK
      <4> QED
        BY <1>3, <3>1, <4>1 DEF HAInv, HAThread
    <3>2. CASE m # n
      BY <1>5, <1>8, <3>2 DEF HARead, HATypeOK, HAInv, HAReadNode
    <3> QED
      BY <3>1, <3>2
  <2> QED
    BY <1>2, <2>1, <2>2, <2>3, <2>4 DEF HAInv
<1>9. CASE HAFlush(n)
  <2>1. HATypeOK'
    BY <1>2, <1>5, <1>9 DEF HAFlush, HATypeOK
  <2>2. HAThread'
    BY <1>2, <1>4, <1>9 DEF HAFlush, HAInv, HAThread
  <2>3. HAEpochNode' /\ HAReadNode'
    BY <1>4, <1>9 DEF HAFlush, HAInv, HAEpochNode, HAReadNode
  <2> QED
    BY <1>2, <2>1, <2>2, <2>3 DEF HAInv
<1>10. CASE HAEpoch(n) /\ presets.ignore_inter_thread_edges
  <2>1. HATypeOK'
    BY <1>2, <1>5, <1>10 DEF HAEpoch, HATypeOK
  <2>2. HAThread'
    BY <1>2, <1>4, <1>10 DEF HAEpoch, HAInv, HAThread
  <2>3. HAEpochNode' /\ HAReadNode'
    BY <1>4, <1>10 DEF HAEpoch, HAInv, HAEpochNode, HAReadNode
  <2> QED
    BY <1>2, <2>1, <2>2, <2>3 DEF HAInv
<1>11. CASE HAEpoch(n) /\ ~ presets.ignore_inter_thread_edges
  <2>1. /\ vc_per_thread \in [Threads -> Clocks]
        /\ vc_per_thread' = [vc_per_thread EXCEPT
              ![n[1]] = ReversedMerge(vc_per_thread[n[1]], vc_per_epoch_node[n])]
        /\ vc_per_epoch_node' =
              [m \in Nodes(hbg) |->
                  IF m = n THEN EmptyClock
                  ELSE IF m \in InterParents(hbg, n)
                       THEN ReversedMerge(vc_per_epoch_node[m], vc_per_thread[n[1]])
                       ELSE vc_per_epoch_node[m]]
        /\ vc_per_read_node' = vc_per_read_node
    BY <1>5, <1>11 DEF HAEpoch, HATypeOK
  <2>2. /\ ReversedMerge(vc_per_thread[n[1]], vc_per_epoch_node[n]) \in Clocks
        /\ \A u \in Threads : ReversedMerge(vc_per_thread[n[1]], vc_per_epoch_node[n])[u]
                                \in {vc_per_thread[n[1]][u], vc_per_epoch_node[n][u]}
    BY <1>3, <1>5, ReversedMergeTakes DEF HATypeOK
  <2>3. \A m \in Nodes(hbg) :
          /\ ReversedMerge(vc_per_epoch_node[m], vc_per_thread[n[1]]) \in Clocks
          /\ \A u \in Threads : ReversedMerge(vc_per_epoch_node[m], vc_per_thread[n[1]])[u]
                                  \in {vc_per_epoch_node[m][u], vc_per_thread[n[1]][u]}
    BY <1>3, <1>5, ReversedMergeTakes DEF HATypeOK
  <2>4. EmptyClock \in Clocks
    BY DEF EmptyClock, Clocks, None
  <2>5. HATypeOK'
    BY <1>2, <1>5, <2>1, <2>2, <2>3, <2>4 DEF HATypeOK
  <2>6. HAThread'
    <3> SUFFICES ASSUME NEW t \in Threads, NEW u \in Threads, vc_per_thread'[t][u] # None
                 PROVE  /\ <<u, vc_per_thread'[t][u]>> \in Nodes(hbg)
                        /\ \A m \in Nodes(hbg) \ ha_visited' :
                             m[1] = t => HB(m, <<u, vc_per_thread'[t][u]>>)
      BY <1>4 DEF HAThread
    <3>1. CASE vc_per_thread'[t][u] = vc_per_thread[t][u]
      BY <1>2, <3>1 DEF HAInv, HAThread
    <3>2. CASE t = n[1] /\ vc_per_thread'[t][u] = vc_per_epoch_node[n][u]
      <4>1. <<u, vc_per_thread'[t][u]>> \in Nodes(hbg) /\ HB(n, <<u, vc_per_thread'[t][u]>>)
        BY <3>2 DEF HAInv, HAEpochNode
      <4> QED
        BY <1>2, <3>2, <4>1, Transitive
    <3> QED
      BY <2>1, <2>2, <3>1, <3>2
  <2>7. HAEpochNode'
    <3> SUFFICES ASSUME NEW m \in Nodes(hbg), NEW u \in Threads, vc_per_epoch_node'[m][u] # None
                 PROVE  /\ <<u, vc_per_epoch_node'[m][u]>> \in Nodes(hbg)
                        /\ HB(m, <<u, vc_per_epoch_node'[m][u]>>)
      BY <1>4 DEF HAEpochNode
    <3>1. m # n
      BY <2>1 DEF EmptyClock
    <3>2. CASE vc_per_epoch_node'[m][u] = vc_per_epoch_node[m][u]
      BY <3>2 DEF HAInv, HAEpochNode
    <3>3. CASE m \in InterParents(hbg, n) /\ vc_per_epoch_node'[m][u] = vc_per_thread[n[1]][u]
      <4>1. HB(m, n)
        BY <1>11, <3>3, EdgeOrder DEF InterParents
      <4>2. /\ <<u, vc_per_epoch_node'[m][u]>> \in Nodes(hbg)
            /\ HB(n, <<u, vc_per_epoch_node'[m][u]>>)
        BY <1>3, <3>3 DEF HAInv, HAThread
      <4> QED
        BY <4>1, <4>2, Transitive
    <3> QED
      BY <2>1, <2>3, <3>1, <3>2, <3>3
  <2>8. HAReadNode'
    BY <1>4, <2>1 DEF HAInv, HAReadNode
  <2> QED
    BY <1>2, <2>5, <2>6, <2>7, <2>8 DEF HAInv
<1> QED
  BY <1>7, <1>8, <1>9, <1>10, <1>11 DEF HANext

(***************************************************************************)
(* The persistency clocks.  cl stands for the clocks of all lines that a   *)
(* thread or an epoch node holds.                                          *)
(***************************************************************************)
PB(e, d) == Abstract!PersistedBefore(e, d)

(* Whatever cl names is a visited access of the right line, ... *)
IsAccess(c, e) ==
  e \in Nodes(hbg) /\ e \in pb_visited
  /\ Node(hbg, e).itype \in {"READ", "WRITE"} /\ Node(hbg, e).line = c

Accesses(cl) ==
  \A c \in Lines, u \in Threads : cl[c][u] # None => IsAccess(c, <<u, cl[c][u]>>)

(* ... it happens before n, ...                                            *)
SeenAtNode(cl, n) ==
  \A c \in Lines, u \in Threads : cl[c][u] # None => HB(<<u, cl[c][u]>>, n)

(* ... or is even durable there.                                           *)
DurableAtNode(cl, n) ==
  \A c \in Lines, u \in Threads : cl[c][u] # None => PB(<<u, cl[c][u]>>, n)

NotAhead(persisted, seen) ==
  \A c \in Lines, u \in Threads : persisted[c][u] <= seen[c][u]

(* The traversal is in topological order. *)
PBPast == \A n \in pb_visited : \A m \in Nodes(hbg) : m \in hbg.past[n] => m \in pb_visited

ThreadClocks ==
  \A t \in Threads :
    /\ Accesses(last_seen[t]) /\ Accesses(last_persisted[t])
    /\ NotAhead(last_persisted[t], last_seen[t])
    /\ \A n \in Nodes(hbg) \ pb_visited : n[1] = t =>
         SeenAtNode(last_seen[t], n) /\ DurableAtNode(last_persisted[t], n)

FindInv == FindTypeOK /\ PBPast /\ ThreadClocks

(* The specification's words for nodes are those of the detector. *)
LEMMA SameWords ==
  /\ \A g : Abstract!Nodes(g) = Nodes(g)
  /\ \A g, n : Abstract!Node(g, n) = Node(g, n)
  /\ \A g, n, m : Abstract!Overlap(g, n, m) = Overlap(g, n, m)
  /\ \A g, n, itype : Abstract!IsType(g, n, itype) <=> IsType(g, n, itype)
BY DEF Abstract!Nodes, Nodes, Abstract!Node, Node, Abstract!Overlap, Overlap, Abstract!IsType,
       IsType

LEMMA Durable ==
  ASSUME NEW e, NEW n
  PROVE  PB(e, n) <=> /\ ~ presets.ignore_flush_nodes
                      /\ \E f \in Nodes(hbg) : /\ IsType(hbg, f, "FLUSH")
                                               /\ Node(hbg, f).line = Node(hbg, e).line
                                               /\ HB(e, f) /\ HB(f, n)
BY SameWords DEF PB, HB, Abstract!PersistedBefore

LEMMA DurableLater ==
  ASSUME InputOK, NEW e \in Nodes(hbg), NEW n \in Nodes(hbg), NEW m \in Nodes(hbg),
         PB(e, n), HB(n, m)
  PROVE  PB(e, m)
<1>1. PICK f \in Nodes(hbg) : /\ IsType(hbg, f, "FLUSH")
                             /\ Node(hbg, f).line = Node(hbg, e).line
                             /\ HB(e, f) /\ HB(f, n)
  BY Durable
<1>2. HB(f, m)
  BY <1>1, Transitive
<1> QED
  BY <1>1, <1>2, Durable

LEMMA DurableEarlier ==
  ASSUME InputOK, NEW e \in Nodes(hbg), NEW k \in Nodes(hbg), NEW n \in Nodes(hbg),
         PB(k, n), HB(e, k), Node(hbg, e).line = Node(hbg, k).line
  PROVE  PB(e, n)
<1>1. PICK f \in Nodes(hbg) : /\ IsType(hbg, f, "FLUSH")
                             /\ Node(hbg, f).line = Node(hbg, k).line
                             /\ HB(k, f) /\ HB(f, n)
  BY Durable
<1>2. HB(e, f)
  BY <1>1, Transitive
<1> QED
  BY <1>1, <1>2, Durable

(* What clocks say of a node they say of every later one. *)
LEMMA LaterNode ==
  ASSUME InputOK, NEW cl, Accesses(cl), NEW n \in Nodes(hbg), NEW m \in Nodes(hbg), HB(n, m)
  PROVE  /\ SeenAtNode(cl, n) => SeenAtNode(cl, m)
         /\ DurableAtNode(cl, n) => DurableAtNode(cl, m)
BY Transitive, DurableLater DEF Accesses, IsAccess, SeenAtNode, DurableAtNode

(* Clocks put together from the components of two others. *)
TakenFrom(cl, v, w) == \A c \in Lines, u \in Threads : cl[c][u] \in {v[c][u], w[c][u]}

LEMMA Taken ==
  ASSUME NEW cl, NEW v, NEW w, TakenFrom(cl, v, w), NEW n
  PROVE  /\ Accesses(v) /\ Accesses(w) => Accesses(cl)
         /\ SeenAtNode(v, n) /\ SeenAtNode(w, n) => SeenAtNode(cl, n)
         /\ DurableAtNode(v, n) /\ DurableAtNode(w, n) => DurableAtNode(cl, n)
<1> USE DEF TakenFrom
<1>1. Accesses(v) /\ Accesses(w) => Accesses(cl)
  BY DEF Accesses
<1>2. SeenAtNode(v, n) /\ SeenAtNode(w, n) => SeenAtNode(cl, n)
  BY DEF SeenAtNode
<1>3. DurableAtNode(v, n) /\ DurableAtNode(w, n) => DurableAtNode(cl, n)
  BY DEF DurableAtNode
<1> QED
  BY <1>1, <1>2, <1>3

LEMMA FindInitially == ASSUME FindInit PROVE InputOK /\ HAInv /\ FindInv
<1>1. InputOK
  BY InputsAssumption DEF FindInit, InputOK
<1>2. HAInv
  BY HAInitially DEF FindInit
<1>3. FindTypeOK
  BY DEF FindInit, FindTypeOK, NoClocks, EmptyClock, Clocks, None
<1>4. PBPast
  BY DEF FindInit, PBPast
<1>5. ThreadClocks
  BY DEF FindInit, ThreadClocks, NoClocks, EmptyClock, None, Accesses, SeenAtNode,
         DurableAtNode, NotAhead
<1> QED
  BY <1>1, <1>2, <1>3, <1>4, <1>5 DEF FindInv

(* The visit itself: the nodes of n's thread still to come follow n. *)
LEMMA PBVisited ==
  ASSUME InputOK, FindInv, UNCHANGED inputs,
         NEW n \in Nodes(hbg), NEW itype, PBVisit(n, itype)
  PROVE  /\ pb_visited' = pb_visited \cup {n}
         /\ n \notin pb_visited
         /\ PBPast'
         /\ \A m \in Nodes(hbg) \ pb_visited' : m \notin pb_visited /\ (m[1] = n[1] => HB(n, m))
<1> USE DEF inputs
<1>1. /\ pb_visited' = pb_visited \cup {n} /\ n \notin pb_visited
      /\ Parents(hbg, n) \subseteq pb_visited
  BY DEF PBVisit
<1>2. IsGraph(hbg) /\ IsHappensBeforeClosure(hbg)
  BY DEF InputOK, IsInput
<1>3. ASSUME NEW m \in Nodes(hbg), m \in hbg.past[n]
      PROVE  m \in pb_visited
  <2>1. PICK q \in Parents(hbg, n) : m = q \/ m \in hbg.past[q]
    BY <1>2, <1>3 DEF IsHappensBeforeClosure
  <2> QED
    BY <1>1, <2>1 DEF FindInv, PBPast
<1>4. PBPast'
  <2> SUFFICES ASSUME NEW k \in pb_visited', NEW m \in Nodes(hbg), m \in hbg.past[k]
               PROVE  m \in pb_visited'
    BY DEF PBPast
  <2>1. m \in pb_visited
    BY <1>1, <1>3 DEF FindInv, PBPast
  <2> QED
    BY <1>1, <2>1
<1>5. ASSUME NEW m \in Nodes(hbg) \ pb_visited', m[1] = n[1]
      PROVE  HB(n, m)
  <2>1. /\ m = <<m[1], m[2]>> /\ n = <<n[1], n[2]>>
        /\ m[2] \in Nat /\ n[2] \in Nat /\ m # n
    BY <1>1, <1>2, NodeShape
  <2>2. ~ (m[2] < n[2])
    BY <1>1, <1>3, <1>5, ProgramOrder
  <2>3. n[2] < m[2]
    BY <2>1, <2>2, <1>5
  <2> QED
    BY <2>3, <1>5, ProgramOrder
<1> QED
  BY <1>1, <1>4, <1>5

LEMMA SameOrder ==
  ASSUME UNCHANGED inputs
  PROVE  /\ \A a, b : HB(a, b)' = HB(a, b)
         /\ \A a, b : PB(a, b)' = PB(a, b)
<1>1. \A a, b : HB(a, b)' = HB(a, b)
  BY DEF inputs, HB, Abstract!HappensBefore
<1>2. \A a, b : PB(a, b)' = PB(a, b)
  BY DEF inputs, PB, Abstract!PersistedBefore, Abstract!HappensBefore, Abstract!Nodes,
         Abstract!Node, Abstract!IsType
<1> QED
  BY <1>1, <1>2

(* The clocks of a thread that stays as it is. *)
LEMMA SameClocks ==
  ASSUME InputOK, FindInv, UNCHANGED inputs, pb_visited \subseteq pb_visited',
         NEW t \in Threads, last_seen'[t] = last_seen[t], last_persisted'[t] = last_persisted[t]
  PROVE  /\ Accesses(last_seen[t])' /\ Accesses(last_persisted[t])'
         /\ NotAhead(last_persisted[t], last_seen[t])'
         /\ \A n \in Nodes(hbg) \ pb_visited' : n[1] = t =>
              SeenAtNode(last_seen[t], n)' /\ DurableAtNode(last_persisted[t], n)'
<1> USE DEF inputs
<1>1. \A a, b : HB(a, b)' = HB(a, b)
  BY SameOrder
<1>2. \A a, b : PB(a, b)' = PB(a, b)
  BY SameOrder
<1>3. Accesses(last_seen[t])' /\ Accesses(last_persisted[t])'
  BY DEF FindInv, ThreadClocks, Accesses, IsAccess
<1>4. NotAhead(last_persisted[t], last_seen[t])'
  BY DEF FindInv, ThreadClocks, NotAhead
<1>5. \A n \in Nodes(hbg) \ pb_visited' : n[1] = t =>
              SeenAtNode(last_seen[t], n)' /\ DurableAtNode(last_persisted[t], n)'
  BY <1>1, <1>2 DEF FindInv, ThreadClocks, SeenAtNode, DurableAtNode
<1> QED
  BY <1>3, <1>4, <1>5

(* An access or a flush updates one clock pair of its thread: it preserves *)
(* the invariant if the new pair is as the invariant wants it.             *)
LEMMA TouchStep ==
  ASSUME InputOK, FindInv, UNCHANGED inputs,
         NEW n \in Nodes(hbg), NEW itype, NEW seen \in Clocks, NEW persisted \in Clocks,
         Touch(n, itype, seen, persisted), Node(hbg, n).line \in Lines,
         \A u \in Threads :
           /\ persisted[u] <= seen[u]
           /\ seen[u] # None =>
                /\ <<u, seen[u]>> \in pb_visited \cup {n}
                /\ <<u, seen[u]>> \in Nodes(hbg)
                /\ Node(hbg, <<u, seen[u]>>).itype \in {"READ", "WRITE"}
                /\ Node(hbg, <<u, seen[u]>>).line = Node(hbg, n).line
                /\ <<u, seen[u]>> = n \/ HB(<<u, seen[u]>>, n)
           /\ persisted[u] # None =>
                /\ <<u, persisted[u]>> \in pb_visited
                /\ <<u, persisted[u]>> \in Nodes(hbg)
                /\ Node(hbg, <<u, persisted[u]>>).itype \in {"READ", "WRITE"}
                /\ Node(hbg, <<u, persisted[u]>>).line = Node(hbg, n).line
                /\ \A m \in Nodes(hbg) : HB(n, m) => PB(<<u, persisted[u]>>, m)
  PROVE  /\ PBPast' /\ ThreadClocks'
         /\ pb_visited' \subseteq Nodes(hbg)
         /\ last_seen' \in [Threads -> [Lines -> Clocks]]
         /\ last_persisted' \in [Threads -> [Lines -> Clocks]]
<1> USE DEF inputs
<1>1. PBVisit(n, itype)
  BY DEF Touch
<1>2. /\ pb_visited' = pb_visited \cup {n}
      /\ PBPast'
      /\ \A m \in Nodes(hbg) \ pb_visited' : m \notin pb_visited /\ (m[1] = n[1] => HB(n, m))
  BY <1>1, PBVisited
<1>3. n[1] \in Threads
  BY NodeShape DEF InputOK, IsInput
<1>4. /\ last_seen \in [Threads -> [Lines -> Clocks]]
      /\ last_persisted \in [Threads -> [Lines -> Clocks]]
      /\ last_seen' = [last_seen EXCEPT ![n[1]][Node(hbg, n).line] = seen]
      /\ last_persisted' = [last_persisted EXCEPT ![n[1]][Node(hbg, n).line] = persisted]
  BY DEF Touch, FindInv, FindTypeOK
<1>5. /\ \A a, b : HB(a, b)' = HB(a, b)
      /\ \A a, b : PB(a, b)' = PB(a, b)
  BY SameOrder
<1>6. ASSUME NEW t \in Threads, t # n[1]
      PROVE  last_seen'[t] = last_seen[t] /\ last_persisted'[t] = last_persisted[t]
  BY <1>4, <1>6
<1>7. /\ last_seen'[n[1]] = [last_seen[n[1]] EXCEPT ![Node(hbg, n).line] = seen]
      /\ last_persisted'[n[1]] = [last_persisted[n[1]] EXCEPT ![Node(hbg, n).line] = persisted]
  BY <1>3, <1>4
<1>8. \A c \in Lines :
        /\ last_seen'[n[1]][c] = IF c = Node(hbg, n).line THEN seen ELSE last_seen[n[1]][c]
        /\ last_persisted'[n[1]][c] =
             IF c = Node(hbg, n).line THEN persisted ELSE last_persisted[n[1]][c]
  BY <1>3, <1>4, <1>7
<1>9. /\ Accesses(last_seen[n[1]]) /\ Accesses(last_persisted[n[1]])
      /\ NotAhead(last_persisted[n[1]], last_seen[n[1]])
      /\ \A m \in Nodes(hbg) \ pb_visited' : m[1] = n[1] =>
           SeenAtNode(last_seen[n[1]], m) /\ DurableAtNode(last_persisted[n[1]], m)
  BY <1>2, <1>3 DEF FindInv, ThreadClocks
<1>10. Accesses(last_seen[n[1]])' /\ Accesses(last_persisted[n[1]])'
  <2>1. Accesses(last_seen[n[1]])'
    <3> SUFFICES ASSUME NEW c \in Lines, NEW u \in Threads, last_seen'[n[1]][c][u] # None
                 PROVE  /\ <<u, last_seen'[n[1]][c][u]>> \in Nodes(hbg)
                        /\ <<u, last_seen'[n[1]][c][u]>> \in pb_visited'
                        /\ Node(hbg, <<u, last_seen'[n[1]][c][u]>>).itype \in {"READ", "WRITE"}
                        /\ Node(hbg, <<u, last_seen'[n[1]][c][u]>>).line = c
      BY DEF Accesses, IsAccess
    <3>1. CASE c = Node(hbg, n).line
      BY <1>2, <1>8, <3>1
    <3>2. CASE c # Node(hbg, n).line
      BY <1>2, <1>8, <1>9, <3>2 DEF Accesses, IsAccess
    <3> QED
      BY <3>1, <3>2
  <2>2. Accesses(last_persisted[n[1]])'
    <3> SUFFICES ASSUME NEW c \in Lines, NEW u \in Threads, last_persisted'[n[1]][c][u] # None
                 PROVE  /\ <<u, last_persisted'[n[1]][c][u]>> \in Nodes(hbg)
                        /\ <<u, last_persisted'[n[1]][c][u]>> \in pb_visited'
                        /\ Node(hbg, <<u, last_persisted'[n[1]][c][u]>>).itype \in {"READ", "WRITE"}
                        /\ Node(hbg, <<u, last_persisted'[n[1]][c][u]>>).line = c
      BY DEF Accesses, IsAccess
    <3>1. CASE c = Node(hbg, n).line
      BY <1>2, <1>8, <3>1
    <3>2. CASE c # Node(hbg, n).line
      BY <1>2, <1>8, <1>9, <3>2 DEF Accesses, IsAccess
    <3> QED
      BY <3>1, <3>2
  <2> QED
    BY <2>1, <2>2
<1>11. NotAhead(last_persisted[n[1]], last_seen[n[1]])'
  BY <1>8, <1>9 DEF NotAhead
<1>12. ASSUME NEW m \in Nodes(hbg) \ pb_visited', m[1] = n[1]
       PROVE  SeenAtNode(last_seen[n[1]], m)' /\ DurableAtNode(last_persisted[n[1]], m)'
  <2>1. HB(n, m)
    BY <1>2, <1>12
  <2>2. ASSUME NEW u \in Threads, seen[u] # None
        PROVE  HB(<<u, seen[u]>>, m)
    BY <2>1, <2>2, Transitive
  <2>3. ASSUME NEW u \in Threads, persisted[u] # None
        PROVE  PB(<<u, persisted[u]>>, m)
    BY <2>1, <2>3
  <2>4. SeenAtNode(last_seen[n[1]], m)'
    BY <1>5, <1>8, <1>9, <1>12, <2>2 DEF SeenAtNode
  <2>5. DurableAtNode(last_persisted[n[1]], m)'
    BY <1>5, <1>8, <1>9, <1>12, <2>3 DEF DurableAtNode
  <2> QED
    BY <2>4, <2>5
<1>13. ThreadClocks'
  <2> SUFFICES ASSUME NEW t \in Threads
               PROVE  /\ Accesses(last_seen[t])' /\ Accesses(last_persisted[t])'
                      /\ NotAhead(last_persisted[t], last_seen[t])'
                      /\ \A m \in Nodes(hbg) \ pb_visited' : m[1] = t =>
                           SeenAtNode(last_seen[t], m)' /\ DurableAtNode(last_persisted[t], m)'
    BY DEF ThreadClocks
  <2>1. CASE t = n[1]
    BY <2>1, <1>10, <1>11, <1>12
  <2>2. CASE t # n[1]
    BY <2>2, <1>2, <1>6, SameClocks
  <2> QED
    BY <2>1, <2>2
<1>14. /\ last_seen' \in [Threads -> [Lines -> Clocks]]
       /\ last_persisted' \in [Threads -> [Lines -> Clocks]]
  BY <1>3, <1>4
<1> QED
  BY <1>2, <1>13, <1>14 DEF FindInv, FindTypeOK

(* What the clocks of a node still to be visited hold. *)
LEMMA UnvisitedNode ==
  ASSUME InputOK, FindInv, NEW n \in Nodes(hbg), n \notin pb_visited,
         Node(hbg, n).line \in Lines, NEW u \in Threads
  PROVE  /\ SeenAt(n) \in Clocks /\ PersistedAt(n) \in Clocks
         /\ PersistedAt(n)[u] <= SeenAt(n)[u]
         /\ SeenAt(n)[u] # None =>
              IsAccess(Node(hbg, n).line, <<u, SeenAt(n)[u]>>) /\ HB(<<u, SeenAt(n)[u]>>, n)
         /\ PersistedAt(n)[u] # None =>
              IsAccess(Node(hbg, n).line, <<u, PersistedAt(n)[u]>>) /\ PB(<<u, PersistedAt(n)[u]>>, n)
<1>1. n[1] \in Threads
  BY NodeShape DEF InputOK, IsInput
<1>2. SeenAt(n) \in Clocks /\ PersistedAt(n) \in Clocks
  BY <1>1 DEF FindInv, FindTypeOK, SeenAt, PersistedAt
<1>3. /\ Accesses(last_seen[n[1]]) /\ Accesses(last_persisted[n[1]])
      /\ NotAhead(last_persisted[n[1]], last_seen[n[1]])
      /\ SeenAtNode(last_seen[n[1]], n) /\ DurableAtNode(last_persisted[n[1]], n)
  BY <1>1 DEF FindInv, ThreadClocks
<1>4. PersistedAt(n)[u] <= SeenAt(n)[u]
  BY <1>3 DEF NotAhead, SeenAt, PersistedAt
<1>5. SeenAt(n)[u] # None =>
        IsAccess(Node(hbg, n).line, <<u, SeenAt(n)[u]>>) /\ HB(<<u, SeenAt(n)[u]>>, n)
  BY <1>3 DEF Accesses, SeenAtNode, SeenAt
<1>6. PersistedAt(n)[u] # None =>
        IsAccess(Node(hbg, n).line, <<u, PersistedAt(n)[u]>>) /\ PB(<<u, PersistedAt(n)[u]>>, n)
  BY <1>3 DEF Accesses, DurableAtNode, PersistedAt
<1> QED
  BY <1>2, <1>4, <1>5, <1>6

(* A read or a write. *)
LEMMA AccessStep ==
  ASSUME InputOK, FindInv, UNCHANGED inputs, NEW n \in Nodes(hbg), NEW itype \in {"READ", "WRITE"},
         Touch(n, itype, [SeenAt(n) EXCEPT ![n[1]] = n[2]], PersistedAt(n))
  PROVE  /\ PBPast' /\ ThreadClocks'
         /\ pb_visited' \subseteq Nodes(hbg)
         /\ last_seen' \in [Threads -> [Lines -> Clocks]]
         /\ last_persisted' \in [Threads -> [Lines -> Clocks]]
<1> DEFINE seen == [SeenAt(n) EXCEPT ![n[1]] = n[2]]
           persisted == PersistedAt(n)
<1>1. n \notin pb_visited /\ IsType(hbg, n, itype)
  BY DEF Touch, PBVisit
<1>2. /\ n = <<n[1], n[2]>> /\ n[1] \in Threads /\ n[2] \in Nat \ {0}
      /\ Node(hbg, n).line \in Lines
  BY <1>1, NodeShape DEF InputOK, IsInput, IsGraph, IsType, InstructionTypes
<1>3. SeenAt(n) \in Clocks /\ persisted \in Clocks
  BY <1>1, <1>2, UnvisitedNode
<1>4. /\ seen \in Clocks
      /\ \A u \in Threads : seen[u] = IF u = n[1] THEN n[2] ELSE SeenAt(n)[u]
  BY <1>2, <1>3 DEF Clocks
<1>5. ASSUME NEW u \in Threads
      PROVE  /\ persisted[u] <= seen[u]
             /\ seen[u] # None =>
                  /\ <<u, seen[u]>> \in pb_visited \cup {n}
                  /\ <<u, seen[u]>> \in Nodes(hbg)
                  /\ Node(hbg, <<u, seen[u]>>).itype \in {"READ", "WRITE"}
                  /\ Node(hbg, <<u, seen[u]>>).line = Node(hbg, n).line
                  /\ <<u, seen[u]>> = n \/ HB(<<u, seen[u]>>, n)
             /\ persisted[u] # None =>
                  /\ <<u, persisted[u]>> \in pb_visited
                  /\ <<u, persisted[u]>> \in Nodes(hbg)
                  /\ Node(hbg, <<u, persisted[u]>>).itype \in {"READ", "WRITE"}
                  /\ Node(hbg, <<u, persisted[u]>>).line = Node(hbg, n).line
                  /\ \A m \in Nodes(hbg) : HB(n, m) => PB(<<u, persisted[u]>>, m)
  <2>1. /\ persisted[u] <= SeenAt(n)[u]
        /\ SeenAt(n)[u] # None =>
             IsAccess(Node(hbg, n).line, <<u, SeenAt(n)[u]>>) /\ HB(<<u, SeenAt(n)[u]>>, n)
        /\ persisted[u] # None =>
             IsAccess(Node(hbg, n).line, <<u, persisted[u]>>) /\ PB(<<u, persisted[u]>>, n)
    BY <1>1, <1>2, UnvisitedNode
  <2>2. persisted[u] \in Nat /\ SeenAt(n)[u] \in Nat
    BY <1>3 DEF Clocks
  <2>3. CASE u # n[1]
    <3>1. seen[u] = SeenAt(n)[u]
      BY <1>4, <2>3
    <3> QED
      BY <2>1, <3>1, DurableLater DEF IsAccess
  <2>4. CASE u = n[1]
    <3>1. seen[u] = n[2] /\ <<u, seen[u]>> = n
      BY <1>2, <1>4, <2>4
    <3>2. SeenAt(n)[u] # None => SeenAt(n)[u] < n[2]
      BY <2>1, <2>4, SameThread DEF IsAccess
    <3>3. persisted[u] <= seen[u]
      BY <1>2, <2>1, <2>2, <3>1, <3>2 DEF None
    <3>4. Node(hbg, n).itype \in {"READ", "WRITE"}
      BY <1>1 DEF IsType
    <3> QED
      BY <2>1, <3>1, <3>3, <3>4, DurableLater DEF IsAccess
  <2> QED
    BY <2>3, <2>4
<1> HIDE DEF seen, persisted
<1>6. Touch(n, itype, seen, persisted)
  BY DEF seen, persisted
<1> QED
  BY <1>2, <1>3, <1>4, <1>5, <1>6, TouchStep

(* A flush. *)
LEMMA FlushStep ==
  ASSUME InputOK, FindInv, UNCHANGED inputs, NEW n \in Nodes(hbg), ~ presets.ignore_flush_nodes,
         Touch(n, "FLUSH", SeenAt(n), SeenAt(n))
  PROVE  /\ PBPast' /\ ThreadClocks'
         /\ pb_visited' \subseteq Nodes(hbg)
         /\ last_seen' \in [Threads -> [Lines -> Clocks]]
         /\ last_persisted' \in [Threads -> [Lines -> Clocks]]
<1> DEFINE seen == SeenAt(n)
<1>1. n \notin pb_visited /\ IsType(hbg, n, "FLUSH")
  BY DEF Touch, PBVisit
<1>2. Node(hbg, n).line \in Lines /\ n[1] \in Threads
  BY <1>1, NodeShape DEF InputOK, IsInput, IsGraph, IsType, InstructionTypes
<1>3. seen \in Clocks
  BY <1>1, <1>2, UnvisitedNode
<1>4. ASSUME NEW u \in Threads
      PROVE  /\ seen[u] <= seen[u]
             /\ seen[u] # None =>
                  /\ <<u, seen[u]>> \in pb_visited
                  /\ <<u, seen[u]>> \in Nodes(hbg)
                  /\ Node(hbg, <<u, seen[u]>>).itype \in {"READ", "WRITE"}
                  /\ Node(hbg, <<u, seen[u]>>).line = Node(hbg, n).line
                  /\ HB(<<u, seen[u]>>, n)
                  /\ \A m \in Nodes(hbg) : HB(n, m) => PB(<<u, seen[u]>>, m)
  <2>1. seen[u] \in Nat
    BY <1>3 DEF Clocks
  <2>2. seen[u] # None => IsAccess(Node(hbg, n).line, <<u, seen[u]>>) /\ HB(<<u, seen[u]>>, n)
    BY <1>1, <1>2, UnvisitedNode
  <2>3. ASSUME seen[u] # None, NEW m \in Nodes(hbg), HB(n, m)
        PROVE  PB(<<u, seen[u]>>, m)
    BY <1>1, <2>2, <2>3, Durable DEF IsAccess
  <2> QED
    BY <2>1, <2>2, <2>3 DEF IsAccess
<1> HIDE DEF seen
<1>5. Touch(n, "FLUSH", seen, seen)
  BY DEF seen
<1> QED
  BY <1>2, <1>3, <1>4, <1>5, TouchStep

(***************************************************************************)
(* The search.                                                             *)
(***************************************************************************)
(* What it takes for durable is durable. *)
LEMMA EventPersisted ==
  ASSUME InputOK, FindInv, NEW d \in Nodes(hbg), d \notin pb_visited,
         NEW e \in Nodes(hbg), NEW c \in Lines, Node(hbg, e).line = c,
         IsEventPersisted(d, c, e)
  PROVE  PB(e, d)
<1> DEFINE k == last_persisted[d[1]][c][e[1]]
<1>1. /\ d[1] \in Threads /\ e[1] \in Threads
      /\ e = <<e[1], e[2]>> /\ e[2] \in Nat \ {0}
  BY NodeShape DEF InputOK, IsInput
<1>2. e[2] <= k /\ k \in Nat
  BY <1>1 DEF IsEventPersisted, IsHappensBefore, FindInv, FindTypeOK, Clocks
<1>3. k # None
  BY <1>1, <1>2 DEF None
<1>4. IsAccess(c, <<e[1], k>>) /\ PB(<<e[1], k>>, d)
  BY <1>1, <1>3 DEF FindInv, ThreadClocks, Accesses, DurableAtNode
<1>5. CASE e[2] = k
  BY <1>1, <1>4, <1>5
<1>6. CASE e[2] < k
  <2>1. HB(e, <<e[1], k>>)
    BY <1>4, <1>6, ProgramOrder DEF IsAccess
  <2> QED
    BY <1>4, <2>1, DurableEarlier DEF IsAccess
<1> HIDE DEF k
<1> QED
  BY <1>1, <1>2, <1>5, <1>6

(* A write that happens after the read by the read's clock does so. *)
LEMMA LaterByClock ==
  ASSUME InputOK, HAInv, NEW r \in Nodes(hbg), NEW w \in Nodes(hbg), IsHappensAfterRead(r, w)
  PROVE  ~ presets.ignore_happens_after_index /\ HB(r, w)
<1> DEFINE k == vc_per_read_node[r][w[1]]
<1>1. /\ w[1] \in Threads /\ w = <<w[1], w[2]>> /\ w[2] \in Nat
  BY NodeShape DEF InputOK, IsInput
<1>2. k # None /\ k <= w[2] /\ k \in Nat /\ ~ presets.ignore_happens_after_index
  BY <1>1 DEF IsHappensAfterRead, IsHappensAfter, HAInv, HATypeOK, Clocks
<1>3. <<w[1], k>> \in Nodes(hbg) /\ HB(r, <<w[1], k>>)
  BY <1>1, <1>2 DEF HAInv, HAReadNode
<1>4. CASE k = w[2]
  BY <1>1, <1>2, <1>3, <1>4
<1>5. CASE k < w[2]
  <2>1. HB(<<w[1], k>>, w)
    BY <1>3, <1>5, ProgramOrder
  <2> QED
    BY <1>2, <1>3, <2>1, Transitive
<1> HIDE DEF k
<1> QED
  BY <1>1, <1>2, <1>4, <1>5

LEMMA CandidatesAreNodes ==
  ASSUME NEW d, NEW r, NEW u \in Threads, NEW w \in Candidates(d, r, u)
  PROVE  w \in Nodes(hbg) /\ w[1] = u
BY DEF Candidates, Chain, Nodes

LEMMA BugsType ==
  ASSUME InputOK, NEW d \in Nodes(hbg)
  PROVE  BugsOf(d) \subseteq [read : Nodes(hbg), write : Nodes(hbg), dependent : Nodes(hbg),
                              ordered : BOOLEAN]
<1> SUFFICES ASSUME NEW x \in BugsOf(d)
             PROVE  x \in [read : Nodes(hbg), write : Nodes(hbg), dependent : Nodes(hbg),
                           ordered : BOOLEAN]
  OBVIOUS
<1>1. PICK p \in pdg : x \in {RaceReport(d, p[2], w) :
                               w \in UNION {Reported(d, p[2], u) : u \in Threads}}
  BY DEF BugsOf
<1>2. PICK u \in Threads : \E w \in Reported(d, p[2], u) : x = RaceReport(d, p[2], w)
  BY <1>1
<1>3. PICK w \in Reported(d, p[2], u) : x = RaceReport(d, p[2], w)
  BY <1>2
<1>4. w \in Nodes(hbg)
  BY <1>3, CandidatesAreNodes DEF Reported
<1>5. p[2] \in Nodes(hbg)
  BY DEF InputOK, IsInput, IsPdg
<1> QED
  BY <1>3, <1>4, <1>5 DEF RaceReport, IsHappensBefore

(* The search at W(Y) misses no race that W(Y) completes. *)
LEMMA FindsRaces ==
  ASSUME InputOK, HAInv, FindInv, ~ presets.show_only_first_bug_in_thread,
         NEW d \in Nodes(hbg), d \notin pb_visited, NEW r, <<d, r>> \in pdg,
         NEW w \in Nodes(hbg), Abstract!IsRace(r, w, d)
  PROVE  \E x \in BugsOf(d) : x.read = r /\ x.write = w /\ x.dependent = d
<1> DEFINE c == Node(hbg, r).line
           start == IF presets.ignore_persisted_before_index
                    THEN None ELSE last_persisted[d[1]][c][w[1]]
<1>1. /\ IsType(hbg, w, "WRITE") /\ Overlap(hbg, w, r) /\ ~ Node(hbg, w).nt
      /\ ~ Abstract!ReadIsPersisted(r, d)
      /\ ~ Abstract!WriteIsPersisted(w, d)
      /\ ~ Abstract!WriteIsLater(w, r)
  BY SameWords DEF Abstract!IsRace, Abstract!IsWrite
<1>2. r \in Nodes(hbg) /\ IsType(hbg, r, "READ")
  BY DEF InputOK, IsInput, IsPdg
<1>3. /\ d[1] \in Threads /\ w[1] \in Threads
      /\ w = <<w[1], w[2]>> /\ w[2] \in DOMAIN hbg.nodes[w[1]] /\ w[2] \in Nat
  BY NodeShape DEF InputOK, IsInput
<1>4. c \in Lines /\ Node(hbg, w).line = c
  BY <1>1, <1>2 DEF InputOK, IsInput, IsGraph, IsType, Overlap, InstructionTypes
<1>5. ~ presets.ignore_persisted_before_index => ~ IsEventPersisted(d, c, w)
  BY <1>1, <1>4, EventPersisted DEF Abstract!WriteIsPersisted, PB
<1>6. ~ ReadIsSkipped(d, r)
  BY <1>1, <1>2, <1>4, EventPersisted DEF ReadIsSkipped, Abstract!ReadIsPersisted, PB
<1>7. start # None => start <= w[2]
  <2>1. last_persisted[d[1]][c][w[1]] \in Nat
    BY <1>3, <1>4 DEF FindInv, FindTypeOK, Clocks
  <2> QED
    BY <1>3, <1>5, <2>1 DEF IsEventPersisted, IsHappensBefore
<1>8. w \in Candidates(d, r, w[1])
  <2>1. w \in Chain(c, w[1], start)
    BY <1>1, <1>3, <1>4, <1>7 DEF Chain
  <2> QED
    BY <1>1, <1>5, <2>1 DEF Candidates
<1>9. ~ IsHappensAfterRead(r, w)
  BY <1>1, <1>2, LaterByClock DEF Abstract!WriteIsLater, HB
<1>10. ASSUME NEW v \in Candidates(d, r, w[1]), v[2] < w[2], BreaksAt(r, v)
       PROVE  FALSE
  <2>1. v[1] = w[1] /\ v \in Nodes(hbg)
    BY <1>3, CandidatesAreNodes
  <2>2. IsHappensAfterRead(r, v)
    BY <1>10 DEF BreaksAt
  <2>3. v[2] \in Nat /\ vc_per_read_node[r][w[1]] \in Nat
    BY <1>2, <1>3, <2>1, NodeShape DEF InputOK, IsInput, HAInv, HATypeOK, Clocks
  <2>4. IsHappensAfterRead(r, w)
    BY <1>3, <1>10, <2>1, <2>2, <2>3 DEF IsHappensAfterRead, IsHappensAfter
  <2> QED
    BY <1>9, <2>4
<1>11. w \in Reported(d, r, w[1])
  BY <1>8, <1>9, <1>10 DEF Reported
<1>12. RaceReport(d, r, w) \in BugsOf(d)
  <2> DEFINE p == <<d, r>>
  <2>1. p \in {q \in pdg : q[1] = d /\ ~ ReadIsSkipped(d, q[2])} /\ p[2] = r
    BY <1>6
  <2>2. RaceReport(d, p[2], w) \in
          {RaceReport(d, p[2], v) : v \in UNION {Reported(d, p[2], u) : u \in Threads}}
    BY <1>3, <1>11
  <2> QED
    BY <2>1, <2>2 DEF BugsOf
<1> QED
  BY <1>12 DEF RaceReport

(***************************************************************************)
(* The steps of the second stage that both versions take.                  *)
(***************************************************************************)
LEMMA InstructionStep ==
  ASSUME InputOK, FindInv, UNCHANGED inputs, NEW n \in Nodes(hbg),
         TouchWrite(n) \/ TouchRead(n) \/ TouchFlush(n) \/ SkipFlush(n) \/ SkipEpoch(n)
  PROVE  FindInv'
<1> USE DEF inputs
<1>1. CASE TouchWrite(n) \/ TouchRead(n)
  <2>1. PICK itype \in {"READ", "WRITE"} :
          Touch(n, itype, [SeenAt(n) EXCEPT ![n[1]] = n[2]], PersistedAt(n))
    BY <1>1 DEF TouchWrite, TouchRead
  <2>2. /\ PBPast' /\ ThreadClocks'
        /\ pb_visited' \subseteq Nodes(hbg)
        /\ last_seen' \in [Threads -> [Lines -> Clocks]]
        /\ last_persisted' \in [Threads -> [Lines -> Clocks]]
    BY <2>1, AccessStep
  <2>3. races' \subseteq [read : Nodes(hbg), write : Nodes(hbg), dependent : Nodes(hbg),
                          ordered : BOOLEAN]
    BY <1>1, BugsType DEF TouchWrite, TouchRead, FindInv, FindTypeOK
  <2> QED
    BY <2>2, <2>3 DEF FindInv, FindTypeOK
<1>2. CASE TouchFlush(n)
  <2>1. /\ PBPast' /\ ThreadClocks'
        /\ pb_visited' \subseteq Nodes(hbg)
        /\ last_seen' \in [Threads -> [Lines -> Clocks]]
        /\ last_persisted' \in [Threads -> [Lines -> Clocks]]
    BY <1>2, FlushStep DEF TouchFlush
  <2> QED
    BY <1>2, <2>1 DEF TouchFlush, FindInv, FindTypeOK
<1>3. CASE SkipFlush(n) \/ SkipEpoch(n)
  <2>1. PICK itype : PBVisit(n, itype)
    BY <1>3 DEF SkipFlush, SkipEpoch
  <2>2. /\ pb_visited' = pb_visited \cup {n} /\ PBPast'
        /\ UNCHANGED <<last_seen, last_persisted, races>>
    BY <1>3, <2>1, PBVisited DEF SkipFlush, SkipEpoch
  <2>3. ThreadClocks'
    BY <2>2, SameClocks DEF ThreadClocks
  <2> QED
    BY <2>2, <2>3 DEF FindInv, FindTypeOK
<1> QED
  BY <1>1, <1>2, <1>3

LEMMA SameRaces ==
  ASSUME UNCHANGED inputs, NEW r, NEW w, NEW d
  PROVE  Abstract!IsRace(r, w, d)' <=> Abstract!IsRace(r, w, d)
BY DEF inputs, Abstract!IsRace, Abstract!IsWrite, Abstract!ReadIsPersisted,
       Abstract!WriteIsPersisted, Abstract!WriteIsLater, Abstract!PersistedBefore,
       Abstract!HappensBefore, Abstract!Nodes, Abstract!Node, Abstract!IsType, Abstract!Overlap

(* Reports stay, and at a write the search adds what was missing. *)
LEMMA NoMissedRaceStep ==
  ASSUME InputOK, HAInv, FindInv, NoMissedRace, UNCHANGED inputs, NEW n \in Nodes(hbg),
         NEW itype, PBVisit(n, itype),
         \/ itype # "WRITE" /\ UNCHANGED races
         \/ races' = races \cup BugsOf(n)
  PROVE  NoMissedRace'
<1> USE DEF inputs
<1> SUFFICES ASSUME ~ presets.show_only_first_bug_in_thread,
                    NEW p \in pdg, p[1] \in pb_visited', NEW w \in Nodes(hbg),
                    Abstract!IsRace(p[2], w, p[1])'
             PROVE  \E x \in races' : x.read = p[2] /\ x.write = w /\ x.dependent = p[1]
  BY DEF NoMissedRace
<1>1. /\ pb_visited' = pb_visited \cup {n} /\ n \notin pb_visited
      /\ IsType(hbg, n, itype) /\ races \subseteq races'
  BY DEF PBVisit
<1>2. Abstract!IsRace(p[2], w, p[1])
  BY SameRaces
<1>3. CASE p[1] \in pb_visited
  BY <1>1, <1>2, <1>3 DEF NoMissedRace
<1>4. CASE p[1] = n
  <2>1. IsType(hbg, n, "WRITE") /\ p = <<n, p[2]>>
    BY <1>4 DEF InputOK, IsInput, IsPdg
  <2>2. races' = races \cup BugsOf(n)
    BY <1>1, <2>1 DEF IsType
  <2>3. \E x \in BugsOf(n) : x.read = p[2] /\ x.write = w /\ x.dependent = n
    BY <1>1, <1>2, <1>4, <2>1, FindsRaces
  <2> QED
    BY <1>4, <2>2, <2>3
<1> QED
  BY <1>1, <1>3, <1>4

(***************************************************************************)
(* What the invariants give.                                               *)
(***************************************************************************)
LEMMA ChainsEntered == ASSUME InputOK, FindInv PROVE ChainsCanBeEntered
BY DEF ChainsCanBeEntered, FindInv, ThreadClocks, Accesses, IsAccess

LEMMA Advance == ASSUME InputOK, HAInv, FindInv PROVE EpochsAdvance
<1> SUFFICES ASSUME NEW n \in Nodes(hbg)
             PROVE  /\ n \notin pb_visited => \A c \in Lines : last_seen[n[1]][c][n[1]] < n[2]
                    /\ n \notin ha_visited => ReversedLess(vc_per_thread[n[1]][n[1]], n[2])
  BY DEF EpochsAdvance
<1>1. n[1] \in Threads /\ n = <<n[1], n[2]>> /\ n[2] \in Nat \ {0}
  BY NodeShape DEF InputOK, IsInput
<1>2. ASSUME n \notin pb_visited, NEW c \in Lines
      PROVE  last_seen[n[1]][c][n[1]] < n[2]
  <2> DEFINE k == last_seen[n[1]][c][n[1]]
  <2>1. k # None => IsAccess(c, <<n[1], k>>) /\ HB(<<n[1], k>>, n)
    BY <1>1, <1>2 DEF FindInv, ThreadClocks, Accesses, SeenAtNode
  <2>2. k # None => k < n[2]
    BY <2>1, SameThread DEF IsAccess
  <2> QED
    BY <1>1, <2>2 DEF None
<1>3. ASSUME n \notin ha_visited
      PROVE  ReversedLess(vc_per_thread[n[1]][n[1]], n[2])
  <2> DEFINE k == vc_per_thread[n[1]][n[1]]
  <2>1. k # None => <<n[1], k>> \in Nodes(hbg) /\ HB(n, <<n[1], k>>)
    BY <1>1, <1>3 DEF HAInv, HAThread
  <2>2. k # None => n[2] < k
    BY <2>1, SameThread
  <2> QED
    BY <1>1, <2>2 DEF ReversedLess, None
<1> QED
  BY <1>2, <1>3

LEMMA PersistedWitnessed == ASSUME InputOK, FindInv PROVE PersistedIsWitnessed
<1> SUFFICES ASSUME NEW t \in Threads, NEW u \in Threads, NEW c \in Lines,
                    last_persisted[t][c][u] # None,
                    NEW n \in ({t} \X DOMAIN hbg.nodes[t]) \ pb_visited
             PROVE  PB(<<u, last_persisted[t][c][u]>>, n)
  BY DEF PersistedIsWitnessed, PB
<1>1. n \in Nodes(hbg) /\ n[1] = t
  BY DEF Nodes
<1> QED
  BY <1>1 DEF FindInv, ThreadClocks, DurableAtNode

LEMMA HappensAfterWitnessed == ASSUME HAInv PROVE HappensAfterIsWitnessed
BY DEF HappensAfterIsWitnessed, HAInv, HAReadNode, HB

(***************************************************************************)
(* The clocks of all lines put together at an epoch node.                  *)
(***************************************************************************)
LEMMA MergedClocksTake ==
  ASSUME NEW v \in [Lines -> Clocks], NEW w \in [Lines -> Clocks]
  PROVE  /\ MergedClocks(v, w) \in [Lines -> Clocks]
         /\ TakenFrom(MergedClocks(v, w), v, w)
<1>1. ASSUME NEW c \in Lines
      PROVE  /\ MergedClocks(v, w)[c] = Merge(v[c], w[c])
             /\ Merge(v[c], w[c]) \in Clocks
             /\ \A u \in Threads : Merge(v[c], w[c])[u] \in {v[c][u], w[c][u]}
  BY MergeTakes DEF MergedClocks
<1>2. MergedClocks(v, w) \in [Lines -> Clocks]
  BY <1>1 DEF MergedClocks
<1> QED
  BY <1>1, <1>2 DEF TakenFrom

LEMMA MergeNotAhead ==
  ASSUME NEW p \in Clocks, NEW q \in Clocks, NEW v \in Clocks, NEW w \in Clocks,
         \A u \in Threads : p[u] <= v[u] /\ q[u] <= w[u]
  PROVE  \A u \in Threads : Merge(p, q)[u] <= Merge(v, w)[u]
BY DEF Merge, Clocks

LEMMA MergedClocksNotAhead ==
  ASSUME NEW p \in [Lines -> Clocks], NEW q \in [Lines -> Clocks],
         NEW v \in [Lines -> Clocks], NEW w \in [Lines -> Clocks],
         NotAhead(p, v), NotAhead(q, w)
  PROVE  NotAhead(MergedClocks(p, q), MergedClocks(v, w))
<1> SUFFICES ASSUME NEW c \in Lines
             PROVE  \A u \in Threads : Merge(p[c], q[c])[u] <= Merge(v[c], w[c])[u]
  BY DEF NotAhead, MergedClocks
<1> QED
  BY MergeNotAhead DEF NotAhead

(* An epoch node n replaces the clocks of its thread: the new ones must be *)
(* as the invariant wants them at n.                                       *)
LEMMA EpochStep ==
  ASSUME InputOK, FindInv, UNCHANGED <<inputs, races>>, NEW n \in Nodes(hbg), PBVisit(n, "EPOCH"),
         NEW seen \in [Lines -> Clocks], NEW persisted \in [Lines -> Clocks],
         last_seen' = [last_seen EXCEPT ![n[1]] = seen],
         last_persisted' = [last_persisted EXCEPT ![n[1]] = persisted],
         Accesses(seen), Accesses(persisted), NotAhead(persisted, seen),
         SeenAtNode(seen, n), DurableAtNode(persisted, n)
  PROVE  FindInv'
<1> USE DEF inputs
<1>1. /\ pb_visited' = pb_visited \cup {n}
      /\ PBPast'
      /\ \A m \in Nodes(hbg) \ pb_visited' : m \notin pb_visited /\ (m[1] = n[1] => HB(n, m))
  BY PBVisited
<1>2. n[1] \in Threads
  BY NodeShape DEF InputOK, IsInput
<1>3. /\ last_seen \in [Threads -> [Lines -> Clocks]]
      /\ last_persisted \in [Threads -> [Lines -> Clocks]]
  BY DEF FindInv, FindTypeOK
<1>4. FindTypeOK'
  BY <1>1, <1>2, <1>3 DEF FindInv, FindTypeOK
<1>5. last_seen'[n[1]] = seen /\ last_persisted'[n[1]] = persisted
  BY <1>2, <1>3
<1>6. ThreadClocks'
  <2> SUFFICES ASSUME NEW t \in Threads
               PROVE  /\ Accesses(last_seen[t])' /\ Accesses(last_persisted[t])'
                      /\ NotAhead(last_persisted[t], last_seen[t])'
                      /\ \A m \in Nodes(hbg) \ pb_visited' : m[1] = t =>
                           SeenAtNode(last_seen[t], m)' /\ DurableAtNode(last_persisted[t], m)'
    BY DEF ThreadClocks
  <2>1. CASE t = n[1]
    <3>1. Accesses(last_seen[t])' /\ Accesses(last_persisted[t])'
      BY <1>1, <1>5, <2>1 DEF Accesses, IsAccess
    <3>2. NotAhead(last_persisted[t], last_seen[t])'
      BY <1>5, <2>1 DEF NotAhead
    <3>3. ASSUME NEW m \in Nodes(hbg) \ pb_visited', m[1] = t
          PROVE  SeenAtNode(last_seen[t], m)' /\ DurableAtNode(last_persisted[t], m)'
      <4>1. SeenAtNode(seen, m) /\ DurableAtNode(persisted, m)
        BY <1>1, <2>1, <3>3, LaterNode
      <4>2. /\ \A a, b : HB(a, b)' = HB(a, b)
            /\ \A a, b : PB(a, b)' = PB(a, b)
        BY SameOrder
      <4> QED
        BY <1>5, <2>1, <4>1, <4>2 DEF SeenAtNode, DurableAtNode
    <3> QED
      BY <3>1, <3>2, <3>3
  <2>2. CASE t # n[1]
    <3>1. last_seen'[t] = last_seen[t] /\ last_persisted'[t] = last_persisted[t]
      BY <1>3, <2>2
    <3> QED
      BY <1>1, <3>1, SameClocks
  <2> QED
    BY <2>1, <2>2
<1> QED
  BY <1>1, <1>4, <1>6 DEF FindInv

(* Steps that do not touch a stage preserve what is known of it. *)
LEMMA FirstStageStays ==
  ASSUME InputOK, HAInv, UNCHANGED inputs, UNCHANGED ha_vars
  PROVE  InputOK' /\ HAInv'
BY DEF InputOK, inputs, ha_vars, HAInv, HATypeOK, HAFuture, HAThread, HAEpochNode, HAReadNode,
       HB, Abstract!HappensBefore

LEMMA SecondStageStays ==
  ASSUME InputOK, FindInv, NoMissedRace, UNCHANGED inputs, UNCHANGED find_vars
  PROVE  FindInv' /\ NoMissedRace'
<1> USE DEF inputs, find_vars
<1>1. FindTypeOK' /\ PBPast'
  BY DEF FindInv, FindTypeOK, PBPast
<1>2. ThreadClocks'
  BY SameClocks DEF ThreadClocks
<1>3. NoMissedRace'
  BY SameRaces DEF NoMissedRace
<1> QED
  BY <1>1, <1>2, <1>3 DEF FindInv

(***************************************************************************)
(* Exactness.  On graphs whose edges are direct and tell news nothing that *)
(* happens before a node is missing from the clocks its thread holds when  *)
(* it comes to the node, in either stage, so that the search at a write    *)
(* reports the races of RaceSpec and nothing else.                         *)
(***************************************************************************)
(* A least and a greatest position exist. *)
LEMMA NatMin == ASSUME NEW T, T \subseteq Nat, T # {} PROVE \E x \in T : \A y \in T : x <= y
<1> DEFINE R == OpToRel(<, Nat)
<1>1. IsWellFoundedOn(R, Nat)
  BY NatLessThanWellFounded
<1>2. \A x, y \in Nat : <<x, y>> \in R <=> x < y
  BY DEF OpToRel
<1> HIDE DEF R
<1>3. PICK x \in T : \A y \in T : ~ (<<y, x>> \in R)
  BY <1>1, WFMin
<1>4. ASSUME NEW y \in T PROVE x <= y
  <2>1. ~ (y < x)
    BY <1>2, <1>3, Zenon
  <2> QED BY <2>1
<1> QED BY <1>4

LEMMA NatMax ==
  ASSUME NEW k \in Nat, NEW T, T \subseteq 1..k, T # {}
  PROVE  \E x \in T : \A y \in T : y <= x
<1> DEFINE D == {k - y : y \in T}
<1>1. D \subseteq Nat /\ D # {}
  <2>1. ASSUME NEW d \in D PROVE d \in Nat
    <3>1. PICK y \in T : d = k - y
      OBVIOUS
    <3>2. y \in 1..k
      OBVIOUS
    <3> QED
      BY <3>1, <3>2
  <2> QED
    BY <2>1
<1>2. PICK d \in D : \A y \in D : d <= y
  BY <1>1, NatMin
<1>3. PICK x \in T : d = k - x
  OBVIOUS
<1>4. \A y \in T : k - y \in D
  OBVIOUS
<1> HIDE DEF D
<1>5. ASSUME NEW y \in T PROVE y <= x
  <2>1. x \in 1..k /\ y \in 1..k /\ k - x <= k - y
    BY <1>2, <1>3, <1>4
  <2> QED
    BY <2>1
<1> QED
  BY <1>5

(***************************************************************************)
(* Direct edges: what is in a node's past was told to the node's thread by *)
(* an edge from its own thread.                                            *)
(***************************************************************************)
(* The last node of a's thread in b's past sends an edge. *)
LEMMA LastSender ==
  ASSUME InputOK, NEW a \in Nodes(hbg), NEW b \in Nodes(hbg), a[1] # b[1], a \in hbg.past[b]
  PROVE  \E p \in Nodes(hbg) : /\ p[1] = a[1] /\ a[2] <= p[2] /\ p \in hbg.past[b]
                               /\ IsType(hbg, p, "EPOCH")
<1> DEFINE S == {i \in DOMAIN hbg.nodes[a[1]] : <<a[1], i>> \in hbg.past[b]}
<1>1. IsGraph(hbg) /\ IsHappensBeforeClosure(hbg)
  BY DEF InputOK, IsInput
<1>2. /\ a = <<a[1], a[2]>> /\ b = <<b[1], b[2]>> /\ a[1] \in Threads
      /\ a[2] \in DOMAIN hbg.nodes[a[1]] /\ hbg.nodes[a[1]] \in Seq(NodeRecords)
  BY <1>1, NodeShape
<1>3. /\ Len(hbg.nodes[a[1]]) \in Nat /\ a[2] \in S
      /\ S \subseteq 1..Len(hbg.nodes[a[1]])
  BY <1>2
<1>4. PICK i \in S : \A j \in S : j <= i
  <2> HIDE DEF S
  <2> QED
    BY <1>3, NatMax
<1> DEFINE p == <<a[1], i>>
<1>5. p \in Nodes(hbg) /\ p[1] = a[1] /\ p[2] = i /\ p \in hbg.past[b] /\ i \in Nat
  BY <1>2, NodeIntro
<1>6. PICK c \in Nodes(hbg) : (c = b \/ c \in hbg.past[b]) /\ p \in Parents(hbg, c)
  BY <1>1, <1>5 DEF IsHappensBeforeClosure
<1>7. p \notin IntraParents(hbg, c)
  <2> SUFFICES ASSUME p \in IntraParents(hbg, c) PROVE FALSE
    OBVIOUS
  <2>1. c = <<c[1], c[2]>> /\ c[2] \in DOMAIN hbg.nodes[c[1]] /\ c[2] \in Nat
    BY <1>1, NodeShape
  <2>2. c[1] = a[1] /\ c[2] = i + 1
    BY DEF IntraParents
  <2>3. c \in hbg.past[b]
    BY <1>2, <1>6, <2>2
  <2>4. i + 1 \in S
    BY <2>1, <2>2, <2>3
  <2> QED
    BY <1>4, <1>5, <2>4
<1>8. IsType(hbg, p, "EPOCH")
  <2>1. p \in InterParents(hbg, c)
    BY <1>6, <1>7 DEF Parents
  <2>2. PICK e \in hbg.edges : p = e[1]
    BY <2>1 DEF InterParents
  <2> QED
    BY <1>1, <2>2 DEF IsGraph
<1>9. a[2] <= i
  BY <1>3, <1>4
<1> QED
  BY <1>5, <1>8, <1>9

(* The first node of b's thread that has a in its past receives an edge. *)
LEMMA FirstReceiver ==
  ASSUME InputOK, NEW a \in Nodes(hbg), NEW b \in Nodes(hbg), a[1] # b[1], a \in hbg.past[b]
  PROVE  \E q \in Nodes(hbg) : /\ q[1] = b[1] /\ q[2] <= b[2] /\ a \in hbg.past[q]
                               /\ IsType(hbg, q, "EPOCH")
<1> DEFINE S == {j \in DOMAIN hbg.nodes[b[1]] : a \in hbg.past[<<b[1], j>>]}
<1>1. IsGraph(hbg) /\ IsHappensBeforeClosure(hbg)
  BY DEF InputOK, IsInput
<1>2. /\ b = <<b[1], b[2]>> /\ b[1] \in Threads
      /\ b[2] \in DOMAIN hbg.nodes[b[1]] /\ hbg.nodes[b[1]] \in Seq(NodeRecords)
  BY <1>1, NodeShape
<1>3. b[2] \in S /\ S \subseteq Nat
  BY <1>2
<1>4. PICK j \in S : \A i \in S : j <= i
  <2> HIDE DEF S
  <2> QED
    BY <1>3, NatMin
<1> DEFINE q == <<b[1], j>>
<1>5. q \in Nodes(hbg) /\ q[1] = b[1] /\ q[2] = j /\ a \in hbg.past[q] /\ j \in Nat
  BY <1>2, NodeIntro
<1>6. PICK z \in Parents(hbg, q) : a = z \/ a \in hbg.past[z]
  BY <1>1, <1>5 DEF IsHappensBeforeClosure
<1>7. z \notin IntraParents(hbg, q)
  <2> SUFFICES ASSUME z \in IntraParents(hbg, q) PROVE FALSE
    OBVIOUS
  <2>1. PICK i \in DOMAIN hbg.nodes[b[1]] : i + 1 = j /\ z = <<b[1], i>>
    BY <1>5 DEF IntraParents
  <2>2. i \in Nat /\ a \in hbg.past[<<b[1], i>>]
    BY <1>2, <1>6, <2>1
  <2>3. i \in S
    BY <2>1, <2>2
  <2> QED
    BY <1>4, <2>1, <2>2, <2>3
<1>8. IsType(hbg, q, "EPOCH")
  <2>1. z \in InterParents(hbg, q)
    BY <1>6, <1>7 DEF Parents
  <2>2. PICK e \in hbg.edges : q = e[2]
    BY <2>1 DEF InterParents
  <2> QED
    BY <1>1, <2>2 DEF IsGraph
<1>9. j <= b[2]
  BY <1>3, <1>4
<1> QED
  BY <1>5, <1>8, <1>9

(* Direct edges between the two. *)
LEMMA DirectEdge ==
  ASSUME InputOK, EdgesAreDirect(hbg),
         NEW a \in Nodes(hbg), NEW b \in Nodes(hbg), a[1] # b[1], a \in hbg.past[b]
  PROVE  \E e \in hbg.edges : /\ e[1][1] = a[1] /\ a[2] <= e[1][2]
                              /\ e[2][1] = b[1] /\ e[2][2] <= b[2]
<1>1. IsGraph(hbg)
  BY DEF InputOK, IsInput
<1>2. PICK p \in Nodes(hbg) : /\ p[1] = a[1] /\ a[2] <= p[2] /\ p \in hbg.past[b]
                              /\ IsType(hbg, p, "EPOCH")
  BY LastSender
<1>3. PICK q \in Nodes(hbg) : /\ q[1] = b[1] /\ q[2] <= b[2] /\ p \in hbg.past[q]
                              /\ IsType(hbg, q, "EPOCH")
  BY <1>2, FirstReceiver
<1>4. PICK e \in hbg.edges : /\ e[1][1] = p[1] /\ p[2] <= e[1][2]
                             /\ e[2][1] = q[1] /\ e[2][2] <= q[2]
  BY <1>2, <1>3 DEF EdgesAreDirect
<1>5. e[1] \in Nodes(hbg) /\ e[2] \in Nodes(hbg)
  BY <1>1 DEF IsGraph
<1>6. /\ a[2] \in Nat /\ b[2] \in Nat /\ p[2] \in Nat /\ q[2] \in Nat
      /\ e[1][2] \in Nat /\ e[2][2] \in Nat
  BY <1>1, <1>5, NodeShape
<1> QED
  BY <1>2, <1>3, <1>4, <1>6

(***************************************************************************)
(* The happens-after stage on direct edges: a clock covers a write if it   *)
(* names no later write of the thread as the first.                        *)
(***************************************************************************)
Covers(v, w) == IsHappensAfter(v, w[1], w[2])

(* A thread's clock covers the writes it has visited, ... *)
HAWritesCovered ==
  \A w \in ha_visited : IsType(hbg, w, "WRITE") => Covers(vc_per_thread[w[1]], w)

(* ... an edge passes on the writes behind its end, ... *)
HAEdgesCovered ==
  ~ presets.ignore_inter_thread_edges =>
    \A e \in hbg.edges : e[2] \in ha_visited =>
      \A w \in Nodes(hbg) : IsType(hbg, w, "WRITE") /\ w[1] = e[2][1] /\ e[2][2] < w[2] =>
        IF e[1] \in ha_visited THEN Covers(vc_per_thread[e[1][1]], w)
                               ELSE Covers(vc_per_epoch_node[e[1]], w)

(* ... and a read's clock covers all the writes that happen after it. *)
HAReadsCovered ==
  \A r \in ha_visited : IsType(hbg, r, "READ") =>
    \A w \in Nodes(hbg) : IsType(hbg, w, "WRITE") /\ HB(r, w) => Covers(vc_per_read_node[r], w)

HAExact == HAWritesCovered /\ HAEdgesCovered /\ HAReadsCovered

(* What a merged clock covers. *)
LEMMA ReversedMergeCovers ==
  ASSUME NEW v \in Clocks, NEW w \in Clocks, NEW n \in Nodes(hbg), IsGraph(hbg),
         Covers(v, n) \/ Covers(w, n)
  PROVE  Covers(ReversedMerge(v, w), n)
<1>1. n[1] \in Threads /\ n[2] \in Nat
  BY NodeShape
<1>2. v[n[1]] \in Nat /\ w[n[1]] \in Nat
  BY <1>1 DEF Clocks
<1>3. ReversedMerge(v, w)[n[1]] = IF ReversedLess(v[n[1]], w[n[1]]) THEN w[n[1]] ELSE v[n[1]]
  BY <1>1 DEF ReversedMerge, Clocks
<1> QED
  BY <1>1, <1>2, <1>3 DEF Covers, IsHappensAfter, ReversedLess, None

(* The clocks of the threads and the nodes lose nothing. *)
LEMMA HAGrows ==
  ASSUME InputOK, HAInv, UNCHANGED inputs, NEW n \in Nodes(hbg), HANext(n),
         NEW w \in Nodes(hbg)
  PROVE  /\ \A t \in Threads : Covers(vc_per_thread[t], w) => Covers(vc_per_thread'[t], w)
         /\ \A m \in Nodes(hbg) : m # n /\ Covers(vc_per_epoch_node[m], w) =>
              Covers(vc_per_epoch_node'[m], w)
<1>1. IsGraph(hbg) /\ HATypeOK
  BY DEF InputOK, IsInput, HAInv
<1>2. /\ n[1] \in Threads /\ n = <<n[1], n[2]>> /\ n[2] \in Nat \ {0}
      /\ w[1] \in Threads /\ w[2] \in Nat
  BY <1>1, NodeShape
<1>3. /\ vc_per_thread \in [Threads -> Clocks]
      /\ vc_per_epoch_node \in [Nodes(hbg) -> Clocks]
  BY <1>1 DEF HATypeOK
<1>4. CASE HAWrite(n)
  <2>1. /\ vc_per_epoch_node' = vc_per_epoch_node
        /\ vc_per_thread' = [vc_per_thread EXCEPT ![n[1]][n[1]] = n[2]]
        /\ n \notin ha_visited
    BY <1>4 DEF HAWrite, HAVisit
  <2>2. ASSUME NEW t \in Threads, Covers(vc_per_thread[t], w)
        PROVE  Covers(vc_per_thread'[t], w)
    <3>1. CASE t = n[1] /\ w[1] = n[1]
      <4> DEFINE k == vc_per_thread[t][w[1]]
      <4>1. k # None /\ k <= w[2] /\ k \in Nat
        BY <1>2, <1>3, <2>2 DEF Covers, IsHappensAfter, Clocks
      <4>2. <<n[1], k>> \in Nodes(hbg) /\ HB(n, <<n[1], k>>)
        BY <1>2, <2>1, <3>1, <4>1 DEF HAInv, HAThread
      <4>3. n[2] < k
        BY <4>2, SameThread
      <4>4. vc_per_thread'[t][w[1]] = n[2]
        BY <1>3, <2>1, <3>1 DEF Clocks
      <4> HIDE DEF k
      <4> QED
        BY <1>2, <4>1, <4>3, <4>4 DEF Covers, IsHappensAfter, None
    <3>2. CASE ~ (t = n[1] /\ w[1] = n[1])
      <4>1. vc_per_thread'[t][w[1]] = vc_per_thread[t][w[1]]
        BY <1>2, <1>3, <2>1, <3>2 DEF Clocks
      <4> QED
        BY <2>2, <4>1 DEF Covers, IsHappensAfter
    <3> QED
      BY <3>1, <3>2
  <2> QED
    BY <2>1, <2>2
<1>5. CASE HARead(n) \/ HAFlush(n) \/ (HAEpoch(n) /\ presets.ignore_inter_thread_edges)
  BY <1>5 DEF HARead, HAFlush, HAEpoch
<1>6. CASE HAEpoch(n) /\ ~ presets.ignore_inter_thread_edges
  <2>1. /\ vc_per_thread' = [vc_per_thread EXCEPT
              ![n[1]] = ReversedMerge(vc_per_thread[n[1]], vc_per_epoch_node[n])]
        /\ vc_per_epoch_node' =
              [m \in Nodes(hbg) |->
                  IF m = n THEN EmptyClock
                  ELSE IF m \in InterParents(hbg, n)
                       THEN ReversedMerge(vc_per_epoch_node[m], vc_per_thread[n[1]])
                       ELSE vc_per_epoch_node[m]]
    BY <1>6 DEF HAEpoch
  <2>2. ASSUME NEW t \in Threads, Covers(vc_per_thread[t], w)
        PROVE  Covers(vc_per_thread'[t], w)
    <3>1. CASE t = n[1]
      <4>1. vc_per_thread'[t] = ReversedMerge(vc_per_thread[n[1]], vc_per_epoch_node[n])
        BY <1>2, <1>3, <2>1, <3>1
      <4>2. vc_per_thread[n[1]] \in Clocks /\ vc_per_epoch_node[n] \in Clocks
        BY <1>2, <1>3
      <4> QED
        BY <1>1, <2>2, <3>1, <4>1, <4>2, ReversedMergeCovers
    <3>2. CASE t # n[1]
      BY <1>3, <2>1, <2>2, <3>2
    <3> QED
      BY <3>1, <3>2
  <2>3. ASSUME NEW m \in Nodes(hbg), m # n, Covers(vc_per_epoch_node[m], w)
        PROVE  Covers(vc_per_epoch_node'[m], w)
    <3>1. vc_per_thread[n[1]] \in Clocks /\ vc_per_epoch_node[m] \in Clocks
      BY <1>2, <1>3
    <3>2. Covers(ReversedMerge(vc_per_epoch_node[m], vc_per_thread[n[1]]), w)
      BY <1>1, <2>3, <3>1, ReversedMergeCovers
    <3> QED
      BY <2>1, <2>3, <3>2
  <2> QED
    BY <2>2, <2>3
<1> QED
  BY <1>4, <1>5, <1>6 DEF HANext

(* The invariant of the stage, at its start and at its steps. *)
LEMMA HAExactInitially == ASSUME HAInit PROVE HAExact
BY DEF HAInit, HAExact, HAWritesCovered, HAEdgesCovered, HAReadsCovered

LEMMA HAExactStep ==
  ASSUME InputOK, EdgesAreDirect(hbg), HAInv, HAExact, UNCHANGED inputs,
         NEW n \in Nodes(hbg), HANext(n)
  PROVE  HAExact'
<1> USE DEF inputs
<1>1. IsGraph(hbg) /\ IsHappensBeforeClosure(hbg) /\ HATypeOK
  BY DEF InputOK, IsInput, HAInv
<1>2. PICK itype : HAVisit(n, itype)
  BY DEF HANext, HAWrite, HARead, HAFlush, HAEpoch
<1>3. /\ n \notin ha_visited /\ ha_visited' = ha_visited \cup {n} /\ Children(hbg, n) \subseteq ha_visited
      /\ IsType(hbg, n, itype)
  BY <1>2 DEF HAVisit
<1>4. HAFuture'
  BY <1>2, HAVisited
<1>5. n[1] \in Threads /\ n = <<n[1], n[2]>> /\ n[2] \in Nat
  BY <1>1, NodeShape
<1>6. /\ vc_per_thread \in [Threads -> Clocks]
      /\ vc_per_epoch_node \in [Nodes(hbg) -> Clocks]
      /\ vc_per_read_node \in [Nodes(hbg) -> Clocks]
  BY <1>1 DEF HATypeOK
<1>7. HAWritesCovered'
  <2> SUFFICES ASSUME NEW w \in ha_visited', IsType(hbg, w, "WRITE")
               PROVE  Covers(vc_per_thread'[w[1]], w)
    BY DEF HAWritesCovered, Covers, IsHappensAfter
  <2>1. CASE w = n
    <3>1. HAWrite(n)
      BY <2>1, <1>2 DEF HANext, HARead, HAFlush, HAEpoch, HAVisit, IsType
    <3>2. vc_per_thread'[n[1]][n[1]] = n[2]
      BY <1>5, <1>6, <3>1 DEF HAWrite, Clocks
    <3>3. n[2] # None
      BY <1>1, NodeShape DEF None
    <3> QED
      BY <1>5, <2>1, <3>2, <3>3 DEF Covers, IsHappensAfter
  <2>2. CASE w \in ha_visited
    <3>1. w \in Nodes(hbg) /\ w[1] \in Threads
      BY <1>1, <2>2, NodeShape DEF HATypeOK
    <3>2. Covers(vc_per_thread[w[1]], w)
      BY <2>2 DEF HAExact, HAWritesCovered
    <3> QED
      BY <3>1, <3>2, HAGrows
  <2> QED
    BY <1>3, <2>1, <2>2
<1>8. HAEdgesCovered'
  <2> SUFFICES ASSUME ~ presets.ignore_inter_thread_edges, NEW e \in hbg.edges,
                      e[2] \in ha_visited', NEW w \in Nodes(hbg), IsType(hbg, w, "WRITE"),
                      w[1] = e[2][1], e[2][2] < w[2]
               PROVE  IF e[1] \in ha_visited' THEN Covers(vc_per_thread'[e[1][1]], w)
                                              ELSE Covers(vc_per_epoch_node'[e[1]], w)
    BY DEF HAEdgesCovered, Covers, IsHappensAfter
  <2>1. /\ e[1] \in Nodes(hbg) /\ e[2] \in Nodes(hbg) /\ e[1][1] # e[2][1]
        /\ IsType(hbg, e[1], "EPOCH") /\ IsType(hbg, e[2], "EPOCH")
    BY <1>1 DEF IsGraph
  <2>2. e[1][1] \in Threads /\ e[2][1] \in Threads
    BY <1>1, <2>1, NodeShape
  <2>3. CASE n = e[1]
    <3>1. e[2] \in ha_visited
      <4>1. e[2] # e[1]
        BY <2>1
      <4> QED
        BY <1>3, <2>3, <4>1
    <3>2. Covers(vc_per_epoch_node[n], w)
      BY <1>3, <2>3, <3>1 DEF HAExact, HAEdgesCovered
    <3>3. HAEpoch(n)
      BY <1>2, <2>1, <2>3 DEF HANext, HARead, HAFlush, HAWrite, HAVisit, IsType
    <3>4. vc_per_thread'[n[1]] = ReversedMerge(vc_per_thread[n[1]], vc_per_epoch_node[n])
      BY <1>5, <1>6, <3>3 DEF HAEpoch
    <3>5. Covers(vc_per_thread'[n[1]], w)
      BY <1>1, <1>5, <1>6, <3>2, <3>4, ReversedMergeCovers
    <3> QED
      BY <1>3, <2>3, <3>5
  <2>4. CASE n = e[2]
    <3>1. e[1] \notin ha_visited'
      <4>1. e[1] # n /\ n \in Children(hbg, e[1])
        BY <2>1, <2>4 DEF Children, Parents, InterParents
      <4>2. e[1] \notin ha_visited
        <5>1. e[1] \in hbg.past[n]
          BY <1>1, <2>4 DEF IsHappensBeforeClosure
        <5> QED
          BY <1>3, <5>1 DEF HAInv, HAFuture
      <4> QED
        BY <1>3, <4>1, <4>2
    <3>2. w \in ha_visited
      <4>1. n \in hbg.past[w]
        BY <2>4, ProgramOrder
      <4>2. w \in ha_visited'
        BY <1>3, <1>4, <4>1 DEF HAFuture
      <4>3. w # n
        BY <1>1, <4>1 DEF IsHappensBeforeClosure
      <4> QED
        BY <1>3, <4>2, <4>3
    <3>3. Covers(vc_per_thread[n[1]], w)
      BY <2>4, <3>2 DEF HAExact, HAWritesCovered
    <3>4. HAEpoch(n)
      BY <1>2, <2>1, <2>4 DEF HANext, HARead, HAFlush, HAWrite, HAVisit, IsType
    <3>5. vc_per_epoch_node'[e[1]] = ReversedMerge(vc_per_epoch_node[e[1]], vc_per_thread[n[1]])
      BY <2>1, <2>4, <3>4 DEF HAEpoch, InterParents
    <3>6. Covers(vc_per_epoch_node'[e[1]], w)
      BY <1>1, <1>5, <1>6, <2>1, <3>3, <3>5, ReversedMergeCovers
    <3> QED
      BY <3>1, <3>6
  <2>5. CASE n # e[1] /\ n # e[2]
    <3>1. e[2] \in ha_visited /\ (e[1] \in ha_visited' <=> e[1] \in ha_visited)
      BY <1>3, <2>5
    <3>2. IF e[1] \in ha_visited THEN Covers(vc_per_thread[e[1][1]], w)
                                  ELSE Covers(vc_per_epoch_node[e[1]], w)
      BY <3>1 DEF HAExact, HAEdgesCovered
    <3> QED
      BY <2>1, <2>2, <2>5, <3>1, <3>2, HAGrows
  <2> QED
    BY <2>3, <2>4, <2>5
<1>9. HAReadsCovered'
  <2> SUFFICES ASSUME NEW r \in ha_visited', IsType(hbg, r, "READ"), NEW w \in Nodes(hbg),
                      IsType(hbg, w, "WRITE"), HB(r, w)
               PROVE  Covers(vc_per_read_node'[r], w)
    BY SameOrder DEF HAReadsCovered, Covers, IsHappensAfter
  <2>1. CASE r # n
    <3>1. r \in ha_visited /\ vc_per_read_node'[r] = vc_per_read_node[r]
      BY <1>1, <1>3, <1>6, <2>1 DEF HANext, HARead, HAFlush, HAWrite, HAEpoch, HATypeOK
    <3> QED
      BY <3>1 DEF HAExact, HAReadsCovered
  <2>2. CASE r = n
    <3>1. HARead(n)
      BY <1>2, <2>2 DEF HANext, HAEpoch, HAFlush, HAWrite, HAVisit, IsType
    <3>2. vc_per_read_node'[n] = vc_per_thread[n[1]]
      BY <1>6, <3>1 DEF HARead
    <3>3. w[2] \in Nat /\ w # n
      BY <1>1, <2>2, NodeShape, Irreflexive
    <3>4. CASE w[1] = n[1]
      <4>1. n[2] < w[2]
        BY <2>2, <3>4, SameThread
      <4>2. n \in hbg.past[w]
        BY <3>4, <4>1, ProgramOrder
      <4>3. w \in ha_visited
        BY <1>3, <1>4, <3>3, <4>2 DEF HAFuture
      <4> QED
        BY <2>2, <3>2, <3>4, <4>3 DEF HAExact, HAWritesCovered
    <3>5. CASE w[1] # n[1]
      <4>1. ~ presets.ignore_inter_thread_edges /\ n \in hbg.past[w]
        BY <2>2, <3>5 DEF HB, Abstract!HappensBefore
      <4>2. PICK e \in hbg.edges : /\ e[1][1] = n[1] /\ n[2] <= e[1][2]
                                   /\ e[2][1] = w[1] /\ e[2][2] <= w[2]
        BY <3>5, <4>1, DirectEdge
      <4>3. /\ e[1] \in Nodes(hbg) /\ e[2] \in Nodes(hbg)
            /\ IsType(hbg, e[1], "EPOCH") /\ IsType(hbg, e[2], "EPOCH")
        BY <1>1 DEF IsGraph
      <4>4. /\ e[1] = <<e[1][1], e[1][2]>> /\ e[2] = <<e[2][1], e[2][2]>> /\ w = <<w[1], w[2]>>
            /\ e[1][2] \in Nat /\ e[2][2] \in Nat
        BY <1>1, <4>3, NodeShape
      <4>5. n # e[1] /\ w # e[2]
        BY <2>2, <4>3 DEF IsType
      <4>6. n[2] < e[1][2] /\ e[2][2] < w[2]
        BY <1>5, <3>3, <4>2, <4>4, <4>5
      <4>7. n \in hbg.past[e[1]] /\ e[1] \in hbg.past[e[2]]
        BY <1>1, <4>2, <4>3, <4>6, ProgramOrder DEF IsHappensBeforeClosure
      <4>8. e[1] \in ha_visited
        BY <1>3, <1>4, <4>3, <4>5, <4>7 DEF HAFuture
      <4>9. e[2] \in ha_visited
        BY <4>3, <4>7, <4>8 DEF HAInv, HAFuture
      <4>10. Covers(vc_per_thread[n[1]], w)
        BY <4>1, <4>2, <4>6, <4>8, <4>9 DEF HAExact, HAEdgesCovered
      <4> QED
        BY <2>2, <3>2, <4>10
    <3> QED
      BY <3>4, <3>5
  <2> QED
    BY <2>1, <2>2
<1> QED
  BY <1>7, <1>8, <1>9 DEF HAExact

(***************************************************************************)
(* The second stage on edges that are direct and tell news.  What a clock  *)
(* can miss is the news of a source: an access, which makes itself known   *)
(* as seen, or a flush, which makes what it flushes known as persisted.    *)
(* src holds the pairs <<access, source>>; cl, ecl and D stand for the     *)
(* clocks of the threads, those left at the epoch nodes and the lines each *)
(* thread still has to tell each other one, vis for the visited nodes.     *)
(***************************************************************************)
Accessed(n) == Node(hbg, n).itype \in {"READ", "WRITE"}

SeenSources == {p \in Nodes(hbg) \X Nodes(hbg) : p[1] = p[2] /\ Accessed(p[1])}

PersistedSources ==
  {p \in Nodes(hbg) \X Nodes(hbg) :
     /\ ~ presets.ignore_flush_nodes
     /\ Accessed(p[1]) /\ IsType(hbg, p[2], "FLUSH")
     /\ Node(hbg, p[2]).line = Node(hbg, p[1]).line
     /\ HB(p[1], p[2])}

AreSources(src) ==
  src \subseteq {p \in Nodes(hbg) \X Nodes(hbg) :
                   /\ Node(hbg, p[1]).line \in Lines
                   /\ Node(hbg, p[2]).line = Node(hbg, p[1]).line
                   /\ Node(hbg, p[2]).itype \in InstructionTypes}

(* The clocks f[i] have the access e. *)
Knows(f, i, e) == e[2] <= f[i][Node(hbg, e).line][e[1]]

(* x's thread knows of e or finds it at an epoch node before it leaves x. *)
Hears(vis, cl, ecl, x, e) ==
  \/ Knows(cl, x[1], e)
  \/ \E y \in Nodes(hbg) \ vis : y[1] = x[1] /\ y[2] <= x[2] /\ Knows(ecl, y, e)

(* A thread knows of all sources up to the last node it has visited, ... *)
ThreadsKnow(vis, src, cl) ==
  \A n \in vis, p \in src : p[2] = n \/ HB(p[2], n) => Knows(cl, n[1], p[1])

(* ... the end of an edge hears of those in the thread it starts from ... *)
EdgesTell(vis, src, cl, ecl) ==
  \A e \in hbg.edges : e[1] \in vis /\ e[2] \notin vis =>
    \A p \in src : p[2][1] = e[1][1] /\ p[2][2] < e[1][2] => Hears(vis, cl, ecl, e[2], p[1])

(* ... and so does, of a line that is not dirty for it, a thread that has  *)
(* still to hear from the source's thread.                                 *)
CleanIsHeard(vis, src, cl, ecl, D) ==
  \A p \in src : p[2] \in vis =>
    \A x, q \in Nodes(hbg) \ vis :
      /\ x[1] # p[2][1] /\ q[1] = p[2][1] /\ q \in hbg.past[x]
      /\ Node(hbg, p[1]).line \notin D[p[2][1]][x[1]]
      => Hears(vis, cl, ecl, x, p[1])

Exact(vis, src, cl, ecl, D) ==
  /\ ThreadsKnow(vis, src, cl)
  /\ ~ presets.ignore_inter_thread_edges =>
       EdgesTell(vis, src, cl, ecl) /\ CleanIsHeard(vis, src, cl, ecl, D)

AllClocks == [Threads -> [Lines -> Clocks]]
AllNodeClocks == [Nodes(hbg) -> [Lines -> Clocks]]

(* The clocks of a component only grow. *)
Grows(v, w) == \A c \in Lines, u \in Threads : v[c][u] <= w[c][u]

(* What an edge says was not known to the target's thread before it. *)
LEMMA NewsComeFirst ==
  ASSUME InputOK, EdgesTellNews(hbg), NEW e \in hbg.edges, NEW x \in Nodes(hbg),
         x[1] = e[2][1], e[1] \in hbg.past[x]
  PROVE  e[2][2] <= x[2]
<1>1. IsGraph(hbg) /\ IsHappensBeforeClosure(hbg)
  BY DEF InputOK, IsInput
<1>2. e[1] \in Nodes(hbg) /\ e[2] \in Nodes(hbg)
  BY <1>1 DEF IsGraph
<1>3. /\ e[2] = <<e[2][1], e[2][2]>> /\ e[2][2] \in Nat /\ x = <<x[1], x[2]>> /\ x[2] \in Nat \ {0}
  BY <1>1, <1>2, NodeShape
<1>4. SUFFICES ASSUME x[2] < e[2][2] PROVE FALSE
  BY <1>3
<1> DEFINE i == e[2][2] - 1
           z == <<e[2][1], i>>
<1>5. /\ i \in Nat \ {0} /\ i <= e[2][2] /\ i + 1 = e[2][2] /\ x[2] <= i
  BY <1>3, <1>4
<1>6. z \in Nodes(hbg) /\ z[1] = e[2][1] /\ z[2] = i
  BY <1>1, <1>2, <1>5, EarlierNode
<1>7. z \in IntraParents(hbg, e[2])
  <2>1. i \in DOMAIN hbg.nodes[e[2][1]]
    BY <1>1, <1>6, NodeShape
  <2> QED
    BY <1>5, <2>1 DEF IntraParents
<1>8. e[1] \notin hbg.past[z]
  BY <1>7 DEF EdgesTellNews
<1> HIDE DEF i, z
<1>9. CASE x[2] = i
  <2>1. x = z
    BY <1>3, <1>6, <1>9, <1>1, NodeShape
  <2> QED
    BY <1>8, <2>1
<1>10. CASE x[2] < i
  <2>1. x \in hbg.past[z]
    BY <1>6, <1>10, ProgramOrder
  <2>2. hbg.past[x] \subseteq hbg.past[z]
    BY <1>1, <1>6, <2>1 DEF IsHappensBeforeClosure
  <2> QED
    BY <1>8, <2>2
<1> QED
  BY <1>3, <1>5, <1>9, <1>10

(* So a node has at most one child in each thread. *)
LEMMA OneChild ==
  ASSUME InputOK, EdgesTellNews(hbg), NEW n \in Nodes(hbg),
         NEW m \in InterChildren(hbg, n), NEW k \in InterChildren(hbg, n), m[1] = k[1]
  PROVE  m = k
<1>1. IsGraph(hbg) /\ IsHappensBeforeClosure(hbg)
  BY DEF InputOK, IsInput
<1>2. PICK e \in hbg.edges : e[1] = n /\ e[2] = m
  BY DEF InterChildren
<1>3. PICK f \in hbg.edges : f[1] = n /\ f[2] = k
  BY DEF InterChildren
<1>4. m \in Nodes(hbg) /\ k \in Nodes(hbg) /\ n \in hbg.past[m] /\ n \in hbg.past[k]
  BY <1>1, <1>2, <1>3 DEF IsGraph, IsHappensBeforeClosure
<1>5. m[2] <= k[2] /\ k[2] <= m[2]
  BY <1>2, <1>3, <1>4, NewsComeFirst
<1>6. /\ m = <<m[1], m[2]>> /\ k = <<k[1], k[2]>> /\ m[2] \in Nat /\ k[2] \in Nat
  BY <1>1, <1>4, NodeShape
<1>7. m[2] = k[2]
  BY <1>5, <1>6
<1> QED
  BY <1>6, <1>7

(* Whatever the presets hide, what happens before a node reaches it. *)
LEMMA Past ==
  ASSUME InputOK, NEW a \in Nodes(hbg), NEW b \in Nodes(hbg), HB(a, b)
  PROVE  a \in hbg.past[b]
<1>1. IsGraph(hbg)
  BY DEF InputOK, IsInput
<1>2. CASE presets.ignore_inter_thread_edges
  BY <1>2, ProgramOrder DEF HB, Abstract!HappensBefore
<1>3. CASE ~ presets.ignore_inter_thread_edges
  BY <1>3 DEF HB, Abstract!HappensBefore
<1> QED
  BY <1>2, <1>3

(* The visit of the node n, whatever it does: the clocks grow, its thread  *)
(* takes over what was left at n, a source makes itself known and its line *)
(* dirty, and the children of n are told the dirty lines.                  *)
VisitTells(src, n, cl, cl2, ecl, ecl2, D, D2) ==
  /\ \A t \in Threads : Grows(cl[t], cl2[t])
  /\ \A m \in Nodes(hbg) : m # n => Grows(ecl[m], ecl2[m])
  /\ Grows(ecl[n], cl2[n[1]])
  /\ \A p \in src : p[2] = n =>
       /\ Knows(cl2, n[1], p[1])
       /\ \A v \in Threads : v # n[1] => Node(hbg, p[1]).line \in D2[n[1]][v]
  /\ ~ presets.ignore_inter_thread_edges =>
       \A m \in InterChildren(hbg, n), c \in Lines : c \in D[n[1]][m[1]] =>
         \A u \in Threads : cl[n[1]][c][u] <= ecl2[m][c][u]
  /\ \A t, v \in Threads, c \in Lines : t # v /\ c \in D[t][v] =>
       c \in D2[t][v] \/ (t = n[1] /\ \E m \in InterChildren(hbg, n) : m[1] = v)

(* Such a visit keeps the clocks exact. *)
LEMMA VisitExact ==
  ASSUME InputOK, IsRecorded(hbg),
         NEW vis \in SUBSET Nodes(hbg), NEW vis2,
         NEW n \in Nodes(hbg), n \notin vis, vis2 = vis \cup {n},
         \A k \in vis : \A m \in Nodes(hbg) : m \in hbg.past[k] => m \in vis,
         \A m \in Nodes(hbg) : m \in hbg.past[n] => m \in vis,
         NEW src, AreSources(src),
         NEW cl \in AllClocks, NEW cl2 \in AllClocks,
         NEW ecl \in AllNodeClocks, NEW ecl2 \in AllNodeClocks,
         NEW D, NEW D2,
         Exact(vis, src, cl, ecl, D),
         VisitTells(src, n, cl, cl2, ecl, ecl2, D, D2)
  PROVE  Exact(vis2, src, cl2, ecl2, D2)
<1> USE DEF VisitTells
<1>1. IsGraph(hbg) /\ IsHappensBeforeClosure(hbg) /\ EdgesTellNews(hbg) /\ EdgesAreDirect(hbg)
  BY DEF InputOK, IsInput, IsRecorded
<1>2. n[1] \in Threads /\ n = <<n[1], n[2]>> /\ n[2] \in Nat
  BY <1>1, NodeShape
<1>3. \A m \in Nodes(hbg) : m \in hbg.past[n] => m \in vis
  OBVIOUS
(* Clocks that grow keep what they know. *)
<1>4. ASSUME NEW e \in Nodes(hbg), Node(hbg, e).line \in Lines
      PROVE  /\ \A t \in Threads : Knows(cl, t, e) => Knows(cl2, t, e)
             /\ \A m \in Nodes(hbg) : m # n /\ Knows(ecl, m, e) => Knows(ecl2, m, e)
             /\ Knows(ecl, n, e) => Knows(cl2, n[1], e)
  <2>1. e[1] \in Threads /\ e[2] \in Nat
    BY <1>1, NodeShape
  <2>2. \A t \in Threads : /\ cl[t][Node(hbg, e).line][e[1]] \in Nat
                           /\ cl2[t][Node(hbg, e).line][e[1]] \in Nat
                           /\ cl[t][Node(hbg, e).line][e[1]] <= cl2[t][Node(hbg, e).line][e[1]]
    BY <1>4, <2>1 DEF AllClocks, Clocks, Grows
  <2>3. \A m \in Nodes(hbg) :
          /\ ecl[m][Node(hbg, e).line][e[1]] \in Nat
          /\ ecl2[m][Node(hbg, e).line][e[1]] \in Nat
          /\ m # n => ecl[m][Node(hbg, e).line][e[1]] <= ecl2[m][Node(hbg, e).line][e[1]]
    BY <1>4, <2>1 DEF AllNodeClocks, Clocks, Grows
  <2>4. ecl[n][Node(hbg, e).line][e[1]] <= cl2[n[1]][Node(hbg, e).line][e[1]]
    BY <1>4, <2>1 DEF Grows
  <2> QED
    BY <1>2, <2>1, <2>2, <2>3, <2>4 DEF Knows
<1>5. ASSUME NEW x \in Nodes(hbg) \ vis2, NEW e \in Nodes(hbg), Node(hbg, e).line \in Lines,
             Hears(vis, cl, ecl, x, e)
      PROVE  Hears(vis2, cl2, ecl2, x, e)
  <2>1. x[1] \in Threads
    BY <1>1, NodeShape
  <2>2. CASE Knows(cl, x[1], e)
    BY <1>4, <1>5, <2>1, <2>2 DEF Hears
  <2>3. CASE \E y \in Nodes(hbg) \ vis : y[1] = x[1] /\ y[2] <= x[2] /\ Knows(ecl, y, e)
    <3>1. PICK y \in Nodes(hbg) \ vis : y[1] = x[1] /\ y[2] <= x[2] /\ Knows(ecl, y, e)
      BY <2>3
    <3>2. CASE y = n
      BY <1>4, <1>5, <3>1, <3>2 DEF Hears
    <3>3. CASE y # n
      BY <1>4, <1>5, <3>1, <3>3 DEF Hears
    <3> QED
      BY <3>2, <3>3
  <2> QED
    BY <1>5, <2>2, <2>3 DEF Hears
<1>6. ASSUME NEW p \in src
      PROVE  /\ p[1] \in Nodes(hbg) /\ p[2] \in Nodes(hbg)
             /\ p[2] = <<p[2][1], p[2][2]>> /\ p[2][1] \in Threads /\ p[2][2] \in Nat
             /\ Node(hbg, p[1]).line \in Lines
             /\ ~ IsType(hbg, p[2], "EPOCH")
             /\ p[1][1] \in Threads /\ p[1][2] \in Nat
  <2>1. /\ p[1] \in Nodes(hbg) /\ p[2] \in Nodes(hbg)
        /\ Node(hbg, p[1]).line \in Lines
        /\ ~ IsType(hbg, p[2], "EPOCH")
    BY DEF AreSources, IsType, InstructionTypes
  <2> QED
    BY <1>1, <2>1, NodeShape
<1>7. ThreadsKnow(vis2, src, cl2)
  <2> SUFFICES ASSUME NEW k \in vis2, NEW p \in src, p[2] = k \/ HB(p[2], k)
               PROVE  Knows(cl2, k[1], p[1])
    BY DEF ThreadsKnow
  <2>1. CASE k \in vis
    <3>1. Knows(cl, k[1], p[1])
      BY <2>1 DEF Exact, ThreadsKnow
    <3>2. k[1] \in Threads
      BY <1>1, <2>1, NodeShape
    <3> QED
      BY <1>4, <1>6, <3>1, <3>2
  <2>2. CASE k = n /\ p[2] = n
    BY <2>2
  <2>3. CASE k = n /\ HB(p[2], n)
    <3>1. p[2] \in hbg.past[n] /\ p[2] \in vis
      BY <1>3, <1>6, <2>3, Past
    <3>2. SUFFICES Knows(cl, n[1], p[1]) \/ Knows(cl2, n[1], p[1])
      BY <1>2, <1>4, <1>6, <2>3
    <3>3. CASE p[2][1] = n[1]
      BY <3>1, <3>3 DEF Exact, ThreadsKnow
    <3>4. CASE p[2][1] # n[1]
      <4>1. ~ presets.ignore_inter_thread_edges
        BY <2>3, <3>4 DEF HB, Abstract!HappensBefore
      <4>2. PICK e \in hbg.edges : /\ e[1][1] = p[2][1] /\ p[2][2] <= e[1][2]
                                   /\ e[2][1] = n[1] /\ e[2][2] <= n[2]
        BY <1>1, <1>6, <3>1, <3>4, DirectEdge
      <4>3. /\ e[1] \in Nodes(hbg) /\ e[2] \in Nodes(hbg)
            /\ IsType(hbg, e[1], "EPOCH") /\ IsType(hbg, e[2], "EPOCH")
            /\ e[1] \in hbg.past[e[2]]
        BY <1>1 DEF IsGraph, IsHappensBeforeClosure
      <4>4. /\ e[1] = <<e[1][1], e[1][2]>> /\ e[1][2] \in Nat
            /\ e[2] = <<e[2][1], e[2][2]>> /\ e[2][2] \in Nat
        BY <1>1, <4>3, NodeShape
      <4>5. p[2][2] < e[1][2]
        BY <1>6, <4>2, <4>3, <4>4
      <4>6. p[2] \in hbg.past[e[1]]
        BY <1>6, <4>2, <4>3, <4>5, ProgramOrder
      <4>7. CASE e[2] = n
        <5>1. e[1] \in vis
          BY <1>3, <4>3, <4>7
        <5>2. Hears(vis, cl, ecl, n, p[1])
          BY <4>1, <4>2, <4>5, <4>7, <5>1 DEF Exact, EdgesTell
        <5>3. CASE Knows(cl, n[1], p[1])
          BY <5>3
        <5>4. CASE \E y \in Nodes(hbg) \ vis : y[1] = n[1] /\ y[2] <= n[2] /\ Knows(ecl, y, p[1])
          <6>1. PICK y \in Nodes(hbg) \ vis : y[1] = n[1] /\ y[2] <= n[2] /\ Knows(ecl, y, p[1])
            BY <5>4
          <6>2. y[2] \in Nat /\ y = <<y[1], y[2]>>
            BY <1>1, NodeShape
          <6>3. ~ (y[2] < n[2])
            BY <1>3, <6>1, ProgramOrder
          <6>4. y = n
            BY <1>2, <6>1, <6>2, <6>3
          <6> QED
            BY <1>4, <1>6, <6>1, <6>4
        <5> QED
          BY <5>2, <5>3, <5>4 DEF Hears
      <4>8. CASE e[2] # n
        <5>1. e[2][2] < n[2]
          BY <1>2, <4>2, <4>4, <4>8
        <5>2. e[2] \in vis
          BY <1>3, <4>2, <4>3, <5>1, ProgramOrder
        <5>3. p[2] \in hbg.past[e[2]]
          BY <1>1, <4>3, <4>6 DEF IsHappensBeforeClosure
        <5>4. HB(p[2], e[2])
          BY <4>1, <5>3 DEF HB, Abstract!HappensBefore
        <5> QED
          BY <4>2, <5>2, <5>4 DEF Exact, ThreadsKnow
      <4> QED
        BY <4>7, <4>8
    <3> QED
      BY <3>3, <3>4
  <2> QED
    BY <2>1, <2>2, <2>3
(* What is dirty for a child it finds at its node. *)
<1>8. ASSUME ~ presets.ignore_inter_thread_edges, NEW m \in InterChildren(hbg, n),
             NEW p \in src, p[2] \in vis, p[2][1] = n[1],
             Node(hbg, p[1]).line \in D[n[1]][m[1]]
      PROVE  m \in Nodes(hbg) \ vis2 /\ n \in hbg.past[m] /\ m[1] # n[1] /\ Knows(ecl2, m, p[1])
  <2>1. PICK e \in hbg.edges : e[1] = n /\ e[2] = m
    BY DEF InterChildren
  <2>2. m \in Nodes(hbg) /\ n \in hbg.past[m] /\ m[1] # n[1]
    BY <1>1, <2>1 DEF IsGraph, IsHappensBeforeClosure
  <2>3. m \notin vis2
    <3>1. m # n
      BY <2>2
    <3>2. m \notin vis
      BY <2>2
    <3> QED
      BY <3>1, <3>2
  <2>4. Knows(cl, n[1], p[1])
    BY <1>8 DEF Exact, ThreadsKnow
  <2>5. cl[n[1]][Node(hbg, p[1]).line][p[1][1]] <= ecl2[m][Node(hbg, p[1]).line][p[1][1]]
    BY <1>6, <1>8
  <2>6. /\ cl[n[1]][Node(hbg, p[1]).line][p[1][1]] \in Nat
        /\ ecl2[m][Node(hbg, p[1]).line][p[1][1]] \in Nat
    BY <1>2, <1>6, <2>2 DEF AllClocks, AllNodeClocks, Clocks
  <2> QED
    BY <1>6, <2>2, <2>3, <2>4, <2>5, <2>6 DEF Knows
<1>9. ASSUME ~ presets.ignore_inter_thread_edges
      PROVE  EdgesTell(vis2, src, cl2, ecl2)
  <2> SUFFICES ASSUME NEW e \in hbg.edges, e[1] \in vis2, e[2] \notin vis2, NEW p \in src,
                      p[2][1] = e[1][1], p[2][2] < e[1][2]
               PROVE  Hears(vis2, cl2, ecl2, e[2], p[1])
    BY DEF EdgesTell
  <2>1. /\ e[2] \in Nodes(hbg) \ vis2 /\ e[2] \notin vis
        /\ e[1] \in hbg.past[e[2]] /\ e[2][1] # e[1][1]
    BY <1>1 DEF IsGraph, IsHappensBeforeClosure
  <2>2. CASE e[1] \in vis
    <3>1. Hears(vis, cl, ecl, e[2], p[1])
      BY <1>9, <2>1, <2>2 DEF Exact, EdgesTell
    <3> QED
      BY <1>5, <1>6, <2>1, <3>1
  <2>3. CASE e[1] = n
    <3>1. p[2] \in vis
      BY <1>3, <1>6, <2>3, ProgramOrder
    <3>2. e[2] \in InterChildren(hbg, n)
      BY <2>3 DEF InterChildren
    <3>3. CASE Node(hbg, p[1]).line \in D[n[1]][e[2][1]]
      <4>1. Knows(ecl2, e[2], p[1])
        BY <1>8, <1>9, <2>3, <3>1, <3>2, <3>3
      <4>2. e[2][2] \in Nat
        BY <1>1, <2>1, NodeShape
      <4> QED
        BY <2>1, <4>1, <4>2 DEF Hears
    <3>4. CASE Node(hbg, p[1]).line \notin D[n[1]][e[2][1]]
      <4>1. Hears(vis, cl, ecl, e[2], p[1])
        BY <1>9, <2>1, <2>3, <3>1, <3>4 DEF Exact, CleanIsHeard
      <4> QED
        BY <1>5, <1>6, <2>1, <4>1
    <3> QED
      BY <3>3, <3>4
  <2> QED
    BY <2>2, <2>3
<1>10. ASSUME ~ presets.ignore_inter_thread_edges
       PROVE  CleanIsHeard(vis2, src, cl2, ecl2, D2)
  <2> SUFFICES ASSUME NEW p \in src, p[2] \in vis2,
                      NEW x \in Nodes(hbg) \ vis2, NEW q \in Nodes(hbg) \ vis2,
                      x[1] # p[2][1], q[1] = p[2][1], q \in hbg.past[x],
                      Node(hbg, p[1]).line \notin D2[p[2][1]][x[1]]
               PROVE  Hears(vis2, cl2, ecl2, x, p[1])
    BY DEF CleanIsHeard
  <2>1. x[1] \in Threads /\ x[2] \in Nat /\ x \notin vis /\ q \notin vis
    BY <1>1, NodeShape
  <2>2. p[2] \in vis
    BY <1>6, <2>1
  <2>3. CASE Node(hbg, p[1]).line \notin D[p[2][1]][x[1]]
    <3>1. Hears(vis, cl, ecl, x, p[1])
      BY <1>10, <2>1, <2>2, <2>3 DEF Exact, CleanIsHeard
    <3> QED
      BY <1>5, <1>6, <3>1
  <2>4. CASE Node(hbg, p[1]).line \in D[p[2][1]][x[1]]
    <3>1. p[2][1] = n[1] /\ \E m \in InterChildren(hbg, n) : m[1] = x[1]
      BY <1>6, <2>1, <2>4
    <3>2. PICK m \in InterChildren(hbg, n) : m[1] = x[1]
      BY <3>1
    <3>3. m \in Nodes(hbg) \ vis2 /\ n \in hbg.past[m] /\ Knows(ecl2, m, p[1])
      BY <1>8, <1>10, <2>2, <2>4, <3>1, <3>2
    <3>4. n \in hbg.past[q]
      <4>1. q = <<q[1], q[2]>> /\ q[2] \in Nat /\ q # n
        BY <1>1, NodeShape
      <4>2. ~ (q[2] < n[2])
        BY <1>3, <2>1, <3>1, ProgramOrder
      <4>3. n[2] < q[2]
        BY <1>2, <3>1, <4>1, <4>2
      <4> QED
        BY <3>1, <4>3, ProgramOrder
    <3>5. n \in hbg.past[x]
      BY <1>1, <3>4 DEF IsHappensBeforeClosure
    <3>6. PICK e \in hbg.edges : e[1] = n /\ e[2] = m
      BY DEF InterChildren
    <3>7. m[2] <= x[2]
      BY <1>1, <3>2, <3>5, <3>6, NewsComeFirst
    <3> QED
      BY <3>2, <3>3, <3>7 DEF Hears
  <2> QED
    BY <2>3, <2>4
<1> QED
  BY <1>7, <1>9, <1>10 DEF Exact

(* Both kinds of sources are pairs of an access and what makes it known. *)
LEMMA SourcesAreSources ==
  ASSUME InputOK
  PROVE  AreSources(SeenSources) /\ AreSources(PersistedSources)
<1>1. IsGraph(hbg)
  BY DEF InputOK, IsInput
<1>2. \A n \in Nodes(hbg) : Node(hbg, n).itype \in InstructionTypes => Node(hbg, n).line \in Lines
  BY <1>1 DEF IsGraph
<1>3. {"READ", "WRITE"} \subseteq InstructionTypes /\ "FLUSH" \in InstructionTypes
  BY DEF InstructionTypes
<1>4. AreSources(SeenSources)
  BY <1>2, <1>3 DEF AreSources, SeenSources, Accessed
<1>5. AreSources(PersistedSources)
  BY <1>2, <1>3 DEF AreSources, PersistedSources, Accessed, IsType
<1> QED
  BY <1>4, <1>5

(***************************************************************************)
(* At a write W(Y) about to be visited the clocks tell what the            *)
(* specification's words mean.                                             *)
(***************************************************************************)
LEMMA KnownBefore ==
  ASSUME InputOK, FindInv, NEW d \in Nodes(hbg), PBVisit(d, "WRITE"),
         NEW src, AreSources(src), NEW cl, ThreadsKnow(pb_visited, src, cl),
         NEW p \in src, HB(p[2], d)
  PROVE  Knows(cl, d[1], p[1])
<1>1. IsGraph(hbg) /\ IsHappensBeforeClosure(hbg)
  BY DEF InputOK, IsInput
<1>2. p[2] \in Nodes(hbg) /\ p[2] \in hbg.past[d]
  BY Past DEF AreSources
<1>3. PICK z \in Parents(hbg, d) : p[2] = z \/ p[2] \in hbg.past[z]
  BY <1>1, <1>2 DEF IsHappensBeforeClosure
<1>4. z \in IntraParents(hbg, d)
  <2>1. z \notin InterParents(hbg, d)
    <3> SUFFICES ASSUME z \in InterParents(hbg, d) PROVE FALSE
      OBVIOUS
    <3>1. PICK e \in hbg.edges : d = e[2]
      BY DEF InterParents
    <3>2. IsType(hbg, d, "EPOCH") /\ IsType(hbg, d, "WRITE")
      BY <1>1, <3>1 DEF IsGraph, PBVisit
    <3> QED
      BY <3>2 DEF IsType
  <2> QED
    BY <1>3, <2>1 DEF Parents
<1>5. z \in pb_visited /\ z[1] = d[1]
  BY <1>3, <1>4 DEF PBVisit, IntraParents
<1>6. CASE presets.ignore_inter_thread_edges
  <2>1. p[2][1] = d[1]
    BY <1>6 DEF HB, Abstract!HappensBefore
  <2>2. p[2] \in pb_visited
    BY <1>2, <1>3, <1>5 DEF FindInv, PBPast
  <2> QED
    BY <2>1, <2>2 DEF ThreadsKnow
<1>7. CASE ~ presets.ignore_inter_thread_edges
  <2>1. p[2] = z \/ HB(p[2], z)
    BY <1>3, <1>7 DEF HB, Abstract!HappensBefore
  <2> QED
    BY <1>5, <2>1 DEF ThreadsKnow
<1> QED
  BY <1>6, <1>7

(* Both halves of a thread's clocks are exact. *)
KnowsAll ==
  /\ ThreadsKnow(pb_visited, SeenSources, last_seen)
  /\ ThreadsKnow(pb_visited, PersistedSources, last_persisted)

(* What the clocks call persisted, ordered and later is. *)
LEMMA PersistedExactly ==
  ASSUME InputOK, FindInv, KnowsAll, NEW d \in Nodes(hbg), PBVisit(d, "WRITE"),
         NEW e \in Nodes(hbg), Accessed(e), NEW c \in Lines, Node(hbg, e).line = c
  PROVE  IsEventPersisted(d, c, e) <=> PB(e, d)
<1>1. d \notin pb_visited
  BY DEF PBVisit
<1>2. ASSUME PB(e, d) PROVE IsEventPersisted(d, c, e)
  <2>1. PICK f \in Nodes(hbg) : /\ IsType(hbg, f, "FLUSH")
                               /\ Node(hbg, f).line = Node(hbg, e).line
                               /\ HB(e, f) /\ HB(f, d)
    BY <1>2, Durable
  <2> DEFINE p == <<e, f>>
  <2>2. p \in PersistedSources /\ p[1] = e /\ p[2] = f
    BY <1>2, <2>1, Durable DEF PersistedSources
  <2> HIDE DEF p
  <2>3. Knows(last_persisted, d[1], p[1])
    BY <2>1, <2>2, KnownBefore, SourcesAreSources DEF KnowsAll
  <2> QED
    BY <2>2, <2>3 DEF Knows, IsEventPersisted, IsHappensBefore
<1> QED
  BY <1>1, <1>2, EventPersisted

LEMMA OrderedExactly ==
  ASSUME InputOK, FindInv, KnowsAll, NEW d \in Nodes(hbg), PBVisit(d, "WRITE"),
         NEW e \in Nodes(hbg), Accessed(e), NEW c \in Lines, Node(hbg, e).line = c
  PROVE  IsHappensBefore(last_seen[d[1]][c], e[1], e[2]) <=> HB(e, d)
<1> DEFINE k == last_seen[d[1]][c][e[1]]
<1>1. /\ d \notin pb_visited /\ d[1] \in Threads /\ e[1] \in Threads
      /\ e = <<e[1], e[2]>> /\ e[2] \in Nat \ {0} /\ k \in Nat
  BY NodeShape DEF PBVisit, InputOK, IsInput, FindInv, FindTypeOK, Clocks
<1>2. ASSUME HB(e, d) PROVE e[2] <= k
  <2> DEFINE p == <<e, e>>
  <2>1. p \in SeenSources /\ p[1] = e /\ p[2] = e
    BY DEF SeenSources
  <2> HIDE DEF p
  <2>2. Knows(last_seen, d[1], p[1])
    BY <1>2, <2>1, KnownBefore, SourcesAreSources DEF KnowsAll
  <2> QED
    BY <2>1, <2>2 DEF Knows
<1>3. ASSUME e[2] <= k PROVE HB(e, d)
  <2>1. k # None
    BY <1>1, <1>3 DEF None
  <2>2. IsAccess(c, <<e[1], k>>) /\ HB(<<e[1], k>>, d)
    BY <1>1, <2>1 DEF FindInv, ThreadClocks, Accesses, SeenAtNode
  <2>3. CASE e[2] = k
    BY <1>1, <2>2, <2>3
  <2>4. CASE e[2] < k
    <3>1. HB(e, <<e[1], k>>)
      BY <1>1, <2>2, <2>4, ProgramOrder DEF IsAccess
    <3> QED
      BY <2>2, <3>1, Transitive DEF IsAccess
  <2> HIDE DEF k
  <2> QED
    BY <1>1, <1>3, <2>3, <2>4
<1> QED
  BY <1>2, <1>3 DEF IsHappensBefore

LEMMA LaterExactly ==
  ASSUME InputOK, HAInv, HAExact, HADone, NEW r \in Nodes(hbg), IsType(hbg, r, "READ"),
         NEW w \in Nodes(hbg), IsType(hbg, w, "WRITE")
  PROVE  IsHappensAfterRead(r, w) <=> Abstract!WriteIsLater(w, r)
<1>1. HB(r, w) => Covers(vc_per_read_node[r], w)
  BY DEF HAExact, HAReadsCovered, HADone
<1> QED
  BY <1>1, LaterByClock DEF Covers, IsHappensAfterRead, Abstract!WriteIsLater, HB

(* The search at W(Y) finds the races of W(Y) and nothing else. *)
LEMMA CandidatesExactly ==
  ASSUME InputOK, FindInv, KnowsAll, NEW d \in Nodes(hbg), PBVisit(d, "WRITE"),
         NEW r \in Nodes(hbg), IsType(hbg, r, "READ"), NEW u \in Threads, NEW w
  PROVE  w \in Candidates(d, r, u) <=>
           /\ w \in Nodes(hbg) /\ w[1] = u
           /\ IsType(hbg, w, "WRITE") /\ Overlap(hbg, w, r) /\ ~ Node(hbg, w).nt
           /\ ~ Abstract!WriteIsPersisted(w, d)
<1> DEFINE c == Node(hbg, r).line
           start == IF presets.ignore_persisted_before_index
                    THEN None ELSE last_persisted[d[1]][c][u]
<1>1. IsGraph(hbg)
  BY DEF InputOK, IsInput
<1>2. c \in Lines /\ d[1] \in Threads
  BY <1>1, NodeShape DEF IsGraph, IsType, InstructionTypes
<1>3. ASSUME w \in Candidates(d, r, u)
      PROVE  /\ w \in Nodes(hbg) /\ w[1] = u
             /\ IsType(hbg, w, "WRITE") /\ Overlap(hbg, w, r) /\ ~ Node(hbg, w).nt
             /\ ~ Abstract!WriteIsPersisted(w, d)
  <2>1. w \in Nodes(hbg) /\ w[1] = u
    BY <1>3, CandidatesAreNodes
  <2>2. /\ IsType(hbg, w, "WRITE") /\ Overlap(hbg, w, r) /\ ~ Node(hbg, w).nt
        /\ Node(hbg, w).line = c
        /\ ~ presets.ignore_persisted_before_index => ~ IsEventPersisted(d, c, w)
    BY <1>3 DEF Candidates, Chain
  <2>3. Accessed(w)
    BY <2>2 DEF Accessed, IsType
  <2> QED
    BY <1>2, <2>1, <2>2, <2>3, PersistedExactly DEF Abstract!WriteIsPersisted, PB
<1>4. ASSUME w \in Nodes(hbg), w[1] = u, IsType(hbg, w, "WRITE"), Overlap(hbg, w, r),
             ~ Node(hbg, w).nt, ~ Abstract!WriteIsPersisted(w, d)
      PROVE  w \in Candidates(d, r, u)
  <2>1. /\ w = <<w[1], w[2]>> /\ w[2] \in DOMAIN hbg.nodes[u] /\ w[2] \in Nat
    BY <1>1, <1>4, NodeShape
  <2>2. Node(hbg, w).line = c
    BY <1>1, <1>4 DEF IsGraph, Overlap
  <2>3. Accessed(w)
    BY <1>4 DEF Accessed, IsType
  <2>4. ~ presets.ignore_persisted_before_index => ~ IsEventPersisted(d, c, w)
    BY <1>2, <1>4, <2>2, <2>3, PersistedExactly DEF Abstract!WriteIsPersisted, PB
  <2>5. last_persisted[d[1]][c][u] \in Nat
    BY <1>2 DEF FindInv, FindTypeOK, Clocks
  <2>6. start # None => start <= w[2]
    BY <1>4, <2>1, <2>4, <2>5 DEF IsEventPersisted, IsHappensBefore
  <2>7. w \in Chain(c, u, start)
    BY <1>4, <2>1, <2>2, <2>6 DEF Chain
  <2> QED
    BY <1>4, <2>4, <2>7 DEF Candidates
<1> QED
  BY <1>3, <1>4

(* The read is skipped, and a candidate reported, where the specification says so. *)
LEMMA SkippedExactly ==
  ASSUME InputOK, FindInv, KnowsAll, NEW d \in Nodes(hbg), PBVisit(d, "WRITE"),
         NEW r \in Nodes(hbg), IsType(hbg, r, "READ")
  PROVE  ReadIsSkipped(d, r) <=> Abstract!ReadIsPersisted(r, d)
<1>1. Node(hbg, r).line \in Lines /\ Accessed(r)
  BY DEF InputOK, IsInput, IsGraph, IsType, InstructionTypes, Accessed
<1> QED
  BY <1>1, PersistedExactly DEF ReadIsSkipped, Abstract!ReadIsPersisted, PB

LEMMA ReportedExactly ==
  ASSUME InputOK, HAInv, HAExact, HADone, FindInv, KnowsAll,
         NEW d \in Nodes(hbg), PBVisit(d, "WRITE"), NEW r, <<d, r>> \in pdg, ~ ReadIsSkipped(d, r),
         NEW w \in Nodes(hbg)
  PROVE  w \in Reported(d, r, w[1]) <=> Abstract!IsReported(r, w, d)
<1>1. IsGraph(hbg)
  BY DEF InputOK, IsInput
<1>2. r \in Nodes(hbg) /\ IsType(hbg, r, "READ")
  BY DEF InputOK, IsInput, IsPdg
<1>3. w[1] \in Threads /\ w = <<w[1], w[2]>> /\ w[2] \in Nat \ {0}
  BY <1>1, NodeShape
<1>4. ASSUME NEW v \in Nodes(hbg), v[1] = w[1]
      PROVE  Abstract!IsRace(r, v, d) <=> v \in Candidates(d, r, w[1]) /\ ~ IsHappensAfterRead(r, v)
  <2>1. ~ Abstract!ReadIsPersisted(r, d)
    BY <1>2, SkippedExactly
  <2>2. v \in Candidates(d, r, w[1]) <=>
           /\ IsType(hbg, v, "WRITE") /\ Overlap(hbg, v, r) /\ ~ Node(hbg, v).nt
           /\ ~ Abstract!WriteIsPersisted(v, d)
    BY <1>2, <1>3, <1>4, CandidatesExactly
  <2>3. IsType(hbg, v, "WRITE") => (IsHappensAfterRead(r, v) <=> Abstract!WriteIsLater(v, r))
    BY <1>2, <1>4, LaterExactly
  <2> QED
    BY <2>1, <2>2, <2>3, SameWords DEF Abstract!IsRace, Abstract!IsWrite
(* What happens after the read is later than all that does not. *)
<1>5. ASSUME NEW v \in Nodes(hbg), v[1] = w[1], v[2] < w[2], IsHappensAfterRead(r, v)
      PROVE  IsHappensAfterRead(r, w)
  <2>1. v[2] \in Nat /\ vc_per_read_node[r][w[1]] \in Nat
    BY <1>1, <1>2, <1>3, NodeShape DEF HAInv, HATypeOK, Clocks
  <2> QED
    BY <1>3, <1>5, <2>1 DEF IsHappensAfterRead, IsHappensAfter
<1>6. ASSUME w \in Reported(d, r, w[1]) PROVE Abstract!IsReported(r, w, d)
  <2>1. /\ w \in Candidates(d, r, w[1]) /\ ~ IsHappensAfterRead(r, w)
        /\ \A v \in Candidates(d, r, w[1]) : v[2] < w[2] => ~ BreaksAt(r, v)
    BY <1>6 DEF Reported
  <2>2. Abstract!IsRace(r, w, d)
    BY <1>4, <2>1
  <2>3. ASSUME presets.show_only_first_bug_in_thread, NEW i \in 1..(w[2] - 1),
               Abstract!IsRace(r, <<w[1], i>>, d)
        PROVE  FALSE
    <3> DEFINE v == <<w[1], i>>
    <3>1. i \in Nat \ {0} /\ i <= w[2] /\ i < w[2]
      BY <1>3
    <3>2. v \in Nodes(hbg) /\ v[1] = w[1] /\ v[2] = i
      BY <1>1, <3>1, EarlierNode
    <3> HIDE DEF v
    <3>3. Abstract!IsRace(r, v, d)
      BY <2>3 DEF v
    <3>4. v \in Candidates(d, r, w[1])
      BY <1>4, <3>2, <3>3
    <3> QED
      BY <2>1, <2>3, <3>1, <3>2, <3>4 DEF BreaksAt
  <2> QED
    BY <2>2, <2>3 DEF Abstract!IsReported
<1>7. ASSUME Abstract!IsReported(r, w, d) PROVE w \in Reported(d, r, w[1])
  <2>1. w \in Candidates(d, r, w[1]) /\ ~ IsHappensAfterRead(r, w)
    BY <1>4, <1>7 DEF Abstract!IsReported
  <2>2. ASSUME NEW v \in Candidates(d, r, w[1]), v[2] < w[2], BreaksAt(r, v)
        PROVE  FALSE
    <3>1. v \in Nodes(hbg) /\ v[1] = w[1]
      BY <1>3, CandidatesAreNodes
    <3>2. v = <<w[1], v[2]>> /\ v[2] \in 1..(w[2] - 1)
      <4>1. v = <<v[1], v[2]>> /\ v[2] \in Nat \ {0}
        BY <1>1, <3>1, NodeShape
      <4> QED
        BY <1>3, <2>2, <3>1, <4>1
    <3>3. ~ IsHappensAfterRead(r, v)
      BY <1>5, <2>1, <2>2, <3>1
    <3>4. presets.show_only_first_bug_in_thread
      BY <2>2, <3>3 DEF BreaksAt
    <3>5. Abstract!IsRace(r, v, d)
      BY <1>4, <3>1, <3>3
    <3>6. ~ Abstract!IsRace(r, <<w[1], v[2]>>, d)
      BY <1>7, <3>2, <3>4 DEF Abstract!IsReported
    <3> QED
      BY <3>2, <3>5, <3>6
  <2> QED
    BY <2>1, <2>2 DEF Reported
<1> QED
  BY <1>6, <1>7

(* _find_bugs finds the races that the write completes. *)
LEMMA BugsAreRaces ==
  ASSUME InputOK, HAInv, HAExact, FindInv, KnowsAll,
         NEW d \in Nodes(hbg), PBVisit(d, "WRITE")
  PROVE  BugsOf(d) = Abstract!RacesOf(d)
<1>1. HADone
  BY DEF PBVisit
<1>2. IsGraph(hbg)
  BY DEF InputOK, IsInput
<1>3. ASSUME NEW r, <<d, r>> \in pdg, NEW w \in Nodes(hbg), IsType(hbg, w, "WRITE"),
             Overlap(hbg, w, r)
      PROVE  RaceReport(d, r, w) = Abstract!Race(r, w, d, Abstract!HappensBefore(w, d))
  <2>1. r \in Nodes(hbg) /\ IsType(hbg, r, "READ") /\ Accessed(w)
    BY <1>3 DEF InputOK, IsInput, IsPdg, Accessed, IsType
  <2>2. Node(hbg, r).line \in Lines /\ Node(hbg, w).line = Node(hbg, r).line
    BY <1>2, <1>3, <2>1 DEF IsGraph, Overlap, IsType, InstructionTypes
  <2>3. IsHappensBefore(last_seen[d[1]][Node(hbg, r).line], w[1], w[2]) <=> HB(w, d)
    BY <1>3, <2>1, <2>2, OrderedExactly
  <2>4. IsHappensBefore(last_seen[d[1]][Node(hbg, r).line], w[1], w[2]) \in BOOLEAN
    BY DEF IsHappensBefore
  <2>5. HB(w, d) \in BOOLEAN
    <3>1. CASE presets.ignore_inter_thread_edges
      BY <3>1 DEF HB, Abstract!HappensBefore
    <3>2. CASE ~ presets.ignore_inter_thread_edges
      BY <3>2 DEF HB, Abstract!HappensBefore
    <3> QED
      BY <3>1, <3>2
  <2> QED
    BY <2>3, <2>4, <2>5, Zenon DEF RaceReport, Abstract!Race, HB
<1>4. ASSUME NEW x \in BugsOf(d) PROVE x \in Abstract!RacesOf(d)
  <2>1. PICK p \in pdg : /\ p[1] = d /\ ~ ReadIsSkipped(d, p[2])
                         /\ x \in {RaceReport(d, p[2], w) :
                                    w \in UNION {Reported(d, p[2], u) : u \in Threads}}
    BY DEF BugsOf
  <2>2. PICK u \in Threads : \E w \in Reported(d, p[2], u) : x = RaceReport(d, p[2], w)
    BY <2>1
  <2>3. PICK w \in Reported(d, p[2], u) : x = RaceReport(d, p[2], w)
    BY <2>2
  <2> DEFINE r == p[2]
  <2>4. <<d, r>> \in pdg /\ r \in Nodes(hbg)
    BY <2>1 DEF InputOK, IsInput, IsPdg
  <2>5. w \in Nodes(hbg) /\ w[1] = u
    BY <2>3, CandidatesAreNodes DEF Reported
  <2>6. /\ IsType(hbg, w, "WRITE") /\ Overlap(hbg, w, r)
    BY <2>3 DEF Reported, Candidates, Chain
  <2>7. Abstract!IsReported(r, w, d)
    BY <1>1, <2>1, <2>3, <2>4, <2>5, ReportedExactly
  <2>8. x = Abstract!Race(r, w, d, Abstract!HappensBefore(w, d))
    BY <1>3, <2>3, <2>4, <2>5, <2>6
  <2> HIDE DEF r
  <2> DEFINE z == <<r, w>>
  <2>9. /\ z \in {q \in Abstract!Nodes(hbg) \X Abstract!Nodes(hbg) :
                    Abstract!IsReported(q[1], q[2], d)}
        /\ z[1] = r /\ z[2] = w
    BY <2>4, <2>5, <2>7, SameWords
  <2> HIDE DEF z
  <2>10. x = Abstract!Race(z[1], z[2], d, Abstract!HappensBefore(z[2], d))
    BY <2>8, <2>9
  <2> QED
    BY <2>9, <2>10 DEF Abstract!RacesOf
<1>5. ASSUME NEW x \in Abstract!RacesOf(d) PROVE x \in BugsOf(d)
  <2>1. PICK z \in {q \in Abstract!Nodes(hbg) \X Abstract!Nodes(hbg) :
                      Abstract!IsReported(q[1], q[2], d)} :
          x = Abstract!Race(z[1], z[2], d, Abstract!HappensBefore(z[2], d))
    BY DEF Abstract!RacesOf
  <2> DEFINE r == z[1]
             w == z[2]
  <2>2. r \in Nodes(hbg) /\ w \in Nodes(hbg) /\ Abstract!IsReported(r, w, d)
    BY <2>1, SameWords
  <2>3. /\ <<d, r>> \in pdg /\ IsType(hbg, w, "WRITE") /\ Overlap(hbg, w, r)
        /\ ~ Abstract!ReadIsPersisted(r, d)
    BY <2>2, SameWords DEF Abstract!IsReported, Abstract!IsRace, Abstract!IsWrite
  <2>4. w[1] \in Threads
    BY <1>2, <2>2, NodeShape
  <2>5. IsType(hbg, r, "READ")
    BY <2>3 DEF InputOK, IsInput, IsPdg
  <2>6. ~ ReadIsSkipped(d, r)
    BY <2>2, <2>3, <2>5, SkippedExactly
  <2>7. w \in Reported(d, r, w[1])
    BY <1>1, <2>2, <2>3, <2>6, ReportedExactly
  <2>8. x = RaceReport(d, r, w)
    BY <1>3, <2>1, <2>2, <2>3
  <2> HIDE DEF r, w
  <2> DEFINE p == <<d, r>>
  <2>9. p \in {q \in pdg : q[1] = d /\ ~ ReadIsSkipped(d, q[2])} /\ p[2] = r
    BY <2>3, <2>6
  <2>10. RaceReport(d, p[2], w) \in
           {RaceReport(d, p[2], v) : v \in UNION {Reported(d, p[2], u) : u \in Threads}}
    BY <2>4, <2>7, <2>9
  <2> QED
    BY <2>8, <2>9, <2>10 DEF BugsOf
<1> QED
  BY <1>4, <1>5

(* Only epoch nodes are left clocks, and only if the edges count. *)
LeftAtEpochs(ecl) ==
  \A n \in Nodes(hbg) : ~ IsType(hbg, n, "EPOCH") \/ presets.ignore_inter_thread_edges =>
    \A c \in Lines, u \in Threads : ecl[n][c][u] = None

(* Both kinds of news, over the clocks of a version of the detector. *)
BothExact(vis, seen, persisted, eseen, epersisted, D) ==
  /\ Exact(vis, SeenSources, seen, eseen, D)
  /\ Exact(vis, PersistedSources, persisted, epersisted, D)
  /\ LeftAtEpochs(eseen) /\ LeftAtEpochs(epersisted)

(* At the start nothing has been visited. *)
LEMMA BothInitially ==
  ASSUME InputOK, FindInit, NEW D
  PROVE  BothExact(pb_visited, last_seen, last_persisted,
                   [n \in Nodes(hbg) |-> NoClocks], [n \in Nodes(hbg) |-> NoClocks], D)
<1>1. pb_visited = {} /\ IsGraph(hbg)
  BY DEF FindInit, InputOK, IsInput
<1>2. LeftAtEpochs([n \in Nodes(hbg) |-> NoClocks])
  BY DEF LeftAtEpochs, NoClocks, EmptyClock
<1> QED
  BY <1>1, <1>2 DEF BothExact, Exact, ThreadsKnow, EdgesTell, CleanIsHeard

(* Clocks that stay as they are grow, in the weak sense meant here. *)
LEMMA SameClocksGrow ==
  ASSUME NEW v \in [Lines -> Clocks]
  PROVE  Grows(v, v)
BY DEF Grows, Clocks

(* Edges start at epoch nodes. *)
LEMMA OnlyEpochsHaveChildren ==
  ASSUME InputOK, NEW n \in Nodes(hbg), ~ IsType(hbg, n, "EPOCH")
  PROVE  InterChildren(hbg, n) = {}
BY DEF InputOK, IsInput, IsGraph, InterChildren

(* What the clocks of the accesses and flushes do. *)
LEMMA TouchGrows ==
  ASSUME InputOK, HAInv, FindInv, UNCHANGED inputs, NEW n \in Nodes(hbg),
         TouchWrite(n) \/ TouchRead(n) \/ TouchFlush(n)
  PROVE  /\ n[1] \in Threads /\ Node(hbg, n).line \in Lines /\ ~ IsType(hbg, n, "EPOCH")
         /\ \A t \in Threads : /\ Grows(last_seen[t], last_seen'[t])
                               /\ Grows(last_persisted[t], last_persisted'[t])
         /\ Accessed(n) => last_seen'[n[1]][Node(hbg, n).line][n[1]] = n[2]
         /\ IsType(hbg, n, "FLUSH") =>
              /\ ~ presets.ignore_flush_nodes
              /\ \A u \in Threads : /\ last_persisted'[n[1]][Node(hbg, n).line][u]
                                         = last_seen'[n[1]][Node(hbg, n).line][u]
<1> DEFINE c == Node(hbg, n).line
<1>1. PICK itype \in InstructionTypes : \E seen, persisted : Touch(n, itype, seen, persisted)
  BY DEF TouchWrite, TouchRead, TouchFlush, InstructionTypes
<1>2. /\ PBVisit(n, itype) /\ n \notin pb_visited /\ IsType(hbg, n, itype)
  BY <1>1 DEF Touch, PBVisit
<1>3. n[1] \in Threads /\ c \in Lines /\ ~ IsType(hbg, n, "EPOCH") /\ n[2] \in Nat
  BY <1>2, NodeShape DEF InputOK, IsInput, IsGraph, IsType, InstructionTypes
<1>4. /\ last_seen \in AllClocks /\ last_persisted \in AllClocks
      /\ \A u \in Threads : /\ SeenAt(n)[u] \in Nat /\ PersistedAt(n)[u] \in Nat
                            /\ PersistedAt(n)[u] <= SeenAt(n)[u]
  BY <1>2, <1>3, UnvisitedNode DEF FindInv, FindTypeOK, AllClocks, Clocks
<1>5. SeenAt(n)[n[1]] < n[2]
  BY <1>2, <1>3, Advance DEF EpochsAdvance, SeenAt
<1>6. /\ SeenAt(n) = last_seen[n[1]][c] /\ PersistedAt(n) = last_persisted[n[1]][c]
      /\ SeenAt(n) \in Clocks
  BY <1>3, <1>4 DEF SeenAt, PersistedAt, AllClocks
<1>7. \A t \in Threads, b \in Lines, u \in Threads :
        last_seen[t][b][u] \in Nat /\ last_persisted[t][b][u] \in Nat
  BY <1>4 DEF AllClocks, Clocks
<1>8. CASE TouchWrite(n) \/ TouchRead(n)
  <2> DEFINE v == [SeenAt(n) EXCEPT ![n[1]] = n[2]]
  <2>1. /\ last_seen' = [last_seen EXCEPT ![n[1]][c] = v]
        /\ last_persisted' = [last_persisted EXCEPT ![n[1]][c] = PersistedAt(n)]
        /\ ~ IsType(hbg, n, "FLUSH")
    BY <1>8 DEF TouchWrite, TouchRead, Touch, PBVisit, IsType
  <2>2. /\ \A u \in Threads : last_seen[n[1]][c][u] <= v[u]
        /\ v[n[1]] = n[2]
    BY <1>3, <1>4, <1>5, <1>6 DEF Clocks
  <2>3. \A u \in Threads : last_persisted[n[1]][c][u] <= PersistedAt(n)[u]
    BY <1>4, <1>6
  <2> HIDE DEF v
  <2>6. \A t \in Threads, b \in Lines :
          /\ last_seen'[t][b] = IF t = n[1] /\ b = c THEN v ELSE last_seen[t][b]
          /\ last_persisted'[t][b] =
               IF t = n[1] /\ b = c THEN PersistedAt(n) ELSE last_persisted[t][b]
    BY <1>3, <1>4, <2>1 DEF AllClocks
  <2>4. \A t \in Threads : Grows(last_seen[t], last_seen'[t]) /\ last_seen'[n[1]][c] = v
    BY <1>3, <1>7, <2>2, <2>6 DEF Grows
  <2>5. \A t \in Threads : Grows(last_persisted[t], last_persisted'[t])
    BY <1>3, <1>7, <2>3, <2>6 DEF Grows
  <2> QED
    BY <1>3, <2>1, <2>2, <2>4, <2>5
<1>9. CASE TouchFlush(n)
  <2>1. /\ last_seen' = [last_seen EXCEPT ![n[1]][c] = SeenAt(n)]
        /\ last_persisted' = [last_persisted EXCEPT ![n[1]][c] = SeenAt(n)]
        /\ ~ presets.ignore_flush_nodes /\ ~ Accessed(n)
    BY <1>9 DEF TouchFlush, Touch, PBVisit, IsType, Accessed
  <2>2. \A u \in Threads : /\ last_seen[n[1]][c][u] <= SeenAt(n)[u]
                           /\ last_persisted[n[1]][c][u] <= SeenAt(n)[u]
    BY <1>4, <1>6
  <2>5. \A t \in Threads, b \in Lines :
          /\ last_seen'[t][b] = IF t = n[1] /\ b = c THEN SeenAt(n) ELSE last_seen[t][b]
          /\ last_persisted'[t][b] =
               IF t = n[1] /\ b = c THEN SeenAt(n) ELSE last_persisted[t][b]
    BY <1>3, <1>4, <2>1 DEF AllClocks
  <2>3. \A t \in Threads : Grows(last_seen[t], last_seen'[t]) /\ last_seen'[n[1]][c] = SeenAt(n)
    BY <1>3, <1>7, <2>2, <2>5 DEF Grows
  <2>4. \A t \in Threads : /\ Grows(last_persisted[t], last_persisted'[t])
                           /\ last_persisted'[n[1]][c] = SeenAt(n)
    BY <1>3, <1>7, <2>2, <2>5 DEF Grows
  <2> QED
    BY <1>3, <2>1, <2>3, <2>4
<1> QED
  BY <1>8, <1>9

(* The nodes other than epoch nodes, and those that presets skip. *)
LEMMA InstructionExact ==
  ASSUME InputOK, IsRecorded(hbg), HAInv, FindInv, UNCHANGED inputs, FindInv',
         NEW n \in Nodes(hbg),
         NEW eseen \in AllNodeClocks, NEW epersisted \in AllNodeClocks, NEW D, NEW D2,
         BothExact(pb_visited, last_seen, last_persisted, eseen, epersisted, D),
         \/ /\ TouchWrite(n) \/ TouchRead(n) \/ TouchFlush(n)
            /\ \A v \in Threads : Node(hbg, n).line \in D2[n[1]][v]
         \/ SkipFlush(n) \/ SkipEpoch(n),
         \A t, v \in Threads, c \in Lines : c \in D[t][v] => c \in D2[t][v]
  PROVE  BothExact(pb_visited', last_seen', last_persisted', eseen, epersisted, D2)
<1> DEFINE touched == TouchWrite(n) \/ TouchRead(n) \/ TouchFlush(n)
<1> USE DEF inputs
<1>1. PICK itype : PBVisit(n, itype)
  BY DEF TouchWrite, TouchRead, TouchFlush, SkipFlush, SkipEpoch, Touch
<1>2. /\ pb_visited \in SUBSET Nodes(hbg) /\ n \notin pb_visited
      /\ pb_visited' = pb_visited \cup {n}
      /\ \A k \in pb_visited : \A m \in Nodes(hbg) : m \in hbg.past[k] => m \in pb_visited
      /\ \A m \in Nodes(hbg) : m \in hbg.past[n] => m \in pb_visited
  <2>1. pb_visited' = pb_visited \cup {n} /\ n \notin pb_visited /\ PBPast'
    BY <1>1, PBVisited
  <2>2. \A m \in Nodes(hbg) : m \in hbg.past[n] => m \in pb_visited'
    BY <2>1 DEF PBPast
  <2>3. n \notin hbg.past[n]
    BY DEF InputOK, IsInput, IsHappensBeforeClosure
  <2> QED
    BY <2>1, <2>2, <2>3 DEF FindInv, FindTypeOK, PBPast
<1>3. /\ last_seen \in AllClocks /\ last_persisted \in AllClocks
      /\ last_seen' \in AllClocks /\ last_persisted' \in AllClocks
      /\ n[1] \in Threads
  BY NodeShape DEF FindInv, FindTypeOK, AllClocks, InputOK, IsInput
<1>4. ~ touched => UNCHANGED <<last_seen, last_persisted>>
  BY DEF SkipFlush, SkipEpoch
<1>5. \A t \in Threads : /\ Grows(last_seen[t], last_seen'[t])
                         /\ Grows(last_persisted[t], last_persisted'[t])
  <2>1. CASE touched
    BY <2>1, TouchGrows
  <2>2. CASE ~ touched
    BY <1>3, <1>4, <2>2, SameClocksGrow DEF AllClocks
  <2> QED
    BY <2>1, <2>2
<1>6. ~ IsType(hbg, n, "EPOCH") \/ presets.ignore_inter_thread_edges
  <2>1. CASE touched
    BY <2>1, TouchGrows
  <2>2. CASE ~ touched
    BY <2>2 DEF SkipFlush, SkipEpoch, PBVisit, IsType
  <2> QED
    BY <2>1, <2>2
<1>7. /\ \A m \in Nodes(hbg) : Grows(eseen[m], eseen[m]) /\ Grows(epersisted[m], epersisted[m])
      /\ Grows(eseen[n], last_seen'[n[1]]) /\ Grows(epersisted[n], last_persisted'[n[1]])
  <2>1. \A m \in Nodes(hbg) : Grows(eseen[m], eseen[m]) /\ Grows(epersisted[m], epersisted[m])
    BY SameClocksGrow DEF AllNodeClocks
  <2>2. \A c \in Lines, u \in Threads : eseen[n][c][u] = None /\ epersisted[n][c][u] = None
    BY <1>6 DEF BothExact, LeftAtEpochs
  <2>3. \A c \in Lines, u \in Threads :
          last_seen'[n[1]][c][u] \in Nat /\ last_persisted'[n[1]][c][u] \in Nat
    BY <1>3 DEF AllClocks, Clocks
  <2> QED
    BY <2>1, <2>2, <2>3 DEF Grows, None
<1>8. /\ ~ presets.ignore_inter_thread_edges => InterChildren(hbg, n) = {}
      /\ \A t, v \in Threads, c \in Lines : t # v /\ c \in D[t][v] =>
           c \in D2[t][v] \/ (t = n[1] /\ \E m \in InterChildren(hbg, n) : m[1] = v)
  BY <1>6, OnlyEpochsHaveChildren
<1>9. Exact(pb_visited', SeenSources, last_seen', eseen, D2)
  <2>1. ASSUME NEW p \in SeenSources, p[2] = n
        PROVE  /\ Knows(last_seen', n[1], p[1])
               /\ \A v \in Threads : v # n[1] => Node(hbg, p[1]).line \in D2[n[1]][v]
    <3>1. p[1] = n /\ Accessed(n)
      BY <2>1 DEF SeenSources
    <3>2. touched
      BY <3>1 DEF SkipFlush, SkipEpoch, PBVisit, IsType, Accessed
    <3>3. last_seen'[n[1]][Node(hbg, n).line][n[1]] = n[2]
      BY <3>1, <3>2, TouchGrows
    <3>4. n[2] \in Nat
      BY NodeShape DEF InputOK, IsInput
    <3>5. \A v \in Threads : Node(hbg, n).line \in D2[n[1]][v]
      BY <3>1 DEF SkipFlush, SkipEpoch, PBVisit, IsType, Accessed
    <3> QED
      BY <3>1, <3>3, <3>4, <3>5 DEF Knows
  <2>2. VisitTells(SeenSources, n, last_seen, last_seen', eseen, eseen, D, D2)
    BY <1>5, <1>7, <1>8, <2>1 DEF VisitTells
  <2>3. AreSources(SeenSources) /\ Exact(pb_visited, SeenSources, last_seen, eseen, D)
    BY SourcesAreSources DEF BothExact
  <2> QED
    BY <1>2, <1>3, <2>2, <2>3, VisitExact
<1>10. Exact(pb_visited', PersistedSources, last_persisted', epersisted, D2)
  <2>1. ASSUME NEW p \in PersistedSources, p[2] = n
        PROVE  /\ Knows(last_persisted', n[1], p[1])
               /\ \A v \in Threads : v # n[1] => Node(hbg, p[1]).line \in D2[n[1]][v]
    <3>1. /\ p[1] \in Nodes(hbg) /\ Accessed(p[1]) /\ HB(p[1], n)
          /\ Node(hbg, p[1]).line = Node(hbg, n).line
          /\ IsType(hbg, n, "FLUSH") /\ ~ presets.ignore_flush_nodes
      BY <2>1 DEF PersistedSources
    <3>2. TouchWrite(n) \/ TouchRead(n) \/ TouchFlush(n)
      BY <3>1 DEF SkipFlush, SkipEpoch, PBVisit, IsType
    <3>3. /\ \A u \in Threads : last_persisted'[n[1]][Node(hbg, n).line][u]
                                  = last_seen'[n[1]][Node(hbg, n).line][u]
      BY <3>1, <3>2, TouchGrows
    <3> DEFINE q == <<p[1], p[1]>>
    <3>4. q \in SeenSources /\ q[1] = p[1] /\ q[2] = p[1]
      BY <3>1 DEF SeenSources
    <3> HIDE DEF q
    <3>5. Knows(last_seen', n[1], p[1])
      BY <1>2, <1>9, <3>1, <3>4 DEF Exact, ThreadsKnow
    <3>6. p[1][1] \in Threads
      BY <3>1, NodeShape DEF InputOK, IsInput
    <3>7. \A v \in Threads : Node(hbg, n).line \in D2[n[1]][v]
      BY <3>1 DEF SkipFlush, SkipEpoch, PBVisit, IsType
    <3> QED
      BY <3>1, <3>3, <3>5, <3>6, <3>7 DEF Knows
  <2>2. VisitTells(PersistedSources, n, last_persisted, last_persisted', epersisted, epersisted,
                   D, D2)
    BY <1>5, <1>7, <1>8, <2>1 DEF VisitTells
  <2>3. /\ AreSources(PersistedSources)
        /\ Exact(pb_visited, PersistedSources, last_persisted, epersisted, D)
    BY SourcesAreSources DEF BothExact
  <2> QED
    BY <1>2, <1>3, <2>2, <2>3, VisitExact
<1> QED
  BY <1>9, <1>10 DEF BothExact

(* What a version of the detector does at an epoch node that counts. *)
EpochTells(n, eseen, epersisted, eseen2, epersisted2, D, D2) ==
  /\ \A t \in Threads : /\ Grows(last_seen[t], last_seen'[t])
                         /\ Grows(last_persisted[t], last_persisted'[t])
  /\ \A m \in Nodes(hbg) : m # n => /\ Grows(eseen[m], eseen2[m])
                                     /\ Grows(epersisted[m], epersisted2[m])
  /\ Grows(eseen[n], last_seen'[n[1]]) /\ Grows(epersisted[n], last_persisted'[n[1]])
  /\ \A m \in InterChildren(hbg, n), c \in Lines : c \in D[n[1]][m[1]] =>
       \A u \in Threads : /\ last_seen[n[1]][c][u] <= eseen2[m][c][u]
                          /\ last_persisted[n[1]][c][u] <= epersisted2[m][c][u]
  /\ \A t, v \in Threads, c \in Lines : t # v /\ c \in D[t][v] =>
       c \in D2[t][v] \/ (t = n[1] /\ \E m \in InterChildren(hbg, n) : m[1] = v)
  /\ LeftAtEpochs(eseen2) /\ LeftAtEpochs(epersisted2)

(* Such a node is no source. *)
LEMMA EpochExact ==
  ASSUME InputOK, IsRecorded(hbg), FindInv, FindInv', UNCHANGED inputs, NEW n \in Nodes(hbg),
         PBVisit(n, "EPOCH"), ~ presets.ignore_inter_thread_edges,
         NEW eseen \in AllNodeClocks, NEW epersisted \in AllNodeClocks,
         NEW eseen2 \in AllNodeClocks, NEW epersisted2 \in AllNodeClocks, NEW D, NEW D2,
         BothExact(pb_visited, last_seen, last_persisted, eseen, epersisted, D),
         EpochTells(n, eseen, epersisted, eseen2, epersisted2, D, D2)
  PROVE  BothExact(pb_visited', last_seen', last_persisted', eseen2, epersisted2, D2)
<1> USE DEF inputs
<1>1. /\ pb_visited \in SUBSET Nodes(hbg) /\ n \notin pb_visited
      /\ pb_visited' = pb_visited \cup {n}
      /\ \A k \in pb_visited : \A m \in Nodes(hbg) : m \in hbg.past[k] => m \in pb_visited
      /\ \A m \in Nodes(hbg) : m \in hbg.past[n] => m \in pb_visited
  <2>1. pb_visited' = pb_visited \cup {n} /\ n \notin pb_visited /\ PBPast'
    BY PBVisited
  <2>2. \A m \in Nodes(hbg) : m \in hbg.past[n] => m \in pb_visited'
    BY <2>1 DEF PBPast
  <2>3. n \notin hbg.past[n]
    BY DEF InputOK, IsInput, IsHappensBeforeClosure
  <2> QED
    BY <2>1, <2>2, <2>3 DEF FindInv, FindTypeOK, PBPast
<1>2. /\ last_seen \in AllClocks /\ last_persisted \in AllClocks
      /\ last_seen' \in AllClocks /\ last_persisted' \in AllClocks
  BY DEF FindInv, FindTypeOK, AllClocks
<1>3. /\ \A p \in SeenSources : p[2] # n
      /\ \A p \in PersistedSources : p[2] # n
  BY DEF SeenSources, PersistedSources, Accessed, PBVisit, IsType
<1>4. Exact(pb_visited', SeenSources, last_seen', eseen2, D2)
  <2>1. VisitTells(SeenSources, n, last_seen, last_seen', eseen, eseen2, D, D2)
    BY <1>3 DEF VisitTells, EpochTells
  <2>2. AreSources(SeenSources) /\ Exact(pb_visited, SeenSources, last_seen, eseen, D)
    BY SourcesAreSources DEF BothExact
  <2> QED
    BY <1>1, <1>2, <2>1, <2>2, VisitExact
<1>5. Exact(pb_visited', PersistedSources, last_persisted', epersisted2, D2)
  <2>1. VisitTells(PersistedSources, n, last_persisted, last_persisted', epersisted, epersisted2,
                   D, D2)
    BY <1>3 DEF VisitTells, EpochTells
  <2>2. /\ AreSources(PersistedSources)
        /\ Exact(pb_visited, PersistedSources, last_persisted, epersisted, D)
    BY SourcesAreSources DEF BothExact
  <2> QED
    BY <1>1, <1>2, <2>1, <2>2, VisitExact
<1> QED
  BY <1>4, <1>5 DEF BothExact, EpochTells

(* The words of the instance mean what they mean here. *)
LEMMA SameInput == InputOK => Abstract!IsInput(hbg, pdg, presets)
<1>1. /\ \A g, n : Abstract!InterParents(g, n) = InterParents(g, n)
      /\ \A g, n : Abstract!IntraParents(g, n) = IntraParents(g, n)
  BY DEF Abstract!InterParents, InterParents, Abstract!IntraParents, IntraParents
<1>2. \A g, n : Abstract!Parents(g, n) = Parents(g, n)
  BY <1>1 DEF Abstract!Parents, Parents
<1>3. Abstract!NodeRecords = NodeRecords /\ Abstract!InstructionTypes = InstructionTypes
  BY DEF Abstract!NodeRecords, NodeRecords, Abstract!InstructionTypes, InstructionTypes,
         Abstract!NoLine, NoLine
<1>4. IsGraph(hbg) => Abstract!IsGraph(hbg)
  BY <1>3, SameWords DEF IsGraph, Abstract!IsGraph
<1>5. IsHappensBeforeClosure(hbg) => Abstract!IsHappensBeforeClosure(hbg)
  <2> USE SameWords DEF IsHappensBeforeClosure, Abstract!IsHappensBeforeClosure
  <2> QED
    BY <1>2
<1>6. IsPdg(hbg, pdg) => Abstract!IsPdg(hbg, pdg)
  BY SameWords DEF IsPdg, Abstract!IsPdg
<1>7. Abstract!Presets = Presets
  BY DEF Abstract!Presets, Presets
<1> QED
  BY <1>4, <1>5, <1>6, <1>7 DEF InputOK, IsInput, Abstract!IsInput

LEMMA AbstractInit == FindInit => Abstract!Init
<1> SUFFICES ASSUME FindInit PROVE Abstract!Init
  OBVIOUS
<1>1. Abstract!IsInput(hbg, pdg, presets)
  BY FindInitially, SameInput
<1>2. {n \in pb_visited : IsType(hbg, n, "WRITE")} = {} /\ races = {}
  BY DEF FindInit
<1> QED
  BY <1>1, <1>2 DEF Abstract!Init

(* The visit of a write examines it. *)
LEMMA AbstractExamine ==
  ASSUME InputOK, HAInv, HAExact, FindInv, KnowsAll, UNCHANGED inputs,
         NEW n \in Nodes(hbg), TouchWrite(n)
  PROVE  Abstract!Next
<1>1. PBVisit(n, "WRITE") /\ races' = races \cup BugsOf(n)
  BY DEF TouchWrite, Touch
<1>2. BugsOf(n) = Abstract!RacesOf(n)
  BY <1>1, BugsAreRaces
<1>3. pb_visited' = pb_visited \cup {n} /\ n \notin pb_visited /\ IsType(hbg, n, "WRITE")
  BY <1>1 DEF PBVisit
<1>4. {m \in pb_visited' : IsType(hbg', m, "WRITE")} =
        {m \in pb_visited : IsType(hbg, m, "WRITE")} \cup {n}
  BY <1>3 DEF inputs
<1>5. n \notin {m \in pb_visited : IsType(hbg, m, "WRITE")}
  BY <1>3
<1>6. Abstract!IsWrite(n) /\ n \in Abstract!Nodes(hbg)
  BY <1>3, SameWords DEF Abstract!IsWrite
<1>7. Abstract!Examine(n)
  BY <1>1, <1>2, <1>4, <1>5, <1>6 DEF Abstract!Examine, Abstract!inputs, inputs
<1> QED
  BY <1>6, <1>7 DEF Abstract!Next

(* Every other step is none of the specification's. *)
LEMMA AbstractStutter ==
  ASSUME UNCHANGED inputs, UNCHANGED races,
         UNCHANGED pb_visited \/ \E n \in Nodes(hbg) : \E itype \in {"READ", "FLUSH", "EPOCH"} :
                                   PBVisit(n, itype)
  PROVE  UNCHANGED Abstract!vars
<1>1. {m \in pb_visited' : IsType(hbg', m, "WRITE")} = {m \in pb_visited : IsType(hbg, m, "WRITE")}
  <2>1. CASE UNCHANGED pb_visited
    BY <2>1 DEF inputs
  <2>2. ASSUME NEW n \in Nodes(hbg), NEW itype \in {"READ", "FLUSH", "EPOCH"}, PBVisit(n, itype)
        PROVE  {m \in pb_visited' : IsType(hbg', m, "WRITE")}
                 = {m \in pb_visited : IsType(hbg, m, "WRITE")}
    <3>1. pb_visited' = pb_visited \cup {n} /\ ~ IsType(hbg, n, "WRITE") /\ hbg' = hbg
      BY <2>2 DEF PBVisit, IsType, inputs
    <3> QED
      BY <3>1
  <2> QED
    BY <2>1, <2>2
<1> QED
  BY <1>1 DEF Abstract!vars, inputs

(* The visits that examine no write. *)
LEMMA SkipIsOther ==
  ASSUME NEW n, TouchRead(n) \/ TouchFlush(n) \/ SkipFlush(n) \/ SkipEpoch(n)
  PROVE  /\ UNCHANGED races
         /\ \E itype \in {"READ", "FLUSH", "EPOCH"} : PBVisit(n, itype)
BY DEF TouchRead, TouchFlush, SkipFlush, SkipEpoch, Touch

(* The races that the writes visited so far complete. *)
RacesSoFar == UNION {Abstract!RacesOf(d) : d \in {n \in pb_visited : IsType(hbg, n, "WRITE")}}

(* They are a matter of the input, ... *)
LEMMA SameRacesOf ==
  ASSUME UNCHANGED inputs, NEW d
  PROVE  Abstract!RacesOf(d)' = Abstract!RacesOf(d)
<1>1. \A a, b : Abstract!HappensBefore(a, b)' = Abstract!HappensBefore(a, b)
  BY DEF inputs, Abstract!HappensBefore
<1>2. \A a, b : Abstract!IsRace(a, b, d)' <=> Abstract!IsRace(a, b, d)
  BY DEF inputs, Abstract!IsRace, Abstract!IsWrite, Abstract!IsType, Abstract!Overlap,
         Abstract!Node, Abstract!Nodes, Abstract!HappensBefore, Abstract!PersistedBefore,
         Abstract!ReadIsPersisted, Abstract!WriteIsPersisted, Abstract!WriteIsLater
<1>3. \A a, b : Abstract!IsReported(a, b, d)' <=> Abstract!IsReported(a, b, d)
  BY <1>2 DEF inputs, Abstract!IsReported
<1>4. Abstract!Nodes(hbg)' = Abstract!Nodes(hbg)
  BY DEF inputs, Abstract!Nodes
<1>5. {q \in Abstract!Nodes(hbg) \X Abstract!Nodes(hbg) : Abstract!IsReported(q[1], q[2], d)}'
        = {q \in Abstract!Nodes(hbg) \X Abstract!Nodes(hbg) : Abstract!IsReported(q[1], q[2], d)}
  BY <1>3, <1>4
<1> QED
  BY <1>1, <1>5 DEF Abstract!RacesOf, Abstract!Race

(* ... and of what has been visited. *)
LEMMA SameRacesSoFar ==
  ASSUME UNCHANGED inputs, UNCHANGED pb_visited
  PROVE  RacesSoFar' = RacesSoFar
<1>1. {n \in pb_visited' : IsType(hbg', n, "WRITE")} = {n \in pb_visited : IsType(hbg, n, "WRITE")}
  BY DEF inputs
<1> QED
  BY <1>1, SameRacesOf DEF RacesSoFar

(* A visit adds the races of a write. *)
LEMMA MoreRaces ==
  ASSUME UNCHANGED inputs, NEW n \in Nodes(hbg), NEW itype, PBVisit(n, itype)
  PROVE  RacesSoFar' = IF itype = "WRITE" THEN RacesSoFar \cup Abstract!RacesOf(n)
                       ELSE RacesSoFar
<1>1. {m \in pb_visited' : IsType(hbg', m, "WRITE")} =
        IF itype = "WRITE" THEN {m \in pb_visited : IsType(hbg, m, "WRITE")} \cup {n}
        ELSE {m \in pb_visited : IsType(hbg, m, "WRITE")}
  BY DEF inputs, PBVisit, IsType
<1>2. RacesSoFar' = UNION {Abstract!RacesOf(d) : d \in {m \in pb_visited' : IsType(hbg', m, "WRITE")}}
  BY SameRacesOf DEF RacesSoFar
<1>3. CASE itype = "WRITE"
  BY <1>1, <1>2, <1>3 DEF RacesSoFar
<1>4. CASE itype # "WRITE"
  BY <1>1, <1>2, <1>4 DEF RacesSoFar
<1> QED
  BY <1>3, <1>4
================================================================================
