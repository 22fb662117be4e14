----------------------------- MODULE HappensAfter ------------------------------
(***************************************************************************)
(* The first stage of the detector, _build_happens_after_vector_clocks.    *)
(* The nodes are visited in postorder, every node after all its children,  *)
(* and each read is left with a clock that says, for every thread, which   *)
(* of its writes is the first that happens after the read.                 *)
(***************************************************************************)
EXTENDS HBG, EpochClocks

VARIABLES
  hbg, pdg, presets,     \* the input of the analysis
  ha_visited,            \* the nodes the postorder traversal has yielded
  vc_per_thread,         \* [thread -> reversed clock]
  vc_per_epoch_node,     \* [node -> reversed clock], told by its children
  vc_per_read_node       \* [node -> reversed clock], the result

ha_vars == <<ha_visited, vc_per_thread, vc_per_epoch_node, vc_per_read_node>>

Clocks == [Threads -> Nat]

EmptyClock == [t \in Threads |-> None]

HAInit ==
  /\ ha_visited = {}
  /\ vc_per_thread = [t \in Threads |-> EmptyClock]
  /\ vc_per_epoch_node = [n \in Nodes(hbg) |-> EmptyClock]
  /\ vc_per_read_node = [n \in Nodes(hbg) |-> EmptyClock]

HATypeOK ==
  /\ ha_visited \subseteq Nodes(hbg)
  /\ vc_per_thread \in [Threads -> Clocks]
  /\ vc_per_epoch_node \in [Nodes(hbg) -> Clocks]
  /\ vc_per_read_node \in [Nodes(hbg) -> Clocks]

HADone == ha_visited = Nodes(hbg)

(* Mutant of HAVisit: nodes come in any order, not in postorder. *)
HAVisitInAnyOrder(n, itype) ==
  /\ n \notin ha_visited
  /\ IsType(hbg, n, itype)
  /\ ha_visited' = ha_visited \cup {n}

(* nx.dfs_postorder_nodes yields n; which of the ready nodes comes next is *)
(* up to the graph's insertion order.                                      *)
HAVisit(n, itype) ==
  /\ n \notin ha_visited
  /\ Children(hbg, n) \subseteq ha_visited
  /\ IsType(hbg, n, itype)
  /\ ha_visited' = ha_visited \cup {n}

HAWrite(n) ==
  /\ HAVisit(n, "WRITE")
  /\ vc_per_thread' = [vc_per_thread EXCEPT ![n[1]][n[1]] = n[2]]
  /\ UNCHANGED <<vc_per_epoch_node, vc_per_read_node>>

HARead(n) ==
  /\ HAVisit(n, "READ")
  /\ vc_per_read_node' = [vc_per_read_node EXCEPT ![n] = vc_per_thread[n[1]]]
  /\ UNCHANGED <<vc_per_thread, vc_per_epoch_node>>

HAFlush(n) ==
  /\ HAVisit(n, "FLUSH")
  /\ UNCHANGED <<vc_per_thread, vc_per_epoch_node, vc_per_read_node>>

(* The parents are told the thread's clock as it stands before it learns   *)
(* what this node's own children have told the node.                       *)
HAEpoch(n) ==
  /\ HAVisit(n, "EPOCH")
  /\ IF presets.ignore_inter_thread_edges
     THEN UNCHANGED <<vc_per_thread, vc_per_epoch_node>>
     ELSE /\ vc_per_epoch_node' =
               [m \in Nodes(hbg) |->
                  IF m = n THEN EmptyClock
                  ELSE IF m \in InterParents(hbg, n)
                       THEN ReversedMerge(vc_per_epoch_node[m], vc_per_thread[n[1]])
                       ELSE vc_per_epoch_node[m]]
          /\ vc_per_thread' =
               [vc_per_thread EXCEPT
                  ![n[1]] = ReversedMerge(vc_per_thread[n[1]], vc_per_epoch_node[n])]
  /\ UNCHANGED vc_per_read_node

HANext(n) == HAWrite(n) \/ HARead(n) \/ HAFlush(n) \/ HAEpoch(n)
================================================================================
