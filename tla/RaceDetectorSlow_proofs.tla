--------------------------- MODULE RaceDetectorSlow_proofs -------------------------
(***************************************************************************)
(* The safety of the detector without use_faster_version, for every graph, *)
(* dependence graph and combination of presets.  The argument is that of   *)
(* the fast version; what differs is the epoch node, which tells its       *)
(* children the clocks the thread has before it merges the node's.         *)
(***************************************************************************)
EXTENDS RaceDetectorSlow, FindBugs_proofs

EpochTypeOK ==
  /\ epoch_seen \in [Nodes(hbg) -> [Lines -> Clocks]]
  /\ epoch_persisted \in [Nodes(hbg) -> [Lines -> Clocks]]

DirtyTypeOK ==
  /\ epoch_lines \in [Nodes(hbg) -> SUBSET Lines]
  /\ dirty_cachelines \in [Threads -> SUBSET Lines]
  /\ dirty_cachelines_vector \in [Threads -> [Threads -> SUBSET Lines]]

(* What an epoch node has been told holds at that node. *)
EpochClocksAt(n) ==
  /\ Accesses(epoch_seen[n]) /\ Accesses(epoch_persisted[n])
  /\ NotAhead(epoch_persisted[n], epoch_seen[n])
  /\ SeenAtNode(epoch_seen[n], n) /\ DurableAtNode(epoch_persisted[n], n)

EpochInv == EpochTypeOK /\ \A n \in Nodes(hbg) : EpochClocksAt(n)

(* The inductive invariant. *)
IInv == InputOK /\ HAInv /\ FindInv /\ EpochInv /\ DirtyTypeOK /\ NoMissedRace

(***************************************************************************)
(* The parts of the epoch step.                                            *)
(***************************************************************************)
LEMMA EmptyClocks ==
  /\ NoClocks \in [Lines -> Clocks]
  /\ Accesses(NoClocks) /\ NotAhead(NoClocks, NoClocks)
  /\ \A n : SeenAtNode(NoClocks, n) /\ DurableAtNode(NoClocks, n)
<1>1. NoClocks \in [Lines -> Clocks]
  BY DEF NoClocks, EmptyClock, Clocks, None
<1>2. Accesses(NoClocks) /\ NotAhead(NoClocks, NoClocks)
  BY DEF NoClocks, EmptyClock, None, Accesses, NotAhead
<1>3. \A n : SeenAtNode(NoClocks, n) /\ DurableAtNode(NoClocks, n)
  BY DEF NoClocks, EmptyClock, None, SeenAtNode, DurableAtNode
<1> QED
  BY <1>1, <1>2, <1>3

LEMMA TellClocksTake ==
  ASSUME NEW n, NEW rank, NEW m, NEW told \in [Lines -> Clocks], NEW mine \in [Lines -> Clocks]
  PROVE  /\ TellClocks(n, rank, m, told, mine) \in [Lines -> Clocks]
         /\ TakenFrom(TellClocks(n, rank, m, told, mine), told, mine)
<1>1. ASSUME NEW c \in Lines
      PROVE  /\ TellClocks(n, rank, m, told, mine)[c] \in {Merge(told[c], mine[c]), told[c]}
             /\ Merge(told[c], mine[c]) \in Clocks
             /\ \A u \in Threads : Merge(told[c], mine[c])[u] \in {told[c][u], mine[c][u]}
  BY MergeTakes DEF TellClocks
<1>2. TellClocks(n, rank, m, told, mine) \in [Lines -> Clocks]
  BY <1>1 DEF TellClocks
<1>3. ASSUME NEW c \in Lines, NEW u \in Threads
      PROVE  TellClocks(n, rank, m, told, mine)[c][u] \in {told[c][u], mine[c][u]}
  BY <1>1
<1> QED
  BY <1>2, <1>3 DEF TakenFrom

LEMMA TellClocksNotAhead ==
  ASSUME NEW n, NEW rank, NEW m,
         NEW p \in [Lines -> Clocks], NEW q \in [Lines -> Clocks],
         NEW v \in [Lines -> Clocks], NEW w \in [Lines -> Clocks],
         NotAhead(p, v), NotAhead(q, w)
  PROVE  NotAhead(TellClocks(n, rank, m, p, q), TellClocks(n, rank, m, v, w))
<1> SUFFICES ASSUME NEW c \in Lines, NEW u \in Threads
             PROVE  TellClocks(n, rank, m, p, q)[c][u] <= TellClocks(n, rank, m, v, w)[c][u]
  BY DEF NotAhead
<1>1. Merge(p[c], q[c])[u] <= Merge(v[c], w[c])[u]
  BY MergeNotAhead DEF NotAhead
<1>2. CASE c \in ToldLines(n, rank, m)
  BY <1>1, <1>2 DEF TellClocks
<1>3. CASE c \notin ToldLines(n, rank, m)
  BY <1>3 DEF TellClocks, NotAhead
<1> QED
  BY <1>2, <1>3

(* The node's clocks stay as the invariant wants them when they stay. *)
LEMMA SameEpochClocks ==
  ASSUME UNCHANGED inputs, pb_visited \subseteq pb_visited', NEW n \in Nodes(hbg),
         EpochClocksAt(n), epoch_seen'[n] = epoch_seen[n], epoch_persisted'[n] = epoch_persisted[n]
  PROVE  EpochClocksAt(n)'
<1>1. /\ \A a, b : HB(a, b)' = HB(a, b)
      /\ \A a, b : PB(a, b)' = PB(a, b)
  BY SameOrder
<1>2. Accesses(epoch_seen[n])' /\ Accesses(epoch_persisted[n])'
  BY DEF inputs, EpochClocksAt, Accesses, IsAccess
<1>3. NotAhead(epoch_persisted[n], epoch_seen[n])'
  BY DEF EpochClocksAt, NotAhead
<1>4. SeenAtNode(epoch_seen[n], n)' /\ DurableAtNode(epoch_persisted[n], n)'
  BY <1>1 DEF EpochClocksAt, SeenAtNode, DurableAtNode
<1> QED
  BY <1>2, <1>3, <1>4 DEF EpochClocksAt

(* The node's clocks are replaced. *)
LEMMA NewEpochClocks ==
  ASSUME UNCHANGED inputs, pb_visited \subseteq pb_visited', NEW n \in Nodes(hbg),
         NEW seen, NEW persisted, epoch_seen'[n] = seen, epoch_persisted'[n] = persisted,
         Accesses(seen), Accesses(persisted), NotAhead(persisted, seen),
         SeenAtNode(seen, n), DurableAtNode(persisted, n)
  PROVE  EpochClocksAt(n)'
<1>1. /\ \A a, b : HB(a, b)' = HB(a, b)
      /\ \A a, b : PB(a, b)' = PB(a, b)
  BY SameOrder
<1>2. Accesses(epoch_seen[n])' /\ Accesses(epoch_persisted[n])'
  BY DEF inputs, Accesses, IsAccess
<1>3. NotAhead(epoch_persisted[n], epoch_seen[n])'
  BY DEF NotAhead
<1>4. SeenAtNode(epoch_seen[n], n)' /\ DurableAtNode(epoch_persisted[n], n)'
  BY <1>1 DEF SeenAtNode, DurableAtNode
<1> QED
  BY <1>2, <1>3, <1>4 DEF EpochClocksAt

LEMMA DirtyTypes ==
  ASSUME IInv, NEW n \in Nodes(hbg), NEW rank
  PROVE  /\ DumpedVector(n[1]) \in [Threads -> SUBSET Lines]
         /\ \A m \in InterChildren(hbg, n) : ToldLines(n, rank, m) \subseteq Lines
<1>1. n[1] \in Threads /\ \A m \in InterChildren(hbg, n) : m[1] \in Threads
  BY NodeShape DEF IInv, InputOK, IsInput, IsGraph, InterChildren
<1>2. DumpedVector(n[1]) \in [Threads -> SUBSET Lines]
  BY <1>1 DEF IInv, DirtyTypeOK, DumpedVector
<1> QED
  BY <1>1, <1>2 DEF ToldLines

(***************************************************************************)
(* The steps.                                                              *)
(***************************************************************************)
LEMMA EpochPreserves ==
  ASSUME IInv, NEW n \in Nodes(hbg), Epoch(n)
  PROVE  FindInv' /\ EpochInv' /\ DirtyTypeOK'
<1> DEFINE children == InterChildren(hbg, n)
           mine == last_seen[n[1]]
           flushed == last_persisted[n[1]]
           seen == MergedClocks(last_seen[n[1]], epoch_seen[n])
           persisted == MergedClocks(last_persisted[n[1]], epoch_persisted[n])
<1>1. InputOK /\ FindInv /\ EpochInv /\ DirtyTypeOK
  BY DEF IInv
<1>2. /\ UNCHANGED inputs /\ UNCHANGED races
      /\ PBVisit(n, "EPOCH")
      /\ ~ presets.ignore_inter_thread_edges
      /\ last_seen' = [last_seen EXCEPT ![n[1]] = seen]
      /\ last_persisted' = [last_persisted EXCEPT ![n[1]] = persisted]
  BY DEF Epoch
<1>3. /\ n[1] \in Threads /\ n \notin pb_visited /\ hbg' = hbg
      /\ pb_visited' = pb_visited \cup {n}
  BY <1>1, <1>2, NodeShape DEF InputOK, IsInput, PBVisit, inputs
<1>4. PICK rank :
        /\ epoch_seen' = AfterEpoch(n, epoch_seen, NoClocks,
             [m \in children |-> TellClocks(n, rank, m, epoch_seen[m], mine)])
        /\ epoch_persisted' = AfterEpoch(n, epoch_persisted, NoClocks,
             [m \in children |-> TellClocks(n, rank, m, epoch_persisted[m], flushed)])
        /\ epoch_lines' = AfterEpoch(n, epoch_lines, {},
             [m \in children |-> epoch_lines[m] \cup ToldLines(n, rank, m)])
  BY DEF Epoch
<1>5. /\ mine \in [Lines -> Clocks] /\ flushed \in [Lines -> Clocks]
      /\ Accesses(mine) /\ Accesses(flushed)
      /\ NotAhead(flushed, mine)
      /\ SeenAtNode(mine, n) /\ DurableAtNode(flushed, n)
  BY <1>1, <1>3 DEF FindInv, FindTypeOK, ThreadClocks
<1>6. \A m \in Nodes(hbg) :
        /\ epoch_seen[m] \in [Lines -> Clocks] /\ epoch_persisted[m] \in [Lines -> Clocks]
        /\ EpochClocksAt(m)
  BY <1>1 DEF EpochInv, EpochTypeOK
<1>7. /\ seen \in [Lines -> Clocks] /\ persisted \in [Lines -> Clocks]
      /\ TakenFrom(seen, last_seen[n[1]], epoch_seen[n])
      /\ TakenFrom(persisted, last_persisted[n[1]], epoch_persisted[n])
      /\ NotAhead(persisted, seen)
  BY <1>5, <1>6, MergedClocksTake, MergedClocksNotAhead DEF EpochClocksAt
<1>8. /\ Accesses(seen) /\ Accesses(persisted)
      /\ SeenAtNode(seen, n) /\ DurableAtNode(persisted, n)
  BY <1>5, <1>6, <1>7, Taken DEF EpochClocksAt
<1> HIDE DEF seen, persisted, mine, flushed
<1>9. FindInv'
  BY <1>1, <1>2, <1>7, <1>8, EpochStep
<1>10. \A m \in Nodes(hbg) :
         /\ epoch_seen'[m] = IF m = n THEN NoClocks
                             ELSE IF m \in children
                                  THEN TellClocks(n, rank, m, epoch_seen[m], mine)
                                  ELSE epoch_seen[m]
         /\ epoch_persisted'[m] = IF m = n THEN NoClocks
                                  ELSE IF m \in children
                                       THEN TellClocks(n, rank, m, epoch_persisted[m], flushed)
                                       ELSE epoch_persisted[m]
  BY <1>4 DEF AfterEpoch
<1>11. \A m \in Nodes(hbg) :
         /\ TellClocks(n, rank, m, epoch_seen[m], mine) \in [Lines -> Clocks]
         /\ TellClocks(n, rank, m, epoch_persisted[m], flushed) \in [Lines -> Clocks]
         /\ TakenFrom(TellClocks(n, rank, m, epoch_seen[m], mine), epoch_seen[m], mine)
         /\ TakenFrom(TellClocks(n, rank, m, epoch_persisted[m], flushed),
                      epoch_persisted[m], flushed)
  BY <1>5, <1>6, TellClocksTake
<1>12. EpochTypeOK'
  <2>1. epoch_seen' \in [Nodes(hbg) -> [Lines -> Clocks]]
    <3>1. \A m \in Nodes(hbg) : epoch_seen'[m] \in [Lines -> Clocks]
      BY <1>6, <1>10, <1>11, EmptyClocks
    <3> QED
      BY <1>4, <3>1 DEF AfterEpoch
  <2>2. epoch_persisted' \in [Nodes(hbg) -> [Lines -> Clocks]]
    <3>1. \A m \in Nodes(hbg) : epoch_persisted'[m] \in [Lines -> Clocks]
      BY <1>6, <1>10, <1>11, EmptyClocks
    <3> QED
      BY <1>4, <3>1 DEF AfterEpoch
  <2> QED
    BY <1>3, <2>1, <2>2 DEF EpochTypeOK
<1>13. ASSUME NEW m \in Nodes(hbg)
       PROVE  EpochClocksAt(m)'
  <2>1. CASE m = n
    BY <1>2, <1>3, <1>10, <2>1, EmptyClocks, NewEpochClocks
  <2>2. CASE m # n /\ m \in children
    <3> DEFINE tseen == TellClocks(n, rank, m, epoch_seen[m], mine)
               tpersisted == TellClocks(n, rank, m, epoch_persisted[m], flushed)
    <3>1. HB(n, m)
      BY <1>1, <1>2, <2>2, EdgeOrder DEF InterChildren
    <3>2. SeenAtNode(mine, m) /\ DurableAtNode(flushed, m)
      BY <1>1, <1>5, <3>1, LaterNode
    <3>3. /\ Accesses(tseen) /\ Accesses(tpersisted)
          /\ SeenAtNode(tseen, m) /\ DurableAtNode(tpersisted, m)
      BY <1>5, <1>6, <1>11, <3>2, Taken DEF EpochClocksAt
    <3>4. NotAhead(tpersisted, tseen)
      BY <1>5, <1>6, TellClocksNotAhead DEF EpochClocksAt
    <3>5. epoch_seen'[m] = tseen /\ epoch_persisted'[m] = tpersisted
      BY <1>10, <2>2
    <3> HIDE DEF tseen, tpersisted
    <3> QED
      BY <1>2, <1>3, <3>3, <3>4, <3>5, NewEpochClocks
  <2>3. CASE m # n /\ m \notin children
    BY <1>2, <1>3, <1>6, <1>10, <2>3, SameEpochClocks
  <2> QED
    BY <2>1, <2>2, <2>3
<1>14. EpochInv'
  BY <1>3, <1>12, <1>13 DEF EpochInv
<1>15. DirtyTypeOK'
  <2>1. /\ DumpedVector(n[1]) \in [Threads -> SUBSET Lines]
        /\ \A m \in children : ToldLines(n, rank, m) \subseteq Lines
    BY DirtyTypes
  <2>2. dirty_cachelines' \in [Threads -> SUBSET Lines]
    BY <1>1, <1>3 DEF DirtyTypeOK, Epoch
  <2>3. dirty_cachelines_vector' \in [Threads -> [Threads -> SUBSET Lines]]
    <3>1. [u \in Threads |-> IF \E m \in children : m[1] = u THEN {} ELSE DumpedVector(n[1])[u]]
            \in [Threads -> SUBSET Lines]
      BY <2>1
    <3> QED
      BY <1>1, <1>3, <3>1 DEF DirtyTypeOK, Epoch
  <2>4. epoch_lines' \in [Nodes(hbg) -> SUBSET Lines]
    BY <1>1, <1>4, <2>1 DEF DirtyTypeOK, AfterEpoch
  <2> QED
    BY <1>3, <2>2, <2>3, <2>4 DEF DirtyTypeOK
<1> QED
  BY <1>9, <1>14, <1>15

LEMMA SameEpochInv ==
  ASSUME EpochInv, UNCHANGED inputs, UNCHANGED epoch_vars, pb_visited \subseteq pb_visited'
  PROVE  EpochInv'
<1>1. EpochTypeOK'
  BY DEF EpochInv, EpochTypeOK, inputs, epoch_vars
<1>2. ASSUME NEW n \in Nodes(hbg)
      PROVE  EpochClocksAt(n)'
  BY SameEpochClocks DEF EpochInv, epoch_vars
<1> QED
  BY <1>1, <1>2 DEF EpochInv, inputs

(* The steps at instruction nodes and at the nodes that presets skip. *)
LEMMA InstructionPreserves ==
  ASSUME IInv, NEW n \in Nodes(hbg), Write(n) \/ Read(n) \/ Flush(n) \/ Skip(n)
  PROVE  FindInv' /\ EpochInv' /\ DirtyTypeOK'
<1>1. InputOK /\ FindInv /\ EpochInv /\ DirtyTypeOK
  BY DEF IInv
<1>2. /\ UNCHANGED inputs /\ UNCHANGED epoch_vars
      /\ TouchWrite(n) \/ TouchRead(n) \/ TouchFlush(n) \/ SkipFlush(n) \/ SkipEpoch(n)
  BY DEF Write, Read, Flush, Skip
<1>3. FindInv'
  BY <1>1, <1>2, InstructionStep
<1>4. pb_visited \subseteq pb_visited'
  BY <1>2 DEF TouchWrite, TouchRead, TouchFlush, SkipFlush, SkipEpoch, Touch, PBVisit
<1>5. EpochInv'
  BY <1>1, <1>2, <1>4, SameEpochInv
<1>6. DirtyTypeOK'
  <2>1. CASE SetDirty(n) /\ IsType(hbg, n, Node(hbg, n).itype)
             /\ Node(hbg, n).itype \in InstructionTypes
    <3>1. n[1] \in Threads /\ Node(hbg, n).line \in Lines
      BY <1>1, <2>1, NodeShape DEF InputOK, IsInput, IsGraph
    <3> QED
      BY <1>1, <1>2, <2>1, <3>1 DEF SetDirty, DirtyTypeOK, epoch_vars, inputs
  <2>2. CASE UNCHANGED dirty_vars
    BY <1>1, <1>2, <2>2 DEF DirtyTypeOK, epoch_vars, dirty_vars, inputs
  <2>3. \/ SetDirty(n) /\ Node(hbg, n).itype \in InstructionTypes
        \/ UNCHANGED dirty_vars
    BY DEF Write, Read, Flush, Skip, TouchWrite, TouchRead, TouchFlush, Touch, PBVisit, IsType,
           InstructionTypes
  <2> QED
    BY <2>1, <2>2, <2>3 DEF IsType
<1> QED
  BY <1>3, <1>5, <1>6

LEMMA HappensAfterPreserves ==
  ASSUME IInv, NEW n \in Nodes(hbg), HappensAfterStep(n)
  PROVE  IInv'
<1>1. UNCHANGED inputs /\ UNCHANGED find_vars /\ UNCHANGED epoch_vars /\ UNCHANGED dirty_vars
  BY DEF HappensAfterStep
<1>2. InputOK' /\ HAInv'
  BY <1>1, HAStep DEF IInv, HappensAfterStep, InputOK, inputs
<1>3. FindInv' /\ NoMissedRace'
  BY <1>1, SecondStageStays DEF IInv
<1>4. EpochInv'
  BY <1>1, SameEpochInv DEF IInv, find_vars
<1>5. DirtyTypeOK'
  BY <1>1 DEF IInv, DirtyTypeOK, epoch_vars, inputs, dirty_vars
<1> QED
  BY <1>2, <1>3, <1>4, <1>5 DEF IInv

LEMMA PersistedBeforePreserves ==
  ASSUME IInv, NEW n \in Nodes(hbg), PersistedBeforeStep(n)
  PROVE  IInv'
<1>1. UNCHANGED inputs /\ UNCHANGED ha_vars
  BY DEF PersistedBeforeStep, Write, Read, Flush, Skip, Epoch
<1>2. FindInv' /\ EpochInv' /\ DirtyTypeOK'
  BY EpochPreserves, InstructionPreserves DEF PersistedBeforeStep
<1>3. InputOK' /\ HAInv'
  BY <1>1, FirstStageStays DEF IInv
<1>4. \E itype : /\ PBVisit(n, itype)
                 /\ \/ itype # "WRITE" /\ UNCHANGED races
                    \/ races' = races \cup BugsOf(n)
  BY DEF PersistedBeforeStep, Write, Read, Flush, Skip, Epoch, TouchWrite, TouchRead,
         TouchFlush, SkipFlush, SkipEpoch, Touch
<1>5. NoMissedRace'
  BY <1>1, <1>4, NoMissedRaceStep DEF IInv
<1> QED
  BY <1>2, <1>3, <1>5 DEF IInv

LEMMA StutterPreserves == ASSUME IInv, UNCHANGED vars PROVE IInv'
<1>1. /\ UNCHANGED inputs /\ UNCHANGED ha_vars /\ UNCHANGED find_vars
      /\ UNCHANGED epoch_vars /\ UNCHANGED dirty_vars
  BY DEF vars
<1>2. InputOK' /\ HAInv' /\ FindInv' /\ NoMissedRace'
  BY <1>1, FirstStageStays, SecondStageStays DEF IInv
<1>3. EpochInv'
  BY <1>1, SameEpochInv DEF IInv, find_vars
<1>4. DirtyTypeOK'
  BY <1>1 DEF IInv, DirtyTypeOK, epoch_vars, inputs, dirty_vars
<1> QED
  BY <1>2, <1>3, <1>4 DEF IInv

(***************************************************************************)
(* The theorems.                                                           *)
(***************************************************************************)
LEMMA InitEstablishes == ASSUME Init PROVE IInv
<1>1. InputOK /\ HAInv /\ FindInv
  BY FindInitially DEF Init
<1>2. EpochInv
  BY EmptyClocks DEF Init, EpochInv, EpochTypeOK, EpochClocksAt
<1>3. DirtyTypeOK
  BY DEF Init, DirtyTypeOK
<1>4. NoMissedRace
  BY DEF Init, FindInit, NoMissedRace
<1> QED
  BY <1>1, <1>2, <1>3, <1>4 DEF IInv

(* The invariant is inductive: it holds of every state of every analysis.  *)
THEOREM Invariance == Spec => []IInv
<1>1. Init => IInv
  BY InitEstablishes
<1>2. IInv /\ [Next]_vars => IInv'
  <2> SUFFICES ASSUME IInv, [Next]_vars PROVE IInv'
    OBVIOUS
  <2>1. CASE \E n \in Nodes(hbg) : HappensAfterStep(n)
    BY <2>1, HappensAfterPreserves
  <2>2. CASE \E n \in Nodes(hbg) : PersistedBeforeStep(n)
    BY <2>2, PersistedBeforePreserves
  <2>3. CASE Finished
    BY <2>3, StutterPreserves DEF Finished
  <2>4. CASE UNCHANGED vars
    BY <2>4, StutterPreserves
  <2> QED
    BY <2>1, <2>2, <2>3, <2>4 DEF Next
<1> QED
  BY <1>1, <1>2, PTL DEF Spec

(* The state of the detector keeps its types: in particular only cache     *)
(* lines, never addresses, are dirty, and reports are made of nodes.       *)
THEOREM TypeCorrect == Spec => []TypeOK
<1>1. IInv => TypeOK
  BY DEF IInv, TypeOK, HAInv, FindInv, EpochInv, EpochTypeOK, DirtyTypeOK
<1> QED
  BY <1>1, Invariance, PTL

(* get_chain never raises IndexError: every position a persistency clock   *)
(* holds is a read or write of the clock's line.                           *)
THEOREM ChainsAlwaysEntered == Spec => []ChainsCanBeEntered
<1>1. IInv => ChainsCanBeEntered
  BY ChainsEntered DEF IInv
<1> QED
  BY <1>1, Invariance, PTL

(* The assertion of add_epoch never fires, in either stage. *)
THEOREM EpochsAlwaysAdvance == Spec => []EpochsAdvance
<1>1. IInv => EpochsAdvance
  BY Advance DEF IInv
<1> QED
  BY <1>1, Invariance, PTL

(* What a thread's clock calls persisted is: a flush of the line lies      *)
(* between the access and everything the thread has still to do.  No race  *)
(* is dropped on the word of a clock that is wrong.                        *)
THEOREM PersistedAlwaysWitnessed == Spec => []PersistedIsWitnessed
<1>1. IInv => PersistedIsWitnessed
  BY PersistedWitnessed DEF IInv
<1> QED
  BY <1>1, Invariance, PTL

(* What a read's clock calls later than the read happens after it. *)
THEOREM HappensAfterAlwaysWitnessed == Spec => []HappensAfterIsWitnessed
<1>1. IInv => HappensAfterIsWitnessed
  BY HappensAfterWitnessed DEF IInv
<1> QED
  BY <1>1, Invariance, PTL

(* The completeness of the analysis: whatever the graph, a write W(Y) that *)
(* has been examined leaves no race of its own unreported.                 *)
THEOREM AllRacesReported == Spec => []NoMissedRace
<1>1. IInv => NoMissedRace
  BY DEF IInv
<1> QED
  BY <1>1, Invariance, PTL

(***************************************************************************)
(* Exactness.                                                              *)
(***************************************************************************)
(* The lines a thread has still to tell another one. *)
DirtyFor ==
  [t \in Threads |-> [u \in Threads |-> dirty_cachelines_vector[t][u] \cup dirty_cachelines[t]]]

(* On recorded inputs the clocks of both stages are exact. *)
ExactInv ==
  IsRecorded(hbg) =>
    /\ HAExact
    /\ BothExact(pb_visited, last_seen, last_persisted, epoch_seen, epoch_persisted, DirtyFor)

(* The invariant at the next state, from what the steps say of it. *)
LEMMA ExactLater ==
  ASSUME UNCHANGED inputs,
         BothExact(pb_visited', last_seen', last_persisted', epoch_seen', epoch_persisted',
                   DirtyFor')
  PROVE  BothExact(pb_visited, last_seen, last_persisted, epoch_seen, epoch_persisted, DirtyFor)'
<1> USE DEF inputs
<1>1. SeenSources' = SeenSources /\ PersistedSources' = PersistedSources
  BY SameOrder DEF SeenSources, PersistedSources, Accessed
<1>2. LeftAtEpochs(epoch_seen)' /\ LeftAtEpochs(epoch_persisted)'
  BY DEF BothExact, LeftAtEpochs
<1>3. Exact(pb_visited, SeenSources, last_seen, epoch_seen, DirtyFor)'
  BY <1>1, SameOrder DEF BothExact, Exact, ThreadsKnow, EdgesTell, CleanIsHeard, Hears, Knows
<1>4. Exact(pb_visited, PersistedSources, last_persisted, epoch_persisted, DirtyFor)'
  BY <1>1, SameOrder DEF BothExact, Exact, ThreadsKnow, EdgesTell, CleanIsHeard, Hears, Knows
<1> QED
  BY <1>2, <1>3, <1>4 DEF BothExact

(* The first stage stays as it is in the second. *)
LEMMA HAExactStays ==
  ASSUME HAExact, UNCHANGED inputs, UNCHANGED ha_vars
  PROVE  HAExact'
<1> USE DEF inputs, ha_vars
<1>1. HAWritesCovered' /\ HAEdgesCovered'
  BY DEF HAExact, HAWritesCovered, HAEdgesCovered, Covers, IsHappensAfter
<1>2. HAReadsCovered'
  BY SameOrder DEF HAExact, HAReadsCovered, Covers, IsHappensAfter
<1> QED
  BY <1>1, <1>2 DEF HAExact

(* The epoch node: its children, each alone in its thread, are told all    *)
(* that is dirty for them; what ceases to be dirty for a thread was told.  *)
LEMMA EpochExactStep ==
  ASSUME IInv, IInv', IsRecorded(hbg), ExactInv, NEW n \in Nodes(hbg), Epoch(n)
  PROVE  BothExact(pb_visited', last_seen', last_persisted', epoch_seen', epoch_persisted',
                   DirtyFor')
<1> DEFINE children == InterChildren(hbg, n)
           mine == last_seen[n[1]]
           flushed == last_persisted[n[1]]
           seen == MergedClocks(last_seen[n[1]], epoch_seen[n])
           persisted == MergedClocks(last_persisted[n[1]], epoch_persisted[n])
<1>1. /\ UNCHANGED inputs /\ PBVisit(n, "EPOCH") /\ ~ presets.ignore_inter_thread_edges
      /\ last_seen' = [last_seen EXCEPT ![n[1]] = seen]
      /\ last_persisted' = [last_persisted EXCEPT ![n[1]] = persisted]
      /\ dirty_cachelines_vector' = [dirty_cachelines_vector EXCEPT ![n[1]] =
                     [u \in Threads |-> IF \E m \in children : m[1] = u
                                        THEN {} ELSE DumpedVector(n[1])[u]]]
  BY DEF Epoch
<1>2. PICK rank \in TellOrders(children) :
        /\ epoch_seen' = AfterEpoch(n, epoch_seen, NoClocks,
             [m \in children |-> TellClocks(n, rank, m, epoch_seen[m], mine)])
        /\ epoch_persisted' = AfterEpoch(n, epoch_persisted, NoClocks,
             [m \in children |-> TellClocks(n, rank, m, epoch_persisted[m], flushed)])
  BY DEF Epoch
<1>3. /\ InputOK /\ FindInv /\ EpochInv /\ DirtyTypeOK /\ IsGraph(hbg) /\ FindInv'
      /\ EdgesTellNews(hbg)
  BY DEF IInv, InputOK, IsInput, IsRecorded
<1>4. /\ n[1] \in Threads /\ hbg' = hbg
      /\ last_seen \in AllClocks /\ last_persisted \in AllClocks
      /\ epoch_seen \in AllNodeClocks /\ epoch_persisted \in AllNodeClocks
      /\ epoch_seen' \in AllNodeClocks /\ epoch_persisted' \in AllNodeClocks
  BY <1>1, <1>3, NodeShape
     DEF FindInv, FindTypeOK, AllClocks, EpochInv, EpochTypeOK, AllNodeClocks, inputs, IInv
<1>5. /\ seen \in [Lines -> Clocks] /\ persisted \in [Lines -> Clocks]
      /\ Grows(last_seen[n[1]], seen) /\ Grows(epoch_seen[n], seen)
      /\ Grows(last_persisted[n[1]], persisted) /\ Grows(epoch_persisted[n], persisted)
  <2>1. ASSUME NEW v \in [Lines -> Clocks], NEW w \in [Lines -> Clocks]
        PROVE  /\ MergedClocks(v, w) \in [Lines -> Clocks]
               /\ Grows(v, MergedClocks(v, w)) /\ Grows(w, MergedClocks(v, w))
    BY MergedClocksTake, MergeTakes DEF MergedClocks, Grows
  <2> QED
    BY <1>4, <2>1 DEF AllClocks, AllNodeClocks
<1> HIDE DEF seen, persisted
<1>6. \A t \in Threads :
        /\ last_seen'[t] = IF t = n[1] THEN seen ELSE last_seen[t]
        /\ last_persisted'[t] = IF t = n[1] THEN persisted ELSE last_persisted[t]
        /\ Grows(last_seen[t], last_seen'[t]) /\ Grows(last_persisted[t], last_persisted'[t])
  <2>1. \A t \in Threads :
          /\ last_seen'[t] = IF t = n[1] THEN seen ELSE last_seen[t]
          /\ last_persisted'[t] = IF t = n[1] THEN persisted ELSE last_persisted[t]
    BY <1>1, <1>4 DEF AllClocks
  <2> QED
    BY <1>4, <1>5, <2>1, SameClocksGrow DEF AllClocks
<1>7. \A m \in Nodes(hbg) : m # n =>
        /\ epoch_seen'[m] = IF m \in children THEN TellClocks(n, rank, m, epoch_seen[m], mine)
                            ELSE epoch_seen[m]
        /\ epoch_persisted'[m] =
             IF m \in children THEN TellClocks(n, rank, m, epoch_persisted[m], flushed)
             ELSE epoch_persisted[m]
  BY <1>2 DEF AfterEpoch
<1>8. ASSUME NEW m \in Nodes(hbg), NEW v \in [Lines -> Clocks], NEW w \in [Lines -> Clocks]
      PROVE  Grows(v, TellClocks(n, rank, m, v, w))
  <2>1. ASSUME NEW c \in Lines
        PROVE  \A u \in Threads : /\ v[c][u] <= Merge(v[c], w[c])[u]
                                  /\ v[c][u] <= v[c][u]
    BY MergeTakes DEF Clocks
  <2> QED
    BY <2>1 DEF Grows, TellClocks
<1>9. \A m \in Nodes(hbg) : m # n => /\ Grows(epoch_seen[m], epoch_seen'[m])
                                     /\ Grows(epoch_persisted[m], epoch_persisted'[m])
  <2> SUFFICES ASSUME NEW m \in Nodes(hbg), m # n
               PROVE  /\ Grows(epoch_seen[m], epoch_seen'[m])
                      /\ Grows(epoch_persisted[m], epoch_persisted'[m])
    OBVIOUS
  <2>1. /\ mine \in [Lines -> Clocks] /\ flushed \in [Lines -> Clocks]
        /\ epoch_seen[m] \in [Lines -> Clocks] /\ epoch_persisted[m] \in [Lines -> Clocks]
    BY <1>4 DEF AllClocks, AllNodeClocks
  <2> HIDE DEF mine, flushed
  <2>2. CASE m \in children
    <3>1. /\ epoch_seen'[m] = TellClocks(n, rank, m, epoch_seen[m], mine)
          /\ epoch_persisted'[m] = TellClocks(n, rank, m, epoch_persisted[m], flushed)
      BY <1>7, <2>2
    <3> QED
      BY <1>8, <2>1, <3>1
  <2>3. CASE m \notin children
    BY <1>7, <2>1, <2>3, SameClocksGrow
  <2> QED
    BY <2>2, <2>3
(* The only child in its thread: all that is dirty for it is told. *)
<1>10. ASSUME NEW m \in children, NEW c \in Lines, c \in DirtyFor[n[1]][m[1]]
       PROVE  c \in ToldLines(n, rank, m) /\ m \in Nodes(hbg) /\ m # n
  <2>1. m \in Nodes(hbg) /\ m[1] # n[1] /\ m[1] \in Threads
    BY <1>3, NodeShape DEF IsGraph, InterChildren
  <2>2. rank[m] \in Int
    BY <1>2 DEF TellOrders
  <2>3. \A k \in children : k[1] = m[1] => ~ (rank[k] < rank[m])
    BY <1>3, <2>2, OneChild
  <2>4. ToldLines(n, rank, m) = DumpedVector(n[1])[m[1]]
    BY <2>3 DEF ToldLines
  <2>5. c \in dirty_cachelines_vector[n[1]][m[1]] \cup dirty_cachelines[n[1]]
    BY <1>4, <1>10, <2>1 DEF DirtyFor
  <2>6. c \in DumpedVector(n[1])[m[1]]
    BY <2>1, <2>5 DEF DumpedVector
  <2> QED
    BY <2>1, <2>4, <2>6
<1>11. ASSUME NEW m \in InterChildren(hbg, n), NEW c \in Lines, c \in DirtyFor[n[1]][m[1]],
              NEW u \in Threads
       PROVE  /\ last_seen[n[1]][c][u] <= epoch_seen'[m][c][u]
              /\ last_persisted[n[1]][c][u] <= epoch_persisted'[m][c][u]
  <2>1. /\ epoch_seen'[m][c] = Merge(epoch_seen[m][c], mine[c])
        /\ epoch_persisted'[m][c] = Merge(epoch_persisted[m][c], flushed[c])
    BY <1>7, <1>10, <1>11 DEF TellClocks
  <2>2. m \in Nodes(hbg)
    BY <1>10, <1>11
  <2>3. /\ epoch_seen[m][c] \in Clocks /\ epoch_persisted[m][c] \in Clocks
        /\ mine[c] \in Clocks /\ flushed[c] \in Clocks
    BY <1>4, <2>2 DEF AllClocks, AllNodeClocks
  <2> QED
    BY <2>1, <2>3, MergeTakes
<1>12. ASSUME NEW t \in Threads, NEW v \in Threads, NEW c \in Lines, t # v, c \in DirtyFor[t][v]
       PROVE  c \in DirtyFor'[t][v] \/ (t = n[1] /\ \E m \in InterChildren(hbg, n) : m[1] = v)
  <2>1. c \in dirty_cachelines_vector[t][v] \cup dirty_cachelines[t]
    BY <1>12 DEF DirtyFor
  <2>2. DirtyFor'[t][v] = dirty_cachelines_vector'[t][v] \cup dirty_cachelines'[t]
    BY DEF DirtyFor
  <2>3. CASE t # n[1]
    <3>1. dirty_cachelines' = [dirty_cachelines EXCEPT ![n[1]] = epoch_lines[n]]
      BY DEF Epoch
    <3>2. /\ dirty_cachelines_vector'[t][v] = dirty_cachelines_vector[t][v]
          /\ dirty_cachelines'[t] = dirty_cachelines[t]
      BY <1>1, <1>3, <2>3, <3>1 DEF DirtyTypeOK
    <3> QED
      BY <2>1, <2>2, <3>2
  <2>4. CASE t = n[1] /\ ~ \E m \in children : m[1] = v
    <3>1. dirty_cachelines_vector'[t][v] = DumpedVector(n[1])[v]
      BY <1>1, <1>3, <2>4 DEF DirtyTypeOK
    <3>2. c \in DumpedVector(n[1])[v]
      BY <1>12, <2>1, <2>4 DEF DumpedVector
    <3> QED
      BY <2>2, <3>1, <3>2
  <2> QED
    BY <2>3, <2>4
<1>13. Grows(epoch_seen[n], last_seen'[n[1]]) /\ Grows(epoch_persisted[n], last_persisted'[n[1]])
  BY <1>4, <1>5, <1>6
<1>14. LeftAtEpochs(epoch_seen') /\ LeftAtEpochs(epoch_persisted')
  <2> SUFFICES ASSUME NEW m \in Nodes(hbg), ~ IsType(hbg, m, "EPOCH"),
                      NEW c \in Lines, NEW u \in Threads
               PROVE  epoch_seen'[m][c][u] = None /\ epoch_persisted'[m][c][u] = None
    BY <1>1 DEF LeftAtEpochs
  <2>1. m # n /\ m \notin children
    BY <1>1, <1>3 DEF PBVisit, IsGraph, InterChildren
  <2>2. epoch_seen'[m] = epoch_seen[m] /\ epoch_persisted'[m] = epoch_persisted[m]
    BY <1>7, <2>1
  <2> QED
    BY <2>2 DEF ExactInv, BothExact, LeftAtEpochs
<1>15. BothExact(pb_visited, last_seen, last_persisted, epoch_seen, epoch_persisted, DirtyFor)
  BY DEF ExactInv
<1> HIDE DEF children
<1>16. EpochTells(n, epoch_seen, epoch_persisted, epoch_seen', epoch_persisted',
                  DirtyFor, DirtyFor')
  BY <1>6, <1>9, <1>11, <1>12, <1>13, <1>14 DEF EpochTells
<1> QED
  BY <1>1, <1>3, <1>4, <1>15, <1>16, EpochExact

(* Every other node: what is touched becomes dirty for the other threads. *)
LEMMA InstructionExactStep ==
  ASSUME IInv, IInv', IsRecorded(hbg), ExactInv, NEW n \in Nodes(hbg),
         Write(n) \/ Read(n) \/ Flush(n) \/ Skip(n)
  PROVE  BothExact(pb_visited', last_seen', last_persisted', epoch_seen', epoch_persisted',
                   DirtyFor')
<1>1. /\ UNCHANGED inputs /\ UNCHANGED epoch_vars
      /\ \/ (TouchWrite(n) \/ TouchRead(n) \/ TouchFlush(n)) /\ SetDirty(n)
         \/ (SkipFlush(n) \/ SkipEpoch(n)) /\ UNCHANGED dirty_vars
  BY DEF Write, Read, Flush, Skip
<1>2. /\ InputOK /\ HAInv /\ FindInv /\ EpochInv /\ DirtyTypeOK /\ FindInv' /\ n[1] \in Threads
  BY NodeShape DEF IInv, InputOK, IsInput
<1>3. epoch_seen \in AllNodeClocks /\ epoch_persisted \in AllNodeClocks
  BY <1>2 DEF EpochInv, EpochTypeOK, AllNodeClocks
<1>4. \A t, v \in Threads, c \in Lines : c \in DirtyFor[t][v] => c \in DirtyFor'[t][v]
  <2> SUFFICES ASSUME NEW t \in Threads, NEW v \in Threads, NEW c \in Lines, c \in DirtyFor[t][v]
               PROVE  c \in DirtyFor'[t][v]
    OBVIOUS
  <2>1. /\ dirty_cachelines_vector' = dirty_cachelines_vector
        /\ dirty_cachelines[t] \subseteq dirty_cachelines'[t]
    BY <1>1, <1>2 DEF SetDirty, dirty_vars, DirtyTypeOK
  <2> QED
    BY <2>1 DEF DirtyFor
<1>5. SetDirty(n) => \A v \in Threads : Node(hbg, n).line \in DirtyFor'[n[1]][v]
  <2> SUFFICES ASSUME SetDirty(n), NEW v \in Threads
               PROVE  Node(hbg, n).line \in DirtyFor'[n[1]][v]
    OBVIOUS
  <2>1. Node(hbg, n).line \in dirty_cachelines'[n[1]]
    BY <1>2 DEF SetDirty, DirtyTypeOK
  <2> QED
    BY <1>2, <2>1 DEF DirtyFor
<1>6. BothExact(pb_visited, last_seen, last_persisted, epoch_seen, epoch_persisted, DirtyFor)
  BY DEF ExactInv
<1>7. BothExact(pb_visited', last_seen', last_persisted', epoch_seen, epoch_persisted, DirtyFor')
  <2>1. \/ /\ TouchWrite(n) \/ TouchRead(n) \/ TouchFlush(n)
           /\ \A v \in Threads : Node(hbg, n).line \in DirtyFor'[n[1]][v]
        \/ SkipFlush(n) \/ SkipEpoch(n)
    BY <1>1, <1>5
  <2> QED
    BY <1>1, <1>2, <1>3, <1>4, <1>6, <2>1, InstructionExact
<1> QED
  BY <1>1, <1>7 DEF epoch_vars

(* The invariant is inductive, given the first one. *)
LEMMA ExactNext ==
  ASSUME IInv, IInv', ExactInv, [Next]_vars
  PROVE  ExactInv'
<1>1. ASSUME NEW n \in Nodes(hbg), HappensAfterStep(n), IsRecorded(hbg)
      PROVE  ExactInv'
  <2>1. /\ UNCHANGED inputs /\ UNCHANGED find_vars /\ UNCHANGED epoch_vars
        /\ UNCHANGED dirty_vars /\ HANext(n)
    BY <1>1 DEF HappensAfterStep
  <2>2. HAExact'
    BY <1>1, <2>1, HAExactStep DEF ExactInv, IsRecorded, IInv
  <2>3. BothExact(pb_visited', last_seen', last_persisted', epoch_seen', epoch_persisted', DirtyFor')
    <3>1. DirtyFor' = DirtyFor
      BY <2>1 DEF DirtyFor, dirty_vars
    <3> QED
      BY <1>1, <2>1, <3>1 DEF ExactInv, find_vars, epoch_vars
  <2> QED
    BY <2>1, <2>2, <2>3, ExactLater DEF ExactInv
<1>2. ASSUME NEW n \in Nodes(hbg), PersistedBeforeStep(n), IsRecorded(hbg)
      PROVE  ExactInv'
  <2>1. UNCHANGED inputs /\ UNCHANGED ha_vars
    BY <1>2 DEF PersistedBeforeStep, Write, Read, Flush, Skip, Epoch
  <2>2. HAExact'
    BY <1>2, <2>1, HAExactStays DEF ExactInv
  <2>3. BothExact(pb_visited', last_seen', last_persisted', epoch_seen', epoch_persisted', DirtyFor')
    BY <1>2, EpochExactStep, InstructionExactStep DEF PersistedBeforeStep
  <2> QED
    BY <2>1, <2>2, <2>3, ExactLater DEF ExactInv
<1>3. ASSUME UNCHANGED vars, IsRecorded(hbg)
      PROVE  ExactInv'
  <2>1. /\ UNCHANGED inputs /\ UNCHANGED ha_vars /\ UNCHANGED find_vars
        /\ UNCHANGED epoch_vars /\ UNCHANGED dirty_vars
    BY <1>3 DEF vars
  <2>2. HAExact'
    BY <1>3, <2>1, HAExactStays DEF ExactInv
  <2>3. BothExact(pb_visited', last_seen', last_persisted', epoch_seen', epoch_persisted', DirtyFor')
    <3>1. DirtyFor' = DirtyFor
      BY <2>1 DEF DirtyFor, dirty_vars
    <3> QED
      BY <1>3, <2>1, <3>1 DEF ExactInv, find_vars, epoch_vars
  <2> QED
    BY <2>1, <2>2, <2>3, ExactLater DEF ExactInv
<1>4. IsRecorded(hbg)' => IsRecorded(hbg)
  <2>1. UNCHANGED inputs
    BY DEF Next, HappensAfterStep, PersistedBeforeStep, Write, Read, Flush, Skip, Epoch, Finished,
           vars
  <2> QED
    BY <2>1 DEF inputs
<1>5. CASE ~ IsRecorded(hbg)
  BY <1>4, <1>5 DEF ExactInv
<1> QED
  BY <1>1, <1>2, <1>3, <1>5 DEF Next, Finished

(* It holds at the start. *)
LEMMA ExactInitially == ASSUME Init PROVE ExactInv
<1>1. InputOK /\ FindInit
  BY InitEstablishes DEF Init, IInv
<1>2. HAExact
  BY <1>1, HAExactInitially DEF FindInit
<1>3. BothExact(pb_visited, last_seen, last_persisted, epoch_seen, epoch_persisted, DirtyFor)
  BY <1>1, BothInitially DEF Init
<1> QED
  BY <1>2, <1>3 DEF ExactInv

(* Every step examines a write or leaves the specification where it is. *)
LEMMA AbstractStep ==
  ASSUME IInv, ExactInv, IsRecorded(hbg), [Next]_vars
  PROVE  Abstract!Next \/ UNCHANGED Abstract!vars
<1>1. ASSUME NEW n \in Nodes(hbg), HappensAfterStep(n)
      PROVE  UNCHANGED Abstract!vars
  BY <1>1, AbstractStutter DEF HappensAfterStep, find_vars
<1>2. ASSUME NEW n \in Nodes(hbg), Write(n)
      PROVE  Abstract!Next
  BY <1>2, AbstractExamine DEF IInv, ExactInv, BothExact, Exact, KnowsAll, Write
<1>3. ASSUME NEW n \in Nodes(hbg), Read(n) \/ Flush(n) \/ Skip(n)
      PROVE  UNCHANGED Abstract!vars
  BY <1>3, SkipIsOther, AbstractStutter DEF Read, Flush, Skip
<1>4. ASSUME NEW n \in Nodes(hbg), Epoch(n)
      PROVE  UNCHANGED Abstract!vars
  <2>1. UNCHANGED inputs /\ UNCHANGED races /\ PBVisit(n, "EPOCH")
    BY <1>4 DEF Epoch
  <2> QED
    BY <2>1, AbstractStutter
<1>5. ASSUME UNCHANGED vars PROVE UNCHANGED Abstract!vars
  BY <1>5, AbstractStutter DEF vars, find_vars
<1> QED
  BY <1>1, <1>2, <1>3, <1>4, <1>5 DEF Next, PersistedBeforeStep, Finished

(* So is run() without use_faster_version, although at an epoch node it    *)
(* tells the children what the thread knew before it merged the node's     *)
(* clocks: what a child is not told here it hears from the thread that     *)
(* told this one.                                                          *)
THEOREM DetectorIsExact == Spec => ImplementsRaceSpec
<1>1. Init => IInv /\ ExactInv /\ (IsRecorded(hbg) => Abstract!Init)
  BY InitEstablishes, ExactInitially, AbstractInit DEF Init
<1>2. IInv /\ IInv' /\ ExactInv /\ [Next]_vars =>
        /\ ExactInv'
        /\ (IsRecorded(hbg) => Abstract!Next) \/ UNCHANGED Abstract!vars
  BY ExactNext, AbstractStep
<1>3. (IsRecorded(hbg) => Abstract!Next) \/ UNCHANGED Abstract!vars
        <=> [IsRecorded(hbg) => Abstract!Next]_(Abstract!vars)
  OBVIOUS
<1> QED
  BY <1>1, <1>2, <1>3, Invariance, PTL DEF Spec, ImplementsRaceSpec

(* And so the two versions report the same races of the same writes.       *)
THEOREM ReportsAreTheRaces == Spec => [](IsRecorded(hbg) => races = RacesSoFar)
<1> DEFINE R == IsRecorded(hbg) => races = RacesSoFar
<1>1. Init => IInv /\ ExactInv /\ R
  <2> SUFFICES ASSUME Init PROVE IInv /\ ExactInv /\ R
    OBVIOUS
  <2>1. races = {} /\ pb_visited = {}
    BY DEF Init, FindInit
  <2> QED
    BY <2>1, InitEstablishes, ExactInitially DEF RacesSoFar
<1>2. IInv /\ IInv' /\ ExactInv /\ R /\ [Next]_vars => ExactInv' /\ R'
  <2> SUFFICES ASSUME IInv, IInv', ExactInv, R, [Next]_vars, IsRecorded(hbg)'
               PROVE  races' = RacesSoFar'
    BY ExactNext
  <2>1. UNCHANGED inputs
    BY DEF Next, HappensAfterStep, PersistedBeforeStep, Write, Read, Flush, Skip, Epoch, Finished,
           vars
  <2>2. IsRecorded(hbg) /\ races = RacesSoFar
    BY <2>1 DEF inputs
  <2>3. ASSUME NEW n \in Nodes(hbg), Write(n)
        PROVE  races' = RacesSoFar'
    <3>1. PBVisit(n, "WRITE") /\ races' = races \cup BugsOf(n)
      BY <2>3 DEF Write, TouchWrite, Touch
    <3>2. BugsOf(n) = Abstract!RacesOf(n)
      BY <2>2, <3>1, BugsAreRaces DEF IInv, ExactInv, BothExact, Exact, KnowsAll
    <3>3. RacesSoFar' = RacesSoFar \cup Abstract!RacesOf(n)
      BY <2>1, <3>1, MoreRaces
    <3> QED
      BY <2>2, <3>1, <3>2, <3>3
  <2>4. ASSUME NEW n \in Nodes(hbg), Read(n) \/ Flush(n) \/ Skip(n) \/ Epoch(n)
        PROVE  races' = RacesSoFar'
    <3>1. UNCHANGED races /\ \E itype \in {"READ", "FLUSH", "EPOCH"} : PBVisit(n, itype)
      BY <2>4, SkipIsOther DEF Read, Flush, Skip, Epoch
    <3> QED
      BY <2>1, <2>2, <3>1, MoreRaces
  <2>5. ASSUME UNCHANGED races, UNCHANGED pb_visited
        PROVE  races' = RacesSoFar'
    BY <2>1, <2>2, <2>5, SameRacesSoFar
  <2>6. ASSUME NEW n \in Nodes(hbg), HappensAfterStep(n)
        PROVE  UNCHANGED races /\ UNCHANGED pb_visited
    BY <2>6 DEF HappensAfterStep, find_vars
  <2>7. UNCHANGED vars => UNCHANGED races /\ UNCHANGED pb_visited
    BY DEF vars, find_vars
  <2> QED
    BY <2>3, <2>4, <2>5, <2>6, <2>7 DEF Next, PersistedBeforeStep, Finished
<1> HIDE DEF R
<1>3. Spec => []R
  BY <1>1, <1>2, Invariance, PTL DEF Spec
<1> QED
  BY <1>3 DEF R
================================================================================
