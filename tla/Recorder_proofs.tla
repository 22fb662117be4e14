---------------------------- MODULE Recorder_proofs -----------------------------
(***************************************************************************)
(* What HBGBuilder takes for granted of the runtime's trace: the ends of   *)
(* every HB_EDGE line have their EPOC_INC line, an edge ends where its     *)
(* thread is, and the paths of the graph say what the clocks knew.  For    *)
(* any numbers of threads, objects, mutexes and signals and runs of any    *)
(* length.                                                                 *)
(***************************************************************************)
EXTENDS MCRecorder, FiniteSetTheorems, WellFoundedInduction, TLAPS

(* A clock that, at the epochs ep, names no epoch to come, and none but 0  *)
(* without a line in ns.                                                   *)
HeardClock(ep, ns, c) ==
  /\ c \in [Tids -> Nat]
  /\ \A u \in Tids : c[u] <= ep[u] /\ (c[u] # 0 => <<u, c[u]>> \in ns)

RecordedTypeOK ==
  /\ epoch \in [Tids -> Nat]
  /\ clock \in [Tids -> [Tids -> Nat]]
  /\ sync \in [Syncs -> [Tids -> Nat]]
  /\ accessed \in [Tids -> BOOLEAN]
  /\ life \in [Tids -> Lives]

ClocksAreHeard ==
  /\ \A t \in Tids : HeardClock(epoch, nodes, clock[t])
  /\ \A s \in Syncs : HeardClock(epoch, nodes, sync[s])

(* A thread that has logged an access is past the epoch of its clock. *)
AccessesAreLater == \A t \in Tids : accessed[t] => clock[t][t] # epoch[t]

RunningHasEpoch == \A t \in Tids : Runs(t) => epoch[t] # 0

RecordedInv ==
  /\ RecordedTypeOK
  /\ ClocksAreHeard
  /\ AccessesAreLater
  /\ RunningHasEpoch
  /\ EdgeEndsAreNodes

--------------------------------------------------------------------------------
(* Clocks *)

LEMMA SameTids == Clocks!Tids = Tids
BY DEF Clocks!Tids, Tids

LEMMA NothingIsHeard ==
  ASSUME NEW ep \in [Tids -> Nat], NEW ns
  PROVE  HeardClock(ep, ns, Clocks!Nothing)
BY SameTids DEF HeardClock, Clocks!Nothing

LEMMA HeardLater ==
  ASSUME NEW ep \in [Tids -> Nat], NEW ep2 \in [Tids -> Nat], NEW ns, NEW ns2,
         \A u \in Tids : ep[u] <= ep2[u], ns \subseteq ns2,
         NEW c, HeardClock(ep, ns, c)
  PROVE  HeardClock(ep2, ns2, c)
<1>1. c \in [Tids -> Nat]
  BY DEF HeardClock
<1>2. ASSUME NEW u \in Tids
      PROVE  c[u] <= ep2[u]
  <2>1. c[u] \in Nat /\ ep[u] \in Nat /\ ep2[u] \in Nat
    BY <1>1
  <2>2. c[u] <= ep[u]
    BY DEF HeardClock
  <2> QED BY <2>1, <2>2
<1>3. \A u \in Tids : c[u] # 0 => <<u, c[u]>> \in ns2
  BY DEF HeardClock
<1> QED BY <1>1, <1>2, <1>3 DEF HeardClock

LEMMA HeardSet ==
  ASSUME NEW ep \in [Tids -> Nat], NEW ns, NEW t \in Tids, <<t, ep[t]>> \in ns,
         NEW c, HeardClock(ep, ns, c)
  PROVE  LET d == [c EXCEPT ![t] = ep[t]]
         IN  HeardClock(ep, ns, d) /\ d[t] = ep[t]
BY DEF HeardClock

LEMMA HeardJoin ==
  ASSUME NEW ep \in [Tids -> Nat], NEW ns,
         NEW c, HeardClock(ep, ns, c), NEW d, HeardClock(ep, ns, d)
  PROVE  /\ HeardClock(ep, ns, Clocks!Join(c, d))
         /\ \A t \in Tids : c[t] = ep[t] => Clocks!Join(c, d)[t] = ep[t]
<1> DEFINE j == Clocks!Join(c, d)
<1>1. c \in [Tids -> Nat] /\ d \in [Tids -> Nat]
  BY DEF HeardClock
<1>2. /\ j \in [Tids -> Nat]
      /\ \A u \in Tids : j[u] = c[u] \/ j[u] = d[u]
      /\ \A u \in Tids : c[u] <= j[u]
  BY <1>1, SameTids DEF Clocks!Join, Clocks!Later
<1>3. \A u \in Tids : j[u] <= ep[u] /\ (j[u] # 0 => <<u, j[u]>> \in ns)
  BY <1>2 DEF HeardClock
<1>4. ASSUME NEW t \in Tids, c[t] = ep[t]
      PROVE  j[t] = ep[t]
  <2>1. ep[t] <= j[t] /\ j[t] <= ep[t] /\ j[t] \in Nat /\ ep[t] \in Nat
    BY <1>2, <1>3, <1>4
  <2> QED BY <2>1
<1> QED BY <1>2, <1>3, <1>4 DEF HeardClock

(* The edges into the present epoch of t come from nodes and end in it.    *)
EndsAt(t, n, ns, es) ==
  \A e \in es : /\ <<e[1], e[2]>> \in ns /\ <<e[3], e[4]>> \in ns
                /\ e[3] = t /\ e[4] = n

LEMMA EdgesEnd ==
  ASSUME NEW ep \in [Tids -> Nat], NEW ns, NEW t \in Tids, <<t, ep[t]>> \in ns,
         NEW c, HeardClock(ep, ns, c), c[t] = ep[t], NEW d, HeardClock(ep, ns, d)
  PROVE  EndsAt(t, ep[t], ns, Clocks!Edges(t, c, d))
<1> SUFFICES ASSUME NEW e \in Clocks!Edges(t, c, d)
             PROVE  /\ <<e[1], e[2]>> \in ns /\ <<e[3], e[4]>> \in ns
                    /\ e[3] = t /\ e[4] = ep[t]
  BY DEF EndsAt
<1>1. PICK u \in Tids : c[u] < d[u] /\ e = <<u, d[u], t, c[t]>>
  BY SameTids DEF Clocks!Edges
<1>2. d[u] # 0
  BY <1>1 DEF HeardClock
<1> QED BY <1>1, <1>2 DEF HeardClock

--------------------------------------------------------------------------------
(* Steps *)

(* What an operation of t adds to the trace, own being the last epoch it   *)
(* had printed.                                                            *)
Moves(t) ==
  \/ epoch' = epoch
  \/ epoch' = [epoch EXCEPT ![t] = @ + 1]

LEMMA MovesForward ==
  ASSUME RecordedInv, NEW t \in Tids, Moves(t)
  PROVE  /\ epoch' \in [Tids -> Nat]
         /\ \A u \in Tids : epoch[u] <= epoch'[u]
         /\ \A u \in Tids \ {t} : epoch'[u] = epoch[u]
<1>1. CASE epoch' = epoch
  BY <1>1 DEF RecordedInv, RecordedTypeOK
<1>2. CASE epoch' = [epoch EXCEPT ![t] = @ + 1]
  BY <1>2 DEF RecordedInv, RecordedTypeOK
<1> QED BY <1>1, <1>2 DEF Moves

LEMMA PrintsItsLine ==
  ASSUME RecordedInv, NEW t \in Tids, NEW own, Prints(t, own), Moves(t), epoch'[t] # 0,
         own = clock[t][t] \/ own # epoch'[t]
  PROVE  /\ <<t, epoch'[t]>> \in nodes'
         /\ nodes \subseteq nodes'
         /\ accessed' \in [Tids -> BOOLEAN]
         /\ ~ accessed'[t]
         /\ \A u \in Tids \ {t} : accessed'[u] = accessed[u]
<1>1. accessed \in [Tids -> BOOLEAN]
  BY DEF RecordedInv, RecordedTypeOK
<1>2. CASE own # epoch'[t]
  <2>1. nodes' = nodes \cup {<<t, epoch'[t]>>} /\ accessed' = [accessed EXCEPT ![t] = FALSE]
    BY <1>2 DEF Prints
  <2> QED BY <1>1, <2>1
<1>3. CASE own = epoch'[t]
  <2>1. nodes' = nodes /\ accessed' = accessed
    BY <1>3 DEF Prints
  <2>2. HeardClock(epoch, nodes, clock[t]) /\ clock[t][t] = epoch'[t]
    BY <1>3 DEF RecordedInv, ClocksAreHeard
  <2>3. <<t, epoch'[t]>> \in nodes
    BY <2>2 DEF HeardClock
  <2>4. epoch[t] \in Nat /\ epoch'[t] \in Nat /\ epoch'[t] <= epoch[t] /\ epoch[t] <= epoch'[t]
    BY <2>2, MovesForward DEF HeardClock, RecordedInv, RecordedTypeOK
  <2>5. clock[t][t] = epoch[t]
    BY <2>2, <2>4
  <2>6. ~ accessed[t]
    BY <2>5 DEF RecordedInv, AccessesAreLater
  <2> QED BY <1>1, <2>1, <2>3, <2>6
<1> QED BY <1>2, <1>3

(* An operation of t that leaves it the clock c and prints what it should. *)
LEMMA OperationKeeps ==
  ASSUME RecordedInv, NEW t \in Tids, NEW own, Prints(t, own), Moves(t), epoch'[t] # 0,
         own = clock[t][t] \/ own # epoch'[t],
         NEW c, HeardClock(epoch', nodes', c), c[t] = epoch'[t],
         clock' = [clock EXCEPT ![t] = c],
         sync' \in [Syncs -> [Tids -> Nat]],
         \A s \in Syncs : HeardClock(epoch', nodes', sync'[s]),
         EndsAt(t, epoch'[t], nodes', edges'),
         life' \in [Tids -> Lives],
         \A u \in Tids \ {t} : Runs(u)' => Runs(u)
  PROVE  RecordedInv' /\ NewEdgesEndNow
<1> DEFINE Line(e) == <<<<e[1], e[2]>>, <<e[3], e[4]>>>>
<1>1. /\ epoch' \in [Tids -> Nat]
      /\ \A u \in Tids : epoch[u] <= epoch'[u]
      /\ \A u \in Tids \ {t} : epoch'[u] = epoch[u]
  BY MovesForward
<1>2. /\ <<t, epoch'[t]>> \in nodes'
      /\ nodes \subseteq nodes'
      /\ accessed' \in [Tids -> BOOLEAN]
      /\ ~ accessed'[t]
      /\ \A u \in Tids \ {t} : accessed'[u] = accessed[u]
  BY PrintsItsLine
<1>3. hb' = hb \cup {Line(e) : e \in edges'}
  BY DEF Prints
<1>4. ASSUME NEW x \in hb' \ hb
      PROVE  /\ x[1] \in nodes' /\ x[2] \in nodes'
             /\ x[2][1] = t /\ x[2][2] = epoch'[t]
  <2>1. PICK e \in edges' : x = Line(e)
    BY <1>3, <1>4
  <2> QED BY <2>1 DEF EndsAt
<1>5. RecordedTypeOK'
  <2>1. c \in [Tids -> Nat]
    BY DEF HeardClock
  <2>2. clock' \in [Tids -> [Tids -> Nat]]
    BY <2>1 DEF RecordedInv, RecordedTypeOK
  <2> QED BY <1>1, <1>2, <2>2 DEF RecordedTypeOK
<1>6. ClocksAreHeard'
  <2>1. ASSUME NEW u \in Tids
        PROVE  HeardClock(epoch', nodes', clock'[u])
    <3>1. CASE u = t
      BY <3>1 DEF RecordedInv, RecordedTypeOK
    <3>2. CASE u # t
      <4>1. clock'[u] = clock[u] /\ HeardClock(epoch, nodes, clock[u])
        BY <3>2 DEF RecordedInv, RecordedTypeOK, ClocksAreHeard
      <4>2. epoch \in [Tids -> Nat]
        BY DEF RecordedInv, RecordedTypeOK
      <4> QED BY <4>1, <4>2, <1>1, <1>2, HeardLater
    <3> QED BY <3>1, <3>2
  <2> QED BY <2>1 DEF ClocksAreHeard
<1>7. AccessesAreLater'
  <2>1. ASSUME NEW u \in Tids \ {t}, accessed'[u]
        PROVE  clock'[u][u] # epoch'[u]
    <3>1. accessed[u] /\ clock'[u] = clock[u] /\ epoch'[u] = epoch[u]
      BY <1>1, <1>2, <2>1 DEF RecordedInv, RecordedTypeOK
    <3> QED BY <3>1 DEF RecordedInv, AccessesAreLater
  <2> QED BY <1>2, <2>1 DEF AccessesAreLater
<1>8. RunningHasEpoch'
  <2>1. ASSUME NEW u \in Tids \ {t}, Runs(u)'
        PROVE  epoch'[u] # 0
    BY <1>1, <2>1 DEF RecordedInv, RunningHasEpoch
  <2> QED BY <2>1 DEF RunningHasEpoch
<1>9. EdgeEndsAreNodes'
  <2>1. \A x \in hb : x[1] \in nodes' /\ x[2] \in nodes'
    BY <1>2 DEF RecordedInv, EdgeEndsAreNodes
  <2> QED BY <1>4, <2>1 DEF EdgeEndsAreNodes
<1>10. NewEdgesEndNow
  BY <1>2, <1>4 DEF NewEdgesEndNow
<1> QED BY <1>5, <1>6, <1>7, <1>8, <1>9, <1>10 DEF RecordedInv

LEMMA StillHeard ==
  ASSUME RecordedInv, NEW t \in Tids, Moves(t), nodes \subseteq nodes',
         <<t, epoch'[t]>> \in nodes'
  PROVE  /\ \A s \in Syncs : HeardClock(epoch', nodes', sync[s])
         /\ HeardClock(epoch', nodes', Clocks!At(t))
         /\ Clocks!At(t)[t] = epoch'[t]
<1>1. /\ epoch' \in [Tids -> Nat]
      /\ \A u \in Tids : epoch[u] <= epoch'[u]
  BY MovesForward
<1>2. epoch \in [Tids -> Nat]
  BY DEF RecordedInv, RecordedTypeOK
<1>3. \A s \in Syncs : HeardClock(epoch', nodes', sync[s])
  BY <1>1, <1>2, HeardLater DEF RecordedInv, ClocksAreHeard
<1>4. HeardClock(epoch', nodes', clock[t])
  BY <1>1, <1>2, HeardLater DEF RecordedInv, ClocksAreHeard
<1>5. LET d == [clock[t] EXCEPT ![t] = epoch'[t]]
      IN  HeardClock(epoch', nodes', d) /\ d[t] = epoch'[t]
  BY <1>1, <1>4, HeardSet
<1> QED BY <1>3, <1>5 DEF Clocks!At

LEMMA TakesJoins ==
  ASSUME RecordedInv, NEW t \in Tids, Moves(t), nodes \subseteq nodes',
         <<t, epoch'[t]>> \in nodes',
         NEW c, HeardClock(epoch', nodes', c),
         NEW s1 \in Syncs, NEW s2 \in Syncs, Takes(t, c, s1, s2)
  PROVE  \E d : /\ HeardClock(epoch', nodes', d) /\ d[t] = epoch'[t]
                /\ clock' = [clock EXCEPT ![t] = d]
                /\ EndsAt(t, epoch'[t], nodes', edges')
<1> DEFINE before == [c EXCEPT ![t] = epoch'[t]]
           between == Clocks!Join(before, sync[s1])
           after == Clocks!Join(between, sync[s2])
<1>1. epoch' \in [Tids -> Nat]
  BY MovesForward
<1>2. HeardClock(epoch', nodes', sync[s1]) /\ HeardClock(epoch', nodes', sync[s2])
  BY StillHeard
<1>3. HeardClock(epoch', nodes', before) /\ before[t] = epoch'[t]
  BY <1>1, HeardSet
<1>4. HeardClock(epoch', nodes', between) /\ between[t] = epoch'[t]
  <2> HIDE DEF before
  <2> QED BY <1>1, <1>2, <1>3, HeardJoin
<1>5. HeardClock(epoch', nodes', after) /\ after[t] = epoch'[t]
  <2> HIDE DEF between
  <2> QED BY <1>1, <1>2, <1>4, HeardJoin
<1>6. EndsAt(t, epoch'[t], nodes', Clocks!Edges(t, before, between))
  <2> HIDE DEF before, between
  <2> QED BY <1>1, <1>3, <1>4, EdgesEnd
<1>7. EndsAt(t, epoch'[t], nodes', Clocks!Edges(t, between, after))
  <2> HIDE DEF between, after
  <2> QED BY <1>1, <1>4, <1>5, EdgesEnd
<1>8. /\ clock' = [clock EXCEPT ![t] = after]
      /\ edges' = Clocks!Edges(t, before, between) \cup Clocks!Edges(t, between, after)
  BY DEF Takes
<1>9. EndsAt(t, epoch'[t], nodes', edges')
  <2> HIDE DEF before, between, after
  <2> QED BY <1>6, <1>7, <1>8 DEF EndsAt
<1> HIDE DEF after
<1> QED BY <1>5, <1>8, <1>9

LEMMA EpochComes ==
  ASSUME RecordedInv, NEW t \in Tids, Advances(t)
  PROVE  Moves(t) /\ epoch'[t] # 0 /\ epoch'[t] \in Nat /\ epoch'[t] > epoch[t]
<1>1. epoch \in [Tids -> Nat] /\ epoch' = [epoch EXCEPT ![t] = @ + 1]
  BY DEF Advances, Clocks!Advances, RecordedInv, RecordedTypeOK
<1> QED BY <1>1 DEF Moves

--------------------------------------------------------------------------------
(* The four ways an operation leaves the clocks *)

StepIsSafe == RecordedInv' /\ NewEdgesEndNow

LivesGoOn(t) ==
  /\ life' \in [Tids -> Lives]
  /\ \A u \in Tids \ {t} : Runs(u)' => Runs(u)

(* An acquire; s is emptied if it is the clock of a thread that is joined. *)
LEMMA AcquiresIsSafe ==
  ASSUME RecordedInv, NEW t \in Tids, Moves(t), epoch'[t] # 0,
         NEW s1 \in Syncs, NEW s2 \in Syncs, Acquires(t, s1, s2), LivesGoOn(t),
         sync' = sync \/ \E s \in Syncs : sync' = [sync EXCEPT ![s] = Clocks!Nothing]
  PROVE  StepIsSafe
<1>1. Prints(t, clock[t][t]) /\ Takes(t, clock[t], s1, s2)
  BY DEF Acquires
<1>2. nodes \subseteq nodes' /\ <<t, epoch'[t]>> \in nodes'
  BY <1>1, PrintsItsLine
<1>3. epoch' \in [Tids -> Nat] /\ epoch \in [Tids -> Nat] /\ \A u \in Tids : epoch[u] <= epoch'[u]
  BY MovesForward DEF RecordedInv, RecordedTypeOK
<1>4. HeardClock(epoch', nodes', clock[t])
  BY <1>2, <1>3, HeardLater DEF RecordedInv, ClocksAreHeard
<1>5. PICK d : /\ HeardClock(epoch', nodes', d) /\ d[t] = epoch'[t]
               /\ clock' = [clock EXCEPT ![t] = d]
               /\ EndsAt(t, epoch'[t], nodes', edges')
  BY <1>1, <1>2, <1>4, TakesJoins
<1>6. \A s \in Syncs : HeardClock(epoch', nodes', sync[s])
  BY <1>2, StillHeard
<1>7. HeardClock(epoch', nodes', Clocks!Nothing) /\ Clocks!Nothing \in [Tids -> Nat]
  BY <1>3, NothingIsHeard DEF HeardClock
<1>8. /\ sync' \in [Syncs -> [Tids -> Nat]]
      /\ \A s \in Syncs : HeardClock(epoch', nodes', sync'[s])
  BY <1>6, <1>7 DEF RecordedInv, RecordedTypeOK
<1> QED BY <1>1, <1>5, <1>8, OperationKeeps DEF StepIsSafe, LivesGoOn

(* A release: the clock of t, or its join with that of s, goes to s. *)
LEMMA ReleasesIsSafe ==
  ASSUME RecordedInv, NEW t \in Tids, Advances(t), Releases(t), LivesGoOn(t),
         NEW s \in Syncs, Clocks!Release(t, s) \/ Clocks!ReleaseStore(t, s)
                             \/ Clocks!AcquireRelease(t, s)
  PROVE  StepIsSafe
<1>1. Moves(t) /\ epoch'[t] # 0
  BY EpochComes
<1>2. Prints(t, clock[t][t])
  BY DEF Releases
<1>3. nodes \subseteq nodes' /\ <<t, epoch'[t]>> \in nodes'
  BY <1>1, <1>2, PrintsItsLine
<1>4. epoch' \in [Tids -> Nat]
  BY <1>1, MovesForward
<1>5. /\ \A r \in Syncs : HeardClock(epoch', nodes', sync[r])
      /\ HeardClock(epoch', nodes', Clocks!At(t))
      /\ Clocks!At(t)[t] = epoch'[t]
  BY <1>1, <1>3, StillHeard
<1> DEFINE j == Clocks!Join(Clocks!At(t), sync[s])
           k == Clocks!Join(sync[s], Clocks!At(t))
<1>6. HeardClock(epoch', nodes', j) /\ j[t] = epoch'[t]
  BY <1>4, <1>5, HeardJoin
<1>7. HeardClock(epoch', nodes', k)
  BY <1>4, <1>5, HeardJoin
<1>8. EndsAt(t, epoch'[t], nodes', {}) /\ EndsAt(t, epoch'[t], nodes', Clocks!Edges(t, Clocks!At(t), j))
  <2>1. EndsAt(t, epoch'[t], nodes', {})
    BY DEF EndsAt
  <2> HIDE DEF j
  <2>2. EndsAt(t, epoch'[t], nodes', Clocks!Edges(t, Clocks!At(t), j))
    BY <1>3, <1>4, <1>5, <1>6, EdgesEnd
  <2> QED BY <2>1, <2>2
<1>9. \E d1, f \in {j, k, Clocks!At(t)} :
        /\ HeardClock(epoch', nodes', d1) /\ d1[t] = epoch'[t]
        /\ clock' = [clock EXCEPT ![t] = d1]
        /\ sync' = [sync EXCEPT ![s] = f]
        /\ EndsAt(t, epoch'[t], nodes', edges')
  <2>1. CASE Clocks!Release(t, s)
    <3>1. clock' = [clock EXCEPT ![t] = Clocks!At(t)] /\ edges' = {}
          /\ sync' = [sync EXCEPT ![s] = k]
      BY <2>1 DEF Clocks!Release
    <3> HIDE DEF j, k
    <3> QED BY <3>1, <1>5, <1>8
  <2>2. CASE Clocks!ReleaseStore(t, s)
    <3>1. clock' = [clock EXCEPT ![t] = Clocks!At(t)] /\ edges' = {}
          /\ sync' = [sync EXCEPT ![s] = Clocks!At(t)]
      BY <2>2 DEF Clocks!ReleaseStore
    <3> HIDE DEF j, k
    <3> QED BY <3>1, <1>5, <1>8
  <2>3. CASE Clocks!AcquireRelease(t, s)
    <3>1. clock' = [clock EXCEPT ![t] = j] /\ edges' = Clocks!Edges(t, Clocks!At(t), clock'[t])
          /\ sync' = [sync EXCEPT ![s] = clock'[t]]
      BY <2>3 DEF Clocks!AcquireRelease
    <3>2. clock'[t] = j
      BY <3>1 DEF RecordedInv, RecordedTypeOK
    <3> HIDE DEF j, k
    <3> QED BY <3>1, <3>2, <1>6, <1>8
  <2> QED BY <2>1, <2>2, <2>3
<1>10. PICK d1, f \in {j, k, Clocks!At(t)} :
        /\ HeardClock(epoch', nodes', d1) /\ d1[t] = epoch'[t]
        /\ clock' = [clock EXCEPT ![t] = d1]
        /\ sync' = [sync EXCEPT ![s] = f]
        /\ EndsAt(t, epoch'[t], nodes', edges')
  BY <1>9
<1>11. HeardClock(epoch', nodes', f) /\ f \in [Tids -> Nat]
  <2> HIDE DEF j, k
  <2> QED BY <1>5, <1>6, <1>7 DEF HeardClock
<1>12. /\ sync' \in [Syncs -> [Tids -> Nat]]
       /\ \A r \in Syncs : HeardClock(epoch', nodes', sync'[r])
  <2> HIDE DEF j, k
  <2> QED BY <1>5, <1>10, <1>11 DEF RecordedInv, RecordedTypeOK
<1> HIDE DEF j, k
<1> QED BY <1>1, <1>2, <1>10, <1>12, OperationKeeps DEF StepIsSafe, LivesGoOn

(* A new thread. *)
LEMMA StartIsSafe ==
  ASSUME RecordedInv, NEW t \in Tids, Start(t)
  PROVE  StepIsSafe
<1> DEFINE s == ThreadClock(t)
<1>1. s \in Syncs
  BY DEF Syncs, Tids, ThreadClock
<1>2. /\ Advances(t) /\ Takes(t, Clocks!Nothing, s, s) /\ Prints(t, 0)
      /\ sync' = [sync EXCEPT ![s] = Clocks!Nothing]
      /\ Becomes(t, IF life[t] = "created" THEN "running" ELSE "running detached")
  BY DEF Start
<1> HIDE DEF s
<1>3. Moves(t) /\ epoch'[t] # 0
  BY <1>2, EpochComes
<1>4. nodes \subseteq nodes' /\ <<t, epoch'[t]>> \in nodes'
  BY <1>2, <1>3, PrintsItsLine
<1>5. HeardClock(epoch', nodes', Clocks!Nothing) /\ Clocks!Nothing \in [Tids -> Nat]
  BY <1>3, MovesForward, NothingIsHeard DEF HeardClock
<1>6. PICK d : /\ HeardClock(epoch', nodes', d) /\ d[t] = epoch'[t]
               /\ clock' = [clock EXCEPT ![t] = d]
               /\ EndsAt(t, epoch'[t], nodes', edges')
  BY <1>1, <1>2, <1>3, <1>4, <1>5, TakesJoins
<1>7. \A r \in Syncs : HeardClock(epoch', nodes', sync[r])
  BY <1>3, <1>4, StillHeard
<1>8. /\ sync' \in [Syncs -> [Tids -> Nat]]
      /\ \A r \in Syncs : HeardClock(epoch', nodes', sync'[r])
  BY <1>2, <1>5, <1>7 DEF RecordedInv, RecordedTypeOK
<1>9. LivesGoOn(t)
  BY <1>2 DEF LivesGoOn, Becomes, Runs, Lives, RecordedInv, RecordedTypeOK
<1> QED BY <1>2, <1>3, <1>6, <1>8, <1>9, OperationKeeps DEF StepIsSafe, LivesGoOn

(* Nothing is printed and no clock changes. *)
LEMMA NothingPrintedIsSafe ==
  ASSUME RecordedInv, UNCHANGED <<clocks, trace>>,
         life' \in [Tids -> Lives], \A u \in Tids : Runs(u)' => Runs(u)
  PROVE  StepIsSafe
<1>1. /\ epoch' = epoch /\ clock' = clock /\ sync' = sync
      /\ nodes' = nodes /\ hb' = hb /\ accessed' = accessed
  BY DEF clocks, trace
<1>2. RecordedTypeOK' /\ ClocksAreHeard' /\ AccessesAreLater'
  BY <1>1 DEF RecordedInv, RecordedTypeOK, ClocksAreHeard, AccessesAreLater
<1>3. RunningHasEpoch' /\ EdgeEndsAreNodes'
  BY <1>1 DEF RecordedInv, RunningHasEpoch, EdgeEndsAreNodes
<1> QED BY <1>1, <1>2, <1>3 DEF StepIsSafe, NewEdgesEndNow, RecordedInv

LEMMA MemoryAccessIsSafe ==
  ASSUME RecordedInv, NEW t \in Tids, MemoryAccess(t)
  PROVE  StepIsSafe
<1>1. /\ Advances(t) /\ accessed' = [accessed EXCEPT ![t] = TRUE]
      /\ clock' = clock /\ sync' = sync /\ nodes' = nodes /\ hb' = hb /\ life' = life
  BY DEF MemoryAccess, Idle
<1>2. Moves(t) /\ epoch'[t] # 0 /\ epoch'[t] \in Nat /\ epoch'[t] > epoch[t]
  BY <1>1, EpochComes
<1>3. /\ epoch' \in [Tids -> Nat] /\ epoch \in [Tids -> Nat]
      /\ \A u \in Tids : epoch[u] <= epoch'[u]
      /\ \A u \in Tids \ {t} : epoch'[u] = epoch[u]
  BY <1>2, MovesForward DEF RecordedInv, RecordedTypeOK
<1>4. RecordedTypeOK'
  BY <1>1, <1>3 DEF RecordedInv, RecordedTypeOK
<1>5. ClocksAreHeard'
  BY <1>1, <1>3, HeardLater DEF RecordedInv, ClocksAreHeard
<1>6. AccessesAreLater'
  <2>1. clock[t][t] <= epoch[t] /\ clock[t][t] \in Nat /\ epoch[t] \in Nat
    BY DEF RecordedInv, RecordedTypeOK, ClocksAreHeard, HeardClock
  <2>2. clock[t][t] # epoch'[t]
    BY <1>2, <2>1
  <2>3. ASSUME NEW u \in Tids \ {t}, accessed'[u]
        PROVE  clock[u][u] # epoch'[u]
    <3>1. accessed[u]
      BY <1>1, <2>3 DEF RecordedInv, RecordedTypeOK
    <3> QED BY <1>3, <3>1 DEF RecordedInv, AccessesAreLater
  <2> QED BY <1>1, <2>2, <2>3 DEF AccessesAreLater
<1>7. RunningHasEpoch'
  <2>1. ASSUME NEW u \in Tids, Runs(u)'
        PROVE  epoch'[u] # 0
    <3>1. Runs(u)
      BY <1>1, <2>1 DEF Runs
    <3> QED BY <1>2, <1>3, <3>1 DEF RecordedInv, RunningHasEpoch
  <2> QED BY <2>1 DEF RunningHasEpoch
<1>8. EdgeEndsAreNodes'
  BY <1>1 DEF RecordedInv, EdgeEndsAreNodes
<1> QED BY <1>1, <1>4, <1>5, <1>6, <1>7, <1>8 DEF StepIsSafe, NewEdgesEndNow, RecordedInv

--------------------------------------------------------------------------------
LEMMA RecordedInit == Init => RecordedInv
<1> SUFFICES ASSUME Init PROVE RecordedInv
  OBVIOUS
<1>1. /\ epoch = [t \in Tids |-> IF t = 0 THEN 1 ELSE 0]
      /\ clock = [t \in Tids |-> [u \in Tids |-> IF t = 0 /\ u = 0 THEN 1 ELSE 0]]
      /\ sync = [s \in Syncs |-> Clocks!Nothing]
      /\ nodes = {<<0, 1>>} /\ hb = {} /\ accessed = [t \in Tids |-> FALSE]
      /\ life = [t \in Tids |-> IF t = 0 THEN "running detached" ELSE "free"]
  BY DEF Init
<1>2. /\ epoch \in [Tids -> Nat] /\ accessed \in [Tids -> BOOLEAN]
      /\ life \in [Tids -> Lives] /\ clock \in [Tids -> [Tids -> Nat]]
  BY <1>1 DEF Lives
<1>3. HeardClock(epoch, nodes, Clocks!Nothing) /\ Clocks!Nothing \in [Tids -> Nat]
  BY <1>2, NothingIsHeard DEF HeardClock
<1>4. ASSUME NEW t \in Tids
      PROVE  HeardClock(epoch, nodes, clock[t])
  <2>1. clock[t] \in [Tids -> Nat]
    BY <1>2
  <2>2. ASSUME NEW u \in Tids
        PROVE  clock[t][u] <= epoch[u] /\ (clock[t][u] # 0 => <<u, clock[t][u]>> \in nodes)
    <3>1. CASE t = 0 /\ u = 0
      <4>1. clock[t][u] = 1 /\ epoch[u] = 1 /\ <<u, 1>> \in nodes
        BY <1>1, <3>1
      <4> QED BY <4>1
    <3>2. CASE ~ (t = 0 /\ u = 0)
      <4>1. clock[t][u] = 0 /\ epoch[u] \in Nat
        BY <1>1, <1>2, <3>2
      <4> QED BY <4>1
    <3> QED BY <3>1, <3>2
  <2> QED BY <2>1, <2>2 DEF HeardClock
<1>5. RecordedTypeOK
  BY <1>1, <1>2, <1>3, <1>4 DEF RecordedTypeOK
<1>6. ClocksAreHeard
  BY <1>1, <1>3, <1>4 DEF ClocksAreHeard
<1>7. AccessesAreLater
  <2>1. \A t \in Tids : accessed[t] = FALSE
    BY <1>1
  <2> QED BY <2>1 DEF AccessesAreLater
<1>8. RunningHasEpoch
  <2>1. ASSUME NEW t \in Tids, Runs(t)
        PROVE  t = 0
    BY <1>1, <2>1 DEF Runs
  <2>2. ASSUME NEW t \in Tids, t = 0
        PROVE  epoch[t] = 1
    BY <1>1, <2>2
  <2> QED BY <2>1, <2>2 DEF RunningHasEpoch
<1>9. EdgeEndsAreNodes
  BY <1>1 DEF EdgeEndsAreNodes
<1> QED BY <1>5, <1>6, <1>7, <1>8, <1>9 DEF RecordedInv

LEMMA SameLives ==
  ASSUME RecordedInv, NEW t \in Tids, life' = life
  PROVE  LivesGoOn(t)
BY DEF LivesGoOn, Runs, RecordedInv, RecordedTypeOK

LEMMA NextLives ==
  ASSUME RecordedInv, NEW t \in Tids, NEW u \in Tids,
         NEW l \in {"created", "detached", "finished", "free"}, Becomes(u, l)
  PROVE  LivesGoOn(t) /\ \A v \in Tids : Runs(v)' => Runs(v)
BY DEF LivesGoOn, Becomes, Runs, Lives, RecordedInv, RecordedTypeOK

LEMMA StepsAreSafe ==
  ASSUME RecordedInv, Next
  PROVE  StepIsSafe
<1>1. ASSUME NEW t \in Tids, NEW a \in Addresses,
             Acquire(t, a) \/ Release(t, a) \/ AcquireRelease(t, a)
      PROVE  StepIsSafe
  <2>1. a \in Syncs /\ LivesGoOn(t)
    BY <1>1, SameLives DEF Syncs, Acquire, Release, AcquireRelease, Idle
  <2>2. CASE Acquire(t, a)
    BY <2>1, <2>2, EpochComes, AcquiresIsSafe DEF Acquire
  <2>3. CASE Release(t, a)
    BY <2>1, <2>3, ReleasesIsSafe DEF Release
  <2>4. CASE AcquireRelease(t, a)
    BY <2>1, <2>4, ReleasesIsSafe DEF AcquireRelease
  <2> QED BY <1>1, <2>2, <2>3, <2>4
<1>2. ASSUME NEW t \in Tids, NEW a \in Addresses \cup Signals, ReleaseStore(t, a)
      PROVE  StepIsSafe
  <2>1. a \in Syncs /\ LivesGoOn(t)
    BY <1>2, SameLives DEF Syncs, ReleaseStore, Idle
  <2> QED BY <1>2, <2>1, ReleasesIsSafe DEF ReleaseStore
<1>3. ASSUME NEW t \in Tids, NEW sig \in Signals, SignalHandled(t, sig)
      PROVE  StepIsSafe
  <2>1. sig \in Syncs /\ LivesGoOn(t) /\ Runs(t) /\ sync' = sync /\ Acquires(t, sig, sig)
    BY <1>3, SameLives DEF Syncs, SignalHandled, Idle
  <2>2. Moves(t) /\ epoch'[t] # 0
    <3>1. CASE Advances(t)
      BY <3>1, EpochComes
    <3>2. CASE Clocks!Stays
      BY <3>2, <2>1 DEF Clocks!Stays, Moves, RecordedInv, RunningHasEpoch
    <3> QED BY <1>3, <3>1, <3>2 DEF SignalHandled
  <2> QED BY <2>1, <2>2, AcquiresIsSafe
<1>4. ASSUME NEW t \in Tids, NEW m \in Mutexes, MutexPostLock(t, m) \/ MutexUnlock(t, m)
      PROVE  StepIsSafe
  <2>1. WriteClock(m) \in Syncs /\ ReadClock(m) \in Syncs /\ LivesGoOn(t)
    BY <1>4, SameLives DEF Syncs, MutexPostLock, MutexUnlock
  <2>2. CASE MutexPostLock(t, m)
    BY <2>1, <2>2, EpochComes, AcquiresIsSafe DEF MutexPostLock
  <2>3. CASE MutexUnlock(t, m)
    BY <2>1, <2>3, ReleasesIsSafe DEF MutexUnlock
  <2> QED BY <1>4, <2>2, <2>3
<1>5. ASSUME NEW t \in Tids, NEW m \in Mutexes,
             MutexPostReadLock(t, m) \/ MutexReadUnlock(t, m)
      PROVE  StepIsSafe
  <2>1. WriteClock(m) \in Syncs /\ ReadClock(m) \in Syncs /\ LivesGoOn(t)
    BY <1>5, SameLives DEF Syncs, MutexPostReadLock, MutexReadUnlock
  <2>2. CASE MutexPostReadLock(t, m)
    BY <2>1, <2>2, EpochComes, AcquiresIsSafe DEF MutexPostReadLock
  <2>3. CASE MutexReadUnlock(t, m)
    BY <2>1, <2>3, ReleasesIsSafe DEF MutexReadUnlock
  <2> QED BY <1>5, <2>2, <2>3
<1>6. ASSUME NEW t \in Tids, NEW u \in Tids \ {0}, NEW d \in BOOLEAN, Create(t, u, d)
      PROVE  StepIsSafe
  <2>1. ThreadClock(u) \in Syncs /\ LivesGoOn(t)
    BY <1>6, NextLives DEF Syncs, Tids, Create
  <2> QED BY <1>6, <2>1, ReleasesIsSafe DEF Create
<1>7. ASSUME NEW t \in Tids, NEW u \in Tids, Join(t, u)
      PROVE  StepIsSafe
  <2>1. ThreadClock(u) \in Syncs /\ LivesGoOn(t)
    BY <1>7, NextLives DEF Syncs, Tids, Join
  <2> QED BY <1>7, <2>1, EpochComes, AcquiresIsSafe DEF Join
<1>8. ASSUME NEW t \in Tids, Finish(t)
      PROVE  StepIsSafe
  <2>1. ThreadClock(t) \in Syncs
    BY DEF Syncs, Tids
  <2>2. CASE Advances(t) /\ Clocks!Release(t, ThreadClock(t)) /\ Releases(t) /\ Becomes(t, "finished")
    BY <2>1, <2>2, NextLives, ReleasesIsSafe
  <2>3. CASE Becomes(t, "free") /\ UNCHANGED <<clocks, trace>>
    <3>1. life' \in [Tids -> Lives] /\ \A v \in Tids : Runs(v)' => Runs(v)
      BY <2>3, NextLives DEF LivesGoOn
    <3> QED BY <2>3, <3>1, NothingPrintedIsSafe
  <2> QED BY <1>8, <2>2, <2>3 DEF Finish
<1> QED BY <1>1, <1>2, <1>3, <1>4, <1>5, <1>6, <1>7, <1>8, StartIsSafe, MemoryAccessIsSafe DEF Next

LEMMA RecordedNext ==
  ASSUME RecordedInv, [Next]_vars
  PROVE  StepIsSafe
<1>1. CASE UNCHANGED vars
  BY <1>1, NothingPrintedIsSafe DEF vars, Runs, RecordedInv, RecordedTypeOK
<1> QED BY <1>1, StepsAreSafe

LEMMA RecordedAlways == Spec => []RecordedInv
<1>1. RecordedInv /\ [Next]_vars => RecordedInv'
  BY RecordedNext DEF StepIsSafe
<1> QED BY <1>1, RecordedInit, PTL DEF Spec

(* Every node that an HB_EDGE line names has had its EPOC_INC line by then *)
(* (ThreadClock::set prints it before the operation merges any clock), so  *)
(* the graph has no node that is outside its thread's program order.       *)
THEOREM EdgesJoinPrintedNodes == Spec => []EdgeEndsAreNodes
<1>1. RecordedInv => EdgeEndsAreNodes
  BY DEF RecordedInv
<1> QED BY <1>1, RecordedAlways, PTL

(* An HB_EDGE line ends in the epoch its thread is in, and no access of    *)
(* that thread has been logged since the epoch's EPOC_INC line: an access  *)
(* that was not ordered when it happened is never ordered afterwards.      *)
THEOREM EdgesOrderNothingPast == Spec => EdgesEndNow
<1>1. RecordedInv /\ [Next]_vars => NewEdgesEndNow
  BY RecordedNext DEF StepIsSafe
<1> QED BY <1>1, RecordedAlways, PTL DEF Spec, EdgesEndNow

--------------------------------------------------------------------------------
(* Paths: a fold over the nodes, which is the least transitive relation    *)
(* that has the arcs.                                                      *)

LEMMA NatMin == ASSUME NEW T, T \subseteq Nat, T # {} PROVE \E x \in T : \A y \in T : x <= y
<1> DEFINE R == OpToRel(<, Nat)
<1>1. IsWellFoundedOn(R, Nat)
  BY NatLessThanWellFounded
<1>2. \A x, y \in Nat : <<x, y>> \in R <=> x < y
  BY DEF OpToRel
<1> HIDE DEF R
<1>3. PICK x \in T : \A y \in T : ~ (<<y, x>> \in R)
  BY <1>1, WFMin
<1>4. ASSUME NEW y \in T PROVE x <= y
  <2>1. ~ (y < x)
    BY <1>2, <1>3, Zenon
  <2> QED BY <2>1
<1> QED BY <1>4

(* The paths p and those that two of them make through n. *)
Via(p, n) ==
  p \cup {<<x[1], y[2]>> : x \in {q \in p : q[2] = n}, y \in {q \in p : q[1] = n}}

Picked(s) == CHOOSE x \in s : TRUE

(* f finds the paths over the arcs A through the nodes of each set in D. *)
IsFold(f, D, A) ==
  f = [s \in D |-> IF s = {} THEN A ELSE Via(f[s \ {Picked(s)}], Picked(s))]

LEMMA FoldExists ==
  ASSUME NEW S, IsFiniteSet(S), NEW A
  PROVE  \E f : IsFold(f, SUBSET S, A)
<1> DEFINE D(n) == {s \in SUBSET S : Cardinality(s) <= n}
           Bad == {n \in Nat : ~ \E f : IsFold(f, D(n), A)}
<1>1. ASSUME NEW s \in SUBSET S
      PROVE  IsFiniteSet(s) /\ Cardinality(s) \in Nat /\ Cardinality(s) <= Cardinality(S)
  BY FS_Subset, FS_CardinalityType
<1>2. ASSUME NEW s \in SUBSET S, s # {}
      PROVE  /\ s \ {Picked(s)} \in SUBSET S
             /\ Cardinality(s \ {Picked(s)}) = Cardinality(s) - 1
  <2>1. Picked(s) \in s
    BY <1>2 DEF Picked
  <2> QED BY <1>1, <2>1, FS_RemoveElement
<1>3. SUFFICES ASSUME Bad # {} PROVE FALSE
  <2>1. Cardinality(S) \in Nat
    BY FS_CardinalityType
  <2>2. PICK f : IsFold(f, D(Cardinality(S)), A)
    BY <1>3, <2>1
  <2>3. D(Cardinality(S)) = SUBSET S
    BY <1>1
  <2> QED BY <2>2, <2>3
<1>4. PICK n \in Bad : \A m \in Bad : n <= m
  BY <1>3, NatMin
<1>5. n # 0
  <2> SUFFICES ASSUME n = 0 PROVE FALSE
    OBVIOUS
  <2>1. ASSUME NEW s \in D(0), s # {} PROVE FALSE
    <3>1. s \in SUBSET S /\ Cardinality(s) <= 0
      OBVIOUS
    <3>2. Cardinality(s) \in Nat /\ Cardinality(s \ {Picked(s)}) \in Nat
      BY <3>1, <1>1
    <3>3. Cardinality(s \ {Picked(s)}) = Cardinality(s) - 1
      BY <3>1, <2>1, <1>2
    <3> QED BY <3>1, <3>2, <3>3
  <2>2. IsFold([s \in D(0) |-> A], D(0), A)
    BY <2>1 DEF IsFold
  <2> QED BY <1>4, <2>2
<1>6. PICK f : IsFold(f, D(n - 1), A)
  <2>1. n - 1 \in Nat /\ ~ (n <= n - 1)
    BY <1>4, <1>5
  <2>2. n - 1 \notin Bad
    BY <1>4, <2>1
  <2> HIDE DEF D
  <2> QED BY <2>1, <2>2
<1> DEFINE g == [s \in D(n) |-> IF s = {} THEN A ELSE Via(f[s \ {Picked(s)}], Picked(s))]
<1>7. ASSUME NEW s \in D(n), s # {}
      PROVE  g[s \ {Picked(s)}] = f[s \ {Picked(s)}]
  <2> DEFINE r == s \ {Picked(s)}
  <2>1. r \in D(n - 1) /\ r \in D(n)
    BY <1>1, <1>2, <1>4, <1>7
  <2>2. f[r] = IF r = {} THEN A ELSE Via(f[r \ {Picked(r)}], Picked(r))
    <3> HIDE DEF r, D
    <3> QED BY <1>6, <2>1 DEF IsFold
  <2>3. g[r] = IF r = {} THEN A ELSE Via(f[r \ {Picked(r)}], Picked(r))
    <3> HIDE DEF r, D
    <3> QED BY <2>1
  <2> HIDE DEF g, D
  <2> QED BY <2>2, <2>3
<1>8. IsFold(g, D(n), A)
  <2>1. g = [s \in D(n) |-> IF s = {} THEN A ELSE Via(g[s \ {Picked(s)}], Picked(s))]
    <3> DEFINE h == [s \in D(n) |-> IF s = {} THEN A ELSE Via(g[s \ {Picked(s)}], Picked(s))]
    <3>1. ASSUME NEW s \in D(n) PROVE g[s] = h[s]
      <4>1. CASE s = {}
        BY <4>1
      <4>2. CASE s # {}
        <5>1. g[s] = Via(f[s \ {Picked(s)}], Picked(s))
          BY <4>2
        <5>2. h[s] = Via(g[s \ {Picked(s)}], Picked(s))
          <6> HIDE DEF g, D
          <6> QED BY <4>2
        <5> HIDE DEF g, h, D
        <5> QED BY <1>7, <4>2, <5>1, <5>2
      <4> QED BY <4>1, <4>2
    <3> HIDE DEF D
    <3> QED BY <3>1
  <2> HIDE DEF g, D
  <2> QED BY <2>1 DEF IsFold
<1> HIDE DEF g, D
<1> QED BY <1>4, <1>8

IsClosed(R) == \A x, y, z : <<x, y>> \in R /\ <<y, z>> \in R => <<x, z>> \in R

LEMMA ViaDoes ==
  ASSUME NEW N, NEW p \in SUBSET (N \X N), NEW n
  PROVE  /\ Via(p, n) \subseteq N \X N
         /\ \A x, y : <<x, y>> \in Via(p, n) <=> <<x, y>> \in p \/ (<<x, n>> \in p /\ <<n, y>> \in p)
BY DEF Via

(* p has the arcs A between the nodes N, what leads through those of r, and *)
(* nothing that a path does not justify.                                    *)
PathsThrough(p, r, N, A) ==
  /\ A \subseteq p /\ p \subseteq N \X N
  /\ \A k \in r : \A x, y : <<x, k>> \in p /\ <<k, y>> \in p => <<x, y>> \in p
  /\ \A R : A \subseteq R /\ IsClosed(R) => p \subseteq R

LEMMA FoldDoes ==
  ASSUME NEW N, IsFiniteSet(N), NEW A \in SUBSET (N \X N), NEW f, IsFold(f, SUBSET N, A),
         NEW s \in SUBSET N
  PROVE  PathsThrough(f[s], s, N, A)
<1> DEFINE Good(r) == PathsThrough(f[r], r, N, A)
           Bad == {n \in Nat : \E r \in SUBSET N : Cardinality(r) = n /\ ~ Good(r)}
<1>1. ASSUME NEW r \in SUBSET N
      PROVE  IsFiniteSet(r) /\ Cardinality(r) \in Nat
  BY FS_Subset, FS_CardinalityType
<1>2. SUFFICES ASSUME Bad # {} PROVE FALSE
  <2> HIDE DEF Good
  <2>1. Good(s)
    BY <1>1, <1>2
  <2> QED BY <2>1 DEF Good
<1>3. PICK n \in Bad : \A m \in Bad : n <= m
  BY <1>2, NatMin
<1>4. PICK r \in SUBSET N : Cardinality(r) = n /\ ~ Good(r)
  BY <1>3
<1>5. r # {}
  <2> SUFFICES ASSUME r = {} PROVE Good(r)
    BY <1>4
  <2>1. f[r] = A
    BY DEF IsFold
  <2> QED BY <2>1 DEF PathsThrough
<1> DEFINE n1 == Picked(r)
           q == r \ {n1}
<1>6. n1 \in r
  BY <1>5 DEF Picked
<1>7. q \in SUBSET N /\ Cardinality(q) = n - 1 /\ n \in Nat /\ n - 1 \in Nat
  <2>1. Cardinality(q) = Cardinality(r) - 1 /\ Cardinality(q) \in Nat
    BY <1>1, <1>6, FS_RemoveElement
  <2> QED BY <1>4, <2>1
<1>8. Good(q)
  <2> HIDE DEF Good, q
  <2>1. n - 1 \notin Bad
    BY <1>3, <1>7
  <2> QED BY <1>7, <2>1
<1>9. f[r] = Via(f[q], n1)
  BY <1>5 DEF IsFold
<1> HIDE DEF n1
<1>10. q \cup {n1} = r
  BY <1>6
<1> HIDE DEF q
<1>11. /\ f[r] \subseteq N \X N
       /\ \A x, y : <<x, y>> \in f[r] <=> <<x, y>> \in f[q] \/ (<<x, n1>> \in f[q] /\ <<n1, y>> \in f[q])
  BY <1>8, <1>9, ViaDoes DEF PathsThrough
<1>12. A \subseteq f[r]
  BY <1>8, <1>9 DEF Via, PathsThrough
<1>13. ASSUME NEW k \in r, NEW x, NEW y, <<x, k>> \in f[r], <<k, y>> \in f[r]
       PROVE  <<x, y>> \in f[r]
  <2>1. CASE k = n1
    BY <1>11, <1>13, <2>1
  <2>2. CASE k \in q
    BY <1>8, <1>11, <1>13, <2>2 DEF PathsThrough
  <2> QED BY <1>10, <2>1, <2>2
<1>14. ASSUME NEW R, A \subseteq R, IsClosed(R)
       PROVE  f[r] \subseteq R
  <2>1. f[q] \subseteq R
    BY <1>8, <1>14 DEF PathsThrough
  <2>2. ASSUME NEW x, NEW y, <<x, y>> \in f[r] PROVE <<x, y>> \in R
    <3>1. CASE <<x, y>> \in f[q]
      BY <2>1, <3>1
    <3>2. CASE <<x, n1>> \in f[q] /\ <<n1, y>> \in f[q]
      <4>1. <<x, n1>> \in R /\ <<n1, y>> \in R
        BY <2>1, <3>2
      <4> QED BY <4>1, <1>14 DEF IsClosed
    <3> QED BY <1>11, <2>2, <3>1, <3>2
  <2>3. \A z \in f[r] : z = <<z[1], z[2]>>
    BY <1>11
  <2> QED BY <2>2, <2>3
<1>15. Good(r)
  BY <1>11, <1>12, <1>13, <1>14 DEF PathsThrough
<1> QED BY <1>4, <1>15

(* The paths over the arcs A between the nodes ns. *)
PathsOf(ns, A) == (CHOOSE f : IsFold(f, SUBSET ns, A))[ns]

LEMMA PathsAre == Paths = PathsOf(nodes, Arcs) /\ Paths' = PathsOf(nodes', Arcs')
BY DEF Paths, FoldSet, MapThenFoldSet, IsFold, Via, Picked, PathsOf

LEMMA PathsDo ==
  ASSUME NEW ns, IsFiniteSet(ns), NEW A \in SUBSET (ns \X ns)
  PROVE  /\ A \subseteq PathsOf(ns, A) /\ PathsOf(ns, A) \subseteq ns \X ns
         /\ IsClosed(PathsOf(ns, A))
         /\ \A R : A \subseteq R /\ IsClosed(R) => PathsOf(ns, A) \subseteq R
<1> DEFINE f == CHOOSE g : IsFold(g, SUBSET ns, A)
<1>1. IsFold(f, SUBSET ns, A) /\ ns \in SUBSET ns
  BY FoldExists
<1>2. PathsOf(ns, A) = f[ns]
  BY DEF PathsOf
<1> HIDE DEF f
<1>3. PathsThrough(f[ns], ns, ns, A)
  BY <1>1, FoldDoes
<1>4. IsClosed(f[ns])
  <2>1. \A x, y, z : <<x, y>> \in f[ns] /\ <<y, z>> \in f[ns] => <<x, z>> \in f[ns]
    BY <1>3 DEF PathsThrough
  <2> QED BY <2>1 DEF IsClosed
<1> QED BY <1>2, <1>3, <1>4 DEF PathsThrough

(* A path ends with an arc. *)
LEMMA PathsEnd ==
  ASSUME NEW ns, IsFiniteSet(ns), NEW A \in SUBSET (ns \X ns),
         NEW x, NEW y, <<x, y>> \in PathsOf(ns, A)
  PROVE  \E w \in ns : <<w, y>> \in A /\ (x = w \/ <<x, w>> \in PathsOf(ns, A))
<1> DEFINE P == PathsOf(ns, A)
           R == {q \in ns \X ns : \E w \in ns : <<w, q[2]>> \in A /\ (q[1] = w \/ <<q[1], w>> \in P)}
<1>1. /\ A \subseteq P /\ P \subseteq ns \X ns /\ IsClosed(P)
      /\ \A S : A \subseteq S /\ IsClosed(S) => P \subseteq S
  BY PathsDo
<1> HIDE DEF P
<1>2. \A u, v : <<u, v>> \in R <=>
        u \in ns /\ v \in ns /\ \E w \in ns : <<w, v>> \in A /\ (u = w \/ <<u, w>> \in P)
  OBVIOUS
<1> HIDE DEF R
<1>3. A \subseteq R
  <2>1. ASSUME NEW a \in A PROVE a \in R
    <3>1. a = <<a[1], a[2]>> /\ a[1] \in ns /\ a[2] \in ns
      OBVIOUS
    <3> QED BY <1>2, <3>1
  <2> QED BY <2>1
<1>4. IsClosed(R)
  <2>1. ASSUME NEW a, NEW b, NEW c, <<a, b>> \in R, <<b, c>> \in R
        PROVE  <<a, c>> \in R
    <3>1. <<a, b>> \in P
      <4>1. PICK w \in ns : <<w, b>> \in A /\ (a = w \/ <<a, w>> \in P)
        BY <1>2, <2>1
      <4>2. <<w, b>> \in P
        BY <1>1, <4>1
      <4> QED BY <1>1, <4>1, <4>2 DEF IsClosed
    <3>2. PICK w \in ns : <<w, c>> \in A /\ (b = w \/ <<b, w>> \in P)
      BY <1>2, <2>1
    <3>3. <<a, w>> \in P
      BY <1>1, <3>1, <3>2 DEF IsClosed
    <3>4. a \in ns /\ c \in ns
      BY <1>2, <2>1
    <3> QED BY <1>2, <3>2, <3>3, <3>4
  <2> QED BY <2>1 DEF IsClosed
<1>5. <<x, y>> \in R
  BY <1>1, <1>3, <1>4 DEF P
<1> QED BY <1>2, <1>5 DEF P

--------------------------------------------------------------------------------
(* Program order between the nodes ns. *)
Follows(ns, m, n) ==
  m[1] = n[1] /\ m[2] < n[2] /\ \A x \in ns : x[1] = m[1] => x[2] <= m[2] \/ n[2] <= x[2]
ArcsOf(ns, h) == h \cup {arc \in ns \X ns : Follows(ns, arc[1], arc[2])}
PathsIn(ns, h) == PathsOf(ns, ArcsOf(ns, h))

LEMMA PathsAreIn == Paths = PathsIn(nodes, hb) /\ Paths' = PathsIn(nodes', hb')
<1>1. Arcs = ArcsOf(nodes, hb) /\ Arcs' = ArcsOf(nodes', hb')
  BY DEF Arcs, ArcsOf, IsNext, Follows
<1> QED BY <1>1, PathsAre DEF PathsIn

IsTrace(ns, h) ==
  /\ IsFiniteSet(ns) /\ ns \subseteq Tids \X Nat
  /\ h \subseteq ns \X ns

LEMMA ArcsDo ==
  ASSUME NEW ns, NEW h, IsTrace(ns, h)
  PROVE  /\ ArcsOf(ns, h) \in SUBSET (ns \X ns)
         /\ \A m, n \in ns : <<m, n>> \in ArcsOf(ns, h) <=> <<m, n>> \in h \/ Follows(ns, m, n)
BY DEF ArcsOf, IsTrace

LEMMA PathsInDo ==
  ASSUME NEW ns, NEW h, IsTrace(ns, h)
  PROVE  /\ ArcsOf(ns, h) \subseteq PathsIn(ns, h)
         /\ PathsIn(ns, h) \subseteq ns \X ns
         /\ IsClosed(PathsIn(ns, h))
         /\ \A R : ArcsOf(ns, h) \subseteq R /\ IsClosed(R) => PathsIn(ns, h) \subseteq R
         /\ \A x, y : <<x, y>> \in PathsIn(ns, h) =>
              \E w \in ns : <<w, y>> \in ArcsOf(ns, h) /\ (x = w \/ <<x, w>> \in PathsIn(ns, h))
<1>1. ArcsOf(ns, h) \in SUBSET (ns \X ns) /\ IsFiniteSet(ns)
  BY ArcsDo DEF IsTrace
<1>2. \A x, y : <<x, y>> \in PathsIn(ns, h) =>
         \E w \in ns : <<w, y>> \in ArcsOf(ns, h) /\ (x = w \/ <<x, w>> \in PathsIn(ns, h))
  BY <1>1, PathsEnd DEF PathsIn
<1>3. /\ ArcsOf(ns, h) \subseteq PathsIn(ns, h)
      /\ PathsIn(ns, h) \subseteq ns \X ns
      /\ IsClosed(PathsIn(ns, h))
      /\ \A R : ArcsOf(ns, h) \subseteq R /\ IsClosed(R) => PathsIn(ns, h) \subseteq R
  BY <1>1, PathsDo DEF PathsIn
<1> QED BY <1>2, <1>3

(* The edges es lead into the node z, the last of its thread. *)
Grows(ns, h, z, es) ==
  /\ IsTrace(ns, h)
  /\ z \in Tids \X Nat
  /\ \A x \in ns : x[1] = z[1] => x[2] <= z[2]
  /\ es \subseteq (ns \cup {z}) \X {z}

LEMMA OrderStays ==
  ASSUME NEW ns, NEW h, NEW z, NEW es, Grows(ns, h, z, es)
  PROVE  /\ IsTrace(ns \cup {z}, h \cup es)
         /\ \A m, n \in ns : Follows(ns \cup {z}, m, n) <=> Follows(ns, m, n)
         /\ \A n \in ns \cup {z} : ~ Follows(ns \cup {z}, z, n)
<1>1. IsTrace(ns \cup {z}, h \cup es)
  <2>1. IsFiniteSet(ns \cup {z})
    BY FS_AddElement DEF Grows, IsTrace
  <2> QED BY <2>1 DEF Grows, IsTrace
<1>2. ASSUME NEW m \in ns, NEW n \in ns
      PROVE  Follows(ns \cup {z}, m, n) <=> Follows(ns, m, n)
  <2>1. m[1] \in Tids /\ m[2] \in Nat /\ n[1] \in Tids /\ n[2] \in Nat
    BY DEF Grows, IsTrace
  <2>2. z[1] = n[1] => n[2] <= z[2]
    BY DEF Grows
  <2> QED BY <2>1, <2>2 DEF Follows
<1>3. ASSUME NEW n \in ns \cup {z} PROVE ~ Follows(ns \cup {z}, z, n)
  <2>1. n[2] \in Nat /\ z[2] \in Nat /\ (n[1] = z[1] => n[2] <= z[2])
    BY DEF Grows, IsTrace
  <2> QED BY <2>1 DEF Follows
<1> QED BY <1>1, <1>2, <1>3

LEMMA PathsStay ==
  ASSUME NEW ns, NEW h, NEW z, NEW es, Grows(ns, h, z, es)
  PROVE  /\ ArcsOf(ns, h) \subseteq ArcsOf(ns \cup {z}, h \cup es)
         /\ PathsIn(ns, h) \subseteq PathsIn(ns \cup {z}, h \cup es)
<1> DEFINE ns2 == ns \cup {z}
           h2 == h \cup es
<1>1. IsTrace(ns, h) /\ IsTrace(ns2, h2)
  BY OrderStays DEF Grows
<1>2. ArcsOf(ns, h) \subseteq ArcsOf(ns2, h2)
  <2>1. ASSUME NEW m \in ns, NEW n \in ns, <<m, n>> \in ArcsOf(ns, h)
        PROVE  <<m, n>> \in ArcsOf(ns2, h2)
    <3>1. <<m, n>> \in h \/ Follows(ns, m, n)
      BY <1>1, <2>1, ArcsDo
    <3>2. <<m, n>> \in h2 \/ Follows(ns2, m, n)
      BY <3>1, OrderStays
    <3>3. m \in ns2 /\ n \in ns2
      OBVIOUS
    <3> HIDE DEF ns2, h2
    <3> QED BY <1>1, <3>2, <3>3, ArcsDo
  <2>2. ArcsOf(ns, h) \subseteq ns \X ns
    BY <1>1, ArcsDo
  <2>3. ASSUME NEW a \in ArcsOf(ns, h) PROVE a \in ArcsOf(ns2, h2)
    <3>1. a = <<a[1], a[2]>> /\ a[1] \in ns /\ a[2] \in ns
      BY <2>2
    <3> HIDE DEF ns2, h2
    <3> QED BY <2>1, <3>1
  <2> QED BY <2>3
<1> HIDE DEF ns2, h2
<1>3. ArcsOf(ns, h) \subseteq PathsIn(ns2, h2) /\ IsClosed(PathsIn(ns2, h2))
  BY <1>1, <1>2, PathsInDo
<1>4. PathsIn(ns, h) \subseteq PathsIn(ns2, h2)
  BY <1>1, <1>3, PathsInDo
<1> QED BY <1>2, <1>4 DEF ns2, h2

(* If no edge leaves z, the new paths lead into z and nowhere else.        *)
LEMMA PathsEndThere ==
  ASSUME NEW ns, NEW h, NEW z, NEW es, Grows(ns, h, z, es),
         \A a \in h \cup es : a[1] # z
  PROVE  LET P == PathsIn(ns, h)
             Q == PathsIn(ns \cup {z}, h \cup es)
         IN  /\ \A x, y : <<x, y>> \in Q /\ y # z => <<x, y>> \in P
             /\ \A y : <<z, y>> \notin Q
             /\ \A x : <<x, z>> \in Q =>
                  \E w \in ns : /\ <<w, z>> \in h \cup es \/ Follows(ns \cup {z}, w, z)
                                /\ x = w \/ <<x, w>> \in P
<1> DEFINE ns2 == ns \cup {z}
           h2 == h \cup es
           P == PathsIn(ns, h)
           Q == PathsIn(ns2, h2)
           B == ArcsOf(ns2, h2)
<1>1. IsTrace(ns, h) /\ IsTrace(ns2, h2)
  BY OrderStays DEF Grows
<1>2. ASSUME NEW m, NEW n, <<m, n>> \in B
      PROVE  /\ m \in ns /\ m # z /\ n \in ns2
             /\ <<m, n>> \in h2 \/ Follows(ns2, m, n)
             /\ n # z => <<m, n>> \in ArcsOf(ns, h)
  <2>1. m \in ns2 /\ n \in ns2 /\ (<<m, n>> \in h2 \/ Follows(ns2, m, n))
    <3> HIDE DEF ns2, h2
    <3>1. m \in ns2 /\ n \in ns2
      BY <1>1, <1>2, ArcsDo
    <3> QED BY <1>1, <1>2, <3>1, ArcsDo
  <2>2. m # z
    <3>1. CASE <<m, n>> \in h2
      <4>1. <<m, n>>[1] # z
        BY <3>1
      <4> QED BY <4>1
    <3>2. CASE Follows(ns2, m, n)
      <4>1. \A k \in ns2 : ~ Follows(ns2, z, k)
        BY OrderStays
      <4> HIDE DEF ns2
      <4> QED BY <2>1, <3>2, <4>1
    <3> QED BY <2>1, <3>1, <3>2
  <2>3. ASSUME n # z PROVE <<m, n>> \in ArcsOf(ns, h)
    <3>1. m \in ns /\ n \in ns
      BY <2>1, <2>2, <2>3
    <3>2. <<m, n>> \in h \/ Follows(ns, m, n)
      <4>1. <<m, n>> \notin es
        BY <2>3 DEF Grows
      <4> QED BY <2>1, <3>1, <4>1, OrderStays
    <3> QED BY <1>1, <3>1, <3>2, ArcsDo
  <2>4. m \in ns
    BY <2>1, <2>2
  <2> QED BY <2>1, <2>2, <2>3, <2>4
<1>3. /\ B \subseteq Q /\ Q \subseteq ns2 \X ns2 /\ IsClosed(Q)
      /\ \A R : B \subseteq R /\ IsClosed(R) => Q \subseteq R
      /\ \A x, y : <<x, y>> \in Q => \E w \in ns2 : <<w, y>> \in B /\ (x = w \/ <<x, w>> \in Q)
  <2> HIDE DEF ns2, h2
  <2> QED BY <1>1, PathsInDo
<1>4. ArcsOf(ns, h) \subseteq P /\ P \subseteq ns \X ns /\ IsClosed(P) /\ P \subseteq Q
  BY <1>1, PathsInDo, PathsStay
<1>5. B \subseteq ns2 \X ns2
  <2> HIDE DEF ns2, h2
  <2> QED BY <1>1, ArcsDo
<1> HIDE DEF P, Q, B
<1>6. ASSUME NEW y PROVE <<z, y>> \notin Q
  <2> DEFINE R == {q \in ns2 \X ns2 : q[1] # z}
  <2>1. \A a, b : <<a, b>> \in R <=> a \in ns2 /\ b \in ns2 /\ a # z
    OBVIOUS
  <2>2. B \subseteq R
    <3>1. ASSUME NEW a \in B PROVE a \in R
      <4>1. a = <<a[1], a[2]>> /\ a[1] \in ns2 /\ a[2] \in ns2
        BY <1>5
      <4>2. a[1] # z
        BY <1>2, <4>1
      <4> QED BY <2>1, <4>1, <4>2
    <3> QED BY <3>1
  <2> HIDE DEF R, ns2
  <2>3. IsClosed(R)
    BY <2>1 DEF IsClosed
  <2>4. Q \subseteq R
    BY <1>3, <2>2, <2>3
  <2> QED BY <2>1, <2>4
<1>7. ASSUME NEW x, NEW y, <<x, y>> \in Q, y # z PROVE <<x, y>> \in P
  <2> DEFINE R == {q \in ns2 \X ns2 : q \in P \/ q[2] = z}
  <2>1. \A a, b : <<a, b>> \in R <=> a \in ns2 /\ b \in ns2 /\ (<<a, b>> \in P \/ b = z)
    OBVIOUS
  <2>2. B \subseteq R
    <3>1. ASSUME NEW a \in B PROVE a \in R
      <4>1. a = <<a[1], a[2]>> /\ a[1] \in ns2 /\ a[2] \in ns2
        BY <1>5
      <4>2. a[2] # z => <<a[1], a[2]>> \in P
        BY <1>2, <1>4, <4>1
      <4> QED BY <2>1, <4>1, <4>2
    <3> QED BY <3>1
  <2> DEFINE S == R \cap Q
  <2>3. IsClosed(S)
    <3>1. ASSUME NEW a, NEW b, NEW c, <<a, b>> \in S, <<b, c>> \in S
          PROVE  <<a, c>> \in S
      <4>1. <<a, c>> \in Q
        BY <1>3, <3>1 DEF IsClosed
      <4>2. b # z
        BY <1>6, <3>1
      <4>3. <<a, b>> \in P /\ a \in ns2 /\ c \in ns2
        BY <2>1, <3>1, <4>2
      <4>4. c # z => <<a, c>> \in P
        BY <1>4, <2>1, <3>1, <4>3 DEF IsClosed
      <4> QED BY <2>1, <4>1, <4>3, <4>4
    <3> HIDE DEF S
    <3> QED BY <3>1 DEF IsClosed
  <2>4. B \subseteq S
    BY <1>3, <2>2
  <2> HIDE DEF S, R, ns2
  <2>5. Q \subseteq S
    BY <1>3, <2>3, <2>4
  <2> QED BY <1>7, <2>1, <2>5 DEF S
<1>8. ASSUME NEW x, <<x, z>> \in Q
      PROVE  \E w \in ns : (<<w, z>> \in h2 \/ Follows(ns2, w, z)) /\ (x = w \/ <<x, w>> \in P)
  <2>1. PICK w \in ns2 : <<w, z>> \in B /\ (x = w \/ <<x, w>> \in Q)
    BY <1>3, <1>8
  <2>2. w \in ns /\ w # z /\ (<<w, z>> \in h2 \/ Follows(ns2, w, z))
    BY <1>2, <2>1
  <2> QED BY <1>7, <2>1, <2>2
<1> QED BY <1>6, <1>7, <1>8 DEF P, Q

--------------------------------------------------------------------------------
(* The graph against the clocks *)

(* No path into an epoch that c has heard of comes from one it has not.    *)
CoversIn(c, p) == \A u \in Tids : \A x : <<x, <<u, c[u]>>>> \in p => x[2] <= c[x[1]]

(* A thread that runs is in the last node of its number. *)
NodesOK ==
  /\ IsTrace(nodes, hb)
  /\ \A x \in nodes : x[2] # 0 /\ x[2] <= epoch[x[1]] /\ (Runs(x[1]) => x[2] <= clock[x[1]][x[1]])
  /\ \A t \in Tids : Runs(t) => clock[t][t] # 0

(* What others have of a thread was released, and so was what an edge says. *)
ReleasedOK ==
  /\ released \in [Tids -> Nat]
  /\ \A t \in Tids :
       /\ released[t] <= epoch[t]
       /\ \A r \in Tids \ {t} : clock[r][t] <= released[t]
       /\ \A s \in Syncs : sync[s][t] <= released[t]
  /\ \A a \in hb : a[1][2] <= released[a[1][1]]

(* What a thread has heard of another, an edge to it says. *)
ClocksCome ==
  \A t, u \in Tids : u # t /\ clock[t][u] # 0 =>
    \E m \in Nat : m <= clock[t][t] /\ <<<<u, clock[t][u]>>, <<t, m>>>> \in hb

(* And a path leads from there to the thread's last node. *)
ClocksReach ==
  \A t, u \in Tids : Runs(t) /\ u # t /\ clock[t][u] # 0 =>
    <<<<u, clock[t][u]>>, <<t, clock[t][t]>>>> \in PathsIn(nodes, hb)

IsAcyclic == ~ mixed => \A n : <<n, n>> \notin PathsIn(nodes, hb)

ClocksCover ==
  ~ mixed /\ ~ reused =>
    /\ \A t \in Tids : CoversIn(clock[t], PathsIn(nodes, hb))
    /\ \A s \in Syncs : CoversIn(sync[s], PathsIn(nodes, hb))

(* An edge says what the node before its target had not heard. *)
EdgesAreNews ==
  ~ mixed /\ ~ reused =>
    \A e \in hb, n \in nodes : Follows(nodes, n, e[2]) => <<e[1], n>> \notin PathsIn(nodes, hb)

(* Where there is a path, there is an edge that says as much. *)
PathsAreDirect ==
  ~ mixed /\ ~ reused =>
    \A x, y : <<x, y>> \in PathsIn(nodes, hb) /\ x[1] # y[1] =>
      \E e \in hb : e[1][1] = x[1] /\ x[2] <= e[1][2] /\ e[2][1] = y[1] /\ e[2][2] <= y[2]

GraphInv ==
  /\ NodesOK /\ ReleasedOK
  /\ ClocksCome /\ ClocksReach
  /\ IsAcyclic
  /\ ClocksCover /\ EdgesAreNews /\ PathsAreDirect

--------------------------------------------------------------------------------
(* What an operation of t does: it starts from the clock base, whose own   *)
(* component was own, ends with c and prints the edges es.                 *)
Operates(t, own, base, c, es) ==
  /\ \/ Runs(t) /\ base = clock[t] /\ own = clock[t][t]
     \/ base = Clocks!Nothing /\ own = 0 /\ (~ reused' => epoch[t] = 0)
  /\ \/ epoch' = epoch /\ epoch[t] = own
     \/ epoch' = [epoch EXCEPT ![t] = @ + 1]
  /\ epoch'[t] # 0
  /\ nodes' = nodes \cup {<<t, epoch'[t]>>}
  /\ hb' = hb \cup es
  /\ c \in [Tids -> Nat] /\ c[t] = epoch'[t]
  /\ clock' = [clock EXCEPT ![t] = c]
  /\ \A u \in Tids \ {t} :
       /\ base[u] <= c[u]
       /\ \/ c[u] = base[u]
          \/ <<<<u, c[u]>>, <<t, epoch'[t]>>>> \in es /\ \E s \in Syncs : c[u] = sync[s][u]
  /\ \A a \in es : \E v \in Tids \ {t}, s \in Syncs :
       /\ a = <<<<v, sync[s][v]>>, <<t, epoch'[t]>>>>
       /\ base[v] < sync[s][v]
       /\ \A u \in Tids : sync[s][u] <= c[u]
  /\ es = {} \/ released[t] # epoch'[t] \/ mixed'
  /\ mixed => mixed'
  /\ reused => reused'
  /\ released' = released \/ released' = [released EXCEPT ![t] = epoch'[t]]
  /\ sync' \in [Syncs -> [Tids -> Nat]]
  /\ \A s \in Syncs :
       \/ sync'[s] = sync[s]
       \/ sync'[s] = Clocks!Nothing
       \/ sync'[s] \in {c, Clocks!Join(sync[s], c)} /\ released'[t] = epoch'[t]
  /\ \A u \in Tids \ {t} : Runs(u)' => Runs(u)

LEMMA BaseIs ==
  ASSUME RecordedInv, GraphInv, NEW t \in Tids, NEW own, NEW base, NEW c, NEW es,
         Operates(t, own, base, c, es)
  PROVE  /\ base \in [Tids -> Nat] /\ own = base[t] /\ own \in Nat
         /\ \A u \in Tids : base[u] <= epoch[u]
         /\ epoch'[t] \in Nat /\ epoch[t] \in Nat /\ own <= epoch'[t]
         /\ own # epoch'[t] => epoch'[t] = epoch[t] + 1
         /\ own = epoch'[t] => Runs(t) /\ base = clock[t] /\ epoch'[t] = epoch[t]
         /\ \A u \in Tids \ {t} : epoch'[u] = epoch[u]
<1>1. epoch \in [Tids -> Nat] /\ clock \in [Tids -> [Tids -> Nat]]
  BY DEF RecordedInv, RecordedTypeOK
<1>2. \A u \in Tids : clock[t][u] \in Nat /\ clock[t][u] <= epoch[u]
  BY <1>1 DEF RecordedInv, ClocksAreHeard, HeardClock
<1>3. Clocks!Nothing \in [Tids -> Nat] /\ \A u \in Tids : Clocks!Nothing[u] = 0
  BY SameTids DEF Clocks!Nothing
<1>4. base \in [Tids -> Nat] /\ own = base[t] /\ \A u \in Tids : base[u] <= epoch[u]
  <2>1. CASE base = clock[t] /\ own = clock[t][t]
    BY <1>1, <1>2, <2>1
  <2>2. CASE base = Clocks!Nothing /\ own = 0
    BY <1>1, <1>3, <2>2
  <2> QED BY <2>1, <2>2 DEF Operates
<1>5. CASE epoch' = epoch /\ epoch[t] = own
  <2>1. epoch'[t] # 0
    BY DEF Operates
  <2>2. Runs(t) /\ base = clock[t]
    BY <1>5, <2>1 DEF Operates
  <2> QED BY <1>1, <1>4, <1>5, <2>2
<1>6. CASE epoch' = [epoch EXCEPT ![t] = @ + 1]
  <2>1. epoch'[t] = epoch[t] + 1 /\ \A u \in Tids \ {t} : epoch'[u] = epoch[u]
    BY <1>1, <1>6
  <2>2. own <= epoch[t] /\ own \in Nat /\ epoch[t] \in Nat
    BY <1>1, <1>4
  <2> QED BY <1>4, <2>1, <2>2
<1> QED BY <1>5, <1>6 DEF Operates

LEMMA OperationGrows ==
  ASSUME RecordedInv, GraphInv, NEW t \in Tids, NEW own, NEW base, NEW c, NEW es,
         Operates(t, own, base, c, es)
  PROVE  /\ Grows(nodes, hb, <<t, epoch'[t]>>, es)
         /\ own # epoch'[t] => <<t, epoch'[t]>> \notin nodes
<1> DEFINE z == <<t, epoch'[t]>>
<1>1. /\ base \in [Tids -> Nat] /\ own = base[t] /\ own \in Nat
      /\ epoch'[t] \in Nat /\ epoch[t] \in Nat
      /\ own # epoch'[t] => epoch'[t] = epoch[t] + 1
      /\ own = epoch'[t] => epoch'[t] = epoch[t]
  BY BaseIs
<1>2. \A x \in nodes : x[1] \in Tids /\ x[2] \in Nat /\ x[2] <= epoch[x[1]]
  BY DEF GraphInv, NodesOK, IsTrace
<1>3. \A x \in nodes : x[1] = t => x[2] <= epoch'[t] /\ (own # epoch'[t] => x[2] # epoch'[t])
  BY <1>1, <1>2
<1>4. es \subseteq (nodes \cup {z}) \X {z}
  <2>1. ASSUME NEW a \in es PROVE a \in (nodes \cup {z}) \X {z}
    <3>1. PICK v \in Tids \ {t}, s \in Syncs : a = <<<<v, sync[s][v]>>, z>> /\ base[v] < sync[s][v]
      BY DEF Operates
    <3>2. sync[s] \in [Tids -> Nat] /\ HeardClock(epoch, nodes, sync[s])
      BY DEF RecordedInv, RecordedTypeOK, ClocksAreHeard
    <3>3. sync[s][v] # 0
      BY <1>1, <3>1, <3>2
    <3>4. <<v, sync[s][v]>> \in nodes
      BY <3>2, <3>3 DEF HeardClock
    <3> QED BY <3>1, <3>4
  <2> QED BY <2>1
<1>5. IsTrace(nodes, hb)
  BY DEF GraphInv, NodesOK
<1> QED BY <1>1, <1>3, <1>4, <1>5 DEF Grows

(* Unless the thread has released in this epoch nobody has heard of it.    *)
LEMMA NothingLeaves ==
  ASSUME RecordedInv, GraphInv, NEW t \in Tids, NEW own, NEW base, NEW c, NEW es,
         Operates(t, own, base, c, es), own # epoch'[t] \/ released[t] # epoch'[t]
  PROVE  /\ \A a \in hb \cup es : a[1] # <<t, epoch'[t]>>
         /\ \A r \in Tids \ {t} : clock[r][t] < epoch'[t]
         /\ \A s \in Syncs : sync[s][t] < epoch'[t]
<1>1. /\ epoch'[t] \in Nat /\ epoch[t] \in Nat
      /\ own # epoch'[t] => epoch'[t] = epoch[t] + 1
      /\ own = epoch'[t] => epoch'[t] = epoch[t]
  BY BaseIs
<1>2. released[t] \in Nat /\ released[t] <= epoch[t]
  BY DEF GraphInv, ReleasedOK
<1>3. released[t] < epoch'[t]
  BY <1>1, <1>2
<1>4. ASSUME NEW a \in hb PROVE a[1] # <<t, epoch'[t]>>
  <2>1. a[1][2] <= released[a[1][1]]
    BY DEF GraphInv, ReleasedOK
  <2>2. CASE a[1] = <<t, epoch'[t]>>
    <3>1. epoch'[t] <= released[t]
      BY <2>1, <2>2
    <3> QED BY <1>1, <1>2, <1>3, <3>1
  <2> QED BY <2>2
<1>5. ASSUME NEW a \in es PROVE a[1] # <<t, epoch'[t]>>
  <2>1. PICK v \in Tids \ {t}, s \in Syncs : a = <<<<v, sync[s][v]>>, <<t, epoch'[t]>>>>
    BY DEF Operates
  <2> QED BY <2>1
<1>6. ASSUME NEW r \in Tids \ {t} PROVE clock[r][t] < epoch'[t]
  <2>1. clock[r][t] \in Nat /\ clock[r][t] <= released[t]
    BY DEF GraphInv, ReleasedOK, RecordedInv, RecordedTypeOK
  <2> QED BY <1>1, <1>2, <1>3, <2>1
<1>7. ASSUME NEW s \in Syncs PROVE sync[s][t] < epoch'[t]
  <2>1. sync[s][t] \in Nat /\ sync[s][t] <= released[t]
    BY DEF GraphInv, ReleasedOK, RecordedInv, RecordedTypeOK
  <2> QED BY <1>1, <1>2, <1>3, <2>1
<1> QED BY <1>4, <1>5, <1>6, <1>7

LEMMA ClocksAfter ==
  ASSUME RecordedInv, GraphInv, NEW t \in Tids, NEW own, NEW base, NEW c, NEW es,
         Operates(t, own, base, c, es)
  PROVE  /\ clock'[t] = c /\ c \in [Tids -> Nat] /\ c[t] = epoch'[t]
         /\ \A r \in Tids \ {t} : clock'[r] = clock[r]
         /\ \A u \in Tids : base[u] <= c[u]
         /\ \A u \in Tids : released[u] \in Nat /\ released'[u] \in Nat /\ released[u] <= released'[u]
<1>1. clock' = [clock EXCEPT ![t] = c] /\ c \in [Tids -> Nat] /\ c[t] = epoch'[t]
  BY DEF Operates
<1>2. clock'[t] = c /\ \A r \in Tids \ {t} : clock'[r] = clock[r]
  BY <1>1 DEF RecordedInv, RecordedTypeOK
<1>3. /\ base \in [Tids -> Nat] /\ own = base[t] /\ own <= epoch'[t]
      /\ epoch'[t] \in Nat /\ epoch[t] \in Nat
      /\ own # epoch'[t] => epoch'[t] = epoch[t] + 1
      /\ own = epoch'[t] => epoch'[t] = epoch[t]
  BY BaseIs
<1>4. \A u \in Tids : base[u] <= c[u]
  BY <1>1, <1>3 DEF Operates
<1>5. released \in [Tids -> Nat] /\ released[t] <= epoch[t]
  BY DEF GraphInv, ReleasedOK
<1>6. released' = released \/ released' = [released EXCEPT ![t] = epoch'[t]]
  BY DEF Operates
<1>7. \A u \in Tids : released[u] \in Nat /\ released'[u] \in Nat /\ released[u] <= released'[u]
  BY <1>3, <1>5, <1>6
<1> QED BY <1>1, <1>2, <1>4, <1>7

LEMMA NodesStayOK ==
  ASSUME RecordedInv, GraphInv, NEW t \in Tids, NEW own, NEW base, NEW c, NEW es,
         Operates(t, own, base, c, es)
  PROVE  NodesOK'
<1> DEFINE z == <<t, epoch'[t]>>
<1>1. nodes' = nodes \cup {z} /\ hb' = hb \cup es /\ epoch'[t] # 0
      /\ \A u \in Tids \ {t} : Runs(u)' => Runs(u)
  BY DEF Operates
<1>2. Grows(nodes, hb, z, es)
  BY OperationGrows
<1>3. IsTrace(nodes', hb')
  BY <1>1, <1>2, OrderStays
<1>4. /\ clock'[t] = c /\ c[t] = epoch'[t]
      /\ \A r \in Tids \ {t} : clock'[r] = clock[r]
  BY ClocksAfter
<1>5. epoch'[t] \in Nat /\ epoch[t] \in Nat /\ \A u \in Tids \ {t} : epoch'[u] = epoch[u]
  BY BaseIs
<1>6. \A x \in nodes : x[1] \in Tids /\ x[2] \in Nat /\ (x[1] = t => x[2] <= epoch'[t])
  BY <1>2 DEF Grows, IsTrace
<1>7. ASSUME NEW x \in nodes'
      PROVE  x[2] # 0 /\ x[2] <= epoch'[x[1]] /\ (Runs(x[1])' => x[2] <= clock'[x[1]][x[1]])
  <2>1. CASE x = z
    BY <1>1, <1>4, <1>5, <2>1
  <2>2. CASE x \in nodes /\ x[1] = t
    BY <1>4, <1>6, <2>2 DEF GraphInv, NodesOK
  <2>3. CASE x \in nodes /\ x[1] # t
    <3>1. x[1] \in Tids \ {t}
      BY <1>6, <2>3
    <3>2. x[2] # 0 /\ x[2] <= epoch[x[1]] /\ (Runs(x[1]) => x[2] <= clock[x[1]][x[1]])
      BY <2>3 DEF GraphInv, NodesOK
    <3>3. Runs(x[1])' => Runs(x[1])
      BY <1>1, <3>1
    <3> QED BY <1>4, <1>5, <3>1, <3>2, <3>3
  <2> QED BY <1>1, <2>1, <2>2, <2>3
<1>8. ASSUME NEW u \in Tids, Runs(u)'
      PROVE  clock'[u][u] # 0
  <2>1. CASE u = t
    BY <1>1, <1>4, <2>1
  <2>2. CASE u # t
    BY <1>1, <1>4, <1>8, <2>2 DEF GraphInv, NodesOK
  <2> QED BY <2>1, <2>2
<1> QED BY <1>3, <1>7, <1>8 DEF NodesOK

LEMMA ReleasedStaysOK ==
  ASSUME RecordedInv, GraphInv, NEW t \in Tids, NEW own, NEW base, NEW c, NEW es,
         Operates(t, own, base, c, es)
  PROVE  ReleasedOK'
<1>1. /\ clock'[t] = c /\ c \in [Tids -> Nat] /\ c[t] = epoch'[t]
      /\ \A r \in Tids \ {t} : clock'[r] = clock[r]
      /\ \A u \in Tids : released[u] \in Nat /\ released'[u] \in Nat /\ released[u] <= released'[u]
  BY ClocksAfter
<1>2. /\ epoch'[t] \in Nat /\ epoch[t] \in Nat /\ own \in Nat /\ own <= epoch'[t]
      /\ own # epoch'[t] => epoch'[t] = epoch[t] + 1
      /\ own = epoch'[t] => epoch'[t] = epoch[t]
      /\ \A u \in Tids \ {t} : epoch'[u] = epoch[u]
  BY BaseIs
<1>3. /\ released \in [Tids -> Nat]
      /\ \A u \in Tids : released[u] <= epoch[u]
      /\ \A u \in Tids : \A r \in Tids \ {u} : clock[r][u] <= released[u]
      /\ \A u \in Tids, s \in Syncs : sync[s][u] <= released[u]
      /\ \A a \in hb : a[1][2] <= released[a[1][1]]
  BY DEF GraphInv, ReleasedOK
<1>4. /\ epoch \in [Tids -> Nat] /\ clock \in [Tids -> [Tids -> Nat]]
      /\ sync \in [Syncs -> [Tids -> Nat]]
  BY DEF RecordedInv, RecordedTypeOK
<1>5. released' = released \/ released' = [released EXCEPT ![t] = epoch'[t]]
  BY DEF Operates
<1>6. released' \in [Tids -> Nat]
  BY <1>2, <1>3, <1>5
<1>7. ASSUME NEW u \in Tids PROVE released'[u] <= epoch'[u]
  BY <1>2, <1>3, <1>4, <1>5
<1>8. ASSUME NEW u \in Tids \ {t} PROVE c[u] <= released'[u]
  <2>1. base[u] <= released[u]
    <3>1. Clocks!Nothing[u] = 0
      BY SameTids DEF Clocks!Nothing
    <3>2. base = clock[t] \/ base = Clocks!Nothing
      BY DEF Operates
    <3> QED BY <1>1, <1>3, <3>1, <3>2
  <2>2. c[u] = base[u] \/ \E s \in Syncs : c[u] = sync[s][u]
    BY DEF Operates
  <2>3. c[u] <= released[u]
    BY <1>3, <2>1, <2>2
  <2> QED BY <1>1, <2>3
<1>9. ASSUME NEW u \in Tids, NEW r \in Tids \ {u} PROVE clock'[r][u] <= released'[u]
  <2>1. CASE r = t
    BY <1>1, <1>8, <2>1
  <2>2. CASE r # t
    <3>1. clock'[r][u] <= released[u] /\ clock'[r][u] \in Nat
      BY <1>1, <1>3, <1>4, <2>2
    <3> QED BY <1>1, <3>1
  <2> QED BY <2>1, <2>2
<1>10. ASSUME NEW u \in Tids, NEW s \in Syncs PROVE sync'[s][u] <= released'[u]
  <2>1. sync[s][u] \in Nat /\ sync[s][u] <= released[u]
    BY <1>3, <1>4
  <2>2. sync[s][u] <= released'[u]
    BY <1>1, <2>1
  <2>3. CASE released'[t] = epoch'[t] /\ sync'[s] \in {c, Clocks!Join(sync[s], c)}
    <3>1. c[u] <= released'[u]
      <4>1. CASE u = t
        BY <1>1, <1>2, <2>3, <4>1
      <4>2. CASE u # t
        BY <1>8, <4>2
      <4> QED BY <4>1, <4>2
    <3>2. Clocks!Join(sync[s], c)[u] = sync[s][u] \/ Clocks!Join(sync[s], c)[u] = c[u]
      BY SameTids DEF Clocks!Join, Clocks!Later
    <3> QED BY <2>2, <2>3, <3>1, <3>2
  <2>4. CASE sync'[s] = Clocks!Nothing
    <3>1. Clocks!Nothing[u] = 0
      BY SameTids DEF Clocks!Nothing
    <3> QED BY <1>1, <2>4, <3>1
  <2>5. CASE sync'[s] = sync[s]
    BY <2>2, <2>5
  <2> QED BY <2>3, <2>4, <2>5 DEF Operates
<1>11. ASSUME NEW a \in hb' PROVE a[1][2] <= released'[a[1][1]]
  <2>1. hb' = hb \cup es
    BY DEF Operates
  <2>2. CASE a \in hb
    <3>1. a[1][1] \in Tids /\ a[1][2] \in Nat /\ a[1][2] <= released[a[1][1]]
      BY <1>3, <2>2 DEF GraphInv, NodesOK, IsTrace
    <3> QED BY <1>1, <3>1
  <2>3. CASE a \in es
    <3>1. PICK v \in Tids, s \in Syncs : a = <<<<v, sync[s][v]>>, <<t, epoch'[t]>>>>
      BY <2>3 DEF Operates
    <3>2. sync[s][v] \in Nat /\ sync[s][v] <= released[v]
      BY <1>3, <1>4
    <3>3. a[1][1] = v /\ a[1][2] = sync[s][v]
      BY <3>1
    <3> QED BY <1>1, <3>2, <3>3
  <2> QED BY <2>1, <2>2, <2>3
<1> QED BY <1>6, <1>7, <1>9, <1>10, <1>11 DEF ReleasedOK

LEMMA ClocksStillCome ==
  ASSUME RecordedInv, GraphInv, NEW t \in Tids, NEW own, NEW base, NEW c, NEW es,
         Operates(t, own, base, c, es)
  PROVE  ClocksCome'
<1>1. /\ clock'[t] = c /\ c \in [Tids -> Nat] /\ c[t] = epoch'[t]
      /\ \A r \in Tids \ {t} : clock'[r] = clock[r]
  BY ClocksAfter
<1>2. epoch'[t] \in Nat /\ own \in Nat /\ own <= epoch'[t]
  BY BaseIs
<1>3. hb' = hb \cup es
  BY DEF Operates
<1>4. \A r, u \in Tids : u # r /\ clock[r][u] # 0 =>
        \E m \in Nat : m <= clock[r][r] /\ <<<<u, clock[r][u]>>, <<r, m>>>> \in hb
  BY DEF GraphInv, ClocksCome
<1>5. SUFFICES ASSUME NEW r \in Tids, NEW u \in Tids, u # r, clock'[r][u] # 0
               PROVE  \E m \in Nat : m <= clock'[r][r] /\ <<<<u, clock'[r][u]>>, <<r, m>>>> \in hb'
  BY DEF ClocksCome
<1>6. CASE r # t
  BY <1>1, <1>3, <1>4, <1>5, <1>6
<1>7. CASE r = t
  <2>1. c[u] # 0
    BY <1>1, <1>5, <1>7
  <2>2. CASE c[u] = base[u]
    <3>1. Clocks!Nothing[u] = 0
      BY SameTids DEF Clocks!Nothing
    <3>2. base = clock[t] /\ own = clock[t][t]
      BY <2>1, <2>2, <3>1 DEF Operates
    <3>3. PICK m \in Nat : m <= own /\ <<<<u, c[u]>>, <<t, m>>>> \in hb
      BY <1>4, <1>5, <1>7, <2>1, <2>2, <3>2
    <3>4. m <= epoch'[t]
      BY <1>2, <3>3
    <3> QED BY <1>1, <1>3, <1>7, <3>3, <3>4
  <2>3. CASE <<<<u, c[u]>>, <<t, epoch'[t]>>>> \in es
    <3>1. epoch'[t] <= c[t] /\ <<<<u, c[u]>>, <<t, epoch'[t]>>>> \in hb'
      BY <1>1, <1>2, <1>3, <2>3
    <3> QED BY <1>1, <1>2, <1>7, <3>1
  <2> QED BY <1>5, <1>7, <2>2, <2>3 DEF Operates
<1> QED BY <1>6, <1>7

LEMMA ClocksStillReach ==
  ASSUME RecordedInv, GraphInv, NEW t \in Tids, NEW own, NEW base, NEW c, NEW es,
         Operates(t, own, base, c, es)
  PROVE  ClocksReach'
<1> DEFINE z == <<t, epoch'[t]>>
           Q == PathsIn(nodes', hb')
<1>1. /\ clock'[t] = c /\ c \in [Tids -> Nat] /\ c[t] = epoch'[t]
      /\ \A r \in Tids \ {t} : clock'[r] = clock[r]
  BY ClocksAfter
<1>2. nodes' = nodes \cup {z} /\ hb' = hb \cup es
      /\ \A u \in Tids \ {t} : Runs(u)' => Runs(u)
  BY DEF Operates
<1>3. Grows(nodes, hb, z, es)
  BY OperationGrows
<1>4. PathsIn(nodes, hb) \subseteq Q /\ IsTrace(nodes', hb')
  BY <1>2, <1>3, PathsStay, OrderStays
<1>5. ArcsOf(nodes', hb') \subseteq Q /\ IsClosed(Q)
  BY <1>4, PathsInDo
<1> HIDE DEF Q
<1>6. \A r, u \in Tids : Runs(r) /\ u # r /\ clock[r][u] # 0 =>
        <<<<u, clock[r][u]>>, <<r, clock[r][r]>>>> \in PathsIn(nodes, hb)
  BY DEF GraphInv, ClocksReach
<1>7. SUFFICES ASSUME NEW r \in Tids, NEW u \in Tids, Runs(r)', u # r, clock'[r][u] # 0
               PROVE  <<<<u, clock'[r][u]>>, <<r, clock'[r][r]>>>> \in Q
  BY DEF ClocksReach, Q
<1>8. CASE r # t
  BY <1>1, <1>2, <1>4, <1>6, <1>7, <1>8
<1>9. CASE r = t
  <2>1. c[u] # 0
    BY <1>1, <1>7, <1>9
  <2>2. CASE c[u] = base[u]
    <3>1. Clocks!Nothing[u] = 0
      BY SameTids DEF Clocks!Nothing
    <3>2. Runs(t) /\ base = clock[t] /\ own = clock[t][t]
      BY <2>1, <2>2, <3>1 DEF Operates
    <3>3. <<<<u, c[u]>>, <<t, own>>>> \in Q
      BY <1>4, <1>6, <1>7, <1>9, <2>1, <2>2, <3>2
    <3>4. CASE own = epoch'[t]
      BY <1>1, <1>9, <3>3, <3>4
    <3>5. CASE own # epoch'[t]
      <4>1. own \in Nat /\ epoch'[t] \in Nat /\ own <= epoch'[t] /\ own # 0
        BY <3>2, BaseIs DEF GraphInv, NodesOK
      <4>2. <<t, own>> \in nodes
        BY <3>2, <4>1 DEF RecordedInv, ClocksAreHeard, HeardClock
      <4>3. \A x \in nodes : x[1] = t => x[2] <= own
        BY <3>2 DEF GraphInv, NodesOK
      <4>4. Follows(nodes', <<t, own>>, z)
        <5>1. \A x \in nodes' : x[1] = t => x[2] <= own \/ epoch'[t] <= x[2]
          BY <1>2, <4>1, <4>3
        <5> QED BY <3>5, <4>1, <5>1 DEF Follows
      <4>5. <<<<t, own>>, z>> \in ArcsOf(nodes', hb')
        BY <1>2, <1>4, <4>2, <4>4, ArcsDo
      <4>6. <<<<u, c[u]>>, z>> \in Q
        BY <1>5, <3>3, <4>5 DEF IsClosed
      <4> QED BY <1>1, <1>9, <4>6
    <3> QED BY <3>4, <3>5
  <2>3. CASE <<<<u, c[u]>>, <<t, epoch'[t]>>>> \in es
    <3>1. <<<<u, c[u]>>, z>> \in ArcsOf(nodes', hb')
      BY <1>2, <2>3 DEF ArcsOf
    <3> QED BY <1>1, <1>5, <1>9, <3>1
  <2> QED BY <1>7, <1>9, <2>2, <2>3 DEF Operates
<1> QED BY <1>8, <1>9

(* The paths after an operation of t that mixes nothing. *)
LEMMA PathsAfter ==
  ASSUME RecordedInv, GraphInv, NEW t \in Tids, NEW own, NEW base, NEW c, NEW es,
         Operates(t, own, base, c, es), ~ mixed'
  PROVE  LET z == <<t, epoch'[t]>>
             P == PathsIn(nodes, hb)
             Q == PathsIn(nodes', hb')
         IN  /\ \A x, y : <<x, y>> \in Q /\ y # z => <<x, y>> \in P
             /\ \A x : <<x, z>> \in Q =>
                  \/ own = epoch'[t] /\ <<x, z>> \in P
                  \/ \E a \in es : x = a[1] \/ <<x, a[1]>> \in P
                  \/ own # epoch'[t] /\ \E w \in nodes :
                       Follows(nodes', w, z) /\ (x = w \/ <<x, w>> \in P)
             /\ \/ own = epoch'[t] /\ Q = P
                \/ /\ \A y : <<z, y>> \notin Q
                   /\ \A r \in Tids \ {t} : clock[r][t] # epoch'[t]
                   /\ \A s \in Syncs : sync[s][t] # epoch'[t]
<1> DEFINE z == <<t, epoch'[t]>>
           P == PathsIn(nodes, hb)
           Q == PathsIn(nodes', hb')
<1>1. nodes' = nodes \cup {z} /\ hb' = hb \cup es
      /\ (es = {} \/ released[t] # epoch'[t])
  BY DEF Operates
<1>2. Grows(nodes, hb, z, es) /\ (own # epoch'[t] => z \notin nodes) /\ IsTrace(nodes, hb)
  BY OperationGrows DEF GraphInv, NodesOK
<1>3. own = epoch'[t] => z \in nodes
  <2>1. ASSUME own = epoch'[t] PROVE base = clock[t] /\ own = clock[t][t] /\ own # 0
    BY <2>1, BaseIs DEF Operates
  <2> QED BY <2>1 DEF RecordedInv, ClocksAreHeard, HeardClock
<1>4. CASE own = epoch'[t] /\ es = {}
  <2>1. nodes' = nodes /\ hb' = hb
    BY <1>1, <1>3, <1>4
  <2>2. Q = P
    BY <2>1
  <2> QED BY <1>4, <2>2
<1>5. CASE own # epoch'[t] \/ released[t] # epoch'[t]
  <2>1. /\ \A a \in hb \cup es : a[1] # z
        /\ \A r \in Tids \ {t} : clock[r][t] < epoch'[t]
        /\ \A s \in Syncs : sync[s][t] < epoch'[t]
    BY <1>5, NothingLeaves
  <2>2. /\ \A x, y : <<x, y>> \in Q /\ y # z => <<x, y>> \in P
        /\ \A y : <<z, y>> \notin Q
        /\ \A x : <<x, z>> \in Q =>
             \E w \in nodes : /\ <<w, z>> \in hb \cup es \/ Follows(nodes', w, z)
                              /\ x = w \/ <<x, w>> \in P
    BY <1>1, <1>2, <2>1, PathsEndThere
  <2>3. ArcsOf(nodes, hb) \subseteq P /\ IsClosed(P)
    BY <1>2, PathsInDo
  <2> HIDE DEF P, Q
  <2>4. ASSUME NEW x, <<x, z>> \in Q
        PROVE  \/ own = epoch'[t] /\ <<x, z>> \in P
               \/ \E a \in es : x = a[1] \/ <<x, a[1]>> \in P
               \/ own # epoch'[t] /\ \E w \in nodes :
                    Follows(nodes', w, z) /\ (x = w \/ <<x, w>> \in P)
    <3>1. PICK w \in nodes : /\ <<w, z>> \in hb \cup es \/ Follows(nodes', w, z)
                             /\ x = w \/ <<x, w>> \in P
      BY <2>2, <2>4
    <3>2. CASE <<w, z>> \in es
      <4>1. <<w, z>>[1] = w
        OBVIOUS
      <4> QED BY <3>1, <3>2, <4>1
    <3>3. CASE own # epoch'[t] /\ <<w, z>> \in hb
      BY <1>2, <3>3 DEF IsTrace
    <3>4. CASE own # epoch'[t] /\ Follows(nodes', w, z)
      BY <3>1, <3>4
    <3>5. CASE own = epoch'[t] /\ (<<w, z>> \in hb \/ Follows(nodes', w, z))
      <4>1. nodes' = nodes
        BY <1>1, <1>3, <3>5
      <4>2. <<w, z>> \in ArcsOf(nodes, hb)
        BY <1>2, <1>3, <3>5, <4>1, ArcsDo
      <4>3. <<x, z>> \in P
        BY <2>3, <3>1, <4>2 DEF IsClosed
      <4> QED BY <3>5, <4>3
    <3> QED BY <3>1, <3>2, <3>3, <3>4, <3>5
  <2>5. /\ \A r \in Tids \ {t} : clock[r][t] # epoch'[t]
        /\ \A s \in Syncs : sync[s][t] # epoch'[t]
    <3>1. epoch'[t] \in Nat
      BY BaseIs
    <3> QED BY <2>1, <3>1
  <2> QED BY <2>2, <2>4, <2>5 DEF P, Q
<1> QED BY <1>1, <1>4, <1>5

LEMMA StaysAcyclic ==
  ASSUME RecordedInv, GraphInv, NEW t \in Tids, NEW own, NEW base, NEW c, NEW es,
         Operates(t, own, base, c, es)
  PROVE  IsAcyclic'
<1> DEFINE z == <<t, epoch'[t]>>
           P == PathsIn(nodes, hb)
           Q == PathsIn(nodes', hb')
<1>1. SUFFICES ASSUME ~ mixed', NEW n PROVE <<n, n>> \notin Q
  BY DEF IsAcyclic
<1>2. /\ \A x, y : <<x, y>> \in Q /\ y # z => <<x, y>> \in P
      /\ Q = P \/ \A y : <<z, y>> \notin Q
  BY <1>1, PathsAfter
<1>3. <<n, n>> \notin P
  BY <1>1 DEF GraphInv, IsAcyclic, Operates
<1> HIDE DEF P, Q
<1> QED BY <1>2, <1>3

(* Where the thread was before the epoch it starts. *)
LEMMA ComesFromOwn ==
  ASSUME RecordedInv, GraphInv, NEW t \in Tids, NEW own, NEW base, NEW c, NEW es,
         Operates(t, own, base, c, es), ~ reused', own # epoch'[t],
         NEW w \in nodes, Follows(nodes', w, <<t, epoch'[t]>>)
  PROVE  base = clock[t] /\ own = clock[t][t] /\ w = <<t, own>>
<1>1. w[1] = t /\ w = <<w[1], w[2]>> /\ w[2] \in Nat /\ w[2] # 0 /\ w[2] <= epoch[t]
  BY DEF GraphInv, NodesOK, IsTrace, Follows
<1>2. epoch[t] \in Nat
  BY DEF RecordedInv, RecordedTypeOK
<1>3. epoch[t] # 0
  BY <1>1, <1>2
<1>4. Runs(t) /\ base = clock[t] /\ own = clock[t][t]
  BY <1>3 DEF Operates
<1>5. own \in Nat /\ own <= epoch'[t] /\ epoch'[t] \in Nat /\ own # 0
  BY <1>4, BaseIs DEF GraphInv, NodesOK
<1>6. w[2] <= own
  BY <1>1, <1>4 DEF GraphInv, NodesOK
<1>7. <<t, own>> \in nodes
  BY <1>4, <1>5 DEF RecordedInv, ClocksAreHeard, HeardClock
<1>8. nodes \subseteq nodes'
  BY DEF Operates
<1>9. own <= w[2] \/ epoch'[t] <= own
  BY <1>1, <1>7, <1>8 DEF Follows
<1>10. w[2] = own
  BY <1>1, <1>5, <1>6, <1>9
<1> QED BY <1>1, <1>4, <1>10

LEMMA JoinCovers ==
  ASSUME NEW p, NEW c \in [Tids -> Nat], NEW d \in [Tids -> Nat],
         CoversIn(c, p), CoversIn(d, p), p \subseteq (Tids \X Nat) \X (Tids \X Nat)
  PROVE  CoversIn(Clocks!Join(c, d), p)
<1> DEFINE j == Clocks!Join(c, d)
<1>1. \A u \in Tids : /\ j[u] \in Nat /\ c[u] <= j[u] /\ d[u] <= j[u]
                      /\ j[u] = c[u] \/ j[u] = d[u]
  BY SameTids DEF Clocks!Join, Clocks!Later
<1> HIDE DEF j
<1>2. ASSUME NEW u \in Tids, NEW x, <<x, <<u, j[u]>>>> \in p PROVE x[2] <= j[x[1]]
  <2>1. x[1] \in Tids /\ x[2] \in Nat
    BY <1>2
  <2>2. x[2] <= c[x[1]] \/ x[2] <= d[x[1]]
    BY <1>1, <1>2 DEF CoversIn
  <2>3. c[x[1]] \in Nat /\ d[x[1]] \in Nat /\ j[x[1]] \in Nat
        /\ c[x[1]] <= j[x[1]] /\ d[x[1]] <= j[x[1]]
    BY <1>1, <2>1
  <2> QED BY <2>1, <2>2, <2>3
<1> QED BY <1>2 DEF CoversIn, j

LEMMA NothingCovers ==
  ASSUME NEW ns, NEW h, IsTrace(ns, h), \A n \in ns : n[2] # 0
  PROVE  CoversIn(Clocks!Nothing, PathsIn(ns, h))
<1>1. ASSUME NEW u \in Tids, NEW x, <<x, <<u, Clocks!Nothing[u]>>>> \in PathsIn(ns, h)
      PROVE  FALSE
  <2>1. Clocks!Nothing[u] = 0
    BY SameTids DEF Clocks!Nothing
  <2>2. PathsIn(ns, h) \subseteq ns \X ns
    BY PathsInDo
  <2>3. <<u, 0>> \in ns
    BY <1>1, <2>1, <2>2
  <2>4. <<u, 0>>[2] # 0
    BY <2>3
  <2> QED BY <2>4
<1> QED BY <1>1 DEF CoversIn

(* What has not heard of the operation covers the paths after it. *)
LEMMA StillCovers ==
  ASSUME RecordedInv, GraphInv, NEW t \in Tids, NEW own, NEW base, NEW c, NEW es,
         Operates(t, own, base, c, es), ~ mixed',
         NEW d, CoversIn(d, PathsIn(nodes, hb)),
         d[t] = epoch'[t] => PathsIn(nodes', hb') = PathsIn(nodes, hb)
  PROVE  CoversIn(d, PathsIn(nodes', hb'))
<1> DEFINE z == <<t, epoch'[t]>>
           P == PathsIn(nodes, hb)
           Q == PathsIn(nodes', hb')
<1>1. \A x, y : <<x, y>> \in Q /\ y # z => <<x, y>> \in P
  BY PathsAfter
<1> HIDE DEF P, Q
<1>2. ASSUME NEW u \in Tids, NEW x, <<x, <<u, d[u]>>>> \in Q PROVE x[2] <= d[x[1]]
  <2>1. CASE <<u, d[u]>> = z
    <3>1. u = t /\ d[t] = epoch'[t]
      BY <2>1
    <3> QED BY <1>2, <3>1 DEF CoversIn, P, Q
  <2>2. CASE <<u, d[u]>> # z
    BY <1>1, <1>2, <2>2 DEF CoversIn, P
  <2> QED BY <2>1, <2>2
<1> QED BY <1>2 DEF CoversIn, Q

(* The clock of the operation covers the paths into its epoch. *)
LEMMA OwnCovers ==
  ASSUME RecordedInv, GraphInv, NEW t \in Tids, NEW own, NEW base, NEW c, NEW es,
         Operates(t, own, base, c, es), ~ mixed', ~ reused'
  PROVE  CoversIn(c, PathsIn(nodes', hb'))
<1> DEFINE z == <<t, epoch'[t]>>
           P == PathsIn(nodes, hb)
           Q == PathsIn(nodes', hb')
<1>1. /\ \A x, y : <<x, y>> \in Q /\ y # z => <<x, y>> \in P
      /\ \A x : <<x, z>> \in Q =>
           \/ own = epoch'[t] /\ <<x, z>> \in P
           \/ \E a \in es : x = a[1] \/ <<x, a[1]>> \in P
           \/ own # epoch'[t] /\ \E w \in nodes :
                Follows(nodes', w, z) /\ (x = w \/ <<x, w>> \in P)
  BY PathsAfter
<1>2. NodesOK' /\ NodesOK
  BY NodesStayOK DEF GraphInv
<1>3. Q \subseteq nodes' \X nodes' /\ IsTrace(nodes', hb')
  BY <1>2, PathsInDo DEF NodesOK
<1>4. P \subseteq nodes \X nodes /\ IsTrace(nodes, hb)
  BY <1>2, PathsInDo DEF NodesOK
<1>5. ~ mixed /\ ~ reused
  BY DEF Operates
<1>6. /\ \A r \in Tids : CoversIn(clock[r], P)
      /\ \A s \in Syncs : CoversIn(sync[s], P)
  BY <1>5 DEF GraphInv, ClocksCover
<1> HIDE DEF P, Q
<1>7. /\ c \in [Tids -> Nat] /\ c[t] = epoch'[t]
      /\ \A u \in Tids : base[u] <= c[u]
  BY ClocksAfter
<1>8. base \in [Tids -> Nat] /\ own = base[t] /\ own <= epoch'[t]
      /\ own \in Nat /\ epoch'[t] \in Nat
  BY BaseIs
<1>9. sync \in [Syncs -> [Tids -> Nat]]
  BY DEF RecordedInv, RecordedTypeOK
<1>10. \A a \in es : \E v \in Tids \ {t}, s \in Syncs :
         /\ a = <<<<v, sync[s][v]>>, z>>
         /\ \A u \in Tids : sync[s][u] <= c[u]
  BY DEF Operates
<1>11. ASSUME NEW x, NEW a \in es, x = a[1] \/ <<x, a[1]>> \in P
       PROVE  x[2] <= c[x[1]]
  <2>1. PICK v \in Tids \ {t}, s \in Syncs :
          /\ a = <<<<v, sync[s][v]>>, z>>
          /\ \A u \in Tids : sync[s][u] <= c[u]
    BY <1>10
  <2>2. a[1] = <<v, sync[s][v]>>
    BY <2>1
  <2>3. CASE x = a[1]
    BY <2>1, <2>2, <2>3
  <2>4. CASE <<x, a[1]>> \in P
    <3>1. x[2] <= sync[s][x[1]]
      BY <1>6, <2>2, <2>4 DEF CoversIn
    <3>2. x[1] \in Tids /\ x[2] \in Nat
      BY <1>4, <2>4 DEF IsTrace
    <3>3. sync[s][x[1]] \in Nat /\ c[x[1]] \in Nat /\ sync[s][x[1]] <= c[x[1]]
      BY <1>7, <1>9, <2>1, <3>2
    <3> QED BY <3>1, <3>2, <3>3
  <2> QED BY <1>11, <2>3, <2>4
<1>12. ASSUME NEW x, NEW u \in Tids, base = clock[t], <<x, <<u, base[u]>>>> \in P
       PROVE  x[2] <= c[x[1]]
  <2>1. x[2] <= base[x[1]]
    BY <1>6, <1>12 DEF CoversIn
  <2>2. x[1] \in Tids /\ x[2] \in Nat
    BY <1>4, <1>12 DEF IsTrace
  <2>3. base[x[1]] \in Nat /\ c[x[1]] \in Nat /\ base[x[1]] <= c[x[1]]
    BY <1>7, <1>8, <2>2
  <2> QED BY <2>1, <2>2, <2>3
<1>13. ASSUME NEW x, <<x, z>> \in Q
       PROVE  x[2] <= c[x[1]]
  <2>1. CASE own = epoch'[t] /\ <<x, z>> \in P
    <3>1. base = clock[t] /\ base[t] = epoch'[t]
      BY <1>8, <2>1, BaseIs
    <3> QED BY <1>12, <2>1, <3>1
  <2>2. CASE \E a \in es : x = a[1] \/ <<x, a[1]>> \in P
    BY <1>11, <2>2
  <2>3. CASE own # epoch'[t] /\ \E w \in nodes : Follows(nodes', w, z) /\ (x = w \/ <<x, w>> \in P)
    <3>1. PICK w \in nodes : Follows(nodes', w, z) /\ (x = w \/ <<x, w>> \in P)
      BY <2>3
    <3>2. base = clock[t] /\ own = clock[t][t] /\ w = <<t, own>>
      BY <2>3, <3>1, ComesFromOwn
    <3>3. CASE x = w
      BY <1>7, <1>8, <3>2, <3>3
    <3>4. CASE <<x, w>> \in P
      BY <1>8, <1>12, <3>2, <3>4
    <3> QED BY <3>1, <3>3, <3>4
  <2> QED BY <1>1, <1>13, <2>1, <2>2, <2>3
<1>14. ASSUME NEW u \in Tids \ {t}, NEW x, <<x, <<u, c[u]>>>> \in Q
       PROVE  x[2] <= c[x[1]]
  <2>1. <<x, <<u, c[u]>>>> \in P
    <3>1. <<u, c[u]>> # z
      OBVIOUS
    <3> QED BY <1>1, <1>14, <3>1
  <2>2. CASE c[u] = base[u]
    <3>1. c[u] # 0
      <4>1. <<u, c[u]>> \in nodes
        BY <1>4, <2>1
      <4>2. <<u, c[u]>>[2] # 0
        BY <1>2, <4>1 DEF NodesOK
      <4> QED BY <4>2
    <3>2. Clocks!Nothing[u] = 0
      BY SameTids DEF Clocks!Nothing
    <3>3. base = clock[t]
      BY <2>2, <3>1, <3>2 DEF Operates
    <3> QED BY <1>12, <2>1, <2>2, <3>3
  <2>3. CASE <<<<u, c[u]>>, z>> \in es
    <3>1. <<<<u, c[u]>>, z>>[1] = <<u, c[u]>>
      OBVIOUS
    <3> QED BY <1>11, <2>1, <2>3, <3>1
  <2> QED BY <2>2, <2>3 DEF Operates
<1>15. ASSUME NEW u \in Tids, NEW x, <<x, <<u, c[u]>>>> \in Q
       PROVE  x[2] <= c[x[1]]
  BY <1>7, <1>13, <1>14, <1>15
<1> QED BY <1>15 DEF CoversIn, Q

LEMMA ClocksStillCover ==
  ASSUME RecordedInv, GraphInv, NEW t \in Tids, NEW own, NEW base, NEW c, NEW es,
         Operates(t, own, base, c, es)
  PROVE  ClocksCover'
<1> DEFINE P == PathsIn(nodes, hb)
           Q == PathsIn(nodes', hb')
<1>1. SUFFICES ASSUME ~ mixed', ~ reused'
               PROVE  /\ \A r \in Tids : CoversIn(clock'[r], Q)
                      /\ \A s \in Syncs : CoversIn(sync'[s], Q)
  BY DEF ClocksCover, CoversIn
<1>2. ~ mixed /\ ~ reused
  BY <1>1 DEF Operates
<1>3. /\ \A r \in Tids : CoversIn(clock[r], P)
      /\ \A s \in Syncs : CoversIn(sync[s], P)
  BY <1>2 DEF GraphInv, ClocksCover
<1>4. \/ Q = P
      \/ /\ \A r \in Tids \ {t} : clock[r][t] # epoch'[t]
         /\ \A s \in Syncs : sync[s][t] # epoch'[t]
  BY <1>1, PathsAfter
<1>5. CoversIn(c, Q)
  BY <1>1, OwnCovers
<1>6. /\ clock'[t] = c /\ c \in [Tids -> Nat]
      /\ \A r \in Tids \ {t} : clock'[r] = clock[r]
  BY ClocksAfter
<1>7. NodesOK'
  BY NodesStayOK
<1>8. Q \subseteq (Tids \X Nat) \X (Tids \X Nat)
  <2>1. Q \subseteq nodes' \X nodes' /\ nodes' \subseteq Tids \X Nat
    BY <1>7, PathsInDo DEF NodesOK, IsTrace
  <2> HIDE DEF Q
  <2> QED BY <2>1
<1>9. CoversIn(Clocks!Nothing, Q)
  BY <1>7, NothingCovers DEF NodesOK
<1>10. ASSUME NEW d, CoversIn(d, P), Q = P \/ d[t] # epoch'[t]
       PROVE  CoversIn(d, Q)
  BY <1>1, <1>10, StillCovers
<1> HIDE DEF P, Q
<1>11. ASSUME NEW r \in Tids PROVE CoversIn(clock'[r], Q)
  <2>1. CASE r = t
    BY <1>5, <1>6, <2>1
  <2>2. CASE r # t
    BY <1>3, <1>4, <1>6, <1>10, <2>2
  <2> QED BY <2>1, <2>2
<1>12. \A s \in Syncs : CoversIn(sync[s], Q)
  BY <1>3, <1>4, <1>10
<1>13. ASSUME NEW s \in Syncs PROVE CoversIn(sync'[s], Q)
  <2>1. sync[s] \in [Tids -> Nat]
    BY DEF RecordedInv, RecordedTypeOK
  <2>2. CoversIn(Clocks!Join(sync[s], c), Q)
    BY <1>5, <1>6, <1>8, <1>12, <2>1, JoinCovers
  <2> QED BY <1>5, <1>9, <1>12, <2>2 DEF Operates
<1> QED BY <1>11, <1>13

LEMMA EdgesStayNews ==
  ASSUME RecordedInv, GraphInv, NEW t \in Tids, NEW own, NEW base, NEW c, NEW es,
         Operates(t, own, base, c, es)
  PROVE  EdgesAreNews'
<1> DEFINE z == <<t, epoch'[t]>>
           P == PathsIn(nodes, hb)
           Q == PathsIn(nodes', hb')
<1>1. SUFFICES ASSUME ~ mixed', ~ reused', NEW e \in hb', NEW n \in nodes',
                      Follows(nodes', n, e[2]), <<e[1], n>> \in Q
               PROVE  FALSE
  BY DEF EdgesAreNews
<1>2. ~ mixed /\ ~ reused /\ nodes' = nodes \cup {z} /\ hb' = hb \cup es
  BY <1>1 DEF Operates
<1>3. Grows(nodes, hb, z, es) /\ IsTrace(nodes, hb)
  BY OperationGrows DEF GraphInv, NodesOK
<1>3a. /\ IsTrace(nodes', hb')
       /\ \A m, k \in nodes : Follows(nodes', m, k) <=> Follows(nodes, m, k)
       /\ \A k \in nodes' : ~ Follows(nodes', z, k)
  BY <1>2, <1>3, OrderStays
<1>4. n # z /\ n \in nodes
  <2>1. e[2] \in nodes'
    <3>1. e \in nodes' \X nodes'
      BY <1>1, <1>3a DEF IsTrace
    <3> QED BY <3>1
  <2>2. ~ Follows(nodes', z, e[2])
    BY <1>3a, <2>1
  <2> QED BY <1>1, <1>2, <2>2
<1>5. <<e[1], n>> \in P
  BY <1>1, <1>4, PathsAfter
<1>6. CASE e \in hb
  <2>1. e[2] \in nodes
    <3>1. e \in nodes \X nodes
      BY <1>3, <1>6 DEF IsTrace
    <3> QED BY <3>1
  <2>2. Follows(nodes, n, e[2])
    BY <1>1, <1>3a, <1>4, <2>1
  <2> QED BY <1>2, <1>4, <1>5, <1>6, <2>2 DEF GraphInv, EdgesAreNews
<1>7. CASE e \in es
  <2>1. PICK v \in Tids \ {t}, s \in Syncs : e = <<<<v, sync[s][v]>>, z>> /\ base[v] < sync[s][v]
    BY <1>7 DEF Operates
  <2>2. e[1] = <<v, sync[s][v]>> /\ e[2] = z
    BY <2>1
  <2>3. sync[s][v] \in Nat /\ base[v] \in Nat
    BY BaseIs DEF RecordedInv, RecordedTypeOK
  <2>4. base = clock[t] /\ own = clock[t][t] /\ <<e[1], <<t, own>>>> \in P
    <3>1. CASE own = epoch'[t]
      <4>1. base = clock[t] /\ own = clock[t][t] /\ own # 0
        BY <3>1, BaseIs DEF Operates
      <4>2. z \in nodes /\ nodes' = nodes
        <5>1. z \in nodes
          BY <3>1, <4>1 DEF RecordedInv, ClocksAreHeard, HeardClock
        <5> QED BY <1>2, <5>1
      <4>3. <<n, z>> \in ArcsOf(nodes, hb)
        BY <1>1, <1>3, <1>4, <2>2, <4>2, ArcsDo
      <4>4. ArcsOf(nodes, hb) \subseteq P /\ IsClosed(P)
        BY <1>3, PathsInDo
      <4> HIDE DEF P
      <4>5. <<e[1], z>> \in P
        BY <1>5, <4>3, <4>4 DEF IsClosed
      <4> QED BY <3>1, <4>1, <4>5
    <3>2. CASE own # epoch'[t]
      <4>1. base = clock[t] /\ own = clock[t][t] /\ n = <<t, own>>
        BY <1>1, <1>4, <2>2, <3>2, ComesFromOwn
      <4> QED BY <1>5, <4>1
    <3> QED BY <3>1, <3>2
  <2>5. CoversIn(clock[t], P)
    BY <1>2 DEF GraphInv, ClocksCover
  <2> HIDE DEF P
  <2>6. e[1][2] <= clock[t][e[1][1]]
    BY <2>4, <2>5 DEF CoversIn
  <2>7. sync[s][v] <= base[v]
    BY <2>2, <2>4, <2>6
  <2> QED BY <2>1, <2>3, <2>7
<1> QED BY <1>1, <1>2, <1>6, <1>7

LEMMA PathsStayDirect ==
  ASSUME RecordedInv, GraphInv, NEW t \in Tids, NEW own, NEW base, NEW c, NEW es,
         Operates(t, own, base, c, es)
  PROVE  PathsAreDirect'
<1> DEFINE z == <<t, epoch'[t]>>
           P == PathsIn(nodes, hb)
           Q == PathsIn(nodes', hb')
<1>1. SUFFICES ASSUME ~ mixed', ~ reused', NEW x, NEW y, <<x, y>> \in Q, x[1] # y[1]
               PROVE  \E e \in hb' : /\ e[1][1] = x[1] /\ x[2] <= e[1][2]
                                     /\ e[2][1] = y[1] /\ e[2][2] <= y[2]
  BY DEF PathsAreDirect
<1>2. ~ mixed /\ ~ reused /\ hb' = hb \cup es
  BY <1>1 DEF Operates
<1>3. CASE y # z
  <2>1. <<x, y>> \in P
    BY <1>1, <1>3, PathsAfter
  <2> HIDE DEF P
  <2>2. PICK e \in hb : /\ e[1][1] = x[1] /\ x[2] <= e[1][2]
                        /\ e[2][1] = y[1] /\ e[2][2] <= y[2]
    BY <1>1, <1>2, <2>1 DEF GraphInv, PathsAreDirect, P
  <2> QED BY <1>2, <2>2
<1>4. CASE y = z
  <2>1. CoversIn(c, Q)
    BY <1>1, OwnCovers
  <2>2. clock'[t] = c /\ c \in [Tids -> Nat] /\ c[t] = epoch'[t]
    BY ClocksAfter
  <2>3. x[2] <= c[x[1]]
    BY <1>1, <1>4, <2>1, <2>2 DEF CoversIn
  <2>4. x[1] \in Tids /\ x[2] \in Nat /\ x[2] # 0
    <3>1. NodesOK'
      BY NodesStayOK
    <3>2. Q \subseteq nodes' \X nodes'
      BY <3>1, PathsInDo DEF NodesOK
    <3> HIDE DEF Q
    <3>3. x \in nodes'
      BY <1>1, <3>2
    <3> QED BY <3>1, <3>3 DEF NodesOK, IsTrace
  <2>5. c[x[1]] # 0 /\ c[x[1]] \in Nat
    BY <2>2, <2>3, <2>4
  <2>6. x[1] # t
    BY <1>1, <1>4
  <2>7. ClocksCome'
    BY ClocksStillCome
  <2>8. PICK m \in Nat : m <= c[t] /\ <<<<x[1], c[x[1]]>>, <<t, m>>>> \in hb'
    BY <2>2, <2>4, <2>5, <2>6, <2>7 DEF ClocksCome
  <2> DEFINE e == <<<<x[1], c[x[1]]>>, <<t, m>>>>
  <2>9. e[1][1] = x[1] /\ e[1][2] = c[x[1]] /\ e[2][1] = t /\ e[2][2] = m
    OBVIOUS
  <2>10. y[1] = t /\ y[2] = c[t]
    BY <1>4, <2>2
  <2>11. e \in hb'
    BY <2>8
  <2> HIDE DEF e
  <2> QED BY <2>3, <2>8, <2>9, <2>10, <2>11
<1> QED BY <1>3, <1>4

LEMMA OperationKeepsGraph ==
  ASSUME RecordedInv, GraphInv, NEW t \in Tids, NEW own, NEW base, NEW c, NEW es,
         Operates(t, own, base, c, es)
  PROVE  GraphInv'
BY NodesStayOK, ReleasedStaysOK, ClocksStillCome, ClocksStillReach, StaysAcyclic,
   ClocksStillCover, EdgesStayNews, PathsStayDirect DEF GraphInv

--------------------------------------------------------------------------------
(* Each operation is such an operation *)

Lines(E) == {<<<<e[1], e[2]>>, <<e[3], e[4]>>>> : e \in E}

(* c is the clock b after an acquire of s, and L are the edges that tell.  *)
Tells(t, n, b, c, s, L) ==
  /\ c \in [Tids -> Nat] /\ c[t] = n
  /\ \A u \in Tids : b[u] <= c[u] /\ sync[s][u] <= c[u]
  /\ \A u \in Tids \ {t} :
       c[u] = b[u] \/ (c[u] = sync[s][u] /\ <<<<u, c[u]>>, <<t, n>>>> \in L)
  /\ \A a \in L : \E v \in Tids \ {t} :
       a = <<<<v, sync[s][v]>>, <<t, n>>>> /\ b[v] < sync[s][v]

LEMMA JoinTells ==
  ASSUME RecordedInv, NEW t \in Tids, NEW n \in Nat, epoch[t] <= n,
         NEW b \in [Tids -> Nat], b[t] = n, NEW s \in Syncs
  PROVE  Tells(t, n, b, Clocks!Join(b, sync[s]), s,
               Lines(Clocks!Edges(t, b, Clocks!Join(b, sync[s]))))
<1> DEFINE c == Clocks!Join(b, sync[s])
           E == Clocks!Edges(t, b, c)
<1>1. sync[s] \in [Tids -> Nat] /\ sync[s][t] <= epoch[t] /\ epoch[t] \in Nat
  BY DEF RecordedInv, RecordedTypeOK, ClocksAreHeard, HeardClock
<1>2. /\ c \in [Tids -> Nat]
      /\ \A u \in Tids : /\ b[u] <= c[u] /\ sync[s][u] <= c[u]
                         /\ b[u] < sync[s][u] => c[u] = sync[s][u]
                         /\ ~ (b[u] < sync[s][u]) => c[u] = b[u]
  BY <1>1, SameTids DEF Clocks!Join, Clocks!Later
<1>3. E = {<<u, c[u], t, b[t]>> : u \in {v \in Tids \ {t} : b[v] < c[v]}}
  BY SameTids DEF Clocks!Edges
<1> HIDE DEF c, E
<1>4. c[t] = n
  BY <1>1, <1>2
<1>5. ASSUME NEW u \in Tids \ {t}
      PROVE  c[u] = b[u] \/ (c[u] = sync[s][u] /\ <<<<u, c[u]>>, <<t, n>>>> \in Lines(E))
  <2>1. CASE b[u] < sync[s][u]
    <3>1. c[u] = sync[s][u] /\ b[u] < c[u]
      BY <1>2, <2>1
    <3>2. <<u, c[u], t, b[t]>> \in E
      BY <1>3, <3>1
    <3>3. <<<<u, c[u]>>, <<t, b[t]>>>> \in Lines(E)
      BY <3>2 DEF Lines
    <3> QED BY <3>1, <3>3
  <2>2. CASE ~ (b[u] < sync[s][u])
    BY <1>2, <2>2
  <2> QED BY <2>1, <2>2
<1>6. ASSUME NEW a \in Lines(E)
      PROVE  \E v \in Tids \ {t} : a = <<<<v, sync[s][v]>>, <<t, n>>>> /\ b[v] < sync[s][v]
  <2>1. PICK e \in E : a = <<<<e[1], e[2]>>, <<e[3], e[4]>>>>
    BY DEF Lines
  <2>2. PICK v \in Tids \ {t} : e = <<v, c[v], t, b[t]>> /\ b[v] < c[v]
    BY <1>3, <2>1
  <2>3. b[v] < sync[s][v] /\ c[v] = sync[s][v]
    BY <1>1, <1>2, <2>2
  <2> QED BY <2>1, <2>2, <2>3
<1> QED BY <1>2, <1>4, <1>5, <1>6 DEF Tells, c, E

LEMMA LinesJoin ==
  ASSUME NEW E, NEW F
  PROVE  Lines(E \cup F) = Lines(E) \cup Lines(F) /\ (E = {} => Lines(E) = {})
BY DEF Lines

(* What an operation starts from. *)
Begins(t, own, base) ==
  /\ \/ Runs(t) /\ base = clock[t] /\ own = clock[t][t]
     \/ base = Clocks!Nothing /\ own = 0 /\ (~ reused' => epoch[t] = 0)
  /\ \/ epoch' = epoch /\ epoch[t] = own
     \/ epoch' = [epoch EXCEPT ![t] = @ + 1]
  /\ epoch'[t] # 0
  /\ Prints(t, own)
  /\ reused => reused'
  /\ LivesGoOn(t)

LEMMA BeginsDoes ==
  ASSUME RecordedInv, NEW t \in Tids, NEW own, NEW base, Begins(t, own, base)
  PROVE  /\ base \in [Tids -> Nat]
         /\ epoch'[t] \in Nat /\ epoch[t] \in Nat /\ epoch[t] <= epoch'[t]
         /\ nodes' = nodes \cup {<<t, epoch'[t]>>}
         /\ hb' = hb \cup Lines(edges')
<1>1. epoch \in [Tids -> Nat] /\ clock \in [Tids -> [Tids -> Nat]]
  BY DEF RecordedInv, RecordedTypeOK
<1>2. Clocks!Nothing \in [Tids -> Nat]
  BY SameTids DEF Clocks!Nothing
<1>3. base \in [Tids -> Nat]
  BY <1>1, <1>2 DEF Begins
<1>4. epoch'[t] \in Nat /\ epoch[t] \in Nat /\ epoch[t] <= epoch'[t] /\ Moves(t)
  BY <1>1 DEF Begins, Moves
<1>5. hb' = hb \cup Lines(edges')
  BY DEF Begins, Prints, Lines
<1>6. nodes' = nodes \cup {<<t, epoch'[t]>>}
  <2>1. CASE own # epoch'[t]
    BY <2>1 DEF Begins, Prints
  <2>2. CASE own = epoch'[t]
    <3>1. own = clock[t][t] /\ own # 0
      BY <2>2 DEF Begins
    <3>2. <<t, epoch'[t]>> \in nodes
      BY <2>2, <3>1 DEF RecordedInv, ClocksAreHeard, HeardClock
    <3>3. nodes' = nodes
      BY <2>2 DEF Begins, Prints
    <3> QED BY <3>2, <3>3
  <2> QED BY <2>1, <2>2
<1> QED BY <1>3, <1>4, <1>5, <1>6

LEMMA TakesOperates ==
  ASSUME RecordedInv, GraphInv, NEW t \in Tids, NEW own, NEW base, Begins(t, own, base),
         NEW s1 \in Syncs, NEW s2 \in Syncs, Takes(t, base, s1, s2), released' = released,
         sync' = sync \/ \E s \in Syncs : sync' = [sync EXCEPT ![s] = Clocks!Nothing]
  PROVE  GraphInv'
<1> DEFINE n == epoch'[t]
           before == [base EXCEPT ![t] = n]
           between == Clocks!Join(before, sync[s1])
           c == Clocks!Join(between, sync[s2])
           L1 == Lines(Clocks!Edges(t, before, between))
           L2 == Lines(Clocks!Edges(t, between, c))
           es == Lines(edges')
<1>1. /\ base \in [Tids -> Nat]
      /\ n \in Nat /\ epoch[t] \in Nat /\ epoch[t] <= n
      /\ nodes' = nodes \cup {<<t, n>>}
      /\ hb' = hb \cup es
  BY BeginsDoes
<1>2. /\ before \in [Tids -> Nat] /\ before[t] = n
      /\ \A u \in Tids \ {t} : before[u] = base[u]
  BY <1>1
<1>3. /\ clock' = [clock EXCEPT ![t] = c]
      /\ edges' = Clocks!Edges(t, before, between) \cup Clocks!Edges(t, between, c)
      /\ mixed' = (mixed \/ (edges' # {} /\ released[t] = n))
  BY DEF Takes
<1>4. es = L1 \cup L2 /\ (edges' = {} => es = {})
  BY <1>3, LinesJoin
<1> HIDE DEF n, before, es
<1>5. Tells(t, n, before, between, s1, L1)
  BY <1>1, <1>2, JoinTells
<1> HIDE DEF between, L1
<1>6. between \in [Tids -> Nat] /\ between[t] = n
  BY <1>5 DEF Tells
<1>7. Tells(t, n, between, c, s2, L2)
  BY <1>1, <1>6, JoinTells
<1> HIDE DEF c, L2
<1>8. \A s \in Syncs : sync[s] \in [Tids -> Nat]
  BY DEF RecordedInv, RecordedTypeOK
<1>9. ASSUME NEW u \in Tids \ {t}
      PROVE  /\ base[u] <= c[u]
             /\ \/ c[u] = base[u]
                \/ <<<<u, c[u]>>, <<t, n>>>> \in es /\ \E s \in Syncs : c[u] = sync[s][u]
  <2>1. /\ base[u] <= between[u] /\ between[u] <= c[u]
        /\ between[u] = base[u] \/ (between[u] = sync[s1][u] /\ <<<<u, between[u]>>, <<t, n>>>> \in L1)
        /\ c[u] = between[u] \/ (c[u] = sync[s2][u] /\ <<<<u, c[u]>>, <<t, n>>>> \in L2)
    BY <1>2, <1>5, <1>7 DEF Tells
  <2>2. base[u] \in Nat /\ between[u] \in Nat /\ c[u] \in Nat
    BY <1>1, <1>6, <1>7 DEF Tells
  <2>3. base[u] <= c[u]
    BY <2>1, <2>2
  <2> QED BY <1>4, <2>1, <2>3
<1>10. ASSUME NEW a \in es
       PROVE  \E v \in Tids \ {t}, s \in Syncs :
                /\ a = <<<<v, sync[s][v]>>, <<t, n>>>>
                /\ base[v] < sync[s][v]
                /\ \A u \in Tids : sync[s][u] <= c[u]
  <2>1. CASE a \in L1
    <3>1. PICK v \in Tids \ {t} : a = <<<<v, sync[s1][v]>>, <<t, n>>>> /\ before[v] < sync[s1][v]
      BY <1>5, <2>1 DEF Tells
    <3>2. ASSUME NEW u \in Tids PROVE sync[s1][u] <= c[u]
      <4>1. sync[s1][u] <= between[u] /\ between[u] <= c[u]
        BY <1>5, <1>7 DEF Tells
      <4>2. sync[s1][u] \in Nat /\ between[u] \in Nat /\ c[u] \in Nat
        BY <1>6, <1>7, <1>8 DEF Tells
      <4> QED BY <4>1, <4>2
    <3> QED BY <1>2, <3>1, <3>2
  <2>2. CASE a \in L2
    <3>1. PICK v \in Tids \ {t} : a = <<<<v, sync[s2][v]>>, <<t, n>>>> /\ between[v] < sync[s2][v]
      BY <1>7, <2>2 DEF Tells
    <3>2. base[v] <= between[v]
      BY <1>2, <1>5 DEF Tells
    <3>3. base[v] < sync[s2][v]
      BY <1>1, <1>6, <1>8, <3>1, <3>2
    <3>4. \A u \in Tids : sync[s2][u] <= c[u]
      BY <1>7 DEF Tells
    <3> QED BY <3>1, <3>3, <3>4
  <2> QED BY <1>4, <2>1, <2>2
<1>11. c \in [Tids -> Nat] /\ c[t] = n
  BY <1>7 DEF Tells
<1>12. /\ sync' \in [Syncs -> [Tids -> Nat]]
       /\ \A s \in Syncs : sync'[s] = sync[s] \/ sync'[s] = Clocks!Nothing
  <2>1. sync \in [Syncs -> [Tids -> Nat]] /\ Clocks!Nothing \in [Tids -> Nat]
    BY SameTids DEF RecordedInv, RecordedTypeOK, Clocks!Nothing
  <2> QED BY <2>1
<1>13. /\ \/ Runs(t) /\ base = clock[t] /\ own = clock[t][t]
          \/ base = Clocks!Nothing /\ own = 0 /\ (~ reused' => epoch[t] = 0)
       /\ \/ epoch' = epoch /\ epoch[t] = own
          \/ epoch' = [epoch EXCEPT ![t] = @ + 1]
       /\ n # 0
       /\ reused => reused'
       /\ \A u \in Tids \ {t} : Runs(u)' => Runs(u)
  BY DEF Begins, LivesGoOn, n
<1>14. (es = {} \/ released[t] # n \/ mixed') /\ (mixed => mixed')
  BY <1>3, <1>4
<1>15. Operates(t, own, base, c, es)
  BY <1>1, <1>3, <1>9, <1>10, <1>11, <1>12, <1>13, <1>14 DEF Operates, n
<1> QED BY <1>15, OperationKeepsGraph

LEMMA ReleasesOperates ==
  ASSUME RecordedInv, GraphInv, NEW t \in Tids, Runs(t), Advances(t), Releases(t), LivesGoOn(t),
         reused => reused',
         NEW s \in Syncs, Clocks!Release(t, s) \/ Clocks!ReleaseStore(t, s)
                             \/ Clocks!AcquireRelease(t, s)
  PROVE  GraphInv'
<1> DEFINE n == epoch'[t]
           own == clock[t][t]
           base == clock[t]
           at == Clocks!At(t)
           j == Clocks!Join(at, sync[s])
           es == Lines(edges')
<1>1. epoch' = [epoch EXCEPT ![t] = @ + 1] /\ n # 0 /\ n \in Nat /\ n > epoch[t]
  BY EpochComes DEF Advances, Clocks!Advances
<1>2. /\ Prints(t, own) /\ released' = [released EXCEPT ![t] = n] /\ mixed' = mixed
  BY DEF Releases
<1>3. Begins(t, own, base)
  BY <1>1, <1>2 DEF Begins
<1>4. /\ base \in [Tids -> Nat] /\ epoch[t] \in Nat /\ epoch[t] <= n
      /\ nodes' = nodes \cup {<<t, n>>}
      /\ hb' = hb \cup es
  BY <1>3, BeginsDoes
<1>5. /\ at \in [Tids -> Nat] /\ at[t] = n
      /\ \A u \in Tids \ {t} : at[u] = base[u]
  BY <1>1, <1>4 DEF Clocks!At
<1>6. released[t] # n
  <2>1. released[t] \in Nat /\ released[t] <= epoch[t]
    BY DEF GraphInv, ReleasedOK
  <2> QED BY <1>1, <1>4, <2>1
<1>7. released' [t] = n
  BY <1>2 DEF GraphInv, ReleasedOK
<1> HIDE DEF n, es, at
<1>8. Tells(t, n, at, j, s, Lines(Clocks!Edges(t, at, j)))
  BY <1>1, <1>4, <1>5, JoinTells
<1>9. sync \in [Syncs -> [Tids -> Nat]] /\ \A r \in Syncs : sync[r] \in [Tids -> Nat]
  BY DEF RecordedInv, RecordedTypeOK
<1>10. /\ \/ Runs(t) /\ base = clock[t] /\ own = clock[t][t]
          \/ base = Clocks!Nothing /\ own = 0 /\ (~ reused' => epoch[t] = 0)
       /\ \/ epoch' = epoch /\ epoch[t] = own
          \/ epoch' = [epoch EXCEPT ![t] = @ + 1]
       /\ \A u \in Tids \ {t} : Runs(u)' => Runs(u)
  BY <1>3 DEF Begins, LivesGoOn
<1>11. CASE Clocks!Release(t, s) \/ Clocks!ReleaseStore(t, s)
  <2>1. /\ clock' = [clock EXCEPT ![t] = at] /\ edges' = {}
        /\ \/ sync' = [sync EXCEPT ![s] = Clocks!Join(sync[s], at)]
           \/ sync' = [sync EXCEPT ![s] = at]
    BY <1>11 DEF Clocks!Release, Clocks!ReleaseStore, at
  <2>2. es = {}
    BY <2>1 DEF es, Lines
  <2>3. Clocks!Join(sync[s], at) \in [Tids -> Nat]
    BY <1>5, <1>9, SameTids DEF Clocks!Join, Clocks!Later
  <2>4. /\ sync' \in [Syncs -> [Tids -> Nat]]
        /\ \A r \in Syncs :
             \/ sync'[r] = sync[r]
             \/ sync'[r] \in {at, Clocks!Join(sync[r], at)} /\ released'[t] = n
    BY <1>5, <1>7, <1>9, <2>1, <2>3
  <2>5. \A u \in Tids \ {t} : base[u] <= at[u] /\ at[u] = base[u]
    BY <1>4, <1>5
  <2>6. Operates(t, own, base, at, es)
    BY <1>1, <1>2, <1>4, <1>5, <1>10, <2>1, <2>2, <2>4, <2>5 DEF Operates, n
  <2> QED BY <2>6, OperationKeepsGraph
<1>12. CASE Clocks!AcquireRelease(t, s)
  <2>1. clock' = [clock EXCEPT ![t] = j]
    BY <1>12 DEF Clocks!AcquireRelease, at
  <2>2. clock'[t] = j
    BY <2>1 DEF RecordedInv, RecordedTypeOK
  <2>3. edges' = Clocks!Edges(t, at, j) /\ sync' = [sync EXCEPT ![s] = j]
    BY <1>12, <2>2 DEF Clocks!AcquireRelease, at
  <2> HIDE DEF j
  <2>4. j \in [Tids -> Nat] /\ j[t] = n
    BY <1>8 DEF Tells
  <2>5. /\ sync' \in [Syncs -> [Tids -> Nat]]
        /\ \A r \in Syncs : sync'[r] = sync[r] \/ (sync'[r] = j /\ released'[t] = n)
    BY <1>7, <1>9, <2>3, <2>4
  <2>6. Tells(t, n, at, j, s, es)
    BY <1>8, <2>3 DEF es
  <2>7. ASSUME NEW u \in Tids \ {t}
        PROVE  /\ base[u] <= j[u]
               /\ \/ j[u] = base[u]
                  \/ <<<<u, j[u]>>, <<t, n>>>> \in es /\ \E r \in Syncs : j[u] = sync[r][u]
    BY <1>5, <2>6 DEF Tells
  <2>8. ASSUME NEW a \in es
        PROVE  \E v \in Tids \ {t}, r \in Syncs :
                 /\ a = <<<<v, sync[r][v]>>, <<t, n>>>>
                 /\ base[v] < sync[r][v]
                 /\ \A u \in Tids : sync[r][u] <= j[u]
    <3>1. PICK v \in Tids \ {t} : a = <<<<v, sync[s][v]>>, <<t, n>>>> /\ at[v] < sync[s][v]
      BY <2>6 DEF Tells
    <3>2. \A u \in Tids : sync[s][u] <= j[u]
      BY <2>6 DEF Tells
    <3> QED BY <1>5, <3>1, <3>2
  <2>9. Operates(t, own, base, j, es)
    BY <1>1, <1>2, <1>4, <1>6, <1>10, <2>1, <2>4, <2>5, <2>7, <2>8 DEF Operates, n
  <2> QED BY <2>9, OperationKeepsGraph
<1> QED BY <1>11, <1>12

(* Epochs may pass and threads end: the graph and the clocks stay. *)
LEMMA NothingChangesGraph ==
  ASSUME RecordedInv, GraphInv, UNCHANGED <<clock, sync, nodes, hb, released, mixed, reused>>,
         epoch' \in [Tids -> Nat], \A u \in Tids : epoch[u] <= epoch'[u],
         \A u \in Tids : Runs(u)' => Runs(u)
  PROVE  GraphInv'
<1>1. /\ epoch \in [Tids -> Nat]
      /\ clock' = clock /\ sync' = sync /\ nodes' = nodes /\ hb' = hb
      /\ released' = released /\ mixed' = mixed /\ reused' = reused
  BY DEF RecordedInv, RecordedTypeOK
<1>2. NodesOK'
  <2>1. ASSUME NEW x \in nodes
        PROVE  x[2] # 0 /\ x[2] <= epoch'[x[1]] /\ (Runs(x[1])' => x[2] <= clock[x[1]][x[1]])
    <3>1. x[1] \in Tids /\ x[2] \in Nat
      BY DEF GraphInv, NodesOK, IsTrace
    <3>2. x[2] # 0 /\ x[2] <= epoch[x[1]] /\ (Runs(x[1]) => x[2] <= clock[x[1]][x[1]])
      BY DEF GraphInv, NodesOK
    <3>3. x[2] <= epoch'[x[1]]
      BY <1>1, <3>1, <3>2
    <3> QED BY <3>1, <3>2, <3>3
  <2>2. ASSUME NEW u \in Tids, Runs(u)' PROVE clock[u][u] # 0
    BY <2>2 DEF GraphInv, NodesOK
  <2> QED BY <1>1, <2>1, <2>2 DEF GraphInv, NodesOK
<1>3. ReleasedOK'
  <2>1. ASSUME NEW u \in Tids PROVE released[u] <= epoch'[u]
    <3>1. released[u] \in Nat /\ released[u] <= epoch[u] /\ epoch[u] \in Nat /\ epoch'[u] \in Nat
      BY <1>1 DEF GraphInv, ReleasedOK
    <3> QED BY <3>1
  <2> QED BY <1>1, <2>1 DEF GraphInv, ReleasedOK
<1>4. ClocksCome' /\ IsAcyclic' /\ ClocksCover' /\ EdgesAreNews' /\ PathsAreDirect'
  BY <1>1 DEF GraphInv, ClocksCome, IsAcyclic, ClocksCover, EdgesAreNews, PathsAreDirect
<1>5. ClocksReach'
  BY <1>1 DEF GraphInv, ClocksReach
<1> QED BY <1>2, <1>3, <1>4, <1>5 DEF GraphInv

LEMMA GraphInit == Init => GraphInv
<1> SUFFICES ASSUME Init PROVE GraphInv
  OBVIOUS
<1>1. /\ epoch = [t \in Tids |-> IF t = 0 THEN 1 ELSE 0]
      /\ clock = [t \in Tids |-> [u \in Tids |-> IF t = 0 /\ u = 0 THEN 1 ELSE 0]]
      /\ sync = [s \in Syncs |-> Clocks!Nothing]
      /\ nodes = {<<0, 1>>} /\ hb = {}
      /\ released = [t \in Tids |-> 0]
      /\ life = [t \in Tids |-> IF t = 0 THEN "running detached" ELSE "free"]
  BY DEF Init
<1>2. 0 \in Tids
  BY RecorderAssumption DEF Tids
<1>3. /\ epoch[0] = 1 /\ clock[0][0] = 1
      /\ \A t \in Tids : epoch[t] \in Nat
      /\ \A t, u \in Tids : t # 0 \/ u # 0 => clock[t][u] = 0
      /\ \A t \in Tids : Runs(t) => t = 0
      /\ \A s \in Syncs, u \in Tids : sync[s][u] = 0
  <2>1. epoch[0] = 1 /\ clock[0][0] = 1
    BY <1>1, <1>2
  <2>2. \A t, u \in Tids : t # 0 \/ u # 0 => clock[t][u] = 0
    BY <1>1
  <2>3. \A t \in Tids : Runs(t) => t = 0
    BY <1>1 DEF Runs
  <2>4. \A s \in Syncs, u \in Tids : sync[s][u] = 0
    BY <1>1, SameTids DEF Clocks!Nothing
  <2>5. \A t \in Tids : epoch[t] \in Nat
    BY <1>1
  <2> QED BY <2>1, <2>2, <2>3, <2>4, <2>5
<1>4. IsTrace(nodes, hb)
  <2>1. IsFiniteSet({<<0, 1>>})
    BY FS_Singleton
  <2>2. {<<0, 1>>} \subseteq Tids \X Nat
    BY <1>2
  <2>3. nodes = {<<0, 1>>} /\ hb \subseteq nodes \X nodes
    BY <1>1
  <2> QED BY <2>1, <2>2, <2>3 DEF IsTrace
<1>5. \A x, y : <<x, y>> \notin PathsIn(nodes, hb)
  <2>1. ArcsOf(nodes, hb) = {}
    <3>1. ASSUME NEW m \in nodes, NEW k \in nodes PROVE <<m, k>> \notin ArcsOf(nodes, hb)
      <4>1. m = <<0, 1>> /\ k = <<0, 1>>
        BY <1>1
      <4>2. ~ Follows(nodes, m, k)
        BY <4>1 DEF Follows
      <4>3. <<m, k>> \notin hb
        BY <1>1
      <4> QED BY <1>4, <4>2, <4>3, ArcsDo
    <3>2. ArcsOf(nodes, hb) \in SUBSET (nodes \X nodes)
      BY <1>4, ArcsDo
    <3>3. ASSUME NEW a \in ArcsOf(nodes, hb) PROVE FALSE
      <4>1. a = <<a[1], a[2]>> /\ a[1] \in nodes /\ a[2] \in nodes
        BY <3>2
      <4> QED BY <3>1, <4>1
    <3> QED BY <3>3
  <2>2. ArcsOf(nodes, hb) \subseteq {} /\ IsClosed({})
    BY <2>1 DEF IsClosed
  <2>3. PathsIn(nodes, hb) \subseteq {}
    <3>1. \A R : ArcsOf(nodes, hb) \subseteq R /\ IsClosed(R) => PathsIn(nodes, hb) \subseteq R
      BY <1>4, PathsInDo
    <3> QED BY <2>2, <3>1
  <2> QED BY <2>3
<1>6. NodesOK
  <2>1. ASSUME NEW x \in nodes PROVE x[1] = 0 /\ x[2] = 1
    <3>1. x = <<0, 1>>
      BY <1>1
    <3> QED BY <3>1
  <2> QED BY <1>3, <1>4, <2>1 DEF NodesOK
<1>7. ReleasedOK
  <2>1. released \in [Tids -> Nat] /\ \A t \in Tids : released[t] = 0
    BY <1>1
  <2>2. \A t \in Tids : \A r \in Tids \ {t} : clock[r][t] = 0
    BY <1>3
  <2>3. \A t \in Tids : /\ released[t] <= epoch[t]
                        /\ \A r \in Tids \ {t} : clock[r][t] <= released[t]
                        /\ \A s \in Syncs : sync[s][t] <= released[t]
    BY <1>3, <2>1, <2>2
  <2>4. \A a \in hb : a[1][2] <= released[a[1][1]]
    BY <1>1
  <2> QED BY <2>1, <2>3, <2>4 DEF ReleasedOK
<1>8. ClocksCome /\ ClocksReach
  <2>1. \A t, u \in Tids : u # t => clock[t][u] = 0
    BY <1>3
  <2> QED BY <2>1 DEF ClocksCome, ClocksReach
<1>9. IsAcyclic /\ ClocksCover /\ EdgesAreNews /\ PathsAreDirect
  BY <1>5 DEF IsAcyclic, ClocksCover, CoversIn, EdgesAreNews, PathsAreDirect
<1> QED BY <1>6, <1>7, <1>8, <1>9 DEF GraphInv

(* An acquire, by a thread that runs. *)
LEMMA AcquiresOperates ==
  ASSUME RecordedInv, GraphInv, NEW t \in Tids, Runs(t),
         Advances(t) \/ (Clocks!Stays /\ epoch[t] = clock[t][t]),
         NEW s1 \in Syncs, NEW s2 \in Syncs, Acquires(t, s1, s2), LivesGoOn(t),
         reused => reused',
         sync' = sync \/ \E s \in Syncs : sync' = [sync EXCEPT ![s] = Clocks!Nothing]
  PROVE  GraphInv'
<1>1. /\ Prints(t, clock[t][t]) /\ Takes(t, clock[t], s1, s2) /\ released' = released
  BY DEF Acquires
<1>2. /\ \/ epoch' = epoch /\ epoch[t] = clock[t][t]
         \/ epoch' = [epoch EXCEPT ![t] = @ + 1]
      /\ epoch'[t] # 0
  <2>1. CASE Advances(t)
    BY <2>1, EpochComes DEF Advances, Clocks!Advances
  <2>2. CASE Clocks!Stays /\ epoch[t] = clock[t][t]
    BY <2>2 DEF Clocks!Stays, RecordedInv, RunningHasEpoch
  <2> QED BY <2>1, <2>2
<1>3. Begins(t, clock[t][t], clock[t])
  BY <1>1, <1>2 DEF Begins
<1> QED BY <1>1, <1>3, TakesOperates

LEMMA StartOperates ==
  ASSUME RecordedInv, GraphInv, NEW t \in Tids, Start(t)
  PROVE  GraphInv'
<1> DEFINE s == ThreadClock(t)
<1>1. s \in Syncs
  BY DEF Syncs, Tids, ThreadClock
<1>2. /\ Advances(t) /\ Takes(t, Clocks!Nothing, s, s) /\ Prints(t, 0)
      /\ sync' = [sync EXCEPT ![s] = Clocks!Nothing]
      /\ Becomes(t, IF life[t] = "created" THEN "running" ELSE "running detached")
      /\ reused' = (reused \/ epoch[t] > 0) /\ released' = released
  BY DEF Start
<1> HIDE DEF s
<1>3. LivesGoOn(t)
  BY <1>2 DEF LivesGoOn, Becomes, Runs, Lives, RecordedInv, RecordedTypeOK
<1>4. epoch[t] \in Nat /\ epoch' = [epoch EXCEPT ![t] = @ + 1] /\ epoch'[t] # 0
  BY <1>2, EpochComes DEF RecordedInv, RecordedTypeOK, Advances, Clocks!Advances
<1>5. ~ reused' => epoch[t] = 0
  <2>1. ASSUME epoch[t] # 0 PROVE reused'
    <3>1. epoch[t] > 0
      BY <1>4, <2>1
    <3> QED BY <1>2, <3>1, Zenon
  <2> QED BY <2>1
<1>6. Begins(t, 0, Clocks!Nothing)
  BY <1>2, <1>3, <1>4, <1>5 DEF Begins
<1> QED BY <1>1, <1>2, <1>6, TakesOperates

LEMMA StepsKeepGraph ==
  ASSUME RecordedInv, GraphInv, Next
  PROVE  GraphInv'
<1>1. ASSUME NEW t \in Tids, NEW a \in Addresses,
             Acquire(t, a) \/ Release(t, a) \/ AcquireRelease(t, a)
      PROVE  GraphInv'
  <2>1. a \in Syncs /\ LivesGoOn(t) /\ Runs(t) /\ Advances(t) /\ reused' = reused
    BY <1>1, SameLives DEF Syncs, Acquire, Release, AcquireRelease, Idle
  <2>2. CASE Acquire(t, a)
    BY <2>1, <2>2, AcquiresOperates DEF Acquire
  <2>3. CASE Release(t, a) \/ AcquireRelease(t, a)
    BY <2>1, <2>3, ReleasesOperates DEF Release, AcquireRelease
  <2> QED BY <1>1, <2>2, <2>3
<1>2. ASSUME NEW t \in Tids, NEW a \in Addresses \cup Signals, ReleaseStore(t, a)
      PROVE  GraphInv'
  <2>1. a \in Syncs /\ LivesGoOn(t) /\ Runs(t) /\ Advances(t) /\ reused' = reused
    BY <1>2, SameLives DEF Syncs, ReleaseStore, Idle
  <2> QED BY <1>2, <2>1, ReleasesOperates DEF ReleaseStore
<1>3. ASSUME NEW t \in Tids, NEW sig \in Signals, SignalHandled(t, sig)
      PROVE  GraphInv'
  <2>1. /\ sig \in Syncs /\ LivesGoOn(t) /\ Runs(t) /\ reused' = reused
        /\ sync' = sync /\ Acquires(t, sig, sig)
        /\ Advances(t) \/ (Clocks!Stays /\ epoch[t] = clock[t][t])
    BY <1>3, SameLives DEF Syncs, SignalHandled, Idle
  <2> QED BY <2>1, AcquiresOperates
<1>4. ASSUME NEW t \in Tids, NEW m \in Mutexes, MutexPostLock(t, m) \/ MutexUnlock(t, m)
      PROVE  GraphInv'
  <2>1. /\ WriteClock(m) \in Syncs /\ ReadClock(m) \in Syncs /\ LivesGoOn(t)
        /\ Runs(t) /\ Advances(t) /\ reused' = reused
    BY <1>4, SameLives DEF Syncs, MutexPostLock, MutexUnlock
  <2>2. CASE MutexPostLock(t, m)
    BY <2>1, <2>2, AcquiresOperates DEF MutexPostLock
  <2>3. CASE MutexUnlock(t, m)
    BY <2>1, <2>3, ReleasesOperates DEF MutexUnlock
  <2> QED BY <1>4, <2>2, <2>3
<1>5. ASSUME NEW t \in Tids, NEW m \in Mutexes,
             MutexPostReadLock(t, m) \/ MutexReadUnlock(t, m)
      PROVE  GraphInv'
  <2>1. /\ WriteClock(m) \in Syncs /\ ReadClock(m) \in Syncs /\ LivesGoOn(t)
        /\ Runs(t) /\ Advances(t) /\ reused' = reused
    BY <1>5, SameLives DEF Syncs, MutexPostReadLock, MutexReadUnlock
  <2>2. CASE MutexPostReadLock(t, m)
    BY <2>1, <2>2, AcquiresOperates DEF MutexPostReadLock
  <2>3. CASE MutexReadUnlock(t, m)
    BY <2>1, <2>3, ReleasesOperates DEF MutexReadUnlock
  <2> QED BY <1>5, <2>2, <2>3
<1>6. ASSUME NEW t \in Tids, NEW u \in Tids \ {0}, NEW d \in BOOLEAN, Create(t, u, d)
      PROVE  GraphInv'
  <2>1. /\ ThreadClock(u) \in Syncs /\ LivesGoOn(t)
        /\ Runs(t) /\ Advances(t) /\ reused' = reused
    BY <1>6, NextLives DEF Syncs, Tids, Create
  <2> QED BY <1>6, <2>1, ReleasesOperates DEF Create
<1>7. ASSUME NEW t \in Tids, NEW u \in Tids, Join(t, u)
      PROVE  GraphInv'
  <2>1. /\ ThreadClock(u) \in Syncs /\ LivesGoOn(t)
        /\ Runs(t) /\ Advances(t) /\ reused' = reused
    BY <1>7, NextLives DEF Syncs, Tids, Join
  <2>2. Acquires(t, ThreadClock(u), ThreadClock(u))
        /\ sync' = [sync EXCEPT ![ThreadClock(u)] = Clocks!Nothing]
    BY <1>7 DEF Join
  <2> QED BY <2>1, <2>2, AcquiresOperates
<1>8. ASSUME NEW t \in Tids, Finish(t)
      PROVE  GraphInv'
  <2>1. ThreadClock(t) \in Syncs /\ reused' = reused
    BY <1>8 DEF Syncs, Tids, Finish
  <2>2. CASE /\ life[t] = "running"
             /\ Advances(t) /\ Clocks!Release(t, ThreadClock(t)) /\ Releases(t) /\ Becomes(t, "finished")
    <3>1. Runs(t) /\ LivesGoOn(t)
      BY <2>2, NextLives DEF Runs
    <3> QED BY <2>1, <2>2, <3>1, ReleasesOperates
  <2>3. CASE Becomes(t, "free") /\ UNCHANGED <<clocks, trace, released, mixed>>
    <3>1. \A v \in Tids : Runs(v)' => Runs(v)
      BY <2>3, NextLives
    <3>2. epoch' = epoch /\ epoch \in [Tids -> Nat] /\ \A u \in Tids : epoch[u] <= epoch[u]
      BY <2>3 DEF clocks, RecordedInv, RecordedTypeOK
    <3>3. UNCHANGED <<clock, sync, nodes, hb, released, mixed, reused>>
      BY <2>1, <2>3 DEF clocks, trace
    <3> QED BY <3>1, <3>2, <3>3, NothingChangesGraph
  <2> QED BY <1>8, <2>2, <2>3 DEF Finish
<1>9. ASSUME NEW t \in Tids, MemoryAccess(t)
      PROVE  GraphInv'
  <2>1. /\ Advances(t) /\ UNCHANGED <<clock, sync, nodes, hb, released, mixed, reused>>
        /\ life' = life
    BY <1>9 DEF MemoryAccess, Idle
  <2>2. epoch' \in [Tids -> Nat] /\ \A u \in Tids : epoch[u] <= epoch'[u]
    BY <2>1, EpochComes, MovesForward
  <2>3. \A v \in Tids : Runs(v)' => Runs(v)
    BY <2>1 DEF Runs
  <2> QED BY <2>1, <2>2, <2>3, NothingChangesGraph
<1> QED BY <1>1, <1>2, <1>3, <1>4, <1>5, <1>6, <1>7, <1>8, <1>9, StartOperates DEF Next

LEMMA GraphAlways == Spec => [](RecordedInv /\ GraphInv)
<1>1. RecordedInv /\ GraphInv /\ [Next]_vars => RecordedInv' /\ GraphInv'
  <2> SUFFICES ASSUME RecordedInv, GraphInv, [Next]_vars PROVE RecordedInv' /\ GraphInv'
    OBVIOUS
  <2>1. RecordedInv'
    BY RecordedNext DEF StepIsSafe
  <2>2. CASE UNCHANGED vars
    <3>1. UNCHANGED <<clock, sync, nodes, hb, released, mixed, reused>> /\ epoch' = epoch /\ life' = life
      BY <2>2 DEF vars, clocks, trace
    <3>2. epoch \in [Tids -> Nat] /\ \A u \in Tids : epoch[u] <= epoch[u]
      BY DEF RecordedInv, RecordedTypeOK
    <3>3. \A v \in Tids : Runs(v)' => Runs(v)
      BY <3>1 DEF Runs
    <3> QED BY <2>1, <3>1, <3>2, <3>3, NothingChangesGraph
  <2> QED BY <2>1, <2>2, StepsKeepGraph
<1> QED BY <1>1, RecordedInit, GraphInit, PTL DEF Spec

--------------------------------------------------------------------------------
(* The largest of a bounded set of numbers. *)
LEMMA MaxIs ==
  ASSUME NEW S, S \subseteq Nat, S # {}, NEW b \in Nat, \A x \in S : x <= b
  PROVE  Max(S) \in S /\ \A x \in S : x <= Max(S)
<1> DEFINE D == {b - x : x \in S}
<1>1. D \subseteq Nat /\ D # {}
  <2>1. \A x \in S : x \in Nat /\ b - x \in Nat
    OBVIOUS
  <2> QED BY <2>1
<1>2. PICK d \in D : \A e \in D : d <= e
  BY <1>1, NatMin
<1>3. PICK m \in S : d = b - m
  BY <1>2
<1>4. ASSUME NEW x \in S PROVE m >= x
  <2>1. b - m <= b - x
    BY <1>2, <1>3
  <2> QED BY <2>1
<1>5. Max(S) \in S /\ \A x \in S : Max(S) >= x
  BY <1>4 DEF Max
<1>6. \A x \in S : x \in Nat /\ Max(S) \in Nat
  BY <1>5
<1> QED BY <1>5, <1>6

(* The last epoch that reaches a thread is one of its own past. *)
LEMMA KnownIs ==
  ASSUME RecordedInv, GraphInv, NEW t \in Tids, NEW u \in Tids
  PROVE  /\ Known(t, u, Paths) \in Nat
         /\ \A n \in Nat : <<<<u, n>>, <<t, clock[t][t]>>>> \in Paths => n <= Known(t, u, Paths)
         /\ \/ Known(t, u, Paths) = 0
            \/ <<<<u, Known(t, u, Paths)>>, <<t, clock[t][t]>>>> \in Paths
<1> DEFINE z == <<t, clock[t][t]>>
           R == {p[1][2] : p \in {q \in Paths : q[1][1] = u /\ q[2] = z}}
           S == {0} \cup R
<1>1. Paths \subseteq nodes \X nodes
  BY PathsAreIn, PathsInDo DEF GraphInv, NodesOK
<1>2. \A n \in nodes : n[1] \in Tids /\ n[2] \in Nat /\ n[2] <= epoch[n[1]] /\ n = <<n[1], n[2]>>
  BY DEF GraphInv, NodesOK, IsTrace
<1>3. epoch[u] \in Nat
  BY DEF RecordedInv, RecordedTypeOK
<1>4. ASSUME NEW n \in R PROVE n \in Nat /\ n <= epoch[u] /\ <<<<u, n>>, z>> \in Paths
  <2>1. PICK p \in Paths : p[1][1] = u /\ p[2] = z /\ n = p[1][2]
    OBVIOUS
  <2>2. p = <<p[1], p[2]>> /\ p[1] \in nodes
    BY <1>1
  <2>3. p[1] = <<u, n>>
    BY <1>2, <2>1, <2>2
  <2> HIDE DEF z
  <2>4. <<<<u, n>>, z>> \in Paths
    BY <2>1, <2>2, <2>3
  <2> QED BY <1>2, <2>1, <2>2, <2>4
<1>5. Max(S) \in S /\ \A x \in S : x <= Max(S)
  <2>1. S \subseteq Nat /\ S # {} /\ \A x \in S : x <= epoch[u]
    <3> HIDE DEF R
    <3>1. 0 \in S /\ \A x \in S : x = 0 \/ x \in R
      OBVIOUS
    <3> HIDE DEF S
    <3>2. ASSUME NEW x \in S PROVE x \in Nat /\ x <= epoch[u]
      <4>1. CASE x = 0
        BY <1>3, <4>1
      <4>2. CASE x \in R
        BY <1>4, <4>2
      <4> QED BY <3>1, <4>1, <4>2
    <3> QED BY <3>1, <3>2
  <2> HIDE DEF S
  <2> QED BY <1>3, <2>1, MaxIs
<1>6. ASSUME NEW n \in Nat, <<<<u, n>>, z>> \in Paths PROVE n \in S
  <2> DEFINE p == <<<<u, n>>, z>>
  <2>1. p[1][1] = u /\ p[2] = z /\ p[1][2] = n
    OBVIOUS
  <2>2. p \in Paths
    BY <1>6
  <2> HIDE DEF p, z
  <2>3. n \in R
    BY <2>1, <2>2
  <2> QED BY <2>3
<1>7. Known(t, u, Paths) = Max(S)
  BY DEF Known
<1>8. \A x \in S : x = 0 \/ x \in R
  OBVIOUS
<1> HIDE DEF R, S, z
<1>9. ASSUME NEW x \in S PROVE x \in Nat
  <2>1. CASE x = 0
    BY <2>1
  <2>2. CASE x \in R
    BY <1>4, <2>2
  <2> QED BY <1>8, <2>1, <2>2
<1>10. Max(S) \in Nat /\ (Max(S) = 0 \/ <<<<u, Max(S)>>, z>> \in Paths)
  BY <1>4, <1>5, <1>8, <1>9
<1>11. \A n \in Nat : <<<<u, n>>, z>> \in Paths => n <= Max(S)
  BY <1>5, <1>6
<1> QED BY <1>7, <1>10, <1>11 DEF z

(* Two nodes never reach each other as long as no thread acquires in an    *)
(* epoch in which it has released: HBG.__init__ can sort them.             *)
THEOREM UnmixedTraceIsAcyclic == Spec => []UnmixedIsAcyclic
<1>1. GraphInv => UnmixedIsAcyclic
  BY PathsAreIn DEF GraphInv, IsAcyclic, UnmixedIsAcyclic, GraphIsAcyclic
<1> QED BY <1>1, GraphAlways, PTL

(* What a thread's clock knows, HBG finds in the graph that HBGBuilder     *)
(* makes of the lines.                                                     *)
THEOREM TraceTellsWhatClocksKnow == Spec => []GraphIsComplete
<1>1. RecordedInv /\ GraphInv => GraphIsComplete
  <2> SUFFICES ASSUME RecordedInv, GraphInv, NEW t \in Tids, NEW u \in Tids, Runs(t), u # t
               PROVE  clock[t][u] <= Known(t, u, Paths)
    BY DEF GraphIsComplete
  <2>1. /\ Known(t, u, Paths) \in Nat
        /\ \A n \in Nat : <<<<u, n>>, <<t, clock[t][t]>>>> \in Paths => n <= Known(t, u, Paths)
    BY KnownIs
  <2>2. clock[t][u] \in Nat
    BY DEF RecordedInv, RecordedTypeOK
  <2>3. clock[t][u] # 0 => <<<<u, clock[t][u]>>, <<t, clock[t][t]>>>> \in Paths
    BY PathsAreIn DEF GraphInv, ClocksReach
  <2> QED BY <2>1, <2>2, <2>3
<1> QED BY <1>1, GraphAlways, PTL

(* And nothing else: HBG orders no two nodes whose threads' clocks did not *)
(* order them, unless an epoch was mixed or a number was given out again.  *)
THEOREM TraceTellsNothingElse == Spec => []GraphIsSound
<1>1. RecordedInv /\ GraphInv => GraphIsSound
  <2> SUFFICES ASSUME RecordedInv, GraphInv, ~ mixed, ~ reused,
                      NEW t \in Tids, NEW u \in Tids, Runs(t), u # t
               PROVE  Known(t, u, Paths) <= clock[t][u]
    BY DEF GraphIsSound
  <2>1. CoversIn(clock[t], Paths)
    BY PathsAreIn DEF GraphInv, ClocksCover
  <2>2. clock[t][u] \in Nat
    BY DEF RecordedInv, RecordedTypeOK
  <2> DEFINE k == Known(t, u, Paths)
  <2>3. k \in Nat /\ (k = 0 \/ <<<<u, k>>, <<t, clock[t][t]>>>> \in Paths)
    BY KnownIs
  <2> HIDE DEF k
  <2>4. CASE <<<<u, k>>, <<t, clock[t][t]>>>> \in Paths
    <3>1. <<u, k>>[2] <= clock[t][<<u, k>>[1]]
      BY <2>1, <2>4 DEF CoversIn
    <3> QED BY <3>1 DEF k
  <2> QED BY <2>2, <2>3, <2>4 DEF k
<1> QED BY <1>1, GraphAlways, PTL

(* The shapes that RaceDetectorFast takes for granted of the graph.        *)
THEOREM TraceHasTheShape == Spec => []TraceIsAsAssumed
<1>1. RecordedInv /\ GraphInv => TraceIsAsAssumed
  <2> SUFFICES ASSUME RecordedInv, GraphInv, ~ mixed, ~ reused
               PROVE  /\ \A e \in hb, n \in nodes : IsNext(n, e[2]) => <<e[1], n>> \notin Paths
                      /\ \A p \in Paths :
                           p[1][1] # p[2][1] =>
                             \E e \in hb : /\ e[1][1] = p[1][1] /\ p[1][2] <= e[1][2]
                                          /\ e[2][1] = p[2][1] /\ e[2][2] <= p[2][2]
    BY DEF TraceIsAsAssumed
  <2>1. Paths \subseteq nodes \X nodes
    BY PathsAreIn, PathsInDo DEF GraphInv, NodesOK
  <2>2. ASSUME NEW e \in hb, NEW n \in nodes, IsNext(n, e[2])
        PROVE  <<e[1], n>> \notin Paths
    <3>1. Follows(nodes, n, e[2])
      BY <2>2 DEF IsNext, Follows
    <3> QED BY <3>1, PathsAreIn DEF GraphInv, EdgesAreNews
  <2>3. ASSUME NEW p \in Paths, p[1][1] # p[2][1]
        PROVE  \E e \in hb : /\ e[1][1] = p[1][1] /\ p[1][2] <= e[1][2]
                             /\ e[2][1] = p[2][1] /\ e[2][2] <= p[2][2]
    <3>1. p = <<p[1], p[2]>>
      BY <2>1
    <3>2. <<p[1], p[2]>> \in PathsIn(nodes, hb)
      BY <3>1, PathsAreIn
    <3> QED BY <2>3, <3>2 DEF GraphInv, PathsAreDirect
  <2> QED BY <2>2, <2>3
<1> QED BY <1>1, GraphAlways, PTL
================================================================================
