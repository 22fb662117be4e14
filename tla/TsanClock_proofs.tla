--------------------------- MODULE TsanClock_proofs ---------------------------
(***************************************************************************)
(* The clocks of the runtime do what the simple model of their opening     *)
(* comment does, edges included, for any number of threads, objects, dirty *)
(* entries and reuses of a thread number; no table is freed under a holder *)
(* and none leaks.                                                         *)
(***************************************************************************)
EXTENDS MCTsanClock, FiniteSetTheorems, WellFoundedInduction, TLAPS

USE TsanClockAssumption

Clocks == [Tids -> Nat]
Flags == [Tids -> 0..MaxReuse]
Pools == [Blocks -> ClockBlocks]
Lines == Tids \X Nat \X Tids \X Nat

(* What the operations work on.                                            *)
Xs == [me : ThreadClocks, at : SyncClocks, pool : Pools, edges : SUBSET Lines]
X(me, at, p, lines) == [me |-> me, at |-> at, pool |-> p, edges |-> lines]

(* The clock of an object whose table has the epochs e: SyncClock::get.    *)
VecOf(at, e) ==
  [u \in Tids |-> IF u \in DirtyTids(at) THEN DirtyEpoch(at, u)
                  ELSE IF u < at.size THEN e[u] ELSE 0]
Vec(at, p) == VecOf(at, p[at.tab].epoch)
V(x) == Vec(x.at, x.pool)

(* The dirty entries fill the slots in order, and are of different threads. *)
SlotsOK(dirty) ==
  \A i, j \in DirtySlots :
    /\ i < j /\ dirty[i].tid = NoTid => dirty[j].tid = NoTid
    /\ i # j /\ dirty[i].tid = dirty[j].tid => dirty[i].tid = NoTid

(* Each is as late as what the table has of its thread, which is something. *)
(* Past its size a table is 0.                                             *)
TableOK(at, e) ==
  /\ \A i \in DirtySlots : at.dirty[i].tid # NoTid =>
        /\ at.size # 0
        /\ e[at.dirty[i].tid] # 0
        /\ e[at.dirty[i].tid] <= at.dirty[i].epoch
  /\ at.size # 0 => \A u \in Tids : at.size <= u => e[u] = 0

AtOK(at, p) ==
  /\ (at.size = 0) <=> (at.tab = NoBlock)
  /\ SlotsOK(at.dirty)
  /\ TableOK(at, p[at.tab].epoch)

(* The table a thread has cached is its clock, but for its own component,  *)
(* which may be an earlier one.                                            *)
CacheIs(me, e) ==
  /\ me.cached.size # 0
  /\ \A u \in Tids \ {me.tid} : e[u] = me.clk[u]
  /\ e[me.tid] # 0 /\ e[me.tid] <= me.clk[me.tid]
  /\ \A u \in Tids : me.cached.size <= u => e[u] = 0

CacheOK(me, p) == me.cached.tab # NoBlock => CacheIs(me, p[me.cached.tab].epoch)

(* A thread whose flag is set in a table knows all that the table says.  C *)
(* and R are the clocks and the reuse numbers of all threads.              *)
FlagOK(e, f, C, R) ==
  \A v \in Tids : /\ f[v] <= R[v]
                  /\ f[v] = R[v] => \A u \in Tids : e[u] <= C[v][u]

FlagsOK(p, C, R) == \A b \in Blocks : FlagOK(p[b].epoch, p[b].reused, C, R)

(* nclk_ bounds what a thread knows.                                       *)
MeOK(me) ==
  /\ me.tid < me.nclk
  /\ \A u \in Tids : me.nclk <= u => me.clk[u] = 0

--------------------------------------------------------------------------------
(* Records *)

LEMMA Numbers ==
  /\ NThreads \in Nat /\ NThreads # 0 /\ kDirtyTids \in Nat /\ kDirtyTids # 0
  /\ Cardinality(Syncs) \in Nat
  /\ Blocks \subseteq Nat /\ Tids \subseteq Nat /\ DirtySlots \subseteq Nat
  /\ NoBlock \notin Blocks /\ NoTid \notin Tids
<1>1. Cardinality(Syncs) \in Nat
  BY FS_CardinalityType
<1> QED BY <1>1 DEF Blocks, Tids, DirtySlots, NoBlock, NoTid

LEMMA XFields ==
  ASSUME NEW x \in Xs
  PROVE  /\ x.me \in ThreadClocks /\ x.at \in SyncClocks /\ x.pool \in Pools /\ x.edges \in SUBSET Lines
         /\ x = X(x.me, x.at, x.pool, x.edges)
BY DEF Xs, X

LEMMA XType ==
  ASSUME NEW me \in ThreadClocks, NEW at \in SyncClocks, NEW p \in Pools, NEW g \in SUBSET Lines
  PROVE  LET x == X(me, at, p, g)
         IN  x \in Xs /\ x.me = me /\ x.at = at /\ x.pool = p /\ x.edges = g
BY DEF Xs, X

LEMMA MeFields ==
  ASSUME NEW me \in ThreadClocks
  PROVE  /\ me.tid \in Tids /\ me.clk \in Clocks /\ me.nclk \in 1..NThreads /\ me.reused \in 1..MaxReuse
         /\ me.last_acquire \in Nat /\ me.global_acquire \in Nat
         /\ me.cached.tab \in Blocks \cup {NoBlock} /\ me.cached.size \in 0..NThreads
BY DEF ThreadClocks, Clocks

LEMMA AtFields ==
  ASSUME NEW at \in SyncClocks
  PROVE  /\ at.tab \in Blocks \cup {NoBlock} /\ at.size \in 0..NThreads
         /\ at.dirty \in [DirtySlots -> DirtyEntries]
         /\ at.release_store.tid \in Tids \cup {NoTid} /\ at.release_store.reused \in 0..MaxReuse
         /\ \A i \in DirtySlots : /\ at.dirty[i] \in DirtyEntries
                                  /\ at.dirty[i].tid \in Tids \cup {NoTid} /\ at.dirty[i].epoch \in Nat
<1>1. /\ at.tab \in Blocks \cup {NoBlock} /\ at.size \in 0..NThreads
      /\ at.dirty \in [DirtySlots -> DirtyEntries]
      /\ at.release_store.tid \in Tids \cup {NoTid} /\ at.release_store.reused \in 0..MaxReuse
  BY DEF SyncClocks
<1>2. ASSUME NEW i \in DirtySlots
      PROVE  at.dirty[i] \in DirtyEntries /\ at.dirty[i].tid \in Tids \cup {NoTid} /\ at.dirty[i].epoch \in Nat
  <2>1. at.dirty[i] \in DirtyEntries
    BY <1>1
  <2> QED BY <2>1 DEF DirtyEntries
<1> QED BY <1>1, <1>2

LEMMA BlockFields ==
  ASSUME NEW p \in Pools, NEW b \in Blocks
  PROVE  /\ p[b] \in ClockBlocks /\ p[b].ref \in Nat /\ p[b].epoch \in Clocks /\ p[b].reused \in Flags
         /\ p[b] = [ref |-> p[b].ref, epoch |-> p[b].epoch, reused |-> p[b].reused]
BY DEF Pools, ClockBlocks, Clocks, Flags

LEMMA Zeros ==
  /\ AllZero \in Clocks /\ AllZero \in Flags /\ \A u \in Tids : AllZero[u] = 0
  /\ FreeBlock \in ClockBlocks /\ FreeBlock.ref = 0 /\ FreeBlock.epoch = AllZero /\ FreeBlock.reused = AllZero
  /\ NoDirty \in [DirtySlots -> DirtyEntries] /\ \A i \in DirtySlots : NoDirty[i].tid = NoTid
  /\ NoStore.tid = NoTid /\ NoStore.reused = 0
<1>1. AllZero \in Clocks /\ AllZero \in Flags /\ \A u \in Tids : AllZero[u] = 0
  BY DEF AllZero, Clocks, Flags
<1>2. FreeBlock.ref = 0 /\ FreeBlock.epoch = AllZero /\ FreeBlock.reused = AllZero
  BY DEF FreeBlock
<1>3. FreeBlock \in ClockBlocks
  BY <1>1 DEF FreeBlock, ClockBlocks, Clocks, Flags
<1>4. NoDirty \in [DirtySlots -> DirtyEntries] /\ \A i \in DirtySlots : NoDirty[i].tid = NoTid
  BY DEF NoDirty, DirtyEntries
<1> QED BY <1>1, <1>2, <1>3, <1>4 DEF NoStore

(* A block with other contents.                                            *)
Put(p, b, n, e, f) == [p EXCEPT ![b] = [ref |-> n, epoch |-> e, reused |-> f]]

LEMMA PutDoes ==
  ASSUME NEW p \in Pools, NEW b \in Blocks, NEW n \in Nat, NEW e \in Clocks, NEW f \in Flags
  PROVE  LET q == Put(p, b, n, e, f)
         IN  /\ q \in Pools /\ \A d \in Blocks \ {b} : q[d] = p[d]
             /\ q[b].ref = n /\ q[b].epoch = e /\ q[b].reused = f
<1> DEFINE k == [ref |-> n, epoch |-> e, reused |-> f]
           q == [p EXCEPT ![b] = k]
<1>1. k \in ClockBlocks /\ k.ref = n /\ k.epoch = e /\ k.reused = f
  BY DEF ClockBlocks, Clocks, Flags
<1> HIDE DEF k
<1>2. q \in Pools /\ (\A d \in Blocks \ {b} : q[d] = p[d]) /\ q[b] = k
  BY <1>1 DEF Pools
<1> HIDE DEF q
<1> QED BY <1>1, <1>2 DEF Put, q, k

(* One reference less.                                                     *)
LEMMA UnrefDoes ==
  ASSUME NEW p \in Pools, NEW b \in Blocks, p[b].ref # 0
  PROVE  LET q == Unref(p, b)
         IN  /\ q \in Pools /\ \A d \in Blocks \ {b} : q[d] = p[d]
             /\ q[b].ref = p[b].ref - 1
             /\ IF p[b].ref = 1 THEN q[b].epoch = AllZero /\ q[b].reused = AllZero
                ELSE q[b].epoch = p[b].epoch /\ q[b].reused = p[b].reused
<1>1. /\ p[b].ref \in Nat /\ p[b].epoch \in Clocks /\ p[b].reused \in Flags
      /\ p[b] = [ref |-> p[b].ref, epoch |-> p[b].epoch, reused |-> p[b].reused]
  BY BlockFields
<1>2. CASE p[b].ref = 1
  <2>1. Unref(p, b) = Put(p, b, 0, AllZero, AllZero)
    BY <1>2 DEF Unref, FreeBlock, Put
  <2> QED BY <1>2, <2>1, PutDoes, Zeros
<1>3. CASE p[b].ref # 1
  <2> DEFINE n == p[b].ref - 1
             e == p[b].epoch
             f == p[b].reused
  <2>1. [p[b] EXCEPT !.ref = n] = [ref |-> n, epoch |-> e, reused |-> f]
    <3> HIDE DEF n
    <3> QED BY <1>1
  <2>2. Unref(p, b) = Put(p, b, n, e, f)
    BY <1>3, <2>1 DEF Unref, Put
  <2>3. n \in Nat /\ e \in Clocks /\ f \in Flags
    BY <1>1
  <2> HIDE DEF n, e, f
  <2>4. LET q == Put(p, b, n, e, f)
        IN  /\ q \in Pools /\ \A d \in Blocks \ {b} : q[d] = p[d]
            /\ q[b].ref = n /\ q[b].epoch = e /\ q[b].reused = f
    BY <2>3, PutDoes
  <2> QED BY <1>3, <2>2, <2>4 DEF n, e, f
<1> QED BY <1>2, <1>3

(* Records with some fields changed.                                       *)
Block(k, n, e, f) == [k EXCEPT !.ref = n, !.epoch = e, !.reused = f]
PoolAt(x, q, at) == [x EXCEPT !.pool = q, !.at = at]
AtPool(x, at, q) == [x EXCEPT !.at = at, !.pool = q]
PoolMe(x, q, me) == [x EXCEPT !.pool = q, !.me = me]
MeEdges(x, me, g) == [x EXCEPT !.me = me, !.edges = g]
OnlyAt(x, at) == [x EXCEPT !.at = at]
OnlyPool(x, q) == [x EXCEPT !.pool = q]
OnlyMe(x, me) == [x EXCEPT !.me = me]

LEMMA BlockIs ==
  ASSUME NEW k \in ClockBlocks, NEW n, NEW e, NEW f
  PROVE  Block(k, n, e, f) = [ref |-> n, epoch |-> e, reused |-> f]
<1>1. \E a, b, c : k = [ref |-> a, epoch |-> b, reused |-> c]
  BY DEF ClockBlocks
<1>2. PICK a, b, c : k = [ref |-> a, epoch |-> b, reused |-> c]
  BY <1>1
<1> DEFINE k1 == [ref |-> n, epoch |-> b, reused |-> c]
           k2 == [ref |-> n, epoch |-> e, reused |-> c]
<1>4. [k EXCEPT !.ref = n] = k1
  BY <1>2
<1>5. [k1 EXCEPT !.epoch = e] = k2
  OBVIOUS
<1>6. [k2 EXCEPT !.reused = f] = [ref |-> n, epoch |-> e, reused |-> f]
  OBVIOUS
<1>7. [k EXCEPT !.ref = n, !.epoch = e, !.reused = f] = [ref |-> n, epoch |-> e, reused |-> f]
  <2> HIDE DEF k1, k2
  <2>1. [k EXCEPT !.ref = n, !.epoch = e, !.reused = f] = [[[k EXCEPT !.ref = n] EXCEPT !.epoch = e] EXCEPT !.reused = f]
    OBVIOUS
  <2> QED BY <1>4, <1>5, <1>6, <2>1
<1> QED BY <1>7 DEF Block

LEMMA XExcept ==
  ASSUME NEW x \in Xs, NEW q, NEW at, NEW me, NEW g
  PROVE  /\ PoolAt(x, q, at) = X(x.me, at, q, x.edges)
         /\ AtPool(x, at, q) = X(x.me, at, q, x.edges)
         /\ PoolMe(x, q, me) = X(me, x.at, q, x.edges)
         /\ MeEdges(x, me, g) = X(me, x.at, x.pool, g)
         /\ OnlyAt(x, at) = X(x.me, at, x.pool, x.edges)
         /\ OnlyPool(x, q) = X(x.me, x.at, q, x.edges)
         /\ OnlyMe(x, me) = X(me, x.at, x.pool, x.edges)
<1>1. \E a, b, c, d : x = [me |-> a, at |-> b, pool |-> c, edges |-> d]
  BY DEF Xs
<1>2. PICK a, b, c, d : x = [me |-> a, at |-> b, pool |-> c, edges |-> d]
  BY <1>1
<1>3. x.me = a /\ x.at = b /\ x.pool = c /\ x.edges = d
  BY <1>2
<1> DEFINE k1 == [me |-> a, at |-> b, pool |-> q, edges |-> d]
           k2 == [me |-> a, at |-> at, pool |-> c, edges |-> d]
           k3 == [me |-> me, at |-> b, pool |-> c, edges |-> d]
<1>4. [x EXCEPT !.pool = q] = k1 /\ [x EXCEPT !.at = at] = k2 /\ [x EXCEPT !.me = me] = k3
  BY <1>2
<1>5. [k1 EXCEPT !.at = at] = [me |-> a, at |-> at, pool |-> q, edges |-> d]
  OBVIOUS
<1>6. [k2 EXCEPT !.pool = q] = [me |-> a, at |-> at, pool |-> q, edges |-> d]
  OBVIOUS
<1>7. [k1 EXCEPT !.me = me] = [me |-> me, at |-> b, pool |-> q, edges |-> d]
  OBVIOUS
<1>8. [k3 EXCEPT !.edges = g] = [me |-> me, at |-> b, pool |-> c, edges |-> g]
  OBVIOUS
<1>9. /\ [x EXCEPT !.pool = q, !.at = at] = [me |-> a, at |-> at, pool |-> q, edges |-> d]
      /\ [x EXCEPT !.at = at, !.pool = q] = [me |-> a, at |-> at, pool |-> q, edges |-> d]
      /\ [x EXCEPT !.pool = q, !.me = me] = [me |-> me, at |-> b, pool |-> q, edges |-> d]
      /\ [x EXCEPT !.me = me, !.edges = g] = [me |-> me, at |-> b, pool |-> c, edges |-> g]
  <2> HIDE DEF k1, k2, k3
  <2>1. [x EXCEPT !.pool = q, !.at = at] = [[x EXCEPT !.pool = q] EXCEPT !.at = at]
    OBVIOUS
  <2>2. [x EXCEPT !.at = at, !.pool = q] = [[x EXCEPT !.at = at] EXCEPT !.pool = q]
    OBVIOUS
  <2>3. [x EXCEPT !.pool = q, !.me = me] = [[x EXCEPT !.pool = q] EXCEPT !.me = me]
    OBVIOUS
  <2>4. [x EXCEPT !.me = me, !.edges = g] = [[x EXCEPT !.me = me] EXCEPT !.edges = g]
    OBVIOUS
  <2>5. [x EXCEPT !.pool = q, !.at = at] = [me |-> a, at |-> at, pool |-> q, edges |-> d]
    BY <1>4, <1>5, <2>1
  <2>6. [x EXCEPT !.at = at, !.pool = q] = [me |-> a, at |-> at, pool |-> q, edges |-> d]
    BY <1>4, <1>6, <2>2
  <2>7. [x EXCEPT !.pool = q, !.me = me] = [me |-> me, at |-> b, pool |-> q, edges |-> d]
    BY <1>4, <1>7, <2>3
  <2>8. [x EXCEPT !.me = me, !.edges = g] = [me |-> me, at |-> b, pool |-> c, edges |-> g]
    BY <1>4, <1>8, <2>4
  <2> QED BY <2>5, <2>6, <2>7, <2>8
<1>10. [x EXCEPT !.pool = q] = X(a, b, q, d) /\ [x EXCEPT !.at = at] = X(a, at, c, d) /\ [x EXCEPT !.me = me] = X(me, b, c, d)
  BY <1>4 DEF X
<1>11. /\ [x EXCEPT !.pool = q, !.at = at] = X(a, at, q, d)
       /\ [x EXCEPT !.at = at, !.pool = q] = X(a, at, q, d)
       /\ [x EXCEPT !.pool = q, !.me = me] = X(me, b, q, d)
       /\ [x EXCEPT !.me = me, !.edges = g] = X(me, b, c, g)
  BY <1>9 DEF X
<1> HIDE DEF k1, k2, k3
<1> QED BY <1>3, <1>10, <1>11 DEF PoolAt, AtPool, PoolMe, MeEdges, OnlyAt, OnlyPool, OnlyMe

LEMMA PoolAtIs == ASSUME NEW x \in Xs, NEW q, NEW at PROVE PoolAt(x, q, at) = X(x.me, at, q, x.edges)
BY XExcept
LEMMA AtPoolIs == ASSUME NEW x \in Xs, NEW q, NEW at PROVE AtPool(x, at, q) = X(x.me, at, q, x.edges)
BY XExcept
LEMMA PoolMeIs == ASSUME NEW x \in Xs, NEW q, NEW me PROVE PoolMe(x, q, me) = X(me, x.at, q, x.edges)
BY XExcept
LEMMA MeEdgesIs == ASSUME NEW x \in Xs, NEW me, NEW g PROVE MeEdges(x, me, g) = X(me, x.at, x.pool, g)
BY XExcept
LEMMA OnlyAtIs == ASSUME NEW x \in Xs, NEW at PROVE OnlyAt(x, at) = X(x.me, at, x.pool, x.edges)
BY XExcept
LEMMA OnlyPoolIs == ASSUME NEW x \in Xs, NEW q PROVE OnlyPool(x, q) = X(x.me, x.at, q, x.edges)
BY XExcept
LEMMA OnlyMeIs == ASSUME NEW x \in Xs, NEW me PROVE OnlyMe(x, me) = X(me, x.at, x.pool, x.edges)
BY XExcept

(* One reference more. *)
LEMMA RefDoes ==
  ASSUME NEW p \in Pools, NEW b \in Blocks, NEW n \in Nat
  PROVE  LET q == [p EXCEPT ![b].ref = n]
         IN  /\ q \in Pools /\ \A d \in Blocks \ {b} : q[d] = p[d]
             /\ q[b].ref = n /\ q[b].epoch = p[b].epoch /\ q[b].reused = p[b].reused
<1> DEFINE e == p[b].epoch
           f == p[b].reused
<1>1. e \in Clocks /\ f \in Flags /\ p[b] = [ref |-> p[b].ref, epoch |-> e, reused |-> f]
  BY BlockFields
<1>2. [p[b] EXCEPT !.ref = n] = [ref |-> n, epoch |-> e, reused |-> f]
  BY <1>1
<1>4. [p EXCEPT ![b].ref = n] = Put(p, b, n, e, f)
  BY <1>2 DEF Put
<1> HIDE DEF e, f
<1>3. LET q == Put(p, b, n, e, f)
      IN  /\ q \in Pools /\ \A d \in Blocks \ {b} : q[d] = p[d]
          /\ q[b].ref = n /\ q[b].epoch = e /\ q[b].reused = f
  BY <1>1, PutDoes
<1> QED BY <1>4, <1>3 DEF e, f

--------------------------------------------------------------------------------
(* The clock of an object *)

(* A dirty entry is found by its thread. *)
LEMMA DirtyFound ==
  ASSUME NEW at \in SyncClocks, SlotsOK(at.dirty), NEW i \in DirtySlots, at.dirty[i].tid # NoTid
  PROVE  /\ at.dirty[i].tid \in DirtyTids(at)
         /\ DirtyEpoch(at, at.dirty[i].tid) = at.dirty[i].epoch
<1>1. \A j \in DirtySlots : at.dirty[j].tid = at.dirty[i].tid => j = i
  BY DEF SlotsOK
<1>2. (CHOOSE j \in DirtySlots : at.dirty[j].tid = at.dirty[i].tid) = i
  BY <1>1
<1> QED BY <1>2 DEF DirtyTids, DirtyEpoch

LEMMA DirtyPicked ==
  ASSUME NEW at \in SyncClocks, SlotsOK(at.dirty), NEW u \in DirtyTids(at)
  PROVE  /\ u \in Tids
         /\ \E i \in DirtySlots : at.dirty[i].tid = u /\ DirtyEpoch(at, u) = at.dirty[i].epoch
<1>1. PICK i \in DirtySlots : at.dirty[i].tid = u /\ u # NoTid
  BY DEF DirtyTids
<1>2. at.dirty[i].tid \in Tids \cup {NoTid}
  BY AtFields
<1> QED BY <1>1, <1>2, DirtyFound

LEMMA DirtyIsNat ==
  ASSUME NEW at \in SyncClocks, SlotsOK(at.dirty), NEW u \in DirtyTids(at)
  PROVE  u \in Tids /\ DirtyEpoch(at, u) \in Nat
<1>1. u \in Tids /\ \E i \in DirtySlots : at.dirty[i].tid = u /\ DirtyEpoch(at, u) = at.dirty[i].epoch
  BY DirtyPicked
<1> QED BY <1>1, AtFields

LEMMA VecType ==
  ASSUME NEW at \in SyncClocks, SlotsOK(at.dirty), NEW e, at.size # 0 => e \in Clocks
  PROVE  VecOf(at, e) \in Clocks
<1>1. ASSUME NEW u \in Tids
      PROVE  (IF u \in DirtyTids(at) THEN DirtyEpoch(at, u) ELSE IF u < at.size THEN e[u] ELSE 0) \in Nat
  <2>1. u < at.size => at.size # 0
    BY AtFields, Numbers
  <2>2. u < at.size => e[u] \in Nat
    BY <2>1 DEF Clocks
  <2> QED BY <2>2, DirtyIsNat
<1> QED BY <1>1 DEF VecOf, Clocks

(* The dirty entries are in the table, and no earlier than it.             *)
LEMMA TableIsEarlier ==
  ASSUME NEW at \in SyncClocks, SlotsOK(at.dirty), NEW e \in Clocks, TableOK(at, e), at.size # 0
  PROVE  /\ \A u \in DirtyTids(at) : /\ u \in Tids /\ u < at.size /\ DirtyEpoch(at, u) \in Nat
                                     /\ e[u] # 0 /\ e[u] <= DirtyEpoch(at, u)
         /\ \A u \in Tids : VecOf(at, e)[u] = (IF u \in DirtyTids(at) THEN DirtyEpoch(at, u) ELSE e[u])
         /\ \A u \in Tids : e[u] <= VecOf(at, e)[u]
<1>1. ASSUME NEW u \in DirtyTids(at)
      PROVE  /\ u \in Tids /\ u < at.size /\ DirtyEpoch(at, u) \in Nat
             /\ e[u] # 0 /\ e[u] <= DirtyEpoch(at, u)
  <2>1. PICK i \in DirtySlots : at.dirty[i].tid = u /\ DirtyEpoch(at, u) = at.dirty[i].epoch
    BY DirtyPicked
  <2>2. u \in Tids /\ u # NoTid /\ DirtyEpoch(at, u) \in Nat
    BY DirtyIsNat, Numbers
  <2>3. e[u] # 0 /\ e[u] <= DirtyEpoch(at, u)
    BY <2>1, <2>2 DEF TableOK
  <2>4. ~ (at.size <= u)
    BY <2>2, <2>3 DEF TableOK
  <2> QED BY <2>2, <2>3, <2>4, AtFields, Numbers
<1>2. ASSUME NEW u \in Tids
      PROVE  /\ VecOf(at, e)[u] = (IF u \in DirtyTids(at) THEN DirtyEpoch(at, u) ELSE e[u])
             /\ e[u] <= VecOf(at, e)[u]
  <2>1. e[u] \in Nat /\ u \in Nat /\ at.size \in Nat
    BY AtFields, Numbers DEF Clocks
  <2>2. ~ (u < at.size) => e[u] = 0
    BY <2>1 DEF TableOK
  <2>3. VecOf(at, e)[u] = (IF u \in DirtyTids(at) THEN DirtyEpoch(at, u)
                          ELSE IF u < at.size THEN e[u] ELSE 0)
    BY DEF VecOf
  <2> QED BY <1>1, <2>1, <2>2, <2>3
<1> QED BY <1>1, <1>2

(* An object without a table has no clock. *)
LEMMA EmptyVec ==
  ASSUME NEW at \in SyncClocks, NEW e, TableOK(at, e), at.size = 0
  PROVE  DirtyTids(at) = {} /\ VecOf(at, e) = AllZero
<1>1. DirtyTids(at) = {}
  BY DEF DirtyTids, TableOK
<1>2. \A u \in Tids : ~ (u < at.size)
  BY Numbers
<1> QED BY <1>1, <1>2 DEF VecOf, AllZero

(* A table without dirty entries is the clock.                             *)
LEMMA NoDirtyVec ==
  ASSUME NEW at \in SyncClocks, at.dirty = NoDirty, NEW e \in Clocks, TableOK(at, e), at.size # 0
  PROVE  SlotsOK(at.dirty) /\ DirtyTids(at) = {} /\ VecOf(at, e) = e
<1>1. SlotsOK(at.dirty) /\ DirtyTids(at) = {}
  BY Zeros DEF DirtyTids, SlotsOK
<1>2. \A u \in Tids : VecOf(at, e)[u] = e[u]
  BY <1>1, TableIsEarlier
<1> QED BY <1>1, <1>2 DEF VecOf, Clocks

--------------------------------------------------------------------------------
(* What the operations keep *)

One(P) == IF P THEN 1 ELSE 0

(* Each block has the references of the object and the thread, and those   *)
(* of the rest.                                                            *)
Refs(x, rest) ==
  \A b \in Blocks : x.pool[b].ref = rest[b] + One(x.at.tab = b) + One(x.me.cached.tab = b)

(* The rest leaves a block for the object and one for the thread.          *)
Room(rest) == \E b, d \in Blocks : b # d /\ rest[b] = 0 /\ rest[d] = 0

(* The others find their tables as they were.                              *)
Frame(p, q, rest) == \A b \in Blocks : rest[b] # 0 => q[b].epoch = p[b].epoch

Known(rest, C, R) == rest \in [Blocks -> Nat] /\ C \in [Tids -> Clocks] /\ R \in [Tids -> 1..MaxReuse]

XInv(x, rest, C, R) ==
  /\ x \in Xs /\ Known(rest, C, R)
  /\ C[x.me.tid] = x.me.clk /\ R[x.me.tid] = x.me.reused
  /\ Refs(x, rest)
  /\ AtOK(x.at, x.pool) /\ CacheOK(x.me, x.pool) /\ MeOK(x.me) /\ FlagsOK(x.pool, C, R)

(* Nobody is known to have acquired a table without flags.                 *)
LEMMA NoFlags ==
  ASSUME NEW C, NEW R \in [Tids -> 1..MaxReuse], NEW e
  PROVE  FlagOK(e, AllZero, C, R)
<1>1. ASSUME NEW v \in Tids PROVE AllZero[v] <= R[v] /\ AllZero[v] # R[v]
  BY Zeros
<1> QED BY <1>1 DEF FlagOK

(* The object gets a table of its own, or writes the one it has.           *)
LEMMA Written ==
  ASSUME NEW x, NEW rest, NEW C, NEW R, XInv(x, rest, C, R),
         NEW at \in SyncClocks, NEW q \in Pools, NEW b \in Blocks,
         at.tab = b, at.size # 0, SlotsOK(at.dirty), TableOK(at, q[b].epoch),
         FlagOK(q[b].epoch, q[b].reused, C, R),
         q[b].ref = 1,
         \A d \in Blocks \ {b} : q[d].epoch = x.pool[d].epoch /\ q[d].reused = x.pool[d].reused,
         Refs(X(x.me, at, q, x.edges), rest)
  PROVE  /\ XInv(X(x.me, at, q, x.edges), rest, C, R)
         /\ Frame(x.pool, q, rest)
<1> DEFINE y == X(x.me, at, q, x.edges)
<1>1. /\ x \in Xs /\ Known(rest, C, R) /\ CacheOK(x.me, x.pool) /\ MeOK(x.me) /\ FlagsOK(x.pool, C, R)
      /\ C[x.me.tid] = x.me.clk /\ R[x.me.tid] = x.me.reused
  BY DEF XInv
<1>2. x.me \in ThreadClocks /\ x.edges \in SUBSET Lines
  BY <1>1, XFields
<1>3. y \in Xs /\ y.me = x.me /\ y.at = at /\ y.pool = q
  BY <1>2, XType
<1> HIDE DEF y
<1>4. rest[b] = 0 /\ x.me.cached.tab # b
  <2>1. q[b].ref = rest[b] + One(at.tab = b) + One(x.me.cached.tab = b)
    BY <1>3 DEF Refs, y
  <2>2. rest[b] \in Nat
    BY <1>1 DEF Known
  <2> QED BY <2>1, <2>2 DEF One
<1>5. Frame(x.pool, q, rest)
  BY <1>4 DEF Frame
<1>6. AtOK(at, q)
  BY Numbers DEF AtOK
<1>7. CacheOK(x.me, q)
  <2>1. ASSUME x.me.cached.tab # NoBlock
        PROVE  q[x.me.cached.tab].epoch = x.pool[x.me.cached.tab].epoch
    BY <1>2, <1>4, <2>1, MeFields
  <2> QED BY <1>1, <2>1 DEF CacheOK
<1>8. FlagsOK(q, C, R)
  <2>1. ASSUME NEW d \in Blocks PROVE FlagOK(q[d].epoch, q[d].reused, C, R)
    <3>1. CASE d = b
      BY <3>1
    <3>2. CASE d # b
      BY <1>1, <3>2 DEF FlagsOK
    <3> QED BY <3>1, <3>2
  <2> QED BY <2>1 DEF FlagsOK
<1>9. Refs(y, rest)
  BY DEF y
<1>10. XInv(y, rest, C, R)
  BY <1>1, <1>3, <1>6, <1>7, <1>8, <1>9 DEF XInv
<1> QED BY <1>5, <1>10 DEF y

(* q is p with one reference to c less.                                    *)
Dropped(p, q, c) ==
  /\ q \in Pools
  /\ \A b \in Blocks : /\ q[b].ref + One(c = b) = p[b].ref
                       /\ q[b].ref # 0 => q[b].epoch = p[b].epoch
                       /\ \/ q[b].epoch = p[b].epoch /\ q[b].reused = p[b].reused
                          \/ q[b].epoch = AllZero /\ q[b].reused = AllZero

LEMMA UnrefDrops ==
  ASSUME NEW p \in Pools, NEW b \in Blocks, p[b].ref # 0
  PROVE  Dropped(p, Unref(p, b), b)
<1> DEFINE q == Unref(p, b)
<1>1. /\ q \in Pools /\ \A d \in Blocks \ {b} : q[d] = p[d]
      /\ q[b].ref = p[b].ref - 1
      /\ IF p[b].ref = 1 THEN q[b].epoch = AllZero /\ q[b].reused = AllZero
         ELSE q[b].epoch = p[b].epoch /\ q[b].reused = p[b].reused
  BY UnrefDoes
<1> HIDE DEF q
<1>2. ASSUME NEW d \in Blocks
      PROVE  /\ q[d].ref + One(b = d) = p[d].ref
             /\ q[d].ref # 0 => q[d].epoch = p[d].epoch
             /\ \/ q[d].epoch = p[d].epoch /\ q[d].reused = p[d].reused
                \/ q[d].epoch = AllZero /\ q[d].reused = AllZero
  <2>0. p[d].ref \in Nat /\ p[b].ref \in Nat
    BY BlockFields
  <2>1. CASE d = b
    BY <1>1, <2>0, <2>1 DEF One
  <2>2. CASE d # b
    BY <1>1, <2>0, <2>2 DEF One
  <2> QED BY <2>1, <2>2
<1> QED BY <1>1, <1>2 DEF Dropped, q

LEMMA NothingDrops ==
  ASSUME NEW p \in Pools
  PROVE  Dropped(p, p, NoBlock)
<1>1. ASSUME NEW b \in Blocks PROVE p[b].ref + One(NoBlock = b) = p[b].ref
  <2>1. p[b].ref \in Nat /\ NoBlock # b
    BY BlockFields, Numbers
  <2> QED BY <2>1 DEF One
<1> QED BY <1>1 DEF Dropped

LEMMA DroppedFlags ==
  ASSUME NEW p, NEW q, NEW c, Dropped(p, q, c), NEW C, NEW R \in [Tids -> 1..MaxReuse], FlagsOK(p, C, R)
  PROVE  FlagsOK(q, C, R)
<1>1. ASSUME NEW b \in Blocks PROVE FlagOK(q[b].epoch, q[b].reused, C, R)
  <2>1. CASE q[b].epoch = p[b].epoch /\ q[b].reused = p[b].reused
    BY <2>1 DEF FlagsOK
  <2>2. CASE q[b].epoch = AllZero /\ q[b].reused = AllZero
    BY <2>2, NoFlags
  <2> QED BY <2>1, <2>2 DEF Dropped
<1> QED BY <1>1 DEF FlagsOK

(* ResetCached *)
Caches == [tab : Blocks \cup {NoBlock}, size : 0..NThreads]

LEMMA ResetCachedDoes ==
  ASSUME NEW x \in Xs, x.me.cached.tab # NoBlock => x.pool[x.me.cached.tab].ref # 0
  PROVE  \E q, c : /\ Dropped(x.pool, q, x.me.cached.tab)
                   /\ c \in Caches /\ c.tab = NoBlock
                   /\ ResetCached(x) = X([x.me EXCEPT !.cached = c], x.at, q, x.edges)
<1>0. /\ x.me \in ThreadClocks /\ x.at \in SyncClocks /\ x.pool \in Pools /\ x.edges \in SUBSET Lines
      /\ x = X(x.me, x.at, x.pool, x.edges)
  BY XFields
<1>1. CASE x.me.cached.tab = NoBlock
  <2>1. x.me.cached \in Caches
    BY <1>0 DEF ThreadClocks, Caches
  <2>2. [x.me EXCEPT !.cached = x.me.cached] = x.me
    BY <1>0 DEF ThreadClocks
  <2>3. ResetCached(x) = X([x.me EXCEPT !.cached = x.me.cached], x.at, x.pool, x.edges)
    BY <1>0, <1>1, <2>2 DEF ResetCached
  <2>4. Dropped(x.pool, x.pool, x.me.cached.tab)
    BY <1>0, <1>1, NothingDrops
  <2> QED BY <1>1, <2>1, <2>3, <2>4
<1>2. CASE x.me.cached.tab # NoBlock
  <2>1. Dropped(x.pool, Unref(x.pool, x.me.cached.tab), x.me.cached.tab)
    BY <1>0, <1>2, MeFields, UnrefDrops
  <2>2. ResetCached(x) = X([x.me EXCEPT !.cached = NoCache], x.at, Unref(x.pool, x.me.cached.tab), x.edges)
    BY <1>0, <1>2 DEF ResetCached, X
  <2>3. NoCache \in Caches /\ NoCache.tab = NoBlock
    BY Numbers DEF NoCache, Caches
  <2> QED BY <2>1, <2>2, <2>3
<1> QED BY <1>1, <1>2

(* An object whose table has the same epochs has the same clock.           *)
LEMMA SameTable ==
  ASSUME NEW at \in SyncClocks, NEW p, NEW q, AtOK(at, p),
         at.tab \in Blocks => q[at.tab].epoch = p[at.tab].epoch
  PROVE  AtOK(at, q) /\ Vec(at, q) = Vec(at, p)
<1>1. CASE at.size = 0
  <2>1. TableOK(at, p[at.tab].epoch)
    BY DEF AtOK
  <2>2. TableOK(at, q[at.tab].epoch)
    BY <1>1, <2>1 DEF TableOK
  <2>3. Vec(at, p) = AllZero /\ Vec(at, q) = AllZero
    BY <1>1, <2>1, <2>2, EmptyVec DEF Vec
  <2> QED BY <2>2, <2>3 DEF AtOK
<1>2. CASE at.size # 0
  <2>1. at.tab \in Blocks
    BY <1>2, AtFields DEF AtOK
  <2> QED BY <2>1 DEF AtOK, Vec
<1> QED BY <1>1, <1>2

(* The clock of an object is a clock, and 0 past its size; its table has   *)
(* no later epochs.                                                        *)
LEMMA VecFacts ==
  ASSUME NEW at \in SyncClocks, NEW p \in Pools, AtOK(at, p)
  PROVE  /\ Vec(at, p) \in Clocks
         /\ at.size = 0 => Vec(at, p) = AllZero
         /\ at.size # 0 => /\ at.tab \in Blocks /\ p[at.tab].epoch \in Clocks
                           /\ \A u \in Tids : p[at.tab].epoch[u] <= Vec(at, p)[u]
                           /\ \A u \in Tids : at.size <= u => Vec(at, p)[u] = 0
<1>1. at.size # 0 => at.tab \in Blocks /\ p[at.tab].epoch \in Clocks
  BY AtFields, BlockFields DEF AtOK
<1>2. Vec(at, p) \in Clocks
  BY <1>1, VecType DEF Vec, AtOK
<1>3. at.size = 0 => Vec(at, p) = AllZero
  BY EmptyVec DEF Vec, AtOK
<1>4. ASSUME at.size # 0
      PROVE  /\ \A u \in Tids : p[at.tab].epoch[u] <= Vec(at, p)[u]
             /\ \A u \in Tids : at.size <= u => Vec(at, p)[u] = 0
  <2> DEFINE e == p[at.tab].epoch
  <2>1. e \in Clocks /\ SlotsOK(at.dirty) /\ TableOK(at, e)
    BY <1>1, <1>4 DEF AtOK
  <2> HIDE DEF e
  <2>2. /\ \A u \in DirtyTids(at) : u \in Tids /\ u < at.size
        /\ \A u \in Tids : VecOf(at, e)[u] = (IF u \in DirtyTids(at) THEN DirtyEpoch(at, u) ELSE e[u])
        /\ \A u \in Tids : e[u] <= VecOf(at, e)[u]
    BY <1>4, <2>1, TableIsEarlier
  <2>3. ASSUME NEW u \in Tids, at.size <= u
        PROVE  VecOf(at, e)[u] = 0
    <3>1. u \notin DirtyTids(at)
      BY <2>2, <2>3, AtFields, Numbers
    <3> QED BY <1>4, <2>1, <2>2, <2>3, <3>1 DEF TableOK
  <2> QED BY <2>2, <2>3 DEF Vec, e
<1> QED BY <1>1, <1>2, <1>3, <1>4

(* The thread knew all that the clock vec has of the others if vec has     *)
(* what it did since it last learned something.                            *)
Told(me, vec) ==
  vec[me.tid] > me.last_acquire /\ vec[me.tid] > me.global_acquire
    => \A u \in Tids \ {me.tid} : me.clk[u] <= vec[u]

Keeps(me, now) ==
  \A vec \in Clocks : vec[me.tid] <= me.clk[me.tid] /\ Told(me, vec) => Told(now, vec)

After(x, y, rest, C, R) ==
  /\ XInv(y, rest, [C EXCEPT ![x.me.tid] = y.me.clk], R)
  /\ Frame(x.pool, y.pool, rest)
  /\ y.me.tid = x.me.tid /\ y.me.reused = x.me.reused /\ y.me.clk[x.me.tid] = x.me.clk[x.me.tid]
  /\ Keeps(x.me, y.me)

Relearned(me, clk, n) == [me EXCEPT !.clk = clk, !.nclk = n]

Changed(C, t, clk) == [C EXCEPT ![t] = clk]
Gained(x, clk, n, q, g) == AfterAcquiring(X(Relearned(x.me, clk, n), x.at, q, g), clk # x.me.clk)

(* What acquire and releaseStoreAcquire end with: the thread's clock has   *)
(* become clk, flags have been set and edges logged.                       *)
LEMMA AfterAcquiringDoes ==
  ASSUME NEW x, NEW rest, NEW C, NEW R, XInv(x, rest, C, R),
         NEW clk \in Clocks, NEW n \in 1..NThreads, NEW q \in Pools, NEW g \in SUBSET Lines,
         x.me.nclk <= n,
         \A u \in Tids : n <= u => clk[u] = 0,
         clk[x.me.tid] = x.me.clk[x.me.tid],
         \A b \in Blocks : q[b].ref = x.pool[b].ref /\ q[b].epoch = x.pool[b].epoch,
         FlagsOK(q, Changed(C, x.me.tid, clk), R)
  PROVE  LET y == Gained(x, clk, n, q, g)
         IN  /\ After(x, y, rest, C, R)
             /\ y.me.clk = clk /\ y.at = x.at /\ y.edges = g /\ V(y) = V(x)
<1> DEFINE tid == x.me.tid
           D == [C EXCEPT ![tid] = clk]
           me == [x.me EXCEPT !.clk = clk, !.nclk = n]
           w == X(me, x.at, q, g)
           y == AfterAcquiring(w, clk # x.me.clk)
<1>11. Gained(x, clk, n, q, g) = y
  BY DEF Gained, Relearned
<1>12. FlagsOK(q, D, R)
  BY DEF Changed
<1>1. /\ x \in Xs /\ Known(rest, C, R) /\ C[x.me.tid] = x.me.clk /\ R[x.me.tid] = x.me.reused
      /\ Refs(x, rest) /\ AtOK(x.at, x.pool) /\ CacheOK(x.me, x.pool) /\ MeOK(x.me)
  BY DEF XInv
<1>2. x.me \in ThreadClocks /\ x.at \in SyncClocks /\ x.pool \in Pools
  BY <1>1, XFields
<1>3. /\ x.me.tid \in Tids /\ x.me.clk \in Clocks /\ x.me.nclk \in 1..NThreads
      /\ x.me.cached.tab \in Blocks \cup {NoBlock}
  BY <1>2, MeFields
<1>4. /\ me \in ThreadClocks /\ me.tid = tid /\ me.clk = clk /\ me.nclk = n /\ me.reused = x.me.reused
      /\ me.cached = x.me.cached /\ me.last_acquire = x.me.last_acquire
      /\ me.global_acquire = x.me.global_acquire
  BY <1>2 DEF ThreadClocks, Clocks
<1>5. Known(rest, D, R) /\ D[tid] = clk
  BY <1>1, <1>3 DEF Known
<1> HIDE DEF me
<1>6. w \in Xs /\ w.me = me /\ w.at = x.at /\ w.pool = q /\ w.edges = g
  BY <1>2, <1>4, XType
<1>7. \A u \in Tids : n <= u => clk[u] = 0
  OBVIOUS
<1>8. tid < n
  <2>1. x.me.tid < x.me.nclk
    BY <1>1 DEF MeOK
  <2>2. tid \in Nat
    BY <1>3, Numbers
  <2>3. x.me.nclk \in Nat
    BY <1>3, Numbers
  <2>4. n \in Nat
    BY Numbers
  <2> HIDE DEF tid
  <2> QED BY <2>1, <2>2, <2>3, <2>4 DEF tid
<1>9. CASE clk = x.me.clk
  <2>1. y = w
    BY <1>9 DEF AfterAcquiring
  <2>2. Refs(w, rest)
    BY <1>1, <1>4, <1>6 DEF Refs
  <2>3. AtOK(x.at, q) /\ Vec(x.at, q) = Vec(x.at, x.pool)
    BY <1>1, <1>2, SameTable
  <2>4. CacheOK(me, q)
    BY <1>1, <1>3, <1>4, <1>9, SMTT(60) DEF CacheOK, CacheIs
  <2>5. MeOK(me)
    BY <1>4, <1>7, <1>8 DEF MeOK
  <2>6. XInv(w, rest, D, R)
    BY <1>1, <1>4, <1>5, <1>6, <1>12, <2>2, <2>3, <2>4, <2>5 DEF XInv
  <2>7. Keeps(x.me, me)
    BY <1>4, <1>9 DEF Keeps, Told
  <2>8. Frame(x.pool, q, rest)
    BY DEF Frame
  <2>9. D = [C EXCEPT ![x.me.tid] = w.me.clk]
    BY <1>4, <1>6
  <2>10. After(x, w, rest, C, R)
    BY <1>4, <1>6, <2>6, <2>7, <2>8, <2>9 DEF After
  <2>11. V(w) = V(x)
    BY <1>6, <2>3 DEF V
  <2> QED BY <1>4, <1>6, <1>11, <2>1, <2>10, <2>11
<1>10. CASE clk # x.me.clk
  <2> DEFINE m1 == [me EXCEPT !.last_acquire = clk[tid]]
             w1 == X(m1, x.at, q, g)
  <2>1. /\ m1 \in ThreadClocks /\ m1.tid = tid /\ m1.clk = clk /\ m1.nclk = n /\ m1.reused = x.me.reused
        /\ m1.cached = x.me.cached /\ m1.last_acquire = clk[tid]
    BY <1>3, <1>4 DEF ThreadClocks, Clocks
  <2>2. y = ResetCached(w1)
    <3>1. [w EXCEPT !.me.last_acquire = w.me.clk[w.me.tid]] = w1
      BY <1>4, <1>6 DEF X
    <3> QED BY <1>10, <3>1 DEF AfterAcquiring
  <2> HIDE DEF m1
  <2>3. w1 \in Xs /\ w1.me = m1 /\ w1.at = x.at /\ w1.pool = q /\ w1.edges = g
    BY <1>2, <2>1, XType
  <2> HIDE DEF w1
  <2>4. x.me.cached.tab # NoBlock => q[x.me.cached.tab].ref # 0
    <3>1. ASSUME NEW b \in Blocks, b = x.me.cached.tab
          PROVE  q[b].ref # 0
      <4>1. q[b].ref = rest[b] + One(x.at.tab = b) + One(x.me.cached.tab = b)
        BY <1>1 DEF Refs
      <4>2. rest[b] \in Nat
        BY <1>1 DEF Known
      <4> QED BY <3>1, <4>1, <4>2 DEF One
    <3> QED BY <1>3, <3>1
  <2>5. PICK r, c : /\ Dropped(q, r, x.me.cached.tab)
                    /\ c \in Caches /\ c.tab = NoBlock
                    /\ y = X([m1 EXCEPT !.cached = c], x.at, r, g)
    <3>1. w1.me.cached.tab # NoBlock => w1.pool[w1.me.cached.tab].ref # 0
      BY <2>1, <2>3, <2>4
    <3>2. PICK r, c : /\ Dropped(w1.pool, r, w1.me.cached.tab)
                      /\ c \in Caches /\ c.tab = NoBlock
                      /\ ResetCached(w1) = X([w1.me EXCEPT !.cached = c], w1.at, r, w1.edges)
      BY <2>3, <3>1, ResetCachedDoes
    <3>3. Dropped(q, r, x.me.cached.tab)
      BY <2>1, <2>3, <3>2
    <3>4. y = X([m1 EXCEPT !.cached = c], x.at, r, g)
      BY <2>2, <2>3, <3>2
    <3> QED BY <3>2, <3>3, <3>4
  <2> DEFINE m2 == [m1 EXCEPT !.cached = c]
  <2>6. /\ m2 \in ThreadClocks /\ m2.tid = tid /\ m2.clk = clk /\ m2.nclk = n /\ m2.reused = x.me.reused
        /\ m2.cached.tab = NoBlock /\ m2.last_acquire = clk[tid]
    BY <2>1, <2>5 DEF ThreadClocks, Caches
  <2> HIDE DEF m2
  <2>7. r \in Pools
    BY <2>5 DEF Dropped
  <2>8. y \in Xs /\ y.me = m2 /\ y.at = x.at /\ y.pool = r /\ y.edges = g
    BY <1>2, <2>5, <2>6, <2>7, XType DEF m2
  <2> HIDE DEF y
  <2>9. ASSUME NEW b \in Blocks
        PROVE  /\ r[b].ref = rest[b] + One(x.at.tab = b)
               /\ rest[b] # 0 \/ x.at.tab = b => r[b].epoch = x.pool[b].epoch
    <3>1. /\ r[b].ref + One(x.me.cached.tab = b) = q[b].ref
          /\ r[b].ref # 0 => r[b].epoch = q[b].epoch
      BY <2>5 DEF Dropped
    <3>2. q[b].ref = rest[b] + One(x.at.tab = b) + One(x.me.cached.tab = b)
      BY <1>1 DEF Refs
    <3>3. rest[b] \in Nat /\ r[b].ref \in Nat
      BY <1>1, <2>7, BlockFields DEF Known
    <3>4. r[b].ref = rest[b] + One(x.at.tab = b)
      BY <3>1, <3>2, <3>3 DEF One
    <3> QED BY <3>1, <3>3, <3>4 DEF One
  <2>10. Refs(y, rest)
    <3>1. ASSUME NEW b \in Blocks
          PROVE  r[b].ref = rest[b] + One(x.at.tab = b) + One(m2.cached.tab = b)
      <4>1. m2.cached.tab # b /\ rest[b] \in Nat
        BY <1>1, <2>6, Numbers DEF Known
      <4> QED BY <2>9, <4>1 DEF One
    <3> QED BY <2>8, <3>1 DEF Refs
  <2>11. AtOK(x.at, r) /\ Vec(x.at, r) = Vec(x.at, x.pool)
    BY <1>1, <1>2, <2>9, SameTable
  <2>12. CacheOK(m2, r) /\ MeOK(m2)
    BY <1>7, <1>8, <2>6 DEF CacheOK, MeOK
  <2>13. FlagsOK(r, D, R)
    BY <1>1, <1>12, <2>5, DroppedFlags DEF Known
  <2>14. XInv(y, rest, D, R)
    BY <1>1, <1>5, <2>6, <2>8, <2>10, <2>11, <2>12, <2>13 DEF XInv
  <2>15. Keeps(x.me, m2)
    <3>1. ASSUME NEW vec \in Clocks, vec[tid] <= clk[tid]
          PROVE  Told(m2, vec)
      <4>1. vec[tid] \in Nat /\ clk[tid] \in Nat
        BY <1>3 DEF Clocks
      <4>2. ~ (vec[tid] > clk[tid])
        BY <3>1, <4>1
      <4> QED BY <2>6, <4>2 DEF Told
    <3> QED BY <3>1 DEF Keeps
  <2>16. Frame(x.pool, r, rest)
    BY <2>9 DEF Frame
  <2>17. D = [C EXCEPT ![x.me.tid] = y.me.clk]
    BY <2>6, <2>8
  <2>18. After(x, y, rest, C, R)
    BY <2>6, <2>8, <2>14, <2>15, <2>16, <2>17 DEF After
  <2>19. V(y) = V(x)
    BY <2>8, <2>11 DEF V
  <2> QED BY <1>11, <2>6, <2>8, <2>18, <2>19
<1> QED BY <1>9, <1>10

--------------------------------------------------------------------------------
(* Tables *)

LEMMA NatMin == ASSUME NEW T, T \subseteq Nat, T # {} PROVE \E x \in T : \A y \in T : x <= y
<1> DEFINE R == OpToRel(<, Nat)
<1>1. IsWellFoundedOn(R, Nat)
  BY NatLessThanWellFounded
<1>2. \A x, y \in Nat : <<x, y>> \in R <=> x < y
  BY DEF OpToRel
<1> HIDE DEF R
<1>3. PICK x \in T : \A y \in T : ~ (<<y, x>> \in R)
  BY <1>1, WFMin
<1>4. ASSUME NEW y \in T PROVE x <= y
  <2>1. ~ (y < x)
    BY <1>2, <1>3, Zenon
  <2> QED BY <2>1
<1> QED BY <1>4

LEMMA MinDoes == ASSUME NEW T, T \subseteq Nat, T # {} PROVE Min(T) \in T /\ \A y \in T : Min(T) <= y
<1>1. \E x \in T : \A y \in T : x <= y
  BY NatMin
<1>2. (CHOOSE x \in T : \A y \in T : x <= y) \in T
  BY <1>1
<1>3. \A y \in T : (CHOOSE x \in T : \A z \in T : x <= z) <= y
  BY <1>1
<1> QED BY <1>2, <1>3 DEF Min

LEMMA AllocDoes ==
  ASSUME NEW p, NEW b \in Blocks, p[b].ref = 0
  PROVE  Alloc(p) \in Blocks /\ p[Alloc(p)].ref = 0
<1> DEFINE free == {d \in Blocks : p[d].ref = 0}
<1>1. free \subseteq Nat /\ free # {}
  BY Numbers
<1> HIDE DEF free
<1>2. Min(free) \in free
  BY <1>1, MinDoes
<1> QED BY <1>2 DEF Alloc, free

(* There is a free block for an object that has none or shares its own.    *)
LEMMA FreeBlockFound ==
  ASSUME NEW x \in Xs, NEW rest \in [Blocks -> Nat], Refs(x, rest), Room(rest),
         x.at.tab \in Blocks => x.pool[x.at.tab].ref > 1
  PROVE  Alloc(x.pool) \in Blocks /\ x.pool[Alloc(x.pool)].ref = 0
<1>1. PICK b, d \in Blocks : b # d /\ rest[b] = 0 /\ rest[d] = 0
  BY DEF Room
<1>2. ASSUME NEW k \in Blocks PROVE x.pool[k].ref = rest[k] + One(x.at.tab = k) + One(x.me.cached.tab = k)
  BY DEF Refs
<1>3. x.at.tab \in Blocks => rest[x.at.tab] # 0 \/ x.me.cached.tab = x.at.tab
  BY <1>2 DEF One
<1>4. \/ x.at.tab # b /\ x.me.cached.tab # b
      \/ x.at.tab # d /\ x.me.cached.tab # d
  BY <1>1, <1>3
<1>5. PICK k \in Blocks : rest[k] = 0 /\ x.at.tab # k /\ x.me.cached.tab # k
  BY <1>1, <1>4
<1>6. x.pool[k].ref = 0
  BY <1>2, <1>5 DEF One
<1> QED BY <1>6, AllocDoes

(* The object has a table, which nobody else has.                          *)
Alone(x) == x.at.tab \in Blocks /\ x.pool[x.at.tab].ref = 1

LEMMA UnshareDoes ==
  ASSUME NEW x, NEW rest, NEW C, NEW R, XInv(x, rest, C, R), Room(rest)
  PROVE  LET y == Unshare(x)
         IN  /\ XInv(y, rest, C, R) /\ Frame(x.pool, y.pool, rest)
             /\ y.me = x.me /\ y.edges = x.edges /\ V(y) = V(x)
             /\ y.at.size = x.at.size /\ y.at.dirty = x.at.dirty
             /\ y.at.release_store = x.at.release_store
             /\ x.at.size # 0 => Alone(y) /\ y.pool[y.at.tab].epoch = x.pool[x.at.tab].epoch
<1>1. /\ x \in Xs /\ Known(rest, C, R) /\ Refs(x, rest) /\ AtOK(x.at, x.pool) /\ FlagsOK(x.pool, C, R)
  BY DEF XInv
<1>2. x.me \in ThreadClocks /\ x.at \in SyncClocks /\ x.pool \in Pools /\ x.edges \in SUBSET Lines
  BY <1>1, XFields
<1>3. x.at.size # 0 => x.at.tab \in Blocks
  BY <1>1, <1>2, AtFields DEF AtOK
<1>4. ASSUME NEW b \in Blocks
      PROVE  /\ x.pool[b].ref = rest[b] + One(x.at.tab = b) + One(x.me.cached.tab = b)
             /\ rest[b] \in Nat /\ x.pool[b].ref \in Nat
  BY <1>1, <1>2, BlockFields DEF Refs, Known
<1>5. CASE ~ IsShared(x)
  <2>1. Unshare(x) = x
    BY <1>5 DEF Unshare
  <2>2. x.at.size # 0 => Alone(x)
    BY <1>3, <1>4, <1>5 DEF IsShared, Tab, Alone, One
  <2>3. Frame(x.pool, x.pool, rest)
    BY DEF Frame
  <2> QED BY <2>1, <2>2, <2>3
<1>6. CASE IsShared(x)
  <2> DEFINE a == x.at.tab
             b == Alloc(x.pool)
             p == Unref(x.pool, a)
             e == [u \in Tids |-> IF u \in Elems(x) THEN Tab(x).epoch[u] ELSE 0]
             f == [u \in Tids |-> IF u \in Elems(x) THEN Tab(x).reused[u] ELSE 0]
             q == Put(p, b, 1, e, f)
             at == [x.at EXCEPT !.tab = b]
             y == X(x.me, at, q, x.edges)
  <2>1. x.at.size # 0 /\ a \in Blocks /\ x.pool[a].ref > 1
    BY <1>3, <1>6 DEF IsShared, Tab
  <2>2. b \in Blocks /\ x.pool[b].ref = 0
    BY <1>1, <1>2, <2>1, FreeBlockFound DEF Known
  <2>3. a # b
    BY <2>1, <2>2
  <2>4. /\ p \in Pools /\ \A d \in Blocks \ {a} : p[d] = x.pool[d]
        /\ p[a].ref = x.pool[a].ref - 1 /\ p[a].epoch = x.pool[a].epoch /\ p[a].reused = x.pool[a].reused
    BY <1>2, <2>1, UnrefDoes
  <2>5. e \in Clocks /\ e = x.pool[a].epoch
    <3>1. x.pool[a].epoch \in Clocks
      BY <1>2, <2>1, BlockFields
    <3>2. \A u \in Tids : ~ (u < x.at.size) => x.pool[a].epoch[u] = 0
      <4>1. TableOK(x.at, x.pool[a].epoch)
        BY <1>1 DEF AtOK
      <4> QED BY <1>2, <2>1, <4>1, AtFields, Numbers, SMTT(60) DEF TableOK
    <3>3. \A u \in Tids : e[u] = x.pool[a].epoch[u]
      BY <3>2 DEF Elems, Tab
    <3> QED BY <3>1, <3>3 DEF Clocks
  <2>6. f \in Flags /\ \A u \in Tids : f[u] = x.pool[a].reused[u] \/ f[u] = 0
    <3>1. x.pool[a].reused \in Flags
      BY <1>2, <2>1, BlockFields
    <3>2. \A u \in Tids : f[u] = x.pool[a].reused[u] \/ f[u] = 0
      BY DEF Tab
    <3>3. \A u \in Tids : f[u] \in 0..MaxReuse
      BY <3>1, <3>2 DEF Flags
    <3> QED BY <3>2, <3>3 DEF Flags
  <2>7. Unshare(x) = y
    <3>1. [FreeBlock EXCEPT !.ref = 1, !.epoch = e, !.reused = f] = [ref |-> 1, epoch |-> e, reused |-> f]
      <4> HIDE DEF e, f
      <4>1. Block(FreeBlock, 1, e, f) = [ref |-> 1, epoch |-> e, reused |-> f]
        BY Zeros, BlockIs
      <4> QED BY <4>1 DEF Block
    <3>2. Unshare(x) = [x EXCEPT !.pool = q, !.at.tab = b]
      BY <1>6, <3>1 DEF Unshare, Put
    <3> HIDE DEF q, b
    <3>3. [x EXCEPT !.pool = q, !.at.tab = b] = [x EXCEPT !.pool = q, !.at = [x.at EXCEPT !.tab = b]]
      BY <1>1 DEF Xs
    <3> HIDE DEF at
    <3>4. PoolAt(x, q, at) = y
      BY <1>1, PoolAtIs
    <3> QED BY <3>2, <3>3, <3>4 DEF at, PoolAt
  <2> HIDE DEF e, f, b, p
  <2>8. /\ q \in Pools /\ \A d \in Blocks \ {b} : q[d] = p[d]
        /\ q[b].ref = 1 /\ q[b].epoch = e /\ q[b].reused = f
    BY <2>2, <2>4, <2>5, <2>6, PutDoes, SMTT(30)
  <2> HIDE DEF q
  <2>9. /\ at \in SyncClocks /\ at.tab = b /\ at.size = x.at.size /\ at.dirty = x.at.dirty
        /\ at.release_store = x.at.release_store
    BY <1>2, <2>2 DEF SyncClocks
  <2> HIDE DEF at
  <2>10. y \in Xs /\ y.me = x.me /\ y.at = at /\ y.pool = q /\ y.edges = x.edges
    BY <1>2, <2>8, <2>9, XType
  <2>11. SlotsOK(at.dirty) /\ TableOK(at, q[b].epoch)
    <3>1. TableOK(x.at, x.pool[a].epoch) /\ SlotsOK(x.at.dirty)
      BY <1>1 DEF AtOK
    <3> HIDE DEF a
    <3> QED BY <2>5, <2>8, <2>9, <3>1, SMTT(60) DEF TableOK
  <2>12. FlagOK(q[b].epoch, q[b].reused, C, R)
    <3>1. FlagOK(x.pool[a].epoch, x.pool[a].reused, C, R)
      BY <1>1, <2>1 DEF FlagsOK
    <3>2. R \in [Tids -> 1..MaxReuse]
      BY <1>1 DEF Known
    <3>3. ASSUME NEW v \in Tids
          PROVE  /\ f[v] <= R[v]
                 /\ f[v] = R[v] => \A u \in Tids : e[u] <= C[v][u]
      <4>1. R[v] \in 1..MaxReuse
        BY <3>2
      <4>2. CASE f[v] = 0
        BY <4>1, <4>2
      <4>3. CASE f[v] = x.pool[a].reused[v]
        BY <2>5, <3>1, <4>3 DEF FlagOK
      <4> QED BY <2>6, <4>2, <4>3
    <3> QED BY <2>8, <3>3 DEF FlagOK
  <2>13. \A d \in Blocks \ {b} : q[d].epoch = x.pool[d].epoch /\ q[d].reused = x.pool[d].reused
    <3>1. ASSUME NEW d \in Blocks \ {b} PROVE q[d].epoch = x.pool[d].epoch /\ q[d].reused = x.pool[d].reused
      <4>1. CASE d = a
        BY <2>4, <2>8, <4>1
      <4>2. CASE d # a
        BY <2>4, <2>8, <4>2
      <4> QED BY <4>1, <4>2
    <3> QED BY <3>1
  <2>14. Refs(y, rest)
    <3>1. ASSUME NEW d \in Blocks
          PROVE  q[d].ref = rest[d] + One(b = d) + One(x.me.cached.tab = d)
      <4>0. /\ x.pool[d].ref = rest[d] + One(a = d) + One(x.me.cached.tab = d)
            /\ rest[d] \in Nat /\ x.pool[d].ref \in Nat
        BY <1>4
      <4>1. CASE d = b
        <5>1. q[d].ref = 1 /\ x.pool[d].ref = 0 /\ a # d
          BY <2>2, <2>3, <2>8, <4>1
        <5> QED BY <4>0, <4>1, <5>1 DEF One
      <4>2. CASE d # b /\ d = a
        <5>1. q[d].ref = x.pool[d].ref - 1
          BY <2>4, <2>8, <4>2
        <5> QED BY <4>0, <4>2, <5>1 DEF One
      <4>3. CASE d # b /\ d # a
        <5>1. q[d].ref = x.pool[d].ref
          BY <2>4, <2>8, <4>3
        <5> QED BY <4>0, <4>3, <5>1 DEF One
      <4> QED BY <4>1, <4>2, <4>3
    <3> QED BY <2>9, <2>10, <3>1 DEF Refs
  <2>15. XInv(y, rest, C, R) /\ Frame(x.pool, q, rest)
    BY <2>1, <2>2, <2>8, <2>9, <2>11, <2>12, <2>13, <2>14, Written
  <2>16. V(y) = V(x)
    <3>1. V(y) = VecOf(at, e)
      BY <2>8, <2>9, <2>10 DEF V, Vec
    <3>2. V(x) = VecOf(x.at, e)
      BY <2>5 DEF V, Vec
    <3>3. VecOf(at, e) = VecOf(x.at, e)
      BY <2>9 DEF VecOf, DirtyTids, DirtyEpoch
    <3> QED BY <3>1, <3>2, <3>3
  <2>17. Alone(y) /\ y.pool[y.at.tab].epoch = x.pool[x.at.tab].epoch
    BY <2>2, <2>5, <2>8, <2>9, <2>10 DEF Alone
  <2> HIDE DEF y
  <2> QED BY <2>7, <2>9, <2>10, <2>15, <2>16, <2>17
<1> QED BY <1>5, <1>6

(* A block with other epochs or flags.                                     *)
Epochs(p, b, e) == [p EXCEPT ![b].epoch = e]
Reuseds(p, b, f) == [p EXCEPT ![b].reused = f]
RefsOf(p, b, n) == [p EXCEPT ![b].ref = n]

LEMMA EpochsIs ==
  ASSUME NEW p \in Pools, NEW b \in Blocks, NEW e
  PROVE  Epochs(p, b, e) = Put(p, b, p[b].ref, e, p[b].reused)
<1>1. \E n, d, f : p[b] = [ref |-> n, epoch |-> d, reused |-> f]
  <2>1. p[b] = [ref |-> p[b].ref, epoch |-> p[b].epoch, reused |-> p[b].reused]
    BY BlockFields
  <2> QED BY <2>1, Zenon
<1>2. PICK n, d, f : p[b] = [ref |-> n, epoch |-> d, reused |-> f]
  BY <1>1
<1>3. p[b].ref = n /\ p[b].reused = f
  BY <1>2
<1>4. [p[b] EXCEPT !.epoch = e] = [ref |-> n, epoch |-> e, reused |-> f]
  BY <1>2
<1>5. Epochs(p, b, e) = [p EXCEPT ![b] = [ref |-> n, epoch |-> e, reused |-> f]]
  BY <1>4 DEF Epochs
<1> QED BY <1>3, <1>5 DEF Put

LEMMA ReusedsIs ==
  ASSUME NEW p \in Pools, NEW b \in Blocks, NEW f
  PROVE  Reuseds(p, b, f) = Put(p, b, p[b].ref, p[b].epoch, f)
<1>1. \E n, d, e : p[b] = [ref |-> n, epoch |-> d, reused |-> e]
  <2>1. p[b] = [ref |-> p[b].ref, epoch |-> p[b].epoch, reused |-> p[b].reused]
    BY BlockFields
  <2> QED BY <2>1, Zenon
<1>2. PICK n, d, e : p[b] = [ref |-> n, epoch |-> d, reused |-> e]
  BY <1>1
<1>3. p[b].ref = n /\ p[b].epoch = d
  BY <1>2
<1>4. [p[b] EXCEPT !.reused = f] = [ref |-> n, epoch |-> d, reused |-> f]
  BY <1>2
<1>5. Reuseds(p, b, f) = [p EXCEPT ![b] = [ref |-> n, epoch |-> d, reused |-> f]]
  BY <1>4 DEF Reuseds
<1> QED BY <1>3, <1>5 DEF Put

LEMMA PutPut ==
  ASSUME NEW p \in Pools, NEW b \in Blocks, NEW n1, NEW e1, NEW f1, NEW n, NEW e, NEW f
  PROVE  Put(Put(p, b, n1, e1, f1), b, n, e, f) = Put(p, b, n, e, f)
<1> DEFINE k1 == [ref |-> n1, epoch |-> e1, reused |-> f1]
           k == [ref |-> n, epoch |-> e, reused |-> f]
<1> HIDE DEF k1, k
<1>1. [[p EXCEPT ![b] = k1] EXCEPT ![b] = k] = [p EXCEPT ![b] = k]
  BY DEF Pools
<1> QED BY <1>1 DEF Put, k1, k

(* FlushDirty *)
Flushed(x) ==
  [u \in Tids |-> IF u \in DirtyTids(x.at) THEN DirtyEpoch(x.at, u) ELSE x.pool[x.at.tab].epoch[u]]

LEMMA FlushDirtyIs ==
  ASSUME NEW x \in Xs, x.at.tab \in Blocks
  PROVE  FlushDirty(x) = X(x.me, [x.at EXCEPT !.dirty = NoDirty],
                           Put(x.pool, x.at.tab, x.pool[x.at.tab].ref, Flushed(x), x.pool[x.at.tab].reused),
                           x.edges)
<1> DEFINE e == Flushed(x)
           q == Epochs(x.pool, x.at.tab, e)
           at == [x.at EXCEPT !.dirty = NoDirty]
<1>1. FlushDirty(x) = [x EXCEPT !.pool = q, !.at.dirty = NoDirty]
  BY DEF FlushDirty, Flushed, Epochs
<1> HIDE DEF e, q
<1>2. [x EXCEPT !.pool = q, !.at.dirty = NoDirty] = [x EXCEPT !.pool = q, !.at = [x.at EXCEPT !.dirty = NoDirty]]
  BY DEF Xs
<1> HIDE DEF at
<1>3. PoolAt(x, q, at) = X(x.me, at, q, x.edges)
  BY PoolAtIs
<1>4. q = Put(x.pool, x.at.tab, x.pool[x.at.tab].ref, e, x.pool[x.at.tab].reused)
  <2>1. x.pool \in Pools
    BY XFields
  <2> QED BY <2>1, EpochsIs DEF q
<1> QED BY <1>1, <1>2, <1>3, <1>4 DEF PoolAt, at, e

LEMMA FlushedIsClock ==
  ASSUME NEW x \in Xs, AtOK(x.at, x.pool), x.at.size # 0
  PROVE  Flushed(x) = V(x) /\ V(x) \in Clocks
<1>0. x.at \in SyncClocks /\ x.pool \in Pools
  BY XFields
<1>1. V(x) \in Clocks /\ x.at.tab \in Blocks /\ x.pool[x.at.tab].epoch \in Clocks
  BY <1>0, VecFacts DEF V
<1>2. SlotsOK(x.at.dirty) /\ TableOK(x.at, x.pool[x.at.tab].epoch)
  BY DEF AtOK
<1>3. \A u \in Tids : V(x)[u] = Flushed(x)[u]
  <2> DEFINE e == x.pool[x.at.tab].epoch
  <2> HIDE DEF e
  <2>1. \A u \in Tids : VecOf(x.at, e)[u] = (IF u \in DirtyTids(x.at) THEN DirtyEpoch(x.at, u) ELSE e[u])
    BY <1>0, <1>1, <1>2, TableIsEarlier DEF e
  <2> QED BY <2>1 DEF V, Vec, Flushed, e
<1> QED BY <1>1, <1>3 DEF Flushed, Clocks

(* Resize *)
LEMMA ResizeDoes ==
  ASSUME NEW x, NEW rest, NEW C, NEW R, XInv(x, rest, C, R), Room(rest)
  PROVE  LET y == Resize(x)
         IN  /\ XInv(y, rest, C, R) /\ Frame(x.pool, y.pool, rest)
             /\ y.me = x.me /\ y.edges = x.edges /\ V(y) = V(x)
             /\ y.at.dirty = x.at.dirty /\ y.at.release_store = x.at.release_store
             /\ x.me.nclk <= y.at.size /\ y.at.size # 0 /\ y.at.tab \in Blocks
             /\ x.at.size # 0 => y.pool[y.at.tab].epoch = x.pool[x.at.tab].epoch
<1> DEFINE n == x.me.nclk
<1>1. /\ x \in Xs /\ Known(rest, C, R) /\ Refs(x, rest) /\ AtOK(x.at, x.pool) /\ FlagsOK(x.pool, C, R)
  BY DEF XInv
<1>2. x.me \in ThreadClocks /\ x.at \in SyncClocks /\ x.pool \in Pools /\ x.edges \in SUBSET Lines
  BY <1>1, XFields
<1>3. n \in 1..NThreads /\ n \in Nat /\ n # 0 /\ x.at.size \in Nat
  BY <1>2, MeFields, AtFields, Numbers
<1>4. CASE x.at.size >= n
  <2>1. Resize(x) = x
    BY <1>4 DEF Resize
  <2>2. x.at.size # 0 /\ x.at.tab \in Blocks
    BY <1>1, <1>2, <1>3, <1>4, AtFields DEF AtOK
  <2>3. Frame(x.pool, x.pool, rest)
    BY DEF Frame
  <2> QED BY <1>3, <1>4, <2>1, <2>2, <2>3
<1>5. CASE ~ (x.at.size >= n) /\ x.at.size # 0
  <2> DEFINE y == Unshare(x)
             b == y.at.tab
             e == y.pool[b].epoch
             at == [y.at EXCEPT !.size = n]
             z == X(y.me, at, y.pool, y.edges)
  <2>1. /\ XInv(y, rest, C, R) /\ Frame(x.pool, y.pool, rest)
        /\ y.me = x.me /\ y.edges = x.edges /\ V(y) = V(x)
        /\ y.at.size = x.at.size /\ y.at.dirty = x.at.dirty
        /\ y.at.release_store = x.at.release_store
        /\ Alone(y) /\ e = x.pool[x.at.tab].epoch
    BY <1>5, UnshareDoes
  <2>2. Resize(x) = [y EXCEPT !.at.size = n]
    <3>1. y.at.size # 0
      BY <1>5, <2>1
    <3> QED BY <1>5, <3>1 DEF Resize
  <2> HIDE DEF y
  <2>3. y \in Xs /\ AtOK(y.at, y.pool) /\ Refs(y, rest) /\ FlagsOK(y.pool, C, R)
    BY <2>1 DEF XInv
  <2>4. y.me \in ThreadClocks /\ y.at \in SyncClocks /\ y.pool \in Pools /\ y.edges \in SUBSET Lines
    BY <2>3, XFields
  <2>5. Resize(x) = z
    <3>1. OnlyAt(y, at) = z
      <4> HIDE DEF at
      <4> QED BY <2>3, OnlyAtIs
    <3> QED BY <2>2, <3>1 DEF OnlyAt
  <2>6. /\ at \in SyncClocks /\ at.tab = b /\ at.size = n /\ at.dirty = x.at.dirty
        /\ at.release_store = x.at.release_store
    BY <1>3, <2>1, <2>4 DEF SyncClocks
  <2> HIDE DEF at
  <2>7. z \in Xs /\ z.me = x.me /\ z.at = at /\ z.pool = y.pool /\ z.edges = x.edges
    BY <1>2, <2>1, <2>4, <2>6, XType
  <2>8. b \in Blocks /\ y.pool[b].ref = 1 /\ e \in Clocks
    BY <2>1, <2>4, BlockFields DEF Alone
  <2>9. SlotsOK(y.at.dirty) /\ TableOK(y.at, e)
    BY <2>3 DEF AtOK
  <2> HIDE DEF b, e
  <2>10. TableOK(at, e)
    <3>1. \A u \in Tids : n <= u => e[u] = 0
      <4>1. \A u \in Tids : n <= u => x.at.size <= u
        <5> DEFINE m == x.at.size
        <5>1. n \in Nat /\ m \in Nat /\ ~ (m >= n) /\ Tids \subseteq Nat
          BY <1>3, <1>5, Numbers
        <5> HIDE DEF n, m
        <5>2. \A u \in Tids : n <= u => m <= u
          BY <5>1
        <5> QED BY <5>2 DEF m
      <4> QED BY <1>5, <2>1, <2>9, <4>1 DEF TableOK
    <3> QED BY <1>3, <2>1, <2>6, <2>9, <3>1 DEF TableOK
  <2>11. SlotsOK(at.dirty)
    BY <2>1, <2>6, <2>9
  <2>12. Refs(z, rest)
    BY <2>1, <2>3, <2>6, <2>7 DEF Refs, b
  <2>13. FlagOK(e, y.pool[b].reused, C, R)
    BY <2>3, <2>8 DEF FlagsOK, e
  <2>14. XInv(z, rest, C, R)
    <3>1. at.size # 0
      BY <1>3, <2>6
    <3> HIDE DEF n
    <3> QED BY <2>1, <2>4, <2>6, <2>8, <2>10, <2>11, <2>12, <2>13, <3>1, Written DEF e
  <2>15. V(z) = V(x)
    <3>1. V(z) = VecOf(at, e) /\ V(y) = VecOf(y.at, e)
      BY <2>6, <2>7 DEF V, Vec, e, b
    <3>2. DirtyTids(at) = DirtyTids(y.at) /\ \A u : DirtyEpoch(at, u) = DirtyEpoch(y.at, u)
      BY <2>1, <2>6 DEF DirtyTids, DirtyEpoch
    <3>3. \A u \in Tids : VecOf(at, e)[u] = (IF u \in DirtyTids(at) THEN DirtyEpoch(at, u) ELSE e[u])
      BY <1>3, <2>6, <2>8, <2>10, <2>11, TableIsEarlier
    <3>4. \A u \in Tids : VecOf(y.at, e)[u] = (IF u \in DirtyTids(y.at) THEN DirtyEpoch(y.at, u) ELSE e[u])
      BY <1>5, <2>1, <2>4, <2>8, <2>9, TableIsEarlier
    <3>5. \A u \in Tids : VecOf(at, e)[u] = VecOf(y.at, e)[u]
      BY <3>2, <3>3, <3>4
    <3>6. VecOf(at, e) = VecOf(y.at, e)
      BY <3>5 DEF VecOf
    <3> QED BY <2>1, <3>1, <3>6
  <2> HIDE DEF z, n
  <2>16. x.me.nclk <= z.at.size /\ z.at.size # 0 /\ z.at.tab \in Blocks
         /\ z.pool[z.at.tab].epoch = x.pool[x.at.tab].epoch
    <3>1. x.me.nclk <= n
      BY <1>3 DEF n
    <3>2. n # 0
      BY <1>3
    <3>3. z.pool[z.at.tab].epoch = e
      BY <2>6, <2>7 DEF e
    <3> QED BY <2>1, <2>6, <2>7, <2>8, <3>1, <3>2, <3>3
  <2> QED BY <2>1, <2>5, <2>6, <2>7, <2>14, <2>15, <2>16
<1>6. CASE x.at.size = 0
  <2> DEFINE b == Alloc(x.pool)
             q == Put(x.pool, b, 1, AllZero, AllZero)
             at1 == [x.at EXCEPT !.tab = b]
             at == [at1 EXCEPT !.size = n]
             z == X(x.me, at, q, x.edges)
  <2>1. x.at.tab = NoBlock
    BY <1>1, <1>6 DEF AtOK
  <2>2. b \in Blocks /\ x.pool[b].ref = 0
    BY <1>1, <2>1, Numbers, FreeBlockFound DEF Known
  <2>3. Unshare(x) = x
    BY <1>6 DEF Unshare, IsShared
  <2>4. Resize(x) = [[x EXCEPT !.pool[b] = [FreeBlock EXCEPT !.ref = 1], !.at.tab = b] EXCEPT !.at.size = n]
    <3>1. ~ (x.at.size >= n)
      BY <1>3, <1>6
    <3> HIDE DEF n
    <3> QED BY <1>6, <2>3, <3>1 DEF Resize, n
  <2>5. [FreeBlock EXCEPT !.ref = 1] = [ref |-> 1, epoch |-> AllZero, reused |-> AllZero]
    BY DEF FreeBlock
  <2>6. /\ q \in Pools /\ \A d \in Blocks \ {b} : q[d] = x.pool[d]
        /\ q[b].ref = 1 /\ q[b].epoch = AllZero /\ q[b].reused = AllZero
    BY <1>2, <2>2, Zeros, PutDoes
  <2>7. /\ at1 \in SyncClocks /\ at1.tab = b /\ at1.size = x.at.size /\ at1.dirty = x.at.dirty
        /\ at1.release_store = x.at.release_store
    BY <1>2, <2>2 DEF SyncClocks
  <2> HIDE DEF b
  <2>8. [x EXCEPT !.pool[b] = [FreeBlock EXCEPT !.ref = 1], !.at.tab = b] = X(x.me, at1, q, x.edges)
    <3>1. [x EXCEPT !.pool[b] = [FreeBlock EXCEPT !.ref = 1], !.at.tab = b] = [x EXCEPT !.pool = q, !.at.tab = b]
      BY <2>5 DEF Put
    <3> HIDE DEF q
    <3>2. [x EXCEPT !.pool = q, !.at.tab = b] = [x EXCEPT !.pool = q, !.at = [x.at EXCEPT !.tab = b]]
      BY <1>1 DEF Xs
    <3> HIDE DEF at1
    <3>3. PoolAt(x, q, at1) = X(x.me, at1, q, x.edges)
      BY <1>1, PoolAtIs
    <3> QED BY <3>1, <3>2, <3>3 DEF at1, PoolAt
  <2> HIDE DEF q, at1
  <2>9. Resize(x) = z
    <3> DEFINE w == X(x.me, at1, q, x.edges)
    <3>1. w \in Xs /\ w.me = x.me /\ w.at = at1 /\ w.pool = q /\ w.edges = x.edges
      BY <1>2, <2>6, <2>7, XType
    <3>2. Resize(x) = [w EXCEPT !.at.size = n]
      BY <2>4, <2>8
    <3> HIDE DEF w
    <3>3. OnlyAt(w, at) = z
      <4> HIDE DEF at
      <4>1. OnlyAt(w, at) = X(w.me, at, w.pool, w.edges)
        BY <3>1, OnlyAtIs
      <4> QED BY <3>1, <4>1
    <3>4. [w EXCEPT !.at.size = n] = [w EXCEPT !.at = [w.at EXCEPT !.size = n]]
      OBVIOUS
    <3> QED BY <3>1, <3>2, <3>3, <3>4 DEF OnlyAt
  <2>10. /\ at \in SyncClocks /\ at.tab = b /\ at.size = n /\ at.dirty = x.at.dirty
         /\ at.release_store = x.at.release_store
    BY <1>3, <2>7 DEF SyncClocks
  <2> HIDE DEF at
  <2>11. z \in Xs /\ z.me = x.me /\ z.at = at /\ z.pool = q /\ z.edges = x.edges
    BY <1>2, <2>6, <2>10, XType
  <2>12. SlotsOK(x.at.dirty) /\ DirtyTids(x.at) = {} /\ V(x) = AllZero
         /\ \A i \in DirtySlots : x.at.dirty[i].tid = NoTid
    <3>1. TableOK(x.at, x.pool[x.at.tab].epoch) /\ SlotsOK(x.at.dirty)
      BY <1>1 DEF AtOK
    <3> QED BY <1>2, <1>6, <3>1, EmptyVec DEF V, Vec, TableOK
  <2>13. TableOK(at, AllZero) /\ SlotsOK(at.dirty)
    BY <2>10, <2>12, Zeros DEF TableOK
  <2>14. FlagOK(AllZero, AllZero, C, R)
    BY <1>1, NoFlags DEF Known
  <2>15. Refs(z, rest)
    <3>1. ASSUME NEW d \in Blocks
          PROVE  q[d].ref = rest[d] + One(b = d) + One(x.me.cached.tab = d)
      <4>0. /\ x.pool[d].ref = rest[d] + One(x.at.tab = d) + One(x.me.cached.tab = d)
            /\ rest[d] \in Nat /\ x.pool[d].ref \in Nat /\ x.at.tab # d
        BY <1>1, <1>2, <2>1, Numbers, BlockFields DEF Refs, Known
      <4>1. CASE d = b
        BY <2>2, <2>6, <4>0, <4>1 DEF One
      <4>2. CASE d # b
        BY <2>6, <4>0, <4>2 DEF One
      <4> QED BY <4>1, <4>2
    <3> QED BY <2>10, <2>11, <3>1 DEF Refs
  <2>16. XInv(z, rest, C, R) /\ Frame(x.pool, q, rest)
    <3>1. at.size # 0
      BY <1>3, <2>10
    <3>2. \A d \in Blocks \ {b} : q[d].epoch = x.pool[d].epoch /\ q[d].reused = x.pool[d].reused
      BY <2>6
    <3> HIDE DEF n
    <3> QED BY <2>2, <2>6, <2>10, <2>13, <2>14, <2>15, <3>1, <3>2, Written
  <2>17. V(z) = AllZero
    <3>1. V(z) = VecOf(at, AllZero)
      BY <2>6, <2>10, <2>11 DEF V, Vec
    <3>2. DirtyTids(at) = {}
      BY <2>10, <2>12 DEF DirtyTids
    <3> QED BY <3>1, <3>2, Zeros DEF VecOf, AllZero
  <2> HIDE DEF z
  <2>18. x.me.nclk <= z.at.size /\ z.at.size # 0 /\ z.at.tab \in Blocks
    BY <1>3, <2>2, <2>10, <2>11
  <2> QED BY <1>6, <2>9, <2>10, <2>11, <2>12, <2>16, <2>17, <2>18
<1> QED BY <1>4, <1>5, <1>6

--------------------------------------------------------------------------------
(* Releases *)

(* The thread's dirty entry, in its own slot or in the first free one.     *)
OwnSlots(at, tid) == {i \in DirtySlots : at.dirty[i].tid \in {tid, NoTid}}
Noted(at, tid, n) == [at EXCEPT !.dirty[Min(OwnSlots(at, tid))] = [tid |-> tid, epoch |-> n]]

LEMMA DirtySet ==
  ASSUME NEW at \in SyncClocks, NEW tid \in Tids, NEW n \in Nat, NEW e \in Clocks,
         SlotsOK(at.dirty), TableOK(at, e), at.size # 0, e[tid] # 0, e[tid] <= n,
         OwnSlots(at, tid) # {}
  PROVE  LET now == Noted(at, tid, n)
         IN  /\ now \in SyncClocks /\ now.tab = at.tab /\ now.size = at.size
             /\ now.release_store = at.release_store
             /\ SlotsOK(now.dirty) /\ TableOK(now, e)
             /\ VecOf(now, e) = [VecOf(at, e) EXCEPT ![tid] = n]
<1> DEFINE slots == {i \in DirtySlots : at.dirty[i].tid \in {tid, NoTid}}
           k == Min(slots)
           d == [tid |-> tid, epoch |-> n]
           dirty == [at.dirty EXCEPT ![k] = d]
           now == [at EXCEPT !.dirty = dirty]
<1>1. slots \subseteq Nat /\ slots # {}
  BY Numbers DEF OwnSlots
<1>2. k \in slots /\ \A j \in slots : k <= j
  <2> HIDE DEF slots
  <2> QED BY <1>1, MinDoes
<1>3. k \in DirtySlots /\ at.dirty[k].tid \in {tid, NoTid}
      /\ \A j \in DirtySlots : at.dirty[j].tid \in {tid, NoTid} => k <= j
  BY <1>2
<1>4. d \in DirtyEntries /\ d.tid = tid /\ d.epoch = n /\ tid # NoTid
  BY Numbers DEF DirtyEntries
<1>5. at.dirty \in [DirtySlots -> DirtyEntries]
  BY AtFields
<1> HIDE DEF k, d
<1>6. /\ dirty \in [DirtySlots -> DirtyEntries] /\ dirty[k] = d
      /\ \A i \in DirtySlots \ {k} : dirty[i] = at.dirty[i]
  BY <1>3, <1>4, <1>5
<1> HIDE DEF dirty
<1>7. /\ now \in SyncClocks /\ now.tab = at.tab /\ now.size = at.size /\ now.dirty = dirty
      /\ now.release_store = at.release_store
  BY <1>6 DEF SyncClocks
<1> HIDE DEF now
<1>8. DirtySlots \subseteq Nat
  BY Numbers
(* Nobody else has an entry for the thread.                                *)
<1>9. \A i \in DirtySlots \ {k} : at.dirty[i].tid # tid
  <2>1. ASSUME NEW i \in DirtySlots, i # k, at.dirty[i].tid = tid
        PROVE  FALSE
    <3>1. k < i
      BY <1>3, <1>8, <2>1
    <3>2. CASE at.dirty[k].tid = tid
      BY <1>3, <1>4, <2>1, <3>2 DEF SlotsOK
    <3>3. CASE at.dirty[k].tid = NoTid
      BY <1>3, <1>4, <2>1, <3>1, <3>3 DEF SlotsOK
    <3> QED BY <1>3, <3>2, <3>3
  <2> QED BY <2>1
<1>10. SlotsOK(dirty)
  <2>1. ASSUME NEW i \in DirtySlots, NEW j \in DirtySlots, i < j, dirty[i].tid = NoTid
        PROVE  dirty[j].tid = NoTid
    <3>1. i # k
      BY <1>4, <1>6, <2>1
    <3>2. at.dirty[i].tid = NoTid
      BY <1>6, <2>1, <3>1
    <3>3. k <= i
      BY <1>3, <3>2
    <3>4. j # k
      BY <1>3, <1>8, <2>1, <3>3
    <3>5. at.dirty[j].tid = NoTid
      BY <2>1, <3>2 DEF SlotsOK
    <3> QED BY <1>6, <3>4, <3>5
  <2>2. ASSUME NEW i \in DirtySlots, NEW j \in DirtySlots, i # j, dirty[i].tid = dirty[j].tid
        PROVE  dirty[i].tid = NoTid
    <3>1. CASE i = k
      BY <1>4, <1>6, <1>9, <2>2, <3>1
    <3>2. CASE j = k
      BY <1>4, <1>6, <1>9, <2>2, <3>2
    <3>3. CASE i # k /\ j # k
      BY <1>6, <2>2, <3>3 DEF SlotsOK
    <3> QED BY <3>1, <3>2, <3>3
  <2> QED BY <2>1, <2>2 DEF SlotsOK
<1>11. TableOK(now, e)
  <2>1. ASSUME NEW i \in DirtySlots, dirty[i].tid # NoTid
        PROVE  e[dirty[i].tid] # 0 /\ e[dirty[i].tid] <= dirty[i].epoch
    <3>1. CASE i = k
      BY <1>4, <1>6, <3>1
    <3>2. CASE i # k
      BY <1>6, <2>1, <3>2 DEF TableOK
    <3> QED BY <3>1, <3>2
  <2> QED BY <1>7, <2>1 DEF TableOK
<1>12. VecOf(now, e) = [VecOf(at, e) EXCEPT ![tid] = n]
  <2> DEFINE old == VecOf(at, e)
  <2>1. old \in Clocks
    BY VecType
  <2>2. \A u \in Tids : old[u] = (IF u \in DirtyTids(at) THEN DirtyEpoch(at, u) ELSE e[u])
    BY TableIsEarlier
  <2>3. \A u \in Tids : VecOf(now, e)[u] = (IF u \in DirtyTids(now) THEN DirtyEpoch(now, u) ELSE e[u])
    BY <1>7, <1>10, <1>11, TableIsEarlier
  <2> HIDE DEF old
  <2>4. tid \in DirtyTids(now) /\ DirtyEpoch(now, tid) = n
    BY <1>3, <1>4, <1>6, <1>7, <1>10, DirtyFound
  <2>5. ASSUME NEW u \in Tids, u # tid
        PROVE  VecOf(now, e)[u] = old[u]
    <3>0. u # NoTid
      BY Numbers
    <3>1. CASE u \in DirtyTids(at)
      <4>1. PICK i \in DirtySlots : at.dirty[i].tid = u /\ DirtyEpoch(at, u) = at.dirty[i].epoch
        BY <3>1, DirtyPicked
      <4>2. i # k
        BY <1>3, <2>5, <3>0, <4>1
      <4>3. dirty[i].tid = u /\ dirty[i].epoch = DirtyEpoch(at, u)
        BY <1>6, <4>1, <4>2
      <4>4. u \in DirtyTids(now) /\ DirtyEpoch(now, u) = DirtyEpoch(at, u)
        BY <1>7, <1>10, <3>0, <4>3, DirtyFound
      <4> QED BY <2>2, <2>3, <3>1, <4>4
    <3>2. CASE u \notin DirtyTids(at)
      <4>1. u \notin DirtyTids(now)
        <5>1. \A i \in DirtySlots : dirty[i].tid # u
          <6>1. ASSUME NEW i \in DirtySlots, dirty[i].tid = u PROVE FALSE
            <7>1. CASE i = k
              BY <1>4, <1>6, <2>5, <6>1, <7>1
            <7>2. CASE i # k
              BY <1>6, <3>0, <3>2, <6>1, <7>2 DEF DirtyTids
            <7> QED BY <7>1, <7>2
          <6> QED BY <6>1
        <5> QED BY <1>7, <5>1 DEF DirtyTids
      <4> QED BY <2>2, <2>3, <3>2, <4>1
    <3> QED BY <3>1, <3>2
  <2>6. \A u \in Tids : VecOf(now, e)[u] = [old EXCEPT ![tid] = n][u]
    BY <2>1, <2>3, <2>4, <2>5 DEF Clocks
  <2>7. VecOf(now, e) \in Clocks
    BY <1>7, <1>10, VecType
  <2>8. VecOf(now, e) = [old EXCEPT ![tid] = n]
    BY <2>1, <2>6, <2>7 DEF Clocks
  <2> QED BY <2>8 DEF old
<1>13. now = [at EXCEPT !.dirty[k] = d]
  BY DEF now, dirty
<1>14. now = Noted(at, tid, n)
  BY <1>13 DEF k, d, Noted, OwnSlots
<1> QED BY <1>7, <1>10, <1>11, <1>12, <1>14

(* UpdateCurrentThread sets the component of the thread, which the table   *)
(* has already.                                                            *)
LEMMA UpdateCurrentThreadDoes ==
  ASSUME NEW x, NEW rest, NEW C, NEW R, XInv(x, rest, C, R), Room(rest), x.at.size # 0,
         x.pool[x.at.tab].epoch[x.me.tid] # 0,
         V(x)[x.me.tid] <= x.me.clk[x.me.tid]
  PROVE  LET y == UpdateCurrentThread(x)
         IN  /\ XInv(y, rest, C, R) /\ Frame(x.pool, y.pool, rest)
             /\ y.me = x.me /\ y.edges = x.edges /\ y.at.release_store = x.at.release_store
             /\ y.at.size = x.at.size
             /\ V(y) = [V(x) EXCEPT ![x.me.tid] = x.me.clk[x.me.tid]]
<1> DEFINE tid == x.me.tid
           n == x.me.clk[x.me.tid]
           slots == {i \in DirtySlots : x.at.dirty[i].tid \in {tid, NoTid}}
           old == x.pool[x.at.tab].epoch
<1>1. /\ x \in Xs /\ Known(rest, C, R) /\ Refs(x, rest) /\ AtOK(x.at, x.pool) /\ FlagsOK(x.pool, C, R)
      /\ CacheOK(x.me, x.pool) /\ MeOK(x.me) /\ C[x.me.tid] = x.me.clk /\ R[x.me.tid] = x.me.reused
  BY DEF XInv
<1>2. x.me \in ThreadClocks /\ x.at \in SyncClocks /\ x.pool \in Pools /\ x.edges \in SUBSET Lines
  BY <1>1, XFields
<1>3. tid \in Tids /\ n \in Nat
  BY <1>2, MeFields DEF Clocks
<1>4. /\ V(x) \in Clocks /\ x.at.tab \in Blocks /\ old \in Clocks
      /\ SlotsOK(x.at.dirty) /\ TableOK(x.at, old)
      /\ old[tid] <= V(x)[tid]
  BY <1>1, <1>2, <1>3, VecFacts DEF V, AtOK
<1>5. old[tid] # 0 /\ old[tid] <= n
  <2>1. old[tid] \in Nat /\ V(x)[tid] \in Nat
    BY <1>3, <1>4 DEF Clocks
  <2>2. V(x)[tid] <= n
    OBVIOUS
  <2> QED BY <1>3, <1>4, <2>1, <2>2, SMTT(60)
<1>6. CASE slots # {}
  <2> DEFINE k == Min(slots)
             at == Noted(x.at, tid, n)
             y == X(x.me, at, x.pool, x.edges)
  <2>1. /\ at \in SyncClocks /\ at.tab = x.at.tab /\ at.size = x.at.size
        /\ at.release_store = x.at.release_store
        /\ SlotsOK(at.dirty) /\ TableOK(at, old)
        /\ VecOf(at, old) = [VecOf(x.at, old) EXCEPT ![tid] = n]
    <3> HIDE DEF old, n, tid
    <3>1. OwnSlots(x.at, tid) # {}
      BY <1>6 DEF OwnSlots
    <3> QED BY <1>2, <1>3, <1>4, <1>5, <3>1, DirtySet
  <2>2. UpdateCurrentThread(x) = y
    <3>1. UpdateCurrentThread(x) = [x EXCEPT !.at.dirty[k] = [tid |-> tid, epoch |-> n]]
      BY <1>6 DEF UpdateCurrentThread
    <3>2. UpdateCurrentThread(x) = OnlyAt(x, at)
      BY <3>1 DEF OnlyAt, Noted, OwnSlots
    <3> HIDE DEF at
    <3> QED BY <1>1, <3>2, OnlyAtIs
  <2> HIDE DEF at
  <2>3. y \in Xs /\ y.me = x.me /\ y.at = at /\ y.pool = x.pool /\ y.edges = x.edges
    BY <1>2, <2>1, XType, SMTT(30)
  <2> HIDE DEF y
  <2>4. AtOK(at, x.pool)
    BY <1>1, <2>1 DEF AtOK
  <2>5. Refs(y, rest)
    BY <1>1, <2>1, <2>3, SMTT(30) DEF Refs
  <2>6. XInv(y, rest, C, R)
    BY <1>1, <2>3, <2>4, <2>5 DEF XInv
  <2>7. Frame(x.pool, x.pool, rest)
    BY DEF Frame
  <2>8. V(y) = [V(x) EXCEPT ![tid] = n]
    BY <2>1, <2>3 DEF V, Vec
  <2> QED BY <2>1, <2>2, <2>3, <2>6, <2>7, <2>8
<1>7. CASE slots = {}
  <2> DEFINE y == Unshare(x)
             b == y.at.tab
             e1 == [y.pool[b].epoch EXCEPT ![tid] = n]
             p1 == Epochs(y.pool, b, e1)
             q == Reuseds(p1, b, AllZero)
             z == X(y.me, y.at, q, y.edges)
             e == Flushed(z)
             at == [y.at EXCEPT !.dirty = NoDirty]
             r == Put(y.pool, b, 1, e, AllZero)
             w == X(y.me, at, r, y.edges)
  <2>1. /\ XInv(y, rest, C, R) /\ Frame(x.pool, y.pool, rest)
        /\ y.me = x.me /\ y.edges = x.edges /\ V(y) = V(x)
        /\ y.at.size = x.at.size /\ y.at.dirty = x.at.dirty
        /\ y.at.release_store = x.at.release_store
        /\ Alone(y) /\ y.pool[b].epoch = old
    BY UnshareDoes
  <2>2. UpdateCurrentThread(x) = FlushDirty(z)
    <3>1. UpdateCurrentThread(x) = FlushDirty([y EXCEPT !.pool[b].epoch[tid] = n, !.pool[b].reused = AllZero])
      BY <1>7 DEF UpdateCurrentThread
    <3> HIDE DEF y
    <3>2. y \in Xs
      BY <2>1 DEF XInv
    <3>3. [y EXCEPT !.pool[b].epoch[tid] = n, !.pool[b].reused = AllZero] = [[y EXCEPT !.pool = p1] EXCEPT !.pool[b].reused = AllZero]
      BY DEF Epochs
    <3> HIDE DEF p1, b
    <3>4. [y EXCEPT !.pool = p1] = X(y.me, y.at, p1, y.edges)
      <4>1. OnlyPool(y, p1) = X(y.me, y.at, p1, y.edges)
        BY <3>2, OnlyPoolIs
      <4> QED BY <4>1 DEF OnlyPool
    <3>5. [X(y.me, y.at, p1, y.edges) EXCEPT !.pool[b].reused = AllZero] = z
      BY DEF X, Reuseds
    <3> QED BY <3>1, <3>3, <3>4, <3>5
  <2> HIDE DEF y
  <2>3. y \in Xs /\ AtOK(y.at, y.pool) /\ Refs(y, rest) /\ FlagsOK(y.pool, C, R)
    BY <2>1 DEF XInv
  <2>4. y.me \in ThreadClocks /\ y.at \in SyncClocks /\ y.pool \in Pools /\ y.edges \in SUBSET Lines
    BY <2>3, XFields
  <2>5. b \in Blocks /\ y.pool[b].ref = 1
    BY <2>1 DEF Alone
  <2> HIDE DEF b
  <2>6. e1 \in Clocks /\ \A u \in Tids : e1[u] = (IF u = tid THEN n ELSE old[u])
    <3>1. e1 = [old EXCEPT ![tid] = n]
      BY <2>1 DEF b
    <3> HIDE DEF e1, old, n, tid
    <3> QED BY <1>3, <1>4, <3>1 DEF Clocks
  <2> HIDE DEF e1
  <2>7. p1 \in Pools /\ q = Put(y.pool, b, 1, e1, AllZero)
    <3>0. y.pool[b].reused \in Flags
      BY <2>4, <2>5, BlockFields
    <3>1. p1 = Put(y.pool, b, 1, e1, y.pool[b].reused)
      BY <2>4, <2>5, EpochsIs
    <3>2. p1 \in Pools /\ p1[b].ref = 1 /\ p1[b].epoch = e1
      BY <2>4, <2>5, <2>6, <3>0, <3>1, PutDoes
    <3> HIDE DEF p1
    <3>3. q = Put(p1, b, 1, e1, AllZero)
      BY <2>5, <3>2, ReusedsIs
    <3> HIDE DEF q
    <3> QED BY <2>4, <2>5, <3>1, <3>2, <3>3, PutPut
  <2> HIDE DEF p1, q
  <2>8. q \in Pools /\ q[b].ref = 1 /\ q[b].epoch = e1 /\ q[b].reused = AllZero
    BY <2>4, <2>5, <2>6, <2>7, Zeros, PutDoes
  <2>9. z \in Xs /\ z.me = x.me /\ z.at = y.at /\ z.pool = q /\ z.edges = x.edges
    BY <2>1, <2>4, <2>8, XType
  <2> HIDE DEF z
  <2>10. FlushDirty(z) = w
    <3>1. FlushDirty(z) = X(z.me, [z.at EXCEPT !.dirty = NoDirty],
                           Put(z.pool, z.at.tab, z.pool[z.at.tab].ref, Flushed(z), z.pool[z.at.tab].reused),
                           z.edges)
      BY <2>5, <2>9, FlushDirtyIs DEF b
    <3>2. Put(q, b, 1, e, AllZero) = r
      <4> HIDE DEF e
      <4> QED BY <2>4, <2>5, <2>7, PutPut
    <3> HIDE DEF r, e
    <3> QED BY <2>1, <2>8, <2>9, <3>1, <3>2 DEF b, e
  <2>11. /\ at \in SyncClocks /\ at.tab = b /\ at.size = x.at.size /\ at.dirty = NoDirty
         /\ at.release_store = x.at.release_store
    BY <2>1, <2>4, Zeros DEF SyncClocks, b
  <2> HIDE DEF at
  (* The thread has no dirty entry.                                        *)
  <2>12. tid \notin DirtyTids(x.at)
    BY <1>7 DEF DirtyTids
  <2>13. \A u \in Tids : V(x)[u] = (IF u \in DirtyTids(x.at) THEN DirtyEpoch(x.at, u) ELSE old[u])
    <3> HIDE DEF old
    <3>1. \A u \in Tids : VecOf(x.at, old)[u] = (IF u \in DirtyTids(x.at) THEN DirtyEpoch(x.at, u) ELSE old[u])
      BY <1>2, <1>4, TableIsEarlier
    <3> QED BY <3>1 DEF V, Vec, old
  <2>14. DirtyTids(y.at) = DirtyTids(x.at) /\ \A u : DirtyEpoch(y.at, u) = DirtyEpoch(x.at, u)
    BY <2>1 DEF DirtyTids, DirtyEpoch
  <2>15. \A u \in Tids : e[u] = (IF u \in DirtyTids(x.at) THEN DirtyEpoch(x.at, u) ELSE e1[u])
    BY <2>8, <2>9, <2>14 DEF Flushed, b
  <2>16. \A u \in Tids : e[u] = (IF u = tid THEN n ELSE V(x)[u])
    <3> HIDE DEF e, tid, n, old
    <3> QED BY <2>6, <2>12, <2>13, <2>15
  <2>17. e \in Clocks /\ e = [V(x) EXCEPT ![tid] = n]
    <3>0. DOMAIN e = Tids /\ e = [u \in Tids |-> e[u]]
      BY DEF Flushed
    <3> HIDE DEF e, tid, n
    <3>1. \A u \in Tids : e[u] \in Nat
      BY <1>3, <1>4, <2>16 DEF Clocks
    <3>2. e \in Clocks
      BY <3>0, <3>1 DEF Clocks
    <3> QED BY <1>3, <1>4, <2>16, <3>2 DEF Clocks
  <2> HIDE DEF e
  <2>18. /\ r \in Pools /\ \A d \in Blocks \ {b} : r[d] = y.pool[d]
         /\ r[b].ref = 1 /\ r[b].epoch = e /\ r[b].reused = AllZero
    <3>1. e \in Clocks /\ 1 \in Nat /\ AllZero \in Flags
      BY <2>17, Zeros
    <3>2. r = Put(y.pool, b, 1, e, AllZero)
      OBVIOUS
    <3> HIDE DEF r
    <3> QED BY <2>4, <2>5, <3>1, <3>2, PutDoes
  <2> HIDE DEF r
  <2>19. w \in Xs /\ w.me = x.me /\ w.at = at /\ w.pool = r /\ w.edges = x.edges
    BY <2>1, <2>4, <2>11, <2>18, XType
  <2>20. SlotsOK(at.dirty) /\ TableOK(at, e)
    <3>1. SlotsOK(at.dirty)
      BY <2>11, Zeros DEF SlotsOK
    <3>2. ASSUME NEW u \in Tids, x.at.size <= u PROVE e[u] = 0
      <4>1. V(x)[u] = 0
        BY <1>1, <1>2, <3>2, VecFacts DEF V
      <4>2. u # tid
        <5>1. old[u] = 0
          BY <1>4, <3>2 DEF TableOK
        <5> QED BY <1>5, <5>1
      <4> QED BY <2>16, <4>1, <4>2
    <3> QED BY <2>11, <3>1, <3>2, Zeros DEF TableOK
  <2>21. FlagOK(e, AllZero, C, R)
    BY <1>1, NoFlags DEF Known
  <2>22. Refs(w, rest)
    <3>1. ASSUME NEW d \in Blocks
          PROVE  r[d].ref = rest[d] + One(b = d) + One(x.me.cached.tab = d)
      <4>1. y.pool[d].ref = rest[d] + One(b = d) + One(x.me.cached.tab = d)
        BY <2>1, <2>3 DEF Refs, b
      <4>2. r[d].ref = y.pool[d].ref
        <5>1. CASE d = b
          BY <2>5, <2>18, <5>1
        <5>2. CASE d # b
          BY <2>18, <5>2
        <5> QED BY <5>1, <5>2
      <4> QED BY <4>1, <4>2
    <3> QED BY <2>11, <2>19, <3>1 DEF Refs
  <2>23. XInv(w, rest, C, R) /\ Frame(y.pool, r, rest)
    <3>1. \A d \in Blocks \ {b} : r[d].epoch = y.pool[d].epoch /\ r[d].reused = y.pool[d].reused
      BY <2>18
    <3>2. TableOK(at, r[b].epoch) /\ FlagOK(r[b].epoch, r[b].reused, C, R)
      BY <2>18, <2>20, <2>21
    <3> QED BY <2>1, <2>5, <2>11, <2>18, <2>20, <2>22, <3>1, <3>2, Written
  <2>24. Frame(x.pool, r, rest)
    BY <2>1, <2>23 DEF Frame
  <2>25. V(w) = e
    <3>1. V(w) = VecOf(at, e)
      BY <2>11, <2>18, <2>19 DEF V, Vec
    <3> QED BY <2>11, <2>17, <2>20, <3>1, NoDirtyVec
  <2> HIDE DEF w
  <2> QED BY <2>2, <2>10, <2>11, <2>17, <2>19, <2>23, <2>24, <2>25
<1> QED BY <1>6, <1>7

LEMMA RefsOfIs ==
  ASSUME NEW p \in Pools, NEW b \in Blocks, NEW n
  PROVE  RefsOf(p, b, n) = Put(p, b, n, p[b].epoch, p[b].reused)
<1>1. \E m, d, e : p[b] = [ref |-> m, epoch |-> d, reused |-> e]
  <2>1. p[b] = [ref |-> p[b].ref, epoch |-> p[b].epoch, reused |-> p[b].reused]
    BY BlockFields
  <2> QED BY <2>1, Zenon
<1>2. PICK m, d, e : p[b] = [ref |-> m, epoch |-> d, reused |-> e]
  BY <1>1
<1>3. p[b].epoch = d /\ p[b].reused = e
  BY <1>2
<1>4. [p[b] EXCEPT !.ref = n] = [ref |-> n, epoch |-> d, reused |-> e]
  BY <1>2
<1>5. RefsOf(p, b, n) = [p EXCEPT ![b] = [ref |-> n, epoch |-> d, reused |-> e]]
  BY <1>4 DEF RefsOf
<1> QED BY <1>3, <1>5 DEF Put

(* The table written over, with the flags, the dirty entries and the store. *)
Store(x, e, f, rs) ==
  [x EXCEPT !.pool[x.at.tab].epoch = e, !.pool[x.at.tab].reused = f, !.at.release_store = rs]
StoreClean(x, e, f, rs) ==
  [x EXCEPT !.pool[x.at.tab].epoch = e, !.pool[x.at.tab].reused = f,
            !.at.dirty = NoDirty, !.at.release_store = rs]

StoredAt(at, rs) == [at EXCEPT !.release_store = rs]
CleanAt(at, rs) == [at EXCEPT !.dirty = NoDirty, !.release_store = rs]

LEMMA StoreIs ==
  ASSUME NEW x \in Xs, x.at.tab \in Blocks, NEW e \in Clocks, NEW f \in Flags, NEW rs
  PROVE  LET q == Put(x.pool, x.at.tab, x.pool[x.at.tab].ref, e, f)
         IN  /\ Store(x, e, f, rs) = X(x.me, StoredAt(x.at, rs), q, x.edges)
             /\ StoreClean(x, e, f, rs) = X(x.me, CleanAt(x.at, rs), q, x.edges)
<1> DEFINE b == x.at.tab
           p1 == Epochs(x.pool, b, e)
           p2 == Reuseds(p1, b, f)
           q == Put(x.pool, b, x.pool[b].ref, e, f)
           y == X(x.me, x.at, p2, x.edges)
<1>1. x.pool \in Pools /\ x.me \in ThreadClocks /\ x.at \in SyncClocks /\ x.edges \in SUBSET Lines
  BY XFields
<1> HIDE DEF b
<1>2. b \in Blocks
  BY DEF b
<1>3. x.pool[b].ref \in Nat /\ x.pool[b].reused \in Flags
  BY <1>1, <1>2, BlockFields
<1>4. p1 = Put(x.pool, b, x.pool[b].ref, e, x.pool[b].reused)
  BY <1>1, <1>2, EpochsIs
<1>5. p1 \in Pools /\ p1[b].ref = x.pool[b].ref /\ p1[b].epoch = e
  BY <1>1, <1>2, <1>3, <1>4, PutDoes
<1>6. p2 = q
  <2> HIDE DEF p1
  <2>1. p2 = Put(p1, b, x.pool[b].ref, e, f)
    BY <1>2, <1>5, ReusedsIs
  <2> HIDE DEF p2
  <2> QED BY <1>1, <1>2, <1>4, <2>1, PutPut
<1>7. q \in Pools
  BY <1>1, <1>2, <1>3, PutDoes
<1>8. [[x EXCEPT !.pool[b].epoch = e] EXCEPT !.pool[b].reused = f] = y
  <2>1. [x EXCEPT !.pool[b].epoch = e] = OnlyPool(x, p1)
    BY DEF OnlyPool, Epochs
  <2> HIDE DEF p1
  <2>2. OnlyPool(x, p1) = X(x.me, x.at, p1, x.edges)
    BY OnlyPoolIs
  <2>3. [X(x.me, x.at, p1, x.edges) EXCEPT !.pool[b].reused = f] = y
    BY DEF X, Reuseds
  <2> QED BY <2>1, <2>2, <2>3
<1> HIDE DEF p1, p2, q
<1>9. y \in Xs /\ y.me = x.me /\ y.at = x.at /\ y.pool = q /\ y.edges = x.edges
  BY <1>1, <1>6, <1>7, XType
<1> HIDE DEF y
<1>10. Store(x, e, f, rs) = X(x.me, StoredAt(x.at, rs), q, x.edges)
  <2> DEFINE at == StoredAt(x.at, rs)
  <2>1. Store(x, e, f, rs) = [y EXCEPT !.at.release_store = rs]
    BY <1>8 DEF Store, b
  <2>2. [y EXCEPT !.at.release_store = rs] = OnlyAt(y, at)
    BY <1>9 DEF OnlyAt, StoredAt
  <2> HIDE DEF at
  <2>3. OnlyAt(y, at) = X(y.me, at, y.pool, y.edges)
    BY <1>9, OnlyAtIs
  <2> QED BY <1>9, <2>1, <2>2, <2>3 DEF at
<1>11. StoreClean(x, e, f, rs) = X(x.me, CleanAt(x.at, rs), q, x.edges)
  <2> DEFINE at1 == [x.at EXCEPT !.dirty = NoDirty]
             at == [at1 EXCEPT !.release_store = rs]
             z == X(x.me, at1, q, x.edges)
  <2>1. StoreClean(x, e, f, rs) = [[y EXCEPT !.at.dirty = NoDirty] EXCEPT !.at.release_store = rs]
    BY <1>8 DEF StoreClean, b
  <2>2. [y EXCEPT !.at.dirty = NoDirty] = OnlyAt(y, at1)
    BY <1>9 DEF OnlyAt
  <2>3. at1 \in SyncClocks
    BY <1>1, Zeros DEF SyncClocks
  <2> HIDE DEF at1
  <2>4. OnlyAt(y, at1) = z
    <3>1. OnlyAt(y, at1) = X(y.me, at1, y.pool, y.edges)
      BY <1>9, OnlyAtIs
    <3> QED BY <1>9, <3>1
  <2>5. z \in Xs /\ z.me = x.me /\ z.at = at1 /\ z.pool = q /\ z.edges = x.edges
    BY <1>1, <1>7, <2>3, XType
  <2> HIDE DEF z
  <2>6. [z EXCEPT !.at.release_store = rs] = OnlyAt(z, at)
    BY <2>5 DEF OnlyAt
  <2> HIDE DEF at
  <2>7. OnlyAt(z, at) = X(z.me, at, z.pool, z.edges)
    BY <2>5, OnlyAtIs
  <2>8. at = CleanAt(x.at, rs)
    BY DEF at, at1, CleanAt
  <2> QED BY <2>1, <2>2, <2>4, <2>5, <2>6, <2>7, <2>8
<1> QED BY <1>10, <1>11 DEF q, b

LEMMA StoredAtType ==
  ASSUME NEW at \in SyncClocks,
         NEW rs \in [tid : Tids \cup {NoTid}, reused : 0..MaxReuse]
  PROVE  /\ StoredAt(at, rs) \in SyncClocks /\ StoredAt(at, rs).tab = at.tab
         /\ StoredAt(at, rs).size = at.size /\ StoredAt(at, rs).dirty = at.dirty
         /\ StoredAt(at, rs).release_store = rs
         /\ CleanAt(at, rs) \in SyncClocks /\ CleanAt(at, rs).tab = at.tab
         /\ CleanAt(at, rs).size = at.size /\ CleanAt(at, rs).dirty = NoDirty
         /\ CleanAt(at, rs).release_store = rs
<1>1. /\ StoredAt(at, rs) \in SyncClocks /\ StoredAt(at, rs).tab = at.tab
      /\ StoredAt(at, rs).size = at.size /\ StoredAt(at, rs).dirty = at.dirty
      /\ StoredAt(at, rs).release_store = rs
  BY DEF SyncClocks, StoredAt
<1>2. /\ CleanAt(at, rs) \in SyncClocks /\ CleanAt(at, rs).tab = at.tab
      /\ CleanAt(at, rs).size = at.size /\ CleanAt(at, rs).dirty = NoDirty
      /\ CleanAt(at, rs).release_store = rs
  BY Zeros DEF SyncClocks, CleanAt
<1> QED BY <1>1, <1>2

(* Only the table, the size and the dirty entries matter to the clock.     *)
LEMMA SameEntries ==
  ASSUME NEW at, NEW was, NEW p, at.tab = was.tab, at.size = was.size, at.dirty = was.dirty, AtOK(was, p)
  PROVE  AtOK(at, p) /\ Vec(at, p) = Vec(was, p)
<1> DEFINE e == p[was.tab].epoch
<1>1. SlotsOK(was.dirty) /\ TableOK(was, e) /\ ((was.size = 0) <=> (was.tab = NoBlock))
  BY DEF AtOK
<1>2. p[at.tab].epoch = e
  OBVIOUS
<1> HIDE DEF e
<1>3. TableOK(at, e)
  BY <1>1 DEF TableOK
<1>4. DirtyTids(at) = DirtyTids(was) /\ \A u : DirtyEpoch(at, u) = DirtyEpoch(was, u)
  BY DEF DirtyTids, DirtyEpoch
<1>5. VecOf(at, e) = VecOf(was, e)
  BY <1>4 DEF VecOf
<1> QED BY <1>1, <1>2, <1>3, <1>5 DEF AtOK, Vec, e

Over(x, at, e, f) == X(x.me, at, Put(x.pool, x.at.tab, x.pool[x.at.tab].ref, e, f), x.edges)

(* An object that has its table to itself gets another clock.              *)
LEMMA Overwritten ==
  ASSUME NEW x, NEW rest, NEW C, NEW R, XInv(x, rest, C, R), Alone(x),
         NEW at \in SyncClocks, at.tab = x.at.tab, at.size # 0, at.dirty = NoDirty,
         NEW e \in Clocks, NEW f \in Flags, FlagOK(e, f, C, R),
         \A u \in Tids : at.size <= u => e[u] = 0
  PROVE  LET y == Over(x, at, e, f)
         IN  /\ XInv(y, rest, C, R) /\ Frame(x.pool, y.pool, rest)
             /\ y.me = x.me /\ y.at = at /\ y.edges = x.edges
             /\ V(y) = e /\ Alone(y) /\ y.pool[y.at.tab].epoch = e
<1> DEFINE b == x.at.tab
           r == Put(x.pool, b, x.pool[b].ref, e, f)
           w == X(x.me, at, r, x.edges)
<1>1. x \in Xs /\ Refs(x, rest)
  BY DEF XInv
<1>2. x.me \in ThreadClocks /\ x.at \in SyncClocks /\ x.pool \in Pools /\ x.edges \in SUBSET Lines
  BY <1>1, XFields
<1>3. b \in Blocks /\ x.pool[b].ref = 1
  BY DEF Alone
<1> HIDE DEF b
<1>4. /\ r \in Pools /\ \A d \in Blocks \ {b} : r[d] = x.pool[d]
      /\ r[b].ref = 1 /\ r[b].epoch = e /\ r[b].reused = f
  <2>1. r = Put(x.pool, b, 1, e, f) /\ 1 \in Nat
    BY <1>3
  <2> HIDE DEF r
  <2> QED BY <1>2, <1>3, <2>1, PutDoes
<1> HIDE DEF r
<1>5. w \in Xs /\ w.me = x.me /\ w.at = at /\ w.pool = r /\ w.edges = x.edges
  BY <1>2, <1>4, XType
<1>6. SlotsOK(at.dirty) /\ TableOK(at, e)
  BY Zeros DEF SlotsOK, TableOK
<1>7. Refs(w, rest)
  <2>1. ASSUME NEW d \in Blocks
        PROVE  r[d].ref = rest[d] + One(b = d) + One(x.me.cached.tab = d)
    <3>1. x.pool[d].ref = rest[d] + One(b = d) + One(x.me.cached.tab = d)
      BY <1>1 DEF Refs, b
    <3>2. r[d].ref = x.pool[d].ref
      <4>1. CASE d = b
        BY <1>3, <1>4, <4>1
      <4>2. CASE d # b
        BY <1>4, <4>2
      <4> QED BY <4>1, <4>2
    <3> QED BY <3>1, <3>2
  <2>2. at.tab = b
    BY DEF b
  <2> QED BY <1>5, <2>1, <2>2 DEF Refs
<1>8. XInv(w, rest, C, R) /\ Frame(x.pool, r, rest)
  <2>1. \A d \in Blocks \ {b} : r[d].epoch = x.pool[d].epoch /\ r[d].reused = x.pool[d].reused
    BY <1>4
  <2>2. TableOK(at, r[b].epoch) /\ FlagOK(r[b].epoch, r[b].reused, C, R)
    BY <1>4, <1>6
  <2>3. at.tab = b
    BY DEF b
  <2> QED BY <1>3, <1>4, <1>6, <1>7, <2>1, <2>2, <2>3, Written
<1>9. V(w) = e
  <2>1. V(w) = VecOf(at, e)
    BY <1>4, <1>5 DEF V, Vec, b
  <2> QED BY <1>6, <2>1, NoDirtyVec
<1>10. Alone(w) /\ w.pool[w.at.tab].epoch = e
  BY <1>3, <1>4, <1>5 DEF Alone, b
<1> HIDE DEF w
<1>11. w = Over(x, at, e, f)
  BY DEF w, r, b, Over
<1> QED BY <1>5, <1>8, <1>9, <1>10, <1>11

(* The thread's clock, whatever table it has cached.                       *)
SameMe(me, now) ==
  /\ now.tid = me.tid /\ now.clk = me.clk /\ now.nclk = me.nclk /\ now.reused = me.reused
  /\ now.last_acquire = me.last_acquire /\ now.global_acquire = me.global_acquire

LEMMA CacheTableDoes ==
  ASSUME NEW x, NEW rest, NEW C, NEW R, XInv(x, rest, C, R), x.at.size # 0,
         x.pool[x.at.tab].epoch = x.me.clk, x.me.clk[x.me.tid] # 0
  PROVE  LET y == CacheTable(x)
         IN  /\ XInv(y, rest, C, R) /\ Frame(x.pool, y.pool, rest)
             /\ SameMe(x.me, y.me) /\ y.at = x.at /\ y.edges = x.edges /\ V(y) = V(x)
<1> DEFINE b == x.at.tab
           c == [tab |-> b, size |-> x.at.size]
           me == [x.me EXCEPT !.cached = c]
           q == RefsOf(x.pool, b, 2)
           y == X(me, x.at, q, x.edges)
<1>1. /\ x \in Xs /\ Known(rest, C, R) /\ Refs(x, rest) /\ AtOK(x.at, x.pool) /\ FlagsOK(x.pool, C, R)
      /\ CacheOK(x.me, x.pool) /\ MeOK(x.me) /\ C[x.me.tid] = x.me.clk /\ R[x.me.tid] = x.me.reused
  BY DEF XInv
<1>2. x.me \in ThreadClocks /\ x.at \in SyncClocks /\ x.pool \in Pools /\ x.edges \in SUBSET Lines
  BY <1>1, XFields
<1>3. b \in Blocks /\ x.at.size \in 0..NThreads
  BY <1>1, <1>2, AtFields DEF AtOK
<1>4. CASE x.me.cached.tab # NoBlock \/ x.pool[b].ref # 1
  <2>1. CacheTable(x) = x
    BY <1>4 DEF CacheTable, Tab
  <2> QED BY <2>1 DEF SameMe, Frame
<1>5. CASE x.me.cached.tab = NoBlock /\ x.pool[b].ref = 1
  <2>1. c \in Caches /\ c.tab = b /\ c.size = x.at.size
    BY <1>3 DEF Caches
  <2>2. CacheTable(x) = y
    <3>1. CacheTable(x) = [x EXCEPT !.pool = q, !.me.cached = c]
      BY <1>5 DEF CacheTable, Tab, RefsOf
    <3> HIDE DEF q, c
    <3>2. [x EXCEPT !.pool = q, !.me.cached = c] = [x EXCEPT !.pool = q, !.me = [x.me EXCEPT !.cached = c]]
      BY <1>1 DEF Xs
    <3> HIDE DEF me
    <3>3. PoolMe(x, q, me) = X(me, x.at, q, x.edges)
      BY <1>1, PoolMeIs
    <3> QED BY <3>1, <3>2, <3>3 DEF PoolMe, me
  <2> HIDE DEF c
  <2>3. me \in ThreadClocks /\ SameMe(x.me, me) /\ me.cached = c
    BY <1>2, <2>1 DEF ThreadClocks, Caches, SameMe
  <2> HIDE DEF me
  <2>4. /\ q \in Pools /\ \A d \in Blocks \ {b} : q[d] = x.pool[d]
        /\ q[b].ref = 2 /\ q[b].epoch = x.pool[b].epoch /\ q[b].reused = x.pool[b].reused
    <3>1. 2 \in Nat
      OBVIOUS
    <3> HIDE DEF b
    <3> QED BY <1>2, <1>3, <3>1, RefDoes DEF RefsOf
  <2> HIDE DEF q
  <2>5. y \in Xs /\ y.me = me /\ y.at = x.at /\ y.pool = q /\ y.edges = x.edges
    BY <1>2, <2>3, <2>4, XType
  <2> HIDE DEF y
  <2>6. \A d \in Blocks : q[d].epoch = x.pool[d].epoch /\ q[d].reused = x.pool[d].reused
    <3>1. ASSUME NEW d \in Blocks PROVE q[d].epoch = x.pool[d].epoch /\ q[d].reused = x.pool[d].reused
      <4>1. CASE d = b
        BY <2>4, <4>1
      <4>2. CASE d # b
        BY <2>4, <4>2
      <4> QED BY <4>1, <4>2
    <3> QED BY <3>1
  <2>7. AtOK(x.at, q) /\ Vec(x.at, q) = Vec(x.at, x.pool)
    BY <1>1, <1>2, <2>6, SameTable
  <2>8. CacheOK(me, q)
    <3>1. TableOK(x.at, x.me.clk)
      BY <1>1 DEF AtOK
    <3>2. x.me.tid \in Tids /\ x.me.clk \in Clocks
      BY <1>2, MeFields
    <3>3. x.me.clk[x.me.tid] <= x.me.clk[x.me.tid]
      BY <3>2 DEF Clocks
    <3>4. q[b].epoch = x.me.clk
      BY <2>4
    <3>5. CacheIs(me, x.me.clk)
      BY <2>1, <2>3, <3>1, <3>3 DEF CacheIs, SameMe, TableOK
    <3> QED BY <2>1, <2>3, <3>4, <3>5 DEF CacheOK
  <2>9. Refs(y, rest)
    <3>1. ASSUME NEW d \in Blocks
          PROVE  q[d].ref = rest[d] + One(b = d) + One(me.cached.tab = d)
      <4>1. /\ x.pool[d].ref = rest[d] + One(b = d) + One(x.me.cached.tab = d)
            /\ rest[d] \in Nat /\ x.me.cached.tab # d
        BY <1>1, <1>5, Numbers DEF Refs, Known
      <4>2. me.cached.tab = b
        BY <2>1, <2>3
      <4>3. CASE d = b
        BY <1>5, <2>4, <4>1, <4>2, <4>3 DEF One
      <4>4. CASE d # b
        BY <2>4, <4>1, <4>2, <4>4 DEF One
      <4> QED BY <4>3, <4>4
    <3> QED BY <2>5, <3>1 DEF Refs
  <2>10. FlagsOK(q, C, R)
    BY <1>1, <2>6 DEF FlagsOK
  <2>11. XInv(y, rest, C, R)
    BY <1>1, <2>3, <2>5, <2>7, <2>8, <2>9, <2>10 DEF XInv, SameMe, MeOK
  <2>12. Frame(x.pool, q, rest)
    BY <2>6 DEF Frame
  <2> QED BY <2>2, <2>3, <2>5, <2>7, <2>11, <2>12 DEF V
<1> QED BY <1>4, <1>5

(* What a thread is known to have released last to an object, as long as   *)
(* its number is not reused, it still knows.                               *)
StoreOK(at, vec, C, R) ==
  at.release_store.tid # NoTid =>
    /\ at.release_store.reused <= R[at.release_store.tid]
    /\ at.release_store.reused = R[at.release_store.tid] =>
         \A u \in Tids : vec[u] <= C[at.release_store.tid][u]

(* What holds when an operation starts, besides.                           *)
Pre(x, C, R) ==
  /\ x.me.clk[x.me.tid] # 0 /\ V(x)[x.me.tid] <= x.me.clk[x.me.tid]
  /\ Told(x.me, V(x)) /\ StoreOK(x.at, V(x), C, R)

Join(c, d) == [u \in Tids |-> Later(c[u], d[u])]

LEMMA JoinDoes ==
  ASSUME NEW c \in Clocks, NEW d \in Clocks
  PROVE  /\ Join(c, d) \in Clocks
         /\ \A u \in Tids : /\ Join(c, d)[u] = (IF c[u] < d[u] THEN d[u] ELSE c[u])
                            /\ c[u] <= Join(c, d)[u] /\ d[u] <= Join(c, d)[u]
<1>1. ASSUME NEW u \in Tids
      PROVE  /\ Later(c[u], d[u]) \in Nat /\ Later(c[u], d[u]) = (IF c[u] < d[u] THEN d[u] ELSE c[u])
             /\ c[u] <= Later(c[u], d[u]) /\ d[u] <= Later(c[u], d[u])
  BY DEF Later, Clocks
<1> QED BY <1>1 DEF Join, Clocks

(* A thread that has learned nothing since its own release is the one      *)
(* that the object has heard of.                                           *)
LEMMA OwnStoreIsLast ==
  ASSUME NEW x, NEW rest, NEW C, NEW R, XInv(x, rest, C, R), Room(rest), Pre(x, C, R),
         ~ HasAcquiredAfterRelease(Resize(x))
  PROVE  LET y == Resize(x)
             z == UpdateCurrentThread(y)
         IN  /\ XInv(z, rest, C, R) /\ Frame(x.pool, z.pool, rest)
             /\ z.me = x.me /\ z.edges = x.edges /\ z.at.release_store = x.at.release_store
             /\ V(z) = Join(V(x), x.me.clk)
             /\ IsOwnReleaseStore(y) => V(z) = x.me.clk
             /\ z.at \in SyncClocks
<1> DEFINE y == Resize(x)
           z == UpdateCurrentThread(y)
           tid == x.me.tid
           clk == x.me.clk
           e == y.pool[y.at.tab].epoch
<1>1. /\ XInv(y, rest, C, R) /\ Frame(x.pool, y.pool, rest)
      /\ y.me = x.me /\ y.edges = x.edges /\ V(y) = V(x)
      /\ y.at.dirty = x.at.dirty /\ y.at.release_store = x.at.release_store
      /\ x.me.nclk <= y.at.size /\ y.at.size # 0 /\ y.at.tab \in Blocks
  BY ResizeDoes
<1>2. ~ (e[tid] <= x.me.last_acquire) /\ ~ (e[tid] <= x.me.global_acquire)
  BY <1>1 DEF HasAcquiredAfterRelease, Tab
<1> HIDE DEF y
<1>3. y \in Xs /\ AtOK(y.at, y.pool) /\ x \in Xs
  BY <1>1 DEF XInv
<1>4. /\ y.at \in SyncClocks /\ y.pool \in Pools /\ x.me \in ThreadClocks
  BY <1>3, XFields
<1>5. /\ V(y) \in Clocks /\ e \in Clocks /\ \A u \in Tids : e[u] <= V(y)[u]
  BY <1>1, <1>3, <1>4, VecFacts DEF V
<1> HIDE DEF e
<1>6. tid \in Tids /\ clk \in Clocks /\ x.me.last_acquire \in Nat /\ x.me.global_acquire \in Nat
  BY <1>4, MeFields
<1>7. /\ e[tid] # 0 /\ V(x)[tid] > x.me.last_acquire /\ V(x)[tid] > x.me.global_acquire
  <2>1. e[tid] \in Nat /\ V(y)[tid] \in Nat /\ e[tid] <= V(y)[tid]
    BY <1>5, <1>6 DEF Clocks
  <2> HIDE DEF tid
  <2> QED BY <1>1, <1>2, <1>6, <2>1
<1>8. /\ clk[tid] # 0 /\ V(x)[tid] <= clk[tid] /\ Told(x.me, V(x)) /\ StoreOK(x.at, V(x), C, R)
  BY DEF Pre
<1>9. \A u \in Tids \ {tid} : clk[u] <= V(x)[u]
  BY <1>7, <1>8 DEF Told
<1>10. /\ XInv(z, rest, C, R) /\ Frame(y.pool, z.pool, rest)
       /\ z.me = y.me /\ z.edges = y.edges /\ z.at.release_store = y.at.release_store
       /\ V(z) = [V(y) EXCEPT ![tid] = clk[tid]]
  <2>1. y.pool[y.at.tab].epoch[y.me.tid] # 0
    BY <1>1, <1>7 DEF e
  <2>2. V(y)[y.me.tid] <= y.me.clk[y.me.tid]
    BY <1>1, <1>8
  <2> QED BY <1>1, <2>1, <2>2, UpdateCurrentThreadDoes
<1> HIDE DEF z
<1>11. \A u \in Tids : V(z)[u] = (IF u = tid THEN clk[tid] ELSE V(x)[u])
  BY <1>1, <1>5, <1>6, <1>10 DEF Clocks
<1>12. V(z) \in Clocks /\ z.at \in SyncClocks
  <2>1. z \in Xs /\ AtOK(z.at, z.pool)
    BY <1>10 DEF XInv
  <2>2. z.at \in SyncClocks /\ z.pool \in Pools
    BY <2>1, XFields
  <2> QED BY <2>1, <2>2, VecFacts DEF V
<1>13. V(z) = Join(V(x), clk)
  <2>1. V(x) \in Clocks
    BY <1>1, <1>5
  <2>2. ASSUME NEW u \in Tids PROVE V(z)[u] = Join(V(x), clk)[u]
    <3>1. V(x)[u] \in Nat /\ clk[u] \in Nat
      BY <1>6, <2>1 DEF Clocks
    <3>2. Join(V(x), clk)[u] = (IF V(x)[u] < clk[u] THEN clk[u] ELSE V(x)[u])
      BY <1>6, <2>1, JoinDoes
    <3>3. CASE u = tid
      BY <1>8, <1>11, <3>1, <3>2, <3>3
    <3>4. CASE u # tid
      BY <1>9, <1>11, <3>1, <3>2, <3>4
    <3> QED BY <3>3, <3>4
  <2>3. Join(V(x), clk) \in Clocks
    BY <1>6, <2>1, JoinDoes
  <2> QED BY <1>12, <2>2, <2>3 DEF Clocks
<1>14. ASSUME IsOwnReleaseStore(y)
       PROVE  V(z) = clk
  <2>1. x.at.release_store = [tid |-> tid, reused |-> x.me.reused]
    BY <1>1, <1>14 DEF IsOwnReleaseStore
  <2>2. C[tid] = clk /\ R[tid] = x.me.reused
    BY DEF XInv
  <2>3. \A u \in Tids : V(x)[u] <= clk[u]
    <3>1. x.at.release_store.tid = tid /\ x.at.release_store.reused = R[tid]
      BY <2>1, <2>2
    <3>2. tid # NoTid
      BY <1>6, Numbers
    <3> QED BY <1>8, <2>2, <3>1, <3>2 DEF StoreOK
  <2>4. ASSUME NEW u \in Tids PROVE V(z)[u] = clk[u]
    <3>1. V(x)[u] \in Nat /\ clk[u] \in Nat
      BY <1>1, <1>5, <1>6 DEF Clocks
    <3>2. CASE u = tid
      BY <1>11, <3>2
    <3>3. CASE u # tid
      BY <1>9, <1>11, <2>3, <3>1, <3>3
    <3> QED BY <3>2, <3>3
  <2> QED BY <1>6, <1>12, <2>4 DEF Clocks
<1>15. Frame(x.pool, z.pool, rest)
  BY <1>1, <1>10 DEF Frame
<1> QED BY <1>1, <1>10, <1>12, <1>13, <1>14, <1>15 DEF z, y

(* The flag that the thread leaves on the table it has just written.       *)
LEMMA OwnFlag ==
  ASSUME NEW x, NEW rest, NEW C, NEW R, XInv(x, rest, C, R),
         NEW e, \A u \in Tids : e[u] <= x.me.clk[u]
  PROVE  /\ [AllZero EXCEPT ![x.me.tid] = x.me.reused] \in Flags
         /\ FlagOK(e, [AllZero EXCEPT ![x.me.tid] = x.me.reused], C, R)
<1> DEFINE f == [AllZero EXCEPT ![x.me.tid] = x.me.reused]
<1>1. /\ x \in Xs /\ R \in [Tids -> 1..MaxReuse] /\ C[x.me.tid] = x.me.clk /\ R[x.me.tid] = x.me.reused
  BY DEF XInv, Known
<1>2. x.me.tid \in Tids /\ x.me.reused \in 1..MaxReuse
  BY <1>1, XFields, MeFields
<1>3. \A v \in Tids : f[v] = (IF v = x.me.tid THEN x.me.reused ELSE 0)
  BY <1>2, Zeros DEF Flags
<1>4. f \in Flags
  BY <1>2, Zeros DEF Flags
<1> HIDE DEF f
<1>5. ASSUME NEW v \in Tids
      PROVE  /\ f[v] <= R[v]
             /\ f[v] = R[v] => \A u \in Tids : e[u] <= C[v][u]
  <2>1. R[v] \in 1..MaxReuse
    BY <1>1
  <2>2. CASE v = x.me.tid
    BY <1>1, <1>3, <2>1, <2>2
  <2>3. CASE v # x.me.tid
    BY <1>3, <2>1, <2>3
  <2> QED BY <2>2, <2>3
<1> QED BY <1>4, <1>5 DEF FlagOK, f

(* What an operation that learns nothing leaves.                           *)
Kept(x, y, rest, C, R) ==
  /\ XInv(y, rest, C, R) /\ Frame(x.pool, y.pool, rest)
  /\ SameMe(x.me, y.me) /\ y.edges = x.edges

(* An empty object gets the table that the thread has cached.              *)
FirstEntry(me) == [NoDirty EXCEPT ![1] = [tid |-> me.tid, epoch |-> me.clk[me.tid]]]

LEMMA CachedTableGiven ==
  ASSUME NEW x, NEW rest, NEW C, NEW R, XInv(x, rest, C, R),
         x.at.size = 0, x.me.cached.tab # NoBlock
  PROVE  LET y == ReleaseStore(x)
         IN  /\ Kept(x, y, rest, C, R) /\ V(y) = x.me.clk /\ y.at.release_store = OwnStore(x)
<1> DEFINE tid == x.me.tid
           n == x.me.clk[tid]
           b == x.me.cached.tab
           e == x.pool[b].epoch
           f == [x.pool[b].reused EXCEPT ![tid] = x.me.reused]
           k == x.pool[b].ref + 1
           rs == OwnStore(x)
           d == FirstEntry(x.me)
           at == [tab |-> b, size |-> x.me.cached.size, release_store |-> rs, dirty |-> d]
           p1 == Reuseds(x.pool, b, f)
           q == Put(x.pool, b, k, e, f)
           y == X(x.me, at, q, x.edges)
<1>1. /\ x \in Xs /\ Known(rest, C, R) /\ Refs(x, rest) /\ AtOK(x.at, x.pool) /\ FlagsOK(x.pool, C, R)
      /\ CacheOK(x.me, x.pool) /\ MeOK(x.me) /\ C[x.me.tid] = x.me.clk /\ R[x.me.tid] = x.me.reused
  BY DEF XInv
<1>2. x.me \in ThreadClocks /\ x.at \in SyncClocks /\ x.pool \in Pools /\ x.edges \in SUBSET Lines
  BY <1>1, XFields
<1>3. /\ tid \in Tids /\ x.me.clk \in Clocks /\ x.me.reused \in 1..MaxReuse
      /\ b \in Blocks /\ x.me.cached.size \in 0..NThreads /\ n \in Nat
  <2>1. /\ tid \in Tids /\ x.me.clk \in Clocks /\ x.me.reused \in 1..MaxReuse
        /\ b \in Blocks \cup {NoBlock} /\ x.me.cached.size \in 0..NThreads
    BY <1>2, MeFields
  <2> QED BY <2>1 DEF Clocks
<1>4. CacheIs(x.me, e)
  BY <1>1 DEF CacheOK
<1> HIDE DEF b, n
<1>5. x.pool[b].ref \in Nat /\ e \in Clocks /\ x.pool[b].reused \in Flags
  BY <1>2, <1>3, BlockFields
<1> HIDE DEF tid
<1>6. f \in Flags /\ \A v \in Tids : f[v] = (IF v = tid THEN x.me.reused ELSE x.pool[b].reused[v])
  BY <1>3, <1>5 DEF Flags
<1>7. k \in Nat
  BY <1>5
<1> HIDE DEF e, f, k
<1>a. x.pool \in Pools /\ b \in Blocks /\ e \in Clocks /\ f \in Flags
  BY <1>2, <1>3, <1>5, <1>6
<1>8. p1 \in Pools /\ p1 = Put(x.pool, b, x.pool[b].ref, e, f)
  <2>1. p1 = Put(x.pool, b, x.pool[b].ref, e, f)
    BY <1>2, <1>3, ReusedsIs DEF e
  <2> HIDE DEF p1
  <2> QED BY <1>2, <1>3, <1>5, <1>6, <2>1, PutDoes
<1>9. p1[b].ref = x.pool[b].ref /\ p1[b].epoch = e /\ p1[b].reused = f
  <2> DEFINE m == x.pool[b].ref
  <2>1. p1 = Put(x.pool, b, m, e, f) /\ m \in Nat
    BY <1>5, <1>8
  <2> HIDE DEF p1, m
  <2>2. p1[b].ref = m /\ p1[b].epoch = e /\ p1[b].reused = f
    BY <1>a, <2>1, PutDoes
  <2> QED BY <2>2 DEF m
<1>10. RefsOf(p1, b, k) = q
  <2> HIDE DEF p1
  <2>1. RefsOf(p1, b, k) = Put(p1, b, k, e, f)
    BY <1>3, <1>8, <1>9, RefsOfIs
  <2> QED BY <1>2, <1>3, <1>8, <2>1, PutPut
<1>11. ReleaseStore(x) = y
  <2> DEFINE w1 == X(x.me, at, x.pool, x.edges)
             w2 == X(x.me, at, p1, x.edges)
  <2>0. ReleaseStore(x) = [x EXCEPT !.at = at, !.pool[b].reused[tid] = x.me.reused, !.pool[b].ref = x.pool[b].ref + 1]
    BY <1>3, Numbers DEF ReleaseStore, tid, n, b, d, FirstEntry
  <2>1. ReleaseStore(x) = [[[x EXCEPT !.at = at] EXCEPT !.pool[b].reused[tid] = x.me.reused] EXCEPT !.pool[b].ref = k]
    <3> HIDE DEF at
    <3> QED BY <2>0 DEF k
  <2> HIDE DEF at
  <2>2. [x EXCEPT !.at = at] = w1
    <3>1. OnlyAt(x, at) = w1
      BY <1>1, OnlyAtIs
    <3> QED BY <3>1 DEF OnlyAt
  <2>3. [w1 EXCEPT !.pool[b].reused[tid] = x.me.reused] = w2
    BY DEF X, Reuseds, f
  <2>4. [w2 EXCEPT !.pool[b].ref = k] = X(x.me, at, RefsOf(p1, b, k), x.edges)
    <3> HIDE DEF p1
    <3> QED BY DEF X, RefsOf
  <2> HIDE DEF w1, w2, p1, q
  <2> QED BY <1>10, <2>1, <2>2, <2>3, <2>4
<1> HIDE DEF p1
<1>12. /\ q \in Pools /\ \A a \in Blocks \ {b} : q[a] = x.pool[a]
       /\ q[b].ref = k /\ q[b].epoch = e /\ q[b].reused = f
  <2>1. q = Put(x.pool, b, k, e, f)
    OBVIOUS
  <2> HIDE DEF q
  <2> QED BY <1>a, <1>7, <2>1, PutDoes
<1> HIDE DEF q
<1>13. /\ d \in [DirtySlots -> DirtyEntries] /\ d[1].tid = tid /\ d[1].epoch = n /\ 1 \in DirtySlots
       /\ \A i \in DirtySlots \ {1} : d[i].tid = NoTid
  <2>1. 1 \in DirtySlots
    BY Numbers DEF DirtySlots
  <2> DEFINE k1 == [tid |-> tid, epoch |-> n]
  <2>2. k1 \in DirtyEntries /\ k1.tid = tid /\ k1.epoch = n
    BY <1>3 DEF DirtyEntries
  <2>3. d = [NoDirty EXCEPT ![1] = k1]
    BY DEF FirstEntry, tid, n
  <2> HIDE DEF k1, d
  <2>4. d \in [DirtySlots -> DirtyEntries] /\ d[1] = k1 /\ \A i \in DirtySlots \ {1} : d[i] = NoDirty[i]
    BY <2>1, <2>2, <2>3, Zeros
  <2> QED BY <2>1, <2>2, <2>4, Zeros
<1> HIDE DEF d
<1>14. rs \in [tid : Tids \cup {NoTid}, reused : 0..MaxReuse]
  BY <1>3 DEF OwnStore, tid
<1> HIDE DEF rs
<1>15. /\ at \in SyncClocks /\ at.tab = b /\ at.size = x.me.cached.size /\ at.dirty = d
       /\ at.release_store = rs
  BY <1>3, <1>13, <1>14 DEF SyncClocks
<1> HIDE DEF at
<1>16. y \in Xs /\ y.me = x.me /\ y.at = at /\ y.pool = q /\ y.edges = x.edges
  BY <1>2, <1>12, <1>15, XType
<1> HIDE DEF y
<1>17. /\ x.me.cached.size # 0
       /\ \A u \in Tids \ {tid} : e[u] = x.me.clk[u]
       /\ e[tid] # 0 /\ e[tid] <= n
       /\ \A u \in Tids : x.me.cached.size <= u => e[u] = 0
  BY <1>4 DEF CacheIs, n, tid
<1>18. \A i \in DirtySlots : d[i].tid # NoTid => i = 1
  BY <1>13
<1>19. SlotsOK(d)
  <2>1. DirtySlots \subseteq Nat /\ \A i \in DirtySlots : 1 <= i
    BY DEF DirtySlots
  <2>2. tid # NoTid
    BY <1>3, Numbers
  <2>3. ASSUME NEW i \in DirtySlots, NEW j \in DirtySlots, i < j PROVE d[j].tid = NoTid
    BY <1>13, <2>1, <2>3
  <2>4. ASSUME NEW i \in DirtySlots, NEW j \in DirtySlots, i # j, d[i].tid = d[j].tid PROVE d[i].tid = NoTid
    BY <1>18, <2>4
  <2> QED BY <2>3, <2>4 DEF SlotsOK
<1>20. TableOK(at, e)
  BY <1>13, <1>15, <1>17, <1>18 DEF TableOK
<1>21. AtOK(at, q)
  BY <1>3, <1>12, <1>15, <1>17, <1>19, <1>20, Numbers DEF AtOK
<1>22. \A a \in Blocks : q[a].epoch = x.pool[a].epoch
  <2>1. ASSUME NEW a \in Blocks PROVE q[a].epoch = x.pool[a].epoch
    <3>1. CASE a = b
      BY <1>12, <3>1 DEF e
    <3>2. CASE a # b
      BY <1>12, <3>2
    <3> QED BY <3>1, <3>2
  <2> QED BY <2>1
<1>23. Frame(x.pool, q, rest)
  BY <1>22 DEF Frame
<1>24. CacheOK(x.me, q)
  BY <1>4, <1>12 DEF CacheOK, b
<1>25. FlagsOK(q, C, R)
  <2>1. ASSUME NEW a \in Blocks PROVE FlagOK(q[a].epoch, q[a].reused, C, R)
    <3>1. CASE a = b
      <4>0. FlagOK(e, x.pool[b].reused, C, R)
        BY <1>1, <1>3 DEF FlagsOK, e
      <4>1. ASSUME NEW v \in Tids
            PROVE  /\ f[v] <= R[v]
                   /\ f[v] = R[v] => \A u \in Tids : e[u] <= C[v][u]
        <5>1. CASE v = tid
          <6>1. C[v] = x.me.clk /\ R[v] = x.me.reused /\ f[v] = x.me.reused
            BY <1>1, <1>6, <5>1 DEF tid
          <6>2. \A u \in Tids : e[u] <= x.me.clk[u]
            <7>1. ASSUME NEW u \in Tids PROVE e[u] <= x.me.clk[u]
              <8>1. e[u] \in Nat /\ x.me.clk[u] \in Nat
                BY <1>3, <1>5 DEF Clocks
              <8>2. CASE u = tid
                BY <1>17, <8>2 DEF n
              <8>3. CASE u # tid
                BY <1>17, <8>1, <8>3
              <8> QED BY <8>2, <8>3
            <7> QED BY <7>1
          <6> QED BY <1>3, <6>1, <6>2
        <5>2. CASE v # tid
          BY <1>6, <4>0, <5>2 DEF FlagOK
        <5> QED BY <5>1, <5>2
      <4> QED BY <1>12, <3>1, <4>1 DEF FlagOK
    <3>2. CASE a # b
      BY <1>1, <1>12, <3>2 DEF FlagsOK
    <3> QED BY <3>1, <3>2
  <2> QED BY <2>1 DEF FlagsOK
<1>26. Refs(y, rest)
  <2>1. ASSUME NEW a \in Blocks
        PROVE  q[a].ref = rest[a] + One(b = a) + One(b = a)
    <3>0. /\ x.pool[a].ref = rest[a] + One(x.at.tab = a) + One(b = a)
          /\ rest[a] \in Nat /\ x.at.tab # a
      <4>1. x.at.tab = NoBlock
        BY <1>1 DEF AtOK
      <4> QED BY <1>1, <4>1, Numbers DEF Refs, Known, b
    <3>1. CASE a = b
      BY <1>12, <3>0, <3>1 DEF One, k
    <3>2. CASE a # b
      BY <1>12, <3>0, <3>2 DEF One
    <3> QED BY <3>1, <3>2
  <2>2. x.me.cached.tab = b
    BY DEF b
  <2> QED BY <1>15, <1>16, <2>1, <2>2 DEF Refs
<1>27. XInv(y, rest, C, R)
  BY <1>1, <1>16, <1>21, <1>24, <1>25, <1>26 DEF XInv
<1>28. V(y) = x.me.clk
  <2>1. V(y) = VecOf(at, e)
    BY <1>12, <1>15, <1>16 DEF V, Vec
  <2>2. tid # NoTid
    BY <1>3, Numbers
  <2>3. DirtyTids(at) = {tid}
    BY <1>13, <1>15, <1>18, <2>2 DEF DirtyTids
  <2>4. DirtyEpoch(at, tid) = n
    BY <1>13, <1>15, <1>19, <2>2, DirtyFound
  <2>5. \A u \in Tids : VecOf(at, e)[u] = (IF u \in DirtyTids(at) THEN DirtyEpoch(at, u) ELSE e[u])
    BY <1>5, <1>15, <1>17, <1>19, <1>20, TableIsEarlier
  <2>6. \A u \in Tids : VecOf(at, e)[u] = x.me.clk[u]
    BY <1>17, <2>3, <2>4, <2>5 DEF n
  <2>7. VecOf(at, e) \in Clocks
    BY <1>5, <1>15, <1>19, VecType
  <2> QED BY <1>3, <2>1, <2>6, <2>7 DEF Clocks
<1>29. SameMe(x.me, y.me)
  BY <1>16 DEF SameMe
<1> QED BY <1>11, <1>15, <1>16, <1>23, <1>27, <1>28, <1>29 DEF Kept, rs

(* A table that holds all of the thread's clock holds nothing else.        *)
LEMMA ClockFits ==
  ASSUME NEW x, NEW rest, NEW C, NEW R, XInv(x, rest, C, R), NEW z \in Xs,
         z.at.size # 0, AtOK(z.at, z.pool), x.me.nclk <= z.at.size
  PROVE  /\ \A u \in Tids : z.at.size <= u => x.me.clk[u] = 0
         /\ [u \in Tids |-> IF u \in Elems(z) THEN x.me.clk[u] ELSE z.pool[z.at.tab].epoch[u]] = x.me.clk
<1>1. x \in Xs /\ MeOK(x.me)
  BY DEF XInv
<1>2. x.me \in ThreadClocks /\ z.at \in SyncClocks
  BY <1>1, XFields
<1>3. x.me.clk \in Clocks /\ x.me.nclk \in Nat /\ z.at.size \in Nat /\ Tids \subseteq Nat
  BY <1>2, MeFields, AtFields, Numbers
<1>4. ASSUME NEW u \in Tids, z.at.size <= u PROVE x.me.clk[u] = 0
  <2>1. x.me.nclk <= u
    BY <1>3, <1>4
  <2> QED BY <1>1, <2>1 DEF MeOK
<1>5. ASSUME NEW u \in Tids, ~ (u < z.at.size) PROVE z.pool[z.at.tab].epoch[u] = 0
  <2>1. TableOK(z.at, z.pool[z.at.tab].epoch)
    BY DEF AtOK
  <2>2. z.at.size <= u
    BY <1>3, <1>5
  <2> QED BY <2>1, <2>2 DEF TableOK
<1>6. ASSUME NEW u \in Tids
      PROVE  (IF u \in Elems(z) THEN x.me.clk[u] ELSE z.pool[z.at.tab].epoch[u]) = x.me.clk[u]
  <2>1. CASE u < z.at.size
    BY <2>1 DEF Elems
  <2>2. CASE ~ (u < z.at.size)
    <3>1. z.at.size <= u
      BY <1>3, <2>2
    <3> QED BY <1>4, <1>5, <2>2, <3>1 DEF Elems
  <2> QED BY <2>1, <2>2
<1> QED BY <1>3, <1>4, <1>6 DEF Clocks

LEMMA OwnStoreType ==
  ASSUME NEW x \in Xs
  PROVE  OwnStore(x) \in [tid : Tids \cup {NoTid}, reused : 0..MaxReuse]
<1>1. x.me.tid \in Tids /\ x.me.reused \in 1..MaxReuse
  BY XFields, MeFields
<1> QED BY <1>1 DEF OwnStore

LEMMA NoStoreType == NoStore \in [tid : Tids \cup {NoTid}, reused : 0..MaxReuse]
BY DEF NoStore

(* ReleaseStore *)
LEMMA ReleaseStoreDoes ==
  ASSUME NEW x, NEW rest, NEW C, NEW R, XInv(x, rest, C, R), Room(rest), Pre(x, C, R)
  PROVE  LET y == ReleaseStore(x)
         IN  /\ Kept(x, y, rest, C, R) /\ V(y) = x.me.clk /\ y.at.release_store = OwnStore(x)
<1> DEFINE y == Resize(x)
           z == Unshare(y)
           e == [u \in Tids |-> IF u \in Elems(z) THEN x.me.clk[u] ELSE z.pool[z.at.tab].epoch[u]]
           f == [AllZero EXCEPT ![x.me.tid] = x.me.reused]
           rs == OwnStore(x)
           w == StoreClean(z, e, f, rs)
<1>1. /\ XInv(y, rest, C, R) /\ Frame(x.pool, y.pool, rest)
      /\ y.me = x.me /\ y.edges = x.edges /\ V(y) = V(x)
      /\ y.at.release_store = x.at.release_store
      /\ x.me.nclk <= y.at.size /\ y.at.size # 0
  BY ResizeDoes
<1>2. CASE x.at.size = 0 /\ x.me.cached.tab # NoBlock
  BY <1>2, CachedTableGiven
<1>3. CASE ~ (x.at.size = 0 /\ x.me.cached.tab # NoBlock) /\ IsOwnReleaseStore(y) /\ ~ HasAcquiredAfterRelease(y)
  <2> DEFINE v == UpdateCurrentThread(y)
  <2>1. ReleaseStore(x) = v
    BY <1>3 DEF ReleaseStore
  <2>2. /\ XInv(v, rest, C, R) /\ Frame(x.pool, v.pool, rest)
        /\ v.me = x.me /\ v.edges = x.edges /\ v.at.release_store = x.at.release_store
        /\ V(v) = x.me.clk
    BY <1>3, OwnStoreIsLast
  <2>3. x.at.release_store = OwnStore(x)
    BY <1>1, <1>3 DEF IsOwnReleaseStore, OwnStore
  <2> HIDE DEF v
  <2> QED BY <2>1, <2>2, <2>3 DEF Kept, SameMe
<1>4. CASE ~ (x.at.size = 0 /\ x.me.cached.tab # NoBlock) /\ ~ (IsOwnReleaseStore(y) /\ ~ HasAcquiredAfterRelease(y))
  <2>1. ReleaseStore(x) = CacheTable(w)
    BY <1>4 DEF ReleaseStore, StoreClean
  <2> HIDE DEF y
  <2>2. /\ XInv(z, rest, C, R) /\ Frame(y.pool, z.pool, rest)
        /\ z.me = x.me /\ z.edges = x.edges
        /\ z.at.size = y.at.size /\ Alone(z)
    BY <1>1, UnshareDoes
  <2> HIDE DEF z
  <2>3. z \in Xs /\ AtOK(z.at, z.pool) /\ x \in Xs
    BY <2>2 DEF XInv
  <2>4. z.at \in SyncClocks /\ z.pool \in Pools /\ x.me \in ThreadClocks
    BY <2>3, XFields
  <2>5. x.me.clk \in Clocks /\ x.me.tid \in Tids
    BY <2>4, MeFields
  <2>6. e = x.me.clk /\ \A u \in Tids : z.at.size <= u => x.me.clk[u] = 0
    BY <1>1, <2>2, <2>3, ClockFits
  <2> HIDE DEF e
  <2>7. f \in Flags /\ FlagOK(e, f, C, R)
    <3>1. \A u \in Tids : e[u] <= x.me.clk[u]
      BY <2>5, <2>6 DEF Clocks
    <3> QED BY <3>1, OwnFlag
  <2> HIDE DEF f
  <2>8. rs \in [tid : Tids \cup {NoTid}, reused : 0..MaxReuse]
    BY <2>3, OwnStoreType
  <2> HIDE DEF rs
  <2> DEFINE at == CleanAt(z.at, rs)
             v == X(z.me, at, Put(z.pool, z.at.tab, z.pool[z.at.tab].ref, e, f), z.edges)
  <2>9. w = v
    <3>1. z.at.tab \in Blocks /\ e \in Clocks
      BY <2>2, <2>5, <2>6 DEF Alone
    <3> QED BY <2>3, <2>7, <3>1, StoreIs
  <2>10. /\ at \in SyncClocks /\ at.tab = z.at.tab /\ at.size = z.at.size /\ at.dirty = NoDirty
         /\ at.release_store = rs
    BY <2>4, <2>8, StoredAtType
  <2> HIDE DEF at, w
  <2>11. /\ XInv(v, rest, C, R) /\ Frame(z.pool, v.pool, rest)
         /\ v.me = z.me /\ v.at = at /\ v.edges = z.edges
         /\ V(v) = e /\ v.pool[v.at.tab].epoch = e
    <3>1. at.size # 0 /\ e \in Clocks /\ \A u \in Tids : at.size <= u => e[u] = 0
      BY <1>1, <2>2, <2>5, <2>6, <2>10
    <3>2. v = Over(z, at, e, f)
      BY DEF Over
    <3> HIDE DEF v
    <3> QED BY <2>2, <2>7, <2>10, <3>1, <3>2, Overwritten
  <2> HIDE DEF v
  <2>12. /\ XInv(CacheTable(v), rest, C, R) /\ Frame(v.pool, CacheTable(v).pool, rest)
         /\ SameMe(v.me, CacheTable(v).me) /\ CacheTable(v).at = v.at /\ CacheTable(v).edges = v.edges
         /\ V(CacheTable(v)) = V(v)
    <3>1. v.at.size # 0 /\ v.pool[v.at.tab].epoch = v.me.clk /\ v.me.clk[v.me.tid] # 0
      BY <1>1, <2>2, <2>6, <2>10, <2>11 DEF Pre
    <3> QED BY <2>11, <3>1, CacheTableDoes
  <2>13. Frame(x.pool, CacheTable(v).pool, rest)
    BY <1>1, <2>2, <2>11, <2>12 DEF Frame
  <2> QED BY <2>1, <2>2, <2>6, <2>9, <2>10, <2>11, <2>12, <2>13 DEF Kept, rs
<1> QED BY <1>2, <1>3, <1>4

(* Release *)
LEMMA ReleaseDoes ==
  ASSUME NEW x, NEW rest, NEW C, NEW R, XInv(x, rest, C, R), Room(rest), Pre(x, C, R)
  PROVE  LET y == Release(x)
         IN  /\ Kept(x, y, rest, C, R) /\ V(y) = Join(V(x), x.me.clk)
             /\ y.at.release_store = NoStore \/ (y.at.release_store = OwnStore(x) /\ V(y) = x.me.clk)
<1> DEFINE y == Resize(x)
           clk == x.me.clk
<1>0. x \in Xs /\ AtOK(x.at, x.pool)
  BY DEF XInv
<1>1. /\ x.me \in ThreadClocks /\ x.at \in SyncClocks /\ x.pool \in Pools
  BY <1>0, XFields
<1>2. clk \in Clocks /\ x.me.tid \in Tids /\ V(x) \in Clocks
  BY <1>0, <1>1, MeFields, VecFacts DEF V
<1>3. /\ XInv(y, rest, C, R) /\ Frame(x.pool, y.pool, rest)
      /\ y.me = x.me /\ y.edges = x.edges /\ V(y) = V(x)
      /\ y.at.release_store = x.at.release_store
      /\ x.me.nclk <= y.at.size /\ y.at.size # 0
  BY ResizeDoes
<1>4. Join(V(x), clk) \in Clocks /\ \A u \in Tids : Join(V(x), clk)[u] = (IF V(x)[u] < clk[u] THEN clk[u] ELSE V(x)[u])
  BY <1>2, JoinDoes
<1>5. CASE x.at.size = 0
  <2>1. Release(x) = ReleaseStore(x)
    BY <1>5 DEF Release
  <2>2. V(x) = AllZero
    BY <1>0, <1>1, <1>5, VecFacts DEF V
  <2>3. Join(V(x), clk) = clk
    <3>1. \A u \in Tids : Join(V(x), clk)[u] = clk[u]
      BY <1>2, <1>4, <2>2, Zeros DEF Clocks
    <3> QED BY <1>2, <1>4, <3>1 DEF Clocks
  <2> QED BY <2>1, <2>3, ReleaseStoreDoes
<1>6. CASE x.at.size # 0 /\ ~ HasAcquiredAfterRelease(y)
  <2> DEFINE v == UpdateCurrentThread(y)
             u == [v EXCEPT !.at.release_store = NoStore]
  <2>1. Release(x) = (IF IsOwnReleaseStore(y) THEN v ELSE u)
    BY <1>6 DEF Release
  <2>2. /\ XInv(v, rest, C, R) /\ Frame(x.pool, v.pool, rest)
        /\ v.me = x.me /\ v.edges = x.edges /\ v.at.release_store = x.at.release_store
        /\ V(v) = Join(V(x), clk) /\ (IsOwnReleaseStore(y) => V(v) = clk)
    BY <1>6, OwnStoreIsLast
  <2>3. IsOwnReleaseStore(y) => x.at.release_store = OwnStore(x)
    BY <1>3 DEF IsOwnReleaseStore, OwnStore
  <2> HIDE DEF v, y
  <2>4. CASE IsOwnReleaseStore(y)
    BY <2>1, <2>2, <2>3, <2>4 DEF Kept, SameMe
  <2>5. CASE ~ IsOwnReleaseStore(y)
    <3> DEFINE at == StoredAt(v.at, NoStore)
               w == X(v.me, at, v.pool, v.edges)
    <3>1. /\ v \in Xs /\ AtOK(v.at, v.pool) /\ Refs(v, rest) /\ Known(rest, C, R)
          /\ C[v.me.tid] = v.me.clk /\ R[v.me.tid] = v.me.reused
          /\ CacheOK(v.me, v.pool) /\ MeOK(v.me) /\ FlagsOK(v.pool, C, R)
      BY <2>2 DEF XInv
    <3>2. v.me \in ThreadClocks /\ v.at \in SyncClocks /\ v.pool \in Pools /\ v.edges \in SUBSET Lines
      BY <3>1, XFields
    <3>3. u = w
      <4>1. u = OnlyAt(v, at)
        BY DEF OnlyAt, StoredAt
      <4> HIDE DEF at, u
      <4>2. OnlyAt(v, at) = X(v.me, at, v.pool, v.edges)
        BY <3>1, OnlyAtIs
      <4> QED BY <4>1, <4>2
    <3>4. /\ at \in SyncClocks /\ at.tab = v.at.tab /\ at.size = v.at.size /\ at.dirty = v.at.dirty
          /\ at.release_store = NoStore
      BY <3>2, NoStoreType, StoredAtType
    <3> HIDE DEF at, u
    <3>5. w \in Xs /\ w.me = v.me /\ w.at = at /\ w.pool = v.pool /\ w.edges = v.edges
      BY <3>2, <3>4, XType
    <3> HIDE DEF w
    <3>6. AtOK(at, v.pool) /\ Refs(w, rest)
      BY <3>1, <3>4, <3>5, SameEntries DEF Refs
    <3>7. XInv(w, rest, C, R)
      BY <3>1, <3>5, <3>6 DEF XInv
    <3>8. V(w) = V(v)
      BY <3>1, <3>4, <3>5, SameEntries DEF V
    <3> QED BY <2>1, <2>2, <2>5, <3>3, <3>4, <3>5, <3>7, <3>8 DEF Kept, SameMe
  <2> QED BY <2>4, <2>5
<1>7. CASE x.at.size # 0 /\ HasAcquiredAfterRelease(y)
  <2> DEFINE s == Unshare(y)
             z == FlushDirty(s)
             acquired == IsAlreadyAcquired(y)
             b == s.at.tab
             e == [u \in Tids |-> IF u \in Elems(z) THEN Later(z.pool[z.at.tab].epoch[u], x.me.clk[u])
                                  ELSE z.pool[z.at.tab].epoch[u]]
             f == IF acquired THEN [AllZero EXCEPT ![x.me.tid] = x.me.reused] ELSE AllZero
             w == Store(z, e, f, NoStore)
  <2>1. Release(x) = w
    BY <1>7 DEF Release, Store
  <2>2. acquired => \A u \in Tids : Join(V(x), clk)[u] <= clk[u]
    <3>1. SUFFICES ASSUME acquired, NEW u \in Tids PROVE Join(V(x), clk)[u] <= clk[u]
      OBVIOUS
    <3> HIDE DEF y
    <3>2. /\ y \in Xs /\ AtOK(y.at, y.pool) /\ FlagsOK(y.pool, C, R)
          /\ C[y.me.tid] = y.me.clk /\ R[y.me.tid] = y.me.reused
      BY <1>3 DEF XInv
    <3>3. y.at \in SyncClocks /\ y.pool \in Pools
      BY <3>2, XFields
    <3>4. y.at.tab \in Blocks /\ y.pool[y.at.tab].epoch \in Clocks
      BY <1>3, <3>2, <3>3, VecFacts
    <3>5. SlotsOK(y.at.dirty) /\ TableOK(y.at, y.pool[y.at.tab].epoch)
      BY <3>2 DEF AtOK
    <3>6. V(x)[u] = (IF u \in DirtyTids(y.at) THEN DirtyEpoch(y.at, u) ELSE y.pool[y.at.tab].epoch[u])
      <4> DEFINE te == y.pool[y.at.tab].epoch
      <4> HIDE DEF te
      <4>1. VecOf(y.at, te)[u] = (IF u \in DirtyTids(y.at) THEN DirtyEpoch(y.at, u) ELSE te[u])
        BY <1>3, <3>3, <3>4, <3>5, TableIsEarlier DEF te
      <4> QED BY <1>3, <4>1 DEF V, Vec, te
    <3>7. y.pool[y.at.tab].epoch[u] <= clk[u]
      <4>1. y.pool[y.at.tab].reused[y.me.tid] = R[y.me.tid]
        BY <3>1, <3>2 DEF IsAlreadyAcquired, Tab
      <4>2. FlagOK(y.pool[y.at.tab].epoch, y.pool[y.at.tab].reused, C, R)
        BY <3>2, <3>4 DEF FlagsOK
      <4>3. y.me.tid \in Tids
        BY <1>2, <1>3
      <4> QED BY <1>3, <3>2, <4>1, <4>2, <4>3 DEF FlagOK
    <3>8. u \in DirtyTids(y.at) => DirtyEpoch(y.at, u) <= clk[u]
      BY <1>3, <3>1 DEF IsAlreadyAcquired
    <3>9. V(x)[u] \in Nat /\ clk[u] \in Nat
      BY <1>2 DEF Clocks
    <3>10. V(x)[u] <= clk[u]
      BY <3>6, <3>7, <3>8
    <3> QED BY <1>4, <3>9, <3>10
  <2> HIDE DEF y, acquired
  <2>3. /\ XInv(s, rest, C, R) /\ Frame(y.pool, s.pool, rest)
        /\ s.me = x.me /\ s.edges = x.edges /\ V(s) = V(x)
        /\ s.at.size = y.at.size /\ Alone(s)
    BY <1>3, UnshareDoes
  <2> HIDE DEF s
  <2>4. s \in Xs /\ AtOK(s.at, s.pool)
    BY <2>3 DEF XInv
  <2>5. s.me \in ThreadClocks /\ s.at \in SyncClocks /\ s.pool \in Pools /\ s.edges \in SUBSET Lines
    BY <2>4, XFields
  <2>6. Flushed(s) = V(x) /\ s.at.size # 0 /\ b \in Blocks
    BY <1>3, <2>3, <2>4, FlushedIsClock DEF Alone
  <2> DEFINE at1 == [s.at EXCEPT !.dirty = NoDirty]
             ref == s.pool[b].ref
             p1 == Put(s.pool, b, ref, V(x), s.pool[b].reused)
  <2>7. z = X(s.me, at1, p1, s.edges)
    BY <2>4, <2>6, FlushDirtyIs
  <2>8. at1 \in SyncClocks /\ at1.tab = b /\ at1.size = s.at.size
    BY <2>5, Zeros DEF SyncClocks
  <2> HIDE DEF at1, b, z
  <2>9. s.pool[b].ref \in Nat /\ s.pool[b].reused \in Flags
    BY <2>5, <2>6, BlockFields
  <2>10. p1 \in Pools /\ p1[b].ref = ref /\ p1[b].epoch = V(x)
    <3>1. p1 = Put(s.pool, b, ref, V(x), s.pool[b].reused)
      OBVIOUS
    <3>2. ref \in Nat
      BY <2>9
    <3> HIDE DEF p1, ref
    <3> QED BY <1>2, <2>5, <2>6, <2>9, <3>1, <3>2, PutDoes
  <2>11. z \in Xs /\ z.me = x.me /\ z.at = at1 /\ z.pool = p1 /\ z.edges = x.edges
    <3> HIDE DEF p1
    <3> QED BY <2>3, <2>5, <2>7, <2>8, <2>10, XType
  <2>12. e = Join(V(x), clk)
    <3>1. \A u \in Tids : z.pool[z.at.tab].epoch[u] = V(x)[u]
      BY <2>8, <2>10, <2>11
    <3>2. ASSUME NEW u \in Tids PROVE e[u] = Join(V(x), clk)[u]
      <4>0. Join(V(x), clk)[u] = Later(V(x)[u], clk[u])
        BY DEF Join
      <4>1. CASE u < s.at.size
        BY <2>8, <2>11, <3>1, <4>0, <4>1 DEF Elems
      <4>2. CASE ~ (u < s.at.size)
        <5>1. s.at.size <= u
          BY <2>5, <4>2, AtFields, Numbers
        <5>2. V(x)[u] = 0
          BY <2>3, <2>4, <2>5, <2>6, <5>1, VecFacts DEF V
        <5>3. clk[u] = 0
          BY <1>3, <2>3, <2>4, <2>6, <5>1, ClockFits, ZenonT(60)
        <5> QED BY <2>8, <2>11, <3>1, <4>0, <4>2, <5>2, <5>3 DEF Elems, Later
      <4> QED BY <4>1, <4>2
    <3>3. e = [u \in Tids |-> e[u]]
      OBVIOUS
    <3> HIDE DEF e
    <3> QED BY <1>4, <3>2, <3>3 DEF Clocks
  <2>13. f \in Flags /\ FlagOK(Join(V(x), clk), f, C, R)
    <3>1. CASE acquired
      BY <2>2, <3>1, OwnFlag
    <3>2. CASE ~ acquired
      <4>1. R \in [Tids -> 1..MaxReuse]
        BY DEF XInv, Known
      <4> QED BY <3>2, <4>1, NoFlags, Zeros
    <3> QED BY <3>1, <3>2
  <2> HIDE DEF e, f
  <2> DEFINE at == StoredAt(at1, NoStore)
             v == X(s.me, at, Put(s.pool, b, ref, e, f), s.edges)
  <2>14. w = v
    <3>1. w = X(z.me, StoredAt(z.at, NoStore), Put(z.pool, z.at.tab, z.pool[z.at.tab].ref, e, f), z.edges)
      BY <1>4, <2>6, <2>8, <2>11, <2>12, <2>13, StoreIs
    <3>2. Put(z.pool, z.at.tab, z.pool[z.at.tab].ref, e, f) = Put(p1, b, ref, e, f)
      BY <2>8, <2>10, <2>11
    <3>3. Put(p1, b, ref, e, f) = Put(s.pool, b, ref, e, f)
      BY <2>5, <2>6, PutPut
    <3> HIDE DEF w, p1, ref
    <3> QED BY <2>3, <2>11, <3>1, <3>2, <3>3
  <2>15. /\ at \in SyncClocks /\ at.tab = s.at.tab /\ at.size = s.at.size
         /\ at.release_store = NoStore
    BY <2>8, NoStoreType, StoredAtType DEF b
  <2>16. at.dirty = NoDirty
    <3>1. at1.dirty = NoDirty
      BY <2>5 DEF at1, SyncClocks
    <3> QED BY <2>8, <3>1, NoStoreType, StoredAtType
  <2> HIDE DEF at, w
  <2>17. /\ XInv(v, rest, C, R) /\ Frame(s.pool, v.pool, rest)
         /\ v.me = s.me /\ v.at = at /\ v.edges = s.edges /\ V(v) = e
    <3>1. at.size # 0 /\ e \in Clocks /\ FlagOK(e, f, C, R)
      BY <1>4, <2>6, <2>12, <2>13, <2>15
    <3>2. ASSUME NEW u \in Tids, at.size <= u PROVE e[u] = 0
      <4>1. V(x)[u] = 0
        BY <2>3, <2>4, <2>5, <2>6, <2>15, <3>2, VecFacts DEF V
      <4>2. clk[u] = 0
        BY <1>3, <2>3, <2>4, <2>6, <2>15, <3>2, ClockFits
      <4> QED BY <1>4, <2>12, <4>1, <4>2
    <3>3. v = Over(s, at, e, f)
      BY DEF b, Over
    <3> HIDE DEF v
    <3> QED BY <2>3, <2>13, <2>15, <2>16, <3>1, <3>2, <3>3, Overwritten
  <2> HIDE DEF v
  <2>18. Frame(x.pool, v.pool, rest)
    BY <1>3, <2>3, <2>17 DEF Frame
  <2> QED BY <2>1, <2>3, <2>12, <2>14, <2>15, <2>17, <2>18 DEF Kept, SameMe
<1> QED BY <1>5, <1>6, <1>7

--------------------------------------------------------------------------------
(* Acquires *)

Grown(t, before, after) ==
  {<<u, after[u], t, before[t]>> : u \in {v \in Tids \ {t} : before[v] < after[v]}}

LEMMA GrownType ==
  ASSUME NEW t \in Tids, NEW before \in Clocks, NEW after \in Clocks
  PROVE  Grown(t, before, after) \in SUBSET Lines
BY DEF Grown, Lines, Clocks

LEMMA GrownNot ==
  ASSUME NEW t \in Tids, NEW before \in Clocks
  PROVE  Grown(t, before, before) = {}
<1>1. \A v \in Tids : ~ (before[v] < before[v])
  BY DEF Clocks
<1> QED BY <1>1 DEF Grown

(* Each component grows once. *)
LEMMA GrownTwice ==
  ASSUME NEW t \in Tids, NEW a \in Clocks, NEW b \in Clocks, NEW c \in Clocks,
         b[t] = a[t],
         \A u \in Tids : (b[u] = a[u] /\ a[u] <= c[u]) \/ (b[u] = c[u] /\ a[u] <= b[u])
  PROVE  Grown(t, a, b) \cup Grown(t, b, c) = Grown(t, a, c)
<1>0. \A u \in Tids : a[u] \in Nat /\ b[u] \in Nat /\ c[u] \in Nat
  BY DEF Clocks
<1>1. ASSUME NEW g \in Grown(t, a, b) PROVE g \in Grown(t, a, c)
  <2>1. PICK u \in Tids \ {t} : a[u] < b[u] /\ g = <<u, b[u], t, a[t]>>
    BY DEF Grown
  <2>2. b[u] = c[u]
    BY <1>0, <2>1
  <2> QED BY <2>1, <2>2 DEF Grown
<1>2. ASSUME NEW g \in Grown(t, b, c) PROVE g \in Grown(t, a, c)
  <2>1. PICK u \in Tids \ {t} : b[u] < c[u] /\ g = <<u, c[u], t, b[t]>>
    BY DEF Grown
  <2>2. a[u] < c[u]
    BY <1>0, <2>1
  <2> QED BY <2>1, <2>2 DEF Grown
<1>3. ASSUME NEW g \in Grown(t, a, c) PROVE g \in Grown(t, a, b) \cup Grown(t, b, c)
  <2>1. PICK u \in Tids \ {t} : a[u] < c[u] /\ g = <<u, c[u], t, a[t]>>
    BY DEF Grown
  <2>2. CASE b[u] = c[u]
    <3>1. a[u] < b[u] /\ g = <<u, b[u], t, a[t]>>
      BY <2>1, <2>2
    <3>2. g \in Grown(t, a, b)
      BY <2>1, <3>1 DEF Grown
    <3> QED BY <3>2
  <2>3. CASE b[u] = a[u]
    <3>1. b[u] < c[u] /\ g = <<u, c[u], t, b[t]>>
      BY <2>1, <2>3
    <3>2. g \in Grown(t, b, c)
      BY <2>1, <3>1 DEF Grown
    <3> QED BY <3>2
  <2> QED BY <2>1, <2>2, <2>3
<1> QED BY <1>1, <1>2, <1>3

LEMMA FlagsGrow ==
  ASSUME NEW p, NEW C \in [Tids -> Clocks], NEW R, FlagsOK(p, C, R), p \in Pools,
         NEW t \in Tids, NEW clk \in Clocks, \A u \in Tids : C[t][u] <= clk[u]
  PROVE  FlagsOK(p, [C EXCEPT ![t] = clk], R)
<1> DEFINE D == [C EXCEPT ![t] = clk]
<1>1. \A v \in Tids : D[v] = (IF v = t THEN clk ELSE C[v])
  OBVIOUS
<1> HIDE DEF D
<1>2. ASSUME NEW b \in Blocks, NEW v \in Tids
      PROVE  /\ p[b].reused[v] <= R[v]
             /\ p[b].reused[v] = R[v] => \A u \in Tids : p[b].epoch[u] <= D[v][u]
  <2>1. /\ p[b].reused[v] <= R[v]
        /\ p[b].reused[v] = R[v] => \A u \in Tids : p[b].epoch[u] <= C[v][u]
    BY DEF FlagsOK, FlagOK
  <2>2. p[b].epoch \in Clocks
    BY BlockFields
  <2> DEFINE e == p[b].epoch
             c == C[v]
             d == D[v]
  <2>3. \A u \in Tids : c[u] <= d[u]
    <3>1. c \in Clocks
      OBVIOUS
    <3>2. CASE v = t
      BY <1>1, <3>2
    <3>3. CASE v # t
      BY <1>1, <3>1, <3>3 DEF Clocks
    <3> QED BY <3>2, <3>3
  <2>4. ASSUME NEW u \in Tids, e[u] <= c[u] PROVE e[u] <= d[u]
    <3>1. e \in Clocks /\ c \in Clocks /\ d \in Clocks
      BY <1>1, <2>2
    <3> HIDE DEF e, c, d
    <3> QED BY <2>3, <2>4, <3>1 DEF Clocks
  <2> QED BY <2>1, <2>4
<1> QED BY <1>2 DEF FlagsOK, FlagOK, D

LEMMA MeEqual ==
  ASSUME NEW a \in ThreadClocks, NEW b \in ThreadClocks,
         a.tid = b.tid, a.clk = b.clk, a.nclk = b.nclk, a.reused = b.reused,
         a.last_acquire = b.last_acquire, a.global_acquire = b.global_acquire, a.cached = b.cached
  PROVE  a = b
BY DEF ThreadClocks

LEMMA RelearnedType ==
  ASSUME NEW me \in ThreadClocks, NEW clk \in Clocks, NEW n \in 1..NThreads
  PROVE  LET now == Relearned(me, clk, n)
         IN  /\ now \in ThreadClocks /\ now.tid = me.tid /\ now.clk = clk /\ now.nclk = n
             /\ now.reused = me.reused /\ now.last_acquire = me.last_acquire
             /\ now.global_acquire = me.global_acquire /\ now.cached = me.cached
BY DEF ThreadClocks, Clocks, Relearned

RelearnedIs(now, me, clk, n) ==
  /\ now \in ThreadClocks /\ now.tid = me.tid /\ now.clk = clk /\ now.nclk = n
  /\ now.reused = me.reused /\ now.last_acquire = me.last_acquire
  /\ now.global_acquire = me.global_acquire /\ now.cached = me.cached

LEMMA RelearnedDoes ==
  ASSUME NEW me \in ThreadClocks, NEW clk \in Clocks, NEW n \in 1..NThreads
  PROVE  RelearnedIs(Relearned(me, clk, n), me, clk, n)
BY DEF ThreadClocks, Clocks, Relearned, RelearnedIs

(* Learn *)
LEMMA LearnIs ==
  ASSUME NEW x \in Xs, NEW heard \in Clocks
  PROVE  LET clk == Join(x.me.clk, heard)
         IN  /\ clk \in Clocks
             /\ Learn(x, heard) = X(Relearned(x.me, clk, x.me.nclk), x.at, x.pool,
                                    x.edges \cup Grown(x.me.tid, x.me.clk, clk))
<1> DEFINE clk == Join(x.me.clk, heard)
           g == x.edges \cup Grown(x.me.tid, x.me.clk, clk)
           m1 == [x.me EXCEPT !.clk = clk]
           me == Relearned(x.me, clk, x.me.nclk)
<1>1. x.me \in ThreadClocks
  BY XFields
<1>2. x.me.clk \in Clocks /\ x.me.nclk \in 1..NThreads
  BY <1>1, MeFields
<1>3. clk \in Clocks
  BY <1>2, JoinDoes
<1>4. clk = [u \in Tids |-> Later(x.me.clk[u], heard[u])]
  BY DEF Join
<1>5. Learn(x, heard) = [x EXCEPT !.me.clk = clk, !.edges = x.edges \cup Log(x, clk)]
  <2> HIDE DEF clk
  <2>1. Learn(x, heard) = [x EXCEPT !.me.clk = clk, !.edges = @ \cup Log(x, clk)]
    BY <1>4 DEF Learn
  <2>2. [x EXCEPT !.me.clk = clk].edges = x.edges
    BY DEF Xs
  <2> QED BY <2>1, <2>2
<1>6. Log(x, clk) = Grown(x.me.tid, x.me.clk, clk)
  BY DEF Log, Grown
<1> HIDE DEF clk
<1>7. me = m1
  <2>1. /\ m1 \in ThreadClocks /\ m1.tid = x.me.tid /\ m1.clk = clk /\ m1.nclk = x.me.nclk
        /\ m1.reused = x.me.reused /\ m1.last_acquire = x.me.last_acquire
        /\ m1.global_acquire = x.me.global_acquire /\ m1.cached = x.me.cached
    BY <1>1, <1>3 DEF ThreadClocks, Clocks
  <2>2. /\ me \in ThreadClocks /\ me.tid = x.me.tid /\ me.clk = clk /\ me.nclk = x.me.nclk
        /\ me.reused = x.me.reused /\ me.last_acquire = x.me.last_acquire
        /\ me.global_acquire = x.me.global_acquire /\ me.cached = x.me.cached
    <3>1. RelearnedIs(Relearned(x.me, clk, x.me.nclk), x.me, clk, x.me.nclk)
      BY <1>1, <1>2, <1>3, RelearnedDoes
    <3> QED BY <3>1 DEF RelearnedIs
  <2> HIDE DEF m1, me
  <2> QED BY <2>1, <2>2, MeEqual
<1>8. [x EXCEPT !.me.clk = clk, !.edges = g] = MeEdges(x, m1, g)
  <2> HIDE DEF g
  <2> QED BY DEF MeEdges
<1> HIDE DEF m1, g
<1>9. MeEdges(x, m1, g) = X(m1, x.at, x.pool, g)
  BY MeEdgesIs
<1>10. Learn(x, heard) = X(me, x.at, x.pool, g)
  <2>1. Learn(x, heard) = [x EXCEPT !.me.clk = clk, !.edges = g]
    BY <1>5, <1>6 DEF g
  <2> QED BY <1>7, <1>8, <1>9, <2>1
<1> QED BY <1>3, <1>10 DEF clk, g

LEMMA AfterNothing ==
  ASSUME NEW x, NEW rest, NEW C, NEW R, XInv(x, rest, C, R)
  PROVE  After(x, x, rest, C, R)
<1>1. [C EXCEPT ![x.me.tid] = x.me.clk] = C
  BY DEF XInv, Known
<1>2. Keeps(x.me, x.me)
  BY DEF Keeps
<1> QED BY <1>1, <1>2 DEF After, Frame

(* What an operation that learns leaves.                                   *)
Learned(x, y, rest, C, R) ==
  /\ After(x, y, rest, C, R)
  /\ y.me.clk = Join(x.me.clk, V(x))
  /\ y.edges = x.edges \cup Grown(x.me.tid, x.me.clk, y.me.clk)

LEMMA NothingToLearn ==
  ASSUME NEW x, NEW rest, NEW C, NEW R, XInv(x, rest, C, R), x.at.size = 0
  PROVE  Learned(x, x, rest, C, R) /\ V(x) = AllZero /\ Join(x.me.clk, V(x)) = x.me.clk
<1>1. x \in Xs /\ AtOK(x.at, x.pool)
  BY DEF XInv
<1>2. x.me \in ThreadClocks /\ x.at \in SyncClocks /\ x.pool \in Pools
  BY <1>1, XFields
<1>3. x.me.clk \in Clocks /\ x.me.tid \in Tids
  BY <1>2, MeFields
<1>4. V(x) = AllZero
  BY <1>1, <1>2, VecFacts DEF V
<1>5. Join(x.me.clk, AllZero) = x.me.clk
  <2>1. Join(x.me.clk, AllZero) \in Clocks
        /\ \A u \in Tids : Join(x.me.clk, AllZero)[u] = (IF x.me.clk[u] < AllZero[u] THEN AllZero[u] ELSE x.me.clk[u])
    BY <1>3, Zeros, JoinDoes
  <2>2. \A u \in Tids : Join(x.me.clk, AllZero)[u] = x.me.clk[u]
    <3>1. ASSUME NEW u \in Tids PROVE ~ (x.me.clk[u] < AllZero[u])
      BY <1>3, Zeros DEF Clocks
    <3> QED BY <2>1, <3>1
  <2> QED BY <1>3, <2>1, <2>2 DEF Clocks
<1>6. Grown(x.me.tid, x.me.clk, x.me.clk) = {}
  BY <1>3, GrownNot
<1>7. After(x, x, rest, C, R)
  BY AfterNothing
<1> QED BY <1>4, <1>5, <1>6, <1>7 DEF Learned

(* What a thread hears of an object: from its dirty entries, and from its  *)
(* table.                                                                  *)
LEMMA PartsAre ==
  ASSUME NEW x \in Xs, AtOK(x.at, x.pool), x.at.size # 0
  PROVE  LET e == x.pool[x.at.tab].epoch
         IN  /\ x.at \in SyncClocks /\ x.pool \in Pools /\ x.at.tab \in Blocks /\ e \in Clocks /\ V(x) \in Clocks
             /\ DirtyPart(x) \in Clocks /\ TabPart(x) = e
             /\ \A u \in Tids : \/ DirtyPart(x)[u] = V(x)[u] /\ e[u] <= V(x)[u] /\ e[u] # 0
                                \/ DirtyPart(x)[u] = 0 /\ e[u] = V(x)[u]
<1> DEFINE e == x.pool[x.at.tab].epoch
<1>1. x.at \in SyncClocks /\ x.pool \in Pools
  BY XFields
<1>2. x.at.tab \in Blocks /\ e \in Clocks /\ V(x) \in Clocks /\ V(x) = VecOf(x.at, e)
  BY <1>1, VecFacts DEF V, Vec
<1>3. SlotsOK(x.at.dirty) /\ TableOK(x.at, e)
  BY DEF AtOK
<1>4. TabPart(x) = [u \in Tids |-> IF u < x.at.size THEN e[u] ELSE 0]
  BY DEF TabPart, Elems, Tab
<1> HIDE DEF e
<1>5. /\ \A u \in DirtyTids(x.at) : DirtyEpoch(x.at, u) \in Nat /\ e[u] # 0 /\ e[u] <= DirtyEpoch(x.at, u)
      /\ \A u \in Tids : V(x)[u] = (IF u \in DirtyTids(x.at) THEN DirtyEpoch(x.at, u) ELSE e[u])
  BY <1>1, <1>2, <1>3, TableIsEarlier
<1>6. TabPart(x) = e
  <2>1. ASSUME NEW u \in Tids, ~ (u < x.at.size) PROVE e[u] = 0
    <3>1. x.at.size <= u
      BY <1>1, <2>1, AtFields, Numbers
    <3> QED BY <1>3, <3>1 DEF TableOK
  <2>2. \A u \in Tids : e[u] = (IF u < x.at.size THEN e[u] ELSE 0)
    BY <2>1
  <2> QED BY <1>2, <1>4, <2>2 DEF Clocks
<1>7. ASSUME NEW u \in Tids
      PROVE  /\ DirtyPart(x)[u] \in Nat
             /\ \/ DirtyPart(x)[u] = V(x)[u] /\ e[u] <= V(x)[u] /\ e[u] # 0
                \/ DirtyPart(x)[u] = 0 /\ e[u] = V(x)[u]
  <2>1. DirtyPart(x)[u] = (IF u \in DirtyTids(x.at) THEN DirtyEpoch(x.at, u) ELSE 0)
    BY DEF DirtyPart
  <2> QED BY <1>5, <2>1
<1>8. DirtyPart(x) \in Clocks
  <2>1. DirtyPart(x) = [u \in Tids |-> DirtyPart(x)[u]]
    BY DEF DirtyPart
  <2> QED BY <1>7, <2>1 DEF Clocks
<1> QED BY <1>1, <1>2, <1>6, <1>7, <1>8 DEF e

(* Acquire *)
LEMMA AcquireDoes ==
  ASSUME NEW x, NEW rest, NEW C, NEW R, XInv(x, rest, C, R),
         V(x)[x.me.tid] <= x.me.clk[x.me.tid]
  PROVE  LET y == Acquire(x)
         IN  Learned(x, y, rest, C, R) /\ y.at = x.at /\ V(y) = V(x)
<1>1. CASE x.at.size = 0
  <2>1. Acquire(x) = x
    BY <1>1 DEF Acquire
  <2> QED BY <1>1, <2>1, NothingToLearn
<1>2. CASE x.at.size # 0
  <2> DEFINE tid == x.me.tid
             b == x.at.tab
             e == x.pool[b].epoch
             vec == V(x)
             d == DirtyPart(x)
             a == x.me.clk
             mid == Join(a, d)
             c == Join(a, vec)
             m == Later(x.me.nclk, x.at.size)
             full == x.at.size <= tid \/ x.pool[b].reused[tid] # x.me.reused
             g1 == x.edges \cup Grown(tid, a, mid)
             g == x.edges \cup Grown(tid, a, c)
             me1 == Relearned(x.me, mid, x.me.nclk)
             y == Learn(x, d)
             y2 == [y EXCEPT !.me.nclk = Later(@, x.at.size)]
             z == Learn(y2, TabPart(x))
             w == IF tid < x.at.size THEN [z EXCEPT !.pool[b].reused[tid] = x.me.reused] ELSE z
             r == IF full THEN w ELSE y
  <2>1. /\ x \in Xs /\ AtOK(x.at, x.pool) /\ FlagsOK(x.pool, C, R) /\ MeOK(x.me) /\ Known(rest, C, R)
        /\ C[tid] = a /\ R[tid] = x.me.reused
    BY DEF XInv
  <2>2. /\ x.me \in ThreadClocks /\ x.at \in SyncClocks /\ x.pool \in Pools /\ x.edges \in SUBSET Lines
    BY <2>1, XFields
  <2>3. /\ tid \in Tids /\ a \in Clocks /\ x.me.nclk \in 1..NThreads /\ x.me.reused \in 1..MaxReuse
        /\ x.at.size \in 0..NThreads
    BY <2>2, MeFields, AtFields
  <2>4. /\ b \in Blocks /\ e \in Clocks /\ vec \in Clocks
        /\ d \in Clocks /\ TabPart(x) = e
        /\ \A u \in Tids : \/ d[u] = vec[u] /\ e[u] <= vec[u] /\ e[u] # 0
                           \/ d[u] = 0 /\ e[u] = vec[u]
    BY <1>2, <2>1, PartsAre
  <2>5. vec[tid] <= a[tid]
    OBVIOUS
  <2>6. Acquire(x) = AfterAcquiring(r, r.me.clk # a)
    <3>1. y.at = x.at /\ y.pool = x.pool
      BY <2>1 DEF Learn, Xs
    <3>2. z.at = x.at
      BY <2>1 DEF Learn, Xs
    <3>3. TabPart(x) = TabPart(x)
      OBVIOUS
    <3> QED BY <1>2, <3>1, <3>2 DEF Acquire, Tab
  <2> HIDE DEF b, e, vec, d
  <2>7. mid \in Clocks /\ y = X(me1, x.at, x.pool, g1)
    BY <2>1, <2>4, LearnIs
  <2>8. c \in Clocks /\ \A u \in Tids : c[u] = (IF a[u] < vec[u] THEN vec[u] ELSE a[u])
    BY <2>3, <2>4, JoinDoes
  <2>9. \A u \in Tids : mid[u] = (IF a[u] < d[u] THEN d[u] ELSE a[u])
    BY <2>3, <2>4, JoinDoes
  <2> HIDE DEF a, mid, c, y
  <2>10. \A u \in Tids : a[u] \in Nat /\ mid[u] \in Nat /\ c[u] \in Nat /\ vec[u] \in Nat /\ d[u] \in Nat /\ e[u] \in Nat
    BY <2>3, <2>4, <2>7, <2>8 DEF Clocks
  <2>11. mid[tid] = a[tid] /\ c[tid] = a[tid]
    <3> HIDE DEF tid
    <3>1. d[tid] = vec[tid] \/ d[tid] = 0
      BY <2>3, <2>4
    <3> QED BY <2>3, <2>5, <2>8, <2>9, <2>10, <3>1
  <2>12. \A u \in Tids : (mid[u] = a[u] /\ a[u] <= c[u]) \/ (mid[u] = c[u] /\ a[u] <= mid[u])
    BY <2>4, <2>8, <2>9, <2>10
  <2>13. /\ me1 \in ThreadClocks /\ me1.tid = tid /\ me1.clk = mid /\ me1.nclk = x.me.nclk
         /\ me1.reused = x.me.reused /\ me1.last_acquire = x.me.last_acquire
         /\ me1.global_acquire = x.me.global_acquire /\ me1.cached = x.me.cached
    <3>1. RelearnedIs(Relearned(x.me, mid, x.me.nclk), x.me, mid, x.me.nclk)
      BY <2>2, <2>3, <2>7, RelearnedDoes
    <3> HIDE DEF tid
    <3> QED BY <3>1 DEF RelearnedIs, tid
  <2> HIDE DEF me1
  <2>14. g1 \in SUBSET Lines /\ g \in SUBSET Lines
    <3>1. Grown(tid, a, mid) \in SUBSET Lines /\ Grown(tid, a, c) \in SUBSET Lines
      BY <2>3, <2>7, <2>8, GrownType DEF a
    <3> QED BY <2>2, <3>1
  <2> HIDE DEF g1, g
  <2>15. y \in Xs /\ y.me = me1 /\ y.at = x.at /\ y.pool = x.pool /\ y.edges = g1
    BY <2>2, <2>7, <2>13, <2>14, XType
  <2>16. \A u \in Tids : a[u] <= c[u]
    BY <2>8, <2>10
  <2>17. FlagsOK(x.pool, [C EXCEPT ![tid] = c], R)
    <3>1. C \in [Tids -> Clocks]
      BY <2>1 DEF Known
    <3>2. \A u \in Tids : C[tid][u] <= c[u]
      BY <2>1, <2>16
    <3> HIDE DEF tid
    <3> QED BY <2>1, <2>2, <2>3, <2>8, <3>1, <3>2, FlagsGrow
  <2>18. \A u \in Tids : x.me.nclk <= u => a[u] = 0
    BY <2>1 DEF MeOK, a
  <2>19. CASE ~ full
    (* The thread knows the table; the dirty entries are what is new.      *)
    <3>1. \A u \in Tids : e[u] <= a[u]
      <4>1. FlagOK(e, x.pool[b].reused, C, R)
        BY <2>1, <2>4 DEF FlagsOK, e
      <4>2. x.pool[b].reused[tid] = R[tid]
        BY <2>1, <2>19
      <4> HIDE DEF tid
      <4> QED BY <2>1, <2>3, <4>1, <4>2 DEF FlagOK
    <3>2. mid = c
      <4>1. \A u \in Tids : mid[u] = c[u]
        BY <2>4, <2>8, <2>9, <2>10, <3>1
      <4> QED BY <2>7, <2>8, <4>1 DEF Clocks
    <3>3. r = X(Relearned(x.me, c, x.me.nclk), x.at, x.pool, g)
      BY <2>7, <2>19, <3>2 DEF g, g1, me1
    <3>4. \A u \in Tids : x.me.nclk <= u => c[u] = 0
      <4>1. ASSUME NEW u \in Tids, x.me.nclk <= u PROVE c[u] = 0
        <5>1. a[u] = 0 /\ e[u] = 0
          BY <2>10, <2>18, <3>1, <4>1
        <5>2. vec[u] = 0
          BY <2>4, <5>1
        <5> QED BY <2>8, <5>1, <5>2
      <4> QED BY <4>1
    <3> DEFINE o == Gained(x, c, x.me.nclk, x.pool, g)
    <3>5. /\ After(x, o, rest, C, R)
          /\ o.me.clk = c /\ o.at = x.at /\ o.edges = g /\ V(o) = V(x)
      <4>1. x.me.nclk <= x.me.nclk
        BY <2>3
      <4>2. c[x.me.tid] = x.me.clk[x.me.tid]
        BY <2>11 DEF a
      <4>3. FlagsOK(x.pool, Changed(C, x.me.tid, c), R)
        BY <2>17 DEF Changed
      <4> QED BY <2>2, <2>3, <2>8, <2>14, <3>4, <4>1, <4>2, <4>3, AfterAcquiringDoes
    <3>6. Acquire(x) = o
      <4>1. r.me.clk = c
        BY <2>13, <2>15, <2>19, <3>2
      <4> HIDE DEF r
      <4> QED BY <2>6, <3>3, <4>1 DEF Gained, a
    <3> HIDE DEF o
    <3> QED BY <3>5, <3>6 DEF Learned, g, c, a, vec
  <2>20. CASE full
    <3> DEFINE me2 == [me1 EXCEPT !.nclk = m]
               me3 == Relearned(me2, c, m)
               me == Relearned(x.me, c, m)
               q == IF tid < x.at.size THEN Reuseds(x.pool, b, [x.pool[b].reused EXCEPT ![tid] = x.me.reused])
                    ELSE x.pool
    <3>1. m \in 1..NThreads /\ x.me.nclk <= m /\ x.at.size <= m
      BY <2>3 DEF Later
    <3> HIDE DEF m
    <3>2. /\ me2 \in ThreadClocks /\ me2.tid = tid /\ me2.clk = mid /\ me2.nclk = m
          /\ me2.reused = x.me.reused /\ me2.last_acquire = x.me.last_acquire
          /\ me2.global_acquire = x.me.global_acquire /\ me2.cached = x.me.cached
      BY <2>13, <3>1 DEF ThreadClocks
    <3>3. y2 = X(me2, x.at, x.pool, g1)
      <4>1. y2 = OnlyMe(y, me2)
        BY <2>13, <2>15 DEF OnlyMe, m
      <4> HIDE DEF me2, y2
      <4>2. OnlyMe(y, me2) = X(me2, y.at, y.pool, y.edges)
        BY <2>15, OnlyMeIs
      <4> QED BY <2>15, <4>1, <4>2
    <3> HIDE DEF y2, me2
    <3>4. y2 \in Xs /\ y2.me = me2 /\ y2.at = x.at /\ y2.pool = x.pool /\ y2.edges = g1
      BY <2>2, <2>14, <3>2, <3>3, XType
    <3>5. Join(mid, e) = c
      <4>1. Join(mid, e) \in Clocks /\ \A u \in Tids : Join(mid, e)[u] = (IF mid[u] < e[u] THEN e[u] ELSE mid[u])
        BY <2>4, <2>7, JoinDoes
      <4>2. \A u \in Tids : Join(mid, e)[u] = c[u]
        BY <2>4, <2>8, <2>9, <2>10, <4>1
      <4> QED BY <2>8, <4>1, <4>2 DEF Clocks
    <3>6. z = X(me3, x.at, x.pool, g)
      <4>1. z = X(Relearned(me2, Join(mid, e), m), x.at, x.pool, g1 \cup Grown(tid, mid, Join(mid, e)))
        <5>1. LET k == Join(y2.me.clk, e)
              IN  Learn(y2, e) = X(Relearned(y2.me, k, y2.me.nclk), y2.at, y2.pool,
                                   y2.edges \cup Grown(y2.me.tid, y2.me.clk, k))
          BY <2>4, <3>4, LearnIs
        <5> QED BY <2>4, <3>2, <3>4, <5>1
      <4>2. g1 \cup Grown(tid, mid, c) = g
        <5>1. Grown(tid, a, mid) \cup Grown(tid, mid, c) = Grown(tid, a, c)
          <6> HIDE DEF tid
          <6>1. a \in Clocks
            BY <2>3 DEF a
          <6> QED BY <2>3, <2>7, <2>8, <2>11, <2>12, <6>1, GrownTwice
        <5> QED BY <5>1 DEF g, g1
      <4> HIDE DEF z
      <4> QED BY <3>5, <4>1, <4>2
    <3>7. me3 = me
      <4>1. /\ me3 \in ThreadClocks /\ me3.tid = tid /\ me3.clk = c /\ me3.nclk = m
            /\ me3.reused = x.me.reused /\ me3.last_acquire = x.me.last_acquire
            /\ me3.global_acquire = x.me.global_acquire /\ me3.cached = x.me.cached
        BY <2>8, <3>1, <3>2, RelearnedType
      <4>2. /\ me \in ThreadClocks /\ me.tid = tid /\ me.clk = c /\ me.nclk = m
            /\ me.reused = x.me.reused /\ me.last_acquire = x.me.last_acquire
            /\ me.global_acquire = x.me.global_acquire /\ me.cached = x.me.cached
        BY <2>2, <2>8, <3>1, RelearnedType
      <4> HIDE DEF me, me3
      <4> QED BY <4>1, <4>2, MeEqual
    <3>8. w = X(me, x.at, q, g)
      <4>1. z = X(me, x.at, x.pool, g)
        BY <3>6, <3>7
      <4> HIDE DEF z, me
      <4>2. [X(me, x.at, x.pool, g) EXCEPT !.pool[b].reused[tid] = x.me.reused] = X(me, x.at, Reuseds(x.pool, b, [x.pool[b].reused EXCEPT ![tid] = x.me.reused]), g)
        BY DEF X, Reuseds
      <4> QED BY <4>1, <4>2
    <3> DEFINE f == [x.pool[b].reused EXCEPT ![tid] = x.me.reused]
    <3>9. f \in Flags /\ \A v \in Tids : f[v] = (IF v = tid THEN x.me.reused ELSE x.pool[b].reused[v])
      <4>1. x.pool[b].reused \in Flags
        BY <2>2, <2>4, BlockFields
      <4> HIDE DEF tid
      <4> QED BY <2>3, <4>1 DEF Flags
    <3> HIDE DEF f
    <3>10. ASSUME tid < x.at.size
           PROVE  /\ q \in Pools /\ FlagsOK(q, Changed(C, x.me.tid, c), R)
                  /\ \A k \in Blocks : q[k].ref = x.pool[k].ref /\ q[k].epoch = x.pool[k].epoch
      <4> DEFINE ref == x.pool[b].ref
      <4>1. q = Put(x.pool, b, ref, e, f) /\ ref \in Nat
        <5>1. q = Reuseds(x.pool, b, f)
          BY <3>10 DEF f
        <5>2. Reuseds(x.pool, b, f) = Put(x.pool, b, x.pool[b].ref, e, f)
          BY <2>2, <2>4, ReusedsIs DEF e
        <5>3. ref \in Nat
          BY <2>2, <2>4, BlockFields
        <5> HIDE DEF q
        <5> QED BY <5>1, <5>2, <5>3
      <4> HIDE DEF q, ref
      <4>2. /\ q \in Pools /\ \A k \in Blocks \ {b} : q[k] = x.pool[k]
            /\ q[b].ref = ref /\ q[b].epoch = e /\ q[b].reused = f
        BY <2>2, <2>4, <3>9, <4>1, PutDoes
      <4>3. \A k \in Blocks : q[k].ref = x.pool[k].ref /\ q[k].epoch = x.pool[k].epoch
        <5>1. ASSUME NEW k \in Blocks PROVE q[k].ref = x.pool[k].ref /\ q[k].epoch = x.pool[k].epoch
          <6>1. CASE k = b
            BY <4>2, <6>1 DEF ref, e
          <6>2. CASE k # b
            BY <4>2, <6>2
          <6> QED BY <6>1, <6>2
        <5> QED BY <5>1
      <4>4. FlagsOK(q, Changed(C, x.me.tid, c), R)
        <5> DEFINE D == Changed(C, x.me.tid, c)
        <5>0. D[tid] = c /\ R[tid] = x.me.reused
          BY <2>1, <2>3 DEF Known, Changed
        <5>2. FlagsOK(x.pool, D, R)
          BY <2>17 DEF Changed
        <5> HIDE DEF D
        <5>1. ASSUME NEW k \in Blocks PROVE FlagOK(q[k].epoch, q[k].reused, D, R)
          <6>1. CASE k = b
            <7>1. FlagOK(e, x.pool[b].reused, D, R)
              BY <2>4, <5>2 DEF FlagsOK, e
            <7>2. \A u \in Tids : e[u] <= c[u]
              BY <2>4, <2>8, <2>10
            <7>3. ASSUME NEW v \in Tids
                  PROVE  /\ f[v] <= R[v]
                         /\ f[v] = R[v] => \A u \in Tids : e[u] <= D[v][u]
              <8>1. CASE v = tid
                BY <2>3, <3>9, <5>0, <7>2, <8>1
              <8>2. CASE v # tid
                BY <3>9, <7>1, <8>2 DEF FlagOK
              <8> QED BY <8>1, <8>2
            <7> QED BY <4>2, <6>1, <7>3 DEF FlagOK
          <6>2. CASE k # b
            BY <4>2, <5>2, <6>2 DEF FlagsOK
          <6> QED BY <6>1, <6>2
        <5>3. FlagsOK(q, D, R)
          BY <5>1 DEF FlagsOK
        <5> QED BY <5>3 DEF D
      <4> QED BY <4>2, <4>3, <4>4
    <3>11. /\ q \in Pools /\ FlagsOK(q, Changed(C, x.me.tid, c), R)
           /\ \A k \in Blocks : q[k].ref = x.pool[k].ref /\ q[k].epoch = x.pool[k].epoch
      <4>1. CASE ~ (tid < x.at.size)
        BY <2>2, <2>17, <4>1 DEF Changed
      <4>2. CASE tid < x.at.size
        BY <3>10, <4>2
      <4> QED BY <4>1, <4>2
    <3> HIDE DEF q
    <3>12. \A u \in Tids : m <= u => c[u] = 0
      <4>1. ASSUME NEW u \in Tids, m <= u PROVE c[u] = 0
        <5>1. x.me.nclk <= u /\ x.at.size <= u
          <6>1. x.me.nclk \in Nat /\ x.at.size \in Nat /\ u \in Nat /\ m \in Nat
            BY <2>3, <3>1, Numbers
          <6> QED BY <3>1, <4>1, <6>1
        <5>2. a[u] = 0
          BY <2>18, <5>1
        <5>3. vec[u] = 0
          BY <1>2, <2>1, <2>2, <5>1, VecFacts DEF vec, V
        <5> QED BY <2>8, <5>2, <5>3
      <4> QED BY <4>1
    <3> DEFINE o == Gained(x, c, m, q, g)
    <3>13. /\ After(x, o, rest, C, R)
           /\ o.me.clk = c /\ o.at = x.at /\ o.edges = g /\ V(o) = V(x)
      <4>2. c[x.me.tid] = x.me.clk[x.me.tid]
        BY <2>11 DEF a
      <4> QED BY <2>3, <2>8, <2>14, <3>1, <3>11, <3>12, <4>2, AfterAcquiringDoes
    <3>14. Acquire(x) = o
      <4>1. r = X(me, x.at, q, g)
        BY <2>20, <3>8
      <4>2. r.me.clk = c
        <5>1. X(me, x.at, q, g).me = me
          BY DEF X
        <5>2. me.clk = c
          BY <2>2, <2>8, <3>1, RelearnedType
        <5> HIDE DEF r, me
        <5> QED BY <4>1, <5>1, <5>2
      <4> HIDE DEF r
      <4> QED BY <2>6, <4>1, <4>2 DEF Gained, a
    <3> HIDE DEF o
    <3> QED BY <3>13, <3>14 DEF Learned, g, c, a, vec
  <2> QED BY <2>19, <2>20
<1> QED BY <1>1, <1>2

LEMMA KeptIsAfter ==
  ASSUME NEW x, NEW y, NEW rest, NEW C, NEW R, x \in Xs, C[x.me.tid] = x.me.clk, Kept(x, y, rest, C, R)
  PROVE  After(x, y, rest, C, R) /\ y.me.clk = x.me.clk /\ y.edges = x.edges
<1>1. XInv(y, rest, C, R) /\ Frame(x.pool, y.pool, rest) /\ SameMe(x.me, y.me) /\ y.edges = x.edges
  BY DEF Kept
<1>2. /\ y.me.tid = x.me.tid /\ y.me.clk = x.me.clk /\ y.me.reused = x.me.reused
      /\ y.me.last_acquire = x.me.last_acquire /\ y.me.global_acquire = x.me.global_acquire
  BY <1>1 DEF SameMe
<1>3. [C EXCEPT ![x.me.tid] = y.me.clk] = C
  <2>1. C \in [Tids -> Clocks]
    BY <1>1 DEF XInv, Known
  <2> QED BY <1>2, <2>1
<1>4. Keeps(x.me, y.me)
  BY <1>2 DEF Keeps, Told
<1> QED BY <1>1, <1>2, <1>3, <1>4 DEF After

(* The object and the thread exchange their clocks.                        *)
LEMMA ReleaseStoreAcquireDoes ==
  ASSUME NEW x, NEW rest, NEW C, NEW R, XInv(x, rest, C, R), Room(rest), Pre(x, C, R)
  PROVE  LET y == ReleaseStoreAcquire(x)
         IN  /\ Learned(x, y, rest, C, R) /\ V(y) = x.me.clk
             /\ y.at.release_store = NoStore \/ y.at.release_store = OwnStore(x)
<1>1. CASE x.at.size = 0
  <2> DEFINE y == ReleaseStore(x)
  <2>1. Kept(x, y, rest, C, R) /\ V(y) = x.me.clk /\ y.at.release_store = OwnStore(x)
    BY ReleaseStoreDoes
  <2>2. ReleaseStoreAcquire(x) = y
    BY <1>1 DEF ReleaseStoreAcquire
  <2>3. Learned(x, x, rest, C, R) /\ V(x) = AllZero /\ Join(x.me.clk, V(x)) = x.me.clk
    BY <1>1, NothingToLearn
  <2>4. x \in Xs /\ C[x.me.tid] = x.me.clk
    BY DEF XInv
  <2> HIDE DEF y
  <2>5. After(x, y, rest, C, R) /\ y.me.clk = x.me.clk /\ y.edges = x.edges
    BY <2>1, <2>4, KeptIsAfter
  <2>6. Learned(x, y, rest, C, R)
    BY <2>3, <2>5 DEF Learned
  <2> QED BY <2>1, <2>2, <2>6
<1>2. CASE x.at.size # 0
  <2> DEFINE tid == x.me.tid
             a == x.me.clk
             vec == V(x)
             c == Join(a, vec)
             m == Later(x.me.nclk, x.at.size)
             me1 == Relearned(x.me, a, m)
             w == [x EXCEPT !.me.nclk = Later(@, x.at.size)]
             r == Resize(w)
             s == Unshare(r)
             y == FlushDirty(s)
             z == Learn(y, TabPart(y))
             over == [u \in Tids |-> IF u \in Elems(z) THEN x.me.clk[u] ELSE z.pool[z.at.tab].epoch[u]]
             swapped == Store(z, over, AllZero, NoStore)
             g == x.edges \cup Grown(tid, a, c)
  <2>1. /\ x \in Xs /\ AtOK(x.at, x.pool) /\ CacheOK(x.me, x.pool) /\ FlagsOK(x.pool, C, R)
        /\ MeOK(x.me) /\ Known(rest, C, R)
        /\ C[tid] = a /\ R[tid] = x.me.reused /\ Refs(x, rest)
    BY DEF XInv
  <2>2. /\ x.me \in ThreadClocks /\ x.at \in SyncClocks /\ x.pool \in Pools /\ x.edges \in SUBSET Lines
    BY <2>1, XFields
  <2>3. /\ tid \in Tids /\ a \in Clocks /\ x.me.nclk \in 1..NThreads /\ x.me.reused \in 1..MaxReuse
        /\ x.at.size \in 0..NThreads
    BY <2>2, MeFields, AtFields
  <2>4. vec \in Clocks /\ \A u \in Tids : x.at.size <= u => vec[u] = 0
    BY <1>2, <2>1, <2>2, VecFacts DEF V
  <2>5. vec[tid] <= a[tid]
    BY DEF Pre
  <2>6. ReleaseStoreAcquire(x) = AfterAcquiring(swapped, z.me.clk # x.me.clk)
    <3> HIDE DEF z
    <3>1. swapped = [z EXCEPT !.pool[z.at.tab].epoch =
                             [u \in Tids |-> IF u \in Elems(z) THEN x.me.clk[u] ELSE @[u]],
                           !.pool[z.at.tab].reused = AllZero,
                           !.at.release_store = NoStore]
      BY DEF Store
    <3> HIDE DEF swapped
    <3> QED BY <1>2, <3>1 DEF ReleaseStoreAcquire, z
  <2> HIDE DEF vec
  <2>7. m \in 1..NThreads /\ x.me.nclk <= m /\ x.at.size <= m
    BY <2>3 DEF Later
  <2>8. c \in Clocks /\ \A u \in Tids : c[u] = (IF a[u] < vec[u] THEN vec[u] ELSE a[u])
    BY <2>3, <2>4, JoinDoes
  <2>9. /\ me1 \in ThreadClocks /\ me1.tid = tid /\ me1.clk = a /\ me1.nclk = m
        /\ me1.reused = x.me.reused /\ me1.last_acquire = x.me.last_acquire
        /\ me1.global_acquire = x.me.global_acquire /\ me1.cached = x.me.cached
    BY <2>2, <2>3, <2>7, RelearnedType
  <2>10. w = X(me1, x.at, x.pool, x.edges)
    <3> DEFINE m1 == [x.me EXCEPT !.nclk = m]
    <3>1. m1 = me1
      <4>1. /\ m1 \in ThreadClocks /\ m1.tid = tid /\ m1.clk = a /\ m1.nclk = m
            /\ m1.reused = x.me.reused /\ m1.last_acquire = x.me.last_acquire
            /\ m1.global_acquire = x.me.global_acquire /\ m1.cached = x.me.cached
        <5> HIDE DEF m
        <5> QED BY <2>2, <2>7 DEF ThreadClocks
      <4> HIDE DEF m1, me1, m
      <4> QED BY <2>9, <4>1, MeEqual
    <3>2. w = OnlyMe(x, m1)
      BY <2>1 DEF OnlyMe
    <3> HIDE DEF m1, me1, w
    <3> QED BY <2>1, <3>1, <3>2, OnlyMeIs
  <2> HIDE DEF m, me1, c
  <2> HIDE DEF w
  <2>11. w \in Xs /\ w.me = me1 /\ w.at = x.at /\ w.pool = x.pool /\ w.edges = x.edges
    BY <2>2, <2>9, <2>10, XType
  <2>12. \A u \in Tids : m <= u => a[u] = 0 /\ vec[u] = 0
    <3>1. ASSUME NEW u \in Tids, m <= u PROVE x.me.nclk <= u /\ x.at.size <= u
      <4>1. x.me.nclk \in Nat /\ x.at.size \in Nat /\ u \in Nat /\ m \in Nat
        BY <2>3, <2>7, Numbers
      <4> QED BY <2>7, <3>1, <4>1
    <3> QED BY <2>1, <2>4, <3>1 DEF MeOK
  <2>13. XInv(w, rest, C, R)
    <3>1. MeOK(me1)
      <4>1. tid < m
        <5>1. tid \in Tids /\ x.me.nclk \in 1..NThreads /\ m \in 1..NThreads
          BY <2>3, <2>7
        <5>2. tid < x.me.nclk
          BY <2>1 DEF MeOK
        <5> HIDE DEF tid, m
        <5>3. tid \in Nat /\ x.me.nclk \in Nat /\ m \in Nat
          BY <5>1, Numbers
        <5> QED BY <2>7, <5>2, <5>3
      <4> QED BY <2>9, <2>12, <4>1 DEF MeOK
    <3>2. CacheOK(me1, x.pool)
      BY <2>1, <2>9 DEF CacheOK, CacheIs
    <3>3. Refs(w, rest)
      BY <2>1, <2>9, <2>11 DEF Refs
    <3> QED BY <2>1, <2>9, <2>11, <3>1, <3>2, <3>3 DEF XInv
  <2>14. V(w) = vec
    BY <2>11 DEF V, vec
  <2>15. /\ XInv(r, rest, C, R) /\ Frame(w.pool, r.pool, rest)
         /\ r.me = w.me /\ r.edges = w.edges /\ V(r) = vec
         /\ w.me.nclk <= r.at.size /\ r.at.size # 0
    BY <2>13, <2>14, ResizeDoes
  <2> HIDE DEF r
  <2>16. /\ XInv(s, rest, C, R) /\ Frame(r.pool, s.pool, rest)
         /\ s.me = me1 /\ s.edges = x.edges /\ V(s) = vec
         /\ m <= s.at.size /\ s.at.size # 0 /\ Alone(s)
    BY <2>9, <2>11, <2>15, UnshareDoes
  <2> HIDE DEF s
  <2> DEFINE b == s.at.tab
             f == s.pool[b].reused
             n == s.pool[b].ref
             at1 == [s.at EXCEPT !.dirty = NoDirty]
             q1 == Put(s.pool, b, n, vec, f)
  <2>17. /\ s \in Xs /\ s.at \in SyncClocks /\ s.pool \in Pools /\ AtOK(s.at, s.pool) /\ b \in Blocks
         /\ n \in Nat /\ f \in Flags
    <3>1. s \in Xs /\ AtOK(s.at, s.pool) /\ b \in Blocks
      BY <2>16 DEF XInv, Alone
    <3>2. s.at \in SyncClocks /\ s.pool \in Pools
      BY <3>1, XFields
    <3> QED BY <3>1, <3>2, BlockFields
  <2>18. y = X(me1, at1, q1, x.edges)
    <3>1. FlushDirty(s) = X(s.me, [s.at EXCEPT !.dirty = NoDirty],
                            Put(s.pool, s.at.tab, s.pool[s.at.tab].ref, Flushed(s), s.pool[s.at.tab].reused),
                            s.edges)
      BY <2>17, FlushDirtyIs
    <3>2. Flushed(s) = vec
      BY <2>16, <2>17, FlushedIsClock
    <3> QED BY <2>16, <3>1, <3>2
  <2>19. /\ at1 \in SyncClocks /\ at1.tab = b /\ at1.size = s.at.size /\ at1.dirty = NoDirty
    BY <2>17, Zeros DEF SyncClocks
  <2> HIDE DEF b, n, f, at1, y
  <2>20. /\ q1 \in Pools /\ \A d \in Blocks \ {b} : q1[d] = s.pool[d]
         /\ q1[b].ref = n /\ q1[b].epoch = vec /\ q1[b].reused = f
    BY <2>4, <2>17, PutDoes
  <2> HIDE DEF q1
  <2>21. y \in Xs /\ y.me = me1 /\ y.at = at1 /\ y.pool = q1 /\ y.edges = x.edges
    BY <2>2, <2>9, <2>18, <2>19, <2>20, XType
  <2>22. \A u \in Tids : s.at.size <= u => a[u] = 0 /\ vec[u] = 0
    <3>1. ASSUME NEW u \in Tids, s.at.size <= u PROVE m <= u
      <4>1. s.at.size \in Nat /\ u \in Nat /\ m \in Nat
        BY <2>7, <2>17, AtFields, Numbers
      <4> QED BY <2>16, <3>1, <4>1
    <3> QED BY <2>12, <3>1
  <2>23. TabPart(y) = vec
    <3>1. TabPart(y) = [u \in Tids |-> IF u < s.at.size THEN vec[u] ELSE 0]
      BY <2>19, <2>20, <2>21 DEF TabPart, Elems, Tab
    <3>2. ASSUME NEW u \in Tids, ~ (u < s.at.size) PROVE vec[u] = 0
      <4>1. s.at.size <= u
        BY <2>17, <3>2, AtFields, Numbers
      <4> QED BY <2>22, <4>1
    <3>3. \A u \in Tids : vec[u] = (IF u < s.at.size THEN vec[u] ELSE 0)
      BY <3>2
    <3> QED BY <2>4, <3>1, <3>3 DEF Clocks
  <2> DEFINE me2 == Relearned(me1, c, m)
  <2>24. z = X(me2, at1, q1, g)
    <3>1. LET k == Join(y.me.clk, vec)
          IN  Learn(y, vec) = X(Relearned(y.me, k, y.me.nclk), y.at, y.pool,
                                y.edges \cup Grown(y.me.tid, y.me.clk, k))
      BY <2>4, <2>21, LearnIs
    <3> QED BY <2>9, <2>21, <2>23, <3>1 DEF c
  <2>25. /\ me2 \in ThreadClocks /\ me2.tid = tid /\ me2.clk = c /\ me2.nclk = m
    BY <2>7, <2>8, <2>9, RelearnedType
  <2>26. g \in SUBSET Lines
    BY <2>2, <2>3, <2>8, GrownType
  <2> HIDE DEF me2, g, z
  <2>27. z \in Xs /\ z.me = me2 /\ z.at = at1 /\ z.pool = q1 /\ z.edges = g
    BY <2>19, <2>20, <2>24, <2>25, <2>26, XType
  <2>28. over = a
    <3>1. ASSUME NEW u \in Tids
          PROVE  (IF u \in Elems(z) THEN x.me.clk[u] ELSE z.pool[z.at.tab].epoch[u]) = a[u]
      <4>1. CASE u \in Elems(z)
        BY <4>1
      <4>2. CASE u \notin Elems(z)
        <5>1. ~ (u < s.at.size)
          BY <2>19, <2>27, <4>2 DEF Elems
        <5>2. s.at.size <= u
          BY <2>17, <5>1, AtFields, Numbers
        <5>3. z.pool[z.at.tab].epoch = vec
          BY <2>19, <2>20, <2>27
        <5> QED BY <2>22, <4>2, <5>2, <5>3
      <4> QED BY <4>1, <4>2
    <3> HIDE DEF a
    <3> QED BY <2>3, <3>1 DEF Clocks, a
  <2> DEFINE at == StoredAt(at1, NoStore)
             v == Over(s, at, a, AllZero)
  <2>29. /\ at \in SyncClocks /\ at.tab = b /\ at.size = s.at.size /\ at.dirty = NoDirty
         /\ at.release_store = NoStore
    BY <2>19, NoStoreType, StoredAtType
  <2>30. swapped = X(me2, at, Put(s.pool, b, n, a, AllZero), g)
    <3>1. swapped = Store(z, a, AllZero, NoStore)
      BY <2>28
    <3>2. Store(z, a, AllZero, NoStore) =
            X(z.me, StoredAt(z.at, NoStore), Put(z.pool, z.at.tab, z.pool[z.at.tab].ref, a, AllZero), z.edges)
      BY <2>3, <2>17, <2>19, <2>27, Zeros, StoreIs
    <3>3. Put(q1, b, n, a, AllZero) = Put(s.pool, b, n, a, AllZero)
      BY <2>17, PutPut DEF q1
    <3> HIDE DEF swapped
    <3> QED BY <2>19, <2>20, <2>27, <3>1, <3>2, <3>3
  <2> HIDE DEF swapped, at
  <2>31. /\ XInv(v, rest, C, R) /\ Frame(s.pool, v.pool, rest)
         /\ v.me = me1 /\ v.at = at /\ V(v) = a
    <3>1. FlagOK(a, AllZero, C, R)
      BY <2>1, NoFlags DEF Known
    <3>2. \A u \in Tids : at.size <= u => a[u] = 0
      BY <2>22, <2>29
    <3>3. at.tab = s.at.tab /\ at.size # 0
      BY <2>16, <2>29 DEF b
    <3> HIDE DEF a
    <3>4. LET k == Over(s, at, a, AllZero)
          IN  /\ XInv(k, rest, C, R) /\ Frame(s.pool, k.pool, rest)
              /\ k.me = s.me /\ k.at = at /\ k.edges = s.edges
              /\ V(k) = a /\ Alone(k) /\ k.pool[k.at.tab].epoch = a
      BY <2>3, <2>16, <2>29, <3>1, <3>2, <3>3, Zeros, Overwritten DEF a
    <3> QED BY <2>16, <3>4
  <2>32. v.pool = Put(s.pool, b, n, a, AllZero) /\ v.pool \in Pools
    <3>1. v.pool = Put(s.pool, b, n, a, AllZero)
      BY DEF Over, X, b, n
    <3>2. v \in Xs
      BY <2>31 DEF XInv
    <3> HIDE DEF v
    <3> QED BY <3>1, <3>2, XFields
  <2> HIDE DEF v
  <2> DEFINE o == Gained(v, c, m, v.pool, g)
  <2>33. c[tid] = a[tid]
    <3>1. a[tid] \in Nat /\ vec[tid] \in Nat
      BY <2>3, <2>4 DEF Clocks
    <3> HIDE DEF tid, a
    <3> QED BY <2>3, <2>5, <2>8, <3>1
  <2>34. /\ After(v, o, rest, C, R)
         /\ o.me.clk = c /\ o.at = at /\ o.edges = g /\ V(o) = a
    <3>1. FlagsOK(v.pool, Changed(C, tid, c), R)
      <4>1. FlagsOK(v.pool, C, R)
        BY <2>31 DEF XInv
      <4>2. C \in [Tids -> Clocks]
        BY <2>1 DEF Known
      <4>3. \A u \in Tids : C[tid][u] <= c[u]
        <5>1. \A u \in Tids : a[u] <= c[u]
          BY <2>3, <2>4, JoinDoes DEF c
        <5> QED BY <2>1, <5>1
      <4> HIDE DEF tid
      <4>4. FlagsOK(v.pool, [C EXCEPT ![tid] = c], R)
        BY <2>3, <2>8, <2>32, <4>1, <4>2, <4>3, FlagsGrow
      <4> QED BY <4>4 DEF Changed
    <3>2. \A u \in Tids : m <= u => c[u] = 0
      <4>1. ASSUME NEW u \in Tids, m <= u PROVE c[u] = 0
        <5>1. a[u] = 0 /\ vec[u] = 0
          BY <2>12, <4>1
        <5> QED BY <2>8, <5>1
      <4> QED BY <4>1
    <3>3. v.me.tid = tid /\ v.me.clk = a /\ v.me.nclk = m
      BY <2>9, <2>31
    <3>4. v.me.nclk <= m
      <4>1. m \in Nat
        BY <2>7
      <4> QED BY <3>3, <4>1
    <3>5. /\ After(v, o, rest, C, R)
          /\ o.me.clk = c /\ o.at = v.at /\ o.edges = g /\ V(o) = V(v)
      <4>1. c[v.me.tid] = v.me.clk[v.me.tid] /\ FlagsOK(v.pool, Changed(C, v.me.tid, c), R)
        BY <2>33, <3>1, <3>3
      <4> QED BY <2>7, <2>8, <2>26, <2>31, <2>32, <3>2, <3>4, <4>1, AfterAcquiringDoes
    <3> QED BY <2>31, <3>5
  <2>35. ReleaseStoreAcquire(x) = o
    <3>1. z.me.clk = c
      BY <2>25, <2>27
    <3>2. swapped = X(Relearned(v.me, c, m), v.at, v.pool, g)
      BY <2>30, <2>31, <2>32 DEF me2
    <3>3. v.me.clk = a
      BY <2>9, <2>31
    <3> QED BY <2>6, <3>1, <3>2, <3>3 DEF Gained
  <2> HIDE DEF o
  <2>36. Learned(x, o, rest, C, R)
    <3>1. /\ XInv(o, rest, [C EXCEPT ![v.me.tid] = o.me.clk], R) /\ Frame(v.pool, o.pool, rest)
          /\ o.me.tid = v.me.tid /\ o.me.reused = v.me.reused
          /\ o.me.clk[v.me.tid] = v.me.clk[v.me.tid] /\ Keeps(v.me, o.me)
      BY <2>34 DEF After
    <3>2. /\ v.me.tid = tid /\ v.me.clk = a /\ v.me.reused = x.me.reused
          /\ v.me.last_acquire = x.me.last_acquire /\ v.me.global_acquire = x.me.global_acquire
      BY <2>9, <2>31
    <3>3. Frame(x.pool, o.pool, rest)
      BY <2>11, <2>15, <2>16, <2>31, <3>1 DEF Frame
    <3>4. Keeps(x.me, o.me)
      BY <3>1, <3>2 DEF Keeps, Told
    <3>5. After(x, o, rest, C, R)
      BY <3>1, <3>2, <3>3, <3>4 DEF After
    <3> QED BY <2>34, <3>5 DEF Learned, c, g, vec
  <2> QED BY <2>29, <2>34, <2>35, <2>36
<1> QED BY <1>1, <1>2

(* What a thread has released, it goes on knowing.                         *)
LEMMA StoreStays ==
  ASSUME NEW at, NEW vec \in Clocks, NEW C \in [Tids -> Clocks], NEW R, StoreOK(at, vec, C, R),
         at.release_store.tid \in Tids \cup {NoTid},
         NEW t \in Tids, NEW c \in Clocks, \A u \in Tids : C[t][u] <= c[u]
  PROVE  StoreOK(at, vec, [C EXCEPT ![t] = c], R)
<1> DEFINE D == [C EXCEPT ![t] = c]
           v == at.release_store.tid
<1>1. /\ D[t] = c /\ \A w \in Tids \ {t} : D[w] = C[w]
  OBVIOUS
<1> HIDE DEF D
<1>2. ASSUME v # NoTid PROVE \A u \in Tids : C[v][u] <= D[v][u]
  <2>1. v \in Tids
    BY <1>2
  <2>2. CASE v = t
    BY <1>1, <2>2
  <2>3. CASE v # t
    <3>1. D[v] = C[v] /\ C[v] \in Clocks
      BY <1>1, <2>1, <2>3
    <3> HIDE DEF v
    <3> QED BY <3>1 DEF Clocks
  <2> QED BY <2>2, <2>3
<1>3. ASSUME v # NoTid, NEW u \in Tids, vec[u] <= C[v][u] PROVE vec[u] <= D[v][u]
  <2>1. v \in Tids
    BY <1>3
  <2>2. C[v] \in Clocks /\ D[v] \in Clocks
    BY <1>1, <2>1
  <2> DEFINE k == C[v]
             d == D[v]
  <2>3. k[u] <= d[u]
    BY <1>2, <1>3
  <2> HIDE DEF k, d, v
  <2>4. vec[u] \in Nat /\ k[u] \in Nat /\ d[u] \in Nat
    BY <2>2 DEF Clocks, k, d
  <2>5. vec[u] <= k[u]
    BY <1>3 DEF k
  <2> QED BY <2>3, <2>4, <2>5 DEF d
<1>4. StoreOK(at, vec, D, R)
  <2>1. v # NoTid => /\ at.release_store.reused <= R[v]
                     /\ at.release_store.reused = R[v] => \A u \in Tids : vec[u] <= C[v][u]
    BY DEF StoreOK
  <2> QED BY <1>3, <2>1 DEF StoreOK
<1> QED BY <1>4 DEF D

(* AcqRel acquires, and then releases over what it has acquired.           *)
LEMMA AcqRelDoes ==
  ASSUME NEW x, NEW rest, NEW C, NEW R, XInv(x, rest, C, R), Room(rest), Pre(x, C, R)
  PROVE  LET y == AcqRel(x)
         IN  Learned(x, y, rest, C, R) /\ V(y) = y.me.clk /\ y.at.release_store = OwnStore(x)
<1> DEFINE y == Acquire(x)
           tid == x.me.tid
           D == [C EXCEPT ![tid] = y.me.clk]
           z == ReleaseStore(y)
<1>1. /\ x \in Xs /\ AtOK(x.at, x.pool) /\ Known(rest, C, R) /\ C[tid] = x.me.clk
  BY DEF XInv
<1>2. x.me \in ThreadClocks /\ x.at \in SyncClocks /\ x.pool \in Pools
  BY <1>1, XFields
<1>3. tid \in Tids /\ x.me.clk \in Clocks /\ V(x) \in Clocks
      /\ x.at.release_store.tid \in Tids \cup {NoTid}
  BY <1>1, <1>2, MeFields, AtFields, VecFacts DEF V
<1>4. x.me.clk[tid] # 0 /\ V(x)[tid] <= x.me.clk[tid] /\ Told(x.me, V(x)) /\ StoreOK(x.at, V(x), C, R)
  BY DEF Pre
<1>5. Learned(x, y, rest, C, R) /\ y.at = x.at /\ V(y) = V(x)
  BY <1>4, AcquireDoes
<1> HIDE DEF y
<1>6. /\ XInv(y, rest, D, R) /\ Frame(x.pool, y.pool, rest)
      /\ y.me.tid = tid /\ y.me.reused = x.me.reused /\ y.me.clk[tid] = x.me.clk[tid]
      /\ Keeps(x.me, y.me)
      /\ y.me.clk = Join(x.me.clk, V(x))
      /\ y.edges = x.edges \cup Grown(tid, x.me.clk, y.me.clk)
  BY <1>5 DEF Learned, After
<1>7. y.me.clk \in Clocks /\ \A u \in Tids : x.me.clk[u] <= y.me.clk[u]
  BY <1>3, <1>6, JoinDoes
<1>8. Pre(y, D, R)
  <2>1. y.me.clk[y.me.tid] # 0 /\ V(y)[y.me.tid] <= y.me.clk[y.me.tid]
    BY <1>4, <1>5, <1>6
  <2>2. Told(y.me, V(y))
    BY <1>3, <1>4, <1>5, <1>6 DEF Keeps
  <2>3. StoreOK(y.at, V(y), D, R)
    <3>1. C \in [Tids -> Clocks]
      BY <1>1 DEF Known
    <3>2. \A u \in Tids : C[tid][u] <= y.me.clk[u]
      BY <1>1, <1>7
    <3> HIDE DEF tid
    <3>3. StoreOK(x.at, V(x), D, R)
      BY <1>3, <1>4, <1>7, <3>1, <3>2, StoreStays
    <3> QED BY <1>5, <3>3
  <2> QED BY <2>1, <2>2, <2>3 DEF Pre
<1>9. Kept(y, z, rest, D, R) /\ V(z) = y.me.clk /\ z.at.release_store = OwnStore(y)
  BY <1>6, <1>8, ReleaseStoreDoes
<1> HIDE DEF z
<1>10. /\ XInv(z, rest, D, R) /\ Frame(y.pool, z.pool, rest) /\ z.edges = y.edges
       /\ z.me.tid = y.me.tid /\ z.me.clk = y.me.clk /\ z.me.reused = y.me.reused
       /\ z.me.last_acquire = y.me.last_acquire /\ z.me.global_acquire = y.me.global_acquire
  BY <1>9 DEF Kept, SameMe
<1>11. Keeps(x.me, z.me)
  BY <1>6, <1>10 DEF Keeps, Told
<1>12. Frame(x.pool, z.pool, rest)
  BY <1>6, <1>10 DEF Frame
<1>13. XInv(z, rest, [C EXCEPT ![tid] = z.me.clk], R)
  BY <1>10
<1>14. After(x, z, rest, C, R)
  BY <1>6, <1>10, <1>11, <1>12, <1>13 DEF After
<1>15. Learned(x, z, rest, C, R)
  BY <1>6, <1>10, <1>14 DEF Learned
<1>16. OwnStore(y) = OwnStore(x)
  BY <1>6 DEF OwnStore
<1> QED BY <1>9, <1>10, <1>15, <1>16 DEF AcqRel, y, z

(* ResetSync *)
Emptied(at, p) == IF at.size = 0 THEN p ELSE Unref(p, at.tab)

LEMMA ResetSyncIs ==
  ASSUME NEW x \in Xs
  PROVE  ResetSync(x) = X(x.me, EmptySync, Emptied(x.at, x.pool), x.edges)
<1>1. CASE x.at.size = 0
  <2>1. ResetSync(x) = OnlyAt(x, EmptySync)
    BY <1>1 DEF ResetSync, OnlyAt
  <2> QED BY <1>1, <2>1, OnlyAtIs DEF Emptied
<1>2. CASE x.at.size # 0
  <2> DEFINE q == Unref(x.pool, x.at.tab)
  <2>1. ResetSync(x) = PoolAt(x, q, EmptySync)
    <3>1. [x EXCEPT !.pool = Unref(@, x.at.tab), !.at = EmptySync] = [x EXCEPT !.pool = q, !.at = EmptySync]
      BY DEF Xs
    <3> HIDE DEF q
    <3> QED BY <1>2, <3>1 DEF ResetSync, PoolAt
  <2>2. PoolAt(x, q, EmptySync) = X(x.me, EmptySync, q, x.edges)
    <3> HIDE DEF q
    <3> QED BY PoolAtIs
  <2>3. Emptied(x.at, x.pool) = q
    BY <1>2 DEF Emptied
  <2> HIDE DEF q
  <2> QED BY <2>1, <2>2, <2>3
<1> QED BY <1>1, <1>2

(* The same, where no thread is running.                                   *)
LEMMA ResetSyncAlone ==
  ASSUME NEW at, NEW p
  PROVE  LET y == ResetSync([at |-> at, pool |-> p])
         IN  y.at = EmptySync /\ y.pool = Emptied(at, p)
<1> DEFINE q == Unref(p, at.tab)
           k == [at |-> at, pool |-> p]
<1> HIDE DEF q
<1>1. [k EXCEPT !.at = EmptySync].at = EmptySync /\ [k EXCEPT !.at = EmptySync].pool = p
  OBVIOUS
<1>2. [k EXCEPT !.pool = q, !.at = EmptySync].at = EmptySync /\ [k EXCEPT !.pool = q, !.at = EmptySync].pool = q
  OBVIOUS
<1>3. k.at = at /\ k.pool = p
  OBVIOUS
<1>4. CASE at.size = 0
  BY <1>1, <1>3, <1>4 DEF ResetSync, Emptied
<1>5. CASE at.size # 0
  <2>1. ResetSync(k) = [k EXCEPT !.pool = Unref(@, k.at.tab), !.at = EmptySync]
    BY <1>3, <1>5 DEF ResetSync
  <2>2. [k EXCEPT !.pool = Unref(@, k.at.tab), !.at = EmptySync] = [k EXCEPT !.pool = q, !.at = EmptySync]
    BY <1>3 DEF q
  <2> QED BY <1>2, <1>5, <2>1, <2>2 DEF Emptied, q
<1> QED BY <1>4, <1>5

LEMMA EmptySyncDoes ==
  /\ EmptySync \in SyncClocks /\ EmptySync.size = 0 /\ EmptySync.tab = NoBlock
  /\ EmptySync.release_store = NoStore
  /\ \A q : AtOK(EmptySync, q)
<1>1. /\ EmptySync.size = 0 /\ EmptySync.tab = NoBlock /\ EmptySync.dirty = NoDirty
      /\ EmptySync.release_store = NoStore
  BY DEF EmptySync
<1>2. EmptySync \in SyncClocks
  BY Zeros, NoStoreType DEF EmptySync, SyncClocks
<1>3. ASSUME NEW q PROVE AtOK(EmptySync, q)
  BY <1>1, Zeros DEF AtOK, SlotsOK, TableOK
<1> QED BY <1>1, <1>2, <1>3

(* One reference less, or none was held.                                   *)
LEMMA EmptiedDrops ==
  ASSUME NEW at \in SyncClocks, NEW p \in Pools, (at.size = 0) <=> (at.tab = NoBlock),
         at.tab \in Blocks => p[at.tab].ref # 0
  PROVE  Dropped(p, Emptied(at, p), at.tab)
<1>1. CASE at.size = 0
  BY <1>1, NothingDrops DEF Emptied
<1>2. CASE at.size # 0
  <2>1. at.tab \in Blocks
    BY <1>2, AtFields
  <2> QED BY <1>2, <2>1, UnrefDrops DEF Emptied
<1> QED BY <1>1, <1>2

LEMMA ResetSyncDoes ==
  ASSUME NEW x, NEW rest, NEW C, NEW R, XInv(x, rest, C, R)
  PROVE  LET y == ResetSync(x)
         IN  Kept(x, y, rest, C, R) /\ V(y) = AllZero /\ y.at = EmptySync /\ y.me = x.me
<1> DEFINE q == Emptied(x.at, x.pool)
           y == X(x.me, EmptySync, q, x.edges)
<1>1. /\ x \in Xs /\ AtOK(x.at, x.pool) /\ CacheOK(x.me, x.pool) /\ FlagsOK(x.pool, C, R)
      /\ MeOK(x.me) /\ Known(rest, C, R) /\ Refs(x, rest)
      /\ C[x.me.tid] = x.me.clk /\ R[x.me.tid] = x.me.reused
  BY DEF XInv
<1>2. /\ x.me \in ThreadClocks /\ x.at \in SyncClocks /\ x.pool \in Pools /\ x.edges \in SUBSET Lines
      /\ x = X(x.me, x.at, x.pool, x.edges)
  BY <1>1, XFields
<1>3. ResetSync(x) = y
  BY <1>1, ResetSyncIs
<1>4. \A b \in Blocks : rest[b] \in Nat /\ x.pool[b].ref = rest[b] + One(x.at.tab = b) + One(x.me.cached.tab = b)
  BY <1>1 DEF Known, Refs
<1>5. Dropped(x.pool, q, x.at.tab)
  <2>1. (x.at.size = 0) <=> (x.at.tab = NoBlock)
    BY <1>1 DEF AtOK
  <2>2. x.at.tab \in Blocks => x.pool[x.at.tab].ref # 0
    BY <1>4 DEF One
  <2> QED BY <1>2, <2>1, <2>2, EmptiedDrops
<1> HIDE DEF q
<1>6. q \in Pools
  BY <1>5 DEF Dropped
<1>7. y \in Xs /\ y.me = x.me /\ y.at = EmptySync /\ y.pool = q /\ y.edges = x.edges
  BY <1>2, <1>6, EmptySyncDoes, XType
<1> HIDE DEF y
<1>8. ASSUME NEW b \in Blocks
      PROVE  /\ q[b].ref = rest[b] + One(x.me.cached.tab = b)
             /\ rest[b] # 0 \/ x.me.cached.tab = b => q[b].epoch = x.pool[b].epoch
  <2>1. /\ q[b].ref + One(x.at.tab = b) = x.pool[b].ref
        /\ q[b].ref # 0 => q[b].epoch = x.pool[b].epoch
    BY <1>5 DEF Dropped
  <2>2. q[b].ref \in Nat
    BY <1>6, BlockFields
  <2>3. q[b].ref = rest[b] + One(x.me.cached.tab = b)
    BY <1>4, <2>1, <2>2 DEF One
  <2>4. rest[b] \in Nat
    BY <1>4
  <2> QED BY <2>1, <2>3, <2>4 DEF One
<1>9. Refs(y, rest)
  <2>1. ASSUME NEW b \in Blocks
        PROVE  q[b].ref = rest[b] + One(EmptySync.tab = b) + One(x.me.cached.tab = b)
    <3>1. EmptySync.tab # b
      BY EmptySyncDoes, Numbers
    <3> QED BY <1>4, <1>8, <3>1 DEF One
  <2> QED BY <1>7, <2>1 DEF Refs
<1>10. CacheOK(x.me, q)
  <2>1. x.me.cached.tab \in Blocks \cup {NoBlock}
    BY <1>2, MeFields
  <2> QED BY <1>1, <1>8, <2>1 DEF CacheOK
<1>11. FlagsOK(q, C, R)
  BY <1>1, <1>5, DroppedFlags DEF Known
<1>12. AtOK(EmptySync, q)
  BY EmptySyncDoes
<1>13. XInv(y, rest, C, R)
  BY <1>1, <1>7, <1>9, <1>10, <1>11, <1>12 DEF XInv
<1>14. Frame(x.pool, q, rest)
  BY <1>8 DEF Frame
<1>15. V(y) = AllZero
  BY <1>6, <1>7, <1>12, EmptySyncDoes, VecFacts DEF V
<1>16. Kept(x, y, rest, C, R)
  BY <1>7, <1>13, <1>14 DEF Kept, SameMe
<1> QED BY <1>3, <1>7, <1>15, <1>16

--------------------------------------------------------------------------------
(* References counted *)

Holding(S, f, b) == Cardinality({a \in S : f[a] = b})

LEMMA HoldingType ==
  ASSUME NEW S, IsFiniteSet(S), NEW f, NEW b
  PROVE  Holding(S, f, b) \in Nat /\ \A a \in S : f[a] = b => Holding(S, f, b) # 0
<1> DEFINE T == {a \in S : f[a] = b}
<1>1. IsFiniteSet(T) /\ Cardinality(T) \in Nat
  BY FS_Subset, FS_CardinalityType
<1>2. ASSUME NEW a \in S, f[a] = b PROVE Cardinality(T) # 0
  BY <1>1, <1>2, FS_EmptySet
<1> QED BY <1>1, <1>2 DEF Holding

HeldBy(f, a, b) == One(f[a] = b)

LEMMA HoldingSplit ==
  ASSUME NEW S, IsFiniteSet(S), NEW f, NEW b, NEW a \in S
  PROVE  Holding(S, f, b) = Holding(S \ {a}, f, b) + HeldBy(f, a, b)
<1> DEFINE T == {c \in S : f[c] = b}
           U == {c \in S \ {a} : f[c] = b}
<1>1. IsFiniteSet(U) /\ Cardinality(U) \in Nat
  BY FS_Subset, FS_CardinalityType
<1>2. CASE f[a] = b
  <2>1. T = U \cup {a} /\ a \notin U
    BY <1>2
  <2>2. Cardinality(T) = Cardinality(U) + 1
    BY <1>1, <2>1, FS_AddElement
  <2> QED BY <1>2, <2>2 DEF Holding, HeldBy, One
<1>3. CASE f[a] # b
  <2>1. T = U
    BY <1>3
  <2> QED BY <1>1, <1>3, <2>1 DEF Holding, HeldBy, One
<1> QED BY <1>2, <1>3

LEMMA HoldingSame ==
  ASSUME NEW S, NEW f, NEW g, NEW b, \A a \in S : f[a] = g[a]
  PROVE  Holding(S, f, b) = Holding(S, g, b)
<1>1. {a \in S : f[a] = b} = {a \in S : g[a] = b}
  OBVIOUS
<1> QED BY <1>1 DEF Holding

LEMMA HoldingNone ==
  ASSUME NEW S, NEW f, NEW b, b \notin {f[a] : a \in S}
  PROVE  Holding(S, f, b) = 0
<1>1. {a \in S : f[a] = b} = {}
  OBVIOUS
<1> QED BY <1>1, FS_EmptySet DEF Holding

LEMMA FewValues ==
  ASSUME NEW S, IsFiniteSet(S), NEW f
  PROVE  LET T == {f[a] : a \in S}
         IN  IsFiniteSet(T) /\ Cardinality(T) <= Cardinality(S)
<1> DEFINE T == {f[a] : a \in S}
           g == [a \in S |-> f[a]]
<1>1. g \in Surjection(S, T)
  BY DEF Surjection
<1> QED BY <1>1, FS_Surjection

TabsOf(sy) == [s \in Syncs |-> sy[s].tab]
CachesOf(th) == [t \in Tids |-> th[t].cached.tab]

Counted(th, sy, p) ==
  \A b \in Blocks : p[b].ref = Holding(Syncs, TabsOf(sy), b) + Holding(Tids, CachesOf(th), b)

(* The references of all but the thread t and the object s.                *)
RestOf(th, sy, t, s) ==
  [b \in Blocks |-> Holding(Syncs \ {s}, TabsOf(sy), b) + Holding(Tids \ {t}, CachesOf(th), b)]

LEMMA Finite ==
  /\ IsFiniteSet(Tids) /\ Cardinality(Tids) = NThreads
  /\ IsFiniteSet(Blocks) /\ Cardinality(Blocks) = NThreads + Cardinality(Syncs)
  /\ IsFiniteSet(Syncs)
<1>1. IsFiniteSet(Tids) /\ Cardinality(Tids) = NThreads
  <2>1. 0 \in Int /\ NThreads - 1 \in Int /\ ~ (0 > NThreads - 1)
    BY Numbers
  <2>2. IsFiniteSet(0..(NThreads - 1)) /\ Cardinality(0..(NThreads - 1)) = NThreads - 1 - 0 + 1
    BY <2>1, FS_Interval
  <2> QED BY <2>2, Numbers DEF Tids
<1>2. IsFiniteSet(Blocks) /\ Cardinality(Blocks) = NThreads + Cardinality(Syncs)
  <2> DEFINE n == NThreads + Cardinality(Syncs)
  <2>1. n \in Nat /\ n # 0
    BY Numbers
  <2> HIDE DEF n
  <2>2. IsFiniteSet(1..n) /\ Cardinality(1..n) = n - 1 + 1
    BY <2>1, FS_Interval
  <2> QED BY <2>1, <2>2 DEF Blocks, n
<1> QED BY <1>1, <1>2

LEMMA TwoLeft ==
  ASSUME NEW w \in Nat, NEW c \in Nat, NEW u \in Nat, NEW n \in Nat, NEW m \in Nat,
         w = n + m - c, c <= u, u <= n + m - 2
  PROVE  w >= 2
OBVIOUS

LEMMA SumsSplit ==
  ASSUME NEW m \in Nat, NEW n \in Nat, NEW i \in Nat, NEW j \in Nat
  PROVE  (m + i) + (n + j) = m + n + i + j
OBVIOUS

(* The others leave two blocks.                                            *)
LEMMA RestLeavesRoom ==
  ASSUME NEW th, NEW sy, NEW t \in Tids, NEW s \in Syncs
  PROVE  Room(RestOf(th, sy, t, s))
<1> DEFINE A == {TabsOf(sy)[a] : a \in Syncs \ {s}}
           B == {CachesOf(th)[a] : a \in Tids \ {t}}
           U == A \cup B
           W == Blocks \ U
<1>1. IsFiniteSet(Syncs \ {s}) /\ Cardinality(Syncs \ {s}) = Cardinality(Syncs) - 1
  BY Finite, FS_RemoveElement
<1>2. IsFiniteSet(Tids \ {t}) /\ Cardinality(Tids \ {t}) = NThreads - 1
  BY Finite, FS_RemoveElement
<1>3. IsFiniteSet(A) /\ Cardinality(A) <= Cardinality(Syncs) - 1
  BY <1>1, FewValues
<1>4. IsFiniteSet(B) /\ Cardinality(B) <= NThreads - 1
  BY <1>2, FewValues
<1> HIDE DEF A, B
<1>5. IsFiniteSet(A \cap B) /\ Cardinality(A \cap B) \in Nat /\ Cardinality(A) \in Nat /\ Cardinality(B) \in Nat
  BY <1>3, <1>4, FS_Intersection, FS_CardinalityType
<1>6. IsFiniteSet(U) /\ Cardinality(U) <= NThreads + Cardinality(Syncs) - 2
  <2>1. IsFiniteSet(U) /\ Cardinality(U) = Cardinality(A) + Cardinality(B) - Cardinality(A \cap B)
    BY <1>3, <1>4, FS_Union
  <2> QED BY <1>3, <1>4, <1>5, <2>1, Numbers
<1> HIDE DEF U
<1>7. IsFiniteSet(W) /\ Cardinality(W) >= 2 /\ Cardinality(W) \in Nat
  <2>1. IsFiniteSet(W) /\ Cardinality(W) = Cardinality(Blocks) - Cardinality(Blocks \cap U)
    BY Finite, FS_Difference
  <2>2. Cardinality(U \cap Blocks) <= Cardinality(U) /\ IsFiniteSet(U \cap Blocks)
    BY <1>6, FS_Intersection
  <2>3. Blocks \cap U = U \cap Blocks
    OBVIOUS
  <2>4. Cardinality(U \cap Blocks) \in Nat /\ Cardinality(U) \in Nat /\ Cardinality(W) \in Nat
    BY <1>6, <2>1, <2>2, FS_CardinalityType
  <2>6. NThreads \in Nat /\ Cardinality(Syncs) \in Nat
    BY Numbers
  <2>8. Cardinality(Blocks) = NThreads + Cardinality(Syncs)
    BY Finite
  <2>5. Cardinality(W) = NThreads + Cardinality(Syncs) - Cardinality(U \cap Blocks)
    <3>1. Cardinality(Blocks \cap U) = Cardinality(U \cap Blocks)
      BY <2>3
    <3> HIDE DEF W
    <3> QED BY <2>1, <2>4, <2>6, <2>8, <3>1
  <2> HIDE DEF W
  <2>7. Cardinality(W) >= 2
    BY <1>6, <2>2, <2>4, <2>5, <2>6, TwoLeft
  <2> QED BY <2>1, <2>4, <2>7
<1>8. PICK b \in W : TRUE
  BY <1>7, FS_EmptySet
<1>9. PICK d \in W : d # b
  <2>1. ASSUME W = {b} PROVE FALSE
    <3>1. Cardinality(W) = 1
      BY <2>1, FS_Singleton
    <3> QED BY <1>7, <3>1
  <2> QED BY <1>8, <2>1
<1>10. ASSUME NEW k \in W PROVE k \in Blocks /\ RestOf(th, sy, t, s)[k] = 0
  <2>1. k \in Blocks /\ k \notin A /\ k \notin B
    BY DEF U
  <2>2. Holding(Syncs \ {s}, TabsOf(sy), k) = 0
    BY <2>1, HoldingNone DEF A
  <2>3. Holding(Tids \ {t}, CachesOf(th), k) = 0
    BY <2>1, HoldingNone DEF B
  <2> QED BY <2>1, <2>2, <2>3 DEF RestOf
<1> QED BY <1>8, <1>9, <1>10 DEF Room

(* A function changed at one place.                                        *)
LEMMA ChangedDoes ==
  ASSUME NEW D, NEW A, NEW f \in [D -> A], NEW d \in D, NEW a \in A
  PROVE  /\ Changed(f, d, a) \in [D -> A] /\ Changed(f, d, a)[d] = a
         /\ \A c \in D \ {d} : Changed(f, d, a)[c] = f[c]
BY DEF Changed

Threads == [Tids -> ThreadClocks]
Objects == [Syncs -> SyncClocks]

LEMMA RestIs ==
  ASSUME NEW th \in Threads, NEW sy \in Objects, NEW p, Counted(th, sy, p), NEW t \in Tids, NEW s \in Syncs
  PROVE  LET rest == RestOf(th, sy, t, s)
         IN  /\ rest \in [Blocks -> Nat]
             /\ \A b \in Blocks : p[b].ref = rest[b] + One(sy[s].tab = b) + One(th[t].cached.tab = b)
             /\ \A a \in Syncs \ {s} : sy[a].tab \in Blocks => rest[sy[a].tab] # 0
             /\ \A a \in Tids \ {t} : th[a].cached.tab \in Blocks => rest[th[a].cached.tab] # 0
<1> DEFINE rest == RestOf(th, sy, t, s)
           f == TabsOf(sy)
           g == CachesOf(th)
<1>1. IsFiniteSet(Syncs) /\ IsFiniteSet(Tids) /\ IsFiniteSet(Syncs \ {s}) /\ IsFiniteSet(Tids \ {t})
  BY Finite, FS_RemoveElement
<1>2. \A b \in Blocks : rest[b] = Holding(Syncs \ {s}, f, b) + Holding(Tids \ {t}, g, b)
  BY DEF RestOf
<1>3. (\A a \in Syncs : f[a] = sy[a].tab) /\ (\A a \in Tids : g[a] = th[a].cached.tab)
  BY DEF TabsOf, CachesOf
<1>4. rest = [b \in Blocks |-> rest[b]]
  BY DEF RestOf
<1> HIDE DEF rest, f, g
<1>5. ASSUME NEW b \in Blocks
      PROVE  /\ rest[b] \in Nat
             /\ p[b].ref = rest[b] + One(sy[s].tab = b) + One(th[t].cached.tab = b)
  <2>1. Holding(Syncs, f, b) = Holding(Syncs \ {s}, f, b) + HeldBy(f, s, b)
    BY <1>1, HoldingSplit
  <2>2. Holding(Tids, g, b) = Holding(Tids \ {t}, g, b) + HeldBy(g, t, b)
    BY <1>1, HoldingSplit
  <2>3. Holding(Syncs \ {s}, f, b) \in Nat /\ Holding(Tids \ {t}, g, b) \in Nat
    BY <1>1, HoldingType
  <2>4. p[b].ref = Holding(Syncs, f, b) + Holding(Tids, g, b)
    BY DEF Counted, f, g
  <2>5. HeldBy(f, s, b) = One(sy[s].tab = b) /\ HeldBy(g, t, b) = One(th[t].cached.tab = b)
    BY <1>3 DEF HeldBy
  <2>6. One(sy[s].tab = b) \in Nat /\ One(th[t].cached.tab = b) \in Nat
    BY DEF One
  <2>7. p[b].ref = (Holding(Syncs \ {s}, f, b) + One(sy[s].tab = b))
                   + (Holding(Tids \ {t}, g, b) + One(th[t].cached.tab = b))
    BY <2>1, <2>2, <2>4, <2>5
  <2>8. p[b].ref = Holding(Syncs \ {s}, f, b) + Holding(Tids \ {t}, g, b)
                   + One(sy[s].tab = b) + One(th[t].cached.tab = b)
    BY <2>3, <2>6, <2>7, SumsSplit
  <2>9. rest[b] = Holding(Syncs \ {s}, f, b) + Holding(Tids \ {t}, g, b)
    BY <1>2
  <2> QED BY <2>3, <2>8, <2>9
<1>6. ASSUME NEW a \in Syncs \ {s}, sy[a].tab \in Blocks PROVE rest[sy[a].tab] # 0
  <2> DEFINE b == sy[a].tab
  <2>1. b \in Blocks /\ f[a] = b
    BY <1>3, <1>6
  <2> HIDE DEF b
  <2>2. Holding(Syncs \ {s}, f, b) # 0 /\ Holding(Syncs \ {s}, f, b) \in Nat /\ Holding(Tids \ {t}, g, b) \in Nat
    BY <1>1, <2>1, HoldingType
  <2>3. rest[b] # 0
    BY <1>2, <2>1, <2>2
  <2> QED BY <2>3 DEF b
<1>7. ASSUME NEW a \in Tids \ {t}, th[a].cached.tab \in Blocks PROVE rest[th[a].cached.tab] # 0
  <2> DEFINE b == th[a].cached.tab
  <2>1. b \in Blocks /\ g[a] = b
    BY <1>3, <1>7
  <2> HIDE DEF b
  <2>2. Holding(Syncs \ {s}, f, b) \in Nat /\ Holding(Tids \ {t}, g, b) # 0 /\ Holding(Tids \ {t}, g, b) \in Nat
    BY <1>1, <2>1, HoldingType
  <2>3. rest[b] # 0
    BY <1>2, <2>1, <2>2
  <2> QED BY <2>3 DEF b
<1>8. rest \in [Blocks -> Nat]
  BY <1>4, <1>5
<1> QED BY <1>5, <1>6, <1>7, <1>8 DEF rest

(* Counting again after t and s have changed.                              *)
LEMMA CountedAgain ==
  ASSUME NEW th \in Threads, NEW sy \in Objects, NEW p, NEW t \in Tids, NEW s \in Syncs,
         NEW me \in ThreadClocks, NEW at \in SyncClocks,
         \A b \in Blocks : p[b].ref = RestOf(th, sy, t, s)[b] + One(at.tab = b) + One(me.cached.tab = b)
  PROVE  Counted(Changed(th, t, me), Changed(sy, s, at), p)
<1> DEFINE nth == Changed(th, t, me)
           nsy == Changed(sy, s, at)
           f == TabsOf(sy)
           g == CachesOf(th)
           nf == TabsOf(nsy)
           ng == CachesOf(nth)
<1>1. nth[t] = me /\ \A a \in Tids \ {t} : nth[a] = th[a]
  BY DEF Changed, Threads
<1>2. nsy[s] = at /\ \A a \in Syncs \ {s} : nsy[a] = sy[a]
  BY DEF Changed, Objects
<1> HIDE DEF nth, nsy
<1>3. nf[s] = at.tab /\ \A a \in Syncs \ {s} : nf[a] = f[a]
  BY <1>2 DEF TabsOf
<1>4. ng[t] = me.cached.tab /\ \A a \in Tids \ {t} : ng[a] = g[a]
  BY <1>1 DEF CachesOf
<1>5. \A b \in Blocks : RestOf(th, sy, t, s)[b] = Holding(Syncs \ {s}, f, b) + Holding(Tids \ {t}, g, b)
  BY DEF RestOf
<1> HIDE DEF f, g, nf, ng
<1>6. ASSUME NEW b \in Blocks PROVE p[b].ref = Holding(Syncs, nf, b) + Holding(Tids, ng, b)
  <2>0. IsFiniteSet(Syncs) /\ IsFiniteSet(Tids)
    BY Finite
  <2>1. Holding(Syncs, nf, b) = Holding(Syncs \ {s}, nf, b) + HeldBy(nf, s, b)
    BY <2>0, HoldingSplit
  <2>2. Holding(Tids, ng, b) = Holding(Tids \ {t}, ng, b) + HeldBy(ng, t, b)
    BY <2>0, HoldingSplit
  <2>3. Holding(Syncs \ {s}, nf, b) = Holding(Syncs \ {s}, f, b)
    BY <1>3, HoldingSame
  <2>4. Holding(Tids \ {t}, ng, b) = Holding(Tids \ {t}, g, b)
    BY <1>4, HoldingSame
  <2>5. IsFiniteSet(Syncs \ {s}) /\ IsFiniteSet(Tids \ {t})
    BY Finite, FS_RemoveElement
  <2>6. Holding(Syncs \ {s}, f, b) \in Nat /\ Holding(Tids \ {t}, g, b) \in Nat
    BY <2>5, HoldingType
  <2>7. HeldBy(nf, s, b) = One(at.tab = b) /\ HeldBy(ng, t, b) = One(me.cached.tab = b)
    BY <1>3, <1>4 DEF HeldBy
  <2>8. One(at.tab = b) \in Nat /\ One(me.cached.tab = b) \in Nat
    BY DEF One
  <2>9. p[b].ref = RestOf(th, sy, t, s)[b] + One(at.tab = b) + One(me.cached.tab = b)
    OBVIOUS
  <2>10. RestOf(th, sy, t, s)[b] = Holding(Syncs \ {s}, f, b) + Holding(Tids \ {t}, g, b)
    BY <1>5
  <2>11. p[b].ref = Holding(Syncs \ {s}, f, b) + Holding(Tids \ {t}, g, b)
                    + One(at.tab = b) + One(me.cached.tab = b)
    BY <2>9, <2>10
  <2>12. (Holding(Syncs \ {s}, f, b) + One(at.tab = b)) + (Holding(Tids \ {t}, g, b) + One(me.cached.tab = b))
           = Holding(Syncs \ {s}, f, b) + Holding(Tids \ {t}, g, b) + One(at.tab = b) + One(me.cached.tab = b)
    BY <2>6, <2>8, SumsSplit
  <2>13. /\ Holding(Syncs, nf, b) = Holding(Syncs \ {s}, f, b) + One(at.tab = b)
         /\ Holding(Tids, ng, b) = Holding(Tids \ {t}, g, b) + One(me.cached.tab = b)
    BY <2>1, <2>2, <2>3, <2>4, <2>7
  <2> QED BY <2>11, <2>12, <2>13
<1> QED BY <1>6 DEF Counted, nf, ng, nth, nsy

(* Counting again after t alone has changed.                               *)
LEMMA CountedThread ==
  ASSUME NEW th \in Threads, NEW sy \in Objects, NEW p \in Pools, Counted(th, sy, p), NEW t \in Tids,
         NEW me \in ThreadClocks, NEW q \in Pools,
         \A b \in Blocks : q[b].ref + One(th[t].cached.tab = b) = p[b].ref + One(me.cached.tab = b)
  PROVE  /\ Counted(Changed(th, t, me), sy, q)
         /\ \A a \in Syncs : sy[a].tab \in Blocks => q[sy[a].tab].ref # 0
         /\ \A a \in Tids \ {t} : th[a].cached.tab \in Blocks => q[th[a].cached.tab].ref # 0
<1> DEFINE nth == Changed(th, t, me)
           f == TabsOf(sy)
           g == CachesOf(th)
           ng == CachesOf(nth)
<1>1. nth[t] = me /\ \A a \in Tids \ {t} : nth[a] = th[a]
  BY DEF Changed, Threads
<1> HIDE DEF nth
<1>2. (\A a \in Syncs : f[a] = sy[a].tab) /\ (\A a \in Tids : g[a] = th[a].cached.tab)
  BY DEF TabsOf, CachesOf
<1>3. ng[t] = me.cached.tab /\ \A a \in Tids \ {t} : ng[a] = g[a]
  BY <1>1 DEF CachesOf
<1>4. IsFiniteSet(Syncs) /\ IsFiniteSet(Tids) /\ IsFiniteSet(Tids \ {t})
  BY Finite, FS_RemoveElement
<1>5. \A b \in Blocks : p[b].ref = Holding(Syncs, f, b) + Holding(Tids, g, b)
  BY DEF Counted
<1> HIDE DEF f, g, ng
<1>6. ASSUME NEW b \in Blocks
      PROVE  /\ q[b].ref = Holding(Syncs, f, b) + Holding(Tids, ng, b)
             /\ q[b].ref = Holding(Syncs, f, b) + Holding(Tids \ {t}, g, b) + One(me.cached.tab = b)
             /\ Holding(Syncs, f, b) \in Nat /\ Holding(Tids \ {t}, g, b) \in Nat
  <2>1. Holding(Tids, g, b) = Holding(Tids \ {t}, g, b) + HeldBy(g, t, b)
    BY <1>4, HoldingSplit
  <2>2. Holding(Tids, ng, b) = Holding(Tids \ {t}, ng, b) + HeldBy(ng, t, b)
    BY <1>4, HoldingSplit
  <2>3. Holding(Tids \ {t}, ng, b) = Holding(Tids \ {t}, g, b)
    BY <1>3, HoldingSame
  <2>4. Holding(Syncs, f, b) \in Nat /\ Holding(Tids \ {t}, g, b) \in Nat
    BY <1>4, HoldingType
  <2>5. HeldBy(g, t, b) = One(th[t].cached.tab = b) /\ HeldBy(ng, t, b) = One(me.cached.tab = b)
    BY <1>2, <1>3 DEF HeldBy
  <2>6. One(th[t].cached.tab = b) \in Nat /\ One(me.cached.tab = b) \in Nat
    BY DEF One
  <2>7. q[b].ref \in Nat /\ p[b].ref \in Nat
    BY BlockFields
  <2>8. q[b].ref + One(th[t].cached.tab = b) = p[b].ref + One(me.cached.tab = b)
    OBVIOUS
  <2>9. p[b].ref = Holding(Syncs, f, b) + (Holding(Tids \ {t}, g, b) + One(th[t].cached.tab = b))
    BY <1>5, <2>1, <2>5
  <2>10. q[b].ref = Holding(Syncs, f, b) + Holding(Tids \ {t}, g, b) + One(me.cached.tab = b)
    BY <2>4, <2>6, <2>7, <2>8, <2>9
  <2>11. Holding(Tids, ng, b) = Holding(Tids \ {t}, g, b) + One(me.cached.tab = b)
    BY <2>2, <2>3, <2>5
  <2> QED BY <2>4, <2>6, <2>10, <2>11
<1>7. Counted(nth, sy, q)
  BY <1>6 DEF Counted, f, ng
<1>8. ASSUME NEW a \in Syncs, sy[a].tab \in Blocks PROVE q[sy[a].tab].ref # 0
  <2> DEFINE b == sy[a].tab
  <2>1. b \in Blocks /\ f[a] = b
    BY <1>2, <1>8
  <2> HIDE DEF b
  <2>2. Holding(Syncs, f, b) # 0
    BY <1>4, <2>1, HoldingType
  <2>3. q[b].ref # 0
    BY <1>6, <2>1, <2>2 DEF One
  <2> QED BY <2>3 DEF b
<1>9. ASSUME NEW a \in Tids \ {t}, th[a].cached.tab \in Blocks PROVE q[th[a].cached.tab].ref # 0
  <2> DEFINE b == th[a].cached.tab
  <2>1. b \in Blocks /\ g[a] = b
    BY <1>2, <1>9
  <2> HIDE DEF b
  <2>2. Holding(Tids \ {t}, g, b) # 0
    BY <1>4, <2>1, HoldingType
  <2>3. q[b].ref # 0
    BY <1>6, <2>1, <2>2 DEF One
  <2> QED BY <2>3 DEF b
<1> QED BY <1>7, <1>8, <1>9 DEF nth

--------------------------------------------------------------------------------
(* The invariant *)

Cof(th) == [t \in Tids |-> th[t].clk]
Rof(th) == [t \in Tids |-> th[t].reused]
EpochNumbers == [Tids -> 0..MaxEpoch]

(* A clock is of epochs that have been, and each thread knew what it has   *)
(* of the others, as Told says.                                            *)
Fits(vec, th, ep) == \A t \in Tids : vec[t] <= ep[t] /\ Told(th[t], vec)

SyncOK(at, th, p, ep) ==
  AtOK(at, p) /\ Fits(Vec(at, p), th, ep) /\ StoreOK(at, Vec(at, p), Cof(th), Rof(th))

ThreadOK(me, th, p, ep) ==
  me.clk[me.tid] = ep[me.tid] /\ MeOK(me) /\ CacheOK(me, p) /\ Fits(me.clk, th, ep)

Good(th, sy, p, ep) ==
  /\ th \in Threads /\ sy \in Objects /\ p \in Pools /\ ep \in EpochNumbers
  /\ Counted(th, sy, p)
  /\ \A s \in Syncs : SyncOK(sy[s], th, p, ep)
  /\ \A t \in Tids : th[t].tid = t /\ ThreadOK(th[t], th, p, ep)
  /\ FlagsOK(p, Cof(th), Rof(th))

LEMMA CofDoes ==
  ASSUME NEW th \in Threads
  PROVE  /\ Cof(th) \in [Tids -> Clocks] /\ Rof(th) \in [Tids -> 1..MaxReuse]
         /\ \A t \in Tids : Cof(th)[t] = th[t].clk /\ Rof(th)[t] = th[t].reused
<1>1. \A t \in Tids : th[t].clk \in Clocks /\ th[t].reused \in 1..MaxReuse
  BY MeFields DEF Threads
<1> QED BY <1>1 DEF Cof, Rof

LEMMA CofChanged ==
  ASSUME NEW th \in Threads, NEW t \in Tids, NEW me \in ThreadClocks
  PROVE  /\ Changed(th, t, me) \in Threads /\ Changed(th, t, me)[t] = me
         /\ \A u \in Tids \ {t} : Changed(th, t, me)[u] = th[u]
         /\ Cof(Changed(th, t, me)) = Changed(Cof(th), t, me.clk)
         /\ Rof(Changed(th, t, me)) = Changed(Rof(th), t, me.reused)
<1> DEFINE nth == Changed(th, t, me)
<1>1. nth \in Threads /\ nth[t] = me /\ \A u \in Tids \ {t} : nth[u] = th[u]
  BY DEF Changed, Threads
<1> HIDE DEF nth
<1>2. Cof(nth) = Changed(Cof(th), t, me.clk)
  BY <1>1 DEF Cof, Changed
<1>3. Rof(nth) = Changed(Rof(th), t, me.reused)
  BY <1>1 DEF Rof, Changed
<1> QED BY <1>1, <1>2, <1>3 DEF nth

(* The thread t goes on as me, in the epoch e.                             *)
Renewed(th, ep, t, me, e) ==
  /\ me \in ThreadClocks /\ me.tid = t /\ e \in 0..MaxEpoch /\ ep[t] <= e
  /\ \A vec \in Clocks : Fits(vec, th, ep) => Told(me, vec)
  /\ \/ me.reused = th[t].reused /\ \A u \in Tids : th[t].clk[u] <= me.clk[u]
     \/ me.reused > th[t].reused

LEMMA FitsStill ==
  ASSUME NEW th \in Threads, NEW ep \in EpochNumbers, NEW t \in Tids, NEW me, NEW e,
         Renewed(th, ep, t, me, e), NEW vec \in Clocks, Fits(vec, th, ep)
  PROVE  Fits(vec, Changed(th, t, me), Changed(ep, t, e))
<1>1. me \in ThreadClocks /\ me.tid = t /\ e \in 0..MaxEpoch /\ ep[t] <= e /\ Told(me, vec)
  BY DEF Renewed
<1>2. Changed(th, t, me)[t] = me /\ \A u \in Tids \ {t} : Changed(th, t, me)[u] = th[u]
  BY <1>1, CofChanged
<1>3. Changed(ep, t, e)[t] = e /\ \A u \in Tids \ {t} : Changed(ep, t, e)[u] = ep[u]
  BY DEF Changed, EpochNumbers
<1>4. vec[t] <= e
  <2>1. vec[t] <= ep[t] /\ vec[t] \in Nat /\ ep[t] \in Nat /\ e \in Nat
    BY <1>1 DEF Fits, Clocks, EpochNumbers
  <2> QED BY <1>1, <2>1
<1>5. ASSUME NEW u \in Tids
      PROVE  vec[u] <= Changed(ep, t, e)[u] /\ Told(Changed(th, t, me)[u], vec)
  <2>1. CASE u = t
    BY <1>1, <1>2, <1>3, <1>4, <2>1
  <2>2. CASE u # t
    BY <1>2, <1>3, <2>2 DEF Fits
  <2> QED BY <2>1, <2>2
<1> QED BY <1>5 DEF Fits

LEMMA StoreStill ==
  ASSUME NEW th \in Threads, NEW ep, NEW t \in Tids, NEW me, NEW e, Renewed(th, ep, t, me, e),
         NEW at \in SyncClocks, NEW vec \in Clocks, StoreOK(at, vec, Cof(th), Rof(th))
  PROVE  StoreOK(at, vec, Cof(Changed(th, t, me)), Rof(Changed(th, t, me)))
<1> DEFINE nth == Changed(th, t, me)
           v == at.release_store.tid
           r == at.release_store.reused
<1>1. /\ me \in ThreadClocks /\ \/ me.reused = th[t].reused /\ \A u \in Tids : th[t].clk[u] <= me.clk[u]
                                \/ me.reused > th[t].reused
  BY DEF Renewed
<1>2. nth \in Threads /\ nth[t] = me /\ \A u \in Tids \ {t} : nth[u] = th[u]
  BY <1>1, CofChanged
<1> HIDE DEF nth
<1>3. v \in Tids \cup {NoTid} /\ r \in 0..MaxReuse
  BY AtFields
<1>4. v # NoTid => /\ r <= Rof(th)[v]
                   /\ r = Rof(th)[v] => \A u \in Tids : vec[u] <= Cof(th)[v][u]
  BY DEF StoreOK
<1> HIDE DEF v, r
<1>5. ASSUME v # NoTid
      PROVE  /\ r <= Rof(nth)[v]
             /\ r = Rof(nth)[v] => \A u \in Tids : vec[u] <= Cof(nth)[v][u]
  <2>1. v \in Tids
    BY <1>3, <1>5
  <2>2. /\ Rof(th)[v] = th[v].reused /\ Cof(th)[v] = th[v].clk
        /\ Rof(nth)[v] = nth[v].reused /\ Cof(nth)[v] = nth[v].clk
    BY <1>2, <2>1, CofDoes
  <2>3. CASE v # t
    BY <1>2, <1>4, <1>5, <2>1, <2>2, <2>3
  <2>4. CASE v = t
    <3>1. r <= th[t].reused /\ (r = th[t].reused => \A u \in Tids : vec[u] <= th[t].clk[u])
      BY <1>4, <1>5, <2>2, <2>4
    <3>2. /\ th[t] \in ThreadClocks /\ th[t].reused \in Nat /\ me.reused \in Nat /\ r \in Nat
          /\ th[t].clk \in Clocks /\ me.clk \in Clocks
      <4>1. th[t] \in ThreadClocks
        BY DEF Threads
      <4> QED BY <1>1, <1>3, <4>1, MeFields
    <3>3. Rof(nth)[v] = me.reused /\ Cof(nth)[v] = me.clk
      BY <1>2, <2>2, <2>4
    <3>4. CASE me.reused = th[t].reused /\ \A u \in Tids : th[t].clk[u] <= me.clk[u]
      <4>1. ASSUME NEW u \in Tids, vec[u] <= th[t].clk[u] PROVE vec[u] <= me.clk[u]
        <5>1. vec[u] \in Nat /\ th[t].clk[u] \in Nat /\ me.clk[u] \in Nat
          BY <3>2 DEF Clocks
        <5>2. th[t].clk[u] <= me.clk[u]
          BY <3>4
        <5> QED BY <4>1, <5>1, <5>2
      <4> QED BY <3>1, <3>3, <3>4, <4>1
    <3>5. CASE me.reused > th[t].reused
      BY <3>1, <3>2, <3>3, <3>5
    <3> QED BY <1>1, <3>4, <3>5
  <2> QED BY <2>3, <2>4
<1> QED BY <1>5 DEF StoreOK, nth, v, r

LEMMA SyncStill ==
  ASSUME NEW th \in Threads, NEW ep \in EpochNumbers, NEW t \in Tids, NEW me, NEW e,
         Renewed(th, ep, t, me, e), NEW p \in Pools, NEW q \in Pools,
         NEW at \in SyncClocks, SyncOK(at, th, p, ep),
         at.tab \in Blocks => q[at.tab].epoch = p[at.tab].epoch
  PROVE  SyncOK(at, Changed(th, t, me), q, Changed(ep, t, e))
<1>1. AtOK(at, p) /\ Fits(Vec(at, p), th, ep) /\ StoreOK(at, Vec(at, p), Cof(th), Rof(th))
  BY DEF SyncOK
<1>2. Vec(at, p) \in Clocks
  BY <1>1, VecFacts
<1>3. AtOK(at, q) /\ Vec(at, q) = Vec(at, p)
  BY <1>1, SameTable
<1>4. Fits(Vec(at, p), Changed(th, t, me), Changed(ep, t, e))
  BY <1>1, <1>2, FitsStill
<1>5. StoreOK(at, Vec(at, p), Cof(Changed(th, t, me)), Rof(Changed(th, t, me)))
  BY <1>1, <1>2, StoreStill
<1> QED BY <1>3, <1>4, <1>5 DEF SyncOK

LEMMA ThreadStill ==
  ASSUME NEW th \in Threads, NEW ep \in EpochNumbers, NEW t \in Tids, NEW me, NEW e,
         Renewed(th, ep, t, me, e), NEW p \in Pools, NEW q \in Pools,
         NEW u \in Tids \ {t}, th[u].tid = u, ThreadOK(th[u], th, p, ep),
         th[u].cached.tab \in Blocks => q[th[u].cached.tab].epoch = p[th[u].cached.tab].epoch
  PROVE  ThreadOK(th[u], Changed(th, t, me), q, Changed(ep, t, e))
<1> DEFINE him == th[u]
<1>1. him.clk[u] = ep[u] /\ MeOK(him) /\ CacheOK(him, p) /\ Fits(him.clk, th, ep)
  BY DEF ThreadOK
<1>2. him \in ThreadClocks
  BY DEF Threads
<1>3. him.clk \in Clocks /\ him.cached.tab \in Blocks \cup {NoBlock}
  BY <1>2, MeFields
<1>4. him.tid = u /\ (him.cached.tab \in Blocks => q[him.cached.tab].epoch = p[him.cached.tab].epoch)
  OBVIOUS
<1> HIDE DEF him
<1>5. Fits(him.clk, Changed(th, t, me), Changed(ep, t, e))
  BY <1>1, <1>3, FitsStill
<1>6. Changed(ep, t, e)[u] = ep[u]
  BY DEF Changed, EpochNumbers
<1>7. CacheOK(him, q)
  BY <1>1, <1>3, <1>4 DEF CacheOK
<1>8. ThreadOK(him, Changed(th, t, me), q, Changed(ep, t, e))
  BY <1>1, <1>4, <1>5, <1>6, <1>7 DEF ThreadOK
<1> QED BY <1>8 DEF him

LEMMA FlagsStill ==
  ASSUME NEW th \in Threads, NEW ep, NEW t \in Tids, NEW me, NEW e, Renewed(th, ep, t, me, e),
         NEW p \in Pools, FlagsOK(p, Cof(th), Rof(th))
  PROVE  FlagsOK(p, Cof(Changed(th, t, me)), Rof(Changed(th, t, me)))
<1> DEFINE nth == Changed(th, t, me)
<1>1. /\ me \in ThreadClocks /\ \/ me.reused = th[t].reused /\ \A u \in Tids : th[t].clk[u] <= me.clk[u]
                                \/ me.reused > th[t].reused
  BY DEF Renewed
<1>2. nth \in Threads /\ nth[t] = me /\ \A u \in Tids \ {t} : nth[u] = th[u]
  BY <1>1, CofChanged
<1> HIDE DEF nth
<1>3. ASSUME NEW b \in Blocks, NEW v \in Tids
      PROVE  /\ p[b].reused[v] <= Rof(nth)[v]
             /\ p[b].reused[v] = Rof(nth)[v] => \A u \in Tids : p[b].epoch[u] <= Cof(nth)[v][u]
  <2> DEFINE r == p[b].reused[v]
             k == p[b].epoch
  <2>1. r <= Rof(th)[v] /\ (r = Rof(th)[v] => \A u \in Tids : k[u] <= Cof(th)[v][u])
    BY DEF FlagsOK, FlagOK
  <2>2. k \in Clocks /\ r \in Nat
    <3>1. p[b].epoch \in Clocks /\ p[b].reused \in Flags
      BY BlockFields
    <3> QED BY <3>1 DEF Flags
  <2> HIDE DEF r, k
  <2>3. /\ Rof(th)[v] = th[v].reused /\ Cof(th)[v] = th[v].clk
        /\ Rof(nth)[v] = nth[v].reused /\ Cof(nth)[v] = nth[v].clk
    BY <1>2, CofDoes
  <2>4. CASE v # t
    BY <1>2, <2>1, <2>3, <2>4 DEF r, k
  <2>5. CASE v = t
    <3>1. r <= th[t].reused /\ (r = th[t].reused => \A u \in Tids : k[u] <= th[t].clk[u])
      BY <2>1, <2>3, <2>5
    <3>2. /\ th[t] \in ThreadClocks /\ th[t].reused \in Nat /\ me.reused \in Nat
          /\ th[t].clk \in Clocks /\ me.clk \in Clocks
      <4>1. th[t] \in ThreadClocks
        BY DEF Threads
      <4> QED BY <1>1, <4>1, MeFields
    <3>3. Rof(nth)[v] = me.reused /\ Cof(nth)[v] = me.clk
      BY <1>2, <2>3, <2>5
    <3>4. CASE me.reused = th[t].reused /\ \A u \in Tids : th[t].clk[u] <= me.clk[u]
      <4>1. ASSUME NEW u \in Tids, k[u] <= th[t].clk[u] PROVE k[u] <= me.clk[u]
        <5>1. k[u] \in Nat /\ th[t].clk[u] \in Nat /\ me.clk[u] \in Nat
          BY <2>2, <3>2 DEF Clocks
        <5>2. th[t].clk[u] <= me.clk[u]
          BY <3>4
        <5> QED BY <4>1, <5>1, <5>2
      <4> QED BY <3>1, <3>3, <3>4, <4>1 DEF r, k
    <3>5. CASE me.reused > th[t].reused
      BY <2>2, <3>1, <3>2, <3>3, <3>5 DEF r, k
    <3> QED BY <1>1, <3>4, <3>5
  <2> QED BY <2>4, <2>5
<1> QED BY <1>3 DEF FlagsOK, FlagOK, nth

LEMMA FitsZero ==
  ASSUME NEW th \in Threads, NEW ep \in EpochNumbers
  PROVE  Fits(AllZero, th, ep)
<1>1. ASSUME NEW t \in Tids PROVE AllZero[t] <= ep[t] /\ Told(th[t], AllZero)
  <2>1. th[t] \in ThreadClocks
    BY DEF Threads
  <2>2. th[t].tid \in Tids /\ th[t].last_acquire \in Nat
    BY <2>1, MeFields
  <2>3. AllZero[t] = 0 /\ AllZero[th[t].tid] = 0
    BY <2>2, Zeros
  <2>4. ep[t] \in Nat
    BY DEF EpochNumbers
  <2> QED BY <2>2, <2>3, <2>4 DEF Told
<1> QED BY <1>1 DEF Fits

LEMMA FitsJoin ==
  ASSUME NEW th \in Threads, NEW ep \in EpochNumbers, NEW c \in Clocks, NEW d \in Clocks,
         Fits(c, th, ep), Fits(d, th, ep)
  PROVE  Fits(Join(c, d), th, ep)
<1> DEFINE j == Join(c, d)
<1>1. j \in Clocks /\ \A u \in Tids : j[u] = (IF c[u] < d[u] THEN d[u] ELSE c[u]) /\ c[u] <= j[u] /\ d[u] <= j[u]
  BY JoinDoes
<1> HIDE DEF j
<1>2. ASSUME NEW t \in Tids PROVE j[t] <= ep[t] /\ Told(th[t], j)
  <2> DEFINE me == th[t]
  <2>1. me \in ThreadClocks
    BY DEF Threads
  <2>2. me.tid \in Tids /\ me.clk \in Clocks
    BY <2>1, MeFields
  <2>3. c[t] <= ep[t] /\ d[t] <= ep[t] /\ Told(me, c) /\ Told(me, d)
    BY DEF Fits
  <2>4. \A u \in Tids : c[u] \in Nat /\ d[u] \in Nat /\ j[u] \in Nat
    BY <1>1 DEF Clocks
  <2> HIDE DEF me
  <2>5. \A u \in Tids : me.clk[u] \in Nat
    BY <2>2 DEF Clocks
  <2>6. j[t] <= ep[t]
    BY <1>1, <2>3
  <2> DEFINE i == me.tid
  <2>7. j[i] = c[i] \/ j[i] = d[i]
    BY <1>1, <2>2
  <2> HIDE DEF i
  <2>8. ASSUME \A u \in Tids \ {i} : me.clk[u] <= c[u], NEW u \in Tids \ {i} PROVE me.clk[u] <= j[u]
    <3>1. me.clk[u] <= c[u] /\ c[u] <= j[u]
      BY <1>1, <2>8
    <3> QED BY <2>4, <2>5, <3>1
  <2>9. ASSUME \A u \in Tids \ {i} : me.clk[u] <= d[u], NEW u \in Tids \ {i} PROVE me.clk[u] <= j[u]
    <3>1. me.clk[u] <= d[u] /\ d[u] <= j[u]
      BY <1>1, <2>9
    <3> QED BY <2>4, <2>5, <3>1
  <2>10. Told(me, j)
    BY <2>3, <2>7, <2>8, <2>9 DEF Told, i
  <2> QED BY <2>6, <2>10 DEF me
<1> QED BY <1>2 DEF Fits, j

(* A clock that is later for others only tells more.                       *)
LEMMA ToldMore ==
  ASSUME NEW me \in ThreadClocks, NEW c \in Clocks, NEW d \in Clocks, Told(me, c),
         c[me.tid] = d[me.tid], \A u \in Tids : c[u] <= d[u]
  PROVE  Told(me, d)
<1>1. me.tid \in Tids /\ me.clk \in Clocks
  BY MeFields
<1> DEFINE i == me.tid
           k == me.clk
<1>2. \A u \in Tids : c[u] \in Nat /\ d[u] \in Nat /\ k[u] \in Nat
  BY <1>1 DEF Clocks
<1> HIDE DEF k, i
<1>3. ASSUME NEW u \in Tids, k[u] <= c[u] PROVE k[u] <= d[u]
  BY <1>2, <1>3
<1> QED BY <1>3 DEF Told, k

(* A thread and an object have changed.                                    *)
LEMMA StepIsGood ==
  ASSUME NEW th, NEW sy, NEW p, NEW ep, Good(th, sy, p, ep),
         NEW t \in Tids, NEW s \in Syncs, NEW me, NEW e, Renewed(th, ep, t, me, e),
         NEW at \in SyncClocks, NEW q \in Pools,
         \A b \in Blocks : q[b].ref = RestOf(th, sy, t, s)[b] + One(at.tab = b) + One(me.cached.tab = b),
         Frame(p, q, RestOf(th, sy, t, s)),
         SyncOK(at, Changed(th, t, me), q, Changed(ep, t, e)),
         ThreadOK(me, Changed(th, t, me), q, Changed(ep, t, e)),
         FlagsOK(q, Cof(Changed(th, t, me)), Rof(Changed(th, t, me)))
  PROVE  Good(Changed(th, t, me), Changed(sy, s, at), q, Changed(ep, t, e))
<1> DEFINE nth == Changed(th, t, me)
           nsy == Changed(sy, s, at)
           nep == Changed(ep, t, e)
           rest == RestOf(th, sy, t, s)
<1>1. /\ th \in Threads /\ sy \in Objects /\ p \in Pools /\ ep \in EpochNumbers
      /\ Counted(th, sy, p)
      /\ \A a \in Syncs : SyncOK(sy[a], th, p, ep)
      /\ \A u \in Tids : th[u].tid = u /\ ThreadOK(th[u], th, p, ep)
  BY DEF Good
<1>2. me \in ThreadClocks /\ me.tid = t /\ e \in 0..MaxEpoch
  BY DEF Renewed
<1>3. nth \in Threads /\ nth[t] = me /\ \A u \in Tids \ {t} : nth[u] = th[u]
  BY <1>1, <1>2, CofChanged
<1>4. nsy \in Objects /\ nsy[s] = at /\ \A a \in Syncs \ {s} : nsy[a] = sy[a]
  BY <1>1 DEF Changed, Objects
<1>5. nep \in EpochNumbers
  BY <1>1, <1>2 DEF Changed, EpochNumbers
<1>6. Counted(nth, nsy, q)
  BY <1>1, <1>2, CountedAgain
<1>7. /\ \A a \in Syncs \ {s} : sy[a].tab \in Blocks => rest[sy[a].tab] # 0
      /\ \A a \in Tids \ {t} : th[a].cached.tab \in Blocks => rest[th[a].cached.tab] # 0
  BY <1>1, RestIs
<1>8. \A b \in Blocks : rest[b] # 0 => q[b].epoch = p[b].epoch
  BY DEF Frame
<1> HIDE DEF rest
<1>9. ASSUME NEW a \in Syncs PROVE SyncOK(nsy[a], nth, q, nep)
  <2>1. CASE a = s
    BY <1>4, <2>1
  <2>2. CASE a # s
    <3>1. sy[a] \in SyncClocks
      BY <1>1 DEF Objects
    <3>2. sy[a].tab \in Blocks => q[sy[a].tab].epoch = p[sy[a].tab].epoch
      BY <1>7, <1>8, <2>2
    <3>3. SyncOK(sy[a], th, p, ep)
      BY <1>1
    <3>4. SyncOK(sy[a], nth, q, nep)
      BY <1>1, <3>1, <3>2, <3>3, SyncStill
    <3> HIDE DEF nsy, nth, nep
    <3> QED BY <1>4, <2>2, <3>4
  <2> QED BY <2>1, <2>2
<1>10. ASSUME NEW u \in Tids PROVE nth[u].tid = u /\ ThreadOK(nth[u], nth, q, nep)
  <2>1. CASE u = t
    <3> HIDE DEF nth, nep
    <3>1. ThreadOK(me, nth, q, nep)
      BY DEF nth, nep
    <3> QED BY <1>2, <1>3, <2>1, <3>1
  <2>2. CASE u # t
    <3>1. th[u].tid = u /\ ThreadOK(th[u], th, p, ep)
      BY <1>1
    <3>2. th[u].cached.tab \in Blocks => q[th[u].cached.tab].epoch = p[th[u].cached.tab].epoch
      BY <1>7, <1>8, <2>2
    <3>3. ThreadOK(th[u], nth, q, nep)
      BY <1>1, <2>2, <3>1, <3>2, ThreadStill
    <3> HIDE DEF nth, nep
    <3> QED BY <1>3, <2>2, <3>1, <3>3
  <2> QED BY <2>1, <2>2
<1>11. FlagsOK(q, Cof(nth), Rof(nth))
  OBVIOUS
<1> HIDE DEF nth, nsy, nep
<1>12. Good(nth, nsy, q, nep)
  BY <1>3, <1>4, <1>5, <1>6, <1>9, <1>10, <1>11 DEF Good
<1> QED BY <1>12 DEF nth, nsy, nep

(* A thread alone has changed, and has dropped a table, or not.            *)
LEMMA ThreadStepIsGood ==
  ASSUME NEW th, NEW sy, NEW p, NEW ep, Good(th, sy, p, ep),
         NEW t \in Tids, NEW me, NEW e, Renewed(th, ep, t, me, e), NEW q \in Pools,
         \A b \in Blocks : /\ q[b].ref + One(th[t].cached.tab = b) = p[b].ref + One(me.cached.tab = b)
                           /\ q[b].ref # 0 => q[b].epoch = p[b].epoch,
         ThreadOK(me, Changed(th, t, me), q, Changed(ep, t, e)),
         FlagsOK(q, Cof(th), Rof(th))
  PROVE  Good(Changed(th, t, me), sy, q, Changed(ep, t, e))
<1> DEFINE nth == Changed(th, t, me)
           nep == Changed(ep, t, e)
<1>1. /\ th \in Threads /\ sy \in Objects /\ p \in Pools /\ ep \in EpochNumbers
      /\ Counted(th, sy, p)
      /\ \A a \in Syncs : SyncOK(sy[a], th, p, ep)
      /\ \A u \in Tids : th[u].tid = u /\ ThreadOK(th[u], th, p, ep)
  BY DEF Good
<1>2. me \in ThreadClocks /\ me.tid = t /\ e \in 0..MaxEpoch
  BY DEF Renewed
<1>3. nth \in Threads /\ nth[t] = me /\ \A u \in Tids \ {t} : nth[u] = th[u]
  BY <1>1, <1>2, CofChanged
<1>4. nep \in EpochNumbers
  BY <1>1, <1>2 DEF Changed, EpochNumbers
<1>5. /\ Counted(nth, sy, q)
      /\ \A a \in Syncs : sy[a].tab \in Blocks => q[sy[a].tab].ref # 0
      /\ \A a \in Tids \ {t} : th[a].cached.tab \in Blocks => q[th[a].cached.tab].ref # 0
  BY <1>1, <1>2, CountedThread
<1>6. ASSUME NEW a \in Syncs PROVE SyncOK(sy[a], nth, q, nep)
  <2>1. sy[a] \in SyncClocks
    BY <1>1 DEF Objects
  <2>2. sy[a].tab \in Blocks => q[sy[a].tab].epoch = p[sy[a].tab].epoch
    BY <1>5
  <2> QED BY <1>1, <2>1, <2>2, SyncStill
<1>7. ASSUME NEW u \in Tids PROVE nth[u].tid = u /\ ThreadOK(nth[u], nth, q, nep)
  <2>1. CASE u = t
    <3> HIDE DEF nth, nep
    <3>1. ThreadOK(me, nth, q, nep)
      BY DEF nth, nep
    <3> QED BY <1>2, <1>3, <2>1, <3>1
  <2>2. CASE u # t
    <3>1. th[u].tid = u /\ ThreadOK(th[u], th, p, ep)
      BY <1>1
    <3>2. th[u].cached.tab \in Blocks => q[th[u].cached.tab].epoch = p[th[u].cached.tab].epoch
      BY <1>5, <2>2
    <3>3. ThreadOK(th[u], nth, q, nep)
      BY <1>1, <2>2, <3>1, <3>2, ThreadStill
    <3> HIDE DEF nth, nep
    <3> QED BY <1>3, <2>2, <3>1, <3>3
  <2> QED BY <2>1, <2>2
<1>8. FlagsOK(q, Cof(nth), Rof(nth))
  BY <1>1, FlagsStill
<1> HIDE DEF nth, nep
<1>9. Good(nth, sy, q, nep)
  BY <1>1, <1>3, <1>4, <1>5, <1>6, <1>7, <1>8 DEF Good
<1> QED BY <1>9 DEF nth, nep

(* ThreadClock::set of the thread's own epoch.                             *)
Ticked(me, t, e) == [me EXCEPT !.clk[t] = e]

LEMMA TickedDoes ==
  ASSUME NEW me \in ThreadClocks, NEW t \in Tids, NEW e \in Nat
  PROVE  LET now == Ticked(me, t, e)
         IN  /\ now \in ThreadClocks /\ now.tid = me.tid /\ now.clk[t] = e /\ now.nclk = me.nclk
             /\ now.reused = me.reused /\ now.last_acquire = me.last_acquire
             /\ now.global_acquire = me.global_acquire /\ now.cached = me.cached
             /\ now.clk \in Clocks
             /\ \A u \in Tids \ {t} : now.clk[u] = me.clk[u]
             /\ now.clk = Changed(me.clk, t, e)
<1> DEFINE c == Changed(me.clk, t, e)
           now == [me EXCEPT !.clk = c]
<1>1. c \in Clocks /\ c[t] = e /\ \A u \in Tids \ {t} : c[u] = me.clk[u]
  <2>1. me.clk \in Clocks
    BY MeFields
  <2> QED BY <2>1 DEF Changed, Clocks
<1>2. now = Ticked(me, t, e)
  BY DEF Ticked, Changed
<1> HIDE DEF c
<1>3. /\ now \in ThreadClocks /\ now.tid = me.tid /\ now.clk = c /\ now.nclk = me.nclk
      /\ now.reused = me.reused /\ now.last_acquire = me.last_acquire
      /\ now.global_acquire = me.global_acquire /\ now.cached = me.cached
  BY <1>1 DEF ThreadClocks, Clocks
<1> HIDE DEF now
<1> QED BY <1>1, <1>2, <1>3 DEF c

LEMMA TickIsGood ==
  ASSUME NEW th, NEW sy, NEW p, NEW ep, Good(th, sy, p, ep),
         NEW t \in Tids, NEW e \in 0..MaxEpoch, ep[t] <= e
  PROVE  Good(Changed(th, t, Ticked(th[t], t, e)), sy, p, Changed(ep, t, e))
<1> DEFINE was == th[t]
           me == Ticked(th[t], t, e)
           nth == Changed(th, t, me)
           nep == Changed(ep, t, e)
<1>1. /\ th \in Threads /\ sy \in Objects /\ p \in Pools /\ ep \in EpochNumbers
      /\ \A u \in Tids : th[u].tid = u /\ ThreadOK(th[u], th, p, ep)
      /\ FlagsOK(p, Cof(th), Rof(th))
  BY DEF Good
<1>2. was \in ThreadClocks /\ e \in Nat /\ was.tid = t
  BY <1>1 DEF Threads
<1>3. /\ was.clk[t] = ep[t] /\ MeOK(was) /\ CacheOK(was, p) /\ Fits(was.clk, th, ep)
  BY <1>1, <1>2 DEF ThreadOK
<1>4. /\ me \in ThreadClocks /\ me.tid = t /\ me.clk[t] = e /\ me.nclk = was.nclk
      /\ me.reused = was.reused /\ me.last_acquire = was.last_acquire
      /\ me.global_acquire = was.global_acquire /\ me.cached = was.cached
      /\ me.clk \in Clocks
      /\ \A u \in Tids \ {t} : me.clk[u] = was.clk[u]
  BY <1>2, TickedDoes
<1>5. was.clk \in Clocks /\ was.nclk \in 1..NThreads /\ was.cached.tab \in Blocks \cup {NoBlock}
  BY <1>2, MeFields
<1> HIDE DEF me
<1>6. \A u \in Tids : was.clk[u] \in Nat /\ me.clk[u] \in Nat
  BY <1>4, <1>5 DEF Clocks
<1>7. \A u \in Tids : was.clk[u] <= me.clk[u]
  <2>1. ASSUME NEW u \in Tids PROVE was.clk[u] <= me.clk[u]
    <3>1. CASE u = t
      BY <1>3, <1>4, <3>1
    <3>2. CASE u # t
      BY <1>4, <1>6, <3>2
    <3> QED BY <3>1, <3>2
  <2> QED BY <2>1
<1>8. Renewed(th, ep, t, me, e)
  <2>1. ASSUME NEW vec \in Clocks, Fits(vec, th, ep) PROVE Told(me, vec)
    <3>1. Told(was, vec)
      BY <2>1 DEF Fits
    <3> HIDE DEF was
    <3> QED BY <1>2, <1>4, <3>1 DEF Told
  <2> QED BY <1>4, <1>7, <2>1 DEF Renewed
<1>9. nth[t] = me /\ \A u \in Tids \ {t} : nth[u] = th[u]
  BY <1>1, <1>4, CofChanged
<1>10. nep[t] = e /\ \A u \in Tids \ {t} : nep[u] = ep[u]
  BY <1>1 DEF Changed, EpochNumbers
<1> HIDE DEF nth, nep
<1>11. Fits(me.clk, nth, nep)
  <2>1. ASSUME NEW u \in Tids PROVE me.clk[u] <= nep[u] /\ Told(nth[u], me.clk)
    <3>1. CASE u = t
      <4>1. Told(me, me.clk)
        BY <1>4, <1>6 DEF Told
      <4> QED BY <1>4, <1>9, <1>10, <3>1, <4>1
    <3>2. CASE u # t
      <4>1. me.clk[u] <= nep[u]
        BY <1>3, <1>4, <1>10, <3>2 DEF Fits
      <4>2. th[u] \in ThreadClocks /\ th[u].tid = u /\ Told(th[u], was.clk)
        BY <1>1, <1>3 DEF Fits, Threads
      <4>3. was.clk[th[u].tid] = me.clk[th[u].tid]
        BY <1>4, <3>2, <4>2
      <4> HIDE DEF was
      <4>4. Told(th[u], me.clk)
        BY <1>4, <1>5, <1>7, <4>2, <4>3, ToldMore
      <4> QED BY <1>9, <3>2, <4>1, <4>4
    <3> QED BY <3>1, <3>2
  <2> QED BY <2>1 DEF Fits
<1>12. ThreadOK(me, nth, p, nep)
  <2>1. MeOK(me)
    <3>1. was.tid < was.nclk /\ \A u \in Tids : was.nclk <= u => was.clk[u] = 0
      BY <1>3 DEF MeOK
    <3>2. ASSUME NEW u \in Tids, was.nclk <= u PROVE me.clk[u] = 0
      <4>1. u # t
        BY <1>2, <1>5, <3>1, <3>2, Numbers
      <4> QED BY <1>4, <3>1, <3>2, <4>1
    <3> QED BY <1>2, <1>4, <3>1, <3>2 DEF MeOK
  <2>2. CacheOK(me, p)
    <3> DEFINE k == p[was.cached.tab].epoch
    <3>1. ASSUME was.cached.tab # NoBlock PROVE CacheIs(me, k)
      <4>1. CacheIs(was, k)
        BY <1>3, <3>1 DEF CacheOK
      <4>2. was.cached.tab \in Blocks
        BY <1>5, <3>1
      <4>3. k \in Clocks
        BY <1>1, <4>2, BlockFields
      <4> HIDE DEF k
      <4>4. k[t] \in Nat
        BY <4>3 DEF Clocks
      <4>5. k[t] <= e
        BY <1>2, <1>6, <1>7, <1>4, <4>1, <4>4 DEF CacheIs
      <4> QED BY <1>2, <1>4, <4>1, <4>5 DEF CacheIs
    <3> HIDE DEF was
    <3> QED BY <1>4, <3>1 DEF CacheOK
  <2> QED BY <1>4, <1>10, <1>11, <2>1, <2>2 DEF ThreadOK
<1>13. \A b \in Blocks : p[b].ref + One(th[t].cached.tab = b) = p[b].ref + One(me.cached.tab = b)
                         /\ (p[b].ref # 0 => p[b].epoch = p[b].epoch)
  BY <1>4
<1>14. Good(nth, sy, p, nep)
  BY <1>1, <1>8, <1>12, <1>13, ThreadStepIsGood DEF nth, nep
<1> QED BY <1>14 DEF nth, nep, me

(* What a thread and an object bring to an operation.                      *)
LEMMA Entry ==
  ASSUME NEW th, NEW sy, NEW p, NEW ep, Good(th, sy, p, ep), NEW t \in Tids, NEW s \in Syncs
  PROVE  LET x == X(th[t], sy[s], p, {})
         IN  /\ XInv(x, RestOf(th, sy, t, s), Cof(th), Rof(th)) /\ Room(RestOf(th, sy, t, s))
             /\ x \in Xs /\ x.me = th[t] /\ x.me.tid = t /\ x.at = sy[s] /\ x.pool = p /\ x.edges = {}
             /\ V(x) = Vec(sy[s], p) /\ V(x) \in Clocks /\ x.me.clk \in Clocks
             /\ V(x)[x.me.tid] <= x.me.clk[x.me.tid]
             /\ Fits(V(x), th, ep) /\ Fits(x.me.clk, th, ep)
             /\ StoreOK(x.at, V(x), Cof(th), Rof(th))
             /\ ep[t] # 0 => Pre(x, Cof(th), Rof(th))
<1> DEFINE me == th[t]
           at == sy[s]
           x == X(me, at, p, {})
           rest == RestOf(th, sy, t, s)
           C == Cof(th)
           R == Rof(th)
<1>1. /\ th \in Threads /\ sy \in Objects /\ p \in Pools /\ ep \in EpochNumbers
      /\ Counted(th, sy, p)
      /\ \A u \in Syncs : SyncOK(sy[u], th, p, ep)
      /\ \A u \in Tids : th[u].tid = u /\ ThreadOK(th[u], th, p, ep)
      /\ FlagsOK(p, C, R)
  BY DEF Good
<1>2. me \in ThreadClocks /\ at \in SyncClocks /\ me.tid = t
  BY <1>1 DEF Threads, Objects
<1>3. me.clk[t] = ep[t] /\ MeOK(me) /\ CacheOK(me, p) /\ Fits(me.clk, th, ep)
  BY <1>1, <1>2 DEF ThreadOK
<1>4. AtOK(at, p) /\ Fits(Vec(at, p), th, ep) /\ StoreOK(at, Vec(at, p), C, R)
  BY <1>1 DEF SyncOK
<1>5. C \in [Tids -> Clocks] /\ R \in [Tids -> 1..MaxReuse] /\ C[t] = me.clk /\ R[t] = me.reused
  BY <1>1, CofDoes
<1>6. /\ rest \in [Blocks -> Nat]
      /\ \A b \in Blocks : p[b].ref = rest[b] + One(at.tab = b) + One(me.cached.tab = b)
  BY <1>1, RestIs
<1>7. Room(rest)
  BY RestLeavesRoom
<1>8. Told(me, Vec(at, p)) /\ Vec(at, p)[t] <= ep[t]
  BY <1>4 DEF Fits
<1>9. me.clk \in Clocks /\ Vec(at, p) \in Clocks
  BY <1>1, <1>2, <1>4, MeFields, VecFacts
<1> HIDE DEF me, at, rest, C, R
<1>10. x \in Xs /\ x.me = me /\ x.at = at /\ x.pool = p /\ x.edges = {}
  BY <1>1, <1>2, XType
<1> HIDE DEF x
<1>11. V(x) = Vec(at, p)
  BY <1>10 DEF V
<1>12. XInv(x, rest, C, R)
  <2>1. Refs(x, rest)
    BY <1>6, <1>10 DEF Refs
  <2> QED BY <1>1, <1>2, <1>3, <1>4, <1>5, <1>6, <1>10, <2>1 DEF XInv, Known
<1>13. ep[t] # 0 => Pre(x, C, R)
  BY <1>2, <1>3, <1>4, <1>8, <1>10, <1>11 DEF Pre
<1> QED BY <1>2, <1>3, <1>4, <1>7, <1>8, <1>9, <1>10, <1>11, <1>12, <1>13 DEF x, me, at, rest, C, R

(* What an operation has to leave.                                         *)
LEMMA Exit ==
  ASSUME NEW th, NEW sy, NEW p, NEW ep, Good(th, sy, p, ep), NEW t \in Tids, NEW s \in Syncs,
         NEW y, After(X(th[t], sy[s], p, {}), y, RestOf(th, sy, t, s), Cof(th), Rof(th)),
         \A u \in Tids : th[t].clk[u] <= y.me.clk[u],
         Fits(y.me.clk, th, ep), Fits(V(y), th, ep),
         StoreOK(y.at, V(y), Changed(Cof(th), t, y.me.clk), Rof(th))
  PROVE  Good(Changed(th, t, y.me), Changed(sy, s, y.at), y.pool, ep)
<1> DEFINE x == X(th[t], sy[s], p, {})
           rest == RestOf(th, sy, t, s)
           C == Cof(th)
           R == Rof(th)
           nth == Changed(th, t, y.me)
<1>1. /\ th \in Threads /\ sy \in Objects /\ p \in Pools /\ ep \in EpochNumbers
      /\ th[t].tid = t /\ ThreadOK(th[t], th, p, ep)
  BY DEF Good
<1>2. x.me = th[t] /\ x.pool = p /\ th[t].clk[t] = ep[t]
  BY <1>1 DEF X, ThreadOK
<1>3. C \in [Tids -> Clocks] /\ R \in [Tids -> 1..MaxReuse] /\ R[t] = th[t].reused
  BY <1>1, CofDoes
<1> HIDE DEF x, rest, C, R
<1>4. After(x, y, rest, C, R)
  BY DEF x, rest, C, R
<1>5. /\ XInv(y, rest, Changed(C, t, y.me.clk), R) /\ Frame(p, y.pool, rest)
      /\ y.me.tid = t /\ y.me.reused = th[t].reused /\ y.me.clk[t] = ep[t] /\ Keeps(th[t], y.me)
  BY <1>1, <1>2, <1>4 DEF After, Changed
<1>6. /\ y \in Xs /\ AtOK(y.at, y.pool) /\ CacheOK(y.me, y.pool) /\ MeOK(y.me)
      /\ FlagsOK(y.pool, Changed(C, t, y.me.clk), R) /\ Refs(y, rest)
  BY <1>5 DEF XInv
<1>7. y.me \in ThreadClocks /\ y.at \in SyncClocks /\ y.pool \in Pools
  BY <1>6, XFields
<1>8. y.me.clk \in Clocks /\ V(y) \in Clocks /\ V(y) = Vec(y.at, y.pool)
  BY <1>6, <1>7, MeFields, VecFacts DEF V
<1>9. Cof(nth) = Changed(C, t, y.me.clk) /\ Rof(nth) = R
  <2>1. Cof(nth) = Changed(C, t, y.me.clk) /\ Rof(nth) = Changed(R, t, y.me.reused)
    BY <1>1, <1>7, CofChanged DEF C, R
  <2>2. Changed(R, t, y.me.reused) = R
    BY <1>3, <1>5 DEF Changed
  <2> QED BY <2>1, <2>2
<1>10. Changed(ep, t, ep[t]) = ep /\ ep[t] \in 0..MaxEpoch
  BY <1>1 DEF Changed, EpochNumbers
<1>11. Renewed(th, ep, t, y.me, ep[t])
  <2>1. ASSUME NEW vec \in Clocks, Fits(vec, th, ep) PROVE Told(y.me, vec)
    <3>1. vec[t] <= ep[t] /\ Told(th[t], vec)
      BY <2>1 DEF Fits
    <3>2. vec[th[t].tid] <= th[t].clk[th[t].tid]
      BY <1>1, <1>2, <3>1
    <3> QED BY <1>5, <3>1, <3>2 DEF Keeps
  <2>2. ep[t] <= ep[t]
    BY <1>10
  <2> QED BY <1>5, <1>7, <1>10, <2>1, <2>2 DEF Renewed
<1>12. Fits(y.me.clk, nth, ep) /\ Fits(V(y), nth, ep)
  <2>1. Fits(y.me.clk, nth, Changed(ep, t, ep[t]))
    BY <1>1, <1>8, <1>11, FitsStill
  <2>2. Fits(V(y), nth, Changed(ep, t, ep[t]))
    BY <1>1, <1>8, <1>11, FitsStill
  <2> QED BY <1>10, <2>1, <2>2
<1> HIDE DEF nth
<1>13. StoreOK(y.at, V(y), Cof(nth), Rof(nth))
  BY <1>9 DEF C, R
<1>14. SyncOK(y.at, nth, y.pool, ep)
  BY <1>6, <1>8, <1>12, <1>13 DEF SyncOK
<1>15. ThreadOK(y.me, nth, y.pool, ep)
  BY <1>5, <1>6, <1>12 DEF ThreadOK
<1>16. FlagsOK(y.pool, Cof(nth), Rof(nth))
  BY <1>6, <1>9
<1>17. \A b \in Blocks : y.pool[b].ref = rest[b] + One(y.at.tab = b) + One(y.me.cached.tab = b)
  BY <1>6 DEF Refs
<1>18. Good(nth, Changed(sy, s, y.at), y.pool, Changed(ep, t, ep[t]))
  BY <1>5, <1>7, <1>10, <1>11, <1>14, <1>15, <1>16, <1>17, StepIsGood DEF nth, rest
<1> QED BY <1>10, <1>18 DEF nth

LEMMA OthersKeep ==
  ASSUME NEW th, NEW sy, NEW p, NEW ep, Good(th, sy, p, ep), NEW t \in Tids, NEW s \in Syncs,
         NEW q, Frame(p, q, RestOf(th, sy, t, s))
  PROVE  \A a \in Syncs \ {s} : Vec(sy[a], q) = Vec(sy[a], p)
<1>1. /\ th \in Threads /\ sy \in Objects /\ Counted(th, sy, p) /\ \A a \in Syncs : SyncOK(sy[a], th, p, ep)
  BY DEF Good
<1>2. ASSUME NEW a \in Syncs \ {s} PROVE Vec(sy[a], q) = Vec(sy[a], p)
  <2>1. sy[a] \in SyncClocks /\ AtOK(sy[a], p)
    BY <1>1 DEF Objects, SyncOK
  <2>2. sy[a].tab \in Blocks => RestOf(th, sy, t, s)[sy[a].tab] # 0
    BY <1>1, RestIs
  <2>3. sy[a].tab \in Blocks => q[sy[a].tab].epoch = p[sy[a].tab].epoch
    BY <2>2 DEF Frame
  <2> QED BY <2>1, <2>3, SameTable
<1> QED BY <1>2

(* What an operation of the thread t on the object s does: clk and vec are *)
(* their clocks then.                                                      *)
Outcome(th, sy, p, ep, t, s, y, clk, vec) ==
  /\ Good(Changed(th, t, y.me), Changed(sy, s, y.at), y.pool, ep)
  /\ y \in Xs /\ y.me \in ThreadClocks /\ y.at \in SyncClocks
  /\ y.me.clk = clk /\ Vec(y.at, y.pool) = vec
  /\ y.edges = Grown(t, th[t].clk, clk)
  /\ \A a \in Syncs \ {s} : Vec(sy[a], y.pool) = Vec(sy[a], p)

LEMMA AfterOutcome ==
  ASSUME NEW th, NEW sy, NEW p, NEW ep, Good(th, sy, p, ep), NEW t \in Tids, NEW s \in Syncs,
         NEW y, After(X(th[t], sy[s], p, {}), y, RestOf(th, sy, t, s), Cof(th), Rof(th)),
         \A u \in Tids : th[t].clk[u] <= y.me.clk[u],
         y.edges = Grown(t, th[t].clk, y.me.clk),
         Fits(y.me.clk, th, ep), Fits(V(y), th, ep),
         StoreOK(y.at, V(y), Changed(Cof(th), t, y.me.clk), Rof(th))
  PROVE  Outcome(th, sy, p, ep, t, s, y, y.me.clk, V(y))
<1>1. Good(Changed(th, t, y.me), Changed(sy, s, y.at), y.pool, ep)
  BY Exit
<1>2. X(th[t], sy[s], p, {}).pool = p
  BY DEF X
<1>3. Frame(p, y.pool, RestOf(th, sy, t, s)) /\ y \in Xs
  BY <1>2 DEF After, XInv
<1>4. \A a \in Syncs \ {s} : Vec(sy[a], y.pool) = Vec(sy[a], p)
  BY <1>3, OthersKeep
<1>5. V(y) = Vec(y.at, y.pool)
  BY DEF V
<1>6. y.me \in ThreadClocks /\ y.at \in SyncClocks
  BY <1>3, XFields
<1> QED BY <1>1, <1>3, <1>4, <1>5, <1>6 DEF Outcome

(* A thread remembers what it stored.                                      *)
LEMMA StoreLeft ==
  ASSUME NEW x \in Xs, NEW at, NEW vec \in Clocks, NEW C \in [Tids -> Clocks], NEW R, NEW clk \in Clocks,
         R[x.me.tid] = x.me.reused, \A u \in Tids : vec[u] <= clk[u],
         at.release_store = NoStore \/ at.release_store = OwnStore(x)
  PROVE  StoreOK(at, vec, Changed(C, x.me.tid, clk), R)
<1>1. CASE at.release_store = NoStore
  BY <1>1, Zeros DEF StoreOK
<1>2. CASE at.release_store = OwnStore(x)
  <2>1. at.release_store.tid = x.me.tid /\ at.release_store.reused = x.me.reused
    BY <1>2 DEF OwnStore
  <2>2. x.me \in ThreadClocks
    BY XFields
  <2>3. x.me.tid \in Tids /\ x.me.reused \in Nat
    BY <2>2, MeFields
  <2>4. Changed(C, x.me.tid, clk)[x.me.tid] = clk
    BY <2>3 DEF Changed
  <2>5. x.me.reused <= x.me.reused
    BY <2>3
  <2> QED BY <2>1, <2>4, <2>5 DEF StoreOK
<1> QED BY <1>1, <1>2

LEMMA AcquireOutcome ==
  ASSUME NEW th, NEW sy, NEW p, NEW ep, Good(th, sy, p, ep), NEW t \in Tids, NEW s \in Syncs
  PROVE  Outcome(th, sy, p, ep, t, s, Acquire(X(th[t], sy[s], p, {})),
                 Join(th[t].clk, Vec(sy[s], p)), Vec(sy[s], p))
<1> DEFINE x == X(th[t], sy[s], p, {})
           y == Acquire(x)
           rest == RestOf(th, sy, t, s)
           C == Cof(th)
           R == Rof(th)
<1>1. /\ th \in Threads /\ ep \in EpochNumbers
  BY DEF Good
<1>2. /\ XInv(x, rest, C, R) /\ Room(rest)
      /\ x \in Xs /\ x.me = th[t] /\ x.me.tid = t /\ x.at = sy[s] /\ x.pool = p /\ x.edges = {}
      /\ V(x) = Vec(sy[s], p) /\ V(x) \in Clocks /\ x.me.clk \in Clocks
      /\ V(x)[x.me.tid] <= x.me.clk[x.me.tid]
      /\ Fits(V(x), th, ep) /\ Fits(x.me.clk, th, ep)
      /\ StoreOK(x.at, V(x), C, R)
  BY Entry
<1>3. C \in [Tids -> Clocks] /\ C[t] = th[t].clk
  BY <1>1, CofDoes
<1> HIDE DEF x, rest, C, R
<1>4. Learned(x, y, rest, C, R) /\ y.at = x.at /\ V(y) = V(x)
  BY <1>2, AcquireDoes
<1> HIDE DEF y
<1>5. After(x, y, rest, C, R) /\ y.me.clk = Join(x.me.clk, V(x)) /\ y.edges = Grown(t, th[t].clk, y.me.clk)
  BY <1>2, <1>4 DEF Learned
<1>6. y.me.clk \in Clocks /\ \A u \in Tids : th[t].clk[u] <= y.me.clk[u]
  BY <1>2, <1>5, JoinDoes
<1>7. Fits(y.me.clk, th, ep)
  BY <1>1, <1>2, <1>5, FitsJoin
<1>8. StoreOK(y.at, V(y), Changed(C, t, y.me.clk), R)
  <2>1. x.at \in SyncClocks
    BY <1>2, XFields
  <2>2. x.at.release_store.tid \in Tids \cup {NoTid}
    BY <2>1, AtFields
  <2>3. \A u \in Tids : C[t][u] <= y.me.clk[u]
    BY <1>3, <1>6
  <2>4. StoreOK(x.at, V(x), [C EXCEPT ![t] = y.me.clk], R)
    BY <1>2, <1>3, <1>6, <2>2, <2>3, StoreStays
  <2> QED BY <1>4, <2>4 DEF Changed
<1>9. Outcome(th, sy, p, ep, t, s, y, y.me.clk, V(y))
  BY <1>2, <1>4, <1>5, <1>6, <1>7, <1>8, AfterOutcome DEF x, rest, C, R
<1> QED BY <1>2, <1>4, <1>5, <1>9 DEF y, x

(* The releases, and what acquires too.                                    *)
LEMMA ReleaseOutcomes ==
  ASSUME NEW th, NEW sy, NEW p, NEW ep, Good(th, sy, p, ep), NEW t \in Tids, NEW s \in Syncs, ep[t] # 0
  PROVE  LET x == X(th[t], sy[s], p, {})
             clk == th[t].clk
             vec == Vec(sy[s], p)
             both == Join(clk, vec)
         IN  /\ Outcome(th, sy, p, ep, t, s, Release(x), clk, Join(vec, clk))
             /\ Outcome(th, sy, p, ep, t, s, ReleaseStore(x), clk, clk)
             /\ Outcome(th, sy, p, ep, t, s, ReleaseStoreAcquire(x), both, clk)
             /\ Outcome(th, sy, p, ep, t, s, AcqRel(x), both, both)
<1> DEFINE x == X(th[t], sy[s], p, {})
           clk == th[t].clk
           vec == Vec(sy[s], p)
           both == Join(clk, vec)
           rest == RestOf(th, sy, t, s)
           C == Cof(th)
           R == Rof(th)
<1>1. /\ th \in Threads /\ ep \in EpochNumbers
  BY DEF Good
<1>2. /\ XInv(x, rest, C, R) /\ Room(rest)
      /\ x \in Xs /\ x.me = th[t] /\ x.me.tid = t /\ x.at = sy[s] /\ x.pool = p /\ x.edges = {}
      /\ V(x) = vec /\ V(x) \in Clocks /\ x.me.clk \in Clocks
      /\ Fits(V(x), th, ep) /\ Fits(x.me.clk, th, ep)
      /\ Pre(x, C, R)
  BY Entry
<1>3. C \in [Tids -> Clocks] /\ C[t] = clk /\ R[t] = x.me.reused
  BY <1>1, <1>2, CofDoes
<1>4. /\ clk \in Clocks /\ vec \in Clocks /\ Fits(clk, th, ep) /\ Fits(vec, th, ep) /\ x.me.clk = clk
  BY <1>2
<1>5. both \in Clocks /\ Fits(both, th, ep) /\ \A u \in Tids : clk[u] <= both[u] /\ both[u] <= both[u]
  <2>1. both \in Clocks /\ Fits(both, th, ep) /\ \A u \in Tids : clk[u] <= both[u]
    BY <1>1, <1>4, JoinDoes, FitsJoin
  <2>2. \A u \in Tids : both[u] \in Nat
    BY <2>1 DEF Clocks
  <2> QED BY <2>1, <2>2
<1>6. Join(vec, clk) \in Clocks /\ Fits(Join(vec, clk), th, ep)
  BY <1>1, <1>4, JoinDoes, FitsJoin
<1>7. \A u \in Tids : clk[u] <= clk[u]
  BY <1>4 DEF Clocks
<1>8. Grown(t, clk, clk) = {}
  BY <1>4, GrownNot
<1> HIDE DEF x, clk, vec, both, rest, C, R
<1>9. ASSUME NEW y, Kept(x, y, rest, C, R), V(y) \in Clocks, Fits(V(y), th, ep),
             StoreOK(y.at, V(y), Changed(C, t, clk), R)
      PROVE  Outcome(th, sy, p, ep, t, s, y, clk, V(y))
  <2>1. After(x, y, rest, C, R) /\ y.me.clk = clk /\ y.edges = {}
    BY <1>2, <1>3, <1>4, <1>9, KeptIsAfter
  <2> QED BY <1>4, <1>7, <1>8, <1>9, <2>1, AfterOutcome DEF x, rest, C, R, clk
<1>10. ASSUME NEW y, Learned(x, y, rest, C, R), V(y) \in Clocks, Fits(V(y), th, ep),
              StoreOK(y.at, V(y), Changed(C, t, both), R)
       PROVE  Outcome(th, sy, p, ep, t, s, y, both, V(y))
  <2>1. After(x, y, rest, C, R) /\ y.me.clk = both /\ y.edges = Grown(t, clk, both)
    BY <1>2, <1>4, <1>10 DEF Learned, both
  <2> QED BY <1>5, <1>10, <2>1, AfterOutcome DEF x, rest, C, R, clk
<1>11. Outcome(th, sy, p, ep, t, s, Release(x), clk, Join(vec, clk))
  <2> DEFINE y == Release(x)
  <2>1. /\ Kept(x, y, rest, C, R) /\ V(y) = Join(vec, clk)
        /\ y.at.release_store = NoStore \/ (y.at.release_store = OwnStore(x) /\ V(y) = clk)
    BY <1>2, <1>4, ReleaseDoes
  <2> HIDE DEF y
  <2>2. StoreOK(y.at, V(y), Changed(C, t, clk), R)
    <3>1. CASE y.at.release_store = NoStore
      BY <3>1, Zeros DEF StoreOK
    <3>2. CASE y.at.release_store = OwnStore(x) /\ V(y) = clk
      BY <1>2, <1>3, <1>4, <1>7, <3>2, StoreLeft
    <3> QED BY <2>1, <3>1, <3>2
  <2>3. Outcome(th, sy, p, ep, t, s, y, clk, V(y))
    BY <1>6, <1>9, <2>1, <2>2
  <2> QED BY <2>1, <2>3 DEF y
<1>12. Outcome(th, sy, p, ep, t, s, ReleaseStore(x), clk, clk)
  <2> DEFINE y == ReleaseStore(x)
  <2>1. Kept(x, y, rest, C, R) /\ V(y) = clk /\ y.at.release_store = OwnStore(x)
    BY <1>2, <1>4, ReleaseStoreDoes
  <2> HIDE DEF y
  <2>2. StoreOK(y.at, V(y), Changed(C, t, clk), R)
    BY <1>2, <1>3, <1>4, <1>7, <2>1, StoreLeft
  <2>3. Outcome(th, sy, p, ep, t, s, y, clk, V(y))
    BY <1>4, <1>9, <2>1, <2>2
  <2> QED BY <2>1, <2>3 DEF y
<1>13. Outcome(th, sy, p, ep, t, s, ReleaseStoreAcquire(x), both, clk)
  <2> DEFINE y == ReleaseStoreAcquire(x)
  <2>1. /\ Learned(x, y, rest, C, R) /\ V(y) = clk
        /\ y.at.release_store = NoStore \/ y.at.release_store = OwnStore(x)
    BY <1>2, <1>4, ReleaseStoreAcquireDoes
  <2> HIDE DEF y
  <2>2. StoreOK(y.at, V(y), Changed(C, t, both), R)
    BY <1>2, <1>3, <1>4, <1>5, <2>1, StoreLeft
  <2>3. Outcome(th, sy, p, ep, t, s, y, both, V(y))
    BY <1>4, <1>10, <2>1, <2>2
  <2> QED BY <2>1, <2>3 DEF y
<1>14. Outcome(th, sy, p, ep, t, s, AcqRel(x), both, both)
  <2> DEFINE y == AcqRel(x)
  <2>1. Learned(x, y, rest, C, R) /\ V(y) = y.me.clk /\ y.at.release_store = OwnStore(x)
    BY <1>2, AcqRelDoes
  <2>2. y.me.clk = both
    BY <1>2, <1>4, <2>1 DEF Learned, both
  <2> HIDE DEF y
  <2>3. StoreOK(y.at, V(y), Changed(C, t, both), R)
    BY <1>2, <1>3, <1>5, <2>1, <2>2, StoreLeft
  <2>4. Outcome(th, sy, p, ep, t, s, y, both, V(y))
    BY <1>5, <1>10, <2>1, <2>2, <2>3
  <2> QED BY <2>1, <2>2, <2>4 DEF y
<1> QED BY <1>11, <1>12, <1>13, <1>14 DEF x, clk, vec, both

LEMMA ResetOutcome ==
  ASSUME NEW th, NEW sy, NEW p, NEW ep, Good(th, sy, p, ep), NEW t \in Tids, NEW s \in Syncs
  PROVE  /\ ResetSync(X(th[t], sy[s], p, {})) = X(th[t], EmptySync, Emptied(sy[s], p), {})
         /\ Outcome(th, sy, p, ep, t, s, X(th[t], EmptySync, Emptied(sy[s], p), {}), th[t].clk, AllZero)
<1> DEFINE x == X(th[t], sy[s], p, {})
           y == ResetSync(x)
           z == X(th[t], EmptySync, Emptied(sy[s], p), {})
           rest == RestOf(th, sy, t, s)
           C == Cof(th)
           R == Rof(th)
<1>1. /\ th \in Threads /\ ep \in EpochNumbers
  BY DEF Good
<1>2. /\ XInv(x, rest, C, R)
      /\ x \in Xs /\ x.me = th[t] /\ x.me.tid = t /\ x.at = sy[s] /\ x.pool = p /\ x.edges = {}
      /\ x.me.clk \in Clocks /\ Fits(x.me.clk, th, ep)
  BY Entry
<1>3. C \in [Tids -> Clocks] /\ C[t] = th[t].clk
  BY <1>1, CofDoes
<1> HIDE DEF x, rest, C, R
<1>4. y = X(x.me, EmptySync, Emptied(x.at, x.pool), x.edges)
  BY <1>2, ResetSyncIs
<1>5. Kept(x, y, rest, C, R) /\ V(y) = AllZero /\ y.at = EmptySync /\ y.me = x.me
  BY <1>2, ResetSyncDoes
<1> HIDE DEF y
<1>6. y = z
  BY <1>2, <1>4
<1> HIDE DEF z
<1>7. After(x, y, rest, C, R) /\ y.me.clk = th[t].clk /\ y.edges = {}
  BY <1>2, <1>3, <1>5, KeptIsAfter
<1>8. Grown(t, th[t].clk, th[t].clk) = {} /\ \A u \in Tids : th[t].clk[u] <= th[t].clk[u]
  <2>1. th[t].clk \in Clocks
    BY <1>2
  <2>2. Grown(t, th[t].clk, th[t].clk) = {}
    BY <2>1, GrownNot
  <2>3. \A u \in Tids : th[t].clk[u] <= th[t].clk[u]
    BY <2>1 DEF Clocks
  <2> QED BY <2>2, <2>3
<1>9. Fits(V(y), th, ep)
  BY <1>1, <1>5, FitsZero
<1>10. StoreOK(y.at, V(y), Changed(C, t, y.me.clk), R)
  BY <1>5, EmptySyncDoes, Zeros DEF StoreOK
<1>11. Outcome(th, sy, p, ep, t, s, y, y.me.clk, V(y))
  BY <1>2, <1>7, <1>8, <1>9, <1>10, AfterOutcome DEF x, rest, C, R
<1>12. Outcome(th, sy, p, ep, t, s, y, th[t].clk, AllZero)
  BY <1>5, <1>7, <1>11
<1> QED BY <1>6, <1>12 DEF y, x, z

--------------------------------------------------------------------------------
(* Threads alone *)

(* ResetCached, where no object is at hand.                                *)
LEMMA ResetCachedAlone ==
  ASSUME NEW me \in ThreadClocks, NEW p \in Pools,
         me.cached.tab \in Blocks => p[me.cached.tab].ref # 0
  PROVE  LET y == ResetCached([me |-> me, pool |-> p])
         IN  /\ Dropped(p, y.pool, me.cached.tab)
             /\ y.me \in ThreadClocks /\ y.me.cached.tab = NoBlock /\ SameMe(me, y.me)
<1> DEFINE x == [me |-> me, pool |-> p]
           y == ResetCached(x)
<1>1. x.me = me /\ x.pool = p
  OBVIOUS
<1>2. me.cached.tab \in Blocks \cup {NoBlock}
  BY MeFields
<1>3. CASE me.cached.tab = NoBlock
  <2>1. y = x
    BY <1>1, <1>3 DEF ResetCached
  <2>2. Dropped(p, p, NoBlock)
    BY NothingDrops
  <2> HIDE DEF x, y
  <2> QED BY <1>1, <1>3, <2>1, <2>2 DEF SameMe, y, x
<1>4. CASE me.cached.tab # NoBlock
  <2> DEFINE q == Unref(p, me.cached.tab)
             m == [me EXCEPT !.cached = NoCache]
  <2>1. Dropped(p, q, me.cached.tab)
    BY <1>2, <1>4, UnrefDrops
  <2>2. y.pool = q /\ y.me = m
    <3>1. y = [x EXCEPT !.pool = Unref(@, x.me.cached.tab), !.me.cached = NoCache]
      BY <1>1, <1>4 DEF ResetCached
    <3>2. [x EXCEPT !.pool = Unref(@, x.me.cached.tab), !.me.cached = NoCache].pool = Unref(x.pool, x.me.cached.tab)
      OBVIOUS
    <3>3. [x EXCEPT !.pool = Unref(@, x.me.cached.tab), !.me.cached = NoCache].me = [x.me EXCEPT !.cached = NoCache]
      OBVIOUS
    <3> HIDE DEF y
    <3> QED BY <1>1, <3>1, <3>2, <3>3
  <2>3. NoCache \in Caches /\ NoCache.tab = NoBlock
    BY DEF NoCache, Caches
  <2>4. /\ m \in ThreadClocks /\ m.cached = NoCache /\ SameMe(me, m)
    <3>1. m \in ThreadClocks /\ m.cached = NoCache
      BY <2>3 DEF ThreadClocks, Caches
    <3>2. SameMe(me, m)
      BY DEF ThreadClocks, SameMe
    <3> QED BY <3>1, <3>2
  <2> HIDE DEF y, q, m
  <2>5. Dropped(p, y.pool, me.cached.tab) /\ y.me \in ThreadClocks /\ y.me.cached.tab = NoBlock /\ SameMe(me, y.me)
    BY <2>1, <2>2, <2>3, <2>4
  <2> QED BY <2>5 DEF y
<1> QED BY <1>3, <1>4

(* The table that a thread has cached is its own reference.                *)
LEMMA CachedIsHeld ==
  ASSUME NEW th, NEW sy, NEW p, NEW ep, Good(th, sy, p, ep), NEW t \in Tids
  PROVE  th[t].cached.tab \in Blocks => p[th[t].cached.tab].ref # 0
<1> DEFINE g == CachesOf(th)
           b == th[t].cached.tab
<1>1. g[t] = b
  BY DEF CachesOf
<1> HIDE DEF g, b
<1>2. ASSUME b \in Blocks PROVE p[b].ref # 0
  <2>1. IsFiniteSet(Syncs) /\ IsFiniteSet(Tids)
    BY Finite
  <2>2. Holding(Tids, g, b) # 0 /\ Holding(Tids, g, b) \in Nat /\ Holding(Syncs, TabsOf(sy), b) \in Nat
    BY <1>1, <2>1, HoldingType
  <2>3. p[b].ref = Holding(Syncs, TabsOf(sy), b) + Holding(Tids, g, b)
    BY <1>2 DEF Good, Counted, g
  <2> QED BY <2>2, <2>3
<1> QED BY <1>2 DEF b

(* A thread that drops its table: what ThreadStepIsGood asks of it.        *)
LEMMA DropIsGood ==
  ASSUME NEW th, NEW sy, NEW p, NEW ep, Good(th, sy, p, ep),
         NEW t \in Tids, NEW me, NEW e, Renewed(th, ep, t, me, e), me.cached.tab = NoBlock,
         NEW q, Dropped(p, q, th[t].cached.tab),
         ThreadOK(me, Changed(th, t, me), q, Changed(ep, t, e))
  PROVE  /\ Good(Changed(th, t, me), sy, q, Changed(ep, t, e))
         /\ \A a \in Syncs : Vec(sy[a], q) = Vec(sy[a], p)
<1>1. /\ th \in Threads /\ sy \in Objects /\ p \in Pools /\ Counted(th, sy, p)
      /\ FlagsOK(p, Cof(th), Rof(th)) /\ \A a \in Syncs : SyncOK(sy[a], th, p, ep)
  BY DEF Good
<1>2. q \in Pools /\ me \in ThreadClocks
  BY DEF Dropped, Renewed
<1>3. \A b \in Blocks : /\ q[b].ref + One(th[t].cached.tab = b) = p[b].ref + One(me.cached.tab = b)
                        /\ q[b].ref # 0 => q[b].epoch = p[b].epoch
  <2>1. ASSUME NEW b \in Blocks
        PROVE  /\ q[b].ref + One(th[t].cached.tab = b) = p[b].ref + One(me.cached.tab = b)
               /\ q[b].ref # 0 => q[b].epoch = p[b].epoch
    <3>1. q[b].ref + One(th[t].cached.tab = b) = p[b].ref /\ (q[b].ref # 0 => q[b].epoch = p[b].epoch)
      BY DEF Dropped
    <3>2. One(me.cached.tab = b) = 0
      BY Numbers DEF One
    <3>3. p[b].ref \in Nat
      BY <1>1, BlockFields
    <3> QED BY <3>1, <3>2, <3>3
  <2> QED BY <2>1
<1>4. FlagsOK(q, Cof(th), Rof(th))
  <2>1. Rof(th) \in [Tids -> 1..MaxReuse]
    BY <1>1, CofDoes
  <2> QED BY <1>1, <2>1, DroppedFlags
<1>5. Good(Changed(th, t, me), sy, q, Changed(ep, t, e))
  BY <1>2, <1>3, <1>4, ThreadStepIsGood
<1>6. \A a \in Syncs : sy[a].tab \in Blocks => q[sy[a].tab].ref # 0
  BY <1>1, <1>2, <1>3, CountedThread
<1>7. ASSUME NEW a \in Syncs PROVE Vec(sy[a], q) = Vec(sy[a], p)
  <2>1. sy[a] \in SyncClocks /\ AtOK(sy[a], p)
    BY <1>1 DEF Objects, SyncOK
  <2>2. sy[a].tab \in Blocks => q[sy[a].tab].epoch = p[sy[a].tab].epoch
    BY <1>3, <1>6
  <2> QED BY <2>1, <2>2, SameTable
<1> QED BY <1>5, <1>7

LEMMA NewThreadClockDoes ==
  ASSUME NEW t \in Tids, NEW r \in 1..MaxReuse
  PROVE  LET new == NewThreadClock(t, r)
         IN  /\ new \in ThreadClocks /\ new.tid = t /\ new.clk = AllZero /\ new.nclk = t + 1
             /\ new.reused = r /\ new.last_acquire = 0 /\ new.global_acquire = 0
             /\ new.cached.tab = NoBlock
<1> DEFINE n == t + 1
           new == NewThreadClock(t, r)
<1>1. n \in 1..NThreads
  BY DEF Tids
<1>2. new = [tid |-> t, clk |-> AllZero, nclk |-> n, reused |-> r,
             last_acquire |-> 0, global_acquire |-> 0, cached |-> NoCache]
  BY DEF NewThreadClock
<1> HIDE DEF n, new
<1>3. NoCache \in Caches /\ NoCache.tab = NoBlock
  BY DEF NoCache, Caches
<1>4. new \in ThreadClocks
  BY <1>1, <1>2, <1>3, Zeros DEF ThreadClocks, Clocks, Caches
<1>5. /\ new.tid = t /\ new.clk = AllZero /\ new.nclk = n /\ new.reused = r
      /\ new.last_acquire = 0 /\ new.global_acquire = 0 /\ new.cached.tab = NoBlock
  BY <1>2, <1>3
<1> QED BY <1>4, <1>5 DEF new, n

(* OnStarted: a new thread gets the number.                                *)
LEMMA FreshIsGood ==
  ASSUME NEW th, NEW sy, NEW p, NEW ep, Good(th, sy, p, ep),
         NEW t \in Tids, NEW e \in 0..MaxEpoch, ep[t] <= e, th[t].reused < MaxReuse
  PROVE  LET fresh == Ticked(NewThreadClock(t, th[t].reused + 1), t, e)
             q == ResetCached([me |-> th[t], pool |-> p]).pool
         IN  /\ Good(Changed(th, t, fresh), sy, q, Changed(ep, t, e))
             /\ fresh \in ThreadClocks /\ fresh.clk = Changed(AllZero, t, e)
             /\ \A a \in Syncs : Vec(sy[a], q) = Vec(sy[a], p)
<1> DEFINE new == NewThreadClock(t, th[t].reused + 1)
           me == Ticked(new, t, e)
           q == ResetCached([me |-> th[t], pool |-> p]).pool
           nth == Changed(th, t, me)
           nep == Changed(ep, t, e)
<1>1. /\ th \in Threads /\ p \in Pools /\ ep \in EpochNumbers
      /\ \A u \in Tids : th[u].tid = u /\ ThreadOK(th[u], th, p, ep)
  BY DEF Good
<1>2. th[t] \in ThreadClocks /\ th[t].reused \in 1..MaxReuse /\ e \in Nat /\ t \in Nat
  <2>1. th[t] \in ThreadClocks
    BY <1>1 DEF Threads
  <2> QED BY <2>1, MeFields, Numbers
<1>3. Dropped(p, q, th[t].cached.tab)
  <2>1. th[t].cached.tab \in Blocks => p[th[t].cached.tab].ref # 0
    BY CachedIsHeld
  <2> QED BY <1>1, <1>2, <2>1, ResetCachedAlone
<1>4. /\ new \in ThreadClocks /\ new.tid = t /\ new.clk = AllZero /\ new.nclk = t + 1
      /\ new.reused = th[t].reused + 1 /\ new.last_acquire = 0 /\ new.global_acquire = 0
      /\ new.cached.tab = NoBlock
  <2> DEFINE r == th[t].reused + 1
  <2>1. r \in 1..MaxReuse
    BY <1>2
  <2> HIDE DEF r
  <2>2. LET now == NewThreadClock(t, r)
        IN  /\ now \in ThreadClocks /\ now.tid = t /\ now.clk = AllZero /\ now.nclk = t + 1
            /\ now.reused = r /\ now.last_acquire = 0 /\ now.global_acquire = 0
            /\ now.cached.tab = NoBlock
    BY <2>1, NewThreadClockDoes
  <2> QED BY <2>2 DEF r
<1> HIDE DEF q, new
<1>5. /\ me \in ThreadClocks /\ me.tid = t /\ me.clk[t] = e /\ me.nclk = t + 1
      /\ me.reused = th[t].reused + 1 /\ me.last_acquire = 0 /\ me.global_acquire = 0
      /\ me.cached.tab = NoBlock /\ me.clk \in Clocks
      /\ \A u \in Tids \ {t} : me.clk[u] = 0
      /\ me.clk = Changed(AllZero, t, e)
  <2>0. new \in ThreadClocks /\ new.tid = t /\ e \in Nat
    BY <1>2, <1>4
  <2>1. /\ me \in ThreadClocks /\ me.tid = t /\ me.clk[t] = e /\ me.nclk = new.nclk
        /\ me.reused = new.reused /\ me.last_acquire = new.last_acquire
        /\ me.global_acquire = new.global_acquire /\ me.cached = new.cached
        /\ me.clk \in Clocks
        /\ \A u \in Tids \ {t} : me.clk[u] = new.clk[u]
    BY <2>0, TickedDoes
  <2>2. me.clk = Changed(new.clk, t, e)
    BY <2>0, TickedDoes
  <2> HIDE DEF me
  <2> QED BY <1>4, <2>1, <2>2, Zeros
<1> HIDE DEF me
<1>6. Renewed(th, ep, t, me, e)
  <2>1. ASSUME NEW vec \in Clocks PROVE Told(me, vec)
    <3>1. \A u \in Tids \ {me.tid} : me.clk[u] <= vec[u]
      BY <1>5 DEF Clocks
    <3> QED BY <3>1 DEF Told
  <2>2. me.reused > th[t].reused
    BY <1>2, <1>5
  <2> QED BY <1>5, <2>1, <2>2 DEF Renewed
<1>7. nth[t] = me /\ \A u \in Tids \ {t} : nth[u] = th[u]
  BY <1>1, <1>5, CofChanged
<1>8. nep[t] = e /\ \A u \in Tids \ {t} : nep[u] = ep[u]
  BY <1>1 DEF Changed, EpochNumbers
<1> HIDE DEF nth, nep
<1>9. Fits(me.clk, nth, nep)
  <2>1. ASSUME NEW u \in Tids PROVE me.clk[u] <= nep[u] /\ Told(nth[u], me.clk)
    <3>1. CASE u = t
      <4>1. Told(me, me.clk)
        BY <1>5 DEF Told
      <4>2. e <= e
        BY <1>2
      <4> QED BY <1>5, <1>7, <1>8, <3>1, <4>1, <4>2
    <3>2. CASE u # t
      <4>1. me.clk[u] = 0 /\ ep[u] \in Nat
        BY <1>1, <1>5, <3>2 DEF EpochNumbers
      <4>2. th[u] \in ThreadClocks /\ th[u].tid = u
        BY <1>1 DEF Threads
      <4>3. th[u].last_acquire \in Nat
        BY <4>2, MeFields
      <4>4. Told(th[u], me.clk)
        BY <4>1, <4>2, <4>3 DEF Told
      <4> QED BY <1>7, <1>8, <3>2, <4>1, <4>4
    <3> QED BY <3>1, <3>2
  <2> QED BY <2>1 DEF Fits
<1>10. ThreadOK(me, nth, q, nep)
  <2>1. MeOK(me)
    <3>1. ASSUME NEW u \in Tids, t + 1 <= u PROVE u # t
      BY <1>2, <3>1
    <3> QED BY <1>2, <1>5, <3>1 DEF MeOK
  <2>2. CacheOK(me, q)
    BY <1>5 DEF CacheOK
  <2> QED BY <1>5, <1>8, <1>9, <2>1, <2>2 DEF ThreadOK
<1>11. Good(nth, sy, q, nep) /\ \A a \in Syncs : Vec(sy[a], q) = Vec(sy[a], p)
  BY <1>3, <1>5, <1>6, <1>10, DropIsGood DEF nth, nep
<1> QED BY <1>5, <1>11 DEF nth, nep, me, q, new

(* AcquireGlobal: a running thread notes its epoch, and the caller takes   *)
(* that epoch over and drops its table.                                    *)
EpochNoted(me, e) == [me EXCEPT !.global_acquire = e]
Informed(me, u, e) == [me EXCEPT !.clk[u] = e, !.nclk = Later(@, u + 1)]
Reach(n, u) == Later(n, u + 1)
Settled(me, t) == [me EXCEPT !.last_acquire = me.clk[t]]

LEMMA EpochNotedDoes ==
  ASSUME NEW me \in ThreadClocks, NEW e \in Nat
  PROVE  LET now == EpochNoted(me, e)
         IN  /\ now \in ThreadClocks /\ now.tid = me.tid /\ now.clk = me.clk /\ now.nclk = me.nclk
             /\ now.reused = me.reused /\ now.last_acquire = me.last_acquire
             /\ now.global_acquire = e /\ now.cached = me.cached
BY DEF EpochNoted, ThreadClocks

LEMMA SettledDoes ==
  ASSUME NEW me \in ThreadClocks, NEW t \in Tids
  PROVE  LET now == Settled(me, t)
         IN  /\ now \in ThreadClocks /\ now.tid = me.tid /\ now.clk = me.clk /\ now.nclk = me.nclk
             /\ now.reused = me.reused /\ now.last_acquire = me.clk[t]
             /\ now.global_acquire = me.global_acquire /\ now.cached = me.cached
<1> DEFINE n == me.clk[t]
<1>1. n \in Nat
  BY MeFields DEF Clocks
<1>2. Settled(me, t) = [me EXCEPT !.last_acquire = n]
  BY DEF Settled
<1> HIDE DEF n
<1>3. LET now == [me EXCEPT !.last_acquire = n]
      IN  /\ now \in ThreadClocks /\ now.tid = me.tid /\ now.clk = me.clk /\ now.nclk = me.nclk
          /\ now.reused = me.reused /\ now.last_acquire = n
          /\ now.global_acquire = me.global_acquire /\ now.cached = me.cached
  BY <1>1 DEF ThreadClocks
<1> QED BY <1>2, <1>3 DEF n

LEMMA InformedDoes ==
  ASSUME NEW me \in ThreadClocks, NEW u \in Tids, NEW e \in Nat
  PROVE  LET now == Informed(me, u, e)
         IN  /\ now \in ThreadClocks /\ now.tid = me.tid /\ now.clk = Changed(me.clk, u, e)
             /\ now.nclk = Reach(me.nclk, u)
             /\ now.reused = me.reused /\ now.last_acquire = me.last_acquire
             /\ now.global_acquire = me.global_acquire /\ now.cached = me.cached
<1> DEFINE c == Changed(me.clk, u, e)
           n == Reach(me.nclk, u)
           now == Relearned(me, c, n)
<1>1. c \in Clocks
  BY MeFields DEF Changed, Clocks
<1>2. n \in 1..NThreads
  BY MeFields DEF Reach, Later, Tids
<1>3. Informed(me, u, e) = now
  <2>1. [me EXCEPT !.clk[u] = e].nclk = me.nclk
    BY DEF ThreadClocks
  <2>2. Informed(me, u, e) = [me EXCEPT !.clk = c, !.nclk = n]
    BY <2>1 DEF Informed, Changed, Reach
  <2> QED BY <2>2 DEF Relearned
<1> HIDE DEF c, n
<1>4. /\ now \in ThreadClocks /\ now.tid = me.tid /\ now.clk = c /\ now.nclk = n
      /\ now.reused = me.reused /\ now.last_acquire = me.last_acquire
      /\ now.global_acquire = me.global_acquire /\ now.cached = me.cached
  BY <1>1, <1>2, RelearnedType
<1> HIDE DEF now
<1> QED BY <1>3, <1>4 DEF c, n

LEMMA NotedIsGood ==
  ASSUME NEW th, NEW sy, NEW p, NEW ep, Good(th, sy, p, ep), NEW u \in Tids
  PROVE  Good(Changed(th, u, EpochNoted(th[u], ep[u])), sy, p, ep)
<1> DEFINE me == EpochNoted(th[u], ep[u])
           e == ep[u]
           nth == Changed(th, u, me)
<1>1. /\ th \in Threads /\ p \in Pools /\ ep \in EpochNumbers /\ FlagsOK(p, Cof(th), Rof(th))
      /\ th[u].tid = u /\ ThreadOK(th[u], th, p, ep)
  BY DEF Good
<1>2. th[u] \in ThreadClocks /\ e \in 0..MaxEpoch /\ e \in Nat
  BY <1>1 DEF Threads, EpochNumbers
<1>3. /\ me \in ThreadClocks /\ me.tid = u /\ me.clk = th[u].clk /\ me.nclk = th[u].nclk
      /\ me.reused = th[u].reused /\ me.global_acquire = e /\ me.cached = th[u].cached
  BY <1>1, <1>2, EpochNotedDoes
<1>4. me.clk \in Clocks
  BY <1>3, MeFields
<1>5. Changed(ep, u, e) = ep
  BY <1>1 DEF Changed, EpochNumbers
<1> HIDE DEF me, e
<1>6. Renewed(th, ep, u, me, e)
  <2>1. ASSUME NEW vec \in Clocks, Fits(vec, th, ep) PROVE Told(me, vec)
    <3>1. vec[u] <= e /\ vec[u] \in Nat
      BY <2>1 DEF Fits, e, Clocks
    <3> QED BY <1>2, <1>3, <3>1 DEF Told
  <2>2. \A v \in Tids : th[u].clk[v] <= me.clk[v]
    BY <1>3, <1>4 DEF Clocks
  <2>3. ep[u] <= e
    BY <1>2 DEF e
  <2> QED BY <1>2, <1>3, <2>1, <2>2, <2>3 DEF Renewed
<1>7. ThreadOK(me, nth, p, ep)
  <2>1. Fits(me.clk, th, ep)
    BY <1>1, <1>3 DEF ThreadOK
  <2>2. Fits(me.clk, nth, Changed(ep, u, e))
    BY <1>1, <1>4, <1>6, <2>1, FitsStill
  <2> HIDE DEF nth
  <2> QED BY <1>1, <1>3, <1>5, <2>2 DEF ThreadOK, MeOK, CacheOK, CacheIs
<1>8. Good(nth, sy, p, Changed(ep, u, e))
  BY <1>1, <1>3, <1>5, <1>6, <1>7, ThreadStepIsGood
<1> QED BY <1>5, <1>8 DEF me

LEMMA InformedIsGood ==
  ASSUME NEW th, NEW sy, NEW p, NEW ep, Good(th, sy, p, ep), NEW t \in Tids, NEW u \in Tids,
         th[u].global_acquire = ep[u]
  PROVE  LET y == ResetCached([me |-> Settled(Informed(th[t], u, ep[u]), t), pool |-> p])
         IN  /\ Good(Changed(th, t, y.me), sy, y.pool, ep)
             /\ y.me \in ThreadClocks /\ y.me.clk = Changed(th[t].clk, u, ep[u])
             /\ \A a \in Syncs : Vec(sy[a], y.pool) = Vec(sy[a], p)
<1> DEFINE e == ep[u]
           m1 == Informed(th[t], u, e)
           m2 == Settled(m1, t)
           y == ResetCached([me |-> m2, pool |-> p])
           me == y.me
           q == y.pool
           c == Changed(th[t].clk, u, e)
           nth == Changed(th, t, me)
<1>1. /\ th \in Threads /\ p \in Pools /\ ep \in EpochNumbers
      /\ \A v \in Tids : th[v].tid = v /\ ThreadOK(th[v], th, p, ep)
  BY DEF Good
<1>2. th[t] \in ThreadClocks /\ e \in 0..MaxEpoch /\ e \in Nat /\ ep[t] \in 0..MaxEpoch /\ th[t].clk \in Clocks
  <2>1. th[t] \in ThreadClocks
    BY <1>1 DEF Threads
  <2> QED BY <1>1, <2>1, MeFields DEF EpochNumbers
<1>3. th[t].clk[t] = ep[t] /\ MeOK(th[t]) /\ Fits(th[t].clk, th, ep)
  BY <1>1 DEF ThreadOK
<1>0. th[t].tid = t
  BY <1>1
<1> HIDE DEF e
<1>4. /\ m1 \in ThreadClocks /\ m1.tid = t /\ m1.clk = c /\ m1.nclk = Reach(th[t].nclk, u)
      /\ m1.reused = th[t].reused /\ m1.cached = th[t].cached
  <2> DEFINE him == th[t]
  <2> HIDE DEF him
  <2>1. him \in ThreadClocks /\ him.tid = t
    BY <1>0, <1>2 DEF him
  <2>2. /\ Informed(him, u, e) \in ThreadClocks
        /\ Informed(him, u, e).tid = him.tid
    BY <1>2, <2>1, InformedDoes
  <2>3. Informed(him, u, e).clk = Changed(him.clk, u, e)
    BY <1>2, <2>1, InformedDoes
  <2>4. Informed(him, u, e).nclk = Reach(him.nclk, u)
    BY <1>2, <2>1, InformedDoes
  <2>5. Informed(him, u, e).reused = him.reused /\ Informed(him, u, e).cached = him.cached
    BY <1>2, <2>1, InformedDoes, SMTT(30)
  <2> QED BY <2>1, <2>2, <2>3, <2>4, <2>5 DEF him
<1>5. c \in Clocks /\ c[u] = e /\ \A v \in Tids \ {u} : c[v] = th[t].clk[v]
  BY <1>2 DEF Changed, Clocks
<1> HIDE DEF m1, c
<1>6. c[t] = ep[t]
  BY <1>3, <1>5 DEF e
<1>7. /\ m2 \in ThreadClocks /\ m2.tid = t /\ m2.clk = c /\ m2.nclk = Reach(th[t].nclk, u)
      /\ m2.reused = th[t].reused /\ m2.last_acquire = ep[t] /\ m2.cached = th[t].cached
  BY <1>4, <1>6, SettledDoes
<1> HIDE DEF m2
<1>8. /\ Dropped(p, q, th[t].cached.tab)
      /\ me \in ThreadClocks /\ me.cached.tab = NoBlock /\ SameMe(m2, me)
  <2>1. th[t].cached.tab \in Blocks => p[th[t].cached.tab].ref # 0
    BY CachedIsHeld
  <2>2. m2.cached.tab \in Blocks => p[m2.cached.tab].ref # 0
    BY <1>7, <2>1
  <2>3. Dropped(p, q, m2.cached.tab) /\ me \in ThreadClocks /\ me.cached.tab = NoBlock /\ SameMe(m2, me)
    BY <1>1, <1>7, <2>2, ResetCachedAlone
  <2> QED BY <1>7, <2>3
<1> HIDE DEF y
<1>9. /\ me.tid = t /\ me.clk = c /\ me.nclk = Reach(th[t].nclk, u)
      /\ me.reused = th[t].reused /\ me.last_acquire = ep[t]
  BY <1>7, <1>8 DEF SameMe
<1> HIDE DEF me, q
<1>10. \A v \in Tids : th[t].clk[v] <= c[v] /\ c[v] <= ep[v]
  <2>1. ASSUME NEW v \in Tids PROVE th[t].clk[v] <= c[v] /\ c[v] <= ep[v]
    <3>1. th[t].clk[v] <= ep[v] /\ th[t].clk[v] \in Nat /\ ep[v] \in Nat
      BY <1>1, <1>2, <1>3 DEF Fits, Clocks, EpochNumbers
    <3>2. CASE v = u
      BY <1>5, <3>1, <3>2 DEF e
    <3>3. CASE v # u
      BY <1>5, <3>1, <3>3
    <3> QED BY <3>2, <3>3
  <2> QED BY <2>1
<1>11. Renewed(th, ep, t, me, ep[t])
  <2>1. ASSUME NEW vec \in Clocks, Fits(vec, th, ep) PROVE Told(me, vec)
    <3>1. vec[t] <= ep[t] /\ vec[t] \in Nat
      BY <2>1 DEF Fits, Clocks
    <3> QED BY <1>2, <1>9, <3>1 DEF Told
  <2>2. ep[t] <= ep[t]
    BY <1>2
  <2> QED BY <1>2, <1>8, <1>9, <1>10, <2>1, <2>2 DEF Renewed
<1>12. Changed(ep, t, ep[t]) = ep
  BY <1>1 DEF Changed, EpochNumbers
<1>13. nth[t] = me /\ \A v \in Tids \ {t} : nth[v] = th[v]
  BY <1>1, <1>8, CofChanged
<1> HIDE DEF nth
<1>14. Fits(me.clk, nth, ep)
  <2>1. ASSUME NEW v \in Tids PROVE Told(nth[v], c)
    <3>1. CASE v = t
      <4>1. Told(me, c)
        BY <1>2, <1>6, <1>9 DEF Told
      <4> QED BY <1>13, <3>1, <4>1
    <3>2. CASE v # t /\ v = u
      <4>1. Told(th[u], c)
        BY <1>1, <1>2, <1>5 DEF Told, e
      <4> QED BY <1>13, <3>2, <4>1
    <3>3. CASE v # t /\ v # u
      <4>1. th[v] \in ThreadClocks /\ th[v].tid = v /\ Told(th[v], th[t].clk)
        BY <1>1, <1>3 DEF Fits, Threads
      <4>2. th[t].clk[th[v].tid] = c[th[v].tid]
        BY <1>5, <3>3, <4>1
      <4>3. Told(th[v], c)
        BY <1>2, <1>5, <1>10, <4>1, <4>2, ToldMore
      <4> QED BY <1>13, <3>3, <4>3
    <3> QED BY <3>1, <3>2, <3>3
  <2> QED BY <1>9, <1>10, <2>1 DEF Fits
<1>15. MeOK(me)
  <2>1. th[t].nclk \in Nat /\ t \in Nat /\ u \in Nat
    BY <1>2, MeFields, Numbers
  <2>2. t < th[t].nclk /\ \A v \in Tids : th[t].nclk <= v => th[t].clk[v] = 0
    BY <1>1, <1>3 DEF MeOK
  <2>3. t < me.nclk
    BY <1>9, <2>1, <2>2 DEF Reach, Later
  <2>4. ASSUME NEW v \in Tids, me.nclk <= v PROVE c[v] = 0
    <3>1. v \in Nat
      BY Numbers
    <3>2. v # u /\ th[t].nclk <= v
      BY <1>9, <2>1, <2>4, <3>1 DEF Reach, Later
    <3> QED BY <1>5, <2>2, <3>2
  <2> QED BY <1>9, <2>3, <2>4 DEF MeOK
<1>16. ThreadOK(me, nth, q, ep)
  <2>1. CacheOK(me, q)
    BY <1>8 DEF CacheOK
  <2> QED BY <1>6, <1>9, <1>14, <1>15, <2>1 DEF ThreadOK
<1>17. Good(nth, sy, q, ep) /\ \A a \in Syncs : Vec(sy[a], q) = Vec(sy[a], p)
  <2>1. ThreadOK(me, Changed(th, t, me), q, Changed(ep, t, ep[t]))
    BY <1>12, <1>16 DEF nth
  <2>2. Good(Changed(th, t, me), sy, q, Changed(ep, t, ep[t])) /\ \A a \in Syncs : Vec(sy[a], q) = Vec(sy[a], p)
    BY <1>8, <1>11, <2>1, DropIsGood
  <2> QED BY <1>12, <2>2 DEF nth
<1> QED BY <1>8, <1>9, <1>17 DEF nth, c, me, q, y, m2, m1, e

--------------------------------------------------------------------------------
(* Steps *)

(* What a step of the thread t on the object s leaves: now is its clock    *)
(* when it begins, clk the one it ends with, vec the object's.             *)
Reached(th, sy, p, ep, t, s, y, now, clk, vec) ==
  /\ Good(Changed(th, t, y.me), Changed(sy, s, y.at), y.pool, ep)
  /\ y.me \in ThreadClocks /\ y.at \in SyncClocks
  /\ y.me.clk = clk /\ Vec(y.at, y.pool) = vec
  /\ y.edges = Grown(t, now, clk)
  /\ \A a \in Syncs \ {s} : Vec(sy[a], y.pool) = Vec(sy[a], p)

LEMMA ChangedTwice ==
  ASSUME NEW A, NEW B, NEW f \in [A -> B], NEW d \in A, NEW a, NEW b
  PROVE  Changed(Changed(f, d, a), d, b) = Changed(f, d, b)
BY DEF Changed

LEMMA ThreadChangedTwice ==
  ASSUME NEW th \in Threads, NEW t \in Tids, NEW a, NEW b
  PROVE  Changed(Changed(th, t, a), t, b) = Changed(th, t, b)
BY DEF Changed, Threads

LEMMA ObjectChangedTwice ==
  ASSUME NEW sy \in Objects, NEW s \in Syncs, NEW a, NEW b
  PROVE  /\ Changed(Changed(sy, s, a), s, b) = Changed(sy, s, b)
         /\ Changed(sy, s, a)[s] = a /\ \A d \in Syncs \ {s} : Changed(sy, s, a)[d] = sy[d]
<1>1. Changed(Changed(sy, s, a), s, b) = Changed(sy, s, b)
  BY ChangedTwice DEF Objects
<1>2. Changed(sy, s, a)[s] = a /\ \A d \in Syncs \ {s} : Changed(sy, s, a)[d] = sy[d]
  BY DEF Changed, Objects
<1> QED BY <1>1, <1>2

LEMMA OutcomeReached ==
  ASSUME NEW th \in Threads, NEW sy, NEW p, NEW ep, NEW t \in Tids, NEW s \in Syncs,
         NEW me \in ThreadClocks, NEW q, \A a \in Syncs : Vec(sy[a], q) = Vec(sy[a], p),
         NEW y, NEW clk, NEW vec, Outcome(Changed(th, t, me), sy, q, ep, t, s, y, clk, vec)
  PROVE  Reached(th, sy, p, ep, t, s, y, me.clk, clk, vec)
<1> DEFINE nth == Changed(th, t, me)
<1>1. nth[t] = me
  BY CofChanged
<1>2. Changed(nth, t, y.me) = Changed(th, t, y.me)
  BY ThreadChangedTwice
<1> HIDE DEF nth
<1>3. /\ Good(Changed(nth, t, y.me), Changed(sy, s, y.at), y.pool, ep)
      /\ y.me \in ThreadClocks /\ y.at \in SyncClocks
      /\ y.me.clk = clk /\ Vec(y.at, y.pool) = vec
      /\ y.edges = Grown(t, nth[t].clk, clk)
      /\ \A a \in Syncs \ {s} : Vec(sy[a], y.pool) = Vec(sy[a], q)
  BY DEF Outcome, nth
<1> QED BY <1>1, <1>2, <1>3 DEF Reached

(* The operations, from where set has set the thread's own component.      *)
LEMMA OperationReached ==
  ASSUME NEW th, NEW sy, NEW p, NEW ep, Good(th, sy, p, ep), NEW t \in Tids, NEW s \in Syncs,
         NEW e \in 0..MaxEpoch, ep[t] <= e
  PROVE  LET me == Ticked(th[t], t, e)
             nep == Changed(ep, t, e)
             x == X(me, sy[s], p, {})
             now == Changed(th[t].clk, t, e)
             vec == Vec(sy[s], p)
             both == Join(now, vec)
         IN  /\ Reached(th, sy, p, nep, t, s, Acquire(x), now, both, vec)
             /\ e # 0 => /\ Reached(th, sy, p, nep, t, s, Release(x), now, now, Join(vec, now))
                         /\ Reached(th, sy, p, nep, t, s, ReleaseStore(x), now, now, now)
                         /\ Reached(th, sy, p, nep, t, s, ReleaseStoreAcquire(x), now, both, now)
                         /\ Reached(th, sy, p, nep, t, s, AcqRel(x), now, both, both)
<1> DEFINE me == Ticked(th[t], t, e)
           nep == Changed(ep, t, e)
           nth == Changed(th, t, me)
           x == X(me, sy[s], p, {})
           now == Changed(th[t].clk, t, e)
           vec == Vec(sy[s], p)
           both == Join(now, vec)
<1>1. th \in Threads /\ th[t] \in ThreadClocks /\ ep \in EpochNumbers
  BY DEF Good, Threads
<1>2. me \in ThreadClocks /\ me.clk = now
  BY <1>1, TickedDoes
<1>3. Good(nth, sy, p, nep)
  BY TickIsGood
<1>4. nep[t] = e
  BY <1>1 DEF Changed, EpochNumbers
<1> HIDE DEF me, nep
<1>5. nth[t] = me
  BY <1>1, <1>2, CofChanged
<1> HIDE DEF nth, now, vec
<1>6. x = X(nth[t], sy[s], p, {})
  BY <1>5
<1> HIDE DEF x, both
<1>7. ASSUME NEW y, NEW clk, NEW v, Outcome(nth, sy, p, nep, t, s, y, clk, v)
      PROVE  Reached(th, sy, p, nep, t, s, y, now, clk, v)
  <2>1. \A a \in Syncs : Vec(sy[a], p) = Vec(sy[a], p)
    OBVIOUS
  <2>2. Outcome(Changed(th, t, me), sy, p, nep, t, s, y, clk, v)
    BY <1>7 DEF nth
  <2> QED BY <1>1, <1>2, <2>1, <2>2, OutcomeReached
<1>8. Reached(th, sy, p, nep, t, s, Acquire(x), now, both, vec)
  <2>1. Outcome(nth, sy, p, nep, t, s, Acquire(x), both, vec)
    BY <1>2, <1>3, <1>5, <1>6, AcquireOutcome DEF vec, both
  <2> QED BY <1>7, <2>1
<1>9. ASSUME e # 0
      PROVE  /\ Reached(th, sy, p, nep, t, s, Release(x), now, now, Join(vec, now))
             /\ Reached(th, sy, p, nep, t, s, ReleaseStore(x), now, now, now)
             /\ Reached(th, sy, p, nep, t, s, ReleaseStoreAcquire(x), now, both, now)
             /\ Reached(th, sy, p, nep, t, s, AcqRel(x), now, both, both)
  <2>1. nth[t].clk = now /\ nep[t] # 0
    BY <1>2, <1>4, <1>5, <1>9
  <2>2. /\ Outcome(nth, sy, p, nep, t, s, Release(x), now, Join(vec, now))
        /\ Outcome(nth, sy, p, nep, t, s, ReleaseStore(x), now, now)
        /\ Outcome(nth, sy, p, nep, t, s, ReleaseStoreAcquire(x), both, now)
        /\ Outcome(nth, sy, p, nep, t, s, AcqRel(x), both, both)
    BY <1>3, <1>6, <2>1, ReleaseOutcomes DEF vec, both
  <2> QED BY <1>7, <2>2
<1> QED BY <1>8, <1>9 DEF x, me, nep, now, vec, both

LEMMA StartReached ==
  ASSUME NEW th, NEW sy, NEW p, NEW ep, Good(th, sy, p, ep), NEW t \in Tids, NEW s \in Syncs,
         NEW e \in 0..MaxEpoch, ep[t] <= e, th[t].reused < MaxReuse
  PROVE  LET fresh == Ticked(NewThreadClock(t, th[t].reused + 1), t, e)
             q == ResetCached([me |-> th[t], pool |-> p]).pool
             now == Changed(AllZero, t, e)
         IN  Reached(th, sy, p, Changed(ep, t, e), t, s, ResetSync(Acquire(X(fresh, sy[s], q, {}))),
                     now, Join(now, Vec(sy[s], p)), AllZero)
<1> DEFINE fresh == Ticked(NewThreadClock(t, th[t].reused + 1), t, e)
           q == ResetCached([me |-> th[t], pool |-> p]).pool
           now == Changed(AllZero, t, e)
           nep == Changed(ep, t, e)
           th1 == Changed(th, t, fresh)
           x == X(fresh, sy[s], q, {})
           y == Acquire(x)
           th2 == Changed(th1, t, y.me)
           sy2 == Changed(sy, s, y.at)
           z == X(y.me, EmptySync, Emptied(y.at, y.pool), {})
           w == ResetSync(y)
           clk == Join(now, Vec(sy[s], p))
<1>1. th \in Threads /\ sy \in Objects
  BY DEF Good
<1>2. /\ Good(th1, sy, q, nep) /\ fresh \in ThreadClocks /\ fresh.clk = now
      /\ \A a \in Syncs : Vec(sy[a], q) = Vec(sy[a], p)
  BY FreshIsGood
<1> HIDE DEF fresh, q, now, nep
<1>3. th1 \in Threads /\ th1[t] = fresh
  BY <1>1, <1>2, CofChanged
<1> HIDE DEF th1
<1>4. Outcome(th1, sy, q, nep, t, s, y, clk, Vec(sy[s], q))
  <2>1. x = X(th1[t], sy[s], q, {})
    BY <1>3
  <2>2. clk = Join(th1[t].clk, Vec(sy[s], q))
    BY <1>2, <1>3
  <2> HIDE DEF x, clk
  <2> QED BY <1>2, <2>1, <2>2, AcquireOutcome
<1> HIDE DEF x, clk, y
<1>5. /\ Good(th2, sy2, y.pool, nep)
      /\ y \in Xs /\ y.me \in ThreadClocks /\ y.at \in SyncClocks /\ y.me.clk = clk
      /\ y.edges = Grown(t, now, clk)
      /\ \A a \in Syncs \ {s} : Vec(sy[a], y.pool) = Vec(sy[a], p)
  BY <1>2, <1>3, <1>4 DEF Outcome
<1>6. th2[t] = y.me /\ \A m : Changed(th2, t, m) = Changed(th, t, m)
  <2>1. th2 = Changed(th, t, y.me)
    BY <1>1, ThreadChangedTwice DEF th1
  <2> HIDE DEF th2
  <2>2. \A m : Changed(th2, t, m) = Changed(th, t, m)
    BY <1>1, <2>1, ThreadChangedTwice
  <2> QED BY <1>1, <1>5, <2>1, <2>2, CofChanged
<1>7. /\ sy2[s] = y.at /\ \A d \in Syncs \ {s} : sy2[d] = sy[d]
      /\ \A m : Changed(sy2, s, m) = Changed(sy, s, m)
  BY <1>1, ObjectChangedTwice
<1> HIDE DEF th2, sy2
<1>8. Outcome(th2, sy2, y.pool, nep, t, s, z, clk, AllZero)
  <2>1. z = X(th2[t], EmptySync, Emptied(sy2[s], y.pool), {})
    BY <1>6, <1>7
  <2>2. clk = th2[t].clk
    BY <1>5, <1>6
  <2> HIDE DEF z
  <2> QED BY <1>5, <2>1, <2>2, ResetOutcome
<1>9. /\ z.me = y.me /\ z.at = EmptySync /\ z.pool = Emptied(y.at, y.pool)
      /\ w.me = z.me /\ w.at = z.at /\ w.pool = z.pool /\ w.edges = y.edges
  <2>1. w = X(y.me, EmptySync, Emptied(y.at, y.pool), y.edges)
    BY <1>5, ResetSyncIs
  <2> HIDE DEF w
  <2> QED BY <2>1 DEF X
<1> HIDE DEF z, w
<1>10. /\ Good(Changed(th2, t, z.me), Changed(sy2, s, z.at), z.pool, nep)
       /\ z.me \in ThreadClocks /\ z.at \in SyncClocks
       /\ z.me.clk = clk /\ Vec(z.at, z.pool) = AllZero
       /\ \A a \in Syncs \ {s} : Vec(sy2[a], z.pool) = Vec(sy2[a], y.pool)
  BY <1>8 DEF Outcome
<1>11. Good(Changed(th, t, w.me), Changed(sy, s, w.at), w.pool, nep)
  BY <1>6, <1>7, <1>9, <1>10
<1>12. \A a \in Syncs \ {s} : Vec(sy[a], w.pool) = Vec(sy[a], p)
  BY <1>5, <1>7, <1>9, <1>10
<1>13. Reached(th, sy, p, nep, t, s, w, now, clk, AllZero)
  BY <1>5, <1>9, <1>10, <1>11, <1>12 DEF Reached
<1> QED BY <1>13 DEF w, y, x, fresh, q, now, nep, clk

--------------------------------------------------------------------------------
(* The specification *)

(* The inductive invariant.                                                *)
IInv == Good(thr, syn, pool, epoch)

LEMMA InitIsGood == Init => IInv
<1> SUFFICES ASSUME Init PROVE IInv
  OBVIOUS
<1>1. /\ thr = [t \in Tids |-> NewThreadClock(t, 1)] /\ syn = [s \in Syncs |-> EmptySync]
      /\ pool = [b \in Blocks |-> FreeBlock] /\ epoch = AllZero
  BY DEF Init
<1>2. ASSUME NEW t \in Tids
      PROVE  /\ thr[t] \in ThreadClocks /\ thr[t].tid = t /\ thr[t].clk = AllZero /\ thr[t].nclk = t + 1
             /\ thr[t].cached.tab = NoBlock
  <2>1. thr[t] = NewThreadClock(t, 1)
    BY <1>1
  <2>2. 1 \in 1..MaxReuse
    OBVIOUS
  <2> QED BY <2>1, <2>2, NewThreadClockDoes
<1>3. thr \in Threads
  <2>1. thr = [t \in Tids |-> thr[t]]
    BY <1>1
  <2> QED BY <1>2, <2>1 DEF Threads
<1>4. syn \in Objects /\ \A s \in Syncs : syn[s] = EmptySync
  BY <1>1, EmptySyncDoes DEF Objects
<1>5. pool \in Pools /\ \A b \in Blocks : pool[b] = FreeBlock
  BY <1>1, Zeros DEF Pools
<1>6. epoch \in EpochNumbers
  <2>1. MaxEpoch \in Nat /\ 0 \in 0..MaxEpoch
    OBVIOUS
  <2> QED BY <1>1, <2>1 DEF AllZero, EpochNumbers
<1>7. Fits(AllZero, thr, epoch)
  BY <1>3, <1>6, FitsZero
<1>8. Counted(thr, syn, pool)
  <2>1. ASSUME NEW b \in Blocks
        PROVE  pool[b].ref = Holding(Syncs, TabsOf(syn), b) + Holding(Tids, CachesOf(thr), b)
    <3>1. NoBlock # b
      BY Numbers
    <3>2. b \notin {TabsOf(syn)[a] : a \in Syncs}
      BY <1>4, <3>1, EmptySyncDoes DEF TabsOf
    <3>3. b \notin {CachesOf(thr)[a] : a \in Tids}
      BY <1>2, <3>1 DEF CachesOf
    <3>4. Holding(Syncs, TabsOf(syn), b) = 0 /\ Holding(Tids, CachesOf(thr), b) = 0
      BY <3>2, <3>3, HoldingNone
    <3>5. pool[b].ref = 0
      BY <1>5, Zeros
    <3> QED BY <3>4, <3>5
  <2> QED BY <2>1 DEF Counted
<1>9. ASSUME NEW s \in Syncs PROVE SyncOK(syn[s], thr, pool, epoch)
  <2>1. AtOK(syn[s], pool) /\ syn[s].size = 0 /\ syn[s].release_store = NoStore /\ syn[s] \in SyncClocks
    BY <1>4, EmptySyncDoes
  <2>2. Vec(syn[s], pool) = AllZero
    BY <1>5, <2>1, VecFacts
  <2>3. StoreOK(syn[s], Vec(syn[s], pool), Cof(thr), Rof(thr))
    BY <2>1, Zeros DEF StoreOK
  <2> QED BY <1>7, <2>1, <2>2, <2>3 DEF SyncOK
<1>10. ASSUME NEW t \in Tids PROVE ThreadOK(thr[t], thr, pool, epoch)
  <2>1. MeOK(thr[t])
    BY <1>2, Zeros, Numbers DEF MeOK
  <2>2. CacheOK(thr[t], pool)
    BY <1>2 DEF CacheOK
  <2>3. thr[t].clk[thr[t].tid] = epoch[thr[t].tid]
    BY <1>1, <1>2
  <2> QED BY <1>2, <1>7, <2>1, <2>2, <2>3 DEF ThreadOK
<1>11. FlagsOK(pool, Cof(thr), Rof(thr))
  <2>1. Rof(thr) \in [Tids -> 1..MaxReuse]
    BY <1>3, CofDoes
  <2>2. ASSUME NEW b \in Blocks PROVE FlagOK(pool[b].epoch, pool[b].reused, Cof(thr), Rof(thr))
    BY <1>5, <2>1, Zeros, NoFlags
  <2> QED BY <2>2 DEF FlagsOK
<1> QED BY <1>2, <1>3, <1>4, <1>5, <1>6, <1>8, <1>9, <1>10, <1>11 DEF Good, IInv

(* A step of the thread t on the object s, which takes their clocks to clk *)
(* and vec.                                                                *)
Step(t, s, e, now, clk, vec) ==
  \E y : /\ Reached(thr, syn, pool, Changed(epoch, t, e), t, s, y, now, clk, vec)
         /\ thr' = Changed(thr, t, y.me) /\ syn' = Changed(syn, s, y.at) /\ pool' = y.pool
         /\ edges' = y.edges /\ epoch' = Changed(epoch, t, e)

Heard(t, e) == Changed(thr[t].clk, t, e)
ClockAt(s) == Vec(syn[s], pool)

LEMMA OperandsAre ==
  ASSUME NEW t \in Tids, NEW s, NEW e
  PROVE  Operands(t, s, e) = X(Ticked(thr[t], t, e), syn[s], pool, {})
BY DEF Operands, X, Ticked

LEMMA ApplyIs ==
  ASSUME NEW t, NEW s, NEW e, NEW y, Apply(t, s, e, y), NEW now, NEW clk, NEW vec,
         Reached(thr, syn, pool, Changed(epoch, t, e), t, s, y, now, clk, vec)
  PROVE  Step(t, s, e, now, clk, vec)
<1>1. /\ thr' = Changed(thr, t, y.me) /\ syn' = Changed(syn, s, y.at) /\ pool' = y.pool
      /\ edges' = y.edges /\ epoch' = Changed(epoch, t, e)
  BY DEF Apply, Changed
<1> QED BY <1>1 DEF Step

LEMMA AcquireSteps ==
  ASSUME IInv, NEW t \in Tids, NEW s \in Syncs, AcquireImpl(t, s)
  PROVE  \E e \in {epoch[t], epoch[t] + 1} :
           Step(t, s, e, Heard(t, e), Join(Heard(t, e), ClockAt(s)), ClockAt(s))
<1>1. epoch \in EpochNumbers
  BY DEF IInv, Good
<1>2. PICK e \in {epoch[t], epoch[t] + 1} :
         Apply(t, s, e, Acquire(Operands(t, s, e))) /\ (e # epoch[t] => epoch[t] < MaxEpoch)
  BY DEF AcquireImpl, IncrementEpoch, Advanced, MayAdvance
<1>3. e \in 0..MaxEpoch /\ epoch[t] <= e
  <2>1. epoch[t] \in 0..MaxEpoch /\ MaxEpoch \in Nat
    BY <1>1 DEF EpochNumbers
  <2> QED BY <1>2, <2>1
<1> DEFINE x == X(Ticked(thr[t], t, e), syn[s], pool, {})
<1>4. Apply(t, s, e, Acquire(x))
  BY <1>2, OperandsAre
<1>5. Reached(thr, syn, pool, Changed(epoch, t, e), t, s, Acquire(x), Heard(t, e), Join(Heard(t, e), ClockAt(s)), ClockAt(s))
  BY <1>3, OperationReached DEF IInv, Heard, ClockAt
<1> HIDE DEF x
<1> QED BY <1>4, <1>5, ApplyIs

LEMMA ReleasesStep ==
  ASSUME IInv, NEW t \in Tids, NEW s \in Syncs
  PROVE  LET e == epoch[t] + 1
             now == Heard(t, e)
             vec == ClockAt(s)
             both == Join(now, vec)
         IN  /\ ReleaseImpl(t, s) => Step(t, s, e, now, now, Join(vec, now))
             /\ ReleaseStoreImpl(t, s) => Step(t, s, e, now, now, now)
             /\ ReleaseStoreAcquireImpl(t, s) => Step(t, s, e, now, both, now)
             /\ AcquireReleaseImpl(t, s) => Step(t, s, e, now, both, both)
<1> DEFINE e == epoch[t] + 1
           now == Heard(t, e)
           vec == ClockAt(s)
           both == Join(now, vec)
           x == X(Ticked(thr[t], t, e), syn[s], pool, {})
<1>1. epoch[t] \in 0..MaxEpoch /\ MaxEpoch \in Nat
  BY DEF IInv, Good, EpochNumbers
<1>2. Advanced(t, s) = x
  BY OperandsAre DEF Advanced
<1>3. ASSUME MayAdvance(t)
      PROVE  /\ Reached(thr, syn, pool, Changed(epoch, t, e), t, s, Release(x), now, now, Join(vec, now))
             /\ Reached(thr, syn, pool, Changed(epoch, t, e), t, s, ReleaseStore(x), now, now, now)
             /\ Reached(thr, syn, pool, Changed(epoch, t, e), t, s, ReleaseStoreAcquire(x), now, both, now)
             /\ Reached(thr, syn, pool, Changed(epoch, t, e), t, s, AcqRel(x), now, both, both)
  <2>1. e \in 0..MaxEpoch /\ epoch[t] <= e /\ e # 0
    <3>1. epoch[t] < MaxEpoch
      BY <1>3 DEF MayAdvance
    <3> QED BY <1>1, <3>1
  <2> HIDE DEF e
  <2> QED BY <2>1, OperationReached DEF IInv, Heard, ClockAt
<1>4. \A y : IncrementEpoch(t, s, y) => MayAdvance(t) /\ Apply(t, s, e, y)
  BY DEF IncrementEpoch
<1> HIDE DEF e, now, vec, both, x
<1>5. ReleaseImpl(t, s) => Step(t, s, e, now, now, Join(vec, now))
  BY <1>2, <1>3, <1>4, ApplyIs DEF ReleaseImpl
<1>6. ReleaseStoreImpl(t, s) => Step(t, s, e, now, now, now)
  BY <1>2, <1>3, <1>4, ApplyIs DEF ReleaseStoreImpl
<1>7. ReleaseStoreAcquireImpl(t, s) => Step(t, s, e, now, both, now)
  BY <1>2, <1>3, <1>4, ApplyIs DEF ReleaseStoreAcquireImpl
<1>8. AcquireReleaseImpl(t, s) => Step(t, s, e, now, both, both)
  BY <1>2, <1>3, <1>4, ApplyIs DEF AcquireReleaseImpl
<1> QED BY <1>5, <1>6, <1>7, <1>8 DEF e, now, vec, both

LEMMA StartSteps ==
  ASSUME IInv, NEW t \in Tids, NEW s \in Syncs, OnStarted(t, s)
  PROVE  LET e == epoch[t] + 1
             now == Changed(AllZero, t, e)
         IN  Step(t, s, e, now, Join(now, ClockAt(s)), AllZero)
<1> DEFINE e == epoch[t] + 1
           now == Changed(AllZero, t, e)
           fresh == Ticked(NewThreadClock(t, thr[t].reused + 1), t, e)
           q == ResetCached([me |-> thr[t], pool |-> pool]).pool
           y == ResetSync(Acquire(X(fresh, syn[s], q, {})))
           clk == Join(now, ClockAt(s))
<1>1. epoch[t] \in 0..MaxEpoch /\ MaxEpoch \in Nat /\ epoch \in EpochNumbers
  BY DEF IInv, Good, EpochNumbers
<1>2. thr[t].reused < MaxReuse /\ epoch[t] < MaxEpoch
  BY DEF OnStarted, MayAdvance
<1>3. e \in 0..MaxEpoch /\ epoch[t] <= e
  BY <1>1, <1>2
<1>4. /\ thr' = Changed(thr, t, y.me) /\ syn' = Changed(syn, s, y.at) /\ pool' = y.pool
      /\ edges' = y.edges /\ epoch' = Changed(epoch, t, e)
  BY DEF OnStarted, X, Ticked, Changed
<1> HIDE DEF e
<1>5. Reached(thr, syn, pool, Changed(epoch, t, e), t, s, y, now, clk, AllZero)
  BY <1>2, <1>3, StartReached DEF IInv, ClockAt
<1> HIDE DEF y, now, clk
<1>6. Step(t, s, e, now, clk, AllZero)
  BY <1>4, <1>5 DEF Step
<1> QED BY <1>6 DEF e, now, clk

(* The clocks of all objects. *)
Sof(sy, p) == [a \in Syncs |-> Vec(sy[a], p)]

LEMMA StepDoes ==
  ASSUME IInv, NEW t \in Tids, NEW s \in Syncs, NEW e, NEW now, NEW clk, NEW vec,
         Step(t, s, e, now, clk, vec)
  PROVE  /\ IInv'
         /\ Cof(thr') = Changed(Cof(thr), t, clk)
         /\ Sof(syn', pool') = Changed(Sof(syn, pool), s, vec)
         /\ edges' = Grown(t, now, clk)
         /\ epoch' = Changed(epoch, t, e)
<1>1. PICK y : /\ Reached(thr, syn, pool, Changed(epoch, t, e), t, s, y, now, clk, vec)
               /\ thr' = Changed(thr, t, y.me) /\ syn' = Changed(syn, s, y.at) /\ pool' = y.pool
               /\ edges' = y.edges /\ epoch' = Changed(epoch, t, e)
  BY DEF Step
<1>2. thr \in Threads /\ syn \in Objects
  BY DEF IInv, Good
<1>3. /\ Good(thr', syn', pool', epoch')
      /\ y.me \in ThreadClocks /\ y.me.clk = clk /\ Vec(y.at, pool') = vec
      /\ edges' = Grown(t, now, clk)
      /\ \A a \in Syncs \ {s} : Vec(syn[a], pool') = Vec(syn[a], pool)
  BY <1>1 DEF Reached
<1>4. Cof(thr') = Changed(Cof(thr), t, clk)
  BY <1>1, <1>2, <1>3, CofChanged
<1>5. syn'[s] = y.at /\ \A a \in Syncs \ {s} : syn'[a] = syn[a]
  BY <1>1, <1>2, ObjectChangedTwice
<1>6. Sof(syn', pool') = Changed(Sof(syn, pool), s, vec)
  <2>1. \A a \in Syncs : Vec(syn'[a], pool') = (IF a = s THEN vec ELSE Vec(syn[a], pool))
    BY <1>3, <1>5
  <2> QED BY <2>1 DEF Sof, Changed
<1>7. IInv'
  BY <1>3 DEF IInv
<1> QED BY <1>1, <1>3, <1>4, <1>6, <1>7

(* Reset *)
LEMMA ResetDoes ==
  ASSUME IInv, NEW s \in Syncs, Reset(s)
  PROVE  /\ IInv'
         /\ Cof(thr') = Cof(thr)
         /\ Sof(syn', pool') = Changed(Sof(syn, pool), s, AllZero)
         /\ edges' = {} /\ epoch' = epoch
<1> DEFINE q == Emptied(syn[s], pool)
           z == X(thr[0], EmptySync, q, {})
<1>1. /\ syn' = Changed(syn, s, EmptySync) /\ pool' = q
      /\ edges' = {} /\ thr' = thr /\ epoch' = epoch
  <2>1. LET y == ResetSync([at |-> syn[s], pool |-> pool])
        IN  y.at = EmptySync /\ y.pool = q
    BY ResetSyncAlone
  <2>2. LET y == ResetSync([at |-> syn[s], pool |-> pool])
        IN  /\ syn' = [syn EXCEPT ![s] = y.at] /\ pool' = y.pool
            /\ edges' = {} /\ thr' = thr /\ epoch' = epoch
    BY DEF Reset
  <2> HIDE DEF q
  <2> QED BY <2>1, <2>2 DEF Changed
<1>2. thr \in Threads /\ syn \in Objects
  BY DEF IInv, Good
<1>3. 0 \in Tids
  BY DEF Tids
<1>4. Changed(thr, 0, thr[0]) = thr
  BY <1>2, <1>3 DEF Changed, Threads
<1>5. z.me = thr[0] /\ z.at = EmptySync /\ z.pool = q
  BY DEF X
<1>6. Outcome(thr, syn, pool, epoch, 0, s, z, thr[0].clk, AllZero)
  BY <1>3, ResetOutcome DEF IInv
<1> HIDE DEF z, q
<1>7. /\ Good(thr, syn', pool', epoch) /\ Vec(EmptySync, pool') = AllZero
      /\ \A a \in Syncs \ {s} : Vec(syn[a], pool') = Vec(syn[a], pool)
  BY <1>1, <1>4, <1>5, <1>6 DEF Outcome
<1>8. syn'[s] = EmptySync /\ \A a \in Syncs \ {s} : syn'[a] = syn[a]
  BY <1>1, <1>2 DEF Changed, Objects
<1>9. Sof(syn', pool') = Changed(Sof(syn, pool), s, AllZero)
  <2>1. \A a \in Syncs : Vec(syn'[a], pool') = (IF a = s THEN AllZero ELSE Vec(syn[a], pool))
    BY <1>7, <1>8
  <2> QED BY <2>1 DEF Sof, Changed
<1>10. IInv'
  BY <1>1, <1>7 DEF IInv
<1> QED BY <1>1, <1>9, <1>10

(* AcquireGlobal *)
LEMMA CallbackDoes ==
  ASSUME IInv, NEW t \in Tids, NEW u \in Tids, UpdateClockCallback(t, u)
  PROVE  /\ IInv'
         /\ Cof(thr') = Changed(Cof(thr), t, Changed(thr[t].clk, u, epoch[u]))
         /\ Sof(syn', pool') = Sof(syn, pool)
         /\ edges' = (IF u = t \/ thr[t].clk[u] = epoch[u] THEN {}
                      ELSE {<<u, epoch[u], t, thr[t].clk[t]>>})
         /\ epoch' = epoch
<1> DEFINE me == EpochNoted(thr[u], epoch[u])
           nth == Changed(thr, u, me)
           y == ResetCached([me |-> Settled(Informed(nth[t], u, epoch[u]), t), pool |-> pool])
           c == Changed(thr[t].clk, u, epoch[u])
<1>1. thr \in Threads /\ thr[u] \in ThreadClocks /\ epoch[u] \in Nat
  BY DEF IInv, Good, Threads, EpochNumbers
<1>2. /\ thr' = Changed(nth, t, y.me) /\ pool' = y.pool /\ syn' = syn /\ epoch' = epoch
      /\ edges' = (IF u = t \/ thr[t].clk[u] = epoch[u] THEN {}
                   ELSE {<<u, epoch[u], t, thr[t].clk[t]>>})
  <2>1. nth = [thr EXCEPT ![u].global_acquire = epoch[u]]
    BY DEF Changed, EpochNoted
  <2> HIDE DEF nth
  <2> QED BY <2>1 DEF UpdateClockCallback, Settled, Informed, Changed
<1>3. Good(nth, syn, pool, epoch)
  BY NotedIsGood DEF IInv
<1>4. me \in ThreadClocks /\ me.global_acquire = epoch[u] /\ me.clk = thr[u].clk
  BY <1>1, EpochNotedDoes
<1> HIDE DEF me
<1>5. nth \in Threads /\ nth[u] = me /\ Cof(nth) = Changed(Cof(thr), u, me.clk)
  BY <1>1, <1>4, CofChanged
<1>6. Cof(nth) = Cof(thr)
  <2>1. Changed(Cof(thr), u, thr[u].clk) = Cof(thr)
    BY DEF Changed, Cof
  <2> QED BY <1>4, <1>5, <2>1
<1>7. nth[t].clk = thr[t].clk
  <2>1. Cof(nth)[t] = nth[t].clk /\ Cof(thr)[t] = thr[t].clk
    BY DEF Cof
  <2> QED BY <1>6, <2>1
<1>8. nth[u].global_acquire = epoch[u]
  BY <1>4, <1>5
<1> HIDE DEF nth
<1>9. /\ Good(Changed(nth, t, y.me), syn, y.pool, epoch)
      /\ y.me \in ThreadClocks /\ y.me.clk = Changed(nth[t].clk, u, epoch[u])
      /\ \A a \in Syncs : Vec(syn[a], y.pool) = Vec(syn[a], pool)
  BY <1>3, <1>8, InformedIsGood
<1> HIDE DEF y
<1>10. Cof(thr') = Changed(Cof(thr), t, c)
  <2>1. Cof(Changed(nth, t, y.me)) = Changed(Cof(nth), t, y.me.clk)
    BY <1>5, <1>9, CofChanged
  <2> QED BY <1>2, <1>6, <1>7, <1>9, <2>1
<1>11. Sof(syn', pool') = Sof(syn, pool)
  BY <1>2, <1>9 DEF Sof
<1>12. IInv'
  BY <1>2, <1>9 DEF IInv
<1> QED BY <1>2, <1>10, <1>11, <1>12

LEMMA NextIsGood == IInv /\ [Next]_vars => IInv'
<1> SUFFICES ASSUME IInv, [Next]_vars PROVE IInv'
  OBVIOUS
<1>1. ASSUME NEW t \in Tids, NEW s \in Syncs, AcquireImpl(t, s) PROVE IInv'
  <2>1. PICK e : Step(t, s, e, Heard(t, e), Join(Heard(t, e), ClockAt(s)), ClockAt(s))
    BY <1>1, AcquireSteps
  <2> QED BY <2>1, StepDoes
<1>2. ASSUME NEW t \in Tids, NEW s \in Syncs,
             ReleaseImpl(t, s) \/ ReleaseStoreImpl(t, s) \/ ReleaseStoreAcquireImpl(t, s) \/ AcquireReleaseImpl(t, s)
      PROVE  IInv'
  <2>1. \E e, now, clk, vec : Step(t, s, e, now, clk, vec)
    BY <1>2, ReleasesStep
  <2> QED BY <2>1, StepDoes
<1>3. ASSUME NEW t \in Tids, NEW s \in Syncs, OnStarted(t, s) PROVE IInv'
  <2>1. \E e, now, clk, vec : Step(t, s, e, now, clk, vec)
    BY <1>3, StartSteps
  <2> QED BY <2>1, StepDoes
<1>4. ASSUME NEW t \in JavaTids, NEW u \in Tids, UpdateClockCallback(t, u) PROVE IInv'
  <2>1. t \in Tids
    BY DEF Tids
  <2> QED BY <1>4, <2>1, CallbackDoes
<1>5. ASSUME NEW s \in Syncs, Reset(s) PROVE IInv'
  BY <1>5, ResetDoes
<1>6. CASE UNCHANGED vars
  BY <1>6 DEF vars, IInv
<1> QED BY <1>1, <1>2, <1>3, <1>4, <1>5, <1>6 DEF Next

(* Every reachable state has the inductive invariant: the flags, the dirty *)
(* entries, the last release-stores, the cached tables and the reference   *)
(* counts of tsan_clock.cpp agree with one another.                        *)
THEOREM Invariance == Spec => []IInv
BY InitIsGood, NextIsGood, PTL DEF Spec

LEMMA GoodIsTyped == IInv => TypeOK
<1> SUFFICES ASSUME IInv PROVE TypeOK
  OBVIOUS
<1>1. /\ thr \in Threads /\ syn \in Objects /\ pool \in Pools /\ epoch \in EpochNumbers
      /\ \A s \in Syncs : AtOK(syn[s], pool)
  BY DEF IInv, Good, SyncOK
<1>2. ASSUME NEW s \in Syncs
      PROVE  /\ (syn[s].size = 0) <=> (syn[s].tab = NoBlock)
             /\ \A u \in DirtyTids(syn[s]) : u < syn[s].size
             /\ \A i, j \in DirtySlots : syn[s].dirty[i].tid = syn[s].dirty[j].tid /\ i # j
                                           => syn[s].dirty[i].tid = NoTid
  <2>1. syn[s] \in SyncClocks /\ SlotsOK(syn[s].dirty) /\ TableOK(syn[s], pool[syn[s].tab].epoch)
    BY <1>1 DEF Objects, AtOK
  <2>2. \A u \in DirtyTids(syn[s]) : u < syn[s].size
    <3>1. CASE syn[s].size = 0
      BY <2>1, <3>1, EmptyVec
    <3>2. CASE syn[s].size # 0
      <4>1. pool[syn[s].tab].epoch \in Clocks
        BY <1>1, <2>1, <3>2, VecFacts
      <4> QED BY <2>1, <3>2, <4>1, TableIsEarlier
    <3> QED BY <3>1, <3>2
  <2>3. (syn[s].size = 0) <=> (syn[s].tab = NoBlock)
    BY <1>1 DEF AtOK
  <2> QED BY <2>1, <2>2, <2>3 DEF SlotsOK
<1> QED BY <1>1, <1>2 DEF TypeOK, Threads, Objects, Pools, EpochNumbers

(* The states are of their types, and the CHECKs of FlushDirty and of      *)
(* ResetImpl's callers never fail: an object has a table exactly if it has *)
(* a size, and its dirty entries are of different threads in the table.    *)
THEOREM TypeCorrect == Spec => []TypeOK
BY Invariance, GoodIsTyped, PTL

(* UnrefClockBlock, Unshare and the cached tables: the count of a block is *)
(* the number of objects and threads that hold it, so that no table is     *)
(* freed under a holder and none leaks.                                    *)
THEOREM ReferencesAlwaysCounted == Spec => []ReferencesCounted
<1>1. IInv => ReferencesCounted
  BY DEF IInv, Good, Counted, ReferencesCounted, Holding, TabsOf, CachesOf
<1> QED BY <1>1, Invariance, PTL

LEMMA ClockOfIs == ASSUME NEW s \in Syncs PROVE ClockOf(s) = Vec(syn[s], pool)
BY DEF ClockOf, Vec, VecOf

(* ThreadClock::acquire: whatever a thread has acquired before, its flags, *)
(* the dirty entries and the size of the table make it skip no epoch it    *)
(* does not know.                                                          *)
THEOREM AcquiresMissNothing == Spec => []AcquireMissesNothing
<1>1. IInv => AcquireMissesNothing
  <2> SUFFICES ASSUME IInv, NEW t \in Tids, NEW s \in Syncs
               PROVE  Acquire(Operands(t, s, epoch[t])).me.clk
                        = [u \in Tids |-> Later(Operands(t, s, epoch[t]).me.clk[u], ClockOf(s)[u])]
    BY DEF AcquireMissesNothing
  <2> DEFINE e == epoch[t]
             x == X(Ticked(thr[t], t, e), syn[s], pool, {})
             now == Changed(thr[t].clk, t, e)
  <2>1. Operands(t, s, epoch[t]) = x /\ x.me = Ticked(thr[t], t, e)
    BY OperandsAre DEF X
  <2>2. e \in 0..MaxEpoch /\ epoch[t] <= e /\ e \in Nat
    BY DEF IInv, Good, EpochNumbers
  <2>3. Ticked(thr[t], t, e).clk = now
    <3>1. thr[t] \in ThreadClocks
      BY DEF IInv, Good, Threads
    <3> HIDE DEF e
    <3> QED BY <2>2, <3>1, TickedDoes
  <2> HIDE DEF e
  <2>4. Acquire(x).me.clk = Join(now, Vec(syn[s], pool))
    <3>1. Reached(thr, syn, pool, Changed(epoch, t, e), t, s, Acquire(x), now, Join(now, Vec(syn[s], pool)), Vec(syn[s], pool))
      BY <2>2, OperationReached DEF IInv
    <3> HIDE DEF x, now
    <3> QED BY <3>1 DEF Reached
  <2> HIDE DEF x, now
  <2> QED BY <2>1, <2>3, <2>4, ClockOfIs DEF Join
<1> QED BY <1>1, Invariance, PTL

--------------------------------------------------------------------------------
(* The simple model *)

LEMMA SimpleIs ==
  /\ Simple!Tids = Tids /\ Simple!Nothing = AllZero
  /\ \A c, d : Simple!Join(c, d) = Join(c, d)
  /\ \A t, c, d : Simple!Edges(t, c, d) = Grown(t, c, d)
  /\ [t \in Tids |-> thr[t].clk] = Cof(thr)
  /\ [s \in Syncs |-> ClockOf(s)] = Sof(syn, pool)
<1>1. Simple!Tids = Tids
  BY DEF Simple!Tids, Tids
<1>2. Simple!Nothing = AllZero
  BY <1>1 DEF Simple!Nothing, AllZero
<1>3. \A c, d : Simple!Join(c, d) = Join(c, d)
  BY <1>1 DEF Simple!Join, Simple!Later, Join, Later
<1>4. \A t, c, d : Simple!Edges(t, c, d) = Grown(t, c, d)
  BY <1>1 DEF Simple!Edges, Grown
<1>5. [s \in Syncs |-> ClockOf(s)] = Sof(syn, pool)
  BY ClockOfIs DEF Sof
<1> QED BY <1>1, <1>2, <1>3, <1>4, <1>5 DEF Cof

(* The clocks of the threads and the objects, before and after.            *)
LEMMA ClocksAre ==
  /\ \A t \in Tids : [r \in Tids |-> thr[r].clk][t] = thr[t].clk
  /\ \A s \in Syncs : [a \in Syncs |-> ClockOf(a)][s] = ClockAt(s)
BY ClockOfIs DEF ClockAt

LEMMA ClocksChange ==
  /\ [t \in Tids |-> thr[t].clk]' = Cof(thr')
  /\ [s \in Syncs |-> ClockOf(s)]' = Sof(syn', pool')
<1>1. \A s \in Syncs : ClockOf(s)' = Vec(syn'[s], pool')
  BY DEF ClockOf, Vec, VecOf
<1> QED BY <1>1 DEF Cof, Sof

(* What a step is to the simple model.                                     *)
LEMMA StepIsSimple ==
  ASSUME IInv, NEW t \in Tids, NEW s \in Syncs, NEW e, NEW now, NEW clk, NEW vec,
         Step(t, s, e, now, clk, vec)
  PROVE  /\ [r \in Tids |-> thr[r].clk]' = [[r \in Tids |-> thr[r].clk] EXCEPT ![t] = clk]
         /\ [r \in Tids |-> thr[r].clk]'[t] = clk
         /\ [a \in Syncs |-> ClockOf(a)]' = [[a \in Syncs |-> ClockOf(a)] EXCEPT ![s] = vec]
         /\ edges' = Simple!Edges(t, now, clk)
         /\ epoch' = [epoch EXCEPT ![t] = e] /\ epoch'[t] = e
         /\ Simple!At(t) = Heard(t, e)
<1>1. /\ Cof(thr') = Changed(Cof(thr), t, clk)
      /\ Sof(syn', pool') = Changed(Sof(syn, pool), s, vec)
      /\ edges' = Grown(t, now, clk)
      /\ epoch' = Changed(epoch, t, e)
  BY StepDoes
<1>2. [r \in Tids |-> thr[r].clk]' = [[r \in Tids |-> thr[r].clk] EXCEPT ![t] = clk]
  BY <1>1, SimpleIs, ClocksChange DEF Changed
<1>3. [r \in Tids |-> thr[r].clk]'[t] = clk
  <2>1. Changed(Cof(thr), t, clk)[t] = clk
    BY DEF Changed, Cof
  <2> QED BY <1>1, <2>1, ClocksChange
<1>4. [a \in Syncs |-> ClockOf(a)]' = [[a \in Syncs |-> ClockOf(a)] EXCEPT ![s] = vec]
  BY <1>1, SimpleIs, ClocksChange DEF Changed
<1>5. edges' = Simple!Edges(t, now, clk)
  BY <1>1, SimpleIs
<1>6. epoch' = [epoch EXCEPT ![t] = e]
  BY <1>1 DEF Changed
<1>7. epoch'[t] = e
  BY <1>6 DEF IInv, Good, EpochNumbers
<1>8. Simple!At(t) = Heard(t, e)
  BY <1>7, ClocksAre DEF Simple!At, Heard, Changed
<1> QED BY <1>2, <1>3, <1>4, <1>5, <1>6, <1>7, <1>8

LEMMA AcquireIsSimple ==
  ASSUME IInv, NEW t \in Tids, NEW s \in Syncs, AcquireImpl(t, s)
  PROVE  Simple!Acquire(t, s)
<1>1. PICK e \in {epoch[t], epoch[t] + 1} :
         Step(t, s, e, Heard(t, e), Join(Heard(t, e), ClockAt(s)), ClockAt(s))
  BY AcquireSteps
<1> DEFINE now == Heard(t, e)
           both == Join(now, ClockAt(s))
<1>2. /\ [r \in Tids |-> thr[r].clk]' = [[r \in Tids |-> thr[r].clk] EXCEPT ![t] = both]
      /\ [r \in Tids |-> thr[r].clk]'[t] = both
      /\ [a \in Syncs |-> ClockOf(a)]' = [[a \in Syncs |-> ClockOf(a)] EXCEPT ![s] = ClockAt(s)]
      /\ edges' = Simple!Edges(t, now, both)
      /\ epoch' = [epoch EXCEPT ![t] = e] /\ epoch'[t] = e
      /\ Simple!At(t) = now
  BY <1>1, StepIsSimple
<1>3. Simple!Stays \/ Simple!Advances(t)
  BY <1>1, <1>2 DEF Simple!Stays, Simple!Advances, IInv, Good, EpochNumbers
<1>4. [a \in Syncs |-> ClockOf(a)]' = [a \in Syncs |-> ClockOf(a)]
  BY <1>2, ClocksAre
<1>5. both = Simple!Join(Simple!At(t), [a \in Syncs |-> ClockOf(a)][s])
  BY <1>2, ClocksAre, SimpleIs
<1> HIDE DEF both, now
<1> QED BY <1>2, <1>3, <1>4, <1>5 DEF Simple!Acquire

LEMMA ReleasesAreSimple ==
  ASSUME IInv, NEW t \in Tids, NEW s \in Syncs
  PROVE  /\ ReleaseImpl(t, s) => Simple!Release(t, s)
         /\ ReleaseStoreImpl(t, s) => Simple!ReleaseStore(t, s)
         /\ ReleaseStoreAcquireImpl(t, s) => Simple!ReleaseStoreAcquire(t, s)
         /\ AcquireReleaseImpl(t, s) => Simple!AcquireRelease(t, s)
<1> DEFINE e == epoch[t] + 1
           now == Heard(t, e)
           both == Join(now, ClockAt(s))
           more == Join(ClockAt(s), now)
<1>1. /\ ReleaseImpl(t, s) => Step(t, s, e, now, now, more)
      /\ ReleaseStoreImpl(t, s) => Step(t, s, e, now, now, now)
      /\ ReleaseStoreAcquireImpl(t, s) => Step(t, s, e, now, both, now)
      /\ AcquireReleaseImpl(t, s) => Step(t, s, e, now, both, both)
  BY ReleasesStep
<1>2. [a \in Syncs |-> ClockOf(a)][s] = ClockAt(s)
  BY ClocksAre
<1>3. ASSUME NEW clk, NEW vec, Step(t, s, e, now, clk, vec)
      PROVE  /\ [r \in Tids |-> thr[r].clk]' = [[r \in Tids |-> thr[r].clk] EXCEPT ![t] = clk]
             /\ [r \in Tids |-> thr[r].clk]'[t] = clk
             /\ [a \in Syncs |-> ClockOf(a)]' = [[a \in Syncs |-> ClockOf(a)] EXCEPT ![s] = vec]
             /\ edges' = Grown(t, now, clk)
             /\ Simple!Advances(t)
             /\ Simple!At(t) = now
  <2>1. /\ [r \in Tids |-> thr[r].clk]' = [[r \in Tids |-> thr[r].clk] EXCEPT ![t] = clk]
        /\ [r \in Tids |-> thr[r].clk]'[t] = clk
        /\ [a \in Syncs |-> ClockOf(a)]' = [[a \in Syncs |-> ClockOf(a)] EXCEPT ![s] = vec]
        /\ edges' = Simple!Edges(t, now, clk)
        /\ epoch' = [epoch EXCEPT ![t] = e]
        /\ Simple!At(t) = now
    BY <1>3, StepIsSimple
  <2>2. Simple!Advances(t)
    BY <2>1 DEF Simple!Advances
  <2>3. edges' = Grown(t, now, clk)
    BY <2>1, SimpleIs
  <2> QED BY <2>1, <2>2, <2>3
<1>4. both = Simple!Join(now, ClockAt(s)) /\ more = Simple!Join(ClockAt(s), now)
  BY SimpleIs
<1>5. Grown(t, now, now) = {}
  <2>1. thr[t] \in ThreadClocks /\ epoch[t] \in Nat
    BY DEF IInv, Good, Threads, EpochNumbers
  <2>2. thr[t].clk \in Clocks /\ e \in Nat
    BY <2>1, MeFields
  <2> HIDE DEF e
  <2>3. now \in Clocks
    BY <2>2 DEF Heard, Changed, Clocks
  <2> HIDE DEF now
  <2> QED BY <2>3, GrownNot
<1>6. Grown(t, now, both) = Simple!Edges(t, now, both)
  BY SimpleIs
<1> HIDE DEF e, now, both, more
<1>7. ASSUME ReleaseImpl(t, s) PROVE Simple!Release(t, s)
  <2>1. Step(t, s, e, now, now, more)
    BY <1>1, <1>7
  <2>2. /\ [r \in Tids |-> thr[r].clk]' = [[r \in Tids |-> thr[r].clk] EXCEPT ![t] = now]
        /\ [a \in Syncs |-> ClockOf(a)]' = [[a \in Syncs |-> ClockOf(a)] EXCEPT ![s] = more]
        /\ edges' = {}
        /\ Simple!Advances(t)
        /\ Simple!At(t) = now
    BY <1>3, <1>5, <2>1
  <2> QED BY <1>2, <1>4, <2>2 DEF Simple!Release
<1>8. ASSUME ReleaseStoreImpl(t, s) PROVE Simple!ReleaseStore(t, s)
  <2>1. Step(t, s, e, now, now, now)
    BY <1>1, <1>8
  <2>2. /\ [r \in Tids |-> thr[r].clk]' = [[r \in Tids |-> thr[r].clk] EXCEPT ![t] = now]
        /\ [a \in Syncs |-> ClockOf(a)]' = [[a \in Syncs |-> ClockOf(a)] EXCEPT ![s] = now]
        /\ edges' = {}
        /\ Simple!Advances(t)
        /\ Simple!At(t) = now
    BY <1>3, <1>5, <2>1
  <2> QED BY <2>2 DEF Simple!ReleaseStore
<1>9. ASSUME ReleaseStoreAcquireImpl(t, s) PROVE Simple!ReleaseStoreAcquire(t, s)
  <2>1. Step(t, s, e, now, both, now)
    BY <1>1, <1>9
  <2>2. /\ [r \in Tids |-> thr[r].clk]' = [[r \in Tids |-> thr[r].clk] EXCEPT ![t] = both]
        /\ [r \in Tids |-> thr[r].clk]'[t] = both
        /\ [a \in Syncs |-> ClockOf(a)]' = [[a \in Syncs |-> ClockOf(a)] EXCEPT ![s] = now]
        /\ edges' = Simple!Edges(t, now, both)
        /\ Simple!Advances(t)
        /\ Simple!At(t) = now
    BY <1>3, <1>6, <2>1
  <2> QED BY <1>2, <1>4, <2>2 DEF Simple!ReleaseStoreAcquire
<1>10. ASSUME AcquireReleaseImpl(t, s) PROVE Simple!AcquireRelease(t, s)
  <2>1. Step(t, s, e, now, both, both)
    BY <1>1, <1>10
  <2>2. /\ [r \in Tids |-> thr[r].clk]' = [[r \in Tids |-> thr[r].clk] EXCEPT ![t] = both]
        /\ [r \in Tids |-> thr[r].clk]'[t] = both
        /\ [a \in Syncs |-> ClockOf(a)]' = [[a \in Syncs |-> ClockOf(a)] EXCEPT ![s] = both]
        /\ edges' = Simple!Edges(t, now, both)
        /\ Simple!Advances(t)
        /\ Simple!At(t) = now
    BY <1>3, <1>6, <2>1
  <2> QED BY <1>2, <1>4, <2>2 DEF Simple!AcquireRelease
<1> QED BY <1>7, <1>8, <1>9, <1>10

LEMMA StartIsSimple ==
  ASSUME IInv, NEW t \in Tids, NEW s \in Syncs, OnStarted(t, s)
  PROVE  Simple!Start(t, s)
<1> DEFINE e == epoch[t] + 1
           now == Changed(AllZero, t, e)
           clk == Join(now, ClockAt(s))
           fresh == [Simple!Nothing EXCEPT ![t] = epoch'[t]]
<1>1. Step(t, s, e, now, clk, AllZero)
  BY StartSteps
<1>2. /\ [r \in Tids |-> thr[r].clk]' = [[r \in Tids |-> thr[r].clk] EXCEPT ![t] = clk]
      /\ [r \in Tids |-> thr[r].clk]'[t] = clk
      /\ [a \in Syncs |-> ClockOf(a)]' = [[a \in Syncs |-> ClockOf(a)] EXCEPT ![s] = AllZero]
      /\ edges' = Simple!Edges(t, now, clk)
      /\ epoch' = [epoch EXCEPT ![t] = e] /\ epoch'[t] = e
  <2> HIDE DEF e, now, clk
  <2> QED BY <1>1, StepIsSimple
<1>3. Simple!Advances(t)
  BY <1>2 DEF Simple!Advances
<1>4. fresh = now
  BY <1>2, SimpleIs DEF Changed
<1>5. clk = Simple!Join(now, [a \in Syncs |-> ClockOf(a)][s])
  BY ClocksAre, SimpleIs
<1>6. AllZero = Simple!Nothing
  BY SimpleIs
<1>7. /\ [r \in Tids |-> thr[r].clk]'
           = [[r \in Tids |-> thr[r].clk] EXCEPT ![t] = Simple!Join(fresh, [a \in Syncs |-> ClockOf(a)][s])]
      /\ [a \in Syncs |-> ClockOf(a)]' = [[a \in Syncs |-> ClockOf(a)] EXCEPT ![s] = Simple!Nothing]
      /\ edges' = Simple!Edges(t, fresh, [r \in Tids |-> thr[r].clk]'[t])
  <2> HIDE DEF e, now, clk, fresh
  <2> QED BY <1>2, <1>4, <1>5, <1>6
<1> HIDE DEF e, now, clk
<1> QED BY <1>3, <1>7 DEF Simple!Start

LEMMA CallbackIsSimple ==
  ASSUME IInv, NEW t \in Tids, NEW u \in Tids, UpdateClockCallback(t, u)
  PROVE  Simple!Set(t, u)
<1>1. /\ Cof(thr') = Changed(Cof(thr), t, Changed(thr[t].clk, u, epoch[u]))
      /\ Sof(syn', pool') = Sof(syn, pool)
      /\ edges' = (IF u = t \/ thr[t].clk[u] = epoch[u] THEN {}
                   ELSE {<<u, epoch[u], t, thr[t].clk[t]>>})
      /\ epoch' = epoch
  BY CallbackDoes
<1>2. Cof(thr)[t] = thr[t].clk
  BY DEF Cof
<1>3. [r \in Tids |-> thr[r].clk]' = [[r \in Tids |-> thr[r].clk] EXCEPT ![t][u] = epoch[u]]
  <2>1. Cof(thr') = [Cof(thr) EXCEPT ![t] = [Cof(thr)[t] EXCEPT ![u] = epoch[u]]]
    BY <1>1, <1>2 DEF Changed
  <2>2. Cof(thr') = [Cof(thr) EXCEPT ![t][u] = epoch[u]]
    BY <2>1
  <2> QED BY <2>2, SimpleIs, ClocksChange
<1>4. [a \in Syncs |-> ClockOf(a)]' = [a \in Syncs |-> ClockOf(a)]
  BY <1>1, SimpleIs, ClocksChange
<1>5. edges' = (IF u = t \/ [r \in Tids |-> thr[r].clk][t][u] = epoch[u] THEN {}
                ELSE {<<u, epoch[u], t, [r \in Tids |-> thr[r].clk][t][t]>>})
  BY <1>1
<1> QED BY <1>1, <1>3, <1>4, <1>5 DEF Simple!Set, Simple!Stays

LEMMA ResetIsSimple ==
  ASSUME IInv, NEW s \in Syncs, Reset(s)
  PROVE  Simple!Reset(s)
<1>1. /\ Cof(thr') = Cof(thr)
      /\ Sof(syn', pool') = Changed(Sof(syn, pool), s, AllZero)
      /\ edges' = {} /\ epoch' = epoch
  BY ResetDoes
<1>2. [r \in Tids |-> thr[r].clk]' = [r \in Tids |-> thr[r].clk]
  BY <1>1, SimpleIs, ClocksChange
<1>3. [a \in Syncs |-> ClockOf(a)]' = [[a \in Syncs |-> ClockOf(a)] EXCEPT ![s] = Simple!Nothing]
  BY <1>1, SimpleIs, ClocksChange DEF Changed
<1> QED BY <1>1, <1>2, <1>3 DEF Simple!Reset, Simple!Stays

LEMMA InitIsSimple == Init => Simple!Init
<1> SUFFICES ASSUME Init PROVE Simple!Init
  OBVIOUS
<1>1. IInv
  BY InitIsGood
<1>2. thr = [t \in Tids |-> NewThreadClock(t, 1)] /\ syn = [s \in Syncs |-> EmptySync]
      /\ epoch = AllZero /\ edges = {}
  BY DEF Init
<1>3. ASSUME NEW t \in Tids PROVE thr[t].clk = Simple!Nothing
  <2>1. thr[t] = NewThreadClock(t, 1) /\ 1 \in 1..MaxReuse
    BY <1>2
  <2> QED BY <2>1, NewThreadClockDoes, SimpleIs
<1>4. ASSUME NEW s \in Syncs PROVE ClockOf(s) = Simple!Nothing
  <2>1. syn[s] = EmptySync /\ pool \in Pools
    BY <1>1, <1>2 DEF IInv, Good
  <2>2. Vec(syn[s], pool) = AllZero
    BY <2>1, EmptySyncDoes, VecFacts
  <2> QED BY <2>2, ClockOfIs, SimpleIs
<1> QED BY <1>2, <1>3, <1>4, SimpleIs DEF Simple!Init

LEMMA NextIsSimple == IInv /\ [Next]_vars => [Simple!Next]_(Simple!vars)
<1> SUFFICES ASSUME IInv, [Next]_vars PROVE [Simple!Next]_(Simple!vars)
  OBVIOUS
<1>1. Simple!Tids = Tids
  BY SimpleIs
<1>2. ASSUME NEW t \in Tids, NEW s \in Syncs, AcquireImpl(t, s) PROVE Simple!Next
  BY <1>1, <1>2, AcquireIsSimple DEF Simple!Next
<1>3. ASSUME NEW t \in Tids, NEW s \in Syncs,
             ReleaseImpl(t, s) \/ ReleaseStoreImpl(t, s) \/ ReleaseStoreAcquireImpl(t, s) \/ AcquireReleaseImpl(t, s)
      PROVE  Simple!Next
  <2>1. Simple!Release(t, s) \/ Simple!ReleaseStore(t, s) \/ Simple!ReleaseStoreAcquire(t, s) \/ Simple!AcquireRelease(t, s)
    BY <1>3, ReleasesAreSimple
  <2> QED BY <1>1, <2>1 DEF Simple!Next
<1>4. ASSUME NEW t \in Tids, NEW s \in Syncs, OnStarted(t, s) PROVE Simple!Next
  BY <1>1, <1>4, StartIsSimple DEF Simple!Next
<1>5. ASSUME NEW t \in JavaTids, NEW u \in Tids, UpdateClockCallback(t, u) PROVE Simple!Next
  <2>1. t \in Tids
    BY DEF Tids
  <2> QED BY <1>1, <1>5, <2>1, CallbackIsSimple DEF Simple!Next
<1>6. ASSUME NEW s \in Syncs, Reset(s) PROVE Simple!Next
  BY <1>6, ResetIsSimple DEF Simple!Next
<1>7. CASE UNCHANGED vars
  <2>1. thr' = thr /\ syn' = syn /\ pool' = pool /\ epoch' = epoch /\ edges' = edges
    BY <1>7 DEF vars
  <2>2. [r \in Tids |-> thr[r].clk]' = [r \in Tids |-> thr[r].clk]
    BY <2>1
  <2>3. [a \in Syncs |-> ClockOf(a)]' = [a \in Syncs |-> ClockOf(a)]
    BY <2>1, SimpleIs, ClocksChange
  <2> QED BY <2>1, <2>2, <2>3 DEF Simple!vars
<1> QED BY <1>2, <1>3, <1>4, <1>5, <1>6, <1>7 DEF Next

(* tsan_clock.cpp does what its opening comment says: with the flags, the  *)
(* dirty entries, the last release-stores and the cached tables, every     *)
(* operation does to the clocks what the plain one does, and writes to the *)
(* trace an HB_EDGE line for each component that grows, and no other.      *)
THEOREM ClocksImplementTheModel == Spec => ImplementsSimpleClock
<1>1. IInv /\ [Next]_vars => [Simple!Next]_(Simple!vars)
  BY NextIsSimple
<1> QED BY <1>1, Invariance, InitIsSimple, PTL DEF Spec, ImplementsSimpleClock, Simple!Spec
================================================================================
