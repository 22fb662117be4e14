------------------------------- MODULE TsanClock -------------------------------
(***************************************************************************)
(* ThreadClock and SyncClock as tsan_clock.cpp implements them, with every *)
(* shortcut: the acquired flags, the two dirty entries, the last           *)
(* release-store, and the cached table a thread shares, by reference       *)
(* count, with the objects it has released to.                             *)
(*                                                                         *)
(* A table is one block here: the code spreads it over second-level blocks *)
(* that the first-level block owns.  An operation runs under the lock of   *)
(* its SyncVar, so it is one step.                                         *)
(***************************************************************************)
EXTENDS Naturals, FiniteSets, FiniteSetsExt, Functions

CONSTANTS
  NThreads,    \* thread numbers are 0..NThreads-1
  Syncs,       \* the objects that have a SyncClock
  kDirtyTids,  \* dirty entries of a SyncClock: 2 in tsan_clock.h
  JavaTids,    \* the threads that call AcquireGlobal: only the Java interface does
  MaxEpoch,    \* bound: epochs of a thread
  MaxEpochs,   \* bound: epochs of all threads together
  MaxReuse     \* bound: how often a thread number is given out

ASSUME TsanClockAssumption ==
  /\ NThreads \in Nat \ {0}
  /\ IsFiniteSet(Syncs)
  /\ kDirtyTids \in Nat \ {0}
  /\ JavaTids \subseteq 0..(NThreads - 1)
  /\ MaxEpoch \in Nat /\ MaxEpochs \in Nat /\ MaxReuse \in Nat \ {0}

VARIABLES
  thr,         \* the ThreadClock of each thread
  syn,         \* the SyncClock of each object
  pool,        \* ctx->clock_alloc: the blocks
  epoch,       \* thr->fast_state.epoch() of each thread
  edges        \* the HB_EDGE lines of the last operation

vars == <<thr, syn, pool, epoch, edges>>

Tids == 0..(NThreads - 1)
NoTid == NThreads                        \* kInvalidTid
NoBlock == 0
Blocks == 1..(NThreads + Cardinality(Syncs))
DirtySlots == 1..kDirtyTids
Later(m, n) == IF m < n THEN n ELSE m
AllZero == [u \in Tids |-> 0]

ThreadClocks ==
  [tid : Tids, clk : [Tids -> Nat], nclk : 1..NThreads,
   reused : 1..MaxReuse,                 \* 0 has special meaning
   last_acquire : Nat, global_acquire : Nat,
   cached : [tab : Blocks \cup {NoBlock}, size : 0..NThreads]]

DirtyEntries == [tid : Tids \cup {NoTid}, epoch : Nat]

SyncClocks ==
  [tab : Blocks \cup {NoBlock}, size : 0..NThreads,
   dirty : [DirtySlots -> DirtyEntries],
   release_store : [tid : Tids \cup {NoTid}, reused : 0..MaxReuse]]

ClockBlocks == [ref : Nat, epoch : [Tids -> Nat], reused : [Tids -> 0..MaxReuse]]

NoCache == [tab |-> NoBlock, size |-> 0]
NoDirty == [i \in DirtySlots |-> [tid |-> NoTid, epoch |-> 0]]
NoStore == [tid |-> NoTid, reused |-> 0]
FreeBlock == [ref |-> 0, epoch |-> AllZero, reused |-> AllZero]

(* ResetImpl *)
EmptySync == [tab |-> NoBlock, size |-> 0, dirty |-> NoDirty, release_store |-> NoStore]

(* The constructor of ThreadClock; r is its reused_. *)
NewThreadClock(t, r) ==
  [tid |-> t, clk |-> AllZero, nclk |-> t + 1, reused |-> r,
   last_acquire |-> 0, global_acquire |-> 0, cached |-> NoCache]

Init ==
  /\ thr = [t \in Tids |-> NewThreadClock(t, 1)]
  /\ syn = [s \in Syncs |-> EmptySync]
  /\ pool = [b \in Blocks |-> FreeBlock]
  /\ epoch = AllZero
  /\ edges = {}

--------------------------------------------------------------------------------
(***************************************************************************)
(* The operations map x to x, where x.me is the running thread's clock,    *)
(* x.at the object's, x.pool the blocks and x.edges what has been logged.  *)
(***************************************************************************)
Tab(x) == x.pool[x.at.tab]
Elems(x) == {u \in Tids : u < x.at.size}

(* clock_alloc.Alloc; the block is zeroed and has one reference. *)
Alloc(p) == Min({b \in Blocks : p[b].ref = 0})

(* UnrefClockBlock *)
Unref(p, b) == [p EXCEPT ![b] = IF p[b].ref = 1 THEN FreeBlock ELSE [p[b] EXCEPT !.ref = p[b].ref - 1]]

IsShared(x) == x.at.size # 0 /\ Tab(x).ref > 1

Unshare(x) ==
  IF ~ IsShared(x) THEN x
  ELSE LET b == Alloc(x.pool)
           copy == [FreeBlock EXCEPT
                      !.ref = 1,
                      !.epoch = [u \in Tids |-> IF u \in Elems(x) THEN Tab(x).epoch[u] ELSE 0],
                      !.reused = [u \in Tids |-> IF u \in Elems(x) THEN Tab(x).reused[u] ELSE 0]]
       IN  [x EXCEPT !.pool = [Unref(x.pool, x.at.tab) EXCEPT ![b] = copy], !.at.tab = b]

(* Resize, where the callers call it: when the object has fewer elements   *)
(* than the thread.                                                        *)
Resize(x) ==
  IF x.at.size >= x.me.nclk THEN x
  ELSE LET y == Unshare(x)
           b == Alloc(y.pool)
           z == IF y.at.size # 0 THEN y
                ELSE [y EXCEPT !.pool[b] = [FreeBlock EXCEPT !.ref = 1], !.at.tab = b]
       IN  [z EXCEPT !.at.size = x.me.nclk]

DirtyTids(y) == {y.dirty[i].tid : i \in DirtySlots} \ {NoTid}
DirtyEpoch(y, u) == y.dirty[CHOOSE i \in DirtySlots : y.dirty[i].tid = u].epoch

FlushDirty(x) ==
  [x EXCEPT !.pool[x.at.tab].epoch =
              [u \in Tids |-> IF u \in DirtyTids(x.at) THEN DirtyEpoch(x.at, u) ELSE @[u]],
            !.at.dirty = NoDirty]

(* Mutant of ResetCached: the block is not unreferenced. *)
ForgetCached(x) == [x EXCEPT !.me.cached = NoCache]

ResetCached(x) ==
  IF x.me.cached.tab = NoBlock THEN x
  ELSE [x EXCEPT !.pool = Unref(@, x.me.cached.tab), !.me.cached = NoCache]

(* Mutant of AfterAcquiring: the cached table survives. *)
AfterAcquiringKeepCached(x, grew) == IF grew THEN [x EXCEPT !.me.last_acquire = x.me.clk[x.me.tid]] ELSE x

(* What acquire and releaseStoreAcquire do once some component has grown.  *)
AfterAcquiring(x, grew) ==
  IF grew THEN ResetCached([x EXCEPT !.me.last_acquire = x.me.clk[x.me.tid]]) ELSE x

Log(x, clk) ==
  {<<u, clk[u], x.me.tid, x.me.clk[x.me.tid]>> :
     u \in {v \in Tids \ {x.me.tid} : x.me.clk[v] < clk[v]}}

(* The epochs in the dirty entries, and in the table. *)
DirtyPart(x) == [u \in Tids |-> IF u \in DirtyTids(x.at) THEN DirtyEpoch(x.at, u) ELSE 0]
TabPart(x)   == [u \in Tids |-> IF u \in Elems(x) THEN Tab(x).epoch[u] ELSE 0]

(* The clock with the given epochs taken over, and logged. *)
Learn(x, heard) ==
  LET clk == [u \in Tids |-> Later(x.me.clk[u], heard[u])]
  IN  [x EXCEPT !.me.clk = clk, !.edges = @ \cup Log(x, clk)]

Acquire(x) ==
  LET tid == x.me.tid
      y == Learn(x, DirtyPart(x))
      full == x.at.size <= tid \/ Tab(x).reused[tid] # x.me.reused
      z == Learn([y EXCEPT !.me.nclk = Later(@, x.at.size)], TabPart(x))
      (* Remember that this thread has acquired this clock. *)
      w == IF tid < x.at.size THEN [z EXCEPT !.pool[x.at.tab].reused[tid] = x.me.reused] ELSE z
      r == IF full THEN w ELSE y
  IN  IF x.at.size = 0 THEN x ELSE AfterAcquiring(r, r.me.clk # x.me.clk)

(* Mutant of HasAcquiredAfterRelease: AcquireGlobal is forgotten. *)
HasAcquiredItselfAfterRelease(x) == Tab(x).epoch[x.me.tid] <= x.me.last_acquire

HasAcquiredAfterRelease(x) ==
  LET my_epoch == Tab(x).epoch[x.me.tid]
  IN  my_epoch <= x.me.last_acquire \/ my_epoch <= x.me.global_acquire

IsAlreadyAcquired(x) ==
  /\ Tab(x).reused[x.me.tid] = x.me.reused
  /\ \A u \in DirtyTids(x.at) : DirtyEpoch(x.at, u) <= x.me.clk[u]

(* Mutant of UpdateCurrentThread: the other threads' flags stay set. *)
UpdateCurrentThreadKeepFlags(x) ==
  LET slots == {i \in DirtySlots : x.at.dirty[i].tid \in {x.me.tid, NoTid}}
      y == Unshare(x)
  IN  IF slots # {}
      THEN [x EXCEPT !.at.dirty[Min(slots)] = [tid |-> x.me.tid, epoch |-> x.me.clk[x.me.tid]]]
      ELSE FlushDirty([y EXCEPT !.pool[y.at.tab].epoch[x.me.tid] = x.me.clk[x.me.tid]])

UpdateCurrentThread(x) ==
  LET tid == x.me.tid
      slots == {i \in DirtySlots : x.at.dirty[i].tid \in {tid, NoTid}}
      y == Unshare(x)
  IN  IF slots # {}
      THEN [x EXCEPT !.at.dirty[Min(slots)] = [tid |-> tid, epoch |-> x.me.clk[tid]]]
      ELSE FlushDirty([y EXCEPT !.pool[y.at.tab].epoch[tid] = x.me.clk[tid],
                                !.pool[y.at.tab].reused = AllZero])

IsOwnReleaseStore(x) == x.at.release_store = [tid |-> x.me.tid, reused |-> x.me.reused]

(* The tail of ReleaseStore: the table is kept for the next empty object.  *)
CacheTable(x) ==
  IF x.me.cached.tab # NoBlock \/ Tab(x).ref # 1 THEN x
  ELSE [x EXCEPT !.pool[x.at.tab].ref = 2,
                 !.me.cached = [tab |-> x.at.tab, size |-> x.at.size]]

OwnStore(x) == [tid |-> x.me.tid, reused |-> x.me.reused]

ReleaseStore(x) ==
  LET tid == x.me.tid
      c == x.me.cached
      y == Resize(x)
      z == Unshare(y)
  IN  IF x.at.size = 0 /\ c.tab # NoBlock
      THEN [x EXCEPT !.at = [tab |-> c.tab, size |-> c.size, release_store |-> OwnStore(x),
                             dirty |-> [NoDirty EXCEPT ![1] = [tid |-> tid, epoch |-> x.me.clk[tid]]]],
                     !.pool[c.tab].reused[tid] = x.me.reused,
                     !.pool[c.tab].ref = x.pool[c.tab].ref + 1]
      ELSE IF IsOwnReleaseStore(y) /\ ~ HasAcquiredAfterRelease(y)
      THEN UpdateCurrentThread(y)
      ELSE CacheTable(
             [z EXCEPT !.pool[z.at.tab].epoch =
                         [u \in Tids |-> IF u \in Elems(z) THEN x.me.clk[u] ELSE @[u]],
                       !.pool[z.at.tab].reused = [AllZero EXCEPT ![tid] = x.me.reused],
                       !.at.dirty = NoDirty,
                       !.at.release_store = OwnStore(x)])

Release(x) ==
  LET y == Resize(x)
      fast == UpdateCurrentThread(y)
      z == FlushDirty(Unshare(y))
      acquired == IsAlreadyAcquired(y)
  IN  IF x.at.size = 0 THEN ReleaseStore(x)
      ELSE IF ~ HasAcquiredAfterRelease(y)
      THEN IF IsOwnReleaseStore(y) THEN fast ELSE [fast EXCEPT !.at.release_store = NoStore]
      ELSE [z EXCEPT !.pool[z.at.tab].epoch =
                       [u \in Tids |-> IF u \in Elems(z) THEN Later(@[u], x.me.clk[u]) ELSE @[u]],
                     !.pool[z.at.tab].reused =
                       IF acquired THEN [AllZero EXCEPT ![x.me.tid] = x.me.reused] ELSE AllZero,
                     !.at.release_store = NoStore]

ReleaseStoreAcquire(x) ==
  LET w == [x EXCEPT !.me.nclk = Later(@, x.at.size)]
      y == FlushDirty(Unshare(Resize(w)))
      z == Learn(y, TabPart(y))
      swapped == [z EXCEPT !.pool[z.at.tab].epoch =
                             [u \in Tids |-> IF u \in Elems(z) THEN x.me.clk[u] ELSE @[u]],
                           !.pool[z.at.tab].reused = AllZero,
                           !.at.release_store = NoStore]
  IN  IF x.at.size = 0 THEN ReleaseStore(x)
      ELSE AfterAcquiring(swapped, z.me.clk # x.me.clk)

AcqRel(x) == ReleaseStore(Acquire(x))

(* Mutant of ResetSync: the dirty entries outlive the table. *)
ResetTable(x) ==
  IF x.at.size = 0 THEN x
  ELSE [x EXCEPT !.pool = Unref(@, x.at.tab), !.at = [EmptySync EXCEPT !.dirty = x.at.dirty]]

ResetSync(x) ==
  IF x.at.size = 0 THEN [x EXCEPT !.at = EmptySync]
  ELSE [x EXCEPT !.pool = Unref(@, x.at.tab), !.at = EmptySync]

--------------------------------------------------------------------------------
(***************************************************************************)
(* The callers in tsan_rtl_mutex.cpp.  Each sets the thread's own          *)
(* component to its epoch first.                                           *)
(***************************************************************************)
Operands(t, s, e) ==
  [me |-> [thr[t] EXCEPT !.clk[t] = e], at |-> syn[s], pool |-> pool, edges |-> {}]

Apply(t, s, e, x) ==
  /\ thr' = [thr EXCEPT ![t] = x.me]
  /\ syn' = [syn EXCEPT ![s] = x.at]
  /\ pool' = x.pool
  /\ edges' = x.edges
  /\ epoch' = [epoch EXCEPT ![t] = e]

MayAdvance(t) == epoch[t] < MaxEpoch /\ FoldFunction(+, 0, epoch) < MaxEpochs

(* The callers of the releases have just called IncrementEpoch.  An epoch  *)
(* also starts where an intercepted call or an atomic does; what it        *)
(* acquires after its first acquire, it acquires in the epoch it is in.    *)
Advanced(t, s) == Operands(t, s, epoch[t] + 1)
IncrementEpoch(t, s, x) == MayAdvance(t) /\ Apply(t, s, epoch[t] + 1, x)

AcquireImpl(t, s) ==
  \/ Apply(t, s, epoch[t], Acquire(Operands(t, s, epoch[t])))
  \/ IncrementEpoch(t, s, Acquire(Advanced(t, s)))

ReleaseImpl(t, s)             == IncrementEpoch(t, s, Release(Advanced(t, s)))
ReleaseStoreImpl(t, s)        == IncrementEpoch(t, s, ReleaseStore(Advanced(t, s)))
ReleaseStoreAcquireImpl(t, s) == IncrementEpoch(t, s, ReleaseStoreAcquire(Advanced(t, s)))
AcquireReleaseImpl(t, s)      == IncrementEpoch(t, s, AcqRel(Advanced(t, s)))

(* UpdateClockCallback of AcquireGlobal, for one running thread u. *)
UpdateClockCallback(t, u) ==
  LET noted == [thr EXCEPT ![u].global_acquire = epoch[u]]
      set == [noted[t] EXCEPT !.clk[u] = epoch[u], !.nclk = Later(@, u + 1)]
      x == ResetCached([me |-> [set EXCEPT !.last_acquire = set.clk[t]], pool |-> pool])
  IN  /\ thr' = [noted EXCEPT ![t] = x.me]
      /\ pool' = x.pool
      /\ edges' = IF u = t \/ thr[t].clk[u] = epoch[u] THEN {}
                  ELSE {<<u, epoch[u], t, thr[t].clk[t]>>}
      /\ UNCHANGED <<syn, epoch>>

(* Thread t has finished (OnFinished drops its cached table) and its       *)
(* number is given to a new thread: OnStarted makes a new ThreadClock at a *)
(* later epoch, acquires what the creator released and resets that.  The   *)
(* creator has released: OnCreated.                                        *)
OnStarted(t, s) ==
  LET dropped == ResetCached([me |-> thr[t], pool |-> pool])
      fresh == [NewThreadClock(t, thr[t].reused + 1) EXCEPT !.clk[t] = epoch[t] + 1]
      x == ResetSync(Acquire([me |-> fresh, at |-> syn[s], pool |-> dropped.pool, edges |-> {}]))
  IN  /\ thr[t].reused < MaxReuse
      /\ MayAdvance(t)
      /\ \E u \in Tids \ {t} : syn[s].release_store.tid = u
      /\ thr' = [thr EXCEPT ![t] = x.me]
      /\ syn' = [syn EXCEPT ![s] = x.at]
      /\ pool' = x.pool
      /\ edges' = x.edges
      /\ epoch' = [epoch EXCEPT ![t] = @ + 1]

(* SyncVar::Reset, when the memory that holds the object is freed. *)
Reset(s) ==
  LET x == ResetSync([at |-> syn[s], pool |-> pool])
  IN  /\ syn' = [syn EXCEPT ![s] = x.at]
      /\ pool' = x.pool
      /\ edges' = {}
      /\ UNCHANGED <<thr, epoch>>

Next ==
  \/ \E t \in Tids, s \in Syncs :
       \/ AcquireImpl(t, s)
       \/ ReleaseImpl(t, s)
       \/ ReleaseStoreImpl(t, s)
       \/ ReleaseStoreAcquireImpl(t, s)
       \/ AcquireReleaseImpl(t, s)
       \/ OnStarted(t, s)
  \/ \E t \in JavaTids, u \in Tids : UpdateClockCallback(t, u)
  \/ \E s \in Syncs : Reset(s)

Spec == Init /\ [][Next]_vars
================================================================================
