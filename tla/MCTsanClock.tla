------------------------------ MODULE MCTsanClock ------------------------------
(***************************************************************************)
(* The clocks of the runtime against their simple model, on small numbers  *)
(* of threads, objects and epochs.                                         *)
(***************************************************************************)
EXTENDS TsanClock, TLC

SyncSymmetry == Permutations(Syncs)

(* The value SyncClock::get returns: a dirty entry overrides the table.    *)
ClockOf(s) ==
  [u \in Tids |-> IF u \in DirtyTids(syn[s]) THEN DirtyEpoch(syn[s], u)
                  ELSE IF u < syn[s].size THEN pool[syn[s].tab].epoch[u] ELSE 0]

Simple == INSTANCE SimpleClock WITH
  clock  <- [t \in Tids |-> thr[t].clk],
  sync   <- [s \in Syncs |-> ClockOf(s)]

(* TsanClock implements the simple model, edges included: no shortcut      *)
(* loses an epoch, invents one, or leaves out or repeats an HB_EDGE line.  *)
ImplementsSimpleClock == Simple!Spec

(* The readers of read-write locks, which acquire and release, and threads *)
(* that call AcquireGlobal between.                                        *)
ReadersNext ==
  \/ \E t \in Tids \ JavaTids, s \in Syncs : AcquireImpl(t, s)
  \/ \E t \in Tids, s \in Syncs : ReleaseImpl(t, s)
  \/ \E t \in JavaTids, u \in Tids : thr[t].clk[u] # epoch[u] /\ UpdateClockCallback(t, u)
ReadersSpec == Init /\ [][ReadersNext]_vars

(* The types, and the CHECKs of FlushDirty, ReleaseStore and ResetImpl's   *)
(* users: an object has a table exactly if it has a size, and its dirty    *)
(* entries are of different threads in the table.                          *)
TypeOK ==
  /\ thr \in [Tids -> ThreadClocks]
  /\ syn \in [Syncs -> SyncClocks]
  /\ pool \in [Blocks -> ClockBlocks]
  /\ epoch \in [Tids -> 0..MaxEpoch]
  /\ \A s \in Syncs :
       /\ (syn[s].size = 0) <=> (syn[s].tab = NoBlock)
       /\ \A u \in DirtyTids(syn[s]) : u < syn[s].size
       /\ \A i, j \in DirtySlots : syn[s].dirty[i].tid = syn[s].dirty[j].tid /\ i # j
                                     => syn[s].dirty[i].tid = NoTid

(* The reference count of a block is the number of objects and threads     *)
(* that hold it: no table is freed under an object and none leaks.         *)
ReferencesCounted ==
  \A b \in Blocks :
    pool[b].ref = Cardinality({s \in Syncs : syn[s].tab = b})
                  + Cardinality({t \in Tids : thr[t].cached.tab = b})

(* An acquire that learns nothing changes nothing, which a refinement      *)
(* takes for no step at all: so this says that whenever a thread acquired  *)
(* an object, it would know all that the object knows.                     *)
AcquireMissesNothing ==
  \A t \in Tids, s \in Syncs :
    Acquire(Operands(t, s, epoch[t])).me.clk
      = [u \in Tids |-> Later(Operands(t, s, epoch[t]).me.clk[u], ClockOf(s)[u])]
================================================================================
