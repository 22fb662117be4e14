-------------------------------- MODULE Recorder --------------------------------
(***************************************************************************)
(* The runtime writing the happens-before graph of a run: the operations   *)
(* of the interceptors and the atomics on vector clocks (SimpleClock, which *)
(* TsanClock implements), the EPOC_INC and HB_EDGE lines they print, and   *)
(* the graph that HBGBuilder makes of those lines.                         *)
(*                                                                         *)
(* FuncEntry and FuncExit start a new epoch at both ends of every          *)
(* intercepted call and every atomic, so an operation finds the thread in  *)
(* an epoch in which it has done nothing.  A pending signal is delivered   *)
(* before FuncExit: its acquire can be in the epoch of the operation.      *)
(*                                                                         *)
(* A node is <<thread number, epoch>>.  The lines of one thread number are *)
(* in the order of their epochs, also when the number is given out again.  *)
(***************************************************************************)
EXTENDS Naturals, FiniteSets, FiniteSetsExt

CONSTANTS
  NThreads,    \* thread numbers are 0..NThreads-1
  Addresses,   \* atomics, descriptors, barriers: what has a clock of its own
  Mutexes,     \* mutexes and read-write locks
  Signals,     \* sigactions[sig]
  MaxEpoch,    \* bound: epochs of one thread number
  MaxEpochs    \* bound: epochs of all of them together

ASSUME RecorderAssumption ==
  /\ NThreads \in Nat \ {0} /\ MaxEpoch \in Nat /\ MaxEpochs \in Nat
  /\ IsFiniteSet(Addresses) /\ IsFiniteSet(Mutexes) /\ IsFiniteSet(Signals)

(* The clocks of a mutex (clock and read_clock) and of a ThreadContext.    *)
WriteClock(m) == <<"clock", m>>
ReadClock(m)  == <<"read_clock", m>>
ThreadClock(u) == <<"thread", u>>

Syncs ==
  Addresses \cup Signals
    \cup {WriteClock(m) : m \in Mutexes} \cup {ReadClock(m) : m \in Mutexes}
    \cup {ThreadClock(u) : u \in 0..(NThreads - 1)}

VARIABLES
  epoch, clock, sync, edges,  \* SimpleClock's
  nodes,       \* the EPOC_INC lines so far
  hb,          \* the HB_EDGE lines so far
  accessed,    \* each thread has logged an access after its last EPOC_INC line
  released,    \* thr->fast_synch_epoch: the epoch of the last release
  mixed,       \* a thread has acquired in an epoch in which it had released
  life,        \* what the registry says of each number
  reused,      \* a number was given out again
  owner,       \* who holds each mutex
  readers      \* and who holds it for reading

clocks == <<epoch, clock, sync, edges>>
trace == <<nodes, hb, accessed>>
vars == <<clocks, trace, released, mixed, life, reused, owner, readers>>

Clocks == INSTANCE SimpleClock

Tids == 0..(NThreads - 1)
Nobody == NThreads
Lives == {"free", "created", "detached", "running", "running detached", "finished"}

(* The main thread has started. *)
Init ==
  /\ epoch = [t \in Tids |-> IF t = 0 THEN 1 ELSE 0]
  /\ clock = [t \in Tids |-> [u \in Tids |-> IF t = 0 /\ u = 0 THEN 1 ELSE 0]]
  /\ sync = [s \in Syncs |-> Clocks!Nothing]
  /\ edges = {}
  /\ nodes = {<<0, 1>>} /\ hb = {}
  /\ accessed = [t \in Tids |-> FALSE]
  /\ released = [t \in Tids |-> 0]
  /\ mixed = FALSE /\ reused = FALSE
  /\ life = [t \in Tids |-> IF t = 0 THEN "running detached" ELSE "free"]
  /\ owner = [m \in Mutexes |-> Nobody]
  /\ readers = [m \in Mutexes |-> {}]

Runs(t) == life[t] \in {"running", "running detached"}
Advances(t) ==
  /\ epoch[t] < MaxEpoch /\ FoldSet(LAMBDA u, n : n + epoch[u], 0, Tids) < MaxEpochs
  /\ Clocks!Advances(t)

--------------------------------------------------------------------------------
(* Mutant of Prints: the line has the epoch before. *)
PrintsTooEarly(t, own) ==
  /\ nodes' = IF own # epoch'[t] THEN nodes \cup {<<t, own>>} ELSE nodes
  /\ accessed' = [accessed EXCEPT ![t] = FALSE]
  /\ hb' = hb \cup {<<<<e[1], e[2]>>, <<e[3], e[4]>>>> : e \in edges'}

(* What an operation prints: EPOC_INC when ThreadClock::set changes the    *)
(* thread's own component, and the edges of its acquires.                  *)
Prints(t, own) ==
  /\ nodes' = IF own # epoch'[t] THEN nodes \cup {<<t, epoch'[t]>>} ELSE nodes
  /\ accessed' = IF own # epoch'[t] THEN [accessed EXCEPT ![t] = FALSE] ELSE accessed
  /\ hb' = hb \cup {<<<<e[1], e[2]>>, <<e[3], e[4]>>>> : e \in edges'}

(* Mutant of Takes: the edges of the second clock are not printed. *)
TakesPrintingOne(t, c, s1, s2) ==
  LET before == [c EXCEPT ![t] = epoch'[t]]
      between == Clocks!Join(before, sync[s1])
      after == Clocks!Join(between, sync[s2])
  IN  /\ clock' = [clock EXCEPT ![t] = after]
      /\ edges' = Clocks!Edges(t, before, between)
      /\ mixed' = (mixed \/ (edges' # {} /\ released[t] = epoch'[t]))

(* An acquire of the clocks s1 and then s2, by a thread whose clock was c. *)
Takes(t, c, s1, s2) ==
  LET before == [c EXCEPT ![t] = epoch'[t]]
      between == Clocks!Join(before, sync[s1])
      after == Clocks!Join(between, sync[s2])
  IN  /\ clock' = [clock EXCEPT ![t] = after]
      /\ edges' = Clocks!Edges(t, before, between) \cup Clocks!Edges(t, between, after)
      /\ mixed' = (mixed \/ (edges' # {} /\ released[t] = epoch'[t]))

(* Mutant of Acquires: the thread's own component is set after it. *)
AcquiresUnset(t, s1, s2) ==
  LET between == Clocks!Join(clock[t], sync[s1])
      after == Clocks!Join(between, sync[s2])
  IN  /\ clock' = [clock EXCEPT ![t] = [after EXCEPT ![t] = epoch'[t]]]
      /\ edges' = Clocks!Edges(t, clock[t], between) \cup Clocks!Edges(t, between, after)
      /\ mixed' = (mixed \/ (edges' # {} /\ released[t] = epoch'[t]))
      /\ Prints(t, clock[t][t])
      /\ UNCHANGED released

Acquires(t, s1, s2) ==
  /\ Takes(t, clock[t], s1, s2)
  /\ Prints(t, clock[t][t])
  /\ UNCHANGED released

Releases(t) ==
  /\ Prints(t, clock[t][t])
  /\ released' = [released EXCEPT ![t] = epoch'[t]]
  /\ UNCHANGED mixed

--------------------------------------------------------------------------------
(* Atomics, descriptors, barriers, once-guards *)

Idle == UNCHANGED <<life, reused, owner, readers>>

(* AtomicLoad, AtomicRMW and AtomicCAS that acquire; Acquire. *)
Acquire(t, a) ==
  /\ Runs(t)
  /\ Advances(t)
  /\ Acquires(t, a, a)
  /\ UNCHANGED sync /\ Idle

(* AtomicRMW and AtomicCAS that release; Release. *)
Release(t, a) ==
  /\ Runs(t)
  /\ Advances(t)
  /\ Clocks!Release(t, a)
  /\ Releases(t) /\ Idle

(* AtomicStore; sigaction, which publishes the handler. *)
ReleaseStore(t, a) ==
  /\ Runs(t)
  /\ Advances(t)
  /\ Clocks!ReleaseStore(t, a)
  /\ Releases(t) /\ Idle

(* AtomicRMW and AtomicCAS that do both. *)
AcquireRelease(t, a) ==
  /\ Runs(t)
  /\ Advances(t)
  /\ Clocks!AcquireRelease(t, a)
  /\ Releases(t) /\ Idle

(* CallUserSignalHandler: from ProcessPendingSignals at the end of an      *)
(* operation that has printed nothing since, or of one that does nothing   *)
(* else.                                                                   *)
SignalHandled(t, sig) ==
  /\ Runs(t)
  /\ (Clocks!Stays /\ epoch[t] = clock[t][t]) \/ Advances(t)
  /\ Acquires(t, sig, sig)
  /\ UNCHANGED sync /\ Idle

--------------------------------------------------------------------------------
(* Mutexes *)

MutexPostLock(t, m) ==
  /\ Runs(t) /\ owner[m] = Nobody /\ readers[m] = {}
  /\ Advances(t)
  /\ Acquires(t, WriteClock(m), ReadClock(m))
  /\ owner' = [owner EXCEPT ![m] = t]
  /\ UNCHANGED <<sync, life, reused, readers>>

MutexUnlock(t, m) ==
  /\ Runs(t) /\ owner[m] = t
  /\ Advances(t)
  /\ Clocks!ReleaseStore(t, WriteClock(m))
  /\ Releases(t)
  /\ owner' = [owner EXCEPT ![m] = Nobody]
  /\ UNCHANGED <<life, reused, readers>>

MutexPostReadLock(t, m) ==
  /\ Runs(t) /\ owner[m] = Nobody /\ t \notin readers[m]
  /\ Advances(t)
  /\ Acquires(t, WriteClock(m), WriteClock(m))
  /\ readers' = [readers EXCEPT ![m] = @ \cup {t}]
  /\ UNCHANGED <<sync, life, reused, owner>>

MutexReadUnlock(t, m) ==
  /\ Runs(t) /\ t \in readers[m]
  /\ Advances(t)
  /\ Clocks!Release(t, ReadClock(m))
  /\ Releases(t)
  /\ readers' = [readers EXCEPT ![m] = @ \ {t}]
  /\ UNCHANGED <<life, reused, owner>>

--------------------------------------------------------------------------------
(* Threads *)

Becomes(u, l) == life' = [life EXCEPT ![u] = l]

(* OnCreated *)
Create(t, u, isDetached) ==
  /\ Runs(t) /\ life[u] = "free"
  /\ Advances(t)
  /\ Clocks!Release(t, ThreadClock(u))
  /\ Releases(t)
  /\ Becomes(u, IF isDetached THEN "detached" ELSE "created")
  /\ UNCHANGED <<reused, owner, readers>>

(* OnStarted: a new ThreadClock, at a later epoch than any thread had that *)
(* had the number before.                                                  *)
Start(u) ==
  /\ life[u] \in {"created", "detached"}
  /\ Advances(u)
  /\ Takes(u, Clocks!Nothing, ThreadClock(u), ThreadClock(u))
  /\ Prints(u, 0)
  /\ sync' = [sync EXCEPT ![ThreadClock(u)] = Clocks!Nothing]
  /\ Becomes(u, IF life[u] = "created" THEN "running" ELSE "running detached")
  /\ reused' = (reused \/ epoch[u] > 0)
  /\ UNCHANGED <<released, owner, readers>>

Holds(u) == \E m \in Mutexes : owner[m] = u \/ u \in readers[m]

(* OnFinished *)
Finish(u) ==
  /\ u # 0 /\ ~ Holds(u)
  /\ \/ /\ life[u] = "running"
        /\ Advances(u)
        /\ Clocks!Release(u, ThreadClock(u))
        /\ Releases(u)
        /\ Becomes(u, "finished")
     \/ /\ life[u] = "running detached"
        /\ Becomes(u, "free")
        /\ UNCHANGED <<clocks, trace, released, mixed>>
  /\ UNCHANGED <<reused, owner, readers>>

(* OnJoined *)
Join(t, u) ==
  /\ Runs(t) /\ t # u /\ life[u] = "finished"
  /\ Advances(t)
  /\ Acquires(t, ThreadClock(u), ThreadClock(u))
  /\ sync' = [sync EXCEPT ![ThreadClock(u)] = Clocks!Nothing]
  /\ Becomes(u, "free")
  /\ UNCHANGED <<reused, owner, readers>>

--------------------------------------------------------------------------------
(* Mutant of MemoryAccess: it does not start an epoch. *)
MemoryAccessInTheEpoch(t) ==
  /\ Runs(t)
  /\ UNCHANGED epoch
  /\ accessed' = [accessed EXCEPT ![t] = TRUE]
  /\ UNCHANGED <<clock, sync, edges, nodes, hb, released, mixed>> /\ Idle

(* MemoryAccess: a read or a write is logged, in an epoch of its own.      *)
MemoryAccess(t) ==
  /\ Runs(t) /\ ~ accessed[t]
  /\ Advances(t)
  /\ accessed' = [accessed EXCEPT ![t] = TRUE]
  /\ UNCHANGED <<clock, sync, edges, nodes, hb, released, mixed>> /\ Idle

Next ==
  \/ \E t \in Tids :
       \/ \E a \in Addresses : Acquire(t, a) \/ Release(t, a) \/ AcquireRelease(t, a)
       \/ \E a \in Addresses \cup Signals : ReleaseStore(t, a)
       \/ \E sig \in Signals : SignalHandled(t, sig)
       \/ \E m \in Mutexes : MutexPostLock(t, m) \/ MutexUnlock(t, m)
       \/ \E m \in Mutexes : MutexPostReadLock(t, m) \/ MutexReadUnlock(t, m)
       \/ \E u \in Tids \ {0}, d \in BOOLEAN : Create(t, u, d)
       \/ \E u \in Tids : Join(t, u)
       \/ Start(t) \/ Finish(t) \/ MemoryAccess(t)

Spec == Init /\ [][Next]_vars
================================================================================
