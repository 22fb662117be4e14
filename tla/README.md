# A verification development for prd

prd finds *persistency races* in programs that use persistent memory: a write
`W(Y)` depends on a value `R(X)` that another write `W(X)` stored, and after a
crash `Y` may be there and `X` not, because nothing made `W(X)` durable before
`W(Y)`. This directory holds TLA+ specifications of the path from the
instrumented program to the reported races, the TLC configurations that check
them on small instances, and proofs, checked by TLAPS, for instances of any
size.

## The system

prd works in three stages.

1. LLVM passes (`src/instrumentation/pass`) insert calls at memory accesses,
   flushes, fences and data-flow operations.
2. A modified ThreadSanitizer runtime with a `cprd` part
   (`src/instrumentation/runtime/compiler-rt/lib/tsan/rtl`) executes those calls
   and prints a trace: `READ`, `WRITE`, `FLUSH`, `EPOC_INC`, `HB_EDGE`, `PD`.
3. The Python package `pycprd` (`src/pyprd/src/pycprd`) reads the trace, builds
   the happens-before graph (HBG) and the program dependence graph (PDG), and
   computes the races in two passes over the HBG.

The repository carries the whole of LLVM's compiler-rt beside prd's own code.
Most of its lines are platform layers, interceptors of libc, allocators,
symbolizers and other sanitizers, which prd neither changes nor calls. What is
modelled is prd's analysis, prd's runtime, and the parts of ThreadSanitizer,
of the thread registry and of dfsan that the trace rests on.

### Inventory

| Component | State | Operations | Talks to | What is hard | What makes it correct | Module |
|---|---|---|---|---|---|---|
| Race detector (`prd.py`), fast and slow | per thread and per epoch node: vector clocks for each cache line; dirty lines | one step per node: write, read, flush, epoch; `_find_bugs` at each write | reads HBG and PDG | knowledge passed along edges only for dirty lines, in any order of children; two versions that must agree | every race reported; on recorded graphs nothing else | `RaceDetector`, `RaceDetectorSlow` |
| Dirty vectors (`dirty_vector.py`) | lines each other thread must be told about, a pending buffer | set dirty, merge, get for a thread, update a child | detector | marking clean too early; lines for third threads | no stale clock is used | `RaceDetector` |
| Vector clocks (`vector_clock.py`, `epoch.py`) | an epoch per thread, `None` when absent | add, merge, copy, compare, flush | detector | reversed order, absent epochs, the assertion of `add_epoch` | order laws; the assertion never fires | `EpochClocks`, `FindBugs` |
| HBG (`hbg.py`, `nodes.py`) | nodes by thread, edges, daisy chains | add nodes and edges, traverse, enter a chain | parser, detector | dangling edge ends, thread number reuse, `IndexError` of a chain | acyclic; chains entered only at their members | `HBG`, `MCRecorder` |
| PDG (`pdg.py`) | write-to-read edges | explicit, by pc, mock | parser, detector | pairs on one line | a dependency's lines differ | `HBG`, `Dependences` |
| Trace parser (`trace_parser.py`) | events by id | one line at a time | builders | — | each line becomes its node or edge | not modelled |
| TSan clocks (`tsan_clock.cpp`) | thread and sync clocks, dirty entries, a shared cached block | acquire, release, release-store, both, reset | sync operations; logs edges | fast paths that skip components; clock and block reuse | an edge for each component that grows | `TsanClock` |
| Sync operations (`tsan_rtl_mutex.cpp`, `tsan_interface_atomic.cpp`, `tsan_rtl_thread.cpp`) | epochs | lock, unlock, atomics, signals, create, start, finish, join | clocks; log epochs | signals handled inside an operation; number reuse | happens-before of the trace is that of the run | `Recorder` |
| Thread registry (`sanitizer_thread_registry.cpp`, pthread interceptors) | contexts with status, handles, quarantine, free list | create, start, finish, join, tryjoin, detach | libc; sync operations | handles that libc gives out again; two handshakes; numbers reused | numbers and handles stay unambiguous; joins end | `ThreadRegistry`, `Pthreads` |
| Access tracing (`tsan_rtl.cpp`) | shadow cells | memory access | cprd | early return for a repeated access | what is left out is already there | `Tracing` |
| Regions (`cprd.cpp`, `cprd_array.h`) | candidate descriptors, mapped regions | open, close, dup, mmap, munmap, lookup | interceptors | the interceptor acts after the system call; removed first slot | an address is persistent iff mapped from a pool | `Tracing` |
| Flushes (`cprd.cpp`) | lines flushed since the last fence | flush, fence | access tracing | the trace shows the flush at the fence | a line is traced as flushed only after it is | `Tracing` |
| Pending reads (`cprd.cpp`, `cprd_unordered_collection.h`) | reads with label and life, free labels | read, write | dfsan | label reuse, expiry, other threads between hook and access | a `PD` line for each dependency within reach | `Dependences` |

`PROJECT.json` lists every component with its status and, under `hazards`, the
places where the code is hard to test with the properties that are about them.

## The modules

| Module | Models |
|---|---|
| `EpochClocks` | epochs, reversed epochs and the clock operations |
| `HBG` | a finished HBG and PDG, what their builders guarantee (`IsGraph`, `IsHappensBeforeClosure`, `IsPdg`), the detector's options, and the shape of recorded graphs (`IsRecorded`) |
| `RaceSpec` | abstract: a race defined on the graph alone, and a process that reports exactly the races of one `W(Y)` at a time |
| `HappensAfter` | stage 1, `_build_happens_after_vector_clocks` |
| `FindBugs` | what both versions of stage 2 share: the persistency clocks, reads, writes, flushes, `_find_bugs`, and the safety properties |
| `RaceDetector`, `RaceDetectorSlow` | `run` with the fast stage 2 and `DirtyCachelinesVector`, and with the slow one |
| `SimpleClock` | abstract: the simple model of `tsan_clock.cpp`'s opening comment, with the edges each operation logs |
| `TsanClock` | the clocks as they are: flags, dirty entries, release-store mark, shared and cached tables, reuse of thread numbers, `AcquireGlobal` |
| `ThreadRegistry` | the registry's operations as operators on a record |
| `Pthreads` | the interceptors of the four pthread functions, the start and end of threads, and libc's handles (external) |
| `Recorder` | the sync operations on simple clocks, the epochs and the lines they print |
| `Tracing` | files, mappings, the filter of repeated accesses, flushes and fences, beside what is really durable |
| `Dependences` | hooks, loads and stores, dataflow labels, pending reads, `PD` lines |
| `Executions`, `MC*` | generators of small executions, values for TLC, and properties and refinement mappings used in runs |
| `*_proofs` | the proofs about the module they are named after |

### How they are composed

- Detectors: `HappensAfter` extends `HBG` and `EpochClocks`; `FindBugs` extends
  `HappensAfter` and instantiates `RaceSpec` as `Abstract`; the detectors extend
  `FindBugs` and are shown to implement `RaceSpec`.
- Runtime clocks: `MCTsanClock` shows that `TsanClock` implements `SimpleClock`.
  `Recorder` instantiates `SimpleClock`, so it need not repeat the shortcuts.
- Trace to graph: `MCRecorder` builds from the lines of `Recorder` the graph that
  `HBGBuilder` builds, and checks that it is what `HBG` takes for granted: edges
  between nodes that exist, no cycle, and the shapes `IsRecorded` under which the
  detectors are exact (`TraceIsAsAssumed`).
- Registry to recorder: `Pthreads` shows what `Recorder` takes for granted about
  threads: numbers are unique among living threads, a thread starts after its
  creator's release and a join ends after the thread's.
- Program to trace: `Tracing` says which accesses and flushes become lines,
  `Dependences` which of them get a `PD` line, and `PdgAssertionsHold` that these
  satisfy `IsPdg`.

The compositions go by interface properties, one module's property being the
next one's assumption; there is no single module that runs a program, its
runtime and the analysis of its trace together. Its states would be those of
`Recorder` times those of an analysis for each finished trace.

## The detectors

**State.** A node is `<<thread, position>>`, as `NodeLocation` is. A Python
position starts at 0 and an absent epoch is `None`; here positions start at 1
and `None` is 0, so that the order in which `None` is least is the order of the
naturals. `last_seen`, `last_persisted` are the two halves of `pvc_per_thread`;
`epoch_seen`, `epoch_persisted` those of `pvc_per_epoch_node`; `vc_per_thread`,
`vc_per_epoch_node`, `vc_per_read_node` are stage 1's. An entry that a
`defaultdict` has not created yet is the empty clock or the empty set.
`pending_dirty` and `dirty` are a thread's `DirtyCachelinesVector`,
`epoch_dirty` an epoch node's. The slow version keeps `dirty_cachelines` and
`dirty_cachelines_vector` under their own names; `epoch_lines` holds the keys of
an epoch node's dictionary, which its last loop runs over.

**Actions.** An action is one iteration of a loop over the nodes: the `case` of
the node's type with every call in it, so `Write` contains the whole of
`_find_bugs`. Stage 1 takes any node whose children have been visited, stage 2
(which starts when stage 1 is complete) any node whose parents have been
visited: networkx yields *one* postorder and *one* topological order, which
depend on insertion order, and the models allow all of them. The order in
which an epoch node's children are told is a choice (`TellOrders`), because the
edges come out of a Python set.

**Data.** An access is a set of words and a line; the builder asserts that no
access crosses a line. Program counters, call stacks, trace line numbers, and
the counters and timers of the statistics are left out. The report's field
`ordered` is `is_write_hb_dependent`. A graph carries `past`, the nodes that
reach each node, which `IsHappensBeforeClosure` ties to the edges; races are
defined with it, and the detector's actions never look at it.

**Completeness and exactness.** Completeness (`NoMissedRace`) holds on *every*
graph. Exactness depends on how the runtime records edges.
`ThreadClock::acquire` logs an edge for each component that grows, so an edge
says something new (`EdgesTellNews`), and whatever a thread learns of another it
learns by an edge of its own (`EdgesAreDirect`). On such graphs both versions
are exact although stage 1 and the slow stage 2 do not forward at an epoch node
what they are told there; `ImplementsRaceSpec` is therefore stated of the inputs
with `IsRecorded`, and proved of all of them. On other graphs, which `HBGBuilder` accepts and the tests
contain (`src/pyprd/tests/test_prd.py:79-108`), they are not: see Findings.

## The runtime

**Clocks (`SimpleClock`, `TsanClock`).** `thr[t]` is a `ThreadClock`, `syn[s]` a
`SyncClock`, `pool` the blocks of the clock allocator with their reference
counts, `epoch[t]` the thread's `fast_state` epoch. Each operation of
`tsan_clock.cpp` is an operator on a record of the thread's clock, the object,
the pool and the edges logged (`Operands`, `Apply`), so that the operators call
one another as the functions do; the actions are their callers in
`tsan_rtl_mutex.cpp`, which set the thread's own component first. A second-level
table is one block: that a large clock is spread over several is the only detail
of the file left out. The refinement mapping reads an object's clock as
`SyncClock::get` does, a dirty entry overriding the table.

**Threads (`ThreadRegistry`, `Pthreads`).** The registry is a record; each of its
functions is an operator, and a failed `CHECK` sets `died`. `Pthreads` splits
each interceptor where other threads may run: the real call, the registry's
call, each wait of the handshake on `ThreadParam::tid`. libc gives a handle to a
new thread as soon as the old one has ended and been joined or detached.
`heard` stands for the clocks: the threads whose releases one has acquired. The
program is a correct one: one join or detach per thread, joins by the creator.

**Trace of synchronisation (`Recorder`).** One action per operation with its
acquires, releases and lines. `FuncEntry` and `FuncExit` start an epoch at both
ends of an intercepted call and of an atomic (`tsan_interface_atomic.cpp:491-505`),
so each operation finds a fresh epoch; only a signal delivered at its end does
not (`SignalHandled`). `mixed` records that this has happened after a release,
`reused` that a number was given out again: two conditions the properties name.

**Trace of accesses (`Tracing`).** A system call and its interceptor's report to
the runtime are two steps (`Mmap` and `HandleMmap`, `Munmap` and `HandleMunmap`).
`file`, `page` and `store` are the truth, `candidates`, `regions` and `trace` what
the runtime believes and prints. `shadow` is what the shadow memory says of a
thread's accesses since its last release, by which `MemoryAccess` drops repeated
ones. A page stands for one cell on one line.

**Dependences (`Dependences`).** The hook of an access and the access are two
steps. `source` is the truth, the reads a value was computed from, and `shadow`,
`info` are dfsan's labels. `pending` is the table of pending reads, with slots,
lives and labels as in `CprdThreadState`, `unused` its free labels. `Remap` is an
mmap or munmap, whose zeroing removes the labels of a cell.

## What is checked

| Run | Question | Instance | Distinct states |
|---|---|---|---|
| `fast` | Do the assertions hold, is every clock's claim true of the graph, is any race missed; is a persisted write reported where the flush was heard of through a third thread only; on recorded graphs, are exactly the races reported? | three threads; all of `AnyGraphs(3)` and `RelayedGraphs(3)`, recorded forms of `RelayGraphs(3)` and, with each option alone and all six, of `RichGraphs(1)` | 161,338 |
| `slow` | Does the slow version miss a race; is it exact on recorded graphs? | the same without `RelayedGraphs(3)` | 142,466 |
| `slow_relayed` | (violation) Is a write reported that is persisted before `W(Y)`? | `RelayedGraphs(3)` | — |
| `fast_indirect` | (violation) Is a write reported that happens after the read? | `RelayGraphs(3)` as they are | — |
| `clocks` | Do the clocks with all shortcuts do what the simple model does, edges included? | 2 threads, 2 objects, 1 dirty slot, one thread that calls `AcquireGlobal`; 2 epochs per thread, 4 in all, 2 reuses of a number | 299,480 |
| `clocks_readers` | The same under the operations of readers, with a third thread | 3 threads, 2 objects, 2 dirty slots | 637,777 |
| `threads` | Do numbers and handles stay unambiguous, do the handshakes and joins end? | main and 4 threads, 3 contexts, quarantine of 1, 2 reuses, 2 handles | 21,343 |
| `recorder` | Does the recorded graph say what the clocks know, in the shapes the detectors need? | 3 threads, an atomic, a mutex, a signal; 3 epochs per thread, 7 in all | 49,750 |
| `recorder_dag` | (violation) Is the recorded graph acyclic? | 2 threads, 4 epochs each, 6 in all | — |
| `dependences` | Are pending reads and labels kept, does each `PD` line satisfy the analysis, is each dependent write reported? | 2 threads, 2 cells on 2 lines, life and capacity 2, 5 events, 6 labels | 1,042,547 |
| `dependences_content` | (violation) Is a write of a value computed from a pending read reported? | 1 thread | — |
| `tracing` | Which pages are traced, which accesses are left out, what do the `FLUSH` lines say? | 2 threads, 2 pages, 2 descriptors, 2 mmaps, 2 accesses | 978,486 |

Every property is violated by at least one plausible error in the modelled code
(`mutants` in `PROJECT.json`; the mutated definitions stand before the ones they
alter and are commented as such).

### Properties

Detectors (`fast`; `NoMissedRace` and `ImplementsRaceSpec` also in `slow`):

- `TypeOK`: types; in particular only cache lines are dirty.
- `ChainsCanBeEntered`: a position in a persistency clock is a read or write of
  the clock's line, already visited, so `get_chain` raises no `IndexError`.
- `EpochsAdvance`: the assertion of `add_epoch` never fires, in either stage.
- `PersistedIsWitnessed`: whatever a thread's clock calls persisted has a flush
  of its line after it and before all that the thread still has to do.
- `HappensAfterIsWitnessed`: the write that a read's clock names happens after
  the read.
- `NoMissedRace`: whatever the graph's shape, an examined `W(Y)` leaves no race
  of its own unreported.
- `ImplementsRaceSpec`: on recorded graphs each step is a step of `RaceSpec` or
  leaves it unchanged: exactly the races are reported.
- `PersistedIsRelayed` (`fast`): on graphs whose edges tell news, where direct ones
  may be missing, no persisted write is reported: what has persisted goes through
  the epoch nodes of third threads, because `update_child` tells a node which
  lines its thread must pass on.

Clocks: `ImplementsSimpleClock`; `AcquireMissesNothing`, because a refinement
would take an acquire that learns nothing for no step; `ReferencesCounted`, no
table is freed under a holder and none leaks; `TypeOK` with the file's `CHECK`s.

Threads: `NeverDies`, `NumbersAreUnique`, `HandleFindsItsThread`,
`StartHearsCreator` (the handshake of `pthread_create` does its two jobs),
`JoinHearsThread`, `RegistryIsConsistent` (types, counters, queues), and two
liveness properties, `CreateEnds` and `JoinEnds`.

Recorder: `EdgeEndsAreNodes`; `EdgesEndNow`, an edge reaches no node after which
an access has been logged; `GraphIsComplete`, all a thread's clock knows the
graph says; and, unless an epoch was mixed (and no number reused),
`UnmixedIsAcyclic`, `GraphIsSound` and `TraceIsAsAssumed`.

Dependences: `NewestReadIsPending` and `LivesDiffer`, the table never fills;
`NoLabelIsLost`; `PdgAssertionsHold`; `AddressesAreReported`, a write through a
pointer computed from a pending read of another line gets its `PD` line. Its types
are proved (`TypeCorrect`) and in no run.

Tracing: `PoolIsTraced`, `TracedIsPool`, `LeftOutIsLogged`, `PersistedIsDurable`,
`DurableIsPersisted`.

**Exceptions.** Where the code does not keep a promise in a corner that no doc
or test speaks about, the property names the corner instead of leaving it out of
the model: pages another thread mapped while an `munmap` was still being
reported (`overtaken`); the first region ever mapped, which `begin()` returns even
when removed; a thread's first accesses to a page it has just mapped, which the
mmap's imitated write hides (`imitated`); stores between a flush and its fence, or
repeated after a flush, which the trace counts as persisted or does not show
(`hidden`); epochs in which a signal acquired after a release (`mixed`); and
numbers given out again (`reused`). Each is a hazard in `PROJECT.json`.

### Bounds, and why they are enough to be interesting

*Detectors.* One line `X` that is read, written and flushed and one line `Y` that
is written afterwards is what a race needs; accesses of two words of `X` tell
overlap from equality. `AnyGraphs` has up to three nodes of `X` around the read
and in the other thread and every acyclic set of up to three edges: two edges
let knowledge go to the other thread and come back, three let it go round.
`RelayGraphs` adds a thread that passes on what it never touched, with nodes that have
several children, so the order in which they are told matters; in `RelayedGraphs`
that thread may be the only way by which the reader hears of a write and its
flush, and passes them on from the epoch node where it is told or from a later one. Recorded graphs have no two children of one
thread, as the second edge would tell that thread no news. Only the child told first
would learn anything, the cell of its thread being cleared; of such graphs, which
`AnyGraphs` has, `NoMissedRace` is checked, but neither `ImplementsRaceSpec` nor
`PersistedIsRelayed` says anything of them. `RichGraphs` has non-temporal writes, reads of two words
and every option.

*Clocks.* With one dirty slot and two threads the slots overflow and are flushed
into the table; two objects share a cached block and copy it on write; the reuse
of a number makes old flags stale. Three threads and two slots are what the
scenario needs that `tsan_clock.h` gives for `global_acquire_`.

*Threads.* Four threads on three contexts, a quarantine of one and two handles: a
context is recycled while its former handle is in use again; the thread limit
is reached.

*Recorder.* Three threads are the least with an indirect path; seven epochs in
all allow a release, an acquire, a second release and a second acquire after
the threads have started.

*Dependences.* A life of 2 lets a read expire; five events are a read, its
expiry, the label's reuse and a write that is affected. *Tracing.* Two mmaps let
a page be mapped, unmapped and mapped again, or the regions hold two pages.

`CHECK_DEADLOCK FALSE` stands in the runs of the runtime's modules only: there the
program may stop, and the bounds stop it. The detectors are checked for
deadlock, and a finished analysis stutters (`Finished`).

### Fairness

`Pthreads` assumes `WF_vars(Proceeds(t))` for each thread: the operating system
keeps running a thread that is inside a call or on its way out. It assumes nothing
of what the program does: it need not call anything, join anything or let a
thread end, so `JoinEnds` speaks of threads that are ending. `ThreadJoin` spins
under the registry's lock in the code; it is one step here, enabled when
`thread_destroyed` is set. The detectors are sequential loops over a finite set
of nodes; that they cannot get stuck is the deadlock check. In the other modules
nothing waits.

## Findings

1. `fast_indirect`: stage 1 tells an epoch node's parents before it merges the
   node's own clock (`prd.py:298-305`). A `W(X)` that happens after `R(X)` along a
   path that leaves a node by the thread it entered is reported, against "If W(X)
   happens after R(X), there is no bug" (`prd.py:539`).
2. `slow_relayed`: the slow stage 2 tells the children before it merges
   (`prd.py:420-438`); the fast one merges first. With `W(X)`, `FLUSH(X)`, `e1` in
   thread 1, the single node `e2` in thread 2, `e0`, `R(X)`, `W(Y)` in thread 0 and the
   edges `e1 -> e2 -> e0`, thread 2 tells `e0` nothing and only then takes over the
   flush, and `W(X)` is reported, against "If W(X) is persisted before W(Y), there is
   no bug" (`prd.py:560`). The fast version reports no such write on these graphs
   (`PersistedIsRelayed`).
3. `recorder_dag`: a signal pending at the end of an operation that released is
   handled before the next epoch starts. What it acquires lands in the node
   others have been told of, and the graph can become cyclic, against "assert
   self.is_directed_acyclic_graph()" (`hbg.py:168`).
4. `dependences_content`: the write hook runs before the store but takes the label
   of the written value from the cell, against "Note that this works because
   __tsan_write is called after the actual WRITE event" (`cprd.cpp:183`). A copy of
   a value just read is not reported as dependent on the read.

1 and 2 are false alarms on graphs the builder accepts and the runtime does not
record; neither loses a race. 4 loses dependences, and with them races.

## What is proved

| Module | Theorem | |
|---|---|---|
| `RaceDetector_proofs` | `Invariance` | `Spec => []IInv` |
| | `TypeCorrect` | `Spec => []TypeOK` |
| | `ChainsAlwaysEntered` | `Spec => []ChainsCanBeEntered` |
| | `EpochsAlwaysAdvance` | `Spec => []EpochsAdvance` |
| | `NeverAhead` | `Spec => []PersistedNeverAheadOfSeen`: a flush forgets nothing |
| | `PersistedAlwaysWitnessed` | `Spec => []PersistedIsWitnessed` |
| | `HappensAfterAlwaysWitnessed` | `Spec => []HappensAfterIsWitnessed` |
| | `AllRacesReported` | `Spec => []NoMissedRace` |
| | `DetectorIsExact` | `Spec => ImplementsRaceSpec`: the refinement |
| | `ReportsAreTheRaces` | on recorded graphs `races` is always the races of `RaceSpec` that the writes visited so far complete |
| `RaceDetectorSlow_proofs` | `Invariance`, `TypeCorrect`, `ChainsAlwaysEntered`, `EpochsAlwaysAdvance`, `PersistedAlwaysWitnessed`, `HappensAfterAlwaysWitnessed`, `AllRacesReported`, `DetectorIsExact`, `ReportsAreTheRaces` | the same of the slow version |
| `Recorder_proofs` | `EdgesJoinPrintedNodes` | `Spec => []EdgeEndsAreNodes` |
| | `EdgesOrderNothingPast` | `Spec => EdgesEndNow` |
| | `UnmixedTraceIsAcyclic` | `Spec => []UnmixedIsAcyclic` |
| | `TraceTellsWhatClocksKnow` | `Spec => []GraphIsComplete` |
| | `TraceTellsNothingElse` | `Spec => []GraphIsSound` |
| | `TraceHasTheShape` | `Spec => []TraceIsAsAssumed` |
| `Tracing_proofs` | `TracePersistsNothingElse` | `Spec => []PersistedIsDurable` |
| | `TraceForgetsNoFlush` | `Spec => []DurableIsPersisted` |
| | `NoFirstAccessIsLeftOut` | `Spec => []LeftOutIsLogged` |
| | `PoolStaysTraced` | `Spec => []PoolIsTraced` |
| | `TracedStaysPool` | `Spec => []TracedIsPool` |
| | `TypeCorrect` | `Spec => []TypeOK` |
| `Dependences_proofs` | `TableNeverFull` | `Spec => []NewestReadIsPending` |
| | `OneExpiresAtATime` | `Spec => []LivesDiffer` |
| | `DependencesAreAccepted` | `Spec => []PdgAssertionsHold` |
| | `TypeCorrect` | `Spec => []TypeOK` |
| | `LabelsStayOwned` | `Spec => []NoLabelIsLost` |
| | `AddressesAlwaysReported` | `Spec => AddressesAreReported` |
| `Pthreads_proofs` | `RegistryNeverDies` | `Spec => []NeverDies` |
| | `NumbersStayUnique` | `Spec => []NumbersAreUnique` |
| | `HandlesFindTheirThreads` | `Spec => []HandleFindsItsThread` |
| | `StartsHearTheirCreators` | `Spec => []StartHearsCreator` |
| | `JoinsHearTheirThreads` | `Spec => []JoinHearsThread` |
| | `RegistryStaysConsistent` | `Spec => []RegistryIsConsistent` |
| `TsanClock_proofs` | `Invariance` | `Spec => []IInv` |
| | `TypeCorrect` | `Spec => []TypeOK` |
| | `ReferencesAlwaysCounted` | `Spec => []ReferencesCounted` |
| | `AcquiresMissNothing` | `Spec => []AcquireMissesNothing` |
| | `ClocksImplementTheModel` | `Spec => ImplementsSimpleClock`: the refinement |

`FindBugs_proofs` has the lemmas that the two detectors share.

**Assumptions.** `LineOfAssumption` (each word lies in a line), `InputsAssumption`
(each input satisfies `IsInput`: what the builders assert, acyclicity, and `past`
being the closure of the edges), `RecorderAssumption`, `TracingAssumption`,
`ThreadRegistryAssumption`, `PthreadsAssumption`, `TsanClockAssumption` and
`DependencesAssumption` (numbers are natural, a clock has a dirty slot, sets finite, 0 is no handle, the life of a read is at most
the capacity of the table: 30 and 1000 in `cprd.h`). TLC evaluates them in the runs. The shapes of
recorded graphs are *not* assumed, and the bounds `MaxEpoch`, `MaxEvents` and so on
are any numbers.

**Arguments.** None of the properties is inductive alone.

- *Detectors.* `IInv` adds what each clock means. Of stage 1 (`HAInv`): the visited
  nodes are closed under what follows them, and what a thread's reversed clock
  names happens after every node of the thread not visited yet; for an epoch
  node's and a read's clock, after that node. Of stage 2 (`FindInv`): the visited
  nodes are closed under what precedes them, a seen component is a visited access
  of the line that happens before every unvisited node of the thread, a persisted
  component is durable there, and persisted never exceeds seen; the same for the
  clocks left at an epoch node (`EpochInv`). `NoMissedRace` is kept because `races`
  only grows and because at `Write` a race contradicts each reason for which
  `_find_bugs` skips a candidate or stops: the clocks that give the reason are
  right. Completeness rests only on clocks never claiming too much, and a line
  that is not sent can only make them claim less; that is why the dirty vectors
  appear in `IInv` with their type alone.
  The slow version needs the same invariant: what its epoch nodes tell is older
  than what the fast version's tell, and older is as true.
- *Exactness.* The converse: on a graph with `IsRecorded` no clock claims too little.
  A path from one thread to another leaves the first by an edge from an epoch node
  and enters the second by one into an epoch node (`LastSender`, `FirstReceiver`), so
  by `EdgesAreDirect` one edge leads from the first thread, no earlier than the
  path, to the second, no later (`DirectEdge`). It is enough that news reach a thread
  by the direct edge. Of stage 1 (`HAExact`): a thread's reversed clock covers the
  writes it has visited, and the clock at the start of an edge covers the writes
  behind its end. Of stage 2 (`Exact`), for what is seen and what is persisted
  alike: news start at a source, an access or a flush of the access's line. A thread
  knows of every source before the last node it visited (`ThreadsKnow`); the node at
  the end of an edge hears of the sources before its start (`EdgesTell`: its thread
  knows, or will find it at an epoch node before that node); and so does, for a
  line that is not dirty for it, any thread that has still to hear from the
  source's (`CleanIsHeard`). The last part is what the dirty vectors are for. An epoch
  node clears a line for a thread when it tells a child of that thread; by
  `EdgesTellNews` it has one such child (`OneChild`), and what the child's thread has
  still to hear from this one comes at the child or later (`NewsComeFirst`). One
  lemma, `VisitExact`, keeps the three parts for any visit that lets clocks grow,
  takes over what was left at the node, makes a source known and its line dirty,
  and tells the children the dirty lines; each version's dirty lines (`DirtyFor`)
  are shown to be such. As a source's news travel by its own thread's edge, it does
  not matter that stage 1 and the slow stage 2 forward nothing at an epoch node
  they are only just told. Together with `IInv` the clocks then mean exactly what
  `RaceSpec` means (`PersistedExactly`, `OrderedExactly`, `LaterExactly`), so `BugsOf` is
  `RacesOf` (`BugsAreRaces`), also where the chain is entered late, the loop breaks
  or only the first bug of a thread is wanted. A step of `Write` is then `Examine`
  and every other step leaves `RaceSpec`'s variables alone (`AbstractStep`).
- *Recorder.* An edge's source is an epoch some clock held. `RecordedInv`: every
  epoch of a thread that any clock holds, a thread's or an object's, has its
  `EPOC_INC` line (`ClocksAreHeard`); a thread that has logged an access is past
  the epoch of its clock (`AccessesAreLater`), so the next operation prints a line
  of its own; a running thread has an epoch; edges' ends are nodes. Each
  operation is a `Takes` or a release followed by `Prints`, and one lemma about
  each covers all actions.
  `GraphInv`, for the paths: a running thread is in the last node of its number
  (`NodesOK`); nobody has of a thread, and no edge leaves from, an epoch after its
  last release (`ReleasedOK`); what a clock has of another thread came by an edge
  (`ClocksCome`) and a path leads on to the thread's last node (`ClocksReach`); a
  path into an epoch a clock has heard of comes from an epoch it has heard of
  (`ClocksCover`, unless an epoch was mixed or a number reused); and the two shapes
  themselves (`EdgesAreNews`, `PathsAreDirect`). `Operates` is what all operations
  have in common: the thread starts or stays in its last node, its clock becomes
  later, and each component that grows is a component of an object's clock for
  which there is a new edge into that node. If the thread has not released in
  that epoch no edge leaves the node, so new paths only lead into it
  (`PathsEndThere`), and the clock the operation leaves covers them (`OwnCovers`).
  That is where an acquire after a release in one epoch breaks the argument, and
  where a number given out again does: its first node follows nodes that the new
  thread's clock has not heard of.
- *Paths.* `MCRecorder` computes the paths by a fold over the nodes. That the fold
  is the least transitive relation with the arcs (`PathsDo`) is shown by the
  smallest set of nodes for which it is not (`FoldExists`, `PathsThrough`), and
  everything else uses only that: what is closed and has the arcs has the paths.
- *Tracing.* `DurabilityInv`: what is on its way to memory is in `flushes_cache`, so
  that a fence prints a line for all it makes durable, and the lines of
  `flushes_cache` whose store is still cached are `hidden`. `FilterInv` keeps
  `LeftOutIsLogged` with the types of the shadow and of the regions; `CallInv`
  says that an mmap still to be reported is of a page. `MappedInv`, for
  `PoolIsTraced`: the candidates are the descriptors of pools; a page whose mmap is
  still to be reported maps the file its descriptor is open on, so the region is
  made; a page whose munmap is still to be reported is not mapped, unless it was
  overtaken, so `HandleMunmap` ends no region in use. `CountInv`, for
  `TracedIsPool`: a page has no more valid regions than it has munmaps still to be
  reported, and one more if it is mapped from a pool and its mmap has been
  reported. Each `HandleMunmap` takes away one region and one report, so when all
  have been made an unmapped page has no region.
- *Dependences.* `PendingInv`: the lives of the pending reads differ and lie in
  1..Life. Each read ages the others, so at most Life - 1 remain when it is
  added with life Life: there is a slot for it. The pigeonhole step is
  `AgedTableHasRoom`, by the cardinality of the set of lives. `PdgInv`, for
  `PdgAssertionsHold`: an entry of the table is a `READ` line of its thread, and
  lines are only appended, so what a `PD` line was when it was printed it stays.
  `LabelsOK`: a label has no parts or two of lower number, and every label in
  memory, in a value, in the table or in a pool is one of those there are.
  `LabelsOwned` is `NoLabelIsLost` itself: a read that expires or is reported puts
  its label into the pool (`ReturnedKeeps`), and only a new read takes one out.
  `DepsInv`, for `AddressesAreReported`: the label of a cell, of a thread's value
  and of a value about to be stored has that of every pending read the value comes
  from, and the label of a cell about to be loaded has that of the read, unless a
  store overtook it. A union keeps what its parts have (`UnionKeeps`), new labels
  change nothing for old ones (`HasStays`), and a label that is reused is that of a
  new read, which no value comes from yet.
- *Recursive functions.* `Has` and `Returned` recurse over numbers. That such a
  function exists, is the only one, and has a property is shown by the least
  number for which it fails (`NatMin`), where the function up to the number before
  can be extended: no induction theorem with an operator parameter is needed.
- *Registry.* `IInv` of `Pthreads_proofs` says which context each thread has in each
  of its phases. A thread that needs a context has one of its own, in the status
  its phase calls for, detached exactly if somebody has settled that
  (`NumbersOK`); a handle the registry knows is that of the thread that has the
  context, and is forgotten when a join or a detach claims the thread, before
  libc can give it out again (`NamesOK`, `ClaimsOK`, `HandlesOK`); a creator in one
  of the two waits of `pthread_create` waits for the thread it made, and a starting
  thread has a creator that waits (`CreatorWaits`, `BootIsAwaited`); what a start or a
  join takes over stays in the context until it does (`SyncsOK`, `HeardOK`,
  `JoinsHear`); and queues, counters and contexts agree (`RegistryOK`). One lemma per
  operation of the registry says what it does to one context and to the queues,
  one per step of an interceptor combines them, and `QueueCounts` ties the length
  of a queue to the number of its contexts.
- *Clocks.* `IInv` of `TsanClock_proofs` is `Good`, which has five parts. Of the
  blocks (`Counted`): a block has as many references as objects and threads hold it.
  Of an object (`AtOK`): the dirty entries fill the slots in order, are of different
  threads, and each is as late as what the table has of its thread. Of a table's
  flags (`FlagOK`): a thread whose number is flagged with its present reuse knows all
  that the table says, so an acquire may look at the dirty entries alone; the same
  of the thread of the last release-store (`StoreOK`). Of a thread (`ThreadOK`): its
  own component is its epoch, `nclk_` bounds what it knows, and the table it has
  cached is its clock but for its own component. And of any clock in the system and
  any thread (`Fits`): the clock is of epochs that have been, and if it has what the
  thread did since it last learned something, it has all the thread knew of the
  others (`Told`), which is why a release may update the thread's own entry alone.
  The pool has a block for each thread and object, so an allocation always finds
  one: the free one is found by counting holders. For each operation on
  `Operands` one lemma says that it keeps these parts and that the object's clock and
  the thread's come out as the plain operation's would (`After`); `Apply` puts them
  back, where the parts about the other threads and objects survive because the
  operation changes no block somebody else holds. So each step of `Next` is the step of
  `SimpleClock` of the same name, `UpdateClockCallback` being its `Set`, with the
  same edges.

**Only model-checked.** Liveness (`CreateEnds`, `JoinEnds`), which is out of TLAPS's
reach, and `PersistedIsRelayed`, which speaks of more than the recorded graphs (on
those it follows from exactness); every other property of a passing run is stated
by a theorem. Induction along paths is out of reach too, as the library's induction theorems take an
operator as parameter: `IsHappensBeforeClosure` states the closure by its
properties (it contains the edges and program order, is transitive and
irreflexive, and every path has a first and a last edge), the detectors' proofs
take the last or first position with what they need (`NatMax`, `NatMin`), and the
recorder's use that the closure is the least. That the two shapes of `IsRecorded`
are those of the runtime's traces is a theorem about the recorded paths
(`TraceHasTheShape`); the parser between the lines and the graph is not modelled.

## Not modelled

- *The trace parser.* It splits lines and resolves the numbers of `PD` lines; what
  the lines become is in `MCRecorder` (`Arcs`) and `PdgAssertionsHold`.
- *`is_bug` and validation.* `run(validate=True)` raises before it reaches `is_bug`
  (`prd.py:519`), so nothing executes it. Its two verdicts are properties
  (`NoReportedWriteIsLater`, `NoReportedWriteIsPersisted`).
- *The passes*, but for the order they give to hook, access and label: they rewrite
  LLVM IR at compile time, instruction by instruction.
- *Of the sync operations*: recursive locking, which does nothing to the clocks;
  ignored synchronisation; repair of mutexes and fibers; in `Recorder` also
  `AcquireGlobal`, which only the Java interface calls, and `ReleaseStoreAcquire`,
  which only Go uses (both are in `TsanClock`).
- *Of the regions*: sizes, partial unmapping and `MAP_FIXED`, descriptor 0, the array
  running past its capacity, and its growth without a lock. The last two are
  undefined behaviour of a release build that `Tracing` stays clear of
  (`MaxMaps`, `HandleMmap` as one step).
- *Of the accesses*: the early returns of `MemoryAccess` for read-only data and for
  a thread that ignores reads and writes. Both are left out: a page is never
  read-only data, and no thread of `Tracing` is inside an ignored region.
- *Numbers that wrap*: epochs are printed with `%d`; no bound comes near 2^31.
- *Of the thread registry*: names, thread types, `pthread_timedjoin_np`, which
  differs from the tryjoin only in when libc gives up, and fork. In `Pthreads` only
  the creator of a thread joins it; the real join precedes `ThreadJoin`, so the
  polling of `JoinThread` seldom has to wait.
- *The rest of compiler-rt* (most of the repository's lines): platform layers, libc
  interceptors, allocators, symbolizers, other sanitizers. prd does not change or
  call them, and nothing in the trace depends on them. *Reports, tools, benchmarks
  and scripts*: input and output without a protocol.

What would come next: the builders of the graph line by line, with the daisy
chains; and a module that runs a short program, its recorder and the analysis of
its trace together.

## Running the checks

    tlc -workers 2 -config fast.cfg MCRaceDetector
    tlc -workers 2 -config slow.cfg MCRaceDetectorSlow
    tlc -workers 2 -config clocks.cfg MCTsanClock
    tlc -workers 2 -config clocks_readers.cfg MCTsanClock
    tlc -workers 2 -config threads.cfg MCPthreads
    tlc -workers 2 -config recorder.cfg MCRecorder
    tlc -workers 2 -config dependences.cfg MCDependences
    tlc -workers 2 -config tracing.cfg MCTracing

    tlc -workers 2 -config fast_indirect.cfg MCRaceDetector
    tlc -workers 2 -config slow_relayed.cfg MCRaceDetectorSlow
    tlc -workers 2 -config recorder_dag.cfg MCRecorder
    tlc -workers 2 -config dependences_content.cfg MCDependences

    tlapm FindBugs_proofs.tla
    tlapm RaceDetector_proofs.tla
    tlapm RaceDetectorSlow_proofs.tla
    tlapm Recorder_proofs.tla
    tlapm Tracing_proofs.tla
    tlapm Dependences_proofs.tla
    tlapm Pthreads_proofs.tla
    tlapm TsanClock_proofs.tla

The runs of the first block pass, in one to four minutes each on two workers;
those of the second end with the counterexamples of the findings. The proofs take
up to ten minutes a module, `TsanClock_proofs` and `Pthreads_proofs` being the longest.
