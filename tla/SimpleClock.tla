------------------------------ MODULE SimpleClock ------------------------------
(***************************************************************************)
(* What the clocks of the runtime promise: the "very simple model of       *)
(* operations" in the comment that opens tsan_clock.cpp, with the one      *)
(* thing this project's runtime adds to it, the happens-before edges an    *)
(* operation writes to the trace.                                          *)
(*                                                                         *)
(* clock[t][u] is the last epoch of thread u that thread t has heard of,   *)
(* sync[s][u] the last one that the synchronisation object s has.          *)
(***************************************************************************)
EXTENDS Naturals

CONSTANTS
  NThreads,    \* thread numbers are 0..NThreads-1
  Syncs        \* the objects that have a SyncClock

VARIABLES
  epoch,       \* the epoch each thread is in
  clock,       \* ThreadClock::clk_ of each thread
  sync,        \* the clock of each synchronisation object
  edges        \* the HB_EDGE lines of the last operation

vars == <<epoch, clock, sync, edges>>

Tids == 0..(NThreads - 1)
Nothing == [u \in Tids |-> 0]

Later(m, n) == IF m < n THEN n ELSE m
Join(c, d) == [u \in Tids |-> Later(c[u], d[u])]

(* One line for each component of another thread that grows:               *)
(* <<source thread, source epoch, target thread, target epoch>>.           *)
Edges(t, before, after) ==
  {<<u, after[u], t, before[t]>> : u \in {v \in Tids \ {t} : before[v] < after[v]}}

Init ==
  /\ epoch = Nothing
  /\ clock = [t \in Tids |-> Nothing]
  /\ sync = [s \in Syncs |-> Nothing]
  /\ edges = {}

Stays == UNCHANGED epoch
Advances(t) == epoch' = [epoch EXCEPT ![t] = @ + 1]

(* Every operation starts with ThreadClock::set of the thread's own epoch. *)
At(t) == [clock[t] EXCEPT ![t] = epoch'[t]]

(* The first acquire of a call is in an epoch of its own; a second one, of *)
(* another clock or by a signal handler, is in the same epoch.             *)
Acquire(t, s) ==
  /\ Stays \/ Advances(t)
  /\ UNCHANGED sync
  /\ clock' = [clock EXCEPT ![t] = Join(At(t), sync[s])]
  /\ edges' = Edges(t, At(t), clock'[t])

Release(t, s) ==
  /\ Advances(t)
  /\ clock' = [clock EXCEPT ![t] = At(t)]
  /\ sync' = [sync EXCEPT ![s] = Join(@, At(t))]
  /\ edges' = {}

ReleaseStore(t, s) ==
  /\ Advances(t)
  /\ clock' = [clock EXCEPT ![t] = At(t)]
  /\ sync' = [sync EXCEPT ![s] = At(t)]
  /\ edges' = {}

ReleaseStoreAcquire(t, s) ==
  /\ Advances(t)
  /\ clock' = [clock EXCEPT ![t] = Join(At(t), sync[s])]
  /\ sync' = [sync EXCEPT ![s] = At(t)]
  /\ edges' = Edges(t, At(t), clock'[t])

AcquireRelease(t, s) ==
  /\ Advances(t)
  /\ clock' = [clock EXCEPT ![t] = Join(At(t), sync[s])]
  /\ sync' = [sync EXCEPT ![s] = clock'[t]]
  /\ edges' = Edges(t, At(t), clock'[t])

(* A new thread gets the number t; its creator released to s.              *)
Start(t, s) ==
  LET fresh == [Nothing EXCEPT ![t] = epoch'[t]]
  IN  /\ Advances(t)
      /\ clock' = [clock EXCEPT ![t] = Join(fresh, sync[s])]
      /\ sync' = [sync EXCEPT ![s] = Nothing]
      /\ edges' = Edges(t, fresh, clock'[t])

(* AcquireGlobal takes over the epoch of one thread.                       *)
Set(t, u) ==
  /\ Stays
  /\ UNCHANGED sync
  /\ clock' = [clock EXCEPT ![t][u] = epoch[u]]
  /\ edges' = IF u = t \/ clock[t][u] = epoch[u] THEN {} ELSE {<<u, epoch[u], t, clock[t][t]>>}

Reset(s) ==
  /\ Stays
  /\ sync' = [sync EXCEPT ![s] = Nothing]
  /\ edges' = {}
  /\ UNCHANGED clock

Next ==
  \/ \E t \in Tids, s \in Syncs :
       \/ Acquire(t, s) \/ Release(t, s) \/ ReleaseStore(t, s)
       \/ ReleaseStoreAcquire(t, s) \/ AcquireRelease(t, s) \/ Start(t, s)
  \/ \E t, u \in Tids : Set(t, u)
  \/ \E s \in Syncs : Reset(s)

Spec == Init /\ [][Next]_vars
================================================================================
