-------------------------------- MODULE Pthreads --------------------------------
(***************************************************************************)
(* The interceptors of pthread_create, pthread_join, pthread_tryjoin_np    *)
(* and pthread_detach, the start and the end of a thread, and the registry *)
(* behind them.  The real functions are libc's (external): a handle names  *)
(* a thread until it has ended and was joined or detached, and may then    *)
(* name another.                                                           *)
(*                                                                         *)
(* The program is a correct one: it joins or detaches a thread at most     *)
(* once, and the one that joins is the one that created it.  The main      *)
(* thread does not end.                                                    *)
(***************************************************************************)
EXTENDS ThreadRegistry, FiniteSetsExt

CONSTANT NThreads  \* bound: threads of the program in one run

ASSUME PthreadsAssumption == NThreads \in Nat /\ Threads = 0..NThreads

VARIABLES
  reg,       \* ctx->thread_registry
  pc,        \* where each thread is
  tid,       \* thr->tid of each thread
  param,     \* the tid of the ThreadParam on the stack of each thread
  target,    \* the thread each thread is creating, joining or detaching
  arg,       \* the tid that ThreadConsumeTid has returned to it
  creator,   \* who created each thread
  handle,    \* libc: its pthread_t, as long as it is valid
  detached,  \* libc: it needs no join
  claimed,   \* the program has decided who joins or detaches it
  heard      \* the threads whose releases it has acquired

vars == <<reg, pc, tid, param, target, arg, creator, handle, detached, claimed, heard>>

Places ==
  {"unborn", "boot", "booted", "running",
   "creating", "starting",               \* in pthread_create
   "joining", "joined",                  \* in pthread_join
   "trying", "refused",                  \* in pthread_tryjoin_np
   "detaching", "unlinking",             \* in pthread_detach
   "exiting", "gone"}

TypeOK ==
  /\ reg \in Registries
  /\ pc \in [Threads -> Places]
  /\ tid \in [Threads -> Contexts \cup {NoContext}]
  /\ param \in [Threads -> Contexts]
  /\ target \in [Threads -> Threads]
  /\ arg \in [Threads -> Contexts \cup {NoContext}]
  /\ creator \in [Threads -> Threads]
  /\ handle \in [Threads -> Handles \cup {NoHandle}]
  /\ detached \in [Threads -> BOOLEAN]
  /\ claimed \in [Threads -> BOOLEAN]
  /\ heard \in [Threads -> SUBSET Threads]

Init ==
  /\ reg = InitialRegistry
  /\ pc = [t \in Threads |-> IF t = 0 THEN "running" ELSE "unborn"]
  /\ tid = [t \in Threads |-> IF t = 0 THEN 0 ELSE NoContext]
  /\ param = [t \in Threads |-> 0]
  /\ target = [t \in Threads |-> t]
  /\ arg = [t \in Threads |-> NoContext]
  /\ creator = [t \in Threads |-> t]
  /\ handle = [t \in Threads |-> NoHandle]
  /\ detached = [t \in Threads |-> FALSE]
  /\ claimed = [t \in Threads |-> t = 0]
  /\ heard = [t \in Threads |-> {}]

Unborn == {t \in Threads : pc[t] = "unborn"}

(* Thread t, at one place of its code, goes on to the next. *)
Goes(t, from, to) == reg.died = "no" /\ pc[t] = from /\ pc' = [pc EXCEPT ![t] = to]

(* A call ends: its locals are gone. *)
Returns(t) ==
  /\ target' = [target EXCEPT ![t] = t]
  /\ arg' = [arg EXCEPT ![t] = NoContext]

--------------------------------------------------------------------------------
(* pthread_create and __tsan_thread_start_func *)

(* REAL(pthread_create): the new thread is waiting for its number.         *)
RealCreate(t, h, isDetached) ==
  LET u == Min(Unborn)
  IN  /\ Unborn # {}
      /\ h \notin {handle[v] : v \in Threads}
      /\ reg.died = "no" /\ pc[t] = "running"
      /\ pc' = [pc EXCEPT ![t] = "creating", ![u] = "boot"]
      /\ param' = [param EXCEPT ![t] = 0]
      /\ target' = [target EXCEPT ![t] = u]
      /\ creator' = [creator EXCEPT ![u] = t]
      /\ handle' = [handle EXCEPT ![u] = h]
      /\ detached' = [detached EXCEPT ![u] = isDetached]
      /\ claimed' = [claimed EXCEPT ![u] = isDetached]
      /\ UNCHANGED <<reg, tid, arg, heard>>

(* ThreadCreate, and p.tid is set. *)
ThreadCreate(t) ==
  LET u == target[t]
      c == FreeContext(reg)
  IN  /\ Goes(t, "creating", "starting")
      /\ reg' = CreateThread(reg, handle[u], detached[u], t)
      /\ param' = [param EXCEPT ![t] = IF c = NoContext THEN @ ELSE c]
      /\ UNCHANGED <<tid, target, arg, creator, handle, detached, claimed, heard>>

ThreadStart(u) ==
  LET c == param[creator[u]]
  IN  /\ Goes(u, "boot", "booted")
      /\ c # 0
      /\ tid' = [tid EXCEPT ![u] = c]
      /\ heard' = [heard EXCEPT ![u] = reg.ctx[c].sync]
      /\ reg' = StartThread(reg, c)
      /\ UNCHANGED <<param, target, arg, creator, handle, detached, claimed>>

(* Mutant of Started: the creator is not told. *)
StartedSilently(u) ==
  /\ Goes(u, "booted", "running")
  /\ UNCHANGED <<reg, tid, param, target, arg, creator, handle, detached, claimed, heard>>

(* The new thread tells its creator that it has started. *)
Started(u) ==
  /\ Goes(u, "booted", "running")
  /\ param' = [param EXCEPT ![creator[u]] = 0]
  /\ UNCHANGED <<reg, tid, target, arg, creator, handle, detached, claimed, heard>>

(* Mutant of CreateReturns: the creator does not wait. *)
CreateReturnsEarly(t) ==
  /\ Goes(t, "starting", "running")
  /\ Returns(t)
  /\ UNCHANGED <<reg, tid, param, creator, handle, detached, claimed, heard>>

CreateReturns(t) ==
  /\ Goes(t, "starting", "running")
  /\ param[t] = 0
  /\ Returns(t)
  /\ UNCHANGED <<reg, tid, param, creator, handle, detached, claimed, heard>>

--------------------------------------------------------------------------------
(* pthread_join, pthread_tryjoin_np and pthread_detach *)

(* ThreadConsumeTid, on the way into one of the three. *)
Consume(t, u, into) ==
  /\ pc[u] # "unborn" /\ ~ claimed[u]
  /\ Goes(t, "running", into)
  /\ claimed' = [claimed EXCEPT ![u] = TRUE]
  /\ target' = [target EXCEPT ![t] = u]
  /\ arg' = [arg EXCEPT ![t] = ConsumedTid(reg, handle[u])]
  /\ reg' = ThreadConsumeTid(reg, handle[u])
  /\ UNCHANGED <<tid, param, creator, handle, detached, heard>>

JoinCalled(t, u)    == creator[u] = t /\ u # t /\ Consume(t, u, "joining")
TryJoinCalled(t, u) == creator[u] = t /\ u # t /\ Consume(t, u, "trying")
DetachCalled(t, u)  == (creator[u] = t \/ u = t) /\ Consume(t, u, "detaching")

(* REAL(pthread_join) and REAL(pthread_tryjoin_np) of a thread that has    *)
(* ended: its handle is free.                                              *)
RealJoin(t, from) ==
  /\ Goes(t, from, "joined")
  /\ pc[target[t]] = "gone"
  /\ handle' = [handle EXCEPT ![target[t]] = NoHandle]
  /\ UNCHANGED <<reg, tid, param, target, arg, creator, detached, claimed, heard>>

(* The loop of ThreadRegistry::JoinThread, once thread_destroyed is set.   *)
ThreadJoin(t) ==
  LET c == arg[t]
  IN  /\ Goes(t, "joined", "running")
      /\ IF c = NoContext THEN reg' = CHECK(reg, FALSE) /\ UNCHANGED heard
         ELSE IF reg.ctx[c].status = "invalid" THEN UNCHANGED <<reg, heard>>
         ELSE /\ reg.ctx[c].destroyed
              /\ heard' = [heard EXCEPT ![t] = @ \cup reg.ctx[c].sync]
              /\ reg' = JoinThread(reg, c)
      /\ Returns(t)
      /\ UNCHANGED <<tid, param, creator, handle, detached, claimed>>

(* REAL(pthread_tryjoin_np) of a thread that has not ended. *)
RealTryJoinBusy(t) ==
  /\ Goes(t, "trying", "refused")
  /\ pc[target[t]] # "gone"
  /\ UNCHANGED <<reg, tid, param, target, arg, creator, handle, detached, claimed, heard>>

(* Mutant of ThreadNotJoined: the handle is not registered again. *)
ThreadForgotten(t) ==
  /\ Goes(t, "refused", "running")
  /\ claimed' = [claimed EXCEPT ![target[t]] = FALSE]
  /\ Returns(t)
  /\ UNCHANGED <<reg, tid, param, creator, handle, detached, heard>>

ThreadNotJoined(t) ==
  /\ Goes(t, "refused", "running")
  /\ reg' = IF arg[t] = NoContext THEN CHECK(reg, FALSE)
            ELSE SetThreadUserId(reg, arg[t], handle[target[t]])
  /\ claimed' = [claimed EXCEPT ![target[t]] = FALSE]
  /\ Returns(t)
  /\ UNCHANGED <<tid, param, creator, handle, detached, heard>>

(* REAL(pthread_detach) *)
RealDetach(t) ==
  LET u == target[t]
  IN  /\ Goes(t, "detaching", "unlinking")
      /\ detached' = [detached EXCEPT ![u] = TRUE]
      /\ handle' = IF pc[u] = "gone" THEN [handle EXCEPT ![u] = NoHandle] ELSE handle
      /\ UNCHANGED <<reg, tid, param, target, arg, creator, claimed, heard>>

ThreadDetach(t) ==
  /\ Goes(t, "unlinking", "running")
  /\ reg' = IF arg[t] = NoContext THEN CHECK(reg, FALSE) ELSE DetachThread(reg, arg[t])
  /\ Returns(t)
  /\ UNCHANGED <<tid, param, creator, handle, detached, claimed, heard>>

--------------------------------------------------------------------------------
(* The end of a thread *)

(* thread_finalize, the last destructor of the thread's keys. *)
ThreadFinish(t) ==
  /\ t # 0
  /\ Goes(t, "running", "exiting")
  /\ reg' = FinishThread(reg, tid[t], t)
  /\ UNCHANGED <<tid, param, target, arg, creator, handle, detached, claimed, heard>>

(* The thread leaves the system. *)
RealExit(t) ==
  /\ Goes(t, "exiting", "gone")
  /\ handle' = IF detached[t] THEN [handle EXCEPT ![t] = NoHandle] ELSE handle
  /\ UNCHANGED <<reg, tid, param, target, arg, creator, detached, claimed, heard>>

--------------------------------------------------------------------------------
(* What a thread does once it is in a call, or on its way in or out. *)
Proceeds(t) ==
  \/ ThreadCreate(t) \/ CreateReturns(t)
  \/ ThreadStart(t) \/ Started(t)
  \/ RealJoin(t, "joining") \/ RealJoin(t, "trying") \/ ThreadJoin(t)
  \/ RealTryJoinBusy(t) \/ ThreadNotJoined(t)
  \/ RealDetach(t) \/ ThreadDetach(t)
  \/ RealExit(t)

(* What the program may have it do. *)
Calls(t) ==
  \/ \E h \in Handles, d \in BOOLEAN : RealCreate(t, h, d)
  \/ \E u \in Threads : JoinCalled(t, u) \/ TryJoinCalled(t, u) \/ DetachCalled(t, u)
  \/ ThreadFinish(t)

Next == \E t \in Threads : Proceeds(t) \/ Calls(t)

(* The operating system runs every thread; the program need not call, nor  *)
(* end, anything.                                                          *)
Fairness == \A t \in Threads : WF_vars(Proceeds(t))

Spec == Init /\ [][Next]_vars /\ Fairness
================================================================================
