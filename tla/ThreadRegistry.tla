----------------------------- MODULE ThreadRegistry -----------------------------
(***************************************************************************)
(* The table of threads the runtime keeps: the contexts of                 *)
(* sanitizer_thread_registry.cpp with the callbacks of ThreadContext in    *)
(* tsan_rtl_thread.cpp.  Every operation runs under the registry's mutex   *)
(* and maps one state r of the registry to the next.                       *)
(*                                                                         *)
(* The clock of a context (sync) is the set of the threads whose release   *)
(* it holds.  A CHECK that fails, or a Die(), ends the process: r.died     *)
(* says why.                                                               *)
(***************************************************************************)
EXTENDS Naturals, Sequences, FiniteSets

CONSTANTS
  MaxThreads,      \* max_threads_: contexts are 0..MaxThreads-1
  QuarantineSize,  \* thread_quarantine_size_: 64 in tsan_rtl.cpp
  MaxReuse,        \* max_reuse_: how often a context is used; 0 is no limit
  Threads,         \* the threads that release to and acquire from a context
  Handles          \* pthread_t values

ASSUME ThreadRegistryAssumption ==
  /\ MaxThreads \in Nat \ {0} /\ QuarantineSize \in Nat \ {0} /\ MaxReuse \in Nat
  /\ 0 \notin Handles

Contexts == 0..(MaxThreads - 1)
NoHandle == 0
NoContext == MaxThreads                  \* kUnknownTid
Statuses == {"invalid", "created", "running", "finished", "dead"}

ContextRecords ==
  [status : Statuses, user_id : Handles \cup {NoHandle}, detached : BOOLEAN,
   destroyed : BOOLEAN, reuse_count : Nat, sync : SUBSET Threads]

Registries ==
  [ctx : [Contexts -> ContextRecords], n : 0..MaxThreads,
   dead : Seq(Contexts), invalid : Seq(Contexts),
   alive : Nat, running : Nat,
   died : {"no", "thread limit", "dup thread", "CHECK"}]

(* The constructor of ThreadContextBase. *)
NewContext ==
  [status |-> "invalid", user_id |-> NoHandle, detached |-> FALSE,
   destroyed |-> FALSE, reuse_count |-> 0, sync |-> {}]

Dies(r, why) == IF r.died = "no" THEN [r EXCEPT !.died = why] ELSE r
CHECK(r, holds) == IF holds THEN r ELSE Dies(r, "CHECK")

--------------------------------------------------------------------------------
(* What happens to one context. *)

SetDead(r, c) ==
  LET checked == CHECK(r, r.ctx[c].status \in {"running", "finished"} /\ r.ctx[c].sync = {})
  IN  [checked EXCEPT !.ctx[c].status = "dead", !.ctx[c].user_id = NoHandle]

(* SetJoined and OnJoined: the joining thread acquires sync before this.   *)
SetJoined(r, c) ==
  LET checked == CHECK(r, ~ r.ctx[c].detached /\ r.ctx[c].status = "finished")
  IN  [checked EXCEPT !.ctx[c].status = "dead", !.ctx[c].user_id = NoHandle, !.ctx[c].sync = {}]

(* Mutant of SetFinished: the thread does not release. *)
SetFinishedSilently(r, c, t) ==
  IF r.ctx[c].detached THEN r ELSE [r EXCEPT !.ctx[c].status = "finished"]

(* SetFinished and OnFinished: a detached thread does not release.         *)
SetFinished(r, c, t) ==
  IF r.ctx[c].detached THEN r
  ELSE [r EXCEPT !.ctx[c].status = "finished", !.ctx[c].sync = @ \cup {t}]

(* SetCreated and OnCreated: the creating thread releases.                 *)
SetCreated(r, c, uid, detached, t) ==
  [r EXCEPT !.ctx[c].status = "created", !.ctx[c].user_id = uid,
            !.ctx[c].detached = detached, !.ctx[c].sync = @ \cup {t}]

(* Reset and OnReset. *)
Reset(r, c) ==
  [CHECK(r, r.ctx[c].sync = {}) EXCEPT !.ctx[c].status = "invalid", !.ctx[c].destroyed = FALSE]

QuarantinePush(r, c) ==
  LET dead == Append(r.dead, c)
      d == Head(dead)
      out == [Reset(CHECK(r, r.ctx[d].status = "dead"), d) EXCEPT
                !.dead = Tail(dead), !.ctx[d].reuse_count = @ + 1]
  IN  IF c = 0 THEN r
      ELSE IF Len(dead) <= QuarantineSize THEN [r EXCEPT !.dead = dead]
      ELSE IF MaxReuse > 0 /\ out.ctx[d].reuse_count >= MaxReuse THEN out
      ELSE [out EXCEPT !.invalid = Append(@, d)]

--------------------------------------------------------------------------------
(* The registry's own operations. *)

(* The context CreateThread takes: QuarantinePop, or a new one.            *)
FreeContext(r) ==
  IF r.invalid # <<>> THEN Head(r.invalid) ELSE IF r.n < MaxThreads THEN r.n ELSE NoContext

CreateThread(r, uid, detached, t) ==
  LET c == FreeContext(r)
      taken == IF r.invalid # <<>> THEN [r EXCEPT !.invalid = Tail(@)] ELSE [r EXCEPT !.n = @ + 1]
      checked == CHECK(taken, r.ctx[c].status = "invalid")
  IN  IF c = NoContext THEN Dies(r, "thread limit")
      ELSE SetCreated([checked EXCEPT !.alive = @ + 1], c, uid, detached, t)

(* Mutant of StartThread: the thread is not counted. *)
StartThreadUncounted(r, c) ==
  [CHECK(r, r.ctx[c].status = "created") EXCEPT !.ctx[c].status = "running", !.ctx[c].sync = {}]

(* StartThread, SetStarted and OnStarted: the new thread has acquired sync.*)
StartThread(r, c) ==
  [CHECK(r, r.ctx[c].status = "created") EXCEPT
     !.ctx[c].status = "running", !.running = @ + 1, !.ctx[c].sync = {}]

(* Mutant of FinishThread: thread_destroyed is not set. *)
FinishThreadQuietly(r, c, t) ==
  LET counted == [r EXCEPT !.alive = @ - 1, !.running = @ - 1]
      finished == SetFinished(counted, c, t)
  IN  IF r.ctx[c].detached THEN QuarantinePush(SetDead(finished, c), c) ELSE finished

FinishThread(r, c, t) ==
  LET checked == CHECK(r, r.alive > 0 /\ r.running > 0 /\ r.ctx[c].status = "running")
      counted == [checked EXCEPT !.alive = @ - 1, !.running = @ - 1]
      finished == SetFinished(counted, c, t)
      buried == IF r.ctx[c].detached THEN QuarantinePush(SetDead(finished, c), c) ELSE finished
  IN  [buried EXCEPT !.ctx[c].destroyed = TRUE]

JoinThread(r, c) == QuarantinePush(SetJoined(r, c), c)

(* Mutant of DetachThread: a thread that still runs is buried too. *)
DetachThreadAtOnce(r, c) ==
  LET reset == [r EXCEPT !.ctx[c].sync = {}]
  IN  IF r.ctx[c].status = "invalid" THEN r ELSE QuarantinePush(SetDead(reset, c), c)

DetachThread(r, c) ==
  LET reset == [r EXCEPT !.ctx[c].sync = {}]
  IN  IF r.ctx[c].status = "invalid" THEN r
      ELSE IF r.ctx[c].status = "finished" THEN QuarantinePush(SetDead(reset, c), c)
      ELSE [reset EXCEPT !.ctx[c].detached = TRUE]

(* FindThread with ConsumeThreadByUid: the context named uid loses its     *)
(* name; two of them end the process.                                      *)
Named(r, uid) == {c \in Contexts : c < r.n /\ r.ctx[c].user_id = uid /\ r.ctx[c].status # "invalid"}

ConsumedTid(r, uid) == IF Named(r, uid) = {} THEN NoContext ELSE CHOOSE c \in Named(r, uid) : TRUE

(* Mutant of ThreadConsumeTid: the handle stays registered. *)
ThreadFindTid(r, uid) == IF Cardinality(Named(r, uid)) > 1 THEN Dies(r, "dup thread") ELSE r

ThreadConsumeTid(r, uid) ==
  LET named == Named(r, uid)
      zeroed == [r EXCEPT !.ctx = [c \in Contexts |->
                   IF c \in named THEN [r.ctx[c] EXCEPT !.user_id = NoHandle] ELSE r.ctx[c]]]
  IN  IF Cardinality(named) > 1 THEN Dies(zeroed, "dup thread") ELSE zeroed

SetThreadUserId(r, c, uid) ==
  [CHECK(r, r.ctx[c].status \notin {"invalid", "dead"} /\ r.ctx[c].user_id = NoHandle)
     EXCEPT !.ctx[c].user_id = uid]

(* The main thread, which Initialize creates detached and starts.          *)
InitialRegistry ==
  LET main == [NewContext EXCEPT !.status = "running", !.detached = TRUE]
  IN  [ctx |-> [c \in Contexts |-> IF c = 0 THEN main ELSE NewContext],
       n |-> 1, dead |-> <<>>, invalid |-> <<>>, alive |-> 1, running |-> 1, died |-> "no"]
================================================================================
