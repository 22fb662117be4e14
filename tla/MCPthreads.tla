------------------------------- MODULE MCPthreads -------------------------------
(***************************************************************************)
(* The properties of the thread registry and its interceptors, and values  *)
(* for model checking.                                                     *)
(***************************************************************************)
EXTENDS Pthreads

MCThreads == 0..NThreads
Inside(t) == pc[t] \notin {"unborn", "boot"}
Registered(t) == Inside(t) /\ pc[t] \notin {"exiting", "gone"}

(* No CHECK of the registry fails and no handle names two contexts ("dup   *)
(* thread", ConsumeThreadByUid), whatever libc does with freed handles.    *)
NeverDies == reg.died \in {"no", "thread limit"}

(* Two threads that are both there have different numbers, so a clock has  *)
(* a component of its own for each, and a number is free only when its     *)
(* thread has ended.                                                       *)
NumbersAreUnique ==
  \A t, u \in Threads : t # u /\ Registered(t) /\ Registered(u) => tid[t] # tid[u]

(* What pthread_join and pthread_detach look up is the thread they name.   *)
HandleFindsItsThread ==
  \A t \in Threads :
    Inside(t) /\ ~ claimed[t] => Named(reg, handle[t]) = {tid[t]}

(* The two handshakes of pthread_create.  The ThreadParam a new thread     *)
(* reads is on the stack of a thread that is still in pthread_create, for  *)
(* this one; and once it runs it has heard of its creator: nobody detached *)
(* it, and so dropped the creator's release, before it could acquire that. *)
StartHearsCreator ==
  \A t \in Threads \ {0} :
    /\ pc[t] \in {"boot", "booted"} =>
         pc[creator[t]] \in {"creating", "starting"} /\ target[creator[t]] = t
    /\ Inside(t) => creator[t] \in heard[t]

(* A join that has returned has taken over the clock of the thread that    *)
(* ended: whatever that thread did happens before what follows.            *)
JoinHearsThread ==
  \A t \in Threads \ {0} :
    pc[t] = "gone" /\ ~ detached[t] /\ handle[t] = NoHandle /\ pc[creator[t]] = "running"
      => t \in heard[creator[t]]

(* The counters behind GetNumberOfThreads, and the queues: a context waits *)
(* in at most one, once, in the status the queue is for.                   *)
RegistryIsConsistent ==
  LET with(ss) == {c \in Contexts : reg.ctx[c].status \in ss}
      queued(q) == {q[i] : i \in DOMAIN q}
  IN  /\ TypeOK
      /\ reg.running = Cardinality(with({"running"}))
      /\ reg.alive = Cardinality(with({"created", "running"}))
      /\ queued(reg.dead) = with({"dead"}) /\ Len(reg.dead) = Cardinality(with({"dead"}))
      /\ queued(reg.invalid) \subseteq with({"invalid"})
      /\ Len(reg.invalid) = Cardinality(queued(reg.invalid))
      /\ \A c \in with({"invalid"}) : ~ reg.ctx[c].destroyed /\ reg.ctx[c].sync = {}

(* Neither handshake in pthread_create waits for ever. *)
CreateEnds ==
  \A t \in Threads : pc[t] = "creating" ~> (pc[t] = "running" \/ reg.died # "no")

(* A join of a thread that ends does. *)
JoinEnds ==
  \A t, u \in Threads :
    (pc[t] = "joining" /\ target[t] = u /\ pc[u] = "exiting")
      ~> (pc[t] = "running" \/ reg.died # "no")
================================================================================
