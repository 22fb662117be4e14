---------------------------- MODULE Pthreads_proofs ----------------------------
(***************************************************************************)
(* The thread registry never ends the process and never mixes up two       *)
(* threads, for any number of threads, contexts and handles, any           *)
(* quarantine and any limit on reuse.                                      *)
(***************************************************************************)
EXTENDS MCPthreads, FiniteSetTheorems, WellFoundedInduction, TLAPS

(* Where a thread is that has been asked to join or to detach another. *)
ClaimPlaces == {"joining", "joined", "trying", "refused", "detaching", "unlinking"}

(* Thread t is about to join or detach u. *)
Claims(t, u) == pc[t] \in ClaimPlaces /\ target[t] = u

(* u was detached or joined, and the registry knows. *)
Settled(u) == claimed[u] /\ \A t \in Threads : ~ Claims(t, u)

Ended(u) == pc[u] \in {"exiting", "gone"}

(* The threads that have a context of their own, and its number: from the  *)
(* creator's ThreadCreate to the thread's end or, if nobody had detached   *)
(* it, to its join.                                                        *)
Starting(u) == pc[u] = "boot" /\ pc[creator[u]] = "starting" /\ param[creator[u]] # 0
Placed(u) == Starting(u) \/ Registered(u) \/ (Ended(u) /\ ~ Settled(u))
Number(u) == IF pc[u] = "boot" THEN param[creator[u]] ELSE tid[u]

StatusOf(u) ==
  IF pc[u] = "boot" THEN "created" ELSE IF Ended(u) THEN "finished" ELSE "running"

--------------------------------------------------------------------------------
(* The registry by itself. *)

With(r, ss) == {c \in Contexts : r.ctx[c].status \in ss}
Queued(q) == {q[i] : i \in DOMAIN q}
OnceOnly(q) == \A i, j \in DOMAIN q : q[i] = q[j] => i = j

QueuesOK(r) ==
  /\ Queued(r.dead) = With(r, {"dead"}) /\ OnceOnly(r.dead)
  /\ Queued(r.invalid) \subseteq With(r, {"invalid"}) /\ OnceOnly(r.invalid)
  /\ 0 \notin Queued(r.invalid) /\ 0 \notin Queued(r.dead)
  /\ \A c \in Queued(r.invalid) : c < r.n
  /\ 0 < r.n

ContextsOK(r) ==
  \A c \in Contexts :
    /\ r.ctx[c].status # "invalid" => c < r.n
    /\ r.ctx[c].status \in {"dead", "invalid"} => r.ctx[c].sync = {} /\ r.ctx[c].user_id = NoHandle
    /\ r.ctx[c].status = "invalid" => ~ r.ctx[c].destroyed

CountersOK(r) ==
  /\ r.running = Cardinality(With(r, {"running"}))
  /\ r.alive = Cardinality(With(r, {"created", "running"}))

RegistryOK(r) == r \in Registries /\ QueuesOK(r) /\ ContextsOK(r) /\ CountersOK(r)

--------------------------------------------------------------------------------
(* The calls of the program by themselves. *)

BootIsAwaited ==
  \A t \in Threads \ {0} :
    /\ pc[t] \in {"boot", "booted"} =>
         pc[creator[t]] \in {"creating", "starting"} /\ target[creator[t]] = t
    /\ pc[t] # "unborn" =>
         creator[t] # t /\ pc[creator[t]] \notin {"unborn", "boot", "booted"}

CreatorWaits ==
  \A t \in Threads :
    /\ pc[t] = "creating" => pc[target[t]] = "boot" /\ param[t] = 0
    /\ pc[t] \in {"creating", "starting"} =>
         target[t] \notin {0, t} /\ creator[target[t]] = t /\ pc[target[t]] # "unborn"
    /\ pc[t] = "starting" /\ reg.died = "no" =>
         (param[t] # 0 <=> pc[target[t]] \in {"boot", "booted"})

ClaimsOK ==
  /\ \A t, u \in Threads :
       Claims(t, u) => /\ claimed[u] /\ u # 0
                       /\ arg[t] = tid[u]
                       /\ pc[u] \notin {"unborn", "boot", "booted"}
                       /\ creator[u] = t \/ (u = t /\ pc[t] \in {"detaching", "unlinking"})
  /\ \A t, v, u \in Threads : Claims(t, u) /\ Claims(v, u) => t = v
  /\ claimed[0]
  /\ \A t \in Threads : pc[t] = "joined" => pc[target[t]] = "gone"

HandlesOK ==
  /\ \A t, u \in Threads : handle[t] = handle[u] /\ handle[t] # NoHandle => t = u
  /\ \A u \in Threads : detached[u] => claimed[u]
  /\ \A u \in Threads \ {0} : pc[u] \notin {"unborn", "gone"} => handle[u] # NoHandle
  /\ \A u \in Threads \ {0} : pc[u] # "unborn" /\ ~ claimed[u] => handle[u] # NoHandle
  /\ \A t \in Threads :
       /\ pc[t] \in {"joining", "trying", "refused"} => handle[target[t]] # NoHandle
       /\ pc[t] \in ClaimPlaces \ {"unlinking"} => ~ detached[target[t]]
  /\ \A u \in Threads : pc[u] = "boot" => (detached[u] <=> claimed[u])

JoinsHear ==
  \A u \in Threads \ {0} :
    pc[u] = "gone" /\ ~ detached[u] /\ handle[u] = NoHandle =>
      (pc[creator[u]] = "joined" /\ target[creator[u]] = u) \/ u \in heard[creator[u]]

--------------------------------------------------------------------------------
(* The calls and the registry. *)

NumbersOK ==
  /\ \A u, v \in Threads : Placed(u) /\ Placed(v) /\ Number(u) = Number(v) => u = v
  /\ \A u \in Threads :
       Placed(u) => /\ Number(u) \in Contexts /\ (u # 0 => Number(u) # 0)
                    /\ reg.ctx[Number(u)].status = StatusOf(u)
                    /\ reg.ctx[Number(u)].detached <=> Settled(u)

NamesOK ==
  /\ \A c \in Contexts : reg.ctx[c].user_id # NoHandle =>
       \E u \in Threads : Placed(u) /\ Number(u) = c /\ handle[u] = reg.ctx[c].user_id
  /\ \A u \in Threads :
       Placed(u) /\ ~ claimed[u] => reg.ctx[Number(u)].user_id = handle[u]
  /\ \A t \in Threads :
       pc[t] \in ClaimPlaces => reg.ctx[tid[target[t]]].user_id = NoHandle

SyncsOK ==
  \A u \in Threads :
    Placed(u) => /\ StatusOf(u) = "created" => creator[u] \in reg.ctx[Number(u)].sync
                 /\ StatusOf(u) = "running" => reg.ctx[Number(u)].sync = {}
                 /\ StatusOf(u) = "finished" => u \in reg.ctx[Number(u)].sync

HeardOK == \A u \in Threads : Inside(u) /\ u # 0 => creator[u] \in heard[u]

(* The main thread stays. *)
MainOK == tid[0] = 0 /\ pc[0] \notin {"unborn", "boot", "booted", "exiting", "gone"}

IInv ==
  /\ TypeOK /\ NeverDies /\ RegistryOK(reg) /\ MainOK
  /\ BootIsAwaited /\ CreatorWaits /\ ClaimsOK /\ HandlesOK /\ JoinsHear /\ HeardOK
  /\ NumbersOK /\ NamesOK /\ SyncsOK
--------------------------------------------------------------------------------
(* Sets of contexts, and queues of them. *)

LEMMA NatMin == ASSUME NEW T, T \subseteq Nat, T # {} PROVE \E x \in T : \A y \in T : x <= y
<1> DEFINE R == OpToRel(<, Nat)
<1>1. IsWellFoundedOn(R, Nat)
  BY NatLessThanWellFounded
<1>2. \A x, y \in Nat : <<x, y>> \in R <=> x < y
  BY DEF OpToRel
<1> HIDE DEF R
<1>3. PICK x \in T : \A y \in T : ~ (<<y, x>> \in R)
  BY <1>1, WFMin
<1>4. ASSUME NEW y \in T PROVE x <= y
  <2>1. ~ (y < x)
    BY <1>2, <1>3, Zenon
  <2> QED BY <2>1
<1> QED BY <1>4

LEMMA WithFinite ==
  ASSUME NEW r, NEW ss
  PROVE  IsFiniteSet(With(r, ss)) /\ Cardinality(With(r, ss)) \in Nat
<1>1. IsFiniteSet(Contexts)
  BY FS_Interval, ThreadRegistryAssumption DEF Contexts
<1>2. With(r, ss) \in SUBSET Contexts
  BY DEF With
<1> QED BY <1>1, <1>2, FS_Subset, FS_CardinalityType

(* A queue that holds nothing twice is as long as the set of what it holds.*)
LEMMA QueueCounts ==
  ASSUME NEW S, NEW q \in Seq(S), OnceOnly(q)
  PROVE  Len(q) = Cardinality(Queued(q))
<1> DEFINE n == Len(q)
<1>1. n \in Nat /\ q \in [1..n -> Queued(q)]
  BY DEF Queued
<1>2. q \in Bijection(1..n, Queued(q))
  BY <1>1 DEF Queued, OnceOnly, Bijection, Injection, Surjection, IsInjective
<1>3. ExistsBijection(1..n, Queued(q))
  BY <1>2 DEF ExistsBijection
<1> QED BY <1>1, <1>3, FS_CountingElements

LEMMA AppendOnce ==
  ASSUME NEW S, NEW q \in Seq(S), NEW e \in S, OnceOnly(q), e \notin Queued(q)
  PROVE  /\ Append(q, e) \in Seq(S)
         /\ Queued(Append(q, e)) = Queued(q) \cup {e}
         /\ OnceOnly(Append(q, e))
<1> DEFINE p == Append(q, e)
<1>1. /\ p \in Seq(S) /\ Len(p) = Len(q) + 1 /\ Len(q) \in Nat
      /\ DOMAIN p = 1..(Len(q) + 1) /\ DOMAIN q = 1..Len(q)
      /\ \A i \in 1..Len(q) : p[i] = q[i]
      /\ p[Len(q) + 1] = e
  OBVIOUS
<1> HIDE DEF p
<1>2. Queued(p) = Queued(q) \cup {e}
  BY <1>1 DEF Queued
<1>3. OnceOnly(p)
  BY <1>1 DEF OnceOnly, Queued
<1> QED BY <1>1, <1>2, <1>3 DEF p

LEMMA TailOnce ==
  ASSUME NEW S, NEW q \in Seq(S), q # <<>>, OnceOnly(q)
  PROVE  /\ Head(q) \in S /\ Tail(q) \in Seq(S)
         /\ Head(q) = q[1] /\ Head(q) \in Queued(q)
         /\ Queued(Tail(q)) = Queued(q) \ {Head(q)}
         /\ OnceOnly(Tail(q))
<1> DEFINE p == Tail(q)
<1>1. /\ p \in Seq(S) /\ Len(q) \in Nat \ {0} /\ Len(p) = Len(q) - 1
      /\ DOMAIN p = 1..(Len(q) - 1) /\ DOMAIN q = 1..Len(q)
      /\ \A i \in 1..(Len(q) - 1) : p[i] = q[i + 1]
      /\ Head(q) = q[1] /\ q[1] \in S
  OBVIOUS
<1> HIDE DEF p
<1>2. Head(q) \in Queued(q)
  BY <1>1 DEF Queued
<1>3. Queued(p) \subseteq Queued(q) \ {Head(q)}
  BY <1>1 DEF Queued, OnceOnly
<1>4. ASSUME NEW e \in Queued(q) \ {Head(q)} PROVE e \in Queued(p)
  <2>1. PICK i \in 1..Len(q) : q[i] = e
    BY <1>1 DEF Queued
  <2>2. i - 1 \in 1..(Len(q) - 1) /\ p[i - 1] = q[i]
    BY <1>1, <2>1
  <2> QED BY <1>1, <2>1, <2>2 DEF Queued
<1>5. OnceOnly(p)
  BY <1>1, SMTT(30) DEF OnceOnly
<1> QED BY <1>1, <1>2, <1>3, <1>4, <1>5 DEF p
--------------------------------------------------------------------------------
(* What the operations make of a registry. *)

(* The other contexts stay as they are, or come out of quarantine. *)
OthersKept(r, s, c) ==
  \A d \in Contexts \ {c} :
    s.ctx[d] = r.ctx[d] \/ (r.ctx[d].status = "dead" /\ s.ctx[d].status = "invalid")

LEMMA ContextType ==
  ASSUME NEW r \in Registries, NEW c \in Contexts
  PROVE  r.ctx[c] \in ContextRecords
BY DEF Registries

(* The counters follow one context. *)
Runs(x) == IF x.status = "running" THEN 1 ELSE 0
Lives(x) == IF x.status \in {"created", "running"} THEN 1 ELSE 0

LEMMA CountsAfter ==
  ASSUME NEW r, NEW s, NEW ss, NEW c \in Contexts, 
         \A d \in Contexts \ {c} : s.ctx[d].status \in ss <=> r.ctx[d].status \in ss
  PROVE  Cardinality(With(s, ss)) + (IF r.ctx[c].status \in ss THEN 1 ELSE 0)
           = Cardinality(With(r, ss)) + (IF s.ctx[c].status \in ss THEN 1 ELSE 0)
<1>1. CASE r.ctx[c].status \in ss /\ s.ctx[c].status \notin ss
  <2>1. With(s, ss) = With(r, ss) \ {c} /\ c \in With(r, ss)
    BY <1>1 DEF With
  <2>2. Cardinality(With(s, ss)) = Cardinality(With(r, ss)) - 1
    BY <2>1, WithFinite, FS_RemoveElement
  <2>3. Cardinality(With(s, ss)) \in Nat /\ Cardinality(With(r, ss)) \in Nat
    BY WithFinite
  <2> QED BY <1>1, <2>2, <2>3
<1>2. CASE r.ctx[c].status \notin ss /\ s.ctx[c].status \in ss
  <2>1. With(s, ss) = With(r, ss) \cup {c} /\ c \notin With(r, ss)
    BY <1>2 DEF With
  <2>2. Cardinality(With(s, ss)) = Cardinality(With(r, ss)) + 1
    BY <2>1, WithFinite, FS_AddElement
  <2>3. Cardinality(With(s, ss)) \in Nat /\ Cardinality(With(r, ss)) \in Nat
    BY WithFinite
  <2> QED BY <1>2, <2>2, <2>3
<1>3. CASE r.ctx[c].status \in ss <=> s.ctx[c].status \in ss
  <2>1. With(s, ss) = With(r, ss)
    BY <1>3 DEF With
  <2> QED BY <1>3, <2>1
<1> QED BY <1>1, <1>2, <1>3

LEMMA CountersFollow ==
  ASSUME NEW r, NEW s, NEW c \in Contexts, CountersOK(r), OthersKept(r, s, c),
         s.running \in Nat, s.alive \in Nat,
         s.running + Runs(r.ctx[c]) = r.running + Runs(s.ctx[c]),
         s.alive + Lives(r.ctx[c]) = r.alive + Lives(s.ctx[c])
  PROVE  CountersOK(s)
<1>1. \A d \in Contexts \ {c} :
        /\ s.ctx[d].status \in {"running"} <=> r.ctx[d].status \in {"running"}
        /\ s.ctx[d].status \in {"created", "running"} <=> r.ctx[d].status \in {"created", "running"}
  BY DEF OthersKept
<1>2. Cardinality(With(s, {"running"})) + (IF r.ctx[c].status \in {"running"} THEN 1 ELSE 0)
        = Cardinality(With(r, {"running"})) + (IF s.ctx[c].status \in {"running"} THEN 1 ELSE 0)
  BY <1>1, CountsAfter, Zenon
<1>3. Cardinality(With(s, {"created", "running"})) + Lives(r.ctx[c])
        = Cardinality(With(r, {"created", "running"})) + Lives(s.ctx[c])
  BY <1>1, CountsAfter, Zenon DEF Lives
<1>4. \A x, ss : Cardinality(With(x, ss)) \in Nat
  BY WithFinite
<1>5. s.running = Cardinality(With(s, {"running"}))
  BY <1>2, <1>4 DEF CountersOK, Runs
<1>6. s.alive = Cardinality(With(s, {"created", "running"}))
  BY <1>3, <1>4 DEF CountersOK, Lives
<1> QED BY <1>5, <1>6 DEF CountersOK

(* Where nothing is queued nor dequeued. *)
LEMMA QueuesKept ==
  ASSUME NEW r, NEW s, QueuesOK(r), s.dead = r.dead, s.invalid = r.invalid, s.n = r.n,
         \A c \in Contexts : s.ctx[c].status = r.ctx[c].status
                             \/ {r.ctx[c].status, s.ctx[c].status} \cap {"dead", "invalid"} = {}
  PROVE  QueuesOK(s)
<1>1. With(s, {"dead"}) = With(r, {"dead"}) /\ With(s, {"invalid"}) = With(r, {"invalid"})
  BY DEF With
<1> QED BY <1>1 DEF QueuesOK

(* A registry with another record for one context, and other counts. *)
Put(r, c, x, alive, running) ==
  [r EXCEPT !.ctx = [r.ctx EXCEPT ![c] = x], !.alive = alive, !.running = running]

LEMMA PutType ==
  ASSUME NEW r \in Registries, NEW c \in Contexts, NEW x \in ContextRecords,
         NEW alive \in Nat, NEW running \in Nat
  PROVE  LET s == Put(r, c, x, alive, running)
         IN  /\ s \in Registries
             /\ s.ctx[c] = x /\ \A d \in Contexts \ {c} : s.ctx[d] = r.ctx[d]
             /\ s.alive = alive /\ s.running = running
             /\ s.n = r.n /\ s.dead = r.dead /\ s.invalid = r.invalid /\ s.died = r.died
<1> DEFINE ctx == [r.ctx EXCEPT ![c] = x]
           s == [r EXCEPT !.ctx = ctx, !.alive = alive, !.running = running]
<1>1. /\ ctx \in [Contexts -> ContextRecords] /\ ctx[c] = x
      /\ \A d \in Contexts \ {c} : ctx[d] = r.ctx[d]
  BY DEF Registries
<1> HIDE DEF ctx
<1>2. s \in Registries
  BY <1>1 DEF Registries
<1>3. /\ s.ctx = ctx /\ s.alive = alive /\ s.running = running
      /\ s.n = r.n /\ s.dead = r.dead /\ s.invalid = r.invalid /\ s.died = r.died
  BY DEF Registries
<1> HIDE DEF s
<1> QED BY <1>1, <1>2, <1>3 DEF Put, s, ctx

LEMMA PutKeeps ==
  ASSUME NEW r, RegistryOK(r), NEW c \in Contexts, NEW x \in ContextRecords,
         NEW alive \in Nat, NEW running \in Nat,
         {r.ctx[c].status, x.status} \cap {"dead", "invalid"} = {},
         running + Runs(r.ctx[c]) = r.running + Runs(x),
         alive + Lives(r.ctx[c]) = r.alive + Lives(x)
  PROVE  LET s == Put(r, c, x, alive, running)
         IN  /\ RegistryOK(s) /\ s.died = r.died /\ s.n = r.n
             /\ s.ctx[c] = x /\ OthersKept(r, s, c)
<1> DEFINE s == Put(r, c, x, alive, running)
<1>0. r \in Registries
  BY DEF RegistryOK
<1>1. /\ s \in Registries
      /\ s.ctx[c] = x /\ \A d \in Contexts \ {c} : s.ctx[d] = r.ctx[d]
      /\ s.alive = alive /\ s.running = running
      /\ s.n = r.n /\ s.dead = r.dead /\ s.invalid = r.invalid /\ s.died = r.died
  BY <1>0, PutType, SMTT(30)
<1> HIDE DEF s
<1>2. QueuesOK(s)
  BY <1>1, QueuesKept DEF RegistryOK
<1>5. OthersKept(r, s, c)
  BY <1>1 DEF OthersKept
<1>3. CountersOK(s)
  BY <1>1, <1>5, CountersFollow DEF RegistryOK
<1>4. ContextsOK(s)
  BY <1>1 DEF RegistryOK, ContextsOK
<1> QED BY <1>1, <1>2, <1>3, <1>4, <1>5 DEF RegistryOK, s

LEMMA CountsAreNat ==
  ASSUME NEW r, RegistryOK(r)
  PROVE  /\ r.alive \in Nat /\ r.running \in Nat
         /\ \A c \in Contexts : r.ctx[c].status = "running" => r.alive > 0 /\ r.running > 0
<1>1. r.alive \in Nat /\ r.running \in Nat
  BY DEF RegistryOK, Registries
<1>2. ASSUME NEW c \in Contexts, r.ctx[c].status = "running" PROVE r.alive > 0 /\ r.running > 0
  <2>1. With(r, {"running"}) # {} /\ With(r, {"created", "running"}) # {}
    BY <1>2 DEF With
  <2>2. Cardinality(With(r, {"running"})) # 0 /\ Cardinality(With(r, {"created", "running"})) # 0
    BY <2>1, WithFinite, FS_EmptySet
  <2> QED BY <1>1, <2>2 DEF RegistryOK, CountersOK
<1> QED BY <1>1, <1>2

LEMMA StartThreadKeeps ==
  ASSUME NEW r, RegistryOK(r), NEW c \in Contexts, r.ctx[c].status = "created"
  PROVE  LET s == StartThread(r, c)
         IN  /\ RegistryOK(s) /\ s.died = r.died /\ s.n = r.n
             /\ s.ctx[c] = [r.ctx[c] EXCEPT !.status = "running", !.sync = {}]
             /\ OthersKept(r, s, c)
<1> DEFINE x == [r.ctx[c] EXCEPT !.status = "running", !.sync = {}]
<1>1. r \in Registries /\ r.ctx[c] \in ContextRecords
  BY ContextType DEF RegistryOK
<1>2. StartThread(r, c) = Put(r, c, x, r.alive, r.running + 1)
  BY <1>1, ZenonT(60) DEF StartThread, CHECK, Registries, Put
<1>3. x \in ContextRecords /\ x.status = "running"
  BY <1>1 DEF ContextRecords, Statuses
<1> HIDE DEF x
<1>4. Runs(x) = 1 /\ Lives(x) = 1 /\ Runs(r.ctx[c]) = 0 /\ Lives(r.ctx[c]) = 1
  BY <1>3 DEF Runs, Lives
<1>5. r.alive \in Nat /\ r.running + 1 \in Nat /\ r.running \in Nat
  BY CountsAreNat
<1> QED BY <1>2, <1>3, <1>4, <1>5, PutKeeps DEF x

(* The handle uid names one context, and that is in use. *)
NamesOne(r, uid, c) == Named(r, uid) = {c} /\ r.ctx[c].status \notin {"dead", "invalid"}

LEMMA ConsumeKeeps ==
  ASSUME NEW r, RegistryOK(r), NEW c \in Contexts, NEW uid, NamesOne(r, uid, c)
  PROVE  LET s == ThreadConsumeTid(r, uid)
         IN  /\ RegistryOK(s) /\ s.died = r.died /\ s.n = r.n
             /\ ConsumedTid(r, uid) = c
             /\ s.ctx[c] = [r.ctx[c] EXCEPT !.user_id = NoHandle]
             /\ OthersKept(r, s, c)
<1> DEFINE x == [r.ctx[c] EXCEPT !.user_id = NoHandle]
           ctx == [d \in Contexts |-> IF d \in Named(r, uid) THEN [r.ctx[d] EXCEPT !.user_id = NoHandle]
                                      ELSE r.ctx[d]]
<1>1. r \in Registries /\ r.ctx[c] \in ContextRecords /\ r.ctx \in [Contexts -> ContextRecords]
  BY ContextType DEF RegistryOK, Registries
<1>11. Named(r, uid) = {c} /\ r.ctx[c].status \notin {"dead", "invalid"}
  BY DEF NamesOne
<1>2. ctx = [r.ctx EXCEPT ![c] = x]
  BY <1>1, <1>11
<1>3. ThreadConsumeTid(r, uid) = [r EXCEPT !.ctx = ctx]
  <2>1. Cardinality(Named(r, uid)) = 1
    BY <1>11, FS_Singleton
  <2> QED BY <2>1 DEF ThreadConsumeTid
<1>4. x \in ContextRecords /\ x.status = r.ctx[c].status
  BY <1>1 DEF ContextRecords
<1> HIDE DEF ctx, x
<1>5. [r EXCEPT !.ctx = ctx] = Put(r, c, x, r.alive, r.running)
  BY <1>1, <1>2 DEF Registries, Put
<1>6. Runs(x) = Runs(r.ctx[c]) /\ Lives(x) = Lives(r.ctx[c])
  BY <1>4 DEF Runs, Lives
<1>7. r.alive \in Nat /\ r.running \in Nat
  BY CountsAreNat
<1>8. ConsumedTid(r, uid) = c
  BY <1>11 DEF ConsumedTid
<1> DEFINE p == Put(r, c, x, r.alive, r.running)
<1>9. /\ RegistryOK(p) /\ p.died = r.died /\ p.n = r.n
      /\ p.ctx[c] = x /\ OthersKept(r, p, c)
  BY <1>4, <1>6, <1>7, <1>11, PutKeeps
<1>10. ThreadConsumeTid(r, uid) = p
  BY <1>3, <1>5
<1> HIDE DEF p
<1> QED BY <1>8, <1>9, <1>10 DEF x

LEMMA SetThreadUserIdKeeps ==
  ASSUME NEW r, RegistryOK(r), NEW c \in Contexts, NEW uid \in Handles \cup {NoHandle},
         r.ctx[c].status \notin {"dead", "invalid"}, r.ctx[c].user_id = NoHandle
  PROVE  LET s == SetThreadUserId(r, c, uid)
         IN  /\ RegistryOK(s) /\ s.died = r.died /\ s.n = r.n
             /\ s.ctx[c] = [r.ctx[c] EXCEPT !.user_id = uid]
             /\ OthersKept(r, s, c)
<1> DEFINE x == [r.ctx[c] EXCEPT !.user_id = uid]
<1>1. r \in Registries /\ r.ctx[c] \in ContextRecords
  BY ContextType DEF RegistryOK
<1>2. SetThreadUserId(r, c, uid) = Put(r, c, x, r.alive, r.running)
  BY <1>1 DEF SetThreadUserId, CHECK, Registries, Put
<1>3. x \in ContextRecords /\ x.status = r.ctx[c].status
  BY <1>1 DEF ContextRecords
<1> HIDE DEF x
<1>4. Runs(x) = Runs(r.ctx[c]) /\ Lives(x) = Lives(r.ctx[c])
  BY <1>3 DEF Runs, Lives
<1>5. r.alive \in Nat /\ r.running \in Nat
  BY CountsAreNat
<1> QED BY <1>2, <1>3, <1>4, <1>5, PutKeeps DEF x

(* A registry with other contexts, queues and counts. *)
Made(r, ctx, n, dead, invalid, alive, running) ==
  [r EXCEPT !.ctx = ctx, !.n = n, !.dead = dead, !.invalid = invalid,
            !.alive = alive, !.running = running]

LEMMA MadeType ==
  ASSUME NEW r \in Registries, NEW ctx \in [Contexts -> ContextRecords], NEW n \in 0..MaxThreads,
         NEW dead \in Seq(Contexts), NEW invalid \in Seq(Contexts),
         NEW alive \in Nat, NEW running \in Nat
  PROVE  LET s == Made(r, ctx, n, dead, invalid, alive, running)
         IN  /\ s \in Registries /\ s.ctx = ctx /\ s.n = n /\ s.dead = dead
             /\ s.invalid = invalid /\ s.alive = alive /\ s.running = running
             /\ s.died = r.died
<1>1. Made(r, ctx, n, dead, invalid, alive, running) \in Registries
  BY DEF Made, Registries
<1>2. LET s == Made(r, ctx, n, dead, invalid, alive, running)
      IN  /\ s.ctx = ctx /\ s.n = n /\ s.dead = dead
          /\ s.invalid = invalid /\ s.alive = alive /\ s.running = running
          /\ s.died = r.died
  BY DEF Made, Registries
<1> QED BY <1>1, <1>2

LEMMA EmptyQueue == <<>> \in Seq(Contexts) /\ Queued(<<>>) = {} /\ OnceOnly(<<>>)
BY DEF Queued, OnceOnly

LEMMA CreateThreadKeeps ==
  ASSUME NEW r, RegistryOK(r), NEW uid \in Handles \cup {NoHandle}, NEW det \in BOOLEAN,
         NEW t \in Threads, FreeContext(r) # NoContext
  PROVE  LET s == CreateThread(r, uid, det, t)
             c == FreeContext(r)
         IN  /\ RegistryOK(s) /\ s.died = r.died
             /\ c \in Contexts /\ c # 0 /\ r.ctx[c].status = "invalid"
             /\ s.ctx[c].status = "created" /\ s.ctx[c].user_id = uid
             /\ s.ctx[c].detached = det /\ s.ctx[c].sync = {t}
             /\ OthersKept(r, s, c)
<1> DEFINE s == CreateThread(r, uid, det, t)
           c == FreeContext(r)
           x == [r.ctx[c] EXCEPT !.status = "created", !.user_id = uid,
                                 !.detached = det, !.sync = @ \cup {t}]
           ctx == [r.ctx EXCEPT ![c] = x]
           n == IF r.invalid # <<>> THEN r.n ELSE r.n + 1
           invalid == IF r.invalid # <<>> THEN Tail(r.invalid) ELSE r.invalid
<1>1. /\ r \in Registries /\ r.ctx \in [Contexts -> ContextRecords]
      /\ r.n \in 0..MaxThreads /\ r.invalid \in Seq(Contexts) /\ r.dead \in Seq(Contexts)
      /\ r.alive \in Nat /\ r.running \in Nat
      /\ QueuesOK(r) /\ ContextsOK(r) /\ CountersOK(r)
  BY DEF RegistryOK, Registries
<1>2. /\ c \in Contexts /\ c # 0 /\ r.ctx[c].status = "invalid"
      /\ n \in 0..MaxThreads /\ c < n /\ r.n <= n /\ 0 < n
      /\ invalid \in Seq(Contexts) /\ OnceOnly(invalid)
      /\ Queued(invalid) \subseteq Queued(r.invalid) \ {c}
  <2>1. CASE r.invalid # <<>>
    <3>1. /\ Head(r.invalid) \in Contexts /\ Tail(r.invalid) \in Seq(Contexts)
          /\ Head(r.invalid) \in Queued(r.invalid)
          /\ Queued(Tail(r.invalid)) = Queued(r.invalid) \ {Head(r.invalid)}
          /\ OnceOnly(Tail(r.invalid))
      BY <1>1, <2>1, TailOnce DEF QueuesOK
    <3>2. c = Head(r.invalid) /\ n = r.n /\ invalid = Tail(r.invalid)
      BY <2>1 DEF FreeContext
    <3>3. c # 0 /\ c < r.n /\ r.ctx[c].status = "invalid"
      BY <1>1, <3>1, <3>2 DEF QueuesOK, With
    <3> QED BY <1>1, <3>1, <3>2, <3>3 DEF QueuesOK
  <2>2. CASE r.invalid = <<>>
    <3>1. c = r.n /\ r.n < MaxThreads /\ n = r.n + 1 /\ invalid = <<>>
      BY <2>2 DEF FreeContext
    <3>2. c \in Contexts /\ c # 0
      BY <1>1, <3>1, ThreadRegistryAssumption DEF Contexts, QueuesOK
    <3>3. r.ctx[c].status = "invalid"
      BY <1>1, <3>1, <3>2 DEF ContextsOK
    <3>4. invalid \in Seq(Contexts) /\ OnceOnly(invalid) /\ Queued(invalid) = {}
      BY <3>1, EmptyQueue
    <3>5. n \in 0..MaxThreads /\ c < n /\ r.n <= n /\ 0 < n
      BY <1>1, <3>1, ThreadRegistryAssumption
    <3> HIDE DEF c, n, invalid
    <3> QED BY <3>2, <3>3, <3>4, <3>5
  <2> QED BY <2>1, <2>2
<1>3. /\ r.ctx[c] \in ContextRecords /\ r.ctx[c].sync = {}
      /\ r.ctx[c].destroyed \in BOOLEAN
  BY <1>1, <1>2 DEF ContextsOK, ContextRecords
<1>4. s = Made(r, ctx, n, r.dead, invalid, r.alive + 1, r.running)
  <2>1. c # NoContext /\ c \in DOMAIN r.ctx
    BY <1>1, <1>2
  <2> HIDE DEF c
  <2> DEFINE q == Made(r, r.ctx, n, r.dead, invalid, r.alive + 1, r.running)
  <2>4. SetCreated(q, c, uid, det, t) = Made(r, ctx, n, r.dead, invalid, r.alive + 1, r.running)
    <3>1. q.ctx = r.ctx
      <4> HIDE DEF n, invalid
      <4> QED BY <1>1 DEF Registries, Made
    <3>2. [q EXCEPT !.ctx = ctx] = Made(r, ctx, n, r.dead, invalid, r.alive + 1, r.running)
      <4> HIDE DEF n, invalid, ctx
      <4> QED BY <1>1 DEF Registries, Made
    <3> HIDE DEF q, n, invalid
    <3>3. SetCreated(q, c, uid, det, t) = [q EXCEPT !.ctx = ctx]
      <4>1. q \in Registries
        <5> DEFINE more == r.alive + 1
                   dead == r.dead
                   running == r.running
                   rctx == r.ctx
        <5>1. /\ r \in Registries /\ rctx \in [Contexts -> ContextRecords] /\ n \in 0..MaxThreads
              /\ dead \in Seq(Contexts) /\ invalid \in Seq(Contexts) /\ more \in Nat /\ running \in Nat
          BY <1>1, <1>2
        <5> HIDE DEF n, invalid, more, dead, running, rctx
        <5>2. Made(r, rctx, n, dead, invalid, more, running) \in Registries
          BY <5>1, MadeType
        <5> QED BY <5>2 DEF q, more, dead, running, rctx
      <4> QED BY <1>1, <2>1, <3>1, <4>1, ZenonT(60) DEF SetCreated, Registries, ContextRecords
    <3> QED BY <3>2, <3>3
  <2> HIDE DEF q
  <2>2. CASE r.invalid # <<>>
    <3>1. s = SetCreated([[r EXCEPT !.invalid = Tail(@)] EXCEPT !.alive = @ + 1], c, uid, det, t)
      BY <1>2, <2>1, <2>2, Zenon DEF CreateThread, CHECK, c
    <3>2. n = r.n /\ invalid = Tail(r.invalid)
      BY <2>2
    <3> HIDE DEF n, invalid
    <3>3. [[r EXCEPT !.invalid = Tail(@)] EXCEPT !.alive = @ + 1] = q
      BY <1>1, <3>2 DEF Registries, Made, q
    <3> QED BY <2>4, <3>1, <3>3
  <2>3. CASE r.invalid = <<>>
    <3>1. s = SetCreated([[r EXCEPT !.n = @ + 1] EXCEPT !.alive = @ + 1], c, uid, det, t)
      BY <1>2, <2>1, <2>3, Zenon DEF CreateThread, CHECK, c
    <3>2. n = r.n + 1 /\ invalid = r.invalid
      BY <2>3
    <3> HIDE DEF n, invalid
    <3>3. [[r EXCEPT !.n = @ + 1] EXCEPT !.alive = @ + 1] = q
      BY <1>1, <3>2 DEF Registries, Made, q
    <3> QED BY <2>4, <3>1, <3>3
  <2> QED BY <2>2, <2>3
<1>5. /\ x \in ContextRecords /\ x.status = "created" /\ x.user_id = uid /\ x.detached = det
      /\ x.sync = {t}
  BY <1>3 DEF ContextRecords, Statuses
<1> HIDE DEF x, n, invalid, c, s
<1>6. /\ ctx \in [Contexts -> ContextRecords] /\ ctx[c] = x
      /\ \A d \in Contexts \ {c} : ctx[d] = r.ctx[d]
  BY <1>1, <1>2, <1>5
<1> HIDE DEF ctx
<1> DEFINE more == r.alive + 1
           dead == r.dead
           running == r.running
<1>7. more \in Nat /\ dead \in Seq(Contexts) /\ running \in Nat
  BY <1>1
<1> HIDE DEF more, dead, running
<1>8. /\ s \in Registries /\ s.ctx = ctx /\ s.n = n /\ s.invalid = invalid /\ s.alive = r.alive + 1
      /\ s.dead = r.dead /\ s.running = r.running /\ s.died = r.died
  <2> DEFINE m == Made(r, ctx, n, dead, invalid, more, running)
  <2>1. /\ r \in Registries /\ ctx \in [Contexts -> ContextRecords] /\ n \in 0..MaxThreads
        /\ dead \in Seq(Contexts) /\ invalid \in Seq(Contexts) /\ more \in Nat /\ running \in Nat
    BY <1>1, <1>2, <1>6, <1>7
  <2>2. m \in Registries
    BY <2>1, MadeType
  <2>3. m.ctx = ctx /\ m.n = n /\ m.invalid = invalid /\ m.alive = more
    BY <2>1, MadeType
  <2>4. m.dead = dead /\ m.running = running /\ m.died = r.died
    BY <2>1, MadeType, SMTT(30)
  <2> HIDE DEF m
  <2> QED BY <1>4, <2>2, <2>3, <2>4 DEF m, more, dead, running
<1>9. QueuesOK(s)
  <2>1. With(s, {"dead"}) = With(r, {"dead"}) /\ With(r, {"invalid"}) \ {c} \subseteq With(s, {"invalid"})
    BY <1>2, <1>5, <1>6, <1>8 DEF With
  <2>2. \A d \in Queued(invalid) : d < n
    BY <1>1, <1>2 DEF QueuesOK, With, Contexts
  <2> QED BY <1>1, <1>2, <1>8, <2>1, <2>2 DEF QueuesOK
<1>10. ContextsOK(s)
  <2> SUFFICES ASSUME NEW d \in Contexts
               PROVE  /\ s.ctx[d].status # "invalid" => d < s.n
                      /\ s.ctx[d].status \in {"dead", "invalid"} =>
                           s.ctx[d].sync = {} /\ s.ctx[d].user_id = NoHandle
                      /\ s.ctx[d].status = "invalid" => ~ s.ctx[d].destroyed
    BY DEF ContextsOK
  <2>1. CASE d = c
    BY <1>2, <1>5, <1>6, <1>8, <2>1
  <2>2. CASE d # c
    <3>1. s.ctx[d] = r.ctx[d] /\ d \in Int /\ r.n \in Int /\ n \in Int
      BY <1>1, <1>2, <1>6, <1>8, <2>2, ThreadRegistryAssumption DEF Contexts
    <3> QED BY <1>1, <1>2, <1>8, <3>1 DEF ContextsOK
  <2> QED BY <2>1, <2>2
<1>12. OthersKept(r, s, c)
  BY <1>6, <1>8 DEF OthersKept
<1>11. CountersOK(s)
  <2>2. Runs(s.ctx[c]) = 0 /\ Lives(s.ctx[c]) = 1 /\ Runs(r.ctx[c]) = 0 /\ Lives(r.ctx[c]) = 0
    BY <1>2, <1>5, <1>6, <1>8 DEF Runs, Lives
  <2> QED BY <1>1, <1>2, <1>8, <2>2, <1>12, CountersFollow, SMTT(30)
<1> QED BY <1>2, <1>5, <1>6, <1>8, <1>9, <1>10, <1>11, <1>12 DEF RegistryOK, s, c
--------------------------------------------------------------------------------
(* A context that has died and is not in quarantine yet. *)
BuriedOK(r, c) ==
  /\ r \in Registries /\ ContextsOK(r) /\ CountersOK(r)
  /\ r.ctx[c].status = "dead" /\ c # 0
  /\ Queued(r.dead) = With(r, {"dead"}) \ {c} /\ OnceOnly(r.dead)
  /\ Queued(r.invalid) \subseteq With(r, {"invalid"}) /\ OnceOnly(r.invalid)
  /\ 0 \notin Queued(r.invalid) /\ 0 \notin Queued(r.dead)
  /\ \A d \in Queued(r.invalid) : d < r.n
  /\ 0 < r.n

(* The registry once the oldest context d has left the quarantine. *)
LEMMA ReleaseKeeps ==
  ASSUME NEW r, NEW c \in Contexts, BuriedOK(r, c),
         NEW d \in Contexts, d \in Queued(r.dead),
         NEW s \in Registries, NEW y \in ContextRecords,
         s.ctx[d] = y, \A e \in Contexts \ {d} : s.ctx[e] = r.ctx[e],
         y.status = "invalid", ~ y.destroyed, y.sync = {}, y.user_id = NoHandle,
         s.n = r.n, s.alive = r.alive, s.running = r.running,
         Queued(s.dead) = (Queued(r.dead) \cup {c}) \ {d}, OnceOnly(s.dead),
         Queued(s.invalid) \subseteq Queued(r.invalid) \cup {d}, OnceOnly(s.invalid)
  PROVE  RegistryOK(s)
<1>1. d # c /\ r.ctx[d].status = "dead" /\ d # 0 /\ d < r.n
  BY DEF BuriedOK, With, ContextsOK
<1>2. With(s, {"dead"}) = With(r, {"dead"}) \ {d} /\ With(s, {"invalid"}) = With(r, {"invalid"}) \cup {d}
  BY <1>1 DEF With
<1>3. c \in With(r, {"dead"})
  BY DEF BuriedOK, With
<1>4. QueuesOK(s)
  BY <1>1, <1>2, <1>3 DEF QueuesOK, BuriedOK
<1>5. ContextsOK(s)
  BY <1>1 DEF ContextsOK, BuriedOK
<1>6. CountersOK(s)
  <2>1. OthersKept(r, s, d)
    BY DEF OthersKept
  <2>2. Runs(y) = 0 /\ Lives(y) = 0 /\ Runs(r.ctx[d]) = 0 /\ Lives(r.ctx[d]) = 0
    BY <1>1 DEF Runs, Lives
  <2>3. r.alive \in Nat /\ r.running \in Nat
    BY DEF BuriedOK, Registries
  <2> QED BY <2>1, <2>2, <2>3, CountersFollow DEF BuriedOK
<1> QED BY <1>4, <1>5, <1>6 DEF RegistryOK

LEMMA EnqueueKeeps ==
  ASSUME NEW r, NEW c \in Contexts, BuriedOK(r, c), NEW dead \in Seq(Contexts),
         Queued(dead) = Queued(r.dead) \cup {c}, OnceOnly(dead)
  PROVE  LET s == [r EXCEPT !.dead = dead]
         IN  RegistryOK(s) /\ s.died = r.died /\ s.n = r.n /\ s.ctx = r.ctx
<1> DEFINE s == [r EXCEPT !.dead = dead]
<1>1. /\ s \in Registries /\ s.ctx = r.ctx /\ s.n = r.n /\ s.invalid = r.invalid /\ s.died = r.died
      /\ s.dead = dead /\ s.alive = r.alive /\ s.running = r.running
  BY DEF BuriedOK, Registries
<1> HIDE DEF s
<1>2. \A ss : With(s, ss) = With(r, ss)
  BY <1>1 DEF With
<1>3. c \in With(r, {"dead"})
  BY DEF BuriedOK, With
<1>4. QueuesOK(s)
  BY <1>1, <1>2, <1>3 DEF QueuesOK, BuriedOK
<1>5. ContextsOK(s) /\ CountersOK(s)
  BY <1>1, <1>2 DEF ContextsOK, CountersOK, BuriedOK
<1> QED BY <1>1, <1>4, <1>5 DEF RegistryOK, s

LEMMA QuarantinePushKeeps ==
  ASSUME NEW r, NEW c \in Contexts, BuriedOK(r, c)
  PROVE  LET s == QuarantinePush(r, c)
         IN  /\ RegistryOK(s) /\ s.died = r.died /\ s.n = r.n
             /\ s.ctx[c] = r.ctx[c] /\ OthersKept(r, s, c)
<1> DEFINE dead == Append(r.dead, c)
           d == Head(dead)
<1>1. /\ r \in Registries /\ r.ctx \in [Contexts -> ContextRecords]
      /\ r.dead \in Seq(Contexts) /\ r.invalid \in Seq(Contexts)
      /\ OnceOnly(r.dead) /\ OnceOnly(r.invalid) /\ c \notin Queued(r.dead) /\ c # 0
  BY DEF BuriedOK, Registries
<1>2. dead \in Seq(Contexts) /\ Queued(dead) = Queued(r.dead) \cup {c} /\ OnceOnly(dead)
  BY <1>1, AppendOnce
<1>3. CASE Len(dead) <= QuarantineSize
  <2>1. QuarantinePush(r, c) = [r EXCEPT !.dead = dead]
    BY <1>1, <1>3 DEF QuarantinePush
  <2> HIDE DEF dead
  <2> DEFINE s == [r EXCEPT !.dead = dead]
  <2>2. RegistryOK(s) /\ s.died = r.died /\ s.n = r.n /\ s.ctx = r.ctx
    BY <1>2, EnqueueKeeps
  <2>3. s.ctx[c] = r.ctx[c] /\ OthersKept(r, s, c)
    BY <2>2 DEF OthersKept
  <2> HIDE DEF s
  <2> QED BY <2>1, <2>2, <2>3 DEF s
<1>4. CASE ~ (Len(dead) <= QuarantineSize)
  <2>1. Len(r.dead) >= 1 /\ dead # <<>> /\ Head(dead) = Head(r.dead)
    <3>1. Len(dead) = Len(r.dead) + 1 /\ Len(r.dead) \in Nat /\ Len(dead) > QuarantineSize
      BY <1>1, <1>4, ThreadRegistryAssumption
    <3>2. Len(r.dead) >= 1
      BY <3>1, ThreadRegistryAssumption
    <3> QED BY <1>1, <3>2
  <2>2. d \in Contexts /\ d \in Queued(r.dead) /\ d # c
    <3>1. r.dead # <<>>
      BY <2>1
    <3>2. Head(r.dead) \in Contexts /\ Head(r.dead) \in Queued(r.dead)
      BY <1>1, <3>1, TailOnce
    <3> QED BY <1>1, <2>1, <3>2
  <2>3. /\ Tail(dead) \in Seq(Contexts) /\ OnceOnly(Tail(dead))
        /\ Queued(Tail(dead)) = (Queued(r.dead) \cup {c}) \ {d}
    BY <1>2, <2>1, TailOnce
  <2> DEFINE rest == Tail(dead)
             y == [r.ctx[d] EXCEPT !.status = "invalid", !.destroyed = FALSE,
                                   !.reuse_count = r.ctx[d].reuse_count + 1]
             ctx == [r.ctx EXCEPT ![d] = y]
             q == [r EXCEPT !.ctx = ctx, !.dead = rest]
             out == [Reset(CHECK(r, r.ctx[d].status = "dead"), d) EXCEPT
                       !.dead = Tail(dead), !.ctx[d].reuse_count = @ + 1]
             s == QuarantinePush(r, c)
  <2>4. s \in {out, [out EXCEPT !.invalid = Append(@, d)]}
    BY <1>1, <1>4 DEF QuarantinePush
  <2> HIDE DEF d, dead, s
  <2>5. /\ r.ctx[d] \in ContextRecords /\ r.ctx[d].status = "dead" /\ r.ctx[d].sync = {}
        /\ r.ctx[d].user_id = NoHandle
    BY <1>1, <2>2 DEF BuriedOK, ContextsOK, With
  <2>6. out = q
    <3>1. CHECK(r, r.ctx[d].status = "dead") = r /\ CHECK(r, r.ctx[d].sync = {}) = r
      BY <2>5 DEF CHECK
    <3>2. Reset(r, d) = [r EXCEPT !.ctx[d].status = "invalid", !.ctx[d].destroyed = FALSE]
      BY <3>1 DEF Reset
    <3> DEFINE z == [r.ctx[d] EXCEPT !.status = "invalid", !.destroyed = FALSE]
               reset == [r EXCEPT !.ctx = [r.ctx EXCEPT ![d] = z]]
    <3>3. Reset(r, d) = reset
      BY <1>1, <2>2, <2>5, <3>2 DEF Registries, ContextRecords
    <3>4. y = [z EXCEPT !.reuse_count = z.reuse_count + 1] /\ z \in ContextRecords
      BY <2>5 DEF ContextRecords, Statuses
    <3> HIDE DEF z
    <3>5. reset \in Registries /\ reset.ctx[d] = z
      BY <1>1, <2>2, <3>4 DEF Registries
    <3>6. out = [reset EXCEPT !.dead = rest, !.ctx[d].reuse_count = @ + 1]
      BY <3>1, <3>3
    <3> HIDE DEF out
    <3>7. out = [reset EXCEPT !.ctx = [reset.ctx EXCEPT ![d] = [z EXCEPT !.reuse_count = z.reuse_count + 1]],
                              !.dead = rest]
      <4> HIDE DEF reset, rest
      <4> QED BY <2>2, <3>4, <3>5, <3>6 DEF Registries, ContextRecords
    <3>8. out = [reset EXCEPT !.ctx = [reset.ctx EXCEPT ![d] = y], !.dead = rest]
      BY <3>4, <3>7
    <3> HIDE DEF y, rest
    <3> QED BY <1>1, <2>2, <3>8 DEF Registries
  <2>7. y \in ContextRecords /\ y.status = "invalid" /\ ~ y.destroyed /\ y.sync = {} /\ y.user_id = NoHandle
    <3>1. r.ctx[d].reuse_count + 1 \in Nat
      BY <2>5 DEF ContextRecords
    <3> QED BY <2>5, <3>1 DEF ContextRecords, Statuses
  <2> HIDE DEF y, rest, out
  <2>8. /\ ctx \in [Contexts -> ContextRecords] /\ ctx[d] = y
        /\ \A e \in Contexts \ {d} : ctx[e] = r.ctx[e]
    BY <1>1, <2>2, <2>7
  <2>9. d \notin Queued(r.invalid)
    BY <2>5 DEF BuriedOK, With
  <2>10. /\ Append(r.invalid, d) \in Seq(Contexts) /\ OnceOnly(Append(r.invalid, d))
         /\ Queued(Append(r.invalid, d)) = Queued(r.invalid) \cup {d}
    BY <1>1, <2>2, <2>9, AppendOnce
  <2> HIDE DEF ctx
  <2>11. PICK invalid \in Seq(Contexts) :
           /\ s = [r EXCEPT !.ctx = ctx, !.dead = rest, !.invalid = invalid]
           /\ OnceOnly(invalid) /\ Queued(invalid) \subseteq Queued(r.invalid) \cup {d}
    <3>1. CASE s = out
      <4>1. s = [r EXCEPT !.ctx = ctx, !.dead = rest, !.invalid = r.invalid]
        BY <1>1, <2>6, <3>1 DEF Registries
      <4> QED BY <1>1, <4>1
    <3>2. CASE s = [out EXCEPT !.invalid = Append(@, d)]
      <4>1. s = [r EXCEPT !.ctx = ctx, !.dead = rest, !.invalid = Append(r.invalid, d)]
        BY <1>1, <2>6, <3>2 DEF Registries
      <4> QED BY <2>10, <4>1
    <3> QED BY <2>4, <3>1, <3>2
  <2>12. rest \in Seq(Contexts)
    BY <2>3 DEF rest
  <2>13. s \in Registries
    BY <1>1, <2>8, <2>11, <2>12 DEF Registries
  <2>14. /\ s.ctx = ctx /\ s.n = r.n /\ s.dead = rest /\ s.invalid = invalid
         /\ s.alive = r.alive /\ s.running = r.running /\ s.died = r.died
    BY <1>1, <2>11 DEF Registries
  <2>15. RegistryOK(s)
    <3>1. /\ s.ctx[d] = y /\ \A e \in Contexts \ {d} : s.ctx[e] = r.ctx[e]
          /\ s.n = r.n /\ s.alive = r.alive /\ s.running = r.running
      BY <2>8, <2>14
    <3>2. /\ Queued(s.dead) = (Queued(r.dead) \cup {c}) \ {d} /\ OnceOnly(s.dead)
          /\ Queued(s.invalid) \subseteq Queued(r.invalid) \cup {d} /\ OnceOnly(s.invalid)
      BY <2>3, <2>11, <2>14 DEF rest
    <3>3. d \in Contexts /\ d \in Queued(r.dead)
      BY <2>2
    <3> QED BY <2>7, <2>13, <3>1, <3>2, <3>3, ReleaseKeeps, ZenonT(60)
  <2>16. s.ctx[c] = r.ctx[c] /\ OthersKept(r, s, c)
    BY <2>2, <2>5, <2>7, <2>8, <2>14 DEF OthersKept
  <2> QED BY <2>14, <2>15, <2>16 DEF s
<1> QED BY <1>3, <1>4

(* A context dies and goes into quarantine. *)
LEMMA Burial ==
  ASSUME NEW r, RegistryOK(r), NEW c \in Contexts, c # 0, NEW x \in ContextRecords,
         NEW alive \in Nat, NEW running \in Nat,
         r.ctx[c].status \notin {"dead", "invalid"},
         x.status = "dead", x.sync = {}, x.user_id = NoHandle,
         running + Runs(r.ctx[c]) = r.running, alive + Lives(r.ctx[c]) = r.alive
  PROVE  LET s == QuarantinePush(Put(r, c, x, alive, running), c)
         IN  /\ RegistryOK(s) /\ s.died = r.died /\ s.n = r.n
             /\ s.ctx[c] = x /\ OthersKept(r, s, c)
<1> DEFINE p == Put(r, c, x, alive, running)
           s == QuarantinePush(p, c)
<1>1. /\ p \in Registries
      /\ p.ctx[c] = x /\ \A d \in Contexts \ {c} : p.ctx[d] = r.ctx[d]
      /\ p.alive = alive /\ p.running = running
      /\ p.n = r.n /\ p.dead = r.dead /\ p.invalid = r.invalid /\ p.died = r.died
  BY PutType DEF RegistryOK
<1> HIDE DEF p
<1>2. /\ With(p, {"dead"}) = With(r, {"dead"}) \cup {c} /\ c \notin With(r, {"dead"})
      /\ With(p, {"invalid"}) = With(r, {"invalid"})
  BY <1>1 DEF With
<1>3. CountersOK(p)
  <2>1. OthersKept(r, p, c)
    BY <1>1 DEF OthersKept
  <2>2. Runs(x) = 0 /\ Lives(x) = 0
    BY DEF Runs, Lives
  <2>3. r.alive \in Nat /\ r.running \in Nat /\ CountersOK(r)
    BY DEF RegistryOK, Registries
  <2> QED BY <1>1, <2>1, <2>2, <2>3, CountersFollow
<1>4. ContextsOK(p)
  BY <1>1 DEF RegistryOK, ContextsOK
<1>5. BuriedOK(p, c)
  BY <1>1, <1>2, <1>3, <1>4 DEF BuriedOK, RegistryOK, QueuesOK
<1>6. RegistryOK(s) /\ s.died = p.died /\ s.n = p.n /\ s.ctx[c] = p.ctx[c] /\ OthersKept(p, s, c)
  BY <1>5, QuarantinePushKeeps
<1> HIDE DEF s
<1>7. OthersKept(r, s, c)
  BY <1>1, <1>6 DEF OthersKept
<1> QED BY <1>1, <1>6, <1>7 DEF s, p

LEMMA JoinThreadKeeps ==
  ASSUME NEW r, RegistryOK(r), NEW c \in Contexts, c # 0,
         r.ctx[c].status = "finished", ~ r.ctx[c].detached
  PROVE  LET s == JoinThread(r, c)
         IN  RegistryOK(s) /\ s.died = r.died /\ s.ctx[c].status = "dead" /\ OthersKept(r, s, c)
<1> DEFINE x == [r.ctx[c] EXCEPT !.status = "dead", !.user_id = NoHandle, !.sync = {}]
           s == JoinThread(r, c)
<1>1. r \in Registries /\ r.ctx[c] \in ContextRecords
  BY ContextType DEF RegistryOK
<1>2. SetJoined(r, c) = Put(r, c, x, r.alive, r.running)
  BY <1>1, ZenonT(60) DEF SetJoined, CHECK, Registries, Put
<1>3. x \in ContextRecords /\ x.status = "dead" /\ x.sync = {} /\ x.user_id = NoHandle
  BY <1>1 DEF ContextRecords, Statuses
<1> HIDE DEF x
<1>4. s = QuarantinePush(Put(r, c, x, r.alive, r.running), c)
  BY <1>2 DEF JoinThread
<1> HIDE DEF s
<1>5. Runs(r.ctx[c]) = 0 /\ Lives(r.ctx[c]) = 0
  BY DEF Runs, Lives
<1> DEFINE alive == r.alive
           running == r.running
<1>6. alive \in Nat /\ running \in Nat /\ running + Runs(r.ctx[c]) = r.running /\ alive + Lives(r.ctx[c]) = r.alive
  BY <1>5, CountsAreNat
<1>7. s = QuarantinePush(Put(r, c, x, alive, running), c)
  BY <1>4
<1> HIDE DEF alive, running
<1>8. RegistryOK(s) /\ s.died = r.died /\ s.n = r.n /\ s.ctx[c] = x /\ OthersKept(r, s, c)
  BY <1>3, <1>6, <1>7, Burial
<1> QED BY <1>3, <1>8 DEF s

LEMMA DeadShape ==
  ASSUME NEW r \in Registries, NEW c \in Contexts
  PROVE  [r EXCEPT !.ctx[c].status = "dead", !.ctx[c].user_id = NoHandle]
           = Put(r, c, [r.ctx[c] EXCEPT !.status = "dead", !.user_id = NoHandle], r.alive, r.running)
BY DEF Registries, Put

LEMMA FinishedShape ==
  ASSUME NEW r \in Registries, NEW c \in Contexts, NEW t
  PROVE  [[r EXCEPT !.ctx[c].status = "finished", !.ctx[c].sync = @ \cup {t}]
            EXCEPT !.ctx[c].destroyed = TRUE]
           = Put(r, c, [r.ctx[c] EXCEPT !.status = "finished", !.sync = @ \cup {t}, !.destroyed = TRUE],
                 r.alive, r.running)
<1> DEFINE x == [r.ctx[c] EXCEPT !.status = "finished", !.sync = @ \cup {t}]
           p == [r EXCEPT !.ctx = [r.ctx EXCEPT ![c] = x]]
<1>1. [r EXCEPT !.ctx[c].status = "finished", !.ctx[c].sync = @ \cup {t}] = p
  BY DEF Registries
<1>2. p.ctx[c] = x
  BY DEF Registries
<1>3. [p EXCEPT !.ctx[c].destroyed = TRUE]
        = [p EXCEPT !.ctx = [p.ctx EXCEPT ![c] = [p.ctx[c] EXCEPT !.destroyed = TRUE]]]
  OBVIOUS
<1>4. [r.ctx[c] EXCEPT !.status = "finished", !.sync = @ \cup {t}, !.destroyed = TRUE]
        = [x EXCEPT !.destroyed = TRUE]
  BY DEF Registries, ContextRecords
<1> HIDE DEF x
<1>5. [p EXCEPT !.ctx = [p.ctx EXCEPT ![c] = [x EXCEPT !.destroyed = TRUE]]]
        = Put(r, c, [x EXCEPT !.destroyed = TRUE], r.alive, r.running)
  BY DEF Registries, Put
<1> HIDE DEF p
<1> QED BY <1>1, <1>2, <1>3, <1>4, <1>5 DEF x

LEMMA DetachFinishedKeeps ==
  ASSUME NEW r, RegistryOK(r), NEW c \in Contexts, c # 0, r.ctx[c].status = "finished"
  PROVE  LET s == DetachThread(r, c)
         IN  RegistryOK(s) /\ s.died = r.died /\ s.ctx[c].status = "dead" /\ OthersKept(r, s, c)
<1> DEFINE w == [r.ctx[c] EXCEPT !.sync = {}]
           x == [w EXCEPT !.status = "dead", !.user_id = NoHandle]
           s == DetachThread(r, c)
           reset == [r EXCEPT !.ctx[c].sync = {}]
<1>1. r \in Registries /\ r.ctx[c] \in ContextRecords
  BY ContextType DEF RegistryOK
<1>2. w \in ContextRecords /\ w.status = "finished" /\ w.sync = {}
  BY <1>1 DEF ContextRecords
<1>3. reset = Put(r, c, w, r.alive, r.running)
  BY <1>1 DEF Registries, Put
<1> HIDE DEF w
<1>4. x \in ContextRecords /\ x.status = "dead" /\ x.sync = {} /\ x.user_id = NoHandle
  BY <1>2 DEF ContextRecords, Statuses
<1>5. SetDead(reset, c) = Put(r, c, x, r.alive, r.running)
  <2>1. reset \in Registries /\ reset.ctx[c] = w
    <3> DEFINE alive == r.alive
               running == r.running
    <3>1. reset = Put(r, c, w, alive, running)
      BY <1>3
    <3>2. alive \in Nat /\ running \in Nat
      BY CountsAreNat
    <3> HIDE DEF reset, alive, running
    <3> QED BY <1>1, <1>2, <3>1, <3>2, PutType
  <2>2. SetDead(reset, c) = [reset EXCEPT !.ctx[c].status = "dead", !.ctx[c].user_id = NoHandle]
    <3> HIDE DEF reset
    <3> QED BY <1>2, <2>1 DEF SetDead, CHECK
  <2>3. SetDead(reset, c) = Put(reset, c, x, reset.alive, reset.running)
    <3> HIDE DEF reset
    <3> QED BY <2>1, <2>2, DeadShape
  <2> HIDE DEF x, reset
  <2>4. Put(reset, c, x, reset.alive, reset.running) = Put(r, c, x, r.alive, r.running)
    BY <1>1, <1>3, ZenonT(60) DEF Registries, Put
  <2> QED BY <2>3, <2>4
<1>6. s = QuarantinePush(Put(r, c, x, r.alive, r.running), c)
  BY <1>5 DEF DetachThread
<1> HIDE DEF x, s, reset
<1>7. Runs(r.ctx[c]) = 0 /\ Lives(r.ctx[c]) = 0
  BY DEF Runs, Lives
<1> DEFINE alive == r.alive
           running == r.running
<1>8. alive \in Nat /\ running \in Nat /\ running + Runs(r.ctx[c]) = r.running /\ alive + Lives(r.ctx[c]) = r.alive
  BY <1>7, CountsAreNat
<1>9. s = QuarantinePush(Put(r, c, x, alive, running), c)
  BY <1>6
<1> HIDE DEF alive, running
<1>10. RegistryOK(s) /\ s.died = r.died /\ s.n = r.n /\ s.ctx[c] = x /\ OthersKept(r, s, c)
  BY <1>4, <1>8, <1>9, Burial
<1> QED BY <1>4, <1>10 DEF s

LEMMA DetachRunningKeeps ==
  ASSUME NEW r, RegistryOK(r), NEW c \in Contexts, r.ctx[c].status = "running"
  PROVE  LET s == DetachThread(r, c)
         IN  /\ RegistryOK(s) /\ s.died = r.died
             /\ s.ctx[c] = [r.ctx[c] EXCEPT !.sync = {}, !.detached = TRUE]
             /\ OthersKept(r, s, c)
<1> DEFINE x == [r.ctx[c] EXCEPT !.sync = {}, !.detached = TRUE]
<1>1. r \in Registries /\ r.ctx[c] \in ContextRecords
  BY ContextType DEF RegistryOK
<1>2. DetachThread(r, c) = Put(r, c, x, r.alive, r.running)
  BY <1>1 DEF DetachThread, Registries, Put
<1>3. x \in ContextRecords /\ x.status = "running"
  BY <1>1 DEF ContextRecords
<1> HIDE DEF x
<1>4. Runs(x) = 1 /\ Lives(x) = 1 /\ Runs(r.ctx[c]) = 1 /\ Lives(r.ctx[c]) = 1
  BY <1>3 DEF Runs, Lives
<1>5. r.alive \in Nat /\ r.running \in Nat
  BY CountsAreNat
<1> QED BY <1>2, <1>3, <1>4, <1>5, PutKeeps DEF x


(* Another record for a context that stays as it is for everybody else. *)
LEMMA PutSameKeeps ==
  ASSUME NEW r, RegistryOK(r), NEW c \in Contexts, NEW x \in ContextRecords,
         x.status = r.ctx[c].status, x.status # "invalid",
         x.sync = r.ctx[c].sync, x.user_id = r.ctx[c].user_id,
         NEW alive, NEW running, alive = r.alive, running = r.running
  PROVE  LET s == Put(r, c, x, alive, running)
         IN  /\ RegistryOK(s) /\ s.died = r.died
             /\ s.ctx[c] = x /\ \A d \in Contexts \ {c} : s.ctx[d] = r.ctx[d]
<1> DEFINE s == Put(r, c, x, alive, running)
<1>1. alive \in Nat /\ running \in Nat
  BY CountsAreNat
<1>2. /\ s \in Registries
      /\ s.ctx[c] = x /\ \A d \in Contexts \ {c} : s.ctx[d] = r.ctx[d]
      /\ s.alive = alive /\ s.running = running
      /\ s.n = r.n /\ s.dead = r.dead /\ s.invalid = r.invalid /\ s.died = r.died
  BY <1>1, PutType DEF RegistryOK
<1> HIDE DEF s
<1>3. \A ss : With(s, ss) = With(r, ss)
  BY <1>2 DEF With
<1>4. QueuesOK(s)
  BY <1>2, <1>3 DEF RegistryOK, QueuesOK
<1>5. CountersOK(s)
  BY <1>2, <1>3 DEF RegistryOK, CountersOK
<1>6. ContextsOK(s)
  BY <1>2 DEF RegistryOK, ContextsOK
<1> QED BY <1>2, <1>4, <1>5, <1>6 DEF RegistryOK, s

LEMMA FinishDetachedKeeps ==
  ASSUME NEW r, RegistryOK(r), NEW c \in Contexts, c # 0, NEW t,
         r.ctx[c].status = "running", r.ctx[c].detached, r.ctx[c].sync = {}
  PROVE  LET s == FinishThread(r, c, t)
         IN  RegistryOK(s) /\ s.died = r.died /\ s.ctx[c].status = "dead" /\ OthersKept(r, s, c)
<1> DEFINE x == [r.ctx[c] EXCEPT !.status = "dead", !.user_id = NoHandle]
           alive == r.alive - 1
           running == r.running - 1
           counted == [r EXCEPT !.alive = alive, !.running = running]
           p == Put(r, c, x, alive, running)
           b == QuarantinePush(p, c)
           s == FinishThread(r, c, t)
<1>1. /\ r \in Registries /\ r.ctx[c] \in ContextRecords
      /\ r.alive \in Nat /\ r.running \in Nat /\ r.alive > 0 /\ r.running > 0
  BY ContextType, CountsAreNat DEF RegistryOK
<1>2. /\ alive \in Nat /\ running \in Nat
      /\ running + Runs(r.ctx[c]) = r.running /\ alive + Lives(r.ctx[c]) = r.alive
  BY <1>1 DEF Runs, Lives
<1>3. x \in ContextRecords /\ x.status = "dead" /\ x.sync = {} /\ x.user_id = NoHandle
  BY <1>1 DEF ContextRecords, Statuses
<1>4. SetDead(counted, c) = p
  <2> HIDE DEF alive, running
  <2>1. counted.ctx = r.ctx
    BY <1>1 DEF Registries
  <2>2. SetDead(counted, c) = [counted EXCEPT !.ctx[c].status = "dead", !.ctx[c].user_id = NoHandle]
    <3> HIDE DEF counted
    <3> QED BY <2>1 DEF SetDead, CHECK
  <2>3. counted \in Registries
    BY <1>1, <1>2 DEF Registries
  <2>4. SetDead(counted, c)
          = Put(counted, c, [counted.ctx[c] EXCEPT !.status = "dead", !.user_id = NoHandle],
                counted.alive, counted.running)
    <3> HIDE DEF counted
    <3> QED BY <2>2, <2>3, DeadShape
  <2>5. SetDead(counted, c) = Put(counted, c, x, counted.alive, counted.running)
    <3> HIDE DEF counted
    <3> QED BY <2>1, <2>4
  <2> HIDE DEF x
  <2>6. Put(counted, c, x, counted.alive, counted.running) = p
    BY <1>1 DEF Registries, Put
  <2> QED BY <2>5, <2>6
<1>5. s = [b EXCEPT !.ctx[c].destroyed = TRUE]
  <2>1. CHECK(r, r.alive > 0 /\ r.running > 0 /\ r.ctx[c].status = "running") = r
    BY <1>1 DEF CHECK
  <2>2. SetFinished(counted, c, t) = counted
    <3>1. counted.ctx = r.ctx
      BY <1>1 DEF Registries
    <3> QED BY <3>1 DEF SetFinished
  <2> QED BY <1>4, <2>1, <2>2, ZenonT(60) DEF FinishThread
<1> HIDE DEF x, alive, running, s
<1>6. RegistryOK(b) /\ b.died = r.died /\ b.n = r.n /\ b.ctx[c] = x /\ OthersKept(r, b, c)
  BY <1>2, <1>3, Burial
<1> HIDE DEF b, counted
<1> DEFINE y == [b.ctx[c] EXCEPT !.destroyed = TRUE]
<1>7. b \in Registries /\ b.ctx[c] \in ContextRecords
  BY <1>6, ContextType DEF RegistryOK
<1>8. /\ y \in ContextRecords /\ y.status = b.ctx[c].status /\ y.sync = b.ctx[c].sync
      /\ y.user_id = b.ctx[c].user_id /\ y.status = "dead"
  BY <1>3, <1>6, <1>7 DEF ContextRecords
<1>9. s = Put(b, c, y, b.alive, b.running)
  BY <1>5, <1>7 DEF Registries, Put
<1> HIDE DEF y
<1>10. /\ RegistryOK(s) /\ s.died = b.died
       /\ s.ctx[c] = y /\ \A d \in Contexts \ {c} : s.ctx[d] = b.ctx[d]
  <2>1. y.status # "invalid"
    BY <1>8
  <2> DEFINE ba == b.alive
             br == b.running
             q == Put(b, c, y, ba, br)
  <2>3. ba = b.alive /\ br = b.running
    OBVIOUS
  <2> HIDE DEF ba, br
  <2>4. /\ RegistryOK(b) /\ y \in ContextRecords /\ y.status = b.ctx[c].status /\ y.status # "invalid"
        /\ y.sync = b.ctx[c].sync /\ y.user_id = b.ctx[c].user_id
    BY <1>6, <1>8, <2>1
  <2>5. RegistryOK(q) /\ q.died = b.died
    BY <2>3, <2>4, PutSameKeeps
  <2>6. q.ctx[c] = y /\ \A d \in Contexts \ {c} : q.ctx[d] = b.ctx[d]
    BY <2>3, <2>4, PutSameKeeps
  <2> HIDE DEF q
  <2> QED BY <1>9, <2>3, <2>5, <2>6 DEF q
<1> QED BY <1>6, <1>8, <1>10 DEF OthersKept, s

LEMMA FinishJoinableKeeps ==
  ASSUME NEW r, RegistryOK(r), NEW c \in Contexts, NEW t \in Threads,
         r.ctx[c].status = "running", ~ r.ctx[c].detached
  PROVE  LET s == FinishThread(r, c, t)
         IN  /\ RegistryOK(s) /\ s.died = r.died
             /\ s.ctx[c].status = "finished" /\ ~ s.ctx[c].detached /\ t \in s.ctx[c].sync
             /\ s.ctx[c].user_id = r.ctx[c].user_id /\ OthersKept(r, s, c)
<1> DEFINE x == [r.ctx[c] EXCEPT !.status = "finished", !.sync = @ \cup {t}, !.destroyed = TRUE]
           alive == r.alive - 1
           running == r.running - 1
           counted == [r EXCEPT !.alive = alive, !.running = running]
           s == FinishThread(r, c, t)
<1>1. /\ r \in Registries /\ r.ctx[c] \in ContextRecords
      /\ r.alive \in Nat /\ r.running \in Nat /\ r.alive > 0 /\ r.running > 0
  BY ContextType, CountsAreNat DEF RegistryOK
<1>2. /\ x \in ContextRecords /\ x.status = "finished" /\ ~ x.detached /\ t \in x.sync
      /\ x.user_id = r.ctx[c].user_id
  BY <1>1 DEF ContextRecords, Statuses
<1>3. /\ alive \in Nat /\ running \in Nat
      /\ running + Runs(r.ctx[c]) = r.running + Runs(x) /\ alive + Lives(r.ctx[c]) = r.alive + Lives(x)
  BY <1>1, <1>2 DEF Runs, Lives
<1>4. s = Put(r, c, x, alive, running)
  <2>1. CHECK(r, r.alive > 0 /\ r.running > 0 /\ r.ctx[c].status = "running") = r
    BY <1>1 DEF CHECK
  <2>2. SetFinished(counted, c, t)
          = [counted EXCEPT !.ctx[c].status = "finished", !.ctx[c].sync = @ \cup {t}]
    <3>1. counted.ctx = r.ctx
      BY <1>1 DEF Registries
    <3> QED BY <3>1 DEF SetFinished
  <2>3. s = [[counted EXCEPT !.ctx[c].status = "finished", !.ctx[c].sync = @ \cup {t}]
               EXCEPT !.ctx[c].destroyed = TRUE]
    BY <2>1, <2>2 DEF FinishThread
  <2> HIDE DEF alive, running, s
  <2>4. counted \in Registries /\ counted.ctx = r.ctx
    BY <1>1, <1>3 DEF Registries
  <2>5. s = Put(counted, c, [counted.ctx[c] EXCEPT !.status = "finished", !.sync = @ \cup {t}, !.destroyed = TRUE],
                counted.alive, counted.running)
    <3> HIDE DEF counted
    <3> QED BY <2>3, <2>4, FinishedShape
  <2>6. s = Put(counted, c, x, counted.alive, counted.running)
    <3> HIDE DEF counted
    <3> QED BY <2>4, <2>5
  <2> HIDE DEF x
  <2>7. Put(counted, c, x, counted.alive, counted.running) = Put(r, c, x, alive, running)
    BY <1>1 DEF Registries, Put
  <2> QED BY <2>6, <2>7
<1> HIDE DEF x, alive, running, s
<1>5. {r.ctx[c].status, x.status} \cap {"dead", "invalid"} = {}
  BY <1>2
<1>6. RegistryOK(s) /\ s.died = r.died /\ s.ctx[c] = x /\ OthersKept(r, s, c)
  BY <1>2, <1>3, <1>4, <1>5, PutKeeps
<1> QED BY <1>2, <1>6 DEF s
--------------------------------------------------------------------------------
(* What a step leaves of the threads and their contexts. *)

(* The step does not change what the registry should say of v. *)
SameView(v) ==
  /\ Placed(v)' <=> Placed(v)
  /\ Placed(v) => /\ Number(v)' = Number(v) /\ StatusOf(v)' = StatusOf(v)
                  /\ Settled(v)' <=> Settled(v)
                  /\ creator'[v] = creator[v]

LEMMA ZeroIsThread == 0 \in Threads
BY PthreadsAssumption

LEMMA PlacedStatus ==
  ASSUME IInv, NEW v \in Threads, Placed(v)
  PROVE  /\ Number(v) \in Contexts /\ reg.ctx[Number(v)].status = StatusOf(v)
         /\ StatusOf(v) \in {"created", "running", "finished"}
         /\ reg.ctx[Number(v)].detached <=> Settled(v)
BY DEF IInv, NumbersOK, StatusOf

(* A thread that is being joined or detached has its context still. *)
LEMMA ClaimedIsPlaced ==
  ASSUME IInv, NEW t \in Threads, NEW u \in Threads, Claims(t, u)
  PROVE  /\ Placed(u) /\ Number(u) = tid[u] /\ tid[u] \in Contexts /\ tid[u] # 0 /\ u # 0
         /\ ~ Settled(u) /\ arg[t] = tid[u] /\ pc[u] \notin {"unborn", "boot", "booted"}
         /\ reg.ctx[tid[u]].user_id = NoHandle /\ ~ reg.ctx[tid[u]].detached
         /\ reg.ctx[tid[u]].status = (IF Ended(u) THEN "finished" ELSE "running")
<1>1. /\ arg[t] = tid[u] /\ pc[u] \notin {"unborn", "boot", "booted"} /\ u # 0
      /\ pc[t] \in ClaimPlaces /\ target[t] = u
  BY DEF IInv, ClaimsOK, Claims
<1>2. ~ Settled(u)
  BY DEF Settled
<1>3. Placed(u)
  BY <1>1, <1>2 DEF Placed, Registered, Inside, Ended
<1>4. Number(u) = tid[u] /\ StatusOf(u) = (IF Ended(u) THEN "finished" ELSE "running")
  BY <1>1 DEF Number, StatusOf
<1>5. tid[u] \in Contexts /\ tid[u] # 0
  BY <1>1, <1>3, <1>4 DEF IInv, NumbersOK
<1>6. reg.ctx[tid[u]].user_id = NoHandle
  BY <1>1 DEF IInv, NamesOK
<1>7. ~ reg.ctx[tid[u]].detached /\ reg.ctx[tid[u]].status = StatusOf(u)
  BY <1>2, <1>3, <1>4 DEF IInv, NumbersOK
<1> QED BY <1>1, <1>2, <1>3, <1>4, <1>5, <1>6, <1>7

(* A step that leaves the contexts alone. *)
LEMMA ContextsStay ==
  ASSUME IInv, reg'.ctx = reg.ctx, \A v \in Threads : SameView(v),
         \A v \in Threads :
           Placed(v) => handle'[v] = handle[v] \/ (reg.ctx[Number(v)].user_id = NoHandle /\ claimed'[v]),
         \A v \in Threads : Placed(v) /\ claimed[v] => claimed'[v],
         \A t \in Threads : pc'[t] \in ClaimPlaces =>
           pc[t] \in ClaimPlaces /\ target'[t] = target[t] /\ tid'[target[t]] = tid[target[t]]
  PROVE  NumbersOK' /\ NamesOK' /\ SyncsOK'
<1> DEFINE ctx == reg.ctx
<1>1. reg'.ctx = ctx
  OBVIOUS
<1>2. NumbersOK'
  <2>1. ASSUME NEW u \in Threads, NEW v \in Threads, Placed(u)', Placed(v)', Number(u)' = Number(v)'
        PROVE  u = v
    BY <2>1 DEF SameView, IInv, NumbersOK
  <2>2. ASSUME NEW u \in Threads, Placed(u)'
        PROVE  /\ Number(u)' \in Contexts /\ (u # 0 => Number(u)' # 0)
               /\ reg'.ctx[Number(u)'].status = StatusOf(u)'
               /\ reg'.ctx[Number(u)'].detached <=> Settled(u)'
    <3>1. Placed(u) /\ Number(u)' = Number(u) /\ StatusOf(u)' = StatusOf(u) /\ (Settled(u)' <=> Settled(u))
      BY <2>2 DEF SameView
    <3> QED BY <3>1 DEF IInv, NumbersOK
  <2> QED BY <2>1, <2>2 DEF NumbersOK
<1>3. NamesOK'
  <2>1. ASSUME NEW c \in Contexts, reg'.ctx[c].user_id # NoHandle
        PROVE  \E u \in Threads : Placed(u)' /\ Number(u)' = c /\ handle'[u] = reg'.ctx[c].user_id
    <3>1. PICK u \in Threads : Placed(u) /\ Number(u) = c /\ handle[u] = reg.ctx[c].user_id
      BY <2>1 DEF IInv, NamesOK
    <3>2. Placed(u)' /\ Number(u)' = c /\ handle'[u] = handle[u]
      BY <2>1, <3>1 DEF SameView
    <3> QED BY <3>1, <3>2
  <2>2. ASSUME NEW u \in Threads, Placed(u)', ~ claimed'[u]
        PROVE  reg'.ctx[Number(u)'].user_id = handle'[u]
    <3>1. Placed(u) /\ Number(u)' = Number(u) /\ ~ claimed[u] /\ handle'[u] = handle[u]
      BY <2>2 DEF SameView
    <3> QED BY <3>1 DEF IInv, NamesOK
  <2>3. ASSUME NEW t \in Threads, pc'[t] \in ClaimPlaces
        PROVE  reg'.ctx[tid'[target'[t]]].user_id = NoHandle
    BY <2>3 DEF IInv, NamesOK
  <2> QED BY <2>1, <2>2, <2>3 DEF NamesOK, ClaimPlaces
<1>4. SyncsOK'
  <2>1. ASSUME NEW u \in Threads, Placed(u)'
        PROVE  /\ StatusOf(u)' = "created" => creator'[u] \in reg'.ctx[Number(u)'].sync
               /\ StatusOf(u)' = "running" => reg'.ctx[Number(u)'].sync = {}
               /\ StatusOf(u)' = "finished" => u \in reg'.ctx[Number(u)'].sync
    <3>1. /\ Placed(u) /\ Number(u)' = Number(u) /\ StatusOf(u)' = StatusOf(u)
          /\ creator'[u] = creator[u]
      BY <2>1 DEF SameView
    <3> QED BY <3>1 DEF IInv, SyncsOK
  <2> QED BY <2>1 DEF SyncsOK
<1> QED BY <1>2, <1>3, <1>4

(* A step that changes the context c of one thread u. *)
LEMMA OneContextChanges ==
  ASSUME IInv, NEW u \in Threads, NEW c \in Contexts, c # 0, RegistryOK(reg)', OthersKept(reg, reg', c),
         \A v \in Threads \ {u} : SameView(v),
         \A v \in Threads \ {u} : Placed(v) => Number(v) # c,
         handle' = handle, \A v \in Threads \ {u} : claimed'[v] = claimed[v],
         Placed(u)' => /\ Number(u)' = c /\ reg'.ctx[c].status = StatusOf(u)'
                       /\ reg'.ctx[c].detached <=> Settled(u)'
                       /\ StatusOf(u)' = "created" => creator'[u] \in reg'.ctx[c].sync
                       /\ StatusOf(u)' = "running" => reg'.ctx[c].sync = {}
                       /\ StatusOf(u)' = "finished" => u \in reg'.ctx[c].sync
                       /\ ~ claimed'[u] => reg'.ctx[c].user_id = handle[u],
         Placed(u) => Number(u) = c,
         reg'.ctx[c].user_id # NoHandle => Placed(u)' /\ reg'.ctx[c].user_id = handle[u],
         \A t \in Threads : pc'[t] \in ClaimPlaces =>
           \/ pc[t] \in ClaimPlaces /\ target'[t] = target[t] /\ tid'[target[t]] = tid[target[t]]
              /\ target[t] # u
           \/ target'[t] = u /\ reg'.ctx[tid'[u]].user_id = NoHandle
  PROVE  NumbersOK' /\ NamesOK' /\ SyncsOK'
<1>1. ASSUME NEW v \in Threads \ {u}, Placed(v)'
      PROVE  /\ Placed(v) /\ Number(v)' = Number(v) /\ StatusOf(v)' = StatusOf(v)
             /\ Settled(v)' <=> Settled(v)
             /\ creator'[v] = creator[v]
             /\ Number(v) \in Contexts \ {c} /\ reg'.ctx[Number(v)] = reg.ctx[Number(v)]
  <2>1. /\ Placed(v) /\ Number(v)' = Number(v) /\ StatusOf(v)' = StatusOf(v)
        /\ Settled(v)' <=> Settled(v)
        /\ creator'[v] = creator[v]
    BY <1>1 DEF SameView
  <2>2. Number(v) \in Contexts \ {c} /\ reg.ctx[Number(v)].status # "dead"
    BY <2>1, PlacedStatus
  <2> QED BY <2>1, <2>2 DEF OthersKept
<1>2. NumbersOK'
  <2>1. ASSUME NEW w \in Threads, NEW v \in Threads, Placed(w)', Placed(v)', Number(w)' = Number(v)'
        PROVE  w = v
    BY <1>1, <2>1 DEF IInv, NumbersOK
  <2>2. ASSUME NEW v \in Threads, Placed(v)'
        PROVE  /\ Number(v)' \in Contexts /\ (v # 0 => Number(v)' # 0)
               /\ reg'.ctx[Number(v)'].status = StatusOf(v)'
               /\ reg'.ctx[Number(v)'].detached <=> Settled(v)'
    <3>1. CASE v = u
      BY <2>2, <3>1
    <3>2. CASE v # u
      BY <1>1, <2>2, <3>2 DEF IInv, NumbersOK
    <3> QED BY <3>1, <3>2
  <2> QED BY <2>1, <2>2 DEF NumbersOK
<1>3. NamesOK'
  <2>1. ASSUME NEW d \in Contexts, reg'.ctx[d].user_id # NoHandle
        PROVE  \E v \in Threads : Placed(v)' /\ Number(v)' = d /\ handle'[v] = reg'.ctx[d].user_id
    <3>1. CASE d = c
      BY <2>1, <3>1
    <3>2. CASE d # c
      <4>1. reg'.ctx[d] = reg.ctx[d]
        BY <2>1, <3>2 DEF OthersKept, RegistryOK, ContextsOK
      <4>2. PICK v \in Threads : Placed(v) /\ Number(v) = d /\ handle[v] = reg.ctx[d].user_id
        BY <2>1, <4>1 DEF IInv, NamesOK
      <4>3. v # u
        BY <3>2, <4>2
      <4>4. Placed(v)' /\ Number(v)' = d
        BY <4>2, <4>3 DEF SameView
      <4> QED BY <4>1, <4>2, <4>4
    <3> QED BY <3>1, <3>2
  <2>2. ASSUME NEW v \in Threads, Placed(v)', ~ claimed'[v]
        PROVE  reg'.ctx[Number(v)'].user_id = handle'[v]
    <3>1. CASE v = u
      BY <2>2, <3>1
    <3>2. CASE v # u
      BY <1>1, <2>2, <3>2 DEF IInv, NamesOK
    <3> QED BY <3>1, <3>2
  <2>3. ASSUME NEW t \in Threads, pc'[t] \in ClaimPlaces
        PROVE  reg'.ctx[tid'[target'[t]]].user_id = NoHandle
    <3>1. CASE target'[t] = u /\ reg'.ctx[tid'[u]].user_id = NoHandle
      BY <3>1
    <3>2. CASE /\ pc[t] \in ClaimPlaces /\ target'[t] = target[t] /\ tid'[target[t]] = tid[target[t]]
               /\ target[t] # u
      <4> DEFINE v == target[t]
      <4>1. v \in Threads /\ Claims(t, v)
        BY <3>2 DEF IInv, TypeOK, Claims
      <4>2. /\ Placed(v) /\ Number(v) = tid[v] /\ tid[v] \in Contexts
            /\ reg.ctx[tid[v]].user_id = NoHandle /\ reg.ctx[tid[v]].status # "dead"
        BY <4>1, ClaimedIsPlaced
      <4>3. reg'.ctx[tid[v]] = reg.ctx[tid[v]]
        BY <3>2, <4>1, <4>2 DEF OthersKept
      <4> QED BY <3>2, <4>2, <4>3
    <3> QED BY <2>3, <3>1, <3>2
  <2> QED BY <2>1, <2>2, <2>3 DEF NamesOK, ClaimPlaces
<1>4. SyncsOK'
  <2>1. ASSUME NEW v \in Threads, Placed(v)'
        PROVE  /\ StatusOf(v)' = "created" => creator'[v] \in reg'.ctx[Number(v)'].sync
               /\ StatusOf(v)' = "running" => reg'.ctx[Number(v)'].sync = {}
               /\ StatusOf(v)' = "finished" => v \in reg'.ctx[Number(v)'].sync
    <3>1. CASE v = u
      BY <2>1, <3>1
    <3>2. CASE v # u
      BY <1>1, <2>1, <3>2 DEF IInv, SyncsOK
    <3> QED BY <3>1, <3>2
  <2> QED BY <2>1 DEF SyncsOK
<1> QED BY <1>2, <1>3, <1>4
--------------------------------------------------------------------------------
(* The steps that leave the registry alone. *)

LEMMA StartedKeeps == ASSUME IInv, NEW u \in Threads, Started(u) PROVE IInv'
<1> DEFINE t == creator[u]
<1>1. /\ reg' = reg /\ tid' = tid /\ target' = target /\ arg' = arg /\ creator' = creator
      /\ handle' = handle /\ detached' = detached /\ claimed' = claimed /\ heard' = heard
      /\ pc[u] = "booted" /\ pc' = [pc EXCEPT ![u] = "running"]
      /\ param' = [param EXCEPT ![t] = 0] /\ reg.died = "no"
  BY DEF Started, Goes
<1>2. u # 0 /\ t \in Threads /\ t # u /\ pc[t] \in {"creating", "starting"} /\ target[t] = u
  BY <1>1, ZeroIsThread DEF IInv, MainOK, BootIsAwaited, TypeOK
<1>3. pc[t] = "starting"
  BY <1>1, <1>2 DEF IInv, CreatorWaits
<1> HIDE DEF t
<1>4. TypeOK'
  BY <1>1, <1>2, ThreadRegistryAssumption DEF IInv, TypeOK, Places, Contexts
<1>5. NeverDies' /\ RegistryOK(reg)' /\ MainOK' /\ HeardOK'
  BY <1>1, <1>2, ZeroIsThread DEF IInv, TypeOK, NeverDies, MainOK, HeardOK, Inside, RegistryOK, QueuesOK, ContextsOK, CountersOK
<1>6. BootIsAwaited'
  BY <1>1, <1>2, <1>3 DEF IInv, TypeOK, BootIsAwaited
<1>7. CreatorWaits'
  BY <1>1, <1>2, <1>3 DEF IInv, TypeOK, CreatorWaits
<1>8. \A v, w \in Threads : Claims(v, w)' <=> Claims(v, w)
  BY <1>1 DEF IInv, TypeOK, Claims, ClaimPlaces
<1>9. ClaimsOK'
  BY <1>1, <1>8 DEF IInv, TypeOK, ClaimsOK
<1>10. HandlesOK' /\ JoinsHear'
  BY <1>1, <1>2 DEF IInv, TypeOK, HandlesOK, JoinsHear, ClaimPlaces
<1>11. \A v \in Threads : Settled(v)' <=> Settled(v)
  BY <1>1, <1>8 DEF Settled
<1>12. \A v \in Threads : SameView(v)
  <2> SUFFICES ASSUME NEW v \in Threads PROVE SameView(v)
    OBVIOUS
  <2>1. Starting(v)' <=> Starting(v)
    BY <1>1, <1>2, <1>3 DEF IInv, TypeOK, BootIsAwaited, MainOK, Starting
  <2>2. (Registered(v)' <=> Registered(v)) /\ (Ended(v)' <=> Ended(v))
    BY <1>1 DEF IInv, TypeOK, Registered, Inside, Ended
  <2>3. StatusOf(v)' = StatusOf(v)
    BY <1>1, <2>2 DEF IInv, TypeOK, StatusOf
  <2>4. Placed(v) => Number(v)' = Number(v)
    BY <1>1, <1>2, <1>3, <2>1 DEF IInv, TypeOK, Number, Placed, Registered, Inside, Ended, Starting
  <2> QED BY <1>1, <1>11, <2>1, <2>2, <2>3, <2>4 DEF SameView, Placed
<1>13. NumbersOK' /\ NamesOK' /\ SyncsOK'
  BY <1>1, <1>12, ContextsStay DEF IInv, TypeOK, ClaimPlaces
<1> QED BY <1>4, <1>5, <1>6, <1>7, <1>9, <1>10, <1>13 DEF IInv

LEMMA CreateReturnsKeeps == ASSUME IInv, NEW t \in Threads, CreateReturns(t) PROVE IInv'
<1>1. /\ reg' = reg /\ tid' = tid /\ param' = param /\ creator' = creator
      /\ handle' = handle /\ detached' = detached /\ claimed' = claimed /\ heard' = heard
      /\ pc[t] = "starting" /\ pc' = [pc EXCEPT ![t] = "running"] /\ param[t] = 0
      /\ target' = [target EXCEPT ![t] = t] /\ arg' = [arg EXCEPT ![t] = NoContext]
      /\ reg.died = "no"
  BY DEF CreateReturns, Goes, Returns
<1>2. pc[target[t]] \notin {"boot", "booted"} /\ target[t] \in Threads
  BY <1>1 DEF IInv, CreatorWaits, TypeOK
<1>3. \A v \in Threads : pc[v] \in {"boot", "booted"} => v # 0 /\ v # t /\ creator[v] # t
  BY <1>1, <1>2, ZeroIsThread DEF IInv, BootIsAwaited, MainOK
<1>4. TypeOK'
  BY <1>1 DEF IInv, TypeOK, Places
<1>5. NeverDies' /\ RegistryOK(reg)' /\ MainOK' /\ HeardOK'
  BY <1>1, ZeroIsThread DEF IInv, TypeOK, NeverDies, MainOK, HeardOK, Inside, RegistryOK, QueuesOK, ContextsOK, CountersOK
<1>6. BootIsAwaited'
  BY <1>1, <1>3 DEF IInv, TypeOK, BootIsAwaited
<1>7. CreatorWaits'
  BY <1>1 DEF IInv, TypeOK, CreatorWaits
<1>8. \A v, w \in Threads : Claims(v, w)' <=> Claims(v, w)
  BY <1>1 DEF IInv, TypeOK, Claims, ClaimPlaces
<1>9. ClaimsOK'
  BY <1>1, <1>8 DEF IInv, TypeOK, ClaimsOK, Claims, ClaimPlaces
<1>10. HandlesOK' /\ JoinsHear'
  BY <1>1 DEF IInv, TypeOK, HandlesOK, JoinsHear, ClaimPlaces
<1>11. \A v \in Threads : Settled(v)' <=> Settled(v)
  BY <1>1, <1>8 DEF Settled
<1>12. \A v \in Threads : SameView(v)
  <2> SUFFICES ASSUME NEW v \in Threads PROVE SameView(v)
    OBVIOUS
  <2>1. Starting(v)' <=> Starting(v)
    BY <1>1, <1>3 DEF IInv, TypeOK, Starting
  <2>2. (Registered(v)' <=> Registered(v)) /\ (Ended(v)' <=> Ended(v))
    BY <1>1 DEF IInv, TypeOK, Registered, Inside, Ended
  <2>3. StatusOf(v)' = StatusOf(v) /\ Number(v)' = Number(v)
    BY <1>1, <2>2 DEF IInv, TypeOK, StatusOf, Number
  <2> QED BY <1>1, <1>11, <2>1, <2>2, <2>3 DEF SameView, Placed
<1>13. NumbersOK' /\ NamesOK' /\ SyncsOK'
  BY <1>1, <1>12, ContextsStay DEF IInv, TypeOK, ClaimPlaces
<1> QED BY <1>4, <1>5, <1>6, <1>7, <1>9, <1>10, <1>13 DEF IInv

(* A thread goes from one place of a call to the next, and no other thread *)
(* can tell: what the registry should say does not depend on it.           *)
LEMMA SameViews ==
  ASSUME IInv, NEW t \in Threads, NEW from, NEW to \in Places,
         pc[t] = from, pc' = [pc EXCEPT ![t] = to],
         \/ from \in ClaimPlaces /\ to \in ClaimPlaces
         \/ from = "exiting" /\ to = "gone",
         tid' = tid /\ param' = param /\ creator' = creator /\ target' = target /\ claimed' = claimed
  PROVE  /\ \A v \in Threads : SameView(v)
         /\ \A v, w \in Threads : Claims(v, w)' <=> Claims(v, w)
         /\ BootIsAwaited' /\ MainOK'
         /\ \A v \in Threads : Inside(v)' <=> Inside(v)
<1>1. \A v, w \in Threads : Claims(v, w)' <=> Claims(v, w)
  BY DEF IInv, TypeOK, Claims, ClaimPlaces
<1>2. \A v \in Threads : Settled(v)' <=> Settled(v)
  BY <1>1 DEF Settled
<1>3. \A v \in Threads : SameView(v)
  <2> SUFFICES ASSUME NEW v \in Threads PROVE SameView(v)
    OBVIOUS
  <2>1. Starting(v)' <=> Starting(v)
    BY DEF IInv, TypeOK, Starting, ClaimPlaces
  <2>2. (Registered(v)' <=> Registered(v)) /\ (Ended(v)' <=> Ended(v))
    BY DEF IInv, TypeOK, Registered, Inside, Ended, ClaimPlaces
  <2>3. StatusOf(v)' = StatusOf(v) /\ Number(v)' = Number(v)
    BY <2>2 DEF IInv, TypeOK, StatusOf, Number, ClaimPlaces
  <2> QED BY <1>2, <2>1, <2>2, <2>3 DEF SameView, Placed
<1>4. BootIsAwaited'
  BY DEF IInv, TypeOK, BootIsAwaited, ClaimPlaces
<1>5. MainOK'
  BY ZeroIsThread DEF IInv, TypeOK, MainOK, ClaimPlaces
<1>6. \A v \in Threads : Inside(v)' <=> Inside(v)
  BY DEF IInv, TypeOK, Inside, ClaimPlaces
<1> QED BY <1>1, <1>3, <1>4, <1>5, <1>6

LEMMA RealTryJoinBusyKeeps == ASSUME IInv, NEW t \in Threads, RealTryJoinBusy(t) PROVE IInv'
<1>1. /\ reg' = reg /\ tid' = tid /\ param' = param /\ creator' = creator /\ target' = target
      /\ handle' = handle /\ detached' = detached /\ claimed' = claimed /\ heard' = heard
      /\ arg' = arg /\ pc[t] = "trying" /\ pc' = [pc EXCEPT ![t] = "refused"]
      /\ pc[target[t]] # "gone"
  BY DEF RealTryJoinBusy, Goes
<1>2. /\ \A v \in Threads : SameView(v)
      /\ \A v, w \in Threads : Claims(v, w)' <=> Claims(v, w)
      /\ BootIsAwaited' /\ MainOK'
      /\ \A v \in Threads : Inside(v)' <=> Inside(v)
  BY <1>1, SameViews DEF ClaimPlaces, Places
<1>3. TypeOK'
  BY <1>1 DEF IInv, TypeOK, Places
<1>4. NeverDies' /\ RegistryOK(reg)' /\ HeardOK'
  BY <1>1, <1>2 DEF IInv, NeverDies, HeardOK, RegistryOK, QueuesOK, ContextsOK, CountersOK
<1>5. CreatorWaits'
  BY <1>1 DEF IInv, TypeOK, CreatorWaits
<1>6. ClaimsOK'
  BY <1>1, <1>2 DEF IInv, TypeOK, ClaimsOK, Claims, ClaimPlaces
<1>7. HandlesOK' /\ JoinsHear'
  BY <1>1 DEF IInv, TypeOK, HandlesOK, JoinsHear, ClaimPlaces
<1>8. NumbersOK' /\ NamesOK' /\ SyncsOK'
  BY <1>1, <1>2, ContextsStay DEF IInv, TypeOK, ClaimPlaces
<1> QED BY <1>2, <1>3, <1>4, <1>5, <1>6, <1>7, <1>8 DEF IInv

LEMMA RealJoinKeeps ==
  ASSUME IInv, NEW t \in Threads, NEW from \in {"joining", "trying"}, RealJoin(t, from)
  PROVE  IInv'
<1> DEFINE u == target[t]
<1>1. /\ reg' = reg /\ tid' = tid /\ param' = param /\ creator' = creator /\ target' = target
      /\ detached' = detached /\ claimed' = claimed /\ heard' = heard
      /\ arg' = arg /\ pc[t] = from /\ pc' = [pc EXCEPT ![t] = "joined"]
      /\ pc[u] = "gone" /\ handle' = [handle EXCEPT ![u] = NoHandle]
  BY DEF RealJoin, Goes
<1>2. /\ \A v \in Threads : SameView(v)
      /\ \A v, w \in Threads : Claims(v, w)' <=> Claims(v, w)
      /\ BootIsAwaited' /\ MainOK'
      /\ \A v \in Threads : Inside(v)' <=> Inside(v)
  <2>1. from \in ClaimPlaces /\ "joined" \in ClaimPlaces /\ "joined" \in Places
    BY DEF ClaimPlaces, Places
  <2> QED BY <1>1, <2>1, SameViews
<1>3. TypeOK'
  BY <1>1 DEF IInv, TypeOK, Places
<1>4. NeverDies' /\ RegistryOK(reg)' /\ HeardOK'
  BY <1>1, <1>2 DEF IInv, NeverDies, HeardOK, RegistryOK, QueuesOK, ContextsOK, CountersOK
<1>5. CreatorWaits'
  BY <1>1 DEF IInv, TypeOK, CreatorWaits
<1>6. ClaimsOK'
  BY <1>1, <1>2 DEF IInv, TypeOK, ClaimsOK, Claims, ClaimPlaces
<1>7. u \in Threads /\ Claims(t, u)
  BY <1>1 DEF IInv, TypeOK, Claims, ClaimPlaces
<1>8. /\ claimed[u] /\ creator[u] = t /\ u # t /\ Number(u) = tid[u]
      /\ reg.ctx[tid[u]].user_id = NoHandle
      /\ \A v \in Threads : Claims(v, u) => v = t
  BY <1>1, <1>7, ClaimedIsPlaced DEF IInv, ClaimsOK
<1>9. HandlesOK'
  BY <1>1, <1>7, <1>8 DEF IInv, TypeOK, HandlesOK, Claims, ClaimPlaces
<1>10. JoinsHear'
  BY <1>1, <1>7, <1>8 DEF IInv, TypeOK, JoinsHear
<1>11. NumbersOK' /\ NamesOK' /\ SyncsOK'
  <2>1. \A v \in Threads :
          Placed(v) => handle'[v] = handle[v] \/ (reg.ctx[Number(v)].user_id = NoHandle /\ claimed'[v])
    BY <1>1, <1>8 DEF IInv, TypeOK
  <2>2. \A v \in Threads : pc'[v] \in ClaimPlaces =>
          pc[v] \in ClaimPlaces /\ target'[v] = target[v] /\ tid'[target[v]] = tid[target[v]]
    BY <1>1 DEF IInv, TypeOK, ClaimPlaces
  <2> QED BY <1>1, <1>2, <2>1, <2>2, ContextsStay
<1> QED BY <1>2, <1>3, <1>4, <1>5, <1>6, <1>9, <1>10, <1>11 DEF IInv

LEMMA RealDetachKeeps == ASSUME IInv, NEW t \in Threads, RealDetach(t) PROVE IInv'
<1> DEFINE u == target[t]
<1>1. /\ reg' = reg /\ tid' = tid /\ param' = param /\ creator' = creator /\ target' = target
      /\ claimed' = claimed /\ heard' = heard
      /\ arg' = arg /\ pc[t] = "detaching" /\ pc' = [pc EXCEPT ![t] = "unlinking"]
      /\ detached' = [detached EXCEPT ![u] = TRUE]
      /\ handle' = IF pc[u] = "gone" THEN [handle EXCEPT ![u] = NoHandle] ELSE handle
  BY DEF RealDetach, Goes
<1>2. /\ \A v \in Threads : SameView(v)
      /\ \A v, w \in Threads : Claims(v, w)' <=> Claims(v, w)
      /\ BootIsAwaited' /\ MainOK'
      /\ \A v \in Threads : Inside(v)' <=> Inside(v)
  <2>1. "detaching" \in ClaimPlaces /\ "unlinking" \in ClaimPlaces /\ "unlinking" \in Places
    BY DEF ClaimPlaces, Places
  <2> QED BY <1>1, <2>1, SameViews
<1>3. TypeOK'
  BY <1>1 DEF IInv, TypeOK, Places
<1>4. NeverDies' /\ RegistryOK(reg)' /\ HeardOK'
  BY <1>1, <1>2 DEF IInv, NeverDies, HeardOK, RegistryOK, QueuesOK, ContextsOK, CountersOK
<1>5. CreatorWaits'
  BY <1>1 DEF IInv, TypeOK, CreatorWaits
<1>6. ClaimsOK'
  BY <1>1, <1>2 DEF IInv, TypeOK, ClaimsOK, Claims, ClaimPlaces
<1>7. u \in Threads /\ Claims(t, u)
  BY <1>1 DEF IInv, TypeOK, Claims, ClaimPlaces
<1>8. /\ claimed[u] /\ Number(u) = tid[u] /\ pc[u] \notin {"unborn", "boot", "booted"}
      /\ reg.ctx[tid[u]].user_id = NoHandle
      /\ \A v \in Threads : Claims(v, u) => v = t
  BY <1>1, <1>7, ClaimedIsPlaced DEF IInv, ClaimsOK
<1>9. HandlesOK'
  BY <1>1, <1>7, <1>8 DEF IInv, TypeOK, HandlesOK, Claims, ClaimPlaces
<1>10. JoinsHear'
  BY <1>1, <1>7, <1>8 DEF IInv, TypeOK, JoinsHear
<1>11. NumbersOK' /\ NamesOK' /\ SyncsOK'
  <2>1. \A v \in Threads :
          Placed(v) => handle'[v] = handle[v] \/ (reg.ctx[Number(v)].user_id = NoHandle /\ claimed'[v])
    BY <1>1, <1>8 DEF IInv, TypeOK
  <2>2. \A v \in Threads : pc'[v] \in ClaimPlaces =>
          pc[v] \in ClaimPlaces /\ target'[v] = target[v] /\ tid'[target[v]] = tid[target[v]]
    BY <1>1 DEF IInv, TypeOK, ClaimPlaces
  <2> QED BY <1>1, <1>2, <2>1, <2>2, ContextsStay
<1> QED BY <1>2, <1>3, <1>4, <1>5, <1>6, <1>9, <1>10, <1>11 DEF IInv

LEMMA RealExitKeeps == ASSUME IInv, NEW t \in Threads, RealExit(t) PROVE IInv'
<1>1. /\ reg' = reg /\ tid' = tid /\ param' = param /\ creator' = creator /\ target' = target
      /\ claimed' = claimed /\ heard' = heard /\ detached' = detached
      /\ arg' = arg /\ pc[t] = "exiting" /\ pc' = [pc EXCEPT ![t] = "gone"]
      /\ handle' = IF detached[t] THEN [handle EXCEPT ![t] = NoHandle] ELSE handle
  BY DEF RealExit, Goes
<1>2. /\ \A v \in Threads : SameView(v)
      /\ \A v, w \in Threads : Claims(v, w)' <=> Claims(v, w)
      /\ BootIsAwaited' /\ MainOK'
      /\ \A v \in Threads : Inside(v)' <=> Inside(v)
  <2>1. "gone" \in Places
    BY DEF Places
  <2> QED BY <1>1, <2>1, SameViews
<1>3. TypeOK'
  BY <1>1 DEF IInv, TypeOK, Places
<1>4. NeverDies' /\ RegistryOK(reg)' /\ HeardOK'
  BY <1>1, <1>2 DEF IInv, NeverDies, HeardOK, RegistryOK, QueuesOK, ContextsOK, CountersOK
<1>5. CreatorWaits'
  BY <1>1 DEF IInv, TypeOK, CreatorWaits
<1>6. ClaimsOK'
  BY <1>1, <1>2 DEF IInv, TypeOK, ClaimsOK, Claims, ClaimPlaces
<1>7. t # 0 /\ handle[t] # NoHandle /\ (detached[t] => claimed[t])
  BY <1>1, ZeroIsThread DEF IInv, MainOK, HandlesOK
<1>8. HandlesOK'
  BY <1>1, <1>7 DEF IInv, TypeOK, HandlesOK, ClaimPlaces
<1>9. JoinsHear'
  BY <1>1, <1>7 DEF IInv, TypeOK, JoinsHear
<1>10. NumbersOK' /\ NamesOK' /\ SyncsOK'
  <2>1. ASSUME NEW v \in Threads, Placed(v)
        PROVE  handle'[v] = handle[v] \/ (reg.ctx[Number(v)].user_id = NoHandle /\ claimed'[v])
    <3>1. CASE v # t \/ ~ detached[t]
      BY <1>1, <3>1 DEF IInv, TypeOK
    <3>2. CASE v = t /\ detached[t]
      <4>1. ~ Settled(t) /\ claimed[t]
        BY <1>1, <1>7, <2>1, <3>2 DEF Placed, Starting, Registered
      <4>2. PICK w \in Threads : Claims(w, t)
        BY <4>1 DEF Settled
      <4>3. reg.ctx[tid[t]].user_id = NoHandle /\ Number(t) = tid[t]
        BY <4>2, ClaimedIsPlaced
      <4> QED BY <1>1, <3>2, <4>1, <4>3
    <3> QED BY <3>1, <3>2
  <2>2. \A v \in Threads : pc'[v] \in ClaimPlaces =>
          pc[v] \in ClaimPlaces /\ target'[v] = target[v] /\ tid'[target[v]] = tid[target[v]]
    BY <1>1 DEF IInv, TypeOK, ClaimPlaces
  <2> QED BY <1>1, <1>2, <2>1, <2>2, ContextsStay
<1> QED BY <1>2, <1>3, <1>4, <1>5, <1>6, <1>8, <1>9, <1>10 DEF IInv

LEMMA RealCreateKeeps ==
  ASSUME IInv, NEW t \in Threads, NEW h \in Handles, NEW d \in BOOLEAN, RealCreate(t, h, d)
  PROVE  IInv'
<1>1. PICK u \in Unborn :
        /\ reg' = reg /\ tid' = tid /\ arg' = arg /\ heard' = heard
        /\ h \notin {handle[v] : v \in Threads} /\ pc[t] = "running"
        /\ pc' = [pc EXCEPT ![t] = "creating", ![u] = "boot"]
        /\ param' = [param EXCEPT ![t] = 0] /\ target' = [target EXCEPT ![t] = u]
        /\ creator' = [creator EXCEPT ![u] = t] /\ handle' = [handle EXCEPT ![u] = h]
        /\ detached' = [detached EXCEPT ![u] = d] /\ claimed' = [claimed EXCEPT ![u] = d]
  <2>1. Unborn # {} /\ Unborn \subseteq Nat
    BY PthreadsAssumption DEF RealCreate, Unborn
  <2>2. \E x \in Unborn : \A y \in Unborn : x <= y
    BY <2>1, NatMin
  <2>3. Min(Unborn) \in Unborn
    BY <2>2 DEF Min
  <2> QED BY <2>3 DEF RealCreate
<1>2. u \in Threads /\ pc[u] = "unborn" /\ u # t /\ u # 0 /\ h # NoHandle
  BY <1>1, ZeroIsThread, ThreadRegistryAssumption DEF IInv, MainOK, Unborn, NoHandle
<1>3. \A v \in Threads :
        /\ target[v] = u => v = u \/ pc[v] \notin ClaimPlaces \cup {"creating", "starting"}
        /\ pc[v] # "unborn" => v = 0 \/ creator[v] # u
        /\ pc[v] \in {"boot", "booted"} => creator[v] # t
        /\ ~ Claims(v, u)
  <2>1. \A v \in Threads : pc[v] \in {"creating", "starting"} => target[v] # u
    BY <1>2 DEF IInv, CreatorWaits
  <2>2. \A v \in Threads : ~ Claims(v, u)
    BY <1>2 DEF IInv, ClaimsOK
  <2>3. \A v \in Threads : pc[v] # "unborn" /\ v # 0 => creator[v] # u
    BY <1>2 DEF IInv, BootIsAwaited
  <2>4. \A v \in Threads : pc[v] \in {"boot", "booted"} => creator[v] # t
    BY <1>1, ZeroIsThread DEF IInv, BootIsAwaited, MainOK
  <2> QED BY <2>1, <2>2, <2>3, <2>4 DEF Claims
<1>4. TypeOK'
  BY <1>1, <1>2, ThreadRegistryAssumption DEF IInv, TypeOK, Places, Contexts
<1>5. NeverDies' /\ RegistryOK(reg)'
  BY <1>1 DEF IInv, NeverDies, RegistryOK, QueuesOK, ContextsOK, CountersOK
<1>6. MainOK' /\ HeardOK'
  BY <1>1, <1>2, ZeroIsThread DEF IInv, TypeOK, MainOK, HeardOK, Inside
<1>7. BootIsAwaited'
  BY <1>1, <1>2, <1>3 DEF IInv, TypeOK, BootIsAwaited
<1>8. CreatorWaits'
  BY <1>1, <1>2, <1>3 DEF IInv, TypeOK, CreatorWaits
<1>9. \A v, w \in Threads : Claims(v, w)' <=> Claims(v, w)
  BY <1>1, <1>2, <1>3 DEF IInv, TypeOK, Claims, ClaimPlaces
<1>10. ClaimsOK'
  BY <1>1, <1>2, <1>3, <1>9, ZeroIsThread DEF IInv, TypeOK, ClaimsOK, Claims, ClaimPlaces
<1>11. HandlesOK'
  BY <1>1, <1>2, <1>3 DEF IInv, TypeOK, HandlesOK, ClaimPlaces
<1>12. JoinsHear'
  BY <1>1, <1>2, <1>3 DEF IInv, TypeOK, JoinsHear
<1>13. \A v \in Threads \ {u} : Settled(v)' <=> Settled(v)
  BY <1>1, <1>2, <1>9 DEF Settled, IInv, TypeOK
<1>14. ~ Placed(u) /\ ~ Placed(u)'
  BY <1>1, <1>2 DEF IInv, TypeOK, Placed, Starting, Registered, Inside, Ended
<1>15. \A v \in Threads : SameView(v)
  <2> SUFFICES ASSUME NEW v \in Threads, v # u PROVE SameView(v)
    BY <1>14 DEF SameView
  <2>1. creator'[v] = creator[v]
    BY <1>1, <1>2 DEF IInv, TypeOK
  <2>2. Starting(v)' <=> Starting(v)
    BY <1>1, <1>2, <1>3, <2>1, ZeroIsThread DEF IInv, TypeOK, Starting, MainOK
  <2>3. (Registered(v)' <=> Registered(v)) /\ (Ended(v)' <=> Ended(v))
    BY <1>1, <1>2 DEF IInv, TypeOK, Registered, Inside, Ended
  <2>4. StatusOf(v)' = StatusOf(v)
    BY <1>1, <1>2, <2>3 DEF IInv, TypeOK, StatusOf
  <2>5. Number(v)' = Number(v)
    BY <1>1, <1>2, <1>3, <2>1 DEF IInv, TypeOK, Number
  <2> QED BY <1>13, <2>1, <2>2, <2>3, <2>4, <2>5 DEF SameView, Placed
<1>16. NumbersOK' /\ NamesOK' /\ SyncsOK'
  <2>1. \A v \in Threads : Placed(v) => handle'[v] = handle[v] /\ (claimed[v] => claimed'[v])
    BY <1>1, <1>2, <1>14 DEF IInv, TypeOK
  <2>2. \A v \in Threads : pc'[v] \in ClaimPlaces =>
          pc[v] \in ClaimPlaces /\ target'[v] = target[v] /\ tid'[target[v]] = tid[target[v]]
    BY <1>1, <1>2 DEF IInv, TypeOK, ClaimPlaces
  <2> QED BY <1>1, <1>15, <2>1, <2>2, ContextsStay
<1> QED BY <1>4, <1>5, <1>6, <1>7, <1>8, <1>10, <1>11, <1>12, <1>16 DEF IInv
--------------------------------------------------------------------------------
(* The steps that change the registry. *)

LEMMA ThreadCreateKeeps == ASSUME IInv, NEW t \in Threads, ThreadCreate(t) PROVE IInv'
<1>0. PICK u \in Threads, c \in {FreeContext(reg)} : u = target[t] /\ c = FreeContext(reg)
  BY DEF IInv, TypeOK
<1>1. /\ reg' = CreateThread(reg, handle[u], detached[u], t)
      /\ pc[t] = "creating" /\ pc' = [pc EXCEPT ![t] = "starting"] /\ reg.died = "no"
      /\ param' = [param EXCEPT ![t] = IF c = NoContext THEN @ ELSE c]
      /\ tid' = tid /\ target' = target /\ arg' = arg /\ creator' = creator
      /\ handle' = handle /\ detached' = detached /\ claimed' = claimed /\ heard' = heard
  BY <1>0 DEF ThreadCreate, Goes
<1>2. /\ u \in Threads /\ pc[u] = "boot" /\ param[t] = 0 /\ u # 0 /\ u # t /\ creator[u] = t
      /\ handle[u] \in Handles \cup {NoHandle} /\ detached[u] \in BOOLEAN
      /\ detached[u] <=> claimed[u]
  BY <1>0, <1>1 DEF IInv, TypeOK, CreatorWaits, HandlesOK
<1>3. \A v \in Threads : pc[v] = "boot" /\ creator[v] = t => v = u
  BY <1>0, <1>1, ZeroIsThread DEF IInv, BootIsAwaited, MainOK
<1>4. \A v, w \in Threads : Claims(v, w)' <=> Claims(v, w)
  BY <1>1 DEF IInv, TypeOK, Claims, ClaimPlaces
<1>5. \A v \in Threads : Settled(v)' <=> Settled(v)
  BY <1>1, <1>4 DEF Settled
<1>6. BootIsAwaited' /\ MainOK' /\ HeardOK'
  BY <1>1, <1>2, ZeroIsThread DEF IInv, TypeOK, BootIsAwaited, MainOK, HeardOK, Inside
<1>7. ClaimsOK'
  BY <1>1, <1>4 DEF IInv, TypeOK, ClaimsOK, Claims, ClaimPlaces
<1>8. HandlesOK' /\ JoinsHear'
  BY <1>1 DEF IInv, TypeOK, HandlesOK, JoinsHear, ClaimPlaces
<1>9. \A v \in Threads \ {u} : SameView(v)
  <2> SUFFICES ASSUME NEW v \in Threads \ {u} PROVE SameView(v)
    OBVIOUS
  <2>1. Starting(v)' <=> Starting(v)
    BY <1>1, <1>2, <1>3 DEF IInv, TypeOK, Starting
  <2>2. (Registered(v)' <=> Registered(v)) /\ (Ended(v)' <=> Ended(v))
    BY <1>1 DEF IInv, TypeOK, Registered, Inside, Ended
  <2>3. StatusOf(v)' = StatusOf(v) /\ Number(v)' = Number(v)
    BY <1>1, <1>3, <2>2 DEF IInv, TypeOK, StatusOf, Number
  <2> QED BY <1>1, <1>5, <2>1, <2>2, <2>3 DEF SameView, Placed
<1>10. ~ Placed(u)
  BY <1>1, <1>2 DEF Placed, Starting, Registered, Inside, Ended
<1>11. CASE c = NoContext
  <2>1. reg' = [reg EXCEPT !.died = "thread limit"]
    BY <1>0, <1>1, <1>11 DEF CreateThread, Dies
  <2>2. /\ reg'.ctx = reg.ctx /\ reg'.n = reg.n /\ reg'.dead = reg.dead /\ reg'.invalid = reg.invalid
        /\ reg'.alive = reg.alive /\ reg'.running = reg.running /\ reg'.died = "thread limit"
        /\ reg' \in Registries
    BY <2>1 DEF IInv, TypeOK, Registries
  <2>3. param' = param
    BY <1>1, <1>11 DEF IInv, TypeOK
  <2>4. TypeOK'
    BY <1>1, <2>2, <2>3 DEF IInv, TypeOK, Places
  <2>5. NeverDies' /\ RegistryOK(reg)'
    BY <2>2 DEF IInv, NeverDies, RegistryOK, QueuesOK, ContextsOK, CountersOK, With
  <2>6. CreatorWaits'
    <3>1. /\ reg'.died # "no" /\ pc[t] = "creating" /\ pc' = [pc EXCEPT ![t] = "starting"]
          /\ target' = target /\ creator' = creator
      BY <1>1, <2>2
    <3> QED BY <2>3, <3>1 DEF IInv, TypeOK, CreatorWaits
  <2>7. ~ Placed(u)'
    BY <1>1, <1>2, <2>3 DEF IInv, TypeOK, Placed, Starting, Registered, Inside, Ended
  <2>8. \A v \in Threads : SameView(v)
    BY <1>9, <1>10, <2>7 DEF SameView
  <2>9. NumbersOK' /\ NamesOK' /\ SyncsOK'
    <3>1. \A v \in Threads : pc'[v] \in ClaimPlaces =>
            pc[v] \in ClaimPlaces /\ target'[v] = target[v] /\ tid'[target[v]] = tid[target[v]]
      BY <1>1 DEF IInv, TypeOK, ClaimPlaces
    <3> QED BY <1>1, <2>2, <2>8, <3>1, ContextsStay
  <2> QED BY <1>6, <1>7, <1>8, <2>4, <2>5, <2>6, <2>9 DEF IInv
<1>12. CASE c # NoContext
  <2>1. /\ RegistryOK(reg') /\ reg'.died = reg.died
        /\ c \in Contexts /\ c # 0 /\ reg.ctx[c].status = "invalid"
        /\ reg'.ctx[c].status = "created" /\ reg'.ctx[c].user_id = handle[u]
        /\ reg'.ctx[c].detached = detached[u] /\ reg'.ctx[c].sync = {t}
        /\ OthersKept(reg, reg', c)
    <3> DEFINE hu == handle[u]
               du == detached[u]
    <3>1. hu \in Handles \cup {NoHandle} /\ du \in BOOLEAN /\ reg' = CreateThread(reg, hu, du, t)
      BY <1>1, <1>2
    <3> HIDE DEF hu, du
    <3>2. RegistryOK(reg) /\ FreeContext(reg) # NoContext
      BY <1>0, <1>12 DEF IInv
    <3>3. /\ RegistryOK(reg') /\ reg'.died = reg.died
          /\ c \in Contexts /\ c # 0 /\ reg.ctx[c].status = "invalid"
      BY <1>0, <3>1, <3>2, CreateThreadKeeps
    <3>4. /\ reg'.ctx[c].status = "created" /\ reg'.ctx[c].user_id = hu
          /\ reg'.ctx[c].detached = du /\ reg'.ctx[c].sync = {t}
          /\ OthersKept(reg, reg', c)
      BY <1>0, <3>1, <3>2, CreateThreadKeeps
    <3> QED BY <3>3, <3>4 DEF hu, du
  <2>2. param' = [param EXCEPT ![t] = c]
    BY <1>1, <1>12
  <2>3. TypeOK'
    BY <1>1, <2>1, <2>2 DEF IInv, TypeOK, Places, RegistryOK
  <2>4. NeverDies' /\ RegistryOK(reg)'
    BY <2>1 DEF IInv, NeverDies
  <2>5. CreatorWaits'
    BY <1>0, <1>1, <1>2, <2>1, <2>2 DEF IInv, TypeOK, CreatorWaits
  <2>6. Placed(u)' /\ Number(u)' = c /\ StatusOf(u)' = "created"
    BY <1>1, <1>2, <2>1, <2>2 DEF IInv, TypeOK, Placed, Starting, Number, StatusOf
  <2>7. Settled(u)' <=> detached[u]
    <3>1. \A v \in Threads : ~ Claims(v, u)
      BY <1>2 DEF IInv, ClaimsOK
    <3> QED BY <1>2, <1>5, <3>1 DEF Settled
  <2>8. \A v \in Threads \ {u} : Placed(v) => Number(v) # c
    BY <2>1, PlacedStatus
  <2>9. NumbersOK' /\ NamesOK' /\ SyncsOK'
    <3>1. \A v \in Threads : pc'[v] \in ClaimPlaces =>
            pc[v] \in ClaimPlaces /\ target'[v] = target[v] /\ tid'[target[v]] = tid[target[v]] /\ target[v] # u
      BY <1>1, <1>2 DEF IInv, TypeOK, ClaimPlaces, ClaimsOK, Claims
    <3>2. /\ RegistryOK(reg)' /\ OthersKept(reg, reg', c) /\ c \in Contexts /\ c # 0
          /\ reg'.ctx[c].status = StatusOf(u)'
          /\ reg'.ctx[c].detached <=> Settled(u)'
          /\ StatusOf(u)' # "running" /\ StatusOf(u)' # "finished"
          /\ reg'.ctx[c].user_id = handle[u]
      BY <2>1, <2>4, <2>6, <2>7
    <3>3. creator'[u] \in reg'.ctx[c].sync
      BY <1>1, <1>2, <2>1
    <3>4. /\ handle' = handle /\ claimed' = claimed
          /\ ~ Placed(u) /\ u \in Threads
          /\ \A v \in Threads \ {u} : SameView(v)
      BY <1>1, <1>2, <1>9, <1>10
    <3> QED BY <1>0, <2>6, <2>8, <3>1, <3>2, <3>3, <3>4, OneContextChanges
  <2> QED BY <1>6, <1>7, <1>8, <2>3, <2>4, <2>5, <2>9 DEF IInv
<1> QED BY <1>11, <1>12

LEMMA ThreadStartKeeps == ASSUME IInv, NEW u \in Threads, ThreadStart(u) PROVE IInv'
<1>0. PICK t \in Threads, c \in Contexts : t = creator[u] /\ c = param[t]
  BY DEF IInv, TypeOK
<1>1. /\ reg' = StartThread(reg, c) /\ c # 0 /\ reg.died = "no"
      /\ pc[u] = "boot" /\ pc' = [pc EXCEPT ![u] = "booted"]
      /\ tid' = [tid EXCEPT ![u] = c] /\ heard' = [heard EXCEPT ![u] = reg.ctx[c].sync]
      /\ param' = param /\ target' = target /\ arg' = arg /\ creator' = creator
      /\ handle' = handle /\ detached' = detached /\ claimed' = claimed
  BY <1>0 DEF ThreadStart, Goes
<1>2. u # 0 /\ t \in Threads /\ t # u /\ pc[t] = "starting" /\ target[t] = u /\ c \in Contexts
  BY <1>0, <1>1, ZeroIsThread DEF IInv, MainOK, BootIsAwaited, CreatorWaits, TypeOK
<1>3. Placed(u) /\ Number(u) = c /\ StatusOf(u) = "created"
  BY <1>0, <1>1, <1>2 DEF Placed, Starting, Number, StatusOf
<1>4. /\ reg.ctx[c].status = "created" /\ t \in reg.ctx[c].sync
      /\ reg.ctx[c].detached <=> Settled(u)
  BY <1>0, <1>3 DEF IInv, NumbersOK, SyncsOK
<1>5. /\ RegistryOK(reg') /\ reg'.died = reg.died
      /\ reg'.ctx[c] = [reg.ctx[c] EXCEPT !.status = "running", !.sync = {}]
      /\ OthersKept(reg, reg', c)
  <2>1. RegistryOK(reg) /\ reg' = StartThread(reg, c) /\ reg.ctx[c].status = "created"
    BY <1>1, <1>4 DEF IInv
  <2>2. RegistryOK(reg') /\ reg'.died = reg.died /\ OthersKept(reg, reg', c)
    BY <2>1, StartThreadKeeps
  <2>3. reg'.ctx[c] = [reg.ctx[c] EXCEPT !.status = "running", !.sync = {}]
    BY <2>1, StartThreadKeeps, Zenon
  <2> QED BY <2>2, <2>3
<1>6. /\ reg'.ctx[c].status = "running" /\ reg'.ctx[c].sync = {}
      /\ reg'.ctx[c].detached = reg.ctx[c].detached /\ reg'.ctx[c].user_id = reg.ctx[c].user_id
      /\ reg.ctx[c].sync \in SUBSET Threads
  <2>1. reg.ctx[c] \in ContextRecords
    BY <1>2, ContextType DEF IInv, TypeOK
  <2> QED BY <1>5, <2>1 DEF ContextRecords
<1>7. TypeOK'
  BY <1>1, <1>2, <1>5, <1>6 DEF IInv, TypeOK, Places, RegistryOK
<1>8. NeverDies' /\ RegistryOK(reg)'
  BY <1>5 DEF IInv, NeverDies
<1>9. MainOK' /\ HeardOK'
  BY <1>0, <1>1, <1>2, <1>4, ZeroIsThread DEF IInv, TypeOK, MainOK, HeardOK, Inside
<1>10. BootIsAwaited'
  BY <1>1, <1>2 DEF IInv, TypeOK, BootIsAwaited
<1>11. CreatorWaits'
  BY <1>0, <1>1, <1>2, <1>5 DEF IInv, TypeOK, CreatorWaits
<1>12. \A v, w \in Threads : Claims(v, w)' <=> Claims(v, w)
  BY <1>1 DEF IInv, TypeOK, Claims, ClaimPlaces
<1>13. ClaimsOK'
  BY <1>1, <1>12 DEF IInv, TypeOK, ClaimsOK, Claims, ClaimPlaces
<1>14. HandlesOK' /\ JoinsHear'
  <2>1. HandlesOK'
    BY <1>1 DEF IInv, TypeOK, HandlesOK, ClaimPlaces
  <2>2. \A v \in Threads \ {0} : pc[v] = "gone" => creator[v] # u
    BY <1>1 DEF IInv, BootIsAwaited
  <2>3. JoinsHear'
    BY <1>1, <2>2 DEF IInv, TypeOK, JoinsHear
  <2> QED BY <2>1, <2>3
<1>15. \A v \in Threads : Settled(v)' <=> Settled(v)
  BY <1>1, <1>12 DEF Settled
<1>16. \A v \in Threads \ {u} : SameView(v)
  <2> SUFFICES ASSUME NEW v \in Threads \ {u} PROVE SameView(v)
    OBVIOUS
  <2>1. Starting(v)' <=> Starting(v)
    BY <1>1 DEF IInv, TypeOK, Starting
  <2>2. (Registered(v)' <=> Registered(v)) /\ (Ended(v)' <=> Ended(v))
    BY <1>1 DEF IInv, TypeOK, Registered, Inside, Ended
  <2>3. StatusOf(v)' = StatusOf(v) /\ Number(v)' = Number(v)
    BY <1>1, <2>2 DEF IInv, TypeOK, StatusOf, Number
  <2> QED BY <1>1, <1>15, <2>1, <2>2, <2>3 DEF SameView, Placed
<1>17. Placed(u)' /\ Number(u)' = c /\ StatusOf(u)' = "running"
  BY <1>1, <1>7 DEF IInv, TypeOK, Placed, Registered, Inside, Number, StatusOf, Ended
<1>18. \A v \in Threads \ {u} : Placed(v) => Number(v) # c
  BY <1>3 DEF IInv, NumbersOK
<1>19. NumbersOK' /\ NamesOK' /\ SyncsOK'
  <2>1. \A v \in Threads : pc'[v] \in ClaimPlaces =>
          pc[v] \in ClaimPlaces /\ target'[v] = target[v] /\ tid'[target[v]] = tid[target[v]] /\ target[v] # u
    BY <1>1, <1>2 DEF IInv, TypeOK, ClaimPlaces, ClaimsOK, Claims
  <2>3. reg'.ctx[c].user_id # NoHandle => reg'.ctx[c].user_id = handle[u]
    BY <1>2, <1>3, <1>6, <1>18 DEF IInv, NamesOK
  <2>4. ~ claimed'[u] => reg'.ctx[c].user_id = handle[u]
    BY <1>1, <1>3, <1>6 DEF IInv, NamesOK
  <2>5. reg'.ctx[c].detached <=> Settled(u)'
    BY <1>4, <1>6, <1>15
  <2>2. /\ OthersKept(reg, reg', c) /\ c # 0 /\ handle' = handle
        /\ \A v \in Threads \ {u} : claimed'[v] = claimed[v]
        /\ reg'.ctx[c].status = "running" /\ reg'.ctx[c].sync = {}
    BY <1>1, <1>5, <1>6
  <2> QED BY <1>3, <1>8, <1>16, <1>17, <1>18, <2>1, <2>2, <2>3, <2>4, <2>5, OneContextChanges
<1> QED BY <1>7, <1>8, <1>9, <1>10, <1>11, <1>13, <1>14, <1>19 DEF IInv

(* The lookup by handle, while the thread may still be joined or detached. *)
LEMMA HandleFound ==
  ASSUME IInv, NEW u \in Threads, Inside(u), ~ claimed[u]
  PROVE  /\ Named(reg, handle[u]) = {tid[u]}
         /\ u # 0 /\ Placed(u) /\ Number(u) = tid[u] /\ tid[u] \in Contexts /\ tid[u] # 0 /\ ~ Settled(u)
         /\ reg.ctx[tid[u]].status = StatusOf(u) /\ StatusOf(u) \in {"running", "finished"}
<1>1. u # 0 /\ ~ Settled(u) /\ pc[u] # "boot" /\ pc[u] # "unborn"
  BY DEF IInv, ClaimsOK, Settled, Inside
<1>2. Placed(u) /\ Number(u) = tid[u] /\ StatusOf(u) \in {"running", "finished"}
  BY <1>1 DEF Placed, Registered, Inside, Ended, Number, StatusOf
<1>3. /\ tid[u] \in Contexts /\ tid[u] # 0 /\ reg.ctx[tid[u]].status = StatusOf(u)
      /\ reg.ctx[tid[u]].user_id = handle[u] /\ handle[u] # NoHandle
  BY <1>1, <1>2 DEF IInv, NumbersOK, NamesOK, HandlesOK
<1>4. tid[u] < reg.n /\ reg.ctx[tid[u]].status # "invalid"
  BY <1>2, <1>3 DEF IInv, RegistryOK, ContextsOK
<1>5. ASSUME NEW d \in Named(reg, handle[u]) PROVE d = tid[u]
  <2>1. d \in Contexts /\ reg.ctx[d].user_id = handle[u]
    BY DEF Named
  <2>2. PICK v \in Threads : Placed(v) /\ Number(v) = d /\ handle[v] = reg.ctx[d].user_id
    BY <1>3, <2>1 DEF IInv, NamesOK
  <2>3. v = u
    BY <1>3, <2>1, <2>2 DEF IInv, HandlesOK
  <2> QED BY <1>2, <2>2, <2>3
<1>6. tid[u] \in Named(reg, handle[u])
  BY <1>3, <1>4 DEF Named
<1> QED BY <1>1, <1>2, <1>3, <1>5, <1>6

LEMMA ConsumeStepKeeps ==
  ASSUME IInv, NEW t \in Threads, NEW u \in Threads, NEW into \in {"joining", "trying", "detaching"},
         Consume(t, u, into), creator[u] = t \/ (u = t /\ into = "detaching")
  PROVE  IInv'
<1>0. PICK c \in Contexts \cup {NoContext} : c = tid[u]
  BY DEF IInv, TypeOK
<1>1. /\ pc[u] # "unborn" /\ ~ claimed[u] /\ reg.died = "no"
      /\ pc[t] = "running" /\ pc' = [pc EXCEPT ![t] = into]
      /\ claimed' = [claimed EXCEPT ![u] = TRUE] /\ target' = [target EXCEPT ![t] = u]
      /\ arg' = [arg EXCEPT ![t] = ConsumedTid(reg, handle[u])]
      /\ reg' = ThreadConsumeTid(reg, handle[u])
      /\ tid' = tid /\ param' = param /\ creator' = creator
      /\ handle' = handle /\ detached' = detached /\ heard' = heard
  BY DEF Consume, Goes
<1>2. u # 0 /\ pc[u] \notin {"unborn", "boot", "booted"} /\ Inside(u)
  <2>1. u # 0
    BY <1>1 DEF IInv, ClaimsOK
  <2>2. pc[u] \notin {"boot", "booted"}
    BY <1>1, <2>1 DEF IInv, BootIsAwaited
  <2> QED BY <1>1, <2>1, <2>2 DEF Inside
<1>3. /\ Named(reg, handle[u]) = {c}
      /\ Placed(u) /\ Number(u) = c /\ c \in Contexts /\ c # 0 /\ ~ Settled(u)
      /\ reg.ctx[c].status = StatusOf(u) /\ StatusOf(u) \in {"running", "finished"}
  BY <1>0, <1>1, <1>2, HandleFound
<1>4. /\ RegistryOK(reg') /\ reg'.died = reg.died /\ ConsumedTid(reg, handle[u]) = c
      /\ OthersKept(reg, reg', c)
      /\ reg'.ctx[c] = [reg.ctx[c] EXCEPT !.user_id = NoHandle]
  <2> DEFINE h == handle[u]
  <2>1. RegistryOK(reg) /\ reg' = ThreadConsumeTid(reg, h) /\ NamesOne(reg, h, c) /\ c \in Contexts
    BY <1>1, <1>3 DEF IInv, NamesOne
  <2> HIDE DEF h
  <2> DEFINE s == ThreadConsumeTid(reg, h)
  <2>2. RegistryOK(s) /\ ConsumedTid(reg, h) = c
    BY <2>1, ConsumeKeeps
  <2>3. OthersKept(reg, s, c)
    BY <2>1, ConsumeKeeps
  <2>4. s.died = reg.died
    BY <2>1, ConsumeKeeps, ZenonT(60)
  <2>5. s.ctx[c] = [reg.ctx[c] EXCEPT !.user_id = NoHandle]
    BY <2>1, ConsumeKeeps
  <2> HIDE DEF s
  <2> QED BY <2>1, <2>2, <2>3, <2>4, <2>5 DEF h, s
<1>5. /\ reg'.ctx[c].status = reg.ctx[c].status /\ reg'.ctx[c].sync = reg.ctx[c].sync
      /\ reg'.ctx[c].detached = reg.ctx[c].detached /\ reg'.ctx[c].user_id = NoHandle
  <2>1. reg.ctx[c] \in ContextRecords
    BY <1>3, ContextType DEF IInv, TypeOK
  <2> QED BY <1>4, <2>1 DEF ContextRecords
<1>6. TypeOK'
  BY <1>1, <1>3, <1>4 DEF IInv, TypeOK, Places, RegistryOK
<1>7. NeverDies' /\ RegistryOK(reg)'
  BY <1>4 DEF IInv, NeverDies
<1>8. MainOK' /\ HeardOK' /\ BootIsAwaited'
  <2>1. MainOK' /\ HeardOK'
    BY <1>1, ZeroIsThread DEF IInv, TypeOK, MainOK, HeardOK, Inside
  <2>2. BootIsAwaited'
    BY <1>1 DEF IInv, TypeOK, BootIsAwaited
  <2> QED BY <2>1, <2>2
<1>9. CreatorWaits'
  BY <1>1, <1>4 DEF IInv, TypeOK, CreatorWaits
<1>10. into \in ClaimPlaces /\ into \notin {"joined", "unlinking"}
  BY DEF ClaimPlaces
<1>11. \A v, w \in Threads : Claims(v, w)' <=> Claims(v, w) \/ (v = t /\ w = u)
  BY <1>1, <1>10 DEF IInv, TypeOK, Claims, ClaimPlaces
<1>12. \A v \in Threads : ~ Claims(v, u)
  BY <1>1 DEF IInv, ClaimsOK
<1>13. ClaimsOK'
  <2>1. \A v, w \in Threads :
          Claims(v, w)' => /\ claimed'[w] /\ w # 0
                           /\ arg'[v] = tid'[w]
                           /\ pc'[w] \notin {"unborn", "boot", "booted"}
                           /\ creator'[w] = v \/ (w = v /\ pc'[v] \in {"detaching", "unlinking"})
    <3> SUFFICES ASSUME NEW v \in Threads, NEW w \in Threads, Claims(v, w)'
                 PROVE  /\ claimed'[w] /\ w # 0
                        /\ arg'[v] = tid'[w]
                        /\ pc'[w] \notin {"unborn", "boot", "booted"}
                        /\ creator'[w] = v \/ (w = v /\ pc'[v] \in {"detaching", "unlinking"})
      OBVIOUS
    <3>1. CASE v = t /\ w = u
      BY <1>0, <1>1, <1>2, <1>4, <3>1 DEF IInv, TypeOK
    <3>2. CASE Claims(v, w)
      <4>1. v # t
        BY <1>1, <3>2 DEF Claims, ClaimPlaces
      <4> QED BY <1>1, <3>2, <4>1 DEF IInv, TypeOK, ClaimsOK
    <3> QED BY <1>11, <3>1, <3>2
  <2>2. \A v, w, x \in Threads : Claims(v, x)' /\ Claims(w, x)' => v = w
    BY <1>11, <1>12 DEF IInv, ClaimsOK
  <2>3. claimed'[0] /\ \A v \in Threads : pc'[v] = "joined" => pc'[target'[v]] = "gone"
    BY <1>1, <1>10, ZeroIsThread DEF IInv, TypeOK, ClaimsOK
  <2> QED BY <2>1, <2>2, <2>3 DEF ClaimsOK
<1>14. HandlesOK'
  <2>1. handle[u] # NoHandle /\ ~ detached[u]
    BY <1>1, <1>2 DEF IInv, HandlesOK
  <2>2. \A v \in Threads : pc[v] = "boot" => v # u
    BY <1>2
  <2> QED BY <1>1, <1>10, <2>1, <2>2 DEF IInv, TypeOK, HandlesOK, ClaimPlaces
<1>15. JoinsHear'
  BY <1>1 DEF IInv, TypeOK, JoinsHear
<1>16. \A v \in Threads \ {u} : Settled(v)' <=> Settled(v)
  BY <1>1, <1>11 DEF Settled, IInv, TypeOK
<1>17. ~ Settled(u)'
  BY <1>11 DEF Settled
<1>18. \A v \in Threads : (Starting(v)' <=> Starting(v)) /\ (Registered(v)' <=> Registered(v)) /\ (Ended(v)' <=> Ended(v))
                          /\ StatusOf(v)' = StatusOf(v) /\ Number(v)' = Number(v)
  <2> SUFFICES ASSUME NEW v \in Threads
               PROVE  (Starting(v)' <=> Starting(v)) /\ (Registered(v)' <=> Registered(v)) /\ (Ended(v)' <=> Ended(v))
                      /\ StatusOf(v)' = StatusOf(v) /\ Number(v)' = Number(v)
    OBVIOUS
  <2>1. Starting(v)' <=> Starting(v)
    BY <1>1 DEF IInv, TypeOK, Starting
  <2>2. (Registered(v)' <=> Registered(v)) /\ (Ended(v)' <=> Ended(v))
    BY <1>1 DEF IInv, TypeOK, Registered, Inside, Ended
  <2>3. StatusOf(v)' = StatusOf(v) /\ Number(v)' = Number(v)
    BY <1>1, <2>2 DEF IInv, TypeOK, StatusOf, Number
  <2> QED BY <2>1, <2>2, <2>3
<1>19. \A v \in Threads \ {u} : SameView(v)
  BY <1>1, <1>16, <1>18 DEF SameView, Placed
<1>20. \A v \in Threads \ {u} : Placed(v) => Number(v) # c
  BY <1>3 DEF IInv, NumbersOK
<1>21. NumbersOK' /\ NamesOK' /\ SyncsOK'
  <2>1. /\ Number(u)' = c /\ reg'.ctx[c].status = StatusOf(u)'
        /\ reg'.ctx[c].detached <=> Settled(u)'
        /\ StatusOf(u)' = "running" => reg'.ctx[c].sync = {}
        /\ StatusOf(u)' = "finished" => u \in reg'.ctx[c].sync
        /\ StatusOf(u)' # "created" /\ claimed'[u]
    <3>1. /\ reg.ctx[c].detached <=> Settled(u)
          /\ StatusOf(u) = "running" => reg.ctx[c].sync = {}
          /\ StatusOf(u) = "finished" => u \in reg.ctx[c].sync
      BY <1>3 DEF IInv, NumbersOK, SyncsOK
    <3>2. claimed'[u]
      BY <1>1 DEF IInv, TypeOK
    <3> QED BY <1>3, <1>5, <1>17, <1>18, <3>1, <3>2
  <2>2. \A v \in Threads : pc'[v] \in ClaimPlaces =>
           \/ pc[v] \in ClaimPlaces /\ target'[v] = target[v] /\ tid'[target[v]] = tid[target[v]]
              /\ target[v] # u
           \/ target'[v] = u /\ reg'.ctx[tid'[u]].user_id = NoHandle
    <3> SUFFICES ASSUME NEW v \in Threads, pc'[v] \in ClaimPlaces
                 PROVE  \/ pc[v] \in ClaimPlaces /\ target'[v] = target[v] /\ tid'[target[v]] = tid[target[v]]
                           /\ target[v] # u
                        \/ target'[v] = u /\ reg'.ctx[tid'[u]].user_id = NoHandle
      OBVIOUS
    <3>1. CASE v = t
      BY <1>0, <1>1, <1>5, <3>1 DEF IInv, TypeOK
    <3>2. CASE v # t
      <4>1. pc[v] \in ClaimPlaces /\ target'[v] = target[v] /\ tid' = tid
        BY <1>1, <3>2 DEF IInv, TypeOK
      <4> QED BY <1>12, <4>1 DEF Claims
    <3> QED BY <3>1, <3>2
  <2>3. /\ c # 0 /\ handle' = handle /\ \A v \in Threads \ {u} : claimed'[v] = claimed[v]
        /\ reg'.ctx[c].user_id = NoHandle /\ OthersKept(reg, reg', c) /\ c \in Contexts /\ Number(u) = c
    BY <1>1, <1>3, <1>4, <1>5 DEF IInv, TypeOK
  <2> QED BY <1>7, <1>19, <1>20, <2>1, <2>2, <2>3, OneContextChanges
<1> QED BY <1>6, <1>7, <1>8, <1>9, <1>13, <1>14, <1>15, <1>21 DEF IInv

(* The end of a call that joins or detaches u. *)
LEMMA ClaimDropped ==
  ASSUME IInv, NEW t \in Threads, NEW u \in Threads, Claims(t, u),
         pc' = [pc EXCEPT ![t] = "running"], Returns(t),
         tid' = tid, param' = param, creator' = creator,
         claimed' \in [Threads -> BOOLEAN], \A v \in Threads \ {u} : claimed'[v] = claimed[v]
  PROVE  /\ ClaimsOK' /\ BootIsAwaited' /\ MainOK'
         /\ \A v \in Threads \ {u} : SameView(v)
         /\ (Placed(u)' <=> ~ Ended(u) \/ ~ claimed'[u])
         /\ Number(u)' = Number(u) /\ StatusOf(u)' = StatusOf(u)
         /\ (Settled(u)' <=> claimed'[u])
         /\ \A v \in Threads : Inside(v)' <=> Inside(v)
         /\ \A v \in Threads : pc'[v] \in ClaimPlaces =>
              /\ v # t /\ pc[v] \in ClaimPlaces /\ target'[v] = target[v]
              /\ tid'[target[v]] = tid[target[v]] /\ target[v] # u
<1>1. /\ pc[t] \in ClaimPlaces /\ target[t] = u
      /\ target' = [target EXCEPT ![t] = t] /\ arg' = [arg EXCEPT ![t] = NoContext]
  BY DEF Claims, Returns
<1>2. /\ u # 0 /\ pc[u] \notin {"unborn", "boot", "booted"} /\ claimed[u]
      /\ \A v \in Threads : Claims(v, u) => v = t
  BY DEF IInv, ClaimsOK
<1>3. \A v, w \in Threads : Claims(v, w)' <=> Claims(v, w) /\ v # t
  BY <1>1 DEF IInv, TypeOK, Claims, ClaimPlaces
<1>4. \A v \in Threads : Claims(t, v) => v = u
  BY <1>1 DEF Claims
<1>5. ClaimsOK'
  <2>1. \A v, w \in Threads :
          Claims(v, w)' => /\ claimed'[w] /\ w # 0
                           /\ arg'[v] = tid'[w]
                           /\ pc'[w] \notin {"unborn", "boot", "booted"}
                           /\ creator'[w] = v \/ (w = v /\ pc'[v] \in {"detaching", "unlinking"})
    <3> SUFFICES ASSUME NEW v \in Threads, NEW w \in Threads, Claims(v, w), v # t
                 PROVE  /\ claimed'[w] /\ w # 0
                        /\ arg'[v] = tid'[w]
                        /\ pc'[w] \notin {"unborn", "boot", "booted"}
                        /\ creator'[w] = v \/ (w = v /\ pc'[v] \in {"detaching", "unlinking"})
      BY <1>3
    <3>1. w # u
      BY <1>2
    <3>2. /\ claimed[w] /\ w # 0 /\ arg[v] = tid[w] /\ pc[w] \notin {"unborn", "boot", "booted"}
          /\ creator[w] = v \/ (w = v /\ pc[v] \in {"detaching", "unlinking"})
      BY DEF IInv, ClaimsOK
    <3>3. arg'[v] = arg[v] /\ pc'[v] = pc[v] /\ claimed'[w] = claimed[w]
      BY <1>1, <3>1 DEF IInv, TypeOK
    <3>4. pc'[w] \notin {"unborn", "boot", "booted"}
      BY <3>2 DEF IInv, TypeOK
    <3> QED BY <3>2, <3>3, <3>4
  <2>2. \A v, w, x \in Threads : Claims(v, x)' /\ Claims(w, x)' => v = w
    BY <1>3 DEF IInv, ClaimsOK
  <2>3. claimed'[0]
    BY <1>2, ZeroIsThread DEF IInv, ClaimsOK
  <2>4. \A v \in Threads : pc'[v] = "joined" => pc'[target'[v]] = "gone"
    <3> SUFFICES ASSUME NEW v \in Threads, pc'[v] = "joined" PROVE pc'[target'[v]] = "gone"
      OBVIOUS
    <3>1. v # t /\ pc[v] = "joined" /\ target'[v] = target[v] /\ target[v] \in Threads
      BY <1>1 DEF IInv, TypeOK
    <3>2. pc[target[v]] = "gone"
      BY <3>1 DEF IInv, ClaimsOK
    <3> QED BY <1>1, <3>1, <3>2 DEF IInv, TypeOK, ClaimPlaces
  <2> QED BY <2>1, <2>2, <2>3, <2>4 DEF ClaimsOK
<1>6. BootIsAwaited' /\ MainOK'
  <2>1. BootIsAwaited'
    BY <1>1 DEF IInv, TypeOK, BootIsAwaited, ClaimPlaces
  <2>2. MainOK'
    BY <1>1, ZeroIsThread DEF IInv, TypeOK, MainOK
  <2> QED BY <2>1, <2>2
<1>7. ASSUME NEW v \in Threads
      PROVE  /\ Starting(v)' <=> Starting(v)
             /\ Registered(v)' <=> Registered(v)
             /\ Ended(v)' <=> Ended(v)
             /\ StatusOf(v)' = StatusOf(v) /\ Number(v)' = Number(v)
             /\ Inside(v)' <=> Inside(v)
  <2>1. Starting(v)' <=> Starting(v)
    BY <1>1 DEF IInv, TypeOK, Starting, ClaimPlaces
  <2>2. (Registered(v)' <=> Registered(v)) /\ (Ended(v)' <=> Ended(v)) /\ (Inside(v)' <=> Inside(v))
    BY <1>1 DEF IInv, TypeOK, Registered, Inside, Ended, ClaimPlaces
  <2>3. StatusOf(v)' = StatusOf(v) /\ Number(v)' = Number(v)
    BY <1>1, <2>2 DEF IInv, TypeOK, StatusOf, Number, ClaimPlaces
  <2> QED BY <2>1, <2>2, <2>3
<1>8. \A v \in Threads \ {u} : Settled(v)' <=> Settled(v)
  BY <1>3, <1>4 DEF Settled
<1>9. Settled(u)' <=> claimed'[u]
  BY <1>2, <1>3 DEF Settled
<1>10. \A v \in Threads \ {u} : SameView(v)
  BY <1>7, <1>8 DEF SameView, Placed
<1>11. Placed(u)' <=> ~ Ended(u) \/ ~ claimed'[u]
  BY <1>2, <1>7, <1>9 DEF Placed, Registered, Inside, Starting, Ended
<1>12. ASSUME NEW v \in Threads, pc'[v] \in ClaimPlaces
       PROVE  /\ v # t /\ pc[v] \in ClaimPlaces /\ target'[v] = target[v]
              /\ tid'[target[v]] = tid[target[v]] /\ target[v] # u
  <2>1. v # t /\ pc[v] \in ClaimPlaces /\ target'[v] = target[v] /\ tid'[target[v]] = tid[target[v]]
    BY <1>1, <1>12 DEF IInv, TypeOK, ClaimPlaces
  <2> QED BY <1>2, <2>1 DEF Claims
<1> QED BY <1>5, <1>6, <1>7, <1>9, <1>10, <1>11, <1>12

LEMMA ThreadJoinKeeps == ASSUME IInv, NEW t \in Threads, ThreadJoin(t) PROVE IInv'
<1>0. PICK u \in Threads, c \in Contexts \cup {NoContext} : u = target[t] /\ c = tid[u]
  BY DEF IInv, TypeOK
<1>1. /\ pc[t] = "joined" /\ pc' = [pc EXCEPT ![t] = "running"] /\ Returns(t) /\ reg.died = "no"
      /\ target' = [target EXCEPT ![t] = t] /\ arg' = [arg EXCEPT ![t] = NoContext]
      /\ tid' = tid /\ param' = param /\ creator' = creator
      /\ handle' = handle /\ detached' = detached /\ claimed' = claimed
  BY DEF ThreadJoin, Goes, Returns
<1>2. Claims(t, u) /\ pc[u] = "gone" /\ creator[u] = t
  BY <1>0, <1>1 DEF Claims, ClaimPlaces, IInv, ClaimsOK
<1>3. /\ Placed(u) /\ Number(u) = c /\ c \in Contexts /\ c # 0 /\ u # 0 /\ ~ Settled(u) /\ arg[t] = c
      /\ ~ reg.ctx[c].detached /\ Ended(u) /\ reg.ctx[c].status = "finished" /\ claimed[u]
  BY <1>0, <1>2, ClaimedIsPlaced DEF Ended, IInv, ClaimsOK
<1>4. c # NoContext
  BY <1>3, ThreadRegistryAssumption DEF Contexts, NoContext
<1>5. heard' = [heard EXCEPT ![t] = @ \cup reg.ctx[c].sync] /\ reg' = JoinThread(reg, c)
  BY <1>3, <1>4 DEF ThreadJoin
<1>6. RegistryOK(reg') /\ reg'.died = reg.died /\ reg'.ctx[c].status = "dead" /\ OthersKept(reg, reg', c)
  <2>1. RegistryOK(reg)
    BY DEF IInv
  <2> QED BY <1>3, <1>5, <2>1, JoinThreadKeeps
<1>7. /\ ClaimsOK' /\ BootIsAwaited' /\ MainOK'
      /\ \A v \in Threads \ {u} : SameView(v)
      /\ ~ Placed(u)'
      /\ \A v \in Threads : Inside(v)' <=> Inside(v)
      /\ \A v \in Threads : pc'[v] \in ClaimPlaces =>
           /\ v # t /\ pc[v] \in ClaimPlaces /\ target'[v] = target[v]
           /\ tid'[target[v]] = tid[target[v]] /\ target[v] # u
  <2>1. claimed' \in [Threads -> BOOLEAN] /\ \A v \in Threads \ {u} : claimed'[v] = claimed[v]
    BY <1>1 DEF IInv, TypeOK
  <2> QED BY <1>1, <1>2, <1>3, <2>1, ClaimDropped
<1>8. u \in reg.ctx[c].sync /\ reg.ctx[c].sync \in SUBSET Threads
  <2>1. reg.ctx[c] \in ContextRecords
    BY <1>3, ContextType DEF IInv, TypeOK
  <2>2. StatusOf(u) = "finished"
    BY <1>2, <1>3 DEF StatusOf
  <2> QED BY <1>3, <2>1, <2>2 DEF ContextRecords, IInv, SyncsOK
<1>9. TypeOK'
  BY <1>1, <1>5, <1>6, <1>8 DEF IInv, TypeOK, Places, RegistryOK
<1>10. NeverDies' /\ RegistryOK(reg)'
  BY <1>6 DEF IInv, NeverDies
<1>11. HeardOK'
  BY <1>1, <1>5, <1>7 DEF IInv, TypeOK, HeardOK
<1>12. CreatorWaits'
  BY <1>1, <1>6 DEF IInv, TypeOK, CreatorWaits
<1>13. HandlesOK'
  BY <1>1 DEF IInv, TypeOK, HandlesOK, ClaimPlaces
<1>14. JoinsHear'
  BY <1>0, <1>1, <1>2, <1>5, <1>8 DEF IInv, TypeOK, JoinsHear
<1>15. NumbersOK' /\ NamesOK' /\ SyncsOK'
  <2>1. \A v \in Threads \ {u} : Placed(v) => Number(v) # c
    BY <1>3 DEF IInv, NumbersOK
  <2>2. reg'.ctx[c].user_id = NoHandle
    BY <1>3, <1>6 DEF RegistryOK, ContextsOK
  <2>3. c \in Contexts /\ c # 0 /\ Number(u) = c
    BY <1>3
  <2>4. handle' = handle /\ \A v \in Threads \ {u} : claimed'[v] = claimed[v]
    BY <1>1
  <2> QED BY <1>6, <1>7, <1>10, <2>1, <2>2, <2>3, <2>4, OneContextChanges
<1> QED BY <1>7, <1>9, <1>10, <1>11, <1>12, <1>13, <1>14, <1>15 DEF IInv

LEMMA ThreadNotJoinedKeeps == ASSUME IInv, NEW t \in Threads, ThreadNotJoined(t) PROVE IInv'
<1>0. PICK u \in Threads, c \in Contexts \cup {NoContext} : u = target[t] /\ c = tid[u]
  BY DEF IInv, TypeOK
<1>1. /\ pc[t] = "refused" /\ pc' = [pc EXCEPT ![t] = "running"] /\ Returns(t) /\ reg.died = "no"
      /\ target' = [target EXCEPT ![t] = t] /\ arg' = [arg EXCEPT ![t] = NoContext]
      /\ claimed' = [claimed EXCEPT ![u] = FALSE]
      /\ tid' = tid /\ param' = param /\ creator' = creator
      /\ handle' = handle /\ detached' = detached /\ heard' = heard
  BY <1>0 DEF ThreadNotJoined, Goes, Returns
<1>2. Claims(t, u)
  BY <1>0, <1>1 DEF Claims, ClaimPlaces
<1>3. /\ Placed(u) /\ Number(u) = c /\ c \in Contexts /\ c # 0 /\ u # 0 /\ ~ Settled(u) /\ arg[t] = c
      /\ pc[u] \notin {"unborn", "boot", "booted"} /\ reg.ctx[c].user_id = NoHandle
      /\ ~ reg.ctx[c].detached /\ reg.ctx[c].status = StatusOf(u) /\ StatusOf(u) \in {"running", "finished"}
  BY <1>0, <1>2, ClaimedIsPlaced DEF StatusOf
<1>4. c # NoContext
  BY <1>3, ThreadRegistryAssumption DEF Contexts, NoContext
<1>5. handle[u] # NoHandle /\ handle[u] \in Handles \cup {NoHandle} /\ ~ detached[u]
  BY <1>0, <1>1 DEF IInv, TypeOK, HandlesOK, ClaimPlaces
<1>6. /\ RegistryOK(reg') /\ reg'.died = reg.died /\ OthersKept(reg, reg', c)
      /\ reg'.ctx[c] = [reg.ctx[c] EXCEPT !.user_id = handle[u]]
  <2> DEFINE h == handle[u]
             s == SetThreadUserId(reg, c, h)
  <2>1. reg' = s /\ h \in Handles \cup {NoHandle}
    BY <1>0, <1>3, <1>4, <1>5 DEF ThreadNotJoined
  <2>2. /\ RegistryOK(reg) /\ reg.ctx[c].status \notin {"dead", "invalid"} /\ reg.ctx[c].user_id = NoHandle
        /\ c \in Contexts
    BY <1>3 DEF IInv
  <2> HIDE DEF h
  <2>3. RegistryOK(s) /\ s.died = reg.died
    BY <2>1, <2>2, SetThreadUserIdKeeps, ZenonT(60)
  <2>4. OthersKept(reg, s, c)
    BY <2>1, <2>2, SetThreadUserIdKeeps
  <2>5. s.ctx[c] = [reg.ctx[c] EXCEPT !.user_id = h]
    BY <2>1, <2>2, SetThreadUserIdKeeps
  <2> HIDE DEF s
  <2> QED BY <2>1, <2>3, <2>4, <2>5 DEF h
<1>7. /\ reg'.ctx[c].status = reg.ctx[c].status /\ reg'.ctx[c].sync = reg.ctx[c].sync
      /\ reg'.ctx[c].detached = reg.ctx[c].detached /\ reg'.ctx[c].user_id = handle[u]
  <2>1. reg.ctx[c] \in ContextRecords
    BY <1>3, ContextType DEF IInv, TypeOK
  <2> QED BY <1>6, <2>1 DEF ContextRecords
<1>8. /\ ClaimsOK' /\ BootIsAwaited' /\ MainOK'
      /\ \A v \in Threads \ {u} : SameView(v)
      /\ Placed(u)' /\ Number(u)' = Number(u) /\ StatusOf(u)' = StatusOf(u) /\ ~ Settled(u)'
      /\ \A v \in Threads : Inside(v)' <=> Inside(v)
      /\ \A v \in Threads : pc'[v] \in ClaimPlaces =>
           /\ v # t /\ pc[v] \in ClaimPlaces /\ target'[v] = target[v]
           /\ tid'[target[v]] = tid[target[v]] /\ target[v] # u
  <2>1. /\ claimed' \in [Threads -> BOOLEAN] /\ \A v \in Threads \ {u} : claimed'[v] = claimed[v]
        /\ ~ claimed'[u]
    BY <1>1 DEF IInv, TypeOK
  <2> QED BY <1>1, <1>2, <2>1, ClaimDropped
<1>9. TypeOK'
  BY <1>1, <1>6 DEF IInv, TypeOK, Places, RegistryOK
<1>10. NeverDies' /\ RegistryOK(reg)'
  BY <1>6 DEF IInv, NeverDies
<1>11. HeardOK'
  BY <1>1, <1>8 DEF IInv, TypeOK, HeardOK
<1>12. CreatorWaits'
  BY <1>1, <1>6 DEF IInv, TypeOK, CreatorWaits
<1>13. HandlesOK'
  BY <1>1, <1>3, <1>5 DEF IInv, TypeOK, HandlesOK, ClaimPlaces
<1>14. JoinsHear'
  BY <1>1 DEF IInv, TypeOK, JoinsHear
<1>15. NumbersOK' /\ NamesOK' /\ SyncsOK'
  <2>1. \A v \in Threads \ {u} : Placed(v) => Number(v) # c
    BY <1>3 DEF IInv, NumbersOK
  <2>2. /\ StatusOf(u) = "running" => reg.ctx[c].sync = {}
        /\ StatusOf(u) = "finished" => u \in reg.ctx[c].sync
    BY <1>3 DEF IInv, SyncsOK
  <2>3. /\ Number(u)' = c /\ reg'.ctx[c].status = StatusOf(u)'
        /\ reg'.ctx[c].detached <=> Settled(u)'
        /\ StatusOf(u)' = "running" => reg'.ctx[c].sync = {}
        /\ StatusOf(u)' = "finished" => u \in reg'.ctx[c].sync
        /\ StatusOf(u)' # "created"
    BY <1>3, <1>7, <1>8, <2>2
  <2>4. /\ handle' = handle /\ \A v \in Threads \ {u} : claimed'[v] = claimed[v]
        /\ c \in Contexts /\ c # 0 /\ Number(u) = c
    BY <1>1, <1>3 DEF IInv, TypeOK
  <2> QED BY <1>6, <1>7, <1>8, <1>10, <2>1, <2>3, <2>4, OneContextChanges, ZenonT(60)
<1> QED BY <1>8, <1>9, <1>10, <1>11, <1>12, <1>13, <1>14, <1>15 DEF IInv

LEMMA ThreadDetachKeeps == ASSUME IInv, NEW t \in Threads, ThreadDetach(t) PROVE IInv'
<1>0. PICK u \in Threads, c \in Contexts \cup {NoContext} : u = target[t] /\ c = tid[u]
  BY DEF IInv, TypeOK
<1>1. /\ pc[t] = "unlinking" /\ pc' = [pc EXCEPT ![t] = "running"] /\ Returns(t) /\ reg.died = "no"
      /\ target' = [target EXCEPT ![t] = t] /\ arg' = [arg EXCEPT ![t] = NoContext]
      /\ tid' = tid /\ param' = param /\ creator' = creator /\ claimed' = claimed
      /\ handle' = handle /\ detached' = detached /\ heard' = heard
  BY DEF ThreadDetach, Goes, Returns
<1>2. Claims(t, u) /\ claimed[u]
  BY <1>0, <1>1 DEF Claims, ClaimPlaces, IInv, ClaimsOK
<1>3. /\ Placed(u) /\ Number(u) = c /\ c \in Contexts /\ c # 0 /\ u # 0 /\ ~ Settled(u) /\ arg[t] = c
      /\ pc[u] \notin {"unborn", "boot", "booted"} /\ reg.ctx[c].user_id = NoHandle
      /\ reg.ctx[c].status = (IF Ended(u) THEN "finished" ELSE "running")
      /\ reg.ctx[c].status = StatusOf(u)
  BY <1>0, <1>2, ClaimedIsPlaced DEF StatusOf
<1>4. c # NoContext
  BY <1>3, ThreadRegistryAssumption DEF Contexts, NoContext
<1>5. reg' = DetachThread(reg, c) /\ RegistryOK(reg)
  BY <1>3, <1>4 DEF ThreadDetach, IInv
<1>6. /\ RegistryOK(reg') /\ reg'.died = reg.died /\ OthersKept(reg, reg', c)
      /\ reg'.ctx[c].user_id = NoHandle
      /\ ~ Ended(u) => /\ reg'.ctx[c].status = "running" /\ reg'.ctx[c].detached
                       /\ reg'.ctx[c].sync = {}
  <2>1. CASE Ended(u)
    <3>1. RegistryOK(reg') /\ reg'.died = reg.died /\ reg'.ctx[c].status = "dead" /\ OthersKept(reg, reg', c)
      BY <1>3, <1>5, <2>1, DetachFinishedKeeps
    <3>2. reg'.ctx[c].user_id = NoHandle
      BY <1>3, <3>1 DEF RegistryOK, ContextsOK
    <3> QED BY <2>1, <3>1, <3>2
  <2>2. CASE ~ Ended(u)
    <3> DEFINE s == DetachThread(reg, c)
    <3>1. RegistryOK(s) /\ s.died = reg.died
      BY <1>3, <1>5, <2>2, DetachRunningKeeps
    <3>2. OthersKept(reg, s, c)
      BY <1>3, <1>5, <2>2, DetachRunningKeeps
    <3>3. s.ctx[c] = [reg.ctx[c] EXCEPT !.sync = {}, !.detached = TRUE]
      BY <1>3, <1>5, <2>2, DetachRunningKeeps
    <3>4. reg.ctx[c] \in ContextRecords
      BY <1>3, ContextType DEF IInv, TypeOK
    <3> HIDE DEF s
    <3>5. s.ctx[c].status = "running" /\ s.ctx[c].detached /\ s.ctx[c].sync = {} /\ s.ctx[c].user_id = NoHandle
      BY <1>3, <2>2, <3>3, <3>4 DEF ContextRecords
    <3> QED BY <1>5, <3>1, <3>2, <3>5 DEF s
  <2> QED BY <2>1, <2>2
<1>7. /\ ClaimsOK' /\ BootIsAwaited' /\ MainOK'
      /\ \A v \in Threads \ {u} : SameView(v)
      /\ (Placed(u)' <=> ~ Ended(u)) /\ Number(u)' = Number(u) /\ StatusOf(u)' = StatusOf(u) /\ Settled(u)'
      /\ \A v \in Threads : Inside(v)' <=> Inside(v)
      /\ \A v \in Threads : pc'[v] \in ClaimPlaces =>
           /\ v # t /\ pc[v] \in ClaimPlaces /\ target'[v] = target[v]
           /\ tid'[target[v]] = tid[target[v]] /\ target[v] # u
  <2>1. /\ claimed' \in [Threads -> BOOLEAN] /\ \A v \in Threads \ {u} : claimed'[v] = claimed[v]
        /\ claimed'[u]
    BY <1>1, <1>2 DEF IInv, TypeOK
  <2> QED BY <1>1, <1>2, <2>1, ClaimDropped
<1>8. TypeOK'
  BY <1>1, <1>6 DEF IInv, TypeOK, Places, RegistryOK
<1>9. NeverDies' /\ RegistryOK(reg)'
  BY <1>6 DEF IInv, NeverDies
<1>10. HeardOK'
  BY <1>1, <1>7 DEF IInv, TypeOK, HeardOK
<1>11. CreatorWaits'
  BY <1>1, <1>6 DEF IInv, TypeOK, CreatorWaits
<1>12. HandlesOK'
  BY <1>1 DEF IInv, TypeOK, HandlesOK, ClaimPlaces
<1>13. JoinsHear'
  BY <1>1 DEF IInv, TypeOK, JoinsHear
<1>14. NumbersOK' /\ NamesOK' /\ SyncsOK'
  <2>1. \A v \in Threads \ {u} : Placed(v) => Number(v) # c
    BY <1>3 DEF IInv, NumbersOK
  <2>2. Placed(u)' => /\ Number(u)' = c /\ reg'.ctx[c].status = StatusOf(u)'
                      /\ reg'.ctx[c].detached /\ Settled(u)' /\ claimed'[u]
                      /\ StatusOf(u)' = "running" /\ reg'.ctx[c].sync = {}
    BY <1>1, <1>2, <1>3, <1>6, <1>7
  <2>3. /\ handle' = handle /\ \A v \in Threads \ {u} : claimed'[v] = claimed[v]
        /\ c \in Contexts /\ c # 0 /\ Number(u) = c
    BY <1>1, <1>3
  <2> QED BY <1>6, <1>7, <1>9, <2>1, <2>2, <2>3, OneContextChanges
<1> QED BY <1>7, <1>8, <1>9, <1>10, <1>11, <1>12, <1>13, <1>14 DEF IInv

LEMMA ThreadFinishKeeps == ASSUME IInv, NEW t \in Threads, ThreadFinish(t) PROVE IInv'
<1>0. PICK c \in Contexts \cup {NoContext} : c = tid[t]
  BY DEF IInv, TypeOK
<1>1. /\ t # 0 /\ pc[t] = "running" /\ pc' = [pc EXCEPT ![t] = "exiting"] /\ reg.died = "no"
      /\ reg' = FinishThread(reg, c, t)
      /\ tid' = tid /\ param' = param /\ target' = target /\ arg' = arg /\ creator' = creator
      /\ handle' = handle /\ detached' = detached /\ claimed' = claimed /\ heard' = heard
  BY <1>0 DEF ThreadFinish, Goes
<1>2. Placed(t) /\ Number(t) = c /\ StatusOf(t) = "running"
  BY <1>0, <1>1 DEF Placed, Registered, Inside, Number, StatusOf, Ended
<1>3. /\ c \in Contexts /\ c # 0 /\ reg.ctx[c].status = "running" /\ reg.ctx[c].sync = {}
      /\ reg.ctx[c].detached <=> Settled(t)
  BY <1>1, <1>2 DEF IInv, NumbersOK, SyncsOK
<1>4. \A v, w \in Threads : Claims(v, w)' <=> Claims(v, w)
  BY <1>1 DEF IInv, TypeOK, Claims, ClaimPlaces
<1>5. \A v \in Threads : Settled(v)' <=> Settled(v)
  BY <1>1, <1>4 DEF Settled
<1>6. /\ RegistryOK(reg') /\ reg'.died = reg.died /\ OthersKept(reg, reg', c)
      /\ Settled(t) => reg'.ctx[c].user_id = NoHandle
      /\ ~ Settled(t) => /\ reg'.ctx[c].status = "finished" /\ ~ reg'.ctx[c].detached
                         /\ t \in reg'.ctx[c].sync
                         /\ reg'.ctx[c].user_id = reg.ctx[c].user_id
  <2>0. RegistryOK(reg)
    BY DEF IInv
  <2>1. CASE Settled(t)
    <3>1. RegistryOK(reg') /\ reg'.died = reg.died /\ reg'.ctx[c].status = "dead" /\ OthersKept(reg, reg', c)
      BY <1>1, <1>3, <2>0, <2>1, FinishDetachedKeeps
    <3>2. reg'.ctx[c].user_id = NoHandle
      BY <1>3, <3>1 DEF RegistryOK, ContextsOK
    <3> QED BY <2>1, <3>1, <3>2
  <2>2. CASE ~ Settled(t)
    <3> DEFINE s == FinishThread(reg, c, t)
    <3>1. RegistryOK(s) /\ s.died = reg.died
      BY <1>3, <2>0, <2>2, FinishJoinableKeeps
    <3>2. OthersKept(reg, s, c)
      BY <1>3, <2>0, <2>2, FinishJoinableKeeps
    <3>3. /\ s.ctx[c].status = "finished" /\ ~ s.ctx[c].detached /\ t \in s.ctx[c].sync
          /\ s.ctx[c].user_id = reg.ctx[c].user_id
      BY <1>3, <2>0, <2>2, FinishJoinableKeeps
    <3> HIDE DEF s
    <3> QED BY <1>1, <2>2, <3>1, <3>2, <3>3 DEF s
  <2> QED BY <2>1, <2>2
<1>7. TypeOK'
  BY <1>1, <1>6 DEF IInv, TypeOK, Places, RegistryOK
<1>8. NeverDies' /\ RegistryOK(reg)'
  BY <1>6 DEF IInv, NeverDies
<1>9. MainOK' /\ HeardOK' /\ BootIsAwaited'
  <2>1. MainOK' /\ HeardOK'
    BY <1>1, ZeroIsThread DEF IInv, TypeOK, MainOK, HeardOK, Inside
  <2>2. BootIsAwaited'
    BY <1>1 DEF IInv, TypeOK, BootIsAwaited
  <2> QED BY <2>1, <2>2
<1>10. CreatorWaits'
  BY <1>1, <1>6 DEF IInv, TypeOK, CreatorWaits
<1>11. ClaimsOK'
  BY <1>1, <1>4 DEF IInv, TypeOK, ClaimsOK, Claims, ClaimPlaces
<1>12. HandlesOK' /\ JoinsHear'
  <2>1. HandlesOK'
    BY <1>1 DEF IInv, TypeOK, HandlesOK, ClaimPlaces
  <2>2. JoinsHear'
    BY <1>1 DEF IInv, TypeOK, JoinsHear
  <2> QED BY <2>1, <2>2
<1>13. \A v \in Threads \ {t} : SameView(v)
  <2> SUFFICES ASSUME NEW v \in Threads \ {t} PROVE SameView(v)
    OBVIOUS
  <2>1. Starting(v)' <=> Starting(v)
    BY <1>1 DEF IInv, TypeOK, Starting
  <2>2. (Registered(v)' <=> Registered(v)) /\ (Ended(v)' <=> Ended(v))
    BY <1>1 DEF IInv, TypeOK, Registered, Inside, Ended
  <2>3. StatusOf(v)' = StatusOf(v) /\ Number(v)' = Number(v)
    BY <1>1, <2>2 DEF IInv, TypeOK, StatusOf, Number
  <2> QED BY <1>1, <1>5, <2>1, <2>2, <2>3 DEF SameView, Placed
<1>14. /\ Placed(t)' <=> ~ Settled(t)
       /\ Number(t)' = c /\ StatusOf(t)' = "finished"
  <2>1. pc'[t] = "exiting" /\ tid'[t] = c
    BY <1>0, <1>1 DEF IInv, TypeOK
  <2>2. Ended(t)' /\ ~ Starting(t)' /\ ~ Registered(t)'
    BY <2>1 DEF Ended, Starting, Registered
  <2>3. Number(t)' = c /\ StatusOf(t)' = "finished"
    BY <2>1, <2>2 DEF Number, StatusOf
  <2> QED BY <1>5, <2>2, <2>3 DEF Placed
<1>15. NumbersOK' /\ NamesOK' /\ SyncsOK'
  <2>1. \A v \in Threads \ {t} : Placed(v) => Number(v) # c
    BY <1>2 DEF IInv, NumbersOK
  <2>2. reg.ctx[c].user_id # NoHandle => reg.ctx[c].user_id = handle[t]
    BY <1>2, <1>3, <2>1 DEF IInv, NamesOK
  <2>3. ~ claimed[t] => reg.ctx[c].user_id = handle[t]
    BY <1>2 DEF IInv, NamesOK
  <2>4. Placed(t)' => /\ Number(t)' = c /\ reg'.ctx[c].status = StatusOf(t)'
                      /\ reg'.ctx[c].detached <=> Settled(t)'
                      /\ StatusOf(t)' = "finished" /\ t \in reg'.ctx[c].sync
                      /\ ~ claimed'[t] => reg'.ctx[c].user_id = handle[t]
    BY <1>1, <1>5, <1>6, <1>14, <2>3
  <2>5. reg'.ctx[c].user_id # NoHandle => Placed(t)' /\ reg'.ctx[c].user_id = handle[t]
    BY <1>6, <1>14, <2>2
  <2>6. \A v \in Threads : pc'[v] \in ClaimPlaces =>
           \/ pc[v] \in ClaimPlaces /\ target'[v] = target[v] /\ tid'[target[v]] = tid[target[v]]
              /\ target[v] # t
           \/ target'[v] = t /\ reg'.ctx[tid'[t]].user_id = NoHandle
    <3> SUFFICES ASSUME NEW v \in Threads, pc'[v] \in ClaimPlaces
                 PROVE  \/ pc[v] \in ClaimPlaces /\ target'[v] = target[v] /\ tid'[target[v]] = tid[target[v]]
                           /\ target[v] # t
                        \/ target'[v] = t /\ reg'.ctx[tid'[t]].user_id = NoHandle
      OBVIOUS
    <3>1. pc[v] \in ClaimPlaces /\ target'[v] = target[v] /\ tid' = tid
      BY <1>1 DEF IInv, TypeOK, ClaimPlaces
    <3>2. CASE target[v] = t
      <4>1. Claims(v, t)
        BY <3>1, <3>2 DEF Claims
      <4>2. reg.ctx[c].user_id = NoHandle
        BY <1>0, <4>1, ClaimedIsPlaced
      <4> QED BY <1>0, <1>6, <3>1, <3>2, <4>2
    <3> QED BY <3>1, <3>2
  <2>7. /\ handle' = handle /\ \A v \in Threads \ {t} : claimed'[v] = claimed[v]
        /\ c \in Contexts /\ c # 0 /\ Number(t) = c
    BY <1>1, <1>2, <1>3
  <2> QED BY <1>6, <1>8, <1>13, <2>1, <2>4, <2>5, <2>6, <2>7, OneContextChanges
<1> QED BY <1>7, <1>8, <1>9, <1>10, <1>11, <1>12, <1>15 DEF IInv
--------------------------------------------------------------------------------
LEMMA InitIInv == ASSUME Init PROVE IInv
<1> DEFINE main == [NewContext EXCEPT !.status = "running", !.detached = TRUE]
           ctx == [c \in Contexts |-> IF c = 0 THEN main ELSE NewContext]
<1>1. /\ pc = [t \in Threads |-> IF t = 0 THEN "running" ELSE "unborn"]
      /\ tid = [t \in Threads |-> IF t = 0 THEN 0 ELSE NoContext]
      /\ param = [t \in Threads |-> 0] /\ target = [t \in Threads |-> t]
      /\ arg = [t \in Threads |-> NoContext] /\ creator = [t \in Threads |-> t]
      /\ handle = [t \in Threads |-> NoHandle] /\ detached = [t \in Threads |-> FALSE]
      /\ claimed = [t \in Threads |-> t = 0] /\ heard = [t \in Threads |-> {}]
  BY DEF Init
<1>2. /\ reg.ctx = ctx /\ reg.n = 1 /\ reg.dead = <<>> /\ reg.invalid = <<>>
      /\ reg.alive = 1 /\ reg.running = 1 /\ reg.died = "no"
      /\ reg = [ctx |-> ctx, n |-> 1, dead |-> <<>>, invalid |-> <<>>, alive |-> 1, running |-> 1, died |-> "no"]
  BY DEF Init, InitialRegistry
<1>3. /\ main \in ContextRecords /\ main.status = "running" /\ main.detached /\ main.sync = {}
      /\ main.user_id = NoHandle
      /\ NewContext \in ContextRecords /\ NewContext.status = "invalid" /\ NewContext.sync = {}
      /\ NewContext.user_id = NoHandle /\ ~ NewContext.destroyed
  BY DEF NewContext, ContextRecords, Statuses
<1> HIDE DEF main
<1>4. 0 \in Contexts /\ 1 \in 0..MaxThreads /\ 0 \in Threads
  BY ThreadRegistryAssumption, ZeroIsThread DEF Contexts
<1>5. /\ ctx \in [Contexts -> ContextRecords] /\ ctx[0] = main
      /\ \A c \in Contexts \ {0} : ctx[c] = NewContext
  BY <1>3, <1>4
<1> HIDE DEF ctx
<1>6. reg \in Registries
  BY <1>2, <1>4, <1>5, EmptyQueue DEF Registries
<1>7. TypeOK
  BY <1>1, <1>4, <1>6 DEF TypeOK, Places
<1>8. RegistryOK(reg)
  <2>1. With(reg, {"running"}) = {0} /\ With(reg, {"created", "running"}) = {0} /\ With(reg, {"dead"}) = {}
    BY <1>2, <1>3, <1>4, <1>5 DEF With
  <2>2. CountersOK(reg)
    <3>1. Cardinality({0}) = 1
      BY FS_Singleton
    <3> QED BY <1>2, <2>1, <3>1 DEF CountersOK
  <2>3. QueuesOK(reg)
    <3>1. reg.dead = <<>> /\ reg.invalid = <<>> /\ reg.n = 1
      BY <1>2
    <3>2. Queued(reg.dead) = {} /\ OnceOnly(reg.dead) /\ Queued(reg.invalid) = {} /\ OnceOnly(reg.invalid)
      BY <3>1, EmptyQueue
    <3>3. reg.n > 0
      BY <3>1
    <3> QED BY <2>1, <3>2, <3>3 DEF QueuesOK
  <2>4. ContextsOK(reg)
    BY <1>2, <1>3, <1>5 DEF ContextsOK
  <2> QED BY <1>6, <2>2, <2>3, <2>4 DEF RegistryOK
<1>9. NeverDies /\ MainOK /\ BootIsAwaited /\ CreatorWaits
  BY <1>1, <1>2, <1>4 DEF NeverDies, MainOK, BootIsAwaited, CreatorWaits
<1>10. \A t, u \in Threads : ~ Claims(t, u)
  BY <1>1 DEF Claims, ClaimPlaces
<1>11. ClaimsOK /\ HandlesOK /\ JoinsHear /\ HeardOK
  BY <1>1, <1>4, <1>10 DEF ClaimsOK, HandlesOK, JoinsHear, HeardOK, Inside, ClaimPlaces
<1>12. /\ \A u \in Threads : Placed(u) <=> u = 0
       /\ Number(0) = 0 /\ StatusOf(0) = "running" /\ Settled(0)
  BY <1>1, <1>4, <1>10 DEF Placed, Starting, Registered, Inside, Ended, Number, StatusOf, Settled
<1>13. NumbersOK /\ SyncsOK
  BY <1>2, <1>3, <1>4, <1>5, <1>12 DEF NumbersOK, SyncsOK
<1>14. NamesOK
  BY <1>1, <1>2, <1>3, <1>4, <1>5, <1>12 DEF NamesOK, ClaimPlaces
<1> QED BY <1>7, <1>8, <1>9, <1>11, <1>13, <1>14 DEF IInv

LEMMA NextIInv == ASSUME IInv, [Next]_vars PROVE IInv'
<1>1. CASE UNCHANGED vars
  <2>1. /\ reg' = reg /\ pc' = pc /\ tid' = tid /\ param' = param /\ target' = target /\ arg' = arg
        /\ creator' = creator /\ handle' = handle /\ detached' = detached /\ claimed' = claimed
        /\ heard' = heard
    BY <1>1 DEF vars
  <2>2. TypeOK' /\ NeverDies' /\ RegistryOK(reg)' /\ MainOK'
    BY <2>1 DEF IInv, TypeOK, NeverDies, MainOK, RegistryOK, QueuesOK, ContextsOK, CountersOK
  <2>3. BootIsAwaited' /\ CreatorWaits' /\ HandlesOK' /\ JoinsHear' /\ HeardOK'
    BY <2>1 DEF IInv, BootIsAwaited, CreatorWaits, HandlesOK, JoinsHear, HeardOK, Inside
  <2>4. \A t, u \in Threads : Claims(t, u)' <=> Claims(t, u)
    BY <2>1 DEF Claims
  <2>5. ClaimsOK'
    BY <2>1, <2>4 DEF IInv, ClaimsOK
  <2>6. \A v \in Threads : SameView(v)
    BY <2>1, <2>4 DEF SameView, Placed, Starting, Registered, Inside, Ended, Settled, Number, StatusOf
  <2>7. NumbersOK' /\ NamesOK' /\ SyncsOK'
    BY <2>1, <2>6, ContextsStay
  <2> QED BY <2>2, <2>3, <2>5, <2>7 DEF IInv
<1>2. CASE Next
  <2>1. PICK t \in Threads : Proceeds(t) \/ Calls(t)
    BY <1>2 DEF Next
  <2>2. CASE Proceeds(t)
    BY <2>2, ThreadCreateKeeps, CreateReturnsKeeps, ThreadStartKeeps, StartedKeeps, RealJoinKeeps,
       ThreadJoinKeeps, RealTryJoinBusyKeeps, ThreadNotJoinedKeeps, RealDetachKeeps,
       ThreadDetachKeeps, RealExitKeeps
       DEF Proceeds
  <2>3. CASE \E h \in Handles, d \in BOOLEAN : RealCreate(t, h, d)
    BY <2>3, RealCreateKeeps
  <2>4. CASE \E u \in Threads : JoinCalled(t, u) \/ TryJoinCalled(t, u) \/ DetachCalled(t, u)
    <3>1. PICK u \in Threads : JoinCalled(t, u) \/ TryJoinCalled(t, u) \/ DetachCalled(t, u)
      BY <2>4
    <3> QED BY <3>1, ConsumeStepKeeps DEF JoinCalled, TryJoinCalled, DetachCalled
  <2>5. CASE ThreadFinish(t)
    BY <2>5, ThreadFinishKeeps
  <2> QED BY <2>1, <2>2, <2>3, <2>4, <2>5 DEF Calls
<1> QED BY <1>1, <1>2

(* Everything the registry's correctness rests on holds for ever. *)
THEOREM Invariance == Spec => []IInv
BY InitIInv, NextIInv, PTL DEF Spec

(* No CHECK of the registry fails and no handle ever names two contexts,   *)
(* whatever libc does with the handles it frees: the process can only die  *)
(* for want of contexts.                                                   *)
THEOREM RegistryNeverDies == Spec => []NeverDies
<1>1. IInv => NeverDies
  BY DEF IInv
<1> QED BY <1>1, Invariance, PTL

(* Two threads that are both there never have the same number. *)
THEOREM NumbersStayUnique == Spec => []NumbersAreUnique
<1>1. ASSUME IInv PROVE NumbersAreUnique
  <2> SUFFICES ASSUME NEW t \in Threads, NEW u \in Threads, t # u, Registered(t), Registered(u)
               PROVE  tid[t] # tid[u]
    BY DEF NumbersAreUnique
  <2>1. Placed(t) /\ Placed(u) /\ Number(t) = tid[t] /\ Number(u) = tid[u]
    BY DEF Placed, Number, Registered, Inside
  <2> QED BY <1>1, <2>1 DEF IInv, NumbersOK
<1> QED BY <1>1, Invariance, PTL

(* pthread_join, pthread_tryjoin_np and pthread_detach find the context of *)
(* the thread the handle stands for, and no other, also when libc gave the *)
(* handle of a thread that is gone to a new one.                           *)
THEOREM HandlesFindTheirThreads == Spec => []HandleFindsItsThread
<1>1. ASSUME IInv PROVE HandleFindsItsThread
  BY <1>1, HandleFound DEF HandleFindsItsThread
<1> QED BY <1>1, Invariance, PTL

(* A thread that starts reads the ThreadParam of a creator that is still   *)
(* waiting for it, and has acquired what its creator released.             *)
THEOREM StartsHearTheirCreators == Spec => []StartHearsCreator
<1>1. ASSUME IInv PROVE StartHearsCreator
  BY <1>1 DEF StartHearsCreator, IInv, BootIsAwaited, HeardOK
<1> QED BY <1>1, Invariance, PTL

(* Once a join has returned, the joining thread has acquired what the      *)
(* joined one released at its end.                                         *)
THEOREM JoinsHearTheirThreads == Spec => []JoinHearsThread
<1>1. ASSUME IInv PROVE JoinHearsThread
  BY <1>1 DEF JoinHearsThread, IInv, JoinsHear
<1> QED BY <1>1, Invariance, PTL

(* The types, the counters and the queues of the registry stay right. *)
THEOREM RegistryStaysConsistent == Spec => []RegistryIsConsistent
<1>1. ASSUME IInv PROVE RegistryIsConsistent
  <2>1. TypeOK /\ RegistryOK(reg)
    BY <1>1 DEF IInv
  <2>2. /\ reg.dead \in Seq(Contexts) /\ reg.invalid \in Seq(Contexts)
        /\ OnceOnly(reg.dead) /\ OnceOnly(reg.invalid)
    BY <2>1 DEF RegistryOK, QueuesOK, Registries
  <2>3. Len(reg.dead) = Cardinality(Queued(reg.dead)) /\ Len(reg.invalid) = Cardinality(Queued(reg.invalid))
    BY <2>2, QueueCounts
  <2>4. \A c \in With(reg, {"invalid"}) : ~ reg.ctx[c].destroyed /\ reg.ctx[c].sync = {}
    BY <2>1 DEF RegistryOK, ContextsOK, With
  <2>5. /\ reg.running = Cardinality(With(reg, {"running"}))
        /\ reg.alive = Cardinality(With(reg, {"created", "running"}))
        /\ Queued(reg.dead) = With(reg, {"dead"}) /\ Len(reg.dead) = Cardinality(With(reg, {"dead"}))
        /\ Queued(reg.invalid) \subseteq With(reg, {"invalid"})
    BY <2>1, <2>3 DEF RegistryOK, CountersOK, QueuesOK
  <2> QED BY <2>1, <2>3, <2>4, <2>5, Zenon DEF RegistryIsConsistent, With, Queued
<1> QED BY <1>1, Invariance, PTL
================================================================================
