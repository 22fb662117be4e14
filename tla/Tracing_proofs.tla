----------------------------- MODULE Tracing_proofs -----------------------------
(***************************************************************************)
(* What the trace says of durability, and what it leaves out, for any      *)
(* number of threads, pages and descriptors and any number of calls.       *)
(***************************************************************************)
EXTENDS Tracing, FiniteSetTheorems, WellFoundedInduction, TLAPS

(* The part of TypeOK that durability needs. *)
DurabilityTypeOK ==
  /\ flushes \in [Threads -> SUBSET Pages]
  /\ awaiting \in [Threads -> SUBSET Pages]
  /\ trace \in [Threads -> [Pages -> {"nothing", "dirty", "persisted"}]]
  /\ store \in [Threads -> [Pages -> {"none", "cached", "flushed", "durable"}]]
  /\ hidden \in [Threads -> SUBSET Pages]

(* What a fence relies on: it prints a line for every store it makes       *)
(* durable, and a line that flushes_cache holds is on its way, unless it   *)
(* was written to since.                                                   *)
FlushesAreKept ==
  \A t \in Threads, p \in Pages :
    /\ store[t][p] = "flushed" => p \in flushes[t]
    /\ p \in flushes[t] => p \in awaiting[t]
    /\ p \in flushes[t] /\ p \notin hidden[t] /\ trace[t][p] = "dirty"
         => store[t][p] \in {"flushed", "durable"}

DurabilityInv ==
  /\ DurabilityTypeOK
  /\ FlushesAreKept
  /\ PersistedIsDurable
  /\ DurableIsPersisted

LEMMA InitDurability == Init => DurabilityInv
BY DEF Init, Each, DurabilityInv, DurabilityTypeOK, FlushesAreKept, PersistedIsDurable,
       DurableIsPersisted

LEMMA HandleMmapDurability ==
  ASSUME DurabilityInv, NEW t \in Threads, HandleMmap(t)
  PROVE  DurabilityInv'
<1> DEFINE q == call[t].page
<1>1. /\ trace' = [u \in Threads |-> [trace[u] EXCEPT ![q] = "nothing"]]
      /\ store' = [u \in Threads |-> [store[u] EXCEPT ![q] = "none"]]
      /\ hidden' = [u \in Threads |-> hidden[u] \ {q}]
      /\ flushes' = flushes /\ awaiting' = awaiting
  BY DEF HandleMmap
<1> HIDE DEF q
<1>2. DurabilityTypeOK'
  BY <1>1 DEF DurabilityInv, DurabilityTypeOK
<1>3. ASSUME NEW u \in Threads, NEW p \in Pages
      PROVE  /\ trace'[u][p] = IF p = q THEN "nothing" ELSE trace[u][p]
             /\ store'[u][p] = IF p = q THEN "none" ELSE store[u][p]
             /\ p \in hidden'[u] <=> p \in hidden[u] /\ p # q
  BY <1>1 DEF DurabilityInv, DurabilityTypeOK
<1>4. (FlushesAreKept /\ PersistedIsDurable /\ DurableIsPersisted)'
  BY <1>1, <1>3 DEF DurabilityInv, FlushesAreKept, PersistedIsDurable, DurableIsPersisted
<1> QED BY <1>2, <1>4 DEF DurabilityInv

LEMMA StoreDurability ==
  ASSUME DurabilityInv, NEW t \in Threads, NEW q \in Pages, NEW same \in BOOLEAN, Store(t, q, same)
  PROVE  DurabilityInv'
<1>1. PICK prints \in BOOLEAN :
        /\ trace' = IF prints THEN [trace EXCEPT ![t][q] = "dirty"] ELSE trace
        /\ store' = [store EXCEPT ![t][q] = "cached"]
        /\ hidden' = [hidden EXCEPT ![t] =
                        IF q \in awaiting[t] \/ (~ prints /\ trace[t][q] # "dirty")
                        THEN @ \cup {q} ELSE @ \ {q}]
        /\ flushes' = flushes /\ awaiting' = awaiting
  BY DEF Store
<1>2. DurabilityTypeOK'
  BY <1>1 DEF DurabilityInv, DurabilityTypeOK
<1>3. ASSUME NEW u \in Threads, NEW p \in Pages, <<u, p>> # <<t, q>>
      PROVE  /\ trace'[u][p] = trace[u][p]
             /\ store'[u][p] = store[u][p]
             /\ p \in hidden'[u] <=> p \in hidden[u]
  BY <1>1, <1>3 DEF DurabilityInv, DurabilityTypeOK
<1>4. /\ trace'[t][q] = IF prints THEN "dirty" ELSE trace[t][q]
      /\ store'[t][q] = "cached"
      /\ q \in hidden'[t] <=> q \in awaiting[t] \/ (~ prints /\ trace[t][q] # "dirty")
  BY <1>1 DEF DurabilityInv, DurabilityTypeOK
<1>5. ASSUME NEW u \in Threads, NEW p \in Pages
      PROVE  /\ store'[u][p] = "flushed" => p \in flushes'[u]
             /\ p \in flushes'[u] => p \in awaiting'[u]
             /\ p \in flushes'[u] /\ p \notin hidden'[u] /\ trace'[u][p] = "dirty"
                  => store'[u][p] \in {"flushed", "durable"}
             /\ trace'[u][p] = "persisted" /\ p \notin hidden'[u] => store'[u][p] = "durable"
             /\ store'[u][p] = "durable" => trace'[u][p] # "dirty"
  <2>1. CASE <<u, p>> = <<t, q>>
    BY <1>1, <1>4, <2>1 DEF DurabilityInv, FlushesAreKept, PersistedIsDurable, DurableIsPersisted
  <2>2. CASE <<u, p>> # <<t, q>>
    BY <1>1, <1>3, <2>2 DEF DurabilityInv, FlushesAreKept, PersistedIsDurable, DurableIsPersisted
  <2> QED BY <2>1, <2>2
<1> QED BY <1>2, <1>5 DEF DurabilityInv, FlushesAreKept, PersistedIsDurable, DurableIsPersisted

LEMMA FlushDurability ==
  ASSUME DurabilityInv, NEW t \in Threads, NEW q \in Pages, Flush(t, q)
  PROVE  DurabilityInv'
<1>1. /\ flushes' = [flushes EXCEPT ![t] = @ \cup {q}]
      /\ awaiting' = [awaiting EXCEPT ![t] = @ \cup {q}]
      /\ store' = [store EXCEPT ![t][q] = "flushed"]
      /\ trace' = trace /\ hidden' = hidden
      /\ store[t][q] \in {"cached", "flushed"}
  BY DEF Flush
<1>2. DurabilityTypeOK'
  BY <1>1 DEF DurabilityInv, DurabilityTypeOK
<1>3. ASSUME NEW u \in Threads, NEW p \in Pages
      PROVE  /\ p \in flushes'[u] <=> p \in flushes[u] \/ <<u, p>> = <<t, q>>
             /\ p \in awaiting'[u] <=> p \in awaiting[u] \/ <<u, p>> = <<t, q>>
             /\ store'[u][p] = IF <<u, p>> = <<t, q>> THEN "flushed" ELSE store[u][p]
  BY <1>1 DEF DurabilityInv, DurabilityTypeOK
<1>4. (FlushesAreKept /\ PersistedIsDurable /\ DurableIsPersisted)'
  BY <1>1, <1>3 DEF DurabilityInv, FlushesAreKept, PersistedIsDurable, DurableIsPersisted
<1> QED BY <1>2, <1>4 DEF DurabilityInv

LEMMA FenceDurability ==
  ASSUME DurabilityInv, NEW t \in Threads, Fence(t)
  PROVE  DurabilityInv'
<1>1. /\ trace' = [trace EXCEPT ![t] =
                     [p \in Pages |-> IF p \in flushes[t] /\ @[p] = "dirty" THEN "persisted" ELSE @[p]]]
      /\ flushes' = [flushes EXCEPT ![t] = {}] /\ awaiting' = [awaiting EXCEPT ![t] = {}]
      /\ store' = [store EXCEPT ![t] =
                     [p \in Pages |-> IF @[p] = "flushed" THEN "durable" ELSE @[p]]]
      /\ hidden' = [hidden EXCEPT ![t] = @ \ {p \in Pages : store[t][p] = "flushed"}]
  BY DEF Fence
<1>2. DurabilityTypeOK'
  BY <1>1 DEF DurabilityInv, DurabilityTypeOK
<1>3. ASSUME NEW u \in Threads, NEW p \in Pages, u # t
      PROVE  /\ trace'[u][p] = trace[u][p] /\ store'[u][p] = store[u][p]
             /\ hidden'[u] = hidden[u] /\ flushes'[u] = flushes[u] /\ awaiting'[u] = awaiting[u]
  BY <1>1, <1>3 DEF DurabilityInv, DurabilityTypeOK
<1>4. ASSUME NEW p \in Pages
      PROVE  /\ trace'[t][p] = IF p \in flushes[t] /\ trace[t][p] = "dirty"
                               THEN "persisted" ELSE trace[t][p]
             /\ store'[t][p] = IF store[t][p] = "flushed" THEN "durable" ELSE store[t][p]
             /\ p \in hidden'[t] <=> p \in hidden[t] /\ store[t][p] # "flushed"
             /\ flushes'[t] = {}
  BY <1>1 DEF DurabilityInv, DurabilityTypeOK
<1>5. ASSUME NEW u \in Threads, NEW p \in Pages
      PROVE  /\ store'[u][p] = "flushed" => p \in flushes'[u]
             /\ p \in flushes'[u] => p \in awaiting'[u]
             /\ p \in flushes'[u] /\ p \notin hidden'[u] /\ trace'[u][p] = "dirty"
                  => store'[u][p] \in {"flushed", "durable"}
             /\ trace'[u][p] = "persisted" /\ p \notin hidden'[u] => store'[u][p] = "durable"
             /\ store'[u][p] = "durable" => trace'[u][p] # "dirty"
  <2>1. CASE u = t
    BY <1>4, <2>1 DEF DurabilityInv, FlushesAreKept, PersistedIsDurable, DurableIsPersisted
  <2>2. CASE u # t
    BY <1>3, <2>2 DEF DurabilityInv, FlushesAreKept, PersistedIsDurable, DurableIsPersisted
  <2> QED BY <2>1, <2>2
<1> QED BY <1>2, <1>5 DEF DurabilityInv, FlushesAreKept, PersistedIsDurable, DurableIsPersisted

LEMMA DurabilityKept ==
  ASSUME DurabilityInv, UNCHANGED durability
  PROVE  DurabilityInv'
BY DEF durability, DurabilityInv, DurabilityTypeOK, FlushesAreKept, PersistedIsDurable,
       DurableIsPersisted

LEMMA NextDurability == DurabilityInv /\ [Next]_vars => DurabilityInv'
<1> SUFFICES ASSUME DurabilityInv, [Next]_vars PROVE DurabilityInv'
  OBVIOUS
<1>1. CASE UNCHANGED vars
  BY <1>1, DurabilityKept DEF vars
<1>2. ASSUME NEW t \in Threads, HandleMmap(t) PROVE DurabilityInv'
  BY <1>2, HandleMmapDurability
<1>3. ASSUME NEW t \in Threads, NEW p \in Pages, NEW same \in BOOLEAN, Store(t, p, same)
      PROVE  DurabilityInv'
  BY <1>3, StoreDurability
<1>4. ASSUME NEW t \in Threads, NEW p \in Pages, Flush(t, p) PROVE DurabilityInv'
  BY <1>4, FlushDurability
<1>5. ASSUME NEW t \in Threads, Fence(t) PROVE DurabilityInv'
  BY <1>5, FenceDurability
<1>6. ASSUME NEW t \in Threads,
             \/ \E d \in Fds, f \in {"pool", "other"} : OpenFile(t, d, f)
             \/ \E d \in Fds : CloseFile(t, d)
             \/ \E d, e \in Fds : DupFile(t, d, e)
             \/ \E p \in Pages, d \in Fds : Mmap(t, p, d)
             \/ \E p \in Pages : Munmap(t, p)
             \/ HandleMunmap(t)
             \/ \E p \in Pages, same \in BOOLEAN : Load(t, p, same)
             \/ Release(t)
      PROVE  DurabilityInv'
  <2>1. UNCHANGED durability
    BY <1>6 DEF OpenFile, CloseFile, DupFile, Mmap, Munmap, HandleMunmap, Load, Release
  <2> QED BY <2>1, DurabilityKept
<1> QED BY <1>1, <1>2, <1>3, <1>4, <1>5, <1>6 DEF Next

(* A FLUSH line of the trace is one the thread's own clwb and sfence have  *)
(* made good, stores that came between the two or that the filter of       *)
(* MemoryAccess left out excepted.                                         *)
THEOREM TracePersistsNothingElse == Spec => []PersistedIsDurable
<1>1. DurabilityInv => PersistedIsDurable
  BY DEF DurabilityInv
<1> QED BY InitDurability, NextDurability, <1>1, PTL DEF Spec

(* instrument_fence prints a line for everything the sfence makes durable. *)
THEOREM TraceForgetsNoFlush == Spec => []DurableIsPersisted
<1>1. DurabilityInv => DurableIsPersisted
  BY DEF DurabilityInv
<1> QED BY InitDurability, NextDurability, <1>1, PTL DEF Spec
--------------------------------------------------------------------------------

(* What the filter of MemoryAccess needs of the types. *)
FilterTypeOK ==
  /\ regions \in Seq([page : Pages, valid : BOOLEAN])
  /\ shadow \in [Threads -> [Pages -> Strengths]]
  /\ logged \in [Threads -> [Pages -> Strengths]]
  /\ imitated \in [Threads -> SUBSET Pages]

FilterInv == FilterTypeOK /\ LeftOutIsLogged

LEMMA InitFilter == Init => FilterInv
<1> SUFFICES ASSUME Init PROVE FilterInv
  OBVIOUS
<1>1. FilterTypeOK
  BY DEF Init, Each, FilterTypeOK, Strengths
<1>2. LeftOutIsLogged
  BY DEF Init, Each, LeftOutIsLogged
<1> QED BY <1>1, <1>2 DEF FilterInv

(* The regions grow only by the page that is being mapped. *)
LEMMA MmapTracesItsPage ==
  ASSUME FilterTypeOK, NEW t \in Threads, HandleMmap(t), NEW p \in Pages, p # call[t].page
  PROVE  IsPmAddress(p)' => IsPmAddress(p)
<1>1. CASE regions' = regions
  BY <1>1 DEF IsPmAddress
<1>2. CASE regions' = Append(regions, [page |-> call[t].page, valid |-> TRUE])
  <2> SUFFICES ASSUME NEW i \in DOMAIN regions', i = 1 \/ regions'[i].valid, regions'[i].page = p
               PROVE  IsPmAddress(p)
    BY DEF IsPmAddress
  <2>1. i \in DOMAIN regions /\ regions'[i] = regions[i]
    BY <1>2 DEF FilterTypeOK
  <2> QED BY <2>1 DEF IsPmAddress
<1> QED BY <1>1, <1>2 DEF HandleMmap

LEMMA AppendType == ASSUME NEW S, NEW s \in Seq(S), NEW e \in S PROVE Append(s, e) \in Seq(S)
OBVIOUS

LEMMA ElementType == ASSUME NEW S, NEW s \in Seq(S), NEW i \in DOMAIN s PROVE s[i] \in S
OBVIOUS

LEMMA ReplaceType ==
  ASSUME NEW S, NEW s \in Seq(S), NEW i \in DOMAIN s, NEW e \in S
  PROVE  [s EXCEPT ![i] = e] \in Seq(S)
OBVIOUS

LEMMA HandleMmapFilter ==
  ASSUME FilterInv, NEW t \in Threads, HandleMmap(t), call[t].page \in Pages
  PROVE  FilterInv'
<1> DEFINE q == call[t].page
<1>1. /\ regions' = regions \/ regions' = Append(regions, [page |-> q, valid |-> TRUE])
      /\ shadow' = [u \in Threads |-> [shadow[u] EXCEPT ![q] = IF u = t THEN "write" ELSE "none"]]
      /\ imitated' = [imitated EXCEPT ![t] = @ \cup {q}]
      /\ logged' = logged
  BY DEF HandleMmap
<1>2. FilterTypeOK'
  <2>1. regions' \in Seq([page : Pages, valid : BOOLEAN])
    <3>1. regions \in Seq([page : Pages, valid : BOOLEAN])
      BY DEF FilterInv, FilterTypeOK
    <3>2. [page |-> q, valid |-> TRUE] \in [page : Pages, valid : BOOLEAN]
      OBVIOUS
    <3>3. Append(regions, [page |-> q, valid |-> TRUE]) \in Seq([page : Pages, valid : BOOLEAN])
      BY <3>1, <3>2, AppendType, Zenon
    <3> QED BY <1>1, <3>1, <3>3, Zenon
  <2>2. /\ shadow' \in [Threads -> [Pages -> Strengths]] /\ logged' \in [Threads -> [Pages -> Strengths]]
        /\ imitated' \in [Threads -> SUBSET Pages]
    BY <1>1 DEF FilterInv, FilterTypeOK, Strengths
  <2> QED BY <2>1, <2>2 DEF FilterTypeOK
<1>3. ASSUME NEW u \in Threads, NEW p \in Pages,
             IsPmAddress(p)', shadow'[u][p] # "none", p \notin imitated'[u]
      PROVE  Stands(logged'[u][p], shadow'[u][p])
  <2>1. p # q /\ shadow'[u][p] = shadow[u][p] /\ p \notin imitated[u]
    BY <1>1, <1>3 DEF FilterInv, FilterTypeOK
  <2>2. IsPmAddress(p)
    BY <2>1, <1>3, MmapTracesItsPage DEF FilterInv
  <2> QED BY <1>1, <1>3, <2>1, <2>2 DEF FilterInv, LeftOutIsLogged
<1> QED BY <1>2, <1>3 DEF FilterInv, LeftOutIsLogged

LEMMA AccessesFilter ==
  ASSUME FilterInv, NEW t \in Threads, NEW q \in Pages, NEW kind \in {"read", "write"},
         NEW same \in BOOLEAN, Accesses(t, q, kind, same), UNCHANGED <<regions, imitated>>
  PROVE  FilterInv'
<1>1. PICK prints \in BOOLEAN, evicted \in SUBSET (Threads \ {t}) :
        /\ prints <=> IsPmAddress(q) /\ ~ (same /\ Stands(shadow[t][q], kind))
        /\ logged' = IF prints THEN [logged EXCEPT ![t][q] = Stronger(@, kind)] ELSE logged
        /\ shadow' = [u \in Threads |->
                        IF u = t THEN [shadow[t] EXCEPT ![q] = Stronger(@, kind)]
                        ELSE IF u \in evicted THEN [shadow[u] EXCEPT ![q] = "none"] ELSE shadow[u]]
  BY DEF Accesses
<1>2. \A strength \in Strengths : Stronger(strength, kind) \in Strengths
  BY DEF Stronger, Strengths
<1>3. FilterTypeOK'
  BY <1>1, <1>2 DEF FilterInv, FilterTypeOK, Strengths
<1>4. ASSUME NEW u \in Threads, NEW p \in Pages, <<u, p>> # <<t, q>>
      PROVE  /\ logged'[u][p] = logged[u][p]
             /\ shadow'[u][p] \in {shadow[u][p], "none"}
  BY <1>1, <1>4 DEF FilterInv, FilterTypeOK
<1>5. /\ logged'[t][q] = IF prints THEN Stronger(logged[t][q], kind) ELSE logged[t][q]
      /\ shadow'[t][q] = Stronger(shadow[t][q], kind)
  BY <1>1 DEF FilterInv, FilterTypeOK
<1>6. ASSUME NEW u \in Threads, NEW p \in Pages,
             IsPmAddress(p), shadow'[u][p] # "none", p \notin imitated[u]
      PROVE  Stands(logged'[u][p], shadow'[u][p])
  <2>1. CASE <<u, p>> # <<t, q>>
    BY <1>4, <1>6, <2>1 DEF FilterInv, LeftOutIsLogged
  <2>2. CASE <<u, p>> = <<t, q>> /\ shadow[t][q] = "none"
    BY <1>1, <1>5, <1>6, <2>2 DEF Stands, Stronger
  <2>3. CASE <<u, p>> = <<t, q>> /\ shadow[t][q] # "none"
    <3>1. Stands(logged[t][q], shadow[t][q])
      BY <1>6, <2>3 DEF FilterInv, LeftOutIsLogged
    <3> QED BY <1>1, <1>5, <1>6, <2>3, <3>1 DEF Stands, Stronger, FilterInv, FilterTypeOK, Strengths
  <2> QED BY <2>1, <2>2, <2>3
<1>7. \A p : IsPmAddress(p)' <=> IsPmAddress(p)
  BY DEF IsPmAddress
<1> QED BY <1>3, <1>6, <1>7 DEF FilterInv, LeftOutIsLogged

LEMMA HandleMunmapFilter ==
  ASSUME FilterInv, NEW t \in Threads, HandleMunmap(t)
  PROVE  FilterInv'
<1>1. PICK first : regions' = regions \/ regions' = [regions EXCEPT ![first].valid = FALSE]
  BY DEF HandleMunmap
<1>2. /\ shadow' = shadow /\ logged' = logged /\ imitated' = imitated
  BY DEF HandleMunmap, filter
<1>3. regions' \in Seq([page : Pages, valid : BOOLEAN])
  <2>1. ASSUME NEW r \in [page : Pages, valid : BOOLEAN]
        PROVE  [r EXCEPT !.valid = FALSE] \in [page : Pages, valid : BOOLEAN]
    OBVIOUS
  <2>2. CASE first \in DOMAIN regions /\ regions' = [regions EXCEPT ![first].valid = FALSE]
    <3>1. regions[first] \in [page : Pages, valid : BOOLEAN]
      BY <2>2, ElementType, Zenon DEF FilterInv, FilterTypeOK
    <3> DEFINE e == [regions[first] EXCEPT !.valid = FALSE]
    <3>2. e \in [page : Pages, valid : BOOLEAN]
      BY <3>1, <2>1, Zenon
    <3>3. regions' = [regions EXCEPT ![first] = e]
      BY <2>2
    <3> HIDE DEF e
    <3>4. regions \in Seq([page : Pages, valid : BOOLEAN])
      BY DEF FilterInv, FilterTypeOK
    <3>5. [regions EXCEPT ![first] = e] \in Seq([page : Pages, valid : BOOLEAN])
      BY <2>2, <3>2, <3>4, ReplaceType, Zenon
    <3> QED BY <3>3, <3>5, Zenon
  <2>3. CASE regions' = regions
    BY <2>3 DEF FilterInv, FilterTypeOK
  <2>4. CASE first \notin DOMAIN regions /\ regions' = [regions EXCEPT ![first].valid = FALSE]
    <3>1. regions' = regions
      BY <2>4 DEF FilterInv, FilterTypeOK
    <3> QED BY <3>1 DEF FilterInv, FilterTypeOK
  <2> QED BY <1>1, <2>2, <2>3, <2>4
<1>4. ASSUME NEW p, IsPmAddress(p)' PROVE IsPmAddress(p)
  <2> SUFFICES ASSUME NEW i \in DOMAIN regions', i = 1 \/ regions'[i].valid, regions'[i].page = p
               PROVE  IsPmAddress(p)
    BY <1>4 DEF IsPmAddress
  <2>1. i \in DOMAIN regions /\ regions[i].page = p /\ (regions'[i].valid => regions[i].valid)
    <3>1. CASE regions' = regions
      BY <3>1
    <3>2. CASE regions' = [regions EXCEPT ![first].valid = FALSE]
      <4>1. i \in DOMAIN regions
        BY <3>2 DEF FilterInv, FilterTypeOK
      <4>2. regions[i] \in [page : Pages, valid : BOOLEAN]
        BY <4>1, ElementType, Zenon DEF FilterInv, FilterTypeOK
      <4>3. regions'[i] = IF i = first THEN [regions[i] EXCEPT !.valid = FALSE] ELSE regions[i]
        BY <3>2, <4>1 DEF FilterInv, FilterTypeOK
      <4>4. CASE i = first
        <5>1. regions'[i].page = regions[i].page /\ regions'[i].valid = FALSE
          BY <4>2, <4>3, <4>4
        <5> QED BY <4>1, <5>1, Zenon
      <4> QED BY <4>1, <4>3, <4>4
    <3> QED BY <1>1, <3>1, <3>2
  <2> QED BY <2>1 DEF IsPmAddress
<1> QED BY <1>2, <1>3, <1>4 DEF FilterInv, FilterTypeOK, LeftOutIsLogged

(* A thread tells of the mmap of a page. *)
CallInv ==
  /\ call = [t \in Threads |-> call[t]]
  /\ \A t \in Threads : call[t].op = "mmap" => call[t].page \in Pages

LEMMA InitCall == Init => CallInv
BY DEF Init, CallInv, Idle

LEMMA NextCall == CallInv /\ [Next]_vars => CallInv'
<1> SUFFICES ASSUME CallInv, [Next]_vars PROVE CallInv'
  OBVIOUS
<1>1. CASE call' = call
  BY <1>1 DEF CallInv
<1>2. ASSUME NEW t \in Threads, call' = [call EXCEPT ![t] = Idle] PROVE CallInv'
  BY <1>2 DEF CallInv, Idle
<1>3. ASSUME NEW t \in Threads, NEW p \in Pages, NEW d,
             call' = [call EXCEPT ![t] = [op |-> "mmap", page |-> p, fd |-> d]] PROVE CallInv'
  BY <1>3 DEF CallInv
<1>4. ASSUME NEW t \in Threads, NEW p \in Pages,
             call' = [call EXCEPT ![t] = [op |-> "munmap", page |-> p]] PROVE CallInv'
  BY <1>4 DEF CallInv
<1>5. CASE UNCHANGED vars
  BY <1>1, <1>5 DEF vars, os
<1>6. CASE Next
  <2> SUFFICES ASSUME NEW t \in Threads,
                 \/ \E d \in Fds, f \in {"pool", "other"} : OpenFile(t, d, f)
                 \/ \E d \in Fds : CloseFile(t, d)
                 \/ \E d, e \in Fds : DupFile(t, d, e)
                 \/ \E p \in Pages, d \in Fds : Mmap(t, p, d)
                 \/ HandleMmap(t)
                 \/ \E p \in Pages : Munmap(t, p)
                 \/ HandleMunmap(t)
                 \/ \E p \in Pages, same \in BOOLEAN : Load(t, p, same) \/ Store(t, p, same)
                 \/ Release(t)
                 \/ \E p \in Pages : Flush(t, p)
                 \/ Fence(t)
               PROVE  CallInv'
    BY <1>6 DEF Next
  <2>1. CASE HandleMmap(t) \/ HandleMunmap(t)
    <3>1. call' = [call EXCEPT ![t] = Idle]
      BY <2>1 DEF HandleMmap, HandleMunmap
    <3> QED BY <1>2, <3>1
  <2>2. CASE \E p \in Pages, d \in Fds : Mmap(t, p, d)
    <3>1. PICK p \in Pages, d \in Fds : call' = [call EXCEPT ![t] = [op |-> "mmap", page |-> p, fd |-> d]]
      BY <2>2 DEF Mmap
    <3> QED BY <1>3, <3>1
  <2>3. CASE \E p \in Pages : Munmap(t, p)
    BY <1>4, <2>3 DEF Munmap
  <2>4. ASSUME \/ \E d \in Fds, f \in {"pool", "other"} : OpenFile(t, d, f)
               \/ \E d \in Fds : CloseFile(t, d)
               \/ \E d, e \in Fds : DupFile(t, d, e)
        PROVE  call' = call
    BY <2>4 DEF OpenFile, CloseFile, DupFile
  <2>5. ASSUME \/ \E p \in Pages, same \in BOOLEAN : Load(t, p, same) \/ Store(t, p, same)
               \/ Release(t)
               \/ \E p \in Pages : Flush(t, p)
               \/ Fence(t)
        PROVE  call' = call
    BY <2>5 DEF Load, Store, Release, Flush, Fence, os
  <2> QED BY <1>1, <2>1, <2>2, <2>3, <2>4, <2>5
<1> QED BY <1>5, <1>6

LEMMA ReleaseFilter ==
  ASSUME FilterInv, NEW t \in Threads, Release(t)
  PROVE  FilterInv'
<1>1. /\ shadow' = [shadow EXCEPT ![t] = [p \in Pages |-> "none"]]
      /\ logged' = [logged EXCEPT ![t] = [p \in Pages |-> "none"]]
      /\ imitated' = [imitated EXCEPT ![t] = {}]
      /\ regions' = regions
  BY DEF Release, tracing
<1>2. FilterTypeOK'
  BY <1>1 DEF FilterInv, FilterTypeOK, Strengths
<1>3. ASSUME NEW u \in Threads, NEW p \in Pages
      PROVE  \/ shadow'[u][p] = "none"
             \/ /\ shadow'[u][p] = shadow[u][p] /\ logged'[u][p] = logged[u][p]
                /\ imitated'[u] = imitated[u]
  BY <1>1 DEF FilterInv, FilterTypeOK
<1>4. \A p : IsPmAddress(p)' <=> IsPmAddress(p)
  BY <1>1 DEF IsPmAddress
<1> QED BY <1>2, <1>3, <1>4 DEF FilterInv, LeftOutIsLogged

LEMMA MunmapFilter ==
  ASSUME FilterInv, NEW t \in Threads, NEW q \in Pages, Munmap(t, q)
  PROVE  FilterInv'
<1>1. /\ shadow' = [u \in Threads |-> [shadow[u] EXCEPT ![q] = "none"]]
      /\ logged' = logged /\ imitated' = imitated /\ regions' = regions
  BY DEF Munmap, tracing
<1>2. FilterTypeOK'
  BY <1>1 DEF FilterInv, FilterTypeOK, Strengths
<1>3. ASSUME NEW u \in Threads, NEW p \in Pages PROVE shadow'[u][p] \in {shadow[u][p], "none"}
  BY <1>1 DEF FilterInv, FilterTypeOK
<1>4. \A p : IsPmAddress(p)' <=> IsPmAddress(p)
  BY <1>1 DEF IsPmAddress
<1> QED BY <1>1, <1>2, <1>3, <1>4 DEF FilterInv, LeftOutIsLogged

LEMMA FilterKept ==
  ASSUME FilterInv, UNCHANGED <<regions, filter>>
  PROVE  FilterInv'
<1>1. \A p : IsPmAddress(p)' <=> IsPmAddress(p)
  BY DEF IsPmAddress
<1> QED BY <1>1 DEF filter, FilterInv, FilterTypeOK, LeftOutIsLogged

LEMMA NextFilter == CallInv /\ FilterInv /\ [Next]_vars => FilterInv'
<1> SUFFICES ASSUME CallInv, FilterInv, [Next]_vars PROVE FilterInv'
  OBVIOUS
<1>1. CASE UNCHANGED vars
  BY <1>1, FilterKept DEF vars, tracing
<1>2. ASSUME NEW t \in Threads, HandleMmap(t) PROVE FilterInv'
  <2>1. call[t].page \in Pages
    BY <1>2 DEF HandleMmap, CallInv
  <2> QED BY <1>2, <2>1, HandleMmapFilter
<1>3. ASSUME NEW t \in Threads, HandleMunmap(t) PROVE FilterInv'
  BY <1>3, HandleMunmapFilter
<1>4. ASSUME NEW t \in Threads, NEW p \in Pages, NEW same \in BOOLEAN,
             Load(t, p, same) \/ Store(t, p, same)
      PROVE  FilterInv'
  <2>1. PICK kind \in {"read", "write"} : Accesses(t, p, kind, same)
    BY <1>4 DEF Load, Store
  <2>2. UNCHANGED <<regions, imitated>>
    BY <1>4 DEF Load, Store, tracing
  <2> QED BY <2>1, <2>2, AccessesFilter
<1>5. ASSUME NEW t \in Threads, Release(t) PROVE FilterInv'
  BY <1>5, ReleaseFilter
<1>6. ASSUME NEW t \in Threads, NEW p \in Pages, Munmap(t, p) PROVE FilterInv'
  BY <1>6, MunmapFilter
<1>7. ASSUME NEW t \in Threads,
             \/ \E d \in Fds, f \in {"pool", "other"} : OpenFile(t, d, f)
             \/ \E d \in Fds : CloseFile(t, d)
             \/ \E d, e \in Fds : DupFile(t, d, e)
             \/ \E p \in Pages, d \in Fds : Mmap(t, p, d)
             \/ \E p \in Pages : Flush(t, p)
             \/ Fence(t)
      PROVE  FilterInv'
  <2>1. UNCHANGED <<regions, filter>>
    BY <1>7 DEF OpenFile, CloseFile, DupFile, Mmap, Flush, Fence, tracing
  <2> QED BY <2>1, FilterKept
<1> QED BY <1>1, <1>2, <1>3, <1>4, <1>5, <1>6, <1>7 DEF Next

(* The same-access test of MemoryAccess leaves out no access for which the *)
(* trace has no line, the first ones after the thread's own mmap excepted. *)
THEOREM NoFirstAccessIsLeftOut == Spec => []LeftOutIsLogged
<1>1. FilterInv => LeftOutIsLogged
  BY DEF FilterInv
<1> QED BY InitFilter, InitCall, NextCall, NextFilter, <1>1, PTL DEF Spec
--------------------------------------------------------------------------------

(* Which descriptors are candidates, what an unfinished call says of its   *)
(* page, and that a page of a pool has a valid region.                     *)
MappedTypeOK ==
  /\ file = [d \in Fds |-> file[d]] /\ candidates = [d \in Fds |-> candidates[d]]
  /\ page = [p \in Pages |-> page[p]]
  /\ regions \in Seq([page : Pages, valid : BOOLEAN])

CandidatesArePools == \A d \in Fds : candidates[d] = IF file[d] = "pool" THEN 1 ELSE 0

MapsItsFile ==
  \A t \in Threads :
    call[t].op = "mmap" => /\ call[t].page \in Pages /\ call[t].fd \in Fds
                           /\ file[call[t].fd] # "closed"
                           /\ page[call[t].page] = file[call[t].fd]

(* file and page have different words for what is not there. *)
FileOK == \A d \in Fds : file[d] # "unmapped"

UnmapsNoOther ==
  \A t \in Threads :
    call[t].op = "munmap" => call[t].page \in overtaken \/ page[call[t].page] = "unmapped"

PoolHasRegion ==
  \A p \in Pages \ overtaken :
    page[p] = "pool" /\ (\A t \in Unfinished(p) : call[t].op # "mmap") => Found(p) # {}

MappedInv ==
  MappedTypeOK /\ CandidatesArePools /\ FileOK /\ MapsItsFile /\ UnmapsNoOther /\ PoolHasRegion

LEMMA InitMapped == Init => MappedInv
<1> SUFFICES ASSUME Init PROVE MappedInv
  OBVIOUS
<1>1. file \in [Fds -> {"closed", "pool"}] /\ page = [p \in Pages |-> "unmapped"] /\ regions = <<>>
  BY DEF Init
<1>2. MappedTypeOK
  BY <1>1 DEF Init, MappedTypeOK
<1>3. CandidatesArePools /\ FileOK /\ MapsItsFile /\ UnmapsNoOther
  BY <1>1 DEF Init, Idle, CandidatesArePools, FileOK, MapsItsFile, UnmapsNoOther
<1>4. PoolHasRegion
  BY <1>1 DEF PoolHasRegion
<1> QED BY <1>2, <1>3, <1>4 DEF MappedInv

LEMMA FilesMapped ==
  ASSUME MappedInv, NEW t \in Threads,
         \/ \E d \in Fds, f \in {"pool", "other"} : OpenFile(t, d, f)
         \/ \E d \in Fds : CloseFile(t, d)
         \/ \E d, e \in Fds : DupFile(t, d, e)
  PROVE  MappedInv'
<1>1. UNCHANGED <<page, call, overtaken, regions>>
  BY DEF OpenFile, CloseFile, DupFile
<1>2. MappedTypeOK' /\ CandidatesArePools' /\ FileOK'
  BY <1>1 DEF MappedInv, MappedTypeOK, CandidatesArePools, FileOK, OpenFile, CloseFile, DupFile, Forgets
<1>3. ASSUME NEW d \in Fds, file[d] # "closed", Busy(d) PROVE file'[d] = file[d]
  BY <1>3 DEF MappedInv, MappedTypeOK, OpenFile, CloseFile, DupFile
<1>4. MapsItsFile'
  BY <1>1, <1>3 DEF MappedInv, MapsItsFile, Busy
<1>5. UnmapsNoOther' /\ PoolHasRegion'
  BY <1>1 DEF MappedInv, UnmapsNoOther, PoolHasRegion, Unfinished, Found
<1> QED BY <1>2, <1>4, <1>5 DEF MappedInv

LEMMA MmapMapped ==
  ASSUME MappedInv, CallInv, NEW t \in Threads, NEW q \in Pages, NEW d \in Fds, Mmap(t, q, d)
  PROVE  MappedInv'
<1>1. /\ page[q] = "unmapped" /\ file[d] # "closed" /\ call[t] = Idle
      /\ page' = [page EXCEPT ![q] = file[d]]
      /\ call' = [call EXCEPT ![t] = [op |-> "mmap", page |-> q, fd |-> d]]
      /\ overtaken' = IF Unfinished(q) # {} THEN overtaken \cup {q} ELSE overtaken
      /\ UNCHANGED <<file, candidates, regions>>
  BY DEF Mmap, tracing
<1>2. MappedTypeOK' /\ CandidatesArePools' /\ FileOK'
  BY <1>1 DEF MappedInv, MappedTypeOK, CandidatesArePools, FileOK
<1>3. /\ call'[t] = [op |-> "mmap", page |-> q, fd |-> d]
      /\ \A u \in Threads \ {t} : call'[u] = call[u]
  BY <1>1 DEF CallInv
<1>4. page'[q] = file[d] /\ \A p \in Pages \ {q} : page'[p] = page[p]
  BY <1>1 DEF MappedInv, MappedTypeOK
<1>5. MapsItsFile'
  <2> SUFFICES ASSUME NEW u \in Threads, call'[u].op = "mmap"
               PROVE  /\ call'[u].page \in Pages /\ call'[u].fd \in Fds
                      /\ file'[call'[u].fd] # "closed"
                      /\ page'[call'[u].page] = file'[call'[u].fd]
    BY DEF MapsItsFile
  <2>1. CASE u = t
    BY <1>1, <1>3, <1>4, <2>1
  <2>2. CASE u # t
    <3>1. /\ call[u].page \in Pages /\ call[u].fd \in Fds /\ file[call[u].fd] # "closed"
          /\ page[call[u].page] = file[call[u].fd]
      BY <1>3, <2>2 DEF MappedInv, MapsItsFile
    <3>2. call[u].page # q
      BY <1>1, <3>1 DEF MappedInv, FileOK
    <3> QED BY <1>1, <1>3, <1>4, <2>2, <3>1, <3>2
  <2> QED BY <2>1, <2>2
<1>6. UnmapsNoOther'
  <2> SUFFICES ASSUME NEW u \in Threads, call'[u].op = "munmap"
               PROVE  call'[u].page \in overtaken' \/ page'[call'[u].page] = "unmapped"
    BY DEF UnmapsNoOther
  <2>1. u # t /\ call'[u] = call[u]
    BY <1>3
  <2>2. CASE call[u].page = q
    BY <1>1, <2>1, <2>2 DEF Unfinished
  <2>3. CASE call[u].page # q
    <3>1. page' = [page EXCEPT ![q] = file[d]] /\ (page[call[u].page] = page'[call[u].page])
      BY <1>1, <2>3 DEF MappedInv, MappedTypeOK
    <3> QED BY <1>1, <2>1, <3>1 DEF MappedInv, UnmapsNoOther
  <2> QED BY <2>2, <2>3
<1>7. PoolHasRegion'
  <2> SUFFICES ASSUME NEW p \in Pages \ overtaken', page'[p] = "pool",
                      \A u \in Unfinished(p)' : call'[u].op # "mmap"
               PROVE  Found(p)' # {}
    BY DEF PoolHasRegion
  <2>1. p # q
    BY <1>3 DEF Unfinished
  <2>2. page[p] = "pool" /\ p \notin overtaken
    BY <1>1, <1>4, <2>1
  <2>3. \A u \in Unfinished(p) : call[u].op # "mmap"
    BY <1>1, <1>3 DEF Unfinished, Idle
  <2> QED BY <1>1, <2>2, <2>3 DEF MappedInv, PoolHasRegion, Found
<1> QED BY <1>2, <1>5, <1>6, <1>7 DEF MappedInv

LEMMA HandleMmapMapped ==
  ASSUME MappedInv, CallInv, NEW t \in Threads, HandleMmap(t)
  PROVE  MappedInv'
<1>0. PICK q : q = call[t].page
  OBVIOUS
<1> DEFINE region == [page |-> q, valid |-> TRUE]
<1>1. /\ call[t].op = "mmap"
      /\ regions' = IF candidates[call[t].fd] = 0 THEN regions ELSE Append(regions, region)
      /\ call' = [call EXCEPT ![t] = Idle]
      /\ UNCHANGED <<file, page, overtaken, candidates>>
  BY <1>0 DEF HandleMmap
<1>2. q \in Pages /\ call[t].fd \in Fds /\ page[q] = file[call[t].fd]
  BY <1>0, <1>1 DEF MappedInv, MapsItsFile
<1>3. /\ call'[t] = Idle
      /\ \A u \in Threads \ {t} : call'[u] = call[u]
  BY <1>1 DEF CallInv
<1>4. region \in [page : Pages, valid : BOOLEAN]
  BY <1>2
<1>5. regions \in Seq([page : Pages, valid : BOOLEAN])
  BY DEF MappedInv, MappedTypeOK
<1>6. Append(regions, region) \in Seq([page : Pages, valid : BOOLEAN])
  BY <1>4, <1>5, AppendType, Zenon
<1>7. MappedTypeOK' /\ CandidatesArePools' /\ FileOK'
  <2>1. regions' \in Seq([page : Pages, valid : BOOLEAN])
    BY <1>1, <1>5, <1>6, Zenon
  <2> QED BY <1>1, <2>1 DEF MappedInv, MappedTypeOK, CandidatesArePools, FileOK
<1>8. MapsItsFile' /\ UnmapsNoOther'
  BY <1>1, <1>3 DEF MappedInv, MapsItsFile, UnmapsNoOther, Idle
<1>9. \A p : Found(p) # {} => Found(p)' # {}
  <2>1. CASE regions' = regions
    BY <2>1 DEF Found
  <2>2. CASE regions' = Append(regions, region)
    <3>1. \A i \in DOMAIN regions : i \in DOMAIN regions' /\ regions'[i] = regions[i]
      BY <1>4, <1>5, <2>2
    <3> QED BY <3>1 DEF Found
  <2> QED BY <1>1, <2>1, <2>2, Zenon
<1>10. page[q] = "pool" => Found(q)' # {}
  <2> SUFFICES ASSUME page[q] = "pool" PROVE Found(q)' # {}
    OBVIOUS
  <2>1. candidates[call[t].fd] = 1
    BY <1>2 DEF MappedInv, CandidatesArePools
  <2>2. regions' = Append(regions, region)
    <3>1. candidates[call[t].fd] # 0
      BY <2>1
    <3> QED BY <1>1, <3>1, Zenon
  <2>3. Len(regions) + 1 \in DOMAIN regions' /\ regions'[Len(regions) + 1] = region
    BY <1>4, <1>5, <2>2
  <2>4. region.valid /\ region.page = q
    OBVIOUS
  <2> HIDE DEF region
  <2> QED BY <2>3, <2>4 DEF Found
<1>11. PoolHasRegion'
  <2> SUFFICES ASSUME NEW p \in Pages \ overtaken', page'[p] = "pool",
                      \A u \in Unfinished(p)' : call'[u].op # "mmap"
               PROVE  Found(p)' # {}
    BY DEF PoolHasRegion
  <2>1. CASE p = q
    BY <1>1, <1>10, <2>1
  <2>2. CASE p # q
    <3>1. \A u \in Unfinished(p) : call[u].op # "mmap"
      BY <1>0, <1>3, <2>2 DEF Unfinished
    <3> QED BY <1>1, <1>9, <3>1 DEF MappedInv, PoolHasRegion
  <2> QED BY <2>1, <2>2
<1> QED BY <1>7, <1>8, <1>11 DEF MappedInv

LEMMA MunmapMapped ==
  ASSUME MappedInv, CallInv, NEW t \in Threads, NEW q \in Pages, Munmap(t, q)
  PROVE  MappedInv'
<1>1. /\ call[t] = Idle /\ \A u \in Unfinished(q) : call[u].op = "munmap"
      /\ page' = [page EXCEPT ![q] = "unmapped"]
      /\ call' = [call EXCEPT ![t] = [op |-> "munmap", page |-> q]]
      /\ UNCHANGED <<file, overtaken, candidates, regions>>
  BY DEF Munmap, tracing
<1>2. MappedTypeOK' /\ CandidatesArePools' /\ FileOK'
  BY <1>1 DEF MappedInv, MappedTypeOK, CandidatesArePools, FileOK
<1>3. /\ call'[t] = [op |-> "munmap", page |-> q]
      /\ \A u \in Threads \ {t} : call'[u] = call[u]
  BY <1>1 DEF CallInv
<1>4. page'[q] = "unmapped" /\ \A p : p # q => page'[p] = page[p]
  BY <1>1 DEF MappedInv, MappedTypeOK
<1>5. MapsItsFile'
  BY <1>1, <1>3, <1>4 DEF MappedInv, MapsItsFile, Unfinished
<1>6. UnmapsNoOther'
  BY <1>1, <1>3, <1>4 DEF MappedInv, UnmapsNoOther
<1>7. PoolHasRegion'
  <2> SUFFICES ASSUME NEW p \in Pages \ overtaken', page'[p] = "pool",
                      \A u \in Unfinished(p)' : call'[u].op # "mmap"
               PROVE  Found(p)' # {}
    BY DEF PoolHasRegion
  <2>1. page[p] = "pool"
    BY <1>4
  <2>2. \A u \in Unfinished(p) : call[u].op # "mmap"
    BY <1>1, <1>3 DEF Unfinished, Idle
  <2> QED BY <1>1, <2>1, <2>2 DEF MappedInv, PoolHasRegion, Found
<1> QED BY <1>2, <1>5, <1>6, <1>7 DEF MappedInv


LEMMA NatMin == ASSUME NEW T, T \subseteq Nat, T # {} PROVE \E x \in T : \A y \in T : x <= y
<1> DEFINE R == OpToRel(<, Nat)
<1>1. IsWellFoundedOn(R, Nat)
  BY NatLessThanWellFounded
<1>2. \A x, y \in Nat : <<x, y>> \in R <=> x < y
  BY DEF OpToRel
<1> HIDE DEF R
<1>3. PICK x \in T : \A y \in T : ~ (<<y, x>> \in R)
  BY <1>1, WFMin
<1>4. ASSUME NEW y \in T PROVE x <= y
  <2>1. ~ (y < x)
    BY <1>2, <1>3, Zenon
  <2> QED BY <2>1
<1> QED BY <1>4

LEMMA HandleMunmapMapped ==
  ASSUME MappedInv, CallInv, NEW t \in Threads, HandleMunmap(t)
  PROVE  MappedInv'
<1> DEFINE q == call[t].page
           first == CHOOSE i \in Found(q) : \A j \in Found(q) : i <= j
<1>1. /\ call[t].op = "munmap"
      /\ regions' = IF Found(q) = {} THEN regions ELSE [regions EXCEPT ![first].valid = FALSE]
      /\ call' = [call EXCEPT ![t] = Idle]
      /\ UNCHANGED <<file, page, overtaken, candidates>>
  BY DEF HandleMunmap
<1>2. q \in overtaken \/ page[q] = "unmapped"
  BY <1>1 DEF MappedInv, UnmapsNoOther
<1>3. /\ call'[t] = Idle
      /\ \A u \in Threads \ {t} : call'[u] = call[u]
  BY <1>1 DEF CallInv
<1>4. regions \in Seq([page : Pages, valid : BOOLEAN])
  BY DEF MappedInv, MappedTypeOK
<1> DEFINE e == [regions[first] EXCEPT !.valid = FALSE]
<1>5. Found(q) # {} => first \in Found(q)
  <2> SUFFICES ASSUME Found(q) # {} PROVE \E i \in Found(q) : \A j \in Found(q) : i <= j
    BY Zenon
  <2>1. Found(q) \subseteq Nat
    BY <1>4 DEF Found
  <2> QED BY <2>1, NatMin
<1>6. regions' = regions \/ (first \in Found(q) /\ regions' = [regions EXCEPT ![first].valid = FALSE])
  BY <1>1, <1>5, Zenon
<1> HIDE DEF first
<1>7. \A i \in DOMAIN regions : regions[i] \in [page : Pages, valid : BOOLEAN]
  BY <1>4, ElementType, Zenon
<1>8. regions' \in Seq([page : Pages, valid : BOOLEAN])
  <2>1. CASE regions' = [regions EXCEPT ![first].valid = FALSE] /\ first \in Found(q)
    <3>1. first \in DOMAIN regions
      BY <2>1 DEF Found
    <3>2. e \in [page : Pages, valid : BOOLEAN] /\ regions' = [regions EXCEPT ![first] = e]
      BY <1>7, <2>1, <3>1
    <3> HIDE DEF e
    <3> QED BY <1>4, <3>1, <3>2, ReplaceType, Zenon
  <2> QED BY <1>4, <1>6, <2>1, Zenon
<1>9. \A p : p # q /\ Found(p) # {} => Found(p)' # {}
  <2>1. CASE regions' = [regions EXCEPT ![first].valid = FALSE] /\ first \in Found(q)
    <3>1. \A i \in DOMAIN regions : i \in DOMAIN regions' /\ (i # first => regions'[i] = regions[i])
      BY <1>4, <2>1
    <3>2. regions[first].page = q
      BY <2>1 DEF Found
    <3> QED BY <3>1, <3>2 DEF Found
  <2>2. CASE regions' = regions
    BY <2>2 DEF Found
  <2> QED BY <1>6, <2>1, <2>2, Zenon
<1>10. MappedTypeOK' /\ CandidatesArePools' /\ FileOK'
  BY <1>1, <1>8 DEF MappedInv, MappedTypeOK, CandidatesArePools, FileOK
<1>11. MapsItsFile' /\ UnmapsNoOther'
  BY <1>1, <1>3 DEF MappedInv, MapsItsFile, UnmapsNoOther, Idle
<1>12. PoolHasRegion'
  <2> SUFFICES ASSUME NEW p \in Pages \ overtaken', page'[p] = "pool",
                      \A u \in Unfinished(p)' : call'[u].op # "mmap"
               PROVE  Found(p)' # {}
    BY DEF PoolHasRegion
  <2>1. p # q /\ p \notin overtaken /\ page[p] = "pool"
    BY <1>1, <1>2
  <2>2. \A u \in Unfinished(p) : call[u].op # "mmap"
    BY <1>3, <2>1 DEF Unfinished
  <2>3. Found(p) # {}
    BY <2>1, <2>2 DEF MappedInv, PoolHasRegion
  <2> QED BY <1>9, <2>1, <2>3
<1> QED BY <1>10, <1>11, <1>12 DEF MappedInv

LEMMA NextMapped == CallInv /\ MappedInv /\ [Next]_vars => MappedInv'
<1> SUFFICES ASSUME CallInv, MappedInv, [Next]_vars PROVE MappedInv'
  OBVIOUS
<1>1. ASSUME UNCHANGED <<file, page, call, overtaken, tracing>> PROVE MappedInv'
  BY <1>1 DEF tracing, MappedInv, MappedTypeOK, CandidatesArePools, FileOK, MapsItsFile,
              UnmapsNoOther, PoolHasRegion, Unfinished, Found
<1>2. CASE UNCHANGED vars
  BY <1>1, <1>2 DEF vars, os
<1>3. ASSUME NEW t \in Threads,
             \/ \E d \in Fds, f \in {"pool", "other"} : OpenFile(t, d, f)
             \/ \E d \in Fds : CloseFile(t, d)
             \/ \E d, e \in Fds : DupFile(t, d, e)
      PROVE  MappedInv'
  BY <1>3, FilesMapped
<1>4. ASSUME NEW t \in Threads, NEW p \in Pages, NEW d \in Fds, Mmap(t, p, d) PROVE MappedInv'
  BY <1>4, MmapMapped
<1>5. ASSUME NEW t \in Threads, HandleMmap(t) PROVE MappedInv'
  BY <1>5, HandleMmapMapped
<1>6. ASSUME NEW t \in Threads, NEW p \in Pages, Munmap(t, p) PROVE MappedInv'
  BY <1>6, MunmapMapped
<1>7. ASSUME NEW t \in Threads, HandleMunmap(t) PROVE MappedInv'
  BY <1>7, HandleMunmapMapped
<1>8. ASSUME NEW t \in Threads,
             \/ \E p \in Pages, same \in BOOLEAN : Load(t, p, same) \/ Store(t, p, same)
             \/ Release(t)
             \/ \E p \in Pages : Flush(t, p)
             \/ Fence(t)
      PROVE  MappedInv'
  <2>1. UNCHANGED <<file, page, call, overtaken, tracing>>
    BY <1>8 DEF Load, Store, Release, Flush, Fence, os, tracing
  <2> QED BY <1>1, <2>1
<1> QED BY <1>2, <1>3, <1>4, <1>5, <1>6, <1>7, <1>8 DEF Next

(* From the return of its mmap to its munmap, the accesses to a page of a  *)
(* pool reach the trace, unless a late handle_munmap took its region away. *)
THEOREM PoolStaysTraced == Spec => []PoolIsTraced
<1>1. MappedInv => PoolIsTraced
  <2> SUFFICES ASSUME MappedInv, NEW p \in Pages \ overtaken, page[p] = "pool", Unfinished(p) = {}
               PROVE  IsPmAddress(p)
    BY DEF PoolIsTraced
  <2>1. Found(p) # {}
    BY DEF MappedInv, PoolHasRegion
  <2> QED BY <2>1 DEF Found, IsPmAddress
<1> QED BY InitMapped, InitCall, NextCall, NextMapped, <1>1, PTL DEF Spec
--------------------------------------------------------------------------------

(* How many valid regions a page may have: one for each munmap of it still *)
(* to be reported, and one for the mapping that it has.                    *)
Mapping == {t \in Threads : call[t].op = "mmap"}
Unmapping(p) == {t \in Threads : call[t].op = "munmap" /\ call[t].page = p}
Known(p) == IF page[p] = "pool" /\ \A t \in Mapping : call[t].page # p THEN 1 ELSE 0

RegionsAreOwed == \A p \in Pages : Cardinality(Found(p)) <= Cardinality(Unmapping(p)) + Known(p)
OneMapsAPage == \A t, u \in Mapping : call[t].page = call[u].page => t = u
MapsCounted == maps \in 0..MaxMaps /\ Len(regions) + Cardinality(Mapping) <= maps

CountInv == RegionsAreOwed /\ OneMapsAPage /\ MapsCounted

LEMMA InitCount == Init => CountInv
<1> SUFFICES ASSUME Init PROVE CountInv
  OBVIOUS
<1>1. regions = <<>> /\ maps = 0 /\ call = [t \in Threads |-> Idle]
  BY DEF Init
<1>2. Mapping = {} /\ \A p : Found(p) = {} /\ Unmapping(p) = {}
  BY <1>1 DEF Mapping, Found, Unmapping, Idle
<1>3. RegionsAreOwed
  BY <1>2, FS_EmptySet DEF RegionsAreOwed, Known
<1>4. OneMapsAPage /\ MapsCounted
  BY <1>1, <1>2, FS_EmptySet, TracingAssumption DEF OneMapsAPage, MapsCounted
<1> QED BY <1>3, <1>4 DEF CountInv

LEMMA CountedAreFinite ==
  ASSUME MappedTypeOK
  PROVE  /\ IsFiniteSet(Mapping) /\ Cardinality(Mapping) \in Nat
         /\ \A p : /\ IsFiniteSet(Unmapping(p)) /\ Cardinality(Unmapping(p)) \in Nat
                   /\ IsFiniteSet(Found(p)) /\ Cardinality(Found(p)) \in Nat
         /\ Len(regions) \in Nat
<1>1. Mapping \in SUBSET Threads /\ \A p : Unmapping(p) \in SUBSET Threads
  BY DEF Mapping, Unmapping
<1>2. IsFiniteSet(Mapping) /\ \A p : IsFiniteSet(Unmapping(p))
  BY <1>1, FS_Subset, TracingAssumption
<1>3. Len(regions) \in Nat /\ DOMAIN regions = 1..Len(regions)
  BY DEF MappedTypeOK
<1>4. IsFiniteSet(1..Len(regions))
  BY <1>3, FS_Interval
<1>5. \A p : IsFiniteSet(Found(p))
  <2> TAKE p
  <2>1. Found(p) \in SUBSET (1..Len(regions))
    BY <1>3 DEF Found
  <2> QED BY <1>4, <2>1, FS_Subset
<1> QED BY <1>2, <1>3, <1>5, FS_CardinalityType

LEMMA MmapCount ==
  ASSUME CountInv, MappedInv, CallInv, NEW t \in Threads, NEW q \in Pages, NEW d \in Fds, Mmap(t, q, d)
  PROVE  CountInv'
<1>1. /\ call[t] = Idle /\ maps < MaxMaps /\ page[q] = "unmapped"
      /\ page' = [page EXCEPT ![q] = file[d]]
      /\ call' = [call EXCEPT ![t] = [op |-> "mmap", page |-> q, fd |-> d]]
      /\ maps' = maps + 1 /\ regions' = regions
  BY DEF Mmap, tracing
<1>2. /\ call'[t] = [op |-> "mmap", page |-> q, fd |-> d]
      /\ \A u \in Threads \ {t} : call'[u] = call[u]
  BY <1>1 DEF CallInv
<1>3. \A p \in Pages \ {q} : page'[p] = page[p]
  BY <1>1 DEF MappedInv, MappedTypeOK
<1>4. Mapping' = Mapping \cup {t} /\ t \notin Mapping
  BY <1>1, <1>2 DEF Mapping, Idle
<1>5. \A p : Unmapping(p)' = Unmapping(p) /\ Found(p)' = Found(p)
  BY <1>1, <1>2 DEF Unmapping, Found, Idle
<1>6. \A u \in Mapping : call'[u] = call[u] /\ call[u].page # q
  BY <1>1, <1>2, <1>4 DEF MappedInv, MapsItsFile, FileOK, Mapping
<1>7. ASSUME NEW p \in Pages PROVE Known(p)' \in 0..1 /\ Known(p)' >= Known(p)
  BY <1>1, <1>2, <1>3, <1>4, <1>6 DEF Known
<1>8. RegionsAreOwed'
  <2> SUFFICES ASSUME NEW p \in Pages
               PROVE  Cardinality(Found(p))' <= Cardinality(Unmapping(p))' + Known(p)'
    BY DEF RegionsAreOwed
  <2>1. Cardinality(Found(p)) <= Cardinality(Unmapping(p)) + Known(p)
    BY DEF CountInv, RegionsAreOwed
  <2>2. Cardinality(Unmapping(p)) \in Nat /\ Cardinality(Found(p)) \in Nat /\ Known(p) \in 0..1
    BY CountedAreFinite DEF MappedInv, Known
  <2> QED BY <1>5, <1>7, <2>1, <2>2
<1>9. OneMapsAPage'
  BY <1>2, <1>4, <1>6 DEF CountInv, OneMapsAPage
<1>10. Cardinality(Mapping') = Cardinality(Mapping) + 1
  BY <1>4, CountedAreFinite, FS_AddElement DEF MappedInv
<1>11. MapsCounted'
  BY <1>1, <1>10, CountedAreFinite, TracingAssumption DEF CountInv, MapsCounted, MappedInv
<1> QED BY <1>8, <1>9, <1>11 DEF CountInv

LEMMA HandleMmapCount ==
  ASSUME CountInv, MappedInv, CallInv, NEW t \in Threads, HandleMmap(t)
  PROVE  CountInv'
<1>0. PICK q : q = call[t].page
  OBVIOUS
<1> DEFINE region == [page |-> q, valid |-> TRUE]
<1>1. /\ call[t].op = "mmap"
      /\ regions' = IF candidates[call[t].fd] = 0 THEN regions ELSE Append(regions, region)
      /\ call' = [call EXCEPT ![t] = Idle]
      /\ UNCHANGED <<page, maps>>
  BY <1>0 DEF HandleMmap
<1>2. q \in Pages /\ call[t].fd \in Fds /\ page[q] = file[call[t].fd]
  BY <1>0, <1>1 DEF MappedInv, MapsItsFile
<1>3. /\ call'[t] = Idle
      /\ \A u \in Threads \ {t} : call'[u] = call[u]
  BY <1>1 DEF CallInv
<1>4. Mapping' = Mapping \ {t} /\ t \in Mapping
  BY <1>1, <1>3 DEF Mapping, Idle
<1>5. \A p : Unmapping(p)' = Unmapping(p)
  BY <1>1, <1>3 DEF Unmapping, Idle
<1>6. \A u \in Mapping \ {t} : call'[u] = call[u] /\ call[u].page # q
  BY <1>0, <1>3, <1>4 DEF CountInv, OneMapsAPage, Mapping
<1>7. Known(q) = 0 /\ Known(q)' = IF page[q] = "pool" THEN 1 ELSE 0
  BY <1>0, <1>1, <1>4, <1>6 DEF Known
<1>8. \A p \in Pages \ {q} : Known(p)' = Known(p)
  BY <1>0, <1>1, <1>4, <1>6 DEF Known
<1>9. regions \in Seq([page : Pages, valid : BOOLEAN]) /\ region \in [page : Pages, valid : BOOLEAN]
  BY <1>2 DEF MappedInv, MappedTypeOK
<1>10. Cardinality(Mapping') = Cardinality(Mapping) - 1
  BY <1>4, CountedAreFinite, FS_RemoveElement DEF MappedInv
<1>11. OneMapsAPage'
  BY <1>4, <1>6 DEF CountInv, OneMapsAPage
<1>12. ASSUME NEW p \in Pages
       PROVE  /\ Cardinality(Found(p)) <= Cardinality(Unmapping(p)) + Known(p)
              /\ Cardinality(Unmapping(p)) \in Nat /\ Cardinality(Found(p)) \in Nat
              /\ Known(p) \in 0..1 /\ IsFiniteSet(Found(p))
  BY CountedAreFinite DEF CountInv, RegionsAreOwed, MappedInv, Known
<1>13. CASE candidates[call[t].fd] = 0
  <2>1. regions' = regions /\ \A p : Found(p)' = Found(p)
    BY <1>1, <1>13 DEF Found
  <2>2. RegionsAreOwed'
    BY <1>5, <1>7, <1>8, <1>12, <2>1 DEF RegionsAreOwed
  <2>3. MapsCounted'
    BY <1>1, <1>10, <2>1, CountedAreFinite DEF CountInv, MapsCounted, MappedInv
  <2> QED BY <1>11, <2>2, <2>3 DEF CountInv
<1>14. CASE candidates[call[t].fd] # 0
  <2>1. regions' = Append(regions, region)
    BY <1>1, <1>14, Zenon
  <2>2. page[q] = "pool"
    BY <1>2, <1>14 DEF MappedInv, CandidatesArePools
  <2>3. /\ Len(regions') = Len(regions) + 1
        /\ DOMAIN regions' = DOMAIN regions \cup {Len(regions) + 1}
        /\ Len(regions) + 1 \notin DOMAIN regions
        /\ \A i \in DOMAIN regions : regions'[i] = regions[i]
        /\ regions'[Len(regions) + 1] = region
    BY <1>9, <2>1
  <2>4. region.page = q /\ region.valid = TRUE
    OBVIOUS
  <2> HIDE DEF region
  <2> DEFINE new == Len(regions) + 1
  <2>5. Found(q)' = Found(q) \cup {new} /\ new \notin Found(q)
    BY <2>3, <2>4 DEF Found
  <2>6. \A p : p # q => Found(p)' = Found(p)
    BY <2>3, <2>4 DEF Found
  <2> HIDE DEF new
  <2>7. Cardinality(Found(q)') = Cardinality(Found(q)) + 1
    BY <1>2, <1>12, <2>5, FS_AddElement
  <2>8. RegionsAreOwed'
    <3> SUFFICES ASSUME NEW p \in Pages
                 PROVE  Cardinality(Found(p))' <= Cardinality(Unmapping(p))' + Known(p)'
      BY DEF RegionsAreOwed
    <3>1. CASE p = q
      BY <1>5, <1>7, <1>12, <2>2, <2>7, <3>1
    <3>2. CASE p # q
      BY <1>5, <1>8, <1>12, <2>6, <3>2
    <3> QED BY <3>1, <3>2
  <2>9. MapsCounted'
    BY <1>1, <1>10, <2>3, CountedAreFinite DEF CountInv, MapsCounted, MappedInv
  <2> QED BY <1>11, <2>8, <2>9 DEF CountInv
<1> QED BY <1>13, <1>14

LEMMA MunmapCount ==
  ASSUME CountInv, MappedInv, CallInv, NEW t \in Threads, NEW q \in Pages, Munmap(t, q)
  PROVE  CountInv'
<1>1. /\ call[t] = Idle
      /\ page' = [page EXCEPT ![q] = "unmapped"]
      /\ call' = [call EXCEPT ![t] = [op |-> "munmap", page |-> q]]
      /\ UNCHANGED <<maps, regions>>
  BY DEF Munmap, tracing
<1>2. /\ call'[t] = [op |-> "munmap", page |-> q]
      /\ \A u \in Threads \ {t} : call'[u] = call[u]
  BY <1>1 DEF CallInv
<1>3. page'[q] = "unmapped" /\ \A p \in Pages \ {q} : page'[p] = page[p]
  BY <1>1 DEF MappedInv, MappedTypeOK
<1>4. Mapping' = Mapping /\ \A u \in Mapping : call'[u] = call[u]
  BY <1>1, <1>2 DEF Mapping, Idle
<1>5. Unmapping(q)' = Unmapping(q) \cup {t} /\ t \notin Unmapping(q)
  BY <1>1, <1>2 DEF Unmapping, Idle
<1>6. \A p \in Pages \ {q} : Unmapping(p)' = Unmapping(p) /\ Known(p)' = Known(p)
  BY <1>1, <1>2, <1>3, <1>4 DEF Unmapping, Known, Idle
<1>7. Known(q)' = 0 /\ \A p : Found(p)' = Found(p)
  BY <1>1, <1>3 DEF Known, Found
<1>8. ASSUME NEW p \in Pages
      PROVE  /\ Cardinality(Found(p)) <= Cardinality(Unmapping(p)) + Known(p)
             /\ Cardinality(Unmapping(p)) \in Nat /\ Cardinality(Found(p)) \in Nat
             /\ Known(p) \in 0..1 /\ IsFiniteSet(Unmapping(p))
  BY CountedAreFinite DEF CountInv, RegionsAreOwed, MappedInv, Known
<1>9. Cardinality(Unmapping(q)') = Cardinality(Unmapping(q)) + 1
  BY <1>5, <1>8, FS_AddElement
<1>10. RegionsAreOwed'
  <2> SUFFICES ASSUME NEW p \in Pages
               PROVE  Cardinality(Found(p))' <= Cardinality(Unmapping(p))' + Known(p)'
    BY DEF RegionsAreOwed
  <2>1. CASE p = q
    BY <1>7, <1>8, <1>9, <2>1
  <2>2. CASE p # q
    BY <1>6, <1>7, <1>8, <2>2
  <2> QED BY <2>1, <2>2
<1>11. OneMapsAPage' /\ MapsCounted'
  BY <1>1, <1>4 DEF CountInv, OneMapsAPage, MapsCounted
<1> QED BY <1>10, <1>11 DEF CountInv

LEMMA HandleMunmapCount ==
  ASSUME CountInv, MappedInv, CallInv, NEW t \in Threads, HandleMunmap(t)
  PROVE  CountInv'
<1>0. PICK q : q = call[t].page
  OBVIOUS
<1> DEFINE first == CHOOSE i \in Found(q) : \A j \in Found(q) : i <= j
<1>1. /\ call[t].op = "munmap"
      /\ regions' = IF Found(q) = {} THEN regions ELSE [regions EXCEPT ![first].valid = FALSE]
      /\ call' = [call EXCEPT ![t] = Idle]
      /\ UNCHANGED <<page, maps>>
  BY <1>0 DEF HandleMunmap
<1>2. /\ call'[t] = Idle
      /\ \A u \in Threads \ {t} : call'[u] = call[u]
  BY <1>1 DEF CallInv
<1>3. Mapping' = Mapping /\ \A u \in Mapping : call'[u] = call[u]
  BY <1>1, <1>2 DEF Mapping, Idle
<1>4. Unmapping(q)' = Unmapping(q) \ {t} /\ t \in Unmapping(q)
  BY <1>0, <1>1, <1>2 DEF Unmapping, Idle
<1>5. \A p : p # q => Unmapping(p)' = Unmapping(p)
  BY <1>0, <1>1, <1>2 DEF Unmapping, Idle
<1>6. \A p : Known(p)' = Known(p)
  BY <1>1, <1>3 DEF Known
<1>7. regions \in Seq([page : Pages, valid : BOOLEAN])
  BY DEF MappedInv, MappedTypeOK
<1>8. ASSUME NEW p \in Pages
      PROVE  /\ Cardinality(Found(p)) <= Cardinality(Unmapping(p)) + Known(p)
             /\ Cardinality(Unmapping(p)) \in Nat /\ Cardinality(Found(p)) \in Nat
             /\ Known(p) \in 0..1 /\ IsFiniteSet(Unmapping(p)) /\ IsFiniteSet(Found(p))
  BY CountedAreFinite DEF CountInv, RegionsAreOwed, MappedInv, Known
<1>9. ASSUME q \in Pages
      PROVE  /\ Cardinality(Unmapping(q)') = Cardinality(Unmapping(q)) - 1
             /\ Cardinality(Unmapping(q)) # 0
  BY <1>4, <1>8, <1>9, FS_RemoveElement, FS_EmptySet, ZenonT(60)
<1>10. CASE Found(q) = {}
  <2>1. regions' = regions /\ \A p : Found(p)' = Found(p)
    BY <1>1, <1>10 DEF Found
  <2>2. ASSUME NEW p \in Pages
        PROVE  Cardinality(Found(p))' <= Cardinality(Unmapping(p))' + Known(p)'
    <3>1. CASE p = q
      <4>1. Cardinality(Found(p)') = 0
        BY <1>10, <2>1, <3>1, FS_EmptySet
      <4> QED BY <1>6, <1>8, <1>9, <3>1, <4>1
    <3>2. CASE p # q
      BY <1>5, <1>6, <1>8, <2>1, <3>2
    <3> QED BY <3>1, <3>2
  <2>3. MapsCounted' /\ OneMapsAPage'
    BY <1>1, <1>3, <2>1 DEF CountInv, MapsCounted, OneMapsAPage
  <2> QED BY <2>2, <2>3 DEF CountInv, RegionsAreOwed
<1>11. CASE Found(q) # {}
  <2>1. regions' = [regions EXCEPT ![first].valid = FALSE]
    BY <1>1, <1>11, Zenon
  <2>2. first \in Found(q)
    <3>1. Found(q) \subseteq Nat
      BY <1>7 DEF Found
    <3>2. \E i \in Found(q) : \A j \in Found(q) : i <= j
      BY <1>11, <3>1, NatMin
    <3> QED BY <3>2, Zenon
  <2> HIDE DEF first
  <2>3. first \in DOMAIN regions /\ regions[first] \in [page : Pages, valid : BOOLEAN]
    BY <1>7, <2>2, ElementType DEF Found
  <2>4. /\ Len(regions') = Len(regions) /\ DOMAIN regions' = DOMAIN regions
        /\ \A i \in DOMAIN regions \ {first} : regions'[i] = regions[i]
        /\ regions'[first] = [regions[first] EXCEPT !.valid = FALSE]
    BY <1>7, <2>1, <2>3
  <2>5. regions'[first].valid = FALSE /\ regions[first].page = q
    BY <2>2, <2>3, <2>4 DEF Found
  <2>6. Found(q)' = Found(q) \ {first}
    BY <2>4, <2>5 DEF Found
  <2>7. \A p : p # q => Found(p)' = Found(p)
    BY <2>4, <2>5 DEF Found
  <2>8. q \in Pages
    BY <2>3, <2>5
  <2>9. Cardinality(Found(q)') = Cardinality(Found(q)) - 1
    BY <1>8, <2>2, <2>6, <2>8, FS_RemoveElement
  <2>10. ASSUME NEW p \in Pages
         PROVE  Cardinality(Found(p))' <= Cardinality(Unmapping(p))' + Known(p)'
    <3>1. CASE p = q
      BY <1>6, <1>8, <1>9, <2>9, <3>1
    <3>2. CASE p # q
      BY <1>5, <1>6, <1>8, <2>7, <3>2
    <3> QED BY <3>1, <3>2
  <2>11. MapsCounted' /\ OneMapsAPage'
    BY <1>1, <1>3, <2>4 DEF CountInv, MapsCounted, OneMapsAPage
  <2> QED BY <2>10, <2>11 DEF CountInv, RegionsAreOwed
<1> QED BY <1>10, <1>11

LEMMA NextCount == CallInv /\ MappedInv /\ CountInv /\ [Next]_vars => CountInv'
<1> SUFFICES ASSUME CallInv, MappedInv, CountInv, [Next]_vars PROVE CountInv'
  OBVIOUS
<1>1. ASSUME UNCHANGED <<page, call, maps, regions>> PROVE CountInv'
  BY <1>1 DEF CountInv, RegionsAreOwed, OneMapsAPage, MapsCounted, Mapping, Unmapping, Known, Found
<1>2. CASE UNCHANGED vars
  BY <1>1, <1>2 DEF vars, os, tracing
<1>3. ASSUME NEW t \in Threads, NEW p \in Pages, NEW d \in Fds, Mmap(t, p, d) PROVE CountInv'
  BY <1>3, MmapCount
<1>4. ASSUME NEW t \in Threads, HandleMmap(t) PROVE CountInv'
  BY <1>4, HandleMmapCount
<1>5. ASSUME NEW t \in Threads, NEW p \in Pages, Munmap(t, p) PROVE CountInv'
  BY <1>5, MunmapCount
<1>6. ASSUME NEW t \in Threads, HandleMunmap(t) PROVE CountInv'
  BY <1>6, HandleMunmapCount
<1>7. ASSUME NEW t \in Threads,
             \/ \E d \in Fds, f \in {"pool", "other"} : OpenFile(t, d, f)
             \/ \E d \in Fds : CloseFile(t, d)
             \/ \E d, e \in Fds : DupFile(t, d, e)
      PROVE  CountInv'
  <2>1. UNCHANGED <<page, call, maps, regions>>
    BY <1>7 DEF OpenFile, CloseFile, DupFile
  <2> QED BY <1>1, <2>1
<1>8. ASSUME NEW t \in Threads,
             \/ \E p \in Pages, same \in BOOLEAN : Load(t, p, same) \/ Store(t, p, same)
             \/ Release(t)
             \/ \E p \in Pages : Flush(t, p)
             \/ Fence(t)
      PROVE  CountInv'
  <2>1. UNCHANGED <<page, call, maps, regions>>
    BY <1>8 DEF Load, Store, Release, Flush, Fence, os, tracing
  <2> QED BY <1>1, <2>1
<1> QED BY <1>2, <1>3, <1>4, <1>5, <1>6, <1>7, <1>8 DEF Next

(* is_pm_address takes no page for persistent but one mapped from a pool,  *)
(* one whose munmap is still to be reported, or the first ever registered: *)
(* no region outlives the munmap of its mapping.                           *)
THEOREM TracedStaysPool == Spec => []TracedIsPool
<1>1. MappedInv /\ CountInv => TracedIsPool
  <2> SUFFICES ASSUME MappedInv, CountInv, NEW p \in Pages, IsPmAddress(p),
                      regions[1].page # p, Unmapping(p) = {}
               PROVE  page[p] = "pool"
    BY DEF TracedIsPool, Unmapping, Unfinished
  <2>1. Found(p) # {}
    BY DEF IsPmAddress, Found
  <2>2. Cardinality(Found(p)) # 0 /\ Cardinality(Unmapping(p)) = 0
    BY <2>1, CountedAreFinite, FS_EmptySet DEF MappedInv
  <2>3. Cardinality(Found(p)) <= 0 + Known(p) /\ Cardinality(Found(p)) \in Nat
    BY <2>2, CountedAreFinite DEF CountInv, RegionsAreOwed, MappedInv
  <2> QED BY <2>2, <2>3 DEF Known
<1> QED BY InitMapped, InitCall, InitCount, NextCall, NextMapped, NextCount, <1>1, PTL DEF Spec
--------------------------------------------------------------------------------

(* The rest of TypeOK. *)
WorldTypeOK ==
  /\ file \in [Fds -> {"closed", "pool", "copy", "other"}]
  /\ page \in [Pages -> {"unmapped", "pool", "copy", "other"}]
  /\ call \in [Threads -> {Idle} \cup [op : {"mmap"}, page : Pages, fd : Fds]
                                 \cup [op : {"munmap"}, page : Pages]]
  /\ accesses \in 0..MaxAccesses
  /\ overtaken \subseteq Pages

LEMMA InitWorld == Init => WorldTypeOK
<1> SUFFICES ASSUME Init PROVE WorldTypeOK
  OBVIOUS
<1>1. file \in [Fds -> {"closed", "pool"}]
  BY DEF Init
<1> QED BY <1>1, TracingAssumption DEF Init, WorldTypeOK

LEMMA NextWorld == MappedInv /\ WorldTypeOK /\ [Next]_vars => WorldTypeOK'
<1> SUFFICES ASSUME MappedInv, WorldTypeOK, [Next]_vars PROVE WorldTypeOK'
  OBVIOUS
<1> USE DEF WorldTypeOK
<1>1. CASE UNCHANGED vars
  BY <1>1 DEF vars, os
<1>2. ASSUME NEW t \in Threads,
             \/ \E d \in Fds, f \in {"pool", "other"} : OpenFile(t, d, f)
             \/ \E d \in Fds : CloseFile(t, d)
             \/ \E d, e \in Fds : DupFile(t, d, e)
      PROVE  WorldTypeOK'
  BY <1>2 DEF OpenFile, CloseFile, DupFile
<1>3. ASSUME NEW t \in Threads, NEW p \in Pages, NEW d \in Fds, Mmap(t, p, d) PROVE WorldTypeOK'
  <2>1. UNCHANGED <<file, accesses>> /\ overtaken' \subseteq Pages
    BY <1>3 DEF Mmap
  <2>2. page' \in [Pages -> {"unmapped", "pool", "copy", "other"}]
    BY <1>3 DEF Mmap
  <2>3. [op |-> "mmap", page |-> p, fd |-> d] \in [op : {"mmap"}, page : Pages, fd : Fds]
    OBVIOUS
  <2>4. call' = [call EXCEPT ![t] = [op |-> "mmap", page |-> p, fd |-> d]]
    BY <1>3 DEF Mmap
  <2>5. call' \in [Threads -> {Idle} \cup [op : {"mmap"}, page : Pages, fd : Fds]
                                     \cup [op : {"munmap"}, page : Pages]]
    BY <2>3, <2>4
  <2> QED BY <2>1, <2>2, <2>5
<1>4. ASSUME NEW t \in Threads, HandleMmap(t) \/ HandleMunmap(t) PROVE WorldTypeOK'
  <2>1. UNCHANGED <<file, page, accesses, overtaken>> /\ call' = [call EXCEPT ![t] = Idle]
    BY <1>4 DEF HandleMmap, HandleMunmap
  <2> QED BY <2>1
<1>5. ASSUME NEW t \in Threads, NEW p \in Pages, Munmap(t, p) PROVE WorldTypeOK'
  <2>1. /\ UNCHANGED <<file, accesses, overtaken>>
        /\ page' = [page EXCEPT ![p] = "unmapped"]
        /\ call' = [call EXCEPT ![t] = [op |-> "munmap", page |-> p]]
    BY <1>5 DEF Munmap
  <2> QED BY <2>1
<1>6. ASSUME NEW t \in Threads, NEW p \in Pages, NEW same \in BOOLEAN,
             Load(t, p, same) \/ Store(t, p, same)
      PROVE  WorldTypeOK'
  <2>1. UNCHANGED <<file, page, call, overtaken>>
    BY <1>6 DEF Load, Store
  <2>2. accesses < MaxAccesses /\ accesses' = accesses + 1
    BY <1>6 DEF Load, Store, Accesses
  <2> QED BY <2>1, <2>2, TracingAssumption
<1>7. ASSUME NEW t \in Threads, Release(t) \/ (\E p \in Pages : Flush(t, p)) \/ Fence(t)
      PROVE  WorldTypeOK'
  BY <1>7 DEF Release, Flush, Fence, os
<1> QED BY <1>1, <1>2, <1>3, <1>4, <1>5, <1>6, <1>7 DEF Next

(* The runtime's tables keep their types: no descriptor is a candidate     *)
(* twice although close and dup only decrement, and the array of regions   *)
(* never has more entries than there were calls of mmap.                   *)
THEOREM TypeCorrect == Spec => []TypeOK
<1>1. WorldTypeOK /\ MappedInv /\ CountInv /\ FilterInv /\ DurabilityInv => TypeOK
  <2> SUFFICES ASSUME WorldTypeOK, MappedInv, CountInv, FilterInv, DurabilityInv PROVE TypeOK
    OBVIOUS
  <2>1. candidates \in [Fds -> 0..1]
    BY DEF MappedInv, MappedTypeOK, CandidatesArePools
  <2>2. maps \in 0..MaxMaps /\ Len(regions) <= MaxMaps
    BY CountedAreFinite, TracingAssumption DEF MappedInv, CountInv, MapsCounted
  <2> QED BY <2>1, <2>2 DEF TypeOK, WorldTypeOK, FilterInv, FilterTypeOK, DurabilityInv, DurabilityTypeOK
<1> QED BY InitWorld, InitMapped, InitCall, InitCount, InitFilter, InitDurability,
           NextWorld, NextCall, NextMapped, NextCount, NextFilter, NextDurability, <1>1, PTL DEF Spec
================================================================================
