-------------------------------- MODULE Tracing ---------------------------------
(***************************************************************************)
(* What the runtime writes to the trace: which pages it takes for          *)
(* persistent memory, which accesses to them it leaves out as repeated,    *)
(* and the FLUSH lines it prints at a fence.  Beside it, what the program  *)
(* really does: its files and mappings, and how far each store has got.    *)
(*                                                                         *)
(* The program makes a system call, then the interceptor tells the runtime *)
(* what it did: two steps, between which other threads run.  No thread     *)
(* uses a descriptor or a page that another thread is about to change.     *)
(***************************************************************************)
EXTENDS Naturals, Sequences, FiniteSets

CONSTANTS
  Threads,
  Pages,        \* of one cell and one cache line each
  Fds,
  MaxMaps,      \* bound: calls of mmap
  MaxAccesses   \* bound: loads and stores

ASSUME TracingAssumption ==
  IsFiniteSet(Threads) /\ MaxMaps \in Nat /\ MaxAccesses \in Nat

VARIABLES
  file,         \* what each descriptor is open on
  page,         \* what each page is mapped to
  call,         \* the call whose interceptor has not finished
  maps, accesses,  \* the calls and accesses so far
  overtaken,    \* pages mapped while another thread was telling of their munmap
  candidates,   \* m_pm_pool_candidates: the valid entries of each descriptor
  regions,      \* m_pm_regions
  shadow,       \* what the shadow memory says a thread did since its last release
  logged,       \* the strongest line of the thread for the page since then
  imitated,     \* the thread has mapped the page since then
  flushes,      \* flushes_cache
  awaiting,     \* lines flushed since the thread's last fence
  trace,        \* what the lines of the thread say of its last store to the page
  store,        \* how far that store has got
  hidden        \* the store is not in the trace, or came between flush and fence

os == <<file, page, call, maps, accesses, overtaken>>
tracing == <<candidates, regions>>
filter == <<shadow, logged, imitated>>
durability == <<flushes, awaiting, trace, store, hidden>>
vars == <<os, tracing, filter, durability>>

Strengths == {"none", "read", "write"}
Idle == [op |-> "none"]
Each(x) == [t \in Threads |-> [p \in Pages |-> x]]

TypeOK ==
  /\ file \in [Fds -> {"closed", "pool", "copy", "other"}]
  /\ page \in [Pages -> {"unmapped", "pool", "copy", "other"}]
  /\ call \in [Threads -> {Idle} \cup [op : {"mmap"}, page : Pages, fd : Fds]
                                 \cup [op : {"munmap"}, page : Pages]]
  /\ maps \in 0..MaxMaps /\ accesses \in 0..MaxAccesses
  /\ overtaken \subseteq Pages
  /\ candidates \in [Fds -> 0..1]
  /\ regions \in Seq([page : Pages, valid : BOOLEAN]) /\ Len(regions) <= MaxMaps
  /\ shadow \in [Threads -> [Pages -> Strengths]]
  /\ logged \in [Threads -> [Pages -> Strengths]]
  /\ imitated \in [Threads -> SUBSET Pages]
  /\ flushes \in [Threads -> SUBSET Pages] /\ awaiting \in [Threads -> SUBSET Pages]
  /\ trace \in [Threads -> [Pages -> {"nothing", "dirty", "persisted"}]]
  /\ store \in [Threads -> [Pages -> {"none", "cached", "flushed", "durable"}]]
  /\ hidden \in [Threads -> SUBSET Pages]

(* The pool is open. *)
Init ==
  /\ file \in {f \in [Fds -> {"closed", "pool"}] : Cardinality({d \in Fds : f[d] = "pool"}) = 1}
  /\ page = [p \in Pages |-> "unmapped"]
  /\ call = [t \in Threads |-> Idle]
  /\ maps = 0 /\ accesses = 0 /\ overtaken = {}
  /\ candidates = [d \in Fds |-> IF file[d] = "pool" THEN 1 ELSE 0]
  /\ regions = <<>>
  /\ shadow = Each("none") /\ logged = Each("none") /\ imitated = [t \in Threads |-> {}]
  /\ flushes = [t \in Threads |-> {}] /\ awaiting = [t \in Threads |-> {}]
  /\ trace = Each("nothing") /\ store = Each("none") /\ hidden = [t \in Threads |-> {}]

Busy(x) == \E t \in Threads : call[t].op = "mmap" /\ call[t].fd = x
Unfinished(p) == {t \in Threads : call[t].op # "none" /\ call[t].page = p}
--------------------------------------------------------------------------------
(* Files *)

(* open, then handle_open_file: a path with "pmem" in it is a pool's. *)
OpenFile(t, d, f) ==
  /\ call[t] = Idle
  /\ file[d] = "closed"
  /\ file' = [file EXCEPT ![d] = f]
  /\ candidates' = [candidates EXCEPT ![d] = IF f = "pool" THEN @ + 1 ELSE @]
  /\ UNCHANGED <<page, call, maps, accesses, overtaken, regions, filter, durability>>

Forgets(d) ==
  candidates' = [candidates EXCEPT ![d] = IF @ = 0 THEN 0 ELSE @ - 1]

(* Mutant of CloseFile: handle_close_file is not called. *)
CloseFileUntold(t, d) ==
  /\ call[t] = Idle
  /\ file[d] # "closed" /\ ~ Busy(d)
  /\ file' = [file EXCEPT ![d] = "closed"]
  /\ UNCHANGED <<page, call, maps, accesses, overtaken, tracing, filter, durability>>

(* handle_close_file, then close. *)
CloseFile(t, d) ==
  /\ call[t] = Idle
  /\ file[d] # "closed" /\ ~ Busy(d)
  /\ file' = [file EXCEPT ![d] = "closed"]
  /\ Forgets(d)
  /\ UNCHANGED <<page, call, maps, accesses, overtaken, regions, filter, durability>>

(* dup and dup2: FdDup closes the new descriptor; the copy of a pool's is  *)
(* no candidate.                                                           *)
DupFile(t, old, new) ==
  /\ call[t] = Idle
  /\ file[old] # "closed" /\ old # new /\ ~ Busy(new)
  /\ file' = [file EXCEPT ![new] = IF file[old] = "pool" THEN "copy" ELSE file[old]]
  /\ Forgets(new)
  /\ UNCHANGED <<page, call, maps, accesses, overtaken, regions, filter, durability>>
--------------------------------------------------------------------------------
(* Mappings *)

Mmap(t, p, d) ==
  /\ call[t] = Idle /\ maps < MaxMaps
  /\ page[p] = "unmapped" /\ file[d] # "closed"
  /\ page' = [page EXCEPT ![p] = file[d]]
  /\ call' = [call EXCEPT ![t] = [op |-> "mmap", page |-> p, fd |-> d]]
  /\ overtaken' = IF Unfinished(p) # {} THEN overtaken \cup {p} ELSE overtaken
  /\ maps' = maps + 1
  /\ UNCHANGED <<file, accesses, tracing, filter, durability>>

(* handle_mmap, and MemoryRangeImitateWriteOrResetRange: the shadow of the *)
(* page has one access now, a write of this thread.                        *)
HandleMmap(t) ==
  LET p == call[t].page
  IN  /\ call[t].op = "mmap"
      /\ regions' = IF candidates[call[t].fd] = 0 THEN regions
                    ELSE Append(regions, [page |-> p, valid |-> TRUE])
      /\ shadow' = [u \in Threads |-> [shadow[u] EXCEPT ![p] = IF u = t THEN "write" ELSE "none"]]
      /\ imitated' = [imitated EXCEPT ![t] = @ \cup {p}]
      /\ trace' = [u \in Threads |-> [trace[u] EXCEPT ![p] = "nothing"]]
      /\ store' = [u \in Threads |-> [store[u] EXCEPT ![p] = "none"]]
      /\ hidden' = [u \in Threads |-> hidden[u] \ {p}]
      /\ call' = [call EXCEPT ![t] = Idle]
      /\ UNCHANGED <<file, page, maps, accesses, overtaken, candidates, logged, flushes, awaiting>>

(* munmap, which UnmapShadow precedes. *)
Munmap(t, p) ==
  /\ call[t] = Idle
  /\ page[p] # "unmapped" /\ \A u \in Unfinished(p) : call[u].op = "munmap"
  /\ page' = [page EXCEPT ![p] = "unmapped"]
  /\ shadow' = [u \in Threads |-> [shadow[u] EXCEPT ![p] = "none"]]
  /\ call' = [call EXCEPT ![t] = [op |-> "munmap", page |-> p]]
  /\ UNCHANGED <<file, maps, accesses, overtaken, tracing, logged, imitated, durability>>

(* Array::_find looks only at the valid entries. *)
Found(p) == {i \in DOMAIN regions : regions[i].valid /\ regions[i].page = p}

(* handle_munmap: the first region with these bounds is no longer valid. *)
HandleMunmap(t) ==
  LET found == Found(call[t].page)
      first == CHOOSE i \in found : \A j \in found : i <= j
  IN  /\ call[t].op = "munmap"
      /\ regions' = IF found = {} THEN regions ELSE [regions EXCEPT ![first].valid = FALSE]
      /\ call' = [call EXCEPT ![t] = Idle]
      /\ UNCHANGED <<file, page, maps, accesses, overtaken, candidates, filter, durability>>

(* Mutant of IsPmAddress: the loop ends one entry early. *)
IsPmAddressButLast(p) ==
  \E i \in DOMAIN regions :
    (i = 1 \/ (regions[i].valid /\ i < Len(regions))) /\ regions[i].page = p

(* is_pm_address.  Array::begin does not look whether the first entry is   *)
(* valid, and the loop does not either.                                    *)
IsPmAddress(p) ==
  \E i \in DOMAIN regions : (i = 1 \/ regions[i].valid) /\ regions[i].page = p
--------------------------------------------------------------------------------
(* Accesses *)

(* ContainsSameAccess: a write stands for reads and writes, a read for     *)
(* reads.                                                                  *)
Stands(strength, kind) == strength = "write" \/ strength = kind

Stronger(strength, kind) == IF strength = "write" THEN "write" ELSE kind

(* Mutant of Accesses: a repeated access is any the thread has made. *)
AccessesOnce(t, p, kind, same) ==
  LET prints == IsPmAddress(p) /\ ~ (same /\ shadow[t][p] # "none")
  IN  /\ logged' = IF prints THEN [logged EXCEPT ![t][p] = Stronger(@, kind)] ELSE logged
      /\ \E evicted \in SUBSET (Threads \ {t}) :
           shadow' = [u \in Threads |->
                        IF u = t THEN [shadow[t] EXCEPT ![p] = Stronger(@, kind)]
                        ELSE IF u \in evicted THEN [shadow[u] EXCEPT ![p] = "none"] ELSE shadow[u]]
      /\ accesses < MaxAccesses /\ accesses' = accesses + 1

(* MemoryAccess.  same: the access has the size of the one the shadow      *)
(* memory has.  It takes a place in the shadow, perhaps from another       *)
(* thread.                                                                 *)
Accesses(t, p, kind, same) ==
  LET prints == IsPmAddress(p) /\ ~ (same /\ Stands(shadow[t][p], kind))
  IN  /\ logged' = IF prints THEN [logged EXCEPT ![t][p] = Stronger(@, kind)] ELSE logged
      /\ \E evicted \in SUBSET (Threads \ {t}) :
           shadow' = [u \in Threads |->
                        IF u = t THEN [shadow[t] EXCEPT ![p] = Stronger(@, kind)]
                        ELSE IF u \in evicted THEN [shadow[u] EXCEPT ![p] = "none"] ELSE shadow[u]]
      /\ accesses < MaxAccesses /\ accesses' = accesses + 1

Uses(t, p) ==
  /\ call[t] = Idle
  /\ page[p] # "unmapped" /\ \A u \in Unfinished(p) : call[u].op = "munmap"

Load(t, p, same) ==
  /\ Uses(t, p)
  /\ Accesses(t, p, "read", same)
  /\ UNCHANGED <<file, page, call, maps, overtaken, tracing, imitated, durability>>

(* The hook and the store that follows it. *)
Store(t, p, same) ==
  LET prints == IsPmAddress(p) /\ ~ (same /\ Stands(shadow[t][p], "write"))
  IN  /\ Uses(t, p)
      /\ Accesses(t, p, "write", same)
      /\ trace' = IF prints THEN [trace EXCEPT ![t][p] = "dirty"] ELSE trace
      /\ store' = [store EXCEPT ![t][p] = "cached"]
      /\ hidden' = [hidden EXCEPT ![t] =
                      IF p \in awaiting[t] \/ (~ prints /\ trace[t][p] # "dirty")
                      THEN @ \cup {p} ELSE @ \ {p}]
      /\ UNCHANGED <<file, page, call, maps, overtaken, tracing, imitated, flushes, awaiting>>

(* The end of the epochs in which an access need not be repeated.  Every   *)
(* release does this.                                                      *)
Release(t) ==
  /\ call[t] = Idle
  /\ shadow' = [shadow EXCEPT ![t] = [p \in Pages |-> "none"]]
  /\ logged' = [logged EXCEPT ![t] = [p \in Pages |-> "none"]]
  /\ imitated' = [imitated EXCEPT ![t] = {}]
  /\ UNCHANGED <<os, tracing, durability>>
--------------------------------------------------------------------------------
(* Flushes and fences *)

(* Mutant of Flush: only the last line is kept. *)
FlushLastOnly(t, p) ==
  /\ Uses(t, p) /\ store[t][p] \in {"cached", "flushed"}
  /\ flushes' = [flushes EXCEPT ![t] = {p}]
  /\ awaiting' = [awaiting EXCEPT ![t] = @ \cup {p}]
  /\ store' = [store EXCEPT ![t][p] = "flushed"]
  /\ UNCHANGED <<os, tracing, filter, trace, hidden>>

(* instrument_flush and clwb. *)
Flush(t, p) ==
  /\ Uses(t, p) /\ store[t][p] \in {"cached", "flushed"}
  /\ flushes' = [flushes EXCEPT ![t] = @ \cup {p}]
  /\ awaiting' = [awaiting EXCEPT ![t] = @ \cup {p}]
  /\ store' = [store EXCEPT ![t][p] = "flushed"]
  /\ UNCHANGED <<os, tracing, filter, trace, hidden>>

(* Mutant of Fence: flushes_cache is not reset. *)
FenceKeepingCache(t) ==
  /\ call[t] = Idle
  /\ trace' = [trace EXCEPT ![t] =
                 [p \in Pages |-> IF p \in flushes[t] /\ @[p] = "dirty" THEN "persisted" ELSE @[p]]]
  /\ awaiting' = [awaiting EXCEPT ![t] = {}]
  /\ store' = [store EXCEPT ![t] =
                 [p \in Pages |-> IF @[p] = "flushed" THEN "durable" ELSE @[p]]]
  /\ hidden' = [hidden EXCEPT ![t] = @ \ {p \in Pages : store[t][p] = "flushed"}]
  /\ UNCHANGED <<os, tracing, filter, flushes>>

(* instrument_fence, which prints the lines of flushes_cache, and sfence. *)
Fence(t) ==
  /\ call[t] = Idle
  /\ trace' = [trace EXCEPT ![t] =
                 [p \in Pages |-> IF p \in flushes[t] /\ @[p] = "dirty" THEN "persisted" ELSE @[p]]]
  /\ flushes' = [flushes EXCEPT ![t] = {}] /\ awaiting' = [awaiting EXCEPT ![t] = {}]
  /\ store' = [store EXCEPT ![t] =
                 [p \in Pages |-> IF @[p] = "flushed" THEN "durable" ELSE @[p]]]
  /\ hidden' = [hidden EXCEPT ![t] = @ \ {p \in Pages : store[t][p] = "flushed"}]
  /\ UNCHANGED <<os, tracing, filter>>

Next ==
  \E t \in Threads :
    \/ \E d \in Fds, f \in {"pool", "other"} : OpenFile(t, d, f)
    \/ \E d \in Fds : CloseFile(t, d)
    \/ \E d, e \in Fds : DupFile(t, d, e)
    \/ \E p \in Pages, d \in Fds : Mmap(t, p, d)
    \/ HandleMmap(t)
    \/ \E p \in Pages : Munmap(t, p)
    \/ HandleMunmap(t)
    \/ \E p \in Pages, same \in BOOLEAN : Load(t, p, same) \/ Store(t, p, same)
    \/ Release(t)
    \/ \E p \in Pages : Flush(t, p)
    \/ Fence(t)

Spec == Init /\ [][Next]_vars
--------------------------------------------------------------------------------

(* A page mapped from a pool is traced as soon as its mmap returns, unless *)
(* another thread was still telling of its munmap when it was mapped.      *)
PoolIsTraced ==
  \A p \in Pages \ overtaken :
    page[p] = "pool" /\ Unfinished(p) = {} => IsPmAddress(p)

(* Only pages of a pool are traced, and until its interceptor returns one  *)
(* that is unmapped: excepted is the first page ever mapped from a pool.   *)
TracedIsPool ==
  \A p \in Pages :
    IsPmAddress(p) => \/ page[p] = "pool"
                      \/ \E t \in Unfinished(p) : call[t].op = "munmap"
                      \/ regions[1].page = p

(* MemoryAccess leaves out an access only if a line since the thread's     *)
(* last release stands for it, or the imitated write of the thread's mmap. *)
LeftOutIsLogged ==
  \A t \in Threads, p \in Pages :
    IsPmAddress(p) /\ shadow[t][p] # "none" /\ p \notin imitated[t] => Stands(logged[t][p], shadow[t][p])

(* What the lines of a thread call persisted its own flush and fence have  *)
(* made durable, but for stores between the two and stores left out.       *)
PersistedIsDurable ==
  \A t \in Threads, p \in Pages :
    trace[t][p] = "persisted" /\ p \notin hidden[t] => store[t][p] = "durable"

(* And what they have made durable the lines do not call dirty. *)
DurableIsPersisted ==
  \A t \in Threads, p \in Pages : store[t][p] = "durable" => trace[t][p] # "dirty"
================================================================================
