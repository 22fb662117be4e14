------------------------------ MODULE Dependences ------------------------------
(***************************************************************************)
(* The program dependence analysis of the runtime: the hooks that the      *)
(* instrumentation puts before the loads and stores of a thread, the reads *)
(* each thread keeps pending, the dataflow labels by which it recognises   *)
(* what was computed from them, and the PD lines.                          *)
(*                                                                         *)
(* Every cell is persistent memory and every access is traced: what is     *)
(* not, does not reach these hooks (module Tracing).  A thread computes    *)
(* with one value, to which it adds what it loads or which it replaces.    *)
(*                                                                         *)
(* A hook and the access it is for are two steps: tsanpass.cpp inserts the *)
(* call before the instruction, be it a load or a store.                   *)
(***************************************************************************)
EXTENDS Naturals, Sequences, FiniteSets

CONSTANTS
  Threads,
  Cells,
  LineOf,      \* [Cells -> cache lines]
  Life,        \* PENDING_READS_LIFE_MAX
  Capacity,    \* PENDING_READS_MAX
  MaxEvents,   \* bound: traced accesses of all threads
  MaxLabels    \* bound: dataflow labels

ASSUME DependencesAssumption ==
  /\ Life \in Nat \ {0} /\ Capacity \in Nat /\ Life <= Capacity
  /\ MaxEvents \in Nat /\ MaxLabels \in Nat

VARIABLES
  info,      \* __dfsan_label_info: the two parts of each label, 0 and 0 if it has none
  shadow,    \* the label of each cell
  source,    \* the reads the value in each cell was computed from
  reg,       \* the value of each thread: its label and the reads it comes from
  call,      \* the access a thread is about to make, its hook having returned
  pending,   \* df_pending_reads: [thread -> [slot -> entry]]
  unused,    \* m_unused_labels
  lines,     \* the READ and WRITE lines of each thread; an event is an index
  pds        \* the PD lines: <<thread, read, write>>

dfsan == <<info, shadow, source, reg>>
cprd == <<pending, unused, lines, pds>>
vars == <<dfsan, call, cprd>>

Slots == 1..Capacity
NoRead == [event |-> 0, cell |-> 0, label |-> 0, life |-> 0]
Idle == [op |-> "none"]
Nothing == [label |-> 0, deps |-> {}]

Taken(p) == {i \in Slots : p[i] # NoRead}

(* Every label has a lower number than those it is part of. *)
Has(l, elem) ==
  LET has[k \in 0..l] ==
        \/ k = elem
        \/ k # 0 /\ info[k][1] # 0 /\ (has[info[k][1]] \/ has[info[k][2]])
  IN  has[l]

(* __dfsan_union: the label and the labels there are then. *)
Union(l, k) ==
  LET parts == IF l < k THEN <<l, k>> ELSE <<k, l>>
      known == {n \in DOMAIN info : info[n] = parts}
  IN  IF l = k \/ parts[1] = 0 THEN [label |-> parts[2], info |-> info]
      ELSE IF parts[1] \in {info[parts[2]][1], info[parts[2]][2]}
        THEN [label |-> parts[2], info |-> info]
      ELSE IF known # {} THEN [label |-> CHOOSE n \in known : TRUE, info |-> info]
      ELSE [label |-> Len(info) + 1, info |-> Append(info, parts)]

Events == {<<t, i>> : t \in Threads, i \in 1..MaxEvents}
Values == [label : 0..MaxLabels, deps : SUBSET Events]
Entries == [event : 1..MaxEvents, cell : Cells, label : 1..MaxLabels, life : 1..Life]
Lines == [kind : {"READ", "WRITE"}, cell : Cells]
Calls ==
  {Idle}
    \cup [op : {"load"}, cell : Cells, torn : BOOLEAN]
    \cup [op : {"store"}, cell : Cells, value : Values, address : Values]

Init ==
  /\ info = <<>>
  /\ shadow = [c \in Cells |-> 0]
  /\ source = [c \in Cells |-> {}]
  /\ reg = [t \in Threads |-> Nothing]
  /\ call = [t \in Threads |-> Idle]
  /\ pending = [t \in Threads |-> [i \in Slots |-> NoRead]]
  /\ unused = [t \in Threads |-> <<>>]
  /\ lines = [t \in Threads |-> <<>>]
  /\ pds = {}

(* instrument_memory_access prints the line and numbers the event. *)
Logs(t, kind, c) ==
  /\ Cardinality(UNION {{<<u, i>> : i \in DOMAIN lines[u]} : u \in Threads}) < MaxEvents
  /\ lines' = [lines EXCEPT ![t] = Append(@, [kind |-> kind, cell |-> c])]

(* Mutant of Returned: the label of a removed read is not kept. *)
ReturnedNone(labels, p, S) == labels

(* m_unused_labels after remove_pending_read of the slots S, in order. *)
Returned(labels, p, S) ==
  LET after[i \in 0..Capacity] ==
        IF i = 0 THEN labels
        ELSE IF i \in S THEN Append(after[i - 1], p[i].label) ELSE after[i - 1]
  IN  after[Capacity]

(* Mutant of Aged: a read is removed a step late. *)
AgedLate(p) ==
  [i \in Slots |-> IF p[i] = NoRead \/ p[i].life = 0 THEN NoRead ELSE [p[i] EXCEPT !.life = @ - 1]]

(* The pending reads when one more is made: --it->life. *)
Aged(p) ==
  [i \in Slots |-> IF p[i] = NoRead \/ p[i].life = 1 THEN NoRead ELSE [p[i] EXCEPT !.life = @ - 1]]

--------------------------------------------------------------------------------
(* The label of a cell that has none yet, and the labels then. *)
NewLabel(t) ==
  IF unused[t] = <<>>
  THEN [label |-> Len(info) + 1, info |-> Append(info, <<0, 0>>), unused |-> <<>>]
  ELSE [label |-> unused[t][Len(unused[t])], info |-> info,
        unused |-> SubSeq(unused[t], 1, Len(unused[t]) - 1)]

ReadLabel(t, c) ==
  IF shadow[c] = 0 THEN NewLabel(t)
  ELSE [label |-> shadow[c], info |-> info, unused |-> unused[t]]

(* Mutant of MarkRead: only a read that needs a label ages the others. *)
MarkReadAgingOnce(t, c) ==
  LET new  == ReadLabel(t, c)
      aged == IF shadow[c] = 0 THEN Aged(pending[t]) ELSE pending[t]
      free == Slots \ Taken(aged)
      slot == CHOOSE i \in free : \A j \in free : i <= j
      read == [event |-> Len(lines[t]) + 1, cell |-> c, label |-> new.label, life |-> Life]
  IN  /\ Len(new.info) <= MaxLabels
      /\ info' = new.info
      /\ shadow' = [shadow EXCEPT ![c] = new.label]
      /\ pending' = [pending EXCEPT ![t] = IF free = {} THEN aged ELSE [aged EXCEPT ![slot] = read]]
      /\ unused' = [unused EXCEPT ![t] =
                      Returned(new.unused, pending[t], Taken(pending[t]) \ Taken(aged))]

(* df_mark_read.  A read that finds the table full is not kept. *)
MarkRead(t, c) ==
  LET new  == ReadLabel(t, c)
      aged == Aged(pending[t])
      free == Slots \ Taken(aged)
      slot == CHOOSE i \in free : \A j \in free : i <= j
      read == [event |-> Len(lines[t]) + 1, cell |-> c, label |-> new.label, life |-> Life]
  IN  /\ Len(new.info) <= MaxLabels
      /\ info' = new.info
      /\ shadow' = [shadow EXCEPT ![c] = new.label]
      /\ pending' = [pending EXCEPT ![t] = IF free = {} THEN aged ELSE [aged EXCEPT ![slot] = read]]
      /\ unused' = [unused EXCEPT ![t] =
                      Returned(new.unused, pending[t], Taken(pending[t]) \ Taken(aged))]

(* __tsan_read, which the load follows. *)
ReadHook(t, c) ==
  /\ call[t] = Idle
  /\ Logs(t, "READ", c)
  /\ MarkRead(t, c)
  /\ call' = [call EXCEPT ![t] = [op |-> "load", cell |-> c, torn |-> FALSE]]
  /\ UNCHANGED <<source, reg, pds>>

(* The load, whose value may be added to the thread's or come through a    *)
(* pointer computed from it.  A load that another thread's store overtook  *)
(* takes a value that does not have the label of this read, and is not     *)
(* counted as its reader.                                                  *)
Load(t, adds) ==
  LET c     == call[t].cell
      old   == IF adds THEN reg[t] ELSE Nothing
      both  == Union(old.label, shadow[c])
      event == <<t, Len(lines[t])>>
  IN  /\ call[t].op = "load"
      /\ Len(both.info) <= MaxLabels
      /\ info' = both.info
      /\ reg' = [reg EXCEPT ![t] =
                   [label |-> both.label,
                    deps  |-> old.deps \cup source[c] \cup IF call[t].torn THEN {} ELSE {event}]]
      /\ call' = [call EXCEPT ![t] = Idle]
      /\ UNCHANGED <<shadow, source, cprd>>

(* Mutant of IsReported: without the test for the same cache line. *)
IsReportedAnywhere(read, c, content, address) ==
  Has(content, read.label) \/ Has(address, read.label)

(* Mutant of IsReported: the label of the address is left out. *)
IsReportedByContent(read, c, content, address) ==
  /\ LineOf[read.cell] # LineOf[c]
  /\ Has(content, read.label)

(* The pending reads that df_process_write reports for a write to c. *)
IsReported(read, c, content, address) ==
  /\ LineOf[read.cell] # LineOf[c]
  /\ Has(content, read.label) \/ Has(address, read.label)

(* df_process_write.  It takes the label of the written value from the     *)
(* cell.                                                                   *)
ProcessWrite(t, c, address) ==
  LET event == Len(lines[t]) + 1
      S == {i \in Taken(pending[t]) : IsReported(pending[t][i], c, shadow[c], address.label)}
  IN  /\ pds' = pds \cup {<<t, pending[t][i].event, event>> : i \in S}
      /\ pending' = [pending EXCEPT ![t] = [i \in Slots |-> IF i \in S THEN NoRead ELSE @[i]]]
      /\ unused' = [unused EXCEPT ![t] = Returned(@, pending[t], S)]

(* __tsan_write, which the store follows. *)
WriteHook(t, c, value, address) ==
  /\ call[t] = Idle
  /\ Logs(t, "WRITE", c)
  /\ ProcessWrite(t, c, address)
  /\ call' = [call EXCEPT ![t] = [op |-> "store", cell |-> c, value |-> value, address |-> address]]
  /\ UNCHANGED dfsan

(* The store, and the store of the label that the dataflow pass adds. *)
Store(t) ==
  LET c == call[t].cell
  IN  /\ call[t].op = "store"
      /\ shadow' = [shadow EXCEPT ![c] = call[t].value.label]
      /\ source' = [source EXCEPT ![c] = call[t].value.deps]
      /\ call' = [u \in Threads |->
                    IF u = t THEN Idle
                    ELSE IF call[u].op = "load" /\ call[u].cell = c THEN [call[u] EXCEPT !.torn = TRUE]
                    ELSE call[u]]
      /\ UNCHANGED <<info, reg, cprd>>

(* munmap and a new mmap of the page of c, which has the value 0: each     *)
(* calls dfsan_set_label(0).                                               *)
Remap(t, c) ==
  /\ call[t] = Idle
  /\ \A u \in Threads : call[u] # Idle => call[u].cell # c
  /\ shadow' = [shadow EXCEPT ![c] = 0]
  /\ source' = [source EXCEPT ![c] = {}]
  /\ UNCHANGED <<info, reg, call, cprd>>

Next ==
  \E t \in Threads :
    \/ \E c \in Cells : ReadHook(t, c) \/ Remap(t, c)
    \/ \E adds \in BOOLEAN : Load(t, adds)
    \/ \E c \in Cells, v, a \in {reg[t], Nothing} : WriteHook(t, c, v, a)
    \/ Store(t)

Spec == Init /\ [][Next]_vars
--------------------------------------------------------------------------------

TypeOK ==
  /\ info \in Seq((0..MaxLabels) \X (0..MaxLabels)) /\ Len(info) <= MaxLabels
  /\ shadow \in [Cells -> 0..Len(info)]
  /\ source \in [Cells -> SUBSET Events]
  /\ reg \in [Threads -> Values]
  /\ call \in [Threads -> Calls]
  /\ pending \in [Threads -> [Slots -> Entries \cup {NoRead}]]
  /\ unused \in [Threads -> Seq(1..Len(info))]
  /\ lines \in [Threads -> Seq(Lines)]
  /\ pds \subseteq Threads \X (1..MaxEvents) \X (1..MaxEvents)

(* A read whose load has not been made is pending: the WARN_LOG of a full  *)
(* table is never reached and no read expires as it is added.              *)
NewestReadIsPending ==
  \A t \in Threads :
    call[t].op = "load" => \E i \in Slots : pending[t][i].event = Len(lines[t])

(* No two pending reads of a thread expire together, so there are at most  *)
(* Life of them.                                                           *)
LivesDiffer ==
  \A t \in Threads : \A i, j \in Taken(pending[t]) :
    pending[t][i].life = pending[t][j].life => i = j

(* Every label of its own is in use or will be used again by some thread:  *)
(* long runs do not reach "FATAL: out of labels" by reading alone.         *)
NoLabelIsLost ==
  \A n \in DOMAIN info : info[n] = <<0, 0>> =>
    \E t \in Threads : \/ \E i \in Taken(pending[t]) : pending[t][i].label = n
                       \/ \E k \in DOMAIN unused[t] : unused[t][k] = n

(* The mock of pdg.py: a read's dependant is the next write of the thread  *)
(* on another line.                                                        *)
MockDependants(t, r) ==
  {w \in DOMAIN lines[t] :
     /\ r < w /\ lines[t][w].kind = "WRITE"
     /\ LineOf[lines[t][r].cell] # LineOf[lines[t][w].cell]}

(* What PDGBuilder and _find_bugs assert of a dependence (a read and a     *)
(* write of one thread, on different lines) and pdg_distance of all: the   *)
(* mock never has a later dependant.                                       *)
PdgAssertionsHold ==
  \A pd \in pds :
    LET t == pd[1]
        r == pd[2]
        w == pd[3]
    IN  /\ r \in DOMAIN lines[t] /\ lines[t][r].kind = "READ"
        /\ w \in DOMAIN lines[t] /\ lines[t][w].kind = "WRITE"
        /\ LineOf[lines[t][r].cell] # LineOf[lines[t][w].cell]
        /\ \E m \in MockDependants(t, r) : m <= w

(* The reads that value comes from, as far as t still has them pending and *)
(* a write to c can be reported.                                           *)
Owed(t, c, value) ==
  {pending[t][i].event : i \in {j \in Taken(pending[t]) :
     /\ <<t, pending[t][j].event>> \in value.deps
     /\ LineOf[pending[t][j].cell] # LineOf[c]}}

Reports(t, S) == \A r \in S : <<t, r, Len(lines'[t])>> \in pds'

Writes(t) == call[t] = Idle /\ call'[t].op = "store"

(* A write through a pointer that was computed from a pending read is      *)
(* reported, whatever became of the labels meanwhile.                      *)
AddressesAreReported ==
  [][\A t \in Threads : Writes(t) => Reports(t, Owed(t, call'[t].cell, call'[t].address))]_vars

(* df_process_write: "Note that this works because __tsan_write is called  *)
(* after the actual WRITE event".  Were it so, a write of a value computed *)
(* from a pending read would be reported.                                  *)
ContentsAreReported ==
  [][\A t \in Threads : Writes(t) => Reports(t, Owed(t, call'[t].cell, call'[t].value))]_vars
================================================================================
