--------------------------- MODULE Dependences_proofs ---------------------------
(***************************************************************************)
(* The table of pending reads never runs full, whatever the threads, the   *)
(* cells, the life of a read and the table's capacity, as long as the      *)
(* capacity is not the smaller (30 and 1000 in cprd.h); and every PD line  *)
(* is one that the builder of the dependence graph accepts.                *)
(*                                                                         *)
(* Then the dataflow labels: every label that a read took from dfsan is    *)
(* that of a pending read or is kept for another, and the label of a value *)
(* stands for all pending reads it comes from, so that no write through a  *)
(* pointer computed from one goes unreported.  What the two recursive      *)
(* functions of the model compute is shown by the least number that would  *)
(* be a counterexample.                                                    *)
(***************************************************************************)
EXTENDS Dependences, FiniteSetTheorems, WellFoundedInduction, TLAPS

USE DependencesAssumption

(* A slot that holds a read holds one with a life of 1 to Life.            *)
IsEntry(r) ==
  /\ r = [event |-> r.event, cell |-> r.cell, label |-> r.label, life |-> r.life]
  /\ r.life \in 1..Life

IsTable(p) ==
  /\ p = [i \in Slots |-> p[i]]
  /\ \A i \in Taken(p) : IsEntry(p[i])
  /\ \A i, j \in Taken(p) : p[i].life = p[j].life => i = j

LogOK ==
  /\ lines \in [Threads -> Seq(Lines)]
  /\ call = [t \in Threads |-> call[t]]
  /\ pending = [t \in Threads |-> pending[t]]

PendingInv ==
  /\ LogOK
  /\ \A t \in Threads : IsTable(pending[t])
  /\ NewestReadIsPending

LEMMA NatMin == ASSUME NEW T, T \subseteq Nat, T # {} PROVE \E x \in T : \A y \in T : x <= y
<1> DEFINE R == OpToRel(<, Nat)
<1>1. IsWellFoundedOn(R, Nat)
  BY NatLessThanWellFounded
<1>2. \A x, y \in Nat : <<x, y>> \in R <=> x < y
  BY DEF OpToRel
<1> HIDE DEF R
<1>3. PICK x \in T : \A y \in T : ~ (<<y, x>> \in R)
  BY <1>1, WFMin
<1>4. ASSUME NEW y \in T PROVE x <= y
  <2>1. ~ (y < x)
    BY <1>2, <1>3, Zenon
  <2> QED BY <2>1
<1> QED BY <1>4

LEMMA EmptyTable == IsTable([i \in Slots |-> NoRead])
BY DEF IsTable, Taken

LEMMA AgedEntry ==
  ASSUME NEW r, IsEntry(r), r.life # 1
  PROVE  LET a == [r EXCEPT !.life = r.life - 1]
         IN  IsEntry(a) /\ a.life = r.life - 1 /\ a.life \in 1..(Life - 1)
<1> DEFINE n == r.life - 1
           a == [event |-> r.event, cell |-> r.cell, label |-> r.label, life |-> n]
<1>1. r = [event |-> r.event, cell |-> r.cell, label |-> r.label, life |-> r.life]
  BY DEF IsEntry
<1>2. [r EXCEPT !.life = n] = a
  BY <1>1
<1>3. n \in 1..(Life - 1) /\ n \in 1..Life
  BY DEF IsEntry
<1> HIDE DEF n
<1>4. IsEntry(a) /\ a.life = n
  BY <1>3 DEF IsEntry
<1>5. IsEntry([r EXCEPT !.life = n]) /\ [r EXCEPT !.life = n].life = n
  BY <1>2, <1>4, Zenon
<1> QED BY <1>3, <1>5, Zenon DEF n

(* Ageing removes the reads at the end of their life; the others have      *)
(* lives below Life, and still different ones.                             *)
LEMMA AgedTable ==
  ASSUME NEW p, IsTable(p)
  PROVE  /\ IsTable(Aged(p))
         /\ \A i \in Taken(Aged(p)) : Aged(p)[i].life \in 1..(Life - 1)
<1>1. ASSUME NEW i \in Taken(Aged(p))
      PROVE  /\ i \in Taken(p) /\ p[i].life # 1
             /\ Aged(p)[i] = [p[i] EXCEPT !.life = p[i].life - 1]
  BY <1>1 DEF Taken, Aged
<1>2. ASSUME NEW i \in Taken(Aged(p))
      PROVE  IsEntry(Aged(p)[i]) /\ Aged(p)[i].life = p[i].life - 1 /\ Aged(p)[i].life \in 1..(Life - 1)
  <2>1. IsEntry(p[i]) /\ p[i].life # 1
    BY <1>1, <1>2 DEF IsTable
  <2> QED BY <1>1, <1>2, <2>1, AgedEntry
<1>3. ASSUME NEW i \in Taken(Aged(p)), NEW j \in Taken(Aged(p)), Aged(p)[i].life = Aged(p)[j].life
      PROVE  i = j
  <2>1. /\ i \in Taken(p) /\ j \in Taken(p)
        /\ IsEntry(p[i]) /\ IsEntry(p[j])
    BY <1>1, <1>3 DEF IsTable
  <2>2. p[i].life \in Int /\ p[j].life \in Int
    BY <2>1 DEF IsEntry
  <2>3. p[i].life - 1 = p[j].life - 1
    BY <1>2, <1>3
  <2>4. p[i].life = p[j].life
    BY <2>2, <2>3
  <2> QED BY <2>1, <2>4 DEF IsTable
<1>4. Aged(p) = [i \in Slots |-> Aged(p)[i]]
  BY DEF Aged
<1> QED BY <1>2, <1>3, <1>4 DEF IsTable

(* So there is a free slot: more slots than lives that are left. *)
LEMMA AgedTableHasRoom ==
  ASSUME NEW p, IsTable(p)
  PROVE  Slots \ Taken(Aged(p)) # {}
<1> SUFFICES ASSUME Slots \ Taken(Aged(p)) = {} PROVE FALSE
  OBVIOUS
<1>1. Taken(Aged(p)) = Slots
  BY DEF Taken
<1> DEFINE life == [i \in Slots |-> Aged(p)[i].life]
<1>2. life \in [Slots -> 1..(Life - 1)]
  <2>1. \A i \in Slots : Aged(p)[i].life \in 1..(Life - 1)
    BY <1>1, AgedTable, Zenon
  <2> QED BY <2>1
<1>3. /\ IsFiniteSet(Slots) /\ Cardinality(Slots) = Capacity
      /\ IsFiniteSet(1..(Life - 1)) /\ Cardinality(1..(Life - 1)) = Life - 1
  BY FS_Interval DEF Slots
<1>4. PICK i, j \in Slots : i # j /\ life[i] = life[j]
  <2>1. Life - 1 < Capacity
    OBVIOUS
  <2> HIDE DEF life
  <2> QED BY <1>2, <1>3, <2>1, FS_PigeonHole
<1>5. Aged(p)[i].life = Aged(p)[j].life
  BY <1>4
<1> QED BY <1>1, <1>4, <1>5, AgedTable DEF IsTable

(* A new read in the first free slot, with the longest life. *)
LEMMA AddedTable ==
  ASSUME NEW p, IsTable(p), NEW e, NEW c, NEW l,
         NEW slot \in Slots \ Taken(Aged(p))
  PROVE  LET read == [event |-> e, cell |-> c, label |-> l, life |-> Life]
         IN  IsTable([Aged(p) EXCEPT ![slot] = read])
<1> DEFINE read == [event |-> e, cell |-> c, label |-> l, life |-> Life]
           q == [Aged(p) EXCEPT ![slot] = read]
<1>1. IsEntry(read) /\ read.life = Life
  BY DEF IsEntry
<1>2. Aged(p) = [i \in Slots |-> Aged(p)[i]]
  BY DEF Aged
<1> HIDE DEF read
<1>3. /\ q = [i \in Slots |-> q[i]]
      /\ q[slot] = read
      /\ \A i \in Slots : i # slot => q[i] = Aged(p)[i]
  BY <1>2
<1> HIDE DEF q
<1>4. \A i \in Taken(q) : i = slot \/ i \in Taken(Aged(p))
  BY <1>3 DEF Taken
<1>5. ASSUME NEW i \in Taken(q) PROVE IsEntry(q[i])
  BY <1>1, <1>3, <1>4, AgedTable DEF IsTable, Taken
<1>6. ASSUME NEW i \in Taken(q), NEW j \in Taken(q), q[i].life = q[j].life PROVE i = j
  <2>1. ASSUME NEW k \in Taken(q), k # slot
        PROVE  k \in Taken(Aged(p)) /\ q[k] = Aged(p)[k] /\ q[k].life \in 1..(Life - 1)
    BY <1>3, <1>4, <2>1, AgedTable DEF Taken
  <2>2. \A n \in 1..(Life - 1) : n # Life
    OBVIOUS
  <2>3. CASE i # slot /\ j # slot
    BY <1>6, <2>1, <2>3, AgedTable DEF IsTable
  <2>4. CASE i = slot /\ j # slot
    BY <1>1, <1>3, <1>6, <2>1, <2>2, <2>4
  <2>5. CASE i # slot /\ j = slot
    BY <1>1, <1>3, <1>6, <2>1, <2>2, <2>5
  <2> QED BY <2>3, <2>4, <2>5
<1>7. IsTable(q)
  BY <1>3, <1>5, <1>6 DEF IsTable
<1> QED BY <1>7 DEF q, read

LEMMA RemovedTable ==
  ASSUME NEW p, IsTable(p), NEW S
  PROVE  IsTable([i \in Slots |-> IF i \in S THEN NoRead ELSE p[i]])
<1> DEFINE q == [i \in Slots |-> IF i \in S THEN NoRead ELSE p[i]]
<1>1. \A i \in Taken(q) : i \in Taken(p) /\ q[i] = p[i]
  BY DEF Taken
<1>2. q = [i \in Slots |-> q[i]]
  OBVIOUS
<1> HIDE DEF q
<1>3. IsTable(q)
  BY <1>1, <1>2 DEF IsTable
<1> QED BY <1>3 DEF q

(* df_mark_read finds the slot it looks for. *)
LEMMA MarkReadKeeps ==
  ASSUME LogOK, \A u \in Threads : IsTable(pending[u]),
         NEW t \in Threads, NEW c \in Cells, MarkRead(t, c)
  PROVE  /\ pending' = [u \in Threads |-> pending'[u]]
         /\ \A u \in Threads : IsTable(pending'[u])
         /\ \A u \in Threads \ {t} : pending'[u] = pending[u]
         /\ \E i \in Slots : pending'[t][i].event = Len(lines[t]) + 1
<1> DEFINE aged == Aged(pending[t])
           free == Slots \ Taken(aged)
           slot == CHOOSE i \in free : \A j \in free : i <= j
           read == [event |-> Len(lines[t]) + 1, cell |-> c, label |-> ReadLabel(t, c).label,
                    life |-> Life]
<1>1. IsTable(pending[t])
  OBVIOUS
<1>2. free # {}
  BY <1>1, AgedTableHasRoom
<1>3. slot \in free
  <2>1. free \subseteq Nat
    BY DEF Slots
  <2> HIDE DEF free
  <2>2. \E i \in free : \A j \in free : i <= j
    BY <1>2, <2>1, NatMin
  <2> QED BY <2>2
<1>4. pending' = [pending EXCEPT ![t] = [aged EXCEPT ![slot] = read]]
  BY <1>2 DEF MarkRead
<1>5. IsTable([aged EXCEPT ![slot] = read])
  BY <1>1, <1>3, AddedTable
<1>6. [aged EXCEPT ![slot] = read][slot].event = Len(lines[t]) + 1
  BY <1>3 DEF Aged
<1> HIDE DEF read, slot, aged
<1>7. /\ pending' = [u \in Threads |-> pending'[u]]
      /\ \A u \in Threads \ {t} : pending'[u] = pending[u]
      /\ pending'[t] = [aged EXCEPT ![slot] = read]
  BY <1>4 DEF LogOK
<1>8. \A u \in Threads : IsTable(pending'[u])
  BY <1>5, <1>7
<1> QED BY <1>3, <1>6, <1>7, <1>8

LEMMA InitPending == Init => PendingInv
<1> SUFFICES ASSUME Init PROVE PendingInv
  OBVIOUS
<1>1. LogOK
  BY DEF Init, LogOK
<1>2. \A t \in Threads : IsTable(pending[t])
  BY EmptyTable DEF Init
<1>3. NewestReadIsPending
  BY DEF Init, NewestReadIsPending, Idle
<1> QED BY <1>1, <1>2, <1>3 DEF PendingInv

LEMMA LogsOne ==
  ASSUME LogOK, NEW t \in Threads, NEW kind \in {"READ", "WRITE"}, NEW c \in Cells, Logs(t, kind, c)
  PROVE  /\ lines' \in [Threads -> Seq(Lines)]
         /\ \A u \in Threads \ {t} : lines'[u] = lines[u]
         /\ Len(lines'[t]) = Len(lines[t]) + 1
<1> DEFINE line == [kind |-> kind, cell |-> c]
<1>1. line \in Lines
  BY DEF Lines
<1>2. lines' = [lines EXCEPT ![t] = Append(lines[t], line)]
  BY DEF Logs
<1> HIDE DEF line
<1>3. lines[t] \in Seq(Lines)
  BY DEF LogOK
<1> DEFINE log == Append(lines[t], line)
<1>4. log \in Seq(Lines) /\ Len(log) = Len(lines[t]) + 1
  BY <1>1, <1>3
<1>5. lines' = [lines EXCEPT ![t] = log]
  BY <1>2
<1> HIDE DEF log
<1> QED BY <1>4, <1>5 DEF LogOK

LEMMA ReadHookPending ==
  ASSUME PendingInv, NEW t \in Threads, NEW c \in Cells, ReadHook(t, c)
  PROVE  PendingInv'
<1>1. /\ Logs(t, "READ", c) /\ MarkRead(t, c)
      /\ call' = [call EXCEPT ![t] = [op |-> "load", cell |-> c, torn |-> FALSE]]
  BY DEF ReadHook
<1>2. LogOK'
  BY <1>1, LogsOne, MarkReadKeeps DEF PendingInv, LogOK
<1>3. \A u \in Threads : IsTable(pending'[u])
  BY <1>1, MarkReadKeeps DEF PendingInv
<1>4. \A u \in Threads \ {t} : call'[u] = call[u]
  BY <1>1 DEF PendingInv, LogOK
<1>5. ASSUME NEW u \in Threads, call'[u].op = "load"
      PROVE  \E i \in Slots : pending'[u][i].event = Len(lines'[u])
  <2>1. CASE u = t
    <3>1. \E i \in Slots : pending'[t][i].event = Len(lines[t]) + 1
      BY <1>1, MarkReadKeeps, Zenon DEF PendingInv
    <3>2. Len(lines'[t]) = Len(lines[t]) + 1
      BY <1>1, LogsOne DEF PendingInv
    <3> QED BY <2>1, <3>1, <3>2
  <2>2. CASE u # t
    <3>1. pending'[u] = pending[u]
      BY <1>1, <2>2, MarkReadKeeps DEF PendingInv
    <3>2. lines'[u] = lines[u]
      BY <1>1, <2>2, LogsOne DEF PendingInv
    <3>3. call[u].op = "load"
      BY <1>4, <1>5, <2>2
    <3>4. \E i \in Slots : pending[u][i].event = Len(lines[u])
      BY <3>3 DEF PendingInv, NewestReadIsPending
    <3> QED BY <3>1, <3>2, <3>4
  <2> QED BY <2>1, <2>2
<1> QED BY <1>2, <1>3, <1>5 DEF PendingInv, NewestReadIsPending

LEMMA WriteHookPending ==
  ASSUME PendingInv, NEW t \in Threads, NEW c \in Cells, NEW v, NEW a, WriteHook(t, c, v, a)
  PROVE  PendingInv'
<1>1. PICK S : /\ Logs(t, "WRITE", c)
               /\ pending' = [pending EXCEPT ![t] = [i \in Slots |-> IF i \in S THEN NoRead ELSE pending[t][i]]]
               /\ call' = [call EXCEPT ![t] = [op |-> "store", cell |-> c, value |-> v, address |-> a]]
  BY DEF WriteHook, ProcessWrite
<1>2. /\ \A u \in Threads \ {t} : pending'[u] = pending[u] /\ call'[u] = call[u]
      /\ pending'[t] = [i \in Slots |-> IF i \in S THEN NoRead ELSE pending[t][i]]
      /\ call'[t].op = "store"
      /\ pending' = [u \in Threads |-> pending'[u]] /\ call' = [u \in Threads |-> call'[u]]
  BY <1>1 DEF PendingInv, LogOK
<1>3. LogOK'
  BY <1>1, <1>2, LogsOne DEF PendingInv, LogOK
<1>4. \A u \in Threads : IsTable(pending'[u])
  BY <1>2, RemovedTable DEF PendingInv
<1>5. NewestReadIsPending'
  BY <1>1, <1>2, LogsOne DEF PendingInv, NewestReadIsPending
<1> QED BY <1>3, <1>4, <1>5 DEF PendingInv

(* What leaves the pending reads alone and makes no load out of nothing.   *)
LEMMA PendingKept ==
  ASSUME PendingInv, UNCHANGED cprd,
         call' = [t \in Threads |-> call'[t]],
         \A t \in Threads : call'[t].op = "load" => call[t].op = "load"
  PROVE  PendingInv'
BY DEF PendingInv, LogOK, NewestReadIsPending, cprd

LEMMA NextPending == PendingInv /\ [Next]_vars => PendingInv'
<1> SUFFICES ASSUME PendingInv, [Next]_vars PROVE PendingInv'
  OBVIOUS
<1>1. CASE UNCHANGED vars
  BY <1>1, PendingKept DEF vars, PendingInv, LogOK
<1>2. ASSUME NEW t \in Threads, NEW c \in Cells, ReadHook(t, c) PROVE PendingInv'
  BY <1>2, ReadHookPending
<1>3. ASSUME NEW t \in Threads, NEW c \in Cells, Remap(t, c) PROVE PendingInv'
  BY <1>3, PendingKept DEF Remap, PendingInv, LogOK
<1>4. ASSUME NEW t \in Threads, NEW adds \in BOOLEAN, Load(t, adds) PROVE PendingInv'
  <2>1. /\ call' = [call EXCEPT ![t] = Idle] /\ UNCHANGED cprd
    BY <1>4 DEF Load
  <2> QED BY <2>1, PendingKept DEF PendingInv, LogOK, Idle
<1>5. ASSUME NEW t \in Threads, NEW c \in Cells, NEW v, NEW a, WriteHook(t, c, v, a)
      PROVE  PendingInv'
  BY <1>5, WriteHookPending
<1>6. ASSUME NEW t \in Threads, Store(t) PROVE PendingInv'
  <2> DEFINE c == call[t].cell
  <2>1. /\ UNCHANGED cprd
        /\ call' = [u \in Threads |->
              IF u = t THEN Idle
              ELSE IF call[u].op = "load" /\ call[u].cell = c THEN [call[u] EXCEPT !.torn = TRUE]
              ELSE call[u]]
    BY <1>6 DEF Store
  <2> HIDE DEF c
  <2>2. \A u \in Threads : call'[u].op = "load" => call[u].op = "load"
    BY <2>1 DEF Idle
  <2>3. call' = [u \in Threads |-> call'[u]]
    BY <2>1
  <2> QED BY <2>1, <2>2, <2>3, PendingKept
<1> QED BY <1>1, <1>2, <1>3, <1>4, <1>5, <1>6 DEF Next

(* df_mark_read always finds a free slot: the WARN_LOG about a full table  *)
(* is dead code, and a read is pending when its load is made.              *)
THEOREM TableNeverFull == Spec => []NewestReadIsPending
<1>1. PendingInv => NewestReadIsPending
  BY DEF PendingInv
<1> QED BY InitPending, NextPending, <1>1, PTL DEF Spec

(* No two reads of a thread expire together. *)
THEOREM OneExpiresAtATime == Spec => []LivesDiffer
<1>1. PendingInv => LivesDiffer
  BY DEF PendingInv, IsTable, LivesDiffer
<1> QED BY InitPending, NextPending, <1>1, PTL DEF Spec
--------------------------------------------------------------------------------
(* PD lines *)

(* An entry of the table is a READ line of its thread. *)
IsLogged(log, read) ==
  /\ read.event \in 1..Len(log)
  /\ log[read.event].kind = "READ"
  /\ log[read.event].cell = read.cell

(* What PdgAssertionsHold says of one line, with the mock's dependant made *)
(* explicit: the write itself is a later write on another line.            *)
IsDependence(log, r, w) ==
  /\ r \in 1..Len(log) /\ w \in 1..Len(log) /\ r < w
  /\ log[r].kind = "READ" /\ log[w].kind = "WRITE"
  /\ LineOf[log[r].cell] # LineOf[log[w].cell]

PdgInv ==
  /\ PendingInv
  /\ \A t \in Threads : \A i \in Taken(pending[t]) : IsLogged(lines[t], pending[t][i])
  /\ \A pd \in pds : pd[1] \in Threads /\ IsDependence(lines[pd[1]], pd[2], pd[3])

LEMMA DependenceIsAccepted ==
  ASSUME LogOK, NEW t \in Threads, NEW r, NEW w, IsDependence(lines[t], r, w)
  PROVE  /\ r \in DOMAIN lines[t] /\ lines[t][r].kind = "READ"
         /\ w \in DOMAIN lines[t] /\ lines[t][w].kind = "WRITE"
         /\ LineOf[lines[t][r].cell] # LineOf[lines[t][w].cell]
         /\ \E m \in MockDependants(t, r) : m <= w
<1>1. lines[t] \in Seq(Lines)
  BY DEF LogOK
<1>2. DOMAIN lines[t] = 1..Len(lines[t]) /\ Len(lines[t]) \in Nat
  BY <1>1
<1>3. w \in MockDependants(t, r)
  BY <1>2 DEF IsDependence, MockDependants
<1>4. w \in Nat
  BY <1>2 DEF IsDependence
<1> QED BY <1>2, <1>3, <1>4 DEF IsDependence

(* A line is appended and none is changed. *)
LEMMA LogsAppends ==
  ASSUME LogOK, NEW t \in Threads, NEW kind \in {"READ", "WRITE"}, NEW c \in Cells, Logs(t, kind, c)
  PROVE  /\ \A u \in Threads : /\ Len(lines[u]) \in Nat /\ Len(lines'[u]) \in Nat
                               /\ Len(lines[u]) <= Len(lines'[u])
                               /\ \A i \in 1..Len(lines[u]) : lines'[u][i] = lines[u][i]
         /\ Len(lines'[t]) = Len(lines[t]) + 1
         /\ lines'[t][Len(lines[t]) + 1] = [kind |-> kind, cell |-> c]
<1> DEFINE line == [kind |-> kind, cell |-> c]
<1>1. line \in Lines
  BY DEF Lines
<1>2. lines' = [lines EXCEPT ![t] = Append(lines[t], line)]
  BY DEF Logs
<1> HIDE DEF line
<1>3. \A u \in Threads : lines[u] \in Seq(Lines)
  BY DEF LogOK
<1>4. lines'[t] = Append(lines[t], line) /\ \A u \in Threads \ {t} : lines'[u] = lines[u]
  BY <1>2 DEF LogOK
<1>5. \A u \in Threads : Len(lines[u]) \in Nat
  BY <1>3
<1>6. /\ Len(lines'[t]) = Len(lines[t]) + 1
      /\ lines'[t][Len(lines[t]) + 1] = line
      /\ \A i \in 1..Len(lines[t]) : lines'[t][i] = lines[t][i]
  BY <1>1, <1>3, <1>4
<1>7. ASSUME NEW u \in Threads
      PROVE  /\ Len(lines'[u]) \in Nat /\ Len(lines[u]) <= Len(lines'[u])
             /\ \A i \in 1..Len(lines[u]) : lines'[u][i] = lines[u][i]
  <2>1. CASE u = t
    BY <1>5, <1>6, <2>1
  <2>2. CASE u # t
    BY <1>4, <1>5, <2>2
  <2> QED BY <2>1, <2>2
<1> QED BY <1>5, <1>6, <1>7 DEF line

(* So what the table and the PD lines say of lines stays true. *)
LEMMA StaysLogged ==
  ASSUME LogOK, NEW t \in Threads, NEW kind \in {"READ", "WRITE"}, NEW c \in Cells, Logs(t, kind, c)
  PROVE  /\ \A u \in Threads : \A read : IsLogged(lines[u], read) => IsLogged(lines'[u], read)
         /\ \A u \in Threads : \A r, w : IsDependence(lines[u], r, w) => IsDependence(lines'[u], r, w)
<1>1. \A u \in Threads : /\ Len(lines[u]) \in Nat /\ Len(lines'[u]) \in Nat
                         /\ Len(lines[u]) <= Len(lines'[u])
                         /\ \A i \in 1..Len(lines[u]) : lines'[u][i] = lines[u][i]
  BY LogsAppends
<1>2. ASSUME NEW u \in Threads, NEW read, IsLogged(lines[u], read) PROVE IsLogged(lines'[u], read)
  BY <1>1, <1>2 DEF IsLogged
<1>3. ASSUME NEW u \in Threads, NEW r, NEW w, IsDependence(lines[u], r, w)
      PROVE  IsDependence(lines'[u], r, w)
  BY <1>1, <1>3 DEF IsDependence
<1> QED BY <1>2, <1>3

LEMMA ReadHookPdg ==
  ASSUME PdgInv, PendingInv', NEW t \in Threads, NEW c \in Cells, ReadHook(t, c)
  PROVE  PdgInv'
<1> DEFINE aged == Aged(pending[t])
           free == Slots \ Taken(aged)
           slot == CHOOSE i \in free : \A j \in free : i <= j
           read == [event |-> Len(lines[t]) + 1, cell |-> c, label |-> ReadLabel(t, c).label,
                    life |-> Life]
<1>1. Logs(t, "READ", c) /\ MarkRead(t, c) /\ UNCHANGED pds /\ LogOK
  BY DEF ReadHook, PdgInv, PendingInv
<1>2. pending' = [pending EXCEPT ![t] = IF free = {} THEN aged ELSE [aged EXCEPT ![slot] = read]]
  BY <1>1 DEF MarkRead
<1>3. \A u \in Threads \ {t} : pending'[u] = pending[u]
  BY <1>1, <1>2 DEF LogOK
<1>4. pending'[t] = IF free = {} THEN aged ELSE [aged EXCEPT ![slot] = read]
  BY <1>1, <1>2 DEF LogOK
<1>5. aged = [i \in Slots |-> aged[i]]
  BY DEF Aged
<1>6. \A i \in Taken(aged) : /\ i \in Taken(pending[t])
                             /\ aged[i].event = pending[t][i].event
                             /\ aged[i].cell = pending[t][i].cell
  <2>1. ASSUME NEW i \in Taken(aged)
        PROVE  /\ i \in Slots /\ pending[t][i] # NoRead
               /\ aged[i] = [pending[t][i] EXCEPT !.life = @ - 1]
    BY <2>1 DEF Taken, Aged
  <2>2. ASSUME NEW i \in Taken(aged)
        PROVE  aged[i].event = pending[t][i].event /\ aged[i].cell = pending[t][i].cell
    <3>1. i \in Taken(pending[t])
      BY <2>1 DEF Taken
    <3>2. pending[t][i] = [event |-> pending[t][i].event, cell |-> pending[t][i].cell,
                           label |-> pending[t][i].label, life |-> pending[t][i].life]
      BY <3>1 DEF PdgInv, PendingInv, IsTable, IsEntry
    <3> QED BY <2>1, <3>2
  <2> QED BY <2>1, <2>2 DEF Taken
<1>7. IsLogged(lines'[t], read)
  <2>1. /\ Len(lines[t]) \in Nat
        /\ Len(lines'[t]) = Len(lines[t]) + 1
        /\ lines'[t][Len(lines[t]) + 1] = [kind |-> "READ", cell |-> c]
    BY <1>1, LogsAppends
  <2>2. read.event = Len(lines[t]) + 1 /\ read.cell = c
    OBVIOUS
  <2> HIDE DEF read
  <2> QED BY <2>1, <2>2 DEF IsLogged
<1> HIDE DEF aged, free, read, slot
<1>8. \A i \in Taken(pending'[t]) : pending'[t][i] = read \/ (i \in Taken(aged) /\ pending'[t][i] = aged[i])
  <2>1. \A i \in Slots : pending'[t][i] = aged[i] \/ pending'[t][i] = read
    <3>1. CASE free = {}
      BY <1>4, <3>1
    <3>2. CASE free # {}
      <4>1. pending'[t] = [aged EXCEPT ![slot] = read]
        BY <1>4, <3>2
      <4>2. \A i \in Slots : i \in DOMAIN aged
        BY <1>5
      <4> QED BY <4>1, <4>2
    <3> QED BY <3>1, <3>2
  <2>2. ASSUME NEW i \in Taken(pending'[t]), pending'[t][i] # read
        PROVE  i \in Taken(aged) /\ pending'[t][i] = aged[i]
    <3>1. i \in Slots /\ pending'[t][i] # NoRead
      BY <2>2 DEF Taken
    <3>2. pending'[t][i] = aged[i]
      BY <2>1, <2>2, <3>1
    <3> QED BY <3>1, <3>2 DEF Taken
  <2> QED BY <2>2
<1>9. ASSUME NEW u \in Threads, NEW i \in Taken(pending'[u]) PROVE IsLogged(lines'[u], pending'[u][i])
  <2>1. CASE u # t
    <3>1. IsLogged(lines[u], pending'[u][i])
      BY <1>3, <1>9, <2>1 DEF PdgInv
    <3> QED BY <1>1, <3>1, StaysLogged
  <2>2. CASE u = t /\ pending'[t][i] = read
    BY <1>7, <2>2
  <2>3. CASE u = t /\ i \in Taken(aged) /\ pending'[t][i] = aged[i]
    <3>1. IsLogged(lines[t], pending[t][i])
      BY <1>6, <2>3 DEF PdgInv
    <3>2. IsLogged(lines[t], aged[i])
      BY <1>6, <2>3, <3>1 DEF IsLogged
    <3> QED BY <1>1, <2>3, <3>2, StaysLogged
  <2> QED BY <1>8, <1>9, <2>1, <2>2, <2>3
<1>10. \A pd \in pds' : pd[1] \in Threads /\ IsDependence(lines'[pd[1]], pd[2], pd[3])
  BY <1>1, StaysLogged DEF PdgInv
<1> QED BY <1>9, <1>10 DEF PdgInv

LEMMA WriteHookPdg ==
  ASSUME PdgInv, PendingInv', NEW t \in Threads, NEW c \in Cells, NEW v, NEW a, WriteHook(t, c, v, a)
  PROVE  PdgInv'
<1> DEFINE event == Len(lines[t]) + 1
           S == {i \in Taken(pending[t]) : IsReported(pending[t][i], c, shadow[c], a.label)}
<1>1. /\ Logs(t, "WRITE", c) /\ LogOK
      /\ pds' = pds \cup {<<t, pending[t][i].event, event>> : i \in S}
      /\ pending' = [pending EXCEPT ![t] = [i \in Slots |-> IF i \in S THEN NoRead ELSE pending[t][i]]]
  BY DEF WriteHook, ProcessWrite, PdgInv, PendingInv
<1>2. /\ \A u \in Threads \ {t} : pending'[u] = pending[u]
      /\ pending'[t] = [i \in Slots |-> IF i \in S THEN NoRead ELSE pending[t][i]]
  BY <1>1 DEF LogOK
<1>3. \A i \in S : i \in Taken(pending[t]) /\ LineOf[pending[t][i].cell] # LineOf[c]
  BY DEF IsReported
<1>4. ASSUME NEW i \in S PROVE IsDependence(lines'[t], pending[t][i].event, event)
  <2>1. IsLogged(lines[t], pending[t][i]) /\ LineOf[pending[t][i].cell] # LineOf[c]
    BY <1>3, <1>4 DEF PdgInv
  <2>2. IsLogged(lines'[t], pending[t][i])
    BY <1>1, <2>1, StaysLogged
  <2>3. /\ Len(lines[t]) \in Nat /\ Len(lines'[t]) = event
        /\ lines'[t][event] = [kind |-> "WRITE", cell |-> c]
    BY <1>1, LogsAppends
  <2> HIDE DEF S
  <2> QED BY <2>1, <2>2, <2>3 DEF IsLogged, IsDependence
<1> HIDE DEF S, event
<1>5. ASSUME NEW pd \in pds'
      PROVE  pd[1] \in Threads /\ IsDependence(lines'[pd[1]], pd[2], pd[3])
  <2>1. CASE pd \in pds
    BY <1>1, <2>1, StaysLogged DEF PdgInv
  <2>2. CASE \E i \in S : pd = <<t, pending[t][i].event, event>>
    BY <1>4, <2>2
  <2> QED BY <1>1, <1>5, <2>1, <2>2
<1>6. ASSUME NEW u \in Threads, NEW i \in Taken(pending'[u]) PROVE IsLogged(lines'[u], pending'[u][i])
  <2>1. i \in Taken(pending[u]) /\ pending'[u][i] = pending[u][i]
    BY <1>2, <1>6 DEF Taken
  <2>2. IsLogged(lines[u], pending'[u][i])
    BY <2>1 DEF PdgInv
  <2> QED BY <1>1, <2>2, StaysLogged
<1> QED BY <1>5, <1>6 DEF PdgInv

LEMMA InitPdg == Init => PdgInv
<1> SUFFICES ASSUME Init PROVE PdgInv
  OBVIOUS
<1>1. \A t \in Threads : Taken(pending[t]) = {}
  BY DEF Init, Taken
<1> QED BY <1>1, InitPending DEF Init, PdgInv

LEMMA NextPdg == PdgInv /\ [Next]_vars => PdgInv'
<1> SUFFICES ASSUME PdgInv, [Next]_vars PROVE PdgInv'
  OBVIOUS
<1>1. PendingInv'
  BY NextPending DEF PdgInv
<1>2. CASE UNCHANGED cprd
  BY <1>1, <1>2 DEF cprd, PdgInv
<1>3. ASSUME NEW t \in Threads, NEW c \in Cells, ReadHook(t, c) PROVE PdgInv'
  BY <1>1, <1>3, ReadHookPdg
<1>4. ASSUME NEW t \in Threads, NEW c \in Cells, NEW v, NEW a, WriteHook(t, c, v, a) PROVE PdgInv'
  BY <1>1, <1>4, WriteHookPdg
<1>5. \/ UNCHANGED cprd
      \/ \E t \in Threads, c \in Cells : ReadHook(t, c)
      \/ \E t \in Threads, c \in Cells : \E v, a \in {reg[t], Nothing} : WriteHook(t, c, v, a)
  BY DEF Next, Remap, Load, Store, vars
<1> QED BY <1>2, <1>3, <1>4, <1>5

(* What the analysis asserts of a dependence every PD line satisfies: an   *)
(* earlier read and a write of one thread, on different lines.             *)
THEOREM DependencesAreAccepted == Spec => []PdgAssertionsHold
<1>1. PdgInv => PdgAssertionsHold
  <2> SUFFICES ASSUME PdgInv, NEW pd \in pds
               PROVE  LET t == pd[1]
                          r == pd[2]
                          w == pd[3]
                      IN  /\ r \in DOMAIN lines[t] /\ lines[t][r].kind = "READ"
                          /\ w \in DOMAIN lines[t] /\ lines[t][w].kind = "WRITE"
                          /\ LineOf[lines[t][r].cell] # LineOf[lines[t][w].cell]
                          /\ \E m \in MockDependants(t, r) : m <= w
    BY DEF PdgAssertionsHold
  <2>1. pd[1] \in Threads /\ IsDependence(lines[pd[1]], pd[2], pd[3]) /\ LogOK
    BY DEF PdgInv, PendingInv
  <2> QED BY <2>1, DependenceIsAccepted
<1> QED BY InitPdg, NextPdg, <1>1, PTL DEF Spec
--------------------------------------------------------------------------------
(* Labels *)

(* A recursive function exists on every interval 0..n: were there a least  *)
(* n on which it does not, it could be extended from 0..n-1.               *)
IsReturned(f, n, labels, p, S) ==
  f = [i \in 0..n |-> IF i = 0 THEN labels
                      ELSE IF i \in S THEN Append(f[i - 1], p[i].label) ELSE f[i - 1]]

LEMMA ReturnedExists ==
  ASSUME NEW labels, NEW p, NEW S, NEW m \in Nat
  PROVE  \E f : IsReturned(f, m, labels, p, S)
<1> DEFINE Bad == {n \in Nat : ~ \E f : IsReturned(f, n, labels, p, S)}
<1> SUFFICES ASSUME Bad # {} PROVE FALSE
  OBVIOUS
<1>1. PICK n \in Bad : \A k \in Bad : n <= k
  <2>1. Bad \subseteq Nat
    OBVIOUS
  <2> HIDE DEF Bad
  <2> QED BY <2>1, NatMin
<1>2. n # 0
  <2> DEFINE f == [i \in 0..0 |-> labels]
  <2>1. IsReturned(f, 0, labels, p, S)
    BY DEF IsReturned
  <2> QED BY <2>1
<1>3. n - 1 \in Nat /\ n - 1 \notin Bad
  BY <1>1, <1>2
<1>4. PICK f : IsReturned(f, n - 1, labels, p, S)
  BY <1>3
<1> DEFINE last == IF n \in S THEN Append(f[n - 1], p[n].label) ELSE f[n - 1]
           g == [i \in 0..n |-> IF i = n THEN last ELSE f[i]]
<1>5. \A i \in 0..(n - 1) : f[i] = IF i = 0 THEN labels
                                   ELSE IF i \in S THEN Append(f[i - 1], p[i].label) ELSE f[i - 1]
  BY <1>4 DEF IsReturned
<1>6. ASSUME NEW i \in 0..n
      PROVE  g[i] = IF i = 0 THEN labels
                    ELSE IF i \in S THEN Append(g[i - 1], p[i].label) ELSE g[i - 1]
  <2>1. CASE i = n
    <3>1. g[n] = last /\ g[n - 1] = f[n - 1]
      BY <1>2
    <3> QED BY <1>2, <2>1, <3>1
  <2>2. CASE i # n
    <3>1. i \in 0..(n - 1) /\ g[i] = f[i] /\ (i # 0 => g[i - 1] = f[i - 1])
      BY <2>2
    <3> QED BY <1>5, <3>1
  <2> QED BY <2>1, <2>2
<1>7. g = [i \in 0..n |-> g[i]]
  OBVIOUS
<1> HIDE DEF g
<1>8. IsReturned(g, n, labels, p, S)
  BY <1>6, <1>7 DEF IsReturned
<1> QED BY <1>8

LEMMA ReturnedIs ==
  ASSUME NEW labels, NEW p, NEW S
  PROVE  \E f : IsReturned(f, Capacity, labels, p, S) /\ Returned(labels, p, S) = f[Capacity]
<1> DEFINE f == CHOOSE g : IsReturned(g, Capacity, labels, p, S)
<1>1. IsReturned(f, Capacity, labels, p, S)
  BY ReturnedExists
<1>2. Returned(labels, p, S) = f[Capacity]
  BY DEF Returned, IsReturned
<1> HIDE DEF f
<1> QED BY <1>1, <1>2

(* The dataflow labels: a label has no parts or two of lower number. *)
IsInfo(inf) ==
  /\ inf \in Seq((0..MaxLabels) \X (0..MaxLabels)) /\ Len(inf) <= MaxLabels
  /\ \A n \in DOMAIN inf : inf[n] = <<0, 0>> \/ (inf[n][1] \in 1..(n - 1) /\ inf[n][2] \in 1..(n - 1))

(* The events that there have been. *)
Logged == UNION {{<<u, i>> : i \in DOMAIN lines[u]} : u \in Threads}

LinesCounted == IsFiniteSet(Logged) /\ Cardinality(Logged) <= MaxEvents

Labels == 0..Len(info)
KnownValues == [label : Labels, deps : SUBSET Logged]
KnownCalls ==
  {Idle}
    \cup [op : {"load"}, cell : Cells, torn : BOOLEAN]
    \cup [op : {"store"}, cell : Cells, value : KnownValues, address : KnownValues]

(* The reads a thread has pending, without their lives and slots. *)
Reads(t) == {<<pending[t][i].event, pending[t][i].label>> : i \in Taken(pending[t])}

LabelsOK ==
  /\ IsInfo(info)
  /\ shadow \in [Cells -> Labels]
  /\ source \in [Cells -> SUBSET Logged]
  /\ reg \in [Threads -> KnownValues]
  /\ call \in [Threads -> KnownCalls]
  /\ unused \in [Threads -> Seq(1..Len(info))]
  /\ \A t \in Threads : \A r \in Reads(t) : r[2] \in 1..Len(info)
  /\ \A t \in Threads : call[t].op = "load" => Len(lines[t]) # 0
  /\ pds \subseteq Threads \X Nat \X Nat


In(x, s) == \E k \in DOMAIN s : s[k] = x

LEMMA AppendIn ==
  ASSUME NEW L, NEW s \in Seq(L), NEW e \in L
  PROVE  /\ Append(s, e) \in Seq(L)
         /\ In(e, Append(s, e))
         /\ \A x : In(x, s) => In(x, Append(s, e))
<1> DEFINE q == Append(s, e)
           n == Len(s) + 1
<1>1. q \in Seq(L) /\ n \in DOMAIN q /\ q[n] = e
  OBVIOUS
<1>2. \A k \in DOMAIN s : k \in DOMAIN q /\ q[k] = s[k]
  OBVIOUS
<1> HIDE DEF q, n
<1>3. q \in Seq(L) /\ In(e, q) /\ \A x : In(x, s) => In(x, q)
  BY <1>1, <1>2 DEF In
<1> QED BY <1>3 DEF q

(* What remove_pending_read puts back is there to be used again, and what  *)
(* was there stays.                                                        *)
LEMMA ReturnedKeeps ==
  ASSUME NEW L, NEW labels \in Seq(L), NEW p, NEW S \in SUBSET Slots, \A i \in S : p[i].label \in L
  PROVE  /\ Returned(labels, p, S) \in Seq(L)
         /\ \A x : In(x, labels) => In(x, Returned(labels, p, S))
         /\ \A i \in S : In(p[i].label, Returned(labels, p, S))
<1>1. PICK f : IsReturned(f, Capacity, labels, p, S) /\ Returned(labels, p, S) = f[Capacity]
  BY ReturnedIs
<1>2. \A i \in 0..Capacity : f[i] = IF i = 0 THEN labels
                                    ELSE IF i \in S THEN Append(f[i - 1], p[i].label) ELSE f[i - 1]
  BY <1>1 DEF IsReturned
<1> DEFINE Good(n) == /\ f[n] \in Seq(L)
                      /\ \A x : In(x, labels) => In(x, f[n])
                      /\ \A i \in S : i <= n => In(p[i].label, f[n])
           Bad == {n \in 0..Capacity : ~ Good(n)}
<1>3. Bad = {}
  <2> SUFFICES ASSUME Bad # {} PROVE FALSE
    OBVIOUS
  <2>1. PICK n \in Bad : \A k \in Bad : n <= k
    <3>1. Bad \subseteq Nat
      OBVIOUS
    <3> HIDE DEF Bad
    <3> QED BY <3>1, NatMin
  <2>2. n \in 0..Capacity /\ n \in Nat /\ ~ Good(n)
    OBVIOUS
  <2>3. n # 0
    <3> SUFFICES ASSUME n = 0 PROVE Good(n)
      BY <2>2
    <3>1. f[n] = labels
      BY <1>2, <2>2
    <3>2. \A i \in S : ~ (i <= n)
      BY DEF Slots
    <3> QED BY <3>1, <3>2
  <2>4. n - 1 \in 0..Capacity /\ n - 1 \notin Bad
    BY <2>1, <2>2, <2>3
  <2>5. Good(n - 1)
    BY <2>4
  <2>6. \A i \in S : i <= n => i = n \/ i <= n - 1
    BY <2>2 DEF Slots
  <2>7. CASE n \in S
    <3> DEFINE e == p[n].label
               s == f[n - 1]
    <3>1. f[n] = Append(s, e) /\ e \in L /\ s \in Seq(L)
      BY <1>2, <2>2, <2>3, <2>5, <2>7
    <3>2. /\ \A x : In(x, labels) => In(x, s)
          /\ \A i \in S : i <= n - 1 => In(p[i].label, s)
      BY <2>5
    <3> HIDE DEF s
    <3>3. /\ Append(s, e) \in Seq(L) /\ In(e, Append(s, e)) /\ \A x : In(x, s) => In(x, Append(s, e))
      <4> HIDE DEF e
      <4> QED BY <3>1, AppendIn
    <3>4. Good(n)
      BY <2>6, <3>1, <3>2, <3>3, Zenon
    <3> QED BY <2>2, <3>4, Zenon
  <2>8. CASE n \notin S
    <3>1. f[n] = f[n - 1]
      BY <1>2, <2>2, <2>3, <2>8
    <3>2. \A i \in S : i <= n => i <= n - 1
      BY <2>6, <2>8
    <3>3. Good(n)
      BY <2>5, <3>1, <3>2
    <3> QED BY <2>2, <3>3
  <2> QED BY <2>7, <2>8
<1>4. Good(Capacity)
  BY <1>3
<1>5. \A i \in S : i <= Capacity
  BY DEF Slots
<1> QED BY <1>1, <1>4, <1>5
--------------------------------------------------------------------------------

HasIn(inf, l, e) ==
  LET has[k \in 0..l] ==
        \/ k = e
        \/ k # 0 /\ inf[k][1] # 0 /\ (has[inf[k][1]] \/ has[inf[k][2]])
  IN  has[l]

IsHas(f, inf, l, e) ==
  f = [k \in 0..l |-> \/ k = e
                      \/ k # 0 /\ inf[k][1] # 0 /\ (f[inf[k][1]] \/ f[inf[k][2]])]

(* What it says at each label, as a set. *)
Holds(f, inf, k, e) ==
  f[k] <=> \/ k = e
           \/ k # 0 /\ inf[k][1] # 0 /\ (f[inf[k][1]] \/ f[inf[k][2]])

LEMMA IsHasMeans ==
  ASSUME NEW f, NEW inf, NEW l \in Nat, NEW e
  PROVE  IsHas(f, inf, l, e) <=> /\ f \in [0..l -> BOOLEAN]
                                 /\ \A k \in 0..l : Holds(f, inf, k, e)
BY DEF IsHas, Holds

LEMMA PartsAreLower ==
  ASSUME NEW inf, IsInfo(inf), NEW k \in 1..Len(inf), inf[k][1] # 0
  PROVE  inf[k][1] \in 1..(k - 1) /\ inf[k][2] \in 1..(k - 1)
<1>1. DOMAIN inf = 1..Len(inf)
  BY DEF IsInfo
<1>2. inf[k] # <<0, 0>>
  OBVIOUS
<1> QED BY <1>1, <1>2 DEF IsInfo

LEMMA HasUnique ==
  ASSUME NEW inf, IsInfo(inf), NEW l \in 0..Len(inf), NEW m \in 0..Len(inf), NEW e, l <= m,
         NEW f, NEW g, IsHas(f, inf, l, e), IsHas(g, inf, m, e)
  PROVE  \A k \in 0..l : f[k] = g[k]
<1>0. Len(inf) \in Nat /\ l \in Nat /\ m \in Nat
  BY DEF IsInfo
<1>1. /\ f \in [0..l -> BOOLEAN] /\ \A k \in 0..l : Holds(f, inf, k, e)
      /\ g \in [0..m -> BOOLEAN] /\ \A k \in 0..m : Holds(g, inf, k, e)
  BY <1>0, IsHasMeans
<1> DEFINE Bad == {k \in 0..l : f[k] # g[k]}
<1> SUFFICES ASSUME Bad # {} PROVE FALSE
  OBVIOUS
<1>2. PICK n \in Bad : \A k \in Bad : n <= k
  <2>1. Bad \subseteq Nat
    BY <1>0
  <2> HIDE DEF Bad
  <2> QED BY <2>1, NatMin
<1>3. n \in 0..l /\ n \in 0..m /\ f[n] # g[n]
  BY <1>0
<1>4. \A k \in 0..l : k < n => f[k] = g[k]
  BY <1>0, <1>2
<1>5. n # 0 /\ inf[n][1] # 0 => f[inf[n][1]] = g[inf[n][1]] /\ f[inf[n][2]] = g[inf[n][2]]
  <2> SUFFICES ASSUME n # 0, inf[n][1] # 0
               PROVE  f[inf[n][1]] = g[inf[n][1]] /\ f[inf[n][2]] = g[inf[n][2]]
    OBVIOUS
  <2>1. n \in 1..Len(inf)
    BY <1>0, <1>3
  <2>2. inf[n][1] \in 1..(n - 1) /\ inf[n][2] \in 1..(n - 1)
    BY <2>1, PartsAreLower
  <2>3. ASSUME NEW k \in 1..(n - 1) PROVE f[k] = g[k]
    BY <1>0, <1>3, <1>4
  <2> QED BY <2>2, <2>3
<1>6. f[n] <=> g[n]
  BY <1>1, <1>3, <1>5 DEF Holds
<1>7. f[n] \in BOOLEAN /\ g[n] \in BOOLEAN
  BY <1>1, <1>3
<1> QED BY <1>3, <1>6, <1>7

LEMMA HasExists ==
  ASSUME NEW inf, IsInfo(inf), NEW l \in 0..Len(inf), NEW e
  PROVE  \E f : IsHas(f, inf, l, e)
<1>0. Len(inf) \in Nat
  BY DEF IsInfo
<1> DEFINE Bad == {n \in 0..Len(inf) : ~ \E f : IsHas(f, inf, n, e)}
<1> SUFFICES ASSUME Bad # {} PROVE FALSE
  OBVIOUS
<1>1. PICK n \in Bad : \A k \in Bad : n <= k
  <2>1. Bad \subseteq Nat
    BY <1>0
  <2> HIDE DEF Bad
  <2> QED BY <2>1, NatMin
<1>2. n \in 0..Len(inf) /\ n \in Nat /\ ~ \E f : IsHas(f, inf, n, e)
  BY <1>0
<1>3. n # 0
  <2> SUFFICES ASSUME n = 0 PROVE FALSE
    OBVIOUS
  <2> DEFINE b == 0 = e
             f == [k \in 0..0 |-> b]
  <2>0. \A k \in 0..0 : k = 0
    OBVIOUS
  <2>1. f \in [0..0 -> BOOLEAN] /\ f[0] = b
    <3>1. b \in BOOLEAN
      OBVIOUS
    <3> HIDE DEF b
    <3> QED BY <3>1
  <2> HIDE DEF f
  <2>2. \A k \in 0..0 : Holds(f, inf, k, e)
    BY <2>0, <2>1, Zenon DEF Holds, b
  <2>3. IsHas(f, inf, 0, e)
    BY <2>1, <2>2, IsHasMeans
  <2> QED BY <1>2, <2>3
<1>4. n - 1 \in 0..Len(inf) /\ n - 1 \in Nat /\ n - 1 \notin Bad
  BY <1>0, <1>1, <1>2, <1>3
<1>5. PICK f : IsHas(f, inf, n - 1, e)
  BY <1>4
<1>6. f \in [0..(n - 1) -> BOOLEAN] /\ \A k \in 0..(n - 1) : Holds(f, inf, k, e)
  BY <1>4, <1>5, IsHasMeans
<1> DEFINE top == n = e \/ (inf[n][1] # 0 /\ (f[inf[n][1]] \/ f[inf[n][2]]))
           g == [k \in 0..n |-> IF k = n THEN top ELSE f[k]]
<1>7. top \in BOOLEAN
  OBVIOUS
<1> HIDE DEF top
<1>8. g \in [0..n -> BOOLEAN]
  <2>1. \A k \in 0..n : k # n => f[k] \in BOOLEAN
    BY <1>2, <1>6
  <2> QED BY <2>1, <1>7
<1>9. g[n] = top /\ \A k \in 0..(n - 1) : g[k] = f[k]
  BY <1>2
<1> HIDE DEF g
<1>10. ASSUME NEW k \in 0..n PROVE Holds(g, inf, k, e)
  <2>1. k # 0 /\ inf[k][1] # 0 => g[inf[k][1]] = f[inf[k][1]] /\ g[inf[k][2]] = f[inf[k][2]]
    <3> SUFFICES ASSUME k # 0, inf[k][1] # 0
                 PROVE  g[inf[k][1]] = f[inf[k][1]] /\ g[inf[k][2]] = f[inf[k][2]]
      OBVIOUS
    <3>1. k \in 1..Len(inf)
      BY <1>0, <1>2
    <3>2. inf[k][1] \in 1..(k - 1) /\ inf[k][2] \in 1..(k - 1)
      BY <3>1, PartsAreLower
    <3>3. ASSUME NEW i \in 1..(k - 1) PROVE g[i] = f[i]
      BY <1>2, <1>9
    <3> QED BY <3>2, <3>3
  <2>2. CASE k = n
    BY <1>3, <1>9, <2>1, <2>2 DEF Holds, top
  <2>3. CASE k # n
    <3>1. k \in 0..(n - 1)
      BY <1>2, <2>3
    <3>2. Holds(f, inf, k, e) /\ g[k] = f[k]
      BY <1>6, <1>9, <3>1
    <3> QED BY <2>1, <3>2 DEF Holds
  <2> QED BY <2>2, <2>3
<1>11. IsHas(g, inf, n, e)
  BY <1>2, <1>8, <1>10, IsHasMeans
<1> QED BY <1>2, <1>11

LEMMA HasInIs ==
  ASSUME NEW inf, IsInfo(inf), NEW l \in 0..Len(inf), NEW e
  PROVE  \E f : IsHas(f, inf, l, e) /\ HasIn(inf, l, e) = f[l]
<1> DEFINE f == CHOOSE g : IsHas(g, inf, l, e)
<1>1. IsHas(f, inf, l, e)
  BY HasExists
<1>2. HasIn(inf, l, e) = f[l]
  BY DEF HasIn, IsHas
<1> HIDE DEF f
<1> QED BY <1>1, <1>2

(* has_label, one step at a time. *)
LEMMA HasStep ==
  ASSUME NEW inf, IsInfo(inf), NEW l \in 0..Len(inf), NEW e
  PROVE  HasIn(inf, l, e) <=> \/ l = e
                              \/ /\ l # 0 /\ inf[l][1] # 0
                                 /\ HasIn(inf, inf[l][1], e) \/ HasIn(inf, inf[l][2], e)
<1>0. Len(inf) \in Nat /\ l \in Nat /\ l \in 0..l
  BY DEF IsInfo
<1>1. PICK f : IsHas(f, inf, l, e) /\ HasIn(inf, l, e) = f[l]
  BY HasInIs
<1>2. Holds(f, inf, l, e)
  BY <1>0, <1>1, IsHasMeans
<1>3. ASSUME NEW k \in 0..l PROVE HasIn(inf, k, e) = f[k]
  <2>1. k \in 0..Len(inf) /\ k <= l /\ k \in 0..k
    BY <1>0
  <2>2. PICK g : IsHas(g, inf, k, e) /\ HasIn(inf, k, e) = g[k]
    BY <2>1, HasInIs
  <2>3. \A i \in 0..k : g[i] = f[i]
    BY <1>1, <2>1, <2>2, HasUnique
  <2> QED BY <2>1, <2>2, <2>3
<1>4. l # 0 /\ inf[l][1] # 0 => inf[l][1] \in 0..l /\ inf[l][2] \in 0..l
  <2> SUFFICES ASSUME l # 0, inf[l][1] # 0 PROVE inf[l][1] \in 0..l /\ inf[l][2] \in 0..l
    OBVIOUS
  <2>1. l \in 1..Len(inf)
    BY <1>0
  <2>2. inf[l][1] \in 1..(l - 1) /\ inf[l][2] \in 1..(l - 1)
    BY <2>1, PartsAreLower
  <2>3. \A k \in 1..(l - 1) : k \in 0..l
    BY <1>0
  <2> QED BY <2>2, <2>3
<1> QED BY <1>1, <1>2, <1>3, <1>4 DEF Holds

(* New labels change nothing for the old ones. *)
LEMMA HasStays ==
  ASSUME NEW inf, IsInfo(inf), NEW more, IsInfo(more), Len(inf) <= Len(more),
         \A n \in DOMAIN inf : more[n] = inf[n],
         NEW l \in 0..Len(inf), NEW e
  PROVE  HasIn(more, l, e) = HasIn(inf, l, e)
<1>0. Len(inf) \in Nat /\ Len(more) \in Nat /\ DOMAIN inf = 1..Len(inf) /\ l \in 0..Len(more) /\ l \in Nat
  BY DEF IsInfo
<1>1. PICK f : IsHas(f, inf, l, e) /\ HasIn(inf, l, e) = f[l]
  BY HasInIs
<1>2. PICK g : IsHas(g, more, l, e) /\ HasIn(more, l, e) = g[l]
  BY <1>0, HasInIs
<1>3. f \in [0..l -> BOOLEAN] /\ \A k \in 0..l : Holds(f, inf, k, e)
  BY <1>0, <1>1, IsHasMeans
<1>4. ASSUME NEW k \in 0..l PROVE Holds(f, more, k, e)
  <2>1. k # 0 => more[k] = inf[k]
    BY <1>0
  <2> QED BY <1>3, <2>1 DEF Holds
<1>5. IsHas(f, more, l, e)
  BY <1>0, <1>3, <1>4, IsHasMeans
<1>6. l <= l /\ l \in 0..l
  BY <1>0
<1>7. \A k \in 0..l : f[k] = g[k]
  BY <1>0, <1>2, <1>5, <1>6, HasUnique
<1> QED BY <1>1, <1>2, <1>6, <1>7

(* More labels: the old ones as they were, and no new one without parts. *)
IsExtended(inf, more) ==
  /\ IsInfo(more) /\ Len(inf) <= Len(more)
  /\ \A n \in DOMAIN inf : n \in DOMAIN more /\ more[n] = inf[n]

LEMMA IsExtendedRefl == ASSUME NEW inf, IsInfo(inf) PROVE IsExtended(inf, inf)
BY DEF IsExtended, IsInfo

LEMMA AppendedInfo ==
  ASSUME NEW inf, IsInfo(inf), NEW a, NEW b, Len(inf) + 1 <= MaxLabels,
         \/ a = 0 /\ b = 0
         \/ a \in 1..Len(inf) /\ b \in 1..Len(inf)
  PROVE  LET more == Append(inf, <<a, b>>)
         IN  /\ IsExtended(inf, more) /\ Len(more) = Len(inf) + 1
             /\ DOMAIN more = DOMAIN inf \cup {Len(inf) + 1}
             /\ Len(inf) + 1 \in DOMAIN more
             /\ more[Len(inf) + 1] = <<a, b>>
<1> DEFINE e == <<a, b>>
           more == Append(inf, e)
           M == (0..MaxLabels) \X (0..MaxLabels)
<1>1. inf \in Seq(M) /\ Len(inf) \in Nat /\ DOMAIN inf = 1..Len(inf)
  BY DEF IsInfo
<1>2. a \in 0..MaxLabels /\ b \in 0..MaxLabels
  BY <1>1
<1>3. e \in M /\ e[1] = a /\ e[2] = b
  BY <1>2
<1> HIDE DEF M
<1>4. /\ more \in Seq(M) /\ Len(more) = Len(inf) + 1
      /\ DOMAIN more = 1..(Len(inf) + 1)
      /\ more[Len(inf) + 1] = e
      /\ \A n \in 1..Len(inf) : more[n] = inf[n]
  <2> HIDE DEF e
  <2> QED BY <1>1, <1>3
<1> HIDE DEF more
<1>5. ASSUME NEW n \in DOMAIN more
      PROVE  more[n] = <<0, 0>> \/ (more[n][1] \in 1..(n - 1) /\ more[n][2] \in 1..(n - 1))
  <2>1. CASE n = Len(inf) + 1
    <3>1. n - 1 = Len(inf)
      BY <1>1, <2>1
    <3> QED BY <1>3, <1>4, <2>1, <3>1
  <2>2. CASE n # Len(inf) + 1
    <3>1. n \in DOMAIN inf /\ more[n] = inf[n]
      BY <1>1, <1>4, <2>2
    <3> QED BY <3>1 DEF IsInfo
  <2> QED BY <2>1, <2>2
<1>6. IsInfo(more)
  BY <1>4, <1>5 DEF IsInfo, M
<1>7. /\ Len(inf) <= Len(more) /\ Len(inf) + 1 \in DOMAIN more
      /\ DOMAIN more = DOMAIN inf \cup {Len(inf) + 1}
      /\ \A n \in DOMAIN inf : n \in DOMAIN more /\ more[n] = inf[n]
  BY <1>1, <1>4
<1>8. IsExtended(inf, more)
  BY <1>6, <1>7 DEF IsExtended
<1> QED BY <1>4, <1>7, <1>8 DEF more, e

(* __dfsan_union: the label it returns has all that its arguments have. *)
LEMMA UnionKeeps ==
  ASSUME IsInfo(info), NEW l \in Labels, NEW k \in Labels, Len(Union(l, k).info) <= MaxLabels
  PROVE  /\ IsExtended(info, Union(l, k).info)
         /\ Union(l, k).label \in 0..Len(Union(l, k).info)
         /\ \A n \in DOMAIN Union(l, k).info : Union(l, k).info[n] = <<0, 0>> => n \in DOMAIN info
         /\ \A e : e # 0 /\ (HasIn(Union(l, k).info, l, e) \/ HasIn(Union(l, k).info, k, e))
                     => HasIn(Union(l, k).info, Union(l, k).label, e)
<1>0. Len(info) \in Nat /\ DOMAIN info = 1..Len(info) /\ l \in Nat /\ k \in Nat
  BY DEF IsInfo, Labels
<1>1. PICK a, b \in Labels : <<a, b>> = (IF l < k THEN <<l, k>> ELSE <<k, l>>) /\ {a, b} = {l, k} /\ a <= b
  <2>1. CASE l < k
    BY <1>0, <2>1
  <2>2. CASE ~ (l < k)
    BY <1>0, <2>2
  <2> QED BY <2>1, <2>2
<1>2. a \in Nat /\ b \in Nat /\ (l = k => a = b) /\ (l # k => a < b)
  BY <1>0, <1>1
<1> DEFINE known == {n \in DOMAIN info : info[n] = <<a, b>>}
           old == CHOOSE n \in known : TRUE
           more == Append(info, <<a, b>>)
<1>3. Union(l, k) =
        IF l = k \/ a = 0 THEN [label |-> b, info |-> info]
        ELSE IF a \in {info[b][1], info[b][2]} THEN [label |-> b, info |-> info]
        ELSE IF known # {} THEN [label |-> old, info |-> info]
        ELSE [label |-> Len(info) + 1, info |-> more]
  <2>1. <<a, b>>[1] = a /\ <<a, b>>[2] = b
    OBVIOUS
  <2> QED BY <1>1, <2>1, Zenon DEF Union
<1>4. ASSUME NEW x, NEW inf, Union(l, k) = [label |-> x, info |-> inf]
      PROVE  Union(l, k).label = x /\ Union(l, k).info = inf
  BY <1>4
<1> DEFINE Goal(x, inf) ==
             /\ IsExtended(info, inf) /\ x \in 0..Len(inf)
             /\ \A n \in DOMAIN inf : inf[n] = <<0, 0>> => n \in DOMAIN info
             /\ \A e : e # 0 /\ (HasIn(inf, a, e) \/ HasIn(inf, b, e)) => HasIn(inf, x, e)
<1>5. SUFFICES Goal(Union(l, k).label, Union(l, k).info)
  <2>1. (l = a /\ k = b) \/ (l = b /\ k = a)
    BY <1>1
  <2> QED BY <2>1
<1>6. CASE l = k \/ a = 0
  <2>1. Union(l, k).label = b /\ Union(l, k).info = info
    BY <1>3, <1>4, <1>6, Zenon
  <2>2. \A e : e # 0 /\ HasIn(info, a, e) => HasIn(info, b, e)
    <3>1. CASE a = b
      BY <3>1
    <3>2. CASE a = 0
      <4>1. \A e : HasIn(info, a, e) => e = 0
        BY <3>2, HasStep DEF Labels
      <4> QED BY <4>1
    <3> QED BY <1>2, <1>6, <3>1, <3>2
  <2>3. Goal(b, info)
    BY <2>2, IsExtendedRefl DEF Labels
  <2> QED BY <2>1, <2>3, Zenon
<1>7. CASE ~ (l = k \/ a = 0) /\ a \in {info[b][1], info[b][2]}
  <2>1. Union(l, k).label = b /\ Union(l, k).info = info
    BY <1>3, <1>4, <1>7, Zenon
  <2>2. b \in 1..Len(info) /\ a # 0 /\ b # 0
    BY <1>0, <1>2, <1>7 DEF Labels
  <2>3. info[b][1] # 0
    <3>1. <<0, 0>>[1] = 0 /\ <<0, 0>>[2] = 0
      OBVIOUS
    <3>2. info[b] # <<0, 0>>
      BY <1>7, <2>2, <3>1, Zenon
    <3>3. info[b][1] \in 1..(b - 1)
      BY <1>0, <2>2, <3>2 DEF IsInfo
    <3> QED BY <3>3
  <2>4. \A e : HasIn(info, a, e) => HasIn(info, b, e)
    BY <1>7, <2>2, <2>3, HasStep DEF Labels
  <2>5. Goal(b, info)
    BY <2>4, IsExtendedRefl DEF Labels
  <2> QED BY <2>1, <2>5, Zenon
<1>8. CASE ~ (l = k \/ a = 0) /\ a \notin {info[b][1], info[b][2]} /\ known # {}
  <2>1. Union(l, k).label = old /\ Union(l, k).info = info
    BY <1>3, <1>4, <1>8, Zenon
  <2>2. old \in known
    BY <1>8, Zenon
  <2> HIDE DEF old
  <2>3. old \in DOMAIN info /\ info[old] = <<a, b>>
    BY <2>2
  <2>4. old \in 0..Len(info) /\ old # 0 /\ info[old][1] = a /\ info[old][2] = b
    BY <1>0, <2>3
  <2>5. \A e : HasIn(info, a, e) \/ HasIn(info, b, e) => HasIn(info, old, e)
    BY <1>8, <2>4, HasStep
  <2>6. Goal(old, info)
    BY <2>4, <2>5, IsExtendedRefl
  <2> QED BY <2>1, <2>6, Zenon
<1>9. CASE ~ (l = k \/ a = 0) /\ a \notin {info[b][1], info[b][2]} /\ known = {}
  <2> DEFINE n == Len(info) + 1
  <2>1. Union(l, k).label = n /\ Union(l, k).info = more
    BY <1>3, <1>4, <1>9, Zenon
  <2>2. a \in 1..Len(info) /\ b \in 1..Len(info)
    BY <1>0, <1>2, <1>9 DEF Labels
  <2>3. Len(info) + 1 <= MaxLabels
    <3>1. Len(more) = Len(info) + 1
      BY DEF IsInfo
    <3> QED BY <2>1, <3>1
  <2>4. /\ IsExtended(info, more) /\ Len(more) = n /\ DOMAIN more = DOMAIN info \cup {n}
        /\ more[n] = <<a, b>>
    BY <2>2, <2>3, AppendedInfo
  <2>5. n \in 0..Len(more) /\ n # 0 /\ more[n][1] = a /\ more[n][2] = b /\ more[n] # <<0, 0>>
    BY <1>0, <1>9, <2>4
  <2> HIDE DEF more, n
  <2>6. \A e : HasIn(more, a, e) \/ HasIn(more, b, e) => HasIn(more, n, e)
    BY <1>9, <2>4, <2>5, HasStep DEF IsExtended
  <2>7. \A i \in DOMAIN more : more[i] = <<0, 0>> => i \in DOMAIN info
    BY <2>4, <2>5
  <2>8. Goal(n, more)
    BY <2>4, <2>5, <2>6, <2>7
  <2> QED BY <2>1, <2>8, Zenon DEF more, n
<1> QED BY <1>6, <1>7, <1>8, <1>9
--------------------------------------------------------------------------------

(* Has is HasIn of the labels there are, now and in the next state. *)
LEMMA HasIsHasIn == \A l, e : Has(l, e) = HasIn(info, l, e) /\ Has(l, e)' = HasIn(info', l, e)
BY DEF Has, HasIn

(* What the hooks do to the reads of a thread and to its unused labels.  A *)
(* label of a thread is that of a pending read or is unused.               *)
Owns(t, n) == (\E r \in Reads(t) : r[2] = n) \/ In(n, unused[t])

LEMMA NoLabelIsLostMeans ==
  NoLabelIsLost <=> \A n \in DOMAIN info : info[n] = <<0, 0>> => \E t \in Threads : Owns(t, n)
<1>1. ASSUME NEW t \in Threads, NEW n
      PROVE  Owns(t, n) <=> \/ \E i \in Taken(pending[t]) : pending[t][i].label = n
                            \/ \E k \in DOMAIN unused[t] : unused[t][k] = n
  <2>1. ASSUME NEW r \in Reads(t), r[2] = n PROVE \E i \in Taken(pending[t]) : pending[t][i].label = n
    <3>1. PICK i \in Taken(pending[t]) : r = <<pending[t][i].event, pending[t][i].label>>
      BY DEF Reads
    <3> QED BY <2>1, <3>1
  <2>2. ASSUME NEW i \in Taken(pending[t]), pending[t][i].label = n PROVE \E r \in Reads(t) : r[2] = n
    <3>1. <<pending[t][i].event, pending[t][i].label>> \in Reads(t)
      BY DEF Reads
    <3> QED BY <2>2, <3>1
  <2> QED BY <2>1, <2>2 DEF Owns, In
<1> QED BY <1>1 DEF NoLabelIsLost

(* df_process_write. *)
LEMMA ProcessWriteKeeps ==
  ASSUME PendingInv, LabelsOK, NEW t \in Threads, NEW c, NEW a, ProcessWrite(t, c, a)
  PROVE  /\ Reads(t)' \subseteq Reads(t)
         /\ \A u \in Threads \ {t} : Reads(u)' = Reads(u) /\ unused'[u] = unused[u]
         /\ unused' \in [Threads -> Seq(1..Len(info))]
         /\ \A u \in Threads : \A n : Owns(u, n) => Owns(u, n)'
<1> DEFINE S == {i \in Taken(pending[t]) : IsReported(pending[t][i], c, shadow[c], a.label)}
           back == Returned(unused[t], pending[t], S)
<1>1. /\ pending' = [pending EXCEPT ![t] = [i \in Slots |-> IF i \in S THEN NoRead ELSE pending[t][i]]]
      /\ unused' = [unused EXCEPT ![t] = back]
  BY DEF ProcessWrite
<1>2. S \in SUBSET Slots /\ S \subseteq Taken(pending[t])
  BY DEF Taken
<1>3. \A i \in S : pending[t][i].label \in 1..Len(info)
  <2> SUFFICES ASSUME NEW i \in S PROVE pending[t][i].label \in 1..Len(info)
    OBVIOUS
  <2>1. <<pending[t][i].event, pending[t][i].label>> \in Reads(t)
    BY <1>2 DEF Reads
  <2> QED BY <2>1 DEF LabelsOK
<1>4. unused[t] \in Seq(1..Len(info))
  BY DEF LabelsOK
<1> HIDE DEF S
<1>5. /\ back \in Seq(1..Len(info))
      /\ \A x : In(x, unused[t]) => In(x, back)
      /\ \A i \in S : In(pending[t][i].label, back)
  BY <1>2, <1>3, <1>4, ReturnedKeeps
<1> HIDE DEF back
<1>6. /\ pending'[t] = [i \in Slots |-> IF i \in S THEN NoRead ELSE pending[t][i]]
      /\ \A u \in Threads \ {t} : pending'[u] = pending[u] /\ unused'[u] = unused[u]
      /\ unused'[t] = back /\ unused' \in [Threads -> Seq(1..Len(info))]
  BY <1>1, <1>5 DEF PendingInv, LogOK, LabelsOK
<1>7. Taken(pending'[t]) = Taken(pending[t]) \ S
  BY <1>6 DEF Taken
<1>8. \A i \in Taken(pending[t]) \ S : pending'[t][i] = pending[t][i]
  BY <1>6 DEF Taken
<1>9. Reads(t)' \subseteq Reads(t)
  BY <1>7, <1>8 DEF Reads
<1>10. \A u \in Threads \ {t} : Reads(u)' = Reads(u)
  BY <1>6 DEF Reads
<1>11. ASSUME NEW u \in Threads, NEW n, Owns(u, n) PROVE Owns(u, n)'
  <2>1. CASE u # t
    BY <1>6, <1>10, <1>11, <2>1 DEF Owns
  <2>2. CASE u = t /\ In(n, unused[t])
    BY <1>5, <1>6, <2>2 DEF Owns
  <2>3. ASSUME u = t, NEW i \in Taken(pending[t]), pending[t][i].label = n PROVE Owns(u, n)'
    <3>1. CASE i \in S
      BY <1>5, <1>6, <2>3, <3>1 DEF Owns
    <3>2. CASE i \notin S
      <4>1. <<pending'[t][i].event, pending'[t][i].label>> \in Reads(t)'
        BY <1>7, <3>2 DEF Reads
      <4>2. pending'[t][i].label = n
        BY <1>8, <2>3, <3>2
      <4> QED BY <2>3, <4>1, <4>2 DEF Owns
    <3> QED BY <3>1, <3>2
  <2>4. ASSUME u = t, NEW r \in Reads(t), r[2] = n PROVE Owns(u, n)'
    BY <2>3, <2>4 DEF Reads
  <2> QED BY <1>11, <2>1, <2>2, <2>4 DEF Owns
<1> QED BY <1>6, <1>9, <1>10, <1>11

(* The label df_mark_read gives to a read. *)
LEMMA ReadLabelKeeps ==
  ASSUME LabelsOK, NEW t \in Threads, NEW c \in Cells, Len(ReadLabel(t, c).info) <= MaxLabels
  PROVE  /\ IsExtended(info, ReadLabel(t, c).info)
         /\ ReadLabel(t, c).label \in 1..Len(ReadLabel(t, c).info)
         /\ ReadLabel(t, c).unused \in Seq(1..Len(info))
         /\ \A n : In(n, unused[t]) => n = ReadLabel(t, c).label \/ In(n, ReadLabel(t, c).unused)
         /\ \A n \in DOMAIN ReadLabel(t, c).info : n \in DOMAIN info \/ n = ReadLabel(t, c).label
         /\ shadow[c] # 0 => ReadLabel(t, c).label = shadow[c]
<1>0. /\ IsInfo(info) /\ Len(info) \in Nat /\ DOMAIN info = 1..Len(info)
      /\ shadow[c] \in 0..Len(info) /\ unused[t] \in Seq(1..Len(info))
  BY DEF LabelsOK, Labels, IsInfo
<1> DEFINE Goal(x, inf, u) ==
             /\ IsExtended(info, inf) /\ x \in 1..Len(inf) /\ u \in Seq(1..Len(info))
             /\ \A n : In(n, unused[t]) => n = x \/ In(n, u)
             /\ \A n \in DOMAIN inf : n \in DOMAIN info \/ n = x
             /\ shadow[c] # 0 => x = shadow[c]
<1>1. ASSUME NEW x, NEW inf, NEW u, ReadLabel(t, c) = [label |-> x, info |-> inf, unused |-> u], Goal(x, inf, u)
      PROVE  Goal(ReadLabel(t, c).label, ReadLabel(t, c).info, ReadLabel(t, c).unused)
  <2>1. ReadLabel(t, c).label = x /\ ReadLabel(t, c).info = inf /\ ReadLabel(t, c).unused = u
    BY <1>1
  <2> QED BY <1>1, <2>1, Zenon
<1>2. CASE shadow[c] # 0
  <2>1. ReadLabel(t, c) = [label |-> shadow[c], info |-> info, unused |-> unused[t]]
    BY <1>2 DEF ReadLabel
  <2>2. shadow[c] \in 1..Len(info)
    BY <1>0, <1>2
  <2>3. Goal(shadow[c], info, unused[t])
    BY <1>0, <2>2, IsExtendedRefl
  <2> QED BY <1>1, <2>1, <2>3
<1>3. CASE shadow[c] = 0 /\ unused[t] = <<>>
  <2> DEFINE x == Len(info) + 1
             more == Append(info, <<0, 0>>)
  <2>1. ReadLabel(t, c) = [label |-> x, info |-> more, unused |-> <<>>]
    BY <1>3 DEF ReadLabel, NewLabel
  <2>2. ReadLabel(t, c).info = more
    BY <2>1
  <2>3. Len(info) + 1 <= MaxLabels
    <3>1. Len(more) = Len(info) + 1
      BY <1>0 DEF IsInfo
    <3> QED BY <2>2, <3>1
  <2>4. IsExtended(info, more) /\ Len(more) = x /\ DOMAIN more = DOMAIN info \cup {x}
    BY <1>0, <2>3, AppendedInfo
  <2>5. x \in 1..Len(more) /\ <<>> \in Seq(1..Len(info))
    BY <1>0, <2>4
  <2>6. \A n : ~ In(n, unused[t])
    BY <1>3 DEF In
  <2> HIDE DEF x, more
  <2>7. Goal(x, more, <<>>)
    BY <1>3, <2>4, <2>5, <2>6
  <2> QED BY <1>1, <2>1, <2>7
<1>4. CASE shadow[c] = 0 /\ unused[t] # <<>>
  <2> DEFINE s == unused[t]
             x == s[Len(s)]
             rest == SubSeq(s, 1, Len(s) - 1)
  <2>1. ReadLabel(t, c) = [label |-> x, info |-> info, unused |-> rest]
    BY <1>4 DEF ReadLabel, NewLabel
  <2>2. s \in Seq(1..Len(info)) /\ s # <<>>
    BY <1>0, <1>4
  <2>3. Len(s) \in DOMAIN s /\ x \in 1..Len(info)
    <3> HIDE DEF s
    <3> QED BY <2>2
  <2>4. rest \in Seq(1..Len(info)) /\ \A i \in DOMAIN s : i = Len(s) \/ (i \in DOMAIN rest /\ rest[i] = s[i])
    <3> HIDE DEF s
    <3> QED BY <2>2, SMTT(30)
  <2> HIDE DEF rest
  <2>5. \A n : In(n, s) => n = x \/ In(n, rest)
    BY <2>4 DEF In
  <2> HIDE DEF x
  <2>6. Goal(x, info, rest)
    BY <1>0, <1>4, <2>3, <2>4, <2>5, IsExtendedRefl
  <2> QED BY <1>1, <2>1, <2>6
<1> QED BY <1>2, <1>3, <1>4

(* df_mark_read: the thread's reads are some of those it had, and the new  *)
(* one; the labels of the others can be used again.                        *)
LEMMA MarkReadReads ==
  ASSUME PendingInv, LabelsOK, NEW t \in Threads, NEW c \in Cells, MarkRead(t, c)
  PROVE  LET n == Len(lines[t]) + 1
             l == ReadLabel(t, c).label
         IN  /\ IsExtended(info, info') /\ l \in 1..Len(info')
             /\ info' = ReadLabel(t, c).info
             /\ shadow' = [shadow EXCEPT ![c] = l]
             /\ <<n, l>> \in Reads(t)'
             /\ Reads(t)' \subseteq Reads(t) \cup {<<n, l>>}
             /\ \A u \in Threads \ {t} : Reads(u)' = Reads(u) /\ unused'[u] = unused[u]
             /\ unused' \in [Threads -> Seq(1..Len(info))]
             /\ \A u \in Threads : \A k : Owns(u, k) => Owns(u, k)'
<1> DEFINE n == Len(lines[t]) + 1
           l == ReadLabel(t, c).label
           aged == Aged(pending[t])
           free == Slots \ Taken(aged)
           slot == CHOOSE i \in free : \A j \in free : i <= j
           read == [event |-> n, cell |-> c, label |-> l, life |-> Life]
           gone == Taken(pending[t]) \ Taken(aged)
           back == Returned(ReadLabel(t, c).unused, pending[t], gone)
<1>0. IsTable(pending[t])
  BY DEF PendingInv
<1>1. free # {}
  BY <1>0, AgedTableHasRoom
<1>2. slot \in free
  <2>1. free \subseteq Nat
    BY DEF Slots
  <2> HIDE DEF free
  <2>2. \E i \in free : \A j \in free : i <= j
    BY <1>1, <2>1, NatMin
  <2> QED BY <2>2
<1>3. /\ Len(ReadLabel(t, c).info) <= MaxLabels /\ info' = ReadLabel(t, c).info
      /\ shadow' = [shadow EXCEPT ![c] = l]
      /\ pending' = [pending EXCEPT ![t] = [aged EXCEPT ![slot] = read]]
      /\ unused' = [unused EXCEPT ![t] = back]
  BY <1>1 DEF MarkRead
<1>4. /\ IsExtended(info, info') /\ l \in 1..Len(info')
      /\ ReadLabel(t, c).unused \in Seq(1..Len(info))
      /\ \A k : In(k, unused[t]) => k = l \/ In(k, ReadLabel(t, c).unused)
  BY <1>3, ReadLabelKeeps
<1>5. gone \in SUBSET Slots /\ gone \subseteq Taken(pending[t])
  BY DEF Taken
<1>6. \A i \in gone : pending[t][i].label \in 1..Len(info)
  <2> SUFFICES ASSUME NEW i \in gone PROVE pending[t][i].label \in 1..Len(info)
    OBVIOUS
  <2>1. <<pending[t][i].event, pending[t][i].label>> \in Reads(t)
    BY <1>5 DEF Reads
  <2> QED BY <2>1 DEF LabelsOK
<1> DEFINE kept == ReadLabel(t, c).unused
<1>7. /\ back \in Seq(1..Len(info))
      /\ \A x : In(x, kept) => In(x, back)
      /\ \A i \in gone : In(pending[t][i].label, back)
  <2>1. kept \in Seq(1..Len(info))
    BY <1>4
  <2> HIDE DEF kept, gone
  <2> QED BY <1>5, <1>6, <2>1, ReturnedKeeps DEF kept
<1> HIDE DEF back
<1>8. ASSUME NEW i \in Taken(aged)
      PROVE  /\ i \in Taken(pending[t])
             /\ aged[i].event = pending[t][i].event /\ aged[i].label = pending[t][i].label
  <2>1. i \in Taken(pending[t]) /\ aged[i] = [pending[t][i] EXCEPT !.life = pending[t][i].life - 1]
    BY <1>8 DEF Aged, Taken
  <2>2. IsEntry(pending[t][i])
    BY <1>0, <2>1 DEF IsTable
  <2> DEFINE r == pending[t][i]
  <2>3. r = [event |-> r.event, cell |-> r.cell, label |-> r.label, life |-> r.life]
    BY <2>2 DEF IsEntry
  <2> QED BY <2>1, <2>3
<1>9. read.event = n /\ read.label = l /\ read # NoRead
  <2>1. read.life = Life /\ NoRead.life = 0
    BY DEF NoRead
  <2> QED BY <2>1
<1>10. aged = [i \in Slots |-> aged[i]]
  BY DEF Aged
<1> HIDE DEF read, aged, slot
<1>11. /\ pending'[t] = [aged EXCEPT ![slot] = read]
       /\ \A u \in Threads \ {t} : pending'[u] = pending[u] /\ unused'[u] = unused[u]
       /\ unused'[t] = back /\ unused' \in [Threads -> Seq(1..Len(info))]
  BY <1>3, <1>7 DEF PendingInv, LogOK, LabelsOK
<1>12. /\ pending'[t][slot] = read
       /\ \A i \in Slots : i # slot => pending'[t][i] = aged[i]
  BY <1>2, <1>10, <1>11
<1>13. Taken(pending'[t]) = Taken(aged) \cup {slot} /\ slot \notin Taken(aged)
  BY <1>2, <1>9, <1>12 DEF Taken
<1>14. <<n, l>> \in Reads(t)'
  <2>1. <<pending'[t][slot].event, pending'[t][slot].label>> \in Reads(t)'
    BY <1>13 DEF Reads
  <2> QED BY <1>9, <1>12, <2>1
<1>15. Reads(t)' \subseteq Reads(t) \cup {<<n, l>>}
  <2> SUFFICES ASSUME NEW i \in Taken(pending'[t])
               PROVE  <<pending'[t][i].event, pending'[t][i].label>> \in Reads(t) \cup {<<n, l>>}
    BY DEF Reads
  <2>1. CASE i = slot
    BY <1>9, <1>12, <2>1
  <2>2. CASE i # slot
    <3>1. i \in Taken(aged) /\ i \in Slots
      BY <1>13, <2>2 DEF Taken
    <3>2. i \in Taken(pending[t]) /\ pending'[t][i].event = pending[t][i].event
          /\ pending'[t][i].label = pending[t][i].label
      BY <1>8, <1>12, <2>2, <3>1
    <3> QED BY <3>2 DEF Reads
  <2> QED BY <2>1, <2>2
<1>16. \A u \in Threads \ {t} : Reads(u)' = Reads(u)
  BY <1>11 DEF Reads
<1>17. ASSUME NEW u \in Threads, NEW k, Owns(u, k) PROVE Owns(u, k)'
  <2>1. CASE u # t
    BY <1>11, <1>16, <1>17, <2>1 DEF Owns
  <2>2. CASE u = t /\ In(k, unused[t])
    <3>1. CASE k = l
      <4>1. \E r \in Reads(t)' : r[2] = k
        BY <1>14, <3>1
      <4> QED BY <2>2, <4>1 DEF Owns
    <3>2. CASE In(k, kept)
      BY <1>7, <1>11, <2>2, <3>2 DEF Owns
    <3> QED BY <1>4, <2>2, <3>1, <3>2
  <2>3. ASSUME u = t, NEW i \in Taken(pending[t]), pending[t][i].label = k PROVE Owns(u, k)'
    <3>1. CASE i \in Taken(aged)
      <4>1. <<pending'[t][i].event, pending'[t][i].label>> \in Reads(t)'
        BY <1>13, <3>1 DEF Reads
      <4>2. pending'[t][i].label = k
        BY <1>8, <1>12, <1>13, <2>3, <3>1 DEF Taken
      <4>3. \E r \in Reads(t)' : r[2] = k
        BY <4>1, <4>2
      <4> QED BY <2>3, <4>3 DEF Owns
    <3>2. CASE i \notin Taken(aged)
      <4>1. i \in gone
        BY <2>3, <3>2
      <4> QED BY <1>7, <1>11, <2>3, <4>1 DEF Owns
    <3> QED BY <3>1, <3>2
  <2>4. ASSUME u = t, NEW r \in Reads(t), r[2] = k PROVE Owns(u, k)'
    <3>1. PICK i \in Taken(pending[t]) : r = <<pending[t][i].event, pending[t][i].label>>
      BY DEF Reads
    <3>2. pending[t][i].label = k
      BY <2>4, <3>1
    <3> QED BY <2>3, <2>4, <3>2
  <2> QED BY <1>17, <2>1, <2>2, <2>4 DEF Owns
<1> HIDE DEF l, n
<1> QED BY <1>3, <1>4, <1>11, <1>14, <1>15, <1>16, <1>17 DEF l, n
--------------------------------------------------------------------------------

LEMMA LoggedMeans ==
  ASSUME LogOK
  PROVE  \A u, i : <<u, i>> \in Logged <=> u \in Threads /\ i \in 1..Len(lines[u])
<1>1. \A u \in Threads : DOMAIN lines[u] = 1..Len(lines[u])
  BY DEF LogOK
<1> QED BY <1>1 DEF Logged

LEMMA LogsCounts ==
  ASSUME LogOK, LinesCounted, NEW t \in Threads, NEW kind \in {"READ", "WRITE"}, NEW c \in Cells,
         Logs(t, kind, c)
  PROVE  /\ Logged' = Logged \cup {<<t, Len(lines[t]) + 1>>}
         /\ <<t, Len(lines[t]) + 1>> \notin Logged
         /\ LinesCounted'
<1> DEFINE n == Len(lines[t]) + 1
<1>1. /\ lines' \in [Threads -> Seq(Lines)]
      /\ \A u \in Threads \ {t} : lines'[u] = lines[u]
      /\ Len(lines'[t]) = Len(lines[t]) + 1
  BY LogsOne
<1>2. /\ \A u \in Threads : DOMAIN lines[u] = 1..Len(lines[u]) /\ Len(lines[u]) \in Nat
      /\ \A u \in Threads : DOMAIN lines'[u] = 1..Len(lines'[u])
  BY <1>1 DEF LogOK
<1>3. DOMAIN lines'[t] = DOMAIN lines[t] \cup {n} /\ n \notin DOMAIN lines[t]
  BY <1>1, <1>2
<1>4. Logged' = Logged \cup {<<t, n>>}
  <2>1. ASSUME NEW u \in Threads, NEW i \in DOMAIN lines'[u] PROVE <<u, i>> \in Logged \cup {<<t, n>>}
    BY <1>1, <1>3 DEF Logged
  <2>2. ASSUME NEW u \in Threads, NEW i \in DOMAIN lines[u] PROVE <<u, i>> \in Logged'
    BY <1>1, <1>3 DEF Logged
  <2>3. <<t, n>> \in Logged'
    BY <1>3 DEF Logged
  <2>4. Logged' \subseteq Logged \cup {<<t, n>>}
    BY <2>1 DEF Logged
  <2>5. Logged \subseteq Logged'
    BY <2>2 DEF Logged
  <2> QED BY <2>3, <2>4, <2>5
<1>5. <<t, n>> \notin Logged
  BY <1>3 DEF Logged
<1>6. Cardinality(Logged) < MaxEvents
  BY DEF Logs, Logged
<1> DEFINE e == <<t, n>>
<1>7. IsFiniteSet(Logged') /\ Cardinality(Logged') = Cardinality(Logged) + 1 /\ Cardinality(Logged) \in Nat
  <2>1. Logged' = Logged \cup {e} /\ e \notin Logged
    BY <1>4, <1>5
  <2> HIDE DEF e
  <2> QED BY <2>1, FS_AddElement, FS_CardinalityType DEF LinesCounted
<1>8. LinesCounted'
  BY <1>6, <1>7 DEF LinesCounted
<1> QED BY <1>4, <1>5, <1>8

(* No thread has more lines than there may be. *)
LEMMA LinesBounded ==
  ASSUME LogOK, LinesCounted, NEW t \in Threads
  PROVE  Len(lines[t]) \in 0..MaxEvents
<1> DEFINE n == Len(lines[t])
           f == [i \in 1..n |-> <<t, i>>]
<1>1. n \in Nat
  BY DEF LogOK
<1> HIDE DEF n
<1>2. f \in Injection(1..n, Logged)
  <2>1. \A i \in 1..n : <<t, i>> \in Logged
    BY LoggedMeans DEF n
  <2> QED BY <2>1 DEF Injection, IsInjective
<1> HIDE DEF f
<1>3. Cardinality(1..n) <= Cardinality(Logged) /\ IsFiniteSet(1..n)
  BY <1>2, FS_Injection DEF LinesCounted
<1>4. Cardinality(1..n) = n
  BY <1>1, FS_Interval
<1>5. Cardinality(Logged) \in Nat
  BY FS_CardinalityType DEF LinesCounted
<1> QED BY <1>1, <1>3, <1>4, <1>5 DEF n, LinesCounted

LEMMA SeqGrows ==
  ASSUME NEW A, NEW B, A \subseteq B, NEW s \in Seq(A)
  PROVE  s \in Seq(B)
OBVIOUS

(* What was a label, a value or a call still is one. *)
LEMMA KnownGrows ==
  ASSUME LabelsOK, IsExtended(info, info'), Logged \subseteq Logged'
  PROVE  /\ Labels \subseteq Labels' /\ 1..Len(info) \subseteq 1..Len(info')
         /\ KnownValues \subseteq KnownValues'
         /\ KnownCalls \subseteq KnownCalls'
         /\ Nothing \in KnownValues' /\ Idle \in KnownCalls'
<1>1. Len(info) \in Nat /\ Len(info') \in Nat /\ Len(info) <= Len(info')
  BY DEF LabelsOK, IsExtended, IsInfo
<1>2. Labels \subseteq Labels' /\ 1..Len(info) \subseteq 1..Len(info') /\ 0 \in Labels'
  BY <1>1 DEF Labels
<1>3. KnownValues \subseteq KnownValues'
  BY <1>2 DEF KnownValues
<1>4. KnownCalls \subseteq KnownCalls'
  BY <1>3 DEF KnownCalls
<1>5. Nothing \in KnownValues' /\ Idle \in KnownCalls'
  BY <1>2 DEF Nothing, KnownValues, KnownCalls
<1> QED BY <1>2, <1>3, <1>4, <1>5

LEMMA StoreIsKnown ==
  ASSUME NEW c \in Cells, NEW v \in KnownValues, NEW a \in KnownValues
  PROVE  [op |-> "store", cell |-> c, value |-> v, address |-> a] \in KnownCalls
BY DEF KnownCalls

LEMMA CallFields ==
  ASSUME LabelsOK, NEW t \in Threads
  PROVE  /\ call[t].op = "load" => call[t].cell \in Cells /\ call[t].torn \in BOOLEAN
         /\ call[t].op = "store" => /\ call[t].cell \in Cells
                                    /\ call[t].value \in KnownValues /\ call[t].address \in KnownValues
<1>1. call[t] \in KnownCalls
  BY DEF LabelsOK
<1> QED BY <1>1 DEF KnownCalls, Idle

LEMMA ReadHookLabels ==
  ASSUME PendingInv, LinesCounted, LabelsOK, NEW t \in Threads, NEW c \in Cells, ReadHook(t, c)
  PROVE  LabelsOK'
<1> DEFINE l == ReadLabel(t, c).label
           n == Len(lines[t]) + 1
           made == [op |-> "load", cell |-> c, torn |-> FALSE]
<1>1. /\ Logs(t, "READ", c) /\ MarkRead(t, c)
      /\ call' = [call EXCEPT ![t] = made]
      /\ UNCHANGED <<source, reg, pds>>
  BY DEF ReadHook
<1>2. /\ IsExtended(info, info') /\ l \in 1..Len(info')
      /\ shadow' = [shadow EXCEPT ![c] = l]
      /\ Reads(t)' \subseteq Reads(t) \cup {<<n, l>>}
      /\ \A u \in Threads \ {t} : Reads(u)' = Reads(u)
      /\ unused' \in [Threads -> Seq(1..Len(info))]
  BY <1>1, MarkReadReads
<1>3. Logged \subseteq Logged'
  BY <1>1, LogsCounts DEF PendingInv
<1>4. /\ Labels \subseteq Labels' /\ 1..Len(info) \subseteq 1..Len(info')
      /\ KnownValues \subseteq KnownValues' /\ KnownCalls \subseteq KnownCalls'
  BY <1>2, <1>3, KnownGrows
<1> HIDE DEF l
<1>5. IsInfo(info') /\ l \in Labels'
  BY <1>2 DEF IsExtended, IsInfo, Labels
<1>6. shadow' \in [Cells -> Labels'] /\ source' \in [Cells -> SUBSET Logged'] /\ reg' \in [Threads -> KnownValues']
  BY <1>1, <1>2, <1>3, <1>4, <1>5 DEF LabelsOK
<1>7. made \in KnownCalls'
  BY DEF KnownCalls
<1>8. made.op = "load"
  OBVIOUS
<1> HIDE DEF made
<1>9. /\ call' \in [Threads -> KnownCalls'] /\ call'[t] = made
      /\ \A u \in Threads \ {t} : call'[u] = call[u]
  BY <1>1, <1>4, <1>7 DEF LabelsOK
<1>10. unused' \in [Threads -> Seq(1..Len(info'))]
  <2>1. \A u \in Threads : unused'[u] \in Seq(1..Len(info'))
    BY <1>2, <1>4, SeqGrows
  <2> QED BY <1>2, <2>1
<1>11. ASSUME NEW u \in Threads, NEW r \in Reads(u)' PROVE r[2] \in 1..Len(info')
  <2>1. r \in Reads(u) \/ r = <<n, l>>
    BY <1>2
  <2>2. r \in Reads(u) => r[2] \in 1..Len(info)
    BY DEF LabelsOK
  <2> QED BY <1>2, <1>4, <2>1, <2>2
<1>12. ASSUME NEW u \in Threads, call'[u].op = "load" PROVE Len(lines'[u]) # 0
  <2>1. /\ \A v \in Threads \ {t} : lines'[v] = lines[v]
        /\ Len(lines'[t]) = Len(lines[t]) + 1 /\ Len(lines[t]) \in Nat
    BY <1>1, LogsOne DEF PendingInv, LogOK
  <2>2. CASE u = t
    BY <2>1, <2>2
  <2>3. CASE u # t
    BY <1>9, <1>12, <2>1, <2>3 DEF LabelsOK
  <2> QED BY <2>2, <2>3
<1> QED BY <1>1, <1>5, <1>6, <1>9, <1>10, <1>11, <1>12 DEF LabelsOK

LEMMA LoadLabels ==
  ASSUME PendingInv, LabelsOK, NEW t \in Threads, NEW adds \in BOOLEAN, Load(t, adds)
  PROVE  /\ LabelsOK'
         /\ IsExtended(info, info')
         /\ \A n \in DOMAIN info' : info'[n] = <<0, 0>> => n \in DOMAIN info
<1>0. PICK c : c = call[t].cell
  OBVIOUS
<1> DEFINE old == IF adds THEN reg[t] ELSE Nothing
           both == Union(old.label, shadow[c])
           event == <<t, Len(lines[t])>>
           deps == old.deps \cup source[c] \cup IF call[t].torn THEN {} ELSE {event}
           new == [label |-> both.label, deps |-> deps]
<1>1. /\ call[t].op = "load" /\ Len(both.info) <= MaxLabels /\ info' = both.info
      /\ reg' = [reg EXCEPT ![t] = new]
      /\ call' = [call EXCEPT ![t] = Idle]
      /\ UNCHANGED <<shadow, source, pending, unused, lines, pds>>
  BY <1>0 DEF Load, cprd
<1>2. c \in Cells /\ IsInfo(info) /\ Len(info) \in Nat
  BY <1>0, <1>1, CallFields DEF LabelsOK, IsInfo
<1>3. old \in KnownValues
  <2>1. Nothing \in KnownValues
    BY <1>2 DEF Nothing, KnownValues, Labels
  <2> QED BY <2>1 DEF LabelsOK
<1>4. old.label \in Labels /\ old.deps \subseteq Logged /\ shadow[c] \in Labels /\ source[c] \subseteq Logged
  BY <1>2, <1>3 DEF KnownValues, LabelsOK
<1> HIDE DEF old
<1> DEFINE a == old.label
           b == shadow[c]
<1>5. /\ IsExtended(info, info')
      /\ both.label \in 0..Len(info')
      /\ \A n \in DOMAIN info' : info'[n] = <<0, 0>> => n \in DOMAIN info
  <2>1. a \in Labels /\ b \in Labels /\ Len(Union(a, b).info) <= MaxLabels /\ info' = Union(a, b).info
    BY <1>1, <1>4
  <2> HIDE DEF a, b
  <2>2. /\ IsExtended(info, Union(a, b).info)
        /\ Union(a, b).label \in 0..Len(Union(a, b).info)
        /\ \A n \in DOMAIN Union(a, b).info : Union(a, b).info[n] = <<0, 0>> => n \in DOMAIN info
    BY <1>2, <2>1, UnionKeeps
  <2> QED BY <2>1, <2>2 DEF a, b
<1>6. event \in Logged
  <2>1. Len(lines[t]) \in 1..Len(lines[t])
    BY <1>1 DEF LabelsOK, PendingInv, LogOK
  <2> QED BY <2>1, LoggedMeans DEF PendingInv
<1>7. Logged' = Logged
  BY <1>1 DEF Logged
<1>8. /\ Labels \subseteq Labels' /\ 1..Len(info) \subseteq 1..Len(info')
      /\ KnownValues \subseteq KnownValues' /\ KnownCalls \subseteq KnownCalls'
      /\ Idle \in KnownCalls'
  BY <1>5, <1>7, KnownGrows
<1> HIDE DEF both, event
<1>9. new \in KnownValues'
  BY <1>4, <1>5, <1>6, <1>7 DEF KnownValues, Labels
<1> HIDE DEF new
<1>10. reg' \in [Threads -> KnownValues'] /\ call' \in [Threads -> KnownCalls']
       /\ shadow' \in [Cells -> Labels'] /\ source' \in [Cells -> SUBSET Logged']
  BY <1>1, <1>7, <1>8, <1>9 DEF LabelsOK
<1>11. unused' \in [Threads -> Seq(1..Len(info'))]
  <2>1. \A u \in Threads : unused[u] \in Seq(1..Len(info'))
    BY <1>8, SeqGrows DEF LabelsOK
  <2> QED BY <1>1, <2>1 DEF LabelsOK
<1>12. \A u \in Threads : Reads(u)' = Reads(u)
  BY <1>1 DEF Reads
<1>13. \A u \in Threads : \A r \in Reads(u)' : r[2] \in 1..Len(info')
  BY <1>8, <1>12 DEF LabelsOK
<1>14. ASSUME NEW u \in Threads, call'[u].op = "load" PROVE Len(lines'[u]) # 0
  <2>1. call'[u] = call[u]
    BY <1>1, <1>14 DEF Idle, LabelsOK
  <2> QED BY <1>1, <1>14, <2>1 DEF LabelsOK
<1> QED BY <1>1, <1>5, <1>10, <1>11, <1>13, <1>14 DEF LabelsOK, IsExtended

LEMMA WriteHookLabels ==
  ASSUME PdgInv, LinesCounted, LabelsOK, NEW t \in Threads, NEW c \in Cells,
         NEW v \in KnownValues, NEW a \in KnownValues, WriteHook(t, c, v, a)
  PROVE  LabelsOK'
<1>0. PendingInv
  BY DEF PdgInv
<1> DEFINE made == [op |-> "store", cell |-> c, value |-> v, address |-> a]
           n == Len(lines[t]) + 1
           S == {i \in Taken(pending[t]) : IsReported(pending[t][i], c, shadow[c], a.label)}
<1>1. /\ Logs(t, "WRITE", c) /\ ProcessWrite(t, c, a)
      /\ call' = [call EXCEPT ![t] = made]
      /\ UNCHANGED <<info, shadow, source, reg>>
      /\ pds' = pds \cup {<<t, pending[t][i].event, n>> : i \in S}
  BY DEF WriteHook, ProcessWrite, dfsan
<1>2. /\ Reads(t)' \subseteq Reads(t)
      /\ \A u \in Threads \ {t} : Reads(u)' = Reads(u)
      /\ unused' \in [Threads -> Seq(1..Len(info))]
  BY <1>0, <1>1, ProcessWriteKeeps
<1>3. Logged \subseteq Logged'
  BY <1>0, <1>1, LogsCounts DEF PendingInv
<1>4. IsInfo(info') /\ IsExtended(info, info')
  BY <1>1, IsExtendedRefl DEF LabelsOK
<1>5. /\ Labels \subseteq Labels' /\ KnownValues \subseteq KnownValues' /\ KnownCalls \subseteq KnownCalls'
  BY <1>3, <1>4, KnownGrows
<1>6. made \in KnownCalls'
  <2>1. made \in KnownCalls
    BY StoreIsKnown
  <2> QED BY <1>5, <2>1
<1>7. made.op = "store"
  OBVIOUS
<1> HIDE DEF made
<1>8. /\ call' \in [Threads -> KnownCalls'] /\ call'[t] = made
      /\ \A u \in Threads \ {t} : call'[u] = call[u]
  BY <1>1, <1>5, <1>6 DEF LabelsOK
<1>9. shadow' \in [Cells -> Labels'] /\ source' \in [Cells -> SUBSET Logged'] /\ reg' \in [Threads -> KnownValues']
  BY <1>1, <1>3, <1>5 DEF LabelsOK
<1>10. \A u \in Threads : \A r \in Reads(u)' : r[2] \in 1..Len(info')
  BY <1>1, <1>2 DEF LabelsOK
<1>11. ASSUME NEW u \in Threads, call'[u].op = "load" PROVE Len(lines'[u]) # 0
  <2>1. \A w \in Threads \ {t} : lines'[w] = lines[w]
    BY <1>0, <1>1, LogsOne DEF PendingInv
  <2> QED BY <1>7, <1>8, <1>11, <2>1 DEF LabelsOK
<1>12. pds' \subseteq Threads \X Nat \X Nat
  <2>1. ASSUME NEW i \in S PROVE <<t, pending[t][i].event, n>> \in Threads \X Nat \X Nat
    <3>1. IsLogged(lines[t], pending[t][i])
      BY DEF PdgInv
    <3>2. pending[t][i].event \in Nat /\ n \in Nat
      BY <1>0, <3>1 DEF IsLogged, PendingInv, LogOK
    <3> QED BY <3>2
  <2> HIDE DEF S
  <2> QED BY <1>1, <2>1 DEF LabelsOK
<1> QED BY <1>1, <1>2, <1>4, <1>8, <1>9, <1>10, <1>11, <1>12 DEF LabelsOK

LEMMA StoreLabels ==
  ASSUME LabelsOK, NEW t \in Threads, Store(t)
  PROVE  LabelsOK'
<1>0. PICK c, v : c = call[t].cell /\ v = call[t].value
  OBVIOUS
<1>1. /\ call[t].op = "store"
      /\ shadow' = [shadow EXCEPT ![c] = v.label]
      /\ source' = [source EXCEPT ![c] = v.deps]
      /\ call' = [u \in Threads |->
                    IF u = t THEN Idle
                    ELSE IF call[u].op = "load" /\ call[u].cell = c THEN [call[u] EXCEPT !.torn = TRUE]
                    ELSE call[u]]
      /\ UNCHANGED <<info, reg, pending, unused, lines, pds>>
  BY <1>0 DEF Store, cprd
<1>2. c \in Cells /\ v \in KnownValues
  BY <1>0, <1>1, CallFields
<1>3. v.label \in Labels /\ v.deps \subseteq Logged
  BY <1>2 DEF KnownValues
<1>4. Labels' = Labels /\ Logged' = Logged
  BY <1>1 DEF Labels, Logged
<1>5. KnownValues' = KnownValues /\ KnownCalls' = KnownCalls
  BY <1>4 DEF KnownValues, KnownCalls
<1>6. shadow' \in [Cells -> Labels'] /\ source' \in [Cells -> SUBSET Logged'] /\ reg' \in [Threads -> KnownValues']
  BY <1>1, <1>3, <1>4, <1>5 DEF LabelsOK
<1>7. ASSUME NEW u \in Threads
      PROVE  call'[u] \in KnownCalls /\ (call'[u].op = "load" => call[u].op = "load")
  <2>0. call[u] \in KnownCalls
    BY DEF LabelsOK
  <2>1. CASE u = t
    BY <1>1, <2>1 DEF KnownCalls, Idle
  <2>2. CASE u # t /\ call[u].op = "load" /\ call[u].cell = c
    <3>1. call'[u] = [call[u] EXCEPT !.torn = TRUE]
      BY <1>1, <2>2
    <3>2. call[u] \in [op : {"load"}, cell : Cells, torn : BOOLEAN]
      BY <2>0, <2>2 DEF KnownCalls, Idle
    <3>3. [call[u] EXCEPT !.torn = TRUE] \in [op : {"load"}, cell : Cells, torn : BOOLEAN]
      BY <3>2
    <3> QED BY <2>2, <3>1, <3>3 DEF KnownCalls
  <2>3. CASE u # t /\ ~ (call[u].op = "load" /\ call[u].cell = c)
    BY <1>1, <2>0, <2>3
  <2> QED BY <2>1, <2>2, <2>3
<1>8. call' \in [Threads -> KnownCalls']
  BY <1>1, <1>5, <1>7
<1>9. \A u \in Threads : Reads(u)' = Reads(u)
  BY <1>1 DEF Reads
<1>10. unused' \in [Threads -> Seq(1..Len(info'))] /\ IsInfo(info') /\ pds' \subseteq Threads \X Nat \X Nat
  BY <1>1 DEF LabelsOK
<1>11. \A u \in Threads : \A r \in Reads(u)' : r[2] \in 1..Len(info')
  BY <1>1, <1>9 DEF LabelsOK
<1>12. \A u \in Threads : call'[u].op = "load" => Len(lines'[u]) # 0
  BY <1>1, <1>7 DEF LabelsOK
<1> QED BY <1>6, <1>8, <1>10, <1>11, <1>12 DEF LabelsOK

LEMMA RemapLabels ==
  ASSUME LabelsOK, NEW t \in Threads, NEW c \in Cells, Remap(t, c)
  PROVE  LabelsOK'
<1>1. /\ shadow' = [shadow EXCEPT ![c] = 0] /\ source' = [source EXCEPT ![c] = {}]
      /\ UNCHANGED <<info, reg, call, pending, unused, lines, pds>>
  BY DEF Remap, cprd
<1>2. Labels' = Labels /\ Logged' = Logged /\ 0 \in Labels
  BY <1>1 DEF Labels, Logged, LabelsOK, IsInfo
<1>3. KnownValues' = KnownValues /\ KnownCalls' = KnownCalls
  BY <1>2 DEF KnownValues, KnownCalls
<1>4. \A u \in Threads : Reads(u)' = Reads(u)
  BY <1>1 DEF Reads
<1>5. shadow' \in [Cells -> Labels'] /\ source' \in [Cells -> SUBSET Logged']
  BY <1>1, <1>2 DEF LabelsOK
<1> QED BY <1>1, <1>3, <1>4, <1>5 DEF LabelsOK

LEMMA LabelsKept ==
  ASSUME LabelsOK, UNCHANGED vars
  PROVE  LabelsOK'
<1>1. UNCHANGED <<info, shadow, source, reg, call, pending, unused, lines, pds>>
  BY DEF vars, dfsan, cprd
<1>2. Labels' = Labels /\ Logged' = Logged /\ \A u \in Threads : Reads(u)' = Reads(u)
  BY <1>1 DEF Labels, Logged, Reads
<1>3. KnownValues' = KnownValues /\ KnownCalls' = KnownCalls
  BY <1>2 DEF KnownValues, KnownCalls
<1> QED BY <1>1, <1>2, <1>3 DEF LabelsOK

LEMMA InitLabels == Init => LinesCounted /\ LabelsOK
<1> SUFFICES ASSUME Init PROVE LinesCounted /\ LabelsOK
  OBVIOUS
<1>1. Logged = {} /\ info = <<>> /\ Len(info) = 0 /\ \A t \in Threads : Reads(t) = {}
  BY DEF Init, Logged, Reads, Taken
<1>2. LinesCounted
  BY <1>1, FS_EmptySet DEF LinesCounted
<1>3. IsInfo(info)
  BY <1>1 DEF IsInfo
<1>4. 0 \in Labels /\ Nothing \in KnownValues /\ Idle \in KnownCalls
  BY <1>1 DEF Labels, Nothing, KnownValues, KnownCalls
<1>5. /\ shadow \in [Cells -> Labels] /\ source \in [Cells -> SUBSET Logged]
      /\ reg \in [Threads -> KnownValues] /\ call \in [Threads -> KnownCalls]
      /\ unused \in [Threads -> Seq(1..Len(info))] /\ pds \subseteq Threads \X Nat \X Nat
      /\ \A t \in Threads : call[t].op # "load"
  BY <1>4 DEF Init, Idle
<1> QED BY <1>1, <1>2, <1>3, <1>5 DEF LabelsOK

LEMMA NextLabels == PdgInv /\ LinesCounted /\ LabelsOK /\ [Next]_vars => LinesCounted' /\ LabelsOK'
<1> SUFFICES ASSUME PdgInv, LinesCounted, LabelsOK, [Next]_vars PROVE LinesCounted' /\ LabelsOK'
  OBVIOUS
<1>0. PendingInv /\ LogOK
  BY DEF PdgInv, PendingInv
<1>1. ASSUME UNCHANGED lines PROVE LinesCounted'
  BY <1>1 DEF LinesCounted, Logged
<1>2. CASE UNCHANGED vars
  <2>1. UNCHANGED lines
    BY <1>2 DEF vars, cprd
  <2> QED BY <1>1, <1>2, <2>1, LabelsKept
<1>3. ASSUME NEW t \in Threads, NEW c \in Cells, ReadHook(t, c) PROVE LinesCounted' /\ LabelsOK'
  <2>1. Logs(t, "READ", c)
    BY <1>3 DEF ReadHook
  <2> QED BY <1>0, <1>3, <2>1, LogsCounts, ReadHookLabels
<1>4. ASSUME NEW t \in Threads, NEW c \in Cells, Remap(t, c) PROVE LinesCounted' /\ LabelsOK'
  <2>1. UNCHANGED lines
    BY <1>4 DEF Remap, cprd
  <2> QED BY <1>1, <1>4, <2>1, RemapLabels
<1>5. ASSUME NEW t \in Threads, NEW adds \in BOOLEAN, Load(t, adds) PROVE LinesCounted' /\ LabelsOK'
  <2>1. UNCHANGED lines
    BY <1>5 DEF Load, cprd
  <2> QED BY <1>0, <1>1, <1>5, <2>1, LoadLabels
<1>6. ASSUME NEW t \in Threads, NEW c \in Cells, NEW v \in {reg[t], Nothing}, NEW a \in {reg[t], Nothing},
             WriteHook(t, c, v, a)
      PROVE  LinesCounted' /\ LabelsOK'
  <2>1. Logs(t, "WRITE", c)
    BY <1>6 DEF WriteHook
  <2>2. v \in KnownValues /\ a \in KnownValues
    <3>1. Nothing \in KnownValues
      BY DEF LabelsOK, IsInfo, Labels, Nothing, KnownValues
    <3> QED BY <3>1 DEF LabelsOK
  <2> QED BY <1>0, <1>6, <2>1, <2>2, LogsCounts, WriteHookLabels
<1>7. ASSUME NEW t \in Threads, Store(t) PROVE LinesCounted' /\ LabelsOK'
  <2>1. UNCHANGED lines
    BY <1>7 DEF Store, cprd
  <2> QED BY <1>1, <1>7, <2>1, StoreLabels
<1> QED BY <1>2, <1>3, <1>4, <1>5, <1>6, <1>7 DEF Next

(* The tables of the runtime keep their types: a label never names more    *)
(* than there are, and no event is numbered past the accesses.             *)
THEOREM TypeCorrect == Spec => []TypeOK
<1>1. PdgInv /\ LinesCounted /\ LabelsOK => TypeOK
  <2> SUFFICES ASSUME PdgInv, LinesCounted, LabelsOK PROVE TypeOK
    OBVIOUS
  <2>0. PendingInv /\ LogOK
    BY DEF PdgInv, PendingInv
  <2>1. Len(info) \in Nat /\ Len(info) <= MaxLabels /\ info \in Seq((0..MaxLabels) \X (0..MaxLabels))
    BY DEF LabelsOK, IsInfo
  <2>2. \A u \in Threads : Len(lines[u]) \in 0..MaxEvents
    BY <2>0, LinesBounded
  <2>3. Logged \subseteq Events
    <3> SUFFICES ASSUME NEW u \in Threads, NEW i \in DOMAIN lines[u] PROVE <<u, i>> \in Events
      BY DEF Logged
    <3>1. i \in 1..Len(lines[u])
      BY <2>0 DEF LogOK
    <3>2. i \in 1..MaxEvents
      BY <2>2, <3>1
    <3> QED BY <3>2 DEF Events
  <2>4. KnownValues \subseteq Values
    BY <2>1, <2>3 DEF KnownValues, Values, Labels
  <2>5. KnownCalls \subseteq Calls
    BY <2>4 DEF KnownCalls, Calls
  <2>6. /\ shadow \in [Cells -> 0..Len(info)] /\ source \in [Cells -> SUBSET Events]
        /\ reg \in [Threads -> Values] /\ call \in [Threads -> Calls]
        /\ unused \in [Threads -> Seq(1..Len(info))] /\ lines \in [Threads -> Seq(Lines)]
    BY <2>0, <2>3, <2>4, <2>5 DEF LabelsOK, Labels, LogOK
  <2>7. ASSUME NEW t \in Threads, NEW i \in Slots PROVE pending[t][i] \in Entries \cup {NoRead}
    <3> SUFFICES ASSUME pending[t][i] # NoRead PROVE pending[t][i] \in Entries
      OBVIOUS
    <3> DEFINE r == pending[t][i]
    <3>1. i \in Taken(pending[t])
      BY DEF Taken
    <3>2. IsEntry(r) /\ IsLogged(lines[t], r)
      BY <2>0, <3>1 DEF PdgInv, PendingInv, IsTable
    <3>3. r.event \in 1..MaxEvents
      BY <2>2, <3>2 DEF IsLogged
    <3>4. r.cell \in Cells
      <4>1. r.event \in DOMAIN lines[t] /\ lines[t] \in Seq(Lines)
        BY <2>0, <3>2 DEF IsLogged, LogOK
      <4>2. lines[t][r.event] \in Lines
        BY <4>1
      <4> QED BY <3>2, <4>2 DEF IsLogged, Lines
    <3>5. r.label \in 1..MaxLabels
      <4>1. <<r.event, r.label>> \in Reads(t)
        BY <3>1 DEF Reads
      <4>2. r.label \in 1..Len(info)
        BY <4>1 DEF LabelsOK
      <4> QED BY <2>1, <4>2
    <3>6. /\ r = [event |-> r.event, cell |-> r.cell, label |-> r.label, life |-> r.life]
          /\ r.life \in 1..Life
      BY <3>2 DEF IsEntry
    <3> QED BY <3>3, <3>4, <3>5, <3>6 DEF Entries
  <2>8. pending \in [Threads -> [Slots -> Entries \cup {NoRead}]]
    <3>1. \A t \in Threads : pending[t] = [i \in Slots |-> pending[t][i]]
      BY <2>0 DEF PendingInv, IsTable
    <3>2. \A t \in Threads : pending[t] \in [Slots -> Entries \cup {NoRead}]
      BY <2>7, <3>1
    <3> QED BY <2>0, <3>2 DEF LogOK
  <2>9. pds \subseteq Threads \X (1..MaxEvents) \X (1..MaxEvents)
    <3> SUFFICES ASSUME NEW pd \in pds PROVE pd \in Threads \X (1..MaxEvents) \X (1..MaxEvents)
      OBVIOUS
    <3>1. pd \in Threads \X Nat \X Nat /\ IsDependence(lines[pd[1]], pd[2], pd[3])
      BY DEF LabelsOK, PdgInv
    <3>2. pd[2] \in 1..MaxEvents /\ pd[3] \in 1..MaxEvents
      BY <2>2, <3>1 DEF IsDependence
    <3> QED BY <3>1, <3>2
  <2> QED BY <2>1, <2>6, <2>8, <2>9 DEF TypeOK
<1> QED BY InitPdg, NextPdg, InitLabels, NextLabels, <1>1, PTL DEF Spec
--------------------------------------------------------------------------------

LabelsOwned == \A n \in DOMAIN info : info[n] = <<0, 0>> => \E t \in Threads : Owns(t, n)

LEMMA InitOwned == Init => LabelsOwned
BY DEF Init, LabelsOwned

LEMMA NextOwned == PdgInv /\ LabelsOK /\ LabelsOwned /\ [Next]_vars => LabelsOwned'
<1> SUFFICES ASSUME PdgInv, LabelsOK, LabelsOwned, [Next]_vars PROVE LabelsOwned'
  OBVIOUS
<1>0. PendingInv /\ LogOK
  BY DEF PdgInv, PendingInv
<1>1. ASSUME \A n \in DOMAIN info' : info'[n] = <<0, 0>> => n \in DOMAIN info /\ info[n] = <<0, 0>>,
             \A u \in Threads : \A n : Owns(u, n) => Owns(u, n)'
      PROVE  LabelsOwned'
  BY <1>1 DEF LabelsOwned
<1>2. ASSUME UNCHANGED <<pending, unused>> PROVE \A u \in Threads : \A n : Owns(u, n) => Owns(u, n)'
  BY <1>2 DEF Owns, Reads, In
<1>3. CASE UNCHANGED vars
  BY <1>1, <1>2, <1>3 DEF vars, dfsan, cprd
<1>4. ASSUME NEW t \in Threads, NEW c \in Cells, ReadHook(t, c) PROVE LabelsOwned'
  <2>0. PICK l : l = ReadLabel(t, c).label
    OBVIOUS
  <2> DEFINE n == Len(lines[t]) + 1
  <2>1. MarkRead(t, c)
    BY <1>4 DEF ReadHook
  <2>2. /\ IsExtended(info, info') /\ info' = ReadLabel(t, c).info
        /\ <<n, l>> \in Reads(t)'
        /\ \A u \in Threads : \A k : Owns(u, k) => Owns(u, k)'
    BY <1>0, <2>0, <2>1, MarkReadReads
  <2>3. \A k \in DOMAIN info' : k \in DOMAIN info \/ k = l
    <3>1. Len(ReadLabel(t, c).info) <= MaxLabels
      BY <2>1 DEF MarkRead
    <3>2. \A k \in DOMAIN ReadLabel(t, c).info : k \in DOMAIN info \/ k = l
      BY <2>0, <3>1, ReadLabelKeeps
    <3> QED BY <2>2, <3>2
  <2>4. Owns(t, l)'
    <3>1. <<n, l>>[2] = l
      OBVIOUS
    <3> QED BY <2>2, <3>1 DEF Owns
  <2> QED BY <2>2, <2>3, <2>4 DEF LabelsOwned, IsExtended
<1>5. ASSUME NEW t \in Threads, NEW adds \in BOOLEAN, Load(t, adds) PROVE LabelsOwned'
  <2>1. UNCHANGED <<pending, unused>>
    BY <1>5 DEF Load, cprd
  <2>2. /\ IsExtended(info, info')
        /\ \A n \in DOMAIN info' : info'[n] = <<0, 0>> => n \in DOMAIN info
    BY <1>0, <1>5, LoadLabels
  <2> QED BY <1>1, <1>2, <2>1, <2>2 DEF IsExtended
<1>6. ASSUME NEW t \in Threads, NEW c \in Cells, NEW v, NEW a, WriteHook(t, c, v, a) PROVE LabelsOwned'
  <2>1. ProcessWrite(t, c, a) /\ info' = info
    BY <1>6 DEF WriteHook, dfsan
  <2>2. \A u \in Threads : \A n : Owns(u, n) => Owns(u, n)'
    BY <1>0, <2>1, ProcessWriteKeeps
  <2> QED BY <1>1, <2>1, <2>2
<1>7. ASSUME NEW t \in Threads, Store(t) \/ (\E c \in Cells : Remap(t, c)) PROVE LabelsOwned'
  <2>1. UNCHANGED <<info, pending, unused>>
    BY <1>7 DEF Store, Remap, cprd
  <2> QED BY <1>1, <1>2, <2>1
<1> QED BY <1>3, <1>4, <1>5, <1>6, <1>7 DEF Next

(* Every label that df_mark_read has taken from dfsan belongs to a pending *)
(* read or to the pool of some thread, through expiry, reporting and       *)
(* reuse.                                                                  *)
THEOREM LabelsStayOwned == Spec => []NoLabelIsLost
<1>1. LabelsOwned => NoLabelIsLost
  BY NoLabelIsLostMeans DEF LabelsOwned
<1> QED BY InitPdg, NextPdg, InitLabels, NextLabels, InitOwned, NextOwned, <1>1, PTL DEF Spec
--------------------------------------------------------------------------------

(* A label stands for all pending reads that a value comes from. *)
TracksIn(inf, R, label, deps) ==
  \A t \in Threads : \A r \in R[t] : <<t, r[1]>> \in deps => HasIn(inf, label, r[2])

(* The reads Q are among R, but for some that deps has nothing to do with. *)
NoOthers(R, Q, deps) == \A t \in Threads : \A r \in Q[t] : r \in R[t] \/ <<t, r[1]>> \notin deps

ReadSets == [t \in Threads |-> Reads(t)]
Tracks(label, deps) == TracksIn(info, ReadSets, label, deps)

(* The label of the cell stands for the read whose load has still to be    *)
(* made, unless a store has overtaken it.                                  *)
LoadIsTracked(t) ==
  call[t].op = "load" /\ ~ call[t].torn =>
    \A r \in Reads(t) : r[1] = Len(lines[t]) => HasIn(info, shadow[call[t].cell], r[2])

DepsInv ==
  /\ \A c \in Cells : Tracks(shadow[c], source[c])
  /\ \A t \in Threads : Tracks(reg[t].label, reg[t].deps)
  /\ \A t \in Threads : call[t].op = "store" => Tracks(call[t].value.label, call[t].value.deps)
  /\ \A t \in Threads : LoadIsTracked(t)

LEMMA TracksStays ==
  ASSUME NEW inf, IsInfo(inf), NEW more, IsExtended(inf, more), NEW R, NEW Q,
         NEW l \in 0..Len(inf), NEW deps, TracksIn(inf, R, l, deps),
         NoOthers(R, Q, deps)
  PROVE  TracksIn(more, Q, l, deps)
<1> SUFFICES ASSUME NEW t \in Threads, NEW r \in Q[t], <<t, r[1]>> \in deps PROVE HasIn(more, l, r[2])
  BY DEF TracksIn
<1>1. r \in R[t]
  BY DEF NoOthers
<1>2. HasIn(inf, l, r[2])
  BY <1>1 DEF TracksIn
<1>3. HasIn(more, l, r[2]) = HasIn(inf, l, r[2])
  BY HasStays DEF IsExtended
<1> QED BY <1>2, <1>3

LEMMA NoneTracksNone ==
  ASSUME NEW inf, IsInfo(inf), NEW e, e # 0
  PROVE  ~ HasIn(inf, 0, e)
<1>1. 0 \in 0..Len(inf)
  BY DEF IsInfo
<1> QED BY <1>1, HasStep

LEMMA ReadSetsIs == ReadSets = [t \in Threads |-> Reads(t)] /\ \A t \in Threads : ReadSets[t] = Reads(t)
BY DEF ReadSets

LEMMA ReadHookDeps ==
  ASSUME PdgInv, LinesCounted, LabelsOK, DepsInv, NEW t \in Threads, NEW c \in Cells, ReadHook(t, c)
  PROVE  DepsInv'
<1> DEFINE l == ReadLabel(t, c).label
           n == Len(lines[t]) + 1
           made == [op |-> "load", cell |-> c, torn |-> FALSE]
<1>0. PendingInv /\ LogOK
  BY DEF PdgInv, PendingInv
<1>1. /\ Logs(t, "READ", c) /\ MarkRead(t, c)
      /\ call' = [call EXCEPT ![t] = made]
      /\ UNCHANGED <<source, reg>>
  BY DEF ReadHook
<1>2. /\ IsExtended(info, info') /\ l \in 1..Len(info') /\ info' = ReadLabel(t, c).info
      /\ shadow' = [shadow EXCEPT ![c] = l]
      /\ Reads(t)' \subseteq Reads(t) \cup {<<n, l>>}
      /\ \A u \in Threads \ {t} : Reads(u)' = Reads(u)
  BY <1>0, <1>1, MarkReadReads
<1>3. shadow[c] # 0 => l = shadow[c]
  <2>1. Len(ReadLabel(t, c).info) <= MaxLabels
    BY <1>1 DEF MarkRead
  <2> QED BY <2>1, ReadLabelKeeps
<1>4. <<t, n>> \notin Logged
  BY <1>0, <1>1, LogsCounts
<1> HIDE DEF l
<1>5. ASSUME NEW deps, deps \subseteq Logged
      PROVE  NoOthers(ReadSets, ReadSets', deps)
  <2> SUFFICES ASSUME NEW u \in Threads, NEW r \in ReadSets'[u]
               PROVE  r \in ReadSets[u] \/ <<u, r[1]>> \notin deps
    BY DEF NoOthers
  <2>1. r \in Reads(u)' /\ ReadSets[u] = Reads(u)
    BY DEF ReadSets
  <2>2. CASE u # t
    BY <1>2, <2>1, <2>2
  <2>3. CASE u = t /\ r = <<n, l>>
    BY <1>4, <1>5, <2>3
  <2> QED BY <1>2, <2>1, <2>2, <2>3
<1>6. IsInfo(info) /\ IsInfo(info') /\ Len(info) \in Nat
  BY <1>2 DEF LabelsOK, IsExtended, IsInfo
<1>7. ASSUME NEW k \in Labels, NEW deps \in SUBSET Logged, TracksIn(info, ReadSets, k, deps)
      PROVE  TracksIn(info', ReadSets', k, deps)
  <2>1. NoOthers(ReadSets, ReadSets', deps)
    BY <1>5
  <2>2. k \in 0..Len(info)
    BY DEF Labels
  <2> QED BY <1>2, <1>6, <1>7, <2>1, <2>2, TracksStays
<1>8. ASSUME NEW d \in Cells PROVE TracksIn(info', ReadSets', shadow'[d], source'[d])
  <2>1. shadow[d] \in Labels /\ source[d] \in SUBSET Logged /\ source'[d] = source[d]
    BY <1>1 DEF LabelsOK
  <2>2. TracksIn(info, ReadSets, shadow[d], source[d])
    BY DEF DepsInv, Tracks
  <2>3. TracksIn(info', ReadSets', shadow[d], source[d])
    BY <1>7, <2>1, <2>2
  <2>4. CASE shadow'[d] = shadow[d]
    BY <2>1, <2>3, <2>4
  <2>5. CASE shadow'[d] # shadow[d]
    <3>1. d = c /\ shadow[d] = 0
      BY <1>2, <1>3, <2>5 DEF LabelsOK
    <3>2. ASSUME NEW u \in Threads, NEW r \in ReadSets'[u] PROVE <<u, r[1]>> \notin source[d]
      <4>1. r \in ReadSets[u] \/ <<u, r[1]>> \notin source[d]
        BY <1>5, <2>1 DEF NoOthers
      <4>2. ASSUME r \in ReadSets[u] PROVE r[2] # 0
        <5>1. r \in Reads(u)
          BY <4>2, ReadSetsIs
        <5>2. r[2] \in 1..Len(info)
          BY <5>1 DEF LabelsOK
        <5> QED BY <5>2
      <4>3. ASSUME r \in ReadSets[u], <<u, r[1]>> \in source[d] PROVE FALSE
        <5>1. HasIn(info, 0, r[2])
          BY <2>2, <3>1, <4>3 DEF TracksIn
        <5> QED BY <1>6, <4>2, <4>3, <5>1, NoneTracksNone
      <4> QED BY <4>1, <4>3
    <3> QED BY <2>1, <3>2 DEF TracksIn
  <2> QED BY <2>4, <2>5
<1>9. ASSUME NEW u \in Threads PROVE TracksIn(info', ReadSets', reg'[u].label, reg'[u].deps)
  <2>1. reg[u] \in KnownValues /\ reg'[u] = reg[u]
    BY <1>1 DEF LabelsOK
  <2>2. reg[u].label \in Labels /\ reg[u].deps \in SUBSET Logged
    BY <2>1 DEF KnownValues
  <2>3. TracksIn(info, ReadSets, reg[u].label, reg[u].deps)
    BY DEF DepsInv, Tracks
  <2> QED BY <1>7, <2>1, <2>2, <2>3
<1>10. made.op = "load" /\ made.cell = c
  OBVIOUS
<1> HIDE DEF made
<1>11. call'[t] = made /\ \A u \in Threads \ {t} : call'[u] = call[u]
  BY <1>0, <1>1 DEF LogOK
<1>12. ASSUME NEW u \in Threads, call'[u].op = "store"
       PROVE  TracksIn(info', ReadSets', call'[u].value.label, call'[u].value.deps)
  <2>1. call'[u] = call[u] /\ call[u].op = "store"
    BY <1>10, <1>11, <1>12
  <2>2. call[u].value \in KnownValues
    BY <2>1, CallFields
  <2>3. call[u].value.label \in Labels /\ call[u].value.deps \in SUBSET Logged
    BY <2>2 DEF KnownValues
  <2>4. TracksIn(info, ReadSets, call[u].value.label, call[u].value.deps)
    BY <2>1 DEF DepsInv, Tracks
  <2> QED BY <1>7, <2>1, <2>3, <2>4
<1>13. /\ \A v \in Threads \ {t} : lines'[v] = lines[v]
       /\ Len(lines'[t]) = n /\ n \in Nat /\ Len(lines[t]) \in Nat
  BY <1>0, <1>1, LogsOne DEF LogOK
<1>14. ASSUME NEW u \in Threads PROVE LoadIsTracked(u)'
  <2> SUFFICES ASSUME call'[u].op = "load", ~ call'[u].torn,
                      NEW r \in Reads(u)', r[1] = Len(lines'[u])
               PROVE  HasIn(info', shadow'[call'[u].cell], r[2])
    BY DEF LoadIsTracked
  <2>1. CASE u = t
    <3>1. ASSUME r \in Reads(t) PROVE r[1] # n
      <4>1. PICK i \in Taken(pending[t]) : r = <<pending[t][i].event, pending[t][i].label>>
        BY <3>1 DEF Reads
      <4>2. IsLogged(lines[t], pending[t][i])
        BY DEF PdgInv
      <4>3. pending[t][i].event \in 1..Len(lines[t])
        BY <4>2 DEF IsLogged
      <4>4. pending[t][i].event # n
        BY <1>13, <4>3
      <4> QED BY <4>1, <4>4
    <3>2. r = <<n, l>>
      BY <1>2, <1>13, <2>1, <3>1
    <3>3. shadow'[call'[u].cell] = l /\ r[2] = l
      BY <1>2, <1>10, <1>11, <2>1, <3>2 DEF LabelsOK
    <3>4. l \in 0..Len(info')
      BY <1>2
    <3> QED BY <1>6, <3>3, <3>4, HasStep
  <2>2. CASE u # t
    <3>1. call'[u] = call[u] /\ r \in Reads(u) /\ r[1] = Len(lines[u])
      BY <1>2, <1>11, <1>13, <2>2
    <3>2. PICK d : d = call[u].cell
      OBVIOUS
    <3>3. d \in Cells /\ shadow[d] \in 0..Len(info) /\ r[2] \in 1..Len(info)
      BY <3>1, <3>2, CallFields DEF LabelsOK, Labels
    <3>4. HasIn(info, shadow[d], r[2])
      BY <3>1, <3>2 DEF DepsInv, LoadIsTracked
    <3>5. shadow[d] # 0
      BY <1>6, <3>3, <3>4, NoneTracksNone
    <3>6. shadow'[d] = shadow[d]
      BY <1>2, <1>3, <3>3, <3>5 DEF LabelsOK
    <3>7. HasIn(info', shadow[d], r[2]) = HasIn(info, shadow[d], r[2])
      BY <1>2, <1>6, <3>3, HasStays DEF IsExtended
    <3> QED BY <3>1, <3>2, <3>4, <3>6, <3>7
  <2> QED BY <2>1, <2>2
<1> QED BY <1>8, <1>9, <1>12, <1>14 DEF DepsInv, Tracks

LEMMA LoadDeps ==
  ASSUME PdgInv, LabelsOK, DepsInv, NEW t \in Threads, NEW adds \in BOOLEAN, Load(t, adds)
  PROVE  DepsInv'
<1>0. PendingInv /\ LogOK
  BY DEF PdgInv, PendingInv
<1>1. PICK c : c = call[t].cell
  OBVIOUS
<1>2. PICK old : old = IF adds THEN reg[t] ELSE Nothing
  OBVIOUS
<1>3. PICK a, b : a = old.label /\ b = shadow[c]
  OBVIOUS
<1>4. PICK x, more : x = Union(a, b).label /\ more = Union(a, b).info
  OBVIOUS
<1>5. PICK E : E = IF call[t].torn THEN {} ELSE {<<t, Len(lines[t])>>}
  OBVIOUS
<1> DEFINE deps == old.deps \cup source[c] \cup E
           new == [label |-> x, deps |-> deps]
<1>6. /\ call[t].op = "load" /\ Len(more) <= MaxLabels /\ info' = more
      /\ reg' = [reg EXCEPT ![t] = new]
      /\ call' = [call EXCEPT ![t] = Idle]
      /\ UNCHANGED <<shadow, source, pending, lines>>
  BY <1>1, <1>2, <1>3, <1>4, <1>5, Zenon DEF Load, cprd
<1>7. /\ c \in Cells /\ IsInfo(info) /\ Len(info) \in Nat
      /\ source[c] \subseteq Logged /\ b \in Labels
  BY <1>1, <1>3, <1>6, CallFields DEF LabelsOK, IsInfo
<1>8. a \in Labels /\ old.deps \subseteq Logged /\ TracksIn(info, ReadSets, a, old.deps)
  <2>1. CASE adds
    <3>1. old = reg[t] /\ reg[t] \in KnownValues
      BY <1>2, <2>1 DEF LabelsOK
    <3> QED BY <1>3, <3>1 DEF KnownValues, DepsInv, Tracks
  <2>2. CASE ~ adds
    <3>1. old.label = 0 /\ old.deps = {}
      BY <1>2, <2>2 DEF Nothing
    <3> QED BY <1>3, <1>7, <3>1 DEF Labels, TracksIn
  <2> QED BY <2>1, <2>2
<1>9. /\ IsExtended(info, more)
      /\ \A e : e # 0 /\ (HasIn(more, a, e) \/ HasIn(more, b, e)) => HasIn(more, x, e)
  BY <1>4, <1>6, <1>7, <1>8, UnionKeeps
<1>10. ReadSets' = ReadSets
  BY <1>6 DEF ReadSets, Reads
<1>11. ASSUME NEW k \in Labels, NEW D, TracksIn(info, ReadSets, k, D)
       PROVE  TracksIn(info', ReadSets', k, D)
  <2>1. NoOthers(ReadSets, ReadSets, D)
    BY DEF NoOthers
  <2>2. k \in 0..Len(info)
    BY DEF Labels
  <2> QED BY <1>6, <1>7, <1>9, <1>10, <1>11, <2>1, <2>2, TracksStays
<1>12. /\ call'[t] = Idle /\ Idle.op = "none" /\ \A u \in Threads \ {t} : call'[u] = call[u]
  BY <1>0, <1>6 DEF LogOK, Idle
<1>13. ASSUME NEW u \in Threads, call[u].op = "load", ~ call[u].torn, NEW r \in Reads(u), r[1] = Len(lines[u])
       PROVE  r[2] # 0 /\ HasIn(info', shadow[call[u].cell], r[2])
  <2>1. PICK d : d = call[u].cell
    OBVIOUS
  <2>2. d \in Cells /\ shadow[d] \in 0..Len(info) /\ r[2] \in 1..Len(info)
    BY <1>13, <2>1, CallFields DEF LabelsOK, Labels
  <2>3. HasIn(info, shadow[d], r[2])
    BY <1>13, <2>1 DEF DepsInv, LoadIsTracked
  <2>4. HasIn(info', shadow[d], r[2]) = HasIn(info, shadow[d], r[2])
    BY <1>6, <1>7, <1>9, <2>2, HasStays DEF IsExtended
  <2> QED BY <2>1, <2>2, <2>3, <2>4
<1>14. TracksIn(info', ReadSets', x, deps)
  <2> SUFFICES ASSUME NEW u \in Threads, NEW r \in ReadSets'[u], <<u, r[1]>> \in deps
               PROVE  HasIn(info', x, r[2])
    BY DEF TracksIn
  <2>1. r \in Reads(u) /\ r \in ReadSets'[u]
    BY <1>10, ReadSetsIs
  <2>2. r[2] # 0
    <3>1. r[2] \in 1..Len(info)
      BY <2>1 DEF LabelsOK
    <3> QED BY <3>1
  <2>3. HasIn(more, a, r[2]) \/ HasIn(more, b, r[2])
    <3>1. CASE <<u, r[1]>> \in old.deps
      <4>1. TracksIn(info', ReadSets', a, old.deps)
        BY <1>8, <1>11
      <4> QED BY <1>6, <2>1, <3>1, <4>1 DEF TracksIn
    <3>2. CASE <<u, r[1]>> \in source[c]
      <4>1. TracksIn(info, ReadSets, b, source[c])
        BY <1>3, <1>7 DEF DepsInv, Tracks
      <4>2. TracksIn(info', ReadSets', b, source[c])
        BY <1>7, <1>11, <4>1
      <4> QED BY <1>6, <2>1, <3>2, <4>2 DEF TracksIn
    <3>3. CASE <<u, r[1]>> \in E
      <4>1. ~ call[t].torn /\ u = t /\ r[1] = Len(lines[t])
        BY <1>5, <3>3
      <4> QED BY <1>1, <1>3, <1>6, <1>13, <2>1, <4>1
    <3> QED BY <3>1, <3>2, <3>3
  <2> QED BY <1>6, <1>9, <2>2, <2>3
<1>15. ASSUME NEW d \in Cells PROVE TracksIn(info', ReadSets', shadow'[d], source'[d])
  <2>1. shadow[d] \in Labels /\ TracksIn(info, ReadSets, shadow[d], source[d])
    BY DEF LabelsOK, DepsInv, Tracks
  <2> QED BY <1>6, <1>11, <2>1
<1>16. ASSUME NEW u \in Threads PROVE TracksIn(info', ReadSets', reg'[u].label, reg'[u].deps)
  <2>1. CASE u = t
    <3>1. reg'[t] = new
      BY <1>6 DEF LabelsOK
    <3>2. reg'[t].label = x /\ reg'[t].deps = deps
      BY <3>1
    <3> QED BY <1>14, <2>1, <3>2
  <2>2. CASE u # t
    <3>1. reg'[u] = reg[u] /\ reg[u] \in KnownValues
      BY <1>6, <2>2 DEF LabelsOK
    <3>2. reg[u].label \in Labels /\ TracksIn(info, ReadSets, reg[u].label, reg[u].deps)
      BY <3>1 DEF KnownValues, DepsInv, Tracks
    <3> QED BY <1>11, <3>1, <3>2
  <2> QED BY <2>1, <2>2
<1>17. ASSUME NEW u \in Threads, call'[u].op = "store"
       PROVE  TracksIn(info', ReadSets', call'[u].value.label, call'[u].value.deps)
  <2>1. call'[u] = call[u] /\ call[u].op = "store"
    BY <1>12, <1>17
  <2>2. call[u].value \in KnownValues
    BY <2>1, CallFields
  <2>3. call[u].value.label \in Labels
    BY <2>2 DEF KnownValues
  <2>4. TracksIn(info, ReadSets, call[u].value.label, call[u].value.deps)
    BY <2>1 DEF DepsInv, Tracks
  <2> QED BY <1>11, <2>1, <2>3, <2>4
<1>18. ASSUME NEW u \in Threads PROVE LoadIsTracked(u)'
  <2> SUFFICES ASSUME call'[u].op = "load", ~ call'[u].torn,
                      NEW r \in Reads(u)', r[1] = Len(lines'[u])
               PROVE  HasIn(info', shadow'[call'[u].cell], r[2])
    BY DEF LoadIsTracked
  <2>1. call'[u] = call[u]
    BY <1>12
  <2>2. r \in Reads(u) /\ r[1] = Len(lines[u])
    BY <1>6 DEF Reads
  <2> QED BY <1>6, <1>13, <2>1, <2>2
<1> QED BY <1>15, <1>16, <1>17, <1>18 DEF DepsInv, Tracks

(* What a step that leaves the labels alone has to keep: no thread gets    *)
(* another read.                                                           *)
LEMMA SameLabels ==
  ASSUME info' = info, \A u \in Threads : Reads(u)' \subseteq Reads(u)
  PROVE  \A k, D : TracksIn(info, ReadSets, k, D) => TracksIn(info', ReadSets', k, D)
<1>1. \A u \in Threads : \A r \in ReadSets'[u] : r \in ReadSets[u]
  BY DEF ReadSets
<1> QED BY <1>1 DEF TracksIn

LEMMA WriteHookDeps ==
  ASSUME PdgInv, LabelsOK, DepsInv, NEW t \in Threads, NEW c \in Cells,
         NEW v \in {reg[t], Nothing}, NEW a, WriteHook(t, c, v, a)
  PROVE  DepsInv'
<1>0. PendingInv /\ LogOK
  BY DEF PdgInv, PendingInv
<1> DEFINE made == [op |-> "store", cell |-> c, value |-> v, address |-> a]
<1>1. /\ Logs(t, "WRITE", c) /\ ProcessWrite(t, c, a)
      /\ call' = [call EXCEPT ![t] = made]
      /\ UNCHANGED <<info, shadow, source, reg>>
  BY DEF WriteHook, dfsan
<1>2. \A u \in Threads : Reads(u)' \subseteq Reads(u)
  BY <1>0, <1>1, ProcessWriteKeeps
<1>3. \A k, D : TracksIn(info, ReadSets, k, D) => TracksIn(info', ReadSets', k, D)
  BY <1>1, <1>2, SameLabels
<1>4. made.op = "store" /\ made.value = v
  OBVIOUS
<1> HIDE DEF made
<1>5. call'[t] = made /\ \A u \in Threads \ {t} : call'[u] = call[u]
  BY <1>0, <1>1 DEF LogOK
<1>6. TracksIn(info, ReadSets, v.label, v.deps)
  <2>1. CASE v = reg[t]
    BY <2>1 DEF DepsInv, Tracks
  <2>2. CASE v = Nothing
    BY <2>2 DEF Nothing, TracksIn
  <2> QED BY <2>1, <2>2
<1>7. \A d \in Cells : TracksIn(info', ReadSets', shadow'[d], source'[d])
  BY <1>1, <1>3 DEF DepsInv, Tracks
<1>8. \A u \in Threads : TracksIn(info', ReadSets', reg'[u].label, reg'[u].deps)
  BY <1>1, <1>3 DEF DepsInv, Tracks
<1>9. ASSUME NEW u \in Threads, call'[u].op = "store"
      PROVE  TracksIn(info', ReadSets', call'[u].value.label, call'[u].value.deps)
  <2>1. CASE u = t
    BY <1>3, <1>4, <1>5, <1>6, <2>1
  <2>2. CASE u # t
    BY <1>3, <1>5, <1>9, <2>2 DEF DepsInv, Tracks
  <2> QED BY <2>1, <2>2
<1>10. \A u \in Threads \ {t} : lines'[u] = lines[u]
  BY <1>0, <1>1, LogsOne
<1>11. ASSUME NEW u \in Threads PROVE LoadIsTracked(u)'
  <2> SUFFICES ASSUME call'[u].op = "load", ~ call'[u].torn,
                      NEW r \in Reads(u)', r[1] = Len(lines'[u])
               PROVE  HasIn(info', shadow'[call'[u].cell], r[2])
    BY DEF LoadIsTracked
  <2>1. u # t /\ call'[u] = call[u]
    BY <1>4, <1>5
  <2>2. r \in Reads(u) /\ r[1] = Len(lines[u])
    BY <1>2, <1>10, <2>1
  <2> QED BY <1>1, <2>1, <2>2 DEF DepsInv, LoadIsTracked
<1> QED BY <1>7, <1>8, <1>9, <1>11 DEF DepsInv, Tracks

LEMMA StoreDeps ==
  ASSUME PdgInv, LabelsOK, DepsInv, NEW t \in Threads, Store(t)
  PROVE  DepsInv'
<1>0. PendingInv /\ LogOK
  BY DEF PdgInv, PendingInv
<1>1. PICK c, v : c = call[t].cell /\ v = call[t].value
  OBVIOUS
<1>2. /\ call[t].op = "store"
      /\ shadow' = [shadow EXCEPT ![c] = v.label]
      /\ source' = [source EXCEPT ![c] = v.deps]
      /\ call' = [u \in Threads |->
                    IF u = t THEN Idle
                    ELSE IF call[u].op = "load" /\ call[u].cell = c THEN [call[u] EXCEPT !.torn = TRUE]
                    ELSE call[u]]
      /\ UNCHANGED <<info, reg, pending, lines>>
  BY <1>1, Zenon DEF Store, cprd
<1>3. c \in Cells /\ shadow \in [Cells -> Labels] /\ source \in [Cells -> SUBSET Logged]
  BY <1>1, <1>2, CallFields DEF LabelsOK
<1>4. \A u \in Threads : Reads(u)' = Reads(u)
  BY <1>2 DEF Reads
<1>5. \A k, D : TracksIn(info, ReadSets, k, D) => TracksIn(info', ReadSets', k, D)
  BY <1>2, <1>4, SameLabels
<1>6. TracksIn(info, ReadSets, v.label, v.deps)
  BY <1>1, <1>2 DEF DepsInv, Tracks
<1>7. ASSUME NEW d \in Cells PROVE TracksIn(info', ReadSets', shadow'[d], source'[d])
  <2>1. CASE d = c
    <3>1. shadow'[d] = v.label /\ source'[d] = v.deps
      BY <1>2, <1>3, <2>1
    <3> QED BY <1>5, <1>6, <3>1
  <2>2. CASE d # c
    <3>1. shadow'[d] = shadow[d] /\ source'[d] = source[d]
      BY <1>2, <1>3, <2>2
    <3> QED BY <1>5, <3>1 DEF DepsInv, Tracks
  <2> QED BY <2>1, <2>2
<1>8. \A u \in Threads : TracksIn(info', ReadSets', reg'[u].label, reg'[u].deps)
  BY <1>2, <1>5 DEF DepsInv, Tracks
<1>9. ASSUME NEW u \in Threads
      PROVE  \/ call'[u].op = "none"
             \/ call'[u].op = "load" /\ call'[u].torn
             \/ call'[u] = call[u] /\ ~ (call[u].op = "load" /\ call[u].cell = c)
  <2>1. CASE u = t
    BY <1>2, <2>1 DEF Idle
  <2>2. CASE u # t /\ call[u].op = "load" /\ call[u].cell = c
    <3>1. call'[u] = [call[u] EXCEPT !.torn = TRUE]
      BY <1>2, <2>2
    <3>2. call[u] \in [op : {"load"}, cell : Cells, torn : BOOLEAN]
      <4>1. call[u] \in KnownCalls
        BY DEF LabelsOK
      <4> QED BY <2>2, <4>1 DEF KnownCalls, Idle
    <3>3. call'[u].op = "load" /\ call'[u].torn = TRUE
      BY <3>1, <3>2
    <3> QED BY <3>3
  <2>3. CASE u # t /\ ~ (call[u].op = "load" /\ call[u].cell = c)
    BY <1>2, <2>3
  <2> QED BY <2>1, <2>2, <2>3
<1>10. ASSUME NEW u \in Threads, call'[u].op = "store"
       PROVE  TracksIn(info', ReadSets', call'[u].value.label, call'[u].value.deps)
  <2>1. call'[u] = call[u]
    BY <1>9, <1>10
  <2> QED BY <1>5, <1>10, <2>1 DEF DepsInv, Tracks
<1>11. ASSUME NEW u \in Threads PROVE LoadIsTracked(u)'
  <2> SUFFICES ASSUME call'[u].op = "load", ~ call'[u].torn,
                      NEW r \in Reads(u)', r[1] = Len(lines'[u])
               PROVE  HasIn(info', shadow'[call'[u].cell], r[2])
    BY DEF LoadIsTracked
  <2>1. call'[u] = call[u] /\ call[u].op = "load" /\ call[u].cell # c
    BY <1>9
  <2>2. PICK d : d = call[u].cell
    OBVIOUS
  <2>3. d \in Cells /\ d # c
    BY <2>1, <2>2, CallFields
  <2>4. shadow'[d] = shadow[d]
    BY <1>2, <1>3, <2>3
  <2>5. HasIn(info, shadow[d], r[2])
    BY <1>2, <1>4, <2>1, <2>2 DEF DepsInv, LoadIsTracked
  <2> QED BY <1>2, <2>1, <2>2, <2>4, <2>5
<1> QED BY <1>7, <1>8, <1>10, <1>11 DEF DepsInv, Tracks

LEMMA RemapDeps ==
  ASSUME PdgInv, LabelsOK, DepsInv, NEW t \in Threads, NEW c \in Cells, Remap(t, c)
  PROVE  DepsInv'
<1>1. /\ \A u \in Threads : call[u] # Idle => call[u].cell # c
      /\ shadow' = [shadow EXCEPT ![c] = 0]
      /\ source' = [source EXCEPT ![c] = {}]
      /\ UNCHANGED <<info, reg, call, pending, lines>>
  BY DEF Remap, cprd
<1>2. \A u \in Threads : Reads(u)' = Reads(u)
  BY <1>1 DEF Reads
<1>3. \A k, D : TracksIn(info, ReadSets, k, D) => TracksIn(info', ReadSets', k, D)
  BY <1>1, <1>2, SameLabels
<1>4. ASSUME NEW d \in Cells PROVE TracksIn(info', ReadSets', shadow'[d], source'[d])
  <2>1. CASE d = c
    <3>1. source'[d] = {}
      BY <1>1, <2>1 DEF LabelsOK
    <3> QED BY <3>1 DEF TracksIn
  <2>2. CASE d # c
    <3>1. shadow'[d] = shadow[d] /\ source'[d] = source[d]
      BY <1>1, <2>2 DEF LabelsOK
    <3> QED BY <1>3, <3>1 DEF DepsInv, Tracks
  <2> QED BY <2>1, <2>2
<1>5. \A u \in Threads : TracksIn(info', ReadSets', reg'[u].label, reg'[u].deps)
  BY <1>1, <1>3 DEF DepsInv, Tracks
<1>6. \A u \in Threads : call'[u].op = "store" =>
         TracksIn(info', ReadSets', call'[u].value.label, call'[u].value.deps)
  BY <1>1, <1>3 DEF DepsInv, Tracks
<1>7. ASSUME NEW u \in Threads PROVE LoadIsTracked(u)'
  <2> SUFFICES ASSUME call'[u].op = "load", ~ call'[u].torn,
                      NEW r \in Reads(u)', r[1] = Len(lines'[u])
               PROVE  HasIn(info', shadow'[call'[u].cell], r[2])
    BY DEF LoadIsTracked
  <2>1. PICK d : d = call[u].cell
    OBVIOUS
  <2>2. d \in Cells /\ d # c
    BY <1>1, <2>1, CallFields DEF Idle
  <2>3. shadow'[d] = shadow[d]
    BY <1>1, <2>2 DEF LabelsOK
  <2>4. HasIn(info, shadow[d], r[2])
    BY <1>1, <1>2, <2>1 DEF DepsInv, LoadIsTracked
  <2> QED BY <1>1, <2>1, <2>3, <2>4
<1> QED BY <1>4, <1>5, <1>6, <1>7 DEF DepsInv, Tracks

LEMMA InitDeps == Init => DepsInv
<1> SUFFICES ASSUME Init PROVE DepsInv
  OBVIOUS
<1>1. \A k : TracksIn(info, ReadSets, k, {})
  BY DEF TracksIn
<1>2. \A c \in Cells : source[c] = {}
  BY DEF Init
<1>3. \A t \in Threads : reg[t].deps = {} /\ call[t].op = "none"
  BY DEF Init, Nothing, Idle
<1> QED BY <1>1, <1>2, <1>3 DEF DepsInv, Tracks, LoadIsTracked

LEMMA NextDeps == PdgInv /\ LinesCounted /\ LabelsOK /\ DepsInv /\ [Next]_vars => DepsInv'
<1> SUFFICES ASSUME PdgInv, LinesCounted, LabelsOK, DepsInv, [Next]_vars PROVE DepsInv'
  OBVIOUS
<1>1. CASE UNCHANGED vars
  <2>1. UNCHANGED <<info, shadow, source, reg, call, pending, lines>>
    BY <1>1 DEF vars, dfsan, cprd
  <2>2. \A u \in Threads : Reads(u)' = Reads(u)
    BY <2>1 DEF Reads
  <2>3. \A k, D : TracksIn(info, ReadSets, k, D) => TracksIn(info', ReadSets', k, D)
    BY <2>1, <2>2, SameLabels
  <2>4. \A u \in Threads : LoadIsTracked(u)'
    BY <2>1, <2>2 DEF DepsInv, LoadIsTracked
  <2> QED BY <2>1, <2>3, <2>4 DEF DepsInv, Tracks
<1> QED BY <1>1, ReadHookDeps, LoadDeps, WriteHookDeps, StoreDeps, RemapDeps DEF Next

(* df_process_write finds the reads that the address was computed from. *)
LEMMA OwedIsReported ==
  ASSUME PdgInv, LabelsOK, DepsInv, NEW t \in Threads, NEW c \in Cells, NEW v,
         NEW a \in {reg[t], Nothing}, WriteHook(t, c, v, a)
  PROVE  Reports(t, Owed(t, c, a))
<1> DEFINE n == Len(lines[t]) + 1
           S == {i \in Taken(pending[t]) : IsReported(pending[t][i], c, shadow[c], a.label)}
<1>1. Logs(t, "WRITE", c) /\ pds' = pds \cup {<<t, pending[t][i].event, n>> : i \in S}
  BY DEF WriteHook, ProcessWrite
<1>2. Len(lines'[t]) = n
  BY <1>1, LogsOne DEF PdgInv, PendingInv
<1>3. ASSUME NEW i \in Taken(pending[t]), <<t, pending[t][i].event>> \in a.deps,
             LineOf[pending[t][i].cell] # LineOf[c]
      PROVE  i \in S
  <2> DEFINE r == <<pending[t][i].event, pending[t][i].label>>
  <2>1. r \in Reads(t) /\ r[1] = pending[t][i].event /\ r[2] = pending[t][i].label
    BY DEF Reads
  <2>2. a = reg[t]
    BY <1>3 DEF Nothing
  <2>3. TracksIn(info, ReadSets, a.label, a.deps)
    BY <2>2 DEF DepsInv, Tracks
  <2> HIDE DEF r
  <2>4. HasIn(info, a.label, r[2])
    BY <1>3, <2>1, <2>3, ReadSetsIs DEF TracksIn
  <2>5. Has(a.label, pending[t][i].label)
    BY <2>1, <2>4, HasIsHasIn
  <2> QED BY <1>3, <2>5 DEF IsReported
<1> QED BY <1>1, <1>2, <1>3 DEF Reports, Owed

LEMMA NextReports ==
  PdgInv /\ LabelsOK /\ DepsInv /\ [Next]_vars
    => [\A t \in Threads : Writes(t) => Reports(t, Owed(t, call'[t].cell, call'[t].address))]_vars
<1> SUFFICES ASSUME PdgInv, LabelsOK, DepsInv, Next, NEW t \in Threads, Writes(t)
             PROVE  Reports(t, Owed(t, call'[t].cell, call'[t].address))
  OBVIOUS
<1>0. call[t] = Idle /\ Idle.op = "none" /\ call'[t].op = "store" /\ call \in [Threads -> KnownCalls]
  BY DEF Writes, Idle, LabelsOK
<1>1. ASSUME NEW u \in Threads, NEW c \in Cells, ReadHook(u, c) PROVE FALSE
  <2>1. call' = [call EXCEPT ![u] = [op |-> "load", cell |-> c, torn |-> FALSE]]
    BY <1>1 DEF ReadHook
  <2> QED BY <1>0, <2>1
<1>2. ASSUME NEW u \in Threads, NEW c \in Cells, Remap(u, c) PROVE FALSE
  BY <1>0, <1>2 DEF Remap
<1>3. ASSUME NEW u \in Threads, NEW adds \in BOOLEAN, Load(u, adds) PROVE FALSE
  <2>1. call' = [call EXCEPT ![u] = Idle]
    BY <1>3 DEF Load
  <2> QED BY <1>0, <2>1
<1>4. ASSUME NEW u \in Threads, Store(u) PROVE FALSE
  <2>1. call'[t] = Idle
    BY <1>0, <1>4 DEF Store
  <2> QED BY <1>0, <2>1
<1>5. ASSUME NEW u \in Threads, NEW c \in Cells, NEW v \in {reg[u], Nothing}, NEW a \in {reg[u], Nothing},
             WriteHook(u, c, v, a)
      PROVE  Reports(t, Owed(t, call'[t].cell, call'[t].address))
  <2>1. call' = [call EXCEPT ![u] = [op |-> "store", cell |-> c, value |-> v, address |-> a]]
    BY <1>5 DEF WriteHook
  <2>2. u = t /\ call'[t].cell = c /\ call'[t].address = a
    BY <1>0, <2>1
  <2> QED BY <1>5, <2>2, OwedIsReported
<1> QED BY <1>1, <1>2, <1>3, <1>4, <1>5 DEF Next

(* A write through a pointer computed from a pending read is reported: the *)
(* label of the pointer still stands for that read, however many labels    *)
(* were made, reused or united since, by whatever threads, and whatever    *)
(* was stored and loaded in between.                                       *)
THEOREM AddressesAlwaysReported == Spec => AddressesAreReported
BY InitPdg, NextPdg, InitLabels, NextLabels, InitDeps, NextDeps, NextReports, PTL
   DEF Spec, AddressesAreReported
================================================================================
