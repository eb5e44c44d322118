--------------------------- MODULE DispatchProofs ---------------------------
(***************************************************************************)
(* The safety properties of Hooks, Dispatch and Output: of the callback    *)
(* tables for any number of tables, entries, callers and writers, of the   *)
(* dispatch loop for any queues, priorities, groups and burst sizes, and   *)
(* of output queues for any number of cores, ordered contexts and events.  *)
(***************************************************************************)
EXTENDS Dispatch, Hooks, Output, SequenceTheorems, FiniteSetTheorems, WellFoundedInduction, TLAPS

-----------------------------------------------------------------------------
(* Numbers and sequences *)

\* A non-empty set of numbers has a smallest one, and Min() is it.
LEMMA MinIs ==
  ASSUME NEW T \in SUBSET Nat, T # {}
  PROVE  Min(T) \in T /\ \A y \in T : Min(T) <= y
<1>1. IsWellFoundedOn(OpToRel(<, Nat), Nat) BY NatLessThanWellFounded
<1>2. PICK x \in T : \A y \in T : ~(<<y, x>> \in OpToRel(<, Nat)) BY <1>1, WFMin
<1>3. \A y \in T : ~(y < x) BY <1>2 DEF OpToRel
<1>4. \A y \in T : x <= y BY <1>3
<1> QED BY <1>4 DEF Min

-----------------------------------------------------------------------------
(* Hooks: the inductive invariant *)

\* The entries of table t are the functions of l.
Lists(t, l) == \A s \in Entries : t[s] = IF s <= Len(l) THEN l[s] ELSE NULL

\* What the table that is being worked on will hold.
Updated ==
  IF upd.op = "remove" THEN RemoveFirst(registered, upd.fn)
  ELSE IF upd.op = "add" /\ upd.fn # NULL THEN Append(registered, upd.fn) ELSE registered

Ops     == {"register", "unregister"}
Working == {"change_register", "change_unregister", "add", "remove"}

HTypeInv ==
  /\ tbl \in [Tables -> [Entries -> Fns \cup {NULL}]]
  /\ idx \in Tables /\ active = idx
  /\ registered \in Seq(Fns) /\ Len(registered) <= CbMax
  /\ lock \in Writers \cup {NoOne}
  /\ upd \in [op : {"none"} \cup Ops \cup Working, fn : Fns \cup {NULL}]
  /\ lock = NoOne <=> upd = NoUpd
  /\ upd.op = "none" => upd = NoUpd

\* The table behind the pointer is what is registered; the next one is a copy of
\* it, changed when the update has got so far, and nobody reads it.
TableInv ==
  /\ Lists(tbl[idx], registered)
  /\ upd.op \in Working =>
       /\ Updated \in Seq(Fns) /\ Len(Updated) <= CbMax
       /\ Lists(tbl[NextTbl(idx)], Updated)

Reader == [on : BOOLEAN, t : Tables, i : Nat, called : Seq(Fns), start : Seq(Fns)]

\* A caller reads a table that keeps the functions registered when it started,
\* and has called those before the entry it is at.
ReaderOK(x) ==
  x.on => /\ x.t \in Tables /\ x.start \in Seq(Fns) /\ Len(x.start) <= CbMax
          /\ Lists(tbl[x.t], x.start)
          /\ x.i \in 1..Len(x.start) + 1
          /\ x.called = SubSeq(x.start, 1, x.i - 1)
          /\ upd.op \in Working => x.t # NextTbl(idx)

ReaderInv ==
  /\ reader \in [Readers -> Reader]
  /\ \A r \in Readers : ReaderOK(reader[r])

HIInv == HTypeInv /\ TableInv /\ ReaderInv

-----------------------------------------------------------------------------
(* Hooks: tables and lists *)

\* The next index of the ring of tables stays in it and is another one.
LEMMA NextIs ==
  ASSUME NEW i \in Tables
  PROVE  NextTbl(i) \in Tables /\ NextTbl(i) # i
BY HooksAssumption DEF NextTbl, Tables

\* Where a function is in a table.
LEMMA FirstIs ==
  ASSUME NEW t \in [Entries -> Fns \cup {NULL}], NEW f
  PROVE  \/ First(t, f) = 0 /\ \A s \in Entries : t[s] # f
         \/ /\ First(t, f) \in Entries /\ t[First(t, f)] = f
            /\ \A s \in Entries : s < First(t, f) => t[s] # f
<1> DEFINE I == {i \in 1..Len(t) : t[i] = f}
<1>1. CbMax \in Nat BY HooksAssumption
<1>2. Len(t) = CbMax /\ t \in Seq(Fns \cup {NULL}) BY <1>1, SeqDef DEF Entries
<1>3. First(t, f) = IF I # {} THEN Min(I) ELSE 0 BY DEF First, SelectInSeq
<1>4. I = {s \in Entries : t[s] = f} BY <1>2 DEF Entries
<1>5. CASE I = {} BY <1>3, <1>4, <1>5
<1>6. CASE I # {}
  <2>1. I \in SUBSET Nat BY <1>4 DEF Entries
  <2>2. Min(I) \in I /\ \A y \in I : Min(I) <= y BY <2>1, <1>6, MinIs
  <2> HIDE DEF I
  <2>3. Min(I) \in Entries /\ t[Min(I)] = f BY <2>2, <1>4
  <2>4. ASSUME NEW s \in Entries, s < Min(I) PROVE t[s] # f
    <3>1. s \notin I BY <2>2, <2>3, <2>4 DEF Entries
    <3> QED BY <3>1, <1>4
  <2> QED BY <1>3, <1>6, <2>3, <2>4
<1> QED BY <1>5, <1>6

\* A function is appended at the first free entry.
LEMMA AppendedIs ==
  ASSUME NEW t \in [Entries -> Fns \cup {NULL}], NEW l \in Seq(Fns), Len(l) <= CbMax,
         Lists(t, l), First(t, NULL) # 0, NEW f \in Fns
  PROVE  /\ Append(l, f) \in Seq(Fns) /\ Len(Append(l, f)) <= CbMax
         /\ Lists(Registered(t, f), Append(l, f))
<1>1. CbMax \in Nat /\ NULL \notin Fns BY HooksAssumption
<1>2. Len(l) \in Nat /\ \A i \in 1..Len(l) : l[i] \in Fns BY LenProperties, ElementOfSeq
<1>3. PICK k \in Entries : /\ k = First(t, NULL) /\ t[k] = NULL
                           /\ \A s \in Entries : s < k => t[s] # NULL
  BY FirstIs
<1>4. k = Len(l) + 1 BY <1>1, <1>2, <1>3 DEF Lists, Entries
<1>5. /\ Append(l, f) \in Seq(Fns) /\ Len(Append(l, f)) = Len(l) + 1
      /\ \A i \in 1..Len(l) : Append(l, f)[i] = l[i]
      /\ Append(l, f)[Len(l) + 1] = f
  BY AppendProperties
<1>6. Registered(t, f) = [t EXCEPT ![k] = f] BY <1>3 DEF Registered
<1>7. ASSUME NEW s \in Entries
      PROVE  Registered(t, f)[s] = IF s <= Len(Append(l, f)) THEN Append(l, f)[s] ELSE NULL
  BY <1>1, <1>2, <1>3, <1>4, <1>5, <1>6 DEF Lists, Entries
<1>8. Len(Append(l, f)) <= CbMax BY <1>1, <1>2, <1>3, <1>4, <1>5 DEF Entries
<1> QED BY <1>5, <1>7, <1>8 DEF Lists

\* NULL is put where it was.
LEMMA NothingAppended ==
  ASSUME NEW t \in [Entries -> Fns \cup {NULL}], NEW l \in Seq(Fns), Lists(t, l),
         First(t, NULL) # 0
  PROVE  Lists(Registered(t, NULL), l)
<1>1. PICK k \in Entries : k = First(t, NULL) /\ t[k] = NULL BY FirstIs
<1>2. Registered(t, NULL) = t BY <1>1 DEF Registered
<1> QED BY <1>2

\* The place of a function in a list and in its table are the same.
LEMMA RemovedIs ==
  ASSUME NEW t \in [Entries -> Fns \cup {NULL}], NEW l \in Seq(Fns), Len(l) <= CbMax,
         Lists(t, l), NEW f \in Fns \cup {NULL}, First(t, f) # 0
  PROVE  /\ RemoveFirst(l, f) \in Seq(Fns) /\ Len(RemoveFirst(l, f)) <= CbMax
         /\ Lists(Unregistered(t, f), RemoveFirst(l, f))
<1>1. CbMax \in Nat /\ NULL \notin Fns BY HooksAssumption
<1>2. Len(l) \in Nat /\ \A i \in 1..Len(l) : l[i] \in Fns BY LenProperties, ElementOfSeq
<1>3. PICK k \in Entries : /\ k = First(t, f) /\ t[k] = f
                           /\ \A s \in Entries : s < k => t[s] # f
  BY FirstIs
<1>4. Unregistered(t, f) = [s \in Entries |-> IF s < k THEN t[s]
                                              ELSE IF s < CbMax THEN t[s + 1] ELSE NULL]
  BY <1>3 DEF Unregistered, pack_hook_tbl
<1>5. CASE f = NULL
  <2>1. ~\E i \in 1..Len(l) : l[i] = f BY <1>1, <1>2, <1>5
  <2>2. RemoveFirst(l, f) = l BY <2>1 DEF RemoveFirst
  <2>3. k = Len(l) + 1 BY <1>1, <1>2, <1>3, <1>5 DEF Lists, Entries
  <2>4. \A s \in Entries : s < CbMax => s + 1 \in Entries BY <1>1 DEF Entries
  <2>5. \A s \in Entries : Unregistered(t, f)[s] = IF s <= Len(l) THEN l[s] ELSE NULL
    BY <1>1, <1>2, <1>4, <2>3, <2>4 DEF Lists, Entries
  <2> QED BY <2>2, <2>5 DEF Lists
<1>6. CASE f # NULL
  <2>1. k \in 1..Len(l) /\ l[k] = f /\ \A s \in 1..Len(l) : s < k => l[s] # f
    BY <1>1, <1>2, <1>3, <1>6 DEF Lists, Entries
  <2>2. SelectInSeq(l, LAMBDA v : v = f) = k
    <3> DEFINE I == {i \in 1..Len(l) : l[i] = f}
    <3>1. k \in I BY <2>1
    <3>2. I \in SUBSET Nat OBVIOUS
    <3>3. Min(I) \in I /\ \A y \in I : Min(I) <= y BY <3>1, <3>2, MinIs
    <3>4. Min(I) = k BY <3>1, <3>3, <2>1
    <3> QED BY <3>1, <3>4 DEF SelectInSeq
  <2> DEFINE a == SubSeq(l, 1, k - 1)  b == SubSeq(l, k + 1, Len(l))
  <2>3. RemoveFirst(l, f) = a \o b
    BY <2>1, <2>2 DEF RemoveFirst, RemoveAt
  <2>4. a \in Seq(Fns) /\ Len(a) = k - 1 /\ \A i \in 1..k - 1 : a[i] = l[i]
    BY <1>2, <2>1, SubSeqProperties
  <2>5. b \in Seq(Fns) /\ Len(b) = Len(l) - k /\ \A i \in 1..Len(l) - k : b[i] = l[k + i]
    <3>1. \A i \in k + 1..Len(l) : l[i] \in Fns BY <1>2, <2>1
    <3>2. /\ b \in Seq(Fns) /\ Len(b) = IF k + 1 <= Len(l) THEN Len(l) - (k + 1) + 1 ELSE 0
          /\ \A i \in 1..Len(l) - (k + 1) + 1 : b[i] = l[(k + 1) + i - 1]
      BY <3>1, <1>2, <2>1, SubSeqProperties
    <3> QED BY <3>2, <1>2, <2>1
  <2> HIDE DEF a, b
  <2>6. /\ a \o b \in Seq(Fns) /\ Len(a \o b) = Len(a) + Len(b)
        /\ \A i \in 1..Len(a) + Len(b) : (a \o b)[i] = IF i <= Len(a) THEN a[i] ELSE b[i - Len(a)]
    BY <2>4, <2>5, ConcatProperties
  <2>7. Len(a \o b) = Len(l) - 1 BY <1>2, <2>1, <2>4, <2>5, <2>6
  <2>8. \A i \in 1..Len(l) - 1 : (a \o b)[i] = IF i < k THEN l[i] ELSE l[i + 1]
    <3> SUFFICES ASSUME NEW i \in 1..Len(l) - 1
                 PROVE  (a \o b)[i] = IF i < k THEN l[i] ELSE l[i + 1]
      OBVIOUS
    <3>1. i \in 1..Len(a) + Len(b) BY <1>2, <2>1, <2>4, <2>5
    <3>2. CASE i < k BY <3>1, <3>2, <2>1, <2>4, <2>6
    <3>3. CASE ~(i < k)
      <4>1. i - Len(a) \in 1..Len(l) - k /\ ~(i <= Len(a)) /\ k + (i - Len(a)) = i + 1
        BY SMTT(30), <3>3, <2>1, <2>4, <1>2
      <4> QED BY <3>1, <3>3, <4>1, <2>5, <2>6
    <3> QED BY <3>2, <3>3
  <2>9. ASSUME NEW s \in Entries
        PROVE  Unregistered(t, f)[s] = IF s <= Len(a \o b) THEN (a \o b)[s] ELSE NULL
    <3>1. s < CbMax => s + 1 \in Entries BY <1>1 DEF Entries
    <3>2. CASE s < k
      <4>1. s \in 1..Len(l) - 1 BY <3>2, <2>1, <1>2 DEF Entries
      <4>2. Unregistered(t, f)[s] = l[s] BY <3>2, <2>1, <1>4, <1>2, <4>1 DEF Lists, Entries
      <4> QED BY <4>1, <4>2, <2>7, <2>8, <3>2, <1>2
    <3>3. CASE ~(s < k) /\ s <= Len(l) - 1
      <4>1. s \in 1..Len(l) - 1 /\ s < CbMax BY <3>3, <1>1, <1>2 DEF Entries
      <4>2. Unregistered(t, f)[s] = l[s + 1] BY <3>1, <3>3, <4>1, <1>4, <1>2 DEF Lists, Entries
      <4> QED BY <4>1, <4>2, <2>7, <2>8, <3>3, <1>2
    <3>4. CASE ~(s < k) /\ ~(s <= Len(l) - 1)
      <4>1. Unregistered(t, f)[s] = NULL BY <3>1, <3>4, <1>4, <1>1, <1>2 DEF Lists, Entries
      <4> QED BY <4>1, <2>7, <3>4
    <3> QED BY <3>2, <3>3, <3>4
  <2>10. Lists(Unregistered(t, f), a \o b) BY <2>9 DEF Lists
  <2>11. Len(a \o b) <= CbMax BY <2>7, <1>1, <1>2
  <2> QED BY <2>3, <2>6, <2>10, <2>11
<1> QED BY <1>5, <1>6

-----------------------------------------------------------------------------
(* Hooks: the steps *)

\* The tables before the first call of em_hooks_add().
LEMMA HInitIs == HooksInit => HIInv
<1> SUFFICES ASSUME HooksInit PROVE HIInv OBVIOUS
<1> USE DEF HooksInit
<1>1. CbMax \in Nat /\ NULL \notin Fns /\ NumTbl \in Nat \ {0, 1} BY HooksAssumption
<1>2. HTypeInv
  <2>1. 0 \in Tables BY <1>1 DEF Tables
  <2>2. <<>> \in Seq(Fns) /\ Len(<<>>) = 0 BY EmptySeq
  <2> QED BY <1>1, <2>1, <2>2 DEF HTypeInv, NoUpd
<1>3. TableInv
  <2>1. Lists(tbl[idx], registered) BY <1>1 DEF Lists, Tables, Entries
  <2> QED BY <2>1 DEF TableInv, NoUpd, Working
<1>4. ReaderInv
  <2>1. NoReader \in Reader
    BY <1>1 DEF NoReader, Tables, Reader
  <2> QED BY <2>1 DEF ReaderInv, ReaderOK, NoReader
<1> QED BY <1>2, <1>3, <1>4 DEF HIInv

\* A step of an update that leaves tables, pointer and registrations alone.
LEMMA LockStep ==
  ASSUME HIInv, NEW w \in Writers, NEW op \in Ops, NEW fn \in Fns \cup {NULL}, Lock(w, op, fn)
  PROVE  HIInv'
<1> USE DEF Lock
<1>1. HTypeInv'
  <2>1. w # NoOne BY HooksAssumption
  <2> QED BY <2>1 DEF HIInv, HTypeInv, NoUpd, Ops, Working
<1>2. upd'.op \notin Working BY DEF Ops, Working
<1>3. TableInv' BY <1>2 DEF HIInv, TableInv
<1>4. ReaderInv' BY <1>2 DEF HIInv, ReaderInv, ReaderOK
<1> QED BY <1>1, <1>3, <1>4 DEF HIInv

\* A writer copies the table it is going to change.
LEMMA CopyStep ==
  ASSUME HIInv, ReadersKeepUp, NEW w \in Writers, Copy(w)
  PROVE  HIInv'
<1> USE DEF Copy
<1> DEFINE n == NextTbl(idx)
<1>1. n \in Tables /\ n # idx BY NextIs DEF HIInv, HTypeInv
<1>2. /\ tbl' = [tbl EXCEPT ![n] = tbl[idx]] /\ tbl'[n] = tbl[idx]
      /\ \A t \in Tables : t # n => tbl'[t] = tbl[t]
  BY <1>1 DEF HIInv, HTypeInv
<1>3. HTypeInv'
  <2>1. tbl' \in [Tables -> [Entries -> Fns \cup {NULL}]] BY <1>1, <1>2 DEF HIInv, HTypeInv
  <2>2. /\ upd' \in [op : {"none"} \cup Ops \cup Working, fn : Fns \cup {NULL}]
        /\ upd'.op # "none" /\ upd' # NoUpd /\ lock # NoOne
    BY DEF HIInv, HTypeInv, NoUpd, Working, Ops
  <2> QED BY <2>1, <2>2 DEF HIInv, HTypeInv
<1>4. TableInv'
  <2>1. Lists(tbl'[idx], registered) BY <1>1, <1>2 DEF HIInv, HTypeInv, TableInv
  <2>2. Updated' = registered BY DEF Updated, HIInv, HTypeInv
  <2>3. Lists(tbl'[n], registered) BY <1>2 DEF HIInv, TableInv
  <2> QED BY <2>1, <2>2, <2>3 DEF TableInv, HIInv, HTypeInv
<1>5. ReaderInv'
  <2>1. \A r \in Readers : reader[r].on => reader[r].t # n BY DEF HIInv
  <2> QED BY <1>2, <2>1 DEF HIInv, ReaderInv, ReaderOK
<1> QED BY <1>3, <1>4, <1>5 DEF HIInv

\* Changes the copy.
LEMMA ChangeStep ==
  ASSUME HIInv, NEW w \in Writers, Change(w)
  PROVE  HIInv'
<1> USE DEF Change
<1> DEFINE n == NextTbl(idx)
           what == IF upd.op = "change_register" THEN NULL ELSE upd.fn
<1>1. n \in Tables /\ n # idx BY NextIs DEF HIInv, HTypeInv
<1>2. /\ upd.op \in {"change_register", "change_unregister"} /\ upd.op \in Working
      /\ lock = w /\ lock # NoOne /\ upd.fn \in Fns \cup {NULL}
  BY HooksAssumption DEF Working, HIInv, HTypeInv
<1>3. /\ tbl[n] \in [Entries -> Fns \cup {NULL}] /\ Lists(tbl[n], registered)
      /\ registered \in Seq(Fns) /\ Len(registered) <= CbMax
  BY <1>1, <1>2 DEF HIInv, HTypeInv, TableInv, Updated
<1>4. CASE First(tbl[n], what) = 0
  <2>1. lock' = NoOne /\ upd' = NoUpd /\ UNCHANGED <<tbl, idx, active, reader, registered, updates>>
    BY <1>4
  <2>2. upd'.op \notin Working BY <2>1 DEF NoUpd, Working
  <2>3. HTypeInv' BY <2>1 DEF HIInv, HTypeInv, NoUpd
  <2>4. TableInv' BY <2>1, <2>2 DEF HIInv, TableInv
  <2>5. ReaderInv' BY <2>1, <2>2 DEF HIInv, ReaderInv, ReaderOK
  <2> QED BY <2>3, <2>4, <2>5 DEF HIInv
<1>5. CASE First(tbl[n], what) # 0
  <2>1. /\ tbl' = [tbl EXCEPT ![n] = IF upd.op = "change_register"
                                     THEN Registered(@, upd.fn) ELSE Unregistered(@, upd.fn)]
        /\ upd' = [upd EXCEPT !.op = IF @ = "change_register" THEN "add" ELSE "remove"]
        /\ UNCHANGED <<lock, idx, active, reader, registered, updates>>
    BY <1>5
  <2>2. /\ tbl'[n] = IF upd.op = "change_register"
                     THEN Registered(tbl[n], upd.fn) ELSE Unregistered(tbl[n], upd.fn)
        /\ \A t \in Tables : t # n => tbl'[t] = tbl[t]
        /\ DOMAIN tbl' = Tables
    BY <1>1, <2>1 DEF HIInv, HTypeInv
  <2>3. /\ upd' \in [op : {"none"} \cup Ops \cup Working, fn : Fns \cup {NULL}]
        /\ upd'.fn = upd.fn /\ upd'.op \in Working
        /\ upd'.op = IF upd.op = "change_register" THEN "add" ELSE "remove"
    BY <2>1 DEF HIInv, HTypeInv, Working
  <2>4. tbl'[n] \in [Entries -> Fns \cup {NULL}]
    <3>1. Registered(tbl[n], upd.fn) \in [Entries -> Fns \cup {NULL}]
      BY <1>2, <1>3 DEF Registered
    <3>2. Unregistered(tbl[n], upd.fn) \in [Entries -> Fns \cup {NULL}]
      <4>1. \A s \in Entries : s < CbMax => s + 1 \in Entries BY HooksAssumption DEF Entries
      <4> QED BY <1>3, <4>1 DEF Unregistered, pack_hook_tbl
    <3> QED BY <2>2, <3>1, <3>2
  <2>5. HTypeInv'
    <3>1. tbl' \in [Tables -> [Entries -> Fns \cup {NULL}]]
      <4>1. \A t \in Tables : tbl'[t] \in [Entries -> Fns \cup {NULL}]
        BY <2>2, <2>4 DEF HIInv, HTypeInv
      <4> QED BY <2>1, <2>2, <4>1 DEF HIInv, HTypeInv
    <3>2. upd' # NoUpd /\ upd'.op # "none" BY <2>3 DEF NoUpd, Working
    <3> QED BY <2>1, <2>3, <3>1, <3>2, <1>2 DEF HIInv, HTypeInv
  <2>6. TableInv'
    <3>1. Lists(tbl'[idx], registered) BY <1>1, <2>2 DEF HIInv, HTypeInv, TableInv
    <3>2. Updated' \in Seq(Fns) /\ Len(Updated') <= CbMax /\ Lists(tbl'[n], Updated')
      <4>1. CASE upd.op = "change_register" /\ upd.fn # NULL
        <5>1. Updated' = Append(registered, upd.fn)
          BY <2>1, <2>3, <4>1 DEF Updated
        <5> QED BY <5>1, <4>1, <2>2, <1>2, <1>3, <1>5, AppendedIs
      <4>2. CASE upd.op = "change_register" /\ upd.fn = NULL
        <5>1. Updated' = registered BY <2>1, <2>3, <4>2 DEF Updated
        <5> QED BY <5>1, <4>2, <2>2, <1>3, <1>5, NothingAppended
      <4>3. CASE upd.op = "change_unregister"
        <5>1. Updated' = RemoveFirst(registered, upd.fn)
          BY <2>1, <2>3, <4>3 DEF Updated
        <5> QED BY <5>1, <4>3, <2>2, <1>2, <1>3, <1>5, RemovedIs
      <4> QED BY <1>2, <4>1, <4>2, <4>3
    <3> QED BY <2>1, <3>1, <3>2 DEF TableInv
  <2>7. ReaderInv'
    <3>1. \A r \in Readers : reader[r].on => reader[r].t # n
      BY <1>2 DEF HIInv, ReaderInv, ReaderOK
    <3> QED BY <2>1, <2>2, <3>1 DEF HIInv, ReaderInv, ReaderOK
  <2> QED BY <2>5, <2>6, <2>7 DEF HIInv
<1> QED BY <1>4, <1>5

\* And makes it the table in use: readers of older tables stay readers of these.
LEMMA SwitchStep ==
  ASSUME HIInv, NEW w \in Writers, Switch(w)
  PROVE  HIInv'
<1> USE DEF Switch
<1>1. NextTbl(idx) \in Tables /\ NextTbl(idx) # idx BY NextIs DEF HIInv, HTypeInv
<1>2. upd.op \in Working /\ registered' = Updated /\ upd'.op \notin Working
  BY DEF Working, Updated, NoUpd
<1>3. HTypeInv' BY <1>1, <1>2 DEF HIInv, HTypeInv, TableInv, NoUpd
<1>4. TableInv' BY <1>2 DEF HIInv, TableInv
<1>5. ReaderInv' BY <1>2 DEF HIInv, ReaderInv, ReaderOK
<1> QED BY <1>3, <1>4, <1>5 DEF HIInv

\* A caller that is not done is at an entry with a function.
LEMMA AtEntry ==
  ASSUME HIInv, NEW r \in Readers, reader[r].on
  PROVE  /\ ~Done(r) => /\ reader[r].i \in 1..Len(reader[r].start)
                        /\ tbl[reader[r].t][reader[r].i] = reader[r].start[reader[r].i]
         /\ Done(r) => reader[r].i = Len(reader[r].start) + 1
<1> DEFINE x == reader[r]
<1>1. /\ x.start \in Seq(Fns) /\ Len(x.start) <= CbMax
      /\ Lists(tbl[x.t], x.start) /\ x.i \in 1..Len(x.start) + 1
  BY DEF HIInv, ReaderInv, ReaderOK
<1>2. Len(x.start) \in Nat /\ \A i \in 1..Len(x.start) : x.start[i] \in Fns
  BY <1>1, LenProperties, ElementOfSeq
<1>3. CbMax \in Nat /\ NULL \notin Fns BY HooksAssumption
<1>4. \A s \in Entries : tbl[x.t][s] = IF s <= Len(x.start) THEN x.start[s] ELSE NULL
  BY <1>1 DEF Lists
<1>5. CASE x.i = Len(x.start) + 1 BY <1>1, <1>2, <1>3, <1>4, <1>5 DEF Done, Entries
<1>6. CASE x.i \in 1..Len(x.start)
  <2>1. x.i \in Entries /\ x.i <= CbMax BY <1>6, <1>1, <1>2, <1>3 DEF Entries
  <2>2. tbl[x.t][x.i] = x.start[x.i] /\ x.start[x.i] # NULL BY <2>1, <1>2, <1>3, <1>4, <1>6
  <2> QED BY <1>6, <2>1, <2>2 DEF Done
<1> QED BY <1>1, <1>2, <1>5, <1>6

\* A caller reads which table is in use.
LEMMA StartCallStep ==
  ASSUME HIInv, NEW r \in Readers, StartCall(r)
  PROVE  HIInv'
<1> USE DEF StartCall
<1>1. NextTbl(idx) # idx BY NextIs DEF HIInv, HTypeInv
<1>2. HTypeInv' /\ TableInv'
  <2>1. Updated' = Updated BY DEF Updated
  <2> QED BY <2>1 DEF HIInv, HTypeInv, TableInv
<1>3. reader'[r] = [on |-> TRUE, t |-> active, i |-> 1, called |-> <<>>, start |-> registered]
  BY DEF HIInv, ReaderInv
<1>4. ReaderOK(reader[r])'
  <2>1. SubSeq(registered, 1, 0) = <<>> BY SubSeqEmpty
  <2>2. 1 \in 1..Len(registered) + 1 BY LenProperties DEF HIInv, HTypeInv
  <2> QED BY <1>1, <1>3, <2>1, <2>2 DEF ReaderOK, HIInv, HTypeInv, TableInv
<1>5. ASSUME NEW q \in Readers, q # r PROVE ReaderOK(reader[q])'
  BY <1>5 DEF HIInv, ReaderInv, ReaderOK
<1>6. reader' \in [Readers -> Reader]
  BY EmptySeq DEF HIInv, HTypeInv, ReaderInv, Reader
<1> QED BY <1>2, <1>4, <1>5, <1>6 DEF HIInv, ReaderInv

\* Calls the next function of it.
LEMMA CallNextStep ==
  ASSUME HIInv, NEW r \in Readers, CallNext(r)
  PROVE  HIInv'
<1> USE DEF CallNext
<1> DEFINE x == reader[r]
<1>1. HTypeInv' /\ TableInv'
  <2>1. Updated' = Updated BY DEF Updated
  <2> QED BY <2>1 DEF HIInv, HTypeInv, TableInv
<1>2. /\ reader'[r].called = Append(x.called, tbl[x.t][x.i]) /\ reader'[r].i = x.i + 1
      /\ reader'[r].t = x.t /\ reader'[r].start = x.start /\ reader'[r].on = x.on
  BY DEF HIInv, ReaderInv, Reader
<1>3. x.i \in 1..Len(x.start) /\ tbl[x.t][x.i] = x.start[x.i] BY AtEntry
<1>4. /\ x.start \in Seq(Fns) /\ x.called = SubSeq(x.start, 1, x.i - 1)
  BY DEF HIInv, ReaderInv, ReaderOK
<1>5. Append(x.called, x.start[x.i]) = SubSeq(x.start, 1, x.i)
  <2>1. SubSeq(x.start, 1, x.i) = SubSeq(x.start, 1, x.i - 1) \o <<x.start[x.i]>>
    <3>1. 1 \in 1..Len(x.start) /\ x.i \in 1..Len(x.start) BY <1>3
    <3> QED BY <3>1, <1>4, SubSeqRecursiveSecond
  <2>2. x.called \in Seq(Fns) /\ x.start[x.i] \in Fns
    <3>1. \A i \in 1..x.i - 1 : x.start[i] \in Fns BY <1>3, <1>4, ElementOfSeq, LenProperties
    <3>2. x.called \in Seq(Fns) BY <1>3, <1>4, <3>1, SubSeqProperties
    <3> QED BY <3>2, <1>3, <1>4, ElementOfSeq
  <2> QED BY <1>4, <2>1, <2>2, AppendIsConcat
<1>6. ReaderOK(reader[r])'
  <2>1. x.i + 1 \in 1..Len(x.start) + 1 /\ (x.i + 1) - 1 = x.i BY <1>3, <1>4, LenProperties
  <2>2. ReaderOK(x) /\ x.on BY DEF HIInv, ReaderInv
  <2>3. /\ reader'[r].on /\ reader'[r].t = x.t /\ reader'[r].start = x.start
        /\ reader'[r].i = x.i + 1 /\ reader'[r].called = Append(x.called, x.start[x.i])
    BY <1>2, <1>3
  <2> QED BY <1>5, <2>1, <2>2, <2>3 DEF ReaderOK
<1>7. ASSUME NEW q \in Readers, q # r PROVE ReaderOK(reader[q])'
  BY <1>7 DEF HIInv, ReaderInv, ReaderOK
<1>8. reader' \in [Readers -> Reader]
  <2>1. Append(x.called, x.start[x.i]) \in Seq(Fns) BY <1>3, <1>4, <1>5, SubSeqProperties, ElementOfSeq, LenProperties
  <2>2. x.i + 1 \in Nat BY <1>3
  <2> QED BY <1>3, <2>1, <2>2 DEF HIInv, ReaderInv, Reader
<1> QED BY <1>1, <1>6, <1>7, <1>8 DEF HIInv, ReaderInv

\* And ends: it has called the functions of one table, in their order.
LEMMA EndCallStep ==
  ASSUME HIInv, NEW r \in Readers, EndCall(r)
  PROVE  HIInv'
<1> USE DEF EndCall
<1>1. HTypeInv' /\ TableInv'
  <2>1. Updated' = Updated BY DEF Updated
  <2> QED BY <2>1 DEF HIInv, HTypeInv, TableInv
<1>2. ReaderInv'
  <2>1. NoReader \in Reader
    BY EmptySeq, HooksAssumption DEF NoReader, Tables, Reader
  <2> QED BY <2>1 DEF HIInv, ReaderInv, ReaderOK, NoReader
<1> QED BY <1>1, <1>2 DEF HIInv

\* Every step keeps the invariant of the tables.
LEMMA HStepIs ==
  ASSUME HIInv, ReadersKeepUp, [HooksNext]_hvars
  PROVE  HIInv'
<1>1. CASE UNCHANGED hvars
  <2>1. Updated' = Updated BY <1>1 DEF hvars, Updated
  <2> QED BY <1>1, <2>1 DEF hvars, HIInv, HTypeInv, TableInv, ReaderInv, ReaderOK
<1>2. ASSUME NEW w \in Writers, NEW fn \in Fns \cup {NULL},
             hook_register(w, fn) \/ hook_unregister(w, fn)
      PROVE  HIInv'
  BY <1>2, LockStep DEF hook_register, hook_unregister, Ops
<1>3. ASSUME NEW w \in Writers, Copy(w) \/ Change(w) \/ Switch(w)
      PROVE  HIInv'
  BY <1>3, CopyStep, ChangeStep, SwitchStep
<1>4. ASSUME NEW r \in Readers, StartCall(r) \/ CallNext(r) \/ EndCall(r)
      PROVE  HIInv'
  BY <1>4, StartCallStep, CallNextStep, EndCallStep
<1> QED BY <1>1, <1>2, <1>3, <1>4 DEF HooksNext

\* What the invariant says of the callbacks.
LEMMA HInvIs ==
  ASSUME HIInv
  PROVE  HooksInv
<1>1. HooksTypeOK BY DEF HIInv, HTypeInv, HooksTypeOK
<1>2. ActiveIsRegistered BY DEF HIInv, HTypeInv, TableInv, Lists, ActiveIsRegistered
<1>3. CallsSnapshot
  <2> SUFFICES ASSUME NEW r \in Readers, reader[r].on
               PROVE  /\ IsPrefix(reader[r].called, reader[r].start)
                      /\ Done(r) => reader[r].called = reader[r].start
    BY DEF CallsSnapshot
  <2> DEFINE x == reader[r]
  <2>1. /\ x.start \in Seq(Fns) /\ x.i \in 1..Len(x.start) + 1
        /\ x.called = SubSeq(x.start, 1, x.i - 1)
    BY DEF HIInv, ReaderInv, ReaderOK
  <2>2. Len(x.start) \in Nat BY <2>1, LenProperties
  <2>3. \A i \in 1..x.i - 1 : x.start[i] \in Fns BY <2>1, <2>2, ElementOfSeq
  <2>4. x.called \in Seq(Fns) /\ Len(x.called) = x.i - 1 BY <2>1, <2>2, <2>3, SubSeqProperties
  <2>5. SubSeq(x.called, 1, Len(x.called)) = x.called BY <2>4, SubSeqFull
  <2>6. IsPrefix(x.called, x.start) BY <2>1, <2>2, <2>4, <2>5 DEF IsPrefix
  <2>7. ASSUME Done(r) PROVE x.called = x.start
    <3>1. x.i - 1 = Len(x.start) BY <2>2, <2>7, AtEntry
    <3> QED BY <2>1, <3>1, SubSeqFull
  <2> QED BY <2>6, <2>7
<1> QED BY <1>1, <1>2, <1>3 DEF HooksInv

\* The active table is what is registered, and a core that calls the hooks calls
\* exactly those registered when it started, for any number of tables, entries,
\* cores and updates, if a caller is done before the ring of tables wraps around
\* (hook_register(), hook_unregister(), call_api_hooks_...()).
THEOREM HooksCorrect == ASSUME ReadersKeepUp PROVE HooksSpec => []HooksInv
<1>1. HooksInit => HIInv BY HInitIs
<1>2. HIInv /\ [HooksNext]_hvars => HIInv' BY HStepIs
<1>3. HIInv => HooksInv BY HInvIs
<1> QED BY <1>1, <1>2, <1>3, PTL DEF HooksSpec

-----------------------------------------------------------------------------
(* Counting in sequences *)

\* The places of v in s.
At(s, v) == {i \in DOMAIN s : s[i] = v}

\* A sequence cut in two.
LEMMA SplitIs ==
  ASSUME NEW S, NEW s \in Seq(S), NEW n \in 0..Len(s)
  PROVE  /\ SubSeq(s, 1, n) \in Seq(S) /\ Len(SubSeq(s, 1, n)) = n
         /\ \A i \in 1..n : SubSeq(s, 1, n)[i] = s[i]
         /\ Rest(s, n) \in Seq(S) /\ Len(Rest(s, n)) = Len(s) - n
         /\ \A i \in 1..Len(s) - n : Rest(s, n)[i] = s[n + i]
<1>1. Len(s) \in Nat /\ \A i \in 1..Len(s) : s[i] \in S BY LenProperties, ElementOfSeq
<1>2. /\ SubSeq(s, 1, n) \in Seq(S) /\ Len(SubSeq(s, 1, n)) = IF 1 <= n THEN n - 1 + 1 ELSE 0
      /\ \A i \in 1..n - 1 + 1 : SubSeq(s, 1, n)[i] = s[1 + i - 1]
  BY <1>1, SubSeqProperties
<1>3. \A i \in n + 1..Len(s) : s[i] \in S BY <1>1
<1>4. /\ SubSeq(s, n + 1, Len(s)) \in Seq(S)
      /\ Len(SubSeq(s, n + 1, Len(s))) = IF n + 1 <= Len(s) THEN Len(s) - (n + 1) + 1 ELSE 0
      /\ \A i \in 1..Len(s) - (n + 1) + 1 : SubSeq(s, n + 1, Len(s))[i] = s[n + 1 + i - 1]
  BY <1>1, <1>3, SubSeqProperties
<1> QED BY <1>1, <1>2, <1>4 DEF Rest

\* A set that is mapped one to one onto another has its size.
LEMMA SameSize ==
  ASSUME NEW S, NEW T, IsFiniteSet(S), NEW f \in [S -> T],
         \A x, y \in S : f[x] = f[y] => x = y, \A t \in T : \E x \in S : f[x] = t
  PROVE  IsFiniteSet(T) /\ Cardinality(T) = Cardinality(S)
<1>1. f \in Injection(S, T) BY DEF Injection, IsInjective
<1>2. f \in Surjection(S, T) BY DEF Surjection
<1>3. ExistsBijection(S, T) BY <1>1, <1>2 DEF ExistsBijection, Bijection
<1> QED BY <1>3, FS_Bijection

\* How often a value is in a sequence is a natural number.
LEMMA CountIs ==
  ASSUME NEW S, NEW s \in Seq(S), NEW v
  PROVE  /\ IsFiniteSet(At(s, v)) /\ Count(s, v) = Cardinality(At(s, v))
         /\ Count(s, v) \in Nat /\ Count(s, v) <= Len(s)
<1>1. Len(s) \in Nat /\ DOMAIN s = 1..Len(s) BY LenProperties
<1>2. IsFiniteSet(1..Len(s)) /\ Cardinality(1..Len(s)) = Len(s)
  BY <1>1, FS_Interval
<1>3. At(s, v) \in SUBSET (1..Len(s)) BY <1>1 DEF At
<1>4. IsFiniteSet(At(s, v)) /\ Cardinality(At(s, v)) <= Len(s) BY <1>2, <1>3, FS_Subset
<1>5. Cardinality(At(s, v)) \in Nat BY <1>4, FS_CardinalityType
<1> QED BY <1>4, <1>5 DEF Count, At

\* It is 0 times in the empty sequence.
LEMMA CountNone ==
  ASSUME NEW v
  PROVE  Count(<<>>, v) = 0
<1>1. {i \in DOMAIN <<>> : <<>>[i] = v} = {} OBVIOUS
<1> QED BY <1>1, FS_EmptySet DEF Count

\* All of a sequence, or none of it.
LEMMA CountAll ==
  ASSUME NEW S, NEW s \in Seq(S), NEW v, NEW w, \A i \in 1..Len(s) : s[i] = w
  PROVE  Count(s, v) = IF v = w THEN Len(s) ELSE 0
<1>1. Len(s) \in Nat /\ DOMAIN s = 1..Len(s) BY LenProperties
<1>2. CASE v = w
  <2>1. At(s, v) = 1..Len(s) BY <1>1, <1>2 DEF At
  <2>2. Cardinality(1..Len(s)) = Len(s) BY <1>1, FS_Interval
  <2> QED BY <1>2, <2>1, <2>2, CountIs
<1>3. CASE v # w
  <2>1. At(s, v) = {} BY <1>1, <1>3 DEF At
  <2> QED BY <1>3, <2>1, CountIs, FS_EmptySet
<1> QED BY <1>2, <1>3

\* One more element counts once if it is the value.
LEMMA CountAppend ==
  ASSUME NEW S, NEW s \in Seq(S), NEW x \in S, NEW v
  PROVE  Count(Append(s, x), v) = Count(s, v) + (IF x = v THEN 1 ELSE 0)
<1> DEFINE t == Append(s, x)  n == Len(s) + 1
<1>1. Len(s) \in Nat /\ DOMAIN s = 1..Len(s) BY LenProperties
<1>2. t \in Seq(S) /\ Len(t) = n /\ (\A i \in 1..Len(s) : t[i] = s[i]) /\ t[n] = x
  BY AppendProperties
<1>3. DOMAIN t = 1..n BY <1>2, LenProperties
<1>4. IsFiniteSet(At(s, v)) /\ Count(s, v) = Cardinality(At(s, v)) BY CountIs
<1>5. Count(t, v) = Cardinality(At(t, v)) BY <1>2, CountIs
<1> HIDE DEF t
<1>6. n \notin At(s, v) BY <1>1 DEF At
<1>7. CASE x = v
  <2>1. At(t, v) = At(s, v) \cup {n} BY <1>1, <1>2, <1>3, <1>7 DEF At
  <2>2. Cardinality(At(s, v) \cup {n}) = Cardinality(At(s, v)) + 1 BY <1>4, <1>6, FS_AddElement
  <2> QED BY <1>4, <1>5, <1>7, <2>1, <2>2 DEF t
<1>8. CASE x # v
  <2>1. At(t, v) = At(s, v) BY <1>1, <1>2, <1>3, <1>8 DEF At
  <2>2. Count(s, v) \in Nat BY CountIs
  <2> QED BY <1>4, <1>5, <1>8, <2>1, <2>2 DEF t
<1> QED BY <1>7, <1>8

\* A sequence that is split loses nothing.
LEMMA CountSplit ==
  ASSUME NEW S, NEW s \in Seq(S), NEW n \in 0..Len(s), NEW v
  PROVE  Count(s, v) = Count(SubSeq(s, 1, n), v) + Count(Rest(s, n), v)
<1> DEFINE a == SubSeq(s, 1, n)  b == Rest(s, n)
<1>1. Len(s) \in Nat /\ DOMAIN s = 1..Len(s) BY LenProperties
<1>2. /\ a \in Seq(S) /\ Len(a) = n /\ \A i \in 1..n : a[i] = s[i]
      /\ b \in Seq(S) /\ Len(b) = Len(s) - n /\ \A i \in 1..Len(s) - n : b[i] = s[n + i]
  BY SplitIs
<1> HIDE DEF a, b
<1>3. DOMAIN a = 1..n /\ DOMAIN b = 1..Len(s) - n BY <1>2, LenProperties
<1>4. /\ IsFiniteSet(At(a, v)) /\ Count(a, v) = Cardinality(At(a, v))
      /\ IsFiniteSet(At(b, v)) /\ Count(b, v) = Cardinality(At(b, v))
      /\ Count(s, v) = Cardinality(At(s, v)) /\ Count(a, v) \in Nat /\ Count(b, v) \in Nat
  BY <1>2, CountIs
<1> DEFINE T == {i \in At(s, v) : i > n}  f == [i \in At(b, v) |-> n + i]
<1>5. IsFiniteSet(T) /\ Cardinality(T) = Cardinality(At(b, v))
  <2>1. f \in [At(b, v) -> T] BY <1>1, <1>2, <1>3 DEF At
  <2>2. \A x, y \in At(b, v) : f[x] = f[y] => x = y BY <1>3 DEF At
  <2>3. ASSUME NEW t \in T PROVE \E x \in At(b, v) : f[x] = t
    <3>1. t - n \in At(b, v) /\ n + (t - n) = t BY <1>1, <1>2, <1>3, <2>3 DEF At
    <3> QED BY <3>1
  <2> HIDE DEF f, T
  <2> QED BY <1>4, <2>1, <2>2, <2>3, SameSize
<1>6. At(s, v) = At(a, v) \cup T BY <1>1, <1>2, <1>3 DEF At
<1>7. At(a, v) \cap T = {} BY <1>3 DEF At
<1>8. Cardinality(At(s, v)) = Cardinality(At(a, v)) + Cardinality(T) - Cardinality({})
  <2> HIDE DEF T
  <2> QED BY <1>4, <1>5, <1>6, <1>7, FS_Union
<1> QED BY <1>4, <1>5, <1>8, FS_EmptySet DEF a, b

\* The smaller of two numbers.
LEMMA MinOfTwo ==
  ASSUME NEW a \in Nat, NEW b \in Nat
  PROVE  Min({a, b}) = IF a <= b THEN a ELSE b
<1>1. Min({a, b}) \in {a, b} /\ \A y \in {a, b} : Min({a, b}) <= y BY MinIs
<1> QED BY <1>1

\* A non-empty set of numbers up to n has a greatest one, and Max() is it.
LEMMA MaxUpTo ==
  ASSUME NEW n \in Nat, NEW T \in SUBSET (0..n), T # {}
  PROVE  Max(T) \in T /\ \A y \in T : y <= Max(T)
<1> DEFINE R == {n - x : x \in T}
<1>1. R \in SUBSET Nat /\ R # {}
  <2>1. \A x \in T : n - x \in Nat OBVIOUS
  <2>2. PICK x \in T : TRUE OBVIOUS
  <2>3. n - x \in R BY <2>2
  <2> QED BY <2>1, <2>3
<1>2. Min(R) \in R /\ \A y \in R : Min(R) <= y BY <1>1, MinIs
<1>3. PICK x \in T : Min(R) = n - x BY <1>2
<1>4. \A y \in T : n - y \in R OBVIOUS
<1>5. \A y \in T : x >= y
  <2> SUFFICES ASSUME NEW y \in T PROVE x >= y OBVIOUS
  <2>1. n - x <= n - y BY <1>2, <1>3, <1>4
  <2> QED BY <2>1
<1> QED BY <1>5 DEF Max

\* The first entries of a sequence that are alike.
Alike(s, n) == \A i \in 1..n : s[i] = s[1]

\* The events at the front of a batch that are of one event group.
LEMMA SameGroupIs ==
  ASSUME NEW s \in Seq(Tags), s # <<>>
  PROVE  SameGroup(s) \in 1..Len(s) /\ Alike(s, SameGroup(s))
<1> DEFINE T == {n \in 1..Len(s) : \A i \in 1..n : s[i] = s[1]}
<1>1. Len(s) \in Nat /\ Len(s) # 0 BY LenProperties, EmptySeq
<1>2. 1 \in T BY <1>1
<1>3. T \in SUBSET (0..Len(s)) BY <1>1
<1>4. Max(T) \in T BY <1>1, <1>2, <1>3, MaxUpTo
<1> QED BY <1>4 DEF SameGroup, Alike

\* A batch is not empty, and of one group.
LEMMA BatchLenIs ==
  ASSUME NEW q, NEW s \in Seq(Tags), s # <<>>
  PROVE  BatchLen(q, s) \in 1..Len(s) /\ Alike(s, BatchLen(q, s))
<1>1. Len(s) \in Nat /\ Len(s) # 0 BY LenProperties, EmptySeq
<1>2. SameGroup(s) \in 1..Len(s) /\ Alike(s, SameGroup(s)) BY SameGroupIs
<1>3. CASE q \in MultiRcv
  <2>1. MaxEvents \in Nat \ {0} BY DispatchAssumption
  <2>2. BatchLen(q, s) = IF SameGroup(s) <= MaxEvents THEN SameGroup(s) ELSE MaxEvents
    BY <1>1, <1>2, <1>3, <2>1, MinOfTwo DEF BatchLen
  <2> QED BY <1>1, <1>2, <2>1, <2>2 DEF Alike
<1>4. CASE q \notin MultiRcv BY <1>1, <1>4 DEF BatchLen, Alike
<1> QED BY <1>3, <1>4

-----------------------------------------------------------------------------
(* The entries of the local queues *)

Item == [q : LocalQ, g : Tags]

\* The tags of a batch, in its order.
LEMMA TagsIs ==
  ASSUME NEW s \in Seq(Item)
  PROVE  /\ TagsOf(s) \in Seq(Tags) /\ Len(TagsOf(s)) = Len(s)
         /\ \A i \in 1..Len(s) : TagsOf(s)[i] = s[i].g
<1>1. Len(s) \in Nat /\ DOMAIN s = 1..Len(s) BY LenProperties
<1>2. \A i \in 1..Len(s) : s[i] \in Item BY ElementOfSeq
<1>3. TagsOf(s) \in [1..Len(s) -> Tags] BY <1>1, <1>2 DEF TagsOf, Item
<1> QED BY <1>1, <1>3, SeqDef DEF TagsOf

\* The tags of a batch with one more event.
LEMMA TagsAppend ==
  ASSUME NEW s \in Seq(Item), NEW e \in Item
  PROVE  TagsOf(Append(s, e)) = Append(TagsOf(s), e.g)
<1> DEFINE a == TagsOf(Append(s, e))  b == Append(TagsOf(s), e.g)
<1>1. Len(s) \in Nat BY LenProperties
<1>2. /\ Append(s, e) \in Seq(Item) /\ Len(Append(s, e)) = Len(s) + 1
      /\ \A i \in 1..Len(s) : Append(s, e)[i] = s[i]
      /\ Append(s, e)[Len(s) + 1] = e
  BY AppendProperties
<1>3. /\ TagsOf(s) \in Seq(Tags) /\ Len(TagsOf(s)) = Len(s)
      /\ \A i \in 1..Len(s) : TagsOf(s)[i] = s[i].g
  BY TagsIs
<1>4. /\ a \in Seq(Tags) /\ Len(a) = Len(s) + 1
      /\ \A i \in 1..Len(s) + 1 : a[i] = Append(s, e)[i].g
  BY <1>2, TagsIs
<1>5. e.g \in Tags BY DEF Item
<1>6. /\ b \in Seq(Tags) /\ Len(b) = Len(s) + 1
      /\ \A i \in 1..Len(s) : b[i] = TagsOf(s)[i]
      /\ b[Len(s) + 1] = e.g
  BY <1>3, <1>5, AppendProperties
<1> HIDE DEF a, b
<1>7. \A i \in 1..Len(a) : a[i] = b[i] BY <1>1, <1>2, <1>3, <1>4, <1>6
<1>8. a = b BY <1>4, <1>6, <1>7, SeqEqual
<1> QED BY <1>8 DEF a, b

\* And of a batch cut in two.
LEMMA TagsSplit ==
  ASSUME NEW s \in Seq(Item), NEW n \in 0..Len(s)
  PROVE  /\ TagsOf(SubSeq(s, 1, n)) = SubSeq(TagsOf(s), 1, n)
         /\ TagsOf(Rest(s, n)) = Rest(TagsOf(s), n)
<1> DEFINE t == TagsOf(s)
<1>1. Len(s) \in Nat BY LenProperties
<1>2. /\ SubSeq(s, 1, n) \in Seq(Item) /\ Len(SubSeq(s, 1, n)) = n
      /\ \A i \in 1..n : SubSeq(s, 1, n)[i] = s[i]
      /\ Rest(s, n) \in Seq(Item) /\ Len(Rest(s, n)) = Len(s) - n
      /\ \A i \in 1..Len(s) - n : Rest(s, n)[i] = s[n + i]
  BY SplitIs
<1>3. t \in Seq(Tags) /\ Len(t) = Len(s) /\ \A i \in 1..Len(s) : t[i] = s[i].g BY TagsIs
<1> HIDE DEF t
<1>4. /\ SubSeq(t, 1, n) \in Seq(Tags) /\ Len(SubSeq(t, 1, n)) = n
      /\ \A i \in 1..n : SubSeq(t, 1, n)[i] = t[i]
      /\ Rest(t, n) \in Seq(Tags) /\ Len(Rest(t, n)) = Len(s) - n
      /\ \A i \in 1..Len(s) - n : Rest(t, n)[i] = t[n + i]
  <2>1. n \in 0..Len(t) BY <1>3
  <2> QED BY <1>3, <2>1, SplitIs
<1>5. /\ TagsOf(SubSeq(s, 1, n)) \in Seq(Tags) /\ Len(TagsOf(SubSeq(s, 1, n))) = n
      /\ \A i \in 1..n : TagsOf(SubSeq(s, 1, n))[i] = SubSeq(s, 1, n)[i].g
  BY <1>2, TagsIs
<1>6. /\ TagsOf(Rest(s, n)) \in Seq(Tags) /\ Len(TagsOf(Rest(s, n))) = Len(s) - n
      /\ \A i \in 1..Len(s) - n : TagsOf(Rest(s, n))[i] = Rest(s, n)[i].g
  BY <1>2, TagsIs
<1>7. \A i \in 1..n : TagsOf(SubSeq(s, 1, n))[i] = SubSeq(t, 1, n)[i]
  BY <1>1, <1>2, <1>3, <1>4, <1>5
<1>8. \A i \in 1..Len(s) - n : TagsOf(Rest(s, n))[i] = Rest(t, n)[i]
  <2>1. \A i \in 1..Len(s) - n : n + i \in 1..Len(s) BY <1>1
  <2> QED BY <2>1, <1>2, <1>3, <1>4, <1>6
<1>9. TagsOf(SubSeq(s, 1, n)) = SubSeq(t, 1, n) BY <1>4, <1>5, <1>7, SeqEqual
<1>10. TagsOf(Rest(s, n)) = Rest(t, n) BY <1>4, <1>6, <1>8, SeqEqual
<1> QED BY <1>9, <1>10 DEF t

-----------------------------------------------------------------------------
(* Counting in families of queues *)

\* The places of v in the queues P of the family f.
Places(f, P, v) == {x \in UNION {{p} \X DOMAIN f[p] : p \in P} : f[x[1]][x[2]] = v}

\* Events on their way are finitely many.
LEMMA PlacesFinite ==
  ASSUME NEW Q, IsFiniteSet(Q), NEW S, NEW f \in [Q -> Seq(S)], NEW v
  PROVE  IsFiniteSet(Places(f, Q, v))
<1> DEFINE R == {{p} \X DOMAIN f[p] : p \in Q}  h == [p \in Q |-> {p} \X DOMAIN f[p]]
<1>1. h \in Surjection(Q, R) BY DEF Surjection
<1>2. IsFiniteSet(R)
  <2> HIDE DEF h, R
  <2> QED BY <1>1, FS_Surjection
<1>3. ASSUME NEW T \in R PROVE IsFiniteSet(T)
  <2>1. PICK p \in Q : T = {p} \X DOMAIN f[p] BY <1>3
  <2>2. Len(f[p]) \in Nat /\ DOMAIN f[p] = 1..Len(f[p])
    <3>1. f[p] \in Seq(S) OBVIOUS
    <3> QED BY <3>1, LenProperties
  <2>3. IsFiniteSet(DOMAIN f[p]) BY <2>2, FS_Interval
  <2>4. IsFiniteSet({p}) BY FS_Singleton
  <2> QED BY <2>1, <2>3, <2>4, FS_Product
<1>4. IsFiniteSet(UNION R)
  <2> HIDE DEF R
  <2> QED BY <1>2, <1>3, FS_UNION
<1>5. Places(f, Q, v) \in SUBSET (UNION R) BY DEF Places
<1> HIDE DEF R
<1> QED BY <1>4, <1>5, FS_Subset

\* Their total over all places is a number.
LEMMA TotalNat ==
  ASSUME NEW Q, IsFiniteSet(Q), NEW S, NEW f \in [Q -> Seq(S)], NEW v
  PROVE  Total(f, v) \in Nat
<1>1. Total(f, v) = Cardinality(Places(f, Q, v)) BY DEF Total, Places
<1> QED BY <1>1, PlacesFinite, FS_CardinalityType

\* The total is that of the other queues and that of q.
Apart(f, Q, q, v) ==
  /\ Cardinality(Places(f, Q \ {q}, v)) \in Nat
  /\ Total(f, v) = Cardinality(Places(f, Q \ {q}, v)) + Count(f[q], v)

\* Which is that of one place and of the others.
LEMMA TotalSplit ==
  ASSUME NEW Q, IsFiniteSet(Q), NEW S, NEW f \in [Q -> Seq(S)], NEW q \in Q, NEW v
  PROVE  Apart(f, Q, q, v)
<1> DEFINE A == Places(f, Q, v)  B == Places(f, Q \ {q}, v)  C == Places(f, {q}, v)
<1>1. f[q] \in Seq(S) OBVIOUS
<1>2. IsFiniteSet(At(f[q], v)) /\ Count(f[q], v) = Cardinality(At(f[q], v)) BY <1>1, CountIs
<1>3. IsFiniteSet(A) BY PlacesFinite
<1>4. A = B \cup C
  <2>1. ASSUME NEW x \in A PROVE x \in B \/ x \in C
    <3>1. PICK p \in Q : x \in {p} \X DOMAIN f[p] BY <2>1 DEF Places
    <3>2. CASE p = q BY <2>1, <3>1, <3>2 DEF Places
    <3>3. CASE p # q BY <2>1, <3>1, <3>3 DEF Places
    <3> QED BY <3>2, <3>3
  <2>2. B \subseteq A /\ C \subseteq A BY DEF Places
  <2> QED BY <2>1, <2>2
<1>5. B \cap C = {}
  <2>1. \A x \in C : x[1] = q BY DEF Places
  <2>2. \A x \in B : x[1] # q BY DEF Places
  <2> QED BY <2>1, <2>2
<1>6. IsFiniteSet(B) /\ IsFiniteSet(C) BY <1>3, <1>4, FS_Subset
<1>7. Cardinality(C) = Cardinality(At(f[q], v))
  <2> DEFINE h == [i \in At(f[q], v) |-> <<q, i>>]
  <2>1. h \in [At(f[q], v) -> C] BY DEF Places, At
  <2>2. \A x, y \in At(f[q], v) : h[x] = h[y] => x = y OBVIOUS
  <2>3. \A t \in C : \E x \in At(f[q], v) : h[x] = t BY DEF Places, At
  <2> HIDE DEF h, C
  <2> QED BY <1>2, <2>1, <2>2, <2>3, SameSize
<1>8. Total(f, v) = Cardinality(A) BY DEF Total, Places
<1>9. /\ Cardinality(A) = Cardinality(B) + Cardinality(C) - Cardinality({})
      /\ Cardinality(B) \in Nat /\ Cardinality(C) \in Nat
  <2> HIDE DEF A, B, C
  <2> QED BY <1>4, <1>5, <1>6, FS_Union, FS_CardinalityType
<1> QED BY <1>2, <1>7, <1>8, <1>9, FS_EmptySet DEF Apart

\* One queue changes: the total changes by as much.
Moves(f, h, q, v) == Total(h, v) + Count(f[q], v) = Total(f, v) + Count(h[q], v)

\* So that it changes as that of the one place that changes.
LEMMA TotalChange ==
  ASSUME NEW Q, IsFiniteSet(Q), NEW S, NEW f \in [Q -> Seq(S)], NEW h \in [Q -> Seq(S)],
         NEW q \in Q, h = [f EXCEPT ![q] = h[q]], NEW v
  PROVE  Moves(f, h, q, v)
<1>1. Places(h, Q \ {q}, v) = Places(f, Q \ {q}, v)
  <2>1. \A p \in Q \ {q} : h[p] = f[p] OBVIOUS
  <2>2. {{p} \X DOMAIN h[p] : p \in Q \ {q}} = {{p} \X DOMAIN f[p] : p \in Q \ {q}} BY <2>1
  <2>3. \A x \in UNION {{p} \X DOMAIN f[p] : p \in Q \ {q}} : h[x[1]] = f[x[1]] BY <2>1
  <2> QED BY <2>2, <2>3 DEF Places
<1>2. Apart(f, Q, q, v) /\ Apart(h, Q, q, v) BY TotalSplit
<1>3. Count(f[q], v) \in Nat /\ Count(h[q], v) \in Nat
  <2>1. f[q] \in Seq(S) /\ h[q] \in Seq(S) OBVIOUS
  <2> QED BY <2>1, CountIs
<1> QED BY <1>1, <1>2, <1>3 DEF Apart, Moves

\* No queue holds anything.
LEMMA TotalNone ==
  ASSUME NEW f, \A q \in DOMAIN f : f[q] = <<>>, NEW v
  PROVE  Total(f, v) = 0
<1>1. {x \in UNION {{q} \X DOMAIN f[q] : q \in DOMAIN f} : f[x[1]][x[2]] = v} = {}
  BY DOMAIN <<>> = {}
<1> QED BY <1>1, FS_EmptySet DEF Total

\* A finite non-empty set of numbers has a greatest one.
LEMMA MaxIs ==
  ASSUME NEW T \in SUBSET Nat, T # {}, IsFiniteSet(T)
  PROVE  Max(T) \in T /\ \A y \in T : y <= Max(T)
<1> DEFINE Bounded(U) == \E x \in U : \A y \in U : y <= x
           Bad == {m \in Nat : \E U \in SUBSET Nat :
                     IsFiniteSet(U) /\ U # {} /\ Cardinality(U) = m /\ ~Bounded(U)}
<1>1. ASSUME Bad # {} PROVE FALSE
  <2>1. Bad \subseteq Nat OBVIOUS
  <2>2. Min(Bad) \in Bad /\ \A y \in Bad : Min(Bad) <= y BY <1>1, <2>1, MinIs
  <2>3. PICK m \in Bad : \A y \in Bad : m <= y BY <2>2
  <2>4. PICK U \in SUBSET Nat : IsFiniteSet(U) /\ U # {} /\ Cardinality(U) = m /\ ~Bounded(U)
    BY <2>3
  <2>5. PICK x \in U : TRUE BY <2>4
  <2>6. IsFiniteSet(U \ {x}) /\ Cardinality(U \ {x}) = m - 1 BY <2>4, <2>5, FS_RemoveElement
  <2>7. m - 1 \in Nat /\ m \in Nat BY <2>6, <2>3, FS_CardinalityType
  <2>8. m - 1 \notin Bad BY <2>3, <2>7
  <2>9. CASE U \ {x} = {}
    <3>1. \A y \in U : y <= x BY <2>9, <2>5
    <3> QED BY <3>1, <2>4
  <2>10. CASE U \ {x} # {}
    <3>1. PICK z \in U \ {x} : \A y \in U \ {x} : y <= z BY <2>6, <2>7, <2>8, <2>10
    <3>2. CASE x <= z BY <3>1, <3>2, <2>4
    <3>3. CASE ~(x <= z)
      <4>1. \A y \in U : y <= x BY <3>1, <3>3, <2>5
      <4> QED BY <4>1, <2>4
    <3> QED BY <3>2, <3>3
  <2> QED BY <2>9, <2>10
<1>2. Cardinality(T) \in Nat BY FS_CardinalityType
<1>3. PICK x \in T : \A y \in T : y <= x BY <1>1, <1>2
<1>4. \A y \in T : x >= y BY <1>3
<1> QED BY <1>3, <1>4 DEF Max

-----------------------------------------------------------------------------
(* Dispatch: the inductive invariant *)

\* The core is between two rounds, or in a round and serving local queues.
Idling  == pc \in {"app", "check", "poll", "ctrl", "sched", "end"}
Serving == pc \in {"batch", "rcv", "local", "entry", "lbatch"}

DTypeInv ==
  /\ pc \in {"app", "check", "poll", "ctrl", "sched", "batch", "rcv", "local",
             "entry", "lbatch", "end"}
  /\ queued \in [SchedQ -> Seq(Tags)]
  /\ pre \in [q : SchedQ \cup {NoQ}, evs : Seq(Tags)]
  /\ local \in [Prios -> Seq(Item)]
  /\ empty \in BOOLEAN /\ emptyPrio \in [Prios -> BOOLEAN]
  /\ cur \in [q : Queues \cup {NoQ}, sq : SchedQ \cup {NoQ}, egrp : Tags]
  /\ burst \in Seq(Tags) /\ lbatch \in Seq(Tags) /\ ctrl \in Seq(Tags)
  /\ entries \in Seq(Item)
  /\ run \in [num : Nat, kept : Nat] /\ run.kept <= run.num
  /\ idle \in BOOLEAN /\ (pc # "app" => opt \in Opts)
  /\ tot \in [rounds : Nat, events : Nat, noev : Nat, local : Nat]
  /\ got \in Nat /\ handled \in Nat
  /\ post \in [Groups -> Nat] /\ ready \subseteq Queues
  /\ unsent \in [Tags -> Nat] /\ freed \in [Tags -> Nat]

\* Where the core is determines what it has in hand.
WorkInv ==
  /\ Idling => cur = NoCur /\ burst = <<>> /\ entries = <<>> /\ lbatch = <<>>
  /\ pc # "rcv" => cur.egrp = NoGrp /\ run = NoRun
  /\ pc \in {"batch", "local"} => entries = <<>> /\ lbatch = <<>>
  /\ pc = "entry" => lbatch = <<>>
  /\ pc = "batch" => cur.q = cur.sq /\ cur.sq \in SchedQ
  /\ pc = "lbatch" => cur.q \in LocalQ
  /\ pc = "rcv" => \/ cur.q \in LocalQ
                   \/ cur.q = cur.sq /\ cur.sq \in SchedQ /\ entries = <<>> /\ lbatch = <<>>
  /\ cur.sq = NoQ => burst = <<>>

\* What is served has been counted, or is in hand.
CountInv ==
  handled + Len(burst) + Len(entries) + Len(lbatch)
    = tot.events + tot.local + (IF Serving \/ pc = "end" THEN got ELSE 0)

\* A round without events leaves nothing that the scheduler has taken.
PauseInv ==
  paused /\ (pc = "app" \/ (got = 0 /\ (Serving \/ pc = "end"))) /\ pre.evs # <<>>
    => pre.q \notin ready

\* A batch that is not the first of its burst finds the local queues empty.
BatchInv == pc = "batch" /\ Len(burst) < got => empty

\* A core that serves a queue is active.
IdleInv == Serving => ~idle

DIInv ==
  /\ DTypeInv /\ WorkInv /\ FlagsCoverLocal /\ IdleInv
  /\ CountInv /\ PauseInv /\ BatchInv

\* Lengths of the queues.
LEMMA LengthsAre ==
  ASSUME DTypeInv
  PROVE  /\ Len(burst) \in Nat /\ (burst = <<>> <=> Len(burst) = 0)
         /\ Len(entries) \in Nat /\ (entries = <<>> <=> Len(entries) = 0)
         /\ Len(lbatch) \in Nat /\ (lbatch = <<>> <=> Len(lbatch) = 0)
         /\ Len(pre.evs) \in Nat /\ (pre.evs = <<>> <=> Len(pre.evs) = 0)
<1>1. burst \in Seq(Tags) /\ entries \in Seq(Item) /\ lbatch \in Seq(Tags) /\ pre.evs \in Seq(Tags)
  BY DEF DTypeInv
<1> QED BY <1>1, LenProperties, EmptySeq

\* There are finitely many queues.
LEMMA FiniteQueues ==
  /\ IsFiniteSet(SchedQ) /\ IsFiniteSet(LocalQ) /\ IsFiniteSet(Prios) /\ Prios \in SUBSET Nat
  /\ \A q \in LocalQ : Prio[q] \in Prios
<1>1. SchedQ \in SUBSET Queues /\ LocalQ \in SUBSET Queues BY DEF Queues
<1>2. IsFiniteSet(Queues) /\ Prio \in [LocalQ -> Nat] BY DispatchAssumption
<1>3. IsFiniteSet(SchedQ) /\ IsFiniteSet(LocalQ) BY <1>1, <1>2, FS_Subset
<1>4. Prio \in Surjection(LocalQ, Prios) BY <1>2 DEF Surjection, Prios
<1>5. IsFiniteSet(Prios) BY <1>3, <1>4, FS_Surjection
<1> QED BY <1>2, <1>3, <1>5 DEF Prios

\* The local queues are looked for at the highest priority that has events.
LEMMA NextPrioIs ==
  ASSUME DTypeInv, Occupied # {}
  PROVE  /\ NextPrio \in Prios /\ local[NextPrio] # <<>> /\ local[NextPrio] \in Seq(Item)
         /\ \A p \in Prios : p > NextPrio => emptyPrio[p] \/ local[p] = <<>>
<1>1. Occupied \in SUBSET Prios BY DEF Occupied, Marked
<1>2. IsFiniteSet(Occupied) /\ Occupied \in SUBSET Nat BY <1>1, FiniteQueues, FS_Subset
<1>3. NextPrio \in Occupied /\ \A p \in Occupied : p <= NextPrio BY <1>2, MaxIs DEF NextPrio
<1>4. NextPrio \in Prios /\ local[NextPrio] # <<>> BY <1>3 DEF Occupied, Marked
<1>5. ASSUME NEW p \in Prios, p > NextPrio PROVE emptyPrio[p] \/ local[p] = <<>>
  <2>1. p \notin Occupied BY <1>2, <1>3, <1>5, <1>4, FiniteQueues
  <2> QED BY <2>1, <1>5 DEF Occupied, Marked
<1> QED BY <1>4, <1>5 DEF DTypeInv

\* What the scheduler hands out is not empty and is taken off its queue or off
\* what was taken before; without events there is nothing taken before.
LEMMA ScheduledIs ==
  ASSUME DTypeInv, NEW b \in Nat \ {0}, NEW s \in Scheduled(b)
  PROVE  /\ s.q \in SchedQ \cup {NoQ} /\ s.evs \in Seq(Tags) /\ s.evs # <<>>
         /\ s.pre \in [q : SchedQ \cup {NoQ}, evs : Seq(Tags)]
         /\ s.queued \in [SchedQ -> Seq(Tags)] /\ s.pre.q = s.q
         /\ \A g : Total(s.queued, g) + Count(s.pre.evs, g) + Count(s.evs, g)
                      = Total(queued, g) + Count(pre.evs, g)
<1>1. pre \in [q : SchedQ \cup {NoQ}, evs : Seq(Tags)] /\ queued \in [SchedQ -> Seq(Tags)]
  BY DEF DTypeInv
<1>2. CASE pre.evs # <<>>
  <2> DEFINE n == Min({b, Len(pre.evs)})
  <2>1. s = [q |-> pre.q, evs |-> SubSeq(pre.evs, 1, n),
             pre |-> [pre EXCEPT !.evs = Rest(pre.evs, n)], queued |-> queued]
    BY <1>2 DEF Scheduled
  <2>2. pre.evs \in Seq(Tags) /\ Len(pre.evs) \in Nat /\ Len(pre.evs) # 0
    BY <1>1, <1>2, LengthsAre
  <2>3. n \in 1..Len(pre.evs) BY <2>2, MinOfTwo
  <2> HIDE DEF n
  <2>4. n \in 0..Len(pre.evs) BY <2>3
  <2>5. /\ SubSeq(pre.evs, 1, n) \in Seq(Tags) /\ Len(SubSeq(pre.evs, 1, n)) = n
        /\ Rest(pre.evs, n) \in Seq(Tags)
    BY <2>2, <2>4, SplitIs
  <2>6. SubSeq(pre.evs, 1, n) # <<>> BY <2>3, <2>5, EmptySeq
  <2>7. ASSUME NEW g
        PROVE  Total(s.queued, g) + Count(s.pre.evs, g) + Count(s.evs, g)
                 = Total(queued, g) + Count(pre.evs, g)
    <3>1. Count(pre.evs, g) = Count(SubSeq(pre.evs, 1, n), g) + Count(Rest(pre.evs, n), g)
      BY <2>2, <2>4, CountSplit
    <3>2. s.pre.evs = Rest(pre.evs, n) /\ s.evs = SubSeq(pre.evs, 1, n) /\ s.queued = queued
      BY <2>1, <1>1
    <3>3. Total(queued, g) \in Nat
      <4>1. queued \in [SchedQ -> Seq(Tags)] /\ IsFiniteSet(SchedQ) BY <1>1, FiniteQueues
      <4> QED BY <4>1, TotalNat
    <3>4. Count(SubSeq(pre.evs, 1, n), g) \in Nat /\ Count(Rest(pre.evs, n), g) \in Nat
      BY <2>5, CountIs
    <3> QED BY <3>1, <3>2, <3>3, <3>4
  <2> QED BY <1>1, <2>1, <2>5, <2>6, <2>7
<1>3. CASE pre.evs = <<>>
  <2> DEFINE Out(q, k) ==
        [q |-> q, evs |-> SubSeq(SubSeq(queued[q], 1, k), 1, Min({b, k})),
         pre |-> [q |-> q, evs |-> Rest(SubSeq(queued[q], 1, k), Min({b, k}))],
         queued |-> [queued EXCEPT ![q] = Rest(queued[q], k)]]
  <2>1. PICK qk \in {x \in SchedQ \X (1..MaxPrefetch) : x[2] <= Len(queued[x[1]])} :
          s = Out(qk[1], qk[2])
    BY <1>3 DEF Scheduled
  <2>2. PICK q \in SchedQ, k \in 1..MaxPrefetch : k <= Len(queued[q]) /\ s = Out(q, k)
    BY <2>1
  <2> DEFINE n == Min({b, k})  t == SubSeq(queued[q], 1, k)
  <2>3. queued[q] \in Seq(Tags) /\ Len(queued[q]) \in Nat
    <3>1. queued[q] \in Seq(Tags) BY <1>1
    <3> QED BY <3>1, LenProperties
  <2>4. k \in 0..Len(queued[q]) /\ k \in Nat /\ k # 0 BY <2>2, <2>3
  <2>5. n \in 1..k BY <2>4, MinOfTwo
  <2> HIDE DEF n
  <2>6. t \in Seq(Tags) /\ Len(t) = k /\ Rest(queued[q], k) \in Seq(Tags)
    BY <2>3, <2>4, SplitIs
  <2> HIDE DEF t
  <2>7. n \in 0..Len(t) BY <2>4, <2>5, <2>6
  <2>8. /\ SubSeq(t, 1, n) \in Seq(Tags) /\ Len(SubSeq(t, 1, n)) = n
        /\ Rest(t, n) \in Seq(Tags)
    BY <2>6, <2>7, SplitIs
  <2>9. SubSeq(t, 1, n) # <<>>
    <3>1. n # 0 BY <2>4, <2>5
    <3> QED BY <3>1, <2>8, EmptySeq
  <2>10. /\ s.q = q /\ s.evs = SubSeq(t, 1, n) /\ s.pre = [q |-> q, evs |-> Rest(t, n)]
         /\ s.queued = [queued EXCEPT ![q] = Rest(queued[q], k)]
    BY <2>2 DEF n, t
  <2>11. ASSUME NEW g
         PROVE  Total(s.queued, g) + Count(s.pre.evs, g) + Count(s.evs, g)
                  = Total(queued, g) + Count(pre.evs, g)
    <3>1. Count(t, g) = Count(SubSeq(t, 1, n), g) + Count(Rest(t, n), g)
      BY <2>6, <2>7, CountSplit
    <3>2. Count(queued[q], g) = Count(t, g) + Count(Rest(queued[q], k), g)
      BY <2>3, <2>4, CountSplit DEF t
    <3>3. /\ Total(queued, g) \in Nat /\ Total(s.queued, g) \in Nat
          /\ Total(s.queued, g) + Count(queued[q], g) = Total(queued, g) + Count(Rest(queued[q], k), g)
      <4>1. queued \in [SchedQ -> Seq(Tags)] /\ IsFiniteSet(SchedQ) BY <1>1, FiniteQueues
      <4>2. Rest(queued[q], k) \in Seq(Tags) BY <2>6
      <4> DEFINE h == [queued EXCEPT ![q] = Rest(queued[q], k)]
      <4>3. h \in [SchedQ -> Seq(Tags)] /\ h[q] = Rest(queued[q], k) /\ h = [queued EXCEPT ![q] = h[q]]
        BY <4>1, <4>2
      <4> HIDE DEF h
      <4>4. Total(queued, g) \in Nat BY <4>1, TotalNat
      <4>5. Total(h, g) \in Nat BY <4>1, <4>3, TotalNat
      <4>6. Moves(queued, h, q, g) BY <4>1, <4>3, TotalChange
      <4> QED BY <2>10, <4>3, <4>4, <4>5, <4>6 DEF h, Moves
    <3>4. /\ Count(SubSeq(t, 1, n), g) \in Nat /\ Count(Rest(t, n), g) \in Nat
          /\ Count(Rest(queued[q], k), g) \in Nat
      BY <2>6, <2>8, CountIs
    <3>5. Count(pre.evs, g) = 0 BY <1>3, CountNone
    <3>6. s.pre.evs = Rest(t, n) /\ s.evs = SubSeq(t, 1, n) BY <2>10
    <3> QED BY SMTT(30), <3>1, <3>2, <3>3, <3>4, <3>5, <3>6
  <2>12. s.queued \in [SchedQ -> Seq(Tags)] BY <1>1, <2>6, <2>10
  <2>13. s.q \in SchedQ \cup {NoQ} /\ s.pre \in [q : SchedQ \cup {NoQ}, evs : Seq(Tags)] /\ s.pre.q = s.q
    BY <2>8, <2>10
  <2>14. s.evs \in Seq(Tags) /\ s.evs # <<>> BY <2>8, <2>9, <2>10
  <2> QED BY <2>11, <2>12, <2>13, <2>14
<1> QED BY <1>2, <1>3

\* The batch that a receive function is called with is taken off the sequence.
LEMMA CallIs ==
  ASSUME NEW q, NEW s \in Seq(Tags), s # <<>>, call_eo_rcv_fn(q, s),
         cur \in [q : Queues \cup {NoQ}, sq : SchedQ \cup {NoQ}, egrp : Tags], cur.egrp = NoGrp
  PROVE  /\ run' \in [num : Nat, kept : Nat] /\ run'.kept <= run'.num
         /\ run'.num \in 1..Len(s) /\ handled' = handled + run'.num
         /\ cur' = [cur EXCEPT !.egrp = s[1]] /\ s[1] \in Tags
         /\ Rest(s, run'.num) \in Seq(Tags) /\ Len(Rest(s, run'.num)) = Len(s) - run'.num
         /\ \A g : Count(s, g) = Count(Rest(s, run'.num), g)
                                   + (IF g = s[1] THEN run'.num ELSE 0)
<1> DEFINE n == BatchLen(q, s)
<1>1. n \in 1..Len(s) /\ Alike(s, n) /\ Len(s) \in Nat BY BatchLenIs, LenProperties
<1>2. /\ \E kept \in (IF CallbackDrops THEN 0..n ELSE {n}) : run' = [num |-> n, kept |-> kept]
      /\ cur' = IF s[1] = NoGrp THEN cur ELSE [cur EXCEPT !.egrp = s[1]]
      /\ handled' = handled + n
  BY DEF call_eo_rcv_fn
<1> HIDE DEF n
<1>3. run' \in [num : Nat, kept : Nat] /\ run'.kept <= run'.num /\ run'.num = n
  BY <1>1, <1>2
<1>4. s[1] \in Tags BY <1>1, ElementOfSeq
<1>5. cur' = [cur EXCEPT !.egrp = s[1]] BY <1>2
<1>6. n \in 0..Len(s) BY <1>1
<1>7. /\ SubSeq(s, 1, n) \in Seq(Tags) /\ Len(SubSeq(s, 1, n)) = n
      /\ \A i \in 1..n : SubSeq(s, 1, n)[i] = s[i]
      /\ Rest(s, n) \in Seq(Tags) /\ Len(Rest(s, n)) = Len(s) - n
  BY <1>6, SplitIs
<1>8. ASSUME NEW g
      PROVE  Count(s, g) = Count(Rest(s, n), g) + (IF g = s[1] THEN n ELSE 0)
  <2>1. Count(s, g) = Count(SubSeq(s, 1, n), g) + Count(Rest(s, n), g) BY <1>6, CountSplit
  <2>2. \A i \in 1..Len(SubSeq(s, 1, n)) : SubSeq(s, 1, n)[i] = s[1]
    BY <1>1, <1>7 DEF Alike
  <2>3. Count(SubSeq(s, 1, n), g) = IF g = s[1] THEN n ELSE 0 BY ZenonT(40), <1>7, <2>2, CountAll
  <2>4. Count(Rest(s, n), g) \in Nat BY <1>7, CountIs
  <2> QED BY <2>1, <2>3, <2>4, <1>1
<1> QED BY <1>1, <1>2, <1>3, <1>4, <1>5, <1>7, <1>8

-----------------------------------------------------------------------------
(* Dispatch: the invariant is kept by every step *)

\* The smaller of a number and a bound.
LEMMA CappedIs ==
  ASSUME DTypeInv, pc # "app", NEW n \in Nat
  PROVE  Capped(n) \in Nat
<1>1. opt.n \in Nat BY DispatchAssumption DEF DTypeInv
<1> QED BY <1>1, MinOfTwo DEF Capped

\* Without events there is nothing that was taken before, and no events for a core
\* that is not paused.
LEMMA NothingScheduled ==
  ASSUME NEW b, Scheduled(b) = {}
  PROVE  pre.evs = <<>>
BY DEF Scheduled

\* The dispatch loop looks at how long it has gone on.
LEMMA CheckDurationStep ==
  ASSUME DIInv, CheckDuration
  PROVE  DIInv'
<1>1. DTypeInv' BY DEF DIInv, CheckDuration, queues, work, call, env, DTypeInv
<1>2. WorkInv'
  BY DEF DIInv, CheckDuration, queues, work, call, env, WorkInv, Idling, NoCur, NoRun, DTypeInv
<1>3. FlagsCoverLocal'
  BY DEF DIInv, CheckDuration, queues, work, call, env, FlagsCoverLocal, DTypeInv
<1>4. IdleInv' BY DEF DIInv, CheckDuration, queues, work, call, env, IdleInv, Serving, DTypeInv
<1>5. CountInv' BY DEF DIInv, CheckDuration, queues, work, call, env, CountInv, Serving, DTypeInv
<1>6. PauseInv' BY DEF DIInv, CheckDuration, queues, work, call, env, PauseInv, Serving, DTypeInv
<1>7. BatchInv' BY DEF DIInv, CheckDuration, queues, work, call, env, BatchInv, DTypeInv
<1> QED BY <1>1, <1>2, <1>3, <1>4, <1>5, <1>6, <1>7 DEF DIInv

\* The input poll function is called.
LEMMA InputPolledStep ==
  ASSUME DIInv, InputPolled
  PROVE  DIInv'
<1>1. DTypeInv' BY DEF DIInv, InputPolled, queues, work, call, env, DTypeInv
<1>2. WorkInv'
  BY DEF DIInv, InputPolled, queues, work, call, env, WorkInv, Idling, NoCur, NoRun, DTypeInv
<1>3. FlagsCoverLocal' BY DEF DIInv, InputPolled, queues, work, call, env, FlagsCoverLocal, DTypeInv
<1>4. IdleInv' BY DEF DIInv, InputPolled, queues, work, call, env, IdleInv, Serving, DTypeInv
<1>5. CountInv' BY DEF DIInv, InputPolled, queues, work, call, env, CountInv, Serving, DTypeInv
<1>6. PauseInv' BY DEF DIInv, InputPolled, queues, work, call, env, PauseInv, Serving, DTypeInv
<1>7. BatchInv' BY DEF DIInv, InputPolled, queues, work, call, env, BatchInv, DTypeInv
<1> QED BY <1>1, <1>2, <1>3, <1>4, <1>5, <1>6, <1>7 DEF DIInv

\* em_dispatch() begins.
LEMMA EmDispatchStep ==
  ASSUME DIInv, NEW o \in Opts, em_dispatch(o)
  PROVE  DIInv'
<1>1. DTypeInv' BY DEF DIInv, em_dispatch, NoTot, queues, work, call, env, DTypeInv
<1>2. WorkInv'
  BY DEF DIInv, em_dispatch, NoTot, queues, work, call, env, WorkInv, Idling, NoCur, NoRun, DTypeInv
<1>3. FlagsCoverLocal'
  BY DEF DIInv, em_dispatch, NoTot, queues, work, call, env, FlagsCoverLocal, DTypeInv
<1>4. IdleInv' BY DEF DIInv, em_dispatch, NoTot, queues, work, call, env, IdleInv, Serving, DTypeInv
<1>5. CountInv'
  <2>1. Len(<<>>) = 0 BY EmptySeq
  <2>2. burst = <<>> /\ entries = <<>> /\ lbatch = <<>> BY DEF em_dispatch, DIInv, WorkInv, Idling
  <2> QED BY <2>1, <2>2 DEF em_dispatch, NoTot, CountInv, Serving, work, queues, call, env
<1>6. PauseInv'
  BY DEF DIInv, em_dispatch, NoTot, queues, work, call, env, PauseInv, Serving, DTypeInv
<1>7. BatchInv' BY DEF DIInv, em_dispatch, NoTot, queues, work, call, env, BatchInv, DTypeInv
<1> QED BY <1>1, <1>2, <1>3, <1>4, <1>5, <1>6, <1>7 DEF DIInv

\* A queue is stopped between rounds.
LEMMA StopQueueStep ==
  ASSUME DIInv, NEW q \in Queues, StopQueue(q)
  PROVE  DIInv'
<1>1. DTypeInv' BY DEF DIInv, StopQueue, queues, work, call, env, DTypeInv
<1>2. WorkInv'
  BY DEF DIInv, StopQueue, queues, work, call, env, WorkInv, Idling, NoCur, NoRun, DTypeInv
<1>3. FlagsCoverLocal' BY DEF DIInv, StopQueue, queues, work, call, env, FlagsCoverLocal, DTypeInv
<1>4. IdleInv' BY DEF DIInv, StopQueue, queues, work, call, env, IdleInv, Serving, DTypeInv
<1>5. CountInv' BY DEF DIInv, StopQueue, queues, work, call, env, CountInv, Serving, DTypeInv
<1>6. PauseInv' BY DEF DIInv, StopQueue, queues, work, call, env, PauseInv, Serving, DTypeInv
<1>7. BatchInv' BY DEF DIInv, StopQueue, queues, work, call, env, BatchInv, DTypeInv
<1> QED BY <1>1, <1>2, <1>3, <1>4, <1>5, <1>6, <1>7 DEF DIInv

\* A round that gets no events.
LEMMA NoEventsStep ==
  ASSUME DIInv, NoEvents
  PROVE  DIInv'
<1>1. DTypeInv'
  <2>1. opt \in Opts BY DEF NoEvents, DIInv, DTypeInv
  <2>2. got' \in Nat /\ idle' \in BOOLEAN /\ pc' \in {"end", "local"} BY DEF NoEvents, DIInv, DTypeInv
  <2> QED BY <2>1, <2>2 DEF NoEvents, DIInv, queues, work, call, env, DTypeInv
<1>2. WorkInv'
  BY DEF DIInv, NoEvents, queues, work, call, env, WorkInv, Idling, NoCur, NoRun, DTypeInv
<1>3. FlagsCoverLocal' BY DEF DIInv, NoEvents, queues, work, call, env, FlagsCoverLocal, DTypeInv
<1>4. IdleInv' BY DEF DIInv, NoEvents, queues, work, call, env, IdleInv, Serving, DTypeInv
<1>5. CountInv' BY DEF DIInv, NoEvents, queues, work, call, env, CountInv, Serving, DTypeInv
<1>6. PauseInv'
  <2>1. pre.evs = <<>> BY NothingScheduled DEF NoEvents
  <2> QED BY <2>1 DEF NoEvents, queues, PauseInv
<1>7. BatchInv' BY DEF DIInv, NoEvents, queues, work, call, env, BatchInv, DTypeInv
<1> QED BY <1>1, <1>2, <1>3, <1>4, <1>5, <1>6, <1>7 DEF DIInv

\* A round ends.
LEMMA EndRoundStep ==
  ASSUME DIInv, EndRound
  PROVE  DIInv'
<1>1. DTypeInv'
  <2>1. opt \in Opts /\ tot \in [rounds : Nat, events : Nat, noev : Nat, local : Nat] /\ got \in Nat
    BY DEF EndRound, DIInv, DTypeInv
  <2>2. Capped(tot.rounds + 1) \in Nat /\ Capped(tot.noev + 1) \in Nat
    BY <2>1, CappedIs DEF EndRound, DIInv
  <2>3. tot' \in [rounds : Nat, events : Nat, noev : Nat, local : Nat]
    <3>1. (IF got = 0 THEN Capped(tot.noev + 1) ELSE 0) \in Nat /\ tot.events + got \in Nat BY <2>1, <2>2
    <3> QED BY <3>1, <2>1, <2>2 DEF EndRound
  <2>4. pc' \in {"check", "ctrl", "app"} BY DEF EndRound
  <2> QED BY <2>1, <2>3, <2>4 DEF EndRound, DIInv, queues, work, env, DTypeInv
<1>2. WorkInv'
  BY DEF DIInv, EndRound, queues, work, call, env, WorkInv, Idling, NoCur, NoRun, DTypeInv
<1>3. FlagsCoverLocal' BY DEF DIInv, EndRound, queues, work, call, env, FlagsCoverLocal, DTypeInv
<1>4. IdleInv' BY DEF DIInv, EndRound, queues, work, call, env, IdleInv, Serving, DTypeInv
<1>5. CountInv'
  <2>1. /\ tot \in [rounds : Nat, events : Nat, noev : Nat, local : Nat] /\ got \in Nat
        /\ handled + Len(burst) + Len(entries) + Len(lbatch) = tot.events + tot.local + got
    BY DEF EndRound, DIInv, DTypeInv, CountInv
  <2>2. tot'.events = tot.events + got /\ tot'.local = tot.local BY <2>1 DEF EndRound
  <2>3. pc' \in {"check", "ctrl", "app"} BY DEF EndRound
  <2>4. UNCHANGED <<handled, burst, entries, lbatch>> BY DEF EndRound, work
  <2> QED BY <2>1, <2>2, <2>3, <2>4 DEF CountInv, Serving
<1>6. PauseInv' BY DEF DIInv, EndRound, queues, work, call, env, PauseInv, Serving, DTypeInv
<1>7. BatchInv' BY DEF DIInv, EndRound, queues, work, call, env, BatchInv, DTypeInv
<1> QED BY <1>1, <1>2, <1>3, <1>4, <1>5, <1>6, <1>7 DEF DIInv

\* A count of a function goes down by one.
LEMMA OneLess ==
  ASSUME NEW T, NEW f \in [T -> Nat], NEW g \in T, f[g] > 0
  PROVE  [f EXCEPT ![g] = f[g] - 1] \in [T -> Nat]
<1>1. f[g] \in Nat /\ f[g] - 1 \in Nat OBVIOUS
<1> QED BY <1>1

\* Polling empties the control queues.
LEMMA PollIs ==
  ASSUME DTypeInv, poll_unsched_ctrl_queue
  PROVE  post' \in [Groups -> Nat] /\ ctrl' = <<>> /\ ctrl' \in Seq(Tags)
<1>1. ASSUME NEW g \in Groups
      PROVE  Minus(post[g], Cardinality({i \in DOMAIN ctrl : CtrlGroup(i) = g})) \in Nat
  <2>1. ctrl \in Seq(Tags) /\ post[g] \in Nat BY DEF DTypeInv
  <2>2. IsFiniteSet(DOMAIN ctrl) BY <2>1, LenProperties, FS_Interval
  <2>3. {i \in DOMAIN ctrl : CtrlGroup(i) = g} \in SUBSET DOMAIN ctrl OBVIOUS
  <2>4. Cardinality({i \in DOMAIN ctrl : CtrlGroup(i) = g}) \in Nat
    BY <2>2, <2>3, FS_Subset, FS_CardinalityType
  <2> QED BY <2>1, <2>4 DEF Minus
<1>2. post' \in [Groups -> Nat] BY <1>1 DEF poll_unsched_ctrl_queue
<1> QED BY <1>2, EmptySeq DEF poll_unsched_ctrl_queue

\* A synchronous call of an internal event.
LEMMA SyncCallStep ==
  ASSUME DIInv, SyncCall
  PROVE  DIInv'
<1>1. DTypeInv'
  <2>1. post' \in [Groups -> Nat] /\ ctrl' \in Seq(Tags)
    BY PollIs DEF SyncCall, DIInv, DTypeInv
  <2> QED BY <2>1 DEF SyncCall, DIInv, queues, work, call, env, DTypeInv
<1>2. WorkInv'
  BY DEF DIInv, SyncCall, queues, work, call, env, WorkInv, Idling, NoCur, NoRun, DTypeInv
<1>3. FlagsCoverLocal' BY DEF DIInv, SyncCall, queues, work, call, env, FlagsCoverLocal, DTypeInv
<1>4. IdleInv' BY DEF DIInv, SyncCall, queues, work, call, env, IdleInv, Serving, DTypeInv
<1>5. CountInv' BY DEF DIInv, SyncCall, queues, work, call, env, CountInv, Serving, DTypeInv
<1>6. PauseInv' BY DEF DIInv, SyncCall, queues, work, call, env, PauseInv, Serving, DTypeInv
<1>7. BatchInv' BY DEF DIInv, SyncCall, queues, work, call, env, BatchInv, DTypeInv
<1> QED BY <1>1, <1>2, <1>3, <1>4, <1>5, <1>6, <1>7 DEF DIInv

\* The control queues are polled.
LEMMA PollCtrlStep ==
  ASSUME DIInv, dispatch_poll_ctrl_queue
  PROVE  DIInv'
<1>1. DTypeInv'
  <2>1. post' \in [Groups -> Nat] /\ ctrl' \in Seq(Tags)
    BY PollIs DEF dispatch_poll_ctrl_queue, DIInv, DTypeInv
  <2> QED BY <2>1 DEF dispatch_poll_ctrl_queue, DIInv, queues, work, call, env, DTypeInv
<1>2. WorkInv'
  BY DEF DIInv, dispatch_poll_ctrl_queue, queues, work, call, env, WorkInv, Idling, NoCur, NoRun, DTypeInv
<1>3. FlagsCoverLocal'
  BY DEF DIInv, dispatch_poll_ctrl_queue, queues, work, call, env, FlagsCoverLocal, DTypeInv
<1>4. IdleInv'
  BY DEF DIInv, dispatch_poll_ctrl_queue, queues, work, call, env, IdleInv, Serving, DTypeInv
<1>5. CountInv'
  BY DEF DIInv, dispatch_poll_ctrl_queue, queues, work, call, env, CountInv, Serving, DTypeInv
<1>6. PauseInv'
  BY DEF DIInv, dispatch_poll_ctrl_queue, queues, work, call, env, PauseInv, Serving, DTypeInv
<1>7. BatchInv' BY DEF DIInv, dispatch_poll_ctrl_queue, queues, work, call, env, BatchInv, DTypeInv
<1> QED BY <1>1, <1>2, <1>3, <1>4, <1>5, <1>6, <1>7 DEF DIInv

\* An internal event comes to a control queue.
LEMMA CtrlArrivesStep ==
  ASSUME DIInv, NEW g \in Tags, CtrlArrives(g)
  PROVE  DIInv'
<1>1. DTypeInv'
  <2>1. ctrl' \in Seq(Tags) BY AppendProperties DEF CtrlArrives, DIInv, DTypeInv
  <2>2. unsent' \in [Tags -> Nat] BY OneLess DEF CtrlArrives, DIInv, DTypeInv
  <2> QED BY <2>1, <2>2 DEF CtrlArrives, DIInv, queues, work, call, env, DTypeInv
<1>2. WorkInv'
  BY DEF DIInv, CtrlArrives, queues, work, call, env, WorkInv, Idling, NoCur, NoRun, DTypeInv
<1>3. FlagsCoverLocal' BY DEF DIInv, CtrlArrives, queues, work, call, env, FlagsCoverLocal, DTypeInv
<1>4. IdleInv' BY DEF DIInv, CtrlArrives, queues, work, call, env, IdleInv, Serving, DTypeInv
<1>5. CountInv' BY DEF DIInv, CtrlArrives, queues, work, call, env, CountInv, Serving, DTypeInv
<1>6. PauseInv' BY DEF DIInv, CtrlArrives, queues, work, call, env, PauseInv, Serving, DTypeInv
<1>7. BatchInv' BY DEF DIInv, CtrlArrives, queues, work, call, env, BatchInv, DTypeInv
<1> QED BY <1>1, <1>2, <1>3, <1>4, <1>5, <1>6, <1>7 DEF DIInv

\* An event is sent to a local queue.
LEMMA SendLocalStep ==
  ASSUME DIInv, NEW g \in Tags, NEW q \in LocalQ, Send(g), send_local(q, g)
  PROVE  DIInv'
<1> DEFINE p == Prio[q]  e == [q |-> q, g |-> g]
<1>1. p \in Prios BY FiniteQueues
<1>2. local' = [local EXCEPT ![p] = Append(local[p], e)] /\ e \in Item BY DEF send_local, Item
<1>3. local[p] \in Seq(Item) /\ local \in [Prios -> Seq(Item)] BY <1>1 DEF DIInv, DTypeInv
<1>4. Append(local[p], e) \in Seq(Item) BY <1>2, <1>3, AppendProperties
<1>5. local' \in [Prios -> Seq(Item)] BY <1>2, <1>3, <1>4
<1>6. unsent' \in [Tags -> Nat] BY OneLess DEF Send, DIInv, DTypeInv
<1>7. DTypeInv'
  BY <1>5, <1>6 DEF DIInv, Send, send_local, SenderRuns, queues, work, call, env, DTypeInv
<1>8. WorkInv'
  BY DEF DIInv, Send, send_local, SenderRuns, queues, work, call, env, WorkInv, Idling, NoCur, NoRun, DTypeInv
<1>9. FlagsCoverLocal'
  <2>1. emptyPrio' = [emptyPrio EXCEPT ![p] = FALSE] /\ empty' = FALSE BY DEF send_local
  <2>2. \A r \in Prios : r # p => local'[r] = local[r] BY <1>2, <1>3
  <2> QED BY <1>1, <2>1, <2>2 DEF FlagsCoverLocal, DIInv, DTypeInv
<1>10. IdleInv'
  BY DEF DIInv, Send, send_local, SenderRuns, queues, work, call, env, IdleInv, Serving, DTypeInv
<1>11. CountInv'
  BY DEF DIInv, Send, send_local, SenderRuns, queues, work, call, env, CountInv, Serving, DTypeInv
<1>12. PauseInv'
  BY DEF DIInv, Send, send_local, SenderRuns, queues, work, call, env, PauseInv, Serving, DTypeInv
<1>13. BatchInv'
  BY DEF DIInv, Send, send_local, SenderRuns, queues, work, call, env, BatchInv, DTypeInv
<1> QED BY <1>7, <1>8, <1>9, <1>10, <1>11, <1>12, <1>13 DEF DIInv

\* Or to a queue of the scheduler.
LEMMA SendSchedStep ==
  ASSUME DIInv, NEW g \in Tags, NEW q \in SchedQ, Send(g), send_sched(q, g)
  PROVE  DIInv'
<1>1. queued[q] \in Seq(Tags) /\ queued \in [SchedQ -> Seq(Tags)] BY DEF DIInv, DTypeInv
<1>2. Append(queued[q], g) \in Seq(Tags) BY <1>1, AppendProperties
<1>3. queued' = [queued EXCEPT ![q] = Append(queued[q], g)] BY DEF send_sched
<1>4. queued' \in [SchedQ -> Seq(Tags)] BY <1>1, <1>2, <1>3
<1>5. unsent' \in [Tags -> Nat] BY OneLess DEF Send, DIInv, DTypeInv
<1>6. DTypeInv' BY <1>4, <1>5 DEF DIInv, Send, send_sched, queues, work, call, env, DTypeInv
<1>7. WorkInv'
  BY DEF DIInv, Send, send_sched, queues, work, call, env, WorkInv, Idling, NoCur, NoRun, DTypeInv
<1>8. FlagsCoverLocal'
  BY DEF DIInv, Send, send_sched, queues, work, call, env, FlagsCoverLocal, DTypeInv
<1>9. IdleInv' BY DEF DIInv, Send, send_sched, queues, work, call, env, IdleInv, Serving, DTypeInv
<1>10. CountInv'
  BY DEF DIInv, Send, send_sched, queues, work, call, env, CountInv, Serving, DTypeInv
<1>11. PauseInv'
  BY DEF DIInv, Send, send_sched, queues, work, call, env, PauseInv, Serving, DTypeInv
<1>12. BatchInv' BY DEF DIInv, Send, send_sched, queues, work, call, env, BatchInv, DTypeInv
<1> QED BY <1>6, <1>7, <1>8, <1>9, <1>10, <1>11, <1>12 DEF DIInv

\* A round takes a batch from the scheduler.
LEMMA DispatchRoundStep ==
  ASSUME DIInv, dispatch_round
  PROVE  DIInv'
<1>1. opt.burst \in Nat \ {0} /\ NoQ \notin Queues /\ SchedQ \subseteq Queues
  BY DispatchAssumption DEF dispatch_round, DIInv, DTypeInv, Queues
<1>2. PICK s \in Scheduled(opt.burst) :
        /\ s.q \in ready /\ pre' = s.pre /\ queued' = s.queued /\ idle' = FALSE
        /\ cur' = [q |-> s.q, sq |-> s.q, egrp |-> cur.egrp]
        /\ burst' = s.evs /\ got' = Len(s.evs)
  BY DEF dispatch_round
<1>3. /\ s.q \in SchedQ \cup {NoQ} /\ s.evs \in Seq(Tags) /\ s.evs # <<>>
      /\ s.pre \in [q : SchedQ \cup {NoQ}, evs : Seq(Tags)]
      /\ s.queued \in [SchedQ -> Seq(Tags)]
  BY <1>1, ScheduledIs DEF DIInv
<1>4. ready \subseteq Queues /\ cur.egrp \in Tags BY DEF DIInv, DTypeInv
<1>5. s.q \in SchedQ BY <1>1, <1>2, <1>3, <1>4
<1>6. Len(s.evs) \in Nat /\ Len(s.evs) # 0 BY <1>3, LenProperties, EmptySeq
<1>7. cur' \in [q : Queues \cup {NoQ}, sq : SchedQ \cup {NoQ}, egrp : Tags]
  BY <1>1, <1>2, <1>4, <1>5
<1>8. DTypeInv'
  BY <1>2, <1>3, <1>6, <1>7 DEF DIInv, dispatch_round, queues, work, call, env, DTypeInv
<1>9. WorkInv'
  BY <1>1, <1>2, <1>5 DEF DIInv, dispatch_round, queues, work, call, env, WorkInv, Idling, NoCur, NoRun, DTypeInv
<1>10. FlagsCoverLocal'
  BY DEF DIInv, dispatch_round, queues, work, call, env, FlagsCoverLocal, DTypeInv
<1>11. IdleInv'
  BY <1>2 DEF DIInv, dispatch_round, queues, work, call, env, IdleInv, Serving, DTypeInv
<1>12. CountInv'
  <2>1. /\ handled \in Nat /\ tot \in [rounds : Nat, events : Nat, noev : Nat, local : Nat]
        /\ burst = <<>> /\ entries = <<>> /\ lbatch = <<>> /\ Len(<<>>) = 0
    BY EmptySeq DEF dispatch_round, DIInv, DTypeInv, WorkInv, Idling
  <2>2. handled = tot.events + tot.local
    BY <2>1 DEF dispatch_round, DIInv, CountInv, Serving
  <2>3. handled' = handled /\ tot' = tot /\ entries' = <<>> /\ lbatch' = <<>> /\ pc' = "batch"
    BY <2>1 DEF dispatch_round
  <2> QED BY <1>2, <1>6, <2>1, <2>2, <2>3 DEF CountInv, Serving
<1>13. PauseInv'
  BY <1>2, <1>6 DEF DIInv, dispatch_round, queues, work, call, env, PauseInv, Serving, DTypeInv
<1>14. BatchInv'
  BY <1>2, <1>6 DEF DIInv, dispatch_round, queues, work, call, env, BatchInv, DTypeInv
<1> QED BY <1>8, <1>9, <1>10, <1>11, <1>12, <1>13, <1>14 DEF DIInv

\* Counting the events of a batch, group by group.
LEMMA AddCountsIs ==
  ASSUME NEW f \in [Tags -> Nat], NEW S, NEW s \in Seq(S)
  PROVE  AddCounts(f, s) \in [Tags -> Nat]
<1>1. \A g : Count(s, g) \in Nat BY CountIs
<1> QED BY <1>1 DEF AddCounts

\* Events of a queue that cannot be dispatched are freed.
LEMMA FreeInvalidStep ==
  ASSUME DIInv, free_invalid_events
  PROVE  DIInv'
<1>1. opt.burst \in Nat \ {0} BY DispatchAssumption DEF free_invalid_events, DIInv, DTypeInv
<1>2. PICK s \in Scheduled(opt.burst) :
        /\ s.q \notin ready /\ pre' = s.pre /\ queued' = s.queued
        /\ freed' = AddCounts(freed, s.evs)
  BY DEF free_invalid_events
<1>3. /\ s.evs \in Seq(Tags) /\ s.pre.q = s.q
      /\ s.pre \in [q : SchedQ \cup {NoQ}, evs : Seq(Tags)]
      /\ s.queued \in [SchedQ -> Seq(Tags)]
  BY <1>1, ScheduledIs DEF DIInv
<1>4. freed' \in [Tags -> Nat] BY <1>2, <1>3, AddCountsIs DEF DIInv, DTypeInv
<1>5. DTypeInv'
  BY <1>2, <1>3, <1>4 DEF DIInv, free_invalid_events, queues, work, call, env, DTypeInv
<1>6. WorkInv'
  BY DEF DIInv, free_invalid_events, queues, work, call, env, WorkInv, Idling, NoCur, NoRun, DTypeInv
<1>7. FlagsCoverLocal'
  BY DEF DIInv, free_invalid_events, queues, work, call, env, FlagsCoverLocal, DTypeInv
<1>8. IdleInv'
  BY DEF DIInv, free_invalid_events, queues, work, call, env, IdleInv, Serving, DTypeInv
<1>9. CountInv'
  BY DEF DIInv, free_invalid_events, queues, work, call, env, CountInv, Serving, DTypeInv
<1>10. PauseInv'
  BY <1>2, <1>3 DEF DIInv, free_invalid_events, queues, work, call, env, PauseInv, Serving, DTypeInv
<1>11. BatchInv' BY DEF DIInv, free_invalid_events, queues, work, call, env, BatchInv, DTypeInv
<1> QED BY <1>5, <1>6, <1>7, <1>8, <1>9, <1>10, <1>11 DEF DIInv

\* The receive function returns.
LEMMA EndReceiveStep ==
  ASSUME DIInv, EndReceive
  PROVE  DIInv'
<1>1. /\ run \in [num : Nat, kept : Nat] /\ post \in [Groups -> Nat]
      /\ cur \in [q : Queues \cup {NoQ}, sq : SchedQ \cup {NoQ}, egrp : Tags]
  BY DEF DIInv, DTypeInv
<1>2. post' \in [Groups -> Nat]
  <2>1. CASE cur.egrp = NoGrp BY <1>1, <2>1 DEF EndReceive, event_group_done
  <2>2. CASE cur.egrp # NoGrp
    <3>1. cur.egrp \in Groups BY <1>1, <2>2 DEF Tags
    <3>2. post[cur.egrp] \in Nat /\ run.num \in Nat BY <1>1, <3>1
    <3>3. Minus(post[cur.egrp], run.num) \in Nat BY <3>2 DEF Minus
    <3> QED BY <1>1, <2>2, <3>1, <3>3 DEF EndReceive, event_group_done
  <2> QED BY <2>1, <2>2
<1>3. cur' = [cur EXCEPT !.egrp = NoGrp] /\ NoGrp \in Tags /\ run' = NoRun
  BY DEF EndReceive, event_group_done, Tags
<1>4. /\ cur' \in [q : Queues \cup {NoQ}, sq : SchedQ \cup {NoQ}, egrp : Tags]
      /\ cur'.q = cur.q /\ cur'.sq = cur.sq /\ cur'.egrp = NoGrp
  BY <1>1, <1>3
<1>5. pc' = (IF cur.q \in LocalQ THEN "lbatch" ELSE IF empty THEN "batch" ELSE "local")
  BY DEF EndReceive
<1>6. DTypeInv'
  <2>1. run' \in [num : Nat, kept : Nat] /\ run'.kept <= run'.num BY <1>3 DEF NoRun
  <2>2. UNCHANGED <<queued, pre, local, empty, emptyPrio, burst, entries, lbatch, idle, paused, opt, tot,
                    got, calls, ctrl, freed, handled, ready, unsent, ctrls>>
    BY DEF EndReceive, queues, call, env
  <2>3. pc = "rcv" /\ pc' \in {"lbatch", "batch", "local"} BY <1>5 DEF EndReceive
  <2> QED BY <1>2, <1>4, <2>1, <2>2, <2>3 DEF DTypeInv, DIInv
<1>7. WorkInv'
  <2>1. pc = "rcv" /\ UNCHANGED <<burst, entries, lbatch>> BY DEF EndReceive
  <2> QED BY <1>3, <1>4, <1>5, <2>1 DEF WorkInv, Idling, DIInv
<1>8. FlagsCoverLocal'
  BY DEF DIInv, EndReceive, event_group_done, queues, work, call, env, FlagsCoverLocal, DTypeInv
<1>9. IdleInv'
  BY DEF DIInv, EndReceive, event_group_done, queues, work, call, env, IdleInv, Serving, DTypeInv
<1>10. CountInv'
  BY DEF DIInv, EndReceive, event_group_done, queues, work, call, env, CountInv, Serving, DTypeInv
<1>11. PauseInv'
  BY DEF DIInv, EndReceive, event_group_done, queues, work, call, env, PauseInv, Serving, DTypeInv
<1>12. BatchInv'
  BY <1>5 DEF DIInv, EndReceive, event_group_done, queues, work, call, env, BatchInv, DTypeInv
<1> QED BY <1>6, <1>7, <1>8, <1>9, <1>10, <1>11, <1>12 DEF DIInv

\* It is called with the events of one event group.
LEMMA DispatchEventsStep ==
  ASSUME DIInv, dispatch_events
  PROVE  DIInv'
<1>1. /\ DTypeInv /\ WorkInv /\ cur.egrp = NoGrp /\ burst \in Seq(Tags)
      /\ cur \in [q : Queues \cup {NoQ}, sq : SchedQ \cup {NoQ}, egrp : Tags]
  BY DEF dispatch_events, DIInv, DTypeInv, WorkInv
<1>2. CASE burst = <<>>
  <2>1. /\ cur' = NoCur /\ pc = "batch" /\ pc' = "end"
        /\ UNCHANGED <<burst, entries, lbatch, run, handled, queued, pre, local, empty, emptyPrio, idle,
                       paused, opt, tot, got, calls, post, ctrl, freed, ready, unsent, ctrls>>
    BY <1>2 DEF dispatch_events, queues, work, call, env
  <2>2. NoCur \in [q : Queues \cup {NoQ}, sq : SchedQ \cup {NoQ}, egrp : Tags] BY DEF NoCur, Tags
  <2>3. DTypeInv' BY <1>1, <2>1, <2>2 DEF DTypeInv
  <2>4. WorkInv' BY <1>1, <1>2, <2>1 DEF WorkInv, Idling, NoCur
  <2>5. FlagsCoverLocal' /\ IdleInv' /\ CountInv' /\ PauseInv' /\ BatchInv'
    BY <2>1 DEF DIInv, FlagsCoverLocal, IdleInv, CountInv, PauseInv, BatchInv, Serving
  <2> QED BY <2>3, <2>4, <2>5 DEF DIInv
<1>3. CASE burst # <<>>
  <2>1. /\ call_eo_rcv_fn(cur.q, burst) /\ burst' = Rest(burst, run'.num)
        /\ pc = "batch" /\ pc' = "rcv"
        /\ UNCHANGED <<entries, lbatch, queued, pre, local, empty, emptyPrio, idle, paused, opt,
                       tot, got, calls, post, ctrl, freed, ready, unsent, ctrls>>
    BY <1>3 DEF dispatch_events, queues, call, env
  <2>2. /\ run' \in [num : Nat, kept : Nat] /\ run'.kept <= run'.num
        /\ run'.num \in 1..Len(burst) /\ handled' = handled + run'.num
        /\ cur' = [cur EXCEPT !.egrp = burst[1]] /\ burst[1] \in Tags
        /\ burst' \in Seq(Tags) /\ Len(burst') = Len(burst) - run'.num
    BY <1>1, <1>3, <2>1, CallIs
  <2>3. /\ cur' \in [q : Queues \cup {NoQ}, sq : SchedQ \cup {NoQ}, egrp : Tags]
        /\ cur'.q = cur.q /\ cur'.sq = cur.sq
    BY <1>1, <2>2
  <2>4. Len(burst) \in Nat /\ Len(entries) \in Nat /\ Len(lbatch) \in Nat BY <1>1, LengthsAre
  <2>5. handled \in Nat /\ handled' \in Nat
    <3>1. handled \in Nat /\ run'.num \in Nat BY <1>1, <2>2, <2>4 DEF DTypeInv
    <3> QED BY <3>1, <2>2
  <2>6. DTypeInv'
    <3>1. /\ UNCHANGED <<entries, lbatch, queued, pre, local, empty, emptyPrio, idle, paused, opt,
                         tot, got, calls, post, ctrl, freed, ready, unsent, ctrls>>
          /\ pc = "batch" /\ pc' = "rcv" /\ burst' \in Seq(Tags)
          /\ run' \in [num : Nat, kept : Nat] /\ run'.kept <= run'.num
      BY <2>1, <2>2
    <3> QED BY <1>1, <2>3, <2>5, <3>1 DEF DTypeInv
  <2>7. WorkInv' BY <1>1, <1>3, <2>1, <2>3 DEF WorkInv, Idling
  <2>8. FlagsCoverLocal' /\ IdleInv' /\ PauseInv' /\ BatchInv'
    BY <2>1 DEF DIInv, FlagsCoverLocal, IdleInv, PauseInv, BatchInv, Serving
  <2>9. CountInv'
    <3>1. tot.events \in Nat /\ tot.local \in Nat /\ got \in Nat BY <1>1 DEF DTypeInv
    <3>2. handled + Len(burst) + Len(entries) + Len(lbatch) = tot.events + tot.local + got
      BY <2>1 DEF DIInv, CountInv, Serving
    <3>3. handled' + Len(burst') + Len(entries') + Len(lbatch') = tot.events + tot.local + got
      BY <2>1, <2>2, <2>4, <2>5, <3>1, <3>2
    <3> QED BY <2>1, <3>3 DEF CountInv, Serving
  <2> QED BY <2>6, <2>7, <2>8, <2>9 DEF DIInv
<1> QED BY <1>2, <1>3

\* A round goes on with a batch from the local queues.
LEMMA LocalBatchStep ==
  ASSUME DIInv, dispatch_local_batch
  PROVE  DIInv'
<1>1. /\ DTypeInv /\ WorkInv /\ cur.egrp = NoGrp /\ lbatch \in Seq(Tags)
      /\ cur \in [q : Queues \cup {NoQ}, sq : SchedQ \cup {NoQ}, egrp : Tags]
  BY DEF dispatch_local_batch, DIInv, DTypeInv, WorkInv
<1>2. CASE lbatch = <<>>
  <2>1. /\ pc = "lbatch" /\ pc' = "entry"
        /\ UNCHANGED <<cur, burst, entries, lbatch, run, handled, queued, pre, local, empty, emptyPrio, idle,
                       paused, opt, tot, got, calls, post, ctrl, freed, ready, unsent, ctrls>>
    BY <1>2 DEF dispatch_local_batch, queues, work, call, env
  <2>2. DTypeInv' BY <1>1, <2>1 DEF DTypeInv
  <2>3. WorkInv' BY <1>1, <1>2, <2>1 DEF WorkInv, Idling
  <2>4. FlagsCoverLocal' /\ IdleInv' /\ CountInv' /\ PauseInv' /\ BatchInv'
    BY <2>1 DEF DIInv, FlagsCoverLocal, IdleInv, CountInv, PauseInv, BatchInv, Serving
  <2> QED BY <2>2, <2>3, <2>4 DEF DIInv
<1>3. CASE lbatch # <<>>
  <2>1. /\ call_eo_rcv_fn(cur.q, lbatch) /\ lbatch' = Rest(lbatch, run'.num)
        /\ pc = "lbatch" /\ pc' = "rcv"
        /\ UNCHANGED <<burst, entries, queued, pre, local, empty, emptyPrio, idle, paused, opt,
                       tot, got, calls, post, ctrl, freed, ready, unsent, ctrls>>
    BY <1>3 DEF dispatch_local_batch, queues, call, env
  <2>2. /\ run' \in [num : Nat, kept : Nat] /\ run'.kept <= run'.num
        /\ run'.num \in 1..Len(lbatch) /\ handled' = handled + run'.num
        /\ cur' = [cur EXCEPT !.egrp = lbatch[1]] /\ lbatch[1] \in Tags
        /\ lbatch' \in Seq(Tags) /\ Len(lbatch') = Len(lbatch) - run'.num
    BY <1>1, <1>3, <2>1, CallIs
  <2>3. /\ cur' \in [q : Queues \cup {NoQ}, sq : SchedQ \cup {NoQ}, egrp : Tags]
        /\ cur'.q = cur.q /\ cur'.sq = cur.sq
    BY <1>1, <2>2
  <2>4. Len(burst) \in Nat /\ Len(entries) \in Nat /\ Len(lbatch) \in Nat BY <1>1, LengthsAre
  <2>5. handled \in Nat /\ handled' \in Nat
    <3>1. handled \in Nat /\ run'.num \in Nat BY <1>1, <2>2, <2>4 DEF DTypeInv
    <3> QED BY <3>1, <2>2
  <2>6. DTypeInv'
    <3>1. /\ UNCHANGED <<burst, entries, queued, pre, local, empty, emptyPrio, idle, paused, opt,
                         tot, got, calls, post, ctrl, freed, ready, unsent, ctrls>>
          /\ pc = "lbatch" /\ pc' = "rcv" /\ lbatch' \in Seq(Tags)
          /\ run' \in [num : Nat, kept : Nat] /\ run'.kept <= run'.num
      BY <2>1, <2>2
    <3> QED BY <1>1, <2>3, <2>5, <3>1 DEF DTypeInv
  <2>7. WorkInv' BY <1>1, <1>3, <2>1, <2>3 DEF WorkInv, Idling
  <2>8. FlagsCoverLocal' /\ IdleInv' /\ PauseInv' /\ BatchInv'
    BY <2>1 DEF DIInv, FlagsCoverLocal, IdleInv, PauseInv, BatchInv, Serving
  <2>9. CountInv'
    <3>1. tot.events \in Nat /\ tot.local \in Nat /\ got \in Nat BY <1>1 DEF DTypeInv
    <3>2. handled + Len(burst) + Len(entries) + Len(lbatch) = tot.events + tot.local + got
      BY <2>1 DEF DIInv, CountInv, Serving
    <3>3. handled' + Len(burst') + Len(entries') + Len(lbatch') = tot.events + tot.local + got
      BY <2>1, <2>2, <2>4, <2>5, <3>1, <3>2
    <3> QED BY <2>1, <3>3 DEF CountInv, Serving
  <2> QED BY <2>6, <2>7, <2>8, <2>9 DEF DIInv
<1> QED BY <1>2, <1>3

\* The burst that is taken from the local queues.
LocalTake == Min({LocalBurst, Len(local[NextPrio])})

\* How many events are taken from a local queue.
LEMMA LocalTakeIs ==
  ASSUME DTypeInv, Occupied # {}
  PROVE  LocalTake \in 1..Len(local[NextPrio]) /\ Len(local[NextPrio]) \in Nat
<1>1. local[NextPrio] # <<>> /\ local[NextPrio] \in Seq(Item) BY NextPrioIs
<1>2. Len(local[NextPrio]) \in Nat /\ Len(local[NextPrio]) # 0 BY <1>1, LenProperties, EmptySeq
<1>3. LocalBurst \in Nat /\ LocalBurst # 0 BY DispatchAssumption
<1>4. LocalTake = IF LocalBurst <= Len(local[NextPrio]) THEN LocalBurst ELSE Len(local[NextPrio])
  BY <1>2, <1>3, MinOfTwo DEF LocalTake
<1> QED BY <1>2, <1>3, <1>4

\* The local queues are looked at.
LEMMA CheckLocalStep ==
  ASSUME DIInv, check_local_queues
  PROVE  DIInv'
<1>1. /\ DTypeInv /\ WorkInv /\ pc = "local" /\ entries = <<>> /\ lbatch = <<>>
      /\ cur \in [q : Queues \cup {NoQ}, sq : SchedQ \cup {NoQ}, egrp : Tags]
  BY DEF check_local_queues, DIInv, DTypeInv, WorkInv
<1>2. /\ emptyPrio' = MarkEmpty
      /\ UNCHANGED <<queued, pre, burst, lbatch, run, idle, paused, opt, got, calls, post, ctrl,
                     freed, handled, ready, unsent, ctrls>>
  BY DEF check_local_queues, env
<1>3. emptyPrio' \in [Prios -> BOOLEAN] BY <1>1, <1>2 DEF MarkEmpty, DTypeInv
<1>4. CASE Occupied # {}
  <2> DEFINE n == LocalTake  p == NextPrio
  <2>1. /\ entries' = SubSeq(local[p], 1, n) /\ local' = [local EXCEPT ![p] = Rest(local[p], n)]
        /\ tot' = [tot EXCEPT !.local = tot.local + n] /\ pc' = "entry" /\ UNCHANGED <<empty, cur>>
    BY <1>4 DEF check_local_queues, LocalTake
  <2>2. /\ p \in Prios /\ local[p] # <<>> /\ local[p] \in Seq(Item)
        /\ \A r \in Prios : r > p => emptyPrio[r] \/ local[r] = <<>>
    BY <1>1, <1>4, NextPrioIs
  <2>3. n \in 1..Len(local[p]) /\ Len(local[p]) \in Nat BY <1>1, <1>4, LocalTakeIs
  <2> HIDE DEF n, p
  <2>4. n \in 0..Len(local[p]) /\ n \in Nat BY <2>3
  <2>5. /\ entries' \in Seq(Item) /\ Len(entries') = n /\ Rest(local[p], n) \in Seq(Item)
    BY <2>1, <2>2, <2>4, SplitIs
  <2>6. local \in [Prios -> Seq(Item)] /\ emptyPrio \in [Prios -> BOOLEAN] BY <1>1 DEF DTypeInv
  <2>7. local' \in [Prios -> Seq(Item)] /\ \A r \in Prios : r # p => local'[r] = local[r]
    BY <2>1, <2>5, <2>6
  <2>8. tot \in [rounds : Nat, events : Nat, noev : Nat, local : Nat] BY <1>1 DEF DTypeInv
  <2>9. /\ tot' \in [rounds : Nat, events : Nat, noev : Nat, local : Nat]
        /\ tot'.local = tot.local + n /\ tot'.events = tot.events
    <3>1. tot.local + n \in Nat BY <2>4, <2>8
    <3> QED BY <2>1, <2>8, <3>1
  <2>10. DTypeInv' BY <1>1, <1>2, <1>3, <2>1, <2>5, <2>7, <2>9 DEF DTypeInv
  <2>11. WorkInv' BY <1>1, <1>2, <2>1 DEF WorkInv, Idling
  <2>12. FlagsCoverLocal'
    <3>1. ~empty /\ ~empty'
      <4>1. empty => local[p] = <<>> BY <2>2 DEF DIInv, FlagsCoverLocal
      <4> QED BY <4>1, <2>1, <2>2
    <3>2. ASSUME NEW r \in Prios, emptyPrio'[r] PROVE local'[r] = <<>>
      <4>1. emptyPrio[r] \/ r > p BY <1>2, <1>4, <3>2 DEF MarkEmpty, p
      <4>2. p \in Nat /\ r \in Nat BY <2>2, FiniteQueues
      <4>3. emptyPrio[r] => local[r] = <<>> BY DEF DIInv, FlagsCoverLocal
      <4>4. local[r] = <<>> BY <4>1, <4>3, <2>2
      <4> QED BY <4>4, <2>2, <2>7
    <3> QED BY <3>1, <3>2 DEF FlagsCoverLocal
  <2>13. IdleInv' /\ PauseInv' /\ BatchInv'
    BY <1>1, <1>2, <2>1 DEF DIInv, IdleInv, PauseInv, BatchInv, Serving
  <2>14. CountInv'
    <3>1. handled \in Nat /\ got \in Nat /\ tot.events \in Nat /\ tot.local \in Nat
      BY <1>1 DEF DTypeInv
    <3>2. Len(burst) \in Nat /\ Len(<<>>) = 0 BY <1>1, LengthsAre, EmptySeq
    <3>3. handled + Len(burst) + 0 + 0 = tot.events + tot.local + got
      BY <1>1, <3>2 DEF DIInv, CountInv, Serving
    <3>4. handled' + Len(burst') + Len(entries') + Len(lbatch') = tot'.events + tot'.local + got'
      <4>1. Len(lbatch') = 0 /\ Len(entries') = n BY <1>1, <1>2, <2>5, <3>2
      <4>2. handled' = handled /\ burst' = burst /\ got' = got BY <1>2
      <4>3. Len(burst') = Len(burst) BY <4>2
      <4>4. n \in Nat /\ tot'.local = tot.local + n /\ tot'.events = tot.events BY <2>4, <2>9
      <4>5. handled + Len(burst) + n + 0 = tot.events + (tot.local + n) + got
        BY SMTT(30), <3>1, <3>2, <3>3, <4>4
      <4> QED BY <4>1, <4>2, <4>3, <4>4, <4>5
    <3> QED BY <2>1, <3>4 DEF CountInv, Serving
  <2> QED BY <2>10, <2>11, <2>12, <2>13, <2>14 DEF DIInv
<1>5. CASE Occupied = {}
  <2>1. /\ empty' = TRUE /\ cur' = [cur EXCEPT !.q = cur.sq]
        /\ pc' = (IF cur.sq = NoQ THEN "end" ELSE "batch")
        /\ UNCHANGED <<entries, local, tot>>
    BY <1>5 DEF check_local_queues
  <2>2. NoQ \notin Queues /\ SchedQ \subseteq Queues BY DispatchAssumption DEF Queues
  <2>3. /\ cur' \in [q : Queues \cup {NoQ}, sq : SchedQ \cup {NoQ}, egrp : Tags]
        /\ cur'.q = cur.sq /\ cur'.sq = cur.sq /\ cur'.egrp = cur.egrp
    BY <1>1, <2>1, <2>2
  <2>4. DTypeInv' BY <1>1, <1>2, <1>3, <2>1, <2>3 DEF DTypeInv
  <2>5. WorkInv'
    <3>1. CASE cur.sq = NoQ
      <4>1. cur' = NoCur
        <5>1. cur'.q = NoQ /\ cur'.sq = NoQ /\ cur'.egrp = NoGrp
          BY <1>1, <2>3, <3>1 DEF WorkInv
        <5> QED BY <5>1, <2>3 DEF NoCur
      <4> QED BY <1>1, <1>2, <2>1, <3>1, <4>1 DEF WorkInv, Idling, NoCur
    <3>2. CASE cur.sq # NoQ
      <4>1. cur.sq \in SchedQ BY <1>1, <3>2
      <4> QED BY <1>1, <1>2, <2>1, <2>3, <3>2, <4>1 DEF WorkInv, Idling
    <3> QED BY <3>1, <3>2
  <2>6. FlagsCoverLocal'
    <3>1. \A r \in Prios : local[r] = <<>>
      <4>1. \A r \in Prios : emptyPrio[r] => local[r] = <<>> BY DEF DIInv, FlagsCoverLocal
      <4> QED BY <4>1, <1>5 DEF Occupied, Marked
    <3> QED BY <3>1, <2>1 DEF FlagsCoverLocal
  <2>7. IdleInv' /\ CountInv' /\ PauseInv' /\ BatchInv'
    BY <1>1, <1>2, <2>1 DEF DIInv, IdleInv, CountInv, PauseInv, BatchInv, Serving
  <2> QED BY <2>4, <2>5, <2>6, <2>7 DEF DIInv
<1> QED BY <1>4, <1>5

\* The entries at the front that are for the same queue.
ForOne == Max({k \in 1..Len(entries) : \A i \in 1..k : entries[i].q = entries[1].q})
FrontTags  == [i \in 1..ForOne |-> entries[i].g]

\* The events at the front that are for one queue.
LEMMA ForOneIs ==
  ASSUME DTypeInv, entries # <<>>
  PROVE  /\ ForOne \in 1..Len(entries) /\ Len(entries) \in Nat /\ entries[1].q \in LocalQ
         /\ FrontTags = SubSeq(TagsOf(entries), 1, ForOne)
         /\ FrontTags \in Seq(Tags) /\ Len(FrontTags) = ForOne
         /\ Rest(entries, ForOne) \in Seq(Item) /\ Len(Rest(entries, ForOne)) = Len(entries) - ForOne
         /\ \A g : Count(TagsOf(entries), g) = Count(FrontTags, g) + Count(TagsOf(Rest(entries, ForOne)), g)
<1> DEFINE T == {k \in 1..Len(entries) : \A i \in 1..k : entries[i].q = entries[1].q}
           n == ForOne  t == TagsOf(entries)
<1>1. entries \in Seq(Item) BY DEF DTypeInv
<1>2. Len(entries) \in Nat /\ Len(entries) # 0 BY <1>1, LenProperties, EmptySeq
<1>3. 1 \in T BY <1>2
<1>4. T \in SUBSET (0..Len(entries)) BY <1>2
<1>5. Max(T) \in T BY <1>2, <1>3, <1>4, MaxUpTo
<1>6. n \in 1..Len(entries) BY <1>5 DEF ForOne
<1>7. entries[1] \in Item BY <1>1, <1>2, ElementOfSeq
<1>8. t \in Seq(Tags) /\ Len(t) = Len(entries) /\ \A i \in 1..Len(entries) : t[i] = entries[i].g
  BY <1>1, TagsIs
<1> HIDE DEF n, t
<1>9. n \in 0..Len(entries) /\ n \in 0..Len(t) BY <1>6, <1>8
<1>10. /\ Rest(entries, n) \in Seq(Item) /\ Len(Rest(entries, n)) = Len(entries) - n
  BY <1>1, <1>9, SplitIs
<1>11. /\ SubSeq(t, 1, n) \in Seq(Tags) /\ Len(SubSeq(t, 1, n)) = n
       /\ \A i \in 1..n : SubSeq(t, 1, n)[i] = t[i]
  BY <1>8, <1>9, SplitIs
<1>12. FrontTags = SubSeq(t, 1, n)
  <2>1. n \in Nat /\ \A i \in 1..n : entries[i].g = t[i] /\ t[i] \in Tags
    BY <1>2, <1>6, <1>8, ElementOfSeq
  <2>2. FrontTags \in [1..n -> Tags] BY <2>1 DEF FrontTags, n
  <2>3. FrontTags \in Seq(Tags) /\ Len(FrontTags) = n BY <2>1, <2>2, SeqDef
  <2>4. \A i \in 1..Len(FrontTags) : FrontTags[i] = SubSeq(t, 1, n)[i] BY <2>1, <2>3, <1>11 DEF FrontTags, n
  <2> QED BY <2>3, <2>4, <1>11, SeqEqual
<1>13. TagsOf(Rest(entries, n)) = Rest(t, n) BY <1>1, <1>9, TagsSplit DEF t
<1>14. ASSUME NEW g PROVE Count(t, g) = Count(FrontTags, g) + Count(TagsOf(Rest(entries, n)), g)
  BY <1>8, <1>9, <1>12, <1>13, CountSplit
<1> QED BY <1>2, <1>6, <1>7, <1>10, <1>11, <1>12, <1>14 DEF n, t, Item

\* A burst of a local queue.
LEMMA LocalBurstStep ==
  ASSUME DIInv, dispatch_local_burst
  PROVE  DIInv'
<1>1. /\ DTypeInv /\ WorkInv /\ pc = "entry" /\ lbatch = <<>>
      /\ cur \in [q : Queues \cup {NoQ}, sq : SchedQ \cup {NoQ}, egrp : Tags]
  BY DEF dispatch_local_burst, DIInv, DTypeInv, WorkInv
<1>2. UNCHANGED <<queued, pre, local, empty, emptyPrio, burst, run, idle, paused, opt, tot, got, calls,
                  post, ctrl, ready, unsent, ctrls>>
  BY DEF dispatch_local_burst, queues, call, env
<1>3. CASE entries = <<>>
  <2>1. pc' = "local" /\ UNCHANGED <<cur, entries, lbatch, freed, handled>>
    BY <1>3 DEF dispatch_local_burst
  <2>2. DTypeInv' BY <1>1, <1>2, <2>1 DEF DTypeInv
  <2>3. WorkInv' BY <1>1, <1>2, <1>3, <2>1 DEF WorkInv, Idling
  <2>4. FlagsCoverLocal' /\ IdleInv' /\ CountInv' /\ PauseInv' /\ BatchInv'
    BY <1>1, <1>2, <2>1 DEF DIInv, FlagsCoverLocal, IdleInv, CountInv, PauseInv, BatchInv, Serving
  <2> QED BY <2>2, <2>3, <2>4 DEF DIInv
<1>4. CASE entries # <<>>
  <2> DEFINE q == entries[1].q  n == ForOne
  <2>1. /\ cur' = [cur EXCEPT !.q = q] /\ entries' = Rest(entries, n)
        /\ IF q \in ready
           THEN lbatch' = FrontTags /\ pc' = "lbatch" /\ UNCHANGED <<freed, handled>>
           ELSE /\ freed' = AddCounts(freed, FrontTags) /\ handled' = handled + n
                /\ UNCHANGED <<pc, lbatch>>
    BY <1>4 DEF dispatch_local_burst, ForOne, FrontTags
  <2>2. /\ n \in 1..Len(entries) /\ Len(entries) \in Nat /\ q \in LocalQ
        /\ FrontTags \in Seq(Tags) /\ Len(FrontTags) = n
        /\ Rest(entries, n) \in Seq(Item) /\ Len(Rest(entries, n)) = Len(entries) - n
    BY <1>1, <1>4, ForOneIs
  <2> HIDE DEF q, n
  <2>3. /\ cur' \in [q : Queues \cup {NoQ}, sq : SchedQ \cup {NoQ}, egrp : Tags]
        /\ cur'.q = q /\ cur'.sq = cur.sq /\ cur'.egrp = cur.egrp
    BY <1>1, <2>1, <2>2 DEF Queues
  <2>4. handled \in Nat /\ n \in Nat /\ handled + n \in Nat /\ freed \in [Tags -> Nat]
    BY <1>1, <2>2 DEF DTypeInv
  <2>5. AddCounts(freed, FrontTags) \in [Tags -> Nat] BY <2>2, <2>4, AddCountsIs
  <2>6. pc' \in {"entry", "lbatch"} BY <1>1, <2>1
  <2>7. handled' \in Nat /\ freed' \in [Tags -> Nat] /\ lbatch' \in Seq(Tags)
    BY <1>1, <2>1, <2>2, <2>4, <2>5 DEF DTypeInv
  <2>8. DTypeInv' BY <1>1, <1>2, <2>1, <2>2, <2>3, <2>6, <2>7 DEF DTypeInv
  <2>9. WorkInv' BY <1>1, <1>2, <2>1, <2>2, <2>3 DEF WorkInv, Idling
  <2>10. FlagsCoverLocal' /\ IdleInv' /\ PauseInv' /\ BatchInv'
    BY <1>1, <1>2, <2>6 DEF DIInv, FlagsCoverLocal, IdleInv, PauseInv, BatchInv, Serving
  <2>11. CountInv'
    <3>1. got \in Nat /\ tot.events \in Nat /\ tot.local \in Nat BY <1>1 DEF DTypeInv
    <3>2. Len(burst) \in Nat /\ Len(<<>>) = 0 BY <1>1, LengthsAre, EmptySeq
    <3>3. handled + Len(burst) + Len(entries) + 0 = tot.events + tot.local + got
      BY <1>1, <3>2 DEF DIInv, CountInv, Serving
    <3>4. handled' + Len(burst) + Len(entries') + Len(lbatch') = tot.events + tot.local + got
      <4>1. CASE q \in ready BY SMTT(30), <4>1, <1>1, <2>1, <2>2, <2>4, <3>1, <3>2, <3>3
      <4>2. CASE q \notin ready BY <4>2, <1>1, <2>1, <2>2, <2>4, <3>1, <3>2, <3>3
      <4> QED BY <4>1, <4>2
    <3> QED BY <1>2, <2>6, <3>4 DEF CountInv, Serving
  <2> QED BY <2>8, <2>9, <2>10, <2>11 DEF DIInv
<1> QED BY <1>3, <1>4

-----------------------------------------------------------------------------
(* Dispatch: the properties *)

\* Before em_dispatch() is called.
LEMMA DInitIs == DispatchInit => DIInv
<1> SUFFICES ASSUME DispatchInit PROVE DIInv OBVIOUS
<1>1. Budget \in [Tags -> Nat] /\ NoGrp \in Tags /\ Groups \subseteq Tags
  BY DispatchAssumption DEF Tags
<1>2. /\ <<>> \in Seq(Tags) /\ <<>> \in Seq(Item) /\ Len(<<>>) = 0 BY EmptySeq
<1>3. DTypeInv
  <2>1. cur \in [q : Queues \cup {NoQ}, sq : SchedQ \cup {NoQ}, egrp : Tags]
    BY <1>1 DEF DispatchInit, NoCur
  <2>2. post \in [Groups -> Nat] /\ unsent \in [Tags -> Nat] /\ freed \in [Tags -> Nat]
    BY <1>1 DEF DispatchInit
  <2>3. /\ run \in [num : Nat, kept : Nat] /\ run.kept <= run.num
        /\ tot \in [rounds : Nat, events : Nat, noev : Nat, local : Nat]
    BY DEF DispatchInit, NoRun, NoTot
  <2>4. /\ queued \in [SchedQ -> Seq(Tags)] /\ local \in [Prios -> Seq(Item)]
        /\ emptyPrio \in [Prios -> BOOLEAN] /\ pre \in [q : SchedQ \cup {NoQ}, evs : Seq(Tags)]
    BY <1>2 DEF DispatchInit, NoPre
  <2> QED BY <1>2, <2>1, <2>2, <2>3, <2>4 DEF DispatchInit, DTypeInv
<1>4. WorkInv BY DEF DispatchInit, WorkInv, Idling, NoCur
<1>5. FlagsCoverLocal /\ IdleInv /\ PauseInv /\ BatchInv
  BY DEF DispatchInit, FlagsCoverLocal, IdleInv, Serving, PauseInv, BatchInv
<1>6. CountInv BY <1>2 DEF DispatchInit, CountInv, Serving, NoTot
<1> QED BY <1>3, <1>4, <1>5, <1>6 DEF DIInv

\* Every step keeps the invariant of the dispatch loop.
LEMMA DStepIs ==
  ASSUME DIInv, [DispatchNext]_dvars
  PROVE  DIInv'
<1>1. CASE UNCHANGED dvars
  <2>1. UNCHANGED <<pc, queued, pre, local, empty, emptyPrio, cur, burst, entries, lbatch, run, idle,
                    paused, opt, tot, got, calls, post, ctrl, freed, handled, ready, unsent, ctrls>>
    BY <1>1 DEF dvars, queues, work, call, env
  <2>2. DTypeInv' BY <2>1 DEF DIInv, DTypeInv
  <2>3. WorkInv' BY <2>1 DEF DIInv, WorkInv, Idling
  <2>4. FlagsCoverLocal' /\ IdleInv' /\ CountInv' /\ PauseInv' /\ BatchInv'
    BY <2>1 DEF DIInv, FlagsCoverLocal, IdleInv, CountInv, PauseInv, BatchInv, Serving
  <2> QED BY <2>2, <2>3, <2>4 DEF DIInv
<1>2. CASE CoreStep
  BY <1>2, CheckDurationStep, InputPolledStep, PollCtrlStep, DispatchRoundStep, FreeInvalidStep,
     NoEventsStep, DispatchEventsStep, EndReceiveStep, CheckLocalStep, LocalBurstStep, LocalBatchStep,
     EndRoundStep
  DEF CoreStep
<1>3. CASE SyncCall BY <1>3, SyncCallStep
<1>4. ASSUME NEW o \in Opts, em_dispatch(o) PROVE DIInv' BY <1>4, EmDispatchStep
<1>5. ASSUME NEW g \in Tags, Send(g) PROVE DIInv'
  <2>1. (\E q \in LocalQ : send_local(q, g)) \/ (\E q \in SchedQ : send_sched(q, g))
    BY <1>5 DEF Send
  <2> QED BY <1>5, <2>1, SendLocalStep, SendSchedStep
<1>6. ASSUME NEW g \in Tags, CtrlArrives(g) PROVE DIInv' BY <1>6, CtrlArrivesStep
<1>7. ASSUME NEW q \in Queues, StopQueue(q) PROVE DIInv' BY <1>7, StopQueueStep
<1> QED BY <1>1, <1>2, <1>3, <1>4, <1>5, <1>6, <1>7 DEF DispatchNext

\* What the invariant says of the dispatch loop.
LEMMA DInvIs ==
  ASSUME DIInv
  PROVE  DispatchInv
<1>1. DispatchTypeOK BY DEF DIInv, DTypeInv, DispatchTypeOK, Item
<1>2. CurrentIsServed BY DEF DIInv, WorkInv, Idling, CurrentIsServed, NoCur
<1>3. FlagsCoverLocal /\ ReceivesActive BY DEF DIInv, IdleInv, Serving, ReceivesActive
<1>4. CountIsHandled
  <2> SUFFICES ASSUME pc = "app" PROVE tot.events + tot.local = handled BY DEF CountIsHandled
  <2>1. burst = <<>> /\ entries = <<>> /\ lbatch = <<>> /\ Len(<<>>) = 0
    BY EmptySeq DEF DIInv, WorkInv, Idling
  <2>2. handled \in Nat /\ tot.events \in Nat /\ tot.local \in Nat BY DEF DIInv, DTypeInv
  <2>3. handled + Len(burst) + Len(entries) + Len(lbatch) = tot.events + tot.local + 0
    BY DEF DIInv, CountInv, Serving
  <2> QED BY <2>1, <2>2, <2>3
<1>5. PausedCoreEmptied BY DEF DIInv, PauseInv, PausedCoreEmptied
<1> QED BY <1>1, <1>2, <1>3, <1>4, <1>5 DEF DispatchInv

\* The invariant holds at all times.
LEMMA DInductive == DispatchSpec => []DIInv
<1>1. DispatchInit => DIInv BY DInitIs
<1>2. DIInv /\ [DispatchNext]_dvars => DIInv' BY DStepIs
<1> QED BY <1>1, <1>2, PTL DEF DispatchSpec

\* The core-local memory agrees with what the dispatch loop does, for any queues,
\* priorities, burst sizes and durations: the current context, the flags that
\* let the local queues be skipped, the idle state, the event count that a
\* dispatch call returns and what a paused core has left (em_dispatcher_inline.h).
THEOREM DispatchCorrect == DispatchSpec => []DispatchInv
<1>1. DIInv => DispatchInv BY DInvIs
<1> QED BY <1>1, DInductive, PTL

\* The next batch of a scheduled burst finds the local queues empty: whatever an
\* EO receive function sent to them is dispatched before (dispatch_events()).
THEOREM LocalBefore == DispatchSpec => LocalBeforeNextBatch
<1>1. DIInv => (pc = "batch" /\ pc' = "rcv" /\ Len(burst) < got => empty) BY DEF DIInv, BatchInv
<1> QED BY <1>1, DInductive, PTL DEF LocalBeforeNextBatch

-----------------------------------------------------------------------------
(* Dispatch: every event of a group is counted once *)

LocalTags == [p \in Prios |-> TagsOf(local[p])]

\* What GroupCountedOnce adds up for group g.
Held(g)    == IF cur.egrp = g THEN run.num ELSE 0
Counted(g) == post[g] = unsent[g] + freed[g] + OnTheWay(g) + Held(g)

WayNat(g) ==
  /\ Total(queued, g) \in Nat /\ Total(LocalTags, g) \in Nat /\ Count(pre.evs, g) \in Nat
  /\ Count(burst, g) \in Nat /\ Count(TagsOf(entries), g) \in Nat /\ Count(lbatch, g) \in Nat
  /\ Count(ctrl, g) \in Nat
  /\ post[g] \in Nat /\ unsent[g] \in Nat /\ freed[g] \in Nat /\ run.num \in Nat

\* The tags of the events in the local queues.
LEMMA LocalTagsIs ==
  ASSUME local \in [Prios -> Seq(Item)]
  PROVE  LocalTags \in [Prios -> Seq(Tags)]
<1>1. ASSUME NEW p \in Prios PROVE TagsOf(local[p]) \in Seq(Tags)
  <2>1. local[p] \in Seq(Item) OBVIOUS
  <2> QED BY <2>1, TagsIs
<1> QED BY <1>1 DEF LocalTags

\* How many events of a group are on their way is a number.
LEMMA WayNatIs ==
  ASSUME DTypeInv, NEW g \in Groups
  PROVE  WayNat(g)
<1>1. /\ queued \in [SchedQ -> Seq(Tags)] /\ local \in [Prios -> Seq(Item)]
      /\ pre.evs \in Seq(Tags) /\ burst \in Seq(Tags) /\ lbatch \in Seq(Tags)
      /\ ctrl \in Seq(Tags) /\ entries \in Seq(Item)
      /\ post[g] \in Nat /\ unsent[g] \in Nat /\ freed[g] \in Nat /\ run.num \in Nat
  BY DEF DTypeInv, Tags
<1>2. LocalTags \in [Prios -> Seq(Tags)] BY <1>1, LocalTagsIs
<1>3. TagsOf(entries) \in Seq(Tags) BY <1>1, TagsIs
<1>4. IsFiniteSet(SchedQ) /\ IsFiniteSet(Prios) BY FiniteQueues
<1>5. Total(queued, g) \in Nat BY <1>1, <1>4, TotalNat
<1>6. Total(LocalTags, g) \in Nat BY <1>2, <1>4, TotalNat
<1>7. /\ Count(pre.evs, g) \in Nat /\ Count(burst, g) \in Nat /\ Count(lbatch, g) \in Nat
      /\ Count(ctrl, g) \in Nat /\ Count(TagsOf(entries), g) \in Nat
  BY <1>1, <1>3, CountIs
<1> QED BY <1>1, <1>5, <1>6, <1>7 DEF WayNat

\* The property, group by group.
LEMMA CountedIs == GroupCountedOnce <=> \A g \in Groups : Counted(g)
BY DEF GroupCountedOnce, Counted, Held

\* The events of a group on their way are those of all places.
LEMMA OnTheWayIs ==
  ASSUME NEW g
  PROVE  OnTheWay(g) = Total(queued, g) + Total(LocalTags, g) + Count(pre.evs, g)
                         + Count(burst, g) + Count(TagsOf(entries), g) + Count(lbatch, g)
                         + Count(ctrl, g)
BY DEF OnTheWay, LocalTags

\* A step that moves no event.
LEMMA NothingMoves ==
  ASSUME NEW g, Counted(g), cur'.egrp = cur.egrp, UNCHANGED run,
         UNCHANGED <<queued, pre, local, burst, entries, lbatch, ctrl, post, unsent, freed>>
  PROVE  Counted(g)'
BY DEF Counted, Held, OnTheWay

\* The control events of group g are counted to g, when the core is in no group.
LEMMA PollCounts ==
  ASSUME NEW g \in Groups, DTypeInv, Counted(g), cur.egrp = NoGrp, poll_unsched_ctrl_queue,
         UNCHANGED <<queued, pre, local, burst, entries, lbatch, unsent, freed, cur, run>>
  PROVE  Counted(g)'
<1>1. WayNat(g) BY WayNatIs
<1>2. NoGrp \notin Groups BY DispatchAssumption
<1>3. {i \in DOMAIN ctrl : CtrlGroup(i) = g} = {i \in DOMAIN ctrl : ctrl[i] = g}
  BY <1>2 DEF CtrlGroup
<1>4. post'[g] = Minus(post[g], Count(ctrl, g)) BY <1>3 DEF poll_unsched_ctrl_queue, Count
<1>5. ctrl' = <<>> /\ Count(<<>>, g) = 0 BY CountNone DEF poll_unsched_ctrl_queue
<1>6. Held(g) = 0 /\ Held(g)' = 0 BY <1>2 DEF Held
<1> DEFINE rest == Total(queued, g) + Total(LocalTags, g) + Count(pre.evs, g)
                     + Count(burst, g) + Count(TagsOf(entries), g) + Count(lbatch, g)
<1>7. rest \in Nat BY <1>1 DEF WayNat
<1>8. OnTheWay(g) = rest + Count(ctrl, g) BY OnTheWayIs
<1>9. OnTheWay(g)' = rest + 0 BY <1>5 DEF OnTheWay, LocalTags
<1> HIDE DEF rest
<1>10. post[g] = unsent[g] + freed[g] + (rest + Count(ctrl, g))
  BY <1>1, <1>6, <1>7, <1>8 DEF Counted, WayNat
<1>11. post'[g] = unsent[g] + freed[g] + rest
  BY <1>1, <1>4, <1>7, <1>10 DEF Minus, WayNat
<1>12. unsent' = unsent /\ freed' = freed OBVIOUS
<1> QED BY <1>1, <1>6, <1>7, <1>9, <1>11, <1>12 DEF Counted, WayNat

\* Sending to a local queue counts the event once.
LEMMA SendLocalCounts ==
  ASSUME NEW g \in Groups, DIInv, Counted(g), NEW h \in Tags, NEW q \in LocalQ,
         Send(h), send_local(q, h)
  PROVE  Counted(g)'
<1> DEFINE p == Prio[q]  e == [q |-> q, g |-> h]  d == IF h = g THEN 1 ELSE 0
           rest == Total(queued, g) + Count(pre.evs, g) + Count(burst, g)
                     + Count(TagsOf(entries), g) + Count(lbatch, g) + Count(ctrl, g)
<1>1. WayNat(g) /\ g \in Tags BY WayNatIs DEF DIInv, Tags
<1>2. /\ local \in [Prios -> Seq(Item)] /\ unsent \in [Tags -> Nat] /\ p \in Prios
  BY FiniteQueues DEF DIInv, DTypeInv
<1>3. local' = [local EXCEPT ![p] = Append(local[p], e)] /\ e \in Item BY DEF send_local, Item
<1>4. local[p] \in Seq(Item) BY <1>2
<1>5. Append(local[p], e) \in Seq(Item) BY <1>3, <1>4, AppendProperties
<1>6. local' \in [Prios -> Seq(Item)] /\ local'[p] = Append(local[p], e) BY <1>2, <1>3, <1>5
<1>7. TagsOf(local'[p]) = Append(TagsOf(local[p]), h) BY <1>3, <1>4, <1>6, TagsAppend
<1> DEFINE T == [r \in Prios |-> TagsOf(local'[r])]
<1>8. T \in [Prios -> Seq(Tags)] /\ T = [LocalTags EXCEPT ![p] = T[p]] /\ LocalTags \in [Prios -> Seq(Tags)]
  <2>1. ASSUME NEW r \in Prios PROVE TagsOf(local'[r]) \in Seq(Tags)
    <3>1. local'[r] \in Seq(Item) BY <1>6
    <3> QED BY <3>1, TagsIs
  <2>2. \A r \in Prios : r # p => local'[r] = local[r] BY <1>2, <1>3
  <2>3. LocalTags \in [Prios -> Seq(Tags)] BY <1>2, LocalTagsIs
  <2>4. \A r \in Prios : r # p => T[r] = LocalTags[r] BY <2>2 DEF LocalTags
  <2>5. T \in [Prios -> Seq(Tags)] BY <2>1
  <2> HIDE DEF T
  <2> QED BY <2>3, <2>4, <2>5, <1>2
<1>9. Count(T[p], g) = Count(LocalTags[p], g) + d
  <2>1. TagsOf(local[p]) \in Seq(Tags) BY <1>4, TagsIs
  <2>2. T[p] = Append(TagsOf(local[p]), h) /\ LocalTags[p] = TagsOf(local[p])
    BY <1>2, <1>7 DEF LocalTags
  <2>3. Count(Append(TagsOf(local[p]), h), g) = Count(TagsOf(local[p]), g) + d
    BY <2>1, CountAppend
  <2> HIDE DEF T
  <2> QED BY <2>2, <2>3
<1>10. Count(LocalTags[p], g) \in Nat
  <2>1. LocalTags[p] \in Seq(Tags) BY <1>2, <1>8
  <2> QED BY <2>1, CountIs
<1> HIDE DEF T
<1>11. Total(T, g) = Total(LocalTags, g) + d
  <2>1. Moves(LocalTags, T, p, g) BY <1>2, <1>8, FiniteQueues, TotalChange
  <2>2. Total(T, g) \in Nat /\ Total(LocalTags, g) \in Nat BY <1>8, FiniteQueues, TotalNat
  <2> QED BY <1>9, <1>10, <2>1, <2>2 DEF Moves
<1>12. unsent'[g] = unsent[g] - d
  <2>1. unsent' = [unsent EXCEPT ![h] = unsent[h] - 1] BY DEF Send
  <2> QED BY <1>1, <1>2, <2>1 DEF WayNat
<1>13. UNCHANGED <<queued, pre, burst, entries, lbatch, run, cur, post, ctrl, freed>>
  BY DEF Send, send_local, work
<1>14. OnTheWay(g) = rest + Total(LocalTags, g) BY <1>1 DEF OnTheWay, LocalTags, WayNat
<1>15. OnTheWay(g)' = rest + Total(T, g)
  <2>1. Total(T, g) \in Nat BY <1>8, FiniteQueues, TotalNat
  <2>2. OnTheWay(g)' = Total(queued, g) + Total(T, g) + Count(pre.evs, g)
                         + Count(burst, g) + Count(TagsOf(entries), g) + Count(lbatch, g)
                         + Count(ctrl, g)
    BY <1>13 DEF OnTheWay, T
  <2> QED BY <1>1, <2>1, <2>2 DEF WayNat
<1>16. rest \in Nat BY <1>1 DEF WayNat
<1> HIDE DEF rest
<1>17. Held(g)' = Held(g) /\ Held(g) \in Nat BY <1>1, <1>13 DEF Held, WayNat
<1>18. post'[g] = post[g] /\ freed'[g] = freed[g] BY <1>13
<1>19. post[g] = unsent[g] + freed[g] + (rest + Total(LocalTags, g)) + Held(g) BY <1>14 DEF Counted
<1>20. post'[g] = unsent'[g] + freed'[g] + (rest + Total(T, g)) + Held(g)'
  BY <1>1, <1>11, <1>12, <1>16, <1>17, <1>18, <1>19 DEF WayNat
<1> QED BY <1>15, <1>20 DEF Counted

\* And so does sending to a queue of the scheduler.
LEMMA SendSchedCounts ==
  ASSUME NEW g \in Groups, DIInv, Counted(g), NEW h \in Tags, NEW q \in SchedQ,
         Send(h), send_sched(q, h)
  PROVE  Counted(g)'
<1> DEFINE d == IF h = g THEN 1 ELSE 0  T == queued'
           rest == Total(LocalTags, g) + Count(pre.evs, g) + Count(burst, g)
                     + Count(TagsOf(entries), g) + Count(lbatch, g) + Count(ctrl, g)
<1>1. WayNat(g) /\ g \in Tags BY WayNatIs DEF DIInv, Tags
<1>2. queued \in [SchedQ -> Seq(Tags)] /\ unsent \in [Tags -> Nat] BY DEF DIInv, DTypeInv
<1>3. T = [queued EXCEPT ![q] = Append(queued[q], h)] BY DEF send_sched
<1>4. queued[q] \in Seq(Tags) BY <1>2
<1>5. Append(queued[q], h) \in Seq(Tags) BY <1>4, AppendProperties
<1>6. T \in [SchedQ -> Seq(Tags)] /\ T[q] = Append(queued[q], h) /\ T = [queued EXCEPT ![q] = T[q]]
  BY <1>2, <1>3, <1>5
<1>7. Count(T[q], g) = Count(queued[q], g) + d /\ Count(queued[q], g) \in Nat
  BY <1>4, <1>6, CountAppend, CountIs
<1>8. Total(T, g) = Total(queued, g) + d
  <2>1. Moves(queued, T, q, g) BY <1>2, <1>6, FiniteQueues, TotalChange
  <2>2. Total(T, g) \in Nat /\ Total(queued, g) \in Nat BY <1>2, <1>6, FiniteQueues, TotalNat
  <2> QED BY <1>7, <2>1, <2>2 DEF Moves
<1>9. unsent'[g] = unsent[g] - d
  <2>1. unsent' = [unsent EXCEPT ![h] = unsent[h] - 1] BY DEF Send
  <2> QED BY <1>1, <1>2, <2>1 DEF WayNat
<1>10. UNCHANGED <<local, pre, burst, entries, lbatch, run, cur, post, ctrl, freed>>
  BY DEF Send, send_sched, work
<1>11. OnTheWay(g) = rest + Total(queued, g) BY <1>1 DEF OnTheWay, LocalTags, WayNat
<1>12. OnTheWay(g)' = rest + Total(T, g)
  <2>1. Total(T, g) \in Nat BY <1>6, FiniteQueues, TotalNat
  <2>2. OnTheWay(g)' = Total(T, g) + Total(LocalTags, g) + Count(pre.evs, g)
                         + Count(burst, g) + Count(TagsOf(entries), g) + Count(lbatch, g)
                         + Count(ctrl, g)
    BY <1>10 DEF OnTheWay, LocalTags
  <2> QED BY <1>1, <2>1, <2>2 DEF WayNat
<1>13. rest \in Nat BY <1>1 DEF WayNat
<1> HIDE DEF rest
<1>14. Held(g)' = Held(g) /\ Held(g) \in Nat BY <1>1, <1>10 DEF Held, WayNat
<1>15. post'[g] = post[g] /\ freed'[g] = freed[g] BY <1>10
<1>16. post[g] = unsent[g] + freed[g] + (rest + Total(queued, g)) + Held(g) BY <1>11 DEF Counted
<1>17. post'[g] = unsent'[g] + freed'[g] + (rest + Total(T, g)) + Held(g)'
  BY <1>1, <1>8, <1>9, <1>13, <1>14, <1>15, <1>16 DEF WayNat
<1> QED BY <1>12, <1>17 DEF Counted

\* An internal event that arrives is counted on its way.
LEMMA CtrlArrivesCounts ==
  ASSUME NEW g \in Groups, DIInv, Counted(g), NEW h \in Tags, CtrlArrives(h)
  PROVE  Counted(g)'
<1> DEFINE d == IF h = g THEN 1 ELSE 0
           rest == Total(queued, g) + Total(LocalTags, g) + Count(pre.evs, g) + Count(burst, g)
                     + Count(TagsOf(entries), g) + Count(lbatch, g)
<1>1. WayNat(g) /\ g \in Tags /\ g # NoGrp
  BY WayNatIs, DispatchAssumption DEF DIInv, Tags
<1>2. ctrl \in Seq(Tags) /\ unsent \in [Tags -> Nat] BY DEF DIInv, DTypeInv
<1>3. ctrl' = Append(ctrl, h) BY DEF CtrlArrives
<1>4. Count(ctrl', g) = Count(ctrl, g) + d BY <1>2, <1>3, CountAppend
<1>5. unsent'[g] = unsent[g] - d
  <2>1. unsent' = IF h = NoGrp THEN unsent ELSE [unsent EXCEPT ![h] = unsent[h] - 1]
    BY DEF CtrlArrives
  <2> QED BY <1>1, <1>2, <2>1 DEF WayNat
<1>6. UNCHANGED <<queued, local, pre, burst, entries, lbatch, run, cur, post, freed>>
  BY DEF CtrlArrives, work, queues
<1>7. OnTheWay(g) = rest + Count(ctrl, g) BY <1>1 DEF OnTheWay, LocalTags, WayNat
<1>8. OnTheWay(g)' = rest + Count(ctrl', g) BY <1>6 DEF OnTheWay, LocalTags
<1>9. rest \in Nat BY <1>1 DEF WayNat
<1> HIDE DEF rest
<1>10. Held(g)' = Held(g) /\ Held(g) \in Nat BY <1>1, <1>6 DEF Held, WayNat
<1>11. post'[g] = post[g] /\ freed'[g] = freed[g] BY <1>6
<1>12. post[g] = unsent[g] + freed[g] + (rest + Count(ctrl, g)) + Held(g) BY <1>7 DEF Counted
<1>13. post'[g] = unsent'[g] + freed'[g] + (rest + Count(ctrl', g)) + Held(g)'
  BY <1>1, <1>4, <1>5, <1>9, <1>10, <1>11, <1>12 DEF WayNat
<1> QED BY <1>8, <1>13 DEF Counted

\* Taking a batch moves its events.
LEMMA RoundCounts ==
  ASSUME NEW g \in Groups, DIInv, Counted(g), dispatch_round
  PROVE  Counted(g)'
<1> DEFINE rest == Total(LocalTags, g) + Count(TagsOf(entries), g) + Count(lbatch, g) + Count(ctrl, g)
<1>1. WayNat(g) BY WayNatIs DEF DIInv
<1>2. opt.burst \in Nat \ {0} BY DispatchAssumption DEF dispatch_round, DIInv, DTypeInv
<1>3. PICK s \in Scheduled(opt.burst) :
        /\ pre' = s.pre /\ queued' = s.queued /\ burst' = s.evs
        /\ cur' = [q |-> s.q, sq |-> s.q, egrp |-> cur.egrp]
  BY DEF dispatch_round
<1>4. /\ Total(s.queued, g) + Count(s.pre.evs, g) + Count(s.evs, g)
           = Total(queued, g) + Count(pre.evs, g)
      /\ s.queued \in [SchedQ -> Seq(Tags)] /\ s.evs \in Seq(Tags)
      /\ s.pre \in [q : SchedQ \cup {NoQ}, evs : Seq(Tags)]
  BY <1>2, ScheduledIs DEF DIInv
<1>5. Count(burst, g) = 0
  <2>1. burst = <<>> BY DEF dispatch_round, DIInv, WorkInv, Idling
  <2> QED BY <2>1, CountNone
<1>6. Total(queued', g) \in Nat /\ Count(pre'.evs, g) \in Nat /\ Count(burst', g) \in Nat
  <2>1. s.pre.evs \in Seq(Tags) BY <1>4
  <2> QED BY <1>3, <1>4, <2>1, FiniteQueues, TotalNat, CountIs
<1>7. UNCHANGED <<local, entries, lbatch, run, ctrl, post, unsent, freed>> /\ cur'.egrp = cur.egrp
  BY <1>3 DEF dispatch_round, env
<1>8. OnTheWay(g) = rest + (Total(queued, g) + Count(pre.evs, g)) + Count(burst, g)
  BY <1>1 DEF OnTheWay, LocalTags, WayNat
<1>9. OnTheWay(g)' = rest + (Total(queued', g) + Count(pre'.evs, g) + Count(burst', g))
  <2>1. OnTheWay(g)' = Total(queued', g) + Total(LocalTags, g) + Count(pre'.evs, g)
                         + Count(burst', g) + Count(TagsOf(entries), g) + Count(lbatch, g)
                         + Count(ctrl, g)
    BY <1>7 DEF OnTheWay, LocalTags
  <2> QED BY <1>1, <1>6, <2>1 DEF WayNat
<1>10. rest \in Nat BY <1>1 DEF WayNat
<1> HIDE DEF rest
<1>11. OnTheWay(g)' = OnTheWay(g)
  <2>1. Total(queued', g) + Count(pre'.evs, g) + Count(burst', g) = Total(queued, g) + Count(pre.evs, g)
    BY <1>3, <1>4
  <2> QED BY <1>1, <1>5, <1>8, <1>9, <1>10, <2>1 DEF WayNat
<1>12. Held(g)' = Held(g) BY <1>7 DEF Held
<1>13. post'[g] = post[g] /\ unsent'[g] = unsent[g] /\ freed'[g] = freed[g] BY <1>7
<1> QED BY <1>11, <1>12, <1>13 DEF Counted

\* What that adds to one group.
LEMMA AddCountsAt ==
  ASSUME NEW g \in Groups, NEW f \in [Tags -> Nat], NEW s
  PROVE  AddCounts(f, s)[g] = f[g] + Count(s, g)
BY DEF AddCounts, Tags

LEMMA FreeInvalidCounts ==
  ASSUME NEW g \in Groups, DIInv, Counted(g), free_invalid_events
  PROVE  Counted(g)'
<1> DEFINE rest == Total(LocalTags, g) + Count(burst, g) + Count(TagsOf(entries), g)
                     + Count(lbatch, g) + Count(ctrl, g)
<1>1. WayNat(g) BY WayNatIs DEF DIInv
<1>2. opt.burst \in Nat \ {0} BY DispatchAssumption DEF free_invalid_events, DIInv, DTypeInv
<1>3. PICK s \in Scheduled(opt.burst) :
        pre' = s.pre /\ queued' = s.queued /\ freed' = AddCounts(freed, s.evs)
  BY DEF free_invalid_events
<1>4. /\ Total(s.queued, g) + Count(s.pre.evs, g) + Count(s.evs, g)
           = Total(queued, g) + Count(pre.evs, g)
      /\ s.queued \in [SchedQ -> Seq(Tags)] /\ s.evs \in Seq(Tags)
      /\ s.pre \in [q : SchedQ \cup {NoQ}, evs : Seq(Tags)]
  BY <1>2, ScheduledIs DEF DIInv
<1>5. freed'[g] = freed[g] + Count(s.evs, g) BY <1>3, AddCountsAt DEF DIInv, DTypeInv
<1>6. Total(queued', g) \in Nat /\ Count(pre'.evs, g) \in Nat /\ Count(s.evs, g) \in Nat
  <2>1. s.pre.evs \in Seq(Tags) BY <1>4
  <2> QED BY <1>3, <1>4, <2>1, FiniteQueues, TotalNat, CountIs
<1>7. UNCHANGED <<local, burst, entries, lbatch, run, ctrl, post, unsent, cur>>
  BY DEF free_invalid_events, env, work
<1>8. OnTheWay(g) = rest + (Total(queued, g) + Count(pre.evs, g))
  BY <1>1 DEF OnTheWay, LocalTags, WayNat
<1>9. OnTheWay(g)' = rest + (Total(queued', g) + Count(pre'.evs, g))
  <2>1. OnTheWay(g)' = Total(queued', g) + Total(LocalTags, g) + Count(pre'.evs, g)
                         + Count(burst, g) + Count(TagsOf(entries), g) + Count(lbatch, g)
                         + Count(ctrl, g)
    BY <1>7 DEF OnTheWay, LocalTags
  <2> QED BY <1>1, <1>6, <2>1 DEF WayNat
<1>10. rest \in Nat BY <1>1 DEF WayNat
<1> HIDE DEF rest
<1>11. OnTheWay(g)' + Count(s.evs, g) = OnTheWay(g)
  <2>1. Total(queued', g) + Count(pre'.evs, g) + Count(s.evs, g) = Total(queued, g) + Count(pre.evs, g)
    BY <1>3, <1>4
  <2> QED BY <1>1, <1>6, <1>8, <1>9, <1>10, <2>1 DEF WayNat
<1>12. Held(g)' = Held(g) /\ Held(g) \in Nat BY <1>1, <1>7 DEF Held, WayNat
<1>13. post'[g] = post[g] /\ unsent'[g] = unsent[g] BY <1>7
<1>14. OnTheWay(g)' \in Nat BY <1>6, <1>9, <1>10
<1>15. post'[g] = unsent'[g] + freed'[g] + OnTheWay(g)' + Held(g)'
  BY <1>1, <1>5, <1>6, <1>11, <1>12, <1>13, <1>14 DEF Counted, WayNat
<1> QED BY <1>15 DEF Counted

\* The events given to the receive function are counted when it returns.
LEMMA EndReceiveCounts ==
  ASSUME NEW g \in Groups, DIInv, Counted(g), EndReceive
  PROVE  Counted(g)'
<1>1. WayNat(g) BY WayNatIs DEF DIInv
<1>2. /\ cur' = [cur EXCEPT !.egrp = NoGrp] /\ run' = NoRun
      /\ post' = IF cur.egrp = NoGrp THEN post
                 ELSE [post EXCEPT ![cur.egrp] = Minus(post[cur.egrp], run.num)]
      /\ UNCHANGED <<queued, local, pre, burst, entries, lbatch, ctrl, unsent, freed>>
  BY DEF EndReceive, event_group_done, queues, env
<1>3. /\ cur \in [q : Queues \cup {NoQ}, sq : SchedQ \cup {NoQ}, egrp : Tags]
      /\ post \in [Groups -> Nat] /\ NoGrp \notin Groups
  BY DispatchAssumption DEF DIInv, DTypeInv
<1>4. Held(g)' = 0 BY <1>2, <1>3 DEF Held, NoRun
<1>5. OnTheWay(g)' = OnTheWay(g) /\ OnTheWay(g) \in Nat
  BY <1>1, <1>2 DEF OnTheWay, WayNat, LocalTags
<1>6. unsent'[g] = unsent[g] /\ freed'[g] = freed[g] BY <1>2
<1>7. post'[g] = unsent[g] + freed[g] + OnTheWay(g)
  <2>1. CASE cur.egrp = g
    <3>1. post'[g] = Minus(post[g], run.num) BY <1>2, <1>3, <2>1
    <3>2. post[g] = unsent[g] + freed[g] + OnTheWay(g) + run.num BY <2>1 DEF Counted, Held
    <3> QED BY <1>1, <1>5, <3>1, <3>2 DEF Minus, WayNat
  <2>2. CASE cur.egrp # g
    <3>1. post'[g] = post[g] BY <1>2, <1>3, <2>2
    <3>2. post[g] = unsent[g] + freed[g] + OnTheWay(g) + 0 BY <2>2 DEF Counted, Held
    <3> QED BY <1>1, <1>5, <3>1, <3>2 DEF WayNat
  <2> QED BY <2>1, <2>2
<1> QED BY <1>1, <1>4, <1>5, <1>6, <1>7 DEF Counted, WayNat

\* Giving events to the receive function moves them.
LEMMA DispatchEventsCounts ==
  ASSUME NEW g \in Groups, DIInv, Counted(g), dispatch_events
  PROVE  Counted(g)'
<1> DEFINE rest == Total(queued, g) + Total(LocalTags, g) + Count(pre.evs, g)
                     + Count(TagsOf(entries), g) + Count(lbatch, g) + Count(ctrl, g)
<1>1. WayNat(g) /\ NoGrp \notin Groups BY WayNatIs, DispatchAssumption DEF DIInv
<1>2. /\ cur.egrp = NoGrp /\ burst \in Seq(Tags)
      /\ cur \in [q : Queues \cup {NoQ}, sq : SchedQ \cup {NoQ}, egrp : Tags]
  BY DEF dispatch_events, DIInv, DTypeInv, WorkInv
<1>3. CASE burst = <<>>
  <2>1. cur'.egrp = cur.egrp /\ UNCHANGED work BY <1>2, <1>3 DEF dispatch_events, NoCur
  <2> QED BY <2>1, NothingMoves DEF dispatch_events, work, queues, env
<1>4. CASE burst # <<>>
  <2>1. /\ call_eo_rcv_fn(cur.q, burst) /\ burst' = Rest(burst, run'.num)
        /\ UNCHANGED <<queued, local, pre, entries, lbatch, ctrl, post, unsent, freed>>
    BY <1>4 DEF dispatch_events, queues, env
  <2>2. /\ run'.num \in 1..Len(burst) /\ cur' = [cur EXCEPT !.egrp = burst[1]]
        /\ burst' \in Seq(Tags)
        /\ Count(burst, g) = Count(burst', g) + (IF g = burst[1] THEN run'.num ELSE 0)
    BY <1>2, <1>4, <2>1, CallIs
  <2>3. Len(burst) \in Nat /\ run'.num \in Nat BY <1>2, <2>2, LenProperties
  <2>4. cur'.egrp = burst[1] BY <1>2, <2>2
  <2>5. Count(burst, g) = Count(burst', g) + Held(g)' BY <2>2, <2>4 DEF Held
  <2>6. Count(burst', g) \in Nat /\ Held(g)' \in Nat BY <2>2, <2>3, CountIs DEF Held
  <2>7. Held(g) = 0 BY <1>1, <1>2 DEF Held
  <2>8. OnTheWay(g) = rest + Count(burst, g) BY <1>1 DEF OnTheWay, LocalTags, WayNat
  <2>9. OnTheWay(g)' = rest + Count(burst', g)
    <3>1. OnTheWay(g)' = Total(queued, g) + Total(LocalTags, g) + Count(pre.evs, g)
                           + Count(burst', g) + Count(TagsOf(entries), g) + Count(lbatch, g)
                           + Count(ctrl, g)
      BY <2>1 DEF OnTheWay, LocalTags
    <3> QED BY <1>1, <2>6, <3>1 DEF WayNat
  <2>10. rest \in Nat BY <1>1 DEF WayNat
  <2> HIDE DEF rest
  <2>11. post'[g] = post[g] /\ unsent'[g] = unsent[g] /\ freed'[g] = freed[g] BY <2>1
  <2>12. post[g] = unsent[g] + freed[g] + (rest + Count(burst, g)) BY <1>1, <2>7, <2>8, <2>10 DEF Counted, WayNat
  <2>13. post'[g] = unsent'[g] + freed'[g] + (rest + Count(burst', g)) + Held(g)'
    BY <1>1, <2>5, <2>6, <2>10, <2>11, <2>12 DEF WayNat
  <2> QED BY <2>9, <2>13 DEF Counted
<1> QED BY <1>3, <1>4

\* And so does the next batch.
LEMMA LocalBatchCounts ==
  ASSUME NEW g \in Groups, DIInv, Counted(g), dispatch_local_batch
  PROVE  Counted(g)'
<1> DEFINE rest == Total(queued, g) + Total(LocalTags, g) + Count(pre.evs, g)
                     + Count(burst, g) + Count(TagsOf(entries), g) + Count(ctrl, g)
<1>1. WayNat(g) /\ NoGrp \notin Groups BY WayNatIs, DispatchAssumption DEF DIInv
<1>2. /\ cur.egrp = NoGrp /\ lbatch \in Seq(Tags)
      /\ cur \in [q : Queues \cup {NoQ}, sq : SchedQ \cup {NoQ}, egrp : Tags]
  BY DEF dispatch_local_batch, DIInv, DTypeInv, WorkInv
<1>3. CASE lbatch = <<>>
  <2>1. cur'.egrp = cur.egrp /\ UNCHANGED work BY <1>2, <1>3 DEF dispatch_local_batch, NoCur
  <2> QED BY <2>1, NothingMoves DEF dispatch_local_batch, work, queues, env
<1>4. CASE lbatch # <<>>
  <2>1. /\ call_eo_rcv_fn(cur.q, lbatch) /\ lbatch' = Rest(lbatch, run'.num)
        /\ UNCHANGED <<queued, local, pre, burst, entries, ctrl, post, unsent, freed>>
    BY <1>4 DEF dispatch_local_batch, queues, env
  <2>2. /\ run'.num \in 1..Len(lbatch) /\ cur' = [cur EXCEPT !.egrp = lbatch[1]]
        /\ lbatch' \in Seq(Tags)
        /\ Count(lbatch, g) = Count(lbatch', g) + (IF g = lbatch[1] THEN run'.num ELSE 0)
    BY <1>2, <1>4, <2>1, CallIs
  <2>3. Len(lbatch) \in Nat /\ run'.num \in Nat BY <1>2, <2>2, LenProperties
  <2>4. cur'.egrp = lbatch[1] BY <1>2, <2>2
  <2>5. Count(lbatch, g) = Count(lbatch', g) + Held(g)' BY <2>2, <2>4 DEF Held
  <2>6. Count(lbatch', g) \in Nat /\ Held(g)' \in Nat BY <2>2, <2>3, CountIs DEF Held
  <2>7. Held(g) = 0 BY <1>1, <1>2 DEF Held
  <2>8. OnTheWay(g) = rest + Count(lbatch, g) BY <1>1 DEF OnTheWay, LocalTags, WayNat
  <2>9. OnTheWay(g)' = rest + Count(lbatch', g)
    <3>1. OnTheWay(g)' = Total(queued, g) + Total(LocalTags, g) + Count(pre.evs, g)
                           + Count(burst, g) + Count(TagsOf(entries), g) + Count(lbatch', g)
                           + Count(ctrl, g)
      BY <2>1 DEF OnTheWay, LocalTags
    <3> QED BY <1>1, <2>6, <3>1 DEF WayNat
  <2>10. rest \in Nat BY <1>1 DEF WayNat
  <2> HIDE DEF rest
  <2>11. post'[g] = post[g] /\ unsent'[g] = unsent[g] /\ freed'[g] = freed[g] BY <2>1
  <2>12. post[g] = unsent[g] + freed[g] + (rest + Count(lbatch, g)) BY <1>1, <2>7, <2>8, <2>10 DEF Counted, WayNat
  <2>13. post'[g] = unsent'[g] + freed'[g] + (rest + Count(lbatch', g)) + Held(g)'
    BY <1>1, <2>5, <2>6, <2>10, <2>11, <2>12 DEF WayNat
  <2> QED BY <2>9, <2>13 DEF Counted
<1> QED BY <1>3, <1>4

\* The look at the local queues.
LEMMA CheckLocalCounts ==
  ASSUME NEW g \in Groups, DIInv, Counted(g), check_local_queues
  PROVE  Counted(g)'
<1> DEFINE rest == Total(queued, g) + Count(pre.evs, g) + Count(burst, g) + Count(lbatch, g)
                     + Count(ctrl, g)
<1>1. /\ WayNat(g) /\ DTypeInv /\ entries = <<>> /\ local \in [Prios -> Seq(Item)]
      /\ cur \in [q : Queues \cup {NoQ}, sq : SchedQ \cup {NoQ}, egrp : Tags]
  BY WayNatIs DEF check_local_queues, DIInv, WorkInv, DTypeInv
<1>2. /\ UNCHANGED <<queued, pre, burst, lbatch, run, ctrl, post, unsent, freed>>
      /\ cur'.egrp = cur.egrp
  BY <1>1 DEF check_local_queues, env
<1>3. CASE Occupied = {}
  <2>1. UNCHANGED <<entries, local>> BY <1>3 DEF check_local_queues
  <2> QED BY <1>2, <2>1, NothingMoves
<1>4. CASE Occupied # {}
  <2> DEFINE p == NextPrio  n == LocalTake  t == TagsOf(local[p])
             T == [r \in Prios |-> TagsOf(local'[r])]
  <2>1. entries' = SubSeq(local[p], 1, n) /\ local' = [local EXCEPT ![p] = Rest(local[p], n)]
    BY <1>4 DEF check_local_queues, LocalTake
  <2>2. p \in Prios /\ local[p] \in Seq(Item) BY <1>1, <1>4, NextPrioIs
  <2>3. n \in 1..Len(local[p]) /\ Len(local[p]) \in Nat BY <1>1, <1>4, LocalTakeIs
  <2> HIDE DEF n, p
  <2>4. n \in 0..Len(local[p]) BY <2>3
  <2>5. t \in Seq(Tags) /\ Len(t) = Len(local[p]) BY <2>2, TagsIs
  <2>6. TagsOf(entries') = SubSeq(t, 1, n) /\ TagsOf(Rest(local[p], n)) = Rest(t, n)
    BY <2>1, <2>2, <2>4, TagsSplit
  <2>7. Rest(local[p], n) \in Seq(Item) BY <2>2, <2>4, SplitIs
  <2> HIDE DEF t
  <2>8. SubSeq(t, 1, n) \in Seq(Tags) /\ Rest(t, n) \in Seq(Tags) BY <2>4, <2>5, SplitIs
  <2>9. Count(t, g) = Count(SubSeq(t, 1, n), g) + Count(Rest(t, n), g)
    BY <2>4, <2>5, CountSplit
  <2>10. local' \in [Prios -> Seq(Item)] /\ local'[p] = Rest(local[p], n) BY <1>1, <2>1, <2>2, <2>7
  <2>11. T \in [Prios -> Seq(Tags)] /\ T = [LocalTags EXCEPT ![p] = T[p]] /\ LocalTags \in [Prios -> Seq(Tags)]
    <3>1. ASSUME NEW r \in Prios PROVE TagsOf(local'[r]) \in Seq(Tags)
      <4>1. local'[r] \in Seq(Item) BY <2>10
      <4> QED BY <4>1, TagsIs
    <3>2. \A r \in Prios : r # p => local'[r] = local[r] BY <1>1, <2>1, <2>2
    <3>3. LocalTags \in [Prios -> Seq(Tags)] BY <1>1, LocalTagsIs
    <3>4. \A r \in Prios : r # p => T[r] = LocalTags[r] BY <3>2 DEF LocalTags
    <3>5. T \in [Prios -> Seq(Tags)] BY <3>1
    <3> HIDE DEF T
    <3> QED BY <3>3, <3>4, <3>5, <2>2
  <2>12. T[p] = Rest(t, n) /\ LocalTags[p] = t BY <2>2, <2>6, <2>10 DEF LocalTags, t
  <2> HIDE DEF T
  <2>13. Total(T, g) \in Nat /\ Total(LocalTags, g) \in Nat BY <2>11, FiniteQueues, TotalNat
  <2>14. /\ Count(t, g) \in Nat /\ Count(SubSeq(t, 1, n), g) \in Nat /\ Count(Rest(t, n), g) \in Nat
    BY <2>5, <2>8, CountIs
  <2>15. Total(T, g) + Count(TagsOf(entries'), g) = Total(LocalTags, g)
    <3>1. Moves(LocalTags, T, p, g) BY <2>2, <2>11, FiniteQueues, TotalChange
    <3>2. Total(T, g) + Count(t, g) = Total(LocalTags, g) + Count(Rest(t, n), g)
      BY <3>1, <2>12 DEF Moves
    <3>3. Count(TagsOf(entries'), g) = Count(SubSeq(t, 1, n), g) BY <2>6
    <3> QED BY <2>9, <2>13, <2>14, <3>2, <3>3
  <2>16. Count(TagsOf(entries), g) = 0 /\ Count(TagsOf(entries'), g) \in Nat
    <3>1. TagsOf(<<>>) = <<>> BY EmptySeq DEF TagsOf
    <3> QED BY <1>1, <2>6, <2>14, <3>1, CountNone
  <2>17. OnTheWay(g) = rest + Total(LocalTags, g) + Count(TagsOf(entries), g)
    BY <1>1 DEF OnTheWay, LocalTags, WayNat
  <2>18. OnTheWay(g)' = rest + (Total(T, g) + Count(TagsOf(entries'), g))
    <3>1. OnTheWay(g)' = Total(queued, g) + Total(T, g) + Count(pre.evs, g) + Count(burst, g)
                           + Count(TagsOf(entries'), g) + Count(lbatch, g) + Count(ctrl, g)
      BY <1>2 DEF OnTheWay, T
    <3> QED BY <1>1, <2>13, <2>16, <3>1 DEF WayNat
  <2>19. rest \in Nat BY <1>1 DEF WayNat
  <2> HIDE DEF rest
  <2>20. OnTheWay(g)' = OnTheWay(g) BY <2>13, <2>15, <2>16, <2>17, <2>18, <2>19
  <2>21. Held(g)' = Held(g) BY <1>2 DEF Held
  <2>22. post'[g] = post[g] /\ unsent'[g] = unsent[g] /\ freed'[g] = freed[g] BY <1>2
  <2> QED BY <2>20, <2>21, <2>22 DEF Counted
<1> QED BY <1>3, <1>4

\* And a burst from one.
LEMMA LocalBurstCounts ==
  ASSUME NEW g \in Groups, DIInv, Counted(g), dispatch_local_burst
  PROVE  Counted(g)'
<1> DEFINE rest == Total(queued, g) + Total(LocalTags, g) + Count(pre.evs, g) + Count(burst, g)
                     + Count(ctrl, g)
<1>1. /\ WayNat(g) /\ DTypeInv /\ lbatch = <<>> /\ freed \in [Tags -> Nat] /\ entries \in Seq(Item)
      /\ cur \in [q : Queues \cup {NoQ}, sq : SchedQ \cup {NoQ}, egrp : Tags]
  BY WayNatIs DEF dispatch_local_burst, DIInv, WorkInv, DTypeInv
<1>2. UNCHANGED <<queued, local, pre, burst, run, ctrl, post, unsent>> /\ cur'.egrp = cur.egrp
  BY <1>1 DEF dispatch_local_burst, env, queues
<1>3. CASE entries = <<>>
  <2>1. UNCHANGED <<entries, lbatch, freed>> BY <1>3 DEF dispatch_local_burst
  <2> QED BY <1>2, <2>1, NothingMoves
<1>4. CASE entries # <<>>
  <2> DEFINE n == ForOne
  <2>1. /\ entries' = Rest(entries, n)
        /\ \/ lbatch' = FrontTags /\ UNCHANGED freed
           \/ freed' = AddCounts(freed, FrontTags) /\ UNCHANGED lbatch
    BY <1>4 DEF dispatch_local_burst, ForOne, FrontTags
  <2>2. /\ Count(TagsOf(entries), g) = Count(FrontTags, g) + Count(TagsOf(Rest(entries, n)), g)
        /\ FrontTags \in Seq(Tags) /\ Rest(entries, n) \in Seq(Item)
    BY <1>1, <1>4, ForOneIs
  <2> HIDE DEF n
  <2>3. Count(TagsOf(entries), g) = Count(FrontTags, g) + Count(TagsOf(entries'), g) BY <2>1, <2>2
  <2>4. Count(FrontTags, g) \in Nat /\ Count(TagsOf(entries'), g) \in Nat BY <2>1, <2>2, TagsIs, CountIs
  <2>5. Count(lbatch, g) = 0 BY <1>1, CountNone
  <2>6. /\ Count(lbatch', g) \in Nat /\ freed'[g] \in Nat
        /\ Count(lbatch', g) + freed'[g] = Count(FrontTags, g) + freed[g]
    <3>1. CASE lbatch' = FrontTags /\ UNCHANGED freed BY <1>1, <2>4, <3>1 DEF WayNat
    <3>2. CASE freed' = AddCounts(freed, FrontTags) /\ UNCHANGED lbatch
      <4>1. freed'[g] = freed[g] + Count(FrontTags, g) BY <1>1, <3>2, AddCountsAt
      <4>2. Count(lbatch', g) = 0 BY <2>5, <3>2
      <4> QED BY SMTT(30), <1>1, <2>4, <4>1, <4>2 DEF WayNat
    <3> QED BY <2>1, <3>1, <3>2
  <2>7. OnTheWay(g) = rest + Count(TagsOf(entries), g) + Count(lbatch, g)
    BY <1>1 DEF OnTheWay, LocalTags, WayNat
  <2>8. OnTheWay(g)' = rest + Count(TagsOf(entries'), g) + Count(lbatch', g)
    <3>1. OnTheWay(g)' = Total(queued, g) + Total(LocalTags, g) + Count(pre.evs, g) + Count(burst, g)
                           + Count(TagsOf(entries'), g) + Count(lbatch', g) + Count(ctrl, g)
      BY <1>2 DEF OnTheWay, LocalTags
    <3> QED BY <1>1, <2>4, <2>6, <3>1 DEF WayNat
  <2>9. rest \in Nat BY SMTT(30), <1>1 DEF WayNat
  <2> HIDE DEF rest
  <2>10. /\ Count(TagsOf(entries), g) \in Nat /\ post[g] \in Nat /\ unsent[g] \in Nat /\ freed[g] \in Nat
    BY <1>1 DEF WayNat
  <2>11. freed'[g] + OnTheWay(g)' = freed[g] + OnTheWay(g)
    BY <2>10, <2>3, <2>4, <2>5, <2>6, <2>7, <2>8, <2>9
  <2>12. Held(g)' = Held(g) /\ Held(g) \in Nat BY <1>1, <1>2 DEF Held, WayNat
  <2>13. post'[g] = post[g] /\ unsent'[g] = unsent[g] BY <1>2
  <2>14. OnTheWay(g) \in Nat /\ OnTheWay(g)' \in Nat BY <2>10, <2>4, <2>5, <2>6, <2>7, <2>8, <2>9
  <2>15. post'[g] = unsent'[g] + freed'[g] + OnTheWay(g)' + Held(g)'
    <3>1. post[g] = unsent[g] + freed[g] + OnTheWay(g) + Held(g) BY DEF Counted
    <3> QED BY <2>10, <2>6, <2>11, <2>12, <2>13, <2>14, <3>1
  <2> QED BY <2>15 DEF Counted
<1> QED BY <1>3, <1>4

\* Every step keeps the counts of all groups.
LEMMA CountsStep ==
  ASSUME NEW g \in Groups, ~SyncInGroup, DIInv, Counted(g), [DispatchNext]_dvars
  PROVE  Counted(g)'
<1>1. CASE UNCHANGED dvars
  <2>1. /\ cur'.egrp = cur.egrp
        /\ UNCHANGED <<run, queued, pre, local, burst, entries, lbatch, ctrl, post, unsent, freed>>
    BY <1>1 DEF dvars, queues, work, env
  <2> QED BY <2>1, NothingMoves
<1>2. CASE CheckDuration \/ InputPolled \/ NoEvents \/ EndRound
  <2>1. /\ cur'.egrp = cur.egrp
        /\ UNCHANGED <<run, queued, pre, local, burst, entries, lbatch, ctrl, post, unsent, freed>>
    BY <1>2 DEF CheckDuration, InputPolled, NoEvents, EndRound, queues, work, env
  <2> QED BY <2>1, NothingMoves
<1>3. CASE dispatch_poll_ctrl_queue
  <2>1. DTypeInv /\ cur.egrp = NoGrp BY <1>3 DEF dispatch_poll_ctrl_queue, DIInv, WorkInv
  <2>2. UNCHANGED <<run, queued, pre, local, burst, entries, lbatch, unsent, freed, cur>>
    BY <1>3 DEF dispatch_poll_ctrl_queue, queues, work, env
  <2>3. CASE poll_unsched_ctrl_queue BY <2>1, <2>2, <2>3, PollCounts
  <2>4. CASE UNCHANGED <<post, ctrl>> BY <2>2, <2>4, NothingMoves
  <2> QED BY <1>3, <2>3, <2>4 DEF dispatch_poll_ctrl_queue
<1>4. CASE SyncCall
  <2>1. DTypeInv /\ cur.egrp = NoGrp BY <1>4 DEF SyncCall, DIInv
  <2>2. UNCHANGED <<run, queued, pre, local, burst, entries, lbatch, unsent, freed, cur>>
    BY <1>4 DEF SyncCall, queues, work, env
  <2> QED BY <1>4, <2>1, <2>2, PollCounts DEF SyncCall
<1>5. CASE dispatch_round \/ free_invalid_events \/ dispatch_events \/ EndReceive
           \/ check_local_queues \/ dispatch_local_burst \/ dispatch_local_batch
  BY <1>5, RoundCounts, FreeInvalidCounts, DispatchEventsCounts, EndReceiveCounts,
     CheckLocalCounts, LocalBurstCounts, LocalBatchCounts
<1>6. ASSUME NEW o \in Opts, em_dispatch(o) PROVE Counted(g)'
  <2>1. /\ cur'.egrp = cur.egrp
        /\ UNCHANGED <<run, queued, pre, local, burst, entries, lbatch, ctrl, post, unsent, freed>>
    BY <1>6 DEF em_dispatch, queues, work, env
  <2> QED BY <2>1, NothingMoves
<1>7. ASSUME NEW h \in Tags, Send(h) PROVE Counted(g)'
  <2>1. (\E q \in LocalQ : send_local(q, h)) \/ (\E q \in SchedQ : send_sched(q, h))
    BY <1>7 DEF Send
  <2> QED BY <1>7, <2>1, SendLocalCounts, SendSchedCounts
<1>8. ASSUME NEW h \in Tags, CtrlArrives(h) PROVE Counted(g)' BY <1>8, CtrlArrivesCounts
<1>9. ASSUME NEW q \in Queues, StopQueue(q) PROVE Counted(g)'
  <2>1. /\ cur'.egrp = cur.egrp
        /\ UNCHANGED <<run, queued, pre, local, burst, entries, lbatch, ctrl, post, unsent, freed>>
    BY <1>9 DEF StopQueue, queues, work
  <2> QED BY <2>1, NothingMoves
<1> QED BY <1>1, <1>2, <1>3, <1>4, <1>5, <1>6, <1>7, <1>8, <1>9 DEF DispatchNext, CoreStep

\* At the beginning no event is counted.
LEMMA CountsInit == DispatchInit => GroupCountedOnce
<1> SUFFICES ASSUME DispatchInit, NEW g \in Groups PROVE Counted(g) BY CountedIs
<1>1. Budget \in [Tags -> Nat] /\ g \in Tags /\ g # NoGrp BY DispatchAssumption DEF Tags
<1>2. post[g] = Budget[g] /\ unsent[g] = Budget[g] /\ freed[g] = 0 BY <1>1 DEF DispatchInit
<1>3. Held(g) = 0 BY <1>1 DEF DispatchInit, NoCur, Held
<1>4. TagsOf(<<>>) = <<>> BY EmptySeq DEF TagsOf
<1>5. Total(queued, g) = 0 BY TotalNone DEF DispatchInit
<1>6. Total(LocalTags, g) = 0 BY <1>4, TotalNone DEF DispatchInit, LocalTags
<1>7. /\ Count(pre.evs, g) = 0 /\ Count(burst, g) = 0 /\ Count(TagsOf(entries), g) = 0
      /\ Count(lbatch, g) = 0 /\ Count(ctrl, g) = 0
  BY <1>4, CountNone DEF DispatchInit, NoPre
<1>8. OnTheWay(g) = 0 BY <1>5, <1>6, <1>7, OnTheWayIs
<1> QED BY <1>1, <1>2, <1>3, <1>8 DEF Counted

\* Every event of a group is counted to the group exactly once, for any groups,
\* queues, batches and interleavings, dropped and freed events included, when the
\* synchronous calls are made outside of event groups (event_group_done(),
\* poll_unsched_ctrl_queue()).
THEOREM GroupCountedOnceHolds == ASSUME ~SyncInGroup PROVE DispatchSpec => []GroupCountedOnce
<1>1. DIInv /\ GroupCountedOnce /\ [DispatchNext]_dvars => GroupCountedOnce'
  <2> SUFFICES ASSUME DIInv, GroupCountedOnce, [DispatchNext]_dvars PROVE GroupCountedOnce' OBVIOUS
  <2>1. ASSUME NEW g \in Groups PROVE Counted(g)' BY CountedIs, CountsStep
  <2> QED BY <2>1 DEF GroupCountedOnce, Counted, Held
<1> QED BY <1>1, CountsInit, DInductive, PTL DEF DispatchSpec


-----------------------------------------------------------------------------
(* Output queues: the inductive invariant *)

OEv == (1..Contexts) \X (Nat \ {0})   \* sent in an ordered context
DEv == {0} \X (Nat \ {0})             \* sent without one
Where == {"schedule", "receive", "trylock", "drain", "unlock"}

In(s) == {s[i] : i \in 1..Len(s)}

OTypeInv ==
  /\ next \in 1..Contexts + 1 /\ turn \in 1..Contexts + 1 /\ turn <= next
  /\ ctx \in [OutCores -> 0..Contexts] /\ type \in [OutCores -> BOOLEAN]
  /\ opc \in [OutCores -> Where]
  /\ sent \in [1..Contexts -> Nat] /\ held \in [1..Contexts -> Seq(OEv)]
  /\ odpQueue \in Seq(OEv) /\ track \in [OutCores -> BOOLEAN]
  /\ outLock \in OutCores \cup {NoCore}
  /\ deqd \in [OutCores -> Seq(OEv)] /\ output \in Seq(OEv \cup DEv)
  /\ direct \subseteq DEv /\ deleted \in BOOLEAN /\ immediate \in BOOLEAN

\* A context is held by one core at a time, from its turn on or before it, and a
\* core that is in an EO function for an ordered event holds its context.
ContextsInv ==
  \A c \in OutCores :
    /\ ctx[c] # 0 => turn <= ctx[c] /\ ctx[c] < next
    /\ opc[c] # "schedule" /\ type[c] => ctx[c] # 0
    /\ \A d \in OutCores : ctx[c] # 0 /\ ctx[c] = ctx[d] => c = d

\* The core that drains has the lock, and no other has dequeued anything.
DrainInv ==
  \A c \in OutCores :
    /\ opc[c] \in {"drain", "unlock"} <=> outLock = c
    /\ deqd[c] # <<>> => opc[c] = "drain"

\* The number of events of a context that ODP has let go.
Gone(k) == sent[k] - Len(held[k])

\* What is kept of a context are the last of its events, all of them when it has
\* not been its turn, and nothing after it.
HeldInv ==
  \A k \in 1..Contexts :
    /\ Gone(k) \in Nat
    /\ \A i \in 1..Len(held[k]) : held[k][i] = <<k, Gone(k) + i>>
    /\ k < turn => held[k] = <<>>
    /\ k > turn => Gone(k) = 0

\* Events that ODP has let go, and those that were given to the output function
\* and dequeued by somebody.
Passed(e) == e[1] = 0 \/ (e[1] <= turn /\ e[2] <= Gone(e[1]))
Dequeued == UNION {In(deqd[c]) : c \in OutCores}

\* Events sent without a context are not looked at.
Precedes(A, B) == \A d \in A, e \in B : d[1] = 0 \/ e[1] = 0 \/ Before(d, e)
Sorted(s)      == \A i, j \in 1..Len(s) : i < j => s[i][1] = 0 \/ s[j][1] = 0 \/ Before(s[i], s[j])

\* Each of the three places is in order, and what is in one precedes what is in
\* the next.
OrderInv ==
  /\ Sorted(output) /\ Sorted(odpQueue) /\ \A c \in OutCores : Sorted(deqd[c])
  /\ Precedes(In(output), Dequeued) /\ Precedes(In(output), In(odpQueue))
  /\ Precedes(Dequeued, In(odpQueue))
  /\ \A e \in In(output) \cup Dequeued \cup In(odpQueue) : Passed(e)
  /\ \A e \in In(output) : e[1] = 0 => e \in direct

\* Nothing that ODP has let go is lost.
KeptInv ==
  \A k \in 1..Contexts : \A n \in 1..Gone(k) : <<k, n>> \in In(output) \cup Dequeued \cup In(odpQueue)

\* Nothing happens to a queue that is deleted.
DeletedInv ==
  deleted => /\ turn > Contexts /\ odpQueue = <<>>
             /\ \A c \in OutCores : opc[c] = "schedule"

OInv ==
  /\ OTypeInv /\ ContextsInv /\ DrainInv /\ HeldInv /\ OrderInv /\ KeptInv /\ DeletedInv

-----------------------------------------------------------------------------
(* Sequences *)

\* The parts of a concatenation.
LEMMA ConcatIs ==
  ASSUME NEW S, NEW s \in Seq(S), NEW t \in Seq(S)
  PROVE  /\ s \o t \in Seq(S) /\ Len(s \o t) = Len(s) + Len(t)
         /\ \A i \in 1..Len(s) : (s \o t)[i] = s[i]
         /\ \A i \in 1..Len(t) : (s \o t)[Len(s) + i] = t[i]
         /\ In(s \o t) = In(s) \cup In(t)
<1>1. Len(s) \in Nat /\ Len(t) \in Nat BY LenProperties
<1>2. s \o t \in Seq(S) /\ Len(s \o t) = Len(s) + Len(t) BY ConcatProperties
<1>3. \A i \in 1..Len(s) + Len(t) : (s \o t)[i] = IF i <= Len(s) THEN s[i] ELSE t[i - Len(s)]
  BY ConcatProperties
<1>4. \A i \in 1..Len(s) : (s \o t)[i] = s[i] BY <1>1, <1>3
<1>5. \A i \in 1..Len(t) : (s \o t)[Len(s) + i] = t[i]
  <2> SUFFICES ASSUME NEW i \in 1..Len(t) PROVE (s \o t)[Len(s) + i] = t[i] OBVIOUS
  <2>1. Len(s) + i \in 1..Len(s) + Len(t) /\ ~(Len(s) + i <= Len(s)) /\ Len(s) + i - Len(s) = i
    BY <1>1
  <2> QED BY <1>3, <2>1
<1>6. In(s \o t) = In(s) \cup In(t)
  <2>1. ASSUME NEW x \in In(s \o t) PROVE x \in In(s) \cup In(t)
    <3>1. PICK i \in 1..Len(s \o t) : x = (s \o t)[i] BY <2>1 DEF In
    <3>2. CASE i <= Len(s) BY <1>1, <1>2, <1>4, <3>1, <3>2 DEF In
    <3>3. CASE ~(i <= Len(s))
      <4>1. i - Len(s) \in 1..Len(t) /\ x = t[i - Len(s)] BY <1>1, <1>2, <1>3, <3>1, <3>3
      <4> QED BY <4>1 DEF In
    <3> QED BY <3>2, <3>3
  <2>2. ASSUME NEW x \in In(s) PROVE x \in In(s \o t)
    <3>1. PICK i \in 1..Len(s) : x = s[i] BY <2>2 DEF In
    <3>2. i \in 1..Len(s \o t) /\ x = (s \o t)[i] BY <1>1, <1>2, <1>4, <3>1
    <3> QED BY <3>2 DEF In
  <2>3. ASSUME NEW x \in In(t) PROVE x \in In(s \o t)
    <3>1. PICK i \in 1..Len(t) : x = t[i] BY <2>3 DEF In
    <3>2. Len(s) + i \in 1..Len(s \o t) /\ x = (s \o t)[Len(s) + i] BY <1>1, <1>2, <1>5, <3>1
    <3> QED BY <3>2 DEF In
  <2> QED BY <2>1, <2>2, <2>3
<1> QED BY <1>2, <1>4, <1>5, <1>6

\* Two sequences in order, one before the other, make one.
LEMMA SortedConcat ==
  ASSUME NEW S, NEW s \in Seq(S), NEW t \in Seq(S), Sorted(s), Sorted(t), Precedes(In(s), In(t))
  PROVE  Sorted(s \o t)
<1>1. Len(s) \in Nat /\ Len(t) \in Nat BY LenProperties
<1>2. /\ Len(s \o t) = Len(s) + Len(t)
      /\ \A i \in 1..Len(s) : (s \o t)[i] = s[i]
      /\ \A i \in 1..Len(t) : (s \o t)[Len(s) + i] = t[i]
  BY ConcatIs
<1> DEFINE u == s \o t
<1> HIDE DEF u
<1> SUFFICES ASSUME NEW i \in 1..Len(u), NEW j \in 1..Len(u), i < j
             PROVE  u[i][1] = 0 \/ u[j][1] = 0 \/ Before(u[i], u[j])
  BY DEF Sorted, u
<1>3. CASE j <= Len(s)
  <2>1. i \in 1..Len(s) /\ j \in 1..Len(s) BY <1>1, <1>2, <1>3 DEF u
  <2>2. u[i] = s[i] /\ u[j] = s[j] BY <1>2, <2>1 DEF u
  <2> QED BY <2>1, <2>2 DEF Sorted
<1>4. CASE i <= Len(s) /\ ~(j <= Len(s))
  <2>1. i \in 1..Len(s) /\ j - Len(s) \in 1..Len(t) /\ Len(s) + (j - Len(s)) = j
    BY <1>1, <1>2, <1>4 DEF u
  <2>2. u[i] = s[i] /\ u[j] = t[j - Len(s)]
    <3>1. u[Len(s) + (j - Len(s))] = t[j - Len(s)] BY <1>2, <2>1 DEF u
    <3> QED BY <1>2, <2>1, <3>1 DEF u
  <2>3. u[i] \in In(s) /\ u[j] \in In(t) BY <2>1, <2>2 DEF In
  <2> QED BY <2>3 DEF Precedes
<1>5. CASE ~(i <= Len(s))
  <2> DEFINE a == i - Len(s)  b == j - Len(s)
  <2>1. a \in 1..Len(t) /\ b \in 1..Len(t) /\ a < b /\ Len(s) + a = i /\ Len(s) + b = j
    BY <1>1, <1>2, <1>5 DEF u
  <2> HIDE DEF a, b
  <2>2. u[Len(s) + a] = t[a] /\ u[Len(s) + b] = t[b] BY <1>2, <2>1 DEF u
  <2>3. u[i] = t[a] /\ u[j] = t[b] BY <2>1, <2>2
  <2> QED BY <2>1, <2>3 DEF Sorted
<1> QED BY <1>1, <1>2, <1>3, <1>4, <1>5 DEF u

-----------------------------------------------------------------------------
(* Events and where they are *)

\* The events of a sequence are of its type.
LEMMA InIs ==
  ASSUME NEW S, NEW s \in Seq(S)
  PROVE  In(s) \subseteq S /\ (s = <<>> => In(s) = {})
<1>1. \A i \in 1..Len(s) : s[i] \in S BY ElementOfSeq
<1>2. s = <<>> => Len(s) = 0 BY EmptySeq
<1> QED BY <1>1, <1>2 DEF In

\* The events in the three places are numbered in their contexts.
LEMMA EventsAre ==
  ASSUME OTypeInv
  PROVE  /\ In(output) \subseteq OEv \cup DEv /\ Dequeued \subseteq OEv /\ In(odpQueue) \subseteq OEv
         /\ Contexts \in Nat /\ next \in Nat /\ turn \in Nat
<1>1. output \in Seq(OEv \cup DEv) /\ odpQueue \in Seq(OEv) BY DEF OTypeInv
<1>2. In(output) \subseteq OEv \cup DEv BY <1>1, InIs
<1>3. In(odpQueue) \subseteq OEv BY <1>1, InIs
<1>4. Dequeued \subseteq OEv
  <2> SUFFICES ASSUME NEW c \in OutCores PROVE In(deqd[c]) \subseteq OEv BY DEF Dequeued
  <2>1. deqd[c] \in Seq(OEv) BY DEF OTypeInv
  <2> QED BY <2>1, InIs
<1>5. Contexts \in Nat BY OutputAssumption
<1> QED BY <1>2, <1>3, <1>4, <1>5 DEF OTypeInv

\* Nothing in the three places, nor what has been let go, changes.
LEMMA OrderSame ==
  ASSUME OInv, UNCHANGED <<output, deqd, odpQueue, direct, turn>>,
         \A k \in 1..Contexts : Gone(k)' = Gone(k)
  PROVE  OrderInv' /\ KeptInv'
<1>1. Dequeued' = Dequeued BY DEF Dequeued
<1>2. ASSUME NEW e \in In(output) \cup Dequeued \cup In(odpQueue) PROVE Passed(e)'
  <2>1. Passed(e) BY DEF OInv, OrderInv
  <2>2. e[1] = 0 \/ e[1] \in 1..Contexts BY EventsAre DEF OInv, OEv, DEv
  <2> QED BY <2>1, <2>2 DEF Passed
<1>3. OrderInv' BY <1>1, <1>2 DEF OInv, OrderInv
<1>4. KeptInv' BY <1>1 DEF OInv, KeptInv
<1> QED BY <1>3, <1>4

\* What ODP lets go of the context whose turn it is comes after everything else.
LEMMA LetGo ==
  ASSUME OInv, NEW q \in 1..Contexts, q = turn,
         NEW w \in Seq(OEv), \A i \in 1..Len(w) : w[i] = <<q, Gone(q) + i>>,
         odpQueue' = odpQueue \o w, UNCHANGED <<output, deqd, direct>>,
         Gone(q)' = Gone(q) + Len(w),
         \A k \in 1..Contexts : k # q => Gone(k)' = Gone(k),
         turn' \in {turn, turn + 1}
  PROVE  OrderInv' /\ KeptInv' /\ odpQueue' \in Seq(OEv)
<1> DEFINE places == In(output) \cup Dequeued \cup In(odpQueue)
<1>1. /\ In(output) \subseteq OEv \cup DEv /\ Dequeued \subseteq OEv /\ In(odpQueue) \subseteq OEv
      /\ Contexts \in Nat /\ next \in Nat /\ turn \in Nat
  BY EventsAre DEF OInv
<1>2. Len(w) \in Nat BY LenProperties
<1>3. q \in 1..Contexts OBVIOUS
<1>4. \A k \in 1..Contexts : Gone(k) \in Nat BY DEF OInv, HeldInv
<1>5. odpQueue \in Seq(OEv) BY DEF OInv, OTypeInv
<1>6. odpQueue' \in Seq(OEv) /\ In(odpQueue') = In(odpQueue) \cup In(w) BY <1>5, ConcatIs
<1>7. \A e \in places : Passed(e) BY DEF OInv, OrderInv
<1>8. ASSUME NEW A \in SUBSET places PROVE Precedes(A, In(w))
  <2> SUFFICES ASSUME NEW d \in A, NEW e \in In(w) PROVE d[1] = 0 \/ Before(d, e)
    BY DEF Precedes
  <2>1. PICK i \in 1..Len(w) : e = <<q, Gone(q) + i>> BY DEF In
  <2>2. e[1] = q /\ e[2] = Gone(q) + i BY <2>1
  <2>3. d[1] = 0 \/ (d[1] <= turn /\ d[2] <= Gone(d[1])) BY <1>7 DEF Passed
  <2>4. d \in OEv \cup DEv BY <1>1
  <2>5. d[1] \in Nat /\ d[2] \in Nat /\ i \in Nat /\ i # 0 BY <1>2, <2>4 DEF OEv, DEv
  <2>6. CASE d[1] < turn BY <2>2, <2>6 DEF Before
  <2>7. CASE d[1] = turn
    <3>1. d[2] <= Gone(q) BY <1>1, <1>3, <2>3, <2>7
    <3>2. d[2] < e[2] BY <1>3, <1>4, <2>2, <2>5, <3>1
    <3> QED BY <2>2, <2>7, <3>2 DEF Before
  <2> QED BY <1>1, <2>3, <2>5, <2>6, <2>7
<1>9. Sorted(w)
  <2> SUFFICES ASSUME NEW i \in 1..Len(w), NEW j \in 1..Len(w), i < j PROVE Before(w[i], w[j])
    BY DEF Sorted
  <2>1. w[i] = <<q, Gone(q) + i>> /\ w[j] = <<q, Gone(q) + j>> OBVIOUS
  <2>2. Gone(q) + i < Gone(q) + j BY <1>2, <1>3, <1>4
  <2> QED BY <2>1, <2>2 DEF Before
<1>10. Precedes(In(odpQueue), In(w)) BY <1>8
<1>11. Sorted(odpQueue') BY <1>5, <1>9, <1>10, SortedConcat DEF OInv, OrderInv
<1>12. Dequeued' = Dequeued BY DEF Dequeued
<1>13. Precedes(In(output), In(odpQueue'))
  <2>1. Precedes(In(output), In(w)) /\ Precedes(In(output), In(odpQueue))
    BY <1>8 DEF OInv, OrderInv
  <2> QED BY <1>6, <2>1 DEF Precedes
<1>14. Precedes(Dequeued, In(odpQueue'))
  <2>1. Precedes(Dequeued, In(w)) /\ Precedes(Dequeued, In(odpQueue))
    BY <1>8 DEF OInv, OrderInv
  <2> QED BY <1>6, <2>1 DEF Precedes
<1>15. \A k \in 1..Contexts : Gone(k)' \in Nat /\ Gone(k) <= Gone(k)'
  <2> SUFFICES ASSUME NEW k \in 1..Contexts PROVE Gone(k)' \in Nat /\ Gone(k) <= Gone(k)' OBVIOUS
  <2>1. CASE k = q BY <1>2, <1>4, <2>1
  <2>2. CASE k # q BY <1>4, <2>2
  <2> QED BY <2>1, <2>2
<1>16. turn' \in Nat /\ turn <= turn' BY <1>1
<1>17. ASSUME NEW e \in places PROVE Passed(e)'
  <2>1. Passed(e) BY <1>7
  <2>2. e \in OEv \cup DEv BY <1>1
  <2>3. CASE e[1] = 0 BY <2>3 DEF Passed
  <2>4. CASE e[1] # 0
    <3>1. e[1] \in 1..Contexts /\ e[2] \in Nat BY <2>2, <2>4 DEF OEv, DEv
    <3>2. e[1] <= turn /\ e[2] <= Gone(e[1]) BY <2>1, <2>4 DEF Passed
    <3>3. e[1] <= turn' BY <1>1, <1>16, <3>1, <3>2
    <3>4. e[2] <= Gone(e[1])' BY <1>4, <1>15, <3>1, <3>2
    <3> QED BY <3>3, <3>4 DEF Passed
  <2> QED BY <2>3, <2>4
<1>18. ASSUME NEW e \in In(w) PROVE Passed(e)'
  <2>1. PICK i \in 1..Len(w) : e = <<q, Gone(q) + i>> BY DEF In
  <2>2. e[1] = q /\ e[2] = Gone(q) + i BY <2>1
  <2>3. e[2] <= Gone(q)' BY <1>2, <1>3, <1>4, <2>2
  <2> QED BY <1>16, <2>2, <2>3 DEF Passed
<1>19. OrderInv'
  <2>1. Sorted(output) /\ (\A c \in OutCores : Sorted(deqd[c])) /\ Precedes(In(output), Dequeued)
        /\ \A e \in In(output) : e[1] = 0 => e \in direct
    BY DEF OInv, OrderInv
  <2>2. \A e \in In(output) \cup Dequeued \cup In(odpQueue') : Passed(e)' BY <1>6, <1>17, <1>18
  <2> QED BY <1>11, <1>12, <1>13, <1>14, <2>1, <2>2 DEF OrderInv
<1>20. KeptInv'
  <2> SUFFICES ASSUME NEW k \in 1..Contexts, NEW n \in 1..Gone(k)'
               PROVE  <<k, n>> \in In(output) \cup Dequeued \cup In(odpQueue')
    BY <1>12 DEF KeptInv
  <2>1. CASE n <= Gone(k)
    <3>1. n \in 1..Gone(k) BY <1>4, <1>15, <2>1
    <3> QED BY <1>6, <3>1 DEF OInv, KeptInv
  <2>2. CASE ~(n <= Gone(k))
    <3>1. k = q BY <1>15, <2>2
    <3>2. n - Gone(k) \in 1..Len(w) /\ Gone(k) + (n - Gone(k)) = n
      BY <1>2, <1>4, <1>15, <2>2, <3>1
    <3>3. w[n - Gone(k)] = <<k, n>> BY <3>1, <3>2
    <3>4. <<k, n>> \in In(w) BY <3>2, <3>3 DEF In
    <3> QED BY <1>6, <3>4
  <2> QED BY <2>1, <2>2
<1> QED BY <1>6, <1>19, <1>20

-----------------------------------------------------------------------------
(* The steps with a context *)

\* Releasing a context: what is kept of it is let go, and it is the next one's
\* turn.
LEMMA ReleasedKeeps ==
  ASSUME OInv, NEW c \in OutCores, ctx[c] # 0, Released(ctx[c]), ctx' = [ctx EXCEPT ![c] = 0],
         UNCHANGED <<next, sent, output, deqd, direct>>
  PROVE  /\ HeldInv' /\ OrderInv' /\ KeptInv'
         /\ turn' \in 1..Contexts + 1 /\ turn' <= next
         /\ held' \in [1..Contexts -> Seq(OEv)] /\ odpQueue' \in Seq(OEv)
         /\ ctx' \in [OutCores -> 0..Contexts]
         /\ \A d \in OutCores : /\ ctx'[d] # 0 => turn' <= ctx'[d] /\ ctx'[d] < next
                                /\ \A e \in OutCores : ctx'[d] # 0 /\ ctx'[d] = ctx'[e] => d = e
         /\ turn <= Contexts
<1>1. /\ ctx[c] = turn /\ turn' = turn + 1 /\ odpQueue' = odpQueue \o held[ctx[c]]
      /\ held' = [held EXCEPT ![ctx[c]] = <<>>]
  BY DEF Released
<1>2. /\ next \in 1..Contexts + 1 /\ turn \in 1..Contexts + 1 /\ Contexts \in Nat
      /\ ctx \in [OutCores -> 0..Contexts] /\ held \in [1..Contexts -> Seq(OEv)]
      /\ sent \in [1..Contexts -> Nat]
  BY OutputAssumption DEF OInv, OTypeInv
<1>3. ctx[c] \in 1..Contexts /\ ctx[c] < next
  <2>1. ctx[c] \in 0..Contexts BY <1>2
  <2>2. ctx[c] < next BY DEF OInv, ContextsInv
  <2> QED BY <1>2, <2>1, <2>2
<1>4. PICK k \in 1..Contexts : k = ctx[c] BY <1>3
<1>5. \A d \in OutCores : /\ ctx[d] # 0 => turn <= ctx[d] /\ ctx[d] < next
                          /\ \A e \in OutCores : ctx[d] # 0 /\ ctx[d] = ctx[e] => d = e
  BY DEF OInv, ContextsInv
<1>6. /\ k = turn /\ k < next /\ odpQueue' = odpQueue \o held[k]
       /\ held' = [held EXCEPT ![k] = <<>>]
  BY <1>3, <1>1, <1>4
<1>7. held' \in [1..Contexts -> Seq(OEv)]
  <2>1. <<>> \in Seq(OEv) BY EmptySeq
  <2> QED BY <1>1, <1>6, <1>2, <2>1
<1>8. held'[k] = <<>> /\ \A j \in 1..Contexts : j # k => held'[j] = held[j] BY <1>1, <1>6, <1>2, <1>4
<1>9. held[k] \in Seq(OEv) BY <1>2, <1>4
<1>10. Len(held[k]) \in Nat BY <1>9, LenProperties
<1>11. Gone(k)' = Gone(k) + Len(held[k])
  <2>1. Len(held'[k]) = 0 BY <1>8, EmptySeq
  <2>2. Gone(k)' = sent[k] - 0 BY <2>1 DEF Gone
  <2>3. sent[k] \in Nat BY <1>2, <1>4
  <2> QED BY <1>10, <2>2, <2>3 DEF Gone
<1>12. \A j \in 1..Contexts : j # k => Gone(j)' = Gone(j) BY <1>8 DEF Gone
<1>13. \A i \in 1..Len(held[k]) : held[k][i] = <<k, Gone(k) + i>> BY <1>4 DEF OInv, HeldInv
<1>14. turn' \in {turn, turn + 1} BY <1>1, <1>6
<1>15. OrderInv' /\ KeptInv' /\ odpQueue' \in Seq(OEv)
  BY <1>1, <1>6, <1>4, <1>9, <1>11, <1>12, <1>13, <1>14, LetGo
<1>16. HeldInv'
  <2> SUFFICES ASSUME NEW j \in 1..Contexts
               PROVE  /\ Gone(j)' \in Nat
                      /\ \A i \in 1..Len(held'[j]) : held'[j][i] = <<j, Gone(j)' + i>>
                      /\ j < turn' => held'[j] = <<>>
                      /\ j > turn' => Gone(j)' = 0
    BY DEF HeldInv
  <2>1. /\ Gone(j) \in Nat
        /\ \A i \in 1..Len(held[j]) : held[j][i] = <<j, Gone(j) + i>>
        /\ j < turn => held[j] = <<>>
        /\ j > turn => Gone(j) = 0
    BY DEF OInv, HeldInv
  <2>2. CASE j = k
    <3>1. Len(held'[j]) = 0 /\ held'[j] = <<>> BY <1>8, <2>2, EmptySeq
    <3>2. Gone(j)' \in Nat BY <1>10, <1>11, <2>1, <2>2
    <3> QED BY <1>1, <1>6, <1>2, <2>2, <3>1, <3>2
  <2>3. CASE j # k
    <3>1. held'[j] = held[j] /\ Gone(j)' = Gone(j) BY <1>8, <1>12, <2>3
    <3> QED BY SMTT(30), <1>1, <1>6, <1>2, <2>1, <2>3, <3>1
  <2> QED BY <2>2, <2>3
<1>17. ctx' \in [OutCores -> 0..Contexts] BY <1>2
<1>18. ctx'[c] = 0 /\ \A d \in OutCores : d # c => ctx'[d] = ctx[d] BY <1>2
<1>19. ASSUME NEW d \in OutCores
       PROVE  /\ ctx'[d] # 0 => turn' <= ctx'[d] /\ ctx'[d] < next
              /\ \A e \in OutCores : ctx'[d] # 0 /\ ctx'[d] = ctx'[e] => d = e
  <2>1. CASE d = c BY <1>18, <2>1
  <2>2. CASE d # c
    <3>1. ctx'[d] = ctx[d] /\ ctx[d] \in 0..Contexts BY <1>2, <1>18, <2>2
    <3>2. ctx[d] # 0 => ctx[d] # turn
      <4>1. ctx[d] # 0 => ctx[d] # ctx[c] BY <1>5, <2>2
      <4> QED BY <1>6, <1>4, <4>1
    <3>3. ctx[d] # 0 => turn + 1 <= ctx[d] /\ ctx[d] < next BY <1>2, <1>5, <3>1, <3>2
    <3>4. \A e \in OutCores : ctx'[d] # 0 /\ ctx'[d] = ctx'[e] => d = e BY <1>5, <1>18, <3>1
    <3> QED BY <1>1, <1>6, <3>1, <3>3, <3>4
  <2> QED BY <2>1, <2>2
<1> QED BY <1>1, <1>6, <1>2, <1>4, <1>7, <1>15, <1>16, <1>17, <1>19

\* Nothing happens to a deleted queue: it keeps its invariant when the step is
\* not one that a core with a context can take.
LEMMA NotDeleted ==
  ASSUME OInv, deleted' = deleted, NEW c \in OutCores, opc[c] # "schedule" \/ turn <= Contexts
  PROVE  DeletedInv' /\ ~deleted
<1>1. turn \in 1..Contexts + 1 /\ Contexts \in Nat BY OutputAssumption DEF OInv, OTypeInv
<1>2. ~deleted BY <1>1 DEF OInv, DeletedInv
<1> QED BY <1>2 DEF DeletedInv

\* The last ordered context that was held back is released.
LEMMA ReleaseLastStep ==
  ASSUME OInv, NEW c \in OutCores, ReleaseLast(c)
  PROVE  OInv'
<1>1. /\ opc[c] = "schedule" /\ ctx[c] # 0 /\ Released(ctx[c]) /\ ctx' = [ctx EXCEPT ![c] = 0]
      /\ UNCHANGED <<next, sent, output, deqd, direct>>
  BY DEF ReleaseLast
<1>2. UNCHANGED <<type, opc, track, outLock, deleted, immediate>> BY DEF ReleaseLast
<1>3. /\ HeldInv' /\ OrderInv' /\ KeptInv'
      /\ turn' \in 1..Contexts + 1 /\ turn' <= next
      /\ held' \in [1..Contexts -> Seq(OEv)] /\ odpQueue' \in Seq(OEv)
      /\ ctx' \in [OutCores -> 0..Contexts]
      /\ \A d \in OutCores : /\ ctx'[d] # 0 => turn' <= ctx'[d] /\ ctx'[d] < next
                             /\ \A e \in OutCores : ctx'[d] # 0 /\ ctx'[d] = ctx'[e] => d = e
      /\ turn <= Contexts
  BY <1>1, ReleasedKeeps
<1>4. OTypeInv' BY <1>1, <1>2, <1>3 DEF OInv, OTypeInv
<1>5. ContextsInv'
  <2>1. \A d \in OutCores : opc'[d] # "schedule" /\ type'[d] => ctx'[d] # 0
    BY <1>1, <1>2 DEF OInv, ContextsInv, OTypeInv
  <2> QED BY <1>1, <1>3, <2>1 DEF ContextsInv
<1>6. DrainInv' BY <1>1, <1>2 DEF OInv, DrainInv
<1>7. DeletedInv' BY <1>2, <1>3, NotDeleted
<1> QED BY <1>3, <1>4, <1>5, <1>6, <1>7 DEF OInv

\* An ordered context ends.
LEMMA OrderedEndStep ==
  ASSUME OInv, NEW c \in OutCores, em_ordered_processing_end(c)
  PROVE  OInv'
<1>1. /\ opc[c] = "receive" /\ type[c] /\ Released(ctx[c]) /\ ctx' = [ctx EXCEPT ![c] = 0]
      /\ type' = [type EXCEPT ![c] = FALSE]
      /\ UNCHANGED <<next, sent, output, deqd, direct>>
  BY DEF em_ordered_processing_end
<1>2. UNCHANGED <<opc, track, outLock, deleted, immediate>> BY DEF em_ordered_processing_end
<1>3. ctx[c] # 0 BY <1>1 DEF OInv, ContextsInv
<1>4. /\ HeldInv' /\ OrderInv' /\ KeptInv'
      /\ turn' \in 1..Contexts + 1 /\ turn' <= next
      /\ held' \in [1..Contexts -> Seq(OEv)] /\ odpQueue' \in Seq(OEv)
      /\ ctx' \in [OutCores -> 0..Contexts]
      /\ \A d \in OutCores : /\ ctx'[d] # 0 => turn' <= ctx'[d] /\ ctx'[d] < next
                             /\ \A e \in OutCores : ctx'[d] # 0 /\ ctx'[d] = ctx'[e] => d = e
      /\ turn <= Contexts
  BY <1>1, <1>3, ReleasedKeeps
<1>5. OTypeInv' BY <1>1, <1>2, <1>4 DEF OInv, OTypeInv
<1>6. ContextsInv'
  <2>1. \A d \in OutCores : opc'[d] # "schedule" /\ type'[d] => ctx'[d] # 0
    BY <1>1, <1>2 DEF OInv, ContextsInv, OTypeInv
  <2> QED BY <1>1, <1>4, <2>1 DEF ContextsInv
<1>7. DrainInv' BY <1>1, <1>2 DEF OInv, DrainInv
<1>8. DeletedInv' BY <1>1, <1>2, NotDeleted
<1> QED BY <1>4, <1>5, <1>6, <1>7, <1>8 DEF OInv

\* The scheduler opens the next ordered context.
LEMMA ScheduleStep ==
  ASSUME OInv, NEW c \in OutCores, Schedule(c)
  PROVE  OInv'
<1>1. /\ opc[c] = "schedule" /\ ctx[c] = 0 /\ next <= Contexts
      /\ ctx' = [ctx EXCEPT ![c] = next] /\ next' = next + 1
      /\ type' = [type EXCEPT ![c] = TRUE] /\ opc' = [opc EXCEPT ![c] = "receive"]
      /\ UNCHANGED <<sent, held, turn, odpQueue, track, outLock, deqd, output, direct, deleted, immediate>>
  BY DEF Schedule
<1>2. /\ next \in 1..Contexts + 1 /\ turn \in 1..Contexts + 1 /\ turn <= next /\ Contexts \in Nat
      /\ ctx \in [OutCores -> 0..Contexts] /\ type \in [OutCores -> BOOLEAN]
      /\ opc \in [OutCores -> Where]
  BY OutputAssumption DEF OInv, OTypeInv
<1>3. OTypeInv'
  <2>1. next' \in 1..Contexts + 1 /\ turn' <= next' BY <1>1, <1>2
  <2>2. ctx' \in [OutCores -> 0..Contexts] BY <1>1, <1>2
  <2>3. type' \in [OutCores -> BOOLEAN] /\ opc' \in [OutCores -> Where] BY <1>1, <1>2 DEF Where
  <2> QED BY <1>1, <2>1, <2>2, <2>3 DEF OInv, OTypeInv
<1>4. ContextsInv'
  <2>1. ctx'[c] = next /\ \A d \in OutCores : d # c => ctx'[d] = ctx[d] BY <1>1, <1>2
  <2>2. \A d \in OutCores : ctx[d] # 0 => turn <= ctx[d] /\ ctx[d] < next
    BY DEF OInv, ContextsInv
  <2>3. \A d \in OutCores : d # c => opc'[d] = opc[d] /\ type'[d] = type[d] BY <1>1, <1>2
  <2>4. \A d \in OutCores : ctx[d] \in 0..Contexts BY <1>2
  <2>5. ASSUME NEW d \in OutCores PROVE ctx'[d] # 0 => turn' <= ctx'[d] /\ ctx'[d] < next'
    BY <1>1, <1>2, <2>1, <2>2, <2>4
  <2>6. ASSUME NEW d \in OutCores PROVE opc'[d] # "schedule" /\ type'[d] => ctx'[d] # 0
    BY <1>2, <2>1, <2>3 DEF OInv, ContextsInv
  <2>7. ASSUME NEW d \in OutCores, NEW e \in OutCores, ctx'[d] # 0, ctx'[d] = ctx'[e] PROVE d = e
    <3>1. CASE d # c /\ e # c BY <2>1, <2>7, <3>1 DEF OInv, ContextsInv
    <3>2. CASE d = c /\ e # c
      <4>1. ctx[e] = next BY <2>1, <2>7, <3>2
      <4> QED BY <1>2, <2>2, <4>1
    <3>3. CASE d # c /\ e = c
      <4>1. ctx[d] = next BY <2>1, <2>7, <3>3
      <4> QED BY <1>2, <2>2, <4>1
    <3> QED BY <3>1, <3>2, <3>3
  <2> QED BY <2>5, <2>6, <2>7 DEF ContextsInv
<1>5. DrainInv'
  <2> SUFFICES ASSUME NEW d \in OutCores
               PROVE  /\ opc'[d] \in {"drain", "unlock"} <=> outLock = d
                      /\ deqd[d] # <<>> => opc'[d] = "drain"
    BY <1>1 DEF DrainInv
  <2>1. /\ opc[d] \in {"drain", "unlock"} <=> outLock = d
        /\ deqd[d] # <<>> => opc[d] = "drain"
    BY DEF OInv, DrainInv
  <2>2. opc'[d] = IF d = c THEN "receive" ELSE opc[d] BY <1>1, <1>2
  <2> QED BY <1>1, <2>1, <2>2
<1>6. \A k \in 1..Contexts : Gone(k)' = Gone(k) BY <1>1 DEF Gone
<1>7. OrderInv' /\ KeptInv' BY <1>1, <1>6, OrderSame
<1>8. HeldInv' BY <1>1, <1>6 DEF OInv, HeldInv
<1>9. DeletedInv' BY <1>1, <1>2, NotDeleted
<1> QED BY <1>3, <1>4, <1>5, <1>7, <1>8, <1>9 DEF OInv

\* An event sent in an ordered context is kept until it is the context's turn.
LEMMA SendOutputStep ==
  ASSUME OInv, NEW c \in OutCores, send_output(c)
  PROVE  OInv'
<1>1. /\ opc[c] = "receive" /\ type[c] /\ ~deleted /\ sent[ctx[c]] < MaxOut
      /\ sent' = [sent EXCEPT ![ctx[c]] = sent[ctx[c]] + 1]
      /\ Enqueue(ctx[c], <<ctx[c], sent'[ctx[c]]>>)
      /\ track' = [track EXCEPT ![c] = ~immediate]
      /\ opc' = [opc EXCEPT ![c] = IF immediate THEN "trylock" ELSE opc[c]]
      /\ UNCHANGED <<next, ctx, type, turn, outLock, deqd, output, direct, deleted, immediate>>
  BY DEF send_output
<1>2. /\ next \in 1..Contexts + 1 /\ turn \in 1..Contexts + 1 /\ Contexts \in Nat
      /\ ctx \in [OutCores -> 0..Contexts] /\ held \in [1..Contexts -> Seq(OEv)]
      /\ sent \in [1..Contexts -> Nat] /\ opc \in [OutCores -> Where] /\ odpQueue \in Seq(OEv)
      /\ track \in [OutCores -> BOOLEAN] /\ immediate \in BOOLEAN
  BY OutputAssumption DEF OInv, OTypeInv
<1>3. ctx[c] \in 1..Contexts /\ turn <= ctx[c]
  <2>1. ctx[c] \in 0..Contexts BY <1>2
  <2>2. ctx[c] # 0 /\ turn <= ctx[c] BY <1>1 DEF OInv, ContextsInv
  <2> QED BY <1>2, <2>1, <2>2
<1>4. PICK k \in 1..Contexts : k = ctx[c] BY <1>3
<1>5. PICK all : all = Append(held[k], <<k, sent[k] + 1>>) OBVIOUS
<1>6. sent[k] \in Nat /\ sent' = [sent EXCEPT ![k] = sent[k] + 1] /\ sent'[k] = sent[k] + 1
  BY <1>1, <1>2, <1>4
<1>7. held[k] \in Seq(OEv) /\ Len(held[k]) \in Nat
  <2>1. held[k] \in Seq(OEv) BY <1>2
  <2> QED BY <2>1, LenProperties
<1>8. /\ all \in Seq(OEv) /\ Len(all) = Len(held[k]) + 1
      /\ \A i \in 1..Len(all) : all[i] = <<k, Gone(k) + i>>
  <2>1. <<k, sent[k] + 1>> \in OEv BY <1>6 DEF OEv
  <2>2. /\ all \in Seq(OEv) /\ Len(all) = Len(held[k]) + 1
        /\ \A i \in 1..Len(held[k]) : all[i] = held[k][i]
        /\ all[Len(held[k]) + 1] = <<k, sent[k] + 1>>
    BY <1>5, <1>7, <2>1, AppendProperties
  <2>3. \A i \in 1..Len(held[k]) : held[k][i] = <<k, Gone(k) + i>> BY DEF OInv, HeldInv
  <2>4. Gone(k) + (Len(held[k]) + 1) = sent[k] + 1 BY <1>6, <1>7 DEF Gone
  <2>5. ASSUME NEW i \in 1..Len(all) PROVE all[i] = <<k, Gone(k) + i>>
    <3>1. CASE i \in 1..Len(held[k]) BY <2>2, <2>3, <3>1
    <3>2. CASE i = Len(held[k]) + 1 BY <2>2, <2>4, <3>2
    <3> QED BY <1>7, <2>2, <3>1, <3>2
  <2> QED BY <2>2, <2>5
<1>9. Enqueue(k, <<k, sent[k] + 1>>) BY <1>1, <1>4, <1>6
<1>10. /\ \A i \in 1..Len(held[k]) : held[k][i] = <<k, Gone(k) + i>>
       /\ Gone(k) \in Nat
       /\ k > turn => Gone(k) = 0
  BY DEF OInv, HeldInv
<1>11. /\ held' \in [1..Contexts -> Seq(OEv)] /\ odpQueue' \in Seq(OEv)
       /\ \A j \in 1..Contexts : j # k => held'[j] = held[j] /\ Gone(j)' = Gone(j)
       /\ OrderInv' /\ KeptInv'
       /\ Gone(k)' \in Nat /\ \A i \in 1..Len(held'[k]) : held'[k][i] = <<k, Gone(k)' + i>>
       /\ k > turn => Gone(k)' = 0
  <2>1. CASE k = turn
    <3>1. odpQueue' = odpQueue \o all /\ held' = [held EXCEPT ![k] = <<>>]
      BY <1>5, <1>9, <2>1 DEF Enqueue
    <3>2. held'[k] = <<>> /\ \A j \in 1..Contexts : j # k => held'[j] = held[j] BY <1>2, <3>1
    <3>3. \A j \in 1..Contexts : j # k => Gone(j)' = Gone(j) BY <1>2, <1>6, <3>2 DEF Gone
    <3>4. Len(held'[k]) = 0 BY <3>2, EmptySeq
    <3>5. Gone(k)' = Gone(k) + Len(all) BY <1>6, <1>7, <1>8, <3>4 DEF Gone
    <3>6. OrderInv' /\ KeptInv' /\ odpQueue' \in Seq(OEv)
      BY <1>1, <1>8, <2>1, <3>1, <3>3, <3>5, LetGo
    <3>7. held' \in [1..Contexts -> Seq(OEv)]
      <4>1. <<>> \in Seq(OEv) BY EmptySeq
      <4> QED BY <1>2, <3>1, <4>1
    <3>8. Gone(k)' \in Nat BY <1>7, <1>8, <1>10, <3>5
    <3>9. ~(k > turn) BY <1>2, <2>1
    <3> QED BY <3>2, <3>3, <3>4, <3>6, <3>7, <3>8, <3>9
  <2>2. CASE k # turn
    <3>1. odpQueue' = odpQueue /\ held' = [held EXCEPT ![k] = all]
      BY <1>5, <1>9, <2>2 DEF Enqueue
    <3>2. held'[k] = all /\ \A j \in 1..Contexts : j # k => held'[j] = held[j] BY <1>2, <3>1
    <3>3. \A j \in 1..Contexts : j # k => Gone(j)' = Gone(j) BY <1>2, <1>6, <3>2 DEF Gone
    <3>4. Gone(k)' = Gone(k)
      <4>1. Len(held'[k]) = Len(held[k]) + 1 BY <1>8, <3>2
      <4>2. Gone(k)' = sent'[k] - Len(held'[k]) /\ Gone(k) = sent[k] - Len(held[k]) BY DEF Gone
      <4> QED BY SMTT(30), <1>6, <1>7, <4>1, <4>2
    <3>5. \A j \in 1..Contexts : Gone(j)' = Gone(j) BY <3>3, <3>4
    <3>6. OrderInv' /\ KeptInv' BY <1>1, <3>1, <3>5, OrderSame
    <3>7. held' \in [1..Contexts -> Seq(OEv)] BY <1>2, <1>8, <3>1
    <3> QED BY <1>2, <1>8, <1>10, <3>1, <3>2, <3>3, <3>4, <3>6, <3>7
  <2> QED BY <2>1, <2>2
<1>12. HeldInv'
  <2>1. ASSUME NEW j \in 1..Contexts, j # k
        PROVE  /\ Gone(j)' \in Nat
               /\ \A i \in 1..Len(held'[j]) : held'[j][i] = <<j, Gone(j)' + i>>
               /\ j < turn' => held'[j] = <<>>
               /\ j > turn' => Gone(j)' = 0
    BY <1>1, <1>11, <2>1 DEF OInv, HeldInv
  <2>2. ~(k < turn) BY <1>2, <1>3, <1>4
  <2> QED BY <1>1, <1>11, <2>1, <2>2 DEF HeldInv
<1>13. opc' \in [OutCores -> Where] /\ opc'[c] \in {"receive", "trylock"}
       /\ \A d \in OutCores : d # c => opc'[d] = opc[d]
  BY <1>1, <1>2 DEF Where
<1>14. OTypeInv'
  <2>1. sent' \in [1..Contexts -> Nat] BY <1>2, <1>6
  <2>2. track' \in [OutCores -> BOOLEAN] BY <1>1, <1>2
  <2> QED BY <1>1, <1>11, <1>13, <2>1, <2>2 DEF OInv, OTypeInv
<1>15. ContextsInv'
  <2>1. \A d \in OutCores : opc'[d] # "schedule" => opc[d] # "schedule" BY <1>1, <1>13
  <2> QED BY <1>1, <2>1 DEF OInv, ContextsInv
<1>16. DrainInv'
  <2>1. \A d \in OutCores : opc'[d] \in {"drain", "unlock"} <=> opc[d] \in {"drain", "unlock"}
    BY <1>1, <1>13
  <2>2. \A d \in OutCores : opc[d] = "drain" => opc'[d] = "drain" BY <1>1, <1>13
  <2> QED BY <1>1, <2>1, <2>2 DEF OInv, DrainInv
<1>17. DeletedInv' BY <1>1, NotDeleted
<1> QED BY <1>11, <1>12, <1>14, <1>15, <1>16, <1>17 DEF OInv

-----------------------------------------------------------------------------
(* The steps of the output function and of the drain *)

\* Events that are given to the output function leave where they were.
LEMMA GivenToOutput ==
  ASSUME OInv, NEW w \in Seq(OEv \cup DEv), output' = output \o w, direct \subseteq direct', Sorted(w),
         Precedes(In(output), In(w)), Precedes(In(w), Dequeued'), Precedes(In(w), In(odpQueue')),
         Dequeued' \subseteq Dequeued, In(odpQueue') \subseteq In(odpQueue),
         Dequeued \cup In(odpQueue) \subseteq Dequeued' \cup In(odpQueue') \cup In(w),
         Sorted(odpQueue'), \A c \in OutCores : Sorted(deqd'[c]),
         \A e \in In(w) : Passed(e) /\ (e[1] = 0 => e \in direct'),
         UNCHANGED <<sent, held, turn>>
  PROVE  OrderInv' /\ KeptInv' /\ output' \in Seq(OEv \cup DEv)
<1>1. output \in Seq(OEv \cup DEv) BY DEF OInv, OTypeInv
<1>2. output' \in Seq(OEv \cup DEv) /\ In(output') = In(output) \cup In(w) BY <1>1, ConcatIs
<1>3. Sorted(output') BY <1>1, SortedConcat DEF OInv, OrderInv
<1>4. \A e : Passed(e)' <=> Passed(e) BY DEF Passed, Gone
<1>5. \A k \in 1..Contexts : Gone(k)' = Gone(k) BY DEF Gone
<1>6. Precedes(In(output'), Dequeued') BY <1>2 DEF OInv, OrderInv, Precedes
<1>7. Precedes(In(output'), In(odpQueue')) BY <1>2 DEF OInv, OrderInv, Precedes
<1>8. Precedes(Dequeued', In(odpQueue')) BY DEF OInv, OrderInv, Precedes
<1>9. \A e \in In(output') \cup Dequeued' \cup In(odpQueue') : Passed(e)'
  BY <1>2, <1>4 DEF OInv, OrderInv
<1>10. \A e \in In(output') : e[1] = 0 => e \in direct' BY <1>2 DEF OInv, OrderInv
<1>11. OrderInv' BY <1>3, <1>6, <1>7, <1>8, <1>9, <1>10 DEF OrderInv
<1>12. KeptInv' BY <1>2, <1>5 DEF OInv, KeptInv
<1> QED BY <1>2, <1>11, <1>12

\* Only the core that drains has dequeued anything.
LEMMA DequeuedIs ==
  ASSUME OInv
  PROVE  /\ \A c \in OutCores : opc[c] = "drain" => Dequeued = In(deqd[c])
         /\ (\A c \in OutCores : opc[c] # "drain") => Dequeued = {}
<1>1. ASSUME NEW d \in OutCores, opc[d] # "drain" PROVE In(deqd[d]) = {}
  <2>1. deqd[d] = <<>> BY <1>1 DEF OInv, DrainInv
  <2>2. deqd[d] \in Seq(OEv) BY DEF OInv, OTypeInv
  <2> QED BY <2>1, <2>2, InIs
<1>2. ASSUME NEW c \in OutCores, opc[c] = "drain" PROVE Dequeued = In(deqd[c])
  <2>1. \A d \in OutCores : d # c => opc[d] # "drain" BY <1>2 DEF OInv, DrainInv
  <2>2. \A d \in OutCores : d # c => In(deqd[d]) = {} BY <1>1, <2>1
  <2> QED BY <2>2 DEF Dequeued
<1>3. ASSUME \A c \in OutCores : opc[c] # "drain" PROVE Dequeued = {} BY <1>1, <1>3 DEF Dequeued
<1> QED BY <1>2, <1>3

\* An event is sent without an ordered context.
LEMMA DirectStep ==
  ASSUME OInv, NEW c \in OutCores, send_output_direct(c)
  PROVE  OInv'
<1>1. PICK e : e = <<0, Len(output) + 1>> OBVIOUS
<1>2. /\ opc[c] = "receive" /\ output' = Append(output, e) /\ direct' = direct \cup {e}
      /\ UNCHANGED <<next, ctx, type, opc, sent, held, turn, odpQueue, track, outLock, deqd, deleted,
                     immediate>>
  BY <1>1 DEF send_output_direct
<1>3. output \in Seq(OEv \cup DEv) /\ Len(output) \in Nat
  <2>1. output \in Seq(OEv \cup DEv) BY DEF OInv, OTypeInv
  <2> QED BY <2>1, LenProperties
<1>4. e \in DEv /\ e[1] = 0 BY <1>1, <1>3 DEF DEv
<1>5. /\ <<e>> \in Seq(OEv \cup DEv) /\ output' = output \o <<e>> /\ In(<<e>>) = {e}
      /\ Len(<<e>>) = 1 /\ <<e>>[1] = e
  <2>1. <<e>> \in Seq(OEv \cup DEv) BY <1>4
  <2>2. output \o <<e>> = Append(output, e) BY <1>3, <1>4, AppendIsConcat
  <2>3. Len(<<e>>) = 1 /\ <<e>>[1] = e OBVIOUS
  <2>4. In(<<e>>) = {e} BY <2>3 DEF In
  <2> QED BY <1>2, <2>1, <2>2, <2>3, <2>4
<1>6. Dequeued' = Dequeued BY <1>2 DEF Dequeued
<1>7. Sorted(<<e>>) BY <1>5 DEF Sorted
<1>8. /\ Precedes(In(output), {e}) /\ Precedes({e}, Dequeued) /\ Precedes({e}, In(odpQueue))
      /\ Passed(e)
  BY <1>4 DEF Precedes, Passed
<1>9. /\ Sorted(odpQueue) /\ \A d \in OutCores : Sorted(deqd[d])
  BY DEF OInv, OrderInv
<1>10. OrderInv' /\ KeptInv' /\ output' \in Seq(OEv \cup DEv)
  <2>1. \A x \in In(<<e>>) : Passed(x) /\ (x[1] = 0 => x \in direct') BY <1>2, <1>5, <1>8
  <2>2. /\ Precedes(In(output), In(<<e>>)) /\ Precedes(In(<<e>>), Dequeued')
        /\ Precedes(In(<<e>>), In(odpQueue'))
    BY <1>2, <1>5, <1>6, <1>8
  <2>3. Sorted(odpQueue') /\ \A d \in OutCores : Sorted(deqd'[d]) BY <1>2, <1>9
  <2>4. /\ Dequeued' \subseteq Dequeued /\ In(odpQueue') \subseteq In(odpQueue)
        /\ Dequeued \cup In(odpQueue) \subseteq Dequeued' \cup In(odpQueue') \cup In(<<e>>)
        /\ direct \subseteq direct'
    BY <1>2, <1>6
  <2> HIDE DEF OInv
  <2> QED BY <1>2, <1>5, <1>7, <2>1, <2>2, <2>3, <2>4, GivenToOutput
<1>11. OTypeInv' BY <1>2, <1>4, <1>10 DEF OInv, OTypeInv
<1>12. ContextsInv' /\ DrainInv' /\ HeldInv'
  BY <1>2 DEF OInv, ContextsInv, DrainInv, HeldInv, Gone
<1>13. DeletedInv' BY <1>2, NotDeleted
<1> QED BY <1>10, <1>11, <1>12, <1>13 DEF OInv

\* The core that drains takes the first events of the ODP queue.
LEMMA DequeueStep ==
  ASSUME OInv, NEW c \in OutCores, Dequeue(c)
  PROVE  OInv'
<1>1. PICK n : n = IF Len(odpQueue) < DeqMax THEN Len(odpQueue) ELSE DeqMax OBVIOUS
<1>2. /\ opc[c] = "drain" /\ deqd[c] = <<>> /\ odpQueue # <<>>
      /\ deqd' = [deqd EXCEPT ![c] = SubSeq(odpQueue, 1, n)]
      /\ odpQueue' = SubSeq(odpQueue, n + 1, Len(odpQueue))
      /\ UNCHANGED <<next, ctx, type, opc, sent, held, turn, track, outLock, output, direct, deleted, immediate>>
  BY <1>1 DEF Dequeue
<1>3. odpQueue \in Seq(OEv) /\ deqd \in [OutCores -> Seq(OEv)] BY DEF OInv, OTypeInv
<1>4. Len(odpQueue) \in Nat /\ DeqMax \in Nat BY <1>3, LenProperties, OutputAssumption
<1>5. n \in 0..Len(odpQueue) BY <1>1, <1>4
<1> DEFINE a == SubSeq(odpQueue, 1, n)  b == SubSeq(odpQueue, n + 1, Len(odpQueue))
<1>6. a \in Seq(OEv) /\ Len(a) = n /\ \A i \in 1..n : a[i] = odpQueue[i]
  <2>1. 1 \in 1..Len(odpQueue) + 1 /\ n \in (1 - 1)..Len(odpQueue) BY <1>4, <1>5
  <2>2. a \in Seq(OEv) /\ Len(a) = (IF n >= 1 THEN n - 1 + 1 ELSE 0)
        /\ \A i \in 1..n - 1 + 1 : a[i] = odpQueue[1 + i - 1]
    BY <1>3, <2>1, SubSeqProperties
  <2> QED BY <1>4, <1>5, <2>2
<1>7. b \in Seq(OEv) /\ Len(b) = Len(odpQueue) - n /\ \A i \in 1..Len(odpQueue) - n : b[i] = odpQueue[n + i]
  <2>1. n + 1 \in 1..Len(odpQueue) + 1 /\ Len(odpQueue) \in (n + 1 - 1)..Len(odpQueue) BY <1>4, <1>5
  <2>2. b \in Seq(OEv)
        /\ Len(b) = (IF n + 1 <= Len(odpQueue) THEN Len(odpQueue) - (n + 1) + 1 ELSE 0)
        /\ \A i \in 1..Len(odpQueue) - (n + 1) + 1 : b[i] = odpQueue[n + 1 + i - 1]
    BY <1>3, <2>1, SubSeqProperties
  <2>3. Len(b) = Len(odpQueue) - n BY <1>4, <1>5, <2>2
  <2>4. ASSUME NEW i \in 1..Len(odpQueue) - n PROVE b[i] = odpQueue[n + i]
    <3>1. i \in 1..Len(odpQueue) - (n + 1) + 1 /\ n + 1 + i - 1 = n + i BY <1>4, <1>5
    <3> QED BY <2>2, <3>1
  <2> QED BY <2>2, <2>3, <2>4
<1> HIDE DEF a, b
<1>8. deqd'[c] = a /\ odpQueue' = b /\ \A d \in OutCores : d # c => deqd'[d] = deqd[d]
  BY <1>2, <1>3 DEF a, b
<1>9. deqd' \in [OutCores -> Seq(OEv)] /\ odpQueue' \in Seq(OEv) BY <1>2, <1>3, <1>6, <1>7 DEF a, b
<1>10. Dequeued = {}
  <2>1. Dequeued = In(deqd[c]) BY <1>2, DequeuedIs
  <2> QED BY <1>2, <1>3, <2>1, InIs
<1>11. Dequeued' = In(a)
  <2>1. \A d \in OutCores : d # c => In(deqd'[d]) = {}
    <3> SUFFICES ASSUME NEW d \in OutCores, d # c PROVE In(deqd'[d]) = {} OBVIOUS
    <3>1. In(deqd[d]) \subseteq Dequeued BY DEF Dequeued
    <3> QED BY <1>8, <1>10, <3>1
  <2>2. Dequeued' = UNION {In(deqd'[d]) : d \in OutCores} BY DEF Dequeued, In
  <2> QED BY <1>8, <2>1, <2>2
<1>12. In(odpQueue) = In(a) \cup In(b)
  <2>1. ASSUME NEW x \in In(odpQueue) PROVE x \in In(a) \cup In(b)
    <3>1. PICK i \in 1..Len(odpQueue) : x = odpQueue[i] BY <2>1 DEF In
    <3>2. CASE i <= n BY <1>4, <1>5, <1>6, <3>1, <3>2 DEF In
    <3>3. CASE ~(i <= n)
      <4>1. i - n \in 1..Len(odpQueue) - n /\ n + (i - n) = i BY <1>4, <1>5, <3>3
      <4>2. x = b[i - n] BY <1>7, <3>1, <4>1
      <4> QED BY <1>7, <4>1, <4>2 DEF In
    <3> QED BY <3>2, <3>3
  <2>2. ASSUME NEW x \in In(a) PROVE x \in In(odpQueue)
    <3>1. PICK i \in 1..n : x = odpQueue[i] BY <1>6, <2>2 DEF In
    <3>2. i \in 1..Len(odpQueue) BY <1>4, <1>5
    <3> QED BY <3>1, <3>2 DEF In
  <2>3. ASSUME NEW x \in In(b) PROVE x \in In(odpQueue)
    <3>1. PICK i \in 1..Len(odpQueue) - n : x = odpQueue[n + i] BY <1>7, <2>3 DEF In
    <3>2. n + i \in 1..Len(odpQueue) BY <1>4, <1>5
    <3> QED BY <3>1, <3>2 DEF In
  <2> QED BY <2>1, <2>2, <2>3
<1>13. Sorted(odpQueue) BY DEF OInv, OrderInv
<1>14. Sorted(a)
  <2>1. \A i \in 1..Len(a) : i \in 1..Len(odpQueue) /\ a[i] = odpQueue[i] BY <1>4, <1>5, <1>6
  <2> QED BY <1>13, <2>1 DEF Sorted
<1>15. Sorted(b)
  <2>1. \A i \in 1..Len(b) : n + i \in 1..Len(odpQueue) /\ b[i] = odpQueue[n + i]
    BY <1>4, <1>5, <1>7
  <2>2. \A i, j \in 1..Len(b) : i < j => n + i < n + j BY <1>4, <1>5, <1>7
  <2> QED BY <1>13, <2>1, <2>2 DEF Sorted
<1>16. Precedes(In(a), In(b))
  <2> SUFFICES ASSUME NEW d \in In(a), NEW e \in In(b) PROVE d[1] = 0 \/ e[1] = 0 \/ Before(d, e)
    BY DEF Precedes
  <2>1. PICK i \in 1..n : d = odpQueue[i] BY <1>6 DEF In
  <2>2. PICK j \in 1..Len(odpQueue) - n : e = odpQueue[n + j] BY <1>7 DEF In
  <2>3. i \in 1..Len(odpQueue) /\ n + j \in 1..Len(odpQueue) /\ i < n + j BY <1>4, <1>5
  <2> QED BY <1>13, <2>1, <2>2, <2>3 DEF Sorted
<1>17. OrderInv'
  <2>1. /\ Sorted(output) /\ Precedes(In(output), In(odpQueue))
        /\ \A e \in In(output) \cup In(odpQueue) : Passed(e)
        /\ \A e \in In(output) : e[1] = 0 => e \in direct
        /\ \A d \in OutCores : Sorted(deqd[d])
    BY DEF OInv, OrderInv
  <2>2. \A d \in OutCores : Sorted(deqd'[d]) BY <1>8, <1>14, <2>1
  <2>3. Precedes(In(output), In(a)) /\ Precedes(In(output), In(b)) BY <1>12, <2>1 DEF Precedes
  <2>4. \A e : Passed(e)' <=> Passed(e) BY <1>2 DEF Passed, Gone
  <2>5. \A e \in In(output) \cup In(a) \cup In(b) : Passed(e)' BY <1>12, <2>1, <2>4
  <2> QED BY <1>2, <1>8, <1>11, <1>15, <1>16, <2>1, <2>2, <2>3, <2>5 DEF OrderInv
<1>18. KeptInv'
  <2>1. \A k \in 1..Contexts : Gone(k)' = Gone(k) BY <1>2 DEF Gone
  <2> QED BY <1>2, <1>8, <1>10, <1>11, <1>12, <2>1 DEF OInv, KeptInv
<1>19. OTypeInv' BY <1>2, <1>9 DEF OInv, OTypeInv
<1>20. ContextsInv' /\ HeldInv' BY <1>2 DEF OInv, ContextsInv, HeldInv, Gone
<1>21. DrainInv' BY <1>2, <1>8 DEF OInv, DrainInv
<1>22. DeletedInv' BY <1>2, NotDeleted
<1> QED BY <1>17, <1>18, <1>19, <1>20, <1>21, <1>22 DEF OInv

\* What was dequeued is given to the output function.
LEMMA CallOutputStep ==
  ASSUME OInv, NEW c \in OutCores, CallOutput(c)
  PROVE  OInv'
<1>1. /\ opc[c] = "drain" /\ output' = output \o deqd[c] /\ deqd' = [deqd EXCEPT ![c] = <<>>]
      /\ UNCHANGED <<next, ctx, type, opc, sent, held, turn, odpQueue, track, outLock, direct, deleted, immediate>>
  BY DEF CallOutput
<1>2. odpQueue \in Seq(OEv) /\ deqd \in [OutCores -> Seq(OEv)] BY DEF OInv, OTypeInv
<1>3. PICK w : w = deqd[c] OBVIOUS
<1>4. w \in Seq(OEv) /\ w \in Seq(OEv \cup DEv)
  <2>1. w \in Seq(OEv) BY <1>2, <1>3
  <2>2. OEv \subseteq OEv \cup DEv OBVIOUS
  <2>3. \A i \in 1..Len(w) : w[i] \in OEv \cup DEv BY <2>1, <2>2, ElementOfSeq
  <2>4. Len(w) \in Nat /\ w \in [1..Len(w) -> OEv] BY <2>1, LenProperties
  <2>5. w \in [1..Len(w) -> OEv \cup DEv] BY <2>3, <2>4
  <2> QED BY <2>1, <2>4, <2>5, SeqDef
<1>5. Dequeued = In(w) BY <1>1, <1>3, DequeuedIs
<1>6. deqd'[c] = <<>> /\ \A d \in OutCores : d # c => deqd'[d] = deqd[d] BY <1>1, <1>2
<1>7. deqd' \in [OutCores -> Seq(OEv)]
  <2>1. <<>> \in Seq(OEv) BY EmptySeq
  <2> QED BY <1>1, <1>2, <2>1
<1>8. In(<<>>) = {} /\ Sorted(<<>>) BY EmptySeq DEF In, Sorted
<1>9. Dequeued' = {}
  <2>1. \A d \in OutCores : d # c => In(deqd'[d]) = {}
    <3> SUFFICES ASSUME NEW d \in OutCores, d # c PROVE In(deqd'[d]) = {} OBVIOUS
    <3>1. opc[d] # "drain" BY <1>1 DEF OInv, DrainInv
    <3>2. deqd[d] = <<>> BY <3>1 DEF OInv, DrainInv
    <3> QED BY <1>6, <1>8, <3>2
  <2>2. Dequeued' = UNION {In(deqd'[d]) : d \in OutCores} BY DEF Dequeued, In
  <2> QED BY <1>6, <1>8, <2>1, <2>2
<1>10. /\ Sorted(odpQueue) /\ (\A d \in OutCores : Sorted(deqd[d]))
       /\ Precedes(In(output), Dequeued) /\ Precedes(Dequeued, In(odpQueue))
       /\ \A e \in Dequeued : Passed(e)
  BY DEF OInv, OrderInv
<1>11. OrderInv' /\ KeptInv' /\ output' \in Seq(OEv \cup DEv)
  <2>1. \A x \in In(w) : Passed(x) /\ (x[1] = 0 => x \in direct')
    <3>1. \A x \in In(w) : x[1] # 0
      <4>1. In(w) \subseteq OEv BY <1>4, InIs
      <4> QED BY <4>1 DEF OEv
    <3> QED BY <1>5, <1>10, <3>1
  <2>2. /\ Precedes(In(output), In(w)) /\ Precedes(In(w), Dequeued')
        /\ Precedes(In(w), In(odpQueue'))
    BY <1>1, <1>5, <1>9, <1>10 DEF Precedes
  <2>3. Sorted(w) BY <1>3, <1>10
  <2>4. Sorted(odpQueue') /\ \A d \in OutCores : Sorted(deqd'[d]) BY <1>1, <1>6, <1>8, <1>10
  <2>5. /\ Dequeued' \subseteq Dequeued /\ In(odpQueue') \subseteq In(odpQueue)
        /\ Dequeued \cup In(odpQueue) \subseteq Dequeued' \cup In(odpQueue') \cup In(w)
        /\ direct \subseteq direct'
    BY <1>1, <1>5, <1>9
  <2>6. output' = output \o w BY <1>1, <1>3
  <2> HIDE DEF OInv
  <2> QED BY <1>1, <1>4, <2>1, <2>2, <2>3, <2>4, <2>5, <2>6, GivenToOutput
<1>12. OTypeInv' BY <1>1, <1>7, <1>11 DEF OInv, OTypeInv
<1>13. ContextsInv' /\ HeldInv' BY <1>1 DEF OInv, ContextsInv, HeldInv, Gone
<1>14. DrainInv' BY <1>1, <1>6 DEF OInv, DrainInv
<1>15. DeletedInv' BY <1>1, NotDeleted
<1> QED BY <1>11, <1>12, <1>13, <1>14, <1>15 DEF OInv

\* The queue is deleted and drains.
LEMMA DeleteStep ==
  ASSUME OInv, queue_delete
  PROVE  OInv'
<1>1. /\ AllDone /\ output' = output \o odpQueue /\ odpQueue' = <<>> /\ deleted' = TRUE
      /\ UNCHANGED <<next, ctx, type, opc, sent, held, turn, track, outLock, deqd, direct, immediate>>
  BY DEF queue_delete
<1>2. odpQueue \in Seq(OEv) BY DEF OInv, OTypeInv
<1>3. PICK w : w = odpQueue OBVIOUS
<1>4. w \in Seq(OEv) /\ w \in Seq(OEv \cup DEv)
  <2>1. w \in Seq(OEv) BY <1>2, <1>3
  <2>2. OEv \subseteq OEv \cup DEv OBVIOUS
  <2>3. \A i \in 1..Len(w) : w[i] \in OEv \cup DEv BY <2>1, <2>2, ElementOfSeq
  <2>4. Len(w) \in Nat /\ w \in [1..Len(w) -> OEv] BY <2>1, LenProperties
  <2>5. w \in [1..Len(w) -> OEv \cup DEv] BY <2>3, <2>4
  <2> QED BY <2>1, <2>4, <2>5, SeqDef
<1>5. In(<<>>) = {} /\ Sorted(<<>>) /\ <<>> \in Seq(OEv) BY EmptySeq DEF In, Sorted
<1>6. Dequeued = {} /\ Dequeued' = {}
  <2>1. \A d \in OutCores : opc[d] # "drain" BY <1>1 DEF AllDone
  <2>2. Dequeued = {} BY <2>1, DequeuedIs
  <2>3. Dequeued' = Dequeued BY <1>1 DEF Dequeued
  <2> QED BY <2>2, <2>3
<1>7. /\ (\A d \in OutCores : Sorted(deqd[d])) /\ Sorted(odpQueue)
      /\ Precedes(In(output), In(odpQueue)) /\ \A e \in In(odpQueue) : Passed(e)
  BY DEF OInv, OrderInv
<1>8. OrderInv' /\ KeptInv' /\ output' \in Seq(OEv \cup DEv)
  <2>1. \A x \in In(w) : Passed(x) /\ (x[1] = 0 => x \in direct')
    <3>1. \A x \in In(w) : x[1] # 0
      <4>1. In(w) \subseteq OEv BY <1>4, InIs
      <4> QED BY <4>1 DEF OEv
    <3> QED BY <1>3, <1>7, <3>1
  <2>2. /\ Precedes(In(output), In(w)) /\ Precedes(In(w), Dequeued')
        /\ Precedes(In(w), In(odpQueue'))
    BY <1>1, <1>3, <1>5, <1>6, <1>7 DEF Precedes
  <2>3. Sorted(w) BY <1>3, <1>7
  <2>4. Sorted(odpQueue') /\ \A d \in OutCores : Sorted(deqd'[d]) BY <1>1, <1>5, <1>7
  <2>5. /\ Dequeued' \subseteq Dequeued /\ In(odpQueue') \subseteq In(odpQueue)
        /\ Dequeued \cup In(odpQueue) \subseteq Dequeued' \cup In(odpQueue') \cup In(w)
        /\ direct \subseteq direct'
    BY <1>1, <1>3, <1>5, <1>6
  <2>6. output' = output \o w BY <1>1, <1>3
  <2> HIDE DEF OInv
  <2> QED BY <1>1, <1>4, <2>1, <2>2, <2>3, <2>4, <2>5, <2>6, GivenToOutput
<1>9. OTypeInv' BY <1>1, <1>5, <1>8 DEF OInv, OTypeInv
<1>10. ContextsInv' /\ HeldInv' /\ DrainInv'
  BY <1>1 DEF OInv, ContextsInv, HeldInv, Gone, DrainInv
<1>11. DeletedInv' BY <1>1 DEF DeletedInv, AllDone
<1> QED BY <1>8, <1>9, <1>10, <1>11 DEF OInv

-----------------------------------------------------------------------------
(* The steps of the lock, and all of them *)

\* A step of a core that changes where it is, the lock and what it tracks.
LEMMA MovesKeep ==
  ASSUME OInv, NEW c \in OutCores, opc[c] # "schedule", opc' \in [OutCores -> Where],
         \A d \in OutCores : d # c => opc'[d] = opc[d],
         track' \in [OutCores -> BOOLEAN], outLock' \in OutCores \cup {NoCore},
         DrainInv',
         UNCHANGED <<next, ctx, type, sent, held, turn, odpQueue, deqd, output, direct, deleted, immediate>>
  PROVE  OInv'
<1>1. \A k \in 1..Contexts : Gone(k)' = Gone(k) BY DEF Gone
<1>2. OrderInv' /\ KeptInv' BY <1>1, OrderSame
<1>3. HeldInv' BY <1>1 DEF OInv, HeldInv
<1>4. OTypeInv' BY DEF OInv, OTypeInv
<1>5. ContextsInv'
  <2>1. \A d \in OutCores : opc'[d] # "schedule" => opc[d] # "schedule" OBVIOUS
  <2> QED BY <2>1 DEF OInv, ContextsInv
<1>6. DeletedInv' BY NotDeleted
<1> QED BY <1>2, <1>3, <1>4, <1>5, <1>6 DEF OInv

\* The steps of the lock around the output function.
LEMMA LockSteps ==
  ASSUME OInv, NEW c \in OutCores, EndReceiveOut(c) \/ TryLock(c) \/ Drained(c) \/ Unlock(c)
  PROVE  OInv'
<1>1. /\ opc \in [OutCores -> Where] /\ track \in [OutCores -> BOOLEAN]
      /\ outLock \in OutCores \cup {NoCore} /\ immediate \in BOOLEAN /\ NoCore \notin OutCores
  BY OutputAssumption DEF OInv, OTypeInv
<1>2. UNCHANGED <<next, ctx, type, sent, held, turn, odpQueue, deqd, output, direct, deleted, immediate>>
  BY DEF EndReceiveOut, TryLock, Drained, Unlock
<1>3. \A d \in OutCores : /\ opc[d] \in {"drain", "unlock"} <=> outLock = d
                          /\ deqd[d] # <<>> => opc[d] = "drain"
  BY DEF OInv, DrainInv
<1>4. CASE EndReceiveOut(c)
  <2>1. /\ opc[c] = "receive" /\ UNCHANGED <<track, outLock>>
        /\ opc' = [opc EXCEPT ![c] = IF track[c] THEN "trylock" ELSE "schedule"]
    BY <1>4 DEF EndReceiveOut
  <2>2. opc' \in [OutCores -> Where] /\ opc'[c] \in {"trylock", "schedule"}
        /\ \A d \in OutCores : d # c => opc'[d] = opc[d]
    BY <1>1, <2>1 DEF Where
  <2>3. DrainInv' BY <1>2, <1>3, <2>1, <2>2 DEF DrainInv
  <2> QED BY <1>1, <1>2, <2>1, <2>2, <2>3, MovesKeep
<1>5. CASE TryLock(c)
  <2>1. opc[c] = "trylock" BY <1>5 DEF TryLock
  <2>2. CASE outLock = NoCore
    <3>1. outLock' = c /\ opc' = [opc EXCEPT ![c] = "drain"] /\ track' = track
      BY <1>5, <2>2 DEF TryLock
    <3>2. opc' \in [OutCores -> Where] /\ opc'[c] = "drain"
          /\ \A d \in OutCores : d # c => opc'[d] = opc[d]
      BY <1>1, <3>1 DEF Where
    <3>3. DrainInv' BY <1>1, <1>2, <1>3, <2>2, <3>1, <3>2 DEF DrainInv
    <3> QED BY <1>1, <1>2, <2>1, <3>1, <3>2, <3>3, MovesKeep
  <2>3. CASE outLock # NoCore
    <3>1. outLock' = outLock /\ opc' = [opc EXCEPT ![c] = Back(c)]
          /\ track' = [track EXCEPT ![c] = FALSE]
      BY <1>5, <2>3 DEF TryLock
    <3>2. opc' \in [OutCores -> Where] /\ opc'[c] \in {"receive", "schedule"}
          /\ (\A d \in OutCores : d # c => opc'[d] = opc[d]) /\ track' \in [OutCores -> BOOLEAN]
      BY <1>1, <3>1 DEF Where, Back
    <3>3. DrainInv' BY <1>1, <1>2, <1>3, <2>1, <3>1, <3>2 DEF DrainInv
    <3> QED BY <1>1, <1>2, <2>1, <3>1, <3>2, <3>3, MovesKeep
  <2> QED BY <2>2, <2>3
<1>6. CASE Drained(c)
  <2>1. /\ opc[c] = "drain" /\ deqd[c] = <<>> /\ UNCHANGED <<track, outLock>>
        /\ opc' = [opc EXCEPT ![c] = "unlock"]
    BY <1>6 DEF Drained
  <2>2. opc' \in [OutCores -> Where] /\ opc'[c] = "unlock"
        /\ \A d \in OutCores : d # c => opc'[d] = opc[d]
    BY <1>1, <2>1 DEF Where
  <2>3. DrainInv' BY <1>2, <1>3, <2>1, <2>2 DEF DrainInv
  <2> QED BY <1>1, <1>2, <2>1, <2>2, <2>3, MovesKeep
<1>7. CASE Unlock(c)
  <2>1. /\ opc[c] = "unlock" /\ outLock' = NoCore /\ track' = [track EXCEPT ![c] = FALSE]
        /\ opc' = [opc EXCEPT ![c] = Back(c)]
    BY <1>7 DEF Unlock
  <2>2. opc' \in [OutCores -> Where] /\ opc'[c] \in {"receive", "schedule"}
        /\ (\A d \in OutCores : d # c => opc'[d] = opc[d]) /\ track' \in [OutCores -> BOOLEAN]
    BY <1>1, <2>1 DEF Where, Back
  <2>3. DrainInv' BY <1>1, <1>2, <1>3, <2>1, <2>2 DEF DrainInv
  <2> QED BY <1>1, <1>2, <2>1, <2>2, <2>3, MovesKeep
<1> QED BY <1>4, <1>5, <1>6, <1>7

\* Before the first event.
LEMMA OInitIs == OutputInit => OInv
<1> SUFFICES ASSUME OutputInit PROVE OInv OBVIOUS
<1>1. Contexts \in Nat \ {0} /\ Builds \subseteq BOOLEAN /\ NoCore \notin OutCores
  BY OutputAssumption
<1>2. <<>> \in Seq(OEv) /\ <<>> \in Seq(OEv \cup DEv) /\ Len(<<>>) = 0 BY EmptySeq
<1>3. In(<<>>) = {} /\ Sorted(<<>>) BY <1>2 DEF In, Sorted
<1>4. OTypeInv
  <2>1. next \in 1..Contexts + 1 /\ turn \in 1..Contexts + 1 /\ turn <= next BY <1>1 DEF OutputInit
  <2>2. /\ ctx \in [OutCores -> 0..Contexts] /\ type \in [OutCores -> BOOLEAN]
        /\ opc \in [OutCores -> Where] /\ sent \in [1..Contexts -> Nat]
        /\ track \in [OutCores -> BOOLEAN]
    BY <1>1 DEF OutputInit, Where
  <2>3. held \in [1..Contexts -> Seq(OEv)] /\ deqd \in [OutCores -> Seq(OEv)]
    BY <1>2 DEF OutputInit
  <2>4. odpQueue \in Seq(OEv) /\ output \in Seq(OEv \cup DEv) /\ direct \subseteq DEv
    BY <1>2 DEF OutputInit
  <2>5. /\ outLock \in OutCores \cup {NoCore} /\ deleted \in BOOLEAN /\ immediate \in BOOLEAN
    BY <1>1 DEF OutputInit
  <2> QED BY <2>1, <2>2, <2>3, <2>4, <2>5 DEF OTypeInv
<1>5. ContextsInv BY DEF OutputInit, ContextsInv
<1>6. DrainInv BY <1>1 DEF OutputInit, DrainInv
<1>7. \A k \in 1..Contexts : Gone(k) = 0 /\ held[k] = <<>> BY <1>2 DEF OutputInit, Gone
<1>8. HeldInv BY <1>2, <1>7 DEF HeldInv
<1>9. Dequeued = {} /\ In(output) = {} /\ In(odpQueue) = {} BY <1>3 DEF OutputInit, Dequeued
<1>10. OrderInv BY <1>3, <1>9 DEF OutputInit, OrderInv, Precedes
<1>11. KeptInv BY <1>7 DEF KeptInv
<1>12. DeletedInv BY DEF OutputInit, DeletedInv
<1> QED BY <1>4, <1>5, <1>6, <1>8, <1>10, <1>11, <1>12 DEF OInv

\* Every step keeps the invariant of the output queue.
LEMMA OStepIs ==
  ASSUME OInv, [OutputNext]_ovars
  PROVE  OInv'
<1>1. ASSUME NEW c \in OutCores, ReleaseLast(c) PROVE OInv' BY <1>1, ReleaseLastStep
<1>2. ASSUME NEW c \in OutCores, Schedule(c) PROVE OInv' BY <1>2, ScheduleStep
<1>3. ASSUME NEW c \in OutCores, em_ordered_processing_end(c) PROVE OInv' BY <1>3, OrderedEndStep
<1>4. ASSUME NEW c \in OutCores, send_output(c) PROVE OInv' BY <1>4, SendOutputStep
<1>5. ASSUME NEW c \in OutCores, send_output_direct(c) PROVE OInv' BY <1>5, DirectStep
<1>6. ASSUME NEW c \in OutCores, Dequeue(c) PROVE OInv' BY <1>6, DequeueStep
<1>7. ASSUME NEW c \in OutCores, CallOutput(c) PROVE OInv' BY <1>7, CallOutputStep
<1>8. ASSUME NEW c \in OutCores, EndReceiveOut(c) \/ TryLock(c) \/ Drained(c) \/ Unlock(c) PROVE OInv'
  BY <1>8, LockSteps
<1>9. ASSUME queue_delete PROVE OInv' BY <1>9, DeleteStep
<1>10. ASSUME UNCHANGED ovars PROVE OInv'
  <2>1. UNCHANGED <<next, ctx, type, opc, sent, held, turn, odpQueue, track, outLock, deqd, output,
                    direct, deleted, immediate>>
    BY <1>10 DEF ovars
  <2>2. \A k \in 1..Contexts : Gone(k)' = Gone(k) BY <2>1 DEF Gone
  <2>3. OrderInv' /\ KeptInv' BY <2>1, <2>2, OrderSame
  <2>4. HeldInv' BY <2>1, <2>2 DEF OInv, HeldInv
  <2>5. OTypeInv' /\ ContextsInv' /\ DrainInv' /\ DeletedInv'
    BY <2>1 DEF OInv, OTypeInv, ContextsInv, DrainInv, DeletedInv
  <2> QED BY <2>3, <2>4, <2>5 DEF OInv
<1> QED BY <1>1, <1>2, <1>3, <1>4, <1>5, <1>6, <1>7, <1>8, <1>9, <1>10 DEF OutputNext, OutputStep

\* What the invariant says of the output queue.
LEMMA OInvIs == OInv => OutputInv
<1> SUFFICES ASSUME OInv PROVE OutputInv OBVIOUS
<1>1. output \in Seq(OEv \cup DEv) BY DEF OInv, OTypeInv
<1>2. Len(output) \in Nat /\ DOMAIN output = 1..Len(output) BY <1>1, LenProperties
<1>3. \A i \in 1..Len(output) : output[i] \in OEv \cup DEv BY <1>1, ElementOfSeq
<1>4. OutputTypeOK
  <2>1. \A i \in DOMAIN output : Len(output[i]) = 2 BY <1>2, <1>3 DEF OEv, DEv
  <2> QED BY <2>1 DEF OInv, OTypeInv, DrainInv, OutputTypeOK
<1>5. OutputInOrder
  <2> SUFFICES ASSUME NEW i \in 1..Len(output), NEW j \in 1..Len(output), i < j,
                      {output[i], output[j]} \cap direct = {}
               PROVE  Before(output[i], output[j])
    BY <1>2 DEF OutputInOrder
  <2>1. output[i] \in In(output) /\ output[j] \in In(output) BY DEF In
  <2>2. output[i][1] # 0 /\ output[j][1] # 0 BY <2>1 DEF OInv, OrderInv
  <2> QED BY <2>2 DEF OInv, OrderInv, Sorted
<1>6. DeleteLeavesNothing
  <2> SUFFICES ASSUME deleted, NEW k \in 1..Contexts, NEW n \in 1..sent[k]
               PROVE  Contains(output, <<k, n>>)
    BY DEF DeleteLeavesNothing
  <2>1. turn > Contexts /\ odpQueue = <<>> /\ \A c \in OutCores : opc[c] = "schedule"
    BY DEF OInv, DeletedInv
  <2>2. turn \in 1..Contexts + 1 /\ Contexts \in Nat /\ sent[k] \in Nat
    BY OutputAssumption DEF OInv, OTypeInv
  <2>3. held[k] = <<>> BY <2>1, <2>2 DEF OInv, HeldInv
  <2>4. Gone(k) = sent[k]
    <3>1. Len(held[k]) = 0 BY <2>3, EmptySeq
    <3> QED BY <2>2, <3>1 DEF Gone
  <2>5. <<k, n>> \in In(output) \cup Dequeued \cup In(odpQueue) BY <2>4 DEF OInv, KeptInv
  <2>6. Dequeued = {} BY <2>1, DequeuedIs
  <2>7. In(odpQueue) = {}
    <3>1. Len(odpQueue) = 0 BY <2>1, EmptySeq
    <3> QED BY <3>1 DEF In
  <2>8. <<k, n>> \in In(output) BY <2>5, <2>6, <2>7
  <2> QED BY <2>8 DEF In, Contains
<1> QED BY <1>4, <1>5, <1>6 DEF OutputInv

\* The output function gets the events of ordered contexts in their order and
\* none of them twice, whichever cores send and drain (output_queue_drain()),
\* and nothing that was sent is left out when the queue is deleted: for any
\* number of cores, contexts and events, any batch, in both builds.
THEOREM OutputCorrect == OutputSpec => []OutputInv
<1>1. OutputInit => OInv BY OInitIs
<1>2. OInv /\ [OutputNext]_ovars => OInv' BY OStepIs
<1>3. OInv => OutputInv BY OInvIs
<1> QED BY <1>1, <1>2, <1>3, PTL DEF OutputSpec
=============================================================================
