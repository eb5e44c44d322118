------------------------- MODULE AtomicGroupProofs -------------------------
(***************************************************************************)
(* The safety properties of AtomicGroup, for any number of cores, queues   *)
(* and events and any burst and stash sizes.                               *)
(*                                                                         *)
(* No stashed event is forgotten because whoever gives the lock up looks   *)
(* at the count afterwards: counted events imply a core that holds the     *)
(* lock, will try to get it, or has released it early and comes back       *)
(* (SomebodyComes).  A group may go away because a core that has confirmed *)
(* the stop of its queues is not at work on it (StopInv).  Exclusion needs *)
(* more: the core that receives holds the lock or the ODP context of its   *)
(* queue until its last batch of an event group, which is true only if     *)
(* there are no batches in between (NoPartialBatch).                       *)
(* Order follows from where events can be: what was received, what a core  *)
(* is going to receive, the stashes, what a core has fetched and the ODP   *)
(* queues hold older to newer events of every queue (OrderInv).            *)
(***************************************************************************)
EXTENDS AtomicGroup, FiniteSetTheorems, SequenceTheorems, WellFoundedInduction, TLAPS

\* Every event of s belongs to a queue of Q.
AllIn(s, Q) == \A i \in DOMAIN s : s[i].q \in Q

\* Where a core is determines what it has in hand: events of the group while it
\* is in atomic_group_dispatch(), and none while it looks for more.  p, b, q and
\* r are the core's pc, burst, cur and released.
CoreOK(p, b, q, r) ==
  /\ p \in {"idle", "trylock", "deq", "unlock"} => b = <<>>
  /\ p \in {"acquire", "count", "put", "uncount", "run"} => b # <<>>
  /\ p \in {"acquire", "count", "put", "uncount", "sub"} => AllIn(b, Group)
  /\ AllIn(b, Group) \/ AllIn(b, Queues \ Group)
  /\ p = "rcv" => q \in Queues /\ (b # <<>> => (AllIn(b, Group) <=> q \in Group))
  /\ p \notin {"run", "rcv"} => q = None
  /\ r => \/ p = "unlock"
          \/ p = "rcv" /\ q \in Group
          \/ p = "run" /\ AllIn(b, Group)

\* Queues hold their own events, stashes those of the group's queues.
BurstInv ==
  /\ \A q \in Queues : AllIn(odpq[q], {q})
  /\ \A l \in Levels : AllIn(stash[l], Group)
  /\ \A c \in Cores : CoreOK(pc[c], burst[c], cur[c], released[c])

\* At most one core believes to hold the lock, and one does when it is set.
LockInv ==
  /\ \A c, d \in Cores : HoldsLock(c) /\ HoldsLock(d) => c = d
  /\ lock = 1 <=> \E c \in Cores : HoldsLock(c)

\* When events are counted and nobody holds the lock, some core is on its way to
\* ag_trylock(), or has released the lock and will look at the count again in
\* ag_unlock().
SomebodyComes ==
  evcnt > 0 /\ lock = 0 =>
    \E c \in Cores : pc[c] \in {"put", "uncount", "trylock"} \/ released[c]

\* The core is at work on the group.
AtGroup(c) ==
  \/ pc[c] \in {"acquire", "count", "put", "uncount", "trylock", "deq", "sub", "unlock"}
  \/ pc[c] = "run" /\ AllIn(burst[c], Group)
  \/ pc[c] = "rcv" /\ cur[c] \in Group

\* A core that has confirmed the stop of every queue of the group is not at work
\* on the group, and a queue is deleted only after every core has confirmed.
StopInv ==
  /\ \A q \in Queues : acked[q] # {} => state[q] # "ready"
  /\ \A q \in Queues : state[q] \in {"stopped", "deleted"} => acked[q] = Cores
  /\ Group \subseteq attached \cup {q \in Queues : state[q] = "deleted"}
  /\ \A c \in Cores : (\A q \in Group : c \in acked[q]) => ~AtGroup(c)
  /\ ~alive => attached = {}

\* The inductive invariant.
IInv == TypeOK /\ BurstInv /\ LockInv /\ CountCoversStash /\ SomebodyComes /\ StopInv /\ EachEventOnce

\* No multi-event receive function gets an event group in several batches, so
\* that none of them is a trailing partial one.
NoPartialBatch == Multi = {} \/ (MaxBurst <= MaxEvents /\ AgMaxBurst <= MaxEvents)

\* Without partial batches event_burst_cnt is the number of events still in hand:
\* p, b, n, q, m, r and e are the core's pc, burst, bcnt, cur, mid, released and
\* ended, own the queues whose atomic context it holds.
CallOK(p, b, n, q, m, r, e, own) ==
  /\ ~m
  /\ Multi = {} \/ Len(b) <= MaxEvents
  /\ p \in {"run", "rcv"} => n = Len(b)
  /\ p = "run" => ~r /\ (AllIn(b, Group) \/ (AllIn(b, {b[1].q}) /\ b[1].q \in own))
  /\ p = "rcv" => /\ b # <<>> => ~e
                  /\ r => e
                  /\ q \notin Group => AllIn(b, {q}) /\ (~e => q \in own)

\* The queues whose atomic context of ODP the core has.
Own(c) == {q \in Queues : ctx[q] = c}

\* A receive call that has not ended its atomic processing has the atomic
\* context of its queue, or the lock of the group.
ExclInv ==
  \A c \in Cores :
    CallOK(pc[c], burst[c], bcnt[c], cur[c], mid[c], released[c], ended[c], Own(c))

-----------------------------------------------------------------------------
(* Numbers and sequences. *)

\* The smaller of two.
LEMMA MinOfTwo ==
  ASSUME NEW a \in Int, NEW b \in Int
  PROVE  Min({a, b}) = IF a <= b THEN a ELSE b
<1>1. \E x \in {a, b} : \A y \in {a, b} : x <= y
  <2>1. CASE a <= b BY <2>1
  <2>2. CASE ~(a <= b) BY <2>2
  <2> QED BY <2>1, <2>2
<1> DEFINE m == Min({a, b})
<1>2. m \in {a, b} /\ \A y \in {a, b} : m <= y BY <1>1 DEF Min
<1> HIDE DEF m
<1>3. m \in {a, b} /\ m <= a /\ m <= b BY <1>2
<1>4. m = IF a <= b THEN a ELSE b BY <1>3
<1> QED BY <1>4 DEF m

\* A non-empty set of numbers has a smallest one.
LEMMA Smallest ==
  ASSUME NEW T \in SUBSET Nat, T # {}
  PROVE  \E x \in T : \A y \in T : x <= y
<1>1. IsWellFoundedOn(OpToRel(<, Nat), Nat) BY NatLessThanWellFounded
<1>2. PICK x \in T : \A y \in T : ~(<<y, x>> \in OpToRel(<, Nat)) BY <1>1, WFMin
<1>3. \A y \in T : ~(y < x) BY <1>2 DEF OpToRel
<1> QED BY <1>3

\* A part of a sequence.
LEMMA PartOfSeq ==
  ASSUME NEW S, NEW s \in Seq(S), NEW m \in 1..(Len(s) + 1), NEW n \in (m - 1)..Len(s)
  PROVE  /\ SubSeq(s, m, n) \in Seq(S)
         /\ Len(SubSeq(s, m, n)) = n - m + 1
         /\ DOMAIN SubSeq(s, m, n) = 1..(n - m + 1)
         /\ \A i \in 1..(n - m + 1) : SubSeq(s, m, n)[i] = s[m + i - 1]
<1>1. Len(s) \in Nat /\ DOMAIN s = 1..Len(s) BY LenProperties
<1>2. m \in Int /\ n \in Int BY <1>1
<1>3. \A i \in m..n : s[i] \in S BY <1>1, ElementOfSeq
<1> DEFINE t == SubSeq(s, m, n)
<1>4. /\ t \in Seq(S) /\ Len(t) = (IF m <= n THEN n - m + 1 ELSE 0)
      /\ \A i \in 1..(n - m + 1) : t[i] = s[m + i - 1]
  BY <1>2, <1>3, SubSeqProperties
<1>5. DOMAIN t = 1..Len(t) BY <1>4, LenProperties
<1> HIDE DEF t
<1>6. Len(t) = n - m + 1 BY <1>1, <1>2, <1>4
<1> QED BY <1>4, <1>5, <1>6 DEF t

\* Cutting a burst in two.
LEMMA Cut ==
  ASSUME NEW s \in Seq(Event), NEW n \in 0..Len(s)
  PROVE  LET f == SubSeq(s, 1, n)
             b == SubSeq(s, n + 1, Len(s)) IN
         /\ f \in Seq(Event) /\ b \in Seq(Event)
         /\ Len(f) = n /\ Len(b) = Len(s) - n
         /\ InSeq(s) = InSeq(f) \cup InSeq(b)
         /\ InSeq(f) = {s[i].n : i \in 1..n}
         /\ Distinct(s) => Distinct(f) /\ Distinct(b) /\ InSeq(f) \cap InSeq(b) = {}
         /\ \A Q : AllIn(s, Q) => AllIn(f, Q) /\ AllIn(b, Q)
<1> DEFINE f == SubSeq(s, 1, n)
           b == SubSeq(s, n + 1, Len(s))
<1>1. Len(s) \in Nat /\ DOMAIN s = 1..Len(s) BY LenProperties
<1>2. /\ f \in Seq(Event) /\ Len(f) = n /\ DOMAIN f = 1..n
      /\ \A i \in 1..n : f[i] = s[i]
  <2>1. 1 \in 1..(Len(s) + 1) /\ n \in (1 - 1)..Len(s) BY <1>1
  <2>2. n - 1 + 1 = n /\ \A i \in 1..n : 1 + i - 1 = i BY <1>1
  <2> HIDE DEF f
  <2>3. /\ f \in Seq(Event) /\ Len(f) = n - 1 + 1 /\ DOMAIN f = 1..(n - 1 + 1)
        /\ \A i \in 1..(n - 1 + 1) : f[i] = s[1 + i - 1]
    BY <2>1, PartOfSeq DEF f
  <2> QED BY <2>2, <2>3
<1>3. /\ b \in Seq(Event) /\ Len(b) = Len(s) - n /\ DOMAIN b = 1..(Len(s) - n)
      /\ \A i \in 1..(Len(s) - n) : b[i] = s[n + i]
  <2>1. n + 1 \in 1..(Len(s) + 1) /\ Len(s) \in ((n + 1) - 1)..Len(s) BY <1>1
  <2>2. Len(s) - (n + 1) + 1 = Len(s) - n /\ \A i \in 1..(Len(s) - n) : (n + 1) + i - 1 = n + i
    BY <1>1
  <2> HIDE DEF b
  <2>3. /\ b \in Seq(Event) /\ Len(b) = Len(s) - (n + 1) + 1
        /\ DOMAIN b = 1..(Len(s) - (n + 1) + 1)
        /\ \A i \in 1..(Len(s) - (n + 1) + 1) : b[i] = s[(n + 1) + i - 1]
    BY <2>1, PartOfSeq DEF b
  <2> QED BY <2>2, <2>3
<1> HIDE DEF f, b
<1>4. InSeq(s) = InSeq(f) \cup InSeq(b)
  <2>1. ASSUME NEW i \in 1..Len(s) PROVE s[i].n \in InSeq(f) \cup InSeq(b)
    <3>1. CASE i <= n BY <1>1, <1>2, <3>1 DEF InSeq
    <3>2. CASE i > n
      <4>1. i - n \in 1..(Len(s) - n) /\ n + (i - n) = i BY <1>1, <3>2
      <4>2. b[i - n] = s[i] BY <1>3, <4>1
      <4> QED BY <1>3, <4>1, <4>2 DEF InSeq
    <3> QED BY <1>1, <3>1, <3>2
  <2>2. ASSUME NEW i \in 1..n PROVE f[i].n \in InSeq(s) BY <1>1, <1>2 DEF InSeq
  <2>3. ASSUME NEW i \in 1..(Len(s) - n) PROVE b[i].n \in InSeq(s)
    <3>1. n + i \in 1..Len(s) BY <1>1
    <3> QED BY <1>1, <1>3, <3>1 DEF InSeq
  <2>4. /\ InSeq(s) = {s[i].n : i \in 1..Len(s)} /\ InSeq(f) = {f[i].n : i \in 1..n}
        /\ InSeq(b) = {b[i].n : i \in 1..(Len(s) - n)}
    BY <1>1, <1>2, <1>3 DEF InSeq
  <2>5. InSeq(s) \subseteq InSeq(f) \cup InSeq(b) BY <2>1, <2>4
  <2>6. InSeq(f) \subseteq InSeq(s) BY <2>2, <2>4
  <2>7. InSeq(b) \subseteq InSeq(s) BY <2>3, <2>4
  <2> QED BY <2>5, <2>6, <2>7
<1>5. InSeq(f) = {s[i].n : i \in 1..n} BY <1>2 DEF InSeq
<1>6. ASSUME Distinct(s) PROVE Distinct(f) /\ Distinct(b) /\ InSeq(f) \cap InSeq(b) = {}
  <2>1. Distinct(f) BY <1>1, <1>2, <1>6 DEF Distinct
  <2>2. Distinct(b)
    <3> SUFFICES ASSUME NEW i \in 1..(Len(s) - n), NEW j \in 1..(Len(s) - n), b[i].n = b[j].n
                 PROVE  i = j
      BY <1>3 DEF Distinct
    <3>1. n + i \in 1..Len(s) /\ n + j \in 1..Len(s) BY <1>1
    <3>2. s[n + i].n = s[n + j].n BY <1>3
    <3>3. n + i = n + j BY <1>1, <1>6, <3>1, <3>2 DEF Distinct
    <3> QED BY <1>1, <3>3
  <2>3. ASSUME NEW i \in 1..n, NEW j \in 1..(Len(s) - n), f[i].n = b[j].n PROVE FALSE
    <3>1. i \in 1..Len(s) /\ n + j \in 1..Len(s) /\ i # n + j BY <1>1
    <3>2. s[i].n = s[n + j].n BY <1>2, <1>3, <2>3
    <3> QED BY <1>1, <1>6, <3>1, <3>2 DEF Distinct
  <2> QED BY <1>2, <1>3, <2>1, <2>2, <2>3 DEF InSeq
<1>7. ASSUME NEW Q, AllIn(s, Q) PROVE AllIn(f, Q) /\ AllIn(b, Q)
  <2>1. AllIn(f, Q) BY <1>1, <1>2, <1>7 DEF AllIn
  <2>2. ASSUME NEW i \in 1..(Len(s) - n) PROVE b[i].q \in Q
    <3>1. n + i \in 1..Len(s) BY <1>1
    <3> QED BY <1>1, <1>3, <1>7, <3>1 DEF AllIn
  <2> QED BY <1>3, <2>1, <2>2 DEF AllIn
<1> QED BY <1>2, <1>3, <1>4, <1>5, <1>6, <1>7 DEF f, b

\* Joining two sequences.
LEMMA Join ==
  ASSUME NEW s \in Seq(Event), NEW t \in Seq(Event)
  PROVE  /\ s \o t \in Seq(Event)
         /\ Len(s \o t) = Len(s) + Len(t)
         /\ InSeq(s \o t) = InSeq(s) \cup InSeq(t)
         /\ Distinct(s) /\ Distinct(t) /\ InSeq(s) \cap InSeq(t) = {} => Distinct(s \o t)
         /\ \A Q : AllIn(s, Q) /\ AllIn(t, Q) => AllIn(s \o t, Q)
<1> DEFINE u == s \o t
           m == Len(s)
           n == Len(t)
<1>1. m \in Nat /\ DOMAIN s = 1..m /\ n \in Nat /\ DOMAIN t = 1..n BY LenProperties
<1>2. /\ u \in Seq(Event) /\ Len(u) = m + n
      /\ \A i \in 1..(m + n) : u[i] = IF i <= m THEN s[i] ELSE t[i - m]
  BY ConcatProperties
<1>3. DOMAIN u = 1..(m + n) BY <1>2, LenProperties
<1> HIDE DEF u, m, n
<1>4. \A i \in 1..m : i \in 1..(m + n) /\ u[i] = s[i] BY <1>1, <1>2
<1>5. \A i \in 1..n : m + i \in 1..(m + n) /\ u[m + i] = t[i]
  <2> TAKE i \in 1..n
  <2>1. m + i \in 1..(m + n) /\ ~(m + i <= m) /\ (m + i) - m = i BY <1>1
  <2> QED BY <1>2, <2>1
<1>6. \A i \in 1..(m + n) : i \in 1..m \/ (i - m \in 1..n /\ m + (i - m) = i) BY <1>1
<1>7. InSeq(u) = InSeq(s) \cup InSeq(t)
  <2>1. ASSUME NEW i \in 1..(m + n) PROVE u[i].n \in InSeq(s) \cup InSeq(t)
    <3>1. CASE i \in 1..m BY <1>1, <1>4, <3>1 DEF InSeq
    <3>2. CASE i - m \in 1..n /\ m + (i - m) = i
      <4>1. u[i] = t[i - m] BY <1>5, <3>2
      <4> QED BY <1>1, <3>2, <4>1 DEF InSeq
    <3> QED BY <1>6, <3>1, <3>2
  <2>2. \A i \in 1..m : s[i].n \in InSeq(u) BY <1>3, <1>4 DEF InSeq
  <2>3. ASSUME NEW i \in 1..n PROVE t[i].n \in InSeq(u)
    <3>1. m + i \in 1..(m + n) /\ u[m + i] = t[i] BY <1>5
    <3> QED BY <1>3, <3>1 DEF InSeq
  <2> QED BY <1>1, <1>3, <2>1, <2>2, <2>3 DEF InSeq
<1>8. ASSUME Distinct(s), Distinct(t), InSeq(s) \cap InSeq(t) = {} PROVE Distinct(u)
  <2> SUFFICES ASSUME NEW i \in 1..(m + n), NEW j \in 1..(m + n), u[i].n = u[j].n PROVE i = j
    BY <1>3 DEF Distinct
  <2>1. CASE i \in 1..m /\ j \in 1..m BY <1>1, <1>4, <1>8, <2>1 DEF Distinct
  <2>2. CASE i \in 1..m /\ j - m \in 1..n /\ m + (j - m) = j
    <3>1. u[i] = s[i] /\ u[j] = t[j - m] BY <1>4, <1>5, <2>2
    <3> QED BY <1>1, <1>8, <2>2, <3>1 DEF InSeq
  <2>3. CASE j \in 1..m /\ i - m \in 1..n /\ m + (i - m) = i
    <3>1. u[j] = s[j] /\ u[i] = t[i - m] BY <1>4, <1>5, <2>3
    <3> QED BY <1>1, <1>8, <2>3, <3>1 DEF InSeq
  <2>4. CASE i - m \in 1..n /\ m + (i - m) = i /\ j - m \in 1..n /\ m + (j - m) = j
    <3>1. u[i] = t[i - m] /\ u[j] = t[j - m] BY <1>5, <2>4
    <3>2. i - m = j - m BY <1>1, <1>8, <2>4, <3>1 DEF Distinct
    <3> QED BY <1>1, <3>2
  <2> QED BY <1>6, <2>1, <2>2, <2>3, <2>4
<1>9. ASSUME NEW Q, AllIn(s, Q), AllIn(t, Q) PROVE AllIn(u, Q)
  <2> SUFFICES ASSUME NEW i \in 1..(m + n) PROVE u[i].q \in Q BY <1>3 DEF AllIn
  <2>1. CASE i \in 1..m BY <1>1, <1>4, <1>9, <2>1 DEF AllIn
  <2>2. CASE i - m \in 1..n /\ m + (i - m) = i
    <3>1. u[i] = t[i - m] BY <1>5, <2>2
    <3> QED BY <1>1, <1>9, <2>2, <3>1 DEF AllIn
  <2> QED BY <1>6, <2>1, <2>2
<1> QED BY <1>2, <1>7, <1>8, <1>9 DEF u, m, n

\* The empty sequence.
LEMMA Nothing ==
  /\ <<>> \in Seq(Event) /\ Len(<<>>) = 0
  /\ InSeq(<<>>) = {} /\ Distinct(<<>>) /\ \A Q : AllIn(<<>>, Q)
  /\ \A s \in Seq(Event) : Len(s) \in Nat /\ (Len(s) = 0 <=> s = <<>>)
  /\ \A s \in Seq(Event) : \A i \in DOMAIN s : s[i] \in Event
  /\ \A s \in Seq(Event) : InSeq(s) \subseteq 1..NumEvents
  /\ \A e \in Event : e.n \in 1..NumEvents /\ e.q \in Queues
<1>1. <<>> \in Seq(Event) /\ Len(<<>>) = 0 /\ DOMAIN <<>> = {} BY EmptySeq, LenProperties
<1>2. InSeq(<<>>) = {} /\ Distinct(<<>>) /\ \A Q : AllIn(<<>>, Q)
  BY <1>1 DEF InSeq, Distinct, AllIn
<1>3. \A s \in Seq(Event) : Len(s) \in Nat /\ (Len(s) = 0 <=> s = <<>>) BY EmptySeq, LenProperties
<1>4. \A s \in Seq(Event) : \A i \in DOMAIN s : s[i] \in Event BY LenProperties
<1>5. \A e \in Event : e.n \in 1..NumEvents /\ e.q \in Queues BY DEF Event
<1>6. \A s \in Seq(Event) : InSeq(s) \subseteq 1..NumEvents BY <1>4, <1>5 DEF InSeq
<1> QED BY <1>1, <1>2, <1>3, <1>4, <1>5, <1>6

\* The largest of the leading parts of a burst that belong together.
LEMMA BatchFits ==
  ASSUME NEW s \in Seq(Event), s # <<>>
  PROVE  /\ CountSame(s) \in 1..Len(s) /\ BatchSize(s) \in 1..Len(s)
         /\ s[1].q \in Multi => BatchSize(s) = IF CountSame(s) <= MaxEvents THEN CountSame(s) ELSE MaxEvents
         /\ s[1].q \notin Multi => BatchSize(s) = 1
<1> DEFINE n == Len(s)
           K == {k \in 1..n : \A i \in 1..k : s[i].q = s[1].q /\ s[i].g = s[1].g}
           T == {n - k : k \in K}
<1>1. n \in Nat \ {0} BY EmptySeq
<1>2. 1 \in K BY <1>1
<1>3. T \in SUBSET Nat /\ T # {} BY <1>1, <1>2
<1>4. PICK x \in T : \A y \in T : x <= y BY <1>3, Smallest
<1>5. PICK k \in K : x = n - k BY <1>4
<1>6. \A j \in K : k >= j
  <2> SUFFICES ASSUME NEW j \in K PROVE k >= j OBVIOUS
  <2>1. n - j \in T /\ j \in 1..n /\ k \in 1..n OBVIOUS
  <2>2. n - k <= n - j BY <2>1, <1>4, <1>5
  <2> HIDE DEF n, K, T
  <2> QED BY <1>1, <2>1, <2>2
<1>7. CountSame(s) = Max(K) BY DEF CountSame
<1>8. Max(K) \in K BY <1>5, <1>6 DEF Max
<1>9. CountSame(s) \in 1..n BY <1>7, <1>8
<1> HIDE DEF n
<1>10. CountSame(s) \in Int /\ MaxEvents \in Nat \ {0} BY <1>1, <1>9, GroupAssumption
<1>11. Min({CountSame(s), MaxEvents}) = IF CountSame(s) <= MaxEvents THEN CountSame(s) ELSE MaxEvents
  BY <1>10, MinOfTwo
<1>12. BatchSize(s) \in 1..n BY <1>1, <1>9, <1>10, <1>11 DEF BatchSize
<1> QED BY <1>9, <1>11, <1>12 DEF n, BatchSize

-----------------------------------------------------------------------------
(* Counting the events in the hands of the cores. *)

\* The slots of a set of cores are finite.
LEMMA SlotsFinite ==
  ASSUME NEW H \in SUBSET Cores, NEW r \in [Cores -> Nat]
  PROVE  IsFiniteSet(Slots(H, r)) /\ Cardinality(Slots(H, r)) \in Nat
<1> DEFINE T == {{c} \X (1..r[c]) : c \in H}
<1>1. IsFiniteSet(H) BY GroupAssumption, FS_Subset
<1>2. IsFiniteSet(T)
  <2> DEFINE f == [c \in H |-> {c} \X (1..r[c])]
  <2>1. f \in [H -> T] /\ \A t \in T : \E c \in H : f[c] = t OBVIOUS
  <2> HIDE DEF f, T
  <2>2. f \in Surjection(H, T) BY <2>1 DEF Surjection
  <2> QED BY <1>1, <2>2, FS_Surjection
<1>3. ASSUME NEW c \in H PROVE IsFiniteSet({c} \X (1..r[c]))
  <2>1. IsFiniteSet({c}) BY FS_Singleton
  <2>2. IsFiniteSet(1..r[c]) BY FS_Interval
  <2> QED BY <2>1, <2>2, FS_Product
<1>4. \A t \in T : IsFiniteSet(t) BY <1>3
<1> HIDE DEF T
<1>5. IsFiniteSet(UNION T) BY <1>2, <1>4, FS_UNION
<1>6. IsFiniteSet(Slots(H, r)) BY <1>5 DEF Slots, T
<1> QED BY <1>6, FS_CardinalityType

\* One more core adds as many slots as it has events.
LEMMA SlotsAdd ==
  ASSUME NEW H \in SUBSET Cores, NEW c \in Cores, c \notin H, NEW r \in [Cores -> Nat]
  PROVE  Cardinality(Slots(H \cup {c}, r)) = Cardinality(Slots(H, r)) + r[c]
<1> DEFINE new == {c} \X (1..r[c])
<1>1. r[c] \in Nat OBVIOUS
<1>2. IsFiniteSet({c}) /\ Cardinality({c}) = 1 BY FS_Singleton
<1>3. IsFiniteSet(1..r[c]) /\ Cardinality(1..r[c]) = r[c] BY <1>1, FS_Interval
<1>4. IsFiniteSet(new) /\ Cardinality(new) = r[c]
  <2>1. IsFiniteSet(new) /\ Cardinality(new) = Cardinality({c}) * Cardinality(1..r[c])
    BY <1>2, <1>3, FS_Product
  <2> HIDE DEF new
  <2>2. Cardinality(new) = 1 * r[c] BY <1>2, <1>3, <2>1
  <2> QED BY <1>1, <2>1, <2>2
<1>5. Slots(H \cup {c}, r) = Slots(H, r) \cup new BY DEF Slots
<1>6. Slots(H, r) \cap new = {} BY DEF Slots
<1>7. Cardinality(Slots(H, r) \cap new) = 0 BY <1>6, FS_EmptySet
<1>8. IsFiniteSet(Slots(H, r)) /\ Cardinality(Slots(H, r)) \in Nat BY SlotsFinite
<1> HIDE DEF new
<1>9. Cardinality(Slots(H, r) \cup new)
        = Cardinality(Slots(H, r)) + Cardinality(new) - Cardinality(Slots(H, r) \cap new)
      BY <1>4, <1>8, FS_Union
<1>10. Cardinality(Slots(H \cup {c}, r)) = Cardinality(Slots(H, r)) + r[c] - 0
  BY <1>4, <1>5, <1>7, <1>9
<1> QED BY <1>1, <1>8, <1>10

\* One core less.
LEMMA SlotsRemove ==
  ASSUME NEW H \in SUBSET Cores, NEW c \in H, NEW r \in [Cores -> Nat]
  PROVE  Cardinality(Slots(H, r)) = Cardinality(Slots(H \ {c}, r)) + r[c]
<1>1. (H \ {c}) \cup {c} = H OBVIOUS
<1>2. Cardinality(Slots((H \ {c}) \cup {c}, r)) = Cardinality(Slots(H \ {c}, r)) + r[c] BY SlotsAdd
<1> QED BY <1>1, <1>2

\* The slots only depend on the cores counted.
LEMMA SlotsSame ==
  ASSUME NEW H \in SUBSET Cores, NEW r \in [Cores -> Nat], NEW t \in [Cores -> Nat],
         \A c \in H : r[c] = t[c]
  PROVE  Slots(H, r) = Slots(H, t)
BY DEF Slots

\* The count covers the burst of each counting core.
LEMMA BurstCounted ==
  ASSUME TypeOK, CountCoversStash, NEW c \in Counting
  PROVE  evcnt - Len(burst[c]) \in Nat
<1>1. Counting \in SUBSET Cores BY DEF Counting
<1>2. Lens \in [Cores -> Nat] BY Nothing DEF Lens, TypeOK
<1>3. Cardinality(Slots(Counting, Lens)) = Cardinality(Slots(Counting \ {c}, Lens)) + Lens[c]
  BY <1>1, <1>2, SlotsRemove
<1>4. Cardinality(Slots(Counting \ {c}, Lens)) \in Nat BY <1>1, <1>2, SlotsFinite
<1>5. Lens[c] = Len(burst[c]) /\ Lens[c] \in Nat BY <1>1, <1>2 DEF Lens
<1>6. Len(stash["hi"]) \in Nat /\ Len(stash["lo"]) \in Nat BY Nothing DEF TypeOK, Levels
<1>7. evcnt = Len(stash["hi"]) + Len(stash["lo"]) + Cardinality(Slots(Counting, Lens))
  BY DEF CountCoversStash
<1>8. \A h, l, r, n \in Nat : (h + l + (r + n)) - n \in Nat OBVIOUS
<1>9. evcnt = Len(stash["hi"]) + Len(stash["lo"]) + (Cardinality(Slots(Counting \ {c}, Lens)) + Len(burst[c]))
  BY <1>3, <1>5, <1>7
<1> HIDE DEF Lens, Counting
<1> QED BY <1>4, <1>5, <1>6, <1>8, <1>9

-----------------------------------------------------------------------------
\* How much of a burst fits into its stash.
LEMMA PutFits ==
  ASSUME TypeOK, BurstInv, NEW c \in Cores, pc[c] = "put"
  PROVE  LET l == PrioOf(Head(burst[c]).q)
             k == Min({Len(burst[c]), StashSize - Len(stash[l])}) IN
         /\ l \in Levels
         /\ k \in 0..Len(burst[c]) /\ Len(stash[l]) + k <= StashSize
<1> DEFINE l == PrioOf(Head(burst[c]).q)
           k == Min({Len(burst[c]), StashSize - Len(stash[l])})
<1>1. l \in Levels BY DEF PrioOf, Levels
<1>2. Len(burst[c]) \in Nat /\ Len(stash[l]) \in Nat /\ Len(stash[l]) <= StashSize
  BY <1>1, Nothing DEF TypeOK
<1>3. StashSize \in Nat BY GroupAssumption
<1> DEFINE a == Len(burst[c])
           b == Len(stash[l])
           d == StashSize - b
<1>4. a \in Nat /\ b \in Nat /\ d \in Nat /\ b + d = StashSize BY <1>2, <1>3
<1>5. k = Min({a, d}) OBVIOUS
<1> HIDE DEF a, b, d, k, l
<1>6. k = IF a <= d THEN a ELSE d BY <1>4, <1>5, MinOfTwo
<1>7. k \in 0..a /\ b + k <= StashSize BY <1>3, <1>4, <1>6
<1> QED BY <1>1, <1>7 DEF a, b, k, l

\* How much of the stashes is taken at once.
LEMMA DeqFits ==
  ASSUME TypeOK
  PROVE  LET h == IF attached \cap Hi # {} THEN Min({AgMaxBurst, Len(stash["hi"])}) ELSE 0
             k == Min({AgMaxBurst - h, Len(stash["lo"])}) IN
         h \in 0..Len(stash["hi"]) /\ k \in 0..Len(stash["lo"]) /\ h + k <= AgMaxBurst
<1> DEFINE h == IF attached \cap Hi # {} THEN Min({AgMaxBurst, Len(stash["hi"])}) ELSE 0
           k == Min({AgMaxBurst - h, Len(stash["lo"])})
<1>1. Len(stash["hi"]) \in Nat /\ Len(stash["lo"]) \in Nat BY Nothing DEF TypeOK, Levels
<1>2. AgMaxBurst \in Nat \ {0} BY GroupAssumption
<1>3. Min({AgMaxBurst, Len(stash["hi"])}) =
        IF AgMaxBurst <= Len(stash["hi"]) THEN AgMaxBurst ELSE Len(stash["hi"])
  BY <1>1, <1>2, MinOfTwo
<1>4. h \in 0..Len(stash["hi"]) /\ h <= AgMaxBurst BY <1>1, <1>2, <1>3
<1> HIDE DEF h
<1>5. k = IF AgMaxBurst - h <= Len(stash["lo"]) THEN AgMaxBurst - h ELSE Len(stash["lo"])
  BY <1>1, <1>2, <1>4, MinOfTwo
<1> HIDE DEF k
<1>6. k \in 0..Len(stash["lo"]) /\ h + k <= AgMaxBurst BY <1>1, <1>2, <1>4, <1>5
<1> QED BY <1>4, <1>6 DEF h, k

-----------------------------------------------------------------------------
(* Every action keeps the types. *)

\* The types are kept by whatever step is taken.
LEMMA TypeStep ==
  ASSUME TypeOK, BurstInv, CountCoversStash, [Next]_vars
  PROVE  TypeOK'
<1> USE DEF TypeOK, agvars, qvars, corevars, history
<1>1. ASSUME NEW q \in Queues, NEW g \in Tags, Send(q, g) PROVE TypeOK'
  <2> DEFINE e == [n |-> sent + 1, q |-> q, g |-> g]
  <2>1. sent + 1 \in 1..NumEvents BY <1>1, GroupAssumption DEF Send
  <2>2. e \in Event BY <2>1 DEF Event
  <2> HIDE DEF e
  <2>3. Append(odpq[q], e) \in Seq(Event) BY <2>2, AppendProperties
  <2>4. odpq' = [odpq EXCEPT ![q] = Append(odpq[q], e)] BY <1>1 DEF Send, e
  <2>5. odpq' \in [Queues -> Seq(Event)] BY <2>3, <2>4
  <2> QED BY <1>1, <2>1, <2>5 DEF Send
<1>2. ASSUME NEW c \in Cores, ReleaseCtx(c) \in [Queues -> Cores \cup {None}],
             NEW q \in Queues, NEW n \in 1..MaxBurst, DispatchRound(c, q, n)
      PROVE  TypeOK'
  <2> DEFINE f == SubSeq(odpq[q], 1, n)
             b == SubSeq(odpq[q], n + 1, Len(odpq[q]))
  <2>1. n \in 1..Len(odpq[q]) /\ n \in 0..Len(odpq[q]) /\ n \in Int BY <1>2 DEF DispatchRound
  <2>2. f \in Seq(Event) /\ b \in Seq(Event) /\ Len(f) = n BY <2>1, Cut
  <2>3. DOMAIN f = 1..n BY <2>2, LenProperties
  <2>4. {f[i].n : i \in 1..n} \subseteq 1..NumEvents BY <2>2, <2>3, Nothing DEF InSeq
  <2>5. odpq' = [odpq EXCEPT ![q] = b] BY <1>2 DEF DispatchRound
  <2>6. \/ burst' = burst /\ pc' = pc /\ bcnt' = bcnt /\ dropped' = dropped \cup {f[i].n : i \in 1..n}
        \/ /\ burst' = [burst EXCEPT ![c] = f] /\ dropped' = dropped
           /\ pc' = [pc EXCEPT ![c] = IF q \in Group THEN "acquire" ELSE "run"]
           /\ bcnt' = bcnt \/ bcnt' = [bcnt EXCEPT ![c] = n]
    BY <1>2 DEF DispatchRound
  <2> HIDE DEF f, b
  <2>7. /\ odpq' \in [Queues -> Seq(Event)] /\ burst' \in [Cores -> Seq(Event)]
        /\ pc' \in [Cores -> Steps] /\ bcnt' \in [Cores -> Int] /\ dropped' \subseteq 1..NumEvents
    <3>1. odpq' \in [Queues -> Seq(Event)] BY <2>2, <2>5
    <3>2. burst' \in [Cores -> Seq(Event)] BY <2>2, <2>6
    <3>3. pc' \in [Cores -> Steps] BY <2>6 DEF Steps
    <3>4. bcnt' \in [Cores -> Int] BY <2>1, <2>6
    <3>5. dropped' \subseteq 1..NumEvents BY <2>4, <2>6
    <3> QED BY <3>1, <3>2, <3>3, <3>4, <3>5
  <2>8. ctx' \in [Queues -> Cores \cup {None}] BY <1>2 DEF DispatchRound
  <2>9. UNCHANGED <<agvars, state, acked, cur, atomic, mid, released, ended, sent, rcvd>>
    BY <1>2 DEF DispatchRound
  <2> QED BY <2>7, <2>8, <2>9
<1>3. ASSUME NEW c \in Cores PROVE ReleaseCtx(c) \in [Queues -> Cores \cup {None}]
  BY DEF ReleaseCtx
<1>4. ASSUME NEW c \in Cores, ScheduleNone(c) PROVE TypeOK'
  BY <1>3, <1>4 DEF ScheduleNone
<1>5. ASSUME NEW c \in Cores, AcquireIfIdle(c) PROVE TypeOK'
  <2>1. Len(burst[c]) \in Int BY Nothing
  <2>2. /\ lock' \in {1, lock} /\ ctx' \in {ctx, ReleaseCtx(c)}
        /\ bcnt' \in {bcnt, [bcnt EXCEPT ![c] = Len(burst[c])]}
        /\ \E x \in {"run", "count"} : pc' = [pc EXCEPT ![c] = x]
    BY <1>5 DEF AcquireIfIdle
  <2>3. ctx' \in [Queues -> Cores \cup {None}] BY <1>3, <2>2
  <2>5. lock' \in 0..1 /\ pc' \in [Cores -> Steps] /\ bcnt' \in [Cores -> Int]
    BY <2>1, <2>2 DEF Steps
  <2>4. UNCHANGED <<evcnt, stash, alive, attached, state, acked, odpq, burst, cur, atomic, mid,
                    released, ended, history>>
    BY <1>5 DEF AcquireIfIdle
  <2> QED BY <2>3, <2>4, <2>5
<1>6. ASSUME NEW c \in Cores, EnqCount(c) PROVE TypeOK'
  <2>1. Len(burst[c]) \in Nat BY Nothing
  <2> QED BY <1>6, <2>1 DEF EnqCount, Steps
<1>7. ASSUME NEW c \in Cores, EnqPut(c) PROVE TypeOK'
  <2> DEFINE l == PrioOf(Head(burst[c]).q)
             k == Min({Len(burst[c]), StashSize - Len(stash[l])})
             f == SubSeq(burst[c], 1, k)
             b == SubSeq(burst[c], k + 1, Len(burst[c]))
             t == stash[l] \o f
  <2>1. l \in Levels /\ k \in 0..Len(burst[c]) /\ Len(stash[l]) + k <= StashSize
    BY <1>7, PutFits DEF EnqPut
  <2>2. f \in Seq(Event) /\ b \in Seq(Event) /\ Len(f) = k
    <3> HIDE DEF k
    <3> QED BY <2>1, Cut
  <2>3. t \in Seq(Event) /\ Len(t) = Len(stash[l]) + Len(f)
    <3> HIDE DEF f
    <3> QED BY <2>1, <2>2, Join
  <2>4. Len(t) <= StashSize BY <2>1, <2>2, <2>3
  <2>5. /\ stash' = [stash EXCEPT ![l] = t] /\ burst' = [burst EXCEPT ![c] = b]
        /\ \E x \in {"uncount", "trylock"} : pc' = [pc EXCEPT ![c] = x]
        /\ UNCHANGED <<lock, evcnt, alive, attached, qvars, bcnt, cur, atomic, mid, released, ended, history>>
    BY <1>7 DEF EnqPut
  <2> HIDE DEF t, b, f, k, l
  <2>6. stash' \in [Levels -> Seq(Event)] /\ burst' \in [Cores -> Seq(Event)]
        /\ \A m \in Levels : Len(stash'[m]) <= StashSize
    BY <2>1, <2>2, <2>3, <2>4, <2>5
  <2>7. pc' \in [Cores -> Steps] BY <2>5 DEF Steps
  <2> QED BY <2>5, <2>6, <2>7
<1>8. ASSUME NEW c \in Cores, EnqError(c) PROVE TypeOK'
  <2>1. evcnt - Len(burst[c]) \in Nat BY <1>8, BurstCounted DEF EnqError, Counting
  <2>2. {burst[c][i].n : i \in DOMAIN burst[c]} \subseteq 1..NumEvents BY Nothing DEF InSeq
  <2>3. <<>> \in Seq(Event) BY Nothing
  <2> QED BY <1>8, <2>1, <2>2, <2>3 DEF EnqError, Steps
<1>9. ASSUME NEW c \in Cores, Trylock(c) PROVE TypeOK'
  <2>1. /\ lock' = 1 /\ ctx' \in {ctx, ReleaseCtx(c)}
        /\ \E x \in {"deq", "idle"} : pc' = [pc EXCEPT ![c] = x]
    BY <1>9 DEF Trylock
  <2>2. ctx' \in [Queues -> Cores \cup {None}] BY <1>3, <2>1
  <2>4. lock' \in 0..1 /\ pc' \in [Cores -> Steps] BY <2>1 DEF Steps
  <2>3. UNCHANGED <<evcnt, stash, alive, attached, state, acked, odpq, burst, bcnt, cur,
                    atomic, mid, released, ended, history>>
    BY <1>9 DEF Trylock
  <2> QED BY <2>2, <2>3, <2>4
<1>10. ASSUME NEW c \in Cores, Deq(c) PROVE TypeOK'
  <2> DEFINE h == IF attached \cap Hi # {} THEN Min({AgMaxBurst, Len(stash["hi"])}) ELSE 0
             k == Min({AgMaxBurst - h, Len(stash["lo"])})
             fh == SubSeq(stash["hi"], 1, h)
             fl == SubSeq(stash["lo"], 1, k)
             bh == SubSeq(stash["hi"], h + 1, Len(stash["hi"]))
             bl == SubSeq(stash["lo"], k + 1, Len(stash["lo"]))
  <2>1. h \in 0..Len(stash["hi"]) /\ k \in 0..Len(stash["lo"]) BY DeqFits
  <2>2. stash["hi"] \in Seq(Event) /\ stash["lo"] \in Seq(Event)
        /\ Len(stash["hi"]) <= StashSize /\ Len(stash["lo"]) <= StashSize BY DEF Levels
  <2>3. /\ fh \in Seq(Event) /\ fl \in Seq(Event) /\ bh \in Seq(Event) /\ bl \in Seq(Event)
        /\ Len(bh) = Len(stash["hi"]) - h /\ Len(bl) = Len(stash["lo"]) - k
    <3> HIDE DEF h, k
    <3> QED BY <2>1, <2>2, Cut
  <2>4. fh \o fl \in Seq(Event)
    <3> HIDE DEF fh, fl
    <3> QED BY <2>3, Join
  <2>5. Len(bh) <= StashSize /\ Len(bl) <= StashSize
    <3>1. Len(stash["hi"]) \in Nat /\ Len(stash["lo"]) \in Nat /\ StashSize \in Nat
      BY <2>2, Nothing, GroupAssumption
    <3> HIDE DEF h, k, bh, bl
    <3> QED BY SMTT(60), <2>1, <2>2, <2>3, <3>1
  <2>6. stash'["hi"] = bh /\ stash'["lo"] = bl
    <3>1. 1 + h = h + 1 /\ 1 + k = k + 1
      <4> HIDE DEF h, k
      <4> QED BY <2>1
    <3>2. stash' = [l \in Levels |-> SubSeq(stash[l], 1 + (IF l = "hi" THEN h ELSE k), Len(stash[l]))]
      BY <1>10 DEF Deq
    <3> HIDE DEF h, k
    <3> QED BY <3>1, <3>2 DEF Levels
  <2>7. /\ stash' = [l \in Levels |-> stash'[l]]
        /\ burst' = [burst EXCEPT ![c] = fh \o fl]
        /\ pc' = [pc EXCEPT ![c] = "sub"]
        /\ UNCHANGED <<lock, evcnt, alive, attached, qvars, bcnt, cur, atomic, mid, released, ended, history>>
    BY <1>10 DEF Deq
  <2> HIDE DEF h, k, fh, fl, bh, bl
  <2>8. stash' \in [Levels -> Seq(Event)] /\ \A l \in Levels : Len(stash'[l]) <= StashSize
    BY <2>3, <2>5, <2>6, <2>7 DEF Levels
  <2>9. burst' \in [Cores -> Seq(Event)] /\ pc' \in [Cores -> Steps] BY <2>4, <2>7 DEF Steps
  <2> QED BY <2>7, <2>8, <2>9
<1>11. ASSUME NEW c \in Cores, DeqCount(c) PROVE TypeOK'
  <2>1. evcnt - Len(burst[c]) \in Nat BY <1>11, BurstCounted DEF DeqCount, Counting
  <2>2. Len(burst[c]) \in Int BY Nothing
  <2> QED BY <1>11, <2>1, <2>2 DEF DeqCount, Steps
<1>12. ASSUME NEW c \in Cores, Unlock(c) PROVE TypeOK'
  BY <1>12 DEF Unlock, Steps
<1>13. ASSUME NEW c \in Cores, Receive(c) PROVE TypeOK'
  <2> DEFINE s == burst[c]
             n == BatchSize(s)
  <2>1. s \in Seq(Event) /\ s # <<>> BY <1>13 DEF BurstInv, CoreOK, Receive
  <2>2. CountSame(s) \in 1..Len(s) /\ n \in 1..Len(s) BY <2>1, BatchFits
  <2>3. Len(s) \in Nat /\ DOMAIN s = 1..Len(s) BY <2>1, LenProperties
  <2>4. n \in 0..Len(s) /\ n \in Int /\ 1 \in DOMAIN s /\ \A i \in 1..n : i \in DOMAIN s
    BY <2>2, <2>3
  <2>5. SubSeq(s, n + 1, Len(s)) \in Seq(Event)
    <3> HIDE DEF n, s
    <3> QED BY <2>1, <2>4, Cut
  <2>6. s[1].q \in Queues /\ {s[i] : i \in 1..n} \subseteq Event
    <3> HIDE DEF n, s
    <3> QED BY <2>1, <2>4, Nothing
  <2>7. BurstLeft(c) \in Int BY <2>4 DEF BurstLeft
  <2>8. (s[1].q \in Multi /\ n < CountSame(s)) \in BOOLEAN OBVIOUS
  <2>9. /\ burst' = [burst EXCEPT ![c] = SubSeq(s, n + 1, Len(s))]
        /\ bcnt' = [bcnt EXCEPT ![c] = BurstLeft(c)]
        /\ cur' = [cur EXCEPT ![c] = s[1].q]
        /\ pc' = [pc EXCEPT ![c] = "rcv"]
        /\ rcvd' = rcvd \cup {s[i] : i \in 1..n}
    BY <1>13 DEF Receive
  <2>10. /\ atomic' \in [Cores -> BOOLEAN] /\ mid' \in [Cores -> BOOLEAN]
         /\ ended' \in [Cores -> BOOLEAN]
    BY <1>13 DEF Receive
  <2>11. UNCHANGED <<agvars, qvars, released, sent, dropped>> BY <1>13 DEF Receive
  <2> HIDE DEF n, s
  <2>12. /\ burst' \in [Cores -> Seq(Event)] /\ bcnt' \in [Cores -> Int]
         /\ cur' \in [Cores -> Queues \cup {None}] /\ pc' \in [Cores -> Steps] /\ rcvd' \subseteq Event
    BY <2>5, <2>6, <2>7, <2>9 DEF Steps
  <2> QED BY <2>10, <2>11, <2>12
<1>14. ASSUME NEW c \in Cores, ProcessingEnd(c) PROVE TypeOK'
  <2>1. /\ lock' \in {0, lock} /\ ctx' \in {ctx, ReleaseCtx(c)}
        /\ released' \in {released, [released EXCEPT ![c] = TRUE]}
        /\ atomic' = [atomic EXCEPT ![c] = FALSE] /\ ended' = [ended EXCEPT ![c] = TRUE]
    BY <1>14 DEF ProcessingEnd
  <2>2. ctx' \in [Queues -> Cores \cup {None}] BY <1>3, <2>1
  <2>3. UNCHANGED <<evcnt, stash, alive, attached, state, acked, odpq, pc, burst, bcnt, cur,
                    mid, history>>
    BY <1>14 DEF ProcessingEnd
  <2>4. released' \in [Cores -> BOOLEAN] BY <2>1
  <2>5. lock' \in 0..1 /\ atomic' \in [Cores -> BOOLEAN] /\ ended' \in [Cores -> BOOLEAN] BY <2>1
  <2> QED BY <2>2, <2>3, <2>4, <2>5
<1>15. ASSUME NEW c \in Cores, ReceiveDone(c) PROVE TypeOK'
  BY <1>15 DEF ReceiveDone, Steps
<1>16. ASSUME NEW Q \in Stoppable, StopQueues(Q) PROVE TypeOK'
  BY <1>16 DEF StopQueues, QStates
<1>17. ASSUME NEW Q \in Stoppable, NEW c \in Cores, AckStop(c, Q) PROVE TypeOK'
  BY <1>17 DEF AckStop, QStates
<1>18. ASSUME NEW q \in Queues, QueueDelete(q) PROVE TypeOK'
  BY <1>18 DEF QueueDelete, QStates
<1>19. CASE GroupDelete
  <2>1. UNION {{stash[l][i].n : i \in DOMAIN stash[l]} : l \in Levels} \subseteq 1..NumEvents
    BY Nothing DEF InSeq
  <2>2. <<>> \in Seq(Event) /\ Len(<<>>) <= StashSize BY Nothing, GroupAssumption
  <2> QED BY <1>19, <2>1, <2>2 DEF GroupDelete
<1>20. CASE UNCHANGED vars
  BY <1>20 DEF vars
<1> QED
  BY <1>1, <1>2, <1>3, <1>4, <1>5, <1>6, <1>7, <1>8, <1>9, <1>10, <1>11, <1>12, <1>13, <1>14,
     <1>15, <1>16, <1>17, <1>18, <1>19, <1>20 DEF Next, CoreStep

-----------------------------------------------------------------------------
(* Where the cores are and what they have in hand. *)

\* A step of one core leaves the local data of the others alone.
LEMMA OnlyOwn ==
  ASSUME TypeOK, NEW c \in Cores, CoreStep(c) \/ ProcessingEnd(c), NEW d \in Cores, d # c
  PROVE  /\ pc'[d] = pc[d] /\ burst'[d] = burst[d] /\ bcnt'[d] = bcnt[d] /\ cur'[d] = cur[d]
         /\ mid'[d] = mid[d] /\ released'[d] = released[d] /\ ended'[d] = ended[d]
<1> DEFINE Same ==
      /\ pc'[d] = pc[d] /\ burst'[d] = burst[d] /\ bcnt'[d] = bcnt[d] /\ cur'[d] = cur[d]
      /\ mid'[d] = mid[d] /\ released'[d] = released[d] /\ ended'[d] = ended[d]
<1> USE DEF TypeOK, corevars
<1>1. ASSUME NEW q \in Queues, NEW n \in 1..MaxBurst, DispatchRound(c, q, n) PROVE Same
  BY <1>1 DEF DispatchRound
<1>2. CASE AcquireIfIdle(c) BY <1>2 DEF AcquireIfIdle
<1>3. CASE EnqCount(c) BY <1>3 DEF EnqCount
<1>4. CASE EnqPut(c) BY <1>4 DEF EnqPut
<1>5. CASE EnqError(c) BY <1>5 DEF EnqError
<1>6. CASE Trylock(c) BY <1>6 DEF Trylock
<1>7. CASE Deq(c) BY <1>7 DEF Deq
<1>8. CASE DeqCount(c) BY <1>8 DEF DeqCount
<1>9. CASE Receive(c) BY <1>9 DEF Receive
<1>10. CASE ReceiveDone(c) BY <1>10 DEF ReceiveDone
<1>11. CASE Unlock(c) BY <1>11 DEF Unlock
<1>12. CASE ProcessingEnd(c) BY <1>12 DEF ProcessingEnd
<1>13. CASE ScheduleNone(c) BY <1>13 DEF ScheduleNone
<1> QED
  BY <1>1, <1>2, <1>3, <1>4, <1>5, <1>6, <1>7, <1>8, <1>9, <1>10, <1>11, <1>12, <1>13 DEF CoreStep

\* Every action keeps the events where they belong.
LEMMA BurstStep ==
  ASSUME TypeOK, BurstInv, [Next]_vars
  PROVE  BurstInv'
<1> USE DEF TypeOK
<1> DEFINE OK(c) == CoreOK(pc[c], burst[c], cur[c], released[c])
<1>1. ASSUME NEW c \in Cores, CoreStep(c) \/ ProcessingEnd(c), OK(c)',
             \A q \in Queues : AllIn(odpq'[q], {q}), \A l \in Levels : AllIn(stash'[l], Group)
      PROVE  BurstInv'
  <2>1. ASSUME NEW d \in Cores, d # c PROVE OK(d)'
    BY <1>1, <2>1, OnlyOwn DEF BurstInv
  <2> QED BY <1>1, <2>1 DEF BurstInv
<1>2. \A q \in Queues : AllIn(odpq[q], {q}) BY DEF BurstInv
<1>3. \A l \in Levels : AllIn(stash[l], Group) BY DEF BurstInv
<1>4. \A c \in Cores : OK(c) BY DEF BurstInv
<1>5. ASSUME NEW q \in Queues, NEW g \in Tags, Send(q, g) PROVE BurstInv'
  <2> DEFINE e == [n |-> sent + 1, q |-> q, g |-> g]
  <2>1. e \in Event BY <1>5, GroupAssumption DEF Send, Event
  <2>2. e.q = q OBVIOUS
  <2>3. odpq' = [odpq EXCEPT ![q] = Append(odpq[q], e)] /\ UNCHANGED <<stash, pc, burst, cur, released>>
    BY <1>5 DEF Send, agvars, corevars
  <2> HIDE DEF e
  <2>4. AllIn(Append(odpq[q], e), {q}) BY <1>2, <2>1, <2>2, AppendProperties DEF AllIn
  <2>5. \A r \in Queues : AllIn(odpq'[r], {r}) BY <1>2, <2>3, <2>4
  <2> QED BY <1>3, <1>4, <2>3, <2>5 DEF BurstInv
<1>6. ASSUME NEW c \in Cores, NEW q \in Queues, NEW n \in 1..MaxBurst, DispatchRound(c, q, n) PROVE BurstInv'
  <2> DEFINE f == SubSeq(odpq[q], 1, n)
             b == SubSeq(odpq[q], n + 1, Len(odpq[q]))
  <2>1. n \in 1..Len(odpq[q]) /\ n \in 0..Len(odpq[q]) /\ n # 0 BY <1>6 DEF DispatchRound
  <2>2. f \in Seq(Event) /\ Len(f) = n /\ AllIn(f, {q}) /\ AllIn(b, {q}) BY <1>2, <2>1, Cut
  <2>3. /\ odpq' = [odpq EXCEPT ![q] = b] /\ UNCHANGED <<stash, cur, released>> /\ pc[c] = "idle"
        /\ \/ UNCHANGED <<pc, burst>>
           \/ /\ burst' = [burst EXCEPT ![c] = f]
              /\ pc' = [pc EXCEPT ![c] = IF q \in Group THEN "acquire" ELSE "run"]
    BY <1>6 DEF DispatchRound, agvars
  <2> HIDE DEF f, b
  <2>4. f # <<>> BY <2>1, <2>2, Nothing
  <2>5. AllIn(f, Group) \/ AllIn(f, Queues \ Group) BY <2>2 DEF AllIn
  <2>6. q \in Group => AllIn(f, Group) BY <2>2 DEF AllIn
  <2>7. OK(c)'
    <3>1. CASE UNCHANGED <<pc, burst>> BY <1>4, <2>3, <3>1
    <3>2. CASE /\ burst' = [burst EXCEPT ![c] = f]
               /\ pc' = [pc EXCEPT ![c] = IF q \in Group THEN "acquire" ELSE "run"]
      <4>1. burst'[c] = f /\ pc'[c] = (IF q \in Group THEN "acquire" ELSE "run") BY <3>2
      <4>2. cur'[c] = None /\ ~released'[c] BY <1>4, <2>3 DEF CoreOK
      <4> QED BY <2>4, <2>5, <2>6, <4>1, <4>2 DEF CoreOK
    <3> QED BY <2>3, <3>1, <3>2
  <2>8. \A r \in Queues : AllIn(odpq'[r], {r}) BY <1>2, <2>2, <2>3
  <2>9. CoreStep(c) BY <1>6 DEF CoreStep
  <2>10. \A l \in Levels : AllIn(stash'[l], Group) BY <1>3, <2>3
  <2> QED BY <1>1, <2>7, <2>8, <2>9, <2>10
<1>7. ASSUME NEW c \in Cores, ScheduleNone(c) PROVE BurstInv'
  BY <1>7 DEF ScheduleNone, agvars, corevars, BurstInv
<1>8. ASSUME NEW c \in Cores, AcquireIfIdle(c) PROVE BurstInv'
  <2>1. UNCHANGED <<odpq, stash, burst, cur, released>> /\ pc[c] = "acquire" /\ pc'[c] \in {"run", "count"}
    BY <1>8 DEF AcquireIfIdle
  <2>2. OK(c)' BY <1>4, <2>1 DEF CoreOK
  <2> QED BY <1>1, <1>2, <1>3, <1>8, <2>1, <2>2 DEF CoreStep
<1>9. ASSUME NEW c \in Cores, EnqCount(c) PROVE BurstInv'
  <2>1. UNCHANGED <<odpq, stash, burst, cur, released>> /\ pc[c] = "count" /\ pc'[c] = "put"
    BY <1>9 DEF EnqCount, qvars
  <2>2. OK(c)' BY <1>4, <2>1 DEF CoreOK
  <2> QED BY <1>1, <1>2, <1>3, <1>9, <2>1, <2>2 DEF CoreStep
<1>10. ASSUME NEW c \in Cores, EnqPut(c) PROVE BurstInv'
  <2> DEFINE l == PrioOf(Head(burst[c]).q)
             k == Min({Len(burst[c]), StashSize - Len(stash[l])})
             f == SubSeq(burst[c], 1, k)
             b == SubSeq(burst[c], k + 1, Len(burst[c]))
  <2>0. l \in Levels /\ k \in 0..Len(burst[c]) BY <1>10, PutFits DEF EnqPut
  <2>1. pc[c] = "put" /\ AllIn(burst[c], Group) /\ cur[c] = None /\ ~released[c]
    BY <1>4, <1>10 DEF EnqPut, CoreOK
  <2>2. /\ stash' = [stash EXCEPT ![l] = @ \o f] /\ burst' = [burst EXCEPT ![c] = b]
        /\ pc' = [pc EXCEPT ![c] = IF k < Len(burst[c]) THEN "uncount" ELSE "trylock"]
        /\ UNCHANGED <<odpq, cur, released>>
    BY <1>10 DEF EnqPut, qvars
  <2> HIDE DEF l, k
  <2>3. /\ f \in Seq(Event) /\ b \in Seq(Event) /\ Len(b) = Len(burst[c]) - k
        /\ AllIn(f, Group) /\ AllIn(b, Group)
    BY <2>0, <2>1, Cut
  <2> HIDE DEF f, b
  <2>4. AllIn(stash[l] \o f, Group) BY <1>3, <2>0, <2>3, Join
  <2>5. \A m \in Levels : AllIn(stash'[m], Group) BY <1>3, <2>0, <2>2, <2>4
  <2>6. IF k < Len(burst[c]) THEN b # <<>> ELSE b = <<>>
    <3>1. Len(burst[c]) \in Nat /\ (Len(b) = 0 <=> b = <<>>) BY <2>3, Nothing
    <3> QED BY <2>0, <2>3, <3>1
  <2>7. burst'[c] = b /\ pc'[c] = (IF k < Len(burst[c]) THEN "uncount" ELSE "trylock")
        /\ cur'[c] = None /\ ~released'[c]
    BY <2>1, <2>2
  <2>8. OK(c)' BY <2>3, <2>6, <2>7 DEF CoreOK
  <2> QED BY <1>1, <1>2, <1>10, <2>2, <2>5, <2>8 DEF CoreStep
<1>11. ASSUME NEW c \in Cores, EnqError(c) PROVE BurstInv'
  <2>1. /\ UNCHANGED <<odpq, stash, cur, released>> /\ pc[c] = "uncount"
        /\ pc'[c] = "trylock" /\ burst'[c] = <<>>
    BY <1>11 DEF EnqError, qvars
  <2>2. OK(c)' BY <1>4, <2>1, Nothing DEF CoreOK
  <2> QED BY <1>1, <1>2, <1>3, <1>11, <2>1, <2>2 DEF CoreStep
<1>12. ASSUME NEW c \in Cores, Trylock(c) PROVE BurstInv'
  <2>1. UNCHANGED <<odpq, stash, burst, cur, released>> /\ pc[c] = "trylock" /\ pc'[c] \in {"deq", "idle"}
    BY <1>12 DEF Trylock
  <2>2. OK(c)' BY <1>4, <2>1 DEF CoreOK
  <2> QED BY <1>1, <1>2, <1>3, <1>12, <2>1, <2>2 DEF CoreStep
<1>13. ASSUME NEW c \in Cores, Deq(c) PROVE BurstInv'
  <2> DEFINE h == IF attached \cap Hi # {} THEN Min({AgMaxBurst, Len(stash["hi"])}) ELSE 0
             k == Min({AgMaxBurst - h, Len(stash["lo"])})
             fh == SubSeq(stash["hi"], 1, h)
             fl == SubSeq(stash["lo"], 1, k)
             bh == SubSeq(stash["hi"], h + 1, Len(stash["hi"]))
             bl == SubSeq(stash["lo"], k + 1, Len(stash["lo"]))
  <2>1. h \in 0..Len(stash["hi"]) /\ k \in 0..Len(stash["lo"]) BY DeqFits
  <2>2. /\ stash["hi"] \in Seq(Event) /\ stash["lo"] \in Seq(Event)
        /\ AllIn(stash["hi"], Group) /\ AllIn(stash["lo"], Group)
    BY <1>3 DEF Levels
  <2>3. /\ fh \in Seq(Event) /\ fl \in Seq(Event) /\ AllIn(fh, Group) /\ AllIn(fl, Group)
        /\ AllIn(bh, Group) /\ AllIn(bl, Group)
    <3> HIDE DEF h, k
    <3> QED BY <2>1, <2>2, Cut
  <2>4. AllIn(fh \o fl, Group)
    <3> HIDE DEF fh, fl
    <3> QED BY <2>3, Join
  <2>5. stash'["hi"] = bh /\ stash'["lo"] = bl
    <3>1. 1 + h = h + 1 /\ 1 + k = k + 1
      <4> HIDE DEF h, k
      <4> QED BY <2>1
    <3>2. stash' = [l \in Levels |-> SubSeq(stash[l], 1 + (IF l = "hi" THEN h ELSE k), Len(stash[l]))]
      BY <1>13 DEF Deq
    <3> HIDE DEF h, k
    <3> QED BY <3>1, <3>2 DEF Levels
  <2>6. /\ burst'[c] = fh \o fl /\ pc[c] = "deq" /\ pc'[c] = "sub" /\ UNCHANGED <<odpq, cur, released>>
    BY <1>13 DEF Deq, qvars
  <2> HIDE DEF h, k, fh, fl, bh, bl
  <2>7. OK(c)' BY <1>4, <2>4, <2>6 DEF CoreOK
  <2>8. \A l \in Levels : AllIn(stash'[l], Group) BY <2>3, <2>5 DEF Levels
  <2> QED BY <1>1, <1>2, <1>13, <2>6, <2>7, <2>8 DEF CoreStep
<1>14. ASSUME NEW c \in Cores, DeqCount(c) PROVE BurstInv'
  <2>1. /\ UNCHANGED <<odpq, stash, burst, cur, released>> /\ pc[c] = "sub"
        /\ pc'[c] = IF burst[c] = <<>> THEN "unlock" ELSE "run"
    BY <1>14 DEF DeqCount, qvars
  <2>2. OK(c)' BY <1>4, <2>1 DEF CoreOK
  <2> QED BY <1>1, <1>2, <1>3, <1>14, <2>1, <2>2 DEF CoreStep
<1>15. ASSUME NEW c \in Cores, Unlock(c) PROVE BurstInv'
  <2>1. UNCHANGED <<odpq, stash, burst, cur>> /\ pc[c] = "unlock" /\ ~released'[c] /\ pc'[c] \in {"deq", "idle"}
    BY <1>15 DEF Unlock, qvars
  <2>2. OK(c)' BY <1>4, <2>1 DEF CoreOK
  <2> QED BY <1>1, <1>2, <1>3, <1>15, <2>1, <2>2 DEF CoreStep
<1>16. ASSUME NEW c \in Cores, Receive(c) PROVE BurstInv'
  <2> DEFINE s == burst[c]
             n == BatchSize(s)
             b == SubSeq(s, n + 1, Len(s))
  <2>1. s \in Seq(Event) /\ s # <<>> /\ pc[c] = "run" BY <1>4, <1>16 DEF CoreOK, Receive
  <2>2. n \in 1..Len(s) BY <2>1, BatchFits
  <2>3. Len(s) \in Nat /\ DOMAIN s = 1..Len(s) BY <2>1, LenProperties
  <2>4. /\ burst'[c] = b /\ cur'[c] = s[1].q /\ pc'[c] = "rcv"
        /\ UNCHANGED <<odpq, stash, released>>
    BY <1>16 DEF Receive, agvars, qvars
  <2> HIDE DEF n, s
  <2>5. n \in 0..Len(s) /\ 1 \in DOMAIN s BY <2>2, <2>3
  <2>6. s[1].q \in Queues BY <2>1, <2>5, Nothing
  <2>7. \A Q : AllIn(s, Q) => AllIn(b, Q) BY <2>1, <2>5, Cut
  <2>8. b \in Seq(Event) BY <2>1, <2>5, Cut
  <2> HIDE DEF b
  <2>9. /\ AllIn(s, Group) \/ AllIn(s, Queues \ Group)
        /\ released[c] => AllIn(s, Group)
    BY <1>4, <2>1 DEF CoreOK, s
  <2>10. \A Q : AllIn(s, Q) => s[1].q \in Q BY <2>5 DEF AllIn
  <2>11. ASSUME b # <<>>, AllIn(b, Group) PROVE ~AllIn(b, Queues \ Group)
    <3>1. 1 \in DOMAIN b
      <4>1. Len(b) \in Nat /\ Len(b) # 0 /\ DOMAIN b = 1..Len(b)
        BY <2>8, <2>11, Nothing, LenProperties
      <4> QED BY <4>1
    <3> QED BY <2>11, <3>1 DEF AllIn
  <2>12. AllIn(s, Group) => s[1].q \in Group /\ AllIn(b, Group) BY <2>7, <2>10
  <2>13. AllIn(s, Queues \ Group) => s[1].q \notin Group /\ AllIn(b, Queues \ Group) BY <2>7, <2>10
  <2>14. OK(c)' BY <2>4, <2>6, <2>9, <2>11, <2>12, <2>13 DEF CoreOK
  <2> QED BY <1>1, <1>2, <1>3, <1>16, <2>4, <2>14 DEF CoreStep
<1>17. ASSUME NEW c \in Cores, ProcessingEnd(c) PROVE BurstInv'
  <2>1. /\ UNCHANGED <<odpq, stash, burst, cur, pc>> /\ pc[c] = "rcv"
        /\ cur[c] \in Group \/ released'[c] = released[c]
    BY <1>17 DEF ProcessingEnd
  <2>2. OK(c)' BY <1>4, <2>1 DEF CoreOK
  <2> QED BY <1>1, <1>2, <1>3, <1>17, <2>1, <2>2
<1>18. ASSUME NEW c \in Cores, ReceiveDone(c) PROVE BurstInv'
  <2>1. /\ UNCHANGED <<odpq, stash, burst, released>> /\ pc[c] = "rcv"
        /\ pc'[c] = IF burst[c] # <<>> THEN "run" ELSE IF cur[c] \in Group THEN "unlock" ELSE "idle"
        /\ cur'[c] = IF burst[c] = <<>> THEN None ELSE cur[c]
    BY <1>18 DEF ReceiveDone, agvars, qvars
  <2>2. OK(c)' BY <1>4, <2>1, Nothing DEF CoreOK
  <2> QED BY <1>1, <1>2, <1>3, <1>18, <2>1, <2>2 DEF CoreStep
<1>19. CASE GroupDelete
  <2>1. UNCHANGED <<odpq, burst, cur, released, pc>> /\ \A l \in Levels : stash'[l] = <<>>
    BY <1>19 DEF GroupDelete, qvars, corevars
  <2> QED BY <1>2, <1>4, <2>1, Nothing DEF BurstInv
<1>20. ASSUME UNCHANGED <<odpq, stash, burst, cur, released, pc>> PROVE BurstInv'
  BY <1>20 DEF BurstInv
<1>21. ASSUME NEW Q \in Stoppable, StopQueues(Q) \/ \E c \in Cores : AckStop(c, Q) PROVE BurstInv'
  BY <1>20, <1>21 DEF StopQueues, AckStop, agvars, corevars
<1>22. ASSUME NEW q \in Queues, QueueDelete(q) PROVE BurstInv'
  BY <1>20, <1>22 DEF QueueDelete, corevars
<1>23. CASE UNCHANGED vars BY <1>20, <1>23 DEF vars, agvars, qvars, corevars
<1> QED
  BY <1>5, <1>6, <1>7, <1>8, <1>9, <1>10, <1>11, <1>12, <1>13, <1>14, <1>15, <1>16, <1>17,
     <1>18, <1>19, <1>21, <1>22, <1>23 DEF Next, CoreStep

-----------------------------------------------------------------------------
(* The dispatch lock. *)

\* The first event of a burst tells whose burst it is.
LEMMA WhoseBurst ==
  ASSUME NEW b \in Seq(Event), b # <<>>, AllIn(b, Group) \/ AllIn(b, Queues \ Group)
  PROVE  b[1].q \in Group <=> AllIn(b, Group)
<1>1. Len(b) \in Nat /\ Len(b) # 0 /\ DOMAIN b = 1..Len(b) BY Nothing, LenProperties
<1>2. 1 \in DOMAIN b BY <1>1
<1> QED BY <1>2 DEF AllIn

\* A step of core c keeps LockInv if it keeps the lock as it was, takes the free
\* lock or frees the lock it holds.
LEMMA LockChange ==
  ASSUME TypeOK, LockInv, NEW c \in Cores,
         \A d \in Cores \ {c} : HoldsLock(d)' <=> HoldsLock(d),
         \/ lock' = lock /\ (HoldsLock(c)' <=> HoldsLock(c))
         \/ lock = 0 /\ lock' = 1 /\ HoldsLock(c)'
         \/ HoldsLock(c) /\ lock' = 0 /\ ~HoldsLock(c)'
  PROVE  LockInv'
<1> DEFINE H(d) == HoldsLock(d)
<1>1. \A d, e \in Cores : H(d) /\ H(e) => d = e BY DEF LockInv
<1>2. lock = 1 <=> \E d \in Cores : H(d) BY DEF LockInv
<1>3. \A d \in Cores : d # c => (H(d)' <=> H(d)) OBVIOUS
<1>4. lock \in {0, 1} BY DEF TypeOK
<1>5. LockInv' <=> /\ \A d, e \in Cores : H(d)' /\ H(e)' => d = e
                   /\ lock' = 1 <=> \E d \in Cores : H(d)'
  BY DEF LockInv
<1>6. CASE lock' = lock /\ (H(c)' <=> H(c))
  <2>1. \A d \in Cores : H(d)' <=> H(d) BY <1>3, <1>6
  <2> HIDE DEF H
  <2> QED BY <1>1, <1>2, <1>5, <1>6, <2>1
<1>7. CASE lock = 0 /\ lock' = 1 /\ H(c)'
  <2> HIDE DEF H
  <2>1. \A d \in Cores : ~H(d) BY <1>2, <1>7
  <2>2. \A d \in Cores : H(d)' => d = c BY <1>3, <2>1
  <2> QED BY <1>5, <1>7, <2>2
<1>8. CASE H(c) /\ lock' = 0 /\ ~H(c)'
  <2> HIDE DEF H
  <2>1. \A d \in Cores : ~H(d)' BY <1>1, <1>3, <1>8
  <2> QED BY <1>5, <1>8, <2>1
<1> QED BY <1>6, <1>7, <1>8

\* Every action keeps LockInv.
LEMMA LockStep ==
  ASSUME TypeOK, TypeOK', BurstInv, BurstInv', LockInv, [Next]_vars
  PROVE  LockInv'
<1> DEFINE G(p, b, q, r) ==
      /\ p \in {"deq", "sub", "unlock"} \/ (p = "run" /\ AllIn(b, Group)) \/ (p = "rcv" /\ q \in Group)
      /\ ~r
           H(c) == G(pc[c], burst[c], cur[c], released[c])
           OK(c) == CoreOK(pc[c], burst[c], cur[c], released[c])
<1>1. ASSUME NEW c \in Cores PROVE HoldsLock(c) <=> H(c)
  <2>1. burst[c] \in Seq(Event) /\ OK(c) BY DEF TypeOK, BurstInv
  <2>2. pc[c] = "run" => (burst[c][1].q \in Group <=> AllIn(burst[c], Group))
    BY <2>1, WhoseBurst DEF CoreOK
  <2> QED BY <2>2 DEF HoldsLock
<1>2. ASSUME NEW c \in Cores PROVE HoldsLock(c)' <=> H(c)'
  <2>1. burst'[c] \in Seq(Event) /\ OK(c)' BY DEF TypeOK, BurstInv
  <2>2. pc'[c] = "run" => (burst'[c][1].q \in Group <=> AllIn(burst'[c], Group))
    BY <2>1, WhoseBurst DEF CoreOK
  <2> QED BY <2>2 DEF HoldsLock
<1>3. ASSUME NEW c \in Cores, CoreStep(c) \/ ProcessingEnd(c),
             \/ lock' = lock /\ (H(c)' <=> H(c))
             \/ lock = 0 /\ lock' = 1 /\ H(c)'
             \/ H(c) /\ lock' = 0 /\ ~H(c)'
      PROVE  LockInv'
  <2>1. \A d \in Cores \ {c} : H(d)' <=> H(d) BY <1>3, OnlyOwn
  <2> HIDE DEF H
  <2> QED BY <1>1, <1>2, <1>3, <2>1, LockChange
<1>4. \A c \in Cores : OK(c) BY DEF BurstInv
<1>5. \A c \in Cores : OK(c)' BY DEF BurstInv
<1>6. \A c \in Cores : H(c) => lock = 1 BY <1>1 DEF LockInv
<1> USE DEF TypeOK
<1>7. ASSUME UNCHANGED <<lock, pc, burst, cur, released>> PROVE LockInv'
  BY <1>7 DEF LockInv, HoldsLock
<1>8. ASSUME NEW c \in Cores, NEW q \in Queues, NEW n \in 1..MaxBurst, DispatchRound(c, q, n) PROVE LockInv'
  <2> DEFINE f == SubSeq(odpq[q], 1, n)
  <2>1. n \in 1..Len(odpq[q]) /\ n \in 0..Len(odpq[q]) /\ n # 0 BY <1>8 DEF DispatchRound
  <2>2. f \in Seq(Event) /\ Len(f) = n /\ AllIn(f, {q}) BY <2>1, Cut DEF BurstInv
  <2>3. /\ UNCHANGED <<lock, cur, released>> /\ pc[c] = "idle"
        /\ \/ UNCHANGED <<pc, burst>>
           \/ burst'[c] = f /\ pc'[c] = IF q \in Group THEN "acquire" ELSE "run"
    BY <1>8 DEF DispatchRound, agvars
  <2> HIDE DEF f
  <2>4. f # <<>> BY <2>1, <2>2, Nothing
  <2>5. AllIn(f, Queues \ Group) \/ q \in Group BY <2>2 DEF AllIn
  <2>6. f[1].q \in {q} /\ (q \notin Group => ~AllIn(f, Group))
    <3>1. DOMAIN f = 1..n BY <2>2, LenProperties
    <3>2. 1 \in DOMAIN f BY <2>1, <3>1
    <3> QED BY <2>2, <3>2 DEF AllIn
  <2>7. ~H(c) /\ ~H(c)' BY <2>3, <2>6
  <2> QED BY <1>3, <1>8, <2>3, <2>7 DEF CoreStep
<1>9. ASSUME NEW c \in Cores, ScheduleNone(c) PROVE LockInv'
  BY <1>7, <1>9 DEF ScheduleNone, agvars, corevars
<1>10. ASSUME NEW c \in Cores, AcquireIfIdle(c) PROVE LockInv'
  <2>1. /\ UNCHANGED <<burst, cur, released>> /\ pc[c] = "acquire"
        /\ \/ lock = 0 /\ lock' = 1 /\ pc'[c] = "run"
           \/ lock' = lock /\ pc'[c] = "count"
    BY <1>10 DEF AcquireIfIdle
  <2>2. AllIn(burst[c], Group) /\ ~released[c] BY <1>4, <2>1 DEF CoreOK
  <2> QED BY <1>3, <1>10, <2>1, <2>2 DEF CoreStep
<1>11. ASSUME NEW c \in Cores, EnqCount(c) \/ EnqPut(c) \/ EnqError(c) PROVE LockInv'
  <2>1. /\ lock' = lock /\ pc[c] \in {"count", "put", "uncount"}
        /\ pc'[c] \in {"put", "uncount", "trylock"}
    BY <1>11 DEF EnqCount, EnqPut, EnqError
  <2>2. ~H(c) /\ ~H(c)' BY <2>1
  <2> QED BY <1>3, <1>11, <2>1, <2>2 DEF CoreStep
<1>12. ASSUME NEW c \in Cores, Trylock(c) PROVE LockInv'
  <2>1. /\ UNCHANGED <<burst, cur, released>> /\ pc[c] = "trylock" /\ lock' = 1
        /\ \/ lock = 0 /\ pc'[c] = "deq"
           \/ lock = 1 /\ pc'[c] = "idle"
    BY <1>12 DEF Trylock
  <2>2. ~released[c] BY <1>4, <2>1 DEF CoreOK
  <2> QED BY <1>3, <1>12, <2>1, <2>2 DEF CoreStep
<1>13. ASSUME NEW c \in Cores, Deq(c) PROVE LockInv'
  <2>1. UNCHANGED <<lock, released>> /\ pc[c] = "deq" /\ pc'[c] = "sub" BY <1>13 DEF Deq
  <2> QED BY <1>3, <1>13, <2>1 DEF CoreStep
<1>14. ASSUME NEW c \in Cores, DeqCount(c) PROVE LockInv'
  <2>1. UNCHANGED <<lock, burst, released>> /\ pc[c] = "sub" /\ pc'[c] \in {"unlock", "run"}
    BY <1>14 DEF DeqCount
  <2>2. AllIn(burst[c], Group) BY <1>4, <2>1 DEF CoreOK
  <2> QED BY <1>3, <1>14, <2>1, <2>2 DEF CoreStep
<1>15. ASSUME NEW c \in Cores, Unlock(c) PROVE LockInv'
  <2> DEFINE done == IF released[c] THEN lock = 1 \/ evcnt = 0 ELSE evcnt = 0
  <2>1. /\ pc[c] = "unlock" /\ ~released'[c]
        /\ lock' = IF done THEN (IF released[c] THEN lock ELSE 0) ELSE 1
        /\ pc'[c] = IF done THEN "idle" ELSE "deq"
    BY <1>15 DEF Unlock
  <2>2. CASE ~released[c]
    <3>1. H(c) /\ lock = 1 BY <1>6, <2>1, <2>2
    <3>2. \/ lock' = 0 /\ pc'[c] = "idle"
          \/ lock' = 1 /\ pc'[c] = "deq"
      BY <2>1, <2>2
    <3>3. \/ lock' = lock /\ (H(c)' <=> H(c))
          \/ H(c) /\ lock' = 0 /\ ~H(c)'
      BY <2>1, <3>1, <3>2
    <3> QED BY <1>3, <1>15, <3>3 DEF CoreStep
  <2>3. CASE released[c]
    <3>1. \/ lock' = lock /\ pc'[c] = "idle"
          \/ lock = 0 /\ lock' = 1 /\ pc'[c] = "deq"
      BY <2>1, <2>3
    <3>2. \/ lock' = lock /\ (H(c)' <=> H(c))
          \/ lock = 0 /\ lock' = 1 /\ H(c)'
      BY <2>1, <2>3, <3>1
    <3> QED BY <1>3, <1>15, <3>2 DEF CoreStep
  <2> QED BY <2>2, <2>3
<1>16. ASSUME NEW c \in Cores, Receive(c) PROVE LockInv'
  <2>1. UNCHANGED <<lock, released>> /\ pc[c] = "run" /\ pc'[c] = "rcv" /\ cur'[c] = burst[c][1].q
    BY <1>16 DEF Receive, agvars
  <2>2. burst[c][1].q \in Group <=> AllIn(burst[c], Group) BY <1>4, <2>1, WhoseBurst DEF CoreOK
  <2> QED BY <1>3, <1>16, <2>1, <2>2 DEF CoreStep
<1>17. ASSUME NEW c \in Cores, ProcessingEnd(c) PROVE LockInv'
  <2>1. /\ UNCHANGED <<pc, burst, cur>> /\ pc[c] = "rcv"
        /\ \/ cur[c] \in Group /\ lock' = (IF released[c] THEN lock ELSE 0) /\ released'[c]
           \/ cur[c] \notin Group /\ lock' = lock
    BY <1>17 DEF ProcessingEnd
  <2>2. \/ lock' = lock /\ (H(c)' <=> H(c))
        \/ H(c) /\ lock' = 0 /\ ~H(c)'
    BY <2>1
  <2> QED BY <1>3, <1>17, <2>2
<1>18. ASSUME NEW c \in Cores, ReceiveDone(c) PROVE LockInv'
  <2>1. /\ UNCHANGED <<lock, burst, released>> /\ pc[c] = "rcv"
        /\ pc'[c] = IF burst[c] # <<>> THEN "run" ELSE IF cur[c] \in Group THEN "unlock" ELSE "idle"
    BY <1>18 DEF ReceiveDone, agvars
  <2>2. burst[c] # <<>> => (AllIn(burst[c], Group) <=> cur[c] \in Group) BY <1>4, <2>1 DEF CoreOK
  <2>3. H(c)' <=> H(c) BY <2>1, <2>2
  <2> QED BY <1>3, <1>18, <2>1, <2>3 DEF CoreStep
<1>19. ASSUME NEW q \in Queues, NEW g \in Tags, Send(q, g) PROVE LockInv'
  BY <1>7, <1>19 DEF Send, agvars, corevars
<1>20. ASSUME NEW Q \in Stoppable, StopQueues(Q) \/ \E c \in Cores : AckStop(c, Q) PROVE LockInv'
  BY <1>7, <1>20 DEF StopQueues, AckStop, agvars, corevars
<1>21. ASSUME NEW q \in Queues, QueueDelete(q) PROVE LockInv'
  BY <1>7, <1>21 DEF QueueDelete, corevars
<1>22. CASE GroupDelete BY <1>7, <1>22 DEF GroupDelete, corevars
<1>23. CASE UNCHANGED vars BY <1>7, <1>23 DEF vars, agvars, corevars
<1> QED
  BY <1>8, <1>9, <1>10, <1>11, <1>12, <1>13, <1>14, <1>15, <1>16, <1>17, <1>18, <1>19, <1>20,
     <1>21, <1>22, <1>23 DEF Next, CoreStep

-----------------------------------------------------------------------------
(* Whoever leaves events behind leaves somebody who comes for them. *)

\* Every action keeps SomebodyComes.
LEMMA ComesStep ==
  ASSUME TypeOK, SomebodyComes, [Next]_vars
  PROVE  SomebodyComes'
<1> USE DEF TypeOK
<1> DEFINE G(c) == pc[c] \in {"put", "uncount", "trylock"} \/ released[c]
<1>1. evcnt > 0 /\ lock = 0 => \E c \in Cores : G(c) BY DEF SomebodyComes
<1>2. SomebodyComes' <=> (evcnt' > 0 /\ lock' = 0 => \E c \in Cores : G(c)') BY DEF SomebodyComes
<1>3. ASSUME UNCHANGED <<lock, evcnt, pc, released>> PROVE SomebodyComes'
  BY <1>3 DEF SomebodyComes
<1>4. ASSUME NEW c \in Cores, CoreStep(c) \/ ProcessingEnd(c),
             \/ G(c)'
             \/ lock' # 0 \/ ~(evcnt' > 0)
             \/ ~G(c) /\ (evcnt > 0 /\ lock = 0)
      PROVE  SomebodyComes'
  <2>1. \A d \in Cores \ {c} : G(d)' <=> G(d) BY <1>4, OnlyOwn
  <2> HIDE DEF G
  <2>2. CASE G(c)' BY <1>2, <2>2
  <2>3. CASE lock' # 0 \/ ~(evcnt' > 0) BY <1>2, <2>3
  <2>4. CASE ~G(c) /\ (evcnt > 0 /\ lock = 0) BY <1>1, <1>2, <2>1, <2>4
  <2> QED BY <1>4, <2>2, <2>3, <2>4
<1>5. ASSUME NEW c \in Cores, CoreStep(c) \/ ProcessingEnd(c),
             UNCHANGED <<lock, evcnt>>, ~G(c)
      PROVE  SomebodyComes'
  <2>1. CASE evcnt > 0 /\ lock = 0 BY <1>4, <1>5, <2>1
  <2>2. CASE ~(evcnt > 0 /\ lock = 0) BY <1>4, <1>5, <2>2
  <2> QED BY <2>1, <2>2
<1>6. ASSUME NEW c \in Cores, CoreStep(c) \/ ProcessingEnd(c),
             UNCHANGED <<lock, evcnt>>, G(c) => G(c)'
      PROVE  SomebodyComes'
  BY <1>4, <1>5, <1>6
<1>7. ASSUME NEW c \in Cores, NEW q \in Queues, NEW n \in 1..MaxBurst, DispatchRound(c, q, n)
      PROVE  SomebodyComes'
  <2>1. UNCHANGED <<lock, evcnt, released>> /\ (G(c) => G(c)') BY <1>7 DEF DispatchRound, agvars
  <2> QED BY <1>6, <1>7, <2>1 DEF CoreStep
<1>8. ASSUME NEW c \in Cores, ScheduleNone(c) PROVE SomebodyComes'
  BY <1>3, <1>8 DEF ScheduleNone, agvars, corevars
<1>9. ASSUME NEW c \in Cores, AcquireIfIdle(c) PROVE SomebodyComes'
  <2>1. /\ lock' = 1 \/ lock' = lock
        /\ evcnt' = evcnt /\ (G(c) => G(c)')
    BY <1>9 DEF AcquireIfIdle
  <2> QED BY <1>4, <1>6, <1>9, <2>1 DEF CoreStep
<1>10. ASSUME NEW c \in Cores, EnqCount(c) \/ EnqPut(c) \/ EnqError(c) PROVE SomebodyComes'
  <2>1. pc'[c] \in {"put", "uncount", "trylock"} BY <1>10 DEF EnqCount, EnqPut, EnqError
  <2> QED BY <1>4, <1>10, <2>1 DEF CoreStep
<1>11. ASSUME NEW c \in Cores, Trylock(c) PROVE SomebodyComes'
  BY <1>4, <1>11 DEF Trylock, CoreStep
<1>12. ASSUME NEW c \in Cores, Deq(c) PROVE SomebodyComes'
  <2>1. UNCHANGED <<lock, evcnt>> /\ (G(c) => G(c)') BY <1>12 DEF Deq
  <2> QED BY <1>6, <1>12, <2>1 DEF CoreStep
<1>13. ASSUME NEW c \in Cores, DeqCount(c) PROVE SomebodyComes'
  <2>1. lock' = lock /\ released' = released /\ pc[c] = "sub" /\ evcnt' = evcnt - Len(burst[c])
    BY <1>13 DEF DeqCount
  <2>2. CASE evcnt > 0 /\ lock = 0 BY <1>4, <1>13, <2>1, <2>2 DEF CoreStep
  <2>3. CASE ~(evcnt > 0)
    <3>1. Len(burst[c]) \in Nat BY Nothing
    <3>2. ~(evcnt' > 0) BY <2>1, <2>3, <3>1
    <3> QED BY <1>4, <1>13, <3>2 DEF CoreStep
  <2>4. CASE lock # 0 BY <1>4, <1>13, <2>1, <2>4 DEF CoreStep
  <2> QED BY <2>2, <2>3, <2>4
<1>14. ASSUME NEW c \in Cores, Unlock(c) PROVE SomebodyComes'
  <2> DEFINE done == IF released[c] THEN lock = 1 \/ evcnt = 0 ELSE evcnt = 0
  <2>1. evcnt' = evcnt /\ lock' = IF done THEN (IF released[c] THEN lock ELSE 0) ELSE 1
    BY <1>14 DEF Unlock
  <2>2. lock' # 0 \/ ~(evcnt' > 0) BY <2>1
  <2> QED BY <1>4, <1>14, <2>2 DEF CoreStep
<1>15. ASSUME NEW c \in Cores, Receive(c) \/ ReceiveDone(c) PROVE SomebodyComes'
  <2>1. UNCHANGED <<lock, evcnt, released>> /\ pc[c] \in {"run", "rcv"}
    BY <1>15 DEF Receive, ReceiveDone, agvars
  <2>2. G(c) => G(c)' BY <2>1
  <2> QED BY <1>6, <1>15, <2>1, <2>2 DEF CoreStep
<1>16. ASSUME NEW c \in Cores, ProcessingEnd(c) PROVE SomebodyComes'
  <2>1. CASE cur[c] \in Group
    <3>1. released'[c] BY <1>16, <2>1 DEF ProcessingEnd
    <3> QED BY <1>4, <1>16, <3>1
  <2>2. CASE cur[c] \notin Group BY <1>3, <1>16, <2>2 DEF ProcessingEnd
  <2> QED BY <2>1, <2>2
<1>17. ASSUME NEW q \in Queues, NEW g \in Tags, Send(q, g) PROVE SomebodyComes'
  BY <1>3, <1>17 DEF Send, agvars, corevars
<1>18. ASSUME NEW Q \in Stoppable, StopQueues(Q) \/ \E c \in Cores : AckStop(c, Q) PROVE SomebodyComes'
  BY <1>3, <1>18 DEF StopQueues, AckStop, agvars, corevars
<1>19. ASSUME NEW q \in Queues, QueueDelete(q) PROVE SomebodyComes'
  BY <1>3, <1>19 DEF QueueDelete, corevars
<1>20. CASE GroupDelete BY <1>3, <1>20 DEF GroupDelete, corevars
<1>21. CASE UNCHANGED vars BY <1>3, <1>21 DEF vars, agvars, corevars
<1> QED
  BY <1>7, <1>8, <1>9, <1>10, <1>11, <1>12, <1>13, <1>14, <1>15, <1>16, <1>17, <1>18, <1>19,
     <1>20, <1>21 DEF Next, CoreStep

-----------------------------------------------------------------------------
(* Stopping the queues of the group. *)

\* Every action keeps StopInv: a core that has confirmed the stop of all queues
\* of the group gets no new burst of the group.
LEMMA StopStep ==
  ASSUME TypeOK, TypeOK', BurstInv, BurstInv', StopInv, [Next]_vars
  PROVE  StopInv'
<1> USE DEF TypeOK
<1> DEFINE A(c) == AtGroup(c)
           OK(c) == CoreOK(pc[c], burst[c], cur[c], released[c])
<1>1. /\ \A q \in Queues : acked[q] # {} => state[q] # "ready"
      /\ \A q \in Queues : state[q] \in {"stopped", "deleted"} => acked[q] = Cores
      /\ Group \subseteq attached \cup {q \in Queues : state[q] = "deleted"}
      /\ ~alive => attached = {}
  BY DEF StopInv
<1>2. \A c \in Cores : (\A q \in Group : c \in acked[q]) => ~A(c) BY DEF StopInv
<1>3. Group \subseteq Queues BY GroupAssumption
<1>4. ASSUME NEW c \in Cores, CoreStep(c) \/ ProcessingEnd(c), UNCHANGED <<state, acked, attached, alive>>,
             A(c)' => A(c) \/ \E q \in Group : state[q] = "ready"
      PROVE  StopInv'
  <2>1. \A d \in Cores \ {c} : A(d)' <=> A(d) BY <1>4, OnlyOwn DEF AtGroup
  <2>2. (\E q \in Group : state[q] = "ready") => \E q \in Group : c \notin acked[q] BY <1>1, <1>3
  <2> HIDE DEF A
  <2>3. \A d \in Cores : (\A q \in Group : d \in acked'[q]) => ~A(d)' BY <1>2, <1>4, <2>1, <2>2
  <2> QED BY <1>1, <1>4, <2>3 DEF StopInv, A
<1>5. \A c \in Cores : OK(c) BY DEF BurstInv
<1>6. ASSUME UNCHANGED <<state, acked, attached, alive, pc, burst, cur>> PROVE StopInv'
  BY <1>6 DEF StopInv, AtGroup
<1>7. ASSUME NEW c \in Cores, NEW q \in Queues, NEW n \in 1..MaxBurst, DispatchRound(c, q, n) PROVE StopInv'
  <2> DEFINE f == SubSeq(odpq[q], 1, n)
  <2>1. n \in 1..Len(odpq[q]) /\ n \in 0..Len(odpq[q]) /\ n # 0 BY <1>7 DEF DispatchRound
  <2>2. f \in Seq(Event) /\ Len(f) = n /\ AllIn(f, {q}) BY <2>1, Cut DEF BurstInv
  <2>3. /\ UNCHANGED <<state, acked, attached, alive>> /\ pc[c] = "idle" /\ UNCHANGED cur
        /\ \/ UNCHANGED <<pc, burst>>
           \/ state[q] = "ready" /\ burst'[c] = f /\ pc'[c] = IF q \in Group THEN "acquire" ELSE "run"
    BY <1>7 DEF DispatchRound, agvars
  <2> HIDE DEF f
  <2>4. q \notin Group => ~AllIn(f, Group)
    <3>1. DOMAIN f = 1..n BY <2>2, LenProperties
    <3>2. 1 \in DOMAIN f BY <2>1, <3>1
    <3> QED BY <2>2, <3>2 DEF AllIn
  <2>5. A(c)' => A(c) \/ \E r \in Group : state[r] = "ready" BY <2>3, <2>4 DEF AtGroup
  <2> QED BY <1>4, <1>7, <2>3, <2>5 DEF CoreStep
<1>8. ASSUME NEW c \in Cores, ScheduleNone(c) PROVE StopInv'
  BY <1>6, <1>8 DEF ScheduleNone, agvars, corevars
<1>9. ASSUME NEW c \in Cores,
             \/ AcquireIfIdle(c) \/ EnqCount(c) \/ EnqPut(c) \/ EnqError(c) \/ Trylock(c)
             \/ Deq(c) \/ DeqCount(c) \/ Unlock(c)
      PROVE StopInv'
  <2>1. UNCHANGED <<state, acked, attached, alive>>
    BY <1>9 DEF AcquireIfIdle, EnqCount, EnqPut, EnqError, Trylock, Deq, DeqCount, Unlock, qvars
  <2>2. pc[c] \in {"acquire", "count", "put", "uncount", "trylock", "deq", "sub", "unlock"}
    BY <1>9 DEF AcquireIfIdle, EnqCount, EnqPut, EnqError, Trylock, Deq, DeqCount, Unlock
  <2>3. A(c) BY <2>2 DEF AtGroup
  <2> QED BY <1>4, <1>9, <2>1, <2>3 DEF CoreStep
<1>10. ASSUME NEW c \in Cores, Receive(c) PROVE StopInv'
  <2>1. UNCHANGED <<state, acked, attached, alive>> /\ pc[c] = "run" /\ pc'[c] = "rcv" /\ cur'[c] = burst[c][1].q
    BY <1>10 DEF Receive, agvars, qvars
  <2>2. burst[c][1].q \in Group <=> AllIn(burst[c], Group) BY <1>5, <2>1, WhoseBurst DEF CoreOK
  <2>3. A(c)' => A(c) BY <2>1, <2>2 DEF AtGroup
  <2> QED BY <1>4, <1>10, <2>1, <2>3 DEF CoreStep
<1>11. ASSUME NEW c \in Cores, ProcessingEnd(c) PROVE StopInv'
  BY <1>6, <1>11 DEF ProcessingEnd
<1>12. ASSUME NEW c \in Cores, ReceiveDone(c) PROVE StopInv'
  <2>1. /\ UNCHANGED <<state, acked, attached, alive, burst>> /\ pc[c] = "rcv"
        /\ pc'[c] = IF burst[c] # <<>> THEN "run" ELSE IF cur[c] \in Group THEN "unlock" ELSE "idle"
    BY <1>12 DEF ReceiveDone, agvars, qvars
  <2>2. burst[c] # <<>> => (AllIn(burst[c], Group) <=> cur[c] \in Group) BY <1>5, <2>1 DEF CoreOK
  <2>3. A(c)' => A(c) BY <2>1, <2>2 DEF AtGroup
  <2> QED BY <1>4, <1>12, <2>1, <2>3 DEF CoreStep
<1>13. ASSUME NEW q \in Queues, NEW g \in Tags, Send(q, g) PROVE StopInv'
  BY <1>6, <1>13 DEF Send, agvars, corevars
<1>14. ASSUME NEW Q \in Stoppable, StopQueues(Q) PROVE StopInv'
  <2>1. /\ UNCHANGED <<acked, attached, alive, pc, burst, cur>> /\ \A q \in Q : state[q] = "ready"
        /\ \A q \in Queues : state'[q] = IF q \in Q THEN "stopping" ELSE state[q]
    BY <1>14 DEF StopQueues, agvars, corevars
  <2>2. \A c \in Cores : A(c)' <=> A(c) BY <2>1 DEF AtGroup
  <2>3. \A q \in Queues : acked'[q] # {} => state'[q] # "ready" BY <1>1, <2>1
  <2>4. \A q \in Queues : state'[q] \in {"stopped", "deleted"} => acked'[q] = Cores BY <1>1, <2>1
  <2>5. Group \subseteq attached' \cup {q \in Queues : state'[q] = "deleted"} BY <1>1, <2>1
  <2> QED BY <1>1, <1>2, <2>1, <2>2, <2>3, <2>4, <2>5 DEF StopInv
<1>15. ASSUME NEW Q \in Stoppable, NEW c \in Cores, AckStop(c, Q) PROVE StopInv'
  <2>1. /\ UNCHANGED <<attached, alive, pc, burst, cur>> /\ pc[c] = "idle"
        /\ \A q \in Q : state[q] = "stopping"
        /\ \A q \in Queues : acked'[q] = acked[q] \cup (IF q \in Q THEN {c} ELSE {})
        /\ \A q \in Queues : state'[q] = IF q \in Q /\ acked'[q] = Cores THEN "stopped" ELSE state[q]
    BY <1>15 DEF AckStop, agvars, corevars
  <2>2. \A d \in Cores : A(d)' <=> A(d) BY <2>1 DEF AtGroup
  <2>3. ~A(c) BY <2>1 DEF AtGroup
  <2>4. \A q \in Queues : acked'[q] # {} => state'[q] # "ready" BY <1>1, <2>1
  <2>5. \A q \in Queues : state'[q] \in {"stopped", "deleted"} => acked'[q] = Cores BY <1>1, <2>1
  <2>6. Group \subseteq attached' \cup {q \in Queues : state'[q] = "deleted"} BY <1>1, <2>1
  <2>7. \A d \in Cores \ {c} : (\A q \in Group : d \in acked'[q]) => \A q \in Group : d \in acked[q]
    BY <1>3, <2>1
  <2>8. ~alive' => attached' = {} BY <1>1, <2>1
  <2> HIDE DEF A
  <2>9. \A d \in Cores : (\A q \in Group : d \in acked'[q]) => ~A(d)' BY <1>2, <2>2, <2>3, <2>7
  <2> QED BY <2>4, <2>5, <2>6, <2>8, <2>9 DEF StopInv, A
<1>16. ASSUME NEW q \in Queues, QueueDelete(q) PROVE StopInv'
  <2>1. /\ UNCHANGED <<acked, alive, pc, burst, cur>> /\ state[q] = "stopped"
        /\ state' = [state EXCEPT ![q] = "deleted"] /\ attached' = attached \ {q}
    BY <1>16 DEF QueueDelete, corevars
  <2>2. \A d \in Cores : A(d)' <=> A(d) BY <2>1 DEF AtGroup
  <2>3. \A r \in Queues : acked'[r] # {} => state'[r] # "ready" BY <1>1, <2>1
  <2>4. \A r \in Queues : state'[r] \in {"stopped", "deleted"} => acked'[r] = Cores BY <1>1, <2>1
  <2>5. Group \subseteq attached' \cup {r \in Queues : state'[r] = "deleted"} BY <1>1, <2>1
  <2> QED BY <1>1, <1>2, <2>1, <2>2, <2>3, <2>4, <2>5 DEF StopInv
<1>17. CASE GroupDelete
  <2>1. UNCHANGED <<state, acked, attached, pc, burst, cur>> /\ attached = {}
    BY <1>17 DEF GroupDelete, qvars, corevars
  <2>2. \A d \in Cores : A(d)' <=> A(d) BY <2>1 DEF AtGroup
  <2> QED BY <1>1, <1>2, <2>1, <2>2 DEF StopInv
<1>18. CASE UNCHANGED vars BY <1>6, <1>18 DEF vars, agvars, qvars, corevars
<1> QED
  BY <1>7, <1>8, <1>9, <1>10, <1>11, <1>12, <1>13, <1>14, <1>15, <1>16, <1>17, <1>18
  DEF Next, CoreStep

-----------------------------------------------------------------------------
(* The event count. *)

\* What one core contributes to the count, apart from the rest.
LEMMA SlotsOfOne ==
  ASSUME TypeOK, TypeOK', NEW c \in Cores,
         \A d \in Cores \ {c} : pc'[d] = pc[d] /\ burst'[d] = burst[d]
  PROVE  \E rest \in Nat :
           /\ Cardinality(Slots(Counting, Lens))
                = rest + IF pc[c] \in {"put", "uncount", "sub"} THEN Len(burst[c]) ELSE 0
           /\ Cardinality(Slots(Counting', Lens'))
                = rest + IF pc'[c] \in {"put", "uncount", "sub"} THEN Len(burst'[c]) ELSE 0
<1> DEFINE H == Counting \ {c}
           H1 == Counting' \ {c}
           rest == Cardinality(Slots(H, Lens))
<1>1. Counting \in SUBSET Cores /\ Counting' \in SUBSET Cores BY DEF Counting
<1>2. Lens \in [Cores -> Nat] /\ Lens' \in [Cores -> Nat] BY Nothing DEF Lens, TypeOK
<1>3. H1 = H BY DEF Counting
<1>4. \A d \in H : Lens[d] = Lens'[d] BY DEF Lens, Counting
<1>5. Slots(H, Lens) = Slots(H, Lens') BY <1>1, <1>2, <1>4, SlotsSame
<1>6. rest \in Nat BY <1>1, <1>2, SlotsFinite
<1>7. /\ c \in Counting <=> pc[c] \in {"put", "uncount", "sub"}
      /\ c \in Counting' <=> pc'[c] \in {"put", "uncount", "sub"}
      /\ Lens[c] = Len(burst[c]) /\ Lens'[c] = Len(burst'[c])
  BY DEF Counting, Lens
<1>8. c \in Counting => Cardinality(Slots(Counting, Lens)) = rest + Lens[c]
  BY <1>1, <1>2, SlotsRemove
<1>9. c \in Counting' => Cardinality(Slots(Counting', Lens')) = rest + Lens'[c]
  BY <1>1, <1>2, <1>3, <1>5, SlotsRemove
<1>10. c \notin Counting => H = Counting OBVIOUS
<1>11. c \notin Counting' => H = Counting' BY <1>3
<1>12. c \notin Counting => Cardinality(Slots(Counting, Lens)) = rest BY <1>10
<1>13. c \notin Counting' => Cardinality(Slots(Counting', Lens')) = rest BY <1>5, <1>11
<1> HIDE DEF rest
<1>14. rest + 0 = rest BY <1>6
<1> QED BY <1>6, <1>7, <1>8, <1>9, <1>12, <1>13, <1>14

\* Without queues nobody is at work on the group and nothing is left of it.
LEMMA GroupQuiet ==
  ASSUME TypeOK, BurstInv, LockInv, CountCoversStash, SomebodyComes, StopInv, attached = {}
  PROVE  /\ \A c \in Cores : ~AtGroup(c)
         /\ lock = 0 /\ evcnt = 0 /\ \A l \in Levels : stash[l] = <<>>
<1>1. \A q \in Group : acked[q] = Cores BY GroupAssumption DEF StopInv
<1>2. \A c \in Cores : ~AtGroup(c) BY <1>1 DEF StopInv
<1>3. ASSUME NEW c \in Cores PROVE ~HoldsLock(c)
  <2>1. burst[c] \in Seq(Event) /\ CoreOK(pc[c], burst[c], cur[c], released[c])
    BY DEF TypeOK, BurstInv
  <2>2. pc[c] = "run" => (burst[c][1].q \in Group <=> AllIn(burst[c], Group))
    BY <2>1, WhoseBurst DEF CoreOK
  <2> QED BY <1>2, <2>2 DEF HoldsLock, AtGroup
<1>4. lock = 0 BY <1>3 DEF LockInv, TypeOK
<1>5. ASSUME NEW c \in Cores PROVE ~released[c] /\ pc[c] \notin {"put", "uncount", "trylock"}
  BY <1>2 DEF AtGroup, BurstInv, CoreOK
<1>6. evcnt = 0 BY <1>4, <1>5 DEF SomebodyComes, TypeOK
<1>7. Cardinality(Slots(Counting, Lens)) \in Nat
  <2>1. Counting \in SUBSET Cores BY DEF Counting
  <2>2. Lens \in [Cores -> Nat] BY Nothing DEF Lens, TypeOK
  <2> QED BY <2>1, <2>2, SlotsFinite
<1> DEFINE h == Len(stash["hi"])
           l == Len(stash["lo"])
           r == Cardinality(Slots(Counting, Lens))
<1>8. h \in Nat /\ l \in Nat BY Nothing DEF TypeOK, Levels
<1>9. 0 = h + l + r BY <1>6 DEF CountCoversStash
<1> HIDE DEF h, l, r
<1>10. r \in Nat BY <1>7 DEF r
<1>11. h = 0 /\ l = 0 BY <1>8, <1>9, <1>10
<1>12. stash["hi"] = <<>> /\ stash["lo"] = <<>> BY <1>11, Nothing DEF h, l, TypeOK, Levels
<1> QED BY <1>2, <1>4, <1>6, <1>12 DEF Levels

\* Every action keeps the count in step with the stashes and the bursts.
LEMMA CountStep ==
  ASSUME TypeOK, TypeOK', BurstInv, BurstInv', LockInv, CountCoversStash, SomebodyComes, StopInv,
         [Next]_vars
  PROVE  CountCoversStash'
<1> USE DEF TypeOK
<1> DEFINE Hi0 == Len(stash["hi"])
           Lo0 == Len(stash["lo"])
           Held(c) == IF pc[c] \in {"put", "uncount", "sub"} THEN Len(burst[c]) ELSE 0
<1>1. Hi0 \in Nat /\ Lo0 \in Nat /\ Hi0' \in Nat /\ Lo0' \in Nat BY Nothing DEF Levels
<1>2. \A c \in Cores : Len(burst[c]) \in Nat /\ Len(burst'[c]) \in Nat /\ Held(c) \in Nat /\ Held(c)' \in Nat
  BY Nothing
<1>3. ASSUME NEW c \in Cores, \A d \in Cores \ {c} : pc'[d] = pc[d] /\ burst'[d] = burst[d],
             evcnt' - (Hi0' + Lo0' + Held(c)') = evcnt - (Hi0 + Lo0 + Held(c))
      PROVE  CountCoversStash'
  <2>1. PICK rest \in Nat : /\ Cardinality(Slots(Counting, Lens)) = rest + Held(c)
                            /\ Cardinality(Slots(Counting', Lens')) = rest + Held(c)'
    BY <1>3, SlotsOfOne
  <2>2. evcnt = Hi0 + Lo0 + (rest + Held(c)) BY <2>1 DEF CountCoversStash
  <2>3. evcnt \in Nat /\ evcnt' \in Nat /\ Held(c) \in Nat /\ Held(c)' \in Nat BY <1>2
  <2> HIDE DEF Hi0, Lo0, Held
  <2>4. evcnt' = Hi0' + Lo0' + (rest + Held(c)') 
    <3> DEFINE g == Held(c)
               g1 == Held(c)'
    <3>1. g \in Nat /\ g1 \in Nat /\ evcnt' - (Hi0' + Lo0' + g1) = evcnt - (Hi0 + Lo0 + g)
          /\ evcnt = Hi0 + Lo0 + (rest + g)
      BY <1>3, <2>2, <2>3
    <3> HIDE DEF g, g1
    <3> DEFINE h == Hi0
               h1 == Hi0'
               l == Lo0
               l1 == Lo0'
               e == evcnt
               e1 == evcnt'
    <3>3. h \in Nat /\ h1 \in Nat /\ l \in Nat /\ l1 \in Nat /\ e \in Nat /\ e1 \in Nat
      BY <1>1, <2>3
    <3>4. e1 - (h1 + l1 + g1) = e - (h + l + g) /\ e = h + l + (rest + g) BY <3>1
    <3> HIDE DEF h, h1, l, l1, e, e1, TypeOK
    <3>5. e1 = h1 + l1 + (rest + g1) BY <3>1, <3>3, <3>4
    <3>2. evcnt' = Hi0' + Lo0' + (rest + g1) BY <3>5 DEF h1, l1, e1
    <3> QED BY <3>2 DEF g1
  <2> QED BY <2>1, <2>4 DEF CountCoversStash, Hi0, Lo0
<1>4. ASSUME UNCHANGED <<evcnt, stash, pc, burst>> PROVE CountCoversStash'
  BY <1>4 DEF CountCoversStash, Counting, Lens
<1>5. ASSUME NEW c \in Cores, CoreStep(c), UNCHANGED <<evcnt, stash>>, Held(c)' = Held(c)
      PROVE  CountCoversStash'
  BY <1>3, <1>5, OnlyOwn
<1>6. ASSUME NEW c \in Cores, NEW q \in Queues, NEW n \in 1..MaxBurst, DispatchRound(c, q, n)
      PROVE  CountCoversStash'
  <2>1. UNCHANGED <<evcnt, stash>> /\ pc[c] = "idle" /\ pc'[c] \in {"idle", "acquire", "run"}
    BY <1>6 DEF DispatchRound, agvars
  <2> QED BY <1>5, <1>6, <2>1 DEF CoreStep
<1>7. ASSUME NEW c \in Cores, ScheduleNone(c) PROVE CountCoversStash'
  BY <1>4, <1>7 DEF ScheduleNone, agvars, corevars
<1>8. ASSUME NEW c \in Cores, AcquireIfIdle(c) \/ Trylock(c) \/ Unlock(c) PROVE CountCoversStash'
  <2>1. UNCHANGED <<evcnt, stash>> /\ pc[c] \in {"acquire", "trylock", "unlock"}
        /\ pc'[c] \in {"run", "count", "deq", "idle"}
    BY <1>8 DEF AcquireIfIdle, Trylock, Unlock
  <2> QED BY <1>5, <1>8, <2>1 DEF CoreStep
<1>9. ASSUME NEW c \in Cores, EnqCount(c) PROVE CountCoversStash'
  <2>1. /\ evcnt' = evcnt + Len(burst[c]) /\ UNCHANGED <<stash, burst>>
        /\ pc[c] = "count" /\ pc'[c] = "put"
    BY <1>9 DEF EnqCount
  <2>2. Held(c) = 0 /\ Held(c)' = Len(burst[c]) BY <2>1
  <2>3. Hi0' = Hi0 /\ Lo0' = Lo0 /\ evcnt \in Nat /\ Len(burst[c]) \in Nat BY <1>2, <2>1
  <2> HIDE DEF Hi0, Lo0, Held
  <2>4. evcnt' - (Hi0' + Lo0' + Held(c)') = evcnt - (Hi0 + Lo0 + Held(c))
    BY <1>1, <2>1, <2>2, <2>3
  <2> QED BY <1>3, <1>9, <2>4, OnlyOwn DEF CoreStep, Hi0, Lo0, Held
<1>10. ASSUME NEW c \in Cores, EnqPut(c) PROVE CountCoversStash'
  <2> DEFINE l == PrioOf(Head(burst[c]).q)
             k == Min({Len(burst[c]), StashSize - Len(stash[l])})
             f == SubSeq(burst[c], 1, k)
             b == SubSeq(burst[c], k + 1, Len(burst[c]))
  <2>0. l \in Levels /\ k \in 0..Len(burst[c]) BY <1>10, PutFits DEF EnqPut
  <2>2. /\ stash' = [stash EXCEPT ![l] = @ \o f] /\ burst' = [burst EXCEPT ![c] = b]
        /\ pc[c] = "put" /\ pc' = [pc EXCEPT ![c] = IF k < Len(burst[c]) THEN "uncount" ELSE "trylock"]
        /\ evcnt' = evcnt
    BY <1>10 DEF EnqPut
  <2> HIDE DEF l, k
  <2>3. f \in Seq(Event) /\ Len(f) = k /\ Len(b) = Len(burst[c]) - k BY <2>0, Cut
  <2> HIDE DEF f, b
  <2>4. Len(stash[l] \o f) = Len(stash[l]) + k BY <2>0, <2>3, Join
  <2>5. \/ Hi0' = Hi0 + k /\ Lo0' = Lo0
        \/ Lo0' = Lo0 + k /\ Hi0' = Hi0
    <3>1. CASE l = "hi"
      <4>1. stash'["hi"] = stash[l] \o f /\ stash'["lo"] = stash["lo"]
        BY <2>0, <2>2, <3>1 DEF Levels
      <4> QED BY <2>4, <3>1, <4>1
    <3>2. CASE l = "lo"
      <4>1. stash'["lo"] = stash[l] \o f /\ stash'["hi"] = stash["hi"]
        BY <2>0, <2>2, <3>2 DEF Levels
      <4> QED BY <2>4, <3>2, <4>1
    <3> QED BY <2>0, <3>1, <3>2 DEF Levels
  <2>6. Held(c) = Len(burst[c]) /\ Held(c)' = Len(burst[c]) - k
    <3>1. Held(c) = Len(burst[c]) BY <2>2
    <3>2. CASE k < Len(burst[c])
      <4>1. pc'[c] = "uncount" /\ burst'[c] = b BY <2>2, <3>2
      <4> QED BY <2>3, <3>1, <4>1
    <3>3. CASE ~(k < Len(burst[c]))
      <4>1. pc'[c] = "trylock" BY <2>2, <3>3
      <4>2. Held(c)' = 0 BY <4>1
      <4>3. Len(burst[c]) - k = 0 BY <1>2, <2>0, <3>3
      <4> QED BY <3>1, <4>2, <4>3
    <3> QED BY <3>2, <3>3
  <2>7. Len(burst[c]) \in Nat /\ evcnt \in Nat /\ k \in Nat BY <1>2, <2>0
  <2> HIDE DEF Hi0, Lo0, Held
  <2>8. evcnt' - (Hi0' + Lo0' + Held(c)') = evcnt - (Hi0 + Lo0 + Held(c))
    <3>1. CASE Hi0' = Hi0 + k /\ Lo0' = Lo0 BY <1>1, <2>2, <2>6, <2>7, <3>1
    <3>2. CASE Lo0' = Lo0 + k /\ Hi0' = Hi0 BY <1>1, <2>2, <2>6, <2>7, <3>2
    <3> QED BY <2>5, <3>1, <3>2
  <2> QED BY <1>3, <1>10, <2>8, OnlyOwn DEF CoreStep, Hi0, Lo0, Held
<1>11. ASSUME NEW c \in Cores, EnqError(c) \/ DeqCount(c) PROVE CountCoversStash'
  <2>1. /\ evcnt' = evcnt - Len(burst[c]) /\ UNCHANGED stash
        /\ pc[c] \in {"uncount", "sub"} /\ pc'[c] \in {"trylock", "unlock", "run"}
    BY <1>11 DEF EnqError, DeqCount
  <2>2. Held(c) = Len(burst[c]) /\ Held(c)' = 0 BY <2>1
  <2>3. Hi0' = Hi0 /\ Lo0' = Lo0 /\ evcnt \in Nat /\ Len(burst[c]) \in Nat BY <1>2, <2>1
  <2> HIDE DEF Hi0, Lo0, Held
  <2>4. evcnt' - (Hi0' + Lo0' + Held(c)') = evcnt - (Hi0 + Lo0 + Held(c))
    BY <1>1, <2>1, <2>2, <2>3
  <2> QED BY <1>3, <1>11, <2>4, OnlyOwn DEF CoreStep, Hi0, Lo0, Held
<1>12. ASSUME NEW c \in Cores, Deq(c) PROVE CountCoversStash'
  <2> DEFINE h == IF attached \cap Hi # {} THEN Min({AgMaxBurst, Len(stash["hi"])}) ELSE 0
             k == Min({AgMaxBurst - h, Len(stash["lo"])})
             fh == SubSeq(stash["hi"], 1, h)
             fl == SubSeq(stash["lo"], 1, k)
             bh == SubSeq(stash["hi"], h + 1, Len(stash["hi"]))
             bl == SubSeq(stash["lo"], k + 1, Len(stash["lo"]))
  <2>1. h \in 0..Hi0 /\ k \in 0..Lo0 BY DeqFits
  <2>2. stash["hi"] \in Seq(Event) /\ stash["lo"] \in Seq(Event) BY DEF Levels
  <2>3. /\ fh \in Seq(Event) /\ fl \in Seq(Event) /\ Len(fh) = h /\ Len(fl) = k
        /\ Len(bh) = Hi0 - h /\ Len(bl) = Lo0 - k
    <3> HIDE DEF h, k
    <3> QED BY <2>1, <2>2, Cut
  <2>4. Len(fh \o fl) = h + k
    <3> HIDE DEF fh, fl, h, k
    <3> QED BY <2>3, Join
  <2>5. stash'["hi"] = bh /\ stash'["lo"] = bl
    <3>1. 1 + h = h + 1 /\ 1 + k = k + 1
      <4> HIDE DEF h, k
      <4> QED BY <2>1
    <3>2. stash' = [l \in Levels |-> SubSeq(stash[l], 1 + (IF l = "hi" THEN h ELSE k), Len(stash[l]))]
      BY <1>12 DEF Deq
    <3> HIDE DEF h, k
    <3> QED BY <3>1, <3>2 DEF Levels
  <2>6. burst'[c] = fh \o fl /\ pc[c] = "deq" /\ pc'[c] = "sub" /\ evcnt' = evcnt
    BY <1>12 DEF Deq
  <2> HIDE DEF h, k, fh, fl, bh, bl
  <2>7. Hi0' = Hi0 - h /\ Lo0' = Lo0 - k /\ Held(c) = 0 /\ Held(c)' = h + k
    BY <2>3, <2>4, <2>5, <2>6
  <2>8. evcnt \in Nat OBVIOUS
  <2> HIDE DEF Hi0, Lo0, Held
  <2>9. evcnt' - (Hi0' + Lo0' + Held(c)') = evcnt - (Hi0 + Lo0 + Held(c))
    BY <1>1, <2>1, <2>6, <2>7, <2>8
  <2> QED BY <1>3, <1>12, <2>9, OnlyOwn DEF CoreStep, Hi0, Lo0, Held
<1>13. ASSUME NEW c \in Cores, Receive(c) \/ ReceiveDone(c) PROVE CountCoversStash'
  <2>1. UNCHANGED <<evcnt, stash>> /\ pc[c] \in {"run", "rcv"} /\ pc'[c] \in {"run", "rcv", "unlock", "idle"}
    BY <1>13 DEF Receive, ReceiveDone, agvars
  <2> QED BY <1>5, <1>13, <2>1 DEF CoreStep
<1>14. ASSUME NEW c \in Cores, ProcessingEnd(c) PROVE CountCoversStash'
  BY <1>4, <1>14 DEF ProcessingEnd
<1>15. ASSUME NEW q \in Queues, NEW g \in Tags, Send(q, g) PROVE CountCoversStash'
  BY <1>4, <1>15 DEF Send, agvars, corevars
<1>16. ASSUME NEW Q \in Stoppable, StopQueues(Q) \/ \E c \in Cores : AckStop(c, Q) PROVE CountCoversStash'
  BY <1>4, <1>16 DEF StopQueues, AckStop, agvars, corevars
<1>17. ASSUME NEW q \in Queues, QueueDelete(q) PROVE CountCoversStash'
  BY <1>4, <1>17 DEF QueueDelete, corevars
<1>18. CASE UNCHANGED vars BY <1>4, <1>18 DEF vars, agvars, corevars
<1>19. CASE GroupDelete
  <2>1. UNCHANGED <<evcnt, pc, burst>> /\ stash' = [l \in Levels |-> <<>>] /\ attached = {}
    BY <1>19 DEF GroupDelete, corevars
  <2>2. \A l \in Levels : stash[l] = <<>> BY <2>1, GroupQuiet
  <2>3. stash' = stash BY <2>1, <2>2
  <2> QED BY <1>4, <2>1, <2>3
<1> QED
  BY <1>6, <1>7, <1>8, <1>9, <1>10, <1>11, <1>12, <1>13, <1>14, <1>15, <1>16, <1>17, <1>18,
     <1>19 DEF Next, CoreStep

-----------------------------------------------------------------------------
(* Every event is in one place. *)

\* The places, and what is in each of them.
LEMMA PlacesAre ==
  /\ \A q \in Queues : <<"odpq", q>> \in Places /\ At(<<"odpq", q>>) = InSeq(odpq[q])
  /\ \A l \in Levels : <<"stash", l>> \in Places /\ At(<<"stash", l>>) = InSeq(stash[l])
  /\ \A c \in Cores : <<"burst", c>> \in Places /\ At(<<"burst", c>>) = InSeq(burst[c])
  /\ <<"out", "rcvd">> \in Places /\ At(<<"out", "rcvd">>) = {e.n : e \in rcvd}
  /\ <<"out", "dropped">> \in Places /\ At(<<"out", "dropped">>) = dropped
  /\ \A p \in Places : \/ \E q \in Queues : p = <<"odpq", q>>
                       \/ \E l \in Levels : p = <<"stash", l>>
                       \/ \E c \in Cores : p = <<"burst", c>>
                       \/ p = <<"out", "rcvd">>
                       \/ p = <<"out", "dropped">>
<1>1. \A q \in Queues : <<"odpq", q>> \in Places /\ At(<<"odpq", q>>) = InSeq(odpq[q])
  BY DEF Places, At
<1>2. \A l \in Levels : <<"stash", l>> \in Places /\ At(<<"stash", l>>) = InSeq(stash[l])
  BY DEF Places, At
<1>3. \A c \in Cores : <<"burst", c>> \in Places /\ At(<<"burst", c>>) = InSeq(burst[c])
  BY DEF Places, At
<1>4. <<"out", "rcvd">> \in Places /\ At(<<"out", "rcvd">>) = {e.n : e \in rcvd}
  BY DEF Places, At
<1>5. <<"out", "dropped">> \in Places /\ At(<<"out", "dropped">>) = dropped
  BY DEF Places, At
<1>6. \A p \in Places : \/ \E q \in Queues : p = <<"odpq", q>>
                        \/ \E l \in Levels : p = <<"stash", l>>
                        \/ \E c \in Cores : p = <<"burst", c>>
                        \/ p = <<"out", "rcvd">>
                        \/ p = <<"out", "dropped">>
  BY DEF Places
<1> QED BY <1>1, <1>2, <1>3, <1>4, <1>5, <1>6

\* The same in the next state.
LEMMA PlacesAreNext ==
  /\ \A q \in Queues : At(<<"odpq", q>>)' = InSeq(odpq'[q])
  /\ \A l \in Levels : At(<<"stash", l>>)' = InSeq(stash'[l])
  /\ \A c \in Cores : At(<<"burst", c>>)' = InSeq(burst'[c])
  /\ At(<<"out", "rcvd">>)' = {e.n : e \in rcvd'}
  /\ At(<<"out", "dropped">>)' = dropped'
<1>1. \A q \in Queues : At(<<"odpq", q>>)' = InSeq(odpq'[q]) BY DEF At, InSeq
<1>2. \A l \in Levels : At(<<"stash", l>>)' = InSeq(stash'[l]) BY DEF At, InSeq
<1>3. \A c \in Cores : At(<<"burst", c>>)' = InSeq(burst'[c]) BY DEF At, InSeq
<1>4. At(<<"out", "rcvd">>)' = {e.n : e \in rcvd'} BY DEF At
<1>5. At(<<"out", "dropped">>)' = dropped' BY DEF At
<1> QED BY <1>1, <1>2, <1>3, <1>4, <1>5

\* Sets that are disjoint and stay so when parts of two of them, F and K, move
\* to a third one.  A and B are the contents of the places before and after.
LEMMA PartsMove ==
  ASSUME NEW P, NEW A, NEW B, NEW p \in P, NEW s \in P, NEW r \in P, p # r, s # r, p # s,
         NEW F, NEW K,
         \A u, v \in P : u # v => A[u] \cap A[v] = {},
         A[p] = F \cup B[p], F \cap B[p] = {},
         A[s] = K \cup B[s], K \cap B[s] = {},
         B[r] = A[r] \cup F \cup K,
         \A u \in P \ {p, s, r} : B[u] = A[u]
  PROVE  /\ UNION {B[u] : u \in P} = UNION {A[u] : u \in P}
         /\ \A u, v \in P : u # v => B[u] \cap B[v] = {}
<1>1. \A u \in P : u # r => B[u] \subseteq A[u] OBVIOUS
<1>2. \A u \in P : A[u] \subseteq B[u] \cup B[r] OBVIOUS
<1>3. \A x \in B[r] : x \in A[r] \/ (x \in A[p] /\ x \notin B[p]) \/ (x \in A[s] /\ x \notin B[s]) OBVIOUS
<1>4. UNION {B[u] : u \in P} \subseteq UNION {A[u] : u \in P}
  <2> SUFFICES ASSUME NEW u \in P, NEW x \in B[u] PROVE \E v \in P : x \in A[v] OBVIOUS
  <2>1. CASE u = r BY <1>3, <2>1
  <2>2. CASE u # r BY <1>1, <2>2
  <2> QED BY <2>1, <2>2
<1>5. UNION {A[u] : u \in P} \subseteq UNION {B[u] : u \in P} BY <1>2
<1>6. ASSUME NEW u \in P, u # r, NEW x, x \in B[u], x \in B[r] PROVE FALSE
  <2>1. x \in A[u] BY <1>1, <1>6
  <2>2. x \notin A[r] BY <1>6, <2>1
  <2>3. CASE x \in A[p] /\ x \notin B[p]
    <3>1. u = p BY <2>1, <2>3
    <3> QED BY <1>6, <2>3, <3>1
  <2>4. CASE x \in A[s] /\ x \notin B[s]
    <3>1. u = s BY <2>1, <2>4
    <3> QED BY <1>6, <2>4, <3>1
  <2> QED BY <1>3, <1>6, <2>2, <2>3, <2>4
<1>7. ASSUME NEW u \in P, NEW v \in P, u # v PROVE B[u] \cap B[v] = {}
  <2>1. CASE u # r /\ v # r BY <1>1, <1>7, <2>1
  <2>2. CASE u = r BY <1>6, <1>7, <2>2
  <2>3. CASE v = r BY <1>6, <1>7, <2>3
  <2> QED BY <2>1, <2>2, <2>3
<1> QED BY <1>4, <1>5, <1>7

\* The part of EachEventOnce about single sequences.
AllDistinct == /\ \A q \in Queues : Distinct(odpq[q])
               /\ \A l \in Levels : Distinct(stash[l])
               /\ \A c \in Cores : Distinct(burst[c])

\* A step that moves events from two places to a third one keeps EachEventOnce.
LEMMA EventsMove ==
  ASSUME EachEventOnce, sent' = sent, AllDistinct',
         NEW p \in Places, NEW s \in Places, NEW r \in Places, p # r, s # r, p # s, NEW F, NEW K,
         At(p) = F \cup At(p)', F \cap At(p)' = {},
         At(s) = K \cup At(s)', K \cap At(s)' = {},
         At(r)' = At(r) \cup F \cup K,
         \A u \in Places \ {p, s, r} : At(u)' = At(u)
  PROVE  EachEventOnce'
<1> DEFINE A == [u \in Places |-> At(u)]
           B == [u \in Places |-> At(u)']
<1>1. /\ \A u \in Places : A[u] = At(u) /\ B[u] = At(u)'
      /\ UNION {A[u] : u \in Places} = UNION {At(u) : u \in Places}
      /\ UNION {B[u] : u \in Places} = UNION {At(u)' : u \in Places}
  OBVIOUS
<1>2. UNION {At(u) : u \in Places} = 1..sent /\ \A u, v \in Places : u # v => At(u) \cap At(v) = {}
  BY DEF EachEventOnce
<1> HIDE DEF A, B
<1>3. \A u, v \in Places : u # v => A[u] \cap A[v] = {} BY <1>1, <1>2
<1>4. /\ A[p] = F \cup B[p] /\ F \cap B[p] = {} /\ A[s] = K \cup B[s] /\ K \cap B[s] = {}
      /\ B[r] = A[r] \cup F \cup K /\ \A u \in Places \ {p, s, r} : B[u] = A[u]
  BY <1>1
<1>5. /\ UNION {B[u] : u \in Places} = UNION {A[u] : u \in Places}
      /\ \A u, v \in Places : u # v => B[u] \cap B[v] = {}
  BY <1>3, <1>4, PartsMove
<1>6. UNION {At(u)' : u \in Places} = 1..sent' BY <1>1, <1>2, <1>5
<1>7. \A u, v \in Places : u # v => At(u)' \cap At(v)' = {} BY <1>1, <1>5
<1>8. /\ \A q \in Queues : Distinct(odpq[q])'
      /\ \A l \in Levels : Distinct(stash[l])'
      /\ \A c \in Cores : Distinct(burst[c])'
  BY DEF AllDistinct
<1> QED BY <1>6, <1>7, <1>8 DEF EachEventOnce

\* The numbers of the events of a part of a sequence.
LEMMA NumbersOf ==
  ASSUME NEW a, NEW I
  PROVE  {e.n : e \in {a[i] : i \in I}} = {a[i].n : i \in I}
<1>1. ASSUME NEW x, x \in {e.n : e \in {a[i] : i \in I}} PROVE x \in {a[i].n : i \in I}
  <2>1. PICK e \in {a[i] : i \in I} : x = e.n BY <1>1
  <2>2. PICK i \in I : e = a[i] BY <2>1
  <2> QED BY <2>1, <2>2
<1>2. ASSUME NEW x, x \in {a[i].n : i \in I} PROVE x \in {e.n : e \in {a[i] : i \in I}}
  <2>1. PICK i \in I : x = a[i].n BY <1>2
  <2>2. a[i] \in {a[j] : j \in I} BY <2>1
  <2> QED BY <2>1, <2>2
<1> QED BY <1>1, <1>2

\* Every action keeps EachEventOnce.
LEMMA OnceStep ==
  ASSUME TypeOK, TypeOK', BurstInv, LockInv, CountCoversStash, SomebodyComes, StopInv,
         EachEventOnce, [Next]_vars
  PROVE  EachEventOnce'
<1> USE DEF TypeOK
<1>1. /\ \A q \in Queues : Distinct(odpq[q])
      /\ \A l \in Levels : Distinct(stash[l])
      /\ \A c \in Cores : Distinct(burst[c])
  BY DEF EachEventOnce
<1>2. ASSUME UNCHANGED <<odpq, stash, burst, sent, rcvd, dropped>> PROVE EachEventOnce'
  <2>1. ASSUME NEW u \in Places PROVE At(u)' = At(u)
    <3>1. CASE \E x \in Queues : u = <<"odpq", x>> BY <1>2, <3>1, PlacesAre, PlacesAreNext
    <3>2. CASE \E l \in Levels : u = <<"stash", l>> BY <1>2, <3>2, PlacesAre, PlacesAreNext
    <3>3. CASE \E c \in Cores : u = <<"burst", c>> BY <1>2, <3>3, PlacesAre, PlacesAreNext
    <3>4. CASE u = <<"out", "rcvd">> BY <1>2, <3>4, PlacesAre, PlacesAreNext
    <3>5. CASE u = <<"out", "dropped">> BY <1>2, <3>5, PlacesAre, PlacesAreNext
    <3> QED BY <3>1, <3>2, <3>3, <3>4, <3>5, PlacesAre
  <2>2. UNION {At(u)' : u \in Places} = UNION {At(u) : u \in Places} BY <2>1
  <2>3. UNION {At(u)' : u \in Places} = 1..sent' BY <1>2, <2>2 DEF EachEventOnce
  <2>4. \A u, v \in Places : u # v => At(u)' \cap At(v)' = {} BY <2>1 DEF EachEventOnce
  <2>5. /\ \A q \in Queues : Distinct(odpq[q])'
        /\ \A l \in Levels : Distinct(stash[l])'
        /\ \A c \in Cores : Distinct(burst[c])'
    BY <1>1, <1>2 DEF Distinct
  <2> QED BY <2>3, <2>4, <2>5 DEF EachEventOnce
<1>3. \A u, v \in Places : u # v => At(u) \cap At(v) = {} BY DEF EachEventOnce
<1>4. "hi" \in Levels /\ "lo" \in Levels BY DEF Levels
<1>5. \A c \in Cores : CoreOK(pc[c], burst[c], cur[c], released[c]) BY DEF BurstInv
<1>6. ASSUME NEW q \in Queues, NEW g \in Tags, Send(q, g) PROVE EachEventOnce'
  <2> DEFINE e == [n |-> sent + 1, q |-> q, g |-> g]
             s == odpq[q]
             t == Append(odpq[q], e)
  <2>1. sent' = sent + 1 /\ odpq' = [odpq EXCEPT ![q] = t] /\ UNCHANGED <<stash, burst, rcvd, dropped>>
    BY <1>6 DEF Send, agvars, corevars
  <2>2. e \in Event /\ e.n = sent + 1 BY <1>6, GroupAssumption DEF Send, Event
  <2>3. s \in Seq(Event) /\ Distinct(s) BY <1>1
  <2>4. UNION {At(u) : u \in Places} = 1..sent BY DEF EachEventOnce
  <2>5. \A u \in Places : sent + 1 \notin At(u)
    <3>1. sent + 1 \notin 1..sent OBVIOUS
    <3> QED BY ZenonT(40), <2>4, <3>1
  <2>6. sent + 1 \notin InSeq(s)
    <3>1. <<"odpq", q>> \in Places /\ At(<<"odpq", q>>) = InSeq(s) BY PlacesAre
    <3> QED BY <2>5, <3>1
  <2> HIDE DEF e
  <2>7. Len(s) \in Nat /\ DOMAIN s = 1..Len(s) BY <2>3, LenProperties
  <2>8. /\ DOMAIN t = 1..(Len(s) + 1) /\ t[Len(s) + 1] = e
        /\ \A i \in 1..Len(s) : t[i] = s[i]
    BY <2>2, <2>3, <2>7, AppendProperties, LenProperties
  <2> HIDE DEF t, s
  <2>9. \A i \in 1..(Len(s) + 1) : i \in 1..Len(s) \/ i = Len(s) + 1 BY <2>7
  <2>10. InSeq(t) = InSeq(s) \cup {sent + 1}
    <3>1. ASSUME NEW i \in 1..(Len(s) + 1) PROVE t[i].n \in InSeq(s) \cup {sent + 1}
      BY <2>2, <2>7, <2>8, <2>9 DEF InSeq
    <3>2. ASSUME NEW i \in 1..Len(s) PROVE s[i].n \in InSeq(t)
      <4>1. i \in 1..(Len(s) + 1) BY <2>7
      <4> QED BY <2>8, <4>1 DEF InSeq
    <3>3. sent + 1 \in InSeq(t)
      <4>1. Len(s) + 1 \in 1..(Len(s) + 1) BY <2>7
      <4> QED BY <2>2, <2>8, <4>1 DEF InSeq
    <3> QED BY SMTT(60), <2>7, <2>8, <3>1, <3>2, <3>3 DEF InSeq
  <2>11. Distinct(t)
    <3> SUFFICES ASSUME NEW i \in 1..(Len(s) + 1), NEW j \in 1..(Len(s) + 1), t[i].n = t[j].n
                 PROVE  i = j
      BY <2>8 DEF Distinct
    <3>1. CASE i \in 1..Len(s) /\ j \in 1..Len(s) BY <2>3, <2>7, <2>8, <3>1 DEF Distinct
    <3>2. CASE i \in 1..Len(s) /\ j = Len(s) + 1 BY <2>2, <2>6, <2>7, <2>8, <3>2 DEF InSeq
    <3>3. CASE j \in 1..Len(s) /\ i = Len(s) + 1 BY <2>2, <2>6, <2>7, <2>8, <3>3 DEF InSeq
    <3> QED BY <2>9, <3>1, <3>2, <3>3
  <2> DEFINE r == <<"odpq", q>>
  <2>12. r \in Places /\ At(r)' = At(r) \cup {sent + 1}
    <3>1. odpq'[q] = t BY <2>1
    <3> QED BY <2>10, <3>1, PlacesAre, PlacesAreNext DEF s
  <2>13. ASSUME NEW u \in Places, u # r PROVE At(u)' = At(u)
    <3>1. \A x \in Queues : x # q => odpq'[x] = odpq[x] BY <2>1
    <3>2. CASE \E x \in Queues : u = <<"odpq", x>> BY <2>13, <3>1, <3>2, PlacesAre, PlacesAreNext
    <3>3. CASE \E l \in Levels : u = <<"stash", l>> BY <2>1, <3>3, PlacesAre, PlacesAreNext
    <3>4. CASE \E c \in Cores : u = <<"burst", c>> BY <2>1, <3>4, PlacesAre, PlacesAreNext
    <3>5. CASE u = <<"out", "rcvd">> BY <2>1, <3>5, PlacesAre, PlacesAreNext
    <3>6. CASE u = <<"out", "dropped">> BY <2>1, <3>6, PlacesAre, PlacesAreNext
    <3> QED BY <3>2, <3>3, <3>4, <3>5, <3>6, PlacesAre
  <2> HIDE DEF r
  <2>14. UNION {At(u)' : u \in Places} = 1..sent'
    <3>1. 1..(sent + 1) = (1..sent) \cup {sent + 1} OBVIOUS
    <3>2. UNION {At(u)' : u \in Places} = (UNION {At(u) : u \in Places}) \cup {sent + 1}
      <4>1. ASSUME NEW u \in Places PROVE At(u)' \subseteq (UNION {At(v) : v \in Places}) \cup {sent + 1}
        BY <2>12, <2>13
      <4>2. ASSUME NEW u \in Places PROVE At(u) \subseteq UNION {At(v)' : v \in Places}
        BY <2>12, <2>13
      <4>3. sent + 1 \in UNION {At(v)' : v \in Places} BY <2>12
      <4> QED BY <4>1, <4>2, <4>3
    <3> QED BY <2>1, <2>4, <3>1, <3>2
  <2>15. ASSUME NEW u \in Places, NEW v \in Places, u # v PROVE At(u)' \cap At(v)' = {}
    <3>1. At(u) \cap At(v) = {} /\ sent + 1 \notin At(u) /\ sent + 1 \notin At(v)
      BY <1>3, <2>5, <2>15
    <3>2. CASE u = r
      <4>1. At(u)' = At(u) \cup {sent + 1} /\ At(v)' = At(v) BY <2>12, <2>13, <2>15, <3>2
      <4> QED BY <3>1, <4>1
    <3>3. CASE v = r
      <4>1. At(v)' = At(v) \cup {sent + 1} /\ At(u)' = At(u) BY <2>12, <2>13, <2>15, <3>3
      <4> QED BY <3>1, <4>1
    <3>4. CASE u # r /\ v # r BY <2>13, <3>1, <3>4
    <3> QED BY <3>2, <3>3, <3>4
  <2>16. \A x \in Queues : Distinct(odpq'[x]) BY <1>1, <2>1, <2>11
  <2>17. /\ \A x \in Queues : Distinct(odpq[x])'
         /\ \A l \in Levels : Distinct(stash[l])'
         /\ \A c \in Cores : Distinct(burst[c])'
    BY <1>1, <2>1, <2>16 DEF Distinct
  <2> QED BY <2>14, <2>15, <2>17 DEF EachEventOnce
<1>7. ASSUME NEW c \in Cores, NEW q \in Queues, NEW n \in 1..MaxBurst, DispatchRound(c, q, n)
      PROVE  EachEventOnce'
  <2> DEFINE f == SubSeq(odpq[q], 1, n)
             b == SubSeq(odpq[q], n + 1, Len(odpq[q]))
             F == {f[i].n : i \in 1..n}
  <2>1. n \in 0..Len(odpq[q]) BY <1>7 DEF DispatchRound
  <2>2. /\ f \in Seq(Event) /\ Len(f) = n /\ Distinct(f) /\ Distinct(b)
        /\ InSeq(odpq[q]) = InSeq(f) \cup InSeq(b) /\ InSeq(f) \cap InSeq(b) = {}
    BY <1>1, <2>1, Cut
  <2>3. /\ odpq' = [odpq EXCEPT ![q] = b] /\ UNCHANGED <<stash, rcvd, sent>> /\ pc[c] = "idle"
        /\ \/ burst' = burst /\ dropped' = dropped \cup F
           \/ burst' = [burst EXCEPT ![c] = f] /\ dropped' = dropped
    BY <1>7 DEF DispatchRound, agvars
  <2>4. InSeq(burst[c]) = {} BY <1>5, <2>3, Nothing DEF CoreOK
  <2>5. F = InSeq(f) BY <2>2, LenProperties DEF InSeq
  <2> HIDE DEF f, b, F
  <2> DEFINE p == <<"odpq", q>>
             s == <<"out", "rcvd">>
  <2>6. p \in Places /\ s \in Places /\ p # s BY PlacesAre
  <2>7. At(p) = InSeq(f) \cup At(p)' /\ InSeq(f) \cap At(p)' = {}
    <3>1. odpq'[q] = b BY <2>3
    <3> QED BY <2>2, <3>1, PlacesAre, PlacesAreNext
  <2>8. At(s) = {} \cup At(s)' /\ {} \cap At(s)' = {} BY <2>3, PlacesAre, PlacesAreNext
  <2>9. AllDistinct'
    <3>1. \A x \in Queues : Distinct(odpq'[x]) BY <1>1, <2>2, <2>3
    <3>2. \A d \in Cores : Distinct(burst'[d]) BY <1>1, <2>2, <2>3
    <3>3. \A l \in Levels : Distinct(stash'[l]) BY <1>1, <2>3
    <3> QED BY <3>1, <3>2, <3>3 DEF AllDistinct, Distinct
  <2>10. \A x \in Queues : x # q => odpq'[x] = odpq[x] BY <2>3
  <2>11. CASE burst' = burst /\ dropped' = dropped \cup F
    <3> DEFINE r == <<"out", "dropped">>
    <3>1. r \in Places /\ p # r /\ s # r /\ At(r)' = At(r) \cup InSeq(f) \cup {}
      BY <2>5, <2>11, PlacesAre, PlacesAreNext
    <3>2. \A u \in Places \ {p, s, r} : At(u)' = At(u)
      <4> SUFFICES ASSUME NEW u \in Places, u # p, u # s, u # r PROVE At(u)' = At(u) OBVIOUS
      <4>1. CASE \E x \in Queues : u = <<"odpq", x>> BY <2>10, <4>1, PlacesAre, PlacesAreNext
      <4>2. CASE \E l \in Levels : u = <<"stash", l>> BY <2>3, <4>2, PlacesAre, PlacesAreNext
      <4>3. CASE \E d \in Cores : u = <<"burst", d>> BY <2>11, <4>3, PlacesAre, PlacesAreNext
      <4> QED BY <4>1, <4>2, <4>3, PlacesAre
    <3> HIDE DEF p, s, r
    <3> QED BY <2>3, <2>6, <2>7, <2>8, <2>9, <3>1, <3>2, EventsMove
  <2>12. CASE burst' = [burst EXCEPT ![c] = f] /\ dropped' = dropped
    <3> DEFINE r == <<"burst", c>>
    <3>0. burst'[c] = f /\ \A d \in Cores : d # c => burst'[d] = burst[d] BY <2>12
    <3>1. r \in Places /\ p # r /\ s # r /\ At(r)' = At(r) \cup InSeq(f) \cup {}
      BY <2>4, <3>0, PlacesAre, PlacesAreNext
    <3>2. \A u \in Places \ {p, s, r} : At(u)' = At(u)
      <4> SUFFICES ASSUME NEW u \in Places, u # p, u # s, u # r PROVE At(u)' = At(u) OBVIOUS
      <4>1. CASE \E x \in Queues : u = <<"odpq", x>> BY <2>10, <4>1, PlacesAre, PlacesAreNext
      <4>2. CASE \E l \in Levels : u = <<"stash", l>> BY <2>3, <4>2, PlacesAre, PlacesAreNext
      <4>3. CASE \E d \in Cores : u = <<"burst", d>> BY <3>0, <4>3, PlacesAre, PlacesAreNext
      <4>4. CASE u = <<"out", "dropped">> BY <2>12, <4>4, PlacesAre, PlacesAreNext
      <4> QED BY <4>1, <4>2, <4>3, <4>4, PlacesAre
    <3> HIDE DEF p, s, r
    <3> QED BY <2>3, <2>6, <2>7, <2>8, <2>9, <3>1, <3>2, EventsMove
  <2> QED BY <2>3, <2>11, <2>12
<1>8. ASSUME NEW c \in Cores, EnqPut(c) PROVE EachEventOnce'
  <2> DEFINE l == PrioOf(Head(burst[c]).q)
             k == Min({Len(burst[c]), StashSize - Len(stash[l])})
             f == SubSeq(burst[c], 1, k)
             b == SubSeq(burst[c], k + 1, Len(burst[c]))
  <2>1. l \in Levels /\ k \in 0..Len(burst[c]) BY <1>8, PutFits DEF EnqPut
  <2>0. PICK m \in Levels : m = l BY <2>1
  <2>2. /\ stash' = [stash EXCEPT ![m] = @ \o f] /\ burst' = [burst EXCEPT ![c] = b]
        /\ UNCHANGED <<odpq, sent, rcvd, dropped>>
    BY <1>8, <2>0 DEF EnqPut, qvars, history
  <2> HIDE DEF l, k
  <2>3. /\ f \in Seq(Event) /\ Distinct(f) /\ Distinct(b)
        /\ InSeq(burst[c]) = InSeq(f) \cup InSeq(b) /\ InSeq(f) \cap InSeq(b) = {}
    BY <1>1, <2>1, Cut
  <2> HIDE DEF f, b
  <2> DEFINE p == <<"burst", c>>
             s == <<"out", "rcvd">>
             r == <<"stash", m>>
  <2>4. p \in Places /\ s \in Places /\ r \in Places /\ p # s /\ p # r /\ s # r BY <2>1, PlacesAre
  <2>5. At(p) = InSeq(burst[c]) /\ At(r) = InSeq(stash[m]) BY <2>1, PlacesAre
  <2>6. InSeq(stash[m]) \cap InSeq(f) = {}
    <3>1. At(p) \cap At(r) = {}
      <4> HIDE DEF p, s, r
      <4> QED BY <1>3, <2>4
    <3>2. InSeq(burst[c]) \cap InSeq(stash[m]) = {} BY <2>5, <3>1
    <3>3. InSeq(f) \subseteq InSeq(burst[c]) BY <2>3
    <3> QED BY <3>2, <3>3
  <2>7. InSeq(stash[m] \o f) = InSeq(stash[m]) \cup InSeq(f) /\ Distinct(stash[m] \o f)
    BY <1>1, <2>1, <2>3, <2>6, Join
  <2>8. /\ burst'[c] = b /\ \A d \in Cores : d # c => burst'[d] = burst[d]
        /\ stash'[m] = stash[m] \o f /\ \A l1 \in Levels : l1 # m => stash'[l1] = stash[l1]
    BY <2>1, <2>2
  <2>9. At(p) = InSeq(f) \cup At(p)' /\ InSeq(f) \cap At(p)' = {}
    BY <2>3, <2>5, <2>8, PlacesAreNext
  <2>10. At(s) = {} \cup At(s)' /\ {} \cap At(s)' = {} BY <2>2, PlacesAre, PlacesAreNext
  <2>11. At(r)' = At(r) \cup InSeq(f) \cup {}
    <3>1. At(r)' = InSeq(stash'[m]) BY <2>1, PlacesAreNext
    <3>2. At(r)' = InSeq(stash[m]) \cup InSeq(f) BY <2>7, <2>8, <3>1
    <3> HIDE DEF r
    <3> QED BY <2>5, <3>2
  <2>12. AllDistinct'
    <3>1. \A x \in Queues : Distinct(odpq'[x]) BY <1>1, <2>2
    <3>2. \A d \in Cores : Distinct(burst'[d]) BY <1>1, <2>3, <2>8
    <3>3. \A l1 \in Levels : Distinct(stash'[l1]) BY <1>1, <2>7, <2>8
    <3> QED BY <3>1, <3>2, <3>3 DEF AllDistinct, Distinct
  <2>13. \A u \in Places \ {p, s, r} : At(u)' = At(u)
    <3> SUFFICES ASSUME NEW u \in Places, u # p, u # s, u # r PROVE At(u)' = At(u) OBVIOUS
    <3>1. CASE \E x \in Queues : u = <<"odpq", x>> BY <2>2, <3>1, PlacesAre, PlacesAreNext
    <3>2. CASE \E l1 \in Levels : u = <<"stash", l1>> BY <2>8, <3>2, PlacesAre, PlacesAreNext
    <3>3. CASE \E d \in Cores : u = <<"burst", d>> BY <2>8, <3>3, PlacesAre, PlacesAreNext
    <3>4. CASE u = <<"out", "dropped">> BY <2>2, <3>4, PlacesAre, PlacesAreNext
    <3> QED BY <3>1, <3>2, <3>3, <3>4, PlacesAre
  <2>14. sent' = sent BY <2>2
  <2> HIDE DEF p, s, r, TypeOK
  <2> QED BY <2>4, <2>9, <2>10, <2>11, <2>12, <2>13, <2>14, EventsMove
<1>9. ASSUME NEW c \in Cores, EnqError(c) PROVE EachEventOnce'
  <2> DEFINE p == <<"burst", c>>
             s == <<"out", "rcvd">>
             r == <<"out", "dropped">>
             F == InSeq(burst[c])
  <2>1. /\ burst' = [burst EXCEPT ![c] = <<>>] /\ dropped' = dropped \cup F
        /\ UNCHANGED <<stash, odpq, sent, rcvd>>
    BY <1>9 DEF EnqError, qvars, InSeq
  <2>2. burst'[c] = <<>> /\ \A d \in Cores : d # c => burst'[d] = burst[d] BY <2>1
  <2>3. p \in Places /\ s \in Places /\ r \in Places /\ p # s /\ p # r /\ s # r BY PlacesAre
  <2>4. At(p) = F \cup At(p)' /\ F \cap At(p)' = {} BY <2>2, PlacesAre, PlacesAreNext, Nothing
  <2>5. At(s) = {} \cup At(s)' /\ {} \cap At(s)' = {} BY <2>1, PlacesAre, PlacesAreNext
  <2>6. At(r)' = At(r) \cup F \cup {} BY <2>1, PlacesAre, PlacesAreNext
  <2>7. AllDistinct'
    <3>1. \A x \in Queues : Distinct(odpq'[x]) BY <1>1, <2>1
    <3>2. \A d \in Cores : Distinct(burst'[d]) BY <1>1, <2>2, Nothing
    <3>3. \A m \in Levels : Distinct(stash'[m]) BY <1>1, <2>1
    <3> QED BY <3>1, <3>2, <3>3 DEF AllDistinct, Distinct
  <2>8. \A u \in Places \ {p, s, r} : At(u)' = At(u)
    <3> SUFFICES ASSUME NEW u \in Places, u # p, u # s, u # r PROVE At(u)' = At(u) OBVIOUS
    <3>1. CASE \E x \in Queues : u = <<"odpq", x>> BY <2>1, <3>1, PlacesAre, PlacesAreNext
    <3>2. CASE \E m \in Levels : u = <<"stash", m>> BY <2>1, <3>2, PlacesAre, PlacesAreNext
    <3>3. CASE \E d \in Cores : u = <<"burst", d>> BY <2>2, <3>3, PlacesAre, PlacesAreNext
    <3> QED BY <3>1, <3>2, <3>3, PlacesAre
  <2> HIDE DEF p, s, r, F
  <2> QED BY <2>1, <2>3, <2>4, <2>5, <2>6, <2>7, <2>8, EventsMove
<1>10. ASSUME NEW c \in Cores, Deq(c) PROVE EachEventOnce'
  <2> DEFINE h == IF attached \cap Hi # {} THEN Min({AgMaxBurst, Len(stash["hi"])}) ELSE 0
             k == Min({AgMaxBurst - h, Len(stash["lo"])})
             fh == SubSeq(stash["hi"], 1, h)
             fl == SubSeq(stash["lo"], 1, k)
             bh == SubSeq(stash["hi"], h + 1, Len(stash["hi"]))
             bl == SubSeq(stash["lo"], k + 1, Len(stash["lo"]))
             p == <<"stash", "hi">>
             s == <<"stash", "lo">>
             r == <<"burst", c>>
  <2>1. h \in 0..Len(stash["hi"]) /\ k \in 0..Len(stash["lo"]) BY DeqFits
  <2>2. /\ stash["hi"] \in Seq(Event) /\ stash["lo"] \in Seq(Event)
        /\ Distinct(stash["hi"]) /\ Distinct(stash["lo"])
    BY <1>1, <1>4
  <2>3. /\ fh \in Seq(Event) /\ fl \in Seq(Event)
        /\ Distinct(fh) /\ Distinct(fl) /\ Distinct(bh) /\ Distinct(bl)
        /\ InSeq(stash["hi"]) = InSeq(fh) \cup InSeq(bh) /\ InSeq(fh) \cap InSeq(bh) = {}
        /\ InSeq(stash["lo"]) = InSeq(fl) \cup InSeq(bl) /\ InSeq(fl) \cap InSeq(bl) = {}
    <3> HIDE DEF h, k
    <3> QED BY <2>1, <2>2, Cut
  <2>4. stash'["hi"] = bh /\ stash'["lo"] = bl
    <3>1. 1 + h = h + 1 /\ 1 + k = k + 1
      <4> HIDE DEF h, k
      <4> QED BY <2>1
    <3>2. stash' = [l \in Levels |-> SubSeq(stash[l], 1 + (IF l = "hi" THEN h ELSE k), Len(stash[l]))]
      BY <1>10 DEF Deq
    <3> HIDE DEF h, k
    <3> QED BY <3>1, <3>2 DEF Levels
  <2>5. burst' = [burst EXCEPT ![c] = fh \o fl] /\ pc[c] = "deq" /\ UNCHANGED <<odpq, sent, rcvd, dropped>>
    BY <1>10 DEF Deq, qvars, history
  <2> HIDE DEF h, k, fh, fl, bh, bl
  <2>6. p \in Places /\ s \in Places /\ r \in Places /\ p # s /\ p # r /\ s # r BY <1>4, PlacesAre
  <2>7. At(p) = InSeq(stash["hi"]) /\ At(s) = InSeq(stash["lo"]) BY <1>4, PlacesAre
  <2>8. InSeq(fh) \cap InSeq(fl) = {}
    <3>1. At(p) \cap At(s) = {}
      <4> HIDE DEF p, s, r
      <4> QED BY <1>3, <2>6
    <3>2. InSeq(stash["hi"]) \cap InSeq(stash["lo"]) = {} BY <2>7, <3>1
    <3>3. InSeq(fh) \subseteq InSeq(stash["hi"]) /\ InSeq(fl) \subseteq InSeq(stash["lo"]) BY <2>3
    <3> QED BY <3>2, <3>3
  <2>9. InSeq(fh \o fl) = InSeq(fh) \cup InSeq(fl) /\ Distinct(fh \o fl) BY <2>3, <2>8, Join
  <2>10. burst'[c] = fh \o fl /\ \A d \in Cores : d # c => burst'[d] = burst[d] BY <2>5
  <2>11. At(p) = InSeq(fh) \cup At(p)' /\ InSeq(fh) \cap At(p)' = {}
    BY <1>4, <2>3, <2>4, <2>7, PlacesAreNext
  <2>12. At(s) = InSeq(fl) \cup At(s)' /\ InSeq(fl) \cap At(s)' = {}
    BY <1>4, <2>3, <2>4, <2>7, PlacesAreNext
  <2>13. At(r)' = At(r) \cup InSeq(fh) \cup InSeq(fl)
    <3>1. InSeq(burst[c]) = {} BY <1>5, <2>5, Nothing DEF CoreOK
    <3>2. At(r) = InSeq(burst[c]) /\ At(r)' = InSeq(burst'[c]) BY PlacesAre, PlacesAreNext
    <3>3. At(r)' = InSeq(fh) \cup InSeq(fl) BY <2>9, <2>10, <3>2
    <3>4. At(r) = {} BY <3>1, <3>2
    <3> HIDE DEF r
    <3> QED BY <3>3, <3>4
  <2>14. AllDistinct'
    <3>1. \A x \in Queues : Distinct(odpq'[x]) BY <1>1, <2>5
    <3>2. \A d \in Cores : Distinct(burst'[d]) BY <1>1, <2>9, <2>10
    <3>3. \A m \in Levels : Distinct(stash'[m]) BY <2>3, <2>4 DEF Levels
    <3> QED BY <3>1, <3>2, <3>3 DEF AllDistinct, Distinct
  <2>15. \A u \in Places \ {p, s, r} : At(u)' = At(u)
    <3> SUFFICES ASSUME NEW u \in Places, u # p, u # s, u # r PROVE At(u)' = At(u) OBVIOUS
    <3>1. CASE \E x \in Queues : u = <<"odpq", x>> BY <2>5, <3>1, PlacesAre, PlacesAreNext
    <3>2. ~\E m \in Levels : u = <<"stash", m>> BY DEF Levels
    <3>3. CASE \E d \in Cores : u = <<"burst", d>> BY <2>10, <3>3, PlacesAre, PlacesAreNext
    <3>4. CASE u = <<"out", "dropped">> BY <2>5, <3>4, PlacesAre, PlacesAreNext
    <3>5. CASE u = <<"out", "rcvd">> BY <2>5, <3>5, PlacesAre, PlacesAreNext
    <3> QED BY <3>1, <3>2, <3>3, <3>4, <3>5, PlacesAre
  <2> HIDE DEF p, s, r
  <2> QED BY <2>5, <2>6, <2>11, <2>12, <2>13, <2>14, <2>15, EventsMove
<1>11. ASSUME NEW c \in Cores, Receive(c) PROVE EachEventOnce'
  <2> DEFINE a == burst[c]
             n == BatchSize(a)
             f == SubSeq(a, 1, n)
             b == SubSeq(a, n + 1, Len(a))
             F == {a[i] : i \in 1..n}
             p == <<"burst", c>>
             s == <<"out", "dropped">>
             r == <<"out", "rcvd">>
  <2>1. a \in Seq(Event) /\ a # <<>> /\ Distinct(a) BY <1>1, <1>5, <1>11 DEF CoreOK, Receive
  <2>2. n \in 0..Len(a)
    <3>1. n \in 1..Len(a) BY <2>1, BatchFits
    <3> HIDE DEF n, a
    <3> QED BY <3>1
  <2>3. /\ burst' = [burst EXCEPT ![c] = b] /\ rcvd' = rcvd \cup F
        /\ UNCHANGED <<odpq, stash, sent, dropped>>
    BY <1>11 DEF Receive, agvars, qvars
  <2> HIDE DEF n, a
  <2>4. /\ Distinct(b) /\ InSeq(f) = {a[i].n : i \in 1..n}
        /\ InSeq(a) = InSeq(f) \cup InSeq(b) /\ InSeq(f) \cap InSeq(b) = {}
    BY <2>1, <2>2, Cut
  <2>5. {e.n : e \in rcvd'} = {e.n : e \in rcvd} \cup InSeq(f)
    <3> DEFINE I == 1..n
    <3>3. {e.n : e \in {a[i] : i \in I}} = {a[i].n : i \in I}
      <4> HIDE DEF I
      <4> QED BY NumbersOf
    <3>1. {e.n : e \in F} = {a[i].n : i \in 1..n} BY <3>3
    <3> HIDE DEF F, f
    <3> QED BY ZenonT(40), <2>3, <2>4, <3>1
  <2> HIDE DEF f, b, F
  <2>6. p \in Places /\ s \in Places /\ r \in Places /\ p # s /\ p # r /\ s # r BY PlacesAre
  <2>7. burst'[c] = b /\ \A d \in Cores : d # c => burst'[d] = burst[d] BY <2>3
  <2>8. At(p) = InSeq(f) \cup At(p)' /\ InSeq(f) \cap At(p)' = {}
    BY <2>4, <2>7, PlacesAre, PlacesAreNext DEF a
  <2>9. At(s) = {} \cup At(s)' /\ {} \cap At(s)' = {} BY <2>3, PlacesAre, PlacesAreNext
  <2>10. At(r)' = At(r) \cup InSeq(f) \cup {} BY <2>5, PlacesAre, PlacesAreNext
  <2>11. AllDistinct'
    <3>1. \A x \in Queues : Distinct(odpq'[x]) BY <1>1, <2>3
    <3>2. \A d \in Cores : Distinct(burst'[d]) BY <1>1, <2>4, <2>7
    <3>3. \A m \in Levels : Distinct(stash'[m]) BY <1>1, <2>3
    <3> QED BY <3>1, <3>2, <3>3 DEF AllDistinct, Distinct
  <2>12. \A u \in Places \ {p, s, r} : At(u)' = At(u)
    <3> SUFFICES ASSUME NEW u \in Places, u # p, u # s, u # r PROVE At(u)' = At(u) OBVIOUS
    <3>1. CASE \E x \in Queues : u = <<"odpq", x>> BY <2>3, <3>1, PlacesAre, PlacesAreNext
    <3>2. CASE \E m \in Levels : u = <<"stash", m>> BY <2>3, <3>2, PlacesAre, PlacesAreNext
    <3>3. CASE \E d \in Cores : u = <<"burst", d>> BY <2>7, <3>3, PlacesAre, PlacesAreNext
    <3> QED BY <3>1, <3>2, <3>3, PlacesAre
  <2> HIDE DEF p, s, r
  <2> QED BY <2>3, <2>6, <2>8, <2>9, <2>10, <2>11, <2>12, EventsMove
<1>12. CASE GroupDelete
  <2>1. /\ UNCHANGED <<odpq, burst, sent, rcvd>> /\ attached = {}
        /\ stash' = [l \in Levels |-> <<>>]
        /\ dropped' = dropped \cup UNION {InSeq(stash[l]) : l \in Levels}
    BY <1>12 DEF GroupDelete, qvars, corevars, InSeq
  <2>2. \A l \in Levels : stash[l] = <<>> BY <2>1, GroupQuiet
  <2>3. stash' = stash BY <2>1, <2>2
  <2>4. \A l \in Levels : InSeq(stash[l]) = {} BY <2>2, Nothing
  <2>5. dropped' = dropped BY <2>1, <2>4
  <2> QED BY <1>2, <2>1, <2>3, <2>5
<1>13. ASSUME NEW c \in Cores, ScheduleNone(c) PROVE EachEventOnce'
  BY <1>2, <1>13 DEF ScheduleNone, agvars, corevars, history
<1>14. ASSUME NEW c \in Cores,
              AcquireIfIdle(c) \/ EnqCount(c) \/ Trylock(c) \/ DeqCount(c) \/ Unlock(c)
       PROVE  EachEventOnce'
  BY <1>2, <1>14 DEF AcquireIfIdle, EnqCount, Trylock, DeqCount, Unlock, qvars, history
<1>15. ASSUME NEW c \in Cores, ReceiveDone(c) \/ ProcessingEnd(c) PROVE EachEventOnce'
  BY <1>2, <1>15 DEF ReceiveDone, ProcessingEnd, agvars, qvars, history
<1>16. ASSUME NEW Q \in Stoppable, StopQueues(Q) \/ \E c \in Cores : AckStop(c, Q) PROVE EachEventOnce'
  BY <1>2, <1>16 DEF StopQueues, AckStop, agvars, corevars, history
<1>17. ASSUME NEW q \in Queues, QueueDelete(q) PROVE EachEventOnce'
  BY <1>2, <1>17 DEF QueueDelete, corevars, history
<1>18. CASE UNCHANGED vars BY <1>2, <1>18 DEF vars, agvars, qvars, corevars, history
<1> QED
  BY <1>6, <1>7, <1>8, <1>9, <1>10, <1>11, <1>12, <1>13, <1>14, <1>15, <1>16, <1>17, <1>18
  DEF Next, CoreStep

-----------------------------------------------------------------------------
(* The theorems. *)

\* The initial state satisfies the inductive invariant.
LEMMA InitIInv == Init => IInv
<1> SUFFICES ASSUME Init PROVE IInv OBVIOUS
<1> USE DEF Init
<1>1. <<>> \in Seq(Event) /\ Len(<<>>) = 0 BY Nothing
<1>2. TypeOK
  <2>1. Len(<<>>) <= StashSize BY <1>1, GroupAssumption
  <2> QED BY <1>1, <2>1, GroupAssumption DEF TypeOK, QStates, Steps
<1>3. BurstInv BY Nothing DEF BurstInv, CoreOK
<1>4. LockInv BY DEF LockInv, HoldsLock
<1>5. CountCoversStash
  <2>1. Counting = {} BY DEF Counting
  <2>2. Slots(Counting, Lens) = {} BY <2>1 DEF Slots
  <2>3. Cardinality(Slots(Counting, Lens)) = 0 BY <2>2, FS_EmptySet
  <2>4. stash["hi"] = <<>> /\ stash["lo"] = <<>> BY DEF Levels
  <2>5. Len(stash["hi"]) = 0 /\ Len(stash["lo"]) = 0 BY <1>1, <2>4
  <2>6. evcnt = 0 OBVIOUS
  <2> DEFINE n == Cardinality(Slots(Counting, Lens))
  <2> HIDE DEF Init, n
  <2>7. n = 0 BY <2>3 DEF n
  <2>8. evcnt = Len(stash["hi"]) + Len(stash["lo"]) + n BY <2>5, <2>6, <2>7
  <2> QED BY <2>8 DEF CountCoversStash, n
<1>6. SomebodyComes BY DEF SomebodyComes
<1>7. StopInv BY GroupAssumption DEF StopInv, AtGroup
<1>8. EachEventOnce
  <2>1. \A u \in Places : At(u) = {}
    <3> SUFFICES ASSUME NEW u \in Places PROVE At(u) = {} OBVIOUS
    <3>1. CASE \E x \in Queues : u = <<"odpq", x>> BY <3>1, PlacesAre, Nothing
    <3>2. CASE \E m \in Levels : u = <<"stash", m>> BY <3>2, PlacesAre, Nothing
    <3>3. CASE \E d \in Cores : u = <<"burst", d>> BY <3>3, PlacesAre, Nothing
    <3>4. CASE u = <<"out", "dropped">> BY <3>4, PlacesAre
    <3>5. CASE u = <<"out", "rcvd">> BY <3>5, PlacesAre
    <3> QED BY <3>1, <3>2, <3>3, <3>4, <3>5, PlacesAre
  <2>2. UNION {At(u) : u \in Places} = {} BY <2>1
  <2>3. UNION {At(u) : u \in Places} = 1..sent BY <2>2
  <2>4. /\ \A q \in Queues : Distinct(odpq[q])
        /\ \A l \in Levels : Distinct(stash[l])
        /\ \A c \in Cores : Distinct(burst[c])
    BY Nothing
  <2> QED BY <2>1, <2>3, <2>4 DEF EachEventOnce
<1> QED BY <1>2, <1>3, <1>4, <1>5, <1>6, <1>7, <1>8 DEF IInv

\* Every step keeps it.
LEMMA NextIInv == IInv /\ [Next]_vars => IInv'
<1> SUFFICES ASSUME IInv, [Next]_vars PROVE IInv' OBVIOUS
<1> USE DEF IInv
<1>1. TypeOK' BY TypeStep
<1>2. BurstInv' BY BurstStep
<1>3. LockInv' BY <1>1, <1>2, LockStep
<1>4. CountCoversStash' BY <1>1, <1>2, CountStep
<1>5. SomebodyComes' BY ComesStep
<1>6. StopInv' BY <1>1, <1>2, StopStep
<1>7. EachEventOnce' BY <1>1, OnceStep
<1> QED BY <1>1, <1>2, <1>3, <1>4, <1>5, <1>6, <1>7

\* What AtomicGroupInv says follows from the inductive invariant.
LEMMA InvFollows == IInv => AtomicGroupInv
<1> SUFFICES ASSUME IInv PROVE AtomicGroupInv OBVIOUS
<1> USE DEF IInv
<1> DEFINE H == {c \in Cores : HoldsLock(c)}
<1>1. LockHasOneHolder
  <2>1. CASE lock = 1
    <3>1. PICK c \in Cores : HoldsLock(c) BY <2>1 DEF LockInv
    <3>2. H = {c} BY <3>1 DEF LockInv
    <3>3. Cardinality(H) = 1 BY <3>2, FS_Singleton
    <3> QED BY <2>1, <3>3 DEF LockHasOneHolder
  <2>2. CASE lock = 0
    <3>1. H = {} BY <2>2 DEF LockInv
    <3>2. Cardinality(H) = 0 BY <3>1, FS_EmptySet
    <3> QED BY <2>2, <3>2 DEF LockHasOneHolder
  <2> QED BY <2>1, <2>2 DEF TypeOK
<1>2. NothingStranded
  <2> SUFFICES ASSUME \A c \in Cores : pc[c] = "idle"
               PROVE  lock = 0 /\ evcnt = 0 /\ stash = [l \in Levels |-> <<>>]
    BY DEF NothingStranded
  <2>1. \A c \in Cores : ~HoldsLock(c) BY DEF HoldsLock
  <2>2. lock = 0 BY <2>1 DEF LockInv, TypeOK
  <2>3. \A c \in Cores : ~released[c] BY DEF BurstInv, CoreOK
  <2>4. evcnt = 0 BY <2>2, <2>3 DEF SomebodyComes, TypeOK
  <2>5. Counting = {} BY DEF Counting
  <2>6. Slots(Counting, Lens) = {} BY <2>5 DEF Slots
  <2>7. Cardinality(Slots(Counting, Lens)) = 0 BY <2>6, FS_EmptySet
  <2> DEFINE h == Len(stash["hi"])
             l == Len(stash["lo"])
  <2>8. h \in Nat /\ l \in Nat BY Nothing DEF TypeOK, Levels
  <2>9. 0 = h + l + 0 BY <2>4, <2>7 DEF CountCoversStash
  <2> HIDE DEF h, l
  <2>10. h = 0 /\ l = 0 BY <2>8, <2>9
  <2>11. stash["hi"] = <<>> /\ stash["lo"] = <<>> BY <2>10, Nothing DEF h, l, TypeOK, Levels
  <2>12. stash = [m \in Levels |-> <<>>] BY <2>11 DEF TypeOK, Levels
  <2> QED BY <2>2, <2>4, <2>12
<1>3. FreedGroupUnused
  <2> SUFFICES ASSUME ~alive, NEW c \in Cores
               PROVE  \/ pc[c] = "idle" \/ cur[c] \in Queues \ Group
                      \/ (burst[c] # <<>> /\ burst[c][1].q \notin Group)
    BY DEF FreedGroupUnused
  <2>1. ~AtGroup(c)
    <3>1. attached = {} BY DEF StopInv
    <3> QED BY <3>1, GroupQuiet
  <2>2. burst[c] \in Seq(Event) /\ CoreOK(pc[c], burst[c], cur[c], released[c]) /\ pc[c] \in Steps
    BY DEF TypeOK, BurstInv
  <2>3. pc[c] \in {"idle", "run", "rcv"} BY <2>1, <2>2 DEF AtGroup, Steps
  <2>4. CASE pc[c] = "run"
    <3>1. ~AllIn(burst[c], Group) /\ burst[c] # <<>> BY <2>1, <2>2, <2>4 DEF AtGroup, CoreOK
    <3>2. burst[c][1].q \notin Group BY <2>2, <3>1, WhoseBurst DEF CoreOK
    <3> QED BY <3>1, <3>2
  <2>5. CASE pc[c] = "rcv" BY <2>1, <2>2, <2>5 DEF AtGroup, CoreOK
  <2> QED BY <2>3, <2>4, <2>5
<1> QED BY <1>1, <1>2, <1>3 DEF AtomicGroupInv

\* The inductive invariant holds in every reachable state.
THEOREM AtomicGroupInductive == Spec => []IInv
<1> QED BY InitIInv, NextIInv, PTL DEF Spec

\* For any number of cores, queues, events and any burst and stash sizes: the
\* lock bit of the atomic group has exactly one holder while it is set, the event
\* count covers the stashes, ag_unlock() strands no event, every event is in
\* exactly one place and nobody is at work on a group that was freed.
THEOREM AtomicGroupCorrect == Spec => []AtomicGroupInv
<1> QED BY AtomicGroupInductive, InvFollows, PTL

-----------------------------------------------------------------------------
(* Exclusive receive calls. *)

\* A step of one core takes no atomic context from another one.
LEMMA OwnKept ==
  ASSUME TypeOK, NEW c \in Cores, CoreStep(c) \/ ProcessingEnd(c), NEW d \in Cores, d # c
  PROVE  Own(d) \subseteq Own(d)'
<1> USE DEF TypeOK, Own
<1>1. ASSUME ctx' = ctx PROVE Own(d) \subseteq Own(d)' BY <1>1
<1>2. ASSUME ctx' = ReleaseCtx(c) PROVE Own(d) \subseteq Own(d)' BY <1>2 DEF ReleaseCtx
<1>3. ASSUME NEW q \in Queues, NEW n \in 1..MaxBurst, DispatchRound(c, q, n)
      PROVE  Own(d) \subseteq Own(d)'
  <2>1. ctx' = [ReleaseCtx(c) EXCEPT ![q] = c] /\ ctx[q] \in {None, c} BY <1>3 DEF DispatchRound
  <2>2. None \notin Cores BY GroupAssumption
  <2> QED BY <2>1, <2>2 DEF ReleaseCtx
<1>4. CASE AcquireIfIdle(c) \/ Trylock(c) \/ ScheduleNone(c) \/ ProcessingEnd(c)
  <2>1. ctx' = ctx \/ ctx' = ReleaseCtx(c)
    BY <1>4 DEF AcquireIfIdle, Trylock, ScheduleNone, ProcessingEnd
  <2> QED BY <1>1, <1>2, <2>1
<1>5. CASE EnqCount(c) \/ EnqPut(c) \/ EnqError(c) \/ Deq(c) \/ DeqCount(c) \/ Receive(c)
             \/ ReceiveDone(c) \/ Unlock(c)
  <2>1. ctx' = ctx
    BY <1>5 DEF EnqCount, EnqPut, EnqError, Deq, DeqCount, Receive, ReceiveDone, Unlock, qvars
  <2> QED BY <1>1, <2>1
<1> QED BY <1>3, <1>4, <1>5 DEF CoreStep

\* Every step keeps ExclInv.
LEMMA ExclStep ==
  ASSUME NoPartialBatch, TypeOK, BurstInv, ExclInv, [Next]_vars
  PROVE  ExclInv'
<1> USE DEF TypeOK
<1>1. TypeOK /\ BurstInv OBVIOUS
<1> DEFINE OK(c) == CallOK(pc[c], burst[c], bcnt[c], cur[c], mid[c], released[c], ended[c], Own(c))
<1>2. \A c \in Cores : OK(c) BY DEF ExclInv
<1>3. \A c \in Cores : CoreOK(pc[c], burst[c], cur[c], released[c]) BY <1>1 DEF BurstInv
<1>4. ASSUME NEW c \in Cores, CoreStep(c) \/ ProcessingEnd(c), OK(c)' PROVE ExclInv'
  <2>1. ASSUME NEW d \in Cores, d # c PROVE OK(d)'
    <3>1. Own(d) \subseteq Own(d)' BY <1>1, <1>4, <2>1, OwnKept
    <3>2. OK(d) BY <1>2
    <3>3. /\ pc'[d] = pc[d] /\ burst'[d] = burst[d] /\ bcnt'[d] = bcnt[d] /\ cur'[d] = cur[d]
          /\ mid'[d] = mid[d] /\ released'[d] = released[d] /\ ended'[d] = ended[d]
      BY <1>1, <1>4, <2>1, OnlyOwn
    <3> QED BY <3>1, <3>2, <3>3 DEF CallOK
  <2> QED BY <1>4, <2>1 DEF ExclInv
<1>5. ASSUME UNCHANGED <<ctx, corevars>> PROVE ExclInv' BY <1>5 DEF ExclInv, Own, corevars
<1>6. \A c \in Cores : ~mid[c] /\ (Multi = {} \/ Len(burst[c]) <= MaxEvents) BY <1>2 DEF CallOK
<1>7. ASSUME NEW c \in Cores, NEW q \in Queues, NEW n \in 1..MaxBurst, DispatchRound(c, q, n) PROVE ExclInv'
  <2> DEFINE f == SubSeq(odpq[q], 1, n)
  <2>1. n \in 1..Len(odpq[q]) /\ n \in 0..Len(odpq[q]) /\ n # 0 BY <1>7 DEF DispatchRound
  <2>2. f \in Seq(Event) /\ Len(f) = n /\ AllIn(f, {q}) BY <1>1, <2>1, Cut DEF BurstInv
  <2>3. /\ UNCHANGED <<cur, mid, released, ended>> /\ pc[c] = "idle" /\ ctx'[q] = c
        /\ \/ UNCHANGED <<pc, burst, bcnt>>
           \/ /\ burst'[c] = f
              /\ IF q \in Group THEN pc'[c] = "acquire" ELSE pc'[c] = "run" /\ bcnt'[c] = n
    BY <1>7 DEF DispatchRound, ReleaseCtx
  <2> HIDE DEF f
  <2>4. f[1].q = q
    <3>1. DOMAIN f = 1..n BY <2>2, LenProperties
    <3>2. 1 \in DOMAIN f BY <2>1, <3>1
    <3> QED BY <2>2, <3>2 DEF AllIn
  <2>5. Multi = {} \/ n <= MaxEvents BY GroupAssumption DEF NoPartialBatch
  <2>6. q \in Own(c)' BY <2>3 DEF Own
  <2>7. ~released[c] BY <1>3, <2>3 DEF CoreOK
  <2>8. CASE UNCHANGED <<pc, burst, bcnt>> BY <1>4, <1>6, <1>7, <2>3, <2>8 DEF CallOK, CoreStep
  <2>9. CASE burst'[c] = f /\ IF q \in Group THEN pc'[c] = "acquire" ELSE pc'[c] = "run" /\ bcnt'[c] = n
    <3>1. OK(c)' BY <1>6, <2>2, <2>3, <2>4, <2>5, <2>6, <2>7, <2>9 DEF CallOK
    <3> QED BY <1>4, <1>7, <3>1 DEF CoreStep
  <2> QED BY <2>3, <2>8, <2>9
<1>8. ASSUME NEW c \in Cores, ScheduleNone(c) PROVE ExclInv'
  <2>1. pc[c] = "idle" /\ UNCHANGED corevars BY <1>8 DEF ScheduleNone
  <2>2. OK(c)' BY <1>2, <2>1 DEF CallOK, corevars
  <2> QED BY <1>4, <1>8, <2>2 DEF CoreStep
<1>9. ASSUME NEW c \in Cores, AcquireIfIdle(c) PROVE ExclInv'
  <2>1. /\ UNCHANGED <<burst, cur, mid, released, ended>> /\ pc[c] = "acquire"
        /\ \/ pc'[c] = "run" /\ bcnt'[c] = Len(burst[c])
           \/ pc'[c] = "count"
    BY <1>9 DEF AcquireIfIdle
  <2>2. AllIn(burst[c], Group) /\ ~released[c] BY <1>3, <2>1 DEF CoreOK
  <2>3. OK(c)' BY <1>6, <2>1, <2>2 DEF CallOK
  <2> QED BY <1>4, <1>9, <2>3 DEF CoreStep
<1>10. ASSUME NEW c \in Cores, EnqCount(c) \/ Trylock(c) \/ Unlock(c) PROVE ExclInv'
  <2>1. pc'[c] \in {"put", "deq", "idle"} /\ UNCHANGED <<burst, mid>>
    BY <1>10 DEF EnqCount, Trylock, Unlock
  <2>2. OK(c)' BY <1>6, <2>1 DEF CallOK
  <2> QED BY <1>4, <1>10, <2>2 DEF CoreStep
<1>11. ASSUME NEW c \in Cores, EnqPut(c) PROVE ExclInv'
  <2> DEFINE l == PrioOf(Head(burst[c]).q)
             k == Min({Len(burst[c]), StashSize - Len(stash[l])})
             b == SubSeq(burst[c], k + 1, Len(burst[c]))
  <2>1. k \in 0..Len(burst[c]) BY <1>1, <1>11, PutFits DEF EnqPut
  <2>2. burst'[c] = b /\ pc'[c] \in {"uncount", "trylock"} /\ mid' = mid BY <1>11 DEF EnqPut
  <2> HIDE DEF l, k
  <2>3. Len(b) = Len(burst[c]) - k BY <2>1, Cut
  <2> HIDE DEF b
  <2>4. Len(burst[c]) \in Nat /\ MaxEvents \in Nat BY Nothing, GroupAssumption
  <2>5. Multi = {} \/ Len(b) <= MaxEvents
    <3> DEFINE n == Len(burst[c])
    <3>1. n \in Nat /\ k \in 0..n /\ Len(b) = n - k BY <2>1, <2>3, <2>4
    <3>2. Multi = {} \/ n <= MaxEvents BY <1>6
    <3> HIDE DEF n, TypeOK
    <3> QED BY <2>4, <3>1, <3>2
  <2>6. OK(c)' BY <1>6, <2>2, <2>5 DEF CallOK
  <2> QED BY <1>4, <1>11, <2>6 DEF CoreStep
<1>12. ASSUME NEW c \in Cores, EnqError(c) PROVE ExclInv'
  <2>1. burst'[c] = <<>> /\ pc'[c] = "trylock" /\ mid' = mid BY <1>12 DEF EnqError
  <2>2. Multi = {} \/ Len(<<>>) <= MaxEvents BY Nothing, GroupAssumption
  <2>3. OK(c)' BY <1>6, <2>1, <2>2 DEF CallOK
  <2> QED BY <1>4, <1>12, <2>3 DEF CoreStep
<1>13. ASSUME NEW c \in Cores, Deq(c) PROVE ExclInv'
  <2> DEFINE h == IF attached \cap Hi # {} THEN Min({AgMaxBurst, Len(stash["hi"])}) ELSE 0
             k == Min({AgMaxBurst - h, Len(stash["lo"])})
             fh == SubSeq(stash["hi"], 1, h)
             fl == SubSeq(stash["lo"], 1, k)
  <2>1. h \in 0..Len(stash["hi"]) /\ k \in 0..Len(stash["lo"]) /\ h + k <= AgMaxBurst
    BY <1>1, DeqFits
  <2>2. stash["hi"] \in Seq(Event) /\ stash["lo"] \in Seq(Event) BY <1>1 DEF Levels
  <2>3. fh \in Seq(Event) /\ fl \in Seq(Event) /\ Len(fh) = h /\ Len(fl) = k
    <3> HIDE DEF h, k
    <3> QED BY <2>1, <2>2, Cut
  <2>4. Len(fh \o fl) = h + k
    <3> HIDE DEF fh, fl, h, k
    <3> QED BY <2>3, Join
  <2>5. burst'[c] = fh \o fl /\ pc'[c] = "sub" /\ mid' = mid BY <1>13 DEF Deq
  <2> HIDE DEF h, k, fh, fl
  <2>6. Multi = {} \/ h + k <= MaxEvents
    <3>1. h \in Int /\ k \in Int /\ AgMaxBurst \in Int /\ MaxEvents \in Int BY <2>1, GroupAssumption
    <3> QED BY <2>1, <3>1 DEF NoPartialBatch
  <2>7. OK(c)' BY <1>6, <2>4, <2>5, <2>6 DEF CallOK
  <2> QED BY <1>4, <1>13, <2>7 DEF CoreStep
<1>14. ASSUME NEW c \in Cores, DeqCount(c) PROVE ExclInv'
  <2>1. /\ UNCHANGED <<burst, cur, mid, released, ended>> /\ pc[c] = "sub"
        /\ pc'[c] = (IF burst[c] = <<>> THEN "unlock" ELSE "run")
        /\ burst[c] # <<>> => bcnt'[c] = Len(burst[c])
    BY <1>14 DEF DeqCount
  <2>2. AllIn(burst[c], Group) /\ ~released[c] BY <1>3, <2>1 DEF CoreOK
  <2>3. OK(c)' BY <1>6, <2>1, <2>2 DEF CallOK
  <2> QED BY <1>4, <1>14, <2>3 DEF CoreStep
<1>15. ASSUME NEW c \in Cores, Receive(c) PROVE ExclInv'
  <2> DEFINE s == burst[c]
             n == BatchSize(s)
             b == SubSeq(s, n + 1, Len(s))
  <2>1. s \in Seq(Event) /\ s # <<>> /\ pc[c] = "run" BY <1>1, <1>3, <1>15 DEF CoreOK, Receive
  <2>2. /\ CountSame(s) \in 1..Len(s) /\ n \in 1..Len(s)
        /\ s[1].q \in Multi => n = IF CountSame(s) <= MaxEvents THEN CountSame(s) ELSE MaxEvents
    BY <2>1, BatchFits
  <2>3. /\ burst'[c] = b /\ cur'[c] = s[1].q /\ pc'[c] = "rcv" /\ ended'[c] = FALSE
        /\ mid'[c] = (s[1].q \in Multi /\ n < CountSame(s)) /\ bcnt'[c] = BurstLeft(c)
        /\ UNCHANGED <<released, ctx>>
    BY <1>15 DEF Receive, qvars
  <2>4. BurstLeft(c) = Len(s) - n BY <1>2, <1>6, <2>1 DEF BurstLeft, CallOK
  <2>5. Multi = {} \/ Len(s) <= MaxEvents BY <1>6
  <2>6. ~released[c] /\ (AllIn(s, Group) \/ (AllIn(s, {s[1].q}) /\ s[1].q \in Own(c)))
    BY <1>2, <2>1 DEF CallOK
  <2>7. Own(c)' = Own(c) BY <2>3 DEF Own
  <2> DEFINE m == CountSame(s)
  <2> HIDE DEF n, s, m
  <2>8. Len(s) \in Nat /\ MaxEvents \in Nat /\ n \in Nat BY <2>1, <2>2, Nothing, GroupAssumption
  <2>9. n \in 0..Len(s) BY <2>2, <2>8
  <2>10. Len(b) = Len(s) - n /\ \A Q : AllIn(s, Q) => AllIn(b, Q) BY <2>1, <2>9, Cut
  <2> HIDE DEF b
  <2>11. ~(s[1].q \in Multi /\ n < m)
    <3>1. m \in 1..Len(s) /\ (s[1].q \in Multi => n = IF m <= MaxEvents THEN m ELSE MaxEvents)
      BY <2>2 DEF m
    <3> QED BY <2>5, <2>8, <3>1
  <2>12. Multi = {} \/ Len(b) <= MaxEvents BY <2>5, <2>8, <2>9, <2>10
  <2>13. s[1].q \notin Group => AllIn(b, {s[1].q}) /\ s[1].q \in Own(c)
    <3>1. AllIn(s, Group) => s[1].q \in Group BY <2>1, WhoseBurst
    <3> QED BY <2>6, <2>10, <3>1
  <2>14. /\ ~mid'[c] /\ burst'[c] = b /\ cur'[c] = s[1].q /\ pc'[c] = "rcv" /\ ~ended'[c]
         /\ bcnt'[c] = Len(b) /\ ~released'[c]
    BY <2>3, <2>4, <2>6, <2>10, <2>11 DEF m
  <2>15. OK(c)' BY <2>7, <2>12, <2>13, <2>14 DEF CallOK
  <2> QED BY <1>4, <1>15, <2>15 DEF CoreStep
<1>16. ASSUME NEW c \in Cores, ProcessingEnd(c) PROVE ExclInv'
  <2>1. /\ UNCHANGED <<pc, burst, bcnt, cur, mid>> /\ pc[c] = "rcv" /\ bcnt[c] = 0 /\ ended'[c]
    BY <1>16 DEF ProcessingEnd
  <2>2. burst[c] = <<>> BY <1>2, <2>1, Nothing DEF CallOK
  <2>3. cur[c] \notin Group => AllIn(burst[c], {cur[c]}) BY <2>2, Nothing
  <2>4. OK(c)' BY <1>2, <2>1, <2>2, <2>3 DEF CallOK
  <2> QED BY <1>4, <1>16, <2>4
<1>17. ASSUME NEW c \in Cores, ReceiveDone(c) PROVE ExclInv'
  <2>1. /\ UNCHANGED <<burst, bcnt, mid, released, ctx>> /\ pc[c] = "rcv"
        /\ pc'[c] = IF burst[c] # <<>> THEN "run" ELSE IF cur[c] \in Group THEN "unlock" ELSE "idle"
    BY <1>17 DEF ReceiveDone, qvars
  <2>2. Own(c)' = Own(c) BY <2>1 DEF Own
  <2>3. CASE burst[c] = <<>> BY <1>4, <1>6, <1>17, <2>1, <2>3 DEF CallOK, CoreStep
  <2>4. CASE burst[c] # <<>>
    <3>1. /\ ~ended[c] /\ ~released[c] /\ bcnt[c] = Len(burst[c])
          /\ cur[c] \notin Group => AllIn(burst[c], {cur[c]}) /\ cur[c] \in Own(c)
      BY <1>2, <2>1, <2>4 DEF CallOK
    <3>2. cur[c] \in Group => AllIn(burst[c], Group) BY <1>3, <2>1, <2>4 DEF CoreOK
    <3>3. cur[c] \notin Group => burst[c][1].q = cur[c]
      <4>1. Len(burst[c]) \in Nat /\ Len(burst[c]) # 0 /\ DOMAIN burst[c] = 1..Len(burst[c])
        BY <2>4, Nothing, LenProperties
      <4>2. 1 \in DOMAIN burst[c] BY <4>1
      <4> QED BY <3>1, <4>2 DEF AllIn
    <3>4. OK(c)' BY <1>6, <2>1, <2>2, <2>4, <3>1, <3>2, <3>3 DEF CallOK
    <3> QED BY <1>4, <1>17, <3>4 DEF CoreStep
  <2> QED BY <2>3, <2>4
<1>18. ASSUME NEW q \in Queues, NEW g \in Tags, Send(q, g) PROVE ExclInv'
  BY <1>5, <1>18 DEF Send
<1>19. ASSUME NEW Q \in Stoppable, StopQueues(Q) \/ \E c \in Cores : AckStop(c, Q) PROVE ExclInv'
  BY <1>5, <1>19 DEF StopQueues, AckStop
<1>20. ASSUME NEW q \in Queues, QueueDelete(q) PROVE ExclInv'
  BY <1>5, <1>20 DEF QueueDelete
<1>21. CASE GroupDelete BY <1>5, <1>21 DEF GroupDelete, qvars
<1>22. CASE UNCHANGED vars BY <1>5, <1>22 DEF vars, qvars
<1> QED
  BY <1>7, <1>8, <1>9, <1>10, <1>11, <1>12, <1>13, <1>14, <1>15, <1>16, <1>17, <1>18, <1>19,
     <1>20, <1>21, <1>22 DEF Next, CoreStep

\* Receive calls that have not ended their atomic processing do not overlap.
LEMMA ExclFollows == IInv /\ ExclInv => ExclusiveReceive
<1> SUFFICES ASSUME IInv, ExclInv, NEW c \in Cores, NEW d \in Cores, c # d,
                    pc[c] = "rcv", pc[d] = "rcv", ~ended[c], ~ended[d]
             PROVE  cur[c] # cur[d] /\ ~({cur[c], cur[d]} \subseteq Group)
  BY DEF ExclusiveReceive
<1>1. LockInv BY DEF IInv
<1>2. \A x \in {c, d} : ~released[x] /\ (cur[x] \notin Group => ctx[cur[x]] = x)
  BY DEF ExclInv, CallOK, Own
<1>3. \A x \in {c, d} : cur[x] \in Group => HoldsLock(x) BY <1>2 DEF HoldsLock
<1>4. ~(cur[c] \in Group /\ cur[d] \in Group) BY <1>1, <1>3 DEF LockInv
<1>5. ASSUME cur[c] = cur[d] PROVE FALSE BY <1>2, <1>4, <1>5
<1> QED BY <1>4, <1>5

\* Whatever the number of cores, queues and events: as long as no receive
\* function gets an event group in a trailing partial batch, receive calls of one
\* atomic queue, or of one atomic group, do not overlap.
THEOREM ExclusiveReceiveHolds ==
  ASSUME NoPartialBatch
  PROVE  Spec => []ExclusiveReceive
<1>1. Init => ExclInv
  <2> SUFFICES ASSUME Init PROVE ExclInv OBVIOUS
  <2>1. Multi = {} \/ Len(<<>>) <= MaxEvents BY Nothing, GroupAssumption
  <2> QED BY <2>1 DEF Init, ExclInv, CallOK
<1>2. IInv /\ ExclInv /\ [Next]_vars => ExclInv' BY ExclStep DEF IInv
<1>3. IInv /\ ExclInv => ExclusiveReceive BY ExclFollows
<1> QED BY <1>1, <1>2, <1>3, AtomicGroupInductive, PTL DEF Spec
-----------------------------------------------------------------------------
(* The order of receive calls. *)

\* The events of a sequence.
Ev(s) == {s[i] : i \in DOMAIN s}

\* Events of one queue are in the order in which they were sent.
Sorted(s)   == \A i, j \in DOMAIN s : i < j /\ s[i].q = s[j].q => s[i].n < s[j].n
Ahead(A, B) == \A e \in A, f \in B : e.q = f.q => e.n < f.n

\* The core has events of a queue of the group and the ODP context of that
\* queue, or events it is going to receive.
Fetching(c) == pc[c] \in {"acquire", "count", "put"}
Working(c)  == pc[c] \in {"sub", "run", "rcv"}

\* What is received comes before what a core is going to receive, that before
\* what is in the stashes, that before what a core has fetched, and that before
\* what is in the ODP queues.
QueueOrder(q) == Sorted(odpq[q]) /\ Ahead(rcvd, Ev(odpq[q]))
StashOrder(l) ==
  /\ Sorted(stash[l]) /\ Ahead(rcvd, Ev(stash[l]))
  /\ \A e \in Ev(stash[l]) : PrioOf(e.q) = l
  /\ \A q \in Queues : Ahead(Ev(stash[l]), Ev(odpq[q]))
BurstOrder(c) ==
  /\ Sorted(burst[c]) /\ Ahead(rcvd, Ev(burst[c]))
  /\ \A q \in Queues : Ahead(Ev(burst[c]), Ev(odpq[q]))
FetchOrder(c) ==
  /\ \A e \in Ev(burst[c]) : e.q = burst[c][1].q /\ ctx[e.q] = c
  /\ \A l \in Levels : Ahead(Ev(stash[l]), Ev(burst[c]))
  /\ \A d \in Cores : Working(d) => Ahead(Ev(burst[d]), Ev(burst[c]))
WorkOrder(c) == \A l \in Levels : Ahead(Ev(burst[c]), Ev(stash[l]))
CoreOrder(c) ==
  /\ Fetching(c) \/ Working(c) => BurstOrder(c)
  /\ Fetching(c) => FetchOrder(c)
  /\ Working(c) => WorkOrder(c)
OrderInv ==
  /\ \A q \in Queues : QueueOrder(q)
  /\ \A l \in Levels : StashOrder(l)
  /\ \A c \in Cores : CoreOrder(c)

\* The events of a sequence, as sets of them are used below.
LEMMA EvOf ==
  /\ Ev(<<>>) = {} /\ Sorted(<<>>)
  /\ \A s \in Seq(Event) : Ev(s) \subseteq Event /\ InSeq(s) = {e.n : e \in Ev(s)}
  /\ \A s \in Seq(Event) : \A Q : AllIn(s, Q) <=> \A e \in Ev(s) : e.q \in Q
<1>1. DOMAIN <<>> = {} BY EmptySeq, LenProperties
<1>2. Ev(<<>>) = {} /\ Sorted(<<>>) BY <1>1 DEF Ev, Sorted
<1>3. \A s \in Seq(Event) : Ev(s) \subseteq Event BY Nothing DEF Ev
<1>4. \A s \in Seq(Event) : InSeq(s) = {e.n : e \in Ev(s)} BY DEF Ev, InSeq
<1>5. \A s \in Seq(Event) : \A Q : AllIn(s, Q) <=> \A e \in Ev(s) : e.q \in Q BY DEF Ev, AllIn
<1> QED BY <1>2, <1>3, <1>4, <1>5

\* Cutting a sequence in order in two.
LEMMA CutOrder ==
  ASSUME NEW s \in Seq(Event), Sorted(s), NEW n \in 0..Len(s),
         NEW f, f = SubSeq(s, 1, n), NEW b, b = SubSeq(s, n + 1, Len(s))
  PROVE  /\ f \in Seq(Event) /\ b \in Seq(Event)
         /\ Ev(f) = {s[i] : i \in 1..n} /\ Ev(f) \subseteq Ev(s) /\ Ev(b) \subseteq Ev(s)
         /\ Sorted(f) /\ Sorted(b) /\ Ahead(Ev(f), Ev(b))
<1>1. Len(s) \in Nat /\ DOMAIN s = 1..Len(s) BY LenProperties
<1>2. /\ f \in Seq(Event) /\ DOMAIN f = 1..n /\ \A i \in 1..n : f[i] = s[i]
  <2>1. 1 \in 1..(Len(s) + 1) /\ n \in (1 - 1)..Len(s) BY <1>1
  <2>2. n - 1 + 1 = n /\ \A i \in 1..n : 1 + i - 1 = i BY <1>1
  <2>3. /\ f \in Seq(Event) /\ DOMAIN f = 1..(n - 1 + 1)
        /\ \A i \in 1..(n - 1 + 1) : f[i] = s[1 + i - 1]
    BY <2>1, PartOfSeq
  <2> QED BY <2>2, <2>3
<1>0. n \in Nat /\ Len(s) - n \in Nat BY <1>1
<1>3. PICK m : m = Len(s) - n /\ m \in Nat BY <1>0
<1>4. /\ b \in Seq(Event) /\ DOMAIN b = 1..m /\ \A i \in 1..m : b[i] = s[n + i]
  <2>1. n + 1 \in 1..(Len(s) + 1) /\ Len(s) \in ((n + 1) - 1)..Len(s) BY <1>1
  <2>2. Len(s) - (n + 1) + 1 = m /\ \A i \in 1..m : (n + 1) + i - 1 = n + i BY <1>0, <1>1, <1>3
  <2>3. /\ b \in Seq(Event) /\ DOMAIN b = 1..(Len(s) - (n + 1) + 1)
        /\ \A i \in 1..(Len(s) - (n + 1) + 1) : b[i] = s[(n + 1) + i - 1]
    BY <2>1, PartOfSeq
  <2> QED BY <2>2, <2>3
<1>5. \A i \in 1..n : i \in 1..Len(s) BY <1>1
<1>6. \A i \in 1..m : n + i \in 1..Len(s) BY <1>0, <1>1, <1>3
<1>7. \A i \in 1..n, j \in 1..m : i < n + j BY <1>0, <1>3
<1>8. \A i, j \in 1..m : i < j => n + i < n + j BY <1>0, <1>3
<1>9. Ev(f) = {s[i] : i \in 1..n} BY <1>2 DEF Ev
<1>10. Ev(f) \subseteq Ev(s) BY <1>1, <1>5, <1>9 DEF Ev
<1>11. Ev(b) \subseteq Ev(s) BY <1>1, <1>4, <1>6 DEF Ev
<1>12. Sorted(f) BY <1>1, <1>2, <1>5 DEF Sorted
<1>13. Sorted(b) BY <1>1, <1>4, <1>6, <1>8 DEF Sorted
<1>14. Ahead(Ev(f), Ev(b))
  <2> SUFFICES ASSUME NEW e \in Ev(f), NEW g \in Ev(b), e.q = g.q PROVE e.n < g.n BY DEF Ahead
  <2>1. PICK i \in 1..n : e = f[i] BY <1>2 DEF Ev
  <2>2. PICK j \in 1..m : g = b[j] BY <1>4 DEF Ev
  <2>3. e = s[i] /\ g = s[n + j] /\ i < n + j BY <1>2, <1>4, <1>7, <2>1, <2>2
  <2>4. i \in DOMAIN s /\ n + j \in DOMAIN s BY <1>1, <1>5, <1>6
  <2> QED BY <2>3, <2>4 DEF Sorted
<1> QED BY <1>2, <1>4, <1>9, <1>10, <1>11, <1>12, <1>13, <1>14

\* Joining two.
LEMMA JoinOrder ==
  ASSUME NEW s \in Seq(Event), NEW t \in Seq(Event), Sorted(s), Sorted(t), Ahead(Ev(s), Ev(t))
  PROVE  Ev(s \o t) = Ev(s) \cup Ev(t) /\ Sorted(s \o t)
<1>1. PICK m \in Nat : m = Len(s) /\ DOMAIN s = 1..m BY LenProperties
<1>2. PICK n \in Nat : n = Len(t) /\ DOMAIN t = 1..n BY LenProperties
<1>3. PICK u : u = s \o t OBVIOUS
<1>4. /\ u \in Seq(Event) /\ Len(u) = m + n
      /\ \A i \in 1..(m + n) : u[i] = IF i <= m THEN s[i] ELSE t[i - m]
  BY <1>1, <1>2, <1>3, ConcatProperties
<1>5. DOMAIN u = 1..(m + n) BY <1>4, LenProperties
<1>6. \A i \in 1..m : i \in 1..(m + n) /\ u[i] = s[i] BY <1>1, <1>2, <1>4
<1>7. \A i \in 1..n : m + i \in 1..(m + n) /\ u[m + i] = t[i]
  <2> TAKE i \in 1..n
  <2>1. m + i \in 1..(m + n) /\ ~(m + i <= m) /\ (m + i) - m = i BY <1>1, <1>2
  <2> QED BY <1>4, <2>1
<1>8. \A k \in 1..(m + n) : k \in 1..m \/ \E i \in 1..n : k = m + i
  <2> TAKE k \in 1..(m + n)
  <2>1. k \in 1..m \/ (k - m \in 1..n /\ k = m + (k - m)) BY <1>1, <1>2
  <2> QED BY <2>1
<1>9. Ev(u) \subseteq Ev(s) \cup Ev(t)
  <2> SUFFICES ASSUME NEW k \in 1..(m + n) PROVE u[k] \in Ev(s) \cup Ev(t) BY <1>5 DEF Ev
  <2>1. CASE k \in 1..m BY <1>1, <1>6, <2>1 DEF Ev
  <2>2. ASSUME NEW i \in 1..n, k = m + i PROVE u[k] \in Ev(s) \cup Ev(t) BY <1>2, <1>7, <2>2 DEF Ev
  <2> QED BY <1>8, <2>1, <2>2
<1>10. Ev(s) \subseteq Ev(u) BY <1>1, <1>5, <1>6 DEF Ev
<1>11. Ev(t) \subseteq Ev(u)
  <2> SUFFICES ASSUME NEW i \in 1..n PROVE t[i] \in Ev(u) BY <1>2 DEF Ev
  <2>1. m + i \in DOMAIN u /\ u[m + i] = t[i] BY <1>5, <1>7
  <2> QED BY <2>1 DEF Ev
<1>12. Sorted(u)
  <2> SUFFICES ASSUME NEW i \in 1..(m + n), NEW j \in 1..(m + n), i < j, u[i].q = u[j].q
               PROVE  u[i].n < u[j].n
    BY <1>5 DEF Sorted
  <2>1. CASE i \in 1..m /\ j \in 1..m BY <1>1, <1>6, <2>1 DEF Sorted
  <2>2. ASSUME i \in 1..m, NEW k \in 1..n, j = m + k PROVE u[i].n < u[j].n
    <3>1. u[i] \in Ev(s) /\ u[j] \in Ev(t) BY <1>1, <1>2, <1>6, <1>7, <2>2 DEF Ev
    <3> QED BY <3>1 DEF Ahead
  <2>3. ASSUME NEW h \in 1..n, i = m + h, NEW k \in 1..n, j = m + k PROVE u[i].n < u[j].n
    <3>1. u[i] = t[h] /\ u[j] = t[k] BY <1>7, <2>3
    <3>2. h < k BY <1>1, <1>2, <2>3
    <3> QED BY <1>2, <3>1, <3>2 DEF Sorted
  <2>4. ~(j \in 1..m /\ i \notin 1..m) BY <1>1, <1>2
  <2> QED BY <1>8, <2>1, <2>2, <2>3, <2>4
<1> QED BY <1>3, <1>9, <1>10, <1>11, <1>12

\* An event is added at the end.
LEMMA AppendOrder ==
  ASSUME NEW s \in Seq(Event), NEW e \in Event, Sorted(s), \A f \in Ev(s) : f.n < e.n
  PROVE  Ev(Append(s, e)) = Ev(s) \cup {e} /\ Sorted(Append(s, e))
<1>1. PICK m \in Nat : m = Len(s) /\ DOMAIN s = 1..m BY LenProperties
<1>2. PICK u : u = Append(s, e) OBVIOUS
<1>3. /\ u \in Seq(Event) /\ Len(u) = m + 1 /\ u[m + 1] = e
      /\ \A i \in 1..m : u[i] = s[i]
  BY <1>1, <1>2, AppendProperties
<1>4. DOMAIN u = 1..(m + 1) BY <1>3, LenProperties
<1>5. \A k \in 1..(m + 1) : k \in 1..m \/ k = m + 1 BY <1>1
<1>6. m + 1 \in 1..(m + 1) /\ \A k \in 1..m : k \in 1..(m + 1) BY <1>1
<1>7. Ev(u) = Ev(s) \cup {e}
  <2>1. \A k \in 1..(m + 1) : u[k] \in Ev(s) \cup {e} BY <1>1, <1>3, <1>5 DEF Ev
  <2>2. \A k \in 1..m : s[k] \in Ev(u) BY <1>3, <1>4, <1>6 DEF Ev
  <2>3. e \in Ev(u) BY <1>3, <1>4, <1>6 DEF Ev
  <2> QED BY <1>1, <1>4, <2>1, <2>2, <2>3 DEF Ev
<1>8. Sorted(u)
  <2> SUFFICES ASSUME NEW i \in 1..(m + 1), NEW j \in 1..(m + 1), i < j, u[i].q = u[j].q
               PROVE  u[i].n < u[j].n
    BY <1>4 DEF Sorted
  <2>1. i \in 1..m BY <1>1
  <2>2. CASE j \in 1..m BY <1>1, <1>3, <2>1, <2>2 DEF Sorted
  <2>3. CASE j = m + 1 BY <1>1, <1>3, <2>1, <2>3 DEF Ev
  <2> QED BY <1>5, <2>2, <2>3
<1> QED BY <1>2, <1>7, <1>8

\* A core works and does not touch the order of what others have.
Shrinks ==
  /\ rcvd' = rcvd
  /\ \A q \in Queues : Ev(odpq'[q]) \subseteq Ev(odpq[q]) /\ Sorted(odpq'[q])
  /\ \A l \in Levels : Ev(stash'[l]) \subseteq Ev(stash[l]) /\ Sorted(stash'[l])
Keeps(d) ==
  /\ pc'[d] = pc[d] /\ burst'[d] = burst[d]
  /\ \A q \in Queues : ctx[q] = d => ctx'[q] = d

\* What a step of one core leaves to the others.
LEMMA OthersKeep ==
  ASSUME TypeOK, NEW c \in Cores, CoreStep(c) \/ ProcessingEnd(c), NEW d \in Cores, d # c
  PROVE  Keeps(d)
<1>1. pc'[d] = pc[d] /\ burst'[d] = burst[d] BY OnlyOwn
<1>2. Own(d) \subseteq Own(d)' BY OwnKept
<1> QED BY <1>1, <1>2 DEF Keeps, Own

\* Only the cores of C have other events than before, ahead of what others fetch.
OnlyMoves(C) ==
  /\ \A d \in Cores \ C : Keeps(d)
  /\ \A c \in C : CoreOrder(c)'
  /\ \A c \in C, d \in Cores \ C : Working(c)' /\ Fetching(d) => Ahead(Ev(burst'[c]), Ev(burst[d]))

\* Events taken off queues and stashes leave the rest in order.
LEMMA ShrinkOrder ==
  ASSUME OrderInv, BurstInv, Shrinks, NEW C \in SUBSET Cores, OnlyMoves(C)
  PROVE  OrderInv'
<1>1. ASSUME NEW q \in Queues PROVE QueueOrder(q)'
  <2>1. QueueOrder(q) BY DEF OrderInv
  <2> QED BY <2>1 DEF QueueOrder, Shrinks, Ahead
<1>2. ASSUME NEW l \in Levels PROVE StashOrder(l)'
  <2>1. StashOrder(l) BY DEF OrderInv
  <2>2. \A q \in Queues : Ahead(Ev(stash'[l]), Ev(odpq'[q])) BY <2>1 DEF StashOrder, Shrinks, Ahead
  <2> QED BY <2>1, <2>2 DEF StashOrder, Shrinks, Ahead, PrioOf
<1>3. ASSUME NEW d \in Cores \ C PROVE CoreOrder(d)'
  <2>1. CoreOrder(d) /\ Keeps(d) BY DEF OrderInv, OnlyMoves
  <2>2. (Fetching(d)' <=> Fetching(d)) /\ (Working(d)' <=> Working(d)) /\ burst'[d] = burst[d]
    BY <2>1 DEF Keeps, Fetching, Working
  <2>3. ASSUME BurstOrder(d) PROVE BurstOrder(d)' BY <2>2, <2>3 DEF BurstOrder, Shrinks, Ahead
  <2>4. ASSUME WorkOrder(d) PROVE WorkOrder(d)' BY <2>2, <2>4 DEF WorkOrder, Shrinks, Ahead
  <2>5. ASSUME Fetching(d), FetchOrder(d) PROVE FetchOrder(d)'
    <3>1. \A l \in Levels : Ahead(Ev(stash'[l]), Ev(burst'[d])) BY <2>2, <2>5 DEF FetchOrder, Shrinks, Ahead
    <3>2. ASSUME NEW e \in Ev(burst'[d]) PROVE e.q = burst'[d][1].q /\ ctx'[e.q] = d
      <4>1. e \in Ev(burst[d]) /\ e.q = burst[d][1].q /\ ctx[e.q] = d BY <2>2, <2>5, <3>2 DEF FetchOrder
      <4>2. e.q \in Queues
        <5>1. CoreOK(pc[d], burst[d], cur[d], released[d]) BY DEF BurstInv
        <5>2. AllIn(burst[d], Group) BY <2>5, <5>1 DEF CoreOK, Fetching, AllIn
        <5> QED BY <4>1, <5>2, GroupAssumption DEF AllIn, Ev
      <4> QED BY <2>1, <2>2, <4>1, <4>2 DEF Keeps
    <3>3. ASSUME NEW x \in Cores, Working(x)' PROVE Ahead(Ev(burst'[x]), Ev(burst'[d]))
      <4>1. CASE x \in C BY <2>2, <2>5, <3>3, <4>1 DEF OnlyMoves
      <4>2. CASE x \in Cores \ C
        <5>1. Working(x) /\ burst'[x] = burst[x] BY <3>3, <4>2 DEF OnlyMoves, Keeps, Working
        <5> QED BY <2>2, <2>5, <5>1 DEF FetchOrder
      <4> QED BY <4>1, <4>2
    <3> QED BY <3>1, <3>2, <3>3 DEF FetchOrder
  <2> QED BY <2>1, <2>2, <2>3, <2>4, <2>5 DEF CoreOrder
<1>4. \A d \in Cores : CoreOrder(d)' BY <1>3 DEF OnlyMoves
<1> QED BY <1>1, <1>2, <1>4 DEF OrderInv

\* One core moves.
LEMMA CoreMoves ==
  ASSUME TypeOK, OrderInv, BurstInv, Shrinks, NEW c \in Cores, CoreStep(c) \/ ProcessingEnd(c),
         CoreOrder(c)',
         \A d \in Cores \ {c} : Working(c)' /\ Fetching(d) => Ahead(Ev(burst'[c]), Ev(burst[d]))
  PROVE  OrderInv'
<1>1. \A d \in Cores \ {c} : Keeps(d) BY OthersKeep
<1>2. OnlyMoves({c}) BY <1>1 DEF OnlyMoves
<1>3. {c} \in SUBSET Cores OBVIOUS
<1> QED BY <1>2, <1>3, ShrinkOrder

\* A core that had its events before.
LEMMA CoreStays ==
  ASSUME TypeOK, OrderInv, BurstInv, UNCHANGED <<rcvd, odpq, stash>>,
         NEW c \in Cores, CoreStep(c) \/ ProcessingEnd(c),
         Fetching(c)' => Fetching(c) /\ burst'[c] = burst[c] /\ ctx' = ctx,
         Working(c)' => Working(c) /\ burst'[c] = burst[c]
  PROVE  OrderInv'
<1>1. Shrinks BY DEF Shrinks, OrderInv, QueueOrder, StashOrder
<1>2. CoreOrder(c) /\ \A d \in Cores : CoreOrder(d) BY DEF OrderInv
<1>3. BurstOrder(c) /\ burst'[c] = burst[c] => BurstOrder(c)' BY DEF BurstOrder
<1>4. WorkOrder(c) /\ burst'[c] = burst[c] => WorkOrder(c)' BY DEF WorkOrder
<1>5. ASSUME Fetching(c)' PROVE FetchOrder(c)'
  <2>1. Fetching(c) /\ burst'[c] = burst[c] /\ ctx' = ctx /\ FetchOrder(c) BY <1>2, <1>5 DEF CoreOrder
  <2>2. ASSUME NEW d \in Cores, Working(d)' PROVE Ahead(Ev(burst'[d]), Ev(burst'[c]))
    <3>1. d # c BY <1>5, <2>2 DEF Fetching, Working
    <3>2. Keeps(d) BY <3>1, OthersKeep
    <3>3. Working(d) /\ burst'[d] = burst[d] BY <2>2, <3>2 DEF Keeps, Working
    <3> QED BY <2>1, <3>3 DEF FetchOrder
  <2> QED BY <2>1, <2>2 DEF FetchOrder
<1>6. CoreOrder(c)' BY <1>2, <1>3, <1>4, <1>5 DEF CoreOrder
<1>7. ASSUME NEW d \in Cores \ {c}, Working(c)', Fetching(d) PROVE Ahead(Ev(burst'[c]), Ev(burst[d]))
  <2>1. FetchOrder(d) BY <1>2, <1>7 DEF CoreOrder
  <2> QED BY <1>7, <2>1 DEF FetchOrder
<1> QED BY <1>1, <1>6, <1>7, CoreMoves

\* Numbers of events that were sent.
LEMMA SentBefore ==
  ASSUME IInv
  PROVE  /\ sent \in Nat
         /\ \A q \in Queues : \A e \in Ev(odpq[q]) : e.n \in 1..sent
         /\ \A l \in Levels : \A e \in Ev(stash[l]) : e.n \in 1..sent
         /\ \A c \in Cores : \A e \in Ev(burst[c]) : e.n \in 1..sent
         /\ \A e \in rcvd : e.n \in 1..sent
<1>1. TypeOK /\ EachEventOnce BY DEF IInv
<1>2. \A p \in Places : At(p) \subseteq 1..sent BY <1>1 DEF EachEventOnce
<1>3. sent \in Nat BY <1>1, GroupAssumption DEF TypeOK
<1>4. ASSUME NEW q \in Queues PROVE \A e \in Ev(odpq[q]) : e.n \in 1..sent
  <2>1. <<"odpq", q>> \in Places BY DEF Places
  <2>2. At(<<"odpq", q>>) = InSeq(odpq[q]) BY DEF At
  <2>3. odpq[q] \in Seq(Event) BY <1>1 DEF TypeOK
  <2> QED BY <1>2, <2>1, <2>2, <2>3, EvOf
<1>5. ASSUME NEW l \in Levels PROVE \A e \in Ev(stash[l]) : e.n \in 1..sent
  <2>1. <<"stash", l>> \in Places BY DEF Places
  <2>2. At(<<"stash", l>>) = InSeq(stash[l]) BY DEF At
  <2>3. stash[l] \in Seq(Event) BY <1>1 DEF TypeOK
  <2> QED BY <1>2, <2>1, <2>2, <2>3, EvOf
<1>6. ASSUME NEW c \in Cores PROVE \A e \in Ev(burst[c]) : e.n \in 1..sent
  <2>1. <<"burst", c>> \in Places BY DEF Places
  <2>2. At(<<"burst", c>>) = InSeq(burst[c]) BY DEF At
  <2>3. burst[c] \in Seq(Event) BY <1>1 DEF TypeOK
  <2> QED BY <1>2, <2>1, <2>2, <2>3, EvOf
<1>7. \A e \in rcvd : e.n \in 1..sent
  <2>1. <<"out", "rcvd">> \in Places BY DEF Places
  <2>2. At(<<"out", "rcvd">>) = {e.n : e \in rcvd} BY DEF At
  <2> QED BY <1>2, <2>1, <2>2
<1> QED BY <1>3, <1>4, <1>5, <1>6, <1>7

\* Two cores do not work on events of the same queue, nor fetch from it.
LEMMA WorkApart ==
  ASSUME IInv, ExclInv, NEW c \in Cores, NEW d \in Cores, c # d, Working(c), Working(d)
  PROVE  \A e \in Ev(burst[c]), f \in Ev(burst[d]) : e.q # f.q
<1>1. TypeOK /\ BurstInv /\ LockInv BY DEF IInv
<1> SUFFICES ASSUME NEW e \in Ev(burst[c]), NEW f \in Ev(burst[d]), e.q = f.q PROVE FALSE OBVIOUS
<1>2. ASSUME NEW x \in {c, d}, NEW g \in Ev(burst[x])
      PROVE  IF g.q \in Group THEN HoldsLock(x) ELSE ctx[g.q] = x
  <2>1. /\ CoreOK(pc[x], burst[x], cur[x], released[x]) /\ burst[x] \in Seq(Event)
        /\ CallOK(pc[x], burst[x], bcnt[x], cur[x], mid[x], released[x], ended[x], Own(x))
    BY <1>1 DEF BurstInv, ExclInv, TypeOK
  <2>2. burst[x] # <<>> BY <1>2, EvOf
  <2>3. 1 \in DOMAIN burst[x] /\ burst[x][1] \in Ev(burst[x])
    <3>1. Len(burst[x]) \in Nat /\ Len(burst[x]) # 0 /\ DOMAIN burst[x] = 1..Len(burst[x])
      BY <2>1, <2>2, Nothing, LenProperties
    <3> QED BY <3>1 DEF Ev
  <2>4. \A Q : AllIn(burst[x], Q) => g.q \in Q /\ burst[x][1].q \in Q BY <1>2, <2>1, <2>3, EvOf
  <2>5. CASE pc[x] = "sub"
    <3>1. AllIn(burst[x], Group) /\ ~released[x] BY <2>1, <2>5 DEF CoreOK
    <3> QED BY <2>4, <2>5, <3>1 DEF HoldsLock
  <2>6. CASE pc[x] = "run"
    <3>1. ~released[x] /\ (AllIn(burst[x], Group) \/ (AllIn(burst[x], {burst[x][1].q}) /\ burst[x][1].q \in Own(x)))
      BY <2>1, <2>6 DEF CallOK
    <3>2. AllIn(burst[x], Group) \/ AllIn(burst[x], Queues \ Group) BY <2>1 DEF CoreOK
    <3>3. CASE g.q \in Group
      <4>1. AllIn(burst[x], Group) BY <2>4, <3>2, <3>3
      <4> QED BY <2>4, <2>6, <3>1, <3>3, <4>1 DEF HoldsLock
    <3>4. CASE g.q \notin Group BY <2>4, <3>1, <3>4 DEF Own
    <3> QED BY <3>3, <3>4
  <2>7. CASE pc[x] = "rcv"
    <3>1. /\ ~ended[x] /\ ~released[x]
          /\ cur[x] \notin Group => AllIn(burst[x], {cur[x]}) /\ cur[x] \in Own(x)
      BY <2>1, <2>2, <2>7 DEF CallOK
    <3>2. AllIn(burst[x], Group) <=> cur[x] \in Group BY <2>1, <2>2, <2>7 DEF CoreOK
    <3>3. CASE cur[x] \in Group BY <2>4, <2>7, <3>1, <3>2, <3>3 DEF HoldsLock
    <3>4. CASE cur[x] \notin Group BY <2>4, <3>1, <3>4 DEF Own
    <3> QED BY <3>3, <3>4
  <2>8. pc[x] \in {"sub", "run", "rcv"} BY DEF Working
  <2> QED BY <2>5, <2>6, <2>7, <2>8
<1>3. c \in {c, d} /\ d \in {c, d} OBVIOUS
<1>4. CASE e.q \in Group
  <2>1. HoldsLock(c) /\ HoldsLock(d) BY <1>2, <1>3, <1>4
  <2> QED BY <1>1, <2>1 DEF LockInv
<1>5. CASE e.q \notin Group
  <2>1. ctx[e.q] = c /\ ctx[f.q] = d BY <1>2, <1>3, <1>5
  <2> QED BY <2>1
<1> QED BY <1>4, <1>5

LEMMA FetchApart ==
  ASSUME OrderInv, NEW c \in Cores, NEW d \in Cores, c # d, Fetching(c), Fetching(d)
  PROVE  \A e \in Ev(burst[c]), f \in Ev(burst[d]) : e.q # f.q
BY DEF OrderInv, CoreOrder, FetchOrder

\* An event is sent.
LEMMA SendOrder ==
  ASSUME IInv, OrderInv, NEW q \in Queues, NEW g \in Tags, Send(q, g)
  PROVE  OrderInv'
<1>1. TypeOK BY DEF IInv
<1>2. PICK e : e = [n |-> sent + 1, q |-> q, g |-> g] OBVIOUS
<1>3. e \in Event /\ e.n = sent + 1 BY <1>1, <1>2, GroupAssumption DEF Send, Event, TypeOK
<1>4. /\ odpq' = [odpq EXCEPT ![q] = Append(odpq[q], e)] /\ UNCHANGED <<stash, rcvd, burst, pc, ctx>>
  BY <1>2 DEF Send, agvars, corevars
<1>5. odpq \in [Queues -> Seq(Event)] BY <1>1 DEF TypeOK
<1>6. /\ \A r \in Queues : \A x \in Ev(odpq[r]) : x.n < e.n
      /\ \A l \in Levels : \A x \in Ev(stash[l]) : x.n < e.n
      /\ \A c \in Cores : \A x \in Ev(burst[c]) : x.n < e.n
      /\ \A x \in rcvd : x.n < e.n
  BY <1>3, SentBefore
<1>7. Sorted(odpq[q]) BY DEF OrderInv, QueueOrder
<1>8. Ev(odpq'[q]) = Ev(odpq[q]) \cup {e} /\ Sorted(odpq'[q]) BY <1>3, <1>4, <1>5, <1>6, <1>7, AppendOrder
<1>9. \A r \in Queues : r # q => odpq'[r] = odpq[r] BY <1>4, <1>5
<1>10. ASSUME NEW A, \A x \in A : x.n < e.n, NEW r \in Queues, Ahead(A, Ev(odpq[r]))
       PROVE  Ahead(A, Ev(odpq'[r]))
  <2>1. CASE r = q BY <1>8, <1>10, <2>1 DEF Ahead
  <2>2. CASE r # q BY <1>9, <1>10, <2>2
  <2> QED BY <2>1, <2>2
<1>11. ASSUME NEW r \in Queues PROVE QueueOrder(r)'
  <2>1. QueueOrder(r) BY DEF OrderInv
  <2>2. Ahead(rcvd, Ev(odpq'[r])) BY <1>6, <1>10, <2>1 DEF QueueOrder
  <2>3. Sorted(odpq'[r]) BY <1>8, <1>9, <2>1 DEF QueueOrder
  <2> QED BY <1>4, <2>2, <2>3 DEF QueueOrder
<1>12. ASSUME NEW l \in Levels PROVE StashOrder(l)'
  <2>1. StashOrder(l) BY DEF OrderInv
  <2>2. \A r \in Queues : Ahead(Ev(stash[l]), Ev(odpq'[r])) BY <1>6, <1>10, <2>1 DEF StashOrder
  <2> QED BY <1>4, <2>1, <2>2 DEF StashOrder, PrioOf
<1>13. ASSUME NEW c \in Cores PROVE CoreOrder(c)'
  <2>1. CoreOrder(c) BY DEF OrderInv
  <2>2. (Fetching(c)' <=> Fetching(c)) /\ (Working(c)' <=> Working(c)) BY <1>4 DEF Fetching, Working
  <2>3. ASSUME BurstOrder(c) PROVE BurstOrder(c)'
    <3>1. \A r \in Queues : Ahead(Ev(burst[c]), Ev(odpq'[r])) BY <1>6, <1>10, <2>3 DEF BurstOrder
    <3> QED BY <1>4, <2>3, <3>1 DEF BurstOrder
  <2>4. FetchOrder(c) => FetchOrder(c)' BY <1>4 DEF FetchOrder, Working
  <2>5. WorkOrder(c) => WorkOrder(c)' BY <1>4 DEF WorkOrder
  <2> QED BY <2>1, <2>2, <2>3, <2>4, <2>5 DEF CoreOrder
<1> QED BY <1>11, <1>12, <1>13 DEF OrderInv

\* A core gets events from the scheduler.
LEMMA RoundOrder ==
  ASSUME IInv, OrderInv, NEW c \in Cores, NEW q \in Queues, NEW n \in 1..MaxBurst, DispatchRound(c, q, n)
  PROVE  OrderInv'
<1>1. TypeOK /\ BurstInv BY DEF IInv
<1>2. PICK f : f = SubSeq(odpq[q], 1, n) OBVIOUS
<1>3. PICK b : b = SubSeq(odpq[q], n + 1, Len(odpq[q])) OBVIOUS
<1>4. odpq \in [Queues -> Seq(Event)] /\ pc \in [Cores -> Steps] /\ burst \in [Cores -> Seq(Event)]
  BY <1>1 DEF TypeOK
<1>5. n \in 1..Len(odpq[q]) /\ n \in 0..Len(odpq[q]) BY DEF DispatchRound
<1>6. QueueOrder(q) /\ \A l \in Levels : StashOrder(l) BY DEF OrderInv
<1>7. /\ f \in Seq(Event) /\ Ev(f) \subseteq Ev(odpq[q]) /\ Ev(b) \subseteq Ev(odpq[q])
      /\ Sorted(f) /\ Sorted(b) /\ Ahead(Ev(f), Ev(b))
  BY <1>2, <1>3, <1>4, <1>5, <1>6, CutOrder DEF QueueOrder
<1>8. /\ odpq' = [odpq EXCEPT ![q] = b] /\ UNCHANGED <<stash, rcvd>> /\ pc[c] = "idle"
      /\ ctx' = [ReleaseCtx(c) EXCEPT ![q] = c]
      /\ \/ UNCHANGED <<pc, burst>>
         \/ /\ burst' = [burst EXCEPT ![c] = f]
            /\ pc' = [pc EXCEPT ![c] = IF q \in Group THEN "acquire" ELSE "run"]
  BY <1>2, <1>3 DEF DispatchRound, agvars
<1>9. CoreStep(c) BY DEF CoreStep
<1>10. \A r \in Queues : odpq'[r] = IF r = q THEN b ELSE odpq[r] BY <1>4, <1>8
<1>11. Shrinks
  <2>1. \A r \in Queues : Ev(odpq'[r]) \subseteq Ev(odpq[r]) /\ Sorted(odpq'[r])
    BY <1>7, <1>10 DEF OrderInv, QueueOrder
  <2> QED BY <1>6, <1>8, <2>1 DEF Shrinks, StashOrder
<1>12. CASE UNCHANGED <<pc, burst>>
  <2>1. ~Fetching(c)' /\ ~Working(c)' BY <1>8, <1>12 DEF Fetching, Working
  <2>2. CoreOrder(c)' BY <2>1 DEF CoreOrder
  <2> QED BY <1>1, <1>9, <1>11, <2>1, <2>2, CoreMoves
<1>13. CASE /\ burst' = [burst EXCEPT ![c] = f]
            /\ pc' = [pc EXCEPT ![c] = IF q \in Group THEN "acquire" ELSE "run"]
  <2>1. burst'[c] = f /\ pc'[c] = (IF q \in Group THEN "acquire" ELSE "run") /\ ctx'[q] = c
    BY <1>4, <1>8, <1>13 DEF ReleaseCtx
  <2>2. Fetching(c)' <=> q \in Group BY <2>1 DEF Fetching
  <2>3. Working(c)' <=> q \notin Group BY <2>1 DEF Working
  <2>4. \A e \in Ev(f) : e.q = q /\ e \in Ev(odpq[q])
    <3>1. AllIn(odpq[q], {q}) BY <1>1 DEF BurstInv
    <3> QED BY <1>4, <1>7, <3>1, EvOf
  <2>5. f[1].q = q
    <3>1. f # <<>> /\ 1 \in DOMAIN f
      <4>1. Len(f) = n BY <1>2, <1>4, <1>5, Cut
      <4>2. DOMAIN f = 1..n BY <1>7, <4>1, LenProperties
      <4> QED BY <4>1, <4>2, Nothing
    <3> QED BY <2>4, <3>1 DEF Ev
  <2>6. BurstOrder(c)'
    <3>1. Ahead(rcvd, Ev(f)) BY <1>6, <1>7 DEF QueueOrder, Ahead
    <3>2. ASSUME NEW r \in Queues PROVE Ahead(Ev(f), Ev(odpq'[r]))
      <4>1. CASE r = q BY <1>7, <1>10, <4>1
      <4>2. CASE r # q
        <5>1. AllIn(odpq[r], {r}) BY <1>1 DEF BurstInv
        <5>2. \A x \in Ev(odpq[r]) : x.q = r BY <1>4, <5>1, EvOf
        <5> QED BY <1>10, <2>4, <4>2, <5>2 DEF Ahead
      <4> QED BY <4>1, <4>2
    <3> QED BY <1>7, <1>8, <2>1, <3>1, <3>2 DEF BurstOrder
  <2>7. ASSUME q \in Group PROVE FetchOrder(c)'
    <3>1. \A l \in Levels : Ahead(Ev(stash[l]), Ev(f)) BY <1>6, <1>7 DEF StashOrder, Ahead
    <3>2. ASSUME NEW d \in Cores, Working(d)' PROVE Ahead(Ev(burst'[d]), Ev(f))
      <4>1. d # c BY <2>3, <2>7, <3>2
      <4>2. Keeps(d) BY <1>1, <1>9, <4>1, OthersKeep
      <4>3. Working(d) /\ burst'[d] = burst[d] BY <3>2, <4>2 DEF Keeps, Working
      <4>4. Ahead(Ev(burst[d]), Ev(odpq[q])) BY <4>3 DEF OrderInv, CoreOrder, BurstOrder
      <4> QED BY <1>7, <4>3, <4>4 DEF Ahead
    <3>3. \A e \in Ev(f) : e.q = f[1].q /\ ctx'[e.q] = c BY <2>1, <2>4, <2>5
    <3> QED BY <1>8, <2>1, <3>1, <3>2, <3>3 DEF FetchOrder
  <2>8. ASSUME q \notin Group PROVE WorkOrder(c)'
    <3>1. ASSUME NEW l \in Levels PROVE Ahead(Ev(f), Ev(stash[l]))
      <4>1. AllIn(stash[l], Group) /\ stash[l] \in Seq(Event) BY <1>1 DEF BurstInv, TypeOK
      <4>2. \A x \in Ev(stash[l]) : x.q \in Group BY <4>1, EvOf
      <4> QED BY <2>4, <2>8, <4>2 DEF Ahead
    <3> QED BY <1>8, <2>1, <3>1 DEF WorkOrder
  <2>9. CoreOrder(c)' BY <2>2, <2>3, <2>6, <2>7, <2>8 DEF CoreOrder
  <2>10. ASSUME NEW d \in Cores \ {c}, Working(c)', Fetching(d) PROVE Ahead(Ev(burst'[c]), Ev(burst[d]))
    <3>1. CoreOK(pc[d], burst[d], cur[d], released[d]) BY <1>1 DEF BurstInv
    <3>2. AllIn(burst[d], Group) BY <2>10, <3>1 DEF CoreOK, Fetching
    <3>3. \A x \in Ev(burst[d]) : x.q \in Group BY <1>4, <3>2, EvOf
    <3> QED BY <2>1, <2>3, <2>4, <2>10, <3>3 DEF Ahead
  <2> QED BY <1>1, <1>9, <1>11, <2>9, <2>10, CoreMoves
<1> QED BY <1>8, <1>12, <1>13

\* What is left of a sequence.
LEMMA PartEv ==
  ASSUME NEW s \in Seq(Event), NEW n \in 0..Len(s), NEW b, b = SubSeq(s, n + 1, Len(s))
  PROVE  b \in Seq(Event) /\ Ev(b) \subseteq Ev(s)
<1>1. Len(s) \in Nat /\ DOMAIN s = 1..Len(s) BY LenProperties
<1>0. n \in Nat /\ Len(s) - n \in Nat BY <1>1
<1>2. PICK m : m = Len(s) - n /\ m \in Nat BY <1>0
<1>3. /\ b \in Seq(Event) /\ DOMAIN b = 1..m /\ \A i \in 1..m : b[i] = s[n + i]
  <2>1. n + 1 \in 1..(Len(s) + 1) /\ Len(s) \in ((n + 1) - 1)..Len(s) BY <1>1
  <2>2. Len(s) - (n + 1) + 1 = m /\ \A i \in 1..m : (n + 1) + i - 1 = n + i BY <1>0, <1>1, <1>2
  <2>3. /\ b \in Seq(Event) /\ DOMAIN b = 1..(Len(s) - (n + 1) + 1)
        /\ \A i \in 1..(Len(s) - (n + 1) + 1) : b[i] = s[(n + 1) + i - 1]
    BY <2>1, PartOfSeq
  <2> QED BY <2>2, <2>3
<1>4. \A i \in 1..m : n + i \in 1..Len(s) BY <1>0, <1>1, <1>2
<1> QED BY <1>1, <1>3, <1>4 DEF Ev

\* A core takes the idle lock of the group and keeps its events.
LEMMA AcquireOrder ==
  ASSUME IInv, OrderInv, NEW c \in Cores, AcquireIfIdle(c)
  PROVE  OrderInv'
<1>1. TypeOK /\ BurstInv /\ CountCoversStash BY DEF IInv
<1>2. CoreStep(c) /\ UNCHANGED <<rcvd, odpq, stash, burst>> /\ pc[c] = "acquire" /\ Fetching(c)
  BY DEF AcquireIfIdle, CoreStep, history, Fetching
<1>3. pc \in [Cores -> Steps] BY <1>1 DEF TypeOK
<1>4. CASE ~(lock = 0 /\ evcnt = 0)
  <2>1. pc'[c] = "count" /\ ctx' = ctx BY <1>3, <1>4 DEF AcquireIfIdle
  <2>2. ~Working(c)' BY <2>1 DEF Working
  <2> QED BY <1>1, <1>2, <2>1, <2>2, CoreStays
<1>5. CASE lock = 0 /\ evcnt = 0
  <2>1. pc'[c] = "run" BY <1>3, <1>5 DEF AcquireIfIdle
  <2>2. ~Fetching(c)' BY <2>1 DEF Fetching
  <2>3. \A l \in Levels : stash[l] = <<>>
    <3>1. PICK k \in Nat : k = Cardinality(Slots(Counting, Lens))
      <4>1. Counting \in SUBSET Cores /\ Lens \in [Cores -> Nat] BY <1>1, Nothing DEF Counting, Lens, TypeOK
      <4> QED BY <4>1, SlotsFinite
    <3>2. PICK h \in Nat : h = Len(stash["hi"]) BY <1>1, Nothing DEF TypeOK, Levels
    <3>3. PICK m \in Nat : m = Len(stash["lo"]) BY <1>1, Nothing DEF TypeOK, Levels
    <3>4. 0 = h + m + k BY <1>1, <1>5, <3>1, <3>2, <3>3 DEF CountCoversStash
    <3>5. h = 0 /\ m = 0 BY <3>4
    <3> QED BY <1>1, <3>2, <3>3, <3>5, Nothing DEF TypeOK, Levels
  <2>4. Shrinks BY <1>2 DEF Shrinks, OrderInv, QueueOrder, StashOrder
  <2>5. BurstOrder(c) /\ \A d \in Cores : CoreOrder(d) BY <1>2 DEF OrderInv, CoreOrder
  <2>6. BurstOrder(c)' BY <1>2, <2>5 DEF BurstOrder
  <2>7. WorkOrder(c)'
    <3>1. \A l \in Levels : Ev(stash'[l]) = {} BY <1>2, <2>3, EvOf
    <3> QED BY <3>1 DEF WorkOrder, Ahead
  <2>8. CoreOrder(c)' BY <2>2, <2>6, <2>7 DEF CoreOrder
  <2>9. ASSUME NEW d \in Cores \ {c}, Fetching(d) PROVE Ahead(Ev(burst'[c]), Ev(burst[d]))
    <3>1. \A e \in Ev(burst[c]), f \in Ev(burst[d]) : e.q # f.q BY <1>2, <2>9, FetchApart
    <3> QED BY <1>2, <3>1 DEF Ahead
  <2> QED BY <1>1, <1>2, <2>4, <2>8, <2>9, CoreMoves
<1> QED BY <1>4, <1>5

\* A core stashes what fits.
LEMMA PutOrder ==
  ASSUME IInv, OrderInv, NEW c \in Cores, EnqPut(c)
  PROVE  OrderInv'
<1>1. TypeOK /\ BurstInv BY DEF IInv
<1>2. PICK l : l = PrioOf(Head(burst[c]).q) OBVIOUS
<1>3. PICK k : k = Min({Len(burst[c]), StashSize - Len(stash[l])}) OBVIOUS
<1>4. pc[c] = "put" /\ Fetching(c) /\ CoreStep(c) BY DEF EnqPut, Fetching, CoreStep
<1>5. l \in Levels /\ k \in 0..Len(burst[c]) BY <1>1, <1>2, <1>3, <1>4, PutFits
<1>6. PICK f : f = SubSeq(burst[c], 1, k) OBVIOUS
<1>7. PICK b : b = SubSeq(burst[c], k + 1, Len(burst[c])) OBVIOUS
<1>8. /\ stash' = [stash EXCEPT ![l] = stash[l] \o f] /\ pc'[c] \in {"uncount", "trylock"}
      /\ UNCHANGED <<odpq, rcvd, ctx>>
  BY <1>1, <1>2, <1>3, <1>6 DEF EnqPut, TypeOK, qvars, history
<1>9. /\ stash \in [Levels -> Seq(Event)] /\ burst[c] \in Seq(Event) /\ burst[c] # <<>>
      /\ AllIn(burst[c], Group)
  BY <1>1, <1>4 DEF TypeOK, BurstInv, CoreOK
<1>10. BurstOrder(c) /\ FetchOrder(c) /\ \A d \in Cores : CoreOrder(d) BY <1>4 DEF OrderInv, CoreOrder
<1>11. f \in Seq(Event) /\ Ev(f) \subseteq Ev(burst[c]) /\ Sorted(f)
  BY <1>5, <1>6, <1>7, <1>9, <1>10, CutOrder DEF BurstOrder
<1>12. Ahead(Ev(stash[l]), Ev(f)) BY <1>5, <1>10, <1>11 DEF FetchOrder, Ahead
<1>13. \A m \in Levels : StashOrder(m) BY DEF OrderInv
<1>14. Ev(stash[l] \o f) = Ev(stash[l]) \cup Ev(f) /\ Sorted(stash[l] \o f)
  BY <1>5, <1>9, <1>11, <1>12, <1>13, JoinOrder DEF StashOrder
<1>15. \A m \in Levels : m # l => stash'[m] = stash[m] BY <1>8, <1>9
<1>16. Ev(stash'[l]) = Ev(stash[l]) \cup Ev(f) /\ Sorted(stash'[l]) BY <1>5, <1>8, <1>9, <1>14
<1>17. \A e \in Ev(f) : PrioOf(e.q) = l
  <2>1. Head(burst[c]) = burst[c][1] BY <1>9
  <2> QED BY <1>2, <1>10, <1>11, <2>1 DEF FetchOrder
<1>18. ASSUME NEW q \in Queues PROVE QueueOrder(q)'
  BY <1>8 DEF OrderInv, QueueOrder
<1>19. ASSUME NEW m \in Levels PROVE StashOrder(m)'
  <2>1. StashOrder(m) BY <1>13
  <2>2. CASE m # l BY <1>8, <1>15, <2>1, <2>2 DEF StashOrder, PrioOf
  <2>3. CASE m = l
    <3>1. Ahead(rcvd, Ev(stash'[l])) BY <1>10, <1>11, <1>16, <2>1, <2>3 DEF StashOrder, BurstOrder, Ahead
    <3>2. \A e \in Ev(stash'[l]) : PrioOf(e.q) = l BY <1>16, <1>17, <2>1, <2>3 DEF StashOrder
    <3>3. \A q \in Queues : Ahead(Ev(stash'[l]), Ev(odpq[q]))
      BY <1>10, <1>11, <1>16, <2>1, <2>3 DEF StashOrder, BurstOrder, Ahead
    <3> QED BY <1>8, <1>16, <2>3, <3>1, <3>2, <3>3 DEF StashOrder, PrioOf
  <2> QED BY <2>2, <2>3
<1>20. ASSUME NEW d \in Cores PROVE CoreOrder(d)'
  <2>1. CASE d = c BY <1>8, <2>1 DEF CoreOrder, Fetching, Working
  <2>2. CASE d # c
    <3>1. pc'[d] = pc[d] /\ burst'[d] = burst[d] BY <1>1, <1>4, <2>2, OnlyOwn
    <3>2. (Fetching(d)' <=> Fetching(d)) /\ (Working(d)' <=> Working(d)) BY <3>1 DEF Fetching, Working
    <3>3. BurstOrder(d) => BurstOrder(d)' BY <1>8, <3>1 DEF BurstOrder
    <3>4. ASSUME Fetching(d), FetchOrder(d) PROVE FetchOrder(d)'
      <4>1. \A e \in Ev(burst[c]), g \in Ev(burst[d]) : e.q # g.q BY <1>4, <2>2, <3>4, FetchApart
      <4>2. Ahead(Ev(f), Ev(burst[d])) BY <1>11, <4>1 DEF Ahead
      <4>3. ASSUME NEW m \in Levels PROVE Ahead(Ev(stash'[m]), Ev(burst[d]))
        <5>1. CASE m # l BY <1>15, <3>4, <5>1 DEF FetchOrder
        <5>2. CASE m = l BY <1>16, <3>4, <4>2, <5>2 DEF FetchOrder, Ahead
        <5> QED BY <5>1, <5>2
      <4>4. ASSUME NEW x \in Cores, Working(x)' PROVE Ahead(Ev(burst'[x]), Ev(burst[d]))
        <5>1. x # c BY <1>8, <4>4 DEF Working
        <5>2. pc'[x] = pc[x] /\ burst'[x] = burst[x] BY <1>1, <1>4, <5>1, OnlyOwn
        <5>3. Working(x) BY <4>4, <5>2 DEF Working
        <5> QED BY <3>4, <5>2, <5>3 DEF FetchOrder
      <4>5. \A e \in Ev(burst[d]) : e.q = burst[d][1].q /\ ctx'[e.q] = d BY <1>8, <3>4 DEF FetchOrder
      <4> QED BY <3>1, <4>3, <4>4, <4>5 DEF FetchOrder
    <3>5. ASSUME Working(d), WorkOrder(d) PROVE WorkOrder(d)'
      <4>1. Ahead(Ev(burst[d]), Ev(burst[c])) BY <1>10, <3>5 DEF FetchOrder
      <4>2. ASSUME NEW m \in Levels PROVE Ahead(Ev(burst[d]), Ev(stash'[m]))
        <5>1. CASE m # l BY <1>15, <3>5, <5>1 DEF WorkOrder
        <5>2. CASE m = l BY <1>11, <1>16, <3>5, <4>1, <5>2 DEF WorkOrder, Ahead
        <5> QED BY <5>1, <5>2
      <4> QED BY <3>1, <4>2 DEF WorkOrder
    <3> QED BY <1>10, <3>2, <3>3, <3>4, <3>5 DEF CoreOrder
  <2> QED BY <2>1, <2>2
<1> QED BY <1>18, <1>19, <1>20 DEF OrderInv

\* The core that has the lock takes events out of the stashes.
LEMMA DeqOrder ==
  ASSUME IInv, OrderInv, NEW c \in Cores, Deq(c)
  PROVE  OrderInv'
<1>1. TypeOK /\ BurstInv BY DEF IInv
<1>2. PICK h : h = IF attached \cap Hi # {} THEN Min({AgMaxBurst, Len(stash["hi"])}) ELSE 0 OBVIOUS
<1>3. PICK k : k = Min({AgMaxBurst - h, Len(stash["lo"])}) OBVIOUS
<1>4. h \in 0..Len(stash["hi"]) /\ k \in 0..Len(stash["lo"]) BY <1>1, <1>2, <1>3, DeqFits
<1>5. PICK fh : fh = SubSeq(stash["hi"], 1, h) OBVIOUS
<1>6. PICK fl : fl = SubSeq(stash["lo"], 1, k) OBVIOUS
<1>7. PICK bh : bh = SubSeq(stash["hi"], h + 1, Len(stash["hi"])) OBVIOUS
<1>8. PICK bl : bl = SubSeq(stash["lo"], k + 1, Len(stash["lo"])) OBVIOUS
<1>9. "hi" \in Levels /\ "lo" \in Levels /\ \A l \in Levels : l = "hi" \/ l = "lo" BY DEF Levels
<1>10. /\ CoreStep(c) /\ UNCHANGED <<odpq, rcvd>> /\ pc'[c] = "sub"
       /\ burst'[c] = fh \o fl
  BY <1>1, <1>2, <1>3, <1>5, <1>6 DEF Deq, CoreStep, TypeOK, qvars, history
<1>11. stash'["hi"] = bh /\ stash'["lo"] = bl
  <2>1. 1 + h = h + 1 /\ 1 + k = k + 1 BY <1>1, <1>4, <1>9, Nothing DEF TypeOK
  <2>2. stash'["hi"] = SubSeq(stash["hi"], 1 + h, Len(stash["hi"])) BY <1>2, <1>9 DEF Deq
  <2>3. stash'["lo"] = SubSeq(stash["lo"], 1 + k, Len(stash["lo"])) BY <1>2, <1>3, <1>9 DEF Deq
  <2> QED BY <1>7, <1>8, <2>1, <2>2, <2>3
<1>12. stash["hi"] \in Seq(Event) /\ stash["lo"] \in Seq(Event) BY <1>1, <1>9 DEF TypeOK
<1>13. StashOrder("hi") /\ StashOrder("lo") BY <1>9 DEF OrderInv
<1>25. Sorted(stash["hi"]) /\ Sorted(stash["lo"]) BY <1>13 DEF StashOrder
<1>14. /\ fh \in Seq(Event) /\ Ev(fh) \subseteq Ev(stash["hi"]) /\ Ev(bh) \subseteq Ev(stash["hi"])
       /\ Sorted(fh) /\ Sorted(bh) /\ Ahead(Ev(fh), Ev(bh))
  <2>1. PICK s : s = stash["hi"] OBVIOUS
  <2>2. s \in Seq(Event) /\ Sorted(s) /\ h \in 0..Len(s) BY <1>4, <1>12, <1>25, <2>1
  <2>3. fh = SubSeq(s, 1, h) /\ bh = SubSeq(s, h + 1, Len(s)) BY <1>5, <1>7, <2>1
  <2>4. /\ fh \in Seq(Event) /\ Ev(fh) \subseteq Ev(s) /\ Ev(bh) \subseteq Ev(s)
        /\ Sorted(fh) /\ Sorted(bh) /\ Ahead(Ev(fh), Ev(bh))
    BY <2>2, <2>3, CutOrder
  <2> QED BY <2>1, <2>4
<1>15. /\ fl \in Seq(Event) /\ Ev(fl) \subseteq Ev(stash["lo"]) /\ Ev(bl) \subseteq Ev(stash["lo"])
       /\ Sorted(fl) /\ Sorted(bl) /\ Ahead(Ev(fl), Ev(bl))
  <2>1. PICK s : s = stash["lo"] OBVIOUS
  <2>2. s \in Seq(Event) /\ Sorted(s) /\ k \in 0..Len(s) BY <1>4, <1>12, <1>25, <2>1
  <2>3. fl = SubSeq(s, 1, k) /\ bl = SubSeq(s, k + 1, Len(s)) BY <1>6, <1>8, <2>1
  <2>4. /\ fl \in Seq(Event) /\ Ev(fl) \subseteq Ev(s) /\ Ev(bl) \subseteq Ev(s)
        /\ Sorted(fl) /\ Sorted(bl) /\ Ahead(Ev(fl), Ev(bl))
    BY <2>2, <2>3, CutOrder
  <2> QED BY <2>1, <2>4
<1>16. \A e \in Ev(stash["hi"]), f \in Ev(stash["lo"]) : e.q # f.q BY <1>13 DEF StashOrder
<1>17. Ahead(Ev(fh), Ev(fl)) BY <1>14, <1>15, <1>16 DEF Ahead
<1>18. Ev(fh \o fl) = Ev(fh) \cup Ev(fl) /\ Sorted(fh \o fl) BY <1>14, <1>15, <1>17, JoinOrder
<1>19. Shrinks
  <2>1. \A q \in Queues : Sorted(odpq[q]) BY DEF OrderInv, QueueOrder
  <2> QED BY <1>9, <1>10, <1>11, <1>14, <1>15, <2>1 DEF Shrinks
<1>20. Ev(burst'[c]) = Ev(fh) \cup Ev(fl) /\ Sorted(burst'[c]) BY <1>10, <1>18
<1>21. BurstOrder(c)'
  <2>1. Ahead(rcvd, Ev(burst'[c])) BY <1>13, <1>14, <1>15, <1>20 DEF StashOrder, Ahead
  <2>2. \A q \in Queues : Ahead(Ev(burst'[c]), Ev(odpq[q])) BY <1>13, <1>14, <1>15, <1>20 DEF StashOrder, Ahead
  <2> QED BY <1>10, <1>20, <2>1, <2>2 DEF BurstOrder
<1>22. WorkOrder(c)'
  <2>1. Ahead(Ev(burst'[c]), Ev(bh)) BY <1>14, <1>15, <1>16, <1>20 DEF Ahead
  <2>2. Ahead(Ev(burst'[c]), Ev(bl)) BY <1>14, <1>15, <1>16, <1>20 DEF Ahead
  <2> QED BY <1>9, <1>11, <2>1, <2>2 DEF WorkOrder
<1>23. CoreOrder(c)' BY <1>10, <1>21, <1>22 DEF CoreOrder, Fetching
<1>24. ASSUME NEW d \in Cores \ {c}, Fetching(d) PROVE Ahead(Ev(burst'[c]), Ev(burst[d]))
  <2>1. FetchOrder(d) BY <1>24 DEF OrderInv, CoreOrder
  <2> QED BY <1>9, <1>14, <1>15, <1>20, <2>1 DEF FetchOrder, Ahead
<1> QED BY <1>1, <1>10, <1>19, <1>23, <1>24, CoreMoves

\* What a receive call gets is ahead of everything else.
LEMMA ReceiveOrder ==
  ASSUME IInv, ExclInv, OrderInv, NEW c \in Cores, Receive(c)
  PROVE  OrderInv' /\ \A e \in rcvd' \ rcvd : e \in Ev(burst[c])
<1>1. TypeOK /\ BurstInv BY DEF IInv
<1>2. PICK s : s = burst[c] OBVIOUS
<1>3. PICK n : n = BatchSize(s) OBVIOUS
<1>4. pc[c] = "run" /\ Working(c) /\ CoreStep(c) BY DEF Receive, Working, CoreStep
<1>5. s \in Seq(Event) /\ s # <<>> BY <1>1, <1>2, <1>4 DEF TypeOK, BurstInv, CoreOK
<1>6. n \in 0..Len(s)
  <2>1. n \in 1..Len(s) /\ Len(s) \in Nat BY <1>3, <1>5, BatchFits, Nothing
  <2> QED BY <2>1
<1>7. PICK f : f = SubSeq(s, 1, n) OBVIOUS
<1>8. PICK b : b = SubSeq(s, n + 1, Len(s)) OBVIOUS
<1>9. BurstOrder(c) /\ WorkOrder(c) /\ \A d \in Cores : CoreOrder(d) BY <1>4 DEF OrderInv, CoreOrder
<1>10. /\ Ev(f) = {s[i] : i \in 1..n} /\ Ev(f) \subseteq Ev(s) /\ Ev(b) \subseteq Ev(s)
       /\ Sorted(b) /\ Ahead(Ev(f), Ev(b))
  BY <1>2, <1>5, <1>6, <1>7, <1>8, <1>9, CutOrder DEF BurstOrder
<1>11. /\ rcvd' = rcvd \cup Ev(f) /\ burst'[c] = b /\ pc'[c] = "rcv"
       /\ UNCHANGED <<odpq, stash, ctx>>
  <2>1. rcvd' = rcvd \cup {s[i] : i \in 1..n} BY <1>2, <1>3 DEF Receive
  <2>2. burst'[c] = b BY <1>1, <1>2, <1>3, <1>8 DEF Receive, TypeOK
  <2> QED BY <1>1, <1>10, <2>1, <2>2 DEF Receive, TypeOK, qvars, agvars
<1>12. ASSUME NEW q \in Queues PROVE QueueOrder(q)'
  <2>1. QueueOrder(q) /\ Ahead(Ev(f), Ev(odpq[q])) BY <1>2, <1>9, <1>10 DEF OrderInv, BurstOrder, Ahead
  <2>2. Ahead(rcvd', Ev(odpq[q])) BY <1>11, <2>1 DEF QueueOrder, Ahead
  <2> QED BY <1>11, <2>1, <2>2 DEF QueueOrder
<1>13. ASSUME NEW l \in Levels PROVE StashOrder(l)'
  <2>1. StashOrder(l) /\ Ahead(Ev(f), Ev(stash[l])) BY <1>2, <1>9, <1>10 DEF OrderInv, WorkOrder, Ahead
  <2>2. Ahead(rcvd', Ev(stash[l])) BY <1>11, <2>1 DEF StashOrder, Ahead
  <2> QED BY <1>11, <2>1, <2>2 DEF StashOrder, PrioOf
<1>14. CoreOrder(c)'
  <2>1. Ahead(rcvd', Ev(b)) BY <1>2, <1>9, <1>10, <1>11 DEF BurstOrder, Ahead
  <2>2. \A q \in Queues : Ahead(Ev(b), Ev(odpq[q])) BY <1>2, <1>9, <1>10 DEF BurstOrder, Ahead
  <2>3. BurstOrder(c)' BY <1>10, <1>11, <2>1, <2>2 DEF BurstOrder
  <2>4. \A l \in Levels : Ahead(Ev(b), Ev(stash[l])) BY <1>2, <1>9, <1>10 DEF WorkOrder, Ahead
  <2>5. WorkOrder(c)' BY <1>11, <2>4 DEF WorkOrder
  <2>6. ~Fetching(c)' BY <1>11 DEF Fetching
  <2> QED BY <2>3, <2>5, <2>6 DEF CoreOrder
<1>15. ASSUME NEW d \in Cores, d # c PROVE CoreOrder(d)'
  <2>1. pc'[d] = pc[d] /\ burst'[d] = burst[d] BY <1>1, <1>4, <1>15, OnlyOwn
  <2>2. (Fetching(d)' <=> Fetching(d)) /\ (Working(d)' <=> Working(d)) BY <2>1 DEF Fetching, Working
  <2>3. ASSUME Fetching(d) \/ Working(d) PROVE Ahead(Ev(s), Ev(burst[d]))
    <3>1. CASE Fetching(d)
      <4>1. FetchOrder(d) BY <1>9, <3>1 DEF CoreOrder
      <4> QED BY <1>2, <1>4, <4>1 DEF FetchOrder
    <3>2. CASE Working(d)
      <4>1. \A e \in Ev(burst[c]), g \in Ev(burst[d]) : e.q # g.q BY <1>4, <1>15, <3>2, WorkApart
      <4> QED BY <1>2, <4>1 DEF Ahead
    <3> QED BY <2>3, <3>1, <3>2
  <2>4. ASSUME Fetching(d) \/ Working(d) PROVE BurstOrder(d)'
    <3>1. BurstOrder(d) BY <1>9, <2>4 DEF CoreOrder
    <3>2. Ahead(rcvd', Ev(burst[d])) BY <1>10, <1>11, <2>3, <2>4, <3>1 DEF BurstOrder, Ahead
    <3> QED BY <1>11, <2>1, <3>1, <3>2 DEF BurstOrder
  <2>5. ASSUME Fetching(d) PROVE FetchOrder(d)'
    <3>1. FetchOrder(d) BY <1>9, <2>5 DEF CoreOrder
    <3>2. ASSUME NEW x \in Cores, Working(x)' PROVE Ahead(Ev(burst'[x]), Ev(burst[d]))
      <4>1. CASE x = c BY <1>10, <1>11, <2>3, <2>5, <4>1 DEF Ahead
      <4>2. CASE x # c
        <5>1. pc'[x] = pc[x] /\ burst'[x] = burst[x] BY <1>1, <1>4, <4>2, OnlyOwn
        <5>2. Working(x) BY <3>2, <5>1 DEF Working
        <5> QED BY <3>1, <5>1, <5>2 DEF FetchOrder
      <4> QED BY <4>1, <4>2
    <3> QED BY <1>11, <2>1, <3>1, <3>2 DEF FetchOrder
  <2>6. WorkOrder(d) => WorkOrder(d)' BY <1>11, <2>1 DEF WorkOrder
  <2> QED BY <1>9, <2>2, <2>4, <2>5, <2>6 DEF CoreOrder
<1>16. OrderInv' BY <1>12, <1>13, <1>14, <1>15 DEF OrderInv
<1>17. \A e \in rcvd' \ rcvd : e \in Ev(burst[c]) BY <1>2, <1>10, <1>11
<1> QED BY <1>16, <1>17

\* Every step keeps the order.
LEMMA OrderStep ==
  ASSUME IInv, ExclInv, OrderInv, [Next]_vars
  PROVE  OrderInv'
<1>1. TypeOK /\ BurstInv BY DEF IInv
<1>2. ASSUME NEW c \in Cores,
             EnqCount(c) \/ EnqError(c) \/ Trylock(c) \/ DeqCount(c) \/ ReceiveDone(c) \/ Unlock(c)
               \/ ScheduleNone(c) \/ ProcessingEnd(c)
      PROVE  OrderInv'
  <2>1. /\ UNCHANGED <<rcvd, odpq, stash>> /\ (CoreStep(c) \/ ProcessingEnd(c))
    BY <1>2 DEF EnqCount, EnqError, Trylock, DeqCount, ReceiveDone, Unlock, ScheduleNone, ProcessingEnd,
                CoreStep, agvars, qvars, history
  <2>2. pc \in [Cores -> Steps] BY <1>1 DEF TypeOK
  <2>3. Fetching(c)' => Fetching(c) /\ burst'[c] = burst[c] /\ ctx' = ctx
    BY <1>2, <2>2 DEF EnqCount, EnqError, Trylock, DeqCount, ReceiveDone, Unlock, ScheduleNone, ProcessingEnd,
                      Fetching, qvars, corevars
  <2>4. Working(c)' => Working(c) /\ burst'[c] = burst[c]
    BY <1>2, <2>2 DEF EnqCount, EnqError, Trylock, DeqCount, ReceiveDone, Unlock, ScheduleNone, ProcessingEnd,
                      Working, qvars, corevars
  <2> QED BY <1>1, <2>1, <2>3, <2>4, CoreStays
<1>3. ASSUME NEW c \in Cores, CoreStep(c) \/ ProcessingEnd(c) PROVE OrderInv'
  BY <1>2, <1>3, RoundOrder, AcquireOrder, PutOrder, DeqOrder, ReceiveOrder DEF CoreStep
<1>4. ASSUME UNCHANGED <<rcvd, odpq, pc, burst, ctx>>, UNCHANGED stash \/ \A l \in Levels : stash'[l] = <<>>
      PROVE  OrderInv'
  <2>1. Shrinks
    <3>1. \A q \in Queues : Sorted(odpq[q]) BY DEF OrderInv, QueueOrder
    <3>2. \A l \in Levels : Ev(stash'[l]) \subseteq Ev(stash[l]) /\ Sorted(stash'[l])
      BY <1>4, EvOf DEF OrderInv, StashOrder
    <3> QED BY <1>4, <3>1, <3>2 DEF Shrinks
  <2>2. \A d \in Cores : Keeps(d) BY <1>4 DEF Keeps
  <2>3. OnlyMoves({}) /\ {} \in SUBSET Cores BY <2>2 DEF OnlyMoves
  <2> QED BY <1>1, <2>1, <2>3, ShrinkOrder
<1>5. ASSUME NEW q \in Queues, NEW g \in Tags, Send(q, g) PROVE OrderInv' BY <1>5, SendOrder
<1>6. ASSUME NEW Q \in Stoppable, StopQueues(Q) \/ \E c \in Cores : AckStop(c, Q) PROVE OrderInv'
  BY <1>4, <1>6 DEF StopQueues, AckStop, agvars, corevars, history
<1>7. ASSUME NEW q \in Queues, QueueDelete(q) PROVE OrderInv'
  BY <1>4, <1>7 DEF QueueDelete, corevars, history
<1>8. CASE GroupDelete BY <1>4, <1>8 DEF GroupDelete, qvars, corevars
<1>9. CASE UNCHANGED vars BY <1>4, <1>9 DEF vars, agvars, qvars, corevars, history
<1> QED BY <1>3, <1>5, <1>6, <1>7, <1>8, <1>9 DEF Next

\* Receive functions get the events of a queue in the order they were sent.
LEMMA OrderFollows ==
  ASSUME IInv, ExclInv, OrderInv, [Next]_vars, NEW e \in rcvd' \ rcvd
  PROVE  /\ \E c \in Cores : pc[c] = "run" /\ e \in Ev(burst[c])
         /\ \A f \in rcvd : f.q = e.q => f.n < e.n
<1>1. ASSUME NEW c \in Cores, Receive(c)
      PROVE  /\ pc[c] = "run" /\ e \in Ev(burst[c])
             /\ \A f \in rcvd : f.q = e.q => f.n < e.n
  <2>1. e \in Ev(burst[c]) /\ pc[c] = "run" BY <1>1, ReceiveOrder DEF Receive
  <2>2. Ahead(rcvd, Ev(burst[c])) BY <2>1 DEF OrderInv, CoreOrder, Working, BurstOrder
  <2> QED BY <2>1, <2>2 DEF Ahead
<1>2. ASSUME \A c \in Cores : ~Receive(c) PROVE rcvd' = rcvd
  <2>1. ASSUME NEW c \in Cores, CoreStep(c) \/ ProcessingEnd(c) PROVE rcvd' = rcvd
    <3>1. ASSUME NEW q \in Queues, NEW n \in 1..MaxBurst, DispatchRound(c, q, n) PROVE rcvd' = rcvd
      BY <3>1 DEF DispatchRound
    <3>2. CASE ScheduleNone(c) \/ AcquireIfIdle(c) \/ EnqCount(c) \/ EnqPut(c)
      BY <3>2 DEF ScheduleNone, AcquireIfIdle, EnqCount, EnqPut, history
    <3>3. CASE EnqError(c) \/ Trylock(c) \/ Deq(c) \/ DeqCount(c)
      BY <3>3 DEF EnqError, Trylock, Deq, DeqCount, history
    <3>4. CASE ReceiveDone(c) \/ Unlock(c) \/ ProcessingEnd(c)
      BY <3>4 DEF ReceiveDone, Unlock, ProcessingEnd, history
    <3> QED BY <1>2, <2>1, <3>1, <3>2, <3>3, <3>4 DEF CoreStep
  <2>2. ASSUME NEW Q \in Stoppable, StopQueues(Q) \/ \E c \in Cores : AckStop(c, Q) PROVE rcvd' = rcvd
    BY <2>2 DEF StopQueues, AckStop, history
  <2>3. CASE \/ \E q \in Queues, g \in Tags : Send(q, g)
             \/ \E q \in Queues : QueueDelete(q)
             \/ GroupDelete \/ UNCHANGED vars
    BY <2>3 DEF Send, QueueDelete, GroupDelete, vars, history
  <2> QED BY <2>1, <2>2, <2>3 DEF Next
<1> QED BY <1>1, <1>2

-----------------------------------------------------------------------------
(* No receive call after the stop of a queue. *)

\* The queues of the group are taken out of use together: those of an EO that has
\* all of them are.
WholeGroup == \A Q \in Stoppable : Q \cap Group # {} => Group \subseteq Q

\* Cores confirm the stop of all queues of the group at once, and a core that has
\* events of another queue in hand has not confirmed the stop of that one.
QuietInv ==
  /\ \A q, r \in Group : acked[q] = acked[r]
  /\ \A c \in Cores : pc[c] \in {"run", "rcv"} =>
       \A e \in Ev(burst[c]) : e.q \notin Group => c \notin acked[e.q]

\* The core has in hand what it had.
Less(c) == pc'[c] \in {"run", "rcv"} =>
             \/ \A e \in Ev(burst'[c]) : e.q \in Group
             \/ pc[c] \in {"run", "rcv"} /\ Ev(burst'[c]) \subseteq Ev(burst[c])

\* Every step keeps it.
LEMMA QuietStep ==
  ASSUME WholeGroup, IInv, QuietInv, [Next]_vars
  PROVE  QuietInv'
<1>1. TypeOK /\ BurstInv /\ StopInv BY DEF IInv
<1>2. /\ pc \in [Cores -> Steps] /\ burst \in [Cores -> Seq(Event)] /\ acked \in [Queues -> SUBSET Cores]
      /\ Group \subseteq Queues
  BY <1>1, GroupAssumption DEF TypeOK
<1>3. ASSUME NEW c \in Cores, CoreStep(c) \/ ProcessingEnd(c), acked' = acked, Less(c) PROVE QuietInv'
  <2>1. ASSUME NEW d \in Cores, d # c PROVE pc'[d] = pc[d] /\ burst'[d] = burst[d]
    BY <1>1, <1>3, <2>1, OnlyOwn
  <2>2. ASSUME NEW d \in Cores, pc'[d] \in {"run", "rcv"}, NEW e \in Ev(burst'[d]), e.q \notin Group
        PROVE  d \notin acked[e.q]
    <3>1. CASE d = c BY <1>3, <2>2, <3>1 DEF Less, QuietInv
    <3>2. CASE d # c BY <2>1, <2>2, <3>2 DEF QuietInv
    <3> QED BY <3>1, <3>2
  <2> QED BY <1>3, <2>2 DEF QuietInv
<1>4. ASSUME UNCHANGED <<pc, burst, acked>> PROVE QuietInv' BY <1>4 DEF QuietInv
<1>5. \A c \in Cores : CoreOK(pc[c], burst[c], cur[c], released[c]) BY <1>1 DEF BurstInv
<1>6. \A c \in Cores : AllIn(burst[c], Group) => \A e \in Ev(burst[c]) : e.q \in Group BY <1>2, EvOf
<1>7. ASSUME NEW c \in Cores, NEW q \in Queues, NEW n \in 1..MaxBurst, DispatchRound(c, q, n) PROVE QuietInv'
  <2>1. pc[c] = "idle" /\ acked' = acked /\ CoreStep(c) BY <1>7 DEF DispatchRound, CoreStep
  <2>2. CASE state[q] # "ready"
    <3>1. UNCHANGED <<pc, burst>> BY <1>7, <2>2 DEF DispatchRound
    <3> QED BY <1>4, <2>1, <3>1
  <2>3. CASE state[q] = "ready"
    <3>1. PICK f : f = SubSeq(odpq[q], 1, n) OBVIOUS
    <3>2. pc'[c] = (IF q \in Group THEN "acquire" ELSE "run") /\ burst'[c] = f
      BY <1>2, <1>7, <2>3, <3>1 DEF DispatchRound
    <3>3. \A e \in Ev(f) : e.q = q
      <4>1. odpq[q] \in Seq(Event) /\ AllIn(odpq[q], {q}) BY <1>1 DEF TypeOK, BurstInv
      <4>2. n \in 0..Len(odpq[q]) BY <1>7 DEF DispatchRound
      <4>3. f \in Seq(Event) /\ AllIn(f, {q}) BY <3>1, <4>1, <4>2, Cut
      <4> QED BY <4>3, EvOf
    <3>4. acked[q] = {} BY <1>1, <2>3 DEF StopInv
    <3>5. ASSUME NEW d \in Cores, pc'[d] \in {"run", "rcv"}, NEW e \in Ev(burst'[d]), e.q \notin Group
          PROVE  d \notin acked[e.q]
      <4>1. CASE d = c BY <3>2, <3>3, <3>4, <3>5, <4>1
      <4>2. CASE d # c
        <5>1. pc'[d] = pc[d] /\ burst'[d] = burst[d] BY <1>1, <2>1, <4>2, OnlyOwn
        <5> QED BY <3>5, <5>1 DEF QuietInv
      <4> QED BY <4>1, <4>2
    <3> QED BY <2>1, <3>5 DEF QuietInv
  <2> QED BY <2>2, <2>3
<1>8. ASSUME NEW c \in Cores, AcquireIfIdle(c) \/ EnqCount(c) \/ DeqCount(c) PROVE QuietInv'
  <2>1. acked' = acked /\ burst' = burst /\ CoreStep(c) /\ pc[c] \in {"acquire", "count", "sub"}
    BY <1>8 DEF AcquireIfIdle, EnqCount, DeqCount, CoreStep, qvars
  <2>2. \A e \in Ev(burst[c]) : e.q \in Group BY <1>5, <1>6, <2>1 DEF CoreOK
  <2> QED BY <1>3, <2>1, <2>2 DEF Less
<1>9. ASSUME NEW c \in Cores, EnqPut(c) \/ EnqError(c) \/ Trylock(c) \/ Deq(c) \/ Unlock(c) \/ ScheduleNone(c)
      PROVE  QuietInv'
  <2>1. CoreStep(c) BY <1>9 DEF CoreStep
  <2>2. CASE EnqPut(c)
    <3>1. acked' = acked /\ pc'[c] \in {"uncount", "trylock"} BY <1>2, <2>2 DEF EnqPut, qvars
    <3> QED BY <1>3, <2>1, <3>1 DEF Less
  <2>3. CASE EnqError(c) \/ Trylock(c)
    <3>1. acked' = acked /\ pc'[c] \in {"trylock", "deq", "idle"} BY <1>2, <2>3 DEF EnqError, Trylock, qvars
    <3> QED BY <1>3, <2>1, <3>1 DEF Less
  <2>4. CASE Deq(c)
    <3>1. acked' = acked /\ pc'[c] = "sub" BY <1>2, <2>4 DEF Deq, qvars
    <3> QED BY <1>3, <2>1, <3>1 DEF Less
  <2>5. CASE Unlock(c) \/ ScheduleNone(c)
    <3>1. acked' = acked /\ pc'[c] \in {"deq", "idle"} BY <1>2, <2>5 DEF Unlock, ScheduleNone, qvars, corevars
    <3> QED BY <1>3, <2>1, <3>1 DEF Less
  <2> QED BY <1>9, <2>2, <2>3, <2>4, <2>5
<1>10. ASSUME NEW c \in Cores, ReceiveDone(c) \/ ProcessingEnd(c) PROVE QuietInv'
  <2>1. acked' = acked /\ burst' = burst /\ (CoreStep(c) \/ ProcessingEnd(c)) /\ pc[c] = "rcv"
    BY <1>10 DEF ReceiveDone, ProcessingEnd, CoreStep, qvars
  <2> QED BY <1>3, <2>1 DEF Less
<1>11. ASSUME NEW c \in Cores, Receive(c) PROVE QuietInv'
  <2>1. acked' = acked /\ CoreStep(c) /\ pc[c] = "run" BY <1>11 DEF Receive, CoreStep, qvars
  <2>2. PICK s : s = burst[c] OBVIOUS
  <2>3. PICK n : n = BatchSize(s) OBVIOUS
  <2>4. s \in Seq(Event) /\ s # <<>> BY <1>2, <1>5, <2>1, <2>2 DEF CoreOK
  <2>5. n \in 0..Len(s)
    <3>1. n \in 1..Len(s) /\ Len(s) \in Nat BY <2>3, <2>4, BatchFits, Nothing
    <3> QED BY <3>1
  <2>6. burst'[c] = SubSeq(s, n + 1, Len(s)) BY <1>2, <1>11, <2>2, <2>3 DEF Receive
  <2>7. Ev(burst'[c]) \subseteq Ev(s)
    <3>1. PICK b : b = SubSeq(s, n + 1, Len(s)) OBVIOUS
    <3>2. Ev(b) \subseteq Ev(s) BY <2>4, <2>5, <3>1, PartEv
    <3> QED BY <2>6, <3>1, <3>2
  <2> QED BY <1>3, <2>1, <2>2, <2>7 DEF Less
<1>12. ASSUME NEW Q \in Stoppable, NEW c \in Cores, AckStop(c, Q) PROVE QuietInv'
  <2>1. /\ acked' = [q \in Queues |-> acked[q] \cup (IF q \in Q THEN {c} ELSE {})]
        /\ UNCHANGED <<pc, burst>> /\ pc[c] = "idle"
    BY <1>12 DEF AckStop, corevars
  <2>2. \A q, r \in Group : q \in Q <=> r \in Q BY DEF WholeGroup
  <2>3. \A q, r \in Group : acked'[q] = acked'[r] BY <1>2, <2>1, <2>2 DEF QuietInv
  <2>4. ASSUME NEW d \in Cores, pc'[d] \in {"run", "rcv"}, NEW e \in Ev(burst'[d]), e.q \notin Group
        PROVE  d \notin acked'[e.q]
    <3>1. d # c /\ d \notin acked[e.q] BY <2>1, <2>4 DEF QuietInv
    <3>2. e.q \in Queues BY <1>2, <2>1, <2>4, EvOf, Nothing
    <3> QED BY <2>1, <3>1, <3>2
  <2> QED BY <2>3, <2>4 DEF QuietInv
<1>13. ASSUME NEW Q \in Stoppable, StopQueues(Q) PROVE QuietInv' BY <1>4, <1>13 DEF StopQueues, corevars
<1>14. ASSUME NEW q \in Queues, NEW g \in Tags, Send(q, g) PROVE QuietInv' BY <1>4, <1>14 DEF Send, corevars
<1>15. ASSUME NEW q \in Queues, QueueDelete(q) PROVE QuietInv' BY <1>4, <1>15 DEF QueueDelete, corevars
<1>16. CASE GroupDelete BY <1>4, <1>16 DEF GroupDelete, qvars, corevars
<1>17. CASE UNCHANGED vars BY <1>4, <1>17 DEF vars, qvars, corevars
<1> QED BY <1>7, <1>8, <1>9, <1>10, <1>11, <1>12, <1>13, <1>14, <1>15, <1>16, <1>17 DEF Next, CoreStep

\* Events in hand of a core that runs are of queues that are not stopped.
LEMMA QuietFollows ==
  ASSUME IInv, QuietInv, NEW c \in Cores, pc[c] = "run", NEW e \in Ev(burst[c])
  PROVE  state[e.q] \in {"ready", "stopping"}
<1>1. TypeOK /\ BurstInv /\ StopInv BY DEF IInv
<1>2. burst[c] \in Seq(Event) /\ CoreOK(pc[c], burst[c], cur[c], released[c]) BY <1>1 DEF TypeOK, BurstInv
<1>3. e.q \in Queues BY <1>2, EvOf, Nothing
<1>4. c \notin acked[e.q]
  <2>1. CASE e.q \in Group
    <3>1. AllIn(burst[c], Group) BY <1>2, <2>1, EvOf DEF CoreOK
    <3>2. AtGroup(c) BY <3>1 DEF AtGroup
    <3>3. PICK q \in Group : c \notin acked[q] BY <1>1, <3>2 DEF StopInv
    <3> QED BY <2>1, <3>3 DEF QuietInv
  <2>2. CASE e.q \notin Group BY <2>2 DEF QuietInv
  <2> QED BY <2>1, <2>2
<1>5. acked[e.q] # Cores BY <1>4
<1>6. state[e.q] \in QStates BY <1>1, <1>3 DEF TypeOK
<1> QED BY <1>1, <1>3, <1>5, <1>6 DEF StopInv, QStates

\* Whatever the number of cores, queues and events: without partial batches, and
\* as long as the queues of the group are stopped together, receive functions get
\* the events of every queue in the order in which they were sent, through the
\* stashes or past them, and none once every core has confirmed the stop.
THEOREM ReceivesInOrderHolds ==
  ASSUME NoPartialBatch, WholeGroup
  PROVE  Spec => ReceivesInOrder
<1>1. Init => ExclInv
  <2> SUFFICES ASSUME Init PROVE ExclInv OBVIOUS
  <2>1. Multi = {} \/ Len(<<>>) <= MaxEvents BY Nothing, GroupAssumption
  <2> QED BY <2>1 DEF Init, ExclInv, CallOK
<1>2. IInv /\ ExclInv /\ [Next]_vars => ExclInv' BY ExclStep DEF IInv
<1>3. Init => OrderInv /\ QuietInv
  <2> SUFFICES ASSUME Init PROVE OrderInv /\ QuietInv OBVIOUS
  <2>1. /\ \A l \in Levels : stash[l] = <<>>
        /\ \A q \in Queues : odpq[q] = <<>> /\ acked[q] = {}
        /\ \A c \in Cores : pc[c] = "idle"
    BY DEF Init
  <2>2. Group \subseteq Queues BY GroupAssumption
  <2> QED BY <2>1, <2>2, EvOf DEF OrderInv, QueueOrder, StashOrder, CoreOrder, Fetching, Working, Ahead, QuietInv
<1>4. IInv /\ ExclInv /\ OrderInv /\ [Next]_vars => OrderInv' BY OrderStep
<1>5. IInv /\ QuietInv /\ [Next]_vars => QuietInv' BY QuietStep
<1>6. IInv /\ ExclInv /\ OrderInv /\ QuietInv /\ [Next]_vars
        => [\A e \in rcvd' \ rcvd : \A f \in rcvd : f.q = e.q => f.n < e.n]_vars
  BY OrderFollows
<1>7. IInv /\ ExclInv /\ OrderInv /\ QuietInv /\ [Next]_vars
        => [\A e \in rcvd' \ rcvd : state[e.q] \in {"ready", "stopping"}]_vars
  BY OrderFollows, QuietFollows
<1> QED BY <1>1, <1>2, <1>3, <1>4, <1>5, <1>6, <1>7, AtomicGroupInductive, PTL
        DEF Spec, ReceivesInOrder, InOrder, QuietWhenStopped
=============================================================================
