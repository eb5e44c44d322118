-------------------------- MODULE QueueGroupProofs --------------------------
(***************************************************************************)
(* The safety properties of QueueGroup, for any number of cores, queue     *)
(* groups, operations and terminations.                                    *)
(*                                                                         *)
(* An operation ends when its count of requests reaches zero, so the       *)
(* argument is about that count: it is the number of requests that are     *)
(* still to be sent, unread or being handled, plus the done event.  That   *)
(* is inductive only together with where a request of an operation can be  *)
(* (MailInv), which core is sending it (CallInv), that no second delete of *)
(* the group runs (DeleteInv), and that a core leaves the core map before  *)
(* it terminates and waits until the others have read that (TermInv).      *)
(* Most actions change the mailbox of one core and one operation; the      *)
(* lemmas below say what such a step does to each part of the invariant.   *)
(***************************************************************************)
EXTENDS QueueGroup, FiniteSetTheorems, SequenceTheorems, WellFoundedInduction, TLAPS

\* The operation has been started and has not ended.
Running(o) == o \in DOMAIN ops /\ ops[o].st = "run"

\* The core map holds the cores that have started and are not terminating; a
\* core mask holds those that have not left the group, and an element that is
\* free or being deleted has an empty one.
MapInv ==
  /\ \A c \in Core : c \in logic <=> st[c] \in {"init", "up"}
  /\ \A c \in logic : odpThr[c] = c
  /\ \A g \in Group : \A c \in grp[g].mask :
       st[c] \in {"init", "up", "term"} \/ (st[c] = "leave" /\ g \in todo[c])
  /\ \A g \in Group : ~grp[g].alloc \/ grp[g].del => grp[g].mask = {}
  /\ \A g \in Group \ Dyn : grp[g].alloc /\ ~grp[g].del

\* One delete of a group at a time, and the group is marked for it.
DeleteInv ==
  /\ \A o \in DOMAIN ops : Running(o) /\ ops[o].kind = "delete" =>
       grp[ops[o].g].alloc /\ grp[ops[o].g].del
  /\ \A o, p \in DOMAIN ops :
       /\ Running(o) /\ ops[o].kind = "delete" /\ Running(p) /\ ops[p].kind = "delete"
       /\ ops[o].g = ops[p].g
       => o = p

\* A core is in the call of a running operation of its own while it sends the
\* requests, and afterwards if it waits; in_progress is set exactly then.
CallInv ==
  /\ \A c \in Core :
       /\ call[c].pc # "idle" => st[c] = "up" /\ call[c].op \in DOMAIN ops
       /\ call[c].pc = "send" => /\ Running(call[c].op) /\ ops[call[c].op].caller = c
                                 /\ call[c].rem # {} \/ call[c].add # {}
       /\ inprog[c] => /\ call[c].pc # "idle" /\ Running(call[c].op)
                       /\ Waits(ops[call[c].op]) /\ ops[call[c].op].caller = c
       /\ call[c].pc = "wait" /\ ~inprog[c] => ops[call[c].op].st = "done"
  /\ \A o \in DOMAIN ops : Running(o) /\ Waits(ops[o]) =>
       LET c == ops[o].caller IN inprog[c] /\ call[c].op = o

\* Control events are where they belong: only DONE events of operations that
\* are not synchronous are in the shared queue, those of a synchronous one and
\* of a termination go to its caller.
MailInv ==
  /\ \A c \in Core : ph[c] = "out" => batch[c] = <<>>
  /\ \A m \in ToSet(shared) : m.t = "DONE" /\ m.id \in DOMAIN ops /\ ~ops[m.id].sync
  /\ \A c \in Core : \A m \in Mail(c) :
       /\ m.t \in {"ADD", "REM", "DONE"} => m.id \in DOMAIN ops
       /\ m.t = "DONE" /\ ops[m.id].sync => ops[m.id].caller = c
       /\ m.t = "DONE" /\ m \in ToSet(ctrlq[c]) => ops[m.id].sync
       /\ m.t = "TDONE" => m.id = c

\* The threads that a TERM_THREAD_REQ of x waits at, and those whose request
\* waits at d.
TermAt(x) == {d \in Core : [t |-> "TERM", id |-> x] \in Mail(d)}
TermOf(d) == {x \in Core : [t |-> "TERM", id |-> x] \in Mail(d)}

\* The event group of a termination counts its requests, ongoing_term_reqs at
\* least those of a thread; there is none, and no DONE event, once it is done.
TermInv ==
  /\ \A x \in Core : tleft[x] = Cardinality(TermAt(x))
  /\ \A d \in Core : treqs[d] >= Cardinality(TermOf(d))
  /\ \A x \in Core : tleft[x] > 0 => st[x] \in {"term", "extterm"} /\ ~tdone[x]
  /\ \A x \in Core : [t |-> "TDONE", id |-> x] \in Mail(x) =>
       st[x] \in {"term", "extterm"} /\ ~tdone[x] /\ tleft[x] = 0

\* The inductive invariant of operations that no core starts while another one
\* terminates.
IInv == TypeOK /\ MapInv /\ DeleteInv /\ CallInv /\ MailInv /\ TermInv /\ RequestsMatchCount

-----------------------------------------------------------------------------
(* Numbers, sequences and sets. *)

\* A non-empty set of numbers has a smallest one.
LEMMA MinIsIn ==
  ASSUME NEW T \in SUBSET Nat, T # {}
  PROVE  Min(T) \in T
<1>1. IsWellFoundedOn(OpToRel(<, Nat), Nat) BY NatLessThanWellFounded
<1>2. PICK x \in T : \A y \in T : ~(<<y, x>> \in OpToRel(<, Nat)) BY <1>1, WFMin
<1>3. \A y \in T : ~(y < x) BY <1>2 DEF OpToRel
<1>4. \A y \in T : x <= y BY <1>3
<1> QED BY <1>4 DEF Min

\* The elements of a sequence.
LEMMA Elements ==
  ASSUME NEW S, NEW s \in Seq(S)
  PROVE  ToSet(s) \subseteq S
<1>1. \A i \in DOMAIN s : s[i] \in S BY LenProperties
<1> QED BY <1>1 DEF ToSet

\* An empty queue.
LEMMA EmptyQueue ==
  /\ ToSet(<<>>) = {} /\ IsInjective(<<>>) /\ \A S : <<>> \in Seq(S)
<1>1. DOMAIN <<>> = {} BY EmptySeq, LenProperties
<1> QED BY <1>1, EmptySeq DEF ToSet, IsInjective

\* odp_queue_enq(): an event is added to a queue.
LEMMA Enqueued ==
  ASSUME NEW S, NEW s \in Seq(S), NEW x \in S
  PROVE  /\ Append(s, x) \in Seq(S)
         /\ ToSet(Append(s, x)) = ToSet(s) \cup {x}
         /\ IsInjective(s) /\ x \notin ToSet(s) => IsInjective(Append(s, x))
<1> DEFINE u == Append(s, x)
           n == Len(s)
<1>1. n \in Nat /\ DOMAIN s = 1..n BY LenProperties
<1>2. /\ u \in Seq(S) /\ Len(u) = n + 1 /\ u[n + 1] = x
      /\ \A i \in 1..n : u[i] = s[i]
  BY AppendProperties
<1>3. DOMAIN u = 1..(n + 1) BY <1>2, LenProperties
<1> HIDE DEF u, n
<1>4. 1..(n + 1) = 1..n \cup {n + 1} /\ n + 1 \notin 1..n BY <1>1
<1>5. ToSet(u) = ToSet(s) \cup {x} BY <1>1, <1>2, <1>3, <1>4 DEF ToSet
<1>6. ASSUME IsInjective(s), x \notin ToSet(s) PROVE IsInjective(u)
  <2>1. \A i \in 1..n : s[i] # x BY <1>1, <1>6 DEF ToSet
  <2>2. \A i, j \in 1..n : s[i] = s[j] => i = j BY <1>1, <1>6 DEF IsInjective
  <2>3. \A i, j \in 1..(n + 1) : u[i] = u[j] => i = j BY <1>2, <1>4, <2>1, <2>2
  <2> QED BY <1>3, <2>3 DEF IsInjective
<1> QED BY <1>2, <1>5, <1>6 DEF u

\* The first event of a batch is handled.
LEMMA Handled ==
  ASSUME NEW S, NEW s \in Seq(S), s # <<>>
  PROVE  /\ Head(s) \in ToSet(s) /\ Head(s) \in S /\ Tail(s) \in Seq(S)
         /\ IsInjective(s) => ToSet(Tail(s)) = ToSet(s) \ {Head(s)} /\ IsInjective(Tail(s))
<1> DEFINE u == Tail(s)
           n == Len(s)
           h == Head(s)
<1>1. n \in Nat \ {0} /\ DOMAIN s = 1..n BY LenProperties, EmptySeq
<1>2. /\ h = s[1] /\ u \in Seq(S) /\ Len(u) = n - 1
      /\ \A i \in 1..(n - 1) : u[i] = s[i + 1]
  <2>1. h = s[1] BY <1>1
  <2>2. u \in Seq(S) /\ Len(u) = n - 1 /\ \A i \in 1..(n - 1) : u[i] = s[i + 1]
    BY HeadTailProperties
  <2> QED BY <2>1, <2>2
<1>3. DOMAIN u = 1..(n - 1) BY <1>2, LenProperties
<1> HIDE DEF u, n, h
<1>4. h \in ToSet(s) BY <1>1, <1>2 DEF ToSet
<1>5. ASSUME IsInjective(s) PROVE ToSet(u) = ToSet(s) \ {h} /\ IsInjective(u)
  <2>1. \A i, j \in 1..n : s[i] = s[j] => i = j BY <1>1, <1>5 DEF IsInjective
  <2>2. ASSUME NEW i \in 1..(n - 1) PROVE u[i] \in ToSet(s) \ {h}
    <3>1. i + 1 \in 1..n /\ 1 \in 1..n /\ i + 1 # 1 BY <1>1
    <3>2. u[i] = s[i + 1] /\ s[i + 1] # s[1] BY <1>2, <2>1, <3>1
    <3> QED BY <1>1, <1>2, <3>1, <3>2 DEF ToSet
  <2>3. ASSUME NEW i \in 1..n, s[i] # h PROVE s[i] \in ToSet(u)
    <3>1. i - 1 \in 1..(n - 1) /\ (i - 1) + 1 = i BY <1>1, <1>2, <2>3
    <3>2. u[i - 1] = s[i] BY <1>2, <3>1
    <3> QED BY <1>3, <3>1, <3>2 DEF ToSet
  <2>4. ASSUME NEW i \in 1..(n - 1), NEW j \in 1..(n - 1), u[i] = u[j] PROVE i = j
    <3>1. i + 1 \in 1..n /\ j + 1 \in 1..n BY <1>1
    <3>2. s[i + 1] = s[j + 1] BY <1>2, <2>4
    <3>3. i + 1 = j + 1 BY <2>1, <3>1, <3>2
    <3> QED BY <1>1, <3>3
  <2> QED BY <1>1, <1>3, <2>2, <2>3, <2>4 DEF ToSet, IsInjective
<1>6. h \in S BY <1>4, Elements
<1> QED BY <1>2, <1>4, <1>5, <1>6 DEF u, h

\* Events of two queues in one batch.
LEMMA Joined ==
  ASSUME NEW S, NEW s \in Seq(S), NEW t \in Seq(S)
  PROVE  /\ s \o t \in Seq(S)
         /\ ToSet(s \o t) = ToSet(s) \cup ToSet(t)
         /\ IsInjective(s) /\ IsInjective(t) /\ ToSet(s) \cap ToSet(t) = {} => IsInjective(s \o t)
<1> DEFINE u == s \o t
           m == Len(s)
           n == Len(t)
<1>1. m \in Nat /\ DOMAIN s = 1..m /\ n \in Nat /\ DOMAIN t = 1..n BY LenProperties
<1>2. /\ u \in Seq(S) /\ Len(u) = m + n
      /\ \A i \in 1..(m + n) : u[i] = IF i <= m THEN s[i] ELSE t[i - m]
  BY ConcatProperties
<1>3. DOMAIN u = 1..(m + n) BY <1>2, LenProperties
<1> HIDE DEF u, m, n
<1>4. \A i \in 1..m : i \in 1..(m + n) /\ u[i] = s[i] BY <1>1, <1>2
<1>5. \A i \in 1..n : m + i \in 1..(m + n) /\ u[m + i] = t[i]
  <2> TAKE i \in 1..n
  <2>1. m + i \in 1..(m + n) /\ ~(m + i <= m) /\ (m + i) - m = i BY <1>1
  <2> QED BY <1>2, <2>1
<1>6. \A i \in 1..(m + n) : i \in 1..m \/ (i - m \in 1..n /\ m + (i - m) = i) BY <1>1
<1>7. ASSUME NEW i \in 1..(m + n)
      PROVE  \/ i \in 1..m /\ u[i] = s[i] /\ u[i] \in ToSet(s)
             \/ i - m \in 1..n /\ u[i] = t[i - m] /\ m + (i - m) = i /\ u[i] \in ToSet(t)
  <2>1. CASE i \in 1..m BY <1>1, <1>4, <2>1 DEF ToSet
  <2>2. CASE i - m \in 1..n /\ m + (i - m) = i
    <3>1. u[i] = t[i - m] BY <1>5, <2>2
    <3> QED BY <1>1, <2>2, <3>1 DEF ToSet
  <2> QED BY <1>6, <2>1, <2>2
<1>8. ToSet(u) = ToSet(s) \cup ToSet(t)
  <2>1. \A i \in 1..m : s[i] \in ToSet(u) BY <1>3, <1>4 DEF ToSet
  <2>2. ASSUME NEW i \in 1..n PROVE t[i] \in ToSet(u)
    <3>1. m + i \in 1..(m + n) /\ u[m + i] = t[i] BY <1>5
    <3> QED BY <1>3, <3>1 DEF ToSet
  <2>3. ToSet(u) \subseteq ToSet(s) \cup ToSet(t)
    <3> SUFFICES ASSUME NEW i \in 1..(m + n) PROVE u[i] \in ToSet(s) \cup ToSet(t)
      BY <1>3 DEF ToSet
    <3> QED BY <1>7
  <2>4. ToSet(s) \subseteq ToSet(u) BY <1>1, <2>1 DEF ToSet
  <2>5. ToSet(t) \subseteq ToSet(u) BY <1>1, <2>2 DEF ToSet
  <2> QED BY <2>3, <2>4, <2>5
<1>9. ASSUME IsInjective(s), IsInjective(t), ToSet(s) \cap ToSet(t) = {} PROVE IsInjective(u)
  <2> SUFFICES ASSUME NEW i \in 1..(m + n), NEW j \in 1..(m + n), u[i] = u[j] PROVE i = j
    BY <1>3 DEF IsInjective
  <2>1. CASE i \in 1..m /\ j \in 1..m
    <3>1. s[i] = s[j] BY <1>4, <2>1
    <3> QED BY <1>1, <1>9, <2>1, <3>1 DEF IsInjective
  <2>2. CASE i - m \in 1..n /\ j - m \in 1..n /\ m + (i - m) = i /\ m + (j - m) = j
    <3>1. t[i - m] = t[j - m] BY <1>5, <2>2
    <3>2. i - m = j - m BY <1>1, <1>9, <2>2, <3>1 DEF IsInjective
    <3> QED BY <2>2, <3>2
  <2> QED BY <1>7, <1>9, <2>1, <2>2
<1> QED BY <1>2, <1>8, <1>9 DEF u

\* The constants.
LEMMA Constants ==
  /\ IsFiniteSet(Core) /\ Core \subseteq Nat /\ 0 \in Core /\ Cardinality(Core) = NumCores
  /\ Dyn \subseteq Group /\ Default \in Group /\ Default \notin Dyn
  /\ \A S \in SUBSET Core : IsFiniteSet(S) /\ Cardinality(S) \in 0..NumCores
  /\ NumCores \in Nat \ {0} /\ MaxOps \in Nat /\ MaxTerms \in Nat
<1>1. /\ NumCores \in Nat \ {0} /\ MaxOps \in Nat /\ MaxTerms \in Nat /\ Default \notin Dyn
  BY ConstAssumption
<1>2. IsFiniteSet(Core) /\ Cardinality(Core) = NumCores
  <2>1. /\ IsFiniteSet(0..NumCores - 1)
        /\ Cardinality(0..NumCores - 1) = IF 0 > NumCores - 1 THEN 0 ELSE (NumCores - 1) - 0 + 1
    <3>1. 0 \in Int /\ NumCores - 1 \in Int BY <1>1
    <3> QED BY <3>1, FS_Interval
  <2>2. (IF 0 > NumCores - 1 THEN 0 ELSE (NumCores - 1) - 0 + 1) = NumCores BY <1>1
  <2> QED BY <2>1, <2>2 DEF Core
<1>3. Core \subseteq Nat /\ 0 \in Core BY <1>1 DEF Core
<1>4. Dyn \subseteq Group /\ Default \in Group BY DEF Group
<1>5. ASSUME NEW S \in SUBSET Core PROVE IsFiniteSet(S) /\ Cardinality(S) \in 0..NumCores
  <2>1. IsFiniteSet(S) /\ Cardinality(S) <= Cardinality(Core) BY <1>2, FS_Subset
  <2>2. Cardinality(S) \in Nat BY <2>1, FS_CardinalityType
  <2> QED BY <1>1, <1>2, <2>1, <2>2
<1> QED BY <1>1, <1>2, <1>3, <1>4, <1>5

\* There is a request of each kind to every core at most.
LEMMA OpenBound ==
  ASSUME NEW R \in SUBSET ({"ADD", "REM"} \X Core)
  PROVE  IsFiniteSet(R) /\ Cardinality(R) \in 0..2 * NumCores
<1> DEFINE P == {"ADD", "REM"} \X Core
<1>1. IsFiniteSet(Core) /\ Cardinality(Core) = NumCores /\ NumCores \in Nat BY Constants
<1>2. IsFiniteSet({"ADD", "REM"}) /\ Cardinality({"ADD", "REM"}) = 2
  <2>1. IsFiniteSet({"ADD"}) /\ Cardinality({"ADD"}) = 1 BY FS_Singleton
  <2>2. "REM" \notin {"ADD"} /\ {"ADD"} \cup {"REM"} = {"ADD", "REM"} OBVIOUS
  <2> QED BY <2>1, <2>2, FS_AddElement
<1>3. IsFiniteSet(P) /\ Cardinality(P) = Cardinality({"ADD", "REM"}) * Cardinality(Core)
  BY <1>1, <1>2, FS_Product
<1> HIDE DEF P
<1>4. IsFiniteSet(R) /\ Cardinality(R) <= Cardinality(P)
  <2>1. R \subseteq P BY DEF P
  <2> QED BY <1>3, <2>1, FS_Subset
<1>5. Cardinality(R) \in Nat BY <1>4, FS_CardinalityType
<1> QED BY <1>1, <1>2, <1>3, <1>4, <1>5

\* The open requests of an operation.
LEMMA OpenFinite ==
  ASSUME NEW o
  PROVE  /\ Open(o) \subseteq {"ADD", "REM"} \X Core
         /\ IsFiniteSet(Open(o)) /\ Cardinality(Open(o)) \in 0..2 * NumCores
<1>1. Open(o) \in SUBSET ({"ADD", "REM"} \X Core) BY DEF Open
<1> QED BY <1>1, OpenBound

\* The changes of an element of the queue group table.
LEMMA ElementTypes ==
  ASSUME NEW e \in Element
  PROVE  /\ \A n \in 0..1 : [e EXCEPT !.queues = n] \in Element
         /\ \A m \in SUBSET Core : [e EXCEPT !.mask = m] \in Element
         /\ \A d \in BOOLEAN : [e EXCEPT !.del = d] \in Element
         /\ Freed(e) \in Element
         /\ \A c \in Core : /\ Joins(e, c) \in Element /\ Leaves(e, c) \in Element
                            /\ LeavesMask(e, c) \in Element /\ JoinsMask(e, c) \in Element
<1>1. \A n \in 0..1 : [e EXCEPT !.queues = n] \in Element BY DEF Element
<1>2. \A m \in SUBSET Core : [e EXCEPT !.mask = m] \in Element BY DEF Element
<1>3. \A d \in BOOLEAN : [e EXCEPT !.del = d] \in Element BY DEF Element
<1>4. Freed(e) \in Element BY DEF Element, Freed
<1>5. ASSUME NEW c \in Core PROVE Joins(e, c) \in Element BY DEF Element, Joins
<1>6. ASSUME NEW c \in Core PROVE Leaves(e, c) \in Element BY DEF Element, Leaves
<1>7. ASSUME NEW c \in Core PROVE LeavesMask(e, c) \in Element BY DEF Element, LeavesMask, Leaves
<1>8. ASSUME NEW c \in Core PROVE JoinsMask(e, c) \in Element BY DEF Element, JoinsMask, Joins
<1> QED BY <1>1, <1>2, <1>3, <1>4, <1>5, <1>6, <1>7, <1>8

\* The operations so far.
LEMMA OpTypes ==
  ASSUME TypeOK
  PROVE  /\ DOMAIN ops = 1..nops /\ DOMAIN ops \subseteq OpId /\ nops \in Nat
         /\ \A o \in DOMAIN ops : /\ ops[o] \in Operation /\ ops[o].g \in Dyn /\ ops[o].g \in Group
                                  /\ ops[o].caller \in Core /\ ops[o].left \in Nat
         /\ \A c \in Core : call[c].op \in Nat /\ call[c].rem \subseteq Core /\ call[c].add \subseteq Core
         /\ \A g \in Group : grp[g] \in Element
<1>1. ops \in Seq(Operation) /\ Len(ops) = nops /\ nops \in 0..MaxOps /\ MaxOps \in Nat
  BY Constants DEF TypeOK
<1>2. DOMAIN ops = 1..nops /\ \A o \in DOMAIN ops : ops[o] \in Operation BY <1>1, LenProperties
<1>3. 1..nops \subseteq OpId /\ nops \in Nat BY <1>1 DEF OpId
<1>4. ASSUME NEW o \in DOMAIN ops
      PROVE ops[o].g \in Dyn /\ ops[o].g \in Group /\ ops[o].caller \in Core /\ ops[o].left \in Nat
  BY <1>2, Constants DEF Operation
<1>5. \A c \in Core : call[c].op \in Nat /\ call[c].rem \subseteq Core /\ call[c].add \subseteq Core
  BY <1>1 DEF TypeOK
<1>6. \A g \in Group : grp[g] \in Element BY DEF TypeOK
<1> QED BY <1>2, <1>3, <1>4, <1>5, <1>6

-----------------------------------------------------------------------------
(* What a step that does not touch the state of an invariant keeps. *)

\* The core map and the masks.
LEMMA MapSame ==
  ASSUME MapInv, UNCHANGED <<grp, logic, odpThr, st, todo>> PROVE MapInv'
BY DEF MapInv

\* The marks of the groups that are deleted.
LEMMA DeleteSame ==
  ASSUME DeleteInv, UNCHANGED <<grp, ops>> PROVE DeleteInv'
BY DEF DeleteInv, Running

\* The calls that cores are in.
LEMMA CallSame ==
  ASSUME CallInv, UNCHANGED <<call, inprog, ops, st>> PROVE CallInv'
BY DEF CallInv, Running, Waits

\* The mailboxes.
LEMMA MailSame ==
  ASSUME MailInv, UNCHANGED <<ctrlq, batch, shared, ops>>,
         \A c \in Core : ph'[c] = "out" => batch[c] = <<>>
  PROVE  MailInv'
BY DEF MailInv, Mail

\* The announcements of terminating cores.
LEMMA TermSame ==
  ASSUME TermInv, UNCHANGED <<tleft, treqs, tdone, st>>, \A c \in Core : Mail(c)' = Mail(c)
  PROVE  TermInv'
<1>1. \A x \in Core : TermAt(x)' = TermAt(x) /\ TermOf(x)' = TermOf(x) BY DEF TermAt, TermOf
<1> QED BY <1>1 DEF TermInv

\* The counts of the operations.
LEMMA CountSame ==
  ASSUME RequestsMatchCount, UNCHANGED <<ctrlq, batch, shared, ops, call>>
  PROVE  RequestsMatchCount'
<1>1. \A c \in Core : Mail(c)' = Mail(c) BY DEF Mail
<1>2. \A o, k, d : Unsent(o, k, d)' = Unsent(o, k, d) BY DEF Unsent
<1>3. \A o : Open(o)' = Open(o) BY <1>1, <1>2 DEF Open
<1>4. \A o : DoneSent(o)' = DoneSent(o) BY <1>1 DEF DoneSent, DoneEvent
<1>5. EachEventOnce' BY <1>1, <1>2 DEF EachEventOnce, RequestsMatchCount, DoneEvent
<1> QED BY <1>3, <1>4, <1>5 DEF RequestsMatchCount

\* The operations keep all but their counts.
OpsAlike ==
  /\ DOMAIN ops' = DOMAIN ops
  /\ \A p \in DOMAIN ops :
       /\ ops'[p].kind = ops[p].kind /\ ops'[p].g = ops[p].g /\ ops'[p].st = ops[p].st
       /\ ops'[p].caller = ops[p].caller /\ ops'[p].sync = ops[p].sync

\* A step that only counts in the operations keeps the calls as they are.
LEMMA CallAlike ==
  ASSUME CallInv, OpsAlike, UNCHANGED <<call, inprog, st>> PROVE CallInv'
<1>1. \A p : Running(p)' <=> Running(p) BY DEF OpsAlike, Running
<1>2. \A p \in DOMAIN ops : Waits(ops'[p]) <=> Waits(ops[p]) BY DEF OpsAlike, Waits
<1>3. ASSUME NEW c \in Core
      PROVE  /\ call[c].pc # "idle" => st[c] = "up" /\ call[c].op \in DOMAIN ops
             /\ call[c].pc = "send" => /\ Running(call[c].op) /\ ops'[call[c].op].caller = c
                                       /\ call[c].rem # {} \/ call[c].add # {}
             /\ inprog[c] => /\ call[c].pc # "idle" /\ Running(call[c].op)
                             /\ Waits(ops'[call[c].op]) /\ ops'[call[c].op].caller = c
             /\ call[c].pc = "wait" /\ ~inprog[c] => ops'[call[c].op].st = "done"
  <2>1. CASE call[c].pc = "idle" BY <2>1 DEF CallInv
  <2>2. CASE call[c].pc # "idle"
    <3>1. call[c].op \in DOMAIN ops BY <2>2 DEF CallInv
    <3>2. /\ ops'[call[c].op].caller = ops[call[c].op].caller /\ ops'[call[c].op].st = ops[call[c].op].st
          /\ Waits(ops'[call[c].op]) <=> Waits(ops[call[c].op])
      BY <1>2, <3>1 DEF OpsAlike
    <3> QED BY <2>2, <3>2 DEF CallInv
  <2> QED BY <2>1, <2>2
<1>4. ASSUME NEW o \in DOMAIN ops, Running(o), Waits(ops'[o])
      PROVE  inprog[ops'[o].caller] /\ call[ops'[o].caller].op = o
  <2>1. Waits(ops[o]) /\ ops'[o].caller = ops[o].caller BY <1>2, <1>4 DEF OpsAlike
  <2> QED BY <1>4, <2>1 DEF CallInv
<1>5. DOMAIN ops' = DOMAIN ops BY DEF OpsAlike
<1> QED BY <1>1, <1>3, <1>4, <1>5 DEF CallInv

\* The events are where they belong after a step if they are by the operations
\* before it.
LEMMA MailAlike ==
  ASSUME OpsAlike, \A c \in Core : ph'[c] = "out" => batch'[c] = <<>>,
         \A m \in ToSet(shared') : m.t = "DONE" /\ m.id \in DOMAIN ops /\ ~ops[m.id].sync,
         \A c \in Core : \A m \in Mail(c)' :
           /\ m.t \in {"ADD", "REM", "DONE"} => m.id \in DOMAIN ops
           /\ m.t = "DONE" /\ ops[m.id].sync => ops[m.id].caller = c
           /\ m.t = "DONE" /\ m \in ToSet(ctrlq'[c]) => ops[m.id].sync
           /\ m.t = "TDONE" => m.id = c
  PROVE  MailInv'
<1>1. DOMAIN ops' = DOMAIN ops BY DEF OpsAlike
<1>2. \A m \in ToSet(shared') : m.t = "DONE" /\ m.id \in DOMAIN ops' /\ ~ops'[m.id].sync
  BY DEF OpsAlike
<1>3. ASSUME NEW c \in Core, NEW m \in Mail(c)'
      PROVE  /\ m.t \in {"ADD", "REM", "DONE"} => m.id \in DOMAIN ops'
             /\ m.t = "DONE" /\ ops'[m.id].sync => ops'[m.id].caller = c
             /\ m.t = "DONE" /\ m \in ToSet(ctrlq'[c]) => ops'[m.id].sync
             /\ m.t = "TDONE" => m.id = c
  <2>1. m.t = "DONE" => ops'[m.id].sync = ops[m.id].sync /\ ops'[m.id].caller = ops[m.id].caller
    BY DEF OpsAlike
  <2> QED BY <1>1, <2>1
<1> QED BY <1>2, <1>3 DEF MailInv

\* So does it keep the deletes.
LEMMA DeleteAlike ==
  ASSUME TypeOK, DeleteInv, OpsAlike,
         \A g \in Group : grp'[g].alloc = grp[g].alloc /\ grp'[g].del = grp[g].del
  PROVE  DeleteInv'
<1>1. \A p : Running(p)' <=> Running(p) BY DEF OpsAlike, Running
<1>2. \A p \in DOMAIN ops : ops[p].g \in Group BY OpTypes
<1> QED BY <1>1, <1>2 DEF OpsAlike, DeleteInv

-----------------------------------------------------------------------------
(* Queues of the group. *)

\* em_queue_create() and em_queue_delete() change the number of queues only.
LEMMA QueueStep ==
  ASSUME IInv, NEW g \in Dyn, QueueCreate(g) \/ QueueDelete(g)
  PROVE  IInv'
<1>1. g \in Group BY Constants
<1>2. PICK n \in 0..1 : grp' = [grp EXCEPT ![g].queues = n] BY DEF QueueCreate, QueueDelete
<1>3. UNCHANGED <<ops, nops, call, inprog, rwcnt, mapVars, pollVars, ctrlq, shared, st>>
  BY DEF QueueCreate, QueueDelete
<1>4. TypeOK'
  <2>1. [grp[g] EXCEPT !.queues = n] \in Element BY <1>1, OpTypes, ElementTypes, Constants DEF IInv
  <2>2. grp' \in [Group -> Element] BY <1>1, <1>2, <2>1 DEF IInv, TypeOK
  <2> QED BY <1>3, <2>2 DEF IInv, TypeOK, mapVars, pollVars
<1>5. \A h \in Group : /\ grp'[h].mask = grp[h].mask /\ grp'[h].alloc = grp[h].alloc
                       /\ grp'[h].del = grp[h].del
  BY <1>1, <1>2 DEF IInv, TypeOK, Element
<1>6. MapInv' BY <1>3, <1>5 DEF IInv, MapInv, mapVars
<1>7. DeleteInv'
  <2>1. \A o \in DOMAIN ops : ops[o].g \in Group BY OpTypes DEF IInv
  <2> QED BY <1>3, <1>5, <2>1 DEF IInv, DeleteInv, Running
<1>8. CallInv' BY <1>3, CallSame DEF IInv
<1>9. MailInv'
  <2>1. \A c \in Core : ph'[c] = "out" => batch[c] = <<>> BY <1>3 DEF IInv, MailInv, pollVars
  <2> QED BY <1>3, <2>1, MailSame DEF IInv, pollVars
<1>10. TermInv' 
  <2>1. \A c \in Core : Mail(c)' = Mail(c) BY <1>3 DEF Mail, pollVars
  <2> QED BY <1>3, <2>1, TermSame DEF IInv, mapVars
<1>11. RequestsMatchCount' BY <1>3, CountSame DEF IInv, pollVars
<1> QED BY <1>4, <1>6, <1>7, <1>8, <1>9, <1>10, <1>11 DEF IInv

-----------------------------------------------------------------------------
(* Polling. *)

\* The own control queue is dequeued: the events of a thread stay its events.
LEMMA PollThrStep ==
  ASSUME IInv, NEW c \in Core, PollThr(c)
  PROVE  IInv'
<1>1. /\ batch' = [batch EXCEPT ![c] = ctrlq[c]] /\ ctrlq' = [ctrlq EXCEPT ![c] = <<>>]
      /\ ph' = [ph EXCEPT ![c] = "thr"]
      /\ UNCHANGED <<opVars, mapVars, rwcnt, shared, st>>
  BY DEF PollThr
<1>2. batch[c] = <<>> BY DEF PollThr, IInv, MailInv
<1>3. TypeOK' BY <1>1, EmptyQueue DEF IInv, TypeOK, opVars, mapVars
<1>4. \A d \in Core :
        /\ d # c => ctrlq'[d] = ctrlq[d] /\ batch'[d] = batch[d]
        /\ ctrlq'[c] = <<>> /\ batch'[c] = ctrlq[c]
  BY <1>1 DEF IInv, TypeOK
<1>5. \A d \in Core : Mail(d)' = Mail(d) BY <1>2, <1>4, EmptyQueue DEF Mail
<1>6. MapInv' BY <1>1, MapSame DEF IInv, opVars, mapVars
<1>7. DeleteInv' BY <1>1, DeleteSame DEF IInv, opVars
<1>8. CallInv' BY <1>1, CallSame DEF IInv, opVars
<1>9. MailInv'
  <2>1. \A d \in Core : ph'[d] = "out" => batch'[d] = <<>>
    BY <1>1, <1>4 DEF IInv, TypeOK, MailInv
  <2>2. \A d \in Core : ToSet(ctrlq'[d]) \subseteq ToSet(ctrlq[d]) BY <1>4, EmptyQueue
  <2>3. UNCHANGED <<shared, ops>> BY <1>1 DEF opVars
  <2> QED BY <1>5, <2>1, <2>2, <2>3 DEF IInv, MailInv
<1>10. TermInv' BY <1>1, <1>5, TermSame DEF IInv, mapVars
<1>11. RequestsMatchCount'
  <2>1. UNCHANGED <<ops, call, shared>> BY <1>1 DEF opVars
  <2>2. \A o, k, d : Unsent(o, k, d)' = Unsent(o, k, d) BY <2>1 DEF Unsent
  <2>3. \A o : Open(o)' = Open(o) BY <1>5, <2>2 DEF Open
  <2>4. \A o : DoneSent(o)' = DoneSent(o) BY <1>5, <2>1 DEF DoneSent, DoneEvent
  <2>5. \A d \in Core : /\ IsInjective(ctrlq'[d]) /\ IsInjective(batch'[d])
                        /\ ToSet(ctrlq'[d]) \cap ToSet(batch'[d]) = {}
    BY <1>4, EmptyQueue DEF IInv, RequestsMatchCount, EachEventOnce
  <2>6. EachEventOnce'
    BY <1>5, <2>1, <2>2, <2>5 DEF IInv, EachEventOnce, RequestsMatchCount, DoneEvent
  <2> QED BY <2>1, <2>3, <2>4, <2>6 DEF IInv, RequestsMatchCount
<1> QED BY <1>3, <1>6, <1>7, <1>8, <1>9, <1>10, <1>11 DEF IInv

\* The shared control queue is dequeued: its events, all of them DONE events,
\* become events of the thread.
LEMMA PollSharedStep ==
  ASSUME IInv, NEW c \in Core, PollShared(c)
  PROVE  IInv'
<1>1. /\ batch' = [batch EXCEPT ![c] = @ \o shared] /\ shared' = <<>>
      /\ ph' = [ph EXCEPT ![c] = IF batch'[c] = <<>> THEN "out" ELSE "ev"]
      /\ UNCHANGED <<opVars, mapVars, rwcnt, ctrlq, st>>
  BY DEF PollShared
<1>2. /\ batch[c] \o shared \in Seq(Msg)
      /\ ToSet(batch[c] \o shared) = ToSet(batch[c]) \cup ToSet(shared)
      /\ IsInjective(batch[c] \o shared)
  <2>1. batch[c] \in Seq(Msg) /\ shared \in Seq(Msg) BY DEF IInv, TypeOK
  <2>2. IsInjective(batch[c]) /\ IsInjective(shared) /\ ToSet(batch[c]) \cap ToSet(shared) = {}
    BY DEF IInv, RequestsMatchCount, EachEventOnce, Mail
  <2> QED BY <2>1, <2>2, Joined
<1>3. TypeOK'
  <2>1. batch' \in [Core -> Seq(Msg)] BY <1>1, <1>2 DEF IInv, TypeOK
  <2>2. ph' \in [Core -> {"out", "thr", "ev"}] BY <1>1 DEF IInv, TypeOK
  <2> QED BY <1>1, <2>1, <2>2, EmptyQueue DEF IInv, TypeOK, opVars, mapVars
<1>4. \A d \in Core :
        /\ d # c => batch'[d] = batch[d] /\ ph'[d] = ph[d]
        /\ batch'[c] = batch[c] \o shared
        /\ ph'[c] = "out" => batch'[c] = <<>>
  <2>1. ph'[c] = IF batch'[c] = <<>> THEN "out" ELSE "ev" BY <1>1 DEF IInv, TypeOK
  <2>2. ph'[c] = "out" => batch'[c] = <<>> BY <2>1
  <2>3. batch'[c] = batch[c] \o shared BY <1>1 DEF IInv, TypeOK
  <2>4. \A d \in Core : d # c => batch'[d] = batch[d] /\ ph'[d] = ph[d] BY <1>1 DEF IInv, TypeOK
  <2> QED BY <2>2, <2>3, <2>4
<1>5. \A d \in Core :
        /\ ToSet(batch'[d]) = IF d = c THEN ToSet(batch[c]) \cup ToSet(shared) ELSE ToSet(batch[d])
        /\ Mail(d)' = IF d = c THEN Mail(c) \cup ToSet(shared) ELSE Mail(d)
  <2> TAKE d \in Core
  <2>1. ctrlq' = ctrlq BY <1>1
  <2>2. CASE d = c
    <3>1. ToSet(batch'[d]) = ToSet(batch[c]) \cup ToSet(shared) BY <1>2, <1>4, <2>2
    <3> QED BY <2>1, <2>2, <3>1 DEF Mail
  <2>3. CASE d # c
    <3>1. ToSet(batch'[d]) = ToSet(batch[d]) BY <1>4, <2>3
    <3> QED BY <2>1, <2>3, <3>1 DEF Mail
  <2> QED BY <2>2, <2>3
<1>6. ToSet(shared') = {} /\ IsInjective(shared') BY <1>1, EmptyQueue
<1>7. UNCHANGED <<ops, call, ctrlq>> BY <1>1 DEF opVars
<1>8. \A m \in ToSet(shared) : m.t = "DONE" /\ m.id \in DOMAIN ops /\ ~ops[m.id].sync
  BY DEF IInv, MailInv
<1>9. MapInv' BY <1>1, MapSame DEF IInv, opVars, mapVars
<1>10. DeleteInv' BY <1>1, DeleteSame DEF IInv, opVars
<1>11. CallInv' BY <1>1, CallSame DEF IInv, opVars
<1>12. MailInv'
  <2>1. \A d \in Core : ph'[d] = "out" => batch'[d] = <<>> BY <1>4 DEF IInv, MailInv
  <2>2. ASSUME NEW d \in Core, NEW m \in Mail(d)'
        PROVE  /\ m.t \in {"ADD", "REM", "DONE"} => m.id \in DOMAIN ops
               /\ m.t = "DONE" /\ ops[m.id].sync => ops[m.id].caller = d
               /\ m.t = "DONE" /\ m \in ToSet(ctrlq[d]) => ops[m.id].sync
               /\ m.t = "TDONE" => m.id = d
    <3>1. CASE m \in Mail(d) BY <3>1 DEF IInv, MailInv
    <3>2. CASE m \in ToSet(shared) /\ m \notin Mail(d) BY <1>8, <3>2 DEF Mail
    <3> QED BY <1>5, <2>2, <3>1, <3>2
  <2> QED BY <1>6, <1>7, <2>1, <2>2 DEF MailInv
<1>13. \A d \in Core, k \in {"ADD", "REM", "TERM", "TDONE"} : \A i :
         [t |-> k, id |-> i] \in Mail(d)' <=> [t |-> k, id |-> i] \in Mail(d)
  BY <1>5, <1>8
<1>14. TermInv'
  <2>1. \A x \in Core : TermAt(x)' = TermAt(x) /\ TermOf(x)' = TermOf(x)
    BY <1>13 DEF TermAt, TermOf
  <2> QED BY <1>1, <1>13, <2>1 DEF IInv, TermInv, mapVars
<1>15. RequestsMatchCount'
  <2>1. \A o, k, d : Unsent(o, k, d)' = Unsent(o, k, d) BY <1>7 DEF Unsent
  <2>2. \A o : Open(o)' = Open(o)
    <3> TAKE o
    <3>1. \A k \in {"ADD", "REM"}, d \in Core : <<k, d>> \in Open(o)' <=> <<k, d>> \in Open(o)
      BY <1>13, <2>1 DEF Open
    <3> QED BY <3>1 DEF Open
  <2>3. \A o : DoneSent(o)' <=> DoneSent(o) BY <1>5, <1>6 DEF DoneSent, DoneEvent
  <2>4. EachEventOnce'
    <3>1. \A d \in Core : /\ IsInjective(ctrlq'[d]) /\ IsInjective(batch'[d])
                          /\ ToSet(ctrlq'[d]) \cap ToSet(batch'[d]) = {}
                          /\ ToSet(shared') \cap Mail(d)' = {}
      BY <1>2, <1>4, <1>5, <1>6, <1>7 DEF IInv, RequestsMatchCount, EachEventOnce, Mail
    <3>2. \A d, e \in Core : \A o \in OpId : DoneEvent(o) \in Mail(d)' \cap Mail(e)' => d = e
      BY <1>5 DEF IInv, RequestsMatchCount, EachEventOnce
    <3>3. \A o \in OpId, k \in {"ADD", "REM"}, d \in Core :
            Unsent(o, k, d)' => [t |-> k, id |-> o] \notin Mail(d)'
      <4> TAKE o \in OpId, k \in {"ADD", "REM"}, d \in Core
      <4>1. Unsent(o, k, d) => [t |-> k, id |-> o] \notin Mail(d)
        BY DEF IInv, RequestsMatchCount, EachEventOnce
      <4> QED BY <1>13, <2>1, <4>1
    <3> QED BY <1>6, <3>1, <3>2, <3>3 DEF EachEventOnce, DoneEvent
  <2> QED BY <1>7, <2>2, <2>3, <2>4 DEF IInv, RequestsMatchCount
<1> QED BY <1>3, <1>9, <1>10, <1>11, <1>12, <1>14, <1>15 DEF IInv

-----------------------------------------------------------------------------
(* Handling of control events. *)

\* handle_ctrl_events() takes the next event of the batch.
LEMMA TakeEffect ==
  ASSUME IInv, NEW c \in Core, NEW k, Takes(c, k)
  PROVE  LET m == Head(batch[c]) IN
         /\ m \in Msg /\ m.t = k /\ m = [t |-> k, id |-> m.id]
         /\ m \in ToSet(batch[c]) /\ m \notin ToSet(ctrlq[c]) /\ m \in Mail(c)
         /\ batch' \in [Core -> Seq(Msg)]
         /\ \A d \in Core : /\ ToSet(batch'[d]) = ToSet(batch[d]) \ (IF d = c THEN {m} ELSE {})
                            /\ IsInjective(batch'[d])
         /\ \A d \in Core : ph'[d] = "out" => batch'[d] = <<>>
         /\ UNCHANGED <<ph, rwcnt, st>>
<1> DEFINE m == Head(batch[c])
<1>1. /\ ph[c] = "ev" /\ batch[c] # <<>> /\ m.t = k
      /\ batch' = [batch EXCEPT ![c] = Tail(@)] /\ UNCHANGED <<ph, rwcnt, st>>
  BY DEF Takes
<1>2. batch \in [Core -> Seq(Msg)] BY DEF IInv, TypeOK
<1>3. IsInjective(batch[c]) /\ ToSet(ctrlq[c]) \cap ToSet(batch[c]) = {}
  BY DEF IInv, RequestsMatchCount, EachEventOnce
<1>4. /\ m \in ToSet(batch[c]) /\ m \in Msg /\ Tail(batch[c]) \in Seq(Msg)
      /\ ToSet(Tail(batch[c])) = ToSet(batch[c]) \ {m} /\ IsInjective(Tail(batch[c]))
  BY <1>1, <1>2, <1>3, Handled
<1> HIDE DEF m
<1>5. m = [t |-> k, id |-> m.id] BY <1>1, <1>4 DEF Msg
<1>6. m \notin ToSet(ctrlq[c]) /\ m \in Mail(c) BY <1>3, <1>4 DEF Mail
<1>7. batch' \in [Core -> Seq(Msg)] BY <1>1, <1>2, <1>4
<1>8. batch'[c] = Tail(batch[c]) /\ \A d \in Core : d # c => batch'[d] = batch[d] BY <1>1, <1>2
<1>9. ASSUME NEW d \in Core
      PROVE  /\ ToSet(batch'[d]) = ToSet(batch[d]) \ (IF d = c THEN {m} ELSE {})
             /\ IsInjective(batch'[d])
             /\ ph'[d] = "out" => batch'[d] = <<>>
  <2>1. CASE d = c BY <1>1, <1>4, <1>8, <2>1
  <2>2. CASE d # c
    <3>1. IsInjective(batch[d]) /\ (ph[d] = "out" => batch[d] = <<>>)
      BY DEF IInv, RequestsMatchCount, EachEventOnce, MailInv
    <3> QED BY <1>1, <1>8, <2>2, <3>1
  <2> QED BY <2>1, <2>2
<1> QED BY <1>1, <1>4, <1>5, <1>6, <1>7, <1>9 DEF m

\* An event is sent to the control queue of a thread.
LEMMA SendEffect ==
  ASSUME IInv, NEW d \in Core, NEW x \in Msg, x \notin ToSet(ctrlq[d]),
         ctrlq' = [ctrlq EXCEPT ![d] = Append(@, x)]
  PROVE  /\ ctrlq' \in [Core -> Seq(Msg)]
         /\ \A e \in Core : /\ ToSet(ctrlq'[e]) = ToSet(ctrlq[e]) \cup (IF e = d THEN {x} ELSE {})
                            /\ IsInjective(ctrlq'[e])
<1>1. ctrlq \in [Core -> Seq(Msg)] BY DEF IInv, TypeOK
<1>2. \A e \in Core : IsInjective(ctrlq[e]) BY DEF IInv, RequestsMatchCount, EachEventOnce
<1>3. /\ Append(ctrlq[d], x) \in Seq(Msg) /\ ToSet(Append(ctrlq[d], x)) = ToSet(ctrlq[d]) \cup {x}
      /\ IsInjective(Append(ctrlq[d], x))
  BY <1>1, <1>2, Enqueued
<1>4. ctrlq'[d] = Append(ctrlq[d], x) /\ \A e \in Core : e # d => ctrlq'[e] = ctrlq[e] BY <1>1
<1>5. ctrlq' \in [Core -> Seq(Msg)] BY <1>1, <1>3
<1>6. ASSUME NEW e \in Core
      PROVE  /\ ToSet(ctrlq'[e]) = ToSet(ctrlq[e]) \cup (IF e = d THEN {x} ELSE {})
             /\ IsInjective(ctrlq'[e])
  <2>1. CASE e = d BY <1>3, <1>4, <2>1
  <2>2. CASE e # d BY <1>2, <1>4, <2>2
  <2> QED BY <2>1, <2>2
<1> QED BY <1>5, <1>6

\* A step that handles and sends no announcement of a termination leaves all of
\* them where they are, and their counts with them.
LEMMA TermMailSame ==
  ASSUME TermInv, UNCHANGED <<tleft, treqs, tdone, st>>,
         \A d \in Core, k \in {"TERM", "TDONE"} : \A i :
           [t |-> k, id |-> i] \in Mail(d)' <=> [t |-> k, id |-> i] \in Mail(d)
  PROVE  TermInv'
<1>1. \A x \in Core : TermAt(x)' = TermAt(x) /\ TermOf(x)' = TermOf(x) BY DEF TermAt, TermOf
<1> QED BY <1>1 DEF TermInv

\* event_group_count_decrement() after a request: what happens to the operation,
\* and where its DONE event goes.
LEMMA DecrementEffect ==
  ASSUME IInv, NEW o \in DOMAIN ops, Decrement(o), ops[o].st = "run" => ops[o].left >= 1 /\ ~DoneSent(o)
  PROVE  LET run == ops[o].st = "run"
             a == run /\ ops[o].left = 1 IN
         /\ ops' \in Seq(Operation) /\ DOMAIN ops' = DOMAIN ops /\ Len(ops') = Len(ops)
         /\ \A p \in DOMAIN ops :
              /\ ops'[p].kind = ops[p].kind /\ ops'[p].g = ops[p].g /\ ops'[p].st = ops[p].st
              /\ ops'[p].caller = ops[p].caller /\ ops'[p].sync = ops[p].sync
              /\ Waits(ops'[p]) <=> Waits(ops[p])
              /\ ops'[p].left = IF p = o /\ run THEN ops[o].left - 1 ELSE ops[p].left
         /\ ctrlq' \in [Core -> Seq(Msg)] /\ shared' \in Seq(Msg)
         /\ \A d \in Core :
              /\ ToSet(ctrlq'[d]) = ToSet(ctrlq[d]) \cup
                   (IF a /\ ops[o].sync /\ d = ops[o].caller THEN {DoneEvent(o)} ELSE {})
              /\ IsInjective(ctrlq'[d])
         /\ ToSet(shared') = ToSet(shared) \cup (IF a /\ ~ops[o].sync THEN {DoneEvent(o)} ELSE {})
         /\ IsInjective(shared')
<1> DEFINE run == ops[o].st = "run"
           a == run /\ ops[o].left = 1
<1>1. TypeOK BY DEF IInv
<1>2. /\ DOMAIN ops \subseteq OpId /\ ops \in Seq(Operation) /\ ops[o] \in Operation
      /\ ops[o].caller \in Core
  BY <1>1, OpTypes DEF TypeOK
<1>3. DoneEvent(o) \in Msg BY <1>2 DEF DoneEvent, Msg
<1>4. ctrlq \in [Core -> Seq(Msg)] /\ shared \in Seq(Msg) BY <1>1 DEF TypeOK
<1>5. IsInjective(shared) /\ \A d \in Core : IsInjective(ctrlq[d])
  BY DEF IInv, RequestsMatchCount, EachEventOnce
<1>6. CASE ~run
  <2>1. UNCHANGED <<ops, ctrlq, shared>> BY <1>6 DEF Decrement
  <2> QED BY <1>2, <1>4, <1>5, <1>6, <2>1 DEF Waits
<1>7. CASE run
  <2>1. ops' = [ops EXCEPT ![o].left = @ - 1] BY <1>7 DEF Decrement
  <2>2. /\ ops' \in Seq(Operation) /\ DOMAIN ops' = DOMAIN ops /\ Len(ops') = Len(ops)
        /\ \A p \in DOMAIN ops :
             /\ ops'[p].kind = ops[p].kind /\ ops'[p].g = ops[p].g /\ ops'[p].st = ops[p].st
             /\ ops'[p].caller = ops[p].caller /\ ops'[p].sync = ops[p].sync
             /\ Waits(ops'[p]) <=> Waits(ops[p])
             /\ ops'[p].left = IF p = o THEN ops[o].left - 1 ELSE ops[p].left
    <3>1. [ops[o] EXCEPT !.left = @ - 1] \in Operation
      <4>1. ops[o].left - 1 \in 0..2 * NumCores
        <5>1. ops[o].left \in 0..2 * NumCores BY <1>2 DEF Operation
        <5> QED BY <1>7, <5>1, Constants
      <4> QED BY <1>2, <4>1 DEF Operation
    <3>2. ops' = [ops EXCEPT ![o] = [ops[o] EXCEPT !.left = @ - 1]] BY <2>1
    <3>3. ops' \in Seq(Operation) /\ Len(ops') = Len(ops) /\ DOMAIN ops' = DOMAIN ops
      BY <1>2, <3>1, <3>2, ExceptSeq, LenProperties
    <3>4. \A p \in DOMAIN ops : p # o => ops'[p] = ops[p] BY <3>2
    <3>5. ops'[o] = [ops[o] EXCEPT !.left = @ - 1] BY <3>2
    <3>6. /\ ops'[o].kind = ops[o].kind /\ ops'[o].g = ops[o].g /\ ops'[o].st = ops[o].st
          /\ ops'[o].caller = ops[o].caller /\ ops'[o].sync = ops[o].sync
          /\ ops'[o].left = ops[o].left - 1
      BY <1>2, <3>5 DEF Operation
    <3> QED BY <3>3, <3>4, <3>6 DEF Waits
  <2>3. DoneEvent(o) \notin ToSet(shared) /\ \A d \in Core : DoneEvent(o) \notin ToSet(ctrlq[d])
    BY <1>7 DEF DoneSent, Mail
  <2>4. CASE ops[o].left # 1
    <3>1. UNCHANGED <<ctrlq, shared>> BY <1>7, <2>4 DEF Decrement, LastReq
    <3> QED BY <1>4, <1>5, <1>7, <2>2, <2>4, <3>1
  <2>5. CASE ops[o].left = 1 /\ ops[o].sync
    <3>1. /\ ctrlq' = [ctrlq EXCEPT ![ops[o].caller] = Append(@, DoneEvent(o))]
          /\ UNCHANGED shared
      BY <1>7, <2>5 DEF Decrement, LastReq, DoneEvent
    <3>2. /\ ctrlq' \in [Core -> Seq(Msg)]
          /\ \A d \in Core :
               /\ ToSet(ctrlq'[d]) = ToSet(ctrlq[d]) \cup (IF d = ops[o].caller THEN {DoneEvent(o)} ELSE {})
               /\ IsInjective(ctrlq'[d])
      BY <1>2, <1>3, <2>3, <3>1, SendEffect
    <3> QED BY <1>4, <1>5, <1>7, <2>2, <2>5, <3>1, <3>2
  <2>6. CASE ops[o].left = 1 /\ ~ops[o].sync
    <3>1. shared' = Append(shared, DoneEvent(o)) /\ UNCHANGED ctrlq
      BY <1>7, <2>6 DEF Decrement, LastReq, DoneEvent
    <3>2. /\ shared' \in Seq(Msg) /\ ToSet(shared') = ToSet(shared) \cup {DoneEvent(o)}
          /\ IsInjective(shared')
      BY <1>3, <1>4, <1>5, <2>3, <3>1, Enqueued
    <3> QED BY <1>4, <1>5, <1>7, <2>2, <2>6, <3>1, <3>2
  <2> QED BY <2>4, <2>5, <2>6
<1> QED BY <1>6, <1>7

\* i_event__qgrp_add_core_req() and i_event__qgrp_rem_core_req(): one request of
\* the operation less, in its event group too.
LEMMA ReqStep ==
  ASSUME IInv, NEW c \in Core, HandleAdd(c) \/ HandleRem(c)
  PROVE  IInv'
<1> DEFINE m == Head(batch[c])
           o == m.id
<1>1. PICK k \in {"ADD", "REM"} :
        /\ Takes(c, k) /\ Decrement(o) /\ UNCHANGED <<nops, call, inprog, mapVars>>
        /\ \/ grp' = [grp EXCEPT ![ops[o].g] = IF @.alloc THEN Joins(@, c) ELSE @]
           \/ grp' = [grp EXCEPT ![ops[o].g] = IF @.alloc THEN Leaves(@, c) ELSE @]
  BY DEF HandleAdd, HandleRem
<1>2. /\ m \in Msg /\ m.t = k /\ m = [t |-> k, id |-> o]
      /\ m \in ToSet(batch[c]) /\ m \notin ToSet(ctrlq[c]) /\ m \in Mail(c)
      /\ batch' \in [Core -> Seq(Msg)]
      /\ \A d \in Core : /\ ToSet(batch'[d]) = ToSet(batch[d]) \ (IF d = c THEN {m} ELSE {})
                         /\ IsInjective(batch'[d])
      /\ \A d \in Core : ph'[d] = "out" => batch'[d] = <<>>
      /\ UNCHANGED <<ph, rwcnt, st>>
  BY <1>1, TakeEffect
<1> HIDE DEF m
<1>3. o \in DOMAIN ops BY <1>2 DEF IInv, MailInv
<1>4. o \in OpId /\ ops[o].g \in Group /\ \A p \in DOMAIN ops : p \in OpId /\ ops[p].g \in Group
  BY <1>3, OpTypes DEF IInv
<1>5. /\ call' = call /\ \A p, j, d : Unsent(p, j, d)' = Unsent(p, j, d) BY <1>1 DEF Unsent
<1>6. <<k, c>> \in Open(o) /\ ~Unsent(o, k, c)
  <2>1. Unsent(o, k, c) => [t |-> k, id |-> o] \notin Mail(c)
    <3>1. \A p \in OpId, j \in {"ADD", "REM"}, d \in Core :
            Unsent(p, j, d) => [t |-> j, id |-> p] \notin Mail(d)
      BY DEF IInv, RequestsMatchCount, EachEventOnce
    <3> HIDE DEF o
    <3> QED BY <1>4, <3>1
  <2>2. ~Unsent(o, k, c) BY <1>2, <2>1
  <2> QED BY <1>2, <2>2 DEF Open
<1>7. ops[o].st = "run" => ops[o].left = Cardinality(Open(o)) /\ ops[o].left >= 1 /\ ~DoneSent(o)
  <2> SUFFICES ASSUME ops[o].st = "run"
               PROVE  ops[o].left = Cardinality(Open(o)) /\ ops[o].left >= 1 /\ ~DoneSent(o)
    OBVIOUS
  <2>1. ops[o].left = Cardinality(Open(o)) /\ (DoneSent(o) <=> ops[o].left = 0)
    BY <1>3 DEF IInv, RequestsMatchCount
  <2>2. IsFiniteSet(Open(o)) /\ Cardinality(Open(o)) \in Nat BY OpenFinite, FS_CardinalityType
  <2>3. Cardinality(Open(o)) # 0 BY <1>6, <2>2, FS_EmptySet
  <2> QED BY <2>1, <2>2, <2>3
<1> DEFINE run == ops[o].st = "run"
           a == run /\ ops[o].left = 1
           done == DoneEvent(o)
           h == ops[o].caller
<1>8. /\ ops' \in Seq(Operation) /\ DOMAIN ops' = DOMAIN ops /\ Len(ops') = Len(ops)
      /\ \A p \in DOMAIN ops :
           /\ ops'[p].kind = ops[p].kind /\ ops'[p].g = ops[p].g /\ ops'[p].st = ops[p].st
           /\ ops'[p].caller = ops[p].caller /\ ops'[p].sync = ops[p].sync
           /\ Waits(ops'[p]) <=> Waits(ops[p])
           /\ ops'[p].left = IF p = o /\ run THEN ops[o].left - 1 ELSE ops[p].left
      /\ ctrlq' \in [Core -> Seq(Msg)] /\ shared' \in Seq(Msg)
      /\ \A d \in Core :
           /\ ToSet(ctrlq'[d]) = ToSet(ctrlq[d]) \cup (IF a /\ ops[o].sync /\ d = h THEN {done} ELSE {})
           /\ IsInjective(ctrlq'[d])
      /\ ToSet(shared') = ToSet(shared) \cup (IF a /\ ~ops[o].sync THEN {done} ELSE {})
      /\ IsInjective(shared')
  BY <1>1, <1>3, <1>7, DecrementEffect
<1>9. TypeOK'
  <2>1. /\ Joins(grp[ops[o].g], c) \in Element /\ Leaves(grp[ops[o].g], c) \in Element
        /\ grp[ops[o].g] \in Element
    <3>1. grp[ops[o].g] \in Element BY <1>4, OpTypes DEF IInv
    <3> QED BY <3>1, ElementTypes
  <2>2. grp' \in [Group -> Element] BY <1>1, <1>4, <2>1 DEF IInv, TypeOK
  <2> QED BY <1>1, <1>2, <1>8, <2>2 DEF IInv, TypeOK, mapVars
<1>10. \A g \in Group : /\ grp'[g].mask = grp[g].mask /\ grp'[g].alloc = grp[g].alloc
                        /\ grp'[g].del = grp[g].del
  <2>1. \A g \in Group : grp[g] \in Element BY OpTypes DEF IInv
  <2>2. ASSUME NEW e \in Element
        PROVE  /\ Joins(e, c).mask = e.mask /\ Joins(e, c).alloc = e.alloc /\ Joins(e, c).del = e.del
               /\ Leaves(e, c).mask = e.mask /\ Leaves(e, c).alloc = e.alloc /\ Leaves(e, c).del = e.del
    BY DEF Joins, Leaves, Element
  <2>3. \A g \in Group : grp'[g] \in {grp[g], Joins(grp[g], c), Leaves(grp[g], c)}
    BY <1>1, <1>4 DEF IInv, TypeOK
  <2> QED BY <2>1, <2>2, <2>3
<1> HIDE DEF o, run, a, done, h
<1>11. \A d \in Core : /\ Mail(d)' \subseteq Mail(d) \cup {done}
                       /\ m # done /\ (done \in Mail(d)' <=> done \in Mail(d) \/ (a /\ ops[o].sync /\ d = h))
                       /\ \A x : x # done => (x \in Mail(d)' <=> x \in Mail(d) /\ ~(d = c /\ x = m))
  <2>1. m # done BY <1>2 DEF done, DoneEvent
  <2> QED BY <1>2, <1>8, <2>1 DEF Mail
<1>12. run => ~DoneSent(o) BY <1>7 DEF run
<1>13. a => run BY DEF a
<1>14. MapInv' BY ZenonT(40), <1>1, <1>2, <1>10 DEF IInv, MapInv, mapVars
<1>22. OpsAlike BY <1>8 DEF OpsAlike
<1>15. DeleteInv' BY <1>10, <1>22, DeleteAlike DEF IInv
<1>16. CallInv' BY <1>1, <1>2, <1>22, CallAlike DEF IInv
<1>17. MailInv'
  <2>1. ASSUME NEW x \in ToSet(shared')
        PROVE  x.t = "DONE" /\ x.id \in DOMAIN ops /\ ~ops[x.id].sync
    <3>1. CASE x \in ToSet(shared) BY <3>1 DEF IInv, MailInv
    <3>2. CASE x = done /\ ~ops[o].sync BY <1>3, <3>2 DEF done, DoneEvent
    <3> QED BY <1>8, <2>1, <3>1, <3>2
  <2>2. ASSUME NEW d \in Core, NEW x \in Mail(d)'
        PROVE  /\ x.t \in {"ADD", "REM", "DONE"} => x.id \in DOMAIN ops
               /\ x.t = "DONE" /\ ops[x.id].sync => ops[x.id].caller = d
               /\ x.t = "DONE" /\ x \in ToSet(ctrlq'[d]) => ops[x.id].sync
               /\ x.t = "TDONE" => x.id = d
    <3>1. CASE x # done
      <4>1. x \in Mail(d) /\ (x \in ToSet(ctrlq'[d]) => x \in ToSet(ctrlq[d]))
        BY <1>8, <1>11, <2>2, <3>1
      <4> QED BY <4>1 DEF IInv, MailInv
    <3>2. CASE x = done
      <4>1. x.t = "DONE" /\ x.id = o BY <3>2 DEF done, DoneEvent
      <4>2. CASE a
        <5>1. ~DoneSent(o) BY <1>12, <1>13, <4>2
        <5>2. x \notin Mail(d) BY <3>2, <5>1 DEF DoneSent, done
        <5>3. ops[o].sync /\ d = h BY <1>11, <2>2, <3>2, <5>2
        <5> QED BY <1>3, <4>1, <5>3 DEF h
      <4>3. CASE ~a
        <5>1. x \in Mail(d) /\ ToSet(ctrlq'[d]) = ToSet(ctrlq[d]) BY <1>8, <1>11, <2>2, <3>2, <4>3
        <5> QED BY <5>1 DEF IInv, MailInv
      <4> QED BY <4>2, <4>3
    <3> QED BY <3>1, <3>2
  <2> QED BY <1>2, <1>22, <2>1, <2>2, MailAlike
<1>18. TermInv'
  <2>1. \A d \in Core, j \in {"TERM", "TDONE"} : \A i :
          [t |-> j, id |-> i] \in Mail(d)' <=> [t |-> j, id |-> i] \in Mail(d)
    <3> TAKE d \in Core, j \in {"TERM", "TDONE"}
    <3> TAKE i
    <3>1. [t |-> j, id |-> i] # done /\ [t |-> j, id |-> i] # m BY <1>2 DEF done, DoneEvent
    <3> QED BY <1>11, <3>1
  <2> QED BY <1>1, <1>2, <2>1, TermMailSame DEF IInv, mapVars
<1>19. EachEventOnce'
  <2>1. EachEventOnce BY DEF IInv, RequestsMatchCount
  <2>2. a => done \notin ToSet(shared) /\ \A d \in Core : done \notin Mail(d)
    BY <1>12, <1>13 DEF DoneSent, done
  <2>3. ASSUME NEW d \in Core
        PROVE  ToSet(ctrlq'[d]) \cap ToSet(batch'[d]) = {} /\ ToSet(shared') \cap Mail(d)' = {}
    <3>1. ToSet(ctrlq[d]) \cap ToSet(batch[d]) = {} /\ ToSet(shared) \cap Mail(d) = {}
      BY <2>1 DEF EachEventOnce
    <3>2. CASE a /\ ops[o].sync
      <4>1. done \notin ToSet(batch[d]) /\ done \notin ToSet(shared) BY <2>2, <3>2 DEF Mail
      <4> QED BY <1>2, <1>8, <1>11, <3>1, <3>2, <4>1
    <3>3. CASE a /\ ~ops[o].sync
      <4>1. done \notin Mail(d) BY <2>2, <3>3
      <4>2. done \notin Mail(d)' /\ Mail(d)' \subseteq Mail(d) BY <1>11, <3>3, <4>1
      <4> QED BY <1>2, <1>8, <3>1, <3>3, <4>2
    <3>4. CASE ~a
      <4>1. ToSet(ctrlq'[d]) = ToSet(ctrlq[d]) /\ ToSet(shared') = ToSet(shared) BY <1>8, <3>4
      <4>2. ToSet(batch'[d]) \subseteq ToSet(batch[d]) /\ Mail(d)' \subseteq Mail(d)
        BY <1>2, <4>1 DEF Mail
      <4> QED BY <3>1, <4>1, <4>2
    <3> QED BY <3>2, <3>3, <3>4
  <2>4. ASSUME NEW d \in Core, NEW e \in Core, NEW p \in OpId, DoneEvent(p) \in Mail(d)' \cap Mail(e)'
        PROVE  d = e
    <3>1. CASE DoneEvent(p) # done
      <4>1. DoneEvent(p) \in Mail(d) \cap Mail(e) BY <1>11, <2>4, <3>1
      <4> QED BY <2>1, <4>1 DEF EachEventOnce
    <3>2. CASE DoneEvent(p) = done /\ a BY <1>11, <2>2, <2>4, <3>2
    <3>3. CASE DoneEvent(p) = done /\ ~a
      <4>1. DoneEvent(p) \in Mail(d) \cap Mail(e) BY <1>11, <2>4, <3>3
      <4> QED BY <2>1, <4>1 DEF EachEventOnce
    <3> QED BY <3>1, <3>2, <3>3
  <2>5. ASSUME NEW p \in OpId, NEW j \in {"ADD", "REM"}, NEW d \in Core, Unsent(p, j, d)'
        PROVE  [t |-> j, id |-> p] \notin Mail(d)'
    <3>1. Unsent(p, j, d) BY <1>5, <2>5
    <3>2. [t |-> j, id |-> p] \notin Mail(d) BY <2>1, <3>1 DEF EachEventOnce
    <3>3. [t |-> j, id |-> p] # done BY DEF done, DoneEvent
    <3> QED BY <1>11, <3>2, <3>3
  <2> QED BY <1>2, <1>8, <2>3, <2>4, <2>5 DEF EachEventOnce, DoneEvent
<1>20. \A p \in DOMAIN ops : Open(p)' = Open(p) \ (IF p = o THEN {<<k, c>>} ELSE {})
  <2> SUFFICES ASSUME NEW p \in DOMAIN ops, NEW j \in {"ADD", "REM"}, NEW d \in Core
               PROVE  <<j, d>> \in Open(p)' <=> <<j, d>> \in Open(p) /\ ~(p = o /\ j = k /\ d = c)
    BY DEF Open
  <2> DEFINE x == [t |-> j, id |-> p]
  <2>1. x # done /\ (x = m <=> j = k /\ p = o) BY <1>2 DEF done, DoneEvent, o
  <2>2. /\ <<j, d>> \in Open(p) <=> Unsent(p, j, d) \/ x \in Mail(d)
        /\ <<j, d>> \in Open(p)' <=> Unsent(p, j, d)' \/ x \in Mail(d)'
    BY DEF Open
  <2> HIDE DEF x
  <2>3. x \in Mail(d)' <=> x \in Mail(d) /\ ~(d = c /\ x = m) BY <1>11, <2>1
  <2>4. Unsent(p, j, d)' <=> Unsent(p, j, d) BY <1>5
  <2>5. p = o /\ j = k /\ d = c => ~Unsent(p, j, d) BY <1>6 DEF o
  <2> QED BY <2>1, <2>2, <2>3, <2>4, <2>5
<1>21. RequestsMatchCount'
  <2>1. ASSUME NEW p \in DOMAIN ops, ops[p].st = "run" PROVE ops'[p].left = Cardinality(Open(p)')
    <3>1. ops[p].left = Cardinality(Open(p)) BY <2>1 DEF IInv, RequestsMatchCount
    <3>2. CASE p # o BY <1>8, <1>20, <3>1, <3>2
    <3>3. CASE p = o
      <4>1. IsFiniteSet(Open(o)) /\ <<k, c>> \in Open(o) BY <1>6, OpenFinite DEF o
      <4>2. Cardinality(Open(o) \ {<<k, c>>}) = Cardinality(Open(o)) - 1 BY <4>1, FS_RemoveElement
      <4>3. ops'[p].left = ops[p].left - 1 BY <1>8, <2>1, <3>3 DEF run
      <4> QED BY <1>20, <3>1, <3>3, <4>2, <4>3
    <3> QED BY <3>2, <3>3
  <2>2. ASSUME NEW p \in DOMAIN ops PROVE DoneSent(p)' <=> ops[p].st = "run" /\ ops'[p].left = 0
    <3>1. DoneSent(p) <=> ops[p].st = "run" /\ ops[p].left = 0 BY DEF IInv, RequestsMatchCount
    <3>2. CASE p # o
      <4>1. DoneEvent(p) # done BY <3>2 DEF done, DoneEvent
      <4>2. DoneEvent(p) # m BY <1>2 DEF DoneEvent
      <4>3. DoneSent(p)' <=> DoneSent(p)
        <5>1. DoneEvent(p) \in ToSet(shared') <=> DoneEvent(p) \in ToSet(shared) BY <1>8, <4>1
        <5>2. \A d \in Core : DoneEvent(p) \in Mail(d)' <=> DoneEvent(p) \in Mail(d)
          BY <1>11, <4>1, <4>2
        <5> QED BY <5>1, <5>2 DEF DoneSent, DoneEvent
      <4> QED BY <1>8, <3>1, <3>2, <4>3
    <3>3. CASE p = o /\ ~run
      <4>1. ToSet(shared') = ToSet(shared) /\ \A d \in Core : done \in Mail(d)' <=> done \in Mail(d)
        BY <1>8, <1>11, <1>13, <3>3
      <4>2. DoneSent(p)' <=> DoneSent(p) BY <3>3, <4>1 DEF DoneSent, done, DoneEvent
      <4> QED BY <3>1, <3>3, <4>2 DEF run
    <3>4. CASE p = o /\ run
      <4>1. ops'[p].left = ops[o].left - 1 /\ ops[p].st = "run" BY <1>8, <3>4 DEF run
      <4>2. ops[o].left \in Nat BY <1>3, OpTypes DEF IInv
      <4>3. ops'[p].left = 0 <=> a BY <3>4, <4>1, <4>2 DEF a
      <4>4. ~DoneSent(o) BY <1>12, <3>4
      <4>5. CASE a
        <5>1. CASE ops[o].sync
          <6>1. PICK d \in Core : d = h BY <1>3, OpTypes DEF IInv, h
          <6>2. done \in Mail(d)' BY <1>11, <4>5, <5>1, <6>1
          <6>3. DoneEvent(p) \in Mail(d)' BY <3>4, <6>2 DEF done
          <6> QED BY <3>4, <4>1, <4>3, <4>5, <6>3 DEF DoneSent, DoneEvent
        <5>2. CASE ~ops[o].sync
          <6>1. done \in ToSet(shared') BY <1>8, <4>5, <5>2
          <6> QED BY <3>4, <4>1, <4>3, <4>5, <6>1 DEF DoneSent, done, DoneEvent
        <5> QED BY <5>1, <5>2
      <4>6. CASE ~a
        <5>1. ToSet(shared') = ToSet(shared) /\ \A d \in Core : done \in Mail(d)' <=> done \in Mail(d)
          BY <1>8, <1>11, <4>6
        <5>2. DoneSent(p)' <=> DoneSent(p) BY <3>4, <5>1 DEF DoneSent, done, DoneEvent
        <5> QED BY <3>4, <4>3, <4>4, <4>6, <5>2
      <4> QED BY <4>5, <4>6
    <3> QED BY <3>2, <3>3, <3>4
  <2> QED BY <1>8, <1>19, <2>1, <2>2 DEF RequestsMatchCount
<1> QED BY <1>9, <1>14, <1>15, <1>16, <1>17, <1>18, <1>21 DEF IInv

\* i_event__internal_done(): the operation ends.
LEMMA DoneStep ==
  ASSUME IInv, NEW c \in Core, HandleDone(c)
  PROVE  IInv'
<1> DEFINE m == Head(batch[c])
           o == m.id
           w == ops[o]
<1>1. /\ Takes(c, "DONE") /\ ops' = [ops EXCEPT ![o] = Finished(w)]
      /\ grp' = [grp EXCEPT ![w.g] = IF w.kind = "delete" THEN Freed(@) ELSE @]
      /\ inprog' = [inprog EXCEPT ![c] = @ /\ ~Releases(w)]
      /\ UNCHANGED <<nops, call, mapVars, ctrlq, shared>>
  BY DEF HandleDone
<1>2. /\ m \in Msg /\ m.t = "DONE" /\ m = [t |-> "DONE", id |-> o]
      /\ m \in ToSet(batch[c]) /\ m \notin ToSet(ctrlq[c]) /\ m \in Mail(c)
      /\ batch' \in [Core -> Seq(Msg)]
      /\ \A d \in Core : /\ ToSet(batch'[d]) = ToSet(batch[d]) \ (IF d = c THEN {m} ELSE {})
                         /\ IsInjective(batch'[d])
      /\ \A d \in Core : ph'[d] = "out" => batch'[d] = <<>>
      /\ UNCHANGED <<ph, rwcnt, st>>
  BY <1>1, TakeEffect
<1>3. m = DoneEvent(o) BY <1>2 DEF DoneEvent
<1> HIDE DEF m
<1>4. o \in DOMAIN ops /\ (w.sync => w.caller = c) BY <1>2 DEF IInv, MailInv
<1>5. /\ o \in OpId /\ w \in Operation /\ w.g \in Dyn /\ w.g \in Group
      /\ \A p \in DOMAIN ops : p \in OpId /\ ops[p] \in Operation /\ ops[p].g \in Group
      /\ \A g \in Group : grp[g] \in Element
  BY <1>4, OpTypes DEF IInv
<1>6. w.st = "run" /\ w.left = 0 /\ Open(o) = {}
  <2>1. DoneSent(o) BY <1>2, <1>3 DEF DoneSent
  <2>2. w.st = "run" /\ w.left = 0 /\ w.left = Cardinality(Open(o))
    BY <1>4, <2>1 DEF IInv, RequestsMatchCount
  <2> QED BY <2>2, OpenFinite, FS_EmptySet
<1>7. Running(o) BY <1>4, <1>6 DEF Running
<1>8. EachEventOnce BY DEF IInv, RequestsMatchCount
<1> HIDE DEF o, w
<1>9. /\ ops' \in Seq(Operation) /\ DOMAIN ops' = DOMAIN ops /\ Len(ops') = Len(ops)
      /\ ops'[o].st = "done" /\ \A p \in DOMAIN ops : p # o => ops'[p] = ops[p]
  <2>1. Finished(w) \in Operation /\ Finished(w).st = "done"
    BY <1>5, Constants DEF Operation, Finished
  <2>2. ops \in Seq(Operation) BY DEF IInv, TypeOK
  <2>3. o \in 1..Len(ops) BY <1>4, <2>2, LenProperties
  <2>4. ops' \in Seq(Operation) /\ Len(ops') = Len(ops) BY <1>1, <2>1, <2>2, <2>3, ExceptSeq
  <2> QED BY <1>1, <1>4, <2>1, <2>2, <2>4, LenProperties
<1>10. \A p : Running(p)' <=> Running(p) /\ p # o BY <1>7, <1>9 DEF Running
<1>11. /\ \A g \in Group : g # w.g \/ w.kind # "delete" => grp'[g] = grp[g]
       /\ w.kind = "delete" => grp'[w.g] = Freed(grp[w.g])
       /\ grp' \in [Group -> Element]
  <2>1. grp \in [Group -> Element] BY DEF IInv, TypeOK
  <2>2. Freed(grp[w.g]) \in Element BY <1>5, ElementTypes
  <2> QED BY <1>1, <1>5, <2>1, <2>2
<1>12. TypeOK'
  <2>1. inprog' \in [Core -> BOOLEAN] BY <1>1 DEF IInv, TypeOK
  <2> QED BY <1>1, <1>2, <1>9, <1>11, <2>1 DEF IInv, TypeOK, mapVars
<1>13. w.kind = "delete" => grp[w.g].alloc /\ grp[w.g].del /\ grp[w.g].mask = {}
  BY <1>4, <1>5, <1>7 DEF IInv, DeleteInv, MapInv, w
<1>14. MapInv'
  <2>1. UNCHANGED <<logic, odpThr, st, todo>> BY <1>1, <1>2 DEF mapVars
  <2>2. CASE w.kind # "delete"
    <3>1. \A g \in Group : grp'[g] = grp[g] BY <1>11, <2>2
    <3> QED BY <2>1, <3>1 DEF IInv, MapInv
  <2>3. CASE w.kind = "delete"
    <3>1. grp'[w.g].mask = {}
      <4>1. Freed(grp[w.g]).mask = grp[w.g].mask BY <1>5 DEF Freed, Element
      <4> QED BY <1>11, <1>13, <2>3, <4>1
    <3>2. \A g \in Group : g # w.g => grp'[g] = grp[g] BY <1>11
    <3> QED BY <1>5, <2>1, <3>1, <3>2 DEF IInv, MapInv
  <2> QED BY <2>2, <2>3
<1>15. DeleteInv'
  <2>1. ASSUME NEW p \in DOMAIN ops, Running(p), p # o, ops[p].kind = "delete"
        PROVE  grp'[ops[p].g].alloc /\ grp'[ops[p].g].del
    <3>1. grp[ops[p].g].alloc /\ grp[ops[p].g].del BY <2>1 DEF IInv, DeleteInv
    <3>2. CASE w.kind # "delete" BY <1>5, <1>11, <3>1, <3>2
    <3>3. CASE w.kind = "delete"
      <4>1. ops[p].g # w.g BY <1>4, <1>7, <2>1, <3>3 DEF IInv, DeleteInv, w
      <4> QED BY <1>5, <1>11, <3>1, <4>1
    <3> QED BY <3>2, <3>3
  <2> QED BY <1>9, <1>10, <2>1 DEF IInv, DeleteInv
<1>16. \A d \in Core : call[d].pc = "send" => call[d].op # o
  <2> SUFFICES ASSUME NEW d \in Core, call[d].pc = "send", call[d].op = o PROVE FALSE OBVIOUS
  <2>1. call[d].rem # {} \/ call[d].add # {} BY DEF IInv, CallInv
  <2>2. call[d].rem \subseteq Core /\ call[d].add \subseteq Core BY OpTypes DEF IInv
  <2>3. PICK k \in {"ADD", "REM"}, e \in Core : e \in (IF k = "REM" THEN call[d].rem ELSE call[d].add)
    BY <2>1, <2>2
  <2>4. Unsent(o, k, e) BY <2>3 DEF Unsent
  <2>5. <<k, e>> \in Open(o) BY <2>4 DEF Open
  <2> QED BY <1>6, <2>5 DEF o
<1>17. Waits(w) <=> Releases(w)
  <2>1. w.kind \in {"create", "modify", "delete"} BY <1>5 DEF Operation
  <2> QED BY <2>1 DEF Waits, Releases
<1>18. Waits(w) => w.caller = c /\ inprog[c] /\ call[c].op = o
  <2>1. Waits(w) => w.sync BY DEF Waits
  <2> QED BY <1>4, <1>7, <2>1 DEF IInv, CallInv, w
<1>19. \A d \in Core : inprog'[d] <=> inprog[d] /\ ~(d = c /\ Waits(w))
  BY <1>1, <1>17 DEF IInv, TypeOK
<1>20. CallInv'
  <2>1. UNCHANGED <<call, st>> BY <1>1, <1>2
  <2>2. ASSUME NEW d \in Core
        PROVE  /\ call[d].pc # "idle" => st[d] = "up" /\ call[d].op \in DOMAIN ops'
               /\ call[d].pc = "send" => /\ Running(call[d].op)' /\ ops'[call[d].op].caller = d
                                         /\ call[d].rem # {} \/ call[d].add # {}
               /\ inprog'[d] => /\ call[d].pc # "idle" /\ Running(call[d].op)'
                                /\ Waits(ops'[call[d].op]) /\ ops'[call[d].op].caller = d
               /\ call[d].pc = "wait" /\ ~inprog'[d] => ops'[call[d].op].st = "done"
    <3>1. call[d].pc # "idle" => st[d] = "up" /\ call[d].op \in DOMAIN ops BY DEF IInv, CallInv
    <3>2. ASSUME call[d].pc = "send"
          PROVE  /\ Running(call[d].op)' /\ ops'[call[d].op].caller = d
                 /\ call[d].rem # {} \/ call[d].add # {}
      <4>1. /\ Running(call[d].op) /\ ops[call[d].op].caller = d
            /\ call[d].rem # {} \/ call[d].add # {}
        BY <3>2 DEF IInv, CallInv
      <4>2. call[d].op # o /\ call[d].op \in DOMAIN ops BY <1>16, <3>1, <3>2
      <4>3. Running(call[d].op)' BY <1>1, <1>10, <4>1, <4>2
      <4> QED BY <1>9, <4>1, <4>2, <4>3
    <3>3. ASSUME inprog'[d]
          PROVE  /\ call[d].pc # "idle" /\ Running(call[d].op)'
                 /\ Waits(ops'[call[d].op]) /\ ops'[call[d].op].caller = d
      <4>1. inprog[d] /\ ~(d = c /\ Waits(w)) BY <1>19, <3>3
      <4>2. /\ call[d].pc # "idle" /\ Running(call[d].op)
            /\ Waits(ops[call[d].op]) /\ ops[call[d].op].caller = d
        BY <4>1 DEF IInv, CallInv
      <4>3. call[d].op # o
        <5> SUFFICES ASSUME call[d].op = o PROVE FALSE OBVIOUS
        <5>1. Waits(w) /\ w.caller = d BY <4>2 DEF w
        <5> QED BY <1>18, <4>1, <5>1
      <4>4. Running(call[d].op)' BY <1>1, <1>10, <4>2, <4>3
      <4> QED BY <1>9, <3>1, <4>2, <4>3, <4>4
    <3>4. ASSUME call[d].pc = "wait", ~inprog'[d] PROVE ops'[call[d].op].st = "done"
      <4>1. CASE call[d].op = o BY <1>9, <4>1
      <4>2. CASE call[d].op # o
        <5>1. ~inprog[d] BY <1>18, <1>19, <3>4, <4>2
        <5>2. ops[call[d].op].st = "done" BY <3>4, <5>1 DEF IInv, CallInv
        <5> QED BY <1>9, <3>1, <3>4, <4>2, <5>2
      <4> QED BY <4>1, <4>2
    <3> QED BY <1>9, <3>1, <3>2, <3>3, <3>4
  <2>3. ASSUME NEW q \in DOMAIN ops', Running(q)', Waits(ops'[q])
        PROVE  inprog'[ops'[q].caller] /\ call[ops'[q].caller].op = q
    <3>1. Running(q) /\ q # o /\ q \in DOMAIN ops BY <1>9, <1>10, <2>3
    <3>2. ops'[q] = ops[q] BY <1>9, <3>1
    <3>3. inprog[ops[q].caller] /\ call[ops[q].caller].op = q BY <2>3, <3>1, <3>2 DEF IInv, CallInv
    <3>4. ops[q].caller \in Core BY <3>1, OpTypes DEF IInv
    <3> QED BY <1>18, <1>19, <3>1, <3>2, <3>3, <3>4
  <2> QED BY <2>1, <2>2, <2>3 DEF CallInv
<1>21. \A d \in Core : \A x : x \in Mail(d)' <=> x \in Mail(d) /\ ~(d = c /\ x = m)
  BY <1>1, <1>2 DEF Mail
<1>22. m \notin ToSet(shared) /\ \A d \in Core : m \in Mail(d) => d = c
  BY <1>2, <1>3, <1>5, <1>8 DEF EachEventOnce
<1>23. ASSUME NEW d \in Core, NEW x \in Mail(d)', x.t = "DONE" PROVE x.id # o
  <2>1. x \in Mail(d) /\ ~(d = c /\ x = m) BY <1>21
  <2>2. x \in Msg
    <3>1. ctrlq[d] \in Seq(Msg) /\ batch[d] \in Seq(Msg) BY DEF IInv, TypeOK
    <3> QED BY <2>1, <3>1, Elements DEF Mail
  <2>3. x = [t |-> "DONE", id |-> x.id] BY <1>23, <2>2 DEF Msg
  <2> QED BY <1>2, <1>22, <2>1, <2>3
<1>24. MailInv'
  <2>1. ASSUME NEW x \in ToSet(shared)
        PROVE  x.t = "DONE" /\ x.id \in DOMAIN ops' /\ ~ops'[x.id].sync
    <3>1. x.t = "DONE" /\ x.id \in DOMAIN ops /\ ~ops[x.id].sync BY DEF IInv, MailInv
    <3>2. x \in Msg BY Elements DEF IInv, TypeOK
    <3>3. x = [t |-> "DONE", id |-> x.id] BY <3>1, <3>2 DEF Msg
    <3>4. x.id # o BY <1>2, <1>22, <3>3
    <3> QED BY <1>9, <3>1, <3>4
  <2>2. ASSUME NEW d \in Core, NEW x \in Mail(d)'
        PROVE  /\ x.t \in {"ADD", "REM", "DONE"} => x.id \in DOMAIN ops'
               /\ x.t = "DONE" /\ ops'[x.id].sync => ops'[x.id].caller = d
               /\ x.t = "DONE" /\ x \in ToSet(ctrlq'[d]) => ops'[x.id].sync
               /\ x.t = "TDONE" => x.id = d
    <3>1. x \in Mail(d) BY <1>21, <2>2
    <3>2. /\ x.t \in {"ADD", "REM", "DONE"} => x.id \in DOMAIN ops
          /\ x.t = "DONE" /\ ops[x.id].sync => ops[x.id].caller = d
          /\ x.t = "DONE" /\ x \in ToSet(ctrlq[d]) => ops[x.id].sync
          /\ x.t = "TDONE" => x.id = d
      BY <3>1 DEF IInv, MailInv
    <3>3. x.t = "DONE" => ops'[x.id] = ops[x.id] BY <1>9, <1>23, <2>2, <3>2
    <3> QED BY <1>1, <1>9, <3>2, <3>3
  <2> QED BY <1>1, <1>2, <2>1, <2>2 DEF MailInv
<1>25. TermInv'
  <2>1. \A d \in Core, j \in {"TERM", "TDONE"} : \A i :
          [t |-> j, id |-> i] \in Mail(d)' <=> [t |-> j, id |-> i] \in Mail(d)
    <3> TAKE d \in Core, j \in {"TERM", "TDONE"}
    <3> TAKE i
    <3>1. [t |-> j, id |-> i] # m BY <1>2
    <3> QED BY <1>21, <3>1
  <2> QED BY <1>1, <1>2, <2>1, TermMailSame DEF IInv, mapVars
<1>26. \A p, j, d : Unsent(p, j, d)' <=> Unsent(p, j, d) BY <1>1 DEF Unsent
<1>27. EachEventOnce'
  <2>1. \A d \in Core : /\ Mail(d)' \subseteq Mail(d) /\ ToSet(batch'[d]) \subseteq ToSet(batch[d])
    BY <1>2, <1>21
  <2>2. \A d \in Core : /\ IsInjective(ctrlq'[d]) /\ IsInjective(batch'[d])
                        /\ ToSet(ctrlq'[d]) \cap ToSet(batch'[d]) = {}
                        /\ ToSet(shared') \cap Mail(d)' = {}
    BY <1>1, <1>2, <1>8, <2>1 DEF EachEventOnce
  <2>3. \A d, e \in Core : \A p \in OpId : DoneEvent(p) \in Mail(d)' \cap Mail(e)' => d = e
    BY <1>8, <2>1 DEF EachEventOnce
  <2>4. ASSUME NEW p \in OpId, NEW j \in {"ADD", "REM"}, NEW d \in Core, Unsent(p, j, d)'
        PROVE  [t |-> j, id |-> p] \notin Mail(d)'
    <3>1. Unsent(p, j, d) BY <1>26, <2>4
    <3>2. [t |-> j, id |-> p] \notin Mail(d) BY <1>8, <3>1 DEF EachEventOnce
    <3> QED BY <1>21, <3>2
  <2>5. IsInjective(shared') BY <1>1, <1>8 DEF EachEventOnce
  <2> QED BY <2>2, <2>3, <2>4, <2>5 DEF EachEventOnce, DoneEvent
<1>28. RequestsMatchCount'
  <2>1. \A p : Open(p)' = Open(p)
    <3> SUFFICES ASSUME NEW p, NEW j \in {"ADD", "REM"}, NEW d \in Core
                 PROVE  <<j, d>> \in Open(p)' <=> <<j, d>> \in Open(p)
      BY DEF Open
    <3>1. [t |-> j, id |-> p] # m BY <1>2
    <3>2. [t |-> j, id |-> p] \in Mail(d)' <=> [t |-> j, id |-> p] \in Mail(d) BY <1>21, <3>1
    <3> QED BY <1>26, <3>2 DEF Open
  <2>2. ASSUME NEW p \in DOMAIN ops, p # o PROVE DoneSent(p)' <=> DoneSent(p)
    <3>1. DoneEvent(p) # m BY <1>2, <2>2 DEF DoneEvent
    <3>2. \A d \in Core : DoneEvent(p) \in Mail(d)' <=> DoneEvent(p) \in Mail(d) BY <1>21, <3>1
    <3> QED BY <1>1, <3>2 DEF DoneSent, DoneEvent
  <2>4. ASSUME NEW p \in DOMAIN ops'
        PROVE  /\ ops'[p].st = "run" => ops'[p].left = Cardinality(Open(p)')
               /\ DoneSent(p)' <=> ops'[p].st = "run" /\ ops'[p].left = 0
    <3>1. CASE p = o
      <4>1. ~DoneSent(p)' BY <1>1, <1>21, <1>22, <1>3, <3>1 DEF DoneSent, DoneEvent
      <4> QED BY <1>9, <3>1, <4>1
    <3>2. CASE p # o
      <4>1. p \in DOMAIN ops /\ ops'[p] = ops[p] BY <1>9, <3>2
      <4>2. /\ ops[p].st = "run" => ops[p].left = Cardinality(Open(p))
            /\ DoneSent(p) <=> ops[p].st = "run" /\ ops[p].left = 0
        BY <4>1 DEF IInv, RequestsMatchCount
      <4> QED BY <2>1, <2>2, <3>2, <4>1, <4>2
    <3> QED BY <3>1, <3>2
  <2> QED BY <1>27, <2>4 DEF RequestsMatchCount
<1> QED BY <1>12, <1>14, <1>15, <1>20, <1>24, <1>25, <1>28 DEF IInv

\* A control event of a termination is handled, and one may be sent: nothing
\* changes for the queue group operations.
LEMMA TermMail ==
  ASSUME IInv, UNCHANGED <<shared, ops, call>>,
         \A d \in Core : IsInjective(ctrlq'[d]) /\ IsInjective(batch'[d])
                         /\ ToSet(ctrlq'[d]) \cap ToSet(batch'[d]) = {},
         \A d \in Core : ph'[d] = "out" => batch'[d] = <<>>,
         \A d \in Core : \A x : x.t \in {"ADD", "REM", "DONE"} =>
           /\ x \in Mail(d)' <=> x \in Mail(d)
           /\ x \in ToSet(ctrlq'[d]) => x \in ToSet(ctrlq[d]),
         \A d \in Core : \A x \in Mail(d)' : x \notin Mail(d) => x.t \in {"TERM", "TDONE"},
         \A d \in Core : \A x \in Mail(d)' : x.t = "TDONE" => x.id = d
  PROVE  MailInv' /\ RequestsMatchCount'
<1>1. MailInv'
  <2>1. OpsAlike BY DEF OpsAlike
  <2>2. ASSUME NEW d \in Core, NEW x \in Mail(d)'
        PROVE  /\ x.t \in {"ADD", "REM", "DONE"} => x.id \in DOMAIN ops
               /\ x.t = "DONE" /\ ops[x.id].sync => ops[x.id].caller = d
               /\ x.t = "DONE" /\ x \in ToSet(ctrlq'[d]) => ops[x.id].sync
               /\ x.t = "TDONE" => x.id = d
    <3>1. CASE x.t \in {"ADD", "REM", "DONE"}
      <4>1. x \in Mail(d) /\ (x \in ToSet(ctrlq'[d]) => x \in ToSet(ctrlq[d])) BY <2>2, <3>1
      <4> QED BY <3>1, <4>1 DEF IInv, MailInv
    <3>2. CASE x.t \notin {"ADD", "REM", "DONE"} BY <2>2, <3>2
    <3> QED BY <3>1, <3>2
  <2>3. \A x \in ToSet(shared') : x.t = "DONE" /\ x.id \in DOMAIN ops /\ ~ops[x.id].sync
    BY DEF IInv, MailInv
  <2> QED BY <2>1, <2>2, <2>3, MailAlike
<1>2. \A k \in {"ADD", "REM", "DONE"}, d \in Core : \A i :
        [t |-> k, id |-> i] \in Mail(d)' <=> [t |-> k, id |-> i] \in Mail(d)
  <2> TAKE k \in {"ADD", "REM", "DONE"}, d \in Core
  <2> TAKE i
  <2>1. [t |-> k, id |-> i].t \in {"ADD", "REM", "DONE"} OBVIOUS
  <2> QED BY <2>1
<1>3. \A p, j, d : Unsent(p, j, d)' <=> Unsent(p, j, d) BY DEF Unsent
<1>4. \A p : Open(p)' = Open(p)
  <2> SUFFICES ASSUME NEW p, NEW j \in {"ADD", "REM"}, NEW d \in Core
               PROVE  <<j, d>> \in Open(p)' <=> <<j, d>> \in Open(p)
    BY DEF Open
  <2> QED BY <1>2, <1>3 DEF Open
<1>5. \A p : DoneSent(p)' <=> DoneSent(p) BY <1>2 DEF DoneSent, DoneEvent
<1>6. EachEventOnce'
  <2>1. EachEventOnce BY DEF IInv, RequestsMatchCount
  <2>2. ASSUME NEW d \in Core PROVE ToSet(shared') \cap Mail(d)' = {}
    <3> SUFFICES ASSUME NEW x \in ToSet(shared), x \in Mail(d)' PROVE FALSE OBVIOUS
    <3>1. x.t = "DONE" BY DEF IInv, MailInv
    <3>2. x \in Mail(d) BY <3>1
    <3> QED BY <2>1, <3>2 DEF EachEventOnce
  <2>3. \A d, e \in Core : \A p \in OpId : DoneEvent(p) \in Mail(d)' \cap Mail(e)' => d = e
    BY <1>2, <2>1 DEF EachEventOnce, DoneEvent
  <2>4. ASSUME NEW p \in OpId, NEW j \in {"ADD", "REM"}, NEW d \in Core, Unsent(p, j, d)'
        PROVE  [t |-> j, id |-> p] \notin Mail(d)'
    <3>1. Unsent(p, j, d) BY <1>3, <2>4
    <3>2. [t |-> j, id |-> p] \notin Mail(d) BY <2>1, <3>1 DEF EachEventOnce
    <3> QED BY <1>2, <3>2
  <2>5. IsInjective(shared') BY <2>1 DEF EachEventOnce
  <2> QED BY <2>2, <2>3, <2>4, <2>5 DEF EachEventOnce, DoneEvent
<1>7. RequestsMatchCount' BY <1>4, <1>5, <1>6 DEF IInv, RequestsMatchCount
<1> QED BY <1>1, <1>7

\* i_event__term_thread_req(): one request of the termination less.
LEMMA TermReqStep ==
  ASSUME IInv, NEW c \in Core, HandleTerm(c)
  PROVE  IInv'
<1>0. PICK m : m = Head(batch[c]) OBVIOUS
<1>1. /\ Takes(c, "TERM") /\ treqs' = [treqs EXCEPT ![c] = @ - 1]
      /\ tleft' = [tleft EXCEPT ![m.id] = @ - 1]
      /\ ctrlq' = IF tleft[m.id] # 1 THEN ctrlq
                  ELSE [ctrlq EXCEPT ![m.id] = Append(@, [t |-> "TDONE", id |-> m.id])]
      /\ UNCHANGED <<opVars, logic, odpThr, tdone, todo, nterms, shared>>
  BY <1>0 DEF HandleTerm, ReqHandled
<1>2. /\ m \in Msg /\ m.t = "TERM" /\ m = [t |-> "TERM", id |-> m.id]
      /\ m \in ToSet(batch[c]) /\ m \notin ToSet(ctrlq[c]) /\ m \in Mail(c)
      /\ batch' \in [Core -> Seq(Msg)]
      /\ \A d \in Core : /\ ToSet(batch'[d]) = ToSet(batch[d]) \ (IF d = c THEN {m} ELSE {})
                         /\ IsInjective(batch'[d])
      /\ \A d \in Core : ph'[d] = "out" => batch'[d] = <<>>
      /\ UNCHANGED <<ph, rwcnt, st>>
  BY <1>0, <1>1, TakeEffect
<1>3. PICK x \in Core : x = m.id BY <1>2 DEF Msg
<1> DEFINE td == [t |-> "TDONE", id |-> x]
<1>4. m = [t |-> "TERM", id |-> x] /\ m # td BY <1>2, <1>3
<1>5. c \in TermAt(x) /\ x \in TermOf(c) BY <1>2, <1>4 DEF TermAt, TermOf
<1>6. \A d \in Core : /\ IsFiniteSet(TermAt(d)) /\ Cardinality(TermAt(d)) \in Nat
                      /\ IsFiniteSet(TermOf(d)) /\ Cardinality(TermOf(d)) \in Nat
  <2>1. \A d : TermAt(d) \in SUBSET Core /\ TermOf(d) \in SUBSET Core BY DEF TermAt, TermOf
  <2> QED BY <2>1, Constants
<1>7. /\ tleft[x] = Cardinality(TermAt(x)) /\ tleft[x] \in Nat /\ tleft[x] >= 1
      /\ treqs[c] >= Cardinality(TermOf(c)) /\ treqs[c] \in Nat /\ treqs[c] >= 1
  <2>1. tleft[x] = Cardinality(TermAt(x)) /\ treqs[c] >= Cardinality(TermOf(c)) BY DEF IInv, TermInv
  <2>2. tleft[x] \in Nat /\ treqs[c] \in Nat BY DEF IInv, TypeOK
  <2>3. Cardinality(TermAt(x)) # 0 /\ Cardinality(TermOf(c)) # 0 BY <1>5, <1>6, FS_EmptySet
  <2> QED BY <1>6, <2>1, <2>2, <2>3
<1>8. st[x] \in {"term", "extterm"} /\ ~tdone[x] /\ td \notin Mail(x)
  <2>1. tleft[x] > 0 BY <1>7
  <2>2. st[x] \in {"term", "extterm"} /\ ~tdone[x] BY <2>1 DEF IInv, TermInv
  <2>3. td \notin Mail(x) BY <2>1 DEF IInv, TermInv
  <2> QED BY <2>2, <2>3
<1> DEFINE last == tleft[x] = 1
<1>9. /\ ctrlq' \in [Core -> Seq(Msg)]
      /\ \A d \in Core :
           /\ ToSet(ctrlq'[d]) = ToSet(ctrlq[d]) \cup (IF last /\ d = x THEN {td} ELSE {})
           /\ IsInjective(ctrlq'[d])
  <2>1. CASE ~last
    <3>1. ctrlq' = ctrlq BY <1>1, <1>3, <2>1
    <3>2. \A d \in Core : IsInjective(ctrlq[d]) BY DEF IInv, RequestsMatchCount, EachEventOnce
    <3> QED BY <2>1, <3>1, <3>2 DEF IInv, TypeOK
  <2>2. CASE last
    <3>1. ctrlq' = [ctrlq EXCEPT ![x] = Append(@, td)] BY <1>1, <1>3, <2>2
    <3>2. td \in Msg /\ td \notin ToSet(ctrlq[x]) BY <1>8 DEF Msg, Mail
    <3> HIDE DEF td
    <3>3. /\ ctrlq' \in [Core -> Seq(Msg)]
          /\ \A d \in Core : /\ ToSet(ctrlq'[d]) = ToSet(ctrlq[d]) \cup (IF d = x THEN {td} ELSE {})
                             /\ IsInjective(ctrlq'[d])
      BY <3>1, <3>2, SendEffect
    <3> QED BY <2>2, <3>3
  <2> QED BY <2>1, <2>2
<1>10. TypeOK'
  <2>1. treqs' \in [Core -> Nat]
    <3>1. treqs[c] - 1 \in Nat BY <1>7
    <3>2. treqs' = [treqs EXCEPT ![c] = treqs[c] - 1] BY <1>1
    <3>3. treqs \in [Core -> Nat] BY DEF IInv, TypeOK
    <3> QED BY <3>1, <3>2, <3>3
  <2>2. tleft' \in [Core -> Nat]
    <3>1. tleft[x] - 1 \in Nat BY <1>7
    <3>2. tleft' = [tleft EXCEPT ![x] = tleft[x] - 1] BY <1>1, <1>3
    <3>3. tleft \in [Core -> Nat] BY DEF IInv, TypeOK
    <3> QED BY <3>1, <3>2, <3>3
  <2> QED BY <1>1, <1>2, <1>9, <2>1, <2>2 DEF IInv, TypeOK, opVars
<1>11. \A d \in Core : \A y :
         y \in Mail(d)' <=> (y \in Mail(d) /\ ~(d = c /\ y = m)) \/ (last /\ d = x /\ y = td)
  BY <1>2, <1>4, <1>9 DEF Mail
<1>12. MapInv' BY <1>1, <1>2, MapSame DEF IInv, opVars
<1>13. DeleteInv' BY <1>1, DeleteSame DEF IInv, opVars
<1>14. CallInv' BY <1>1, <1>2, CallSame DEF IInv, opVars
<1> HIDE DEF last
<1>15. MailInv' /\ RequestsMatchCount'
  <2>1. ASSUME NEW d \in Core
        PROVE  /\ IsInjective(ctrlq'[d]) /\ IsInjective(batch'[d])
               /\ ToSet(ctrlq'[d]) \cap ToSet(batch'[d]) = {}
    <3>1. ToSet(ctrlq[d]) \cap ToSet(batch[d]) = {} BY DEF IInv, RequestsMatchCount, EachEventOnce
    <3>2. td \notin ToSet(batch[x]) BY <1>8 DEF Mail
    <3> QED BY <1>2, <1>9, <3>1, <3>2
  <2>2. ASSUME NEW d \in Core, NEW y, y.t \in {"ADD", "REM", "DONE"}
        PROVE  /\ y \in Mail(d)' <=> y \in Mail(d)
               /\ y \in ToSet(ctrlq'[d]) => y \in ToSet(ctrlq[d])
    <3>1. y # m /\ y # td BY <1>2, <2>2
    <3> QED BY <1>9, <1>11, <3>1
  <2>3. ASSUME NEW d \in Core, NEW y \in Mail(d)', y \notin Mail(d) PROVE y.t \in {"TERM", "TDONE"}
    BY <1>11, <2>3
  <2>4. ASSUME NEW d \in Core, NEW y \in Mail(d)', y.t = "TDONE" PROVE y.id = d
    <3>1. CASE y \in Mail(d) BY <2>4, <3>1 DEF IInv, MailInv
    <3>2. CASE d = x /\ y = td BY <3>2
    <3> QED BY <1>11, <2>4, <3>1, <3>2
  <2>5. UNCHANGED <<shared, ops, call>> BY <1>1 DEF opVars
  <2>6. \A d \in Core : ph'[d] = "out" => batch'[d] = <<>> BY <1>2
  <2> HIDE DEF td
  <2> QED BY <2>1, <2>2, <2>3, <2>4, <2>5, <2>6, TermMail
<1>16. /\ \A d \in Core : TermAt(d)' = TermAt(d) \ (IF d = x THEN {c} ELSE {})
       /\ \A d \in Core : TermOf(d)' = TermOf(d) \ (IF d = c THEN {x} ELSE {})
  <2>1. ASSUME NEW d \in Core, NEW e \in Core
        PROVE  [t |-> "TERM", id |-> e] \in Mail(d)' <=>
                 [t |-> "TERM", id |-> e] \in Mail(d) /\ ~(d = c /\ e = x)
    <3>1. [t |-> "TERM", id |-> e] # td /\ ([t |-> "TERM", id |-> e] = m <=> e = x) BY <1>4
    <3> QED BY <1>11, <3>1
  <2> QED BY <2>1 DEF TermAt, TermOf
<1>17. TermInv'
  <2>1. \A d \in Core : /\ tleft'[d] = IF d = x THEN tleft[x] - 1 ELSE tleft[d]
                        /\ treqs'[d] = IF d = c THEN treqs[c] - 1 ELSE treqs[d]
    BY <1>1, <1>3 DEF IInv, TypeOK
  <2>2. UNCHANGED <<st, tdone>> BY <1>1, <1>2
  <2>3. ASSUME NEW d \in Core PROVE tleft'[d] = Cardinality(TermAt(d)')
    <3>1. tleft[d] = Cardinality(TermAt(d)) BY DEF IInv, TermInv
    <3>2. CASE d # x BY <1>16, <2>1, <3>1, <3>2
    <3>3. CASE d = x
      <4>1. Cardinality(TermAt(x) \ {c}) = Cardinality(TermAt(x)) - 1
        BY <1>5, <1>6, FS_RemoveElement
      <4> QED BY <1>16, <2>1, <3>1, <3>3, <4>1
    <3> QED BY <3>2, <3>3
  <2>4. ASSUME NEW d \in Core PROVE treqs'[d] >= Cardinality(TermOf(d)')
    <3>1. treqs[d] >= Cardinality(TermOf(d)) BY DEF IInv, TermInv
    <3>2. CASE d # c BY <1>16, <2>1, <3>1, <3>2
    <3>3. CASE d = c
      <4>1. Cardinality(TermOf(c) \ {x}) = Cardinality(TermOf(c)) - 1
        BY <1>5, <1>6, FS_RemoveElement
      <4>2. treqs'[d] = treqs[c] - 1 /\ Cardinality(TermOf(d)') = Cardinality(TermOf(c)) - 1
        BY <1>16, <2>1, <3>3, <4>1
      <4> QED BY <1>6, <1>7, <4>2
    <3> QED BY <3>2, <3>3
  <2>5. ASSUME NEW d \in Core, tleft'[d] > 0 PROVE st[d] \in {"term", "extterm"} /\ ~tdone[d]
    <3>1. CASE d = x BY <1>8, <3>1
    <3>2. CASE d # x BY <2>1, <2>5, <3>2 DEF IInv, TermInv
    <3> QED BY <3>1, <3>2
  <2>6. ASSUME NEW d \in Core, [t |-> "TDONE", id |-> d] \in Mail(d)'
        PROVE  st[d] \in {"term", "extterm"} /\ ~tdone[d] /\ tleft'[d] = 0
    <3>1. CASE d = x
      <4>1. last BY <1>8, <1>11, <2>6, <3>1
      <4>2. tleft'[d] = 0 BY <1>7, <2>1, <3>1, <4>1 DEF last
      <4> QED BY <1>8, <3>1, <4>2
    <3>2. CASE d # x
      <4>1. [t |-> "TDONE", id |-> d] \in Mail(d) BY <1>11, <2>6, <3>2
      <4> QED BY <2>1, <3>2, <4>1 DEF IInv, TermInv
    <3> QED BY <3>1, <3>2
  <2> QED BY <2>2, <2>3, <2>4, <2>5, <2>6 DEF TermInv
<1> QED BY <1>10, <1>12, <1>13, <1>14, <1>15, <1>17 DEF IInv

\* term_thread_req_done_callback(): the termination is done.
LEMMA TermDoneStep ==
  ASSUME IInv, NEW c \in Core, HandleTermDone(c)
  PROVE  IInv'
<1>0. PICK m : m = Head(batch[c]) OBVIOUS
<1>1. /\ Takes(c, "TDONE") /\ tdone' = [tdone EXCEPT ![c] = TRUE]
      /\ UNCHANGED <<opVars, logic, odpThr, tleft, treqs, todo, nterms, ctrlq, shared>>
  BY DEF HandleTermDone
<1>2. /\ m \in Msg /\ m.t = "TDONE" /\ m = [t |-> "TDONE", id |-> m.id]
      /\ m \in ToSet(batch[c]) /\ m \notin ToSet(ctrlq[c]) /\ m \in Mail(c)
      /\ batch' \in [Core -> Seq(Msg)]
      /\ \A d \in Core : /\ ToSet(batch'[d]) = ToSet(batch[d]) \ (IF d = c THEN {m} ELSE {})
                         /\ IsInjective(batch'[d])
      /\ \A d \in Core : ph'[d] = "out" => batch'[d] = <<>>
      /\ UNCHANGED <<ph, rwcnt, st>>
  BY <1>0, <1>1, TakeEffect
<1>3. m.id = c /\ m = [t |-> "TDONE", id |-> c]
  <2>1. m.id = c BY <1>2 DEF IInv, MailInv
  <2> QED BY <1>2, <2>1
<1>4. TypeOK'
  <2>1. tdone' \in [Core -> BOOLEAN] BY <1>1 DEF IInv, TypeOK
  <2> QED BY <1>1, <1>2, <2>1 DEF IInv, TypeOK, opVars
<1>5. \A d \in Core : \A y : y \in Mail(d)' <=> y \in Mail(d) /\ ~(d = c /\ y = m)
  BY <1>1, <1>2 DEF Mail
<1>6. MapInv' BY <1>1, <1>2, MapSame DEF IInv, opVars
<1>7. DeleteInv' BY <1>1, DeleteSame DEF IInv, opVars
<1>8. CallInv' BY <1>1, <1>2, CallSame DEF IInv, opVars
<1>9. MailInv' /\ RequestsMatchCount'
  <2>1. \A d \in Core : /\ IsInjective(ctrlq'[d]) /\ IsInjective(batch'[d])
                        /\ ToSet(ctrlq'[d]) \cap ToSet(batch'[d]) = {}
    BY <1>1, <1>2 DEF IInv, RequestsMatchCount, EachEventOnce
  <2>2. ASSUME NEW d \in Core, NEW y, y.t \in {"ADD", "REM", "DONE"}
        PROVE  /\ y \in Mail(d)' <=> y \in Mail(d)
               /\ y \in ToSet(ctrlq'[d]) => y \in ToSet(ctrlq[d])
    BY <1>1, <1>2, <1>5, <2>2
  <2>3. \A d \in Core : \A y \in Mail(d)' : y \notin Mail(d) => y.t \in {"TERM", "TDONE"} BY <1>5
  <2>4. \A d \in Core : \A y \in Mail(d)' : y.t = "TDONE" => y.id = d BY <1>5 DEF IInv, MailInv
  <2>5. UNCHANGED <<shared, ops, call>> BY <1>1 DEF opVars
  <2>6. \A d \in Core : ph'[d] = "out" => batch'[d] = <<>> BY <1>2
  <2> QED BY <2>1, <2>2, <2>3, <2>4, <2>5, <2>6, TermMail
<1>10. TermInv'
  <2>1. \A d \in Core : TermAt(d)' = TermAt(d) /\ TermOf(d)' = TermOf(d)
    <3>1. ASSUME NEW d \in Core, NEW e \in Core
          PROVE  [t |-> "TERM", id |-> e] \in Mail(d)' <=> [t |-> "TERM", id |-> e] \in Mail(d)
      BY <1>2, <1>5
    <3> QED BY <3>1 DEF TermAt, TermOf
  <2>2. tleft[c] = 0 BY <1>2, <1>3 DEF IInv, TermInv
  <2>3. \A d \in Core : tdone'[d] <=> tdone[d] \/ d = c BY <1>1 DEF IInv, TypeOK
  <2>4. UNCHANGED <<tleft, treqs, st>> BY <1>1, <1>2
  <2>5. ASSUME NEW d \in Core, [t |-> "TDONE", id |-> d] \in Mail(d)' PROVE d # c /\ [t |-> "TDONE", id |-> d] \in Mail(d)
    BY <1>3, <1>5, <2>5
  <2> QED BY <2>1, <2>2, <2>3, <2>4, <2>5 DEF IInv, TermInv
<1> QED BY <1>4, <1>6, <1>7, <1>8, <1>9, <1>10 DEF IInv

-----------------------------------------------------------------------------
(* Sending of requests. *)

\* send_addrem_events() removes the request from those of the caller.
LEMMA SendCall ==
  ASSUME IInv, NEW c \in Core, SendReq(c)
  PROVE  \E k \in {"ADD", "REM"}, t \in Core :
           /\ Unsent(call[c].op, k, t)
           /\ ctrlq' = [ctrlq EXCEPT ![t] = Append(@, [t |-> k, id |-> call[c].op])]
           /\ \A p \in DOMAIN ops, j \in {"ADD", "REM"}, d \in Core :
                Unsent(p, j, d)' <=> Unsent(p, j, d) /\ ~(p = call[c].op /\ j = k /\ d = t)
           /\ \A d \in Core : d # c => call'[d] = call[d]
           /\ call' \in [Core -> [pc : {"idle", "send", "wait"}, op : 0 .. MaxOps,
                                  rem : SUBSET Core, add : SUBSET Core]]
           /\ \/ /\ call'[c].pc = "send" /\ call'[c].op = call[c].op
                 /\ call'[c].rem # {} \/ call'[c].add # {}
              \/ /\ Waits(ops[call[c].op]) /\ call'[c].pc = "wait" /\ call'[c].op = call[c].op
              \/ /\ ~Waits(ops[call[c].op]) /\ call'[c].pc = "idle"
<1> DEFINE CallType == [pc : {"idle", "send", "wait"}, op : 0 .. MaxOps,
                        rem : SUBSET Core, add : SUBSET Core]
<1>1. PICK k : k = call[c] OBVIOUS
<1>2. /\ call \in [Core -> CallType] /\ k \in CallType /\ k.rem \in SUBSET Core /\ k.add \in SUBSET Core
      /\ k.op \in 0..MaxOps
  BY <1>1 DEF IInv, TypeOK
<1>3. /\ k.pc = "send" /\ k.op \in DOMAIN ops /\ ops[k.op].caller = c
      /\ k.rem # {} \/ k.add # {}
  BY <1>1 DEF SendReq, IInv, CallInv
<1> DEFINE T == IF k.rem # {} THEN k.rem ELSE k.add
<1>4. T \in SUBSET Nat /\ T # {} /\ T \subseteq Core BY <1>2, <1>3, Constants
<1>5. PICK t \in Core : t = Min(T) /\ t \in T BY <1>4, MinIsIn
<1>6. PICK j \in {"ADD", "REM"} : j = IF k.rem # {} THEN "REM" ELSE "ADD" OBVIOUS
<1>7. PICK k2 : k2 = [k EXCEPT !.rem = @ \ {t}, !.add = IF k.rem # {} THEN @ ELSE @ \ {t}] OBVIOUS
<1> DEFINE last == k2.rem = {} /\ k2.add = {}
<1>8. /\ ctrlq' = [ctrlq EXCEPT ![t] = Append(@, [t |-> j, id |-> k.op])]
      /\ call' = [call EXCEPT ![c] = IF last THEN AfterSend(k.op) ELSE k2]
  BY <1>1, <1>5, <1>6, <1>7 DEF SendReq
<1>9. /\ k2 \in CallType /\ k2.pc = "send" /\ k2.op = k.op /\ k2.rem = k.rem \ {t}
      /\ k2.add = IF k.rem # {} THEN k.add ELSE k.add \ {t}
  BY <1>2, <1>3, <1>7
<1>10. /\ AfterSend(k.op) \in CallType /\ AfterSend(k.op).pc # "send"
       /\ Waits(ops[k.op]) => AfterSend(k.op).pc = "wait" /\ AfterSend(k.op).op = k.op
       /\ ~Waits(ops[k.op]) => AfterSend(k.op).pc = "idle"
  <2>1. CASE Waits(ops[k.op])
    <3>1. AfterSend(k.op) = [pc |-> "wait", op |-> k.op, rem |-> {}, add |-> {}]
      BY <2>1 DEF AfterSend, NoCall
    <3> QED BY <1>2, <2>1, <3>1
  <2>2. CASE ~Waits(ops[k.op])
    <3>1. AfterSend(k.op) = [pc |-> "idle", op |-> 0, rem |-> {}, add |-> {}]
      BY <2>2 DEF AfterSend, NoCall
    <3> QED BY <2>2, <3>1, Constants
  <2> QED BY <2>1, <2>2
<1>11. PICK n : n = IF last THEN AfterSend(k.op) ELSE k2 OBVIOUS
<1>12. call' = [call EXCEPT ![c] = n] /\ n \in CallType BY <1>8, <1>9, <1>10, <1>11
<1>13. call' \in [Core -> CallType] /\ call'[c] = n /\ \A d \in Core : d # c => call'[d] = call[d]
  BY <1>2, <1>12
<1>14. /\ t \in (IF j = "REM" THEN k.rem ELSE k.add)
       /\ \A i \in {"ADD", "REM"}, d \in Core :
            d \in (IF i = "REM" THEN k2.rem ELSE k2.add) <=>
            d \in (IF i = "REM" THEN k.rem ELSE k.add) /\ ~(i = j /\ d = t)
  <2>1. CASE k.rem # {} BY <1>5, <1>6, <1>9, <2>1
  <2>2. CASE k.rem = {} BY <1>5, <1>6, <1>9, <2>2
  <2> QED BY <2>1, <2>2
<1> HIDE DEF T, CallType
<1>15. Unsent(k.op, j, t) BY <1>1, <1>3, <1>14 DEF Unsent
<1>16. \A i \in {"ADD", "REM"}, d \in Core :
         n.pc = "send" /\ d \in (IF i = "REM" THEN n.rem ELSE n.add) <=>
         d \in (IF i = "REM" THEN k.rem ELSE k.add) /\ ~(i = j /\ d = t)
  <2>1. CASE last
    <3>1. n.pc # "send" /\ k2.rem = {} /\ k2.add = {} BY <1>10, <1>11, <2>1
    <3> QED BY <1>14, <3>1
  <2>2. CASE ~last
    <3>1. n = k2 /\ n.pc = "send" BY <1>9, <1>11, <2>2
    <3> QED BY <1>14, <3>1
  <2> QED BY <2>1, <2>2
<1>17. n.pc = "send" => n.op = k.op /\ (n.rem # {} \/ n.add # {})
  BY <1>9, <1>10, <1>11
<1>18. ASSUME NEW p \in DOMAIN ops, NEW i \in {"ADD", "REM"}, NEW d \in Core
       PROVE  Unsent(p, i, d)' <=> Unsent(p, i, d) /\ ~(p = k.op /\ i = j /\ d = t)
  <2>1. ASSUME NEW e \in Core, e # c, call[e].pc = "send" PROVE call[e].op # k.op
    BY <1>3, <2>1 DEF IInv, CallInv
  <2>2. CASE p = k.op
    <3>1. Unsent(p, i, d) <=> d \in (IF i = "REM" THEN k.rem ELSE k.add)
      BY <1>1, <1>3, <2>1, <2>2 DEF Unsent
    <3>2. Unsent(p, i, d)' <=> n.pc = "send" /\ n.op = k.op /\ d \in (IF i = "REM" THEN n.rem ELSE n.add)
      BY <1>13, <2>1, <2>2 DEF Unsent
    <3> QED BY <1>16, <1>17, <2>2, <3>1, <3>2
  <2>3. CASE p # k.op
    <3>1. Unsent(p, i, d) <=> \E e \in Core : /\ e # c /\ call[e].pc = "send" /\ call[e].op = p
                                              /\ d \in (IF i = "REM" THEN call[e].rem ELSE call[e].add)
      BY <1>1, <2>3 DEF Unsent
    <3>2. Unsent(p, i, d)' <=> \E e \in Core : /\ e # c /\ call[e].pc = "send" /\ call[e].op = p
                                               /\ d \in (IF i = "REM" THEN call[e].rem ELSE call[e].add)
      BY <1>13, <1>17, <2>3 DEF Unsent
    <3> QED BY <2>3, <3>1, <3>2
  <2> QED BY <2>2, <2>3
<1>19. \/ n.pc = "send" /\ n.op = k.op /\ (n.rem # {} \/ n.add # {})
       \/ Waits(ops[k.op]) /\ n.pc = "wait" /\ n.op = k.op
       \/ ~Waits(ops[k.op]) /\ n.pc = "idle"
  BY <1>9, <1>10, <1>11
<1>20. ctrlq' = [ctrlq EXCEPT ![t] = Append(@, [t |-> j, id |-> k.op])] BY <1>8
<1> WITNESS j \in {"ADD", "REM"}, t \in Core
<1> QED BY <1>1, <1>13, <1>15, <1>18, <1>19, <1>20 DEF CallType

\* The next request is sent: it is still the only one of its kind to its thread.
LEMMA SendStep ==
  ASSUME IInv, NEW c \in Core, SendReq(c)
  PROVE  IInv'
<1>1. PICK o : o = call[c].op OBVIOUS
<1>2. PICK k \in {"ADD", "REM"}, t \in Core :
        /\ Unsent(o, k, t)
        /\ ctrlq' = [ctrlq EXCEPT ![t] = Append(@, [t |-> k, id |-> o])]
        /\ \A p \in DOMAIN ops, j \in {"ADD", "REM"}, d \in Core :
             Unsent(p, j, d)' <=> Unsent(p, j, d) /\ ~(p = o /\ j = k /\ d = t)
        /\ \A d \in Core : d # c => call'[d] = call[d]
        /\ call' \in [Core -> [pc : {"idle", "send", "wait"}, op : 0 .. MaxOps,
                               rem : SUBSET Core, add : SUBSET Core]]
        /\ \/ call'[c].pc = "send" /\ call'[c].op = o /\ (call'[c].rem # {} \/ call'[c].add # {})
           \/ Waits(ops[o]) /\ call'[c].pc = "wait" /\ call'[c].op = o
           \/ ~Waits(ops[o]) /\ call'[c].pc = "idle"
  BY <1>1, SendCall
<1>3. /\ call[c].pc = "send" /\ rwcnt' \in {rwcnt, rwcnt - 1}
      /\ UNCHANGED <<grp, ops, nops, inprog, mapVars, pollVars, shared, st>>
  BY DEF SendReq
<1>4. /\ o \in DOMAIN ops /\ o \in OpId /\ Running(o) /\ ops[o].caller = c /\ st[c] = "up"
      /\ \A p \in DOMAIN ops : p \in OpId
  <2>1. o \in DOMAIN ops /\ Running(o) /\ ops[o].caller = c /\ st[c] = "up"
    BY <1>1, <1>3 DEF IInv, CallInv
  <2> QED BY <2>1, OpTypes DEF IInv
<1>5. PICK x : x = [t |-> k, id |-> o] OBVIOUS
<1>6. x \in Msg /\ x \notin Mail(t)
  <2>1. x \in Msg BY <1>4, <1>5 DEF Msg
  <2>2. x \notin Mail(t) BY <1>2, <1>4, <1>5 DEF IInv, RequestsMatchCount, EachEventOnce
  <2> QED BY <2>1, <2>2
<1>7. /\ ctrlq' \in [Core -> Seq(Msg)]
      /\ \A e \in Core : /\ ToSet(ctrlq'[e]) = ToSet(ctrlq[e]) \cup (IF e = t THEN {x} ELSE {})
                         /\ IsInjective(ctrlq'[e])
  <2>1. x \notin ToSet(ctrlq[t]) BY <1>6 DEF Mail
  <2>2. ctrlq' = [ctrlq EXCEPT ![t] = Append(@, x)] BY <1>2, <1>5
  <2> QED BY <1>6, <2>1, <2>2, SendEffect
<1>8. batch' = batch /\ ph' = ph BY <1>3 DEF pollVars
<1>9. \A d \in Core : \A y : y \in Mail(d)' <=> y \in Mail(d) \/ (d = t /\ y = x)
  BY <1>7, <1>8 DEF Mail
<1>10. TypeOK'
  <2>1. rwcnt' \in Int BY <1>3 DEF IInv, TypeOK
  <2> QED BY <1>2, <1>3, <1>7, <1>8, <2>1 DEF IInv, TypeOK, mapVars
<1>11. MapInv' BY <1>3, MapSame DEF IInv, mapVars
<1>12. DeleteInv' BY <1>3, DeleteSame DEF IInv
<1>13. CallInv'
  <2>1. \A p : Running(p)' <=> Running(p) BY <1>3 DEF Running
  <2>2. inprog[c] <=> Waits(ops[o]) BY <1>1, <1>3, <1>4 DEF IInv, CallInv
  <2>3. ASSUME NEW d \in Core
        PROVE  /\ call'[d].pc # "idle" => st[d] = "up" /\ call'[d].op \in DOMAIN ops
               /\ call'[d].pc = "send" => /\ Running(call'[d].op) /\ ops[call'[d].op].caller = d
                                          /\ call'[d].rem # {} \/ call'[d].add # {}
               /\ inprog[d] => /\ call'[d].pc # "idle" /\ Running(call'[d].op)
                               /\ Waits(ops[call'[d].op]) /\ ops[call'[d].op].caller = d
               /\ call'[d].pc = "wait" /\ ~inprog[d] => ops[call'[d].op].st = "done"
    <3>1. CASE d = c BY <1>2, <1>4, <2>2, <3>1
    <3>2. CASE d # c
      <4>1. call'[d] = call[d] BY <1>2, <3>2
      <4> QED BY <4>1 DEF IInv, CallInv
    <3> QED BY <3>1, <3>2
  <2>4. ASSUME NEW p \in DOMAIN ops, Running(p), Waits(ops[p])
        PROVE  inprog[ops[p].caller] /\ call'[ops[p].caller].op = p
    <3>1. inprog[ops[p].caller] /\ call[ops[p].caller].op = p BY <2>4 DEF IInv, CallInv
    <3>2. ops[p].caller \in Core BY OpTypes DEF IInv
    <3>3. CASE ops[p].caller = c
      <4>1. p = o BY <1>1, <3>1, <3>3
      <4> QED BY <1>2, <2>4, <3>1, <3>3, <4>1
    <3>4. CASE ops[p].caller # c BY <1>2, <3>1, <3>2, <3>4
    <3> QED BY <3>3, <3>4
  <2>5. UNCHANGED <<ops, inprog, st>> BY <1>3
  <2> QED BY <2>1, <2>3, <2>4, <2>5 DEF CallInv
<1>14. MailInv'
  <2>1. OpsAlike BY <1>3 DEF OpsAlike
  <2>2. \A d \in Core : ph'[d] = "out" => batch'[d] = <<>> BY <1>8 DEF IInv, MailInv
  <2>3. \A m \in ToSet(shared') : m.t = "DONE" /\ m.id \in DOMAIN ops /\ ~ops[m.id].sync
    BY <1>3 DEF IInv, MailInv
  <2>4. ASSUME NEW d \in Core, NEW m \in Mail(d)'
        PROVE  /\ m.t \in {"ADD", "REM", "DONE"} => m.id \in DOMAIN ops
               /\ m.t = "DONE" /\ ops[m.id].sync => ops[m.id].caller = d
               /\ m.t = "DONE" /\ m \in ToSet(ctrlq'[d]) => ops[m.id].sync
               /\ m.t = "TDONE" => m.id = d
    <3>1. CASE m = x BY <1>4, <1>5, <3>1
    <3>2. CASE m # x
      <4>1. m \in Mail(d) /\ (m \in ToSet(ctrlq'[d]) => m \in ToSet(ctrlq[d]))
        BY <1>7, <1>9, <2>4, <3>2
      <4> QED BY <4>1 DEF IInv, MailInv
    <3> QED BY <3>1, <3>2
  <2> QED BY <2>1, <2>2, <2>3, <2>4, MailAlike
<1>15. TermInv'
  <2>1. \A d \in Core, j \in {"TERM", "TDONE"} : \A i :
          [t |-> j, id |-> i] \in Mail(d)' <=> [t |-> j, id |-> i] \in Mail(d)
    <3> TAKE d \in Core, j \in {"TERM", "TDONE"}
    <3> TAKE i
    <3>1. [t |-> j, id |-> i] # x BY <1>5
    <3> QED BY <1>9, <3>1
  <2> QED BY <1>3, <2>1, TermMailSame DEF IInv, mapVars
<1>16. ASSUME NEW p \in DOMAIN ops
       PROVE  Open(p)' = Open(p) /\ (DoneSent(p)' <=> DoneSent(p))
  <2>1. ASSUME NEW j \in {"ADD", "REM"}, NEW d \in Core
        PROVE  <<j, d>> \in Open(p)' <=> <<j, d>> \in Open(p)
    <3>1. PICK y : y = [t |-> j, id |-> p] OBVIOUS
    <3>2. y = x <=> p = o /\ j = k BY <1>5, <3>1
    <3>3. /\ <<j, d>> \in Open(p) <=> Unsent(p, j, d) \/ y \in Mail(d)
          /\ <<j, d>> \in Open(p)' <=> Unsent(p, j, d)' \/ y \in Mail(d)'
      BY <3>1 DEF Open
    <3> QED BY <1>2, <1>9, <3>2, <3>3
  <2>2. Open(p)' = Open(p) BY <2>1 DEF Open
  <2>3. DoneEvent(p) # x BY <1>5 DEF DoneEvent
  <2>4. \A d \in Core : DoneEvent(p) \in Mail(d)' <=> DoneEvent(p) \in Mail(d) BY <1>9, <2>3
  <2>5. DoneSent(p)' <=> DoneSent(p) BY <1>3, <2>4 DEF DoneSent, DoneEvent
  <2> QED BY <2>2, <2>5
<1>17. EachEventOnce'
  <2>1. EachEventOnce BY DEF IInv, RequestsMatchCount
  <2>2. x \notin ToSet(shared) /\ \A p : DoneEvent(p) # x
    <3>1. \A m \in ToSet(shared) : m.t = "DONE" BY DEF IInv, MailInv
    <3> QED BY <1>5, <3>1 DEF DoneEvent
  <2>3. ASSUME NEW d \in Core
        PROVE  /\ IsInjective(ctrlq'[d]) /\ IsInjective(batch'[d])
               /\ ToSet(ctrlq'[d]) \cap ToSet(batch'[d]) = {}
               /\ ToSet(shared') \cap Mail(d)' = {}
    <3>1. /\ IsInjective(batch[d]) /\ ToSet(ctrlq[d]) \cap ToSet(batch[d]) = {}
          /\ ToSet(shared) \cap Mail(d) = {}
      BY <2>1 DEF EachEventOnce
    <3>2. x \notin ToSet(batch[t]) BY <1>6 DEF Mail
    <3> QED BY <1>3, <1>7, <1>8, <1>9, <2>2, <3>1, <3>2
  <2>4. \A d, e \in Core : \A p \in OpId : DoneEvent(p) \in Mail(d)' \cap Mail(e)' => d = e
    BY <1>9, <2>1, <2>2 DEF EachEventOnce
  <2>5. ASSUME NEW p \in OpId, NEW j \in {"ADD", "REM"}, NEW d \in Core, Unsent(p, j, d)'
        PROVE  [t |-> j, id |-> p] \notin Mail(d)'
    <3>1. p \in DOMAIN ops
      <4>1. PICK e \in Core : call'[e].pc = "send" /\ call'[e].op = p BY <2>5 DEF Unsent
      <4>2. call'[e].op \in DOMAIN ops' BY <1>13, <4>1 DEF CallInv
      <4> QED BY <1>3, <4>1, <4>2
    <3>2. Unsent(p, j, d) /\ ~(p = o /\ j = k /\ d = t) BY <1>2, <2>5, <3>1
    <3>3. [t |-> j, id |-> p] \notin Mail(d) BY <2>1, <3>2 DEF EachEventOnce
    <3>4. [t |-> j, id |-> p] = x => j = k /\ p = o BY <1>5
    <3> QED BY <1>9, <3>2, <3>3, <3>4
  <2>6. IsInjective(shared') BY <1>3, <2>1 DEF EachEventOnce
  <2> QED BY <2>3, <2>4, <2>5, <2>6 DEF EachEventOnce, DoneEvent
<1>18. RequestsMatchCount' BY <1>3, <1>16, <1>17 DEF IInv, RequestsMatchCount
<1> QED BY <1>10, <1>11, <1>12, <1>13, <1>14, <1>15, <1>18 DEF IInv

\* A call that returns.
LEMMA CallReturns ==
  ASSUME TypeOK, NEW c \in Core, call' = [call EXCEPT ![c] = NoCall]
  PROVE  /\ call' \in [Core -> [pc : {"idle", "send", "wait"}, op : 0 .. MaxOps,
                                rem : SUBSET Core, add : SUBSET Core]]
         /\ call'[c].pc = "idle" /\ \A d \in Core : d # c => call'[d] = call[d]
<1> DEFINE CallType == [pc : {"idle", "send", "wait"}, op : 0 .. MaxOps,
                        rem : SUBSET Core, add : SUBSET Core]
<1>1. NoCall \in CallType /\ NoCall.pc = "idle" BY Constants DEF NoCall
<1>2. call \in [Core -> CallType] BY DEF TypeOK
<1> HIDE DEF CallType
<1>3. call' \in [Core -> CallType] /\ call'[c] = NoCall /\ \A d \in Core : d # c => call'[d] = call[d]
  BY <1>1, <1>2
<1> QED BY <1>1, <1>3 DEF CallType

\* A synchronous modify or delete returns: it is done.
LEMMA SyncReturnStep ==
  ASSUME IInv, NEW c \in Core, SyncReturn(c)
  PROVE  IInv'
<1>1. /\ call[c].pc = "wait" /\ ~inprog[c] /\ call' = [call EXCEPT ![c] = NoCall]
      /\ UNCHANGED <<grp, ops, nops, inprog, rwcnt, mapVars, pollVars, ctrlq, shared, st>>
  BY DEF SyncReturn
<1>2. /\ call' \in [Core -> [pc : {"idle", "send", "wait"}, op : 0 .. MaxOps,
                             rem : SUBSET Core, add : SUBSET Core]]
      /\ call'[c].pc = "idle" /\ \A d \in Core : d # c => call'[d] = call[d]
  BY <1>1, CallReturns DEF IInv
<1>3. TypeOK' BY <1>1, <1>2 DEF IInv, TypeOK, mapVars, pollVars
<1>4. MapInv' BY <1>1, MapSame DEF IInv, mapVars
<1>5. DeleteInv' BY <1>1, DeleteSame DEF IInv
<1>6. CallInv'
  <2>1. \A p : Running(p)' <=> Running(p) BY <1>1 DEF Running
  <2>2. ASSUME NEW d \in Core
        PROVE  /\ call'[d].pc # "idle" => st[d] = "up" /\ call'[d].op \in DOMAIN ops
               /\ call'[d].pc = "send" => /\ Running(call'[d].op) /\ ops[call'[d].op].caller = d
                                          /\ call'[d].rem # {} \/ call'[d].add # {}
               /\ inprog[d] => /\ call'[d].pc # "idle" /\ Running(call'[d].op)
                               /\ Waits(ops[call'[d].op]) /\ ops[call'[d].op].caller = d
               /\ call'[d].pc = "wait" /\ ~inprog[d] => ops[call'[d].op].st = "done"
    <3>1. CASE d = c BY <1>1, <1>2, <3>1
    <3>2. CASE d # c
      <4>1. call'[d] = call[d] BY <1>2, <3>2
      <4> QED BY <4>1 DEF IInv, CallInv
    <3> QED BY <3>1, <3>2
  <2>3. ASSUME NEW p \in DOMAIN ops, Running(p), Waits(ops[p])
        PROVE  inprog[ops[p].caller] /\ call'[ops[p].caller].op = p
    <3>1. inprog[ops[p].caller] /\ call[ops[p].caller].op = p BY <2>3 DEF IInv, CallInv
    <3>2. ops[p].caller \in Core BY OpTypes DEF IInv
    <3> QED BY <1>1, <1>2, <3>1, <3>2
  <2>4. UNCHANGED <<ops, inprog, st>> BY <1>1
  <2> QED BY <2>1, <2>2, <2>3, <2>4 DEF CallInv
<1>7. \A p, j, d : Unsent(p, j, d)' <=> Unsent(p, j, d)
  <2>1. \A d \in Core : call'[d].pc = "send" <=> call[d].pc = "send" BY <1>1, <1>2
  <2>2. \A d \in Core : call[d].pc = "send" => call'[d] = call[d] BY <1>1, <1>2
  <2> QED BY <2>1, <2>2 DEF Unsent
<1>8. UNCHANGED <<ctrlq, batch, shared, ph, ops>> BY <1>1 DEF pollVars
<1>9. MailInv'
  <2>1. \A d \in Core : ph'[d] = "out" => batch[d] = <<>> BY <1>8 DEF IInv, MailInv
  <2> QED BY <1>8, <2>1, MailSame DEF IInv
<1>10. \A d \in Core : Mail(d)' = Mail(d) BY <1>8 DEF Mail
<1>11. TermInv' BY <1>1, <1>10, TermSame DEF IInv, mapVars
<1>12. RequestsMatchCount'
  <2>1. \A p : Open(p)' = Open(p) BY <1>7, <1>10 DEF Open
  <2>2. \A p : DoneSent(p)' <=> DoneSent(p) BY <1>8, <1>10 DEF DoneSent, DoneEvent
  <2>3. EachEventOnce'
    BY <1>7, <1>8, <1>10 DEF IInv, EachEventOnce, RequestsMatchCount, DoneEvent
  <2> QED BY <1>8, <2>1, <2>2, <2>3 DEF IInv, RequestsMatchCount
<1> QED BY <1>3, <1>4, <1>5, <1>6, <1>9, <1>11, <1>12 DEF IInv

\* err_free_resources: an allocation or a send failed, and the event group of
\* the operation is aborted.  Its requests that were sent no longer count.
LEMMA SendFailStep ==
  ASSUME IInv, NEW c \in Core, SendFail(c)
  PROVE  IInv'
<1>1. PICK o : o = call[c].op OBVIOUS
<1>2. /\ call[c].pc = "send" /\ ops' = [ops EXCEPT ![o].st = "aborted"]
      /\ call' = [call EXCEPT ![c] = NoCall]
      /\ \/ Waits(ops[o]) /\ rwcnt' = rwcnt - 2 /\ inprog' = [inprog EXCEPT ![c] = FALSE]
         \/ ~Waits(ops[o]) /\ rwcnt' = rwcnt - 1 /\ inprog' = inprog
      /\ UNCHANGED <<grp, nops, mapVars, pollVars, ctrlq, shared, st>>
  BY <1>1 DEF SendFail
<1>3. /\ o \in DOMAIN ops /\ Running(o) /\ ops[o].caller = c
      /\ call[c].rem # {} \/ call[c].add # {}
      /\ inprog[c] => Waits(ops[o])
  BY <1>1, <1>2 DEF IInv, CallInv
<1>4. /\ call' \in [Core -> [pc : {"idle", "send", "wait"}, op : 0 .. MaxOps,
                             rem : SUBSET Core, add : SUBSET Core]]
      /\ call'[c].pc = "idle" /\ \A d \in Core : d # c => call'[d] = call[d]
  BY <1>2, CallReturns DEF IInv
<1>5. /\ inprog' \in [Core -> BOOLEAN] /\ ~inprog'[c]
      /\ \A d \in Core : d # c => inprog'[d] = inprog[d]
  <2>1. inprog \in [Core -> BOOLEAN] BY DEF IInv, TypeOK
  <2> QED BY <1>2, <1>3, <2>1
<1>6. /\ ops' \in Seq(Operation) /\ DOMAIN ops' = DOMAIN ops /\ Len(ops') = Len(ops)
      /\ ops'[o].st = "aborted" /\ ops'[o].sync = ops[o].sync /\ ops'[o].caller = ops[o].caller
      /\ \A p \in DOMAIN ops : p # o => ops'[p] = ops[p]
  <2>1. ops[o] \in Operation /\ ops \in Seq(Operation) BY <1>3, OpTypes DEF IInv, TypeOK
  <2>2. PICK w : w = [ops[o] EXCEPT !.st = "aborted"] OBVIOUS
  <2>3. w \in Operation /\ w.st = "aborted" /\ w.sync = ops[o].sync /\ w.caller = ops[o].caller
    BY <2>1, <2>2 DEF Operation
  <2>4. ops' = [ops EXCEPT ![o] = w] BY <1>2, <2>2
  <2>5. o \in 1..Len(ops) BY <1>3, <2>1, LenProperties
  <2>6. ops' \in Seq(Operation) /\ Len(ops') = Len(ops) BY <2>1, <2>3, <2>4, <2>5, ExceptSeq
  <2> QED BY <1>3, <2>1, <2>3, <2>4, <2>6, LenProperties
<1>7. TypeOK'
  <2>1. rwcnt' \in Int BY <1>2 DEF IInv, TypeOK
  <2> QED BY <1>2, <1>4, <1>5, <1>6, <2>1 DEF IInv, TypeOK, mapVars, pollVars
<1>8. MapInv' BY <1>2, MapSame DEF IInv, mapVars
<1>9. \A p : Running(p)' <=> Running(p) /\ p # o BY <1>6 DEF Running
<1>10. DeleteInv'
  <2>1. \A p \in DOMAIN ops : Running(p)' => Running(p) /\ ops'[p] = ops[p] BY <1>6, <1>9
  <2>2. DOMAIN ops' = DOMAIN ops /\ grp' = grp BY <1>2, <1>6
  <2> QED BY <2>1, <2>2 DEF IInv, DeleteInv
<1>11. CallInv'
  <2>1. ASSUME NEW d \in Core, d # c, call[d].pc # "idle" PROVE call[d].op # o
    <3> SUFFICES ASSUME call[d].op = o PROVE FALSE OBVIOUS
    <3>1. call[d].pc \in {"send", "wait"} BY <2>1 DEF IInv, TypeOK
    <3>2. CASE call[d].pc = "send" BY <1>3, <2>1, <3>2 DEF IInv, CallInv
    <3>3. CASE call[d].pc = "wait" /\ inprog[d] BY <1>3, <2>1, <3>3 DEF IInv, CallInv
    <3>4. CASE call[d].pc = "wait" /\ ~inprog[d] BY <1>3, <3>4 DEF IInv, CallInv, Running
    <3> QED BY <3>1, <3>2, <3>3, <3>4
  <2>2. ASSUME NEW d \in Core
        PROVE  /\ call'[d].pc # "idle" => st[d] = "up" /\ call'[d].op \in DOMAIN ops'
               /\ call'[d].pc = "send" => /\ Running(call[d].op)' /\ ops'[call'[d].op].caller = d
                                          /\ call'[d].rem # {} \/ call'[d].add # {}
               /\ inprog'[d] => /\ call'[d].pc # "idle" /\ Running(call[d].op)'
                                /\ Waits(ops'[call'[d].op]) /\ ops'[call'[d].op].caller = d
               /\ call'[d].pc = "wait" /\ ~inprog'[d] => ops'[call'[d].op].st = "done"
    <3>1. CASE d = c BY <1>4, <1>5, <3>1
    <3>2. CASE d # c
      <4>1. PICK k : k = call[d] OBVIOUS
      <4>2. call'[d] = k /\ inprog'[d] = inprog[d] BY <1>4, <1>5, <3>2, <4>1
      <4>3. /\ k.pc # "idle" => st[d] = "up" /\ k.op \in DOMAIN ops
            /\ k.pc = "send" => Running(k.op) /\ ops[k.op].caller = d /\ (k.rem # {} \/ k.add # {})
            /\ inprog[d] => k.pc # "idle" /\ Running(k.op) /\ Waits(ops[k.op]) /\ ops[k.op].caller = d
            /\ k.pc = "wait" /\ ~inprog[d] => ops[k.op].st = "done"
        BY <4>1 DEF IInv, CallInv
      <4>4. k.pc # "idle" => ops'[k.op] = ops[k.op] /\ k.op # o BY <1>6, <2>1, <3>2, <4>1, <4>3
      <4>5. Running(call[d].op)' <=> Running(k.op) /\ k.op # o BY <1>3, <1>6, <4>2 DEF Running
      <4> QED BY <1>6, <4>2, <4>3, <4>4, <4>5
    <3> QED BY <3>1, <3>2
  <2>3. ASSUME NEW p \in DOMAIN ops', Running(p)', Waits(ops'[p])
        PROVE  inprog'[ops'[p].caller] /\ call'[ops'[p].caller].op = p
    <3>1. p \in DOMAIN ops /\ Running(p) /\ p # o /\ ops'[p] = ops[p] BY <1>6, <1>9, <2>3
    <3>2. inprog[ops[p].caller] /\ call[ops[p].caller].op = p BY <2>3, <3>1 DEF IInv, CallInv
    <3>3. ops[p].caller \in Core BY <3>1, OpTypes DEF IInv
    <3> QED BY <1>1, <1>4, <1>5, <3>1, <3>2, <3>3
  <2>4. st' = st BY <1>2
  <2> QED BY <2>2, <2>3, <2>4 DEF CallInv
<1>12. UNCHANGED <<ctrlq, batch, shared, ph>> BY <1>2 DEF pollVars
<1>13. \A d \in Core : Mail(d)' = Mail(d) BY <1>12 DEF Mail
<1>14. MailInv'
  <2>1. \A p \in DOMAIN ops : ops'[p].sync = ops[p].sync /\ ops'[p].caller = ops[p].caller BY <1>6
  <2> QED BY <1>6, <1>12, <1>13, <2>1 DEF IInv, MailInv
<1>15. TermInv' BY <1>2, <1>13, TermSame DEF IInv, mapVars
<1>16. \A p, j, d : Unsent(p, j, d)' <=> Unsent(p, j, d) /\ p # o
  <2>1. ASSUME NEW e \in Core, call[e].pc = "send", call[e].op = o PROVE e = c
    BY <1>3, <2>1 DEF IInv, CallInv
  <2>2. ASSUME NEW e \in Core
        PROVE  /\ call'[e].pc = "send" => e # c /\ call[e] = call'[e]
               /\ e # c => call'[e] = call[e]
    BY <1>4
  <2> QED BY <1>1, <2>1, <2>2 DEF Unsent
<1>17. RequestsMatchCount'
  <2>1. EachEventOnce'
    BY <1>12, <1>13, <1>16 DEF IInv, EachEventOnce, RequestsMatchCount, DoneEvent
  <2>2. \A p : DoneSent(p)' <=> DoneSent(p) BY <1>12, <1>13 DEF DoneSent, DoneEvent
  <2>3. ~DoneSent(o)
    <3>1. ops[o].left = Cardinality(Open(o)) /\ (DoneSent(o) <=> ops[o].left = 0)
      BY <1>3 DEF IInv, RequestsMatchCount, Running
    <3>2. call[c].rem \subseteq Core /\ call[c].add \subseteq Core BY OpTypes DEF IInv
    <3>3. PICK k \in {"ADD", "REM"}, e \in Core : e \in (IF k = "REM" THEN call[c].rem ELSE call[c].add)
      BY <1>3, <3>2
    <3>4. <<k, e>> \in Open(o) BY <1>1, <1>2, <3>3 DEF Unsent, Open
    <3>5. Cardinality(Open(o)) # 0 BY <3>4, OpenFinite, FS_EmptySet
    <3> QED BY <3>1, <3>5
  <2>4. ASSUME NEW p \in DOMAIN ops, p # o
        PROVE  /\ ops'[p].st = "run" => ops'[p].left = Cardinality(Open(p)')
               /\ DoneSent(p)' <=> ops'[p].st = "run" /\ ops'[p].left = 0
    <3>1. Open(p)' = Open(p) BY <1>13, <1>16, <2>4 DEF Open
    <3>2. ops'[p] = ops[p] BY <1>6, <2>4
    <3>3. /\ ops[p].st = "run" => ops[p].left = Cardinality(Open(p))
          /\ DoneSent(p) <=> ops[p].st = "run" /\ ops[p].left = 0
      BY DEF IInv, RequestsMatchCount
    <3> QED BY <2>2, <3>1, <3>2, <3>3
  <2> QED BY <1>6, <2>1, <2>2, <2>3, <2>4 DEF RequestsMatchCount
<1> QED BY <1>7, <1>8, <1>10, <1>11, <1>14, <1>15, <1>17 DEF IInv

-----------------------------------------------------------------------------
(* Life cycle of a thread. *)

\* A step in the life of a thread that neither sends nor handles an event.
LEMMA LifeSame ==
  ASSUME IInv, UNCHANGED <<ops, call, ctrlq, batch, shared, ph>>
  PROVE  /\ MailInv' /\ RequestsMatchCount'
         /\ \A d \in Core : TermAt(d)' = TermAt(d) /\ TermOf(d)' = TermOf(d) /\ Mail(d)' = Mail(d)
<1>1. \A d \in Core : ph'[d] = "out" => batch[d] = <<>> BY DEF IInv, MailInv
<1>2. MailInv' BY <1>1, MailSame DEF IInv
<1>3. RequestsMatchCount' BY CountSame DEF IInv
<1>4. \A d \in Core : Mail(d)' = Mail(d) BY DEF Mail
<1>5. \A d \in Core : TermAt(d)' = TermAt(d) /\ TermOf(d)' = TermOf(d) BY <1>4 DEF TermAt, TermOf
<1> QED BY <1>2, <1>3, <1>4, <1>5

\* A thread that is in no queue group call starts or ends a part of its life.
LEMMA CallLife ==
  ASSUME TypeOK, CallInv, NEW c \in Core, call[c].pc = "idle", UNCHANGED <<ops, call>>,
         \A d \in Core : d # c => st'[d] = st[d] /\ inprog'[d] = inprog[d],
         inprog'[c] => inprog[c]
  PROVE  CallInv'
<1>1. \A p : Running(p)' <=> Running(p) BY DEF Running
<1>2. ~inprog[c] BY DEF CallInv
<1>3. ASSUME NEW d \in Core
      PROVE  /\ call[d].pc # "idle" => st'[d] = "up" /\ call[d].op \in DOMAIN ops
             /\ call[d].pc = "send" => /\ Running(call[d].op) /\ ops[call[d].op].caller = d
                                       /\ call[d].rem # {} \/ call[d].add # {}
             /\ inprog'[d] => /\ call[d].pc # "idle" /\ Running(call[d].op)
                              /\ Waits(ops[call[d].op]) /\ ops[call[d].op].caller = d
             /\ call[d].pc = "wait" /\ ~inprog'[d] => ops[call[d].op].st = "done"
  <2>1. CASE d = c BY <1>2, <2>1
  <2>2. CASE d # c
    <3>1. st'[d] = st[d] /\ inprog'[d] = inprog[d] BY <2>2
    <3> QED BY <3>1 DEF CallInv
  <2> QED BY <2>1, <2>2
<1>4. ASSUME NEW p \in DOMAIN ops, Running(p), Waits(ops[p])
      PROVE  inprog'[ops[p].caller] /\ call[ops[p].caller].op = p
  <2>1. inprog[ops[p].caller] /\ call[ops[p].caller].op = p BY <1>4 DEF CallInv
  <2>2. ops[p].caller \in Core BY OpTypes
  <2> QED BY <1>2, <2>1, <2>2
<1> QED BY <1>1, <1>3, <1>4 DEF CallInv

\* The polling loop of term_core() ends: the core starts to leave its groups.
LEMMA TermPolledStep ==
  ASSUME IInv, NEW c \in Core, TermPolled(c)
  PROVE  IInv'
<1>1. /\ st[c] = "term" /\ tdone[c] /\ st' = [st EXCEPT ![c] = "leave"]
      /\ todo' = [todo EXCEPT ![c] = Group]
      /\ UNCHANGED <<opVars, logic, odpThr, tleft, treqs, tdone, nterms, pollVars,
                     rwcnt, ctrlq, shared>>
  BY DEF TermPolled, TermLoopDone
<1>2. TypeOK' BY <1>1 DEF IInv, TypeOK, opVars, pollVars
<1>3. /\ \A d \in Core : d # c => st'[d] = st[d] /\ todo'[d] = todo[d]
      /\ st'[c] = "leave" /\ todo'[c] = Group
  BY <1>1 DEF IInv, TypeOK
<1>4. MapInv'
  <2>1. UNCHANGED <<grp, logic, odpThr>> BY <1>1 DEF opVars
  <2>2. \A d \in Core : st'[d] \in {"init", "up"} <=> st[d] \in {"init", "up"} BY <1>1, <1>3
  <2>3. \A g \in Group : \A d \in grp[g].mask : d \in Core BY DEF IInv, TypeOK, Element
  <2>4. \A g \in Group : \A d \in grp[g].mask :
          st'[d] \in {"init", "up", "term"} \/ (st'[d] = "leave" /\ g \in todo'[d])
    BY <1>3, <2>3 DEF IInv, MapInv
  <2> QED BY <2>1, <2>2, <2>4 DEF IInv, MapInv
<1>5. DeleteInv' BY <1>1, DeleteSame DEF IInv, opVars
<1>6. call[c].pc = "idle" BY <1>1 DEF IInv, CallInv
<1>7. CallInv' BY <1>1, <1>3, <1>6, CallLife DEF IInv, opVars
<1>8. /\ MailInv' /\ RequestsMatchCount'
      /\ \A d \in Core : TermAt(d)' = TermAt(d) /\ TermOf(d)' = TermOf(d) /\ Mail(d)' = Mail(d)
  BY <1>1, LifeSame DEF opVars, pollVars
<1>9. TermInv'
  <2>1. UNCHANGED <<tleft, treqs, tdone>> BY <1>1
  <2> QED BY <1>1, <1>3, <1>8, <2>1 DEF IInv, TermInv
<1> QED BY <1>2, <1>4, <1>5, <1>7, <1>8, <1>9 DEF IInv

\* The termination of an external thread ends.
LEMMA TermExtPolledStep ==
  ASSUME IInv, NEW c \in Core, TermExtPolled(c)
  PROVE  IInv'
<1>1. /\ st[c] = "extterm" /\ tdone[c] /\ st' = [st EXCEPT ![c] = "down"]
      /\ UNCHANGED <<opVars, mapVars, pollVars, rwcnt, ctrlq, shared>>
  BY DEF TermExtPolled
<1>2. TypeOK' BY <1>1 DEF IInv, TypeOK, opVars, mapVars, pollVars
<1>3. (\A d \in Core : d # c => st'[d] = st[d]) /\ st'[c] = "down" BY <1>1 DEF IInv, TypeOK
<1>4. MapInv'
  <2>1. UNCHANGED <<grp, logic, odpThr, todo>> BY <1>1 DEF opVars, mapVars
  <2>2. \A d \in Core : st'[d] \in {"init", "up"} <=> st[d] \in {"init", "up"} BY <1>1, <1>3
  <2>3. \A g \in Group : \A d \in grp[g].mask : d \in Core BY DEF IInv, TypeOK, Element
  <2>4. \A g \in Group : \A d \in grp[g].mask :
          st'[d] \in {"init", "up", "term"} \/ (st'[d] = "leave" /\ g \in todo[d])
    BY <1>1, <1>3, <2>3 DEF IInv, MapInv
  <2> QED BY <2>1, <2>2, <2>4 DEF IInv, MapInv
<1>5. DeleteInv' BY <1>1, DeleteSame DEF IInv, opVars
<1>6. call[c].pc = "idle" BY <1>1 DEF IInv, CallInv
<1>7. CallInv' BY <1>1, <1>3, <1>6, CallLife DEF IInv, opVars
<1>8. /\ MailInv' /\ RequestsMatchCount'
      /\ \A d \in Core : TermAt(d)' = TermAt(d) /\ TermOf(d)' = TermOf(d) /\ Mail(d)' = Mail(d)
  BY <1>1, LifeSame DEF opVars, pollVars
<1>9. TermInv'
  <2>1. UNCHANGED <<tleft, treqs, tdone>> BY <1>1 DEF mapVars
  <2> QED BY <1>1, <1>3, <1>8, <2>1 DEF IInv, TermInv
<1> QED BY <1>2, <1>4, <1>5, <1>7, <1>8, <1>9 DEF IInv

\* queue_group_leave_all() for one group: the core is not in the mask of a group
\* it has visited.
LEMMA LeaveGroupStep ==
  ASSUME IInv, NEW c \in Core, NEW g \in Group, LeaveGroup(c, g)
  PROVE  IInv'
<1>1. /\ st[c] = "leave" /\ g \in todo[c]
      /\ grp' = [grp EXCEPT ![g] = IF grp[g].alloc /\ ~grp[g].del /\ c \in grp[g].mask
                                   THEN LeavesMask(grp[g], c) ELSE grp[g]]
      /\ todo' = [todo EXCEPT ![c] = @ \ {g}]
      /\ st' = [st EXCEPT ![c] = IF todo'[c] = {} THEN "down" ELSE @]
      /\ UNCHANGED <<ops, nops, call, inprog, logic, odpThr, tleft, treqs, tdone,
                     nterms, pollVars, rwcnt, ctrlq, shared>>
  BY DEF LeaveGroup
<1>2. grp[g] \in Element /\ \A h \in Group : grp[h] \in Element BY OpTypes DEF IInv
<1>3. /\ LeavesMask(grp[g], c) \in Element /\ LeavesMask(grp[g], c).mask = grp[g].mask \ {c}
      /\ LeavesMask(grp[g], c).alloc = grp[g].alloc /\ LeavesMask(grp[g], c).del = grp[g].del
  <2>1. LeavesMask(grp[g], c) \in Element BY <1>2, ElementTypes
  <2> QED BY <1>2, <2>1 DEF LeavesMask, Leaves, Element
<1>4. /\ grp' \in [Group -> Element] /\ \A h \in Group : h # g => grp'[h] = grp[h]
      /\ grp'[g] \in {grp[g], LeavesMask(grp[g], c)}
      /\ grp[g].alloc /\ ~grp[g].del /\ c \in grp[g].mask => grp'[g] = LeavesMask(grp[g], c)
  <2>1. grp \in [Group -> Element] BY DEF IInv, TypeOK
  <2> QED BY <1>1, <1>2, <1>3, <2>1
<1>5. \A h \in Group : /\ grp'[h].alloc = grp[h].alloc /\ grp'[h].del = grp[h].del
                       /\ grp'[h].mask \subseteq grp[h].mask
  BY <1>3, <1>4
<1>6. c \notin grp'[g].mask
  <2>1. ~grp[g].alloc \/ grp[g].del => grp[g].mask = {} BY DEF IInv, MapInv
  <2> QED BY <1>3, <1>4, <2>1
<1>7. /\ todo' \in [Core -> SUBSET Group] /\ todo'[c] = todo[c] \ {g}
      /\ \A d \in Core : d # c => todo'[d] = todo[d]
  BY <1>1 DEF IInv, TypeOK
<1>8. /\ st' \in [Core -> {"init", "up", "term", "leave", "down", "ext", "extterm"}]
      /\ \A d \in Core : d # c => st'[d] = st[d]
      /\ st'[c] = IF todo'[c] = {} THEN "down" ELSE "leave"
  <2>1. st \in [Core -> {"init", "up", "term", "leave", "down", "ext", "extterm"}]
    BY DEF IInv, TypeOK
  <2>2. PICK s \in {"leave", "down"} : s = IF todo'[c] = {} THEN "down" ELSE "leave" OBVIOUS
  <2>3. st' = [st EXCEPT ![c] = s] BY <1>1, <2>2
  <2> QED BY <2>1, <2>2, <2>3
<1>9. TypeOK' BY <1>1, <1>4, <1>7, <1>8 DEF IInv, TypeOK, pollVars
<1>10. MapInv'
  <2>1. UNCHANGED <<logic, odpThr>> BY <1>1
  <2>2. \A d \in Core : st'[d] \in {"init", "up"} <=> st[d] \in {"init", "up"} BY <1>1, <1>8
  <2>3. ASSUME NEW h \in Group, NEW d \in grp'[h].mask
        PROVE  st'[d] \in {"init", "up", "term"} \/ (st'[d] = "leave" /\ h \in todo'[d])
    <3>1. d \in grp[h].mask /\ d \in Core BY <1>2, <1>5, <2>3 DEF Element
    <3>2. st[d] \in {"init", "up", "term"} \/ (st[d] = "leave" /\ h \in todo[d])
      BY <3>1 DEF IInv, MapInv
    <3>3. CASE d # c BY <1>7, <1>8, <3>1, <3>2, <3>3
    <3>4. CASE d = c
      <4>1. h # g /\ h \in todo[c] BY <1>1, <1>6, <2>3, <3>2, <3>4
      <4>2. h \in todo'[c] BY <1>7, <4>1
      <4> QED BY <1>8, <3>4, <4>2
    <3> QED BY <3>3, <3>4
  <2>4. \A h \in Group : ~grp'[h].alloc \/ grp'[h].del => grp'[h].mask = {}
    <3> TAKE h \in Group
    <3>1. ~grp[h].alloc \/ grp[h].del => grp[h].mask = {} BY DEF IInv, MapInv
    <3> QED BY <1>5, <3>1
  <2> QED BY <1>5, <2>1, <2>2, <2>3, <2>4 DEF IInv, MapInv
<1>11. DeleteInv'
  <2>1. OpsAlike BY <1>1 DEF OpsAlike
  <2> QED BY <1>5, <2>1, DeleteAlike DEF IInv
<1>12. call[c].pc = "idle" BY <1>1 DEF IInv, CallInv
<1>13. CallInv' BY <1>1, <1>8, <1>12, CallLife DEF IInv
<1>14. /\ MailInv' /\ RequestsMatchCount'
       /\ \A d \in Core : TermAt(d)' = TermAt(d) /\ TermOf(d)' = TermOf(d) /\ Mail(d)' = Mail(d)
  BY <1>1, LifeSame DEF pollVars
<1>15. TermInv'
  <2>1. UNCHANGED <<tleft, treqs, tdone>> BY <1>1
  <2>2. ~(tleft[c] > 0) /\ [t |-> "TDONE", id |-> c] \notin Mail(c)
    BY <1>1 DEF IInv, TermInv
  <2>3. \A d \in Core : d # c => st'[d] = st[d] BY <1>8
  <2>4. \A d \in Core : tleft[d] > 0 => d # c BY <2>2
  <2>5. \A d \in Core : [t |-> "TDONE", id |-> d] \in Mail(d) => d # c BY <2>2
  <2> QED BY <1>14, <2>1, <2>3, <2>4, <2>5 DEF IInv, TermInv
<1> QED BY <1>9, <1>10, <1>11, <1>13, <1>14, <1>15 DEF IInv

\* core_map_init_local() and init_extthr(): a thread starts, with core-local
\* memory of its own.
LEMMA InitStep ==
  ASSUME IInv, NEW c \in Core, InitCore(c) \/ InitExt(c)
  PROVE  IInv'
<1>1. PICK s \in {"init", "ext"} :
        /\ st' = [st EXCEPT ![c] = s]
        /\ \/ s = "init" /\ logic' = logic \cup {c} /\ odpThr' = [odpThr EXCEPT ![c] = c]
           \/ s = "ext" /\ UNCHANGED <<logic, odpThr>>
  BY DEF InitCore, InitExt
<1>2. /\ st[c] = "down" /\ tdone' = [tdone EXCEPT ![c] = FALSE]
      /\ inprog' = [inprog EXCEPT ![c] = FALSE]
      /\ UNCHANGED <<grp, ops, nops, call, tleft, treqs, todo, pollVars, rwcnt, ctrlq, shared>>
  BY DEF InitCore, InitExt
<1>3. nterms' \in 0..MaxTerms
  <2>1. nterms \in 0..MaxTerms /\ MaxTerms \in Nat BY Constants DEF IInv, TypeOK
  <2>2. nterms' = nterms \/ (nterms < MaxTerms /\ nterms' = nterms + 1) BY DEF InitCore, InitExt
  <2> QED BY <2>1, <2>2
<1>4. /\ \A d \in Core : d # c => st'[d] = st[d] /\ inprog'[d] = inprog[d] /\ tdone'[d] = tdone[d]
      /\ st'[c] = s /\ ~inprog'[c] /\ ~tdone'[c]
  BY <1>1, <1>2 DEF IInv, TypeOK
<1>5. TypeOK'
  <2>1. logic' \subseteq Core /\ odpThr' \in [Core -> Core]
    <3>1. logic \subseteq Core /\ odpThr \in [Core -> Core] BY DEF IInv, TypeOK
    <3>2. CASE logic' = logic \cup {c} /\ odpThr' = [odpThr EXCEPT ![c] = c] BY <3>1, <3>2
    <3>3. CASE UNCHANGED <<logic, odpThr>> BY <3>1, <3>3
    <3> QED BY <1>1, <3>2, <3>3
  <2>2. st' \in [Core -> {"init", "up", "term", "leave", "down", "ext", "extterm"}]
    BY <1>1 DEF IInv, TypeOK
  <2>3. tdone' \in [Core -> BOOLEAN] /\ inprog' \in [Core -> BOOLEAN] BY <1>2 DEF IInv, TypeOK
  <2> QED BY <1>2, <1>3, <2>1, <2>2, <2>3 DEF IInv, TypeOK, pollVars
<1>6. MapInv'
  <2>1. \A d \in Core : d \in logic' <=> d \in logic \/ (d = c /\ s = "init") BY <1>1
  <2>2. c \notin logic BY <1>2 DEF IInv, MapInv
  <2>3. \A d \in Core : d \in logic' <=> st'[d] \in {"init", "up"}
    BY <1>4, <2>1, <2>2 DEF IInv, MapInv
  <2>4. \A d \in logic' : odpThr'[d] = d
    <3>1. odpThr \in [Core -> Core] /\ logic \subseteq Core BY DEF IInv, TypeOK
    <3>2. \A d \in logic : odpThr[d] = d BY DEF IInv, MapInv
    <3> QED BY <1>1, <3>1, <3>2
  <2>5. \A g \in Group : \A d \in grp[g].mask : d \in Core BY DEF IInv, TypeOK, Element
  <2>6. ASSUME NEW g \in Group, NEW d \in grp[g].mask
        PROVE  st'[d] \in {"init", "up", "term"} \/ (st'[d] = "leave" /\ g \in todo[d])
    <3>1. st[d] \in {"init", "up", "term"} \/ (st[d] = "leave" /\ g \in todo[d])
      BY DEF IInv, MapInv
    <3> QED BY <1>2, <1>4, <2>5, <3>1
  <2>7. UNCHANGED <<grp, todo>> BY <1>2
  <2> QED BY <2>3, <2>4, <2>6, <2>7 DEF IInv, MapInv
<1>7. DeleteInv' BY <1>2, DeleteSame DEF IInv
<1>8. call[c].pc = "idle" BY <1>2 DEF IInv, CallInv
<1>9. CallInv' BY <1>2, <1>4, <1>8, CallLife DEF IInv
<1>10. /\ MailInv' /\ RequestsMatchCount'
       /\ \A d \in Core : TermAt(d)' = TermAt(d) /\ TermOf(d)' = TermOf(d) /\ Mail(d)' = Mail(d)
  BY <1>2, LifeSame DEF pollVars
<1>11. TermInv'
  <2>1. UNCHANGED <<tleft, treqs>> BY <1>2
  <2>2. ~(tleft[c] > 0) /\ [t |-> "TDONE", id |-> c] \notin Mail(c)
    BY <1>2 DEF IInv, TermInv
  <2>3. \A d \in Core : tleft[d] > 0 => d # c BY <2>2
  <2>4. \A d \in Core : [t |-> "TDONE", id |-> d] \in Mail(d) => d # c BY <2>2
  <2> QED BY <1>4, <1>10, <2>1, <2>3, <2>4 DEF IInv, TermInv
<1> QED BY <1>3, <1>5, <1>6, <1>7, <1>9, <1>10, <1>11 DEF IInv

\* queue_group_init_local(): the core joins the default group and its own one.
LEMMA JoinGroupsStep ==
  ASSUME IInv, NEW c \in Core, JoinGroups(c)
  PROVE  IInv'
<1>1. /\ st[c] = "init" /\ st' = [st EXCEPT ![c] = "up"]
      /\ grp' = [g \in Group |->
                   IF g = Default THEN JoinsMask(grp[g], c)
                   ELSE IF CoreGroups /\ g = CoreGroup[c] THEN Joins(grp[g], c)
                   ELSE grp[g]]
      /\ UNCHANGED <<ops, nops, call, inprog, mapVars, pollVars, rwcnt, ctrlq, shared>>
  BY DEF JoinGroups
<1>2. \A g \in Group : grp[g] \in Element BY OpTypes DEF IInv
<1>3. ASSUME NEW e \in Element
      PROVE  /\ JoinsMask(e, c) \in Element /\ JoinsMask(e, c).mask = e.mask \cup {c}
             /\ JoinsMask(e, c).alloc = e.alloc /\ JoinsMask(e, c).del = e.del
             /\ Joins(e, c) \in Element /\ Joins(e, c).mask = e.mask
             /\ Joins(e, c).alloc = e.alloc /\ Joins(e, c).del = e.del
  <2>1. JoinsMask(e, c) \in Element /\ Joins(e, c) \in Element BY ElementTypes
  <2> QED BY <2>1 DEF JoinsMask, Joins, Element
<1>4. \A g \in Group : grp'[g] = IF g = Default THEN JoinsMask(grp[g], c)
                                 ELSE IF CoreGroups /\ g = CoreGroup[c] THEN Joins(grp[g], c)
                                 ELSE grp[g]
  BY <1>1
<1>5. ASSUME NEW g \in Group
      PROVE  /\ grp'[g] \in Element /\ grp'[g].alloc = grp[g].alloc /\ grp'[g].del = grp[g].del
             /\ grp'[g].mask = IF g = Default THEN grp[g].mask \cup {c} ELSE grp[g].mask
  <2>1. grp'[g] = IF g = Default THEN JoinsMask(grp[g], c)
                  ELSE IF CoreGroups /\ g = CoreGroup[c] THEN Joins(grp[g], c) ELSE grp[g]
    BY <1>4
  <2>2. CASE g = Default BY <1>2, <1>3, <2>1, <2>2
  <2>3. CASE g # Default /\ CoreGroups /\ g = CoreGroup[c] BY <1>2, <1>3, <2>1, <2>3
  <2>4. CASE g # Default /\ ~(CoreGroups /\ g = CoreGroup[c]) BY <1>2, <2>1, <2>4
  <2> QED BY <2>2, <2>3, <2>4
<1>6. (\A d \in Core : d # c => st'[d] = st[d]) /\ st'[c] = "up" BY <1>1 DEF IInv, TypeOK
<1>7. TypeOK'
  <2>1. grp' \in [Group -> Element]
    <3>1. grp' = [g \in Group |-> grp'[g]] BY <1>1
    <3> QED BY <1>5, <3>1
  <2>2. st' \in [Core -> {"init", "up", "term", "leave", "down", "ext", "extterm"}]
    BY <1>1 DEF IInv, TypeOK
  <2> QED BY <1>1, <2>1, <2>2 DEF IInv, TypeOK, mapVars, pollVars
<1>8. MapInv'
  <2>1. UNCHANGED <<logic, odpThr, todo>> BY <1>1 DEF mapVars
  <2>2. \A d \in Core : st'[d] \in {"init", "up"} <=> st[d] \in {"init", "up"} BY <1>1, <1>6
  <2>3. ASSUME NEW g \in Group, NEW d \in grp'[g].mask
        PROVE  st'[d] \in {"init", "up", "term"} \/ (st'[d] = "leave" /\ g \in todo[d])
    <3>1. CASE d = c BY <1>6, <3>1
    <3>2. CASE d # c
      <4>1. d \in grp[g].mask /\ d \in Core BY <1>2, <1>5, <2>3, <3>2 DEF Element
      <4> QED BY <1>6, <3>2, <4>1 DEF IInv, MapInv
    <3> QED BY <3>1, <3>2
  <2>4. grp[Default].alloc /\ ~grp[Default].del BY Constants DEF IInv, MapInv
  <2>5. \A g \in Group : ~grp'[g].alloc \/ grp'[g].del => grp'[g].mask = {}
    <3> TAKE g \in Group
    <3>1. CASE g = Default BY <1>5, <2>4, <3>1
    <3>2. CASE g # Default BY <1>5, <3>2 DEF IInv, MapInv
    <3> QED BY <3>1, <3>2
  <2>6. \A g \in Group \ Dyn : grp'[g].alloc /\ ~grp'[g].del BY <1>5 DEF IInv, MapInv
  <2> QED BY <2>1, <2>2, <2>3, <2>5, <2>6 DEF IInv, MapInv
<1>9. DeleteInv'
  <2>1. OpsAlike BY <1>1 DEF OpsAlike
  <2> QED BY <1>5, <2>1, DeleteAlike DEF IInv
<1>10. call[c].pc = "idle" BY <1>1 DEF IInv, CallInv
<1>11. CallInv' BY <1>1, <1>6, <1>10, CallLife DEF IInv
<1>12. /\ MailInv' /\ RequestsMatchCount'
       /\ \A d \in Core : TermAt(d)' = TermAt(d) /\ TermOf(d)' = TermOf(d) /\ Mail(d)' = Mail(d)
  BY <1>1, LifeSame DEF pollVars
<1>13. TermInv'
  <2>1. UNCHANGED <<tleft, treqs, tdone>> BY <1>1 DEF mapVars
  <2>2. ~(tleft[c] > 0) /\ [t |-> "TDONE", id |-> c] \notin Mail(c)
    BY <1>1 DEF IInv, TermInv
  <2>3. \A d \in Core : tleft[d] > 0 => d # c BY <2>2
  <2>4. \A d \in Core : [t |-> "TDONE", id |-> d] \in Mail(d) => d # c BY <2>2
  <2> QED BY <1>6, <1>12, <2>1, <2>3, <2>4 DEF IInv, TermInv
<1> QED BY <1>7, <1>8, <1>9, <1>11, <1>12, <1>13 DEF IInv

\* term_thread_req(): the requests of a termination are sent to a set of cores,
\* or to none of them if that fails.
LEMMA Broadcast ==
  ASSUME IInv, NEW c \in Core, NEW R \in SUBSET Core, NEW Q \in SUBSET Core, R \subseteq Q,
         st[c] \in {"up", "ext"}, NEW s \in {"term", "extterm"},
         TermReqs(c, R) \/ UNCHANGED <<tleft, ctrlq>>,
         treqs' = CountReqs(Q), tdone' = [tdone EXCEPT ![c] = R = {}],
         st' = [st EXCEPT ![c] = s], ph' = [ph EXCEPT ![c] = "ev"],
         UNCHANGED <<ops, call, shared, batch>>
  PROVE  /\ MailInv' /\ RequestsMatchCount' /\ TermInv'
         /\ ctrlq' \in [Core -> Seq(Msg)]
         /\ tleft' \in [Core -> Nat] /\ treqs' \in [Core -> Nat] /\ tdone' \in [Core -> BOOLEAN]
<1>1. PICK m : m = [t |-> "TERM", id |-> c] OBVIOUS
<1>2. /\ ctrlq \in [Core -> Seq(Msg)] /\ tleft \in [Core -> Nat] /\ treqs \in [Core -> Nat]
      /\ tdone \in [Core -> BOOLEAN] /\ m \in Msg
  BY <1>1 DEF IInv, TypeOK, Msg
<1>3. /\ tleft[c] = 0 /\ TermAt(c) = {} /\ [t |-> "TDONE", id |-> c] \notin Mail(c)
      /\ \A d \in Core : m \notin Mail(d)
  <2>1. ~(tleft[c] > 0) /\ [t |-> "TDONE", id |-> c] \notin Mail(c) BY DEF IInv, TermInv
  <2>2. tleft[c] = 0 BY <1>2, <2>1
  <2>3. Cardinality(TermAt(c)) = 0 BY <2>2 DEF IInv, TermInv
  <2>4. TermAt(c) \in SUBSET Core BY DEF TermAt
  <2>5. TermAt(c) = {} BY <2>3, <2>4, Constants, FS_EmptySet
  <2> QED BY <1>1, <2>1, <2>2, <2>5 DEF TermAt
<1>4. \E S \in {R, {}} :
        /\ tleft' = [tleft EXCEPT ![c] = Cardinality(S)]
        /\ ctrlq' = [d \in Core |-> IF d \in S THEN Append(ctrlq[d], m) ELSE ctrlq[d]]
  <2>1. CASE TermReqs(c, R)
    <3>1. /\ tleft' = [tleft EXCEPT ![c] = Cardinality(R)]
          /\ ctrlq' = [d \in Core |-> IF d \in R THEN Append(ctrlq[d], m) ELSE ctrlq[d]]
      BY <1>1, <2>1 DEF TermReqs
    <3> QED BY <3>1
  <2>2. CASE UNCHANGED <<tleft, ctrlq>>
    <3>1. Cardinality({}) = 0 BY FS_EmptySet
    <3>2. tleft' = [tleft EXCEPT ![c] = Cardinality({})] BY <1>2, <1>3, <2>2, <3>1
    <3>3. ctrlq' = [d \in Core |-> IF d \in {} THEN Append(ctrlq[d], m) ELSE ctrlq[d]]
      BY <1>2, <2>2
    <3> QED BY <3>2, <3>3
  <2> QED BY <2>1, <2>2
<1>5. PICK S \in SUBSET R :
        /\ tleft' = [tleft EXCEPT ![c] = Cardinality(S)]
        /\ ctrlq' = [d \in Core |-> IF d \in S THEN Append(ctrlq[d], m) ELSE ctrlq[d]]
  BY <1>4
<1>6. S \in SUBSET Core /\ IsFiniteSet(S) /\ Cardinality(S) \in Nat BY Constants
<1>7. ASSUME NEW d \in Core
      PROVE  /\ ctrlq'[d] \in Seq(Msg) /\ IsInjective(ctrlq'[d])
             /\ ToSet(ctrlq'[d]) = ToSet(ctrlq[d]) \cup (IF d \in S THEN {m} ELSE {})
  <2>1. IsInjective(ctrlq[d]) /\ ctrlq[d] \in Seq(Msg) /\ m \notin ToSet(ctrlq[d])
    BY <1>2, <1>3 DEF IInv, RequestsMatchCount, EachEventOnce, Mail
  <2>2. CASE d \in S
    <3>1. ctrlq'[d] = Append(ctrlq[d], m) BY <1>5, <2>2
    <3>2. /\ Append(ctrlq[d], m) \in Seq(Msg) /\ IsInjective(Append(ctrlq[d], m))
          /\ ToSet(Append(ctrlq[d], m)) = ToSet(ctrlq[d]) \cup {m}
      BY <1>2, <2>1, Enqueued
    <3> QED BY <2>2, <3>1, <3>2
  <2>3. CASE d \notin S
    <3>1. ctrlq'[d] = ctrlq[d] BY <1>5, <2>3
    <3> QED BY <2>1, <2>3, <3>1
  <2> QED BY <2>2, <2>3
<1>8. ctrlq' \in [Core -> Seq(Msg)]
  <2>1. ctrlq' = [d \in Core |-> ctrlq'[d]] BY <1>5
  <2> QED BY <1>7, <2>1
<1>9. tleft' \in [Core -> Nat] /\ tleft'[c] = Cardinality(S) /\ \A d \in Core : d # c => tleft'[d] = tleft[d]
  BY <1>2, <1>5, <1>6
<1>10. treqs' \in [Core -> Nat] /\ \A d \in Core : treqs'[d] = IF d \in Q THEN treqs[d] + 1 ELSE treqs[d]
  BY <1>2 DEF CountReqs
<1>11. /\ tdone' \in [Core -> BOOLEAN] /\ (tdone'[c] <=> R = {})
       /\ \A d \in Core : d # c => tdone'[d] = tdone[d]
  BY <1>2
<1>12. \A d \in Core : \A y : y \in Mail(d)' <=> y \in Mail(d) \/ (d \in S /\ y = m)
  BY <1>7 DEF Mail
<1>13. MailInv' /\ RequestsMatchCount'
  <2>1. ASSUME NEW d \in Core
        PROVE  /\ IsInjective(ctrlq'[d]) /\ IsInjective(batch'[d])
               /\ ToSet(ctrlq'[d]) \cap ToSet(batch'[d]) = {}
    <3>1. IsInjective(batch[d]) /\ ToSet(ctrlq[d]) \cap ToSet(batch[d]) = {}
      BY DEF IInv, RequestsMatchCount, EachEventOnce
    <3>2. m \notin ToSet(batch[d]) BY <1>3 DEF Mail
    <3> QED BY <1>7, <3>1, <3>2
  <2>2. ASSUME NEW d \in Core, NEW y, y.t \in {"ADD", "REM", "DONE"}
        PROVE  /\ y \in Mail(d)' <=> y \in Mail(d)
               /\ y \in ToSet(ctrlq'[d]) => y \in ToSet(ctrlq[d])
    <3>1. y # m BY <1>1, <2>2
    <3> QED BY <1>7, <1>12, <3>1
  <2>3. \A d \in Core : \A y \in Mail(d)' : y \notin Mail(d) => y.t \in {"TERM", "TDONE"}
    BY <1>1, <1>12
  <2>4. \A d \in Core : \A y \in Mail(d)' : y.t = "TDONE" => y.id = d
    BY <1>1, <1>12 DEF IInv, MailInv
  <2>5. \A d \in Core : ph'[d] = "out" => batch'[d] = <<>>
    <3>1. \A d \in Core : ph'[d] = "out" => ph[d] = "out" BY DEF IInv, TypeOK
    <3> QED BY <3>1 DEF IInv, MailInv
  <2> QED BY <2>1, <2>2, <2>3, <2>4, <2>5, TermMail
<1>14. ASSUME NEW d \in Core, NEW e \in Core
       PROVE  [t |-> "TERM", id |-> e] \in Mail(d)' <=>
                [t |-> "TERM", id |-> e] \in Mail(d) \/ (d \in S /\ e = c)
  <2>1. [t |-> "TERM", id |-> e] = m <=> e = c BY <1>1
  <2> QED BY <1>12, <2>1
<1>15. /\ TermAt(c)' = S /\ \A d \in Core : d # c => TermAt(d)' = TermAt(d)
       /\ \A d \in Core : TermOf(d)' = TermOf(d) \cup (IF d \in S THEN {c} ELSE {})
  BY <1>3, <1>6, <1>14 DEF TermAt, TermOf
<1>16. TermInv'
  <2>1. (\A d \in Core : d # c => st'[d] = st[d]) /\ st'[c] = s BY DEF IInv, TypeOK
  <2>2. \A d \in Core : tleft'[d] = Cardinality(TermAt(d)')
    BY <1>9, <1>15 DEF IInv, TermInv
  <2>3. ASSUME NEW d \in Core PROVE treqs'[d] >= Cardinality(TermOf(d)')
    <3>1. treqs[d] >= Cardinality(TermOf(d)) BY DEF IInv, TermInv
    <3>2. TermOf(d) \in SUBSET Core /\ c \notin TermOf(d) BY <1>1, <1>3 DEF TermOf
    <3>3. IsFiniteSet(TermOf(d)) /\ Cardinality(TermOf(d)) \in Nat BY <3>2, Constants
    <3>4. Cardinality(TermOf(d) \cup {c}) = Cardinality(TermOf(d)) + 1 BY <3>2, <3>3, FS_AddElement
    <3>5. treqs[d] \in Nat BY <1>2
    <3>6. CASE d \in S
      <4>1. treqs'[d] = treqs[d] + 1 BY <1>10, <3>6
      <4>2. Cardinality(TermOf(d)') = Cardinality(TermOf(d)) + 1 BY <1>15, <3>4, <3>6
      <4> QED BY <3>1, <3>3, <3>5, <4>1, <4>2
    <3>7. CASE d \notin S
      <4>1. treqs'[d] \in {treqs[d], treqs[d] + 1} BY <1>10
      <4>2. Cardinality(TermOf(d)') = Cardinality(TermOf(d)) BY <1>15, <3>7
      <4> QED BY <3>1, <3>3, <3>5, <4>1, <4>2
    <3> QED BY <3>6, <3>7
  <2>4. ASSUME NEW d \in Core, tleft'[d] > 0 PROVE st'[d] \in {"term", "extterm"} /\ ~tdone'[d]
    <3>1. CASE d = c
      <4>1. Cardinality(S) # 0 BY <1>6, <1>9, <2>4, <3>1
      <4>2. S # {} BY <1>6, <4>1, FS_EmptySet
      <4> QED BY <1>11, <2>1, <3>1, <4>2
    <3>2. CASE d # c BY <1>9, <1>11, <2>1, <2>4, <3>2 DEF IInv, TermInv
    <3> QED BY <3>1, <3>2
  <2>5. ASSUME NEW d \in Core, [t |-> "TDONE", id |-> d] \in Mail(d)'
        PROVE  st'[d] \in {"term", "extterm"} /\ ~tdone'[d] /\ tleft'[d] = 0
    <3>1. [t |-> "TDONE", id |-> d] \in Mail(d) BY <1>1, <1>12, <2>5
    <3>2. d # c BY <1>3, <3>1
    <3> QED BY <1>9, <1>11, <2>1, <3>1, <3>2 DEF IInv, TermInv
  <2> QED BY <2>2, <2>3, <2>4, <2>5 DEF TermInv
<1> QED BY <1>8, <1>9, <1>10, <1>11, <1>13, <1>16

\* core_map_term_local(): the core leaves the core map and asks the others to
\* flush their control queues.
LEMMA TermBeginStep ==
  ASSUME IInv, NEW c \in Core, TermBegin(c)
  PROVE  IInv'
<1>1. /\ st[c] = "up" /\ call[c].pc = "idle" /\ logic' = logic \ {c}
      /\ odpThr' = [odpThr EXCEPT ![c] = 0]
      /\ treqs' = CountReqs(logic \ {c}) /\ tdone' = [tdone EXCEPT ![c] = (logic \ {c}) = {}]
      /\ TermReqs(c, logic \ {c}) \/ UNCHANGED <<tleft, ctrlq>>
      /\ st' = [st EXCEPT ![c] = "term"] /\ ph' = [ph EXCEPT ![c] = "ev"]
      /\ nterms < MaxTerms /\ nterms' = nterms + 1
      /\ UNCHANGED <<opVars, rwcnt, shared, batch, todo>>
  BY DEF TermBegin
<1>2. logic \in SUBSET Core /\ logic \ {c} \in SUBSET Core BY DEF IInv, TypeOK
<1>3. PICK R \in SUBSET Core : R = logic \ {c} BY <1>2
<1>4. /\ MailInv' /\ RequestsMatchCount' /\ TermInv'
      /\ ctrlq' \in [Core -> Seq(Msg)]
      /\ tleft' \in [Core -> Nat] /\ treqs' \in [Core -> Nat] /\ tdone' \in [Core -> BOOLEAN]
  <2>1. R \subseteq R /\ st[c] \in {"up", "ext"} /\ "term" \in {"term", "extterm"} BY <1>1
  <2>2. /\ TermReqs(c, R) \/ UNCHANGED <<tleft, ctrlq>>
        /\ treqs' = CountReqs(R) /\ tdone' = [tdone EXCEPT ![c] = R = {}]
    BY <1>1, <1>3
  <2>3. /\ st' = [st EXCEPT ![c] = "term"] /\ ph' = [ph EXCEPT ![c] = "ev"]
        /\ UNCHANGED <<ops, call, shared, batch>>
    BY <1>1 DEF opVars
  <2> QED BY <2>1, <2>2, <2>3, Broadcast
<1>5. (\A d \in Core : d # c => st'[d] = st[d]) /\ st'[c] = "term" BY <1>1 DEF IInv, TypeOK
<1>6. TypeOK'
  <2>1. odpThr' \in [Core -> Core] BY <1>1, Constants DEF IInv, TypeOK
  <2>2. st' \in [Core -> {"init", "up", "term", "leave", "down", "ext", "extterm"}]
        /\ ph' \in [Core -> {"out", "thr", "ev"}]
    BY <1>1 DEF IInv, TypeOK
  <2>3. nterms' \in 0..MaxTerms
    <3>1. nterms \in 0..MaxTerms /\ MaxTerms \in Nat BY Constants DEF IInv, TypeOK
    <3> QED BY <1>1, <3>1
  <2>4. logic' \subseteq Core BY <1>1, <1>2
  <2> QED BY <1>1, <1>4, <2>1, <2>2, <2>3, <2>4 DEF IInv, TypeOK, opVars
<1>7. MapInv'
  <2>1. UNCHANGED <<grp, todo>> BY <1>1 DEF opVars
  <2>2. \A d \in Core : d \in logic' <=> st'[d] \in {"init", "up"} BY <1>1, <1>5 DEF IInv, MapInv
  <2>3. \A d \in logic' : odpThr'[d] = d
    <3>1. odpThr \in [Core -> Core] /\ logic \subseteq Core BY DEF IInv, TypeOK
    <3>2. \A d \in logic : odpThr[d] = d BY DEF IInv, MapInv
    <3> QED BY <1>1, <3>1, <3>2
  <2>4. \A g \in Group : \A d \in grp[g].mask : d \in Core BY DEF IInv, TypeOK, Element
  <2>5. ASSUME NEW g \in Group, NEW d \in grp[g].mask
        PROVE  st'[d] \in {"init", "up", "term"} \/ (st'[d] = "leave" /\ g \in todo[d])
    <3>1. st[d] \in {"init", "up", "term"} \/ (st[d] = "leave" /\ g \in todo[d])
      BY DEF IInv, MapInv
    <3> QED BY <1>5, <2>4, <3>1
  <2> QED BY <2>1, <2>2, <2>3, <2>5 DEF IInv, MapInv
<1>8. DeleteInv' BY <1>1, DeleteSame DEF IInv, opVars
<1>9. CallInv' BY <1>1, <1>5, CallLife DEF IInv, opVars
<1> QED BY <1>4, <1>6, <1>7, <1>8, <1>9 DEF IInv

\* core_map_term_extthr(): the same for an external thread, which is not in the
\* core map.
LEMMA TermExtStep ==
  ASSUME IInv, NEW c \in Core, TermExt(c)
  PROVE  IInv'
<1>1. /\ st[c] = "ext" /\ treqs' = CountReqs(logic \cup {c})
      /\ tdone' = [tdone EXCEPT ![c] = logic = {}] /\ TermReqs(c, logic)
      /\ st' = [st EXCEPT ![c] = "extterm"] /\ ph' = [ph EXCEPT ![c] = "ev"]
      /\ UNCHANGED <<opVars, logic, odpThr, rwcnt, shared, batch, todo, nterms>>
  BY DEF TermExt
<1>2. call[c].pc = "idle" BY <1>1 DEF IInv, CallInv
<1>3. PICK R \in SUBSET Core : R = logic BY DEF IInv, TypeOK
<1>4. PICK Q \in SUBSET Core : Q = logic \cup {c} BY DEF IInv, TypeOK
<1>5. /\ MailInv' /\ RequestsMatchCount' /\ TermInv'
      /\ ctrlq' \in [Core -> Seq(Msg)]
      /\ tleft' \in [Core -> Nat] /\ treqs' \in [Core -> Nat] /\ tdone' \in [Core -> BOOLEAN]
  <2>1. R \subseteq Q /\ st[c] \in {"up", "ext"} /\ "extterm" \in {"term", "extterm"}
    BY <1>1, <1>3, <1>4
  <2>2. TermReqs(c, R) /\ treqs' = CountReqs(Q) /\ tdone' = [tdone EXCEPT ![c] = R = {}]
    BY <1>1, <1>3, <1>4
  <2>3. /\ st' = [st EXCEPT ![c] = "extterm"] /\ ph' = [ph EXCEPT ![c] = "ev"]
        /\ UNCHANGED <<ops, call, shared, batch>>
    BY <1>1 DEF opVars
  <2> QED BY <2>1, <2>2, <2>3, Broadcast
<1>6. (\A d \in Core : d # c => st'[d] = st[d]) /\ st'[c] = "extterm" BY <1>1 DEF IInv, TypeOK
<1>7. TypeOK'
  <2>1. st' \in [Core -> {"init", "up", "term", "leave", "down", "ext", "extterm"}]
        /\ ph' \in [Core -> {"out", "thr", "ev"}]
    BY <1>1 DEF IInv, TypeOK
  <2> QED BY <1>1, <1>5, <2>1 DEF IInv, TypeOK, opVars
<1>8. MapInv'
  <2>1. UNCHANGED <<grp, logic, odpThr, todo>> BY <1>1 DEF opVars
  <2>2. \A d \in Core : st'[d] \in {"init", "up"} <=> st[d] \in {"init", "up"} BY <1>1, <1>6
  <2>3. \A g \in Group : \A d \in grp[g].mask : d \in Core BY DEF IInv, TypeOK, Element
  <2>4. ASSUME NEW g \in Group, NEW d \in grp[g].mask
        PROVE  st'[d] \in {"init", "up", "term"} \/ (st'[d] = "leave" /\ g \in todo[d])
    <3>1. st[d] \in {"init", "up", "term"} \/ (st[d] = "leave" /\ g \in todo[d])
      BY DEF IInv, MapInv
    <3> QED BY <1>1, <1>6, <2>3, <3>1
  <2> QED BY <2>1, <2>2, <2>4 DEF IInv, MapInv
<1>9. DeleteInv' BY <1>1, DeleteSame DEF IInv, opVars
<1>10. CallInv' BY <1>1, <1>2, <1>6, CallLife DEF IInv, opVars
<1> QED BY <1>5, <1>7, <1>8, <1>9, <1>10 DEF IInv

-----------------------------------------------------------------------------
(* Calls. *)

\* No core terminates when an operation starts, so that the masks hold cores of
\* the core map.
LEMMA MasksInMap ==
  ASSUME IInv, ~Terminating
  PROVE  \A g \in Group : grp[g].mask \subseteq logic
<1> SUFFICES ASSUME NEW g \in Group, NEW d \in grp[g].mask PROVE d \in logic OBVIOUS
<1>1. d \in Core BY DEF IInv, TypeOK, Element
<1>2. st[d] \in {"init", "up", "term"} \/ st[d] = "leave" BY DEF IInv, MapInv
<1>3. st[d] \notin {"term", "leave"} BY <1>1 DEF Terminating
<1> QED BY <1>1, <1>2, <1>3 DEF IInv, MapInv

\* A new operation has an identity of its own: no event and no other call has it.
LEMMA Fresh ==
  ASSUME IInv, nops < MaxOps
  PROVE  LET o == nops + 1 IN
         /\ o \in OpId /\ o \notin DOMAIN ops
         /\ \A k, d : ~Unsent(o, k, d)
         /\ \A d \in Core, k \in {"ADD", "REM", "DONE"} : [t |-> k, id |-> o] \notin Mail(d)
         /\ ~DoneSent(o)
<1> DEFINE o == nops + 1
<1>1. o \in OpId /\ o \notin DOMAIN ops
  <2>1. DOMAIN ops = 1..nops /\ nops \in Nat /\ MaxOps \in Nat BY OpTypes, Constants DEF IInv
  <2> QED BY <2>1 DEF OpId
<1> HIDE DEF o
<1>2. \A d \in Core : call[d].pc = "send" => call[d].op # o BY <1>1 DEF IInv, CallInv
<1>3. \A k, d : ~Unsent(o, k, d) BY <1>2 DEF Unsent
<1>4. ASSUME NEW d \in Core, NEW k \in {"ADD", "REM", "DONE"}, [t |-> k, id |-> o] \in Mail(d)
      PROVE  FALSE
  <2>1. PICK x \in Mail(d) : x = [t |-> k, id |-> o] BY <1>4
  <2>2. x.t \in {"ADD", "REM", "DONE"} => x.id \in DOMAIN ops BY DEF IInv, MailInv
  <2> QED BY <1>1, <2>1, <2>2
<1>5. DoneEvent(o) \notin ToSet(shared)
  <2> SUFFICES ASSUME NEW x \in ToSet(shared), x = DoneEvent(o) PROVE FALSE OBVIOUS
  <2>1. x.id \in DOMAIN ops BY DEF IInv, MailInv
  <2> QED BY <1>1, <2>1 DEF DoneEvent
<1>6. ~DoneSent(o) BY <1>4, <1>5 DEF DoneSent, DoneEvent
<1> QED BY <1>1, <1>3, <1>4, <1>6 DEF o

\* The table of the operations with a new one.
LEMMA OpAppended ==
  ASSUME TypeOK, NEW w \in Operation, ops' = Append(ops, w), nops' = nops + 1, nops < MaxOps
  PROVE  /\ ops' \in Seq(Operation) /\ Len(ops') = nops' /\ nops' \in 0..MaxOps
         /\ DOMAIN ops' = DOMAIN ops \cup {nops + 1} /\ ops'[nops + 1] = w
         /\ \A p \in DOMAIN ops : ops'[p] = ops[p]
<1>1. ops \in Seq(Operation) /\ Len(ops) = nops /\ nops \in Nat /\ nops \in 0..MaxOps /\ MaxOps \in Nat
  BY OpTypes, Constants DEF TypeOK
<1>2. /\ ops' \in Seq(Operation) /\ Len(ops') = nops + 1 /\ ops'[nops + 1] = w
      /\ \A i \in 1..nops : ops'[i] = ops[i]
  BY <1>1, AppendProperties
<1>3. DOMAIN ops' = 1..(nops + 1) /\ DOMAIN ops = 1..nops BY <1>1, <1>2, LenProperties
<1>4. 1..(nops + 1) = 1..nops \cup {nops + 1} BY <1>1
<1>5. nops' \in 0..MaxOps BY <1>1
<1> QED BY <1>2, <1>3, <1>4, <1>5

\* The requests that a new operation has to send are its open ones.
LEMMA RequestCount ==
  ASSUME NEW add \in SUBSET Core, NEW rem \in SUBSET Core
  PROVE  LET R == ({"ADD"} \X add) \cup ({"REM"} \X rem) IN
         /\ R \subseteq {"ADD", "REM"} \X Core
         /\ Cardinality(R) = ReqCount(add, rem) /\ ReqCount(add, rem) \in 0..2 * NumCores
         /\ add # {} \/ rem # {} => ReqCount(add, rem) # 0
<1> DEFINE A == {"ADD"} \X add
           B == {"REM"} \X rem
<1>1. IsFiniteSet({"ADD"}) /\ Cardinality({"ADD"}) = 1 /\ IsFiniteSet({"REM"}) /\ Cardinality({"REM"}) = 1
  BY FS_Singleton
<1>2. /\ IsFiniteSet(add) /\ IsFiniteSet(rem) /\ Cardinality(add) \in 0..NumCores
      /\ Cardinality(rem) \in 0..NumCores /\ NumCores \in Nat
  BY Constants
<1>3. IsFiniteSet(A) /\ Cardinality(A) = Cardinality(add)
  <2>1. IsFiniteSet(A) /\ Cardinality(A) = 1 * Cardinality(add) BY <1>1, <1>2, FS_Product
  <2> QED BY <1>2, <2>1
<1>4. IsFiniteSet(B) /\ Cardinality(B) = Cardinality(rem)
  <2>1. IsFiniteSet(B) /\ Cardinality(B) = 1 * Cardinality(rem) BY <1>1, <1>2, FS_Product
  <2> QED BY <1>2, <2>1
<1>5. A \cap B = {} /\ A \cup B \subseteq {"ADD", "REM"} \X Core OBVIOUS
<1> HIDE DEF A, B
<1>6. Cardinality(A \cup B) = Cardinality(A) + Cardinality(B) - Cardinality(A \cap B)
  BY <1>3, <1>4, FS_Union
<1>7. Cardinality(A \cap B) = 0 BY <1>5, FS_EmptySet
<1>8. Cardinality(A \cup B) = Cardinality(add) + Cardinality(rem) BY <1>2, <1>3, <1>4, <1>6, <1>7
<1>9. add # {} \/ rem # {} => Cardinality(add) + Cardinality(rem) # 0
  <2>1. add # {} => Cardinality(add) # 0 BY <1>2, FS_EmptySet
  <2>2. rem # {} => Cardinality(rem) # 0 BY <1>2, FS_EmptySet
  <2> QED BY <1>2, <2>1, <2>2
<1> QED BY <1>2, <1>5, <1>8, <1>9 DEF ReqCount, A, B

\* The start of an operation: the element gets its new mask, and the operation
\* is done at once or has a request for each core concerned.
Starts(c, g, m, e, kind, sync, add, rem) ==
  /\ MayCall(c, g, m) /\ (~grp[g].alloc \/ ~grp[g].del)
  /\ grp' = [grp EXCEPT ![g] = e] /\ e.mask = m /\ (~e.alloc \/ e.del => m = {})
  /\ \/ DoneNow(kind, g)
     \/ /\ StartReqs(c, kind, g, m, add, rem, sync) /\ (add # {} \/ rem # {})
        /\ kind = "delete" => e.alloc /\ e.del
  /\ nops' = nops + 1 /\ UNCHANGED <<mapVars, pollVars, ctrlq, shared, st>>

\* A new operation has as many open requests as its event group counts.
LEMMA CallStart ==
  ASSUME IInv, NEW c \in Core, NEW g \in Dyn, NEW m \in SUBSET Core, NEW e \in Element,
         NEW kind \in {"create", "modify", "delete"}, NEW sync \in BOOLEAN,
         NEW add \in SUBSET logic, NEW rem \in SUBSET logic,
         Starts(c, g, m, e, kind, sync, add, rem)
  PROVE  IInv'
<1> SUFFICES
      ASSUME MayCall(c, g, m), ~grp[g].alloc \/ ~grp[g].del,
             grp' = [grp EXCEPT ![g] = e], e.mask = m, ~e.alloc \/ e.del => m = {},
             \/ DoneNow(kind, g)
             \/ /\ StartReqs(c, kind, g, m, add, rem, sync) /\ (add # {} \/ rem # {})
                /\ kind = "delete" => e.alloc /\ e.del,
             nops' = nops + 1, UNCHANGED <<mapVars, pollVars, ctrlq, shared, st>>
      PROVE  IInv'
  BY DEF Starts
<1> DEFINE CallType == [pc : {"idle", "send", "wait"}, op : 0 .. MaxOps,
                        rem : SUBSET Core, add : SUBSET Core]
<1>1. PICK o : o = nops + 1 OBVIOUS
<1>2. /\ st[c] = "up" /\ call[c].pc = "idle" /\ nops < MaxOps /\ m \subseteq logic /\ ~inprog[c]
  BY DEF MayCall, IInv, CallInv
<1>3. /\ o \in OpId /\ o \notin DOMAIN ops
      /\ \A k, d : ~Unsent(o, k, d)
      /\ \A d \in Core, k \in {"ADD", "REM", "DONE"} : [t |-> k, id |-> o] \notin Mail(d)
      /\ ~DoneSent(o)
  BY <1>1, <1>2, Fresh
<1>4. add \in SUBSET Core /\ rem \in SUBSET Core /\ g \in Group /\ 0 \in Core /\ NumCores \in Nat
  BY Constants DEF IInv, TypeOK
<1>5. Threads(add) = add /\ Threads(rem) = rem
  <2>1. \A d \in logic : odpThr[d] = d BY DEF IInv, MapInv
  <2> QED BY <2>1 DEF Threads
<1> DEFINE run == StartReqs(c, kind, g, m, add, rem, sync) /\ (add # {} \/ rem # {})
<1>6. PICK w \in Operation :
        /\ ops' = Append(ops, w) /\ w.kind = kind /\ w.g = g
        /\ \/ /\ run /\ w.st = "run" /\ w.left = ReqCount(add, rem) /\ w.caller = c
              /\ kind = "delete" => e.alloc /\ e.del
              /\ call' = [call EXCEPT ![c] = [pc |-> "send", op |-> o, rem |-> rem, add |-> add]]
              /\ rwcnt' = rwcnt + 1 /\ inprog' = [inprog EXCEPT ![c] = Waits(w)]
           \/ ~run /\ w.st = "done" /\ UNCHANGED <<call, rwcnt, inprog>>
  <2>1. CASE run
    <3>1. PICK w : w = [kind |-> kind, g |-> g, new |-> m, left |-> ReqCount(add, rem),
                        caller |-> c, sync |-> sync, st |-> "run"] OBVIOUS
    <3>2. ReqCount(add, rem) \in 0..2 * NumCores BY <1>4, RequestCount
    <3>3. w \in Operation BY <3>1, <3>2 DEF Operation
    <3>4. /\ ops' = Append(ops, w) /\ rwcnt' = rwcnt + 1
          /\ call' = [call EXCEPT ![c] = [pc |-> "send", op |-> o, rem |-> rem, add |-> add]]
          /\ inprog' = [inprog EXCEPT ![c] = @ \/ Waits(w)]
      BY <1>1, <1>5, <2>1, <3>1 DEF StartReqs, ReadLock
    <3>5. inprog' = [inprog EXCEPT ![c] = Waits(w)]
      <4>1. inprog[c] = FALSE BY <1>2 DEF IInv, TypeOK
      <4>2. (inprog[c] \/ Waits(w)) = Waits(w) BY <4>1 DEF Waits
      <4> QED BY <3>4, <4>2
    <3>6. kind = "delete" => e.alloc /\ e.del
      <4>1. CASE DoneNow(kind, g)
        <5>1. PICK v : ops' = Append(ops, v) /\ v.st = "done" BY <4>1 DEF DoneNow
        <5>2. w.st = "run" BY <3>1
        <5>3. ops \in Seq(Operation) BY DEF IInv, TypeOK
        <5>4. v \in {v, w} /\ w \in {v, w} OBVIOUS
        <5>5. ops \in Seq(Operation \cup {v, w}) BY <5>3
        <5>6. Append(ops, v)[Len(ops) + 1] = v /\ Append(ops, w)[Len(ops) + 1] = w
          BY <5>5, AppendProperties
        <5> QED BY <3>4, <5>1, <5>2, <5>6
      <4> QED BY <4>1
    <3> QED BY <2>1, <3>1, <3>3, <3>4, <3>5, <3>6
  <2>2. CASE ~run
    <3>1. DoneNow(kind, g) BY <2>2
    <3>2. PICK w : w = [kind |-> kind, g |-> g, new |-> {}, left |-> 0,
                        caller |-> 0, sync |-> FALSE, st |-> "done"] OBVIOUS
    <3>3. w \in Operation BY <1>4, <3>2 DEF Operation
    <3>4. ops' = Append(ops, w) /\ UNCHANGED <<call, rwcnt, inprog>> BY <3>1, <3>2 DEF DoneNow
    <3> QED BY <2>2, <3>2, <3>3, <3>4
  <2> QED BY <2>1, <2>2
<1> HIDE DEF run
<1>7. /\ ops' \in Seq(Operation) /\ Len(ops') = nops' /\ nops' \in 0..MaxOps
      /\ DOMAIN ops' = DOMAIN ops \cup {o} /\ ops'[o] = w
      /\ \A p \in DOMAIN ops : ops'[p] = ops[p]
  BY <1>1, <1>2, <1>6, OpAppended DEF IInv
<1>8. /\ call' \in [Core -> CallType] /\ \A d \in Core : d # c => call'[d] = call[d]
      /\ call'[c].pc # "wait" /\ (call'[c].pc = "send" <=> run)
      /\ run => call'[c].op = o /\ call'[c].rem = rem /\ call'[c].add = add
  <2>1. call \in [Core -> CallType] BY DEF IInv, TypeOK
  <2>2. CASE run
    <3>1. PICK k : k = [pc |-> "send", op |-> o, rem |-> rem, add |-> add] OBVIOUS
    <3>2. o \in 0..MaxOps BY <1>3, Constants DEF OpId
    <3>3. k \in CallType BY <1>4, <3>1, <3>2
    <3>4. call' = [call EXCEPT ![c] = k] BY <1>6, <2>2, <3>1
    <3>5. k.pc = "send" /\ k.op = o /\ k.rem = rem /\ k.add = add BY <3>1
    <3> HIDE DEF CallType
    <3> QED BY <2>1, <2>2, <3>3, <3>4, <3>5
  <2>3. CASE ~run
    <3>1. call' = call BY <1>6, <2>3
    <3> QED BY <1>2, <2>1, <2>3, <3>1
  <2> QED BY <2>2, <2>3
<1>9. /\ inprog' \in [Core -> BOOLEAN] /\ \A d \in Core : d # c => inprog'[d] = inprog[d]
      /\ inprog'[c] <=> run /\ Waits(w)
  <2>1. inprog \in [Core -> BOOLEAN] BY DEF IInv, TypeOK
  <2>2. CASE run
    <3>1. PICK b \in BOOLEAN : b = Waits(w) BY DEF Waits
    <3>2. inprog' = [inprog EXCEPT ![c] = b] BY <1>6, <2>2, <3>1
    <3> QED BY <2>1, <2>2, <3>1, <3>2
  <2>3. CASE ~run
    <3>1. inprog' = inprog BY <1>6, <2>3
    <3> QED BY <1>2, <2>1, <2>3, <3>1
  <2> QED BY <2>2, <2>3
<1>10. grp' \in [Group -> Element] /\ grp'[g] = e /\ \A h \in Group : h # g => grp'[h] = grp[h]
  BY <1>4 DEF IInv, TypeOK
<1>11. TypeOK'
  <2>1. rwcnt' \in Int BY <1>6 DEF IInv, TypeOK
  <2> QED BY <1>7, <1>8, <1>9, <1>10, <2>1 DEF IInv, TypeOK, mapVars, pollVars
<1>12. MapInv'
  <2>1. UNCHANGED <<logic, odpThr, st, todo>> BY DEF mapVars
  <2>2. \A d \in m : st[d] \in {"init", "up"} BY <1>2 DEF IInv, MapInv
  <2>3. ASSUME NEW h \in Group, NEW d \in grp'[h].mask
        PROVE  st[d] \in {"init", "up", "term"} \/ (st[d] = "leave" /\ h \in todo[d])
    <3>1. CASE h = g BY <1>10, <2>2, <2>3, <3>1
    <3>2. CASE h # g BY <1>10, <2>3, <3>2 DEF IInv, MapInv
    <3> QED BY <3>1, <3>2
  <2>4. \A h \in Group : ~grp'[h].alloc \/ grp'[h].del => grp'[h].mask = {}
    BY <1>10 DEF IInv, MapInv
  <2>5. \A h \in Group \ Dyn : grp'[h].alloc /\ ~grp'[h].del BY <1>10 DEF IInv, MapInv
  <2> QED BY <2>1, <2>3, <2>4, <2>5 DEF IInv, MapInv
<1>13. \A p : Running(p)' <=> Running(p) \/ (p = o /\ run) BY <1>3, <1>6, <1>7 DEF Running
<1>14. DeleteInv'
  <2>1. ASSUME NEW p \in DOMAIN ops, Running(p), ops[p].kind = "delete"
        PROVE  ops[p].g # g /\ ops[p].g \in Group /\ grp[ops[p].g].alloc /\ grp[ops[p].g].del
    <3>1. grp[ops[p].g].alloc /\ grp[ops[p].g].del BY <2>1 DEF IInv, DeleteInv
    <3> QED BY <3>1, OpTypes DEF IInv
  <2>2. ASSUME NEW p \in DOMAIN ops', Running(p)', ops'[p].kind = "delete"
        PROVE  /\ grp'[ops'[p].g].alloc /\ grp'[ops'[p].g].del
               /\ p # o => p \in DOMAIN ops /\ Running(p) /\ ops'[p] = ops[p] /\ ops'[p].g # g
    <3>1. CASE p = o
      <4>1. run BY <1>3, <1>13, <2>2, <3>1 DEF Running
      <4>2. e.alloc /\ e.del /\ ops'[p].g = g BY <1>6, <1>7, <2>2, <3>1, <4>1
      <4> QED BY <1>10, <3>1, <4>2
    <3>2. CASE p # o
      <4>1. p \in DOMAIN ops /\ Running(p) /\ ops'[p] = ops[p] BY <1>7, <1>13, <2>2, <3>2
      <4> QED BY <1>10, <2>1, <2>2, <3>2, <4>1
    <3> QED BY <3>1, <3>2
  <2>3. ASSUME NEW p \in DOMAIN ops', NEW q \in DOMAIN ops', Running(p)', ops'[p].kind = "delete",
               Running(q)', ops'[q].kind = "delete", ops'[p].g = ops'[q].g
        PROVE  p = q
    <3>1. ops'[o].g = g BY <1>6, <1>7
    <3>2. CASE p = o \/ q = o BY <2>2, <2>3, <3>1, <3>2
    <3>3. CASE p # o /\ q # o
      <4>1. /\ p \in DOMAIN ops /\ Running(p) /\ ops'[p] = ops[p]
            /\ q \in DOMAIN ops /\ Running(q) /\ ops'[q] = ops[q]
        BY <2>2, <2>3, <3>3
      <4> QED BY <2>3, <4>1 DEF IInv, DeleteInv
    <3> QED BY <3>2, <3>3
  <2> QED BY <2>2, <2>3 DEF DeleteInv
<1>15. CallInv'
  <2>1. ASSUME NEW d \in Core
        PROVE  /\ call'[d].pc # "idle" => st[d] = "up" /\ call'[d].op \in DOMAIN ops'
               /\ call'[d].pc = "send" => /\ Running(call[d].op)' /\ ops'[call'[d].op].caller = d
                                          /\ call'[d].rem # {} \/ call'[d].add # {}
               /\ inprog'[d] => /\ call'[d].pc # "idle" /\ Running(call[d].op)'
                                /\ Waits(ops'[call'[d].op]) /\ ops'[call'[d].op].caller = d
               /\ call'[d].pc = "wait" /\ ~inprog'[d] => ops'[call'[d].op].st = "done"
    <3>1. CASE d = c
      <4>1. call'[d].pc \in {"idle", "send"} /\ (inprog'[d] => run)
        <5>1. call'[c].pc \in {"idle", "send", "wait"} BY <1>8
        <5>2. call'[c].pc # "wait" BY <1>8
        <5>3. inprog'[c] => run BY <1>9
        <5> QED BY <3>1, <5>1, <5>2, <5>3
      <4>2. ASSUME run
            PROVE  /\ call'[d].op = o /\ Running(call[d].op)' /\ ops'[call'[d].op] = w
                   /\ call'[d].pc = "send" /\ (call'[d].rem # {} \/ call'[d].add # {})
        <5>1. call'[d].op = o /\ call'[d].pc = "send" /\ call'[d].rem = rem /\ call'[d].add = add
          BY <1>8, <3>1, <4>2
        <5>2. add # {} \/ rem # {} BY <4>2 DEF run
        <5>3. w.st = "run" BY <1>6, <4>2
        <5>4. o \in DOMAIN ops' /\ ops'[o].st = "run" BY <1>7, <5>3
        <5>5. Running(call[d].op)' BY <5>1, <5>4 DEF Running
        <5> QED BY <1>7, <5>1, <5>2, <5>5
      <4> QED BY <1>2, <1>6, <1>7, <1>8, <1>9, <3>1, <4>1, <4>2
    <3>2. CASE d # c
      <4>1. PICK k : k = call[d] OBVIOUS
      <4>2. call'[d] = k /\ inprog'[d] = inprog[d] BY <1>8, <1>9, <3>2, <4>1
      <4>3. /\ k.pc # "idle" => st[d] = "up" /\ k.op \in DOMAIN ops
            /\ k.pc = "send" => Running(k.op) /\ ops[k.op].caller = d /\ (k.rem # {} \/ k.add # {})
            /\ inprog[d] => k.pc # "idle" /\ Running(k.op) /\ Waits(ops[k.op]) /\ ops[k.op].caller = d
            /\ k.pc = "wait" /\ ~inprog[d] => ops[k.op].st = "done"
        BY <4>1 DEF IInv, CallInv
      <4>4. k.pc # "idle" => ops'[k.op] = ops[k.op] /\ k.op \in DOMAIN ops' BY <1>7, <4>3
      <4>5. Running(k.op) => Running(call[d].op)' BY <1>7, <4>2 DEF Running
      <4> QED BY <4>2, <4>3, <4>4, <4>5
    <3> QED BY <3>1, <3>2
  <2>2. ASSUME NEW p \in DOMAIN ops', Running(p)', Waits(ops'[p])
        PROVE  inprog'[ops'[p].caller] /\ call'[ops'[p].caller].op = p
    <3>1. CASE p = o
      <4>1. run BY <1>3, <1>13, <2>2, <3>1 DEF Running
      <4>2. ops'[p].caller = c /\ Waits(w) BY <1>6, <1>7, <2>2, <3>1, <4>1
      <4> QED BY <1>8, <1>9, <3>1, <4>1, <4>2
    <3>2. CASE p # o
      <4>1. p \in DOMAIN ops /\ Running(p) /\ ops'[p] = ops[p] BY <1>7, <1>13, <2>2, <3>2
      <4>2. inprog[ops[p].caller] /\ call[ops[p].caller].op = p BY <2>2, <4>1 DEF IInv, CallInv
      <4>3. ops[p].caller \in Core BY <4>1, OpTypes DEF IInv
      <4> QED BY <1>2, <1>8, <1>9, <4>1, <4>2, <4>3
    <3> QED BY <3>1, <3>2
  <2> QED BY <2>1, <2>2 DEF CallInv
<1>16. UNCHANGED <<ctrlq, batch, shared, ph>> BY DEF pollVars
<1>17. \A d \in Core : Mail(d)' = Mail(d) BY <1>16 DEF Mail
<1>18. MailInv'
  <2>1. ASSUME NEW x \in ToSet(shared)
        PROVE  x.t = "DONE" /\ x.id \in DOMAIN ops' /\ ~ops'[x.id].sync
    <3>1. x.t = "DONE" /\ x.id \in DOMAIN ops /\ ~ops[x.id].sync BY DEF IInv, MailInv
    <3> QED BY <1>7, <3>1
  <2>2. ASSUME NEW d \in Core, NEW x \in Mail(d)
        PROVE  /\ x.t \in {"ADD", "REM", "DONE"} => x.id \in DOMAIN ops'
               /\ x.t = "DONE" /\ ops'[x.id].sync => ops'[x.id].caller = d
               /\ x.t = "DONE" /\ x \in ToSet(ctrlq[d]) => ops'[x.id].sync
               /\ x.t = "TDONE" => x.id = d
    <3>1. /\ x.t \in {"ADD", "REM", "DONE"} => x.id \in DOMAIN ops
          /\ x.t = "DONE" /\ ops[x.id].sync => ops[x.id].caller = d
          /\ x.t = "DONE" /\ x \in ToSet(ctrlq[d]) => ops[x.id].sync
          /\ x.t = "TDONE" => x.id = d
      BY DEF IInv, MailInv
    <3> QED BY <1>7, <3>1
  <2>3. \A d \in Core : ph[d] = "out" => batch[d] = <<>> BY DEF IInv, MailInv
  <2> QED BY <1>16, <1>17, <2>1, <2>2, <2>3 DEF MailInv
<1>19. TermInv' BY <1>17, TermSame DEF IInv, mapVars
<1>20. ASSUME NEW p \in OpId, NEW j \in {"ADD", "REM"}, NEW d \in Core
       PROVE  /\ p = o => (Unsent(p, j, d)' <=> run /\ d \in (IF j = "REM" THEN rem ELSE add))
              /\ p # o => (Unsent(p, j, d)' <=> Unsent(p, j, d))
  <2>1. CASE p = o
    <3>1. \A h \in Core : call'[h].pc = "send" /\ call'[h].op = o => h = c
      <4> SUFFICES ASSUME NEW h \in Core, call'[h].pc = "send", call'[h].op = o, h # c PROVE FALSE
        OBVIOUS
      <4>1. call[h].pc = "send" /\ call[h].op = o BY <1>8
      <4>2. call[h].op \in DOMAIN ops BY <4>1 DEF IInv, CallInv
      <4> QED BY <1>3, <4>1, <4>2
    <3> QED BY <1>8, <2>1, <3>1 DEF Unsent
  <2>2. CASE p # o
    <3>1. ~(call'[c].pc = "send" /\ call'[c].op = p) /\ ~(call[c].pc = "send" /\ call[c].op = p)
      BY <1>2, <1>8, <2>2
    <3>2. \A h \in Core : h # c => call'[h] = call[h] BY <1>8
    <3> HIDE DEF CallType
    <3>3. ASSUME NEW h \in Core
          PROVE  call'[h].pc = "send" /\ call'[h].op = p => call[h] = call'[h]
      BY <3>1, <3>2
    <3>4. ASSUME NEW h \in Core
          PROVE  call[h].pc = "send" /\ call[h].op = p => call[h] = call'[h]
      BY <3>1, <3>2
    <3>5. Unsent(p, j, d)' => Unsent(p, j, d) BY <3>3 DEF Unsent
    <3>6. Unsent(p, j, d) => Unsent(p, j, d)' BY <3>4 DEF Unsent
    <3> QED BY <2>2, <3>5, <3>6
  <2> QED BY <2>1, <2>2
<1>21. EachEventOnce'
  <2>1. EachEventOnce BY DEF IInv, RequestsMatchCount
  <2>2. ASSUME NEW p \in OpId, NEW j \in {"ADD", "REM"}, NEW d \in Core, Unsent(p, j, d)'
        PROVE  [t |-> j, id |-> p] \notin Mail(d)'
    <3>1. CASE p = o BY <1>3, <1>17, <3>1
    <3>2. CASE p # o
      <4>1. Unsent(p, j, d) BY <1>20, <2>2, <3>2
      <4>2. [t |-> j, id |-> p] \notin Mail(d) BY <2>1, <4>1 DEF EachEventOnce
      <4> QED BY <1>17, <4>2
    <3> QED BY <3>1, <3>2
  <2>3. UNCHANGED <<ctrlq, batch, shared>> BY <1>16
  <2>4. /\ IsInjective(shared')
        /\ \A d \in Core : /\ IsInjective(ctrlq'[d]) /\ IsInjective(batch'[d])
                           /\ ToSet(ctrlq'[d]) \cap ToSet(batch'[d]) = {}
                           /\ ToSet(shared') \cap Mail(d)' = {}
    BY <1>17, <2>1, <2>3 DEF EachEventOnce
  <2>5. \A d, h \in Core : \A p \in OpId : DoneEvent(p) \in Mail(d)' \cap Mail(h)' => d = h
    BY <1>17, <2>1 DEF EachEventOnce
  <2> QED BY <2>2, <2>4, <2>5 DEF EachEventOnce, DoneEvent
<1>22. RequestsMatchCount'
  <2>1. \A p : DoneSent(p)' <=> DoneSent(p) BY <1>16, <1>17 DEF DoneSent, DoneEvent
  <2>2. ASSUME NEW p \in DOMAIN ops
        PROVE  /\ ops'[p].st = "run" => ops'[p].left = Cardinality(Open(p)')
               /\ DoneSent(p)' <=> ops'[p].st = "run" /\ ops'[p].left = 0
    <3>1. p # o /\ p \in OpId /\ ops'[p] = ops[p] BY <1>3, <1>7, OpTypes DEF IInv
    <3>2. \A j \in {"ADD", "REM"}, d \in Core : Unsent(p, j, d)' <=> Unsent(p, j, d) BY <1>20, <3>1
    <3>3. Open(p)' = Open(p) BY <1>17, <3>2 DEF Open
    <3>4. /\ ops[p].st = "run" => ops[p].left = Cardinality(Open(p))
          /\ DoneSent(p) <=> ops[p].st = "run" /\ ops[p].left = 0
      BY DEF IInv, RequestsMatchCount
    <3> QED BY <2>1, <3>1, <3>3, <3>4
  <2>3. ~DoneSent(o)' BY <1>3, <2>1
  <2>4. CASE ~run
    <3>1. ops'[o].st # "run" BY <1>6, <1>7, <2>4
    <3> QED BY <1>7, <1>21, <2>2, <2>3, <3>1 DEF RequestsMatchCount
  <2>5. CASE run
    <3> DEFINE R == ({"ADD"} \X add) \cup ({"REM"} \X rem)
    <3>1. R \subseteq {"ADD", "REM"} \X Core /\ Cardinality(R) = ReqCount(add, rem)
          /\ ReqCount(add, rem) # 0
      BY <1>4, <2>5, RequestCount DEF run
    <3>2. ASSUME NEW j \in {"ADD", "REM"}, NEW d \in Core
          PROVE  <<j, d>> \in Open(o)' <=> <<j, d>> \in R
      <4>1. Unsent(o, j, d)' <=> d \in (IF j = "REM" THEN rem ELSE add) BY <1>3, <1>20, <2>5
      <4>2. [t |-> j, id |-> o] \notin Mail(d)' BY <1>3, <1>17
      <4>3. <<j, d>> \in R <=> d \in (IF j = "REM" THEN rem ELSE add) OBVIOUS
      <4>4. <<j, d>> \in Open(o)' <=> Unsent(o, j, d)' \/ [t |-> j, id |-> o] \in Mail(d)'
        BY DEF Open
      <4> QED BY <4>1, <4>2, <4>3, <4>4
    <3>3. Open(o)' \subseteq {"ADD", "REM"} \X Core BY DEF Open
    <3> HIDE DEF R
    <3>4. Open(o)' = R
      <4>1. \A r \in {"ADD", "REM"} \X Core : r \in Open(o)' <=> r \in R
        <5> SUFFICES ASSUME NEW j \in {"ADD", "REM"}, NEW d \in Core
                     PROVE  <<j, d>> \in Open(o)' <=> <<j, d>> \in R
          OBVIOUS
        <5> QED BY <3>2
      <4> QED BY <3>1, <3>3, <4>1
    <3>5. ops'[o].st = "run" /\ ops'[o].left = Cardinality(Open(o)') /\ ops'[o].left # 0
      BY <1>6, <1>7, <2>5, <3>1, <3>4
    <3> QED BY <1>7, <1>21, <2>2, <2>3, <3>5 DEF RequestsMatchCount
  <2> QED BY <2>4, <2>5
<1> QED BY <1>11, <1>12, <1>14, <1>15, <1>18, <1>19, <1>22 DEF IInv

\* queue_group_create() and queue_group_create_sync()
LEMMA CreateStep ==
  ASSUME TermExcl, IInv, NEW c \in Core, NEW g \in Dyn, NEW m \in SUBSET Core, NEW sync \in BOOLEAN,
         Create(c, g, m, sync)
  PROVE  IInv'
<1>1. /\ MayCall(c, g, m) /\ ~grp[g].alloc /\ nops' = nops + 1
      /\ UNCHANGED <<mapVars, pollVars, ctrlq, shared, st>>
  BY DEF Create
<1>2. PICK e : e = [FreeGroup EXCEPT !.alloc = TRUE, !.mask = m, !.sched = m \cap {c}] OBVIOUS
<1>3. e \in Element /\ e.mask = m /\ e.alloc = TRUE /\ e.del = FALSE
  <2>1. 0 \in 0..1 /\ m \cap {c} \in SUBSET Core OBVIOUS
  <2>2. e = [alloc |-> TRUE, mask |-> m, sched |-> m \cap {c}, del |-> FALSE, queues |-> 0]
    BY <1>2 DEF FreeGroup
  <2> QED BY <2>1, <2>2 DEF Element
<1>4. PICK add \in SUBSET logic, rem \in SUBSET logic : add = m \ {c} /\ rem = {}
  BY <1>1 DEF MayCall
<1>5. PICK kind \in {"create", "modify", "delete"} : kind = "create" OBVIOUS
<1>6. grp' = [grp EXCEPT ![g] = e] BY <1>2 DEF Create
<1>7. \/ DoneNow(kind, g)
      \/ StartReqs(c, kind, g, m, add, rem, sync) /\ (add # {} \/ rem # {}) /\ (kind = "delete" => e.alloc /\ e.del)
  BY <1>4, <1>5 DEF Create
<1>8. ~grp[g].alloc \/ ~grp[g].del BY <1>1
<1>9. ~e.alloc \/ e.del => m = {} BY <1>3
<1>10. Starts(c, g, m, e, kind, sync, add, rem) BY <1>1, <1>3, <1>6, <1>7, <1>8, <1>9 DEF Starts
<1> QED BY <1>3, <1>10, CallStart

\* queue_group_modify(), queue_group_modify_sync() and the deletion through them.
LEMMA ModifyStep ==
  ASSUME TermExcl, IInv, NEW c \in Core, NEW g \in Dyn, NEW m \in SUBSET Core,
         NEW kind \in {"modify", "delete"}, kind = "delete" => m = {},
         ModifyAsync(c, g, m, kind) \/ ModifySync(c, g, m, kind)
  PROVE  IInv'
<1>1. grp[g] \in Element /\ g \in Group BY OpTypes, Constants DEF IInv
<1>2. MayCall(c, g, m) /\ StateOk(g, kind) BY DEF ModifyAsync, ModifySync
<1>3. grp[g].mask \subseteq logic
  <2>1. ~Terminating BY <1>2 DEF MayCall, Orderly
  <2> QED BY <1>1, <2>1, MasksInMap
<1>4. m \subseteq logic /\ grp[g].alloc /\ ~grp[g].del BY <1>2 DEF MayCall, StateOk
<1>5. grp[g].alloc = TRUE BY <1>1, <1>4 DEF Element
<1> DEFINE n == [grp[g] EXCEPT !.mask = m]
<1>6. n \in Element /\ n.mask = m /\ n.alloc = TRUE BY <1>1, <1>5 DEF Element
<1> HIDE DEF n
<1>7. \A x \in {n, Joins(n, c), Leaves(n, c)} : x \in Element /\ x.mask = m /\ x.alloc = TRUE
  <2>1. Joins(n, c) \in Element /\ Leaves(n, c) \in Element BY <1>6, ElementTypes
  <2>2. Joins(n, c).mask = m /\ Joins(n, c).alloc = TRUE BY <1>6 DEF Joins, Element
  <2>3. Leaves(n, c).mask = m /\ Leaves(n, c).alloc = TRUE BY <1>6 DEF Leaves, Element
  <2> QED BY <1>6, <2>1, <2>2, <2>3
<1>8. /\ nops' = nops + 1 /\ UNCHANGED <<mapVars, pollVars, ctrlq, shared, st>>
  BY DEF ModifyAsync, ModifySync
<1>9. ASSUME NEW x \in Element, x.mask = m, x.alloc = TRUE,
             NEW add \in SUBSET logic, NEW rem \in SUBSET logic, NEW sync \in BOOLEAN,
             IF add = {} /\ rem = {}
             THEN /\ grp' = [grp EXCEPT ![g] = IF kind = "delete" THEN Freed(x) ELSE x]
                  /\ DoneNow(kind, g)
             ELSE /\ grp' = [grp EXCEPT ![g] = [x EXCEPT !.del = (kind = "delete")]]
                  /\ StartReqs(c, kind, g, m, add, rem, sync),
             x.del = FALSE
      PROVE  IInv'
  <2>1. PICK k \in {"create", "modify", "delete"} : k = kind OBVIOUS
  <2>2. ASSUME add = {} /\ rem = {}
        PROVE  \E h \in Element : Starts(c, g, m, h, k, sync, add, rem)
    <3>1. PICK e : e = IF kind = "delete" THEN Freed(x) ELSE x OBVIOUS
    <3>2. Freed(x) \in Element /\ Freed(x).mask = m BY <1>9, ElementTypes DEF Freed, Element
    <3>3. e \in Element /\ e.mask = m /\ (~e.alloc \/ e.del => m = {})
      BY <1>9, <3>1, <3>2
    <3>4. grp' = [grp EXCEPT ![g] = e] /\ DoneNow(kind, g) BY <1>9, <2>2, <3>1
    <3>5. PICK h \in Element : h = e BY <3>3
    <3>6. Starts(c, g, m, h, k, sync, add, rem)
      BY <1>2, <1>4, <1>8, <2>1, <3>3, <3>4, <3>5 DEF Starts
    <3> QED BY <3>6
  <2>3. ASSUME ~(add = {} /\ rem = {})
        PROVE  \E h \in Element : Starts(c, g, m, h, k, sync, add, rem)
    <3>1. PICK b \in BOOLEAN : b = (kind = "delete") OBVIOUS
    <3>2. PICK e : e = [x EXCEPT !.del = b] OBVIOUS
    <3>3. e \in Element /\ e.mask = m /\ e.alloc = TRUE /\ e.del = b BY <1>9, <3>2 DEF Element
    <3>4. grp' = [grp EXCEPT ![g] = e] /\ StartReqs(c, kind, g, m, add, rem, sync)
      BY <1>9, <2>3, <3>1, <3>2
    <3>5. (~e.alloc \/ e.del => m = {}) /\ (kind = "delete" => e.alloc /\ e.del) BY <3>1, <3>3
    <3>6. add # {} \/ rem # {} BY <2>3
    <3>7. PICK h \in Element : h = e BY <3>3
    <3>8. Starts(c, g, m, h, k, sync, add, rem)
      BY <1>2, <1>4, <1>8, <2>1, <3>3, <3>4, <3>5, <3>6, <3>7 DEF Starts
    <3> QED BY <3>8
  <2>4. PICK h \in Element : Starts(c, g, m, h, k, sync, add, rem) BY <2>2, <2>3
  <2> QED BY <2>4, CallStart
<1>10. \A x \in {n, Joins(n, c), Leaves(n, c)} : x.del = FALSE
  <2>1. n.del = FALSE BY <1>1, <1>4 DEF n, Element
  <2>2. Joins(n, c).del = FALSE BY <1>6, <2>1 DEF Joins, Element
  <2>3. Leaves(n, c).del = FALSE BY <1>6, <2>1 DEF Leaves, Element
  <2> QED BY <2>1, <2>2, <2>3
<1>11. CASE ModifyAsync(c, g, m, kind)
  <2>1. PICK x \in {n, Joins(n, c), Leaves(n, c)} : x = IF c \in Added(grp[g].mask, m) THEN Joins(n, c) ELSE n
    OBVIOUS
  <2>2. PICK add \in SUBSET logic, rem \in SUBSET logic :
          add = Added(grp[g].mask, m) \ {c} /\ rem = Removed(grp[g].mask, m)
    BY <1>3, <1>4 DEF Added, Removed
  <2>4. IF add = {} /\ rem = {}
        THEN /\ grp' = [grp EXCEPT ![g] = IF kind = "delete" THEN Freed(x) ELSE x]
             /\ DoneNow(kind, g)
        ELSE /\ grp' = [grp EXCEPT ![g] = [x EXCEPT !.del = (kind = "delete")]]
             /\ StartReqs(c, kind, g, m, add, rem, FALSE)
    BY <1>11, <2>1, <2>2 DEF ModifyAsync, n
  <2> QED BY <1>7, <1>9, <1>10, <2>4
<1>12. CASE ModifySync(c, g, m, kind)
  <2>1. PICK x \in {n, Joins(n, c), Leaves(n, c)} :
          x = IF c \in Added(grp[g].mask, m) THEN Joins(n, c)
              ELSE IF c \in Removed(grp[g].mask, m) THEN Leaves(n, c) ELSE n
    OBVIOUS
  <2>2. PICK add \in SUBSET logic, rem \in SUBSET logic :
          add = Added(grp[g].mask, m) \ {c} /\ rem = Removed(grp[g].mask, m) \ {c}
    BY <1>3, <1>4 DEF Added, Removed
  <2>4. IF add = {} /\ rem = {}
        THEN /\ grp' = [grp EXCEPT ![g] = IF kind = "delete" THEN Freed(x) ELSE x]
             /\ DoneNow(kind, g)
        ELSE /\ grp' = [grp EXCEPT ![g] = [x EXCEPT !.del = (kind = "delete")]]
             /\ StartReqs(c, kind, g, m, add, rem, TRUE)
    BY <1>12, <2>1, <2>2 DEF ModifySync, n
  <2> QED BY <1>7, <1>9, <1>10, <2>4
<1> QED BY <1>11, <1>12

-----------------------------------------------------------------------------
(* Every step. *)

\* The invariant holds when every core has started.
LEMMA InitIInv == Init => IInv
<1> SUFFICES ASSUME Init PROVE IInv OBVIOUS
<1>1. \A g \in Group : /\ grp[g] \in Element /\ grp[g].mask \subseteq Core /\ ~grp[g].del
                       /\ ~grp[g].alloc => g \in Dyn /\ grp[g].mask = {}
  <2> TAKE g \in Group
  <2>0. FreeGroup \in Element /\ FreeGroup.mask = {} /\ FreeGroup.alloc = FALSE /\ FreeGroup.del = FALSE
    <3>1. 0 \in 0..1 OBVIOUS
    <3> QED BY <3>1 DEF FreeGroup, Element
  <2>1. CASE g \in Dyn
    <3>1. grp[g] = FreeGroup BY <2>1 DEF Init
    <3> QED BY <2>0, <2>1, <3>1
  <2>2. CASE g \notin Dyn
    <3>1. PICK m \in SUBSET Core : m = IF g = Default THEN Core ELSE {c \in Core : CoreGroup[c] = g}
      OBVIOUS
    <3>2. grp[g] = [FreeGroup EXCEPT !.alloc = TRUE, !.mask = m, !.sched = m] BY <2>2, <3>1 DEF Init
    <3>3. grp[g] = [alloc |-> TRUE, mask |-> m, sched |-> m, del |-> FALSE, queues |-> 0]
      BY <3>2 DEF FreeGroup
    <3>4. 0 \in 0..1 OBVIOUS
    <3> QED BY <3>3, <3>4 DEF Element
  <2> QED BY <2>1, <2>2
<1>2. ops = <<>> /\ DOMAIN ops = {} /\ ops \in Seq(Operation) /\ Len(ops) = 0
  <2>1. ops = <<>> BY DEF Init
  <2>2. ops \in Seq(Operation) /\ Len(ops) = 0 BY <2>1, EmptySeq
  <2>3. DOMAIN ops = 1..0 BY <2>2, LenProperties
  <2> QED BY <2>1, <2>2, <2>3
<1>3. TypeOK
  <2>1. grp \in [Group -> Element]
    <3>1. grp = [g \in Group |-> grp[g]] BY DEF Init
    <3> QED BY <1>1, <3>1
  <2>2. /\ nops \in 0..MaxOps /\ rwcnt \in Int /\ nterms \in 0..MaxTerms /\ nops = 0
        /\ logic \subseteq Core /\ odpThr \in [Core -> Core]
    <3>1. 0 \in 0..MaxOps /\ 0 \in 0..MaxTerms /\ 0 \in Int BY Constants
    <3>2. odpThr \in [Core -> Core] /\ logic = Core BY DEF Init
    <3>3. nops = 0 /\ rwcnt = 0 /\ nterms = 0 BY DEF Init
    <3> QED BY <3>1, <3>2, <3>3
  <2>3. /\ ctrlq \in [Core -> Seq(Msg)] /\ batch \in [Core -> Seq(Msg)] /\ shared \in Seq(Msg)
    <3>1. <<>> \in Seq(Msg) BY EmptyQueue
    <3>2. /\ ctrlq = [c \in Core |-> <<>>] /\ batch = [c \in Core |-> <<>>] /\ shared = <<>>
      BY DEF Init
    <3> QED BY <3>1, <3>2
  <2>4. call \in [Core -> [pc : {"idle", "send", "wait"}, op : 0 .. MaxOps,
                           rem : SUBSET Core, add : SUBSET Core]]
    <3>1. NoCall \in [pc : {"idle", "send", "wait"}, op : 0 .. MaxOps,
                      rem : SUBSET Core, add : SUBSET Core]
      BY Constants DEF NoCall
    <3>2. call = [c \in Core |-> NoCall] BY DEF Init
    <3> QED BY <3>1, <3>2
  <2>5. /\ st \in [Core -> {"init", "up", "term", "leave", "down", "ext", "extterm"}]
        /\ ph \in [Core -> {"out", "thr", "ev"}]
        /\ inprog \in [Core -> BOOLEAN] /\ tdone \in [Core -> BOOLEAN]
        /\ tleft \in [Core -> Nat] /\ treqs \in [Core -> Nat]
        /\ todo \in [Core -> SUBSET Group]
    BY DEF Init
  <2> QED BY <1>2, <2>1, <2>2, <2>3, <2>4, <2>5 DEF TypeOK
<1>4. \A c \in Core : st[c] = "up" /\ odpThr[c] = c /\ c \in logic BY DEF Init
<1>5. MapInv
  <2>1. logic = Core BY DEF Init
  <2> QED BY <1>1, <1>4, <2>1 DEF MapInv
<1>6. DeleteInv BY <1>2 DEF DeleteInv
<1>7. \A c \in Core : call[c].pc = "idle" /\ ~inprog[c] BY DEF Init, NoCall
<1>8. CallInv BY <1>2, <1>7 DEF CallInv
<1>9. \A c \in Core : /\ Mail(c) = {} /\ ctrlq[c] = <<>> /\ batch[c] = <<>>
  BY EmptyQueue DEF Init, Mail
<1>10. shared = <<>> /\ ToSet(shared) = {} BY EmptyQueue DEF Init
<1>11. MailInv BY <1>9, <1>10 DEF MailInv
<1>12. TermInv
  <2>1. \A c \in Core : tleft[c] = 0 /\ treqs[c] = 0 /\ TermAt(c) = {} /\ TermOf(c) = {}
    BY <1>9 DEF Init, TermAt, TermOf
  <2>2. Cardinality({}) = 0 BY FS_EmptySet
  <2>3. \A c \in Core : ~(tleft[c] > 0) /\ treqs[c] >= 0 BY <2>1
  <2> QED BY <1>9, <2>1, <2>2, <2>3 DEF TermInv
<1>13. RequestsMatchCount
  <2>1. EachEventOnce
    <3>1. \A c \in Core : IsInjective(ctrlq[c]) /\ IsInjective(batch[c]) /\ ToSet(batch[c]) = {}
      BY <1>9, EmptyQueue
    <3>2. IsInjective(shared) BY <1>10, EmptyQueue
    <3> QED BY <1>9, <1>10, <3>1, <3>2 DEF EachEventOnce
  <2> QED BY <1>2, <2>1 DEF RequestsMatchCount
<1> QED BY <1>3, <1>5, <1>6, <1>8, <1>11, <1>12, <1>13 DEF IInv

\* A step keeps the invariant.
LEMMA NextIInv ==
  ASSUME TermExcl, IInv, [Next]_vars PROVE IInv'
<1>1. ASSUME NEW c \in Core, Calls(c) PROVE IInv'
  <2>1. PICK g \in Dyn, m \in SUBSET Core, sync \in BOOLEAN :
          \/ Create(c, g, m, sync)
          \/ IF sync THEN ModifySync(c, g, m, "modify") ELSE ModifyAsync(c, g, m, "modify")
          \/ m = {} /\ IF sync THEN ModifySync(c, g, m, "delete")
                               ELSE ModifyAsync(c, g, m, "delete")
    BY <1>1 DEF Calls
  <2>2. CASE Create(c, g, m, sync) BY <2>2, CreateStep
  <2>3. CASE ModifySync(c, g, m, "modify") \/ ModifyAsync(c, g, m, "modify") BY <2>3, ModifyStep
  <2>4. CASE m = {} /\ (ModifySync(c, g, m, "delete") \/ ModifyAsync(c, g, m, "delete"))
    BY <2>4, ModifyStep
  <2> QED BY <2>1, <2>2, <2>3, <2>4
<1>2. ASSUME NEW c \in Core, Works(c) PROVE IInv'
  <2>1. CASE SendReq(c) BY <2>1, SendStep
  <2>2. CASE SyncReturn(c) BY <2>2, SyncReturnStep
  <2>3. CASE PollThr(c) BY <2>3, PollThrStep
  <2>4. CASE PollShared(c) BY <2>4, PollSharedStep
  <2>5. CASE HandleAdd(c) \/ HandleRem(c) BY <2>5, ReqStep
  <2>6. CASE HandleDone(c) BY <2>6, DoneStep
  <2>7. CASE HandleTerm(c) BY <2>7, TermReqStep
  <2>8. CASE HandleTermDone(c) BY <2>8, TermDoneStep
  <2>9. CASE TermPolled(c) BY <2>9, TermPolledStep
  <2>10. CASE TermExtPolled(c) BY <2>10, TermExtPolledStep
  <2>11. CASE JoinGroups(c) BY <2>11, JoinGroupsStep
  <2>12. ASSUME NEW g \in Group, LeaveGroup(c, g) PROVE IInv' BY <2>12, LeaveGroupStep
  <2> QED BY <1>2, <2>1, <2>2, <2>3, <2>4, <2>5, <2>6, <2>7, <2>8, <2>9, <2>10, <2>11, <2>12
             DEF Works
<1>3. ASSUME NEW c \in Core, SendFail(c) PROVE IInv' BY <1>3, SendFailStep
<1>4. ASSUME NEW c \in Core, TermBegin(c) PROVE IInv' BY <1>4, TermBeginStep
<1>5. ASSUME NEW c \in Core, InitCore(c) \/ InitExt(c) PROVE IInv' BY <1>5, InitStep
<1>6. ASSUME NEW c \in Core, TermExt(c) PROVE IInv' BY <1>6, TermExtStep
<1>7. ASSUME NEW g \in Dyn, QueueCreate(g) \/ QueueDelete(g) PROVE IInv' BY <1>7, QueueStep
<1>8. CASE UNCHANGED vars
  <2>1. \A c \in Core : Mail(c)' = Mail(c) BY <1>8 DEF vars, Mail
  <2>2. \A c \in Core : ph'[c] = "out" => batch[c] = <<>> BY <1>8 DEF vars, IInv, MailInv
  <2>3. TypeOK' BY <1>8 DEF vars, IInv, TypeOK
  <2> QED BY <1>8, <2>1, <2>2, <2>3, MapSame, DeleteSame, CallSame, MailSame, TermSame, CountSame
          DEF vars, IInv
<1> QED BY <1>1, <1>2, <1>3, <1>4, <1>5, <1>6, <1>7, <1>8 DEF Next

-----------------------------------------------------------------------------
(* Theorems. *)

\* If no operation starts while a core terminates, the invariant holds always,
\* whatever fails, however operations overlap and whenever cores terminate.
THEOREM QueueGroupInductive == ASSUME TermExcl PROVE Spec => []IInv
<1>1. Init => IInv BY InitIInv
<1>2. IInv /\ [Next]_vars => IInv' BY NextIInv
<1> QED BY <1>1, <1>2, PTL DEF Spec

\* An operation is counted down, completed and its caller released by its own
\* requests and its own DONE event (send_qgrp_addrem_reqs(), handle_ctrl_events(),
\* the done callbacks of em_queue_group.c), for any number of cores and groups.
THEOREM OwnRequests == ASSUME TermExcl PROVE Spec => []OwnRequestsOnly
<1>1. IInv => OwnRequestsOnly
  <2> SUFFICES ASSUME IInv PROVE OwnRequestsOnly OBVIOUS
  <2>1. ReleasedByOwnOp
    <3>1. ASSUME NEW c \in Core, inprog[c] PROVE call[c].pc \in {"send", "wait"}
      BY <3>1 DEF IInv, CallInv, TypeOK
    <3>2. ASSUME NEW c \in Core, call[c].pc = "wait", ~inprog[c] PROVE ops[call[c].op].st = "done"
      BY <3>2 DEF IInv, CallInv
    <3> QED BY <3>1, <3>2 DEF ReleasedByOwnOp
  <2> QED BY <2>1 DEF IInv, OwnRequestsOnly
<1> QED BY <1>1, QueueGroupInductive, PTL

-----------------------------------------------------------------------------
(***************************************************************************)
(* The core map lock of QueueGroup, and what it is for: the threads in the *)
(* schedule group of a queue group are the cores of its core mask whenever *)
(* no operation of the group is running, and a terminated core is in no    *)
(* group.                                                                  *)
(***************************************************************************)

\* The cores that send the requests of an operation.
Senders == {c \in Core : call[c].pc = "send"}

\* The core map lock counts them as its readers.
LockInv ==
  /\ DOMAIN call = Core /\ \A c \in Core : "pc" \in DOMAIN call[c]
  /\ rwcnt = Cardinality(Senders)

-----------------------------------------------------------------------------
(* The core map lock. *)

\* A step that neither calls nor sends leaves the lock alone.
LEMMA LockSame ==
  ASSUME LockInv, UNCHANGED <<call, rwcnt>> PROVE LockInv'
BY DEF LockInv, Senders

\* One reader more or less.
LEMMA OneSender ==
  ASSUME NEW S \in SUBSET Core, NEW c \in Core
  PROVE  /\ c \notin S => Cardinality(S \cup {c}) = Cardinality(S) + 1
         /\ c \in S => Cardinality(S \ {c}) = Cardinality(S) - 1
<1>1. IsFiniteSet(S) BY Constants
<1> QED BY <1>1, FS_AddElement, FS_RemoveElement

\* A core starts an operation: create, modify and delete take the lock once.
LEMMA CallLock ==
  ASSUME LockInv, NEW c \in Core, Calls(c)
  PROVE  LockInv'
<1>1. /\ call[c].pc = "idle"
      /\ \/ UNCHANGED <<call, rwcnt>>
         \/ /\ \E o, rem, add : call' = [call EXCEPT ![c] = [pc |-> "send", op |-> o, rem |-> rem, add |-> add]]
            /\ rwcnt' = rwcnt + 1
  <2>1. PICK g \in Dyn, m \in SUBSET Core, sync \in BOOLEAN :
          \/ Create(c, g, m, sync)
          \/ ModifySync(c, g, m, "modify") \/ ModifyAsync(c, g, m, "modify")
          \/ ModifySync(c, g, m, "delete") \/ ModifyAsync(c, g, m, "delete")
    BY DEF Calls
  <2>2. call[c].pc = "idle" BY <2>1 DEF Create, ModifySync, ModifyAsync, MayCall
  <2>3. \E kind, add, rem, s : DoneNow(kind, g) \/ StartReqs(c, kind, g, m, add, rem, s)
    BY <2>1 DEF Create, ModifySync, ModifyAsync
  <2> QED BY <2>2, <2>3 DEF DoneNow, StartReqs, ReadLock
<1>2. CASE UNCHANGED <<call, rwcnt>> BY <1>2, LockSame
<1>3. ASSUME NEW o, NEW rem, NEW add, rwcnt' = rwcnt + 1,
             call' = [call EXCEPT ![c] = [pc |-> "send", op |-> o, rem |-> rem, add |-> add]]
      PROVE  LockInv'
  <2>1. /\ DOMAIN call' = Core /\ \A d \in Core : "pc" \in DOMAIN call'[d]
        /\ \A d \in Core : call'[d].pc = IF d = c THEN "send" ELSE call[d].pc
    BY <1>3 DEF LockInv
  <2>2. c \notin Senders /\ Senders' = Senders \cup {c} BY <1>1, <2>1 DEF Senders
  <2>3. Senders \in SUBSET Core BY DEF Senders
  <2> QED BY <1>3, <2>1, <2>2, <2>3, OneSender DEF LockInv
<1> QED BY <1>1, <1>2, <1>3

\* A core sends a request: the lock is released with the last one.
LEMMA SendLock ==
  ASSUME LockInv, NEW c \in Core, SendReq(c)
  PROVE  LockInv'
<1> DEFINE k    == call[c]
           rems == k.rem # {}
           t    == Min(IF rems THEN k.rem ELSE k.add)
           k2   == [k EXCEPT !.rem = @ \ {t}, !.add = IF rems THEN @ ELSE @ \ {t}]
           last == k2.rem = {} /\ k2.add = {}
<1>1. /\ k.pc = "send" /\ call' = [call EXCEPT ![c] = IF last THEN AfterSend(k.op) ELSE k2]
      /\ rwcnt' = IF last THEN rwcnt - 1 ELSE rwcnt
  BY DEF SendReq
<1>2. "pc" \in DOMAIN k2 /\ k2.pc = "send" BY <1>1 DEF LockInv
<1>3. \A o : "pc" \in DOMAIN AfterSend(o) /\ AfterSend(o).pc # "send" BY DEF AfterSend, NoCall
<1> HIDE DEF k2, last
<1>4. /\ DOMAIN call' = Core /\ \A d \in Core : "pc" \in DOMAIN call'[d]
      /\ \A d \in Core : d # c => call'[d] = call[d]
      /\ call'[c] = IF last THEN AfterSend(k.op) ELSE k2
  BY <1>1, <1>2, <1>3 DEF LockInv
<1>5. Senders \in SUBSET Core /\ c \in Senders BY <1>1 DEF Senders
<1>6. CASE last
  <2>1. Senders' = Senders \ {c} BY <1>3, <1>4, <1>6 DEF Senders
  <2> QED BY <1>1, <1>4, <1>5, <1>6, <2>1, OneSender DEF LockInv
<1>7. CASE ~last
  <2>1. Senders' = Senders BY <1>1, <1>2, <1>4, <1>7 DEF Senders
  <2> QED BY <1>1, <1>4, <1>7, <2>1 DEF LockInv
<1> QED BY <1>6, <1>7

\* A synchronous call returns.
LEMMA ReturnLock ==
  ASSUME LockInv, NEW c \in Core, SyncReturn(c)
  PROVE  LockInv'
<1>1. call[c].pc = "wait" /\ call' = [call EXCEPT ![c] = NoCall] /\ rwcnt' = rwcnt BY DEF SyncReturn
<1>2. "pc" \in DOMAIN NoCall /\ NoCall.pc = "idle" BY DEF NoCall
<1>3. /\ DOMAIN call' = Core /\ \A d \in Core : "pc" \in DOMAIN call'[d]
      /\ \A d \in Core : call'[d].pc = IF d = c THEN "idle" ELSE call[d].pc
  BY <1>1, <1>2 DEF LockInv
<1>4. Senders' = Senders BY <1>1, <1>3 DEF Senders
<1> QED BY <1>1, <1>3, <1>4 DEF LockInv

\* The lock counts the cores that send, as long as no send fails.
LEMMA LockStep ==
  ASSUME "op" \notin MayFail, LockInv, [Next]_vars
  PROVE  LockInv'
<1>1. ASSUME NEW c \in Core, Works(c), ~SendReq(c), ~SyncReturn(c) PROVE UNCHANGED <<call, rwcnt>>
  <2>1. CASE PollThr(c) \/ PollShared(c) BY <2>1 DEF PollThr, PollShared, opVars
  <2>2. CASE HandleAdd(c) \/ HandleRem(c) \/ HandleDone(c)
    BY <2>2 DEF HandleAdd, HandleRem, HandleDone, Takes
  <2>3. CASE HandleTerm(c) \/ HandleTermDone(c)
    BY <2>3 DEF HandleTerm, HandleTermDone, Takes, opVars
  <2>4. CASE TermPolled(c) \/ TermExtPolled(c) BY <2>4 DEF TermPolled, TermExtPolled, opVars
  <2>5. CASE JoinGroups(c) BY <2>5 DEF JoinGroups
  <2>6. CASE \E g \in Group : LeaveGroup(c, g) BY <2>6 DEF LeaveGroup
  <2> QED BY <1>1, <2>1, <2>2, <2>3, <2>4, <2>5, <2>6 DEF Works
<1>2. ASSUME NEW c \in Core, SendFail(c) PROVE FALSE BY <1>2 DEF SendFail
<1>3. ASSUME NEW c \in Core, TermBegin(c) \/ InitCore(c) \/ InitExt(c) \/ TermExt(c)
      PROVE  UNCHANGED <<call, rwcnt>>
  BY <1>3 DEF TermBegin, InitCore, InitExt, TermExt, opVars
<1>4. ASSUME NEW g \in Dyn, QueueCreate(g) \/ QueueDelete(g) PROVE UNCHANGED <<call, rwcnt>>
  BY <1>4 DEF QueueCreate, QueueDelete
<1>5. CASE UNCHANGED vars
  <2>1. UNCHANGED <<call, rwcnt>> BY <1>5 DEF vars
  <2> QED BY <2>1, LockSame
<1> QED BY <1>1, <1>2, <1>3, <1>4, <1>5, LockSame, CallLock, SendLock, ReturnLock DEF Next

\* The core map changes only when no core holds the lock.
LEMMA MapChange ==
  ASSUME [Next]_vars, logic' # logic
  PROVE  rwcnt = 0
<1>1. ASSUME NEW c \in Core, Calls(c) PROVE logic' = logic
  <2>1. PICK g \in Dyn, m \in SUBSET Core, sync \in BOOLEAN :
          \/ Create(c, g, m, sync)
          \/ ModifySync(c, g, m, "modify") \/ ModifyAsync(c, g, m, "modify")
          \/ ModifySync(c, g, m, "delete") \/ ModifyAsync(c, g, m, "delete")
    BY <1>1 DEF Calls
  <2>2. UNCHANGED mapVars BY <2>1 DEF Create, ModifySync, ModifyAsync
  <2> QED BY <2>2 DEF mapVars
<1>2. ASSUME NEW c \in Core, Works(c) PROVE logic' = logic
  BY <1>2
     DEF Works, SendReq, SyncReturn, PollThr, PollShared, HandleAdd, HandleRem, HandleDone, HandleTerm,
              HandleTermDone, TermPolled, TermExtPolled, JoinGroups, LeaveGroup, mapVars
<1>3. ASSUME NEW c \in Core, SendFail(c) \/ InitExt(c) \/ TermExt(c) PROVE logic' = logic
  BY <1>3 DEF SendFail, InitExt, TermExt, mapVars
<1>4. ASSUME NEW c \in Core, TermBegin(c) \/ InitCore(c) PROVE rwcnt = 0
  BY <1>4 DEF TermBegin, InitCore
<1>5. ASSUME NEW g \in Dyn, QueueCreate(g) \/ QueueDelete(g) PROVE logic' = logic
  BY <1>5 DEF QueueCreate, QueueDelete, mapVars
<1>6. CASE UNCHANGED vars BY <1>6 DEF vars
<1> QED BY <1>1, <1>2, <1>3, <1>4, <1>5, <1>6 DEF Next

\* The lock when every core has started.
LEMMA InitLock == Init => LockInv
<1> SUFFICES ASSUME Init PROVE LockInv OBVIOUS
<1>1. "pc" \in DOMAIN NoCall /\ NoCall.pc = "idle" BY DEF NoCall
<1>2. call = [c \in Core |-> NoCall] /\ rwcnt = 0 BY DEF Init
<1>3. Senders = {} BY <1>1, <1>2 DEF Senders
<1>4. Cardinality({}) = 0 BY FS_EmptySet
<1> QED BY <1>1, <1>2, <1>3, <1>4 DEF LockInv

\* The core map does not change while a core is between queue_group_check_mask()
\* and the last send of its requests (send_addrem_events()), if no send fails:
\* however many cores call, terminate and start at the same time.
THEOREM CoreMapStableHolds == ASSUME "op" \notin MayFail PROVE Spec => CoreMapStable
<1>1. Init => LockInv BY InitLock
<1>2. LockInv /\ [Next]_vars => LockInv' BY LockStep
<1>3. LockInv /\ [Next]_vars => [logic' # logic => \A c \in Core : call[c].pc # "send"]_vars
  <2> SUFFICES ASSUME LockInv, [Next]_vars, logic' # logic PROVE \A c \in Core : call[c].pc # "send"
    OBVIOUS
  <2>1. Cardinality(Senders) = 0 BY MapChange DEF LockInv
  <2>2. Senders \in SUBSET Core BY DEF Senders
  <2>3. Senders = {} BY <2>1, <2>2, Constants, FS_EmptySet
  <2> QED BY <2>3 DEF Senders
<1> QED BY <1>1, <1>2, <1>3, PTL DEF Spec, CoreMapStable

-----------------------------------------------------------------------------
(* The members of a queue group. *)

\* No request is on its way to a thread that is not in the core map, and a core
\* that terminates has handled those that were when it stops to poll.
QuietInv ==
  /\ \A c \in Core \ logic, o \in DOMAIN ops, k \in {"ADD", "REM"} : ~Unsent(o, k, c)
  /\ \A c \in Core : st[c] \in {"leave", "down", "ext", "extterm"} =>
       \A m \in Mail(c) : m.t \notin {"ADD", "REM", "TERM"}
  /\ \A c \in Core : st[c] = "term" /\ ph[c] \in {"thr", "out"} =>
       \A m \in ToSet(ctrlq[c]) : m.t \notin {"ADD", "REM"}

\* A group has one running operation at most, and only that one has requests.
OneOpInv ==
  /\ \A o, p \in DOMAIN ops : Running(o) /\ Running(p) /\ ops[o].g = ops[p].g => o = p
  /\ \A o \in DOMAIN ops : ~Running(o) => Open(o) = {}

\* The running operation of the group has a request of kind k for thread d.
Asked(g, k, d) == \E o \in DOMAIN ops : ops[o].g = g /\ Running(o) /\ <<k, d>> \in Open(o)

\* The schedule group of a queue group is its core mask but for the requests
\* that are not handled.
MemberInv ==
  \A g \in Group : grp[g].alloc =>
    \A d \in Core :
      /\ Asked(g, "ADD", d) => d \in grp[g].mask
      /\ Asked(g, "REM", d) => d \notin grp[g].mask
      /\ d \in grp[g].sched <=> \/ d \in grp[g].mask /\ ~Asked(g, "ADD", d)
                                \/ Asked(g, "REM", d)

\* A free element is unused; one marked for deletion has no queues and is
\* being deleted.
FreeInv ==
  \A g \in Group :
    /\ ~grp[g].alloc => grp[g].sched = {} /\ grp[g].queues = 0 /\ ~Pending(g)
    /\ grp[g].del => /\ grp[g].queues = 0
                     /\ \E o \in DOMAIN ops : ops[o].g = g /\ Running(o) /\ ops[o].kind = "delete"

\* The inductive invariant of orderly operations.
SettledInv == IInv /\ LockInv /\ QuietInv /\ OneOpInv /\ MemberInv /\ FreeInv

\* A step that neither sends nor handles a request, and sends TERM requests only
\* to the cores of the core map.
Calm ==
  /\ \A o, k, d : Unsent(o, k, d)' <=> Unsent(o, k, d)
  /\ \A d \in Core : \A m : m.t \in {"ADD", "REM"} => (m \in Mail(d)' <=> m \in Mail(d))
  /\ \A d \in Core : \A m \in Mail(d)' : m \in Mail(d) \/ m.t # "TERM" \/ d \in logic'
  /\ \A d \in Core : \A m \in ToSet(ctrlq'[d]) : m.t \in {"ADD", "REM"} => m \in ToSet(ctrlq[d])

\* Threads that have left the core map for good, and a core that has stopped
\* to poll, are not joined by others in a step.
Stays ==
  /\ \A d \in Core : st'[d] \in {"leave", "down", "ext", "extterm"} =>
       st[d] \in {"leave", "down", "ext", "extterm"}
  /\ \A d \in Core : st'[d] = "term" /\ ph'[d] \in {"thr", "out"} =>
       ctrlq'[d] = <<>> \/ (st[d] = "term" /\ ph[d] \in {"thr", "out"})

\* A step that sends requests only to the cores of the core map.
ToMap ==
  /\ \A d \in Core \ logic', o \in DOMAIN ops', k \in {"ADD", "REM"} : ~Unsent(o, k, d)'
  /\ \A d \in Core : \A m \in Mail(d)' :
       m \in Mail(d) \/ m.t \notin {"ADD", "REM", "TERM"} \/ d \in logic'
  /\ \A d \in Core : \A m \in ToSet(ctrlq'[d]) :
       m \in ToSet(ctrlq[d]) \/ m.t \notin {"ADD", "REM"} \/ d \in logic'

\* It keeps the threads outside of the core map quiet.
LEMMA QuietKept ==
  ASSUME QuietInv, MapInv', ToMap, Stays
  PROVE  QuietInv'
<1>1. ASSUME NEW d \in Core, st'[d] \in {"leave", "down", "ext", "extterm"}, NEW m \in Mail(d)'
      PROVE  m.t \notin {"ADD", "REM", "TERM"}
  <2>1. d \notin logic' BY <1>1 DEF MapInv
  <2>2. st[d] \in {"leave", "down", "ext", "extterm"} BY <1>1 DEF Stays
  <2>3. \A x \in Mail(d) : x.t \notin {"ADD", "REM", "TERM"} BY <2>2 DEF QuietInv
  <2> QED BY <1>1, <2>1, <2>3 DEF ToMap
<1>2. ASSUME NEW d \in Core, st'[d] = "term", ph'[d] \in {"thr", "out"}, NEW m \in ToSet(ctrlq'[d])
      PROVE  m.t \notin {"ADD", "REM"}
  <2>1. d \notin logic' BY <1>2 DEF MapInv
  <2>2. CASE ctrlq'[d] = <<>> BY <1>2, <2>2, EmptyQueue
  <2>3. CASE st[d] = "term" /\ ph[d] \in {"thr", "out"}
    <3>1. \A x \in ToSet(ctrlq[d]) : x.t \notin {"ADD", "REM"} BY <2>3 DEF QuietInv
    <3> QED BY <1>2, <2>1, <3>1 DEF ToMap
  <2> QED BY <1>2, <2>2, <2>3 DEF Stays
<1> QED BY <1>1, <1>2 DEF QuietInv, ToMap

\* A calm step is one, as the core map only changes when no core sends.
LEMMA CalmToMap ==
  ASSUME QuietInv, Calm, DOMAIN ops' = DOMAIN ops, logic' # logic => Senders = {}
  PROVE  ToMap
<1>1. ASSUME NEW d \in Core \ logic', NEW o \in DOMAIN ops, NEW k \in {"ADD", "REM"}, Unsent(o, k, d)
      PROVE  FALSE
  <2>1. CASE logic' = logic BY <1>1, <2>1 DEF QuietInv
  <2>2. CASE Senders = {} BY <1>1, <2>2 DEF Unsent, Senders
  <2> QED BY <2>1, <2>2
<1>2. \A d \in Core \ logic', o \in DOMAIN ops', k \in {"ADD", "REM"} : ~Unsent(o, k, d)'
  BY <1>1 DEF Calm
<1>3. \A d \in Core : \A m \in Mail(d)' :
        m \in Mail(d) \/ m.t \notin {"ADD", "REM", "TERM"} \/ d \in logic'
  BY DEF Calm
<1>4. \A d \in Core : \A m \in ToSet(ctrlq'[d]) :
        m \in ToSet(ctrlq[d]) \/ m.t \notin {"ADD", "REM"} \/ d \in logic'
  BY DEF Calm
<1> QED BY <1>2, <1>3, <1>4 DEF ToMap

\* A calm step keeps the open requests.
LEMMA OpenCalm ==
  ASSUME Calm PROVE \A o : Open(o)' = Open(o)
<1>1. \A p, k, d : Unsent(p, k, d)' <=> Unsent(p, k, d) BY DEF Calm
<1>2. \A k \in {"ADD", "REM"}, d \in Core : \A o :
        [t |-> k, id |-> o] \in Mail(d)' <=> [t |-> k, id |-> o] \in Mail(d)
  BY DEF Calm
<1> QED BY <1>1, <1>2 DEF Open

\* Operations and groups with the same open requests.
LEMMA MembersSame ==
  ASSUME OneOpInv, MemberInv, FreeInv, OpsAlike, UNCHANGED grp,
         \A o \in DOMAIN ops : Open(o)' = Open(o)
  PROVE  OneOpInv' /\ MemberInv' /\ FreeInv'
<1>1. \A o : Running(o)' <=> Running(o) BY DEF OpsAlike, Running
<1>2. \A g, k, d : Asked(g, k, d)' <=> Asked(g, k, d) BY <1>1 DEF Asked, OpsAlike
<1>3. \A g : Pending(g)' <=> Pending(g) BY DEF OpsAlike, Pending
<1>4. OneOpInv' BY <1>1 DEF OneOpInv, OpsAlike
<1>5. MemberInv' BY <1>2 DEF MemberInv
<1>6. FreeInv'
  <2>1. ASSUME NEW g \in Group, ~grp[g].alloc
        PROVE  grp[g].sched = {} /\ grp[g].queues = 0 /\ ~Pending(g)'
    BY <1>3, <2>1 DEF FreeInv
  <2>2. ASSUME NEW g \in Group, grp[g].del
        PROVE  /\ grp[g].queues = 0
               /\ \E o \in DOMAIN ops' : ops'[o].g = g /\ Running(o)' /\ ops'[o].kind = "delete"
    BY <1>1, <2>2 DEF FreeInv, OpsAlike
  <2> QED BY <2>1, <2>2 DEF FreeInv
<1> QED BY <1>4, <1>5, <1>6

\* The parts of the invariant that a step keeps that sends and handles no
\* request and changes no operation and no group.
LEMMA CalmStep ==
  ASSUME SettledInv, IInv', LockInv', [Next]_vars, Calm, Stays, OpsAlike, UNCHANGED grp
  PROVE  SettledInv'
<1>1. logic' # logic => Senders = {}
  <2> SUFFICES ASSUME logic' # logic PROVE Senders = {} OBVIOUS
  <2>1. Cardinality(Senders) = 0 BY MapChange DEF SettledInv, LockInv
  <2>2. Senders \in SUBSET Core BY DEF Senders
  <2> QED BY <2>1, <2>2, Constants, FS_EmptySet
<1>2. QuietInv' BY <1>1, CalmToMap, QuietKept DEF SettledInv, IInv, OpsAlike
<1>3. OneOpInv' /\ MemberInv' /\ FreeInv' BY OpenCalm, MembersSame DEF SettledInv
<1> QED BY <1>2, <1>3 DEF SettledInv

\* A step that moves no control event.
LEMMA CalmSame ==
  ASSUME UNCHANGED <<call, ctrlq, batch>> PROVE Calm /\ \A d : Mail(d)' = Mail(d)
<1>1. \A d : Mail(d)' = Mail(d) BY DEF Mail
<1>2. \A o, k, d : Unsent(o, k, d)' <=> Unsent(o, k, d) BY DEF Unsent
<1> QED BY <1>1, <1>2 DEF Calm

\* Operations that do not change.
LEMMA OpsSame ==
  ASSUME UNCHANGED ops PROVE OpsAlike
BY DEF OpsAlike

\* A thread dequeues its control queue.
LEMMA PollThrSettled ==
  ASSUME SettledInv, IInv', LockInv', NEW c \in Core, PollThr(c)
  PROVE  SettledInv'
<1>1. /\ batch' = [batch EXCEPT ![c] = ctrlq[c]] /\ ctrlq' = [ctrlq EXCEPT ![c] = <<>>]
      /\ ph' = [ph EXCEPT ![c] = "thr"] /\ batch[c] = <<>>
      /\ UNCHANGED <<opVars, mapVars, rwcnt, shared, st>>
  BY DEF PollThr, SettledInv, IInv, MailInv
<1>2. UNCHANGED <<ops, call, grp, st, logic>> BY <1>1 DEF opVars, mapVars
<1>3. /\ batch'[c] = ctrlq[c] /\ ctrlq'[c] = <<>> /\ ph'[c] = "thr"
      /\ \A d \in Core : d # c => batch'[d] = batch[d] /\ ctrlq'[d] = ctrlq[d] /\ ph'[d] = ph[d]
  BY <1>1 DEF SettledInv, IInv, TypeOK
<1>4. \A d \in Core : /\ Mail(d)' = Mail(d)
                      /\ \A m \in ToSet(ctrlq'[d]) : m \in ToSet(ctrlq[d])
  <2> TAKE d \in Core
  <2>1. CASE d = c BY <1>1, <1>3, <2>1, EmptyQueue DEF Mail
  <2>2. CASE d # c BY <1>3, <2>2 DEF Mail
  <2> QED BY <2>1, <2>2
<1>5. \A o, k, d : Unsent(o, k, d)' <=> Unsent(o, k, d) BY <1>2 DEF Unsent
<1>6. Calm BY <1>4, <1>5 DEF Calm
<1>7. Stays BY <1>2, <1>3 DEF Stays
<1>8. [Next]_vars BY DEF Next, Works
<1> QED BY <1>2, <1>6, <1>7, <1>8, OpsSame, CalmStep

\* A thread dequeues the shared control queue, which holds DONE events.
LEMMA PollSharedSettled ==
  ASSUME SettledInv, IInv', LockInv', NEW c \in Core, PollShared(c)
  PROVE  SettledInv'
<1>1. /\ batch' = [batch EXCEPT ![c] = @ \o shared] /\ ph[c] = "thr"
      /\ ph' = [ph EXCEPT ![c] = IF batch'[c] = <<>> THEN "out" ELSE "ev"]
      /\ UNCHANGED <<opVars, mapVars, rwcnt, ctrlq, st>>
  BY DEF PollShared
<1>2. UNCHANGED <<ops, call, grp, st, logic, ctrlq>> BY <1>1 DEF opVars, mapVars
<1>3. \A d \in Core : d # c => batch'[d] = batch[d] /\ ph'[d] = ph[d]
  BY <1>1 DEF SettledInv, IInv, TypeOK
<1>4. ToSet(batch'[c]) = ToSet(batch[c]) \cup ToSet(shared)
  <2>1. batch'[c] = batch[c] \o shared BY <1>1 DEF SettledInv, IInv, TypeOK
  <2>2. batch[c] \in Seq(Msg) /\ shared \in Seq(Msg) BY DEF SettledInv, IInv, TypeOK
  <2> QED BY <2>1, <2>2, Joined
<1>5. \A m \in ToSet(shared) : m.t = "DONE" BY DEF SettledInv, IInv, MailInv
<1>6. ASSUME NEW d \in Core, NEW m
      PROVE  /\ m.t \in {"ADD", "REM"} => (m \in Mail(d)' <=> m \in Mail(d))
             /\ m \in Mail(d)' => m \in Mail(d) \/ m.t = "DONE"
  <2>1. CASE d = c BY <1>2, <1>4, <1>5, <2>1 DEF Mail
  <2>2. CASE d # c BY <1>2, <1>3, <2>2 DEF Mail
  <2> QED BY <2>1, <2>2
<1>7. \A o, k, d : Unsent(o, k, d)' <=> Unsent(o, k, d) BY <1>2 DEF Unsent
<1>8. Calm BY <1>2, <1>6, <1>7 DEF Calm
<1>9. Stays BY <1>1, <1>2, <1>3 DEF Stays
<1>10. [Next]_vars BY DEF Next, Works
<1> QED BY <1>2, <1>8, <1>9, <1>10, OpsSame, CalmStep

\* A synchronous call returns.
LEMMA ReturnSettled ==
  ASSUME SettledInv, IInv', LockInv', NEW c \in Core, SyncReturn(c)
  PROVE  SettledInv'
<1>1. /\ call[c].pc = "wait" /\ call' = [call EXCEPT ![c] = NoCall]
      /\ UNCHANGED <<grp, ops, mapVars, pollVars, ctrlq, st>>
  BY DEF SyncReturn
<1>2. UNCHANGED <<logic, ph, batch>> BY <1>1 DEF mapVars, pollVars
<1>3. call'[c].pc = "idle" /\ \A d \in Core : d # c => call'[d] = call[d]
  BY <1>1, CallReturns DEF SettledInv, IInv
<1>4. ASSUME NEW o, NEW k, NEW d PROVE Unsent(o, k, d)' <=> Unsent(o, k, d)
  BY <1>1, <1>3 DEF Unsent
<1>5. \A d : Mail(d)' = Mail(d) BY <1>1, <1>2 DEF Mail
<1>6. Calm BY <1>1, <1>4, <1>5 DEF Calm
<1>7. Stays BY <1>1, <1>2 DEF Stays
<1>8. [Next]_vars BY DEF Next, Works
<1> QED BY <1>1, <1>6, <1>7, <1>8, OpsSame, CalmStep

\* A thread starts, or an external one ends.
LEMMA LifeSettled ==
  ASSUME SettledInv, IInv', LockInv', NEW c \in Core, InitCore(c) \/ InitExt(c) \/ TermExtPolled(c)
  PROVE  SettledInv'
<1>1. UNCHANGED <<grp, ops, call, ctrlq, batch, ph>>
  BY DEF InitCore, InitExt, TermExtPolled, opVars, pollVars
<1>2. PICK s \in {"init", "ext", "down"} :
        st' = [st EXCEPT ![c] = s] /\ (s \in {"down", "ext"} => st[c] \in {"down", "extterm"})
  BY DEF InitCore, InitExt, TermExtPolled
<1>3. st'[c] = s /\ \A d \in Core : d # c => st'[d] = st[d] BY <1>2 DEF SettledInv, IInv, TypeOK
<1>4. Stays BY <1>1, <1>2, <1>3 DEF Stays
<1>5. [Next]_vars BY DEF Next, Works
<1> QED BY <1>1, <1>4, <1>5, CalmSame, OpsSame, CalmStep

\* A TERM request, or the DONE event of a termination, is handled.
LEMMA TermSettled ==
  ASSUME SettledInv, IInv', LockInv', NEW c \in Core, HandleTerm(c) \/ HandleTermDone(c)
  PROVE  SettledInv'
<1>0. PICK m : m = Head(batch[c]) OBVIOUS
<1>1. PICK k \in {"TERM", "TDONE"} :
        /\ Takes(c, k) /\ UNCHANGED <<opVars, logic>>
        /\ \/ ctrlq' = ctrlq
           \/ /\ m.t = "TERM"
              /\ ctrlq' = [ctrlq EXCEPT ![m.id] = Append(@, [t |-> "TDONE", id |-> m.id])]
  <2>1. CASE HandleTerm(c)
    <3>1. /\ Takes(c, "TERM") /\ UNCHANGED <<opVars, logic>>
          /\ ctrlq' = IF tleft[m.id] # 1 THEN ctrlq
                      ELSE [ctrlq EXCEPT ![m.id] = Append(@, [t |-> "TDONE", id |-> m.id])]
      BY <1>0, <2>1 DEF HandleTerm
    <3>2. m.t = "TERM" BY <1>0, <3>1 DEF Takes
    <3>3. CASE tleft[m.id] # 1 BY <3>1, <3>3
    <3>4. CASE tleft[m.id] = 1 BY <3>1, <3>2, <3>4
    <3> QED BY <3>3, <3>4
  <2>2. CASE HandleTermDone(c)
    <3>1. Takes(c, "TDONE") /\ UNCHANGED <<opVars, logic, ctrlq>> BY <2>2 DEF HandleTermDone
    <3> QED BY <3>1
  <2> QED BY <2>1, <2>2
<1>2. IInv BY DEF SettledInv
<1>3. /\ m \in Msg /\ m.t = k
      /\ \A d \in Core : ToSet(batch'[d]) = ToSet(batch[d]) \ (IF d = c THEN {m} ELSE {})
      /\ UNCHANGED <<ph, st>>
  BY <1>0, <1>1, <1>2, TakeEffect
<1>4. \A d \in Core : \A x : x \in ToSet(ctrlq'[d]) <=>
                               x \in ToSet(ctrlq[d]) \/ (x \in ToSet(ctrlq'[d]) /\ x.t = "TDONE")
  <2>1. CASE ctrlq' = ctrlq BY <2>1
  <2>2. CASE m.t = "TERM" /\ ctrlq' = [ctrlq EXCEPT ![m.id] = Append(@, [t |-> "TDONE", id |-> m.id])]
    <3>1. PICK i \in Core : i = m.id BY <1>3, <2>2 DEF Msg
    <3>2. PICK y \in Msg : y = [t |-> "TDONE", id |-> i] BY DEF Msg
    <3>3. ctrlq \in [Core -> Seq(Msg)] BY <1>2 DEF IInv, TypeOK
    <3>4. ctrlq' = [ctrlq EXCEPT ![i] = Append(ctrlq[i], y)] BY <2>2, <3>1, <3>2
    <3>5. ctrlq'[i] = Append(ctrlq[i], y) /\ \A d \in Core : d # i => ctrlq'[d] = ctrlq[d]
      BY <3>3, <3>4
    <3>6. ToSet(ctrlq'[i]) = ToSet(ctrlq[i]) \cup {y} BY <3>3, <3>5, Enqueued
    <3>7. y.t = "TDONE" BY <3>2
    <3>8. ASSUME NEW d \in Core, NEW x
          PROVE  x \in ToSet(ctrlq'[d]) <=>
                   x \in ToSet(ctrlq[d]) \/ (x \in ToSet(ctrlq'[d]) /\ x.t = "TDONE")
      <4>1. CASE d = i BY <3>6, <3>7, <4>1
      <4>2. CASE d # i BY <3>5, <4>2
      <4> QED BY <4>1, <4>2
    <3> QED BY <3>8
  <2> QED BY <1>1, <2>1, <2>2
<1>5. ASSUME NEW d \in Core, NEW x
      PROVE  /\ x.t \in {"ADD", "REM"} => (x \in Mail(d)' <=> x \in Mail(d))
             /\ x \in Mail(d)' => x \in Mail(d) \/ x.t # "TERM"
  BY <1>3, <1>4 DEF Mail
<1>6. UNCHANGED <<ops, call, grp>> BY <1>1 DEF opVars
<1>7. \A o, j, d : Unsent(o, j, d)' <=> Unsent(o, j, d) BY <1>6 DEF Unsent
<1>8. Calm BY <1>4, <1>5, <1>7 DEF Calm
<1>9. Stays BY <1>3 DEF Stays
<1>10. [Next]_vars BY DEF Next, Works
<1> QED BY <1>6, <1>8, <1>9, <1>10, OpsSame, CalmStep

\* A core or external thread starts to terminate: TERM requests go to the
\* cores of the core map.
LEMMA TermReqsSettled ==
  ASSUME SettledInv, IInv', LockInv', NEW c \in Core, TermBegin(c) \/ TermExt(c)
  PROVE  SettledInv'
<1>1. PICK s \in {"term", "extterm"}, R \in SUBSET logic' :
        /\ TermReqs(c, R) \/ ctrlq' = ctrlq
        /\ st' = [st EXCEPT ![c] = s] /\ ph' = [ph EXCEPT ![c] = "ev"]
        /\ (s = "extterm" => st[c] = "ext")
        /\ UNCHANGED <<grp, ops, call, batch>>
  <2>1. CASE TermBegin(c)
    <3>1. /\ TermReqs(c, logic \ {c}) \/ ctrlq' = ctrlq
          /\ logic' = logic \ {c} /\ st' = [st EXCEPT ![c] = "term"] /\ ph' = [ph EXCEPT ![c] = "ev"]
          /\ UNCHANGED <<grp, ops, call, batch>>
      BY <2>1 DEF TermBegin, opVars
    <3> QED BY <3>1
  <2>2. CASE TermExt(c)
    <3>1. /\ TermReqs(c, logic) /\ st[c] = "ext"
          /\ logic' = logic /\ st' = [st EXCEPT ![c] = "extterm"] /\ ph' = [ph EXCEPT ![c] = "ev"]
          /\ UNCHANGED <<grp, ops, call, batch>>
      BY <2>2 DEF TermExt, opVars
    <3> QED BY <3>1
  <2> QED BY <2>1, <2>2
<1>2. PICK y \in Msg : y = [t |-> "TERM", id |-> c] BY DEF Msg
<1>3. ctrlq \in [Core -> Seq(Msg)] BY DEF SettledInv, IInv, TypeOK
<1>4. ASSUME NEW d \in Core, NEW x
      PROVE  x \in ToSet(ctrlq'[d]) <=> x \in ToSet(ctrlq[d]) \/ (x \in ToSet(ctrlq'[d]) /\ x = y /\ d \in R)
  <2>1. CASE ctrlq' = ctrlq BY <2>1
  <2>2. CASE TermReqs(c, R)
    <3>1. ctrlq'[d] = IF d \in R THEN Append(ctrlq[d], y) ELSE ctrlq[d] BY <1>2, <2>2 DEF TermReqs
    <3>2. ToSet(Append(ctrlq[d], y)) = ToSet(ctrlq[d]) \cup {y} BY <1>3, Enqueued
    <3> QED BY <3>1, <3>2
  <2> QED BY <1>1, <2>1, <2>2
<1>5. ASSUME NEW d \in Core, NEW x
      PROVE  /\ x.t \in {"ADD", "REM"} => (x \in Mail(d)' <=> x \in Mail(d))
             /\ x \in Mail(d)' => x \in Mail(d) \/ x.t # "TERM" \/ d \in logic'
  BY <1>1, <1>2, <1>4 DEF Mail
<1>6. \A o, j, d : Unsent(o, j, d)' <=> Unsent(o, j, d) BY <1>1 DEF Unsent
<1>7. Calm BY <1>2, <1>4, <1>5, <1>6 DEF Calm
<1>8. /\ st'[c] = s /\ ph'[c] = "ev"
      /\ \A d \in Core : d # c => st'[d] = st[d] /\ ph'[d] = ph[d]
  BY <1>1 DEF SettledInv, IInv, TypeOK
<1>9. Stays BY <1>1, <1>8 DEF Stays
<1>10. [Next]_vars BY DEF Next
<1> QED BY <1>1, <1>7, <1>9, <1>10, OpsSame, CalmStep

\* A core has handled every request when it stops to poll: those it was sent
\* before it left the core map by the handshake, TERM requests by their count.
LEMMA TermPolledSettled ==
  ASSUME SettledInv, IInv', LockInv', NEW c \in Core, TermPolled(c)
  PROVE  SettledInv'
<1>1. /\ st[c] = "term" /\ ph[c] = "out" /\ treqs[c] = 0 /\ st' = [st EXCEPT ![c] = "leave"]
      /\ UNCHANGED <<grp, ops, call, ctrlq, batch, ph, logic>>
  BY DEF TermPolled, TermLoopDone, opVars, pollVars
<1>2. st'[c] = "leave" /\ \A d \in Core : d # c => st'[d] = st[d]
  BY <1>1 DEF SettledInv, IInv, TypeOK
<1>3. \A d : Mail(d)' = Mail(d) BY <1>1 DEF Mail
<1>4. \A o, k, d : Unsent(o, k, d)' <=> Unsent(o, k, d) BY <1>1 DEF Unsent
<1>5. \A m \in Mail(c) : m.t \notin {"ADD", "REM", "TERM"}
  <2>1. batch[c] = <<>> BY <1>1 DEF SettledInv, IInv, MailInv
  <2>2. Mail(c) = ToSet(ctrlq[c]) BY <2>1, EmptyQueue DEF Mail
  <2>3. \A m \in Mail(c) : m.t \notin {"ADD", "REM"} BY <1>1, <2>2 DEF SettledInv, QuietInv
  <2>4. TermOf(c) = {}
    <3>1. TermOf(c) \in SUBSET Core BY DEF TermOf
    <3>2. IsFiniteSet(TermOf(c)) /\ Cardinality(TermOf(c)) \in Nat BY <3>1, Constants
    <3>3. treqs[c] >= Cardinality(TermOf(c)) BY DEF SettledInv, IInv, TermInv
    <3>4. Cardinality(TermOf(c)) = 0 BY <1>1, <3>2, <3>3
    <3> QED BY <3>2, <3>4, FS_EmptySet
  <2>5. \A m \in Mail(c) : m.t # "TERM"
    <3> SUFFICES ASSUME NEW m \in Mail(c), m.t = "TERM" PROVE FALSE OBVIOUS
    <3>1. m \in Msg
      <4>1. ctrlq[c] \in Seq(Msg) BY DEF SettledInv, IInv, TypeOK
      <4> QED BY <2>2, <4>1, Elements
    <3>2. m.id \in Core /\ m = [t |-> "TERM", id |-> m.id] BY <3>1 DEF Msg
    <3> QED BY <2>4, <3>2 DEF TermOf
  <2> QED BY <2>3, <2>5
<1>6. QuietInv'
  <2>1. ASSUME NEW d \in Core \ logic, NEW o \in DOMAIN ops, NEW k \in {"ADD", "REM"}
        PROVE  ~Unsent(o, k, d)
    BY DEF SettledInv, QuietInv
  <2>2. ASSUME NEW d \in Core, st'[d] \in {"leave", "down", "ext", "extterm"}
        PROVE  \A m \in Mail(d) : m.t \notin {"ADD", "REM", "TERM"}
    <3>1. CASE d = c BY <1>5, <3>1
    <3>2. CASE d # c BY <1>2, <2>2, <3>2 DEF SettledInv, QuietInv
    <3> QED BY <3>1, <3>2
  <2>3. ASSUME NEW d \in Core, st'[d] = "term", ph[d] \in {"thr", "out"}
        PROVE  \A m \in ToSet(ctrlq[d]) : m.t \notin {"ADD", "REM"}
    BY <1>2, <2>3 DEF SettledInv, QuietInv
  <2> QED BY <1>1, <1>3, <1>4, <2>1, <2>2, <2>3 DEF QuietInv
<1>7. OneOpInv' /\ MemberInv' /\ FreeInv'
  BY <1>1, CalmSame, OpenCalm, OpsSame, MembersSame DEF SettledInv
<1> QED BY <1>6, <1>7 DEF SettledInv

\* A request is sent: it was open and still is.
LEMMA SendSettled ==
  ASSUME SettledInv, IInv', LockInv', NEW c \in Core, SendReq(c)
  PROVE  SettledInv'
<1>0. IInv BY DEF SettledInv
<1>1. PICK o : o = call[c].op OBVIOUS
<1>2. PICK k \in {"ADD", "REM"}, t \in Core :
        /\ Unsent(o, k, t)
        /\ ctrlq' = [ctrlq EXCEPT ![t] = Append(@, [t |-> k, id |-> o])]
        /\ \A p \in DOMAIN ops, j \in {"ADD", "REM"}, d \in Core :
             Unsent(p, j, d)' <=> Unsent(p, j, d) /\ ~(p = o /\ j = k /\ d = t)
  BY <1>0, <1>1, SendCall
<1>3. call[c].pc = "send" /\ UNCHANGED <<grp, ops, mapVars, pollVars, st>> BY DEF SendReq
<1>4. UNCHANGED <<logic, ph, batch>> BY <1>3 DEF mapVars, pollVars
<1>5. o \in DOMAIN ops /\ DOMAIN ops \subseteq OpId
  <2>1. o \in DOMAIN ops BY <1>0, <1>1, <1>3 DEF IInv, CallInv
  <2> QED BY <1>0, <2>1, OpTypes DEF IInv
<1>6. t \in logic BY <1>2, <1>5 DEF SettledInv, QuietInv
<1>7. PICK x \in Msg : x = [t |-> k, id |-> o] BY <1>5 DEF Msg
<1>8. \A d \in Core : ToSet(ctrlq'[d]) = ToSet(ctrlq[d]) \cup (IF d = t THEN {x} ELSE {})
  <2>1. ctrlq \in [Core -> Seq(Msg)] BY <1>0 DEF IInv, TypeOK
  <2>2. ctrlq'[t] = Append(ctrlq[t], x) /\ \A d \in Core : d # t => ctrlq'[d] = ctrlq[d]
    BY <1>2, <1>7, <2>1
  <2>3. ToSet(Append(ctrlq[t], x)) = ToSet(ctrlq[t]) \cup {x} BY <2>1, Enqueued
  <2> QED BY <2>2, <2>3
<1>9. \A d \in Core : \A y : y \in Mail(d)' <=> y \in Mail(d) \/ (d = t /\ y = x)
  BY <1>4, <1>8 DEF Mail
<1>10. ASSUME NEW p \in DOMAIN ops PROVE Open(p)' = Open(p)
  <2>1. ASSUME NEW j \in {"ADD", "REM"}, NEW d \in Core
        PROVE  \/ Unsent(p, j, d)' \/ [t |-> j, id |-> p] \in Mail(d)'
               <=> Unsent(p, j, d) \/ [t |-> j, id |-> p] \in Mail(d)
    <3>1. CASE p = o /\ j = k /\ d = t BY <1>2, <1>7, <1>9, <3>1
    <3>2. CASE ~(p = o /\ j = k /\ d = t)
      <4>1. ~(d = t /\ [t |-> j, id |-> p] = x) BY <1>7, <3>2
      <4> QED BY <1>2, <1>9, <3>2, <4>1
    <3> QED BY <3>1, <3>2
  <2> QED BY <2>1 DEF Open
<1>11. OneOpInv' /\ MemberInv' /\ FreeInv' BY <1>3, <1>10, OpsSame, MembersSame DEF SettledInv
<1>12. ToMap
  <2>1. \A d \in Core \ logic, p \in DOMAIN ops, j \in {"ADD", "REM"} : ~Unsent(p, j, d)'
    BY <1>2 DEF SettledInv, QuietInv
  <2>2. \A d \in Core : \A y \in Mail(d)' : y \in Mail(d) \/ d \in logic BY <1>6, <1>9
  <2>3. \A d \in Core : \A y \in ToSet(ctrlq'[d]) : y \in ToSet(ctrlq[d]) \/ d \in logic
    BY <1>6, <1>8
  <2> QED BY <1>3, <1>4, <2>1, <2>2, <2>3 DEF ToMap
<1>13. Stays
  <2>1. \A d \in Core : st[d] = "term" => d \notin logic /\ d # t BY <1>0, <1>6 DEF IInv, MapInv
  <2> QED BY <1>3, <1>4, <2>1 DEF Stays
<1>14. QuietInv' BY <1>12, <1>13, QuietKept DEF SettledInv, IInv
<1> QED BY <1>11, <1>14 DEF SettledInv

\* event_group_count_decrement() sends a DONE event at most.
LEMMA DecrementKeeps ==
  ASSUME IInv, NEW o \in DOMAIN ops, Decrement(o)
  PROVE  /\ OpsAlike
         /\ \A d \in Core : \A x : x \in ToSet(ctrlq'[d]) <=>
              x \in ToSet(ctrlq[d]) \/ (x \in ToSet(ctrlq'[d]) /\ x.t = "DONE")
<1>1. /\ ops[o] \in Operation /\ ops[o].caller \in Core /\ o \in OpId /\ ops \in Seq(Operation)
      /\ ctrlq \in [Core -> Seq(Msg)]
  BY OpTypes DEF IInv, TypeOK
<1>2. OpsAlike
  <2>1. CASE ops' = ops BY <2>1, OpsSame
  <2>2. CASE ops' = [ops EXCEPT ![o].left = @ - 1]
    <3>1. DOMAIN ops' = DOMAIN ops BY <2>2
    <3>2. \A p \in DOMAIN ops : p # o => ops'[p] = ops[p] BY <2>2
    <3>3. ops'[o] = [ops[o] EXCEPT !.left = @ - 1] BY <2>2
    <3>4. /\ ops'[o].kind = ops[o].kind /\ ops'[o].g = ops[o].g /\ ops'[o].st = ops[o].st
          /\ ops'[o].caller = ops[o].caller /\ ops'[o].sync = ops[o].sync
      BY <1>1, <3>3 DEF Operation
    <3> QED BY <3>1, <3>2, <3>4 DEF OpsAlike
  <2> QED BY <2>1, <2>2 DEF Decrement
<1>3. PICK y \in Msg : y = DoneEvent(o) BY <1>1 DEF Msg, DoneEvent
<1>4. ctrlq' = ctrlq \/ ctrlq' = [ctrlq EXCEPT ![ops[o].caller] = Append(@, y)]
  BY <1>3 DEF Decrement, DoneEvent
<1>5. CASE ctrlq' = ctrlq BY <1>2, <1>5
<1>6. CASE ctrlq' = [ctrlq EXCEPT ![ops[o].caller] = Append(@, y)]
  <2>1. PICK h \in Core : h = ops[o].caller BY <1>1
  <2>2. ctrlq'[h] = Append(ctrlq[h], y) /\ \A d \in Core : d # h => ctrlq'[d] = ctrlq[d]
    BY <1>1, <1>6, <2>1
  <2>3. ToSet(ctrlq'[h]) = ToSet(ctrlq[h]) \cup {y} BY <1>1, <2>2, Enqueued
  <2>4. y.t = "DONE" BY <1>3 DEF DoneEvent
  <2>5. ASSUME NEW d \in Core, NEW x
        PROVE  x \in ToSet(ctrlq'[d]) <=> x \in ToSet(ctrlq[d]) \/ (x \in ToSet(ctrlq'[d]) /\ x.t = "DONE")
    <3>1. CASE d = h BY <2>3, <2>4, <3>1
    <3>2. CASE d # h BY <2>2, <3>2
    <3> QED BY <3>1, <3>2
  <2> QED BY <1>2, <2>5
<1> QED BY <1>4, <1>5, <1>6

\* An ADD or REM request is handled: it is no longer open.
LEMMA ReqEffect ==
  ASSUME IInv, NEW c \in Core, HandleAdd(c) \/ HandleRem(c)
  PROVE  \E k \in {"ADD", "REM"}, o \in DOMAIN ops :
           /\ <<k, c>> \in Open(o) /\ OpsAlike
           /\ \A p \in DOMAIN ops : Open(p)' = IF p = o THEN Open(p) \ {<<k, c>>} ELSE Open(p)
           /\ grp' = [grp EXCEPT ![ops[o].g] =
                        IF @.alloc THEN IF k = "ADD" THEN Joins(@, c) ELSE Leaves(@, c) ELSE @]
           /\ \A d \in Core : \A x \in Mail(d)' : x \in Mail(d) \/ x.t = "DONE"
           /\ \A d \in Core : \A x \in ToSet(ctrlq'[d]) : x \in ToSet(ctrlq[d]) \/ x.t = "DONE"
           /\ UNCHANGED <<call, ph, st, logic>>
<1>0. PICK m : m = Head(batch[c]) OBVIOUS
<1>1. PICK k \in {"ADD", "REM"} :
        /\ Takes(c, k) /\ Decrement(m.id) /\ UNCHANGED <<call, mapVars>>
        /\ grp' = [grp EXCEPT ![ops[m.id].g] =
                     IF @.alloc THEN IF k = "ADD" THEN Joins(@, c) ELSE Leaves(@, c) ELSE @]
  <2>1. CASE HandleAdd(c)
    <3>1. /\ Takes(c, "ADD") /\ Decrement(m.id) /\ UNCHANGED <<call, mapVars>>
          /\ grp' = [grp EXCEPT ![ops[m.id].g] = IF @.alloc THEN Joins(@, c) ELSE @]
      BY <1>0, <2>1 DEF HandleAdd
    <3> QED BY <3>1
  <2>2. CASE HandleRem(c)
    <3>1. /\ Takes(c, "REM") /\ Decrement(m.id) /\ UNCHANGED <<call, mapVars>>
          /\ grp' = [grp EXCEPT ![ops[m.id].g] = IF @.alloc THEN Leaves(@, c) ELSE @]
      BY <1>0, <2>2 DEF HandleRem
    <3>2. "REM" # "ADD" OBVIOUS
    <3> QED BY <3>1, <3>2
  <2> QED BY <2>1, <2>2
<1>2. /\ m.t = k /\ m = [t |-> k, id |-> m.id] /\ m \notin ToSet(ctrlq[c]) /\ m \in Mail(c)
      /\ \A d \in Core : ToSet(batch'[d]) = ToSet(batch[d]) \ (IF d = c THEN {m} ELSE {})
      /\ UNCHANGED <<ph, st>>
  BY <1>0, <1>1, TakeEffect
<1>3. PICK o \in DOMAIN ops : o = m.id BY <1>2 DEF IInv, MailInv
<1>4. o \in OpId BY OpTypes DEF IInv
<1>5. m = [t |-> k, id |-> o] BY <1>2, <1>3
<1>6. /\ OpsAlike
      /\ \A d \in Core : \A x : x \in ToSet(ctrlq'[d]) <=>
           x \in ToSet(ctrlq[d]) \/ (x \in ToSet(ctrlq'[d]) /\ x.t = "DONE")
  BY <1>1, <1>3, DecrementKeeps
<1>7. \A d \in Core : \A x : x.t \in {"ADD", "REM"} => (x \in Mail(d)' <=> x \in Mail(d) /\ ~(d = c /\ x = m))
  BY <1>2, <1>6 DEF Mail
<1>8. \A d \in Core : \A x \in Mail(d)' : x \in Mail(d) \/ x.t = "DONE" BY <1>2, <1>6 DEF Mail
<1>9. \A p, j, d : Unsent(p, j, d)' <=> Unsent(p, j, d) BY <1>1 DEF Unsent
<1>10. ~Unsent(o, k, c) BY ZenonT(40), <1>2, <1>4, <1>5 DEF IInv, RequestsMatchCount, EachEventOnce
<1>11. <<k, c>> \in Open(o) BY <1>2, <1>5 DEF Open
<1>12. ASSUME NEW p \in DOMAIN ops
       PROVE  Open(p)' = IF p = o THEN Open(p) \ {<<k, c>>} ELSE Open(p)
  <2>1. ASSUME NEW j \in {"ADD", "REM"}, NEW d \in Core
        PROVE  Unsent(p, j, d)' \/ [t |-> j, id |-> p] \in Mail(d)'
               <=> /\ Unsent(p, j, d) \/ [t |-> j, id |-> p] \in Mail(d)
                   /\ ~(p = o /\ j = k /\ d = c)
    <3>1. [t |-> j, id |-> p] \in Mail(d)' <=>
            [t |-> j, id |-> p] \in Mail(d) /\ ~(d = c /\ [t |-> j, id |-> p] = m)
      BY <1>7
    <3>2. [t |-> j, id |-> p] = m <=> j = k /\ p = o BY <1>5
    <3> QED BY <1>9, <1>10, <3>1, <3>2
  <2>2. \A r \in {"ADD", "REM"} \X Core : r = <<k, c>> <=> r[1] = k /\ r[2] = c OBVIOUS
  <2>3. \A r \in {"ADD", "REM"} \X Core :
          r \in Open(p)' <=> r \in Open(p) /\ ~(p = o /\ r = <<k, c>>)
    BY <2>1, <2>2 DEF Open
  <2>4. Open(p) \subseteq {"ADD", "REM"} \X Core /\ Open(p)' \subseteq {"ADD", "REM"} \X Core
    BY DEF Open
  <2>5. CASE p = o BY <2>3, <2>4, <2>5
  <2>6. CASE p # o BY <2>3, <2>4, <2>6
  <2> QED BY <2>5, <2>6
<1>13. \A d \in Core : \A x \in ToSet(ctrlq'[d]) : x \in ToSet(ctrlq[d]) \/ x.t = "DONE" BY <1>6
<1>14. UNCHANGED <<call, ph, st, logic>> BY <1>1, <1>2 DEF mapVars
<1>15. grp' = [grp EXCEPT ![ops[o].g] =
                 IF @.alloc THEN IF k = "ADD" THEN Joins(@, c) ELSE Leaves(@, c) ELSE @]
  BY <1>1, <1>3
<1> QED BY <1>6, <1>8, <1>11, <1>12, <1>13, <1>14, <1>15

\* The handler of a request makes its thread a member, or no member, as the
\* core mask says.
LEMMA ReqSettled ==
  ASSUME SettledInv, IInv', LockInv', NEW c \in Core, HandleAdd(c) \/ HandleRem(c)
  PROVE  SettledInv'
<1>0. IInv BY DEF SettledInv
<1>1. PICK k \in {"ADD", "REM"}, o \in DOMAIN ops :
        /\ <<k, c>> \in Open(o) /\ OpsAlike
        /\ \A p \in DOMAIN ops : Open(p)' = IF p = o THEN Open(p) \ {<<k, c>>} ELSE Open(p)
        /\ grp' = [grp EXCEPT ![ops[o].g] =
                     IF @.alloc THEN IF k = "ADD" THEN Joins(@, c) ELSE Leaves(@, c) ELSE @]
        /\ \A d \in Core : \A x \in Mail(d)' : x \in Mail(d) \/ x.t = "DONE"
        /\ \A d \in Core : \A x \in ToSet(ctrlq'[d]) : x \in ToSet(ctrlq[d]) \/ x.t = "DONE"
        /\ UNCHANGED <<call, ph, st, logic>>
  BY <1>0, ReqEffect
<1>2. PICK h \in Group : h = ops[o].g /\ grp[h] \in Element BY <1>0, OpTypes DEF IInv
<1>3. Running(o) BY <1>1 DEF SettledInv, OneOpInv
<1>4. grp[h].alloc BY <1>2, <1>3 DEF SettledInv, FreeInv, Pending, Running
<1>5. /\ \A g \in Group : g # h => grp'[g] = grp[g]
      /\ grp'[h] = IF k = "ADD" THEN Joins(grp[h], c) ELSE Leaves(grp[h], c)
  <2>1. grp \in [Group -> Element] BY <1>0 DEF IInv, TypeOK
  <2> QED BY <1>1, <1>2, <1>4, <2>1
<1>6. /\ grp'[h].alloc = grp[h].alloc /\ grp'[h].mask = grp[h].mask
      /\ grp'[h].del = grp[h].del /\ grp'[h].queues = grp[h].queues
      /\ grp'[h].sched = IF k = "ADD" THEN grp[h].sched \cup {c} ELSE grp[h].sched \ {c}
  BY <1>2, <1>5 DEF Joins, Leaves, Element
<1>7. \A p : Running(p)' <=> Running(p) BY <1>1 DEF OpsAlike, Running
<1>8. OneOpInv' BY <1>1, <1>7 DEF SettledInv, OneOpInv, OpsAlike
<1>9. ASSUME NEW g \in Group, NEW j \in {"ADD", "REM"}, NEW d \in Core
      PROVE  Asked(g, j, d)' <=> Asked(g, j, d) /\ ~(g = h /\ j = k /\ d = c)
  <2>1. ASSUME Asked(g, j, d)' PROVE Asked(g, j, d) /\ ~(g = h /\ j = k /\ d = c)
    <3>1. PICK p \in DOMAIN ops : ops[p].g = g /\ Running(p) /\ <<j, d>> \in Open(p)'
      BY <1>1, <1>7, <2>1 DEF Asked, OpsAlike
    <3>2. <<j, d>> \in Open(p) BY <1>1, <3>1
    <3>3. ASSUME g = h, j = k, d = c PROVE FALSE
      <4>1. p = o BY <1>2, <1>3, <3>1, <3>3 DEF SettledInv, OneOpInv
      <4> QED BY <1>1, <3>1, <3>3, <4>1
    <3> QED BY <3>1, <3>2, <3>3 DEF Asked
  <2>2. ASSUME Asked(g, j, d), ~(g = h /\ j = k /\ d = c) PROVE Asked(g, j, d)'
    <3>1. PICK p \in DOMAIN ops : ops[p].g = g /\ Running(p) /\ <<j, d>> \in Open(p)
      BY <2>2 DEF Asked
    <3>2. ~(p = o /\ <<j, d>> = <<k, c>>) BY <1>2, <2>2, <3>1
    <3>3. <<j, d>> \in Open(p)' BY <1>1, <3>1, <3>2
    <3>4. p \in DOMAIN ops' /\ ops'[p].g = g /\ Running(p)' BY <1>1, <1>7, <3>1 DEF OpsAlike
    <3> QED BY <3>3, <3>4 DEF Asked
  <2> QED BY <2>1, <2>2
<1>10. Asked(h, k, c) BY <1>1, <1>2, <1>3 DEF Asked
<1>11. MemberInv'
  <2> SUFFICES ASSUME NEW g \in Group, grp'[g].alloc, NEW d \in Core
               PROVE  /\ Asked(g, "ADD", d)' => d \in grp'[g].mask
                      /\ Asked(g, "REM", d)' => d \notin grp'[g].mask
                      /\ d \in grp'[g].sched <=> \/ d \in grp'[g].mask /\ ~Asked(g, "ADD", d)'
                                                 \/ Asked(g, "REM", d)'
    BY DEF MemberInv
  <2>1. grp[g].alloc /\ grp'[g].mask = grp[g].mask BY <1>5, <1>6
  <2>2. /\ Asked(g, "ADD", d) => d \in grp[g].mask
        /\ Asked(g, "REM", d) => d \notin grp[g].mask
        /\ d \in grp[g].sched <=> \/ d \in grp[g].mask /\ ~Asked(g, "ADD", d)
                                  \/ Asked(g, "REM", d)
    BY <2>1 DEF SettledInv, MemberInv
  <2>3. /\ Asked(g, "ADD", d)' <=> Asked(g, "ADD", d) /\ ~(g = h /\ "ADD" = k /\ d = c)
        /\ Asked(g, "REM", d)' <=> Asked(g, "REM", d) /\ ~(g = h /\ "REM" = k /\ d = c)
    BY <1>9
  <2>4. CASE g = h /\ d = c /\ k = "ADD" BY <1>6, <1>10, <2>1, <2>2, <2>3, <2>4
  <2>5. CASE g = h /\ d = c /\ k = "REM" BY <1>6, <1>10, <2>1, <2>2, <2>3, <2>5
  <2>6. CASE ~(g = h /\ d = c)
    <3>1. d \in grp'[g].sched <=> d \in grp[g].sched BY <1>5, <1>6, <2>6
    <3> QED BY <2>1, <2>2, <2>3, <2>6, <3>1
  <2> QED BY <2>4, <2>5, <2>6
<1>12. FreeInv'
  <2> SUFFICES ASSUME NEW g \in Group
               PROVE  /\ ~grp'[g].alloc => grp'[g].sched = {} /\ grp'[g].queues = 0 /\ ~Pending(g)'
                      /\ grp'[g].del =>
                           /\ grp'[g].queues = 0
                           /\ \E p \in DOMAIN ops' : ops'[p].g = g /\ Running(p)' /\ ops'[p].kind = "delete"
    BY DEF FreeInv
  <2>1. /\ grp'[g].alloc = grp[g].alloc /\ grp'[g].del = grp[g].del /\ grp'[g].queues = grp[g].queues
        /\ ~grp[g].alloc => grp'[g].sched = grp[g].sched
    BY <1>4, <1>5, <1>6
  <2>2. Pending(g)' <=> Pending(g) BY <1>1 DEF OpsAlike, Pending
  <2>3. ASSUME grp[g].del
        PROVE  \E p \in DOMAIN ops' : ops'[p].g = g /\ Running(p)' /\ ops'[p].kind = "delete"
    <3>1. PICK p \in DOMAIN ops : ops[p].g = g /\ Running(p) /\ ops[p].kind = "delete"
      BY <2>3 DEF SettledInv, FreeInv
    <3> QED BY <1>1, <1>7, <3>1 DEF OpsAlike
  <2> QED BY <2>1, <2>2, <2>3 DEF SettledInv, FreeInv
<1>13. QuietInv'
  <2>1. \A p, j, d : Unsent(p, j, d)' <=> Unsent(p, j, d) BY <1>1 DEF Unsent
  <2>2. ToMap
    <3>1. \A d \in Core \ logic', p \in DOMAIN ops', j \in {"ADD", "REM"} : ~Unsent(p, j, d)'
      BY <1>1, <2>1 DEF SettledInv, QuietInv, OpsAlike
    <3> QED BY <1>1, <3>1 DEF ToMap
  <2>3. Stays BY <1>1 DEF Stays
  <2> QED BY <2>2, <2>3, QuietKept DEF SettledInv, IInv
<1> QED BY <1>8, <1>11, <1>12, <1>13 DEF SettledInv

\* The DONE event of an operation is handled: no request is left, and a group
\* that is freed has no member, no queue and no other operation.
LEMMA DoneSettled ==
  ASSUME SettledInv, IInv', LockInv', NEW c \in Core, HandleDone(c)
  PROVE  SettledInv'
<1>0. IInv BY DEF SettledInv
<1>1. PICK m : m = Head(batch[c]) OBVIOUS
<1>2. /\ Takes(c, "DONE") /\ ops' = [ops EXCEPT ![m.id] = Finished(ops[m.id])]
      /\ grp' = [grp EXCEPT ![ops[m.id].g] = IF ops[m.id].kind = "delete" THEN Freed(@) ELSE @]
      /\ UNCHANGED <<call, mapVars, ctrlq>>
  BY <1>1 DEF HandleDone
<1>3. /\ m.t = "DONE" /\ m = [t |-> "DONE", id |-> m.id] /\ m \in Mail(c)
      /\ \A d \in Core : ToSet(batch'[d]) = ToSet(batch[d]) \ (IF d = c THEN {m} ELSE {})
      /\ UNCHANGED <<ph, st>>
  BY <1>0, <1>1, <1>2, TakeEffect
<1>4. PICK o \in DOMAIN ops : o = m.id BY <1>0, <1>3 DEF IInv, MailInv
<1>5. ops[o] \in Operation /\ ops \in Seq(Operation) BY <1>0, OpTypes DEF IInv, TypeOK
<1>6. Running(o) /\ Open(o) = {}
  <2>1. DoneSent(o) BY <1>3, <1>4 DEF DoneSent, DoneEvent
  <2>2. ops[o].st = "run" /\ ops[o].left = 0 /\ ops[o].left = Cardinality(Open(o))
    BY <1>0, <2>1 DEF IInv, RequestsMatchCount
  <2>3. Open(o) = {} BY <2>2, OpenFinite, FS_EmptySet
  <2> QED BY <2>2, <2>3 DEF Running
<1>7. PICK h \in Group : h = ops[o].g /\ grp[h] \in Element BY <1>0, OpTypes DEF IInv
<1>8. /\ DOMAIN ops' = DOMAIN ops /\ \A p \in DOMAIN ops : p # o => ops'[p] = ops[p]
      /\ ops'[o].st = "done" /\ ops'[o].g = h /\ ops'[o].kind = ops[o].kind
  <2>1. DOMAIN ops' = DOMAIN ops /\ \A p \in DOMAIN ops : p # o => ops'[p] = ops[p] BY <1>2, <1>4
  <2>2. ops'[o] = Finished(ops[o]) BY <1>2, <1>4
  <2> QED BY <1>5, <1>7, <2>1, <2>2 DEF Finished, Operation
<1>9. \A p : Running(p)' <=> Running(p) /\ p # o BY <1>8 DEF Running
<1>10. Calm
  <2>1. \A p, k, d : Unsent(p, k, d)' <=> Unsent(p, k, d) BY <1>2 DEF Unsent
  <2>2. \A d \in Core : \A x : /\ x.t \in {"ADD", "REM"} => (x \in Mail(d)' <=> x \in Mail(d))
                               /\ x \in Mail(d)' => x \in Mail(d)
    BY <1>2, <1>3 DEF Mail
  <2> QED BY <1>2, <2>1, <2>2 DEF Calm
<1>11. QuietInv'
  <2>1. logic' = logic BY <1>2 DEF mapVars
  <2>2. ToMap BY <1>8, <1>10, <2>1, CalmToMap DEF SettledInv
  <2>3. Stays BY <1>3, <1>2 DEF Stays
  <2> QED BY <2>2, <2>3, QuietKept DEF SettledInv, IInv
<1>12. \A p : Open(p)' = Open(p) BY <1>10, OpenCalm
<1>13. \A g, k, d : Asked(g, k, d)' <=> Asked(g, k, d)
  <2> TAKE g, k, d
  <2>1. ASSUME Asked(g, k, d)' PROVE Asked(g, k, d) BY <1>8, <1>9, <1>12, <2>1 DEF Asked
  <2>2. ASSUME Asked(g, k, d) PROVE Asked(g, k, d)'
    <3>1. PICK p \in DOMAIN ops : ops[p].g = g /\ Running(p) /\ <<k, d>> \in Open(p)
      BY <2>2 DEF Asked
    <3>2. p # o BY <1>6, <3>1
    <3> QED BY <1>8, <1>9, <1>12, <3>1, <3>2 DEF Asked
  <2> QED BY <2>1, <2>2
<1>14. OneOpInv'
  <2>1. ASSUME NEW p \in DOMAIN ops, NEW q \in DOMAIN ops, Running(p)', Running(q)', ops'[p].g = ops'[q].g
        PROVE  p = q
    BY <1>8, <1>9, <2>1 DEF SettledInv, OneOpInv
  <2>2. ASSUME NEW p \in DOMAIN ops, ~Running(p)' PROVE Open(p)' = {}
    BY <1>6, <1>9, <1>12, <2>2 DEF SettledInv, OneOpInv
  <2> QED BY <1>8, <2>1, <2>2 DEF OneOpInv
<1>15. \A g : Pending(g)' => Pending(g) /\ g # h
  <2> SUFFICES ASSUME NEW g, Pending(g)' PROVE Pending(g) /\ g # h OBVIOUS
  <2>1. PICK p \in DOMAIN ops : ops'[p].g = g /\ ops'[p].st = "run" BY <1>8 DEF Pending
  <2>2. p # o /\ ops[p].g = g /\ Running(p) BY <1>8, <2>1 DEF Running
  <2>3. Pending(g) BY <2>2 DEF Pending, Running
  <2>4. g # h BY <1>6, <1>7, <2>2 DEF SettledInv, OneOpInv
  <2> QED BY <2>3, <2>4
<1>16. CASE ops[o].kind # "delete"
  <2>1. grp' = grp
    <3>1. grp \in [Group -> Element] BY <1>0 DEF IInv, TypeOK
    <3> QED BY <1>2, <1>4, <1>16, <3>1
  <2>2. MemberInv' BY <1>13, <2>1 DEF SettledInv, MemberInv
  <2>3. FreeInv'
    <3>1. ASSUME NEW g \in Group, ~grp[g].alloc PROVE grp[g].sched = {} /\ grp[g].queues = 0 /\ ~Pending(g)'
      BY <1>15, <3>1 DEF SettledInv, FreeInv
    <3>2. ASSUME NEW g \in Group, grp[g].del
          PROVE  /\ grp[g].queues = 0
                 /\ \E p \in DOMAIN ops' : ops'[p].g = g /\ Running(p)' /\ ops'[p].kind = "delete"
      <4>1. grp[g].queues = 0 BY <3>2 DEF SettledInv, FreeInv
      <4>2. PICK p \in DOMAIN ops : ops[p].g = g /\ Running(p) /\ ops[p].kind = "delete"
        BY <3>2 DEF SettledInv, FreeInv
      <4>3. p # o BY <1>16, <4>2
      <4> QED BY <1>8, <1>9, <4>1, <4>2, <4>3
    <3> QED BY <2>1, <3>1, <3>2 DEF FreeInv
  <2> QED BY <1>11, <1>14, <2>2, <2>3 DEF SettledInv
<1>17. CASE ops[o].kind = "delete"
  <2>1. /\ grp'[h] = Freed(grp[h]) /\ \A g \in Group : g # h => grp'[g] = grp[g]
    <3>1. grp \in [Group -> Element] BY <1>0 DEF IInv, TypeOK
    <3> QED BY <1>2, <1>4, <1>7, <1>17, <3>1
  <2>2. /\ grp'[h].alloc = FALSE /\ grp'[h].del = FALSE
        /\ grp'[h].sched = grp[h].sched /\ grp'[h].queues = grp[h].queues
    BY <1>7, <2>1 DEF Freed, Element
  <2>3. grp[h].alloc /\ grp[h].del BY <1>0, <1>6, <1>7, <1>17 DEF IInv, DeleteInv
  <2>4. grp[h].mask = {} BY <1>0, <2>3 DEF IInv, MapInv
  <2>5. \A k, d : ~Asked(h, k, d)
    <3> SUFFICES ASSUME NEW k, NEW d, Asked(h, k, d) PROVE FALSE OBVIOUS
    <3>1. PICK p \in DOMAIN ops : ops[p].g = h /\ Running(p) /\ <<k, d>> \in Open(p) BY DEF Asked
    <3>2. p = o BY <1>6, <1>7, <3>1 DEF SettledInv, OneOpInv
    <3> QED BY <1>6, <3>1, <3>2
  <2>6. grp[h].sched = {}
    <3>1. \A d \in Core : d \notin grp[h].sched BY <2>3, <2>4, <2>5 DEF SettledInv, MemberInv
    <3>2. grp[h].sched \subseteq Core BY <1>7 DEF Element
    <3> QED BY <3>1, <3>2
  <2>7. grp[h].queues = 0 BY <2>3 DEF SettledInv, FreeInv
  <2>8. MemberInv'
    <3> SUFFICES ASSUME NEW g \in Group, grp'[g].alloc, NEW d \in Core
                 PROVE  /\ Asked(g, "ADD", d)' => d \in grp'[g].mask
                        /\ Asked(g, "REM", d)' => d \notin grp'[g].mask
                        /\ d \in grp'[g].sched <=> \/ d \in grp'[g].mask /\ ~Asked(g, "ADD", d)'
                                                   \/ Asked(g, "REM", d)'
      BY DEF MemberInv
    <3>1. g # h BY <2>2
    <3>2. grp'[g] = grp[g] BY <2>1, <3>1
    <3> QED BY <1>13, <3>2 DEF SettledInv, MemberInv
  <2>9. FreeInv'
    <3>1. ASSUME NEW g \in Group, ~grp'[g].alloc
          PROVE  grp'[g].sched = {} /\ grp'[g].queues = 0 /\ ~Pending(g)'
      <4>1. CASE g = h BY <1>15, <2>2, <2>6, <2>7, <4>1
      <4>2. CASE g # h BY <1>15, <2>1, <3>1, <4>2 DEF SettledInv, FreeInv
      <4> QED BY <4>1, <4>2
    <3>2. ASSUME NEW g \in Group, grp'[g].del
          PROVE  /\ grp'[g].queues = 0
                 /\ \E p \in DOMAIN ops' : ops'[p].g = g /\ Running(p)' /\ ops'[p].kind = "delete"
      <4>1. g # h /\ grp'[g] = grp[g] BY <2>1, <2>2, <3>2
      <4>2. grp[g].queues = 0 BY <3>2, <4>1 DEF SettledInv, FreeInv
      <4>3. PICK p \in DOMAIN ops : ops[p].g = g /\ Running(p) /\ ops[p].kind = "delete"
        BY <3>2, <4>1 DEF SettledInv, FreeInv
      <4>4. p # o BY <1>7, <4>1, <4>3
      <4> QED BY <1>8, <1>9, <4>1, <4>2, <4>3, <4>4
    <3> QED BY <3>1, <3>2 DEF FreeInv
  <2> QED BY <1>11, <1>14, <2>8, <2>9 DEF SettledInv
<1> QED BY <1>16, <1>17

\* A step of no operation that changes an element: members and mask together,
\* and only for a thread that no request is for.
LEMMA ElementStep ==
  ASSUME SettledInv, IInv', LockInv', [Next]_vars, Calm, Stays, UNCHANGED ops,
         \A g \in Group : grp'[g].alloc = grp[g].alloc /\ grp'[g].del = grp[g].del,
         \A g \in Group : ~grp[g].alloc => grp'[g].sched = {},
         \A g \in Group : ~grp[g].alloc \/ grp[g].del => grp'[g].queues = 0,
         \A g \in Group : grp[g].alloc => \A d \in Core :
           \/ /\ d \in grp'[g].mask <=> d \in grp[g].mask
              /\ d \in grp'[g].sched <=> d \in grp[g].sched
           \/ /\ ~Asked(g, "ADD", d) /\ ~Asked(g, "REM", d)
              /\ d \in grp'[g].mask <=> d \in grp'[g].sched
  PROVE  SettledInv'
<1>1. logic' # logic => Senders = {}
  <2> SUFFICES ASSUME logic' # logic PROVE Senders = {} OBVIOUS
  <2>1. Cardinality(Senders) = 0 BY MapChange DEF SettledInv, LockInv
  <2>2. Senders \in SUBSET Core BY DEF Senders
  <2> QED BY <2>1, <2>2, Constants, FS_EmptySet
<1>2. QuietInv' BY <1>1, CalmToMap, QuietKept DEF SettledInv, IInv
<1>3. \A o : (Running(o)' <=> Running(o)) /\ Open(o)' = Open(o) BY OpenCalm DEF Running
<1>4. \A g, k, d : Asked(g, k, d)' <=> Asked(g, k, d) BY <1>3 DEF Asked
<1>5. \A g : Pending(g)' <=> Pending(g) BY DEF Pending
<1>6. OneOpInv' BY <1>3 DEF SettledInv, OneOpInv
<1>7. MemberInv'
  <2> SUFFICES ASSUME NEW g \in Group, grp'[g].alloc, NEW d \in Core
               PROVE  /\ Asked(g, "ADD", d) => d \in grp'[g].mask
                      /\ Asked(g, "REM", d) => d \notin grp'[g].mask
                      /\ d \in grp'[g].sched <=> \/ d \in grp'[g].mask /\ ~Asked(g, "ADD", d)
                                                 \/ Asked(g, "REM", d)
    BY <1>4 DEF MemberInv
  <2>1. grp[g].alloc OBVIOUS
  <2>2. /\ Asked(g, "ADD", d) => d \in grp[g].mask
        /\ Asked(g, "REM", d) => d \notin grp[g].mask
        /\ d \in grp[g].sched <=> \/ d \in grp[g].mask /\ ~Asked(g, "ADD", d)
                                  \/ Asked(g, "REM", d)
    BY <2>1 DEF SettledInv, MemberInv
  <2>3. \/ /\ d \in grp'[g].mask <=> d \in grp[g].mask
           /\ d \in grp'[g].sched <=> d \in grp[g].sched
        \/ /\ ~Asked(g, "ADD", d) /\ ~Asked(g, "REM", d)
           /\ d \in grp'[g].mask <=> d \in grp'[g].sched
    BY <2>1
  <2> QED BY <2>2, <2>3
<1>8. FreeInv' BY <1>3, <1>5 DEF SettledInv, FreeInv
<1> QED BY <1>2, <1>6, <1>7, <1>8 DEF SettledInv

\* Queues come to a group and go: none to one that is being deleted.
LEMMA QueueSettled ==
  ASSUME Synchronized, SettledInv, IInv', LockInv', NEW g \in Dyn, QueueCreate(g) \/ QueueDelete(g)
  PROVE  SettledInv'
<1>1. g \in Group /\ grp \in [Group -> Element] BY Constants DEF SettledInv, IInv, TypeOK
<1>2. PICK n \in 0..1 : grp' = [grp EXCEPT ![g].queues = n] /\ (n = 1 => grp[g].alloc /\ ~Pending(g))
  <2>1. CASE QueueCreate(g)
    <3>1. grp' = [grp EXCEPT ![g].queues = 1] /\ grp[g].alloc /\ ~Pending(g) BY <2>1 DEF QueueCreate
    <3>2. 1 \in 0..1 OBVIOUS
    <3> QED BY <3>1, <3>2
  <2>2. CASE QueueDelete(g)
    <3>1. grp' = [grp EXCEPT ![g].queues = 0] BY <2>2 DEF QueueDelete
    <3>2. 0 \in 0..1 OBVIOUS
    <3> QED BY <3>1, <3>2
  <2> QED BY <2>1, <2>2
<1>3. /\ \A h \in Group : h # g => grp'[h] = grp[h]
      /\ grp'[g].alloc = grp[g].alloc /\ grp'[g].mask = grp[g].mask /\ grp'[g].sched = grp[g].sched
      /\ grp'[g].del = grp[g].del /\ grp'[g].queues = n
  <2>1. grp'[g] = [grp[g] EXCEPT !.queues = n] /\ \A h \in Group : h # g => grp'[h] = grp[h]
    BY <1>1, <1>2
  <2>2. grp[g] \in Element BY <1>1
  <2> QED BY <2>1, <2>2 DEF Element
<1>4. UNCHANGED <<ops, call, ctrlq, batch, ph, st>> BY DEF QueueCreate, QueueDelete, pollVars
<1>5. Stays BY <1>4 DEF Stays
<1>6. [Next]_vars BY DEF Next
<1>7. \A h \in Group : ~grp[h].alloc \/ grp[h].del => grp'[h].queues = 0
  <2> SUFFICES ASSUME NEW h \in Group, ~grp[h].alloc \/ grp[h].del PROVE grp'[h].queues = 0 OBVIOUS
  <2>1. CASE h # g BY <1>3, <2>1 DEF SettledInv, FreeInv
  <2>2. CASE h = g
    <3>1. grp[g].del => Pending(g) BY <1>1 DEF SettledInv, FreeInv, Pending, Running
    <3>2. n # 1 BY <1>2, <2>2, <3>1
    <3>3. n = 0 BY <3>2
    <3> QED BY <1>3, <2>2, <3>3
  <2> QED BY <2>1, <2>2
<1>8. \A h \in Group : /\ grp'[h].alloc = grp[h].alloc /\ grp'[h].del = grp[h].del
                       /\ grp'[h].mask = grp[h].mask /\ grp'[h].sched = grp[h].sched
  BY <1>3
<1>9. \A h \in Group : ~grp[h].alloc => grp'[h].sched = {} BY <1>8 DEF SettledInv, FreeInv
<1>10. Calm BY <1>4, CalmSame
<1> QED BY <1>4, <1>5, <1>6, <1>7, <1>8, <1>9, <1>10, ElementStep

\* No request is for a thread outside of the core map that has left its loop.
LEMMA NotAsked ==
  ASSUME SettledInv, NEW c \in Core, st[c] \in {"leave", "down", "ext", "extterm"}
  PROVE  \A g, k : ~Asked(g, k, c)
<1> SUFFICES ASSUME NEW g, NEW k, Asked(g, k, c) PROVE FALSE OBVIOUS
<1>1. PICK o \in DOMAIN ops : <<k, c>> \in Open(o) BY DEF Asked
<1>2. k \in {"ADD", "REM"} /\ (Unsent(o, k, c) \/ [t |-> k, id |-> o] \in Mail(c)) BY <1>1 DEF Open
<1>3. c \notin logic BY DEF SettledInv, IInv, MapInv
<1>4. ~Unsent(o, k, c) BY <1>2, <1>3 DEF SettledInv, QuietInv
<1>5. \A m \in Mail(c) : m.t \notin {"ADD", "REM"} BY DEF SettledInv, QuietInv
<1>6. PICK m \in Mail(c) : m = [t |-> k, id |-> o] BY <1>2, <1>4
<1> QED BY <1>2, <1>5, <1>6

\* A terminating core leaves a group, with its mask and its schedule group.
LEMMA LeaveSettled ==
  ASSUME SettledInv, IInv', LockInv', NEW c \in Core, NEW g \in Group, LeaveGroup(c, g)
  PROVE  SettledInv'
<1>1. grp \in [Group -> Element] /\ grp[g] \in Element BY DEF SettledInv, IInv, TypeOK
<1>2. /\ st[c] = "leave" /\ UNCHANGED <<ops, call, ctrlq, batch, ph>>
      /\ st' = [st EXCEPT ![c] = IF todo'[c] = {} THEN "down" ELSE @]
  BY DEF LeaveGroup, pollVars
<1>3. /\ st'[c] \in {"leave", "down"} /\ \A d \in Core : d # c => st'[d] = st[d]
  BY <1>2 DEF SettledInv, IInv, TypeOK
<1>4. Stays BY <1>2, <1>3 DEF Stays
<1>5. [Next]_vars BY DEF Next, Works
<1>6. Calm BY <1>2, CalmSame
<1>7. \A k : ~Asked(g, k, c) BY <1>2, NotAsked
<1>8. \/ grp' = grp
      \/ grp[g].alloc /\ grp' = [grp EXCEPT ![g] = LeavesMask(grp[g], c)]
  <2>1. grp' = [grp EXCEPT ![g] = IF grp[g].alloc /\ ~grp[g].del /\ c \in grp[g].mask
                                  THEN LeavesMask(grp[g], c) ELSE grp[g]]
    BY DEF LeaveGroup
  <2>2. CASE grp[g].alloc /\ ~grp[g].del /\ c \in grp[g].mask BY <2>1, <2>2
  <2>3. CASE ~(grp[g].alloc /\ ~grp[g].del /\ c \in grp[g].mask) BY <1>1, <2>1, <2>3
  <2> QED BY <2>2, <2>3
<1>9. CASE grp' = grp BY <1>2, <1>4, <1>5, <1>6, <1>9, OpsSame, CalmStep
<1>10. CASE grp[g].alloc /\ grp' = [grp EXCEPT ![g] = LeavesMask(grp[g], c)]
  <2>1. grp'[g] = LeavesMask(grp[g], c) /\ \A h \in Group : h # g => grp'[h] = grp[h] BY <1>1, <1>10
  <2>2. /\ grp'[g].alloc = grp[g].alloc /\ grp'[g].del = grp[g].del /\ grp'[g].queues = grp[g].queues
        /\ grp'[g].mask = grp[g].mask \ {c} /\ grp'[g].sched = grp[g].sched \ {c}
    BY <1>1, <2>1 DEF LeavesMask, Leaves, Element
  <2>3. \A h \in Group : grp'[h].alloc = grp[h].alloc /\ grp'[h].del = grp[h].del BY <2>1, <2>2
  <2>4. \A h \in Group : ~grp[h].alloc => grp'[h].sched = {} BY <1>10, <2>1 DEF SettledInv, FreeInv
  <2>5. \A h \in Group : ~grp[h].alloc \/ grp[h].del => grp'[h].queues = 0
    BY <2>1, <2>2 DEF SettledInv, FreeInv
  <2>6. \A h \in Group : grp[h].alloc => \A d \in Core :
          \/ /\ d \in grp'[h].mask <=> d \in grp[h].mask
             /\ d \in grp'[h].sched <=> d \in grp[h].sched
          \/ /\ ~Asked(h, "ADD", d) /\ ~Asked(h, "REM", d)
             /\ d \in grp'[h].mask <=> d \in grp'[h].sched
    BY <1>7, <2>1, <2>2
  <2> QED BY <1>2, <1>4, <1>5, <1>6, <2>3, <2>4, <2>5, <2>6, ElementStep
<1> QED BY <1>8, <1>9, <1>10

\* A core that has started joins the default group.
LEMMA JoinSettled ==
  ASSUME ~CoreGroups, SettledInv, IInv', LockInv', NEW c \in Core, JoinGroups(c)
  PROVE  SettledInv'
<1>1. Default \in Group /\ Default \notin Dyn /\ grp \in [Group -> Element] /\ grp[Default] \in Element
  BY Constants DEF SettledInv, IInv, TypeOK
<1>2. /\ UNCHANGED <<ops, call, ctrlq, batch, ph>> /\ st' = [st EXCEPT ![c] = "up"]
      /\ grp' = [g \in Group |-> IF g = Default THEN JoinsMask(grp[g], c) ELSE grp[g]]
  <2>1. UNCHANGED <<ops, call, ctrlq, batch, ph>> /\ st' = [st EXCEPT ![c] = "up"]
    BY DEF JoinGroups, pollVars
  <2>2. grp' = [g \in Group |->
                  IF g = Default THEN JoinsMask(grp[g], c)
                  ELSE IF CoreGroups /\ g = CoreGroup[c] THEN Joins(grp[g], c)
                  ELSE grp[g]]
    BY DEF JoinGroups
  <2> QED BY <2>1, <2>2
<1>3. st'[c] = "up" /\ \A d \in Core : d # c => st'[d] = st[d] BY <1>2 DEF SettledInv, IInv, TypeOK
<1>4. Stays BY <1>2, <1>3 DEF Stays
<1>5. [Next]_vars BY DEF Next, Works
<1>6. Calm BY <1>2, CalmSame
<1>7. \A k, d : ~Asked(Default, k, d)
  <2>1. \A o \in DOMAIN ops : ops[o].g # Default BY <1>1, OpTypes DEF SettledInv, IInv
  <2> QED BY <2>1 DEF Asked
<1>8. grp'[Default] = JoinsMask(grp[Default], c) /\ \A h \in Group : h # Default => grp'[h] = grp[h]
  BY <1>1, <1>2
<1>9. /\ grp'[Default].alloc = grp[Default].alloc /\ grp'[Default].del = grp[Default].del
      /\ grp'[Default].queues = grp[Default].queues
      /\ grp'[Default].mask = grp[Default].mask \cup {c} /\ grp'[Default].sched = grp[Default].sched \cup {c}
  BY <1>1, <1>8 DEF JoinsMask, Joins, Element
<1>10. grp[Default].alloc BY <1>1 DEF SettledInv, IInv, MapInv
<1>11. \A h \in Group : grp'[h].alloc = grp[h].alloc /\ grp'[h].del = grp[h].del BY <1>8, <1>9
<1>12. \A h \in Group : ~grp[h].alloc => grp'[h].sched = {} BY <1>8, <1>10 DEF SettledInv, FreeInv
<1>13. \A h \in Group : ~grp[h].alloc \/ grp[h].del => grp'[h].queues = 0
  BY <1>8, <1>9 DEF SettledInv, FreeInv
<1>14. \A h \in Group : grp[h].alloc => \A d \in Core :
         \/ /\ d \in grp'[h].mask <=> d \in grp[h].mask
            /\ d \in grp'[h].sched <=> d \in grp[h].sched
         \/ /\ ~Asked(h, "ADD", d) /\ ~Asked(h, "REM", d)
            /\ d \in grp'[h].mask <=> d \in grp'[h].sched
  BY <1>7, <1>8, <1>9
<1> QED BY <1>2, <1>4, <1>5, <1>6, <1>11, <1>12, <1>13, <1>14, ElementStep

\* The requests of a new operation are for the threads that the schedule group
\* and the new core mask differ in.
Places(e, kind, add, rem) ==
  /\ e.alloc => \A d \in Core : /\ d \in add => d \in e.mask
                                /\ d \in rem => d \notin e.mask
                                /\ d \in e.sched <=> (d \in e.mask /\ d \notin add) \/ d \in rem
  /\ ~e.alloc => e.sched = {} /\ e.queues = 0 /\ add = {} /\ rem = {}
  /\ e.del => e.queues = 0 /\ kind = "delete" /\ ~(add = {} /\ rem = {})

\* The start of an operation of a group that no operation is running of.
Begins(c, g, m, e, kind, sync, add, rem) ==
  /\ MayCall(c, g, m) /\ grp' = [grp EXCEPT ![g] = e] /\ Places(e, kind, add, rem)
  /\ IF add = {} /\ rem = {} THEN DoneNow(kind, g) ELSE StartReqs(c, kind, g, m, add, rem, sync)
  /\ nops' = nops + 1 /\ UNCHANGED <<mapVars, pollVars, ctrlq, shared, st>>

\* What operation o, which starts, does to the operations and their requests.
Began(o, g, kind, add, rem) ==
  /\ o \notin DOMAIN ops /\ DOMAIN ops' = DOMAIN ops \cup {o}
  /\ \A p \in DOMAIN ops : ops'[p] = ops[p]
  /\ ops'[o].g = g /\ ops'[o].kind = kind
  /\ ops'[o].st = IF add = {} /\ rem = {} THEN "done" ELSE "run"
  /\ \A p \in DOMAIN ops, k \in {"ADD", "REM"}, d \in Core : Unsent(p, k, d)' <=> Unsent(p, k, d)
  /\ \A k \in {"ADD", "REM"}, d \in Core : Unsent(o, k, d)' <=> d \in (IF k = "REM" THEN rem ELSE add)
  /\ \A k \in {"ADD", "REM"}, d \in Core : [t |-> k, id |-> o] \notin Mail(d)

\* The number of the operation is new.
LEMMA BeginEffect ==
  ASSUME IInv, NEW c \in Core, NEW g \in Dyn, NEW m \in SUBSET Core, NEW e \in Element,
         NEW kind \in {"create", "modify", "delete"}, NEW sync \in BOOLEAN,
         NEW add \in SUBSET logic, NEW rem \in SUBSET logic,
         Begins(c, g, m, e, kind, sync, add, rem)
  PROVE  \E o : Began(o, g, kind, add, rem)
<1>1. PICK o : o = nops + 1 OBVIOUS
<1>2. /\ call[c].pc = "idle" /\ nops < MaxOps /\ nops' = nops + 1
      /\ IF add = {} /\ rem = {} THEN DoneNow(kind, g) ELSE StartReqs(c, kind, g, m, add, rem, sync)
  BY DEF Begins, MayCall
<1>3. /\ o \in OpId /\ o \notin DOMAIN ops /\ \A k, d : ~Unsent(o, k, d)
      /\ \A d \in Core, k \in {"ADD", "REM", "DONE"} : [t |-> k, id |-> o] \notin Mail(d)
  BY <1>1, <1>2, Fresh
<1>4. add \in SUBSET Core /\ rem \in SUBSET Core /\ 0 \in Core /\ NumCores \in Nat
  BY Constants DEF IInv, TypeOK
<1>5. Threads(add) = add /\ Threads(rem) = rem
  <2>1. \A d \in logic : odpThr[d] = d BY DEF IInv, MapInv
  <2> QED BY <2>1 DEF Threads
<1> DEFINE none == add = {} /\ rem = {}
<1>6. PICK w \in Operation :
        /\ ops' = Append(ops, w) /\ w.kind = kind /\ w.g = g /\ w.st = IF none THEN "done" ELSE "run"
        /\ IF none THEN call' = call
           ELSE call' = [call EXCEPT ![c] = [pc |-> "send", op |-> o, rem |-> rem, add |-> add]]
  <2>1. CASE ~none
    <3>1. PICK w : w = [kind |-> kind, g |-> g, new |-> m, left |-> ReqCount(add, rem),
                        caller |-> c, sync |-> sync, st |-> "run"] OBVIOUS
    <3>2. ReqCount(add, rem) \in 0..2 * NumCores BY <1>4, RequestCount
    <3>3. w \in Operation BY <3>1, <3>2 DEF Operation
    <3>4. StartReqs(c, kind, g, m, add, rem, sync) BY <1>2, <2>1
    <3>5. /\ ops' = Append(ops, w)
          /\ call' = [call EXCEPT ![c] = [pc |-> "send", op |-> o, rem |-> rem, add |-> add]]
      BY <1>1, <1>5, <3>1, <3>4 DEF StartReqs
    <3> QED BY <2>1, <3>1, <3>3, <3>5
  <2>2. CASE none
    <3>1. DoneNow(kind, g) BY <1>2, <2>2
    <3>2. PICK w : w = [kind |-> kind, g |-> g, new |-> {}, left |-> 0,
                        caller |-> 0, sync |-> FALSE, st |-> "done"] OBVIOUS
    <3>3. w \in Operation BY <1>4, <3>2 DEF Operation
    <3>4. ops' = Append(ops, w) /\ call' = call BY <3>1, <3>2 DEF DoneNow
    <3> QED BY <2>2, <3>2, <3>3, <3>4
  <2> QED BY <2>1, <2>2
<1>7. DOMAIN ops' = DOMAIN ops \cup {o} /\ ops'[o] = w /\ \A p \in DOMAIN ops : ops'[p] = ops[p]
  BY <1>1, <1>2, <1>6, OpAppended DEF IInv
<1>8. DOMAIN call = Core BY DEF IInv, TypeOK
<1>9. ASSUME NEW p, NEW k \in {"ADD", "REM"}, NEW d \in Core
      PROVE  Unsent(p, k, d)' <=> Unsent(p, k, d) \/ (p = o /\ d \in (IF k = "REM" THEN rem ELSE add))
  <2>1. CASE none BY <1>6, <2>1 DEF Unsent
  <2>2. CASE ~none
    <3>1. PICK r : r = [pc |-> "send", op |-> o, rem |-> rem, add |-> add] OBVIOUS
    <3>2. call' = [call EXCEPT ![c] = r] BY <1>6, <2>2, <3>1
    <3>3. call'[c] = r /\ \A x \in Core : x # c => call'[x] = call[x] BY <1>8, <3>2
    <3>4. r.pc = "send" /\ r.op = o /\ r.rem = rem /\ r.add = add BY <3>1
    <3>5. call'[c].pc = "send" /\ call'[c].op = o /\ call'[c].rem = rem /\ call'[c].add = add
      BY <3>3, <3>4
    <3>6. ASSUME Unsent(p, k, d)' PROVE Unsent(p, k, d) \/ (p = o /\ d \in (IF k = "REM" THEN rem ELSE add))
      <4>1. PICK x \in Core : /\ call'[x].pc = "send" /\ call'[x].op = p
                              /\ d \in (IF k = "REM" THEN call'[x].rem ELSE call'[x].add)
        BY <3>6 DEF Unsent
      <4>2. CASE x = c BY <3>5, <4>1, <4>2
      <4>3. CASE x # c BY <3>3, <4>1, <4>3 DEF Unsent
      <4> QED BY <4>2, <4>3
    <3>7. ASSUME Unsent(p, k, d) PROVE Unsent(p, k, d)'
      <4>1. PICK x \in Core : /\ call[x].pc = "send" /\ call[x].op = p
                              /\ d \in (IF k = "REM" THEN call[x].rem ELSE call[x].add)
        BY <3>7 DEF Unsent
      <4>2. x # c BY <1>2, <4>1
      <4> QED BY <3>3, <4>1, <4>2 DEF Unsent
    <3>8. ASSUME p = o, d \in (IF k = "REM" THEN rem ELSE add) PROVE Unsent(p, k, d)'
      BY <3>5, <3>8 DEF Unsent
    <3> QED BY <3>6, <3>7, <3>8
  <2> QED BY <2>1, <2>2
<1>10. \A p \in DOMAIN ops, k \in {"ADD", "REM"}, d \in Core : Unsent(p, k, d)' <=> Unsent(p, k, d)
  BY <1>3, <1>9
<1>11. \A k \in {"ADD", "REM"}, d \in Core : Unsent(o, k, d)' <=> d \in (IF k = "REM" THEN rem ELSE add)
  BY <1>3, <1>9
<1> QED BY <1>3, <1>6, <1>7, <1>10, <1>11 DEF Began

\* An operation starts: its requests are what the new mask and the schedule
\* group differ in.
LEMMA BeginSettled ==
  ASSUME Synchronized, SettledInv, IInv', LockInv',
         NEW c \in Core, NEW g \in Dyn, NEW m \in SUBSET Core, NEW e \in Element,
         NEW kind \in {"create", "modify", "delete"}, NEW sync \in BOOLEAN,
         NEW add \in SUBSET logic, NEW rem \in SUBSET logic,
         Begins(c, g, m, e, kind, sync, add, rem)
  PROVE  SettledInv'
<1>0. IInv /\ g \in Group /\ grp \in [Group -> Element] BY Constants DEF SettledInv, IInv, TypeOK
<1> DEFINE R(k) == IF k = "REM" THEN rem ELSE add
           none == add = {} /\ rem = {}
<1>01. PICK o : Began(o, g, kind, add, rem) BY ZenonT(40), <1>0, BeginEffect
<1>1. /\ o \notin DOMAIN ops /\ DOMAIN ops' = DOMAIN ops \cup {o}
      /\ \A p \in DOMAIN ops : ops'[p] = ops[p]
      /\ ops'[o].g = g /\ ops'[o].kind = kind
      /\ ops'[o].st = IF none THEN "done" ELSE "run"
      /\ \A p \in DOMAIN ops, k \in {"ADD", "REM"}, d \in Core : Unsent(p, k, d)' <=> Unsent(p, k, d)
      /\ \A k \in {"ADD", "REM"}, d \in Core : Unsent(o, k, d)' <=> d \in R(k)
      /\ \A k \in {"ADD", "REM"}, d \in Core : [t |-> k, id |-> o] \notin Mail(d)
  BY <1>01 DEF Began
<1>2. /\ grp' = [grp EXCEPT ![g] = e] /\ ~Pending(g)
      /\ UNCHANGED <<mapVars, pollVars, ctrlq, st>>
  BY DEF Begins, MayCall, Orderly
<1>3. grp'[g] = e /\ \A h \in Group : h # g => grp'[h] = grp[h] BY <1>0, <1>2
<1>4. Places(e, kind, add, rem) BY DEF Begins
<1>5. UNCHANGED <<logic, ph, batch, ctrlq, st>> BY <1>2 DEF mapVars, pollVars
<1>6. \A d : Mail(d)' = Mail(d) BY <1>5 DEF Mail
<1>7. \A p \in DOMAIN ops : Open(p)' = Open(p) BY <1>1, <1>6 DEF Open
<1>8. \A k \in {"ADD", "REM"}, d \in Core : <<k, d>> \in Open(o)' <=> d \in R(k)
  BY <1>1, <1>6 DEF Open
<1>9. none => Open(o)' = {}
  <2> SUFFICES ASSUME none PROVE Open(o)' = {} OBVIOUS
  <2>1. Open(o)' \subseteq {"ADD", "REM"} \X Core BY DEF Open
  <2>2. \A k \in {"ADD", "REM"}, d \in Core : <<k, d>> \notin Open(o)' BY <1>8
  <2> HIDE DEF none
  <2> QED BY <2>1, <2>2
<1>10. /\ \A p \in DOMAIN ops : Running(p)' <=> Running(p)
       /\ Running(o)' <=> ~none
  BY <1>1 DEF Running
<1>11. \A p \in DOMAIN ops : Running(p) => ops[p].g # g BY <1>2 DEF Pending, Running
<1> HIDE DEF none
<1>12. OneOpInv'
  <2>1. ASSUME NEW p \in DOMAIN ops', NEW q \in DOMAIN ops', Running(p)', Running(q)', ops'[p].g = ops'[q].g
        PROVE  p = q
    <3>1. CASE p = o /\ q = o BY <3>1
    <3>2. CASE p \in DOMAIN ops /\ q \in DOMAIN ops
      BY <1>1, <1>10, <2>1, <3>2 DEF SettledInv, OneOpInv
    <3>3. CASE p \in DOMAIN ops /\ q = o BY <1>1, <1>10, <1>11, <2>1, <3>3
    <3>4. CASE p = o /\ q \in DOMAIN ops BY <1>1, <1>10, <1>11, <2>1, <3>4
    <3> QED BY <1>1, <3>1, <3>2, <3>3, <3>4
  <2>2. ASSUME NEW p \in DOMAIN ops', ~Running(p)' PROVE Open(p)' = {}
    <3>1. CASE p = o BY <1>9, <1>10, <2>2, <3>1
    <3>2. CASE p \in DOMAIN ops BY <1>7, <1>10, <2>2, <3>2 DEF SettledInv, OneOpInv
    <3> QED BY <1>1, <3>1, <3>2
  <2> QED BY <2>1, <2>2 DEF OneOpInv
<1>13. ASSUME NEW h \in Group, NEW k \in {"ADD", "REM"}, NEW d \in Core
       PROVE  Asked(h, k, d)' <=> IF h = g THEN d \in R(k) ELSE Asked(h, k, d)
  <2>1. Asked(h, k, d)' <=> \/ \E p \in DOMAIN ops : ops[p].g = h /\ Running(p) /\ <<k, d>> \in Open(p)
                            \/ g = h /\ ~none /\ d \in R(k)
    <3>1. Asked(h, k, d)' <=> \E p \in DOMAIN ops \cup {o} : ops'[p].g = h /\ Running(p)' /\ <<k, d>> \in Open(p)'
      BY <1>1 DEF Asked
    <3>2. \A p \in DOMAIN ops : (ops'[p].g = h /\ Running(p)' /\ <<k, d>> \in Open(p)') <=>
                                (ops[p].g = h /\ Running(p) /\ <<k, d>> \in Open(p))
      BY <1>1, <1>7, <1>10
    <3>3. (ops'[o].g = h /\ Running(o)' /\ <<k, d>> \in Open(o)') <=> (g = h /\ ~none /\ d \in R(k))
      BY <1>1, <1>8, <1>10
    <3> QED BY <3>1, <3>2, <3>3
  <2>2. d \in R(k) => ~none BY DEF none
  <2> HIDE DEF R
  <2>3. CASE h = g BY <1>11, <2>1, <2>2, <2>3
  <2>4. CASE h # g BY <2>1, <2>4 DEF Asked
  <2> QED BY <2>3, <2>4
<1>14. MemberInv'
  <2> SUFFICES ASSUME NEW h \in Group, grp'[h].alloc, NEW d \in Core
               PROVE  /\ Asked(h, "ADD", d)' => d \in grp'[h].mask
                      /\ Asked(h, "REM", d)' => d \notin grp'[h].mask
                      /\ d \in grp'[h].sched <=> \/ d \in grp'[h].mask /\ ~Asked(h, "ADD", d)'
                                                 \/ Asked(h, "REM", d)'
    BY DEF MemberInv
  <2>1. CASE h = g
    <3>1. (Asked(h, "ADD", d)' <=> d \in add) /\ (Asked(h, "REM", d)' <=> d \in rem) BY <1>13, <2>1
    <3>2. /\ d \in add => d \in e.mask
          /\ d \in rem => d \notin e.mask
          /\ d \in e.sched <=> (d \in e.mask /\ d \notin add) \/ d \in rem
      BY <1>3, <1>4, <2>1 DEF Places
    <3> QED BY <1>3, <2>1, <3>1, <3>2
  <2>2. CASE h # g
    <3>1. (Asked(h, "ADD", d)' <=> Asked(h, "ADD", d)) /\ (Asked(h, "REM", d)' <=> Asked(h, "REM", d))
      BY <1>13, <2>2
    <3>2. grp'[h] = grp[h] BY <1>3, <2>2
    <3> QED BY <3>1, <3>2 DEF SettledInv, MemberInv
  <2> QED BY <2>1, <2>2
<1>15. FreeInv'
  <2>1. \A h \in Group : Pending(h)' <=> Pending(h) \/ (h = g /\ ~none)
    <3> TAKE h \in Group
    <3>1. ops'[o].st = "run" <=> ~none BY <1>1
    <3>2. Pending(h)' <=> \E p \in DOMAIN ops \cup {o} : ops'[p].g = h /\ ops'[p].st = "run"
      BY <1>1 DEF Pending
    <3> QED BY <1>1, <3>1, <3>2 DEF Pending
  <2>2. ASSUME NEW h \in Group, ~grp'[h].alloc
        PROVE  grp'[h].sched = {} /\ grp'[h].queues = 0 /\ ~Pending(h)'
    <3>1. CASE h = g
      <4>1. e.sched = {} /\ e.queues = 0 /\ none BY <1>3, <1>4, <2>2, <3>1 DEF Places, none
      <4> QED BY <1>2, <1>3, <2>1, <3>1, <4>1
    <3>2. CASE h # g BY <1>3, <2>1, <2>2, <3>2 DEF SettledInv, FreeInv
    <3> QED BY <3>1, <3>2
  <2>3. ASSUME NEW h \in Group, grp'[h].del
        PROVE  /\ grp'[h].queues = 0
               /\ \E p \in DOMAIN ops' : ops'[p].g = h /\ Running(p)' /\ ops'[p].kind = "delete"
    <3>1. CASE h = g
      <4>1. e.queues = 0 /\ kind = "delete" /\ ~none BY <1>3, <1>4, <2>3, <3>1 DEF Places, none
      <4> QED BY <1>1, <1>3, <1>10, <3>1, <4>1
    <3>2. CASE h # g
      <4>1. grp'[h] = grp[h] BY <1>3, <3>2
      <4>2. PICK p \in DOMAIN ops : ops[p].g = h /\ Running(p) /\ ops[p].kind = "delete"
        BY <2>3, <4>1 DEF SettledInv, FreeInv
      <4>3. grp[h].queues = 0 BY <2>3, <4>1 DEF SettledInv, FreeInv
      <4> QED BY <1>1, <1>10, <4>1, <4>2, <4>3
    <3> QED BY <3>1, <3>2
  <2> QED BY <2>2, <2>3 DEF FreeInv
<1>16. QuietInv'
  <2>1. ASSUME NEW d \in Core \ logic', NEW p \in DOMAIN ops', NEW k \in {"ADD", "REM"}, Unsent(p, k, d)'
        PROVE  FALSE
    <3>1. d \notin logic BY <1>5
    <3>2. CASE p = o BY <1>1, <2>1, <3>1, <3>2
    <3>3. CASE p \in DOMAIN ops BY <1>1, <2>1, <3>1, <3>3 DEF SettledInv, QuietInv
    <3> QED BY <1>1, <3>2, <3>3
  <2>2. ToMap BY <1>5, <1>6, <2>1 DEF ToMap
  <2>3. Stays BY <1>5 DEF Stays
  <2> QED BY <2>2, <2>3, QuietKept DEF SettledInv, IInv
<1> QED BY <1>12, <1>14, <1>15, <1>16 DEF SettledInv

\* queue_group_create(), queue_group_create_sync()
LEMMA CreateSettled ==
  ASSUME Synchronized, SettledInv, IInv', LockInv',
         NEW c \in Core, NEW g \in Dyn, NEW m \in SUBSET Core, NEW sync \in BOOLEAN, Create(c, g, m, sync)
  PROVE  SettledInv'
<1>1. PICK add \in SUBSET logic, rem \in SUBSET logic : add = m \ {c} /\ rem = {}
  <2>1. m \subseteq logic BY DEF Create, MayCall
  <2> QED BY <2>1
<1>2. PICK e : e = [FreeGroup EXCEPT !.alloc = TRUE, !.mask = m, !.sched = m \cap {c}] OBVIOUS
<1>3. e = [alloc |-> TRUE, mask |-> m, sched |-> m \cap {c}, del |-> FALSE, queues |-> 0]
  BY <1>2 DEF FreeGroup
<1>4. PICK x \in Element : x = e
  <2>1. 0 \in 0..1 OBVIOUS
  <2> QED BY <1>3, <2>1 DEF Element
<1>5. PICK kind \in {"create", "modify", "delete"} : kind = "create" OBVIOUS
<1>6. x.alloc = TRUE /\ x.mask = m /\ x.sched = m \cap {c} /\ x.del = FALSE BY <1>3, <1>4
<1>7. Places(x, kind, add, rem) BY <1>1, <1>6 DEF Places
<1>8. IF add = {} /\ rem = {} THEN DoneNow(kind, g) ELSE StartReqs(c, kind, g, m, add, rem, sync)
  <2>1. IF m \ {c} = {} THEN DoneNow("create", g) ELSE StartReqs(c, "create", g, m, m \ {c}, {}, sync)
    BY DEF Create
  <2>2. IF add = {} THEN DoneNow(kind, g) ELSE StartReqs(c, kind, g, m, add, rem, sync)
    BY <1>1, <1>5, <2>1
  <2>3. rem = {} BY <1>1
  <2> QED BY <2>2, <2>3
<1>9. /\ MayCall(c, g, m) /\ grp' = [grp EXCEPT ![g] = x] /\ nops' = nops + 1
      /\ UNCHANGED <<mapVars, pollVars, ctrlq, shared, st>>
  BY <1>2, <1>4 DEF Create
<1>10. Begins(c, g, m, x, kind, sync, add, rem) BY <1>7, <1>8, <1>9 DEF Begins
<1> QED BY <1>10, BeginSettled

\* The members of a group that no operation is running of are its mask.
LEMMA IdleMembers ==
  ASSUME SettledInv, NEW g \in Group, ~Pending(g), grp[g].alloc
  PROVE  grp[g].sched = grp[g].mask
<1>1. grp[g].sched \subseteq Core /\ grp[g].mask \subseteq Core
  BY DEF SettledInv, IInv, TypeOK, Element
<1>2. \A k, d : ~Asked(g, k, d) BY DEF Asked, Pending, Running
<1>3. \A d \in Core : d \in grp[g].sched <=> d \in grp[g].mask BY <1>2 DEF SettledInv, MemberInv
<1> QED BY <1>1, <1>3

\* queue_group_modify(), queue_group_modify_sync() and the deletion through them.
LEMMA ModifySettled ==
  ASSUME Synchronized, TermExcl, SettledInv, IInv', LockInv',
         NEW c \in Core, NEW g \in Dyn, NEW m \in SUBSET Core,
         NEW kind \in {"modify", "delete"}, kind = "delete" => m = {},
         ModifyAsync(c, g, m, kind) \/ ModifySync(c, g, m, kind)
  PROVE  SettledInv'
<1>1. IInv /\ grp[g] \in Element /\ g \in Group BY OpTypes, Constants DEF SettledInv, IInv
<1>2. MayCall(c, g, m) /\ StateOk(g, kind) BY DEF ModifyAsync, ModifySync
<1>3. ~Pending(g) /\ ~Terminating /\ m \subseteq logic /\ grp[g].alloc /\ ~grp[g].del
  BY <1>2 DEF MayCall, Orderly, StateOk
<1>4. PICK old \in SUBSET logic : old = grp[g].mask BY <1>1, <1>3, MasksInMap
<1>5. grp[g].sched = old BY <1>1, <1>3, <1>4, IdleMembers
<1>6. PICK q \in 0..1 : q = grp[g].queues /\ (kind = "delete" => q = 0)
  BY <1>1, <1>2 DEF Element, StateOk
<1>7. nops' = nops + 1 /\ UNCHANGED <<mapVars, pollVars, ctrlq, shared, st>>
  BY DEF ModifyAsync, ModifySync
<1> DEFINE n == [grp[g] EXCEPT !.mask = m]
           El(x, s) == x \in Element /\ x.alloc /\ ~x.del /\ x.mask = m /\ x.sched = s /\ x.queues = q
<1>8. El(n, old) BY <1>1, <1>3, <1>5, <1>6 DEF Element
<1> HIDE DEF n
<1>9. El(Joins(n, c), old \cup {c}) /\ El(Leaves(n, c), old \ {c})
  <2>1. Joins(n, c) \in Element /\ Leaves(n, c) \in Element BY <1>8, ElementTypes
  <2> QED BY <1>8, <2>1 DEF Joins, Leaves, Element
<1> HIDE DEF El
<1>10. PICK x, s, add, rem, sync :
         /\ El(x, s) /\ s \in SUBSET Core /\ add \in SUBSET logic /\ rem \in SUBSET logic /\ sync \in BOOLEAN
         /\ \A d \in Core : /\ d \in add => d \in m
                            /\ d \in rem => d \notin m
                            /\ d \in s <=> (d \in m /\ d \notin add) \/ d \in rem
         /\ IF add = {} /\ rem = {}
            THEN /\ grp' = [grp EXCEPT ![g] = IF kind = "delete" THEN Freed(x) ELSE x]
                 /\ DoneNow(kind, g)
            ELSE /\ grp' = [grp EXCEPT ![g] = [x EXCEPT !.del = (kind = "delete")]]
                 /\ StartReqs(c, kind, g, m, add, rem, sync)
  <2>0. logic \subseteq Core BY <1>1 DEF IInv, TypeOK
  <2>1. CASE ModifyAsync(c, g, m, kind)
    <3>1. PICK add \in SUBSET logic, rem \in SUBSET logic : add = (m \ old) \ {c} /\ rem = old \ m
      BY <1>3
    <3>2. PICK s \in SUBSET Core : s = IF c \in m \ old THEN old \cup {c} ELSE old BY <2>0
    <3>3. PICK x : x = IF c \in Added(grp[g].mask, m) THEN Joins(n, c) ELSE n OBVIOUS
    <3>4. El(x, s)
      <4>1. CASE c \in m \ old BY <1>4, <1>9, <3>2, <3>3, <4>1 DEF Added
      <4>2. CASE c \notin m \ old BY <1>4, <1>8, <3>2, <3>3, <4>2 DEF Added
      <4> QED BY <4>1, <4>2
    <3>5. IF add = {} /\ rem = {}
          THEN /\ grp' = [grp EXCEPT ![g] = IF kind = "delete" THEN Freed(x) ELSE x]
               /\ DoneNow(kind, g)
          ELSE /\ grp' = [grp EXCEPT ![g] = [x EXCEPT !.del = (kind = "delete")]]
               /\ StartReqs(c, kind, g, m, add, rem, FALSE)
      BY <1>4, <2>1, <3>1, <3>3 DEF ModifyAsync, Added, Removed, n
    <3>6. \A d \in Core : /\ d \in add => d \in m
                          /\ d \in rem => d \notin m
                          /\ d \in s <=> (d \in m /\ d \notin add) \/ d \in rem
      BY <3>1, <3>2
    <3>7. FALSE \in BOOLEAN OBVIOUS
    <3> QED BY <3>4, <3>5, <3>6, <3>7
  <2>2. CASE ModifySync(c, g, m, kind)
    <3>1. PICK add \in SUBSET logic, rem \in SUBSET logic : add = (m \ old) \ {c} /\ rem = (old \ m) \ {c}
      BY <1>3
    <3>2. PICK s \in SUBSET Core : s = IF c \in m \ old THEN old \cup {c}
                                       ELSE IF c \in old \ m THEN old \ {c} ELSE old
      BY <2>0
    <3>3. PICK x : x = IF c \in Added(grp[g].mask, m) THEN Joins(n, c)
                       ELSE IF c \in Removed(grp[g].mask, m) THEN Leaves(n, c) ELSE n
      OBVIOUS
    <3>4. El(x, s)
      <4>1. CASE c \in m \ old BY <1>4, <1>9, <3>2, <3>3, <4>1 DEF Added
      <4>2. CASE c \in old \ m BY <1>4, <1>9, <3>2, <3>3, <4>2 DEF Added, Removed
      <4>3. CASE c \notin m \ old /\ c \notin old \ m
        BY <1>4, <1>8, <3>2, <3>3, <4>3 DEF Added, Removed
      <4> QED BY <4>1, <4>2, <4>3
    <3>5. IF add = {} /\ rem = {}
          THEN /\ grp' = [grp EXCEPT ![g] = IF kind = "delete" THEN Freed(x) ELSE x]
               /\ DoneNow(kind, g)
          ELSE /\ grp' = [grp EXCEPT ![g] = [x EXCEPT !.del = (kind = "delete")]]
               /\ StartReqs(c, kind, g, m, add, rem, TRUE)
      BY <1>4, <2>2, <3>1, <3>3 DEF ModifySync, Added, Removed, n
    <3>6. \A d \in Core : /\ d \in add => d \in m
                          /\ d \in rem => d \notin m
                          /\ d \in s <=> (d \in m /\ d \notin add) \/ d \in rem
      BY <3>1, <3>2
    <3>7. TRUE \in BOOLEAN OBVIOUS
    <3> QED BY <3>4, <3>5, <3>6, <3>7
  <2> QED BY <2>1, <2>2
<1>11. x \in Element /\ x.alloc /\ ~x.del /\ x.mask = m /\ x.sched = s /\ x.queues = q
  BY <1>10 DEF El
<1>12. PICK e \in Element :
         /\ grp' = [grp EXCEPT ![g] = e] /\ Places(e, kind, add, rem)
         /\ IF add = {} /\ rem = {} THEN DoneNow(kind, g) ELSE StartReqs(c, kind, g, m, add, rem, sync)
  <2>1. CASE add = {} /\ rem = {} /\ kind = "delete"
    <3>1. PICK e \in Element : e = Freed(x) BY <1>11, ElementTypes
    <3>2. ~e.alloc /\ ~e.del /\ e.sched = s /\ e.queues = q BY <1>11, <3>1 DEF Freed, Element
    <3>3. s = {} /\ q = 0 BY <1>6, <1>10, <2>1
    <3>4. Places(e, kind, add, rem) BY <2>1, <3>2, <3>3 DEF Places
    <3>5. grp' = [grp EXCEPT ![g] = e] /\ DoneNow(kind, g) BY <1>10, <2>1, <3>1
    <3> QED BY <2>1, <3>4, <3>5
  <2>2. CASE add = {} /\ rem = {} /\ kind # "delete"
    <3>1. Places(x, kind, add, rem) BY <1>10, <1>11, <2>2 DEF Places
    <3>2. grp' = [grp EXCEPT ![g] = x] /\ DoneNow(kind, g) BY <1>10, <2>2
    <3> QED BY <1>11, <2>2, <3>1, <3>2
  <2>3. CASE ~(add = {} /\ rem = {})
    <3>1. PICK b \in BOOLEAN : b = (kind = "delete") OBVIOUS
    <3>2. PICK e \in Element : e = [x EXCEPT !.del = b] BY <1>11, ElementTypes
    <3>3. e.alloc /\ e.del = b /\ e.mask = m /\ e.sched = s /\ e.queues = q
      BY <1>11, <3>2 DEF Element
    <3>4. e.del => kind = "delete" /\ q = 0 BY <1>6, <3>1, <3>3
    <3>5. Places(e, kind, add, rem) BY <1>10, <2>3, <3>3, <3>4 DEF Places
    <3>6. grp' = [grp EXCEPT ![g] = e] /\ StartReqs(c, kind, g, m, add, rem, sync)
      BY <1>10, <2>3, <3>1, <3>2
    <3> QED BY <2>3, <3>5, <3>6
  <2> QED BY <2>1, <2>2, <2>3
<1>13. PICK k \in {"create", "modify", "delete"}, A \in SUBSET logic, R \in SUBSET logic, y \in BOOLEAN :
         k = kind /\ A = add /\ R = rem /\ y = sync
  BY <1>10
<1>14. Begins(c, g, m, e, k, y, A, R) BY <1>2, <1>7, <1>12, <1>13 DEF Begins
<1> QED BY <1>14, BeginSettled, ZenonT(90)

-----------------------------------------------------------------------------
(* Every step, and the theorems. *)

\* The invariant holds when every core has started.
LEMMA InitSettled ==
  ASSUME ~CoreGroups, Init PROVE SettledInv
<1>1. IInv /\ LockInv BY InitIInv, InitLock
<1>2. ops = <<>> /\ DOMAIN ops = {}
  <2>1. ops = <<>> BY DEF Init
  <2> QED BY <2>1, EmptySeq, LenProperties
<1>3. \A c \in Core : st[c] = "up" BY DEF Init
<1>4. QuietInv
  <2>1. \A c \in Core : st[c] \notin {"leave", "down", "ext", "extterm", "term"} BY <1>3
  <2> QED BY <1>2, <2>1 DEF QuietInv
<1>5. OneOpInv BY <1>2 DEF OneOpInv
<1>6. (\A g, k, d : ~Asked(g, k, d)) /\ \A g : ~Pending(g) BY <1>2 DEF Asked, Pending
<1>7. \A g \in Group : /\ grp[g].sched = grp[g].mask /\ ~grp[g].del
                       /\ ~grp[g].alloc => grp[g].sched = {} /\ grp[g].queues = 0
  <2> TAKE g \in Group
  <2>1. CASE g \in Dyn
    <3>1. grp[g] = FreeGroup BY <2>1 DEF Init
    <3> QED BY <3>1 DEF FreeGroup
  <2>2. CASE g \notin Dyn
    <3>1. PICK m : m = IF g = Default THEN Core ELSE {c \in Core : CoreGroup[c] = g} OBVIOUS
    <3>2. grp[g] = [FreeGroup EXCEPT !.alloc = TRUE, !.mask = m, !.sched = m] BY <2>2, <3>1 DEF Init
    <3>3. grp[g] = [alloc |-> TRUE, mask |-> m, sched |-> m, del |-> FALSE, queues |-> 0]
      BY <3>2 DEF FreeGroup
    <3> QED BY <3>3
  <2> QED BY <2>1, <2>2
<1>8. MemberInv BY <1>6, <1>7 DEF MemberInv
<1>9. FreeInv BY <1>6, <1>7 DEF FreeInv
<1> QED BY <1>1, <1>4, <1>5, <1>8, <1>9 DEF SettledInv

\* A step of an orderly application keeps the invariant.
LEMMA NextSettled ==
  ASSUME Synchronized, TermExcl, "op" \notin MayFail, ~CoreGroups, SettledInv, [Next]_vars
  PROVE  SettledInv'
<1>0. IInv' /\ LockInv' BY NextIInv, LockStep DEF SettledInv
<1>1. ASSUME NEW c \in Core, Calls(c) PROVE SettledInv'
  <2>1. PICK g \in Dyn, m \in SUBSET Core, sync \in BOOLEAN :
          \/ Create(c, g, m, sync)
          \/ IF sync THEN ModifySync(c, g, m, "modify") ELSE ModifyAsync(c, g, m, "modify")
          \/ m = {} /\ IF sync THEN ModifySync(c, g, m, "delete")
                               ELSE ModifyAsync(c, g, m, "delete")
    BY <1>1 DEF Calls
  <2>2. CASE Create(c, g, m, sync) BY <1>0, <2>2, CreateSettled
  <2>3. CASE ModifySync(c, g, m, "modify") \/ ModifyAsync(c, g, m, "modify")
    BY <1>0, <2>3, ModifySettled
  <2>4. CASE m = {} /\ (ModifySync(c, g, m, "delete") \/ ModifyAsync(c, g, m, "delete"))
    BY <1>0, <2>4, ModifySettled
  <2> QED BY <2>1, <2>2, <2>3, <2>4
<1>2. ASSUME NEW c \in Core, Works(c) PROVE SettledInv'
  <2>1. CASE SendReq(c) BY <1>0, <2>1, SendSettled
  <2>2. CASE SyncReturn(c) BY <1>0, <2>2, ReturnSettled
  <2>3. CASE PollThr(c) BY <1>0, <2>3, PollThrSettled
  <2>4. CASE PollShared(c) BY <1>0, <2>4, PollSharedSettled
  <2>5. CASE HandleAdd(c) \/ HandleRem(c) BY <1>0, <2>5, ReqSettled
  <2>6. CASE HandleDone(c) BY <1>0, <2>6, DoneSettled
  <2>7. CASE HandleTerm(c) \/ HandleTermDone(c) BY <1>0, <2>7, TermSettled
  <2>8. CASE TermPolled(c) BY <1>0, <2>8, TermPolledSettled
  <2>9. CASE TermExtPolled(c) BY <1>0, <2>9, LifeSettled
  <2>10. CASE JoinGroups(c) BY <1>0, <2>10, JoinSettled
  <2>11. ASSUME NEW g \in Group, LeaveGroup(c, g) PROVE SettledInv' BY <1>0, <2>11, LeaveSettled
  <2> QED BY <1>2, <2>1, <2>2, <2>3, <2>4, <2>5, <2>6, <2>7, <2>8, <2>9, <2>10, <2>11 DEF Works
<1>3. ASSUME NEW c \in Core, SendFail(c) PROVE SettledInv' BY <1>3 DEF SendFail
<1>4. ASSUME NEW c \in Core, TermBegin(c) \/ TermExt(c) PROVE SettledInv'
  BY <1>0, <1>4, TermReqsSettled
<1>5. ASSUME NEW c \in Core, InitCore(c) \/ InitExt(c) PROVE SettledInv' BY <1>0, <1>5, LifeSettled
<1>6. ASSUME NEW g \in Dyn, QueueCreate(g) \/ QueueDelete(g) PROVE SettledInv'
  BY <1>0, <1>6, QueueSettled
<1>7. CASE UNCHANGED vars
  <2>1. UNCHANGED <<call, ctrlq, batch, ops, grp, st, ph>> BY <1>7 DEF vars
  <2>2. Calm BY <2>1, CalmSame
  <2>3. Stays BY <2>1 DEF Stays
  <2> QED BY <1>0, <2>1, <2>2, <2>3, OpsSame, CalmStep
<1> QED BY <1>1, <1>2, <1>3, <1>4, <1>5, <1>6, <1>7 DEF Next

\* If the application runs one operation of a group at a time and none while a
\* core terminates, no send of a request fails and there are no single-core
\* groups, the invariant holds always.
THEOREM SettledInductive ==
  ASSUME Synchronized, TermExcl, "op" \notin MayFail, ~CoreGroups PROVE Spec => []SettledInv
<1>1. Init => SettledInv BY InitSettled
<1>2. SettledInv /\ [Next]_vars => SettledInv' BY NextSettled
<1> QED BY <1>1, <1>2, PTL DEF Spec

\* When no operation of a queue group is running, the threads in its schedule
\* group are the cores of its mask, and an element that q_grp_delete_done() has
\* freed has no member, no queue and no operation.
THEOREM GroupsSettledHolds ==
  ASSUME Synchronized, TermExcl, "op" \notin MayFail, ~CoreGroups PROVE Spec => []GroupsSettled
<1>1. SettledInv => GroupsSettled
  <2> SUFFICES ASSUME SettledInv PROVE GroupsSettled OBVIOUS
  <2>1. MembersMatchMask BY IdleMembers DEF MembersMatchMask
  <2>2. FreedGroupIsIdle BY Constants DEF SettledInv, FreeInv, FreedGroupIsIdle
  <2> QED BY <2>1, <2>2 DEF SettledInv, IInv, GroupsSettled
<1> QED BY <1>1, SettledInductive, PTL

\* A core that has returned from term_core() is in no schedule group and no core
\* mask, and no request is left in its control queue.
THEOREM TerminatedIsGoneHolds ==
  ASSUME Synchronized, TermExcl, "op" \notin MayFail, ~CoreGroups PROVE Spec => []TerminatedIsGone
<1>1. SettledInv => TerminatedIsGone
  <2> SUFFICES ASSUME SettledInv, NEW c \in Core, st[c] = "down"
               PROVE  /\ \A g \in Group : c \notin grp[g].sched /\ c \notin grp[g].mask
                      /\ \A i \in DOMAIN ctrlq[c] : ctrlq[c][i].t = "DONE"
    BY DEF TerminatedIsGone, LeavesAllGroups, NothingLeftBehind
  <2>1. \A g \in Group : c \notin grp[g].mask BY DEF SettledInv, IInv, MapInv
  <2>2. \A g, k : ~Asked(g, k, c) BY NotAsked
  <2>3. ASSUME NEW g \in Group PROVE c \notin grp[g].sched
    <3>1. CASE grp[g].alloc BY <2>1, <2>2, <3>1 DEF SettledInv, MemberInv
    <3>2. CASE ~grp[g].alloc BY <3>2 DEF SettledInv, FreeInv
    <3> QED BY <3>1, <3>2
  <2>4. ASSUME NEW i \in DOMAIN ctrlq[c] PROVE ctrlq[c][i].t = "DONE"
    <3>1. PICK m \in Mail(c) : m = ctrlq[c][i] BY DEF Mail, ToSet
    <3>2. m \in Msg
      <4>1. ctrlq[c] \in Seq(Msg) BY DEF SettledInv, IInv, TypeOK
      <4>2. m \in ToSet(ctrlq[c]) BY <3>1 DEF ToSet
      <4> QED BY <4>1, <4>2, Elements
    <3>3. m.t \notin {"ADD", "REM", "TERM"} BY DEF SettledInv, QuietInv
    <3>4. m.t # "TDONE"
      <4> SUFFICES ASSUME m.t = "TDONE" PROVE FALSE OBVIOUS
      <4>1. m.id = c BY DEF SettledInv, IInv, MailInv
      <4>2. m = [t |-> "TDONE", id |-> c] BY <3>2, <4>1 DEF Msg
      <4> QED BY <3>1, <4>2 DEF SettledInv, IInv, TermInv
    <3> QED BY <3>1, <3>2, <3>3, <3>4 DEF Msg
  <2> QED BY <2>1, <2>3, <2>4
<1> QED BY <1>1, SettledInductive, PTL
=============================================================================
