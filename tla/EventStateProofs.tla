-------------------------- MODULE EventStateProofs --------------------------
(***************************************************************************)
(* The safety properties of EventState, for any number of cores, events    *)
(* and references to an event, and any range of generations.               *)
(*                                                                         *)
(* The counters of an event are those of its references at each place and  *)
(* of the cores that are in a call with one (CountOK), so what a check     *)
(* compares is always right; the generation is that of the handle, or the  *)
(* next one, as long as there is only one reference (GenOK), and never     *)
(* falls below the range when there are more, since a core that is about   *)
(* to take it back has taken it to the maximum (LowOK).                    *)
(***************************************************************************)
EXTENDS EventState, FiniteSetTheorems, SequenceTheorems, TLAPS

\* No revert of a failed send comes between the two steps of another core, and
\* no reference is in a vector of the application: else an error is reported.
Regular == ~RevertRace /\ ~RefsInVectors

-----------------------------------------------------------------------------
(* The events of a call r *)

\* e has not been added to its counters yet.
Before(r, e) ==
  \E j \in DOMAIN r.es : /\ r.es[j] = e
                         /\ \/ r.pc = "add" /\ j >= r.i
                            \/ r.pc = "wrap" /\ j > r.i

\* It has been, and is not where it goes yet, nor back.
After(r, e) ==
  \E j \in DOMAIN r.es : /\ r.es[j] = e
                         /\ \/ r.pc = "add" /\ j < r.i
                            \/ r.pc = "wrap" /\ j <= r.i
                            \/ r.pc \in {"act", "enq", "sub"} /\ j >= r.i
                            \/ r.pc = "unwrap" /\ j > r.i

\* The core is between two atomic steps on e.
AtWrap(r, e)   == r.pc = "wrap" /\ r.es[r.i] = e
AtUnwrap(r, e) == r.pc = "unwrap" /\ r.es[r.i] = e

SendKinds == {"send", "sendaggr", "marksend", "unmarksend"}
FreeKinds == {"free", "markfree", "unmarkfree"}

Holds(r, e)    == Before(r, e) \/ After(r, e) \/ AtUnwrap(r, e)
Sends(r, e)    == After(r, e) /\ r.kind \in SendKinds
Frees(r, e)    == After(r, e) /\ r.kind \in FreeKinds
Enqueues(r, e) == After(r, e) /\ r.pc = "enq"

\* The cores that hold e, when K are the calls.
Users(K, e)   == {c \in Cores : Holds(K[c], e)}
Senders(K, e) == {c \in Cores : Sends(K[c], e)}
Freers(K, e)  == {c \in Cores : Frees(K[c], e)}

\* The generation after g, and k generations before g.
NextGen(g) == IF g = EVGEN_MAX - 1 THEN EVGEN_INIT ELSE g + 1
GenBefore(g, k) == IF g - k >= EVGEN_INIT THEN g - k ELSE g - k + Period

-----------------------------------------------------------------------------
(* The inductive invariant *)

TypeInv ==
  /\ cnt \in [Events -> [evgen : Int, ref : Int, send : Int]]
  /\ refs \in [Events -> BOOLEAN] /\ aggr \in [Events -> BOOLEAN]
  /\ hdl \in [Events -> EVGEN_INIT..(EVGEN_MAX - 1)]
  /\ op \in [Events -> {"other", "marksend", "markfree"}]
  /\ odp \in [Events -> 0..MaxRefs]
  /\ at \in [Events -> [Places -> Nat]]
  /\ DOMAIN stale = Events /\ \A e \in Events : stale[e] \in Seq(Int)
  /\ DOMAIN call = Cores

\* A call is in one of its steps, with one or two events.
CallOK(r) ==
  \/ r = NoCall
  \/ /\ r \in [pc : {"add", "wrap", "act", "enq", "sub", "unwrap"}, kind : Kinds \cup Unmark,
               es : Batches, i : 1..2]
     /\ r.i <= Len(r.es)
     /\ r.kind \in {"marksend", "markfree"} \cup Unmark => Len(r.es) = 1
     /\ r.pc \in {"add", "wrap", "act"} => r.kind \in Kinds
     /\ r.pc = "act" => r.kind = "free" \/ r.i = 1
     /\ r.pc = "enq" => r.kind = "sendaggr" /\ r.i = 1
     /\ r.pc \in {"sub", "unwrap"} => r.kind \in {"send", "sendaggr"} \cup Unmark

CallInv == \A c \in Cores : CallOK(call[c])

\* Every reference is somewhere, and the counters tell of each how it is used.
CountOK(e) ==
  /\ odp[e] = at[e].user + at[e].queue + at[e].aggregator + at[e].vector + at[e].marksend
               + at[e].markfree + Cardinality(Users(call, e))
  /\ cnt[e].ref = odp[e] - at[e].markfree - Cardinality(Freers(call, e))
  /\ cnt[e].send = at[e].queue + at[e].aggregator + at[e].marksend
                    + Cardinality(Senders(call, e))

\* The application has e, or EM has not begun to look at it.
Fresh(e) == at[e].user + at[e].vector > 0 \/ \E c \in Cores : Before(call[c], e)

\* An event without references is used at one place, its generation is that of
\* the handle until it is given to EM, then the next one.
GenOK(e) ==
  ~refs[e] =>
    /\ odp[e] <= 1
    /\ Fresh(e) => cnt[e].evgen = hdl[e]
    /\ \A c \in Cores : AtWrap(call[c], e) => cnt[e].evgen = EVGEN_MAX /\ hdl[e] = EVGEN_MAX - 1
    /\ \A c \in Cores : AtUnwrap(call[c], e) =>
         cnt[e].evgen = EVGEN_INIT - 1 /\ hdl[e] = EVGEN_MAX - 1
    /\ ~Fresh(e) /\ (\A c \in Cores : ~AtWrap(call[c], e) /\ ~AtUnwrap(call[c], e))
         => cnt[e].evgen = NextGen(hdl[e])

\* The generation is below the first one only between the two steps of a revert
\* and a core that is about to take it back has taken it to the maximum.
LowOK(e) ==
  /\ cnt[e].evgen >= EVGEN_INIT - 1
  /\ cnt[e].evgen >= EVGEN_INIT \/ \E c \in Cores : AtUnwrap(call[c], e)
  /\ \A c \in Cores : AtWrap(call[c], e) => cnt[e].evgen >= EVGEN_MAX
  /\ \A c, d \in Cores : AtWrap(call[c], e) /\ AtWrap(call[d], e) => c = d
  /\ \A c, d \in Cores : AtUnwrap(call[c], e) /\ AtUnwrap(call[d], e) => c = d

\* An event is flagged exactly while it is with an aggregator, references never
\* are; the unmark calls find the mark.
FlagOK(e) ==
  /\ refs[e] => ~aggr[e] /\ at[e].vector = 0
  /\ ~refs[e] =>
       /\ aggr[e] <=> at[e].aggregator > 0 \/ \E c \in Cores : Enqueues(call[c], e)
       /\ at[e].marksend > 0 => op[e] = "marksend"
       /\ at[e].markfree > 0 => op[e] = "markfree"
       /\ \A c \in Cores : After(call[c], e) /\ call[c].kind \in {"marksend", "markfree"}
                           => op[e] = call[c].kind

\* The handles that were given away last, before the one of now.
GenNow(e) ==
  IF at[e].queue + at[e].aggregator > 0 \/ odp[e] = 0 THEN NextGen(hdl[e]) ELSE hdl[e]
StaleOK(e) ==
  ~refs[e] =>
    /\ Len(stale[e]) < Period
    /\ \A j \in 1..Len(stale[e]) : stale[e][j] = GenBefore(GenNow(e), Len(stale[e]) + 1 - j)

EventOK(e) == CountOK(e) /\ GenOK(e) /\ LowOK(e) /\ FlagOK(e) /\ StaleOK(e)

IInv == TypeInv /\ CallInv /\ (\A e \in Events : EventOK(e)) /\ ~alarm

-----------------------------------------------------------------------------
(* Words, batches and calls *)

\* What is read back from a word that has not gone below zero.
LEMMA WordIs ==
  ASSUME NEW w \in [evgen : Int, ref : Int, send : Int], w.evgen >= 0
  PROVE  /\ Word(w).ref = w.ref /\ Word(w).send = w.send /\ Word(w).evgen \in Int
         /\ w.evgen < Width => Word(w).evgen = w.evgen /\ w.evgen % Width = w.evgen
         /\ w.evgen % Width \in Int
<1>1. Width \in Nat \ {0} BY EsvAssumption
<1> QED BY <1>1 DEF Word

\* The events of a batch.
LEMMA BatchIs ==
  ASSUME NEW es \in Batches
  PROVE  /\ Len(es) \in {1, 2} /\ DOMAIN es = 1..Len(es)
         /\ \A j \in 1..Len(es) : es[j] \in Events
         /\ \A j, k \in 1..Len(es) : es[j] = es[k] => j = k
         /\ Range(es) = {es[j] : j \in 1..Len(es)}
<1>1. CASE \E e \in Events : es = <<e>>
  <2>1. PICK e \in Events : es = <<e>> BY <1>1
  <2>2. Len(es) = 1 /\ DOMAIN es = 1..1 /\ es[1] = e BY <2>1
  <2> QED BY <2>2 DEF Range
<1>2. CASE es \in Events \X Events /\ es[1] # es[2]
  <2>1. PICK e, f \in Events : es = <<e, f>> BY <1>2
  <2>2. Len(es) = 2 /\ DOMAIN es = 1..2 /\ es[1] = e /\ es[2] = f BY <2>1
  <2> QED BY <1>2, <2>2 DEF Range
<1> QED BY <1>1, <1>2 DEF Batches

\* A core that is in no call.
LEMMA NoCallHolds ==
  ASSUME NEW e
  PROVE  /\ ~Before(NoCall, e) /\ ~After(NoCall, e) /\ ~AtWrap(NoCall, e) /\ ~AtUnwrap(NoCall, e)
         /\ ~Holds(NoCall, e) /\ ~Sends(NoCall, e) /\ ~Frees(NoCall, e) /\ ~Enqueues(NoCall, e)
BY DEF NoCall, Before, After, AtWrap, AtUnwrap, Holds, Sends, Frees, Enqueues

\* The same of e in two calls.
Alike(r, n, e) ==
  /\ Before(n, e) <=> Before(r, e)
  /\ After(n, e) <=> After(r, e)
  /\ AtWrap(n, e) <=> AtWrap(r, e)
  /\ AtUnwrap(n, e) <=> AtUnwrap(r, e)
  /\ Enqueues(n, e) <=> Enqueues(r, e)
  /\ After(r, e) => n.kind = r.kind

\* The number of events of a call.
Count(r) == Len(r.es)

\* Where a call with one or two events can be.
LEMMA OneOrTwo ==
  ASSUME NEW n, NEW i, n \in {1, 2}, i \in 1..2, i <= n
  PROVE  i \in 1..n /\ \/ n = 1 /\ i = 1
                       \/ n = 2 /\ i = 1
                       \/ n = 2 /\ i = 2
OBVIOUS

\* What a call in progress looks like.
LEMMA InCall ==
  ASSUME NEW r, CallOK(r), r.pc # "none"
  PROVE  /\ r.pc \in {"add", "wrap", "act", "enq", "sub", "unwrap"} /\ r.kind \in Kinds \cup Unmark
         /\ r.es \in Batches /\ r.es[r.i] \in Events
         /\ Len(r.es) = Count(r) /\ DOMAIN r.es = 1..Count(r)
         /\ \A j \in 1..Count(r) : r.es[j] \in Events
         /\ \A j, k \in 1..Count(r) : r.es[j] = r.es[k] => j = k
         /\ \/ Count(r) = 1 /\ r.i = 1
            \/ Count(r) = 2 /\ r.i = 1
            \/ Count(r) = 2 /\ r.i = 2
         /\ r = [pc |-> r.pc, kind |-> r.kind, es |-> r.es, i |-> r.i]
         /\ r.kind \in {"marksend", "markfree"} \cup Unmark => Count(r) = 1
         /\ r.pc \in {"add", "wrap", "act"} => r.kind \in Kinds
         /\ r.pc = "act" => r.kind = "free" \/ r.i = 1
         /\ r.pc = "enq" => r.kind = "sendaggr" /\ r.i = 1
         /\ r.pc \in {"sub", "unwrap"} => r.kind \in {"send", "sendaggr"} \cup Unmark
<1>1. r # NoCall BY DEF NoCall
<1>2. r.es \in Batches /\ r.i \in 1..2 /\ r.i <= Count(r) BY <1>1 DEF CallOK, Count
<1>3. /\ Count(r) \in {1, 2} /\ DOMAIN r.es = 1..Count(r)
      /\ \A j \in 1..Count(r) : r.es[j] \in Events
      /\ \A j, k \in 1..Count(r) : r.es[j] = r.es[k] => j = k
  BY <1>2, BatchIs DEF Count
<1>4. r.i \in 1..Count(r) /\ \/ Count(r) = 1 /\ r.i = 1
                             \/ Count(r) = 2 /\ r.i = 1
                             \/ Count(r) = 2 /\ r.i = 2
  BY <1>2, <1>3, OneOrTwo
<1>5. r.kind \in {"marksend", "markfree"} \cup Unmark => Count(r) = 1 BY <1>1 DEF CallOK, Count
<1>6. Len(r.es) = Count(r) BY DEF Count
<1>7. /\ r.pc \in {"add", "wrap", "act", "enq", "sub", "unwrap"} /\ r.kind \in Kinds \cup Unmark
      /\ r = [pc |-> r.pc, kind |-> r.kind, es |-> r.es, i |-> r.i]
      /\ r.pc \in {"add", "wrap", "act"} => r.kind \in Kinds
      /\ r.pc = "act" => r.kind = "free" \/ r.i = 1
      /\ r.pc = "enq" => r.kind = "sendaggr" /\ r.i = 1
      /\ r.pc \in {"sub", "unwrap"} => r.kind \in {"send", "sendaggr"} \cup Unmark
  BY <1>1 DEF CallOK
<1>8. r.es[r.i] \in Events BY <1>3, <1>4
<1> QED BY <1>2, <1>3, <1>4, <1>5, <1>6, <1>7, <1>8

\* A call that has made a step is in one of the next ones.
LEMMA NextCall ==
  ASSUME NEW r, CallOK(r), r.pc # "none", NEW p, NEW k,
         p \in {"add", "wrap", "act", "enq", "sub", "unwrap"}, k \in 1..Count(r),
         p \in {"add", "wrap", "act"} => r.kind \in Kinds,
         p = "act" => r.kind = "free" \/ k = 1,
         p = "enq" => r.kind = "sendaggr" /\ k = 1,
         p \in {"sub", "unwrap"} => r.kind \in {"send", "sendaggr"} \cup Unmark
  PROVE  CallOK([pc |-> p, kind |-> r.kind, es |-> r.es, i |-> k])
<1> DEFINE n == [pc |-> p, kind |-> r.kind, es |-> r.es, i |-> k]
<1>1. r.es \in Batches /\ Count(r) \in {1, 2} /\ r.kind \in Kinds \cup Unmark BY InCall
<1>2. k \in 1..2 /\ k <= Count(r) BY <1>1
<1>3. r.kind \in {"marksend", "markfree"} \cup Unmark => Len(r.es) = 1 BY InCall DEF Count
<1>4. n \in [pc : {"add", "wrap", "act", "enq", "sub", "unwrap"}, kind : Kinds \cup Unmark,
             es : Batches, i : 1..2]
  BY <1>1, <1>2
<1>5. n.i <= Len(n.es) BY <1>2 DEF Count
<1> QED BY <1>3, <1>4, <1>5 DEF CallOK

\* The call has added the event it is at, and goes on.
LEMMA AddedIs ==
  ASSUME NEW r, CallOK(r), r.pc = "add", NEW n, n \in {NextPc(r), [r EXCEPT !.pc = "wrap"]}
  PROVE  /\ CallOK(n) /\ n.kind = r.kind
         /\ LET e == r.es[r.i] IN
            /\ Before(r, e) /\ ~After(r, e) /\ ~AtWrap(r, e) /\ ~AtUnwrap(r, e)
            /\ ~Before(n, e) /\ After(n, e) /\ ~AtUnwrap(n, e) /\ ~Enqueues(n, e)
            /\ AtWrap(n, e) <=> n.pc = "wrap"
         /\ \A e \in Events \ {r.es[r.i]} : Alike(r, n, e)
<1>1. /\ r.kind \in Kinds /\ r.es[r.i] \in Events
      /\ Len(r.es) = Count(r) /\ DOMAIN r.es = 1..Count(r)
      /\ \A j, k \in 1..Count(r) : r.es[j] = r.es[k] => j = k
      /\ \/ Count(r) = 1 /\ r.i = 1
         \/ Count(r) = 2 /\ r.i = 1
         \/ Count(r) = 2 /\ r.i = 2
      /\ r.kind \in {"marksend", "markfree"} \cup Unmark => Count(r) = 1
  BY InCall
<1>2. r = [pc |-> "add", kind |-> r.kind, es |-> r.es, i |-> r.i] BY InCall
<1>3. \E p \in {"wrap", "add", "act"}, k \in 1..Count(r) :
        /\ n = [pc |-> p, kind |-> r.kind, es |-> r.es, i |-> k]
        /\ \/ p = "wrap" /\ k = r.i
           \/ p = "add" /\ r.i = 1 /\ Count(r) = 2 /\ k = 2
           \/ p = "act" /\ r.i = Count(r) /\ k = 1
  <2>1. CASE n = [r EXCEPT !.pc = "wrap"]
    <3>1. n = [pc |-> "wrap", kind |-> r.kind, es |-> r.es, i |-> r.i] BY <1>2, <2>1
    <3>2. r.i \in 1..Count(r) BY <1>1
    <3> QED BY <3>1, <3>2
  <2>2. CASE n = NextPc(r) /\ r.i < Count(r)
    <3>1. n = [pc |-> "add", kind |-> r.kind, es |-> r.es, i |-> r.i + 1]
      BY <1>2, <2>2 DEF NextPc, Count
    <3>2. r.i = 1 /\ Count(r) = 2 BY <1>1, <2>2
    <3> QED BY <3>1, <3>2
  <2>3. CASE n = NextPc(r) /\ ~(r.i < Count(r))
    <3>1. n = [pc |-> "act", kind |-> r.kind, es |-> r.es, i |-> 1]
      BY <1>2, <2>3 DEF NextPc, Count
    <3>2. r.i = Count(r) /\ 1 \in 1..Count(r) BY <1>1, <2>3
    <3> QED BY <3>1, <3>2
  <2> QED BY <2>1, <2>2, <2>3
<1>4. PICK p \in {"wrap", "add", "act"}, k \in 1..Count(r) :
        /\ n = [pc |-> p, kind |-> r.kind, es |-> r.es, i |-> k]
        /\ \/ p = "wrap" /\ k = r.i
           \/ p = "add" /\ r.i = 1 /\ Count(r) = 2 /\ k = 2
           \/ p = "act" /\ r.i = Count(r) /\ k = 1
  BY <1>3
<1>5. CallOK(n) BY <1>1, <1>4, NextCall
<1>6. n.pc = p /\ n.kind = r.kind /\ n.es = r.es /\ n.i = k BY <1>4
<1>7. \A e : /\ Before(n, e) <=> Before(r, e) /\ e # r.es[r.i]
             /\ After(n, e) <=> After(r, e) \/ e = r.es[r.i]
  <2> TAKE e
  <2>1. Before(n, e) <=> \E j \in 1..Count(r) : r.es[j] = e /\ j > r.i
    BY <1>1, <1>4, <1>6 DEF Before
  <2>2. Before(r, e) <=> \E j \in 1..Count(r) : r.es[j] = e /\ j >= r.i
    BY <1>1 DEF Before
  <2>3. After(n, e) <=> \E j \in 1..Count(r) : r.es[j] = e /\ j <= r.i
    BY <1>1, <1>4, <1>6 DEF After
  <2>4. After(r, e) <=> \E j \in 1..Count(r) : r.es[j] = e /\ j < r.i
    BY <1>1 DEF After
  <2>5. r.i \in 1..Count(r) BY <1>1
  <2> QED BY <1>1, <2>1, <2>2, <2>3, <2>4, <2>5
<1>8. Before(r, r.es[r.i]) /\ ~After(r, r.es[r.i]) BY <1>1 DEF Before, After
<1>9. \A e : ~AtWrap(r, e) /\ ~AtUnwrap(r, e) /\ ~Enqueues(r, e) /\ ~AtUnwrap(n, e) /\ ~Enqueues(n, e)
  BY <1>4, <1>6 DEF AtWrap, AtUnwrap, Enqueues
<1>10. \A e : AtWrap(n, e) <=> n.pc = "wrap" /\ e = r.es[r.i] BY <1>4, <1>6 DEF AtWrap
<1> QED BY <1>5, <1>6, <1>7, <1>8, <1>9, <1>10 DEF Alike

\* The call has taken the generation back to the first one, and goes on.
LEMMA WrappedIs ==
  ASSUME NEW r, CallOK(r), r.pc = "wrap", NEW n, n = NextPc(r)
  PROVE  /\ CallOK(n) /\ n.kind = r.kind
         /\ LET e == r.es[r.i] IN
            /\ ~Before(r, e) /\ After(r, e) /\ AtWrap(r, e) /\ ~AtUnwrap(r, e) /\ ~Enqueues(r, e)
            /\ ~Before(n, e) /\ After(n, e) /\ ~AtWrap(n, e) /\ ~AtUnwrap(n, e) /\ ~Enqueues(n, e)
         /\ \A e \in Events \ {r.es[r.i]} : Alike(r, n, e)
<1>1. /\ r.kind \in Kinds /\ r.es[r.i] \in Events
      /\ Len(r.es) = Count(r) /\ DOMAIN r.es = 1..Count(r)
      /\ \A j, k \in 1..Count(r) : r.es[j] = r.es[k] => j = k
      /\ \/ Count(r) = 1 /\ r.i = 1
         \/ Count(r) = 2 /\ r.i = 1
         \/ Count(r) = 2 /\ r.i = 2
      /\ r = [pc |-> r.pc, kind |-> r.kind, es |-> r.es, i |-> r.i]
  BY InCall
<1>2. \E p \in {"add", "act"}, k \in 1..Count(r) :
        /\ n = [pc |-> p, kind |-> r.kind, es |-> r.es, i |-> k]
        /\ \/ p = "add" /\ r.i = 1 /\ Count(r) = 2 /\ k = 2
           \/ p = "act" /\ r.i = Count(r) /\ k = 1
  <2>1. CASE r.i < Count(r)
    <3>1. n = [pc |-> "add", kind |-> r.kind, es |-> r.es, i |-> r.i + 1]
      BY <1>1, <2>1 DEF NextPc, Count
    <3>2. r.i = 1 /\ Count(r) = 2 BY <1>1, <2>1
    <3> QED BY <3>1, <3>2
  <2>2. CASE ~(r.i < Count(r))
    <3>1. n = [pc |-> "act", kind |-> r.kind, es |-> r.es, i |-> 1]
      BY <1>1, <2>2 DEF NextPc, Count
    <3>2. r.i = Count(r) /\ 1 \in 1..Count(r) BY <1>1, <2>2
    <3> QED BY <3>1, <3>2
  <2> QED BY <2>1, <2>2
<1>3. PICK p \in {"add", "act"}, k \in 1..Count(r) :
        /\ n = [pc |-> p, kind |-> r.kind, es |-> r.es, i |-> k]
        /\ \/ p = "add" /\ r.i = 1 /\ Count(r) = 2 /\ k = 2
           \/ p = "act" /\ r.i = Count(r) /\ k = 1
  BY <1>2
<1>4. CallOK(n) BY <1>1, <1>3, NextCall
<1>5. n.pc = p /\ n.kind = r.kind /\ n.es = r.es /\ n.i = k BY <1>3
<1>6. \A e : /\ Before(n, e) <=> Before(r, e)
             /\ After(n, e) <=> After(r, e)
  <2> TAKE e
  <2>1. Before(n, e) <=> \E j \in 1..Count(r) : r.es[j] = e /\ j > r.i
    BY <1>1, <1>3, <1>5 DEF Before
  <2>2. Before(r, e) <=> \E j \in 1..Count(r) : r.es[j] = e /\ j > r.i
    BY <1>1 DEF Before
  <2>3. After(n, e) <=> \E j \in 1..Count(r) : r.es[j] = e /\ j <= r.i
    BY <1>1, <1>3, <1>5 DEF After
  <2>4. After(r, e) <=> \E j \in 1..Count(r) : r.es[j] = e /\ j <= r.i
    BY <1>1 DEF After
  <2> QED BY <2>1, <2>2, <2>3, <2>4
<1>7. ~Before(r, r.es[r.i]) /\ After(r, r.es[r.i]) BY <1>1 DEF Before, After
<1>8. \A e : /\ ~AtUnwrap(r, e) /\ ~Enqueues(r, e) /\ ~AtUnwrap(n, e) /\ ~Enqueues(n, e)
             /\ AtWrap(r, e) <=> e = r.es[r.i]
             /\ ~AtWrap(n, e)
  BY <1>3, <1>5 DEF AtWrap, AtUnwrap, Enqueues
<1> QED BY <1>4, <1>5, <1>6, <1>7, <1>8 DEF Alike

\* What follows the event that a call is at.
Following(r, p) ==
  IF r.i < Len(r.es) THEN [pc |-> p, kind |-> r.kind, es |-> r.es, i |-> r.i + 1] ELSE NoCall

\* The call is done with the event it is at, and goes on with the next one.
LEMMA LeavesIs ==
  ASSUME NEW r, CallOK(r), NEW p, \/ r.pc = "act" /\ p = "act" /\ r.kind = "free"
                                  \/ r.pc \in {"sub", "unwrap"} /\ p = "sub",
         NEW n, n = Following(r, p)
  PROVE  /\ CallOK(n)
         /\ LET e == r.es[r.i] IN
            /\ ~Before(r, e) /\ ~AtWrap(r, e) /\ ~Enqueues(r, e)
            /\ After(r, e) <=> r.pc # "unwrap"
            /\ AtUnwrap(r, e) <=> r.pc = "unwrap"
            /\ ~Before(n, e) /\ ~After(n, e) /\ ~AtWrap(n, e) /\ ~AtUnwrap(n, e) /\ ~Enqueues(n, e)
         /\ \A e \in Events \ {r.es[r.i]} : Alike(r, n, e)
<1>1. /\ r.es[r.i] \in Events
      /\ Len(r.es) = Count(r) /\ DOMAIN r.es = 1..Count(r)
      /\ \A j, k \in 1..Count(r) : r.es[j] = r.es[k] => j = k
      /\ \/ Count(r) = 1 /\ r.i = 1
         \/ Count(r) = 2 /\ r.i = 1
         \/ Count(r) = 2 /\ r.i = 2
      /\ r.pc \in {"sub", "unwrap"} => r.kind \in {"send", "sendaggr"} \cup Unmark
      /\ r.pc \in {"add", "wrap", "act"} => r.kind \in Kinds
  BY InCall
<1>2. \A e : /\ ~Before(r, e) /\ ~AtWrap(r, e) /\ ~Enqueues(r, e)
             /\ AtUnwrap(r, e) <=> r.pc = "unwrap" /\ e = r.es[r.i]
  BY DEF Before, AtWrap, AtUnwrap, Enqueues
<1>3. \A e : After(r, e) <=> \E j \in 1..Count(r) :
               r.es[j] = e /\ (IF r.pc = "unwrap" THEN j > r.i ELSE j >= r.i)
  BY <1>1 DEF After
<1>4. After(r, r.es[r.i]) <=> r.pc # "unwrap" BY <1>1, <1>3
<1>5. CASE r.i < Count(r)
  <2>1. r.i = 1 /\ Count(r) = 2 BY <1>1, <1>5
  <2>2. n = [pc |-> p, kind |-> r.kind, es |-> r.es, i |-> 2]
    BY <1>5, <2>1 DEF Following, Count
  <2>3. CallOK(n) BY <1>1, <2>1, <2>2, NextCall
  <2>4. n.pc = p /\ n.kind = r.kind /\ n.es = r.es /\ n.i = 2 BY <2>2
  <2>5. \A e : /\ ~Before(n, e) /\ ~AtWrap(n, e) /\ ~AtUnwrap(n, e) /\ ~Enqueues(n, e)
               /\ After(n, e) <=> \E j \in 1..Count(r) : r.es[j] = e /\ j >= 2
    BY <1>1, <2>4 DEF Before, After, AtWrap, AtUnwrap, Enqueues
  <2>6. \A e : After(n, e) <=> After(r, e) /\ e # r.es[r.i] BY <1>1, <1>3, <2>1, <2>5
  <2> QED BY <1>2, <1>4, <2>3, <2>4, <2>5, <2>6 DEF Alike
<1>6. CASE ~(r.i < Count(r))
  <2>1. r.i = Count(r) BY <1>1, <1>6
  <2>2. n = NoCall BY <1>6 DEF Following, Count
  <2>3. CallOK(n) BY <2>2 DEF CallOK
  <2>4. \A e : After(r, e) => e = r.es[r.i] BY <1>1, <1>3, <2>1
  <2> QED BY <1>2, <1>4, <2>2, <2>3, <2>4, NoCallHolds DEF Alike
<1> QED BY <1>5, <1>6

\* A call that begins has not added its events.
LEMMA BeginsIs ==
  ASSUME NEW kind \in Kinds, NEW es \in Batches, kind \in {"marksend", "markfree"} => Len(es) = 1,
         NEW n, n = [pc |-> "add", kind |-> kind, es |-> es, i |-> 1]
  PROVE  /\ CallOK(n)
         /\ \A e : /\ Before(n, e) <=> e \in Range(es)
                   /\ ~After(n, e) /\ ~AtWrap(n, e) /\ ~AtUnwrap(n, e) /\ ~Enqueues(n, e)
<1>1. n.pc = "add" /\ n.kind = kind /\ n.es = es /\ n.i = 1 OBVIOUS
<1>2. Len(es) \in {1, 2} /\ DOMAIN es = 1..Len(es) /\ Range(es) = {es[j] : j \in 1..Len(es)}
  BY BatchIs
<1>3. CallOK(n)
  <2>1. 1 <= Len(es) BY <1>2
  <2>2. n \in [pc : {"add", "wrap", "act", "enq", "sub", "unwrap"}, kind : Kinds \cup Unmark,
               es : Batches, i : 1..2]
    OBVIOUS
  <2>3. kind \notin Unmark BY DEF Kinds, Unmark
  <2> QED BY <1>1, <2>1, <2>2, <2>3 DEF CallOK
<1>4. \A e : Before(n, e) <=> e \in Range(es)
  <2> TAKE e
  <2>1. Before(n, e) <=> \E j \in 1..Len(es) : es[j] = e /\ j >= 1 BY <1>1, <1>2 DEF Before
  <2>2. Len(es) \in Nat BY <1>2
  <2> QED BY <1>2, <2>1, <2>2
<1>5. \A e : ~After(n, e) /\ ~AtWrap(n, e) /\ ~AtUnwrap(n, e) /\ ~Enqueues(n, e)
  <2> TAKE e
  <2>1. Len(es) \in Nat BY <1>2
  <2>2. ~After(n, e) BY <1>1, <1>2, <2>1 DEF After
  <2> QED BY <1>1, <2>2 DEF AtWrap, AtUnwrap, Enqueues
<1> QED BY <1>3, <1>4, <1>5

\* All events of a call have been added, and are given to EM at once.
LEMMA ActsIs ==
  ASSUME NEW r, CallOK(r), r.pc \in {"act", "enq"}, r.i = 1
  PROVE  /\ Len(r.es) \in {1, 2} /\ Range(r.es) \subseteq Events
         /\ \A e : /\ After(r, e) <=> e \in Range(r.es)
                   /\ ~Before(r, e) /\ ~AtWrap(r, e) /\ ~AtUnwrap(r, e)
                   /\ Enqueues(r, e) <=> r.pc = "enq" /\ e \in Range(r.es)
<1>1. r.es \in Batches BY InCall
<1>2. /\ Len(r.es) \in {1, 2} /\ DOMAIN r.es = 1..Len(r.es)
      /\ \A j \in 1..Len(r.es) : r.es[j] \in Events
      /\ Range(r.es) = {r.es[j] : j \in 1..Len(r.es)}
  BY <1>1, BatchIs
<1>3. \A e : After(r, e) <=> e \in Range(r.es)
  <2> TAKE e
  <2>1. After(r, e) <=> \E j \in 1..Len(r.es) : r.es[j] = e /\ j >= 1 BY <1>2 DEF After
  <2>2. Len(r.es) \in Nat BY <1>2
  <2> QED BY <1>2, <2>1, <2>2
<1>4. \A e : ~Before(r, e) /\ ~AtWrap(r, e) /\ ~AtUnwrap(r, e) BY DEF Before, AtWrap, AtUnwrap
<1> QED BY <1>2, <1>3, <1>4 DEF Enqueues

\* The events are flagged for the aggregator.
LEMMA FlagsIs ==
  ASSUME NEW r, CallOK(r), r.pc = "act", r.kind = "sendaggr", NEW n, n = [r EXCEPT !.pc = "enq"]
  PROVE  /\ CallOK(n) /\ n.kind = r.kind /\ r.i = 1
         /\ \A e : /\ After(n, e) <=> e \in Range(r.es)
                   /\ Enqueues(n, e) <=> e \in Range(r.es)
                   /\ ~Before(n, e) /\ ~AtWrap(n, e) /\ ~AtUnwrap(n, e)
<1>1. /\ r = [pc |-> r.pc, kind |-> r.kind, es |-> r.es, i |-> r.i] /\ r.i = 1
      /\ Count(r) \in {1, 2}
  BY InCall
<1>2. n = [pc |-> "enq", kind |-> r.kind, es |-> r.es, i |-> 1] BY <1>1
<1>3. CallOK(n) BY <1>1, <1>2, NextCall
<1>4. n.pc = "enq" /\ n.kind = r.kind /\ n.es = r.es /\ n.i = 1 BY <1>2
<1> QED BY <1>1, <1>3, <1>4, ActsIs

\* The first m events of a call have been enqueued, the others are taken back.
Accepted(r, m) == {r.es[j] : j \in 1..m}
Rest(r, m) == IF m = Len(r.es) THEN NoCall ELSE [r EXCEPT !.pc = "sub", !.i = m + 1]

\* What is left of such a call.
LEMMA RestIs ==
  ASSUME NEW r, CallOK(r), r.pc \in {"act", "enq"}, r.i = 1, r.kind \in {"send", "sendaggr"},
         NEW m, m \in 0..Len(r.es), NEW n, n = Rest(r, m)
  PROVE  /\ CallOK(n)
         /\ \A e : /\ After(n, e) <=> e \in Range(r.es) \ Accepted(r, m)
                   /\ After(n, e) => n.kind = r.kind
                   /\ ~Before(n, e) /\ ~AtWrap(n, e) /\ ~AtUnwrap(n, e) /\ ~Enqueues(n, e)
         /\ Accepted(r, m) \subseteq Range(r.es)
<1>1. /\ r = [pc |-> r.pc, kind |-> r.kind, es |-> r.es, i |-> r.i]
      /\ r.es \in Batches /\ Len(r.es) = Count(r) /\ DOMAIN r.es = 1..Count(r)
      /\ \A j, k \in 1..Count(r) : r.es[j] = r.es[k] => j = k
  BY InCall
<1>2. Range(r.es) = {r.es[j] : j \in 1..Count(r)} /\ Count(r) \in {1, 2} BY <1>1, BatchIs
<1>3. m \in 0..Count(r) BY <1>1
<1>4. {r.es[j] : j \in 1..m} \subseteq Range(r.es) BY <1>2, <1>3
<1>5. CASE m = Count(r)
  <2>1. n = NoCall BY <1>1, <1>5 DEF Rest
  <2>2. CallOK(n) BY <2>1 DEF CallOK
  <2>3. {r.es[j] : j \in 1..m} = Range(r.es) BY <1>2, <1>5
  <2> QED BY <1>4, <2>1, <2>2, <2>3, NoCallHolds DEF Accepted
<1>6. CASE m # Count(r)
  <2>1. m + 1 \in 1..Count(r) BY <1>2, <1>3, <1>6
  <2>2. n = [pc |-> "sub", kind |-> r.kind, es |-> r.es, i |-> m + 1] BY <1>1, <1>6 DEF Rest
  <2>3. CallOK(n) BY <2>1, <2>2, NextCall
  <2>4. n.pc = "sub" /\ n.kind = r.kind /\ n.es = r.es /\ n.i = m + 1 BY <2>2
  <2>5. \A e : ~Before(n, e) /\ ~AtWrap(n, e) /\ ~AtUnwrap(n, e) /\ ~Enqueues(n, e)
    BY <2>4 DEF Before, AtWrap, AtUnwrap, Enqueues
  <2>6. \A e : After(n, e) <=> e \in Range(r.es) \ {r.es[j] : j \in 1..m}
    <3> TAKE e
    <3>1. After(n, e) <=> \E j \in 1..Count(r) : r.es[j] = e /\ j >= m + 1
      BY <1>1, <2>4 DEF After
    <3>2. (\E j \in 1..Count(r) : r.es[j] = e /\ j >= m + 1)
            <=> (\E j \in 1..Count(r) : r.es[j] = e) /\ ~(\E j \in 1..m : r.es[j] = e)
      BY <1>1, <1>2, <1>3
    <3> QED BY <1>2, <3>1, <3>2
  <2> QED BY <1>4, <2>3, <2>4, <2>5, <2>6 DEF Accepted
<1> QED BY <1>5, <1>6

\* An event that was marked is taken back.
LEMMA UnmarksIs ==
  ASSUME NEW kind \in Unmark, NEW f \in Events,
         NEW n, n = [pc |-> "sub", kind |-> kind, es |-> <<f>>, i |-> 1]
  PROVE  /\ CallOK(n)
         /\ \A e : /\ After(n, e) <=> e = f
                   /\ ~Before(n, e) /\ ~AtWrap(n, e) /\ ~AtUnwrap(n, e) /\ ~Enqueues(n, e)
<1> DEFINE es == <<f>>
<1>1. n.pc = "sub" /\ n.kind = kind /\ n.es = es /\ n.i = 1 OBVIOUS
<1>2. es \in Batches BY DEF Batches
<1>3. Len(es) = 1 /\ DOMAIN es = 1..1 /\ es[1] = f OBVIOUS
<1> HIDE DEF es
<1>4. CallOK(n)
  <2>1. 1 <= Len(es) BY <1>3
  <2>2. n = [pc |-> "sub", kind |-> kind, es |-> es, i |-> 1] BY DEF es
  <2>3. n \in [pc : {"add", "wrap", "act", "enq", "sub", "unwrap"}, kind : Kinds \cup Unmark,
               es : Batches, i : 1..2]
    BY <1>2, <2>2
  <2> QED BY <1>1, <1>3, <2>1, <2>3 DEF CallOK
<1>5. \A e : After(n, e) <=> e = f
  <2> TAKE e
  <2>1. After(n, e) <=> \E j \in 1..1 : es[j] = e /\ j >= 1 BY <1>1, <1>3 DEF After
  <2> QED BY <1>3, <2>1
<1>6. \A e : ~Before(n, e) /\ ~AtWrap(n, e) /\ ~AtUnwrap(n, e) /\ ~Enqueues(n, e)
  BY <1>1 DEF Before, AtWrap, AtUnwrap, Enqueues
<1> QED BY <1>4, <1>5, <1>6

\* The two steps on an event are seen in how the call holds it.
LEMMA BetweenIs ==
  ASSUME NEW r, CallOK(r), NEW e
  PROVE  /\ AtWrap(r, e) => After(r, e) /\ ~Before(r, e) /\ ~AtUnwrap(r, e)
         /\ AtUnwrap(r, e) => ~After(r, e) /\ ~Before(r, e) /\ ~AtWrap(r, e)
         /\ Before(r, e) => ~After(r, e)
         /\ Enqueues(r, e) => After(r, e)
<1>1. CASE r.pc = "none"
  BY <1>1 DEF Before, After, AtWrap, AtUnwrap, Enqueues
<1>2. CASE r.pc # "none"
  <2>1. /\ Len(r.es) = Count(r) /\ DOMAIN r.es = 1..Count(r)
        /\ \A j, k \in 1..Count(r) : r.es[j] = r.es[k] => j = k
        /\ \/ Count(r) = 1 /\ r.i = 1
           \/ Count(r) = 2 /\ r.i = 1
           \/ Count(r) = 2 /\ r.i = 2
    BY <1>2, InCall
  <2>2. AtWrap(r, e) => After(r, e) /\ ~Before(r, e) /\ ~AtUnwrap(r, e)
    BY <2>1 DEF Before, After, AtWrap, AtUnwrap
  <2>3. AtUnwrap(r, e) => ~After(r, e) /\ ~Before(r, e) /\ ~AtWrap(r, e)
    BY <2>1 DEF Before, After, AtWrap, AtUnwrap
  <2>4. Before(r, e) => ~After(r, e) BY <2>1 DEF Before, After
  <2> QED BY <2>2, <2>3, <2>4 DEF Enqueues
<1> QED BY <1>1, <1>2

-----------------------------------------------------------------------------
(* The cores that hold an event, while one of them makes a step *)

One(b) == IF b THEN 1 ELSE 0

\* A set that changes at c only.
LEMMA Swap ==
  ASSUME NEW A, NEW B, A \subseteq Cores, B \subseteq Cores, NEW c \in Cores, A \ {c} = B \ {c}
  PROVE  /\ Cardinality(A) \in Nat /\ Cardinality(B) \in Nat
         /\ Cardinality(B) = Cardinality(A) + One(c \in B) - One(c \in A)
<1>1. IsFiniteSet(A) /\ IsFiniteSet(B) BY EsvAssumption, FS_Subset
<1>2. IsFiniteSet(A \ {c}) BY <1>1, FS_Subset
<1>3. \A S : IsFiniteSet(S) /\ S \ {c} = A \ {c} =>
               Cardinality(S) = Cardinality(A \ {c}) + One(c \in S)
  <2> SUFFICES ASSUME NEW S, IsFiniteSet(S), S \ {c} = A \ {c}
               PROVE  Cardinality(S) = Cardinality(A \ {c}) + One(c \in S)
    OBVIOUS
  <2>1. CASE c \in S
    <3>1. Cardinality(S \ {c}) = Cardinality(S) - 1 BY <2>1, FS_RemoveElement
    <3>2. Cardinality(S) \in Nat BY FS_CardinalityType
    <3>3. Cardinality(S) = Cardinality(A \ {c}) + 1 BY <3>1, <3>2
    <3>4. One(c \in S) = 1 BY <2>1 DEF One
    <3> QED BY <3>3, <3>4
  <2>2. CASE c \notin S
    <3>1. S = A \ {c} BY <2>2
    <3>2. Cardinality(S) \in Nat BY FS_CardinalityType
    <3>3. One(c \in S) = 0 BY <2>2 DEF One
    <3> QED BY <3>1, <3>2, <3>3
  <2> QED BY <2>1, <2>2
<1>4. /\ Cardinality(A) \in Nat /\ Cardinality(B) \in Nat /\ Cardinality(A \ {c}) \in Nat
  BY <1>1, <1>2, FS_CardinalityType
<1>5. One(c \in A) \in Nat /\ One(c \in B) \in Nat BY DEF One
<1>6. /\ Cardinality(A) = Cardinality(A \ {c}) + One(c \in A)
      /\ Cardinality(B) = Cardinality(A \ {c}) + One(c \in B)
  BY <1>1, <1>3
<1> QED BY <1>4, <1>5, <1>6

\* How many cores hold e, and what is known when there is none or one.
LEMMA HoldersIs ==
  ASSUME NEW K, NEW e
  PROVE  /\ Cardinality(Users(K, e)) \in Nat
         /\ Cardinality(Senders(K, e)) \in Nat
         /\ Cardinality(Freers(K, e)) \in Nat
         /\ Cardinality(Senders(K, e)) + Cardinality(Freers(K, e)) <= Cardinality(Users(K, e))
         /\ \A c \in Cores : Holds(K[c], e) => Cardinality(Users(K, e)) >= 1
         /\ \A c, d \in Cores : Holds(K[c], e) /\ Holds(K[d], e) /\ c # d
                                => Cardinality(Users(K, e)) >= 2
<1> DEFINE U == Users(K, e)
           S == Senders(K, e)
           F == Freers(K, e)
<1>1. U \subseteq Cores /\ S \subseteq U /\ F \subseteq U /\ S \cap F = {}
  BY DEF Users, Senders, Freers, Sends, Frees, Holds, SendKinds, FreeKinds
<1>2. IsFiniteSet(U) /\ IsFiniteSet(S) /\ IsFiniteSet(F) BY <1>1, EsvAssumption, FS_Subset
<1>3. Cardinality(U) \in Nat /\ Cardinality(S) \in Nat /\ Cardinality(F) \in Nat
  BY <1>2, FS_CardinalityType
<1>4. Cardinality(S) + Cardinality(F) <= Cardinality(U)
  <2>1. IsFiniteSet(S \cup F) /\ Cardinality(S \cup F) <= Cardinality(U)
    BY <1>1, <1>2, FS_Subset, FS_CardinalityType, FS_Union
  <2>2. Cardinality(S \cup F) = Cardinality(S) + Cardinality(F) - Cardinality(S \cap F)
    BY <1>2, FS_Union
  <2>3. Cardinality(S \cap F) = 0 BY <1>1, FS_EmptySet
  <2> QED BY <1>3, <2>1, <2>2, <2>3
<1>5. \A c \in Cores : Holds(K[c], e) => Cardinality(U) >= 1
  <2> TAKE c \in Cores
  <2> HAVE Holds(K[c], e)
  <2>1. c \in U BY DEF Users
  <2>2. Cardinality(U) # 0 BY <1>2, <2>1, FS_EmptySet
  <2> QED BY <1>3, <2>2
<1>6. \A c, d \in Cores : Holds(K[c], e) /\ Holds(K[d], e) /\ c # d => Cardinality(U) >= 2
  <2> TAKE c, d \in Cores
  <2> HAVE Holds(K[c], e) /\ Holds(K[d], e) /\ c # d
  <2>1. c \in U /\ d \in U \ {c} BY DEF Users
  <2>2. IsFiniteSet(U \ {c}) /\ Cardinality(U \ {c}) = Cardinality(U) - 1
    BY <1>2, <2>1, FS_RemoveElement
  <2>3. Cardinality(U \ {c}) # 0 BY <2>1, <2>2, FS_EmptySet
  <2>4. Cardinality(U \ {c}) \in Nat BY <2>2, FS_CardinalityType
  <2> QED BY <1>3, <2>2, <2>3, <2>4
<1> QED BY <1>3, <1>4, <1>5, <1>6

\* The cores that hold e when core c makes a step in its call.
LEMMA HoldersStep ==
  ASSUME NEW K, NEW L, NEW c \in Cores, \A d \in Cores \ {c} : L[d] = K[d], NEW e
  PROVE  /\ Cardinality(Users(L, e)) =
              Cardinality(Users(K, e)) + One(Holds(L[c], e)) - One(Holds(K[c], e))
         /\ Cardinality(Senders(L, e)) =
              Cardinality(Senders(K, e)) + One(Sends(L[c], e)) - One(Sends(K[c], e))
         /\ Cardinality(Freers(L, e)) =
              Cardinality(Freers(K, e)) + One(Frees(L[c], e)) - One(Frees(K[c], e))
<1>1. /\ Users(K, e) \subseteq Cores /\ Users(L, e) \subseteq Cores
      /\ Users(K, e) \ {c} = Users(L, e) \ {c}
      /\ c \in Users(K, e) <=> Holds(K[c], e)
      /\ c \in Users(L, e) <=> Holds(L[c], e)
  BY DEF Users
<1>2. /\ Senders(K, e) \subseteq Cores /\ Senders(L, e) \subseteq Cores
      /\ Senders(K, e) \ {c} = Senders(L, e) \ {c}
      /\ c \in Senders(K, e) <=> Sends(K[c], e)
      /\ c \in Senders(L, e) <=> Sends(L[c], e)
  BY DEF Senders
<1>3. /\ Freers(K, e) \subseteq Cores /\ Freers(L, e) \subseteq Cores
      /\ Freers(K, e) \ {c} = Freers(L, e) \ {c}
      /\ c \in Freers(K, e) <=> Frees(K[c], e)
      /\ c \in Freers(L, e) <=> Frees(L[c], e)
  BY DEF Freers
<1>4. Cardinality(Users(L, e)) =
        Cardinality(Users(K, e)) + One(c \in Users(L, e)) - One(c \in Users(K, e))
  BY <1>1, Swap
<1>5. Cardinality(Senders(L, e)) =
        Cardinality(Senders(K, e)) + One(c \in Senders(L, e)) - One(c \in Senders(K, e))
  BY <1>2, Swap
<1>6. Cardinality(Freers(L, e)) =
        Cardinality(Freers(K, e)) + One(c \in Freers(L, e)) - One(c \in Freers(K, e))
  BY <1>3, Swap
<1> QED BY <1>1, <1>2, <1>3, <1>4, <1>5, <1>6 DEF One

-----------------------------------------------------------------------------
(* An event of which there is one reference *)

\* A call has nothing to do with e.
Apart(r, e) ==
  ~Before(r, e) /\ ~After(r, e) /\ ~AtWrap(r, e) /\ ~AtUnwrap(r, e) /\ ~Enqueues(r, e)

\* A call that has nothing to do with an event does not hold it.
LEMMA ApartIs ==
  ASSUME NEW r, CallOK(r), NEW e
  PROVE  /\ Apart(r, e) <=> ~Holds(r, e)
         /\ Apart(r, e) => ~Sends(r, e) /\ ~Frees(r, e)
         /\ Holds(r, e) <=> Before(r, e) \/ After(r, e) \/ AtUnwrap(r, e)
BY BetweenIs DEF Apart, Holds, Sends, Frees

\* The numbers of references at the places.
LEMMA AtIs ==
  ASSUME TypeInv, NEW e \in Events
  PROVE  /\ at[e].user \in Nat /\ at[e].queue \in Nat /\ at[e].aggregator \in Nat
         /\ at[e].vector \in Nat /\ at[e].marksend \in Nat /\ at[e].markfree \in Nat
         /\ DOMAIN at = Events /\ DOMAIN at[e] = Places
         /\ cnt[e].evgen \in Int /\ cnt[e].ref \in Int /\ cnt[e].send \in Int
         /\ odp[e] \in 0..MaxRefs /\ hdl[e] \in EVGEN_INIT..(EVGEN_MAX - 1)
         /\ refs[e] \in BOOLEAN /\ aggr[e] \in BOOLEAN /\ MaxRefs \in Nat
<1>1. at[e] \in [Places -> Nat] /\ DOMAIN at = Events BY DEF TypeInv
<1>2. \A p \in Places : at[e][p] \in Nat BY <1>1
<1>3. cnt[e] \in [evgen : Int, ref : Int, send : Int] BY DEF TypeInv
<1>4. /\ odp[e] \in 0..MaxRefs /\ hdl[e] \in EVGEN_INIT..(EVGEN_MAX - 1)
      /\ refs[e] \in BOOLEAN /\ aggr[e] \in BOOLEAN
  BY DEF TypeInv
<1> QED BY <1>1, <1>2, <1>3, <1>4, EsvAssumption DEF Places

\* No reference is at a place.
NoPlace(e) ==
  /\ at[e].user = 0 /\ at[e].queue = 0 /\ at[e].aggregator = 0
  /\ at[e].vector = 0 /\ at[e].marksend = 0 /\ at[e].markfree = 0

\* At most one reference, and where it is.
LEMMA SumIs ==
  ASSUME NEW a \in Nat, NEW b \in Nat, NEW c \in Nat, NEW d \in Nat, NEW f \in Nat, NEW g \in Nat,
         NEW n \in Nat, NEW s \in Int, s <= 1, s = a + b + c + d + f + g + n
  PROVE  /\ n >= 1 => s = 1 /\ n = 1 /\ a = 0 /\ b = 0 /\ c = 0 /\ d = 0 /\ f = 0 /\ g = 0
         /\ a > 0 => s = 1 /\ n = 0 /\ a = 1 /\ b = 0 /\ c = 0 /\ d = 0 /\ f = 0 /\ g = 0
         /\ b > 0 => s = 1 /\ n = 0 /\ a = 0 /\ b = 1 /\ c = 0 /\ d = 0 /\ f = 0 /\ g = 0
         /\ c > 0 => s = 1 /\ n = 0 /\ a = 0 /\ b = 0 /\ c = 1 /\ d = 0 /\ f = 0 /\ g = 0
         /\ d > 0 => s = 1 /\ n = 0 /\ a = 0 /\ b = 0 /\ c = 0 /\ d = 1 /\ f = 0 /\ g = 0
         /\ f > 0 => s = 1 /\ n = 0 /\ a = 0 /\ b = 0 /\ c = 0 /\ d = 0 /\ f = 1 /\ g = 0
         /\ g > 0 => s = 1 /\ n = 0 /\ a = 0 /\ b = 0 /\ c = 0 /\ d = 0 /\ f = 0 /\ g = 1
         /\ s = 0 => n = 0 /\ a = 0 /\ b = 0 /\ c = 0 /\ d = 0 /\ f = 0 /\ g = 0
OBVIOUS

\* Of an event with at most one reference, that is in one place only.
LEMMA Sole ==
  ASSUME TypeInv, CallInv, NEW e \in Events, CountOK(e), odp[e] <= 1
  PROVE  /\ \A c \in Cores : Holds(call[c], e) =>
              odp[e] = 1 /\ NoPlace(e) /\ \A d \in Cores \ {c} : Apart(call[d], e)
         /\ \A p \in Places : at[e][p] > 0 =>
              /\ odp[e] = 1 /\ at[e][p] = 1 /\ \A q \in Places \ {p} : at[e][q] = 0
              /\ \A c \in Cores : Apart(call[c], e)
         /\ odp[e] = 0 => NoPlace(e) /\ \A c \in Cores : Apart(call[c], e)
<1> DEFINE nU == Cardinality(Users(call, e))
<1>1. /\ nU \in Nat
      /\ \A c \in Cores : Holds(call[c], e) => nU >= 1
      /\ \A c, d \in Cores : Holds(call[c], e) /\ Holds(call[d], e) /\ c # d => nU >= 2
  BY HoldersIs
<1>2. odp[e] = at[e].user + at[e].queue + at[e].aggregator + at[e].vector + at[e].marksend
               + at[e].markfree + nU
  BY DEF CountOK
<1>3. /\ at[e].user \in Nat /\ at[e].queue \in Nat /\ at[e].aggregator \in Nat
      /\ at[e].vector \in Nat /\ at[e].marksend \in Nat /\ at[e].markfree \in Nat
      /\ odp[e] \in Int
  BY AtIs
<1>4. \A c \in Cores : ~Holds(call[c], e) => Apart(call[c], e) BY ApartIs DEF CallInv
<1> HIDE DEF nU
<1>5. /\ nU >= 1 => odp[e] = 1 /\ nU = 1 /\ NoPlace(e)
      /\ \A p \in Places : at[e][p] > 0 =>
           odp[e] = 1 /\ nU = 0 /\ at[e][p] = 1 /\ \A q \in Places \ {p} : at[e][q] = 0
      /\ odp[e] = 0 => nU = 0 /\ NoPlace(e)
  <2> DEFINE a == at[e].user
             b == at[e].queue
             c == at[e].aggregator
             d == at[e].vector
             f == at[e].marksend
             g == at[e].markfree
             s == odp[e]
  <2>1. /\ a \in Nat /\ b \in Nat /\ c \in Nat /\ d \in Nat /\ f \in Nat /\ g \in Nat
        /\ nU \in Nat /\ s \in Int /\ s <= 1 /\ s = a + b + c + d + f + g + nU
    BY <1>1, <1>2, <1>3
  <2> HIDE DEF a, b, c, d, f, g, s
  <2>2. /\ nU >= 1 => s = 1 /\ nU = 1 /\ a = 0 /\ b = 0 /\ c = 0 /\ d = 0 /\ f = 0 /\ g = 0
        /\ a > 0 => s = 1 /\ nU = 0 /\ a = 1 /\ b = 0 /\ c = 0 /\ d = 0 /\ f = 0 /\ g = 0
        /\ b > 0 => s = 1 /\ nU = 0 /\ a = 0 /\ b = 1 /\ c = 0 /\ d = 0 /\ f = 0 /\ g = 0
        /\ c > 0 => s = 1 /\ nU = 0 /\ a = 0 /\ b = 0 /\ c = 1 /\ d = 0 /\ f = 0 /\ g = 0
        /\ d > 0 => s = 1 /\ nU = 0 /\ a = 0 /\ b = 0 /\ c = 0 /\ d = 1 /\ f = 0 /\ g = 0
        /\ f > 0 => s = 1 /\ nU = 0 /\ a = 0 /\ b = 0 /\ c = 0 /\ d = 0 /\ f = 1 /\ g = 0
        /\ g > 0 => s = 1 /\ nU = 0 /\ a = 0 /\ b = 0 /\ c = 0 /\ d = 0 /\ f = 0 /\ g = 1
        /\ s = 0 => nU = 0 /\ a = 0 /\ b = 0 /\ c = 0 /\ d = 0 /\ f = 0 /\ g = 0
    BY <2>1, SumIs
  <2> QED BY <2>2, ZenonT(40) DEF a, b, c, d, f, g, s, NoPlace, Places
<1>6. ASSUME NEW c \in Cores, Holds(call[c], e)
      PROVE  odp[e] = 1 /\ NoPlace(e) /\ \A d \in Cores \ {c} : Apart(call[d], e)
  <2>1. nU >= 1 BY <1>1, <1>6
  <2>2. odp[e] = 1 /\ nU = 1 /\ NoPlace(e) BY <1>5, <2>1
  <2>3. \A d \in Cores \ {c} : ~Holds(call[d], e)
    <3> TAKE d \in Cores \ {c}
    <3>1. ~(nU >= 2) BY <2>2
    <3> QED BY <1>1, <1>6, <3>1
  <2> QED BY <1>4, <2>2, <2>3
<1>7. nU = 0 => \A c \in Cores : Apart(call[c], e)
  <2> HAVE nU = 0
  <2>1. ~(nU >= 1) OBVIOUS
  <2> QED BY <1>1, <1>4, <2>1
<1> QED BY <1>5, <1>6, <1>7

-----------------------------------------------------------------------------
(* An event that a step has nothing to do with *)

EventSame(e) ==
  /\ cnt'[e] = cnt[e] /\ refs'[e] = refs[e] /\ aggr'[e] = aggr[e] /\ hdl'[e] = hdl[e]
  /\ op'[e] = op[e] /\ odp'[e] = odp[e] /\ at'[e] = at[e] /\ stale'[e] = stale[e]

LEMMA SameOK ==
  ASSUME NEW e \in Events, EventOK(e), EventSame(e),
         \A c \in Cores : Alike(call[c], call'[c], e)
  PROVE  EventOK(e)'
<1>1. \A c \in Cores : /\ Holds(call'[c], e) <=> Holds(call[c], e)
                       /\ Sends(call'[c], e) <=> Sends(call[c], e)
                       /\ Frees(call'[c], e) <=> Frees(call[c], e)
  BY DEF Alike, Holds, Sends, Frees
<1>2. /\ Users(call', e) = Users(call, e)
      /\ Senders(call', e) = Senders(call, e)
      /\ Freers(call', e) = Freers(call, e)
  BY <1>1 DEF Users, Senders, Freers
<1>3. CountOK(e)' BY <1>2 DEF EventOK, CountOK, EventSame
<1>4. \A c \in Cores : /\ Before(call'[c], e) <=> Before(call[c], e)
                       /\ AtWrap(call'[c], e) <=> AtWrap(call[c], e)
                       /\ AtUnwrap(call'[c], e) <=> AtUnwrap(call[c], e)
  BY DEF Alike
<1>5. Fresh(e)' <=> Fresh(e) BY <1>4 DEF Fresh, EventSame
<1>6. GenOK(e)'
  <2>1. GenOK(e) BY DEF EventOK
  <2> HIDE DEF EventOK
  <2> QED BY <1>4, <1>5, <2>1 DEF GenOK, EventSame
<1>7. LowOK(e)' BY <1>4 DEF EventOK, LowOK, EventSame
<1>8. FlagOK(e)'
  <2>1. \A c \in Cores : /\ Enqueues(call'[c], e) <=> Enqueues(call[c], e)
                         /\ After(call'[c], e) <=> After(call[c], e)
                         /\ After(call[c], e) => call'[c].kind = call[c].kind
    BY DEF Alike
  <2> QED BY <2>1 DEF EventOK, FlagOK, EventSame
<1>9. StaleOK(e)' BY DEF EventOK, StaleOK, GenNow, EventSame
<1> QED BY <1>3, <1>6, <1>7, <1>8, <1>9 DEF EventOK

\* A step of core c in its call: what the others do stays as it is.
LEMMA CallStep ==
  ASSUME TypeInv, CallInv, NEW c \in Cores, NEW n, CallOK(n), call' = [call EXCEPT ![c] = n]
  PROVE  /\ DOMAIN call' = Cores /\ CallInv' /\ call'[c] = n
         /\ \A d \in Cores \ {c} : call'[d] = call[d]
         /\ \A e \in Events : EventOK(e) /\ EventSame(e) /\ Alike(call[c], n, e) => EventOK(e)'
<1>1. DOMAIN call = Cores BY DEF TypeInv
<1>2. DOMAIN call' = Cores /\ call'[c] = n /\ \A d \in Cores \ {c} : call'[d] = call[d] BY <1>1
<1>3. CallInv' BY <1>2 DEF CallInv
<1>4. ASSUME NEW e \in Events, EventOK(e), EventSame(e), Alike(call[c], n, e)
      PROVE  EventOK(e)'
  <2>1. \A d \in Cores : Alike(call[d], call'[d], e) BY <1>2, <1>4 DEF Alike
  <2> QED BY <1>4, <2>1, SameOK
<1> QED BY <1>2, <1>3, <1>4

-----------------------------------------------------------------------------
(* What the steps do to one event *)

\* One reference goes from one place to another, comes or goes.
LEMMA MoveIs ==
  ASSUME TypeInv, NEW e \in Events, NEW from \in Places, NEW to \in Places, from # to,
         at[e][from] > 0, at' = Move(e, from, to)
  PROVE  /\ at' \in [Events -> [Places -> Nat]] /\ \A f \in Events \ {e} : at'[f] = at[f]
         /\ at'[e][from] = at[e][from] - 1 /\ at'[e][to] = at[e][to] + 1
         /\ \A p \in Places \ {from, to} : at'[e][p] = at[e][p]
<1>1. at \in [Events -> [Places -> Nat]] BY DEF TypeInv
<1>2. at'[e] = [at[e] EXCEPT ![from] = @ - 1, ![to] = @ + 1] BY <1>1 DEF Move
<1>3. \A f \in Events \ {e} : at'[f] = at[f] BY <1>1 DEF Move
<1>4. at[e] \in [Places -> Nat] BY <1>1
<1>5. at[e][from] - 1 \in Nat /\ at[e][to] + 1 \in Nat BY <1>4
<1>6. /\ at'[e][from] = at[e][from] - 1 /\ at'[e][to] = at[e][to] + 1
      /\ \A p \in Places \ {from, to} : at'[e][p] = at[e][p]
  BY <1>2, <1>4
<1>7. at'[e] \in [Places -> Nat] BY <1>2, <1>4, <1>5
<1>8. at' \in [Events -> [Places -> Nat]] BY <1>1, <1>7 DEF Move
<1> QED BY <1>3, <1>6, <1>8

\* A count that goes up by one.
LEMMA PutIs ==
  ASSUME TypeInv, NEW e \in Events, NEW p \in Places, at' = [at EXCEPT ![e][p] = @ + 1]
  PROVE  /\ at' \in [Events -> [Places -> Nat]] /\ \A f \in Events \ {e} : at'[f] = at[f]
         /\ at'[e][p] = at[e][p] + 1 /\ \A q \in Places \ {p} : at'[e][q] = at[e][q]
<1>1. at \in [Events -> [Places -> Nat]] BY DEF TypeInv
<1>2. at'[e] = [at[e] EXCEPT ![p] = @ + 1] BY <1>1
<1>3. at[e] \in [Places -> Nat] /\ at[e][p] + 1 \in Nat BY <1>1
<1>4. at'[e] \in [Places -> Nat] BY <1>2, <1>3
<1> QED BY <1>1, <1>2, <1>3, <1>4

\* Or down by one.
LEMMA TakeIs ==
  ASSUME TypeInv, NEW e \in Events, NEW p \in Places, at[e][p] > 0,
         at' = [at EXCEPT ![e][p] = @ - 1]
  PROVE  /\ at' \in [Events -> [Places -> Nat]] /\ \A f \in Events \ {e} : at'[f] = at[f]
         /\ at'[e][p] = at[e][p] - 1 /\ \A q \in Places \ {p} : at'[e][q] = at[e][q]
<1>1. at \in [Events -> [Places -> Nat]] BY DEF TypeInv
<1>2. at'[e] = [at[e] EXCEPT ![p] = @ - 1] BY <1>1
<1>3. at[e] \in [Places -> Nat] /\ at[e][p] - 1 \in Nat BY <1>1
<1>4. at'[e] \in [Places -> Nat] BY <1>2, <1>3
<1> QED BY <1>1, <1>2, <1>3, <1>4

\* What the counters of an event add up to after a step.
LEMMA CoveredNext ==
  ASSUME NEW e \in Events, at' \in [Events -> [Places -> Nat]], CountOK(e)'
  PROVE  /\ cnt'[e].send >= 0
         /\ cnt'[e].ref >= cnt'[e].send + at'[e].user + at'[e].vector
         /\ cnt'[e].ref \in Int /\ cnt'[e].send \in Int
<1> DEFINE nU == Cardinality(Users(call', e))
           nS == Cardinality(Senders(call', e))
           nF == Cardinality(Freers(call', e))
           k == at'[e]
<1>1. nU \in Nat /\ nS \in Nat /\ nF \in Nat /\ nS + nF <= nU BY HoldersIs
<1>2. k \in [Places -> Nat] OBVIOUS
<1>3. /\ k.user \in Nat /\ k.queue \in Nat /\ k.aggregator \in Nat
      /\ k.vector \in Nat /\ k.marksend \in Nat /\ k.markfree \in Nat
  BY <1>2 DEF Places
<1>4. /\ odp'[e] = k.user + k.queue + k.aggregator + k.vector + k.marksend + k.markfree + nU
      /\ cnt'[e].ref = odp'[e] - k.markfree - nF
      /\ cnt'[e].send = k.queue + k.aggregator + k.marksend + nS
  BY DEF CountOK
<1> HIDE DEF nU, nS, nF, k
<1>5. /\ cnt'[e].ref = k.user + k.queue + k.aggregator + k.vector + k.marksend + nU - nF
  BY <1>1, <1>3, <1>4
<1>6. /\ cnt'[e].send >= 0 /\ cnt'[e].ref >= cnt'[e].send + k.user + k.vector
      /\ cnt'[e].ref \in Int /\ cnt'[e].send \in Int
  BY <1>1, <1>3, <1>4, <1>5
<1> QED BY <1>6 DEF k

\* No core is in a call with e.
NoHolder(e) == \A c \in Cores : Apart(call[c], e)

\* What is known of an event with one reference that EM has, or the pool.
LEMMA GivenIs ==
  ASSUME TypeInv, NEW e \in Events, GenOK(e), ~refs[e], NoHolder(e),
         at[e].user = 0, at[e].vector = 0
  PROVE  cnt[e].evgen = NextGen(hdl[e])
<1>1. ~Fresh(e) BY DEF Fresh, NoHolder, Apart
<1> QED BY <1>1 DEF GenOK, NoHolder, Apart

\* Generations are in their range.
LEMMA GensAre ==
  ASSUME NEW g \in EVGEN_INIT..(EVGEN_MAX - 1)
  PROVE  /\ NextGen(g) \in EVGEN_INIT..(EVGEN_MAX - 1) /\ g \in Int /\ g + 1 < Width /\ g > 1
         /\ NextGen(g) \in Int /\ NextGen(g) < Width /\ NextGen(g) >= 0
         /\ EVGEN_INIT \in EVGEN_INIT..(EVGEN_MAX - 1)
BY EsvAssumption DEF NextGen

\* The handles given away, when one more is.
LEMMA PastIs ==
  ASSUME NEW e \in Events, NEW g \in EVGEN_INIT..(EVGEN_MAX - 1), ~refs[e], stale[e] \in Seq(Int),
         Len(stale[e]) < Period,
         \A j \in 1..Len(stale[e]) : stale[e][j] = GenBefore(g, Len(stale[e]) + 1 - j),
         NEW s, s = Past(e, g)
  PROVE  /\ s \in Seq(Int) /\ Len(s) < Period
         /\ \A j \in 1..Len(s) : s[j] = GenBefore(NextGen(g), Len(s) + 1 - j)
<1> DEFINE t == stale[e]
           n == Len(t)
           a == Append(t, g)
<1>1. n \in Nat /\ n < Period /\ g \in Int /\ Period \in Nat BY EsvAssumption DEF Period
<1>2. \A k \in 1..(Period - 1) : GenBefore(NextGen(g), k + 1) = GenBefore(g, k)
  BY EsvAssumption DEF GenBefore, NextGen, Period
<1>3. GenBefore(NextGen(g), 1) = g BY EsvAssumption DEF GenBefore, NextGen, Period
<1>4. /\ a \in Seq(Int) /\ Len(a) = n + 1 /\ a[n + 1] = g
      /\ \A j \in 1..n : a[j] = t[j]
  BY <1>1
<1>5. \A j \in 1..n : t[j] = GenBefore(g, n + 1 - j) OBVIOUS
<1>6. s = IF Len(a) < Period THEN a ELSE Tail(a) BY DEF Past
<1> HIDE DEF t, n, a
<1>7. \A j \in 1..(n + 1) : a[j] = GenBefore(NextGen(g), n + 2 - j)
  <2> TAKE j \in 1..(n + 1)
  <2>1. CASE j = n + 1
    <3>1. n + 2 - j = 1 BY <1>1, <2>1
    <3> QED BY <1>3, <1>4, <2>1, <3>1
  <2>2. CASE j # n + 1
    <3>1. j \in 1..n /\ n + 1 - j \in 1..(Period - 1) /\ n + 2 - j = (n + 1 - j) + 1
      BY <1>1, <2>2
    <3> QED BY <1>2, <1>4, <1>5, <3>1
  <2> QED BY <2>1, <2>2
<1>8. CASE n + 1 < Period
  <2>1. s = a BY <1>4, <1>6, <1>8
  <2>2. \A j \in 1..(n + 1) : (n + 1) + 1 - j = n + 2 - j BY <1>1
  <2> QED BY <1>4, <1>7, <1>8, <2>1, <2>2
<1>9. CASE ~(n + 1 < Period)
  <2>1. s = Tail(a) /\ a # <<>> BY <1>1, <1>4, <1>6, <1>9
  <2>2. /\ s \in Seq(Int) /\ Len(s) = n
        /\ \A j \in 1..n : s[j] = a[j + 1]
    BY <1>1, <1>4, <2>1
  <2>3. \A j \in 1..n : j + 1 \in 1..(n + 1) /\ n + 2 - (j + 1) = n + 1 - j BY <1>1
  <2> QED BY <1>1, <1>7, <2>2, <2>3
<1> QED BY <1>1, <1>8, <1>9

-----------------------------------------------------------------------------
(* Events that are taken from the pool *)

\* A step that only one event takes part in.
LEMMA OneEventStep ==
  ASSUME IInv, NEW e \in Events, UNCHANGED call, TypeInv', ~alarm',
         CountOK(e)', GenOK(e)', LowOK(e)', FlagOK(e)', StaleOK(e)',
         \A f \in Events \ {e} : EventSame(f)
  PROVE  IInv'
<1>1. CallInv' BY DEF IInv, CallInv
<1>2. \A f \in Events \ {e} : EventOK(f)'
  <2> TAKE f \in Events \ {e}
  <2>1. \A c \in Cores : Alike(call[c], call'[c], f) BY DEF Alike
  <2>2. EventOK(f) /\ EventSame(f) BY DEF IInv
  <2> QED BY <2>1, <2>2, SameOK
<1>3. EventOK(e)' BY DEF EventOK
<1> QED BY <1>1, <1>2, <1>3 DEF IInv

\* The numbers of CountOK, before a step and after it.
LEMMA CountNow ==
  ASSUME NEW e \in Events, CountOK(e), NEW nU, NEW nS, NEW nF,
         nU = Cardinality(Users(call, e)), nS = Cardinality(Senders(call, e)),
         nF = Cardinality(Freers(call, e))
  PROVE  /\ nU \in Nat /\ nS \in Nat /\ nF \in Nat /\ nS + nF <= nU
         /\ odp[e] = at[e].user + at[e].queue + at[e].aggregator + at[e].vector + at[e].marksend
                      + at[e].markfree + nU
         /\ cnt[e].ref = odp[e] - at[e].markfree - nF
         /\ cnt[e].send = at[e].queue + at[e].aggregator + at[e].marksend + nS
BY HoldersIs DEF CountOK

\* The event was in its pool, g is its generation now.
LEMMA TakenStep ==
  ASSUME IInv, NEW e \in Events, Taken(e), NEW g \in EVGEN_INIT..(EVGEN_MAX - 1),
         cnt' = [cnt EXCEPT ![e] = [evgen |-> g, ref |-> 1, send |-> 0]],
         hdl' = [hdl EXCEPT ![e] = g], op' = [op EXCEPT ![e] = "other"], ~alarm',
         DOMAIN stale' = Events, \A f \in Events \ {e} : stale'[f] = stale[f],
         stale'[e] \in Seq(Int), Len(stale'[e]) < Period,
         \A j \in 1..Len(stale'[e]) : stale'[e][j] = GenBefore(g, Len(stale'[e]) + 1 - j)
  PROVE  IInv'
<1> DEFINE nU == Cardinality(Users(call, e))
           nS == Cardinality(Senders(call, e))
           nF == Cardinality(Freers(call, e))
<1>1. TypeInv /\ CallInv /\ EventOK(e) BY DEF IInv
<1>2. /\ odp[e] = 0 /\ odp' = [odp EXCEPT ![e] = 1] /\ UNCHANGED call
      /\ refs' = [refs EXCEPT ![e] = FALSE] /\ aggr' = [aggr EXCEPT ![e] = FALSE]
  BY DEF Taken, ClearFlags
<1>3. NoPlace(e) /\ NoHolder(e) BY <1>1, <1>2, Sole DEF EventOK, NoHolder
<1>4. nU \in Nat /\ nS \in Nat /\ nF \in Nat /\ nS + nF <= nU
  BY HoldersIs
<1>5. nU = 0 /\ nS = 0 /\ nF = 0
  <2>1. \A c \in Cores : ~Holds(call[c], e) BY <1>3 DEF NoHolder, Apart, Holds
  <2>2. Users(call, e) = {} BY <2>1 DEF Users
  <2>3. nU = 0 BY <2>2, FS_EmptySet
  <2> HIDE DEF nU, nS, nF
  <2> QED BY <1>4, <2>3
<1>6. /\ at' \in [Events -> [Places -> Nat]] /\ \A f \in Events \ {e} : at'[f] = at[f]
      /\ at'[e].user = 1 /\ at'[e].queue = 0 /\ at'[e].aggregator = 0
      /\ at'[e].vector = 0 /\ at'[e].marksend = 0 /\ at'[e].markfree = 0
  <2>1. at[e].user = 0 BY <1>3 DEF NoPlace
  <2>2. at' = [at EXCEPT ![e].user = 1] BY DEF Taken
  <2>3. at \in [Events -> [Places -> Nat]] BY <1>1 DEF TypeInv
  <2>4. at'[e] = [p \in Places |-> IF p = "user" THEN 1 ELSE at[e][p]] BY <2>2, <2>3
  <2>5. at'[e] \in [Places -> Nat] BY <2>3, <2>4
  <2>6. at' \in [Events -> [Places -> Nat]] BY <2>2, <2>3, <2>5
  <2>7. \A f \in Events \ {e} : at'[f] = at[f] BY <2>2, <2>3
  <2> QED BY <1>3, <2>3, <2>4, <2>6, <2>7 DEF NoPlace, Places
<1>7. /\ cnt'[e].evgen = g /\ cnt'[e].ref = 1 /\ cnt'[e].send = 0 /\ odp'[e] = 1
      /\ hdl'[e] = g /\ op'[e] = "other" /\ refs'[e] = FALSE /\ aggr'[e] = FALSE
  BY <1>1, <1>2 DEF TypeInv
<1>8. TypeInv'
  <2>1. 1 \in 0..MaxRefs BY EsvAssumption
  <2>2. [evgen |-> g, ref |-> 1, send |-> 0] \in [evgen : Int, ref : Int, send : Int] OBVIOUS
  <2>3. \A f \in Events : stale'[f] \in Seq(Int) BY <1>1 DEF TypeInv
  <2> QED BY <1>1, <1>2, <1>6, <2>1, <2>2, <2>3 DEF TypeInv
<1>9. CountOK(e)'
  <2>1. /\ Cardinality(Users(call', e)) = 0 /\ Cardinality(Senders(call', e)) = 0
        /\ Cardinality(Freers(call', e)) = 0
    BY <1>2, <1>5
  <2> QED BY <1>6, <1>7, <2>1 DEF CountOK
<1>10. \A c \in Cores : /\ ~Before(call'[c], e) /\ ~After(call'[c], e) /\ ~AtWrap(call'[c], e)
                        /\ ~AtUnwrap(call'[c], e) /\ ~Enqueues(call'[c], e)
  BY <1>2, <1>3 DEF NoHolder, Apart
<1>11. GenOK(e)' BY <1>6, <1>7, <1>10 DEF GenOK, Fresh
<1>12. LowOK(e)'
  <2>1. cnt'[e].evgen >= EVGEN_INIT /\ cnt'[e].evgen >= EVGEN_INIT - 1 BY <1>7, EsvAssumption
  <2> QED BY <1>10, <2>1 DEF LowOK
<1>13. FlagOK(e)' BY <1>6, <1>7, <1>10 DEF FlagOK
<1>14. StaleOK(e)'
  <2>1. GenNow(e)' = g BY <1>6, <1>7 DEF GenNow
  <2> QED BY <2>1 DEF StaleOK
<1>15. \A f \in Events \ {e} : EventSame(f) BY <1>1, <1>2, <1>6 DEF EventSame, TypeInv
<1> QED BY <1>2, <1>8, <1>9, <1>11, <1>12, <1>13, <1>14, <1>15, OneEventStep

\* What is known of an event in its pool.
LEMMA PoolIs ==
  ASSUME IInv, NEW e \in Events, odp[e] = 0
  PROVE  /\ cnt[e].ref = 0 /\ cnt[e].send = 0
         /\ ~refs[e] => /\ cnt[e].evgen = NextGen(hdl[e]) /\ GenNow(e) = NextGen(hdl[e])
                        /\ Len(stale[e]) < Period
                        /\ \A j \in 1..Len(stale[e]) :
                             stale[e][j] = GenBefore(NextGen(hdl[e]), Len(stale[e]) + 1 - j)
         /\ NextGen(hdl[e]) \in EVGEN_INIT..(EVGEN_MAX - 1)
<1>1. TypeInv /\ CallInv /\ EventOK(e) BY DEF IInv
<1>2. NoPlace(e) /\ NoHolder(e) BY <1>1, Sole DEF EventOK, NoHolder
<1> DEFINE nU == Cardinality(Users(call, e))
           nS == Cardinality(Senders(call, e))
           nF == Cardinality(Freers(call, e))
<1>3. nU \in Nat /\ nS \in Nat /\ nF \in Nat /\ nS + nF <= nU BY HoldersIs
<1>4. nU = 0
  <2>1. \A c \in Cores : ~Holds(call[c], e) BY <1>2 DEF NoHolder, Apart, Holds
  <2>2. Users(call, e) = {} BY <2>1 DEF Users
  <2> QED BY <2>2, FS_EmptySet
<1>5. /\ cnt[e].ref = odp[e] - at[e].markfree - nF
      /\ cnt[e].send = at[e].queue + at[e].aggregator + at[e].marksend + nS
  BY <1>1 DEF EventOK, CountOK
<1> HIDE DEF nU, nS, nF
<1>6. nS = 0 /\ nF = 0 BY <1>3, <1>4
<1>7. cnt[e].ref = 0 /\ cnt[e].send = 0 BY <1>2, <1>5, <1>6 DEF NoPlace
<1>8. hdl[e] \in EVGEN_INIT..(EVGEN_MAX - 1) BY <1>1, AtIs
<1>9. ~refs[e] => cnt[e].evgen = NextGen(hdl[e]) BY <1>1, <1>2, GivenIs DEF EventOK, NoPlace
<1>10. GenNow(e) = NextGen(hdl[e]) BY DEF GenNow
<1> QED BY <1>1, <1>7, <1>8, <1>9, <1>10, GensAre DEF EventOK, StaleOK

\* The state is initialised again.
LEMMA ReinitStep ==
  ASSUME IInv, NEW e \in Events, Taken(e), EsvEvinit(e)
  PROVE  IInv'
<1> DEFINE g == EVGEN_INIT
<1>1. g \in EVGEN_INIT..(EVGEN_MAX - 1) BY EsvAssumption
<1>2. /\ cnt' = [cnt EXCEPT ![e] = [evgen |-> g, ref |-> 1, send |-> 0]]
      /\ hdl' = [hdl EXCEPT ![e] = g] /\ op' = [op EXCEPT ![e] = "other"] /\ ~alarm'
      /\ stale' = [stale EXCEPT ![e] = <<>>]
  BY DEF EsvEvinit, InitCnt, IInv
<1>3. DOMAIN stale' = Events /\ stale'[e] = <<>> /\ \A f \in Events \ {e} : stale'[f] = stale[f]
  BY <1>2 DEF IInv, TypeInv
<1>4. stale'[e] \in Seq(Int) /\ Len(stale'[e]) = 0 BY <1>3
<1>5. Len(stale'[e]) < Period BY <1>4, EsvAssumption DEF Period
<1>6. \A j \in 1..Len(stale'[e]) : stale'[e][j] = GenBefore(g, Len(stale'[e]) + 1 - j) BY <1>4
<1> HIDE DEF g
<1> QED BY <1>1, <1>2, <1>3, <1>4, <1>5, <1>6, TakenStep

\* An event from a pool.
LEMMA AllocStep ==
  ASSUME IInv, NEW e \in Events, Alloc(e)
  PROVE  IInv'
<1>1. Taken(e) BY DEF Alloc
<1>2. CASE Reinit(e) BY <1>1, <1>2, ReinitStep DEF Alloc
<1>3. CASE ~Reinit(e)
  <2> DEFINE w == Plus(cnt[e], 0, 1, 0)
             g == NextGen(hdl[e])
  <2>1. ~refs[e] BY <1>3 DEF Reinit, IInv, TypeInv
  <2>2. /\ cnt[e].ref = 0 /\ cnt[e].send = 0 /\ cnt[e].evgen = g
        /\ g \in EVGEN_INIT..(EVGEN_MAX - 1)
        /\ Len(stale[e]) < Period
        /\ \A j \in 1..Len(stale[e]) : stale[e][j] = GenBefore(g, Len(stale[e]) + 1 - j)
    BY <1>1, <2>1, PoolIs DEF Taken
  <2>3. g \in Int /\ g >= 0 /\ g < Width BY <2>2, EsvAssumption
  <2> HIDE DEF g
  <2>4. w = [evgen |-> g, ref |-> 1, send |-> 0] BY <2>2, <2>3 DEF Plus
  <2>5. /\ cnt' = [cnt EXCEPT ![e] = w] /\ alarm' = BadEm2usr(Word(w))
        /\ hdl' = [hdl EXCEPT ![e] = Word(w).evgen] /\ op' = [op EXCEPT ![e] = "other"]
        /\ stale' = stale
    BY <1>3, <2>1 DEF Alloc, EsvEm2usr
  <2> HIDE DEF w
  <2>6. /\ w \in [evgen : Int, ref : Int, send : Int]
        /\ w.evgen = g /\ w.ref = 1 /\ w.send = 0
    BY <2>3, <2>4
  <2>7. Word(w).ref = 1 /\ Word(w).send = 0 /\ Word(w).evgen = g BY <2>3, <2>6, WordIs
  <2>8. ~BadEm2usr(Word(w)) BY <2>7 DEF BadEm2usr
  <2>9. ~alarm' /\ hdl' = [hdl EXCEPT ![e] = g] BY <2>5, <2>7, <2>8
  <2>10. DOMAIN stale = Events /\ stale[e] \in Seq(Int) BY DEF IInv, TypeInv
  <2> QED BY <1>1, <2>2, <2>4, <2>5, <2>9, <2>10, TakenStep
<1> QED BY <1>2, <1>3

\* A word in its range, at the end of the generations or before the first one.
LEMMA WrapsIs ==
  ASSUME NEW w \in [evgen : Int, ref : Int, send : Int], w.evgen >= 0, w.evgen < Width
  PROVE  (Wraps(w) <=> w.evgen = EVGEN_MAX) /\ (Unwraps(w) <=> w.evgen = EVGEN_INIT - 1)
BY WordIs DEF Wraps, Unwraps

\* A packet from outside of EM: one more generation.
LEMMA ExtDispatchStep ==
  ASSUME IInv, NEW e \in Events, ExtDispatch(e)
  PROVE  IInv'
<1>1. Taken(e) BY DEF ExtDispatch
<1>2. CASE Reinit(e) BY <1>1, <1>2, ReinitStep DEF ExtDispatch
<1>3. CASE ~Reinit(e)
  <2> DEFINE x == Plus(cnt[e], 1, 1, 0)
             w == IF Wraps(x) THEN Plus(x, -Period, 0, 0) ELSE x
             g == NextGen(hdl[e])
             h == NextGen(g)
             s == Past(e, g)
  <2>1. ~refs[e] BY <1>3 DEF Reinit, IInv, TypeInv
  <2>2. /\ cnt[e].ref = 0 /\ cnt[e].send = 0 /\ cnt[e].evgen = g
        /\ g \in EVGEN_INIT..(EVGEN_MAX - 1)
        /\ Len(stale[e]) < Period
        /\ \A j \in 1..Len(stale[e]) : stale[e][j] = GenBefore(g, Len(stale[e]) + 1 - j)
    BY <1>1, <2>1, PoolIs DEF Taken
  <2> HIDE DEF g
  <2>3. g \in Int /\ g >= 0 /\ g + 1 < Width /\ h \in EVGEN_INIT..(EVGEN_MAX - 1)
    BY <2>2, EsvAssumption, GensAre
  <2>4. h = IF g + 1 = EVGEN_MAX THEN EVGEN_INIT ELSE g + 1
    BY <2>2, <2>3, EsvAssumption DEF NextGen
  <2>5. x = [evgen |-> g + 1, ref |-> 1, send |-> 0] BY <2>2, <2>3 DEF Plus
  <2>6. w = [evgen |-> h, ref |-> 1, send |-> 0]
    <3>1. x \in [evgen : Int, ref : Int, send : Int] /\ x.evgen = g + 1 /\ x.ref = 1 /\ x.send = 0
      BY <2>3, <2>5
    <3>2. Wraps(x) <=> g + 1 = EVGEN_MAX BY <2>3, <3>1, WrapsIs
    <3> HIDE DEF x
    <3>3. CASE g + 1 = EVGEN_MAX
      <4>1. w = Plus(x, -Period, 0, 0) BY <3>2, <3>3
      <4>2. g + 1 + (-Period) = EVGEN_INIT BY <2>3, <3>3, EsvAssumption DEF Period
      <4>3. h = EVGEN_INIT BY <2>4, <3>3
      <4> HIDE DEF w, h
      <4> QED BY <3>1, <4>1, <4>2, <4>3 DEF Plus
    <3>4. CASE g + 1 # EVGEN_MAX BY <2>4, <2>5, <3>2, <3>4 DEF x
    <3> QED BY <3>3, <3>4
  <2>7. /\ cnt' = [cnt EXCEPT ![e] = w] /\ alarm' = BadEm2usr(Word(w))
        /\ hdl' = [hdl EXCEPT ![e] = Word(w).evgen] /\ op' = [op EXCEPT ![e] = "other"]
        /\ stale' = [stale EXCEPT ![e] = s]
    BY <1>3, <2>1, <2>2 DEF ExtDispatch, EsvUpdateExt, EsvEm2usr
  <2>8. stale[e] \in Seq(Int) /\ DOMAIN stale = Events BY DEF IInv, TypeInv
  <2>9. /\ s \in Seq(Int) /\ Len(s) < Period
        /\ \A j \in 1..Len(s) : s[j] = GenBefore(h, Len(s) + 1 - j)
    BY <2>1, <2>2, <2>8, PastIs
  <2> HIDE DEF w, s, h, x
  <2>10. w \in [evgen : Int, ref : Int, send : Int] /\ w.evgen = h /\ w.ref = 1 /\ w.send = 0
    BY <2>3, <2>6
  <2>11. h \in Int /\ h >= 0 /\ h < Width BY <2>3, EsvAssumption
  <2>12. Word(w).ref = 1 /\ Word(w).send = 0 /\ Word(w).evgen = h BY <2>10, <2>11, WordIs
  <2>13. ~BadEm2usr(Word(w)) BY <2>12 DEF BadEm2usr
  <2>14. ~alarm' /\ hdl' = [hdl EXCEPT ![e] = h] BY <2>7, <2>12, <2>13
  <2>15. DOMAIN stale' = Events /\ stale'[e] = s /\ \A f \in Events \ {e} : stale'[f] = stale[f]
    BY <2>7, <2>8
  <2> QED BY <1>1, <2>3, <2>6, <2>7, <2>9, <2>14, <2>15, TakenStep
<1> QED BY <1>2, <1>3

\* A reference to an event of the application.
LEMMA EventRefStep ==
  ASSUME IInv, NEW e \in Events, EventRef(e)
  PROVE  IInv'
<1> DEFINE w == Plus(cnt[e], 0, 1, 0)
           nU == Cardinality(Users(call, e))
           nS == Cardinality(Senders(call, e))
           nF == Cardinality(Freers(call, e))
<1>1. TypeInv /\ CallInv /\ EventOK(e) BY DEF IInv
<1>2. /\ at[e].user > 0 /\ odp[e] < MaxRefs /\ odp' = [odp EXCEPT ![e] = @ + 1]
      /\ refs' = [refs EXCEPT ![e] = TRUE] /\ cnt' = [cnt EXCEPT ![e] = w]
      /\ alarm' = BadEm2usr(Word(cnt'[e]))
      /\ UNCHANGED <<aggr, hdl, op, call, stale>>
  BY DEF EventRef
<1>3. /\ at' \in [Events -> [Places -> Nat]] /\ \A f \in Events \ {e} : at'[f] = at[f]
      /\ at'[e].user = at[e].user + 1 /\ \A q \in Places \ {"user"} : at'[e][q] = at[e][q]
  BY <1>1, PutIs DEF EventRef, Places
<1>4. /\ at'[e].user = at[e].user + 1 /\ at'[e].queue = at[e].queue
      /\ at'[e].aggregator = at[e].aggregator /\ at'[e].vector = at[e].vector
      /\ at'[e].marksend = at[e].marksend /\ at'[e].markfree = at[e].markfree
  BY <1>3 DEF Places
<1>5. /\ at[e].user \in Nat /\ at[e].queue \in Nat /\ at[e].aggregator \in Nat
      /\ at[e].vector \in Nat /\ at[e].marksend \in Nat /\ at[e].markfree \in Nat
      /\ cnt[e].evgen \in Int /\ cnt[e].ref \in Int /\ cnt[e].send \in Int
      /\ odp[e] \in 0..MaxRefs /\ MaxRefs \in Nat
  BY <1>1, AtIs
<1>6. /\ w \in [evgen : Int, ref : Int, send : Int]
      /\ w.evgen = cnt[e].evgen /\ w.ref = cnt[e].ref + 1 /\ w.send = cnt[e].send
  BY <1>5 DEF Plus
<1>7. /\ cnt' \in [Events -> [evgen : Int, ref : Int, send : Int]] /\ cnt'[e] = w
      /\ odp'[e] = odp[e] + 1 /\ refs'[e] = TRUE
  BY <1>1, <1>2, <1>6 DEF TypeInv
<1> HIDE DEF w
<1>8. cnt[e].evgen >= 1 BY <1>1, <1>5, EsvAssumption DEF EventOK, LowOK
<1>9. CountOK(e)'
  <2>1. /\ nU \in Nat /\ nS \in Nat /\ nF \in Nat
        /\ odp[e] = at[e].user + at[e].queue + at[e].aggregator + at[e].vector + at[e].marksend
                     + at[e].markfree + nU
        /\ cnt[e].ref = odp[e] - at[e].markfree - nF
        /\ cnt[e].send = at[e].queue + at[e].aggregator + at[e].marksend + nS
    BY <1>1, CountNow DEF EventOK
  <2>2. /\ Cardinality(Users(call', e)) = nU /\ Cardinality(Senders(call', e)) = nS
        /\ Cardinality(Freers(call', e)) = nF
    BY <1>2
  <2> HIDE DEF nU, nS, nF
  <2>3. odp[e] + 1 = at'[e].user + at'[e].queue + at'[e].aggregator + at'[e].vector
                      + at'[e].marksend + at'[e].markfree + nU
    BY <1>4, <1>5, <2>1
  <2>4. /\ w.ref = (odp[e] + 1) - at'[e].markfree - nF
        /\ w.send = at'[e].queue + at'[e].aggregator + at'[e].marksend + nS
    BY <1>4, <1>5, <1>6, <2>1
  <2> QED BY <1>7, <2>2, <2>3, <2>4 DEF CountOK
<1>10. ~alarm'
  <2>1. /\ w.send >= 0 /\ w.ref >= w.send + at'[e].user + at'[e].vector
    BY <1>3, <1>7, <1>9, CoveredNext
  <2>2. at'[e].user >= 1 /\ at'[e].vector >= 0 /\ at'[e].user \in Int /\ at'[e].vector \in Int
    BY <1>4, <1>5
  <2>3. w.ref > w.send BY <1>5, <1>6, <2>1, <2>2
  <2>4. Word(w).ref = w.ref /\ Word(w).send = w.send BY <1>6, <1>8, <1>5, WordIs
  <2>5. ~BadEm2usr(Word(w)) BY <1>5, <1>6, <2>1, <2>3, <2>4 DEF BadEm2usr
  <2> QED BY <1>2, <1>7, <2>5
<1>11. ~aggr[e] /\ at[e].vector = 0
  <2>1. CASE refs[e] BY <1>1, <2>1 DEF EventOK, FlagOK
  <2>2. CASE ~refs[e]
    <3>1. odp[e] <= 1 BY <1>1, <2>2 DEF EventOK, GenOK
    <3>2. /\ \A q \in Places \ {"user"} : at[e][q] = 0
          /\ NoHolder(e)
      BY <1>1, <1>2, <3>1, Sole DEF EventOK, Places, NoHolder
    <3>3. at[e].aggregator = 0 /\ at[e].vector = 0 BY <3>2 DEF Places
    <3>4. \A c \in Cores : ~Enqueues(call[c], e) BY <3>2 DEF NoHolder, Apart
    <3> QED BY <1>1, <2>2, <3>3, <3>4 DEF EventOK, FlagOK
  <2> QED BY <2>1, <2>2
<1>12. TypeInv'
  <2>1. odp[e] + 1 \in 0..MaxRefs BY <1>2, <1>5
  <2> QED BY <1>1, <1>2, <1>3, <1>7, <2>1 DEF TypeInv
<1>13. GenOK(e)' BY <1>7 DEF GenOK
<1>14. LowOK(e)' BY <1>1, <1>2, <1>6, <1>7 DEF EventOK, LowOK
<1>15. FlagOK(e)' BY <1>2, <1>4, <1>7, <1>11 DEF FlagOK
<1>16. StaleOK(e)' BY <1>7 DEF StaleOK
<1>17. \A f \in Events \ {e} : EventSame(f) BY <1>1, <1>2, <1>3 DEF EventSame, TypeInv
<1> QED BY <1>2, <1>9, <1>10, <1>12, <1>13, <1>14, <1>15, <1>16, <1>17, OneEventStep

-----------------------------------------------------------------------------
(* Steps of the application and of EM outside of the calls *)

\* An event without references that is at place p.
LEMMA OnePlaceIs ==
  ASSUME IInv, NEW e \in Events, ~refs[e], NEW p \in Places, at[e][p] > 0
  PROVE  /\ odp[e] = 1 /\ at[e][p] = 1 /\ \A q \in Places \ {p} : at[e][q] = 0
         /\ NoHolder(e)
         /\ p \notin {"user", "vector"} => cnt[e].evgen = NextGen(hdl[e])
<1>1. TypeInv /\ CallInv /\ CountOK(e) /\ GenOK(e) BY DEF IInv, EventOK
<1>2. odp[e] <= 1 BY <1>1 DEF GenOK
<1>3. /\ odp[e] = 1 /\ at[e][p] = 1 /\ \A q \in Places \ {p} : at[e][q] = 0
      /\ NoHolder(e)
  BY <1>1, <1>2, Sole DEF NoHolder
<1>4. p \notin {"user", "vector"} => cnt[e].evgen = NextGen(hdl[e])
  <2> HAVE p \notin {"user", "vector"}
  <2>1. "user" \in Places \ {p} /\ "vector" \in Places \ {p} BY DEF Places
  <2>2. at[e].user = 0 /\ at[e].vector = 0 BY <1>3, <2>1
  <2> QED BY <1>1, <1>3, <2>2, GivenIs
<1> QED BY <1>3, <1>4

\* The handle of an event is given away.
LEMMA GaveIs ==
  ASSUME IInv, NEW e \in Events, NEW s, s = GaveAway(e)
  PROVE  /\ s \in Seq(Int)
         /\ ~refs[e] /\ GenNow(e) = hdl[e] =>
              /\ Len(s) < Period
              /\ \A j \in 1..Len(s) : s[j] = GenBefore(NextGen(hdl[e]), Len(s) + 1 - j)
<1>1. /\ hdl[e] \in EVGEN_INIT..(EVGEN_MAX - 1) /\ stale[e] \in Seq(Int) /\ StaleOK(e)
  BY DEF IInv, TypeInv, EventOK
<1>2. CASE refs[e] BY <1>1, <1>2 DEF GaveAway, Past
<1>3. CASE ~refs[e]
  <2>1. s \in Seq(Int)
    <3> DEFINE a == Append(stale[e], hdl[e])
    <3>1. a \in Seq(Int) /\ a # <<>> BY <1>1, EsvAssumption
    <3>2. s = a \/ s = Tail(a) BY <1>3 DEF GaveAway, Past
    <3> HIDE DEF a
    <3>3. Tail(a) \in Seq(Int) BY <3>1, HeadTailProperties
    <3> QED BY <3>1, <3>2, <3>3
  <2>2. ASSUME GenNow(e) = hdl[e]
        PROVE  /\ Len(s) < Period
               /\ \A j \in 1..Len(s) : s[j] = GenBefore(NextGen(hdl[e]), Len(s) + 1 - j)
    <3>1. /\ Len(stale[e]) < Period
          /\ \A j \in 1..Len(stale[e]) : stale[e][j] = GenBefore(hdl[e], Len(stale[e]) + 1 - j)
      BY <1>1, <1>3, <2>2 DEF StaleOK
    <3> QED BY <1>1, <1>3, <3>1, PastIs DEF GaveAway
  <2> QED BY <2>1, <2>2
<1> QED BY <1>2, <1>3

\* The application hands a marked event over.
LEMMA DeliverMarkedStep ==
  ASSUME IInv, NEW e \in Events, DeliverMarked(e)
  PROVE  IInv'
<1> DEFINE nU == Cardinality(Users(call, e))
           nS == Cardinality(Senders(call, e))
           nF == Cardinality(Freers(call, e))
           s  == GaveAway(e)
<1>1. TypeInv /\ CallInv /\ EventOK(e) BY DEF IInv
<1>2. /\ at[e].marksend > 0 /\ stale' = [stale EXCEPT ![e] = s]
      /\ UNCHANGED <<cnt, refs, aggr, hdl, op, odp, call, alarm>>
  BY DEF DeliverMarked
<1>3. /\ at' \in [Events -> [Places -> Nat]] /\ \A f \in Events \ {e} : at'[f] = at[f]
      /\ at'[e].marksend = at[e].marksend - 1 /\ at'[e].queue = at[e].queue + 1
      /\ \A p \in Places \ {"marksend", "queue"} : at'[e][p] = at[e][p]
  BY <1>1, MoveIs DEF DeliverMarked, Places
<1>4. /\ at'[e].marksend = at[e].marksend - 1 /\ at'[e].queue = at[e].queue + 1
      /\ at'[e].user = at[e].user
      /\ at'[e].aggregator = at[e].aggregator /\ at'[e].vector = at[e].vector
      /\ at'[e].markfree = at[e].markfree
  BY <1>3 DEF Places
<1>5. /\ at[e].user \in Nat /\ at[e].queue \in Nat /\ at[e].aggregator \in Nat
      /\ at[e].vector \in Nat /\ at[e].marksend \in Nat /\ at[e].markfree \in Nat
      /\ odp[e] \in Int /\ cnt[e].ref \in Int /\ cnt[e].send \in Int
  BY <1>1, AtIs
<1>6. CountOK(e)'
  <2>1. /\ nU \in Nat /\ nS \in Nat /\ nF \in Nat
        /\ odp[e] = at[e].user + at[e].queue + at[e].aggregator + at[e].vector + at[e].marksend
                     + at[e].markfree + nU
        /\ cnt[e].ref = odp[e] - at[e].markfree - nF
        /\ cnt[e].send = at[e].queue + at[e].aggregator + at[e].marksend + nS
    BY <1>1, CountNow DEF EventOK
  <2>2. /\ Cardinality(Users(call', e)) = nU /\ Cardinality(Senders(call', e)) = nS
        /\ Cardinality(Freers(call', e)) = nF /\ cnt'[e] = cnt[e] /\ odp'[e] = odp[e]
    BY <1>2
  <2> HIDE DEF nU, nS, nF
  <2>3. odp[e] = at'[e].user + at'[e].queue + at'[e].aggregator + at'[e].vector
                      + at'[e].marksend + at'[e].markfree + nU
    BY <1>4, <1>5, <2>1
  <2>4. /\ cnt[e].ref = odp[e] - at'[e].markfree - nF
        /\ cnt[e].send = at'[e].queue + at'[e].aggregator + at'[e].marksend + nS
    BY <1>4, <1>5, <2>1
  <2> QED BY <2>2, <2>3, <2>4 DEF CountOK
<1>7. ASSUME ~refs[e]
      PROVE  /\ odp[e] = 1 /\ at[e].marksend = 1 /\ at[e].user = 0 /\ at[e].queue = 0
             /\ at[e].aggregator = 0 /\ at[e].vector = 0 /\ at[e].markfree = 0
             /\ cnt[e].evgen = NextGen(hdl[e])
             /\ \A c \in Cores : Apart(call'[c], e)
  <2>1. /\ odp[e] = 1 /\ at[e].marksend = 1 /\ \A q \in Places \ {"marksend"} : at[e][q] = 0
        /\ NoHolder(e) /\ cnt[e].evgen = NextGen(hdl[e])
    BY <1>2, <1>7, OnePlaceIs DEF Places
  <2> QED BY <1>2, <2>1 DEF Places, NoHolder
<1>8. s \in Seq(Int) BY GaveIs
<1> HIDE DEF s
<1>9. /\ DOMAIN stale' = Events /\ \A f \in Events \ {e} : stale'[f] = stale[f]
      /\ stale'[e] = s
  BY <1>1, <1>2 DEF TypeInv
<1>10. TypeInv' BY <1>1, <1>2, <1>3, <1>8, <1>9 DEF TypeInv
<1>11. GenOK(e)'
  <2>1. CASE refs[e] BY <1>2, <2>1 DEF GenOK
  <2>2. CASE ~refs[e]
    <3>1. at'[e].user = 0 /\ at'[e].vector = 0 BY <1>4, <1>7, <2>2
    <3> QED BY <1>2, <1>7, <2>2, <3>1 DEF GenOK, Fresh, Apart
  <2> QED BY <2>1, <2>2
<1>12. LowOK(e)' BY <1>1, <1>2 DEF EventOK, LowOK
<1>13. FlagOK(e)'
  <2>1. CASE refs[e] BY <1>1, <1>2, <1>4, <2>1 DEF EventOK, FlagOK
  <2>2. CASE ~refs[e]
    <3>1. FlagOK(e) BY <1>1 DEF EventOK
    <3>2. at'[e].marksend = 0 /\ at'[e].markfree = 0 /\ at'[e].aggregator = 0
      BY <1>4, <1>7, <2>2
    <3>3. ~aggr'[e] BY <1>2, <1>7, <2>2, <3>1 DEF FlagOK, Apart
    <3> QED BY <1>2, <1>7, <2>2, <3>2, <3>3 DEF FlagOK, Apart
  <2> QED BY <2>1, <2>2
<1>14. StaleOK(e)'
  <2>1. CASE refs[e] BY <1>2, <2>1 DEF StaleOK
  <2>2. CASE ~refs[e]
    <3>1. GenNow(e) = hdl[e] BY <1>7, <2>2 DEF GenNow
    <3>2. at'[e].queue + at'[e].aggregator > 0 BY <1>4, <1>7, <2>2
    <3>3. GenNow(e)' = NextGen(hdl[e]) BY <1>2, <3>2 DEF GenNow
    <3>4. /\ Len(s) < Period
          /\ \A j \in 1..Len(s) : s[j] = GenBefore(NextGen(hdl[e]), Len(s) + 1 - j)
      BY <2>2, <3>1, GaveIs DEF s
    <3> QED BY <1>9, <3>3, <3>4 DEF StaleOK
  <2> QED BY <2>1, <2>2
<1>15. \A f \in Events \ {e} : EventSame(f) BY <1>1, <1>2, <1>3, <1>9 DEF EventSame, TypeInv
<1> QED BY <1>2, <1>6, <1>10, <1>11, <1>12, <1>13, <1>14, <1>15, OneEventStep DEF IInv

\* The application frees a marked event itself.
LEMMA FreeMarkedStep ==
  ASSUME IInv, NEW e \in Events, FreeMarked(e)
  PROVE  IInv'
<1> DEFINE nU == Cardinality(Users(call, e))
           nS == Cardinality(Senders(call, e))
           nF == Cardinality(Freers(call, e))
           s  == GaveAway(e)
<1>1. TypeInv /\ CallInv /\ EventOK(e) BY DEF IInv
<1>2. /\ at[e].markfree > 0 /\ stale' = [stale EXCEPT ![e] = s] /\ odp' = [odp EXCEPT ![e] = @ - 1]
      /\ UNCHANGED <<cnt, refs, aggr, hdl, op, call, alarm>>
  BY DEF FreeMarked
<1>3. /\ at' \in [Events -> [Places -> Nat]] /\ \A f \in Events \ {e} : at'[f] = at[f]
      /\ at'[e].markfree = at[e].markfree - 1
      /\ \A p \in Places \ {"markfree"} : at'[e][p] = at[e][p]
  BY <1>1, TakeIs DEF FreeMarked, Places
<1>4. /\ at'[e].markfree = at[e].markfree - 1
      /\ at'[e].user = at[e].user /\ at'[e].queue = at[e].queue
      /\ at'[e].aggregator = at[e].aggregator /\ at'[e].vector = at[e].vector
      /\ at'[e].marksend = at[e].marksend
  BY <1>3 DEF Places
<1>5. /\ at[e].user \in Nat /\ at[e].queue \in Nat /\ at[e].aggregator \in Nat
      /\ at[e].vector \in Nat /\ at[e].marksend \in Nat /\ at[e].markfree \in Nat
      /\ odp[e] \in Int /\ cnt[e].ref \in Int /\ cnt[e].send \in Int
  BY <1>1, AtIs
<1>6. CountOK(e)' /\ odp[e] >= 1
  <2>1. /\ nU \in Nat /\ nS \in Nat /\ nF \in Nat
        /\ odp[e] = at[e].user + at[e].queue + at[e].aggregator + at[e].vector + at[e].marksend
                     + at[e].markfree + nU
        /\ cnt[e].ref = odp[e] - at[e].markfree - nF
        /\ cnt[e].send = at[e].queue + at[e].aggregator + at[e].marksend + nS
    BY <1>1, CountNow DEF EventOK
  <2>2. /\ Cardinality(Users(call', e)) = nU /\ Cardinality(Senders(call', e)) = nS
        /\ Cardinality(Freers(call', e)) = nF /\ cnt'[e] = cnt[e] /\ odp'[e] = odp[e] - 1
    BY <1>1, <1>2 DEF TypeInv
  <2> HIDE DEF nU, nS, nF
  <2>3. odp[e] - 1 = at'[e].user + at'[e].queue + at'[e].aggregator + at'[e].vector
                      + at'[e].marksend + at'[e].markfree + nU
    BY <1>4, <1>5, <2>1
  <2>4. /\ cnt[e].ref = (odp[e] - 1) - at'[e].markfree - nF
        /\ cnt[e].send = at'[e].queue + at'[e].aggregator + at'[e].marksend + nS
    BY <1>4, <1>5, <2>1
  <2>5. odp[e] >= 1 BY <1>2, <1>5, <2>1
  <2> QED BY <2>2, <2>3, <2>4, <2>5 DEF CountOK
<1>7. ASSUME ~refs[e]
      PROVE  /\ odp[e] = 1 /\ at[e].markfree = 1 /\ at[e].user = 0 /\ at[e].queue = 0
             /\ at[e].aggregator = 0 /\ at[e].vector = 0 /\ at[e].marksend = 0
             /\ cnt[e].evgen = NextGen(hdl[e])
             /\ \A c \in Cores : Apart(call'[c], e)
  <2>1. /\ odp[e] = 1 /\ at[e].markfree = 1 /\ \A q \in Places \ {"markfree"} : at[e][q] = 0
        /\ NoHolder(e) /\ cnt[e].evgen = NextGen(hdl[e])
    BY <1>2, <1>7, OnePlaceIs DEF Places
  <2> QED BY <1>2, <2>1 DEF Places, NoHolder
<1>8. s \in Seq(Int) BY GaveIs
<1> HIDE DEF s
<1>9. /\ DOMAIN stale' = Events /\ \A f \in Events \ {e} : stale'[f] = stale[f]
      /\ stale'[e] = s /\ odp'[e] = odp[e] - 1
  BY <1>1, <1>2 DEF TypeInv
<1>10. TypeInv'
  <2>1. odp[e] - 1 \in 0..MaxRefs BY <1>1, <1>6, AtIs
  <2> QED BY <1>1, <1>2, <1>3, <1>8, <1>9, <2>1 DEF TypeInv
<1>11. GenOK(e)'
  <2>1. CASE refs[e] BY <1>2, <2>1 DEF GenOK
  <2>2. CASE ~refs[e]
    <3>1. at'[e].user = 0 /\ at'[e].vector = 0 /\ odp'[e] = 0 BY <1>4, <1>7, <1>9, <2>2
    <3> QED BY <1>2, <1>7, <2>2, <3>1 DEF GenOK, Fresh, Apart
  <2> QED BY <2>1, <2>2
<1>12. LowOK(e)' BY <1>1, <1>2 DEF EventOK, LowOK
<1>13. FlagOK(e)'
  <2>1. CASE refs[e] BY <1>1, <1>2, <1>4, <2>1 DEF EventOK, FlagOK
  <2>2. CASE ~refs[e]
    <3>1. FlagOK(e) BY <1>1 DEF EventOK
    <3>2. at'[e].marksend = 0 /\ at'[e].markfree = 0 /\ at'[e].aggregator = 0
      BY <1>4, <1>7, <2>2
    <3>3. ~aggr'[e] BY <1>2, <1>7, <2>2, <3>1 DEF FlagOK, Apart
    <3> QED BY <1>2, <1>7, <2>2, <3>2, <3>3 DEF FlagOK, Apart
  <2> QED BY <2>1, <2>2
<1>14. StaleOK(e)'
  <2>1. CASE refs[e] BY <1>2, <2>1 DEF StaleOK
  <2>2. CASE ~refs[e]
    <3>1. GenNow(e) = hdl[e] BY <1>7, <2>2 DEF GenNow
    <3>2. odp'[e] = 0 BY <1>9, <1>7, <2>2
    <3>3. GenNow(e)' = NextGen(hdl[e]) BY <1>2, <3>2 DEF GenNow
    <3>4. /\ Len(s) < Period
          /\ \A j \in 1..Len(s) : s[j] = GenBefore(NextGen(hdl[e]), Len(s) + 1 - j)
      BY <2>2, <3>1, GaveIs DEF s
    <3> QED BY <1>9, <3>3, <3>4 DEF StaleOK
  <2> QED BY <2>1, <2>2
<1>15. \A f \in Events \ {e} : EventSame(f) BY <1>1, <1>2, <1>3, <1>9 DEF EventSame, TypeInv
<1> QED BY <1>2, <1>6, <1>10, <1>11, <1>12, <1>13, <1>14, <1>15, OneEventStep DEF IInv

-----------------------------------------------------------------------------
(* Events that EM gives to the application *)

\* An event from an EM queue or from an aggregator.
Gives(e, p) ==
  /\ at[e][p] > 0 /\ at' = Move(e, p, "user") /\ EsvEm2usr(e, Plus(cnt[e], 0, 0, -1))
  /\ aggr' = [aggr EXCEPT ![e] = IF refs[e] THEN @ ELSE FALSE]
  /\ UNCHANGED <<refs, odp, call, stale>>

\* Every step that gives an event to EM.
LEMMA GivesStep ==
  ASSUME IInv, NEW e \in Events, NEW p \in {"queue", "aggregator"}, Gives(e, p)
  PROVE  IInv'
<1> DEFINE w == Plus(cnt[e], 0, 0, -1)
<1>1. TypeInv /\ CallInv /\ EventOK(e) BY DEF IInv
<1>2. /\ cnt' = [cnt EXCEPT ![e] = w] /\ alarm' = BadEm2usr(Word(w))
      /\ IF refs[e] THEN UNCHANGED <<hdl, op>>
                    ELSE /\ hdl' = [hdl EXCEPT ![e] = Word(w).evgen]
                         /\ op' = [op EXCEPT ![e] = "other"]
      /\ aggr' = [aggr EXCEPT ![e] = IF refs[e] THEN @ ELSE FALSE]
      /\ UNCHANGED <<refs, odp, call, stale>>
  BY DEF Gives, EsvEm2usr
<1>3. /\ at' \in [Events -> [Places -> Nat]] /\ \A f \in Events \ {e} : at'[f] = at[f]
      /\ at'[e][p] = at[e][p] - 1 /\ at'[e].user = at[e].user + 1
      /\ \A q \in Places \ {p, "user"} : at'[e][q] = at[e][q]
  BY <1>1, MoveIs DEF Gives, Places
<1>5. /\ at[e].user \in Nat /\ at[e].queue \in Nat /\ at[e].aggregator \in Nat
      /\ at[e].vector \in Nat /\ at[e].marksend \in Nat /\ at[e].markfree \in Nat
      /\ cnt[e].evgen \in Int /\ cnt[e].ref \in Int /\ cnt[e].send \in Int
      /\ hdl[e] \in EVGEN_INIT..(EVGEN_MAX - 1) /\ odp[e] \in Int
  BY <1>1, AtIs
<1>4. /\ at'[e].queue + at'[e].aggregator = at[e].queue + at[e].aggregator - 1
      /\ at'[e].user = at[e].user + 1
      /\ at'[e].vector = at[e].vector
      /\ at'[e].marksend = at[e].marksend /\ at'[e].markfree = at[e].markfree
      /\ at'[e].queue \in Nat /\ at'[e].aggregator \in Nat
  <2>1. CASE p = "queue" BY <1>3, <1>5, <2>1 DEF Places
  <2>2. CASE p = "aggregator" BY <1>3, <1>5, <2>2 DEF Places
  <2> QED BY <2>1, <2>2
<1>6. /\ w \in [evgen : Int, ref : Int, send : Int]
      /\ w.evgen = cnt[e].evgen /\ w.ref = cnt[e].ref /\ w.send = cnt[e].send - 1
  BY <1>5 DEF Plus
<1>7. cnt' \in [Events -> [evgen : Int, ref : Int, send : Int]] /\ cnt'[e] = w
  BY <1>1, <1>2, <1>6 DEF TypeInv
<1> HIDE DEF w
<1>8. cnt[e].evgen >= 1 BY <1>1, <1>5, EsvAssumption DEF EventOK, LowOK
<1>9. /\ Word(w).ref = w.ref /\ Word(w).send = w.send
      /\ w.evgen < Width => Word(w).evgen = w.evgen
  BY <1>5, <1>6, <1>8, WordIs
<1>10. CountOK(e)'
  <2> DEFINE nU == Cardinality(Users(call, e))
             nS == Cardinality(Senders(call, e))
             nF == Cardinality(Freers(call, e))
  <2>1. nU \in Nat /\ nS \in Nat /\ nF \in Nat BY HoldersIs
  <2>2. /\ odp[e] = at[e].user + at[e].queue + at[e].aggregator + at[e].vector + at[e].marksend
                      + at[e].markfree + nU
        /\ cnt[e].ref = odp[e] - at[e].markfree - nF
        /\ cnt[e].send = at[e].queue + at[e].aggregator + at[e].marksend + nS
    BY <1>1 DEF EventOK, CountOK
  <2>3. /\ Cardinality(Users(call', e)) = nU /\ Cardinality(Senders(call', e)) = nS
        /\ Cardinality(Freers(call', e)) = nF /\ odp'[e] = odp[e]
    BY <1>2
  <2> HIDE DEF nU, nS, nF
  <2>4. /\ odp[e] = at'[e].user + at'[e].queue + at'[e].aggregator + at'[e].vector
                      + at'[e].marksend + at'[e].markfree + nU
    BY <1>4, <1>5, <2>1, <2>2
  <2>5. /\ w.ref = odp[e] - at'[e].markfree - nF
        /\ w.send = at'[e].queue + at'[e].aggregator + at'[e].marksend + nS
    BY <1>4, <1>5, <1>6, <2>1, <2>2
  <2> QED BY <1>7, <2>3, <2>4, <2>5 DEF CountOK
<1>11. ~alarm'
  <2>1. /\ w.send >= 0 /\ w.ref >= w.send + at'[e].user + at'[e].vector
    BY <1>3, <1>7, <1>10, CoveredNext
  <2>2. at'[e].user >= 1 /\ at'[e].vector >= 0 /\ at'[e].user \in Int /\ at'[e].vector \in Int
    BY <1>3, <1>4, <1>5
  <2>3. w.ref > w.send BY <1>5, <1>6, <2>1, <2>2
  <2>4. ~BadEm2usr(Word(w)) BY <1>5, <1>6, <1>9, <2>1, <2>3 DEF BadEm2usr
  <2> QED BY <1>2, <2>4
<1>12. ASSUME ~refs[e]
       PROVE  /\ NoHolder(e) /\ at[e].queue + at[e].aggregator = 1 /\ at[e].user = 0
              /\ at[e].vector = 0 /\ at[e].marksend = 0 /\ at[e].markfree = 0 /\ odp[e] = 1
              /\ cnt[e].evgen = NextGen(hdl[e]) /\ hdl'[e] = NextGen(hdl[e]) /\ op'[e] = "other"
              /\ NextGen(hdl[e]) \in EVGEN_INIT..(EVGEN_MAX - 1) /\ ~aggr'[e]
  <2>1. odp[e] <= 1 /\ CountOK(e) /\ GenOK(e) BY <1>1, <1>12 DEF EventOK, GenOK
  <2>2. /\ odp[e] = 1 /\ at[e][p] = 1 /\ \A q \in Places \ {p} : at[e][q] = 0
        /\ NoHolder(e)
    BY <1>1, <2>1, Sole DEF Gives, Places, NoHolder
  <2>3. /\ at[e].user = 0 /\ at[e].queue + at[e].aggregator = 1
        /\ at[e].vector = 0 /\ at[e].marksend = 0 /\ at[e].markfree = 0
    BY <2>2 DEF Places
  <2>4. cnt[e].evgen = NextGen(hdl[e]) BY <1>1, <1>12, <2>1, <2>2, <2>3, GivenIs
  <2>5. NextGen(hdl[e]) \in EVGEN_INIT..(EVGEN_MAX - 1) /\ NextGen(hdl[e]) < Width
    BY <1>5, GensAre
  <2>6. Word(w).evgen = NextGen(hdl[e]) BY <1>6, <1>9, <2>4, <2>5
  <2>7. hdl'[e] = NextGen(hdl[e]) /\ op'[e] = "other" /\ ~aggr'[e]
    BY <1>1, <1>2, <1>12, <2>6 DEF TypeInv
  <2> QED BY <2>2, <2>3, <2>4, <2>5, <2>7
<1>13. TypeInv'
  <2>1. hdl' \in [Events -> EVGEN_INIT..(EVGEN_MAX - 1)]
    <3>1. CASE refs[e] BY <1>1, <1>2, <3>1 DEF TypeInv
    <3>2. CASE ~refs[e]
      <4>1. hdl' = [hdl EXCEPT ![e] = hdl'[e]] BY <1>1, <1>2, <3>2 DEF TypeInv
      <4>2. hdl'[e] \in EVGEN_INIT..(EVGEN_MAX - 1) BY <1>12, <3>2
      <4>3. hdl \in [Events -> EVGEN_INIT..(EVGEN_MAX - 1)] BY <1>1 DEF TypeInv
      <4> QED BY <4>1, <4>2, <4>3
    <3> QED BY <3>1, <3>2
  <2>2. op' \in [Events -> {"other", "marksend", "markfree"}] BY <1>1, <1>2 DEF TypeInv
  <2>3. aggr' \in [Events -> BOOLEAN] BY <1>1, <1>2 DEF TypeInv
  <2> QED BY <1>1, <1>2, <1>3, <1>7, <2>1, <2>2, <2>3 DEF TypeInv
<1>15. GenOK(e)'
  <2>1. CASE refs[e] BY <1>2, <2>1 DEF GenOK
  <2>2. CASE ~refs[e]
    <3>1. at'[e].user + at'[e].vector > 0 BY <1>3, <1>4, <1>5
    <3>2. Fresh(e)' BY <3>1 DEF Fresh
    <3>3. cnt'[e].evgen = hdl'[e] BY <1>6, <1>7, <1>12, <2>2
    <3>4. odp'[e] <= 1 BY <1>2, <1>12, <2>2
    <3>5. \A c \in Cores : ~AtWrap(call'[c], e) /\ ~AtUnwrap(call'[c], e)
      BY <1>2, <1>12, <2>2 DEF NoHolder, Apart
    <3> QED BY <3>2, <3>3, <3>4, <3>5 DEF GenOK
  <2> QED BY <2>1, <2>2
<1>16. LowOK(e)' BY <1>1, <1>2, <1>6, <1>7 DEF EventOK, LowOK
<1>17. FlagOK(e)'
  <2>1. CASE refs[e]
    <3>1. ~aggr'[e] /\ at'[e].vector = 0 BY <1>1, <1>2, <1>4, <2>1 DEF EventOK, FlagOK, TypeInv
    <3> QED BY <1>2, <2>1, <3>1 DEF FlagOK
  <2>2. CASE ~refs[e]
    <3>1. \A c \in Cores : ~After(call'[c], e) /\ ~Enqueues(call'[c], e)
      BY <1>2, <1>12, <2>2 DEF NoHolder, Apart
    <3>2. at'[e].aggregator = 0 /\ at'[e].marksend = 0 /\ at'[e].markfree = 0
      BY <1>4, <1>5, <1>12, <2>2
    <3> QED BY <1>2, <1>12, <2>2, <3>1, <3>2 DEF FlagOK
  <2> QED BY <2>1, <2>2
<1>18. StaleOK(e)'
  <2>1. CASE refs[e] BY <1>2, <2>1 DEF StaleOK
  <2>2. CASE ~refs[e]
    <3>1. GenNow(e) = NextGen(hdl[e]) BY <1>12, <2>2 DEF GenNow
    <3>2. ~(at'[e].queue + at'[e].aggregator > 0) BY <1>4, <1>5, <1>12, <2>2
    <3>3. GenNow(e)' = NextGen(hdl[e]) BY <1>2, <1>12, <2>2, <3>2 DEF GenNow
    <3> QED BY <1>1, <1>2, <3>1, <3>3 DEF EventOK, StaleOK
  <2> QED BY <2>1, <2>2
<1>19. \A f \in Events \ {e} : EventSame(f) BY <1>1, <1>2, <1>3 DEF EventSame, TypeInv
<1> QED BY <1>2, <1>10, <1>11, <1>13, <1>15, <1>16, <1>17, <1>18, <1>19, OneEventStep

\* An event that is in a queue or with the application is not flagged.
LEMMA NotFlagged ==
  ASSUME IInv, NEW e \in Events, ~refs[e], NEW p \in Places \ {"aggregator"}, at[e][p] > 0
  PROVE  aggr[e] = FALSE
<1>1. p \in Places BY DEF Places
<1>2. NoHolder(e) /\ \A q \in Places \ {p} : at[e][q] = 0 BY <1>1, OnePlaceIs
<1>3. at[e].aggregator = 0 BY <1>2 DEF Places
<1>4. \A c \in Cores : ~Enqueues(call[c], e) BY <1>2 DEF NoHolder, Apart
<1>5. FlagOK(e) /\ aggr[e] \in BOOLEAN BY DEF IInv, EventOK, TypeInv
<1> QED BY <1>3, <1>4, <1>5 DEF FlagOK

\* An event from an EM queue.
LEMMA DispatchStep ==
  ASSUME IInv, NEW e \in Events, Dispatch(e)
  PROVE  IInv'
<1>1. at[e]["queue"] > 0 /\ at' = Move(e, "queue", "user") /\ aggr' = aggr BY DEF Dispatch
<1>2. ~refs[e] => aggr[e] = FALSE BY <1>1, NotFlagged DEF Places
<1>3. aggr \in [Events -> BOOLEAN] BY DEF IInv, TypeInv
<1>4. aggr' = [aggr EXCEPT ![e] = IF refs[e] THEN @ ELSE FALSE] BY <1>1, <1>2, <1>3
<1>5. Gives(e, "queue") BY <1>1, <1>4 DEF Dispatch, Gives
<1> QED BY <1>5, GivesStep

\* An event from an aggregator, in the vector it has made.
LEMMA DispatchAggrStep ==
  ASSUME IInv, NEW e \in Events, DispatchAggr(e)
  PROVE  IInv'
<1>1. at[e]["aggregator"] > 0 BY DEF DispatchAggr
<1>2. ~refs[e] => aggr[e] BY <1>1 DEF IInv, EventOK, FlagOK
<1>3. Gives(e, "aggregator") BY <1>1, <1>2 DEF DispatchAggr, AggrInner, Gives
<1> QED BY <1>3, GivesStep

\* An event without references goes into a vector of the application or back.
Carries(e, from, to) ==
  /\ at[e][from] > 0 /\ at' = Move(e, from, to) /\ ~refs[e]
  /\ UNCHANGED <<cnt, refs, aggr, hdl, op, odp, call, stale, alarm>>

\* Every step that carries an event between places.
LEMMA CarriesStep ==
  ASSUME IInv, NEW e \in Events, NEW from \in {"user", "vector"}, NEW to \in {"user", "vector"},
         from # to, Carries(e, from, to)
  PROVE  IInv'
<1> DEFINE nU == Cardinality(Users(call, e))
           nS == Cardinality(Senders(call, e))
           nF == Cardinality(Freers(call, e))
<1>1. TypeInv /\ CallInv /\ EventOK(e) BY DEF IInv
<1>2. /\ at[e][from] > 0 /\ ~refs[e] /\ UNCHANGED <<cnt, refs, aggr, hdl, op, odp, call, stale, alarm>>
  BY DEF Carries
<1>3. /\ at' \in [Events -> [Places -> Nat]] /\ \A f \in Events \ {e} : at'[f] = at[f]
      /\ at'[e][from] = at[e][from] - 1 /\ at'[e][to] = at[e][to] + 1
      /\ \A p \in Places \ {from, to} : at'[e][p] = at[e][p]
  BY <1>1, MoveIs DEF Carries, Places
<1>4. /\ at[e].user \in Nat /\ at[e].queue \in Nat /\ at[e].aggregator \in Nat
      /\ at[e].vector \in Nat /\ at[e].marksend \in Nat /\ at[e].markfree \in Nat
      /\ odp[e] \in Int /\ cnt[e].ref \in Int /\ cnt[e].send \in Int
  BY <1>1, AtIs
<1>5. /\ at'[e].user + at'[e].vector = at[e].user + at[e].vector
      /\ at'[e].queue = at[e].queue /\ at'[e].aggregator = at[e].aggregator
      /\ at'[e].marksend = at[e].marksend /\ at'[e].markfree = at[e].markfree
      /\ at'[e].user \in Nat /\ at'[e].vector \in Nat
  <2>1. CASE from = "user" /\ to = "vector" BY <1>3, <1>4, <2>1 DEF Places
  <2>2. CASE from = "vector" /\ to = "user" BY <1>3, <1>4, <2>2 DEF Places
  <2> QED BY <2>1, <2>2
<1>6. CountOK(e)'
  <2>1. /\ nU \in Nat /\ nS \in Nat /\ nF \in Nat
        /\ odp[e] = at[e].user + at[e].queue + at[e].aggregator + at[e].vector + at[e].marksend
                     + at[e].markfree + nU
        /\ cnt[e].ref = odp[e] - at[e].markfree - nF
        /\ cnt[e].send = at[e].queue + at[e].aggregator + at[e].marksend + nS
    BY <1>1, CountNow DEF EventOK
  <2>2. /\ Cardinality(Users(call', e)) = nU /\ Cardinality(Senders(call', e)) = nS
        /\ Cardinality(Freers(call', e)) = nF /\ cnt'[e] = cnt[e] /\ odp'[e] = odp[e]
    BY <1>2
  <2> HIDE DEF nU, nS, nF
  <2>3. odp[e] = at'[e].user + at'[e].queue + at'[e].aggregator + at'[e].vector
                  + at'[e].marksend + at'[e].markfree + nU
    BY <1>4, <1>5, <2>1
  <2>4. /\ cnt[e].ref = odp[e] - at'[e].markfree - nF
        /\ cnt[e].send = at'[e].queue + at'[e].aggregator + at'[e].marksend + nS
    BY <1>4, <1>5, <2>1
  <2> QED BY <2>2, <2>3, <2>4 DEF CountOK
<1>7. TypeInv' BY <1>1, <1>2, <1>3 DEF TypeInv
<1>8. Fresh(e)' <=> Fresh(e) BY <1>2, <1>4, <1>5 DEF Fresh
<1>9. GenOK(e)'
  <2>1. GenOK(e) BY <1>1 DEF EventOK
  <2> QED BY <1>2, <1>8, <2>1 DEF GenOK
<1>10. LowOK(e)' BY <1>1, <1>2 DEF EventOK, LowOK
<1>11. FlagOK(e)' BY <1>1, <1>2, <1>5 DEF EventOK, FlagOK
<1>12. GenNow(e)' = GenNow(e) BY <1>2, <1>5 DEF GenNow
<1>13. StaleOK(e)' BY <1>1, <1>2, <1>12 DEF EventOK, StaleOK
<1>14. \A f \in Events \ {e} : EventSame(f) BY <1>2, <1>3 DEF EventSame
<1>15. ~alarm' BY <1>2 DEF IInv
<1> QED BY <1>2, <1>6, <1>7, <1>9, <1>10, <1>11, <1>13, <1>14, <1>15, OneEventStep

\* The application sends a vector that holds the event.
LEMMA SendVectorStep ==
  ASSUME Regular, IInv, NEW e \in Events, SendVector(e)
  PROVE  IInv'
<1>1. ~refs[e] BY DEF SendVector, Regular, IInv, TypeInv
<1>2. Carries(e, "user", "vector") BY <1>1 DEF SendVector, Carries
<1> QED BY <1>2, CarriesStep

\* The vector is dispatched: the event is not taken for an aggregated one.
LEMMA DispatchVectorStep ==
  ASSUME IInv, NEW e \in Events, DispatchVector(e)
  PROVE  IInv'
<1>1. at[e]["vector"] > 0 BY DEF DispatchVector
<1>2. at[e]["vector"] \in Nat BY AtIs DEF IInv
<1>3. ~refs[e]
  <2>1. at[e].vector # 0 BY <1>1, <1>2
  <2> QED BY <2>1 DEF IInv, EventOK, FlagOK
<1>4. aggr[e] = FALSE BY <1>1, <1>3, NotFlagged DEF Places
<1>5. Carries(e, "vector", "user") BY <1>1, <1>3, <1>4 DEF DispatchVector, AggrInner, Carries
<1> QED BY <1>5, CarriesStep

-----------------------------------------------------------------------------
(* Steps of the calls *)

\* An event without references that is in the call of core c.
LEMMA OneHolderIs ==
  ASSUME IInv, NEW e \in Events, ~refs[e], NEW c \in Cores, Holds(call[c], e)
  PROVE  odp[e] = 1 /\ NoPlace(e) /\ \A d \in Cores \ {c} : Apart(call[d], e)
<1>1. TypeInv /\ CallInv /\ CountOK(e) /\ odp[e] <= 1 BY DEF IInv, EventOK, GenOK
<1> QED BY <1>1, Sole

\* One event e is used by a step of core c in its call, the others of the call are not.
LEMMA OneCallStep ==
  ASSUME IInv, NEW c \in Cores, NEW n, CallOK(n), call' = [call EXCEPT ![c] = n],
         NEW e \in Events, \A f \in Events \ {e} : EventSame(f) /\ Alike(call[c], n, f),
         TypeInv', ~alarm', CountOK(e)', GenOK(e)', LowOK(e)', FlagOK(e)', StaleOK(e)'
  PROVE  IInv'
<1>1. TypeInv /\ CallInv BY DEF IInv
<1>2. CallInv' BY <1>1, CallStep
<1>3. \A f \in Events \ {e} : EventOK(f)' BY <1>1, CallStep DEF IInv
<1>4. EventOK(e)' BY DEF EventOK
<1> QED BY <1>2, <1>3, <1>4 DEF IInv

\* References at all places, and those of them that count as sent.
Spread(k) == k.user + k.queue + k.aggregator + k.vector + k.marksend + k.markfree
OnWay(k)  == k.queue + k.aggregator + k.marksend

\* The counters of an event change as where its references are.
Counts(e, c) ==
  /\ odp'[e] - odp[e] = Spread(at'[e]) - Spread(at[e])
                          + (One(Holds(call'[c], e)) - One(Holds(call[c], e)))
  /\ cnt'[e].ref - cnt[e].ref = odp'[e] - odp[e] - (at'[e].markfree - at[e].markfree)
                                  - (One(Frees(call'[c], e)) - One(Frees(call[c], e)))
  /\ cnt'[e].send - cnt[e].send = OnWay(at'[e]) - OnWay(at[e])
                                    + (One(Sends(call'[c], e)) - One(Sends(call[c], e)))

\* The counters of an event that core c uses in a step of its call.
LEMMA CountStep ==
  ASSUME TypeInv, NEW e \in Events, CountOK(e), at' \in [Events -> [Places -> Nat]],
         cnt' \in [Events -> [evgen : Int, ref : Int, send : Int]], odp'[e] \in Int,
         NEW c \in Cores, \A d \in Cores \ {c} : call'[d] = call[d], Counts(e, c)
  PROVE  CountOK(e)'
<1>1. PICK u, s, f, u2, s2, f2, k, k2, hu, hs, hf :
        /\ u = Cardinality(Users(call, e)) /\ u2 = Cardinality(Users(call', e))
        /\ s = Cardinality(Senders(call, e)) /\ s2 = Cardinality(Senders(call', e))
        /\ f = Cardinality(Freers(call, e)) /\ f2 = Cardinality(Freers(call', e))
        /\ k = at[e] /\ k2 = at'[e]
        /\ hu = One(Holds(call'[c], e)) - One(Holds(call[c], e))
        /\ hs = One(Sends(call'[c], e)) - One(Sends(call[c], e))
        /\ hf = One(Frees(call'[c], e)) - One(Frees(call[c], e))
  OBVIOUS
<1>2. /\ u \in Nat /\ s \in Nat /\ f \in Nat /\ u2 \in Nat /\ s2 \in Nat /\ f2 \in Nat
  BY <1>1, HoldersIs
<1>3. \A b : One(b) \in Int BY DEF One
<1>4. hu \in Int /\ hs \in Int /\ hf \in Int BY <1>1, <1>3
<1>5. u2 = u + hu /\ s2 = s + hs /\ f2 = f + hf
  <2>1. PICK K, L : K = call /\ L = call' OBVIOUS
  <2>2. \A d \in Cores \ {c} : L[d] = K[d] BY <2>1
  <2>3. /\ Cardinality(Users(L, e)) =
             Cardinality(Users(K, e)) + One(Holds(L[c], e)) - One(Holds(K[c], e))
        /\ Cardinality(Senders(L, e)) =
             Cardinality(Senders(K, e)) + One(Sends(L[c], e)) - One(Sends(K[c], e))
        /\ Cardinality(Freers(L, e)) =
             Cardinality(Freers(K, e)) + One(Frees(L[c], e)) - One(Frees(K[c], e))
    BY <2>2, HoldersStep
  <2>4. /\ u2 = u + One(Holds(L[c], e)) - One(Holds(K[c], e))
        /\ s2 = s + One(Sends(L[c], e)) - One(Sends(K[c], e))
        /\ f2 = f + One(Frees(L[c], e)) - One(Frees(K[c], e))
    BY <1>1, <2>1, <2>3
  <2>5. /\ hu = One(Holds(L[c], e)) - One(Holds(K[c], e))
        /\ hs = One(Sends(L[c], e)) - One(Sends(K[c], e))
        /\ hf = One(Frees(L[c], e)) - One(Frees(K[c], e))
    BY <1>1, <2>1
  <2> QED BY <1>2, <1>3, <2>4, <2>5
<1>6. k \in [Places -> Nat] /\ k2 \in [Places -> Nat] BY <1>1 DEF TypeInv
<1>7. /\ k.user \in Nat /\ k.queue \in Nat /\ k.aggregator \in Nat
      /\ k.vector \in Nat /\ k.marksend \in Nat /\ k.markfree \in Nat
      /\ k2.user \in Nat /\ k2.queue \in Nat /\ k2.aggregator \in Nat
      /\ k2.vector \in Nat /\ k2.marksend \in Nat /\ k2.markfree \in Nat
  BY <1>6 DEF Places
<1>8. /\ cnt[e].ref \in Int /\ cnt[e].send \in Int /\ odp[e] \in Int
      /\ cnt'[e].ref \in Int /\ cnt'[e].send \in Int /\ odp'[e] \in Int
  BY AtIs
<1>9. Spread(k) \in Int /\ Spread(k2) \in Int /\ OnWay(k) \in Int /\ OnWay(k2) \in Int
  BY <1>7 DEF Spread, OnWay
<1>10. /\ odp[e] = Spread(k) + u
       /\ cnt[e].ref = odp[e] - k.markfree - f
       /\ cnt[e].send = OnWay(k) + s
  BY <1>1 DEF CountOK, Spread, OnWay
<1>11. PICK o, o2, w, w2, z, z2, m, m2, x, x2, y, y2 :
         /\ o = odp[e] /\ o2 = odp'[e] /\ w = cnt[e].ref /\ w2 = cnt'[e].ref
         /\ z = cnt[e].send /\ z2 = cnt'[e].send /\ m = k.markfree /\ m2 = k2.markfree
         /\ x = Spread(k) /\ x2 = Spread(k2) /\ y = OnWay(k) /\ y2 = OnWay(k2)
  OBVIOUS
<1>12. /\ o \in Int /\ o2 \in Int /\ w \in Int /\ w2 \in Int /\ z \in Int /\ z2 \in Int
       /\ m \in Int /\ m2 \in Int /\ x \in Int /\ x2 \in Int /\ y \in Int /\ y2 \in Int
  BY <1>7, <1>8, <1>9, <1>11
<1>13. o = x + u /\ w = o - m - f /\ z = y + s BY <1>10, <1>11
<1>14. o2 - o = x2 - x + hu /\ w2 - w = o2 - o - (m2 - m) - hf /\ z2 - z = y2 - y + hs
  BY <1>1, <1>11 DEF Counts
<1>15. o2 = x2 + u2 /\ w2 = o2 - m2 - f2 /\ z2 = y2 + s2
  <2>1. o2 = x2 + u2
    <3>1. o = x + u /\ o2 - o = x2 - x + hu /\ u2 = u + hu BY <1>5, <1>13, <1>14
    <3>2. o \in Int /\ o2 \in Int /\ x \in Int /\ x2 \in Int /\ u \in Int /\ hu \in Int
      BY <1>2, <1>4, <1>12
    <3> QED BY <3>1, <3>2
  <2>2. w2 = o2 - m2 - f2
    <3>1. w = o - m - f /\ w2 - w = o2 - o - (m2 - m) - hf /\ f2 = f + hf BY <1>5, <1>13, <1>14
    <3>2. /\ o \in Int /\ o2 \in Int /\ w \in Int /\ w2 \in Int /\ m \in Int /\ m2 \in Int
          /\ f \in Int /\ hf \in Int
      BY <1>2, <1>4, <1>12
    <3> QED BY <3>1, <3>2
  <2>3. z2 = y2 + s2
    <3>1. z = y + s /\ z2 - z = y2 - y + hs /\ s2 = s + hs BY <1>5, <1>13, <1>14
    <3>2. z \in Int /\ z2 \in Int /\ y \in Int /\ y2 \in Int /\ s \in Int /\ hs \in Int
      BY <1>2, <1>4, <1>12
    <3> QED BY <3>1, <3>2
  <2> QED BY <2>1, <2>2, <2>3
<1> QED BY <1>1, <1>11, <1>15 DEF CountOK, Spread, OnWay

\* The atomic add of a send or free.
LEMMA Usr2emStep ==
  ASSUME IInv, NEW c \in Cores, Usr2em(c)
  PROVE  IInv'
<1>0. PICK r, e, w, n :
        /\ r = call[c] /\ e = r.es[r.i] /\ w = Adds(r.kind, cnt[e])
        /\ n = IF Wraps(w) THEN [r EXCEPT !.pc = "wrap"] ELSE NextPc(r)
  OBVIOUS
<1>1. /\ r.pc = "add" /\ w.evgen < Width /\ cnt' = [cnt EXCEPT ![e] = w]
      /\ alarm' = BadUsr2em(Usr2emSeen(w), hdl[e], refs[e])
      /\ op' = [op EXCEPT ![e] = IF refs[e] THEN @
                                 ELSE IF r.kind \in {"marksend", "markfree"} THEN r.kind
                                 ELSE "other"]
      /\ call' = [call EXCEPT ![c] = n]
      /\ UNCHANGED <<refs, aggr, hdl, odp, at, stale>>
  BY <1>0 DEF Usr2em
<1>2. TypeInv /\ CallInv /\ CallOK(r) BY <1>0 DEF IInv, CallInv
<1>3. e \in Events /\ r.kind \in Kinds BY <1>0, <1>1, <1>2, InCall
<1>4. EventOK(e) BY <1>3 DEF IInv
<1>5. n.pc = "wrap" <=> Wraps(w)
  <2>1. NextPc(r).pc # "wrap"
    <3>1. r = [pc |-> r.pc, kind |-> r.kind, es |-> r.es, i |-> r.i] BY <1>1, <1>2, InCall
    <3> QED BY <3>1 DEF NextPc
  <2>2. [r EXCEPT !.pc = "wrap"].pc = "wrap"
    <3>1. r = [pc |-> r.pc, kind |-> r.kind, es |-> r.es, i |-> r.i] BY <1>1, <1>2, InCall
    <3> QED BY <3>1
  <2> QED BY <1>0, <2>1, <2>2
<1>6. /\ CallOK(n) /\ n.kind = r.kind
      /\ Before(r, e) /\ ~After(r, e) /\ ~AtWrap(r, e) /\ ~AtUnwrap(r, e)
      /\ ~Before(n, e) /\ After(n, e) /\ ~AtUnwrap(n, e) /\ ~Enqueues(n, e)
      /\ AtWrap(n, e) <=> Wraps(w)
      /\ \A f \in Events \ {e} : Alike(r, n, f)
  <2>1. n \in {NextPc(r), [r EXCEPT !.pc = "wrap"]} BY <1>0
  <2> QED BY <1>0, <1>1, <1>2, <1>5, <2>1, AddedIs
<1>7. /\ call'[c] = n /\ \A d \in Cores \ {c} : call'[d] = call[d]
  BY <1>1, <1>2, <1>6, CallStep
<1>8. /\ cnt[e].evgen \in Int /\ cnt[e].ref \in Int /\ cnt[e].send \in Int
      /\ hdl[e] \in EVGEN_INIT..(EVGEN_MAX - 1) /\ odp[e] \in Int
  BY <1>2, <1>3, AtIs
<1>9. /\ at[e].user \in Nat /\ at[e].queue \in Nat /\ at[e].aggregator \in Nat
      /\ at[e].vector \in Nat /\ at[e].marksend \in Nat /\ at[e].markfree \in Nat
  BY <1>2, <1>3, AtIs
<1>10. /\ w \in [evgen : Int, ref : Int, send : Int] /\ w.evgen = cnt[e].evgen + 1
       /\ r.kind \in {"free", "markfree"} => w.ref = cnt[e].ref - 1 /\ w.send = cnt[e].send
       /\ r.kind \notin {"free", "markfree"} => w.ref = cnt[e].ref /\ w.send = cnt[e].send + 1
  <2>1. CASE r.kind \in {"free", "markfree"}
    <3>1. w = [evgen |-> cnt[e].evgen + 1, ref |-> cnt[e].ref + (-1), send |-> cnt[e].send + 0]
      BY <1>0, <2>1 DEF Adds, FreeAdd, Plus
    <3> QED BY <1>8, <2>1, <3>1
  <2>2. CASE r.kind \notin {"free", "markfree"}
    <3>1. w = [evgen |-> cnt[e].evgen + 1, ref |-> cnt[e].ref + 0, send |-> cnt[e].send + 1]
      BY <1>0, <2>2 DEF Adds, SendAdd, Plus
    <3> QED BY <1>8, <2>2, <3>1
  <2> QED BY <2>1, <2>2
<1>11. cnt' \in [Events -> [evgen : Int, ref : Int, send : Int]] /\ cnt'[e] = w
  BY <1>1, <1>2, <1>3, <1>10 DEF TypeInv
<1>12. cnt[e].evgen >= 1 BY <1>4, <1>8, EsvAssumption DEF EventOK, LowOK
<1>13. Wraps(w) <=> w.evgen = EVGEN_MAX BY <1>1, <1>8, <1>10, <1>12, WrapsIs
<1>14. CountOK(e)'
  <2>1. One(Holds(n, e)) = 1 /\ One(Holds(r, e)) = 1 BY <1>6 DEF Holds, One
  <2>2. One(Sends(r, e)) = 0 /\ One(Frees(r, e)) = 0 BY <1>6 DEF Sends, Frees, One
  <2>3. /\ odp'[e] = odp[e] /\ at'[e] = at[e] BY <1>1
  <2>4. Spread(at[e]) \in Int /\ OnWay(at[e]) \in Int BY <1>9 DEF Spread, OnWay
  <2>5. /\ w.ref - cnt[e].ref = 0 - (One(Frees(n, e)) - 0)
        /\ w.send - cnt[e].send = One(Sends(n, e)) - 0
    <3>1. CASE r.kind \in {"free", "markfree"}
      <4>1. One(Sends(n, e)) = 0 /\ One(Frees(n, e)) = 1
        BY <1>6, <3>1 DEF Sends, Frees, One, SendKinds, FreeKinds
      <4>2. w.ref = cnt[e].ref - 1 /\ w.send = cnt[e].send BY <1>10, <3>1
      <4> QED BY <1>8, <4>1, <4>2
    <3>2. CASE r.kind \notin {"free", "markfree"}
      <4>1. One(Sends(n, e)) = 1 /\ One(Frees(n, e)) = 0
        BY <1>3, <1>6, <3>2 DEF Sends, Frees, One, SendKinds, FreeKinds, Kinds
      <4>2. w.ref = cnt[e].ref /\ w.send = cnt[e].send + 1 BY <1>10, <3>2
      <4> QED BY <1>8, <4>1, <4>2
    <3> QED BY <3>1, <3>2
  <2>6. odp'[e] - odp[e] = Spread(at'[e]) - Spread(at[e]) + (1 - 1) BY <1>8, <2>3, <2>4
  <2>7. cnt'[e].ref - cnt[e].ref = odp'[e] - odp[e] - (at'[e].markfree - at[e].markfree)
                                    - (One(Frees(n, e)) - 0)
    <3>1. odp'[e] - odp[e] - (at'[e].markfree - at[e].markfree) = 0 BY <1>8, <1>9, <2>3
    <3> QED BY <1>11, <2>5, <3>1
  <2>8. cnt'[e].send - cnt[e].send = OnWay(at'[e]) - OnWay(at[e]) + (One(Sends(n, e)) - 0)
    <3>1. OnWay(at'[e]) - OnWay(at[e]) = 0 BY <2>3, <2>4
    <3>2. One(Sends(n, e)) \in Int BY DEF One
    <3> QED BY <1>11, <2>5, <3>1, <3>2
  <2>9. Counts(e, c) BY ZenonT(40), <1>0, <1>7, <2>1, <2>2, <2>6, <2>7, <2>8 DEF Counts
  <2>10. at' \in [Events -> [Places -> Nat]] /\ odp'[e] \in Int BY <1>1, <1>2, <1>8 DEF TypeInv
  <2> QED BY <1>2, <1>3, <1>4, <1>7, <1>11, <2>9, <2>10, CountStep DEF EventOK
<1>15. ASSUME ~refs[e]
       PROVE  /\ odp[e] = 1 /\ NoPlace(e) /\ \A d \in Cores \ {c} : Apart(call'[d], e)
              /\ cnt[e].evgen = hdl[e]
  <2>1. Holds(r, e) BY <1>6 DEF Holds
  <2>2. odp[e] = 1 /\ NoPlace(e) /\ \A d \in Cores \ {c} : Apart(call[d], e)
    BY <1>0, <1>3, <1>15, <2>1, OneHolderIs
  <2>3. Fresh(e) BY <1>0, <1>6 DEF Fresh
  <2>4. cnt[e].evgen = hdl[e] BY <1>4, <1>15, <2>3 DEF EventOK, GenOK
  <2> QED BY <1>7, <2>2, <2>4
<1>16. ~alarm'
  <2>1. at' \in [Events -> [Places -> Nat]] BY <1>1, <1>2 DEF TypeInv
  <2>2. /\ w.send >= 0 /\ w.ref >= w.send + at'[e].user + at'[e].vector
    BY <1>3, <1>11, <1>14, <2>1, CoveredNext
  <2>3. at'[e] = at[e] BY <1>1
  <2>4. w.ref >= w.send BY <1>9, <1>10, <2>2, <2>3
  <2>5. Word(w).ref = w.ref /\ Word(w).send = w.send /\ Word(w).evgen = w.evgen
    BY <1>1, <1>8, <1>10, <1>12, WordIs
  <2>6. /\ Usr2emSeen(w).ref = w.ref /\ Usr2emSeen(w).send = w.send
        /\ Usr2emSeen(w).evgen = cnt[e].evgen
    <3>1. Word(w) = [evgen |-> w.evgen, ref |-> w.ref, send |-> w.send] BY <2>5 DEF Word
    <3>2. w.evgen - 1 = cnt[e].evgen BY <1>8, <1>10
    <3> QED BY <3>1, <3>2 DEF Usr2emSeen
  <2>7. ~BadUsr2em(Usr2emSeen(w), hdl[e], refs[e])
    BY <1>10, <1>15, <2>2, <2>4, <2>6 DEF BadUsr2em
  <2> QED BY <1>1, <2>7
<1>17. op' \in [Events -> {"other", "marksend", "markfree"}]
       /\ (~refs[e] => op'[e] = IF r.kind \in {"marksend", "markfree"} THEN r.kind ELSE "other")
  BY <1>1, <1>2, <1>3 DEF TypeInv
<1>18. DOMAIN call' = Cores BY <1>1, <1>2 DEF TypeInv
<1>19. TypeInv' BY <1>1, <1>2, <1>11, <1>17, <1>18 DEF TypeInv
<1>20. GenOK(e)'
  <2>1. CASE refs[e] BY <1>1, <2>1 DEF GenOK
  <2>2. CASE ~refs[e]
    <3>1. at'[e].user = 0 /\ at'[e].vector = 0 /\ odp'[e] = 1
      BY <1>1, <1>15, <2>2 DEF NoPlace
    <3>2. \A d \in Cores : ~Before(call'[d], e) /\ ~AtUnwrap(call'[d], e)
      BY <1>6, <1>7, <1>15, <2>2 DEF Apart
    <3>3. ~Fresh(e)' BY <3>1, <3>2 DEF Fresh
    <3>4. \A d \in Cores : AtWrap(call'[d], e) <=> d = c /\ Wraps(w)
      BY <1>6, <1>7, <1>15, <2>2 DEF Apart
    <3>5. CASE Wraps(w)
      <4>1. cnt'[e].evgen = EVGEN_MAX /\ hdl'[e] = EVGEN_MAX - 1
        BY <1>1, <1>8, <1>10, <1>11, <1>13, <1>15, <2>2, <3>5
      <4>2. \E d \in Cores : AtWrap(call'[d], e) BY <3>4, <3>5
      <4> QED BY <3>1, <3>2, <3>3, <4>1, <4>2 DEF GenOK
    <3>6. CASE ~Wraps(w)
      <4>1. hdl[e] + 1 # EVGEN_MAX BY <1>10, <1>13, <1>15, <2>2, <3>6
      <4>2. cnt'[e].evgen = NextGen(hdl'[e])
        BY <1>1, <1>8, <1>10, <1>11, <1>15, <2>2, <4>1, EsvAssumption DEF NextGen
      <4> QED BY <3>1, <3>2, <3>3, <3>4, <3>6, <4>2 DEF GenOK
    <3> QED BY <3>5, <3>6
  <2> QED BY <2>1, <2>2
<1>21. LowOK(e)'
  <2>1. LowOK(e) BY <1>4 DEF EventOK
  <2>2. cnt'[e].evgen >= EVGEN_INIT - 1 /\ cnt'[e].evgen >= EVGEN_INIT
    BY <1>8, <1>10, <1>11, <2>1, EsvAssumption DEF LowOK
  <2>3. \A d \in Cores : AtUnwrap(call'[d], e) => AtUnwrap(call[d], e) /\ d # c BY <1>6, <1>7
  <2>4. \A d \in Cores : AtWrap(call'[d], e) => \/ d = c /\ Wraps(w)
                                                \/ d # c /\ AtWrap(call[d], e)
    BY <1>6, <1>7
  <2>5. Wraps(w) => \A d \in Cores : ~AtWrap(call[d], e)
    BY <1>8, <1>10, <1>13, <2>1, EsvAssumption DEF LowOK
  <2>6. \A d \in Cores : AtWrap(call'[d], e) => cnt'[e].evgen >= EVGEN_MAX
    BY <1>8, <1>10, <1>11, <1>13, <2>1, <2>4, EsvAssumption DEF LowOK
  <2>7. \A d, b \in Cores : AtWrap(call'[d], e) /\ AtWrap(call'[b], e) => d = b
    BY <2>1, <2>4, <2>5 DEF LowOK
  <2>8. \A d, b \in Cores : AtUnwrap(call'[d], e) /\ AtUnwrap(call'[b], e) => d = b
    BY <2>1, <2>3 DEF LowOK
  <2> QED BY <2>2, <2>6, <2>7, <2>8 DEF LowOK
<1>22. FlagOK(e)'
  <2>1. CASE refs[e]
    <3>1. ~aggr'[e] /\ at'[e].vector = 0 BY <1>1, <1>4, <2>1 DEF EventOK, FlagOK
    <3>2. refs'[e] BY <1>1, <2>1
    <3> QED BY <3>1, <3>2 DEF FlagOK
  <2>2. CASE ~refs[e]
    <3>1. at'[e].aggregator = 0 /\ at'[e].marksend = 0 /\ at'[e].markfree = 0
      BY <1>1, <1>15, <2>2 DEF NoPlace
    <3>2. \A d \in Cores : ~Enqueues(call'[d], e) BY <1>6, <1>7, <1>15, <2>2 DEF Apart
    <3>3. aggr'[e] = FALSE
      <4>1. \A d \in Cores : ~Enqueues(call[d], e)
        BY <1>0, <1>1, <1>6, <1>7, <1>15, <2>2 DEF Apart, Enqueues
      <4>2. aggr[e] \in BOOLEAN BY <1>2, <1>3 DEF TypeInv
      <4> QED BY <1>1, <1>4, <2>2, <3>1, <4>1, <4>2 DEF EventOK, FlagOK
    <3>4. \A d \in Cores : After(call'[d], e) => d = c BY <1>7, <1>15, <2>2 DEF Apart
    <3>5. n.kind \in {"marksend", "markfree"} => op'[e] = n.kind BY <1>6, <1>17, <2>2
    <3>6. ~refs'[e] BY <1>1, <2>2
    <3>7. aggr'[e] <=> at'[e].aggregator > 0 \/ \E d \in Cores : Enqueues(call'[d], e)
      BY <3>1, <3>2, <3>3
    <3>8. \A d \in Cores : After(call'[d], e) /\ call'[d].kind \in {"marksend", "markfree"}
                             => op'[e] = call'[d].kind
      BY <1>7, <3>4, <3>5
    <3>9. ~(at'[e].marksend > 0) /\ ~(at'[e].markfree > 0) BY <3>1
    <3> QED BY <3>6, <3>7, <3>8, <3>9 DEF FlagOK
  <2> QED BY <2>1, <2>2
<1>23. StaleOK(e)'
  <2>1. GenNow(e)' = GenNow(e) BY <1>1 DEF GenNow
  <2> QED BY <1>1, <1>4, <2>1 DEF EventOK, StaleOK
<1>24. \A f \in Events \ {e} : EventSame(f) BY <1>1, <1>2 DEF EventSame, TypeInv
<1> QED BY <1>0, <1>1, <1>3, <1>6, <1>14, <1>16, <1>19, <1>20, <1>21, <1>22, <1>23, <1>24,
           OneCallStep

\* ... and back to the first generation.
LEMMA WrapStep ==
  ASSUME IInv, NEW c \in Cores, Wrap(c)
  PROVE  IInv'
<1>0. PICK r, e, w, n : /\ r = call[c] /\ e = r.es[r.i] /\ w = Plus(cnt[e], -Period, 0, 0)
                        /\ n = NextPc(r)
  OBVIOUS
<1>1. /\ r.pc = "wrap" /\ cnt' = [cnt EXCEPT ![e] = w] /\ call' = [call EXCEPT ![c] = n]
      /\ UNCHANGED <<refs, aggr, hdl, op, odp, at, stale, alarm>>
  BY <1>0 DEF Wrap
<1>2. TypeInv /\ CallInv /\ CallOK(r) BY <1>0 DEF IInv, CallInv
<1>3. e \in Events BY <1>0, <1>1, <1>2, InCall
<1>4. EventOK(e) BY <1>3 DEF IInv
<1>5. /\ CallOK(n) /\ n.kind = r.kind
      /\ ~Before(r, e) /\ After(r, e) /\ AtWrap(r, e) /\ ~AtUnwrap(r, e) /\ ~Enqueues(r, e)
      /\ ~Before(n, e) /\ After(n, e) /\ ~AtWrap(n, e) /\ ~AtUnwrap(n, e) /\ ~Enqueues(n, e)
      /\ \A f \in Events \ {e} : Alike(r, n, f)
  BY <1>0, <1>1, <1>2, WrappedIs
<1>6. call'[c] = n /\ \A d \in Cores \ {c} : call'[d] = call[d] BY <1>1, <1>2, <1>5, CallStep
<1>7. /\ cnt[e].evgen \in Int /\ cnt[e].ref \in Int /\ cnt[e].send \in Int
      /\ hdl[e] \in EVGEN_INIT..(EVGEN_MAX - 1) /\ Period \in Int
  BY <1>2, <1>3, AtIs, EsvAssumption DEF Period
<1>8. /\ w \in [evgen : Int, ref : Int, send : Int] /\ w.evgen = cnt[e].evgen - Period
      /\ w.ref = cnt[e].ref /\ w.send = cnt[e].send
  <2>1. w = [evgen |-> cnt[e].evgen + (-Period), ref |-> cnt[e].ref + 0, send |-> cnt[e].send + 0]
    BY <1>0 DEF Plus
  <2> QED BY <1>7, <2>1
<1>9. cnt' \in [Events -> [evgen : Int, ref : Int, send : Int]] /\ cnt'[e] = w
  BY <1>1, <1>2, <1>3, <1>8 DEF TypeInv
<1>10. \A d \in Cores : /\ Before(call'[d], e) <=> Before(call[d], e)
                        /\ After(call'[d], e) <=> After(call[d], e)
                        /\ AtWrap(call'[d], e) <=> AtWrap(call[d], e) /\ d # c
                        /\ AtUnwrap(call'[d], e) <=> AtUnwrap(call[d], e)
                        /\ Enqueues(call'[d], e) <=> Enqueues(call[d], e)
                        /\ call'[d].kind = call[d].kind
  BY <1>0, <1>5, <1>6
<1>11. CountOK(e)'
  <2>1. /\ Users(call', e) = Users(call, e) /\ Senders(call', e) = Senders(call, e)
        /\ Freers(call', e) = Freers(call, e)
    BY <1>10 DEF Users, Senders, Freers, Holds, Sends, Frees
  <2>2. CountOK(e) BY <1>4 DEF EventOK
  <2> QED BY <1>1, <1>8, <1>9, <2>1, <2>2 DEF CountOK
<1>12. TypeInv'
  <2>1. DOMAIN call' = Cores BY <1>1, <1>2 DEF TypeInv
  <2> QED BY <1>1, <1>2, <1>9, <2>1 DEF TypeInv
<1>13. Fresh(e)' <=> Fresh(e) BY <1>1, <1>10 DEF Fresh
<1>14. GenOK(e)'
  <2>1. CASE refs[e] BY <1>1, <2>1 DEF GenOK
  <2>2. CASE ~refs[e]
    <3>1. /\ cnt[e].evgen = EVGEN_MAX /\ hdl[e] = EVGEN_MAX - 1 /\ odp[e] <= 1
      BY <1>0, <1>4, <1>5, <2>2 DEF EventOK, GenOK
    <3>2. /\ NoPlace(e) /\ \A d \in Cores \ {c} : Apart(call[d], e)
      BY <1>0, <1>3, <1>5, <2>2, OneHolderIs DEF Holds
    <3>3. at'[e].user = 0 /\ at'[e].vector = 0 BY <1>1, <3>2 DEF NoPlace
    <3>4. \A d \in Cores : ~Before(call'[d], e) /\ ~AtWrap(call'[d], e) /\ ~AtUnwrap(call'[d], e)
      BY <1>5, <1>6, <3>2 DEF Apart
    <3>5. ~Fresh(e)' BY <3>3, <3>4 DEF Fresh
    <3>6. cnt'[e].evgen = EVGEN_INIT /\ NextGen(hdl'[e]) = EVGEN_INIT
      BY <1>1, <1>8, <1>9, <3>1, EsvAssumption DEF NextGen, Period
    <3> QED BY <1>1, <3>1, <3>4, <3>5, <3>6 DEF GenOK
  <2> QED BY <2>1, <2>2
<1>15. LowOK(e)'
  <2>1. LowOK(e) BY <1>4 DEF EventOK
  <2>2. cnt[e].evgen >= EVGEN_MAX /\ \A d \in Cores : AtWrap(call[d], e) => d = c
    BY <1>0, <1>5, <2>1 DEF LowOK
  <2>3. cnt'[e].evgen >= EVGEN_INIT - 1 /\ cnt'[e].evgen >= EVGEN_INIT
    BY <1>7, <1>8, <1>9, <2>2, EsvAssumption DEF Period
  <2>4. \A d \in Cores : ~AtWrap(call'[d], e) BY <1>10, <2>2
  <2>5. \A d, b \in Cores : AtUnwrap(call'[d], e) /\ AtUnwrap(call'[b], e) => d = b
    BY <1>10, <2>1 DEF LowOK
  <2> QED BY <2>3, <2>4, <2>5 DEF LowOK
<1>16. FlagOK(e)'
  <2>1. FlagOK(e) BY <1>4 DEF EventOK
  <2> QED BY <1>1, <1>10, <2>1 DEF FlagOK
<1>17. StaleOK(e)'
  <2>1. GenNow(e)' = GenNow(e) BY <1>1 DEF GenNow
  <2> QED BY <1>1, <1>4, <2>1 DEF EventOK, StaleOK
<1>18. \A f \in Events \ {e} : EventSame(f) BY <1>1, <1>2 DEF EventSame, TypeInv
<1>19. ~alarm' BY <1>1 DEF IInv
<1> QED BY <1>0, <1>1, <1>3, <1>5, <1>11, <1>12, <1>14, <1>15, <1>16, <1>17, <1>18, <1>19,
           OneCallStep

\* An event that core c holds in its call.
LEMMA HeldIs ==
  ASSUME IInv, NEW e \in Events, NEW c \in Cores, Holds(call[c], e)
  PROVE  /\ odp[e] >= 1 /\ odp[e] \in Int
         /\ ~refs[e] => /\ odp[e] = 1 /\ NoPlace(e) /\ \A d \in Cores \ {c} : Apart(call[d], e)
                        /\ GenNow(e) = hdl[e]
                        /\ aggr[e] <=> Enqueues(call[c], e)
         /\ ~refs[e] /\ After(call[c], e) /\ ~AtWrap(call[c], e) => cnt[e].evgen = NextGen(hdl[e])
         /\ ~refs[e] /\ Before(call[c], e) => cnt[e].evgen = hdl[e]
<1>1. TypeInv /\ CallInv /\ EventOK(e) /\ CallOK(call[c]) BY DEF IInv, CallInv
<1>2. odp[e] >= 1 /\ odp[e] \in Int
  <2>1. PICK nU, nS, nF : /\ nU = Cardinality(Users(call, e)) /\ nS = Cardinality(Senders(call, e))
                          /\ nF = Cardinality(Freers(call, e))
    OBVIOUS
  <2>2. nU \in Nat /\ nU >= 1 BY <2>1, HoldersIs
  <2>3. odp[e] = at[e].user + at[e].queue + at[e].aggregator + at[e].vector + at[e].marksend
                  + at[e].markfree + nU
    BY <1>1, <2>1 DEF EventOK, CountOK
  <2>4. /\ at[e].user \in Nat /\ at[e].queue \in Nat /\ at[e].aggregator \in Nat
        /\ at[e].vector \in Nat /\ at[e].marksend \in Nat /\ at[e].markfree \in Nat
        /\ odp[e] \in Int
    BY <1>1, AtIs
  <2> QED BY <2>2, <2>3, <2>4
<1>3. ASSUME ~refs[e]
      PROVE  /\ odp[e] = 1 /\ NoPlace(e) /\ \A d \in Cores \ {c} : Apart(call[d], e)
  BY <1>3, OneHolderIs
<1>4. ASSUME ~refs[e] PROVE GenNow(e) = hdl[e]
  BY <1>3, <1>4 DEF GenNow, NoPlace
<1>5. ASSUME ~refs[e] PROVE aggr[e] <=> Enqueues(call[c], e)
  <2>1. at[e].aggregator = 0 /\ \A d \in Cores \ {c} : ~Enqueues(call[d], e)
    BY <1>3, <1>5 DEF NoPlace, Apart
  <2>2. ~(at[e].aggregator > 0) BY <2>1
  <2> QED BY <1>1, <1>5, <2>1, <2>2 DEF EventOK, FlagOK
<1>6. ASSUME ~refs[e], After(call[c], e), ~AtWrap(call[c], e) PROVE cnt[e].evgen = NextGen(hdl[e])
  <2>1. ~Before(call[c], e) /\ ~AtUnwrap(call[c], e) BY <1>1, <1>6, BetweenIs
  <2>2. \A d \in Cores : ~Before(call[d], e) /\ ~AtWrap(call[d], e) /\ ~AtUnwrap(call[d], e)
    BY <1>3, <1>6, <2>1 DEF Apart
  <2>3. at[e].user = 0 /\ at[e].vector = 0 BY <1>3, <1>6 DEF NoPlace
  <2>4. ~Fresh(e) BY <2>2, <2>3 DEF Fresh
  <2> QED BY <1>1, <1>6, <2>2, <2>4 DEF EventOK, GenOK
<1>7. ASSUME ~refs[e], Before(call[c], e) PROVE cnt[e].evgen = hdl[e]
  <2>1. Fresh(e) BY <1>7 DEF Fresh
  <2> QED BY <1>1, <1>7, <2>1 DEF EventOK, GenOK
<1> QED BY <1>2, <1>3, <1>4, <1>5, <1>6, <1>7

\* One event less, and the handle is given away for good.
LEMMA OdpFreeStep ==
  ASSUME IInv, NEW c \in Cores, OdpFree(c)
  PROVE  IInv'
<1>0. PICK r, e, n, s : /\ r = call[c] /\ e = r.es[r.i] /\ n = Following(r, "act")
                        /\ s = GaveAway(e)
  OBVIOUS
<1>1. /\ r.pc = "act" /\ r.kind = "free" /\ odp' = [odp EXCEPT ![e] = @ - 1]
      /\ stale' = [stale EXCEPT ![e] = s]
      /\ call' = [call EXCEPT ![c] = IF r.i < Len(r.es) THEN [r EXCEPT !.i = @ + 1] ELSE NoCall]
      /\ UNCHANGED <<cnt, refs, aggr, hdl, op, at, alarm>>
  BY <1>0 DEF OdpFree
<1>2. TypeInv /\ CallInv /\ CallOK(r) BY <1>0 DEF IInv, CallInv
<1>3. e \in Events BY <1>0, <1>1, <1>2, InCall
<1>4. EventOK(e) BY <1>3 DEF IInv
<1>5. /\ CallOK(n)
      /\ ~Before(r, e) /\ After(r, e) /\ ~AtWrap(r, e) /\ ~AtUnwrap(r, e) /\ ~Enqueues(r, e)
      /\ Apart(n, e)
      /\ \A f \in Events \ {e} : Alike(r, n, f)
  BY <1>0, <1>1, <1>2, LeavesIs DEF Apart
<1>6. call' = [call EXCEPT ![c] = n]
  <2>1. r = [pc |-> r.pc, kind |-> r.kind, es |-> r.es, i |-> r.i] BY <1>1, <1>2, InCall
  <2>2. [r EXCEPT !.i = @ + 1] = [pc |-> "act", kind |-> r.kind, es |-> r.es, i |-> r.i + 1]
    BY <1>1, <2>1
  <2> QED BY <1>0, <1>1, <2>2 DEF Following
<1>7. call'[c] = n /\ \A d \in Cores \ {c} : call'[d] = call[d] BY <1>2, <1>5, <1>6, CallStep
<1>8. Holds(call[c], e) BY <1>0, <1>5 DEF Holds
<1>9. /\ odp[e] >= 1 /\ odp[e] \in 0..MaxRefs /\ cnt[e].ref \in Int /\ cnt[e].send \in Int
      /\ at[e].markfree \in Nat /\ MaxRefs \in Nat
  BY <1>2, <1>3, <1>8, HeldIs, AtIs
<1>10. /\ DOMAIN stale' = Events /\ \A f \in Events \ {e} : stale'[f] = stale[f] /\ odp'[f] = odp[f]
       /\ stale'[e] = s /\ odp'[e] = odp[e] - 1
  BY <1>1, <1>2, <1>3 DEF TypeInv
<1>11. /\ s \in Seq(Int)
       /\ ~refs[e] /\ GenNow(e) = hdl[e] =>
            /\ Len(s) < Period
            /\ \A j \in 1..Len(s) : s[j] = GenBefore(NextGen(hdl[e]), Len(s) + 1 - j)
  <2>1. s = GaveAway(e) BY <1>0
  <2> QED BY <1>3, <2>1, GaveIs
<1>12. TypeInv'
  <2>1. odp[e] - 1 \in 0..MaxRefs BY <1>9
  <2>2. DOMAIN call' = Cores BY <1>2, <1>6 DEF TypeInv
  <2>3. odp' \in [Events -> 0..MaxRefs] BY <1>1, <1>2, <2>1 DEF TypeInv
  <2>4. \A f \in Events : stale'[f] \in Seq(Int) BY <1>2, <1>10, <1>11 DEF TypeInv
  <2> QED BY <1>1, <1>2, <1>10, <2>2, <2>3, <2>4 DEF TypeInv
<1>13. CountOK(e)'
  <2>1. One(Holds(n, e)) = 0 /\ One(Sends(n, e)) = 0 /\ One(Frees(n, e)) = 0
    BY <1>5, ApartIs DEF One
  <2>2. One(Holds(r, e)) = 1 /\ One(Sends(r, e)) = 0 /\ One(Frees(r, e)) = 1
    BY <1>1, <1>5 DEF Holds, Sends, Frees, SendKinds, FreeKinds, One
  <2>3. Spread(at[e]) \in Int /\ OnWay(at[e]) \in Int BY <1>2, <1>3, AtIs DEF Spread, OnWay
  <2>4. at'[e] = at[e] /\ cnt'[e] = cnt[e] BY <1>1
  <2>5. odp'[e] - odp[e] = 0 - 1 BY <1>9, <1>10
  <2>6. odp'[e] - odp[e] = Spread(at'[e]) - Spread(at[e]) + (0 - 1) BY <2>3, <2>4, <2>5
  <2>7. cnt'[e].ref - cnt[e].ref = odp'[e] - odp[e] - (at'[e].markfree - at[e].markfree) - (0 - 1)
    BY <1>9, <2>4, <2>5
  <2>8. cnt'[e].send - cnt[e].send = OnWay(at'[e]) - OnWay(at[e]) + (0 - 0) BY <1>9, <2>3, <2>4
  <2>9. Counts(e, c) BY SMTT(30), <1>0, <1>7, <2>1, <2>2, <2>6, <2>7, <2>8 DEF Counts
  <2>10. /\ at' \in [Events -> [Places -> Nat]] /\ odp'[e] \in Int
         /\ cnt' \in [Events -> [evgen : Int, ref : Int, send : Int]]
    BY <1>1, <1>2, <1>9, <1>10 DEF TypeInv
  <2> QED BY <1>2, <1>3, <1>4, <1>7, <2>9, <2>10, CountStep DEF EventOK
<1>14. \A d \in Cores : ~refs[e] => Apart(call'[d], e)
  BY <1>3, <1>5, <1>7, <1>8, HeldIs
<1>15. GenOK(e)'
  <2>1. CASE refs[e] BY <1>1, <2>1 DEF GenOK
  <2>2. CASE ~refs[e]
    <3>1. /\ odp[e] = 1 /\ NoPlace(e) /\ cnt[e].evgen = NextGen(hdl[e])
      BY <1>0, <1>3, <1>5, <1>8, <2>2, HeldIs
    <3>2. at'[e].user = 0 /\ at'[e].vector = 0 /\ odp'[e] = 0
      BY <1>1, <1>10, <3>1 DEF NoPlace
    <3>3. ~Fresh(e)' BY <1>14, <2>2, <3>2 DEF Fresh, Apart
    <3> QED BY <1>1, <1>14, <2>2, <3>1, <3>2, <3>3 DEF GenOK, Apart
  <2> QED BY <2>1, <2>2
<1>16. LowOK(e)'
  <2>1. \A d \in Cores : /\ AtWrap(call'[d], e) <=> AtWrap(call[d], e)
                         /\ AtUnwrap(call'[d], e) <=> AtUnwrap(call[d], e)
    BY <1>0, <1>5, <1>7 DEF Apart
  <2> QED BY <1>1, <1>4, <2>1 DEF EventOK, LowOK
<1>17. FlagOK(e)'
  <2>1. CASE refs[e] BY <1>1, <1>4, <2>1 DEF EventOK, FlagOK
  <2>2. CASE ~refs[e]
    <3>1. NoPlace(e) /\ ~aggr[e] BY <1>0, <1>3, <1>5, <1>8, <2>2, HeldIs
    <3>2. ~aggr'[e] /\ ~(at'[e].aggregator > 0) /\ ~(at'[e].marksend > 0) /\ ~(at'[e].markfree > 0)
      BY <1>1, <3>1 DEF NoPlace
    <3>3. \A d \in Cores : ~After(call'[d], e) /\ ~Enqueues(call'[d], e) BY <1>14, <2>2 DEF Apart
    <3> QED BY <1>1, <2>2, <3>2, <3>3 DEF FlagOK
  <2> QED BY <2>1, <2>2
<1>18. StaleOK(e)'
  <2>1. CASE refs[e] BY <1>1, <2>1 DEF StaleOK
  <2>2. CASE ~refs[e]
    <3>1. GenNow(e) = hdl[e] /\ odp[e] = 1 BY <1>0, <1>3, <1>8, <2>2, HeldIs
    <3>2. odp'[e] = 0 BY <1>10, <3>1
    <3>3. GenNow(e)' = NextGen(hdl[e]) BY <1>1, <3>2 DEF GenNow
    <3>4. /\ Len(s) < Period
          /\ \A j \in 1..Len(s) : s[j] = GenBefore(NextGen(hdl[e]), Len(s) + 1 - j)
      BY <1>11, <2>2, <3>1
    <3> QED BY <1>10, <3>3, <3>4 DEF StaleOK
  <2> QED BY <2>1, <2>2
<1>19. \A f \in Events \ {e} : EventSame(f) BY <1>1, <1>10 DEF EventSame
<1>20. ~alarm' BY <1>1 DEF IInv
<1> QED BY <1>0, <1>3, <1>5, <1>6, <1>12, <1>13, <1>15, <1>16, <1>17, <1>18, <1>19, <1>20,
           OneCallStep

\* The event is marked.
LEMMA MarkedStep ==
  ASSUME IInv, NEW c \in Cores, Marked(c)
  PROVE  IInv'
<1>0. PICK r, e, p : r = call[c] /\ e = r.es[1] /\ p = r.kind OBVIOUS
<1>1. /\ r.pc = "act" /\ p \in {"marksend", "markfree"}
      /\ at' = [at EXCEPT ![e][p] = @ + 1] /\ call' = [call EXCEPT ![c] = NoCall]
      /\ UNCHANGED <<cnt, refs, aggr, hdl, op, odp, stale, alarm>>
  BY <1>0 DEF Marked
<1>2. TypeInv /\ CallInv /\ CallOK(r) BY <1>0 DEF IInv, CallInv
<1>3. Count(r) = 1 /\ r.i = 1 /\ DOMAIN r.es = 1..1 /\ r.pc # "none"
  BY <1>0, <1>1, <1>2, InCall
<1>4. Range(r.es) = {e} BY <1>0, <1>3 DEF Range
<1>5. /\ e \in Events
      /\ \A f : /\ After(r, f) <=> f = e
                /\ ~Before(r, f) /\ ~AtWrap(r, f) /\ ~AtUnwrap(r, f) /\ ~Enqueues(r, f)
  BY <1>1, <1>2, <1>3, <1>4, ActsIs
<1>6. EventOK(e) BY <1>5 DEF IInv
<1>7. CallOK(NoCall) /\ \A f : Apart(NoCall, f) BY NoCallHolds DEF CallOK, Apart
<1>8. \A f \in Events \ {e} : Alike(r, NoCall, f) BY <1>5, <1>7 DEF Alike, Apart
<1>9. call'[c] = NoCall /\ \A d \in Cores \ {c} : call'[d] = call[d]
  BY <1>1, <1>2, <1>7, CallStep
<1>10. Holds(call[c], e) BY <1>0, <1>5 DEF Holds
<1>11. p \in Places BY <1>1 DEF Places
<1>12. /\ at' \in [Events -> [Places -> Nat]] /\ \A f \in Events \ {e} : at'[f] = at[f]
       /\ at'[e][p] = at[e][p] + 1 /\ \A q \in Places \ {p} : at'[e][q] = at[e][q]
  BY <1>1, <1>2, <1>5, <1>11, PutIs
<1>13. /\ at'[e].user = at[e].user /\ at'[e].queue = at[e].queue
       /\ at'[e].aggregator = at[e].aggregator /\ at'[e].vector = at[e].vector
  BY <1>1, <1>12 DEF Places
<1>14. \/ p = "marksend" /\ at'[e].marksend = at[e].marksend + 1 /\ at'[e].markfree = at[e].markfree
       \/ p = "markfree" /\ at'[e].marksend = at[e].marksend /\ at'[e].markfree = at[e].markfree + 1
  BY <1>1, <1>12 DEF Places
<1>15. /\ at[e].user \in Nat /\ at[e].queue \in Nat /\ at[e].aggregator \in Nat
       /\ at[e].vector \in Nat /\ at[e].marksend \in Nat /\ at[e].markfree \in Nat
       /\ odp[e] \in Int /\ cnt[e].ref \in Int /\ cnt[e].send \in Int
  BY <1>2, <1>5, AtIs
<1>16. CountOK(e)'
  <2>1. One(Holds(NoCall, e)) = 0 /\ One(Sends(NoCall, e)) = 0 /\ One(Frees(NoCall, e)) = 0
    BY NoCallHolds DEF One
  <2>2. One(Holds(r, e)) = 1 BY <1>0, <1>10 DEF One
  <2>3. /\ at'[e].markfree - at[e].markfree = One(Frees(r, e))
        /\ Spread(at'[e]) - Spread(at[e]) = 1
        /\ OnWay(at'[e]) - OnWay(at[e]) = One(Sends(r, e))
    <3>1. CASE p = "marksend"
      <4>1. One(Frees(r, e)) = 0 /\ One(Sends(r, e)) = 1
        BY <1>0, <1>5, <3>1 DEF Sends, Frees, SendKinds, FreeKinds, One
      <4>2. at'[e].marksend = at[e].marksend + 1 /\ at'[e].markfree = at[e].markfree
        BY <1>14, <3>1
      <4> QED BY <1>13, <1>15, <4>1, <4>2 DEF Spread, OnWay
    <3>2. CASE p = "markfree"
      <4>1. One(Frees(r, e)) = 1 /\ One(Sends(r, e)) = 0
        BY <1>0, <1>5, <3>2 DEF Sends, Frees, SendKinds, FreeKinds, One
      <4>2. at'[e].marksend = at[e].marksend /\ at'[e].markfree = at[e].markfree + 1
        BY <1>14, <3>2
      <4> QED BY <1>13, <1>15, <4>1, <4>2 DEF Spread, OnWay
    <3> QED BY <1>1, <3>1, <3>2
  <2>4. odp'[e] = odp[e] /\ cnt'[e] = cnt[e] BY <1>1
  <2>5. One(Sends(r, e)) \in Int /\ One(Frees(r, e)) \in Int BY DEF One
  <2>6. odp'[e] - odp[e] = Spread(at'[e]) - Spread(at[e]) + (0 - 1) BY <1>15, <2>3, <2>4
  <2>7. cnt'[e].ref - cnt[e].ref = odp'[e] - odp[e] - (at'[e].markfree - at[e].markfree)
                                    - (0 - One(Frees(r, e)))
    BY <1>15, <2>3, <2>4, <2>5
  <2>8. cnt'[e].send - cnt[e].send = OnWay(at'[e]) - OnWay(at[e]) + (0 - One(Sends(r, e)))
    BY <1>15, <2>3, <2>4, <2>5
  <2>9. Counts(e, c) BY <1>0, <1>9, <2>1, <2>2, <2>6, <2>7, <2>8 DEF Counts
  <2>10. odp'[e] \in Int /\ cnt' \in [Events -> [evgen : Int, ref : Int, send : Int]]
    BY <1>1, <1>2, <1>15 DEF TypeInv
  <2> QED BY <1>2, <1>5, <1>6, <1>9, <1>12, <2>9, <2>10, CountStep DEF EventOK
<1>17. TypeInv'
  <2>1. DOMAIN call' = Cores BY <1>1, <1>2 DEF TypeInv
  <2> QED BY <1>1, <1>2, <1>12, <2>1 DEF TypeInv
<1>18. \A d \in Cores : ~refs[e] => Apart(call'[d], e)
  BY <1>5, <1>7, <1>9, <1>10, HeldIs
<1>19. GenOK(e)'
  <2>1. CASE refs[e] BY <1>1, <2>1 DEF GenOK
  <2>2. CASE ~refs[e]
    <3>1. /\ odp[e] = 1 /\ NoPlace(e) /\ cnt[e].evgen = NextGen(hdl[e])
      BY <1>0, <1>5, <1>10, <2>2, HeldIs
    <3>2. at'[e].user = 0 /\ at'[e].vector = 0 BY <1>13, <3>1 DEF NoPlace
    <3>3. ~Fresh(e)' BY <1>18, <2>2, <3>2 DEF Fresh, Apart
    <3> QED BY <1>1, <1>18, <2>2, <3>1, <3>3 DEF GenOK, Apart
  <2> QED BY <2>1, <2>2
<1>20. LowOK(e)'
  <2>1. \A d \in Cores : /\ AtWrap(call'[d], e) <=> AtWrap(call[d], e)
                         /\ AtUnwrap(call'[d], e) <=> AtUnwrap(call[d], e)
    BY <1>0, <1>5, <1>7, <1>9 DEF Apart
  <2> QED BY <1>1, <1>6, <2>1 DEF EventOK, LowOK
<1>21. FlagOK(e)'
  <2>1. CASE refs[e] BY <1>1, <1>6, <1>13, <2>1 DEF EventOK, FlagOK
  <2>2. CASE ~refs[e]
    <3>1. NoPlace(e) /\ ~aggr[e] BY <1>0, <1>5, <1>10, <2>2, HeldIs
    <3>2. ~aggr'[e] /\ ~(at'[e].aggregator > 0) BY <1>1, <1>13, <3>1 DEF NoPlace
    <3>3. op[e] = p BY <1>0, <1>1, <1>5, <1>6, <2>2 DEF EventOK, FlagOK
    <3>4. \A q \in {"marksend", "markfree"} : q # p => at'[e][q] = 0
      BY <1>1, <1>12, <3>1 DEF NoPlace, Places
    <3>5. /\ at'[e].marksend > 0 => op'[e] = "marksend"
          /\ at'[e].markfree > 0 => op'[e] = "markfree"
      BY <1>1, <3>3, <3>4
    <3>6. \A d \in Cores : ~After(call'[d], e) /\ ~Enqueues(call'[d], e) BY <1>18, <2>2 DEF Apart
    <3> QED BY <1>1, <2>2, <3>2, <3>5, <3>6 DEF FlagOK
  <2> QED BY <2>1, <2>2
<1>22. StaleOK(e)'
  <2>1. GenNow(e)' = GenNow(e) BY <1>1, <1>13 DEF GenNow
  <2> QED BY <1>1, <1>6, <2>1 DEF EventOK, StaleOK
<1>23. \A f \in Events \ {e} : EventSame(f) BY <1>1, <1>12 DEF EventSame
<1>24. ~alarm' BY <1>1 DEF IInv
<1> QED BY <1>0, <1>1, <1>5, <1>7, <1>8, <1>16, <1>17, <1>19, <1>20, <1>21, <1>22, <1>23, <1>24,
           OneCallStep

\* A core in no call.
LEMMA IdleIs ==
  ASSUME NEW r, CallOK(r), r.pc = "none"
  PROVE  r = NoCall /\ \A e : Apart(r, e)
<1>1. r = NoCall BY DEF CallOK
<1> QED BY <1>1, NoCallHolds DEF Apart

\* The mark is taken back.
LEMMA UnmarkCallStep ==
  ASSUME IInv, NEW c \in Cores, NEW kind \in Unmark, NEW e \in Events, UnmarkCall(c, kind, e)
  PROVE  IInv'
<1>0. PICK r, p, n : /\ r = call[c] /\ p = IF kind = "unmarksend" THEN "marksend" ELSE "markfree"
                     /\ n = [pc |-> "sub", kind |-> kind, es |-> <<e>>, i |-> 1]
  OBVIOUS
<1>1. /\ r.pc = "none" /\ at[e][p] > 0
      /\ at' = [at EXCEPT ![e][p] = @ - 1] /\ call' = [call EXCEPT ![c] = n]
      /\ alarm' = (~refs[e] /\ op[e] # p)
      /\ UNCHANGED <<cnt, refs, aggr, hdl, op, odp, stale>>
  BY <1>0 DEF UnmarkCall
<1>2. TypeInv /\ CallInv /\ CallOK(r) /\ EventOK(e) BY <1>0 DEF IInv, CallInv
<1>3. p \in {"marksend", "markfree"} /\ p \in Places BY <1>0 DEF Places
<1>4. /\ CallOK(n) /\ n.kind = kind
      /\ \A f : /\ After(n, f) <=> f = e
                /\ ~Before(n, f) /\ ~AtWrap(n, f) /\ ~AtUnwrap(n, f) /\ ~Enqueues(n, f)
  BY <1>0, UnmarksIs
<1>5. \A f : Apart(r, f) BY <1>1, <1>2, IdleIs
<1>6. \A f \in Events \ {e} : Alike(r, n, f) BY <1>4, <1>5 DEF Alike, Apart
<1>7. call'[c] = n /\ \A d \in Cores \ {c} : call'[d] = call[d] BY <1>1, <1>2, <1>4, CallStep
<1>8. /\ at' \in [Events -> [Places -> Nat]] /\ \A f \in Events \ {e} : at'[f] = at[f]
      /\ at'[e][p] = at[e][p] - 1 /\ \A q \in Places \ {p} : at'[e][q] = at[e][q]
  BY <1>1, <1>2, <1>3, TakeIs
<1>9. /\ at'[e].user = at[e].user /\ at'[e].queue = at[e].queue
      /\ at'[e].aggregator = at[e].aggregator /\ at'[e].vector = at[e].vector
  BY <1>3, <1>8 DEF Places
<1>10. \/ /\ p = "marksend" /\ kind = "unmarksend"
          /\ at'[e].marksend = at[e].marksend - 1 /\ at'[e].markfree = at[e].markfree
       \/ /\ p = "markfree" /\ kind = "unmarkfree"
          /\ at'[e].marksend = at[e].marksend /\ at'[e].markfree = at[e].markfree - 1
  BY <1>0, <1>3, <1>8 DEF Places, Unmark
<1>11. /\ at[e].user \in Nat /\ at[e].queue \in Nat /\ at[e].aggregator \in Nat
       /\ at[e].vector \in Nat /\ at[e].marksend \in Nat /\ at[e].markfree \in Nat
       /\ odp[e] \in Int /\ cnt[e].ref \in Int /\ cnt[e].send \in Int
  BY <1>2, AtIs
<1>12. CountOK(e)'
  <2>1. One(Holds(r, e)) = 0 /\ One(Sends(r, e)) = 0 /\ One(Frees(r, e)) = 0
    BY <1>5 DEF Apart, Holds, Sends, Frees, One
  <2>2. One(Holds(n, e)) = 1 BY <1>4 DEF Holds, One
  <2>3. /\ at'[e].markfree - at[e].markfree = -One(Frees(n, e))
        /\ Spread(at'[e]) - Spread(at[e]) = -1
        /\ OnWay(at'[e]) - OnWay(at[e]) = -One(Sends(n, e))
    <3>1. CASE p = "marksend"
      <4>1. kind = "unmarksend" /\ at'[e].marksend = at[e].marksend - 1 /\ at'[e].markfree = at[e].markfree
        BY <1>10, <3>1
      <4>2. One(Frees(n, e)) = 0 /\ One(Sends(n, e)) = 1
        BY <1>4, <4>1 DEF Sends, Frees, SendKinds, FreeKinds, One
      <4> QED BY <1>9, <1>11, <4>1, <4>2 DEF Spread, OnWay
    <3>2. CASE p = "markfree"
      <4>1. kind = "unmarkfree" /\ at'[e].marksend = at[e].marksend /\ at'[e].markfree = at[e].markfree - 1
        BY <1>10, <3>2
      <4>2. One(Frees(n, e)) = 1 /\ One(Sends(n, e)) = 0
        BY <1>4, <4>1 DEF Sends, Frees, SendKinds, FreeKinds, One
      <4> QED BY <1>9, <1>11, <4>1, <4>2 DEF Spread, OnWay
    <3> QED BY <1>3, <3>1, <3>2
  <2>4. odp'[e] = odp[e] /\ cnt'[e] = cnt[e] BY <1>1
  <2>5. One(Sends(n, e)) \in Int /\ One(Frees(n, e)) \in Int BY DEF One
  <2>6. odp'[e] - odp[e] = Spread(at'[e]) - Spread(at[e]) + (1 - 0) BY <1>11, <2>3, <2>4
  <2>7. cnt'[e].ref - cnt[e].ref = odp'[e] - odp[e] - (at'[e].markfree - at[e].markfree)
                                    - (One(Frees(n, e)) - 0)
    BY <1>11, <2>3, <2>4, <2>5
  <2>8. cnt'[e].send - cnt[e].send = OnWay(at'[e]) - OnWay(at[e]) + (One(Sends(n, e)) - 0)
    BY <1>11, <2>3, <2>4, <2>5
  <2>9. Counts(e, c) BY <1>0, <1>7, <2>1, <2>2, <2>6, <2>7, <2>8 DEF Counts
  <2>10. odp'[e] \in Int /\ cnt' \in [Events -> [evgen : Int, ref : Int, send : Int]]
    BY <1>1, <1>2, <1>11 DEF TypeInv
  <2> QED BY <1>2, <1>7, <1>8, <2>9, <2>10, CountStep DEF EventOK
<1>13. ASSUME ~refs[e]
       PROVE  /\ odp[e] = 1 /\ at[e][p] = 1 /\ \A q \in Places \ {p} : at[e][q] = 0
              /\ NoHolder(e) /\ cnt[e].evgen = NextGen(hdl[e]) /\ op[e] = p
  <2>1. /\ odp[e] = 1 /\ at[e][p] = 1 /\ \A q \in Places \ {p} : at[e][q] = 0
        /\ NoHolder(e) /\ cnt[e].evgen = NextGen(hdl[e])
    BY <1>1, <1>3, <1>13, OnePlaceIs
  <2>2. op[e] = p
    <3>1. CASE p = "marksend" BY <1>1, <1>2, <1>13, <3>1 DEF EventOK, FlagOK
    <3>2. CASE p = "markfree" BY <1>1, <1>2, <1>13, <3>2 DEF EventOK, FlagOK
    <3> QED BY <1>3, <3>1, <3>2
  <2> QED BY <2>1, <2>2
<1>14. ~alarm' BY <1>1, <1>13
<1>15. TypeInv'
  <2>1. DOMAIN call' = Cores BY <1>1, <1>2 DEF TypeInv
  <2> QED BY <1>1, <1>2, <1>8, <2>1 DEF TypeInv
<1>16. ASSUME ~refs[e]
       PROVE  /\ \A q \in Places : at'[e][q] = 0
              /\ \A d \in Cores : /\ After(call'[d], e) <=> d = c
                                  /\ ~Before(call'[d], e) /\ ~AtWrap(call'[d], e)
                                  /\ ~AtUnwrap(call'[d], e) /\ ~Enqueues(call'[d], e)
  <2>1. at'[e][p] = 0 BY <1>8, <1>13, <1>16
  <2>2. \A q \in Places : at'[e][q] = 0 BY <1>8, <1>13, <1>16, <2>1
  <2>3. \A d \in Cores \ {c} : Apart(call'[d], e) BY <1>7, <1>13, <1>16 DEF NoHolder
  <2> QED BY <1>4, <1>7, <2>2, <2>3 DEF Apart
<1>17. GenOK(e)'
  <2>1. CASE refs[e] BY <1>1, <2>1 DEF GenOK
  <2>2. CASE ~refs[e]
    <3>1. at'[e].user = 0 /\ at'[e].vector = 0 BY <1>16, <2>2 DEF Places
    <3>2. ~Fresh(e)' BY <1>16, <2>2, <3>1 DEF Fresh
    <3>3. odp[e] = 1 /\ cnt[e].evgen = NextGen(hdl[e]) BY <1>13, <2>2
    <3> QED BY <1>1, <1>16, <2>2, <3>2, <3>3 DEF GenOK
  <2> QED BY <2>1, <2>2
<1>18. LowOK(e)'
  <2>1. \A d \in Cores : /\ AtWrap(call'[d], e) <=> AtWrap(call[d], e)
                         /\ AtUnwrap(call'[d], e) <=> AtUnwrap(call[d], e)
    BY <1>0, <1>4, <1>5, <1>7 DEF Apart
  <2> QED BY <1>1, <1>2, <2>1 DEF EventOK, LowOK
<1>19. FlagOK(e)'
  <2>1. CASE refs[e] BY <1>1, <1>2, <1>9, <2>1 DEF EventOK, FlagOK
  <2>2. CASE ~refs[e]
    <3>1. at[e].aggregator = 0 /\ \A d \in Cores : ~Enqueues(call[d], e)
      BY <1>3, <1>13, <2>2 DEF Places, NoHolder, Apart
    <3>2. ~aggr[e]
      <4>1. ~(at[e].aggregator > 0) BY <3>1
      <4> QED BY <1>2, <2>2, <3>1, <4>1 DEF EventOK, FlagOK
    <3>3. ~(at'[e].aggregator > 0) /\ ~(at'[e].marksend > 0) /\ ~(at'[e].markfree > 0)
      BY <1>16, <2>2 DEF Places
    <3>4. \A d \in Cores : ~(After(call'[d], e) /\ call'[d].kind \in {"marksend", "markfree"})
      BY <1>4, <1>7, <1>16, <2>2 DEF Unmark
    <3> QED BY <1>1, <1>16, <2>2, <3>2, <3>3, <3>4 DEF FlagOK
  <2> QED BY <2>1, <2>2
<1>20. StaleOK(e)'
  <2>1. GenNow(e)' = GenNow(e) BY <1>1, <1>9 DEF GenNow
  <2> QED BY <1>1, <1>2, <2>1 DEF EventOK, StaleOK
<1>21. \A f \in Events \ {e} : EventSame(f) BY <1>1, <1>8 DEF EventSame
<1> QED BY <1>0, <1>1, <1>4, <1>6, <1>12, <1>14, <1>15, <1>17, <1>18, <1>19, <1>20, <1>21,
           OneCallStep

\* A core that is about to take the generation forward again.
LEMMA FallsIs ==
  ASSUME NEW r, CallOK(r), r.pc = "sub", NEW n, n = [r EXCEPT !.pc = "unwrap"]
  PROVE  /\ CallOK(n)
         /\ LET e == r.es[r.i] IN
            /\ ~Before(r, e) /\ After(r, e) /\ ~AtWrap(r, e) /\ ~AtUnwrap(r, e) /\ ~Enqueues(r, e)
            /\ ~Before(n, e) /\ ~After(n, e) /\ ~AtWrap(n, e) /\ AtUnwrap(n, e) /\ ~Enqueues(n, e)
         /\ \A e \in Events \ {r.es[r.i]} : Alike(r, n, e)
<1>1. /\ r.es[r.i] \in Events
      /\ Len(r.es) = Count(r) /\ DOMAIN r.es = 1..Count(r)
      /\ \A j, k \in 1..Count(r) : r.es[j] = r.es[k] => j = k
      /\ \/ Count(r) = 1 /\ r.i = 1
         \/ Count(r) = 2 /\ r.i = 1
         \/ Count(r) = 2 /\ r.i = 2
      /\ r.kind \in {"send", "sendaggr"} \cup Unmark
  BY InCall
<1>2. n = [pc |-> "unwrap", kind |-> r.kind, es |-> r.es, i |-> r.i]
  <2>1. r = [pc |-> r.pc, kind |-> r.kind, es |-> r.es, i |-> r.i] BY InCall
  <2> QED BY <2>1
<1>3. r.i \in 1..Count(r) BY <1>1
<1>4. CallOK(n)
  <2>1. CallOK([pc |-> "unwrap", kind |-> r.kind, es |-> r.es, i |-> r.i])
    BY <1>1, <1>3, NextCall
  <2> QED BY <1>2, <2>1
<1>5. n.pc = "unwrap" /\ n.kind = r.kind /\ n.es = r.es /\ n.i = r.i BY <1>2
<1>6. \A e : /\ ~Before(r, e) /\ ~Before(n, e) /\ ~AtWrap(r, e) /\ ~AtWrap(n, e)
             /\ ~AtUnwrap(r, e) /\ (AtUnwrap(n, e) <=> e = r.es[r.i])
             /\ ~Enqueues(r, e) /\ ~Enqueues(n, e)
  BY <1>5 DEF Before, AtWrap, AtUnwrap, Enqueues
<1>7. \A e : After(n, e) <=> After(r, e) /\ e # r.es[r.i]
  <2> TAKE e
  <2>1. After(n, e) <=> \E j \in 1..Count(r) : r.es[j] = e /\ j > r.i BY <1>1, <1>5 DEF After
  <2>2. After(r, e) <=> \E j \in 1..Count(r) : r.es[j] = e /\ j >= r.i BY <1>1 DEF After
  <2> QED BY <1>1, <1>3, <2>1, <2>2
<1>8. After(r, r.es[r.i]) BY <1>1, <1>3 DEF After
<1> QED BY <1>4, <1>5, <1>6, <1>7, <1>8 DEF Alike

\* Word w is right for an event of which core c gives a reference back to the
\* application.
Backs(c, e, w) ==
  /\ w.ref - cnt[e].ref = One(Frees(call[c], e))
  /\ w.send - cnt[e].send = -One(Sends(call[c], e))
  /\ w.evgen >= EVGEN_INIT
  /\ ~refs[e] => w.evgen = hdl[e]
  /\ \A d \in Cores \ {c} : /\ AtWrap(call[d], e) => w.evgen >= EVGEN_MAX
                            /\ ~AtUnwrap(call[d], e)

\* The end of Revert and Unwrap.
GivesBack(c, e, w) ==
  /\ call[c].pc \in {"sub", "unwrap"} /\ e = call[c].es[call[c].i]
  /\ w \in [evgen : Int, ref : Int, send : Int] /\ Backs(c, e, w)
  /\ cnt' = [cnt EXCEPT ![e] = w] /\ Reverted(c, e)
  /\ UNCHANGED <<refs, aggr, hdl, odp, stale>>

\* A send or mark has been taken back.
LEMMA RevertedStep ==
  ASSUME IInv, NEW c \in Cores, NEW e, NEW w, GivesBack(c, e, w)
  PROVE  IInv'
<1>0. PICK r, n : /\ r = call[c] /\ n = Following(r, "sub")
                  /\ r.pc \in {"sub", "unwrap"} /\ e = r.es[r.i]
  BY DEF GivesBack
<1>a. /\ w \in [evgen : Int, ref : Int, send : Int] /\ cnt' = [cnt EXCEPT ![e] = w]
      /\ UNCHANGED <<refs, aggr, hdl, odp, stale>>
  BY DEF GivesBack
<1>c. w.evgen \in Int /\ w.ref \in Int /\ w.send \in Int BY <1>a
<1>b. Reverted(c, e) /\ Backs(c, e, w) BY DEF GivesBack
<1>1. TypeInv /\ CallInv /\ CallOK(r) BY <1>0 DEF IInv, CallInv
<1>2. e \in Events BY <1>0, <1>1, InCall
<1>3. EventOK(e) BY <1>2 DEF IInv
<1>4. /\ CallOK(n)
      /\ ~Before(r, e) /\ ~AtWrap(r, e) /\ ~Enqueues(r, e) /\ (After(r, e) \/ AtUnwrap(r, e))
      /\ Apart(n, e)
      /\ \A f \in Events \ {e} : Alike(r, n, f)
  BY <1>0, <1>1, LeavesIs DEF Apart
<1>5. call' = [call EXCEPT ![c] = n]
  <2>1. r = [pc |-> r.pc, kind |-> r.kind, es |-> r.es, i |-> r.i] BY <1>0, <1>1, InCall
  <2>2. [r EXCEPT !.pc = "sub", !.i = @ + 1] = [pc |-> "sub", kind |-> r.kind, es |-> r.es, i |-> r.i + 1]
    <3>1. PICK m : m = [r EXCEPT !.pc = "sub"] OBVIOUS
    <3>2. m = [pc |-> "sub", kind |-> r.kind, es |-> r.es, i |-> r.i] BY <2>1, <3>1
    <3>3. [m EXCEPT !.i = @ + 1] = [pc |-> "sub", kind |-> r.kind, es |-> r.es, i |-> r.i + 1]
      BY <3>2
    <3> QED BY <3>1, <3>2, <3>3
  <2> QED BY <1>0, <1>b, <2>2 DEF Following, Reverted
<1>6. call'[c] = n /\ \A d \in Cores \ {c} : call'[d] = call[d] BY <1>1, <1>4, <1>5, CallStep
<1>7. Holds(call[c], e) BY <1>0, <1>4 DEF Holds
<1>8. /\ alarm' = BadUsr2em(Word(cnt'[e]), hdl[e], refs[e])
      /\ op' = [op EXCEPT ![e] = IF refs[e] THEN @ ELSE "other"]
      /\ at' = [at EXCEPT ![e]["user"] = @ + 1]
  BY <1>b DEF Reverted
<1>9. /\ at' \in [Events -> [Places -> Nat]] /\ \A f \in Events \ {e} : at'[f] = at[f]
      /\ at'[e]["user"] = at[e]["user"] + 1 /\ \A q \in Places \ {"user"} : at'[e][q] = at[e][q]
  <2>1. "user" \in Places BY DEF Places
  <2> QED BY <1>1, <1>2, <1>8, <2>1, PutIs
<1>10. /\ at'[e].user = at[e].user + 1 /\ at'[e].queue = at[e].queue
       /\ at'[e].aggregator = at[e].aggregator /\ at'[e].vector = at[e].vector
       /\ at'[e].marksend = at[e].marksend /\ at'[e].markfree = at[e].markfree
  BY <1>9 DEF Places
<1>11. /\ at[e].user \in Nat /\ at[e].queue \in Nat /\ at[e].aggregator \in Nat
       /\ at[e].vector \in Nat /\ at[e].marksend \in Nat /\ at[e].markfree \in Nat
       /\ odp[e] \in Int /\ cnt[e].ref \in Int /\ cnt[e].send \in Int
       /\ hdl[e] \in EVGEN_INIT..(EVGEN_MAX - 1)
  BY <1>1, <1>2, AtIs
<1>12. cnt' \in [Events -> [evgen : Int, ref : Int, send : Int]] /\ cnt'[e] = w
  BY <1>a, <1>1, <1>2 DEF TypeInv
<1>13. CountOK(e)'
  <2>1. One(Holds(n, e)) = 0 /\ One(Sends(n, e)) = 0 /\ One(Frees(n, e)) = 0
    BY <1>4, ApartIs DEF One
  <2>2. One(Holds(r, e)) = 1 BY <1>0, <1>7 DEF One
  <2>3. /\ Spread(at'[e]) - Spread(at[e]) = 1 /\ OnWay(at'[e]) - OnWay(at[e]) = 0
        /\ at'[e].markfree - at[e].markfree = 0
    BY <1>10, <1>11 DEF Spread, OnWay
  <2>4. w.ref - cnt[e].ref = One(Frees(r, e)) /\ w.send - cnt[e].send = -One(Sends(r, e))
    BY <1>0, <1>b DEF Backs
  <2>5. One(Sends(r, e)) \in Int /\ One(Frees(r, e)) \in Int BY DEF One
  <2>6. odp'[e] - odp[e] = 0 BY <1>a, <1>11
  <2>7. odp'[e] - odp[e] = Spread(at'[e]) - Spread(at[e]) + (0 - 1) BY <2>3, <2>6
  <2>8. cnt'[e].ref - cnt[e].ref = odp'[e] - odp[e] - (at'[e].markfree - at[e].markfree)
                                    - (0 - One(Frees(r, e)))
    BY <1>12, <2>3, <2>4, <2>5, <2>6
  <2>9. cnt'[e].send - cnt[e].send = OnWay(at'[e]) - OnWay(at[e]) + (0 - One(Sends(r, e)))
    BY <1>12, <2>3, <2>4, <2>5
  <2>10. Counts(e, c) BY SMTT(30), <1>0, <1>6, <2>1, <2>2, <2>7, <2>8, <2>9 DEF Counts
  <2>11. odp'[e] \in Int BY <1>a, <1>11
  <2> QED BY <1>1, <1>2, <1>3, <1>6, <1>9, <1>12, <2>10, <2>11, CountStep DEF EventOK
<1>14. TypeInv'
  <2>1. DOMAIN call' = Cores BY <1>1, <1>5 DEF TypeInv
  <2>2. op' \in [Events -> {"other", "marksend", "markfree"}] BY <1>1, <1>8 DEF TypeInv
  <2> QED BY <1>a, <1>1, <1>9, <1>12, <2>1, <2>2 DEF TypeInv
<1>15. /\ w.evgen >= EVGEN_INIT /\ (~refs[e] => w.evgen = hdl[e])
       /\ \A d \in Cores \ {c} : /\ AtWrap(call[d], e) => w.evgen >= EVGEN_MAX
                                 /\ ~AtUnwrap(call[d], e)
  BY <1>b DEF Backs
<1>16. ASSUME ~refs[e]
       PROVE  odp[e] = 1 /\ NoPlace(e) /\ ~aggr[e] /\ \A d \in Cores : Apart(call'[d], e)
  BY <1>0, <1>2, <1>4, <1>6, <1>7, <1>16, HeldIs
<1>17. ~alarm'
  <2>1. /\ w.send >= 0 /\ w.ref >= w.send + at'[e].user + at'[e].vector
    BY <1>2, <1>9, <1>12, <1>13, CoveredNext
  <2>2. w.ref >= w.send
    <3>1. w.ref \in Int /\ w.send \in Int /\ at'[e].user \in Nat /\ at'[e].vector \in Nat
      BY <1>a, <1>10, <1>11
    <3> QED BY <2>1, <3>1
  <2>3. w.evgen >= 0 BY <1>c, <1>15, EsvAssumption
  <2>4. Word(w).ref = w.ref /\ Word(w).send = w.send BY <1>a, <2>3, WordIs
  <2>5. ~refs[e] => Word(w).evgen = hdl[e]
    <3>1. hdl[e] < Width BY <1>11, EsvAssumption
    <3> QED BY <1>a, <1>15, <2>3, <3>1, WordIs
  <2> QED BY <1>8, <1>12, <1>c, <2>1, <2>2, <2>4, <2>5 DEF BadUsr2em
<1>18. GenOK(e)'
  <2>1. CASE refs[e] BY <1>a, <2>1 DEF GenOK
  <2>2. CASE ~refs[e]
    <3>1. at'[e].user + at'[e].vector > 0 BY <1>10, <1>11
    <3>2. Fresh(e)' BY <3>1 DEF Fresh
    <3>3. odp[e] = 1 /\ \A d \in Cores : ~AtWrap(call'[d], e) /\ ~AtUnwrap(call'[d], e)
      BY <1>16, <2>2 DEF Apart
    <3>4. cnt'[e].evgen = hdl'[e] BY <1>a, <1>12, <1>15, <2>2
    <3> QED BY <1>a, <2>2, <3>2, <3>3, <3>4 DEF GenOK
  <2> QED BY <2>1, <2>2
<1>19. LowOK(e)'
  <2>1. LowOK(e) BY <1>3 DEF EventOK
  <2>2. cnt'[e].evgen >= EVGEN_INIT - 1 /\ cnt'[e].evgen >= EVGEN_INIT
    BY <1>c, <1>12, <1>15, EsvAssumption
  <2>3. \A d \in Cores : AtWrap(call'[d], e) => cnt'[e].evgen >= EVGEN_MAX /\ AtWrap(call[d], e)
    BY <1>4, <1>6, <1>12, <1>15 DEF Apart
  <2>4. \A d \in Cores : ~AtUnwrap(call'[d], e) BY <1>4, <1>6, <1>15 DEF Apart
  <2> QED BY <2>1, <2>2, <2>3, <2>4 DEF LowOK
<1>20. FlagOK(e)'
  <2>1. CASE refs[e] BY <1>a, <1>3, <1>10, <2>1 DEF EventOK, FlagOK
  <2>2. CASE ~refs[e]
    <3>1. ~(at'[e].aggregator > 0) /\ ~(at'[e].marksend > 0) /\ ~(at'[e].markfree > 0)
      BY <1>10, <1>16, <2>2 DEF NoPlace
    <3>2. \A d \in Cores : ~After(call'[d], e) /\ ~Enqueues(call'[d], e) BY <1>16, <2>2 DEF Apart
    <3> QED BY <1>a, <1>16, <2>2, <3>1, <3>2 DEF FlagOK
  <2> QED BY <2>1, <2>2
<1>21. StaleOK(e)'
  <2>1. GenNow(e)' = GenNow(e) BY <1>a, <1>10 DEF GenNow
  <2> QED BY <1>a, <1>3, <2>1 DEF EventOK, StaleOK
<1>22. \A f \in Events \ {e} : EventSame(f) BY <1>a, <1>1, <1>8, <1>9 DEF EventSame, TypeInv
<1> QED BY <1>0, <1>2, <1>4, <1>5, <1>13, <1>14, <1>17, <1>18, <1>19, <1>20, <1>21, <1>22,
           OneCallStep

\* A core between its two steps on an event is another one that uses it.
LEMMA AloneIs ==
  ASSUME NEW c \in Cores, NEW e, ~Wrapping(c, e)
  PROVE  \A d \in Cores \ {c} : ~AtWrap(call[d], e) /\ ~AtUnwrap(call[d], e)
BY DEF Wrapping, AtWrap, AtUnwrap

\* A word of which one send or free is taken back.
LEMMA SubsIs ==
  ASSUME NEW v \in [evgen : Int, ref : Int, send : Int], NEW kind, NEW w, w = Subs(kind, v)
  PROVE  /\ w \in [evgen : Int, ref : Int, send : Int] /\ w.evgen = v.evgen - 1
         /\ kind = "unmarkfree" => w.ref = v.ref + 1 /\ w.send = v.send
         /\ kind # "unmarkfree" => w.ref = v.ref /\ w.send = v.send - 1
<1>1. v.evgen \in Int /\ v.ref \in Int /\ v.send \in Int OBVIOUS
<1>2. CASE kind = "unmarkfree"
  <2>1. w = [evgen |-> v.evgen + (-1), ref |-> v.ref + 1, send |-> v.send + 0]
    BY <1>2 DEF Subs, Plus
  <2> QED BY <1>1, <1>2, <2>1
<1>3. CASE kind # "unmarkfree"
  <2>1. w = [evgen |-> v.evgen + (-1), ref |-> v.ref + 0, send |-> v.send + (-1)]
    BY <1>3 DEF Subs, Plus
  <2> QED BY <1>1, <1>3, <2>1
<1> QED BY <1>2, <1>3

\* ... and went below the first generation.
Falls(c, e, w) ==
  /\ call[c].pc = "sub" /\ e = call[c].es[call[c].i] /\ w = Subs(call[c].kind, cnt[e])
  /\ Unwraps(w) /\ ~Wrapping(c, e)
  /\ cnt' = [cnt EXCEPT ![e] = w] /\ call' = [call EXCEPT ![c] = [call[c] EXCEPT !.pc = "unwrap"]]
  /\ UNCHANGED <<refs, aggr, hdl, op, odp, at, stale, alarm>>

\* Every step that ends an event or finds a misuse.
LEMMA FallsStep ==
  ASSUME IInv, NEW c \in Cores, NEW e, NEW w, Falls(c, e, w)
  PROVE  IInv'
<1>0. PICK r, n : r = call[c] /\ n = [r EXCEPT !.pc = "unwrap"] OBVIOUS
<1>1. /\ r.pc = "sub" /\ e = r.es[r.i] /\ w = Subs(r.kind, cnt[e]) /\ Unwraps(w)
      /\ cnt' = [cnt EXCEPT ![e] = w] /\ call' = [call EXCEPT ![c] = n]
      /\ UNCHANGED <<refs, aggr, hdl, op, odp, at, stale, alarm>>
  BY <1>0 DEF Falls
<1>2. TypeInv /\ CallInv /\ CallOK(r) BY <1>0 DEF IInv, CallInv
<1>3. e \in Events /\ r.kind \in {"send", "sendaggr"} \cup Unmark BY <1>1, <1>2, InCall
<1>4. EventOK(e) BY <1>3 DEF IInv
<1>5. /\ CallOK(n)
      /\ ~Before(r, e) /\ After(r, e) /\ ~AtWrap(r, e) /\ ~AtUnwrap(r, e) /\ ~Enqueues(r, e)
      /\ ~Before(n, e) /\ ~After(n, e) /\ ~AtWrap(n, e) /\ AtUnwrap(n, e) /\ ~Enqueues(n, e)
      /\ \A f \in Events \ {e} : Alike(r, n, f)
  BY <1>0, <1>1, <1>2, FallsIs
<1>6. call'[c] = n /\ \A d \in Cores \ {c} : call'[d] = call[d] BY <1>1, <1>2, <1>5, CallStep
<1>7. \A d \in Cores \ {c} : ~AtWrap(call[d], e) /\ ~AtUnwrap(call[d], e)
  BY AloneIs DEF Falls
<1>8. /\ cnt[e].evgen \in Int /\ cnt[e].ref \in Int /\ cnt[e].send \in Int /\ odp[e] \in Int
      /\ hdl[e] \in EVGEN_INIT..(EVGEN_MAX - 1)
      /\ cnt[e] \in [evgen : Int, ref : Int, send : Int]
  BY <1>2, <1>3, AtIs DEF TypeInv
<1>9. /\ w \in [evgen : Int, ref : Int, send : Int] /\ w.evgen = cnt[e].evgen - 1
      /\ r.kind = "unmarkfree" => w.ref = cnt[e].ref + 1 /\ w.send = cnt[e].send
      /\ r.kind # "unmarkfree" => w.ref = cnt[e].ref /\ w.send = cnt[e].send - 1
  <2>1. PICK v : v = cnt[e] OBVIOUS
  <2>2. PICK k : k = r.kind OBVIOUS
  <2>3. v \in [evgen : Int, ref : Int, send : Int] /\ w = Subs(k, v) BY <1>1, <1>8, <2>1, <2>2
  <2>4. /\ w \in [evgen : Int, ref : Int, send : Int] /\ w.evgen = v.evgen - 1
        /\ k = "unmarkfree" => w.ref = v.ref + 1 /\ w.send = v.send
        /\ k # "unmarkfree" => w.ref = v.ref /\ w.send = v.send - 1
    BY <2>3, SubsIs
  <2> QED BY <2>1, <2>2, <2>4
<1>10. cnt' \in [Events -> [evgen : Int, ref : Int, send : Int]] /\ cnt'[e] = w
  BY <1>1, <1>2, <1>3, <1>9 DEF TypeInv
<1>11. Holds(call[c], e) BY <1>0, <1>5 DEF Holds
<1>12. cnt[e].evgen >= EVGEN_INIT BY <1>0, <1>4, <1>5, <1>7 DEF EventOK, LowOK
<1>13. CountOK(e)'
  <2>1. One(Holds(n, e)) = 1 /\ One(Sends(n, e)) = 0 /\ One(Frees(n, e)) = 0
    BY <1>5 DEF Holds, Sends, Frees, One
  <2>2. One(Holds(r, e)) = 1 BY <1>0, <1>11 DEF One
  <2>3. w.ref - cnt[e].ref = One(Frees(r, e)) /\ w.send - cnt[e].send = -One(Sends(r, e))
    <3>1. CASE r.kind = "unmarkfree"
      <4>1. One(Frees(r, e)) = 1 /\ One(Sends(r, e)) = 0
        BY <1>5, <3>1 DEF Sends, Frees, SendKinds, FreeKinds, One
      <4> QED BY <1>8, <1>9, <3>1, <4>1
    <3>2. CASE r.kind # "unmarkfree"
      <4>1. One(Frees(r, e)) = 0 /\ One(Sends(r, e)) = 1
        BY <1>3, <1>5, <3>2 DEF Sends, Frees, SendKinds, FreeKinds, One, Unmark
      <4> QED BY <1>8, <1>9, <3>2, <4>1
    <3> QED BY <3>1, <3>2
  <2>4. Spread(at[e]) \in Int /\ OnWay(at[e]) \in Int /\ at[e].markfree \in Int
    BY <1>2, <1>3, AtIs DEF Spread, OnWay
  <2>5. at'[e] = at[e] /\ odp'[e] = odp[e] BY <1>1
  <2>6. odp'[e] - odp[e] = Spread(at'[e]) - Spread(at[e]) + (1 - 1) BY <1>8, <2>4, <2>5
  <2>7. cnt'[e].ref - cnt[e].ref = odp'[e] - odp[e] - (at'[e].markfree - at[e].markfree)
                                    - (0 - One(Frees(r, e)))
    <3>1. odp'[e] - odp[e] - (at'[e].markfree - at[e].markfree) = 0 BY <1>8, <2>4, <2>5
    <3>2. One(Frees(r, e)) \in Int BY DEF One
    <3> QED BY <1>10, <2>3, <3>1, <3>2
  <2>8. cnt'[e].send - cnt[e].send = OnWay(at'[e]) - OnWay(at[e]) + (0 - One(Sends(r, e)))
    <3>1. OnWay(at'[e]) - OnWay(at[e]) = 0 BY <2>4, <2>5
    <3>2. One(Sends(r, e)) \in Int BY DEF One
    <3> QED BY <1>10, <2>3, <3>1, <3>2
  <2>9. Counts(e, c) BY <1>0, <1>6, <2>1, <2>2, <2>6, <2>7, <2>8 DEF Counts
  <2>10. odp'[e] \in Int /\ at' \in [Events -> [Places -> Nat]] BY <1>1, <1>2, <1>8 DEF TypeInv
  <2> QED BY <1>2, <1>3, <1>4, <1>6, <1>10, <2>9, <2>10, CountStep DEF EventOK
<1>14. TypeInv'
  <2>1. DOMAIN call' = Cores BY <1>1, <1>2 DEF TypeInv
  <2> QED BY <1>1, <1>2, <1>10, <2>1 DEF TypeInv
<1>15. ASSUME ~refs[e]
       PROVE  /\ odp[e] = 1 /\ NoPlace(e) /\ ~aggr[e] /\ cnt[e].evgen = NextGen(hdl[e])
              /\ \A d \in Cores : ~Before(call'[d], e) /\ ~After(call'[d], e) /\ ~Enqueues(call'[d], e)
  <2>1. /\ odp[e] = 1 /\ NoPlace(e) /\ ~aggr[e] /\ cnt[e].evgen = NextGen(hdl[e])
        /\ \A d \in Cores \ {c} : Apart(call[d], e)
    BY <1>0, <1>3, <1>5, <1>11, <1>15, HeldIs
  <2> QED BY <1>5, <1>6, <2>1 DEF Apart
<1>16. \A d \in Cores : ~AtWrap(call'[d], e) /\ (AtUnwrap(call'[d], e) <=> d = c)
  BY <1>5, <1>6, <1>7
<1>17. GenOK(e)'
  <2>1. CASE refs[e] BY <1>1, <2>1 DEF GenOK
  <2>2. CASE ~refs[e]
    <3>1. at'[e].user = 0 /\ at'[e].vector = 0 /\ odp'[e] = 1 BY <1>1, <1>15, <2>2 DEF NoPlace
    <3>2. ~Fresh(e)' BY <1>15, <2>2, <3>1 DEF Fresh
    <3>3. w.evgen = EVGEN_INIT - 1
      <4>1. w.evgen >= 0 /\ w.evgen < Width
        BY <1>8, <1>9, <1>12, <1>15, <2>2, GensAre, EsvAssumption
      <4> QED BY <1>1, <1>9, <4>1, WrapsIs
    <3>4. hdl[e] = EVGEN_MAX - 1
      BY <1>8, <1>9, <1>15, <2>2, <3>3, EsvAssumption DEF NextGen
    <3>5. cnt'[e].evgen = EVGEN_INIT - 1 /\ hdl'[e] = EVGEN_MAX - 1 BY <1>1, <1>10, <3>3, <3>4
    <3> QED BY <1>16, <3>1, <3>2, <3>5 DEF GenOK
  <2> QED BY <2>1, <2>2
<1>18. LowOK(e)'
  <2>1. cnt'[e].evgen >= EVGEN_INIT - 1 BY <1>8, <1>9, <1>10, <1>12, EsvAssumption
  <2>2. \E d \in Cores : AtUnwrap(call'[d], e) BY <1>16
  <2> QED BY <1>16, <2>1, <2>2 DEF LowOK
<1>19. FlagOK(e)'
  <2>1. CASE refs[e] BY <1>1, <1>4, <2>1 DEF EventOK, FlagOK
  <2>2. CASE ~refs[e]
    <3>1. ~(at'[e].aggregator > 0) /\ ~(at'[e].marksend > 0) /\ ~(at'[e].markfree > 0)
      BY SMTT(30), <1>1, <1>15, <2>2 DEF NoPlace
    <3> QED BY <1>1, <1>15, <2>2, <3>1 DEF FlagOK
  <2> QED BY <2>1, <2>2
<1>20. StaleOK(e)'
  <2>1. GenNow(e)' = GenNow(e) BY <1>1 DEF GenNow
  <2> QED BY <1>1, <1>4, <2>1 DEF EventOK, StaleOK
<1>21. \A f \in Events \ {e} : EventSame(f) BY <1>1, <1>2 DEF EventSame, TypeInv
<1>22. ~alarm' BY <1>1 DEF IInv
<1> QED BY <1>0, <1>1, <1>3, <1>5, <1>13, <1>14, <1>17, <1>18, <1>19, <1>20, <1>21, <1>22,
           OneCallStep

\* The atomic subtract of a send or mark that is taken back.
LEMMA RevertStep ==
  ASSUME Regular, IInv, NEW c \in Cores, Revert(c)
  PROVE  IInv'
<1>0. PICK r, e, w : r = call[c] /\ e = r.es[r.i] /\ w = Subs(r.kind, cnt[e]) OBVIOUS
<1>1. /\ r.pc = "sub" /\ cnt' = [cnt EXCEPT ![e] = w] /\ UNCHANGED <<refs, aggr, hdl, odp, stale>>
      /\ ~Wrapping(c, e)
      /\ IF Unwraps(w)
         THEN call' = [call EXCEPT ![c].pc = "unwrap"] /\ UNCHANGED <<alarm, op, at>>
         ELSE Reverted(c, e)
  BY <1>0, EsvAssumption DEF Revert, Regular
<1>2. CASE Unwraps(w)
  <2>1. Falls(c, e, w) BY <1>0, <1>1, <1>2 DEF Falls
  <2> QED BY <2>1, FallsStep
<1>3. CASE ~Unwraps(w)
  <2>1. TypeInv /\ CallInv /\ CallOK(r) BY <1>0 DEF IInv, CallInv
  <2>2. e \in Events /\ r.kind \in {"send", "sendaggr"} \cup Unmark BY <1>0, <1>1, <2>1, InCall
  <2>3. EventOK(e) BY <2>2 DEF IInv
  <2>4. \A d \in Cores \ {c} : ~AtWrap(call[d], e) /\ ~AtUnwrap(call[d], e) BY <1>1, AloneIs
  <2>5. PICK n : n = Following(r, "sub") OBVIOUS
  <2>6. After(r, e) /\ ~AtWrap(r, e) /\ ~AtUnwrap(r, e)
    <3>1. ~AtWrap(r, e) /\ (After(r, e) <=> r.pc # "unwrap") /\ (AtUnwrap(r, e) <=> r.pc = "unwrap")
      BY <1>0, <1>1, <2>1, <2>5, LeavesIs
    <3> QED BY <1>1, <3>1
  <2>7. /\ cnt[e].evgen \in Int /\ cnt[e].ref \in Int /\ cnt[e].send \in Int
        /\ hdl[e] \in EVGEN_INIT..(EVGEN_MAX - 1)
        /\ cnt[e] \in [evgen : Int, ref : Int, send : Int]
    BY <2>1, <2>2, AtIs DEF TypeInv
  <2>8. /\ w \in [evgen : Int, ref : Int, send : Int] /\ w.evgen = cnt[e].evgen - 1
        /\ r.kind = "unmarkfree" => w.ref = cnt[e].ref + 1 /\ w.send = cnt[e].send
        /\ r.kind # "unmarkfree" => w.ref = cnt[e].ref /\ w.send = cnt[e].send - 1
    <3>1. PICK v : v = cnt[e] OBVIOUS
    <3>2. PICK k : k = r.kind OBVIOUS
    <3>3. v \in [evgen : Int, ref : Int, send : Int] /\ w = Subs(k, v) BY <1>0, <2>7, <3>1, <3>2
    <3>4. /\ w \in [evgen : Int, ref : Int, send : Int] /\ w.evgen = v.evgen - 1
          /\ k = "unmarkfree" => w.ref = v.ref + 1 /\ w.send = v.send
          /\ k # "unmarkfree" => w.ref = v.ref /\ w.send = v.send - 1
      BY <3>3, SubsIs
    <3> QED BY <3>1, <3>2, <3>4
  <2>9. w.ref - cnt[e].ref = One(Frees(r, e)) /\ w.send - cnt[e].send = -One(Sends(r, e))
    <3>1. CASE r.kind = "unmarkfree"
      <4>1. One(Frees(r, e)) = 1 /\ One(Sends(r, e)) = 0
        BY <2>6, <3>1 DEF Sends, Frees, SendKinds, FreeKinds, One
      <4> QED BY <2>7, <2>8, <3>1, <4>1
    <3>2. CASE r.kind # "unmarkfree"
      <4>1. One(Frees(r, e)) = 0 /\ One(Sends(r, e)) = 1
        BY <2>2, <2>6, <3>2 DEF Sends, Frees, SendKinds, FreeKinds, One, Unmark
      <4> QED BY <2>7, <2>8, <3>2, <4>1
    <3> QED BY <3>1, <3>2
  <2>10. cnt[e].evgen >= EVGEN_INIT BY <1>0, <2>3, <2>4, <2>6 DEF EventOK, LowOK
  <2>11. w.evgen >= EVGEN_INIT
    <3>1. SUFFICES ASSUME w.evgen = EVGEN_INIT - 1 PROVE FALSE
      BY <2>7, <2>8, <2>10, EsvAssumption
    <3>2. w.evgen >= 0 /\ w.evgen < Width BY <3>1, EsvAssumption
    <3> QED BY <1>3, <2>8, <3>1, <3>2, WrapsIs
  <2>12. ~refs[e] => w.evgen = hdl[e]
    <3>1. SUFFICES ASSUME ~refs[e] PROVE w.evgen = hdl[e] OBVIOUS
    <3>2. Holds(r, e) BY <2>6 DEF Holds
    <3>3. cnt[e].evgen = NextGen(hdl[e]) BY <1>0, <2>2, <2>6, <3>1, <3>2, HeldIs
    <3> QED BY <2>7, <2>8, <2>11, <3>3, EsvAssumption DEF NextGen
  <2>13. Backs(c, e, w) BY <1>0, <2>4, <2>9, <2>11, <2>12 DEF Backs
  <2>14. GivesBack(c, e, w) BY <1>0, <1>1, <1>3, <2>8, <2>13 DEF GivesBack
  <2> QED BY <2>14, RevertedStep
<1> QED BY <1>2, <1>3

\* ... and forward to the last generation.
LEMMA UnwrapStep ==
  ASSUME IInv, NEW c \in Cores, Unwrap(c)
  PROVE  IInv'
<1>0. PICK r, e, w, n : /\ r = call[c] /\ e = r.es[r.i] /\ w = Plus(cnt[e], Period, 0, 0)
                        /\ n = Following(r, "sub")
  OBVIOUS
<1>1. /\ r.pc = "unwrap" /\ cnt' = [cnt EXCEPT ![e] = w] /\ Reverted(c, e)
      /\ UNCHANGED <<refs, aggr, hdl, odp, stale>>
  BY <1>0 DEF Unwrap
<1>2. TypeInv /\ CallInv /\ CallOK(r) BY <1>0 DEF IInv, CallInv
<1>3. e \in Events BY <1>0, <1>1, <1>2, InCall
<1>4. LowOK(e) /\ GenOK(e) BY <1>3 DEF IInv, EventOK
<1>5. ~After(r, e) /\ AtUnwrap(r, e)
  <2>1. (After(r, e) <=> r.pc # "unwrap") /\ (AtUnwrap(r, e) <=> r.pc = "unwrap")
    BY <1>0, <1>1, <1>2, LeavesIs
  <2> QED BY <1>1, <2>1
<1>6. \A d \in Cores \ {c} : ~AtUnwrap(call[d], e) BY <1>0, <1>4, <1>5 DEF LowOK
<1>7. /\ cnt[e].evgen \in Int /\ cnt[e].ref \in Int /\ cnt[e].send \in Int
      /\ hdl[e] \in EVGEN_INIT..(EVGEN_MAX - 1) /\ Period \in Int
  BY <1>2, <1>3, AtIs, EsvAssumption DEF Period
<1>8. /\ w \in [evgen : Int, ref : Int, send : Int] /\ w.evgen = cnt[e].evgen + Period
      /\ w.ref = cnt[e].ref /\ w.send = cnt[e].send
  <2>1. w = [evgen |-> cnt[e].evgen + Period, ref |-> cnt[e].ref + 0, send |-> cnt[e].send + 0]
    BY <1>0 DEF Plus
  <2> QED BY <1>7, <2>1
<1>9. w.ref - cnt[e].ref = One(Frees(r, e)) /\ w.send - cnt[e].send = -One(Sends(r, e))
  <2>1. One(Frees(r, e)) = 0 /\ One(Sends(r, e)) = 0 BY <1>5 DEF Frees, Sends, One
  <2> QED BY <1>7, <1>8, <2>1
<1>10. cnt[e].evgen >= EVGEN_INIT - 1 BY <1>4 DEF LowOK
<1>11. w.evgen >= EVGEN_INIT BY <1>7, <1>8, <1>10, EsvAssumption DEF Period
<1>12. ~refs[e] => w.evgen = hdl[e]
  <2>1. SUFFICES ASSUME ~refs[e] PROVE w.evgen = hdl[e] OBVIOUS
  <2>2. cnt[e].evgen = EVGEN_INIT - 1 /\ hdl[e] = EVGEN_MAX - 1
    BY <1>0, <1>4, <1>5, <2>1 DEF GenOK
  <2> QED BY <1>7, <1>8, <2>2, EsvAssumption DEF Period
<1>13. \A d \in Cores \ {c} : AtWrap(call[d], e) => w.evgen >= EVGEN_MAX
  <2>1. SUFFICES ASSUME NEW d \in Cores \ {c}, AtWrap(call[d], e) PROVE w.evgen >= EVGEN_MAX
    OBVIOUS
  <2>2. cnt[e].evgen >= EVGEN_MAX BY <1>4, <2>1 DEF LowOK
  <2> QED BY <1>7, <1>8, <2>2, EsvAssumption DEF Period
<1>14. Backs(c, e, w) BY <1>0, <1>6, <1>9, <1>11, <1>12, <1>13 DEF Backs
<1>15. GivesBack(c, e, w) BY <1>0, <1>1, <1>8, <1>14 DEF GivesBack
<1> QED BY <1>15, RevertedStep

\* A call with one or two events begins.
LEMMA CallBegins ==
  ASSUME IInv, NEW c \in Cores, NEW kind \in Kinds, NEW es \in Batches,
         kind \in {"marksend", "markfree"} => Len(es) = 1, Call(c, kind, es)
  PROVE  IInv'
<1>0. PICK r, n : r = call[c] /\ n = [pc |-> "add", kind |-> kind, es |-> es, i |-> 1] OBVIOUS
<1>1. /\ r.pc = "none" /\ \A i \in DOMAIN es : at[es[i]].user > 0
      /\ call' = [call EXCEPT ![c] = n]
      /\ at' = [e \in Events |-> IF e \in Range(es) THEN [at[e] EXCEPT !.user = @ - 1] ELSE at[e]]
      /\ UNCHANGED <<cnt, refs, aggr, hdl, op, odp, stale, alarm>>
  BY <1>0 DEF Call
<1>2. TypeInv /\ CallInv /\ CallOK(r) BY <1>0 DEF IInv, CallInv
<1>3. \A e : Apart(r, e) BY <1>1, <1>2, IdleIs
<1>4. /\ CallOK(n)
      /\ \A e : /\ Before(n, e) <=> e \in Range(es)
                /\ ~After(n, e) /\ ~AtWrap(n, e) /\ ~AtUnwrap(n, e) /\ ~Enqueues(n, e)
  BY <1>0, BeginsIs
<1>5. call'[c] = n /\ \A d \in Cores \ {c} : call'[d] = call[d] BY <1>1, <1>2, <1>4, CallStep
<1>6. CallInv' BY <1>1, <1>2, <1>4, CallStep
<1>7. \A e \in Range(es) : e \in Events /\ at[e].user > 0 BY <1>1, BatchIs DEF Range
<1>8. \A e \in Events \ Range(es) : EventOK(e)'
  <2> TAKE e \in Events \ Range(es)
  <2>1. EventSame(e) BY <1>1 DEF EventSame
  <2>2. Alike(r, n, e) BY <1>3, <1>4 DEF Alike, Apart
  <2>3. EventOK(e) BY DEF IInv
  <2> QED BY <1>0, <1>1, <1>2, <1>4, <2>1, <2>2, <2>3, CallStep
<1>9. at' \in [Events -> [Places -> Nat]]
  <2>1. ASSUME NEW e \in Events PROVE at'[e] \in [Places -> Nat]
    <3>1. at[e] \in [Places -> Nat] BY <1>2 DEF TypeInv
    <3>2. CASE e \in Range(es)
      <4>1. at[e]["user"] - 1 \in Nat BY <1>2, <1>7, <3>2, AtIs
      <4>2. at'[e] = [at[e] EXCEPT !["user"] = @ - 1] BY <1>1, <3>2
      <4> QED BY <3>1, <4>1, <4>2
    <3>3. CASE e \notin Range(es) BY <1>1, <3>1, <3>3
    <3> QED BY <3>2, <3>3
  <2>2. DOMAIN at' = Events /\ at' = [e \in Events |-> at'[e]] BY <1>1
  <2> QED BY <2>1, <2>2
<1>10. TypeInv'
  <2>1. DOMAIN call' = Cores BY <1>1, <1>2 DEF TypeInv
  <2> QED BY <1>1, <1>2, <1>9, <2>1 DEF TypeInv
<1>11. ASSUME NEW e \in Range(es) PROVE EventOK(e)'
  <2>1. e \in Events /\ at[e].user > 0 /\ at[e]["user"] > 0 BY <1>7
  <2>2. EventOK(e) BY <2>1 DEF IInv
  <2>3. /\ at[e].user \in Nat /\ at[e].queue \in Nat /\ at[e].aggregator \in Nat
        /\ at[e].vector \in Nat /\ at[e].marksend \in Nat /\ at[e].markfree \in Nat
        /\ odp[e] \in Int /\ cnt[e].ref \in Int /\ cnt[e].send \in Int
        /\ DOMAIN at[e] = Places
    BY <1>2, <2>1, AtIs
  <2>4. at'[e] = [at[e] EXCEPT !["user"] = @ - 1] BY <1>1, <2>1
  <2>5. /\ at'[e].user = at[e].user - 1 /\ at'[e].queue = at[e].queue
        /\ at'[e].aggregator = at[e].aggregator /\ at'[e].vector = at[e].vector
        /\ at'[e].marksend = at[e].marksend /\ at'[e].markfree = at[e].markfree
    BY <2>3, <2>4 DEF Places
  <2>6. CountOK(e)'
    <3>1. /\ One(Holds(r, e)) = 0 /\ One(Sends(r, e)) = 0 /\ One(Frees(r, e)) = 0
          /\ One(Holds(n, e)) = 1 /\ One(Sends(n, e)) = 0 /\ One(Frees(n, e)) = 0
      BY <1>3, <1>4 DEF Apart, Holds, Sends, Frees, One
    <3>2. /\ Spread(at'[e]) - Spread(at[e]) = -1 /\ OnWay(at'[e]) - OnWay(at[e]) = 0
          /\ at'[e].markfree - at[e].markfree = 0
      BY <2>3, <2>5 DEF Spread, OnWay
    <3>3. odp'[e] - odp[e] = 0 /\ cnt'[e].ref - cnt[e].ref = 0 /\ cnt'[e].send - cnt[e].send = 0
      BY <1>1, <2>3
    <3>4. Counts(e, c) BY <1>0, <1>5, <3>1, <3>2, <3>3 DEF Counts
    <3>5. odp'[e] \in Int /\ cnt' \in [Events -> [evgen : Int, ref : Int, send : Int]]
      BY <1>1, <1>2, <2>3 DEF TypeInv
    <3> QED BY <1>2, <1>5, <1>9, <2>1, <2>2, <3>4, <3>5, CountStep DEF EventOK
  <2>7. \A d \in Cores : /\ Before(call[d], e) => Before(call'[d], e)
                         /\ After(call'[d], e) <=> After(call[d], e)
                         /\ AtWrap(call'[d], e) <=> AtWrap(call[d], e)
                         /\ AtUnwrap(call'[d], e) <=> AtUnwrap(call[d], e)
                         /\ Enqueues(call'[d], e) <=> Enqueues(call[d], e)
                         /\ After(call[d], e) => call'[d].kind = call[d].kind
    BY <1>0, <1>3, <1>4, <1>5 DEF Apart
  <2>8. GenOK(e)'
    <3>1. CASE refs[e] BY <1>1, <3>1 DEF GenOK
    <3>2. CASE ~refs[e]
      <4>1. odp[e] = 1 /\ NoHolder(e) BY <2>1, <3>2, OnePlaceIs DEF Places
      <4>2. at[e].user + at[e].vector > 0 BY <2>1, <2>3
      <4>3. Fresh(e) BY <4>2 DEF Fresh
      <4>4. cnt[e].evgen = hdl[e] BY <2>2, <3>2, <4>3 DEF EventOK, GenOK
      <4>5. Fresh(e)' BY <1>4, <1>5 DEF Fresh
      <4>6. \A d \in Cores : ~AtWrap(call'[d], e) /\ ~AtUnwrap(call'[d], e)
        BY <2>7, <4>1 DEF NoHolder, Apart
      <4> QED BY <1>1, <4>1, <4>4, <4>5, <4>6 DEF GenOK
    <3> QED BY <3>1, <3>2
  <2>9. LowOK(e)' BY <1>1, <2>2, <2>7 DEF EventOK, LowOK
  <2>10. FlagOK(e)' BY <1>1, <2>2, <2>5, <2>7 DEF EventOK, FlagOK
  <2>11. StaleOK(e)'
    <3>1. GenNow(e)' = GenNow(e) BY <1>1, <2>5 DEF GenNow
    <3> QED BY <1>1, <2>2, <3>1 DEF EventOK, StaleOK
  <2> QED BY <2>6, <2>8, <2>9, <2>10, <2>11 DEF EventOK
<1>12. ~alarm' BY <1>1 DEF IInv
<1> QED BY <1>6, <1>8, <1>10, <1>11, <1>12 DEF IInv

\* The events are flagged before they are enqueued.
LEMMA AggrFlagStep ==
  ASSUME IInv, NEW c \in Cores, AggrFlag(c)
  PROVE  IInv'
<1>0. PICK r, n : r = call[c] /\ n = [r EXCEPT !.pc = "enq"] OBVIOUS
<1>1. /\ r.pc = "act" /\ r.kind = "sendaggr" /\ call' = [call EXCEPT ![c] = n]
      /\ aggr' = [e \in Events |-> IF e \in Range(r.es) /\ ~refs[e] THEN TRUE ELSE aggr[e]]
      /\ UNCHANGED <<cnt, refs, hdl, op, odp, at, stale, alarm>>
  BY <1>0 DEF AggrFlag, SetAggrSent
<1>2. TypeInv /\ CallInv /\ CallOK(r) BY <1>0 DEF IInv, CallInv
<1>3. /\ CallOK(n) /\ n.kind = r.kind /\ r.i = 1
      /\ \A e : /\ After(n, e) <=> e \in Range(r.es)
                /\ Enqueues(n, e) <=> e \in Range(r.es)
                /\ ~Before(n, e) /\ ~AtWrap(n, e) /\ ~AtUnwrap(n, e)
  BY <1>0, <1>1, <1>2, FlagsIs
<1>4. /\ Range(r.es) \subseteq Events
      /\ \A e : /\ After(r, e) <=> e \in Range(r.es)
                /\ ~Before(r, e) /\ ~AtWrap(r, e) /\ ~AtUnwrap(r, e) /\ ~Enqueues(r, e)
  BY <1>1, <1>2, <1>3, ActsIs
<1>5. call'[c] = n /\ \A d \in Cores \ {c} : call'[d] = call[d] BY <1>1, <1>2, <1>3, CallStep
<1>6. CallInv' BY <1>1, <1>2, <1>3, CallStep
<1>7. \A e \in Events \ Range(r.es) : EventOK(e)'
  <2> TAKE e \in Events \ Range(r.es)
  <2>1. EventSame(e) BY <1>1 DEF EventSame
  <2>2. Alike(r, n, e) BY <1>3, <1>4 DEF Alike
  <2>3. EventOK(e) BY DEF IInv
  <2> QED BY <1>0, <1>1, <1>2, <1>3, <2>1, <2>2, <2>3, CallStep
<1>8. TypeInv'
  <2>1. DOMAIN call' = Cores BY <1>1, <1>2 DEF TypeInv
  <2>2. aggr' \in [Events -> BOOLEAN]
    <3>1. \A e \in Events : aggr'[e] \in BOOLEAN BY <1>1, <1>2 DEF TypeInv
    <3>2. aggr' = [e \in Events |-> aggr'[e]] BY <1>1
    <3> QED BY <3>1, <3>2
  <2> QED BY <1>1, <1>2, <2>1, <2>2 DEF TypeInv
<1>9. ASSUME NEW e \in Range(r.es) PROVE EventOK(e)'
  <2>1. e \in Events BY <1>4
  <2>2. EventOK(e) BY <2>1 DEF IInv
  <2>3. \A d \in Cores : /\ Before(call'[d], e) <=> Before(call[d], e)
                         /\ After(call'[d], e) <=> After(call[d], e)
                         /\ AtWrap(call'[d], e) <=> AtWrap(call[d], e)
                         /\ AtUnwrap(call'[d], e) <=> AtUnwrap(call[d], e)
                         /\ call'[d].kind = call[d].kind
    BY <1>0, <1>3, <1>4, <1>5
  <2>4. CountOK(e)'
    <3>1. /\ Users(call', e) = Users(call, e) /\ Senders(call', e) = Senders(call, e)
          /\ Freers(call', e) = Freers(call, e)
      BY <2>3 DEF Users, Senders, Freers, Holds, Sends, Frees
    <3> QED BY <1>1, <2>2, <3>1 DEF EventOK, CountOK
  <2>5. Fresh(e)' <=> Fresh(e) BY <1>1, <2>3 DEF Fresh
  <2>6. GenOK(e)' BY <1>1, <2>2, <2>3, <2>5 DEF EventOK, GenOK
  <2>7. LowOK(e)' BY <1>1, <2>2, <2>3 DEF EventOK, LowOK
  <2>8. FlagOK(e)'
    <3>1. CASE refs[e]
      <4>1. aggr'[e] = aggr[e] BY <1>1, <2>1, <3>1
      <4> QED BY <1>1, <2>2, <3>1, <4>1 DEF EventOK, FlagOK
    <3>2. CASE ~refs[e]
      <4>1. aggr'[e] /\ Enqueues(call'[c], e) BY <1>1, <1>3, <1>5, <2>1, <3>2
      <4> QED BY <1>1, <2>2, <2>3, <3>2, <4>1 DEF EventOK, FlagOK
    <3> QED BY <3>1, <3>2
  <2>9. StaleOK(e)'
    <3>1. GenNow(e)' = GenNow(e) BY <1>1 DEF GenNow
    <3> QED BY <1>1, <2>2, <3>1 DEF EventOK, StaleOK
  <2> QED BY <2>4, <2>6, <2>7, <2>8, <2>9 DEF EventOK
<1>10. ~alarm' BY <1>1 DEF IInv
<1> QED BY <1>6, <1>7, <1>8, <1>9, <1>10 DEF IInv

\* Some of the events are enqueued, the rest is taken back.
LEMMA EnqueueStep ==
  ASSUME IInv, NEW c \in Cores, NEW m \in 0..2, Enqueue(c, m)
  PROVE  IInv'
<1>0. PICK r, n, done, p :
        /\ r = call[c] /\ done = Accepted(r, m)
        /\ p = IF r.kind = "send" THEN "queue" ELSE "aggregator"
        /\ n = Rest(r, m)
  OBVIOUS
<1>1. /\ r.pc = (IF r.kind = "sendaggr" THEN "enq" ELSE "act")
      /\ r.kind \in {"send", "sendaggr"} /\ m \in 0..Len(r.es)
      /\ at' = [e \in Events |-> IF e \in done THEN [at[e] EXCEPT ![p] = @ + 1] ELSE at[e]]
      /\ stale' = [e \in Events |-> IF e \in done THEN GaveAway(e) ELSE stale[e]]
      /\ aggr' = [e \in Events |->
                    IF e \in (IF r.kind = "sendaggr" THEN Range(r.es) \ done ELSE {}) /\ ~refs[e]
                    THEN FALSE ELSE aggr[e]]
      /\ call' = [call EXCEPT ![c] = n]
      /\ UNCHANGED <<cnt, refs, hdl, op, odp, alarm>>
  BY <1>0 DEF Enqueue, ClearAggrSent, Accepted, Rest
<1>2. TypeInv /\ CallInv /\ CallOK(r) BY <1>0 DEF IInv, CallInv
<1>3. r.pc \in {"act", "enq"} /\ r.i = 1 BY <1>1, <1>2, InCall
<1>4. /\ CallOK(n)
      /\ \A e : /\ After(n, e) <=> e \in Range(r.es) \ done
                /\ After(n, e) => n.kind = r.kind
                /\ ~Before(n, e) /\ ~AtWrap(n, e) /\ ~AtUnwrap(n, e) /\ ~Enqueues(n, e)
      /\ done \subseteq Range(r.es)
  BY <1>0, <1>1, <1>2, <1>3, RestIs
<1>5. /\ Range(r.es) \subseteq Events
      /\ \A e : /\ After(r, e) <=> e \in Range(r.es)
                /\ ~Before(r, e) /\ ~AtWrap(r, e) /\ ~AtUnwrap(r, e)
                /\ Enqueues(r, e) <=> r.pc = "enq" /\ e \in Range(r.es)
  BY <1>2, <1>3, ActsIs
<1>6. call'[c] = n /\ \A d \in Cores \ {c} : call'[d] = call[d] BY <1>1, <1>2, <1>4, CallStep
<1>7. CallInv' BY <1>1, <1>2, <1>4, CallStep
<1>8. p \in {"queue", "aggregator"} /\ p \in Places BY <1>0 DEF Places
<1>9. \A e \in Events \ Range(r.es) : EventOK(e)'
  <2> TAKE e \in Events \ Range(r.es)
  <2>1. EventSame(e) BY <1>1, <1>4 DEF EventSame
  <2>2. Alike(r, n, e) BY <1>4, <1>5 DEF Alike
  <2>3. EventOK(e) BY DEF IInv
  <2> QED BY <1>0, <1>1, <1>2, <1>4, <2>1, <2>2, <2>3, CallStep
<1>10. at' \in [Events -> [Places -> Nat]]
  <2>1. ASSUME NEW e \in Events PROVE at'[e] \in [Places -> Nat]
    <3>1. at[e] \in [Places -> Nat] BY <1>2 DEF TypeInv
    <3>2. CASE e \in done
      <4>1. at[e][p] + 1 \in Nat BY <1>8, <3>1
      <4>2. at'[e] = [at[e] EXCEPT ![p] = @ + 1] BY <1>1, <3>2
      <4> QED BY <3>1, <4>1, <4>2
    <3>3. CASE e \notin done BY <1>1, <3>1, <3>3
    <3> QED BY <3>2, <3>3
  <2>2. at' = [e \in Events |-> at'[e]] BY <1>1
  <2> QED BY <2>1, <2>2
<1>11. TypeInv'
  <2>1. DOMAIN call' = Cores BY <1>1, <1>2 DEF TypeInv
  <2>2. aggr' \in [Events -> BOOLEAN]
    <3>1. \A e \in Events : aggr'[e] \in BOOLEAN BY <1>1, <1>2 DEF TypeInv
    <3>2. aggr' = [e \in Events |-> aggr'[e]] BY <1>1
    <3> QED BY <3>1, <3>2
  <2>3. DOMAIN stale' = Events BY <1>1
  <2>4. \A e \in Events : stale'[e] \in Seq(Int)
    <3> TAKE e \in Events
    <3>1. GaveAway(e) \in Seq(Int)
      <4>1. PICK s : s = GaveAway(e) OBVIOUS
      <4> QED BY <4>1, GaveIs
    <3> QED BY <1>1, <1>2, <3>1 DEF TypeInv
  <2> QED BY <1>1, <1>2, <1>10, <2>1, <2>2, <2>3, <2>4 DEF TypeInv
<1>12. ASSUME NEW e \in Range(r.es)
       PROVE  /\ e \in Events /\ EventOK(e) /\ Holds(call[c], e)
              /\ at[e].user \in Nat /\ at[e].queue \in Nat /\ at[e].aggregator \in Nat
              /\ at[e].vector \in Nat /\ at[e].marksend \in Nat /\ at[e].markfree \in Nat
              /\ odp[e] \in Int /\ cnt[e].ref \in Int /\ cnt[e].send \in Int
              /\ DOMAIN at[e] = Places
              /\ One(Holds(r, e)) = 1 /\ One(Sends(r, e)) = 1 /\ One(Frees(r, e)) = 0
              /\ \A d \in Cores : /\ AtWrap(call'[d], e) <=> AtWrap(call[d], e)
                                  /\ AtUnwrap(call'[d], e) <=> AtUnwrap(call[d], e)
  <2>1. e \in Events BY <1>5
  <2>2. Holds(call[c], e) BY <1>0, <1>5 DEF Holds
  <2>3. One(Holds(r, e)) = 1 /\ One(Sends(r, e)) = 1 /\ One(Frees(r, e)) = 0
    BY <1>1, <1>5 DEF Holds, Sends, Frees, SendKinds, FreeKinds, One
  <2>4. \A d \in Cores : /\ AtWrap(call'[d], e) <=> AtWrap(call[d], e)
                         /\ AtUnwrap(call'[d], e) <=> AtUnwrap(call[d], e)
    BY <1>0, <1>4, <1>5, <1>6
  <2>5. /\ at[e].user \in Nat /\ at[e].queue \in Nat /\ at[e].aggregator \in Nat
        /\ at[e].vector \in Nat /\ at[e].marksend \in Nat /\ at[e].markfree \in Nat
        /\ odp[e] \in Int /\ cnt[e].ref \in Int /\ cnt[e].send \in Int
        /\ DOMAIN at[e] = Places
    BY <1>2, <2>1, AtIs
  <2>6. EventOK(e) BY <2>1 DEF IInv
  <2> QED BY <2>1, <2>2, <2>3, <2>4, <2>5, <2>6
<1>13. ASSUME NEW e \in done PROVE EventOK(e)'
  <2>1. /\ e \in Events /\ EventOK(e) /\ Holds(call[c], e)
        /\ at[e].user \in Nat /\ at[e].queue \in Nat /\ at[e].aggregator \in Nat
        /\ at[e].vector \in Nat /\ at[e].marksend \in Nat /\ at[e].markfree \in Nat
        /\ odp[e] \in Int /\ cnt[e].ref \in Int /\ cnt[e].send \in Int
        /\ DOMAIN at[e] = Places
        /\ One(Holds(r, e)) = 1 /\ One(Sends(r, e)) = 1 /\ One(Frees(r, e)) = 0
        /\ \A d \in Cores : /\ AtWrap(call'[d], e) <=> AtWrap(call[d], e)
                            /\ AtUnwrap(call'[d], e) <=> AtUnwrap(call[d], e)
    BY <1>4, <1>12
  <2>2. Apart(n, e) BY <1>4 DEF Apart
  <2>3. at'[e] = [at[e] EXCEPT ![p] = @ + 1] BY <1>1, <2>1
  <2>4. /\ at'[e].user = at[e].user /\ at'[e].vector = at[e].vector
        /\ at'[e].marksend = at[e].marksend /\ at'[e].markfree = at[e].markfree
    BY <1>8, <2>1, <2>3 DEF Places
  <2>5. \/ p = "queue" /\ at'[e].queue = at[e].queue + 1 /\ at'[e].aggregator = at[e].aggregator
        \/ p = "aggregator" /\ at'[e].queue = at[e].queue /\ at'[e].aggregator = at[e].aggregator + 1
    BY <1>8, <2>1, <2>3 DEF Places
  <2>6. CountOK(e)'
    <3>1. One(Holds(n, e)) = 0 /\ One(Sends(n, e)) = 0 /\ One(Frees(n, e)) = 0
      BY <1>4, <2>2, ApartIs DEF One
    <3>2. /\ Spread(at'[e]) - Spread(at[e]) = 1 /\ OnWay(at'[e]) - OnWay(at[e]) = 1
          /\ at'[e].markfree - at[e].markfree = 0
      BY <2>1, <2>4, <2>5 DEF Spread, OnWay
    <3>3. odp'[e] - odp[e] = 0 /\ cnt'[e].ref - cnt[e].ref = 0 /\ cnt'[e].send - cnt[e].send = 0
      BY <1>1, <2>1
    <3>4. /\ One(Holds(r, e)) = 1 /\ One(Sends(r, e)) = 1 /\ One(Frees(r, e)) = 0
          /\ call'[c] = n /\ call[c] = r
      BY <1>0, <1>6, <2>1
    <3>5. Counts(e, c) BY <3>1, <3>2, <3>3, <3>4 DEF Counts
    <3>6. odp'[e] \in Int /\ cnt' \in [Events -> [evgen : Int, ref : Int, send : Int]]
      BY <1>1, <1>2, <2>1 DEF TypeInv
    <3> QED BY <1>2, <1>6, <1>10, <2>1, <3>5, <3>6, CountStep DEF EventOK
  <2>7. ASSUME ~refs[e]
        PROVE  /\ odp[e] = 1 /\ NoPlace(e) /\ GenNow(e) = hdl[e]
               /\ aggr[e] <=> r.pc = "enq"
               /\ cnt[e].evgen = NextGen(hdl[e])
               /\ \A d \in Cores : Apart(call'[d], e)
    <3>1. After(call[c], e) /\ ~AtWrap(call[c], e) /\ (Enqueues(call[c], e) <=> r.pc = "enq")
      BY <1>0, <1>4, <1>5
    <3>2. /\ odp[e] = 1 /\ NoPlace(e) /\ GenNow(e) = hdl[e]
          /\ aggr[e] <=> Enqueues(call[c], e)
          /\ cnt[e].evgen = NextGen(hdl[e])
          /\ \A d \in Cores \ {c} : Apart(call[d], e)
      BY <2>1, <2>7, <3>1, HeldIs
    <3> QED BY <1>6, <2>2, <3>1, <3>2
  <2>8. GenOK(e)'
    <3>1. CASE refs[e] BY <1>1, <3>1 DEF GenOK
    <3>2. CASE ~refs[e]
      <4>1. at'[e].user = 0 /\ at'[e].vector = 0 /\ odp'[e] = 1 BY <1>1, <2>4, <2>7, <3>2 DEF NoPlace
      <4>2. ~Fresh(e)' BY <2>7, <3>2, <4>1 DEF Fresh, Apart
      <4>3. cnt'[e].evgen = NextGen(hdl'[e]) BY <1>1, <2>7, <3>2
      <4>4. \A d \in Cores : ~AtWrap(call'[d], e) /\ ~AtUnwrap(call'[d], e)
        BY <2>7, <3>2 DEF Apart
      <4> QED BY <4>1, <4>2, <4>3, <4>4 DEF GenOK
    <3> QED BY <3>1, <3>2
  <2>9. LowOK(e)' BY <1>1, <2>1 DEF EventOK, LowOK
  <2>10. aggr'[e] = aggr[e] BY <1>1, <2>1
  <2>11. FlagOK(e)'
    <3>1. CASE refs[e] BY <1>1, <2>1, <2>4, <2>10, <3>1 DEF EventOK, FlagOK
    <3>2. CASE ~refs[e]
      <4>1. ~(at'[e].marksend > 0) /\ ~(at'[e].markfree > 0) BY <2>4, <2>7, <3>2 DEF NoPlace
      <4>2. \A d \in Cores : ~After(call'[d], e) /\ ~Enqueues(call'[d], e)
        BY <2>7, <3>2 DEF Apart
      <4>3. at[e].aggregator = 0 BY <2>7, <3>2 DEF NoPlace
      <4>4. aggr'[e] <=> at'[e].aggregator > 0
        <5>1. CASE r.kind = "send"
          <6>1. p = "queue" /\ r.pc = "act" BY <1>0, <1>1, <5>1
          <6> QED BY <2>5, <2>7, <2>10, <3>2, <4>3, <6>1
        <5>2. CASE r.kind = "sendaggr"
          <6>1. p = "aggregator" /\ r.pc = "enq" BY <1>0, <1>1, <5>2
          <6> QED BY <2>5, <2>7, <2>10, <3>2, <4>3, <6>1
        <5> QED BY <1>1, <5>1, <5>2
      <4> QED BY <1>1, <3>2, <4>1, <4>2, <4>4 DEF FlagOK
    <3> QED BY <3>1, <3>2
  <2>12. StaleOK(e)'
    <3>1. CASE refs[e] BY <1>1, <3>1 DEF StaleOK
    <3>2. CASE ~refs[e]
      <4>1. at'[e].queue + at'[e].aggregator > 0 BY <2>1, <2>5
      <4>2. GenNow(e)' = NextGen(hdl[e]) BY <1>1, <4>1 DEF GenNow
      <4>3. PICK s : s = GaveAway(e) OBVIOUS
      <4>4. /\ Len(s) < Period
            /\ \A j \in 1..Len(s) : s[j] = GenBefore(NextGen(hdl[e]), Len(s) + 1 - j)
        BY <2>1, <2>7, <3>2, <4>3, GaveIs
      <4>5. stale'[e] = s BY <1>1, <2>1, <4>3
      <4> QED BY <4>2, <4>4, <4>5 DEF StaleOK
    <3> QED BY <3>1, <3>2
  <2> QED BY <2>6, <2>8, <2>9, <2>11, <2>12 DEF EventOK
<1>14. ASSUME NEW e \in Range(r.es) \ done PROVE EventOK(e)'
  <2>1. /\ e \in Events /\ EventOK(e) /\ Holds(call[c], e)
        /\ One(Holds(r, e)) = 1 /\ One(Sends(r, e)) = 1 /\ One(Frees(r, e)) = 0
        /\ \A d \in Cores : /\ AtWrap(call'[d], e) <=> AtWrap(call[d], e)
                            /\ AtUnwrap(call'[d], e) <=> AtUnwrap(call[d], e)
    BY <1>12
  <2>2. at'[e] = at[e] /\ stale'[e] = stale[e] /\ cnt'[e] = cnt[e] /\ odp'[e] = odp[e]
    BY <1>1, <2>1
  <2>3. /\ After(n, e) /\ n.kind = r.kind /\ ~Before(n, e) /\ ~AtWrap(n, e) /\ ~AtUnwrap(n, e)
        /\ ~Enqueues(n, e)
    BY <1>4
  <2>4. \A d \in Cores : /\ Before(call'[d], e) <=> Before(call[d], e)
                         /\ After(call'[d], e) <=> After(call[d], e)
                         /\ AtWrap(call'[d], e) <=> AtWrap(call[d], e)
                         /\ AtUnwrap(call'[d], e) <=> AtUnwrap(call[d], e)
                         /\ call'[d].kind = call[d].kind
    BY <1>0, <1>5, <1>6, <2>3
  <2>5. CountOK(e)'
    <3>1. /\ Users(call', e) = Users(call, e) /\ Senders(call', e) = Senders(call, e)
          /\ Freers(call', e) = Freers(call, e)
      BY <2>4 DEF Users, Senders, Freers, Holds, Sends, Frees
    <3> QED BY <2>1, <2>2, <3>1 DEF EventOK, CountOK
  <2>6. Fresh(e)' <=> Fresh(e) BY <2>2, <2>4 DEF Fresh
  <2>7. GenOK(e)' BY <1>1, <2>1, <2>2, <2>4, <2>6 DEF EventOK, GenOK
  <2>8. LowOK(e)' BY <1>1, <2>1, <2>4 DEF EventOK, LowOK
  <2>9. FlagOK(e)'
    <3>1. CASE refs[e]
      <4>1. aggr'[e] = aggr[e] BY <1>1, <2>1, <3>1
      <4> QED BY <1>1, <2>1, <2>2, <3>1, <4>1 DEF EventOK, FlagOK
    <3>2. CASE ~refs[e]
      <4>1. /\ NoPlace(e) /\ (aggr[e] <=> Enqueues(call[c], e))
            /\ \A d \in Cores \ {c} : Apart(call[d], e)
        BY <2>1, <3>2, HeldIs
      <4>2. ~aggr'[e]
        <5>1. CASE r.kind = "sendaggr" BY <1>1, <2>1, <3>2, <5>1
        <5>2. CASE r.kind = "send"
          <6>1. r.pc = "act" BY <1>1, <5>2
          <6>2. ~Enqueues(call[c], e) BY <1>0, <1>5, <6>1
          <6> QED BY <1>1, <2>1, <4>1, <5>2, <6>2
        <5> QED BY <1>1, <5>1, <5>2
      <4>3. \A d \in Cores : ~Enqueues(call'[d], e) BY <1>6, <2>3, <4>1 DEF Apart
      <4>4. ~(at'[e].aggregator > 0) BY <2>2, <4>1 DEF NoPlace
      <4> QED BY <1>1, <2>1, <2>2, <2>4, <3>2, <4>2, <4>3, <4>4 DEF EventOK, FlagOK
    <3> QED BY <3>1, <3>2
  <2>10. StaleOK(e)'
    <3>1. GenNow(e)' = GenNow(e) BY <1>1, <2>2 DEF GenNow
    <3> QED BY <1>1, <2>1, <2>2, <3>1 DEF EventOK, StaleOK
  <2> QED BY <2>5, <2>7, <2>8, <2>9, <2>10 DEF EventOK
<1>15. ~alarm' BY <1>1 DEF IInv
<1> QED BY <1>7, <1>9, <1>11, <1>13, <1>14, <1>15 DEF IInv

-----------------------------------------------------------------------------
(* The invariant *)

\* No call uses the event.
LEMMA NotBusyIs ==
  ASSUME IInv, NEW e \in Events, ~Busy(e)
  PROVE  /\ NoHolder(e)
         /\ Cardinality(Users(call, e)) = 0 /\ Cardinality(Senders(call, e)) = 0
         /\ Cardinality(Freers(call, e)) = 0
<1>1. \A c \in Cores : Apart(call[c], e)
  <2> TAKE c \in Cores
  <2>1. CallOK(call[c]) BY DEF IInv, CallInv
  <2>2. CASE call[c].pc = "none" BY <2>1, <2>2, IdleIs
  <2>3. CASE call[c].pc # "none"
    <3>1. /\ DOMAIN call[c].es = 1..Count(call[c]) /\ Count(call[c]) \in {1, 2}
          /\ call[c].i \in 1..Count(call[c])
      BY <2>1, <2>3, InCall
    <3>2. \A j \in DOMAIN call[c].es : call[c].es[j] # e BY DEF Busy
    <3>3. call[c].es[call[c].i] # e BY <3>1, <3>2
    <3> QED BY <3>2, <3>3 DEF Apart, Before, After, AtWrap, AtUnwrap, Enqueues
  <2> QED BY <2>2, <2>3
<1>2. Users(call, e) = {} /\ Senders(call, e) = {} /\ Freers(call, e) = {}
  BY <1>1 DEF Users, Senders, Freers, Holds, Sends, Frees, Apart
<1> QED BY <1>1, <1>2, FS_EmptySet DEF NoHolder

\* Before the first event.
LEMMA InitIs == Init => IInv
<1> SUFFICES ASSUME Init PROVE IInv OBVIOUS
<1>1. /\ EVGEN_INIT + 1 \in Int /\ EVGEN_INIT \in EVGEN_INIT..(EVGEN_MAX - 1)
      /\ EVGEN_INIT + 1 # EVGEN_MAX /\ Period > 0 /\ 0 \in 0..MaxRefs /\ 0 \in Int
  BY EsvAssumption DEF Period
<1>2. TypeInv
  <2>1. cnt \in [Events -> [evgen : Int, ref : Int, send : Int]] BY <1>1 DEF Init
  <2>2. refs \in [Events -> BOOLEAN] /\ aggr \in [Events -> BOOLEAN] BY DEF Init
  <2>3. hdl \in [Events -> EVGEN_INIT..(EVGEN_MAX - 1)] /\ odp \in [Events -> 0..MaxRefs]
    BY <1>1 DEF Init
  <2>4. op \in [Events -> {"other", "marksend", "markfree"}] BY DEF Init
  <2>5. at \in [Events -> [Places -> Nat]] BY DEF Init, Nowhere
  <2>6. DOMAIN stale = Events /\ \A e \in Events : stale[e] \in Seq(Int) BY DEF Init
  <2>7. DOMAIN call = Cores BY DEF Init
  <2> QED BY <2>1, <2>2, <2>3, <2>4, <2>5, <2>6, <2>7 DEF TypeInv
<1>3. CallInv BY DEF Init, CallInv, CallOK
<1>4. \A c \in Cores : \A e : Apart(call[c], e) /\ ~Holds(call[c], e) /\ ~Sends(call[c], e)
                              /\ ~Frees(call[c], e)
  BY NoCallHolds DEF Init, Apart
<1>5. ASSUME NEW e \in Events PROVE EventOK(e)
  <2>1. Users(call, e) = {} /\ Senders(call, e) = {} /\ Freers(call, e) = {}
    BY <1>4 DEF Users, Senders, Freers
  <2>2. /\ Cardinality(Users(call, e)) = 0 /\ Cardinality(Senders(call, e)) = 0
        /\ Cardinality(Freers(call, e)) = 0
    BY <2>1, FS_EmptySet
  <2>3. /\ at[e].user = 0 /\ at[e].queue = 0 /\ at[e].aggregator = 0 /\ at[e].vector = 0
        /\ at[e].marksend = 0 /\ at[e].markfree = 0
    BY DEF Init, Nowhere, Places
  <2>4. /\ odp[e] = 0 /\ cnt[e].ref = 0 /\ cnt[e].send = 0 /\ cnt[e].evgen = EVGEN_INIT + 1
        /\ hdl[e] = EVGEN_INIT /\ refs[e] = FALSE /\ aggr[e] = FALSE /\ stale[e] = <<>>
    BY DEF Init
  <2>5. CountOK(e) BY <2>2, <2>3, <2>4 DEF CountOK
  <2>6. ~Fresh(e) BY <1>4, <2>3 DEF Fresh, Apart
  <2>7. NextGen(hdl[e]) = EVGEN_INIT + 1 BY <1>1, <2>4, EsvAssumption DEF NextGen
  <2> DEFINE Off == \A c \in Cores : /\ ~After(call[c], e) /\ ~Enqueues(call[c], e)
                                     /\ ~AtWrap(call[c], e) /\ ~AtUnwrap(call[c], e)
  <2>8. Off BY <1>4 DEF Apart
  <2>9. GenOK(e)
    <3>1. odp[e] <= 1 BY <2>4
    <3> QED BY <2>4, <2>6, <2>7, <2>8, <3>1 DEF GenOK
  <2>10. LowOK(e)
    <3>1. cnt[e].evgen >= EVGEN_INIT - 1 /\ cnt[e].evgen >= EVGEN_INIT BY <2>4, EsvAssumption
    <3> QED BY <2>8, <3>1 DEF LowOK
  <2>11. FlagOK(e)
    <3>1. ~(at[e].aggregator > 0) /\ ~(at[e].marksend > 0) /\ ~(at[e].markfree > 0) BY <2>3
    <3> QED BY <2>4, <2>8, <3>1 DEF FlagOK
  <2>12. StaleOK(e) BY <1>1, <2>4 DEF StaleOK
  <2> QED BY <2>5, <2>9, <2>10, <2>11, <2>12 DEF EventOK
<1> QED BY <1>2, <1>3, <1>5 DEF IInv, Init

\* Every step keeps the invariant.
LEMMA StepIs ==
  ASSUME Regular, IInv, [Next]_vars
  PROVE  IInv'
<1>1. CASE UNCHANGED vars
  <2>1. TypeInv' BY <1>1 DEF vars, IInv, TypeInv
  <2>2. CallInv' BY <1>1 DEF vars, IInv, CallInv
  <2>3. ASSUME NEW e \in Events PROVE EventOK(e)'
    <3>1. EventSame(e) /\ EventOK(e) BY <1>1 DEF vars, EventSame, IInv
    <3>2. \A c \in Cores : Alike(call[c], call'[c], e) BY <1>1 DEF vars, Alike
    <3> QED BY <3>1, <3>2, SameOK
  <2> QED BY <1>1, <2>1, <2>2, <2>3 DEF vars, IInv
<1>2. ASSUME NEW e \in Events,
             \/ Alloc(e) \/ ExtDispatch(e) \/ EventRef(e)
             \/ DeliverMarked(e) \/ FreeMarked(e) \/ Dispatch(e)
             \/ DispatchAggr(e) \/ SendVector(e) \/ DispatchVector(e)
      PROVE  IInv'
  BY <1>2, AllocStep, ExtDispatchStep, EventRefStep, DeliverMarkedStep, FreeMarkedStep, DispatchStep,
     DispatchAggrStep, SendVectorStep, DispatchVectorStep
<1>3. ASSUME NEW c \in Cores, NEW kind \in {"send", "sendaggr", "free"}, NEW es \in Batches,
             Call(c, kind, es)
      PROVE  IInv'
  <2>1. kind \in Kinds /\ kind \notin {"marksend", "markfree"} BY DEF Kinds
  <2> QED BY <1>3, <2>1, CallBegins
<1>4. ASSUME NEW c \in Cores, NEW kind \in {"marksend", "markfree"}, NEW e \in Events,
             Call(c, kind, <<e>>)
      PROVE  IInv'
  <2>1. kind \in Kinds BY DEF Kinds
  <2>2. <<e>> \in Batches /\ Len(<<e>>) = 1 BY DEF Batches
  <2> QED BY <1>4, <2>1, <2>2, CallBegins
<1>5. ASSUME NEW c \in Cores,
             \/ \E kind \in Unmark, e \in Events : UnmarkCall(c, kind, e)
             \/ Usr2em(c) \/ Wrap(c) \/ OdpFree(c) \/ AggrFlag(c) \/ Marked(c)
             \/ \E m \in 0..2 : Enqueue(c, m)
             \/ Revert(c) \/ Unwrap(c)
      PROVE  IInv'
  BY <1>5, UnmarkCallStep, Usr2emStep, WrapStep, OdpFreeStep, AggrFlagStep, MarkedStep, EnqueueStep,
     RevertStep, UnwrapStep
<1> QED BY <1>1, <1>2, <1>3, <1>4, <1>5 DEF Next

\* An error is reported or it is not.
LEMMA AlarmIs ==
  ASSUME alarm \in BOOLEAN, [Next]_vars
  PROVE  alarm' \in BOOLEAN
<1>1. CASE UNCHANGED vars BY <1>1 DEF vars
<1>2. \A w, h, b : BadEm2usr(w) \in BOOLEAN /\ BadUsr2em(w, h, b) \in BOOLEAN
  BY DEF BadEm2usr, BadUsr2em
<1>3. \A e, w : EsvEm2usr(e, w) => alarm' \in BOOLEAN BY <1>2 DEF EsvEm2usr
<1>4. ASSUME NEW e \in Events, Alloc(e) \/ ExtDispatch(e) \/ EventRef(e)
      PROVE  alarm' \in BOOLEAN
  BY <1>2, <1>3, <1>4 DEF Alloc, ExtDispatch, EventRef, EsvEvinit, EsvUpdateExt
<1>5. ASSUME NEW e \in Events, \/ DeliverMarked(e) \/ FreeMarked(e) \/ Dispatch(e)
                               \/ DispatchAggr(e) \/ SendVector(e) \/ DispatchVector(e)
      PROVE  alarm' \in BOOLEAN
  BY <1>3, <1>5 DEF DeliverMarked, FreeMarked, Dispatch, DispatchAggr, SendVector, DispatchVector,
                    AggrInner
<1>6. ASSUME NEW c \in Cores,
             \/ \E kind, es : Call(c, kind, es)
             \/ \E kind, e : UnmarkCall(c, kind, e)
             \/ Usr2em(c) \/ Wrap(c) \/ OdpFree(c) \/ AggrFlag(c) \/ Marked(c)
      PROVE  alarm' \in BOOLEAN
  <2>1. ASSUME \E kind, es : Call(c, kind, es) PROVE alarm' \in BOOLEAN BY <2>1 DEF Call
  <2>2. ASSUME \E kind, e : UnmarkCall(c, kind, e) PROVE alarm' \in BOOLEAN
    BY <2>2 DEF UnmarkCall
  <2>3. ASSUME Usr2em(c) PROVE alarm' \in BOOLEAN BY <1>2, <2>3 DEF Usr2em
  <2>4. ASSUME Wrap(c) PROVE alarm' \in BOOLEAN BY <2>4 DEF Wrap
  <2>5. ASSUME OdpFree(c) PROVE alarm' \in BOOLEAN BY <2>5 DEF OdpFree
  <2>6. ASSUME AggrFlag(c) PROVE alarm' \in BOOLEAN BY <2>6 DEF AggrFlag
  <2>7. ASSUME Marked(c) PROVE alarm' \in BOOLEAN BY <2>7 DEF Marked
  <2> QED BY <1>6, <2>1, <2>2, <2>3, <2>4, <2>5, <2>6, <2>7
<1>7. ASSUME NEW c \in Cores, Revert(c) \/ Unwrap(c) \/ \E m \in 0..2 : Enqueue(c, m)
      PROVE  alarm' \in BOOLEAN
  <2>1. \A e : Reverted(c, e) => alarm' \in BOOLEAN BY <1>2 DEF Reverted
  <2>2. ASSUME Revert(c) PROVE alarm' \in BOOLEAN BY <2>1, <2>2 DEF Revert
  <2>3. ASSUME Unwrap(c) PROVE alarm' \in BOOLEAN BY <2>1, <2>3 DEF Unwrap
  <2>4. ASSUME \E m \in 0..2 : Enqueue(c, m) PROVE alarm' \in BOOLEAN BY <2>4 DEF Enqueue
  <2> QED BY <1>7, <2>2, <2>3, <2>4
<1> QED BY <1>1, <1>4, <1>5, <1>6, <1>7 DEF Next

\* What the inductive invariant says is what is wanted of the counters, the flags
\* and the handles.
LEMMA InvIs ==
  ASSUME IInv, alarm \in BOOLEAN
  PROVE  EsvInv
<1>1. TypeInv /\ CallInv BY DEF IInv
<1>2. \A e \in Events : \A p \in Places : at[e][p] \in 0..MaxRefs
  <2> TAKE e \in Events
  <2>1. PICK nU : nU = Cardinality(Users(call, e)) OBVIOUS
  <2>2. nU \in Nat BY <2>1, HoldersIs
  <2>3. odp[e] = at[e].user + at[e].queue + at[e].aggregator + at[e].vector + at[e].marksend
                  + at[e].markfree + nU
    BY <2>1 DEF IInv, EventOK, CountOK
  <2>4. /\ at[e].user \in Nat /\ at[e].queue \in Nat /\ at[e].aggregator \in Nat
        /\ at[e].vector \in Nat /\ at[e].marksend \in Nat /\ at[e].markfree \in Nat
        /\ odp[e] \in 0..MaxRefs /\ MaxRefs \in Nat
    BY <1>1, AtIs
  <2>5. /\ at[e].user \in 0..MaxRefs /\ at[e].queue \in 0..MaxRefs /\ at[e].aggregator \in 0..MaxRefs
        /\ at[e].vector \in 0..MaxRefs /\ at[e].marksend \in 0..MaxRefs
        /\ at[e].markfree \in 0..MaxRefs
    BY <2>2, <2>3, <2>4
  <2> QED BY <2>5 DEF Places
<1>3. TypeOK
  <2>1. at \in [Events -> [Places -> 0..MaxRefs]]
    <3>1. \A e \in Events : at[e] \in [Places -> 0..MaxRefs] BY <1>1, <1>2 DEF TypeInv
    <3> QED BY <1>1, <3>1 DEF TypeInv
  <2>2. \A c \in Cores : call[c].kind \in Kinds \cup Unmark \cup {"none"}
    BY <1>1 DEF CallInv, CallOK, NoCall
  <2> QED BY <1>1, <2>1, <2>2 DEF TypeInv, TypeOK
<1>4. CountersMatchHolders
  <2>1. ASSUME NEW e \in Events, ~Busy(e)
        PROVE  /\ Word(cnt[e]).ref = odp[e] - at[e].markfree
               /\ Word(cnt[e]).send = at[e].queue + at[e].aggregator + at[e].marksend
    <3>1. /\ Cardinality(Senders(call, e)) = 0 /\ Cardinality(Freers(call, e)) = 0
      BY <2>1, NotBusyIs
    <3>2. /\ cnt[e].evgen \in Int /\ cnt[e].ref \in Int /\ cnt[e].send \in Int
          /\ at[e].queue \in Nat /\ at[e].aggregator \in Nat /\ at[e].marksend \in Nat
          /\ at[e].markfree \in Nat /\ odp[e] \in Int
      BY <1>1, AtIs
    <3>3. cnt[e].ref = odp[e] - at[e].markfree
          /\ cnt[e].send = at[e].queue + at[e].aggregator + at[e].marksend
      BY <3>1, <3>2 DEF IInv, EventOK, CountOK
    <3>4. cnt[e].evgen >= 0 BY <3>2, EsvAssumption DEF IInv, EventOK, LowOK
    <3>5. cnt[e] \in [evgen : Int, ref : Int, send : Int] BY <1>1 DEF TypeInv
    <3> QED BY <3>3, <3>4, <3>5, WordIs
  <2> QED BY <2>1 DEF CountersMatchHolders
<1>5. AggrFlagInFlight
  <2> SUFFICES ASSUME NEW e \in Events, aggr[e], ~Busy(e) PROVE at[e].aggregator > 0
    BY DEF AggrFlagInFlight
  <2>1. NoHolder(e) BY NotBusyIs
  <2>2. FlagOK(e) BY DEF IInv, EventOK
  <2> QED BY <2>1, <2>2 DEF FlagOK, NoHolder, Apart
<1> QED BY <1>3, <1>4, <1>5 DEF EsvInv

\* A handle that has been given away is not that of now.
LEMMA BeforeIs ==
  ASSUME NEW g \in EVGEN_INIT..(EVGEN_MAX - 1), NEW n \in Nat, n < Period, NEW j \in 1..n
  PROVE  GenBefore(g, n + 1 - j) # g
BY EsvAssumption DEF GenBefore, Period

\* What a check sees that reports.
LEMMA ReportedIs ==
  ASSUME NEW v \in [evgen : Int, ref : Int, send : Int], v.evgen >= 0,
         NEW kind \in {"send", "free"}, NEW h, NEW isref,
         \/ v.send >= v.ref
         \/ ~isref /\ v.evgen + 1 < Width /\ h # v.evgen
  PROVE  BadUsr2em(Usr2emSeen(Adds(kind, v)), h, isref)
<1>1. PICK w, d : w = Adds(kind, v) /\ d = Word(w) OBVIOUS
<1>2. v.evgen \in Int /\ v.ref \in Int /\ v.send \in Int OBVIOUS
<1>3. /\ w \in [evgen : Int, ref : Int, send : Int] /\ w.evgen = v.evgen + 1
      /\ v.send >= v.ref => w.send > w.ref
  <2>1. CASE kind = "free"
    <3>1. w = [evgen |-> v.evgen + 1, ref |-> v.ref + (-1), send |-> v.send + 0]
      BY <1>1, <2>1 DEF Adds, FreeAdd, Plus
    <3> QED BY <1>2, <3>1
  <2>2. CASE kind = "send"
    <3>1. w = [evgen |-> v.evgen + 1, ref |-> v.ref + 0, send |-> v.send + 1]
      BY <1>1, <2>2 DEF Adds, SendAdd, Plus
    <3> QED BY <1>2, <3>1
  <2> QED BY <2>1, <2>2
<1>4. w.evgen >= 0 BY <1>2, <1>3
<1>5. /\ d.ref = w.ref /\ d.send = w.send /\ d.evgen \in Int
      /\ w.evgen < Width => d.evgen = w.evgen
  BY <1>1, <1>3, <1>4, WordIs
<1>6. d = [evgen |-> d.evgen, ref |-> d.ref, send |-> d.send] BY <1>1 DEF Word
<1>7. PICK s : s = Usr2emSeen(w) OBVIOUS
<1>8. s = [evgen |-> d.evgen - 1, ref |-> d.ref, send |-> d.send]
  BY <1>1, <1>6, <1>7 DEF Usr2emSeen
<1>9. CASE v.send >= v.ref
  <2>1. s.send > s.ref BY <1>3, <1>5, <1>8, <1>9
  <2> QED BY <1>1, <1>7, <2>1 DEF BadUsr2em
<1>10. CASE ~isref /\ v.evgen + 1 < Width /\ h # v.evgen
  <2>1. s.evgen = v.evgen BY <1>2, <1>3, <1>5, <1>8, <1>10
  <2> QED BY <1>1, <1>7, <1>10, <2>1 DEF BadUsr2em
<1> QED BY <1>9, <1>10

\* What the invariant says of a misuse.
LEMMA MisuseIs ==
  ASSUME IInv
  PROVE  MisuseReported
<1>1. TypeInv /\ CallInv BY DEF IInv
<1>2. ASSUME NEW e \in Events, ~Busy(e), ~refs[e], at[e].marksend + at[e].markfree = 0,
             NEW i \in DOMAIN stale[e]
      PROVE  Reported(e, stale[e][i])
  <2>1. EventOK(e) /\ NoHolder(e) /\ Cardinality(Users(call, e)) = 0 BY <1>2, NotBusyIs DEF IInv
  <2>2. /\ at[e].user \in Nat /\ at[e].queue \in Nat /\ at[e].aggregator \in Nat
        /\ at[e].vector \in Nat /\ at[e].marksend \in Nat /\ at[e].markfree \in Nat
        /\ odp[e] \in Int /\ hdl[e] \in EVGEN_INIT..(EVGEN_MAX - 1) /\ cnt[e].evgen \in Int
    BY <1>1, <1>2, AtIs
  <2>3. odp[e] = at[e].user + at[e].queue + at[e].aggregator + at[e].vector /\ odp[e] <= 1
    <3>1. odp[e] = at[e].user + at[e].queue + at[e].aggregator + at[e].vector + at[e].marksend
                    + at[e].markfree + 0
      BY <2>1 DEF EventOK, CountOK
    <3>2. odp[e] <= 1 BY <1>2, <2>1 DEF EventOK, GenOK
    <3>3. at[e].marksend = 0 /\ at[e].markfree = 0 BY <1>2, <2>2
    <3> QED BY <2>2, <3>1, <3>2, <3>3
  <2>4. Fresh(e) <=> at[e].user + at[e].vector > 0 BY <2>1 DEF Fresh, NoHolder, Apart
  <2>5. cnt[e].evgen = IF Fresh(e) THEN hdl[e] ELSE NextGen(hdl[e])
    BY <1>2, <2>1 DEF EventOK, GenOK, NoHolder, Apart
  <2>6. GenNow(e) = cnt[e].evgen
    <3>1. Fresh(e) <=> ~(at[e].queue + at[e].aggregator > 0 \/ odp[e] = 0)
      BY <2>2, <2>3, <2>4
    <3> QED BY <2>5, <3>1 DEF GenNow
  <2>7. cnt[e].evgen \in EVGEN_INIT..(EVGEN_MAX - 1) BY <2>2, <2>5, GensAre
  <2>8. stale[e][i] # cnt[e].evgen
    <3>1. PICK n : n = Len(stale[e]) OBVIOUS
    <3>2. n \in Nat /\ i \in 1..n /\ n < Period /\ stale[e][i] = GenBefore(cnt[e].evgen, n + 1 - i)
      <4>1. stale[e] \in Seq(Int) BY <1>1 DEF TypeInv
      <4>2. n \in Nat /\ DOMAIN stale[e] = 1..n BY <3>1, <4>1
      <4> QED BY <1>2, <2>1, <2>6, <3>1, <4>2 DEF EventOK, StaleOK
    <3> QED BY <2>7, <3>2, BeforeIs
  <2>9. cnt[e].evgen >= 0 /\ cnt[e].evgen + 1 < Width BY <2>7, EsvAssumption
  <2>10. cnt[e] \in [evgen : Int, ref : Int, send : Int] BY <1>1 DEF TypeInv
  <2> QED BY <1>2, <2>8, <2>9, <2>10, ReportedIs DEF Reported
<1>3. ASSUME NEW e \in Events, ~Busy(e), refs[e], at[e].user + at[e].vector = 0
      PROVE  Reported(e, hdl[e])
  <2>1. EventOK(e) /\ /\ Cardinality(Users(call, e)) = 0 /\ Cardinality(Senders(call, e)) = 0
                      /\ Cardinality(Freers(call, e)) = 0
    BY <1>3, NotBusyIs DEF IInv
  <2>2. /\ at[e].user \in Nat /\ at[e].queue \in Nat /\ at[e].aggregator \in Nat
        /\ at[e].vector \in Nat /\ at[e].marksend \in Nat /\ at[e].markfree \in Nat
        /\ odp[e] \in Int /\ cnt[e].evgen \in Int /\ cnt[e].ref \in Int /\ cnt[e].send \in Int
    BY <1>1, <1>3, AtIs
  <2>3. /\ odp[e] = at[e].user + at[e].queue + at[e].aggregator + at[e].vector + at[e].marksend
                     + at[e].markfree + 0
        /\ cnt[e].ref = odp[e] - at[e].markfree - 0
        /\ cnt[e].send = at[e].queue + at[e].aggregator + at[e].marksend + 0
    BY <2>1 DEF EventOK, CountOK
  <2>4. at[e].user = 0 /\ at[e].vector = 0 BY <1>3, <2>2
  <2>5. cnt[e].send >= cnt[e].ref BY <2>2, <2>3, <2>4
  <2>6. cnt[e].evgen >= 0 BY <2>1, <2>2, EsvAssumption DEF EventOK, LowOK
  <2>7. cnt[e] \in [evgen : Int, ref : Int, send : Int] BY <1>1 DEF TypeInv
  <2> QED BY <2>5, <2>6, <2>7, ReportedIs DEF Reported
<1> QED BY <1>2, <1>3 DEF MisuseReported

-----------------------------------------------------------------------------
(* The theorems *)

\* The inductive invariant.
THEOREM EsvInductive == ASSUME Regular PROVE Spec => [](IInv /\ alarm \in BOOLEAN)
<1>1. Init => IInv /\ alarm \in BOOLEAN BY InitIs DEF Init
<1>2. IInv /\ alarm \in BOOLEAN /\ [Next]_vars => (IInv /\ alarm \in BOOLEAN)'
  BY StepIs, AlarmIs
<1> QED BY <1>1, <1>2, PTL DEF Spec

\* The counter word, the handle and the flags of an event agree with where its
\* references are (evstate_cnt_t, ev_hdr->flags).
THEOREM EsvInvHolds == ASSUME Regular PROVE Spec => []EsvInv
<1>1. IInv /\ alarm \in BOOLEAN => EsvInv BY InvIs
<1>2. Spec => [](IInv /\ alarm \in BOOLEAN) BY EsvInductive
<1> QED BY <1>1, <1>2, PTL

\* ESV reports no error of an application that uses only events it owns.
THEOREM NoFalseAlarmHolds == ASSUME Regular PROVE Spec => []NoFalseAlarm
<1>1. IInv => NoFalseAlarm BY DEF IInv, NoFalseAlarm
<1>2. Spec => [](IInv /\ alarm \in BOOLEAN) BY EsvInductive
<1> QED BY <1>1, <1>2, PTL

\* A handle that was given away in the last round of generations is reported when
\* it is used again, and a reference when the application has none.
THEOREM MisuseReportedHolds == ASSUME Regular PROVE Spec => []MisuseReported
<1>1. IInv => MisuseReported BY MisuseIs
<1>2. Spec => [](IInv /\ alarm \in BOOLEAN) BY EsvInductive
<1> QED BY <1>1, <1>2, PTL
=============================================================================
