-------------------------------- MODULE Hooks --------------------------------
(***************************************************************************)
(* The callback tables of em_hooks.c: API hooks, idle hooks and dispatch   *)
(* callbacks.  Updates are serialized by a lock; the callers of the hooks  *)
(* take no lock.  An update therefore works on a copy, in the next of a    *)
(* ring of tables, and switches the active-table pointer to it.            *)
(*                                                                         *)
(* One of the eight hook types: they have a storage each and share no      *)
(* state.  A table is read entry by entry, so an update that works on a    *)
(* table somebody still reads would be seen half done.                     *)
(***************************************************************************)
EXTENDS Integers, Sequences, SequencesExt

CONSTANTS
  Fns, NULL,    \* the callback functions
  CbMax,        \* EM_CALLBACKS_MAX
  NumTbl,       \* API_HOOKS_MAX_TBL_SIZE
  Readers,      \* the cores that call hooks
  Writers,      \* the cores that register and unregister them
  ReadersKeepUp,\* a caller is done before the ring of tables wraps around
  MaxUpdates    \* bound: registrations and removals

Entries  == 1..CbMax
Tables   == 0..NumTbl - 1
NoOne    == "no one"

ASSUME HooksAssumption ==
  /\ CbMax \in Nat \ {0} /\ NumTbl \in Nat \ {0, 1} /\ MaxUpdates \in Nat
  /\ NULL \notin Fns /\ NoOne \notin Writers /\ ReadersKeepUp \in BOOLEAN

VARIABLES
  tbl,      \* hook_tbl_storage[]
  idx,      \* hook_storage_t::idx
  active,   \* em_shm->..._hook_tbl, the index of the table it points to
  lock,     \* hook_storage_t::lock
  upd,      \* the update under way: what it adds or removes, and its progress
  reader,   \* of each caller: its table, the next entry, what it has called,
            \* and the registrations as they were when it started
  registered, \* the functions registered, in order (what the API promises)
  updates   \* updates so far

hvars == <<tbl, idx, active, lock, upd, reader, registered, updates>>

NoUpd    == [op |-> "none", fn |-> NULL]
NoReader == [on |-> FALSE, t |-> 0, i |-> 1, called |-> <<>>, start |-> <<>>]

\* hooks_init() without hooks in the configuration
HooksInit ==
  /\ tbl = [t \in Tables |-> [s \in Entries|-> NULL]]
  /\ idx = 0 /\ active = 0 /\ lock = NoOne /\ upd = NoUpd
  /\ reader = [r \in Readers |-> NoReader]
  /\ registered = <<>> /\ updates = 0

NextTbl(i) == IF i + 1 >= NumTbl THEN 0 ELSE i + 1

\* The first entry of a table that holds fn, if there is one
First(t, fn) == SelectInSeq(t, LAMBDA f : f = fn)

\* pack_hook_tbl(): the entries after the i-th move one place down
pack_hook_tbl(t, i) == [s \in Entries|-> IF s < i THEN t[s]
                                         ELSE IF s < CbMax THEN t[s + 1] ELSE NULL]

-----------------------------------------------------------------------------
(* Updates *)

\* hook_register() and hook_unregister(): the lock is taken ...
Lock(w, op, fn) ==
  /\ lock = NoOne /\ updates < MaxUpdates
  /\ lock' = w /\ upd' = [op |-> op, fn |-> fn] /\ updates' = updates + 1
  /\ UNCHANGED <<tbl, idx, active, reader, registered>>
hook_register(w, fn)   == Lock(w, "register", fn)
hook_unregister(w, fn) == Lock(w, "unregister", fn)

\* ... the active table is copied to the next ...
Copy(w) ==
  /\ upd.op \in {"register", "unregister"} /\ lock = w
  /\ ReadersKeepUp => \A r \in Readers : reader[r].on => reader[r].t # NextTbl(idx)
  /\ tbl' = [tbl EXCEPT ![NextTbl(idx)] = tbl[idx]]
  /\ upd' = [upd EXCEPT !.op = IF @ = "register" THEN "change_register" ELSE "change_unregister"]
  /\ UNCHANGED <<idx, active, lock, reader, registered, updates>>

\* Mutant: the entries after a removed one stay where they are
Unregistered_Gap(t, fn) == [t EXCEPT ![First(t, fn)] = NULL]

Registered(t, fn)   == [t EXCEPT ![First(t, NULL)] = fn]
Unregistered(t, fn) == pack_hook_tbl(t, First(t, fn))

\* Mutant: an update that fails returns without the unlock
Change_Locked(w) ==
  LET new  == NextTbl(idx)
      what == IF upd.op = "change_register" THEN NULL ELSE upd.fn
  IN  /\ upd.op \in {"change_register", "change_unregister"} /\ lock = w
      /\ IF First(tbl[new], what) = 0
         THEN upd' = NoUpd /\ UNCHANGED <<tbl, lock>>
         ELSE /\ tbl' = [tbl EXCEPT ![new] = IF upd.op = "change_register"
                                             THEN Registered(@, upd.fn) ELSE Unregistered(@, upd.fn)]
              /\ upd' = [upd EXCEPT !.op = IF @ = "change_register" THEN "add" ELSE "remove"]
              /\ UNCHANGED lock
      /\ UNCHANGED <<idx, active, reader, registered, updates>>

\* ... the copy is changed, unless there is no room or nothing to remove ...
Change(w) ==
  LET new  == NextTbl(idx)
      what == IF upd.op = "change_register" THEN NULL ELSE upd.fn
  IN  /\ upd.op \in {"change_register", "change_unregister"} /\ lock = w
      /\ IF First(tbl[new], what) = 0
         THEN lock' = NoOne /\ upd' = NoUpd /\ UNCHANGED tbl
         ELSE /\ tbl' = [tbl EXCEPT ![new] = IF upd.op = "change_register"
                                             THEN Registered(@, upd.fn) ELSE Unregistered(@, upd.fn)]
              /\ upd' = [upd EXCEPT !.op = IF @ = "change_register" THEN "add" ELSE "remove"]
              /\ UNCHANGED lock
      /\ UNCHANGED <<idx, active, reader, registered, updates>>

\* ... and made the active one
Switch(w) ==
  /\ upd.op \in {"add", "remove"} /\ lock = w
  /\ active' = NextTbl(idx) /\ idx' = NextTbl(idx)
  /\ registered' = IF upd.op = "remove" THEN RemoveFirst(registered, upd.fn)
                   ELSE IF upd.fn = NULL THEN registered ELSE Append(registered, upd.fn)
  /\ lock' = NoOne /\ upd' = NoUpd
  /\ UNCHANGED <<tbl, reader, updates>>

-----------------------------------------------------------------------------
(* Calls of the hooks *)

\* call_api_hooks_...(), call_idle_hooks_...(), dispatch_enter_cb() and
\* dispatch_exit_cb(): the pointer is read once
StartCall(r) ==
  /\ ~reader[r].on
  /\ reader' = [reader EXCEPT ![r] = [on |-> TRUE, t |-> active, i |-> 1, called |-> <<>>,
                                      start |-> registered]]
  /\ UNCHANGED <<tbl, idx, active, lock, upd, registered, updates>>

Done(r) == reader[r].i <= CbMax => tbl[reader[r].t][reader[r].i] = NULL

\* Mutant: the active table is looked up for every entry
CallNext_Reload(r) ==
  /\ reader[r].on /\ ~Done(r)
  /\ reader' = [reader EXCEPT ![r].called = Append(@, tbl[reader[r].t][reader[r].i]),
                              ![r].i = @ + 1, ![r].t = active]
  /\ UNCHANGED <<tbl, idx, active, lock, upd, registered, updates>>

\* One entry after the other, to the first that is NULL
CallNext(r) ==
  /\ reader[r].on /\ ~Done(r)
  /\ reader' = [reader EXCEPT ![r] = [reader[r] EXCEPT
                  !.called = Append(@, tbl[reader[r].t][reader[r].i]), !.i = @ + 1]]
  /\ UNCHANGED <<tbl, idx, active, lock, upd, registered, updates>>

EndCall(r) ==
  /\ reader[r].on /\ Done(r)
  /\ reader' = [reader EXCEPT ![r] = NoReader]
  /\ UNCHANGED <<tbl, idx, active, lock, upd, registered, updates>>

HooksNext ==
  \/ \E w \in Writers, fn \in Fns \cup {NULL} : hook_register(w, fn) \/ hook_unregister(w, fn)
  \/ \E w \in Writers : Copy(w) \/ Change(w) \/ Switch(w)
  \/ \E r \in Readers : StartCall(r) \/ CallNext(r) \/ EndCall(r)

HooksSpec == HooksInit /\ [][HooksNext]_hvars

-----------------------------------------------------------------------------
(* Properties *)

\* Types of the ring of tables; an update is under way exactly while its
\* storage is locked
HooksTypeOK ==
  /\ tbl \in [Tables -> [Entries-> Fns \cup {NULL}]]
  /\ idx \in Tables /\ active \in Tables /\ registered \in Seq(Fns)
  /\ lock \in Writers \cup {NoOne} /\ (lock = NoOne <=> upd = NoUpd)

\* The table behind the active pointer holds the registered functions in the
\* order of registration and nothing behind them: an update that is under way
\* or that failed is not seen (hook_register(), hook_unregister())
ActiveIsRegistered ==
  \A s \in Entries: tbl[active][s] = IF s <= Len(registered) THEN registered[s] ELSE NULL

\* A core that calls the hooks calls exactly the ones that were registered when
\* it started, each once and in the order of registration, while others are
\* registered and removed, as long as it ends before the ring of tables comes
\* round to its own (ReadersKeepUp): em_hooks.c does not wait for readers
CallsSnapshot ==
  \A r \in Readers : reader[r].on =>
    /\ IsPrefix(reader[r].called, reader[r].start)
    /\ Done(r) => reader[r].called = reader[r].start

\* The active table is what is registered, and a caller sees one table only.
HooksInv == HooksTypeOK /\ ActiveIsRegistered /\ CallsSnapshot
=============================================================================
