---------------------------- MODULE SqliteStore ----------------------------
(***************************************************************************)
(* The SQLite store of tokenledger (tokenledger/ext/sqlite_store.py): the  *)
(* tables records and budgets, and beside them, in memory only, the        *)
(* running totals and the budgets that everything is charged against.      *)
(*                                                                         *)
(* The store's lock is held for the whole of a method, so one action is one*)
(* method call.  What methods share beyond it is the database: every thread*)
(* has a connection of its own, a statement or a commit may fail in any of *)
(* them, and a transaction whose commit failed is either rolled back by    *)
(* SQLite or stays open, with the write lock, until its thread writes      *)
(* again, closes its connection, or the process ends.                      *)
(*                                                                         *)
(* A row is its record_id; the fields that matter are constants of it.     *)
(* Operators commented "Mistake" are wrong on purpose and used nowhere.    *)
(***************************************************************************)
EXTENDS Integers, FiniteSets

CONSTANTS
  Threads,      \* threads of the process, each with its connection
  Records,      \* record_ids
  Keys,         \* the "scope:scope_id" keys of running_totals
  Rank,         \* position of a key in the list of dimensions
  KeysOf,       \* the keys a record counts towards, none if not billable
  Stamp,        \* timestamp of a record, in days
  MaxRecords,   \* cap of the table that compact enforces
  AgeChoices,   \* max_age_days passed to compact
  MaxCalls,     \* bound: records passed to insert
  MaxTime,      \* bound: the clock, in days
  MaxFaults,    \* bound: statements and commits that fail
  MaxRestarts   \* bound: ends of the process

ASSUME SqliteConstants ==
  /\ IsFiniteSet(Records)
  /\ Rank \in [Keys -> Nat]
  /\ KeysOf \in [Records -> SUBSET Keys]
  /\ Stamp \in [Records -> Nat]
  /\ MaxRecords \in Nat
  /\ AgeChoices \subseteq Int
  /\ MaxCalls \in Nat /\ MaxTime \in Nat /\ MaxFaults \in Nat /\ MaxRestarts \in Nat

VARIABLES
  db,         \* rows, budgets: what the database holds, committed
  draft,      \* the same as the connection with an open transaction sees it
  holder,     \* the thread whose connection has one, if any
  mem,        \* totals, entry: self.running_totals
  cycle,      \* self.budgets: the reset_cycle of each key
  owed,       \* rows, budgets: writes that returned and nothing took back (history)
  calls, now, faults, restarts

vars == <<db, draft, holder, mem, cycle, owed, calls, now, faults, restarts>>

Cycles == {"none", "never", "windowed"}
Entries == {"missing", "empty", "counted"}
Content == [rows: SUBSET Records, budgets: [Keys -> Cycles]]
Empty == [rows |-> {}, budgets |-> [k \in Keys |-> "none"]]
NoTotals ==
  [totals |-> [k \in Keys |-> [r \in Records |-> 0]], entry |-> [k \in Keys |-> "missing"]]

-----------------------------------------------------------------------------
(* The running totals: for each key, how often each record is in the sum *)

\* An entry that is the empty dict makes agg["requests"] += 1 raise KeyError.
Poisoned(r) == {k \in KeysOf[r] : mem.entry[k] = "empty"}
Sound(r) == Poisoned(r) = {}
Reached(r) == {k \in KeysOf[r] : \A p \in Poisoned(r) : Rank[k] < Rank[p]}
\* _update_running_totals of each of some records, up to the KeyError.
UpdateRunningTotals(some) ==
  [totals |-> [k \in Keys |-> [r \in Records |->
      mem.totals[k][r] + IF r \in some /\ k \in Reached(r) THEN 1 ELSE 0]],
   entry |-> [k \in Keys |->
      IF \E r \in some : k \in Reached(r) THEN "counted" ELSE mem.entry[k]]]

\* Mistake: the totals are cleared and not built again.
RebuiltEmpty(rows) == NoTotals
\* _rebuild_running_totals
RebuildRunningTotals(rows) ==
  [totals |-> [k \in Keys |-> [r \in Records |->
      IF r \in rows /\ k \in KeysOf[r] THEN 1 ELSE 0]],
   entry |-> [k \in Keys |-> IF \E r \in rows : k \in KeysOf[r] THEN "counted" ELSE "missing"]]

\* Mistake: nothing is restored.
RestoreNothing(rebuilt) == rebuilt
\* _restore_never_totals of what _collect_never_totals saved.
RestoreNeverTotals(rebuilt) ==
  LET saved == {k \in Keys : cycle[k] = "never" /\ mem.entry[k] = "counted"}
  IN [totals |-> [k \in Keys |-> IF k \in saved THEN mem.totals[k] ELSE rebuilt.totals[k]],
      entry  |-> [k \in Keys |->
        IF k \in saved THEN "counted"
        ELSE IF cycle[k] = "never" /\ rebuilt.entry[k] = "missing" THEN "empty"
        ELSE rebuilt.entry[k]]]

\* Mistake: each deleted row is taken off the totals of its keys.
DeletedSubtracted(before, after) ==
  [mem EXCEPT !.totals = [k \in Keys |-> [r \in Records |->
     @[k][r] - IF r \in before \ after /\ k \in KeysOf[r] THEN 1 ELSE 0]]]
\* What compact makes of the totals when it leaves the rows "after".
CompactedTotals(before, after) == RestoreNeverTotals(RebuildRunningTotals(after))

-----------------------------------------------------------------------------
(* The database, and how a method that writes may end *)

View(t) == IF t \in holder THEN draft ELSE db
CanWrite(t) == holder \subseteq {t}

\* Mistake: the commit is left out.
Uncommitted(t, new) == [db |-> db, draft |-> new, holder |-> {t}, ok |-> TRUE]
Committed(t, new) == [db |-> new, draft |-> new, holder |-> {}, ok |-> TRUE]
LeftOpen(t, new) == [db |-> db, draft |-> new, holder |-> {t}, ok |-> FALSE]
RolledBack == [db |-> db, draft |-> db, holder |-> {}, ok |-> FALSE]
Refused == [db |-> db, draft |-> draft, holder |-> holder, ok |-> FALSE]

\* A thread writes new after passing through some partial contents.
Writes(t, new, partial) ==
  IF CanWrite(t)
    THEN {Committed(t, new), RolledBack, Refused} \cup {LeftOpen(t, c) : c \in partial \cup {new}}
  ELSE {Refused}

\* The method ends as w; another's open transaction is no fault of its own.
End(t, w) ==
  /\ db' = w.db /\ draft' = w.draft /\ holder' = w.holder
  /\ faults' = IF w.ok \/ ~CanWrite(t) THEN faults ELSE faults + 1
  /\ faults' <= MaxFaults
  /\ UNCHANGED <<now, restarts>>

\* The transaction of w, if it stays open, may yet take back what was written.
MayTakeBack(w) == w \notin {RolledBack, Refused}

-----------------------------------------------------------------------------
(* The methods of SqliteStore *)

Init ==
  /\ db = Empty /\ draft = Empty /\ holder = {}
  /\ mem = NoTotals /\ cycle = Empty.budgets
  /\ owed = [rows |-> {}, budgets |-> {}]
  /\ calls = 0 /\ now = 0 /\ faults = 0 /\ restarts = 0

Given(some) ==
  /\ \A r \in some : Stamp[r] <= now
  /\ calls' = calls + Cardinality(some) /\ calls' <= MaxCalls

\* INSERT OR REPLACE, commit, then the totals.
InsertRecord(t, r) ==
  /\ Given({r})
  /\ \E w \in Writes(t, [View(t) EXCEPT !.rows = @ \cup {r}], {}) :
       /\ End(t, w)
       /\ mem' = IF w.ok THEN UpdateRunningTotals({r}) ELSE mem
       /\ owed' = IF w.ok /\ Sound(r) THEN [owed EXCEPT !.rows = @ \cup {r}] ELSE owed
  /\ UNCHANGED cycle

\* BEGIN, each record into table and totals, commit.  BEGIN refuses to be
\* nested, and nothing is inserted past another's transaction.
InsertRecordsBatch(t, batch) ==
  /\ holder = {} /\ Given(batch) /\ \A r \in batch : Sound(r)
  /\ End(t, Committed(t, [db EXCEPT !.rows = @ \cup batch]))
  /\ mem' = UpdateRunningTotals(batch)
  /\ owed' = [owed EXCEPT !.rows = @ \cup batch]
  /\ UNCHANGED cycle

\* A statement or the commit fails, or a KeyError comes out of the totals of
\* one record: rollback, but the totals keep what was added before.
BatchFails(t, done, bad) ==
  /\ holder = {} /\ Given(done \cup bad)
  /\ \A r \in done : Sound(r)
  /\ \A r \in bad : ~Sound(r) /\ r \notin done
  /\ faults' = IF bad = {} THEN faults + 1 ELSE faults
  /\ faults' <= MaxFaults
  /\ mem' = UpdateRunningTotals(done \cup bad)
  /\ UNCHANGED <<db, draft, holder, cycle, owed, now, restarts>>

SetBudget(t, k, c) ==
  /\ cycle' = [cycle EXCEPT ![k] = c]
  /\ \E w \in Writes(t, [View(t) EXCEPT !.budgets[k] = c], {}) :
       /\ End(t, w)
       /\ owed' = [owed EXCEPT !.budgets = IF w.ok THEN @ \cup {k} ELSE @ \ {k}]
  /\ UNCHANGED <<mem, calls>>

DeleteBudget(t, k) == SetBudget(t, k, "none")

Clear(t) ==
  /\ \E w \in Writes(t, Empty, {[View(t) EXCEPT !.rows = {}]}) :
       /\ End(t, w)
       /\ mem' = IF w.ok THEN NoTotals ELSE mem
       /\ cycle' = IF w.ok THEN Empty.budgets ELSE cycle
       /\ owed' = IF MayTakeBack(w) THEN [rows |-> {}, budgets |-> {}] ELSE owed
  /\ UNCHANGED calls

\* Rows older than the cutoff go, then the oldest beyond max_records.
Young(rows, age) == {r \in rows : Stamp[r] >= now - age}
Newest(rows) ==
  {some \in SUBSET rows :
     /\ Cardinality(some) = IF Cardinality(rows) < MaxRecords THEN Cardinality(rows) ELSE MaxRecords
     /\ \A r \in rows \ some, s \in some : Stamp[r] <= Stamp[s]}

Compact(t, age) ==
  LET young == Young(View(t).rows, age)
  IN /\ \E kept \in Newest(young) :
          \E w \in Writes(t, [View(t) EXCEPT !.rows = kept], {[View(t) EXCEPT !.rows = young]}) :
            /\ End(t, w)
            /\ mem' = IF w.ok THEN CompactedTotals(View(t).rows, kept) ELSE mem
            /\ owed' = IF MayTakeBack(w) THEN [owed EXCEPT !.rows = @ \cap kept] ELSE owed
     /\ UNCHANGED <<cycle, calls>>

\* close, or the end of the thread: its open transaction is rolled back.
Close(t) ==
  /\ t \in holder
  /\ draft' = db /\ holder' = {}
  /\ UNCHANGED <<db, mem, cycle, owed, calls, now, faults, restarts>>

\* The process ends and a new one opens the database (_init_db).
Restart ==
  /\ restarts < MaxRestarts /\ restarts' = restarts + 1
  /\ draft' = db /\ holder' = {}
  /\ cycle' = db.budgets
  /\ mem' = RebuildRunningTotals(db.rows)
  /\ UNCHANGED <<db, owed, calls, now, faults>>

Tick ==
  /\ now < MaxTime /\ now' = now + 1
  /\ UNCHANGED <<db, draft, holder, mem, cycle, owed, calls, faults, restarts>>

Call(t) ==
  \/ \E r \in Records : InsertRecord(t, r)
  \/ \E batch \in SUBSET Records \ {{}} : InsertRecordsBatch(t, batch)
  \/ \E done \in SUBSET Records : BatchFails(t, done, {})
  \/ \E done \in SUBSET Records, r \in Records : BatchFails(t, done, {r})
  \/ \E k \in Keys, c \in Cycles \ {"none"} : SetBudget(t, k, c)
  \/ \E k \in Keys : DeleteBudget(t, k)
  \/ Clear(t)
  \/ \E age \in AgeChoices : Compact(t, age)
  \/ Close(t)

Next == (\E t \in Threads : Call(t)) \/ Restart \/ Tick

Spec == Init /\ [][Next]_vars
-----------------------------------------------------------------------------
(* Properties *)

\* Every variable has its type; at most one connection has an open
\* transaction, and no total is negative.
TypeOK ==
  /\ db \in Content /\ draft \in Content
  /\ holder \in SUBSET Threads /\ (holder = {} => draft = db)
  /\ \A s, t \in holder : s = t
  /\ mem \in [totals: [Keys -> [Records -> Nat]], entry: [Keys -> Entries]]
  /\ cycle \in [Keys -> Cycles]
  /\ owed \in [rows: SUBSET Records, budgets: SUBSET Keys]
  /\ calls \in 0..MaxCalls /\ now \in 0..MaxTime
  /\ faults \in 0..MaxFaults /\ restarts \in 0..MaxRestarts

\* What a call has returned from stays in the database, whatever fails or
\* stays open in any connection afterwards, until a call that deletes: rows
\* (insert_record, insert_records_batch) and budgets, which agree with memory.
ReturnedIsDurable ==
  /\ owed.rows \subseteq db.rows
  /\ \A k \in owed.budgets : db.budgets[k] = cycle[k]

\* And it is charged: each such row is in the total of each of its keys,
\* compaction with restored "never" totals, rollbacks and restarts included.
ReturnedIsCharged == \A r \in owed.rows : \A k \in KeysOf[r] : mem.totals[k][r] > 0

\* While a "never" budget stays set, only clear and a restart take a record
\* out of the spend it is charged against (CHANGELOG.md:17, compact).
NeverTotalsKept ==
  \A k \in Keys :
    cycle[k] = "never" /\ cycle'[k] = "never" /\ restarts' = restarts
      => \A r \in Records : mem.totals[k][r] <= mem'.totals[k][r]
NeverTotalsMonotone == [][NeverTotalsKept]_vars

-----------------------------------------------------------------------------
(* What the documentation says and the code does not do *)

\* sqlite_store.py:186, of insert_records_batch: "single transaction for many
\* records": what a call newly charges to a key has its row in the database.
BatchIsOneTransaction ==
  [][\A k \in Keys, r \in Records :
       mem'.totals[k][r] > mem.totals[k][r] => r \in db'.rows]_vars
=============================================================================
