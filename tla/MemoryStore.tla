---------------------------- MODULE MemoryStore ----------------------------
(***************************************************************************)
(* The in-memory store of tokenledger (tokenledger/core/store.py): a ring  *)
(* of usage records, the running totals that budgets with reset cycle      *)
(* "never" are charged against, age-based retention, and the JSONL file    *)
(* the ring is persisted to.  Every method takes the store's RLock for     *)
(* its whole body, so one action is one method call; only a crash of the   *)
(* process can expose the steps in between, and the actions that write     *)
(* the file say what each of those steps leaves behind.                    *)
(*                                                                         *)
(* A record is named by its insertion number.  Deque, file and totals are  *)
(* bags of such numbers (a function to the number of copies): the deque    *)
(* and the file are both in insertion order, so the bag determines them,   *)
(* and a running total is the sum of the records in its bag.               *)
(*                                                                         *)
(* Operators commented "Mistake" are wrong on purpose and used nowhere: put*)
(* in the place of the definition after them, each breaks a property.      *)
(***************************************************************************)
EXTENDS Integers, Sequences, FiniteSets

CONSTANTS
  Keys,           \* the "scope:scope_id" keys of running_totals
  Scanned,        \* the "user_project:..." keys, which have no running total
  Rank,           \* position of a key in the list of dimensions
  Kinds,          \* [keys, billable] of the records callers insert
  Modes,          \* how stores persist: "none", "plain", "encrypted"
  MaxRecords,     \* the deque's maxlen
  RetentionDays,  \* max_age_days the constructor is given
  AgeChoices,     \* max_age_days passed to compact / apply_retention
  MaxInserts,     \* bound: calls of insert_record
  MaxTime,        \* bound: the clock, in days
  MaxDamage,      \* bound: write calls that fail or are cut by a crash
  MaxCrashes      \* bound: crashes of the process

ASSUME StoreConstants ==
  /\ Keys \cap Scanned = {}
  /\ Rank \in [Keys -> Nat]
  /\ Kinds \subseteq [keys: SUBSET (Keys \cup Scanned), billable: BOOLEAN]
  /\ Modes \subseteq {"none", "plain", "encrypted"}
  /\ MaxRecords \in Nat \ {0}
  /\ RetentionDays \in Int
  /\ AgeChoices \subseteq Int
  /\ MaxInserts \in Nat
  /\ MaxTime \in Nat
  /\ MaxDamage \in Nat
  /\ MaxCrashes \in Nat

Ids == 1..MaxInserts
Bag == [Ids -> Nat]
NoCopies == [i \in Ids |-> 0]
Budgeted == Keys \cup Scanned   \* the keys a budget can be set on
Record == [keys: SUBSET Budgeted, billable: BOOLEAN, ts: 0..MaxTime, raised: BOOLEAN]
NotYet == -1          \* _last_retention_check is None

VARIABLES
  mode,       \* persist_path and encryption_key of this store
  alive,      \* the process is running
  mem,        \* ring: self.records; totals, entry: self.running_totals
  cycle,      \* reset_cycle of the budget set on each key
  maxAge,     \* self.retention.max_age_days
  lastCheck,  \* self._last_retention_check
  file,       \* lines, tail: the persist file; bak: its .bak
  now,        \* the wall clock
  log,        \* every record ever passed to insert_record; did the call raise?
  owed,       \* records whose insert returned and that no eviction, retention
              \* pass or clear has taken out of the ring since (history)
  spoiled,    \* a rewrite after a trim was cut short, or a start had the wrong
              \* key (history)
  damage,     \* write calls that failed or were cut short
  crashes

store == <<mem, cycle, maxAge, lastCheck>>
faults == <<owed, spoiled, damage, crashes>>
vars == <<mode, alive, store, file, now, log, faults>>

\* An entry of running_totals is missing, the empty dict that
\* _restore_never_totals may leave, or a dict of counters.
Entries == {"missing", "empty", "counted"}
Cycles == {"none", "never", "windowed"}
Tails == {"absent", "clean", "partial"}

EmptyMem ==
  [ring   |-> NoCopies,
   totals |-> [k \in Keys |-> NoCopies],
   entry  |-> [k \in Keys |-> "missing"]]
EmptyFile == [lines |-> NoCopies, tail |-> "absent", bak |-> NoCopies]

\* _is_billable and the list of dimensions: does record i count towards k?
Counts(l, k, i) == i \in 1..Len(l) /\ l[i].billable /\ k \in l[i].keys
CountedIn(l, b, k) == [i \in Ids |-> IF Counts(l, k, i) THEN b[i] ELSE 0]
OneMore(b, i) == [j \in Ids |-> IF j = i THEN b[j] + 1 ELSE b[j]]
HasCopies(b) == \E i \in Ids : b[i] > 0
Newest(b) == CHOOSE i \in Ids : b[i] > 0 /\ \A j \in Ids : b[j] > 0 => j <= i

-----------------------------------------------------------------------------
(* The ring and the running totals *)

\* deque(maxlen = MaxRecords): the oldest copies beyond the cap drop out.
Copies(b) == UNION {{i} \X (1..b[i]) : i \in Ids}
NewerCopies(b, i) == Cardinality({c \in Copies(b) : c[1] > i})
KeepNewest(b) ==
  [i \in Ids |-> Cardinality({n \in 1..b[i] : NewerCopies(b, i) + n <= MaxRecords})]

\* _update_running_totals walks the dimensions in order; an entry that is
\* the empty dict makes agg["requests"] += 1 raise KeyError there.
Poisoned(m, l, i) == {k \in Keys : Counts(l, k, i) /\ m.entry[k] = "empty"}
Reached(m, l, i) ==
  {k \in Keys : Counts(l, k, i) /\ \A p \in Poisoned(m, l, i) : Rank[k] < Rank[p]}
UpdateRunningTotals(m, l, i) ==
  [m EXCEPT
    !.totals = [k \in Keys |-> IF k \in Reached(m, l, i) THEN OneMore(@[k], i) ELSE @[k]],
    !.entry  = [k \in Keys |-> IF k \in Reached(m, l, i) THEN "counted" ELSE @[k]]]

\* Mistake: the totals are cleared and not built again.
RebuiltUncounted(l, b) ==
  [ring |-> b, totals |-> [k \in Keys |-> NoCopies], entry |-> [k \in Keys |-> "missing"]]
\* Totals of a bag of records, and the entries they leave in the dict.
Rebuilt(l, b) ==
  [ring   |-> b,
   totals |-> [k \in Keys |-> CountedIn(l, b, k)],
   entry  |-> [k \in Keys |-> IF HasCopies(CountedIn(l, b, k)) THEN "counted" ELSE "missing"]]

\* The records younger than max_age_days.
Fresh(l, b, age) ==
  [i \in Ids |-> IF i \in 1..Len(l) /\ l[i].ts >= now - age THEN b[i] ELSE 0]
\* Mistakes: nothing is restored; what was saved is added to the rebuilt totals.
NeverTotalsForgotten(m, r) == r
NeverTotalsAddedOnTop(m, r) ==
  [r EXCEPT !.totals = [k \in Keys |->
     IF cycle[k] = "never" THEN [i \in Ids |-> m.totals[k][i] + @[k][i]] ELSE @[k]]]
\* _collect_never_totals, rebuild, _restore_never_totals: the saved totals of
\* a "never" key replace the rebuilt ones; a key that had none gets {}.
RestoreNeverTotals(m, r) ==
  LET saved == {k \in Keys : cycle[k] = "never" /\ m.entry[k] = "counted"}
  IN [r EXCEPT
       !.totals = [k \in Keys |-> IF k \in saved THEN m.totals[k] ELSE @[k]],
       !.entry  = [k \in Keys |->
                     IF k \in saved THEN "counted"
                     ELSE IF cycle[k] = "never" /\ @[k] = "missing" THEN "empty"
                     ELSE @[k]]]
\* Mistake: trimmed records are subtracted, those that never counted included.
TrimmedTotalsSubtracted(m, l, age) ==
  LET kept == Fresh(l, m.ring, age)
  IN IF age < 0 THEN m
     ELSE [m EXCEPT !.ring = kept,
                    !.totals = [k \in Keys |->
                       [i \in Ids |-> @[k][i] - (m.ring[i] - kept[i])]]]
\* Mistake: a negative age does not turn retention off.
NegativeAgeTrims(m, l, age) ==
  LET kept == Fresh(l, m.ring, age)
  IN IF kept = m.ring THEN m ELSE RestoreNeverTotals(m, Rebuilt(l, kept))
ApplyRetention(m, l, age) ==
  LET kept == Fresh(l, m.ring, age)
  IN IF age < 0 \/ kept = m.ring THEN m ELSE RestoreNeverTotals(m, Rebuilt(l, kept))

-----------------------------------------------------------------------------
(* The persist file.  A write that does not complete has either raised     *)
(* OSError, which the store logs and swallows, or was cut by a crash.      *)

\* The fourth part of an outcome says whether a rewrite was cut short.
OneOf(good, broken, rewrite) ==
  {[file |-> good, fate |-> "ok", harm |-> 0, cut |-> FALSE]}
    \cup [file: broken, fate: {"failed", "crashed"}, harm: {1}, cut: {rewrite}]
Attempt(good, broken) == OneOf(good, broken, FALSE)

\* A prefix of the rewritten lines; a cut encrypted blob decrypts to nothing.
Prefixes(b) ==
  IF mode = "encrypted" THEN {NoCopies}
  ELSE {[i \in Ids |-> IF i <= last THEN b[i] ELSE 0] : last \in 0..MaxInserts}

\* os.replace(path, path.bak), then open(path, "wb"), write, fsync.
RewriteDisk(f, m) ==
  LET bak == IF f.tail = "absent" THEN f.bak ELSE f.lines
      partly == IF mode = "encrypted" THEN {"clean"} ELSE {"clean", "partial"}
  IN OneOf([lines |-> m.ring, tail |-> "clean", bak |-> bak],
           {f, [lines |-> NoCopies, tail |-> "absent", bak |-> bak]}
             \cup [lines: Prefixes(m.ring), tail: partly, bak: {bak}], TRUE)

\* records[-1] is appended; behind a line without its newline it is unreadable.
AppendLine(f, m) ==
  IF ~HasCopies(m.ring) THEN Attempt(f, {})
  ELSE Attempt([f EXCEPT !.tail = "clean",
                         !.lines = IF f.tail = "partial" THEN @
                                   ELSE OneMore(@, Newest(m.ring))],
               {f, [f EXCEPT !.tail = "partial"]})
\* Mistake: an encrypted file is opened for writing in place.
EncryptedInPlace(f, m) ==
  IF mode = "plain" THEN AppendLine(f, m)
  ELSE Attempt([f EXCEPT !.lines = m.ring, !.tail = "clean"],
               {f, [f EXCEPT !.lines = NoCopies, !.tail = "clean"]})
\* Encrypted: the whole ring through a temporary file.
AppendToDisk(f, m) ==
  IF mode = "plain" THEN AppendLine(f, m)
  ELSE Attempt([f EXCEPT !.lines = m.ring, !.tail = "clean"], {f})

\* What a method that may trim, and may append, makes of the file.
Persist(m, trimmed, append) ==
  IF mode = "none" THEN Attempt(file, {})
  ELSE UNION {IF w.fate = "crashed" \/ ~append THEN {w}
              ELSE {[x EXCEPT !.harm = @ + w.harm, !.cut = w.cut] : x \in AppendToDisk(w.file, m)} :
                w \in IF trimmed THEN RewriteDisk(file, m) ELSE Attempt(file, {})}

\* A record inserted by a call that returned is owed from then on.
StillOwed(m) == {i \in owed : mem.ring[i] > 0 => m.ring[i] > 0}
NewlyOwed(w, m) ==
  {i \in Ids : w.fate # "crashed" /\ Len(log) < i /\ i <= Len(log') /\ m.ring[i] > 0}

\* The state after a method whose writes ended as w.  When the process died
\* in it, mem and the settings keep what was lost until the next start.
Settle(w, m, budgets, age, check) ==
  /\ damage' = damage + w.harm /\ damage' <= MaxDamage
  /\ crashes' = IF w.fate = "crashed" THEN crashes + 1 ELSE crashes
  /\ crashes' <= MaxCrashes
  /\ alive' = (w.fate # "crashed")
  /\ file' = w.file
  /\ mem' = m /\ cycle' = budgets /\ maxAge' = age /\ lastCheck' = check
  /\ owed' = StillOwed(m) \cup NewlyOwed(w, m)
  /\ spoiled' = (spoiled \/ w.cut)
  /\ UNCHANGED <<mode, now>>

-----------------------------------------------------------------------------
(* The methods of MemoryStore *)

Init ==
  /\ mode \in Modes
  /\ alive = TRUE
  /\ mem = EmptyMem
  /\ cycle = [k \in Budgeted |-> "none"]
  /\ maxAge = RetentionDays
  /\ lastCheck = NotYet
  /\ file = EmptyFile
  /\ now = 0
  /\ log = << >>
  /\ owed = {} /\ spoiled = FALSE
  /\ damage = 0
  /\ crashes = 0

\* records.append, then the totals, before retention and the file.
Logged(kind, ts, raised) ==
  Append(log, [keys |-> kind.keys, billable |-> kind.billable, ts |-> ts, raised |-> raised])
WithNewest(l) == [mem EXCEPT !.ring = KeepNewest(OneMore(@, Len(l)))]
Added(l) == UpdateRunningTotals(WithNewest(l), l, Len(l))

InsertRecord(kind, ts) ==
  /\ alive /\ Len(log) < MaxInserts
  /\ log' = Logged(kind, ts, FALSE)
  /\ Poisoned(mem, log', Len(log')) = {}
  /\ LET due  == maxAge >= 0 /\ lastCheck # now
         kept == IF due THEN ApplyRetention(Added(log'), log', maxAge) ELSE Added(log')
     IN \E w \in Persist(kept, kept.ring # Added(log').ring, TRUE) :
          Settle(w, kept, cycle, maxAge, IF due THEN now ELSE lastCheck)

\* KeyError out of _update_running_totals: the record is in the deque and in
\* the totals before the empty one, and the call ends there.
InsertRecordRaises(kind, ts) ==
  /\ alive /\ Len(log) < MaxInserts
  /\ log' = Logged(kind, ts, TRUE)
  /\ Poisoned(mem, log', Len(log')) # {}
  /\ mem' = Added(log')
  /\ owed' = StillOwed(mem')
  /\ UNCHANGED <<mode, alive, cycle, maxAge, lastCheck, file, now, spoiled, damage, crashes>>

\* compact and apply_retention; without an argument max_age_days stays.
Compact(age) ==
  /\ alive /\ UNCHANGED log
  /\ LET kept == ApplyRetention(mem, log, age)
     IN \E w \in Persist(kept, kept.ring # mem.ring, FALSE) :
          Settle(w, kept, cycle, age, lastCheck)

SetBudget(k, c) ==
  /\ alive
  /\ cycle' = [cycle EXCEPT ![k] = c]
  /\ UNCHANGED <<mode, alive, mem, maxAge, lastCheck, file, now, log, faults>>

DeleteBudget(k) == cycle[k] # "none" /\ SetBudget(k, "none")

\* The file is truncated and .bak removed; lastCheck and maxAge stay.
Clear ==
  /\ alive /\ UNCHANGED log
  /\ LET cut == [file EXCEPT !.lines = NoCopies, !.tail = "clean"]
         wiped == IF mode = "none" THEN Attempt(file, {})
                  ELSE Attempt([cut EXCEPT !.bak = NoCopies], {file, cut})
     IN \E w \in wiped : Settle(w, EmptyMem, [k \in Budgeted |-> "none"], maxAge, lastCheck)

Crash ==
  /\ alive /\ UNCHANGED log
  /\ Settle([file |-> file, fate |-> "crashed", harm |-> 0, cut |-> FALSE],
            mem, cycle, maxAge, lastCheck)

\* The constructor: _load_from_disk reads every line into the deque and into
\* the totals; a wrong encryption key reads none.
Start(m) ==
  /\ ~alive
  /\ alive' = TRUE
  /\ mem' = m
  /\ cycle' = [k \in Budgeted |-> "none"]
  /\ maxAge' = RetentionDays /\ lastCheck' = NotYet
  /\ owed' = {i \in owed : file.lines[i] > 0 => m.ring[i] > 0}
  /\ UNCHANGED <<mode, file, now, log, damage, crashes>>

LoadFromDisk ==
  /\ Start([Rebuilt(log, file.lines) EXCEPT !.ring = KeepNewest(@)])
  /\ UNCHANGED spoiled
LoadWithWrongKey == mode = "encrypted" /\ Start(EmptyMem) /\ spoiled' = TRUE

Tick ==
  /\ now < MaxTime
  /\ now' = now + 1
  /\ UNCHANGED <<mode, alive, store, file, log, faults>>

(* What a budget is charged with: BudgetEnforcer._calculate_current_spend *)

\* get_windowed_spend: a scan of the ring, so what left it is not charged.
WindowedSpend(m, l, k, start) ==
  {i \in Ids : m.ring[i] > 0 /\ Counts(l, k, i) /\ l[i].ts >= start}
\* Running totals for "never", but not for user_project, which has none and is
\* scanned from 1970.  The other windows start today, on this week's Monday or on
\* the first of this month: at some day, first, that is not after today.
CurrentSpend(m, l, k, c, first) ==
  IF c # "never" THEN WindowedSpend(m, l, k, first)
  ELSE IF k \in Scanned THEN WindowedSpend(m, l, k, 0)
  ELSE {i \in Ids : m.totals[k][i] > 0}

Next ==
  \/ \E kind \in Kinds, ts \in 0..now : InsertRecord(kind, ts)
  \/ \E kind \in Kinds, ts \in 0..now : InsertRecordRaises(kind, ts)
  \/ \E age \in AgeChoices \cup {maxAge} : Compact(age)
  \/ \E k \in Budgeted, c \in Cycles \ {"none"} : SetBudget(k, c)
  \/ \E k \in Budgeted : DeleteBudget(k)
  \/ Clear
  \/ Crash
  \/ LoadFromDisk
  \/ LoadWithWrongKey
  \/ Tick

Spec == Init /\ [][Next]_vars
-----------------------------------------------------------------------------
(* Properties *)

\* Every variable has its type: counters never go below zero, and the three
\* bags of the store only ever hold insertion numbers.
TypeOK ==
  /\ mode \in Modes /\ alive \in BOOLEAN
  /\ mem \in [ring: Bag, totals: [Keys -> Bag], entry: [Keys -> Entries]]
  /\ cycle \in [Budgeted -> Cycles]
  /\ maxAge \in Int /\ lastCheck \in 0..MaxTime \cup {NotYet}
  /\ file \in [lines: Bag, tail: Tails, bak: Bag]
  /\ now \in 0..MaxTime
  /\ log \in Seq(Record) /\ Len(log) <= MaxInserts
  /\ owed \subseteq 1..Len(log) /\ spoiled \in BOOLEAN
  /\ damage \in 0..MaxDamage /\ crashes \in 0..MaxCrashes

\* While a "never" budget stays set on a key, no insert, no eviction from the
\* ring and no retention pass takes a record back out of the spend it is
\* charged against (store.py _collect_never_totals / _restore_never_totals).
NeverTotalsKept ==
  \A k \in Keys :
    alive /\ alive' /\ cycle[k] = "never" /\ cycle'[k] = "never"
      => \A i \in Ids : mem.totals[k][i] <= mem'.totals[k][i]
NeverTotalsMonotone == [][NeverTotalsKept]_vars

\* Unless it is a plain file that was reloaded, nothing is charged twice: a
\* record is at most once in the ring, in the file and in every total, and
\* only in the totals of its own dimensions.
CountedAtMostOnce ==
  /\ \A k \in Keys, i \in Ids : mem.totals[k][i] > 0 => Counts(log, k, i)
  /\ mode # "plain" =>
       \A i \in Ids : /\ mem.ring[i] <= 1 /\ file.lines[i] <= 1
                      /\ \A k \in Keys : mem.totals[k][i] <= 1

\* The windowed scan and the running totals agree on the ring: a billable
\* record still in the ring whose insert returned is in the total of every
\* key it has, "never" budgets, evictions, trims and restarts included.
RingIsCounted ==
  \A k \in Keys, i \in Ids :
    mem.ring[i] > 0 /\ Counts(log, k, i) /\ ~log[i].raised => mem.totals[k][i] > 0

\* Between two midnights the spend of a daily, weekly or monthly budget, and of
\* a user_project budget that is never reset, falls only by a record that a full
\* ring evicts as its oldest for a new one, or by one as old as the retention in
\* force; that of every other "never" budget does not fall at all
\* (get_windowed_spend, _apply_retention, the deque's maxlen).
SpendForgotten(k, first) ==
  CurrentSpend(mem, log, k, cycle[k], first) \ CurrentSpend(mem', log', k, cycle'[k], first)
OldestEvicted(i) ==
  /\ Len(log') > Len(log) /\ Cardinality(Copies(mem.ring)) = MaxRecords
  /\ \A j \in Ids : mem.ring[j] > 0 => j >= i
PastRetention(i) == maxAge' >= 0 /\ log[i].ts <= now - maxAge'
ForgottenByEviction ==
  alive /\ alive' /\ now' = now
    => \A k \in {b \in Budgeted : cycle[b] # "none" /\ cycle'[b] = cycle[b]} :
         \A first \in 0..now : \A i \in SpendForgotten(k, first) :
           /\ cycle[k] = "windowed" \/ k \in Scanned
           /\ OldestEvicted(i) \/ PastRetention(i)
FullRingForgets == [][ForgottenByEviction]_vars

\* Until a rewrite after a trim is cut short (which may cost every record, for
\* nothing reads .bak) or the wrong key is given, each write that fails or is cut
\* by a crash costs a plain file at most two of the records it owes (the one it
\* cut, and the one appended behind a torn line), and an encrypted file at most
\* one: all others are in the lines that the next _load_from_disk reads.
Unreadable == {i \in owed : file.lines[i] = 0}
FaultsAreContained ==
  mode # "none" /\ ~spoiled
    => Cardinality(Unreadable) <= damage * (IF mode = "encrypted" THEN 1 ELSE 2)

-----------------------------------------------------------------------------
(* What the documentation says and the code does not do *)

\* store.py:508, of _rewrite_disk: "Rewrite the on-disk JSONL to match
\* current in-memory records (used after retention trim)".
TrimmedFileMatchesRing ==
  [][file'.bak # file.bak /\ damage' = damage /\ alive' => file'.lines = mem'.ring]_vars

\* docs/migrating.md:80: "never budgets: spend is derived from running_totals
\* [...] Never-budget totals survive retention pruning": what a "never"
\* budget is charged with includes every billable record in the ring.
NeverBudgetChargesRing ==
  \A k \in Keys, i \in Ids :
    cycle[k] = "never" /\ mem.ring[i] > 0 /\ Counts(log, k, i) => mem.totals[k][i] > 0

\* CHANGELOG.md:17: "never" budgets survive retention pruning, compact()
\* preserves cumulative spend (docs/migrating.md:80): as long as one stays set,
\* compact takes nothing out of its spend.
NeverSpendSurvives ==
  [][\A k \in Budgeted, age \in AgeChoices :
       Compact(age) /\ alive' /\ cycle[k] = "never" => SpendForgotten(k, 0) = {}]_vars

\* CHANGELOG.md:8: encrypted persistence uses an atomic replace, "avoiding
\* truncation on crash between open(wb) and fsync": what a dead process held
\* in its ring and on file before the method it died in is still on file.
EncryptedCrashKeepsFile ==
  [][mode = "encrypted" /\ ~alive'
       => \A i \in Ids : mem'.ring[i] > 0 /\ file.lines[i] > 0 => file'.lines[i] > 0]_vars
=============================================================================
