------------------------- MODULE MemoryStoreProofs -------------------------
(***************************************************************************)
(* Theorems about MemoryStore, for every value of its constants.           *)
(***************************************************************************)
EXTENDS MemoryStore, FiniteSetTheorems, TLAPS

Memories == [ring: Bag, totals: [Keys -> Bag], entry: [Keys -> Entries]]
Files == [lines: Bag, tail: Tails, bak: Bag]
Logs == {l \in Seq(Record) : Len(l) <= MaxInserts}
Writes == [file: Files, fate: {"ok", "failed", "crashed"}, harm: Nat, cut: BOOLEAN]

-----------------------------------------------------------------------------
(* What the operators return *)

\* The deque's cap never makes copies: what is left is part of what there was.
LEMMA KeepNewestShrinks ==
  ASSUME NEW b \in Bag
  PROVE  /\ KeepNewest(b) \in Bag
         /\ \A i \in Ids : KeepNewest(b)[i] <= b[i]
<1> DEFINE kept(i) == {n \in 1..b[i] : NewerCopies(b, i) + n <= MaxRecords}
<1>1. ASSUME NEW i \in Ids
      PROVE  Cardinality(kept(i)) \in Nat /\ Cardinality(kept(i)) <= b[i]
  <2>1. b[i] \in Nat
    BY DEF Bag
  <2>2. IsFiniteSet(1..b[i]) /\ Cardinality(1..b[i]) = b[i]
    BY <2>1, FS_Interval
  <2>3. kept(i) \subseteq 1..b[i]
    OBVIOUS
  <2>4. IsFiniteSet(kept(i)) /\ Cardinality(kept(i)) <= Cardinality(1..b[i])
    BY <2>2, <2>3, FS_Subset
  <2> QED
    BY <2>2, <2>4, FS_CardinalityType
<1>2. KeepNewest(b) = [i \in Ids |-> Cardinality(kept(i))]
  BY DEF KeepNewest
<1> HIDE DEF kept
<1> QED
  BY <1>1, <1>2 DEF Bag

LEMMA CountedInType ==
  ASSUME NEW l, NEW b \in Bag, NEW k
  PROVE  CountedIn(l, b, k) \in Bag
BY DEF CountedIn, Bag

LEMMA NoCopiesType == NoCopies \in Bag
BY DEF NoCopies, Bag

LEMMA OneMoreType ==
  ASSUME NEW b \in Bag, NEW i
  PROVE  OneMore(b, i) \in Bag
BY DEF OneMore, Bag

LEMMA EmptyMemType == EmptyMem \in Memories
BY NoCopiesType DEF EmptyMem, Memories, Entries

LEMMA UpdateRunningTotalsType ==
  ASSUME NEW m \in Memories, NEW l, NEW i
  PROVE  UpdateRunningTotals(m, l, i) \in Memories
BY OneMoreType DEF UpdateRunningTotals, Memories, Entries

LEMMA RebuiltType ==
  ASSUME NEW l, NEW b \in Bag
  PROVE  Rebuilt(l, b) \in Memories
BY CountedInType DEF Rebuilt, Memories, Entries

LEMMA FreshType ==
  ASSUME NEW l, NEW b \in Bag, NEW age
  PROVE  Fresh(l, b, age) \in Bag
BY DEF Fresh, Bag

LEMMA ApplyRetentionType ==
  ASSUME NEW m \in Memories, NEW l, NEW age
  PROVE  ApplyRetention(m, l, age) \in Memories
<1>1. m.ring \in Bag
  BY DEF Memories
<1>2. Rebuilt(l, Fresh(l, m.ring, age)) \in Memories
  BY <1>1, FreshType, RebuiltType
<1>3. ASSUME NEW r \in Memories PROVE RestoreNeverTotals(m, r) \in Memories
  BY DEF RestoreNeverTotals, Memories, Entries
<1> QED
  BY <1>2, <1>3 DEF ApplyRetention

\* How a write ends.
LEMMA OneOfCases ==
  ASSUME NEW good, NEW broken, NEW rewrite, NEW w \in OneOf(good, broken, rewrite)
  PROVE  \/ w = [file |-> good, fate |-> "ok", harm |-> 0, cut |-> FALSE]
         \/ \E f \in broken, t \in {"failed", "crashed"} :
              w = [file |-> f, fate |-> t, harm |-> 1, cut |-> rewrite]
<1>1. CASE w \in [file: broken, fate: {"failed", "crashed"}, harm: {1}, cut: {rewrite}]
  <2>1. w = [file |-> w.file, fate |-> w.fate, harm |-> w.harm, cut |-> w.cut]
    BY <1>1
  <2>2. w.file \in broken /\ w.fate \in {"failed", "crashed"}
    BY <1>1
  <2>3. w.harm = 1 /\ w.cut = rewrite
    BY <1>1
  <2> QED
    BY <2>1, <2>2, <2>3
<1> QED
  BY <1>1 DEF OneOf

\* What an outcome leaves on file, and what it costs.
LEMMA OneOfParts ==
  ASSUME NEW good, NEW broken, NEW rewrite \in BOOLEAN, NEW w \in OneOf(good, broken, rewrite)
  PROVE  \/ w.file = good /\ w.fate = "ok" /\ w.harm = 0 /\ ~w.cut
         \/ w.file \in broken /\ w.fate \in {"failed", "crashed"} /\ w.harm = 1 /\ (w.cut <=> rewrite)
<1>1. CASE w = [file |-> good, fate |-> "ok", harm |-> 0, cut |-> FALSE]
  BY <1>1
<1>2. CASE \E f \in broken, t \in {"failed", "crashed"} :
             w = [file |-> f, fate |-> t, harm |-> 1, cut |-> rewrite]
  BY <1>2
<1> QED
  BY <1>1, <1>2, OneOfCases

LEMMA AttemptParts ==
  ASSUME NEW good, NEW broken, NEW w \in Attempt(good, broken)
  PROVE  \/ w.file = good /\ w.fate = "ok" /\ w.harm = 0 /\ ~w.cut
         \/ w.file \in broken /\ w.fate \in {"failed", "crashed"} /\ w.harm = 1 /\ ~w.cut
<1>1. w \in OneOf(good, broken, FALSE)
  BY DEF Attempt
<1> QED
  BY <1>1, OneOfParts

LEMMA OneOfType ==
  ASSUME NEW good \in Files, NEW broken \in SUBSET Files, NEW rewrite \in BOOLEAN,
         NEW w \in OneOf(good, broken, rewrite)
  PROVE  w \in Writes
<1>1. CASE w = [file |-> good, fate |-> "ok", harm |-> 0, cut |-> FALSE]
  BY <1>1 DEF Writes
<1>2. CASE \E f \in broken, t \in {"failed", "crashed"} :
             w = [file |-> f, fate |-> t, harm |-> 1, cut |-> rewrite]
  <2>1. PICK f \in broken, t \in {"failed", "crashed"} :
             w = [file |-> f, fate |-> t, harm |-> 1, cut |-> rewrite]
    BY <1>2
  <2>2. f \in Files
    OBVIOUS
  <2> QED
    BY <2>1, <2>2 DEF Writes
<1> QED
  BY <1>1, <1>2, OneOfCases

LEMMA AttemptType ==
  ASSUME NEW good \in Files, NEW broken \in SUBSET Files, NEW w \in Attempt(good, broken)
  PROVE  w \in Writes
BY OneOfType DEF Attempt

LEMMA RewriteDiskType ==
  ASSUME NEW f \in Files, NEW m \in Memories, NEW w \in RewriteDisk(f, m)
  PROVE  w \in Writes
<1> DEFINE bak == IF f.tail = "absent" THEN f.bak ELSE f.lines
           partly == IF mode = "encrypted" THEN {"clean"} ELSE {"clean", "partial"}
           broken == {f, [lines |-> NoCopies, tail |-> "absent", bak |-> bak]}
                       \cup [lines: Prefixes(m.ring), tail: partly, bak: {bak}]
<1>1. Prefixes(m.ring) \subseteq Bag
  BY NoCopiesType DEF Prefixes, Memories, Bag
<1>2. bak \in Bag
  BY DEF Files
<1>3. broken \subseteq Files
  BY <1>1, <1>2, NoCopiesType DEF Files, Tails
<1>4. [lines |-> m.ring, tail |-> "clean", bak |-> bak] \in Files
  BY <1>2 DEF Files, Memories, Tails
<1> HIDE DEF bak, partly
<1>5. w \in OneOf([lines |-> m.ring, tail |-> "clean", bak |-> bak], broken, TRUE)
  BY DEF RewriteDisk, bak, partly
<1> HIDE DEF broken
<1> QED
  BY <1>3, <1>4, <1>5, OneOfType

LEMMA AppendToDiskType ==
  ASSUME NEW f \in Files, NEW m \in Memories, NEW w \in AppendToDisk(f, m)
  PROVE  w \in Writes
<1>1. OneMore(f.lines, Newest(m.ring)) \in Bag
  BY OneMoreType DEF Files
<1>2. [f EXCEPT !.lines = m.ring, !.tail = "clean"] \in Files
  BY DEF Files, Memories, Tails
<1>3. [f EXCEPT !.tail = "partial"] \in Files
  BY DEF Files, Tails
<1>4. [f EXCEPT !.tail = "clean",
               !.lines = IF f.tail = "partial" THEN @
                         ELSE OneMore(@, Newest(m.ring))] \in Files
  BY <1>1 DEF Files, Tails
<1> QED
  BY <1>2, <1>3, <1>4, AttemptType DEF AppendToDisk, AppendLine

\* The append that follows a rewrite pays for both.
LEMMA MergedWrite ==
  ASSUME NEW x \in Writes, NEW v \in Writes, NEW w,
         w = [x EXCEPT !.harm = @ + v.harm, !.cut = v.cut]
  PROVE  /\ w.file = x.file /\ w.fate = x.fate
         /\ w.harm = x.harm + v.harm /\ w.cut = v.cut
         /\ w \in Writes
<1>1. x.harm \in Nat /\ v.harm \in Nat /\ v.cut \in BOOLEAN
  BY DEF Writes
<1>2. x.harm + v.harm \in Nat
  BY <1>1
<1>3. w \in Writes
  BY <1>1, <1>2 DEF Writes
<1> QED
  BY <1>3 DEF Writes

LEMMA PersistType ==
  ASSUME file \in Files, NEW m \in Memories, NEW trimmed, NEW append,
         NEW w \in Persist(m, trimmed, append)
  PROVE  w \in Writes
<1>1. \A x \in Attempt(file, {}) : x \in Writes
  BY AttemptType
<1>2. CASE mode = "none"
  BY <1>1, <1>2 DEF Persist
<1>3. CASE mode # "none"
  <2>1. PICK v \in IF trimmed THEN RewriteDisk(file, m) ELSE Attempt(file, {}) :
          w \in IF v.fate = "crashed" \/ ~append THEN {v}
                ELSE {[x EXCEPT !.harm = @ + v.harm, !.cut = v.cut] : x \in AppendToDisk(v.file, m)}
    BY <1>3 DEF Persist
  <2>2. v \in Writes
    BY <1>1, <2>1, RewriteDiskType
  <2>3. \A x \in AppendToDisk(v.file, m) : x \in Writes
    BY <2>2, AppendToDiskType DEF Writes
  <2>4. ASSUME NEW x \in AppendToDisk(v.file, m),
               w = [x EXCEPT !.harm = @ + v.harm, !.cut = v.cut]
        PROVE  w \in Writes
    <3>1. x \in Writes
      BY <2>3
    <3> QED
      BY <2>2, <2>4, <3>1, MergedWrite
  <2> QED
    BY <2>1, <2>2, <2>4
<1> QED
  BY <1>2, <1>3

-----------------------------------------------------------------------------
(* Type correctness *)

\* TypeOK without the record list, which each action writes by itself, and the
\* records owed, which are some of the list.
StateOK ==
  /\ mode \in Modes /\ alive \in BOOLEAN /\ mem \in Memories
  /\ cycle \in [Budgeted -> Cycles]
  /\ maxAge \in Int /\ lastCheck \in 0..MaxTime \cup {NotYet}
  /\ file \in Files /\ now \in 0..MaxTime
  /\ spoiled \in BOOLEAN
  /\ damage \in 0..MaxDamage /\ crashes \in 0..MaxCrashes

LEMMA TypeOKSplit == TypeOK <=> StateOK /\ log \in Logs /\ owed \subseteq 1..Len(log)
BY DEF TypeOK, StateOK, Memories, Files, Logs

LEMMA SettleType ==
  ASSUME StateOK, NEW w \in Writes, NEW m \in Memories,
         NEW budgets \in [Budgeted -> Cycles], NEW age \in Int,
         NEW check \in 0..MaxTime \cup {NotYet},
         Settle(w, m, budgets, age, check)
  PROVE  StateOK'
<1>1. damage' \in 0..MaxDamage
  BY StoreConstants DEF Settle, StateOK, Writes
<1>2. crashes' \in 0..MaxCrashes
  BY StoreConstants DEF Settle, StateOK
<1>3. file' \in Files
  BY DEF Settle, Writes
<1>4. spoiled' \in BOOLEAN
  BY DEF Settle, StateOK, Writes
<1> QED
  BY <1>1, <1>2, <1>3, <1>4 DEF Settle, StateOK

LEMMA LoggedType ==
  ASSUME log \in Logs, Len(log) < MaxInserts, now \in 0..MaxTime,
         NEW kind \in Kinds, NEW ts \in 0..now, NEW raised \in BOOLEAN
  PROVE  /\ Logged(kind, ts, raised) \in Logs
         /\ Len(Logged(kind, ts, raised)) = Len(log) + 1
<1> DEFINE r == [keys |-> kind.keys, billable |-> kind.billable, ts |-> ts, raised |-> raised]
<1>1. r \in Record
  BY StoreConstants DEF Record, Budgeted
<1>2. Append(log, r) \in Seq(Record) /\ Len(Append(log, r)) = Len(log) + 1
  BY <1>1 DEF Logs
<1> QED
  BY <1>2, StoreConstants DEF Logged, Logs

LEMMA AddedType ==
  ASSUME mem \in Memories, NEW l
  PROVE  Added(l) \in Memories
<1>1. KeepNewest(OneMore(mem.ring, Len(l))) \in Bag
  BY OneMoreType, KeepNewestShrinks DEF Memories
<1>2. WithNewest(l) \in Memories
  BY <1>1 DEF WithNewest, Memories
<1> QED
  BY <1>2, UpdateRunningTotalsType DEF Added

LEMMA InitType == Init => TypeOK
<1> SUFFICES ASSUME Init PROVE TypeOK
  OBVIOUS
<1>1. mem \in Memories /\ file \in Files
  BY EmptyMemType, NoCopiesType DEF Init, EmptyFile, Files, Tails
<1>2. log \in Logs
  BY StoreConstants DEF Init, Logs
<1>3. StateOK
  <2>1. cycle \in [Budgeted -> Cycles] /\ lastCheck \in 0..MaxTime \cup {NotYet}
    BY DEF Init, Cycles
  <2>2. now \in 0..MaxTime /\ damage \in 0..MaxDamage /\ crashes \in 0..MaxCrashes
    BY StoreConstants DEF Init
  <2>3. mode \in Modes /\ alive \in BOOLEAN /\ maxAge \in Int /\ spoiled \in BOOLEAN
    BY StoreConstants DEF Init
  <2> QED
    BY <1>1, <2>1, <2>2, <2>3 DEF StateOK
<1>4. owed \subseteq 1..Len(log)
  BY DEF Init
<1> QED
  BY <1>2, <1>3, <1>4, TypeOKSplit

LEMMA StateType == StateOK /\ log \in Logs /\ [Next]_vars => StateOK' /\ log' \in Logs
<1> SUFFICES ASSUME StateOK, log \in Logs, [Next]_vars
             PROVE  StateOK' /\ log' \in Logs
  OBVIOUS
<1>1. mem \in Memories /\ file \in Files /\ now \in 0..MaxTime
  BY DEF StateOK
<1>2. ASSUME NEW kind \in Kinds, NEW ts \in 0..now, InsertRecord(kind, ts)
      PROVE  StateOK' /\ log' \in Logs
  <2> DEFINE due == maxAge >= 0 /\ lastCheck # now
             kept == IF due THEN ApplyRetention(Added(log'), log', maxAge) ELSE Added(log')
  <2>1. log' \in Logs
    BY <1>1, <1>2, LoggedType DEF InsertRecord
  <2>2. kept \in Memories
    BY <1>1, AddedType, ApplyRetentionType
  <2>3. PICK w \in Persist(kept, kept.ring # Added(log').ring, TRUE) :
          Settle(w, kept, cycle, maxAge, IF due THEN now ELSE lastCheck)
    BY <1>2 DEF InsertRecord
  <2> HIDE DEF kept
  <2>4. w \in Writes
    BY <1>1, <2>2, <2>3, PersistType
  <2>5. (IF due THEN now ELSE lastCheck) \in 0..MaxTime \cup {NotYet}
    BY <1>1 DEF StateOK
  <2> QED
    BY <2>1, <2>2, <2>3, <2>4, <2>5, SettleType DEF StateOK
<1>3. ASSUME NEW kind \in Kinds, NEW ts \in 0..now, InsertRecordRaises(kind, ts)
      PROVE  StateOK' /\ log' \in Logs
  <2>1. log' \in Logs
    BY <1>1, <1>3, LoggedType DEF InsertRecordRaises
  <2>2. mem' \in Memories
    BY <1>1, <1>3, AddedType DEF InsertRecordRaises
  <2> QED
    BY <1>3, <2>1, <2>2 DEF InsertRecordRaises, StateOK
<1>4. ASSUME NEW age \in AgeChoices \cup {maxAge}, Compact(age)
      PROVE  StateOK' /\ log' \in Logs
  <2> DEFINE kept == ApplyRetention(mem, log, age)
  <2>1. kept \in Memories
    BY <1>1, ApplyRetentionType
  <2>2. PICK w \in Persist(kept, kept.ring # mem.ring, FALSE) :
          Settle(w, kept, cycle, age, lastCheck)
    BY <1>4 DEF Compact
  <2> HIDE DEF kept
  <2>3. w \in Writes
    BY <1>1, <2>1, <2>2, PersistType
  <2>4. age \in Int
    BY StoreConstants DEF StateOK
  <2> QED
    BY <1>4, <2>1, <2>2, <2>3, <2>4, SettleType DEF StateOK, Compact
<1>5. ASSUME NEW k \in Budgeted, NEW c \in Cycles, SetBudget(k, c)
      PROVE  StateOK' /\ log' \in Logs
  BY <1>5 DEF SetBudget, faults, StateOK
<1>6. CASE Clear
  <2> DEFINE cut == [file EXCEPT !.lines = NoCopies, !.tail = "clean"]
             wiped == IF mode = "none" THEN Attempt(file, {})
                      ELSE Attempt([cut EXCEPT !.bak = NoCopies], {file, cut})
  <2>1. cut \in Files /\ [cut EXCEPT !.bak = NoCopies] \in Files
    BY <1>1, NoCopiesType DEF Files, Tails
  <2>2. PICK w \in wiped :
          Settle(w, EmptyMem, [k \in Budgeted |-> "none"], maxAge, lastCheck)
    BY <1>6 DEF Clear
  <2>3. w \in Writes
    <3> HIDE DEF cut
    <3> QED
      BY <1>1, <2>1, <2>2, AttemptType
  <2> HIDE DEF wiped
  <2>4. [k \in Budgeted |-> "none"] \in [Budgeted -> Cycles]
    BY DEF Cycles
  <2> QED
    BY <1>6, <2>2, <2>3, <2>4, EmptyMemType, SettleType DEF StateOK, Clear
<1>7. CASE Crash
  <2> DEFINE w == [file |-> file, fate |-> "crashed", harm |-> 0, cut |-> FALSE]
  <2>1. w \in Writes
    BY <1>1 DEF Writes
  <2>2. Settle(w, mem, cycle, maxAge, lastCheck) /\ UNCHANGED log
    BY <1>7 DEF Crash
  <2> HIDE DEF w
  <2> QED
    BY <1>1, <2>1, <2>2, SettleType DEF StateOK
<1>8. ASSUME NEW m \in Memories, Start(m), spoiled' \in BOOLEAN
      PROVE  StateOK' /\ log' \in Logs
  BY <1>8, StoreConstants DEF Start, StateOK, Cycles
<1>9. CASE LoadFromDisk
  <2>1. Rebuilt(log, file.lines) \in Memories
    BY <1>1, RebuiltType DEF Files
  <2>2. [Rebuilt(log, file.lines) EXCEPT !.ring = KeepNewest(@)] \in Memories
    BY <2>1, KeepNewestShrinks DEF Memories
  <2>3. spoiled' \in BOOLEAN
    BY <1>9 DEF LoadFromDisk, StateOK
  <2> QED
    BY <1>8, <1>9, <2>2, <2>3 DEF LoadFromDisk
<1>10. CASE LoadWithWrongKey
  BY <1>8, <1>10, EmptyMemType DEF LoadWithWrongKey
<1>11. CASE Tick
  BY <1>11, StoreConstants DEF Tick, store, faults, StateOK
<1>12. CASE UNCHANGED vars
  BY <1>12 DEF vars, store, faults, StateOK
<1> QED
  BY <1>2, <1>3, <1>4, <1>5, <1>6, <1>7, <1>9, <1>10, <1>11, <1>12
  DEF Next, DeleteBudget, Cycles

\* Only records that are in the list come to be owed.
LEMMA OwedType ==
  StateOK /\ log \in Logs /\ owed \subseteq 1..Len(log) /\ [Next]_vars => owed' \subseteq 1..Len(log')
<1> SUFFICES ASSUME StateOK, log \in Logs, owed \subseteq 1..Len(log), [Next]_vars
             PROVE  owed' \subseteq 1..Len(log')
  OBVIOUS
<1>1. Len(log) \in Nat /\ now \in 0..MaxTime
  BY DEF Logs, StateOK
<1>2. ASSUME NEW w, NEW m, NEW budgets, NEW age, NEW check, Settle(w, m, budgets, age, check),
             Len(log') \in Nat, Len(log) <= Len(log')
      PROVE  owed' \subseteq 1..Len(log')
  <2>1. StillOwed(m) \subseteq owed
    BY DEF StillOwed
  <2>2. NewlyOwed(w, m) \subseteq 1..Len(log')
    BY <1>1, <1>2 DEF NewlyOwed, Ids
  <2>3. owed \subseteq 1..Len(log')
    BY <1>1, <1>2
  <2> QED
    BY <1>2, <2>1, <2>2, <2>3 DEF Settle
<1>3. ASSUME NEW kind \in Kinds, NEW ts \in 0..now, InsertRecord(kind, ts)
      PROVE  owed' \subseteq 1..Len(log')
  <2>1. Len(log') = Len(log) + 1
    BY <1>1, <1>3, LoggedType DEF InsertRecord
  <2>2. PICK w, m, check : Settle(w, m, cycle, maxAge, check)
    BY <1>3 DEF InsertRecord
  <2> QED
    BY <1>1, <1>2, <2>1, <2>2
<1>4. ASSUME NEW kind \in Kinds, NEW ts \in 0..now, InsertRecordRaises(kind, ts)
      PROVE  owed' \subseteq 1..Len(log')
  <2>1. Len(log') = Len(log) + 1
    BY <1>1, <1>4, LoggedType DEF InsertRecordRaises
  <2>2. owed' \subseteq owed
    BY <1>4 DEF InsertRecordRaises, StillOwed
  <2> QED
    BY <1>1, <2>1, <2>2
<1>5. ASSUME NEW age, Compact(age) PROVE owed' \subseteq 1..Len(log')
  BY <1>1, <1>2, <1>5 DEF Compact
<1>6. ASSUME NEW k, NEW c, SetBudget(k, c) PROVE owed' \subseteq 1..Len(log')
  BY <1>6 DEF SetBudget, faults
<1>7. CASE Clear
  BY <1>1, <1>2, <1>7 DEF Clear
<1>8. CASE Crash
  BY <1>1, <1>2, <1>8 DEF Crash
<1>9. CASE LoadFromDisk
  BY <1>9 DEF LoadFromDisk, Start
<1>10. CASE LoadWithWrongKey
  BY <1>10 DEF LoadWithWrongKey, Start
<1>11. CASE Tick
  BY <1>11 DEF Tick, faults
<1>12. CASE UNCHANGED vars
  BY <1>12 DEF vars, faults
<1> QED
  BY <1>3, <1>4, <1>5, <1>6, <1>7, <1>8, <1>9, <1>10, <1>11, <1>12 DEF Next, DeleteBudget

LEMMA NextType == TypeOK /\ [Next]_vars => TypeOK'
<1> SUFFICES ASSUME TypeOK, [Next]_vars PROVE TypeOK'
  OBVIOUS
<1>1. StateOK /\ log \in Logs /\ owed \subseteq 1..Len(log)
  BY TypeOKSplit
<1>2. StateOK' /\ log' \in Logs /\ owed' \subseteq 1..Len(log')
  BY <1>1, StateType, OwedType
<1> QED
  BY <1>2 DEF TypeOK, StateOK, Memories, Files, Logs

\* The store never leaves its types: in particular no bag of records goes
\* below zero, whatever is evicted, trimmed, cleared, torn or reloaded.
THEOREM TypeCorrect == Spec => []TypeOK
<1>1. Init => TypeOK
  BY InitType
<1>2. TypeOK /\ [Next]_vars => TypeOK'
  BY NextType
<1> QED
  BY <1>1, <1>2, PTL DEF Spec

-----------------------------------------------------------------------------
(* The inductive invariant, as predicates of a memory and of a file, so that *)
(* the images an action goes through can be reasoned about one by one.       *)

\* An entry that is missing or emptied stands for no record.
EntriesMatch(m) ==
  \A k \in Keys, i \in Ids : m.entry[k] # "counted" => m.totals[k][i] = 0
\* Totals hold records of their own dimension, and no record twice.
MemoryOnce(m, l) ==
  /\ \A k \in Keys, i \in Ids : m.totals[k][i] > 0 => Counts(l, k, i)
  /\ mode # "plain" =>
       \A i \in Ids : /\ m.ring[i] <= 1 /\ (m.ring[i] > 0 => i <= Len(l))
                      /\ \A k \in Keys : m.totals[k][i] <= 1
MemoryCounted(m, l) ==
  \A k \in Keys, i \in Ids :
    m.ring[i] > 0 /\ Counts(l, k, i) /\ ~l[i].raised => m.totals[k][i] > 0
GoodMemory(m, l) == EntriesMatch(m) /\ MemoryOnce(m, l) /\ MemoryCounted(m, l)
GoodFile(f, l) ==
  mode # "plain" => \A i \in Ids : f.lines[i] <= 1 /\ (f.lines[i] > 0 => i <= Len(l))

StoreInv == TypeOK /\ GoodMemory(mem, log) /\ GoodFile(file, log)

LEMMA StoreInvImplies == StoreInv => CountedAtMostOnce /\ RingIsCounted
BY DEF StoreInv, GoodMemory, GoodFile, MemoryOnce, MemoryCounted,
       CountedAtMostOnce, RingIsCounted

LEMMA EmptyMemGood == ASSUME NEW l PROVE GoodMemory(EmptyMem, l)
BY DEF GoodMemory, EntriesMatch, MemoryOnce, MemoryCounted, EmptyMem, NoCopies

\* Retention leaves a part of the ring.
LEMMA RetentionShrinks ==
  ASSUME NEW m \in Memories, NEW l, NEW age
  PROVE  \A i \in Ids : ApplyRetention(m, l, age).ring[i] <= m.ring[i]
<1>1. \A i \in Ids : m.ring[i] \in Nat
  BY DEF Memories, Bag
<1>2. \A i \in Ids : Fresh(l, m.ring, age)[i] <= m.ring[i]
  BY <1>1 DEF Fresh
<1>3. RestoreNeverTotals(m, Rebuilt(l, Fresh(l, m.ring, age))).ring = Fresh(l, m.ring, age)
  BY DEF RestoreNeverTotals, Rebuilt
<1> QED
  BY <1>1, <1>2, <1>3 DEF ApplyRetention

\* What a total is after a retention pass that trimmed: the saved one, or
\* what the records left in the ring add up to.
LEMMA RetentionTotals ==
  ASSUME NEW m \in Memories, NEW l, NEW age,
         ApplyRetention(m, l, age) # m, NEW k \in Keys
  PROVE  LET after == ApplyRetention(m, l, age)
         IN \/ /\ cycle[k] = "never" /\ m.entry[k] = "counted"
               /\ after.totals[k] = m.totals[k] /\ after.entry[k] = "counted"
            \/ /\ ~(cycle[k] = "never" /\ m.entry[k] = "counted")
               /\ after.totals[k] = CountedIn(l, after.ring, k)
               /\ HasCopies(CountedIn(l, after.ring, k)) => after.entry[k] = "counted"
<1> DEFINE kept == Fresh(l, m.ring, age)
           built == Rebuilt(l, kept)
           after == RestoreNeverTotals(m, built)
<1>1. ApplyRetention(m, l, age) = after
  BY DEF ApplyRetention
<1>2. built = [ring   |-> kept,
               totals |-> [x \in Keys |-> CountedIn(l, kept, x)],
               entry  |-> [x \in Keys |-> IF HasCopies(CountedIn(l, kept, x))
                                          THEN "counted" ELSE "missing"]]
  BY DEF Rebuilt
<1> HIDE DEF kept, built
<1>3. after.ring = kept
  BY <1>2 DEF RestoreNeverTotals
<1>4. CASE cycle[k] = "never" /\ m.entry[k] = "counted"
  BY <1>1, <1>2, <1>4 DEF RestoreNeverTotals
<1>5. CASE ~(cycle[k] = "never" /\ m.entry[k] = "counted")
  <2>1. after.totals[k] = CountedIn(l, kept, k)
    BY <1>2, <1>5 DEF RestoreNeverTotals
  <2>2. HasCopies(CountedIn(l, kept, k)) => after.entry[k] = "counted"
    BY <1>2, <1>5 DEF RestoreNeverTotals
  <2> QED
    BY <1>1, <1>3, <1>5, <2>1, <2>2
<1> QED
  BY <1>4, <1>5

LEMMA RetentionKeepsNever ==
  ASSUME NEW m \in Memories, EntriesMatch(m), NEW l, NEW age,
         NEW k \in Keys, cycle[k] = "never", NEW i \in Ids
  PROVE  m.totals[k][i] <= ApplyRetention(m, l, age).totals[k][i]
<1>1. m.totals[k][i] \in Nat /\ ApplyRetention(m, l, age).totals[k][i] \in Nat
  BY ApplyRetentionType DEF Memories, Bag
<1>2. CASE ApplyRetention(m, l, age) = m
  BY <1>1, <1>2
<1>3. CASE m.entry[k] # "counted"
  BY <1>1, <1>3 DEF EntriesMatch
<1>4. CASE ApplyRetention(m, l, age) # m /\ m.entry[k] = "counted"
  BY <1>1, <1>4, RetentionTotals
<1> QED
  BY <1>2, <1>3, <1>4

LEMMA RetentionGood ==
  ASSUME NEW m \in Memories, NEW l, GoodMemory(m, l), NEW age
  PROVE  GoodMemory(ApplyRetention(m, l, age), l)
<1> DEFINE after == ApplyRetention(m, l, age)
<1>1. after \in Memories
  BY ApplyRetentionType
<1>2. \A i \in Ids : after.ring[i] \in Nat /\ m.ring[i] \in Nat /\ after.ring[i] <= m.ring[i]
  BY <1>1, RetentionShrinks DEF Memories, Bag
<1>3. ASSUME after # m, NEW k \in Keys, NEW i \in Ids
      PROVE  \/ after.totals[k][i] = m.totals[k][i] /\ after.entry[k] = "counted"
             \/ /\ after.totals[k][i] = IF Counts(l, k, i) THEN after.ring[i] ELSE 0
                /\ after.entry[k] # "counted" => after.totals[k][i] = 0
  <2>1. CASE cycle[k] = "never" /\ m.entry[k] = "counted"
    BY <1>3, <2>1, RetentionTotals
  <2>2. CASE ~(cycle[k] = "never" /\ m.entry[k] = "counted")
    <3>1. /\ after.totals[k] = CountedIn(l, after.ring, k)
          /\ HasCopies(CountedIn(l, after.ring, k)) => after.entry[k] = "counted"
      BY <1>3, <2>2, RetentionTotals
    <3>2. after.totals[k][i] \in Nat
      BY <1>1 DEF Memories, Bag
    <3> QED
      BY <3>1, <3>2 DEF CountedIn, HasCopies
  <2> QED
    BY <2>1, <2>2
<1> HIDE DEF after
<1>4. CASE after = m
  BY <1>4 DEF after
<1>5. CASE after # m
  <2>1. EntriesMatch(after)
    BY <1>3, <1>5 DEF EntriesMatch
  <2>2. MemoryOnce(after, l)
    BY <1>2, <1>3, <1>5 DEF MemoryOnce, GoodMemory
  <2>3. MemoryCounted(after, l)
    BY <1>2, <1>3, <1>5 DEF MemoryCounted, GoodMemory
  <2> QED
    BY <2>1, <2>2, <2>3 DEF GoodMemory, after
<1> QED
  BY <1>4, <1>5

\* An insert counts the new record in each of its totals, up to an emptied
\* entry, and disturbs no other record's.
LEMMA AddedImage ==
  ASSUME mem \in Memories, NEW l
  PROVE  /\ \A i \in Ids :
              Added(l).ring[i] <= IF i = Len(l) THEN mem.ring[i] + 1 ELSE mem.ring[i]
         /\ \A k \in Keys, i \in Ids :
              /\ Added(l).totals[k][i] =
                   IF k \in Reached(mem, l, Len(l)) /\ i = Len(l)
                     THEN mem.totals[k][i] + 1 ELSE mem.totals[k][i]
              /\ Added(l).entry[k] =
                   IF k \in Reached(mem, l, Len(l)) THEN "counted" ELSE mem.entry[k]
<1> DEFINE ring == KeepNewest(OneMore(mem.ring, Len(l)))
<1>1. OneMore(mem.ring, Len(l)) \in Bag
  BY OneMoreType DEF Memories
<1>2. \A i \in Ids : ring[i] <= OneMore(mem.ring, Len(l))[i]
  BY <1>1, KeepNewestShrinks
<1>3. \A i \in Ids : ring[i] <= IF i = Len(l) THEN mem.ring[i] + 1 ELSE mem.ring[i]
  BY <1>2 DEF OneMore
<1> HIDE DEF ring
<1>4. WithNewest(l) = [mem EXCEPT !.ring = ring]
  BY DEF WithNewest, ring
<1>5. Reached(WithNewest(l), l, Len(l)) = Reached(mem, l, Len(l))
  BY <1>4 DEF Reached, Poisoned, Memories
<1>6. /\ Added(l).ring = ring
      /\ Added(l).totals = [x \in Keys |-> IF x \in Reached(mem, l, Len(l))
                                           THEN OneMore(mem.totals[x], Len(l))
                                           ELSE mem.totals[x]]
      /\ Added(l).entry = [x \in Keys |-> IF x \in Reached(mem, l, Len(l))
                                          THEN "counted" ELSE mem.entry[x]]
  BY <1>4, <1>5 DEF Added, UpdateRunningTotals, Memories
<1> QED
  BY <1>3, <1>6 DEF OneMore

LEMMA AddedGood ==
  ASSUME mem \in Memories, log \in Logs, Len(log) < MaxInserts,
         GoodMemory(mem, log),
         NEW kind \in Kinds, NEW ts, NEW raised \in BOOLEAN, NEW l,
         l = Logged(kind, ts, raised),
         raised \/ Poisoned(mem, l, Len(l)) = {}
  PROVE  GoodMemory(Added(l), l)
<1>1. /\ Len(l) = Len(log) + 1 /\ Len(l) \in Ids /\ Len(log) \in Nat
      /\ l[Len(l)].raised = raised
      /\ \A i \in 1..Len(log) : l[i] = log[i]
  BY StoreConstants DEF Logged, Logs, Ids
<1>2. ASSUME NEW k \in Keys, NEW i \in Ids, i # Len(l)
      PROVE  Counts(l, k, i) <=> Counts(log, k, i)
  BY <1>1, <1>2 DEF Counts, Ids
<1>3. \A k \in Keys : mem.totals[k][Len(l)] = 0
  BY <1>1 DEF GoodMemory, MemoryOnce, Counts, Memories, Bag
<1>4. mode # "plain" => mem.ring[Len(l)] = 0
  BY <1>1 DEF GoodMemory, MemoryOnce, Memories, Bag
<1>5. \A k \in Keys : k \in Reached(mem, l, Len(l)) => Counts(l, k, Len(l))
  BY DEF Reached
<1>6. ~raised => \A k \in Keys : Counts(l, k, Len(l)) => k \in Reached(mem, l, Len(l))
  BY DEF Reached
<1>7. /\ \A k \in Keys, i \in Ids : mem.totals[k][i] \in Nat
      /\ \A i \in Ids : mem.ring[i] \in Nat /\ Added(l).ring[i] \in Nat
  BY AddedType DEF Memories, Bag
<1>8. /\ Added(l).ring[Len(l)] <= mem.ring[Len(l)] + 1
      /\ \A i \in Ids : i # Len(l) => Added(l).ring[i] <= mem.ring[i]
  BY <1>1, AddedImage
<1>9. \A k \in Keys :
        /\ k \in Reached(mem, l, Len(l)) =>
             /\ Added(l).totals[k][Len(l)] = mem.totals[k][Len(l)] + 1
             /\ Added(l).entry[k] = "counted"
        /\ k \notin Reached(mem, l, Len(l)) =>
             /\ Added(l).totals[k][Len(l)] = mem.totals[k][Len(l)]
             /\ Added(l).entry[k] = mem.entry[k]
        /\ \A i \in Ids : i # Len(l) => Added(l).totals[k][i] = mem.totals[k][i]
  BY <1>1, AddedImage
<1>10. EntriesMatch(Added(l))
  <2> SUFFICES ASSUME NEW k \in Keys, NEW i \in Ids, Added(l).entry[k] # "counted"
               PROVE  Added(l).totals[k][i] = 0
    BY DEF EntriesMatch
  <2>1. k \notin Reached(mem, l, Len(l)) /\ mem.entry[k] # "counted"
    BY <1>9
  <2>2. mem.totals[k][i] = 0
    BY <2>1 DEF EntriesMatch, GoodMemory
  <2> QED
    BY <1>9, <2>1, <2>2
<1>11. MemoryOnce(Added(l), l)
  <2>1. ASSUME NEW k \in Keys, NEW i \in Ids, Added(l).totals[k][i] > 0
        PROVE  Counts(l, k, i)
    <3>1. CASE i = Len(l)
      BY <1>3, <1>5, <1>9, <2>1, <3>1
    <3>2. CASE i # Len(l)
      BY <1>2, <1>9, <2>1, <3>2 DEF GoodMemory, MemoryOnce
    <3> QED
      BY <3>1, <3>2
  <2>2. ASSUME mode # "plain", NEW i \in Ids
        PROVE  /\ Added(l).ring[i] <= 1
               /\ Added(l).ring[i] > 0 => i <= Len(l)
    BY <1>1, <1>4, <1>7, <1>8, <2>2 DEF GoodMemory, MemoryOnce, Ids
  <2>3. ASSUME mode # "plain", NEW i \in Ids, NEW k \in Keys
        PROVE  Added(l).totals[k][i] <= 1
    BY <1>3, <1>7, <1>9, <2>3 DEF GoodMemory, MemoryOnce
  <2> QED
    BY <2>1, <2>2, <2>3 DEF MemoryOnce
<1>12. MemoryCounted(Added(l), l)
  <2> SUFFICES ASSUME NEW k \in Keys, NEW i \in Ids,
                      Added(l).ring[i] > 0, Counts(l, k, i), ~l[i].raised
               PROVE  Added(l).totals[k][i] > 0
    BY DEF MemoryCounted
  <2>1. CASE i = Len(l)
    BY <1>1, <1>3, <1>6, <1>9, <2>1
  <2>2. CASE i # Len(l)
    <3>1. Counts(log, k, i) /\ l[i] = log[i]
      BY <1>1, <1>2, <2>2 DEF Counts
    <3>2. mem.ring[i] > 0
      BY <1>7, <1>8, <2>2
    <3> QED
      BY <1>9, <2>2, <3>1, <3>2 DEF GoodMemory, MemoryCounted
  <2> QED
    BY <2>1, <2>2
<1> QED
  BY <1>10, <1>11, <1>12 DEF GoodMemory

\* What a file gains comes from the memory it is written from.
LEMMA RewriteDiskGood ==
  ASSUME mode # "plain", mode \in {"none", "plain", "encrypted"}, mode # "none",
         NEW f \in Files, NEW m \in Memories, NEW l,
         GoodFile(f, l), MemoryOnce(m, l), NEW w \in RewriteDisk(f, m)
  PROVE  GoodFile(w.file, l)
<1>1. Prefixes(m.ring) = {NoCopies}
  BY DEF Prefixes
<1> DEFINE bak == IF f.tail = "absent" THEN f.bak ELSE f.lines
           good == [lines |-> m.ring, tail |-> "clean", bak |-> bak]
           broken == {f, [lines |-> NoCopies, tail |-> "absent", bak |-> bak]}
                       \cup [lines: {NoCopies}, tail: {"clean"}, bak: {bak}]
<1>2. w \in OneOf(good, broken, TRUE)
  <2>1. mode = "encrypted"
    OBVIOUS
  <2> QED
    BY <1>1, <2>1 DEF RewriteDisk
<1>3. good.lines = m.ring /\ \A x \in broken : x.lines \in {f.lines, NoCopies}
  OBVIOUS
<1> HIDE DEF good, broken
<1>4. w.file = good \/ w.file \in broken
  BY <1>2, OneOfParts
<1>5. w.file.lines \in {f.lines, NoCopies, m.ring}
  BY <1>3, <1>4
<1> QED
  BY <1>5 DEF GoodFile, MemoryOnce, NoCopies

LEMMA AppendToDiskGood ==
  ASSUME mode = "encrypted", NEW f \in Files, NEW m \in Memories, NEW l,
         GoodFile(f, l), MemoryOnce(m, l), NEW w \in AppendToDisk(f, m)
  PROVE  GoodFile(w.file, l)
<1> DEFINE good == [f EXCEPT !.lines = m.ring, !.tail = "clean"]
<1>1. w \in Attempt(good, {f})
  BY DEF AppendToDisk
<1>2. good.lines = m.ring
  BY DEF Files
<1> HIDE DEF good
<1>3. w.file \in {good, f}
  BY <1>1, AttemptParts
<1> QED
  BY <1>2, <1>3 DEF GoodFile, MemoryOnce

LEMMA PersistGood ==
  ASSUME file \in Files, mode \in Modes, NEW m \in Memories, NEW l,
         NEW trimmed, NEW append,
         GoodFile(file, l), MemoryOnce(m, l),
         NEW w \in Persist(m, trimmed, append)
  PROVE  GoodFile(w.file, l)
<1>1. CASE mode = "plain"
  BY <1>1 DEF GoodFile
<1>2. CASE mode = "none"
  BY <1>2, AttemptParts DEF Persist
<1>3. CASE mode = "encrypted"
  <2>1. PICK v \in IF trimmed THEN RewriteDisk(file, m) ELSE Attempt(file, {}) :
          w \in IF v.fate = "crashed" \/ ~append THEN {v}
                ELSE {[x EXCEPT !.harm = @ + v.harm, !.cut = v.cut] : x \in AppendToDisk(v.file, m)}
    BY <1>3 DEF Persist
  <2>2. GoodFile(v.file, l) /\ v.file \in Files
    <3>1. CASE trimmed
      BY <1>3, <2>1, <3>1, RewriteDiskGood, RewriteDiskType DEF Writes
    <3>2. CASE ~trimmed
      <4>1. v \in Attempt(file, {})
        BY <2>1, <3>2
      <4>2. v.file = file \/ v.file \in {}
        BY <4>1, AttemptParts
      <4> QED
        BY <4>2
    <3> QED
      BY <3>1, <3>2
  <2>3. ASSUME NEW x \in AppendToDisk(v.file, m),
               w = [x EXCEPT !.harm = @ + v.harm, !.cut = v.cut]
        PROVE  GoodFile(w.file, l)
    <3>1. GoodFile(x.file, l) /\ x \in Writes
      BY <1>3, <2>2, AppendToDiskGood, AppendToDiskType
    <3>2. w.file = x.file
      BY <2>3, <3>1 DEF Writes
    <3> QED
      BY <3>1, <3>2
  <2> QED
    BY <2>1, <2>2, <2>3
<1> QED
  BY <1>1, <1>2, <1>3, StoreConstants
LEMMA LoadGood ==
  ASSUME file \in Files, GoodFile(file, log)
  PROVE  GoodMemory([Rebuilt(log, file.lines) EXCEPT !.ring = KeepNewest(@)], log)
<1> DEFINE b == file.lines
           m == [Rebuilt(log, b) EXCEPT !.ring = KeepNewest(@)]
<1>1. b \in Bag
  BY DEF Files
<1>2. \A i \in Ids : b[i] \in Nat /\ KeepNewest(b)[i] \in Nat /\ KeepNewest(b)[i] <= b[i]
  BY <1>1, KeepNewestShrinks DEF Bag
<1>3. mode # "plain" => \A i \in Ids : b[i] <= 1 /\ (b[i] > 0 => i <= Len(log))
  BY DEF GoodFile
<1> HIDE DEF b
<1>4. m.ring = KeepNewest(b)
  BY DEF Rebuilt
<1>5. \A k \in Keys : m.totals[k] = CountedIn(log, b, k)
  BY DEF Rebuilt
<1>6. \A k \in Keys : HasCopies(CountedIn(log, b, k)) => m.entry[k] = "counted"
  BY DEF Rebuilt
<1> HIDE DEF m
<1>7. \A k \in Keys, i \in Ids : m.totals[k][i] = IF Counts(log, k, i) THEN b[i] ELSE 0
  BY <1>5 DEF CountedIn
<1>8. EntriesMatch(m)
  <2> SUFFICES ASSUME NEW k \in Keys, NEW i \in Ids, m.entry[k] # "counted"
               PROVE  m.totals[k][i] = 0
    BY DEF EntriesMatch
  <2>1. ~(CountedIn(log, b, k)[i] > 0)
    BY <1>6 DEF HasCopies
  <2> QED
    BY <1>2, <1>5, <1>7, <2>1
<1>9. MemoryOnce(m, log)
  BY <1>2, <1>3, <1>4, <1>7 DEF MemoryOnce
<1>10. MemoryCounted(m, log)
  BY <1>2, <1>4, <1>7 DEF MemoryCounted
<1> QED
  BY <1>8, <1>9, <1>10 DEF GoodMemory, m, b

-----------------------------------------------------------------------------
(* Every step preserves the invariant and keeps the never totals. *)

\* A method that leaves memory m behind, and its writes w.
LEMMA SettleGood ==
  ASSUME StateOK, NEW m \in Memories, NEW trimmed, NEW append,
         NEW budgets, NEW age, NEW check, NEW w \in Persist(m, trimmed, append),
         Settle(w, m, budgets, age, check), log' \in Logs,
         GoodFile(file, log'), GoodMemory(m, log')
  PROVE  GoodMemory(mem, log)' /\ GoodFile(file, log)'
<1>1. GoodFile(w.file, log')
  BY PersistGood DEF StateOK, GoodMemory
<1>2. mem' = m /\ file' = w.file /\ mode' = mode
  BY DEF Settle
<1> QED
  BY <1>1, <1>2 DEF GoodMemory, GoodFile, EntriesMatch, MemoryOnce, MemoryCounted

LEMMA GoodFileGrows ==
  ASSUME NEW f \in Files, log \in Logs, NEW l, Len(l) = Len(log) + 1, GoodFile(f, log)
  PROVE  GoodFile(f, l)
<1>1. Len(log) \in Nat
  BY DEF Logs
<1> QED
  BY <1>1 DEF GoodFile, Ids

LEMMA AddedKeeps ==
  ASSUME mem \in Memories, NEW l, NEW k \in Keys, NEW i \in Ids
  PROVE  mem.totals[k][i] <= Added(l).totals[k][i]
<1>1. mem.totals[k][i] \in Nat
  BY DEF Memories, Bag
<1>2. Added(l).totals[k][i] = IF k \in Reached(mem, l, Len(l)) /\ i = Len(l)
                                THEN mem.totals[k][i] + 1 ELSE mem.totals[k][i]
  BY AddedImage
<1> QED
  BY <1>1, <1>2

LEMMA StoreInvStep ==
  StoreInv /\ [Next]_vars
    => GoodMemory(mem, log)' /\ GoodFile(file, log)' /\ NeverTotalsKept
<1> SUFFICES ASSUME StoreInv, [Next]_vars
             PROVE  GoodMemory(mem, log)' /\ GoodFile(file, log)' /\ NeverTotalsKept
  OBVIOUS
<1>1. /\ StateOK /\ log \in Logs /\ GoodMemory(mem, log) /\ GoodFile(file, log)
      /\ mem \in Memories /\ file \in Files /\ now \in 0..MaxTime
  BY TypeOKSplit DEF StoreInv, StateOK
<1>2. log' \in Logs
  BY NextType, TypeOKSplit DEF StoreInv, TypeOK, Logs
<1>3. \A k \in Keys, i \in Ids : mem.totals[k][i] \in Nat
  BY <1>1 DEF Memories, Bag
<1>4. ASSUME NEW kind \in Kinds, NEW ts \in 0..now, InsertRecord(kind, ts)
      PROVE  GoodMemory(mem, log)' /\ GoodFile(file, log)' /\ NeverTotalsKept
  <2> DEFINE due == maxAge >= 0 /\ lastCheck # now
             kept == IF due THEN ApplyRetention(Added(log'), log', maxAge) ELSE Added(log')
  <2>1. log' = Logged(kind, ts, FALSE) /\ Len(log') = Len(log) + 1
    BY <1>1, <1>4, LoggedType DEF InsertRecord
  <2>2. Added(log') \in Memories /\ kept \in Memories
    BY <1>1, AddedType, ApplyRetentionType
  <2>3. GoodMemory(Added(log'), log')
    BY <1>1, <1>4, <2>1, AddedGood DEF InsertRecord
  <2>4. GoodMemory(kept, log')
    BY <2>2, <2>3, RetentionGood
  <2>5. PICK w \in Persist(kept, kept.ring # Added(log').ring, TRUE) :
          Settle(w, kept, cycle, maxAge, IF due THEN now ELSE lastCheck)
    BY <1>4 DEF InsertRecord
  <2>6. ASSUME NEW k \in Keys, cycle[k] = "never", NEW i \in Ids
        PROVE  mem.totals[k][i] <= kept.totals[k][i]
    <3>1. mem.totals[k][i] <= Added(log').totals[k][i]
      BY <1>1, AddedKeeps
    <3>2. Added(log').totals[k][i] <= kept.totals[k][i]
      <4>1. Added(log').totals[k][i] \in Nat
        BY <2>2 DEF Memories, Bag
      <4> QED
        BY <2>2, <2>3, <2>6, <4>1, RetentionKeepsNever DEF GoodMemory
    <3>3. Added(log').totals[k][i] \in Nat /\ kept.totals[k][i] \in Nat
      BY <2>2 DEF Memories, Bag
    <3> HIDE DEF kept
    <3> QED
      BY <1>3, <3>1, <3>2, <3>3
  <2> HIDE DEF kept
  <2>7. mem' = kept
    BY <2>5 DEF Settle
  <2>8. NeverTotalsKept
    BY <2>6, <2>7 DEF NeverTotalsKept
  <2>9. GoodFile(file, log')
    BY <1>1, <2>1, GoodFileGrows
  <2> QED
    BY <1>1, <1>2, <2>2, <2>4, <2>5, <2>8, <2>9, SettleGood
<1>5. ASSUME NEW kind \in Kinds, NEW ts \in 0..now, InsertRecordRaises(kind, ts)
      PROVE  GoodMemory(mem, log)' /\ GoodFile(file, log)' /\ NeverTotalsKept
  <2>1. log' = Logged(kind, ts, TRUE) /\ Len(log') = Len(log) + 1
    BY <1>1, <1>5, LoggedType DEF InsertRecordRaises
  <2>2. GoodMemory(Added(log'), log')
    BY <1>1, <1>5, <2>1, AddedGood DEF InsertRecordRaises
  <2>3. mem' = Added(log') /\ mode' = mode /\ file' = file
    BY <1>5 DEF InsertRecordRaises
  <2>4. NeverTotalsKept
    BY <1>1, <2>3, AddedKeeps DEF NeverTotalsKept
  <2>5. GoodFile(file, log')
    BY <1>1, <2>1, GoodFileGrows
  <2> QED
    BY <2>2, <2>3, <2>4, <2>5
    DEF GoodMemory, GoodFile, EntriesMatch, MemoryOnce, MemoryCounted
<1>6. ASSUME NEW age \in AgeChoices \cup {maxAge}, Compact(age)
      PROVE  GoodMemory(mem, log)' /\ GoodFile(file, log)' /\ NeverTotalsKept
  <2> DEFINE kept == ApplyRetention(mem, log, age)
  <2>1. kept \in Memories /\ GoodMemory(kept, log)
    BY <1>1, ApplyRetentionType, RetentionGood
  <2>2. PICK w \in Persist(kept, kept.ring # mem.ring, FALSE) :
          Settle(w, kept, cycle, age, lastCheck)
    BY <1>6 DEF Compact
  <2>3. log' = log /\ mem' = kept
    BY <1>6, <2>2 DEF Compact, Settle
  <2>4. NeverTotalsKept
    BY <1>1, <2>3, RetentionKeepsNever DEF NeverTotalsKept, GoodMemory
  <2> HIDE DEF kept
  <2> QED
    BY <1>1, <1>2, <2>1, <2>2, <2>3, <2>4, SettleGood
<1>7. ASSUME NEW k \in Budgeted, NEW c \in Cycles, SetBudget(k, c)
      PROVE  GoodMemory(mem, log)' /\ GoodFile(file, log)' /\ NeverTotalsKept
  BY <1>1, <1>3, <1>7
  DEF SetBudget, faults, NeverTotalsKept, GoodMemory, GoodFile, EntriesMatch, MemoryOnce, MemoryCounted
<1>8. CASE Clear
  <2> DEFINE cut == [file EXCEPT !.lines = NoCopies, !.tail = "clean"]
             wiped == IF mode = "none" THEN Attempt(file, {})
                      ELSE Attempt([cut EXCEPT !.bak = NoCopies], {file, cut})
  <2>1. PICK w \in wiped :
          Settle(w, EmptyMem, [k \in Budgeted |-> "none"], maxAge, lastCheck)
    BY <1>8 DEF Clear
  <2>2. w.file.lines = file.lines \/ w.file.lines = NoCopies
    <3>1. cut.lines = NoCopies /\ [cut EXCEPT !.bak = NoCopies].lines = NoCopies
      BY <1>1 DEF Files
    <3> HIDE DEF cut
    <3> DEFINE gone == [cut EXCEPT !.bak = NoCopies]
    <3>2. w \in Attempt(file, {}) \/ w \in Attempt(gone, {file, cut})
      BY <2>1
    <3>3. gone.lines = NoCopies
      BY <3>1
    <3> HIDE DEF gone
    <3>4. CASE w \in Attempt(file, {})
      BY <3>4, AttemptParts
    <3>5. CASE w \in Attempt(gone, {file, cut})
      <4>1. w.file = gone \/ w.file \in {file, cut}
        BY <3>5, AttemptParts
      <4> QED
        BY <3>1, <3>3, <4>1
    <3> QED
      BY <3>2, <3>4, <3>5
  <2> HIDE DEF wiped, cut
  <2>3. mem' = EmptyMem /\ file' = w.file /\ mode' = mode /\ log' = log
        /\ cycle' = [k \in Budgeted |-> "none"]
    BY <1>8, <2>1 DEF Settle, Clear
  <2>4. GoodMemory(EmptyMem, log)
    BY EmptyMemGood
  <2>5. NeverTotalsKept
    BY <2>3 DEF NeverTotalsKept, Budgeted
  <2>6. GoodFile(w.file, log)
    BY <1>1, <2>2 DEF GoodFile, NoCopies
  <2> QED
    BY <2>3, <2>4, <2>5, <2>6
    DEF GoodMemory, GoodFile, EntriesMatch, MemoryOnce, MemoryCounted
<1>9. CASE Crash
  <2>1. mem' = mem /\ file' = file /\ mode' = mode /\ log' = log
    BY <1>9 DEF Crash, Settle
  <2> QED
    BY <1>1, <1>3, <2>1
    DEF NeverTotalsKept, GoodMemory, GoodFile, EntriesMatch, MemoryOnce, MemoryCounted
<1>10. ASSUME NEW m, GoodMemory(m, log), Start(m)
       PROVE  GoodMemory(mem, log)' /\ GoodFile(file, log)' /\ NeverTotalsKept
  <2>1. mem' = m /\ file' = file /\ mode' = mode /\ log' = log /\ ~alive
    BY <1>10 DEF Start
  <2> QED
    BY <1>1, <1>10, <2>1
    DEF NeverTotalsKept, GoodMemory, GoodFile, EntriesMatch, MemoryOnce, MemoryCounted
<1>11. CASE LoadFromDisk
  BY <1>1, <1>10, <1>11, LoadGood DEF LoadFromDisk
<1>12. CASE LoadWithWrongKey
  BY <1>10, <1>12, EmptyMemGood DEF LoadWithWrongKey
<1>13. CASE Tick
  BY <1>1, <1>3, <1>13
  DEF Tick, store, faults, NeverTotalsKept, GoodMemory, GoodFile, EntriesMatch, MemoryOnce, MemoryCounted
<1>14. CASE UNCHANGED vars
  BY <1>1, <1>3, <1>14
  DEF vars, store, faults, NeverTotalsKept, GoodMemory, GoodFile, EntriesMatch, MemoryOnce, MemoryCounted
<1> QED
  BY <1>4, <1>5, <1>6, <1>7, <1>8, <1>9, <1>11, <1>12, <1>13, <1>14
  DEF Next, DeleteBudget, Cycles

LEMMA StoreInvInductive == Spec => []StoreInv
<1>1. Init => StoreInv
  BY InitType, EmptyMemGood
  DEF Init, StoreInv, GoodMemory, GoodFile, EmptyFile, NoCopies
<1>2. StoreInv /\ [Next]_vars => StoreInv'
  BY NextType, StoreInvStep DEF StoreInv
<1> QED
  BY <1>1, <1>2, PTL DEF Spec

-----------------------------------------------------------------------------
(* Theorems *)

\* However records are inserted, evicted, trimmed, lost in crashes and
\* reloaded, none is charged to a total it does not belong to and, unless the
\* store is a plain file, none is charged twice.
THEOREM ChargedAtMostOnce == Spec => []CountedAtMostOnce
<1>1. StoreInv => CountedAtMostOnce
  BY StoreInvImplies
<1> QED
  BY <1>1, StoreInvInductive, PTL

\* Every record whose insert returned and that is still in the ring is in
\* the total of each of its dimensions.
THEOREM RingCharged == Spec => []RingIsCounted
<1>1. StoreInv => RingIsCounted
  BY StoreInvImplies
<1> QED
  BY <1>1, StoreInvInductive, PTL

\* The spend of a standing "never" budget never shrinks.
THEOREM NeverSpendMonotone == Spec => NeverTotalsMonotone
<1>1. StoreInv /\ [Next]_vars => [NeverTotalsKept]_vars
  BY StoreInvStep
<1> QED
  BY <1>1, StoreInvInductive, PTL DEF Spec, NeverTotalsMonotone

-----------------------------------------------------------------------------
(* What a failed write can cost, as predicates of a memory, a file and the   *)
(* records owed: those not in the file, whether its last line is torn (which *)
(* dooms the record appended behind it next), and the two together against   *)
(* what a number of faults may cost.                                         *)

Unread(o, f) == {i \in o : f.lines[i] = 0}
Torn(f) == IF f.tail = "partial" THEN 1 ELSE 0
Allowed(d) == d * (IF mode = "encrypted" THEN 1 ELSE 2)
Within(o, f, d) == Cardinality(Unread(o, f)) + Torn(f) <= Allowed(d)
\* A line of the file that is owed is also in the ring: a rewrite of the file
\* from the ring takes none of them away.
Mirrored(o, f, m) == \A i \in o : f.lines[i] > 0 => m.ring[i] > 0
Numbered(b, l) == \A i \in Ids : b[i] > 0 => i <= Len(l)

FaultsContained ==
  /\ Numbered(mem.ring, log) /\ Numbered(file.lines, log)
  /\ mode # "none" /\ ~spoiled => Mirrored(owed, file, mem) /\ Within(owed, file, damage)

FaultInv == TypeOK /\ FaultsContained

LEMMA UnreadBounds ==
  ASSUME NEW S \in SUBSET Ids, NEW T \in SUBSET Ids, NEW n, S \subseteq T \cup {n}
  PROVE  /\ Cardinality(S) \in Nat /\ Cardinality(T) \in Nat
         /\ Cardinality(S) <= Cardinality(T) + 1
         /\ S \subseteq T => Cardinality(S) <= Cardinality(T)
<1>1. IsFiniteSet(Ids)
  BY FS_Interval, StoreConstants DEF Ids
<1>2. IsFiniteSet(S) /\ IsFiniteSet(T)
  BY <1>1, FS_Subset
<1>3. /\ IsFiniteSet(T \cup {n})
      /\ Cardinality(T \cup {n}) = IF n \in T THEN Cardinality(T) ELSE Cardinality(T) + 1
  BY <1>2, FS_AddElement
<1>4. /\ Cardinality(S) <= Cardinality(T \cup {n})
      /\ S \subseteq T => Cardinality(S) <= Cardinality(T)
  BY <1>2, <1>3, FS_Subset
<1> QED
  BY <1>2, <1>3, <1>4, FS_CardinalityType

LEMMA OwedIsNumbered == TypeOK => owed \subseteq Ids
BY StoreConstants DEF TypeOK, Ids

LEMMA FaultInvImplies == FaultInv => FaultsAreContained
<1> SUFFICES ASSUME FaultInv, mode # "none", ~spoiled
             PROVE  Cardinality(Unreadable) <= damage * (IF mode = "encrypted" THEN 1 ELSE 2)
  BY DEF FaultsAreContained
<1>1. Unreadable = Unread(owed, file)
  BY DEF Unreadable, Unread
<1>2. Unread(owed, file) \in SUBSET Ids
  BY OwedIsNumbered DEF FaultInv, Unread
<1>3. Cardinality(Unread(owed, file)) \in Nat
  BY <1>2, UnreadBounds
<1>4. Cardinality(Unread(owed, file)) + Torn(file) <= Allowed(damage)
  BY DEF FaultInv, FaultsContained, Within
<1>5. damage \in Nat
  BY StoreConstants DEF FaultInv, TypeOK
<1> QED
  BY <1>1, <1>3, <1>4, <1>5 DEF Torn, Allowed

\* Nothing more is lost than was, or one record more.
LEMMA NoneLost ==
  ASSUME owed \subseteq Ids, Within(owed, file, damage), NEW o \in SUBSET Ids, NEW g,
         mode \in {"plain", "encrypted"}, damage \in Nat,
         Unread(o, g) \subseteq Unread(owed, file), Torn(g) <= Torn(file)
  PROVE  Within(o, g, damage)
<1> DEFINE S == Unread(o, g)
           T == Unread(owed, file)
<1>1. S \in SUBSET Ids /\ T \in SUBSET Ids /\ S \subseteq T \cup {0}
  BY DEF Unread
<1>2. Cardinality(S) \in Nat /\ Cardinality(T) \in Nat /\ Cardinality(S) <= Cardinality(T)
  BY <1>1, UnreadBounds
<1>3. Cardinality(T) + Torn(file) <= Allowed(damage)
  BY DEF Within
<1>4. Torn(g) \in Nat /\ Torn(file) \in Nat /\ Allowed(damage) \in Nat
  BY DEF Torn, Allowed
<1> HIDE DEF S, T
<1>5. Cardinality(S) + Torn(g) <= Allowed(damage)
  BY <1>2, <1>3, <1>4
<1> QED
  BY <1>5 DEF Within, S

LEMMA OneLost ==
  ASSUME owed \subseteq Ids, Within(owed, file, damage), NEW o \in SUBSET Ids, NEW g, NEW n,
         NEW total \in Nat, mode \in {"plain", "encrypted"}, damage \in Nat,
         Unread(o, g) \subseteq Unread(owed, file) \cup {n},
         1 + Torn(g) + Allowed(damage) <= Torn(file) + Allowed(total)
  PROVE  Within(o, g, total)
<1> DEFINE S == Unread(o, g)
           T == Unread(owed, file)
<1>1. S \in SUBSET Ids /\ T \in SUBSET Ids /\ S \subseteq T \cup {n}
  BY DEF Unread
<1>2. Cardinality(S) \in Nat /\ Cardinality(T) \in Nat /\ Cardinality(S) <= Cardinality(T) + 1
  BY <1>1, UnreadBounds
<1>3. Cardinality(T) + Torn(file) <= Allowed(damage)
  BY DEF Within
<1>4. /\ Torn(g) \in Nat /\ Torn(file) \in Nat
      /\ Allowed(damage) \in Nat /\ Allowed(total) \in Nat
  BY DEF Torn, Allowed
<1> HIDE DEF S, T
<1>5. Cardinality(S) + Torn(g) <= Allowed(total)
  BY <1>2, <1>3, <1>4
<1> QED
  BY <1>5 DEF Within, S

LEMMA NothingToWrite ==
  ASSUME NEW f, NEW w \in Attempt(f, {})
  PROVE  w.file = f /\ w.fate = "ok" /\ w.harm = 0 /\ ~w.cut
<1>1. ~(w.file \in {})
  OBVIOUS
<1> QED
  BY <1>1, AttemptParts

\* A rewrite that is not cut short saves the ring; one that is leaves the old
\* lines, or some of the ring's.
LEMMA RewriteOutcome ==
  ASSUME mode \in {"plain", "encrypted"},
         NEW f \in Files, NEW m \in Memories, NEW w \in RewriteDisk(f, m)
  PROVE  /\ w \in Writes
         /\ w.cut \/ (/\ w.harm = 0 /\ w.fate = "ok"
                      /\ w.file.lines = m.ring /\ w.file.tail = "clean")
         /\ \A i \in Ids : w.file.lines[i] > 0 => f.lines[i] > 0 \/ m.ring[i] > 0
<1> DEFINE bak == IF f.tail = "absent" THEN f.bak ELSE f.lines
           partly == IF mode = "encrypted" THEN {"clean"} ELSE {"clean", "partial"}
           good == [lines |-> m.ring, tail |-> "clean", bak |-> bak]
           gone == [lines |-> NoCopies, tail |-> "absent", bak |-> bak]
           torn == [lines: Prefixes(m.ring), tail: partly, bak: {bak}]
<1>1. w \in OneOf(good, {f, gone} \cup torn, TRUE)
  BY DEF RewriteDisk
<1>2. ASSUME NEW p \in Prefixes(m.ring), NEW i \in Ids, p[i] > 0
      PROVE  m.ring[i] > 0
  BY <1>2 DEF Prefixes, NoCopies
<1>3. \A x \in torn : x.lines \in Prefixes(m.ring)
  OBVIOUS
<1>4. good.lines = m.ring /\ good.tail = "clean" /\ gone.lines = NoCopies
  OBVIOUS
<1> HIDE DEF torn, partly, good, gone, bak
<1>5. \/ w.file = good /\ w.fate = "ok" /\ w.harm = 0
      \/ w.file \in {f, gone} \cup torn /\ w.cut
  BY <1>1, OneOfParts
<1>6. \A i \in Ids : ~(NoCopies[i] > 0)
  BY DEF NoCopies
<1>7. \A i \in Ids : w.file.lines[i] > 0 => f.lines[i] > 0 \/ m.ring[i] > 0
  BY <1>2, <1>3, <1>4, <1>5, <1>6
<1> QED
  BY <1>4, <1>5, <1>7, RewriteDiskType

\* A bag with a copy has a newest one: the members at or above a member are
\* fewest for the highest.
LEMMA HighestMember ==
  ASSUME NEW S \in SUBSET Ids, S # {}
  PROVE  \E i \in S : \A j \in S : j <= i
<1> DEFINE above(i) == {j \in S : j >= i}
           Tops == {above(i) : i \in S}
<1>1. IsFiniteSet(S)
  <2>1. IsFiniteSet(Ids)
    BY FS_Interval, StoreConstants DEF Ids
  <2> QED
    BY <2>1, FS_Subset
<1>2. Tops \subseteq FiniteSubsetsOf(S) /\ Tops # {}
  <2>1. \A i \in S : above(i) \subseteq S /\ IsFiniteSet(above(i))
    BY <1>1, FS_Subset
  <2> HIDE DEF above
  <2> QED
    BY <2>1 DEF FiniteSubsetsOf
<1>3. IsWellFoundedOn(StrictSubsetOrdering(S), FiniteSubsetsOf(S))
  BY FS_StrictSubsetOrderingWellFounded
<1>4. PICK t \in Tops : \A u \in Tops : ~ (<<u, t>> \in StrictSubsetOrdering(S))
  <2> HIDE DEF Tops
  <2> QED
    BY <1>2, <1>3, WFMin
<1>5. PICK i \in S : t = above(i)
  BY <1>4
<1>6. ASSUME NEW j \in S, j > i PROVE FALSE
  <2>1. above(j) \in Tops
    OBVIOUS
  <2>2. above(j) \subseteq above(i) /\ i \in above(i) /\ i \notin above(j)
    <3>1. \A u \in S : u \in Int
      BY StoreConstants DEF Ids
    <3> QED
      BY <1>6, <3>1
  <2>3. above(j) \subseteq S /\ above(i) \subseteq S
    OBVIOUS
  <2> HIDE DEF above
  <2>4. <<above(j), above(i)>> \in StrictSubsetOrdering(S)
    BY <2>2, <2>3 DEF StrictSubsetOrdering
  <2> QED
    BY <1>4, <1>5, <2>1, <2>4
<1>7. \A j \in S : j <= i
  <2>1. \A j \in S : j \in Int /\ i \in Int
    BY StoreConstants DEF Ids
  <2> QED
    BY <1>6, <2>1
<1> QED
  BY <1>7

LEMMA NewestIs ==
  ASSUME NEW b \in Bag, NEW n \in Ids, b[n] > 0, \A i \in Ids : b[i] > 0 => i <= n
  PROVE  Newest(b) = n
<1>1. \A i \in Ids : b[i] > 0 /\ (\A j \in Ids : b[j] > 0 => j <= i) => i = n
  BY DEF Ids
<1> QED
  BY <1>1 DEF Newest

\* An append saves the record n just inserted, if the ring still has it and
\* the last line was whole; it never takes a line away.
LEMMA AppendOutcome ==
  ASSUME mode \in {"plain", "encrypted"}, NEW f \in Files, NEW m \in Memories,
         NEW n \in Ids, \A i \in Ids : m.ring[i] > 0 => i <= n,
         NEW w \in AppendToDisk(f, m)
  PROVE  /\ w.harm \in {0, 1}
         /\ mode = "encrypted" =>
              IF w.harm = 1 THEN w.file = f
              ELSE w.file.lines = m.ring /\ w.file.tail = "clean"
         /\ mode = "plain" =>
              /\ \A i \in Ids : f.lines[i] > 0 => w.file.lines[i] > 0
              /\ \A i \in Ids : w.file.lines[i] > 0 => f.lines[i] > 0 \/ m.ring[i] > 0
              /\ w.harm = 0 =>
                   IF HasCopies(m.ring)
                   THEN /\ w.file.tail = "clean"
                        /\ f.tail # "partial" /\ m.ring[n] > 0 => w.file.lines[n] > 0
                   ELSE w.file = f
<1>1. \A i \in Ids : m.ring[i] \in Nat /\ f.lines[i] \in Nat
  BY DEF Memories, Files, Bag
<1>2. \A i \in Ids : m.ring[i] > 0 => i <= n
  OBVIOUS
<1>4. CASE mode = "encrypted"
  <2> DEFINE good == [f EXCEPT !.lines = m.ring, !.tail = "clean"]
  <2>1. good.lines = m.ring /\ good.tail = "clean"
    BY DEF Files
  <2>2. w \in Attempt(good, {f})
    BY <1>4 DEF AppendToDisk
  <2> HIDE DEF good
  <2>3. \/ w.harm = 0 /\ w.file = good
        \/ w.harm = 1 /\ w.file = f
    BY <2>2, AttemptParts
  <2> QED
    BY <1>4, <2>1, <2>3
<1>5. CASE mode = "plain" /\ ~HasCopies(m.ring)
  <2>1. w \in Attempt(f, {})
    BY <1>5 DEF AppendToDisk, AppendLine
  <2>2. w.harm = 0 /\ w.file = f
    BY <2>1, NothingToWrite
  <2> QED
    BY <1>5, <2>2
<1>6. CASE mode = "plain" /\ HasCopies(m.ring)
  <2> DEFINE lines == IF f.tail = "partial" THEN f.lines
                      ELSE OneMore(f.lines, Newest(m.ring))
             good == [f EXCEPT !.tail = "clean", !.lines = lines]
             torn == [f EXCEPT !.tail = "partial"]
  <2>1. w \in Attempt(good, {f, torn})
    BY <1>6 DEF AppendToDisk, AppendLine
  <2>2. good.lines = lines /\ good.tail = "clean"
    BY DEF Files
  <2>3. torn.lines = f.lines
    BY DEF Files
  <2>4. \A i \in Ids : f.lines[i] > 0 => lines[i] > 0
    BY <1>1 DEF OneMore
  <2>5. \A i \in Ids : lines[i] > 0 => f.lines[i] > 0 \/ i = Newest(m.ring)
    BY <1>1 DEF OneMore
  <2>6. m.ring[Newest(m.ring)] > 0
    <3>1. PICK i \in Ids : m.ring[i] > 0 /\ \A j \in Ids : m.ring[j] > 0 => j <= i
      <4> DEFINE held == {i \in Ids : m.ring[i] > 0}
      <4>1. held # {} /\ held \subseteq Ids
        BY <1>6 DEF HasCopies
      <4> QED
        BY <4>1, HighestMember
    <3> QED
      BY <3>1 DEF Newest
  <2>7. f.tail # "partial" /\ m.ring[n] > 0 => lines[n] > 0
    <3> SUFFICES ASSUME f.tail # "partial", m.ring[n] > 0 PROVE lines[n] > 0
      OBVIOUS
    <3>1. Newest(m.ring) = n
      BY <1>2, NewestIs DEF Memories
    <3> QED
      BY <1>1, <3>1 DEF OneMore
  <2> HIDE DEF lines, good, torn
  <2>8. \/ w.harm = 0 /\ w.file = good
        \/ w.harm = 1 /\ (w.file = f \/ w.file = torn)
    BY <2>1, AttemptParts
  <2>9. CASE w.harm = 0 /\ w.file = good
    <3>1. \A i \in Ids : lines[i] > 0 => f.lines[i] > 0 \/ m.ring[i] > 0
      BY <2>5, <2>6
    <3> QED
      BY <1>6, <2>2, <2>4, <2>7, <2>9, <3>1
  <2>10. CASE w.harm = 1 /\ (w.file = f \/ w.file = torn)
    BY <1>6, <2>3, <2>10
  <2> QED
    BY <2>8, <2>9, <2>10
<1> QED
  BY <1>4, <1>5, <1>6

\* What a method does to the file: a rewrite if it trimmed, then an append; an
\* undamaged rewrite leaves the ring's lines, and no rewrite leaves the file.
LEMMA PersistOutcome ==
  ASSUME mode \in {"plain", "encrypted"}, file \in Files, NEW m \in Memories,
         NEW trimmed \in BOOLEAN, NEW append \in BOOLEAN, NEW w \in Persist(m, trimmed, append)
  PROVE  \E g \in Files :
           /\ \A i \in Ids : g.lines[i] > 0 => file.lines[i] > 0 \/ m.ring[i] > 0
           /\ ~w.cut => g = file \/ (g.lines = m.ring /\ g.tail = "clean")
           /\ \/ w.file = g /\ (~w.cut => w.harm = 0 /\ w.fate = "ok" /\ ~append)
              \/ append /\ \E x \in AppendToDisk(g, m) :
                   w.file = x.file /\ w.fate = x.fate /\ (~w.cut => w.harm = x.harm)
<1>1. PICK v \in IF trimmed THEN RewriteDisk(file, m) ELSE Attempt(file, {}) :
        w \in IF v.fate = "crashed" \/ ~append THEN {v}
              ELSE {[x EXCEPT !.harm = @ + v.harm, !.cut = v.cut] : x \in AppendToDisk(v.file, m)}
  BY DEF Persist
<1>2. /\ v \in Writes
      /\ \A i \in Ids : v.file.lines[i] > 0 => file.lines[i] > 0 \/ m.ring[i] > 0
      /\ ~v.cut => /\ v.file = file \/ (v.file.lines = m.ring /\ v.file.tail = "clean")
                   /\ v.harm = 0 /\ v.fate = "ok"
  <2>1. CASE trimmed
    BY <1>1, <2>1, RewriteOutcome
  <2>2. CASE ~trimmed
    <3>1. v \in Attempt(file, {})
      BY <1>1, <2>2
    <3>2. v.file = file /\ v.fate = "ok" /\ v.harm = 0
      BY <3>1, NothingToWrite
    <3>3. v \in Writes
      BY <3>1, AttemptType
    <3> QED
      BY <3>2, <3>3
  <2> QED
    BY <2>1, <2>2
<1>3. v.file \in Files
  BY <1>2 DEF Writes
<1>4. CASE w = v /\ (v.fate = "crashed" \/ ~append)
  BY <1>2, <1>3, <1>4
<1>5. CASE append /\ \E x \in AppendToDisk(v.file, m) :
             w = [x EXCEPT !.harm = @ + v.harm, !.cut = v.cut]
  <2>1. PICK x \in AppendToDisk(v.file, m) :
               w = [x EXCEPT !.harm = @ + v.harm, !.cut = v.cut]
    BY <1>5
  <2>2. x \in Writes
    BY <1>3, AppendToDiskType
  <2>3. /\ w.file = x.file /\ w.fate = x.fate /\ w.cut = v.cut
        /\ w.harm = x.harm + v.harm /\ x.harm \in Nat
    BY <1>2, <2>1, <2>2, MergedWrite DEF Writes
  <2>4. ~w.cut => w.harm = x.harm
    BY <1>2, <2>3
  <2> QED
    BY <1>2, <1>3, <1>5, <2>3, <2>4
<1> QED
  BY <1>1, <1>4, <1>5

LEMMA PersistNumbered ==
  ASSUME mode \in {"plain", "encrypted"}, file \in Files,
         NEW m \in Memories, NEW n, NEW trimmed \in BOOLEAN, NEW append \in BOOLEAN,
         append => n \in Ids /\ \A i \in Ids : m.ring[i] > 0 => i <= n,
         NEW w \in Persist(m, trimmed, append)
  PROVE  \A i \in Ids : w.file.lines[i] > 0 => file.lines[i] > 0 \/ m.ring[i] > 0
<1>1. PICK g \in Files :
        /\ \A i \in Ids : g.lines[i] > 0 => file.lines[i] > 0 \/ m.ring[i] > 0
        /\ \/ w.file = g
           \/ append /\ \E x \in AppendToDisk(g, m) : w.file = x.file
  BY PersistOutcome
<1>2. CASE w.file = g
  BY <1>1, <1>2
<1>3. CASE append /\ \E x \in AppendToDisk(g, m) : w.file = x.file
  <2>1. PICK x \in AppendToDisk(g, m) : w.file = x.file
    BY <1>3
  <2>2. x.harm \in {0, 1}
    BY <1>3, AppendOutcome
  <2>3. \A i \in Ids : x.file.lines[i] > 0 => g.lines[i] > 0 \/ m.ring[i] > 0
    BY <1>3, <2>2, AppendOutcome
  <2> QED
    BY <1>1, <2>1, <2>3
<1> QED
  BY <1>1, <1>2, <1>3

\* A method whose rewrite, if any, was not cut short.
LEMMA PersistContained ==
  ASSUME mode \in {"plain", "encrypted"}, file \in Files, damage \in Nat, owed \subseteq Ids,
         Mirrored(owed, file, mem), Within(owed, file, damage),
         NEW m \in Memories, NEW n, NEW trimmed \in BOOLEAN, NEW append \in BOOLEAN,
         append => n \in Ids /\ \A i \in Ids : m.ring[i] > 0 => i <= n,
         NEW w \in Persist(m, trimmed, append), ~w.cut, NEW o \in SUBSET Ids,
         \A i \in o : i \in StillOwed(m) \/ (append /\ i = n /\ m.ring[n] > 0)
  PROVE  Mirrored(o, w.file, m) /\ Within(o, w.file, damage + w.harm)
<1>1. PICK g \in Files :
        /\ g = file \/ (g.lines = m.ring /\ g.tail = "clean")
        /\ \/ w.file = g /\ w.harm = 0 /\ ~append
           \/ append /\ \E x \in AppendToDisk(g, m) : w.file = x.file /\ w.harm = x.harm
  BY PersistOutcome
<1>2. \A i \in Ids : m.ring[i] \in Nat /\ g.lines[i] \in Nat
  BY DEF Memories, Files, Bag
<1>3. \A i \in Ids : w.file.lines[i] > 0 => file.lines[i] > 0 \/ m.ring[i] > 0
  BY PersistNumbered
<1>4. \A i \in StillOwed(m) : /\ i \in owed /\ i \in Ids
                              /\ file.lines[i] > 0 => m.ring[i] > 0
  BY DEF StillOwed, Mirrored
<1>5. Mirrored(o, w.file, m)
  BY <1>3, <1>4 DEF Mirrored
\* The file the append starts from has lost no more than the file had.
<1>6. \A i \in StillOwed(m) : g.lines[i] = 0 => i \in Unread(owed, file)
  <2> SUFFICES ASSUME NEW i \in StillOwed(m), g.lines[i] = 0, g.lines = m.ring
               PROVE  i \in Unread(owed, file)
    BY <1>1, <1>4 DEF Unread
  <2>1. ~(file.lines[i] > 0)
    BY <1>4
  <2>2. file.lines[i] \in Nat
    BY <1>4 DEF Files, Bag
  <2> QED
    BY <1>4, <2>1, <2>2 DEF Unread
<1>7. Torn(g) <= Torn(file) /\ (g.tail = "partial" => Torn(file) = 1)
  BY <1>1 DEF Torn
<1>8. CASE w.file = g /\ w.harm = 0 /\ ~append
  <2>1. Unread(o, g) \subseteq Unread(owed, file)
    BY <1>6, <1>8 DEF Unread
  <2>2. Within(o, g, damage)
    BY <1>7, <2>1, NoneLost
  <2> QED
    BY <1>5, <1>8, <2>2
<1>9. CASE append /\ \E x \in AppendToDisk(g, m) : w.file = x.file /\ w.harm = x.harm
  <2>1. PICK x \in AppendToDisk(g, m) : w.file = x.file /\ w.harm = x.harm
    BY <1>9
  <2>2. n \in Ids /\ \A i \in Ids : m.ring[i] > 0 => i <= n
    BY <1>9
  <2>3. /\ w.harm \in {0, 1}
        /\ mode = "encrypted" =>
             IF w.harm = 1 THEN w.file = g
             ELSE w.file.lines = m.ring /\ w.file.tail = "clean"
        /\ mode = "plain" =>
             /\ \A i \in Ids : g.lines[i] > 0 => w.file.lines[i] > 0
             /\ w.harm = 0 =>
                  IF HasCopies(m.ring)
                  THEN /\ w.file.tail = "clean"
                       /\ g.tail # "partial" /\ m.ring[n] > 0 => w.file.lines[n] > 0
                  ELSE w.file = g
    BY <2>1, <2>2, AppendOutcome
  \* A write that fails costs the record inserted, and may tear the line.
  <2>4. CASE w.harm = 1
    <3>1. \A i \in o : w.file.lines[i] = 0 => i = n \/ i \in Unread(owed, file)
      <4> SUFFICES ASSUME NEW i \in o, w.file.lines[i] = 0, i # n
                   PROVE  i \in Unread(owed, file)
        OBVIOUS
      <4>1. i \in StillOwed(m) /\ i \in Ids
        OBVIOUS
      <4>2. ~(g.lines[i] > 0)
        BY <2>3, <2>4, <4>1
      <4> QED
        BY <1>2, <1>6, <4>1, <4>2
    <3>2. Unread(o, w.file) \subseteq Unread(owed, file) \cup {n}
      BY <3>1 DEF Unread
    <3>3. 1 + Torn(w.file) + Allowed(damage) <= Torn(file) + Allowed(damage + 1)
      <4>1. CASE mode = "encrypted"
        BY <1>7, <2>3, <2>4, <4>1 DEF Allowed, Torn
      <4>2. CASE mode = "plain"
        BY <4>2 DEF Allowed, Torn
      <4> QED
        BY <4>1, <4>2
    <3>4. damage + 1 \in Nat
      OBVIOUS
    <3>5. Within(o, w.file, damage + 1)
      BY <3>2, <3>3, <3>4, OneLost
    <3> QED
      BY <1>5, <2>4, <3>5
  <2>5. CASE w.harm = 0
    <3>1. damage + w.harm = damage
      BY <2>5
    <3>2. CASE g.tail = "partial" /\ mode = "plain" /\ HasCopies(m.ring)
      <4>1. \A i \in o : w.file.lines[i] = 0 => i = n \/ i \in Unread(owed, file)
        <5> SUFFICES ASSUME NEW i \in o, w.file.lines[i] = 0, i # n
                     PROVE  i \in Unread(owed, file)
          OBVIOUS
        <5>1. i \in StillOwed(m) /\ i \in Ids
          OBVIOUS
        <5>2. ~(g.lines[i] > 0)
          BY <2>3, <3>2, <5>1
        <5> QED
          BY <1>2, <1>6, <5>1, <5>2
      <4>2. Unread(o, w.file) \subseteq Unread(owed, file) \cup {n}
        BY <4>1 DEF Unread
      <4>3. 1 + Torn(w.file) + Allowed(damage) <= Torn(file) + Allowed(damage)
        BY <1>7, <2>3, <2>5, <3>2 DEF Allowed, Torn
      <4>4. Within(o, w.file, damage)
        BY <4>2, <4>3, OneLost
      <4> QED
        BY <1>5, <3>1, <4>4
    <3>3. CASE ~(g.tail = "partial" /\ mode = "plain" /\ HasCopies(m.ring))
      <4>1. ASSUME NEW i \in o, w.file.lines[i] = 0 PROVE i \in Unread(owed, file)
        <5>1. i \in Ids
          OBVIOUS
        <5>2. CASE mode = "encrypted"
          <6>1. ~(m.ring[i] > 0)
            BY <2>3, <2>5, <4>1, <5>2
          <6>2. i \in StillOwed(m) /\ ~(file.lines[i] > 0)
            BY <1>4, <6>1
          <6>3. file.lines[i] \in Nat
            BY <5>1 DEF Files, Bag
          <6> QED
            BY <1>4, <6>2, <6>3 DEF Unread
        <5>3. CASE mode = "plain" /\ HasCopies(m.ring)
          <6>1. m.ring[n] > 0 => w.file.lines[n] > 0
            BY <2>3, <2>5, <3>3, <5>3
          <6>2. i \in StillOwed(m)
            BY <4>1, <6>1
          <6>3. ~(g.lines[i] > 0)
            BY <2>3, <4>1, <5>1, <5>3
          <6> QED
            BY <1>2, <1>6, <5>1, <6>2, <6>3
        <5>4. CASE mode = "plain" /\ ~HasCopies(m.ring)
          <6>1. w.file = g
            BY <2>3, <2>5, <5>4
          <6>2. i \in StillOwed(m)
            BY <2>2, <5>4 DEF HasCopies
          <6> QED
            BY <1>6, <4>1, <6>1, <6>2
        <5> QED
          BY <5>2, <5>3, <5>4
      <4>2. Unread(o, w.file) \subseteq Unread(owed, file)
        BY <4>1 DEF Unread
      <4>3. Torn(w.file) <= Torn(file)
        BY <1>7, <2>3, <2>5, <3>3 DEF Torn
      <4>4. Within(o, w.file, damage)
        BY <4>2, <4>3, NoneLost
      <4> QED
        BY <1>5, <3>1, <4>4
    <3> QED
      BY <3>2, <3>3
  <2> QED
    BY <2>3, <2>4, <2>5
<1> QED
  BY <1>1, <1>8, <1>9

\* A method that leaves memory m behind, and its writes w.
LEMMA SettleContained ==
  ASSUME FaultInv, StateOK,
         NEW m \in Memories, NEW n, NEW trimmed \in BOOLEAN, NEW append \in BOOLEAN,
         append => n \in Ids /\ \A i \in Ids : m.ring[i] > 0 => i <= n,
         NEW w \in Persist(m, trimmed, append),
         NEW budgets, NEW age, NEW check, Settle(w, m, budgets, age, check),
         owed' \subseteq Ids,
         \A i \in NewlyOwed(w, m) : append /\ i = n /\ m.ring[n] > 0,
         Numbered(m.ring, log'), Numbered(file.lines, log')
  PROVE  FaultsContained'
<1>1. /\ file \in Files /\ damage \in Nat /\ owed \subseteq Ids
      /\ mode \in {"none", "plain", "encrypted"} /\ w \in Writes
  <2>1. StateOK /\ owed \subseteq Ids
    BY OwedIsNumbered DEF FaultInv
  <2> QED
    BY <2>1, PersistType, StoreConstants DEF StateOK
<1>2. /\ mem' = m /\ mode' = mode /\ file' = w.file /\ damage' = damage + w.harm
      /\ spoiled' = (spoiled \/ w.cut) /\ owed' = StillOwed(m) \cup NewlyOwed(w, m)
  BY DEF Settle
<1>3. CASE mode = "none"
  <2>1. w \in Attempt(file, {})
    BY <1>3 DEF Persist
  <2>2. file' = file
    BY <1>2, <2>1, NothingToWrite
  <2> QED
    BY <1>2, <1>3, <2>2 DEF FaultsContained, Numbered
<1>4. CASE mode \in {"plain", "encrypted"}
  <2>1. \A i \in Ids : w.file.lines[i] > 0 => file.lines[i] > 0 \/ m.ring[i] > 0
    BY <1>1, <1>4, PersistNumbered
  <2>2. Numbered(mem.ring, log)' /\ Numbered(file.lines, log)'
    BY <1>2, <2>1 DEF Numbered
  <2>3. ASSUME ~spoiled' PROVE (Mirrored(owed, file, mem) /\ Within(owed, file, damage))'
    <3>1. Mirrored(owed, file, mem) /\ Within(owed, file, damage) /\ ~w.cut
      BY <1>2, <1>4, <2>3 DEF FaultInv, FaultsContained
    <3>2. \A i \in owed' : i \in StillOwed(m) \/ (append /\ i = n /\ m.ring[n] > 0)
      BY <1>2
    <3>3. Mirrored(owed', w.file, m) /\ Within(owed', w.file, damage + w.harm)
      BY <1>1, <1>4, <3>1, <3>2, PersistContained
    <3> QED
      BY <1>2, <3>3 DEF Mirrored, Within, Unread, Torn, Allowed
  <2> QED
    BY <2>2, <2>3 DEF FaultsContained
<1> QED
  BY <1>1, <1>3, <1>4

LEMMA FaultStep == FaultInv /\ [Next]_vars => FaultsContained'
<1> SUFFICES ASSUME FaultInv, [Next]_vars PROVE FaultsContained'
  OBVIOUS
<1>1. /\ StateOK /\ log \in Logs /\ mem \in Memories /\ file \in Files /\ now \in 0..MaxTime
      /\ mode \in {"none", "plain", "encrypted"} /\ damage \in Nat /\ Len(log) \in Nat
  <2>1. StateOK /\ log \in Logs
    BY TypeOKSplit DEF FaultInv
  <2> QED
    BY <2>1, StoreConstants DEF StateOK, Logs
<1>2. /\ Numbered(mem.ring, log) /\ Numbered(file.lines, log)
      /\ mode # "none" /\ ~spoiled => Mirrored(owed, file, mem) /\ Within(owed, file, damage)
  BY DEF FaultInv, FaultsContained
<1>3. \A i \in Ids : mem.ring[i] \in Nat /\ file.lines[i] \in Nat
  BY <1>1 DEF Memories, Files, Bag
<1>4. owed \subseteq Ids /\ owed' \subseteq Ids
  <2>1. TypeOK /\ TypeOK'
    BY NextType DEF FaultInv
  <2>2. owed' \subseteq 1..Len(log') /\ Len(log') <= MaxInserts /\ Len(log') \in Nat
    BY <2>1 DEF TypeOK
  <2> QED
    BY <2>1, <2>2, OwedIsNumbered, StoreConstants DEF Ids
\* What the record an insert appends to log changes.
<1>5. ASSUME NEW kind \in Kinds, NEW ts \in 0..now, NEW raised \in BOOLEAN,
             Len(log) < MaxInserts, log' = Logged(kind, ts, raised)
      PROVE  /\ Len(log') = Len(log) + 1 /\ Len(log') \in Ids
             /\ Added(log') \in Memories
             /\ \A i \in Ids : Added(log').ring[i] > 0 => i <= Len(log')
             /\ Numbered(file.lines, log')
  <2>1. log' \in Logs /\ Len(log') = Len(log) + 1 /\ Len(log') \in Ids
    BY <1>1, <1>5, LoggedType, StoreConstants DEF Ids
  <2>2. Added(log') \in Memories
    BY <1>1, AddedType
  <2>3. \A i \in Ids : Added(log').ring[i] > 0 => i = Len(log') \/ mem.ring[i] > 0
    <3>1. \A i \in Ids : Added(log').ring[i] \in Nat
      BY <2>2 DEF Memories, Bag
    <3>2. \A i \in Ids :
            Added(log').ring[i] <= IF i = Len(log') THEN mem.ring[i] + 1 ELSE mem.ring[i]
      BY <1>1, AddedImage
    <3> QED
      BY <1>3, <3>1, <3>2
  <2>4. Numbered(mem.ring, log') /\ Numbered(file.lines, log')
    BY <1>1, <1>2, <2>1 DEF Numbered, Ids
  <2> QED
    BY <2>1, <2>2, <2>3, <2>4 DEF Numbered, Ids
<1>6. ASSUME NEW kind \in Kinds, NEW ts \in 0..now, InsertRecord(kind, ts)
      PROVE  FaultsContained'
  <2> DEFINE due == maxAge >= 0 /\ lastCheck # now
             kept == IF due THEN ApplyRetention(Added(log'), log', maxAge) ELSE Added(log')
             n == Len(log')
  <2>1. log' = Logged(kind, ts, FALSE) /\ Len(log) < MaxInserts
    BY <1>6 DEF InsertRecord
  <2>2. /\ Len(log') = Len(log) + 1 /\ n \in Ids
        /\ Added(log') \in Memories
        /\ \A i \in Ids : Added(log').ring[i] > 0 => i <= n
        /\ Numbered(file.lines, log')
    BY <1>5, <2>1
  <2>3. kept \in Memories
    BY <2>2, ApplyRetentionType
  <2>4. \A i \in Ids : kept.ring[i] > 0 => Added(log').ring[i] > 0
    <3>1. \A i \in Ids : kept.ring[i] \in Nat /\ Added(log').ring[i] \in Nat
      BY <2>2, <2>3 DEF Memories, Bag
    <3>2. \A i \in Ids : kept.ring[i] <= Added(log').ring[i]
      BY <2>2, <3>1, RetentionShrinks
    <3> HIDE DEF kept
    <3> QED
      BY <3>1, <3>2
  <2>5. PICK w \in Persist(kept, kept.ring # Added(log').ring, TRUE) :
          Settle(w, kept, cycle, maxAge, IF due THEN now ELSE lastCheck)
    BY <1>6 DEF InsertRecord
  <2> HIDE DEF kept, due
  <2>6. \A i \in Ids : kept.ring[i] > 0 => i <= n
    BY <2>2, <2>4
  <2>7. \A i \in NewlyOwed(w, kept) : i = n /\ kept.ring[n] > 0
    BY <1>1, <2>2 DEF NewlyOwed, Ids
  <2>8. Numbered(kept.ring, log')
    BY <2>6 DEF Numbered
  <2> HIDE DEF n
  <2> QED
    BY <1>1, <1>4, <2>2, <2>3, <2>5, <2>6, <2>7, <2>8, SettleContained
\* Where memory and file stay: what is still owed was owed, and is mirrored.
<1>7. ASSUME NEW m, mem' = m, mode' = mode, file' = file, damage' = damage, spoiled' = spoiled,
             owed' \subseteq owed, \A i \in owed' : file.lines[i] > 0 => m.ring[i] > 0,
             Numbered(m.ring, log'), Numbered(file.lines, log')
      PROVE  FaultsContained'
  <2>1. ASSUME mode # "none", ~spoiled PROVE Within(owed', file, damage)
    <3>1. Unread(owed', file) \subseteq Unread(owed, file)
      BY <1>7 DEF Unread
    <3>2. Torn(file) <= Torn(file)
      BY DEF Torn
    <3> QED
      BY <1>1, <1>2, <1>4, <2>1, <3>1, <3>2, NoneLost
  <2>2. Within(owed', file, damage) => Within(owed, file, damage)'
    BY <1>7 DEF Within, Unread, Torn, Allowed
  <2>3. Mirrored(owed, file, mem)'
    BY <1>7 DEF Mirrored
  <2> QED
    BY <1>7, <2>1, <2>2, <2>3 DEF FaultsContained, Numbered
<1>8. ASSUME NEW kind \in Kinds, NEW ts \in 0..now, InsertRecordRaises(kind, ts)
      PROVE  FaultsContained'
  <2> DEFINE m == Added(log')
  <2>1. log' = Logged(kind, ts, TRUE) /\ Len(log) < MaxInserts
    BY <1>8 DEF InsertRecordRaises
  <2>2. Numbered(m.ring, log') /\ Numbered(file.lines, log')
    BY <1>5, <2>1 DEF Numbered
  <2>3. /\ mem' = m /\ mode' = mode /\ file' = file /\ damage' = damage /\ spoiled' = spoiled
        /\ owed' = StillOwed(m)
    BY <1>8 DEF InsertRecordRaises
  <2> HIDE DEF m
  <2>4. CASE mode # "none" /\ ~spoiled
    <3>1. \A i \in owed' : file.lines[i] > 0 => m.ring[i] > 0
      BY <1>2, <2>3, <2>4 DEF StillOwed, Mirrored
    <3>2. owed' \subseteq owed
      BY <2>3 DEF StillOwed
    <3> QED
      BY <1>7, <2>2, <2>3, <3>1, <3>2
  <2>5. CASE ~(mode # "none" /\ ~spoiled)
    BY <2>2, <2>3, <2>5 DEF FaultsContained, Numbered
  <2> QED
    BY <2>4, <2>5
<1>9. ASSUME NEW age \in AgeChoices \cup {maxAge}, Compact(age)
      PROVE  FaultsContained'
  <2> DEFINE kept == ApplyRetention(mem, log, age)
  <2>1. kept \in Memories /\ \A i \in Ids : kept.ring[i] <= mem.ring[i]
    BY <1>1, ApplyRetentionType, RetentionShrinks
  <2>2. PICK w \in Persist(kept, kept.ring # mem.ring, FALSE) :
          Settle(w, kept, cycle, age, lastCheck)
    BY <1>9 DEF Compact
  <2>3. log' = log
    BY <1>9 DEF Compact
  <2> HIDE DEF kept
  <2>4. \A i \in Ids : kept.ring[i] > 0 => mem.ring[i] > 0
    BY <1>3, <2>1 DEF Memories, Bag
  <2>5. NewlyOwed(w, kept) = {}
    BY <1>1, <2>3 DEF NewlyOwed, Ids
  <2>6. Numbered(kept.ring, log') /\ Numbered(file.lines, log')
    BY <1>2, <2>3, <2>4 DEF Numbered
  <2> QED
    BY <1>1, <1>4, <2>1, <2>2, <2>5, <2>6, SettleContained
<1>10. CASE Clear
  <2> DEFINE cut == [file EXCEPT !.lines = NoCopies, !.tail = "clean"]
             empty == [cut EXCEPT !.bak = NoCopies]
             wiped == IF mode = "none" THEN Attempt(file, {}) ELSE Attempt(empty, {file, cut})
  <2>1. /\ cut.lines = NoCopies /\ cut.tail = "clean"
        /\ empty.lines = NoCopies /\ empty.tail = "clean"
    BY <1>1 DEF Files
  <2>2. PICK w \in wiped :
          Settle(w, EmptyMem, [k \in Budgeted |-> "none"], maxAge, lastCheck)
    BY <1>10 DEF Clear
  <2> HIDE DEF cut, empty
  <2>3. /\ w.harm \in {0, 1} /\ ~w.cut
        /\ w.file = file \/ (w.file.lines = NoCopies /\ w.file.tail = "clean")
    <3>1. CASE mode = "none"
      <4>1. w \in Attempt(file, {})
        BY <2>2, <3>1
      <4> QED
        BY <4>1, NothingToWrite
    <3>2. CASE mode # "none"
      <4>1. w \in Attempt(empty, {file, cut})
        BY <2>2, <3>2
      <4> QED
        BY <2>1, <4>1, AttemptParts
    <3> QED
      BY <3>1, <3>2
  <2>4. /\ mem' = EmptyMem /\ file' = w.file /\ mode' = mode /\ damage' = damage + w.harm
        /\ spoiled' = (spoiled \/ w.cut) /\ log' = log
        /\ owed' = StillOwed(EmptyMem) \cup NewlyOwed(w, EmptyMem)
    BY <1>10, <2>2 DEF Clear, Settle
  <2>5. \A i \in Ids : ~(EmptyMem.ring[i] > 0) /\ ~(NoCopies[i] > 0) /\ NoCopies[i] = 0
    BY DEF EmptyMem, NoCopies
  <2>6. Numbered(EmptyMem.ring, log) /\ Numbered(w.file.lines, log)
    BY <1>2, <2>3, <2>5 DEF Numbered
  <2>7. \A i \in owed' : i \in owed /\ i \in Ids /\ ~(mem.ring[i] > 0)
    BY <1>4, <2>4, <2>5 DEF StillOwed, NewlyOwed
  <2>8. ASSUME mode # "none", ~spoiled'
        PROVE  Mirrored(owed', w.file, EmptyMem) /\ Within(owed', w.file, damage + w.harm)
    <3>1. Mirrored(owed, file, mem) /\ Within(owed, file, damage)
      BY <1>2, <2>4, <2>8
    <3>2. \A i \in owed' : ~(w.file.lines[i] > 0) /\ file.lines[i] = 0
      BY <1>3, <2>3, <2>5, <2>7, <3>1 DEF Mirrored
    <3>3. Unread(owed', w.file) \subseteq Unread(owed, file)
      BY <2>7, <3>2 DEF Unread
    <3>4. Torn(w.file) <= Torn(file)
      BY <2>3 DEF Torn
    <3>5. Within(owed', w.file, damage)
      BY <1>1, <1>4, <2>8, <3>1, <3>3, <3>4, NoneLost
    <3>6. Within(owed', w.file, damage + w.harm)
      <4>1. Unread(owed', w.file) \in SUBSET Ids
        BY <2>7 DEF Unread
      <4>2. Cardinality(Unread(owed', w.file)) \in Nat
        BY <4>1, UnreadBounds
      <4> QED
        BY <1>1, <2>3, <3>5, <4>2 DEF Within, Torn, Allowed
    <3> QED
      BY <3>2, <3>6 DEF Mirrored
  <2> QED
    BY <2>4, <2>6, <2>8
    DEF FaultsContained, Numbered, Mirrored, Within, Unread, Torn, Allowed
<1>11. CASE LoadFromDisk
  <2> DEFINE m == [Rebuilt(log, file.lines) EXCEPT !.ring = KeepNewest(@)]
  <2>1. m.ring = KeepNewest(file.lines)
    BY DEF Rebuilt
  <2>2. KeepNewest(file.lines) \in Bag
        /\ \A i \in Ids : KeepNewest(file.lines)[i] <= file.lines[i]
    BY <1>1, KeepNewestShrinks DEF Files
  <2>3. \A i \in Ids : m.ring[i] > 0 => file.lines[i] > 0
    BY <1>3, <2>1, <2>2 DEF Bag
  <2>4. Start(m) /\ spoiled' = spoiled
    BY <1>11 DEF LoadFromDisk
  <2> HIDE DEF m
  <2>5. /\ mem' = m /\ mode' = mode /\ file' = file /\ damage' = damage /\ log' = log
        /\ owed' = {i \in owed : file.lines[i] > 0 => m.ring[i] > 0}
    BY <2>4 DEF Start
  <2>6. Numbered(m.ring, log') /\ Numbered(file.lines, log')
    BY <1>2, <2>3, <2>5 DEF Numbered
  <2> QED
    BY <1>7, <2>4, <2>5, <2>6
<1>12. CASE LoadWithWrongKey
  <2>1. /\ mem' = EmptyMem /\ spoiled' /\ log' = log /\ file' = file
    BY <1>12 DEF LoadWithWrongKey, Start
  <2>2. \A i \in Ids : ~(EmptyMem.ring[i] > 0)
    BY DEF EmptyMem, NoCopies
  <2> QED
    BY <1>2, <2>1, <2>2 DEF FaultsContained, Numbered
<1>13. ASSUME UNCHANGED <<mem, mode, file, damage, log, owed, spoiled>>
       PROVE  FaultsContained'
  BY <1>2, <1>13
  DEF FaultsContained, Numbered, Mirrored, Within, Unread, Torn, Allowed
<1>14. CASE Crash
  <2>1. /\ mem' = mem /\ mode' = mode /\ file' = file /\ log' = log
        /\ damage' = damage + 0 /\ spoiled' = (spoiled \/ FALSE)
        /\ owed' = StillOwed(mem) \cup
                     NewlyOwed([file |-> file, fate |-> "crashed", harm |-> 0, cut |-> FALSE], mem)
    BY <1>14 DEF Crash, Settle
  <2>2. owed' = owed
    BY <2>1 DEF StillOwed, NewlyOwed
  <2>3. spoiled' = spoiled
    BY <1>1, <2>1 DEF StateOK
  <2>4. damage' = damage
    BY <1>1, <2>1
  <2>5. mem' = mem /\ mode' = mode /\ file' = file /\ log' = log
    BY <2>1
  <2> QED
    BY <1>13, <2>2, <2>3, <2>4, <2>5
<1>15. ASSUME NEW k \in Budgeted, NEW c \in Cycles, SetBudget(k, c)
       PROVE  FaultsContained'
  BY <1>13, <1>15 DEF SetBudget, faults
<1>16. CASE Tick
  BY <1>13, <1>16 DEF Tick, store, faults
<1>17. CASE UNCHANGED vars
  BY <1>13, <1>17 DEF vars, store, faults
<1> QED
  BY <1>6, <1>8, <1>9, <1>10, <1>11, <1>12, <1>14, <1>15, <1>16, <1>17
  DEF Next, DeleteBudget, Cycles

LEMMA FaultInit == Init => FaultInv
<1> SUFFICES ASSUME Init PROVE FaultInv
  OBVIOUS
<1>1. TypeOK
  BY InitType
<1>2. \A i \in Ids : mem.ring[i] = 0 /\ file.lines[i] = 0
  BY DEF Init, EmptyMem, EmptyFile, NoCopies
<1>3. Numbered(mem.ring, log) /\ Numbered(file.lines, log)
  BY <1>2 DEF Numbered
<1>4. owed = {} /\ damage = 0 /\ Torn(file) = 0
  BY DEF Init, EmptyFile, Torn
<1>5. Unread(owed, file) = {}
  BY <1>4 DEF Unread
<1>6. Cardinality(Unread(owed, file)) = 0
  BY <1>5, FS_EmptySet
<1> QED
  BY <1>1, <1>3, <1>4, <1>6 DEF FaultInv, FaultsContained, Mirrored, Within, Allowed

LEMMA FaultInvInductive == Spec => []FaultInv
<1>1. FaultInv /\ [Next]_vars => FaultInv'
  BY FaultStep, NextType DEF FaultInv
<1> QED
  BY <1>1, FaultInit, PTL DEF Spec

\* Each write that fails or is cut short costs a store at most the record it
\* cut and, in a plain file, the one appended behind the torn line, whatever is
\* inserted, trimmed, cleared and reloaded before and after it (_append_to_disk,
\* _load_from_disk), until a rewrite after a trim is cut short or a start is given
\* the wrong key.
THEOREM EachFaultIsContained == Spec => []FaultsAreContained
BY FaultInvInductive, FaultInvImplies, PTL

-----------------------------------------------------------------------------
(* The ring holds at most MaxRecords copies, and only loses its oldest.      *)

LEMMA CopyOf ==
  ASSUME NEW b
  PROVE  /\ \A i \in Ids : \A n : <<i, n>> \in Copies(b) <=> n \in 1..b[i]
         /\ \A c \in Copies(b) : c = <<c[1], c[2]>> /\ c[1] \in Ids /\ c[2] \in 1..b[c[1]]
<1>1. ASSUME NEW c
      PROVE  c \in Copies(b) <=> \E i \in Ids : c \in {i} \X (1..b[i])
  BY DEF Copies
<1> QED
  BY <1>1

LEMMA CopiesFinite ==
  ASSUME NEW b \in Bag
  PROVE  IsFiniteSet(Copies(b))
<1> DEFINE of(i) == {i} \X (1..b[i])
           Families == {of(i) : i \in Ids}
<1>1. ASSUME NEW i \in Ids PROVE IsFiniteSet(of(i))
  <2>1. b[i] \in Int
    BY DEF Bag
  <2>2. IsFiniteSet({i}) /\ IsFiniteSet(1..b[i])
    BY <2>1, 1 \in Int, FS_Singleton, FS_Interval
  <2> QED
    BY <2>2, FS_Product
<1>2. IsFiniteSet(Ids)
  BY FS_Interval, StoreConstants DEF Ids
<1>3. Copies(b) = UNION Families
  BY DEF Copies
<1> HIDE DEF of
<1>4. IsFiniteSet(Families)
  <2> DEFINE f == [i \in Ids |-> of(i)]
  <2>1. f \in Surjection(Ids, Families)
    BY DEF Surjection
  <2> QED
    BY <1>2, <2>1, FS_Surjection
<1>5. \A x \in Families : IsFiniteSet(x)
  BY <1>1
<1> HIDE DEF Families
<1> QED
  BY <1>3, <1>4, <1>5, FS_UNION

LEMMA NewerCopiesType ==
  ASSUME NEW b \in Bag, NEW i
  PROVE  /\ IsFiniteSet({c \in Copies(b) : c[1] > i})
         /\ NewerCopies(b, i) \in Nat
<1>1. IsFiniteSet({c \in Copies(b) : c[1] > i})
  BY CopiesFinite, FS_Subset
<1> QED
  BY <1>1, FS_CardinalityType DEF NewerCopies

LEMMA CopiesMonotone ==
  ASSUME NEW a \in Bag, NEW b \in Bag, \A i \in Ids : a[i] <= b[i]
  PROVE  /\ Cardinality(Copies(a)) \in Nat /\ Cardinality(Copies(b)) \in Nat
         /\ Cardinality(Copies(a)) <= Cardinality(Copies(b))
<1>1. \A i \in Ids : a[i] \in Nat /\ b[i] \in Nat
  BY DEF Bag
<1>2. Copies(a) \subseteq Copies(b)
  <2> SUFFICES ASSUME NEW c \in Copies(a) PROVE c \in Copies(b)
    OBVIOUS
  <2>1. c = <<c[1], c[2]>> /\ c[1] \in Ids /\ c[2] \in 1..a[c[1]]
    BY CopyOf
  <2>2. c[2] \in 1..b[c[1]]
    BY <1>1, <2>1
  <2>3. <<c[1], c[2]>> \in Copies(b)
    BY <2>1, <2>2, CopyOf
  <2> QED
    BY <2>1, <2>3
<1> QED
  BY <1>2, CopiesFinite, FS_Subset, FS_CardinalityType

\* Of a record the cap keeps the copies for which there is still room.
LEMMA KeptCopies ==
  ASSUME NEW b \in Bag, NEW i \in Ids
  PROVE  /\ KeepNewest(b)[i] \in Nat
         /\ KeepNewest(b)[i] = 0 /\ b[i] > 0 => NewerCopies(b, i) >= MaxRecords
         /\ KeepNewest(b)[i] > 0 => KeepNewest(b)[i] <= MaxRecords - NewerCopies(b, i)
<1> DEFINE kept == {n \in 1..b[i] : NewerCopies(b, i) + n <= MaxRecords}
           room == MaxRecords - NewerCopies(b, i)
<1>1. KeepNewest(b)[i] = Cardinality(kept)
  BY DEF KeepNewest
<1>2. b[i] \in Nat /\ NewerCopies(b, i) \in Nat /\ MaxRecords \in Nat /\ room \in Int
  <2>1. b[i] \in Nat
    BY DEF Bag
  <2>2. NewerCopies(b, i) \in Nat
    BY NewerCopiesType
  <2> QED
    BY <2>1, <2>2, StoreConstants
<1>3. IsFiniteSet(kept)
  <2>1. IsFiniteSet(1..b[i])
    <3>1. b[i] \in Int
      BY <1>2
    <3> QED
      BY <3>1, FS_Interval
  <2> QED
    BY <2>1, FS_Subset
<1>4. ASSUME KeepNewest(b)[i] = 0, b[i] > 0 PROVE NewerCopies(b, i) >= MaxRecords
  <2>1. kept = {}
    BY <1>1, <1>3, <1>4, FS_EmptySet
  <2>2. 1 \in 1..b[i]
    BY <1>2, <1>4
  <2> QED
    BY <1>2, <2>1, <2>2
<1>5. ASSUME KeepNewest(b)[i] > 0 PROVE KeepNewest(b)[i] <= room
  <2>1. kept # {}
    BY <1>1, <1>5, FS_EmptySet
  <2>2. room >= 1
    BY <1>2, <2>1
  <2>3. kept \subseteq 1..room
    BY <1>2
  <2>4. IsFiniteSet(1..room) /\ Cardinality(1..room) = room
    BY <1>2, <2>2, FS_Interval
  <2> HIDE DEF kept, room
  <2> QED
    BY <1>1, <2>3, <2>4, FS_Subset
<1> QED
  BY <1>1, <1>3, <1>4, <1>5, FS_CardinalityType

LEMMA LowestMember ==
  ASSUME NEW S \in SUBSET Ids, S # {}
  PROVE  \E i \in S : \A j \in S : j >= i
<1> DEFINE mirror == {n \in Ids : MaxInserts + 1 - n \in S}
<1>1. \A i \in S : i \in Int /\ i >= 1 /\ i <= MaxInserts /\ MaxInserts \in Int
  BY StoreConstants DEF Ids
<1>2. \A i \in S : MaxInserts + 1 - i \in Ids /\ MaxInserts + 1 - (MaxInserts + 1 - i) = i
  BY <1>1 DEF Ids
<1>3. mirror # {}
  BY <1>2
<1>4. PICK n \in mirror : \A m \in mirror : m <= n
  BY <1>3, HighestMember
<1>5. \A j \in S : MaxInserts + 1 - j <= n
  BY <1>2, <1>4
<1>6. \A j \in S : j >= MaxInserts + 1 - n
  BY <1>1, <1>5, <1>4 DEF Ids
<1> QED
  BY <1>4, <1>6

LEMMA KeepNewestFits ==
  ASSUME NEW b \in Bag
  PROVE  Cardinality(Copies(KeepNewest(b))) <= MaxRecords
<1> DEFINE k == KeepNewest(b)
           held == {i \in Ids : k[i] > 0}
<1>1. k \in Bag /\ \A i \in Ids : k[i] \in Nat /\ b[i] \in Nat /\ k[i] <= b[i]
  BY KeepNewestShrinks DEF Bag
<1>2. \A c \in Copies(k) : c = <<c[1], c[2]>> /\ c[1] \in held /\ c[2] \in 1..k[c[1]]
  <2>1. \A c \in Copies(k) : c = <<c[1], c[2]>> /\ c[1] \in Ids /\ c[2] \in 1..k[c[1]]
    BY CopyOf
  <2> HIDE DEF k
  <2>2. \A c \in Copies(k) : k[c[1]] > 0
    BY <1>1, <2>1
  <2> QED
    BY <2>1, <2>2
<1> HIDE DEF k
<1>3. CASE held = {}
  <2>1. Copies(k) = {}
    BY <1>2, <1>3
  <2> QED
    BY <2>1, FS_EmptySet, StoreConstants DEF k
<1>4. CASE held # {}
  <2>1. PICK low \in held : \A j \in held : j >= low
    BY <1>4, LowestMember
  <2> DEFINE newer == {c \in Copies(b) : c[1] > low}
             last == {low} \X (1..k[low])
  <2>2. low \in Ids /\ k[low] > 0
    OBVIOUS
  <2>3. k[low] <= MaxRecords - NewerCopies(b, low)
    BY <2>2, KeptCopies DEF k
  <2>4. IsFiniteSet(newer) /\ Cardinality(newer) = NewerCopies(b, low)
        /\ NewerCopies(b, low) \in Nat
    BY NewerCopiesType DEF NewerCopies
  <2>5. IsFiniteSet(last) /\ Cardinality(last) = k[low]
    <3>1. IsFiniteSet({low}) /\ Cardinality({low}) = 1
      BY FS_Singleton
    <3>2. IsFiniteSet(1..k[low]) /\ Cardinality(1..k[low]) = k[low]
      BY <1>1, <2>2, FS_Interval
    <3>3. /\ IsFiniteSet(last)
          /\ Cardinality(last) = Cardinality({low}) * Cardinality(1..k[low])
      BY <3>1, <3>2, FS_Product
    <3>4. k[low] \in Nat
      BY <1>1, <2>2
    <3> HIDE DEF last
    <3> QED
      BY <3>1, <3>2, <3>3, <3>4
  <2>6. Copies(k) \subseteq newer \cup last
    <3> SUFFICES ASSUME NEW c \in Copies(k) PROVE c \in newer \cup last
      OBVIOUS
    <3>1. c = <<c[1], c[2]>> /\ c[1] \in held /\ c[1] \in Ids /\ c[2] \in 1..k[c[1]]
      BY <1>2
    <3>2. CASE c[1] = low
      BY <3>1, <3>2
    <3>3. CASE c[1] # low
      <4>1. c[1] > low
        BY <2>1, <2>2, <3>1, <3>3 DEF Ids
      <4>2. c[2] \in 1..b[c[1]]
        BY <1>1, <3>1
      <4>3. <<c[1], c[2]>> \in Copies(b)
        BY <3>1, <4>2, CopyOf
      <4> QED
        BY <3>1, <4>1, <4>3
    <3> QED
      BY <3>2, <3>3
  <2> HIDE DEF newer, last
  <2>7. /\ IsFiniteSet(newer \cup last)
        /\ Cardinality(newer \cup last)
             = Cardinality(newer) + Cardinality(last) - Cardinality(newer \cap last)
        /\ Cardinality(newer \cap last) \in Nat
    <3>1. IsFiniteSet(newer \cap last)
      BY <2>4, FS_Intersection
    <3> QED
      BY <2>4, <2>5, <3>1, FS_Union, FS_CardinalityType
  <2>8. Cardinality(Copies(k)) \in Nat /\ Cardinality(Copies(k)) <= Cardinality(newer \cup last)
    BY <2>6, <2>7, FS_Subset, FS_CardinalityType
  <2> QED
    BY <1>1, <2>2, <2>3, <2>4, <2>5, <2>7, <2>8, StoreConstants DEF k
<1> QED
  BY <1>3, <1>4

\* A record that an insert pushes out of the ring was its oldest, and the
\* ring was full.
LEMMA OldestLeaves ==
  ASSUME NEW r \in Bag, Cardinality(Copies(r)) <= MaxRecords,
         NEW n \in Ids, \A j \in Ids : r[j] > 0 => j < n,
         NEW i \in Ids, r[i] > 0, KeepNewest(OneMore(r, n))[i] = 0
  PROVE  /\ Cardinality(Copies(r)) = MaxRecords
         /\ \A j \in Ids : r[j] > 0 => j >= i
<1> DEFINE b == OneMore(r, n)
           newer == {c \in Copies(r) : c[1] > i}
           newerNow == {c \in Copies(b) : c[1] > i}
<1>1. b \in Bag /\ \A j \in Ids : r[j] \in Nat
  BY OneMoreType DEF Bag
<1>2. b[i] = r[i] /\ b[n] = 1 /\ \A j \in Ids : j # n => b[j] = r[j]
  <2>1. i < n
    OBVIOUS
  <2>2. ~(r[n] > 0)
    BY DEF Ids
  <2> QED
    BY <1>1, <2>1, <2>2 DEF OneMore, Ids
<1> HIDE DEF b
<1>3. NewerCopies(b, i) >= MaxRecords
  BY <1>1, <1>2, KeptCopies DEF b
<1>4. newerNow \subseteq newer \cup {<<n, 1>>}
  <2> SUFFICES ASSUME NEW c \in Copies(b), c[1] > i PROVE c \in newer \cup {<<n, 1>>}
    OBVIOUS
  <2>1. c = <<c[1], c[2]>> /\ c[1] \in Ids /\ c[2] \in 1..b[c[1]]
    BY CopyOf
  <2>2. CASE c[1] = n
    BY <1>2, <2>1, <2>2
  <2>3. CASE c[1] # n
    <3>1. <<c[1], c[2]>> \in Copies(r)
      BY <1>2, <2>1, <2>3, CopyOf
    <3> QED
      BY <2>1, <3>1
  <2> QED
    BY <2>2, <2>3
<1>5. /\ IsFiniteSet(newer) /\ Cardinality(newer) \in Nat
      /\ IsFiniteSet(newerNow) /\ Cardinality(newerNow) \in Nat
      /\ Cardinality(newerNow) >= MaxRecords
  <2>1. IsFiniteSet(newer) /\ IsFiniteSet(newerNow)
    BY <1>1, NewerCopiesType
  <2> QED
    BY <1>3, <2>1, FS_CardinalityType DEF NewerCopies
<1>6. Cardinality(newer) + 1 >= MaxRecords
  <2> HIDE DEF newer, newerNow
  <2>1. /\ IsFiniteSet(newer \cup {<<n, 1>>})
        /\ Cardinality(newer \cup {<<n, 1>>}) <= Cardinality(newer) + 1
    <3> DEFINE x == <<n, 1>>
    <3> HIDE DEF x
    <3>1. /\ IsFiniteSet(newer \cup {x})
          /\ Cardinality(newer \cup {x}) = IF x \in newer THEN Cardinality(newer)
                                           ELSE Cardinality(newer) + 1
      BY <1>5, FS_AddElement
    <3>2. Cardinality(newer \cup {x}) <= Cardinality(newer) + 1
      BY <1>5, <3>1
    <3> QED
      BY <3>1, <3>2 DEF x
  <2>2. Cardinality(newerNow) <= Cardinality(newer \cup {<<n, 1>>})
    BY <1>4, <2>1, FS_Subset
  <2>3. Cardinality(newer \cup {<<n, 1>>}) \in Nat
    BY <2>1, FS_CardinalityType
  <2> QED
    BY <1>5, <2>1, <2>2, <2>3, StoreConstants
<1> DEFINE full == newer \cup {<<i, 1>>}
<1>7. full \subseteq Copies(r) /\ <<i, 1>> \notin newer
  <2>1. <<i, 1>> \in Copies(r)
    BY <1>1, CopyOf
  <2> QED
    BY <2>1 DEF Ids
<1>8. IsFiniteSet(full) /\ Cardinality(full) = Cardinality(newer) + 1
  BY <1>5, <1>7, FS_AddElement
<1>9. IsFiniteSet(Copies(r)) /\ Cardinality(Copies(r)) \in Nat
  BY CopiesFinite, FS_CardinalityType
<1>10. Cardinality(full) <= Cardinality(Copies(r))
  BY <1>7, <1>9, FS_Subset
<1>11. ASSUME NEW j \in Ids, r[j] > 0, j < i PROVE FALSE
  <2>1. <<j, 1>> \in Copies(r)
    BY <1>1, <1>11, CopyOf
  <2>2. <<j, 1>> \notin full
    BY <1>11 DEF Ids
  <2> HIDE DEF full
  <2>3. /\ IsFiniteSet(full \cup {<<j, 1>>})
        /\ Cardinality(full \cup {<<j, 1>>}) = Cardinality(full) + 1
    BY <1>8, <2>2, FS_AddElement
  <2>4. full \cup {<<j, 1>>} \subseteq Copies(r)
    BY <1>7, <2>1
  <2>5. Cardinality(full \cup {<<j, 1>>}) <= Cardinality(Copies(r))
    BY <1>9, <2>4, FS_Subset
  <2> QED
    BY <1>5, <1>6, <1>8, <1>9, <2>3, <2>5, StoreConstants
<1> HIDE DEF full, newer
<1>12. Cardinality(Copies(r)) = MaxRecords
  BY <1>5, <1>6, <1>8, <1>9, <1>10, StoreConstants
<1>13. \A j \in Ids : r[j] > 0 => j >= i
  BY <1>11 DEF Ids
<1> QED
  BY <1>12, <1>13

RingFits == Cardinality(Copies(mem.ring)) <= MaxRecords

LEMMA AddedRing ==
  ASSUME mem \in Memories, NEW l
  PROVE  Added(l).ring = KeepNewest(OneMore(mem.ring, Len(l)))
<1>1. WithNewest(l).ring = KeepNewest(OneMore(mem.ring, Len(l)))
  BY DEF WithNewest, Memories
<1> QED
  BY <1>1 DEF Added, UpdateRunningTotals

LEMMA AddedFits ==
  ASSUME mem \in Memories, NEW l
  PROVE  Cardinality(Copies(Added(l).ring)) <= MaxRecords
<1>1. OneMore(mem.ring, Len(l)) \in Bag
  BY OneMoreType DEF Memories
<1> QED
  BY <1>1, AddedRing, KeepNewestFits

LEMMA RetentionFits ==
  ASSUME NEW m \in Memories, NEW l, NEW age, Cardinality(Copies(m.ring)) <= MaxRecords
  PROVE  Cardinality(Copies(ApplyRetention(m, l, age).ring)) <= MaxRecords
<1> DEFINE after == ApplyRetention(m, l, age)
<1>1. after.ring \in Bag /\ m.ring \in Bag
  BY ApplyRetentionType DEF Memories
<1>2. \A i \in Ids : after.ring[i] <= m.ring[i]
  BY RetentionShrinks
<1> HIDE DEF after
<1>3. /\ Cardinality(Copies(after.ring)) \in Nat /\ Cardinality(Copies(m.ring)) \in Nat
      /\ Cardinality(Copies(after.ring)) <= Cardinality(Copies(m.ring))
  BY <1>1, <1>2, CopiesMonotone
<1> QED
  BY <1>3, StoreConstants DEF after

LEMMA NothingFits == Cardinality(Copies(EmptyMem.ring)) <= MaxRecords
<1>1. \A c \in Copies(NoCopies) : c[1] \in Ids /\ c[2] \in 1..NoCopies[c[1]]
  BY CopyOf
<1>2. Copies(NoCopies) = {}
  BY <1>1 DEF NoCopies
<1> QED
  <2>1. EmptyMem.ring = NoCopies
    BY DEF EmptyMem
  <2>2. Cardinality(Copies(EmptyMem.ring)) = 0
    BY <1>2, <2>1, FS_EmptySet
  <2> QED
    BY <2>2, StoreConstants

LEMMA FitsStep == TypeOK /\ RingFits /\ [Next]_vars => RingFits'
<1> SUFFICES ASSUME TypeOK, RingFits, [Next]_vars PROVE RingFits'
  OBVIOUS
<1>1. mem \in Memories /\ file \in Files
  BY TypeOKSplit DEF StateOK
<1>2. ASSUME NEW kind \in Kinds, NEW ts \in 0..now, InsertRecord(kind, ts) PROVE RingFits'
  <2> DEFINE kept == IF maxAge >= 0 /\ lastCheck # now
                     THEN ApplyRetention(Added(log'), log', maxAge) ELSE Added(log')
  <2>1. mem' = kept
    BY <1>2 DEF InsertRecord, Settle
  <2>2. Cardinality(Copies(Added(log').ring)) <= MaxRecords
    BY <1>1, AddedFits
  <2>3. Added(log') \in Memories
    BY <1>1, AddedType
  <2>4. Cardinality(Copies(kept.ring)) <= MaxRecords
    BY <2>2, <2>3, RetentionFits
  <2> HIDE DEF kept
  <2> QED
    BY <2>1, <2>4 DEF RingFits
<1>3. ASSUME NEW kind \in Kinds, NEW ts \in 0..now, InsertRecordRaises(kind, ts)
      PROVE  RingFits'
  BY <1>1, <1>3, AddedFits DEF InsertRecordRaises, RingFits
<1>4. ASSUME NEW age \in AgeChoices \cup {maxAge}, Compact(age) PROVE RingFits'
  <2>1. mem' = ApplyRetention(mem, log, age)
    BY <1>4 DEF Compact, Settle
  <2> QED
    BY <1>1, <2>1, RetentionFits DEF RingFits
<1>5. CASE Clear
  BY <1>5, NothingFits DEF Clear, Settle, RingFits
<1>6. CASE LoadFromDisk
  <2> DEFINE m == [Rebuilt(log, file.lines) EXCEPT !.ring = KeepNewest(@)]
  <2>1. mem' = m
    BY <1>6 DEF LoadFromDisk, Start
  <2>2. m.ring = KeepNewest(file.lines)
    BY DEF Rebuilt
  <2> HIDE DEF m
  <2>3. file.lines \in Bag
    BY <1>1 DEF Files
  <2> QED
    BY <2>1, <2>2, <2>3, KeepNewestFits DEF RingFits
<1>7. CASE LoadWithWrongKey
  BY <1>7, NothingFits DEF LoadWithWrongKey, Start, RingFits
<1>8. CASE mem' = mem
  BY <1>8 DEF RingFits
<1> QED
  BY <1>2, <1>3, <1>4, <1>5, <1>6, <1>7, <1>8
  DEF Next, DeleteBudget, SetBudget, Crash, Settle, Tick, vars, store

\* What a retention pass drops is older than the days it keeps.
LEMMA RetentionDrops ==
  ASSUME NEW m \in Memories, NEW l, NEW age \in Int, now \in Nat,
         NEW i \in Ids, i \in 1..Len(l), l[i].ts \in Nat
  PROVE  \/ ApplyRetention(m, l, age).ring[i] = m.ring[i]
         \/ age >= 0 /\ l[i].ts <= now - age
<1>1. CASE age >= 0 /\ ~(l[i].ts <= now - age)
  <2>1. l[i].ts >= now - age
    BY <1>1
  <2>2. Fresh(l, m.ring, age)[i] = m.ring[i]
    BY <2>1 DEF Fresh
  <2>3. RestoreNeverTotals(m, Rebuilt(l, Fresh(l, m.ring, age))).ring = Fresh(l, m.ring, age)
    BY DEF RestoreNeverTotals, Rebuilt
  <2> QED
    BY <2>2, <2>3 DEF ApplyRetention
<1>2. CASE age < 0
  BY <1>2 DEF ApplyRetention
<1> QED
  BY <1>1, <1>2

EvictionInv == StoreInv /\ FaultInv /\ RingFits

LEMMA ForgottenStep == EvictionInv /\ [Next]_vars => ForgottenByEviction
<1> SUFFICES ASSUME EvictionInv, [Next]_vars, alive, alive', now' = now,
                    NEW k \in Budgeted, cycle[k] # "none", cycle'[k] = cycle[k],
                    NEW first \in 0..now, NEW i \in SpendForgotten(k, first)
             PROVE  /\ cycle[k] = "windowed" \/ k \in Scanned
                    /\ OldestEvicted(i) \/ PastRetention(i)
  BY DEF ForgottenByEviction
<1> DEFINE start == IF cycle[k] = "never" THEN 0 ELSE first
<1>1. /\ StateOK /\ log \in Logs /\ mem \in Memories /\ now \in Nat /\ maxAge \in Int
      /\ cycle[k] \in Cycles /\ Len(log) \in Nat
  <2>1. StateOK /\ log \in Logs
    BY TypeOKSplit DEF EvictionInv, StoreInv
  <2> QED
    BY <2>1, StoreConstants DEF StateOK, Logs
<1>2. Numbered(mem.ring, log) /\ Cardinality(Copies(mem.ring)) <= MaxRecords
  BY DEF EvictionInv, FaultInv, FaultsContained, RingFits
<1>3. NeverTotalsKept /\ mem' \in Memories
  <2>1. TypeOK'
    BY NextType DEF EvictionInv, StoreInv
  <2>2. mem' \in Memories
    BY <2>1 DEF TypeOK, Memories
  <2> QED
    BY <2>2, StoreInvStep DEF EvictionInv
<1>4. cycle[k] = "windowed" \/ k \in Scanned
  <2> SUFFICES ASSUME cycle[k] = "never", k \in Keys, k \notin Scanned PROVE FALSE
    BY <1>1 DEF Cycles, Budgeted
  <2>1. i \in Ids /\ mem.totals[k][i] > 0 /\ ~(mem'.totals[k][i] > 0)
    BY DEF SpendForgotten, CurrentSpend
  <2>2. mem.totals[k][i] <= mem'.totals[k][i]
    <3>1. NeverTotalsKept /\ cycle'[k] = "never"
      BY <1>3
    <3> QED
      BY <2>1, <3>1, Zenon DEF NeverTotalsKept
  <2>3. mem.totals[k][i] \in Nat /\ mem'.totals[k][i] \in Nat
    BY <1>1, <1>3, <2>1 DEF Memories, Bag
  <2> QED
    BY <2>1, <2>2, <2>3
<1>5. /\ i \in Ids /\ mem.ring[i] > 0 /\ Counts(log, k, i) /\ log[i].ts >= start
      /\ ~(mem'.ring[i] > 0 /\ Counts(log', k, i) /\ log'[i].ts >= start)
  <2>1. SpendForgotten(k, first)
          = WindowedSpend(mem, log, k, start) \ WindowedSpend(mem', log', k, start)
    BY <1>4 DEF SpendForgotten, CurrentSpend
  <2> HIDE DEF start
  <2> QED
    BY <2>1 DEF WindowedSpend
<1> HIDE DEF start
<1>6. i \in 1..Len(log) /\ log[i].ts \in Nat
  <2>1. i \in 1..Len(log)
    BY <1>5 DEF Counts
  <2> QED
    <3>1. log[i] \in Record
      BY <1>1, <2>1 DEF Logs
    <3> QED
      BY <2>1, <3>1, StoreConstants DEF Record
<1>7. mem.ring[i] \in Nat /\ mem'.ring[i] \in Nat
  BY <1>1, <1>3, <1>5 DEF Memories, Bag
\* A step that neither logs nor drops record i forgets nothing.
<1>8. ASSUME log' = log, mem'.ring[i] = mem.ring[i] PROVE FALSE
  BY <1>5, <1>8
\* A step that logs a record forgets only what the deque drops.
<1>9. ASSUME NEW kind \in Kinds, NEW ts \in 0..now, NEW raised \in BOOLEAN,
             Len(log) < MaxInserts, log' = Logged(kind, ts, raised),
             mem'.ring[i] = Added(log').ring[i]
      PROVE  OldestEvicted(i)
  <2>1. Len(log') = Len(log) + 1 /\ Len(log') \in Ids /\ log'[i] = log[i]
        /\ i \in 1..Len(log')
    <3>1. Len(log') = Len(log) + 1
      BY <1>1, <1>9, LoggedType DEF StateOK
    <3>2. log'[i] = log[i]
      BY <1>1, <1>6, <1>9 DEF Logged, Logs
    <3> QED
      BY <1>1, <1>6, <1>9, <3>1, <3>2, StoreConstants DEF Ids
  <2>2. Counts(log', k, i)
    BY <1>5, <2>1 DEF Counts
  <2>3. KeepNewest(OneMore(mem.ring, Len(log')))[i] = 0
    <3>1. ~(Added(log').ring[i] > 0) /\ Added(log').ring[i] \in Nat
      BY <1>5, <1>7, <1>9, <2>1, <2>2
    <3>2. Added(log').ring = KeepNewest(OneMore(mem.ring, Len(log')))
      BY <1>1, AddedRing
    <3> QED
      BY <3>1, <3>2
  <2>4. \A j \in Ids : mem.ring[j] > 0 => j < Len(log')
    BY <1>1, <1>2, <2>1 DEF Numbered, Ids
  <2>5. mem.ring \in Bag
    BY <1>1 DEF Memories
  <2>6. Cardinality(Copies(mem.ring)) = MaxRecords /\ \A j \in Ids : mem.ring[j] > 0 => j >= i
    BY <1>2, <1>5, <2>1, <2>3, <2>4, <2>5, OldestLeaves
  <2> QED
    BY <1>1, <2>1, <2>6 DEF OldestEvicted
<1>10. ASSUME NEW kind \in Kinds, NEW ts \in 0..now, InsertRecord(kind, ts)
       PROVE  OldestEvicted(i) \/ PastRetention(i)
  <2> DEFINE kept == IF maxAge >= 0 /\ lastCheck # now
                     THEN ApplyRetention(Added(log'), log', maxAge) ELSE Added(log')
  <2>1. /\ mem' = kept /\ maxAge' = maxAge
        /\ log' = Logged(kind, ts, FALSE) /\ Len(log) < MaxInserts
    BY <1>10 DEF InsertRecord, Settle
  <2>2. Added(log') \in Memories
    BY <1>1, AddedType
  <2>3. Len(log') = Len(log) + 1 /\ log'[i] = log[i]
    <3>1. Len(log') = Len(log) + 1
      BY <1>1, <2>1, LoggedType DEF StateOK
    <3> QED
      BY <1>1, <1>6, <2>1, <3>1 DEF Logged, Logs
  <2>4. kept.ring[i] = Added(log').ring[i] \/ PastRetention(i)
    <3>1. i \in 1..Len(log') /\ log'[i].ts \in Nat
      BY <1>1, <1>5, <1>6, <2>3
    <3>2. \/ ApplyRetention(Added(log'), log', maxAge).ring[i] = Added(log').ring[i]
          \/ maxAge >= 0 /\ log'[i].ts <= now - maxAge
      BY <1>1, <1>5, <2>2, <3>1, RetentionDrops
    <3> QED
      BY <2>1, <2>3, <3>2 DEF PastRetention
  <2> HIDE DEF kept
  <2> QED
    BY <1>9, <2>1, <2>4
<1>11. ASSUME NEW kind \in Kinds, NEW ts \in 0..now, InsertRecordRaises(kind, ts)
       PROVE  OldestEvicted(i)
  BY <1>9, <1>11 DEF InsertRecordRaises
<1>12. ASSUME NEW age \in AgeChoices \cup {maxAge}, Compact(age) PROVE PastRetention(i)
  <2>1. mem' = ApplyRetention(mem, log, age) /\ maxAge' = age /\ log' = log
    BY <1>12 DEF Compact, Settle
  <2>2. age \in Int
    BY <1>1, StoreConstants
  <2>3. \/ ApplyRetention(mem, log, age).ring[i] = mem.ring[i]
        \/ age >= 0 /\ log[i].ts <= now - age
    BY <1>1, <1>5, <1>6, <2>2, RetentionDrops
  <2> QED
    BY <1>8, <2>1, <2>3 DEF PastRetention
<1>13. ASSUME NEW b \in Budgeted, NEW c \in Cycles, SetBudget(b, c) PROVE FALSE
  BY <1>8, <1>13 DEF SetBudget
<1>14. CASE Clear
  <2>1. cycle' = [b \in Budgeted |-> "none"]
    BY <1>14 DEF Clear, Settle
  <2> QED
    BY <2>1
<1>15. CASE Crash
  BY <1>15 DEF Crash, Settle
<1>16. CASE LoadFromDisk
  BY <1>16 DEF LoadFromDisk, Start
<1>17. CASE LoadWithWrongKey
  BY <1>17 DEF LoadWithWrongKey, Start
<1>18. CASE Tick
  BY <1>1, <1>18 DEF Tick
<1>19. CASE UNCHANGED vars
  BY <1>8, <1>19 DEF vars, store
<1> QED
  BY <1>4, <1>10, <1>11, <1>12, <1>13, <1>14, <1>15, <1>16, <1>17, <1>18, <1>19
  DEF Next, DeleteBudget, Cycles

\* Between two midnights the spend of a budget that the ring is scanned for
\* (every reset cycle but "never", and "never" on user_project) only falls when
\* an insert finds the ring full, and then by its oldest record, or by a record
\* as old as the retention in force; that of the other "never" budgets does not
\* fall (get_windowed_spend, _apply_retention, the deque's maxlen).
THEOREM OnlyEvictionForgets == Spec => FullRingForgets
<1>1. Init => RingFits
  BY NothingFits DEF Init, RingFits
<1>2. TypeOK /\ RingFits /\ [Next]_vars => RingFits'
  BY FitsStep
<1>3. StoreInv /\ FaultInv /\ RingFits /\ [Next]_vars => [ForgottenByEviction]_vars
  BY ForgottenStep DEF EvictionInv
<1> QED
  BY <1>1, <1>2, <1>3, TypeCorrect, StoreInvInductive, FaultInvInductive, PTL
  DEF Spec, FullRingForgets
=============================================================================
