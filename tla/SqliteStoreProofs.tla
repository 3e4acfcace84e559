------------------------- MODULE SqliteStoreProofs -------------------------
(***************************************************************************)
(* Theorems about SqliteStore, for every value of its constants.           *)
(***************************************************************************)
EXTENDS SqliteStore, FiniteSetTheorems, TLAPS

Memories == [totals: [Keys -> [Records -> Nat]], entry: [Keys -> Entries]]
Owed == [rows: SUBSET Records, budgets: SUBSET Keys]

\* What is owed has not been lost from some content of the database.
Keeps(c) ==
  /\ owed.rows \subseteq c.rows
  /\ \A k \in owed.budgets : c.budgets[k] = cycle[k]

\* An entry that counts nothing has no total that a rebuild could lower.
UncountedIsZero ==
  \A k \in Keys : mem.entry[k] # "counted" => \A r \in Records : mem.totals[k][r] = 0

\* The inductive invariant: an open transaction keeps what is owed as well,
\* since its thread may yet commit it.
StoreInv == TypeOK /\ Keeps(db) /\ Keeps(draft) /\ ReturnedIsCharged /\ UncountedIsZero

-----------------------------------------------------------------------------
(* What the operators return *)

LEMMA ViewType ==
  ASSUME TypeOK, NEW t
  PROVE  View(t) \in Content /\ View(t) \in {db, draft}
BY DEF View, TypeOK

\* A method commits what it meant to write, or leaves the database as it was
\* and a draft it may have worked on.
LEMMA WritesOutcome ==
  ASSUME TypeOK, NEW t \in Threads, NEW new \in Content, NEW partial \in SUBSET Content,
         NEW w \in Writes(t, new, partial)
  PROVE  /\ w.db \in {db, new} /\ w.db \in Content /\ w.draft \in Content
         /\ w.holder \in SUBSET Threads /\ (\A s, u \in w.holder : s = u)
         /\ (w.holder = {} => w.draft = w.db)
         /\ w.ok => w.db = new /\ w.draft = new /\ MayTakeBack(w)
         /\ ~w.ok => w.db = db
         /\ ~w.ok /\ MayTakeBack(w) => w.draft \in partial \cup {new}
         /\ ~MayTakeBack(w) => w.draft \in {db, draft} /\ w.db = db
<1> USE DEF MayTakeBack, TypeOK
<1>1. CASE w = Committed(t, new)
  BY <1>1 DEF Committed, RolledBack, Refused
<1>2. CASE w = RolledBack
  BY <1>2 DEF RolledBack
<1>3. CASE w = Refused
  BY <1>3 DEF Refused
<1>4. ASSUME NEW c \in partial \cup {new}, w = LeftOpen(t, c)
      PROVE  /\ w.db = db /\ w.draft = c /\ w.holder = {t} /\ ~w.ok
             /\ (~MayTakeBack(w) => w.draft \in {db, draft})
  BY <1>4 DEF LeftOpen, RolledBack, Refused
<1>5. CASE \E c \in partial \cup {new} : w = LeftOpen(t, c)
  <2>1. PICK c \in partial \cup {new} : w = LeftOpen(t, c)
    BY <1>5
  <2>2. c \in Content
    OBVIOUS
  <2>3. db \in Content
    OBVIOUS
  <2> HIDE DEF MayTakeBack, TypeOK
  <2>4. /\ w.db = db /\ w.draft = c /\ w.holder = {t} /\ ~w.ok
        /\ (~MayTakeBack(w) => w.draft \in {db, draft})
    BY <2>1, <1>4
  <2> QED
    BY <2>2, <2>3, <2>4
<1>6. \/ w \in {Committed(t, new), RolledBack, Refused}
      \/ \E c \in partial \cup {new} : w = LeftOpen(t, c)
  BY DEF Writes
<1> QED
  BY <1>1, <1>2, <1>3, <1>5, <1>6

LEMMA UpdateRunningTotalsGrows ==
  ASSUME TypeOK, NEW some
  PROVE  /\ UpdateRunningTotals(some) \in Memories
         /\ \A k \in Keys, r \in Records :
              UpdateRunningTotals(some).totals[k][r] >= mem.totals[k][r]
<1> DEFINE one(k, r) == IF r \in some /\ k \in Reached(r) THEN 1 ELSE 0
           counted(k) == \E r \in some : k \in Reached(r)
<1>0. \A k \in Keys : mem.entry[k] \in Entries
  BY DEF TypeOK
<1>1. \A k \in Keys, r \in Records : mem.totals[k][r] \in Nat /\ one(k, r) \in Nat
  BY DEF TypeOK
<1>2. UpdateRunningTotals(some) =
        [totals |-> [k \in Keys |-> [r \in Records |-> mem.totals[k][r] + one(k, r)]],
         entry |-> [k \in Keys |-> IF counted(k) THEN "counted" ELSE mem.entry[k]]]
  BY DEF UpdateRunningTotals
<1> HIDE DEF one, counted
<1>3. \A k \in Keys, r \in Records :
        mem.totals[k][r] + one(k, r) \in Nat /\ mem.totals[k][r] + one(k, r) >= mem.totals[k][r]
  BY <1>1
<1>4. UpdateRunningTotals(some).totals \in [Keys -> [Records -> Nat]]
  BY <1>2, <1>3
<1>5. UpdateRunningTotals(some).entry \in [Keys -> Entries]
  BY <1>0, <1>2 DEF Entries
<1>6. \A k \in Keys, r \in Records :
        UpdateRunningTotals(some).totals[k][r] >= mem.totals[k][r]
  BY <1>2, <1>3
<1>7. UpdateRunningTotals(some) =
        [totals |-> UpdateRunningTotals(some).totals, entry |-> UpdateRunningTotals(some).entry]
  BY <1>2
<1>8. UpdateRunningTotals(some) \in Memories
  BY <1>4, <1>5, <1>7 DEF Memories
<1> QED
  BY <1>6, <1>8

\* A record that raises nowhere reaches all of its keys.
LEMMA SoundIsCharged ==
  ASSUME TypeOK, NEW some \in SUBSET Records, NEW r \in some, Sound(r),
         NEW k \in KeysOf[r], k \in Keys
  PROVE  UpdateRunningTotals(some).totals[k][r] > 0
<1>1. k \in Reached(r)
  BY DEF Sound, Reached
<1>2. mem.totals[k][r] \in Nat
  BY DEF TypeOK
<1> QED
  BY <1>1, <1>2 DEF UpdateRunningTotals

LEMMA UpdatedUncountedIsZero ==
  ASSUME TypeOK, UncountedIsZero, NEW some, NEW k \in Keys, NEW r \in Records,
         UpdateRunningTotals(some).entry[k] # "counted"
  PROVE  UpdateRunningTotals(some).totals[k][r] = 0
BY DEF UpdateRunningTotals, UncountedIsZero, TypeOK

LEMMA RebuildCharges ==
  ASSUME NEW rows
  PROVE  /\ RebuildRunningTotals(rows) \in Memories
         /\ \A k \in Keys, r \in Records :
              /\ r \in rows /\ k \in KeysOf[r] => RebuildRunningTotals(rows).totals[k][r] = 1
              /\ RebuildRunningTotals(rows).entry[k] # "counted"
                   => RebuildRunningTotals(rows).totals[k][r] = 0
BY DEF RebuildRunningTotals, Memories, Entries

\* What compact leaves: rebuilt totals, except that counted "never" ones stay.
LEMMA CompactedCharges ==
  ASSUME TypeOK, NEW before, NEW after
  PROVE  /\ CompactedTotals(before, after) \in Memories
         /\ \A k \in Keys, r \in Records :
              /\ \/ CompactedTotals(before, after).totals[k][r] = mem.totals[k][r]
                 \/ r \in after /\ k \in KeysOf[r]
                      => CompactedTotals(before, after).totals[k][r] = 1
              /\ CompactedTotals(before, after).entry[k] # "counted"
                   => CompactedTotals(before, after).totals[k][r] = 0
              /\ cycle[k] = "never" /\ mem.entry[k] = "counted"
                   => CompactedTotals(before, after).totals[k][r] = mem.totals[k][r]
<1> DEFINE b == RebuildRunningTotals(after)
<1>1. /\ b \in Memories
      /\ \A k \in Keys, r \in Records :
           /\ r \in after /\ k \in KeysOf[r] => b.totals[k][r] = 1
           /\ b.entry[k] # "counted" => b.totals[k][r] = 0
  BY RebuildCharges
<1>2. CompactedTotals(before, after) = RestoreNeverTotals(b)
  BY DEF CompactedTotals
<1> HIDE DEF b
<1>3. mem \in Memories
  BY DEF TypeOK, Memories
<1>4. RestoreNeverTotals(b) \in Memories
  BY <1>1, <1>3 DEF RestoreNeverTotals, Memories, Entries
<1> QED
  BY <1>1, <1>2, <1>3, <1>4 DEF RestoreNeverTotals, Memories

LEMMA NoTotalsType ==
  /\ NoTotals \in Memories
  /\ \A k \in Keys, r \in Records : NoTotals.totals[k][r] = 0
BY DEF NoTotals, Memories, Entries

LEMMA CallsType ==
  ASSUME SqliteConstants, TypeOK, NEW some \in SUBSET Records, Given(some)
  PROVE  calls' \in 0..MaxCalls
<1>1. Cardinality(some) \in Nat
  BY FS_Subset, FS_CardinalityType DEF SqliteConstants
<1> QED
  BY <1>1 DEF Given, TypeOK, SqliteConstants

LEMMA EndType ==
  ASSUME SqliteConstants, TypeOK, NEW t \in Threads, NEW new \in Content,
         NEW partial \in SUBSET Content, NEW w \in Writes(t, new, partial), End(t, w)
  PROVE  /\ db' \in Content /\ draft' \in Content
         /\ holder' \in SUBSET Threads /\ (holder' = {} => draft' = db')
         /\ \A s, u \in holder' : s = u
         /\ faults' \in 0..MaxFaults /\ now' = now /\ restarts' = restarts
<1>1. faults' \in 0..MaxFaults
  BY DEF End, TypeOK, SqliteConstants
<1> QED
  BY <1>1, WritesOutcome DEF End

-----------------------------------------------------------------------------
(* Type correctness *)

\* The part of TypeOK about the database and its connections.
DatabaseOK ==
  /\ db \in Content /\ draft \in Content
  /\ holder \in SUBSET Threads /\ (holder = {} => draft = db)
  /\ \A s, t \in holder : s = t
  /\ faults \in 0..MaxFaults /\ now \in 0..MaxTime /\ restarts \in 0..MaxRestarts

LEMMA NewestShrinks ==
  ASSUME NEW rows, NEW kept \in Newest(rows)
  PROVE  kept \subseteq rows
BY DEF Newest

LEMMA ContentUpdates ==
  ASSUME NEW c \in Content
  PROVE  /\ \A some \in SUBSET Records : [c EXCEPT !.rows = some] \in Content
         /\ \A k \in Keys, y \in Cycles : [c EXCEPT !.budgets[k] = y] \in Content
         /\ c.rows \in SUBSET Records /\ c.budgets \in [Keys -> Cycles]
         /\ Empty \in Content
BY DEF Content, Empty, Cycles

LEMMA EndedOK ==
  ASSUME SqliteConstants, TypeOK, NEW t \in Threads, NEW new \in Content,
         NEW partial \in SUBSET Content, NEW w \in Writes(t, new, partial), End(t, w)
  PROVE  DatabaseOK'
BY EndType DEF DatabaseOK, TypeOK

LEMMA TypeStep ==
  ASSUME SqliteConstants, TypeOK, [Next]_vars
  PROVE  TypeOK'
<1> SUFFICES DatabaseOK' /\ mem' \in Memories /\ cycle' \in [Keys -> Cycles]
             /\ owed' \in Owed /\ calls' \in 0..MaxCalls
  BY DEF DatabaseOK, Memories, Owed, TypeOK
<1>0. /\ DatabaseOK /\ mem \in Memories /\ cycle \in [Keys -> Cycles]
      /\ owed \in Owed /\ calls \in 0..MaxCalls
  BY DEF DatabaseOK, Memories, Owed, TypeOK
<1>1. ASSUME NEW t \in Threads, NEW r \in Records, InsertRecord(t, r)
      PROVE  /\ DatabaseOK' /\ mem' \in Memories /\ cycle' \in [Keys -> Cycles]
             /\ owed' \in Owed /\ calls' \in 0..MaxCalls
  <2> DEFINE new == [View(t) EXCEPT !.rows = View(t).rows \cup {r}]
  <2>1. new \in Content
    BY ViewType, ContentUpdates
  <2>2. PICK w \in Writes(t, new, {}) :
          /\ End(t, w)
          /\ mem' = IF w.ok THEN UpdateRunningTotals({r}) ELSE mem
          /\ owed' = IF w.ok /\ Sound(r) THEN [owed EXCEPT !.rows = owed.rows \cup {r}] ELSE owed
    BY <1>1 DEF InsertRecord
  <2> HIDE DEF new
  <2>3. DatabaseOK'
    BY <2>1, <2>2, EndedOK
  <2>4. mem' \in Memories
    BY <1>0, <2>2, UpdateRunningTotalsGrows
  <2>5. owed' \in Owed
    BY <1>0, <2>2 DEF Owed
  <2>6. Given({r}) /\ cycle' = cycle
    BY <1>1 DEF InsertRecord
  <2> QED
    BY <1>0, <2>3, <2>4, <2>5, <2>6, CallsType
<1>2. ASSUME NEW t \in Threads, NEW batch \in SUBSET Records, InsertRecordsBatch(t, batch)
      PROVE  /\ DatabaseOK' /\ mem' \in Memories /\ cycle' \in [Keys -> Cycles]
             /\ owed' \in Owed /\ calls' \in 0..MaxCalls
  <2> DEFINE new == [db EXCEPT !.rows = db.rows \cup batch]
  <2>1. new \in Content
    BY <1>0, ContentUpdates DEF DatabaseOK
  <2>2. /\ holder = {} /\ Given(batch) /\ End(t, Committed(t, new))
        /\ mem' = UpdateRunningTotals(batch) /\ cycle' = cycle
        /\ owed' = [owed EXCEPT !.rows = owed.rows \cup batch]
    BY <1>2 DEF InsertRecordsBatch
  <2> HIDE DEF new
  <2>3. Committed(t, new) \in Writes(t, new, {})
    BY <2>2 DEF Writes, CanWrite
  <2>4. DatabaseOK'
    BY <2>1, <2>2, <2>3, EndedOK
  <2>5. owed' \in Owed
    BY <1>0, <2>2 DEF Owed
  <2> QED
    BY <1>0, <2>2, <2>4, <2>5, CallsType, UpdateRunningTotalsGrows
<1>3. ASSUME NEW t \in Threads, NEW done \in SUBSET Records, NEW bad \in SUBSET Records,
             BatchFails(t, done, bad)
      PROVE  /\ DatabaseOK' /\ mem' \in Memories /\ cycle' \in [Keys -> Cycles]
             /\ owed' \in Owed /\ calls' \in 0..MaxCalls
  <2>1. /\ Given(done \cup bad) /\ mem' = UpdateRunningTotals(done \cup bad)
        /\ db' = db /\ draft' = draft /\ holder' = holder /\ cycle' = cycle
        /\ owed' = owed /\ now' = now /\ restarts' = restarts
        /\ faults' \in {faults, faults + 1} /\ faults' <= MaxFaults
    BY <1>3 DEF BatchFails
  <2>2. faults' \in 0..MaxFaults
    BY <1>0, <2>1 DEF DatabaseOK, SqliteConstants
  <2>3. calls' \in 0..MaxCalls
    BY <2>1, CallsType
  <2> QED
    BY <1>0, <2>1, <2>2, <2>3, UpdateRunningTotalsGrows DEF DatabaseOK
<1>4. ASSUME NEW t \in Threads, NEW k \in Keys, NEW c \in Cycles, SetBudget(t, k, c)
      PROVE  /\ DatabaseOK' /\ mem' \in Memories /\ cycle' \in [Keys -> Cycles]
             /\ owed' \in Owed /\ calls' \in 0..MaxCalls
  <2> DEFINE new == [View(t) EXCEPT !.budgets[k] = c]
  <2>1. new \in Content
    BY ViewType, ContentUpdates
  <2>2. PICK w \in Writes(t, new, {}) :
          /\ End(t, w)
          /\ owed' = [owed EXCEPT !.budgets = IF w.ok THEN owed.budgets \cup {k}
                                              ELSE owed.budgets \ {k}]
    BY <1>4 DEF SetBudget
  <2> HIDE DEF new
  <2>3. DatabaseOK'
    BY <2>1, <2>2, EndedOK
  <2>4. owed' \in Owed
    BY <1>0, <2>2 DEF Owed
  <2>5. cycle' = [cycle EXCEPT ![k] = c] /\ mem' = mem /\ calls' = calls
    BY <1>4 DEF SetBudget
  <2> QED
    BY <1>0, <2>3, <2>4, <2>5
<1>5. ASSUME NEW t \in Threads, Clear(t)
      PROVE  /\ DatabaseOK' /\ mem' \in Memories /\ cycle' \in [Keys -> Cycles]
             /\ owed' \in Owed /\ calls' \in 0..MaxCalls
  <2> DEFINE part == {[View(t) EXCEPT !.rows = {}]}
  <2>0. View(t) \in Content
    BY ViewType
  <2>1. Empty \in Content /\ [View(t) EXCEPT !.rows = {}] \in Content
    BY <2>0, ContentUpdates
  <2>7. part \in SUBSET Content
    BY <2>1
  <2>2. PICK w \in Writes(t, Empty, part) :
          /\ End(t, w)
          /\ mem' = IF w.ok THEN NoTotals ELSE mem
          /\ cycle' = IF w.ok THEN Empty.budgets ELSE cycle
          /\ owed' = IF MayTakeBack(w) THEN [rows |-> {}, budgets |-> {}] ELSE owed
    BY <1>5 DEF Clear
  <2> HIDE DEF part
  <2>3. DatabaseOK'
    BY <2>1, <2>7, <2>2, EndedOK
  <2>4. Empty.budgets \in [Keys -> Cycles]
    BY <2>1 DEF Content
  <2>5. owed' \in Owed
    BY <1>0, <2>2 DEF Owed
  <2>6. calls' = calls
    BY <1>5 DEF Clear
  <2> QED
    BY <1>0, <2>2, <2>3, <2>4, <2>5, <2>6, NoTotalsType
<1>6. ASSUME NEW t \in Threads, NEW age \in AgeChoices, Compact(t, age)
      PROVE  /\ DatabaseOK' /\ mem' \in Memories /\ cycle' \in [Keys -> Cycles]
             /\ owed' \in Owed /\ calls' \in 0..MaxCalls
  <2> DEFINE young == Young(View(t).rows, age)
  <2>1. PICK kept \in Newest(young) :
          \E w \in Writes(t, [View(t) EXCEPT !.rows = kept], {[View(t) EXCEPT !.rows = young]}) :
            /\ End(t, w)
            /\ mem' = IF w.ok THEN CompactedTotals(View(t).rows, kept) ELSE mem
            /\ owed' = IF MayTakeBack(w) THEN [owed EXCEPT !.rows = owed.rows \cap kept] ELSE owed
    BY <1>6 DEF Compact
  <2>2. kept \subseteq young /\ young \subseteq Records
    BY NewestShrinks, ViewType, ContentUpdates DEF Young
  <2> DEFINE new == [View(t) EXCEPT !.rows = kept]
             part == {[View(t) EXCEPT !.rows = young]}
  <2>0. View(t) \in Content
    BY ViewType
  <2>8. new \in Content /\ [View(t) EXCEPT !.rows = young] \in Content
    BY <2>2, <2>0, ContentUpdates
  <2>3. new \in Content /\ part \in SUBSET Content
    BY <2>8
  <2>4. PICK w \in Writes(t, new, part) :
          /\ End(t, w)
          /\ mem' = IF w.ok THEN CompactedTotals(View(t).rows, kept) ELSE mem
          /\ owed' = IF MayTakeBack(w) THEN [owed EXCEPT !.rows = owed.rows \cap kept] ELSE owed
    BY <2>1
  <2> HIDE DEF new, part, young
  <2>5. DatabaseOK'
    BY <2>3, <2>4, EndedOK
  <2>6. owed' \in Owed
    BY <1>0, <2>4 DEF Owed
  <2>7. calls' = calls /\ cycle' = cycle
    BY <1>6 DEF Compact
  <2> QED
    BY <1>0, <2>4, <2>5, <2>6, <2>7, CompactedCharges
<1>7. ASSUME NEW t \in Threads, Close(t)
      PROVE  /\ DatabaseOK' /\ mem' \in Memories /\ cycle' \in [Keys -> Cycles]
             /\ owed' \in Owed /\ calls' \in 0..MaxCalls
  BY <1>0, <1>7 DEF Close, DatabaseOK
<1>8. ASSUME Restart
      PROVE  /\ DatabaseOK' /\ mem' \in Memories /\ cycle' \in [Keys -> Cycles]
             /\ owed' \in Owed /\ calls' \in 0..MaxCalls
  <2>1. restarts' \in 0..MaxRestarts
    BY <1>0, <1>8 DEF Restart, DatabaseOK, SqliteConstants
  <2>2. mem' \in Memories
    BY <1>8, RebuildCharges DEF Restart
  <2> QED
    BY <1>0, <1>8, <2>1, <2>2 DEF Restart, DatabaseOK, Content
<1>9. ASSUME Tick \/ UNCHANGED vars
      PROVE  /\ DatabaseOK' /\ mem' \in Memories /\ cycle' \in [Keys -> Cycles]
             /\ owed' \in Owed /\ calls' \in 0..MaxCalls
  <2>1. now' \in 0..MaxTime
    BY <1>0, <1>9 DEF Tick, vars, DatabaseOK, SqliteConstants
  <2> QED
    BY <1>0, <1>9, <2>1 DEF Tick, vars, DatabaseOK
<1> QED
  <2>1. "none" \in Cycles
    BY DEF Cycles
  <2> QED
    BY <1>1, <1>2, <1>3, <1>4, <1>5, <1>6, <1>7, <1>8, <1>9, <2>1 DEF Next, Call, DeleteBudget

LEMMA TypeInit == Init => TypeOK
<1>1. Empty \in Content
  BY DEF Empty, Content, Cycles
<1> QED
  BY <1>1, NoTotalsType, SqliteConstants
     DEF Init, TypeOK, Memories, Content, SqliteConstants

-----------------------------------------------------------------------------
(* What returned is durable and charged *)

\* What a step must preserve of StoreInv beyond the types.
Preserved == Keeps(db) /\ Keeps(draft) /\ ReturnedIsCharged /\ UncountedIsZero

LEMMA ViewKeeps ==
  ASSUME StoreInv, NEW t
  PROVE  View(t) \in Content /\ Keeps(View(t))
BY ViewType DEF StoreInv

LEMMA UpdateKeepsCharge ==
  ASSUME SqliteConstants, StoreInv, NEW some \in SUBSET Records, NEW rows \in SUBSET owed.rows,
         NEW charged \in SUBSET some, \A r \in charged : Sound(r),
         mem' = UpdateRunningTotals(some), owed'.rows = rows \cup charged
  PROVE  ReturnedIsCharged' /\ UncountedIsZero'
<1>1. ASSUME NEW r \in owed'.rows, NEW k \in KeysOf[r]
      PROVE  mem'.totals[k][r] > 0
  <2>1. r \in Records /\ k \in Keys
    BY <1>1 DEF StoreInv, TypeOK, SqliteConstants
  <2>2. CASE r \in charged
    BY <2>1, <2>2, SoundIsCharged DEF StoreInv
  <2>3. CASE r \in rows
    <3>1. mem.totals[k][r] > 0
      BY <2>3 DEF StoreInv, ReturnedIsCharged
    <3>2. /\ mem'.totals[k][r] >= mem.totals[k][r] /\ mem'.totals[k][r] \in Nat
          /\ mem.totals[k][r] \in Nat
      BY <2>1, UpdateRunningTotalsGrows DEF StoreInv, TypeOK, Memories
    <3> QED
      BY <3>1, <3>2
  <2> QED
    BY <2>2, <2>3
<1>2. UncountedIsZero'
  BY UpdatedUncountedIsZero DEF StoreInv, UncountedIsZero
<1> QED
  BY <1>1, <1>2 DEF ReturnedIsCharged

LEMMA InsertPreserves ==
  ASSUME SqliteConstants, StoreInv, NEW t \in Threads, NEW r \in Records, InsertRecord(t, r)
  PROVE  Preserved'
<1> DEFINE new == [View(t) EXCEPT !.rows = View(t).rows \cup {r}]
<1>1. View(t) \in Content /\ Keeps(View(t)) /\ owed \in Owed
  BY ViewKeeps DEF StoreInv, TypeOK, Owed
<1>2. new \in Content /\ new.rows = View(t).rows \cup {r} /\ new.budgets = View(t).budgets
  BY <1>1, ContentUpdates DEF Content
<1>3. PICK w \in Writes(t, new, {}) :
        /\ End(t, w)
        /\ mem' = IF w.ok THEN UpdateRunningTotals({r}) ELSE mem
        /\ owed' = IF w.ok /\ Sound(r) THEN [owed EXCEPT !.rows = owed.rows \cup {r}] ELSE owed
  BY DEF InsertRecord
<1> HIDE DEF new
<1>4. cycle' = cycle /\ db' = w.db /\ draft' = w.draft
  BY <1>3 DEF InsertRecord, End
<1>5. /\ w.ok => db' = new /\ draft' = new
      /\ ~w.ok => db' = db /\ draft' \in {db, draft, new}
  BY <1>2, <1>3, <1>4, WritesOutcome DEF StoreInv
<1>6. owed'.budgets = owed.budgets
      /\ owed'.rows = owed.rows \cup IF w.ok /\ Sound(r) THEN {r} ELSE {}
  BY <1>1, <1>3 DEF Owed
<1>7. Keeps(db)' /\ Keeps(draft)'
  BY <1>1, <1>2, <1>4, <1>5, <1>6 DEF StoreInv, Keeps
<1>8. CASE w.ok
  <2> DEFINE charged == IF Sound(r) THEN {r} ELSE {}
  <2>1. charged \in SUBSET {r} /\ (\A x \in charged : Sound(x))
    OBVIOUS
  <2>3. owed'.rows = owed.rows \cup charged /\ mem' = UpdateRunningTotals({r})
    BY <1>3, <1>6, <1>8
  <2> HIDE DEF charged
  <2>2. ReturnedIsCharged' /\ UncountedIsZero'
    BY <2>1, <2>3, UpdateKeepsCharge
  <2> QED
    BY <1>7, <2>2 DEF Preserved
<1>9. CASE ~w.ok
  BY <1>3, <1>7, <1>9 DEF StoreInv, Preserved, ReturnedIsCharged, UncountedIsZero
<1> QED
  BY <1>8, <1>9

LEMMA BatchPreserves ==
  ASSUME SqliteConstants, StoreInv, NEW t \in Threads, NEW batch \in SUBSET Records,
         InsertRecordsBatch(t, batch)
  PROVE  Preserved'
<1>1. /\ holder = {} /\ (\A r \in batch : Sound(r))
      /\ End(t, Committed(t, [db EXCEPT !.rows = db.rows \cup batch]))
      /\ mem' = UpdateRunningTotals(batch) /\ cycle' = cycle
      /\ owed' = [owed EXCEPT !.rows = owed.rows \cup batch]
  BY DEF InsertRecordsBatch
<1>2. db \in Content /\ owed \in Owed
  BY DEF StoreInv, TypeOK, Owed
<1>3. owed'.rows = owed.rows \cup batch /\ owed'.budgets = owed.budgets
  BY <1>1, <1>2 DEF Owed
<1>4. db' = draft' /\ db'.rows = db.rows \cup batch /\ db'.budgets = db.budgets
  BY <1>1, <1>2 DEF End, Committed, Content
<1>5. Keeps(db)' /\ Keeps(draft)'
  BY <1>1, <1>3, <1>4 DEF StoreInv, Keeps
<1> QED
  BY <1>1, <1>3, <1>5, UpdateKeepsCharge DEF Preserved

LEMMA FailedBatchPreserves ==
  ASSUME SqliteConstants, StoreInv, NEW t \in Threads, NEW done \in SUBSET Records,
         NEW bad \in SUBSET Records, BatchFails(t, done, bad)
  PROVE  Preserved'
<1>1. /\ mem' = UpdateRunningTotals(done \cup bad)
      /\ db' = db /\ draft' = draft /\ cycle' = cycle /\ owed' = owed
  BY DEF BatchFails
<1>2. {} \in SUBSET (done \cup bad) /\ (\A r \in {} : Sound(r)) /\ owed'.rows = owed.rows \cup {}
  BY <1>1
<1>3. ReturnedIsCharged' /\ UncountedIsZero'
  BY <1>1, <1>2, UpdateKeepsCharge
<1> QED
  BY <1>1, <1>3 DEF Preserved, StoreInv, Keeps

LEMMA SetBudgetPreserves ==
  ASSUME SqliteConstants, StoreInv, NEW t \in Threads, NEW k \in Keys, NEW c \in Cycles,
         SetBudget(t, k, c)
  PROVE  Preserved'
<1> DEFINE new == [View(t) EXCEPT !.budgets[k] = c]
<1>1. View(t) \in Content /\ Keeps(View(t)) /\ owed \in Owed /\ cycle \in [Keys -> Cycles]
  BY ViewKeeps DEF StoreInv, TypeOK, Owed
<1>2. /\ new \in Content /\ new.rows = View(t).rows /\ new.budgets[k] = c
      /\ \A x \in Keys \ {k} : new.budgets[x] = View(t).budgets[x]
  BY <1>1, ContentUpdates DEF Content
<1>3. PICK w \in Writes(t, new, {}) :
        /\ End(t, w)
        /\ owed' = [owed EXCEPT !.budgets = IF w.ok THEN owed.budgets \cup {k}
                                            ELSE owed.budgets \ {k}]
  BY DEF SetBudget
<1> HIDE DEF new
<1>4. db' = w.db /\ draft' = w.draft /\ mem' = mem /\ cycle' = [cycle EXCEPT ![k] = c]
  BY <1>3 DEF SetBudget, End
<1>5. /\ w.ok => db' = new /\ draft' = new
      /\ ~w.ok => db' = db /\ draft' \in {db, draft, new}
  BY <1>2, <1>3, <1>4, WritesOutcome DEF StoreInv
<1>6. /\ owed'.rows = owed.rows
      /\ owed'.budgets = IF w.ok THEN owed.budgets \cup {k} ELSE owed.budgets \ {k}
      /\ owed'.budgets \subseteq Keys
  BY <1>1, <1>3 DEF Owed
<1>7. /\ cycle'[k] = c
      /\ \A x \in Keys \ {k} : cycle'[x] = cycle[x]
  BY <1>1, <1>4
<1>8. CASE w.ok
  <2>1. \A x \in owed'.budgets : new.budgets[x] = cycle'[x]
    BY <1>1, <1>2, <1>6, <1>7, <1>8 DEF Keeps
  <2> QED
    BY <1>1, <1>2, <1>4, <1>5, <1>6, <1>8, <2>1
       DEF Preserved, StoreInv, Keeps, ReturnedIsCharged, UncountedIsZero
<1>9. CASE ~w.ok
  <2>1. \A x \in owed'.budgets : /\ x \in owed.budgets /\ x \in Keys \ {k}
                                 /\ cycle'[x] = cycle[x]
    BY <1>6, <1>7, <1>9
  <2>2. \A x \in owed'.budgets : /\ db.budgets[x] = cycle'[x] /\ draft.budgets[x] = cycle'[x]
                                 /\ new.budgets[x] = cycle'[x]
    BY <1>1, <1>2, <2>1 DEF StoreInv, Keeps
  <2>3. owed'.rows \subseteq db.rows /\ owed'.rows \subseteq draft.rows
        /\ owed'.rows \subseteq new.rows
    BY <1>1, <1>2, <1>6 DEF StoreInv, Keeps
  <2> QED
    BY <1>4, <1>5, <1>6, <1>9, <2>2, <2>3
       DEF Preserved, StoreInv, Keeps, ReturnedIsCharged, UncountedIsZero
<1> QED
  BY <1>8, <1>9

LEMMA ClearPreserves ==
  ASSUME SqliteConstants, StoreInv, NEW t \in Threads, Clear(t)
  PROVE  Preserved'
<1> DEFINE part == {[View(t) EXCEPT !.rows = {}]}
<1>1. View(t) \in Content
  BY ViewKeeps
<1>2. Empty \in Content /\ part \in SUBSET Content
  BY <1>1, ContentUpdates
<1>3. PICK w \in Writes(t, Empty, part) :
        /\ End(t, w)
        /\ mem' = IF w.ok THEN NoTotals ELSE mem
        /\ cycle' = IF w.ok THEN Empty.budgets ELSE cycle
        /\ owed' = IF MayTakeBack(w) THEN [rows |-> {}, budgets |-> {}] ELSE owed
  BY DEF Clear
<1> HIDE DEF part
<1>4. /\ w.ok => MayTakeBack(w)
      /\ ~MayTakeBack(w) => db' = db /\ draft' \in {db, draft}
  BY <1>2, <1>3, WritesOutcome DEF StoreInv, End
<1>5. UncountedIsZero'
  BY <1>3, NoTotalsType DEF StoreInv, UncountedIsZero
<1>6. CASE MayTakeBack(w)
  BY <1>3, <1>5, <1>6 DEF Preserved, Keeps, ReturnedIsCharged
<1>7. CASE ~MayTakeBack(w)
  BY <1>3, <1>4, <1>5, <1>7 DEF Preserved, StoreInv, Keeps, ReturnedIsCharged
<1> QED
  BY <1>6, <1>7

LEMMA CompactPreserves ==
  ASSUME SqliteConstants, StoreInv, NEW t \in Threads, NEW age \in AgeChoices, Compact(t, age)
  PROVE  Preserved'
<1> DEFINE young == Young(View(t).rows, age)
<1>1. View(t) \in Content /\ Keeps(View(t)) /\ owed \in Owed
  BY ViewKeeps DEF StoreInv, TypeOK, Owed
<1>2. PICK kept \in Newest(young) :
        \E w \in Writes(t, [View(t) EXCEPT !.rows = kept], {[View(t) EXCEPT !.rows = young]}) :
          /\ End(t, w)
          /\ mem' = IF w.ok THEN CompactedTotals(View(t).rows, kept) ELSE mem
          /\ owed' = IF MayTakeBack(w) THEN [owed EXCEPT !.rows = owed.rows \cap kept] ELSE owed
  BY DEF Compact
<1>3. kept \subseteq young /\ young \subseteq Records
  BY <1>1, NewestShrinks, ContentUpdates DEF Young
<1> DEFINE new == [View(t) EXCEPT !.rows = kept]
           half == [View(t) EXCEPT !.rows = young]
<1>4. /\ new \in Content /\ new.rows = kept /\ new.budgets = View(t).budgets
      /\ half \in Content /\ half.rows = young /\ half.budgets = View(t).budgets
  BY <1>1, <1>3, ContentUpdates DEF Content
<1>5. PICK w \in Writes(t, new, {half}) :
        /\ End(t, w)
        /\ mem' = IF w.ok THEN CompactedTotals(View(t).rows, kept) ELSE mem
        /\ owed' = IF MayTakeBack(w) THEN [owed EXCEPT !.rows = owed.rows \cap kept] ELSE owed
  BY <1>2
<1> HIDE DEF new, half, young
<1>6. {half} \in SUBSET Content /\ cycle' = cycle
  BY <1>4 DEF Compact
<1>7. /\ w.ok => MayTakeBack(w) /\ db' = new /\ draft' = new
      /\ ~w.ok => db' = db
      /\ ~w.ok /\ MayTakeBack(w) => draft' \in {new, half}
      /\ ~MayTakeBack(w) => draft' \in {db, draft}
  BY <1>4, <1>5, <1>6, WritesOutcome DEF StoreInv, End
<1>8. /\ owed'.budgets = owed.budgets
      /\ owed'.rows \subseteq owed.rows
      /\ MayTakeBack(w) => owed'.rows \subseteq kept
  BY <1>1, <1>5 DEF Owed
<1>9. Keeps(db)' /\ Keeps(draft)'
  BY <1>1, <1>3, <1>4, <1>6, <1>7, <1>8 DEF StoreInv, Keeps
<1>10. CASE w.ok
  <2>1. mem' = CompactedTotals(View(t).rows, kept) /\ owed'.rows \subseteq kept
    BY <1>5, <1>7, <1>8, <1>10
  <2>2. ASSUME NEW r \in owed'.rows, NEW k \in KeysOf[r]
        PROVE  mem'.totals[k][r] > 0
    <3>1. r \in owed.rows /\ r \in Records /\ k \in Keys /\ r \in kept
      BY <1>1, <1>8, <2>1, <2>2 DEF Owed, SqliteConstants
    <3>2. mem.totals[k][r] > 0
      BY <3>1 DEF StoreInv, ReturnedIsCharged
    <3>3. mem'.totals[k][r] = mem.totals[k][r] \/ mem'.totals[k][r] = 1
      BY <2>1, <3>1, CompactedCharges DEF StoreInv
    <3> QED
      BY <3>2, <3>3
  <2>3. UncountedIsZero'
    BY <2>1, CompactedCharges DEF StoreInv, UncountedIsZero
  <2> QED
    BY <1>9, <2>2, <2>3 DEF Preserved, ReturnedIsCharged
<1>11. CASE ~w.ok
  BY <1>5, <1>8, <1>9, <1>11 DEF Preserved, StoreInv, ReturnedIsCharged, UncountedIsZero
<1> QED
  BY <1>10, <1>11

LEMMA RestartPreserves ==
  ASSUME SqliteConstants, StoreInv, Restart
  PROVE  Preserved'
<1>1. /\ db' = db /\ draft' = db /\ cycle' = db.budgets /\ owed' = owed
      /\ mem' = RebuildRunningTotals(db.rows)
  BY DEF Restart
<1>2. \A r \in owed.rows : r \in db.rows /\ r \in Records /\ KeysOf[r] \subseteq Keys
  BY DEF StoreInv, Keeps, TypeOK, SqliteConstants
<1>3. ReturnedIsCharged'
  BY <1>1, <1>2, RebuildCharges DEF ReturnedIsCharged
<1>4. UncountedIsZero'
  BY <1>1, RebuildCharges DEF UncountedIsZero
<1> QED
  BY <1>1, <1>3, <1>4 DEF Preserved, StoreInv, Keeps

LEMMA InvStep ==
  ASSUME SqliteConstants, StoreInv, [Next]_vars
  PROVE  StoreInv'
<1>1. TypeOK'
  BY TypeStep DEF StoreInv
<1>2. ASSUME NEW t \in Threads, Close(t)
      PROVE  Preserved'
  BY <1>2 DEF Close, Preserved, StoreInv, Keeps, ReturnedIsCharged, UncountedIsZero
<1>3. CASE Tick \/ UNCHANGED vars
  BY <1>1, <1>3 DEF Tick, vars, StoreInv, Keeps, ReturnedIsCharged, UncountedIsZero
<1>4. ASSUME NEW t \in Threads, Call(t)
      PROVE  Preserved'
  <2>1. "none" \in Cycles
    BY DEF Cycles
  <2> QED
    BY <1>2, <1>4, <2>1, InsertPreserves, BatchPreserves, FailedBatchPreserves,
       SetBudgetPreserves, ClearPreserves, CompactPreserves DEF Call, DeleteBudget
<1> QED
  BY <1>1, <1>3, <1>4, RestartPreserves DEF Next, StoreInv, Preserved

-----------------------------------------------------------------------------
(* The spend of a "never" budget *)

LEMMA CallKeepsNeverTotals ==
  ASSUME SqliteConstants, StoreInv, NEW t \in Threads, Call(t),
         NEW k \in Keys, cycle[k] = "never", cycle'[k] = "never", NEW r \in Records
  PROVE  mem.totals[k][r] <= mem'.totals[k][r]
<1>1. mem.totals[k][r] \in Nat /\ TypeOK
  BY DEF StoreInv, TypeOK
<1>2. CASE \E some : mem' = UpdateRunningTotals(some)
  <2>1. PICK some : mem' = UpdateRunningTotals(some)
    BY <1>2
  <2>2. mem'.totals[k][r] >= mem.totals[k][r] /\ mem'.totals[k][r] \in Nat
    BY <1>1, <2>1, UpdateRunningTotalsGrows DEF Memories
  <2> QED
    BY <1>1, <2>2
<1>3. CASE mem' = mem
  BY <1>1, <1>3
<1>4. CASE \E before, after : mem' = CompactedTotals(before, after)
  <2>1. PICK before, after : mem' = CompactedTotals(before, after)
    BY <1>4
  <2>2. mem'.totals[k][r] \in Nat
    BY <1>1, <2>1, CompactedCharges DEF Memories
  <2>3. mem.entry[k] = "counted" => mem'.totals[k][r] = mem.totals[k][r]
    BY <1>1, <2>1, CompactedCharges
  <2>4. mem.entry[k] # "counted" => mem.totals[k][r] = 0
    BY DEF StoreInv, UncountedIsZero
  <2> QED
    BY <1>1, <2>2, <2>3, <2>4
<1>5. CASE Clear(t)
  <2>1. cycle' = Empty.budgets \/ mem' = mem
    BY <1>5 DEF Clear
  <2>2. Empty.budgets[k] = "none"
    BY DEF Empty
  <2> QED
    BY <1>3, <2>1, <2>2
<1>6. CASE \E age \in AgeChoices : Compact(t, age)
  <2>1. mem' = mem \/ \E before, after : mem' = CompactedTotals(before, after)
    BY <1>6 DEF Compact
  <2> QED
    BY <1>3, <1>4, <2>1
<1>7. CASE \E x \in Records : InsertRecord(t, x)
  <2>1. mem' = mem \/ \E some : mem' = UpdateRunningTotals(some)
    BY <1>7 DEF InsertRecord
  <2> QED
    BY <1>2, <1>3, <2>1
<1>8. CASE \/ \E batch \in SUBSET Records : InsertRecordsBatch(t, batch)
           \/ \E done, bad : BatchFails(t, done, bad)
  BY <1>2, <1>8 DEF InsertRecordsBatch, BatchFails
<1>9. CASE \/ \E x \in Keys, c \in Cycles : SetBudget(t, x, c)
           \/ \E x \in Keys : DeleteBudget(t, x)
           \/ Close(t)
  BY <1>3, <1>9 DEF DeleteBudget, SetBudget, Close
<1> QED
  BY <1>5, <1>6, <1>7, <1>8, <1>9 DEF Call

LEMMA NeverStep ==
  ASSUME SqliteConstants, StoreInv, [Next]_vars
  PROVE  [NeverTotalsKept]_vars
<1>1. CASE \E t \in Threads : Call(t)
  BY <1>1, CallKeepsNeverTotals DEF NeverTotalsKept
<1>2. CASE Restart
  <2>1. restarts' # restarts
    BY <1>2 DEF Restart, StoreInv, TypeOK
  <2> QED
    BY <2>1 DEF NeverTotalsKept
<1>3. CASE Tick
  <2>1. \A k \in Keys, r \in Records : mem.totals[k][r] <= mem'.totals[k][r]
    BY <1>3 DEF Tick, StoreInv, TypeOK
  <2> QED
    BY <2>1 DEF NeverTotalsKept
<1> QED
  BY <1>1, <1>2, <1>3 DEF Next

-----------------------------------------------------------------------------
(* Theorems *)

\* No method, failed write or restart takes the store out of its types: one
\* connection writes at a time and no total is negative.
THEOREM SqliteTypeCorrect == Spec => []TypeOK
<1>1. TypeOK /\ [Next]_vars => TypeOK'
  BY TypeStep, SqliteConstants
<1> QED
  BY <1>1, TypeInit, PTL DEF Spec

LEMMA InvHolds == Spec => []StoreInv
<1>1. Init => StoreInv
  BY TypeInit, NoTotalsType
     DEF Init, StoreInv, Keeps, ReturnedIsCharged, UncountedIsZero
<1>2. StoreInv /\ [Next]_vars => StoreInv'
  BY InvStep, SqliteConstants
<1> QED
  BY <1>1, <1>2, PTL DEF Spec

\* Nothing a returned insert or set_budget wrote is ever missing from the
\* database, whichever connection fails, stays open or is closed later.
THEOREM ReturnedStaysDurable == Spec => []ReturnedIsDurable
<1>1. StoreInv => ReturnedIsDurable
  BY DEF StoreInv, Keeps, ReturnedIsDurable
<1> QED
  BY <1>1, InvHolds, PTL

\* And it is in the total of each of its keys, through compactions, failed
\* batches and restarts.
THEOREM ReturnedStaysCharged == Spec => []ReturnedIsCharged
<1>1. StoreInv => ReturnedIsCharged
  BY DEF StoreInv
<1> QED
  BY <1>1, InvHolds, PTL

\* The spend of a standing "never" budget never shrinks in a running process.
THEOREM NeverSpendKept == Spec => NeverTotalsMonotone
<1>1. StoreInv /\ [Next]_vars => [NeverTotalsKept]_vars
  BY NeverStep, SqliteConstants
<1> QED
  BY <1>1, InvHolds, PTL DEF Spec, NeverTotalsMonotone
=============================================================================
