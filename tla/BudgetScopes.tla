---------------------------- MODULE BudgetScopes ----------------------------
(***************************************************************************)
(* Which budgets a call is checked against and which it is charged to.     *)
(* Five places of tokenledger decide that on their own: the look-up before *)
(* the call (budget.py, _get_applicable_budgets), matches_scope            *)
(* (scopes.py), the dimensions of the running totals (store.py and         *)
(* sqlite_store.py), the SQL of get_windowed_spend, and the spend that     *)
(* analytics.py reports.                                                   *)
(*                                                                         *)
(* Calls come one at a time here: what they overspend together is in       *)
(* RequestPipeline, and what evictions, prunes and failures do to the      *)
(* totals in the modules of the stores.  An identifier is what             *)
(* str.split(":") makes of it, a sequence of parts, so that joining two    *)
(* with a colon is \o.  A day is any stretch between two midnights; only   *)
(* those at which a window may begin are told apart.                       *)
(* Operators commented "Mistake" are wrong on purpose and used nowhere.    *)
(***************************************************************************)
EXTENDS Integers, Sequences, FiniteSetsExt

CONSTANTS
  Requests,    \* metadata of calls: an identifier for each field
  Rules,       \* budgets that may be set: [scope, id, cycle, limit]
  Expected,    \* results of _estimate_request_cost
  Prices,      \* cost_usd of a record, in whole units
  Mondays, Firsts,  \* days that begin a week, a month
  LastDay,     \* bound: days that pass
  MaxRecords   \* bound: records stored

None  == <<>>       \* Python's None
Empty == <<"">>     \* the empty string
Blank == <<" ">>    \* a string of spaces
All   == <<"all">>

Required == {"provider", "model", "user", "project"}
Optional == {"tenant", "conversation", "agent"}
Fields   == Required \cup Optional
Scopes   == Fields \cup {"global", "user_project"}

Ids == Seq(STRING)
ASSUME ScopeConstants ==
  /\ Requests \subseteq [Fields -> Ids]
  /\ Rules \subseteq [scope : STRING, id : Ids \ {None}, cycle : STRING, limit : Nat]
  /\ Expected \subseteq Nat /\ Prices \subseteq Nat
  /\ Mondays \subseteq Nat /\ Firsts \subseteq Nat

VARIABLES
  rules,     \* the budgets that are set, at most one for each key
  records,   \* what get_records returns, oldest first
  totals,    \* cost_usd of the running totals, for the keys of all rules
  day,       \* today
  indexed    \* is the store SqliteStore, whose windowed spend is a query?

scopeVars == <<rules, records, totals, day, indexed>>

\* f"{scope}:{scope_id}"; no scope has a colon in it.
Key(b) == <<b.scope, b.id>>
Keys   == {Key(b) : b \in Rules}

ScopeInit ==
  /\ rules = {} /\ records = <<>> /\ day = 0
  /\ totals = [k \in Keys |-> 0]
  /\ indexed \in BOOLEAN

-----------------------------------------------------------------------------
(* Which budget, five times *)

Truthy(id) == id \notin {None, Empty}

\* Mistake: the scopes that were added later are not looked up.
FirstScopeKeys(q) ==
  {<<"global", All>>, <<"user_project", q["user"] \o q["project"]>>}
    \cup {<<f, q[f]>> : f \in {g \in Required : Truthy(q[g])}}
\* scope_keys of _get_applicable_budgets.
ScopeKeys(q) ==
  {<<"global", All>>, <<"user_project", q["user"] \o q["project"]>>}
    \cup {<<f, q[f]>> : f \in {g \in Fields : Truthy(q[g])}}
Applicable(q) == {b \in rules : Key(b) \in ScopeKeys(q)}

MatchesScope(r, scope, id) ==
  \/ scope = "global"
  \/ scope \in Fields /\ r[scope] = id
  \/ scope = "user_project" /\ Len(id) = 2 /\ r["user"] = <<id[1]>> /\ r["project"] = <<id[2]>>

\* Mistake: the optional fields have no totals.
RequiredKeys(r) == {<<"global", All>>} \cup {<<f, r[f]>> : f \in Required}
\* dimensions of _update_running_totals; that of the month is left out.
TotalKeys(r) ==
  {<<"global", All>>} \cup {<<f, r[f]>> : f \in Required}
    \cup {<<f, r[f]>> : f \in {g \in Optional : Truthy(r[g]) /\ r[g] # Blank}}

\* The WHERE clause of get_windowed_spend: a scope it does not know selects
\* everything.
Selected(r, scope, id) ==
  /\ scope \in Fields => r[scope] = id
  /\ scope = "user_project" => MatchesScope(r, scope, id)

-----------------------------------------------------------------------------
(* The spend of a budget *)

Latest(days) == Max({d \in days : d <= day} \cup {0})
\* Mistake: a week is the last few days.
RollingWeek(cycle) ==
  CASE cycle = "never"  -> 0
    [] cycle = "daily"  -> day
    [] cycle = "weekly" -> Max({0, day - 1})
    [] OTHER            -> Latest(Firsts)
\* _get_window_start: any other cycle is a month.
WindowStart(cycle) ==
  CASE cycle = "never"  -> 0
    [] cycle = "daily"  -> day
    [] cycle = "weekly" -> Latest(Mondays)
    [] OTHER            -> Latest(Firsts)

InWindow(b) == {i \in DOMAIN records : records[i].billed /\ records[i].day >= WindowStart(b.cycle)}
\* A record contributes as many units as it costs.
Units(S) == UNION {{i} \X (1..records[i].cost) : i \in S}
CostOf(S) == Cardinality(Units(S))

\* get_windowed_spend: a query of SqliteStore, a scan of MemoryStore, as the
\* fallback in the enforcer is.
WindowSpend(b) ==
  IF indexed THEN CostOf({i \in InWindow(b) : Selected(records[i].of, b.scope, b.id)})
  ELSE CostOf({i \in InWindow(b) : MatchesScope(records[i].of, b.scope, b.id)})

\* BudgetEnforcer._calculate_current_spend
CurrentSpend(b) ==
  IF b.cycle = "never" /\ b.scope # "user_project" THEN totals[Key(b)] ELSE WindowSpend(b)

\* AnalyticsEngine._budget_spend
ReportedSpend(b) == IF b.cycle = "never" THEN totals[Key(b)] ELSE WindowSpend(b)

-----------------------------------------------------------------------------
(* Steps *)

\* A budget of the same key is replaced.
SetBudget(b) ==
  /\ rules' = {c \in rules : Key(c) # Key(b)} \cup {b}
  /\ rules' # rules
  /\ UNCHANGED <<records, totals, day, indexed>>

\* build_record leaves out optional fields that are empty.
Built(q) == [f \in Fields |-> IF f \in Optional /\ ~Truthy(q[f]) THEN None ELSE q[f]]

Store(r, amount, billed) ==
  /\ Len(records) < MaxRecords
  /\ records' = Append(records, [of |-> r, cost |-> amount, day |-> day, billed |-> billed])
  /\ totals' = [k \in Keys |->
                  IF billed /\ k \in TotalKeys(r) THEN totals[k] + amount ELSE totals[k]]
  /\ UNCHANGED <<rules, day, indexed>>

HasRoom(q, est) == \A b \in Applicable(q) : CurrentSpend(b) + est <= b.limit

\* The call is made and recorded, as billable unless its status is "error".
Admitted(q, est) ==
  /\ HasRoom(q, est)
  /\ \E amount \in Prices, billed \in BOOLEAN : Store(Built(q), amount, billed)

\* A blocked attempt is recorded with no tokens.
Refused(q, est) == ~HasRoom(q, est) /\ Store(Built(q), 0, FALSE)

NextDay ==
  /\ day < LastDay /\ day' = day + 1
  /\ UNCHANGED <<rules, records, totals, indexed>>

ScopeNext ==
  \/ \E b \in Rules : SetBudget(b)
  \/ \E q \in Requests, est \in Expected : Admitted(q, est) \/ Refused(q, est)
  \/ NextDay

ScopeSpec == ScopeInit /\ [][ScopeNext]_scopeVars

-----------------------------------------------------------------------------
(* Properties *)

\* What a budget is meant to be charged with.
TrueSpend(b) == CostOf({i \in InWindow(b) : MatchesScope(records[i].of, b.scope, b.id)})

\* Budgets that mean something: of a scope there is, for identifiers that are
\* not blank, and, if global, for "all".
Proper(b) == /\ b.scope \in Scopes /\ b.id \notin {Empty, Blank}
             /\ b.scope = "global" => b.id = All

\* A call that is charged to a budget was checked against it, at its true
\* spend: with one call at a time, no step takes a budget further once it is
\* over its limit (check_budget against everything a spend is read from).
ChargedOnlyWithRoom ==
  [][\A b \in rules \cap rules' :
       Proper(b) /\ TrueSpend(b)' > TrueSpend(b) => TrueSpend(b) <= b.limit]_scopeVars

\* Whatever a spend is read from, running totals kept since the first record,
\* a scan or a query, and whoever reads it, the enforcer or the reports, it is
\* the same: budgets may be set before or after the records they count.  A
\* user_project budget that is never reset is excepted for the reports.
SpendsAgree ==
  \A b \in rules : Proper(b) =>
    /\ CurrentSpend(b) = TrueSpend(b)
    /\ ~(b.scope = "user_project" /\ b.cycle = "never") => ReportedSpend(b) = TrueSpend(b)

\* Spend falls only when the window of its own budget rolls over, although
\* windows are computed from the clock at every look (_get_window_start).
RollsOver(b) ==
  /\ day' # day
  /\ \/ b.cycle = "daily"
     \/ b.cycle = "weekly" /\ day' \in Mondays
     \/ b.cycle \notin {"never", "daily", "weekly"} /\ day' \in Firsts
FallsOnlyAtRollOver ==
  [][\A b \in rules \cap rules' :
       Proper(b) /\ CurrentSpend(b)' < CurrentSpend(b) => RollsOver(b)]_scopeVars

-----------------------------------------------------------------------------
(* What the documentation says and the code does not do *)

\* CHANGELOG.md:73: "`user_project` spend now uses the intersection of user +
\* project": so does the spend that get_budget_utilization reports, for a budget
\* that is never reset too.
UserProjectReported == \A b \in rules : b.scope = "user_project" => ReportedSpend(b) = TrueSpend(b)

\* scopes.py:11: "all scope semantics stay consistent in one place": a call is
\* charged to exactly the budgets it is checked against.
CheckedIffCharged ==
  \A q \in Requests, b \in rules : b \in Applicable(q) <=> MatchesScope(Built(q), b.scope, b.id)
=============================================================================
