-------------------------- MODULE ManualRecording --------------------------
(***************************************************************************)
(* Usage that an application records itself (tokenledger/core/ledger.py):  *)
(* record_usage called directly, usage() blocks, and functions decorated   *)
(* with track().  record_usage reads the budgets, inserts, runs the        *)
(* on_record hook, charges the cost contracts and at last holds the record *)
(* against the budgets again.  Blocks and decorators add what happens when *)
(* the code they wrap, or record_usage itself, raises.  Each action is     *)
(* what one caller does between two points where others may run.           *)
(*                                                                         *)
(* Money is counted in whole units.  The store is what budgets see of it.  *)
(* Operators commented "Mistake" are wrong on purpose and used nowhere.    *)
(***************************************************************************)
EXTENDS Integers, FiniteSets, Sequences

CONSTANTS
  Callers,      \* threads or tasks that record, again and again
  Budgets,      \* keys of the budgets that are set
  Limit,        \* limit_usd of each budget
  Windowed,     \* the budgets with a daily, weekly or monthly window
  Contracts,    \* number of cost contracts, in the order of all()
  MaxCost,      \* max_cost_usd of each contract
  Ways,         \* how usage is recorded: "record", "usage", "track"
  Kinds,        \* [on, known]: budgets a record falls under, is its model priced
  Configs,      \* [ghost, persist, strict, policy] of the ledger
  Estimates,    \* results of _estimate_request_cost
  Costs,        \* cost_usd of a record
  TopCost,      \* the largest of them
  MaxCalls,     \* bound: calls that are begun
  MaxMishaps    \* bound: inserts that fail and hooks that raise

ASSUME RecordingConstants ==
  /\ IsFiniteSet(Callers)
  /\ Limit \in [Budgets -> Nat] /\ Windowed \subseteq Budgets
  /\ Contracts \in Nat /\ MaxCost \in [1..Contracts -> Nat]
  /\ Ways \subseteq {"record", "usage", "track"}
  /\ Kinds \subseteq [on: SUBSET Budgets, known: BOOLEAN]
  /\ Configs \subseteq [ghost: BOOLEAN, persist: BOOLEAN, strict: BOOLEAN,
                        policy: {"estimate", "allow", "block"}]
  /\ Estimates \subseteq Nat
  /\ TopCost \in Nat /\ Costs \subseteq 0..TopCost
  /\ MaxCalls \in Nat /\ MaxMishaps \in Nat

VARIABLES
  config,     \* ghost_mode, ghost_persist, strict_budget, unknown_model_policy
  call,       \* what each caller is doing
  spent,      \* _calculate_current_spend of each budget
  told,       \* on_budget_exceeded ran for a record of this budget in this
              \* window (history)
  charged,    \* current_spend of each contract
  begun,      \* calls begun so far
  recorded,   \* cost_usd of all records stored (history)
  mishaps     \* inserts that failed, hooks that raised (history)

vars == <<config, call, spent, told, charged, begun, recorded, mishaps>>

\* Of a call: where it is, the record it is about (status, ghost, cost), the
\* budgets its running loop has not looked at, the contract it checks next;
\* and as history the status of the records stored for it, how often budgets
\* were charged, whether the hook raised, and whether a new window began.
Idle == [pc |-> "idle", way |-> "record", on |-> {}, known |-> TRUE,
         status |-> "success", ghost |-> FALSE, cost |-> 0, left |-> {}, at |-> 1,
         made |-> <<>>, billed |-> 0, hookRaised |-> FALSE, rolled |-> FALSE]

Phases == {"idle", "body", "check", "hook", "contracts", "enforce"}
At(c, phase) == call[c].pc = phase

Init ==
  /\ config \in Configs
  /\ call = [c \in Callers |-> Idle]
  /\ spent = [b \in Budgets |-> 0]
  /\ told = [b \in Budgets |-> FALSE]
  /\ charged = [k \in 1..Contracts |-> 0]
  /\ begun = 0 /\ recorded = 0 /\ mishaps = 0

-----------------------------------------------------------------------------
(* The code that is wrapped *)

Begin(c, way, kind) ==
  /\ At(c, "idle") /\ begun < MaxCalls
  /\ begun' = begun + 1
  /\ call' = [call EXCEPT ![c] =
       [Idle EXCEPT !.pc = IF way = "record" THEN "check" ELSE "body",
                    !.way = way, !.on = kind.on, !.known = kind.known, !.left = kind.on]]
  /\ UNCHANGED <<config, spent, told, charged, recorded, mishaps>>

BodyEnds(c, status) ==
  /\ At(c, "body")
  /\ call' = [call EXCEPT ![c].pc = "check", ![c].status = status]
  /\ UNCHANGED <<config, spent, told, charged, begun, recorded, mishaps>>

\* __exit__ records a cancelled block as an error; except Exception of the
\* decorator does not see a cancellation.
BodyCancelled(c) ==
  /\ At(c, "body")
  /\ call' = [call EXCEPT ![c] =
       IF @.way = "usage" THEN [@ EXCEPT !.pc = "check", !.status = "error"] ELSE Idle]
  /\ UNCHANGED <<config, spent, told, charged, begun, recorded, mishaps>>

-----------------------------------------------------------------------------
(* record_usage *)

\* The decorator's except clause records a second time, as an error; what that
\* raises leaves the decorator.
RecordedAgain(r) == r.way = "track" /\ r.status = "success"

\* record_usage raises: out of the caller, or swallowed and logged by the block
\* (__exit__), or caught by the decorator.
Raise(r) ==
  IF RecordedAgain(r)
  THEN [r EXCEPT !.pc = "check", !.status = "error", !.ghost = FALSE, !.cost = 0,
                 !.left = r.on, !.at = 1]
  ELSE Idle

UnknownBlocked(c) == ~call[c].known /\ config.policy = "block"

UnknownModel(c) ==
  /\ At(c, "check") /\ UnknownBlocked(c)
  /\ call' = [call EXCEPT ![c] = Raise(@)]
  /\ UNCHANGED <<config, spent, told, charged, begun, recorded, mishaps>>

\* Mistake: the first budget with room ends the loop.
FirstBudgetSettles(c, b) == {}
\* The budgets that are left to read after b had room.
AfterRoom(c, b) == call[c].left \ {b}

\* check_budget reads one budget and finds room for the estimate.
BudgetHasRoom(c, b) ==
  /\ At(c, "check") /\ ~UnknownBlocked(c) /\ b \in call[c].left
  /\ \E est \in Estimates : spent[b] + est <= Limit[b]
  /\ call' = [call EXCEPT ![c].left = AfterRoom(c, b)]
  /\ UNCHANGED <<config, spent, told, charged, begun, recorded, mishaps>>

\* It finds none: a ghost ledger marks the record, any other raises.
BudgetExceeded(c, b) ==
  /\ At(c, "check") /\ ~UnknownBlocked(c) /\ b \in call[c].left
  /\ \E est \in Estimates : spent[b] + est > Limit[b]
  /\ call' = [call EXCEPT ![c] =
       IF config.ghost THEN [@ EXCEPT !.ghost = TRUE, !.left = {}] ELSE Raise(@)]
  /\ UNCHANGED <<config, spent, told, charged, begun, recorded, mishaps>>

Admitted(c) == At(c, "check") /\ ~UnknownBlocked(c) /\ call[c].left = {}
Dropped(r) == r.ghost /\ ~config.persist

\* A ghost record that is not kept is shown to the hook only.
GhostDropped(c) ==
  /\ Admitted(c) /\ Dropped(call[c])
  /\ call' = [call EXCEPT ![c].pc = "hook"]
  /\ UNCHANGED <<config, spent, told, charged, begun, recorded, mishaps>>

\* "allow" prices an unknown model at nothing.
Priced(c, amount) == IF ~call[c].known /\ config.policy = "allow" THEN 0 ELSE amount

\* Mistake: records of failed calls are charged.
ErrorsCharged(r, b) == b \in r.on /\ ~r.ghost
\* _is_billable and matches_scope: does record r count towards budget b?
ChargedTo(r, b) == b \in r.on /\ ~r.ghost /\ r.status = "success"

StoreRecord(c, amount) ==
  /\ Admitted(c) /\ ~Dropped(call[c])
  /\ LET r == call[c]
         price == Priced(c, amount)
         billable == {b \in Budgets : ChargedTo(r, b)}
     IN /\ spent' = [b \in Budgets |-> IF b \in billable THEN spent[b] + price ELSE spent[b]]
        /\ recorded' = recorded + price
        /\ call' = [call EXCEPT ![c] =
             [r EXCEPT !.pc = "hook", !.cost = price, !.made = Append(r.made, r.status),
                       !.billed = IF billable = {} THEN r.billed ELSE r.billed + 1]]
  /\ UNCHANGED <<config, told, charged, begun, mishaps>>

\* insert_record raised: logged, and the call goes on with the record.
StoreFails(c, amount) ==
  /\ Admitted(c) /\ ~Dropped(call[c])
  /\ mishaps < MaxMishaps /\ mishaps' = mishaps + 1
  /\ call' = [call EXCEPT ![c].pc = "hook", ![c].cost = Priced(c, amount)]
  /\ UNCHANGED <<config, spent, told, charged, begun, recorded>>

HookReturns(c) ==
  /\ At(c, "hook")
  /\ call' = [call EXCEPT ![c] = IF Dropped(@) THEN Idle ELSE [@ EXCEPT !.pc = "contracts"]]
  /\ UNCHANGED <<config, spent, told, charged, begun, recorded, mishaps>>

\* Nothing in record_usage catches what the hook raises.
HookRaises(c) ==
  /\ At(c, "hook")
  /\ mishaps < MaxMishaps /\ mishaps' = mishaps + 1
  /\ call' = [call EXCEPT ![c] = Raise([@ EXCEPT !.hookRaised = TRUE])]
  /\ UNCHANGED <<config, spent, told, charged, begun, recorded>>

\* Mistake: records of failed calls are not added to contracts.
AddedUnlessError(r) ==
  [k \in 1..Contracts |->
     IF k = r.at /\ r.status = "success" THEN charged[k] + r.cost ELSE charged[k]]
\* CostContractRegistry.check adds before it compares.
AddedToContract(r) ==
  [k \in 1..Contracts |-> IF k = r.at THEN charged[k] + r.cost ELSE charged[k]]

\* One contract is checked; a breach, or a callback that raises, ends the loop.
CheckContract(c) ==
  /\ At(c, "contracts") /\ call[c].at <= Contracts
  /\ charged' = AddedToContract(call[c])
  /\ LET k == call[c].at
     IN call' = [call EXCEPT ![c].at = IF charged'[k] > MaxCost[k] THEN Contracts + 1 ELSE k + 1]
  /\ UNCHANGED <<config, spent, told, begun, recorded, mishaps>>

\* Mistake: only one budget is enforced.
EnforceOne(r) == IF config.strict THEN {CHOOSE b \in r.on : TRUE} ELSE {}
\* strict_budget; _skip_budget_check is set for error records only.
ToEnforce(r) == IF config.strict /\ r.status = "success" THEN r.on ELSE {}

ContractsDone(c) ==
  /\ At(c, "contracts") /\ call[c].at > Contracts
  /\ call' = [call EXCEPT ![c].pc = "enforce", ![c].left = ToEnforce(call[c])]
  /\ UNCHANGED <<config, spent, told, charged, begun, recorded, mishaps>>

\* Mistake: a budget that is just used up counts as overrun.
UsedUp(b) == Limit[b] # 0 /\ spent[b] >= Limit[b]
\* limit and spend > limit * 1.05
OverMargin(b) == Limit[b] # 0 /\ spent[b] * 20 > Limit[b] * 21

WithinMargin(c, b) ==
  /\ At(c, "enforce") /\ b \in call[c].left /\ ~OverMargin(b)
  /\ call' = [call EXCEPT ![c].left = @ \ {b}]
  /\ UNCHANGED <<config, spent, told, charged, begun, recorded, mishaps>>

\* The callback runs; then the call raises, unless the record is a ghost.
Overrun(c, b) ==
  /\ At(c, "enforce") /\ b \in call[c].left /\ OverMargin(b)
  /\ told' = [d \in Budgets |-> told[d] \/ d = b \/ (~call[c].ghost /\ d \in call[c].on)]
  /\ call' = [call EXCEPT ![c] =
       IF @.ghost THEN [@ EXCEPT !.left = call[c].left \ {b}] ELSE Raise(@)]
  /\ UNCHANGED <<config, spent, charged, begun, recorded, mishaps>>

\* The callback itself raises: that is logged, and takes the place of the error;
\* the loop goes on to the next budget.
CallbackRaises(c, b) ==
  /\ At(c, "enforce") /\ b \in call[c].left /\ OverMargin(b)
  /\ told' = [told EXCEPT ![b] = TRUE]
  /\ call' = [call EXCEPT ![c].left = @ \ {b}]
  /\ UNCHANGED <<config, spent, charged, begun, recorded, mishaps>>

Return(c) ==
  /\ At(c, "enforce") /\ call[c].left = {}
  /\ call' = [call EXCEPT ![c] = Idle]
  /\ UNCHANGED <<config, spent, told, charged, begun, recorded, mishaps>>

-----------------------------------------------------------------------------
\* The next day, week or month: earlier records fall out of the window.
NewWindow(b) ==
  /\ spent[b] > 0
  /\ spent' = [spent EXCEPT ![b] = 0]
  /\ told' = [told EXCEPT ![b] = FALSE]
  /\ call' = [c \in Callers |->
                IF At(c, "idle") THEN call[c] ELSE [call[c] EXCEPT !.rolled = TRUE]]
  /\ UNCHANGED <<config, charged, begun, recorded, mishaps>>

Step(c) ==
  \/ \E way \in Ways, kind \in Kinds : Begin(c, way, kind)
  \/ \E status \in {"success", "error"} : BodyEnds(c, status)
  \/ BodyCancelled(c)
  \/ UnknownModel(c)
  \/ \E b \in Budgets : BudgetHasRoom(c, b)
  \/ \E b \in Budgets : BudgetExceeded(c, b)
  \/ GhostDropped(c)
  \/ \E amount \in Costs : StoreRecord(c, amount)
  \/ \E amount \in Costs : StoreFails(c, amount)
  \/ HookReturns(c) \/ HookRaises(c)
  \/ CheckContract(c) \/ ContractsDone(c)
  \/ \E b \in Budgets : WithinMargin(c, b)
  \/ \E b \in Budgets : Overrun(c, b) \/ CallbackRaises(c, b)
  \/ Return(c)

Next == (\E c \in Callers : Step(c)) \/ (\E b \in Windowed : NewWindow(b))

Spec == Init /\ [][Next]_vars

-----------------------------------------------------------------------------
(* Properties *)

Usage == [pc: Phases, way: {"record", "usage", "track"}, on: SUBSET Budgets,
          known: BOOLEAN, status: {"success", "error"}, ghost: BOOLEAN, cost: 0..TopCost,
          left: SUBSET Budgets, at: 1..(Contracts + 1), made: Seq({"success", "error"}),
          billed: Nat, hookRaised: BOOLEAN, rolled: BOOLEAN]

\* Every variable has its type; a loop only looks at budgets of its record.
TypeOK ==
  /\ config \in Configs
  /\ call \in [Callers -> Usage]
  /\ \A c \in Callers : call[c].left \subseteq call[c].on
  /\ spent \in [Budgets -> Nat] /\ told \in [Budgets -> BOOLEAN]
  /\ charged \in [1..Contracts -> Nat]
  /\ begun \in 0..MaxCalls /\ recorded \in Nat /\ mishaps \in 0..MaxMishaps

\* Whatever raises on the way, and however often the decorator records a call,
\* budgets are charged for it once, for its first record, and never for one
\* that says "error" (track, _UsageContext, _is_billable).
BilledOnce ==
  \A c \in Callers :
    /\ Len(call[c].made) <= 2 /\ call[c].billed <= 1
    /\ call[c].billed = 1 => call[c].made[1] = "success"

\* Callers that were admitted together overspend a budget together, but by no
\* more than one record for each of them (check_budget against insert_record).
OverspendBounded ==
  \A b \in Budgets : spent[b] <= Limit[b] + Cardinality(Callers) * TopCost

\* A decorated call that post-hoc enforcement raises in is not recorded a second
\* time: the budget that raised has no room for the error record either, unless
\* a new window came in between.  Otherwise only a hook that raises, or a ghost
\* ledger, which records on, leads to two records of one call.
SecondRecordOnlyForHook ==
  \A c \in Callers :
    Len(call[c].made) = 2 => config.ghost \/ call[c].hookRaised \/ call[c].rolled

WillLook(c, b) ==
  \/ call[c].pc \in {"hook", "contracts"} /\ call[c].status = "success" /\ b \in call[c].on
  \/ At(c, "enforce") /\ b \in call[c].left

\* strict_budget: while hooks return, a budget is never left more than 5% over
\* its limit unless a caller charged to it was told, or is still on its way to
\* look, even where a block or decorator handles what record_usage raises.
NoSilentOverrun ==
  config.strict /\ mishaps = 0 =>
    \A b \in Budgets : OverMargin(b) => told[b] \/ \E c \in Callers : WillLook(c, b)

\* Between calls, while hooks and inserts work, the contracts up to the first
\* breached one have been charged with every record, also those of calls that
\* raised or that enforcement raised in (record_usage checks contracts first).
EveryRecordReachesContracts ==
  mishaps = 0 /\ (\A c \in Callers : At(c, "idle")) =>
    \A k \in 1..Contracts :
      (\A j \in 1..(k - 1) : charged[j] <= MaxCost[j]) => charged[k] = recorded
=============================================================================
