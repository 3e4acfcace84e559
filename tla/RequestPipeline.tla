-------------------------- MODULE RequestPipeline --------------------------
(***************************************************************************)
(* Calls of a wrapped client, as tokenledger/core/interceptor.py runs them *)
(* (_track_request and its async twin): budgets are read one by one, the   *)
(* provider is called, the answer (at once, or when its stream ends) is    *)
(* made a record and stored, and the record is then held against the       *)
(* budgets and the cost contracts.  No lock spans two of these steps: each *)
(* action is what one call does between two points where another thread or *)
(* task may run.                                                           *)
(*                                                                         *)
(* A member of Calls is a place for one call in flight, used again and     *)
(* again: a thread or task, or an open stream its thread has left behind.  *)
(* Money is counted in whole units.  The store is what budgets see of it:  *)
(* the spend each is charged with.  Whether the circuit breaker, the       *)
(* provider and its retries let a call through is left open (NoAnswer).    *)
(* Operators commented "Mistake" are wrong on purpose and used nowhere.    *)
(***************************************************************************)
EXTENDS Integers, FiniteSets

CONSTANTS
  Calls,        \* places for calls in flight
  Budgets,      \* keys of the budgets that are set
  Limit,        \* limit_usd of each budget
  Windowed,     \* the budgets with a daily, weekly or monthly window
  Contracts,    \* number of cost contracts, in the order of all()
  MaxCost,      \* max_cost_usd of each contract
  Kinds,        \* [on, stream, known] of the requests callers make
  Configs,      \* [ghost, persist, strict, policy] of the ledger
  Estimates,    \* results of _estimate_request_cost
  Costs,        \* cost_usd of a finished record
  TopCost,      \* the largest of them
  MaxCalls,     \* bound: calls that are begun
  MaxMishaps    \* bound: inserts that fail and streams never consumed

Policies == {"estimate", "allow", "block"}
Config == [ghost: BOOLEAN, persist: BOOLEAN, strict: BOOLEAN, policy: Policies]
Request == [on: SUBSET Budgets, stream: BOOLEAN, known: BOOLEAN]

ASSUME PipelineConstants ==
  /\ IsFiniteSet(Calls)
  /\ Limit \in [Budgets -> Nat]
  /\ Windowed \subseteq Budgets
  /\ Contracts \in Nat
  /\ MaxCost \in [1..Contracts -> Nat]
  /\ Kinds \subseteq Request
  /\ Configs \subseteq Config
  /\ Estimates \subseteq Nat
  /\ TopCost \in Nat /\ Costs \subseteq 0..TopCost
  /\ MaxCalls \in Nat /\ MaxMishaps \in Nat

VARIABLES
  config,     \* ghost_mode, ghost_persist, strict_budget, unknown_model_policy
  pc,         \* what each call does next
  req,        \* the metadata of each call: on, the budgets it falls under
  left,       \* budgets the running loop of a call has still to look at
  cost,       \* cost_usd of the record a call is about to store
  at,         \* the contract a call checks next
  spent,      \* _calculate_current_spend of each budget
  told,       \* since its window began, a call charged to the budget was told of
              \* an overrun, of this budget or of another (history)
  charged,    \* current_spend of each contract
  begun,      \* calls begun so far
  paid,       \* what the provider has answered, in money (history)
  recorded,   \* cost_usd of all records stored (history)
  mishaps,    \* inserts that failed, streams never consumed (history)
  raised      \* an on_record hook has raised (history)

vars == <<config, pc, req, left, cost, at, spent, told, charged, begun, paid,
          recorded, mishaps, raised>>

Phases == {"idle", "check", "streaming", "store", "enforce"}

NoRequest == [on |-> {}, stream |-> FALSE, known |-> TRUE]

\* The call is over, returned or raised, and its locals with it.
Leave(c) ==
  /\ pc' = [pc EXCEPT ![c] = "idle"]
  /\ req' = [req EXCEPT ![c] = NoRequest]
  /\ left' = [left EXCEPT ![c] = {}]
  /\ cost' = [cost EXCEPT ![c] = 0]
  /\ at' = [at EXCEPT ![c] = 1]

Init ==
  /\ config \in Configs
  /\ pc = [c \in Calls |-> "idle"]
  /\ req = [c \in Calls |-> NoRequest]
  /\ left = [c \in Calls |-> {}]
  /\ cost = [c \in Calls |-> 0]
  /\ at = [c \in Calls |-> 1]
  /\ spent = [b \in Budgets |-> 0]
  /\ told = [b \in Budgets |-> FALSE]
  /\ charged = [k \in 1..Contracts |-> 0]
  /\ begun = 0 /\ paid = 0 /\ recorded = 0 /\ mishaps = 0
  /\ raised = FALSE

-----------------------------------------------------------------------------
(* Before the provider is called *)

\* _extract_meta and _get_applicable_budgets.
Begin(c, kind) ==
  /\ pc[c] = "idle" /\ begun < MaxCalls
  /\ begun' = begun + 1
  /\ req' = [req EXCEPT ![c] = kind]
  /\ pc' = [pc EXCEPT ![c] = "check"]
  /\ left' = [left EXCEPT ![c] = kind.on]
  /\ UNCHANGED <<config, cost, at, spent, told, charged, paid, recorded, mishaps, raised>>

\* Mistake: the first budget with room ends the loop.
FirstBudgetSettles(c, b) == {}
\* The budgets that are left to read after b had room.
AfterRoom(c, b) == left[c] \ {b}

\* check_budget reads the spend of one budget and finds room for the estimate.
BudgetHasRoom(c, b) ==
  /\ pc[c] = "check" /\ b \in left[c]
  /\ \E est \in Estimates : spent[b] + est <= Limit[b]
  /\ left' = [left EXCEPT ![c] = AfterRoom(c, b)]
  /\ UNCHANGED <<config, pc, req, cost, at, spent, told, charged, begun, paid,
                 recorded, mishaps, raised>>

\* It finds none.  A ghost ledger drops the error; otherwise a blocked record,
\* which no budget counts, is stored, the callback runs and the call raises.
BudgetExceeded(c, b) ==
  /\ pc[c] = "check" /\ b \in left[c]
  /\ \E est \in Estimates : spent[b] + est > Limit[b]
  /\ IF config.ghost THEN left' = [left EXCEPT ![c] = {}] /\ UNCHANGED <<pc, req, cost, at>>
     ELSE Leave(c)
  /\ UNCHANGED <<config, spent, told, charged, begun, paid, recorded, mishaps, raised>>

Admitted(c) == pc[c] = "check" /\ left[c] = {}

\* The breaker is open, or the retries of a failing request are used up.
NoAnswer(c) ==
  /\ Admitted(c)
  /\ Leave(c)
  /\ UNCHANGED <<config, spent, told, charged, begun, paid,
                 recorded, mishaps, raised>>

Answer(c, amount) ==
  /\ Admitted(c)
  /\ paid' = paid + amount
  /\ cost' = [cost EXCEPT ![c] = amount]
  /\ pc' = [pc EXCEPT ![c] = IF req[c].stream THEN "streaming" ELSE "store"]
  /\ UNCHANGED <<config, req, left, at, spent, told, charged, begun, recorded, mishaps, raised>>

-----------------------------------------------------------------------------
(* After the answer *)

\* StreamWrapper: exhausted, closed or broken, the stream is finalized once.
StreamEnds(c) ==
  /\ pc[c] = "streaming"
  /\ pc' = [pc EXCEPT ![c] = "store"]
  /\ UNCHANGED <<config, req, left, cost, at, spent, told, charged, begun, paid,
                 recorded, mishaps, raised>>

\* A generator that is never iterated never runs its finally clause.
StreamNeverConsumed(c) ==
  /\ pc[c] = "streaming"
  /\ mishaps < MaxMishaps /\ mishaps' = mishaps + 1
  /\ Leave(c)
  /\ UNCHANGED <<config, spent, told, charged, begun, paid, recorded, raised>>

UnknownBlocked(c) == ~req[c].known /\ config.policy = "block"
Dropped(c) == config.ghost /\ ~config.persist

\* Mistake: only one budget is enforced.
EnforceOne(c) == IF config.strict THEN {CHOOSE b \in req[c].on : TRUE} ELSE {}
\* The budgets _enforce_post_hoc_budget is to hold the stored record against.
ToEnforce(c) == IF config.strict THEN req[c].on ELSE {}

\* UnknownModelError, or a ghost record that is not kept: nothing is stored.
StoreNothing(c) ==
  /\ pc[c] = "store" /\ (UnknownBlocked(c) \/ Dropped(c))
  /\ Leave(c)
  /\ UNCHANGED <<config, spent, told, charged, begun, paid,
                 recorded, mishaps, raised>>

\* cost_usd as it is stored: "allow" prices an unknown model at nothing.
Priced(c) == IF ~req[c].known /\ config.policy = "allow" THEN 0 ELSE cost[c]

\* On to the checks that follow the insert, whether or not it succeeded.
ToChecks(c) ==
  /\ pc[c] = "store" /\ ~UnknownBlocked(c) /\ ~Dropped(c)
  /\ pc' = [pc EXCEPT ![c] = "enforce"]
  /\ left' = [left EXCEPT ![c] = ToEnforce(c)]
  /\ at' = [at EXCEPT ![c] = 1]
  /\ cost' = [cost EXCEPT ![c] = Priced(c)]
  /\ UNCHANGED <<config, req, told, charged, begun, paid, raised>>

\* Does the record of call c count towards budget b?
ChargedTo(c, b) == b \in req[c].on /\ ~config.ghost

\* Mistake: a record that overruns a budget is not stored.
StoreUnlessOverrun(c) ==
  /\ ToChecks(c)
  /\ \E b \in ToEnforce(c) : spent[b] + Priced(c) > Limit[b]
  /\ UNCHANGED <<spent, recorded, mishaps, raised>>
StoreRecord(c) ==
  /\ ToChecks(c)
  /\ spent' = [b \in Budgets |-> IF ChargedTo(c, b) THEN spent[b] + Priced(c) ELSE spent[b]]
  /\ recorded' = recorded + Priced(c)
  /\ UNCHANGED mishaps

\* insert_record raised: logged, and the call goes on.
StoreFails(c) ==
  /\ ToChecks(c)
  /\ mishaps < MaxMishaps /\ mishaps' = mishaps + 1
  /\ UNCHANGED <<spent, recorded>>

\* on_record raises, before anything is held against the stored record: the
\* caller gets that exception instead of its answer.
HookRaises(c) ==
  /\ pc[c] = "enforce" /\ left[c] = ToEnforce(c) /\ at[c] = 1
  /\ Leave(c) /\ raised' = TRUE
  /\ UNCHANGED <<config, spent, told, charged, begun, paid, recorded, mishaps>>

\* limit and spend > limit * 1.05
OverMargin(b) == Limit[b] # 0 /\ spent[b] * 20 > Limit[b] * 21

WithinMargin(c, b) ==
  /\ pc[c] = "enforce" /\ b \in left[c] /\ ~OverMargin(b)
  /\ left' = [left EXCEPT ![c] = left[c] \ {b}]
  /\ UNCHANGED <<config, pc, req, cost, at, spent, told, charged, begun, paid,
                 recorded, mishaps, raised>>

\* The callback runs; then the call raises, unless the record is a ghost.
Overrun(c, b) ==
  /\ pc[c] = "enforce" /\ b \in left[c] /\ OverMargin(b)
  /\ told' = [d \in Budgets |-> told[d] \/ d \in req[c].on]
  /\ IF config.ghost THEN left' = [left EXCEPT ![c] = left[c] \ {b}] /\ UNCHANGED <<pc, req, cost, at>>
     ELSE Leave(c)
  /\ UNCHANGED <<config, spent, charged, begun, paid, recorded, mishaps, raised>>

\* on_budget_exceeded raises: that is logged, and takes the place of the error;
\* the loop is over and the call goes on.
CallbackRaises(c, b) ==
  /\ pc[c] = "enforce" /\ b \in left[c] /\ OverMargin(b)
  /\ told' = [d \in Budgets |-> told[d] \/ d \in req[c].on]
  /\ left' = [left EXCEPT ![c] = {}]
  /\ UNCHANGED <<config, pc, req, cost, at, spent, charged, begun, paid, recorded, mishaps, raised>>

\* Mistake: a record that would breach the contract is not added to it.
AddedUnlessBreached(c) ==
  [k \in 1..Contracts |->
     IF k = at[c] /\ charged[k] + cost[c] <= MaxCost[k] THEN charged[k] + cost[c] ELSE charged[k]]
\* CostContractRegistry.check adds before it compares.
AddedToContract(c) ==
  [k \in 1..Contracts |-> IF k = at[c] THEN charged[k] + cost[c] ELSE charged[k]]

\* One contract is checked; the first that is breached ends the loop.
CheckContract(c) ==
  /\ pc[c] = "enforce" /\ left[c] = {} /\ at[c] <= Contracts
  /\ charged' = AddedToContract(c)
  /\ at' = [at EXCEPT ![c] =
              IF charged'[at[c]] > MaxCost[at[c]] THEN Contracts + 1 ELSE at[c] + 1]
  /\ UNCHANGED <<config, pc, req, left, cost, spent, told, begun, paid, recorded, mishaps, raised>>

Return(c) ==
  /\ pc[c] = "enforce" /\ left[c] = {} /\ at[c] > Contracts
  /\ Leave(c)
  /\ UNCHANGED <<config, spent, told, charged, begun, paid,
                 recorded, mishaps, raised>>

-----------------------------------------------------------------------------
\* The next day, week or month: earlier records fall out of the window.
NewWindow(b) ==
  /\ spent[b] > 0
  /\ spent' = [spent EXCEPT ![b] = 0]
  /\ told' = [told EXCEPT ![b] = FALSE]
  /\ UNCHANGED <<config, pc, req, left, cost, at, charged, begun, paid, recorded, mishaps, raised>>

Step(c) ==
  \/ \E kind \in Kinds : Begin(c, kind)
  \/ \E b \in Budgets : BudgetHasRoom(c, b)
  \/ \E b \in Budgets : BudgetExceeded(c, b)
  \/ NoAnswer(c)
  \/ \E amount \in Costs : Answer(c, amount)
  \/ StreamEnds(c)
  \/ StreamNeverConsumed(c)
  \/ StoreNothing(c)
  \/ StoreRecord(c)
  \/ StoreFails(c)
  \/ HookRaises(c)
  \/ \E b \in Budgets : WithinMargin(c, b)
  \/ \E b \in Budgets : Overrun(c, b)
  \/ \E b \in Budgets : CallbackRaises(c, b)
  \/ CheckContract(c)
  \/ Return(c)

Next == (\E c \in Calls : Step(c)) \/ (\E b \in Windowed : NewWindow(b))

Spec == Init /\ [][Next]_vars
-----------------------------------------------------------------------------
(* Properties *)

\* Every variable has its type; the budgets a loop has left are ones the
\* record matches, and a waiting loop is only in its own phase.
TypeOK ==
  /\ config \in Configs
  /\ pc \in [Calls -> Phases]
  /\ req \in [Calls -> Request]
  /\ left \in [Calls -> SUBSET Budgets]
  /\ \A c \in Calls : left[c] \subseteq req[c].on
  /\ \A c \in Calls : pc[c] \in {"idle", "streaming", "store"} => left[c] = {}
  /\ cost \in [Calls -> 0..TopCost]
  /\ at \in [Calls -> 1..(Contracts + 1)]
  /\ spent \in [Budgets -> Nat] /\ told \in [Budgets -> BOOLEAN]
  /\ charged \in [1..Contracts -> Nat]
  /\ begun \in 0..MaxCalls /\ paid \in Nat /\ recorded \in Nat
  /\ mishaps \in 0..MaxMishaps /\ raised \in BOOLEAN

\* The check before the call reserves nothing, so calls that were admitted
\* together may overspend a budget together, but by no more than one record
\* for each place in flight (_budget_check against insert_record).
OverspendBounded ==
  \A b \in Budgets : spent[b] <= Limit[b] + Cardinality(Calls) * TopCost

\* strict_budget: however the calls interleave, a budget is never left more
\* than 5% over its limit unless a call charged to it was told so or told of
\* another overrun, which ends the loop, or such a call is still on its way
\* to look (_enforce_post_hoc_budget, which raises at the first overrun).  A
\* hook that raises is the one thing that keeps a call from looking.
NoSilentOverrun ==
  \A b \in Budgets :
    config.strict /\ ~config.ghost /\ ~raised /\ OverMargin(b) =>
      told[b] \/ \E c \in Calls : pc[c] = "enforce" /\ b \in left[c]

Quiet == \A c \in Calls : pc[c] = "idle"
AllPriced == \A kind \in Kinds : kind.known \/ config.policy = "estimate"

\* Between calls, every answer the provider was paid for is in a record, once,
\* whether the call then returned or a hook or budget raised: what gets lost is lost to failed
\* inserts, unconsumed streams, unpriced models or unkept ghost records only.
EveryAnswerRecorded ==
  Quiet /\ mishaps = 0 /\ AllPriced /\ (config.ghost => config.persist) => recorded = paid

\* Between calls, unless post-hoc enforcement or a hook raises, the contracts up to the
\* first breached one have each been charged with every record
\* (CostContractRegistry.check, and the loop of _finalize_and_store).
ContractsChargedAlike ==
  Quiet /\ mishaps = 0 /\ ~raised /\ (config.strict => config.ghost) =>
    \A k \in 1..Contracts :
      (\A j \in 1..(k - 1) : charged[j] <= MaxCost[j]) => charged[k] = recorded

-----------------------------------------------------------------------------
(* What the documentation says and the code does not do *)

\* interceptor.py:593: "Cost contracts - enforce after every stored record":
\* between calls the first contract has been charged with every record.
ContractsSeeEveryRecord ==
  Quiet /\ mishaps = 0 /\ Contracts > 0 => charged[1] >= recorded

\* README.md:520: unknown_model_policy="block" "rejects them outright": no
\* answer of a model without a price is ever paid for.
UnknownModelsRejected ==
  \A c \in Calls : UnknownBlocked(c) => pc[c] \notin {"streaming", "store"}
=============================================================================
