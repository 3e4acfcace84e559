----------------------- MODULE RequestPipelineProofs -----------------------
(***************************************************************************)
(* Theorems about RequestPipeline, for any number of calls in flight, any  *)
(* budgets, limits, prices and contracts.                                  *)
(***************************************************************************)
EXTENDS RequestPipeline, FiniteSetTheorems, TLAPS

-----------------------------------------------------------------------------
(* Types *)

\* A call that is over leaves well-typed locals behind.
LEMMA LeaveTypes ==
  ASSUME TypeOK, NEW c \in Calls, Leave(c)
  PROVE  /\ pc' \in [Calls -> Phases]
         /\ req' \in [Calls -> Request]
         /\ left' \in [Calls -> SUBSET Budgets]
         /\ \A d \in Calls : left'[d] \subseteq req'[d].on
         /\ \A d \in Calls : pc'[d] \in {"idle", "streaming", "store"} => left'[d] = {}
         /\ cost' \in [Calls -> 0..TopCost]
         /\ at' \in [Calls -> 1..(Contracts + 1)]
BY PipelineConstants DEF TypeOK, Leave, NoRequest, Request, Phases

\* The record a call stores costs no more than the most expensive one.
LEMMA PricedType ==
  ASSUME TypeOK, NEW c \in Calls
  PROVE  Priced(c) \in 0..TopCost
BY PipelineConstants DEF TypeOK, Priced

\* Each step of a call, and each new window, keeps the types.
LEMMA TypeStep ==
  ASSUME TypeOK, [Next]_vars
  PROVE  TypeOK'
<1> USE PipelineConstants DEF TypeOK
<1>1. ASSUME NEW c \in Calls, NEW kind \in Kinds, Begin(c, kind)  PROVE TypeOK'
  <2>1. kind \in Request /\ kind.on \in SUBSET Budgets
    BY DEF Request
  <2>2. /\ pc' \in [Calls -> Phases] /\ req' \in [Calls -> Request]
        /\ left' \in [Calls -> SUBSET Budgets]
    BY <1>1, <2>1 DEF Begin, Phases
  <2>3. /\ \A d \in Calls : left'[d] \subseteq req'[d].on
        /\ \A d \in Calls : pc'[d] \in {"idle", "streaming", "store"} => left'[d] = {}
    BY <1>1 DEF Begin
  <2>4. begun' \in 0..MaxCalls
    BY <1>1 DEF Begin
  <2> QED BY <1>1, <2>2, <2>3, <2>4 DEF Begin
<1>2. ASSUME NEW c \in Calls, NEW b \in Budgets, BudgetHasRoom(c, b)  PROVE TypeOK'
  BY <1>2 DEF BudgetHasRoom, AfterRoom
<1>3. ASSUME NEW c \in Calls, NEW b \in Budgets, BudgetExceeded(c, b)  PROVE TypeOK'
  <2>1. CASE config.ghost
    BY <1>3, <2>1 DEF BudgetExceeded
  <2>2. CASE ~config.ghost
    BY <1>3, <2>2, LeaveTypes DEF BudgetExceeded
  <2> QED BY <2>1, <2>2
<1>4. ASSUME NEW c \in Calls, NoAnswer(c)  PROVE TypeOK'
  BY <1>4, LeaveTypes DEF NoAnswer
<1>5. ASSUME NEW c \in Calls, NEW amount \in Costs, Answer(c, amount)  PROVE TypeOK'
  <2>1. amount \in 0..TopCost /\ amount \in Nat
    BY PipelineConstants
  <2>2. cost' \in [Calls -> 0..TopCost] /\ paid' \in Nat
    BY <1>5, <2>1 DEF Answer
  <2>3. pc' \in [Calls -> Phases] /\ left[c] = {}
    BY <1>5 DEF Answer, Admitted, Phases
  <2> QED BY <1>5, <2>2, <2>3 DEF Answer
<1>6. ASSUME NEW c \in Calls, StreamEnds(c)  PROVE TypeOK'
  BY <1>6 DEF StreamEnds, Phases
<1>7. ASSUME NEW c \in Calls, StreamNeverConsumed(c)  PROVE TypeOK'
  BY <1>7, LeaveTypes DEF StreamNeverConsumed
<1>8. ASSUME NEW c \in Calls, StoreNothing(c)  PROVE TypeOK'
  BY <1>8, LeaveTypes DEF StoreNothing
<1>9. ASSUME NEW c \in Calls, ToChecks(c)
      PROVE  /\ pc' \in [Calls -> Phases] /\ req' \in [Calls -> Request]
             /\ left' \in [Calls -> SUBSET Budgets]
             /\ \A d \in Calls : left'[d] \subseteq req'[d].on
             /\ \A d \in Calls : pc'[d] \in {"idle", "streaming", "store"} => left'[d] = {}
             /\ cost' \in [Calls -> 0..TopCost] /\ at' \in [Calls -> 1..(Contracts + 1)]
  <2>1. ToEnforce(c) \in SUBSET Budgets /\ ToEnforce(c) \subseteq req[c].on
    BY DEF ToEnforce, Request
  <2>2. Priced(c) \in 0..TopCost
    BY PricedType
  <2>3. /\ pc' \in [Calls -> Phases] /\ req' \in [Calls -> Request]
        /\ left' \in [Calls -> SUBSET Budgets]
        /\ \A d \in Calls : left'[d] \subseteq req'[d].on
        /\ \A d \in Calls : pc'[d] \in {"idle", "streaming", "store"} => left'[d] = {}
    BY <1>9, <2>1 DEF ToChecks, Phases
  <2>4. cost' \in [Calls -> 0..TopCost] /\ at' \in [Calls -> 1..(Contracts + 1)]
    BY <1>9, <2>2 DEF ToChecks
  <2> QED BY <2>3, <2>4
<1>10. ASSUME NEW c \in Calls, StoreRecord(c)  PROVE TypeOK'
  <2>1. Priced(c) \in 0..TopCost
    BY PricedType
  <2>2. spent' \in [Budgets -> Nat] /\ recorded' \in Nat
    BY <1>10, <2>1 DEF StoreRecord
  <2>3. ToChecks(c)
    BY <1>10 DEF StoreRecord
  <2>4. UNCHANGED <<config, told, charged, begun, paid, mishaps, raised>>
    BY <1>10 DEF StoreRecord, ToChecks
  <2> QED BY <1>9, <2>2, <2>3, <2>4
<1>11. ASSUME NEW c \in Calls, StoreFails(c)  PROVE TypeOK'
  <2>1. ToChecks(c)
    BY <1>11 DEF StoreFails
  <2>2. UNCHANGED <<config, told, charged, begun, paid, spent, recorded, raised>> /\ mishaps' \in 0..MaxMishaps
    BY <1>11 DEF StoreFails, ToChecks
  <2> QED BY <1>9, <2>1, <2>2
<1>12. ASSUME NEW c \in Calls, NEW b \in Budgets, WithinMargin(c, b)  PROVE TypeOK'
  BY <1>12 DEF WithinMargin
<1>13. ASSUME NEW c \in Calls, NEW b \in Budgets, Overrun(c, b)  PROVE TypeOK'
  <2>1. told' \in [Budgets -> BOOLEAN]
    BY <1>13 DEF Overrun
  <2>2. CASE config.ghost
    <3>1. left' = [left EXCEPT ![c] = left[c] \ {b}] /\ UNCHANGED <<pc, req, cost, at>>
      BY <1>13, <2>2 DEF Overrun
    <3>2. UNCHANGED <<config, spent, charged, begun, paid, recorded, mishaps, raised>>
      BY <1>13 DEF Overrun
    <3> QED BY <2>1, <3>1, <3>2
  <2>3. CASE ~config.ghost
    BY <1>13, <2>1, <2>3, LeaveTypes DEF Overrun
  <2> QED BY <2>2, <2>3
<1>14. ASSUME NEW c \in Calls, CheckContract(c)  PROVE TypeOK'
  <2>1. at[c] \in 1..Contracts /\ cost[c] \in Nat
    BY <1>14 DEF CheckContract
  <2>2. charged' \in [1..Contracts -> Nat]
    BY <1>14, <2>1 DEF CheckContract, AddedToContract
  <2>3. at' \in [Calls -> 1..(Contracts + 1)]
    BY <1>14, <2>1, <2>2 DEF CheckContract
  <2> QED BY <1>14, <2>2, <2>3 DEF CheckContract
<1>15. ASSUME NEW c \in Calls, Return(c)  PROVE TypeOK'
  BY <1>15, LeaveTypes DEF Return
<1>16. ASSUME NEW b \in Windowed, NewWindow(b)  PROVE TypeOK'
  BY <1>16 DEF NewWindow
<1>17. ASSUME NEW c \in Calls, HookRaises(c)  PROVE TypeOK'
  BY <1>17, LeaveTypes DEF HookRaises
<1>18. ASSUME NEW c \in Calls, NEW b \in Budgets, CallbackRaises(c, b)  PROVE TypeOK'
  <2>1. told' \in [Budgets -> BOOLEAN]
    BY <1>18 DEF CallbackRaises
  <2> QED BY <1>18, <2>1 DEF CallbackRaises
<1>19. CASE UNCHANGED vars
  BY <1>19 DEF vars
<1> QED
  BY <1>1, <1>2, <1>3, <1>4, <1>5, <1>6, <1>7, <1>8, <1>10, <1>11, <1>12, <1>13,
     <1>14, <1>15, <1>16, <1>17, <1>18, <1>19 DEF Next, Step

LEMMA TypeInit == Init => TypeOK
<1> SUFFICES ASSUME Init PROVE TypeOK
  OBVIOUS
<1>1. /\ pc \in [Calls -> Phases] /\ req \in [Calls -> Request]
      /\ left \in [Calls -> SUBSET Budgets]
      /\ \A c \in Calls : left[c] = {}
  BY DEF Init, NoRequest, Request, Phases
<1>2. /\ cost \in [Calls -> 0..TopCost] /\ at \in [Calls -> 1..(Contracts + 1)]
      /\ spent \in [Budgets -> Nat] /\ charged \in [1..Contracts -> Nat]
  BY PipelineConstants DEF Init
<1>3. told \in [Budgets -> BOOLEAN] /\ raised \in BOOLEAN
  BY DEF Init
<1> QED BY <1>1, <1>2, <1>3, PipelineConstants DEF Init, TypeOK

\* Every variable always has its type (TypeOK).
THEOREM PipelineTypeCorrect == Spec => []TypeOK
<1>1. TypeOK /\ [Next]_vars => TypeOK'
  BY TypeStep
<1> QED BY TypeInit, <1>1, PTL DEF Spec

-----------------------------------------------------------------------------
(* The overspend of calls in flight.  The spend of a budget alone is not   *)
(* inductive: what bounds it is the promise every admitted call still      *)
(* holds.  Each place in flight that has found room in the budget may yet  *)
(* store one record; spend and promises together stay within the bound.    *)

\* The calls that found room in budget b and have not stored their record.
Holding(b) ==
  {c \in Calls : pc[c] \in {"check", "streaming", "store"} /\ b \in req[c].on \ left[c]}
InFlight(b) == Cardinality(Holding(b))
WithinPromise(b) ==
  spent[b] + InFlight(b) * TopCost <= Limit[b] + Cardinality(Calls) * TopCost
SpendInv ==
  /\ TypeOK
  /\ config.ghost => \A b \in Budgets : spent[b] = 0
  /\ ~config.ghost => \A b \in Budgets : WithinPromise(b)

\* Cardinalities of the sets of calls that hold a promise.
LEMMA HoldingSize ==
  ASSUME NEW b
  PROVE  /\ IsFiniteSet(Holding(b)) /\ InFlight(b) \in Nat
         /\ InFlight(b) <= Cardinality(Calls) /\ Cardinality(Calls) \in Nat
<1>1. Holding(b) \in SUBSET Calls /\ IsFiniteSet(Calls)
  BY PipelineConstants DEF Holding
<1> QED BY <1>1, FS_Subset, FS_CardinalityType DEF InFlight

\* A product with a larger natural number is no smaller.
LEMMA ProductMonotone ==
  ASSUME NEW m \in Nat, NEW n \in Nat, NEW k \in Nat, m <= n
  PROVE  m * k <= n * k /\ m * k \in Nat /\ n * k \in Nat
OBVIOUS

\* Neither more spend nor more promises: the bound stays.
LEMMA PromisesShrink ==
  ASSUME TypeOK, TypeOK', NEW b \in Budgets, WithinPromise(b),
         Holding(b)' \subseteq Holding(b), spent'[b] <= spent[b]
  PROVE  WithinPromise(b)'
<1>1. /\ IsFiniteSet(Holding(b)) /\ InFlight(b) \in Nat /\ Cardinality(Calls) \in Nat
  BY HoldingSize
<1>2. InFlight(b)' \in Nat /\ InFlight(b)' <= InFlight(b)
  BY <1>1, FS_Subset, FS_CardinalityType DEF InFlight
<1>3. /\ InFlight(b)' * TopCost <= InFlight(b) * TopCost
      /\ InFlight(b)' * TopCost \in Nat /\ InFlight(b) * TopCost \in Nat
  BY <1>1, <1>2, ProductMonotone, PipelineConstants
<1>4. Cardinality(Calls) * TopCost \in Nat
  BY <1>1, ProductMonotone, PipelineConstants
<1>5. spent[b] \in Nat /\ spent'[b] \in Nat /\ Limit[b] \in Nat
  BY PipelineConstants DEF TypeOK
<1> QED BY <1>3, <1>4, <1>5 DEF WithinPromise

\* The step that reads the budget and finds room: the spend is within the
\* limit then, and there are no more promises than places.
LEMMA PromiseMade ==
  ASSUME TypeOK, TypeOK', NEW b \in Budgets, NEW c \in Calls, BudgetHasRoom(c, b)
  PROVE  WithinPromise(b)'
<1>1. spent'[b] \in Nat /\ Limit[b] \in Nat /\ spent'[b] <= Limit[b]
  <2>1. PICK est \in Estimates : spent[b] + est <= Limit[b]
    BY DEF BudgetHasRoom
  <2>2. est \in Nat /\ Limit[b] \in Nat /\ spent[b] \in Nat /\ spent' = spent
    BY PipelineConstants DEF TypeOK, BudgetHasRoom
  <2> QED BY <2>1, <2>2
<1>2. InFlight(b)' \in Nat /\ Cardinality(Calls) \in Nat /\ InFlight(b)' <= Cardinality(Calls)
  <2>1. Holding(b)' \in SUBSET Calls /\ IsFiniteSet(Calls)
    BY PipelineConstants DEF Holding
  <2> QED BY <2>1, FS_Subset, FS_CardinalityType DEF InFlight
<1>3. InFlight(b)' * TopCost <= Cardinality(Calls) * TopCost
      /\ InFlight(b)' * TopCost \in Nat /\ Cardinality(Calls) * TopCost \in Nat
  BY <1>2, ProductMonotone, PipelineConstants
<1> QED BY <1>1, <1>3 DEF WithinPromise

\* A record that counts towards the budget redeems the promise of its call.
LEMMA PromiseRedeemed ==
  ASSUME TypeOK, TypeOK', NEW b \in Budgets, NEW c \in Calls, WithinPromise(b),
         StoreRecord(c), b \in req[c].on
  PROVE  WithinPromise(b)'
<1>1. /\ pc[c] = "store" /\ left[c] = {} /\ req' = req
      /\ pc' = [pc EXCEPT ![c] = "enforce"] /\ \A d \in Calls \ {c} : left'[d] = left[d]
  BY DEF StoreRecord, ToChecks, TypeOK
<1>2. c \in Holding(b) /\ Holding(b)' = Holding(b) \ {c}
  BY <1>1 DEF Holding, TypeOK
<1>3. InFlight(b) \in Nat /\ Cardinality(Calls) \in Nat /\ InFlight(b)' = InFlight(b) - 1
      /\ InFlight(b)' \in Nat
  <2>1. IsFiniteSet(Holding(b)) /\ InFlight(b) \in Nat /\ Cardinality(Calls) \in Nat
    BY HoldingSize
  <2>2. InFlight(b)' = InFlight(b) - 1
    BY <1>2, <2>1, FS_RemoveElement DEF InFlight
  <2>3. InFlight(b) # 0
    BY <1>2, <2>1, FS_EmptySet DEF InFlight
  <2> QED BY <2>1, <2>2, <2>3
<1>4. Priced(c) \in 0..TopCost /\ TopCost \in Nat
  BY PricedType, PipelineConstants
<1>5. spent[b] \in Nat /\ Limit[b] \in Nat /\ spent'[b] \in Nat /\ spent'[b] <= spent[b] + Priced(c)
  BY <1>4, PipelineConstants DEF TypeOK, StoreRecord
<1>6. InFlight(b) * TopCost = InFlight(b)' * TopCost + TopCost
      /\ InFlight(b) * TopCost \in Nat /\ InFlight(b)' * TopCost \in Nat
  BY <1>3, <1>4
<1>7. Cardinality(Calls) * TopCost \in Nat
  BY <1>3, <1>4
<1> QED BY <1>4, <1>5, <1>6, <1>7 DEF WithinPromise

\* A call that is over holds no promise.
LEMMA LeaveReleases ==
  ASSUME TypeOK, NEW c \in Calls, Leave(c), NEW b
  PROVE  Holding(b)' \subseteq Holding(b)
BY DEF Leave, Holding, TypeOK

\* The settings of a ledger never change.
LEMMA ConfigFixed ==
  ASSUME [Next]_vars
  PROVE  config' = config
BY DEF Next, Step, vars, Begin, BudgetHasRoom, BudgetExceeded, NoAnswer, Answer, StreamEnds,
  StreamNeverConsumed, StoreNothing, StoreRecord, StoreFails, ToChecks, WithinMargin, Overrun,
  HookRaises, CallbackRaises, CheckContract, Return, NewWindow

\* A ghost ledger charges no budget.
LEMMA GhostStep ==
  ASSUME TypeOK, [Next]_vars, config.ghost, NEW b \in Budgets, spent[b] = 0
  PROVE  spent'[b] = 0
BY DEF TypeOK, ChargedTo, Next, Step, vars, Begin, BudgetHasRoom, BudgetExceeded, NoAnswer,
  Answer, StreamEnds, StreamNeverConsumed, StoreNothing, StoreRecord, StoreFails, ToChecks,
  WithinMargin, Overrun, HookRaises, CallbackRaises, CheckContract, Return, NewWindow

\* Every step keeps the spend of a budget within its promise.
LEMMA PromiseStep ==
  ASSUME TypeOK, TypeOK', [Next]_vars, ~config.ghost, NEW b \in Budgets, WithinPromise(b)
  PROVE  WithinPromise(b)'
<1> DEFINE Shrinks == Holding(b)' \subseteq Holding(b) /\ spent'[b] <= spent[b]
<1>0. spent[b] \in Nat
  BY DEF TypeOK
<1>1. ASSUME NEW c \in Calls, NEW kind \in Kinds, Begin(c, kind)  PROVE Shrinks
  BY <1>0, <1>1 DEF Begin, Holding, TypeOK
<1>2. ASSUME NEW c \in Calls, NEW d \in Budgets, BudgetHasRoom(c, d), d # b  PROVE Shrinks
  BY <1>0, <1>2 DEF BudgetHasRoom, AfterRoom, Holding, TypeOK
<1>3. ASSUME NEW c \in Calls, NEW d \in Budgets, BudgetExceeded(c, d)  PROVE Shrinks
  BY <1>0, <1>3, LeaveReleases DEF BudgetExceeded
<1>4. ASSUME NEW c \in Calls, NoAnswer(c)  PROVE Shrinks
  BY <1>0, <1>4, LeaveReleases DEF NoAnswer
<1>5. ASSUME NEW c \in Calls, NEW amount \in Costs, Answer(c, amount)  PROVE Shrinks
  BY <1>0, <1>5 DEF Answer, Admitted, Holding, TypeOK
<1>6. ASSUME NEW c \in Calls, StreamEnds(c)  PROVE Shrinks
  BY <1>0, <1>6 DEF StreamEnds, Holding, TypeOK
<1>7. ASSUME NEW c \in Calls, StreamNeverConsumed(c)  PROVE Shrinks
  BY <1>0, <1>7, LeaveReleases DEF StreamNeverConsumed
<1>8. ASSUME NEW c \in Calls, StoreNothing(c)  PROVE Shrinks
  BY <1>0, <1>8, LeaveReleases DEF StoreNothing
<1>9. ASSUME NEW c \in Calls, StoreRecord(c), b \notin req[c].on  PROVE Shrinks
  BY <1>0, <1>9 DEF StoreRecord, ToChecks, ChargedTo, Holding, TypeOK
<1>10. ASSUME NEW c \in Calls, StoreFails(c)  PROVE Shrinks
  BY <1>0, <1>10 DEF StoreFails, ToChecks, Holding, TypeOK
<1>11. ASSUME NEW c \in Calls, NEW d \in Budgets, WithinMargin(c, d)  PROVE Shrinks
  BY <1>0, <1>11 DEF WithinMargin, Holding, TypeOK
<1>12. ASSUME NEW c \in Calls, NEW d \in Budgets, Overrun(c, d)  PROVE Shrinks
  BY <1>0, <1>12, LeaveReleases DEF Overrun
<1>13. ASSUME NEW c \in Calls, CheckContract(c)  PROVE Shrinks
  BY <1>0, <1>13 DEF CheckContract, Holding
<1>14. ASSUME NEW c \in Calls, Return(c)  PROVE Shrinks
  BY <1>0, <1>14, LeaveReleases DEF Return
<1>15. ASSUME NEW d \in Windowed, NewWindow(d)  PROVE Shrinks
  BY <1>0, <1>15 DEF NewWindow, Holding, TypeOK
<1>16. ASSUME UNCHANGED vars  PROVE Shrinks
  BY <1>0, <1>16 DEF vars, Holding
<1>17. Shrinks => WithinPromise(b)'
  BY PromisesShrink
<1>18. ASSUME NEW c \in Calls, BudgetHasRoom(c, b)  PROVE WithinPromise(b)'
  BY <1>18, PromiseMade
<1>19. ASSUME NEW c \in Calls, StoreRecord(c), b \in req[c].on  PROVE WithinPromise(b)'
  BY <1>19, PromiseRedeemed
<1>20. ASSUME NEW c \in Calls, HookRaises(c)  PROVE Shrinks
  BY <1>0, <1>20, LeaveReleases DEF HookRaises
<1>21. ASSUME NEW c \in Calls, NEW d \in Budgets, CallbackRaises(c, d)  PROVE Shrinks
  BY <1>0, <1>21 DEF CallbackRaises, Holding, TypeOK
<1> HIDE DEF Shrinks
<1> QED
  BY <1>1, <1>2, <1>3, <1>4, <1>5, <1>6, <1>7, <1>8, <1>9, <1>10, <1>11, <1>12, <1>13,
     <1>14, <1>15, <1>16, <1>17, <1>18, <1>19, <1>20, <1>21 DEF Next, Step

LEMMA SpendInitial == Init => SpendInv
<1> SUFFICES ASSUME Init PROVE SpendInv
  OBVIOUS
<1>1. TypeOK
  BY TypeInit
<1>2. ASSUME NEW b \in Budgets  PROVE WithinPromise(b)
  <2>1. spent[b] = 0 /\ Limit[b] \in Nat
    BY PipelineConstants DEF Init
  <2>2. InFlight(b) \in Nat /\ Cardinality(Calls) \in Nat /\ InFlight(b) <= Cardinality(Calls)
    BY HoldingSize
  <2>3. InFlight(b) * TopCost <= Cardinality(Calls) * TopCost
        /\ InFlight(b) * TopCost \in Nat /\ Cardinality(Calls) * TopCost \in Nat
    BY <2>2, ProductMonotone, PipelineConstants
  <2> QED BY <2>1, <2>3 DEF WithinPromise
<1> QED BY <1>1, <1>2 DEF SpendInv, Init

LEMMA SpendStep == SpendInv /\ [Next]_vars => SpendInv'
<1> SUFFICES ASSUME SpendInv, [Next]_vars PROVE SpendInv'
  OBVIOUS
<1>1. TypeOK /\ TypeOK'
  BY TypeStep DEF SpendInv
<1>2. config' = config
  BY ConfigFixed
<1>3. CASE config.ghost
  BY <1>1, <1>2, <1>3, GhostStep DEF SpendInv
<1>4. CASE ~config.ghost
  BY <1>1, <1>2, <1>4, PromiseStep DEF SpendInv
<1> QED BY <1>3, <1>4

LEMMA SpendBounded == SpendInv => OverspendBounded
<1> SUFFICES ASSUME SpendInv, NEW b \in Budgets
             PROVE  spent[b] <= Limit[b] + Cardinality(Calls) * TopCost
  BY DEF OverspendBounded
<1>1. spent[b] \in Nat /\ Limit[b] \in Nat
  BY PipelineConstants DEF SpendInv, TypeOK
<1>2. InFlight(b) \in Nat /\ Cardinality(Calls) \in Nat
  BY HoldingSize
<1>3. InFlight(b) * TopCost \in Nat /\ Cardinality(Calls) * TopCost \in Nat
  BY <1>2, ProductMonotone, PipelineConstants
<1>4. CASE config.ghost
  BY <1>1, <1>3, <1>4 DEF SpendInv
<1>5. CASE ~config.ghost
  BY <1>1, <1>3, <1>5 DEF SpendInv, WithinPromise
<1> QED BY <1>4, <1>5

\* Calls that run together overspend a budget by at most one record each
\* (OverspendBounded), whatever they cost and however they interleave.
THEOREM OverspendIsBounded == Spec => []OverspendBounded
<1> QED BY SpendInitial, SpendStep, SpendBounded, PTL DEF Spec

-----------------------------------------------------------------------------
(* Post-hoc enforcement.  With the types, NoSilentOverrun is inductive: a  *)
(* record that takes a budget over its margin puts the budget on the list  *)
(* its own call has still to go through.                                   *)

SilenceInv == TypeOK /\ NoSilentOverrun

\* What NoSilentOverrun says of one budget of a strict ledger.
Answered(b) ==
  OverMargin(b) => told[b] \/ \E c \in Calls : pc[c] = "enforce" /\ b \in left[c]

\* A step of a call that is not at its checks leaves the others at theirs.
LEMMA OthersStillCheck ==
  ASSUME TypeOK, NEW c \in Calls, pc[c] # "enforce",
         \A d \in Calls \ {c} : pc'[d] = pc[d] /\ left'[d] = left[d],
         NEW b \in Budgets, Answered(b), told'[b] = told[b], spent'[b] = spent[b]
  PROVE  Answered(b)'
BY DEF Answered, OverMargin

LEMMA SilenceStep ==
  ASSUME TypeOK, TypeOK', [Next]_vars, config.strict, ~config.ghost, ~raised',
         NEW b \in Budgets, Answered(b)
  PROVE  Answered(b)'
<1>1. ASSUME NEW c \in Calls, NEW kind \in Kinds, Begin(c, kind)  PROVE Answered(b)'
  BY <1>1, OthersStillCheck DEF Begin, TypeOK
<1>2. ASSUME NEW c \in Calls, NEW d \in Budgets, BudgetHasRoom(c, d)  PROVE Answered(b)'
  BY <1>2, OthersStillCheck DEF BudgetHasRoom, TypeOK
<1>3. ASSUME NEW c \in Calls, NEW d \in Budgets, BudgetExceeded(c, d)  PROVE Answered(b)'
  BY <1>3, OthersStillCheck DEF BudgetExceeded, Leave, TypeOK
<1>4. ASSUME NEW c \in Calls, NoAnswer(c)  PROVE Answered(b)'
  BY <1>4, OthersStillCheck DEF NoAnswer, Admitted, Leave, TypeOK
<1>5. ASSUME NEW c \in Calls, NEW amount \in Costs, Answer(c, amount)  PROVE Answered(b)'
  BY <1>5, OthersStillCheck DEF Answer, Admitted, TypeOK
<1>6. ASSUME NEW c \in Calls, StreamEnds(c)  PROVE Answered(b)'
  BY <1>6, OthersStillCheck DEF StreamEnds, TypeOK
<1>7. ASSUME NEW c \in Calls, StreamNeverConsumed(c)  PROVE Answered(b)'
  BY <1>7, OthersStillCheck DEF StreamNeverConsumed, Leave, TypeOK
<1>8. ASSUME NEW c \in Calls, StoreNothing(c)  PROVE Answered(b)'
  BY <1>8, OthersStillCheck DEF StoreNothing, Leave, TypeOK
<1>9. ASSUME NEW c \in Calls, StoreRecord(c)  PROVE Answered(b)'
  <2>1. CASE b \in req[c].on
    <3>1. pc'[c] = "enforce" /\ b \in left'[c]
      BY <1>9, <2>1 DEF StoreRecord, ToChecks, ToEnforce, TypeOK
    <3> QED BY <3>1 DEF Answered
  <2>2. CASE b \notin req[c].on
    BY <1>9, <2>2, OthersStillCheck DEF StoreRecord, ToChecks, ChargedTo, TypeOK
  <2> QED BY <2>1, <2>2
<1>10. ASSUME NEW c \in Calls, StoreFails(c)  PROVE Answered(b)'
  BY <1>10, OthersStillCheck DEF StoreFails, ToChecks, TypeOK
<1>11. ASSUME NEW c \in Calls, NEW d \in Budgets, WithinMargin(c, d)  PROVE Answered(b)'
  <2>1. CASE d = b
    BY <1>11, <2>1 DEF WithinMargin, Answered, OverMargin
  <2>2. CASE d # b
    BY <1>11, <2>2 DEF WithinMargin, Answered, OverMargin, TypeOK
  <2> QED BY <2>1, <2>2
<1>12. ASSUME NEW c \in Calls, NEW d \in Budgets, Overrun(c, d)  PROVE Answered(b)'
  <2>1. Leave(c) /\ spent' = spent /\ told' = [x \in Budgets |-> told[x] \/ x \in req[c].on]
    BY <1>12 DEF Overrun
  <2>2. CASE b \in left[c]
    <3>1. told'[b]
      BY <2>1, <2>2 DEF TypeOK
    <3> QED BY <3>1 DEF Answered
  <2>3. CASE b \notin left[c]
    <3>1. told[b] => told'[b]
      BY <2>1
    <3>2. ASSUME NEW x \in Calls, pc[x] = "enforce", b \in left[x]
          PROVE  pc'[x] = "enforce" /\ b \in left'[x]
      BY <2>1, <2>3, <3>2 DEF Leave, TypeOK
    <3> QED BY <2>1, <3>1, <3>2 DEF Answered, OverMargin
  <2> QED BY <2>2, <2>3
<1>13. ASSUME NEW c \in Calls, CheckContract(c)  PROVE Answered(b)'
  BY <1>13 DEF CheckContract, Answered, OverMargin
<1>14. ASSUME NEW c \in Calls, Return(c)  PROVE Answered(b)'
  BY <1>14 DEF Return, Leave, Answered, OverMargin, TypeOK
<1>15. ASSUME NEW d \in Windowed, NewWindow(d)  PROVE Answered(b)'
  <2>1. CASE d = b
    <3>1. spent'[b] = 0 /\ Limit[b] \in Nat
      BY <1>15, <2>1, PipelineConstants DEF NewWindow, TypeOK
    <3> QED BY <3>1 DEF Answered, OverMargin
  <2>2. CASE d # b
    BY <1>15, <2>2 DEF NewWindow, Answered, OverMargin, TypeOK
  <2> QED BY <2>1, <2>2
<1>16. ASSUME NEW c \in Calls, HookRaises(c)  PROVE FALSE
  BY <1>16 DEF HookRaises
<1>17. ASSUME NEW c \in Calls, NEW d \in Budgets, CallbackRaises(c, d)  PROVE Answered(b)'
  <2>1. /\ spent' = spent /\ pc' = pc /\ left' = [left EXCEPT ![c] = {}]
        /\ told' = [x \in Budgets |-> told[x] \/ x \in req[c].on]
    BY <1>17 DEF CallbackRaises
  <2>2. CASE b \in left[c]
    <3>1. told'[b]
      BY <2>1, <2>2 DEF TypeOK
    <3> QED BY <3>1 DEF Answered
  <2>3. CASE b \notin left[c]
    BY <2>1, <2>3 DEF Answered, OverMargin, TypeOK
  <2> QED BY <2>2, <2>3
<1>18. CASE UNCHANGED vars
  BY <1>18 DEF vars, Answered, OverMargin
<1> QED
  BY <1>1, <1>2, <1>3, <1>4, <1>5, <1>6, <1>7, <1>8, <1>9, <1>10, <1>11, <1>12, <1>13,
     <1>14, <1>15, <1>16, <1>17, <1>18 DEF Next, Step

\* Once a hook has raised, that is not forgotten.
LEMMA RaisedStays == ASSUME TypeOK, [Next]_vars, raised PROVE raised'
BY DEF Next, Step, vars, Begin, BudgetHasRoom, BudgetExceeded, NoAnswer, Answer, StreamEnds,
  StreamNeverConsumed, StoreNothing, StoreRecord, StoreFails, ToChecks, WithinMargin, Overrun,
  HookRaises, CallbackRaises, CheckContract, Return, NewWindow

\* A strict ledger never leaves a budget over its margin in silence, unless a
\* hook has raised (NoSilentOverrun).
THEOREM OverrunNeverSilent == Spec => []NoSilentOverrun
<1>1. Init => SilenceInv
  <2>1. Init => NoSilentOverrun
    BY PipelineConstants DEF Init, NoSilentOverrun, OverMargin
  <2> QED BY <2>1, TypeInit DEF SilenceInv
<1>2. SilenceInv /\ [Next]_vars => SilenceInv'
  <2> SUFFICES ASSUME SilenceInv, [Next]_vars PROVE SilenceInv'
    OBVIOUS
  <2>1. TypeOK /\ TypeOK' /\ config' = config /\ (raised => raised')
    BY TypeStep, ConfigFixed, RaisedStays DEF SilenceInv
  <2>2. ASSUME config'.strict, ~config'.ghost, ~raised', NEW b \in Budgets  PROVE Answered(b)'
    <3>1. Answered(b)
      BY <2>1, <2>2 DEF SilenceInv, NoSilentOverrun, Answered
    <3> QED BY <2>1, <2>2, <3>1, SilenceStep
  <2> QED BY <2>1, <2>2 DEF SilenceInv, NoSilentOverrun, Answered
<1>3. SilenceInv => NoSilentOverrun
  BY DEF SilenceInv
<1> QED BY <1>1, <1>2, <1>3, PTL DEF Spec

-----------------------------------------------------------------------------
(* Sums.  What each call has still to account for is a number; the sum of  *)
(* them over all calls is the size of the set of all single units.         *)

Heap(f) == {p \in Calls \X (1..TopCost) : p[2] <= f[p[1]]}
Sum(f) == Cardinality(Heap(f))
Amounts == [Calls -> 0..TopCost]

\* One unit for each unit of money in one call's number.
LEMMA ColumnSize ==
  ASSUME NEW c, NEW k \in Nat
  PROVE  IsFiniteSet({c} \X (1..k)) /\ Cardinality({c} \X (1..k)) = k
<1>1. IsFiniteSet({c}) /\ Cardinality({c}) = 1
  BY FS_Singleton
<1>2. IsFiniteSet(1..k) /\ Cardinality(1..k) = k
  BY FS_Interval
<1>3. /\ IsFiniteSet({c} \X (1..k))
      /\ Cardinality({c} \X (1..k)) = Cardinality({c}) * Cardinality(1..k)
  BY <1>1, <1>2, FS_Product
<1>4. 1 * k = k
  OBVIOUS
<1> QED BY <1>1, <1>2, <1>3, <1>4

\* There are finitely many units, and none when every number is zero.
LEMMA SumType ==
  ASSUME NEW f
  PROVE  /\ IsFiniteSet(Heap(f)) /\ Sum(f) \in Nat
         /\ (\A c \in Calls : f[c] = 0) => Sum(f) = 0
<1>1. IsFiniteSet(1..TopCost)
  BY FS_Interval, PipelineConstants
<1>2. IsFiniteSet(Calls \X (1..TopCost))
  BY <1>1, PipelineConstants, FS_Product
<1>3. Heap(f) \in SUBSET (Calls \X (1..TopCost))
  BY DEF Heap
<1>4. IsFiniteSet(Heap(f)) /\ Sum(f) \in Nat
  BY <1>2, <1>3, FS_Subset, FS_CardinalityType DEF Sum
<1>5. (\A c \in Calls : f[c] = 0) => Heap(f) = {}
  BY PipelineConstants DEF Heap
<1> QED BY <1>4, <1>5, FS_EmptySet DEF Sum

\* A step that changes the number of one call changes the sum by as much.
LEMMA SumOfChange ==
  ASSUME NEW f \in Amounts, NEW g \in Amounts, NEW c \in Calls,
         \A d \in Calls \ {c} : g[d] = f[d]
  PROVE  Sum(g) = Sum(f) - f[c] + g[c]
<1> DEFINE Rest == {p \in Heap(f) : p[1] # c}
<1>1. IsFiniteSet(Rest) /\ Cardinality(Rest) \in Nat
  <2>1. Rest \in SUBSET Heap(f)
    OBVIOUS
  <2> QED BY <2>1, SumType, FS_Subset, FS_CardinalityType
<1>2. ASSUME NEW h \in Amounts, \A d \in Calls \ {c} : h[d] = f[d]
      PROVE  Sum(h) = Cardinality(Rest) + h[c]
  <2> DEFINE Own == {c} \X (1..h[c])
  <2>1. h[c] \in Nat /\ h[c] <= TopCost
    BY PipelineConstants DEF Amounts
  <2>2. IsFiniteSet(Own) /\ Cardinality(Own) = h[c]
    BY <2>1, ColumnSize
  <2>3. Heap(h) \subseteq Rest \cup Own
    BY <1>2 DEF Heap
  <2>4. Rest \cup Own \subseteq Heap(h)
    <3>1. Rest \subseteq Heap(h)
      BY <1>2 DEF Heap
    <3>2. Own \subseteq Heap(h)
      BY <2>1, PipelineConstants DEF Heap
    <3> QED BY <3>1, <3>2
  <2>5. Rest \cap Own = {}
    OBVIOUS
  <2>6. Cardinality(Rest \cup Own)
          = Cardinality(Rest) + Cardinality(Own) - Cardinality(Rest \cap Own)
    BY <1>1, <2>2, FS_Union
  <2>7. Cardinality(Rest \cap Own) = 0
    BY <2>5, FS_EmptySet
  <2>8. Heap(h) = Rest \cup Own
    BY <2>3, <2>4
  <2> HIDE DEF Rest, Own
  <2>9. Sum(h) = Cardinality(Rest \cup Own)
    BY <2>8 DEF Sum
  <2> QED BY <1>1, <2>1, <2>2, <2>6, <2>7, <2>9
<1> HIDE DEF Rest
<1>3. Sum(f) = Cardinality(Rest) + f[c] /\ Sum(g) = Cardinality(Rest) + g[c]
  BY <1>2
<1>4. f[c] \in Nat /\ g[c] \in Nat
  BY PipelineConstants DEF Amounts
<1> QED BY <1>1, <1>3, <1>4

-----------------------------------------------------------------------------
(* Answers and records.  That nothing is lost between calls says nothing   *)
(* of the calls that are under way; the invariant counts what they owe:    *)
(* every answer that has come and is not in the store yet.                 *)

Unstored == {"streaming", "store"}
Owed == [c \in Calls |-> IF pc[c] \in Unstored THEN cost[c] ELSE 0]
Regular == mishaps = 0 /\ AllPriced /\ (config.ghost => config.persist)
KnownKinds == \A c \in Calls : pc[c] # "idle" => req[c] \in Kinds
AnswerInv == TypeOK /\ KnownKinds /\ (Regular => paid = recorded + Sum(Owed))

LEMMA OwedType == (TypeOK => Owed \in Amounts) /\ (TypeOK' => Owed' \in Amounts)
<1>1. 0 \in 0..TopCost
  BY PipelineConstants
<1>2. TypeOK => \A c \in Calls : cost[c] \in 0..TopCost
  BY DEF TypeOK
<1>3. TypeOK' => \A c \in Calls : cost'[c] \in 0..TopCost
  BY DEF TypeOK
<1> QED BY <1>1, <1>2, <1>3 DEF Owed, Amounts

\* In a regular run an answer is priced as it was paid, and kept.
LEMMA PricedAsPaid ==
  ASSUME TypeOK, KnownKinds, Regular, NEW c \in Calls, pc[c] = "store"
  PROVE  Priced(c) = cost[c] /\ ~UnknownBlocked(c) /\ ~Dropped(c)
<1>1. req[c].known \/ config.policy = "estimate"
  BY DEF KnownKinds, Regular, AllPriced
<1> QED BY <1>1 DEF Regular, Priced, UnknownBlocked, Dropped

\* A call that is begun keeps the metadata it was begun with until it is over.
LEMMA KindsStep ==
  ASSUME TypeOK, KnownKinds, [Next]_vars
  PROVE  KnownKinds'
<1> USE DEF TypeOK, KnownKinds
<1>1. ASSUME NEW c \in Calls, NEW kind \in Kinds, Begin(c, kind)  PROVE KnownKinds'
  BY <1>1 DEF Begin
<1>2. ASSUME NEW c \in Calls, Leave(c)  PROVE KnownKinds'
  BY <1>2 DEF Leave
<1>3. ASSUME NEW c \in Calls, pc[c] # "idle", \A d \in Calls \ {c} : pc'[d] = pc[d], req' = req
      PROVE  KnownKinds'
  BY <1>3
<1>4. ASSUME NEW c \in Calls, Step(c), ~Leave(c), \A kind \in Kinds : ~Begin(c, kind)
      PROVE  pc[c] # "idle" /\ (\A d \in Calls \ {c} : pc'[d] = pc[d]) /\ req' = req
  BY <1>4 DEF Step, Admitted, BudgetHasRoom, BudgetExceeded, NoAnswer, Answer, StreamEnds,
    StreamNeverConsumed, StoreNothing, StoreRecord, StoreFails, ToChecks, WithinMargin, Overrun,
    HookRaises, CallbackRaises, CheckContract, Return
<1>5. ASSUME NEW b \in Windowed, NewWindow(b)  PROVE KnownKinds'
  BY <1>5 DEF NewWindow
<1>6. CASE UNCHANGED vars
  BY <1>6 DEF vars
<1> QED BY <1>1, <1>2, <1>3, <1>4, <1>5, <1>6 DEF Next

\* A step that neither pays nor records, and changes nothing that is owed.
LEMMA NothingOwedAnew ==
  ASSUME TypeOK, NEW c \in Calls,
         \A d \in Calls \ {c} : pc'[d] = pc[d] /\ cost'[d] = cost[d],
         \/ pc[c] \notin Unstored /\ pc'[c] \notin Unstored
         \/ pc[c] \in Unstored /\ pc'[c] \in Unstored /\ cost'[c] = cost[c]
  PROVE  Owed' = Owed
BY DEF Owed

LEMMA AnswerStep ==
  ASSUME TypeOK, TypeOK', KnownKinds, Regular, Regular', paid = recorded + Sum(Owed), [Next]_vars
  PROVE  paid' = recorded' + Sum(Owed)'
<1>0. /\ Owed \in Amounts /\ Owed' \in Amounts
      /\ paid \in Nat /\ recorded \in Nat /\ Sum(Owed) \in Nat
  BY OwedType, SumType DEF TypeOK
<1> DEFINE Balanced == paid' = recorded' + Sum(Owed)'
<1>a. ASSUME Owed' = Owed, paid' = paid, recorded' = recorded  PROVE Balanced
  BY <1>a DEF Sum, Heap
<1>b. ASSUME NEW c \in Calls, \A d \in Calls \ {c} : Owed'[d] = Owed[d]
      PROVE  Sum(Owed)' = Sum(Owed) - Owed[c] + Owed'[c]
  <2>1. Sum(Owed)' = Sum(Owed')
    BY DEF Sum, Heap
  <2> QED BY <1>0, <1>b, <2>1, SumOfChange
<1>1. ASSUME NEW c \in Calls, NEW kind \in Kinds, Begin(c, kind)  PROVE Balanced
  BY <1>a, <1>1, NothingOwedAnew DEF Begin, TypeOK, Unstored
<1>2. ASSUME NEW c \in Calls, NEW b \in Budgets, BudgetHasRoom(c, b)  PROVE Balanced
  BY <1>a, <1>2, NothingOwedAnew DEF BudgetHasRoom, Unstored
<1>3. ASSUME NEW c \in Calls, NEW b \in Budgets, BudgetExceeded(c, b)  PROVE Balanced
  BY <1>a, <1>3, NothingOwedAnew DEF BudgetExceeded, Leave, TypeOK, Unstored
<1>4. ASSUME NEW c \in Calls, NoAnswer(c)  PROVE Balanced
  BY <1>a, <1>4, NothingOwedAnew DEF NoAnswer, Admitted, Leave, TypeOK, Unstored
<1>5. ASSUME NEW c \in Calls, NEW amount \in Costs, Answer(c, amount)  PROVE Balanced
  <2>1. /\ pc[c] = "check" /\ pc'[c] \in Unstored /\ cost'[c] = amount
        /\ \A d \in Calls \ {c} : pc'[d] = pc[d] /\ cost'[d] = cost[d]
        /\ paid' = paid + amount /\ recorded' = recorded
    BY <1>5 DEF Answer, Admitted, TypeOK, Unstored
  <2>2. Owed[c] = 0 /\ Owed'[c] = amount /\ \A d \in Calls \ {c} : Owed'[d] = Owed[d]
    BY <2>1 DEF Owed, Unstored
  <2>3. amount \in Nat
    BY PipelineConstants
  <2> QED BY <1>0, <1>b, <2>1, <2>2, <2>3
<1>6. ASSUME NEW c \in Calls, StreamEnds(c)  PROVE Balanced
  BY <1>a, <1>6, NothingOwedAnew DEF StreamEnds, TypeOK, Unstored
<1>7. ASSUME NEW c \in Calls, StreamNeverConsumed(c)  PROVE FALSE
  BY <1>7 DEF StreamNeverConsumed, Regular, TypeOK
<1>8. ASSUME NEW c \in Calls, StoreNothing(c)  PROVE FALSE
  BY <1>8, PricedAsPaid DEF StoreNothing
<1>9. ASSUME NEW c \in Calls, StoreRecord(c)  PROVE Balanced
  <2>1. /\ pc[c] = "store" /\ pc'[c] = "enforce" /\ recorded' = recorded + Priced(c)
        /\ \A d \in Calls \ {c} : pc'[d] = pc[d] /\ cost'[d] = cost[d]
        /\ paid' = paid
    BY <1>9 DEF StoreRecord, ToChecks, TypeOK
  <2>2. Priced(c) = cost[c] /\ cost[c] \in 0..TopCost
    BY <2>1, PricedAsPaid DEF TypeOK
  <2>3. Owed[c] = cost[c] /\ Owed'[c] = 0 /\ \A d \in Calls \ {c} : Owed'[d] = Owed[d]
    BY <2>1 DEF Owed, Unstored
  <2>4. cost[c] \in Nat
    BY <2>2, PipelineConstants
  <2> QED BY <1>0, <1>b, <2>1, <2>2, <2>3, <2>4
<1>10. ASSUME NEW c \in Calls, StoreFails(c)  PROVE FALSE
  BY <1>10 DEF StoreFails, Regular, TypeOK
<1>11. ASSUME NEW c \in Calls, HookRaises(c) \/ Return(c)  PROVE Balanced
  BY <1>a, <1>11, NothingOwedAnew DEF HookRaises, Return, Leave, TypeOK, Unstored
<1>12. ASSUME NEW c \in Calls, NEW b \in Budgets, WithinMargin(c, b) \/ CallbackRaises(c, b)
       PROVE  Balanced
  BY <1>a, <1>12, NothingOwedAnew DEF WithinMargin, CallbackRaises, Unstored
<1>13. ASSUME NEW c \in Calls, NEW b \in Budgets, Overrun(c, b)  PROVE Balanced
  <2>1. /\ pc[c] = "enforce" /\ pc'[c] \in {"enforce", "idle"}
        /\ \A d \in Calls \ {c} : pc'[d] = pc[d] /\ cost'[d] = cost[d]
    BY <1>13 DEF Overrun, Leave, TypeOK
  <2>2. Owed' = Owed
    BY <2>1, NothingOwedAnew DEF Unstored
  <2> QED BY <1>a, <1>13, <2>2 DEF Overrun
<1>14. ASSUME NEW c \in Calls, CheckContract(c)  PROVE Balanced
  BY <1>a, <1>14, NothingOwedAnew DEF CheckContract, Unstored
<1>15. ASSUME NEW b \in Windowed, NewWindow(b)  PROVE Balanced
  BY <1>a, <1>15 DEF NewWindow, Owed
<1>16. ASSUME UNCHANGED vars  PROVE Balanced
  BY <1>a, <1>16 DEF vars, Owed
<1> HIDE DEF Balanced
<1>17. ASSUME NEW c \in Calls, Step(c)  PROVE Balanced
  BY <1>1, <1>2, <1>3, <1>4, <1>5, <1>6, <1>7, <1>8, <1>9, <1>10, <1>11, <1>12, <1>13, <1>14,
     <1>17 DEF Step
<1>18. Balanced
  BY <1>15, <1>16, <1>17 DEF Next
<1> QED BY <1>18 DEF Balanced

\* A run that has been regular so far was regular before its last step.
LEMMA RegularBefore == ASSUME TypeOK, [Next]_vars, Regular' PROVE Regular
<1>1. config' = config
  BY ConfigFixed
<1>2. mishaps' = 0 => mishaps = 0
  BY DEF TypeOK, Next, Step, vars, Begin, BudgetHasRoom, BudgetExceeded, NoAnswer, Answer,
    StreamEnds, StreamNeverConsumed, StoreNothing, StoreRecord, StoreFails, ToChecks,
    WithinMargin, Overrun, HookRaises, CallbackRaises, CheckContract, Return, NewWindow
<1> QED BY <1>1, <1>2 DEF Regular, AllPriced

\* Between calls every answer the provider was paid for is in a record, once,
\* however many calls interleave (EveryAnswerRecorded).
THEOREM AnswersAreRecorded == Spec => []EveryAnswerRecorded
<1>1. Init => AnswerInv
  <2> SUFFICES ASSUME Init PROVE AnswerInv
    OBVIOUS
  <2>1. TypeOK /\ KnownKinds /\ paid = 0 /\ recorded = 0 /\ \A c \in Calls : Owed[c] = 0
    BY TypeInit DEF Init, KnownKinds, Owed, Unstored
  <2> QED BY <2>1, SumType DEF AnswerInv
<1>2. AnswerInv /\ [Next]_vars => AnswerInv'
  <2> SUFFICES ASSUME AnswerInv, [Next]_vars PROVE AnswerInv'
    OBVIOUS
  <2>1. TypeOK /\ TypeOK' /\ KnownKinds /\ KnownKinds'
    BY TypeStep, KindsStep DEF AnswerInv
  <2>2. Regular' => Regular
    BY <2>1, RegularBefore
  <2> QED BY <2>1, <2>2, AnswerStep DEF AnswerInv
<1>3. AnswerInv => EveryAnswerRecorded
  <2> SUFFICES ASSUME AnswerInv, Quiet, Regular PROVE recorded = paid
    BY DEF EveryAnswerRecorded, Regular
  <2>1. \A c \in Calls : Owed[c] = 0
    BY DEF Quiet, Owed, Unstored
  <2> QED BY <2>1, SumType DEF AnswerInv, TypeOK
<1> QED BY <1>1, <1>2, <1>3, PTL DEF Spec

-----------------------------------------------------------------------------
(* Contracts.  A record goes past the contracts one by one while others    *)
(* are stored and checked.  Up to the first breached contract, what a      *)
(* contract has been charged with and what the calls before it still bring *)
(* make up the store.                                                      *)

Unraised == mishaps = 0 /\ ~raised /\ (config.strict => config.ghost)
Unbreached(k) == \A j \in 1..(k - 1) : charged[j] <= MaxCost[j]
Due(k) == [c \in Calls |-> IF pc[c] = "enforce" /\ at[c] <= k THEN cost[c] ELSE 0]
ChargedOrDue(k) == charged[k] + Sum(Due(k)) = recorded
LooksAtNone == ~config.strict => \A c \in Calls : pc[c] = "enforce" => left[c] = {}
ContractInv ==
  /\ TypeOK /\ LooksAtNone
  /\ Unraised => \A k \in 1..Contracts : Unbreached(k) => ChargedOrDue(k)

LEMMA DueType ==
  ASSUME NEW k
  PROVE  (TypeOK => Due(k) \in Amounts) /\ (TypeOK' => Due(k)' \in Amounts)
<1>1. 0 \in 0..TopCost
  BY PipelineConstants
<1>2. TypeOK => \A c \in Calls : cost[c] \in 0..TopCost
  BY DEF TypeOK
<1>3. TypeOK' => \A c \in Calls : cost'[c] \in 0..TopCost
  BY DEF TypeOK
<1> QED BY <1>1, <1>2, <1>3 DEF Due, Amounts

\* A ledger that is not strict holds no stored record against a budget.
LEMMA LooksAtNoneStep ==
  ASSUME TypeOK, LooksAtNone, [Next]_vars
  PROVE  LooksAtNone'
<1>0. config' = config
  BY ConfigFixed
<1> USE <1>0 DEF TypeOK, LooksAtNone
<1>1. ASSUME NEW c \in Calls, Leave(c)  PROVE LooksAtNone'
  BY <1>1 DEF Leave
<1>2. ASSUME NEW c \in Calls, NEW kind \in Kinds, Begin(c, kind)  PROVE LooksAtNone'
  BY <1>2 DEF Begin
<1>3. ASSUME NEW c \in Calls, ToChecks(c)  PROVE LooksAtNone'
  BY <1>3 DEF ToChecks, ToEnforce
<1>4. ASSUME NEW c \in Calls, \A d \in Calls : pc'[d] = "enforce" => pc[d] = "enforce",
             \A d \in Calls : left'[d] \subseteq left[d]
      PROVE  LooksAtNone'
  BY <1>4
<1>5. ASSUME NEW c \in Calls, Step(c), ~Leave(c), ~ToChecks(c), \A kind \in Kinds : ~Begin(c, kind)
      PROVE  LooksAtNone'
  <2>1. \/ pc' = pc
        \/ \E phase \in {"streaming", "store"} : pc' = [pc EXCEPT ![c] = phase]
    BY <1>5 DEF Step, BudgetHasRoom, BudgetExceeded, NoAnswer, Answer,
      StreamEnds, StreamNeverConsumed, StoreNothing, StoreRecord, StoreFails, WithinMargin,
      Overrun, HookRaises, CallbackRaises, CheckContract, Return
  <2>2. left' = left \/ \E rest \in SUBSET left[c] : left' = [left EXCEPT ![c] = rest]
    BY <1>5 DEF Step, BudgetHasRoom, AfterRoom, BudgetExceeded, NoAnswer, Answer,
      StreamEnds, StreamNeverConsumed, StoreNothing, StoreRecord, StoreFails, WithinMargin,
      Overrun, HookRaises, CallbackRaises, CheckContract, Return
  <2> QED BY <1>4, <2>1, <2>2
<1>6. ASSUME NEW b \in Windowed, NewWindow(b)  PROVE LooksAtNone'
  BY <1>6 DEF NewWindow
<1>7. CASE UNCHANGED vars
  BY <1>7 DEF vars
<1> QED BY <1>1, <1>2, <1>3, <1>5, <1>6, <1>7 DEF Next

\* A step of a call that is not at its checks before or after, or that goes on
\* with them at the same contract, leaves what is due.
LEMMA NothingDueAnew ==
  ASSUME TypeOK, NEW c \in Calls, NEW k,
         \/ /\ pc[c] # "enforce" /\ pc'[c] # "enforce"
            /\ \A d \in Calls \ {c} : pc'[d] = pc[d] /\ cost'[d] = cost[d] /\ at'[d] = at[d]
         \/ UNCHANGED <<pc, cost, at>>
  PROVE  Due(k)' = Due(k)
BY DEF Due

LEMMA DueStep ==
  ASSUME TypeOK, TypeOK', LooksAtNone, Unraised, Unraised', [Next]_vars,
         NEW k \in 1..Contracts, Unbreached(k), Unbreached(k)', ChargedOrDue(k)
  PROVE  ChargedOrDue(k)'
<1>0. /\ Due(k) \in Amounts /\ Due(k)' \in Amounts /\ Contracts \in Nat
      /\ charged[k] \in Nat /\ recorded \in Nat /\ Sum(Due(k)) \in Nat
  BY DueType, SumType, PipelineConstants DEF TypeOK
<1>a. ASSUME Due(k)' = Due(k), charged' = charged, recorded' = recorded  PROVE ChargedOrDue(k)'
  BY <1>a DEF ChargedOrDue, Sum, Heap
<1>b. ASSUME NEW c \in Calls, \A d \in Calls \ {c} : Due(k)'[d] = Due(k)[d]
      PROVE  Sum(Due(k))' = Sum(Due(k)) - Due(k)[c] + Due(k)'[c]
  <2>1. Sum(Due(k))' = Sum(Due(k)')
    BY DEF Sum, Heap
  <2> QED BY <1>0, <1>b, <2>1, SumOfChange
<1>1. ASSUME NEW c \in Calls, NEW kind \in Kinds, Begin(c, kind)  PROVE ChargedOrDue(k)'
  BY <1>a, <1>1, NothingDueAnew DEF Begin, TypeOK
<1>2. ASSUME NEW c \in Calls, NEW b \in Budgets, BudgetHasRoom(c, b)  PROVE ChargedOrDue(k)'
  BY <1>a, <1>2, NothingDueAnew DEF BudgetHasRoom
<1>3. ASSUME NEW c \in Calls, NEW b \in Budgets, BudgetExceeded(c, b)  PROVE ChargedOrDue(k)'
  BY <1>a, <1>3, NothingDueAnew DEF BudgetExceeded, Leave, TypeOK
<1>4. ASSUME NEW c \in Calls, NoAnswer(c)  PROVE ChargedOrDue(k)'
  BY <1>a, <1>4, NothingDueAnew DEF NoAnswer, Admitted, Leave, TypeOK
<1>5. ASSUME NEW c \in Calls, NEW amount \in Costs, Answer(c, amount)  PROVE ChargedOrDue(k)'
  BY <1>a, <1>5, NothingDueAnew DEF Answer, Admitted, TypeOK
<1>6. ASSUME NEW c \in Calls, StreamEnds(c)  PROVE ChargedOrDue(k)'
  BY <1>a, <1>6, NothingDueAnew DEF StreamEnds, TypeOK
<1>7. ASSUME NEW c \in Calls, StreamNeverConsumed(c) \/ StoreNothing(c)  PROVE ChargedOrDue(k)'
  BY <1>a, <1>7, NothingDueAnew DEF StreamNeverConsumed, StoreNothing, Leave, TypeOK
<1>8. ASSUME NEW c \in Calls, StoreRecord(c)  PROVE ChargedOrDue(k)'
  <2>1. /\ pc[c] = "store" /\ pc'[c] = "enforce" /\ at'[c] = 1 /\ cost'[c] = Priced(c)
        /\ recorded' = recorded + Priced(c) /\ charged' = charged
        /\ \A d \in Calls \ {c} : pc'[d] = pc[d] /\ cost'[d] = cost[d] /\ at'[d] = at[d]
    BY <1>8 DEF StoreRecord, ToChecks, TypeOK
  <2>2. Due(k)[c] = 0 /\ Due(k)'[c] = Priced(c) /\ \A d \in Calls \ {c} : Due(k)'[d] = Due(k)[d]
    BY <1>0, <2>1 DEF Due
  <2>3. Priced(c) \in Nat
    BY PricedType, PipelineConstants
  <2> QED BY <1>0, <1>b, <2>1, <2>2, <2>3 DEF ChargedOrDue
<1>9. ASSUME NEW c \in Calls, StoreFails(c) \/ HookRaises(c)  PROVE FALSE
  BY <1>9 DEF StoreFails, HookRaises, Unraised, TypeOK
<1>10. ASSUME NEW c \in Calls, NEW b \in Budgets, WithinMargin(c, b)  PROVE ChargedOrDue(k)'
  BY <1>a, <1>10, NothingDueAnew DEF WithinMargin
<1>11. ASSUME NEW c \in Calls, NEW b \in Budgets, CallbackRaises(c, b)  PROVE ChargedOrDue(k)'
  BY <1>a, <1>11, NothingDueAnew DEF CallbackRaises
<1>12. ASSUME NEW c \in Calls, NEW b \in Budgets, Overrun(c, b)  PROVE ChargedOrDue(k)'
  <2>1. config.ghost
    BY <1>12 DEF Overrun, LooksAtNone, Unraised
  <2> QED BY <1>a, <1>12, <2>1, NothingDueAnew DEF Overrun
<1>13. ASSUME NEW c \in Calls, CheckContract(c)  PROVE ChargedOrDue(k)'
  <2>1. /\ pc[c] = "enforce" /\ at[c] \in 1..Contracts /\ cost[c] \in Nat
        /\ charged' = [j \in 1..Contracts |-> IF j = at[c] THEN charged[j] + cost[c] ELSE charged[j]]
        /\ at'[c] = IF charged'[at[c]] > MaxCost[at[c]] THEN Contracts + 1 ELSE at[c] + 1
        /\ \A d \in Calls \ {c} : at'[d] = at[d]
        /\ UNCHANGED <<pc, cost, recorded>>
    BY <1>13, PipelineConstants DEF CheckContract, AddedToContract, TypeOK
  <2>2. \A d \in Calls \ {c} : Due(k)'[d] = Due(k)[d]
    BY <2>1 DEF Due
  <2>3. CASE at[c] = k
    <3>1. Due(k)[c] = cost[c] /\ Due(k)'[c] = 0 /\ charged'[k] = charged[k] + cost[c]
      BY <1>0, <2>1, <2>3 DEF Due
    <3> QED BY <1>0, <1>b, <2>1, <2>2, <3>1 DEF ChargedOrDue
  <2>4. CASE at[c] > k
    <3>1. Due(k)[c] = 0 /\ Due(k)'[c] = 0 /\ charged'[k] = charged[k]
      BY <1>0, <2>1, <2>4 DEF Due
    <3> QED BY <1>0, <1>b, <2>1, <2>2, <3>1 DEF ChargedOrDue
  <2>5. CASE at[c] < k
    <3>1. at[c] \in 1..(k - 1)
      BY <1>0, <2>1, <2>5
    <3>2. charged'[at[c]] <= MaxCost[at[c]] /\ charged'[at[c]] \in Nat /\ MaxCost[at[c]] \in Nat
      BY <2>1, <3>1, PipelineConstants DEF Unbreached, TypeOK
    <3>3. at'[c] = at[c] + 1 /\ at'[c] <= k
      BY <2>1, <2>5, <3>2
    <3>4. Due(k)[c] = cost[c] /\ Due(k)'[c] = cost[c] /\ charged'[k] = charged[k]
      BY <1>0, <2>1, <2>5, <3>3 DEF Due
    <3> QED BY <1>0, <1>b, <2>1, <2>2, <3>4 DEF ChargedOrDue
  <2> QED BY <2>1, <2>3, <2>4, <2>5
<1>14. ASSUME NEW c \in Calls, Return(c)  PROVE ChargedOrDue(k)'
  <2>1. /\ at[c] > Contracts /\ pc'[c] = "idle" /\ UNCHANGED <<charged, recorded>>
        /\ \A d \in Calls \ {c} : pc'[d] = pc[d] /\ cost'[d] = cost[d] /\ at'[d] = at[d]
    BY <1>14 DEF Return, Leave, TypeOK
  <2>2. at[c] \in Nat /\ ~(at[c] <= k)
    BY <1>0, <2>1 DEF TypeOK
  <2>3. Due(k)' = Due(k)
    BY <2>1, <2>2 DEF Due
  <2> QED BY <1>a, <2>1, <2>3
<1>15. ASSUME NEW b \in Windowed, NewWindow(b)  PROVE ChargedOrDue(k)'
  BY <1>a, <1>15 DEF NewWindow, Due
<1>16. CASE UNCHANGED vars
  BY <1>a, <1>16 DEF vars, Due
<1>17. ASSUME NEW c \in Calls, Step(c)  PROVE ChargedOrDue(k)'
  BY <1>1, <1>2, <1>3, <1>4, <1>5, <1>6, <1>7, <1>8, <1>9, <1>10, <1>11, <1>12, <1>13, <1>14,
     <1>17 DEF Step
<1> QED BY <1>15, <1>16, <1>17 DEF Next

\* A contract that is breached stays so, for charges are only ever added; and
\* what made a run irregular is not forgotten.
LEMMA BreachesStay ==
  ASSUME TypeOK, TypeOK', [Next]_vars
  PROVE  /\ \A k \in 1..Contracts : Unbreached(k)' => Unbreached(k)
         /\ Unraised' => Unraised
<1>1. \A j \in 1..Contracts : charged[j] <= charged'[j]
  <2>1. ASSUME NEW c \in Calls, CheckContract(c)  PROVE \A j \in 1..Contracts : charged[j] <= charged'[j]
    <3>1. cost[c] \in Nat /\ \A j \in 1..Contracts : charged[j] \in Nat
      BY PipelineConstants DEF TypeOK
    <3> QED BY <2>1, <3>1 DEF CheckContract, AddedToContract
  <2>2. (\A c \in Calls : ~CheckContract(c)) => charged' = charged
    BY DEF Next, Step, vars, Begin, BudgetHasRoom, BudgetExceeded, NoAnswer, Answer, StreamEnds,
      StreamNeverConsumed, StoreNothing, StoreRecord, StoreFails, ToChecks, WithinMargin, Overrun,
      HookRaises, CallbackRaises, Return, NewWindow
  <2>3. \A j \in 1..Contracts : charged[j] \in Nat
    BY DEF TypeOK
  <2> QED BY <2>1, <2>2, <2>3
<1>2. ASSUME NEW k \in 1..Contracts, Unbreached(k)'  PROVE Unbreached(k)
  <2> SUFFICES ASSUME NEW j \in 1..(k - 1) PROVE charged[j] <= MaxCost[j]
    BY DEF Unbreached
  <2>1. j \in 1..Contracts /\ charged'[j] <= MaxCost[j] /\ MaxCost[j] \in Nat
    BY <1>2, PipelineConstants DEF Unbreached
  <2>2. charged[j] \in Nat /\ charged'[j] \in Nat
    BY <2>1 DEF TypeOK
  <2> QED BY <1>1, <2>1, <2>2
<1>3. Unraised' => Unraised
  <2>1. config' = config /\ (raised => raised')
    BY ConfigFixed, RaisedStays
  <2>2. mishaps' = 0 => mishaps = 0
    BY DEF TypeOK, Next, Step, vars, Begin, BudgetHasRoom, BudgetExceeded, NoAnswer, Answer,
      StreamEnds, StreamNeverConsumed, StoreNothing, StoreRecord, StoreFails, ToChecks,
      WithinMargin, Overrun, HookRaises, CallbackRaises, CheckContract, Return, NewWindow
  <2> QED BY <2>1, <2>2 DEF Unraised
<1> QED BY <1>2, <1>3

\* Between calls every contract up to the first breached one has been charged
\* with every record, in whatever order calls reached it (ContractsChargedAlike).
THEOREM ContractsSeeTheStore == Spec => []ContractsChargedAlike
<1>1. Init => ContractInv
  <2> SUFFICES ASSUME Init PROVE ContractInv
    OBVIOUS
  <2>1. TypeOK /\ LooksAtNone /\ recorded = 0 /\ \A k \in 1..Contracts : charged[k] = 0
    BY TypeInit DEF Init, LooksAtNone
  <2>2. \A k : \A c \in Calls : Due(k)[c] = 0
    BY DEF Init, Due
  <2>3. \A k : Sum(Due(k)) = 0
    BY <2>2, SumType
  <2> QED BY <2>1, <2>3 DEF ContractInv, ChargedOrDue
<1>2. ContractInv /\ [Next]_vars => ContractInv'
  <2> SUFFICES ASSUME ContractInv, [Next]_vars PROVE ContractInv'
    OBVIOUS
  <2>1. TypeOK /\ TypeOK' /\ LooksAtNone /\ LooksAtNone'
    BY TypeStep, LooksAtNoneStep DEF ContractInv
  <2>2. ASSUME Unraised', NEW k \in 1..Contracts, Unbreached(k)'  PROVE ChargedOrDue(k)'
    <3>1. Unraised /\ Unbreached(k)
      BY <2>1, <2>2, BreachesStay
    <3>2. ChargedOrDue(k)
      BY <3>1 DEF ContractInv
    <3> QED BY <2>1, <2>2, <3>1, <3>2, DueStep
  <2> QED BY <2>1, <2>2 DEF ContractInv
<1>3. ContractInv => ContractsChargedAlike
  <2> SUFFICES ASSUME ContractInv, Quiet, Unraised, NEW k \in 1..Contracts, Unbreached(k)
               PROVE  charged[k] = recorded
    BY DEF ContractsChargedAlike, Unraised, Unbreached
  <2>1. Sum(Due(k)) = 0
    <3>1. \A c \in Calls : Due(k)[c] = 0
      BY DEF Quiet, Due
    <3> QED BY <3>1, SumType
  <2>2. charged[k] \in Nat /\ ChargedOrDue(k)
    BY DEF ContractInv, TypeOK
  <2> QED BY <2>1, <2>2 DEF ChargedOrDue
<1> QED BY <1>1, <1>2, <1>3, PTL DEF Spec
=============================================================================
