---------------------------- MODULE BudgetProofs ----------------------------
(***************************************************************************)
(* Theorems about two ways to spend.  Wallet, for any number of threads    *)
(* and any amounts: its types, that top-ups add up, how far an overdraft   *)
(* can go, and that the low-balance alarm fires once.  BudgetScopes, for   *)
(* any budgets, requests, prices and calendar: that every reader of a      *)
(* spend finds the same, that what is charged was checked, and that spend  *)
(* falls only when its window rolls over.                                  *)
(***************************************************************************)
EXTENDS Wallet, BudgetScopes, FiniteSetTheorems, TLAPS

USE DEF Goto

-----------------------------------------------------------------------------
(* Types *)

LEMMA TypeInit == Init => TypeOK
<1> SUFFICES ASSUME Init PROVE TypeOK
  OBVIOUS
<1>1. {calm, raced, stillLow, repeated} \subseteq BOOLEAN /\ alerted \in BOOLEAN
  BY DEF Init
<1>2. /\ pc \in [Threads -> Phases] /\ seen \in [Threads -> Nat]
      /\ goal \in [Threads -> Nat] /\ low \in [Threads -> BOOLEAN]
  BY DEF Init, Phases
<1>3. /\ limit \in Nat /\ spend \in Nat /\ ops \in 0..MaxOps /\ added \in Nat
      /\ peak \in Nat /\ fired \in Nat
  BY WalletConstants DEF Init
<1> QED BY <1>1, <1>2, <1>3 DEF TypeOK

\* Every step keeps the types.
LEMMA TypeStep == TypeOK /\ [Next]_vars => TypeOK'
<1> SUFFICES ASSUME TypeOK, [Next]_vars PROVE TypeOK'
  OBVIOUS
<1> USE WalletConstants DEF TypeOK, Phases
<1>1. ASSUME NEW t \in Threads, NEW phase \in {"debit", "refill", "reset"}, Begin(t, phase)
      PROVE  TypeOK'
  BY <1>1 DEF Begin, core
<1>2. ASSUME NEW t \in Threads, NEW from \in Phases, NEW to \in Phases, ReadLimit(t, from, to)
      PROVE  TypeOK'
  BY <1>2 DEF ReadLimit, core, history
<1>3. ASSUME NEW t \in Threads, NEW est \in Estimates, Approve(t, est) \/ Exhausted(t, est)
      PROVE  TypeOK'
  <2>1. Below(seen[t] - spend - est, seen[t]) \in BOOLEAN
    BY DEF Below
  <2> QED BY <1>3, <2>1 DEF Approve, Exhausted, core, history
<1>4. ASSUME NEW t \in Threads, TestAlarm(t) PROVE TypeOK'
  BY <1>4 DEF TestAlarm, core
<1>5. ASSUME NEW t \in Threads, Fire(t) PROVE TypeOK'
  <2>1. Below(limit - spend, limit) \in BOOLEAN
    BY DEF Below
  <2> QED BY <1>5, <2>1 DEF Fire
<1>6. ASSUME NEW t \in Threads, NEW cost \in Costs, Record(t, cost) PROVE TypeOK'
  <2>1. cost \in Nat /\ spend + cost \in Nat
    OBVIOUS
  <2> QED BY <1>6, <2>1 DEF Record, StaysLow
<1>7. ASSUME NEW t \in Threads, NEW amount \in Amounts, TopUp(t, amount) PROVE TypeOK'
  <2>1. amount \in Nat /\ NewLimit(t, amount) \in Nat
    BY DEF NewLimit
  <2> QED BY <1>7, <2>1 DEF TopUp, SetLimit, StaysLow
<1>8. ASSUME NEW t \in Threads, Weigh(t) PROVE TypeOK'
  BY <1>8 DEF Weigh, core, history
<1>9. ASSUME NEW t \in Threads, RefillRearms(t) \/ ResetRearms(t) PROVE TypeOK'
  <2>1. /\ alerted' = FALSE /\ fired' = 0 /\ pc' = [pc EXCEPT ![t] = "idle"]
        /\ seen' = [seen EXCEPT ![t] = 0] /\ goal' = [goal EXCEPT ![t] = 0]
        /\ UNCHANGED <<limit, spend, low, ops, added, peak, calm, raced, repeated>>
    BY <1>9 DEF RefillRearms, ResetRearms, Rearm
  <2>2. stillLow' \in BOOLEAN
    BY <1>9 DEF RefillRearms, ResetRearms
  <2> QED BY <2>1, <2>2
<1>10. ASSUME NEW t \in Threads, SetAgain(t) PROVE TypeOK'
  BY <1>10 DEF SetAgain, SetLimit, StaysLow, LimitKept
<1>11. CASE NewWindow
  BY <1>11 DEF NewWindow, StaysLow, local
<1>12. CASE UNCHANGED vars
  BY <1>12 DEF vars, core, local, history
<1> QED
  BY <1>1, <1>2, <1>3, <1>4, <1>5, <1>6, <1>7, <1>8, <1>9, <1>10, <1>11, <1>12 DEF Next, Step

\* Every variable of the wallet keeps its type, whatever its threads do.
THEOREM WalletTypeCorrect == Spec => []TypeOK
BY TypeInit, TypeStep, PTL DEF Spec

-----------------------------------------------------------------------------
(* Top-ups add up *)

Writing == {"top-up", "re-set"}
InRange(amount) == FirstLimit <= amount /\ amount <= FirstLimit + added

\* A limit that is about to be written back is within the range, and up to
\* date as long as only one thread at a time tops the wallet up.
RangeInv ==
  /\ InRange(limit)
  /\ \A t \in Threads : pc[t] \in Writing => InRange(seen[t])
CalmInv ==
  calm => /\ limit = FirstLimit + added
          /\ \A t \in Threads : pc[t] \in Writing => seen[t] = limit
          /\ \A t, u \in Threads : pc[t] \in ToppingUp /\ pc[u] \in ToppingUp => t = u
TopUpInv == RangeInv /\ CalmInv

\* A step that leaves the limit and what is about to be written alone, and
\* lets nobody begin to top up.
LEMMA NoTopUp ==
  ASSUME TopUpInv, UNCHANGED <<limit, added, calm>>,
         \A t \in Threads : pc'[t] \in Writing => pc[t] \in Writing /\ seen'[t] = seen[t],
         \A t \in Threads : pc'[t] \in ToppingUp => pc[t] \in ToppingUp
  PROVE  TopUpInv'
BY DEF TopUpInv, RangeInv, CalmInv, InRange

LEMMA TopUpStep == TypeOK /\ TopUpInv /\ [Next]_vars => TopUpInv'
<1> SUFFICES ASSUME TypeOK, TopUpInv, [Next]_vars PROVE TopUpInv'
  OBVIOUS
<1> USE WalletConstants DEF Writing, ToppingUp
<1>0. /\ pc \in [Threads -> Phases] /\ seen \in [Threads -> Nat]
      /\ limit \in Nat /\ added \in Nat /\ FirstLimit \in Nat
  BY DEF TypeOK
<1>1. ASSUME NEW t \in Threads, NEW phase \in {"debit", "refill", "reset"}, Begin(t, phase)
      PROVE  TopUpInv'
  <2>1. /\ pc' = [pc EXCEPT ![t] = phase] /\ UNCHANGED <<limit, seen, added>>
        /\ calm' => calm /\ (phase = "debit" \/ \A o \in Others(t) : pc[o] \notin ToppingUp)
    BY <1>1 DEF Begin, core
  <2>2. RangeInv'
    BY <1>0, <2>1 DEF TopUpInv, RangeInv, InRange
  <2>3. CalmInv'
    BY <1>0, <2>1 DEF TopUpInv, CalmInv, Others
  <2> QED BY <2>2, <2>3 DEF TopUpInv
<1>2. ASSUME NEW t \in Threads, NEW from \in {"debit", "refill", "reread", "reset"},
             NEW to \in Phases, ReadLimit(t, from, to), to \in ToppingUp => from \in ToppingUp
      PROVE  TopUpInv'
  <2>1. /\ pc[t] = from /\ pc' = [pc EXCEPT ![t] = to] /\ seen' = [seen EXCEPT ![t] = limit]
        /\ UNCHANGED <<limit, added, calm>>
    BY <1>2 DEF ReadLimit, core, history
  <2>2. RangeInv'
    BY <1>0, <2>1 DEF TopUpInv, RangeInv, InRange
  <2>3. CalmInv'
    BY <1>0, <1>2, <2>1 DEF TopUpInv, CalmInv
  <2> QED BY <2>2, <2>3 DEF TopUpInv
<1>3. ASSUME NEW t \in Threads, NEW amount \in Amounts, TopUp(t, amount) PROVE TopUpInv'
  <2>1. /\ pc[t] = "top-up" /\ pc' = [pc EXCEPT ![t] = "reread"] /\ seen' = seen
        /\ limit' = seen[t] + amount /\ added' = added + amount /\ calm' = calm
    BY <1>3 DEF TopUp, SetLimit, NewLimit
  <2>2. amount \in Nat
    OBVIOUS
  <2>3. InRange(seen[t]) /\ (calm => seen[t] = limit)
    BY <2>1 DEF TopUpInv, RangeInv, CalmInv
  <2>4. RangeInv'
    BY <1>0, <2>1, <2>2, <2>3 DEF TopUpInv, RangeInv, InRange
  <2>5. CalmInv'
    <3>1. calm => \A u \in Threads : pc[u] \in ToppingUp => u = t
      BY <2>1 DEF TopUpInv, CalmInv
    <3>2. calm => \A u \in Threads : pc'[u] \in ToppingUp => u = t
      BY <1>0, <2>1, <3>1
    <3>3. pc'[t] \notin Writing
      BY <1>0, <2>1
    <3>4. calm' => limit' = FirstLimit + added'
      BY <1>0, <2>1, <2>2, <2>3 DEF TopUpInv, CalmInv
    <3> QED BY <2>1, <3>2, <3>3, <3>4 DEF CalmInv
  <2> QED BY <2>4, <2>5 DEF TopUpInv
<1>4. ASSUME NEW t \in Threads, SetAgain(t) PROVE TopUpInv'
  <2>1. /\ pc[t] = "re-set" /\ pc' = [pc EXCEPT ![t] = "re-arm"]
        /\ limit' = seen[t] /\ UNCHANGED <<seen, added, calm>>
    BY <1>4 DEF SetAgain, SetLimit, LimitKept
  <2>2. InRange(seen[t]) /\ (calm => seen[t] = limit)
    BY <2>1 DEF TopUpInv, RangeInv, CalmInv
  <2>3. RangeInv'
    BY <1>0, <2>1, <2>2 DEF TopUpInv, RangeInv, InRange
  <2>4. CalmInv'
    BY <1>0, <2>1, <2>2 DEF TopUpInv, CalmInv
  <2> QED BY <2>3, <2>4 DEF TopUpInv
<1>5. ASSUME NEW t \in Threads, NEW to \in Phases \ Writing,
             pc' = [pc EXCEPT ![t] = to], to \in ToppingUp => pc[t] \in ToppingUp,
             UNCHANGED <<limit, added, calm>>, \A u \in Threads \ {t} : seen'[u] = seen[u]
      PROVE  TopUpInv'
  <2>1. \A u \in Threads : pc'[u] = IF u = t THEN to ELSE pc[u]
    BY <1>0, <1>5
  <2> QED BY <1>5, <2>1, NoTopUp
<1>6. ASSUME NEW t \in Threads, NEW est \in Estimates, Approve(t, est) PROVE TopUpInv'
  BY <1>5, <1>6 DEF Approve, core, history, Phases
<1>7. ASSUME NEW t \in Threads, NEW est \in Estimates, Exhausted(t, est) PROVE TopUpInv'
  BY <1>0, <1>5, <1>7 DEF Exhausted, core, history, Phases
<1>8. ASSUME NEW t \in Threads, TestAlarm(t) PROVE TopUpInv'
  <2>1. CASE AlarmDue(t)
    BY <1>5, <1>8, <2>1 DEF TestAlarm, core, Phases
  <2>2. CASE ~AlarmDue(t)
    BY <1>5, <1>8, <2>2 DEF TestAlarm, core, Phases
  <2> QED BY <2>1, <2>2
<1>9. ASSUME NEW t \in Threads, Fire(t) PROVE TopUpInv'
  BY <1>5, <1>9 DEF Fire, Phases
<1>10. ASSUME NEW t \in Threads, NEW cost \in Costs, Record(t, cost) PROVE TopUpInv'
  BY <1>0, <1>5, <1>10 DEF Record, Phases
<1>11. ASSUME NEW t \in Threads, Weigh(t) PROVE TopUpInv'
  <2>1. CASE Recovered(t)
    BY <1>5, <1>11, <2>1 DEF Weigh, core, history, Phases
  <2>2. CASE ~Recovered(t)
    BY <1>0, <1>5, <1>11, <2>2 DEF Weigh, core, history, Phases
  <2> QED BY <2>1, <2>2
<1>12. ASSUME NEW t \in Threads, RefillRearms(t) \/ ResetRearms(t) PROVE TopUpInv'
  <2>1. /\ pc' = [pc EXCEPT ![t] = "idle"] /\ seen' = [seen EXCEPT ![t] = 0]
        /\ UNCHANGED <<limit, added, calm>>
    BY <1>12 DEF RefillRearms, ResetRearms, Rearm
  <2> QED BY <1>0, <1>5, <2>1 DEF Phases
<1>13. CASE UNCHANGED <<limit, added, calm, pc, seen>>
  BY <1>13, NoTopUp
<1>14. CASE NewWindow \/ UNCHANGED vars
  BY <1>13, <1>14 DEF NewWindow, vars, core, local, history
<1>15. ASSUME NEW t \in Threads, Step(t) PROVE TopUpInv'
  BY <1>1, <1>2, <1>3, <1>4, <1>6, <1>7, <1>8, <1>9, <1>10, <1>11, <1>12, <1>15 DEF Step, Phases
<1> QED BY <1>14, <1>15 DEF Next

\* The limit is the first one plus every refill while top-ups do not overlap,
\* and never less than the first nor more than that sum (refill, reset).
THEOREM RefillsAddUp == Spec => []TopUpsAddUp
<1>1. Init => TopUpInv
  BY WalletConstants
  DEF Init, TopUpInv, RangeInv, CalmInv, InRange, Writing, ToppingUp
<1>2. TypeOK /\ TopUpInv => TopUpsAddUp
  BY WalletConstants
  DEF TypeOK, TopUpInv, RangeInv, CalmInv, InRange, TopUpsAddUp
<1> QED BY <1>1, <1>2, TopUpStep, WalletTypeCorrect, PTL DEF Spec

-----------------------------------------------------------------------------
(* Overdrafts are bounded *)

\* The threads whose debit was approved and whose record is not charged yet.
Approved == {t \in Threads : pc[t] \in {"test", "fire", "record"}}
Debts == Cardinality(Approved)
Places == Cardinality(Threads)

\* What is spent, with the largest record for each approved debit.
WithinPromise == spend + Debts * TopCost <= peak + Places * TopCost
\* No limit a debit may be approved against exceeds the highest there was.
PeakInv == limit <= peak /\ \A t \in Threads : seen[t] <= peak
OverdraftInv == PeakInv /\ WithinPromise

\* A product with a larger natural number is no smaller.
LEMMA ProductMonotone ==
  ASSUME NEW m \in Nat, NEW n \in Nat, m <= n
  PROVE  m * TopCost <= n * TopCost /\ m * TopCost \in Nat /\ n * TopCost \in Nat
BY WalletConstants

LEMMA DebtsBounded ==
  /\ IsFiniteSet(Approved) /\ Debts \in Nat /\ Places \in Nat /\ Debts <= Places
  /\ Debts * TopCost <= Places * TopCost /\ Debts * TopCost \in Nat /\ Places * TopCost \in Nat
<1>1. Approved \in SUBSET Threads /\ IsFiniteSet(Threads)
  BY WalletConstants DEF Approved
<1>2. IsFiniteSet(Approved) /\ Debts \in Nat /\ Places \in Nat /\ Debts <= Places
  BY <1>1, FS_Subset, FS_CardinalityType DEF Debts, Places
<1> QED BY <1>2, ProductMonotone

LEMMA DebtsBoundedNext ==
  /\ Debts' \in Nat /\ Debts' * TopCost <= Places * TopCost
  /\ Debts' * TopCost \in Nat /\ Places * TopCost \in Nat
<1>1. Approved' \in SUBSET Threads /\ IsFiniteSet(Threads)
  BY WalletConstants DEF Approved
<1>2. Debts' \in Nat /\ Places \in Nat /\ Debts' <= Places
  BY <1>1, FS_Subset, FS_CardinalityType DEF Debts, Places
<1> QED BY <1>2, ProductMonotone

\* No more debts and no more spend: the bound stays.
LEMMA NoNewDebt ==
  ASSUME TypeOK, TypeOK', WithinPromise,
         Approved' \subseteq Approved, spend' <= spend, peak' >= peak
  PROVE  WithinPromise'
<1>1. IsFiniteSet(Approved) /\ Debts \in Nat /\ Debts * TopCost \in Nat /\ Places * TopCost \in Nat
  BY DebtsBounded
<1>2. Debts' \in Nat /\ Debts' <= Debts
  BY <1>1, FS_Subset, FS_CardinalityType DEF Debts
<1>3. Debts' * TopCost <= Debts * TopCost /\ Debts' * TopCost \in Nat
  BY <1>1, <1>2, ProductMonotone
<1>4. spend \in Nat /\ spend' \in Nat /\ peak \in Nat /\ peak' \in Nat
  BY DEF TypeOK
<1> QED BY <1>1, <1>3, <1>4 DEF WithinPromise, Places

\* The spend is within the limit that was read when a debit is approved.
LEMMA DebtMade ==
  ASSUME TypeOK, TypeOK', PeakInv, NEW t \in Threads, NEW est \in Estimates, Approve(t, est)
  PROVE  WithinPromise'
<1>1. spend' \in Nat /\ peak' \in Nat /\ spend' <= peak'
  <2>1. est \in Nat /\ seen[t] \in Nat /\ spend \in Nat /\ peak \in Nat
    BY WalletConstants DEF TypeOK
  <2>2. est <= seen[t] - spend /\ seen[t] <= peak /\ UNCHANGED <<spend, peak>>
    BY DEF Approve, Affordable, PeakInv, core, history
  <2> QED BY <2>1, <2>2
<1>2. Places' = Places
  BY DEF Places
<1> QED BY <1>1, <1>2, DebtsBoundedNext DEF WithinPromise

\* The record that follows a debit pays for it.
LEMMA DebtPaid ==
  ASSUME TypeOK, TypeOK', WithinPromise, NEW t \in Threads, NEW cost \in Costs, Record(t, cost)
  PROVE  WithinPromise'
<1>1. pc[t] = "record" /\ pc' = [pc EXCEPT ![t] = "idle"] /\ spend' = spend + cost /\ peak' = peak
  BY DEF Record
<1>2. t \in Approved /\ Approved' = Approved \ {t}
  BY <1>1 DEF Approved, TypeOK
<1>3. Debts \in Nat /\ Debts' = Debts - 1 /\ Debts' \in Nat
  <2>1. IsFiniteSet(Approved) /\ Debts \in Nat
    BY DebtsBounded
  <2>2. Debts' = Debts - 1
    BY <1>2, <2>1, FS_RemoveElement DEF Debts
  <2>3. Debts # 0
    BY <1>2, <2>1, FS_EmptySet DEF Debts
  <2> QED BY <2>1, <2>2, <2>3
<1>4. cost \in Nat /\ cost <= TopCost /\ TopCost \in Nat
  BY WalletConstants
<1>5. Debts * TopCost = Debts' * TopCost + TopCost
      /\ Debts * TopCost \in Nat /\ Debts' * TopCost \in Nat
  BY <1>3, <1>4
<1>6. Places * TopCost \in Nat /\ Places' = Places
  BY DebtsBounded DEF Places
<1>7. spend \in Nat /\ peak \in Nat
  BY DEF TypeOK
<1> QED BY <1>1, <1>4, <1>5, <1>6, <1>7 DEF WithinPromise

LEMMA OverdraftStep == TypeOK /\ OverdraftInv /\ [Next]_vars /\ TypeOK' => OverdraftInv'
<1> SUFFICES ASSUME TypeOK, TypeOK', PeakInv, WithinPromise, [Next]_vars PROVE OverdraftInv'
  BY DEF OverdraftInv
<1>0. /\ pc \in [Threads -> Phases] /\ seen \in [Threads -> Nat]
      /\ limit \in Nat /\ peak \in Nat /\ spend \in Nat
  BY DEF TypeOK
<1>1. ASSUME NEW t \in Threads, NEW to \in Phases, pc' = [pc EXCEPT ![t] = to],
             to \in {"test", "fire", "record"} => pc[t] \in {"test", "fire", "record"},
             UNCHANGED <<limit, peak, spend>>,
             \A u \in Threads : seen'[u] \in {seen[u], limit, 0}
      PROVE  OverdraftInv'
  <2>1. Approved' \subseteq Approved
    BY <1>0, <1>1 DEF Approved
  <2>2. PeakInv'
    BY <1>0, <1>1 DEF PeakInv
  <2> QED BY <1>0, <1>1, <2>1, <2>2, NoNewDebt DEF OverdraftInv
<1>2. ASSUME NEW t \in Threads, NEW phase \in {"debit", "refill", "reset"}, Begin(t, phase)
      PROVE  OverdraftInv'
  BY <1>0, <1>1, <1>2 DEF Begin, core, Phases
<1>3. ASSUME NEW t \in Threads, NEW from \in Phases,
             NEW to \in {"decide", "top-up", "weigh", "re-set"}, ReadLimit(t, from, to)
      PROVE  OverdraftInv'
  <2>1. pc' = [pc EXCEPT ![t] = to] /\ UNCHANGED <<limit, peak, spend>>
        /\ seen' = [seen EXCEPT ![t] = limit]
    BY <1>3 DEF ReadLimit, core, history
  <2> QED BY <1>0, <1>1, <2>1 DEF Phases
<1>4. ASSUME NEW t \in Threads, NEW est \in Estimates, Approve(t, est) PROVE OverdraftInv'
  <2>1. PeakInv'
    BY <1>4 DEF Approve, PeakInv, core, history
  <2> QED BY <1>4, <2>1, DebtMade DEF OverdraftInv
<1>5. ASSUME NEW t \in Threads, NEW est \in Estimates, Exhausted(t, est) PROVE OverdraftInv'
  <2>1. pc' = [pc EXCEPT ![t] = "idle"] /\ UNCHANGED <<limit, peak, spend>>
        /\ seen' = [seen EXCEPT ![t] = 0]
    BY <1>5 DEF Exhausted, core, history
  <2> QED BY <1>0, <1>1, <2>1 DEF Phases
<1>6. ASSUME NEW t \in Threads, TestAlarm(t) PROVE OverdraftInv'
  <2>1. PICK to \in {"fire", "record"} : pc' = [pc EXCEPT ![t] = to]
    BY <1>6 DEF TestAlarm
  <2> QED BY <1>1, <1>6, <2>1 DEF TestAlarm, core, Phases
<1>7. ASSUME NEW t \in Threads, Fire(t) PROVE OverdraftInv'
  BY <1>1, <1>7 DEF Fire, Phases
<1>8. ASSUME NEW t \in Threads, NEW cost \in Costs, Record(t, cost) PROVE OverdraftInv'
  <2>1. seen' = [seen EXCEPT ![t] = 0] /\ UNCHANGED <<limit, peak>>
    BY <1>8 DEF Record
  <2>2. PeakInv'
    BY <1>0, <2>1 DEF PeakInv
  <2> QED BY <1>8, <2>2, DebtPaid DEF OverdraftInv
<1>9. ASSUME NEW t \in Threads, NEW amount \in Amounts, TopUp(t, amount) PROVE OverdraftInv'
  <2>1. /\ pc[t] = "top-up" /\ pc' = [pc EXCEPT ![t] = "reread"] /\ seen' = seen /\ spend' = spend
        /\ peak' = IF limit' > peak THEN limit' ELSE peak
    BY <1>9 DEF TopUp, SetLimit
  <2>2. limit' \in Nat /\ peak' >= peak /\ limit' <= peak'
    BY <1>0, <2>1 DEF TypeOK
  <2>3. Approved' \subseteq Approved
    BY <1>0, <2>1 DEF Approved
  <2>4. PeakInv'
    BY <1>0, <2>1, <2>2 DEF PeakInv, TypeOK
  <2> QED BY <1>0, <2>1, <2>2, <2>3, <2>4, NoNewDebt DEF OverdraftInv
<1>10. ASSUME NEW t \in Threads, SetAgain(t) PROVE OverdraftInv'
  <2>1. /\ pc[t] = "re-set" /\ pc' = [pc EXCEPT ![t] = "re-arm"] /\ seen' = seen /\ spend' = spend
        /\ limit' = seen[t] /\ peak' = IF limit' > peak THEN limit' ELSE peak
    BY <1>10 DEF SetAgain, SetLimit, LimitKept
  <2>2. peak' = peak
    BY <1>0, <2>1 DEF PeakInv
  <2>3. Approved' \subseteq Approved
    BY <1>0, <2>1 DEF Approved
  <2>4. PeakInv'
    BY <2>1, <2>2 DEF PeakInv
  <2> QED BY <1>0, <2>1, <2>2, <2>3, <2>4, NoNewDebt DEF OverdraftInv
<1>11. ASSUME NEW t \in Threads, Weigh(t) PROVE OverdraftInv'
  <2>1. UNCHANGED <<limit, peak, spend>>
    BY <1>11 DEF Weigh, core, history
  <2>2. CASE Recovered(t)
    BY <1>1, <1>11, <2>1, <2>2 DEF Weigh, Phases
  <2>3. CASE ~Recovered(t)
    BY <1>0, <1>1, <1>11, <2>1, <2>3 DEF Weigh, Phases
  <2> QED BY <2>2, <2>3
<1>12. ASSUME NEW t \in Threads, RefillRearms(t) \/ ResetRearms(t) PROVE OverdraftInv'
  <2>1. /\ pc' = [pc EXCEPT ![t] = "idle"] /\ seen' = [seen EXCEPT ![t] = 0]
        /\ UNCHANGED <<limit, peak, spend>>
    BY <1>12 DEF RefillRearms, ResetRearms, Rearm
  <2> QED BY <1>0, <1>1, <2>1 DEF Phases
<1>13. CASE NewWindow
  <2>1. Approved' = Approved /\ PeakInv' /\ spend' = 0 /\ peak' = peak
    BY <1>13 DEF NewWindow, local, Approved, PeakInv
  <2> QED BY <1>0, <2>1, NoNewDebt DEF OverdraftInv
<1>14. CASE UNCHANGED vars
  <2>1. Approved' = Approved /\ PeakInv' /\ spend' = spend /\ peak' = peak
    BY <1>14 DEF vars, core, local, history, Approved, PeakInv
  <2> QED BY <1>0, <2>1, NoNewDebt DEF OverdraftInv
<1>15. ASSUME NEW t \in Threads, Step(t) PROVE OverdraftInv'
  BY <1>2, <1>3, <1>4, <1>5, <1>6, <1>7, <1>8, <1>9, <1>10, <1>11, <1>12, <1>15 DEF Step, Phases
<1> QED BY <1>13, <1>14, <1>15 DEF Next

\* However many debits are approved together, and against whatever limit they
\* read, the wallet is overdrawn by at most one largest record for each thread.
THEOREM OverdraftIsBounded == Spec => []OverdraftBounded
<1>1. Init => OverdraftInv
  <2> SUFFICES ASSUME Init PROVE OverdraftInv
    OBVIOUS
  <2>1. PeakInv
    BY WalletConstants DEF Init, PeakInv
  <2>2. spend = 0 /\ peak \in Nat
    BY WalletConstants DEF Init
  <2> QED BY <2>1, <2>2, DebtsBounded DEF OverdraftInv, WithinPromise
<1>2. TypeOK /\ OverdraftInv => OverdraftBounded
  <2> SUFFICES ASSUME TypeOK, WithinPromise PROVE OverdraftBounded
    BY DEF OverdraftInv
  <2>1. spend \in Nat /\ peak \in Nat
    BY DEF TypeOK
  <2> QED BY <2>1, DebtsBounded DEF WithinPromise, OverdraftBounded, Places
<1> QED BY <1>1, <1>2, OverdraftStep, WalletTypeCorrect, PTL DEF Spec

-----------------------------------------------------------------------------
(* The alarm fires once.  A thread on its way to fire is alone, and the    *)
(* alarm is armed; the balance can have stayed low since an alarm only     *)
(* while that alarm is still disarmed.  A refill that found the balance    *)
(* recovered knows this of the limit it has itself just written.           *)

Undisturbed == calm /\ ~raced
ArmedInv ==
  /\ alerted \/ fired = 0
  /\ fired <= 1 /\ ~repeated
  /\ stillLow => alerted /\ Below(limit - spend, limit)
  /\ \A t \in Threads : pc[t] = "fire" => ~alerted
  /\ \A t, u \in Threads : pc[t] = "fire" /\ pc[u] = "fire" => t = u
RefillerInv ==
  \A t \in Threads :
    /\ pc[t] \in {"reread", "weigh"} => goal[t] = limit
    /\ pc[t] = "weigh" => seen[t] = limit
    /\ pc[t] = "rearm" => ~stillLow
AlarmInv == Undisturbed => ArmedInv /\ RefillerInv

\* What has overlapped or raced is not forgotten.
LEMMA DisturbanceStays == ASSUME TypeOK, [Next]_vars, Undisturbed' PROVE Undisturbed
<1>1. calm' = calm \/ \E t \in Threads, phase \in {"debit", "refill", "reset"} : Begin(t, phase)
  BY DEF Next, Step, vars, history, ReadLimit, Approve, Exhausted, TestAlarm, Fire, Record, TopUp,
    SetLimit, Weigh, RefillRearms, SetAgain, ResetRearms, Rearm, NewWindow
<1>2. raced' = raced \/ \E t \in Threads : TestAlarm(t) \/ Fire(t)
  BY DEF Next, Step, vars, history, Begin, ReadLimit, Approve, Exhausted, Record, TopUp,
    SetLimit, Weigh, RefillRearms, SetAgain, ResetRearms, Rearm, NewWindow
<1>3. calm'
  BY DEF Undisturbed
<1>4. ~raced'
  BY DEF Undisturbed
<1>5. calm
  BY <1>1, <1>3 DEF Begin, TypeOK
<1>6. ~raced
  BY <1>2, <1>4 DEF TestAlarm, Fire, TypeOK
<1> QED BY <1>5, <1>6 DEF Undisturbed

\* A step of one thread that has nothing to do with the alarm.
LEMMA AlarmLeftAlone ==
  ASSUME ArmedInv, RefillerInv, TypeOK, NEW t \in Threads, NEW to \in Phases,
         pc' = [pc EXCEPT ![t] = to], to \notin {"fire", "reread", "weigh", "rearm"},
         UNCHANGED <<limit, alerted, fired, repeated>>,
         \/ UNCHANGED <<spend, stillLow>>
         \/ StaysLow(limit, spend'),
         \A u \in Threads \ {t} : seen'[u] = seen[u] /\ goal'[u] = goal[u]
  PROVE  ArmedInv' /\ RefillerInv'
<1>1. \A u \in Threads : pc'[u] = IF u = t THEN to ELSE pc[u]
  BY DEF TypeOK
<1>2. stillLow' => stillLow /\ (spend' = spend \/ Below(limit - spend', limit))
  BY DEF StaysLow
<1>3. ArmedInv'
  BY <1>1, <1>2 DEF ArmedInv
<1>4. RefillerInv'
  BY <1>1, <1>2 DEF RefillerInv
<1> QED BY <1>3, <1>4

LEMMA AlarmStep ==
  ASSUME TypeOK, TopUpInv, ArmedInv, RefillerInv, Undisturbed, Undisturbed', [Next]_vars
  PROVE  ArmedInv' /\ RefillerInv'
<1>0. /\ pc \in [Threads -> Phases] /\ seen \in [Threads -> Nat] /\ goal \in [Threads -> Nat]
      /\ limit \in Nat /\ spend \in Nat /\ fired \in Nat
  BY DEF TypeOK
<1>a. \A t, u \in Threads : pc[t] \in ToppingUp /\ pc[u] \in ToppingUp => t = u
  BY DEF TopUpInv, CalmInv, Undisturbed
<1>1. ASSUME NEW t \in Threads, NEW phase \in {"debit", "refill", "reset"}, Begin(t, phase)
      PROVE  ArmedInv' /\ RefillerInv'
  BY <1>1, AlarmLeftAlone DEF Begin, core, Phases
<1>2. ASSUME NEW t \in Threads, NEW from \in Phases, NEW to \in {"decide", "top-up", "re-set"},
             ReadLimit(t, from, to)
      PROVE  ArmedInv' /\ RefillerInv'
  BY <1>0, <1>2, AlarmLeftAlone DEF ReadLimit, core, history, Phases
<1>3. ASSUME NEW t \in Threads, ReadLimit(t, "reread", "weigh")
      PROVE  ArmedInv' /\ RefillerInv'
  <2>1. /\ pc[t] = "reread" /\ pc' = [pc EXCEPT ![t] = "weigh"] /\ seen' = [seen EXCEPT ![t] = limit]
        /\ UNCHANGED <<limit, spend, alerted, goal, fired, repeated, stillLow>>
    BY <1>3 DEF ReadLimit, core, history
  <2>2. ArmedInv'
    BY <1>0, <2>1 DEF ArmedInv
  <2>3. RefillerInv'
    BY <1>0, <2>1 DEF RefillerInv
  <2> QED BY <2>2, <2>3
<1>4. ASSUME NEW t \in Threads, NEW est \in Estimates, Approve(t, est) \/ Exhausted(t, est)
      PROVE  ArmedInv' /\ RefillerInv'
  <2>1. /\ \E to \in {"test", "idle"} : pc' = [pc EXCEPT ![t] = to]
        /\ UNCHANGED <<limit, spend, alerted, goal, fired, repeated, stillLow>>
        /\ \A u \in Threads \ {t} : seen'[u] = seen[u]
    BY <1>0, <1>4 DEF Approve, Exhausted, core, history
  <2> QED BY <2>1, AlarmLeftAlone DEF Phases
<1>5. ASSUME NEW t \in Threads, TestAlarm(t)  PROVE ArmedInv' /\ RefillerInv'
  <2>1. /\ pc[t] = "test" /\ pc' = [pc EXCEPT ![t] = IF AlarmDue(t) THEN "fire" ELSE "record"]
        /\ UNCHANGED <<limit, spend, alerted, goal, seen, fired, repeated, stillLow>>
    BY <1>5 DEF TestAlarm, core
  <2>2. CASE AlarmDue(t)
    <3>1. ~alerted /\ \A u \in Threads \ {t} : pc[u] # "fire"
      BY <1>5, <2>2 DEF TestAlarm, AlarmDue, Disturbed, Undisturbed, Others
    <3>2. \A u \in Threads : pc'[u] = IF u = t THEN "fire" ELSE pc[u]
      BY <1>0, <2>1, <2>2
    <3>3. ArmedInv'
      BY <2>1, <3>1, <3>2 DEF ArmedInv
    <3>4. RefillerInv'
      BY <2>1, <3>2 DEF RefillerInv
    <3> QED BY <3>3, <3>4
  <2>3. CASE ~AlarmDue(t)
    BY <2>1, <2>3, AlarmLeftAlone DEF Phases
  <2> QED BY <2>2, <2>3
<1>6. ASSUME NEW t \in Threads, Fire(t)  PROVE ArmedInv' /\ RefillerInv'
  <2>1. /\ pc[t] = "fire" /\ pc' = [pc EXCEPT ![t] = "record"] /\ alerted' = TRUE
        /\ fired' = fired + 1 /\ repeated' = (repeated \/ stillLow)
        /\ stillLow' = Below(limit - spend, limit)
        /\ UNCHANGED <<limit, spend, goal, seen>>
    BY <1>6 DEF Fire
  <2>2. \A u \in Threads \ {t} : pc[u] # "fire" /\ pc[u] \notin ToppingUp
    BY <1>6 DEF Fire, Disturbed, Undisturbed, Others
  <2>3. \A u \in Threads : pc'[u] = IF u = t THEN "record" ELSE pc[u]
    BY <1>0, <2>1
  <2>4. ~alerted /\ fired = 0 /\ ~stillLow /\ ~repeated
    BY <2>1 DEF ArmedInv
  <2>5. ArmedInv'
    <3>1. \A u \in Threads : pc'[u] # "fire"
      BY <2>2, <2>3
    <3>2. alerted' /\ ~repeated'
      BY <2>1, <2>4, Zenon
    <3>4. fired' <= 1
      BY <2>1, <2>4
    <3>3. stillLow' => Below(limit' - spend', limit')
      BY <2>1
    <3> QED BY <3>1, <3>2, <3>3, <3>4 DEF ArmedInv
  <2>6. RefillerInv'
    BY <2>2, <2>3 DEF RefillerInv, ToppingUp
  <2> QED BY <2>5, <2>6
<1>7. ASSUME NEW t \in Threads, NEW cost \in Costs, Record(t, cost)  PROVE ArmedInv' /\ RefillerInv'
  <2>1. /\ pc' = [pc EXCEPT ![t] = "idle"] /\ StaysLow(limit, spend')
        /\ UNCHANGED <<limit, alerted, goal, fired, repeated>>
        /\ \A u \in Threads \ {t} : seen'[u] = seen[u]
    BY <1>0, <1>7 DEF Record
  <2> QED BY <2>1, AlarmLeftAlone DEF Phases
<1>8. ASSUME NEW t \in Threads, NEW amount \in Amounts, TopUp(t, amount)
      PROVE  ArmedInv' /\ RefillerInv'
  <2>1. /\ pc[t] = "top-up" /\ pc' = [pc EXCEPT ![t] = "reread"]
        /\ goal' = [goal EXCEPT ![t] = limit'] /\ stillLow' = (stillLow /\ Below(limit' - spend, limit'))
        /\ UNCHANGED <<spend, alerted, seen, fired, repeated>>
    BY <1>8 DEF TopUp, SetLimit, StaysLow
  <2>2. \A u \in Threads : pc'[u] = IF u = t THEN "reread" ELSE pc[u]
    BY <1>0, <2>1
  <2>3. \A u \in Threads \ {t} : pc[u] \notin ToppingUp
    BY <1>a, <2>1 DEF ToppingUp
  <2>4. ArmedInv'
    <3>1. \A u \in Threads : pc'[u] = "fire" => pc[u] = "fire"
      BY <2>2
    <3>2. stillLow' => stillLow /\ Below(limit' - spend', limit')
      BY <2>1
    <3> QED BY <2>1, <3>1, <3>2 DEF ArmedInv
  <2>5. RefillerInv'
    BY <1>0, <2>1, <2>2, <2>3 DEF RefillerInv, ToppingUp
  <2> QED BY <2>4, <2>5
<1>9. ASSUME NEW t \in Threads, Weigh(t)  PROVE ArmedInv' /\ RefillerInv'
  <2>1. pc[t] = "weigh" /\ UNCHANGED <<limit, spend, alerted, fired, repeated, stillLow>>
    BY <1>9 DEF Weigh, core, history
  <2>2. CASE Recovered(t)
    <3>1. pc' = [pc EXCEPT ![t] = "rearm"] /\ UNCHANGED <<seen, goal>>
      BY <1>9, <2>2 DEF Weigh
    <3>2. \A u \in Threads : pc'[u] = IF u = t THEN "rearm" ELSE pc[u]
      BY <1>0, <3>1
    <3>3. ~stillLow
      <4>1. goal[t] = limit /\ seen[t] = limit
        BY <2>1 DEF RefillerInv
      <4> QED BY <2>2, <4>1 DEF Recovered, ArmedInv
    <3>4. ArmedInv'
      BY <2>1, <3>2 DEF ArmedInv
    <3>5. RefillerInv'
      BY <2>1, <3>1, <3>2, <3>3 DEF RefillerInv
    <3> QED BY <3>4, <3>5
  <2>3. CASE ~Recovered(t)
    <3>1. pc' = [pc EXCEPT ![t] = "idle"] /\ \A u \in Threads \ {t} : seen'[u] = seen[u] /\ goal'[u] = goal[u]
      BY <1>0, <1>9, <2>3 DEF Weigh
    <3> QED BY <2>1, <3>1, AlarmLeftAlone DEF Phases
  <2> QED BY <2>2, <2>3
<1>10. ASSUME NEW t \in Threads, RefillRearms(t) \/ ResetRearms(t)  PROVE ArmedInv' /\ RefillerInv'
  <2>1. /\ pc[t] \in {"rearm", "re-arm"} /\ pc' = [pc EXCEPT ![t] = "idle"]
        /\ alerted' = FALSE /\ fired' = 0 /\ UNCHANGED <<limit, spend, repeated>>
        /\ \A u \in Threads \ {t} : seen'[u] = seen[u] /\ goal'[u] = goal[u]
    BY <1>0, <1>10 DEF RefillRearms, ResetRearms, Rearm
  <2>2. ~stillLow'
    BY <1>10 DEF RefillRearms, ResetRearms, RefillerInv
  <2>3. \A u \in Threads : pc'[u] = IF u = t THEN "idle" ELSE pc[u]
    BY <1>0, <2>1
  <2>4. ArmedInv'
    BY <2>1, <2>2, <2>3 DEF ArmedInv
  <2>5. RefillerInv'
    BY <2>1, <2>2, <2>3 DEF RefillerInv
  <2> QED BY <2>4, <2>5
<1>11. ASSUME NEW t \in Threads, SetAgain(t)  PROVE ArmedInv' /\ RefillerInv'
  <2>1. /\ pc[t] = "re-set" /\ pc' = [pc EXCEPT ![t] = "re-arm"] /\ limit' = seen[t]
        /\ stillLow' = (stillLow /\ Below(limit' - spend, limit'))
        /\ UNCHANGED <<spend, alerted, seen, goal, fired, repeated>>
    BY <1>11 DEF SetAgain, SetLimit, LimitKept, StaysLow
  <2>2. limit' = limit
    BY <2>1 DEF TopUpInv, CalmInv, Undisturbed, Writing
  <2>3. StaysLow(limit, spend')
    BY <2>1, <2>2 DEF StaysLow
  <2> QED BY <2>1, <2>2, <2>3, AlarmLeftAlone DEF Phases
<1>12. CASE NewWindow
  <2>1. /\ stillLow' = (stillLow /\ Below(limit' - spend', limit'))
        /\ UNCHANGED <<limit, alerted, pc, seen, goal, fired, repeated>>
    BY <1>12 DEF NewWindow, StaysLow, local
  <2> QED BY <2>1 DEF ArmedInv, RefillerInv
<1>13. CASE UNCHANGED vars
  BY <1>13 DEF vars, core, local, history, ArmedInv, RefillerInv
<1>14. ASSUME NEW t \in Threads, Step(t)  PROVE ArmedInv' /\ RefillerInv'
  BY <1>1, <1>2, <1>3, <1>4, <1>5, <1>6, <1>7, <1>8, <1>9, <1>10, <1>11, <1>14 DEF Step, Phases
<1> QED BY <1>12, <1>13, <1>14 DEF Next

\* However many debits have tested the flag and not set it yet, each of them
\* fires once more and none can join them.
Firing == {t \in Threads : pc[t] = "fire"}
FiredInv ==
  /\ alerted \/ fired = 0
  /\ fired + Cardinality(Firing) <= Places

LEMMA FiringBounded ==
  /\ IsFiniteSet(Firing) /\ Cardinality(Firing) \in Nat
  /\ Places \in Nat /\ Cardinality(Firing) <= Places
<1>1. Firing \in SUBSET Threads /\ IsFiniteSet(Threads)
  BY WalletConstants DEF Firing
<1> QED BY <1>1, FS_Subset, FS_CardinalityType DEF Places

\* Nobody comes to fire, and the alarm and its count stay.
LEMMA FiringLeftAlone ==
  ASSUME TypeOK, FiredInv, Firing' \subseteq Firing, UNCHANGED <<alerted, fired>>
  PROVE  FiredInv'
<1>1. IsFiniteSet(Firing) /\ Cardinality(Firing) \in Nat
  BY FiringBounded
<1>2. Cardinality(Firing') \in Nat /\ Cardinality(Firing') <= Cardinality(Firing)
  BY <1>1, FS_Subset, FS_CardinalityType
<1>3. fired \in Nat /\ Places \in Nat /\ Places' = Places
  BY FiringBounded DEF TypeOK, Places
<1>4. fired' + Cardinality(Firing') <= Places'
  BY <1>1, <1>2, <1>3 DEF FiredInv
<1>5. alerted' \/ fired' = 0
  BY DEF FiredInv
<1> QED BY <1>4, <1>5 DEF FiredInv

LEMMA FiredStep == TypeOK /\ FiredInv /\ [Next]_vars => FiredInv'
<1> SUFFICES ASSUME TypeOK, FiredInv, [Next]_vars PROVE FiredInv'
  OBVIOUS
<1>0. pc \in [Threads -> Phases] /\ fired \in Nat
  BY DEF TypeOK
<1>1. ASSUME NEW t \in Threads, TestAlarm(t), AlarmDue(t) PROVE FiredInv'
  <2>1. ~alerted /\ UNCHANGED <<alerted, fired>>
    BY <1>1 DEF TestAlarm, AlarmDue, core
  <2>2. fired' = 0
    BY <2>1 DEF FiredInv
  <2>3. Firing' \in SUBSET Threads /\ IsFiniteSet(Threads)
    BY WalletConstants DEF Firing
  <2>4. Cardinality(Firing') \in Nat /\ Cardinality(Firing') <= Places' /\ Places' \in Nat
    BY <2>3, FS_Subset, FS_CardinalityType DEF Places
  <2>5. fired' + Cardinality(Firing') <= Places'
    BY <2>2, <2>4
  <2> QED BY <2>2, <2>5 DEF FiredInv
<1>2. ASSUME NEW t \in Threads, Fire(t) PROVE FiredInv'
  <2>1. pc[t] = "fire" /\ pc' = [pc EXCEPT ![t] = "record"] /\ alerted' = TRUE /\ fired' = fired + 1
    BY <1>2 DEF Fire
  <2>2. t \in Firing /\ Firing' = Firing \ {t}
    BY <1>0, <2>1 DEF Firing
  <2>3. IsFiniteSet(Firing) /\ Cardinality(Firing) \in Nat
    BY FiringBounded
  <2>4. Cardinality(Firing') = Cardinality(Firing) - 1
    BY <2>2, <2>3, FS_RemoveElement
  <2>5. Places \in Nat /\ Places' = Places
    BY FiringBounded DEF Places
  <2>6. fired' + Cardinality(Firing') <= Places'
    BY <1>0, <2>1, <2>3, <2>4, <2>5 DEF FiredInv
  <2> QED BY <2>1, <2>6 DEF FiredInv
<1>3. ASSUME NEW t \in Threads, Rearm(t) PROVE FiredInv'
  <2>1. alerted' = FALSE /\ fired' = 0
    BY <1>3 DEF Rearm
  <2>2. Firing' \in SUBSET Threads /\ IsFiniteSet(Threads)
    BY WalletConstants DEF Firing
  <2>3. Cardinality(Firing') \in Nat /\ Cardinality(Firing') <= Places' /\ Places' \in Nat
    BY <2>2, FS_Subset, FS_CardinalityType DEF Places
  <2>4. fired' + Cardinality(Firing') <= Places'
    BY <2>1, <2>3
  <2> QED BY <2>1, <2>4 DEF FiredInv
\* Every other step takes a thread to a phase other than "fire".
<1>4. ASSUME NEW t \in Threads, NEW to \in Phases \ {"fire"}, pc' = [pc EXCEPT ![t] = to],
             UNCHANGED <<alerted, fired>>
      PROVE  FiredInv'
  <2>1. Firing' \subseteq Firing
    BY <1>0, <1>4 DEF Firing
  <2> QED BY <1>4, <2>1, FiringLeftAlone
<1>5. ASSUME pc' = pc, UNCHANGED <<alerted, fired>> PROVE FiredInv'
  <2>1. Firing' \subseteq Firing
    BY <1>5 DEF Firing
  <2> QED BY <1>5, <2>1, FiringLeftAlone
<1>6. ASSUME NEW t \in Threads, NEW phase \in {"debit", "refill", "reset"}, Begin(t, phase)
      PROVE  FiredInv'
  BY <1>4, <1>6 DEF Begin, Goto, core, Phases
<1>7. ASSUME NEW t \in Threads, NEW from, NEW to \in {"decide", "top-up", "weigh", "re-set"},
             ReadLimit(t, from, to)
      PROVE  FiredInv'
  BY <1>4, <1>7 DEF ReadLimit, Goto, core, history, Phases
<1>8. ASSUME NEW t \in Threads, NEW est \in Estimates, Approve(t, est) \/ Exhausted(t, est)
      PROVE  FiredInv'
  BY <1>4, <1>8 DEF Approve, Exhausted, Goto, core, history, Phases
<1>9. ASSUME NEW t \in Threads, TestAlarm(t), ~AlarmDue(t) PROVE FiredInv'
  BY <1>4, <1>9 DEF TestAlarm, Goto, core, Phases
<1>10. ASSUME NEW t \in Threads, NEW cost \in Costs, Record(t, cost) PROVE FiredInv'
  BY <1>4, <1>10 DEF Record, Goto, Phases
<1>11. ASSUME NEW t \in Threads, NEW amount \in Amounts, TopUp(t, amount) PROVE FiredInv'
  BY <1>4, <1>11 DEF TopUp, SetLimit, Goto, Phases
<1>12. ASSUME NEW t \in Threads, Weigh(t) PROVE FiredInv'
  BY <1>4, <1>12 DEF Weigh, Goto, core, history, Phases
<1>13. ASSUME NEW t \in Threads, SetAgain(t) PROVE FiredInv'
  BY <1>4, <1>13 DEF SetAgain, SetLimit, Goto, Phases
<1>14. CASE NewWindow
  BY <1>5, <1>14 DEF NewWindow, local
<1>15. CASE UNCHANGED vars
  BY <1>5, <1>15 DEF vars, core, local, history
<1>16. ASSUME NEW t \in Threads, Step(t) PROVE FiredInv'
  BY <1>1, <1>2, <1>3, <1>6, <1>7, <1>8, <1>9, <1>10, <1>11, <1>12, <1>13, <1>16
  DEF Step, RefillRearms, ResetRearms
<1> QED BY <1>14, <1>15, <1>16 DEF Next

\* Between two re-armings the low-balance alarm fires at most once for each
\* thread; it fires once, and a refill that leaves the balance low does not make
\* it fire again, as long as top-ups do not overlap and nothing comes between
\* testing and setting the flag (AlarmOncePerLow; debit, refill and reset).
THEOREM AlarmFiresOnce == Spec => []AlarmOncePerLow
<1>1. Init => TopUpInv /\ AlarmInv
  BY WalletConstants
  DEF Init, TopUpInv, RangeInv, CalmInv, InRange, Writing, ToppingUp, AlarmInv, ArmedInv, RefillerInv
<1>2. TypeOK /\ TopUpInv /\ AlarmInv /\ [Next]_vars => (TopUpInv /\ AlarmInv)'
  BY TopUpStep, DisturbanceStays, AlarmStep DEF AlarmInv
<1>3. Init => FiredInv
  BY FiringBounded DEF Init, FiredInv
<1>4. TypeOK /\ AlarmInv /\ FiredInv => AlarmOncePerLow
  <2> SUFFICES ASSUME TypeOK, AlarmInv, FiredInv PROVE AlarmOncePerLow
    OBVIOUS
  <2>1. fired <= Cardinality(Threads)
    BY FiringBounded DEF FiredInv, TypeOK, Places
  <2>2. calm /\ ~raced => fired <= 1 /\ ~repeated
    BY DEF AlarmInv, ArmedInv, Undisturbed
  <2> QED BY <2>1, <2>2 DEF AlarmOncePerLow
<1> QED BY <1>1, <1>2, <1>3, <1>4, FiredStep, WalletTypeCorrect, PTL DEF Spec

-----------------------------------------------------------------------------
(* The scopes of budgets.  What a budget is charged with is the number of  *)
(* units of the records it counts, which grows by a record's cost when one *)
(* is stored.                                                              *)

Entry == [of : [Fields -> Ids], cost : Nat, day : Nat, billed : BOOLEAN]
UnitsOf(rs, S) == UNION {{i} \X (1..rs[i].cost) : i \in S}
Total(rs, S) == Cardinality(UnitsOf(rs, S))

LEMMA UnitOf ==
  ASSUME NEW rs, NEW S
  PROVE  \A u : u \in UnitsOf(rs, S) <=>
           u = <<u[1], u[2]>> /\ u[1] \in S /\ u[2] \in 1..rs[u[1]].cost
<1>1. ASSUME NEW u
      PROVE  u \in UnitsOf(rs, S) <=> \E i \in S : u \in {i} \X (1..rs[i].cost)
  BY DEF UnitsOf
<1> QED
  BY <1>1

\* Records cost finitely many units.
LEMMA UnitsFinite ==
  ASSUME NEW rs \in Seq(Entry), NEW S \in SUBSET DOMAIN rs
  PROVE  IsFiniteSet(UnitsOf(rs, S)) /\ Total(rs, S) \in Nat
<1> DEFINE of(i) == {i} \X (1..rs[i].cost)
           Families == {of(i) : i \in S}
<1>1. ASSUME NEW i \in S PROVE IsFiniteSet(of(i))
  <2>1. rs[i].cost \in Int
    <3>1. rs[i] \in Entry
      OBVIOUS
    <3> QED
      BY <3>1 DEF Entry
  <2>2. IsFiniteSet({i}) /\ IsFiniteSet(1..rs[i].cost)
    BY <2>1, 1 \in Int, FS_Singleton, FS_Interval
  <2> QED
    BY <2>2, FS_Product
<1>2. IsFiniteSet(S)
  <2>1. DOMAIN rs = 1..Len(rs) /\ Len(rs) \in Int
    OBVIOUS
  <2>2. IsFiniteSet(DOMAIN rs)
    BY <2>1, 1 \in Int, FS_Interval
  <2> QED
    BY <2>2, FS_Subset
<1>3. UnitsOf(rs, S) = UNION Families
  BY DEF UnitsOf
<1> HIDE DEF of
<1>4. IsFiniteSet(Families)
  <2> DEFINE f == [i \in S |-> of(i)]
  <2>1. f \in Surjection(S, Families)
    BY DEF Surjection
  <2> QED
    BY <1>2, <2>1, FS_Surjection
<1>5. \A x \in Families : IsFiniteSet(x)
  BY <1>1
<1> HIDE DEF Families
<1>6. IsFiniteSet(UnitsOf(rs, S))
  BY <1>3, <1>4, <1>5, FS_UNION
<1> QED
  BY <1>6, FS_CardinalityType DEF Total

\* More records cost no less.
LEMMA TotalMonotone ==
  ASSUME NEW rs \in Seq(Entry), NEW T \in SUBSET DOMAIN rs, NEW S \in SUBSET T
  PROVE  Total(rs, S) <= Total(rs, T)
<1>1. UnitsOf(rs, S) \in SUBSET UnitsOf(rs, T)
  BY DEF UnitsOf
<1>2. IsFiniteSet(UnitsOf(rs, T))
  BY UnitsFinite
<1> QED
  BY <1>1, <1>2, FS_Subset DEF Total

\* A record of cost k, whichever it is, costs k units.
LEMMA ColumnSize ==
  ASSUME NEW c, NEW k \in Nat
  PROVE  IsFiniteSet({c} \X (1..k)) /\ Cardinality({c} \X (1..k)) = k
<1>1. IsFiniteSet({c}) /\ Cardinality({c}) = 1
  BY FS_Singleton
<1>2. IsFiniteSet(1..k) /\ Cardinality(1..k) = k
  BY FS_Interval
<1>3. /\ IsFiniteSet({c} \X (1..k))
      /\ Cardinality({c} \X (1..k)) = Cardinality({c}) * Cardinality(1..k)
  BY <1>1, <1>2, FS_Product
<1> QED
  BY <1>1, <1>2, <1>3

\* A record that is appended adds its cost to what counts it, and nothing to
\* what does not.
LEMMA TotalOfAppend ==
  ASSUME NEW rs \in Seq(Entry), NEW e \in Entry, NEW S \in SUBSET DOMAIN rs
  PROVE  /\ Total(Append(rs, e), S) = Total(rs, S)
         /\ Total(Append(rs, e), S \cup {Len(rs) + 1}) = Total(rs, S) + e.cost
<1> DEFINE n == Len(rs) + 1
           more == Append(rs, e)
           Own == {n} \X (1..e.cost)
<1>1. /\ more \in Seq(Entry) /\ DOMAIN more = DOMAIN rs \cup {n} /\ n \notin DOMAIN rs
      /\ more[n] = e /\ \A i \in DOMAIN rs : more[i] = rs[i]
  OBVIOUS
<1>2. e.cost \in Nat
  BY DEF Entry
<1> HIDE DEF more, n
<1>3. UnitsOf(more, S) = UnitsOf(rs, S)
  <2>1. \A u : u \in UnitsOf(more, S) <=> u \in UnitsOf(rs, S)
    BY <1>1, UnitOf
  <2> QED
    BY <2>1
<1>4. UnitsOf(more, S \cup {n}) = UnitsOf(rs, S) \cup Own
  <2>1. \A u : u \in Own <=> u = <<u[1], u[2]>> /\ u[1] = n /\ u[2] \in 1..e.cost
    OBVIOUS
  <2>2. \A u : u \in UnitsOf(more, S \cup {n}) <=> u \in UnitsOf(rs, S) \/ u \in Own
    BY <1>1, <2>1, UnitOf
  <2> QED
    BY <2>2
<1>5. UnitsOf(rs, S) \cap Own = {}
  <2>1. \A u \in UnitsOf(rs, S) : u[1] \in DOMAIN rs
    BY UnitOf
  <2>2. \A u \in Own : u[1] = n
    OBVIOUS
  <2> QED
    BY <1>1, <2>1, <2>2
<1>6. IsFiniteSet(Own) /\ Cardinality(Own) = e.cost
  BY <1>2, ColumnSize
<1> HIDE DEF Own
<1>7. IsFiniteSet(UnitsOf(rs, S)) /\ Total(rs, S) \in Nat
  BY UnitsFinite
<1>8. Cardinality(UnitsOf(rs, S) \cup Own)
        = Cardinality(UnitsOf(rs, S)) + Cardinality(Own) - Cardinality(UnitsOf(rs, S) \cap Own)
  BY <1>6, <1>7, FS_Union
<1>9. Cardinality(UnitsOf(rs, S) \cap Own) = 0
  BY <1>5, FS_EmptySet
<1>10. Cardinality(UnitsOf(rs, S) \cup Own) = Total(rs, S) + e.cost
  BY <1>2, <1>6, <1>7, <1>8, <1>9 DEF Total
<1> QED
  BY <1>3, <1>4, <1>10 DEF Total, more, n

-----------------------------------------------------------------------------
(* Windows.                                                                *)

\* A bounded set of days that is not empty has a latest one.
LEMMA HighestDay ==
  ASSUME NEW d \in Nat, NEW S \in SUBSET (0..d), S # {}
  PROVE  Max(S) \in S /\ \A x \in S : x <= Max(S)
<1> DEFINE above(i) == {j \in S : j >= i}
           Tops == {above(i) : i \in S}
<1>1. IsFiniteSet(S)
  <2>1. IsFiniteSet(0..d)
    BY 0 \in Int, FS_Interval
  <2> QED
    BY <2>1, FS_Subset
<1>2. Tops \subseteq FiniteSubsetsOf(S) /\ Tops # {}
  <2>1. \A i \in S : above(i) \subseteq S /\ IsFiniteSet(above(i))
    BY <1>1, FS_Subset
  <2> HIDE DEF above
  <2> QED
    BY <2>1 DEF FiniteSubsetsOf
<1>3. IsWellFoundedOn(StrictSubsetOrdering(S), FiniteSubsetsOf(S))
  BY FS_StrictSubsetOrderingWellFounded
<1>4. PICK t \in Tops : \A u \in Tops : ~ (<<u, t>> \in StrictSubsetOrdering(S))
  <2> HIDE DEF Tops
  <2> QED
    BY <1>2, <1>3, WFMin
<1>5. PICK i \in S : t = above(i)
  BY <1>4
<1>6. ASSUME NEW j \in S, j > i PROVE FALSE
  <2>1. above(j) \in Tops
    OBVIOUS
  <2>2. above(j) \subseteq above(i) /\ i \in above(i) /\ i \notin above(j)
    <3>1. \A u \in S : u \in Int
      OBVIOUS
    <3>2. i \in Int /\ j \in Int /\ i >= i /\ ~(i >= j)
      BY <1>6, <3>1
    <3>3. \A u \in S : u >= j => u >= i
      BY <1>6, <3>1, <3>2
    <3> QED
      BY <3>2, <3>3
  <2>3. above(j) \subseteq S /\ above(i) \subseteq S
    OBVIOUS
  <2> HIDE DEF above
  <2>4. <<above(j), above(i)>> \in StrictSubsetOrdering(S)
    BY <2>2, <2>3 DEF StrictSubsetOrdering
  <2> QED
    BY <1>4, <1>5, <2>1, <2>4
<1>7. \A j \in S : i >= j
  BY <1>6
<1>8. /\ Max(S) \in S
      /\ \A j \in S : Max(S) >= j
  BY <1>7 DEF Max
<1> QED
  BY <1>8

\* A window begins at 0 or at a day that may begin one, and not after today.
LatestAt(days, d) == Max({x \in days : x <= d} \cup {0})

LEMMA LatestMonotone ==
  ASSUME NEW days \in SUBSET Nat, NEW d \in Nat
  PROVE  /\ LatestAt(days, d) \in Nat /\ LatestAt(days, d) <= LatestAt(days, d + 1)
         /\ (d + 1 \notin days => LatestAt(days, d) = LatestAt(days, d + 1))
<1> DEFINE upTo(n) == {x \in days : x <= n} \cup {0}
<1>0. \A x \in days : x \in Nat
  OBVIOUS
<1>1. upTo(d) \in SUBSET (0..d) /\ upTo(d + 1) \in SUBSET (0..(d + 1))
  <2>1. \A x \in upTo(d) : x \in 0..d
    BY <1>0
  <2>2. \A x \in upTo(d + 1) : x \in 0..(d + 1)
    BY <1>0
  <2> QED
    BY <2>1, <2>2
<1>2. upTo(d) # {} /\ upTo(d + 1) # {} /\ upTo(d) \subseteq upTo(d + 1)
  <2>1. \A x \in days : x <= d => x <= d + 1
    BY <1>0
  <2> QED
    BY <2>1
<1>3. d + 1 \notin days => upTo(d) = upTo(d + 1)
  <2>1. ASSUME d + 1 \notin days PROVE \A x \in days : x <= d <=> x <= d + 1
    BY <1>0, <2>1
  <2> QED
    BY <2>1
<1>4. LatestAt(days, d) = Max(upTo(d)) /\ LatestAt(days, d + 1) = Max(upTo(d + 1))
  BY DEF LatestAt
<1> HIDE DEF upTo
<1>5. Max(upTo(d)) \in upTo(d) /\ \A x \in upTo(d) : x <= Max(upTo(d))
  BY <1>1, <1>2, HighestDay
<1>6. Max(upTo(d + 1)) \in upTo(d + 1) /\ \A x \in upTo(d + 1) : x <= Max(upTo(d + 1))
  <2>1. d + 1 \in Nat
    OBVIOUS
  <2> QED
    BY <2>1, <1>1, <1>2, HighestDay
<1> QED
  BY <1>1, <1>2, <1>3, <1>4, <1>5, <1>6

\* Midnight moves a window forward, and moves it only where it rolls over.
LEMMA WindowMoves ==
  ASSUME day \in Nat
  PROVE  /\ \A c : WindowStart(c) \in Nat
         /\ day' = day => \A c : WindowStart(c)' = WindowStart(c)
         /\ day' = day + 1 => \A c : WindowStart(c)' \in Nat /\ WindowStart(c) <= WindowStart(c)'
         /\ day' = day + 1 =>
              \A b : ~RollsOver(b) => WindowStart(b.cycle)' = WindowStart(b.cycle)
<1>1. Mondays \in SUBSET Nat /\ Firsts \in SUBSET Nat
  BY ScopeConstants
<1>2. Latest(Mondays) = LatestAt(Mondays, day) /\ Latest(Firsts) = LatestAt(Firsts, day)
  BY DEF Latest, LatestAt
<1>3. Latest(Mondays)' = LatestAt(Mondays, day') /\ Latest(Firsts)' = LatestAt(Firsts, day')
  BY DEF Latest, LatestAt
<1>4. Latest(Mondays) \in Nat /\ Latest(Firsts) \in Nat
  BY <1>1, <1>2, LatestMonotone
<1>5. ASSUME day' = day + 1
      PROVE  /\ Latest(Mondays)' \in Nat /\ Latest(Firsts)' \in Nat
             /\ Latest(Mondays) <= Latest(Mondays)' /\ Latest(Firsts) <= Latest(Firsts)'
             /\ day + 1 \notin Mondays => Latest(Mondays)' = Latest(Mondays)
             /\ day + 1 \notin Firsts => Latest(Firsts)' = Latest(Firsts)
  <2>1. day + 1 \in Nat
    OBVIOUS
  <2> QED
    BY <1>1, <1>2, <1>3, <1>5, <2>1, LatestMonotone
<1>6. \A c : WindowStart(c) \in Nat
  BY <1>4 DEF WindowStart
<1>7. day' = day => \A c : WindowStart(c)' = WindowStart(c)
  BY <1>2, <1>3 DEF WindowStart
<1>8. day' = day + 1 => \A c : WindowStart(c)' \in Nat /\ WindowStart(c) <= WindowStart(c)'
  BY <1>4, <1>5 DEF WindowStart
<1>9. ASSUME day' = day + 1, NEW b, ~RollsOver(b)
      PROVE  WindowStart(b.cycle)' = WindowStart(b.cycle)
  <2>1. /\ b.cycle # "daily"
        /\ b.cycle = "weekly" => day + 1 \notin Mondays
        /\ b.cycle \notin {"never", "daily", "weekly"} => day + 1 \notin Firsts
    BY <1>9 DEF RollsOver
  <2> QED
    BY <1>5, <1>9, <2>1 DEF WindowStart
<1> QED
  BY <1>6, <1>7, <1>8, <1>9

-----------------------------------------------------------------------------
(* What a budget is charged with, and from what it is read.                *)

Counts(r, start, b) == r.billed /\ r.day >= start /\ MatchesScope(r.of, b.scope, b.id)
Counted(rs, start, b) == {i \in DOMAIN rs : Counts(rs[i], start, b)}
ChargedTo(rs, k) == {i \in DOMAIN rs : rs[i].billed /\ k \in TotalKeys(rs[i].of)}

ScopeTypeOK ==
  /\ rules \subseteq Rules /\ records \in Seq(Entry) /\ day \in Nat
  /\ totals \in [Keys -> Nat] /\ indexed \in BOOLEAN

\* The running totals have been kept since the first record, for every key.
TotalsComplete == \A k \in Keys : totals[k] = Total(records, ChargedTo(records, k))
ScopeInv == ScopeTypeOK /\ TotalsComplete

LEMMA SpendIs ==
  ASSUME NEW b
  PROVE  /\ TrueSpend(b) = Total(records, Counted(records, WindowStart(b.cycle), b))
         /\ TrueSpend(b)' = Total(records', Counted(records', WindowStart(b.cycle)', b))
<1>1. {i \in InWindow(b) : MatchesScope(records[i].of, b.scope, b.id)}
        = Counted(records, WindowStart(b.cycle), b)
  BY DEF InWindow, Counted, Counts
<1>2. {i \in InWindow(b)' : MatchesScope(records'[i].of, b.scope, b.id)}
        = Counted(records', WindowStart(b.cycle)', b)
  BY DEF InWindow, Counted, Counts
<1> QED
  BY <1>1, <1>2 DEF TrueSpend, CostOf, Units, UnitsOf, Total

\* One more record.
LEMMA CountedOfAppend ==
  ASSUME NEW rs \in Seq(Entry), NEW e \in Entry, NEW start, NEW b
  PROVE  Total(Append(rs, e), Counted(Append(rs, e), start, b))
           = Total(rs, Counted(rs, start, b)) + IF Counts(e, start, b) THEN e.cost ELSE 0
<1> DEFINE more == Append(rs, e)
           n == Len(rs) + 1
           S == Counted(rs, start, b)
<1>1. /\ DOMAIN more = DOMAIN rs \cup {n} /\ n \notin DOMAIN rs
      /\ more[n] = e /\ \A i \in DOMAIN rs : more[i] = rs[i]
  OBVIOUS
<1>2. S \in SUBSET DOMAIN rs
  BY DEF Counted
<1>3. e.cost \in Nat
  BY DEF Entry
<1>4. /\ Total(more, S) = Total(rs, S) /\ Total(more, S \cup {n}) = Total(rs, S) + e.cost
      /\ Total(rs, S) \in Nat
  BY <1>2, TotalOfAppend, UnitsFinite
<1> HIDE DEF more, n
<1>5. Counted(more, start, b) = IF Counts(e, start, b) THEN S \cup {n} ELSE S
  BY <1>1 DEF Counted
<1> HIDE DEF S
<1>6. Total(more, Counted(more, start, b))
        = Total(rs, S) + IF Counts(e, start, b) THEN e.cost ELSE 0
  BY <1>3, <1>4, <1>5
<1> QED
  BY <1>6 DEF more, S

LEMMA ChargedOfAppend ==
  ASSUME NEW rs \in Seq(Entry), NEW e \in Entry, NEW k
  PROVE  Total(Append(rs, e), ChargedTo(Append(rs, e), k))
           = Total(rs, ChargedTo(rs, k))
               + IF e.billed /\ k \in TotalKeys(e.of) THEN e.cost ELSE 0
<1> DEFINE more == Append(rs, e)
           n == Len(rs) + 1
           S == ChargedTo(rs, k)
<1>1. /\ DOMAIN more = DOMAIN rs \cup {n} /\ n \notin DOMAIN rs
      /\ more[n] = e /\ \A i \in DOMAIN rs : more[i] = rs[i]
  OBVIOUS
<1>2. S \in SUBSET DOMAIN rs
  BY DEF ChargedTo
<1>3. e.cost \in Nat
  BY DEF Entry
<1>4. /\ Total(more, S) = Total(rs, S) /\ Total(more, S \cup {n}) = Total(rs, S) + e.cost
      /\ Total(rs, S) \in Nat
  BY <1>2, TotalOfAppend, UnitsFinite
<1> HIDE DEF more, n
<1>5. ChargedTo(more, k) = IF e.billed /\ k \in TotalKeys(e.of) THEN S \cup {n} ELSE S
  BY <1>1 DEF ChargedTo
<1> HIDE DEF S
<1>6. Total(more, ChargedTo(more, k))
        = Total(rs, S) + IF e.billed /\ k \in TotalKeys(e.of) THEN e.cost ELSE 0
  BY <1>3, <1>4, <1>5
<1> QED
  BY <1>6 DEF more, S

\* For a budget that means something the running totals, the scan and the
\* query agree on every record.
LEMMA SameRecords ==
  ASSUME NEW b \in Rules, Proper(b), NEW r \in [Fields -> Ids]
  PROVE  /\ Selected(r, b.scope, b.id) <=> MatchesScope(r, b.scope, b.id)
         /\ b.scope # "user_project" =>
              (Key(b) \in TotalKeys(r) <=> MatchesScope(r, b.scope, b.id))
<1>1. b.scope \in Scopes /\ b.id \notin {None, Empty, Blank} /\ (b.scope = "global" => b.id = All)
  BY ScopeConstants DEF Proper
<1>2. b.scope \in Fields \/ b.scope = "global" \/ b.scope = "user_project"
  BY <1>1 DEF Scopes
<1>3. "global" \notin Fields /\ "user_project" \notin Fields
  BY DEF Fields, Required, Optional
<1>4. CASE b.scope = "global"
  BY <1>1, <1>3, <1>4 DEF Selected, MatchesScope, Key, TotalKeys
<1>5. CASE b.scope = "user_project"
  BY <1>3, <1>5 DEF Selected, MatchesScope
<1>6. CASE b.scope \in Fields
  <2>1. Selected(r, b.scope, b.id) <=> r[b.scope] = b.id
    BY <1>3, <1>6 DEF Selected
  <2>2. MatchesScope(r, b.scope, b.id) <=> r[b.scope] = b.id
    BY <1>3, <1>6 DEF MatchesScope
  <2>3. Key(b) \in TotalKeys(r) <=> r[b.scope] = b.id
    <3>1. \A f, g, x, y : <<f, x>> = <<g, y>> <=> f = g /\ x = y
      OBVIOUS
    <3>2. r[b.scope] = b.id => Truthy(r[b.scope]) /\ r[b.scope] # Blank
      BY <1>1 DEF Truthy
    <3>3. b.scope # "global" /\ (b.scope \in Required \/ b.scope \in Optional)
      BY <1>3, <1>6 DEF Fields
    <3> QED
      BY <3>1, <3>2, <3>3 DEF Key, TotalKeys
  <2> QED
    BY <2>1, <2>2, <2>3
<1> QED
  BY <1>2, <1>4, <1>5, <1>6

LEMMA AgreeNow == ScopeInv => SpendsAgree
<1> SUFFICES ASSUME ScopeInv, NEW b \in rules, Proper(b)
             PROVE  /\ CurrentSpend(b) = TrueSpend(b)
                    /\ ~(b.scope = "user_project" /\ b.cycle = "never") =>
                         ReportedSpend(b) = TrueSpend(b)
  BY DEF SpendsAgree
<1>1. b \in Rules /\ records \in Seq(Entry) /\ day \in Nat
  BY DEF ScopeInv, ScopeTypeOK
<1>2. \A i \in DOMAIN records : records[i].of \in [Fields -> Ids] /\ records[i].day \in Nat
  <2>1. \A i \in DOMAIN records : records[i] \in Entry
    BY <1>1
  <2> QED
    BY <2>1 DEF Entry
<1>3. WindowSpend(b) = TrueSpend(b)
  <2>1. \A i \in InWindow(b) : Selected(records[i].of, b.scope, b.id)
                                 <=> MatchesScope(records[i].of, b.scope, b.id)
    BY <1>1, <1>2, SameRecords DEF InWindow
  <2>2. {i \in InWindow(b) : Selected(records[i].of, b.scope, b.id)}
          = {i \in InWindow(b) : MatchesScope(records[i].of, b.scope, b.id)}
    BY <2>1
  <2> QED
    BY <2>2 DEF WindowSpend, TrueSpend
<1>4. ASSUME b.cycle = "never", b.scope # "user_project" PROVE totals[Key(b)] = TrueSpend(b)
  <2>1. Key(b) \in Keys
    BY <1>1 DEF Keys
  <2>2. totals[Key(b)] = Total(records, ChargedTo(records, Key(b)))
    BY <2>1 DEF ScopeInv, TotalsComplete
  <2>3. WindowStart(b.cycle) = 0
    BY <1>4 DEF WindowStart
  <2>4. \A i \in DOMAIN records : Key(b) \in TotalKeys(records[i].of)
                                    <=> MatchesScope(records[i].of, b.scope, b.id)
    BY <1>1, <1>2, <1>4, SameRecords
  <2>5. \A i \in DOMAIN records : records[i].day >= 0
    BY <1>2
  <2>6. ChargedTo(records, Key(b)) = Counted(records, 0, b)
    BY <2>4, <2>5 DEF ChargedTo, Counted, Counts
  <2> QED
    BY <2>2, <2>3, <2>6, SpendIs
<1>5. CurrentSpend(b) = TrueSpend(b)
  BY <1>3, <1>4 DEF CurrentSpend
<1>6. ASSUME ~(b.scope = "user_project" /\ b.cycle = "never")
      PROVE  ReportedSpend(b) = TrueSpend(b)
  BY <1>3, <1>4, <1>6 DEF ReportedSpend
<1> QED
  BY <1>5, <1>6

LEMMA BuiltType == ASSUME NEW q \in Requests PROVE Built(q) \in [Fields -> Ids]
<1>1. q \in [Fields -> Ids] /\ None \in Ids
  BY ScopeConstants DEF None, Ids
<1> QED
  BY <1>1 DEF Built

\* What a call leaves behind.
Newest(q, amount, billed) == [of |-> Built(q), cost |-> amount, day |-> day, billed |-> billed]

LEMMA StoreStep ==
  ASSUME ScopeTypeOK, NEW q \in Requests, NEW amount \in Nat, NEW billed \in BOOLEAN,
         Store(Built(q), amount, billed)
  PROVE  /\ Newest(q, amount, billed) \in Entry
         /\ records' = Append(records, Newest(q, amount, billed))
         /\ rules' = rules /\ day' = day /\ indexed' = indexed
<1>1. Newest(q, amount, billed) \in Entry
  BY BuiltType DEF ScopeTypeOK, Newest, Entry
<1> QED
  BY <1>1 DEF Store, Newest

\* A step sets a budget, passes midnight, stores one record, or changes nothing.
LEMMA ScopeSteps ==
  ASSUME [ScopeNext]_scopeVars
  PROVE  \/ UNCHANGED scopeVars
         \/ \E b \in Rules : SetBudget(b)
         \/ NextDay
         \/ \E q \in Requests, est \in Expected, amount \in Nat, billed \in BOOLEAN :
              /\ billed => HasRoom(q, est)
              /\ Store(Built(q), amount, billed)
<1>1. ASSUME NEW q \in Requests, NEW est \in Expected, Admitted(q, est)
      PROVE  \E amount \in Nat, billed \in BOOLEAN :
               (billed => HasRoom(q, est)) /\ Store(Built(q), amount, billed)
  BY <1>1, ScopeConstants DEF Admitted
<1>2. ASSUME NEW q \in Requests, NEW est \in Expected, Refused(q, est)
      PROVE  \E amount \in Nat, billed \in BOOLEAN :
               (billed => HasRoom(q, est)) /\ Store(Built(q), amount, billed)
  <2>1. Store(Built(q), 0, FALSE) /\ 0 \in Nat /\ FALSE \in BOOLEAN
    BY <1>2 DEF Refused
  <2>2. (FALSE => HasRoom(q, est)) /\ Store(Built(q), 0, FALSE)
    BY <2>1
  <2> QED
    BY <2>1, <2>2
<1> QED
  BY <1>1, <1>2 DEF ScopeNext

LEMMA ScopeInvInit == ScopeInit => ScopeInv
<1> SUFFICES ASSUME ScopeInit PROVE ScopeInv
  OBVIOUS
<1>1. ScopeTypeOK
  BY DEF ScopeInit, ScopeTypeOK
<1>2. ASSUME NEW k \in Keys PROVE totals[k] = Total(records, ChargedTo(records, k))
  <2>1. ChargedTo(records, k) = {}
    BY DEF ScopeInit, ChargedTo
  <2>2. UnitsOf(records, {}) = {}
    BY DEF UnitsOf
  <2>3. Total(records, {}) = 0
    BY <2>2, FS_EmptySet DEF Total
  <2> QED
    BY <2>1, <2>3 DEF ScopeInit
<1> QED
  BY <1>1, <1>2 DEF ScopeInv, TotalsComplete

LEMMA ScopeInvStep == ScopeInv /\ [ScopeNext]_scopeVars => ScopeInv'
<1> SUFFICES ASSUME ScopeInv, [ScopeNext]_scopeVars PROVE ScopeInv'
  OBVIOUS
<1>1. ScopeTypeOK /\ TotalsComplete
  BY DEF ScopeInv
<1>2. CASE UNCHANGED scopeVars
  BY <1>1, <1>2 DEF ScopeInv, ScopeTypeOK, TotalsComplete, scopeVars
<1>3. ASSUME NEW b \in Rules, SetBudget(b) PROVE ScopeInv'
  BY <1>1, <1>3 DEF ScopeInv, ScopeTypeOK, TotalsComplete, SetBudget
<1>4. CASE NextDay
  BY <1>1, <1>4 DEF ScopeInv, ScopeTypeOK, TotalsComplete, NextDay
<1>5. ASSUME NEW q \in Requests, NEW amount \in Nat, NEW billed \in BOOLEAN,
             Store(Built(q), amount, billed)
      PROVE  ScopeInv'
  <2> DEFINE e == Newest(q, amount, billed)
  <2>1. /\ e \in Entry /\ records' = Append(records, e)
        /\ rules' = rules /\ day' = day /\ indexed' = indexed
    BY <1>1, <1>5, StoreStep
  <2>2. e.of = Built(q) /\ e.cost = amount /\ e.billed = billed
    BY DEF Newest
  <2>3. totals' = [k \in Keys |->
                     IF billed /\ k \in TotalKeys(Built(q)) THEN totals[k] + amount ELSE totals[k]]
    BY <1>5 DEF Store
  <2>4. totals \in [Keys -> Nat] /\ records \in Seq(Entry)
    BY <1>1 DEF ScopeTypeOK
  <2>5. totals' \in [Keys -> Nat]
    BY <2>3, <2>4
  <2> HIDE DEF e
  <2>6. ScopeTypeOK'
    <3>1. records' \in Seq(Entry)
      BY <2>1, <2>4
    <3> QED
      BY <1>1, <2>1, <2>5, <3>1 DEF ScopeTypeOK
  <2>7. ASSUME NEW k \in Keys PROVE totals'[k] = Total(records', ChargedTo(records', k))
    <3>1. totals[k] = Total(records, ChargedTo(records, k)) /\ totals[k] \in Nat
      BY <1>1, <2>4 DEF TotalsComplete
    <3>2. Total(records', ChargedTo(records', k))
            = totals[k] + IF billed /\ k \in TotalKeys(Built(q)) THEN amount ELSE 0
      BY <2>1, <2>2, <2>4, <3>1, ChargedOfAppend
    <3> QED
      BY <2>3, <3>1, <3>2
  <2> QED
    BY <2>6, <2>7 DEF ScopeInv, TotalsComplete
<1> QED
  BY <1>2, <1>3, <1>4, <1>5, ScopeSteps

\* Whatever a budget's spend is read from, totals, a scan or a query, and
\* whoever reads it, the enforcer or the reports, it is the cost of the
\* records in the budget's scope and window (SpendsAgree).
THEOREM EveryReaderAgrees == ScopeSpec => []SpendsAgree
BY ScopeInvInit, ScopeInvStep, AgreeNow, PTL DEF ScopeSpec

\* A record that is stored adds its cost to the spend of the budgets that count
\* it, if it is billable, and to no other.
LEMMA SpendOfStore ==
  ASSUME ScopeTypeOK, NEW q \in Requests, NEW amount \in Nat, NEW billed \in BOOLEAN,
         Store(Built(q), amount, billed), NEW b
  PROVE  /\ TrueSpend(b) \in Nat /\ TrueSpend(b)' \in Nat
         /\ TrueSpend(b) <= TrueSpend(b)'
         /\ ~(billed /\ MatchesScope(Built(q), b.scope, b.id)) => TrueSpend(b)' = TrueSpend(b)
<1> DEFINE e == Newest(q, amount, billed)
           from == WindowStart(b.cycle)
<1>1. e \in Entry /\ records' = Append(records, e) /\ day' = day
  BY StoreStep
<1>2. e.of = Built(q) /\ e.cost = amount /\ e.billed = billed
  BY DEF Newest
<1>3. records \in Seq(Entry) /\ day \in Nat
  BY DEF ScopeTypeOK
<1>4. WindowStart(b.cycle)' = from
  BY <1>1, <1>3, WindowMoves
<1>5. TrueSpend(b) = Total(records, Counted(records, from, b)) /\ TrueSpend(b) \in Nat
  BY <1>3, SpendIs, UnitsFinite DEF Counted
<1>6. TrueSpend(b)' = Total(records', Counted(records', from, b))
  BY <1>4, SpendIs
<1> HIDE DEF e, from
<1>7. TrueSpend(b)' = TrueSpend(b) + IF Counts(e, from, b) THEN amount ELSE 0
  BY <1>1, <1>2, <1>3, <1>5, <1>6, CountedOfAppend
<1>8. ~(billed /\ MatchesScope(Built(q), b.scope, b.id)) => ~Counts(e, from, b)
  BY <1>2 DEF Counts
<1> QED
  BY <1>5, <1>7, <1>8

\* Midnight adds nothing to a spend, and takes from it only at a roll-over.
LEMMA SpendOfMidnight ==
  ASSUME ScopeTypeOK, NextDay, NEW b
  PROVE  /\ TrueSpend(b) \in Nat /\ TrueSpend(b)' \in Nat
         /\ TrueSpend(b)' <= TrueSpend(b)
         /\ ~RollsOver(b) => TrueSpend(b)' = TrueSpend(b)
<1> DEFINE from == WindowStart(b.cycle)
           to == WindowStart(b.cycle)'
<1>1. records' = records /\ records \in Seq(Entry) /\ day \in Nat /\ day' = day + 1
  BY DEF ScopeTypeOK, NextDay
<1>2. from \in Nat /\ to \in Nat /\ from <= to /\ (~RollsOver(b) => to = from)
  BY <1>1, WindowMoves
<1>3. /\ TrueSpend(b) = Total(records, Counted(records, from, b))
      /\ TrueSpend(b)' = Total(records, Counted(records, to, b))
  BY <1>1, SpendIs
<1> HIDE DEF from, to
<1>4. Counted(records, to, b) \in SUBSET Counted(records, from, b)
  <2>1. \A i \in DOMAIN records : records[i].day \in Nat
    <3>1. \A i \in DOMAIN records : records[i] \in Entry
      BY <1>1
    <3> QED
      BY <3>1 DEF Entry
  <2>2. \A i \in DOMAIN records : records[i].day >= to => records[i].day >= from
    BY <1>2, <2>1
  <2> QED
    BY <2>2 DEF Counted, Counts
<1>5. Counted(records, from, b) \in SUBSET DOMAIN records
  BY DEF Counted
<1>6. Counted(records, to, b) \in SUBSET DOMAIN records
  BY DEF Counted
<1> QED
  BY <1>1, <1>2, <1>3, <1>4, <1>5, <1>6, TotalMonotone, UnitsFinite

LEMMA SpendOfRest ==
  ASSUME UNCHANGED <<records, day>>, NEW b
  PROVE  TrueSpend(b)' = TrueSpend(b)
<1>1. WindowStart(b.cycle)' = WindowStart(b.cycle)
  BY DEF WindowStart, Latest
<1> QED
  BY <1>1, SpendIs

\* What a record will be charged to is looked up before the call.
LEMMA ChargedIsChecked ==
  ASSUME NEW q \in Requests, NEW b \in rules, b \in Rules, Proper(b),
         MatchesScope(Built(q), b.scope, b.id)
  PROVE  b \in Applicable(q)
<1>1. b.id \in Ids /\ b.id \notin {None, Empty, Blank} /\ (b.scope = "global" => b.id = All)
  BY ScopeConstants DEF Proper
<1>2. "global" \notin Fields /\ "user_project" \notin Fields /\ {"user", "project"} \subseteq Required
  BY DEF Fields, Required, Optional
<1>3. CASE b.scope = "global"
  BY <1>1, <1>3 DEF Applicable, ScopeKeys, Key
<1>4. ASSUME b.scope \in Fields, Built(q)[b.scope] = b.id PROVE b \in Applicable(q)
  <2>1. Built(q)[b.scope] # None
    BY <1>1, <1>4
  <2>2. Built(q)[b.scope] = q[b.scope]
    BY <1>4, <2>1 DEF Built
  <2>3. q[b.scope] = b.id /\ Truthy(q[b.scope])
    BY <1>1, <1>4, <2>2 DEF Truthy
  <2> QED
    BY <1>4, <2>3 DEF Applicable, ScopeKeys, Key
<1>5. ASSUME b.scope = "user_project", Len(b.id) = 2,
             Built(q)["user"] = <<b.id[1]>>, Built(q)["project"] = <<b.id[2]>>
      PROVE  b \in Applicable(q)
  <2>1. "user" \in Fields /\ "project" \in Fields /\ "user" \notin Optional /\ "project" \notin Optional
    BY DEF Fields, Required, Optional
  <2>2. q["user"] = <<b.id[1]>> /\ q["project"] = <<b.id[2]>>
    BY <1>5, <2>1 DEF Built
  <2>3. <<b.id[1]>> \o <<b.id[2]>> = b.id
    BY <1>1, <1>5 DEF Ids
  <2>4. Key(b) = <<"user_project", q["user"] \o q["project"]>>
    BY <1>5, <2>2, <2>3 DEF Key
  <2> QED
    BY <2>4 DEF Applicable, ScopeKeys
<1> QED
  BY <1>3, <1>4, <1>5 DEF MatchesScope

LEMMA ChargedStep ==
  ASSUME ScopeInv, SpendsAgree, [ScopeNext]_scopeVars, NEW b \in rules \cap rules', Proper(b),
         TrueSpend(b)' > TrueSpend(b)
  PROVE  TrueSpend(b) <= b.limit
<1>1. ScopeTypeOK /\ b \in Rules /\ b \in rules
  BY DEF ScopeInv, ScopeTypeOK
<1>2. TrueSpend(b) \in Nat
  BY <1>1, SpendIs, UnitsFinite DEF Counted, ScopeTypeOK
<1>3. ASSUME UNCHANGED <<records, day>> PROVE FALSE
  BY <1>2, <1>3, SpendOfRest
<1>4. ASSUME NextDay PROVE FALSE
  BY <1>1, <1>4, SpendOfMidnight
<1>5. ASSUME NEW q \in Requests, NEW est \in Expected, NEW amount \in Nat, NEW billed \in BOOLEAN,
             billed => HasRoom(q, est), Store(Built(q), amount, billed)
      PROVE  TrueSpend(b) <= b.limit
  <2>1. billed /\ MatchesScope(Built(q), b.scope, b.id)
    <3>1. \/ billed /\ MatchesScope(Built(q), b.scope, b.id)
          \/ TrueSpend(b)' = TrueSpend(b)
      BY <1>1, <1>5, SpendOfStore
    <3> QED
      BY <1>2, <3>1
  <2>2. b \in Applicable(q)
    BY <1>1, <2>1, ChargedIsChecked
  <2>3. CurrentSpend(b) + est <= b.limit
    BY <1>5, <2>1, <2>2 DEF HasRoom
  <2>4. CurrentSpend(b) = TrueSpend(b)
    BY <1>1 DEF SpendsAgree
  <2>5. est \in Nat /\ b.limit \in Nat
    BY <1>1, ScopeConstants
  <2> QED
    BY <1>2, <2>3, <2>4, <2>5
<1> QED
  BY <1>3, <1>4, <1>5, ScopeSteps DEF SetBudget, scopeVars

\* With one call at a time no budget is charged further once it is over its
\* limit: what a record is charged to was checked, at what it had spent
\* (ChargedOnlyWithRoom).
THEOREM CheckedBeforeCharged == ScopeSpec => ChargedOnlyWithRoom
<1>1. ScopeInv /\ SpendsAgree /\ [ScopeNext]_scopeVars =>
        [\A b \in rules \cap rules' :
           Proper(b) /\ TrueSpend(b)' > TrueSpend(b) => TrueSpend(b) <= b.limit]_scopeVars
  BY ChargedStep
<1> QED
  BY <1>1, ScopeInvInit, ScopeInvStep, AgreeNow, PTL DEF ScopeSpec, ChargedOnlyWithRoom

LEMMA FallStep ==
  ASSUME ScopeInv, SpendsAgree, SpendsAgree', [ScopeNext]_scopeVars,
         NEW b \in rules \cap rules', Proper(b), CurrentSpend(b)' < CurrentSpend(b)
  PROVE  RollsOver(b)
<1>1. ScopeTypeOK /\ b \in rules /\ b \in rules'
  BY DEF ScopeInv
<1>2. CurrentSpend(b) = TrueSpend(b) /\ CurrentSpend(b)' = TrueSpend(b)'
  BY <1>1 DEF SpendsAgree, Proper
<1>3. TrueSpend(b) \in Nat
  BY <1>1, SpendIs, UnitsFinite DEF Counted, ScopeTypeOK
<1>4. ASSUME UNCHANGED <<records, day>> PROVE FALSE
  BY <1>2, <1>3, <1>4, SpendOfRest
<1>5. ASSUME NextDay PROVE RollsOver(b)
  BY <1>1, <1>2, <1>3, <1>5, SpendOfMidnight
<1>6. ASSUME NEW q \in Requests, NEW amount \in Nat, NEW billed \in BOOLEAN,
             Store(Built(q), amount, billed)
      PROVE  FALSE
  BY <1>1, <1>2, <1>6, SpendOfStore
<1> QED
  BY <1>4, <1>5, <1>6, ScopeSteps DEF SetBudget, scopeVars

\* The spend of a standing budget falls only when its own window rolls over,
\* at the midnights at which it may (FallsOnlyAtRollOver).
THEOREM OnlyRollOverForgives == ScopeSpec => FallsOnlyAtRollOver
<1>1. ScopeInv /\ SpendsAgree /\ SpendsAgree' /\ [ScopeNext]_scopeVars =>
        [\A b \in rules \cap rules' :
           Proper(b) /\ CurrentSpend(b)' < CurrentSpend(b) => RollsOver(b)]_scopeVars
  BY FallStep
<1> QED
  BY <1>1, ScopeInvInit, ScopeInvStep, AgreeNow, PTL DEF ScopeSpec, FallsOnlyAtRollOver
=============================================================================
