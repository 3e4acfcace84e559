------------------------------- MODULE Wallet -------------------------------
(***************************************************************************)
(* A prepaid wallet (tokenledger/core/wallet.py): a user budget of the     *)
(* ledger with a debit check, refill, reset, and a low-balance alarm that  *)
(* is armed until it fires.  Threads share it.  The wallet's lock covers   *)
(* only the comparison inside debit; the limit is read before it, the      *)
(* alarm is tested and disarmed after it, and refill and reset take no     *)
(* lock at all.  The store's own lock makes each read or write of the      *)
(* budget, and each reading of the spend, one step.                        *)
(*                                                                         *)
(* Money is counted in whole units, the threshold in tenths of the limit.  *)
(* Operators commented "Mistake" are wrong on purpose and used nowhere.    *)
(***************************************************************************)
EXTENDS Integers, FiniteSets

CONSTANTS
  Threads,    \* threads that use the wallet, again and again
  FirstLimit, \* limit_usd it is created with
  Threshold,  \* low_balance_threshold, in tenths
  Estimates,  \* results of _estimate_request_cost
  Costs,      \* cost_usd of the record that follows a debit
  TopCost,    \* the largest of them
  Amounts,    \* amounts of a refill
  MaxOps      \* bound: debits, refills and resets that are begun

ASSUME WalletConstants ==
  /\ IsFiniteSet(Threads)
  /\ FirstLimit \in Nat \ {0} /\ Threshold \in 1..10
  /\ Estimates \subseteq Nat /\ TopCost \in Nat /\ Costs \subseteq 0..TopCost
  /\ Amounts \subseteq Nat \ {0} /\ MaxOps \in Nat

VARIABLES
  limit,      \* limit_usd of the budget user:<id>
  spend,      \* _calculate_current_spend of that budget
  alerted,    \* _low_alerted
  pc,         \* what each thread does next
  seen,       \* the limit a thread has read
  goal,       \* new_limit of a refill
  low,        \* did the debit leave less than the threshold?
  ops,        \* operations begun
  added,      \* amounts of all refills so far (history)
  peak,       \* the highest limit so far (history)
  calm,       \* no two of refill and reset have overlapped (history)
  raced,      \* an alarm was tested or disarmed by a debit while another debit
              \* did, or while a refill or reset was under way (history)
  fired,      \* alarms since the last re-arming (history)
  stillLow,   \* the balance was below the threshold ever since the last alarm,
              \* and nobody has reset the wallet (history)
  repeated    \* an alarm came while stillLow (history)

core == <<limit, spend, alerted>>
local == <<pc, seen, goal, low>>
history == <<added, peak, calm, raced, fired, stillLow, repeated>>
vars == <<core, local, ops, history>>

Phases == {"idle", "debit", "decide", "test", "fire", "record",
           "refill", "top-up", "reread", "weigh", "rearm", "reset", "re-set", "re-arm"}
ToppingUp == {"refill", "top-up", "reread", "weigh", "rearm", "reset", "re-set", "re-arm"}
Others(t) == Threads \ {t}
Goto(t, phase) == pc' = [pc EXCEPT ![t] = phase]

\* remaining < threshold * limit
Below(balance, lim) == balance * 10 < Threshold * lim

Init ==
  /\ limit = FirstLimit /\ spend = 0 /\ alerted = FALSE
  /\ pc = [t \in Threads |-> "idle"]
  /\ seen = [t \in Threads |-> 0]
  /\ goal = [t \in Threads |-> 0]
  /\ low = [t \in Threads |-> FALSE]
  /\ ops = 0 /\ added = 0 /\ peak = FirstLimit /\ calm = TRUE
  /\ raced = FALSE /\ fired = 0 /\ stillLow = FALSE /\ repeated = FALSE

\* A call begins: what it is going to read first is read in a later step.
Begin(t, phase) ==
  /\ pc[t] = "idle" /\ ops < MaxOps
  /\ ops' = ops + 1
  /\ Goto(t, phase)
  /\ calm' = (calm /\ (phase = "debit" \/ \A o \in Others(t) : pc[o] \notin ToppingUp))
  /\ UNCHANGED <<core, seen, goal, low, added, peak, raced, fired, stillLow, repeated>>

\* budget = self._budget(), or self.limit in refill and reset.
ReadLimit(t, from, to) ==
  /\ pc[t] = from
  /\ seen' = [seen EXCEPT ![t] = limit]
  /\ Goto(t, to)
  /\ UNCHANGED <<core, goal, low, ops, history>>

\* Has the balance stayed low with the new limit or spend?
StaysLow(lim, spent) == stillLow' = (stillLow /\ Below(lim - spent, lim))

-----------------------------------------------------------------------------
(* debit *)

\* Mistake: the estimate is compared with the whole allowance.
SpendIgnored(t, est) == est <= seen[t]
\* not est > limit - spend, with the limit that was read before the lock.
Affordable(t, est) == est <= seen[t] - spend

\* The comparison is serialized by the lock, but it reserves nothing.
Approve(t, est) ==
  /\ pc[t] = "decide" /\ Affordable(t, est)
  /\ low' = [low EXCEPT ![t] = Below(seen[t] - spend - est, seen[t])]
  /\ Goto(t, "test")
  /\ UNCHANGED <<core, seen, goal, ops, history>>

\* WalletExhaustedError
Exhausted(t, est) ==
  /\ pc[t] = "decide" /\ ~Affordable(t, est)
  /\ seen' = [seen EXCEPT ![t] = 0]
  /\ Goto(t, "idle")
  /\ UNCHANGED <<core, goal, low, ops, history>>

\* not self._low_alerted and remaining < threshold * limit
AlarmDue(t) == ~alerted /\ low[t]

Disturbed(t) == \E o \in Others(t) : pc[o] = "fire" \/ pc[o] \in ToppingUp

TestAlarm(t) ==
  /\ pc[t] = "test"
  /\ Goto(t, IF AlarmDue(t) THEN "fire" ELSE "record")
  /\ raced' = (raced \/ (AlarmDue(t) /\ Disturbed(t)))
  /\ UNCHANGED <<core, seen, goal, low, ops, added, peak, calm, fired, stillLow, repeated>>

\* The flag is set and on_low_balance runs.
Fire(t) ==
  /\ pc[t] = "fire"
  /\ alerted' = TRUE
  /\ fired' = fired + 1
  /\ repeated' = (repeated \/ stillLow)
  /\ stillLow' = Below(limit - spend, limit)
  /\ raced' = (raced \/ Disturbed(t))
  /\ Goto(t, "record")
  /\ UNCHANGED <<limit, spend, seen, goal, low, ops, added, peak, calm>>

\* debit has returned True: the request is made and its record charged, or it
\* fails and is not (cost 0).
Record(t, cost) ==
  /\ pc[t] = "record"
  /\ spend' = spend + cost /\ StaysLow(limit, spend + cost)
  /\ low' = [low EXCEPT ![t] = FALSE] /\ seen' = [seen EXCEPT ![t] = 0]
  /\ Goto(t, "idle")
  /\ UNCHANGED <<limit, alerted, goal, ops, added, peak, calm, raced, fired, repeated>>

-----------------------------------------------------------------------------
(* refill and reset *)

SetLimit(lim) ==
  /\ limit' = lim
  /\ peak' = IF lim > peak THEN lim ELSE peak
  /\ StaysLow(lim, spend)
  /\ UNCHANGED <<spend, alerted, low, ops, calm, raced, fired, repeated>>

\* Mistake: the amount is added to the limit of the wallet's creation.
FromFirstLimit(t, amount) == FirstLimit + amount
\* round(self.limit + amount, 10), with the limit as it was read.
NewLimit(t, amount) == seen[t] + amount

TopUp(t, amount) ==
  /\ pc[t] = "top-up"
  /\ SetLimit(NewLimit(t, amount))
  /\ goal' = [goal EXCEPT ![t] = NewLimit(t, amount)]
  /\ added' = added + amount
  /\ Goto(t, "reread")
  /\ UNCHANGED seen

Rearm(t) ==
  /\ alerted' = FALSE /\ fired' = 0
  /\ seen' = [seen EXCEPT ![t] = 0] /\ goal' = [goal EXCEPT ![t] = 0]
  /\ Goto(t, "idle")
  /\ UNCHANGED <<limit, spend, low, ops, added, peak, calm, raced, repeated>>

\* Mistake: every refill re-arms the alarm.
AlwaysRearmed(t) == TRUE
\* self.balance() >= threshold * new_limit
Recovered(t) == ~Below(seen[t] - spend, goal[t])

\* The spend is read; a balance that is still low keeps the alarm silent.
Weigh(t) ==
  /\ pc[t] = "weigh"
  /\ IF Recovered(t) THEN Goto(t, "rearm") /\ UNCHANGED <<seen, goal>>
     ELSE /\ Goto(t, "idle")
          /\ seen' = [seen EXCEPT ![t] = 0] /\ goal' = [goal EXCEPT ![t] = 0]
  /\ UNCHANGED <<core, low, ops, history>>

RefillRearms(t) == pc[t] = "rearm" /\ Rearm(t) /\ UNCHANGED stillLow

\* reset writes the limit back as it was read: the same budget, set again.
LimitKept(t) == seen[t]

SetAgain(t) ==
  /\ pc[t] = "re-set"
  /\ SetLimit(LimitKept(t))
  /\ Goto(t, "re-arm")
  /\ UNCHANGED <<seen, goal, added>>

ResetRearms(t) == pc[t] = "re-arm" /\ Rearm(t) /\ stillLow' = FALSE

-----------------------------------------------------------------------------
\* The budget's window rolls over; the alarm stays as it is.
NewWindow ==
  /\ spend > 0 /\ spend' = 0 /\ StaysLow(limit, 0)
  /\ UNCHANGED <<limit, alerted, local, ops, added, peak, calm, raced, fired, repeated>>

Step(t) ==
  \/ \E phase \in {"debit", "refill", "reset"} : Begin(t, phase)
  \/ ReadLimit(t, "debit", "decide")
  \/ \E est \in Estimates : Approve(t, est) \/ Exhausted(t, est)
  \/ TestAlarm(t) \/ Fire(t)
  \/ \E cost \in Costs : Record(t, cost)
  \/ ReadLimit(t, "refill", "top-up")
  \/ \E amount \in Amounts : TopUp(t, amount)
  \/ ReadLimit(t, "reread", "weigh")
  \/ Weigh(t) \/ RefillRearms(t)
  \/ ReadLimit(t, "reset", "re-set")
  \/ SetAgain(t) \/ ResetRearms(t)

Next == (\E t \in Threads : Step(t)) \/ NewWindow

Spec == Init /\ [][Next]_vars

-----------------------------------------------------------------------------
(* Properties *)

\* Every variable has its type.
TypeOK ==
  /\ limit \in Nat /\ spend \in Nat /\ alerted \in BOOLEAN
  /\ pc \in [Threads -> Phases] /\ seen \in [Threads -> Nat]
  /\ goal \in [Threads -> Nat] /\ low \in [Threads -> BOOLEAN]
  /\ ops \in 0..MaxOps /\ added \in Nat /\ peak \in Nat /\ fired \in Nat
  /\ {calm, raced, stillLow, repeated} \subseteq BOOLEAN

\* Refills add up, whatever resets come between them, as long as no two top-ups
\* overlap; those that do may lose an amount but never make money, and never
\* take the limit below the one of the creation (refill, reset).
TopUpsAddUp ==
  /\ limit \in FirstLimit..(FirstLimit + added)
  /\ calm => limit = FirstLimit + added

\* Debits that are approved together overdraw the wallet together, since debit
\* reserves nothing (DebitsReserve below is what the docs say), but by no more
\* than one record for each thread, beyond the highest limit it ever had (a
\* stale limit may be approved against).
OverdraftBounded == spend <= peak + Cardinality(Threads) * TopCost

\* The alarm is one-shot only up to the debits under way: each thread between
\* the test of _low_alerted and its setting may still fire it once more, so it
\* fires at most once for each thread between two re-armings.  While top-ups do
\* not overlap and nothing disturbs a debit there, it fires once, and a refill
\* that leaves the balance low does not make it fire again (debit, refill, reset).
AlarmOncePerLow ==
  /\ fired <= Cardinality(Threads)
  /\ calm /\ ~raced => fired <= 1 /\ ~repeated

-----------------------------------------------------------------------------
(* What the documentation says and the code does not do *)

\* wallet.py:98-99, of debit: "the check-and-compare step is serialized with a
\* per-wallet lock so concurrent debit calls cannot both pass an exhausted
\* balance"; docs/api.md:125, CHANGELOG.md:29, README.md:40: debit reserves the
\* estimate.  A debit is approved only if its estimate, and no less for each other
\* debit that is approved and not charged yet, fit in the balance.
DebitsReserve ==
  [][\A t \in Threads, est \in Estimates :
       Approve(t, est) /\ (\A e \in Estimates : est <= e)
         => spend + est * (1 + Cardinality({o \in Others(t) : pc[o] \in {"test", "fire", "record"}}))
              <= seen[t]]_vars

\* README.md:334, docs/advanced.md:228: the low-balance callback "fires at most
\* once per cycle"; also when two debits test the flag together.
AlarmOncePerCycle == fired <= 1

\* README.md:334, docs/advanced.md:229: the alarm "re-arms on refill() or reset()";
\* so it does after every refill that returns (docs/api.md:128 says only above the
\* threshold, as the code does).
RefillAlwaysRearms == [][\A t \in Threads : Weigh(t) /\ pc'[t] = "idle" => ~alerted']_vars
=============================================================================
