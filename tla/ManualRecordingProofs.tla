----------------------- MODULE ManualRecordingProofs -----------------------
(***************************************************************************)
(* Theorems about ManualRecording, for any number of callers, budgets,     *)
(* limits, prices, contracts and ways of recording.                        *)
(***************************************************************************)
EXTENDS ManualRecording, FiniteSetTheorems, TLAPS

-----------------------------------------------------------------------------
(* Types *)

\* A well-typed call, whose loop is among the budgets of its record.
Sound(r) == r \in Usage /\ r.left \subseteq r.on

\* A call that is over, or has not begun.
LEMMA IdleSound == Sound(Idle)
BY RecordingConstants DEF Sound, Idle, Usage, Phases

\* What the actions change in a call leaves it well-typed.
LEMMA ChangesSound ==
  ASSUME NEW r, Sound(r)
  PROVE  /\ \A phase \in Phases : Sound([r EXCEPT !.pc = phase])
         /\ \A phase \in Phases, status \in {"success", "error"} :
              Sound([r EXCEPT !.pc = phase, !.status = status])
         /\ \A phase \in Phases, cost \in 0..TopCost :
              Sound([r EXCEPT !.pc = phase, !.cost = cost])
         /\ \A left \in SUBSET r.on :
              /\ Sound([r EXCEPT !.left = left])
              /\ Sound([r EXCEPT !.ghost = TRUE, !.left = left])
              /\ \A phase \in Phases : Sound([r EXCEPT !.pc = phase, !.left = left])
         /\ \A at \in 1..(Contracts + 1) : Sound([r EXCEPT !.at = at])
         /\ Sound([r EXCEPT !.hookRaised = TRUE]) /\ Sound([r EXCEPT !.rolled = TRUE])
<1>1. \A left \in SUBSET r.on : left \in SUBSET Budgets
  BY DEF Sound, Usage
<1>2. \A phase \in Phases : Sound([r EXCEPT !.pc = phase])
  BY DEF Sound, Usage
<1>3. \A phase \in Phases, status \in {"success", "error"} :
        Sound([r EXCEPT !.pc = phase, !.status = status])
  BY DEF Sound, Usage
<1>4. \A phase \in Phases, cost \in 0..TopCost : Sound([r EXCEPT !.pc = phase, !.cost = cost])
  BY DEF Sound, Usage
<1>5. \A left \in SUBSET r.on : Sound([r EXCEPT !.left = left])
  BY <1>1 DEF Sound, Usage
<1>6. \A left \in SUBSET r.on : Sound([r EXCEPT !.ghost = TRUE, !.left = left])
  BY <1>1 DEF Sound, Usage
<1>7. \A left \in SUBSET r.on, phase \in Phases : Sound([r EXCEPT !.pc = phase, !.left = left])
  BY <1>1 DEF Sound, Usage
<1>8. \A at \in 1..(Contracts + 1) : Sound([r EXCEPT !.at = at])
  BY DEF Sound, Usage
<1>9. Sound([r EXCEPT !.hookRaised = TRUE]) /\ Sound([r EXCEPT !.rolled = TRUE])
  BY DEF Sound, Usage
<1> QED BY <1>2, <1>3, <1>4, <1>5, <1>6, <1>7, <1>8, <1>9

\* So does what becomes of it when it raises.
LEMMA RaiseSound ==
  ASSUME NEW r, Sound(r)
  PROVE  Sound(Raise(r))
<1>1. r.on \in SUBSET Budgets
  BY DEF Sound, Usage
<1>2. 0 \in 0..TopCost /\ 1 \in 1..(Contracts + 1)
  BY RecordingConstants
<1>3. CASE RecordedAgain(r)
  <2>1. Raise(r) \in Usage
    BY <1>1, <1>2, <1>3 DEF Raise, Sound, Usage, Phases
  <2>2. Raise(r).left = Raise(r).on
    BY <1>3 DEF Raise, Sound, Usage
  <2> QED BY <2>1, <2>2 DEF Sound
<1>4. CASE ~RecordedAgain(r)
  BY <1>4, IdleSound DEF Raise
<1> QED BY <1>3, <1>4

\* A record costs no more than the most expensive one.
LEMMA PricedType ==
  ASSUME NEW c, NEW amount \in Costs
  PROVE  Priced(c, amount) \in 0..TopCost
BY RecordingConstants DEF Priced

\* The variables besides the calls.
OthersOK ==
  /\ config \in Configs
  /\ spent \in [Budgets -> Nat] /\ told \in [Budgets -> BOOLEAN]
  /\ charged \in [1..Contracts -> Nat]
  /\ begun \in 0..MaxCalls /\ recorded \in Nat /\ mishaps \in 0..MaxMishaps
CallsOK == call \in [Callers -> Usage] /\ \A c \in Callers : Sound(call[c])

LEMMA CallsKept ==
  ASSUME CallsOK, NEW c \in Callers, NEW r, Sound(r), call' = [call EXCEPT ![c] = r]
  PROVE  CallsOK'
BY DEF CallsOK, Sound

\* Every action keeps the calls sound.
LEMMA CallsStep ==
  ASSUME CallsOK, OthersOK, [Next]_vars
  PROVE  CallsOK'
<1>0. ASSUME NEW c \in Callers
      PROVE  Sound(call[c]) /\ call[c].on \in SUBSET Budgets
  BY DEF CallsOK, Sound, Usage
<1>1. ASSUME NEW c \in Callers, NEW way \in Ways, NEW kind \in Kinds, Begin(c, way, kind)
      PROVE  CallsOK'
  <2> DEFINE r == [Idle EXCEPT !.pc = IF way = "record" THEN "check" ELSE "body",
                    !.way = way, !.on = kind.on, !.known = kind.known, !.left = kind.on]
  <2>1. kind.on \in SUBSET Budgets /\ kind.known \in BOOLEAN
    BY RecordingConstants
  <2>2. way \in {"record", "usage", "track"} /\ Idle \in Usage
    BY RecordingConstants, IdleSound DEF Sound
  <2>3. r \in Usage
    BY <2>1, <2>2 DEF Usage, Phases
  <2>4. r.left = r.on
    BY <2>2 DEF Usage
  <2>5. call' = [call EXCEPT ![c] = r]
    BY <1>1 DEF Begin
  <2> HIDE DEF r
  <2> QED BY <2>3, <2>4, <2>5, CallsKept DEF Sound
<1>2. ASSUME NEW c \in Callers, NEW status \in {"success", "error"}, BodyEnds(c, status)
      PROVE  CallsOK'
  <2>1. Sound([call[c] EXCEPT !.pc = "check", !.status = status])
    BY <1>0, ChangesSound DEF Phases
  <2>2. call' = [call EXCEPT ![c] = [call[c] EXCEPT !.pc = "check", !.status = status]]
    BY <1>2 DEF BodyEnds
  <2> QED BY <2>1, <2>2, CallsKept
<1>3. ASSUME NEW c \in Callers, BodyCancelled(c)  PROVE CallsOK'
  <2>1. Sound([call[c] EXCEPT !.pc = "check", !.status = "error"]) /\ Sound(Idle)
    BY <1>0, ChangesSound, IdleSound DEF Phases
  <2>2. \/ call' = [call EXCEPT ![c] = [call[c] EXCEPT !.pc = "check", !.status = "error"]]
        \/ call' = [call EXCEPT ![c] = Idle]
    BY <1>3 DEF BodyCancelled
  <2> QED BY <2>1, <2>2, CallsKept
<1>4. ASSUME NEW c \in Callers, UnknownModel(c)  PROVE CallsOK'
  BY <1>0, <1>4, RaiseSound, CallsKept DEF UnknownModel
<1>5. ASSUME NEW c \in Callers, NEW b \in Budgets, BudgetHasRoom(c, b)  PROVE CallsOK'
  <2> DEFINE rest == AfterRoom(c, b)
  <2>1. rest \in SUBSET call[c].on
    BY <1>0 DEF AfterRoom, Sound
  <2>2. call' = [call EXCEPT ![c] = [call[c] EXCEPT !.left = rest]]
    BY <1>5 DEF BudgetHasRoom
  <2> HIDE DEF rest
  <2>3. Sound([call[c] EXCEPT !.left = rest])
    BY <1>0, <2>1, ChangesSound DEF Phases
  <2> QED BY <2>2, <2>3, CallsKept
<1>6. ASSUME NEW c \in Callers, NEW b \in Budgets, BudgetExceeded(c, b)  PROVE CallsOK'
  <2>1. Sound([call[c] EXCEPT !.ghost = TRUE, !.left = {}]) /\ Sound(Raise(call[c]))
    BY <1>0, ChangesSound, RaiseSound DEF Phases
  <2>2. \/ call' = [call EXCEPT ![c] = [call[c] EXCEPT !.ghost = TRUE, !.left = {}]]
        \/ call' = [call EXCEPT ![c] = Raise(call[c])]
    BY <1>6 DEF BudgetExceeded
  <2> QED BY <2>1, <2>2, CallsKept
<1>7. ASSUME NEW c \in Callers, GhostDropped(c)  PROVE CallsOK'
  <2>1. Sound([call[c] EXCEPT !.pc = "hook"])
    BY <1>0, ChangesSound DEF Phases
  <2>2. call' = [call EXCEPT ![c] = [call[c] EXCEPT !.pc = "hook"]]
    BY <1>7 DEF GhostDropped
  <2> QED BY <2>1, <2>2, CallsKept
<1>8. ASSUME NEW c \in Callers, NEW amount \in Costs, StoreRecord(c, amount)  PROVE CallsOK'
  <2> DEFINE billable == {b \in Budgets : ChargedTo(call[c], b)}
             price == Priced(c, amount)
             stored == Append(call[c].made, call[c].status)
             times == IF billable = {} THEN call[c].billed ELSE call[c].billed + 1
             r == [call[c] EXCEPT !.pc = "hook", !.cost = price, !.made = stored, !.billed = times]
  <2>1. price \in 0..TopCost
    BY PricedType
  <2>2. stored \in Seq({"success", "error"}) /\ times \in Nat
    BY <1>0 DEF Sound, Usage
  <2>3. call' = [call EXCEPT ![c] = r]
    BY <1>8 DEF StoreRecord
  <2> HIDE DEF price, stored, times, billable
  <2>4. r \in Usage
    BY <1>0, <2>1, <2>2 DEF Sound, Usage, Phases
  <2>5. r.left \subseteq r.on
    BY <1>0 DEF Sound, Usage
  <2> HIDE DEF r
  <2> QED BY <2>3, <2>4, <2>5, CallsKept DEF Sound
<1>9. ASSUME NEW c \in Callers, NEW amount \in Costs, StoreFails(c, amount)  PROVE CallsOK'
  <2> DEFINE price == Priced(c, amount)
  <2>1. price \in 0..TopCost
    BY PricedType
  <2>2. call' = [call EXCEPT ![c] = [call[c] EXCEPT !.pc = "hook", !.cost = price]]
    BY <1>9 DEF StoreFails
  <2> HIDE DEF price
  <2>3. Sound([call[c] EXCEPT !.pc = "hook", !.cost = price])
    BY <1>0, <2>1, ChangesSound DEF Phases
  <2> QED BY <2>2, <2>3, CallsKept
<1>10. ASSUME NEW c \in Callers, HookReturns(c)  PROVE CallsOK'
  <2>1. Sound([call[c] EXCEPT !.pc = "contracts"]) /\ Sound(Idle)
    BY <1>0, ChangesSound, IdleSound DEF Phases
  <2>2. \/ call' = [call EXCEPT ![c] = [call[c] EXCEPT !.pc = "contracts"]]
        \/ call' = [call EXCEPT ![c] = Idle]
    BY <1>10 DEF HookReturns
  <2> QED BY <2>1, <2>2, CallsKept
<1>11. ASSUME NEW c \in Callers, HookRaises(c)  PROVE CallsOK'
  <2>1. Sound([call[c] EXCEPT !.hookRaised = TRUE])
    BY <1>0, ChangesSound DEF Phases
  <2>2. Sound(Raise([call[c] EXCEPT !.hookRaised = TRUE]))
    BY <2>1, RaiseSound
  <2> QED BY <1>11, <2>2, CallsKept DEF HookRaises
<1>12. ASSUME NEW c \in Callers, CheckContract(c)  PROVE CallsOK'
  <2> DEFINE k == call[c].at
             next == IF charged'[k] > MaxCost[k] THEN Contracts + 1 ELSE k + 1
  <2>1. k \in 1..Contracts
    BY <1>0, <1>12 DEF CheckContract, Sound, Usage
  <2>2. next \in 1..(Contracts + 1)
    BY <2>1, RecordingConstants
  <2>3. call' = [call EXCEPT ![c] = [call[c] EXCEPT !.at = next]]
    BY <1>12 DEF CheckContract
  <2> HIDE DEF next
  <2>4. Sound([call[c] EXCEPT !.at = next])
    BY <1>0, <2>2, ChangesSound DEF Phases
  <2> QED BY <2>3, <2>4, CallsKept
<1>13. ASSUME NEW c \in Callers, ContractsDone(c)  PROVE CallsOK'
  <2> DEFINE list == ToEnforce(call[c])
  <2>1. list \in SUBSET call[c].on
    BY DEF ToEnforce
  <2>2. call' = [call EXCEPT ![c] = [call[c] EXCEPT !.pc = "enforce", !.left = list]]
    BY <1>13 DEF ContractsDone
  <2> HIDE DEF list
  <2>3. Sound([call[c] EXCEPT !.pc = "enforce", !.left = list])
    BY <1>0, <2>1, ChangesSound DEF Phases
  <2> QED BY <2>2, <2>3, CallsKept
<1>14. ASSUME NEW c \in Callers, NEW b \in Budgets,
              call' = [call EXCEPT ![c] = [call[c] EXCEPT !.left = call[c].left \ {b}]]
       PROVE  CallsOK'
  <2>1. call[c].left \ {b} \in SUBSET call[c].on
    BY <1>0 DEF Sound
  <2>2. Sound([call[c] EXCEPT !.left = call[c].left \ {b}])
    BY <1>0, <2>1, ChangesSound DEF Phases
  <2> QED BY <1>14, <2>2, CallsKept
<1>15. ASSUME NEW c \in Callers, NEW b \in Budgets, WithinMargin(c, b)  PROVE CallsOK'
  BY <1>14, <1>15 DEF WithinMargin
<1>16. ASSUME NEW c \in Callers, NEW b \in Budgets, Overrun(c, b)  PROVE CallsOK'
  <2>1. CASE call[c].ghost
    <3>1. call' = [call EXCEPT ![c] = [call[c] EXCEPT !.left = call[c].left \ {b}]]
      BY <1>16, <2>1 DEF Overrun
    <3> QED BY <1>14, <3>1
  <2>2. CASE ~call[c].ghost
    BY <1>0, <1>16, <2>2, RaiseSound, CallsKept DEF Overrun
  <2> QED BY <2>1, <2>2
<1>20. ASSUME NEW c \in Callers, NEW b \in Budgets, CallbackRaises(c, b)  PROVE CallsOK'
  <2>1. call' = [call EXCEPT ![c] = [call[c] EXCEPT !.left = call[c].left \ {b}]]
    BY <1>20 DEF CallbackRaises
  <2> QED BY <1>14, <2>1
<1>17. ASSUME NEW c \in Callers, Return(c)  PROVE CallsOK'
  BY <1>17, IdleSound, CallsKept DEF Return
<1>18. ASSUME NEW b \in Windowed, NewWindow(b)  PROVE CallsOK'
  <2>1. \A c \in Callers : Sound(call[c]) /\ Sound([call[c] EXCEPT !.rolled = TRUE])
    BY <1>0, ChangesSound DEF Phases
  <2>2. call' = [c \in Callers |-> IF At(c, "idle") THEN call[c]
                                   ELSE [call[c] EXCEPT !.rolled = TRUE]]
    BY <1>18 DEF NewWindow
  <2> QED BY <2>1, <2>2 DEF CallsOK, Sound
<1>19. CASE UNCHANGED vars
  BY <1>19 DEF vars, CallsOK
<1> QED
  BY <1>1, <1>2, <1>3, <1>4, <1>5, <1>6, <1>7, <1>8, <1>9, <1>10, <1>11, <1>12, <1>13,
     <1>15, <1>16, <1>17, <1>18, <1>19, <1>20 DEF Next, Step

\* And the other variables in their types.
LEMMA OthersStep ==
  ASSUME CallsOK, OthersOK, [Next]_vars
  PROVE  OthersOK'
<1> USE RecordingConstants DEF OthersOK
<1>1. ASSUME NEW c \in Callers, NEW way \in Ways, NEW kind \in Kinds, Begin(c, way, kind)
      PROVE  OthersOK'
  BY <1>1 DEF Begin
<1>2. ASSUME NEW c \in Callers, NEW amount \in Costs, StoreRecord(c, amount)  PROVE OthersOK'
  <2>1. Priced(c, amount) \in Nat
    BY PricedType
  <2>2. spent' \in [Budgets -> Nat] /\ recorded' \in Nat
    BY <1>2, <2>1 DEF StoreRecord
  <2> QED BY <1>2, <2>2 DEF StoreRecord
<1>3. ASSUME NEW c \in Callers, NEW amount \in Costs, StoreFails(c, amount)  PROVE OthersOK'
  BY <1>3 DEF StoreFails
<1>4. ASSUME NEW c \in Callers, HookRaises(c)  PROVE OthersOK'
  BY <1>4 DEF HookRaises
<1>5. ASSUME NEW c \in Callers, CheckContract(c)  PROVE OthersOK'
  <2>1. call[c].cost \in Nat
    BY DEF CallsOK, Usage
  <2>2. charged' \in [1..Contracts -> Nat]
    BY <1>5, <2>1 DEF CheckContract, AddedToContract
  <2> QED BY <1>5, <2>2 DEF CheckContract
<1>6. ASSUME NEW c \in Callers, NEW b \in Budgets, Overrun(c, b)  PROVE OthersOK'
  <2>1. told' \in [Budgets -> BOOLEAN]
    BY <1>6 DEF Overrun
  <2> QED BY <1>6, <2>1 DEF Overrun
<1>11. ASSUME NEW c \in Callers, NEW b \in Budgets, CallbackRaises(c, b)  PROVE OthersOK'
  BY <1>11 DEF CallbackRaises
<1>7. ASSUME NEW b \in Windowed, NewWindow(b)  PROVE OthersOK'
  BY <1>7 DEF NewWindow
<1>8. ASSUME UNCHANGED <<config, spent, told, charged, begun, recorded, mishaps>>
      PROVE  OthersOK'
  BY <1>8
<1>9. ASSUME NEW c \in Callers
      PROVE  /\ \A status \in {"success", "error"} : BodyEnds(c, status) => OthersOK'
             /\ BodyCancelled(c) \/ UnknownModel(c) => OthersOK'
             /\ \A b \in Budgets : BudgetHasRoom(c, b) \/ BudgetExceeded(c, b) => OthersOK'
             /\ GhostDropped(c) \/ HookReturns(c) \/ ContractsDone(c) => OthersOK'
             /\ \A b \in Budgets : WithinMargin(c, b) => OthersOK'
             /\ Return(c) => OthersOK'
  BY <1>8 DEF BodyEnds, BodyCancelled, UnknownModel, BudgetHasRoom, BudgetExceeded,
     GhostDropped, HookReturns, ContractsDone, WithinMargin, Return
<1>10. CASE UNCHANGED vars
  BY <1>8, <1>10 DEF vars
<1> QED
  BY <1>1, <1>2, <1>3, <1>4, <1>5, <1>6, <1>7, <1>9, <1>10, <1>11 DEF Next, Step

LEMMA TypeStep == TypeOK /\ [Next]_vars => TypeOK'
<1> SUFFICES ASSUME OthersOK, CallsOK, [Next]_vars PROVE OthersOK' /\ CallsOK'
  BY DEF TypeOK, OthersOK, CallsOK, Sound
<1> QED BY CallsStep, OthersStep

LEMMA TypeInit == Init => TypeOK
<1> SUFFICES ASSUME Init PROVE TypeOK
  OBVIOUS
<1> QED BY IdleSound, RecordingConstants DEF Init, TypeOK, Sound

\* Every variable of a recording ledger keeps its type, whatever raises.
THEOREM RecordingTypeCorrect == Spec => []TypeOK
BY TypeInit, TypeStep, PTL DEF Spec

-----------------------------------------------------------------------------
(* What one call stores and bills.  BilledOnce is not inductive by itself: *)
(* that a decorated call is billed once rests on its having stored nothing *)
(* before its first record is admitted, and on the second being an error.  *)

\* A call with this history has at most one record, and may store one more.
Fresh(r) == r.made = <<>> /\ r.billed = 0
Story(r) ==
  /\ Len(r.made) <= 2 /\ r.billed <= 1
  /\ r.billed = 1 => r.made # <<>> /\ r.made[1] = "success"
  /\ r.pc \in {"idle", "body"} => Fresh(r)
  /\ r.pc = "check" => Len(r.made) <= 1
  /\ r.status = "success" => Len(r.made) <= 1 /\ (r.pc = "check" => Fresh(r))
Stories == \A c \in Callers : Story(call[c])

\* A first record is billed once if at all; a second one, an error, never.
LEMMA StoryOfStore ==
  ASSUME NEW r \in Usage, Story(r), r.pc = "check", NEW price, NEW n \in Nat,
         n = r.billed \/ (n = r.billed + 1 /\ r.status = "success")
  PROVE  Story([r EXCEPT !.pc = "hook", !.cost = price, !.made = Append(r.made, r.status),
                         !.billed = n])
<1> DEFINE q == [r EXCEPT !.pc = "hook", !.cost = price, !.made = Append(r.made, r.status),
                          !.billed = n]
<1>1. /\ q.pc = "hook" /\ q.made = Append(r.made, r.status) /\ q.billed = n
      /\ q.status = r.status
  BY DEF Usage
<1>2. r.made \in Seq({"success", "error"}) /\ r.status \in {"success", "error"} /\ r.billed \in Nat
  BY DEF Usage
<1>3. Len(q.made) = Len(r.made) + 1 /\ Len(r.made) \in Nat /\ q.made # <<>>
  <2> DEFINE list == r.made
             word == r.status
  <2>1. list \in Seq({"success", "error"}) /\ word \in {"success", "error"}
    BY <1>2
  <2> HIDE DEF list, word
  <2>2. Len(Append(list, word)) = Len(list) + 1 /\ Len(list) \in Nat
    BY <2>1
  <2>3. Append(list, word) # <<>>
    BY <2>2
  <2> QED BY <1>1, <2>2, <2>3 DEF list, word
<1>4. CASE r.status = "success"
  <2>1. r.made = <<>> /\ r.billed = 0
    BY <1>4 DEF Story, Fresh
  <2>2. Len(q.made) = 1 /\ q.made[1] = "success"
    BY <1>1, <1>4, <2>1
  <2> QED BY <1>1, <1>3, <2>1, <2>2 DEF Story
<1>5. CASE r.status # "success"
  <2>1. Len(r.made) <= 1 /\ n = r.billed
    BY <1>5 DEF Story
  <2>2. r.billed = 1 => q.made[1] = "success"
    BY <1>1, <1>2 DEF Story
  <2> QED BY <1>1, <1>2, <1>3, <1>5, <2>1, <2>2 DEF Story
<1> QED BY <1>4, <1>5

\* A call that has not stored, or that raises, may be on its way again.
LEMMA StoryOfRaise ==
  ASSUME NEW r \in Usage, Story(r)
  PROVE  Story(Raise(r)) /\ Story(Idle)
<1>1. Story(Idle)
  BY DEF Story, Fresh, Idle
<1>2. CASE RecordedAgain(r)
  <2>1. /\ Raise(r).pc = "check" /\ Raise(r).status = "error"
        /\ Raise(r).made = r.made /\ Raise(r).billed = r.billed
    BY <1>2 DEF Raise, Usage
  <2>2. Len(r.made) <= 1
    BY <1>2 DEF RecordedAgain, Story
  <2> QED BY <1>1, <2>1, <2>2 DEF Story
<1>3. CASE ~RecordedAgain(r)
  BY <1>1, <1>3 DEF Raise
<1> QED BY <1>2, <1>3

SameStory(q, r) == q.made = r.made /\ q.billed = r.billed

\* A call that only goes on has the story it had.
LEMMA StoryGoesOn ==
  ASSUME NEW r, NEW q, Story(r),
         SameStory(q, r),
         \/ q.pc = r.pc /\ q.status = r.status
         \/ r.pc = "body" /\ q.pc = "check"
         \/ q.pc \in {"hook", "contracts", "enforce"} /\ q.status = r.status
  PROVE  Story(q)
BY DEF Story, Fresh, SameStory

LEMMA StoriesStep == CallsOK /\ Stories /\ [Next]_vars => Stories'
<1> SUFFICES ASSUME CallsOK, Stories, [Next]_vars PROVE Stories'
  OBVIOUS
<1>0. ASSUME NEW c \in Callers, NEW r, Story(r), call' = [call EXCEPT ![c] = r]
      PROVE  Stories'
  BY <1>0 DEF Stories, CallsOK
<1>1. \A c \in Callers : Story(call[c]) /\ call[c] \in Usage
  BY DEF Stories, CallsOK
<1>2. ASSUME NEW c \in Callers,
             \/ call' = [call EXCEPT ![c] = Raise(call[c])]
             \/ call' = [call EXCEPT ![c] = Idle]
      PROVE  Stories'
  BY <1>0, <1>1, <1>2, StoryOfRaise
<1>3. ASSUME NEW c \in Callers, NEW way \in Ways, NEW kind \in Kinds, Begin(c, way, kind)
      PROVE  Stories'
  <2> DEFINE r == [Idle EXCEPT !.pc = IF way = "record" THEN "check" ELSE "body",
                    !.way = way, !.on = kind.on, !.known = kind.known, !.left = kind.on]
  <2>1. r.made = <<>> /\ r.billed = 0 /\ r.pc \in {"check", "body"}
    BY DEF Idle
  <2>2. call' = [call EXCEPT ![c] = r]
    BY <1>3 DEF Begin
  <2> HIDE DEF r
  <2>3. Story(r)
    BY <2>1 DEF Story, Fresh
  <2> QED BY <1>0, <2>2, <2>3
<1>4. ASSUME NEW c \in Callers, NEW status \in {"success", "error"}, BodyEnds(c, status)
      PROVE  Stories'
  <2> DEFINE r == [call[c] EXCEPT !.pc = "check", !.status = status]
  <2>1. SameStory(r, call[c]) /\ r.pc = "check" /\ call[c].pc = "body"
    BY <1>1, <1>4 DEF BodyEnds, At, Usage, SameStory
  <2>2. call' = [call EXCEPT ![c] = r]
    BY <1>4 DEF BodyEnds
  <2> HIDE DEF r
  <2> QED BY <1>0, <1>1, <2>1, <2>2, StoryGoesOn
<1>5. ASSUME NEW c \in Callers, BodyCancelled(c)  PROVE Stories'
  <2>1. CASE call[c].way = "usage"
    <3> DEFINE r == [call[c] EXCEPT !.pc = "check", !.status = "error"]
    <3>1. SameStory(r, call[c]) /\ r.pc = "check" /\ call[c].pc = "body"
      BY <1>1, <1>5 DEF BodyCancelled, At, Usage, SameStory
    <3>2. call' = [call EXCEPT ![c] = r]
      BY <1>5, <2>1 DEF BodyCancelled
    <3> HIDE DEF r
    <3> QED BY <1>0, <1>1, <3>1, <3>2, StoryGoesOn
  <2>2. CASE call[c].way # "usage"
    BY <1>2, <1>5, <2>2 DEF BodyCancelled
  <2> QED BY <2>1, <2>2
<1>6. ASSUME NEW c \in Callers, NEW left,
             call' = [call EXCEPT ![c] = [call[c] EXCEPT !.left = left]]
      PROVE  Stories'
  <2> DEFINE r == [call[c] EXCEPT !.left = left]
  <2>1. SameStory(r, call[c]) /\ r.pc = call[c].pc /\ r.status = call[c].status
    BY <1>1 DEF Usage, SameStory
  <2> HIDE DEF r
  <2> QED BY <1>0, <1>1, <1>6, <2>1, StoryGoesOn DEF r
<1>7. ASSUME NEW c \in Callers, UnknownModel(c)  PROVE Stories'
  BY <1>2, <1>7 DEF UnknownModel
<1>8. ASSUME NEW c \in Callers, NEW b \in Budgets, BudgetHasRoom(c, b)  PROVE Stories'
  BY <1>6, <1>8 DEF BudgetHasRoom
<1>9. ASSUME NEW c \in Callers, NEW b \in Budgets, BudgetExceeded(c, b)  PROVE Stories'
  <2>1. CASE config.ghost
    <3> DEFINE r == [call[c] EXCEPT !.ghost = TRUE, !.left = {}]
    <3>1. SameStory(r, call[c]) /\ r.pc = call[c].pc /\ r.status = call[c].status
      BY <1>1 DEF Usage, SameStory
    <3>2. call' = [call EXCEPT ![c] = r]
      BY <1>9, <2>1 DEF BudgetExceeded
    <3> HIDE DEF r
    <3> QED BY <1>0, <1>1, <3>1, <3>2, StoryGoesOn
  <2>2. CASE ~config.ghost
    BY <1>2, <1>9, <2>2 DEF BudgetExceeded
  <2> QED BY <2>1, <2>2
<1>10. ASSUME NEW c \in Callers, NEW phase \in {"hook", "contracts", "enforce"}, NEW r,
              call' = [call EXCEPT ![c] = r], r.pc = phase, r.status = call[c].status,
              SameStory(r, call[c])
       PROVE  Stories'
  BY <1>0, <1>1, <1>10, StoryGoesOn
<1>11. ASSUME NEW c \in Callers, GhostDropped(c)  PROVE Stories'
  <2> DEFINE r == [call[c] EXCEPT !.pc = "hook"]
  <2>1. r.pc = "hook" /\ r.status = call[c].status /\ SameStory(r, call[c])
    BY <1>1 DEF Usage, SameStory
  <2>2. call' = [call EXCEPT ![c] = r]
    BY <1>11 DEF GhostDropped
  <2> HIDE DEF r
  <2> QED BY <1>10, <2>1, <2>2
<1>12. ASSUME NEW c \in Callers, NEW amount \in Costs, StoreRecord(c, amount)  PROVE Stories'
  <2> DEFINE billable == {b \in Budgets : ChargedTo(call[c], b)}
             n == IF billable = {} THEN call[c].billed ELSE call[c].billed + 1
  <2>1. n \in Nat /\ (n = call[c].billed \/ (n = call[c].billed + 1 /\ call[c].status = "success"))
    <3>1. call[c].billed \in Nat
      BY <1>1 DEF Usage
    <3> QED BY <3>1 DEF ChargedTo
  <2>2. /\ call[c].pc = "check"
        /\ call' = [call EXCEPT ![c] = [call[c] EXCEPT !.pc = "hook", !.cost = Priced(c, amount),
                      !.made = Append(call[c].made, call[c].status), !.billed = n]]
    BY <1>12 DEF StoreRecord, Admitted, At
  <2> HIDE DEF n, billable
  <2> QED BY <1>0, <1>1, <2>1, <2>2, StoryOfStore
<1>13. ASSUME NEW c \in Callers, NEW amount \in Costs, StoreFails(c, amount)  PROVE Stories'
  <2> DEFINE r == [call[c] EXCEPT !.pc = "hook", !.cost = Priced(c, amount)]
  <2>1. r.pc = "hook" /\ r.status = call[c].status /\ SameStory(r, call[c])
    BY <1>1 DEF Usage, SameStory
  <2>2. call' = [call EXCEPT ![c] = r]
    BY <1>13 DEF StoreFails
  <2> HIDE DEF r
  <2> QED BY <1>10, <2>1, <2>2
<1>14. ASSUME NEW c \in Callers, HookReturns(c)  PROVE Stories'
  <2> DEFINE r == [call[c] EXCEPT !.pc = "contracts"]
  <2>1. r.pc = "contracts" /\ r.status = call[c].status /\ SameStory(r, call[c])
    BY <1>1 DEF Usage, SameStory
  <2>2. call' = [call EXCEPT ![c] = r] \/ call' = [call EXCEPT ![c] = Idle]
    BY <1>14 DEF HookReturns
  <2> HIDE DEF r
  <2> QED BY <1>2, <1>10, <2>1, <2>2
<1>15. ASSUME NEW c \in Callers, HookRaises(c)  PROVE Stories'
  <2> DEFINE r == [call[c] EXCEPT !.hookRaised = TRUE]
  <2>1. /\ r \in Usage /\ r.pc = call[c].pc /\ r.status = call[c].status
        /\ SameStory(r, call[c])
    BY <1>1 DEF Usage, SameStory
  <2>2. call' = [call EXCEPT ![c] = Raise(r)]
    BY <1>15 DEF HookRaises
  <2> HIDE DEF r
  <2>3. Story(r)
    BY <1>1, <2>1, StoryGoesOn
  <2> QED BY <1>0, <2>1, <2>2, <2>3, StoryOfRaise
<1>16. ASSUME NEW c \in Callers, CheckContract(c)  PROVE Stories'
  <2> DEFINE k == call[c].at
             next == IF charged'[k] > MaxCost[k] THEN Contracts + 1 ELSE k + 1
             r == [call[c] EXCEPT !.at = next]
  <2>1. r.pc = call[c].pc /\ r.status = call[c].status /\ SameStory(r, call[c])
    BY <1>1 DEF Usage, SameStory
  <2>2. call' = [call EXCEPT ![c] = r]
    BY <1>16 DEF CheckContract
  <2> HIDE DEF r
  <2> QED BY <1>0, <1>1, <2>1, <2>2, StoryGoesOn
<1>17. ASSUME NEW c \in Callers, ContractsDone(c)  PROVE Stories'
  <2> DEFINE r == [call[c] EXCEPT !.pc = "enforce", !.left = ToEnforce(call[c])]
  <2>1. r.pc = "enforce" /\ r.status = call[c].status /\ SameStory(r, call[c])
    BY <1>1 DEF Usage, SameStory
  <2>2. call' = [call EXCEPT ![c] = r]
    BY <1>17 DEF ContractsDone
  <2> HIDE DEF r
  <2> QED BY <1>10, <2>1, <2>2
<1>18. ASSUME NEW c \in Callers, NEW b \in Budgets, WithinMargin(c, b)  PROVE Stories'
  BY <1>6, <1>18 DEF WithinMargin
<1>19. ASSUME NEW c \in Callers, NEW b \in Budgets, Overrun(c, b)  PROVE Stories'
  <2>1. CASE call[c].ghost
    <3>1. call' = [call EXCEPT ![c] = [call[c] EXCEPT !.left = call[c].left \ {b}]]
      BY <1>19, <2>1 DEF Overrun
    <3> QED BY <1>6, <3>1
  <2>2. CASE ~call[c].ghost
    BY <1>2, <1>19, <2>2 DEF Overrun
  <2> QED BY <2>1, <2>2
<1>23. ASSUME NEW c \in Callers, NEW b \in Budgets, CallbackRaises(c, b)  PROVE Stories'
  <2>1. call' = [call EXCEPT ![c] = [call[c] EXCEPT !.left = call[c].left \ {b}]]
    BY <1>23 DEF CallbackRaises
  <2> QED BY <1>6, <2>1
<1>20. ASSUME NEW c \in Callers, Return(c)  PROVE Stories'
  BY <1>2, <1>20 DEF Return
<1>21. ASSUME NEW b \in Windowed, NewWindow(b)  PROVE Stories'
  <2> SUFFICES ASSUME NEW c \in Callers PROVE Story(call'[c])
    BY DEF Stories
  <2>1. call'[c] = call[c] \/ call'[c] = [call[c] EXCEPT !.rolled = TRUE]
    BY <1>21 DEF NewWindow
  <2>2. /\ call'[c].pc = call[c].pc /\ call'[c].status = call[c].status
        /\ SameStory(call'[c], call[c])
    BY <1>1, <2>1 DEF Usage, SameStory
  <2> QED BY <1>1, <2>2, StoryGoesOn
<1>22. CASE UNCHANGED vars
  BY <1>22 DEF vars, Stories
<1> QED
  BY <1>3, <1>4, <1>5, <1>7, <1>8, <1>9, <1>11, <1>12, <1>13, <1>14, <1>15, <1>16, <1>17,
     <1>18, <1>19, <1>20, <1>21, <1>22, <1>23 DEF Next, Step

\* However often a call raises and is recorded again, it is billed once, for its
\* first record (BilledOnce; record_usage, usage, track).
THEOREM BilledOnlyOnce == Spec => []BilledOnce
<1>1. Init => TypeOK /\ Stories
  BY TypeInit DEF Init, Stories, Story, Fresh, Idle
<1>2. TypeOK /\ Stories /\ [Next]_vars => (TypeOK /\ Stories)'
  BY TypeStep, StoriesStep DEF TypeOK, CallsOK, Sound
<1>3. Stories => BilledOnce
  BY DEF Stories, Story, BilledOnce
<1> QED BY <1>1, <1>2, <1>3, PTL DEF Spec

-----------------------------------------------------------------------------
(* The overspend of callers that are admitted together.  As in the request *)
(* pipeline, each caller that found room may yet store one record; spend   *)
(* and these promises stay within the bound together.                      *)

\* A call that found room in budget b and has not stored its record.
Promises(r, b) ==
  /\ r.pc = "body" \/ (r.pc = "check" /\ r.status = "success")
  /\ ~r.ghost /\ b \in r.on \ r.left
Holding(b) == {c \in Callers : Promises(call[c], b)}
InFlight(b) == Cardinality(Holding(b))
WithinPromise(b) ==
  spent[b] + InFlight(b) * TopCost <= Limit[b] + Cardinality(Callers) * TopCost

LEMMA HoldingSize ==
  ASSUME NEW b
  PROVE  /\ IsFiniteSet(Holding(b)) /\ InFlight(b) \in Nat
         /\ InFlight(b) <= Cardinality(Callers) /\ Cardinality(Callers) \in Nat
<1>1. Holding(b) \in SUBSET Callers /\ IsFiniteSet(Callers)
  BY RecordingConstants DEF Holding
<1> QED BY <1>1, FS_Subset, FS_CardinalityType DEF InFlight

\* A product with a larger natural number is no smaller.
LEMMA ProductMonotone ==
  ASSUME NEW m \in Nat, NEW n \in Nat, NEW k \in Nat, m <= n
  PROVE  m * k <= n * k /\ m * k \in Nat /\ n * k \in Nat
OBVIOUS

\* Neither more spend nor more promises: the bound stays.
LEMMA PromisesShrink ==
  ASSUME OthersOK, OthersOK', NEW b \in Budgets, WithinPromise(b),
         Holding(b)' \subseteq Holding(b), spent'[b] <= spent[b]
  PROVE  WithinPromise(b)'
<1>1. /\ IsFiniteSet(Holding(b)) /\ InFlight(b) \in Nat /\ Cardinality(Callers) \in Nat
  BY HoldingSize
<1>2. InFlight(b)' \in Nat /\ InFlight(b)' <= InFlight(b)
  BY <1>1, FS_Subset, FS_CardinalityType DEF InFlight
<1>3. /\ InFlight(b)' * TopCost <= InFlight(b) * TopCost
      /\ InFlight(b)' * TopCost \in Nat /\ InFlight(b) * TopCost \in Nat
  BY <1>1, <1>2, ProductMonotone, RecordingConstants
<1>4. Cardinality(Callers) * TopCost \in Nat
  BY <1>1, ProductMonotone, RecordingConstants
<1>5. spent[b] \in Nat /\ spent'[b] \in Nat /\ Limit[b] \in Nat
  BY RecordingConstants DEF OthersOK
<1> QED BY <1>3, <1>4, <1>5 DEF WithinPromise

\* A budget within its limit is within the bound, whatever is promised.
LEMMA PromiseMade ==
  ASSUME OthersOK', NEW b \in Budgets, spent'[b] <= Limit[b]
  PROVE  WithinPromise(b)'
<1>1. spent'[b] \in Nat /\ Limit[b] \in Nat
  BY RecordingConstants DEF OthersOK
<1>2. InFlight(b)' \in Nat /\ Cardinality(Callers) \in Nat /\ InFlight(b)' <= Cardinality(Callers)
  <2>1. Holding(b)' \in SUBSET Callers /\ IsFiniteSet(Callers)
    BY RecordingConstants DEF Holding
  <2> QED BY <2>1, FS_Subset, FS_CardinalityType DEF InFlight
<1>3. InFlight(b)' * TopCost <= Cardinality(Callers) * TopCost
      /\ InFlight(b)' * TopCost \in Nat /\ Cardinality(Callers) * TopCost \in Nat
  BY <1>2, ProductMonotone, RecordingConstants
<1> QED BY <1>1, <1>3 DEF WithinPromise

\* A record that counts towards the budget redeems the promise of its call.
LEMMA PromiseRedeemed ==
  ASSUME OthersOK, OthersOK', NEW b \in Budgets, WithinPromise(b), NEW c \in Holding(b),
         Holding(b)' = Holding(b) \ {c}, NEW price \in 0..TopCost, spent'[b] = spent[b] + price
  PROVE  WithinPromise(b)'
<1>1. IsFiniteSet(Holding(b)) /\ InFlight(b) \in Nat /\ Cardinality(Callers) \in Nat
  BY HoldingSize
<1>2. InFlight(b)' = InFlight(b) - 1
  BY <1>1, FS_RemoveElement DEF InFlight
<1>3. InFlight(b) # 0
  BY <1>1, FS_EmptySet DEF InFlight
<1>4. TopCost \in Nat /\ price \in Nat /\ price <= TopCost
  BY RecordingConstants
<1>5. /\ InFlight(b) * TopCost = InFlight(b)' * TopCost + TopCost
      /\ InFlight(b) * TopCost \in Nat /\ InFlight(b)' * TopCost \in Nat
      /\ Cardinality(Callers) * TopCost \in Nat
  BY <1>1, <1>2, <1>3, <1>4
<1>6. spent[b] \in Nat /\ spent'[b] \in Nat /\ Limit[b] \in Nat
  BY RecordingConstants DEF OthersOK
<1> QED BY <1>4, <1>5, <1>6 DEF WithinPromise

\* A call that raises, or is over, promises nothing.
LEMMA RaisedPromisesNothing ==
  ASSUME NEW r \in Usage, NEW b
  PROVE  ~Promises(Raise(r), b) /\ ~Promises(Idle, b)
<1>1. ~Promises(Idle, b)
  BY DEF Promises, Idle
<1>2. CASE RecordedAgain(r)
  BY <1>1, <1>2 DEF Raise, Promises, Usage
<1>3. CASE ~RecordedAgain(r)
  BY <1>1, <1>3 DEF Raise
<1> QED BY <1>1, <1>2, <1>3

LEMMA PromiseStep ==
  ASSUME OthersOK, CallsOK, OthersOK', [Next]_vars, NEW b \in Budgets, WithinPromise(b)
  PROVE  WithinPromise(b)'
<1>0. ASSUME NEW c \in Callers, NEW r, call' = [call EXCEPT ![c] = r],
             Promises(r, b) => Promises(call[c], b), spent' = spent
      PROVE  WithinPromise(b)'
  <2>1. Holding(b)' \subseteq Holding(b)
    BY <1>0 DEF Holding, CallsOK
  <2>2. spent'[b] <= spent[b]
    BY <1>0 DEF OthersOK
  <2> QED BY <2>1, <2>2, PromisesShrink
<1>1. \A c \in Callers : call[c] \in Usage
  BY DEF CallsOK
<1>2. ASSUME NEW c \in Callers, spent' = spent,
             \/ call' = [call EXCEPT ![c] = Raise(call[c])]
             \/ call' = [call EXCEPT ![c] = Idle]
      PROVE  WithinPromise(b)'
  BY <1>0, <1>1, <1>2, RaisedPromisesNothing
<1>3. ASSUME NEW c \in Callers, NEW way \in Ways, NEW kind \in Kinds, Begin(c, way, kind)
      PROVE  WithinPromise(b)'
  <2> DEFINE r == [Idle EXCEPT !.pc = IF way = "record" THEN "check" ELSE "body",
                    !.way = way, !.on = kind.on, !.known = kind.known, !.left = kind.on]
  <2>1. ~Promises(r, b)
    BY DEF Promises, Idle
  <2>2. call' = [call EXCEPT ![c] = r] /\ spent' = spent
    BY <1>3 DEF Begin
  <2> HIDE DEF r
  <2> QED BY <1>0, <2>1, <2>2
<1>4. ASSUME NEW c \in Callers, NEW status \in {"success", "error"}, call[c].pc = "body",
             call' = [call EXCEPT ![c] = [call[c] EXCEPT !.pc = "check", !.status = status]],
             spent' = spent
      PROVE  WithinPromise(b)'
  <2> DEFINE r == [call[c] EXCEPT !.pc = "check", !.status = status]
  <2>1. Promises(r, b) => Promises(call[c], b)
    BY <1>1, <1>4 DEF Promises, Usage
  <2> HIDE DEF r
  <2> QED BY <1>0, <1>4, <2>1 DEF r
<1>5. ASSUME NEW c \in Callers, NEW status \in {"success", "error"}, BodyEnds(c, status)
      PROVE  WithinPromise(b)'
  BY <1>4, <1>5 DEF BodyEnds, At
<1>6. ASSUME NEW c \in Callers, BodyCancelled(c)  PROVE WithinPromise(b)'
  <2>1. CASE call[c].way = "usage"
    <3>1. /\ call' = [call EXCEPT ![c] = [call[c] EXCEPT !.pc = "check", !.status = "error"]]
          /\ spent' = spent /\ call[c].pc = "body"
      BY <1>6, <2>1 DEF BodyCancelled, At
    <3> QED BY <1>4, <3>1
  <2>2. CASE call[c].way # "usage"
    BY <1>2, <1>6, <2>2 DEF BodyCancelled
  <2> QED BY <2>1, <2>2
<1>7. ASSUME NEW c \in Callers, UnknownModel(c)  PROVE WithinPromise(b)'
  BY <1>2, <1>7 DEF UnknownModel
<1>8. ASSUME NEW c \in Callers, NEW d \in Budgets, BudgetHasRoom(c, d)  PROVE WithinPromise(b)'
  <2>1. CASE d = b
    <3>1. PICK est \in Estimates : spent[b] + est <= Limit[b]
      BY <1>8, <2>1 DEF BudgetHasRoom
    <3>2. est \in Nat /\ spent[b] \in Nat /\ Limit[b] \in Nat /\ spent' = spent
      BY <1>8, RecordingConstants DEF BudgetHasRoom, OthersOK
    <3> QED BY <3>1, <3>2, PromiseMade
  <2>2. CASE d # b
    <3> DEFINE r == [call[c] EXCEPT !.left = call[c].left \ {d}]
    <3>1. Promises(r, b) => Promises(call[c], b)
      BY <1>1, <2>2 DEF Promises, Usage
    <3>2. call' = [call EXCEPT ![c] = r] /\ spent' = spent
      BY <1>8 DEF BudgetHasRoom, AfterRoom
    <3> HIDE DEF r
    <3> QED BY <1>0, <3>1, <3>2
  <2> QED BY <2>1, <2>2
<1>9. ASSUME NEW c \in Callers, NEW d \in Budgets, BudgetExceeded(c, d)  PROVE WithinPromise(b)'
  <2>1. CASE config.ghost
    <3> DEFINE r == [call[c] EXCEPT !.ghost = TRUE, !.left = {}]
    <3>1. ~Promises(r, b)
      BY <1>1 DEF Promises, Usage
    <3>2. call' = [call EXCEPT ![c] = r] /\ spent' = spent
      BY <1>9, <2>1 DEF BudgetExceeded
    <3> HIDE DEF r
    <3> QED BY <1>0, <3>1, <3>2
  <2>2. CASE ~config.ghost
    BY <1>2, <1>9, <2>2 DEF BudgetExceeded
  <2> QED BY <2>1, <2>2
<1>10. ASSUME NEW c \in Callers, NEW r, call' = [call EXCEPT ![c] = r], spent' = spent,
              r.pc \in {"hook", "contracts", "enforce"}
       PROVE  WithinPromise(b)'
  BY <1>0, <1>10 DEF Promises
<1>11. ASSUME NEW c \in Callers, GhostDropped(c)  PROVE WithinPromise(b)'
  <2>1. [call[c] EXCEPT !.pc = "hook"].pc = "hook"
    BY <1>1 DEF Usage
  <2> QED BY <1>10, <1>11, <2>1 DEF GhostDropped
<1>12. ASSUME NEW c \in Callers, NEW amount \in Costs, StoreRecord(c, amount)
       PROVE  WithinPromise(b)'
  <2> DEFINE billable == {d \in Budgets : ChargedTo(call[c], d)}
             r == [call[c] EXCEPT !.pc = "hook", !.cost = Priced(c, amount),
                     !.made = Append(call[c].made, call[c].status),
                     !.billed = IF billable = {} THEN call[c].billed ELSE call[c].billed + 1]
  <2>1. /\ call' = [call EXCEPT ![c] = r]
        /\ spent'[b] = IF b \in billable THEN spent[b] + Priced(c, amount) ELSE spent[b]
        /\ call[c].pc = "check" /\ call[c].left = {}
    BY <1>12 DEF StoreRecord, Admitted, At, OthersOK
  <2>2. ~Promises(r, b)
    BY <1>1 DEF Promises, Usage
  <2>3. Priced(c, amount) \in 0..TopCost
    BY PricedType
  <2>4. CASE b \in billable
    <3>1. c \in Holding(b)
      BY <2>1, <2>4 DEF Holding, Promises, ChargedTo
    <3> HIDE DEF r
    <3>2. Holding(b)' = Holding(b) \ {c}
      BY <2>1, <2>2 DEF Holding, CallsOK
    <3> HIDE DEF billable
    <3> QED BY <2>1, <2>3, <2>4, <3>1, <3>2, PromiseRedeemed
  <2>5. CASE b \notin billable
    <3> HIDE DEF r
    <3>1. Holding(b)' \subseteq Holding(b)
      BY <2>1, <2>2 DEF Holding, CallsOK
    <3> HIDE DEF billable
    <3>2. spent'[b] <= spent[b]
      BY <2>1, <2>5 DEF OthersOK
    <3> QED BY <3>1, <3>2, PromisesShrink
  <2> QED BY <2>4, <2>5
<1>13. ASSUME NEW c \in Callers, NEW amount \in Costs, StoreFails(c, amount)
       PROVE  WithinPromise(b)'
  <2>1. [call[c] EXCEPT !.pc = "hook", !.cost = Priced(c, amount)].pc = "hook"
    BY <1>1 DEF Usage
  <2> QED BY <1>10, <1>13, <2>1 DEF StoreFails
<1>14. ASSUME NEW c \in Callers, HookReturns(c)  PROVE WithinPromise(b)'
  <2>1. [call[c] EXCEPT !.pc = "contracts"].pc = "contracts"
    BY <1>1 DEF Usage
  <2> QED BY <1>2, <1>10, <1>14, <2>1 DEF HookReturns
<1>15. ASSUME NEW c \in Callers, HookRaises(c)  PROVE WithinPromise(b)'
  <2> DEFINE r == [call[c] EXCEPT !.hookRaised = TRUE]
  <2>1. r \in Usage
    BY <1>1 DEF Usage
  <2>2. call' = [call EXCEPT ![c] = Raise(r)] /\ spent' = spent
    BY <1>15 DEF HookRaises
  <2> HIDE DEF r
  <2> QED BY <1>0, <2>1, <2>2, RaisedPromisesNothing
<1>16. ASSUME NEW c \in Callers, NEW r, call' = [call EXCEPT ![c] = r], spent' = spent,
              r.pc = call[c].pc, call[c].pc \in {"contracts", "enforce"}
       PROVE  WithinPromise(b)'
  BY <1>10, <1>16
<1>17. ASSUME NEW c \in Callers, CheckContract(c)  PROVE WithinPromise(b)'
  <2> DEFINE k == call[c].at
             r == [call[c] EXCEPT !.at = IF charged'[k] > MaxCost[k] THEN Contracts + 1 ELSE k + 1]
  <2>1. r.pc = call[c].pc
    BY <1>1 DEF Usage
  <2>2. call' = [call EXCEPT ![c] = r] /\ spent' = spent /\ call[c].pc = "contracts"
    BY <1>17 DEF CheckContract, At
  <2> HIDE DEF r
  <2> QED BY <1>16, <2>1, <2>2
<1>18. ASSUME NEW c \in Callers, ContractsDone(c)  PROVE WithinPromise(b)'
  <2>1. [call[c] EXCEPT !.pc = "enforce", !.left = ToEnforce(call[c])].pc = "enforce"
    BY <1>1 DEF Usage
  <2> QED BY <1>10, <1>18, <2>1 DEF ContractsDone
<1>19. ASSUME NEW c \in Callers, NEW d \in Budgets, call[c].pc = "enforce", spent' = spent,
              call' = [call EXCEPT ![c] = [call[c] EXCEPT !.left = call[c].left \ {d}]]
       PROVE  WithinPromise(b)'
  <2>1. [call[c] EXCEPT !.left = call[c].left \ {d}].pc = call[c].pc
    BY <1>1 DEF Usage
  <2> QED BY <1>16, <1>19, <2>1
<1>20. ASSUME NEW c \in Callers, NEW d \in Budgets, WithinMargin(c, d)  PROVE WithinPromise(b)'
  BY <1>19, <1>20 DEF WithinMargin, At
<1>21. ASSUME NEW c \in Callers, NEW d \in Budgets, Overrun(c, d)  PROVE WithinPromise(b)'
  <2>1. CASE call[c].ghost
    <3>1. /\ call' = [call EXCEPT ![c] = [call[c] EXCEPT !.left = call[c].left \ {d}]]
          /\ spent' = spent /\ call[c].pc = "enforce"
      BY <1>21, <2>1 DEF Overrun, At
    <3> QED BY <1>19, <3>1
  <2>2. CASE ~call[c].ghost
    BY <1>2, <1>21, <2>2 DEF Overrun
  <2> QED BY <2>1, <2>2
<1>25. ASSUME NEW c \in Callers, NEW d \in Budgets, CallbackRaises(c, d)
       PROVE  WithinPromise(b)'
  <2>1. /\ call' = [call EXCEPT ![c] = [call[c] EXCEPT !.left = call[c].left \ {d}]]
        /\ spent' = spent /\ call[c].pc = "enforce"
    BY <1>25 DEF CallbackRaises, At
  <2> QED BY <1>19, <2>1
<1>22. ASSUME NEW c \in Callers, Return(c)  PROVE WithinPromise(b)'
  BY <1>2, <1>22 DEF Return
<1>23. ASSUME NEW d \in Windowed, NewWindow(d)  PROVE WithinPromise(b)'
  <2>1. \A c \in Callers : Promises(call'[c], b) => Promises(call[c], b)
    <3> TAKE c \in Callers
    <3>1. call'[c] = call[c] \/ call'[c] = [call[c] EXCEPT !.rolled = TRUE]
      BY <1>23 DEF NewWindow
    <3> QED BY <1>1, <3>1 DEF Promises, Usage
  <2>2. Holding(b)' \subseteq Holding(b)
    BY <2>1 DEF Holding
  <2>3. spent'[b] <= spent[b]
    BY <1>23 DEF NewWindow, OthersOK
  <2> QED BY <2>2, <2>3, PromisesShrink
<1>24. CASE UNCHANGED vars
  <2>1. Holding(b)' = Holding(b) /\ spent'[b] <= spent[b]
    BY <1>24 DEF vars, Holding, OthersOK
  <2> QED BY <2>1, PromisesShrink
<1> QED
  BY <1>3, <1>5, <1>6, <1>7, <1>8, <1>9, <1>11, <1>12, <1>13, <1>14, <1>15, <1>17, <1>18,
     <1>20, <1>21, <1>22, <1>23, <1>24, <1>25 DEF Next, Step

SpendInv == TypeOK /\ \A b \in Budgets : WithinPromise(b)

\* Callers that record together overspend a budget by at most one record each
\* (OverspendBounded), in blocks and decorators too, whatever raises.
THEOREM RecordedOverspendIsBounded == Spec => []OverspendBounded
<1>1. Init => SpendInv
  <2> SUFFICES ASSUME Init, NEW b \in Budgets PROVE WithinPromise(b)
    BY TypeInit DEF SpendInv
  <2>1. spent[b] = 0 /\ Limit[b] \in Nat
    BY RecordingConstants DEF Init
  <2>2. InFlight(b) \in Nat /\ Cardinality(Callers) \in Nat /\ InFlight(b) <= Cardinality(Callers)
    BY HoldingSize
  <2>3. InFlight(b) * TopCost <= Cardinality(Callers) * TopCost
        /\ InFlight(b) * TopCost \in Nat /\ Cardinality(Callers) * TopCost \in Nat
    BY <2>2, ProductMonotone, RecordingConstants
  <2> QED BY <2>1, <2>3 DEF WithinPromise
<1>2. SpendInv /\ [Next]_vars => SpendInv'
  <2> SUFFICES ASSUME SpendInv, [Next]_vars PROVE SpendInv'
    OBVIOUS
  <2>1. TypeOK /\ TypeOK'
    BY TypeStep DEF SpendInv
  <2>2. OthersOK /\ CallsOK /\ OthersOK'
    BY <2>1 DEF TypeOK, OthersOK, CallsOK, Sound
  <2> QED BY <2>1, <2>2, PromiseStep DEF SpendInv
<1>3. SpendInv => OverspendBounded
  <2> SUFFICES ASSUME SpendInv, NEW b \in Budgets
               PROVE  spent[b] <= Limit[b] + Cardinality(Callers) * TopCost
    BY DEF OverspendBounded
  <2>1. spent[b] \in Nat /\ Limit[b] \in Nat
    BY RecordingConstants DEF SpendInv, TypeOK
  <2>2. InFlight(b) \in Nat /\ Cardinality(Callers) \in Nat
    BY HoldingSize
  <2>3. InFlight(b) * TopCost \in Nat /\ Cardinality(Callers) * TopCost \in Nat
    BY <2>2, ProductMonotone, RecordingConstants
  <2> QED BY <2>1, <2>3 DEF SpendInv, WithinPromise
<1> QED BY <1>1, <1>2, <1>3, PTL DEF Spec

-----------------------------------------------------------------------------
(* Enforcement after the record is stored, and what follows from it for    *)
(* the second record of a decorated call.                                  *)

\* A record of a ghost that is not kept is never enforced, so its caller is not
\* among those that NoSilentOverrun may count on.
Looks(r, b) ==
  \/ r.pc = "hook" /\ r.status = "success" /\ b \in r.on /\ ~Dropped(r)
  \/ r.pc = "contracts" /\ r.status = "success" /\ b \in r.on
  \/ r.pc = "enforce" /\ b \in r.left
Tended(b) == OverMargin(b) => told[b] \/ \E c \in Callers : Looks(call[c], b)

LEMMA SettingsFixed ==
  ASSUME [Next]_vars
  PROVE  config' = config /\ (mishaps' = mishaps \/ mishaps' = mishaps + 1)
BY DEF Next, Step, vars, Begin, BodyEnds, BodyCancelled, UnknownModel, BudgetHasRoom,
  BudgetExceeded, GhostDropped, StoreRecord, StoreFails, HookReturns, HookRaises,
  CheckContract, ContractsDone, WithinMargin, Overrun, CallbackRaises, Return, NewWindow

LEMMA TendStep ==
  ASSUME OthersOK, CallsOK, [Next]_vars, config.strict, mishaps' = 0,
         NEW b \in Budgets, Tended(b)
  PROVE  Tended(b)'
<1>0. ASSUME NEW c \in Callers, NEW r, call' = [call EXCEPT ![c] = r],
             Looks(call[c], b) => Looks(r, b) \/ told'[b] = TRUE \/ ~OverMargin(b),
             told'[b] = told[b] \/ told'[b] = TRUE, spent' = spent, config' = config
      PROVE  Tended(b)'
  <2>1. OverMargin(b)' <=> OverMargin(b)
    BY <1>0 DEF OverMargin
  <2>2. \A d \in Callers \ {c} : call'[d] = call[d]
    BY <1>0
  <2>3. call'[c] = r
    BY <1>0 DEF CallsOK
  <2>4. \A q : Looks(q, b)' <=> Looks(q, b)
    BY <1>0 DEF Looks, Dropped
  <2> QED BY <1>0, <2>1, <2>2, <2>3, <2>4 DEF Tended, Looks, Dropped
<1>1. \A c \in Callers : call[c] \in Usage /\ call[c].left \subseteq call[c].on
  BY DEF CallsOK, Sound
<1>2. config' = config /\ mishaps = 0
  BY SettingsFixed DEF OthersOK
\* A call that is not past its hook is nobody to count on.
<1>3. ASSUME NEW c \in Callers, NEW r, call' = [call EXCEPT ![c] = r], UNCHANGED <<spent, told>>,
             call[c].pc \in {"idle", "body", "check"}
      PROVE  Tended(b)'
  BY <1>0, <1>2, <1>3 DEF Looks
<1>4. ASSUME NEW c \in Callers, NEW way \in Ways, NEW kind \in Kinds, Begin(c, way, kind)
      PROVE  Tended(b)'
  BY <1>3, <1>4 DEF Begin, At
<1>5. ASSUME NEW c \in Callers, NEW status \in {"success", "error"}, BodyEnds(c, status)
      PROVE  Tended(b)'
  <2>1. call' = [call EXCEPT ![c] = [call[c] EXCEPT !.pc = "check", !.status = status]]
    BY <1>5 DEF BodyEnds
  <2> QED BY <1>3, <1>5, <2>1 DEF BodyEnds, At
<1>6. ASSUME NEW c \in Callers, BodyCancelled(c)  PROVE Tended(b)'
  BY <1>3, <1>6 DEF BodyCancelled, At
<1>7. ASSUME NEW c \in Callers, UnknownModel(c)  PROVE Tended(b)'
  BY <1>3, <1>7 DEF UnknownModel, At
<1>8. ASSUME NEW c \in Callers, NEW d \in Budgets, BudgetHasRoom(c, d)  PROVE Tended(b)'
  <2>1. call' = [call EXCEPT ![c] = [call[c] EXCEPT !.left = AfterRoom(c, d)]]
    BY <1>8 DEF BudgetHasRoom
  <2> QED BY <1>3, <1>8, <2>1 DEF BudgetHasRoom, At
<1>9. ASSUME NEW c \in Callers, NEW d \in Budgets, BudgetExceeded(c, d)  PROVE Tended(b)'
  BY <1>3, <1>9 DEF BudgetExceeded, At
<1>10. ASSUME NEW c \in Callers, GhostDropped(c)  PROVE Tended(b)'
  <2>1. call' = [call EXCEPT ![c] = [call[c] EXCEPT !.pc = "hook"]]
    BY <1>10 DEF GhostDropped
  <2> QED BY <1>3, <1>10, <2>1 DEF GhostDropped, Admitted, At
<1>11. ASSUME NEW c \in Callers, NEW amount \in Costs, StoreRecord(c, amount)  PROVE Tended(b)'
  <2> DEFINE billable == {d \in Budgets : ChargedTo(call[c], d)}
             r == [call[c] EXCEPT !.pc = "hook", !.cost = Priced(c, amount),
                     !.made = Append(call[c].made, call[c].status),
                     !.billed = IF billable = {} THEN call[c].billed ELSE call[c].billed + 1]
  <2>1. /\ call' = [call EXCEPT ![c] = r] /\ told' = told
        /\ spent' = [d \in Budgets |-> IF d \in billable THEN spent[d] + Priced(c, amount)
                                       ELSE spent[d]]
        /\ call[c].pc = "check"
    BY <1>11 DEF StoreRecord, Admitted, At
  <2>2. CASE b \in billable
    <3>1. Looks(r, b)
      BY <1>1, <2>2 DEF ChargedTo, Looks, Dropped, Usage
    <3> HIDE DEF r
    <3>2. call'[c] = r
      BY <2>1 DEF CallsOK
    <3>3. Looks(call'[c], b)
      BY <3>1, <3>2
    <3> QED BY <1>2, <3>3 DEF Tended, Looks, Dropped
  <2>3. CASE b \notin billable
    <3> HIDE DEF r
    <3>1. spent'[b] = spent[b]
      BY <2>1, <2>3
    <3> HIDE DEF billable
    <3>2. OverMargin(b)' <=> OverMargin(b)
      BY <3>1 DEF OverMargin
    <3>3. ~Looks(call[c], b) /\ \A d \in Callers \ {c} : call'[d] = call[d]
      BY <2>1 DEF Looks
    <3> QED BY <1>2, <2>1, <3>2, <3>3 DEF Tended, Looks, Dropped
  <2> QED BY <2>2, <2>3
<1>12. ASSUME NEW c \in Callers, NEW amount \in Costs, StoreFails(c, amount)  PROVE Tended(b)'
  BY <1>2, <1>12 DEF StoreFails
<1>13. ASSUME NEW c \in Callers, HookReturns(c)  PROVE Tended(b)'
  <2>1. CASE Dropped(call[c])
    <3>1. call' = [call EXCEPT ![c] = Idle] /\ UNCHANGED <<spent, told>> /\ call[c].pc = "hook"
      BY <1>13, <2>1 DEF HookReturns, At
    <3>2. ~Looks(call[c], b)
      BY <2>1, <3>1 DEF Looks
    <3> QED BY <1>0, <1>2, <3>1, <3>2
  <2>2. CASE ~Dropped(call[c])
    <3> DEFINE r == [call[c] EXCEPT !.pc = "contracts"]
    <3>1. call' = [call EXCEPT ![c] = r] /\ UNCHANGED <<spent, told>> /\ call[c].pc = "hook"
      BY <1>13, <2>2 DEF HookReturns, At
    <3>2. Looks(call[c], b) => Looks(r, b)
      BY <1>1, <3>1 DEF Looks, Usage
    <3> HIDE DEF r
    <3> QED BY <1>0, <1>2, <3>1, <3>2
  <2> QED BY <2>1, <2>2
<1>14. ASSUME NEW c \in Callers, HookRaises(c)  PROVE Tended(b)'
  BY <1>2, <1>14 DEF HookRaises
<1>15. ASSUME NEW c \in Callers, CheckContract(c)  PROVE Tended(b)'
  <2> DEFINE k == call[c].at
             r == [call[c] EXCEPT !.at = IF charged'[k] > MaxCost[k] THEN Contracts + 1 ELSE k + 1]
  <2>1. call' = [call EXCEPT ![c] = r] /\ UNCHANGED <<spent, told>> /\ call[c].pc = "contracts"
    BY <1>15 DEF CheckContract, At
  <2>2. Looks(call[c], b) => Looks(r, b)
    BY <1>1, <2>1 DEF Looks, Usage
  <2> HIDE DEF r
  <2> QED BY <1>0, <1>2, <2>1, <2>2
<1>16. ASSUME NEW c \in Callers, ContractsDone(c)  PROVE Tended(b)'
  <2> DEFINE r == [call[c] EXCEPT !.pc = "enforce", !.left = ToEnforce(call[c])]
  <2>1. call' = [call EXCEPT ![c] = r] /\ UNCHANGED <<spent, told>> /\ call[c].pc = "contracts"
    BY <1>16 DEF ContractsDone, At
  <2>2. Looks(call[c], b) => Looks(r, b)
    BY <1>1, <2>1 DEF Looks, Usage, ToEnforce
  <2> HIDE DEF r
  <2> QED BY <1>0, <1>2, <2>1, <2>2
<1>17. ASSUME NEW c \in Callers, NEW d \in Budgets, WithinMargin(c, d)  PROVE Tended(b)'
  <2> DEFINE r == [call[c] EXCEPT !.left = call[c].left \ {d}]
  <2>1. /\ call' = [call EXCEPT ![c] = r] /\ UNCHANGED <<spent, told>>
        /\ call[c].pc = "enforce" /\ ~OverMargin(d)
    BY <1>17 DEF WithinMargin, At
  <2>2. Looks(call[c], b) => Looks(r, b) \/ ~OverMargin(b)
    BY <1>1, <2>1 DEF Looks, Usage
  <2> HIDE DEF r
  <2> QED BY <1>0, <1>2, <2>1, <2>2
<1>18. ASSUME NEW c \in Callers, NEW d \in Budgets, Overrun(c, d)  PROVE Tended(b)'
  <2>1. /\ call[c].pc = "enforce" /\ spent' = spent
        /\ told'[b] = (told[b] \/ b = d \/ (~call[c].ghost /\ b \in call[c].on))
    BY <1>18 DEF Overrun, At
  <2>2. told'[b] = told[b] \/ told'[b] = TRUE
    BY <2>1 DEF OthersOK
  <2>3. CASE call[c].ghost
    <3> DEFINE r == [call[c] EXCEPT !.left = call[c].left \ {d}]
    <3>1. call' = [call EXCEPT ![c] = r]
      BY <1>18, <2>3 DEF Overrun
    <3>2. Looks(call[c], b) => Looks(r, b) \/ told'[b] = TRUE
      BY <1>1, <2>1 DEF Looks, Usage
    <3> HIDE DEF r
    <3> QED BY <1>0, <1>2, <2>1, <2>2, <3>1, <3>2
  <2>4. CASE ~call[c].ghost
    <3>1. call' = [call EXCEPT ![c] = Raise(call[c])]
      BY <1>18, <2>4 DEF Overrun
    <3>2. Looks(call[c], b) => told'[b] = TRUE
      BY <1>1, <2>1, <2>4 DEF Looks
    <3> QED BY <1>0, <1>2, <2>1, <2>2, <3>1, <3>2
  <2> QED BY <2>3, <2>4
<1>22. ASSUME NEW c \in Callers, NEW d \in Budgets, CallbackRaises(c, d)  PROVE Tended(b)'
  <2> DEFINE r == [call[c] EXCEPT !.left = call[c].left \ {d}]
  <2>1. call' = [call EXCEPT ![c] = r] /\ spent' = spent /\ call[c].pc = "enforce"
    BY <1>22 DEF CallbackRaises, At
  <2>2. told'[b] = told[b] \/ told'[b] = TRUE
    BY <1>22 DEF CallbackRaises, OthersOK
  <2>3. Looks(call[c], b) => Looks(r, b) \/ told'[b] = TRUE
    BY <1>1, <1>22, <2>1 DEF CallbackRaises, Looks, Usage, OthersOK
  <2> HIDE DEF r
  <2> QED BY <1>0, <1>2, <2>1, <2>2, <2>3
<1>19. ASSUME NEW c \in Callers, Return(c)  PROVE Tended(b)'
  <2>1. /\ call' = [call EXCEPT ![c] = Idle] /\ UNCHANGED <<spent, told>>
        /\ call[c].pc = "enforce" /\ call[c].left = {}
    BY <1>19 DEF Return, At
  <2>2. ~Looks(call[c], b)
    BY <2>1 DEF Looks
  <2> QED BY <1>0, <1>2, <2>1, <2>2
<1>20. ASSUME NEW d \in Windowed, NewWindow(d)  PROVE Tended(b)'
  <2>1. CASE d = b
    <3>1. spent'[b] = 0 /\ Limit[b] \in Nat
      BY <1>20, <2>1, RecordingConstants DEF NewWindow, OthersOK
    <3> QED BY <3>1 DEF Tended, OverMargin
  <2>2. CASE d # b
    <3>1. spent'[b] = spent[b] /\ told'[b] = told[b]
      BY <1>20, <2>2 DEF NewWindow, OthersOK
    <3>2. \A c \in Callers : Looks(call[c], b) => Looks(call'[c], b)
      <4> TAKE c \in Callers
      <4>1. call'[c] = call[c] \/ call'[c] = [call[c] EXCEPT !.rolled = TRUE]
        BY <1>20 DEF NewWindow
      <4> QED BY <1>1, <4>1 DEF Looks, Dropped, Usage
    <3>3. OverMargin(b)' <=> OverMargin(b)
      BY <3>1 DEF OverMargin
    <3> QED BY <1>2, <3>1, <3>2, <3>3 DEF Tended, Looks, Dropped
  <2> QED BY <2>1, <2>2
<1>21. CASE UNCHANGED vars
  BY <1>21 DEF vars, Tended, OverMargin, Looks, Dropped
<1> QED
  BY <1>4, <1>5, <1>6, <1>7, <1>8, <1>9, <1>10, <1>11, <1>12, <1>13, <1>14, <1>15, <1>16,
     <1>17, <1>18, <1>19, <1>20, <1>21, <1>22 DEF Next, Step

SilenceInv == TypeOK /\ (config.strict /\ mishaps = 0 => \A b \in Budgets : Tended(b))

\* Under strict_budget no interleaving leaves a budget over its margin without a
\* caller that was told or is still to look, while hooks and inserts work
\* (NoSilentOverrun).
THEOREM RecordedOverrunNeverSilent == Spec => []NoSilentOverrun
<1>1. Init => SilenceInv
  <2> SUFFICES ASSUME Init, NEW b \in Budgets PROVE Tended(b)
    BY TypeInit DEF SilenceInv
  <2>1. spent[b] = 0 /\ Limit[b] \in Nat
    BY RecordingConstants DEF Init
  <2> QED BY <2>1 DEF Tended, OverMargin
<1>2. SilenceInv /\ [Next]_vars => SilenceInv'
  <2> SUFFICES ASSUME SilenceInv, [Next]_vars PROVE SilenceInv'
    OBVIOUS
  <2>1. TypeOK /\ TypeOK'
    BY TypeStep DEF SilenceInv
  <2>2. OthersOK /\ CallsOK
    BY <2>1 DEF TypeOK, OthersOK, CallsOK, Sound
  <2>3. config' = config /\ (mishaps' = 0 => mishaps = 0)
    BY <2>2, SettingsFixed DEF OthersOK
  <2>4. ASSUME config.strict, mishaps' = 0, NEW b \in Budgets  PROVE Tended(b)'
    BY <2>2, <2>3, <2>4, TendStep DEF SilenceInv
  <2> QED BY <2>1, <2>3, <2>4 DEF SilenceInv
<1>3. SilenceInv => NoSilentOverrun
  BY DEF SilenceInv, Tended, Looks, NoSilentOverrun, WillLook, At
<1> QED BY <1>1, <1>2, <1>3, PTL DEF Spec

-----------------------------------------------------------------------------
(* The second record of a decorated call.  A call that enforcement raised  *)
(* in has, on the list it reads again, a budget that is over its limit;    *)
(* spend only grows within a window, so the budget stays over it.          *)

Barred(r, money) == \E b \in r.left : money[b] > Limit[b]
Fair(r, money) ==
  \/ config.ghost \/ r.hookRaised \/ r.rolled
  \/ Len(r.made) # 2 /\ (r.pc = "check" /\ r.made # <<>> => Barred(r, money))
AllFair == \A c \in Callers : Fair(call[c], spent)

\* A call with no record is fair; so is one that goes on past its checks with
\* the records it had.
LEMMA FairGoesOn ==
  ASSUME NEW r, NEW q, NEW money, Fair(r, money), q.hookRaised = r.hookRaised, q.rolled = r.rolled,
         q.made = r.made, q.pc # "check" \/ q.made = <<>>
  PROVE  Fair(q, money)
BY DEF Fair

LEMMA FairStep ==
  ASSUME OthersOK, CallsOK, Stories, AllFair, [Next]_vars
  PROVE  AllFair'
<1>1. \A c \in Callers : /\ call[c] \in Usage /\ call[c].left \subseteq call[c].on
                         /\ Fair(call[c], spent) /\ Story(call[c])
  BY DEF CallsOK, Sound, AllFair, Stories
<1>2. config' = config
  BY SettingsFixed
<1>3. \A b \in Budgets : spent[b] \in Nat /\ Limit[b] \in Nat
  BY RecordingConstants DEF OthersOK
<1>4. \A c \in Callers : \A b \in call[c].left : b \in Budgets
  BY <1>1 DEF Usage
<1>0. ASSUME NEW c \in Callers, NEW r, call' = [call EXCEPT ![c] = r], spent' = spent,
             Fair(r, spent)
      PROVE  AllFair'
  BY <1>0, <1>1, <1>2 DEF AllFair, Fair, Barred, CallsOK
<1>5. Fair(Idle, spent)
  BY DEF Fair, Idle
<1>6. ASSUME NEW c \in Callers, call' = [call EXCEPT ![c] = Idle], spent' = spent  PROVE AllFair'
  BY <1>0, <1>5, <1>6
\* Nothing is stored yet when a success is still at its checks.
<1>7. ASSUME NEW c \in Callers, call[c].pc = "check", spent' = spent,
             call' = [call EXCEPT ![c] = Raise(call[c])]
      PROVE  AllFair'
  <2>1. CASE RecordedAgain(call[c])
    <3>1. Raise(call[c]).made = call[c].made
      BY <1>1, <2>1 DEF Raise, Usage
    <3>2. call[c].made = <<>>
      BY <1>1, <1>7, <2>1 DEF Story, Fresh, RecordedAgain
    <3>3. Fair(Raise(call[c]), spent)
      BY <3>1, <3>2 DEF Fair
    <3> QED BY <1>0, <1>7, <3>3
  <2>2. CASE ~RecordedAgain(call[c])
    BY <1>6, <1>7, <2>2 DEF Raise
  <2> QED BY <2>1, <2>2
<1>8. ASSUME NEW c \in Callers, NEW way \in Ways, NEW kind \in Kinds, Begin(c, way, kind)
      PROVE  AllFair'
  <2> DEFINE r == [Idle EXCEPT !.pc = IF way = "record" THEN "check" ELSE "body",
                    !.way = way, !.on = kind.on, !.known = kind.known, !.left = kind.on]
  <2>1. Fair(r, spent)
    BY DEF Fair, Idle
  <2>2. call' = [call EXCEPT ![c] = r] /\ spent' = spent
    BY <1>8 DEF Begin
  <2> HIDE DEF r
  <2> QED BY <1>0, <2>1, <2>2
<1>9. ASSUME NEW c \in Callers, NEW status \in {"success", "error"}, call[c].pc = "body",
             call' = [call EXCEPT ![c] = [call[c] EXCEPT !.pc = "check", !.status = status]],
             spent' = spent
      PROVE  AllFair'
  <2> DEFINE r == [call[c] EXCEPT !.pc = "check", !.status = status]
  <2>1. r.made = <<>>
    BY <1>1, <1>9 DEF Usage, Story, Fresh
  <2>2. Fair(r, spent)
    BY <2>1 DEF Fair
  <2> HIDE DEF r
  <2> QED BY <1>0, <1>9, <2>2 DEF r
<1>10. ASSUME NEW c \in Callers, NEW status \in {"success", "error"}, BodyEnds(c, status)
       PROVE  AllFair'
  BY <1>9, <1>10 DEF BodyEnds, At
<1>11. ASSUME NEW c \in Callers, BodyCancelled(c)  PROVE AllFair'
  <2>1. CASE call[c].way = "usage"
    <3>1. /\ call' = [call EXCEPT ![c] = [call[c] EXCEPT !.pc = "check", !.status = "error"]]
          /\ spent' = spent /\ call[c].pc = "body"
      BY <1>11, <2>1 DEF BodyCancelled, At
    <3> QED BY <1>9, <3>1
  <2>2. CASE call[c].way # "usage"
    BY <1>6, <1>11, <2>2 DEF BodyCancelled
  <2> QED BY <2>1, <2>2
<1>12. ASSUME NEW c \in Callers, UnknownModel(c)  PROVE AllFair'
  BY <1>7, <1>12 DEF UnknownModel, At
<1>13. ASSUME NEW c \in Callers, NEW b \in Budgets, BudgetHasRoom(c, b)  PROVE AllFair'
  <2> DEFINE r == [call[c] EXCEPT !.left = call[c].left \ {b}]
  <2>1. call' = [call EXCEPT ![c] = r] /\ spent' = spent
    BY <1>13 DEF BudgetHasRoom, AfterRoom
  <2>2. spent[b] <= Limit[b]
    <3>1. PICK est \in Estimates : spent[b] + est <= Limit[b]
      BY <1>13 DEF BudgetHasRoom
    <3>2. est \in Nat
      BY RecordingConstants
    <3> QED BY <1>3, <3>1, <3>2
  <2>3. /\ r.made = call[c].made /\ r.hookRaised = call[c].hookRaised /\ r.rolled = call[c].rolled
        /\ r.pc = call[c].pc /\ r.left = call[c].left \ {b}
    BY <1>1 DEF Usage
  <2> HIDE DEF r
  <2>4. Barred(call[c], spent) => Barred(r, spent)
    <3> SUFFICES ASSUME NEW d \in call[c].left, spent[d] > Limit[d] PROVE Barred(r, spent)
      BY DEF Barred
    <3>1. d # b
      BY <1>3, <2>2
    <3> QED BY <2>3, <3>1 DEF Barred
  <2>5. Fair(r, spent)
    BY <1>1, <2>3, <2>4 DEF Fair
  <2> QED BY <1>0, <2>1, <2>5
<1>14. ASSUME NEW c \in Callers, NEW b \in Budgets, BudgetExceeded(c, b)  PROVE AllFair'
  <2>1. CASE config.ghost
    BY <1>2, <2>1 DEF AllFair, Fair
  <2>2. CASE ~config.ghost
    BY <1>7, <1>14, <2>2 DEF BudgetExceeded, At
  <2> QED BY <2>1, <2>2
<1>15. ASSUME NEW c \in Callers, NEW r, call' = [call EXCEPT ![c] = r], spent' = spent,
              r.hookRaised = call[c].hookRaised, r.rolled = call[c].rolled,
              r.made = call[c].made, r.pc # "check"
       PROVE  AllFair'
  BY <1>0, <1>1, <1>15, FairGoesOn
<1>16. ASSUME NEW c \in Callers, GhostDropped(c)  PROVE AllFair'
  <2> DEFINE r == [call[c] EXCEPT !.pc = "hook"]
  <2>1. /\ r.hookRaised = call[c].hookRaised /\ r.rolled = call[c].rolled
        /\ r.made = call[c].made /\ r.pc # "check"
    BY <1>1 DEF Usage
  <2>2. call' = [call EXCEPT ![c] = r] /\ spent' = spent
    BY <1>16 DEF GhostDropped
  <2> HIDE DEF r
  <2> QED BY <1>15, <2>1, <2>2
<1>17. ASSUME NEW c \in Callers, NEW amount \in Costs, StoreRecord(c, amount)  PROVE AllFair'
  <2> DEFINE billable == {b \in Budgets : ChargedTo(call[c], b)}
             r == [call[c] EXCEPT !.pc = "hook", !.cost = Priced(c, amount),
                     !.made = Append(call[c].made, call[c].status),
                     !.billed = IF billable = {} THEN call[c].billed ELSE call[c].billed + 1]
  <2>1. /\ call' = [call EXCEPT ![c] = r] /\ call[c].pc = "check" /\ call[c].left = {}
        /\ spent' = [b \in Budgets |-> IF b \in billable THEN spent[b] + Priced(c, amount)
                                       ELSE spent[b]]
    BY <1>17 DEF StoreRecord, Admitted, At
  <2>2. \A b \in Budgets : spent'[b] \in Nat /\ spent'[b] >= spent[b]
    <3>1. Priced(c, amount) \in Nat
      BY PricedType, RecordingConstants
    <3> HIDE DEF billable
    <3> QED BY <1>3, <2>1, <3>1
  <2>3. /\ r.hookRaised = call[c].hookRaised /\ r.rolled = call[c].rolled /\ r.pc = "hook"
        /\ r.made = Append(call[c].made, call[c].status)
    BY <1>1 DEF Usage
  <2>4. Fair(r, spent')
    <3>1. ~Barred(call[c], spent)
      BY <2>1 DEF Barred
    <3>2. CASE call[c].made = <<>>
      <4>1. Len(r.made) = 1
        BY <2>3, <3>2
      <4> QED BY <2>3, <4>1 DEF Fair
    <3>3. CASE call[c].made # <<>>
      BY <1>1, <2>1, <2>3, <3>1, <3>3 DEF Fair
    <3> QED BY <3>2, <3>3
  <2> HIDE DEF r
  <2>5. ASSUME NEW d \in Callers \ {c}  PROVE Fair(call[d], spent')
    <3>1. Barred(call[d], spent) => Barred(call[d], spent')
      BY <1>3, <1>4, <2>2 DEF Barred
    <3> QED BY <1>1, <3>1 DEF Fair
  <2>6. call'[c] = r /\ \A d \in Callers \ {c} : call'[d] = call[d]
    BY <2>1 DEF CallsOK
  <2> QED BY <1>2, <2>4, <2>5, <2>6 DEF AllFair, Fair, Barred
<1>18. ASSUME NEW c \in Callers, NEW amount \in Costs, StoreFails(c, amount)  PROVE AllFair'
  <2> DEFINE r == [call[c] EXCEPT !.pc = "hook", !.cost = Priced(c, amount)]
  <2>1. /\ r.hookRaised = call[c].hookRaised /\ r.rolled = call[c].rolled
        /\ r.made = call[c].made /\ r.pc # "check"
    BY <1>1 DEF Usage
  <2>2. call' = [call EXCEPT ![c] = r] /\ spent' = spent
    BY <1>18 DEF StoreFails
  <2> HIDE DEF r
  <2> QED BY <1>15, <2>1, <2>2
<1>19. ASSUME NEW c \in Callers, HookReturns(c)  PROVE AllFair'
  <2> DEFINE r == [call[c] EXCEPT !.pc = "contracts"]
  <2>1. /\ r.hookRaised = call[c].hookRaised /\ r.rolled = call[c].rolled
        /\ r.made = call[c].made /\ r.pc # "check"
    BY <1>1 DEF Usage
  <2>2. (call' = [call EXCEPT ![c] = r] \/ call' = [call EXCEPT ![c] = Idle]) /\ spent' = spent
    BY <1>19 DEF HookReturns
  <2> HIDE DEF r
  <2> QED BY <1>6, <1>15, <2>1, <2>2
<1>20. ASSUME NEW c \in Callers, HookRaises(c)  PROVE AllFair'
  <2> DEFINE r == [call[c] EXCEPT !.hookRaised = TRUE]
  <2>1. r \in Usage /\ r.hookRaised
    BY <1>1 DEF Usage
  <2>2. call' = [call EXCEPT ![c] = Raise(r)] /\ spent' = spent
    BY <1>20 DEF HookRaises
  <2> HIDE DEF r
  <2>3. Fair(Raise(r), spent)
    <3>1. CASE RecordedAgain(r)
      BY <2>1, <3>1 DEF Raise, Fair, Usage
    <3>2. CASE ~RecordedAgain(r)
      BY <1>5, <3>2 DEF Raise
    <3> QED BY <3>1, <3>2
  <2> QED BY <1>0, <2>2, <2>3
<1>21. ASSUME NEW c \in Callers, CheckContract(c)  PROVE AllFair'
  <2> DEFINE k == call[c].at
             r == [call[c] EXCEPT !.at = IF charged'[k] > MaxCost[k] THEN Contracts + 1 ELSE k + 1]
  <2>1. call' = [call EXCEPT ![c] = r] /\ spent' = spent /\ call[c].pc = "contracts"
    BY <1>21 DEF CheckContract, At
  <2>2. /\ r.hookRaised = call[c].hookRaised /\ r.rolled = call[c].rolled
        /\ r.made = call[c].made /\ r.pc # "check"
    BY <1>1, <2>1 DEF Usage
  <2> HIDE DEF r
  <2> QED BY <1>15, <2>1, <2>2
<1>22. ASSUME NEW c \in Callers, ContractsDone(c)  PROVE AllFair'
  <2> DEFINE r == [call[c] EXCEPT !.pc = "enforce", !.left = ToEnforce(call[c])]
  <2>1. /\ r.hookRaised = call[c].hookRaised /\ r.rolled = call[c].rolled
        /\ r.made = call[c].made /\ r.pc # "check"
    BY <1>1 DEF Usage
  <2>2. call' = [call EXCEPT ![c] = r] /\ spent' = spent
    BY <1>22 DEF ContractsDone
  <2> HIDE DEF r
  <2> QED BY <1>15, <2>1, <2>2
<1>23. ASSUME NEW c \in Callers, NEW b \in Budgets, call[c].pc = "enforce", spent' = spent,
              call' = [call EXCEPT ![c] = [call[c] EXCEPT !.left = call[c].left \ {b}]]
       PROVE  AllFair'
  <2> DEFINE r == [call[c] EXCEPT !.left = call[c].left \ {b}]
  <2>1. /\ r.hookRaised = call[c].hookRaised /\ r.rolled = call[c].rolled
        /\ r.made = call[c].made /\ r.pc # "check"
    BY <1>1, <1>23 DEF Usage
  <2>2. call' = [call EXCEPT ![c] = r]
    BY <1>23
  <2> HIDE DEF r
  <2> QED BY <1>15, <1>23, <2>1, <2>2
<1>24. ASSUME NEW c \in Callers, NEW b \in Budgets, WithinMargin(c, b)  PROVE AllFair'
  BY <1>23, <1>24 DEF WithinMargin, At
<1>25. ASSUME NEW c \in Callers, NEW b \in Budgets, Overrun(c, b)  PROVE AllFair'
  <2>1. CASE call[c].ghost
    <3>1. /\ call' = [call EXCEPT ![c] = [call[c] EXCEPT !.left = call[c].left \ {b}]]
          /\ spent' = spent /\ call[c].pc = "enforce"
      BY <1>25, <2>1 DEF Overrun, At
    <3> QED BY <1>23, <3>1
  <2>2. CASE ~call[c].ghost
    <3>1. /\ call' = [call EXCEPT ![c] = Raise(call[c])] /\ spent' = spent
          /\ b \in call[c].left /\ OverMargin(b)
      BY <1>25, <2>2 DEF Overrun
    <3>2. spent[b] > Limit[b]
      BY <1>3, <3>1 DEF OverMargin
    <3>3. Fair(Raise(call[c]), spent)
      <4>1. CASE RecordedAgain(call[c])
        <5>1. /\ Raise(call[c]).made = call[c].made /\ Raise(call[c]).left = call[c].on
              /\ Raise(call[c]).hookRaised = call[c].hookRaised
              /\ Raise(call[c]).rolled = call[c].rolled
          BY <1>1, <4>1 DEF Raise, Usage
        <5>2. Barred(Raise(call[c]), spent)
          BY <1>1, <3>1, <3>2, <5>1 DEF Barred
        <5> QED BY <1>1, <5>1, <5>2 DEF Fair
      <4>2. CASE ~RecordedAgain(call[c])
        BY <1>5, <4>2 DEF Raise
      <4> QED BY <4>1, <4>2
    <3> QED BY <1>0, <3>1, <3>3
  <2> QED BY <2>1, <2>2
<1>29. ASSUME NEW c \in Callers, NEW b \in Budgets, CallbackRaises(c, b)  PROVE AllFair'
  <2>1. /\ call' = [call EXCEPT ![c] = [call[c] EXCEPT !.left = call[c].left \ {b}]]
        /\ spent' = spent /\ call[c].pc = "enforce"
    BY <1>29 DEF CallbackRaises, At
  <2> QED BY <1>23, <2>1
<1>26. ASSUME NEW c \in Callers, Return(c)  PROVE AllFair'
  BY <1>6, <1>26 DEF Return
<1>27. ASSUME NEW b \in Windowed, NewWindow(b)  PROVE AllFair'
  <2> SUFFICES ASSUME NEW c \in Callers PROVE Fair(call'[c], spent')
    BY <1>2 DEF AllFair, Fair, Barred
  <2>1. CASE At(c, "idle")
    <3>1. call'[c] = call[c]
      BY <1>27, <2>1 DEF NewWindow
    <3>2. call[c].made = <<>>
      BY <1>1, <2>1 DEF At, Story, Fresh
    <3> QED BY <3>1, <3>2 DEF Fair
  <2>2. CASE ~At(c, "idle")
    <3>1. call'[c] = [call[c] EXCEPT !.rolled = TRUE]
      BY <1>27, <2>2 DEF NewWindow
    <3>2. call'[c].rolled
      BY <1>1, <3>1 DEF Usage
    <3> QED BY <3>2 DEF Fair
  <2> QED BY <2>1, <2>2
<1>28. CASE UNCHANGED vars
  BY <1>28 DEF vars, AllFair, Fair, Barred
<1> QED
  BY <1>8, <1>10, <1>11, <1>12, <1>13, <1>14, <1>16, <1>17, <1>18, <1>19, <1>20, <1>21,
     <1>22, <1>24, <1>25, <1>26, <1>27, <1>28, <1>29 DEF Next, Step

\* Enforcement that raises in a decorated call never leads to a second record of
\* that call in the same window (SecondRecordOnlyForHook; track).
THEOREM EnforcementRecordsOnce == Spec => []SecondRecordOnlyForHook
<1>1. Init => TypeOK /\ Stories /\ AllFair
  BY TypeInit DEF Init, Stories, Story, Fresh, AllFair, Fair, Idle
<1>2. TypeOK /\ Stories /\ AllFair /\ [Next]_vars => (TypeOK /\ Stories /\ AllFair)'
  <2>1. TypeOK => OthersOK /\ CallsOK
    BY DEF TypeOK, OthersOK, CallsOK, Sound
  <2> QED BY <2>1, TypeStep, StoriesStep, FairStep
<1>3. AllFair => SecondRecordOnlyForHook
  BY DEF AllFair, Fair, SecondRecordOnlyForHook
<1> QED BY <1>1, <1>2, <1>3, PTL DEF Spec

-----------------------------------------------------------------------------
(* Sums.  What each caller still brings to the contracts is a number; the  *)
(* sum of them over all callers is the size of the set of single units.    *)

Heap(f) == {p \in Callers \X (1..TopCost) : p[2] <= f[p[1]]}
Sum(f) == Cardinality(Heap(f))
Amounts == [Callers -> 0..TopCost]

\* One unit for each unit of money in one caller's number.
LEMMA ColumnSize ==
  ASSUME NEW c, NEW k \in Nat
  PROVE  IsFiniteSet({c} \X (1..k)) /\ Cardinality({c} \X (1..k)) = k
<1>1. IsFiniteSet({c}) /\ Cardinality({c}) = 1
  BY FS_Singleton
<1>2. IsFiniteSet(1..k) /\ Cardinality(1..k) = k
  BY FS_Interval
<1>3. /\ IsFiniteSet({c} \X (1..k))
      /\ Cardinality({c} \X (1..k)) = Cardinality({c}) * Cardinality(1..k)
  BY <1>1, <1>2, FS_Product
<1>4. 1 * k = k
  OBVIOUS
<1> QED BY <1>1, <1>2, <1>3, <1>4

\* There are finitely many units, and none when every number is zero.
LEMMA SumType ==
  ASSUME NEW f
  PROVE  /\ IsFiniteSet(Heap(f)) /\ Sum(f) \in Nat
         /\ (\A c \in Callers : f[c] = 0) => Sum(f) = 0
<1>1. IsFiniteSet(1..TopCost)
  BY FS_Interval, RecordingConstants
<1>2. IsFiniteSet(Callers \X (1..TopCost))
  BY <1>1, RecordingConstants, FS_Product
<1>3. Heap(f) \in SUBSET (Callers \X (1..TopCost))
  BY DEF Heap
<1>4. IsFiniteSet(Heap(f)) /\ Sum(f) \in Nat
  BY <1>2, <1>3, FS_Subset, FS_CardinalityType DEF Sum
<1>5. (\A c \in Callers : f[c] = 0) => Heap(f) = {}
  BY RecordingConstants DEF Heap
<1> QED BY <1>4, <1>5, FS_EmptySet DEF Sum

\* A step that changes the number of one caller changes the sum by as much.
LEMMA SumOfChange ==
  ASSUME NEW f \in Amounts, NEW g \in Amounts, NEW c \in Callers,
         \A d \in Callers \ {c} : g[d] = f[d]
  PROVE  Sum(g) = Sum(f) - f[c] + g[c]
<1> DEFINE Rest == {p \in Heap(f) : p[1] # c}
<1>1. IsFiniteSet(Rest) /\ Cardinality(Rest) \in Nat
  <2>1. Rest \in SUBSET Heap(f)
    OBVIOUS
  <2> QED BY <2>1, SumType, FS_Subset, FS_CardinalityType
<1>2. ASSUME NEW h \in Amounts, \A d \in Callers \ {c} : h[d] = f[d]
      PROVE  Sum(h) = Cardinality(Rest) + h[c]
  <2> DEFINE Own == {c} \X (1..h[c])
  <2>1. h[c] \in Nat /\ h[c] <= TopCost
    BY RecordingConstants DEF Amounts
  <2>2. IsFiniteSet(Own) /\ Cardinality(Own) = h[c]
    BY <2>1, ColumnSize
  <2>3. Heap(h) \subseteq Rest \cup Own
    BY <1>2 DEF Heap
  <2>4. Rest \cup Own \subseteq Heap(h)
    <3>1. Rest \subseteq Heap(h)
      BY <1>2 DEF Heap
    <3>2. Own \subseteq Heap(h)
      BY <2>1, RecordingConstants DEF Heap
    <3> QED BY <3>1, <3>2
  <2>5. Rest \cap Own = {}
    OBVIOUS
  <2>6. Cardinality(Rest \cup Own)
          = Cardinality(Rest) + Cardinality(Own) - Cardinality(Rest \cap Own)
    BY <1>1, <2>2, FS_Union
  <2>7. Cardinality(Rest \cap Own) = 0
    BY <2>5, FS_EmptySet
  <2>8. Heap(h) = Rest \cup Own
    BY <2>3, <2>4
  <2> HIDE DEF Rest, Own
  <2>9. Sum(h) = Cardinality(Rest \cup Own)
    BY <2>8 DEF Sum
  <2> QED BY <1>1, <2>1, <2>2, <2>6, <2>7, <2>9
<1> HIDE DEF Rest
<1>3. Sum(f) = Cardinality(Rest) + f[c] /\ Sum(g) = Cardinality(Rest) + g[c]
  BY <1>2
<1>4. f[c] \in Nat /\ g[c] \in Nat
  BY RecordingConstants DEF Amounts
<1> QED BY <1>1, <1>3, <1>4

-----------------------------------------------------------------------------
(* Contracts.  Up to the first breached contract, what a contract has been *)
(* charged with and what stored records on their way to it still bring     *)
(* make up the store.  A record that was not stored brings nothing: it has *)
(* no cost yet.                                                            *)

\* What the record of call r brings to contract k.
Brings(r, k) == IF r.pc \in {"hook", "contracts"} /\ r.at <= k THEN r.cost ELSE 0
Due(k) == [c \in Callers |-> Brings(call[c], k)]
ChargedOrDue(k) == charged[k] + Sum(Due(k)) = recorded
Unbreached(k) == \A j \in 1..(k - 1) : charged[j] <= MaxCost[j]

\* Before it is stored a record has no cost and no contract has seen it; one
\* that is dropped never gets a cost.
Bare(r) ==
  /\ r.pc \in {"idle", "body", "check"} => r.cost = 0 /\ r.at = 1
  /\ Dropped(r) => r.cost = 0
AllBare == \A c \in Callers : Bare(call[c])

ContractInv ==
  /\ TypeOK /\ AllBare
  /\ mishaps = 0 => \A k \in 1..Contracts : Unbreached(k) => ChargedOrDue(k)

LEMMA DueType ==
  ASSUME NEW k
  PROVE  (TypeOK => Due(k) \in Amounts) /\ (TypeOK' => Due(k)' \in Amounts)
<1>1. 0 \in 0..TopCost
  BY RecordingConstants
<1>2. TypeOK => \A c \in Callers : call[c].cost \in 0..TopCost
  BY DEF TypeOK, Usage
<1>3. TypeOK' => \A c \in Callers : call'[c].cost \in 0..TopCost
  BY DEF TypeOK, Usage
<1> QED BY <1>1, <1>2, <1>3 DEF Due, Brings, Amounts

\* A step of one caller that brings nothing more or less to any contract.
SameBurden(c) ==
  /\ \E r : /\ call' = [call EXCEPT ![c] = r]
            /\ Bare(call[c]) => Bare(r)
            /\ Bare(call[c]) => \A k \in 1..Contracts : Brings(r, k) = Brings(call[c], k)
  /\ UNCHANGED <<config, charged, recorded>>

\* What becomes of a call that raises brings nothing.
LEMMA RaisedBringsNothing ==
  ASSUME NEW r, r \in Usage
  PROVE  Bare(Raise(r)) /\ \A k \in 1..Contracts : Brings(Raise(r), k) = 0
BY DEF Raise, Bare, Brings, Dropped, Idle, Usage

\* Every action but the insert, the contract check and what counts as a mishap
\* is such a step.
LEMMA BurdenStep ==
  ASSUME TypeOK, NEW c \in Callers, Step(c), mishaps' = mishaps
  PROVE  \/ SameBurden(c)
         \/ \E amount \in Costs : StoreRecord(c, amount)
         \/ CheckContract(c)
<1>0. call[c] \in Usage /\ mishaps \in Nat /\ Contracts \in Nat
  BY RecordingConstants DEF TypeOK
<1> USE <1>0 DEF SameBurden, At
<1>1. ASSUME NEW way \in Ways, NEW kind \in Kinds, Begin(c, way, kind)  PROVE SameBurden(c)
  <2> DEFINE r == [Idle EXCEPT !.pc = IF way = "record" THEN "check" ELSE "body",
                    !.way = way, !.on = kind.on, !.known = kind.known, !.left = kind.on]
  <2>1. call' = [call EXCEPT ![c] = r] /\ call[c].pc = "idle"
    BY <1>1 DEF Begin
  <2>2. r.pc \in {"check", "body"} /\ r.cost = 0 /\ r.at = 1
    BY DEF Idle
  <2> HIDE DEF r
  <2>3. Bare(r) /\ \A k \in 1..Contracts : Brings(r, k) = Brings(call[c], k)
    BY <2>1, <2>2 DEF Bare, Brings
  <2> QED BY <1>1, <2>1, <2>3 DEF Begin
<1>2. ASSUME NEW status \in {"success", "error"}, BodyEnds(c, status)  PROVE SameBurden(c)
  <2> DEFINE r == [call[c] EXCEPT !.pc = "check", !.status = status]
  <2>1. call' = [call EXCEPT ![c] = r] /\ call[c].pc = "body"
    BY <1>2 DEF BodyEnds
  <2>2. r.pc = "check" /\ r.cost = call[c].cost /\ r.at = call[c].at
    BY DEF Usage
  <2> HIDE DEF r
  <2>3. /\ Bare(call[c]) => Bare(r)
        /\ \A k \in 1..Contracts : Brings(r, k) = Brings(call[c], k)
    BY <2>1, <2>2 DEF Bare, Brings
  <2> QED BY <1>2, <2>1, <2>3 DEF BodyEnds
<1>3. ASSUME BodyCancelled(c)  PROVE SameBurden(c)
  <2> DEFINE r == IF call[c].way = "usage" THEN [call[c] EXCEPT !.pc = "check", !.status = "error"]
                  ELSE Idle
  <2>1. call' = [call EXCEPT ![c] = r] /\ call[c].pc = "body"
    BY <1>3 DEF BodyCancelled
  <2>2. Bare(call[c]) => r.pc \in {"check", "idle"} /\ r.cost = 0 /\ r.at = 1
    BY <2>1 DEF Usage, Idle, Bare
  <2> HIDE DEF r
  <2>3. Bare(call[c]) => Bare(r) /\ \A k \in 1..Contracts : Brings(r, k) = Brings(call[c], k)
    BY <2>1, <2>2 DEF Bare, Brings
  <2> QED BY <1>3, <2>1, <2>3 DEF BodyCancelled
<1>4. ASSUME call[c].pc \notin {"hook", "contracts"}, call' = [call EXCEPT ![c] = Raise(call[c])],
             UNCHANGED <<config, charged, recorded>>
      PROVE  SameBurden(c)
  BY <1>4, RaisedBringsNothing DEF Brings
<1>5. ASSUME UnknownModel(c)  PROVE SameBurden(c)
  BY <1>4, <1>5 DEF UnknownModel
<1>6. ASSUME NEW left, call[c].pc \notin {"hook", "contracts"},
             call' = [call EXCEPT ![c] = [call[c] EXCEPT !.left = left]],
             UNCHANGED <<config, charged, recorded>>
      PROVE  SameBurden(c)
  <2> DEFINE r == [call[c] EXCEPT !.left = left]
  <2>1. /\ r.pc = call[c].pc /\ r.cost = call[c].cost /\ r.at = call[c].at
        /\ r.ghost = call[c].ghost
    BY DEF Usage
  <2>2. call' = [call EXCEPT ![c] = r]
    BY <1>6
  <2> HIDE DEF r
  <2>3. /\ Bare(call[c]) => Bare(r)
        /\ \A k \in 1..Contracts : Brings(r, k) = Brings(call[c], k)
    BY <2>1 DEF Bare, Brings, Dropped
  <2> QED BY <1>6, <2>2, <2>3
<1>7. ASSUME NEW b \in Budgets, BudgetHasRoom(c, b) \/ WithinMargin(c, b) \/ CallbackRaises(c, b)
      PROVE  SameBurden(c)
  BY <1>6, <1>7 DEF BudgetHasRoom, WithinMargin, CallbackRaises
<1>8. ASSUME NEW b \in Budgets, BudgetExceeded(c, b)  PROVE SameBurden(c)
  <2>1. CASE config.ghost
    <3> DEFINE r == [call[c] EXCEPT !.ghost = TRUE, !.left = {}]
    <3>1. call' = [call EXCEPT ![c] = r] /\ call[c].pc = "check"
      BY <1>8, <2>1 DEF BudgetExceeded
    <3>2. r.pc = "check" /\ r.cost = call[c].cost /\ r.at = call[c].at
      BY <3>1 DEF Usage
    <3> HIDE DEF r
    <3>3. Bare(call[c]) => Bare(r) /\ \A k \in 1..Contracts : Brings(r, k) = Brings(call[c], k)
      BY <3>1, <3>2 DEF Bare, Brings
    <3> QED BY <1>8, <3>1, <3>3 DEF BudgetExceeded
  <2>2. CASE ~config.ghost
    BY <1>4, <1>8, <2>2 DEF BudgetExceeded
  <2> QED BY <2>1, <2>2
<1>9. ASSUME GhostDropped(c)  PROVE SameBurden(c)
  <2> DEFINE r == [call[c] EXCEPT !.pc = "hook"]
  <2>1. call' = [call EXCEPT ![c] = r] /\ call[c].pc = "check" /\ UNCHANGED <<config, charged, recorded>>
    BY <1>9 DEF GhostDropped, Admitted
  <2>2. r.pc = "hook" /\ r.cost = call[c].cost
    BY DEF Usage
  <2> HIDE DEF r
  <2>3. Bare(call[c]) => Bare(r) /\ \A k \in 1..Contracts : Brings(r, k) = Brings(call[c], k)
    BY <2>1, <2>2 DEF Bare, Brings
  <2> QED BY <2>1, <2>3
<1>10. ASSUME NEW amount \in Costs, StoreFails(c, amount)  PROVE FALSE
  BY <1>10 DEF StoreFails
<1>11. ASSUME HookRaises(c)  PROVE FALSE
  BY <1>11 DEF HookRaises
<1>12. ASSUME HookReturns(c)  PROVE SameBurden(c)
  <2>1. call[c].pc = "hook" /\ UNCHANGED <<config, charged, recorded>>
    BY <1>12 DEF HookReturns
  <2>2. CASE Dropped(call[c])
    <3>1. call' = [call EXCEPT ![c] = Idle]
      BY <1>12, <2>2 DEF HookReturns
    <3>2. Bare(Idle) /\ \A k \in 1..Contracts : Brings(Idle, k) = 0
      BY DEF Bare, Brings, Idle, Dropped
    <3>3. Bare(call[c]) => \A k \in 1..Contracts : Brings(call[c], k) = 0
      BY <2>2 DEF Bare, Brings
    <3> QED BY <2>1, <3>1, <3>2, <3>3
  <2>3. CASE ~Dropped(call[c])
    <3> DEFINE r == [call[c] EXCEPT !.pc = "contracts"]
    <3>1. call' = [call EXCEPT ![c] = r]
      BY <1>12, <2>3 DEF HookReturns
    <3>2. r.pc = "contracts" /\ r.cost = call[c].cost /\ r.at = call[c].at /\ ~Dropped(r)
      BY <2>3 DEF Usage, Dropped
    <3> HIDE DEF r
    <3>3. Bare(r) /\ \A k \in 1..Contracts : Brings(r, k) = Brings(call[c], k)
      BY <2>1, <3>2 DEF Bare, Brings
    <3> QED BY <2>1, <3>1, <3>3
  <2> QED BY <2>2, <2>3
<1>13. ASSUME ContractsDone(c)  PROVE SameBurden(c)
  <2> DEFINE r == [call[c] EXCEPT !.pc = "enforce", !.left = ToEnforce(call[c])]
  <2>1. /\ call' = [call EXCEPT ![c] = r] /\ call[c].pc = "contracts"
        /\ call[c].at > Contracts
    BY <1>13 DEF ContractsDone
  <2>5. call[c].at \in Nat
    BY DEF Usage
  <2>2. r.pc = "enforce" /\ r.cost = call[c].cost /\ (Dropped(r) => Dropped(call[c]))
    BY DEF Usage, Dropped
  <2> HIDE DEF r
  <2>3. Bare(call[c]) => Bare(r)
    BY <2>2 DEF Bare
  <2>4. ASSUME NEW k \in 1..Contracts  PROVE Brings(r, k) = 0 /\ Brings(call[c], k) = 0
    BY <2>1, <2>2, <2>5 DEF Brings
  <2> QED BY <1>13, <2>1, <2>3, <2>4 DEF ContractsDone
<1>14. ASSUME NEW b \in Budgets, Overrun(c, b)  PROVE SameBurden(c)
  BY <1>4, <1>6, <1>14 DEF Overrun
<1>15. ASSUME Return(c)  PROVE SameBurden(c)
  <2>1. call' = [call EXCEPT ![c] = Idle] /\ call[c].pc = "enforce"
    BY <1>15 DEF Return
  <2>2. Bare(Idle) /\ \A k \in 1..Contracts : Brings(Idle, k) = 0 /\ Brings(call[c], k) = 0
    BY <2>1 DEF Bare, Brings, Idle, Dropped
  <2> QED BY <1>15, <2>1, <2>2 DEF Return
<1> QED BY <1>1, <1>2, <1>3, <1>5, <1>7, <1>8, <1>9, <1>10, <1>11, <1>12, <1>13, <1>14, <1>15
        DEF Step

LEMMA DueStep ==
  ASSUME TypeOK, TypeOK', AllBare, mishaps = 0, mishaps' = 0, [Next]_vars,
         NEW k \in 1..Contracts, Unbreached(k)', ChargedOrDue(k)
  PROVE  ChargedOrDue(k)'
<1>0. /\ Due(k) \in Amounts /\ Due(k)' \in Amounts /\ Contracts \in Nat
      /\ charged[k] \in Nat /\ recorded \in Nat /\ Sum(Due(k)) \in Nat
  BY DueType, SumType, RecordingConstants DEF TypeOK
<1>a. ASSUME Due(k)' = Due(k), charged' = charged, recorded' = recorded  PROVE ChargedOrDue(k)'
  BY <1>a DEF ChargedOrDue, Sum, Heap
<1>b. ASSUME NEW c \in Callers, \A d \in Callers \ {c} : call'[d] = call[d]
      PROVE  Sum(Due(k))' = Sum(Due(k)) - Brings(call[c], k) + Brings(call'[c], k)
  <2>1. Sum(Due(k))' = Sum(Due(k)')
    BY DEF Sum, Heap
  <2>2. /\ Due(k)[c] = Brings(call[c], k) /\ Due(k)'[c] = Brings(call'[c], k)
        /\ \A d \in Callers \ {c} : Due(k)'[d] = Due(k)[d]
    BY <1>b DEF Due, Brings
  <2> QED BY <1>0, <2>1, <2>2, SumOfChange
<1>1. ASSUME NEW c \in Callers, SameBurden(c)  PROVE ChargedOrDue(k)'
  <2>1. PICK r : /\ call' = [call EXCEPT ![c] = r]
                 /\ Brings(r, k) = Brings(call[c], k)
    BY <1>1 DEF SameBurden, AllBare
  <2>2. Due(k)' = Due(k)
    BY <2>1 DEF Due, Brings, TypeOK
  <2> QED BY <1>a, <1>1, <2>2 DEF SameBurden
<1>2. ASSUME NEW c \in Callers, NEW amount \in Costs, StoreRecord(c, amount)  PROVE ChargedOrDue(k)'
  <2> DEFINE price == Priced(c, amount)
             r == call'[c]
  <2>1. price \in Nat
    BY PricedType, RecordingConstants
  <2>2. call[c] \in Usage /\ call[c].pc = "check" /\ call[c].at = 1
    BY <1>2 DEF StoreRecord, Admitted, At, AllBare, Bare, TypeOK
  <2>3. /\ r.pc = "hook" /\ r.cost = price /\ r.at = 1
        /\ recorded' = recorded + price /\ charged' = charged
        /\ \A d \in Callers \ {c} : call'[d] = call[d]
    BY <1>2, <2>2 DEF StoreRecord, TypeOK, Usage
  <2> HIDE DEF price
  <2>4. Brings(call[c], k) = 0 /\ Brings(r, k) = price
    BY <1>0, <2>2, <2>3 DEF Brings
  <2> QED BY <1>0, <1>b, <2>1, <2>3, <2>4 DEF ChargedOrDue
<1>3. ASSUME NEW c \in Callers, CheckContract(c)  PROVE ChargedOrDue(k)'
  <2> DEFINE m == call[c].at
             paid == call[c].cost
             r == call'[c]
  <2>1. /\ call[c] \in Usage /\ call[c].pc = "contracts" /\ m \in 1..Contracts /\ paid \in Nat
    <3>1. call[c] \in Usage /\ call[c].pc = "contracts" /\ m <= Contracts
      BY <1>3 DEF CheckContract, At, TypeOK
    <3>2. m \in 1..(Contracts + 1) /\ paid \in 0..TopCost
      BY <3>1 DEF Usage
    <3> QED BY <1>0, <3>1, <3>2, RecordingConstants
  <2>2. /\ charged' = [j \in 1..Contracts |-> IF j = m THEN charged[j] + paid ELSE charged[j]]
        /\ r.pc = "contracts" /\ r.cost = paid
        /\ r.at = (IF charged'[m] > MaxCost[m] THEN Contracts + 1 ELSE m + 1)
        /\ recorded' = recorded /\ \A d \in Callers \ {c} : call'[d] = call[d]
    BY <1>3, <2>1 DEF CheckContract, AddedToContract, TypeOK, Usage
  <2> HIDE DEF m, paid, r
  <2>b. /\ Sum(Due(k))' = Sum(Due(k)) - Brings(call[c], k) + Brings(r, k)
        /\ Brings(call[c], k) = (IF m <= k THEN paid ELSE 0)
        /\ Brings(r, k) = (IF r.at <= k THEN paid ELSE 0)
    BY <1>b, <2>1, <2>2 DEF Brings, m, paid, r
  <2>3. CASE m = k
    <3>1. ~(r.at <= k)
      BY <1>0, <2>1, <2>2, <2>3
    <3> QED BY <1>0, <2>1, <2>2, <2>3, <2>b, <3>1 DEF ChargedOrDue
  <2>4. CASE m > k
    <3>1. ~(r.at <= k) /\ ~(m <= k)
      BY <1>0, <2>1, <2>2, <2>4
    <3> QED BY <1>0, <2>1, <2>2, <2>4, <2>b, <3>1 DEF ChargedOrDue
  <2>5. CASE m < k
    <3>1. m \in 1..(k - 1)
      BY <1>0, <2>1, <2>5
    <3>2. charged'[m] <= MaxCost[m] /\ charged'[m] \in Nat /\ MaxCost[m] \in Nat
      BY <2>1, <3>1, RecordingConstants DEF Unbreached, TypeOK
    <3>3. r.at <= k /\ m <= k
      BY <2>1, <2>2, <2>5, <3>2
    <3> QED BY <1>0, <2>1, <2>2, <2>5, <2>b, <3>3 DEF ChargedOrDue
  <2> QED BY <2>1, <2>3, <2>4, <2>5
<1>4. ASSUME NEW b \in Windowed, NewWindow(b)  PROVE ChargedOrDue(k)'
  <2>1. \A c \in Callers : Brings(call'[c], k) = Brings(call[c], k)
    BY <1>4 DEF NewWindow, Brings, TypeOK, Usage
  <2>2. Due(k)' = Due(k)
    BY <2>1 DEF Due, Brings
  <2> QED BY <1>a, <1>4, <2>2 DEF NewWindow
<1>5. CASE UNCHANGED vars
  BY <1>a, <1>5 DEF vars, Due, Brings
<1>6. ASSUME NEW c \in Callers, Step(c)  PROVE ChargedOrDue(k)'
  BY <1>1, <1>2, <1>3, <1>6, BurdenStep
<1> QED BY <1>4, <1>5, <1>6 DEF Next

\* Mishaps are not forgotten, settings never change, and charges only grow: a
\* contract that is breached stays so.
LEMMA BreachesStay ==
  ASSUME TypeOK, TypeOK', [Next]_vars
  PROVE  /\ config' = config /\ (mishaps' = 0 => mishaps = 0)
         /\ \A k \in 1..Contracts : Unbreached(k)' => Unbreached(k)
<1>1. config' = config /\ (mishaps' = 0 => mishaps = 0)
  <2>1. mishaps \in Nat
    BY RecordingConstants DEF TypeOK
  <2> QED BY <2>1, SettingsFixed
<1>2. \A j \in 1..Contracts : charged[j] \in Nat /\ charged'[j] \in Nat
  BY DEF TypeOK
<1>3. \A j \in 1..Contracts : charged[j] <= charged'[j]
  <2>1. ASSUME NEW c \in Callers, CheckContract(c)  PROVE \A j \in 1..Contracts : charged[j] <= charged'[j]
    <3>1. call[c].cost \in Nat
      BY RecordingConstants DEF TypeOK, Usage
    <3> QED BY <1>2, <2>1, <3>1 DEF CheckContract, AddedToContract
  <2>2. (\A c \in Callers : ~CheckContract(c)) => charged' = charged
    BY DEF Next, Step, vars, Begin, BodyEnds, BodyCancelled, UnknownModel, BudgetHasRoom,
      BudgetExceeded, GhostDropped, StoreRecord, StoreFails, HookReturns, HookRaises,
      ContractsDone, WithinMargin, Overrun, CallbackRaises, Return, NewWindow
  <2> QED BY <1>2, <2>1, <2>2
<1>4. ASSUME NEW k \in 1..Contracts, Unbreached(k)'  PROVE Unbreached(k)
  <2> SUFFICES ASSUME NEW j \in 1..(k - 1) PROVE charged[j] <= MaxCost[j]
    BY DEF Unbreached
  <2>1. j \in 1..Contracts /\ charged'[j] <= MaxCost[j] /\ MaxCost[j] \in Nat
    BY <1>4, RecordingConstants DEF Unbreached
  <2> QED BY <1>2, <1>3, <2>1
<1> QED BY <1>1, <1>4

\* No record has a cost before it is stored, on any path to the store.
LEMMA BareStep ==
  ASSUME TypeOK, AllBare, mishaps' = mishaps, [Next]_vars
  PROVE  AllBare'
<1>0. \A c \in Callers : call[c] \in Usage /\ Bare(call[c])
  BY DEF TypeOK, AllBare
<1>1. config' = config
  BY SettingsFixed
<1>2. ASSUME NEW c \in Callers, NEW r, Bare(r), call' = [call EXCEPT ![c] = r]  PROVE AllBare'
  BY <1>0, <1>1, <1>2 DEF AllBare, Bare, Dropped, TypeOK
<1>3. ASSUME NEW c \in Callers, SameBurden(c)  PROVE AllBare'
  BY <1>0, <1>2, <1>3 DEF SameBurden
<1>4. ASSUME NEW c \in Callers, NEW amount \in Costs, StoreRecord(c, amount)  PROVE AllBare'
  <2>1. call'[c].pc = "hook" /\ ~Dropped(call'[c]) /\ call' = [call EXCEPT ![c] = call'[c]]
    BY <1>0, <1>4 DEF StoreRecord, Dropped, TypeOK, Usage
  <2> QED BY <1>2, <2>1 DEF Bare
<1>5. ASSUME NEW c \in Callers, CheckContract(c)  PROVE AllBare'
  <2>1. /\ call'[c].pc = "contracts" /\ call'[c].cost = call[c].cost
        /\ call'[c].ghost = call[c].ghost /\ call' = [call EXCEPT ![c] = call'[c]]
    BY <1>0, <1>5 DEF CheckContract, At, TypeOK, Usage
  <2> QED BY <1>0, <1>2, <2>1 DEF Bare, Dropped
<1>6. ASSUME NEW b \in Windowed, NewWindow(b)  PROVE AllBare'
  <2> SUFFICES ASSUME NEW c \in Callers PROVE Bare(call[c])'
    BY DEF AllBare
  <2>1. /\ call'[c].pc = call[c].pc /\ call'[c].cost = call[c].cost /\ call'[c].at = call[c].at
        /\ call'[c].ghost = call[c].ghost
    BY <1>0, <1>6 DEF NewWindow, Usage
  <2> QED BY <1>0, <1>1, <2>1 DEF Bare, Dropped
<1>7. CASE UNCHANGED vars
  BY <1>0, <1>7 DEF vars, AllBare, Bare, Dropped
<1> QED BY <1>3, <1>4, <1>5, <1>6, <1>7, BurdenStep DEF Next

\* Between calls every contract up to the first breached one has been charged
\* with every record, whatever raised on the way (EveryRecordReachesContracts).
THEOREM RecordsReachContracts == Spec => []EveryRecordReachesContracts
<1> DEFINE Inv == TypeOK /\ (mishaps = 0 => ContractInv)
<1>1. Init => Inv
  <2> SUFFICES ASSUME Init PROVE ContractInv
    BY TypeInit
  <2>1. TypeOK /\ AllBare /\ recorded = 0 /\ \A k \in 1..Contracts : charged[k] = 0
    BY TypeInit DEF Init, AllBare, Bare, Idle, Dropped
  <2>2. \A k : \A c \in Callers : Due(k)[c] = 0
    BY DEF Init, Due, Brings, Idle
  <2>3. \A k : Sum(Due(k)) = 0
    BY <2>2, SumType
  <2> QED BY <2>1, <2>3 DEF ContractInv, ChargedOrDue
<1>2. Inv /\ [Next]_vars => Inv'
  <2> SUFFICES ASSUME Inv, [Next]_vars PROVE Inv'
    OBVIOUS
  <2>1. TypeOK /\ TypeOK'
    BY TypeStep
  <2>2. ASSUME mishaps' = 0  PROVE ContractInv'
    <3>1. mishaps = 0 /\ ContractInv /\ AllBare
      BY <2>1, <2>2, BreachesStay DEF ContractInv
    <3>2. AllBare'
      BY <2>1, <2>2, <3>1, BareStep
    <3>3. ASSUME NEW k \in 1..Contracts, Unbreached(k)'  PROVE ChargedOrDue(k)'
      <4>1. ChargedOrDue(k)
        BY <2>1, <3>1, <3>3, BreachesStay DEF ContractInv
      <4> QED BY <2>1, <2>2, <3>1, <3>3, <4>1, DueStep
    <3> QED BY <2>1, <3>2, <3>3 DEF ContractInv
  <2> QED BY <2>1, <2>2
<1>3. Inv => EveryRecordReachesContracts
  <2> SUFFICES ASSUME Inv, mishaps = 0, \A c \in Callers : At(c, "idle"),
                      NEW k \in 1..Contracts, Unbreached(k)
               PROVE  charged[k] = recorded
    BY DEF EveryRecordReachesContracts, Unbreached
  <2>1. Sum(Due(k)) = 0
    <3>1. \A c \in Callers : Due(k)[c] = 0
      BY DEF At, Due, Brings
    <3> QED BY <3>1, SumType
  <2>2. charged[k] \in Nat /\ ChargedOrDue(k)
    BY DEF ContractInv, TypeOK
  <2> QED BY <2>1, <2>2 DEF ChargedOrDue
<1> HIDE DEF Inv
<1> QED BY <1>1, <1>2, <1>3, PTL DEF Spec
=============================================================================
