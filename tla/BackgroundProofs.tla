-------------------------- MODULE BackgroundProofs --------------------------
(***************************************************************************)
(* Proofs about what runs beside the calls.  The webhook notifier: its     *)
(* types, that no batch is left without a timer, that only a race breaks   *)
(* the throttle, and that every step is a step of Outbox or leaves it      *)
(* alone.  The chain of hooks with the live server: the hook of the        *)
(* application is never lost, and orderly removal keeps the chain a stack. *)
(* The system monitor: its types, that samples stay in order, and that     *)
(* only a timed-out join leaves a second collector.                        *)
(***************************************************************************)
EXTENDS WebhookNotifier, LiveServer, SystemMonitor,
        SequenceTheorems, FiniteSetTheorems, TLAPS

USE DEF Actors, Phases, Goto, Noted, NoTimer, StartTimer

Settled == posted \cup failed

\* Nothing is in two places: the batch, the batches taken, and what is settled
\* are apart, and hold numbers that were given out.
Apart ==
  /\ batch \subseteq 1..noted /\ batch \cap Settled = {}
  /\ \A a \in Actors : /\ out[a] \subseteq 1..noted
                       /\ out[a] \cap batch = {} /\ out[a] \cap Settled = {}
  /\ \A a, b \in Actors : a # b => out[a] \cap out[b] = {}

NotifierInv == TypeOK /\ Apart

-----------------------------------------------------------------------------
(* Types *)

LEMMA CappedInRange == ASSUME NEW n \in Nat PROVE Capped(n) \in 0..Throttle
BY NotifierConstants DEF Capped

\* The variables keep their types in every step.
LEMMA TypeStep == NotifierInv /\ [Next]_vars => TypeOK'
<1> SUFFICES ASSUME TypeOK, Apart, [Next]_vars PROVE TypeOK'
  BY DEF NotifierInv
<1> USE NotifierConstants DEF TypeOK
<1>1. ASSUME NEW t \in Threads, Direct(t) PROVE TypeOK'
  BY <1>1 DEF Direct, queue
<1>2. ASSUME NEW t \in Threads, AddToBatch(t) PROVE TypeOK'
  BY <1>2 DEF AddToBatch
<1>3. ASSUME NEW t \in Threads, Fill(t) PROVE TypeOK'
  BY <1>3 DEF Fill
<1>4. ASSUME NEW a \in Actors, TimerFires(a) PROVE TypeOK'
  BY <1>4 DEF TimerFires, history
<1>5. ASSUME NEW a \in Actors, FlushEmpty(a) PROVE TypeOK'
  BY <1>5 DEF FlushEmpty, history
<1>6. ASSUME NEW a \in Actors, FlushThrottled(a) PROVE TypeOK'
  BY <1>6 DEF FlushThrottled, Rescheduled, TooSoon, history
<1>7. ASSUME NEW a \in Actors, Take(a) PROVE TypeOK'
  BY <1>7 DEF Take, Empty
<1>8. ASSUME NEW a \in Actors, Stamp(a) PROVE TypeOK'
  BY <1>8 DEF Stamp, history
<1>9. ASSUME NEW a \in Actors, NEW ok \in BOOLEAN, PostSlack(a, ok) PROVE TypeOK'
  BY <1>9 DEF PostSlack, queue, history
<1>10. ASSUME NEW a \in Actors, NEW ok \in BOOLEAN, Settle(a, ok) PROVE TypeOK'
  <2>1. out[a] \subseteq 1..noted
    BY DEF Apart
  <2>2. posted' \cup failed' \subseteq 1..noted'
    BY <1>10, <2>1 DEF Settle
  <2> QED BY <1>10, <2>2 DEF Settle, queue
<1>11. ASSUME Tick PROVE TypeOK'
  <2>1. Capped(age + 1) \in 0..Throttle /\ Capped(gap + 1) \in 0..Throttle
    BY CappedInRange
  <2> QED BY <1>11, <2>1 DEF Tick
<1>12. ASSUME UNCHANGED vars PROVE TypeOK'
  BY <1>12 DEF vars, queue, history
<1> QED
  BY <1>1, <1>2, <1>3, <1>4, <1>5, <1>6, <1>7, <1>8, <1>9, <1>10, <1>11, <1>12
  DEF Next, OnRecord, Runs, PostGeneric, PostRaises

-----------------------------------------------------------------------------
(* Where the records are *)

\* A number that is given out is nobody's yet, and a thread that is idle, or
\* about to flush, holds none.
LEMMA Fresh == ASSUME NotifierInv
               PROVE  /\ noted + 1 \notin batch \cup Settled
                      /\ \A a \in Actors : noted + 1 \notin out[a]
                      /\ \A a \in Actors : pc[a] \in {"idle", "flush"} => out[a] = {}
BY DEF NotifierInv, TypeOK, Apart, Settled

LEMMA ApartStep == NotifierInv /\ [Next]_vars => Apart'
<1> SUFFICES ASSUME NotifierInv, [Next]_vars PROVE Apart'
  OBVIOUS
<1> USE DEF Apart, Settled
<1>0. TypeOK /\ Apart /\ noted \in Nat
  BY NotifierConstants DEF NotifierInv, TypeOK
<1>1. ASSUME NEW t \in Threads, Direct(t) PROVE Apart'
  <2>1. noted + 1 \notin batch \cup posted \cup failed
    BY Fresh
  <2>2. \A a \in Actors : noted + 1 \notin out[a]
    BY Fresh
  <2>3. out' = [out EXCEPT ![t] = {noted + 1}] /\ noted' = noted + 1
        /\ UNCHANGED <<batch, posted, failed>>
    BY <1>1 DEF Direct, queue
  <2>4. \A a \in Actors : out'[a] = IF a = t THEN {noted + 1} ELSE out[a]
    BY <2>3, <1>0 DEF TypeOK
  <2>5. 1..noted \subseteq 1..noted' /\ noted + 1 \in 1..noted'
    BY <2>3, <1>0
  <2> QED BY <1>0, <2>1, <2>2, <2>3, <2>4, <2>5
<1>2. ASSUME NEW t \in Threads, AddToBatch(t) \/ Fill(t) PROVE Apart'
  <2>1. noted + 1 \notin batch \cup posted \cup failed
    BY Fresh
  <2>2. \A a \in Actors : noted + 1 \notin out[a]
    BY Fresh
  <2>3. batch' = batch \cup {noted + 1} /\ noted' = noted + 1
        /\ UNCHANGED <<out, posted, failed>>
    BY <1>2 DEF AddToBatch, Fill
  <2>4. 1..noted \subseteq 1..noted' /\ noted + 1 \in 1..noted'
    BY <2>3, <1>0
  <2> QED BY <1>0, <2>1, <2>2, <2>3, <2>4
<1>3. ASSUME NEW a \in Actors, Take(a) PROVE Apart'
  <2>1. out' = [out EXCEPT ![a] = batch] /\ batch' = {} /\ UNCHANGED <<noted, posted, failed>>
    BY <1>3 DEF Take
  <2>2. \A b \in Actors : out'[b] = IF b = a THEN batch ELSE out[b]
    BY <2>1, <1>0 DEF TypeOK
  <2>3. \A b \in Actors : out'[b] \subseteq 1..noted' /\ out'[b] \cap (posted' \cup failed') = {}
    BY <1>0, <2>1, <2>2
  <2>4. \A b, c \in Actors : b # c => out'[b] \cap out'[c] = {}
    BY <1>0, <2>2
  <2> QED BY <2>1, <2>3, <2>4
<1>4. ASSUME NEW a \in Actors, NEW ok \in BOOLEAN, Settle(a, ok) PROVE Apart'
  <2>1. out' = [out EXCEPT ![a] = {}] /\ UNCHANGED <<noted, batch>>
    BY <1>4 DEF Settle, queue
  <2>2. \A b \in Actors : out'[b] = IF b = a THEN {} ELSE out[b]
    BY <2>1, <1>0 DEF TypeOK
  <2>3. posted' \cup failed' = posted \cup failed \cup out[a]
    BY <1>4 DEF Settle
  <2> QED BY <1>0, <2>1, <2>2, <2>3
<1>5. CASE UNCHANGED <<batch, out, noted, posted, failed>>
  BY <1>0, <1>5
<1> QED
  BY <1>1, <1>2, <1>3, <1>4, <1>5
  DEF Next, OnRecord, Runs, PostGeneric, PostRaises, TimerFires, FlushEmpty, FlushThrottled,
      Rescheduled, Stamp, PostSlack, Tick, vars, queue, history

\* Every variable of the notifier keeps its type, and no record is ever in two
\* places, for any number of threads, timers and records (on_record,
\* _flush_batch, _post).
THEOREM NotifierTypeCorrect == Spec => [](TypeOK /\ Apart)
<1>1. Init => NotifierInv
  <2> SUFFICES ASSUME Init PROVE TypeOK /\ Apart
    BY DEF NotifierInv
  <2>1. TypeOK
    <3>1. Throttle \in 0..Throttle /\ 0 \in 0..MaxRecords /\ 0 \in Nat
      BY NotifierConstants
    <3>2. \A a \in Actors : out[a] = {} /\ pc[a] = "idle"
      BY DEF Init
    <3>3. /\ pc \in [Actors -> Phases] /\ out \in [Actors -> SUBSET (1..MaxRecords)]
          /\ bad \in [Actors -> BOOLEAN]
      BY DEF Init
    <3> QED BY <3>1, <3>2, <3>3 DEF Init, TypeOK
  <2>2. Apart
    BY DEF Init, Apart, Settled
  <2> QED BY <2>1, <2>2
<1>2. NotifierInv /\ [Next]_vars => NotifierInv'
  BY TypeStep, ApartStep DEF NotifierInv
<1> QED BY <1>1, <1>2, PTL DEF Spec, NotifierInv

-----------------------------------------------------------------------------
(* No batch is stranded *)

\* A timer that has fired is on its way to a flush until some flush replaces it.
Watched ==
  batch # {} \/ timer = "fired" => timer = "waiting" \/ \E a \in Actors : pc[a] = "flush"

\* For any number of threads and of timers that were cancelled too late,
\* records never wait in a batch that nobody is going to flush.
THEOREM BatchNeverStranded == Spec => []NothingStranded
<1>1. Init => Watched
  BY DEF Init, Watched
<1>2. TypeOK /\ Watched /\ [Next]_vars => Watched'
  <2> SUFFICES ASSUME TypeOK, Watched, [Next]_vars PROVE Watched'
    OBVIOUS
  <2> USE DEF Watched
  <2>0. pc \in [Actors -> Phases]
    BY DEF TypeOK
  <2>1. ASSUME NEW t \in Threads, Direct(t) PROVE Watched'
    BY <2>0, <2>1 DEF Direct, queue
  <2>2. ASSUME NEW t \in Threads, AddToBatch(t) PROVE Watched'
    BY <2>0, <2>2 DEF AddToBatch, TypeOK
  <2>3. ASSUME NEW t \in Threads, Fill(t) PROVE Watched'
    BY <2>0, <2>3 DEF Fill
  <2>4. ASSUME NEW a \in Actors, TimerFires(a) PROVE Watched'
    BY <2>0, <2>4 DEF TimerFires
  <2>5. ASSUME NEW a \in Actors, FlushEmpty(a) PROVE Watched'
    BY <2>5 DEF FlushEmpty, Empty
  <2>6. ASSUME NEW a \in Actors, FlushThrottled(a) PROVE Watched'
    BY <2>6 DEF FlushThrottled, Rescheduled
  <2>7. ASSUME NEW a \in Actors, Take(a) PROVE Watched'
    BY <2>7 DEF Take
  <2>8. ASSUME NEW a \in Actors, Stamp(a) PROVE Watched'
    BY <2>0, <2>8 DEF Stamp
  <2>9. ASSUME NEW a \in Actors, NEW ok \in BOOLEAN, PostSlack(a, ok) PROVE Watched'
    BY <2>0, <2>9 DEF PostSlack, queue
  <2>10. ASSUME NEW a \in Actors, NEW ok \in BOOLEAN, Settle(a, ok), pc[a] # "flush"
         PROVE  Watched'
    BY <2>0, <2>10 DEF Settle, queue
  <2>11. CASE Tick
    BY <2>11 DEF Tick
  <2>12. CASE UNCHANGED vars
    BY <2>12 DEF vars, queue
  <2>13. \A a \in Actors : pc[a] \in Sinks => pc[a] # "flush"
    BY NotifierConstants
  <2> QED
    BY <2>1, <2>2, <2>3, <2>4, <2>5, <2>6, <2>7, <2>8, <2>9, <2>10, <2>11, <2>12, <2>13
    DEF Next, OnRecord, Runs, PostGeneric, PostRaises
<1>3. Watched => NothingStranded
  BY DEF Watched, NothingStranded
<1> QED BY <1>1, <1>2, <1>3, NotifierTypeCorrect, PTL DEF Spec

-----------------------------------------------------------------------------
(* The throttle *)

\* What the notifier believes to be the time since the last batch is too long
\* only while the thread that took that batch has still to set _last_send.
ClockRight == age > gap => \E a \in Actors : pc[a] = "stamp"

LEMMA CappedMonotone == ASSUME NEW m \in Nat, NEW n \in Nat, m <= n
                        PROVE  Capped(m) <= Capped(n)
BY NotifierConstants DEF Capped

\* Two batches are taken within the throttle interval only if the second is
\* taken before the first is stamped (_flush_batch).
THEOREM ThrottleBreaksByRace == Spec => []ThrottleHolds
<1>1. Init => ClockRight /\ ThrottleHolds
  BY NotifierConstants DEF Init, ClockRight, ThrottleHolds
<1>2. TypeOK /\ ClockRight /\ ThrottleHolds /\ [Next]_vars => (ClockRight /\ ThrottleHolds)'
  <2> SUFFICES ASSUME TypeOK, ClockRight, ThrottleHolds, [Next]_vars
               PROVE  (ClockRight /\ ThrottleHolds)'
    OBVIOUS
  <2> USE DEF ClockRight, ThrottleHolds
  <2>0. pc \in [Actors -> Phases] /\ age \in Nat /\ gap \in Nat /\ Throttle \in Nat
    BY NotifierConstants DEF TypeOK
  <2>1. ASSUME NEW a \in Actors, Take(a) PROVE (ClockRight /\ ThrottleHolds)'
    <3>1. pc'[a] = "stamp"
      BY <2>0, <2>1 DEF Take
    <3>2. gap < Throttle => \E b \in Actors : pc[b] = "stamp"
      BY <2>0, <2>1 DEF Take, TooSoon
    <3>3. /\ hasty' = (hasty \/ gap < Throttle)
          /\ raced' = (raced \/ \E b \in Actors : pc[b] = "stamp")
      BY <2>1 DEF Take
    <3>4. ThrottleHolds'
      BY ONLY <3>2, <3>3, ThrottleHolds, Zenon DEF ThrottleHolds
    <3> QED BY <3>1, <3>4
  <2>2. ASSUME NEW a \in Actors, Stamp(a) PROVE (ClockRight /\ ThrottleHolds)'
    BY <2>0, <2>2 DEF Stamp, history
  <2>3. CASE Tick
    <3>1. age <= gap => Capped(age + 1) <= Capped(gap + 1)
      BY <2>0, CappedMonotone
    <3>2. Capped(age + 1) \in Nat /\ Capped(gap + 1) \in Nat
      BY <2>0 DEF Capped
    <3>3. age' = Capped(age + 1) /\ gap' = Capped(gap + 1) /\ UNCHANGED <<pc, hasty, raced>>
      BY <2>3 DEF Tick
    <3> QED BY <2>0, <3>1, <3>2, <3>3
  <2>4. ASSUME UNCHANGED <<age, gap, hasty, raced>>,
               \A a \in Actors : pc[a] = "stamp" => pc'[a] = "stamp"
        PROVE  (ClockRight /\ ThrottleHolds)'
    BY <2>4
  <2>5. ASSUME NEW t \in Threads, OnRecord(t) PROVE (ClockRight /\ ThrottleHolds)'
    BY <2>0, <2>4, <2>5 DEF OnRecord, Direct, AddToBatch, Fill, queue
  <2>6. ASSUME NEW a \in Actors, TimerFires(a) \/ FlushEmpty(a) \/ FlushThrottled(a)
        PROVE  (ClockRight /\ ThrottleHolds)'
    BY <2>0, <2>4, <2>6 DEF TimerFires, FlushEmpty, FlushThrottled, Rescheduled, history
  <2>7. ASSUME NEW a \in Actors, NEW ok \in BOOLEAN, PostSlack(a, ok)
        PROVE  (ClockRight /\ ThrottleHolds)'
    BY <2>0, <2>4, <2>7 DEF PostSlack, queue, history
  <2>8. ASSUME NEW a \in Actors, NEW ok \in BOOLEAN, Settle(a, ok), pc[a] # "stamp"
        PROVE  (ClockRight /\ ThrottleHolds)'
    BY <2>0, <2>4, <2>8 DEF Settle, queue
  <2>9. CASE UNCHANGED vars
    BY <2>4, <2>9 DEF vars, queue, history
  <2>10. \A a \in Actors : pc[a] \in Sinks => pc[a] # "stamp"
    BY NotifierConstants
  <2> QED
    BY <2>1, <2>2, <2>3, <2>5, <2>6, <2>7, <2>8, <2>9, <2>10
    DEF Next, Runs, PostGeneric, PostRaises
<1> QED BY <1>1, <1>2, NotifierTypeCorrect, PTL DEF Spec

-----------------------------------------------------------------------------
(* The notifier is an outbox *)

Pending == batch \cup UNION {out[a] : a \in Actors}

\* What one thread's taken batch is worth to what is pending.
LEMMA PendingWithout ==
  ASSUME NotifierInv, NEW a \in Actors
  PROVE  /\ out[a] \subseteq Pending
         /\ Pending \ out[a] = batch \cup UNION {out[b] : b \in Actors \ {a}}
BY DEF NotifierInv, Apart, Pending

LEMMA EnqueueStep ==
  ASSUME NotifierInv, NEW t \in Threads, OnRecord(t)
  PROVE  Batches!Enqueue(noted + 1)
<1>1. TypeOK /\ noted + 1 \notin batch \cup Settled /\ out[t] = {}
      /\ \A a \in Actors : noted + 1 \notin out[a]
  BY Fresh DEF NotifierInv, OnRecord, Direct, AddToBatch, Fill
<1>2. UNCHANGED <<posted, failed>>
  BY DEF OnRecord, Direct, AddToBatch, Fill
<1>3. Pending' = Pending \cup {noted + 1}
  <2>1. CASE Direct(t)
    <3>1. batch' = batch /\ out' = [out EXCEPT ![t] = {noted + 1}]
      BY <2>1 DEF Direct, queue
    <3>2. \A a \in Actors : out'[a] = IF a = t THEN {noted + 1} ELSE out[a]
      BY <1>1, <3>1 DEF TypeOK
    <3> QED BY <1>1, <3>1, <3>2 DEF Pending
  <2>2. CASE AddToBatch(t) \/ Fill(t)
    BY <2>2 DEF AddToBatch, Fill, Pending
  <2> QED BY <2>1, <2>2 DEF OnRecord
<1>4. noted + 1 \notin Pending \cup posted \cup failed
  BY <1>1 DEF Pending, Settled
<1> QED BY <1>2, <1>3, <1>4 DEF Batches!Enqueue, Pending

LEMMA SettleStep ==
  ASSUME NotifierInv, NEW a \in Actors, NEW ok \in BOOLEAN, Settle(a, ok),
         pc[a] \in {"slack", "generic"}
  PROVE  out[a] \in SUBSET Pending /\ Batches!Settle(out[a])
<1>1. out[a] # {} /\ out \in [Actors -> SUBSET (1..MaxRecords)]
  BY DEF NotifierInv, TypeOK
<1>2. batch' = batch /\ out' = [out EXCEPT ![a] = {}]
  BY DEF Settle, queue
<1>3. \A b \in Actors : out'[b] = IF b = a THEN {} ELSE out[b]
  BY <1>1, <1>2
<1>4. Pending' = batch \cup UNION {out[b] : b \in Actors \ {a}}
  BY <1>2, <1>3 DEF Pending
<1>5. Pending' = Pending \ out[a] /\ out[a] \subseteq Pending
  BY <1>4, PendingWithout
<1>6. \/ posted' = posted \cup out[a] /\ UNCHANGED failed
      \/ failed' = failed \cup out[a] /\ UNCHANGED posted
  BY DEF Settle
<1> QED BY <1>1, <1>5, <1>6 DEF Batches!Settle, Pending

\* Taking the batch moves records from one place to another.
LEMMA TakeStep ==
  ASSUME NotifierInv, NEW a \in Actors, Take(a)
  PROVE  UNCHANGED <<Pending, posted, failed>>
<1>1. out[a] = {} /\ out \in [Actors -> SUBSET (1..MaxRecords)]
  BY Fresh DEF NotifierInv, TypeOK, Take
<1>2. batch' = {} /\ out' = [out EXCEPT ![a] = batch] /\ UNCHANGED <<posted, failed>>
  BY DEF Take
<1>3. \A b \in Actors : out'[b] = IF b = a THEN batch ELSE out[b]
  BY <1>1, <1>2
<1> QED BY <1>1, <1>2, <1>3 DEF Pending

\* Every step of the notifier is a step of the abstract outbox or leaves it as
\* it is: nothing is dropped, and nothing is posted twice (on_record,
\* _flush_batch, _post).
THEOREM NotifierIsOutbox == Spec => Batches!Spec
<1>1. Init => Batches!Init
  BY DEF Init, Batches!Init
<1>2. NotifierInv /\ [Next]_vars => [Batches!Next]_Batches!vars
  <2> SUFFICES ASSUME NotifierInv, [Next]_vars
               PROVE  [Batches!Next]_Batches!vars
    OBVIOUS
  <2>1. ASSUME NEW t \in Threads, OnRecord(t) PROVE Batches!Next
    <3>1. Batches!Enqueue(noted + 1)
      BY <2>1, EnqueueStep
    <3>2. noted + 1 \in 1..MaxRecords
      BY <2>1, NotifierConstants DEF NotifierInv, TypeOK, OnRecord, Direct, AddToBatch, Fill
    <3> QED BY <3>1, <3>2 DEF Batches!Next, Batches!Enqueue
  <2>2. ASSUME NEW a \in Actors, NEW ok \in BOOLEAN, Settle(a, ok),
               pc[a] \in {"slack", "generic"}
        PROVE  Batches!Next
    <3>1. out[a] \in SUBSET Pending /\ Batches!Settle(out[a])
      BY <2>2, SettleStep
    <3> QED BY <3>1 DEF Batches!Next, Batches!Settle, Pending
  <2>3. CASE UNCHANGED <<Pending, posted, failed>>
    BY <2>3 DEF Batches!vars, Pending
  <2>4. ASSUME NEW a \in Actors, Take(a) PROVE [Batches!Next]_Batches!vars
    BY <2>3, <2>4, TakeStep
  <2>5. CASE UNCHANGED <<batch, out, posted, failed>>
    BY <2>3, <2>5 DEF Pending
  <2>6. \A a \in Actors : pc[a] \in Sinks => pc[a] \in {"slack", "generic"}
    BY NotifierConstants
  <2>7. CASE \E t \in Threads : OnRecord(t)
    BY <2>1, <2>7
  <2>8. ASSUME NEW a \in Actors, Runs(a) PROVE [Batches!Next]_Batches!vars
    <3>1. CASE \E ok \in BOOLEAN : PostGeneric(a, ok)
      BY <2>2, <3>1 DEF PostGeneric
    <3>2. CASE PostRaises(a)
      BY <2>2, <2>6, <3>2 DEF PostRaises
    <3>3. CASE Take(a)
      BY <2>4, <3>3
    <3> QED
      BY <2>5, <2>8, <3>1, <3>2, <3>3
      DEF Runs, TimerFires, FlushEmpty, FlushThrottled, Rescheduled, Stamp, PostSlack,
          queue, history
  <2>9. CASE Tick \/ UNCHANGED vars
    BY <2>5, <2>9 DEF Tick, vars, queue, history
  <2> QED BY <2>7, <2>8, <2>9 DEF Next
<1> QED BY <1>1, <1>2, NotifierTypeCorrect, PTL DEF Spec, Batches!Spec, NotifierInv

-----------------------------------------------------------------------------
(***************************************************************************)
(* The chain of hooks as a sequence: s runs from hook first, along nx, to  *)
(* the hook of the application, and no hook is in it twice.                *)
(***************************************************************************)
Walk(s, first, nx) ==
  /\ s \in Seq(Hooks) /\ s # <<>> /\ s[1] = first
  /\ s[Len(s)] = "app" /\ nx["app"] = "none"
  /\ \A i \in 1..(Len(s) - 1) : nx[s[i]] = s[i + 1]
  /\ \A i \in 1..Len(s) : \A j \in 1..Len(s) : s[i] = s[j] => i = j

\* The only log hook of s is at k, and prev is the hook after it.
LogAt(s, k, prev) ==
  /\ k \in 1..(Len(s) - 1) /\ s[k] \in LogHooks /\ s[k + 1] = prev
  /\ \A i \in 1..Len(s) : s[i] \in LogHooks => i = k

\* The log adapter remembers a hook exactly while its own is in the chain.
Remembers(s, prev) ==
  IF prev = "unset" THEN \A i \in 1..Len(s) : s[i] \notin LogHooks
  ELSE \E k \in 1..(Len(s) - 1) : LogAt(s, k, prev)

NoneOf(s, left) == \A i \in 1..Len(s) : s[i] \notin left

ChainTypes ==
  /\ installed \in Hooks \cup {"none"} /\ next \in [Hooks -> Hooks \cup {"none"}]
  /\ previous \in Hooks \cup {"none", "unset"}
  /\ unused \subseteq LogHooks \cup {"otel"}
  /\ orderly \in BOOLEAN /\ tangled \in BOOLEAN

\* What the hooks on the chain are, as long as the server did not hook itself
\* again: orderly steps keep the stack equal to the chain.
Chained ==
  ~tangled => \E s \in Seq(Hooks) :
    /\ Walk(s, installed, next) /\ Remembers(s, previous) /\ NoneOf(s, unused)
    /\ orderly => stack = s

ChainInv == ChainTypes /\ (orderly => ~tangled) /\ Chained

-----------------------------------------------------------------------------
(* Walks *)

LEMMA HooksFinite == IsFiniteSet(Hooks) /\ Cardinality(Hooks) \in Nat
<1>1. IsFiniteSet({"app", "live", "otel"})
  <2>1. IsFiniteSet({"app"}) /\ IsFiniteSet({"live"}) /\ IsFiniteSet({"otel"})
    BY FS_Singleton
  <2>2. {"app", "live", "otel"} = ({"app"} \cup {"live"}) \cup {"otel"}
    OBVIOUS
  <2>3. IsFiniteSet({"app"} \cup {"live"})
    BY <2>1, FS_Union
  <2> QED
    BY <2>1, <2>2, <2>3, FS_Union
<1>2. IsFiniteSet(Hooks)
  BY <1>1, HookNames, FS_Union DEF Hooks
<1> QED
  BY <1>2, FS_CardinalityType

\* A walk visits every hook once at most, so it is no longer than Hooks.
LEMMA WalkFits ==
  ASSUME NEW s, NEW first, NEW nx, Walk(s, first, nx)
  PROVE  Len(s) \in Nat \ {0} /\ Len(s) <= Cardinality(Hooks)
<1>1. s \in Seq(Hooks) /\ s # <<>>
  BY DEF Walk
<1>2. Len(s) \in Nat \ {0} /\ s \in [1..Len(s) -> Hooks]
  BY <1>1, EmptySeq, LenProperties
<1>3. IsFiniteSet(1..Len(s)) /\ Cardinality(1..Len(s)) = Len(s)
  BY <1>2, FS_Interval
<1>4. ~ (Cardinality(Hooks) < Len(s))
  <2> SUFFICES ASSUME Cardinality(Hooks) < Len(s) PROVE FALSE
    OBVIOUS
  <2>1. PICK i, j \in 1..Len(s) : i # j /\ s[i] = s[j]
    BY <1>2, <1>3, HooksFinite, FS_PigeonHole
  <2> QED
    BY <2>1 DEF Walk
<1> QED
  BY <1>2, <1>4, HooksFinite

\* Two functions that satisfy the recursion of CalledAfter agree: where they
\* first differ they agreed one call before.
Recursion(f, h) ==
  f = [n \in 0..Cardinality(Hooks) |->
         IF n = 0 THEN h ELSE IF f[n - 1] = "none" THEN "none" ELSE next[f[n - 1]]]

LEMMA LowestMember ==
  ASSUME NEW N \in Nat, NEW S \in SUBSET (0..N), S # {}
  PROVE  \E i \in S : \A j \in S : i <= j
<1> DEFINE below(i) == {j \in S : j <= i}
           Feet == {below(i) : i \in S}
<1>0. \A i \in S : i \in Int
  OBVIOUS
<1>1. IsFiniteSet(S)
  <2>1. IsFiniteSet(0..N)
    BY FS_Interval
  <2> QED
    BY <2>1, FS_Subset
<1>2. Feet \subseteq FiniteSubsetsOf(S) /\ Feet # {}
  <2>1. \A i \in S : below(i) \subseteq S /\ IsFiniteSet(below(i))
    BY <1>1, FS_Subset
  <2> HIDE DEF below
  <2> QED
    BY <2>1 DEF FiniteSubsetsOf
<1>3. IsWellFoundedOn(StrictSubsetOrdering(S), FiniteSubsetsOf(S))
  BY FS_StrictSubsetOrderingWellFounded
<1>4. PICK t \in Feet : \A u \in Feet : ~ (<<u, t>> \in StrictSubsetOrdering(S))
  <2> HIDE DEF Feet
  <2> QED
    BY <1>2, <1>3, WFMin
<1>5. PICK i \in S : t = below(i)
  BY <1>4
<1>6. ASSUME NEW j \in S, j < i PROVE FALSE
  <2>1. below(j) \in Feet
    OBVIOUS
  <2>2. below(j) \subseteq below(i) /\ i \in below(i) /\ i \notin below(j)
    <3>1. \A u \in S : u <= j => u <= i
      BY <1>0, <1>6
    <3>2. i <= i /\ ~ (i <= j)
      BY <1>0, <1>6
    <3> QED
      BY <3>1, <3>2
  <2>3. below(j) \subseteq S /\ below(i) \subseteq S
    OBVIOUS
  <2> HIDE DEF below
  <2>4. <<below(j), below(i)>> \in StrictSubsetOrdering(S)
    BY <2>2, <2>3 DEF StrictSubsetOrdering
  <2> QED
    BY <1>4, <1>5, <2>1, <2>4
<1> QED
  BY <1>0, <1>6

LEMMA OneRecursion ==
  ASSUME NEW f, NEW g, NEW h, Recursion(f, h), Recursion(g, h)
  PROVE  f = g
<1> DEFINE N == Cardinality(Hooks)
           D == {n \in 0..N : f[n] # g[n]}
<1>1. N \in Nat
  BY HooksFinite
<1>2. /\ f = [n \in 0..N |-> f[n]] /\ g = [n \in 0..N |-> g[n]]
      /\ f[0] = h /\ g[0] = h
      /\ \A n \in 1..N : f[n] = IF f[n - 1] = "none" THEN "none" ELSE next[f[n - 1]]
      /\ \A n \in 1..N : g[n] = IF g[n - 1] = "none" THEN "none" ELSE next[g[n - 1]]
  <2>1. \A u : Recursion(u, h) =>
          /\ u = [n \in 0..N |-> u[n]] /\ u[0] = h
          /\ \A n \in 1..N : u[n] = IF u[n - 1] = "none" THEN "none" ELSE next[u[n - 1]]
    <3> SUFFICES ASSUME NEW u, Recursion(u, h)
                 PROVE  /\ u = [n \in 0..N |-> u[n]] /\ u[0] = h
                        /\ \A n \in 1..N :
                             u[n] = IF u[n - 1] = "none" THEN "none" ELSE next[u[n - 1]]
      OBVIOUS
    <3>1. u = [n \in 0..N |-> IF n = 0 THEN h
                ELSE IF u[n - 1] = "none" THEN "none" ELSE next[u[n - 1]]]
      BY DEF Recursion
    <3> HIDE DEF N
    <3>2. DOMAIN u = 0..N
      BY <3>1
    <3>3. \A n \in 0..N : u[n] = IF n = 0 THEN h
                ELSE IF u[n - 1] = "none" THEN "none" ELSE next[u[n - 1]]
      BY <3>1
    <3> QED
      BY <1>1, <3>1, <3>2, <3>3
  <2> QED
    BY <2>1
<1>3. D = {}
  <2> SUFFICES ASSUME D # {} PROVE FALSE
    OBVIOUS
  <2>1. PICK m \in D : \A j \in D : m <= j
    BY <1>1, LowestMember
  <2>2. m \in 1..N /\ m - 1 \in 0..N /\ m - 1 \notin D
    BY <1>1, <1>2, <2>1
  <2>3. f[m - 1] = g[m - 1]
    BY <2>2
  <2> QED
    BY <1>2, <2>1, <2>2, <2>3
<1> QED
  BY <1>2, <1>3

\* The interceptor calls exactly the hooks of a walk, in its order.
LEMMA CallsWalk ==
  ASSUME NEW s, Walk(s, installed, next)
  PROVE  /\ \A n \in 0..Cardinality(Hooks) :
              CalledAfter(installed)[n] = IF n < Len(s) THEN s[n + 1] ELSE "none"
         /\ Reached(installed) = {s[i] : i \in 1..Len(s)}
<1> DEFINE N == Cardinality(Hooks)
           g == [n \in 0..N |-> IF n < Len(s) THEN s[n + 1] ELSE "none"]
<1>1. N \in Nat /\ Len(s) \in Nat \ {0} /\ Len(s) <= N
  BY HooksFinite, WalkFits
<1>2. /\ s[1] = installed /\ s[Len(s)] = "app" /\ next["app"] = "none"
      /\ \A i \in 1..(Len(s) - 1) : next[s[i]] = s[i + 1]
  BY DEF Walk
<1>3. \A i \in 1..Len(s) : s[i] \in Hooks /\ s[i] # "none"
  <2>1. "none" \notin Hooks
    BY HookNames DEF Hooks
  <2> QED
    BY <2>1, ElementOfSeq DEF Walk
<1>4. Recursion(g, installed)
  <2> SUFFICES ASSUME NEW n \in 0..N
               PROVE  g[n] = IF n = 0 THEN installed
                             ELSE IF g[n - 1] = "none" THEN "none" ELSE next[g[n - 1]]
    BY DEF Recursion
  <2>1. CASE n = 0
    BY <1>1, <1>2, <2>1
  <2>2. CASE n # 0 /\ n < Len(s)
    <3>1. n \in 1..(Len(s) - 1) /\ n - 1 \in 0..N
      BY <1>1, <2>2
    <3>2. g[n] = s[n + 1] /\ g[n - 1] = s[n]
      BY <1>1, <3>1, <2>2
    <3> HIDE DEF g
    <3> QED
      BY <1>1, <1>2, <1>3, <2>2, <3>1, <3>2
  <2>3. CASE n = Len(s)
    <3>1. n - 1 \in 0..N /\ n - 1 < Len(s) /\ (n - 1) + 1 = Len(s)
      BY <1>1, <2>3
    <3>2. g[n] = "none" /\ g[n - 1] = "app"
      BY <1>1, <1>2, <3>1, <2>3
    <3> HIDE DEF g
    <3> QED
      BY <1>1, <1>2, <2>3, <3>2
  <2>4. CASE n > Len(s)
    <3>1. n - 1 \in 0..N /\ ~ (n - 1 < Len(s)) /\ n # 0 /\ ~ (n < Len(s))
      BY <1>1, <2>4
    <3>2. g[n] = "none" /\ g[n - 1] = "none"
      BY <1>1, <3>1
    <3> HIDE DEF g
    <3> QED
      BY <3>1, <3>2
  <2> QED
    BY <1>1, <2>1, <2>2, <2>3, <2>4
<1>5. CalledAfter(installed) = CHOOSE f : Recursion(f, installed)
  BY DEF CalledAfter, Recursion
<1>6. CalledAfter(installed) = g
  <2> HIDE DEF g
  <2>1. Recursion(CHOOSE f : Recursion(f, installed), installed)
    BY <1>4
  <2> QED
    BY <1>4, <1>5, <2>1, OneRecursion
<1>7. \A n \in 0..N : g[n] = IF n < Len(s) THEN s[n + 1] ELSE "none"
  OBVIOUS
<1>8. {g[n] : n \in 0..N} \ {"none"} = {s[i] : i \in 1..Len(s)}
  <2> HIDE DEF g
  <2>1. ASSUME NEW i \in 1..Len(s)
        PROVE  i - 1 \in 0..N /\ g[i - 1] = s[i] /\ s[i] # "none"
    BY <1>1, <1>3, <1>7
  <2>2. ASSUME NEW n \in 0..N, g[n] # "none"
        PROVE  n + 1 \in 1..Len(s) /\ g[n] = s[n + 1]
    BY <1>1, <1>7, <2>2
  <2> QED
    BY <2>1, <2>2
<1> QED
  BY <1>6, <1>7, <1>8 DEF Reached

-----------------------------------------------------------------------------
(* What the calls do to a walk *)

LEMMA WalkBasics ==
  ASSUME NEW s, NEW first, NEW nx, Walk(s, first, nx)
  PROVE  /\ s \in Seq(Hooks) /\ s # <<>> /\ Len(s) \in Nat \ {0}
         /\ \A i \in 1..Len(s) : s[i] \in Hooks
         /\ first \in Hooks /\ \E i \in 1..Len(s) : s[i] = "app"
<1>1. s \in Seq(Hooks) /\ s # <<>> /\ s[1] = first /\ s[Len(s)] = "app"
  BY DEF Walk
<1>2. Len(s) \in Nat \ {0}
  BY <1>1, EmptySeq
<1>3. \A i \in 1..Len(s) : s[i] \in Hooks
  BY <1>1, ElementOfSeq
<1> QED
  BY <1>1, <1>2, <1>3

LEMMA PushIs ==
  ASSUME NEW s \in Seq(Hooks), NEW h \in Hooks
  PROVE  /\ <<h>> \o s \in Seq(Hooks) /\ Len(<<h>> \o s) = Len(s) + 1
         /\ (<<h>> \o s)[1] = h
         /\ \A i \in 1..Len(s) : (<<h>> \o s)[i + 1] = s[i]
         /\ \A i \in 1..(Len(s) + 1) : i = 1 \/ i - 1 \in 1..Len(s)
<1>1. <<h>> \in Seq(Hooks) /\ Len(<<h>>) = 1 /\ <<h>>[1] = h /\ Len(s) \in Nat
  BY LenProperties
<1>2. /\ <<h>> \o s \in Seq(Hooks) /\ Len(<<h>> \o s) = 1 + Len(s)
      /\ \A i \in 1..(1 + Len(s)) :
           (<<h>> \o s)[i] = IF i <= 1 THEN <<h>>[i] ELSE s[i - 1]
  BY <1>1, ConcatProperties
<1> DEFINE t == <<h>> \o s
<1> HIDE DEF t
<1>3. \A i \in 1..(1 + Len(s)) : t[i] = IF i <= 1 THEN <<h>>[i] ELSE s[i - 1]
  BY <1>2 DEF t
<1>4. t[1] = h /\ \A i \in 1..Len(s) : t[i + 1] = s[i]
  BY <1>1, <1>3
<1> QED
  BY <1>1, <1>2, <1>4 DEF t

LEMMA DropIs ==
  ASSUME NEW s \in Seq(Hooks), NEW k \in 1..(Len(s) - 1)
  PROVE  /\ SubSeq(s, k + 1, Len(s)) \in Seq(Hooks)
         /\ Len(SubSeq(s, k + 1, Len(s))) = Len(s) - k
         /\ \A i \in 1..(Len(s) - k) : SubSeq(s, k + 1, Len(s))[i] = s[k + i]
<1>1. Len(s) \in Nat /\ \A i \in 1..Len(s) : s[i] \in Hooks
  BY LenProperties, ElementOfSeq
<1>2. \A i \in (k + 1)..Len(s) : s[i] \in Hooks
  BY <1>1
<1>3. k + 1 \in Int /\ Len(s) \in Int
  BY <1>1
<1>4. /\ SubSeq(s, k + 1, Len(s)) \in Seq(Hooks)
      /\ Len(SubSeq(s, k + 1, Len(s)))
           = IF k + 1 <= Len(s) THEN Len(s) - (k + 1) + 1 ELSE 0
      /\ \A i \in 1..(Len(s) - (k + 1) + 1) :
           SubSeq(s, k + 1, Len(s))[i] = s[(k + 1) + i - 1]
  BY <1>2, <1>3, SubSeqProperties
<1> DEFINE t == SubSeq(s, k + 1, Len(s))
<1> HIDE DEF t
<1>5. /\ Len(t) = IF k + 1 <= Len(s) THEN Len(s) - (k + 1) + 1 ELSE 0
      /\ \A i \in 1..(Len(s) - (k + 1) + 1) : t[i] = s[(k + 1) + i - 1]
  BY <1>4 DEF t
<1>6. Len(t) = Len(s) - k
  BY <1>1, <1>5
<1>7. Len(s) - (k + 1) + 1 = Len(s) - k /\ \A i \in 1..(Len(s) - k) : (k + 1) + i - 1 = k + i
  BY <1>1
<1>8. \A i \in 1..(Len(s) - k) : t[i] = s[k + i]
  BY <1>5, <1>7
<1> QED
  BY <1>4, <1>6, <1>8 DEF t

\* A hook that is not on the walk is put before it.
LEMMA PushWalk ==
  ASSUME NEW s, NEW first, NEW nx \in [Hooks -> Hooks \cup {"none"}], Walk(s, first, nx),
         NEW h \in Hooks, \A i \in 1..Len(s) : s[i] # h
  PROVE  Walk(<<h>> \o s, h, [nx EXCEPT ![h] = first])
<1> DEFINE t == <<h>> \o s
           mx == [nx EXCEPT ![h] = first]
<1>1. /\ s \in Seq(Hooks) /\ Len(s) \in Nat \ {0} /\ \A i \in 1..Len(s) : s[i] \in Hooks
      /\ \E i \in 1..Len(s) : s[i] = "app"
  BY WalkBasics
<1>2. /\ t \in Seq(Hooks) /\ Len(t) = Len(s) + 1 /\ t[1] = h
      /\ \A i \in 1..Len(s) : t[i + 1] = s[i]
      /\ \A i \in 1..(Len(s) + 1) : i = 1 \/ i - 1 \in 1..Len(s)
  BY <1>1, PushIs
<1>3. mx[h] = first /\ \A g \in Hooks \ {h} : mx[g] = nx[g]
  OBVIOUS
<1> HIDE DEF t, mx
<1>4. t # <<>> /\ t[Len(t)] = "app"
  <2>1. t[Len(s) + 1] = s[Len(s)] /\ s[Len(s)] = "app"
    BY <1>1, <1>2 DEF Walk
  <2>2. Len(t) # 0
    BY <1>1, <1>2
  <2> QED
    BY <1>2, <2>1, <2>2, EmptySeq
<1>5. mx["app"] = "none"
  BY <1>1, <1>3 DEF Walk, Hooks
<1>6. ASSUME NEW i \in 1..(Len(t) - 1) PROVE mx[t[i]] = t[i + 1]
  <2>0. i \in 1..Len(s) /\ t[i + 1] = s[i]
    BY <1>1, <1>2
  <2>1. CASE i = 1
    BY <1>2, <1>3, <2>0, <2>1 DEF Walk
  <2>2. CASE i # 1
    <3>1. i - 1 \in 1..(Len(s) - 1) /\ (i - 1) + 1 = i
      BY <1>1, <2>0, <2>2
    <3>2. t[i] = s[i - 1] /\ nx[s[i - 1]] = s[i]
      <4>1. i - 1 \in 1..Len(s)
        BY <1>1, <3>1
      <4>2. nx[s[i - 1]] = s[(i - 1) + 1]
        BY <3>1 DEF Walk
      <4>3. t[(i - 1) + 1] = s[i - 1]
        BY <1>2, <4>1
      <4> QED
        BY <3>1, <4>2, <4>3
    <3>3. s[i - 1] \in Hooks \ {h}
      BY <1>1, <3>1
    <3> QED
      BY <1>3, <2>0, <3>2, <3>3
  <2> QED
    BY <2>1, <2>2
<1>7. ASSUME NEW i \in 1..Len(t), NEW j \in 1..Len(t), t[i] = t[j] PROVE i = j
  <2>1. CASE i = 1
    <3>1. j = 1 \/ (j - 1 \in 1..Len(s) /\ t[j] = s[j - 1])
      <4>1. \A n \in 1..Len(s) : n + 1 - 1 = n
        BY <1>1
      <4>2. j \in Int /\ (j - 1) + 1 = j
        OBVIOUS
      <4> QED
        BY <1>2, <4>2
    <3> QED
      BY <1>2, <1>7, <2>1, <3>1
  <2>2. CASE j = 1
    <3>1. i = 1 \/ (i - 1 \in 1..Len(s) /\ t[i] = s[i - 1])
      <4>1. i \in Int /\ (i - 1) + 1 = i
        OBVIOUS
      <4> QED
        BY <1>2, <4>1
    <3> QED
      BY <1>2, <1>7, <2>2, <3>1
  <2>3. CASE i # 1 /\ j # 1
    <3>1. i - 1 \in 1..Len(s) /\ j - 1 \in 1..Len(s) /\ (i - 1) + 1 = i /\ (j - 1) + 1 = j
      BY <1>2, <2>3
    <3>2. s[i - 1] = s[j - 1]
      BY <1>2, <1>7, <3>1
    <3>3. i - 1 = j - 1
      BY <3>1, <3>2 DEF Walk
    <3> QED
      BY <3>1, <3>3
  <2> QED
    BY <2>1, <2>2, <2>3
<1> QED
  BY <1>2, <1>4, <1>5, <1>6, <1>7 DEF Walk, t, mx

\* The first k hooks of a walk are taken off.
LEMMA DropWalk ==
  ASSUME NEW s, NEW first, NEW nx, Walk(s, first, nx), NEW k \in 1..(Len(s) - 1)
  PROVE  Walk(SubSeq(s, k + 1, Len(s)), s[k + 1], nx)
<1> DEFINE t == SubSeq(s, k + 1, Len(s))
<1>1. s \in Seq(Hooks) /\ Len(s) \in Nat \ {0}
  BY WalkBasics
<1>2. /\ t \in Seq(Hooks) /\ Len(t) = Len(s) - k
      /\ \A i \in 1..(Len(s) - k) : t[i] = s[k + i]
  BY <1>1, DropIs
<1> HIDE DEF t
<1>3. Len(t) \in Nat \ {0}
  BY <1>1, <1>2
<1>4. t # <<>>
  BY <1>2, <1>3, EmptySeq
<1>5. t[1] = s[k + 1] /\ t[Len(t)] = s[Len(s)]
  <2>1. 1 \in 1..(Len(s) - k) /\ Len(t) \in 1..(Len(s) - k) /\ k + Len(t) = Len(s)
    BY <1>1, <1>2
  <2> QED
    BY <1>2, <2>1
<1>6. ASSUME NEW i \in 1..(Len(t) - 1) PROVE nx[t[i]] = t[i + 1]
  <2>1. /\ i \in 1..(Len(s) - k) /\ i + 1 \in 1..(Len(s) - k)
        /\ k + i \in 1..(Len(s) - 1) /\ (k + i) + 1 = k + (i + 1)
    BY <1>1, <1>2
  <2>2. t[i] = s[k + i] /\ t[i + 1] = s[k + (i + 1)]
    BY <1>2, <2>1
  <2>3. nx[s[k + i]] = s[(k + i) + 1]
    BY <2>1 DEF Walk
  <2> QED
    BY <2>1, <2>2, <2>3
<1>7. ASSUME NEW i \in 1..Len(t), NEW j \in 1..Len(t), t[i] = t[j] PROVE i = j
  <2>1. k + i \in 1..Len(s) /\ k + j \in 1..Len(s)
    BY <1>1, <1>2
  <2>2. t[i] = s[k + i] /\ t[j] = s[k + j]
    BY <1>2
  <2>3. k + i = k + j
    BY <1>7, <2>1, <2>2 DEF Walk
  <2> QED
    BY <2>3
<1> QED
  BY <1>2, <1>4, <1>5, <1>6, <1>7 DEF Walk, t

\* A hook off the walk may call whatever it likes.
LEMMA SameWalk ==
  ASSUME NEW s, NEW first, NEW nx \in [Hooks -> Hooks \cup {"none"}], Walk(s, first, nx),
         NEW h \in Hooks, NEW v, \A i \in 1..Len(s) : s[i] # h
  PROVE  Walk(s, first, [nx EXCEPT ![h] = v])
<1> DEFINE mx == [nx EXCEPT ![h] = v]
<1>1. /\ Len(s) \in Nat \ {0} /\ \A i \in 1..Len(s) : s[i] \in Hooks
      /\ \E i \in 1..Len(s) : s[i] = "app"
  BY WalkBasics
<1>2. \A g \in Hooks \ {h} : mx[g] = nx[g]
  OBVIOUS
<1> HIDE DEF mx
<1>3. mx["app"] = "none"
  BY <1>1, <1>2 DEF Walk, Hooks
<1>4. ASSUME NEW i \in 1..(Len(s) - 1) PROVE mx[s[i]] = s[i + 1]
  <2>1. i \in 1..Len(s)
    BY <1>1
  <2>2. s[i] \in Hooks \ {h} /\ nx[s[i]] = s[i + 1]
    BY <1>1, <2>1 DEF Walk
  <2> QED
    BY <1>2, <2>2
<1> QED
  BY <1>3, <1>4 DEF Walk, mx

\* What is known of a pushed or a dropped walk besides: its hooks are attached,
\* and the log adapter remembers what it should.
LEMMA PushOther ==
  ASSUME NEW s \in Seq(Hooks), NEW prev, Remembers(s, prev),
         NEW h \in Hooks \ LogHooks
  PROVE  Remembers(<<h>> \o s, prev)
<1> DEFINE t == <<h>> \o s
<1>1. /\ t \in Seq(Hooks) /\ Len(t) = Len(s) + 1 /\ t[1] = h /\ Len(s) \in Nat
      /\ \A i \in 1..Len(s) : t[i + 1] = s[i]
      /\ \A i \in 1..(Len(s) + 1) : i = 1 \/ i - 1 \in 1..Len(s)
  BY PushIs, LenProperties
<1> HIDE DEF t
<1>2. \A i \in 1..Len(t) : i = 1 \/ (i - 1 \in 1..Len(s) /\ t[i] = s[i - 1])
  <2> SUFFICES ASSUME NEW i \in 1..Len(t), i # 1
               PROVE  i - 1 \in 1..Len(s) /\ t[i] = s[i - 1]
    OBVIOUS
  <2>1. i - 1 \in 1..Len(s) /\ (i - 1) + 1 = i
    BY <1>1
  <2> QED
    BY <1>1, <2>1
<1>3. CASE prev = "unset"
  <2>1. \A i \in 1..Len(t) : t[i] \notin LogHooks
    BY <1>1, <1>2, <1>3 DEF Remembers
  <2> QED
    BY <1>3, <2>1 DEF Remembers, t
<1>4. CASE prev # "unset"
  <2>1. PICK k \in 1..(Len(s) - 1) : LogAt(s, k, prev)
    BY <1>4 DEF Remembers
  <2>2. /\ k + 1 \in 1..(Len(t) - 1) /\ k \in 1..Len(s) /\ k + 1 \in 1..Len(s)
    BY <1>1
  <2>3. t[k + 1] \in LogHooks /\ t[(k + 1) + 1] = prev
    BY <1>1, <2>1, <2>2 DEF LogAt
  <2>4. ASSUME NEW i \in 1..Len(t), t[i] \in LogHooks PROVE i = k + 1
    <3>1. i # 1 /\ i - 1 \in 1..Len(s) /\ s[i - 1] \in LogHooks
      BY <1>1, <1>2, <2>4
    <3>2. i - 1 = k
      BY <2>1, <3>1 DEF LogAt
    <3> QED
      BY <3>2
  <2>5. LogAt(t, k + 1, prev)
    BY <2>2, <2>3, <2>4 DEF LogAt
  <2> QED
    BY <1>4, <2>2, <2>5 DEF Remembers, t
<1> QED
  BY <1>3, <1>4

\* A log hook is put before a walk that has none.
LEMMA PushLog ==
  ASSUME NEW s \in Seq(Hooks), s # <<>>, Remembers(s, "unset"), NEW h \in LogHooks
  PROVE  Remembers(<<h>> \o s, s[1])
<1> DEFINE t == <<h>> \o s
<1>0. h \in Hooks /\ Len(s) \in Nat \ {0} /\ s[1] \in Hooks
  <2>1. Len(s) \in Nat \ {0}
    BY EmptySeq
  <2> QED
    BY <2>1, ElementOfSeq DEF Hooks
<1>1. /\ t \in Seq(Hooks) /\ Len(t) = Len(s) + 1 /\ t[1] = h
      /\ \A i \in 1..Len(s) : t[i + 1] = s[i]
  BY <1>0, PushIs
<1> HIDE DEF t
<1>2. s[1] # "unset"
  BY <1>0, HookNames DEF Hooks
<1>3. ASSUME NEW i \in 1..Len(t), t[i] \in LogHooks PROVE i = 1
  <2> SUFFICES ASSUME i # 1 PROVE FALSE
    OBVIOUS
  <2>1. i - 1 \in 1..Len(s) /\ (i - 1) + 1 = i
    BY <1>0, <1>1
  <2>2. s[i - 1] \in LogHooks
    BY <1>1, <1>3, <2>1
  <2> QED
    BY <2>1, <2>2 DEF Remembers
<1>4. 1 \in 1..(Len(t) - 1) /\ t[1 + 1] = s[1]
  BY <1>0, <1>1
<1>5. LogAt(t, 1, s[1])
  BY <1>1, <1>3, <1>4 DEF LogAt
<1> QED
  BY <1>2, <1>4, <1>5 DEF Remembers, t

\* With the log hook itself everything before it goes, and the log adapter
\* forgets; any hook before it goes without being noticed.
LEMMA DropLog ==
  ASSUME NEW s \in Seq(Hooks), NEW prev, NEW k \in 1..(Len(s) - 1), LogAt(s, k, prev)
  PROVE  Remembers(SubSeq(s, k + 1, Len(s)), "unset")
<1> DEFINE t == SubSeq(s, k + 1, Len(s))
<1>1. /\ Len(s) \in Nat /\ Len(t) = Len(s) - k
      /\ \A i \in 1..(Len(s) - k) : t[i] = s[k + i]
  BY DropIs, LenProperties
<1> HIDE DEF t
<1>2. ASSUME NEW i \in 1..Len(t), t[i] \in LogHooks PROVE FALSE
  <2>1. i \in 1..(Len(s) - k) /\ k + i \in 1..Len(s) /\ k + i # k
    BY <1>1
  <2> QED
    BY <1>1, <1>2, <2>1 DEF LogAt
<1> QED
  BY <1>2 DEF Remembers, t

LEMMA DropOther ==
  ASSUME NEW s \in Seq(Hooks), NEW prev, Remembers(s, prev),
         1 \in 1..(Len(s) - 1), s[1] \notin LogHooks
  PROVE  Remembers(SubSeq(s, 2, Len(s)), prev)
<1> DEFINE t == SubSeq(s, 2, Len(s))
<1>1. /\ Len(s) \in Nat /\ Len(t) = Len(s) - 1
      /\ \A i \in 1..(Len(s) - 1) : t[i] = s[1 + i]
  <2>1. 1 + 1 = 2
    OBVIOUS
  <2> QED
    BY <2>1, DropIs, LenProperties
<1> HIDE DEF t
<1>2. CASE prev = "unset"
  <2>1. ASSUME NEW i \in 1..Len(t) PROVE t[i] \notin LogHooks
    <3>1. i \in 1..(Len(s) - 1) /\ 1 + i \in 1..Len(s)
      BY <1>1
    <3> QED
      BY <1>1, <1>2, <3>1 DEF Remembers
  <2> QED
    BY <1>2, <2>1 DEF Remembers, t
<1>3. CASE prev # "unset"
  <2>1. PICK k \in 1..(Len(s) - 1) : LogAt(s, k, prev)
    BY <1>3 DEF Remembers
  <2>2. k # 1
    BY <2>1 DEF LogAt
  <2>3. /\ k - 1 \in 1..(Len(t) - 1) /\ k - 1 \in 1..(Len(s) - 1) /\ k \in 1..(Len(s) - 1)
        /\ 1 + (k - 1) = k /\ (k - 1) + 1 = k /\ 1 + k = k + 1
    BY <1>1, <2>2
  <2>4. t[k - 1] \in LogHooks /\ t[(k - 1) + 1] = prev
    BY <1>1, <2>1, <2>3 DEF LogAt
  <2>5. ASSUME NEW i \in 1..Len(t), t[i] \in LogHooks PROVE i = k - 1
    <3>1. i \in 1..(Len(s) - 1) /\ 1 + i \in 1..Len(s)
      BY <1>1
    <3>2. 1 + i = k
      BY <1>1, <2>1, <2>5, <3>1 DEF LogAt
    <3> QED
      BY <3>1, <3>2
  <2>6. LogAt(t, k - 1, prev)
    BY <2>3, <2>4, <2>5 DEF LogAt
  <2> QED
    BY <1>3, <2>3, <2>6 DEF Remembers, t
<1> QED
  BY <1>2, <1>3

LEMMA NoneOfPush ==
  ASSUME NEW s \in Seq(Hooks), NEW left, NoneOf(s, left), NEW h \in Hooks
  PROVE  NoneOf(<<h>> \o s, left \ {h})
<1> DEFINE t == <<h>> \o s
<1>1. /\ Len(t) = Len(s) + 1 /\ t[1] = h /\ Len(s) \in Nat
      /\ \A i \in 1..Len(s) : t[i + 1] = s[i]
  BY PushIs, LenProperties
<1> HIDE DEF t
<1>2. ASSUME NEW i \in 1..Len(t) PROVE t[i] \notin left \ {h}
  <2>1. CASE i = 1
    BY <1>1, <2>1
  <2>2. CASE i # 1
    <3>1. i - 1 \in 1..Len(s) /\ (i - 1) + 1 = i
      BY <1>1, <2>2
    <3> QED
      BY <1>1, <3>1 DEF NoneOf
  <2> QED
    BY <2>1, <2>2
<1> QED
  BY <1>2 DEF NoneOf, t

LEMMA NoneOfDrop ==
  ASSUME NEW s \in Seq(Hooks), NEW left, NoneOf(s, left), NEW k \in 1..(Len(s) - 1)
  PROVE  NoneOf(SubSeq(s, k + 1, Len(s)), left)
<1> DEFINE t == SubSeq(s, k + 1, Len(s))
<1>1. /\ Len(s) \in Nat /\ Len(t) = Len(s) - k
      /\ \A i \in 1..(Len(s) - k) : t[i] = s[k + i]
  BY DropIs, LenProperties
<1> HIDE DEF t
<1>2. ASSUME NEW i \in 1..Len(t) PROVE t[i] \notin left
  <2>1. i \in 1..(Len(s) - k) /\ k + i \in 1..Len(s)
    BY <1>1
  <2> QED
    BY <1>1, <2>1 DEF NoneOf
<1> QED
  BY <1>2 DEF NoneOf, t

-----------------------------------------------------------------------------
(* The calls *)

\* A new walk for the state after a call.
Walked(s) ==
  /\ Walk(s, installed, next) /\ Remembers(s, previous) /\ NoneOf(s, unused)
  /\ orderly => stack = s

LEMMA ChainStart == LiveInit => ChainInv
<1> SUFFICES ASSUME LiveInit PROVE ChainInv
  OBVIOUS
<1> USE DEF LiveInit, ChainInit
<1>1. ChainTypes
  BY DEF ChainTypes, Hooks
<1>2. <<"app">> \in Seq(Hooks) /\ Len(<<"app">>) = 1 /\ <<"app">>[1] = "app" /\ <<"app">> # <<>>
  BY DEF Hooks
<1>3. Walk(<<"app">>, installed, next)
  <2>1. next["app"] = "none"
    BY DEF Hooks
  <2> QED
    BY <1>2, <2>1 DEF Walk
<1>4. "app" \notin LogHooks \cup {"otel"}
  BY HookNames
<1>5. Remembers(<<"app">>, previous) /\ NoneOf(<<"app">>, unused)
  BY <1>2, <1>4 DEF Remembers, NoneOf
<1>6. Walked(<<"app">>)
  BY <1>3, <1>5 DEF Walked
<1> QED
  BY <1>1, <1>2, <1>6 DEF ChainInv, Chained, Walked

\* The attached log hook is where the adapter's memory says it is.
LEMMA LogPlaceIs ==
  ASSUME stack \in Seq(Hooks), NEW prev, NEW k \in 1..(Len(stack) - 1), LogAt(stack, k, prev)
  PROVE  LogPlace = k
<1>1. Len(stack) \in Nat /\ k \in 1..Len(stack) /\ stack[k] \in LogHooks
  BY LenProperties DEF LogAt
<1>2. \A i \in 1..Len(stack) : stack[i] \in LogHooks => i = k
  BY DEF LogAt
<1> QED
  BY <1>1, <1>2 DEF LogPlace

LEMMA AttachStep ==
  ASSUME ChainInv, NEW h \in LogHooks, Attach(h)
  PROVE  ChainInv'
<1>1. ChainTypes /\ h \in unused /\ h \in Hooks
  BY DEF ChainInv, Attach, Hooks
<1>2. /\ unused' = unused \ {h} /\ next' = [next EXCEPT ![h] = Original]
      /\ installed' = h /\ previous' = Original /\ tangled' = tangled
  BY DEF Attach
<1>3. Original \in Hooks \cup {"none"}
  BY <1>1 DEF Original, ChainTypes
<1>4. /\ orderly' = orderly
      /\ orderly /\ previous = "unset" => stack' = <<h>> \o stack
      /\ orderly /\ previous # "unset"
           => stack' = <<h>> \o SubSeq(stack, LogPlace + 1, Len(stack))
  BY DEF Attach
<1>5. ChainTypes' /\ (orderly' => ~tangled')
  <2>1. next' \in [Hooks -> Hooks \cup {"none"}] /\ unused' \subseteq LogHooks \cup {"otel"}
    BY <1>1, <1>2, <1>3 DEF ChainTypes
  <2>2. orderly' \in BOOLEAN /\ tangled' \in BOOLEAN /\ (orderly' => orderly)
    BY <1>1, <1>2, <1>4 DEF ChainTypes
  <2> QED
    BY <1>1, <1>2, <1>3, <2>1, <2>2 DEF ChainTypes, ChainInv
<1>6. ASSUME ~tangled' PROVE \E t \in Seq(Hooks) : Walked(t)'
  <2>1. PICK s \in Seq(Hooks) : Walked(s)
    BY <1>2, <1>6 DEF ChainInv, Chained, Walked
  <2>2. Walk(s, installed, next) /\ next \in [Hooks -> Hooks \cup {"none"}] /\ NoneOf(s, unused)
    BY <1>1, <2>1 DEF Walked, ChainTypes
  <2>3. \A i \in 1..Len(s) : s[i] # h
    BY <1>1, <2>2 DEF NoneOf
  <2>4. CASE previous = "unset"
    <3>1. Original = installed /\ s[1] = installed /\ s # <<>> /\ Remembers(s, "unset")
      BY <2>1, <2>4 DEF Original, Walked, Walk
    <3>2. Walk(<<h>> \o s, installed', next')
      BY <1>1, <1>2, <2>2, <2>3, <3>1, PushWalk
    <3>3. Remembers(<<h>> \o s, previous')
      BY <1>2, <3>1, PushLog
    <3>4. NoneOf(<<h>> \o s, unused')
      BY <1>1, <1>2, <2>2, NoneOfPush
    <3>5. orderly' => stack' = <<h>> \o s
      BY <1>4, <2>1, <2>4 DEF Walked
    <3>6. <<h>> \o s \in Seq(Hooks)
      BY <3>2 DEF Walk
    <3> QED
      BY <3>2, <3>3, <3>4, <3>5, <3>6 DEF Walked
  <2>5. CASE previous # "unset"
    <3>1. PICK k \in 1..(Len(s) - 1) : LogAt(s, k, previous)
      BY <2>1, <2>5 DEF Walked, Remembers
    <3> DEFINE t == SubSeq(s, k + 1, Len(s))
    <3>2. Original = previous /\ s[k + 1] = previous
      BY <2>5, <3>1 DEF Original, LogAt
    <3>3. Walk(t, previous, next)
      BY <2>2, <3>2, DropWalk
    <3>4. Remembers(t, "unset")
      BY <3>1, DropLog
    <3>5. NoneOf(t, unused)
      BY <2>2, NoneOfDrop
    <3> HIDE DEF t
    <3>6. t \in Seq(Hooks) /\ t # <<>> /\ t[1] = previous /\ \A i \in 1..Len(t) : t[i] # h
      BY <1>1, <3>3, <3>5 DEF Walk, NoneOf
    <3>7. Walk(<<h>> \o t, installed', next')
      BY <1>1, <1>2, <2>2, <3>2, <3>3, <3>6, PushWalk
    <3>8. Remembers(<<h>> \o t, previous')
      BY <1>2, <3>2, <3>4, <3>6, PushLog
    <3>9. NoneOf(<<h>> \o t, unused')
      BY <1>1, <1>2, <3>5, <3>6, NoneOfPush
    <3>10. orderly' => stack' = <<h>> \o t
      <4> SUFFICES ASSUME orderly PROVE stack' = <<h>> \o t
        BY <1>4
      <4>1. stack = s
        BY <2>1 DEF Walked
      <4>2. LogPlace = k
        BY <3>1, <4>1, LogPlaceIs
      <4> QED
        BY <1>4, <2>5, <4>1, <4>2 DEF t
    <3>11. <<h>> \o t \in Seq(Hooks)
      BY <3>7 DEF Walk
    <3> QED
      BY <3>7, <3>8, <3>9, <3>10, <3>11 DEF Walked
  <2> QED
    BY <2>4, <2>5
<1> QED
  BY <1>5, <1>6 DEF ChainInv, Chained, Walked

LEMMA TailIsDrop ==
  ASSUME NEW s \in Seq(Hooks), s # <<>>
  PROVE  Tail(s) = SubSeq(s, 2, Len(s))
BY TailIsSubSeq

LEMMA DetachHookStep ==
  ASSUME ChainInv, NEW h \in LogHooks, DetachHook(h)
  PROVE  ChainInv'
<1>1. ChainTypes /\ installed = h
  BY DEF ChainInv, DetachHook
<1>2. /\ installed' = Detached /\ previous' = "unset" /\ next' = next /\ unused' = unused
      /\ orderly' = orderly /\ tangled' = tangled /\ (orderly => stack' = Tail(stack))
  BY DEF DetachHook, Pop
<1>3. ChainTypes' /\ (orderly' => ~tangled')
  BY <1>1, <1>2 DEF ChainTypes, ChainInv, Detached
<1>4. ASSUME ~tangled' PROVE \E t \in Seq(Hooks) : Walked(t)'
  <2>1. PICK s \in Seq(Hooks) : Walked(s)
    BY <1>2, <1>4 DEF ChainInv, Chained, Walked
  <2>2. Walk(s, installed, next) /\ NoneOf(s, unused) /\ s # <<>>
    BY <2>1 DEF Walked, Walk
  <2>3. s[1] = h /\ 1 \in 1..Len(s)
    BY <1>1, <2>2, EmptySeq DEF Walk
  <2>4. previous # "unset"
    BY <2>1, <2>3 DEF Walked, Remembers
  <2>5. PICK k \in 1..(Len(s) - 1) : LogAt(s, k, previous)
    BY <2>1, <2>4 DEF Walked, Remembers
  <2>6. k = 1 /\ s[1 + 1] = previous /\ 1 \in 1..(Len(s) - 1)
    BY <2>3, <2>5 DEF LogAt
  <2>7. 1 + 1 = 2
    OBVIOUS
  <2> DEFINE t == SubSeq(s, 2, Len(s))
  <2>8. Walk(t, installed', next')
    BY <1>2, <2>2, <2>4, <2>6, <2>7, DropWalk DEF Detached
  <2>9. Remembers(t, previous')
    BY <1>2, <2>5, <2>6, <2>7, DropLog
  <2>10. NoneOf(t, unused')
    BY <1>2, <2>2, <2>6, <2>7, NoneOfDrop
  <2>11. orderly' => stack' = t
    BY <1>2, <2>1, <2>2, TailIsDrop DEF Walked
  <2>12. t \in Seq(Hooks)
    BY <2>8 DEF Walk
  <2> HIDE DEF t
  <2> QED
    BY <2>8, <2>9, <2>10, <2>11, <2>12 DEF Walked
<1> QED
  BY <1>3, <1>4 DEF ChainInv, Chained, Walked

LEMMA DetachAnyStep ==
  ASSUME ChainInv, DetachAny
  PROVE  ChainInv'
<1>1. ChainTypes /\ previous # "unset"
  BY DEF ChainInv, DetachAny
<1>2. /\ installed' = previous /\ previous' = "unset" /\ next' = next /\ unused' = unused
      /\ tangled' = tangled
  BY DEF DetachAny
<1>3. /\ orderly /\ installed \in LogHooks => stack' = Tail(stack) /\ orderly' = orderly
      /\ ~(orderly /\ installed \in LogHooks) => orderly' = FALSE
  BY DEF DetachAny, Pop, Disorder
<1>4. ChainTypes' /\ (orderly' => ~tangled')
  <2>1. orderly' \in BOOLEAN /\ (orderly' => orderly)
    BY <1>1, <1>3 DEF ChainTypes
  <2> QED
    BY <1>1, <1>2, <2>1 DEF ChainTypes, ChainInv
<1>5. ASSUME ~tangled' PROVE \E t \in Seq(Hooks) : Walked(t)'
  <2>1. PICK s \in Seq(Hooks) : Walked(s)
    BY <1>2, <1>5 DEF ChainInv, Chained, Walked
  <2>2. Walk(s, installed, next) /\ NoneOf(s, unused) /\ s # <<>>
    BY <2>1 DEF Walked, Walk
  <2>3. PICK k \in 1..(Len(s) - 1) : LogAt(s, k, previous)
    BY <1>1, <2>1 DEF Walked, Remembers
  <2> DEFINE t == SubSeq(s, k + 1, Len(s))
  <2>4. Walk(t, installed', next')
    BY <1>2, <2>2, <2>3, DropWalk DEF LogAt
  <2>5. Remembers(t, previous')
    BY <1>2, <2>3, DropLog
  <2>6. NoneOf(t, unused')
    BY <1>2, <2>2, NoneOfDrop
  <2>7. orderly' => stack' = t
    <3> SUFFICES ASSUME orderly' PROVE stack' = t
      OBVIOUS
    <3>1. orderly /\ installed \in LogHooks /\ stack' = Tail(s)
      BY <1>3, <2>1 DEF Walked
    <3>2. k = 1
      BY <2>2, <2>3, <3>1, EmptySeq DEF Walk, LogAt
    <3>3. k + 1 = 2
      BY <3>2
    <3> QED
      BY <2>2, <3>1, <3>3, TailIsDrop
  <2>8. t \in Seq(Hooks)
    BY <2>4 DEF Walk
  <2> HIDE DEF t
  <2> QED
    BY <2>4, <2>5, <2>6, <2>7, <2>8 DEF Walked
<1> QED
  BY <1>4, <1>5 DEF ChainInv, Chained, Walked

LEMMA InstrumentStep ==
  ASSUME ChainInv, Instrument
  PROVE  ChainInv'
<1>1. ChainTypes /\ "otel" \in unused /\ "otel" \in Hooks \ LogHooks
  BY HookNames DEF ChainInv, Instrument, Hooks
<1>2. /\ unused' = unused \ {"otel"} /\ next' = [next EXCEPT !["otel"] = installed]
      /\ installed' = "otel" /\ previous' = previous /\ orderly' = orderly
      /\ tangled' = tangled /\ (orderly => stack' = <<"otel">> \o stack)
  BY DEF Instrument, Push
<1>3. ChainTypes' /\ (orderly' => ~tangled')
  BY <1>1, <1>2 DEF ChainTypes, ChainInv
<1>4. ASSUME ~tangled' PROVE \E t \in Seq(Hooks) : Walked(t)'
  <2>1. PICK s \in Seq(Hooks) : Walked(s)
    BY <1>2, <1>4 DEF ChainInv, Chained, Walked
  <2>2. /\ Walk(s, installed, next) /\ next \in [Hooks -> Hooks \cup {"none"}]
        /\ NoneOf(s, unused) /\ Remembers(s, previous)
    BY <1>1, <2>1 DEF Walked, ChainTypes
  <2>3. \A i \in 1..Len(s) : s[i] # "otel"
    BY <1>1, <2>2 DEF NoneOf
  <2>4. Walk(<<"otel">> \o s, installed', next')
    BY <1>1, <1>2, <2>2, <2>3, PushWalk
  <2>5. Remembers(<<"otel">> \o s, previous')
    BY <1>1, <1>2, <2>2, PushOther
  <2>6. NoneOf(<<"otel">> \o s, unused')
    BY <1>1, <1>2, <2>2, NoneOfPush
  <2>7. orderly' => stack' = <<"otel">> \o s
    BY <1>2, <2>1 DEF Walked
  <2>8. <<"otel">> \o s \in Seq(Hooks)
    BY <2>4 DEF Walk
  <2> QED
    BY <2>4, <2>5, <2>6, <2>7, <2>8 DEF Walked
<1> QED
  BY <1>3, <1>4 DEF ChainInv, Chained, Walked

\* A start while the server's hook is in the chain tangles it; otherwise the
\* hook goes before the chain, or stays off it.
LEMMA HookLiveStep ==
  ASSUME ChainInv, NEW bound \in BOOLEAN, HookLive(bound)
  PROVE  ChainInv'
<1>1. ChainTypes /\ "live" \in Hooks \ LogHooks
  BY HookNames DEF ChainInv, Hooks
<1> DEFINE inside == "live" \in Reached(installed)
<1>2. /\ next' = [next EXCEPT !["live"] = installed] /\ tangled' = (tangled \/ inside)
      /\ installed' = (IF bound THEN "live" ELSE installed)
      /\ previous' = previous /\ unused' = unused
      /\ inside => orderly' = FALSE
      /\ ~inside => orderly' = orderly
      /\ ~inside /\ orderly /\ bound => stack' = <<"live">> \o stack
      /\ ~inside /\ orderly /\ ~bound => stack' = stack
  BY DEF HookLive, Push, Disorder
<1>3. ChainTypes' /\ (orderly' => ~tangled')
  <2>1. next' \in [Hooks -> Hooks \cup {"none"}] /\ installed' \in Hooks \cup {"none"}
    BY <1>1, <1>2 DEF ChainTypes
  <2>2. orderly' \in BOOLEAN /\ tangled' \in BOOLEAN /\ (orderly' => orderly /\ ~inside)
    <3>1. tangled' \in BOOLEAN
      BY <1>1, <1>2 DEF ChainTypes
    <3>2. CASE inside
      BY <1>2, <3>1, <3>2
    <3>3. CASE ~inside
      BY <1>1, <1>2, <3>1, <3>3 DEF ChainTypes
    <3> QED
      BY <3>2, <3>3
  <2>3. orderly => ~tangled
    BY DEF ChainInv
  <2>4. orderly' => ~tangled'
    <3> HIDE DEF inside
    <3> QED
      BY <1>2, <2>2, <2>3
  <2> QED
    BY <1>1, <1>2, <2>1, <2>2, <2>4 DEF ChainTypes
<1>4. ASSUME ~tangled' PROVE \E t \in Seq(Hooks) : Walked(t)'
  <2>1. ~tangled /\ ~inside
    BY <1>2, <1>4
  <2>2. PICK s \in Seq(Hooks) : Walked(s)
    BY <2>1 DEF ChainInv, Chained, Walked
  <2>3. /\ Walk(s, installed, next) /\ next \in [Hooks -> Hooks \cup {"none"}]
        /\ NoneOf(s, unused) /\ Remembers(s, previous)
    BY <1>1, <2>2 DEF Walked, ChainTypes
  <2>4. \A i \in 1..Len(s) : s[i] # "live"
    BY <2>1, <2>3, CallsWalk
  <2> HIDE DEF inside
  <2>5. CASE bound
    <3>1. Walk(<<"live">> \o s, installed', next')
      BY <1>1, <1>2, <2>3, <2>4, <2>5, PushWalk
    <3>2. Remembers(<<"live">> \o s, previous')
      BY <1>1, <1>2, <2>3, PushOther
    <3>3. NoneOf(<<"live">> \o s, unused')
      <4>1. NoneOf(<<"live">> \o s, unused \ {"live"})
        BY <1>1, <2>3, NoneOfPush
      <4>2. "live" \notin unused
        BY <1>1 DEF ChainTypes
      <4> QED
        BY <1>2, <4>1, <4>2
    <3>4. orderly' => stack' = <<"live">> \o s
      BY <1>2, <2>1, <2>2, <2>5 DEF Walked
    <3>5. <<"live">> \o s \in Seq(Hooks)
      BY <3>1 DEF Walk
    <3> QED
      BY <3>1, <3>2, <3>3, <3>4, <3>5 DEF Walked
  <2>6. CASE ~bound
    <3>1. Walk(s, installed', next')
      BY <1>1, <1>2, <2>3, <2>4, <2>6, SameWalk
    <3>2. Walked(s)'
      BY <1>2, <2>1, <2>2, <2>3, <2>6, <3>1 DEF Walked
    <3> QED
      BY <3>2
  <2> QED
    BY <2>5, <2>6
<1> QED
  BY <1>3, <1>4 DEF ChainInv, Chained, Walked

LEMMA UnhookLiveStep ==
  ASSUME ChainInv, UnhookLive
  PROVE  ChainInv'
<1>1. ChainTypes /\ "live" \in Hooks \ LogHooks
  BY HookNames DEF ChainInv, Hooks
<1>2. /\ installed' = Restored /\ next' = next /\ previous' = previous /\ unused' = unused
      /\ tangled' = tangled
  BY DEF UnhookLive
<1>3. /\ orderly' \in BOOLEAN /\ (orderly' => orderly)
      /\ installed = "live" /\ orderly' => stack' = Tail(stack)
      /\ installed # "live" /\ orderly' => stack' = stack
  BY <1>1 DEF UnhookLive, Pop, Disorder, ChainTypes
<1>4. ChainTypes' /\ (orderly' => ~tangled')
  <2>1. installed' \in Hooks \cup {"none"}
    BY <1>1, <1>2 DEF ChainTypes, Restored
  <2> QED
    BY <1>1, <1>2, <1>3, <2>1 DEF ChainTypes, ChainInv
<1>5. ASSUME ~tangled' PROVE \E t \in Seq(Hooks) : Walked(t)'
  <2>1. PICK s \in Seq(Hooks) : Walked(s)
    BY <1>2, <1>5 DEF ChainInv, Chained, Walked
  <2>2. /\ Walk(s, installed, next) /\ NoneOf(s, unused) /\ Remembers(s, previous) /\ s # <<>>
    BY <2>1 DEF Walked, Walk
  <2>3. CASE installed = "live"
    <3>1. s[1] = "live" /\ s[Len(s)] = "app" /\ Len(s) \in Nat \ {0}
      BY <2>2, <2>3, WalkBasics DEF Walk
    <3>2. 1 \in 1..(Len(s) - 1)
      BY <3>1
    <3>3. 1 + 1 = 2
      OBVIOUS
    <3>4. Restored = s[2]
      BY <2>2, <2>3, <3>1, <3>2, <3>3 DEF Restored, Walk
    <3> DEFINE t == SubSeq(s, 2, Len(s))
    <3>5. Walk(t, installed', next')
      BY <1>2, <2>2, <3>2, <3>3, <3>4, DropWalk
    <3>6. Remembers(t, previous')
      BY <1>1, <1>2, <2>2, <3>1, <3>2, DropOther
    <3>7. NoneOf(t, unused')
      BY <1>2, <2>2, <3>2, <3>3, NoneOfDrop
    <3>8. orderly' => stack' = t
      BY <1>3, <2>1, <2>2, <2>3, TailIsDrop DEF Walked
    <3>9. t \in Seq(Hooks)
      BY <3>5 DEF Walk
    <3> HIDE DEF t
    <3> QED
      BY <3>5, <3>6, <3>7, <3>8, <3>9 DEF Walked
  <2>4. CASE installed # "live"
    <3>1. Walked(s)'
      BY <1>2, <1>3, <2>1, <2>2, <2>4 DEF Walked, Restored
    <3> QED
      BY <3>1
  <2> QED
    BY <2>3, <2>4
<1> QED
  BY <1>4, <1>5 DEF ChainInv, Chained, Walked

LEMMA ChainStays ==
  ASSUME ChainInv, UNCHANGED <<chain, chainHistory>>
  PROVE  ChainInv'
BY DEF ChainInv, ChainTypes, Chained, chain, chainHistory

\* Only the calls that install or remove hooks change the chain.
LEMMA ChainInvHolds == LiveSpec => []ChainInv
<1>1. ChainInv /\ [LiveNext]_liveVars => ChainInv'
  <2> SUFFICES ASSUME ChainInv, [LiveNext]_liveVars PROVE ChainInv'
    OBVIOUS
  <2>1. CASE ChangeHooks
    BY <2>1, AttachStep, DetachHookStep, DetachAnyStep, InstrumentStep DEF ChangeHooks
  <2>2. CASE \E bound \in BOOLEAN : Start(bound)
    BY <2>2, HookLiveStep DEF Start
  <2>3. CASE Unhook
    BY <2>3, UnhookLiveStep DEF Unhook
  <2>4. CASE UNCHANGED <<chain, chainHistory>>
    BY <2>4, ChainStays
  <2>5. Shutdown => UNCHANGED <<chain, chainHistory>>
    BY DEF Shutdown
  <2>6. StopGoesOn => Unhook \/ UNCHANGED <<chain, chainHistory>>
    BY DEF StopGoesOn, TakeLock, EndStream, ClearSubscribers
  <2>7. \A r \in Recorders : Record(r) \/ Publishes(r) => UNCHANGED <<chain, chainHistory>>
    BY DEF Record, Publishes, CopySubscribers, Put, CallOriginal
  <2>8. \A c \in Clients : Serves(c) \/ Heartbeat(c) \/ ClientDoes(c)
                             => UNCHANGED <<chain, chainHistory>>
    BY DEF Serves, Subscribe, Get, Unsubscribe, Heartbeat, ClientDoes, Connect, Written, WriteFails
  <2>9. UNCHANGED liveVars => UNCHANGED <<chain, chainHistory>>
    BY DEF liveVars
  <2> QED
    BY <2>1, <2>2, <2>3, <2>4, <2>5, <2>6, <2>7, <2>8, <2>9 DEF LiveNext
<1> QED
  BY <1>1, ChainStart, PTL DEF LiveSpec

\* However loggers, spans and servers are added and removed, every record gets to
\* the hook of the application, and no record goes round for ever, unless a server
\* is started again with its own hook in the chain (attach, detach, start, stop).
THEOREM AppHookAlwaysRuns == LiveSpec => []AppHookRuns
<1>1. ChainInv => AppHookRuns
  <2> SUFFICES ASSUME ChainInv, ~tangled PROVE ~Endless /\ "app" \in Reached(installed)
    BY DEF AppHookRuns
  <2>1. PICK s \in Seq(Hooks) : Walk(s, installed, next)
    BY DEF ChainInv, Chained
  <2>2. Len(s) \in Nat \ {0} /\ Len(s) <= Cardinality(Hooks) /\ Cardinality(Hooks) \in Nat
    BY <2>1, WalkFits, HooksFinite
  <2>3. CalledAfter(installed)[Cardinality(Hooks)] = "none"
    <3>1. Cardinality(Hooks) \in 0..Cardinality(Hooks) /\ ~ (Cardinality(Hooks) < Len(s))
      BY <2>2
    <3> QED
      BY <2>1, <3>1, CallsWalk
  <2>4. "app" \in Reached(installed)
    BY <2>1, CallsWalk, WalkBasics
  <2> QED
    BY <2>3, <2>4 DEF Endless
<1> QED
  BY <1>1, ChainInvHolds, PTL

\* As long as hooks come off newest first, the interceptor calls those installed
\* and not removed, newest first, a further log hook in the place of the one before
\* it and of all installed in between (attach, detach, start, stop, instrument).
THEOREM ChainStaysAStack == LiveSpec => []ChainIsStack
<1>1. ChainInv => ChainIsStack
  <2> SUFFICES ASSUME ChainInv, orderly PROVE ChainIsStack
    BY DEF ChainIsStack
  <2>1. Walk(stack, installed, next)
    BY DEF ChainInv, Chained
  <2> QED
    BY <2>1, CallsWalk DEF ChainIsStack
<1> QED
  BY <1>1, ChainInvHolds, PTL

-----------------------------------------------------------------------------
(* The live server: its types *)

\* What LiveTypeOK needs to be kept: queues hold records and end markers, and
\* stop() owes end markers to subscribers only while it has the lock.
LiveTypes ==
  /\ running \in BOOLEAN /\ ctl \in {"free", "shutdown", "ending", "unhook"}
  /\ subs \subseteq Clients /\ waiting \subseteq subs /\ (ctl # "ending" => waiting = {})
  /\ conn \in [Clients -> {"none", "accepted", "reading", "writing", "leaving"}]
  /\ notes \in Nat /\ inbox \in [Clients -> Seq(0..notes)]
  /\ \A c \in Clients : Len(inbox[c]) <= Cap
  /\ rpc \in [Recorders -> {"idle", "copy", "put"}] /\ rec \in [Recorders -> 0..notes]
  /\ depth \in [Recorders -> 0..MaxDepth] /\ targets \in [Recorders -> SUBSET Clients]

LEMMA LiveTypesStart == LiveInit => LiveTypes
<1>1. 0 \in 0..0 /\ 0 <= Cap /\ 0 \in 0..MaxDepth
  BY LiveConstants
<1>2. <<>> \in Seq(0..0) /\ Len(<<>>) = 0
  BY EmptySeq
<1> SUFFICES ASSUME LiveInit PROVE LiveTypes
  OBVIOUS
<1>3. notes = 0 /\ inbox = [c \in Clients |-> <<>>]
  BY DEF LiveInit
<1>4. inbox \in [Clients -> Seq(0..notes)] /\ \A c \in Clients : Len(inbox[c]) <= Cap
  BY <1>1, <1>2, <1>3
<1>5. /\ rpc \in [Recorders -> {"idle", "copy", "put"}] /\ rec \in [Recorders -> 0..notes]
      /\ depth \in [Recorders -> 0..MaxDepth] /\ targets \in [Recorders -> SUBSET Clients]
  BY <1>1, <1>3 DEF LiveInit
<1>6. /\ conn \in [Clients -> {"none", "accepted", "reading", "writing", "leaving"}]
      /\ running \in BOOLEAN /\ ctl \in {"free", "shutdown", "ending", "unhook"}
      /\ subs \subseteq Clients /\ waiting \subseteq subs /\ (ctl # "ending" => waiting = {})
  BY DEF LiveInit
<1>7. notes \in Nat
  BY <1>3
<1> QED
  BY <1>4, <1>5, <1>6, <1>7 DEF LiveTypes

\* A queue with room takes one more record or end marker.
LEMMA AppendFits ==
  ASSUME LiveTypes, NEW c \in Clients, Len(inbox[c]) < Cap, NEW n \in 0..notes
  PROVE  LET more == [inbox EXCEPT ![c] = Append(@, n)]
         IN  more \in [Clients -> Seq(0..notes)] /\ \A d \in Clients : Len(more[d]) <= Cap
<1>1. inbox \in [Clients -> Seq(0..notes)] /\ \A d \in Clients : Len(inbox[d]) <= Cap
  BY DEF LiveTypes
<1>2. inbox[c] \in Seq(0..notes)
  BY <1>1
<1>3. Append(inbox[c], n) \in Seq(0..notes) /\ Len(Append(inbox[c], n)) = Len(inbox[c]) + 1
  BY <1>2
<1>4. Len(Append(inbox[c], n)) <= Cap
  BY <1>2, <1>3, LiveConstants
<1> QED
  BY <1>1, <1>3, <1>4

LEMMA LiveTypesStep == LiveTypes /\ [LiveNext]_liveVars => LiveTypes'
<1> SUFFICES ASSUME LiveTypes, [LiveNext]_liveVars PROVE LiveTypes'
  OBVIOUS
<1>1. LiveTypes
  OBVIOUS
<1>2. CASE UNCHANGED <<server, clients, recorders, notes>>
  BY <1>1, <1>2 DEF LiveTypes, server, clients, recorders
<1>3. CASE ChangeHooks \/ UNCHANGED liveVars
  BY <1>2, <1>3 DEF ChangeHooks, liveVars
<1>4. CASE \E bound \in BOOLEAN : Start(bound)
  BY <1>1, <1>4 DEF Start, LiveTypes, clients, recorders
<1>5. CASE Shutdown
  BY <1>1, <1>5 DEF Shutdown, Called, LiveTypes, clients, recorders
<1>6. CASE TakeLock
  BY <1>1, <1>6 DEF TakeLock, LiveTypes, clients, recorders
<1>7. ASSUME NEW c \in Clients, EndStream(c) PROVE LiveTypes'
  <2>1. 0 \in 0..notes
    BY <1>1 DEF LiveTypes
  <2>2. inbox' \in [Clients -> Seq(0..notes)] /\ \A d \in Clients : Len(inbox'[d]) <= Cap
    BY <1>1, <1>7, <2>1, AppendFits DEF EndStream, PutBye, Bye
  <2>3. waiting' \subseteq subs' /\ (ctl' # "ending" => waiting' = {})
    BY <1>1, <1>7 DEF EndStream, LiveTypes
  <2> QED
    BY <1>1, <1>7, <2>2, <2>3 DEF EndStream, LiveTypes, recorders
<1>8. CASE ClearSubscribers
  BY <1>1, <1>8 DEF ClearSubscribers, LiveTypes, clients, recorders
<1>9. CASE Unhook
  BY <1>1, <1>9 DEF Unhook, LiveTypes, clients, recorders
<1>10. ASSUME NEW r \in Recorders, Record(r) PROVE LiveTypes'
  <2>1. notes' = notes + 1 /\ notes' \in Nat /\ \A i \in 0..notes : i \in 0..notes'
    BY <1>1, <1>10 DEF Record, LiveTypes
  <2>2. inbox' = inbox /\ inbox' \in [Clients -> Seq(0..notes')]
    <3>1. \A c \in Clients : inbox[c] \in Seq(0..notes')
      <4> SUFFICES ASSUME NEW c \in Clients PROVE inbox[c] \in Seq(0..notes')
        OBVIOUS
      <4>1. inbox[c] \in Seq(0..notes) /\ 0..notes \subseteq 0..notes'
        BY <1>1, <2>1 DEF LiveTypes
      <4> QED
        BY <4>1, SeqMonotonic
    <3> QED
      BY <1>1, <1>10, <3>1 DEF Record, LiveTypes, clients
  <2>3. rec' \in [Recorders -> 0..notes'] /\ depth' \in [Recorders -> 0..MaxDepth]
    BY <1>1, <1>10, <2>1, LiveConstants DEF Record, LiveTypes
  <2>4. rpc' \in [Recorders -> {"idle", "copy", "put"}]
    BY <1>1, <1>10 DEF Record, LiveTypes
  <2> QED
    BY <1>1, <1>10, <2>1, <2>2, <2>3, <2>4 DEF Record, LiveTypes, server, clients
<1>11. ASSUME NEW r \in Recorders, CopySubscribers(r) PROVE LiveTypes'
  <2>1. targets' \in [Recorders -> SUBSET Clients] /\ rpc' \in [Recorders -> {"idle", "copy", "put"}]
    BY <1>1, <1>11 DEF CopySubscribers, LiveTypes
  <2> QED
    BY <1>1, <1>11, <2>1 DEF CopySubscribers, LiveTypes, server, clients
<1>12. ASSUME NEW r \in Recorders, NEW c \in Clients, Put(r, c) PROVE LiveTypes'
  <2>1. rec[r] \in 0..notes /\ targets' \in [Recorders -> SUBSET Clients]
    BY <1>1, <1>12 DEF Put, TargetDone, LiveTypes
  <2>2. inbox' \in [Clients -> Seq(0..notes)] /\ \A d \in Clients : Len(inbox'[d]) <= Cap
    <3>1. CASE HasRoom(c)
      BY <1>1, <1>12, <2>1, <3>1, AppendFits DEF Put, HasRoom
    <3>2. CASE ~HasRoom(c)
      BY <1>1, <1>12, <3>2 DEF Put, LiveTypes
    <3> QED
      BY <3>1, <3>2
  <2> QED
    BY <1>1, <1>12, <2>1, <2>2 DEF Put, LiveTypes, server
<1>13. ASSUME NEW r \in Recorders, CallOriginal(r) PROVE LiveTypes'
  <2>1. depth[r] \in 0..MaxDepth /\ 0 \in 0..notes /\ 0 \in 0..MaxDepth
    BY <1>1, LiveConstants DEF LiveTypes
  <2>2. rpc' \in [Recorders -> {"idle", "copy", "put"}]
    BY <1>1, <1>13 DEF CallOriginal, GoOn, LiveTypes
  <2>3. rec' \in [Recorders -> 0..notes]
    BY <1>1, <1>13, <2>1 DEF CallOriginal, GoOn, LiveTypes
  <2>4. depth' \in [Recorders -> 0..MaxDepth]
    <3>1. depth[r] < MaxDepth => depth[r] + 1 \in 0..MaxDepth
      BY <2>1, LiveConstants
    <3>2. depth \in [Recorders -> 0..MaxDepth]
      BY <1>1 DEF LiveTypes
    <3> QED
      BY <1>13, <2>1, <3>1, <3>2 DEF CallOriginal, GoOn
  <2> QED
    BY <1>1, <1>13, <2>2, <2>3, <2>4 DEF CallOriginal, LiveTypes, server, clients
<1>14. ASSUME NEW c \in Clients, Heartbeat(c) \/ ClientDoes(c) PROVE LiveTypes'
  BY <1>1, <1>14
  DEF Heartbeat, ClientDoes, Connect, Written, WriteFails, Becomes, LiveTypes, server, recorders
<1>15. ASSUME NEW c \in Clients, Subscribe(c) PROVE LiveTypes'
  BY <1>1, <1>15 DEF Subscribe, Becomes, LiveTypes, recorders
<1>16. ASSUME NEW c \in Clients, Get(c) PROVE LiveTypes'
  <2>1. inbox[c] \in Seq(0..notes) /\ inbox[c] # <<>> /\ Len(inbox[c]) <= Cap
    BY <1>1, <1>16 DEF Get, LiveTypes
  <2>2. /\ Tail(inbox[c]) \in Seq(0..notes) /\ Len(Tail(inbox[c])) = Len(inbox[c]) - 1
        /\ Len(inbox[c]) \in Nat
    BY <2>1, HeadTailProperties, LenProperties
  <2>3. Len(Tail(inbox[c])) <= Cap
    BY <2>1, <2>2, LiveConstants
  <2>4. inbox' \in [Clients -> Seq(0..notes)] /\ \A d \in Clients : Len(inbox'[d]) <= Cap
    BY <1>1, <1>16, <2>2, <2>3 DEF Get, LiveTypes
  <2>5. conn' \in [Clients -> {"none", "accepted", "reading", "writing", "leaving"}]
    BY <1>1, <1>16 DEF Get, Becomes, LiveTypes
  <2> QED
    BY <1>1, <1>16, <2>4, <2>5 DEF Get, LiveTypes, server, recorders
<1>17. ASSUME NEW c \in Clients, Unsubscribe(c) PROVE LiveTypes'
  <2>1. waiting' = {} /\ subs' \subseteq Clients /\ ctl' = ctl /\ running' = running
    BY <1>1, <1>17 DEF Unsubscribe, Unsubscribed, LockFree, LiveTypes
  <2>2. <<>> \in Seq(0..notes) /\ Len(<<>>) = 0 /\ 0 <= Cap
    BY LiveConstants, EmptySeq
  <2>3. inbox' \in [Clients -> Seq(0..notes)] /\ \A d \in Clients : Len(inbox'[d]) <= Cap
    BY <1>1, <1>17, <2>2 DEF Unsubscribe, LiveTypes
  <2>4. targets' \in [Recorders -> SUBSET Clients]
    BY <1>1, <1>17 DEF Unsubscribe, LiveTypes
  <2>5. conn' \in [Clients -> {"none", "accepted", "reading", "writing", "leaving"}]
    BY <1>1, <1>17 DEF Unsubscribe, Becomes, LiveTypes
  <2> QED
    BY <1>1, <1>17, <2>1, <2>3, <2>4, <2>5 DEF Unsubscribe, LiveTypes
<1> QED
  BY <1>3, <1>4, <1>5, <1>6, <1>7, <1>8, <1>9, <1>10, <1>11, <1>12, <1>13, <1>14, <1>15,
     <1>16, <1>17
  DEF LiveNext, StopGoesOn, Publishes, Serves

\* The chain and the server keep their types, and no subscriber's queue holds
\* more than it may (start, stop, _publish, _subscribe, the handlers).
THEOREM LiveTypeCorrect == LiveSpec => []LiveTypeOK
<1>1. LiveTypes /\ [LiveNext]_liveVars => LiveTypes'
  BY LiveTypesStep
<1>2. LiveTypes /\ ChainInv => LiveTypeOK
  BY DEF LiveTypes, ChainInv, ChainTypes, LiveTypeOK, Hooks
<1> QED
  BY <1>1, <1>2, LiveTypesStart, ChainInvHolds, PTL DEF LiveSpec

-----------------------------------------------------------------------------
(* The system monitor: its types                                           *)

Doings ==
  {"idle", "clear", "create", "begin", "look", "join", "joining", "forget", "ask", "reread",
   "probe", "new", "test", "wait", "ended"}
InLock == {"reread", "probe"}

MonitorTypes ==
  /\ thread \in created \cup {"none"} /\ created \subseteq Collectors /\ stopFlag \in BOOLEAN
  /\ holder \in Participants \cup {"none"}
  /\ samples \in Nat /\ last \in 0..samples
  /\ metrics \in Seq(1..samples) /\ Len(metrics) <= Keep
  /\ doing \in [Participants -> Doings]
  /\ target \in [Users -> created \cup {"none"}]
  /\ calls \in Nat /\ late \in Nat /\ contested \in BOOLEAN

\* Whoever reads the collector's state or probes is the one in the lock.
Exclusive == \A t \in Participants : holder = t <=> doing[t] \in InLock

\* The samples that are kept are the newest.
LEMMA KeptOf ==
  ASSUME NEW S, NEW list \in Seq(S)
  PROVE  /\ Kept(list) \in Seq(S) /\ Len(Kept(list)) <= Keep
         /\ \E d \in Nat : /\ Len(Kept(list)) = Len(list) - d
                           /\ \A i \in 1..Len(Kept(list)) : Kept(list)[i] = list[i + d]
<1> DEFINE d == Len(list) - Keep
<1>1. CASE Len(list) > Keep
  <2>1. Kept(list) = SubSeq(list, d + 1, Len(list))
    BY <1>1, MonitorConstants DEF Kept
  <2>2. d \in Nat /\ d + 1 \in 1..Len(list) /\ Len(list) \in Nat
    BY <1>1, MonitorConstants
  <2>3. \A i \in (d + 1)..Len(list) : list[i] \in S
    BY <2>2
  <2>4. SubSeq(list, d + 1, Len(list)) \in Seq(S)
    BY <2>2, <2>3
  <2>5. Len(SubSeq(list, d + 1, Len(list))) = Len(list) - d
    BY <2>2
  <2>6. \A i \in 1..(Len(list) - d) : SubSeq(list, d + 1, Len(list))[i] = list[i + d]
    BY <2>2
  <2>7. Len(list) - d <= Keep
    BY <2>2, MonitorConstants
  <2> QED
    BY <2>1, <2>2, <2>4, <2>5, <2>6, <2>7
<1>2. CASE ~(Len(list) > Keep)
  <2>1. Kept(list) = list
    BY <1>2 DEF Kept
  <2>2. Len(list) \in Nat /\ Len(list) <= Keep
    BY <1>2, MonitorConstants
  <2>3. Len(list) = Len(list) - 0 /\ \A i \in 1..Len(list) : list[i] = list[i + 0]
    BY <2>2
  <2> QED
    BY <2>1, <2>2, <2>3
<1> QED
  BY <1>1, <1>2

\* A sample that is reused or collected is one of those taken so far.
LEMMA RecordedType ==
  ASSUME MonitorTypes, NEW n \in Nat, NEW k \in 1..n, samples <= n
  PROVE  Kept(Append(metrics, k)) \in Seq(1..n) /\ Len(Kept(Append(metrics, k))) <= Keep
<1>1. metrics \in Seq(1..n)
  <2>1. 1..samples \subseteq 1..n
    BY DEF MonitorTypes
  <2> QED
    BY <2>1 DEF MonitorTypes
<1>2. Append(metrics, k) \in Seq(1..n)
  BY <1>1
<1> QED
  BY <1>2, KeptOf

LEMMA CallTypes ==
  ASSUME MonitorTypes, NEW u \in Users, NEW phase \in Doings, Call(u, phase)
  PROVE  /\ doing' \in [Participants -> Doings] /\ calls' \in Nat /\ contested' \in BOOLEAN
<1>1. doing' = [doing EXCEPT ![u] = phase] /\ calls' = calls + 1
  BY DEF Call, GoesTo
<1>2. u \in Participants
  BY DEF Participants
<1>3. contested' \in BOOLEAN
  <2> DEFINE crowd == \E v \in Users \ {u} : InControl(v)
  <2>1. contested' = (contested \/ (phase \in {"clear", "look"} /\ crowd))
    BY DEF Call
  <2> HIDE DEF crowd
  <2> QED
    BY <2>1, Zenon
<1> QED
  BY <1>1, <1>2, <1>3 DEF MonitorTypes

LEMMA MonitorTypesStep == MonitorTypes /\ [MonitorNext]_monitorVars => MonitorTypes'
<1> SUFFICES ASSUME MonitorTypes, [MonitorNext]_monitorVars PROVE MonitorTypes'
  OBVIOUS
<1>1. /\ thread \in created \cup {"none"} /\ created \subseteq Collectors /\ stopFlag \in BOOLEAN
      /\ holder \in Participants \cup {"none"}
      /\ samples \in Nat /\ last \in 0..samples
      /\ metrics \in Seq(1..samples) /\ Len(metrics) <= Keep
      /\ doing \in [Participants -> Doings]
      /\ target \in [Users -> created \cup {"none"}]
      /\ calls \in Nat /\ late \in Nat /\ contested \in BOOLEAN
  BY DEF MonitorTypes
<1>2. Users \subseteq Participants /\ Collectors \subseteq Participants
  BY DEF Participants
<1>3. ASSUME NEW u \in Users, StartCalled(u) \/ StopCalled(u) \/ AskSnapshot(u)
      PROVE  MonitorTypes'
  <2>1. \E phase \in {"idle", "clear", "look", "ask"} : Call(u, phase)
    BY <1>3 DEF StartCalled, StopCalled, AskSnapshot
  <2>2. PICK phase \in Doings : Call(u, phase)
    BY <2>1 DEF Doings
  <2>3. doing' \in [Participants -> Doings] /\ calls' \in Nat /\ contested' \in BOOLEAN
    BY <2>2, CallTypes
  <2>4. UNCHANGED <<thread, created, sampling, target, late>> /\ stopFlag' \in BOOLEAN
    BY <1>1, <1>3 DEF StartCalled, StopCalled, AskSnapshot, shared
  <2> QED
    BY <1>1, <2>3, <2>4 DEF MonitorTypes, sampling
<1>4. ASSUME NEW u \in Users, Clear(u) PROVE MonitorTypes'
  <2>1. Call(u, "idle") /\ "idle" \in Doings
    BY <1>4 DEF Clear, Doings
  <2>2. doing' \in [Participants -> Doings] /\ calls' \in Nat /\ contested' \in BOOLEAN
    BY <2>1, CallTypes
  <2>3. metrics' = <<>> /\ <<>> \in Seq(1..samples) /\ Len(<<>>) <= Keep
    BY <1>4, MonitorConstants DEF Clear
  <2>4. UNCHANGED <<shared, holder, last, samples, target, late>>
    BY <1>4 DEF Clear
  <2> QED
    BY <1>1, <2>2, <2>3, <2>4 DEF MonitorTypes, shared
<1>5. ASSUME NEW u \in Users, CreateThread(u) PROVE MonitorTypes'
  <2>1. (CHOOSE t \in Collectors \ created : TRUE) \in Collectors
    BY <1>1, <1>5 DEF CreateThread
  <2> QED
    <3>1. /\ created' = created \cup {thread'} /\ thread' \in Collectors
          /\ doing' = [doing EXCEPT ![u] = "begin"]
          /\ UNCHANGED <<stopFlag, sampling, target, calls, late, contested>>
      BY <1>5, <2>1 DEF CreateThread, GoesTo
    <3>2. doing' \in [Participants -> Doings]
      BY <1>1, <1>2, <3>1 DEF Doings
    <3>3. target' \in [Users -> created' \cup {"none"}]
      BY <1>1, <3>1
    <3> QED
      BY <1>1, <3>1, <3>2, <3>3 DEF MonitorTypes, sampling
<1>6. ASSUME NEW u \in Users, BeginThread(u) PROVE MonitorTypes'
  BY <1>1, <1>2, <1>6 DEF MonitorTypes, BeginThread, Doings, shared, sampling
<1>7. ASSUME NEW u \in Users,
             ClearFlag(u) \/ LookForThread(u) \/ JoinRaises(u) \/ Join(u) \/ Joined(u)
               \/ JoinTimesOut(u) \/ ForgetThread(u)
      PROVE  MonitorTypes'
  <2>1. /\ \E phase \in Doings : doing' = [doing EXCEPT ![u] = phase]
        /\ UNCHANGED <<created, sampling, calls, contested>>
    BY <1>7
    DEF ClearFlag, LookForThread, JoinRaises, Join, Joined, JoinTimesOut, ForgetThread, GoesTo,
      Doings, shared
  <2>2. doing' \in [Participants -> Doings]
    BY <1>1, <1>2, <2>1
  <2>3. /\ thread' \in created \cup {"none"} /\ stopFlag' \in BOOLEAN /\ late' \in Nat
        /\ target' \in [Users -> created \cup {"none"}]
    <3>1. thread' \in {thread, "none"} /\ stopFlag' \in {stopFlag, FALSE} /\ late' \in {late, late + 1}
      BY <1>7
      DEF ClearFlag, LookForThread, JoinRaises, Join, Joined, JoinTimesOut, ForgetThread, shared
    <3>2. target' = target \/ \E k \in {thread, "none"} : target' = [target EXCEPT ![u] = k]
      BY <1>7
      DEF ClearFlag, LookForThread, JoinRaises, Join, Joined, JoinTimesOut, ForgetThread
    <3>3. target' \in [Users -> created \cup {"none"}]
      BY <1>1, <3>2
    <3>4. thread' \in created \cup {"none"} /\ stopFlag' \in BOOLEAN
      BY <1>1, <3>1
    <3>5. late' \in Nat
      BY <1>1, <3>1
    <3> QED
      BY <3>3, <3>4, <3>5
  <2> QED
    BY <1>1, <2>1, <2>2, <2>3 DEF MonitorTypes, sampling
<1>8. ASSUME NEW t \in Participants, EnterLock(t) \/ ThreadGone(t) \/ NothingToReuse(t) \/ ProbeFails(t)
      PROVE  MonitorTypes'
  BY <1>1, <1>8
  DEF MonitorTypes, EnterLock, ThreadGone, NothingToReuse, ProbeFails, Leave, Back, GoesTo, Doings,
    shared, sampling
<1>9. ASSUME NEW t \in Participants, Reuse(t) PROVE MonitorTypes'
  <2>1. last \in 1..samples
    BY <1>1, <1>9 DEF Reuse, OthersSample
  <2>2. Kept(Append(metrics, last)) \in Seq(1..samples) /\ Len(Kept(Append(metrics, last))) <= Keep
    BY <1>1, <2>1, RecordedType
  <2> QED
    BY <1>1, <1>9, <2>2 DEF MonitorTypes, Reuse, Leave, Back, GoesTo, Doings, shared
<1>10. ASSUME NEW t \in Participants, Collect(t) PROVE MonitorTypes'
  <2>1. /\ samples + 1 \in Nat /\ samples + 1 \in 1..(samples + 1) /\ samples <= samples + 1
        /\ samples + 1 \in 0..(samples + 1)
    BY <1>1
  <2>2. /\ Kept(Append(metrics, samples + 1)) \in Seq(1..(samples + 1))
        /\ Len(Kept(Append(metrics, samples + 1))) <= Keep
    BY <2>1, RecordedType
  <2> QED
    BY <1>1, <1>10, <2>1, <2>2 DEF MonitorTypes, Collect, Newest, Leave, Back, GoesTo, Doings, shared
<1>11. ASSUME NEW t \in Collectors, TestFlag(t) \/ Waited(t) PROVE MonitorTypes'
  BY <1>1, <1>2, <1>11 DEF MonitorTypes, TestFlag, Waited, GoesTo, Doings, shared, sampling
<1>12. CASE UNCHANGED monitorVars
  BY <1>1, <1>12 DEF MonitorTypes, monitorVars, shared, sampling
<1> QED
  BY <1>3, <1>4, <1>5, <1>6, <1>7, <1>8, <1>9, <1>10, <1>11, <1>12
  DEF MonitorNext, Controls, TakesSnapshot

LEMMA ExclusiveStep ==
  ASSUME MonitorTypes, Exclusive, [MonitorNext]_monitorVars
  PROVE  Exclusive'
<1> USE DEF MonitorTypes, Exclusive
<1>0. "none" \notin Participants /\ Users \subseteq Participants /\ Collectors \subseteq Participants
  BY MonitorConstants DEF Participants
\* Outside the lock a thread may do anything but enter it or leave.
<1>1. ASSUME NEW t \in Participants, NEW phase, phase \notin InLock, doing[t] \notin InLock,
             GoesTo(t, phase), holder' = holder
      PROVE  Exclusive'
  BY <1>1 DEF GoesTo
<1>2. ASSUME NEW u \in Users,
             StartCalled(u) \/ StopCalled(u) \/ AskSnapshot(u) \/ Clear(u) \/ ClearFlag(u)
               \/ CreateThread(u) \/ LookForThread(u) \/ JoinRaises(u) \/ Join(u) \/ Joined(u)
               \/ JoinTimesOut(u) \/ ForgetThread(u)
      PROVE  Exclusive'
  <2>1. /\ \E phase : phase \notin InLock /\ GoesTo(u, phase)
        /\ doing[u] \notin InLock /\ holder' = holder
    BY <1>2
    DEF StartCalled, StopCalled, AskSnapshot, Clear, Call, ClearFlag, CreateThread, LookForThread,
      JoinRaises, Join, Joined, JoinTimesOut, ForgetThread, InLock, sampling
  <2> QED
    BY <1>0, <1>1, <2>1
<1>3. ASSUME NEW u \in Users, BeginThread(u) PROVE Exclusive'
  BY <1>0, <1>3 DEF BeginThread, InLock, sampling
<1>4. ASSUME NEW t \in Collectors, TestFlag(t) \/ Waited(t) PROVE Exclusive'
  <2>1. /\ \E phase : phase \notin InLock /\ GoesTo(t, phase)
        /\ doing[t] \notin InLock /\ holder' = holder
    BY <1>4 DEF TestFlag, Waited, InLock, sampling
  <2> QED
    BY <1>0, <1>1, <2>1
<1>5. ASSUME NEW t \in Participants, EnterLock(t) PROVE Exclusive'
  BY <1>0, <1>5 DEF EnterLock, GoesTo, InLock
<1>6. ASSUME NEW t \in Participants, NothingToReuse(t) PROVE Exclusive'
  BY <1>0, <1>6 DEF NothingToReuse, GoesTo, InLock, sampling
<1>7. ASSUME NEW t \in Participants, ThreadGone(t) \/ Reuse(t) \/ Collect(t) \/ ProbeFails(t)
      PROVE  Exclusive'
  <2>1. doing[t] \in InLock /\ Leave(t)
    BY <1>7 DEF ThreadGone, Reuse, Collect, ProbeFails, InLock
  <2> QED
    BY <1>0, <2>1 DEF Leave, Back, GoesTo, InLock
<1>8. CASE UNCHANGED monitorVars
  BY <1>8 DEF monitorVars, sampling
<1> QED
  BY <1>2, <1>3, <1>4, <1>5, <1>6, <1>7, <1>8 DEF MonitorNext, Controls, TakesSnapshot

LEMMA MonitorTypesHold == MonitorSpec => [](MonitorTypes /\ Exclusive)
<1>1. MonitorInit => MonitorTypes /\ Exclusive
  <2> SUFFICES ASSUME MonitorInit PROVE MonitorTypes /\ Exclusive
    OBVIOUS
  <2>1. metrics \in Seq(1..samples) /\ Len(metrics) <= Keep
    BY MonitorConstants DEF MonitorInit
  <2>2. doing \in [Participants -> Doings] /\ \A t \in Participants : doing[t] \notin InLock
    BY DEF MonitorInit, Doings, InLock
  <2>3. "none" \notin Participants
    BY MonitorConstants DEF Participants
  <2>4. samples \in Nat /\ last \in 0..samples /\ calls \in Nat /\ late \in Nat
    BY DEF MonitorInit
  <2>5. /\ thread \in created \cup {"none"} /\ created \subseteq Collectors /\ stopFlag \in BOOLEAN
        /\ holder = "none" /\ target \in [Users -> created \cup {"none"}] /\ contested \in BOOLEAN
    BY DEF MonitorInit
  <2> QED
    BY <2>1, <2>2, <2>3, <2>4, <2>5 DEF MonitorTypes, Exclusive
<1>2. MonitorTypes /\ Exclusive /\ [MonitorNext]_monitorVars => (MonitorTypes /\ Exclusive)'
  BY MonitorTypesStep, ExclusiveStep
<1> QED
  BY <1>1, <1>2, PTL DEF MonitorSpec

\* Every variable of the monitor keeps its type; a thread is in the lock exactly
\* while it reads the collector's state or probes, and no more samples are kept
\* than fit (snapshot, start, stop).
THEOREM MonitorTypeCorrect == MonitorSpec => []MonitorTypeOK
<1>1. MonitorTypes /\ Exclusive => MonitorTypeOK
  BY DEF MonitorTypes, Exclusive, InLock, MonitorTypeOK
<1> QED
  BY <1>1, MonitorTypesHold, PTL

-----------------------------------------------------------------------------
(* The system monitor: the order of the samples                            *)

Sorted(list) == \A i, j \in 1..Len(list) : i < j => list[i] <= list[j]
UpTo(list, n) == \A i \in 1..Len(list) : list[i] <= n

SampleInv == MonitorTypes /\ UpTo(metrics, last) /\ InOrder

\* Whatever is recorded last is the newest sample there is.
LEMMA RecordedInOrder ==
  ASSUME NEW list \in Seq(Nat), NEW n \in Nat, UpTo(list, n), Sorted(list)
  PROVE  UpTo(Kept(Append(list, n)), n) /\ Sorted(Kept(Append(list, n)))
<1> DEFINE more == Append(list, n)
<1>1. more \in Seq(Nat) /\ Len(more) = Len(list) + 1 /\ Len(list) \in Nat
  OBVIOUS
<1>2. \A i \in 1..Len(more) : more[i] = IF i <= Len(list) THEN list[i] ELSE n
  BY <1>1
<1>3. UpTo(more, n)
  BY <1>1, <1>2 DEF UpTo
<1>4. Sorted(more)
  BY <1>1, <1>2 DEF UpTo, Sorted
<1> HIDE DEF more
<1>5. PICK d \in Nat : /\ Len(Kept(more)) = Len(more) - d
                       /\ \A i \in 1..Len(Kept(more)) : Kept(more)[i] = more[i + d]
  BY <1>1, KeptOf
<1>6. \A i \in 1..Len(Kept(more)) : i + d \in 1..Len(more)
  BY <1>1, <1>5
<1>7. UpTo(Kept(more), n)
  BY <1>3, <1>5, <1>6 DEF UpTo
<1>8. ASSUME NEW i \in 1..Len(Kept(more)), NEW j \in 1..Len(Kept(more)), i < j
      PROVE  Kept(more)[i] <= Kept(more)[j]
  <2>1. i + d < j + d
    BY <1>1, <1>5, <1>8
  <2>2. more[i + d] <= more[j + d]
    BY <1>4, <1>6, <2>1 DEF Sorted
  <2> QED
    BY <1>5, <2>2
<1> QED
  BY <1>7, <1>8 DEF more, Sorted

LEMMA SampleStep == SampleInv /\ [MonitorNext]_monitorVars => SampleInv'
<1> SUFFICES ASSUME SampleInv, [MonitorNext]_monitorVars PROVE SampleInv'
  OBVIOUS
<1>1. /\ MonitorTypes /\ MonitorTypes' /\ UpTo(metrics, last) /\ Sorted(metrics)
      /\ samples \in Nat /\ last \in Nat /\ last <= samples /\ metrics \in Seq(Nat)
      /\ \A i \in 1..Len(metrics) : metrics[i] \in Nat
  <2>1. MonitorTypes /\ UpTo(metrics, last) /\ Sorted(metrics)
    BY DEF SampleInv, InOrder, Sorted
  <2>2. samples \in Nat /\ last \in 0..samples /\ metrics \in Seq(1..samples)
    BY <2>1 DEF MonitorTypes
  <2>3. 1..samples \subseteq Nat
    BY <2>2
  <2>4. metrics \in Seq(Nat)
    BY <2>2, <2>3
  <2> QED
    BY <2>1, <2>2, <2>4, MonitorTypesStep
<1>2. ASSUME UpTo(metrics', last'), Sorted(metrics') PROVE SampleInv'
  BY <1>1, <1>2 DEF SampleInv, InOrder, Sorted
<1>3. ASSUME metrics' = metrics, last' = last PROVE SampleInv'
  BY <1>1, <1>2, <1>3
<1>4. ASSUME NEW u \in Users, StartCalled(u) \/ StopCalled(u) \/ AskSnapshot(u) \/ Controls(u)
      PROVE  SampleInv'
  BY <1>3, <1>4
  DEF StartCalled, StopCalled, AskSnapshot, Controls, ClearFlag, CreateThread, BeginThread, LookForThread,
    JoinRaises, Join, Joined, JoinTimesOut, ForgetThread, sampling
<1>5. ASSUME NEW u \in Users, Clear(u) PROVE SampleInv'
  <2>1. metrics' = <<>> /\ last' = last
    BY <1>5 DEF Clear
  <2>2. UpTo(<<>>, last) /\ Sorted(<<>>)
    BY DEF UpTo, Sorted
  <2> QED
    BY <1>2, <2>1, <2>2
<1>6. ASSUME NEW t \in Participants, Reuse(t) PROVE SampleInv'
  BY <1>1, <1>2, <1>6, RecordedInOrder DEF Reuse
<1>7. ASSUME NEW t \in Participants, Collect(t) PROVE SampleInv'
  <2>1. metrics' = Kept(Append(metrics, samples + 1)) /\ last' = samples + 1
    BY <1>7 DEF Collect, Newest
  <2>2. UpTo(metrics, samples + 1)
    BY <1>1 DEF UpTo
  <2> QED
    BY <1>1, <1>2, <2>1, <2>2, RecordedInOrder
<1>8. ASSUME NEW t \in Participants, EnterLock(t) \/ ThreadGone(t) \/ NothingToReuse(t) \/ ProbeFails(t)
      PROVE  SampleInv'
  BY <1>3, <1>8 DEF EnterLock, ThreadGone, NothingToReuse, ProbeFails, sampling
<1>9. ASSUME NEW t \in Collectors, TestFlag(t) \/ Waited(t) PROVE SampleInv'
  BY <1>3, <1>9 DEF TestFlag, Waited, sampling
<1>10. CASE UNCHANGED monitorVars
  BY <1>3, <1>10 DEF monitorVars, sampling
<1> QED
  BY <1>4, <1>5, <1>6, <1>7, <1>8, <1>9, <1>10 DEF MonitorNext, TakesSnapshot

\* The samples are kept in the order in which they were collected, however
\* collectors, snapshots and restarts interleave (InOrder; snapshot).
THEOREM SamplesStayInOrder == MonitorSpec => []InOrder
<1>1. MonitorInit /\ MonitorTypes => SampleInv
  BY DEF MonitorInit, SampleInv, UpTo, InOrder
<1>2. SampleInv => InOrder
  BY DEF SampleInv
<1> QED
  BY <1>1, <1>2, SampleStep, MonitorTypesHold, PTL DEF MonitorSpec

-----------------------------------------------------------------------------
(* The system monitor: one collector                                       *)

Active == Cardinality(Running)
Orphans == Running \ {thread}

\* While one thread at a time starts or stops the monitor, a collector other
\* than the one it knows was left behind by a join that timed out.
Controlled ==
  /\ \A u, v \in Users : InControl(u) /\ InControl(v) => u = v
  /\ \A u \in Users :
       /\ doing[u] \in {"clear", "create"} => thread \notin Running
       /\ doing[u] = "joining" => target[u] = thread
       /\ doing[u] = "forget" => Active <= late
  /\ (thread # "none" /\ doing[thread] = "new") => \E u \in Users : doing[u] = "begin"
  /\ Cardinality(Orphans) <= late
Unmade == \A t \in Collectors \ created : doing[t] = "new"
CollectorInv == MonitorTypes /\ Unmade /\ (~contested => Controlled)

LEMMA UnmadeStep ==
  ASSUME MonitorTypes, Unmade, [MonitorNext]_monitorVars
  PROVE  Unmade'
<1> USE DEF MonitorTypes, Unmade
<1>0. Users \cap Collectors = {} /\ Users \subseteq Participants /\ Collectors \subseteq Participants
      /\ "none" \notin Collectors
  BY MonitorConstants DEF Participants
<1>1. ASSUME NEW t \in Participants, NEW phase, GoesTo(t, phase), t \in Users \/ doing[t] # "new",
             created \subseteq created'
      PROVE  Unmade'
  BY <1>0, <1>1 DEF GoesTo
<1>2. ASSUME NEW u \in Users,
             StartCalled(u) \/ StopCalled(u) \/ AskSnapshot(u) \/ Clear(u) \/ ClearFlag(u)
               \/ CreateThread(u) \/ LookForThread(u) \/ JoinRaises(u) \/ Join(u) \/ Joined(u)
               \/ JoinTimesOut(u) \/ ForgetThread(u)
      PROVE  Unmade'
  <2>1. (\E phase : GoesTo(u, phase)) /\ created \subseteq created'
    BY <1>2
    DEF StartCalled, StopCalled, AskSnapshot, Clear, Call, ClearFlag, CreateThread, LookForThread,
      JoinRaises, Join, Joined, JoinTimesOut, ForgetThread, shared
  <2> QED
    BY <1>0, <1>1, <2>1
<1>3. ASSUME NEW u \in Users, BeginThread(u) PROVE Unmade'
  BY <1>0, <1>3 DEF BeginThread, shared
<1>4. ASSUME NEW t \in Collectors, TestFlag(t) \/ Waited(t) PROVE Unmade'
  <2>1. (\E phase : GoesTo(t, phase)) /\ created' = created /\ doing[t] # "new"
    BY <1>4 DEF TestFlag, Waited, shared
  <2> QED
    BY <1>0, <1>1, <2>1
<1>5. ASSUME NEW t \in Participants, TakesSnapshot(t) PROVE Unmade'
  <2>1. (\E phase : GoesTo(t, phase)) /\ created' = created /\ doing[t] # "new"
    BY <1>5
    DEF TakesSnapshot, EnterLock, ThreadGone, Reuse, NothingToReuse, Collect, ProbeFails, Leave, shared
  <2> QED
    BY <1>0, <1>1, <2>1
<1>6. CASE UNCHANGED monitorVars
  BY <1>6 DEF monitorVars, shared
<1> QED
  BY <1>2, <1>3, <1>4, <1>5, <1>6 DEF MonitorNext, Controls

LEMMA RunningFinite ==
  /\ IsFiniteSet(Running) /\ Cardinality(Running) \in Nat
  /\ IsFiniteSet(Orphans) /\ Cardinality(Orphans) \in Nat
  /\ Cardinality(Running) <= Cardinality(Orphans) + 1
<1>1. IsFiniteSet(Running) /\ IsFiniteSet(Orphans)
  BY MonitorConstants, FS_Subset DEF Running, Orphans
<1>2. Cardinality(Running) \in Nat /\ Cardinality(Orphans) \in Nat
  BY <1>1, FS_CardinalityType
<1>3. CASE thread \in Running
  <2>1. Cardinality(Orphans) = Cardinality(Running) - 1
    BY <1>1, <1>3, FS_RemoveElement DEF Orphans
  <2> QED
    BY <1>1, <1>2, <2>1
<1>4. CASE thread \notin Running
  <2>1. Orphans = Running
    BY <1>4 DEF Orphans
  <2> QED
    BY <1>1, <1>2, <2>1
<1> QED
  BY <1>3, <1>4

\* Threads that neither start nor stop the monitor.
LEMMA Bystanding ==
  ASSUME MonitorTypes, Controlled,
         thread' = thread, target' = target, late' = late, Running' \subseteq Running,
         \A u \in Users : InControl(u)' => doing'[u] = doing[u],
         \A u \in Users : doing[u] = "begin" => doing'[u] = "begin",
         thread # "none" /\ doing'[thread] = "new" => doing[thread] = "new"
  PROVE  Controlled'
<1>1. \A u \in Users : InControl(u)' => InControl(u)
  BY DEF InControl
<1>2. Orphans' \subseteq Orphans
  BY DEF Orphans
<1>3. Cardinality(Running') <= Active /\ Cardinality(Orphans') <= Cardinality(Orphans)
  BY <1>2, RunningFinite, FS_Subset DEF Active
<1>4. Cardinality(Running') \in Nat /\ Cardinality(Orphans') \in Nat /\ late \in Nat
  BY <1>2, RunningFinite, FS_Subset, FS_CardinalityType DEF MonitorTypes
<1>5. ASSUME NEW u \in Users
      PROVE  /\ doing'[u] \in {"clear", "create"} => thread' \notin Running'
             /\ doing'[u] = "joining" => target'[u] = thread'
             /\ doing'[u] = "forget" => Active' <= late'
  <2>1. doing'[u] \in {"clear", "create", "joining", "forget"} => doing'[u] = doing[u]
    BY DEF InControl
  <2>2. doing[u] = "forget" => Active' <= late
    BY <1>3, <1>4, RunningFinite DEF Controlled, Active
  <2> QED
    BY <2>1, <2>2 DEF Controlled
<1>6. Cardinality(Orphans') <= late'
  BY <1>3, <1>4, RunningFinite DEF Controlled
<1> QED
  BY <1>1, <1>5, <1>6 DEF Controlled

\* What is left to show when one thread starts or stops the monitor.
LEMMA OnlyController ==
  ASSUME NEW u \in Users, \A v \in Users \ {u} : ~InControl(v)',
         doing'[u] \in {"clear", "create"} => thread' \notin Running',
         doing'[u] = "joining" => target'[u] = thread',
         doing'[u] = "forget" => Active' <= late',
         thread' # "none" /\ doing'[thread'] = "new" => doing'[u] = "begin",
         Cardinality(Orphans') <= late'
  PROVE  Controlled'
BY DEF Controlled, InControl

\* A thread of the application moves: the collectors go on as they were.
LEMMA UserMoves ==
  ASSUME MonitorTypes, NEW u \in Users, NEW phase, GoesTo(u, phase)
  PROVE  /\ Running' = Running /\ doing'[u] = phase
         /\ \A v \in Users \ {u} : doing'[v] = doing[v]
         /\ \A t \in Collectors : doing'[t] = doing[t]
<1>1. Users \cap Collectors = {} /\ Users \subseteq Participants /\ Collectors \subseteq Participants
  BY MonitorConstants DEF Participants
<1> QED
  BY <1>1 DEF GoesTo, MonitorTypes, Running, Alive

LEMMA ControlledStep ==
  ASSUME CollectorInv, [MonitorNext]_monitorVars, ~contested'
  PROVE  Controlled'
<1>1. /\ MonitorTypes /\ Unmade /\ late \in Nat
      /\ thread \in created \cup {"none"} /\ created \subseteq Collectors
  BY DEF CollectorInv, MonitorTypes
<1>2. /\ Users \cap Collectors = {} /\ Users \subseteq Participants
      /\ Collectors \subseteq Participants /\ "none" \notin Participants
  BY MonitorConstants DEF Participants
<1>3. ~contested
  <2>1. contested' = contested \/ \E u \in Users, phase \in {"idle", "clear", "look", "ask"} : Call(u, phase)
    BY DEF MonitorNext, monitorVars, StartCalled, StopCalled, Clear, AskSnapshot, Controls, ClearFlag,
      CreateThread, BeginThread, LookForThread, JoinRaises, Join, Joined, JoinTimesOut, ForgetThread,
      TakesSnapshot, EnterLock, ThreadGone, Reuse, NothingToReuse, Collect, ProbeFails, TestFlag, Waited
  <2> QED
    BY <2>1 DEF Call
<1>4. Controlled
  BY <1>3 DEF CollectorInv
<1>5. Running \subseteq Collectors /\ Cardinality(Running) \in Nat /\ Cardinality(Orphans) \in Nat
      /\ Cardinality(Orphans) <= late /\ Cardinality(Running) <= Cardinality(Orphans) + 1
  BY <1>4, RunningFinite DEF Running, Controlled
\* Calls.
<1>6. ASSUME NEW u \in Users, Call(u, "clear") \/ Call(u, "look"), UNCHANGED <<thread, created, target, late>>,
             Call(u, "clear") => ~Alive(thread)
      PROVE  Controlled'
  <2>1. PICK phase \in {"clear", "look"} : Call(u, phase)
    BY <1>6
  <2>2. \A v \in Users \ {u} : ~InControl(v)
    BY <2>1 DEF Call
  <2>3. ~InControl(u)
    BY <2>1 DEF Call, InControl
  <2>4. /\ Running' = Running /\ doing'[u] = phase
        /\ \A v \in Users \ {u} : doing'[v] = doing[v]
        /\ \A t \in Collectors : doing'[t] = doing[t]
    BY <1>1, <2>1, UserMoves DEF Call
  <2>5. \A v \in Users \ {u} : ~InControl(v)'
    BY <2>2, <2>4 DEF InControl
  <2>6. ~(thread # "none" /\ doing[thread] = "new")
    BY <1>4, <2>2, <2>3 DEF Controlled, InControl
  <2>7. ~(thread' # "none" /\ doing'[thread'] = "new")
    BY <1>1, <1>6, <2>4, <2>6
  <2>8. phase = "clear" => thread' \notin Running'
    BY <1>6, <2>1, <2>4 DEF Running
  <2>9. Cardinality(Orphans') <= late'
    BY <1>5, <1>6, <2>4 DEF Orphans
  <2> QED
    BY <2>4, <2>5, <2>7, <2>8, <2>9, OnlyController
<1>7. ASSUME NEW u \in Users, NEW phase \in {"idle", "ask"}, GoesTo(u, phase),
             doing[u] # "begin", UNCHANGED <<thread, target, late>>
      PROVE  Controlled'
  <2>1. /\ Running' = Running /\ doing'[u] = phase
        /\ \A v \in Users \ {u} : doing'[v] = doing[v]
        /\ \A t \in Collectors : doing'[t] = doing[t]
    BY <1>1, <1>7, UserMoves
  <2>2. ~InControl(u)'
    BY <2>1 DEF InControl
  <2> QED
    BY <1>1, <1>4, <1>7, <2>1, <2>2, Bystanding
<1>8. ASSUME NEW u \in Users, StartCalled(u) PROVE Controlled'
  <2>1. UNCHANGED <<thread, created, target, late>>
    BY <1>8 DEF StartCalled, shared
  <2>2. CASE AlreadyRuns
    <3>1. GoesTo(u, "idle") /\ doing[u] = "idle"
      BY <1>8, <2>2 DEF StartCalled, Call
    <3> QED
      BY <1>7, <2>1, <3>1
  <2>3. CASE ~AlreadyRuns
    <3>1. Call(u, "clear") /\ ~Alive(thread)
      BY <1>8, <2>3 DEF StartCalled, AlreadyRuns
    <3> QED
      BY <1>6, <2>1, <3>1
  <2> QED
    BY <2>2, <2>3
<1>9. ASSUME NEW u \in Users, StopCalled(u) PROVE Controlled'
  <2>1. Call(u, "look") /\ ~Call(u, "clear") /\ UNCHANGED <<thread, created, target, late>>
    <3>1. GoesTo(u, "look") /\ Call(u, "look") /\ UNCHANGED <<thread, created, target, late>>
      BY <1>9 DEF StopCalled, Call
    <3>2. doing'[u] = "look"
      BY <1>1, <3>1, UserMoves
    <3>3. ~Call(u, "clear")
      BY <1>1, <3>2, UserMoves DEF Call
    <3> QED
      BY <3>1, <3>3
  <2> QED
    BY <1>6, <2>1
<1>10. ASSUME NEW u \in Users, AskSnapshot(u) \/ Clear(u) PROVE Controlled'
  <2>1. /\ GoesTo(u, "ask") \/ GoesTo(u, "idle")
        /\ doing[u] # "begin" /\ UNCHANGED <<thread, target, late>>
    BY <1>10 DEF AskSnapshot, Clear, Call, shared
  <2>2. PICK phase \in {"idle", "ask"} : GoesTo(u, phase)
    BY <2>1
  <2> QED
    BY <1>7, <2>1, <2>2
\* The steps of start and stop.
<1>11. ASSUME NEW u \in Users, InControl(u), NEW phase, GoesTo(u, phase)
       PROVE  /\ Running' = Running /\ doing'[u] = phase
              /\ \A t \in Collectors : doing'[t] = doing[t]
              /\ \A v \in Users \ {u} : ~InControl(v)' /\ doing[v] # "begin"
  <2>1. \A v \in Users \ {u} : ~InControl(v) /\ doing[v] # "begin"
    BY <1>4, <1>11 DEF Controlled, InControl
  <2> QED
    BY <1>1, <1>11, <2>1, UserMoves DEF InControl
<1>12. ASSUME NEW u \in Users, ClearFlag(u) PROVE Controlled'
  <2>1. doing[u] = "clear" /\ InControl(u) /\ GoesTo(u, "create") /\ UNCHANGED <<thread, late>>
    BY <1>12 DEF ClearFlag, InControl
  <2>2. /\ Running' = Running /\ doing'[u] = "create" /\ \A t \in Collectors : doing'[t] = doing[t]
        /\ \A v \in Users \ {u} : ~InControl(v)' /\ doing[v] # "begin"
    BY <1>11, <2>1
  <2>3. thread \notin Running /\ ~(thread # "none" /\ doing[thread] = "new")
    BY <1>4, <2>1, <2>2 DEF Controlled
  <2>4. ~(thread' # "none" /\ doing'[thread'] = "new")
    BY <1>1, <2>1, <2>2, <2>3
  <2>5. Cardinality(Orphans') <= late'
    BY <1>5, <2>1, <2>2 DEF Orphans
  <2> QED
    BY <2>1, <2>2, <2>3, <2>4, <2>5, OnlyController
<1>13. ASSUME NEW u \in Users, CreateThread(u) PROVE Controlled'
  <2>1. /\ doing[u] = "create" /\ InControl(u) /\ GoesTo(u, "begin") /\ late' = late
        /\ thread' \in Collectors \ created
    BY <1>1, <1>13 DEF CreateThread, InControl
  <2>2. /\ Running' = Running /\ doing'[u] = "begin" /\ \A t \in Collectors : doing'[t] = doing[t]
        /\ \A v \in Users \ {u} : ~InControl(v)' /\ doing[v] # "begin"
    BY <1>11, <2>1
  <2>3. thread \notin Running
    BY <1>4, <2>1 DEF Controlled
  <2>4. Orphans' = Orphans
    <3>1. thread' \notin Running
      BY <1>1, <2>1 DEF Unmade, Running, Alive
    <3> QED
      BY <2>2, <2>3, <3>1 DEF Orphans
  <2>5. Cardinality(Orphans') <= late'
    BY <1>5, <2>1, <2>4
  <2> QED
    BY <2>1, <2>2, <2>5, OnlyController
<1>14. ASSUME NEW u \in Users, BeginThread(u) PROVE Controlled'
  <2>1. /\ doing[u] = "begin" /\ InControl(u) /\ UNCHANGED <<thread, late>>
        /\ doing' = [t \in Participants |->
             IF t = u THEN "idle" ELSE IF t = thread /\ doing[t] = "new" THEN "test" ELSE doing[t]]
    BY <1>14 DEF BeginThread, InControl, shared
  <2>2. doing'[u] = "idle" /\ \A v \in Users \ {u} : doing'[v] = doing[v]
    BY <1>1, <1>2, <2>1
  <2>3. \A v \in Users \ {u} : ~InControl(v)'
    BY <1>4, <2>1, <2>2 DEF Controlled, InControl
  <2>4. ~(thread' # "none" /\ doing'[thread'] = "new")
    BY <1>1, <1>2, <2>1
  <2>5. Orphans' = Orphans
    BY <1>2, <2>1 DEF Orphans, Running, Alive
  <2>6. Cardinality(Orphans') <= late'
    BY <1>5, <2>1, <2>5
  <2> QED
    BY <2>2, <2>3, <2>4, <2>6, OnlyController
<1>15. ASSUME NEW u \in Users, LookForThread(u) \/ JoinRaises(u) \/ Join(u) PROVE Controlled'
  <2>1. /\ doing[u] \in {"look", "join"} /\ InControl(u) /\ UNCHANGED <<thread, late>>
        /\ \E phase \in {"idle", "join", "joining"} : GoesTo(u, phase)
    BY <1>15 DEF LookForThread, JoinRaises, Join, InControl, shared
  <2>2. PICK phase \in {"idle", "join", "joining"} : GoesTo(u, phase)
    BY <2>1
  <2>3. /\ Running' = Running /\ doing'[u] = phase /\ \A t \in Collectors : doing'[t] = doing[t]
        /\ \A v \in Users \ {u} : ~InControl(v)' /\ doing[v] # "begin"
    BY <1>11, <2>1, <2>2
  <2>4. doing'[u] = "joining" => target'[u] = thread'
    <3>1. ASSUME doing'[u] = "joining" PROVE target' = [target EXCEPT ![u] = thread]
      <4>1. ~GoesTo(u, "idle") /\ ~GoesTo(u, "join")
        BY <1>1, <3>1, UserMoves
      <4> QED
        BY <1>15, <4>1 DEF LookForThread, JoinRaises, Join
    <3> QED
      BY <2>1, <3>1 DEF MonitorTypes, CollectorInv
  <2>5. ~(thread' # "none" /\ doing'[thread'] = "new")
    <3>1. ~(thread # "none" /\ doing[thread] = "new")
      BY <1>4, <2>1, <2>3 DEF Controlled
    <3> QED
      BY <1>1, <2>1, <2>3, <3>1
  <2>6. Cardinality(Orphans') <= late'
    BY <1>5, <2>1, <2>3 DEF Orphans
  <2> QED
    BY <2>2, <2>3, <2>4, <2>5, <2>6, OnlyController
<1>16. ASSUME NEW u \in Users, Joined(u) \/ JoinTimesOut(u) PROVE Controlled'
  <2>1. doing[u] = "joining" /\ InControl(u) /\ GoesTo(u, "forget") /\ UNCHANGED <<thread, target>>
    BY <1>16 DEF Joined, JoinTimesOut, InControl, shared
  <2>2. /\ Running' = Running /\ doing'[u] = "forget" /\ \A t \in Collectors : doing'[t] = doing[t]
        /\ \A v \in Users \ {u} : ~InControl(v)' /\ doing[v] # "begin"
    BY <1>11, <2>1
  <2>3. target[u] = thread /\ ~(thread # "none" /\ doing[thread] = "new")
    BY <1>4, <2>1, <2>2 DEF Controlled
  <2>4. ~(thread' # "none" /\ doing'[thread'] = "new")
    BY <1>1, <2>1, <2>2, <2>3
  <2>5. Active <= late' /\ late <= late'
    <3>1. CASE Joined(u)
      <4>1. doing[thread] = "ended" /\ late' = late
        BY <2>3, <3>1 DEF Joined
      <4>2. Orphans = Running
        BY <4>1 DEF Orphans, Running, Alive
      <4> QED
        BY <1>1, <1>5, <4>1, <4>2 DEF Active
    <3>2. CASE JoinTimesOut(u)
      <4>1. late' = late + 1
        BY <3>2 DEF JoinTimesOut
      <4> QED
        BY <1>1, <1>5, <4>1 DEF Active
    <3> QED
      BY <1>16, <3>1, <3>2
  <2>6. late' \in Nat
    BY <1>1, <1>16 DEF Joined, JoinTimesOut
  <2>7. Active' <= late' /\ Cardinality(Orphans') <= late'
    <3>1. Orphans' = Orphans /\ Active' = Active
      BY <2>1, <2>2 DEF Orphans, Active
    <3> QED
      BY <1>1, <1>5, <2>5, <2>6, <3>1
  <2> QED
    BY <2>2, <2>4, <2>7, OnlyController
<1>17. ASSUME NEW u \in Users, ForgetThread(u) PROVE Controlled'
  <2>1. doing[u] = "forget" /\ InControl(u) /\ GoesTo(u, "idle") /\ thread' = "none" /\ late' = late
    BY <1>17 DEF ForgetThread, InControl
  <2>2. /\ Running' = Running /\ doing'[u] = "idle"
        /\ \A v \in Users \ {u} : ~InControl(v)' /\ doing[v] # "begin"
    BY <1>11, <2>1
  <2>3. Orphans' = Running
    BY <1>2, <1>5, <2>1, <2>2 DEF Orphans
  <2>4. Active <= late
    BY <1>4, <2>1 DEF Controlled
  <2> QED
    BY <2>1, <2>2, <2>3, <2>4, OnlyController DEF Active
\* Snapshots, and the collectors' loop.
<1>18. ASSUME NEW t \in Participants, NEW phase \in {"idle", "reread", "probe", "wait", "test", "ask", "ended"},
              GoesTo(t, phase), doing[t] \in {"ask", "reread", "probe", "test", "wait"},
              UNCHANGED <<thread, target, late>>
       PROVE  Controlled'
  <2>1. \A s \in Participants : doing'[s] = IF s = t THEN phase ELSE doing[s]
    BY <1>1, <1>18 DEF GoesTo, MonitorTypes
  <2>2. Running' \subseteq Running
    BY <1>2, <1>18, <2>1 DEF Running, Alive
  <2>3. \A u \in Users : (InControl(u)' => doing'[u] = doing[u]) /\ (doing[u] = "begin" => doing'[u] = "begin")
    BY <1>2, <1>18, <2>1 DEF InControl
  <2>4. thread # "none" /\ doing'[thread] = "new" => doing[thread] = "new"
    BY <1>1, <1>2, <2>1
  <2> QED
    BY <1>1, <1>4, <1>18, <2>2, <2>3, <2>4, Bystanding
<1>19. ASSUME NEW t \in Participants, TakesSnapshot(t) PROVE Controlled'
  <2>1. /\ \E phase \in {"idle", "reread", "probe", "wait", "test", "ask", "ended"} : GoesTo(t, phase)
        /\ doing[t] \in {"ask", "reread", "probe", "test", "wait"}
        /\ UNCHANGED <<thread, target, late>>
    BY <1>19
    DEF TakesSnapshot, EnterLock, ThreadGone, Reuse, NothingToReuse, Collect, ProbeFails, Leave, Back, shared
  <2> QED
    BY <1>18, <2>1
<1>20. ASSUME NEW t \in Collectors, TestFlag(t) \/ Waited(t) PROVE Controlled'
  <2>1. /\ \E phase \in {"idle", "reread", "probe", "wait", "test", "ask", "ended"} : GoesTo(t, phase)
        /\ doing[t] \in {"ask", "reread", "probe", "test", "wait"}
        /\ UNCHANGED <<thread, target, late>>
    BY <1>20 DEF TestFlag, Waited, shared
  <2> QED
    BY <1>2, <1>18, <2>1
<1>21. CASE UNCHANGED monitorVars
  <2>1. UNCHANGED <<doing, thread, target, late>>
    BY <1>21 DEF monitorVars, shared
  <2>2. Running' = Running
    BY <2>1 DEF Running, Alive
  <2> QED
    BY <1>1, <1>4, <2>1, <2>2, Bystanding
<1> QED
  BY <1>8, <1>9, <1>10, <1>12, <1>13, <1>14, <1>15, <1>16, <1>17, <1>19, <1>20, <1>21
  DEF MonitorNext, Controls

LEMMA CollectorInvInductive == MonitorSpec => []CollectorInv
<1>1. MonitorInit /\ MonitorTypes => CollectorInv
  <2> SUFFICES ASSUME MonitorInit, MonitorTypes PROVE CollectorInv
    OBVIOUS
  <2>1. Users \cap Collectors = {} /\ doing = [t \in Participants |-> IF t \in Users THEN "idle" ELSE "new"]
        /\ Users \subseteq Participants /\ Collectors \subseteq Participants /\ thread = "none" /\ late = 0
    BY MonitorConstants DEF MonitorInit, Participants
  <2>2. Unmade /\ \A u \in Users : doing[u] = "idle"
    BY <2>1 DEF Unmade
  <2>3. Running = {} /\ Orphans = {}
    BY <2>1 DEF Running, Alive, Orphans
  <2>4. Cardinality(Orphans) = 0
    BY <2>3, FS_EmptySet
  <2>5. Controlled
    BY <2>1, <2>2, <2>4 DEF Controlled, InControl
  <2> QED
    BY <2>2, <2>5 DEF CollectorInv
<1>2. CollectorInv /\ [MonitorNext]_monitorVars => CollectorInv'
  BY MonitorTypesStep, UnmadeStep, ControlledStep DEF CollectorInv
<1> QED
  BY <1>1, <1>2, MonitorTypesHold, PTL DEF MonitorSpec

\* However often the monitor is started and stopped, there are more collectors
\* than one only if joins timed out, each for one more, or threads started and
\* stopped it at the same time (OneCollector; start, stop).
THEOREM OnlyOneCollector == MonitorSpec => []OneCollector
<1>1. CollectorInv => OneCollector
  <2> SUFFICES ASSUME CollectorInv, ~contested PROVE Cardinality(Running) <= 1 + late
    BY DEF OneCollector
  <2>1. Cardinality(Orphans) <= late /\ late \in Nat
    BY DEF CollectorInv, Controlled, MonitorTypes
  <2> QED
    BY <2>1, RunningFinite
<1> QED
  BY <1>1, CollectorInvInductive, PTL
=============================================================================
