-------------------------- MODULE WebhookNotifier --------------------------
(***************************************************************************)
(* The batching webhook notifier (tokenledger/ext/notifier.py): recording  *)
(* threads put records into a batch, and the thread that fills it, or a    *)
(* timer, takes the batch under the lock and posts it afterwards.  A batch *)
(* that comes too soon after the last one stays where it is and gets a new *)
(* timer.  cancel() does not stop a timer that has fired: its thread       *)
(* already waits for the lock, and by then may meet another batch and      *)
(* another timer.                                                          *)
(*                                                                         *)
(* A record is its number, in the order of on_record; those that cost      *)
(* nothing are ignored by the code.  With batch_size <= 1 records are      *)
(* posted at once (Direct).                                                *)
(* Operators commented "Mistake" are wrong on purpose and used nowhere.    *)
(***************************************************************************)
EXTENDS Integers, FiniteSets

CONSTANTS
  Threads,        \* threads that call on_record
  Timers,         \* places for timer threads that have fired
  BatchSizes,     \* what batch_size may be
  FlushInterval,  \* flush_interval, in ticks
  Throttle,       \* throttle_interval, in ticks; 0 is off
  Sinks,          \* the webhooks that are set: "slack", "generic"
  MaxRecords      \* bound: records

ASSUME NotifierConstants ==
  /\ Threads \cap Timers = {}
  /\ BatchSizes \subseteq Nat /\ FlushInterval \in Nat \ {0} /\ Throttle \in Nat
  /\ Sinks \subseteq {"slack", "generic"} /\ Sinks # {}
  /\ MaxRecords \in Nat

VARIABLES
  size,       \* batch_size
  batch,      \* _batch
  timer,      \* _batch_timer: "none", "waiting" or "fired"
  due,        \* ticks until the waiting timer fires
  age,        \* now - _last_send
  pc,         \* what each thread does next
  out,        \* the batch a thread has taken and is posting
  bad,        \* a webhook has not got that batch
  noted,      \* records so far
  posted,     \* records that every webhook got (history)
  failed,     \* records whose post failed (history)
  gap,        \* ticks since a batch was last taken (history)
  hasty,      \* a batch was taken before gap had reached Throttle (history)
  raced       \* a batch was taken while the one before was not yet stamped (history)

queue == <<size, batch, timer, due, age>>
history == <<noted, posted, failed, gap, hasty, raced>>
vars == <<queue, pc, out, bad, history>>

Actors == Threads \cup Timers
Phases == {"idle", "flush", "stamp", "slack", "generic"}
Capped(n) == IF n < Throttle THEN n ELSE Throttle
Goto(a, phase) == pc' = [pc EXCEPT ![a] = phase]

Init ==
  /\ size \in BatchSizes
  /\ batch = {} /\ timer = "none" /\ due = 0 /\ age = Throttle
  /\ pc = [a \in Actors |-> "idle"]
  /\ out = [a \in Actors |-> {}]
  /\ bad = [a \in Actors |-> FALSE]
  /\ noted = 0 /\ posted = {} /\ failed = {}
  /\ gap = Throttle /\ hasty = FALSE /\ raced = FALSE

-----------------------------------------------------------------------------
(* on_record *)

NoTimer == timer' = "none" /\ due' = 0
StartTimer(wait) == timer' = "waiting" /\ due' = wait

Noted(t) == pc[t] = "idle" /\ noted < MaxRecords /\ noted' = noted + 1

Direct(t) ==
  /\ Noted(t) /\ size <= 1
  /\ out' = [out EXCEPT ![t] = {noted'}]
  /\ Goto(t, "slack")
  /\ UNCHANGED <<queue, bad, posted, failed, gap, hasty, raced>>

\* The batch is not full yet; the first record starts the timer.
AddToBatch(t) ==
  /\ Noted(t) /\ size > 1 /\ Cardinality(batch) + 1 < size
  /\ batch' = batch \cup {noted'}
  /\ IF timer = "none" THEN StartTimer(FlushInterval) ELSE UNCHANGED <<timer, due>>
  /\ UNCHANGED <<size, age, pc, out, bad, posted, failed, gap, hasty, raced>>

\* The record fills the batch, or a throttled batch is over-full already: the
\* timer is cancelled and the thread flushes once it has released the lock.
Fill(t) ==
  /\ Noted(t) /\ size > 1 /\ Cardinality(batch) + 1 >= size
  /\ batch' = batch \cup {noted'}
  /\ NoTimer
  /\ Goto(t, "flush")
  /\ UNCHANGED <<size, age, out, bad, posted, failed, gap, hasty, raced>>

-----------------------------------------------------------------------------
(* _flush_batch *)

\* The timer's thread starts; the reference to it stays until some flush.
TimerFires(a) ==
  /\ a \in Timers /\ pc[a] = "idle"
  /\ timer = "waiting" /\ due = 0
  /\ timer' = "fired"
  /\ Goto(a, "flush")
  /\ UNCHANGED <<size, batch, due, age, out, bad, history>>

\* if not self._batch
Empty == batch = {}

FlushEmpty(a) ==
  /\ pc[a] = "flush" /\ Empty
  /\ NoTimer
  /\ Goto(a, "idle")
  /\ UNCHANGED <<size, batch, age, out, bad, history>>

\* Mistake: only a timer's flush is throttled.
TimersThrottled(a) == a \in Timers /\ age < Throttle
\* throttle_interval and now - _last_send < throttle_interval
TooSoon(a) == age < Throttle

\* Mistakes: a throttled flush keeps the batch without a timer; it drops it.
KeptWithoutTimer(a) == NoTimer /\ UNCHANGED batch
Dropped(a) == NoTimer /\ batch' = {}
\* The batch is kept, and a timer set for the rest of the interval.
Rescheduled(a) == StartTimer(Throttle - age) /\ UNCHANGED batch

FlushThrottled(a) ==
  /\ pc[a] = "flush" /\ ~Empty /\ TooSoon(a)
  /\ Rescheduled(a)
  /\ Goto(a, "idle")
  /\ UNCHANGED <<size, age, out, bad, history>>

Take(a) ==
  /\ pc[a] = "flush" /\ ~Empty /\ ~TooSoon(a)
  /\ NoTimer
  /\ out' = [out EXCEPT ![a] = batch]
  /\ batch' = {}
  /\ Goto(a, "stamp")
  /\ hasty' = (hasty \/ gap < Throttle)
  /\ raced' = (raced \/ \E b \in Actors : pc[b] = "stamp")
  /\ gap' = 0
  /\ UNCHANGED <<size, age, bad, noted, posted, failed>>

\* _last_send is set after the lock is released.
Stamp(a) ==
  /\ pc[a] = "stamp"
  /\ age' = 0
  /\ Goto(a, "slack")
  /\ UNCHANGED <<size, batch, timer, due, out, bad, history>>

-----------------------------------------------------------------------------
(* _post: Slack first, then the generic webhook *)

\* The batch is settled: nobody keeps it any longer, whatever became of it.
Settle(a, ok) ==
  /\ posted' = IF ok THEN posted \cup out[a] ELSE posted
  /\ failed' = IF ok THEN failed ELSE failed \cup out[a]
  /\ out' = [out EXCEPT ![a] = {}] /\ bad' = [bad EXCEPT ![a] = FALSE]
  /\ Goto(a, "idle")
  /\ UNCHANGED <<queue, noted, gap, hasty, raced>>

\* One webhook got the batch, or did not: a URLError is logged and swallowed.
PostSlack(a, ok) ==
  /\ pc[a] = "slack" /\ ("slack" \in Sinks \/ ok)
  /\ bad' = [bad EXCEPT ![a] = ~ok]
  /\ Goto(a, "generic")
  /\ UNCHANGED <<queue, out, history>>

PostGeneric(a, ok) ==
  /\ pc[a] = "generic" /\ ("generic" \in Sinks \/ ok)
  /\ Settle(a, ok /\ ~bad[a])

\* Any other error leaves the method: to the caller of the hook, or out of the
\* timer's thread.
PostRaises(a) ==
  /\ pc[a] \in Sinks
  /\ Settle(a, FALSE)

-----------------------------------------------------------------------------
Tick ==
  /\ due > 0 \/ age < Throttle \/ gap < Throttle
  /\ due' = IF due > 0 THEN due - 1 ELSE 0
  /\ age' = Capped(age + 1) /\ gap' = Capped(gap + 1)
  /\ UNCHANGED <<size, batch, timer, pc, out, bad, noted, posted, failed, hasty, raced>>

OnRecord(t) == Direct(t) \/ AddToBatch(t) \/ Fill(t)

Runs(a) ==
  \/ TimerFires(a)
  \/ FlushEmpty(a) \/ FlushThrottled(a) \/ Take(a) \/ Stamp(a)
  \/ \E ok \in BOOLEAN : PostSlack(a, ok) \/ PostGeneric(a, ok)
  \/ PostRaises(a)

Next == (\E t \in Threads : OnRecord(t)) \/ (\E a \in Actors : Runs(a)) \/ Tick

Spec == Init /\ [][Next]_vars

\* Threads that have begun a call, and timers, are run to the end (a post ends
\* with the timeout), and time passes.  Nobody has to call on_record.
FairSpec == Spec /\ WF_vars(Tick) /\ \A a \in Actors : WF_vars(Runs(a))

-----------------------------------------------------------------------------
(* Properties *)

\* Every variable has its type; only who is posting holds records.
TypeOK ==
  /\ size \in BatchSizes
  /\ batch \subseteq 1..MaxRecords /\ timer \in {"none", "waiting", "fired"}
  /\ due \in Nat /\ age \in 0..Throttle /\ gap \in 0..Throttle
  /\ pc \in [Actors -> Phases] /\ out \in [Actors -> SUBSET (1..MaxRecords)]
  /\ bad \in [Actors -> BOOLEAN]
  /\ \A a \in Actors : out[a] # {} <=> pc[a] \in {"stamp", "slack", "generic"}
  /\ noted \in 0..MaxRecords /\ posted \cup failed \subseteq 1..noted
  /\ hasty \in BOOLEAN /\ raced \in BOOLEAN

\* No batch is ever forgotten: however flushes cancel each other's timers,
\* records wait in the batch only while a timer is set that has not run yet or
\* some thread is about to flush (on_record, _flush_batch).
NothingStranded ==
  batch # {} =>
    \/ timer = "waiting"
    \/ \E a \in Actors : pc[a] = "flush"

\* Batches are taken at least throttle_interval apart, also those that a full
\* batch sends, unless one is taken before the thread that took the one before
\* has set _last_send (_flush_batch).
ThrottleHolds == hasty => raced

Batches == INSTANCE Outbox WITH
  Records <- 1..MaxRecords,
  pending <- batch \cup UNION {out[a] : a \in Actors}

\* The notifier implements an outbox: no record is dropped or posted twice by
\* throttling, cancelled timers or racing flushes, and each is settled in the
\* end (CHANGELOG.md:20, "never drops throttled records").
ImplementsOutbox == Batches!FairSpec
=============================================================================
