--------------------------- MODULE CircuitBreaker ---------------------------
(***************************************************************************)
(* The circuit breaker of one provider (tokenledger/core/interceptor.py,   *)
(* _check_circuit and _record_result) as concurrent calls use it.  Its     *)
(* state is a dict no lock protects.  Between asyncio tasks each of the    *)
(* two methods runs without a break; between threads any two of its reads  *)
(* and writes may be apart, so each of them is a step, and mode says when  *)
(* another call may step in between.                                       *)
(*                                                                         *)
(* Only failures >= circuit_breaker_threshold and now - since > recovery   *)
(* timeout are ever asked, so both numbers stop growing one step beyond.   *)
(* Operators commented "Mistake" are wrong on purpose and used nowhere.    *)
(***************************************************************************)
EXTENDS Integers, FiniteSets

CONSTANTS
  Callers,    \* threads or tasks that call the provider, again and again
  Threshold,  \* circuit_breaker_threshold
  Recovery,   \* circuit_recovery_timeout, in ticks of the clock
  Modes       \* what the callers may be: "asyncio", "threads"

ASSUME BreakerConstants ==
  /\ Threshold \in Nat \ {0}
  /\ Recovery \in Nat
  /\ Modes \subseteq {"asyncio", "threads"}

VARIABLES
  mode,
  state,     \* "closed", "open" or "half-open"
  failures,
  age,       \* now - since
  pc,        \* what each caller does next
  seen,      \* the value its failures += 1 has loaded
  trial,     \* did the caller find the breaker half-open? (history)
  streak,    \* failures recorded since the last success (history)
  failed     \* failures recorded ever (history)

vars == <<mode, state, failures, age, pc, seen, trial, streak, failed>>

\* The callers inside one of the two methods.
Inside == {"elapsed", "halve", "close", "add", "compare", "trip", "stamp"}
Phases == {"idle", "calling"} \cup Inside
MayRun(c) == mode = "threads" \/ \A d \in Callers \ {c} : pc[d] \notin Inside

OneMore(n) == IF n < Threshold THEN n + 1 ELSE Threshold
Goto(c, phase) == pc' = [pc EXCEPT ![c] = phase]

Init ==
  /\ mode \in Modes
  /\ state = "closed" /\ failures = 0 /\ age \in 0..(Recovery + 1)
  /\ pc = [c \in Callers |-> "idle"]
  /\ seen = [c \in Callers |-> 0]
  /\ trial = [c \in Callers |-> FALSE]
  /\ streak = 0 /\ failed = 0

-----------------------------------------------------------------------------
(* _check_circuit *)

Admitted(c) == Goto(c, "calling") /\ trial' = [trial EXCEPT ![c] = (state = "half-open")]

CheckCircuit(c) ==
  /\ MayRun(c) /\ pc[c] = "idle"
  /\ IF state = "open" THEN Goto(c, "elapsed") /\ UNCHANGED trial
     ELSE Admitted(c)
  /\ UNCHANGED <<mode, state, failures, age, seen, streak, failed>>

\* Mistake: the recovery timeout is never looked at.
NeverElapsed(c) == FALSE
\* time.monotonic() - since > circuit_recovery_timeout
Elapsed(c) == age > Recovery

RecoveryElapsed(c) ==
  /\ MayRun(c) /\ pc[c] = "elapsed" /\ Elapsed(c)
  /\ Goto(c, "halve")
  /\ UNCHANGED <<mode, state, failures, age, seen, trial, streak, failed>>

\* CircuitBreakerOpenError
Refused(c) ==
  /\ MayRun(c) /\ pc[c] = "elapsed" /\ ~Elapsed(c)
  /\ Goto(c, "idle")
  /\ UNCHANGED <<mode, state, failures, age, seen, trial, streak, failed>>

HalfOpen(c) ==
  /\ MayRun(c) /\ pc[c] = "halve"
  /\ state' = "half-open"
  /\ Goto(c, "calling") /\ trial' = [trial EXCEPT ![c] = TRUE]
  /\ UNCHANGED <<mode, failures, age, seen, streak, failed>>

-----------------------------------------------------------------------------
(* _record_result *)

Over(c) == Goto(c, "idle") /\ trial' = [trial EXCEPT ![c] = FALSE]

\* Mistake: a success keeps the count.
CountKept(c) == failures
\* state["failures"] = 0
CountAfterSuccess(c) == 0

Succeeds(c) ==
  /\ MayRun(c) /\ pc[c] = "calling"
  /\ failures' = CountAfterSuccess(c) /\ streak' = 0
  /\ Goto(c, "close")
  /\ UNCHANGED <<mode, state, age, seen, trial, failed>>

Close(c) ==
  /\ MayRun(c) /\ pc[c] = "close"
  /\ state' = "closed"
  /\ Over(c)
  /\ UNCHANGED <<mode, failures, age, seen, streak, failed>>

\* failures += 1, first half: the old value is loaded.
Fails(c) ==
  /\ MayRun(c) /\ pc[c] = "calling"
  /\ seen' = [seen EXCEPT ![c] = failures]
  /\ streak' = OneMore(streak) /\ failed' = OneMore(failed)
  /\ Goto(c, "add")
  /\ UNCHANGED <<mode, state, failures, age, trial>>

\* Mistake: a failure counts twice.
AddedTwice(c) == OneMore(OneMore(seen[c]))
\* The loaded value plus one, whatever the count has become since.
CountAfterFailure(c) == OneMore(seen[c])

Add(c) ==
  /\ MayRun(c) /\ pc[c] = "add"
  /\ failures' = CountAfterFailure(c)
  /\ seen' = [seen EXCEPT ![c] = 0]
  /\ Goto(c, "compare")
  /\ UNCHANGED <<mode, state, age, trial, streak, failed>>

Compare(c) ==
  /\ MayRun(c) /\ pc[c] = "compare"
  /\ IF failures >= Threshold THEN Goto(c, "trip") /\ UNCHANGED trial ELSE Over(c)
  /\ UNCHANGED <<mode, state, failures, age, seen, streak, failed>>

Trip(c) ==
  /\ MayRun(c) /\ pc[c] = "trip"
  /\ state' = "open"
  /\ Goto(c, "stamp")
  /\ UNCHANGED <<mode, failures, age, seen, trial, streak, failed>>

\* since = time.monotonic()
Stamp(c) ==
  /\ MayRun(c) /\ pc[c] = "stamp"
  /\ age' = 0
  /\ Over(c)
  /\ UNCHANGED <<mode, state, failures, seen, streak, failed>>

\* A task that is cancelled, or a KeyboardInterrupt, is no Exception: the
\* call leaves without a result.
Cancelled(c) ==
  /\ MayRun(c) /\ pc[c] = "calling"
  /\ Over(c)
  /\ UNCHANGED <<mode, state, failures, age, seen, streak, failed>>

-----------------------------------------------------------------------------
Tick ==
  /\ age <= Recovery
  /\ age' = age + 1
  /\ UNCHANGED <<mode, state, failures, pc, seen, trial, streak, failed>>

Step(c) ==
  \/ CheckCircuit(c) \/ RecoveryElapsed(c) \/ Refused(c) \/ HalfOpen(c)
  \/ Succeeds(c) \/ Close(c)
  \/ Fails(c) \/ Add(c) \/ Compare(c) \/ Trip(c) \/ Stamp(c)
  \/ Cancelled(c)

Next == (\E c \in Callers : Step(c)) \/ Tick

Spec == Init /\ [][Next]_vars

\* The scheduler runs every caller, every provider call ends, a caller that is
\* done calls again, and time passes.
FairSpec == Spec /\ WF_vars(Tick) /\ \A c \in Callers : WF_vars(Step(c))

-----------------------------------------------------------------------------
(* Properties *)

\* Every variable has its type, and the counters stay in their bounds.
TypeOK ==
  /\ mode \in Modes
  /\ state \in {"closed", "open", "half-open"}
  /\ failures \in 0..Threshold /\ age \in 0..(Recovery + 1)
  /\ pc \in [Callers -> Phases] /\ seen \in [Callers -> 0..Threshold]
  /\ trial \in [Callers -> BOOLEAN]
  /\ streak \in 0..Threshold /\ failed \in 0..Threshold

\* However threads tear the updates of the dict apart, the breaker opens only
\* when at least Threshold calls have failed in all (_record_result).
OpensOnFailuresOnly == state = "open" => failed >= Threshold

\* Between asyncio tasks it is off "closed" exactly when the last Threshold
\* results were all failures, whatever order the calls were made in.
OpensOnConsecutiveFailures ==
  mode = "asyncio" /\ (\A c \in Callers : pc[c] \notin Inside)
    => (state # "closed" <=> streak >= Threshold)

\* The breaker never stays open: once callers keep calling, one of them finds
\* the recovery timeout elapsed, though calls admitted before it opened may
\* still fail and restart the timeout (_check_circuit, _record_result).
OpenEnds == state = "open" ~> state # "open"

-----------------------------------------------------------------------------
(* What the documentation says and the code does not do *)

\* ARCHITECTURE.MD:433: half-open: "One trial request allowed".
HalfOpenAllowsOneTrial ==
  state = "half-open" => Cardinality({c \in Callers : pc[c] = "calling" /\ trial[c]}) <= 1
=============================================================================
