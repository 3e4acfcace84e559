---------------------------- MODULE ProviderCall ----------------------------
(***************************************************************************)
(* Calls of one provider from the rate limiter to the answer               *)
(* (tokenledger/core/interceptor.py: TokenBucket, _check_rate_limit,       *)
(* _call_with_retry, and their async twins, which differ in the sleep      *)
(* only).  The circuit breaker around them is CircuitBreaker.              *)
(*                                                                         *)
(* A tick is the time in which a bucket gains one unit, and Token units    *)
(* make a token; a bucket of cap units then has a rate of cap / Token      *)
(* tokens a second, and cap ticks are a second.  The code refills a bucket *)
(* when it is next looked at, the model at every tick: min(rate, tokens +  *)
(* elapsed * rate) is the same number.                                     *)
(*                                                                         *)
(* Operators commented "Mistake" are wrong on purpose and used nowhere.    *)
(***************************************************************************)
EXTENDS Integers, FiniteSets

CONSTANTS
  Callers,     \* threads or tasks that call the provider
  Token,       \* units in a token
  Rates,       \* choices for rate_limit_rps, in units
  MaxRetries,  \* max_retries
  RetryDelay   \* retry_delay, in ticks

ASSUME CallConstants ==
  /\ IsFiniteSet(Callers) /\ "none" \notin Callers
  /\ Token \in Nat \ {0} /\ Rates \subseteq Nat \ {0}
  /\ MaxRetries \in Nat /\ RetryDelay \in Nat

VARIABLES
  cap,        \* rate, and with it the most tokens, of every bucket
  slot,       \* _rate_buckets[provider]: the caller that made it, or "none"
  made,       \* the callers that made a bucket
  tokens,     \* of the bucket each caller made
  pc,         \* what each caller does next
  mine,       \* the bucket a caller found or made
  left,       \* ticks a caller still sleeps
  attempt,    \* retries of its request so far
  delay,      \* delay of its next retry, in ticks
  credit,     \* what the bound below still allows (history)
  allowance   \* what the documented rate still allows (history)

retries == <<attempt, delay>>
callers == <<pc, mine, left, retries>>
history == <<credit, allowance>>
vars == <<cap, slot, made, tokens, callers, history>>

Smaller(a, b) == IF a < b THEN a ELSE b
Goto(c, phase) == pc' = [pc EXCEPT ![c] = phase]

Init ==
  /\ cap \in Rates
  /\ slot = "none" /\ made = {} /\ tokens = [c \in Callers |-> 0]
  /\ pc = [c \in Callers |-> "idle"] /\ mine = [c \in Callers |-> "none"]
  /\ left = [c \in Callers |-> 0] /\ attempt = [c \in Callers |-> 0]
  /\ delay = [c \in Callers |-> RetryDelay]
  /\ credit = Token * Cardinality(Callers) /\ allowance = 2 * cap

-----------------------------------------------------------------------------
(* History: the calls that were let through *)

\* Each bucket is worth a unit a tick, and so is each caller, which may be asleep
\* then; a full bucket is worth its capacity, a caller that slept enough a token.
Bound(buckets) == buckets * cap + Token * Cardinality(Callers)
\* One second's worth of calls a second, and two seconds' worth at once.
LetThrough == /\ credit' = credit - Token
              /\ allowance' = IF allowance < Token THEN -1 ELSE allowance - Token
TimeGoesBy ==
  /\ credit' = Smaller(credit + Cardinality(made) + Cardinality(Callers), Bound(Cardinality(made)))
  /\ allowance' = IF allowance = -1 THEN -1 ELSE Smaller(allowance + 1, 2 * cap)

-----------------------------------------------------------------------------
(* _check_rate_limit, _check_rate_limit_async *)

\* _rate_buckets.get(provider)
FindBucket(c) ==
  /\ pc[c] = "idle"
  /\ mine' = [mine EXCEPT ![c] = slot]
  /\ Goto(c, IF slot = "none" THEN "make" ELSE "consume")
  /\ UNCHANGED <<cap, slot, made, tokens, left, retries, history>>

\* A new bucket is full, and replaces one another caller has made meanwhile.
MakeBucket(c) ==
  /\ pc[c] = "make"
  /\ made' = made \cup {c} /\ tokens' = [tokens EXCEPT ![c] = cap]
  /\ slot' = c /\ mine' = [mine EXCEPT ![c] = c]
  /\ credit' = credit + cap
  /\ Goto(c, "consume")
  /\ UNCHANGED <<cap, left, retries, allowance>>

Has(c) == tokens[mine[c]]
\* Mistake: a caller that has to sleep leaves the part of a token there.
PartKept(c) == Has(c)
\* self.tokens = 0
NothingLeft(c) == 0

\* consume: a whole token is taken, ...
TakeToken(c) ==
  /\ pc[c] = "consume" /\ Has(c) >= Token
  /\ tokens' = [tokens EXCEPT ![mine[c]] = @ - Token]
  /\ Goto(c, "send") /\ LetThrough
  /\ UNCHANGED <<cap, slot, made, mine, left, retries>>

\* ... or the bucket is emptied and the caller sleeps for the part it lacks;
\* what the bucket gains meanwhile is not the sleeper's.
SleepForToken(c) ==
  /\ pc[c] = "consume" /\ Has(c) < Token
  /\ left' = [left EXCEPT ![c] = Token - Has(c)]
  /\ tokens' = [tokens EXCEPT ![mine[c]] = NothingLeft(c)]
  /\ Goto(c, "asleep")
  /\ UNCHANGED <<cap, slot, made, mine, retries, history>>

\* Mistake: the token has to be taken from the bucket after the sleep.
AskAgain(c) ==
  /\ pc[c] = "asleep" /\ left[c] = 0 /\ Goto(c, "consume")
  /\ UNCHANGED <<cap, slot, made, tokens, mine, left, retries, history>>
WakeUp(c) ==
  /\ pc[c] = "asleep" /\ left[c] = 0
  /\ Goto(c, "send") /\ LetThrough
  /\ UNCHANGED <<cap, slot, made, tokens, mine, left, retries>>

-----------------------------------------------------------------------------
(* _call_with_retry, _call_with_retry_async *)

Send(c) ==
  /\ pc[c] = "send" /\ Goto(c, "waits")
  /\ UNCHANGED <<cap, slot, made, tokens, mine, left, retries, history>>

\* The answer, or an error that is not retried, goes back to the application.
Over(c) ==
  /\ Goto(c, "idle") /\ mine' = [mine EXCEPT ![c] = "none"]
  /\ attempt' = [attempt EXCEPT ![c] = 0] /\ delay' = [delay EXCEPT ![c] = RetryDelay]
  /\ UNCHANGED <<cap, slot, made, tokens, left, history>>

Answered(c) == pc[c] = "waits" /\ Over(c)

\* TRANSIENT_EXCEPTIONS, TRANSIENT_STATUS_CODES: sleep, and past the limiter;
\* delay *= 2
FailsTransiently(c) ==
  /\ pc[c] = "waits" /\ attempt[c] < MaxRetries
  /\ left' = [left EXCEPT ![c] = delay[c]]
  /\ delay' = [delay EXCEPT ![c] = 2 * @]
  /\ attempt' = [attempt EXCEPT ![c] = @ + 1]
  /\ Goto(c, "backs off")
  /\ UNCHANGED <<cap, slot, made, tokens, mine, history>>

SendAgain(c) ==
  /\ pc[c] = "backs off" /\ left[c] = 0 /\ Goto(c, "send")
  /\ UNCHANGED <<cap, slot, made, tokens, mine, left, retries, history>>

-----------------------------------------------------------------------------
\* min(rate, tokens + elapsed * rate)
Refilled(b) == Smaller(cap, tokens[b] + 1)

Tick ==
  /\ tokens' = [b \in Callers |-> IF b \in made THEN Refilled(b) ELSE 0]
  /\ left' = [c \in Callers |-> IF left[c] = 0 THEN 0 ELSE left[c] - 1]
  /\ TimeGoesBy
  /\ UNCHANGED <<cap, slot, made, pc, mine, retries>>

GoOn(c) ==
  \/ MakeBucket(c) \/ TakeToken(c) \/ SleepForToken(c) \/ WakeUp(c)
  \/ Send(c) \/ Answered(c) \/ FailsTransiently(c) \/ SendAgain(c)

Next == Tick \/ \E c \in Callers : FindBucket(c) \/ GoOn(c)
Spec == Init /\ [][Next]_vars

\* Callers that have begun run, sleeps end, and the provider answers somehow.
FairSpec == Spec /\ WF_vars(Tick) /\ \A c \in Callers : WF_vars(GoOn(c))

-----------------------------------------------------------------------------
(* Properties *)

\* No bucket exceeds its rate or is overdrawn, whatever buckets are replaced
\* while they are in use; a caller sleeps for a token at most.
TypeOK ==
  /\ cap \in Rates /\ made \subseteq Callers
  /\ slot \in made \cup {"none"} /\ (made # {} => slot # "none")
  /\ tokens \in [Callers -> 0..cap]
  /\ pc \in [Callers -> {"idle", "make", "consume", "asleep", "send", "waits", "backs off"}]
  /\ mine \in [Callers -> made \cup {"none"}] /\ attempt \in [Callers -> 0..MaxRetries]
  /\ left \in [Callers -> Nat] /\ delay \in [Callers -> Nat]
  /\ \A c \in Callers :
       /\ pc[c] \notin {"idle", "make"} => mine[c] # "none"
       /\ pc[c] = "asleep" => left[c] \in 0..Token
       /\ pc[c] \notin {"asleep", "backs off"} => left[c] = 0
  /\ credit \in Int

\* However callers race for the first bucket and however many sleep at once,
\* in no stretch of time are more calls let through than full buckets, their
\* refill, and all callers pay for, each caller as if it slept throughout and never
\* saved up more than a token (TokenBucket.consume, _check_rate_limit).
LimitBounded == credit >= 0

\* Every call comes back to the application: sleepers get their turn although
\* others empty the bucket, and a provider that fails for ever is given up.
CallReturns == \A c \in Callers : pc[c] # "idle" ~> pc[c] = "idle"

-----------------------------------------------------------------------------
(* What the documentation says and the code does not do *)

\* README.md:510: "Max requests per second per provider".  Even with two
\* seconds' worth of calls allowed at once, one caller goes beyond the rate.
RateKept == allowance >= 0
=============================================================================
