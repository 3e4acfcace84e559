-------------------------- MODULE InterceptorProofs --------------------------
(***************************************************************************)
(* Theorems about two parts of the interceptor: CircuitBreaker, for any    *)
(* number of callers, any threshold and any recovery timeout, and          *)
(* ClientWrapping, for any ledgers, wrappers and attributes.               *)
(***************************************************************************)
EXTENDS CircuitBreaker, ClientWrapping, FiniteSetTheorems, TLAPS

-----------------------------------------------------------------------------
(* Types *)

LEMMA OneMoreType ==
  ASSUME NEW n \in 0..Threshold
  PROVE  OneMore(n) \in 0..Threshold
BY BreakerConstants DEF OneMore

LEMMA TypeInit == Init => TypeOK
BY BreakerConstants DEF Init, TypeOK, Phases

LEMMA TypeStep ==
  ASSUME TypeOK, [Next]_vars
  PROVE  TypeOK'
<1> USE BreakerConstants DEF TypeOK, Phases, Inside, Goto
<1>1. ASSUME NEW c \in Callers, CheckCircuit(c)  PROVE TypeOK'
  BY <1>1 DEF CheckCircuit, Admitted
<1>2. ASSUME NEW c \in Callers, RecoveryElapsed(c) \/ Refused(c)  PROVE TypeOK'
  BY <1>2 DEF RecoveryElapsed, Refused
<1>3. ASSUME NEW c \in Callers, HalfOpen(c)  PROVE TypeOK'
  BY <1>3 DEF HalfOpen
<1>4. ASSUME NEW c \in Callers, Succeeds(c)  PROVE TypeOK'
  BY <1>4 DEF Succeeds, CountAfterSuccess
<1>5. ASSUME NEW c \in Callers, Close(c)  PROVE TypeOK'
  BY <1>5 DEF Close, Over
<1>6. ASSUME NEW c \in Callers, Fails(c)  PROVE TypeOK'
  BY <1>6, OneMoreType DEF Fails
<1>7. ASSUME NEW c \in Callers, Add(c)  PROVE TypeOK'
  BY <1>7, OneMoreType DEF Add, CountAfterFailure
<1>8. ASSUME NEW c \in Callers, Compare(c)  PROVE TypeOK'
  BY <1>8 DEF Compare, Over
<1>9. ASSUME NEW c \in Callers, Trip(c)  PROVE TypeOK'
  BY <1>9 DEF Trip
<1>10. ASSUME NEW c \in Callers, Stamp(c)  PROVE TypeOK'
  BY <1>10 DEF Stamp, Over
<1>11. ASSUME NEW c \in Callers, Cancelled(c)  PROVE TypeOK'
  BY <1>11 DEF Cancelled, Over
<1>12. CASE Tick
  BY <1>12 DEF Tick
<1>13. CASE UNCHANGED vars
  BY <1>13 DEF vars
<1> QED
  BY <1>1, <1>2, <1>3, <1>4, <1>5, <1>6, <1>7, <1>8, <1>9, <1>10, <1>11, <1>12, <1>13
  DEF Next, Step

\* Every variable always has its type (TypeOK).
THEOREM BreakerTypeCorrect == Spec => []TypeOK
<1>1. TypeOK /\ [Next]_vars => TypeOK'
  BY TypeStep
<1> QED BY TypeInit, <1>1, PTL DEF Spec

-----------------------------------------------------------------------------
(* Threads.  The count itself is no reliable record of the failures, for   *)
(* updates get lost and stale values come back.  But it never exceeds the  *)
(* failures there were, and a value that has been loaded leaves room for   *)
(* the one its failure is about to add.                                    *)

FailureInv ==
  /\ TypeOK
  /\ failures <= failed
  /\ \A c \in Callers : pc[c] = "add" => OneMore(seen[c]) <= failed
  /\ \A c \in Callers : pc[c] = "trip" => failed >= Threshold
  /\ OpensOnFailuresOnly

LEMMA FailureStep == FailureInv /\ [Next]_vars => FailureInv'
<1> SUFFICES ASSUME FailureInv, [Next]_vars PROVE FailureInv'
  OBVIOUS
<1>0. TypeOK /\ TypeOK'
  BY TypeStep DEF FailureInv
<1> USE BreakerConstants, <1>0 DEF FailureInv, OpensOnFailuresOnly, TypeOK, Goto
<1>1. ASSUME NEW c \in Callers, CheckCircuit(c)  PROVE FailureInv'
  BY <1>1 DEF CheckCircuit, Admitted
<1>2. ASSUME NEW c \in Callers, RecoveryElapsed(c) \/ Refused(c)  PROVE FailureInv'
  BY <1>2 DEF RecoveryElapsed, Refused
<1>3. ASSUME NEW c \in Callers, HalfOpen(c)  PROVE FailureInv'
  BY <1>3 DEF HalfOpen
<1>4. ASSUME NEW c \in Callers, Succeeds(c)  PROVE FailureInv'
  BY <1>4 DEF Succeeds, CountAfterSuccess
<1>5. ASSUME NEW c \in Callers, Close(c)  PROVE FailureInv'
  BY <1>5 DEF Close, Over
<1>6. ASSUME NEW c \in Callers, Fails(c)  PROVE FailureInv'
  <2>1. failed <= failed' /\ OneMore(failures) <= failed'
    BY <1>6 DEF Fails, OneMore
  <2>2. \A d \in Callers : pc'[d] = "add" => OneMore(seen'[d]) <= failed'
    <3> SUFFICES ASSUME NEW d \in Callers, pc'[d] = "add" PROVE OneMore(seen'[d]) <= failed'
      OBVIOUS
    <3>1. CASE d = c
      BY <1>6, <2>1, <3>1 DEF Fails
    <3>2. CASE d # c
      <4>1. pc[d] = "add" /\ seen'[d] = seen[d]
        BY <1>6, <3>2 DEF Fails
      <4> QED BY <2>1, <4>1 DEF OneMore
    <3> QED BY <3>1, <3>2
  <2>3. \A d \in Callers : pc'[d] = "trip" => pc[d] = "trip"
    BY <1>6 DEF Fails
  <2> QED BY <1>6, <2>1, <2>2, <2>3 DEF Fails
<1>7. ASSUME NEW c \in Callers, Add(c)  PROVE FailureInv'
  <2>1. failures' <= failed'
    BY <1>7 DEF Add, CountAfterFailure
  <2>2. \A d \in Callers : pc'[d] = "add" => pc[d] = "add" /\ seen'[d] = seen[d]
    BY <1>7 DEF Add
  <2>3. \A d \in Callers : pc'[d] = "trip" => pc[d] = "trip"
    BY <1>7 DEF Add
  <2> QED BY <1>7, <2>1, <2>2, <2>3 DEF Add
<1>8. ASSUME NEW c \in Callers, Compare(c)  PROVE FailureInv'
  BY <1>8 DEF Compare, Over
<1>9. ASSUME NEW c \in Callers, Trip(c)  PROVE FailureInv'
  BY <1>9 DEF Trip
<1>10. ASSUME NEW c \in Callers, Stamp(c)  PROVE FailureInv'
  BY <1>10 DEF Stamp, Over
<1>11. ASSUME NEW c \in Callers, Cancelled(c)  PROVE FailureInv'
  BY <1>11 DEF Cancelled, Over
<1>12. CASE Tick
  BY <1>12 DEF Tick
<1>13. CASE UNCHANGED vars
  BY <1>13 DEF vars
<1> QED
  BY <1>1, <1>2, <1>3, <1>4, <1>5, <1>6, <1>7, <1>8, <1>9, <1>10, <1>11, <1>12, <1>13
  DEF Next, Step

\* No interleaving of threads opens the breaker on fewer failures than its
\* threshold (OpensOnFailuresOnly).
THEOREM TripNeedsFailures == Spec => []OpensOnFailuresOnly
<1>1. Init => FailureInv
  BY TypeInit, BreakerConstants DEF Init, FailureInv, OpensOnFailuresOnly
<1>2. FailureInv => OpensOnFailuresOnly
  BY DEF FailureInv
<1> QED BY <1>1, <1>2, FailureStep, PTL DEF Spec

-----------------------------------------------------------------------------
(* Tasks.  At most one task is inside a method.  Between methods the count *)
(* is the streak, and the breaker is off "closed" exactly when it has      *)
(* reached the threshold (Settled); inside a method each step leaves the   *)
(* part of that which the steps still to come restore (Midway).            *)

Settled == failures = streak /\ (state # "closed" <=> failures >= Threshold)

Midway(c) ==
  /\ pc[c] \in {"elapsed", "halve", "stamp"} => Settled /\ state # "closed"
  /\ pc[c] = "close" => failures = 0 /\ streak = 0
  /\ pc[c] = "add" => /\ seen[c] = failures /\ streak = OneMore(failures)
                      /\ (state # "closed" => failures >= Threshold)
  /\ pc[c] = "compare" => failures = streak /\ (state # "closed" => failures >= Threshold)
  /\ pc[c] = "trip" => failures = streak /\ failures >= Threshold

TaskInv ==
  mode = "asyncio" =>
    /\ \A c, d \in Callers : pc[c] \in Inside /\ pc[d] \in Inside => c = d
    /\ (\A c \in Callers : pc[c] \notin Inside) => Settled
    /\ \A c \in Callers : Midway(c)

\* What a task finds when it runs, and what it has to leave behind.
LEMMA TaskRuns ==
  ASSUME mode = "asyncio", TaskInv, NEW c \in Callers, MayRun(c)
  PROVE  /\ pc[c] \notin Inside => Settled
         /\ Midway(c)
BY DEF TaskInv, MayRun

LEMMA TaskLeaves ==
  ASSUME mode = "asyncio", NEW c \in Callers, MayRun(c),
         \A d \in Callers \ {c} : pc'[d] = pc[d],
         Midway(c)', pc'[c] \notin Inside => Settled'
  PROVE  TaskInv'
<1>1. \A d \in Callers \ {c} : pc'[d] \notin Inside
  BY DEF MayRun
<1>2. \A d \in Callers : Midway(d)'
  BY <1>1 DEF Midway, Inside
<1> QED BY <1>1, <1>2 DEF TaskInv

LEMMA TaskStep == TypeOK /\ TaskInv /\ [Next]_vars => TaskInv'
<1> SUFFICES ASSUME TypeOK, TaskInv, [Next]_vars, mode' = "asyncio" PROVE TaskInv'
  BY DEF TaskInv
<1> DEFINE Moved(c) == MayRun(c) /\ \A d \in Callers \ {c} : pc'[d] = pc[d]
           Regained(c) == Midway(c)' /\ (pc'[c] \notin Inside => Settled')
<1>0. mode = "asyncio"
  BY DEF Next, Step, vars, CheckCircuit, RecoveryElapsed, Refused, HalfOpen, Succeeds, Close,
    Fails, Add, Compare, Trip, Stamp, Cancelled, Tick
<1>a. ASSUME NEW c \in Callers, Moved(c), Regained(c)  PROVE TaskInv'
  BY <1>0, <1>a, TaskLeaves
<1>b. ASSUME NEW c \in Callers, MayRun(c)
      PROVE  (pc[c] \notin Inside => Settled) /\ Midway(c)
  BY <1>0, <1>b, TaskRuns
<1>m. ASSUME NEW c \in Callers, Step(c)  PROVE Moved(c)
  BY <1>m DEF TypeOK, Goto, Step, CheckCircuit, Admitted, RecoveryElapsed, Refused, HalfOpen,
    Succeeds, Close, Fails, Add, Compare, Trip, Stamp, Cancelled, Over
<1> HIDE DEF Moved
<1> USE BreakerConstants DEF TypeOK, Goto, Inside, Settled, Midway
<1>1. ASSUME NEW c \in Callers, CheckCircuit(c)  PROVE Regained(c)
  BY <1>1, <1>b DEF CheckCircuit, Admitted
<1>2. ASSUME NEW c \in Callers, RecoveryElapsed(c) \/ Refused(c)  PROVE Regained(c)
  BY <1>2, <1>b DEF RecoveryElapsed, Refused
<1>3. ASSUME NEW c \in Callers, HalfOpen(c)  PROVE Regained(c)
  BY <1>3, <1>b DEF HalfOpen
<1>4. ASSUME NEW c \in Callers, Succeeds(c)  PROVE Regained(c)
  BY <1>4, <1>b DEF Succeeds, CountAfterSuccess
<1>5. ASSUME NEW c \in Callers, Close(c)  PROVE Regained(c)
  BY <1>5, <1>b DEF Close, Over
<1>6. ASSUME NEW c \in Callers, Fails(c)  PROVE Regained(c)
  BY <1>6, <1>b DEF Fails, OneMore
<1>7. ASSUME NEW c \in Callers, Add(c)  PROVE Regained(c)
  BY <1>7, <1>b DEF Add, CountAfterFailure, OneMore
<1>8. ASSUME NEW c \in Callers, Compare(c)  PROVE Regained(c)
  BY <1>8, <1>b DEF Compare, Over
<1>9. ASSUME NEW c \in Callers, Trip(c)  PROVE Regained(c)
  BY <1>9, <1>b DEF Trip
<1>10. ASSUME NEW c \in Callers, Stamp(c)  PROVE Regained(c)
  BY <1>10, <1>b DEF Stamp, Over
<1>11. ASSUME NEW c \in Callers, Cancelled(c)  PROVE Regained(c)
  BY <1>11, <1>b DEF Cancelled, Over
<1>12. CASE Tick
  BY <1>12 DEF Tick, TaskInv
<1>13. CASE UNCHANGED vars
  BY <1>13 DEF vars, TaskInv
<1> HIDE DEF Regained
<1> QED
  BY <1>a, <1>m, <1>1, <1>2, <1>3, <1>4, <1>5, <1>6, <1>7, <1>8, <1>9, <1>10, <1>11, <1>12,
     <1>13 DEF Next, Step

\* Among tasks the breaker is off "closed" exactly when the last Threshold
\* results were failures (OpensOnConsecutiveFailures).
THEOREM TripNeedsStreak == Spec => []OpensOnConsecutiveFailures
<1>1. Init => TypeOK /\ TaskInv
  BY TypeInit, BreakerConstants DEF Init, TaskInv, Midway, Settled, Inside
<1>2. TypeOK /\ TaskInv /\ [Next]_vars => (TypeOK /\ TaskInv)'
  BY TypeStep, TaskStep
<1>3. TaskInv => OpensOnConsecutiveFailures
  BY DEF TaskInv, OpensOnConsecutiveFailures, Settled
<1> QED BY <1>1, <1>2, <1>3, PTL DEF Spec

-----------------------------------------------------------------------------
(* Client wrapping.  A tracked function that is put around others leaves   *)
(* them as they were, and one that is taken off the outside leaves what    *)
(* was there before.                                                       *)

Chain == Seq(Ledgers \cup {"property"})
Once(s) == \A i, j \in DOMAIN s : s[i] = s[j] => i = j
\* In chain s, ledger l's function calls chain t.
Behind(s, l, t) ==
  \E n \in DOMAIN s :
    s[n] = l /\ Len(t) = Len(s) - n /\ \A m \in DOMAIN t : t[m] = s[n + m]

LEMMA Outermost ==
  ASSUME NEW s \in Chain, NEW l \in Ledgers, l \notin ToSet(s)
  PROVE  /\ <<l>> \o s \in Chain
         /\ ToSet(<<l>> \o s) = ToSet(s) \cup {l}
         /\ Once(s) => Once(<<l>> \o s)
         /\ Behind(<<l>> \o s, l, s)
         /\ \A k : \A t \in Chain : Behind(s, k, t) => Behind(<<l>> \o s, k, t)
<1> DEFINE r == <<l>> \o s
<1>1. s \in Seq(Ledgers \cup {"property"})
  BY DEF Chain
<1>2. Len(s) \in Nat /\ DOMAIN s = 1..Len(s)
  BY <1>1
<1>3. /\ r \in Seq(Ledgers \cup {"property"}) /\ Len(r) = Len(s) + 1 /\ DOMAIN r = 1..(Len(s) + 1)
      /\ r[1] = l /\ \A i \in 1..Len(s) : r[i + 1] = s[i]
  BY <1>1
<1>4. \A i \in DOMAIN r : i # 1 => i - 1 \in DOMAIN s /\ r[i] = s[i - 1]
  BY <1>2, <1>3
<1> HIDE DEF r
<1>5. ToSet(r) = ToSet(s) \cup {l}
  <2>1. \A x \in ToSet(r) : x \in ToSet(s) \cup {l}
    BY <1>3, <1>4 DEF ToSet
  <2>2. \A x \in ToSet(s) : x \in ToSet(r)
    <3>1. \A i \in DOMAIN s : i + 1 \in DOMAIN r /\ r[i + 1] = s[i]
      BY <1>2, <1>3
    <3> QED
      BY <3>1 DEF ToSet
  <2>3. l \in ToSet(r)
    <3>1. 1 \in DOMAIN r
      BY <1>2, <1>3
    <3> QED
      BY <1>3, <3>1 DEF ToSet
  <2> QED
    BY <2>1, <2>2, <2>3
<1>6. ASSUME Once(s) PROVE Once(r)
  <2> SUFFICES ASSUME NEW i \in DOMAIN r, NEW j \in DOMAIN r, r[i] = r[j] PROVE i = j
    BY DEF Once
  <2>1. \A m \in DOMAIN s : s[m] # l
    BY DEF ToSet
  <2>2. i = 1 <=> j = 1
    BY <1>3, <1>4, <2>1
  <2>3. i # 1 => i - 1 = j - 1
    BY <1>4, <1>6, <2>2 DEF Once
  <2> QED
    BY <1>2, <1>3, <2>2, <2>3
<1>7. Behind(r, l, s)
  <2>1. 1 \in DOMAIN r /\ Len(s) = Len(r) - 1 /\ \A m \in DOMAIN s : s[m] = r[1 + m]
    BY <1>2, <1>3
  <2> QED
    BY <1>3, <2>1 DEF Behind
<1>8. ASSUME NEW k, NEW t \in Chain, Behind(s, k, t) PROVE Behind(r, k, t)
  <2>1. PICK n \in DOMAIN s :
          s[n] = k /\ Len(t) = Len(s) - n /\ \A m \in DOMAIN t : t[m] = s[n + m]
    BY <1>8 DEF Behind
  <2>2. n + 1 \in DOMAIN r /\ r[n + 1] = k /\ Len(t) = Len(r) - (n + 1)
    BY <1>2, <1>3, <2>1
  <2>3. ASSUME NEW m \in DOMAIN t PROVE t[m] = r[(n + 1) + m]
    <3>1. t \in Seq(Ledgers \cup {"property"})
      BY DEF Chain
    <3>2. n \in Int /\ m \in Int /\ n + m \in 1..Len(s)
      BY <1>2, <2>1, <3>1
    <3>3. r[(n + m) + 1] = s[n + m] /\ (n + m) + 1 = (n + 1) + m
      BY <1>3, <3>2
    <3> QED
      BY <2>1, <3>3
  <2> QED
    BY <2>2, <2>3 DEF Behind
<1> QED
  BY <1>3, <1>5, <1>6, <1>7, <1>8 DEF r, Chain

LEMMA OutermostGone ==
  ASSUME NEW s \in Chain, NEW t \in Chain, NEW l, Once(s), Behind(s, l, t), Head(s) = l
  PROVE  /\ ToSet(t) = ToSet(s) \ {l} /\ Once(t)
         /\ \A k : \A u \in Chain : k # l /\ Behind(s, k, u) => Behind(t, k, u)
<1>1. s \in Seq(Ledgers \cup {"property"}) /\ t \in Seq(Ledgers \cup {"property"})
  BY DEF Chain
<1>2. /\ Len(s) \in Nat /\ DOMAIN s = 1..Len(s)
      /\ Len(t) \in Nat /\ DOMAIN t = 1..Len(t)
  BY <1>1
<1>3. PICK n \in DOMAIN s : s[n] = l /\ Len(t) = Len(s) - n /\ \A m \in DOMAIN t : t[m] = s[n + m]
  BY DEF Behind
<1>4. s[1] = l /\ 1 \in DOMAIN s
  BY <1>1, <1>2, <1>3
<1>5. n = 1
  BY <1>3, <1>4 DEF Once
<1>6. Len(t) = Len(s) - 1 /\ \A m \in DOMAIN t : m + 1 \in DOMAIN s /\ t[m] = s[m + 1]
  BY <1>2, <1>3, <1>5
<1>7. \A i \in DOMAIN s : i # 1 => i - 1 \in DOMAIN t /\ t[i - 1] = s[i]
  BY <1>2, <1>6
<1>8. \A i \in DOMAIN s : s[i] = l => i = 1
  BY <1>4 DEF Once
<1>9. ToSet(t) = ToSet(s) \ {l}
  <2>1. ASSUME NEW m \in DOMAIN t PROVE t[m] \in ToSet(s) /\ t[m] # l
    <3>1. m + 1 \in DOMAIN s /\ t[m] = s[m + 1] /\ m + 1 # 1
      BY <1>2, <1>6
    <3> QED
      BY <1>8, <3>1 DEF ToSet
  <2>2. ASSUME NEW i \in DOMAIN s, s[i] # l PROVE s[i] \in ToSet(t)
    BY <1>4, <1>7, <2>2 DEF ToSet
  <2> QED
    BY <2>1, <2>2 DEF ToSet
<1>10. Once(t)
  <2> SUFFICES ASSUME NEW i \in DOMAIN t, NEW j \in DOMAIN t, t[i] = t[j] PROVE i = j
    BY DEF Once
  <2>1. i + 1 = j + 1
    BY <1>6 DEF Once
  <2> QED
    BY <1>2, <2>1
<1>11. ASSUME NEW k, NEW u \in Chain, k # l, Behind(s, k, u) PROVE Behind(t, k, u)
  <2>1. PICK i \in DOMAIN s :
          s[i] = k /\ Len(u) = Len(s) - i /\ \A m \in DOMAIN u : u[m] = s[i + m]
    BY <1>11 DEF Behind
  <2>2. i # 1 /\ i - 1 \in DOMAIN t /\ t[i - 1] = k
    BY <1>4, <1>7, <1>11, <2>1
  <2>3. Len(u) = Len(t) - (i - 1)
    BY <1>2, <1>6, <2>1
  <2>4. ASSUME NEW m \in DOMAIN u PROVE u[m] = t[(i - 1) + m]
    <3>1. u \in Seq(Ledgers \cup {"property"})
      BY DEF Chain
    <3>2. i \in Int /\ m \in Int /\ i + m \in DOMAIN s /\ i + m # 1
      BY <1>2, <2>1, <3>1
    <3>3. t[(i + m) - 1] = s[i + m] /\ (i + m) - 1 = (i - 1) + m
      BY <1>7, <3>2
    <3> QED
      BY <2>1, <3>3
  <2> QED
    BY <2>2, <2>3, <2>4 DEF Behind
<1> QED
  BY <1>9, <1>10, <1>11

LEMMA OnceCounted ==
  ASSUME NEW s \in Chain, Once(s)
  PROVE  Len(s) = Cardinality(ToSet(s))
<1>1. Len(s) \in Nat /\ DOMAIN s = 1..Len(s) /\ s \in [1..Len(s) -> ToSet(s)]
  BY DEF Chain, ToSet
<1>2. s \in Surjection(1..Len(s), ToSet(s)) /\ s \in Injection(1..Len(s), ToSet(s))
  <2>1. \A i, j \in 1..Len(s) : s[i] = s[j] => i = j
    BY <1>1 DEF Once
  <2>2. \A x \in ToSet(s) : \E i \in 1..Len(s) : s[i] = x
    BY <1>1 DEF ToSet
  <2> HIDE DEF ToSet
  <2>3. s \in Surjection(1..Len(s), ToSet(s))
    BY <1>1, <2>2 DEF Surjection
  <2>4. s \in Injection(1..Len(s), ToSet(s))
    BY <1>1, <2>1 DEF Injection, IsInjective
  <2> QED
    BY <2>3, <2>4
<1>3. IsFiniteSet(1..Len(s)) /\ Cardinality(1..Len(s)) = Len(s)
  <2>1. 1 \in Int /\ Len(s) \in Int
    BY <1>1
  <2>2. /\ IsFiniteSet(1..Len(s))
        /\ Cardinality(1..Len(s)) = IF 1 > Len(s) THEN 0 ELSE Len(s) - 1 + 1
    BY <2>1, FS_Interval
  <2> QED
    BY <1>1, <2>2
<1> QED
  BY <1>2, <1>3, FS_Surjection

Entries == [path : Paths, of : Nat, was : Chain]

WrapTypeOK ==
  /\ held \in [Paths -> Chain] /\ saved \in [Ledgers -> Seq(Entries)]
  /\ client \in Nat /\ orderly \in BOOLEAN

\* A layer has saved each path at most once, for this client or one before.
Kept(l) ==
  /\ \A e, f \in ToSet(saved[l]) : e.path = f.path => e = f
  /\ \A e \in ToSet(saved[l]) : e.of <= client

\* Around a method are the functions of the ledgers that have it wrapped, each
\* once, and what a ledger has saved is what its function calls.
Nested(p) ==
  /\ ToSet(held[p]) = {l \in Ledgers : Tracking(l, p)}
  /\ Once(held[p])
  /\ \A l \in Ledgers : \A e \in ToSet(saved[l]) :
       e.path = p /\ e.of = client => Behind(held[p], l, e.was)

Plain == {p \in Paths : Kind[p] = "plain"}
WrapInv ==
  WrapTypeOK /\ (\A l \in Ledgers : Kept(l)) /\ (orderly => \A p \in Plain : Nested(p))

LEMMA WrapInvInit == WrapInit => WrapInv
<1> SUFFICES ASSUME WrapInit PROVE WrapInv
  OBVIOUS
<1>1. WrapTypeOK
  BY DEF WrapInit, WrapTypeOK, Chain
<1>2. \A l \in Ledgers : ToSet(saved[l]) = {}
  BY DEF WrapInit, ToSet
<1>3. \A p \in Paths : ToSet(held[p]) = {} /\ Once(held[p])
  BY DEF WrapInit, ToSet, Once
<1> QED
  BY <1>1, <1>2, <1>3 DEF WrapInv, Kept, Nested, Tracking, Plain

LEMMA WrapInvImplies == WrapInv => TrackedByWrappers
<1> SUFFICES ASSUME WrapInv, orderly, NEW p \in Paths, Kind[p] = "plain"
             PROVE  /\ ToSet(held[p]) = {l \in Ledgers : Tracking(l, p)}
                    /\ Len(held[p]) = Cardinality(ToSet(held[p]))
  BY DEF TrackedByWrappers
<1>1. Nested(p) /\ held[p] \in Chain
  BY DEF WrapInv, WrapTypeOK, Plain
<1> QED
  BY <1>1, OnceCounted DEF Nested

LEMMA SeqOfAppended ==
  ASSUME NEW s \in Seq(Entries), NEW t \in Seq(Entries)
  PROVE  s \o t \in Seq(Entries) /\ ToSet(s \o t) = ToSet(s) \cup ToSet(t)
<1> DEFINE r == s \o t
<1>1. /\ Len(s) \in Nat /\ DOMAIN s = 1..Len(s) /\ Len(t) \in Nat /\ DOMAIN t = 1..Len(t)
      /\ r \in Seq(Entries) /\ DOMAIN r = 1..(Len(s) + Len(t))
      /\ \A i \in DOMAIN s : r[i] = s[i]
      /\ \A i \in DOMAIN t : r[Len(s) + i] = t[i]
  OBVIOUS
<1>2. \A i \in DOMAIN r : i \notin DOMAIN s => i - Len(s) \in DOMAIN t /\ r[i] = t[i - Len(s)]
  BY <1>1
<1> HIDE DEF r
<1>3. \A x \in ToSet(r) : x \in ToSet(s) \cup ToSet(t)
  BY <1>1, <1>2 DEF ToSet
<1>4. \A x \in ToSet(s) : x \in ToSet(r)
  <2>1. DOMAIN s \subseteq DOMAIN r
    BY <1>1
  <2> QED
    BY <1>1, <2>1 DEF ToSet
<1>5. \A x \in ToSet(t) : x \in ToSet(r)
  <2>1. \A i \in DOMAIN t : Len(s) + i \in DOMAIN r
    BY <1>1
  <2> QED
    BY <1>1, <2>1 DEF ToSet
<1>6. ToSet(r) = ToSet(s) \cup ToSet(t)
  BY <1>3, <1>4, <1>5
<1> QED
  BY <1>1, <1>6 DEF r

\* A wrapper saves an entry for each new path.
LEMMA WrapSaves ==
  ASSUME WrapTypeOK, NEW l \in Ledgers, NEW w \in Wrappers, Wrap(l, w)
  PROVE  LET paths == {w[i] : i \in New(l, w)} IN
         /\ saved' \in [Ledgers -> Seq(Entries)] /\ paths \subseteq Paths
         /\ ToSet(saved'[l]) = ToSet(saved[l]) \cup {Entry(p) : p \in paths}
         /\ \A k \in Ledgers \ {l} : saved'[k] = saved[k]
         /\ paths \cap SavedPaths(l) = {}
<1> DEFINE I == New(l, w)
           paths == {w[i] : i \in I}
<1>1. w \in Seq(Paths) /\ Kind \in [Paths -> {"plain", "missing", "frozen", "managed"}]
  BY WrappingConstants
<1>2. Len(w) \in Nat /\ DOMAIN w = 1..Len(w) /\ \A i \in DOMAIN w : w[i] \in Paths
  BY <1>1
<1>3. I \in SUBSET DOMAIN w /\ \A i \in I : w[i] \notin SavedPaths(l)
  BY DEF New, Tried
<1>4. IsFiniteSet(I) /\ Cardinality(I) \in Nat
  <2>1. 1 \in Int /\ Len(w) \in Int
    BY <1>2
  <2>2. IsFiniteSet(DOMAIN w)
    BY <1>2, <2>1, FS_Interval
  <2> QED
    BY <1>3, <2>2, FS_Subset, FS_CardinalityType
<1>5. \A p \in Paths : Entry(p) \in Entries
  <2>1. Descriptor \in Chain
    BY DEF Descriptor, Chain
  <2> QED
    BY <2>1 DEF Entry, Entries, Original, WrapTypeOK
<1> HIDE DEF I
<1>6. PICK at \in Ascending(I) :
        saved' = [saved EXCEPT ![l] = @ \o [i \in DOMAIN at |-> Entry(w[at[i]])]]
  BY DEF Wrap, I
<1>7. at \in [1..Cardinality(I) -> I] /\ DOMAIN at = 1..Cardinality(I)
  BY <1>6 DEF Ascending
<1>8. \A i \in I : \E n \in DOMAIN at : at[n] = i
  <2>1. at \in Injection(1..Cardinality(I), I)
    <3>1. \A i, j \in DOMAIN at : i < j => at[i] # at[j]
      <4>1. \A i, j \in DOMAIN at : i < j => at[i] < at[j]
        BY <1>6 DEF Ascending
      <4>2. \A i \in DOMAIN at : at[i] \in Int
        BY <1>2, <1>3, <1>7
      <4> QED
        BY <4>1, <4>2
    <3>2. \A i \in DOMAIN at : i \in Int
      BY <1>7
    <3>3. IsInjective(at)
      BY <3>1, <3>2 DEF IsInjective
    <3> QED
      BY <1>7, <3>3 DEF Injection
  <2>2. Cardinality(1..Cardinality(I)) = Cardinality(I)
    <3> DEFINE c == Cardinality(I)
    <3>1. c \in Nat /\ 1 \in Int /\ c \in Int
      BY <1>4
    <3> HIDE DEF c
    <3>2. Cardinality(1..c) = IF 1 > c THEN 0 ELSE c - 1 + 1
      BY <3>1, FS_Interval
    <3>3. Cardinality(1..c) = c
      BY <3>1, <3>2
    <3> QED
      BY <3>3 DEF c
  <2>3. at \in Surjection(1..Cardinality(I), I)
    BY <1>4, <2>1, <2>2, FS_Injection
  <2> QED
    BY <1>7, <2>3 DEF Surjection
<1> DEFINE added == [i \in DOMAIN at |-> Entry(w[at[i]])]
<1>9. added \in Seq(Entries)
  <2>1. \A i \in DOMAIN at : Entry(w[at[i]]) \in Entries
    BY <1>2, <1>3, <1>5, <1>7
  <2>2. added \in [1..Cardinality(I) -> Entries]
    BY <1>7, <2>1
  <2> QED
    BY <1>4, <2>2
<1>10. ToSet(added) = {Entry(p) : p \in paths}
  <2>1. ToSet(added) = {Entry(w[at[n]]) : n \in DOMAIN at}
    BY DEF ToSet
  <2>2. {Entry(w[at[n]]) : n \in DOMAIN at} = {Entry(w[i]) : i \in I}
    BY <1>7, <1>8
  <2> QED
    BY <2>1, <2>2
<1> HIDE DEF added
<1>11. saved' = [saved EXCEPT ![l] = saved[l] \o added]
  BY <1>6 DEF added
<1>12. saved \in [Ledgers -> Seq(Entries)] /\ saved[l] \in Seq(Entries)
  BY DEF WrapTypeOK
<1>13. saved[l] \o added \in Seq(Entries) /\ ToSet(saved[l] \o added) = ToSet(saved[l]) \cup ToSet(added)
  BY <1>9, <1>12, SeqOfAppended
<1>14. saved' \in [Ledgers -> Seq(Entries)]
  BY <1>11, <1>12, <1>13
<1>15. saved'[l] = saved[l] \o added /\ \A k \in Ledgers \ {l} : saved'[k] = saved[k]
  BY <1>11, <1>12
<1>16. ToSet(saved'[l]) = ToSet(saved[l]) \cup {Entry(p) : p \in paths}
  BY <1>10, <1>13, <1>15
<1>17. paths \subseteq Paths /\ paths \cap SavedPaths(l) = {}
  BY <1>2, <1>3
<1>18. {w[i] : i \in New(l, w)} = paths
  BY DEF I
<1> HIDE DEF paths
<1> QED
  BY <1>14, <1>15, <1>16, <1>17, <1>18

LEMMA WrapStep ==
  ASSUME WrapInv, NEW l \in Ledgers, NEW w \in Wrappers, Wrap(l, w)
  PROVE  WrapInv'
<1> DEFINE paths == {w[i] : i \in New(l, w)}
           added == {Entry(p) : p \in paths}
<1>1. WrapTypeOK
  BY DEF WrapInv
<1>2. /\ saved' \in [Ledgers -> Seq(Entries)] /\ paths \subseteq Paths
      /\ ToSet(saved'[l]) = ToSet(saved[l]) \cup added
      /\ \A k \in Ledgers \ {l} : saved'[k] = saved[k]
      /\ paths \cap SavedPaths(l) = {}
  BY <1>1, WrapSaves
<1>3. \A e \in added : e.path \in paths /\ e.of = client /\ e.was = Original(e.path)
  BY DEF Entry
<1>4. \A e, f \in added : e.path = f.path => e = f
  <2>1. ASSUME NEW e \in added PROVE e = Entry(e.path)
    <3>1. PICK p \in paths : e = Entry(p)
      OBVIOUS
    <3>2. Entry(p).path = p
      BY DEF Entry
    <3> QED
      BY <3>1, <3>2
  <2> QED
    BY <2>1
<1>5. \A e \in ToSet(saved[l]) : e.path \notin paths
  BY <1>2 DEF SavedPaths
<1>6. /\ client' = client /\ orderly' = orderly
      /\ held' = [p \in Paths |->
                    IF p \in paths /\ Kind[p] # "frozen" THEN <<l>> \o held[p] ELSE held[p]]
  BY DEF Wrap
<1>7. \A p \in paths : \E e \in added : e.path = p
  <2>1. \A p \in paths : Entry(p).path = p
    BY DEF Entry
  <2>2. \A p \in paths : Entry(p) \in added
    OBVIOUS
  <2> HIDE DEF added
  <2> QED
    BY <2>1, <2>2
<1> HIDE DEF paths, added
<1>8. WrapTypeOK'
  <2>1. \A p \in Paths : held[p] \in Chain /\ <<l>> \o held[p] \in Chain
    <3>1. \A p \in Paths : held[p] \in Seq(Ledgers \cup {"property"})
      BY <1>1 DEF WrapTypeOK, Chain
    <3>2. <<l>> \in Seq(Ledgers \cup {"property"})
      OBVIOUS
    <3> QED
      BY <3>1, <3>2 DEF Chain
  <2>2. held' \in [Paths -> Chain]
    BY <1>6, <2>1
  <2> QED
    BY <1>1, <1>2, <1>6, <2>2 DEF WrapTypeOK
<1>9. ASSUME NEW k \in Ledgers PROVE Kept(k)'
  <2>1. Kept(k)
    BY DEF WrapInv
  <2>2. client <= client
    BY <1>1 DEF WrapTypeOK
  <2>3. CASE k = l
    BY <1>2, <1>3, <1>4, <1>5, <1>6, <2>1, <2>2, <2>3 DEF Kept
  <2>4. CASE k # l
    BY <1>2, <1>6, <2>1, <2>4 DEF Kept
  <2> QED
    BY <2>3, <2>4
<1>10. ASSUME orderly', NEW p \in Plain PROVE Nested(p)'
  <2>1. Nested(p) /\ held[p] \in Chain /\ p \in Paths /\ Kind[p] = "plain"
    BY <1>1, <1>6, <1>10 DEF WrapInv, WrapTypeOK, Plain
  <2>2. \A k \in Ledgers \ {l} : Tracking(k, p)' <=> Tracking(k, p)
    BY <1>2, <1>6 DEF Tracking
  <2>3. CASE p \in paths
    <3>1. ~Tracking(l, p)
      BY <1>5, <2>3 DEF Tracking
    <3>2. l \notin ToSet(held[p])
      BY <2>1, <3>1 DEF Nested
    <3>3. held'[p] = <<l>> \o held[p]
      BY <1>6, <2>1, <2>3
    <3>4. /\ ToSet(held'[p]) = ToSet(held[p]) \cup {l} /\ Once(held'[p])
          /\ Behind(held'[p], l, held[p])
          /\ \A k : \A t \in Chain : Behind(held[p], k, t) => Behind(held'[p], k, t)
      BY <2>1, <3>2, <3>3, Outermost DEF Nested
    <3>5. Tracking(l, p)'
      BY <1>2, <1>3, <1>6, <1>7, <2>3 DEF Tracking
    <3>6. ToSet(held'[p]) = {k \in Ledgers : Tracking(k, p)'}
      BY <2>1, <2>2, <3>4, <3>5 DEF Nested
    <3>7. ASSUME NEW k \in Ledgers, NEW e \in ToSet(saved'[k]), e.path = p, e.of = client
          PROVE  Behind(held'[p], k, e.was)
      <4>1. CASE k = l
        <5>1. e \in added
          BY <1>2, <1>5, <2>3, <3>7, <4>1
        <5>2. e.was = held[p]
          BY <1>3, <2>1, <3>7, <5>1 DEF Original
        <5> QED
          BY <3>4, <4>1, <5>2
      <4>2. CASE k # l
        <5>1. e \in ToSet(saved[k])
          BY <1>2, <3>7, <4>2
        <5>2. e.was \in Chain
          <6>1. saved[k] \in Seq(Entries)
            BY <1>1 DEF WrapTypeOK
          <6>2. e \in Entries
            BY <5>1, <6>1 DEF ToSet
          <6> QED
            BY <6>2 DEF Entries
        <5>3. Behind(held[p], k, e.was)
          BY <2>1, <3>7, <5>1 DEF Nested
        <5> QED
          BY <3>4, <5>2, <5>3
      <4> QED
        BY <4>1, <4>2
    <3> QED
      BY <1>6, <3>4, <3>6, <3>7 DEF Nested
  <2>4. CASE p \notin paths
    <3>1. held'[p] = held[p]
      BY <1>6, <2>1, <2>4
    <3>2. \A k \in Ledgers : \A e \in ToSet(saved'[k]) : e.path = p => e \in ToSet(saved[k])
      BY <1>2, <1>3, <2>4
    <3>3. Tracking(l, p)' <=> Tracking(l, p)
      <4>1. \A e \in ToSet(saved[l]) : e \in ToSet(saved'[l])
        BY <1>2
      <4> QED
        BY <1>6, <3>2, <4>1 DEF Tracking
    <3>4. {k \in Ledgers : Tracking(k, p)'} = {k \in Ledgers : Tracking(k, p)}
      BY <2>2, <3>3
    <3> QED
      BY <1>6, <2>1, <3>1, <3>2, <3>4 DEF Nested
  <2> QED
    BY <2>3, <2>4
<1> QED
  BY <1>8, <1>9, <1>10 DEF WrapInv

LEMMA UnwrapStep ==
  ASSUME WrapInv, NEW l \in Ledgers, Unwrap(l)
  PROVE  WrapInv'
<1>1. WrapTypeOK /\ client' = client
  BY DEF WrapInv, Unwrap
<1>2. /\ saved' = [saved EXCEPT ![l] = <<>>]
      /\ held' = [p \in Paths |->
           IF \E e \in Mine(l) : e.path = p
           THEN (CHOOSE e \in Mine(l) : e.path = p).was ELSE held[p]]
  BY DEF Unwrap
<1>3. saved'[l] = <<>> /\ \A k \in Ledgers \ {l} : saved'[k] = saved[k]
  BY <1>1, <1>2 DEF WrapTypeOK
<1>4. ToSet(saved'[l]) = {}
  BY <1>3 DEF ToSet
<1>5. Mine(l) \subseteq ToSet(saved[l]) /\ ToSet(saved[l]) \subseteq Entries
  <2>1. saved[l] \in Seq(Entries)
    BY <1>1 DEF WrapTypeOK
  <2> QED
    BY <2>1 DEF Mine, Restored, ToSet
<1>6. \A e, f \in ToSet(saved[l]) : e.path = f.path => e = f
  BY DEF WrapInv, Kept
<1>7. ASSUME NEW e \in Mine(l) PROVE held'[e.path] = e.was /\ e.was \in Chain /\ e.path \in Paths
  <2>1. e \in Entries
    BY <1>5
  <2>2. e.was \in Chain /\ e.path \in Paths
    BY <2>1 DEF Entries
  <2>3. (CHOOSE f \in Mine(l) : f.path = e.path) = e
    BY <1>5, <1>6
  <2> QED
    BY <1>2, <2>2, <2>3
<1>8. \A p \in Paths : (\A e \in Mine(l) : e.path # p) => held'[p] = held[p]
  BY <1>2
<1>9. WrapTypeOK'
  <2>1. ASSUME NEW p \in Paths PROVE held'[p] \in Chain
    BY <1>1, <1>7, <1>8 DEF WrapTypeOK
  <2>2. held' \in [Paths -> Chain]
    BY <1>2, <2>1
  <2>3. saved' \in [Ledgers -> Seq(Entries)]
    BY <1>1, <1>2 DEF WrapTypeOK
  <2>4. orderly' \in BOOLEAN
    BY DEF Unwrap
  <2> QED
    BY <1>1, <2>2, <2>3, <2>4 DEF WrapTypeOK
<1>10. ASSUME NEW k \in Ledgers PROVE Kept(k)'
  <2>1. Kept(k)
    BY DEF WrapInv
  <2> QED
    BY <1>1, <1>3, <1>4, <2>1 DEF Kept
<1>11. ASSUME orderly', NEW p \in Plain PROVE Nested(p)'
  <2>1. /\ orderly /\ Restored(l) = ToSet(saved[l])
        /\ \A e \in Mine(l) : Kind[e.path] = "plain" => Head(held[e.path]) = l
    BY <1>11 DEF Unwrap
  <2>2. Nested(p) /\ held[p] \in Chain /\ p \in Paths /\ Kind[p] = "plain"
    BY <1>1, <2>1 DEF WrapInv, WrapTypeOK, Plain
  <2>3. Mine(l) = {e \in ToSet(saved[l]) : e.of = client}
    BY <2>1 DEF Mine
  <2>4. ~Tracking(l, p)' /\ \A k \in Ledgers \ {l} : Tracking(k, p)' <=> Tracking(k, p)
    BY <1>1, <1>3, <1>4 DEF Tracking
  <2>5. ASSUME NEW k \in Ledgers, NEW f \in ToSet(saved'[k]), f.path = p, f.of = client
        PROVE  k # l /\ f.was \in Chain /\ Behind(held[p], k, f.was)
    <3>1. k # l /\ f \in ToSet(saved[k])
      BY <1>3, <1>4, <2>5
    <3>2. saved[k] \in Seq(Entries)
      BY <1>1 DEF WrapTypeOK
    <3>3. f \in Entries
      BY <3>1, <3>2 DEF ToSet
    <3>4. f.was \in Chain
      BY <3>3 DEF Entries
    <3> QED
      BY <2>2, <2>5, <3>1, <3>4 DEF Nested
  <2>6. ASSUME NEW e \in Mine(l), e.path = p PROVE Nested(p)'
    <3>1. held'[p] = e.was /\ e.was \in Chain
      BY <1>7, <2>6
    <3>2. Head(held[p]) = l
      BY <2>1, <2>2, <2>6
    <3>3. e \in ToSet(saved[l]) /\ e.of = client
      BY <2>3
    <3>4. Behind(held[p], l, e.was)
      BY <2>2, <2>6, <3>3 DEF Nested
    <3>5. /\ ToSet(held'[p]) = ToSet(held[p]) \ {l} /\ Once(held'[p])
          /\ \A k : \A u \in Chain : k # l /\ Behind(held[p], k, u) => Behind(held'[p], k, u)
      BY <2>2, <3>1, <3>2, <3>4, OutermostGone DEF Nested
    <3>6. ToSet(held'[p]) = {k \in Ledgers : Tracking(k, p)'}
      BY <2>2, <2>4, <3>5 DEF Nested
    <3> QED
      BY <1>1, <2>5, <3>5, <3>6 DEF Nested
  <2>7. ASSUME \A e \in Mine(l) : e.path # p PROVE Nested(p)'
    <3>1. held'[p] = held[p]
      BY <1>8, <2>2, <2>7
    <3>2. ~Tracking(l, p)
      BY <2>3, <2>7 DEF Tracking
    <3>3. {k \in Ledgers : Tracking(k, p)'} = {k \in Ledgers : Tracking(k, p)}
      BY <2>4, <3>2
    <3> QED
      BY <1>1, <2>2, <2>5, <3>1, <3>3 DEF Nested
  <2> QED
    BY <2>6, <2>7
<1> QED
  BY <1>9, <1>10, <1>11 DEF WrapInv

LEMMA NextClientStep ==
  ASSUME WrapInv, NextClient
  PROVE  WrapInv'
<1>1. /\ WrapTypeOK /\ client' = client + 1 /\ saved' = saved /\ orderly' = TRUE
      /\ held' = [p \in Paths |-> <<>>]
  BY DEF WrapInv, NextClient
<1>2. client \in Nat
  BY <1>1 DEF WrapTypeOK
<1>3. \A l \in Ledgers : \A e \in ToSet(saved[l]) : e.of \in Nat /\ e.of <= client
  <2>1. ASSUME NEW l \in Ledgers, NEW e \in ToSet(saved[l]) PROVE e.of \in Nat
    <3>1. saved[l] \in Seq(Entries)
      BY <1>1 DEF WrapTypeOK
    <3>2. e \in Entries
      BY <3>1 DEF ToSet
    <3> QED
      BY <3>2 DEF Entries
  <2> QED
    BY <2>1 DEF WrapInv, Kept
<1>4. \A l \in Ledgers : \A e \in ToSet(saved[l]) : e.of <= client + 1 /\ e.of # client + 1
  BY <1>2, <1>3
<1>5. WrapTypeOK'
  BY <1>1, <1>2 DEF WrapTypeOK, Chain
<1>6. ASSUME NEW l \in Ledgers PROVE Kept(l)'
  BY <1>1, <1>4 DEF WrapInv, Kept
<1>7. ASSUME NEW p \in Plain PROVE Nested(p)'
  <2>1. held'[p] = <<>>
    BY <1>1 DEF Plain
  <2>2. ToSet(held'[p]) = {} /\ Once(held'[p])
    BY <2>1 DEF ToSet, Once
  <2> QED
    BY <1>1, <1>4, <2>2 DEF Nested, Tracking
<1> QED
  BY <1>5, <1>6, <1>7 DEF WrapInv

LEMMA WrapInvInductive == WrapInv /\ [WrapNext]_wrapVars => WrapInv'
<1> SUFFICES ASSUME WrapInv, [WrapNext]_wrapVars PROVE WrapInv'
  OBVIOUS
<1>1. CASE UNCHANGED wrapVars
  BY <1>1 DEF wrapVars, WrapInv, WrapTypeOK, Kept, Nested, Tracking
<1> QED
  BY <1>1, WrapStep, UnwrapStep, NextClientStep DEF WrapNext

\* However ledgers wrap a client and unwrap it in the reverse order, whatever
\* wrappers overlap and whichever clients shared the address, a call is
\* recorded by exactly the ledgers that have its method wrapped, by each once
\* (TrackedByWrappers; _wrap_attr, unwrap).
THEOREM EachWrapperTracksOnce == WrapSpec => []TrackedByWrappers
BY WrapInvInit, WrapInvInductive, WrapInvImplies, PTL DEF WrapSpec
=============================================================================
