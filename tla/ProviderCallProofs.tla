------------------------- MODULE ProviderCallProofs -------------------------
(***************************************************************************)
(* Theorems about ProviderCall, for any number of callers and any rate.    *)
(***************************************************************************)
EXTENDS ProviderCall, FiniteSetTheorems, TLAPS

-----------------------------------------------------------------------------
(* Types *)

Phases == {"idle", "make", "consume", "asleep", "send", "waits", "backs off"}
BucketsOK ==
  /\ cap \in Rates /\ made \in SUBSET Callers
  /\ slot \in made \cup {"none"} /\ (made # {} => slot # "none")
  /\ tokens \in [Callers -> 0..cap] /\ credit \in Int
CallersOK ==
  /\ pc \in [Callers -> Phases]
  /\ mine \in [Callers -> made \cup {"none"}]
  /\ attempt \in [Callers -> 0..MaxRetries]
  /\ left \in [Callers -> Nat] /\ delay \in [Callers -> Nat]
PlacesOK ==
  \A c \in Callers :
    /\ pc[c] \notin {"idle", "make"} => mine[c] # "none"
    /\ pc[c] = "asleep" => left[c] \in 0..Token
    /\ pc[c] \notin {"asleep", "backs off"} => left[c] = 0

LEMMA TypeParts == TypeOK <=> BucketsOK /\ CallersOK /\ PlacesOK
BY DEF TypeOK, BucketsOK, CallersOK, PlacesOK, Phases

\* Numbers of units.
LEMMA Units ==
  ASSUME BucketsOK
  PROVE  /\ cap \in Nat \ {0} /\ Token \in Nat \ {0} /\ credit \in Int
         /\ \A b \in Callers : tokens[b] \in Nat /\ tokens[b] <= cap
         /\ IsFiniteSet(made) /\ Cardinality(made) \in Nat /\ Cardinality(Callers) \in Nat
<1>1. /\ cap \in Nat \ {0} /\ Token \in Nat \ {0} /\ credit \in Int
      /\ \A b \in Callers : tokens[b] \in Nat /\ tokens[b] <= cap
  BY CallConstants DEF BucketsOK
<1>2. IsFiniteSet(made) /\ Cardinality(made) \in Nat /\ Cardinality(Callers) \in Nat
  BY CallConstants, FS_Subset, FS_CardinalityType DEF BucketsOK
<1> QED BY <1>1, <1>2

\* The bucket of a caller that has found one.
LEMMA OwnBucket ==
  ASSUME BucketsOK, CallersOK, PlacesOK, NEW c \in Callers, pc[c] \notin {"idle", "make"}
  PROVE  mine[c] \in made /\ mine[c] \in Callers /\ Has(c) \in Nat /\ Has(c) <= cap
<1>1. mine[c] \in made /\ mine[c] \in Callers
  BY DEF BucketsOK, CallersOK, PlacesOK
<1> QED BY <1>1, Units DEF Has

LEMMA BucketsStep ==
  ASSUME BucketsOK, CallersOK, PlacesOK, [Next]_vars
  PROVE  BucketsOK'
<1>1. ASSUME NEW c \in Callers, MakeBucket(c)  PROVE BucketsOK'
  <2>1. /\ made' \in SUBSET Callers /\ slot' \in made' /\ slot' # "none" /\ cap' \in Rates
    BY <1>1, CallConstants DEF MakeBucket, BucketsOK
  <2>2. tokens' \in [Callers -> 0..cap] /\ cap' = cap
    BY <1>1, Units DEF MakeBucket, BucketsOK
  <2>3. credit' \in Int
    BY <1>1, Units DEF MakeBucket
  <2> QED BY <2>1, <2>2, <2>3 DEF BucketsOK
<1>2. ASSUME NEW c \in Callers, TakeToken(c)  PROVE BucketsOK'
  <2>1. /\ tokens' = [tokens EXCEPT ![mine[c]] = Has(c) - Token] /\ Has(c) >= Token
        /\ pc[c] = "consume" /\ credit' = credit - Token /\ UNCHANGED <<cap, slot, made>>
    BY <1>2 DEF TakeToken, Has, LetThrough
  <2>2. Has(c) - Token \in 0..cap
    BY <2>1, OwnBucket, Units
  <2>3. tokens' \in [Callers -> 0..cap]
    BY <2>1, <2>2 DEF BucketsOK
  <2>4. credit' \in Int
    BY <2>1, Units
  <2> QED BY <2>1, <2>3, <2>4 DEF BucketsOK
<1>3. ASSUME NEW c \in Callers, SleepForToken(c)  PROVE BucketsOK'
  <2>1. 0 \in 0..cap
    BY Units
  <2> QED BY <1>3, <2>1 DEF SleepForToken, NothingLeft, BucketsOK, history
<1>4. ASSUME NEW c \in Callers, WakeUp(c)  PROVE BucketsOK'
  <2>1. credit' = credit - Token /\ UNCHANGED <<cap, slot, made, tokens>>
    BY <1>4 DEF WakeUp, LetThrough
  <2>2. credit' \in Int
    BY <2>1, Units
  <2> QED BY <2>1, <2>2 DEF BucketsOK
<1>5. CASE Tick
  <2>1. \A b \in Callers : Refilled(b) \in 0..cap /\ 0 \in 0..cap
    BY Units DEF Refilled, Smaller
  <2>2. tokens' \in [Callers -> 0..cap]
    BY <1>5, <2>1 DEF Tick
  <2>3. Bound(Cardinality(made)) \in Int
    BY Units DEF Bound
  <2>4. credit' \in Int
    BY <1>5, <2>3, Units DEF Tick, TimeGoesBy, Smaller
  <2> QED BY <1>5, <2>2, <2>4 DEF Tick, BucketsOK
<1>6. CASE UNCHANGED <<cap, slot, made, tokens, credit>>
  BY <1>6 DEF BucketsOK
<1>7. ASSUME NEW c \in Callers,
             FindBucket(c) \/ Send(c) \/ Answered(c) \/ FailsTransiently(c) \/ SendAgain(c)
      PROVE  UNCHANGED <<cap, slot, made, tokens, credit>>
  BY <1>7 DEF FindBucket, Send, Answered, Over, FailsTransiently, SendAgain, history
<1>8. CASE UNCHANGED vars
  BY <1>6, <1>8 DEF vars, history
<1> QED BY <1>1, <1>2, <1>3, <1>4, <1>5, <1>6, <1>7, <1>8 DEF Next, GoOn

LEMMA CallersStep ==
  ASSUME BucketsOK, CallersOK, PlacesOK, [Next]_vars
  PROVE  CallersOK' /\ PlacesOK'
<1>12. 0 \in 0..MaxRetries /\ RetryDelay \in Nat
  BY CallConstants
<1>13. \A n \in 0..MaxRetries : n < MaxRetries => n + 1 \in 0..MaxRetries
  BY CallConstants
<1>14. \A n \in Nat : 2 * n \in Nat
  OBVIOUS
<1>15. \A n \in Nat : n < Token => Token - n \in 0..Token /\ Token - n \in Nat
  BY CallConstants
<1>16. \A n \in Nat : (IF n = 0 THEN 0 ELSE n - 1) \in Nat
  OBVIOUS
<1>17. \A n \in 0..Token : (IF n = 0 THEN 0 ELSE n - 1) \in 0..Token
  BY CallConstants
<1> USE DEF CallersOK, PlacesOK, Phases, Goto
<1>1. ASSUME NEW c \in Callers, FindBucket(c)  PROVE CallersOK' /\ PlacesOK'
  BY <1>1 DEF FindBucket, BucketsOK, retries
<1>2. ASSUME NEW c \in Callers, MakeBucket(c)  PROVE CallersOK' /\ PlacesOK'
  <2>1. mine' \in [Callers -> made' \cup {"none"}]
    BY <1>2 DEF MakeBucket
  <2>2. c # "none"
    BY CallConstants
  <2> QED BY <1>2, <2>1, <2>2 DEF MakeBucket, retries
<1>3. ASSUME NEW c \in Callers, TakeToken(c)  PROVE CallersOK' /\ PlacesOK'
  BY <1>3 DEF TakeToken, retries
<1>4. ASSUME NEW c \in Callers, SleepForToken(c)  PROVE CallersOK' /\ PlacesOK'
  <2>1. Has(c) \in Nat /\ Has(c) < Token /\ left' = [left EXCEPT ![c] = Token - Has(c)]
    BY <1>4, OwnBucket DEF SleepForToken
  <2>2. Token - Has(c) \in 0..Token /\ Token - Has(c) \in Nat
    BY <1>15, <2>1
  <2> QED BY <1>4, <2>1, <2>2 DEF SleepForToken, retries
<1>5. ASSUME NEW c \in Callers, WakeUp(c)  PROVE CallersOK' /\ PlacesOK'
  BY <1>5 DEF WakeUp, retries
<1>6. ASSUME NEW c \in Callers, Send(c)  PROVE CallersOK' /\ PlacesOK'
  BY <1>6 DEF Send, retries
<1>7. ASSUME NEW c \in Callers, Answered(c)  PROVE CallersOK' /\ PlacesOK'
  BY <1>7, <1>12 DEF Answered, Over
<1>8. ASSUME NEW c \in Callers, FailsTransiently(c)  PROVE CallersOK' /\ PlacesOK'
  <2>1. attempt[c] + 1 \in 0..MaxRetries
    BY <1>8, <1>13 DEF FailsTransiently
  <2>2. attempt' \in [Callers -> 0..MaxRetries]
    BY <1>8, <2>1 DEF FailsTransiently
  <2>3. left' \in [Callers -> Nat] /\ delay' \in [Callers -> Nat]
    BY <1>8, <1>14 DEF FailsTransiently
  <2> QED BY <1>8, <2>2, <2>3 DEF FailsTransiently
<1>9. ASSUME NEW c \in Callers, SendAgain(c)  PROVE CallersOK' /\ PlacesOK'
  BY <1>9 DEF SendAgain, retries
<1>10. CASE Tick
  <2>1. left' = [c \in Callers |-> IF left[c] = 0 THEN 0 ELSE left[c] - 1]
    BY <1>10 DEF Tick
  <2>2. left' \in [Callers -> Nat]
    BY <1>16, <2>1
  <2>3. \A c \in Callers : /\ left[c] \in 0..Token => left'[c] \in 0..Token
                           /\ left[c] = 0 => left'[c] = 0
    BY <1>17, <2>1
  <2>4. UNCHANGED <<made, pc, mine, attempt, delay>>
    BY <1>10 DEF Tick, retries
  <2> QED BY <2>2, <2>3, <2>4
<1>11. CASE UNCHANGED vars
  BY <1>11 DEF vars, callers, retries
<1> QED
  BY <1>1, <1>2, <1>3, <1>4, <1>5, <1>6, <1>7, <1>8, <1>9, <1>10, <1>11 DEF Next, GoOn

LEMMA TypeStep == TypeOK /\ [Next]_vars => TypeOK'
<1> SUFFICES ASSUME TypeOK, [Next]_vars PROVE TypeOK'
  OBVIOUS
<1>1. BucketsOK' /\ CallersOK' /\ PlacesOK'
  BY TypeParts, BucketsStep, CallersStep
<1> QED BY <1>1 DEF TypeOK, BucketsOK, CallersOK, PlacesOK, Phases

LEMMA TypeInit == Init => TypeOK
<1> SUFFICES ASSUME Init PROVE TypeOK
  OBVIOUS
<1>1. Cardinality(Callers) \in Nat
  BY CallConstants, FS_CardinalityType
<1> QED BY <1>1, CallConstants DEF Init, TypeOK

-----------------------------------------------------------------------------
(* Sums.  What buckets hold and sleepers have saved up is a number for     *)
(* each caller; their sum is the size of the set of all single units.      *)

Heap(f, n) == {p \in Callers \X (1..n) : p[2] <= f[p[1]]}
Sum(f, n) == Cardinality(Heap(f, n))

LEMMA HeapFinite ==
  ASSUME NEW f, NEW n \in Nat
  PROVE  IsFiniteSet(Heap(f, n)) /\ Sum(f, n) \in Nat
<1>1. IsFiniteSet(1..n)
  BY FS_Interval
<1>2. IsFiniteSet(Callers \X (1..n))
  BY <1>1, CallConstants, FS_Product
<1>3. Heap(f, n) \in SUBSET (Callers \X (1..n))
  BY DEF Heap
<1> QED BY <1>2, <1>3, FS_Subset, FS_CardinalityType DEF Sum

\* The units of one caller are as many as its number says.
LEMMA ColumnSize ==
  ASSUME NEW c, NEW k \in Nat
  PROVE  IsFiniteSet({c} \X (1..k)) /\ Cardinality({c} \X (1..k)) = k
<1>1. IsFiniteSet({c}) /\ Cardinality({c}) = 1
  BY FS_Singleton
<1>2. IsFiniteSet(1..k) /\ Cardinality(1..k) = k
  BY FS_Interval
<1>3. /\ IsFiniteSet({c} \X (1..k))
      /\ Cardinality({c} \X (1..k)) = Cardinality({c}) * Cardinality(1..k)
  BY <1>1, <1>2, FS_Product
<1>4. 1 * k = k
  OBVIOUS
<1> QED BY <1>1, <1>2, <1>3, <1>4

\* Changing one number changes the sum by as much.
LEMMA SumOfChange ==
  ASSUME NEW n \in Nat, NEW f \in [Callers -> 0..n], NEW c \in Callers, NEW k \in 0..n
  PROVE  Sum([f EXCEPT ![c] = k], n) = Sum(f, n) - f[c] + k
<1> DEFINE Rest == {p \in Heap(f, n) : p[1] # c}
<1>1. IsFiniteSet(Rest) /\ Cardinality(Rest) \in Nat
  <2>1. Rest \in SUBSET Heap(f, n)
    OBVIOUS
  <2> QED BY <2>1, HeapFinite, FS_Subset, FS_CardinalityType
<1>2. ASSUME NEW g \in [Callers -> 0..n], \A d \in Callers \ {c} : g[d] = f[d]
      PROVE  Sum(g, n) = Cardinality(Rest) + g[c]
  <2> DEFINE Own == {c} \X (1..g[c])
  <2>1. g[c] \in Nat /\ g[c] <= n
    OBVIOUS
  <2>2. IsFiniteSet(Own) /\ Cardinality(Own) = g[c]
    BY <2>1, ColumnSize
  <2>3. Heap(g, n) \subseteq Rest \cup Own
    BY <1>2 DEF Heap
  <2>4. Rest \cup Own \subseteq Heap(g, n)
    <3>1. Rest \subseteq Heap(g, n)
      BY <1>2 DEF Heap
    <3>2. Own \subseteq Heap(g, n)
      BY <2>1 DEF Heap
    <3> QED BY <3>1, <3>2
  <2>5. Rest \cap Own = {}
    OBVIOUS
  <2>6. Cardinality(Rest \cup Own)
          = Cardinality(Rest) + Cardinality(Own) - Cardinality(Rest \cap Own)
    BY <1>1, <2>2, FS_Union
  <2>7. Cardinality(Rest \cap Own) = 0
    BY <2>5, FS_EmptySet
  <2>8. Heap(g, n) = Rest \cup Own
    BY <2>3, <2>4
  <2> HIDE DEF Rest, Own
  <2>9. Sum(g, n) = Cardinality(Rest \cup Own)
    BY <2>8 DEF Sum
  <2> QED BY <1>1, <2>1, <2>2, <2>6, <2>7, <2>9
<1> HIDE DEF Rest
<1>3. Sum(f, n) = Cardinality(Rest) + f[c]
  BY <1>2
<1>4. Sum([f EXCEPT ![c] = k], n) = Cardinality(Rest) + k
  <2>1. [f EXCEPT ![c] = k] \in [Callers -> 0..n]
    OBVIOUS
  <2> QED BY <1>2, <2>1
<1> QED BY <1>1, <1>3, <1>4

\* Numbers that grow by one at most, in M only, make the sum grow by at most
\* the size of M.
LEMMA SumOfGrowth ==
  ASSUME NEW n \in Nat, NEW f \in [Callers -> 0..n], NEW g \in [Callers -> 0..n],
         NEW M \in SUBSET Callers,
         \A c \in Callers : g[c] <= f[c] + 1 /\ (c \notin M => g[c] <= f[c])
  PROVE  Sum(g, n) <= Sum(f, n) + Cardinality(M)
<1> DEFINE Tip == [c \in M |-> <<c, g[c]>>]
           Tips == {Tip[c] : c \in M}
<1>1. IsFiniteSet(M) /\ Cardinality(M) \in Nat
  BY CallConstants, FS_Subset, FS_CardinalityType
<1>2. Tip \in Surjection(M, Tips)
  BY DEF Surjection
<1>3. IsFiniteSet(Tips) /\ Cardinality(Tips) <= Cardinality(M) /\ Cardinality(Tips) \in Nat
  BY <1>1, <1>2, FS_Surjection, FS_CardinalityType
<1>4. Heap(g, n) \subseteq Heap(f, n) \cup Tips
  <2> SUFFICES ASSUME NEW p \in Heap(g, n), p \notin Heap(f, n) PROVE p \in Tips
    OBVIOUS
  <2>1. /\ p \in Callers \X (1..n) /\ p[1] \in Callers /\ p[2] \in Nat
        /\ p[2] <= g[p[1]] /\ ~(p[2] <= f[p[1]])
    BY DEF Heap
  <2>2. p[1] \in M /\ p[2] = g[p[1]]
    BY <2>1
  <2>3. p = <<p[1], p[2]>>
    BY <2>1
  <2> QED BY <2>2, <2>3
<1>5. IsFiniteSet(Heap(f, n)) /\ Cardinality(Heap(f, n)) \in Nat
  BY HeapFinite DEF Sum
<1> HIDE DEF Tips
<1>6. /\ IsFiniteSet(Heap(f, n) \cup Tips) /\ Cardinality(Heap(f, n) \cup Tips) \in Nat
      /\ Cardinality(Heap(f, n) \cup Tips) <= Cardinality(Heap(f, n)) + Cardinality(Tips)
  <2>1. Cardinality(Heap(f, n) \cap Tips) \in Nat
    BY <1>5, FS_Intersection, FS_CardinalityType
  <2>2. /\ IsFiniteSet(Heap(f, n) \cup Tips)
        /\ Cardinality(Heap(f, n) \cup Tips)
             = Cardinality(Heap(f, n)) + Cardinality(Tips) - Cardinality(Heap(f, n) \cap Tips)
    BY <1>3, <1>5, FS_Union
  <2>3. Cardinality(Heap(f, n) \cup Tips) \in Nat
    BY <2>2, FS_CardinalityType
  <2> QED BY <1>3, <1>5, <2>1, <2>2, <2>3
<1>7. /\ Cardinality(Heap(g, n)) \in Nat
      /\ Cardinality(Heap(g, n)) <= Cardinality(Heap(f, n) \cup Tips)
  <2>1. Heap(g, n) \in SUBSET (Heap(f, n) \cup Tips)
    BY <1>4
  <2> QED BY <1>6, <2>1, HeapFinite, FS_Subset DEF Sum
<1> QED BY <1>1, <1>3, <1>5, <1>6, <1>7 DEF Sum

\* A sum of numbers up to n that are zero outside M.
LEMMA SumOfBounded ==
  ASSUME NEW n \in Nat, NEW f \in [Callers -> 0..n], NEW M \in SUBSET Callers,
         \A c \in Callers \ M : f[c] = 0
  PROVE  Sum(f, n) <= Cardinality(M) * n
<1>1. IsFiniteSet(M) /\ Cardinality(M) \in Nat
  BY CallConstants, FS_Subset, FS_CardinalityType
<1>2. IsFiniteSet(1..n) /\ Cardinality(1..n) = n
  BY FS_Interval
<1>3. IsFiniteSet(M \X (1..n)) /\ Cardinality(M \X (1..n)) = Cardinality(M) * n
  BY <1>1, <1>2, FS_Product
<1>4. Heap(f, n) \in SUBSET (M \X (1..n))
  BY DEF Heap
<1> QED BY <1>3, <1>4, FS_Subset DEF Sum

-----------------------------------------------------------------------------
(* The limit.  What is left of the bound is never less than what is held:  *)
(* the units in all buckets, and for each sleeper the part of its token    *)
(* that it has slept for or found in the bucket.                           *)

Saved == [c \in Callers |-> IF pc[c] = "asleep" THEN Token - left[c] ELSE 0]
InBuckets == Sum(tokens, cap)
SleptFor == Sum(Saved, Token)
Worth == InBuckets + SleptFor
\* A caller makes at most one bucket, and only buckets that are made hold units.
OneEach ==
  \A c \in Callers : (pc[c] = "make" => c \notin made) /\ (c \notin made => tokens[c] = 0)
LimitInv == BucketsOK /\ CallersOK /\ PlacesOK /\ OneEach /\ credit >= Worth

LEMMA SavedType ==
  ASSUME CallersOK, PlacesOK
  PROVE  Saved \in [Callers -> 0..Token]
<1> SUFFICES ASSUME NEW c \in Callers
             PROVE  (IF pc[c] = "asleep" THEN Token - left[c] ELSE 0) \in 0..Token
  BY DEF Saved
<1>1. Token \in Nat
  BY CallConstants
<1>2. pc[c] = "asleep" => left[c] \in 0..Token
  BY DEF PlacesOK
<1> QED BY <1>1, <1>2

LEMMA WorthType ==
  ASSUME BucketsOK
  PROVE  InBuckets \in Nat /\ SleptFor \in Nat
BY Units, HeapFinite DEF InBuckets, SleptFor

LEMMA OneEachStep ==
  ASSUME BucketsOK, CallersOK, PlacesOK, OneEach, [Next]_vars
  PROVE  OneEach'
<1> USE DEF OneEach
<1>1. ASSUME NEW c \in Callers, FindBucket(c)  PROVE OneEach'
  BY <1>1 DEF FindBucket, Goto, BucketsOK, CallersOK
<1>2. ASSUME NEW c \in Callers, MakeBucket(c)  PROVE OneEach'
  BY <1>2 DEF MakeBucket, Goto, BucketsOK, CallersOK
<1>3. ASSUME NEW c \in Callers, TakeToken(c)  PROVE OneEach'
  <2>1. mine[c] \in made
    BY <1>3, OwnBucket DEF TakeToken
  <2> QED BY <1>3, <2>1 DEF TakeToken, Goto, BucketsOK, CallersOK
<1>4. ASSUME NEW c \in Callers, SleepForToken(c)  PROVE OneEach'
  BY <1>4 DEF SleepForToken, NothingLeft, Goto, BucketsOK, CallersOK
<1>5. ASSUME NEW c \in Callers, NEW phase \in Phases \ {"make"},
             pc' = [pc EXCEPT ![c] = phase], UNCHANGED <<made, tokens>>
      PROVE  OneEach'
  BY <1>5 DEF CallersOK
<1>6. ASSUME NEW c \in Callers,
             WakeUp(c) \/ Send(c) \/ Answered(c) \/ FailsTransiently(c) \/ SendAgain(c)
      PROVE  OneEach'
  BY <1>5, <1>6 DEF WakeUp, Send, Answered, Over, FailsTransiently, SendAgain, Goto, Phases
<1>7. CASE Tick
  BY <1>7 DEF Tick
<1>8. CASE UNCHANGED vars
  BY <1>8 DEF vars, callers
<1> QED BY <1>1, <1>2, <1>3, <1>4, <1>6, <1>7, <1>8 DEF Next, GoOn

\* A caller that was not asleep and does not fall asleep saves nothing.
LEMMA SavedKept ==
  ASSUME CallersOK, NEW c \in Callers, pc[c] # "asleep", pc'[c] # "asleep",
         \A d \in Callers \ {c} : pc'[d] = pc[d] /\ left'[d] = left[d]
  PROVE  Saved' = Saved
BY DEF Saved

LEMMA LimitStep ==
  ASSUME LimitInv, [Next]_vars
  PROVE  credit' >= Worth'
<1>1. BucketsOK /\ CallersOK /\ PlacesOK /\ OneEach /\ credit >= Worth
  BY DEF LimitInv
<1>2. /\ cap \in Nat /\ Token \in Nat /\ credit \in Int /\ tokens \in [Callers -> 0..cap]
      /\ InBuckets \in Nat /\ SleptFor \in Nat /\ Saved \in [Callers -> 0..Token]
  BY <1>1, Units, WorthType, SavedType DEF BucketsOK
<1>3. ASSUME UNCHANGED <<cap, tokens, credit>>, Saved' = Saved  PROVE credit' >= Worth'
  BY <1>1, <1>3 DEF Worth, InBuckets, SleptFor, Sum, Heap
<1>4. ASSUME NEW c \in Callers,
             FindBucket(c) \/ Send(c) \/ Answered(c) \/ FailsTransiently(c) \/ SendAgain(c)
      PROVE  credit' >= Worth'
  <2>1. UNCHANGED <<cap, tokens, credit>>
    BY <1>4 DEF FindBucket, Send, Answered, Over, FailsTransiently, SendAgain, history
  <2>2. /\ pc[c] # "asleep" /\ pc'[c] # "asleep"
        /\ \A d \in Callers \ {c} : pc'[d] = pc[d] /\ left'[d] = left[d]
    BY <1>1, <1>4 DEF FindBucket, Send, Answered, Over, FailsTransiently, SendAgain, Goto, CallersOK
  <2> QED BY <1>1, <1>3, <2>1, <2>2, SavedKept
<1>5. ASSUME NEW c \in Callers, MakeBucket(c)  PROVE credit' >= Worth'
  <2>1. /\ tokens' = [tokens EXCEPT ![c] = cap] /\ tokens[c] = 0
        /\ credit' = credit + cap /\ cap' = cap
    BY <1>1, <1>5 DEF MakeBucket, OneEach
  <2>2. Sum([tokens EXCEPT ![c] = cap], cap) = InBuckets - tokens[c] + cap
    <3>1. cap \in 0..cap
      BY <1>2
    <3> QED BY <1>2, <3>1, SumOfChange DEF InBuckets
  <2>3. /\ pc[c] # "asleep" /\ pc'[c] # "asleep"
        /\ \A d \in Callers \ {c} : pc'[d] = pc[d] /\ left'[d] = left[d]
    BY <1>1, <1>5 DEF MakeBucket, Goto, CallersOK
  <2>4. SleptFor' = SleptFor
    BY <1>1, <2>3, SavedKept DEF SleptFor, Sum, Heap
  <2>5. InBuckets' = InBuckets + cap
    BY <1>2, <2>1, <2>2 DEF InBuckets, Sum, Heap
  <2> QED BY <1>1, <1>2, <2>1, <2>4, <2>5 DEF Worth
<1>6. ASSUME NEW c \in Callers, TakeToken(c)  PROVE credit' >= Worth'
  <2> DEFINE b == mine[c]
  <2>1. /\ b \in Callers /\ tokens[b] >= Token /\ tokens[b] \in Nat /\ tokens[b] <= cap
        /\ tokens' = [tokens EXCEPT ![b] = tokens[b] - Token]
        /\ credit' = credit - Token /\ cap' = cap
    BY <1>1, <1>6, OwnBucket DEF TakeToken, LetThrough, Has
  <2>2. tokens[b] - Token \in 0..cap
    BY <1>2, <2>1
  <2>3. Sum([tokens EXCEPT ![b] = tokens[b] - Token], cap)
          = InBuckets - tokens[b] + (tokens[b] - Token)
    BY <1>2, <2>1, <2>2, SumOfChange DEF InBuckets
  <2>4. /\ pc[c] # "asleep" /\ pc'[c] # "asleep"
        /\ \A d \in Callers \ {c} : pc'[d] = pc[d] /\ left'[d] = left[d]
    BY <1>1, <1>6 DEF TakeToken, Goto, CallersOK
  <2>5. SleptFor' = SleptFor
    BY <1>1, <2>4, SavedKept DEF SleptFor, Sum, Heap
  <2>6. InBuckets' = InBuckets - Token
    BY <1>2, <2>1, <2>3 DEF InBuckets, Sum, Heap
  <2> QED BY <1>1, <1>2, <2>1, <2>5, <2>6 DEF Worth
<1>7. ASSUME NEW c \in Callers, SleepForToken(c)  PROVE credit' >= Worth'
  <2> DEFINE b == mine[c]
  <2>1. /\ b \in Callers /\ tokens[b] < Token /\ tokens[b] \in Nat /\ 0 \in 0..cap
        /\ tokens' = [tokens EXCEPT ![b] = 0] /\ credit' = credit /\ cap' = cap
    BY <1>1, <1>2, <1>7, OwnBucket DEF SleepForToken, NothingLeft, Has, history
  <2>2. InBuckets' = InBuckets - tokens[b]
    <3>1. Sum([tokens EXCEPT ![b] = 0], cap) = InBuckets - tokens[b] + 0
      BY <1>2, <2>1, SumOfChange DEF InBuckets
    <3> QED BY <1>2, <2>1, <3>1 DEF InBuckets, Sum, Heap
  <2>3. /\ pc[c] = "consume" /\ pc' = [pc EXCEPT ![c] = "asleep"]
        /\ left' = [left EXCEPT ![c] = Token - tokens[b]]
    BY <1>7 DEF SleepForToken, Goto, Has
  <2>4. Saved[c] = 0
    BY <2>3 DEF Saved
  <2>5. Token - (Token - tokens[b]) = tokens[b] /\ tokens[b] \in 0..Token
    BY <1>2, <2>1
  <2>6. Saved' = [Saved EXCEPT ![c] = tokens[b]]
    BY <1>1, <2>3, <2>5 DEF Saved, CallersOK
  <2>7. SleptFor' = SleptFor + tokens[b]
    <3>1. Sum([Saved EXCEPT ![c] = tokens[b]], Token) = SleptFor - Saved[c] + tokens[b]
      BY <1>2, <2>5, SumOfChange DEF SleptFor
    <3> QED BY <1>2, <2>1, <2>4, <2>6, <3>1 DEF SleptFor, Sum, Heap
  <2> QED BY <1>1, <1>2, <2>1, <2>2, <2>7 DEF Worth
<1>8. ASSUME NEW c \in Callers, WakeUp(c)  PROVE credit' >= Worth'
  <2>1. /\ pc[c] = "asleep" /\ left[c] = 0 /\ pc' = [pc EXCEPT ![c] = "send"] /\ left' = left
        /\ credit' = credit - Token /\ UNCHANGED <<cap, tokens>>
    BY <1>8 DEF WakeUp, LetThrough, Goto
  <2>2. Saved[c] = Token /\ 0 \in 0..Token
    BY <1>2, <2>1 DEF Saved
  <2>3. Saved' = [Saved EXCEPT ![c] = 0]
    BY <1>1, <2>1 DEF Saved, CallersOK
  <2>4. SleptFor' = SleptFor - Token
    <3>1. Sum([Saved EXCEPT ![c] = 0], Token) = SleptFor - Saved[c] + 0
      BY <1>2, <2>2, SumOfChange DEF SleptFor
    <3> QED BY <1>2, <2>2, <2>3, <3>1 DEF SleptFor, Sum, Heap
  <2>5. InBuckets' = InBuckets
    BY <2>1 DEF InBuckets, Sum, Heap
  <2> QED BY <1>1, <1>2, <2>1, <2>4, <2>5 DEF Worth
<1>9. CASE Tick
  <2> DEFINE m == Cardinality(made)
             k == Cardinality(Callers)
  <2>1. m \in Nat /\ k \in Nat /\ made \in SUBSET Callers /\ Callers \in SUBSET Callers
    BY <1>1, Units DEF BucketsOK
  <2>2. /\ BucketsOK' /\ CallersOK' /\ PlacesOK' /\ OneEach'
        /\ cap' = cap /\ made' = made
    BY <1>1, <1>9, BucketsStep, CallersStep, OneEachStep DEF Tick
  <2>3. tokens' \in [Callers -> 0..cap] /\ Saved' \in [Callers -> 0..Token]
    <3>1. Saved' \in [Callers -> 0..Token]
      <4> SUFFICES ASSUME NEW c \in Callers
                   PROVE  (IF pc'[c] = "asleep" THEN Token - left'[c] ELSE 0) \in 0..Token
        BY DEF Saved
      <4>1. pc'[c] = "asleep" => left'[c] \in 0..Token
        BY <2>2 DEF PlacesOK
      <4> QED BY <1>2, <4>1
    <3> QED BY <2>2, <3>1 DEF BucketsOK
  <2>4. InBuckets' = Sum(tokens', cap) /\ SleptFor' = Sum(Saved', Token)
    BY <2>2 DEF InBuckets, SleptFor, Sum, Heap
  <2>5. InBuckets' <= InBuckets + m
    <3>1. \A c \in Callers : /\ tokens'[c] <= tokens[c] + 1
                             /\ c \notin made => tokens'[c] <= tokens[c]
      BY <1>1, <1>2, <1>9 DEF Tick, Refilled, Smaller, OneEach
    <3> QED BY <1>2, <2>1, <2>3, <2>4, <3>1, SumOfGrowth DEF InBuckets
  <2>6. SleptFor' <= SleptFor + k
    <3>1. \A c \in Callers : Saved'[c] <= Saved[c] + 1
      <4> TAKE c \in Callers
      <4>1. pc' = pc /\ left'[c] = IF left[c] = 0 THEN 0 ELSE left[c] - 1
        BY <1>9 DEF Tick
      <4>2. left[c] \in Nat
        BY <1>1 DEF CallersOK
      <4> QED BY <1>2, <4>1, <4>2 DEF Saved
    <3> QED BY <1>2, <2>1, <2>3, <2>4, <3>1, SumOfGrowth DEF SleptFor
  <2>7. InBuckets' <= m * cap
    <3>1. \A c \in Callers \ made : tokens'[c] = 0
      BY <1>9 DEF Tick
    <3> QED BY <1>2, <2>1, <2>3, <2>4, <3>1, SumOfBounded
  <2>8. SleptFor' <= k * Token
    BY <1>2, <2>1, <2>3, <2>4, SumOfBounded
  <2>9. InBuckets' \in Nat /\ SleptFor' \in Nat
    BY <1>2, <2>4, HeapFinite
  <2>10. credit' = IF credit + m + k < m * cap + Token * k THEN credit + m + k
                   ELSE m * cap + Token * k
    BY <1>9 DEF Tick, TimeGoesBy, Bound, Smaller
  <2>11. Token * k = k * Token /\ m * cap \in Nat /\ k * Token \in Nat
    BY <1>2, <2>1
  <2>12. Worth' = InBuckets' + SleptFor' /\ Worth = InBuckets + SleptFor
    BY DEF Worth
  <2>13. CASE credit + m + k < m * cap + Token * k
    <3>1. credit' = credit + m + k
      BY <2>10, <2>13
    <3>2. credit >= InBuckets + SleptFor
      BY <1>1, <2>12
    <3>3. /\ m \in Nat /\ k \in Nat /\ credit \in Int
          /\ InBuckets \in Nat /\ SleptFor \in Nat
      BY <1>2, <2>1
    <3>4. credit + m + k >= (InBuckets + m) + (SleptFor + k)
      BY <3>2, <3>3
    <3>5. (InBuckets + m) + (SleptFor + k) >= InBuckets' + SleptFor'
      BY <2>5, <2>6, <2>9, <3>3
    <3> QED BY <2>9, <2>12, <3>1, <3>3, <3>4, <3>5
  <2>14. CASE ~(credit + m + k < m * cap + Token * k)
    BY <1>1, <1>2, <2>7, <2>8, <2>9, <2>10, <2>11, <2>12, <2>14
  <2> QED BY <2>13, <2>14
<1>10. CASE UNCHANGED vars
  <2>1. UNCHANGED <<cap, tokens, credit, pc, left>>
    BY <1>10 DEF vars, callers, history
  <2>2. Saved' = Saved
    BY <2>1 DEF Saved
  <2>3. UNCHANGED <<cap, tokens, credit>>
    BY <2>1
  <2> QED BY <1>3, <2>2, <2>3
<1> QED BY <1>4, <1>5, <1>6, <1>7, <1>8, <1>9, <1>10 DEF Next, GoOn

\* In any stretch of time no more calls are let through than full buckets, their
\* refill and the time the callers slept pay for (LimitBounded; TokenBucket,
\* _check_rate_limit), however many buckets the race for the first one makes.
THEOREM RateIsBounded == Spec => []LimitBounded
<1>1. Init => LimitInv
  <2> SUFFICES ASSUME Init PROVE LimitInv
    OBVIOUS
  <2>1. BucketsOK /\ CallersOK /\ PlacesOK
    BY TypeInit, TypeParts
  <2>2. OneEach
    BY DEF Init, OneEach
  <2>3. InBuckets <= 0 /\ SleptFor <= 0
    <3>1. {} \in SUBSET Callers /\ Cardinality({}) = 0 /\ 0 * cap = 0 /\ 0 * Token = 0
      BY <2>1, Units, FS_EmptySet
    <3>2. tokens \in [Callers -> 0..cap] /\ Saved \in [Callers -> 0..Token]
      BY <2>1, SavedType DEF BucketsOK
    <3>3. \A c \in Callers : tokens[c] = 0 /\ Saved[c] = 0
      BY DEF Init, Saved
    <3>4. cap \in Nat /\ Token \in Nat
      BY <2>1, Units
    <3> QED BY <3>1, <3>2, <3>3, <3>4, SumOfBounded DEF InBuckets, SleptFor
  <2>4. InBuckets \in Nat /\ SleptFor \in Nat
    BY <2>1, WorthType
  <2>5. credit \in Nat
    <3>1. Token \in Nat /\ Cardinality(Callers) \in Nat /\ credit = Token * Cardinality(Callers)
      BY <2>1, Units DEF Init
    <3> QED BY <3>1
  <2> QED BY <2>1, <2>2, <2>3, <2>4, <2>5 DEF LimitInv, Worth
<1>2. LimitInv /\ [Next]_vars => LimitInv'
  BY LimitStep, BucketsStep, CallersStep, OneEachStep DEF LimitInv
<1>3. LimitInv => LimitBounded
  BY WorthType, Units DEF LimitInv, LimitBounded, Worth
<1> QED BY <1>1, <1>2, <1>3, PTL DEF Spec

=============================================================================
