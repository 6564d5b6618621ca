------------------------- MODULE RateLimiterProofs -------------------------
(***************************************************************************)
(* Proofs about RateLimiter, for any keys, handlers, rates, burst, idle     *)
(* window and delay between clock and lock: type correctness, the limit,    *)
(* and that denials are justified.                                          *)
(***************************************************************************)
EXTENDS RateLimiter, TLAPS

-----------------------------------------------------------------------------
(* The inductive invariant *)

\* What x ticks refill.
Units(x) == x * Refill

\* The tokens bucket b would have at time x if nothing but time passed and there
\* were no cap.
Level(b, x) == b.tokens + Units(x) - Units(b.last)

\* The use of key k by requests that read a time from a on.
Since(k, a) == used[k][a][MaxTime]

\* Requests do not wait longer for the lock than the delay.
Prompt == \A h \in Handlers : waiting[h] # None => clock - waiting[h].now <= MaxDelay

\* Longer intervals have more use, and none is after the clock.
UseGrows ==
    \A k \in Keys : \A a, b \in Times :
        /\ used[k][a][b] <= Since(k, a)
        /\ b >= clock => used[k][a][b] = Since(k, a)

\* The bucket has lost every token that was used since a time at which it was
\* full at best.
UseTaken(k, b) ==
    \A a \in Times : Since(k, a) = 0 \/ Since(k, a) + Level(b, a) <= Burst

\* The earliest time a request can have read that gets the lock when the clock is
\* at a or later.
Earliest(a) == IF a >= MaxDelay THEN a - MaxDelay ELSE 0

\* Since it was full at some time the bucket has lost no token that was not used.
NothingElseTaken(k, b) ==
    \E a \in Times :
        a <= clock /\ Burst - Since(k, Earliest(a)) <= Level(b, a)

\* A bucket is not in debt, unless to a request that read a later time.
BucketInv(k) ==
    LET b == buckets[k]
    IN  b # None => /\ UseTaken(k, b) /\ NothingElseTaken(k, b)
                    /\ Level(b, clock) >= 0
                    /\ b.tokens + Units(MaxDelay) >= 0

\* A key without a bucket may have a full one: it would have been refilled.
MissingInv(k) ==
    buckets[k] = None =>
        \A a \in Times :
            Since(k, a) = 0 \/ Since(k, a) + Units(a) <= Units(clock) - Units(MaxDelay)

LimiterInv ==
    /\ Prompt /\ UseGrows
    /\ \A k \in Keys : BucketInv(k) /\ MissingInv(k)
    /\ RateBounded

-----------------------------------------------------------------------------
(* Arithmetic *)

\* Refills add up and grow with time.
LEMMA UnitsLinear ==
    /\ Units(0) = 0
    /\ \A x \in Int : Units(x) \in Int
    /\ \A x, y \in Int : Units(x + y) = Units(x) + Units(y)
    /\ \A x, y \in Int : Units(x - y) = Units(x) - Units(y)
    /\ \A x, y \in Int : x <= y => Units(x) <= Units(y)
<1>0. Refill \in Nat
  BY RateLimiterAssumption
<1>1. \A x, y \in Int : (x + y) * Refill = x * Refill + y * Refill
  BY <1>0
<1>2. \A x, y \in Int : (x - y) * Refill = x * Refill - y * Refill
  BY <1>0
<1>3. \A x, y \in Int : x <= y => x * Refill <= y * Refill
  BY <1>0
<1> QED
  BY <1>0, <1>1, <1>2, <1>3 DEF Units

\* The constants as the proofs use them.
LEMMA Constants ==
    /\ Cost \in Int /\ Cost > 0 /\ Burst \in Int /\ Burst >= 0
    /\ IdleEvic \in Int /\ MaxDelay \in Int /\ MaxDelay >= 0 /\ MaxTime \in Nat
    /\ Units(MaxDelay) \in Int /\ Units(MaxDelay) >= 0
    /\ \A x, y \in Int : Refill * (x - y) = Units(x) - Units(y)
    /\ Refill * (2 * MaxDelay) = Units(MaxDelay) + Units(MaxDelay)
    /\ Units(IdleEvic + 1 - 2 * MaxDelay) >= Burst
    /\ Units(IdleEvic + 1) >= Burst + Units(MaxDelay) + Units(MaxDelay)
<1>0. /\ Cost \in Nat \ {0} /\ Burst \in Nat /\ IdleEvic \in Nat /\ MaxDelay \in Nat
      /\ MaxTime \in Nat /\ Refill \in Nat
  BY RateLimiterAssumption
<1>1. Units(MaxDelay) \in Int /\ Units(MaxDelay) >= 0
  <2>1. 0 \in Int /\ MaxDelay \in Int /\ 0 <= MaxDelay
    BY <1>0
  <2>2. Units(0) <= Units(MaxDelay) /\ Units(MaxDelay) \in Int
    BY <2>1, UnitsLinear
  <2> QED
    BY <2>2, UnitsLinear
<1>2. \A x, y \in Int : Refill * (x - y) = Units(x) - Units(y)
  <2>1. \A x, y \in Int : Refill * (x - y) = (x - y) * Refill
    BY <1>0
  <2> QED
    BY <2>1, UnitsLinear DEF Units
<1>3. Units(MaxDelay + MaxDelay) = Units(MaxDelay) + Units(MaxDelay)
  BY <1>0, UnitsLinear
<1>4. Refill * (2 * MaxDelay) = (MaxDelay + MaxDelay) * Refill
  BY <1>0
<1>5. Units(IdleEvic + 1 - 2 * MaxDelay) >= Burst
  BY IdleWindowAssumption DEF Units
<1>6. IdleEvic + 1 - 2 * MaxDelay = (IdleEvic + 1) - (MaxDelay + MaxDelay)
  BY <1>0
<1>7. Units((IdleEvic + 1) - (MaxDelay + MaxDelay))
        = Units(IdleEvic + 1) - Units(MaxDelay + MaxDelay)
  BY <1>0, UnitsLinear
<1>8. Units(IdleEvic + 1) \in Int
  BY <1>0, UnitsLinear
<1>9. Refill * (2 * MaxDelay) = Units(MaxDelay) + Units(MaxDelay)
  BY <1>3, <1>4 DEF Units
<1>10. Units(IdleEvic + 1) >= Burst + Units(MaxDelay) + Units(MaxDelay)
  BY <1>0, <1>1, <1>3, <1>5, <1>6, <1>7, <1>8
<1> QED
  BY <1>0, <1>1, <1>2, <1>5, <1>9, <1>10

\* Times are integers between 0 and the last one.
LEMMA TimesAre ==
    /\ \A x \in Times : x \in Int /\ 0 <= x /\ x <= MaxTime /\ Units(x) \in Int
    /\ MaxTime \in Times /\ 0 \in Times
    /\ \A x, y \in Times : x <= y => Units(x) <= Units(y)
<1>1. MaxTime \in Nat
  BY RateLimiterAssumption
<1>2. \A x \in Times : x \in Int /\ 0 <= x /\ x <= MaxTime
  BY <1>1 DEF Times
<1>3. MaxTime \in Times /\ 0 \in Times
  BY <1>1 DEF Times
<1> QED
  BY <1>2, <1>3, UnitsLinear

\* The level of a bucket is the integer the refill starts from.
LEMMA RefilledIs ==
    ASSUME NEW b \in Buckets, NEW now \in Times
    PROVE  /\ b.tokens \in Int /\ b.last \in Times /\ Level(b, now) \in Int
           /\ Refilled(b, now) = IF Level(b, now) > Burst THEN Burst ELSE Level(b, now)
           /\ Refilled(b, now) \in Int /\ Refilled(b, now) <= Burst
<1>1. b.tokens \in Int /\ b.last \in Times
  BY DEF Buckets
<1>2. now \in Int /\ b.last \in Int
  BY <1>1, TimesAre
<1>3. (now - b.last) * Refill = Units(now) - Units(b.last)
  <2>1. Units(now - b.last) = Units(now) - Units(b.last)
    BY <1>2, UnitsLinear
  <2> QED
    BY <2>1 DEF Units
<1>4. Units(now) \in Int /\ Units(b.last) \in Int
  BY <1>2, UnitsLinear
<1>5. Level(b, now) \in Int
  BY <1>1, <1>4 DEF Level
<1>6. b.tokens + (now - b.last) * Refill = Level(b, now)
  BY <1>1, <1>3, <1>4 DEF Level
<1>7. Refilled(b, now) = IF Level(b, now) > Burst THEN Burst ELSE Level(b, now)
  BY <1>6 DEF Refilled
<1> QED
  BY <1>1, <1>5, <1>7, Constants

-----------------------------------------------------------------------------
(* Type correctness *)

\* A bucket is not a missing one, a request in progress not a missing one.
LEMMA NotNone ==
    /\ \A b \in Buckets : b # None
    /\ \A q \in Requests : q # None
<1>1. DOMAIN None = {"none"}
  BY DEF None
<1>2. \A b \in Buckets : DOMAIN b = {"tokens", "last", "seen"}
  BY DEF Buckets
<1>3. \A q \in Requests : DOMAIN q = {"key", "now"}
  BY DEF Requests
<1>4. {"none"} # {"tokens", "last", "seen"} /\ {"none"} # {"key", "now"}
  OBVIOUS
<1> QED
  BY <1>1, <1>2, <1>3, <1>4, Zenon

\* The bucket Decide works on, after looking it up or making it, and the one it
\* leaves.
LEMMA DecideTyped ==
    ASSUME TypeOK, NEW h \in Handlers, Decide(h)
    PROVE  LET k == waiting[h].key
               now == waiting[h].now
               b == Bucket(k, now)
               t == Refilled(b, now)
               n == [tokens |-> IF t >= Cost THEN t - Cost ELSE t, last |-> now, seen |-> now]
           IN  /\ k \in Keys /\ now \in Times /\ now <= clock /\ waiting[h] \in Requests
               /\ b \in Buckets /\ n \in Buckets /\ n.tokens <= Burst
               /\ n.last = now /\ n.seen = now
               /\ n.tokens = IF t >= Cost THEN t - Cost ELSE t
               /\ buckets' = Evicted([buckets EXCEPT ![k] = n], now)
               /\ used' = IF t >= Cost THEN [used EXCEPT ![k] = Charged(k, now)] ELSE used
               /\ waiting' = [waiting EXCEPT ![h] = None]
               /\ UNCHANGED clock
<1> DEFINE k == waiting[h].key
           now == waiting[h].now
           b == Bucket(k, now)
           t == Refilled(b, now)
           n == [tokens |-> IF t >= Cost THEN t - Cost ELSE t, last |-> now, seen |-> now]
<1>1. waiting[h] \in Requests /\ waiting[h] # None
  BY DEF Decide, TypeOK
<1>2. k \in Keys /\ now \in Times /\ now <= clock
  BY <1>1 DEF Requests, TypeOK
<1>3. b \in Buckets
  <2>1. [tokens |-> Burst, last |-> now, seen |-> now] \in Buckets
    BY <1>2, Constants DEF Buckets
  <2> QED
    BY <1>2, <2>1 DEF Bucket, TypeOK
<1>4. t \in Int /\ t <= Burst
  BY <1>2, <1>3, RefilledIs
<1> HIDE DEF t, now
<1>5. n \in Buckets /\ n.tokens <= Burst
  <2> DEFINE x == IF t >= Cost THEN t - Cost ELSE t
  <2>1. x \in Int /\ x <= Burst
    BY <1>4, Constants
  <2> HIDE DEF x
  <2>2. [tokens |-> x, last |-> now, seen |-> now] \in Buckets
    BY <1>2, <2>1 DEF Buckets
  <2> QED
    BY <2>1, <2>2 DEF x
<1> QED
  BY <1>1, <1>2, <1>3, <1>5 DEF Decide, t, now

\* The map of buckets after a decision: that of the key is the new one, others
\* are kept or dropped.
LEMMA DecideBuckets ==
    ASSUME TypeOK, NEW k \in Keys, NEW now \in Times, NEW n \in Buckets, n.seen = now,
           buckets' = Evicted([buckets EXCEPT ![k] = n], now)
    PROVE  /\ buckets' \in [Keys -> Buckets \cup {None}]
           /\ buckets'[k] = n
           /\ \A j \in Keys \ {k} :
                 \/ buckets'[j] = buckets[j]
                 \/ /\ buckets'[j] = None /\ buckets[j] # None
                    /\ now - buckets[j].seen > IdleEvic
<1> DEFINE m == [buckets EXCEPT ![k] = n]
<1>1. m \in [Keys -> Buckets \cup {None}] /\ m[k] = n /\ \A j \in Keys \ {k} : m[j] = buckets[j]
  BY DEF TypeOK
<1> HIDE DEF m
<1>2. \A j \in Keys :
          buckets'[j] = IF m[j] # None /\ now - m[j].seen > IdleEvic THEN None ELSE m[j]
  BY DEF Evicted, m
<1>3. ~(now - n.seen > IdleEvic)
  BY RateLimiterAssumption, TimesAre
<1>4. buckets' \in [Keys -> Buckets \cup {None}]
  <2>1. buckets' = [j \in Keys |->
            IF m[j] # None /\ now - m[j].seen > IdleEvic THEN None ELSE m[j]]
    BY DEF Evicted, m
  <2> QED
    BY <1>1, <2>1
<1>5. buckets'[k] = n
  BY <1>1, <1>2, <1>3
<1> QED
  BY <1>1, <1>2, <1>4, <1>5

\* A charge adds the cost to every interval around the reading.
LEMMA ChargedTyped ==
    ASSUME TypeOK, NEW k \in Keys, NEW now \in Times
    PROVE  /\ Charged(k, now) \in [Times -> [Times -> Nat]]
           /\ \A a, b \in Times :
                 Charged(k, now)[a][b] = IF a <= now /\ now <= b THEN used[k][a][b] + Cost
                                         ELSE used[k][a][b]
<1>1. \A a, b \in Times : used[k][a][b] \in Nat
  BY DEF TypeOK
<1>2. \A a, b \in Times : used[k][a][b] + Cost \in Nat
  BY <1>1, RateLimiterAssumption
<1> QED
  BY <1>1, <1>2 DEF Charged

\* Nothing is used and no bucket exists at the start.
LEMMA InitTypeOK == Init => TypeOK
BY TimesAre DEF Init, TypeOK

\* Every step keeps the types.
LEMMA StepTypeOK == TypeOK /\ [Next]_vars => TypeOK'
<1> SUFFICES ASSUME TypeOK, [Next]_vars PROVE TypeOK'
  OBVIOUS
<1>0. clock \in Times /\ clock \in Int
  BY TimesAre DEF TypeOK
<1>1. ASSUME NEW h \in Handlers, NEW k \in Keys, Arrive(h, k) PROVE TypeOK'
  <2>1. [key |-> k, now |-> clock] \in Requests
    BY <1>0 DEF Requests
  <2>2. waiting' \in [Handlers -> Requests \cup {None}]
    BY <1>1, <2>1 DEF Arrive, TypeOK
  <2>3. \A g \in Handlers : waiting'[g] # None => waiting'[g].now <= clock
    BY <1>0, <1>1 DEF Arrive, TypeOK
  <2> QED
    BY <1>1, <2>2, <2>3 DEF Arrive, TypeOK
<1>2. ASSUME NEW h \in Handlers, Decide(h) PROVE TypeOK'
  <2> DEFINE k == waiting[h].key
             now == waiting[h].now
             t == Refilled(Bucket(k, now), now)
             n == [tokens |-> IF t >= Cost THEN t - Cost ELSE t, last |-> now, seen |-> now]
  <2>1. /\ k \in Keys /\ now \in Times /\ now <= clock
        /\ n \in Buckets /\ n.tokens <= Burst /\ n.last = now /\ n.seen = now
        /\ buckets' = Evicted([buckets EXCEPT ![k] = n], now)
        /\ used' = IF t >= Cost THEN [used EXCEPT ![k] = Charged(k, now)] ELSE used
        /\ waiting' = [waiting EXCEPT ![h] = None]
        /\ UNCHANGED clock
    BY <1>2, DecideTyped
  <2> HIDE DEF n, t, k, now
  <2>2. /\ buckets' \in [Keys -> Buckets \cup {None}] /\ buckets'[k] = n
        /\ \A j \in Keys \ {k} : buckets'[j] = buckets[j] \/ buckets'[j] = None
    BY <2>1, DecideBuckets
  <2>3. \A j \in Keys : buckets'[j] # None =>
            /\ buckets'[j].tokens <= Burst
            /\ buckets'[j].last <= clock /\ buckets'[j].seen = buckets'[j].last
    BY <2>1, <2>2 DEF TypeOK
  <2>4. used' \in [Keys -> [Times -> [Times -> Nat]]]
    BY <2>1, ChargedTyped DEF TypeOK
  <2>5. /\ waiting' \in [Handlers -> Requests \cup {None}]
        /\ \A g \in Handlers : waiting'[g] # None => waiting'[g].now <= clock
    BY <2>1 DEF TypeOK
  <2> QED
    BY <2>1, <2>2, <2>3, <2>4, <2>5 DEF TypeOK
<1>3. CASE Tick
  <2>1. clock' \in Times /\ clock' = clock + 1
    BY <1>0, <1>3, Constants DEF Tick, Times
  <2>2. \A j \in Keys : buckets[j] # None => buckets[j].last \in Int
    BY TimesAre DEF TypeOK, Buckets
  <2>3. \A g \in Handlers : waiting[g] # None => waiting[g].now \in Int
    BY TimesAre DEF TypeOK, Requests
  <2> QED
    BY <1>0, <1>3, <2>1, <2>2, <2>3 DEF Tick, TypeOK
<1>4. CASE UNCHANGED vars
  BY <1>4 DEF vars, TypeOK
<1> QED
  BY <1>1, <1>2, <1>3, <1>4 DEF Next

\* Type correctness: no bucket of the limiter holds more than burst or is newer
\* than the clock.
THEOREM RateLimiterTypes == Spec => []TypeOK
BY InitTypeOK, StepTypeOK, PTL DEF Spec

-----------------------------------------------------------------------------
(* The limit *)

\* The integers the invariant compares.
LEMMA UseTyped ==
    ASSUME TypeOK, NEW k \in Keys
    PROVE  \A a, b \in Times : used[k][a][b] \in Nat /\ Since(k, a) \in Nat
BY TimesAre DEF TypeOK, Since

\* The level of a bucket moves with the refill.
LEMMA LevelMoves ==
    ASSUME NEW b \in Buckets, NEW x \in Times, NEW y \in Times
    PROVE  /\ Level(b, x) \in Int
           /\ Level(b, x) = Level(b, y) + Units(x) - Units(y)
<1>1. b.tokens \in Int /\ b.last \in Times
  BY DEF Buckets
<1>2. Units(x) \in Int /\ Units(y) \in Int /\ Units(b.last) \in Int
  BY <1>1, TimesAre
<1> QED
  BY <1>1, <1>2 DEF Level

\* A request gets the lock no later than the delay after its reading.
LEMMA PromptUnits ==
    ASSUME NEW t \in Times, NEW now \in Times, now <= t, t - now <= MaxDelay
    PROVE  /\ Units(now) <= Units(t) /\ Units(t) <= Units(now) + Units(MaxDelay)
<1>1. now \in Int /\ t \in Int /\ t <= now + MaxDelay /\ now + MaxDelay \in Int
  BY TimesAre, Constants
<1>2. Units(t) <= Units(now + MaxDelay)
  BY <1>1, UnitsLinear
<1>3. Units(now + MaxDelay) = Units(now) + Units(MaxDelay)
  BY <1>1, UnitsLinear, Constants
<1> QED
  BY <1>2, <1>3, TimesAre

\* What the invariant says of the bucket Decide works on, also when it has to
\* make one.
LEMMA BucketFound ==
    ASSUME TypeOK, LimiterInv, NEW k \in Keys, NEW now \in Times,
           now <= clock, clock - now <= MaxDelay, Bucket(k, now) \in Buckets
    PROVE  /\ UseTaken(k, Bucket(k, now)) /\ Level(Bucket(k, now), clock) >= 0
           /\ \/ Refilled(Bucket(k, now), now) = Burst
              \/ NothingElseTaken(k, Bucket(k, now))
<1> DEFINE b == Bucket(k, now)
<1>1. CASE buckets[k] # None
  BY <1>1 DEF LimiterInv, BucketInv, Bucket
<1>2. CASE buckets[k] = None
  <2>1. b.tokens = Burst /\ b.last = now
    BY <1>2 DEF Bucket
  <2>2. \A a \in Times : Level(b, a) = Burst + Units(a) - Units(now)
    BY <2>1 DEF Level
  <2>3. clock \in Times /\ Units(clock) <= Units(now) + Units(MaxDelay)
        /\ Units(now) <= Units(clock)
    BY PromptUnits DEF TypeOK
  <2>4. ASSUME NEW a \in Times PROVE Since(k, a) = 0 \/ Since(k, a) + Level(b, a) <= Burst
    <3>1. Since(k, a) = 0 \/ Since(k, a) + Units(a) <= Units(clock) - Units(MaxDelay)
      BY <1>2 DEF LimiterInv, MissingInv
    <3>2. /\ Since(k, a) \in Nat /\ Units(a) \in Int /\ Units(now) \in Int /\ Units(clock) \in Int
          /\ Units(MaxDelay) \in Int /\ Burst \in Int
      BY <2>3, UseTyped, TimesAre, Constants
    <3> QED
      BY <2>2, <2>3, <3>1, <3>2
  <2>5. Units(now) \in Int /\ Units(clock) \in Int /\ Burst \in Int /\ Burst >= 0
    BY <2>3, TimesAre, Constants
  <2>6. Level(b, now) = Burst
    BY <2>2, <2>5
  <2>7. Refilled(b, now) = Burst
    BY <2>5, <2>6, RefilledIs
  <2>8. Level(b, clock) >= 0
    BY <2>2, <2>3, <2>5
  <2> QED
    BY <2>4, <2>7, <2>8 DEF UseTaken
<1> QED
  BY <1>1, <1>2

\* The reading of a request that gets the lock is not before the earliest one of
\* any time up to the clock.
LEMMA EarliestBefore ==
    ASSUME TypeOK, NEW a \in Times, a <= clock, NEW now \in Times, clock - now <= MaxDelay
    PROVE  Earliest(a) \in Times /\ Earliest(a) <= now /\ Earliest(a) <= a
<1>1. clock \in Int /\ a \in Int /\ now \in Int /\ 0 <= now /\ 0 <= a /\ a <= MaxTime
  BY TimesAre DEF TypeOK
<1>2. MaxDelay \in Int /\ MaxDelay >= 0 /\ MaxTime \in Nat
  BY Constants
<1>3. CASE a >= MaxDelay
  BY <1>1, <1>2, <1>3 DEF Earliest, Times
<1>4. CASE ~(a >= MaxDelay)
  BY <1>1, <1>2, <1>4 DEF Earliest, Times
<1> QED
  BY <1>3, <1>4

\* The units used after a decision.
LEMMA DecideUse ==
    ASSUME TypeOK, LimiterInv, NEW k \in Keys, NEW now \in Times, now <= clock, NEW t \in Int,
           used' = IF t >= Cost THEN [used EXCEPT ![k] = Charged(k, now)] ELSE used,
           UNCHANGED clock
    PROVE  /\ \A j \in Keys \ {k} : used'[j] = used[j]
           /\ \A a, b \in Times : used'[k][a][b] =
                 IF t >= Cost /\ a <= now /\ now <= b THEN used[k][a][b] + Cost ELSE used[k][a][b]
           /\ \A a \in Times : used'[k][a][MaxTime] =
                 IF t >= Cost /\ a <= now THEN Since(k, a) + Cost ELSE Since(k, a)
           /\ UseGrows'
<1>1. \A j \in Keys \ {k} : used'[j] = used[j]
  BY DEF TypeOK
<1>2. \A a, b \in Times : used'[k][a][b] =
          IF t >= Cost /\ a <= now /\ now <= b THEN used[k][a][b] + Cost ELSE used[k][a][b]
  BY ChargedTyped DEF TypeOK
<1>3. MaxTime \in Times /\ now <= MaxTime
  BY TimesAre
<1>4. \A a \in Times : used'[k][a][MaxTime] =
          IF t >= Cost /\ a <= now THEN Since(k, a) + Cost ELSE Since(k, a)
  BY <1>2, <1>3 DEF Since
<1>5. ASSUME NEW j \in Keys, NEW a \in Times, NEW b \in Times
      PROVE  /\ used'[j][a][b] <= used'[j][a][MaxTime]
             /\ b >= clock => used'[j][a][b] = used'[j][a][MaxTime]
  <2>1. used[j][a][b] <= Since(j, a) /\ (b >= clock => used[j][a][b] = Since(j, a))
    BY DEF LimiterInv, UseGrows
  <2>2. used[j][a][b] \in Nat /\ Since(j, a) \in Nat /\ Cost \in Int /\ Cost > 0
    BY UseTyped, Constants
  <2>3. a \in Int /\ b \in Int /\ now \in Int /\ clock \in Int
    BY TimesAre DEF TypeOK
  <2>4. CASE j # k
    BY <1>1, <2>1, <2>4 DEF Since
  <2>5. CASE j = k
    BY <1>2, <1>4, <2>1, <2>2, <2>3, <2>5
  <2> QED
    BY <2>4, <2>5
<1> QED
  BY <1>1, <1>2, <1>4, <1>5 DEF UseGrows, Since

\* A decision on a request of key k that read the time now, in terms of the
\* bucket b it found, the refilled tokens t and the bucket n it left.
Decided(k, now, b, t, n) ==
    /\ now <= clock /\ clock - now <= MaxDelay
    /\ b = Bucket(k, now) /\ b \in Buckets /\ t = Refilled(b, now)
    /\ n \in Buckets /\ n.last = now /\ n.seen = now
    /\ n.tokens = IF t >= Cost THEN t - Cost ELSE t
    /\ buckets' = Evicted([buckets EXCEPT ![k] = n], now)
    /\ used' = IF t >= Cost THEN [used EXCEPT ![k] = Charged(k, now)] ELSE used
    /\ UNCHANGED clock

\* Decide takes such a decision.
LEMMA DecideDecides ==
    ASSUME TypeOK, LimiterInv, NEW h \in Handlers, Decide(h)
    PROVE  \E k \in Keys, now \in Times, b \in Buckets, t \in Int, n \in Buckets :
              /\ Decided(k, now, b, t, n) /\ k = waiting[h].key /\ now = waiting[h].now
              /\ waiting' = [waiting EXCEPT ![h] = None] /\ waiting[h] # None
<1> DEFINE k == waiting[h].key
           now == waiting[h].now
           b == Bucket(k, now)
           t == Refilled(b, now)
           n == [tokens |-> IF t >= Cost THEN t - Cost ELSE t, last |-> now, seen |-> now]
<1>1. /\ k \in Keys /\ now \in Times /\ now <= clock /\ waiting[h] \in Requests
      /\ b \in Buckets /\ n \in Buckets /\ n.last = now /\ n.seen = now
      /\ n.tokens = IF t >= Cost THEN t - Cost ELSE t
      /\ buckets' = Evicted([buckets EXCEPT ![k] = n], now)
      /\ used' = IF t >= Cost THEN [used EXCEPT ![k] = Charged(k, now)] ELSE used
      /\ waiting' = [waiting EXCEPT ![h] = None]
      /\ UNCHANGED clock
  BY DecideTyped
<1>2. waiting[h] # None /\ clock - now <= MaxDelay
  BY <1>1, NotNone DEF LimiterInv, Prompt
<1>3. Decided(k, now, b, t, n)
  BY <1>1, <1>2, Zenon DEF Decided
<1>4. t \in Int
  <2>1. b \in Buckets /\ now \in Times
    BY <1>1, Zenon
  <2> HIDE DEF b, now
  <2> QED
    BY <2>1, RefilledIs DEF t
<1> HIDE DEF b, t, n
<1> QED
  BY <1>1, <1>2, <1>3, <1>4, Zenon

\* The bucket a decision leaves has lost the tokens that were used, is not in
\* debt at the current time, and has lost no others.
LEMMA DecidedBucket ==
    ASSUME TypeOK, LimiterInv, NEW k \in Keys, NEW now \in Times, NEW b, NEW t, NEW n,
           Decided(k, now, b, t, n)
    PROVE  /\ UseTaken(k, n)' /\ NothingElseTaken(k, n)'
           /\ Level(n, clock) >= 0 /\ n.tokens + Units(MaxDelay) >= 0
<1>0. /\ now <= clock /\ clock - now <= MaxDelay /\ clock \in Times
      /\ b = Bucket(k, now) /\ b \in Buckets /\ t = Refilled(b, now)
      /\ n \in Buckets /\ n.last = now /\ n.tokens = IF t >= Cost THEN t - Cost ELSE t
      /\ used' = IF t >= Cost THEN [used EXCEPT ![k] = Charged(k, now)] ELSE used
      /\ UNCHANGED clock
  BY DEF Decided, TypeOK
<1>1. /\ UseTaken(k, b) /\ Level(b, clock) >= 0
      /\ t = Burst \/ NothingElseTaken(k, b)
  BY <1>0, BucketFound
<1>2. /\ Level(b, now) \in Int /\ t \in Int
      /\ t = IF Level(b, now) > Burst THEN Burst ELSE Level(b, now)
  BY <1>0, RefilledIs
<1>3. \A a \in Times : used'[k][a][MaxTime] =
          IF t >= Cost /\ a <= now THEN Since(k, a) + Cost ELSE Since(k, a)
  BY <1>0, <1>2, DecideUse
<1>4. /\ Cost \in Int /\ Cost > 0 /\ Burst \in Int /\ Burst >= 0
      /\ Units(MaxDelay) \in Int /\ Units(MaxDelay) >= 0
  BY Constants
<1>5. n.tokens \in Int
  BY <1>0, <1>2, <1>4
<1>6. ASSUME NEW a \in Times
      PROVE  /\ Level(n, a) = n.tokens + Units(a) - Units(now)
             /\ Level(b, a) = Level(b, now) + Units(a) - Units(now)
             /\ Level(b, a) \in Int /\ Units(a) \in Int /\ Units(now) \in Int
             /\ Since(k, a) \in Nat /\ a \in Int /\ now \in Int
             /\ a <= now => Units(a) <= Units(now)
  <2>1. Level(n, a) = n.tokens + Units(a) - Units(now)
    BY <1>0 DEF Level
  <2>2. Level(b, a) = Level(b, now) + Units(a) - Units(now) /\ Level(b, a) \in Int
    BY <1>0, LevelMoves
  <2>3. /\ Units(a) \in Int /\ Units(now) \in Int /\ a \in Int /\ now \in Int
        /\ a <= now => Units(a) <= Units(now)
    BY TimesAre
  <2>4. Since(k, a) \in Nat
    BY UseTyped
  <2> QED
    BY <2>1, <2>2, <2>3, <2>4
<1>7. UseTaken(k, n)'
  <2> SUFFICES ASSUME NEW a \in Times
               PROVE  \/ used'[k][a][MaxTime] = 0
                      \/ used'[k][a][MaxTime] + Level(n, a) <= Burst
    BY DEF UseTaken, Since, Level
  <2>1. Since(k, a) = 0 \/ Since(k, a) + Level(b, a) <= Burst
    BY <1>1 DEF UseTaken
  <2> QED
    BY <1>0, <1>2, <1>3, <1>4, <1>6, <2>1
<1>8. Level(n, clock) >= 0 /\ n.tokens + Units(MaxDelay) >= 0
  <2>1. Units(now) <= Units(clock) /\ Units(clock) <= Units(now) + Units(MaxDelay)
    BY <1>0, PromptUnits
  <2>2. Level(n, clock) >= 0
    BY <1>0, <1>1, <1>2, <1>4, <1>6, <2>1
  <2> QED
    BY <1>0, <1>4, <1>5, <1>6, <2>1, <2>2
<1>9. NothingElseTaken(k, n)'
  <2>1. CASE t = Burst
    <3> DEFINE lo == Earliest(now)
    <3>1. lo \in Times /\ lo <= now
      BY <1>0, EarliestBefore
    <3>2. used'[k][lo][MaxTime] = IF t >= Cost THEN Since(k, lo) + Cost ELSE Since(k, lo)
      BY <1>3, <3>1
    <3>3. Since(k, lo) \in Nat
      BY <1>6, <3>1
    <3>4. Level(n, now) = n.tokens
      BY <1>5, <1>6
    <3>5. Burst - used'[k][lo][MaxTime] <= Level(n, now)
      <4>1. n.tokens = IF t >= Cost THEN t - Cost ELSE t
        BY <1>0
      <4> HIDE DEF lo
      <4> QED
        BY <1>4, <2>1, <3>2, <3>3, <3>4, <4>1
    <3>6. \E a \in Times : a <= clock /\ Burst - used'[k][Earliest(a)][MaxTime] <= Level(n, a)
      BY <1>0, <3>5
    <3> QED
      BY <1>0, <3>6 DEF NothingElseTaken, Since, Level, Earliest
  <2>2. CASE t # Burst
    <3>1. PICK a \in Times : a <= clock /\ Burst - Since(k, Earliest(a)) <= Level(b, a)
      BY <1>1, <2>2 DEF NothingElseTaken
    <3> DEFINE lo == Earliest(a)
    <3>2. lo \in Times /\ lo <= now
      BY <1>0, <3>1, EarliestBefore
    <3>3. used'[k][lo][MaxTime] = IF t >= Cost THEN Since(k, lo) + Cost ELSE Since(k, lo)
      BY <1>3, <3>2
    <3>4. Since(k, lo) \in Nat
      BY <1>6, <3>2
    <3>5. t = Level(b, now)
      BY <1>2, <2>2
    <3>6. Burst - used'[k][lo][MaxTime] <= Level(n, a)
      <4>1. /\ Level(n, a) = n.tokens + Units(a) - Units(now)
            /\ Level(b, a) = Level(b, now) + Units(a) - Units(now)
            /\ Units(a) \in Int /\ Units(now) \in Int
        BY <1>6
      <4>2. n.tokens = IF t >= Cost THEN t - Cost ELSE t
        BY <1>0
      <4> HIDE DEF lo
      <4>3. Burst - Since(k, lo) <= Level(b, a)
        BY <3>1 DEF lo
      <4> QED
        BY <1>2, <1>4, <3>3, <3>4, <3>5, <4>1, <4>2, <4>3
    <3> QED
      BY <1>0, <3>1, <3>6 DEF NothingElseTaken, Since, Level, Earliest
  <2> QED
    BY <2>1, <2>2
<1> QED
  BY <1>7, <1>8, <1>9

\* A decision lets a request pass only within the limit.
LEMMA DecidedWithinLimit ==
    ASSUME TypeOK, LimiterInv, NEW k \in Keys, NEW now \in Times, NEW b, NEW t, NEW n,
           Decided(k, now, b, t, n)
    PROVE  RateBounded' /\ UseGrows'
<1>0. /\ now <= clock /\ b \in Buckets /\ t = Refilled(b, now)
      /\ n \in Buckets /\ n.last = now /\ n.tokens = IF t >= Cost THEN t - Cost ELSE t
      /\ used' = IF t >= Cost THEN [used EXCEPT ![k] = Charged(k, now)] ELSE used
      /\ UNCHANGED clock
  BY DEF Decided
<1>1. t \in Int
  BY <1>0, RefilledIs
<1>2. /\ \A j \in Keys \ {k} : used'[j] = used[j]
      /\ \A a, c \in Times : used'[k][a][c] =
            IF t >= Cost /\ a <= now /\ now <= c THEN used[k][a][c] + Cost ELSE used[k][a][c]
      /\ \A a \in Times : used'[k][a][MaxTime] =
            IF t >= Cost /\ a <= now THEN Since(k, a) + Cost ELSE Since(k, a)
      /\ UseGrows'
  BY <1>0, <1>1, DecideUse
<1>3. UseTaken(k, n)'
  BY DecidedBucket
<1>4. ASSUME NEW j \in Keys, NEW a \in Times, NEW c \in a..MaxTime
      PROVE  used'[j][a][c] <= Burst + Refill * (c - a)
  <2>0. a \in Int /\ a >= 0 /\ MaxTime \in Nat
    BY TimesAre, Constants
  <2>1. c \in Times /\ c \in Int /\ a <= c
    BY <2>0 DEF Times
  <2>2. Refill * (c - a) = Units(c) - Units(a)
    BY <2>0, <2>1, Constants
  <2>3. used[j][a][c] <= Burst + Refill * (c - a)
    BY DEF LimiterInv, RateBounded
  <2>4. CASE j = k /\ t >= Cost /\ a <= now /\ now <= c
    <3>1. used'[k][a][MaxTime] = Since(k, a) + Cost /\ Since(k, a) \in Nat
      BY <1>2, <2>4, UseTyped
    <3>2. Cost \in Int /\ Cost > 0 /\ Burst \in Int
      BY Constants
    <3>3. used'[k][a][MaxTime] + Level(n, a) <= Burst
      <4>1. used'[k][a][MaxTime] = 0 \/ used'[k][a][MaxTime] + Level(n, a) <= Burst
        BY <1>3 DEF UseTaken, Since, Level
      <4> QED
        BY <3>1, <3>2, <4>1
    <3>4. used'[k][a][c] <= used'[k][a][MaxTime]
      BY <1>2, <2>1 DEF UseGrows, Since
    <3>5. Level(n, a) = n.tokens + Units(a) - Units(now) /\ n.tokens = t - Cost
      BY <1>0, <2>4 DEF Level
    <3>6. Units(a) \in Int /\ Units(now) \in Int /\ Units(c) \in Int /\ Units(now) <= Units(c)
      BY <2>1, <2>4, TimesAre
    <3>7. used'[k][a][c] \in Int
      <4>1. used[k][a][c] \in Nat
        BY <2>1, UseTyped
      <4> QED
        BY <1>2, <2>1, <2>4, <3>2, <4>1
    <3> HIDE DEF RateBounded
    <3>8. used'[k][a][c] <= Burst + (Units(c) - Units(a))
      BY <1>1, <2>4, <3>1, <3>2, <3>3, <3>4, <3>5, <3>6, <3>7
    <3> QED
      BY <2>2, <2>4, <3>8
  <2>5. CASE ~(j = k /\ t >= Cost /\ a <= now /\ now <= c)
    <3>1. used'[j][a][c] = used[j][a][c]
      BY <1>2, <2>1, <2>5
    <3> QED
      BY <2>3, <3>1
  <2> QED
    BY <2>4, <2>5
<1> QED
  BY <1>2, <1>4 DEF RateBounded

\* Another key's bucket that the decision drops has been idle long enough to be
\* full again.
LEMMA DroppedWasFull ==
    ASSUME TypeOK, LimiterInv, NEW j \in Keys, NEW now \in Times, now <= clock,
           buckets[j] # None, now - buckets[j].seen > IdleEvic
    PROVE  \A a \in Times :
              Since(j, a) = 0 \/ Since(j, a) + Units(a) <= Units(clock) - Units(MaxDelay)
<1> DEFINE b == buckets[j]
           l == b.last
<1>1. b \in Buckets /\ b.seen = l /\ l \in Times /\ b.tokens \in Int /\ clock \in Times
  BY DEF TypeOK, Buckets
<1>2. UseTaken(j, b) /\ b.tokens + Units(MaxDelay) >= 0
  BY DEF LimiterInv, BucketInv
<1>3. Units(l) + Units(IdleEvic + 1) <= Units(clock)
  <2>1. l \in Int /\ now \in Int /\ clock \in Int /\ IdleEvic \in Int
    BY <1>1, TimesAre, Constants
  <2>2. l + (IdleEvic + 1) <= clock
    BY <1>1, <2>1
  <2> DEFINE m == IdleEvic + 1
  <2>3. m \in Int /\ l + m \in Int /\ l + m <= clock
    BY <2>1, <2>2
  <2> HIDE DEF m, l
  <2>4. Units(l + m) = Units(l) + Units(m)
    BY <2>1, <2>3, UnitsLinear
  <2>5. Units(l + m) <= Units(clock)
    BY <2>1, <2>3, UnitsLinear
  <2> QED
    BY <2>4, <2>5 DEF m
<1>4. /\ Units(IdleEvic + 1) >= Burst + Units(MaxDelay) + Units(MaxDelay)
      /\ Burst \in Int /\ Units(MaxDelay) \in Int /\ Units(IdleEvic + 1) \in Int
  BY Constants, UnitsLinear
<1>5. ASSUME NEW a \in Times
      PROVE  Since(j, a) = 0 \/ Since(j, a) + Units(a) <= Units(clock) - Units(MaxDelay)
  <2>1. Since(j, a) = 0 \/ Since(j, a) + Level(b, a) <= Burst
    BY <1>2 DEF UseTaken
  <2>2. Level(b, a) = b.tokens + Units(a) - Units(l)
    BY DEF Level
  <2>3. Since(j, a) \in Nat /\ Units(a) \in Int /\ Units(l) \in Int /\ Units(clock) \in Int
    BY <1>1, TimesAre, UseTyped
  <2> HIDE DEF l, b
  <2> QED
    BY <1>1, <1>2, <1>3, <1>4, <2>1, <2>2, <2>3
<1> QED
  BY <1>5

\* Every decision keeps the invariant.
LEMMA DecideLimiterInv ==
    ASSUME TypeOK, LimiterInv, NEW h \in Handlers, Decide(h)
    PROVE  LimiterInv'
<1>1. PICK k \in Keys, now \in Times, b \in Buckets, t \in Int, n \in Buckets :
          /\ Decided(k, now, b, t, n)
          /\ waiting' = [waiting EXCEPT ![h] = None]
  BY DecideDecides
<1>2. /\ now <= clock /\ n \in Buckets /\ n.seen = now /\ UNCHANGED clock
      /\ b \in Buckets /\ t = Refilled(b, now)
      /\ buckets' = Evicted([buckets EXCEPT ![k] = n], now)
      /\ used' = IF t >= Cost THEN [used EXCEPT ![k] = Charged(k, now)] ELSE used
  BY <1>1 DEF Decided
<1>3. /\ buckets'[k] = n
      /\ \A j \in Keys \ {k} :
            \/ buckets'[j] = buckets[j]
            \/ /\ buckets'[j] = None /\ buckets[j] # None
               /\ now - buckets[j].seen > IdleEvic
  BY <1>2, DecideBuckets
<1>4. \A j \in Keys \ {k} : used'[j] = used[j]
  BY <1>2, RefilledIs, DecideUse
<1>5. Prompt'
  BY <1>1, <1>2 DEF LimiterInv, Prompt, TypeOK
<1>6. RateBounded' /\ UseGrows'
  BY <1>1, DecidedWithinLimit
<1>7. BucketInv(k)' /\ MissingInv(k)'
  <2>1. n # None
    BY <1>2, NotNone
  <2>2. /\ UseTaken(k, n)' /\ NothingElseTaken(k, n)'
        /\ Level(n, clock) >= 0 /\ n.tokens + Units(MaxDelay) >= 0
    BY <1>1, DecidedBucket
  <2> QED
    BY <1>2, <1>3, <2>1, <2>2 DEF BucketInv, MissingInv, Level, Units, UseTaken, NothingElseTaken
<1>8. ASSUME NEW j \in Keys \ {k} PROVE BucketInv(j)' /\ MissingInv(j)'
  <2>1. BucketInv(j) /\ MissingInv(j) /\ used'[j] = used[j]
    BY <1>4 DEF LimiterInv
  <2>2. CASE buckets'[j] = buckets[j]
    BY <1>2, <2>1, <2>2 DEF BucketInv, MissingInv, UseTaken, NothingElseTaken, Since, Level
  <2>3. CASE /\ buckets'[j] = None /\ buckets[j] # None
             /\ now - buckets[j].seen > IdleEvic
    <3>1. \A a \in Times :
              Since(j, a) = 0 \/ Since(j, a) + Units(a) <= Units(clock) - Units(MaxDelay)
      BY <1>2, <2>3, DroppedWasFull
    <3> QED
      BY <1>2, <2>1, <2>3, <3>1 DEF BucketInv, MissingInv, Since
  <2> QED
    BY <1>3, <2>2, <2>3
<1> QED
  BY <1>5, <1>6, <1>7, <1>8 DEF LimiterInv

\* Time passing refills the buckets.
LEMMA TickLimiterInv ==
    ASSUME TypeOK, LimiterInv, Tick
    PROVE  LimiterInv'
<1>1. /\ clock \in Times /\ clock' = clock + 1 /\ clock' \in Times
      /\ UNCHANGED <<buckets, waiting, used>>
  <2>1. clock \in Int /\ clock \in Times /\ 0 <= clock
    BY TimesAre DEF TypeOK
  <2>2. clock < MaxTime /\ clock' = clock + 1 /\ UNCHANGED <<buckets, waiting, used>>
    BY Zenon DEF Tick
  <2>3. clock' \in Times
    BY <2>1, <2>2, Constants DEF Times
  <2> QED
    BY <2>1, <2>2, <2>3
<1>2. clock \in Int /\ clock <= clock'
  BY <1>1, TimesAre
<1>3. Units(clock) <= Units(clock') /\ Units(clock) \in Int /\ Units(clock') \in Int
  BY <1>1, <1>2, TimesAre
<1>4. Prompt'
  <2>1. \A g \in Handlers : waiting[g] # None => waiting[g].now \in Int
    BY TimesAre DEF TypeOK, Requests
  <2>2. \A g \in Handlers : waiting[g] # None => clock - waiting[g].now < MaxDelay
    BY DEF Tick
  <2>3. MaxDelay \in Int
    BY Constants
  <2>4. \A g \in Handlers : waiting[g] # None => clock' - waiting[g].now <= MaxDelay
    BY <1>1, <1>2, <2>1, <2>2, <2>3
  <2> QED
    BY <1>1, <2>4 DEF Prompt
<1>5. UseGrows'
  <2>1. \A x \in Times : x >= clock' => x >= clock
    BY <1>1, <1>2, TimesAre
  <2> QED
    BY <1>1, <2>1 DEF LimiterInv, UseGrows, Since
<1>6. RateBounded'
  BY <1>1 DEF LimiterInv, RateBounded
<1>7. ASSUME NEW k \in Keys PROVE BucketInv(k)'
  <2> DEFINE b == buckets[k]
  <2> SUFFICES ASSUME b # None
               PROVE  /\ UseTaken(k, b)' /\ NothingElseTaken(k, b)'
                      /\ Level(b, clock') >= 0
                      /\ b.tokens + Units(MaxDelay) >= 0
    BY <1>1 DEF BucketInv, Level
  <2>1. b \in Buckets
    BY DEF TypeOK
  <2>2. /\ UseTaken(k, b) /\ NothingElseTaken(k, b) /\ Level(b, clock) >= 0
        /\ b.tokens + Units(MaxDelay) >= 0
    BY DEF LimiterInv, BucketInv
  <2>3. UseTaken(k, b)'
    BY <1>1, <2>2 DEF UseTaken, Since, Level
  <2>4. NothingElseTaken(k, b)'
    <3>1. \A a \in Times : a <= clock => a <= clock'
      BY <1>1, <1>2, TimesAre
    <3> QED
      BY <1>1, <2>2, <3>1 DEF NothingElseTaken, Since, Level, Earliest
  <2>5. Level(b, clock') >= 0
    <3>1. Level(b, clock') = Level(b, clock) + Units(clock') - Units(clock)
          /\ Level(b, clock) \in Int
      BY <1>1, <2>1, LevelMoves
    <3> QED
      BY <1>3, <2>2, <3>1
  <2> QED
    BY <2>2, <2>3, <2>4, <2>5
<1>8. ASSUME NEW k \in Keys PROVE MissingInv(k)'
  <2> SUFFICES ASSUME buckets[k] = None, NEW a \in Times
               PROVE  Since(k, a) = 0 \/ Since(k, a) + Units(a) <= Units(clock') - Units(MaxDelay)
    BY <1>1 DEF MissingInv, Since
  <2>1. Since(k, a) = 0 \/ Since(k, a) + Units(a) <= Units(clock) - Units(MaxDelay)
    BY DEF LimiterInv, MissingInv
  <2>2. Since(k, a) \in Nat /\ Units(a) \in Int /\ Units(MaxDelay) \in Int
    BY UseTyped, TimesAre, Constants
  <2> QED
    BY <1>3, <2>1, <2>2
<1> QED
  BY <1>4, <1>5, <1>6, <1>7, <1>8 DEF LimiterInv

\* Every step keeps the invariant.
LEMMA StepLimiterInv == TypeOK /\ LimiterInv /\ [Next]_vars => LimiterInv'
<1> SUFFICES ASSUME TypeOK, LimiterInv, [Next]_vars PROVE LimiterInv'
  OBVIOUS
<1>1. ASSUME UNCHANGED <<clock, buckets, used>>, Prompt' PROVE LimiterInv'
  BY <1>1 DEF LimiterInv, UseGrows, BucketInv, MissingInv, RateBounded, UseTaken,
              NothingElseTaken, Since, Level
<1>2. ASSUME NEW h \in Handlers, NEW k \in Keys, Arrive(h, k) PROVE LimiterInv'
  <2>1. UNCHANGED <<clock, buckets, used>>
    BY <1>2 DEF Arrive
  <2>2. clock \in Int
    BY TimesAre DEF TypeOK
  <2>3. waiting'[h].now = clock /\ \A g \in Handlers \ {h} : waiting'[g] = waiting[g]
    BY <1>2 DEF Arrive, TypeOK
  <2>4. clock - clock <= MaxDelay
    BY <2>2, Constants
  <2>5. Prompt'
    BY <2>1, <2>3, <2>4 DEF LimiterInv, Prompt
  <2> QED
    BY <1>1, <2>1, <2>5
<1>3. ASSUME NEW h \in Handlers, Decide(h) PROVE LimiterInv'
  BY <1>3, DecideLimiterInv
<1>4. CASE Tick
  BY <1>4, TickLimiterInv
<1>5. CASE UNCHANGED vars
  <2>1. Prompt'
    BY <1>5 DEF vars, LimiterInv, Prompt
  <2> QED
    BY <1>1, <1>5, <2>1 DEF vars
<1> QED
  BY <1>2, <1>3, <1>4, <1>5 DEF Next

\* Before the first request no limit is reached.
LEMMA InitLimiterInv == Init => LimiterInv
<1> SUFFICES ASSUME Init PROVE LimiterInv
  OBVIOUS
<1>1. \A k \in Keys : \A a, b \in Times : used[k][a][b] = 0
  BY DEF Init
<1>2. \A k \in Keys : \A a \in Times : Since(k, a) = 0
  BY <1>1, TimesAre DEF Since
<1>3. Prompt /\ UseGrows
  BY <1>1, <1>2 DEF Init, Prompt, UseGrows
<1>4. \A k \in Keys : BucketInv(k) /\ MissingInv(k)
  BY <1>2 DEF Init, BucketInv, MissingInv
<1>5. RateBounded
  <2> SUFFICES ASSUME NEW k \in Keys, NEW a \in Times, NEW b \in a..MaxTime
               PROVE  used[k][a][b] <= Burst + Refill * (b - a)
    BY DEF RateBounded
  <2>1. a \in Int /\ 0 <= a /\ MaxTime \in Nat /\ Burst \in Int /\ Burst >= 0
    BY TimesAre, Constants
  <2>2. b \in Times /\ b \in Int /\ a <= b
    BY <2>1 DEF Times
  <2>3. Refill * (b - a) = Units(b) - Units(a)
    BY <2>1, <2>2, Constants
  <2>4. Units(a) <= Units(b) /\ Units(a) \in Int /\ Units(b) \in Int
    BY <2>2, TimesAre
  <2>5. used[k][a][b] = 0
    BY <1>1, <2>2
  <2> QED
    BY <2>1, <2>3, <2>4, <2>5
<1> QED
  BY <1>3, <1>4, <1>5 DEF LimiterInv

\* The invariant of the limiter, kept together with the types.
LEMMA LimiterKept == Spec => [](TypeOK /\ LimiterInv)
<1>1. Init => TypeOK /\ LimiterInv
  BY InitTypeOK, InitLimiterInv
<1>2. TypeOK /\ LimiterInv /\ [Next]_vars => TypeOK' /\ LimiterInv'
  BY StepTypeOK, StepLimiterInv
<1> QED
  BY <1>1, <1>2, PTL DEF Spec

\* The limit of allow: over no interval of clock readings does a key get more
\* than a full bucket and the refill of the interval, however the readings of
\* concurrent requests overtake each other and whenever idle buckets are dropped.
THEOREM RateLimit == Spec => []RateBounded
<1>1. LimiterInv => RateBounded
  BY DEF LimiterInv
<1> QED
  BY <1>1, LimiterKept, PTL

-----------------------------------------------------------------------------
(* Denials *)

\* A denied request found its bucket without a token.
LEMMA DeniedShort ==
    ASSUME TypeOK, LimiterInv, NEW k \in Keys, NEW now \in Times, NEW b, NEW t, NEW n,
           Decided(k, now, b, t, n), used' = used
    PROVE  t \in Int /\ t < Cost
<1>1. /\ now <= clock /\ b \in Buckets /\ t = Refilled(b, now) /\ UNCHANGED clock
      /\ used' = IF t >= Cost THEN [used EXCEPT ![k] = Charged(k, now)] ELSE used
  BY DEF Decided
<1>2. t \in Int
  BY <1>1, RefilledIs
<1>3. used'[k][now][now] =
          IF t >= Cost /\ now <= now /\ now <= now THEN used[k][now][now] + Cost
          ELSE used[k][now][now]
  BY <1>1, <1>2, DecideUse
<1>4. used[k][now][now] \in Nat /\ now \in Int /\ Cost \in Int /\ Cost > 0
  BY UseTyped, TimesAre, Constants
<1> QED
  BY <1>2, <1>3, <1>4

\* The earliest reading is no more than the delay before.
LEMMA EarliestUnits ==
    ASSUME NEW a \in Times
    PROVE  Units(a) <= Units(Earliest(a)) + Units(MaxDelay)
<1>1. a \in Int /\ MaxDelay \in Int /\ Units(MaxDelay) \in Int /\ Units(a) \in Int
  BY TimesAre, Constants
<1>2. CASE a >= MaxDelay
  <2>1. Units(a - MaxDelay) = Units(a) - Units(MaxDelay)
    BY <1>1, UnitsLinear
  <2>2. Units(Earliest(a)) = Units(a) - Units(MaxDelay)
    BY <1>2, <2>1 DEF Earliest
  <2> QED
    BY <1>1, <2>2
<1>3. CASE ~(a >= MaxDelay)
  <2>1. Units(Earliest(a)) = 0
    BY <1>3, UnitsLinear DEF Earliest
  <2>2. a <= MaxDelay
    BY <1>1, <1>3
  <2>3. Units(a) <= Units(MaxDelay)
    BY <1>1, <2>2, UnitsLinear
  <2> QED
    BY <1>1, <2>1, <2>3
<1> QED
  BY <1>2, <1>3

\* A bucket without a token proves that its key is at the limit, up to two delays,
\* in an interval around the reading.
LEMMA ShortBucket ==
    ASSUME TypeOK, LimiterInv, NEW k \in Keys, NEW now \in Times, NEW b, NEW t, NEW n,
           Decided(k, now, b, t, n), t \in Int, t < Cost
    PROVE  \E x \in Times : \E y \in Times :
              /\ x <= now /\ now <= y
              /\ used[k][x][y] + Cost > Burst + Refill * (y - x) - Refill * (2 * MaxDelay)
<1>0. /\ now <= clock /\ clock - now <= MaxDelay /\ clock \in Times
      /\ b = Bucket(k, now) /\ b \in Buckets /\ t = Refilled(b, now)
  BY DEF Decided, TypeOK
<1>1. t = Burst \/ NothingElseTaken(k, b)
  BY <1>0, BucketFound
<1>2. Level(b, now) \in Int /\ (t = Burst \/ t = Level(b, now))
  BY <1>0, RefilledIs
<1>3. /\ Cost \in Int /\ Burst \in Int /\ Units(MaxDelay) \in Int /\ Units(MaxDelay) >= 0
      /\ Refill * (2 * MaxDelay) = Units(MaxDelay) + Units(MaxDelay)
      /\ \A x, y \in Times : Refill * (y - x) = Units(y) - Units(x)
  BY Constants, TimesAre
<1>4. CASE t = Burst
  <2>1. used[k][now][now] \in Nat /\ now \in Int /\ Units(now) \in Int
    BY UseTyped, TimesAre
  <2>2. Refill * (now - now) = Units(now) - Units(now)
    BY <1>3
  <2>3. used[k][now][now] + Cost > Burst + (Units(now) - Units(now))
                                    - (Units(MaxDelay) + Units(MaxDelay))
    BY <1>3, <1>4, <2>1
  <2>4. /\ now <= now
        /\ used[k][now][now] + Cost > Burst + Refill * (now - now) - Refill * (2 * MaxDelay)
    BY <1>3, <2>1, <2>2, <2>3
  <2> QED
    BY <2>4
<1>5. CASE t # Burst
  <2>1. PICK a \in Times : a <= clock /\ Burst - Since(k, Earliest(a)) <= Level(b, a)
    BY <1>1, <1>5 DEF NothingElseTaken
  <2> DEFINE lo == Earliest(a)
  <2>2. lo \in Times /\ lo <= now
    BY <1>0, <2>1, EarliestBefore
  <2>3. Units(a) <= Units(lo) + Units(MaxDelay)
    BY EarliestUnits
  <2>4. Burst - Since(k, lo) <= Level(b, a)
    BY <2>1
  <2> HIDE DEF lo
  <2>5. used[k][lo][clock] = Since(k, lo) /\ Since(k, lo) \in Nat
    <3>1. clock >= clock
      BY <1>0, TimesAre
    <3> QED
      BY <1>0, <2>2, <3>1, UseTyped DEF LimiterInv, UseGrows
  <2>6. Level(b, a) = Level(b, now) + Units(a) - Units(now)
    BY <1>0, LevelMoves
  <2>7. Units(clock) <= Units(now) + Units(MaxDelay)
    BY <1>0, PromptUnits
  <2>8. Units(a) \in Int /\ Units(lo) \in Int /\ Units(now) \in Int /\ Units(clock) \in Int
    BY <1>0, <2>2, TimesAre
  <2>9. used[k][lo][clock] + Cost > Burst + (Units(clock) - Units(lo))
                                     - (Units(MaxDelay) + Units(MaxDelay))
    <3>1. Level(b, now) < Cost
      BY <1>2, <1>5
    <3>2. Burst - Since(k, lo) < Cost + Units(a) - Units(now)
      BY <1>2, <1>3, <2>4, <2>5, <2>6, <2>8, <3>1
    <3> QED
      BY <1>3, <2>3, <2>5, <2>7, <2>8, <3>2
  <2>10. Refill * (clock - lo) = Units(clock) - Units(lo)
    BY <1>0, <1>3, <2>2
  <2>11. used[k][lo][clock] + Cost > Burst + Refill * (clock - lo) - Refill * (2 * MaxDelay)
    BY <1>3, <2>9, <2>10
  <2> QED
    BY <1>0, <2>2, <2>11
<1> QED
  BY <1>4, <1>5

\* Only a decision ends a request.
LEMMA DeniedDecided ==
    ASSUME TypeOK, Next, NEW h \in Handlers, Denied(h)
    PROVE  Decide(h)
<1>1. waiting[h] # None /\ waiting'[h] = None
  BY DEF Denied
<1>2. ASSUME NEW g \in Handlers, NEW k \in Keys, Arrive(g, k) PROVE FALSE
  <2>1. g # h
    BY <1>1, <1>2 DEF Arrive
  <2>2. waiting'[h] = waiting[h]
    BY <1>2, <2>1 DEF Arrive, TypeOK
  <2> QED
    BY <1>1, <2>2
<1>3. ASSUME NEW g \in Handlers, Decide(g), g # h PROVE FALSE
  <2>1. waiting' = [waiting EXCEPT ![g] = None]
    BY <1>3 DEF Decide
  <2>2. waiting'[h] = waiting[h]
    BY <1>3, <2>1 DEF TypeOK
  <2> QED
    BY <1>1, <2>2
<1>4. CASE Tick
  BY <1>1, <1>4 DEF Tick
<1> QED
  BY <1>2, <1>3, <1>4 DEF Next

\* allow turns a request away only when its own key is at the limit, up to what
\* two delays between clock and lock refill: neither another key's requests nor
\* the eviction of idle buckets ever costs a client a token.
THEOREM JustifiedDenials == Spec => DenialsJustified
<1>1. ASSUME TypeOK, LimiterInv, Next, NEW h \in Handlers, Denied(h)
      PROVE  \E a \in 0..waiting[h].now : \E b \in waiting[h].now..MaxTime :
                used[waiting[h].key][a][b] + Cost
                    > Burst + Refill * (b - a) - Refill * (2 * MaxDelay)
  <2>1. Decide(h)
    BY <1>1, DeniedDecided
  <2>2. PICK k \in Keys, now \in Times, b \in Buckets, t \in Int, n \in Buckets :
            Decided(k, now, b, t, n) /\ k = waiting[h].key /\ now = waiting[h].now
    BY <1>1, <2>1, DecideDecides
  <2>3. t \in Int /\ t < Cost
    BY <1>1, <2>2, DeniedShort DEF Denied
  <2>4. PICK x \in Times, y \in Times :
            /\ x <= now /\ now <= y
            /\ used[k][x][y] + Cost > Burst + Refill * (y - x) - Refill * (2 * MaxDelay)
    BY <1>1, <2>2, <2>3, ShortBucket
  <2>5. x \in 0..now /\ y \in now..MaxTime
    <3>1. x \in Int /\ y \in Int /\ now \in Int /\ 0 <= x /\ y <= MaxTime /\ MaxTime \in Int
      BY TimesAre, Constants
    <3> QED
      BY <2>4, <3>1
  <2> QED
    BY <2>2, <2>4, <2>5
<1>2. TypeOK /\ LimiterInv /\ [Next]_vars =>
        [\A h \in Handlers : Denied(h) =>
            \E a \in 0..waiting[h].now : \E b \in waiting[h].now..MaxTime :
                used[waiting[h].key][a][b] + Cost
                    > Burst + Refill * (b - a) - Refill * (2 * MaxDelay)]_vars
  BY <1>1, Zenon
<1> QED
  BY <1>2, LimiterKept, PTL DEF Spec, DenialsJustified
=============================================================================
