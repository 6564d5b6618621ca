--------------------------- MODULE LoadGenProofs ---------------------------
(***************************************************************************)
(* Proofs about LoadGen, for any number of workers, flags and durations:    *)
(* type correctness, the rate of the shared limiter, and that a backfill    *)
(* handles every document exactly once.                                     *)
(***************************************************************************)
EXTENDS LoadGen, TLAPS, FiniteSetTheorems

-----------------------------------------------------------------------------
(* Arithmetic *)

\* Min of two numbers.
LEMMA MinTwo ==
    ASSUME NEW a \in Int, NEW b \in Int
    PROVE  /\ Min({a, b}) \in {a, b}
           /\ Min({a, b}) <= a /\ Min({a, b}) <= b
<1> DEFINE P(x) == \A y \in {a, b} : x <= y
<1>1. \E x \in {a, b} : P(x)
  <2>1. CASE a <= b
    BY <2>1
  <2>2. CASE b <= a
    BY <2>2
  <2> QED
    BY <2>1, <2>2
<1>2. Min({a, b}) \in {a, b} /\ P(Min({a, b}))
  BY <1>1 DEF Min
<1> QED
  BY <1>2

\* Tokens per second, and tokens refilled since the last look, are naturals.
LEMMA ProductNat ==
    ASSUME NEW a \in Nat, NEW b \in Nat
    PROVE  a * b \in Nat
OBVIOUS

\* A rate above zero has a refill above zero.
LEMMA ProductPositive ==
    ASSUME NEW a \in Nat, NEW b \in Nat, a * b > 0
    PROVE  a > 0
OBVIOUS

\* The time to sleep for a deficit is a natural number of ticks.
LEMMA QuotientNat ==
    ASSUME NEW a \in Nat, NEW b \in Nat, b > 0
    PROVE  a \div b \in Nat
OBVIOUS

\* Counting a time down leaves it a natural and does not raise it.
LEMMA DownNat ==
    ASSUME NEW x \in Nat
    PROVE  Down(x) \in Nat /\ Down(x) <= x
BY DEF Down

-----------------------------------------------------------------------------
(* Type correctness *)

\* There are finitely many workers, so the channel has a capacity.
LEMMA WorkersCounted == Cardinality(Workers) \in Nat
BY LoadGenAssumption, FS_CardinalityType

\* The bucket as waitN sees it holds between nothing and a second's tokens.
LEMMA Typed ==
    ASSUME TypeOK
    PROVE  /\ conf.batch \in Nat \ {0} /\ conf.refill \in Nat /\ Ticks \in Nat \ {0}
           /\ Rate \in Nat /\ Refilled \in Nat /\ Refilled <= Rate
<1>1. conf.batch \in Nat \ {0} /\ conf.refill \in Nat /\ Ticks \in Nat \ {0}
  BY LoadGenAssumption DEF TypeOK
<1>2. Rate \in Nat
  BY <1>1, ProductNat DEF Rate
<1>3. allow \in Nat /\ since \in Nat
  BY LoadGenAssumption DEF TypeOK
<1>4. conf.refill * since \in Nat
  BY <1>1, <1>3, ProductNat
<1>5. allow + conf.refill * since \in Nat
  BY <1>3, <1>4
<1>6. Min({Rate, allow + conf.refill * since}) \in {Rate, allow + conf.refill * since}
      /\ Min({Rate, allow + conf.refill * since}) <= Rate
  <2> DEFINE r == allow + conf.refill * since
  <2>1. r \in Int /\ Rate \in Int
    BY <1>2, <1>5
  <2> HIDE DEF r
  <2>2. Min({Rate, r}) \in {Rate, r} /\ Min({Rate, r}) <= Rate
    BY <2>1, MinTwo, Zenon
  <2> QED
    BY <2>2 DEF r
<1>7. Refilled = Min({Rate, allow + conf.refill * since})
  BY DEF Refilled
<1> QED
  BY <1>1, <1>2, <1>5, <1>6, <1>7

\* The flags and the full bucket newLimiter starts with are typed.
LEMMA InitTyped == Init => TypeOK
<1> SUFFICES ASSUME Init
             PROVE  TypeOK
  OBVIOUS
<1>1. conf.refill \in Nat /\ Ticks \in Nat
  BY LoadGenAssumption DEF Init
<1>2. Rate \in Nat
  BY <1>1, ProductNat DEF Rate
<1>3. jobs \in Seq(Jobs) /\ Len(jobs) = 0
  BY DEF Init
<1>4. Len(jobs) <= 2 * Cardinality(Workers)
  BY <1>3, WorkersCounted
<1>5. worker \in [Workers -> WorkerStates]
  BY DEF Init, Running, WorkerStates
<1>6. remaining \in 0..Count /\ left \in 0..Duration /\ since \in 0..Ticks /\ meter \in Nat
  BY LoadGenAssumption DEF Init
<1>7. inserted \in Nat /\ updated \in Nat /\ written \subseteq Documents /\ failed \subseteq Documents
  BY DEF Init
<1>8. allow \in Nat
  BY <1>2 DEF Init
<1>9. conf \in [mode : Modes, batch : Batches, refill : Refills] /\ closed \in BOOLEAN
  BY DEF Init
<1> QED
  BY <1>3, <1>4, <1>5, <1>6, <1>7, <1>8, <1>9 DEF TypeOK

\* Every step of the feeder, a worker and the clock keeps the types: the last
\* batch is cut to what remains, and a grant never takes more than there is.
LEMMA StepTyped == TypeOK /\ [Next]_vars => TypeOK'
<1> DEFINE W == WorkerStates
<1> SUFFICES ASSUME TypeOK, [Next]_vars
             PROVE  TypeOK'
  OBVIOUS
<1>0. /\ conf.batch \in Nat \ {0} /\ conf.refill \in Nat /\ Ticks \in Nat \ {0}
      /\ Rate \in Nat /\ Refilled \in Nat /\ Refilled <= Rate
  BY Typed
<1>a. worker \in [Workers -> W] /\ jobs \in Seq(Jobs)
  BY DEF TypeOK
<1>1. CASE Feed
  <2> DEFINE b == Min({conf.batch, remaining})
  <2>1. remaining \in Nat /\ remaining > 0
    BY <1>1, LoadGenAssumption DEF Feed, TypeOK
  <2>2. b \in {conf.batch, remaining} /\ b <= remaining
    <3>1. conf.batch \in Int /\ remaining \in Int
      BY <1>0, <2>1
    <3> QED
      BY <3>1, MinTwo, Zenon
  <2>3. b \in Nat
    BY <1>0, <2>1, <2>2
  <2>4. jobs' = Append(jobs, Batch(b)) /\ remaining' = remaining - b /\ Len(jobs) < 2 * Cardinality(Workers)
    BY <1>1 DEF Feed
  <2> HIDE DEF b
  <2>5. jobs' \in Seq(Jobs) /\ Len(jobs') = Len(jobs) + 1
    <3>1. Batch(b) \in Jobs
      <4>1. remaining <= Count /\ Count \in Nat
        BY LoadGenAssumption DEF TypeOK
      <4>2. (Count - remaining + 1)..(Count - remaining + b) \subseteq Documents
        BY <2>1, <2>2, <2>3, <4>1 DEF Documents
      <4> QED
        BY <2>3, <4>2 DEF Batch, Jobs
    <3> QED
      BY <1>a, <2>4, <3>1
  <2>6. Len(jobs') <= 2 * Cardinality(Workers)
    BY <1>a, <2>4, <2>5, WorkersCounted
  <2>7. remaining' \in 0..Count
    BY <2>1, <2>2, <2>3, <2>4, LoadGenAssumption DEF TypeOK
  <2> QED
    BY <1>1, <2>5, <2>6, <2>7 DEF Feed, TypeOK, limiter, counters
<1>2. CASE Close
  BY <1>2 DEF Close, TypeOK, limiter, counters
<1>3. CASE Tick
  <2>1. since' \in 0..Ticks
    <3>1. since \in 0..Ticks
      BY DEF TypeOK
    <3>2. Ticks \in Int /\ since + 1 \in Int /\ since \in Nat
      BY <1>0, <3>1
    <3>3. since' = Min({Ticks, since + 1})
      BY <1>3 DEF Tick
    <3>4. since' \in {Ticks, since + 1} /\ since' <= Ticks
      BY <3>2, <3>3, MinTwo, Zenon
    <3> QED
      BY <1>0, <3>2, <3>4
  <2>2. left' \in 0..Duration
    <3>1. left \in Nat /\ left <= Duration /\ Duration \in Nat
      BY LoadGenAssumption DEF TypeOK
    <3>2. Down(left) \in Nat /\ Down(left) <= left
      BY <3>1, DownNat
    <3>3. left' = Down(left)
      BY <1>3 DEF Tick
    <3> QED
      BY <3>1, <3>2, <3>3
  <2>3. worker' \in [Workers -> W]
    <3>1. worker' = [w \in Workers |-> [worker[w] EXCEPT !.sleep = Down(worker[w].sleep)]]
      BY <1>3 DEF Tick
    <3>2. ASSUME NEW w \in Workers
          PROVE  [worker[w] EXCEPT !.sleep = Down(worker[w].sleep)] \in W
      <4>1. worker[w] \in W /\ worker[w].sleep \in Nat
        BY <1>a DEF WorkerStates
      <4>2. Down(worker[w].sleep) \in Nat
        BY <4>1, DownNat
      <4> QED
        BY <4>1, <4>2 DEF WorkerStates
    <3> QED
      BY <3>1, <3>2
  <2>4. meter' \in Nat
    BY <1>0, <1>3 DEF Tick, TypeOK
  <2> QED
    BY <1>3, <2>1, <2>2, <2>3, <2>4 DEF Tick, TypeOK, feeder, counters
<1>4. ASSUME NEW w \in Workers, Work(w)
      PROVE  TypeOK'
  <2>0. worker[w] \in W /\ worker[w].n \in Nat
    BY <1>a DEF WorkerStates
  <2>1. CASE Take(w)
    <3>1. Head(jobs) \in Jobs /\ Tail(jobs) \in Seq(Jobs) /\ Len(Tail(jobs)) <= Len(jobs)
      BY <1>a, <2>1 DEF Take
    <3>2. worker' \in [Workers -> W]
      BY <1>a, <2>1, <3>1 DEF Take, WorkerStates, Jobs
    <3>3. jobs' \in Seq(Jobs) /\ Len(jobs') <= 2 * Cardinality(Workers)
      BY <1>a, <2>1, <3>1, WorkersCounted DEF Take, TypeOK
    <3> QED
      BY <2>1, <3>2, <3>3 DEF Take, TypeOK, limiter, counters
  <2>2. CASE Continue(w)
    <3>1. worker' \in [Workers -> W]
      BY <1>0, <1>a, <2>2 DEF Continue, WorkerStates
    <3> QED
      BY <2>2, <3>1 DEF Continue, TypeOK, feeder, limiter, counters
  <2>3. CASE Quit(w)
    <3>1. worker' \in [Workers -> W]
      BY <1>a, <2>3 DEF Quit, MoveTo, WorkerStates
    <3> QED
      BY <2>3, <3>1 DEF Quit, TypeOK, feeder, limiter, counters
  <2>4. CASE Grant(w)
    <3>1. worker' \in [Workers -> W]
      BY <1>a, <2>4 DEF Grant, MoveTo, WorkerStates
    <3>2. allow' \in Nat /\ since' \in 0..Ticks /\ meter' \in Nat
      <4>1. CASE Rate <= 0
        BY <2>4, <4>1 DEF Grant, TypeOK, limiter
      <4>2. CASE ~(Rate <= 0)
        BY <1>0, <2>0, <2>4, <4>2 DEF Grant, TypeOK
      <4> QED
        BY <4>1, <4>2
    <3> QED
      BY <2>4, <3>1, <3>2 DEF Grant, TypeOK, feeder, counters
  <2>5. CASE Sleep(w)
    <3>1. conf.refill > 0
      BY <1>0, <2>5, ProductPositive DEF Sleep, Rate
    <3>2. worker[w].n - Refilled \in Nat
      BY <1>0, <2>0, <2>5 DEF Sleep
    <3>3. (worker[w].n - Refilled) \div conf.refill \in Nat
      BY <1>0, <3>1, <3>2, QuotientNat
    <3>4. worker' \in [Workers -> W]
      BY <1>a, <2>5, <3>3 DEF Sleep, WorkerStates
    <3>5. allow' \in Nat /\ since' \in 0..Ticks
      BY <1>0, <2>5 DEF Sleep
    <3> QED
      BY <2>5, <3>4, <3>5 DEF Sleep, TypeOK, feeder, counters
  <2>6. CASE Wake(w)
    <3>1. worker' \in [Workers -> W]
      BY <1>a, <2>6 DEF Wake, MoveTo, WorkerStates
    <3> QED
      BY <2>6, <3>1 DEF Wake, TypeOK, feeder, limiter, counters
  <2>7. CASE Insert(w) \/ InsertError(w) \/ Update(w)
    <3>1. worker' \in [Workers -> W]
      BY <1>a, <2>7 DEF Insert, InsertError, Update, MoveTo, WorkerStates
    <3>2. inserted' \in Nat /\ updated' \in Nat /\ written' \subseteq Documents
          /\ failed' \subseteq Documents
      <4>1. /\ inserted \in Nat /\ updated \in Nat /\ written \subseteq Documents
            /\ failed \subseteq Documents /\ worker[w].docs \subseteq Documents
        BY <2>0 DEF TypeOK, WorkerStates
      <4>2. CASE Insert(w)
        BY <2>0, <4>1, <4>2 DEF Insert
      <4>3. CASE InsertError(w)
        BY <2>0, <4>1, <4>3 DEF InsertError
      <4>4. CASE Update(w)
        BY <2>0, <4>1, <4>4 DEF Update
      <4> QED
        BY <2>7, <4>2, <4>3, <4>4
    <3>3. UNCHANGED <<conf, feeder, limiter, left>>
      BY <2>7 DEF Insert, InsertError, Update
    <3> QED
      BY <3>1, <3>2, <3>3 DEF TypeOK, feeder, limiter
  <2> QED
    BY <1>4, <2>1, <2>2, <2>3, <2>4, <2>5, <2>6, <2>7 DEF Work
<1>5. CASE UNCHANGED vars
  BY <1>5 DEF vars, TypeOK, feeder, limiter, counters
<1> QED
  BY <1>1, <1>2, <1>3, <1>4, <1>5 DEF Next

\* Type correctness of the load generator: the channel never exceeds its
\* capacity, the tokens and the documents still to be sent never go below zero.
THEOREM LoadTypeCorrect == Spec => []TypeOK
BY InitTyped, StepTyped, PTL DEF Spec

-----------------------------------------------------------------------------
(* The rate *)

\* The strengthening of RateBounded: what the bucket could still grant now and
\* the excess of the past grants fit into one bucket together.
BucketInv == Rate > 0 => Refilled + meter <= Rate

\* One more tick adds one more refill.
LEMMA OneMoreTick ==
    ASSUME NEW a \in Nat, NEW s \in Nat, NEW t \in Nat, t <= s + 1
    PROVE  a * t <= a * s + a
<1>1. CASE t = s + 1
  BY <1>1
<1>2. CASE t <= s
  <2>1. a * (s - t) \in Nat
    BY <1>2, ProductNat
  <2>2. a * s = a * t + a * (s - t)
    OBVIOUS
  <2> QED
    BY <2>1, <2>2, ProductNat
<1> QED
  BY <1>1, <1>2

\* Refilled is the smaller of the rate and the uncapped amount.
LEMMA RefilledIs ==
    ASSUME TypeOK
    PROVE  /\ conf.refill * since \in Nat
           /\ Refilled = IF Rate <= allow + conf.refill * since THEN Rate
                         ELSE allow + conf.refill * since
<1> DEFINE r == allow + conf.refill * since
<1>1. conf.refill * since \in Nat /\ allow \in Nat
  <2>1. since \in Nat /\ allow \in Nat
    BY LoadGenAssumption DEF TypeOK
  <2> QED
    BY <2>1, Typed, ProductNat
<1>2. r \in Int /\ Rate \in Int
  BY <1>1, Typed
<1>3. Refilled = Min({Rate, r})
  BY DEF Refilled
<1> HIDE DEF r
<1>4. Min({Rate, r}) \in {Rate, r} /\ Min({Rate, r}) <= Rate /\ Min({Rate, r}) <= r
  BY <1>2, MinTwo, Zenon
<1>5. Refilled = IF Rate <= r THEN Rate ELSE r
  BY <1>2, <1>3, <1>4
<1> QED
  BY <1>1, <1>5 DEF r

\* The step of each action: a grant moves tokens from the bucket to the meter,
\* a tick adds no more to the bucket than it takes from the meter, a worker
\* that goes to sleep only notes what the bucket holds.
LEMMA BucketStep == TypeOK /\ TypeOK' /\ BucketInv /\ [Next]_vars => BucketInv'
<1> SUFFICES ASSUME TypeOK, TypeOK', BucketInv, [Next]_vars, Rate' > 0
             PROVE  (Refilled + meter)' <= Rate'
  BY DEF BucketInv
<1>0. conf' = conf
  BY DEF Next, vars, Feed, Close, Tick, Work, Take, Continue, Quit, Grant, Sleep, Wake,
         Insert, InsertError, Update
<1>1. /\ Rate' = Rate /\ Rate \in Nat /\ Rate > 0 /\ conf.refill \in Nat /\ Refilled \in Nat
      /\ Refilled <= Rate /\ Refilled + meter <= Rate /\ meter \in Nat
  BY <1>0, Typed DEF Rate, BucketInv, TypeOK
<1>2. allow \in Nat /\ since \in Nat /\ allow' \in Nat /\ since' \in Nat
  BY LoadGenAssumption DEF TypeOK
<1>3. /\ conf.refill * since' \in Nat
      /\ Refilled' = IF Rate <= allow' + conf.refill * since' THEN Rate
                     ELSE allow' + conf.refill * since'
  <2> DEFINE r == allow' + conf.refill * since'
  <2>1. conf.refill * since' \in Nat
    BY <1>1, <1>2, ProductNat
  <2>2. r \in Int /\ Rate \in Int
    BY <1>1, <1>2, <2>1
  <2>3. Refilled' = Min({Rate, r})
    BY <1>0, <1>1 DEF Refilled
  <2> HIDE DEF r
  <2>4. Min({Rate, r}) \in {Rate, r} /\ Min({Rate, r}) <= Rate /\ Min({Rate, r}) <= r
    BY <2>2, MinTwo, Zenon
  <2>5. Refilled' = IF Rate <= r THEN Rate ELSE r
    BY <2>2, <2>3, <2>4
  <2> QED
    BY <2>1, <2>5 DEF r
<1>4. CASE UNCHANGED limiter
  BY <1>1, <1>3, <1>4, RefilledIs DEF limiter
<1>5. CASE Tick
  <2>1. since' <= since + 1
    <3>1. Ticks \in Int /\ since + 1 \in Int
      BY <1>2, Typed
    <3>2. since' = Min({Ticks, since + 1})
      BY <1>5 DEF Tick
    <3> QED
      BY <3>1, <3>2, MinTwo, Zenon
  <2>2. conf.refill * since' <= conf.refill * since + conf.refill
    BY <1>1, <1>2, <2>1, OneMoreTick
  <2>3. Refilled' <= Rate /\ Refilled' <= Refilled + conf.refill
    <3> DEFINE p == conf.refill * since
               q == conf.refill * since'
    <3>1. p \in Nat /\ q \in Nat /\ q <= p + conf.refill /\ allow' = allow
      BY <1>3, <1>5, <2>2, RefilledIs DEF Tick
    <3>2. /\ Refilled = IF Rate <= allow + p THEN Rate ELSE allow + p
          /\ Refilled' = IF Rate <= allow' + q THEN Rate ELSE allow' + q
      BY <1>3, RefilledIs
    <3> HIDE DEF p, q
    <3> QED
      BY <1>1, <1>2, <3>1, <3>2
  <2>4. Refilled' \in Nat
    BY <1>3, <1>1, <1>2
  <2>5. meter' = IF meter > conf.refill THEN meter - conf.refill ELSE 0
    BY <1>5 DEF Tick
  <2>6. CASE meter > conf.refill
    <3>1. meter' = meter - conf.refill
      BY <2>5, <2>6
    <3>2. Refilled' + meter' <= Rate
      BY <1>1, <2>3, <2>4, <2>6, <3>1
    <3> QED
      BY <1>1, <3>2
  <2>7. CASE ~(meter > conf.refill)
    <3>1. meter' \in Nat /\ meter' <= 0
      BY <2>5, <2>7
    <3>2. Refilled' + meter' <= Rate
      <4> DEFINE x == Refilled'
                 y == meter'
      <4>1. x \in Nat /\ y \in Nat /\ y <= 0 /\ x <= Rate /\ Rate \in Nat
        BY <1>1, <2>3, <2>4, <3>1
      <4> HIDE DEF x, y
      <4>2. x + y <= Rate
        BY <4>1
      <4> QED
        BY <4>2 DEF x, y
    <3> QED
      BY <1>1, <3>2
  <2> QED
    BY <2>6, <2>7
<1>6. ASSUME NEW w \in Workers, Grant(w), ~ UNCHANGED limiter
      PROVE  (Refilled + meter)' <= Rate'
  <2>1. /\ Refilled >= worker[w].n /\ allow' = Refilled - worker[w].n
        /\ since' = 0 /\ meter' = meter + worker[w].n
    BY <1>6, <1>1 DEF Grant
  <2>2. worker[w].n \in Nat
    BY DEF TypeOK, WorkerStates
  <2>3. conf.refill * since' = 0
    BY <1>1, <2>1
  <2>4. Refilled' = Refilled - worker[w].n
    <3>1. allow' + conf.refill * since' = Refilled - worker[w].n
      BY <1>1, <2>1, <2>2, <2>3
    <3>2. Refilled' = IF Rate <= Refilled - worker[w].n THEN Rate ELSE Refilled - worker[w].n
      BY <1>3, <3>1
    <3> QED
      BY <1>1, <2>1, <2>2, <3>2
  <2> QED
    BY <1>1, <2>1, <2>2, <2>4
<1>7. ASSUME NEW w \in Workers, Sleep(w)
      PROVE  (Refilled + meter)' <= Rate'
  <2>1. allow' = Refilled /\ since' = 0 /\ meter' = meter
    BY <1>7 DEF Sleep
  <2>2. conf.refill * since' = 0
    BY <1>1, <2>1
  <2>3. Refilled' = Refilled
    BY <1>1, <1>3, <2>1, <2>2
  <2> QED
    BY <1>1, <2>1, <2>3
<1>8. CASE Feed \/ Close \/ UNCHANGED vars
  BY <1>4, <1>8 DEF Feed, Close, vars
<1>9. ASSUME NEW w \in Workers,
             \/ Take(w) \/ Continue(w) \/ Quit(w) \/ Wake(w)
             \/ Insert(w) \/ InsertError(w) \/ Update(w)
      PROVE  UNCHANGED limiter
  BY <1>9 DEF Take, Continue, Quit, Wake, Insert, InsertError, Update
<1> QED
  BY <1>4, <1>5, <1>6, <1>7, <1>8, <1>9 DEF Next, Work

\* The rate of the load generator: however many workers share the limiter and
\* whenever they look at the clock, the grants of no interval exceed its refill
\* by more than a full bucket.
THEOREM LoadRateBounded == Spec => []RateBounded
<1>1. Init => BucketInv
  <2> SUFFICES ASSUME Init
               PROVE  BucketInv
    OBVIOUS
  <2>1. Rate \in Nat /\ Refilled \in Nat /\ Refilled <= Rate /\ meter = 0
    BY InitTyped, Typed DEF Init
  <2> QED
    BY <2>1 DEF BucketInv
<1>2. TypeOK /\ BucketInv => RateBounded
  <2> SUFFICES ASSUME TypeOK, BucketInv, Rate > 0
               PROVE  meter <= Rate
    BY DEF RateBounded
  <2>1. Rate \in Nat /\ Refilled \in Nat /\ meter \in Nat /\ Refilled + meter <= Rate
    BY Typed DEF BucketInv, TypeOK
  <2> QED
    BY <2>1
<1> QED
  BY <1>1, <1>2, BucketStep, LoadTypeCorrect, PTL DEF Spec

-----------------------------------------------------------------------------
(* Every document once *)

\* The strengthening of EveryDocumentOnce: the number a job or a worker carries
\* is the size of the batch it stands for, so that the counters count documents.
Sized ==
    conf.mode = "backfill" =>
        /\ \A i \in DOMAIN jobs : jobs[i].n = Cardinality(jobs[i].docs)
        /\ \A w \in Workers : worker[w].at \in {"wait", "sleep", "write"} =>
                                  worker[w].n = Cardinality(worker[w].docs)

OnceInv == EveryDocumentOnce /\ Sized

\* Parts without the tuple.
LEMMA PartsIs ==
    ASSUME NEW a, NEW b, NEW c, NEW d, NEW e
    PROVE  Parts(a, b, c, d, e) <=>
               /\ a \cup b \cup c \cup d \cup e = Documents
               /\ a \cap b = {} /\ a \cap c = {} /\ a \cap d = {} /\ a \cap e = {}
               /\ b \cap c = {} /\ b \cap d = {} /\ b \cap e = {}
               /\ c \cap d = {} /\ c \cap e = {} /\ d \cap e = {}
<1> DEFINE parts == <<a, b, c, d, e>>
<1>1. /\ parts[1] = a /\ parts[2] = b /\ parts[3] = c /\ parts[4] = d /\ parts[5] = e
  OBVIOUS
<1>2. 1..5 = {1, 2, 3, 4, 5}
  OBVIOUS
<1> HIDE DEF parts
<1>3. UNION {parts[i] : i \in 1..5} = a \cup b \cup c \cup d \cup e
  BY <1>1, <1>2
<1>4. (\A i, j \in 1..5 : i # j => parts[i] \cap parts[j] = {}) <=>
          /\ a \cap b = {} /\ a \cap c = {} /\ a \cap d = {} /\ a \cap e = {}
          /\ b \cap c = {} /\ b \cap d = {} /\ b \cap e = {}
          /\ c \cap d = {} /\ c \cap e = {} /\ d \cap e = {}
  BY <1>1, <1>2
<1>5. Parts(a, b, c, d, e) <=>
          /\ UNION {parts[i] : i \in 1..5} = Documents
          /\ \A i, j \in 1..5 : i # j => parts[i] \cap parts[j] = {}
  BY DEF Parts, parts
<1> QED
  BY <1>3, <1>4, <1>5

\* A batch that moves from one part to the next leaves them parts.
LEMMA PartsMove ==
    ASSUME NEW a, NEW b, NEW c, NEW d, NEW e, NEW D, NEW r, D \cap r = {}
    PROVE  /\ Parts(a, b, c, d, e) /\ a = D \cup r => Parts(r, b \cup D, c, d, e)
           /\ Parts(a, b, c, d, e) /\ b = D \cup r => Parts(a, r, c \cup D, d, e)
           /\ Parts(a, b, c, d, e) /\ c = D \cup r => Parts(a, b, r, d \cup D, e)
           /\ Parts(a, b, c, d, e) /\ c = D \cup r => Parts(a, b, r, d, e \cup D)
<1>1. Parts(a, b, c, d, e) /\ a = D \cup r => Parts(r, b \cup D, c, d, e)
  BY PartsIs
<1>2. Parts(a, b, c, d, e) /\ b = D \cup r => Parts(a, r, c \cup D, d, e)
  BY PartsIs
<1>3. Parts(a, b, c, d, e) /\ c = D \cup r => Parts(a, b, r, d \cup D, e)
  BY PartsIs
<1>4. Parts(a, b, c, d, e) /\ c = D \cup r => Parts(a, b, r, d, e \cup D)
  BY PartsIs
<1> QED
  BY <1>1, <1>2, <1>3, <1>4

\* The order of the batches of a backfill in Unsent: the next n documents are
\* cut off at its front.
LEMMA BatchCut ==
    ASSUME NEW s \in Nat, NEW n \in Nat, NEW c \in Nat, s + n <= c
    PROVE  /\ (s + 1)..c = (s + 1)..(s + n) \cup (s + n + 1)..c
           /\ (s + 1)..(s + n) \cap (s + n + 1)..c = {}
           /\ Cardinality((s + 1)..(s + n)) = n
<1>1. Cardinality((s + 1)..(s + n)) = n
  BY FS_Interval
<1> QED
  BY <1>1

\* A subset of the documents is finite.
LEMMA DocumentsFinite ==
    ASSUME NEW S, S \subseteq Documents
    PROVE  IsFiniteSet(S) /\ Cardinality(S) \in Nat
<1>1. IsFiniteSet(Documents)
  BY FS_Interval, LoadGenAssumption DEF Documents
<1>2. IsFiniteSet(S)
  BY <1>1, FS_Subset
<1> QED
  BY <1>2, FS_CardinalityType

\* A step that neither moves nor resizes a batch.
LEMMA OnceKept ==
    ASSUME TypeOK, TypeOK', OnceInv, UNCHANGED <<conf, jobs, remaining, inserted, written, failed>>,
           \A w \in Workers :
               /\ worker'[w].docs = worker[w].docs /\ worker'[w].n = worker[w].n
               /\ (worker'[w].at \in {"wait", "sleep", "write"}) = (worker[w].at \in {"wait", "sleep", "write"})
    PROVE  OnceInv'
<1>1. \A w \in Workers : Held(w)' = Held(w)
  BY DEF Held
<1>2. InHand' = InHand
  BY <1>1 DEF InHand
<1>3. Queued' = Queued /\ Unsent' = Unsent
  BY DEF Queued, Unsent
<1>4. EveryDocumentOnce'
  BY <1>1, <1>2, <1>3 DEF OnceInv, EveryDocumentOnce, Parts
<1>5. Sized'
  BY DEF OnceInv, Sized
<1> QED
  BY <1>4, <1>5 DEF OnceInv

\* A batch that a worker gives up or writes leaves its hands and no others.
LEMMA HandedOver ==
    ASSUME TypeOK, OnceInv, conf.mode = "backfill", NEW w \in Workers,
           worker[w].at = "write", MoveTo(w, "next")
    PROVE  /\ InHand = worker[w].docs \cup InHand' /\ worker[w].docs \cap InHand' = {}
           /\ \A u, v \in Workers : u # v => Held(u)' \cap Held(v)' = {}
           /\ \A v \in Workers : worker'[v].at \in {"wait", "sleep", "write"} =>
                                     worker'[v].n = Cardinality(worker'[v].docs)
<1>1. worker \in [Workers -> WorkerStates]
  BY DEF TypeOK
<1>2. \A v \in Workers : v # w => worker'[v] = worker[v]
  BY <1>1 DEF MoveTo
<1>3. worker'[w].at = "next"
  BY <1>1 DEF MoveTo, WorkerStates
<1>4. Held(w) = worker[w].docs /\ Held(w)' = {}
  BY <1>3 DEF Held
<1>5. \A v \in Workers : v # w => Held(v)' = Held(v)
  BY <1>2 DEF Held
<1>6. \A u, v \in Workers : u # v => Held(u) \cap Held(v) = {}
  BY DEF OnceInv, EveryDocumentOnce
<1>7. InHand = worker[w].docs \cup InHand' /\ worker[w].docs \cap InHand' = {}
  BY <1>4, <1>5, <1>6 DEF InHand
<1>8. \A u, v \in Workers : u # v => Held(u)' \cap Held(v)' = {}
  BY <1>4, <1>5, <1>6
<1>9. \A v \in Workers : worker'[v].at \in {"wait", "sleep", "write"} =>
                             worker'[v].n = Cardinality(worker'[v].docs)
  BY <1>2, <1>3 DEF OnceInv, Sized
<1> QED
  BY <1>7, <1>8, <1>9

\* Each action of a backfill moves one batch from one part to the next, or none.
LEMMA OnceStep == TypeOK /\ TypeOK' /\ OnceInv /\ [Next]_vars => OnceInv'
<1> SUFFICES ASSUME TypeOK, TypeOK', OnceInv, [Next]_vars
             PROVE  OnceInv'
  OBVIOUS
<1>0. conf' = conf
  BY DEF Next, vars, Feed, Close, Tick, Work, Take, Continue, Quit, Grant, Sleep, Wake,
         Insert, InsertError, Update
<1>1. CASE conf.mode # "backfill"
  BY <1>0, <1>1 DEF OnceInv, EveryDocumentOnce, Sized
<1>2. CASE conf.mode = "backfill"
  <2>0. /\ worker \in [Workers -> WorkerStates] /\ jobs \in Seq(Jobs)
        /\ Parts(Unsent, Queued, InHand, written, failed)
        /\ \A i, j \in DOMAIN jobs : i # j => jobs[i].docs \cap jobs[j].docs = {}
        /\ \A u, v \in Workers : u # v => Held(u) \cap Held(v) = {}
        /\ inserted = Cardinality(written)
        /\ \A i \in DOMAIN jobs : jobs[i].n = Cardinality(jobs[i].docs)
        /\ \A v \in Workers : worker[v].at \in {"wait", "sleep", "write"} =>
                                  worker[v].n = Cardinality(worker[v].docs)
    BY <1>2 DEF TypeOK, OnceInv, EveryDocumentOnce, Sized
  <2>1. CASE Feed
    <3> DEFINE b == Min({conf.batch, remaining})
               D == (Count - remaining + 1)..(Count - remaining + b)
               J == [n |-> b, docs |-> D]
    <3>1. /\ remaining \in Nat /\ Count \in Nat /\ remaining <= Count /\ b \in Nat /\ b <= remaining
      <4>1. conf.batch \in Nat /\ remaining \in Nat /\ Count \in Nat /\ remaining <= Count
        BY LoadGenAssumption, Typed DEF TypeOK
      <4>2. conf.batch \in Int /\ remaining \in Int
        BY <4>1
      <4>3. b \in {conf.batch, remaining} /\ b <= remaining
        BY <4>2, MinTwo, Zenon
      <4> QED
        BY <4>1, <4>3
    <3>2. jobs' = Append(jobs, J) /\ remaining' = remaining - b
      BY <2>1 DEF Feed, Batch
    <3>3. UNCHANGED <<worker, inserted, written, failed>>
      BY <2>1 DEF Feed, counters
    <3> HIDE DEF b
    <3>4. Unsent = D \cup Unsent' /\ D \cap Unsent' = {} /\ Cardinality(D) = b
      <4> DEFINE s == Count - remaining
      <4>1. s \in Nat /\ s + b <= Count
        BY <3>1
      <4>2. Count - remaining' + 1 = s + b + 1
        BY <3>1, <3>2
      <4>3. Unsent = (s + 1)..Count /\ Unsent' = (s + b + 1)..Count /\ D = (s + 1)..(s + b)
        BY <4>2 DEF Unsent
      <4> HIDE DEF s, D
      <4> QED
        BY <3>1, <4>1, <4>3, BatchCut
    <3>5. J.n = b /\ J.docs = D
      OBVIOUS
    <3> HIDE DEF D, J
    <3>6. /\ DOMAIN jobs' = DOMAIN jobs \cup {Len(jobs) + 1} /\ Len(jobs) + 1 \notin DOMAIN jobs
          /\ jobs'[Len(jobs) + 1] = J
          /\ \A i \in DOMAIN jobs : jobs'[i] = jobs[i]
      BY <2>0, <3>2
    <3>7. Queued' = Queued \cup D
      BY <3>5, <3>6 DEF Queued
    <3>8. InHand' = InHand /\ \A v \in Workers : Held(v)' = Held(v)
      BY <3>3 DEF InHand, Held
    <3>9. Parts(Unsent', Queued \cup D, InHand, written, failed)
      BY <2>0, <3>4, PartsMove
    <3>10. Parts(Unsent, Queued, InHand, written, failed)'
      BY <3>3, <3>7, <3>8, <3>9 DEF Parts, Documents
    <3>11. \A i \in DOMAIN jobs : jobs[i].docs \cap D = {}
      <4>1. Unsent \cap Queued = {}
        BY <2>0, PartsIs
      <4> QED
        BY <3>4, <4>1 DEF Queued
    <3>12. \A i, j \in DOMAIN jobs' : i # j => jobs'[i].docs \cap jobs'[j].docs = {}
      BY <2>0, <3>5, <3>6, <3>11
    <3>13. EveryDocumentOnce'
      BY <2>0, <3>3, <3>8, <3>10, <3>12 DEF EveryDocumentOnce
    <3>14. Sized'
      BY <2>0, <3>3, <3>4, <3>5, <3>6 DEF Sized
    <3> QED
      BY <3>13, <3>14 DEF OnceInv
  <2>2. ASSUME NEW w \in Workers, Take(w)
        PROVE  OnceInv'
    <3> DEFINE D == Head(jobs).docs
    <3>1. jobs # <<>> /\ worker[w].at = "next" /\ jobs' = Tail(jobs)
          /\ UNCHANGED <<remaining, inserted, written, failed>>
      BY <2>2 DEF Take, counters
    <3>2. /\ D = jobs[1].docs /\ Head(jobs).n = jobs[1].n /\ 1 \in DOMAIN jobs
          /\ \A i \in DOMAIN jobs' : i + 1 \in DOMAIN jobs /\ i + 1 # 1 /\ jobs'[i] = jobs[i + 1]
          /\ \A i \in DOMAIN jobs : i # 1 => i - 1 \in DOMAIN jobs' /\ jobs[i] = jobs'[i - 1]
          /\ \A i, j \in DOMAIN jobs' : i # j => i + 1 # j + 1
      BY <2>0, <3>1
    <3>3. /\ worker'[w].at = "wait" /\ worker'[w].n = Head(jobs).n /\ worker'[w].docs = D
          /\ \A v \in Workers : v # w => worker'[v] = worker[v]
      BY <2>0, <2>2 DEF Take, WorkerStates
    <3> HIDE DEF D
    <3>4. Queued = D \cup Queued' /\ D \cap Queued' = {}
      <4>1. D \cap Queued' = {}
        BY <2>0, <3>2 DEF Queued
      <4>2. Queued \subseteq D \cup Queued'
        <5> SUFFICES ASSUME NEW i \in DOMAIN jobs, NEW x \in jobs[i].docs
                     PROVE  x \in D \cup Queued'
          BY DEF Queued
        <5>1. CASE i = 1
          BY <3>2, <5>1
        <5>2. CASE i # 1
          BY <3>2, <5>2 DEF Queued
        <5> QED
          BY <5>1, <5>2
      <4>3. D \cup Queued' \subseteq Queued
        BY <3>2 DEF Queued
      <4> QED
        BY <4>1, <4>2, <4>3
    <3>5. Held(w) = {} /\ Held(w)' = D /\ \A v \in Workers : v # w => Held(v)' = Held(v)
      BY <3>1, <3>3 DEF Held
    <3>6. InHand' = InHand \cup D
      BY <3>5 DEF InHand
    <3>7. Parts(Unsent, Queued', InHand \cup D, written, failed)
      BY <2>0, <3>4, PartsMove
    <3>8. Unsent' = Unsent
      BY <3>1 DEF Unsent
    <3>9. Parts(Unsent, Queued, InHand, written, failed)'
      BY <3>1, <3>6, <3>7, <3>8 DEF Parts, Documents
    <3>10. \A i, j \in DOMAIN jobs' : i # j => jobs'[i].docs \cap jobs'[j].docs = {}
      BY <2>0, <3>2
    <3>11. \A v \in Workers : Held(v) \cap D = {}
      <4>1. Queued \cap InHand = {}
        BY <2>0, PartsIs
      <4> QED
        BY <3>4, <4>1 DEF InHand
    <3>12. \A u, v \in Workers : u # v => Held(u)' \cap Held(v)' = {}
      BY <2>0, <3>5, <3>11
    <3>13. EveryDocumentOnce'
      BY <2>0, <3>1, <3>9, <3>10, <3>12 DEF EveryDocumentOnce
    <3>14. \A i \in DOMAIN jobs' : jobs'[i].n = Cardinality(jobs'[i].docs)
      BY <2>0, <3>2
    <3>15. \A v \in Workers : worker'[v].at \in {"wait", "sleep", "write"} =>
                                  worker'[v].n = Cardinality(worker'[v].docs)
      BY <2>0, <3>2, <3>3
    <3> QED
      BY <3>13, <3>14, <3>15 DEF OnceInv, Sized
  <2>3. ASSUME NEW w \in Workers, Insert(w)
        PROVE  OnceInv'
    <3> DEFINE D == worker[w].docs
    <3>1. /\ worker[w].at = "write" /\ MoveTo(w, "next") /\ inserted' = inserted + worker[w].n
          /\ written' = written \cup D /\ UNCHANGED <<jobs, remaining, failed>>
      BY <2>3 DEF Insert, feeder
    <3>2. /\ InHand = D \cup InHand' /\ D \cap InHand' = {}
          /\ \A u, v \in Workers : u # v => Held(u)' \cap Held(v)' = {}
          /\ \A v \in Workers : worker'[v].at \in {"wait", "sleep", "write"} =>
                                    worker'[v].n = Cardinality(worker'[v].docs)
      BY <1>2, <3>1, HandedOver
    <3>3. D \subseteq Documents /\ written \subseteq Documents
      BY <2>0 DEF WorkerStates, TypeOK
    <3>4. worker[w].n = Cardinality(D)
      BY <2>0, <3>1
    <3> HIDE DEF D
    <3>5. Parts(Unsent, Queued, InHand', written \cup D, failed)
      BY <2>0, <3>2, PartsMove
    <3>6. Unsent' = Unsent /\ Queued' = Queued
      BY <3>1 DEF Unsent, Queued
    <3>7. Parts(Unsent, Queued, InHand, written, failed)'
      BY <3>1, <3>5, <3>6 DEF Parts, Documents
    <3>8. inserted' = Cardinality(written')
      <4>1. written \cap D = {}
        <5>1. InHand \cap written = {}
          BY <2>0, PartsIs
        <5> QED
          BY <3>2, <5>1
      <4>2. /\ IsFiniteSet(written) /\ IsFiniteSet(D) /\ Cardinality(written) \in Nat
            /\ Cardinality(D) \in Nat
        BY <3>3, DocumentsFinite
      <4>3. Cardinality(written \cup D) = Cardinality(written) + Cardinality(D) - Cardinality(written \cap D)
        BY <4>2, FS_Union
      <4>4. Cardinality(written \cap D) = 0
        BY <4>1, FS_EmptySet
      <4> QED
        BY <2>0, <3>1, <3>4, <4>2, <4>3, <4>4
    <3>9. EveryDocumentOnce'
      BY <2>0, <3>1, <3>2, <3>7, <3>8 DEF EveryDocumentOnce
    <3>10. Sized'
      BY <2>0, <3>1, <3>2 DEF Sized
    <3> QED
      BY <3>9, <3>10 DEF OnceInv
  <2>4. ASSUME NEW w \in Workers, InsertError(w)
        PROVE  OnceInv'
    <3> DEFINE D == worker[w].docs
    <3>1. /\ worker[w].at = "write" /\ MoveTo(w, "next")
          /\ failed' = failed \cup D /\ UNCHANGED <<jobs, remaining, inserted, written>>
      BY <2>4 DEF InsertError, feeder
    <3>2. /\ InHand = D \cup InHand' /\ D \cap InHand' = {}
          /\ \A u, v \in Workers : u # v => Held(u)' \cap Held(v)' = {}
          /\ \A v \in Workers : worker'[v].at \in {"wait", "sleep", "write"} =>
                                    worker'[v].n = Cardinality(worker'[v].docs)
      BY <1>2, <3>1, HandedOver
    <3> HIDE DEF D
    <3>3. Parts(Unsent, Queued, InHand', written, failed \cup D)
      BY <2>0, <3>2, PartsMove
    <3>4. Unsent' = Unsent /\ Queued' = Queued
      BY <3>1 DEF Unsent, Queued
    <3>5. Parts(Unsent, Queued, InHand, written, failed)'
      BY <3>1, <3>3, <3>4 DEF Parts, Documents
    <3>6. EveryDocumentOnce'
      BY <2>0, <3>1, <3>2, <3>5 DEF EveryDocumentOnce
    <3>7. Sized'
      BY <2>0, <3>1, <3>2 DEF Sized
    <3> QED
      BY <3>6, <3>7 DEF OnceInv
  <2>5. ASSUME NEW w \in Workers, Quit(w) \/ Grant(w) \/ Sleep(w) \/ Wake(w)
        PROVE  OnceInv'
    <3>1. UNCHANGED <<conf, jobs, remaining, inserted, written, failed>>
      BY <2>5 DEF Quit, Grant, Sleep, Wake, feeder, counters
    <3>2. /\ \A v \in Workers : v # w => worker'[v] = worker[v]
          /\ worker'[w].docs = worker[w].docs /\ worker'[w].n = worker[w].n
      BY <2>0, <2>5 DEF Quit, Grant, Sleep, Wake, MoveTo, WorkerStates
    <3>3. (worker'[w].at \in {"wait", "sleep", "write"}) = (worker[w].at \in {"wait", "sleep", "write"})
      <4>1. CASE Quit(w)
        BY <2>0, <4>1 DEF Quit, MoveTo, WorkerStates
      <4>2. CASE Grant(w)
        BY <2>0, <4>2 DEF Grant, MoveTo, WorkerStates
      <4>3. CASE Sleep(w)
        BY <2>0, <4>3 DEF Sleep, WorkerStates
      <4>4. CASE Wake(w)
        BY <2>0, <4>4 DEF Wake, MoveTo, WorkerStates
      <4> QED
        BY <2>5, <4>1, <4>2, <4>3, <4>4
    <3>4. \A v \in Workers :
             /\ worker'[v].docs = worker[v].docs /\ worker'[v].n = worker[v].n
             /\ (worker'[v].at \in {"wait", "sleep", "write"}) = (worker[v].at \in {"wait", "sleep", "write"})
      BY <3>2, <3>3
    <3> QED
      BY <3>1, <3>4, OnceKept
  <2>6. CASE Tick
    <3>1. UNCHANGED <<conf, jobs, remaining, inserted, written, failed>>
      BY <2>6 DEF Tick, feeder, counters
    <3>2. \A v \in Workers :
             /\ worker'[v].docs = worker[v].docs /\ worker'[v].n = worker[v].n
             /\ (worker'[v].at \in {"wait", "sleep", "write"}) = (worker[v].at \in {"wait", "sleep", "write"})
      BY <2>0, <2>6 DEF Tick, WorkerStates
    <3> QED
      BY <3>1, <3>2, OnceKept
  <2>7. CASE Close \/ UNCHANGED vars
    <3>1. UNCHANGED <<conf, jobs, remaining, inserted, written, failed, worker>>
      BY <2>7 DEF Close, vars, feeder, counters
    <3> QED
      BY <3>1, OnceKept
  <2>8. \A w \in Workers : ~Continue(w) /\ ~Update(w)
    BY <1>2 DEF Continue, Update
  <2> QED
    BY <2>1, <2>2, <2>3, <2>4, <2>5, <2>6, <2>7, <2>8 DEF Next, Work
<1> QED
  BY <1>1, <1>2

\* At the start all the documents of a backfill are unsent.
LEMMA OnceInit == Init => OnceInv
<1> SUFFICES ASSUME Init
             PROVE  OnceInv
  OBVIOUS
<1>1. DOMAIN jobs = {} /\ \A w \in Workers : worker[w].at = "next"
  BY DEF Init, Running
<1>2. Queued = {} /\ InHand = {} /\ \A w \in Workers : Held(w) = {}
  BY <1>1 DEF Queued, InHand, Held
<1>3. Sized
  BY <1>1 DEF Sized
<1>4. ASSUME conf.mode = "backfill"
      PROVE  Unsent = Documents
  BY <1>4, LoadGenAssumption DEF Init, Unsent, Documents
<1>5. written = {} /\ failed = {} /\ inserted = Cardinality(written)
  BY FS_EmptySet DEF Init
<1>6. conf.mode = "backfill" => Parts(Unsent, Queued, InHand, written, failed)
  BY <1>2, <1>4, <1>5, PartsIs
<1>7. EveryDocumentOnce
  BY <1>1, <1>2, <1>5, <1>6 DEF EveryDocumentOnce
<1> QED
  BY <1>3, <1>7 DEF OnceInv

\* A backfill handles every document exactly once, for any number of documents,
\* workers and batch size: none is lost or written twice between the producer,
\* the channel and the workers, the last batch is cut to size, and the number
\* reported at the end is that of the documents whose INSERT succeeded.
THEOREM DocumentsOnce == Spec => []EveryDocumentOnce
<1>1. OnceInv => EveryDocumentOnce
  BY DEF OnceInv
<1> QED
  BY <1>1, OnceInit, OnceStep, LoadTypeCorrect, PTL DEF Spec
=============================================================================
