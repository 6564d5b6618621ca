---------------------------- MODULE RateLimiter ----------------------------
(***************************************************************************)
(* cmd/query/middleware.go: the per-client token bucket in front of the     *)
(* query API.                                                               *)
(*                                                                         *)
(* A request reads the clock, then takes the lock; another request may do   *)
(* both in between, so allow can see a time before the one in the bucket.   *)
(* Time is counted in ticks and tokens in the unit a tick refills by a      *)
(* whole number: a request costs Cost units, a tick adds Refill units.      *)
(* Limiting is on (rps > 0); rps <= 0 lets everything pass.                 *)
(***************************************************************************)
EXTENDS Integers

CONSTANTS
    Keys,          \* client keys (clientKey: API key or address)
    Handlers,      \* requests in progress at the same time
    Cost,          \* units of one token
    Refill,        \* units added per tick: rps
    Burst,         \* units of a full bucket: burst
    IdleEvic,      \* ticks after which an unused bucket is dropped
    MaxDelay,      \* bound: ticks a request waits between clock and lock
    MaxTime        \* bound: ticks of the clock

ASSUME RateLimiterAssumption ==
    /\ Cost \in Nat \ {0} /\ Refill \in Nat \ {0}
    /\ Burst \in Nat /\ IdleEvic \in Nat /\ MaxTime \in Nat
    /\ MaxDelay \in Nat

\* A bucket is full again before it can be dropped (idleEvic is ten minutes): the
\* window is shortened by the delays of the request that used it last and of the
\* request that finds it gone.
ASSUME IdleWindowAssumption == (IdleEvic + 1 - 2 * MaxDelay) * Refill >= Burst

VARIABLES
    clock,         \* the time
    buckets,       \* buckets[k]: the bucket of key k, or None
    waiting,       \* waiting[h]: key and clock reading of a request, or None
    used           \* used[k][a][b]: units of the requests of k that passed and had
                   \* read a time from a to b

vars == <<clock, buckets, waiting, used>>

Times == 0..MaxTime
None == [none |-> TRUE]

\* Mutant: a new bucket starts empty.
Bucket_Empty(k, now) ==
    IF buckets[k] = None THEN [tokens |-> 0, last |-> now, seen |-> now] ELSE buckets[k]

\* allow makes a full bucket for a key it does not know.
Bucket(k, now) ==
    IF buckets[k] = None THEN [tokens |-> Burst, last |-> now, seen |-> now]
                         ELSE buckets[k]

\* Mutant: the refill is not capped at burst.
Refilled_Uncapped(b, now) == b.tokens + (now - b.last) * Refill

\* The tokens after the refill, which is negative for an old clock reading.
Refilled(b, now) ==
    LET tokens == b.tokens + (now - b.last) * Refill
    IN  IF tokens > Burst THEN Burst ELSE tokens

\* The use of k with one more request that read the time now.
Charged(k, now) ==
    [a \in Times |-> [b \in Times |->
        IF a <= now /\ now <= b THEN used[k][a][b] + Cost ELSE used[k][a][b]]]

\* evictLocked
Evicted(bs, now) ==
    [k \in Keys |-> IF bs[k] # None /\ now - bs[k].seen > IdleEvic THEN None ELSE bs[k]]

\* A request arrives and allow reads the clock.
Arrive(h, k) ==
    /\ waiting[h] = None
    /\ waiting' = [waiting EXCEPT ![h] = [key |-> k, now |-> clock]]
    /\ UNCHANGED <<clock, buckets, used>>

\* Mutant: last is not moved, so the same time is refilled again and again.
Decide_KeepsLast(h) ==
    LET k == waiting[h].key
        now == waiting[h].now
        tokens == Refilled(Bucket(k, now), now)
        pass == tokens >= Cost
    IN  /\ waiting[h] # None
        /\ buckets' = Evicted([buckets EXCEPT ![k] =
               [tokens |-> IF pass THEN tokens - Cost ELSE tokens,
                last |-> Bucket(k, now).last, seen |-> now]], now)
        /\ used' = IF pass THEN [used EXCEPT ![k] = Charged(k, now)] ELSE used
        /\ waiting' = [waiting EXCEPT ![h] = None]
        /\ UNCHANGED clock

\* The rest of allow, under the lock: refill, evict, take a token if there is
\* one.
Decide(h) ==
    LET k == waiting[h].key
        now == waiting[h].now
        tokens == Refilled(Bucket(k, now), now)
        pass == tokens >= Cost
    IN  /\ waiting[h] # None
        /\ buckets' = Evicted([buckets EXCEPT ![k] =
               [tokens |-> IF pass THEN tokens - Cost ELSE tokens,
                last |-> now, seen |-> now]], now)
        /\ used' = IF pass THEN [used EXCEPT ![k] = Charged(k, now)] ELSE used
        /\ waiting' = [waiting EXCEPT ![h] = None]
        /\ UNCHANGED clock

Tick ==
    /\ clock < MaxTime
    /\ \A h \in Handlers : waiting[h] # None => clock - waiting[h].now < MaxDelay
    /\ clock' = clock + 1
    /\ UNCHANGED <<buckets, waiting, used>>

Init ==
    /\ clock = 0
    /\ buckets = [k \in Keys |-> None]
    /\ waiting = [h \in Handlers |-> None]
    /\ used = [k \in Keys |-> [a \in Times |-> [b \in Times |-> 0]]]

Next ==
    \/ \E h \in Handlers, k \in Keys : Arrive(h, k)
    \/ \E h \in Handlers : Decide(h)
    \/ Tick

Spec == Init /\ [][Next]_vars

-----------------------------------------------------------------------------
(* Correctness *)

Buckets == [tokens : Int, last : Times, seen : Times]
Requests == [key : Keys, now : Times]

\* Type invariant: no bucket is overfull or newer than the clock.
TypeOK ==
    /\ clock \in Times
    /\ buckets \in [Keys -> Buckets \cup {None}]
    /\ \A k \in Keys : buckets[k] # None =>
          /\ buckets[k].tokens <= Burst
          /\ buckets[k].last <= clock /\ buckets[k].seen = buckets[k].last
    /\ waiting \in [Handlers -> Requests \cup {None}]
    /\ \A h \in Handlers : waiting[h] # None => waiting[h].now <= clock
    /\ used \in [Keys -> [Times -> [Times -> Nat]]]

\* The limit: in no interval does a key get more than a full bucket and what
\* the interval refills, whatever clock readings overtake each other and
\* whatever buckets are evicted in between.
RateBounded ==
    \A k \in Keys : \A a \in Times : \A b \in a..MaxTime :
        used[k][a][b] <= Burst + Refill * (b - a)

Denied(h) == waiting[h] # None /\ waiting'[h] = None /\ used' = used

\* A request is turned away only when letting it pass would bring its key to the
\* limit over some interval: no other key and no eviction costs it tokens, and
\* requests that overtake each other between clock and lock cost no more than
\* what two delays refill.
DenialsJustified ==
    [][\A h \in Handlers : Denied(h) =>
          \E a \in 0..waiting[h].now : \E b \in waiting[h].now..MaxTime :
              used[waiting[h].key][a][b] + Cost
                  > Burst + Refill * (b - a) - Refill * (2 * MaxDelay)]_vars
=============================================================================
