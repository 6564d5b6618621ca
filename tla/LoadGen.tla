------------------------------ MODULE LoadGen ------------------------------
(***************************************************************************)
(* cmd/loadgen: workers that write batches of documents to Postgres through *)
(* one shared limiter, in backfill mode (a producer feeds a bounded channel *)
(* of jobs) and in stream mode (every worker writes until a deadline).      *)
(*                                                                         *)
(* Time passes in ticks and only differences of times are kept, so that a   *)
(* run may take any time: the ticks since the limiter was last looked at    *)
(* (no more than a full second counts, the bucket is full by then), those a *)
(* sleeping worker has left and those until the deadline.                   *)
(*                                                                         *)
(* The documents of a backfill are numbered in the order they are sent.     *)
(* The program only passes the size of a batch on; which documents it       *)
(* stands for is history.                                                   *)
(***************************************************************************)
EXTENDS Integers, Sequences, SequencesExt

CONSTANTS
    Workers,       \* writer goroutines
    Modes,         \* -mode: "backfill", "stream"
    Batches,       \* -batch: rows per INSERT
    Refills,       \* tokens a tick adds; 0 stands for a rate of 0, no limit
    Ticks,         \* ticks of a second: the bucket holds a second's tokens
    Count,         \* -count: documents of a backfill
    Duration,      \* -duration in ticks
    UpdatePct      \* whether some writes of a stream are updates

ASSUME LoadGenAssumption ==
    /\ Workers # {} /\ IsFiniteSet(Workers)
    /\ Batches \subseteq Nat \ {0} /\ Refills \subseteq Nat
    /\ Ticks \in Nat \ {0} /\ Count \in Nat /\ Duration \in Nat
    /\ UpdatePct \in BOOLEAN

VARIABLES
    conf,          \* the flags: mode, batch, refill
    jobs,          \* the channel
    closed,        \* whether it is closed
    remaining,     \* documents not yet sent to the channel
    worker,        \* worker[w]: where it is, its batch, ticks left to sleep
    allow,         \* limiter: tokens when it was last looked at
    since,         \* limiter: ticks since then
    left,          \* ticks until the deadline of a stream
    inserted,      \* the counters of the report
    updated,
    written,       \* history: documents of batches that were inserted
    failed,        \* history: documents of batches that failed
    meter          \* history: the most by which the grants of an interval that
                   \* ends now exceed what the interval refilled

limiter  == <<allow, since, meter>>
feeder   == <<jobs, closed, remaining>>
counters == <<inserted, updated, written, failed>>
vars     == <<conf, feeder, worker, limiter, left, counters>>

Rate == conf.refill * Ticks
Running == [at |-> "next", n |-> 0, docs |-> {}, sleep |-> 0]

\* The next n documents of a backfill.
Batch(n) == [n |-> n, docs |-> (Count - remaining + 1)..(Count - remaining + n)]

MoveTo(w, a) == worker' = [worker EXCEPT ![w].at = a]

-----------------------------------------------------------------------------
(* The producer of a backfill *)

\* Mutant: the last batch is sent in full.
Feed_NoRemainder ==
    /\ conf.mode = "backfill"
    /\ remaining > 0 /\ Len(jobs) < 2 * Cardinality(Workers)
    /\ jobs' = Append(jobs, Batch(conf.batch))
    /\ remaining' = remaining - conf.batch
    /\ UNCHANGED <<conf, closed, worker, limiter, left, counters>>

\* A batch is sent, the last one with what remains; a full channel blocks.
Feed ==
    LET b == Min({conf.batch, remaining})
    IN  /\ conf.mode = "backfill"
        /\ remaining > 0 /\ Len(jobs) < 2 * Cardinality(Workers)
        /\ jobs' = Append(jobs, Batch(b))
        /\ remaining' = remaining - b
        /\ UNCHANGED <<conf, closed, worker, limiter, left, counters>>

Close ==
    /\ conf.mode = "backfill" /\ remaining <= 0 /\ ~closed
    /\ closed' = TRUE
    /\ UNCHANGED <<conf, jobs, remaining, worker, limiter, left, counters>>

-----------------------------------------------------------------------------
(* A worker *)

\* range jobs: the next batch, or the end when the channel is closed and empty.
Take(w) ==
    /\ conf.mode = "backfill" /\ worker[w].at = "next" /\ jobs # <<>>
    /\ worker' = [worker EXCEPT ![w].at = "wait", ![w].n = Head(jobs).n,
                                ![w].docs = Head(jobs).docs]
    /\ jobs' = Tail(jobs)
    /\ UNCHANGED <<conf, closed, remaining, limiter, left, counters>>

\* The loop of a stream: another batch before the deadline.
Continue(w) ==
    /\ conf.mode = "stream" /\ worker[w].at = "next" /\ left > 0
    /\ worker' = [worker EXCEPT ![w].at = "wait", ![w].n = conf.batch]
    /\ UNCHANGED <<conf, feeder, limiter, left, counters>>

Quit(w) ==
    /\ worker[w].at = "next"
    /\ IF conf.mode = "backfill" THEN closed /\ jobs = <<>> ELSE left = 0
    /\ MoveTo(w, "done")
    /\ UNCHANGED <<conf, feeder, limiter, left, counters>>

\* Mutant: tokens pile up without limit.
Refilled_Uncapped == allow + conf.refill * since

\* The tokens the limiter has once it has looked at the clock.
Refilled == Min({Rate, allow + conf.refill * since})

\* waitN, in the lock: enough tokens, or no limit.
Grant(w) ==
    /\ worker[w].at = "wait"
    /\ IF Rate <= 0 THEN UNCHANGED limiter
       ELSE /\ Refilled >= worker[w].n
            /\ allow' = Refilled - worker[w].n
            /\ since' = 0
            /\ meter' = meter + worker[w].n
    /\ MoveTo(w, "write")
    /\ UNCHANGED <<conf, feeder, left, counters>>

\* Mutant: the clock is noted but the refill is not.
Sleep_LosesRefill(w) ==
    /\ worker[w].at = "wait" /\ Rate > 0 /\ Refilled < worker[w].n
    /\ since' = 0
    /\ worker' = [worker EXCEPT ![w].at = "sleep",
                     ![w].sleep = (worker[w].n - Refilled) \div conf.refill]
    /\ UNCHANGED <<conf, feeder, allow, meter, left, counters>>

\* waitN: too few; the worker sleeps for the deficit and tries again.  Others
\* may take the tokens meanwhile.
Sleep(w) ==
    /\ worker[w].at = "wait" /\ Rate > 0 /\ Refilled < worker[w].n
    /\ allow' = Refilled
    /\ since' = 0
    /\ worker' = [worker EXCEPT ![w].at = "sleep",
                     ![w].sleep = (worker[w].n - Refilled) \div conf.refill]
    /\ UNCHANGED <<conf, feeder, meter, left, counters>>

Wake(w) ==
    /\ worker[w].at = "sleep" /\ worker[w].sleep = 0
    /\ MoveTo(w, "wait")
    /\ UNCHANGED <<conf, feeder, limiter, left, counters>>

\* insertBatch: one statement, all rows or none.
Insert(w) ==
    /\ worker[w].at = "write"
    /\ inserted' = inserted + worker[w].n
    /\ written' = written \cup worker[w].docs
    /\ MoveTo(w, "next")
    /\ UNCHANGED <<conf, feeder, limiter, left, updated, failed>>

\* Mutant: a failed batch is counted.
InsertError_Counted(w) ==
    /\ worker[w].at = "write"
    /\ inserted' = inserted + worker[w].n
    /\ failed' = failed \cup worker[w].docs
    /\ MoveTo(w, "next")
    /\ UNCHANGED <<conf, feeder, limiter, left, updated, written>>

\* The error is logged and the batch given up, whether the rows are there (only
\* the answer was lost) or not.
InsertError(w) ==
    /\ worker[w].at = "write"
    /\ failed' = failed \cup worker[w].docs
    /\ MoveTo(w, "next")
    /\ UNCHANGED <<conf, feeder, limiter, left, inserted, updated, written>>

\* updateBatch: rows are updated one by one; the first error ends it.
Update(w) ==
    /\ conf.mode = "stream" /\ UpdatePct /\ worker[w].at = "write"
    /\ \/ updated' = updated + worker[w].n
       \/ UNCHANGED updated
    /\ MoveTo(w, "next")
    /\ UNCHANGED <<conf, feeder, limiter, left, inserted, written, failed>>

-----------------------------------------------------------------------------
Down(x) == IF x > 0 THEN x - 1 ELSE 0

Tick ==
    /\ since' = Min({Ticks, since + 1})
    /\ left' = Down(left)
    /\ worker' = [w \in Workers |-> [worker[w] EXCEPT !.sleep = Down(@)]]
    /\ meter' = IF meter > conf.refill THEN meter - conf.refill ELSE 0
    /\ UNCHANGED <<conf, feeder, allow, counters>>

Init ==
    /\ conf \in [mode : Modes, batch : Batches, refill : Refills]
    \* Bound: a stream without a limit would write without end in one tick.
    /\ conf.mode = "stream" => conf.refill > 0
    /\ jobs = <<>> /\ closed = FALSE
    /\ remaining = IF conf.mode = "backfill" THEN Count ELSE 0
    /\ worker = [w \in Workers |-> Running]
    /\ allow = Rate /\ since = 0 /\ meter = 0
    /\ left = Duration
    /\ inserted = 0 /\ updated = 0 /\ written = {} /\ failed = {}

Work(w) ==
    \/ Take(w) \/ Continue(w) \/ Quit(w) \/ Grant(w) \/ Sleep(w) \/ Wake(w)
    \/ Insert(w) \/ InsertError(w) \/ Update(w)

Next == Feed \/ Close \/ Tick \/ \E w \in Workers : Work(w)

Spec == Init /\ [][Next]_vars

\* The goroutines run, calls to Postgres return, and time passes.
FairSpec ==
    /\ Spec
    /\ WF_vars(Feed \/ Close) /\ WF_vars(Tick)
    /\ \A w \in Workers : WF_vars(Work(w))

-----------------------------------------------------------------------------
(* Correctness *)

Documents == 1..Count
Jobs == [n : Nat, docs : SUBSET Documents]
WorkerStates ==
    [at : {"next", "wait", "sleep", "write", "done"}, n : Nat, docs : SUBSET Documents, sleep : Nat]

\* Type invariant: flags, channel within its capacity, workers, counters.
TypeOK ==
    /\ conf \in [mode : Modes, batch : Batches, refill : Refills]
    /\ jobs \in Seq(Jobs) /\ Len(jobs) <= 2 * Cardinality(Workers)
    /\ closed \in BOOLEAN /\ remaining \in 0..Count
    /\ worker \in [Workers -> WorkerStates]
    /\ allow \in Nat /\ since \in 0..Ticks /\ left \in 0..Duration /\ meter \in Nat
    /\ inserted \in Nat /\ updated \in Nat
    /\ written \subseteq Documents /\ failed \subseteq Documents

\* The rate holds over every interval, with all workers together: the grants
\* of an interval exceed its refill by no more than a full bucket.
RateBounded == Rate > 0 => meter <= Rate

\* Where the documents of a backfill are: not sent yet, in the channel, or in
\* the batch a worker holds.
Unsent == (Count - remaining + 1)..Count
Queued == UNION {jobs[i].docs : i \in DOMAIN jobs}
Held(w) == IF worker[w].at \in {"wait", "sleep", "write"} THEN worker[w].docs ELSE {}
InHand == UNION {Held(w) : w \in Workers}

\* The five sets make up all the documents and have none in common.
Parts(a, b, c, d, e) ==
    LET parts == <<a, b, c, d, e>>
    IN  /\ UNION {parts[i] : i \in 1..5} = Documents
        /\ \A i, j \in 1..5 : i # j => parts[i] \cap parts[j] = {}

\* A backfill handles every document exactly once: at any time it is to be sent,
\* in one job of the channel, in the hands of one worker, inserted or given up
\* with a logged error; and the report counts those that were inserted.
EveryDocumentOnce ==
    conf.mode = "backfill" =>
        /\ Parts(Unsent, Queued, InHand, written, failed)
        /\ \A i, j \in DOMAIN jobs : i # j => jobs[i].docs \cap jobs[j].docs = {}
        /\ \A v, w \in Workers : v # w => Held(v) \cap Held(w) = {}
        /\ inserted = Cardinality(written)

Done == \A w \in Workers : worker[w].at = "done"

\* The largest batch any worker waits for fits into the bucket.
Satisfiable ==
    Rate <= 0 \/ Rate >= IF conf.mode = "backfill" THEN Min({conf.batch, Count}) ELSE conf.batch

\* Both modes come to an end, whoever gets the tokens and whatever fails, as
\* long as the bucket can hold a batch.  If it cannot, the worker with the
\* first batch waits for ever, and a backfill never ends.
Terminates ==
    /\ Satisfiable => <>Done
    /\ ~Satisfiable /\ conf.mode = "backfill" => []~Done
=============================================================================
