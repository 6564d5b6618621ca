---------------------------- MODULE Normalizer ----------------------------
(***************************************************************************)
(* cmd/normalizer and internal/normalizer: the consumer that turns the      *)
(* change events of the source table into canonical documents on the two    *)
(* lanes, or into dead letters.                                             *)
(*                                                                         *)
(* The loop of main polls events, normalizes each, produces the results     *)
(* synchronously and commits the offsets.  A failed produce is meant to be  *)
(* retried ("do not commit; reprocess on next poll"), but the client's read *)
(* position has already moved: the next successful round commits past it.   *)
(***************************************************************************)
EXTENDS Integers, Sequences, SequencesExt

CONSTANTS
    Docs,          \* rows of the source table
    MaxVersion,    \* bound: updates of one row
    Noise,         \* kinds of other events that may appear in the change topic
    Budget         \* bound: Budget[f] is how often fault f may happen

Lanes == {"urgent", "bulk"}
NoRow == -1        \* a before or after image that is null
Faults == {"produce", "fetch", "commit", "crash", "noise"}

\* What the change topic may hold besides the changes of rows with a text.
NoiseKinds == {"tombstone", "garbage", "truncate", "unknownop", "noafter", "nobefore",
               "snapshot", "notext"}

ASSUME NormalizerAssumption ==
    /\ MaxVersion \in Nat \ {0}
    /\ Noise \subseteq NoiseKinds
    /\ Budget \in [Faults -> Nat]

VARIABLES
    rowVer,        \* source table: version column, 0 = never inserted
    rows,          \* source table: the documents whose row exists
    cdc,           \* the change topic
    committed,     \* committed offset of the group
    pos,           \* records of cdc the client has returned from a poll
    phase,         \* "poll", "produce" or "commit"
    toProduce,     \* events of the current poll whose record is not delivered yet
    lane,          \* lane[l]: records produced to the lane
    dlq,           \* offsets of the events dead-lettered (as an empty record if not JSON)
    dropped,       \* events given up after a logged fetch or produce error
    budget         \* faults still allowed

src  == <<rowVer, rows>>
vars == <<rowVer, rows, cdc, committed, pos, phase, toProduce, lane, dlq, dropped, budget>>

Spend(f) ==
    /\ budget[f] > 0
    /\ budget' = [budget EXCEPT ![f] = @ - 1]

-----------------------------------------------------------------------------
(* internal/normalizer *)

\* A change event: null marks a tombstone (empty value), json is whether the
\* value decodes; before and after are the row versions of the images.
Event(d, o, b, a, t, x) ==
    [doc |-> d, op |-> o, before |-> b, after |-> a, tier |-> t, text |-> x,
     null |-> FALSE, json |-> TRUE]

\* classifyTier: deletes are always urgent, otherwise the row's tier column.
classifyTier(op, tier) ==
    IF op = "delete" \/ tier = "urgent" THEN "urgent" ELSE "bulk"

\* buildDoc: the canonical document carries the version of the image.
buildDoc(e, op, ver) ==
    [res |-> "doc", doc |-> e.doc, op |-> op, ver |-> ver, tier |-> classifyTier(op, e.tier)]

ErrSkip == [res |-> "skip"]
Rejected == [res |-> "error"]

\* FromDebezium: a document, ErrSkip, or another error.
FromDebezium(e) ==
    CASE ~e.json -> Rejected
      [] e.json /\ e.op \in {"c", "u", "r"} ->
            IF e.after = NoRow THEN Rejected ELSE buildDoc(e, "upsert", e.after)
      [] e.json /\ e.op = "d" ->
            IF e.before = NoRow THEN Rejected ELSE buildDoc(e, "delete", e.before)
      [] e.json /\ e.op \in {"t", ""} -> ErrSkip
      [] OTHER -> Rejected

\* Validate: of its checks only the one on the text of an upsert can fail for
\* a document buildDoc made.
Validate(d, e) == d.op = "upsert" => e.text

\* Where the loop of main sends event e: nowhere, the DLQ, or a lane.
Destination(e) ==
    LET d == FromDebezium(e)
    IN  CASE e.null \/ d.res = "skip" -> "none"
          [] ~e.null /\ d.res = "error" -> "dlq"
          [] OTHER -> IF Validate(d, e) THEN d.tier ELSE "dlq"

\* Mutant: rejected events are not dead-lettered.
Results_NoDlq(m, n) == {i \in (m + 1)..n : Destination(cdc[i]) \in Lanes}

\* The events m+1 to n that become a record; the record is that of its event.
Results(m, n) == {i \in (m + 1)..n : Destination(cdc[i]) # "none"}

-----------------------------------------------------------------------------
(* The source and its change capture *)

Capture(e) == cdc' = Append(cdc, e)

Insert(d, t) ==
    /\ rowVer[d] = 0
    /\ rowVer' = [rowVer EXCEPT ![d] = 1]
    /\ rows' = rows \cup {d}
    /\ Capture(Event(d, "c", NoRow, 1, t, TRUE))
    /\ UNCHANGED <<committed, pos, phase, toProduce, lane, dlq, budget, dropped>>

Update(d, t) ==
    /\ d \in rows /\ rowVer[d] < MaxVersion
    /\ rowVer' = [rowVer EXCEPT ![d] = @ + 1]
    /\ Capture(Event(d, "u", rowVer[d], rowVer[d] + 1, t, TRUE))
    /\ UNCHANGED <<rows, committed, pos, phase, toProduce, lane, dlq, budget, dropped>>

\* The row's own tier is "bulk", so that only classifyTier makes it urgent.
Delete(d) ==
    /\ d \in rows
    /\ rows' = rows \ {d}
    /\ Capture(Event(d, "d", rowVer[d], NoRow, "bulk", TRUE))
    /\ UNCHANGED <<rowVer, committed, pos, phase, toProduce, lane, dlq, budget, dropped>>

NoiseEvent(d, k) ==
    LET e == Event(d, "u", 1, 1, "bulk", TRUE)
    IN  CASE k = "tombstone" -> [e EXCEPT !.null = TRUE]
          [] k = "garbage"   -> [e EXCEPT !.json = FALSE]
          [] k = "truncate"  -> [e EXCEPT !.op = "t"]
          [] k = "unknownop" -> [e EXCEPT !.op = "m"]
          [] k = "noafter"   -> [e EXCEPT !.after = NoRow]
          [] k = "nobefore"  -> [e EXCEPT !.op = "d", !.before = NoRow]
          [] k = "snapshot"  -> [e EXCEPT !.op = "r", !.before = NoRow]
          [] k = "notext"    -> [e EXCEPT !.text = FALSE]

AddNoise(d, k) ==
    /\ Spend("noise")
    /\ Capture(NoiseEvent(d, k))
    /\ UNCHANGED <<src, committed, pos, phase, toProduce, lane, dlq, dropped>>

-----------------------------------------------------------------------------
(* main *)

\* Mutant: offsets are committed as soon as they are polled (auto-commit).
Poll_AutoCommit(n) ==
    /\ phase = "poll"
    /\ pos' = pos + n
    /\ committed' = pos + n
    /\ toProduce' = Results(pos, pos + n)
    /\ phase' = IF Results(pos, pos + n) = {} THEN "commit" ELSE "produce"
    /\ UNCHANGED <<src, cdc, lane, dlq, budget, dropped>>

\* A poll returns n events; every one that is not skipped becomes a record to
\* produce.  With none, the loop goes straight to the commit.
Poll(n) ==
    /\ phase = "poll"
    /\ pos' = pos + n
    /\ toProduce' = Results(pos, pos + n)
    /\ phase' = IF Results(pos, pos + n) = {} THEN "commit" ELSE "produce"
    /\ UNCHANGED <<src, cdc, committed, lane, dlq, budget, dropped>>

\* A poll that also reports an error is dropped whole: "continue".
PollError(n) ==
    /\ phase = "poll"
    /\ Spend("fetch")
    /\ pos' = pos + n
    /\ dropped' = dropped \cup (pos + 1)..(pos + n)
    /\ UNCHANGED <<src, cdc, committed, phase, toProduce, lane, dlq>>

\* Mutant: the records of a batch may overtake each other.
Deliverable_AnyOrder(n) == n \in toProduce

\* The producer keeps the order of a partition, and so that of the records of
\* one topic with one key.
Deliverable(n) ==
    /\ n \in toProduce
    /\ \A m \in toProduce :
          m < n => cdc[m].doc # cdc[n].doc \/ Destination(cdc[m]) # Destination(cdc[n])

\* ProduceSync: the record of event n reaches the brokers.  With the last one
\* ProduceSync returns and the loop goes on to the commit.
Produce(n) ==
    LET t == Destination(cdc[n])
    IN  /\ phase = "produce" /\ Deliverable(n)
        /\ lane' = [l \in Lanes |-> IF l = t THEN Append(lane[l], n) ELSE lane[l]]
        /\ dlq' = IF t = "dlq" THEN dlq \cup {n} ELSE dlq
        /\ toProduce' = toProduce \ {n}
        /\ phase' = IF toProduce' = {} THEN "commit" ELSE "produce"
        /\ UNCHANGED <<src, cdc, committed, pos, budget, dropped>>

\* ProduceSync reports an error for the records that were not delivered: nothing
\* is committed and the loop polls on from where the client is.
ProduceError ==
    /\ phase = "produce"
    /\ Spend("produce")
    /\ dropped' = dropped \cup toProduce
    /\ toProduce' = {}
    /\ phase' = "poll"
    /\ UNCHANGED <<src, cdc, committed, pos, lane, dlq>>

\* Mutant: the end of the topic is committed.
Commit_EndOfTopic ==
    /\ phase = "commit"
    /\ committed' = Len(cdc)
    /\ phase' = "poll"
    /\ UNCHANGED <<src, cdc, pos, toProduce, lane, dlq, budget, dropped>>

\* CommitUncommittedOffsets commits everything the client has returned.
Commit ==
    /\ phase = "commit"
    /\ committed' = pos
    /\ phase' = "poll"
    /\ UNCHANGED <<src, cdc, pos, toProduce, lane, dlq, budget, dropped>>

CommitError ==
    /\ phase = "commit"
    /\ Spend("commit")
    /\ phase' = "poll"
    /\ UNCHANGED <<src, cdc, committed, pos, toProduce, lane, dlq, dropped>>

\* The process stops, perhaps with part of a produce delivered, and restarts
\* from the committed offset.
Crash ==
    /\ Spend("crash")
    /\ pos' = committed
    /\ toProduce' = {}
    /\ phase' = "poll"
    /\ UNCHANGED <<src, cdc, committed, lane, dlq, dropped>>

IdlePoll ==
    /\ phase = "poll" /\ pos = Len(cdc)
    /\ UNCHANGED vars

-----------------------------------------------------------------------------
Init ==
    /\ rowVer = [d \in Docs |-> 0]
    /\ rows = {}
    /\ cdc = <<>>
    /\ committed = 0
    /\ pos = 0
    /\ phase = "poll"
    /\ toProduce = {}
    /\ lane = [l \in Lanes |-> <<>>]
    /\ dlq = {}
    /\ dropped = {}
    /\ budget = Budget

Source ==
    \/ \E d \in Docs, t \in Lanes : Insert(d, t) \/ Update(d, t)
    \/ \E d \in Docs : Delete(d)
    \/ \E d \in Docs, k \in Noise : AddNoise(d, k)

Loop ==
    \/ \E n \in 1..(Len(cdc) - pos) : Poll(n)
    \/ \E n \in toProduce : Produce(n)
    \/ Commit

Failure ==
    \/ \E n \in 0..(Len(cdc) - pos) : PollError(n)
    \/ ProduceError
    \/ CommitError
    \/ Crash

Next == Source \/ Loop \/ Failure \/ IdlePoll

Spec == Init /\ [][Next]_vars

\* The loop keeps running; nothing is assumed of the source and the faults.
FairSpec == Spec /\ WF_vars(Loop)

-----------------------------------------------------------------------------
(* Correctness *)

Images == Nat \cup {NoRow}
Events == [doc : Docs, op : {"c", "u", "d", "r", "t", "m"}, before : Images, after : Images,
           tier : Lanes, text : BOOLEAN, null : BOOLEAN, json : BOOLEAN]

\* Type invariant of the normalizer loop.
TypeOK ==
    /\ rowVer \in [Docs -> 0..MaxVersion] /\ rows \subseteq Docs
    /\ cdc \in Seq(Events)
    /\ pos \in 0..Len(cdc) /\ committed \in 0..pos
    /\ phase \in {"poll", "produce", "commit"}
    /\ toProduce \subseteq 1..pos
    /\ lane \in [Lanes -> Seq(1..Len(cdc))]
    /\ dlq \subseteq 1..Len(cdc)
    /\ dropped \subseteq 1..Len(cdc)
    /\ budget \in [Faults -> Nat]

Emitted(n) ==
    LET t == Destination(cdc[n])
    IN  CASE t = "none" -> TRUE
          [] t = "dlq" -> n \in dlq
          [] OTHER -> Contains(lane[t], n)

\* At-least-once: every event below the committed offset was skipped on
\* purpose, dead-lettered or produced to the lane of its tier.
NothingLost == \A n \in 1..committed : Emitted(n)

\* No silent loss: an event below the committed offset that was not emitted was
\* given up in a poll whose fetch or produce error was logged.  Crashes, lost
\* commits and the reads repeated after them lose nothing of their own.
\* Emitted includes dead letters that say no more than that there was an event:
\* the dead letter of an event that is not JSON is an empty record.
LossesLogged == \A n \in 1..committed : Emitted(n) \/ n \in dropped

\* Per-document order ("key by doc_id"): on a lane no change of a document
\* appears before an earlier change of it that belongs to the same lane, those
\* given up after an error excepted.
LanesInOrder ==
    \A l \in Lanes : \A j \in DOMAIN lane[l] : \A m \in 1..(lane[l][j] - 1) :
        (cdc[m].doc = cdc[lane[l][j]].doc /\ Destination(cdc[m]) = l)
            => m \in dropped \/ \E i \in 1..(j - 1) : lane[l][i] = m

\* Every captured change that was not given up after an error is eventually
\* emitted, and stays so.
EverythingEmitted == <>[](\A n \in DOMAIN cdc : Emitted(n) \/ n \in dropped)
=============================================================================
