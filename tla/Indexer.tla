------------------------------ MODULE Indexer ------------------------------
(***************************************************************************)
(* cmd/indexer: the consumer that keeps OpenSearch and Qdrant in step with  *)
(* the change records of the two priority lanes (docs.fast, docs.bulk).     *)
(*                                                                         *)
(* Every indexer process runs one worker per lane (main, runLane).  The     *)
(* workers of a process share its in-memory version guard; the processes    *)
(* share the stores and the committed offsets.  A worker polls records into *)
(* a batch, then applies it: guard, OpenSearch bulk (external versions),    *)
(* embedding, Qdrant upserts, Qdrant deletes, guard commit, cache           *)
(* generation bump, offset commit.  A failed step returns to polling with   *)
(* the batch kept.                                                          *)
(*                                                                         *)
(* A lane is modelled with one partition: the topics are keyed by doc_id,   *)
(* so the records of one document are always in one partition.  A poll of n *)
(* records is n Receive steps.  The two flush triggers (256 buffered        *)
(* records, flush interval elapsed) are abstracted to "a non-empty batch    *)
(* may be flushed between two receives": the size of a fetch is not bounded *)
(* and the timer may fire at any time, so no behaviour is lost.             *)
(***************************************************************************)
EXTENDS Integers, Sequences, FiniteSets

CONSTANTS
    Docs,          \* doc_ids
    Tenants,       \* tenant ids
    TenantOf,      \* TenantOf[d]: the tenant of document d
    Procs,         \* indexer processes (replicas of one consumer group)
    Tiers,         \* tiers the source gives to its rows: subset of Lanes
    MaxVersion,    \* bound: updates of one row
    Updatable,     \* the documents whose rows the source may update
    Deletable,     \* the documents whose rows the source may delete
    BadKinds,      \* the kinds of unusable records producers may append
    Budget         \* bound: Budget[f] is how often fault f may happen

Lanes == {"urgent", "bulk"}        \* docs.fast and docs.bulk
Unseen == -1                       \* no version known; no point in Qdrant
Ops == {"upsert", "delete"}
Worker == Procs \X Lanes

\* "ok"       decodes, validates, OpenSearch can index it
\* "refused"  decodes and validates, but OpenSearch rejects the item with a
\*            status that is neither 2xx, 409 nor 404 (a mapping error, say)
\* "invalid"  json.Unmarshal or Validate fails
Kinds == {"ok", "refused", "invalid"}

Faults == {"bulk", "embed", "qdrant", "redis", "commit", "dlq",
           "crash", "rebalance", "dup", "poison"}

Record == [doc : Docs, ver : 0..MaxVersion, op : Ops, kind : Kinds]

ASSUME ConstantsAssumption ==
    /\ TenantOf \in [Docs -> Tenants]
    /\ Procs # {}
    /\ Tiers \subseteq Lanes
    /\ MaxVersion \in Nat \ {0}
    /\ Updatable \subseteq Docs /\ Deletable \subseteq Docs
    /\ BadKinds \subseteq Kinds \ {"ok"}
    /\ Budget \in [Faults -> Nat]

VARIABLES
    rowVer,        \* source table: version column of each row, 0 = never inserted
    rows,          \* source table: the documents whose row exists
    topic,         \* topic[l]: the records of lane l
    committed,     \* committed[l]: offset the consumer group has committed
    owner,         \* owner[l]: the process lane l is assigned to
    dlq,           \* records dead-lettered by the indexer
    pos,           \* pos[w]: records of its lane worker w has received
    batch,         \* batch[w]: the slice runLane accumulates
    todo,          \* todo[w]: toApply, and after the bulk the applied part of it
    pc,            \* pc[w]: where worker w is
    guard,         \* guard[p][d]: version in the process's Guard
    osVer,         \* OpenSearch: external version held for d (tombstones too)
    osDocs,        \* OpenSearch: the searchable documents
    qd,            \* Qdrant: version in the payload of d's point
    unannounced,   \* documents whose last accepted OpenSearch write has not been
                   \* followed by a BumpGeneration of their tenant
    budget         \* faults still allowed

srcVars  == <<rowVer, rows>>
kafka    == <<topic, committed, owner, dlq>>
stores   == <<osVer, osDocs, qd>>
workers  == <<pos, batch, todo, pc>>
vars == <<rowVer, rows, topic, committed, owner, dlq, pos, batch, todo, pc,
          guard, osVer, osDocs, qd, unannounced, budget>>

-----------------------------------------------------------------------------
(* Reading a record *)

\* json.Unmarshal and Validate both succeed.
Valid(r) == r.kind \in {"ok", "refused"}

\* The store is obliged to reflect the record.
Indexable(r) == r.kind = "ok"

\* The record is reflected: the store holds its version or a newer one.
Settled(r) == osVer[r.doc] >= r.ver

Entries(s) == {s[i] : i \in DOMAIN s}

\* Mutant: the comparison of newestByDoc is reversed.
Newest_Oldest(s) ==
    {s[i] : i \in {i \in DOMAIN s :
        \A j \in DOMAIN s : s[j].doc = s[i].doc =>
            s[j].ver > s[i].ver \/ (s[j].ver = s[i].ver /\ i <= j)}}

\* newestByDoc: highest version per document, the first one on a tie.
Newest(s) ==
    {s[i] : i \in {i \in DOMAIN s :
        \A j \in DOMAIN s : s[j].doc = s[i].doc =>
            s[j].ver < s[i].ver \/ (s[j].ver = s[i].ver /\ i <= j)}}

\* Guard.ShouldApply
ShouldApply(p, r) == r.ver > guard[p][r.doc]

Upserts(S) == {r \in S : r.op = "upsert"}
Deletes(S) == {r \in S : r.op = "delete"}
DocsOf(S)  == {r.doc : r \in S}

\* The version S carries for d.
VerIn(S, d) == (CHOOSE r \in S : r.doc = d).ver

\* Mutant: the items carry no external version.
Accepted_AnyVersion(S) == S

\* The items of a bulk that external versioning accepts (2xx, or 404 for a
\* delete that finds nothing); the others answer 409.
Accepted(S) == {r \in S : r.ver > osVer[r.doc]}

\* The stages after the bulk; a stage with nothing to write is skipped.
AfterUpsert(S) == IF Deletes(S) # {} THEN "delete" ELSE "guard"

\* Mutant: documents that are not deletes skip the vector stages.
AfterBulk_NoVectors(S) == AfterUpsert(S)

AfterBulk(S) == IF Upserts(S) # {} THEN "embed" ELSE AfterUpsert(S)

Spend(f) ==
    /\ budget[f] > 0
    /\ budget' = [budget EXCEPT ![f] = @ - 1]

-----------------------------------------------------------------------------
(* The environment: table, change capture and normalizer.  A change of a row *)
(* appears as one record of the lane of its tier, carrying the row's version *)
(* column.  The trigger of init.sql increments that column on UPDATE only,   *)
(* so a delete carries the version of the last upsert.                       *)

Publish(l, r) == topic' = [topic EXCEPT ![l] = Append(@, r)]

Insert(d, l, k) ==
    /\ rowVer[d] = 0
    /\ rowVer' = [rowVer EXCEPT ![d] = 1]
    /\ rows' = rows \cup {d}
    /\ Publish(l, [doc |-> d, ver |-> 1, op |-> "upsert", kind |-> k])
    /\ UNCHANGED <<committed, owner, dlq, workers, guard, stores, unannounced, budget>>

Update(d, l, k) ==
    /\ d \in rows \cap Updatable /\ rowVer[d] < MaxVersion
    /\ rowVer' = [rowVer EXCEPT ![d] = @ + 1]
    /\ Publish(l, [doc |-> d, ver |-> rowVer[d] + 1, op |-> "upsert", kind |-> k])
    /\ UNCHANGED <<rows, committed, owner, dlq, workers, guard, stores, unannounced, budget>>

\* classifyTier: a delete always travels on the urgent lane.
Delete(d) ==
    /\ d \in rows \cap Deletable
    /\ rows' = rows \ {d}
    /\ Publish("urgent", [doc |-> d, ver |-> rowVer[d], op |-> "delete", kind |-> "ok"])
    /\ UNCHANGED <<rowVer, committed, owner, dlq, workers, guard, stores, unannounced, budget>>

\* Some other producer of the topic (a replay of the DLQ, a tool) appends a
\* record the indexer cannot read.
Poison(l, d, k) ==
    /\ Spend("poison")
    /\ Publish(l, [doc |-> d, ver |-> 1, op |-> "upsert", kind |-> k])
    /\ UNCHANGED <<srcVars, committed, owner, dlq, workers, guard, stores, unannounced>>

\* The normalizer reprocesses after a lost commit: a record is appended again.
Duplicate(l, i) ==
    /\ Spend("dup")
    /\ Publish(l, topic[l][i])
    /\ UNCHANGED <<srcVars, committed, owner, dlq, workers, guard, stores, unannounced>>

-----------------------------------------------------------------------------
(* runLane *)

\* Mutant: a bad record is only logged.
ToDLQ_LogOnly(l, n) == UNCHANGED <<dlq, budget>>

\* toDLQ: a failed produce is ignored.  A dead letter is known by its lane and
\* offset; for an original that is not JSON the record produced is empty.
ToDLQ(l, n) ==
    \/ dlq' = dlq \cup {[lane |-> l, offset |-> n]} /\ UNCHANGED budget
    \/ Spend("dlq") /\ UNCHANGED dlq

\* One record of a poll: into the batch, or to the DLQ if it does not decode or
\* validate.
Receive(w) ==
    LET l == w[2]
        n == pos[w] + 1
        r == topic[l][n]
    IN  /\ pc[w] = "poll"
        /\ owner[l] = w[1]
        /\ pos[w] < Len(topic[l])
        /\ pos' = [pos EXCEPT ![w] = n]
        /\ \/ Valid(r) /\ batch' = [batch EXCEPT ![w] = Append(@, r)]
                       /\ UNCHANGED <<dlq, budget>>
           \/ ~Valid(r) /\ ToDLQ(l, n) /\ UNCHANGED batch
        /\ UNCHANGED <<srcVars, topic, committed, owner, todo, pc, guard, stores, unannounced>>

\* An idle poll: nothing arrives within the flush interval, nothing is buffered.
IdlePoll(w) ==
    /\ pc[w] = "poll" /\ batch[w] = <<>>
    /\ owner[w[2]] = w[1] /\ pos[w] = Len(topic[w[2]])
    /\ UNCHANGED vars

\* Mutant: the guard learns the versions when it is asked.
Flush_GuardFirst(w) ==
    LET toApply == {r \in Newest(batch[w]) : ShouldApply(w[1], r)}
    IN  /\ pc[w] = "poll" /\ batch[w] # <<>>
        /\ todo' = [todo EXCEPT ![w] = toApply]
        /\ pc' = [pc EXCEPT ![w] = IF toApply = {} THEN "offsets" ELSE "bulk"]
        /\ guard' = [guard EXCEPT ![w[1]] = [d \in Docs |->
               IF d \in DocsOf(toApply) THEN VerIn(toApply, d) ELSE guard[w[1]][d]]]
        /\ UNCHANGED <<srcVars, kafka, pos, batch, stores, unannounced, budget>>

\* Mutant: a batch with nothing to apply is not committed.
Flush_NoCommit(w) ==
    LET toApply == {r \in Newest(batch[w]) : ShouldApply(w[1], r)}
    IN  /\ pc[w] = "poll" /\ batch[w] # <<>>
        /\ todo' = [todo EXCEPT ![w] = toApply]
        /\ pc' = [pc EXCEPT ![w] = IF toApply = {} THEN "poll" ELSE "bulk"]
        /\ UNCHANGED <<srcVars, kafka, pos, batch, guard, stores, unannounced, budget>>

\* flushBatch calls apply, whose first stage keeps the newest version of every
\* document and asks the guard.  With nothing left, apply returns at once.
Flush(w) ==
    LET toApply == {r \in Newest(batch[w]) : ShouldApply(w[1], r)}
    IN  /\ pc[w] = "poll" /\ batch[w] # <<>>
        /\ todo' = [todo EXCEPT ![w] = toApply]
        /\ pc' = [pc EXCEPT ![w] = IF toApply = {} THEN "offsets" ELSE "bulk"]
        /\ UNCHANGED <<srcVars, kafka, pos, batch, guard, stores, unannounced, budget>>

\* Mutant: the offsets are committed although apply failed.
Fail_Commits(w) ==
    /\ pc' = [pc EXCEPT ![w] = "offsets"]
    /\ todo' = [todo EXCEPT ![w] = {}]

\* apply returned an error: nothing is committed, the batch is kept.
Fail(w) ==
    /\ pc' = [pc EXCEPT ![w] = "poll"]
    /\ todo' = [todo EXCEPT ![w] = {}]

-----------------------------------------------------------------------------
(* apply, after the guard *)

\* OpenSearch processes the items S of a bulk request.
StoreItems(S) ==
    LET ok == Accepted(S)
    IN  /\ osVer' = [d \in Docs |-> IF d \in DocsOf(ok) THEN VerIn(ok, d) ELSE osVer[d]]
        /\ osDocs' = (osDocs \ DocsOf(Deletes(ok))) \cup DocsOf(Upserts(ok))
        /\ unannounced' = unannounced \cup DocsOf(ok)

Bulk(w) ==
    /\ pc[w] = "bulk"
    /\ \A r \in todo[w] : r.kind = "ok"
    /\ StoreItems(todo[w])
    /\ todo' = [todo EXCEPT ![w] = Accepted(todo[w])]
    /\ pc' = [pc EXCEPT ![w] = AfterBulk(Accepted(todo[w]))]
    /\ UNCHANGED <<srcVars, kafka, pos, batch, guard, qd, budget>>

\* Mutant: a hard error of an item is ignored and the item counts as applied.
BulkRefused_Ignored(w) ==
    /\ pc[w] = "bulk"
    /\ \E r \in todo[w] : r.kind = "refused"
    /\ StoreItems({r \in todo[w] : r.kind = "ok"})
    /\ todo' = [todo EXCEPT ![w] = Accepted(todo[w])]
    /\ pc' = [pc EXCEPT ![w] = AfterBulk(Accepted(todo[w]))]
    /\ UNCHANGED <<srcVars, kafka, pos, batch, guard, qd, budget>>

\* One item answers with a hard error: Bulk returns an error for the whole
\* batch although OpenSearch has processed the other items.
BulkRefused(w) ==
    /\ pc[w] = "bulk"
    /\ \E r \in todo[w] : r.kind = "refused"
    /\ StoreItems({r \in todo[w] : r.kind = "ok"})
    /\ Fail(w)
    /\ UNCHANGED <<srcVars, kafka, pos, batch, guard, qd, budget>>

\* The request fails or its answer is lost, with any part of it processed.
BulkError(w) ==
    /\ pc[w] = "bulk"
    /\ Spend("bulk")
    /\ \E S \in SUBSET {r \in todo[w] : r.kind = "ok"} : StoreItems(S)
    /\ Fail(w)
    /\ UNCHANGED <<srcVars, kafka, pos, batch, guard, qd>>

Embed(w) ==
    /\ pc[w] = "embed"
    /\ pc' = [pc EXCEPT ![w] = "upsert"]
    /\ UNCHANGED <<srcVars, kafka, pos, batch, todo, guard, stores, unannounced, budget>>

EmbedError(w) ==
    /\ pc[w] = "embed"
    /\ Spend("embed")
    /\ Fail(w)
    /\ UNCHANGED <<srcVars, kafka, pos, batch, guard, stores, unannounced>>

\* Qdrant overwrites or removes the points of S, whatever version they hold.
PutPoints(S) ==
    qd' = [d \in Docs |-> IF d \in DocsOf(S) THEN VerIn(S, d) ELSE qd[d]]

DropPoints(S) ==
    qd' = [d \in Docs |-> IF d \in DocsOf(S) THEN Unseen ELSE qd[d]]

QdrantUpsert(w) ==
    /\ pc[w] = "upsert"
    /\ PutPoints(Upserts(todo[w]))
    /\ pc' = [pc EXCEPT ![w] = AfterUpsert(todo[w])]
    /\ UNCHANGED <<srcVars, kafka, pos, batch, todo, guard, osVer, osDocs, unannounced, budget>>

QdrantUpsertError(w) ==
    /\ pc[w] = "upsert"
    /\ Spend("qdrant")
    /\ PutPoints(Upserts(todo[w])) \/ UNCHANGED qd
    /\ Fail(w)
    /\ UNCHANGED <<srcVars, kafka, pos, batch, guard, osVer, osDocs, unannounced>>

QdrantDelete(w) ==
    /\ pc[w] = "delete"
    /\ DropPoints(Deletes(todo[w]))
    /\ pc' = [pc EXCEPT ![w] = "guard"]
    /\ UNCHANGED <<srcVars, kafka, pos, batch, todo, guard, osVer, osDocs, unannounced, budget>>

QdrantDeleteError(w) ==
    /\ pc[w] = "delete"
    /\ Spend("qdrant")
    /\ DropPoints(Deletes(todo[w])) \/ UNCHANGED qd
    /\ Fail(w)
    /\ UNCHANGED <<srcVars, kafka, pos, batch, guard, osVer, osDocs, unannounced>>

\* Mutant: the generation is not bumped.
GuardCommit_NoBump(w) ==
    LET p == w[1]
        S == todo[w]
    IN  /\ pc[w] = "guard"
        /\ guard' = [guard EXCEPT ![p] = [d \in Docs |->
               IF d \in DocsOf(S) /\ VerIn(S, d) > guard[p][d]
               THEN VerIn(S, d) ELSE guard[p][d]]]
        /\ pc' = [pc EXCEPT ![w] = "offsets"]
        /\ UNCHANGED <<srcVars, kafka, pos, batch, todo, stores, unannounced, budget>>

\* Guard.Commit for every applied document; it never regresses a version.
GuardCommit(w) ==
    LET p == w[1]
        S == todo[w]
    IN  /\ pc[w] = "guard"
        /\ guard' = [guard EXCEPT ![p] = [d \in Docs |->
               IF d \in DocsOf(S) /\ VerIn(S, d) > guard[p][d]
               THEN VerIn(S, d) ELSE guard[p][d]]]
        /\ pc' = [pc EXCEPT ![w] = IF S = {} THEN "offsets" ELSE "bump"]
        /\ UNCHANGED <<srcVars, kafka, pos, batch, todo, stores, unannounced, budget>>

\* BumpGeneration for every changed tenant, best effort: bumped is the set of
\* tenants whose INCR reached Redis.
Bump(w) ==
    LET changed == {TenantOf[d] : d \in DocsOf(todo[w])}
    IN  /\ pc[w] = "bump"
        /\ \E bumped \in SUBSET changed :
              /\ unannounced' = {d \in unannounced : TenantOf[d] \notin bumped}
              /\ IF bumped = changed THEN UNCHANGED budget ELSE Spend("redis")
        /\ pc' = [pc EXCEPT ![w] = "offsets"]
        /\ UNCHANGED <<srcVars, kafka, pos, batch, todo, guard, stores>>

\* The end of flushBatch.  A commit counts only while the lane is still
\* assigned to the process; a failed one is only logged and the batch is
\* cleared all the same.
Clear(w) ==
    /\ batch' = [batch EXCEPT ![w] = <<>>]
    /\ todo' = [todo EXCEPT ![w] = {}]
    /\ pc' = [pc EXCEPT ![w] = "poll"]

\* Mutant: the offset is taken for that of the last record and incremented.
CommitOffsets_OnePast(w) ==
    /\ pc[w] = "offsets"
    /\ committed' = IF owner[w[2]] = w[1] THEN [committed EXCEPT ![w[2]] = pos[w] + 1]
                                          ELSE committed
    /\ Clear(w)
    /\ UNCHANGED <<srcVars, topic, owner, dlq, pos, guard, stores, unannounced, budget>>

CommitOffsets(w) ==
    /\ pc[w] = "offsets"
    /\ committed' = IF owner[w[2]] = w[1] THEN [committed EXCEPT ![w[2]] = pos[w]]
                                          ELSE committed
    /\ Clear(w)
    /\ UNCHANGED <<srcVars, topic, owner, dlq, pos, guard, stores, unannounced, budget>>

CommitOffsetsError(w) ==
    /\ pc[w] = "offsets"
    /\ Spend("commit")
    /\ Clear(w)
    /\ UNCHANGED <<srcVars, kafka, pos, guard, stores, unannounced>>

-----------------------------------------------------------------------------
(* Process faults *)

\* Mutant: the restarted process goes on where the old one had read to.
Crash_KeepsPosition(p, newOwner) ==
    /\ Spend("crash")
    /\ \A l \in Lanes : owner[l] # p => newOwner[l] = owner[l]
    /\ owner' = newOwner
    /\ batch' = [w \in Worker |-> IF w[1] = p THEN <<>> ELSE batch[w]]
    /\ todo' = [w \in Worker |-> IF w[1] = p THEN {} ELSE todo[w]]
    /\ pc' = [w \in Worker |-> IF w[1] = p THEN "poll" ELSE pc[w]]
    /\ guard' = [guard EXCEPT ![p] = [d \in Docs |-> Unseen]]
    /\ UNCHANGED <<srcVars, topic, committed, dlq, pos, stores, unannounced>>

\* A process stops (crash, kill, or SIGTERM: the last flushBatch then runs with
\* a cancelled context and changes nothing) and is restarted.  Its guard and its
\* batches are lost; its lanes are assigned anew and read from the committed
\* offset.
Crash(p, newOwner) ==
    /\ Spend("crash")
    /\ \A l \in Lanes : owner[l] # p => newOwner[l] = owner[l]
    /\ owner' = newOwner
    /\ pos' = [w \in Worker |->
          IF w[1] = p \/ (owner[w[2]] = p /\ newOwner[w[2]] = w[1])
          THEN committed[w[2]] ELSE pos[w]]
    /\ batch' = [w \in Worker |-> IF w[1] = p THEN <<>> ELSE batch[w]]
    /\ todo' = [w \in Worker |-> IF w[1] = p THEN {} ELSE todo[w]]
    /\ pc' = [w \in Worker |-> IF w[1] = p THEN "poll" ELSE pc[w]]
    /\ guard' = [guard EXCEPT ![p] = [d \in Docs |-> Unseen]]
    /\ UNCHANGED <<srcVars, topic, committed, dlq, stores, unannounced>>

\* Mutant: the new owner starts from its own old position.
Rebalance_KeepsPosition(l, q) ==
    /\ Spend("rebalance")
    /\ owner[l] # q
    /\ owner' = [owner EXCEPT ![l] = q]
    /\ UNCHANGED <<srcVars, topic, committed, dlq, pos, batch, todo, pc, guard, stores,
                   unannounced>>

\* The group moves lane l to process q.  The old worker is not told: it keeps
\* its batch and goes on applying it.
Rebalance(l, q) ==
    /\ Spend("rebalance")
    /\ owner[l] # q
    /\ owner' = [owner EXCEPT ![l] = q]
    /\ pos' = [pos EXCEPT ![<<q, l>>] = committed[l]]
    /\ UNCHANGED <<srcVars, topic, committed, dlq, batch, todo, pc, guard, stores,
                   unannounced>>

-----------------------------------------------------------------------------
Init ==
    /\ rowVer = [d \in Docs |-> 0]
    /\ rows = {}
    /\ topic = [l \in Lanes |-> <<>>]
    /\ committed = [l \in Lanes |-> 0]
    /\ owner \in [Lanes -> Procs]
    /\ dlq = {}
    /\ pos = [w \in Worker |-> 0]
    /\ batch = [w \in Worker |-> <<>>]
    /\ todo = [w \in Worker |-> {}]
    /\ pc = [w \in Worker |-> "poll"]
    /\ guard = [p \in Procs |-> [d \in Docs |-> Unseen]]
    /\ osVer = [d \in Docs |-> Unseen]
    /\ osDocs = {}
    /\ qd = [d \in Docs |-> Unseen]
    /\ unannounced = {}
    /\ budget = Budget

Source ==
    \/ \E d \in Docs, l \in Tiers, k \in {"ok"} \cup (BadKinds \cap {"refused"}) :
          Insert(d, l, k) \/ Update(d, l, k)
    \/ \E d \in Docs : Delete(d)

\* The steps of a worker whose calls succeed.
Progress(w) ==
    \/ Receive(w) \/ Flush(w)
    \/ Bulk(w) \/ BulkRefused(w) \/ Embed(w)
    \/ QdrantUpsert(w) \/ QdrantDelete(w)
    \/ GuardCommit(w) \/ Bump(w) \/ CommitOffsets(w)

\* The steps in which a call to another system fails.
CallFails(w) ==
    \/ BulkError(w) \/ EmbedError(w)
    \/ QdrantUpsertError(w) \/ QdrantDeleteError(w)
    \/ CommitOffsetsError(w)

Environment ==
    \/ \E l \in Lanes : \E i \in DOMAIN topic[l] : Duplicate(l, i)
    \/ \E l \in Lanes, d \in Docs, k \in BadKinds \ {"refused"} : Poison(l, d, k)
    \/ \E p \in Procs, newOwner \in [Lanes -> Procs] : Crash(p, newOwner)
    \/ \E l \in Lanes, q \in Procs : Rebalance(l, q)

Next ==
    \/ Source
    \/ Environment
    \/ \E w \in Worker : Progress(w) \/ CallFails(w) \/ IdlePoll(w)

Spec == Init /\ [][Next]_vars

\* Every worker keeps running: polls are bounded by the flush interval and
\* every call returns.  Nothing is assumed of the source or of the faults.
FairSpec == Spec /\ \A w \in Worker : WF_vars(Progress(w))

-----------------------------------------------------------------------------
(* Correctness *)

SourceType ==
    /\ rowVer \in [Docs -> 0..MaxVersion]
    /\ rows \subseteq Docs

KafkaType ==
    /\ topic \in [Lanes -> Seq(Record)]
    /\ committed \in [Lanes -> Nat]
    /\ owner \in [Lanes -> Procs]
    /\ dlq \subseteq [lane : Lanes, offset : Nat]

WorkerType ==
    /\ pos \in [Worker -> Nat]
    /\ batch \in [Worker -> Seq(Record)]
    /\ todo \in [Worker -> SUBSET Record]
    /\ pc \in [Worker -> {"poll", "bulk", "embed", "upsert", "delete",
                          "guard", "bump", "offsets"}]

StoreType ==
    /\ guard \in [Procs -> [Docs -> Int]]
    /\ osVer \in [Docs -> Int] /\ \A d \in Docs : osVer[d] >= Unseen
    /\ osDocs \subseteq Docs
    /\ qd \in [Docs -> Int]
    /\ unannounced \subseteq Docs

Types ==
    /\ SourceType
    /\ KafkaType
    /\ WorkerType
    /\ StoreType
    /\ budget \in [Faults -> Nat]

\* Offsets lie within the lane, and an owner has read at least to the commit.
OffsetsInRange ==
    /\ \A w \in Worker : pos[w] <= Len(topic[w[2]])
    /\ \A l \in Lanes : committed[l] <= pos[<<owner[l], l>>]
    /\ \A l \in Lanes : committed[l] <= Len(topic[l])

\* Type invariant: the state every variable of the indexer ranges over, and the
\* offsets in order: no lane is committed beyond what its owner has received,
\* and nobody has received more than was published (runLane,
\* CommitUncommittedOffsets).
TypeOK == Types /\ OffsetsInRange

\* At-least-once: a record below the committed offset (never delivered again)
\* is reflected in OpenSearch, whatever crashed, was lost or was reassigned
\* between the write and the commit (flushBatch: commit only after apply).
CommittedSettled ==
    \A l \in Lanes : \A i \in 1..committed[l] :
        Valid(topic[l][i]) => Settled(topic[l][i])

\* Qdrant is driven off the set Bulk applied: it never holds a version
\* OpenSearch has not accepted before.
QdrantNeverAhead == \A d \in Docs : qd[d] <= osVer[d]

\* The in-memory guard never refuses a record the version authority would
\* accept: what it remembers is at most what OpenSearch holds.
GuardBelowAuthority == \A p \in Procs, d \in Docs : guard[p][d] <= osVer[d]

\* Everything published has been received, and no worker has work left.
Quiet ==
    /\ \A w \in Worker : pc[w] = "poll" /\ batch[w] = <<>>
    /\ \A l \in Lanes : pos[<<owner[l], l>>] = Len(topic[l])

\* Once the indexer is quiet, OpenSearch holds exactly the rows of the source
\* table, at their current version.
IndexMatchesSource ==
    Quiet => \A d \in Docs :
        /\ d \in osDocs <=> d \in rows
        /\ d \in rows => osVer[d] = rowVer[d]

\* Once the indexer is quiet, the vector store holds the same documents at the
\* same versions as OpenSearch (apply: "keeps the two stores consistent").
StoresAgree ==
    Quiet => \A d \in Docs : qd[d] = IF d \in osDocs THEN osVer[d] ELSE Unseen

\* No apply has been cut short between its stages.
Undisturbed ==
    /\ \A f \in {"bulk", "embed", "qdrant", "crash", "rebalance"} : budget[f] = Budget[f]
    /\ \A l \in Lanes : \A r \in Entries(topic[l]) : r.kind # "refused"

\* What does hold of the stores: with the records of a document on one lane,
\* and as long as no apply was cut short, they agree whenever the indexer is
\* quiet, also after lost commits and repeated records.
StoresAgreeUndisturbed == Undisturbed => StoresAgree

\* As long as no apply was cut short and every INCR arrived, every accepted
\* write has been followed by a bump of its tenant's cache generation once the
\* indexer is quiet, so no cached answer outlives it.
WritesAnnounced ==
    (Quiet /\ Undisturbed /\ budget["redis"] = Budget["redis"]) => unannounced = {}

\* A record the indexer cannot read is dead-lettered before its offset is
\* committed, unless the produce to the dead-letter topic itself failed.  The
\* dead letter stands for the record, it need not hold it: json.Marshal rejects
\* an original that is not JSON, and toDLQ then produces an empty record.
CommittedDeadLettered ==
    budget["dlq"] = Budget["dlq"] => \A l \in Lanes : \A i \in 1..committed[l] :
        ~Valid(topic[l][i]) => \E e \in dlq : e.lane = l /\ e.offset = i

\* A record that OpenSearch refuses for good stops its lane: Bulk fails for
\* every batch it is in, and it is never dead-lettered.
Blocked(l) == \E i \in DOMAIN topic[l] : topic[l][i].kind = "refused"

Published(l, d, v) ==
    \E i \in DOMAIN topic[l] :
        topic[l][i].doc = d /\ topic[l][i].ver = v /\ Indexable(topic[l][i])

\* Every version the source publishes in a usable record is eventually
\* reflected in OpenSearch, if only finitely many calls fail and its own lane
\* is not blocked, whatever happens to the other lane.
PublishedIsIndexed ==
    \A l \in Lanes, d \in Docs, v \in 1..MaxVersion :
        Published(l, d, v) ~> (osVer[d] >= v \/ Blocked(l))

\* In the end every readable record of a lane is committed; a lane stays behind
\* only because of a refused record of its own.
LanesDrain ==
    <>[](\A l \in Lanes : ~Blocked(l) =>
            \A i \in DOMAIN topic[l] : Valid(topic[l][i]) => i <= committed[l])

\* Refinement: OpenSearch is a version authority.  The logs, the committed
\* offsets and the versions of OpenSearch implement VersionAuthority.
Authority == INSTANCE VersionAuthority
    WITH Usable <- Valid, log <- topic, acked <- committed, stored <- osVer

ImplementsAuthority == Authority!ASpec

-----------------------------------------------------------------------------
(* The inductive invariant that carries CommittedSettled, QdrantNeverAhead   *)
(* and the refinement: what holds between the offset, the batch, the applied *)
(* set and the stores at every stage of a worker.                            *)

Applying == {"embed", "upsert", "delete", "guard", "bump"}

\* A batch holds readable records of its lane, todo a part of the batch with
\* at most one record per document.
BatchFromLane ==
    \A w \in Worker :
        /\ \A r \in Entries(batch[w]) : Valid(r) /\ r \in Entries(topic[w[2]])
        /\ todo[w] \subseteq Entries(batch[w])
        /\ \A r1, r2 \in todo[w] : r1.doc = r2.doc => r1 = r2

\* What a worker has received is reflected already or still in its batch.
ReceivedKept ==
    \A w \in Worker : \A i \in 1..pos[w] :
        Valid(topic[w[2]][i]) =>
            Settled(topic[w[2]][i]) \/ topic[w[2]][i] \in Entries(batch[w])

\* Before the bulk, every record of the batch is reflected or superseded by a
\* record about to be written; from the bulk on, the whole batch is reflected.
BatchCovered ==
    \A w \in Worker :
        /\ pc[w] = "bulk" => \A r \in Entries(batch[w]) :
              Settled(r) \/ \E m \in todo[w] : m.doc = r.doc /\ m.ver >= r.ver
        /\ pc[w] \in Applying \cup {"offsets"} =>
              \A r \in Entries(batch[w]) : Settled(r)

IndInv ==
    /\ Types
    /\ OffsetsInRange
    /\ BatchFromLane
    /\ ReceivedKept
    /\ BatchCovered
    /\ CommittedSettled
    /\ GuardBelowAuthority
    /\ QdrantNeverAhead
=============================================================================
