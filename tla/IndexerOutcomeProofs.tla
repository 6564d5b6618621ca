----------------------- MODULE IndexerOutcomeProofs -----------------------
(***************************************************************************)
(* Proofs about what the indexer has done once it is quiet, for any         *)
(* documents, processes, tenants, bounds and fault budgets: unreadable      *)
(* records are dead-lettered, accepted writes are announced to the caches,  *)
(* OpenSearch holds the rows of the source, and Qdrant holds what OpenSearch *)
(* holds.                                                                   *)
(***************************************************************************)
EXTENDS IndexerProofs

-----------------------------------------------------------------------------
(* The invariants *)

\* Faults are only ever used up.
BudgetBelow == \A f \in Faults : budget[f] <= Budget[f]

\* A worker has dead-lettered every unreadable record it has passed.
ReceivedDeadLettered ==
    budget["dlq"] = Budget["dlq"] => \A w \in Worker : \A i \in 1..pos[w] :
        ~Valid(topic[w[2]][i]) => \E e \in dlq : e.lane = w[2] /\ e.offset = i

\* An accepted write that is not announced yet is in the hands of a worker that
\* has still to bump.
AnnouncedLater ==
    (Undisturbed /\ budget["redis"] = Budget["redis"]) =>
        \A d \in unannounced : \E w \in Worker : pc[w] \in Applying /\ d \in DocsOf(todo[w])

\* Rows and records: versions of records are versions the row had, the current
\* one is published, and only rows that may be deleted have delete records.
RowsPublished ==
    /\ \A l \in Lanes : \A r \in Entries(topic[l]) : Valid(r) =>
          /\ 1 <= r.ver /\ r.ver <= rowVer[r.doc]
          /\ r.op = "delete" => r.doc \in Deletable
    /\ \A d \in Docs : rowVer[d] > 0 =>
          \E l \in Lanes : \E r \in Entries(topic[l]) :
              Valid(r) /\ r.doc = d /\ r.ver = rowVer[d]
    /\ \A d \in rows : rowVer[d] > 0
    /\ \A d \in Docs \ Deletable : rowVer[d] > 0 => d \in rows

\* OpenSearch holds versions the rows had, and every document it knows a version
\* of is searchable unless it may be deleted.
StoreFollowsRows ==
    \A d \in Docs :
        /\ osVer[d] <= rowVer[d]
        /\ osVer[d] = Unseen \/ osVer[d] >= 1
        /\ d \notin Deletable => (d \in osDocs <=> osVer[d] # Unseen)

\* All usable records travel on lane l.
OneLane(l) == Tiers \subseteq {l} /\ (Deletable = {} \/ l = "urgent")

\* No other lane holds a usable record.
OnlyLane(l) == \A m \in Lanes \ {l} : \A r \in Entries(topic[m]) : ~Valid(r)

\* A worker has work only while it has a batch, and without a reassignment only
\* the owner of a lane gets one.
OwnersWork ==
    /\ \A w \in Worker : pc[w] # "poll" => batch[w] # <<>>
    /\ Undisturbed => \A w \in Worker : owner[w[2]] # w[1] => batch[w] = <<>>

\* The records worker w has written to OpenSearch and not yet to Qdrant.
ToQdrant(w) ==
    IF pc[w] \in {"embed", "upsert"} THEN todo[w]
    ELSE IF pc[w] = "delete" THEN Deletes(todo[w]) ELSE {}

\* OpenSearch holds what is to be written to Qdrant, and Qdrant holds the rest.
VectorsFollow ==
    Undisturbed =>
        /\ \A w \in Worker : \A r \in ToQdrant(w) :
              osVer[r.doc] = r.ver /\ (r.doc \in osDocs <=> r.op = "upsert")
        /\ \A d \in Docs : (\A w \in Worker : d \notin DocsOf(ToQdrant(w))) =>
              qd[d] = IF d \in osDocs THEN osVer[d] ELSE Unseen

-----------------------------------------------------------------------------
(* Kinds of steps *)

\* The steps that append a record to a lane.
Appends ==
    \/ Source
    \/ \E l \in Lanes : \E i \in DOMAIN topic[l] : Duplicate(l, i)
    \/ \E l \in Lanes, d \in Docs, k \in BadKinds \ {"refused"} : Poison(l, d, k)

\* The steps of a worker that an undisturbed apply is made of.
CalmStep(w) ==
    \/ Receive(w) \/ Flush(w) \/ Bulk(w) \/ Embed(w) \/ QdrantUpsert(w) \/ QdrantDelete(w)
    \/ GuardCommit(w) \/ Bump(w) \/ CommitOffsets(w) \/ CommitOffsetsError(w)

\* The steps that cut an apply short.
CutShort(w) ==
    \/ BulkRefused(w) \/ BulkError(w) \/ EmbedError(w) \/ QdrantUpsertError(w)
    \/ QdrantDeleteError(w)

\* Every step is of one of these kinds.
LEMMA StepKinds ==
    ASSUME [Next]_vars
    PROVE  \/ Appends
           \/ \E w \in Worker : CalmStep(w)
           \/ \E w \in Worker : CutShort(w)
           \/ \E p \in Procs, newOwner \in [Lanes -> Procs] : Crash(p, newOwner)
           \/ \E l \in Lanes, q \in Procs : Rebalance(l, q)
           \/ UNCHANGED vars
  BY Zenon DEF Next, Environment, Progress, CallFails, IdlePoll, Appends, CalmStep, CutShort

\* A step that appends changes no worker and no store.
LEMMA AppendsOnly ==
    ASSUME Types, Appends
    PROVE  /\ \E l \in Lanes, r \in Record : Publish(l, r)
           /\ UNCHANGED <<committed, owner, dlq, pos, batch, todo, pc, osVer, osDocs, qd,
                          unannounced>>
<1>0. Types'
  BY TypeStep, Zenon DEF Appends, Next, Environment
<1>1. /\ \E l \in Lanes, r \in Record : Publish(l, r)
      /\ UNCHANGED <<committed, owner, workers, guard, stores>>
  BY <1>0, EnvironmentPublishes, Zenon DEF Appends
<1>2. UNCHANGED <<dlq, unannounced>>
  BY DEF Appends, Source, Insert, Update, Delete, Duplicate, Poison
<1> QED
  BY <1>1, <1>2 DEF workers, stores

\* A step uses up at most one fault.
LEMMA BudgetStep ==
    ASSUME [Next]_vars
    PROVE  UNCHANGED budget \/ \E f \in Faults : Spend(f)
<1>1. CASE Appends
  BY <1>1 DEF Appends, Source, Insert, Update, Delete, Duplicate, Poison, Faults
<1>2. ASSUME NEW w \in Worker, CalmStep(w)
      PROVE  UNCHANGED budget \/ \E f \in Faults : Spend(f)
  <2>1. CASE Receive(w)
    BY <2>1 DEF Receive, ToDLQ, Faults
  <2>2. CASE Bump(w)
    BY <2>2 DEF Bump, Faults
  <2>3. CASE CommitOffsetsError(w)
    BY <2>3 DEF CommitOffsetsError, Faults
  <2> QED
    BY <1>2, <2>1, <2>2, <2>3
       DEF CalmStep, Flush, Bulk, Embed, QdrantUpsert, QdrantDelete, GuardCommit, CommitOffsets
<1>3. ASSUME NEW w \in Worker, CutShort(w)
      PROVE  UNCHANGED budget \/ \E f \in Faults : Spend(f)
  BY <1>3 DEF CutShort, BulkRefused, BulkError, EmbedError, QdrantUpsertError,
              QdrantDeleteError, Faults
<1>4. ASSUME NEW p \in Procs, NEW newOwner \in [Lanes -> Procs], Crash(p, newOwner)
      PROVE  Spend("crash")
  BY <1>4 DEF Crash
<1>5. ASSUME NEW l \in Lanes, NEW q \in Procs, Rebalance(l, q)
      PROVE  Spend("rebalance")
  BY <1>5 DEF Rebalance
<1>6. "crash" \in Faults /\ "rebalance" \in Faults
  BY DEF Faults
<1> QED
  BY <1>1, <1>2, <1>3, <1>4, <1>5, <1>6, StepKinds DEF vars

\* Faults that are used up do not come back.
LEMMA BudgetFalls ==
    ASSUME Types, BudgetBelow, [Next]_vars
    PROVE  /\ BudgetBelow'
           /\ \A f \in Faults : budget'[f] = Budget[f] => budget[f] = Budget[f] /\ ~Spend(f)
<1>1. \A f \in Faults : budget[f] \in Nat /\ Budget[f] \in Nat /\ budget[f] <= Budget[f]
  BY ConstantsAssumption DEF Types, BudgetBelow
<1>2. \A f \in Faults : Spend(f) => budget'[f] = budget[f] - 1
                                    /\ \A g \in Faults \ {f} : budget'[g] = budget[g]
  BY DEF Spend, Types
<1>3. \A f \in Faults : Spend(f) => budget'[f] < Budget[f]
  BY <1>1, <1>2
<1>4. \A g \in Faults : budget'[g] \in Int /\ budget'[g] <= budget[g]
  BY <1>1, <1>2, BudgetStep
<1>5. BudgetBelow'
  BY <1>1, <1>4 DEF BudgetBelow
<1>6. ASSUME NEW f \in Faults, budget'[f] = Budget[f] PROVE budget[f] = Budget[f] /\ ~Spend(f)
  <2>1. ~Spend(f)
    BY <1>1, <1>3, <1>6
  <2> QED
    BY <1>1, <1>4, <1>6, <2>1
<1> QED
  BY <1>5, <1>6

\* Records stay in their lane.
LEMMA EntriesGrow ==
    ASSUME Types, [Next]_vars
    PROVE  \A l \in Lanes : /\ Entries(topic[l]) \subseteq Entries(topic'[l])
                            /\ \A i \in 1..Len(topic[l]) : topic'[l][i] = topic[l][i]
<1>1. CASE Appends
  BY <1>1, AppendsOnly, PublishPrefix
<1>2. CASE UNCHANGED topic
  BY <1>2
<1>3. ASSUME NEW w \in Worker, CalmStep(w) \/ CutShort(w) PROVE UNCHANGED topic
  BY <1>3 DEF CalmStep, CutShort, Receive, Flush, Bulk, Embed, QdrantUpsert, QdrantDelete,
              GuardCommit, Bump, CommitOffsets, CommitOffsetsError, BulkRefused, BulkError,
              EmbedError, QdrantUpsertError, QdrantDeleteError, kafka
<1>4. ASSUME \/ \E p \in Procs, newOwner \in [Lanes -> Procs] : Crash(p, newOwner)
             \/ \E l \in Lanes, q \in Procs : Rebalance(l, q)
             \/ UNCHANGED vars
      PROVE  UNCHANGED topic
  BY <1>4 DEF Crash, Rebalance, vars
<1> QED
  BY <1>1, <1>2, <1>3, <1>4, StepKinds

\* An undisturbed indexer has never been disturbed.
LEMMA CalmBefore ==
    ASSUME Types, BudgetBelow, [Next]_vars, Undisturbed'
    PROVE  Undisturbed
<1>1. \A f \in {"bulk", "embed", "qdrant", "crash", "rebalance"} :
          f \in Faults /\ budget'[f] = Budget[f]
  BY DEF Undisturbed, Faults
<1>2. \A f \in {"bulk", "embed", "qdrant", "crash", "rebalance"} : budget[f] = Budget[f]
  BY <1>1, BudgetFalls
<1>3. \A l \in Lanes : \A r \in Entries(topic[l]) : r.kind # "refused"
  BY EntriesGrow DEF Undisturbed, Entries
<1> QED
  BY <1>2, <1>3 DEF Undisturbed

\* The steps of an undisturbed indexer.
LEMMA CalmSteps ==
    ASSUME IndInv, BudgetBelow, [Next]_vars, Undisturbed'
    PROVE  /\ Undisturbed
           /\ \/ Appends
              \/ \E w \in Worker : CalmStep(w)
              \/ UNCHANGED vars
<1>0. Types
  BY DEF IndInv
<1>1. Undisturbed
  BY <1>0, CalmBefore
<1>2. \A f \in {"bulk", "embed", "qdrant", "crash", "rebalance"} : ~Spend(f)
  <2>1. \A f \in {"bulk", "embed", "qdrant", "crash", "rebalance"} :
            f \in Faults /\ budget'[f] = Budget[f]
    BY DEF Undisturbed, Faults
  <2> QED
    BY <1>0, <2>1, BudgetFalls
<1>3. ASSUME NEW w \in Worker, CutShort(w) PROVE FALSE
  <2>1. ASSUME BulkRefused(w) PROVE FALSE
    <3>1. PICK r \in todo[w] : r.kind = "refused"
      BY <2>1 DEF BulkRefused
    <3>2. r \in Entries(topic[w[2]]) /\ w[2] \in Lanes
      BY WorkerFields DEF IndInv, BatchFromLane
    <3> QED
      BY <1>1, <3>1, <3>2 DEF Undisturbed
  <2> QED
    BY <1>2, <1>3, <2>1 DEF CutShort, BulkError, EmbedError, QdrantUpsertError, QdrantDeleteError
<1>4. ASSUME NEW p \in Procs, NEW newOwner \in [Lanes -> Procs], Crash(p, newOwner)
      PROVE  FALSE
  BY <1>2, <1>4 DEF Crash
<1>5. ASSUME NEW l \in Lanes, NEW q \in Procs, Rebalance(l, q) PROVE FALSE
  BY <1>2, <1>5 DEF Rebalance
<1> QED
  BY <1>1, <1>3, <1>4, <1>5, StepKinds

-----------------------------------------------------------------------------
(* Dead letters *)

\* A dead letter is not taken back.
LEMMA DeadLettersStay ==
    ASSUME [Next]_vars
    PROVE  dlq \subseteq dlq'
<1>1. ASSUME NEW w \in Worker, CalmStep(w) \/ CutShort(w) PROVE dlq \subseteq dlq'
  BY <1>1 DEF CalmStep, CutShort, Receive, ToDLQ, Flush, Bulk, Embed, QdrantUpsert,
              QdrantDelete, GuardCommit, Bump, CommitOffsets, CommitOffsetsError, BulkRefused,
              BulkError, EmbedError, QdrantUpsertError, QdrantDeleteError, kafka
<1>2. CASE Appends
  BY <1>2 DEF Appends, Source, Insert, Update, Delete, Duplicate, Poison
<1> QED
  BY <1>1, <1>2, StepKinds DEF Crash, Rebalance, vars

\* Receiving dead-letters an unreadable record; nothing else moves a worker
\* past one that is not dead-lettered.
LEMMA DeadLetterStep ==
    ASSUME IndInv, BudgetBelow, [Next]_vars, ReceivedDeadLettered, CommittedDeadLettered
    PROVE  ReceivedDeadLettered' /\ CommittedDeadLettered'
<1> SUFFICES ASSUME budget'["dlq"] = Budget["dlq"]
             PROVE  /\ \A w \in Worker : \A i \in 1..pos'[w] :
                          ~Valid(topic'[w[2]][i]) => \E e \in dlq' : e.lane = w[2] /\ e.offset = i
                    /\ \A l \in Lanes : \A i \in 1..committed'[l] :
                          ~Valid(topic'[l][i]) => \E e \in dlq' : e.lane = l /\ e.offset = i
  BY DEF ReceivedDeadLettered, CommittedDeadLettered, Valid
<1>0. Types /\ "dlq" \in Faults
  BY DEF IndInv, Faults
<1>1. budget["dlq"] = Budget["dlq"] /\ ~Spend("dlq")
  BY <1>0, BudgetFalls
<1>2. dlq \subseteq dlq'
  BY DeadLettersStay
<1>3. \A l \in Lanes : \A i \in 1..Len(topic[l]) : topic'[l][i] = topic[l][i]
  BY <1>0, EntriesGrow
<1>4. \A w \in Worker : pos[w] \in Nat /\ pos[w] <= Len(topic[w[2]]) /\ w[2] \in Lanes
  BY WorkerFields DEF IndInv, Types, WorkerType, OffsetsInRange
<1>5. \A l \in Lanes : Len(topic[l]) \in Nat /\ committed[l] \in Nat /\ committed[l] <= Len(topic[l])
  BY RecordsTyped DEF IndInv, Types, KafkaType, OffsetsInRange
<1>6. ASSUME NEW w \in Worker, NEW i \in 1..pos[w], ~Valid(topic'[w[2]][i])
      PROVE  \E e \in dlq' : e.lane = w[2] /\ e.offset = i
  <2>1. topic'[w[2]][i] = topic[w[2]][i]
    BY <1>3, <1>4, <1>5
  <2> QED
    BY <1>1, <1>2, <1>6, <2>1 DEF ReceivedDeadLettered
<1>7. ASSUME NEW l \in Lanes, NEW i \in 1..committed[l], ~Valid(topic'[l][i])
      PROVE  \E e \in dlq' : e.lane = l /\ e.offset = i
  <2>1. topic'[l][i] = topic[l][i]
    BY <1>3, <1>5
  <2> QED
    BY <1>1, <1>2, <1>7, <2>1 DEF CommittedDeadLettered
<1>8. ASSUME NEW w \in Worker, NEW i \in 1..pos'[w], ~Valid(topic'[w[2]][i]), i \notin 1..pos[w],
             i \notin 1..committed[w[2]]
      PROVE  \E e \in dlq' : e.lane = w[2] /\ e.offset = i
  <2>1. CASE \E v \in Worker : Receive(v)
    <3>1. PICK v \in Worker : Receive(v)
      BY <2>1
    <3>2. v = w /\ i = pos[w] + 1
      BY <1>0, <1>4, <1>8, <3>1 DEF Receive, Types, WorkerType
    <3>3. topic' = topic
      BY <3>1 DEF Receive
    <3>4. dlq' = dlq \cup {[lane |-> w[2], offset |-> i]}
      BY <1>1, <1>8, <3>1, <3>2, <3>3 DEF Receive, ToDLQ
    <3>5. /\ [lane |-> w[2], offset |-> i] \in dlq'
          /\ [lane |-> w[2], offset |-> i].lane = w[2]
          /\ [lane |-> w[2], offset |-> i].offset = i
      BY <3>4
    <3> QED
      BY <3>5, Zenon
  <2>2. CASE UNCHANGED pos
    BY <1>8, <2>2
  <2>3. CASE \E p \in Procs, newOwner \in [Lanes -> Procs] : Crash(p, newOwner)
    BY <1>8, <2>3 DEF Crash
  <2>4. CASE \E l \in Lanes, q \in Procs : Rebalance(l, q)
    <3>1. PICK l \in Lanes, q \in Procs : pos' = [pos EXCEPT ![<<q, l>>] = committed[l]]
      BY <2>4 DEF Rebalance
    <3>2. pos \in [Worker -> Nat]
      BY <1>0 DEF Types, WorkerType
    <3>3. CASE w = <<q, l>>
      BY <1>8, <3>1, <3>2, <3>3
    <3>4. CASE w # <<q, l>>
      BY <1>8, <3>1, <3>2, <3>4
    <3> QED
      BY <3>3, <3>4
  <2>5. ASSUME NEW v \in Worker, CalmStep(v) \/ CutShort(v), ~Receive(v) PROVE UNCHANGED pos
    BY <2>5 DEF CalmStep, CutShort, Flush, Bulk, Embed, QdrantUpsert, QdrantDelete,
                GuardCommit, Bump, CommitOffsets, CommitOffsetsError, BulkRefused, BulkError,
                EmbedError, QdrantUpsertError, QdrantDeleteError
  <2>6. ASSUME Appends PROVE UNCHANGED pos
    BY <1>0, <2>6, AppendsOnly
  <2> QED
    BY <2>1, <2>2, <2>3, <2>4, <2>5, <2>6, StepKinds DEF vars
<1>9. ASSUME NEW l \in Lanes, NEW i \in 1..committed'[l], i \notin 1..committed[l]
      PROVE  \E w \in Worker : w[2] = l /\ i \in 1..pos[w]
  <2>1. CASE \E w \in Worker : CommitOffsets(w)
    <3>1. PICK w \in Worker : CommitOffsets(w)
      BY <2>1
    <3>2. w[2] = l /\ committed'[l] = pos[w]
      BY <1>0, <1>9, <3>1, WorkerFields DEF CommitOffsets, Types, KafkaType
    <3> QED
      BY <1>9, <3>2
  <2>2. ASSUME NEW v \in Worker, CalmStep(v) \/ CutShort(v), ~CommitOffsets(v)
        PROVE  UNCHANGED committed
    BY <2>2 DEF CalmStep, CutShort, Receive, Flush, Bulk, Embed, QdrantUpsert, QdrantDelete,
                GuardCommit, Bump, CommitOffsetsError, BulkRefused, BulkError,
                EmbedError, QdrantUpsertError, QdrantDeleteError, kafka
  <2>3. ASSUME Appends PROVE UNCHANGED committed
    BY <1>0, <2>3, AppendsOnly
  <2>4. CASE UNCHANGED committed
    BY <1>9, <2>4
  <2> QED
    BY <2>1, <2>2, <2>3, <2>4, StepKinds DEF Crash, Rebalance, vars
<1>10. ASSUME NEW w \in Worker, NEW i \in 1..pos'[w], ~Valid(topic'[w[2]][i])
       PROVE  \E e \in dlq' : e.lane = w[2] /\ e.offset = i
  BY <1>4, <1>6, <1>7, <1>8, <1>10
<1>11. ASSUME NEW l \in Lanes, NEW i \in 1..committed'[l], ~Valid(topic'[l][i])
       PROVE  \E e \in dlq' : e.lane = l /\ e.offset = i
  BY <1>6, <1>7, <1>9, <1>11
<1> QED
  BY <1>10, <1>11

\* The invariant of the dead letters.
LEMMA DeadLettersKept ==
    Spec => [](IndInv /\ BudgetBelow /\ ReceivedDeadLettered /\ CommittedDeadLettered)
<1>1. Init => BudgetBelow /\ ReceivedDeadLettered /\ CommittedDeadLettered
  <2>1. Init => BudgetBelow
    BY ConstantsAssumption DEF Init, BudgetBelow
  <2>2. Init => ReceivedDeadLettered /\ CommittedDeadLettered
    BY DEF Init, ReceivedDeadLettered, CommittedDeadLettered
  <2> QED
    BY <2>1, <2>2
<1>2. IndInv /\ BudgetBelow /\ [Next]_vars => BudgetBelow'
  BY BudgetFalls DEF IndInv
<1>3. IndInv /\ BudgetBelow /\ ReceivedDeadLettered /\ CommittedDeadLettered /\ [Next]_vars
        => ReceivedDeadLettered' /\ CommittedDeadLettered'
  BY DeadLetterStep
<1> QED
  BY <1>1, <1>2, <1>3, Invariance, PTL DEF Spec

\* No unreadable record is passed over silently: as long as the dead-letter
\* topic takes records, one below the committed offset has been dead-lettered,
\* through any crash, rebalance and lost commit (runLane, toDLQ).
THEOREM UnreadableDeadLettered == Spec => []CommittedDeadLettered
BY DeadLettersKept, PTL

-----------------------------------------------------------------------------
(* Announcements *)

\* Every stage up to the bump keeps the written documents in hand, and the bump
\* announces them all.
LEMMA AnnounceStep ==
    ASSUME IndInv, BudgetBelow, [Next]_vars, AnnouncedLater
    PROVE  AnnouncedLater'
<1> SUFFICES ASSUME Undisturbed', budget'["redis"] = Budget["redis"], NEW d \in unannounced'
             PROVE  \E w \in Worker : pc'[w] \in Applying /\ d \in DocsOf(todo'[w])
  BY DEF AnnouncedLater, DocsOf
<1>0. Types /\ "redis" \in Faults
  BY DEF IndInv, Faults
<1>1. /\ Undisturbed
      /\ Appends \/ (\E w \in Worker : CalmStep(w)) \/ UNCHANGED vars
  BY CalmSteps
<1>2. budget["redis"] = Budget["redis"] /\ ~Spend("redis")
  BY <1>0, BudgetFalls
<1>3. d \in unannounced => \E v \in Worker : pc[v] \in Applying /\ d \in DocsOf(todo[v])
  BY <1>1, <1>2 DEF AnnouncedLater
<1>4. DOMAIN pc = Worker /\ DOMAIN todo = Worker
  BY <1>0 DEF Types, WorkerType
<1>5. CASE Appends
  BY <1>0, <1>3, <1>5, AppendsOnly
<1>6. CASE UNCHANGED vars
  BY <1>3, <1>6 DEF vars
<1>7. ASSUME NEW w \in Worker, CalmStep(w)
      PROVE  \E v \in Worker : pc'[v] \in Applying /\ d \in DocsOf(todo'[v])
  <2>1. ASSUME pc[w] \notin Applying, pc' = [pc EXCEPT ![w] = pc'[w]],
               todo' = [todo EXCEPT ![w] = todo'[w]], d \in unannounced
        PROVE  \E v \in Worker : pc'[v] \in Applying /\ d \in DocsOf(todo'[v])
    BY <1>3, <1>4, <2>1
  <2>2. CASE Receive(w)
    BY <1>3, <2>2 DEF Receive
  <2>3. CASE Flush(w)
    <3>1. /\ pc' = [pc EXCEPT ![w] = pc'[w]] /\ todo' = [todo EXCEPT ![w] = todo'[w]]
          /\ pc[w] = "poll" /\ unannounced' = unannounced
      BY <1>4, <2>3 DEF Flush
    <3>2. pc[w] \notin Applying
      BY <3>1 DEF Applying
    <3> QED
      BY <2>1, <3>1, <3>2
  <2>4. CASE Bulk(w)
    <3>1. /\ pc' = [pc EXCEPT ![w] = pc'[w]] /\ todo' = [todo EXCEPT ![w] = todo'[w]]
          /\ pc[w] = "bulk" /\ pc'[w] = AfterBulk(Accepted(todo[w]))
          /\ todo'[w] = Accepted(todo[w])
          /\ unannounced' = unannounced \cup DocsOf(Accepted(todo[w]))
      BY <1>4, <2>4 DEF Bulk, StoreItems
    <3>2. pc[w] \notin Applying
      BY <3>1 DEF Applying
    <3>3. pc'[w] \in Applying
      BY <3>1 DEF AfterBulk, AfterUpsert, Applying
    <3>4. CASE d \in unannounced
      BY <2>1, <3>1, <3>2, <3>4
    <3>5. CASE d \in DocsOf(Accepted(todo[w]))
      BY <3>1, <3>3, <3>5
    <3> QED
      BY <3>1, <3>4, <3>5
  <2>5. CASE Embed(w) \/ QdrantUpsert(w) \/ QdrantDelete(w)
    <3>1. /\ todo' = todo /\ unannounced' = unannounced
          /\ \A v \in Worker \ {w} : pc'[v] = pc[v]
      BY <1>4, <2>5 DEF Embed, QdrantUpsert, QdrantDelete
    <3>2. pc'[w] \in Applying
      BY <1>4, <2>5 DEF Embed, QdrantUpsert, QdrantDelete, AfterUpsert, Applying
    <3> QED
      BY <1>3, <3>1, <3>2
  <2>6. CASE GuardCommit(w)
    <3>1. /\ todo' = todo /\ unannounced' = unannounced
          /\ \A v \in Worker \ {w} : pc'[v] = pc[v]
          /\ pc'[w] = IF todo[w] = {} THEN "offsets" ELSE "bump"
      BY <1>4, <2>6 DEF GuardCommit
    <3>2. PICK v \in Worker : pc[v] \in Applying /\ d \in DocsOf(todo[v])
      BY <1>3, <3>1
    <3>3. todo[v] # {}
      BY <3>2 DEF DocsOf
    <3>4. pc'[v] \in Applying
      BY <3>1, <3>2, <3>3 DEF Applying
    <3> QED
      BY <3>1, <3>2, <3>4
  <2>7. CASE Bump(w)
    <3>1. /\ todo' = todo /\ \A v \in Worker \ {w} : pc'[v] = pc[v]
          /\ unannounced' = {e \in unannounced :
                TenantOf[e] \notin {TenantOf[x] : x \in DocsOf(todo[w])}}
      BY <1>2, <1>4, <2>7 DEF Bump
    <3>2. d \in unannounced /\ d \notin DocsOf(todo[w])
      BY <3>1
    <3> QED
      BY <1>3, <3>1, <3>2
  <2>8. CASE CommitOffsets(w) \/ CommitOffsetsError(w)
    <3>1. /\ pc' = [pc EXCEPT ![w] = pc'[w]] /\ todo' = [todo EXCEPT ![w] = todo'[w]]
          /\ pc[w] = "offsets" /\ unannounced' = unannounced
      BY <1>4, <2>8 DEF CommitOffsets, CommitOffsetsError, Clear
    <3>2. pc[w] \notin Applying
      BY <3>1 DEF Applying
    <3> QED
      BY <2>1, <3>1, <3>2
  <2> QED
    BY <1>7, <2>2, <2>3, <2>4, <2>5, <2>6, <2>7, <2>8 DEF CalmStep
<1> QED
  BY <1>1, <1>5, <1>6, <1>7

\* No cached answer outlives a write unnoticed: once the indexer is quiet every
\* write OpenSearch accepted has been followed by a bump of its tenant's cache
\* generation, if no apply was cut short and every INCR arrived, with any
\* number of processes working on both lanes (apply, BumpGeneration).
THEOREM WritesAreAnnounced == Spec => []WritesAnnounced
<1>1. Init => AnnouncedLater
  BY DEF Init, AnnouncedLater
<1>2. IndInv /\ BudgetBelow /\ AnnouncedLater /\ [Next]_vars => AnnouncedLater'
  BY AnnounceStep
<1>3. AnnouncedLater => WritesAnnounced
  <2> SUFFICES ASSUME AnnouncedLater, Quiet, Undisturbed, budget["redis"] = Budget["redis"],
                      NEW d \in unannounced
               PROVE  FALSE
    BY DEF WritesAnnounced
  <2>1. PICK w \in Worker : pc[w] \in Applying
    BY DEF AnnouncedLater
  <2> QED
    BY <2>1 DEF Quiet, Applying
<1> QED
  BY <1>1, <1>2, <1>3, DeadLettersKept, PTL DEF Spec

-----------------------------------------------------------------------------
(* OpenSearch and the rows of the source *)

\* What a lane holds after an append.
LEMMA PublishEntries ==
    ASSUME Types, NEW l \in Lanes, NEW r \in Record, Publish(l, r)
    PROVE  /\ Entries(topic'[l]) = Entries(topic[l]) \cup {r}
           /\ \A m \in Lanes \ {l} : topic'[m] = topic[m]
<1>0. topic[l] \in Seq(Record) /\ topic'[l] = Append(topic[l], r)
  BY DEF Types, KafkaType, Publish
<1>1. \A m \in Lanes \ {l} : topic'[m] = topic[m]
  BY DEF Types, KafkaType, Publish
<1>2. \A s \in Seq(Record) : Entries(Append(s, r)) = Entries(s) \cup {r}
  <2> SUFFICES ASSUME NEW s \in Seq(Record)
               PROVE  Entries(Append(s, r)) = Entries(s) \cup {r}
    OBVIOUS
  <2>1. /\ DOMAIN s = 1..Len(s) /\ Len(s) \in Nat
        /\ DOMAIN Append(s, r) = 1..(Len(s) + 1)
        /\ \A i \in 1..Len(s) : Append(s, r)[i] = s[i]
        /\ Append(s, r)[Len(s) + 1] = r
    OBVIOUS
  <2>2. Entries(Append(s, r)) = {Append(s, r)[i] : i \in 1..(Len(s) + 1)}
    BY <2>1 DEF Entries
  <2>3. Entries(s) = {s[i] : i \in 1..Len(s)}
    BY <2>1 DEF Entries
  <2>4. 1..(Len(s) + 1) = (1..Len(s)) \cup {Len(s) + 1}
    BY <2>1
  <2> QED
    BY <2>1, <2>2, <2>3, <2>4
<1> QED
  BY <1>0, <1>1, <1>2

\* Appending record r keeps rows and records together, if r is unreadable or
\* carries a version its row had and the current version of every row stays
\* published.
LEMMA RowsAppend ==
    ASSUME Types, Types', RowsPublished, NEW l \in Lanes, NEW r \in Record, Publish(l, r),
           Valid(r) => /\ 1 <= r.ver /\ r.ver <= rowVer'[r.doc]
                       /\ r.op = "delete" => r.doc \in Deletable,
           \A d \in Docs : rowVer[d] <= rowVer'[d],
           \A d \in Docs : rowVer'[d] = rowVer[d]
                           \/ (Valid(r) /\ r.doc = d /\ r.ver = rowVer'[d]),
           \A d \in rows' : rowVer'[d] > 0,
           \A d \in Docs \ Deletable : rowVer'[d] > 0 => d \in rows'
    PROVE  RowsPublished'
<1>1. /\ Entries(topic'[l]) = Entries(topic[l]) \cup {r}
      /\ \A m \in Lanes \ {l} : topic'[m] = topic[m]
  BY PublishEntries
<1>2. \A d \in Docs : rowVer[d] \in Int /\ rowVer'[d] \in Int
  BY ConstantsAssumption DEF Types, SourceType
<1>3. \A m \in Lanes : \A x \in Entries(topic[m]) : x \in Record
  BY RecordsTyped DEF Entries
<1>4. \A m \in Lanes : \A x \in Entries(topic'[m]) : Valid(x) =>
          /\ 1 <= x.ver /\ x.ver <= rowVer'[x.doc]
          /\ x.op = "delete" => x.doc \in Deletable
  <2> SUFFICES ASSUME NEW m \in Lanes, NEW x \in Entries(topic'[m]), Valid(x)
               PROVE  /\ 1 <= x.ver /\ x.ver <= rowVer'[x.doc]
                      /\ x.op = "delete" => x.doc \in Deletable
    OBVIOUS
  <2>1. CASE x = r
    BY <2>1
  <2>2. CASE x # r
    <3>1. x \in Entries(topic[m])
      BY <1>1, <2>2
    <3>2. /\ 1 <= x.ver /\ x.ver <= rowVer[x.doc]
          /\ x.op = "delete" => x.doc \in Deletable
      BY <3>1 DEF RowsPublished
    <3>3. x.doc \in Docs /\ x.ver \in Int
      BY <1>3, <3>1, RecordFields
    <3>4. rowVer[x.doc] <= rowVer'[x.doc] /\ rowVer[x.doc] \in Int /\ rowVer'[x.doc] \in Int
      BY <1>2, <3>3
    <3> QED
      BY <3>2, <3>3, <3>4
  <2> QED
    BY <2>1, <2>2
<1>5. \A d \in Docs : rowVer'[d] > 0 =>
          \E m \in Lanes : \E x \in Entries(topic'[m]) :
              Valid(x) /\ x.doc = d /\ x.ver = rowVer'[d]
  <2> SUFFICES ASSUME NEW d \in Docs, rowVer'[d] > 0
               PROVE  \E m \in Lanes : \E x \in Entries(topic'[m]) :
                          Valid(x) /\ x.doc = d /\ x.ver = rowVer'[d]
    OBVIOUS
  <2>1. CASE Valid(r) /\ r.doc = d /\ r.ver = rowVer'[d]
    BY <1>1, <2>1
  <2>2. CASE rowVer'[d] = rowVer[d]
    <3>0. PICK m \in Lanes : \E x \in Entries(topic[m]) :
              Valid(x) /\ x.doc = d /\ x.ver = rowVer[d]
      BY <2>2 DEF RowsPublished
    <3>1. PICK x \in Entries(topic[m]) : Valid(x) /\ x.doc = d /\ x.ver = rowVer[d]
      BY <3>0
    <3>2. x \in Entries(topic'[m])
      BY <1>1
    <3> QED
      BY <2>2, <3>1, <3>2
  <2> QED
    BY <2>1, <2>2
<1> QED
  BY <1>4, <1>5 DEF RowsPublished, Valid

\* The actions of the source and the repeated and foreign records keep rows and
\* records together.
LEMMA RowsStep ==
    ASSUME Types, Types', [Next]_vars, RowsPublished
    PROVE  RowsPublished' /\ \A d \in Docs : rowVer[d] <= rowVer'[d]
<1>0. /\ \A d \in Docs : rowVer[d] \in 0..MaxVersion /\ rowVer[d] \in Int
      /\ rows \subseteq Docs /\ rowVer \in [Docs -> 0..MaxVersion]
  BY ConstantsAssumption DEF Types, SourceType
<1>1. \A d \in rows : rowVer[d] > 0
  BY DEF RowsPublished
<1>2. \A d \in Docs \ Deletable : rowVer[d] > 0 => d \in rows
  BY DEF RowsPublished
<1>3. ASSUME NEW d \in Docs, NEW l \in Tiers,
             NEW k \in {"ok"} \cup (BadKinds \cap {"refused"}), Insert(d, l, k) \/ Update(d, l, k)
      PROVE  RowsPublished' /\ \A e \in Docs : rowVer[e] <= rowVer'[e]
  <2> DEFINE v == rowVer[d] + 1
             r == [doc |-> d, ver |-> v, op |-> "upsert", kind |-> k]
  <2>1. rowVer' = [rowVer EXCEPT ![d] = v] /\ Publish(l, r)
    BY <1>0, <1>3 DEF Insert, Update
  <2>2. rows' = rows \cup {d}
    BY <1>3 DEF Insert, Update
  <2>3. v \in Int /\ 1 <= v /\ rowVer[d] <= v /\ v \in 0..MaxVersion
    <3>1. v \in Int /\ 1 <= v /\ rowVer[d] <= v
      BY <1>0, ConstantsAssumption
    <3>2. rowVer'[d] = v /\ rowVer'[d] \in 0..MaxVersion
      BY <1>0, <2>1 DEF Types, SourceType
    <3> QED
      BY <3>1, <3>2
  <2> HIDE DEF v
  <2>4. l \in Lanes /\ k \in Kinds /\ k \in {"ok", "refused"} /\ "upsert" \in Ops
    BY ConstantsAssumption DEF Kinds, Ops
  <2>5. r \in Record
    BY <2>3, <2>4, RecordFields
  <2>6. rowVer'[d] = v /\ \A e \in Docs \ {d} : rowVer'[e] = rowVer[e]
    BY <1>0, <2>1
  <2>7. /\ r.doc = d /\ r.ver = v /\ r.op = "upsert" /\ Valid(r)
    BY <2>4 DEF Valid
  <2> HIDE DEF r
  <2>8. \A e \in Docs : rowVer[e] <= rowVer'[e]
    BY <1>0, <2>3, <2>6
  <2>9. \A e \in rows' : rowVer'[e] > 0
    BY <1>0, <1>1, <2>2, <2>3, <2>6
  <2>10. \A e \in Docs \ Deletable : rowVer'[e] > 0 => e \in rows'
    BY <1>2, <2>2, <2>6
  <2>11. /\ 1 <= r.ver /\ r.ver <= rowVer'[r.doc]
         /\ r.op = "delete" => r.doc \in Deletable
    BY <2>3, <2>6, <2>7
  <2>12. \A e \in Docs : rowVer'[e] = rowVer[e] \/ (Valid(r) /\ r.doc = e /\ r.ver = rowVer'[e])
    BY <2>6, <2>7
  <2> QED
    BY <2>1, <2>4, <2>5, <2>8, <2>9, <2>10, <2>11, <2>12, RowsAppend
<1>4. ASSUME NEW l \in Lanes, NEW r \in Record, Publish(l, r), UNCHANGED rowVer,
             Valid(r) => /\ 1 <= r.ver /\ r.ver <= rowVer[r.doc]
                         /\ r.op = "delete" => r.doc \in Deletable,
             rows' \subseteq rows, rows \ rows' \subseteq Deletable
      PROVE  RowsPublished' /\ \A e \in Docs : rowVer[e] <= rowVer'[e]
  <2>1. /\ \A e \in Docs : rowVer[e] <= rowVer'[e] /\ rowVer'[e] = rowVer[e]
        /\ \A e \in rows' : rowVer'[e] > 0
        /\ \A e \in Docs \ Deletable : rowVer'[e] > 0 => e \in rows'
    BY <1>0, <1>1, <1>2, <1>4
  <2>2. Valid(r) => /\ 1 <= r.ver /\ r.ver <= rowVer'[r.doc]
                    /\ r.op = "delete" => r.doc \in Deletable
    BY <1>4
  <2> QED
    BY <1>4, <2>1, <2>2, RowsAppend
<1>5. ASSUME NEW d \in Docs, Delete(d)
      PROVE  RowsPublished' /\ \A e \in Docs : rowVer[e] <= rowVer'[e]
  <2> DEFINE r == [doc |-> d, ver |-> rowVer[d], op |-> "delete", kind |-> "ok"]
  <2>1. /\ d \in rows /\ d \in Deletable /\ rows' = rows \ {d} /\ UNCHANGED rowVer
        /\ Publish("urgent", r)
    BY <1>5 DEF Delete
  <2>2. r \in Record /\ "urgent" \in Lanes
    BY <1>0, RecordFields DEF Ops, Kinds, Lanes
  <2>3. r.doc = d /\ r.ver = rowVer[d]
    OBVIOUS
  <2>4. 1 <= rowVer[d] /\ rowVer[d] <= rowVer[d]
    BY <1>0, <1>1, <2>1
  <2> HIDE DEF r
  <2>5. rows' \subseteq rows /\ rows \ rows' \subseteq Deletable
    BY <2>1
  <2> QED
    BY <1>4, <2>1, <2>2, <2>3, <2>4, <2>5
<1>6. ASSUME NEW l \in Lanes, NEW i \in DOMAIN topic[l], Duplicate(l, i)
      PROVE  RowsPublished' /\ \A e \in Docs : rowVer[e] <= rowVer'[e]
  <2>1. topic[l][i] \in Record /\ topic[l][i] \in Entries(topic[l])
    BY RecordsTyped DEF Entries
  <2>2. Publish(l, topic[l][i]) /\ UNCHANGED <<rowVer, rows>>
    BY <1>6 DEF Duplicate, srcVars
  <2>3. Valid(topic[l][i]) => /\ 1 <= topic[l][i].ver /\ topic[l][i].ver <= rowVer[topic[l][i].doc]
                              /\ topic[l][i].op = "delete" => topic[l][i].doc \in Deletable
    BY <2>1 DEF RowsPublished
  <2> QED
    BY <1>4, <2>1, <2>2, <2>3
<1>7. ASSUME NEW l \in Lanes, NEW d \in Docs, NEW k \in BadKinds \ {"refused"}, Poison(l, d, k)
      PROVE  RowsPublished' /\ \A e \in Docs : rowVer[e] <= rowVer'[e]
  <2> DEFINE r == [doc |-> d, ver |-> 1, op |-> "upsert", kind |-> k]
  <2>1. Publish(l, r) /\ UNCHANGED <<rowVer, rows>>
    BY <1>7 DEF Poison, srcVars
  <2>2. k \in Kinds /\ k \notin {"ok", "refused"} /\ "upsert" \in Ops /\ 1 \in 0..MaxVersion
    BY ConstantsAssumption DEF Kinds, Ops
  <2>3. r \in Record /\ ~Valid(r)
    BY <2>2, RecordFields DEF Valid
  <2> HIDE DEF r
  <2> QED
    BY <1>4, <2>1, <2>3
<1>8. ASSUME UNCHANGED <<rowVer, rows, topic>>
      PROVE  RowsPublished' /\ \A e \in Docs : rowVer[e] <= rowVer'[e]
  BY <1>0, <1>8 DEF RowsPublished
<1>9. ASSUME NEW w \in Worker, CalmStep(w) \/ CutShort(w) PROVE UNCHANGED <<rowVer, rows, topic>>
  BY <1>9 DEF CalmStep, CutShort, Receive, Flush, Bulk, Embed, QdrantUpsert, QdrantDelete,
              GuardCommit, Bump, CommitOffsets, CommitOffsetsError, BulkRefused, BulkError,
              EmbedError, QdrantUpsertError, QdrantDeleteError, kafka, srcVars
<1>10. ASSUME \/ \E p \in Procs, newOwner \in [Lanes -> Procs] : Crash(p, newOwner)
              \/ \E l \in Lanes, q \in Procs : Rebalance(l, q)
              \/ UNCHANGED vars
       PROVE  UNCHANGED <<rowVer, rows, topic>>
  BY <1>10 DEF Crash, Rebalance, vars, srcVars
<1>11. CASE Appends
  BY <1>3, <1>5, <1>6, <1>7, <1>11 DEF Appends, Source
<1> QED
  BY <1>8, <1>9, <1>10, <1>11, StepKinds

\* A bulk of records of a lane keeps OpenSearch at versions the rows had.
LEMMA BulkFollowsRows ==
    ASSUME IndInv, RowsPublished, StoreFollowsRows, NEW w \in Worker, NEW S \in SUBSET todo[w],
           StoreItems(S), UNCHANGED rowVer
    PROVE  StoreFollowsRows'
<1> DEFINE ok == Accepted(S)
<1>0. Types
  BY DEF IndInv
<1>1. ASSUME NEW r \in ok
      PROVE  /\ r \in Record /\ r.doc \in Docs /\ r.ver \in Int /\ 1 <= r.ver
             /\ r.ver <= rowVer[r.doc] /\ (r.op = "delete" => r.doc \in Deletable)
             /\ r.op \in {"upsert", "delete"}
  <2>1. r \in todo[w] /\ w[2] \in Lanes
    BY WorkerFields DEF Accepted
  <2>2. r \in Record /\ Valid(r) /\ r \in Entries(topic[w[2]])
    BY <1>0, <2>1 DEF IndInv, BatchFromLane, Types, WorkerType
  <2>3. r.op \in {"upsert", "delete"}
    BY <2>2 DEF Record, Ops
  <2> QED
    BY <2>1, <2>2, <2>3, RecordFields DEF RowsPublished
<1>2. /\ osVer' = [d \in Docs |-> IF d \in DocsOf(ok) THEN VerIn(ok, d) ELSE osVer[d]]
      /\ osDocs' = (osDocs \ DocsOf(Deletes(ok))) \cup DocsOf(Upserts(ok))
  BY DEF StoreItems
<1>3. ok \in SUBSET Record
  BY <1>1
<1> HIDE DEF ok
<1> SUFFICES ASSUME NEW d \in Docs
             PROVE  /\ osVer'[d] <= rowVer[d]
                    /\ osVer'[d] = Unseen \/ osVer'[d] >= 1
                    /\ d \notin Deletable => (d \in osDocs' <=> osVer'[d] # Unseen)
  BY DEF StoreFollowsRows
<1>4. CASE d \in DocsOf(ok)
  <2>1. PICK r \in ok : r.doc = d /\ VerIn(ok, d) = r.ver
    BY <1>3, <1>4, VerInProps
  <2>2. osVer'[d] = r.ver
    BY <1>2, <1>4, <2>1
  <2>3. osVer'[d] # Unseen
    BY <1>1, <2>2 DEF Unseen
  <2>4. d \notin Deletable => d \in osDocs'
    BY <1>1, <1>2, <2>1 DEF DocsOf, Upserts
  <2> QED
    BY <1>1, <2>1, <2>2, <2>3, <2>4
<1>5. CASE d \notin DocsOf(ok)
  <2>1. osVer'[d] = osVer[d]
    BY <1>2, <1>5
  <2>2. d \in osDocs' <=> d \in osDocs
    BY <1>2, <1>5 DEF DocsOf, Upserts, Deletes
  <2> QED
    BY <2>1, <2>2 DEF StoreFollowsRows
<1> QED
  BY <1>4, <1>5

\* Every step keeps OpenSearch at versions the rows had.
LEMMA StoreStep ==
    ASSUME IndInv, [Next]_vars, RowsPublished, StoreFollowsRows
    PROVE  RowsPublished' /\ StoreFollowsRows'
<1>0. Types /\ Types'
  BY TypeStep DEF IndInv
<1>1. RowsPublished' /\ \A d \in Docs : rowVer[d] <= rowVer'[d]
  BY <1>0, RowsStep
<1>2. CASE UNCHANGED <<osVer, osDocs>>
  <2>1. \A d \in Docs : osVer[d] \in Int /\ rowVer[d] \in Int /\ rowVer'[d] \in Int
    BY <1>0, ConstantsAssumption DEF Types, StoreType, SourceType
  <2>2. \A d \in Docs : osVer[d] <= rowVer'[d]
    BY <1>1, <2>1 DEF StoreFollowsRows
  <2> QED
    BY <1>1, <1>2, <2>2 DEF StoreFollowsRows
<1>3. ASSUME Appends PROVE UNCHANGED <<osVer, osDocs>>
  BY <1>0, <1>3, AppendsOnly
<1>4. ASSUME NEW w \in Worker, Bulk(w) \/ BulkRefused(w) \/ BulkError(w) PROVE StoreFollowsRows'
  <2>1. (\E S \in SUBSET todo[w] : StoreItems(S)) /\ UNCHANGED rowVer
    BY <1>4 DEF Bulk, BulkRefused, BulkError, srcVars
  <2> QED
    BY <2>1, BulkFollowsRows
<1>5. ASSUME NEW w \in Worker, CalmStep(w) \/ CutShort(w),
             ~(Bulk(w) \/ BulkRefused(w) \/ BulkError(w))
      PROVE  UNCHANGED <<osVer, osDocs>>
  BY <1>5 DEF CalmStep, CutShort, Receive, Flush, Embed, QdrantUpsert, QdrantDelete,
              GuardCommit, Bump, CommitOffsets, CommitOffsetsError,
              EmbedError, QdrantUpsertError, QdrantDeleteError, stores
<1>6. ASSUME \/ \E p \in Procs, newOwner \in [Lanes -> Procs] : Crash(p, newOwner)
             \/ \E l \in Lanes, q \in Procs : Rebalance(l, q)
             \/ UNCHANGED vars
      PROVE  UNCHANGED <<osVer, osDocs>>
  BY <1>6 DEF Crash, Rebalance, vars, stores
<1> QED
  BY <1>1, <1>2, <1>3, <1>4, <1>5, <1>6, StepKinds

\* Once the indexer is quiet, OpenSearch holds the row of every document that
\* is never deleted, at its current version.
UndeletedMatch ==
    Quiet => \A d \in Docs \ Deletable :
        /\ d \in osDocs <=> d \in rows
        /\ d \in rows => osVer[d] = rowVer[d]

\* Everything published has been received, and nothing is left in a batch.
LEMMA QuietSettled ==
    ASSUME IndInv, Quiet, NEW l \in Lanes, NEW r \in Entries(topic[l]), Valid(r)
    PROVE  osVer[r.doc] >= r.ver
<1> DEFINE w == <<owner[l], l>>
<1>1. w \in Worker /\ w[2] = l /\ Len(topic[l]) \in Nat /\ DOMAIN topic[l] = 1..Len(topic[l])
  BY WorkerFields, RecordsTyped DEF IndInv, Types, KafkaType
<1>2. PICK i \in DOMAIN topic[l] : topic[l][i] = r
  BY DEF Entries
<1>3. i \in 1..pos[w] /\ batch[w] = <<>>
  BY <1>1 DEF Quiet
<1>4. Entries(<<>>) = {}
  BY DEF Entries
<1>5. Settled(topic[l][i]) \/ topic[l][i] \in Entries(batch[w])
  BY <1>1, <1>2, <1>3 DEF IndInv, ReceivedKept
<1> QED
  BY <1>2, <1>3, <1>4, <1>5 DEF Settled

\* OpenSearch converges to the source for every row that is never deleted,
\* whatever fails, crashes, is reassigned or arrives twice, and whatever the
\* lanes do to the order of the versions (flushBatch, external versions).
THEOREM UndeletedRowsMatch == Spec => []UndeletedMatch
<1>1. Init => RowsPublished /\ StoreFollowsRows
  <2> SUFFICES ASSUME Init PROVE RowsPublished /\ StoreFollowsRows
    OBVIOUS
  <2>1. \A l \in Lanes : Entries(topic[l]) = {}
    BY DEF Init, Entries
  <2>2. RowsPublished
    BY <2>1 DEF Init, RowsPublished
  <2> QED
    BY <2>2 DEF Init, StoreFollowsRows, Unseen
<1>2. IndInv /\ RowsPublished /\ StoreFollowsRows /\ [Next]_vars
        => RowsPublished' /\ StoreFollowsRows'
  BY StoreStep
<1>3. IndInv /\ RowsPublished /\ StoreFollowsRows => UndeletedMatch
  <2> SUFFICES ASSUME IndInv, RowsPublished, StoreFollowsRows, Quiet,
                      NEW d \in Docs \ Deletable
               PROVE  /\ d \in osDocs <=> d \in rows
                      /\ d \in rows => osVer[d] = rowVer[d]
    BY DEF UndeletedMatch
  <2>1. osVer[d] \in Int /\ rowVer[d] \in Int
    BY ConstantsAssumption DEF IndInv, Types, StoreType, SourceType
  <2>2. /\ osVer[d] <= rowVer[d] /\ (osVer[d] = Unseen \/ osVer[d] >= 1)
        /\ d \in osDocs <=> osVer[d] # Unseen
    BY DEF StoreFollowsRows
  <2>3. ASSUME d \in rows PROVE osVer[d] = rowVer[d] /\ d \in osDocs
    <3>1. rowVer[d] > 0
      BY <2>3 DEF RowsPublished
    <3>2. PICK l \in Lanes : \E r \in Entries(topic[l]) :
              Valid(r) /\ r.doc = d /\ r.ver = rowVer[d]
      BY <3>1 DEF RowsPublished
    <3>3. osVer[d] >= rowVer[d]
      BY <3>2, QuietSettled
    <3> QED
      BY <2>1, <2>2, <3>1, <3>3 DEF Unseen
  <2>4. ASSUME d \in osDocs PROVE d \in rows
    <3>1. rowVer[d] > 0
      BY <2>1, <2>2, <2>4
    <3> QED
      BY <3>1 DEF RowsPublished
  <2> QED
    BY <2>3, <2>4
<1> QED
  BY <1>1, <1>2, <1>3, Invariance, PTL DEF Spec

\* Without deletions OpenSearch ends up with exactly the rows of the source.
\* (A deletion carries the version of the last upsert and is not reflected.)
THEOREM SourceIsIndexed == Deletable = {} => (Spec => []IndexMatchesSource)
<1> SUFFICES ASSUME Deletable = {} PROVE Spec => []IndexMatchesSource
  OBVIOUS
<1>1. UndeletedMatch => IndexMatchesSource
  BY DEF UndeletedMatch, IndexMatchesSource
<1> QED
  BY <1>1, UndeletedRowsMatch, PTL

-----------------------------------------------------------------------------
(* Qdrant and OpenSearch *)

\* With one tier, and deletions only on the lane of that tier, no other lane
\* gets a usable record.
LEMMA LaneStep ==
    ASSUME Types, [Next]_vars, NEW l \in Lanes, OneLane(l), OnlyLane(l)
    PROVE  OnlyLane(l)'
<1>1. ASSUME NEW m \in Lanes, NEW r \in Record, Publish(m, r), m = l \/ ~Valid(r)
      PROVE  OnlyLane(l)'
  <2>1. /\ Entries(topic'[m]) = Entries(topic[m]) \cup {r}
        /\ \A k \in Lanes \ {m} : topic'[k] = topic[k]
    BY <1>1, PublishEntries
  <2>2. ASSUME NEW k \in Lanes \ {l}, NEW x \in Entries(topic'[k]) PROVE ~Valid(x)
    BY <1>1, <2>1, <2>2 DEF OnlyLane
  <2> QED
    BY <2>2 DEF OnlyLane, Valid
<1>2. ASSUME UNCHANGED topic PROVE OnlyLane(l)'
  BY <1>2 DEF OnlyLane
<1>3. ASSUME NEW d \in Docs, NEW m \in Tiers,
             NEW k \in {"ok"} \cup (BadKinds \cap {"refused"}), Insert(d, m, k) \/ Update(d, m, k)
      PROVE  OnlyLane(l)'
  <2>1. m = l
    BY DEF OneLane
  <2>2. \E r \in Record : Publish(m, r)
    <3>1. k \in Kinds /\ "upsert" \in Ops /\ 1 \in 0..MaxVersion
      BY ConstantsAssumption DEF Kinds, Ops
    <3>2. CASE Insert(d, m, k)
      BY <3>1, <3>2, RecordFields DEF Insert
    <3>3. CASE Update(d, m, k)
      <4>1. rowVer[d] + 1 \in 0..MaxVersion
        BY <3>3, ConstantsAssumption DEF Update, Types, SourceType
      <4> QED
        BY <3>1, <3>3, <4>1, RecordFields DEF Update
    <3> QED
      BY <1>3, <3>2, <3>3
  <2> QED
    BY <1>1, <2>1, <2>2
<1>4. ASSUME NEW d \in Docs, Delete(d) PROVE OnlyLane(l)'
  <2>1. "urgent" = l
    BY <1>4 DEF OneLane, Delete
  <2>2. \E r \in Record : Publish("urgent", r)
    BY <1>4, RecordFields DEF Delete, Ops, Kinds, Types, SourceType
  <2> QED
    BY <1>1, <2>1, <2>2
<1>5. ASSUME NEW m \in Lanes, NEW i \in DOMAIN topic[m], Duplicate(m, i) PROVE OnlyLane(l)'
  <2>1. topic[m][i] \in Record /\ topic[m][i] \in Entries(topic[m])
    BY RecordsTyped DEF Entries
  <2>2. m = l \/ ~Valid(topic[m][i])
    BY <2>1 DEF OnlyLane
  <2>3. Publish(m, topic[m][i])
    BY <1>5 DEF Duplicate
  <2> QED
    BY <1>1, <2>1, <2>2, <2>3
<1>6. ASSUME NEW m \in Lanes, NEW d \in Docs, NEW k \in BadKinds \ {"refused"}, Poison(m, d, k)
      PROVE  OnlyLane(l)'
  <2> DEFINE r == [doc |-> d, ver |-> 1, op |-> "upsert", kind |-> k]
  <2>1. Publish(m, r)
    BY <1>6 DEF Poison
  <2>2. k \in Kinds /\ k \notin {"ok", "refused"} /\ "upsert" \in Ops /\ 1 \in 0..MaxVersion
    BY ConstantsAssumption DEF Kinds, Ops
  <2>3. r \in Record /\ ~Valid(r)
    BY <2>2, RecordFields DEF Valid
  <2> HIDE DEF r
  <2> QED
    BY <1>1, <2>1, <2>3
<1>7. CASE Appends
  BY <1>3, <1>4, <1>5, <1>6, <1>7 DEF Appends, Source
<1>8. ASSUME NEW w \in Worker, CalmStep(w) \/ CutShort(w) PROVE UNCHANGED topic
  BY <1>8 DEF CalmStep, CutShort, Receive, Flush, Bulk, Embed, QdrantUpsert, QdrantDelete,
              GuardCommit, Bump, CommitOffsets, CommitOffsetsError, BulkRefused, BulkError,
              EmbedError, QdrantUpsertError, QdrantDeleteError, kafka
<1>9. ASSUME \/ \E p \in Procs, newOwner \in [Lanes -> Procs] : Crash(p, newOwner)
             \/ \E m \in Lanes, q \in Procs : Rebalance(m, q)
             \/ UNCHANGED vars
      PROVE  UNCHANGED topic
  BY <1>9 DEF Crash, Rebalance, vars
<1> QED
  BY <1>2, <1>7, <1>8, <1>9, StepKinds

\* A worker that has work has a batch, and only owners get one.
LEMMA OwnersStep ==
    ASSUME IndInv, BudgetBelow, [Next]_vars, OwnersWork
    PROVE  OwnersWork'
<1>0. Types /\ DOMAIN pc = Worker /\ DOMAIN batch = Worker
  BY DEF IndInv, Types, WorkerType
<1>1. \A w \in Worker : pc[w] # "poll" => batch[w] # <<>>
  BY DEF OwnersWork
<1>2. ASSUME NEW w \in Worker, Receive(w)
      PROVE  /\ \A v \in Worker \ {w} : batch'[v] = batch[v]
             /\ UNCHANGED <<pc, owner>> /\ pc[w] = "poll" /\ owner[w[2]] = w[1]
  BY <1>0, <1>2 DEF Receive
<1>3. ASSUME NEW w \in Worker, CommitOffsets(w) \/ CommitOffsetsError(w)
      PROVE  /\ \A v \in Worker \ {w} : pc'[v] = pc[v] /\ batch'[v] = batch[v]
             /\ pc'[w] = "poll" /\ batch'[w] = <<>> /\ UNCHANGED owner
  BY <1>0, <1>3 DEF CommitOffsets, CommitOffsetsError, Clear, kafka
<1>4. ASSUME NEW w \in Worker, CalmStep(w) \/ CutShort(w), ~Receive(w),
             ~(CommitOffsets(w) \/ CommitOffsetsError(w))
      PROVE  UNCHANGED <<batch, owner>> /\ \A v \in Worker \ {w} : pc'[v] = pc[v]
  BY <1>0, <1>4 DEF CalmStep, CutShort, Flush, Bulk, Embed, QdrantUpsert, QdrantDelete,
              GuardCommit, Bump, BulkRefused, BulkError, Fail,
              EmbedError, QdrantUpsertError, QdrantDeleteError, kafka
<1>5. ASSUME NEW w \in Worker, CalmStep(w) \/ CutShort(w), ~Receive(w),
             ~(CommitOffsets(w) \/ CommitOffsetsError(w)), pc'[w] # "poll"
      PROVE  batch[w] # <<>>
  <2>1. CASE Flush(w)
    BY <2>1 DEF Flush
  <2>2. CASE ~Flush(w)
    <3>1. pc[w] # "poll"
      BY <1>5, <2>2 DEF CalmStep, CutShort, Bulk, Embed, QdrantUpsert, QdrantDelete,
              GuardCommit, Bump, BulkRefused, BulkError,
              EmbedError, QdrantUpsertError, QdrantDeleteError
    <3> QED
      BY <1>1, <3>1
  <2> QED
    BY <2>1, <2>2
<1>6. ASSUME Appends PROVE UNCHANGED <<batch, pc, owner>>
  BY <1>0, <1>6, AppendsOnly
<1>7. \A w \in Worker : pc'[w] # "poll" => batch'[w] # <<>>
  <2>1. CASE \E w \in Worker : Receive(w)
    BY <1>1, <1>2, <2>1
  <2>2. CASE \E w \in Worker : CommitOffsets(w) \/ CommitOffsetsError(w)
    BY <1>1, <1>3, <2>2
  <2>3. ASSUME NEW w \in Worker, CalmStep(w) \/ CutShort(w), ~Receive(w),
               ~(CommitOffsets(w) \/ CommitOffsetsError(w))
        PROVE  \A v \in Worker : pc'[v] # "poll" => batch'[v] # <<>>
    BY <1>1, <1>4, <1>5, <2>3
  <2>4. CASE \E p \in Procs, newOwner \in [Lanes -> Procs] : Crash(p, newOwner)
    BY <1>1, <2>4 DEF Crash
  <2>5. CASE UNCHANGED <<batch, pc>>
    BY <1>1, <2>5
  <2>6. ASSUME NEW l \in Lanes, NEW q \in Procs, Rebalance(l, q) PROVE UNCHANGED <<batch, pc>>
    BY <2>6 DEF Rebalance
  <2> QED
    BY <1>6, <2>1, <2>2, <2>3, <2>4, <2>5, <2>6, StepKinds DEF vars
<1>8. ASSUME Undisturbed', NEW v \in Worker, owner'[v[2]] # v[1] PROVE batch'[v] = <<>>
  <2>1. /\ Undisturbed
        /\ Appends \/ (\E w \in Worker : CalmStep(w)) \/ UNCHANGED vars
    BY <1>8, CalmSteps
  <2>2. owner[v[2]] # v[1] => batch[v] = <<>>
    BY <2>1 DEF OwnersWork
  <2>3. ASSUME NEW w \in Worker, CalmStep(w) PROVE batch'[v] = <<>>
    BY <1>2, <1>3, <1>4, <1>8, <2>2, <2>3
  <2> QED
    BY <1>6, <1>8, <2>1, <2>2, <2>3 DEF vars
<1> QED
  BY <1>7, <1>8 DEF OwnersWork

\* With one lane in use only its owner has work.
LEMMA OneWorker ==
    ASSUME IndInv, OwnersWork, Undisturbed, NEW l \in Lanes, OnlyLane(l),
           NEW w \in Worker, pc[w] # "poll"
    PROVE  w = <<owner[l], l>>
<1>1. batch[w] # <<>> /\ owner[w[2]] = w[1] /\ w[2] \in Lanes /\ w = <<w[1], w[2]>>
  BY WorkerFields DEF OwnersWork
<1>2. batch[w] \in Seq(Record)
  BY DEF IndInv, Types, WorkerType
<1>3. 1 \in DOMAIN batch[w]
  BY <1>1, <1>2
<1>4. \E r \in Entries(topic[w[2]]) : Valid(r)
  BY <1>3 DEF IndInv, BatchFromLane, Entries
<1>5. w[2] = l
  BY <1>1, <1>4 DEF OnlyLane
<1> QED
  BY <1>1, <1>5

\* A bulk leaves OpenSearch with the accepted records and leaves alone what it
\* has none for.
LEMMA BulkStores ==
    ASSUME osVer \in [Docs -> Int], NEW S \in SUBSET Record, StoreItems(S),
           \A r1, r2 \in S : r1.doc = r2.doc => r1 = r2
    PROVE  /\ \A r \in Accepted(S) :
                 osVer'[r.doc] = r.ver /\ (r.doc \in osDocs' <=> r.op = "upsert")
           /\ \A d \in Docs \ DocsOf(Accepted(S)) :
                 osVer'[d] = osVer[d] /\ (d \in osDocs' <=> d \in osDocs)
<1> DEFINE ok == Accepted(S)
<1>0. /\ ok \in SUBSET Record /\ \A r1, r2 \in ok : r1.doc = r2.doc => r1 = r2
  BY DEF Accepted
<1>1. /\ osVer' = [d \in Docs |-> IF d \in DocsOf(ok) THEN VerIn(ok, d) ELSE osVer[d]]
      /\ osDocs' = (osDocs \ DocsOf(Deletes(ok))) \cup DocsOf(Upserts(ok))
  BY DEF StoreItems
<1> HIDE DEF ok
<1>2. ASSUME NEW r \in ok
      PROVE  osVer'[r.doc] = r.ver /\ (r.doc \in osDocs' <=> r.op = "upsert")
  <2>1. r.doc \in DocsOf(ok) /\ r.doc \in Docs /\ r.op \in {"upsert", "delete"}
    BY <1>0 DEF DocsOf, Record, Ops
  <2>2. VerIn(ok, r.doc) = r.ver
    BY <1>0, <2>1, VerInProps
  <2>3. CASE r.op = "upsert"
    <3>1. r.doc \in DocsOf(Upserts(ok))
      BY <2>3 DEF DocsOf, Upserts
    <3> QED
      BY <1>1, <2>1, <2>2, <2>3, <3>1
  <2>4. CASE r.op = "delete"
    <3>1. r.doc \in DocsOf(Deletes(ok))
      BY <2>4 DEF DocsOf, Deletes
    <3>2. r.doc \notin DocsOf(Upserts(ok))
      BY <1>0, <2>4 DEF DocsOf, Upserts
    <3> QED
      BY <1>1, <2>1, <2>2, <2>4, <3>1, <3>2
  <2> QED
    BY <2>1, <2>3, <2>4
<1>3. ASSUME NEW d \in Docs \ DocsOf(ok)
      PROVE  osVer'[d] = osVer[d] /\ (d \in osDocs' <=> d \in osDocs)
  BY <1>1 DEF DocsOf, Upserts, Deletes
<1> QED
  BY <1>2, <1>3 DEF ok

\* The stages of an undisturbed apply write to Qdrant exactly what the bulk has
\* changed in OpenSearch, and no other worker is in between.
LEMMA VectorsStep ==
    ASSUME IndInv, BudgetBelow, [Next]_vars, NEW l \in Lanes, OnlyLane(l), OwnersWork,
           VectorsFollow
    PROVE  VectorsFollow'
<1> SUFFICES ASSUME Undisturbed'
             PROVE  /\ \A w \in Worker : \A r \in ToQdrant(w)' :
                          osVer'[r.doc] = r.ver /\ (r.doc \in osDocs' <=> r.op = "upsert")
                    /\ \A d \in Docs : (\A w \in Worker : d \notin DocsOf(ToQdrant(w)')) =>
                          qd'[d] = IF d \in osDocs' THEN osVer'[d] ELSE Unseen
  BY DEF VectorsFollow, DocsOf
<1>0. Types /\ DOMAIN pc = Worker /\ DOMAIN todo = Worker
  BY DEF IndInv, Types, WorkerType
<1>1. /\ Undisturbed
      /\ Appends \/ (\E w \in Worker : CalmStep(w)) \/ UNCHANGED vars
  BY CalmSteps
<1>2. /\ \A w \in Worker : \A r \in ToQdrant(w) :
            osVer[r.doc] = r.ver /\ (r.doc \in osDocs <=> r.op = "upsert")
      /\ \A d \in Docs : (\A w \in Worker : d \notin DocsOf(ToQdrant(w))) =>
            qd[d] = IF d \in osDocs THEN osVer[d] ELSE Unseen
  BY <1>1 DEF VectorsFollow
<1>3. CASE (\A v \in Worker : ToQdrant(v)' = ToQdrant(v)) /\ UNCHANGED <<osVer, osDocs, qd>>
  BY <1>2, <1>3
<1>4. ASSUME UNCHANGED <<pc, todo, osVer, osDocs, qd>>
      PROVE  (\A v \in Worker : ToQdrant(v)' = ToQdrant(v)) /\ UNCHANGED <<osVer, osDocs, qd>>
  BY <1>4 DEF ToQdrant, Deletes
<1>5. ASSUME Appends PROVE UNCHANGED <<pc, todo, osVer, osDocs, qd>>
  BY <1>0, <1>5, AppendsOnly
<1>6. ASSUME NEW w \in Worker, \A v \in Worker \ {w} : pc'[v] = pc[v] /\ todo'[v] = todo[v]
      PROVE  \A v \in Worker \ {w} : ToQdrant(v)' = ToQdrant(v)
  BY <1>6 DEF ToQdrant, Deletes
<1>7. ASSUME NEW w \in Worker, CalmStep(w)
      PROVE  /\ \A v \in Worker : \A r \in ToQdrant(v)' :
                   osVer'[r.doc] = r.ver /\ (r.doc \in osDocs' <=> r.op = "upsert")
             /\ \A d \in Docs : (\A v \in Worker : d \notin DocsOf(ToQdrant(v)')) =>
                   qd'[d] = IF d \in osDocs' THEN osVer'[d] ELSE Unseen
  <2>1. CASE Receive(w)
    <3>1. UNCHANGED <<pc, todo, osVer, osDocs, qd>>
      BY <2>1 DEF Receive, stores
    <3> QED
      BY <1>3, <1>4, <3>1
  <2>2. CASE \/ Flush(w) \/ GuardCommit(w) \/ Bump(w) \/ CommitOffsets(w)
             \/ CommitOffsetsError(w)
    <3>1. /\ \A v \in Worker \ {w} : pc'[v] = pc[v] /\ todo'[v] = todo[v]
          /\ UNCHANGED <<osVer, osDocs, qd>>
      BY <1>0, <2>2 DEF Flush, GuardCommit, Bump, CommitOffsets, CommitOffsetsError, Clear, stores
    <3>2. /\ pc[w] \notin {"embed", "upsert", "delete"}
          /\ pc'[w] \notin {"embed", "upsert", "delete"}
      BY <1>0, <2>2 DEF Flush, GuardCommit, Bump, CommitOffsets, CommitOffsetsError, Clear
    <3>3. ToQdrant(w) = {} /\ ToQdrant(w)' = {}
      BY <3>2 DEF ToQdrant
    <3>4. \A v \in Worker : ToQdrant(v)' = ToQdrant(v)
      BY <1>6, <3>1, <3>3
    <3> QED
      BY <1>3, <3>1, <3>4
  <2>3. CASE Embed(w)
    <3>1. /\ \A v \in Worker \ {w} : pc'[v] = pc[v]
          /\ pc[w] = "embed" /\ pc'[w] = "upsert" /\ UNCHANGED <<todo, osVer, osDocs, qd>>
      BY <1>0, <2>3 DEF Embed, stores
    <3>2. ToQdrant(w) = todo[w] /\ ToQdrant(w)' = todo'[w]
      BY <3>1 DEF ToQdrant
    <3>3. \A v \in Worker : ToQdrant(v)' = ToQdrant(v)
      BY <1>6, <3>1, <3>2
    <3> QED
      BY <1>3, <3>1, <3>3
  <2>4. CASE QdrantUpsert(w)
    <3>1. /\ \A v \in Worker \ {w} : pc'[v] = pc[v]
          /\ pc[w] = "upsert" /\ pc'[w] = AfterUpsert(todo[w]) /\ UNCHANGED <<todo, osVer, osDocs>>
          /\ qd' = [d \in Docs |-> IF d \in DocsOf(Upserts(todo[w])) THEN VerIn(Upserts(todo[w]), d)
                                   ELSE qd[d]]
      BY <1>0, <2>4 DEF QdrantUpsert, PutPoints
    <3>2. ToQdrant(w) = todo[w]
      BY <3>1 DEF ToQdrant
    <3>3. ToQdrant(w)' = Deletes(todo[w])
      BY <3>1 DEF ToQdrant, AfterUpsert, Deletes
    <3>4. \A v \in Worker \ {w} : ToQdrant(v)' = ToQdrant(v)
      BY <1>6, <3>1
    <3>5. \A v \in Worker : ToQdrant(v)' \subseteq ToQdrant(v)
      BY <3>2, <3>3, <3>4 DEF Deletes
    <3>6. todo[w] \in SUBSET Record
      BY <1>0 DEF Types, WorkerType
    <3>7. ASSUME NEW d \in Docs, \A v \in Worker : d \notin DocsOf(ToQdrant(v)')
          PROVE  qd'[d] = IF d \in osDocs THEN osVer[d] ELSE Unseen
      <4>1. CASE d \in DocsOf(Upserts(todo[w]))
        <5>1. Upserts(todo[w]) \in SUBSET Record
          BY <3>6 DEF Upserts
        <5>2. PICK r \in Upserts(todo[w]) : r.doc = d /\ VerIn(Upserts(todo[w]), d) = r.ver
          BY <4>1, <5>1, VerInProps
        <5>3. r \in todo[w] /\ r.op = "upsert"
          BY DEF Upserts
        <5>4. osVer[d] = r.ver /\ d \in osDocs
          BY <1>2, <3>2, <5>2, <5>3
        <5> QED
          BY <3>1, <4>1, <5>2, <5>4
      <4>2. CASE d \notin DocsOf(Upserts(todo[w]))
        <5>1. d \notin DocsOf(todo[w])
          <6> SUFFICES ASSUME NEW r \in todo[w], r.doc = d PROVE FALSE
            BY DEF DocsOf
          <6>1. r.op = "upsert" \/ r.op = "delete"
            BY <3>6 DEF Record, Ops
          <6> QED
            BY <3>3, <3>7, <4>2, <6>1 DEF DocsOf, Upserts, Deletes
        <5>2. \A v \in Worker : d \notin DocsOf(ToQdrant(v))
          BY <3>2, <3>4, <3>7, <5>1
        <5> QED
          BY <1>2, <3>1, <4>2, <5>2
      <4> QED
        BY <4>1, <4>2
    <3> QED
      BY <1>2, <3>1, <3>5, <3>7
  <2>5. CASE QdrantDelete(w)
    <3>1. /\ \A v \in Worker \ {w} : pc'[v] = pc[v]
          /\ pc[w] = "delete" /\ pc'[w] = "guard" /\ UNCHANGED <<todo, osVer, osDocs>>
          /\ qd' = [d \in Docs |-> IF d \in DocsOf(Deletes(todo[w])) THEN Unseen ELSE qd[d]]
      BY <1>0, <2>5 DEF QdrantDelete, DropPoints
    <3>2. ToQdrant(w) = Deletes(todo[w]) /\ ToQdrant(w)' = {}
      BY <3>1 DEF ToQdrant
    <3>3. \A v \in Worker \ {w} : ToQdrant(v)' = ToQdrant(v)
      BY <1>6, <3>1
    <3>4. ASSUME NEW d \in Docs, \A v \in Worker : d \notin DocsOf(ToQdrant(v)')
          PROVE  qd'[d] = IF d \in osDocs THEN osVer[d] ELSE Unseen
      <4>1. CASE d \in DocsOf(Deletes(todo[w]))
        <5>1. PICK r \in Deletes(todo[w]) : r.doc = d
          BY <4>1 DEF DocsOf
        <5>2. r.op = "delete"
          BY DEF Deletes
        <5>3. d \notin osDocs
          BY <1>2, <3>2, <5>1, <5>2
        <5> QED
          BY <3>1, <4>1, <5>3
      <4>2. CASE d \notin DocsOf(Deletes(todo[w]))
        <5>1. \A v \in Worker : d \notin DocsOf(ToQdrant(v))
          BY <3>2, <3>3, <3>4, <4>2
        <5> QED
          BY <1>2, <3>1, <4>2, <5>1
      <4> QED
        BY <4>1, <4>2
    <3> QED
      BY <1>2, <3>1, <3>2, <3>3, <3>4
  <2>6. CASE Bulk(w)
    <3> DEFINE ok == Accepted(todo[w])
    <3>1. /\ \A v \in Worker \ {w} : pc'[v] = pc[v] /\ todo'[v] = todo[v]
          /\ pc[w] = "bulk" /\ pc'[w] = AfterBulk(ok) /\ todo'[w] = ok
          /\ UNCHANGED qd /\ StoreItems(todo[w])
      BY <1>0, <2>6 DEF Bulk
    <3>2. \A v \in Worker \ {w} : pc[v] = "poll"
      BY <1>1, <3>1, OneWorker
    <3>3. \A v \in Worker : ToQdrant(v) = {}
      BY <3>1, <3>2 DEF ToQdrant
    <3>4. /\ todo[w] \in SUBSET Record /\ osVer \in [Docs -> Int]
          /\ \A r1, r2 \in todo[w] : r1.doc = r2.doc => r1 = r2
      BY <1>0 DEF IndInv, Types, WorkerType, StoreType, BatchFromLane
    <3>5. /\ \A r \in ok : osVer'[r.doc] = r.ver /\ (r.doc \in osDocs' <=> r.op = "upsert")
          /\ \A d \in Docs \ DocsOf(ok) : osVer'[d] = osVer[d] /\ (d \in osDocs' <=> d \in osDocs)
      BY <3>1, <3>4, BulkStores
    <3>6. \A r \in ok : r.op = "upsert" \/ r.op = "delete"
      BY <3>4 DEF Accepted, Record, Ops
    <3> HIDE DEF ok
    <3>7. ToQdrant(w)' = ok
      <4>1. CASE Upserts(ok) # {}
        BY <3>1, <4>1 DEF ToQdrant, AfterBulk
      <4>2. CASE Upserts(ok) = {}
        <5>1. Deletes(ok) = ok
          BY <3>6, <4>2 DEF Deletes, Upserts
        <5> QED
          BY <3>1, <4>2, <5>1 DEF ToQdrant, AfterBulk, AfterUpsert, Deletes
      <4> QED
        BY <4>1, <4>2
    <3>8. \A v \in Worker \ {w} : ToQdrant(v)' = {}
      BY <1>6, <3>1, <3>3
    <3>9. ASSUME NEW d \in Docs, \A v \in Worker : d \notin DocsOf(ToQdrant(v)')
          PROVE  qd'[d] = IF d \in osDocs' THEN osVer'[d] ELSE Unseen
      <4>1. d \notin DocsOf(ok)
        BY <3>7, <3>9
      <4>2. \A v \in Worker : d \notin DocsOf(ToQdrant(v))
        BY <3>3 DEF DocsOf
      <4> QED
        BY <1>2, <3>1, <3>5, <4>1, <4>2
    <3> QED
      BY <3>5, <3>7, <3>8, <3>9
  <2> QED
    BY <1>7, <2>1, <2>2, <2>3, <2>4, <2>5, <2>6 DEF CalmStep
<1>8. ASSUME UNCHANGED vars PROVE UNCHANGED <<pc, todo, osVer, osDocs, qd>>
  BY <1>8 DEF vars
<1> QED
  BY <1>1, <1>3, <1>4, <1>5, <1>7, <1>8

\* The two stores agree once the indexer is quiet, if all usable records travel
\* on one lane and no apply was cut short: also after lost commits, repeated and
\* unreadable records, with any number of processes (apply: "keeps the two
\* stores consistent").
THEOREM StoresAreConsistent ==
    (\E l \in Lanes : OneLane(l)) => (Spec => []StoresAgreeUndisturbed)
<1> SUFFICES ASSUME NEW l \in Lanes, OneLane(l) PROVE Spec => []StoresAgreeUndisturbed
  OBVIOUS
<1>1. Init => OnlyLane(l) /\ OwnersWork /\ VectorsFollow
  <2> SUFFICES ASSUME Init PROVE OnlyLane(l) /\ OwnersWork /\ VectorsFollow
    OBVIOUS
  <2>1. OnlyLane(l)
    BY DEF Init, OnlyLane, Entries
  <2>2. OwnersWork
    BY DEF Init, OwnersWork
  <2>3. \A w \in Worker : ToQdrant(w) = {}
    BY DEF Init, ToQdrant
  <2>4. VectorsFollow
    BY <2>3 DEF Init, VectorsFollow
  <2> QED
    BY <2>1, <2>2, <2>4
<1>2. IndInv /\ OnlyLane(l) /\ [Next]_vars => OnlyLane(l)'
  BY LaneStep DEF IndInv
<1>3. IndInv /\ BudgetBelow /\ OwnersWork /\ [Next]_vars => OwnersWork'
  BY OwnersStep
<1>4. IndInv /\ BudgetBelow /\ OnlyLane(l) /\ OwnersWork /\ VectorsFollow /\ [Next]_vars
        => VectorsFollow'
  BY VectorsStep
<1>5. VectorsFollow => StoresAgreeUndisturbed
  <2> SUFFICES ASSUME VectorsFollow, Undisturbed, Quiet, NEW d \in Docs
               PROVE  qd[d] = IF d \in osDocs THEN osVer[d] ELSE Unseen
    BY DEF StoresAgreeUndisturbed, StoresAgree
  <2>1. \A w \in Worker : d \notin DocsOf(ToQdrant(w))
    BY DEF Quiet, ToQdrant, DocsOf
  <2> QED
    BY <2>1 DEF VectorsFollow
<1> QED
  BY <1>1, <1>2, <1>3, <1>4, <1>5, DeadLettersKept, PTL DEF Spec
=============================================================================
