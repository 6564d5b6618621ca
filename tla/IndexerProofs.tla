--------------------------- MODULE IndexerProofs ---------------------------
(***************************************************************************)
(* Proofs about Indexer, for any documents, processes, tenants, bounds and  *)
(* fault budgets.                                                           *)
(***************************************************************************)
EXTENDS Indexer, TLAPS, WellFoundedInduction

-----------------------------------------------------------------------------
(* Least elements, and what newestByDoc returns *)

\* A non-empty set of naturals has a least element.
LEMMA LeastNat ==
    ASSUME NEW T, T \subseteq Nat, T # {}
    PROVE  \E x \in T : \A y \in T : x <= y
<1> DEFINE Less == {ss \in Nat \X Nat : ss[1] < ss[2]}
<1>1. Less = OpToRel(<, Nat)
  BY DEF OpToRel
<1>2. IsWellFoundedOn(Less, Nat)
  BY <1>1, NatLessThanWellFounded
<1> HIDE DEF Less
<1>3. PICK x \in T : \A y \in T : ~(<<y, x>> \in Less)
  BY <1>2, WFMin
<1>4. ASSUME NEW y \in T
      PROVE  x <= y
  <2>1. x \in Nat /\ y \in Nat
    OBVIOUS
  <2>2. CASE y < x
    <3>1. <<y, x>> \in Less
      BY <2>1, <2>2 DEF Less
    <3> QED
      BY <3>1, <1>3
  <2> QED
    BY <2>1, <2>2
<1> QED
  BY <1>4

\* newestByDoc keeps, for every record of a batch, a record of the same
\* document that is at least as new.
LEMMA NewestCovers ==
    ASSUME NEW s \in Seq(Record), NEW r \in Entries(s)
    PROVE  \E m \in Newest(s) : m.doc = r.doc /\ m.ver >= r.ver
<1> DEFINE Same(i) == i \in DOMAIN s /\ s[i].doc = r.doc
           Gap == {k \in Nat : \E i \in DOMAIN s :
                       s[i].doc = r.doc /\ k = MaxVersion - s[i].ver}
<1>a. DOMAIN s = 1..Len(s) /\ Len(s) \in Nat
  OBVIOUS
<1>b. MaxVersion \in Nat
  BY ConstantsAssumption
<1>c. \A i \in DOMAIN s : s[i].ver \in 0..MaxVersion
  <2> TAKE i \in DOMAIN s
  <2>1. s[i] \in Record
    BY <1>a
  <2> QED
    BY <2>1 DEF Record
<1>0. /\ DOMAIN s = 1..Len(s) /\ Len(s) \in Nat
      /\ \A i \in DOMAIN s : s[i].ver \in 0..MaxVersion
      /\ MaxVersion \in Nat
  BY <1>a, <1>b, <1>c
<1>1. PICK i0 \in DOMAIN s : s[i0] = r
  BY DEF Entries
<1>2. MaxVersion - s[i0].ver \in Gap
  BY <1>0, <1>1
<1>3. PICK k \in Gap : \A j \in Gap : k <= j
  BY <1>2, LeastNat
<1>4. PICK i1 \in DOMAIN s : s[i1].doc = r.doc /\ k = MaxVersion - s[i1].ver
  BY <1>3
<1>5. \A j \in DOMAIN s : s[j].doc = r.doc => s[j].ver <= s[i1].ver
  <2> SUFFICES ASSUME NEW j \in DOMAIN s, s[j].doc = r.doc
               PROVE  s[j].ver <= s[i1].ver
    OBVIOUS
  <2>1. MaxVersion - s[j].ver \in Gap
    BY <1>0
  <2>2. k <= MaxVersion - s[j].ver
    BY <2>1, <1>3
  <2>3. s[j].ver \in Nat /\ s[i1].ver \in Nat
    BY <1>0
  <2> HIDE DEF Gap
  <2> QED
    BY <2>2, <2>3, <1>4, <1>b
<1> DEFINE Firsts == {i \in Nat : i \in DOMAIN s /\ s[i].doc = r.doc /\ s[i].ver = s[i1].ver}
<1>6. i1 \in Firsts
  BY <1>0, <1>4
<1>7. PICK i2 \in Firsts : \A j \in Firsts : i2 <= j
  BY <1>6, LeastNat
<1>8. i2 \in DOMAIN s /\ s[i2].doc = r.doc /\ s[i2].ver = s[i1].ver
  BY <1>7
<1>9. ASSUME NEW j \in DOMAIN s, s[j].doc = s[i2].doc
      PROVE  s[j].ver < s[i2].ver \/ (s[j].ver = s[i2].ver /\ i2 <= j)
  <2>1. s[j].ver <= s[i1].ver
    BY <1>5, <1>8, <1>9
  <2>2. CASE s[j].ver = s[i1].ver
    <3>1. j \in Firsts
      BY <2>2, <1>8, <1>9, <1>0
    <3> QED
      BY <3>1, <2>2, <1>7, <1>8
  <2>3. CASE s[j].ver # s[i1].ver
    BY <2>1, <2>3, <1>8, <1>0
  <2> QED
    BY <2>2, <2>3
<1>10. s[i2] \in Newest(s)
  BY <1>8, <1>9 DEF Newest
<1>11. s[i2].ver >= r.ver
  BY <1>1, <1>5, <1>8, <1>0
<1> QED
  BY <1>8, <1>10, <1>11

\* newestByDoc returns records of the batch, one per document.
LEMMA NewestInBatch ==
    ASSUME NEW s \in Seq(Record)
    PROVE  /\ Newest(s) \subseteq Entries(s)
           /\ Entries(s) \subseteq Record
           /\ \A r1, r2 \in Newest(s) : r1.doc = r2.doc => r1 = r2
<1>0. DOMAIN s = 1..Len(s) /\ Len(s) \in Nat /\ \A i \in DOMAIN s : s[i] \in Record
  OBVIOUS
<1>1. Newest(s) \subseteq Entries(s)
  BY DEF Newest, Entries
<1>2. Entries(s) \subseteq Record
  BY <1>0 DEF Entries
<1>3. ASSUME NEW i \in DOMAIN s, NEW j \in DOMAIN s, s[i].doc = s[j].doc,
             s[j].ver < s[i].ver \/ (s[j].ver = s[i].ver /\ i <= j),
             s[i].ver < s[j].ver \/ (s[i].ver = s[j].ver /\ j <= i)
      PROVE  s[i] = s[j]
  <2>1. s[i].ver \in Int /\ s[j].ver \in Int /\ i \in Int /\ j \in Int
    BY <1>0, ConstantsAssumption DEF Record
  <2> QED
    BY <2>1, <1>3
<1>4. \A r1, r2 \in Newest(s) : r1.doc = r2.doc => r1 = r2
  BY <1>3 DEF Newest
<1> QED
  BY <1>1, <1>2, <1>4

-----------------------------------------------------------------------------
(* Small facts used throughout *)

\* Fields of records, and records from their fields.
LEMMA RecordFields ==
    /\ \A r \in Record : r.doc \in Docs /\ r.ver \in 0..MaxVersion /\ r.ver \in Int
    /\ \A d \in Docs, v \in 0..MaxVersion, o \in Ops, k \in Kinds :
          [doc |-> d, ver |-> v, op |-> o, kind |-> k] \in Record
  BY ConstantsAssumption DEF Record

\* A worker is a process and a lane.
LEMMA WorkerFields ==
    /\ \A w \in Worker : w[1] \in Procs /\ w[2] \in Lanes /\ w = <<w[1], w[2]>>
    /\ \A p \in Procs, l \in Lanes :
          <<p, l>> \in Worker /\ <<p, l>>[1] = p /\ <<p, l>>[2] = l
  BY DEF Worker

\* The version a set of records carries for a document is that of one of them.
LEMMA VerInProps ==
    ASSUME NEW S \in SUBSET Record, NEW d \in DocsOf(S)
    PROVE  \E r \in S : r.doc = d /\ VerIn(S, d) = r.ver /\ r.ver \in Int
<1>1. \E r \in S : r.doc = d
  BY DEF DocsOf
<1> QED
  BY <1>1, RecordFields DEF VerIn

\* Overwriting points keeps the type of Qdrant.
LEMMA PutPointsType ==
    ASSUME qd \in [Docs -> Int], NEW S \in SUBSET Record, PutPoints(S)
    PROVE  qd' \in [Docs -> Int]
<1>1. \A d \in DocsOf(S) : VerIn(S, d) \in Int
  BY VerInProps
<1> QED
  BY <1>1 DEF PutPoints

\* Appending a record to a lane keeps the type of the lanes.
LEMMA PublishType ==
    ASSUME topic \in [Lanes -> Seq(Record)], NEW l \in Lanes, NEW r \in Record,
           Publish(l, r)
    PROVE  topic' \in [Lanes -> Seq(Record)]
<1>1. Append(topic[l], r) \in Seq(Record)
  OBVIOUS
<1> QED
  BY <1>1 DEF Publish

\* Using up a fault keeps the type of the budget.
LEMMA SpendType ==
    ASSUME budget \in [Faults -> Nat], NEW f \in Faults, Spend(f)
    PROVE  budget' \in [Faults -> Nat]
  BY DEF Spend

-----------------------------------------------------------------------------
(* What a bulk does to OpenSearch *)

\* A bulk leaves OpenSearch well-typed, moves no document to an older version
\* and reflects every item, if it holds one item per document.
LEMMA StoreItemsProps ==
    ASSUME osVer \in [Docs -> Int], NEW S \in SUBSET Record, StoreItems(S)
    PROVE  /\ osVer' \in [Docs -> Int]
           /\ \A d \in Docs : osVer'[d] >= osVer[d]
           /\ (\A r1, r2 \in S : r1.doc = r2.doc => r1 = r2)
                => \A r \in S : osVer'[r.doc] >= r.ver
<1>0. \A r \in S : r.doc \in Docs /\ r.ver \in Int
  BY RecordFields
<1>1. osVer' = [d \in Docs |-> IF d \in DocsOf(Accepted(S)) THEN VerIn(Accepted(S), d)
                                                            ELSE osVer[d]]
  BY DEF StoreItems
<1>2. ASSUME NEW d \in DocsOf(Accepted(S))
      PROVE  \E r \in Accepted(S) : r.doc = d /\ VerIn(Accepted(S), d) = r.ver
  <2>1. Accepted(S) \in SUBSET Record
    BY DEF Accepted
  <2> QED
    BY <2>1, <1>2, VerInProps
<1>3. ASSUME NEW d \in DocsOf(Accepted(S))
      PROVE  VerIn(Accepted(S), d) \in Int /\ VerIn(Accepted(S), d) > osVer[d]
  BY <1>0, <1>2, <1>3 DEF Accepted
<1>4. osVer' \in [Docs -> Int] /\ \A d \in Docs : osVer'[d] >= osVer[d]
  BY <1>1, <1>3
<1>5. ASSUME \A r1, r2 \in S : r1.doc = r2.doc => r1 = r2, NEW r \in S
      PROVE  osVer'[r.doc] >= r.ver
  <2>1. CASE r \in Accepted(S)
    <3>1. r.doc \in DocsOf(Accepted(S))
      BY <2>1 DEF DocsOf
    <3>2. VerIn(Accepted(S), r.doc) = r.ver
      BY <1>2, <1>5, <3>1 DEF Accepted
    <3> QED
      BY <1>0, <1>1, <3>1, <3>2
  <2>2. CASE r \notin Accepted(S)
    BY <1>0, <1>4, <2>2 DEF Accepted
  <2> QED
    BY <2>1, <2>2
<1> QED
  BY <1>4, <1>5

\* A bulk keeps the types of OpenSearch, and no version falls below Unseen.
LEMMA StoreItemsType ==
    ASSUME StoreType, NEW S \in SUBSET Record, StoreItems(S), UNCHANGED <<guard, qd>>
    PROVE  StoreType'
<1>1. osVer' \in [Docs -> Int] /\ \A d \in Docs : osVer'[d] >= Unseen
  BY StoreItemsProps DEF StoreType, Unseen
<1>2. \A T \in SUBSET S : DocsOf(T) \subseteq Docs
  BY DEF DocsOf, Record
<1>3. osDocs' \subseteq Docs /\ unannounced' \subseteq Docs
  BY <1>2 DEF StoreItems, StoreType, Accepted, Upserts, Deletes
<1> QED
  BY <1>1, <1>3 DEF StoreType

-----------------------------------------------------------------------------
(* Type correctness *)

\* Every step keeps every variable in its type.
LEMMA TypeStep == Types /\ [Next]_vars => Types'
<1> SUFFICES ASSUME Types, [Next]_vars PROVE Types'
  OBVIOUS
<1> USE ConstantsAssumption
<1>1. ASSUME NEW d \in Docs, NEW l \in Tiers,
             NEW k \in {"ok"} \cup (BadKinds \cap {"refused"}),
             Insert(d, l, k)
      PROVE  Types'
  <2>1. WorkerType' /\ StoreType' /\ (budget \in [Faults -> Nat])'
    BY <1>1 DEF Types, Insert, WorkerType, StoreType, srcVars, kafka, workers, stores
  <2>2. SourceType'
    BY <1>1 DEF Types, Insert, SourceType, srcVars
  <2>3. KafkaType'
    <3>1. l \in Lanes /\ k \in Kinds /\ 1 \in 0..MaxVersion /\ "upsert" \in Ops
      BY DEF Kinds, Ops
    <3>2. [doc |-> d, ver |-> 1, op |-> "upsert", kind |-> k] \in Record
      BY <3>1, RecordFields
    <3> QED
      BY <1>1, <3>1, <3>2, PublishType DEF Types, KafkaType, Insert
  <2> QED
    BY <2>1, <2>2, <2>3 DEF Types
<1>2. ASSUME NEW d \in Docs, NEW l \in Tiers,
             NEW k \in {"ok"} \cup (BadKinds \cap {"refused"}),
             Update(d, l, k)
      PROVE  Types'
  <2>1. WorkerType' /\ StoreType' /\ (budget \in [Faults -> Nat])'
    BY <1>2 DEF Types, Update, WorkerType, StoreType, srcVars, kafka, workers, stores
  <2>2. SourceType'
    BY <1>2 DEF Types, Update, SourceType, srcVars
  <2>3. KafkaType'
    <3>1. l \in Lanes /\ k \in Kinds /\ "upsert" \in Ops
      BY DEF Kinds, Ops
    <3>2. rowVer[d] + 1 \in 0..MaxVersion
      BY <1>2 DEF Types, SourceType, Update
    <3>3. [doc |-> d, ver |-> rowVer[d] + 1, op |-> "upsert", kind |-> k] \in Record
      BY <3>1, <3>2, RecordFields
    <3> QED
      BY <1>2, <3>1, <3>3, PublishType DEF Types, KafkaType, Update
  <2> QED
    BY <2>1, <2>2, <2>3 DEF Types
<1>3. ASSUME NEW d \in Docs, Delete(d)
      PROVE  Types'
  <2>1. WorkerType' /\ StoreType' /\ (budget \in [Faults -> Nat])'
    BY <1>3 DEF Types, Delete, WorkerType, StoreType, srcVars, kafka, workers, stores
  <2>2. SourceType'
    BY <1>3 DEF Types, Delete, SourceType, srcVars
  <2>3. KafkaType'
    BY <1>3, PublishType, RecordFields DEF Types, Delete, KafkaType, Kinds, Ops, Lanes, SourceType, kafka
  <2> QED
    BY <2>1, <2>2, <2>3 DEF Types
<1>4. ASSUME NEW l \in Lanes, NEW i \in DOMAIN topic[l], Duplicate(l, i)
      PROVE  Types'
  <2>1. SourceType' /\ WorkerType' /\ StoreType'
    BY <1>4 DEF Types, Duplicate, SourceType, WorkerType, StoreType, srcVars, kafka, workers, stores
  <2>2. KafkaType'
    BY <1>4, PublishType, RecordFields DEF Types, Duplicate, KafkaType, kafka
  <2>3. (budget \in [Faults -> Nat])'
    BY <1>4, SpendType DEF Types, Duplicate, Faults
  <2> QED
    BY <2>1, <2>2, <2>3 DEF Types
<1>5. ASSUME NEW l \in Lanes, NEW d \in Docs,
             NEW k \in BadKinds \ {"refused"}, Poison(l, d, k)
      PROVE  Types'
  <2>1. SourceType' /\ WorkerType' /\ StoreType'
    BY <1>5 DEF Types, Poison, SourceType, WorkerType, StoreType, srcVars, kafka, workers, stores
  <2>2. KafkaType'
    <3>1. k \in Kinds /\ 1 \in 0..MaxVersion /\ "upsert" \in Ops
      BY DEF Kinds, Ops
    <3>2. [doc |-> d, ver |-> 1, op |-> "upsert", kind |-> k] \in Record
      BY <3>1, RecordFields
    <3> QED
      BY <1>5, <3>2, PublishType DEF Types, KafkaType, Poison
  <2>3. (budget \in [Faults -> Nat])'
    BY <1>5, SpendType DEF Types, Poison, Faults
  <2> QED
    BY <2>1, <2>2, <2>3 DEF Types
<1>6. ASSUME NEW p \in Procs, NEW newOwner \in [Lanes -> Procs],
             Crash(p, newOwner)
      PROVE  Types'
  <2>1. SourceType'
    BY <1>6 DEF Types, Crash, SourceType, srcVars, kafka, workers, stores
  <2>2. KafkaType'
    BY <1>6 DEF Types, Crash, KafkaType, kafka
  <2>3. WorkerType'
    BY <1>6 DEF Types, Crash, WorkerType, KafkaType, Worker, workers
  <2>4. StoreType'
    BY <1>6 DEF Types, Crash, StoreType, Unseen, WorkerType, stores
  <2>5. (budget \in [Faults -> Nat])'
    BY <1>6, SpendType DEF Types, Crash, Faults
  <2> QED
    BY <2>1, <2>2, <2>3, <2>4, <2>5 DEF Types
<1>7. ASSUME NEW l \in Lanes, NEW q \in Procs, Rebalance(l, q)
      PROVE  Types'
  <2>1. SourceType' /\ StoreType'
    BY <1>7 DEF Types, Rebalance, SourceType, StoreType, srcVars, kafka, workers, stores
  <2>2. KafkaType'
    BY <1>7 DEF Types, Rebalance, KafkaType, kafka
  <2>3. WorkerType'
    BY <1>7 DEF Types, Rebalance, WorkerType, KafkaType, Worker, workers
  <2>4. (budget \in [Faults -> Nat])'
    BY <1>7, SpendType DEF Types, Rebalance, Faults
  <2> QED
    BY <2>1, <2>2, <2>3, <2>4 DEF Types
<1>8. ASSUME NEW w \in Worker, Receive(w)
      PROVE  Types'
  <2>1. SourceType' /\ StoreType'
    BY <1>8 DEF Types, Receive, SourceType, StoreType, srcVars, kafka, workers, stores
  <2>2. KafkaType'
    BY <1>8 DEF Types, Receive, KafkaType, ToDLQ, Spend, Worker, WorkerType, kafka
  <2>3. WorkerType'
    <3>1. w[2] \in Lanes
      BY WorkerFields
    <3>2. topic[w[2]][pos[w] + 1] \in Record
      BY <1>8, <3>1 DEF Types, KafkaType, WorkerType, Receive
    <3>3. Append(batch[w], topic[w[2]][pos[w] + 1]) \in Seq(Record)
      BY <3>2 DEF Types, WorkerType
    <3>4. batch' \in [Worker -> Seq(Record)]
      BY <1>8, <3>3 DEF Types, WorkerType, Receive
    <3>5. pos' \in [Worker -> Nat] /\ UNCHANGED <<todo, pc>>
      BY <1>8 DEF Types, WorkerType, Receive
    <3> QED
      BY <3>4, <3>5 DEF Types, WorkerType
  <2>4. (budget \in [Faults -> Nat])'
    BY <1>8, SpendType DEF Types, Receive, Faults, ToDLQ
  <2> QED
    BY <2>1, <2>2, <2>3, <2>4 DEF Types
<1>9. ASSUME NEW w \in Worker, Flush(w)
      PROVE  Types'
  <2>1. SourceType' /\ KafkaType' /\ StoreType' /\ (budget \in [Faults -> Nat])'
    BY <1>9 DEF Types, Flush, SourceType, KafkaType, StoreType, srcVars, kafka, workers, stores
  <2>2. WorkerType'
    BY <1>9, NewestInBatch DEF Types, Flush, WorkerType, workers
  <2> QED
    BY <2>1, <2>2 DEF Types
<1>10. ASSUME NEW w \in Worker, Bulk(w)
      PROVE  Types'
  <2>1. SourceType' /\ KafkaType' /\ (budget \in [Faults -> Nat])'
    BY <1>10 DEF Types, Bulk, SourceType, KafkaType, srcVars, kafka, workers, stores
  <2>2. WorkerType'
    BY <1>10 DEF Types, Bulk, WorkerType, Accepted, AfterBulk, AfterUpsert, workers
  <2>3. StoreType'
    BY <1>10, StoreItemsType DEF Types, StoreType, WorkerType, Bulk
  <2> QED
    BY <2>1, <2>2, <2>3 DEF Types
<1>11. ASSUME NEW w \in Worker, BulkRefused(w)
      PROVE  Types'
  <2>1. SourceType' /\ KafkaType' /\ (budget \in [Faults -> Nat])'
    BY <1>11 DEF Types, BulkRefused, SourceType, KafkaType, srcVars, kafka, workers, stores
  <2>2. WorkerType'
    BY <1>11 DEF Types, BulkRefused, WorkerType, Fail, workers
  <2>3. StoreType'
    BY <1>11, StoreItemsType DEF Types, StoreType, WorkerType, BulkRefused
  <2> QED
    BY <2>1, <2>2, <2>3 DEF Types
<1>12. ASSUME NEW w \in Worker, BulkError(w)
      PROVE  Types'
  <2>1. SourceType' /\ KafkaType'
    BY <1>12 DEF Types, BulkError, SourceType, KafkaType, srcVars, kafka, workers, stores
  <2>2. WorkerType'
    BY <1>12 DEF Types, BulkError, WorkerType, Fail, workers
  <2>3. StoreType'
    BY <1>12, StoreItemsType DEF Types, StoreType, WorkerType, BulkError
  <2>4. (budget \in [Faults -> Nat])'
    BY <1>12, SpendType DEF Types, BulkError, Faults
  <2> QED
    BY <2>1, <2>2, <2>3, <2>4 DEF Types
<1>13. ASSUME NEW w \in Worker, Embed(w)
      PROVE  Types'
  <2>1. SourceType' /\ KafkaType' /\ StoreType' /\ (budget \in [Faults -> Nat])'
    BY <1>13 DEF Types, Embed, SourceType, KafkaType, StoreType, srcVars, kafka, workers, stores
  <2>2. WorkerType'
    BY <1>13 DEF Types, Embed, WorkerType, workers
  <2> QED
    BY <2>1, <2>2 DEF Types
<1>14. ASSUME NEW w \in Worker, EmbedError(w)
      PROVE  Types'
  <2>1. SourceType' /\ KafkaType' /\ StoreType'
    BY <1>14 DEF Types, EmbedError, SourceType, KafkaType, StoreType, srcVars, kafka, workers, stores
  <2>2. WorkerType'
    BY <1>14 DEF Types, EmbedError, WorkerType, Fail, workers
  <2>3. (budget \in [Faults -> Nat])'
    BY <1>14, SpendType DEF Types, EmbedError, Faults
  <2> QED
    BY <2>1, <2>2, <2>3 DEF Types
<1>15. ASSUME NEW w \in Worker, QdrantUpsert(w)
      PROVE  Types'
  <2>1. SourceType' /\ KafkaType' /\ (budget \in [Faults -> Nat])'
    BY <1>15 DEF Types, QdrantUpsert, SourceType, KafkaType, srcVars, kafka, workers, stores
  <2>2. WorkerType'
    BY <1>15 DEF Types, QdrantUpsert, WorkerType, AfterUpsert, workers
  <2>3. StoreType'
    BY <1>15, PutPointsType DEF Types, QdrantUpsert, StoreType, WorkerType, Upserts
  <2> QED
    BY <2>1, <2>2, <2>3 DEF Types
<1>16. ASSUME NEW w \in Worker, QdrantUpsertError(w)
      PROVE  Types'
  <2>1. SourceType' /\ KafkaType'
    BY <1>16 DEF Types, QdrantUpsertError, SourceType, KafkaType, srcVars, kafka, workers, stores
  <2>2. WorkerType'
    BY <1>16 DEF Types, QdrantUpsertError, WorkerType, Fail, workers
  <2>3. StoreType'
    BY <1>16, PutPointsType DEF Types, QdrantUpsertError, StoreType, WorkerType, Upserts
  <2>4. (budget \in [Faults -> Nat])'
    BY <1>16, SpendType DEF Types, QdrantUpsertError, Faults
  <2> QED
    BY <2>1, <2>2, <2>3, <2>4 DEF Types
<1>17. ASSUME NEW w \in Worker, QdrantDelete(w)
      PROVE  Types'
  <2>1. SourceType' /\ KafkaType' /\ (budget \in [Faults -> Nat])'
    BY <1>17 DEF Types, QdrantDelete, SourceType, KafkaType, srcVars, kafka, workers, stores
  <2>2. WorkerType'
    BY <1>17 DEF Types, QdrantDelete, WorkerType, workers
  <2>3. StoreType'
    BY <1>17 DEF Types, QdrantDelete, StoreType, DropPoints, Unseen, WorkerType, stores
  <2> QED
    BY <2>1, <2>2, <2>3 DEF Types
<1>18. ASSUME NEW w \in Worker, QdrantDeleteError(w)
      PROVE  Types'
  <2>1. SourceType' /\ KafkaType'
    BY <1>18 DEF Types, QdrantDeleteError, SourceType, KafkaType, srcVars, kafka, workers, stores
  <2>2. WorkerType'
    BY <1>18 DEF Types, QdrantDeleteError, WorkerType, Fail, workers
  <2>3. StoreType'
    BY <1>18 DEF Types, QdrantDeleteError, StoreType, DropPoints, Unseen, WorkerType, stores
  <2>4. (budget \in [Faults -> Nat])'
    BY <1>18, SpendType DEF Types, QdrantDeleteError, Faults
  <2> QED
    BY <2>1, <2>2, <2>3, <2>4 DEF Types
<1>19. ASSUME NEW w \in Worker, GuardCommit(w)
      PROVE  Types'
  <2>1. SourceType' /\ KafkaType' /\ (budget \in [Faults -> Nat])'
    BY <1>19 DEF Types, GuardCommit, SourceType, KafkaType, srcVars, kafka, workers, stores
  <2>2. WorkerType'
    BY <1>19 DEF Types, GuardCommit, WorkerType, workers
  <2>3. StoreType'
    <3>1. todo[w] \in SUBSET Record /\ w[1] \in Procs
      BY WorkerFields DEF Types, WorkerType
    <3>2. \A d \in DocsOf(todo[w]) : VerIn(todo[w], d) \in Int
      BY <3>1, VerInProps
    <3>3. guard' \in [Procs -> [Docs -> Int]]
      BY <1>19, <3>1, <3>2 DEF Types, StoreType, GuardCommit
    <3> QED
      BY <1>19, <3>3 DEF Types, StoreType, GuardCommit, stores
  <2> QED
    BY <2>1, <2>2, <2>3 DEF Types
<1>20. ASSUME NEW w \in Worker, Bump(w)
      PROVE  Types'
  <2>1. SourceType' /\ KafkaType'
    BY <1>20 DEF Types, Bump, SourceType, KafkaType, srcVars, kafka, workers, stores
  <2>2. WorkerType'
    BY <1>20 DEF Types, Bump, WorkerType, workers
  <2>3. StoreType'
    BY <1>20 DEF Types, Bump, StoreType, WorkerType, stores
  <2>4. (budget \in [Faults -> Nat])'
    BY <1>20, SpendType DEF Types, Bump, Faults
  <2> QED
    BY <2>1, <2>2, <2>3, <2>4 DEF Types
<1>21. ASSUME NEW w \in Worker, CommitOffsets(w)
      PROVE  Types'
  <2>1. SourceType' /\ StoreType' /\ (budget \in [Faults -> Nat])'
    BY <1>21 DEF Types, CommitOffsets, SourceType, StoreType, srcVars, kafka, workers, stores
  <2>2. KafkaType'
    BY <1>21 DEF Types, CommitOffsets, KafkaType, Worker, WorkerType, kafka
  <2>3. WorkerType'
    BY <1>21 DEF Types, CommitOffsets, WorkerType, Clear, workers
  <2> QED
    BY <2>1, <2>2, <2>3 DEF Types
<1>22. ASSUME NEW w \in Worker, CommitOffsetsError(w)
      PROVE  Types'
  <2>1. SourceType' /\ KafkaType' /\ StoreType'
    BY <1>22 DEF Types, CommitOffsetsError, SourceType, KafkaType, StoreType, srcVars, kafka, workers, stores
  <2>2. WorkerType'
    BY <1>22 DEF Types, CommitOffsetsError, WorkerType, Clear, workers
  <2>3. (budget \in [Faults -> Nat])'
    BY <1>22, SpendType DEF Types, CommitOffsetsError, Faults
  <2> QED
    BY <2>1, <2>2, <2>3 DEF Types
<1>23. ASSUME NEW w \in Worker, IdlePoll(w)
      PROVE  Types'
  BY <1>23 DEF IdlePoll, vars, Types, SourceType, KafkaType, WorkerType, StoreType
<1>24. CASE UNCHANGED vars
  BY <1>24 DEF vars, Types, SourceType, KafkaType, WorkerType, StoreType
<1> QED
  BY <1>1, <1>2, <1>3, <1>4, <1>5, <1>6, <1>7, <1>8, <1>9,
     <1>10, <1>11, <1>12, <1>13, <1>14, <1>15, <1>16, <1>17, <1>18, <1>19,
     <1>20, <1>21, <1>22, <1>23, <1>24
     DEF Next, Source, Environment, Progress, CallFails

-----------------------------------------------------------------------------
(* The conjuncts of the inductive invariant under the changes that several   *)
(* actions share.  Grows says that OpenSearch lost no version.               *)

Grows == \A d \in Docs : osVer'[d] >= osVer[d]

\* A step that leaves the stores alone lets no version regress.
LEMMA SameGrows ==
    ASSUME Types, UNCHANGED osVer
    PROVE  Grows
  BY DEF Types, StoreType, Grows

\* What was reflected stays reflected.
LEMMA SettledGrows ==
    ASSUME Types, Types', Grows, NEW r \in Record, Settled(r)
    PROVE  Settled(r)'
<1>1. r.doc \in Docs /\ r.ver \in Int
  BY RecordFields
<1>2. osVer[r.doc] \in Int /\ osVer'[r.doc] \in Int /\ osVer'[r.doc] >= osVer[r.doc]
  BY <1>1 DEF Types, StoreType, Grows
<1> QED
  BY <1>1, <1>2 DEF Settled

\* The records of a lane and of a batch are records.
LEMMA RecordsTyped ==
    ASSUME Types
    PROVE  /\ \A l \in Lanes : \A i \in 1..Len(topic[l]) : topic[l][i] \in Record
           /\ \A l \in Lanes : Len(topic[l]) \in Nat /\ DOMAIN topic[l] = 1..Len(topic[l])
           /\ \A w \in Worker : Entries(batch[w]) \subseteq Record
  BY NewestInBatch DEF Types, KafkaType, WorkerType

\* A step that leaves lanes, offsets and batches alone keeps ReceivedKept and
\* CommittedSettled when versions only grow.
LEMMA KeepsReceived ==
    ASSUME IndInv, Types', Grows, UNCHANGED <<topic, committed, owner, pos, batch>>
    PROVE  OffsetsInRange' /\ ReceivedKept' /\ CommittedSettled'
<1>1. OffsetsInRange'
  BY DEF IndInv, OffsetsInRange
<1>2. ASSUME NEW w \in Worker, NEW i \in 1..pos[w]
      PROVE  topic[w[2]][i] \in Record
  BY <1>2, RecordsTyped, WorkerFields
     DEF IndInv, OffsetsInRange, Types, WorkerType, KafkaType
<1>3. ReceivedKept'
  BY <1>2, SettledGrows DEF IndInv, ReceivedKept, Valid
<1>4. ASSUME NEW l \in Lanes, NEW i \in 1..committed[l]
      PROVE  topic[l][i] \in Record
  BY <1>4, RecordsTyped DEF IndInv, OffsetsInRange, Types, KafkaType
<1>5. CommittedSettled'
  BY <1>4, SettledGrows DEF IndInv, CommittedSettled, Valid
<1> QED
  BY <1>1, <1>3, <1>5

\* The guard stays below the authority when only OpenSearch grows.
LEMMA KeepsGuard ==
    ASSUME IndInv, Types', Grows, UNCHANGED guard
    PROVE  GuardBelowAuthority'
  BY DEF IndInv, GuardBelowAuthority, Grows, Types, StoreType

\* Qdrant stays behind OpenSearch when only OpenSearch grows.
LEMMA KeepsQdrant ==
    ASSUME IndInv, Types', Grows, UNCHANGED qd
    PROVE  QdrantNeverAhead'
  BY DEF IndInv, QdrantNeverAhead, Grows, Types, StoreType

\* Worker w enters stage c with the records T of its batch to work on.
LEMMA EntersStage ==
    ASSUME IndInv, Types', Grows, UNCHANGED <<topic, batch>>,
           NEW w \in Worker, NEW T \in SUBSET Entries(batch[w]), NEW c,
           todo' = [todo EXCEPT ![w] = T], pc' = [pc EXCEPT ![w] = c],
           \A r1, r2 \in T : r1.doc = r2.doc => r1 = r2,
           c = "bulk" => \A r \in Entries(batch[w]) :
               Settled(r)' \/ \E m \in T : m.doc = r.doc /\ m.ver >= r.ver,
           c \in Applying \cup {"offsets"} => \A r \in Entries(batch[w]) : Settled(r)'
    PROVE  BatchFromLane' /\ BatchCovered'
<1>1. BatchFromLane'
  BY DEF IndInv, BatchFromLane, Types, WorkerType, Valid
<1>2. ASSUME NEW v \in Worker
      PROVE  /\ pc'[v] = "bulk" => \A r \in Entries(batch[v]) :
                   Settled(r)' \/ \E m \in todo'[v] : m.doc = r.doc /\ m.ver >= r.ver
             /\ pc'[v] \in Applying \cup {"offsets"} =>
                   \A r \in Entries(batch[v]) : Settled(r)'
  <2>1. CASE v = w
    BY <2>1 DEF IndInv, Types, WorkerType
  <2>2. CASE v # w
    <3>1. pc'[v] = pc[v] /\ todo'[v] = todo[v]
      BY <2>2 DEF IndInv, Types, WorkerType
    <3>2. \A r \in Entries(batch[v]) : Settled(r) => Settled(r)'
      BY RecordsTyped, SettledGrows DEF IndInv
    <3> QED
      BY <3>1, <3>2 DEF IndInv, BatchCovered
  <2> QED
    BY <2>1, <2>2
<1>3. BatchCovered'
  BY <1>2 DEF BatchCovered
<1> QED
  BY <1>1, <1>3

\* Appending to a lane changes none of the records already in it.
LEMMA PublishPrefix ==
    ASSUME Types, NEW l \in Lanes, NEW r \in Record, Publish(l, r)
    PROVE  \A k \in Lanes :
              /\ Len(topic'[k]) \in Nat /\ Len(topic'[k]) >= Len(topic[k])
              /\ \A i \in 1..Len(topic[k]) : topic'[k][i] = topic[k][i]
              /\ Entries(topic[k]) \subseteq Entries(topic'[k])
<1> SUFFICES ASSUME NEW k \in Lanes
             PROVE  /\ Len(topic'[k]) \in Nat /\ Len(topic'[k]) >= Len(topic[k])
                    /\ \A i \in 1..Len(topic[k]) : topic'[k][i] = topic[k][i]
                    /\ Entries(topic[k]) \subseteq Entries(topic'[k])
  OBVIOUS
<1>0. topic[k] \in Seq(Record) /\ topic'[k] = IF k = l THEN Append(topic[k], r) ELSE topic[k]
  BY DEF Types, KafkaType, Publish
<1>1. /\ Len(topic'[k]) \in Nat /\ Len(topic'[k]) >= Len(topic[k])
      /\ \A i \in 1..Len(topic[k]) : topic'[k][i] = topic[k][i]
      /\ DOMAIN topic[k] = 1..Len(topic[k]) /\ DOMAIN topic'[k] = 1..Len(topic'[k])
  BY <1>0
<1>2. Entries(topic[k]) \subseteq Entries(topic'[k])
  BY <1>0, <1>1 DEF Entries
<1> QED
  BY <1>1, <1>2

\* Appending a record to a lane keeps the inductive invariant.
LEMMA PublishKeeps ==
    ASSUME IndInv, Types', NEW l \in Lanes, NEW r \in Record, Publish(l, r),
           UNCHANGED <<committed, owner, workers, guard, stores>>
    PROVE  IndInv'
<1>0. Types
  BY DEF IndInv
<1>1. \A k \in Lanes :
         /\ Len(topic'[k]) \in Nat /\ Len(topic'[k]) >= Len(topic[k])
         /\ \A i \in 1..Len(topic[k]) : topic'[k][i] = topic[k][i]
         /\ Entries(topic[k]) \subseteq Entries(topic'[k])
  BY <1>0, PublishPrefix
<1>2. Grows
  BY <1>0, SameGrows DEF stores
<1>3. OffsetsInRange'
  <2>1. ASSUME NEW w \in Worker
        PROVE  pos'[w] <= Len(topic'[w[2]])
    <3>1. w[2] \in Lanes
      BY WorkerFields
    <3>2. /\ pos'[w] = pos[w] /\ pos[w] \in Nat
          /\ pos[w] <= Len(topic[w[2]])
      BY <1>0 DEF IndInv, OffsetsInRange, workers, Types, WorkerType
    <3>3. Len(topic[w[2]]) \in Nat
      BY <1>0, <3>1, RecordsTyped DEF Types, KafkaType
    <3> QED
      BY <1>1, <3>1, <3>2, <3>3
  <2>2. \A k \in Lanes : committed'[k] <= pos'[<<owner'[k], k>>]
    BY DEF IndInv, OffsetsInRange, workers
  <2>3. \A k \in Lanes : committed'[k] <= Len(topic'[k])
    BY <1>0, <1>1, RecordsTyped DEF IndInv, OffsetsInRange, Types, KafkaType
  <2> QED
    BY <2>1, <2>2, <2>3 DEF OffsetsInRange
<1>4. BatchFromLane'
  BY <1>1, WorkerFields DEF IndInv, BatchFromLane, workers, Valid
<1>5. ReceivedKept'
  <2> SUFFICES ASSUME NEW w \in Worker, NEW i \in 1..pos[w], Valid(topic'[w[2]][i])
               PROVE  \/ osVer'[topic'[w[2]][i].doc] >= topic'[w[2]][i].ver
                      \/ topic'[w[2]][i] \in Entries(batch[w])
    BY DEF ReceivedKept, workers, Valid, Settled
  <2>1. w[2] \in Lanes /\ i \in 1..Len(topic[w[2]])
    BY <1>0, WorkerFields, RecordsTyped
       DEF IndInv, OffsetsInRange, Types, WorkerType
  <2>2. topic'[w[2]][i] = topic[w[2]][i]
    BY <1>1, <2>1
  <2> QED
    BY <2>2 DEF IndInv, ReceivedKept, Settled, stores
<1>6. BatchCovered'
  BY DEF IndInv, BatchCovered, Settled, workers, stores
<1>7. CommittedSettled'
  <2> SUFFICES ASSUME NEW k \in Lanes, NEW i \in 1..committed[k], Valid(topic'[k][i])
               PROVE  osVer'[topic'[k][i].doc] >= topic'[k][i].ver
    BY DEF CommittedSettled, Valid, Settled
  <2>1. i \in 1..Len(topic[k])
    BY <1>0, RecordsTyped DEF IndInv, OffsetsInRange, Types, KafkaType
  <2>2. topic'[k][i] = topic[k][i]
    BY <1>1, <2>1
  <2> QED
    BY <2>2 DEF IndInv, CommittedSettled, Settled, stores
<1>8. GuardBelowAuthority' /\ QdrantNeverAhead'
  BY <1>2, KeepsGuard, KeepsQdrant DEF stores
<1> QED
  BY <1>3, <1>4, <1>5, <1>6, <1>7, <1>8 DEF IndInv

\* A failed apply puts the worker back to polling with its batch.
LEMMA FailKeeps ==
    ASSUME IndInv, Types', Grows, NEW w \in Worker, Fail(w),
           UNCHANGED <<topic, committed, owner, pos, batch>>
    PROVE  /\ OffsetsInRange' /\ ReceivedKept' /\ CommittedSettled'
           /\ BatchFromLane' /\ BatchCovered'
<1>1. OffsetsInRange' /\ ReceivedKept' /\ CommittedSettled'
  BY KeepsReceived
<1>2. /\ {} \in SUBSET Entries(batch[w])
      /\ todo' = [todo EXCEPT ![w] = {}] /\ pc' = [pc EXCEPT ![w] = "poll"]
      /\ "poll" # "bulk" /\ "poll" \notin Applying \cup {"offsets"}
  BY DEF Fail, Applying
<1>3. BatchFromLane' /\ BatchCovered'
  BY <1>2, EntersStage
<1> QED
  BY <1>1, <1>3

\* From the bulk on, what a worker applies is reflected in OpenSearch.
LEMMA AppliedSettled ==
    ASSUME IndInv, NEW w \in Worker, pc[w] \in Applying, NEW r \in todo[w]
    PROVE  r \in Record /\ r.doc \in Docs /\ r.ver \in Int /\ r.ver <= osVer[r.doc]
<1>1. r \in Record /\ r \in Entries(batch[w])
  BY RecordsTyped DEF IndInv, BatchFromLane
<1>2. r.doc \in Docs /\ r.ver \in Int /\ osVer[r.doc] \in Int
  BY <1>1, RecordFields DEF IndInv, Types, StoreType
<1>3. Settled(r)
  BY <1>1 DEF IndInv, BatchCovered
<1> QED
  BY <1>1, <1>2, <1>3 DEF Settled

\* Writing the applied documents to Qdrant keeps it behind OpenSearch, and so
\* does committing them to the guard.
LEMMA AppliedBelow ==
    ASSUME IndInv, NEW w \in Worker, pc[w] \in Applying,
           NEW S \in SUBSET todo[w], NEW d \in DocsOf(S)
    PROVE  VerIn(S, d) \in Int /\ VerIn(S, d) <= osVer[d]
<1>1. S \in SUBSET Record
  BY AppliedSettled
<1>2. PICK r \in S : r.doc = d /\ VerIn(S, d) = r.ver /\ r.ver \in Int
  BY <1>1, VerInProps
<1> QED
  BY <1>2, AppliedSettled

\* A write of applied records to Qdrant leaves it behind OpenSearch.
LEMMA QdrantWriteKeeps ==
    ASSUME IndInv, Types', NEW w \in Worker, pc[w] \in Applying, UNCHANGED osVer,
           \/ PutPoints(Upserts(todo[w])) \/ DropPoints(Deletes(todo[w])) \/ UNCHANGED qd
    PROVE  QdrantNeverAhead'
<1>1. CASE PutPoints(Upserts(todo[w]))
  <2>1. Upserts(todo[w]) \in SUBSET todo[w]
    BY DEF Upserts
  <2>2. \A d \in DocsOf(Upserts(todo[w])) : VerIn(Upserts(todo[w]), d) <= osVer[d]
    BY <2>1, AppliedBelow
  <2> QED
    BY <1>1, <2>2 DEF PutPoints, IndInv, QdrantNeverAhead
<1>2. CASE DropPoints(Deletes(todo[w]))
  <2>1. ASSUME NEW d \in DocsOf(Deletes(todo[w]))
        PROVE  -1 <= osVer[d]
    <3>1. PICK r \in todo[w] : r.doc = d
      BY DEF DocsOf, Deletes
    <3>2. r.ver \in 0..MaxVersion /\ r.ver <= osVer[d] /\ osVer[d] \in Int
      BY <3>1, AppliedSettled, RecordFields DEF IndInv, Types, StoreType
    <3> QED
      BY <3>2, ConstantsAssumption
  <2> QED
    BY <1>2, <2>1 DEF DropPoints, IndInv, QdrantNeverAhead, Unseen
<1>3. CASE UNCHANGED qd
  BY <1>3 DEF IndInv, QdrantNeverAhead
<1> QED
  BY <1>1, <1>2, <1>3

-----------------------------------------------------------------------------
(* The inductive invariant *)

\* The inductive invariant holds initially.
LEMMA InitInv == Init => IndInv
<1> SUFFICES ASSUME Init PROVE IndInv
  OBVIOUS
<1>1. Types
  BY ConstantsAssumption
     DEF Init, Types, SourceType, KafkaType, WorkerType, StoreType, Unseen
<1>2. OffsetsInRange
  BY WorkerFields DEF Init, OffsetsInRange
<1>3. BatchFromLane /\ ReceivedKept
  BY DEF Init, BatchFromLane, ReceivedKept, Entries
<1>4. BatchCovered
  BY DEF Init, BatchCovered, Applying
<1>5. CommittedSettled /\ GuardBelowAuthority /\ QdrantNeverAhead
  BY DEF Init, CommittedSettled, GuardBelowAuthority, QdrantNeverAhead, Unseen
<1> QED
  BY <1>1, <1>2, <1>3, <1>4, <1>5 DEF IndInv

\* Receiving a record keeps the inductive invariant: the record enters the
\* batch, or is unreadable and owes OpenSearch nothing.
LEMMA ReceiveKeeps ==
    ASSUME IndInv, Types', NEW w \in Worker, Receive(w)
    PROVE  IndInv'
<1> DEFINE l == w[2]
           r == topic[l][pos[w] + 1]
<1>0. Types /\ l \in Lanes /\ w[1] \in Procs /\ w = <<owner[l], l>>
  BY WorkerFields DEF IndInv, Receive
<1>1. r \in Record /\ r \in Entries(topic[l]) /\ pos[w] + 1 <= Len(topic[l])
  <2>1. pos[w] + 1 \in 1..Len(topic[l])
    BY <1>0, RecordsTyped DEF Receive, Types, WorkerType
  <2> QED
    BY <1>0, <2>1, RecordsTyped DEF Entries
<1>2. UNCHANGED <<topic, committed, owner, todo, pc, guard, osVer, qd>>
  BY DEF Receive, stores
<1>3. pos' = [pos EXCEPT ![w] = pos[w] + 1]
  BY DEF Receive
<1>4. /\ Valid(r) => batch' = [batch EXCEPT ![w] = Append(batch[w], r)]
      /\ ~Valid(r) => batch' = batch
  BY DEF Receive
<1>5. \A v \in Worker : Entries(batch'[v]) =
         Entries(batch[v]) \cup (IF v = w /\ Valid(r) THEN {r} ELSE {})
  <2>1. ASSUME NEW s \in Seq(Record)
        PROVE  Entries(Append(s, r)) = Entries(s) \cup {r}
    <3>1. /\ DOMAIN s = 1..Len(s) /\ Len(s) \in Nat
          /\ DOMAIN Append(s, r) = 1..(Len(s) + 1)
          /\ \A i \in 1..Len(s) : Append(s, r)[i] = s[i]
          /\ Append(s, r)[Len(s) + 1] = r
      BY <1>1
    <3>2. Entries(Append(s, r)) = {Append(s, r)[i] : i \in 1..(Len(s) + 1)}
      BY <3>1 DEF Entries
    <3>3. Entries(s) = {s[i] : i \in 1..Len(s)}
      BY <3>1 DEF Entries
    <3>4. 1..(Len(s) + 1) = (1..Len(s)) \cup {Len(s) + 1}
      BY <3>1
    <3> QED
      BY <3>1, <3>2, <3>3, <3>4
  <2> QED
    BY <1>0, <1>4, <2>1 DEF Types, WorkerType
<1>6. OffsetsInRange'
  <2>1. \A v \in Worker : pos'[v] <= Len(topic'[v[2]])
    BY <1>0, <1>1, <1>2, <1>3 DEF IndInv, OffsetsInRange, Types, WorkerType
  <2>2. \A k \in Lanes : committed'[k] <= pos'[<<owner'[k], k>>]
    BY <1>0, <1>2, <1>3, WorkerFields
       DEF IndInv, OffsetsInRange, Types, WorkerType, KafkaType
  <2> QED
    BY <1>2, <2>1, <2>2 DEF IndInv, OffsetsInRange
<1>7. BatchFromLane'
  <2> SUFFICES ASSUME NEW v \in Worker
               PROVE  /\ \A x \in Entries(batch'[v]) : Valid(x) /\ x \in Entries(topic[v[2]])
                      /\ todo[v] \subseteq Entries(batch'[v])
                      /\ \A r1, r2 \in todo[v] : r1.doc = r2.doc => r1 = r2
    BY <1>2 DEF BatchFromLane, Valid
  <2> QED
    BY <1>1, <1>5 DEF IndInv, BatchFromLane
<1>8. ReceivedKept'
  <2> SUFFICES ASSUME NEW v \in Worker, NEW i \in 1..pos'[v], Valid(topic[v[2]][i])
               PROVE  Settled(topic[v[2]][i]) \/ topic[v[2]][i] \in Entries(batch'[v])
    BY <1>2 DEF ReceivedKept, Settled, Valid
  <2>1. CASE i \in 1..pos[v]
    BY <1>5, <2>1 DEF IndInv, ReceivedKept
  <2>2. CASE i \notin 1..pos[v]
    <3>1. v = w /\ i = pos[w] + 1
      BY <1>0, <1>3, <2>2 DEF Types, WorkerType
    <3> QED
      BY <1>5, <3>1
  <2> QED
    BY <2>1, <2>2
<1>9. BatchCovered'
  <2> SUFFICES ASSUME NEW v \in Worker
               PROVE  /\ pc[v] = "bulk" => \A x \in Entries(batch'[v]) :
                            Settled(x) \/ \E m \in todo[v] : m.doc = x.doc /\ m.ver >= x.ver
                      /\ pc[v] \in Applying \cup {"offsets"} =>
                            \A x \in Entries(batch'[v]) : Settled(x)
    BY <1>2 DEF BatchCovered, Settled
  <2>1. pc[w] # "bulk" /\ pc[w] \notin Applying \cup {"offsets"}
    BY DEF Receive, Applying
  <2> QED
    BY <1>5, <2>1 DEF IndInv, BatchCovered
<1>10. CommittedSettled' /\ GuardBelowAuthority' /\ QdrantNeverAhead'
  BY <1>2 DEF IndInv, CommittedSettled, GuardBelowAuthority, QdrantNeverAhead, Settled, Valid
<1> QED
  BY <1>6, <1>7, <1>8, <1>9, <1>10 DEF IndInv

\* The guard drops only what OpenSearch reflects, so the flushed batch is
\* covered by what is left of it.
LEMMA FlushKeeps ==
    ASSUME IndInv, Types', NEW w \in Worker, Flush(w)
    PROVE  IndInv'
<1> DEFINE T == {r \in Newest(batch[w]) : ShouldApply(w[1], r)}
           c == IF T = {} THEN "offsets" ELSE "bulk"
<1>0. Types /\ w[1] \in Procs /\ batch[w] \in Seq(Record)
  BY WorkerFields DEF IndInv, Types, WorkerType
<1>1. /\ UNCHANGED <<topic, committed, owner, pos, batch, guard, osVer, qd>>
      /\ todo' = [todo EXCEPT ![w] = T] /\ pc' = [pc EXCEPT ![w] = c]
  BY DEF Flush, kafka, stores
<1>2. Grows
  BY <1>0, <1>1, SameGrows
<1>3. /\ T \in SUBSET Entries(batch[w]) /\ Entries(batch[w]) \subseteq Record
      /\ \A r1, r2 \in T : r1.doc = r2.doc => r1 = r2
  BY <1>0, NewestInBatch
<1>4. ASSUME NEW r \in Entries(batch[w])
      PROVE  Settled(r) \/ \E m \in T : m.doc = r.doc /\ m.ver >= r.ver
  <2>1. PICK m \in Newest(batch[w]) : m.doc = r.doc /\ m.ver >= r.ver
    BY <1>0, NewestCovers
  <2>2. CASE m \in T
    BY <2>1, <2>2
  <2>3. CASE m \notin T
    <3>1. m \in Record /\ r \in Record
      BY <1>0, <1>3, NewestInBatch
    <3>2. m.ver <= guard[w[1]][m.doc] /\ m.doc \in Docs /\ m.ver \in Int /\ r.ver \in Int
      BY <1>0, <2>3, <3>1, RecordFields DEF ShouldApply, Types, StoreType
    <3>3. guard[w[1]][m.doc] <= osVer[m.doc] /\ guard[w[1]][m.doc] \in Int /\ osVer[m.doc] \in Int
      BY <1>0, <3>2 DEF IndInv, GuardBelowAuthority, Types, StoreType
    <3> QED
      BY <2>1, <3>2, <3>3 DEF Settled
  <2> QED
    BY <2>2, <2>3
<1>5. \A r : Settled(r) <=> Settled(r)'
  BY <1>1 DEF Settled
<1> HIDE DEF T
<1>6. /\ c = "bulk" => \A r \in Entries(batch[w]) :
            Settled(r)' \/ \E m \in T : m.doc = r.doc /\ m.ver >= r.ver
      /\ c \in Applying \cup {"offsets"} => \A r \in Entries(batch[w]) : Settled(r)'
  <2>1. c \in Applying \cup {"offsets"} => T = {}
    BY DEF Applying
  <2> QED
    BY <1>4, <1>5, <2>1
<1> HIDE DEF c
<1>7. BatchFromLane' /\ BatchCovered'
  BY <1>1, <1>2, <1>3, <1>6, EntersStage
<1>8. OffsetsInRange' /\ ReceivedKept' /\ CommittedSettled'
  BY <1>1, <1>2, KeepsReceived
<1>9. GuardBelowAuthority' /\ QdrantNeverAhead'
  BY <1>1, <1>2, KeepsGuard, KeepsQdrant
<1> QED
  BY <1>7, <1>8, <1>9 DEF IndInv

\* A bulk that answers: after it the whole batch is reflected.
LEMMA BulkKeeps ==
    ASSUME IndInv, Types', NEW w \in Worker, Bulk(w)
    PROVE  IndInv'
<1> DEFINE T == Accepted(todo[w])
           c == AfterBulk(T)
<1>0. Types /\ todo[w] \in SUBSET Record /\ osVer \in [Docs -> Int]
  BY DEF IndInv, Types, WorkerType, StoreType
<1>1. /\ UNCHANGED <<topic, committed, owner, pos, batch, guard, qd>>
      /\ todo' = [todo EXCEPT ![w] = T] /\ pc' = [pc EXCEPT ![w] = c]
      /\ StoreItems(todo[w]) /\ pc[w] = "bulk"
  BY DEF Bulk, kafka
<1>2. /\ T \in SUBSET todo[w] /\ todo[w] \subseteq Entries(batch[w])
      /\ \A r1, r2 \in todo[w] : r1.doc = r2.doc => r1 = r2
  BY DEF IndInv, BatchFromLane, Accepted
<1>3. Grows /\ \A m \in todo[w] : osVer'[m.doc] >= m.ver
  BY <1>0, <1>1, <1>2, StoreItemsProps DEF Grows
<1>4. ASSUME NEW r \in Entries(batch[w])
      PROVE  Settled(r)'
  <2>1. r \in Record
    BY <1>0, RecordsTyped
  <2>2. CASE Settled(r)
    BY <1>0, <1>3, <2>1, <2>2, SettledGrows
  <2>3. CASE ~Settled(r)
    <3>1. PICK m \in todo[w] : m.doc = r.doc /\ m.ver >= r.ver
      BY <1>1, <2>3 DEF IndInv, BatchCovered
    <3>2. r.doc \in Docs /\ r.ver \in Int /\ m.ver \in Int /\ osVer'[r.doc] \in Int
      BY <1>0, <2>1, RecordFields DEF Types, StoreType
    <3> QED
      BY <1>3, <3>1, <3>2 DEF Settled
  <2> QED
    BY <2>2, <2>3
<1>5. c # "bulk"
  BY DEF AfterBulk, AfterUpsert
<1> HIDE DEF T, c
<1>6. BatchFromLane' /\ BatchCovered'
  BY <1>1, <1>2, <1>3, <1>4, <1>5, EntersStage
<1>7. OffsetsInRange' /\ ReceivedKept' /\ CommittedSettled'
  BY <1>1, <1>3, KeepsReceived
<1>8. GuardBelowAuthority' /\ QdrantNeverAhead'
  BY <1>1, <1>3, KeepsGuard, KeepsQdrant
<1> QED
  BY <1>6, <1>7, <1>8 DEF IndInv

\* A bulk that fails, with any part of it processed.
LEMMA BulkFailureKeeps ==
    ASSUME IndInv, Types', NEW w \in Worker, BulkRefused(w) \/ BulkError(w)
    PROVE  IndInv'
<1>0. /\ UNCHANGED <<topic, committed, owner, pos, batch, guard, qd>> /\ Fail(w)
      /\ \E S \in SUBSET todo[w] : StoreItems(S)
  BY DEF BulkRefused, BulkError, kafka
<1>1. PICK S \in SUBSET todo[w] : StoreItems(S)
  BY <1>0
<1>2. Grows
  BY <1>1, StoreItemsProps DEF IndInv, Types, WorkerType, StoreType, Grows
<1> QED
  BY <1>0, <1>2, FailKeeps, KeepsGuard, KeepsQdrant DEF IndInv

\* The stages after the bulk that succeed.
LEMMA StageKeeps ==
    ASSUME IndInv, Types', NEW w \in Worker,
           Embed(w) \/ QdrantUpsert(w) \/ QdrantDelete(w) \/ GuardCommit(w) \/ Bump(w)
    PROVE  IndInv'
<1>0. Types /\ pc[w] \in Applying
  BY DEF IndInv, Embed, QdrantUpsert, QdrantDelete, GuardCommit, Bump, Applying
<1>1. UNCHANGED <<topic, committed, owner, pos, batch, todo, osVer>>
  BY DEF Embed, QdrantUpsert, QdrantDelete, GuardCommit, Bump, kafka, stores
<1>2. Grows
  BY <1>0, <1>1, SameGrows
<1>3. PICK c \in {"upsert", "delete", "guard", "bump", "offsets"} :
         pc' = [pc EXCEPT ![w] = c]
  BY DEF Embed, QdrantUpsert, QdrantDelete, GuardCommit, Bump, AfterUpsert
<1>4. /\ todo[w] \in SUBSET Entries(batch[w])
      /\ todo' = [todo EXCEPT ![w] = todo[w]]
      /\ \A r1, r2 \in todo[w] : r1.doc = r2.doc => r1 = r2
  BY <1>0, <1>1 DEF IndInv, BatchFromLane, Types, WorkerType
<1>5. \A r \in Entries(batch[w]) : Settled(r)'
  BY <1>0, <1>1 DEF IndInv, BatchCovered, Settled
<1>6. BatchFromLane' /\ BatchCovered'
  BY <1>1, <1>2, <1>3, <1>4, <1>5, EntersStage
<1>7. OffsetsInRange' /\ ReceivedKept' /\ CommittedSettled'
  BY <1>1, <1>2, KeepsReceived
<1>8. QdrantNeverAhead'
  <2>1. \/ PutPoints(Upserts(todo[w])) \/ DropPoints(Deletes(todo[w])) \/ UNCHANGED qd
    BY DEF Embed, QdrantUpsert, QdrantDelete, GuardCommit, Bump, stores
  <2> QED
    BY <1>0, <1>1, <2>1, QdrantWriteKeeps
<1>9. GuardBelowAuthority'
  <2>1. CASE GuardCommit(w)
    <3>1. \A d \in DocsOf(todo[w]) : VerIn(todo[w], d) <= osVer[d]
      BY <1>0, AppliedBelow
    <3>2. w[1] \in Procs
      BY WorkerFields
    <3> QED
      BY <1>0, <1>1, <2>1, <3>1, <3>2
         DEF GuardCommit, IndInv, GuardBelowAuthority, Types, StoreType
  <2>2. CASE ~GuardCommit(w)
    <3>1. UNCHANGED guard
      BY <2>2 DEF Embed, QdrantUpsert, QdrantDelete, Bump
    <3> QED
      BY <1>2, <3>1, KeepsGuard
  <2> QED
    BY <2>1, <2>2
<1> QED
  BY <1>6, <1>7, <1>8, <1>9 DEF IndInv

\* The stages after the bulk that fail.
LEMMA StageFailureKeeps ==
    ASSUME IndInv, Types', NEW w \in Worker,
           EmbedError(w) \/ QdrantUpsertError(w) \/ QdrantDeleteError(w)
    PROVE  IndInv'
<1>1. /\ pc[w] \in Applying /\ Fail(w)
      /\ UNCHANGED <<topic, committed, owner, pos, batch, guard, osVer>>
      /\ \/ PutPoints(Upserts(todo[w])) \/ DropPoints(Deletes(todo[w])) \/ UNCHANGED qd
  BY DEF EmbedError, QdrantUpsertError, QdrantDeleteError, Applying, kafka, stores
<1>2. Grows
  BY <1>1, SameGrows DEF IndInv
<1> QED
  BY <1>1, <1>2, FailKeeps, KeepsGuard, QdrantWriteKeeps DEF IndInv

\* Ending a flush: at that stage the batch is reflected, so it may be dropped
\* and the offset of everything received may be committed.
LEMMA OffsetsKeep ==
    ASSUME IndInv, Types', NEW w \in Worker, CommitOffsets(w) \/ CommitOffsetsError(w)
    PROVE  IndInv'
<1>0. Types /\ pc[w] = "offsets" /\ Clear(w) /\ w[2] \in Lanes /\ w[1] \in Procs
  BY WorkerFields DEF IndInv, CommitOffsets, CommitOffsetsError
<1>1. /\ UNCHANGED <<topic, owner, pos, guard, osVer, qd>>
      /\ \/ committed' = committed
         \/ w = <<owner[w[2]], w[2]>> /\ committed' = [committed EXCEPT ![w[2]] = pos[w]]
  BY WorkerFields DEF CommitOffsets, CommitOffsetsError, kafka, stores
<1>2. \A r \in Entries(batch[w]) : Settled(r)
  BY <1>0 DEF IndInv, BatchCovered
<1>3. /\ Entries(batch'[w]) = {} /\ todo'[w] = {} /\ pc'[w] = "poll"
      /\ \A v \in Worker : v # w =>
            batch'[v] = batch[v] /\ todo'[v] = todo[v] /\ pc'[v] = pc[v]
  BY <1>0 DEF Clear, Types, WorkerType, Entries
<1>4. OffsetsInRange'
  <2>1. \A v \in Worker : pos'[v] <= Len(topic'[v[2]])
    BY <1>1 DEF IndInv, OffsetsInRange
  <2>2. ASSUME NEW k \in Lanes
        PROVE  committed'[k] <= pos'[<<owner'[k], k>>] /\ committed'[k] <= Len(topic'[k])
    <3>1. CASE committed'[k] = committed[k]
      BY <1>1, <3>1 DEF IndInv, OffsetsInRange
    <3>2. CASE committed'[k] # committed[k]
      <4>1. k = w[2] /\ w = <<owner[k], k>> /\ committed'[k] = pos[w] /\ pos[w] \in Nat
        BY <1>0, <1>1, <3>2 DEF Types, KafkaType, WorkerType
      <4> QED
        BY <1>1, <4>1 DEF IndInv, OffsetsInRange
    <3> QED
      BY <3>1, <3>2
  <2> QED
    BY <2>1, <2>2 DEF OffsetsInRange
<1>5. BatchFromLane'
  BY <1>1, <1>3 DEF IndInv, BatchFromLane, Valid
<1>6. ReceivedKept'
  BY <1>1, <1>2, <1>3 DEF IndInv, ReceivedKept, Settled, Valid
<1>7. BatchCovered'
  BY <1>1, <1>3 DEF IndInv, BatchCovered, Settled, Applying
<1>8. CommittedSettled'
  <2> SUFFICES ASSUME NEW k \in Lanes, NEW i \in 1..committed'[k], Valid(topic[k][i])
               PROVE  Settled(topic[k][i])
    BY <1>1 DEF CommittedSettled, Settled, Valid
  <2>1. CASE committed'[k] = committed[k]
    BY <2>1 DEF IndInv, CommittedSettled
  <2>2. CASE committed'[k] # committed[k]
    <3>1. k = w[2] /\ committed'[k] = pos[w]
      BY <1>0, <1>1, <2>2 DEF Types, KafkaType
    <3> QED
      BY <1>2, <3>1 DEF IndInv, ReceivedKept
  <2> QED
    BY <2>1, <2>2
<1>9. GuardBelowAuthority' /\ QdrantNeverAhead'
  BY <1>1 DEF IndInv, GuardBelowAuthority, QdrantNeverAhead
<1> QED
  BY <1>4, <1>5, <1>6, <1>7, <1>8, <1>9 DEF IndInv

\* A process that stops loses its batches and its guard; what it had received
\* and not committed is read again.
LEMMA CrashKeeps ==
    ASSUME IndInv, Types', NEW p \in Procs, NEW newOwner \in [Lanes -> Procs],
           Crash(p, newOwner)
    PROVE  IndInv'
<1>0. Types
  BY DEF IndInv
<1>1. UNCHANGED <<topic, committed, osVer, qd>> /\ owner' = newOwner
  BY DEF Crash, stores
<1>2. \A w \in Worker : w[1] = p =>
         /\ pos'[w] = committed[w[2]] /\ Entries(batch'[w]) = {}
         /\ todo'[w] = {} /\ pc'[w] = "poll"
  BY DEF Crash, Entries
<1>3. \A w \in Worker : w[1] # p =>
         /\ batch'[w] = batch[w] /\ todo'[w] = todo[w] /\ pc'[w] = pc[w]
         /\ pos'[w] = IF owner[w[2]] = p /\ newOwner[w[2]] = w[1]
                      THEN committed[w[2]] ELSE pos[w]
  BY DEF Crash
<1>4. OffsetsInRange'
  <2>1. \A w \in Worker : pos'[w] <= Len(topic'[w[2]])
    BY <1>1, <1>2, <1>3, WorkerFields DEF IndInv, OffsetsInRange
  <2>2. ASSUME NEW l \in Lanes
        PROVE  committed'[l] <= pos'[<<owner'[l], l>>]
    <3>1. <<newOwner[l], l>> \in Worker /\ committed[l] \in Int
      BY <1>0, WorkerFields DEF Types, KafkaType
    <3>2. CASE owner[l] = p
      BY <1>1, <1>2, <1>3, <3>1, <3>2
    <3>3. CASE owner[l] # p
      <4>1. newOwner[l] = owner[l]
        BY <3>3 DEF Crash
      <4> QED
        BY <1>1, <1>3, <3>1, <3>3, <4>1 DEF IndInv, OffsetsInRange
    <3> QED
      BY <3>2, <3>3
  <2> QED
    BY <1>1, <2>1, <2>2 DEF IndInv, OffsetsInRange
<1>5. BatchFromLane'
  BY <1>1, <1>2, <1>3 DEF IndInv, BatchFromLane, Valid
<1>6. ReceivedKept'
  <2> SUFFICES ASSUME NEW w \in Worker, NEW i \in 1..pos'[w], Valid(topic[w[2]][i])
               PROVE  Settled(topic[w[2]][i]) \/ topic[w[2]][i] \in Entries(batch'[w])
    BY <1>1 DEF ReceivedKept, Settled, Valid
  <2>1. CASE pos'[w] = committed[w[2]]
    BY <2>1, WorkerFields DEF IndInv, CommittedSettled
  <2>2. CASE pos'[w] # committed[w[2]]
    <3>1. pos'[w] = pos[w] /\ batch'[w] = batch[w]
      BY <1>2, <1>3, <2>2
    <3> QED
      BY <3>1 DEF IndInv, ReceivedKept
  <2> QED
    BY <2>1, <2>2
<1>7. BatchCovered'
  BY <1>1, <1>2, <1>3 DEF IndInv, BatchCovered, Settled, Applying
<1>8. CommittedSettled' /\ QdrantNeverAhead'
  BY <1>1 DEF IndInv, CommittedSettled, QdrantNeverAhead, Settled, Valid
<1>9. GuardBelowAuthority'
  <2> SUFFICES ASSUME NEW q \in Procs, NEW d \in Docs
               PROVE  guard'[q][d] <= osVer[d]
    BY <1>1 DEF GuardBelowAuthority
  <2>1. CASE q = p
    <3>1. guard'[q][d] = -1
      BY <1>0, <2>1 DEF Crash, Unseen, Types, StoreType
    <3>2. osVer[d] >= -1
      BY <1>0 DEF Types, StoreType, Unseen
    <3> QED
      BY <3>1, <3>2
  <2>2. CASE q # p
    BY <1>0, <2>2 DEF Crash, IndInv, GuardBelowAuthority, Types, StoreType
  <2> QED
    BY <2>1, <2>2
<1> QED
  BY <1>4, <1>5, <1>6, <1>7, <1>8, <1>9 DEF IndInv

\* A rebalance keeps the inductive invariant: the new owner restarts at the
\* committed offset, below which everything is reflected.
LEMMA RebalanceKeeps ==
    ASSUME IndInv, Types', NEW l \in Lanes, NEW q \in Procs, Rebalance(l, q)
    PROVE  IndInv'
<1>0. Types /\ <<q, l>> \in Worker /\ <<q, l>>[2] = l
  BY WorkerFields DEF IndInv
<1>1. /\ UNCHANGED <<topic, committed, batch, todo, pc, guard, osVer, qd>>
      /\ owner' = [owner EXCEPT ![l] = q]
      /\ pos' = [pos EXCEPT ![<<q, l>>] = committed[l]]
  BY DEF Rebalance, stores
<1>2. OffsetsInRange'
  <2>1. \A w \in Worker : pos'[w] <= Len(topic'[w[2]])
    BY <1>0, <1>1 DEF IndInv, OffsetsInRange, Types, WorkerType
  <2>2. ASSUME NEW k \in Lanes
        PROVE  committed'[k] <= pos'[<<owner'[k], k>>]
    <3>1. committed[k] \in Int /\ <<owner[k], k>> \in Worker
      BY <1>0, WorkerFields DEF Types, KafkaType
    <3>2. CASE k = l
      BY <1>0, <1>1, <3>1, <3>2 DEF Types, WorkerType, KafkaType
    <3>3. CASE k # l
      BY <1>0, <1>1, <3>1, <3>3 DEF IndInv, OffsetsInRange, Types, WorkerType, KafkaType
    <3> QED
      BY <3>2, <3>3
  <2> QED
    BY <1>1, <2>1, <2>2 DEF IndInv, OffsetsInRange
<1>3. ReceivedKept'
  <2> SUFFICES ASSUME NEW w \in Worker, NEW i \in 1..pos'[w], Valid(topic[w[2]][i])
               PROVE  Settled(topic[w[2]][i]) \/ topic[w[2]][i] \in Entries(batch[w])
    BY <1>1 DEF ReceivedKept, Settled, Valid
  <2>1. CASE w = <<q, l>>
    <3>1. i \in 1..committed[l] /\ w[2] = l
      BY <1>0, <1>1, <2>1 DEF Types, WorkerType
    <3> QED
      BY <3>1 DEF IndInv, CommittedSettled
  <2>2. CASE w # <<q, l>>
    <3>1. pos'[w] = pos[w]
      BY <1>0, <1>1, <2>2 DEF Types, WorkerType
    <3> QED
      BY <3>1 DEF IndInv, ReceivedKept
  <2> QED
    BY <2>1, <2>2
<1>4. BatchFromLane' /\ BatchCovered'
  BY <1>1 DEF IndInv, BatchFromLane, BatchCovered, Settled, Valid
<1>5. CommittedSettled' /\ GuardBelowAuthority' /\ QdrantNeverAhead'
  BY <1>1 DEF IndInv, CommittedSettled, GuardBelowAuthority, QdrantNeverAhead, Settled, Valid
<1> QED
  BY <1>2, <1>3, <1>4, <1>5 DEF IndInv

\* A step that leaves lanes, workers and stores alone.
LEMMA StutterKeeps ==
    ASSUME IndInv, Types', UNCHANGED vars
    PROVE  IndInv'
<1>1. OffsetsInRange' /\ BatchFromLane' /\ ReceivedKept' /\ BatchCovered'
  BY DEF vars, IndInv, OffsetsInRange, BatchFromLane, ReceivedKept, BatchCovered, Settled, Valid
<1>2. CommittedSettled' /\ GuardBelowAuthority' /\ QdrantNeverAhead'
  BY DEF vars, IndInv, CommittedSettled, GuardBelowAuthority, QdrantNeverAhead, Settled, Valid
<1> QED
  BY <1>1, <1>2 DEF IndInv

\* The five actions that append a record to a lane.
LEMMA EnvironmentPublishes ==
    ASSUME Types, Types',
           \/ Source
           \/ \E l \in Lanes : \E i \in DOMAIN topic[l] : Duplicate(l, i)
           \/ \E l \in Lanes, d \in Docs, k \in BadKinds \ {"refused"} : Poison(l, d, k)
    PROVE  /\ \E l \in Lanes, r \in Record : Publish(l, r)
           /\ UNCHANGED <<committed, owner, workers, guard, stores>>
<1> USE ConstantsAssumption
<1>1. ASSUME NEW d \in Docs, NEW l \in Tiers, NEW k \in Kinds, Insert(d, l, k)
      PROVE  \E m \in Lanes, r \in Record : Publish(m, r)
  <2>1. 1 \in 0..MaxVersion /\ "upsert" \in Ops /\ l \in Lanes
    BY DEF Ops
  <2> QED
    BY <1>1, <2>1, RecordFields DEF Insert
<1>2. ASSUME NEW d \in Docs, NEW l \in Tiers, NEW k \in Kinds, Update(d, l, k)
      PROVE  \E m \in Lanes, r \in Record : Publish(m, r)
  <2>1. rowVer[d] + 1 \in 0..MaxVersion /\ "upsert" \in Ops /\ l \in Lanes
    BY <1>2 DEF Ops, Types, SourceType, Update
  <2> QED
    BY <1>2, <2>1, RecordFields DEF Update
<1>3. ASSUME NEW d \in Docs, Delete(d)
      PROVE  \E m \in Lanes, r \in Record : Publish(m, r)
  <2>1. rowVer[d] \in 0..MaxVersion /\ "delete" \in Ops /\ "urgent" \in Lanes /\ "ok" \in Kinds
    BY DEF Ops, Types, SourceType, Lanes, Kinds
  <2> QED
    BY <1>3, <2>1, RecordFields DEF Delete
<1>4. ASSUME NEW l \in Lanes, NEW i \in DOMAIN topic[l], Duplicate(l, i)
      PROVE  \E m \in Lanes, r \in Record : Publish(m, r)
  BY <1>4, RecordsTyped DEF Duplicate
<1>5. ASSUME NEW l \in Lanes, NEW d \in Docs, NEW k \in Kinds, Poison(l, d, k)
      PROVE  \E m \in Lanes, r \in Record : Publish(m, r)
  <2>1. 1 \in 0..MaxVersion /\ "upsert" \in Ops
    BY DEF Ops
  <2> QED
    BY <1>5, <2>1, RecordFields DEF Poison
<1>6. \E l \in Lanes, r \in Record : Publish(l, r)
  <2>1. {"ok"} \cup (BadKinds \cap {"refused"}) \subseteq Kinds /\ BadKinds \subseteq Kinds
    BY DEF Kinds
  <2> QED
    BY <1>1, <1>2, <1>3, <1>4, <1>5, <2>1 DEF Source
<1>7. UNCHANGED <<committed, owner, workers, guard, stores>>
  BY DEF Source, Insert, Update, Delete, Duplicate, Poison
<1> QED
  BY <1>6, <1>7

\* Every step keeps the inductive invariant.
LEMMA InvStep == IndInv /\ [Next]_vars => IndInv'
<1> SUFFICES ASSUME IndInv, [Next]_vars PROVE IndInv'
  OBVIOUS
<1>0. Types /\ Types'
  BY TypeStep DEF IndInv
<1>1. CASE \/ Source
           \/ \E l \in Lanes : \E i \in DOMAIN topic[l] : Duplicate(l, i)
           \/ \E l \in Lanes, d \in Docs, k \in BadKinds \ {"refused"} : Poison(l, d, k)
  BY <1>0, <1>1, EnvironmentPublishes, PublishKeeps
<1>2. CASE \E p \in Procs, newOwner \in [Lanes -> Procs] : Crash(p, newOwner)
  BY <1>0, <1>2, CrashKeeps
<1>3. CASE \E l \in Lanes, q \in Procs : Rebalance(l, q)
  BY <1>0, <1>3, RebalanceKeeps
<1>4. ASSUME NEW w \in Worker, Progress(w)
      PROVE  IndInv'
  BY <1>0, <1>4, ReceiveKeeps, FlushKeeps, BulkKeeps, BulkFailureKeeps, StageKeeps, OffsetsKeep
     DEF Progress
<1>5. ASSUME NEW w \in Worker, CallFails(w)
      PROVE  IndInv'
  BY <1>0, <1>5, BulkFailureKeeps, StageFailureKeeps, OffsetsKeep DEF CallFails
<1>6. ASSUME NEW w \in Worker, IdlePoll(w)
      PROVE  IndInv'
  BY <1>0, <1>6, StutterKeeps DEF IdlePoll
<1>7. CASE UNCHANGED vars
  BY <1>0, <1>7, StutterKeeps
<1> QED
  BY <1>1, <1>2, <1>3, <1>4, <1>5, <1>6, <1>7 DEF Next, Environment

\* The inductive invariant holds in every reachable state.
THEOREM Invariance == Spec => []IndInv
<1> QED
  BY InitInv, InvStep, PTL DEF Spec

\* Type correctness: every variable stays in its type, and no lane is committed
\* beyond what its owner has received, nor received beyond its end, whatever
\* crashes, is reassigned or fails to commit (runLane).
THEOREM TypeCorrect == Spec => []TypeOK
<1>1. IndInv => TypeOK
  BY DEF IndInv, TypeOK
<1> QED
  BY <1>1, Invariance, PTL

\* At-least-once: what is committed is reflected in OpenSearch, for any number
\* of processes, documents, crashes, rebalances and failed calls (flushBatch).
THEOREM CommittedIsSettled == Spec => []CommittedSettled
<1>1. IndInv => CommittedSettled
  BY DEF IndInv
<1> QED
  BY <1>1, Invariance, PTL

\* Qdrant never holds a version OpenSearch has not accepted (apply, Bulk).
THEOREM QdrantBehindOpenSearch == Spec => []QdrantNeverAhead
<1>1. IndInv => QdrantNeverAhead
  BY DEF IndInv
<1> QED
  BY <1>1, Invariance, PTL

\* The guard never rejects what OpenSearch would accept (ShouldApply, Commit).
THEOREM GuardIsSafe == Spec => []GuardBelowAuthority
<1>1. IndInv => GuardBelowAuthority
  BY DEF IndInv
<1> QED
  BY <1>1, Invariance, PTL

-----------------------------------------------------------------------------
(* Refinement *)

\* A bulk, answered or not, is a step of the version authority: each document
\* it changes moves to the newer version of a logged record.
LEMMA BulkIsAccept ==
    ASSUME IndInv, NEW w \in Worker, NEW S \in SUBSET todo[w], StoreItems(S),
           UNCHANGED <<topic, committed>>
    PROVE  Authority!Accept
<1>0. /\ S \in SUBSET Record /\ osVer \in [Docs -> Int] /\ w[2] \in Lanes
      /\ S \subseteq Entries(topic[w[2]])
  BY WorkerFields DEF IndInv, Types, WorkerType, StoreType, BatchFromLane
<1>1. osVer' \in [Docs -> Int] /\ \A d \in Docs : osVer'[d] >= osVer[d]
  BY <1>0, StoreItemsProps
<1>2. ASSUME NEW d \in Docs, osVer'[d] # osVer[d]
      PROVE  /\ osVer'[d] > osVer[d]
             /\ \E l \in Lanes : \E i \in DOMAIN topic[l] :
                   topic[l][i].doc = d /\ topic[l][i].ver = osVer'[d]
  <2>1. osVer'[d] > osVer[d]
    BY <1>0, <1>1, <1>2
  <2>2. d \in DocsOf(Accepted(S)) /\ osVer'[d] = VerIn(Accepted(S), d)
    BY <1>2 DEF StoreItems
  <2>3. Accepted(S) \in SUBSET Record /\ Accepted(S) \subseteq S
    BY <1>0 DEF Accepted
  <2>4. PICK r \in Accepted(S) : r.doc = d /\ VerIn(Accepted(S), d) = r.ver
    BY <2>2, <2>3, VerInProps
  <2>5. PICK i \in DOMAIN topic[w[2]] : topic[w[2]][i] = r
    BY <1>0, <2>3, <2>4 DEF Entries
  <2> QED
    BY <1>0, <2>1, <2>2, <2>4, <2>5
<1> QED
  BY <1>1, <1>2 DEF Authority!Accept

\* Every step of the indexer is a step of the version authority or a stutter.
LEMMA RefinementStep ==
    IndInv /\ IndInv' /\ [Next]_vars => [Authority!ANext]_(Authority!avars)
<1> SUFFICES ASSUME IndInv, IndInv', [Next]_vars
             PROVE  Authority!ANext \/ UNCHANGED <<topic, committed, osVer>>
  BY DEF Authority!avars
<1>0. Types /\ Types'
  BY DEF IndInv
<1>1. CASE \/ Source
           \/ \E l \in Lanes : \E i \in DOMAIN topic[l] : Duplicate(l, i)
           \/ \E l \in Lanes, d \in Docs, k \in BadKinds \ {"refused"} : Poison(l, d, k)
  <2>1. /\ \E l \in Lanes, r \in Record : Publish(l, r)
        /\ UNCHANGED <<committed, owner, workers, guard, stores>>
    BY <1>0, <1>1, EnvironmentPublishes
  <2>2. PICK l \in Lanes, r \in Record : Publish(l, r)
    BY <2>1
  <2>3. Authority!Append1(l, r)
    BY <2>1, <2>2 DEF Authority!Append1, Publish, stores
  <2> QED
    BY <2>3 DEF Authority!ANext
<1>2. CASE \E p \in Procs, newOwner \in [Lanes -> Procs] : Crash(p, newOwner)
  BY <1>2 DEF Crash, stores
<1>3. CASE \E l \in Lanes, q \in Procs : Rebalance(l, q)
  BY <1>3 DEF Rebalance, stores
<1>4. ASSUME NEW w \in Worker, Bulk(w) \/ BulkRefused(w) \/ BulkError(w)
      PROVE  Authority!ANext
  <2>1. (\E S \in SUBSET todo[w] : StoreItems(S)) /\ UNCHANGED <<topic, committed>>
    BY <1>4 DEF Bulk, BulkRefused, BulkError, kafka
  <2> QED
    BY <2>1, BulkIsAccept DEF Authority!ANext
<1>5. ASSUME NEW w \in Worker, CommitOffsets(w)
      PROVE  Authority!ANext \/ UNCHANGED <<topic, committed, osVer>>
  <2>0. w[2] \in Lanes /\ w = <<w[1], w[2]>> /\ UNCHANGED <<topic, osVer>>
    BY <1>5, WorkerFields DEF CommitOffsets, stores
  <2>1. CASE owner[w[2]] # w[1]
    BY <1>5, <2>0, <2>1 DEF CommitOffsets
  <2>2. CASE owner[w[2]] = w[1]
    <3>1. committed' = [committed EXCEPT ![w[2]] = pos[w]]
      BY <1>5, <2>2 DEF CommitOffsets
    <3>2. committed[w[2]] <= pos[w] /\ pos[w] \in 0..Len(topic[w[2]])
      BY <1>0, <2>0, <2>2, RecordsTyped DEF IndInv, OffsetsInRange, Types, WorkerType
    <3>3. committed'[w[2]] = pos[w]
      BY <1>0, <2>0, <3>1 DEF Types, KafkaType
    <3>4. \A i \in 1..pos[w] : Valid(topic[w[2]][i]) =>
             osVer[topic[w[2]][i].doc] >= topic[w[2]][i].ver
      BY <2>0, <3>3 DEF IndInv, CommittedSettled, Settled, Valid
    <3>5. Authority!Acknowledge(w[2], pos[w])
      BY <2>0, <3>1, <3>2, <3>4 DEF Authority!Acknowledge
    <3> QED
      BY <2>0, <3>2, <3>5 DEF Authority!ANext
  <2> QED
    BY <2>1, <2>2
<1>6. ASSUME NEW w \in Worker,
             \/ Receive(w) \/ Flush(w) \/ Embed(w) \/ QdrantUpsert(w) \/ QdrantDelete(w)
             \/ GuardCommit(w) \/ Bump(w) \/ IdlePoll(w) \/ EmbedError(w)
             \/ QdrantUpsertError(w) \/ QdrantDeleteError(w) \/ CommitOffsetsError(w)
      PROVE  UNCHANGED <<topic, committed, osVer>>
  BY <1>6 DEF Receive, Flush, Embed, QdrantUpsert, QdrantDelete, GuardCommit, Bump, IdlePoll,
              EmbedError, QdrantUpsertError, QdrantDeleteError, CommitOffsetsError,
              vars, kafka, stores
<1>7. CASE UNCHANGED vars
  BY <1>7 DEF vars
<1> QED
  BY <1>1, <1>2, <1>3, <1>4, <1>5, <1>6, <1>7
     DEF Next, Environment, Progress, CallFails

\* Refinement: lanes, committed offsets and OpenSearch implement the version
\* authority, whatever the workers, the guard and Qdrant do meanwhile.
THEOREM Refinement == Spec => ImplementsAuthority
<1>1. Init => Authority!AInit
  BY DEF Init, Authority!AInit, Unseen
<1> QED
  BY <1>1, Invariance, RefinementStep, PTL DEF Spec, ImplementsAuthority, Authority!ASpec
=============================================================================
