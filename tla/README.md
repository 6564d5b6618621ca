# Verification of the search and retrieval system

TLA+ models of the indexing and answering paths of this repository and of its load
generator, TLC configurations that check them on small instances, and TLAPS proofs, for
every value of the constants, of their safety properties. Paths are relative to `src/`.

## 1. The system

```
load generator -> documents (Postgres) -> Debezium -> cdc topic -> normalizer
                                     -> docs.fast / docs.bulk / docs.dlq
                                                       |
   OpenSearch (version authority) <- indexer (2 lanes) <-+
   Qdrant (vectors)               <-    |
   Redis (cache generation)       <- bump

client -> rate limiter -> /search: retrieve
                       -> /ask: exact cache -> semantic cache -> retrieve -> generate
                                -> faithfulness -> caches
retrieve: (BM25 | embed, vectors) -> RRF -> fetch by id -> rerank -> cut
```

| component | state it keeps | operations | what is hard |
|---|---|---|---|
| source table (`deploy/postgres/init.sql`) | rows with a version column | insert, update (trigger increments the version), delete | the version is not incremented on delete |
| normalizer (`cmd/normalizer`, `internal/normalizer`, `internal/contract`) | client position, committed offset | poll, classify, produce, commit | partial produce, fetch errors, crash between produce and commit |
| indexer (`cmd/indexer`, `internal/idempotency`) | per lane: position, batch; per process: version guard | poll, dead-letter, flush, bulk, embed, vector writes, guard commit, generation bump, offset commit | failure of any stage, restart with an empty guard, a rebalance that leaves two workers with the same records, two lanes for one document |
| OpenSearch client (`internal/opensearch`) | external version and content per document | bulk with per-item statuses, search, get | lost answers, one refused item in a batch |
| Qdrant client (`internal/qdrant`) | one point per document, no version check | upsert, delete, search | last writer wins |
| answer caches (`internal/cache`, `internal/semcache`) | generation counters and answers in Redis, answers in Qdrant | Generation, Get, Set, Bump, Lookup, Store | generation read early and used late, timeouts that look like misses, restart of one store only |
| ask handler (`cmd/query/main.go`) | request in progress | authorise, scope, look up, retrieve, generate, store | many requests at once, concurrent with the indexer |
| rate limiter (`cmd/query/middleware.go`) | token buckets | allow, evict | the clock is read before the lock |
| retrieval (`cmd/query/main.go` retrieve, handleSearch, `internal/retrieve`) | the lists of one request | two concurrent lanes, RRF, fetch, rerank | one lane down, documents that change between search and fetch, rows that change tenant meanwhile, filters that two stores type differently |
| generation and faithfulness (`internal/rag`) | none | pick or generate an answer, cite, score, judge | markers that must follow the final order, a judge that fails |
| load generator (`cmd/loadgen`) | job channel, token bucket, counters | feed, wait for tokens, insert, update | one bucket shared by all workers, batches above the rate, failing batches |
| ML client and service, evaluation, configuration, metrics, deployment | none that matters here | | |

Components interact through the Kafka topics (records and committed offsets), the
three stores, and the generation counter that the indexer increments and the ask
handler reads. There are no callbacks between processes.

## 2. Modules

| module | models | composes |
|---|---|---|
| `VersionAuthority` | what the indexing path promises: logs per lane, a store whose versions only grow, acknowledged prefixes that are reflected in the store | |
| `Indexer` | `cmd/indexer` with the guard, `Bulk`, the Qdrant writes, the consumer group and the source as its environment | instantiates `VersionAuthority` |
| `IndexerProofs` | the invariant of `Indexer`, at-least-once, the refinement | extends `Indexer` |
| `IndexerOutcomeProofs` | what a quiet indexer leaves behind: agreement, announcement, dead letters | extends `IndexerProofs` |
| `Normalizer` | `cmd/normalizer` with `internal/normalizer` and `Validate` | |
| `NormalizerProofs` | the theorems about `Normalizer` | extends `Normalizer` |
| `AnswerCache` | `handleAsk`, `internal/cache`, `internal/semcache` and the indexer as seen from the caches | |
| `AnswerCacheProofs` | the theorems about `AnswerCache` | extends `AnswerCache` |
| `RateLimiter` | `allow` and `evictLocked` | |
| `RateLimiterProofs` | the theorems about `RateLimiter` | extends `RateLimiter` |
| `Retrieval` | `retrieve`, the searches of both stores, fusion, and the indexer as seen from a search | |
| `Grounding` | `internal/rag` as operators: extraction, citations, faithfulness | |
| `Ask` | `handleSearch` and `handleAsk` below the caches | extends `Retrieval` and `Grounding` |
| `RetrievalProofs` | the lemmas about the steps of a retrieval and their invariant | extends `Retrieval` |
| `AskProofs` | the theorems about `Ask`, those about its retrieval included | extends `Ask` and `RetrievalProofs` |
| `LoadGen` | both modes of `cmd/loadgen` and its limiter | |
| `LoadGenProofs` | the theorems about `LoadGen` | extends `LoadGen` |
| `MC*` | names for constants, fault budgets and symmetries used by the `.cfg` files | extends the module of its name |

Definitions whose comment starts with "Mutant" are deliberately broken versions of
the definition that follows. No specification uses them: substituted for the
original, each makes one property fail, which shows that the property depends on
that line of the code.

### Indexer

A process (`Procs`) runs one worker per lane. `pos`, `batch`, `todo` and `pc` are
the locals of `runLane` and `apply`; `guard` is shared by the workers of a process;
`osVer`, `osDocs`, `qd` are the stores. `apply` is one action per call to another
system because that is where other workers interleave and where it can be cut
short: `Flush` (newest version per document, guard), `Bulk`, `Embed`,
`QdrantUpsert`, `QdrantDelete`, `GuardCommit`, `Bump`, `CommitOffsets`. Every call
also has a failing action; after an error the effect of the call is a free choice
(some part of the bulk, the whole Qdrant write or none of it). `GuardCommit` is one
step for the whole applied set: each `Guard.Commit` is a maximum, and the other lane
reads the guard only to skip records, so splitting the loop only lets it skip less.

* A lane has one partition, because records are keyed by `doc_id`.
* The flush triggers (256 records, interval elapsed) become "a non-empty batch may
  be flushed between two receives".
* `Crash` covers kill, panic and SIGTERM. On SIGTERM the last `flushBatch` runs with
  a cancelled context, so its calls fail.
* `Rebalance` moves a lane without telling the old worker, as the client does here:
  no callback is registered, so its batch survives and is still applied; its commit
  no longer counts.
* An OpenSearch tombstone keeps its version: deleted documents are assumed not to be
  replayed after OpenSearch forgets them (`index.gc_deletes`).
* Its environment publishes every change once, in order per lane, and may repeat
  records; what the normalizer itself can lose is the subject of `Normalizer`.
* Row ids are `BIGSERIAL`, so a deleted row is not inserted again.
* `unannounced` is a history variable: the documents written since the last bump of
  their tenant. A document's tenant (`TenantOf`) is assumed not to change here and in
  `AnswerCache`; `Retrieval` lets it change.

### Normalizer

`Destination` is the body of the `EachRecord` callback: skip, dead-letter or lane.
`Poll` takes any number of events. The records of a batch reach the brokers one by one
(`Produce`), in the order of their document and topic, which is what one partition
keeps; `ProduceError` and `Crash` may come after any part of them. A record is
identified by the event it was made from. `dropped` is a history variable that holds
the events of a logged error.

### AnswerCache

An answer is abstracted to what it was computed from: scope, filter, and the
version of every tenant's content. `floor` records, when a request begins, the
writes already announced. `Tenants` own documents, `Global` is the empty tenant of
open mode, which searches everything. A cache read may always miss and a cache
write may always be lost. The time-to-live needs no clock: an expired entry is a
miss. Requests that are not authorised change nothing and are left out.

### RateLimiter

Time in ticks, tokens in units of which a tick refills a whole number.
`Arrive` reads the clock, `Decide` is the locked part. A late clock reading gives a
negative refill, as in the code. `used` is history: for every interval of clock readings
the units of the requests that passed. `MaxDelay` bounds the wait between clock and
lock; without a bound an evicted bucket could be one that a late request still owes to.

### Retrieval and Ask

One request (`req`) runs next to the indexer, which writes OpenSearch first and Qdrant
later or never; requests share nothing in `retrieve`, so one is enough. The lanes are
two records inside `req` with steps of their own (`Bm25`, `EmbedQuery`, `Vector`), and
`Fuse` is the join. Every call has a failing step, which stands for the deadline too.

* How well a text matches is unknown to the code: `Best` is any order of any `n`
  matching documents, and so is the order the reranker gives. Whether a text has a word
  of the query is not free: `Lexical` follows from the texts.
* Filters are typed as the stores type them: OpenSearch holds the tenant as text, a
  point's payload as an integer, and the filter is a keyword match in both.
* Every write may change any column of the row, `tenant_id` included: in
  `deploy/postgres/init.sql` it is an ordinary column, and the normalizer takes it from
  the after image. What belongs to whom is therefore part of a store's content.
* `GetByIDs` is one multi-get, but OpenSearch reads it document by document, so
  there is a step per document. It has no filter. A document that is gone is left out
  (`FetchDoc`), and so is one OpenSearch reports an error for (`FetchMissed`): both are
  `Found = false`, and the call succeeds. `FetchError` is the failure of the whole call.
* Fusion scores are exact fractions; the code adds float64 numbers. `RRF` is the set of
  the permutations in the order of `Above`, which has one element.
* Clients filter by the fields both stores hold as keywords (tenant and category).
* `floor`, `settled` and `owners` are history: what OpenSearch held when the request
  began, the documents that were equal in both stores then and have not been written
  since, and the tenants a document has belonged to in OpenSearch since then.
* Settings (`LLM_PROVIDER`, `FAITHFULNESS_MODE`) are chosen where they are first used,
  which is the same as choosing them at the start and makes fewer states.

### Grounding

A text is a sequence of pieces: a set of words, and whether a full stop (or `!` or `?`)
and a space follow. A piece of an answer also has the marker behind it; a marker need
not stand at the end of a sentence. `splitSentences` takes a text apart as the regular
expression does: a sentence ends at every full stop, what follows the last one is
dropped, and a text without any is one sentence. `Faithfulness` splits the answer again
that way, after the markers are gone, and scores what the split returns; `Extract` takes
its quotes from the same split of the sources. A source's text is the title, a full stop
and the body, so the case without any full stop arises for answers only. `Given` numbers
the sources as `markerFor` does, after reranking. `Extract` is the set of the answers in
the order of `Better`, which has one element.

### LoadGen

Time passes in ticks; only differences are kept (since the limiter's last look, left
to sleep, left to the deadline), so runs of any length fit into few states. `waitN` is
`Grant` or `Sleep`, each the locked part; `Wake` goes round its loop. `meter` is
history: the most by which the grants of any interval that ends now exceed the refill
of that interval. Flags are chosen in `Init`. The documents of a backfill are numbered
in the order they are sent: the program passes only the size of a batch on, the model
also which documents it stands for, and `written` and `failed` keep those whose batch
was inserted or given up.

## 3. Runs

| run | properties | what it shows |
|---|---|---|
| `IndexerGroup` | `IndInv`, `ImplementsAuthority` | two processes, a document whose upserts travel on the bulk lane and whose delete on the urgent one; one crash, one rebalance, one Qdrant error |
| `IndexerCalls` | `TypeOK`, `CommittedSettled`, `QdrantNeverAhead`, `GuardBelowAuthority`, `StoresAgreeUndisturbed`, `WritesAnnounced` | two documents in a batch; every failing call, repeated records, refused records |
| `IndexerLive` | `IndexMatchesSource`, `CommittedDeadLettered`, `PublishedIsIndexed`, `LanesDrain` | under fairness, without deletes: everything is indexed and the lanes drain, except a lane that holds a record OpenSearch refuses |
| `IndexerDeleteLost` | violates `IndexMatchesSource` | finding 1 |
| `IndexerPartialFailure` | violates `StoresAgree` | finding 2 |
| `NormalizerLoop` | `TypeOK`, `LossesLogged`, `LanesInOrder`, `EverythingEmitted` | every fault once |
| `NormalizerProduceError` | violates `NothingLost` | finding 3 |
| `CacheServing` | `TypeOK`, `Fresh`, `Isolation`, `FiltersRespected` | a tenant and open mode, two filters, two overlapping requests, three in all |
| `LimiterRate` | `TypeOK`, `RateBounded`, `DenialsJustified` | two clients, two requests at a time, bursts of two requests, eviction |
| `AskPipeline` | `TypeOK`, `SourcesFresh`, `FilterHonoured`, `TenantScoped`, `SettledServed`, `BothLanesFirst`, `QuotesCurrent`, `FaithfulByConstruction`, `UnsupportedWarned`, `Responds` | a search or a question over up to three documents while one is written, moved to another tenant or deleted; every call may fail, both providers, both scoring modes |
| `RetrievalLanes` | violates `EitherLaneServes` | finding 4 |
| `LoadGen` | `TypeOK`, `RateBounded`, `EveryDocumentOnce`, `Terminates` | both modes, two workers, batches below and above the bucket, no limit |

### Bounds

* `Budget[f]` bounds how often fault `f` happens: once, where it happens at all. The
  faults of a run combine, so two different ones can follow each other.
* `MaxVersion = 2` gives an insert, an update and a delete that has the version of
  the update; two versions are what the strict comparisons distinguish.
* A crash and a rebalance together give a lane back to a worker that still holds its
  old batch, which is the hardest case of the group. Upserts on both lanes are in
  `IndexerLive`.
* One document suffices for the group and liveness runs because documents interact
  only by sharing a batch; `IndexerCalls` has two for that.
* The lanes of `IndexerCalls` are one, because agreement of the stores does not hold
  when the versions of a document travel on both (see section 6).
* `CacheServing`: an answer must be computed by one request, overlap a write, be
  stored and be read by a later one: two at a time, three in all, one write.
* `LimiterRate`: `IdleEvic = 5`, `MaxDelay = 1`, `Burst = 4`, `Refill = 1` are at the
  edge of `IdleWindowAssumption`, `(IdleEvic + 1 - 2 * MaxDelay) * Refill >= Burst`: an
  evicted bucket would have been full. With ten minutes of idle time every sensible
  rate satisfies it. `MaxTime = 6` passes the idle window.
* `AskPipeline` (0.3 million states): two documents of different tenants and a third
  that may be inserted, which exceeds `RerankN = 2` and `TopK = 2`, so that lists are
  cut; `MaxWrites = 1` with the vector store behind or not puts one change (an insert, an
  update, a move to the other tenant, a delete) before, between or after the reads. Version 2 of the
  first document no longer answers the query, version 2 of the second does, and twice.
  `RrfK = 1` and `RerankN = 2` sit at the edge `RerankN <= RrfK + 1` of `BothLanesFirst`.
  A client filters by category or by a tenant, which may not be its own. Replies of a
  model: an unsupported one without a full stop; and a sentence interrupted by a marker
  that names no source, a second sentence that some sources support and others do not,
  then words without a full stop that none supports. Verdicts of its judge: below 0 and
  above 1. Writes after the last read of the stores are left out (nothing sees them).
* `LoadGen`: nine documents in batches of two are five jobs, one more than the channel
  holds, with a smaller last batch; buckets of 2 and 4 tokens against batches of 2 and
  3 give all three relations. A stream without a limit is left out: nothing but the
  deadline would bound what it writes in a tick.
* Symmetry is used only for processes, requests, filters, keys and handlers, and never
  in a run with a liveness property.

### Fairness

`Indexer!FairSpec` has weak fairness of `Progress(w)`, the steps of a worker whose
calls succeed: `runLane` loops for ever, its poll is bounded by the flush interval,
and calls return. Failing calls and crashes get no fairness; they are finitely many,
which is what "eventually" needs. `Normalizer!FairSpec` has weak fairness of the
loop. Nothing is assumed of the source.

`Ask!FairAskSpec` has weak fairness of `Serve`: the handler and its goroutines keep
running, and each call returns because the request's context has a deadline. Nothing is
assumed of the indexer. `LoadGen!FairSpec` has weak fairness of the producer, of each
worker (goroutines are scheduled, statements return) and of time. No worker is assumed
to win the tokens: that is what `Terminates` has to survive.

`CHECK_DEADLOCK FALSE` is set for the caches and the ask pipeline, where the bounded
number of requests and writes runs out. The limiter's clients may always arrive; the idle
polls of indexer and normalizer are steps.

## 4. Properties

* **At-least-once** (`CommittedSettled`): a record below the committed offset is
  reflected in OpenSearch, whatever crashed or was reassigned.
* **One version authority** (`ImplementsAuthority`): OpenSearch versions grow, only
  to versions of logged records, and only reflected prefixes are acknowledged.
  `QdrantNeverAhead` and `GuardBelowAuthority` say that neither the vector store nor
  the guard knows a version OpenSearch has not accepted; a guard that did would
  drop records silently.
* **Agreement** (`StoresAgreeUndisturbed`, `IndexMatchesSource`), **announcement**
  (`WritesAnnounced`), **liveness** (`PublishedIsIndexed`, `LanesDrain`) and **dead
  letters** (`CommittedDeadLettered`), with the conditions under which they hold.
* **Normalizer**: only events of a logged error are lost (`LossesLogged`); the changes
  of a document keep their order on a lane even when a crash repeats part of a batch
  (`LanesInOrder`); all others are emitted (`EverythingEmitted`).
* **Caches**: an answer that overlapped a write is never served to a request that
  began after the write was announced (`Fresh`); answers stay within the tenant
  (`Isolation`), and the exact cache never mixes filters (`FiltersRespected`; the
  semantic cache does, see section 6).
* **Limiter**: no interval `[a, b]` grants more than `Burst + Refill * (b - a)`
  (`RateBounded`), and a request is turned away only when passing it would bring its
  own key to that bound, up to what two delays refill (`DenialsJustified`): neither other
  clients nor an eviction costs it tokens.
* **Retrieval**: no source is older than OpenSearch was when the request began, and none
  was deleted before it (`SourcesFresh`), although Qdrant proposes documents of any age;
  undisturbed documents pass the filters they are served under, although the fetch looks
  at none (`FilterHonoured`); a tenant is served only documents that were its own at some
  moment of the request, whatever it asks for (`TenantScoped`; they may have left it
  before they were fetched, see section 6); a document both stores hold
  is served if one lane that can find it answers and there is room (`SettledServed`);
  without a reranker, what both lanes found comes first (`BothLanesFirst`).
* **Answers**: extractive sentences stand verbatim in the current text of the document
  they cite (`QuotesCurrent`) and score as faithful when the check splits the answer again
  (`FaithfulByConstruction`); an answer no judge has scored passes without a warning only
  if a source supports each sentence that ends in a full stop, or the whole of an answer
  that has none (`UnsupportedWarned`, for answers short enough for the threshold: 0.9 lets
  one unsupported sentence in ten pass; words after the last full stop are not scored, see
  section 6); every request is answered (`Responds`).
* **Load generator**: no interval exceeds its refill by more than a bucket, all workers
  together (`RateBounded`); every document of a backfill is at any time in exactly one
  place, and in the end inserted once or logged as failed (`EveryDocumentOnce`); both
  modes end if the bucket can hold a batch, and a backfill never does if it cannot
  (`Terminates`).

## 5. Proofs

Every theorem has the form `Spec => []P` (or `Spec => P` for an action property or a
refinement) and holds for every value of the constants that satisfies the module's
assumptions: any number of documents, processes, requests, keys and tenants, any limits,
texts and fault budgets. Each proof has one lemma per action or per group of actions
that do the same to the state. TLC checks `IndInv` itself in `IndexerGroup`.

| module | theorem | property |
|---|---|---|
| `IndexerProofs` | `TypeCorrect` | `TypeOK` |
| | `Invariance` | `IndInv` |
| | `CommittedIsSettled` | `CommittedSettled` |
| | `QdrantBehindOpenSearch` | `QdrantNeverAhead` |
| | `GuardIsSafe` | `GuardBelowAuthority` |
| | `Refinement` | `ImplementsAuthority` |
| `IndexerOutcomeProofs` | `UnreadableDeadLettered` | `CommittedDeadLettered` |
| | `WritesAreAnnounced` | `WritesAnnounced` |
| | `UndeletedRowsMatch` | `UndeletedMatch` |
| | `SourceIsIndexed` | `IndexMatchesSource`, if nothing is deleted |
| | `StoresAreConsistent` | `StoresAgreeUndisturbed`, if all usable records travel on one lane |
| `NormalizerProofs` | `NormalizerTypes` | `TypeOK` |
| | `NoSilentLoss` | `LossesLogged` |
| | `OrderOnLanes` | `LanesInOrder` |
| `AnswerCacheProofs` | `AnswerCacheTypes` | `TypeOK` |
| | `TenantIsolation` | `Isolation` |
| | `FilterIsolation` | `FiltersRespected` |
| | `Freshness` | `Fresh` |
| `RateLimiterProofs` | `RateLimiterTypes` | `TypeOK` |
| | `RateLimit` | `RateBounded` |
| | `JustifiedDenials` | `DenialsJustified` |
| `AskProofs` | `AskTypes` | `TypeOK` |
| | `SourcesAreFresh` | `SourcesFresh` |
| | `FiltersHonoured` | `FilterHonoured` |
| | `TenantsScoped` | `TenantScoped` |
| | `SettledIsServed` | `SettledServed` |
| | `BothFirst` | `BothLanesFirst` |
| | `QuotesAreCurrent` | `QuotesCurrent` |
| | `ExtractsAreFaithful` | `FaithfulByConstruction` |
| | `UnsupportedAnswersWarned` | `UnsupportedWarned` |
| `LoadGenProofs` | `LoadTypeCorrect` | `TypeOK` |
| | `LoadRateBounded` | `RateBounded` |
| | `DocumentsOnce` | `EveryDocumentOnce` |

### Indexer

None of the safety properties is inductive alone. `CommittedSettled` is endangered
by `CommitOffsets`, which commits `pos`, so one has to know that everything a worker
received is reflected by then. `IndInv` adds:

* `OffsetsInRange`: positions lie within the lane, and the owner has read at least to
  the committed offset (it holds across a rebalance because the new owner starts
  there). It is a part of `TypeOK`, which `TypeCorrect` draws from `IndInv` for that
  reason;
* `BatchFromLane`: a batch holds readable records of its lane, `todo` at most one per
  document, all from the batch;
* `ReceivedKept`: a received record is reflected or still in the batch;
* `BatchCovered`: while the bulk is pending, each record of the batch is reflected or
  superseded by one in `todo`; from the bulk on, the whole batch is reflected. This
  uses that the guard is below OpenSearch (a record the guard skipped is reflected)
  and that OpenSearch never goes back.

The lemmas about `Newest` (a record per document, and one that supersedes any other)
rest on `LeastNat`: every non-empty set of naturals has a least element.

The outcomes of a quiet indexer need more, each its own addition to `IndInv`:

* dead letters: a worker has dead-lettered every unreadable record it passed, not only
  those below the committed offset (`ReceivedDeadLettered`);
* announcement: a write that is not announced is in the `todo` of a worker whose bump is
  still to come (`AnnouncedLater`);
* agreement with the source: records carry versions their row had and the current one is
  published (`RowsPublished`), and OpenSearch holds only such versions
  (`StoreFollowsRows`); since everything published is reflected in a quiet state, the
  versions are equal. Deletions have to be excluded (finding 1), documents that are
  never deleted do not;
* agreement of the stores: what the bulk has changed and Qdrant does not have yet is
  exactly what the worker has still to write (`VectorsFollow`), and no other worker is
  in between, because only the owner of the one lane has a batch (`OwnersWork`).

### Normalizer

`LossesLogged` speaks of committed events; `LoopInv` says of every event the client has
returned that it was emitted, dropped or is in the batch (`ReturnedInHand`), and that no
batch is pending when offsets are committed. `LanesInOrder` follows because the record
delivered next has no earlier one of its document in the batch, so all the earlier ones
were emitted or dropped, also when the batch is read for the second time.

### Caches

Isolation rests on `EntriesOwned`: an entry was computed under the scope and, in the
exact cache, the filter of its key. Freshness needs an invariant about generations
(`TenantFresh`): two requests that read the same generation have to reflect the same
writes, and an entry stored under a generation reflects what every request of that
generation has to reflect, also one that begins later while the generation is current.
A bump starts a generation nobody has read. `FreshInv` holds as long as no fault was
spent: a lost read or a restart of Redis breaks it, as section 6 says.

### Rate limiter

`RateBounded` bounds the use of all intervals and is not inductive: whether the next
request passes depends on the bucket. `UseTaken` says that the bucket has lost every
token used since any time at which it could have been full, `NothingElseTaken` that it
has lost no other since some time (for the denials), `MissingInv` that a key without a
bucket would have a full one, which is where `IdleWindowAssumption` is used.
Overtaking readings move `last` back and take their refill back with it, so that
`Level`, tokens relative to a fixed time, does not change.

### Retrieval and answers

`RetrievalInv` follows the lists of a request from the lanes to the sources:

* `PhaseInv`, `ApartInv`: which lists are filled when; nothing is fetched twice, and
  everything comes from a lane;
* `CurrentInv`: OpenSearch does not go back, and what was fetched was live and at least
  as new as `floor`. This gives `SourcesFresh`: whatever Qdrant proposes, the content
  comes from OpenSearch;
* `PassInv`: settled documents are equal in both stores, so what either lane found
  passes the filters of the other;
* `TenantInv`: a tenant's filters name that tenant, whatever the client sent
  (`scopeFilters`), so a lexical hit belonged to it when it was found and is in `owners`
  from then on; the vector lane contributes nothing then, because of finding 4
  (`NoVectorHits`). This gives `TenantScoped`;
* `ServeInv`: a lane whose list is not full has listed every settled document it can
  find, and with room for all, none is lost in fusion, fetch, rerank and cut, except what
  OpenSearch reports an error for;
* `OrderInv`: documents of both lanes come first in every list. Its core is arithmetic:
  with ranks up to `k + 1`, `1/(k+i) + 1/(k+j)` exceeds `1/(k+1)` (`SumAboveOne`).

`AskInv` adds that the handler waits for the retrieval and that the sources do not
change while it answers (`WaitInv`), that the answer is a reply or an extract of these
sources and is cited by its markers (`AnswerInv`), and that its score and its warning
were computed from the same sources (`ScoreInv`). The rest are lemmas about the
operators: every part of an extract stands in the source it names and ends in a full stop
(`ExtractIs`), so the check splits the answer into the same parts (`ExtractSplits`), such
a part is supported (`QuoteSupported`), and the score is full exactly if every sentence of
the split is supported (`FaithfulnessIs`).

### Load generator

`RateBounded` bounds `meter` alone and is not inductive: a grant raises `meter`, and
whether it may depends on the tokens. The strengthening is `BucketInv`: `Refilled +
meter <= Rate`. A grant moves tokens from one summand to the other; a tick adds at most
one refill to the first (less when the bucket is full) and takes one from the second,
or leaves it at zero, where the cap of the bucket suffices; going to sleep only writes
down `Refilled`. The product `refill * since` makes the arithmetic nonlinear, so its
facts are lemmas over plain numbers.

`EveryDocumentOnce` says that five sets partition the documents: unsent, in the channel,
in a worker's hands, written, failed. Each action moves one batch from one part to the
next or none (`PartsMove`); `Feed` cuts it off at the front of the unsent ones
(`BatchCut`), where the remainder of the last batch matters. A batch leaves the channel,
or a worker's hands, only because no other job or worker holds a document of it, which
is why the property also says so of any two. What it lacks to be inductive is `Sized`:
the number a job carries is the size of its batch, without which `inserted` would count
something else.

### Only model-checked

The liveness properties `PublishedIsIndexed`, `LanesDrain`, `EverythingEmitted`,
`Responds` and `Terminates`: fairness is beyond the prover. `StoresAgree`, `NothingLost`
and `EitherLaneServes` do not hold; they are the subject of the findings.

## 6. Findings and observations

1. A delete carries the version of the row's last upsert: the trigger is `BEFORE
   UPDATE` only. Every comparison is strict, so OpenSearch answers 409, or the guard
   skips it, and the document stays searchable. A delete takes effect only when it
   overtakes the upsert of the same version, which needs them on different lanes.
2. If embedding or a Qdrant write fails after the bulk succeeded, the retry is
   answered 409 and the vector is never written.
3. After a failed produce the normalizer polls on, and a later commit covers the
   events that were not produced. `cmd/indexer` has no such gap: it keeps the batch.
4. With a tenant set, the vector lane finds nothing: the indexer stores `tenant_id` in
   the payload as an integer and `Search` matches it as a keyword. The lexical lane hides
   it until that lane fails or does not share a word with the query.

Observed while modelling, without a run of their own:

* Two versions of a document on different lanes are written to Qdrant in any order,
  and the older vector may win.
* A crash between the bulk and the bump leaves the write unannounced: the replay is
  answered 409, so no tenant counts as changed.
* In open mode answers are cached under `gen:_global`, which no write bumps.
* A Redis restart resets the generations while Qdrant keeps the semantic entries.
* A fetch error makes the normalizer drop the whole poll, records included
  (`dropped` covers it).
* `toDLQ` and `dlqRecord` (which the models take as complete dead letters) embed the original as `json.RawMessage`; if it is not JSON,
  marshalling fails and the record produced is empty.
* A request overtaken between clock and lock takes its client's bucket back in time, so
  it may be denied although a token was there; `DenialsJustified` measures how much that
  can cost: what two delays refill.
* One record that OpenSearch refuses for good blocks its lane and is never
  dead-lettered, although `docs/LLD.md` says of a poison event "pipeline continues".
  `PublishedIsIndexed` and `LanesDrain` exempt exactly such a lane (`Blocked`).
* A generation read that fails counts as generation 0, so an answer cached before the
  tenant's writes may be served. `Fresh` is claimed only for requests whose read
  succeeded.
* The semantic cache looks at no filter but the tenant, and neither cache at `top_k`.
  `FiltersRespected` covers the exact cache.
* With OpenSearch down, retrieval fails at `GetByIDs` instead of serving vector-only
  results; `SettledServed` claims nothing of a failed fetch.
* An extractive abstention with retrieved sources is scored like any answer. Its words
  are "not found in sources", so it usually scores 0 and carries a warning, although a
  comment in `Faithfulness` calls abstentions trivially faithful.
* A score below the threshold only adds a warning; the design mentions regenerating or
  abstaining. MMR is implemented but not called.
* `splitSentences` drops what follows the last full stop, so a body without one is never
  quoted. The same happens to answers: the words of a model's reply after its last full
  stop are not scored, and an unsupported last sentence without one gets full marks and
  no warning, although `internal/rag/rag.go:1-3` says that faithfulness "verifies every
  answer sentence is supported by a source". `UnsupportedWarned` exempts those words.
* `GetByIDs` looks at no filter, so a row that changes tenant (or category) between the
  search and the fetch is served, with its new text, to the tenant it has left.
  `TenantScoped` says only that it belonged to the tenant during the request, and it holds
  because with a tenant the vector lane finds nothing (finding 4): if that filter worked,
  a stale payload could propose a row that moved long before.
* The indexer bumps the generation of the tenant in the after image only: a row that
  moves leaves the cached answers of its old tenant valid. `Indexer` and `AnswerCache`
  take the tenant of a document as constant.
* A document of a multi-get that OpenSearch reports an error for is treated as not found,
  so a request may be answered without it, or with "not found", while the call succeeds.
* `loadgen`'s `waitN` never returns when a batch is larger than the rate
  (`Terminates`), and `updateBatch` counts rows that do not exist.

## 7. Not modelled

Prompts and HTTP encodings (text processing and I/O); scores of BM25, cosine and the
reranker (numeric, external); floating-point rounding of fusion scores; MMR (not called);
the ML service (stateless inference), evaluation, deployment, configuration, metrics and
tracing.

## 8. Plan

Done: all modules of section 2 with their runs, and a theorem for every invariant that
a run checks.

1. `Pipeline`: the lanes of the normalizer as the input of the indexer, composing
   `NoSilentLoss` and `OrderOnLanes` with `UndeletedRowsMatch`, in place of the separate
   environments.
2. Whether the environments agree: that the records `Normalizer` produces satisfy what
   `Indexer` assumes of its source.
