----------------------------- MODULE Retrieval -----------------------------
(***************************************************************************)
(* retrieve of cmd/query: a lexical and a vector lane searched at the same  *)
(* time, fused by reciprocal rank, fetched from OpenSearch by id, reranked  *)
(* and cut, while the indexer keeps writing OpenSearch first and Qdrant     *)
(* later (or never, when it fails in between).                              *)
(*                                                                         *)
(* One request with one query text; requests share nothing in retrieve.     *)
(* Which texts match the query is a constant, how well they match is a free *)
(* choice.  Every call may fail, which includes the request's deadline.     *)
(***************************************************************************)
EXTENDS Integers, Sequences, SequencesExt

CONSTANTS
    Docs,          \* document ids; a set of numbers, compared as ids are
    DocTenants,    \* tenants a row may belong to
    Categories,    \* categories a document may have
    Loads,         \* what may be indexed at the start: documents with their tenants
    Lexical,       \* pairs <<d, v>>: version v of d has a word of the query
    Tenants,       \* tenants that ask; NoTenant in open mode
    NoTenant,
    ClientFilters, \* filters a client may send, on the fields both stores hold
    RrfK,          \* RRF_K
    RerankN,       \* RERANK_TOP_N
    TopK,          \* RAG_TOP_K
    TopKs,         \* values of top_k in a request, 0 when it is missing
    MaxVersion,    \* bound: versions of a document
    MaxWrites      \* bound: documents written or deleted

ASSUME RetrievalAssumption ==
    /\ Docs \subseteq Nat /\ IsFiniteSet(Docs)
    /\ Categories # {} /\ DocTenants # {}
    /\ \A l \in Loads : DOMAIN l \subseteq Docs /\ \A d \in DOMAIN l : l[d] \in DocTenants
    /\ \A cf \in ClientFilters : DOMAIN cf \subseteq {"tenant_id", "category"}
    /\ Lexical \subseteq Docs \X (1..MaxVersion)
    /\ RrfK \in Int /\ RerankN \in Nat \ {0} /\ TopK \in Nat \ {0} /\ TopKs \subseteq Int
    /\ MaxVersion \in Nat \ {0} /\ MaxWrites \in Nat

VARIABLES
    os,            \* os[d]: version and content of d in OpenSearch
    qd,            \* qd[d]: version and content the point of d was made from
    writes,        \* writes so far
    req,           \* the request
    settled,       \* history: documents equal in both stores and not written
                   \* since the request began
    owners         \* history: the tenants d has belonged to in OpenSearch since then

stores  == <<os, qd, writes>>
history == <<settled, owners>>
vars    == <<os, qd, writes, req, settled, owners>>

Absent == [ver |-> 0, live |-> FALSE, tenant |-> CHOOSE t \in DocTenants : TRUE,
           cat |-> CHOOSE c \in Categories : TRUE]

-----------------------------------------------------------------------------
(* Filters.  OpenSearch stores the tenant as text; the point's payload holds *)
(* a number (cmd/indexer passes the int64), and NewMatch is a keyword match. *)

Keyword(x) == <<"keyword", x>>
Number(x)  == <<"integer", x>>

Fields(d)  == [tenant_id |-> Keyword(os[d].tenant), category |-> Keyword(os[d].cat)]
Payload(d) == [tenant_id |-> Number(qd[d].tenant), category |-> Keyword(qd[d].cat)]

Matches(fields, filters) == \A k \in DOMAIN filters : fields[k] = Keyword(filters[k])

\* Mutant: a tenant the client has sent stays.
scopeFilters_ClientFirst(filters, tenant) ==
    IF tenant = NoTenant \/ "tenant_id" \in DOMAIN filters THEN filters
    ELSE [k \in DOMAIN filters \cup {"tenant_id"} |->
             IF k = "tenant_id" THEN tenant ELSE filters[k]]

\* scopeFilters: the tenant of the request replaces what the client sent.
scopeFilters(filters, tenant) ==
    IF tenant = NoTenant THEN filters
    ELSE [k \in DOMAIN filters \cup {"tenant_id"} |->
             IF k = "tenant_id" THEN tenant ELSE filters[k]]

-----------------------------------------------------------------------------
(* Fusion *)

\* Mutant: a document keeps its best rank instead of collecting all of them.
Score_Best(lists, k, d) ==
    [num |-> 1,
     den |-> k + Min({i \in 1..RerankN : \E l \in DOMAIN lists :
                                             i <= Len(lists[l]) /\ lists[l][i] = d})]

\* What a list adds to the score of d: 1/(k + rank), ranks from 1.  A store
\* lists a document once.
Share(list, k, d) ==
    IF d \in Range(list) THEN [num |-> 1, den |-> k + CHOOSE i \in DOMAIN list : list[i] = d]
    ELSE [num |-> 0, den |-> 1]

\* The sum over both lists, as a fraction; the code adds floating-point numbers.
Score(lists, k, d) ==
    LET a == Share(lists[1], k, d)
        b == Share(lists[2], k, d)
    IN  [num |-> a.num * b.den + b.num * a.den, den |-> a.den * b.den]

\* c comes before d: the higher score, ties by id.
Above(lists, k, c, d) ==
    LET s == Score(lists, k, c)
        t == Score(lists, k, d)
    IN  \/ s.num * t.den > t.num * s.den
        \/ s.num * t.den = t.num * s.den /\ c < d

\* RRF: the documents of the lists in that order (the set of the one such list).
RRF(lists, k0) ==
    LET k == IF k0 <= 0 THEN 60 ELSE k0
    IN  {s \in SetToSeqs(Range(lists[1]) \cup Range(lists[2])) :
            \A i, j \in DOMAIN s : i < j => Above(lists, k, s[i], s[j])}

\* Mutant: the loop tests its bound after appending.
Cut_OneMore(s, n) == SubSeq(s, 1, Min({n + 1, Len(s)}))

\* The first n elements of s.
Cut(s, n) == SubSeq(s, 1, Min({n, Len(s)}))

-----------------------------------------------------------------------------
(* The indexer, as seen from a search *)

Idle == [at |-> "idle"]
Retrieved == req # Idle /\ req.at = "retrieved"

\* The tenant that document x is searched under.
Owner(x) == IF x.live THEN {x.tenant} ELSE {}

\* A write to OpenSearch; Bulk refreshes, so it is searchable at once.
Put(d, x) ==
    /\ writes < MaxWrites
    /\ writes' = writes + 1
    /\ os' = [os EXCEPT ![d] = x]
    /\ settled' = settled \ {d}
    /\ owners' = [owners EXCEPT ![d] = @ \cup Owner(x)]
    /\ UNCHANGED <<qd, req>>

\* Any column of the row may have changed, its tenant too.
IndexUpsert(d, t, c) ==
    /\ os[d].live \/ os[d].ver = 0
    /\ os[d].ver < MaxVersion
    /\ Put(d, [ver |-> os[d].ver + 1, live |-> TRUE, tenant |-> t, cat |-> c])

\* A delete OpenSearch accepts; a deleted row is not inserted again.
IndexDelete(d) ==
    /\ os[d].live
    /\ os[d].ver < MaxVersion
    /\ Put(d, [os[d] EXCEPT !.ver = @ + 1, !.live = FALSE])

\* The vector store catches up with a document.
IndexVector(d) ==
    /\ qd[d] # os[d]
    /\ qd' = [qd EXCEPT ![d] = os[d]]
    /\ UNCHANGED <<os, writes, req, history>>

-----------------------------------------------------------------------------
(* The request *)

Lane(a) == [at |-> a, ids |-> <<>>, ok |-> FALSE]
Answered(s) == [at |-> "done", ids |-> s, ok |-> TRUE]

\* retrieve is called.  vec: the caller has embedded the query already.  floor
\* records what OpenSearch holds now.
Begin(tenant, cf, k, vec) ==
    /\ req = Idle
    /\ req' = [at |-> "lanes", tenant |-> tenant, filters |-> scopeFilters(cf, tenant),
               topK |-> IF k <= 0 THEN TopK ELSE k,
               bm25 |-> Lane("search"), vec |-> Lane(IF vec THEN "search" ELSE "embed"),
               ids |-> <<>>, docs |-> <<>>, missed |-> {}, reranked |-> FALSE,
               status |-> "pending", sources |-> <<>>, floor |-> os]
    /\ settled' = {d \in Docs : os[d] = qd[d]}
    /\ owners' = [d \in Docs |-> Owner(os[d])]
    /\ UNCHANGED stores

\* The n best of S, in the order of a score nothing is known about.
Best(S, n) == {s \in SetToAllKPermutations(S) : Len(s) = Min({n, Cardinality(S)})}

\* The documents with a word of the query that pass the filters.
LexicalHits(filters) ==
    {d \in Docs : os[d].live /\ <<d, os[d].ver>> \in Lexical /\ Matches(Fields(d), filters)}

\* opensearch.Search: the best of them.
Bm25 ==
    /\ req.at = "lanes" /\ req.bm25.at = "search"
    /\ \E s \in Best(LexicalHits(req.filters), RerankN) : req' = [req EXCEPT !.bm25 = Answered(s)]
    /\ UNCHANGED <<stores, history>>

\* The lane's goroutine logs the error and leaves its list empty.
Bm25Down ==
    /\ req.at = "lanes" /\ req.bm25.at = "search"
    /\ req' = [req EXCEPT !.bm25 = Lane("done")]
    /\ UNCHANGED <<stores, history>>

\* Embed, when the caller has not; without a vector the lane ends.
EmbedQuery ==
    /\ req.at = "lanes" /\ req.vec.at = "embed"
    /\ \E a \in {"search", "done"} : req' = [req EXCEPT !.vec = Lane(a)]
    /\ UNCHANGED <<stores, history>>

\* Mutant: the payload filter is left out.
VectorHits_Unfiltered(filters) == {d \in Docs : qd[d].live}

\* The points that pass the filters.
VectorHits(filters) == {d \in Docs : qd[d].live /\ Matches(Payload(d), filters)}

\* qdrant.Search: the nearest points, however far.
Vector ==
    /\ req.at = "lanes" /\ req.vec.at = "search"
    /\ \E s \in Best(VectorHits(req.filters), RerankN) : req' = [req EXCEPT !.vec = Answered(s)]
    /\ UNCHANGED <<stores, history>>

VectorDown ==
    /\ req.at = "lanes" /\ req.vec.at = "search"
    /\ req' = [req EXCEPT !.vec = Lane("done")]
    /\ UNCHANGED <<stores, history>>

\* Mutant: the join waits for a result of each lane.
Joined_NeedsBoth == req.bm25.ok /\ req.vec.ok

\* wg.Wait returns.
Joined == req.bm25.at = "done" /\ req.vec.at = "done"

\* RRF and the cut to RERANK_TOP_N.
Fuse ==
    /\ req.at = "lanes" /\ Joined
    /\ \E s \in RRF(<<req.bm25.ids, req.vec.ids>>, RrfK) :
          req' = IF s = <<>> THEN [req EXCEPT !.at = "retrieved", !.status = "ok"]
                 ELSE [req EXCEPT !.at = "fetch", !.ids = Cut(s, RerankN)]
    /\ UNCHANGED <<stores, history>>

\* Mutant: the content comes from the point's payload.
Stored_Payload(d) == [doc |-> d, ver |-> qd[d].ver, live |-> qd[d].live]

\* What a get by id returns: the current content, whatever the filters.
Stored(d) == [doc |-> d, ver |-> os[d].ver, live |-> os[d].live]

\* GetByIDs goes through the ids one by one: it has the documents `have' and
\* was refused those in `lost'.
Fetch(have, lost) ==
    /\ req.at = "fetch"
    /\ LET at == IF Len(req.ids) > 1 THEN "fetch" ELSE IF have = <<>> THEN "retrieved" ELSE "rerank"
       IN  req' = [req EXCEPT !.at = at, !.ids = Tail(@), !.docs = have, !.missed = @ \cup lost,
                              !.status = IF at = "retrieved" THEN "ok" ELSE @]
    /\ UNCHANGED <<stores, history>>

\* A document that is not found is dropped.
FetchDoc ==
    LET x == Stored(Head(req.ids))
    IN  Fetch(IF x.live THEN Append(req.docs, x) ELSE req.docs, {})

\* So is one OpenSearch reports an error for, and the call succeeds.
FetchMissed == Fetch(req.docs, {Head(req.ids)})

FetchError ==
    /\ req.at = "fetch"
    /\ req' = [req EXCEPT !.at = "retrieved", !.status = "error"]
    /\ UNCHANGED <<stores, history>>

\* The sources are the documents in the given order, cut to top_k; the marker
\* of a source is its position.
Sources(order) == Cut([i \in DOMAIN order |-> req.docs[order[i]]], req.topK)

\* The reranker orders all documents by a score of its own.
Rerank ==
    /\ req.at = "rerank"
    /\ \E order \in SetToSeqs(DOMAIN req.docs) :
          req' = [req EXCEPT !.at = "retrieved", !.status = "ok", !.reranked = TRUE,
                             !.sources = Sources(order)]
    /\ UNCHANGED <<stores, history>>

\* Mutant: without a reranker the request fails.
RerankSkipped_Fails ==
    /\ req.at = "rerank"
    /\ req' = [req EXCEPT !.at = "retrieved", !.status = "ok"]
    /\ UNCHANGED <<stores, history>>

\* It fails, or its answer has the wrong length: the fused order stands.
RerankSkipped ==
    /\ req.at = "rerank"
    /\ req' = [req EXCEPT !.at = "retrieved", !.status = "ok",
                          !.sources = Sources([i \in DOMAIN req.docs |-> i])]
    /\ UNCHANGED <<stores, history>>

-----------------------------------------------------------------------------
\* Some documents are indexed, in both stores.
Init ==
    /\ \E load \in Loads :
          os = [d \in Docs |-> IF d \in DOMAIN load
                               THEN [Absent EXCEPT !.ver = 1, !.live = TRUE, !.tenant = load[d]]
                               ELSE Absent]
    /\ qd = os
    /\ writes = 0
    /\ req = Idle
    /\ settled = {}
    /\ owners = [d \in Docs |-> {}]

\* Bound: writes after the request's last read are left out, nothing sees them.
Index ==
    /\ ~Retrieved
    /\ \E d \in Docs :
        \/ \E t \in DocTenants, c \in Categories : IndexUpsert(d, t, c)
        \/ IndexDelete(d)
        \/ IndexVector(d)

Retrieve ==
    \/ Bm25 \/ Bm25Down \/ EmbedQuery \/ Vector \/ VectorDown
    \/ Fuse \/ FetchDoc \/ FetchMissed \/ FetchError \/ Rerank \/ RerankSkipped

-----------------------------------------------------------------------------
(* Correctness *)

Contents == {x \in [ver : 0..MaxVersion, live : BOOLEAN, tenant : DocTenants, cat : Categories] :
                 x.live => x.ver > 0}
Fetched == [doc : Docs, ver : 0..MaxVersion, live : BOOLEAN]
LaneStates == [at : {"embed", "search", "done"}, ids : Seq(Docs), ok : BOOLEAN]
Scoped == {scopeFilters(cf, t) : cf \in ClientFilters, t \in Tenants}
Requests ==
    [at : {"lanes", "fetch", "rerank", "retrieved"},
     tenant : Tenants, filters : Scoped,
     topK : Nat \ {0}, bm25 : LaneStates, vec : LaneStates, ids : Seq(Docs),
     docs : Seq(Fetched), missed : SUBSET Docs, reranked : BOOLEAN, status : {"pending", "ok", "error"},
     sources : Seq(Fetched), floor : [Docs -> Contents]]

\* Part of Ask's type invariant: contents, and lists without repetitions within their limits.
RetrievalTypeOK ==
    /\ os \in [Docs -> Contents] /\ qd \in [Docs -> Contents]
    /\ \A d \in Docs : qd[d].ver <= os[d].ver
    /\ writes \in 0..MaxWrites /\ settled \subseteq Docs
    /\ owners \in [Docs -> SUBSET DocTenants]
    /\ req # Idle =>
          /\ req \in Requests
          /\ \A s \in {req.bm25.ids, req.vec.ids, req.ids} : Len(s) <= RerankN /\ IsInjective(s)
          /\ Len(req.sources) <= req.topK
          /\ IsInjective([i \in DOMAIN req.sources |-> req.sources[i].doc])

ServedDocs == {req.sources[i].doc : i \in DOMAIN req.sources}

\* Freshness of what a search returns: no source is older than OpenSearch was
\* when the request began, and none is a document deleted before it, however
\* far Qdrant, which proposed it, is behind.
SourcesFresh ==
    Retrieved => \A i \in DOMAIN req.sources :
        LET x == req.sources[i]
        IN  x.live /\ x.ver >= req.floor[x.doc].ver

\* The fetch by id looks at no filter: a document the stores agreed about and
\* nobody wrote during the request passes the filters it was searched with.
FilterHonoured ==
    Retrieved => \A i \in DOMAIN req.sources :
        LET d == req.sources[i].doc IN d \in settled => Matches(Fields(d), req.filters)

\* A tenant is served documents that were its own at some moment of the request,
\* whatever the client asks for and however far Qdrant is behind.  They may no
\* longer be: a row that moves to another tenant between the search and the
\* fetch is served, with its new text, to the tenant it has left.
TenantScoped ==
    Retrieved /\ req.tenant # NoTenant =>
        \A i \in DOMAIN req.sources : req.tenant \in owners[req.sources[i].doc]

\* The lanes that answered and whose list was not full, so that it has all.
Lists(lane) == lane.ok /\ Len(lane.ids) < RerankN

\* The settled documents that pass the filters, except those OpenSearch reported
\* an error for.
Findable == {d \in settled \ req.missed : os[d].live /\ Matches(Fields(d), req.filters)}

\* The response had room for everything the lanes found.
Found == Range(req.bm25.ids) \cup Range(req.vec.ids)
RoomForAll == Cardinality(Found) <= Min({RerankN, req.topK})

\* Degradation: a document both stores hold is served as long as one lane that
\* can find it answers, whatever becomes of the other lane, of the embedding
\* and of the reranker, unless OpenSearch fails when its text is fetched.
\* The vector lane can only find it when no tenant is set (see Payload).
SettledServed ==
    Retrieved /\ req.status = "ok" /\ RoomForAll =>
        \A d \in Findable :
            \/ Lists(req.bm25) /\ <<d, os[d].ver>> \in Lexical
            \/ Lists(req.vec) /\ "tenant_id" \notin DOMAIN req.filters
            => d \in ServedDocs

\* The same as the comments have it: each lane degrades independently, for
\* every filter.
EitherLaneServes ==
    Retrieved /\ RoomForAll =>
        \A d \in Findable :
            \/ Lists(req.bm25) /\ <<d, os[d].ver>> \in Lexical
            \/ Lists(req.vec)
            => d \in ServedDocs

\* Without a reranker the order is that of the fusion: a source that both
\* lanes found comes before every source that only one of them found, as long
\* as the lists are not longer than k + 1 (50 and 60 by default).
BothLanesFirst ==
    LET inBoth(d) == d \in Range(req.bm25.ids) /\ d \in Range(req.vec.ids)
    IN  Retrieved /\ ~req.reranked /\ RerankN <= RrfK + 1 =>
            \A i, j \in DOMAIN req.sources :
                inBoth(req.sources[i].doc) /\ ~inBoth(req.sources[j].doc) => i < j
=============================================================================
