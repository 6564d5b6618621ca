---------------------------- MODULE AnswerCache ----------------------------
(***************************************************************************)
(* The answer caches of the query service: internal/cache (Redis, exact     *)
(* match), internal/semcache (Qdrant, paraphrases) and handleAsk, which     *)
(* uses both, running against an indexer that writes a tenant's documents   *)
(* and then bumps the tenant's cache generation.                            *)
(*                                                                         *)
(* An answer is abstracted to what it was computed from: the scope (tenant) *)
(* and the filter of the request that computed it, and the version of every *)
(* tenant's content its retrieval saw.  A request reads the generation      *)
(* once, at its start, and uses it in every later step.                     *)
(*                                                                         *)
(* Every read of a cache may miss (a timeout, an expired TTL, a point that  *)
(* is not searchable yet) and every write to one may be lost; the code      *)
(* treats all of these alike, so they are free choices here.                *)
(***************************************************************************)
EXTENDS Integers

CONSTANTS
    Tenants,       \* tenants that own documents
    Global,        \* the empty tenant of open (development) mode
    Scopes,        \* the tenants requests come from: tenants, or Global
    Queries,       \* query texts after Key's trimming and lower-casing
    TopicOf,       \* TopicOf[q]: queries of one topic pass the cosine threshold
    Filters,       \* client filters other than tenant_id
    Requests,      \* requests in progress at the same time
    MaxAsks,       \* bound: requests begun
    MaxWrites,     \* bound: MaxWrites[t] is how often tenant t is written
    Budget         \* bound: Budget[f] is how often fault f may happen

Faults == {"gen", "restart"}

ASSUME AnswerCacheAssumption ==
    /\ Global \notin Tenants
    /\ Scopes \subseteq Tenants \cup {Global}
    /\ MaxAsks \in Nat /\ MaxWrites \in [Tenants -> Nat]
    /\ Budget \in [Faults -> Nat]

VARIABLES
    content,       \* content[t]: version of the indexed content of tenant t
    finished,      \* finished[t]: content whose apply has gone past the bump
    gen,           \* Redis: the generation counter of every tenant
    exact,         \* Redis: cached answers under their keys
    sem,           \* Qdrant: cached answers with tenant, generation and topic
    req,           \* req[r]: the state of request r
    asks,          \* requests begun so far
    budget         \* faults still allowed

index == <<content, finished>>
redis == <<gen, exact>>
vars  == <<content, finished, gen, exact, sem, req, asks, budget>>

Spend(f) ==
    /\ budget[f] > 0
    /\ budget' = [budget EXCEPT ![f] = @ - 1]

\* The tenants whose documents a request of scope s searches (scopeFilters
\* adds the tenant to the filters; without one nothing restricts the search).
Sees(s) == IF s = Global THEN Tenants ELSE {s}

\* Mutant: of the filters only the tenant is in the key.
Key_NoFilter(q) == [gen |-> q.gen, query |-> q.query, filter |-> "", scope |-> q.scope]

\* cache.Key: generation, query and filters, the tenant being one of them; the
\* requested top_k is not part of it.  Texts with a "|" in them, which could
\* make two keys equal, are left out.
Key(q) == [gen |-> q.gen, query |-> q.query, filter |-> q.filter, scope |-> q.scope]

\* cache.Generation: the counter of the scope, or 0 when Redis does not answer.
Generation(s) == {gen[s], 0}

\* Mutant: the condition on tenant_id is missing.
Similar_NoTenant(q, e) == e.gen = q.gen /\ e.topic = TopicOf[q.query]

\* semcache.scope and the threshold: same generation, same tenant (unless the
\* request has none) and a query close enough.
Similar(q, e) ==
    /\ e.gen = q.gen
    /\ q.scope # Global => e.scope = q.scope
    /\ e.topic = TopicOf[q.query]

-----------------------------------------------------------------------------
(* The indexer: cmd/indexer apply, seen from the caches *)

\* A write becomes searchable: Bulk refreshes, Qdrant is written with wait.
Write(t) ==
    /\ content[t] < MaxWrites[t]
    /\ content' = [content EXCEPT ![t] = @ + 1]
    /\ UNCHANGED <<finished, redis, sem, req, asks, budget>>

\* BumpGeneration, after the writes it announces.
Bump(t) ==
    /\ finished[t] < content[t]
    /\ gen' = [gen EXCEPT ![t] = @ + 1]
    /\ finished' = [finished EXCEPT ![t] = content[t]]
    /\ UNCHANGED <<content, exact, sem, req, asks, budget>>

\* Redis comes back empty (it has no volume); Qdrant keeps the semantic cache.
RedisRestart ==
    /\ Spend("restart")
    /\ gen' = [s \in DOMAIN gen |-> 0]
    /\ exact' = {}
    /\ UNCHANGED <<index, sem, req, asks>>

-----------------------------------------------------------------------------
(* handleAsk *)

NoAnswer == [kind |-> "none"]
Answer(k, q) == [kind |-> k, scope |-> q.scope, filter |-> q.filter, basis |-> content]
Idle == [at |-> "idle"]

\* The request goes on to stage a.
Goto(r, a) == req' = [req EXCEPT ![r] = [@ EXCEPT !.at = a]]

\* The request is answered with x.
Respond(r, x) == req' = [req EXCEPT ![r] = [@ EXCEPT !.at = "done", !.ans = x]]

\* Authorised, decoded and scoped: the request reads its generation.  floor is
\* what a fresh answer has to reflect.
Begin(r, s, q, f) ==
    /\ req[r] = Idle /\ asks < MaxAsks
    /\ asks' = asks + 1
    /\ \E g \in Generation(s) :
          /\ IF g = gen[s] THEN UNCHANGED budget ELSE Spend("gen")
          /\ req' = [req EXCEPT ![r] =
                [at |-> "exact", scope |-> s, query |-> q, filter |-> f, gen |-> g,
                 floor |-> finished, vec |-> FALSE, similar |-> FALSE, ans |-> NoAnswer]]
    /\ UNCHANGED <<index, redis, sem>>

ExactHit(r) ==
    /\ req[r].at = "exact"
    /\ \E e \in exact : e.key = Key(req[r]) /\ Respond(r, e.ans)
    /\ UNCHANGED <<index, redis, sem, asks, budget>>

ExactMiss(r) ==
    /\ req[r].at = "exact"
    /\ Goto(r, "embed")
    /\ UNCHANGED <<index, redis, sem, asks, budget>>

\* Without a vector the semantic cache is neither read nor written.
Embed(r) ==
    /\ req[r].at = "embed"
    /\ \/ req' = [req EXCEPT ![r] = [@ EXCEPT !.at = "semantic", !.vec = TRUE]]
       \/ Goto(r, "retrieve")
    /\ UNCHANGED <<index, redis, sem, asks, budget>>

\* The nearest neighbour within the scope, when it is above the threshold.
SemanticHit(r) ==
    /\ req[r].at = "semantic"
    /\ \E e \in sem :
          /\ Similar(req[r], e)
          /\ req' = [req EXCEPT ![r] = [@ EXCEPT !.at = "done", !.similar = TRUE, !.ans = e.ans]]
    /\ UNCHANGED <<index, redis, sem, asks, budget>>

SemanticMiss(r) ==
    /\ req[r].at = "semantic"
    /\ Goto(r, "retrieve")
    /\ UNCHANGED <<index, redis, sem, asks, budget>>

\* retrieve and what handleAsk does with it.  Documents: a lane found ids and
\* OpenSearch still has some of them.  None ("Not found in sources."): no lane
\* found or reached anything, or all ids are gone.  An error (502): the documents
\* cannot be fetched.  Ranking and reranking only order the documents.  The
\* stores are read at the start of the stage: its later reads see no less.
Retrieve(r) ==
    /\ req[r].at = "retrieve"
    /\ \/ req' = [req EXCEPT ![r] =
             [@ EXCEPT !.at = "generate", !.ans = Answer("answer", req[r])]]
       \/ Respond(r, Answer("notfound", req[r]))
       \/ Respond(r, NoAnswer)
    /\ UNCHANGED <<index, redis, sem, asks, budget>>

\* Mutant: the response without an answer is cached too.
Generate_CachesDegraded(r) ==
    /\ req[r].at = "generate"
    /\ \/ Goto(r, "set")
       \/ req' = [req EXCEPT ![r].at = "set", ![r].ans.kind = "degraded"]
    /\ UNCHANGED <<index, redis, sem, asks, budget>>

\* Generate, then the faithfulness score, which changes no state.  When the
\* model is down the documents are returned and nothing is cached.
Generate(r) ==
    /\ req[r].at = "generate"
    /\ \/ Goto(r, "set")
       \/ Respond(r, [req[r].ans EXCEPT !.kind = "degraded"])
    /\ UNCHANGED <<index, redis, sem, asks, budget>>

\* Mutant: the generation is read again for the key of the new entry.
Set_RereadsGeneration(r) ==
    LET k == [Key(req[r]) EXCEPT !.gen = gen[req[r].scope]]
    IN  /\ req[r].at = "set"
        /\ exact' = {e \in exact : e.key # k} \cup {[key |-> k, ans |-> req[r].ans]}
        /\ Goto(r, IF req[r].vec THEN "store" ELSE "done")
        /\ UNCHANGED <<index, gen, sem, asks, budget>>

\* cache.Set under the key computed at the start; the answer is then stored in
\* the semantic cache if the query was embedded.
Set(r) ==
    /\ req[r].at = "set"
    /\ \/ exact' = {e \in exact : e.key # Key(req[r])}
                     \cup {[key |-> Key(req[r]), ans |-> req[r].ans]}
       \/ UNCHANGED exact
    /\ Goto(r, IF req[r].vec THEN "store" ELSE "done")
    /\ UNCHANGED <<index, gen, sem, asks, budget>>

Store(r) ==
    LET q == req[r]
    IN  /\ q.at = "store"
        /\ \/ sem' = sem \cup {[scope |-> q.scope, gen |-> q.gen,
                                topic |-> TopicOf[q.query], ans |-> q.ans]}
           \/ UNCHANGED sem
        /\ Goto(r, "done")
        /\ UNCHANGED <<index, redis, asks, budget>>

\* The response is written and the connection is free again.
Finish(r) ==
    /\ req[r].at = "done"
    /\ req' = [req EXCEPT ![r] = Idle]
    /\ UNCHANGED <<index, redis, sem, asks, budget>>

-----------------------------------------------------------------------------
Init ==
    /\ content = [t \in Tenants |-> 0]
    /\ finished = content
    /\ gen = [s \in Tenants \cup {Global} |-> 0]
    /\ exact = {}
    /\ sem = {}
    /\ req = [r \in Requests |-> Idle]
    /\ asks = 0
    /\ budget = Budget

Handle(r) ==
    \/ ExactHit(r) \/ ExactMiss(r) \/ Embed(r) \/ SemanticHit(r) \/ SemanticMiss(r)
    \/ Retrieve(r) \/ Generate(r) \/ Set(r) \/ Store(r) \/ Finish(r)

Next ==
    \/ \E t \in Tenants : Write(t) \/ Bump(t)
    \/ RedisRestart
    \/ \E r \in Requests, s \in Scopes, q \in Queries, f \in Filters : Begin(r, s, q, f)
    \/ \E r \in Requests : Handle(r)

Spec == Init /\ [][Next]_vars

-----------------------------------------------------------------------------
(* Correctness *)

Stages == {"exact", "embed", "semantic", "retrieve", "generate", "set", "store", "done"}
Answers == [kind : {"answer", "notfound", "degraded"}, scope : Scopes, filter : Filters,
            basis : [Tenants -> Nat]]
Cached == {a \in Answers : a.kind = "answer"}
Keys == [gen : Nat, query : Queries, filter : Filters, scope : Scopes]
Asked == [at : Stages, scope : Scopes, query : Queries, filter : Filters, gen : Nat,
          floor : [Tenants -> Nat], vec : BOOLEAN, similar : BOOLEAN,
          ans : Answers \cup {NoAnswer}]

\* Type invariant: stores, generations and the requests in progress.  Only
\* generated answers are in the caches.
TypeOK ==
    /\ content \in [Tenants -> Nat] /\ finished \in [Tenants -> Nat]
    /\ \A t \in Tenants : finished[t] <= content[t]
    /\ gen \in [Tenants \cup {Global} -> Nat]
    /\ \A e \in exact : e \in [key : Keys, ans : Cached]
    /\ \A e \in sem : e \in [scope : Scopes, gen : Nat, topic : {TopicOf[q] : q \in Queries},
                             ans : Cached]
    /\ req \in [Requests -> Asked \cup {Idle}]
    /\ asks \in 0..MaxAsks
    /\ budget \in [Faults -> Nat]

\* The requests that are being answered with content, computed or cached.
Answered == {r \in Requests : req[r].at = "done" /\ req[r].ans # NoAnswer}

\* The answer of r reflects every write whose apply had bumped the generation
\* before the request began.
UpToDate(r) ==
    \A t \in Sees(req[r].scope) : req[r].ans.basis[t] >= req[r].floor[t]

\* Freshness: as long as Redis answers and keeps its counters, a tenant's
\* request is never given an answer older than the writes announced before it
\* began, even when the answer was computed and cached by another request that
\* overlapped those writes.
Fresh ==
    budget = Budget => \A r \in Answered : req[r].scope \in Tenants => UpToDate(r)

\* Tenant isolation: an answer was computed from documents the asking tenant
\* may see, whichever of the two caches it came from.
Isolation == \A r \in Answered : Sees(req[r].ans.scope) \subseteq Sees(req[r].scope)

\* Source isolation: an answer that is not a paraphrase's was computed under
\* the filters of the request, also when another request stored it.  The
\* semantic cache (similar) looks at no filter but the tenant.
FiltersRespected ==
    \A r \in Answered : ~req[r].similar => req[r].ans.filter = req[r].filter
=============================================================================
