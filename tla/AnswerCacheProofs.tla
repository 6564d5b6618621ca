------------------------- MODULE AnswerCacheProofs -------------------------
(***************************************************************************)
(* Proofs about AnswerCache, for any tenants, queries, filters, number of   *)
(* requests at the same time and number of writes: type correctness, tenant *)
(* and filter isolation of both caches, and freshness of the answers.       *)
(***************************************************************************)
EXTENDS AnswerCache, TLAPS

-----------------------------------------------------------------------------
(* The inductive invariants *)

\* An answer that was computed for the request itself.
OwnAnswer(q) ==
    /\ q.at \in {"generate", "set", "store"} =>
          q.ans \in Cached /\ q.ans.scope = q.scope /\ q.ans.filter = q.filter
    /\ q.at # "done" => ~q.similar

\* A cached answer was computed under the scope (and, in the exact cache, the
\* filters) of the key it is stored under.
EntriesOwned ==
    /\ \A e \in exact : e.ans.scope = e.key.scope /\ e.ans.filter = e.key.filter
    /\ \A e \in sem : e.ans.scope = e.scope

\* What tenant isolation and filter isolation rest on.
ScopeInv ==
    /\ EntriesOwned
    /\ \A r \in Requests : req[r] # Idle => OwnAnswer(req[r])
    /\ Isolation
    /\ FiltersRespected

\* The requests of tenant t in progress.
Of(t) == {r \in Requests : req[r] # Idle /\ req[r].scope = t}

\* A request of tenant t that read the current generation began after the last
\* announced write; what it has to reflect is never more than what is announced.
GenerationRead(t) ==
    \A r \in Of(t) :
        /\ req[r].gen <= gen[t]
        /\ req[r].floor[t] <= finished[t]
        /\ req[r].gen = gen[t] => req[r].floor[t] = finished[t]

\* Two requests that read one generation have to reflect the same writes.
FloorByGeneration(t) ==
    \A r, q \in Of(t) : req[r].gen = req[q].gen => req[r].floor[t] = req[q].floor[t]

\* An answer stored for tenant t under generation g reflects what every request
\* reading that generation, now or later, has to reflect.
EntryFresh(t, g, a) ==
    /\ g <= gen[t]
    /\ g = gen[t] => a.basis[t] >= finished[t]
    /\ \A r \in Of(t) : req[r].gen = g => a.basis[t] >= req[r].floor[t]

\* The answer a request has is one it may be given.
AnswerFresh(q) ==
    q.at \in {"generate", "set", "store", "done"} /\ q.ans # NoAnswer =>
        q.ans.basis[q.scope] >= q.floor[q.scope]

\* What freshness rests on, for one tenant.
TenantFresh(t) ==
    /\ GenerationRead(t)
    /\ FloorByGeneration(t)
    /\ \A e \in exact : e.key.scope = t => EntryFresh(t, e.key.gen, e.ans)
    /\ \A e \in sem : e.scope = t => EntryFresh(t, e.gen, e.ans)
    /\ \A r \in Of(t) : AnswerFresh(req[r])

\* No fault is given back, so a full budget means that there was no fault.
BudgetInv == \A f \in Faults : budget[f] <= Budget[f]

FreshInv == budget = Budget => \A t \in Tenants : TenantFresh(t)

-----------------------------------------------------------------------------
(* What a step of handleAsk does to its request and to the caches *)

\* The request keeps what it was asked with.
Same(p, q) ==
    p.scope = q.scope /\ p.filter = q.filter /\ p.gen = q.gen /\ p.floor = q.floor

\* A request at a stage of handleAsk is a full record.
LEMMA AskedAt ==
    ASSUME TypeOK, NEW r \in Requests, req[r] # Idle \/ req[r].at \in Stages
    PROVE  req[r] \in Asked /\ req[r] # Idle
<1>1. Idle.at = "idle"
  BY DEF Idle
<1>2. CASE req[r] \in Asked
  <2>1. req[r].at \in Stages
    BY <1>2 DEF Asked
  <2>2. req[r].at # "idle"
    BY <2>1 DEF Stages
  <2> QED
    BY <1>1, <1>2, <2>2
<1>3. CASE req[r] = Idle
  BY <1>1, <1>3 DEF Stages
<1> QED
  BY <1>2, <1>3 DEF TypeOK

\* What a step of request q may make of it: it ends, it takes the answer of an
\* entry of one of the caches, it goes on without an answer, it computes one
\* from the current content, it ends with an error, or it keeps its own answer,
\* on the way to the caches or without the generated text.
Outcome(q, p) ==
    \/ p = Idle
    \/ /\ p \in Asked /\ Same(p, q)
       /\ \/ /\ q.at = "exact" /\ p.at = "done" /\ p.similar = q.similar
             /\ \E e \in exact : e.key = Key(q) /\ p.ans = e.ans
          \/ /\ p.at = "done" /\ p.similar
             /\ \E e \in sem : Similar(q, e) /\ p.ans = e.ans
          \/ /\ q.at # "done" /\ p.at \in {"embed", "semantic", "retrieve"}
             /\ p.similar = q.similar
          \/ /\ q.at = "retrieve" /\ p.at \in {"generate", "done"} /\ p.similar = q.similar
             /\ p.ans \in Answers /\ (p.at = "generate" => p.ans.kind = "answer")
             /\ p.ans.scope = q.scope /\ p.ans.filter = q.filter /\ p.ans.basis = content
          \/ p.at = "done" /\ p.ans = NoAnswer
          \/ /\ q.at \in {"generate", "set", "store"} /\ p.similar = q.similar
             /\ \/ p.at \in {"set", "store", "done"} /\ p.ans = q.ans
                \/ p.at = "done" /\ p.ans = [q.ans EXCEPT !.kind = "degraded"]

\* What a step of request q may make of the caches.
Stored(q) ==
    /\ \A e \in exact' : e \in exact \/ (q.at = "set" /\ e = [key |-> Key(q), ans |-> q.ans])
    /\ \A e \in sem' : e \in sem \/ (q.at = "store" /\
            e = [scope |-> q.scope, gen |-> q.gen, topic |-> TopicOf[q.query], ans |-> q.ans])

\* Every step of handleAsk is one of those outcomes, and touches nothing else.
LEMMA HandleOutcome ==
    ASSUME TypeOK, ScopeInv, NEW r \in Requests, Handle(r)
    PROVE  /\ req[r] \in Asked /\ req[r] # Idle
           /\ \E p : req' = [req EXCEPT ![r] = p] /\ Outcome(req[r], p)
           /\ Stored(req[r])
           /\ UNCHANGED <<content, finished, gen, asks, budget>>
<1> DEFINE q == req[r]
<1>0. q \in Asked /\ q # Idle
  <2>1. q.at \in Stages
    BY DEF Handle, ExactHit, ExactMiss, Embed, SemanticHit, SemanticMiss, Retrieve, Generate,
           Set, Store, Finish, Stages
  <2> QED
    BY <2>1, AskedAt
<1>1. CASE ExactHit(r)
  <2>1. PICK e \in exact : e.key = Key(q) /\ Respond(r, e.ans)
    BY <1>1 DEF ExactHit
  <2>2. e.ans \in Answers
    BY <2>1 DEF TypeOK, Cached
  <2> DEFINE p == [q EXCEPT !.at = "done", !.ans = e.ans]
  <2>3. p \in Asked /\ Same(p, q) /\ p.at = "done" /\ p.ans = e.ans /\ p.similar = q.similar
    BY <1>0, <2>2 DEF Stages, Asked, Same
  <2>4. req' = [req EXCEPT ![r] = p]
    BY <2>1 DEF Respond
  <2> HIDE DEF p
  <2>5. Outcome(q, p)
    BY <1>1, <2>1, <2>3 DEF ExactHit, Outcome
  <2> QED
    BY <1>0, <1>1, <2>4, <2>5 DEF ExactHit, Stored, index, redis
<1>2. CASE ExactMiss(r)
  <2> DEFINE p == [q EXCEPT !.at = "embed"]
  <2>1. p \in Asked /\ Same(p, q) /\ p.at = "embed" /\ p.similar = q.similar
    BY <1>0 DEF Stages, Asked, Same
  <2>2. req' = [req EXCEPT ![r] = p]
    BY <1>2 DEF ExactMiss, Goto
  <2> HIDE DEF p
  <2>3. Outcome(q, p)
    BY <1>2, <2>1 DEF ExactMiss, Outcome
  <2> QED
    BY <1>0, <1>2, <2>2, <2>3 DEF ExactMiss, Stored, index, redis
<1>3. CASE Embed(r)
  <2>1. PICK p : /\ req' = [req EXCEPT ![r] = p]
                 /\ \/ p = [q EXCEPT !.at = "semantic", !.vec = TRUE]
                    \/ p = [q EXCEPT !.at = "retrieve"]
    BY <1>3 DEF Embed, Goto
  <2>2. /\ p \in Asked /\ Same(p, q) /\ p.similar = q.similar
        /\ p.at \in {"semantic", "retrieve"}
    BY <1>0, <2>1 DEF Stages, Asked, Same
  <2>3. Outcome(q, p)
    BY <1>3, <2>2 DEF Embed, Outcome
  <2> QED
    BY <1>0, <1>3, <2>1, <2>3 DEF Embed, Stored, index, redis
<1>4. CASE SemanticHit(r)
  <2>1. PICK e \in sem :
            /\ Similar(q, e)
            /\ req' = [req EXCEPT ![r] = [@ EXCEPT !.at = "done", !.similar = TRUE,
                                                   !.ans = e.ans]]
    BY <1>4 DEF SemanticHit
  <2>2. e.ans \in Answers
    BY <2>1 DEF TypeOK, Cached
  <2> DEFINE p == [q EXCEPT !.at = "done", !.similar = TRUE, !.ans = e.ans]
  <2>3. p \in Asked /\ Same(p, q) /\ p.at = "done" /\ p.ans = e.ans /\ p.similar
    BY <1>0, <2>2 DEF Stages, Asked, Same
  <2>4. req' = [req EXCEPT ![r] = p]
    BY <2>1
  <2> HIDE DEF p
  <2>5. Outcome(q, p)
    BY <2>1, <2>3 DEF Outcome
  <2> QED
    BY <1>0, <1>4, <2>4, <2>5 DEF SemanticHit, Stored, index, redis
<1>5. CASE SemanticMiss(r)
  <2> DEFINE p == [q EXCEPT !.at = "retrieve"]
  <2>1. p \in Asked /\ Same(p, q) /\ p.at = "retrieve" /\ p.similar = q.similar
    BY <1>0 DEF Stages, Asked, Same
  <2>2. req' = [req EXCEPT ![r] = p]
    BY <1>5 DEF SemanticMiss, Goto
  <2> HIDE DEF p
  <2>3. Outcome(q, p)
    BY <1>5, <2>1 DEF SemanticMiss, Outcome
  <2> QED
    BY <1>0, <1>5, <2>2, <2>3 DEF SemanticMiss, Stored, index, redis
<1>6. CASE Retrieve(r)
  <2>1. PICK x, a : /\ req' = [req EXCEPT ![r] = [q EXCEPT !.at = a, !.ans = x]]
                    /\ \/ x = Answer("answer", q) /\ a = "generate"
                       \/ x = Answer("notfound", q) /\ a = "done"
                       \/ x = NoAnswer /\ a = "done"
    BY <1>6 DEF Retrieve, Respond
  <2>2. \/ /\ x \in Answers /\ x.scope = q.scope /\ x.filter = q.filter /\ x.basis = content
           /\ a \in {"generate", "done"} /\ (a = "generate" => x.kind = "answer")
        \/ x = NoAnswer /\ a = "done"
    BY <1>0, <2>1 DEF Answer, Answers, Asked, TypeOK
  <2> DEFINE p == [q EXCEPT !.at = a, !.ans = x]
  <2>3. p \in Asked /\ Same(p, q) /\ p.at = a /\ p.ans = x /\ p.similar = q.similar
    BY <1>0, <2>2 DEF Stages, Asked, Same
  <2> HIDE DEF p
  <2>4. Outcome(q, p)
    BY <1>6, <2>2, <2>3 DEF Retrieve, Outcome
  <2> QED
    BY <1>0, <1>6, <2>1, <2>4 DEF Retrieve, Stored, index, redis, p
<1>7. CASE Generate(r)
  <2>0. q.ans \in Answers
    BY <1>0, <1>7 DEF Generate, ScopeInv, OwnAnswer, Cached
  <2>1. PICK x, p : /\ req' = [req EXCEPT ![r] = p]
                    /\ \/ p = [q EXCEPT !.at = "set"]
                       \/ /\ p = [q EXCEPT !.at = "done", !.ans = x]
                          /\ x = [q.ans EXCEPT !.kind = "degraded"]
    BY <1>7 DEF Generate, Goto, Respond
  <2>2. [q.ans EXCEPT !.kind = "degraded"] \in Answers
    BY <2>0 DEF Answers
  <2>3. /\ p \in Asked /\ Same(p, q) /\ p.similar = q.similar
        /\ \/ p.at = "set" /\ p.ans = q.ans
           \/ p.at = "done" /\ p.ans = [q.ans EXCEPT !.kind = "degraded"]
    <3>1. CASE p = [q EXCEPT !.at = "set"]
      BY <1>0, <3>1 DEF Stages, Asked, Same
    <3>2. CASE /\ p = [q EXCEPT !.at = "done", !.ans = x]
               /\ x = [q.ans EXCEPT !.kind = "degraded"]
      <4>1. x \in Answers
        BY <2>2, <3>2
      <4> QED
        BY <1>0, <3>2, <4>1 DEF Stages, Asked, Same
    <3> QED
      BY <2>1, <3>1, <3>2
  <2>4. Outcome(q, p)
    BY <1>7, <2>3 DEF Generate, Outcome
  <2> QED
    BY <1>0, <1>7, <2>1, <2>4 DEF Generate, Stored, index, redis
<1>8. CASE Set(r)
  <2>1. PICK a \in {"store", "done"} : req' = [req EXCEPT ![r] = [@ EXCEPT !.at = a]]
    BY <1>8 DEF Set, Goto
  <2> DEFINE p == [q EXCEPT !.at = a]
  <2>2. p \in Asked /\ Same(p, q) /\ p.at = a /\ p.ans = q.ans /\ p.similar = q.similar
    BY <1>0, <2>1 DEF Stages, Asked, Same
  <2> HIDE DEF p
  <2>3. Outcome(q, p)
    BY <1>8, <2>1, <2>2 DEF Set, Outcome
  <2>4. req' = [req EXCEPT ![r] = p]
    BY <2>1 DEF p
  <2>5. Stored(q)
    BY <1>8 DEF Set, Stored
  <2> QED
    BY <1>0, <1>8, <2>3, <2>4, <2>5 DEF Set, index
<1>9. CASE Store(r)
  <2> DEFINE p == [q EXCEPT !.at = "done"]
  <2>2. p \in Asked /\ Same(p, q) /\ p.at = "done" /\ p.ans = q.ans /\ p.similar = q.similar
    BY <1>0 DEF Stages, Asked, Same
  <2>4. req' = [req EXCEPT ![r] = p]
    BY <1>9 DEF Store, Goto
  <2> HIDE DEF p
  <2>3. Outcome(q, p)
    BY <1>9, <2>2 DEF Store, Outcome
  <2>5. Stored(q)
    BY <1>9 DEF Store, Stored, redis
  <2> QED
    BY <1>0, <1>9, <2>3, <2>4, <2>5 DEF Store, index, redis
<1>10. CASE Finish(r)
  <2>1. Outcome(q, Idle)
    BY DEF Outcome
  <2> QED
    BY <1>0, <1>10, <2>1 DEF Finish, Stored, index, redis
<1> QED
  BY <1>1, <1>2, <1>3, <1>4, <1>5, <1>6, <1>7, <1>8, <1>9, <1>10 DEF Handle

\* A request that begins is one of a scope, with the generation it read.
LEMMA BeginOutcome ==
    ASSUME TypeOK, NEW r \in Requests, NEW s \in Scopes, NEW q \in Queries, NEW f \in Filters,
           Begin(r, s, q, f)
    PROVE  \E g \in Nat, p \in Asked :
              /\ req' = [req EXCEPT ![r] = p]
              /\ p.at = "exact" /\ p.scope = s /\ p.gen = g /\ p.floor = finished
              /\ ~p.similar /\ p.ans = NoAnswer
              /\ \/ g = gen[s] /\ UNCHANGED budget
                 \/ Spend("gen")
<1>1. gen[s] \in Nat
  BY AnswerCacheAssumption DEF TypeOK
<1>2. PICK g \in Generation(s) :
          /\ IF g = gen[s] THEN UNCHANGED budget ELSE Spend("gen")
          /\ req' = [req EXCEPT ![r] =
                [at |-> "exact", scope |-> s, query |-> q, filter |-> f, gen |-> g,
                 floor |-> finished, vec |-> FALSE, similar |-> FALSE, ans |-> NoAnswer]]
  BY DEF Begin
<1>3. g \in Nat
  BY <1>1, <1>2 DEF Generation
<1> DEFINE p == [at |-> "exact", scope |-> s, query |-> q, filter |-> f, gen |-> g,
                 floor |-> finished, vec |-> FALSE, similar |-> FALSE, ans |-> NoAnswer]
<1>4. /\ p \in Asked /\ p.at = "exact" /\ p.scope = s /\ p.gen = g /\ p.floor = finished
      /\ ~p.similar /\ p.ans = NoAnswer
  BY <1>3 DEF Asked, Stages, TypeOK
<1>5. req' = [req EXCEPT ![r] = p]
  BY <1>2
<1> HIDE DEF p
<1> QED
  BY <1>2, <1>3, <1>4, <1>5

-----------------------------------------------------------------------------
(* Type correctness, tenant isolation and filter isolation *)

\* The stores start empty and nothing is in progress.
LEMMA InitTypeOK == Init => TypeOK
BY AnswerCacheAssumption DEF Init, TypeOK, Idle

\* A counter of faults that is spent stays a natural number, and is lower.
LEMMA SpendTyped ==
    ASSUME TypeOK, NEW f \in Faults, Spend(f)
    PROVE  budget' \in [Faults -> Nat] /\ budget'[f] = budget[f] - 1
BY DEF TypeOK, Spend

\* Every step keeps the types; that only generated answers are cached needs what
\* ScopeInv says of a request on its way to the caches.
LEMMA StepTypeOK == TypeOK /\ ScopeInv /\ [Next]_vars => TypeOK'
<1> SUFFICES ASSUME TypeOK, ScopeInv, [Next]_vars PROVE TypeOK'
  OBVIOUS
<1>1. ASSUME NEW t \in Tenants, Write(t) PROVE TypeOK'
  BY <1>1 DEF Write, TypeOK, redis
<1>2. ASSUME NEW t \in Tenants, Bump(t) PROVE TypeOK'
  BY <1>2 DEF Bump, TypeOK
<1>3. CASE RedisRestart
  <2>1. budget' \in [Faults -> Nat]
    BY <1>3, SpendTyped DEF RedisRestart, Faults
  <2>2. gen' \in [Tenants \cup {Global} -> Nat]
    BY <1>3 DEF RedisRestart, TypeOK
  <2> QED
    BY <1>3, <2>1, <2>2 DEF RedisRestart, TypeOK, index
<1>4. ASSUME NEW r \in Requests, NEW s \in Scopes, NEW q \in Queries, NEW f \in Filters,
             Begin(r, s, q, f)
      PROVE  TypeOK'
  <2>1. PICK p \in Asked : /\ req' = [req EXCEPT ![r] = p]
                           /\ UNCHANGED budget \/ Spend("gen")
    BY <1>4, BeginOutcome
  <2>2. req' \in [Requests -> Asked \cup {Idle}]
    BY <2>1 DEF TypeOK
  <2>3. budget' \in [Faults -> Nat]
    BY <2>1, SpendTyped DEF TypeOK, Faults
  <2>4. asks' \in 0..MaxAsks
    BY <1>4, AnswerCacheAssumption DEF Begin, TypeOK
  <2> QED
    BY <1>4, <2>2, <2>3, <2>4 DEF Begin, TypeOK, index, redis
<1>5. ASSUME NEW r \in Requests, Handle(r) PROVE TypeOK'
  <2> DEFINE q == req[r]
  <2>1. /\ q \in Asked /\ q # Idle /\ Stored(q)
        /\ UNCHANGED <<content, finished, gen, asks, budget>>
    BY <1>5, HandleOutcome
  <2>2. PICK p : req' = [req EXCEPT ![r] = p] /\ Outcome(q, p)
    BY <1>5, HandleOutcome
  <2>3. p \in Asked \cup {Idle}
    BY <2>2 DEF Outcome
  <2>4. req' \in [Requests -> Asked \cup {Idle}]
    BY <2>2, <2>3 DEF TypeOK
  <2>5. q.at \in {"set", "store"} => q.ans \in Cached
    BY <2>1 DEF ScopeInv, OwnAnswer
  <2>6. q.scope \in Scopes /\ q.gen \in Nat /\ q.query \in Queries /\ q.filter \in Filters
    BY <2>1 DEF Asked
  <2>7. ASSUME NEW e \in exact' PROVE e \in [key : Keys, ans : Cached]
    <3>1. CASE e \in exact
      BY <3>1 DEF TypeOK
    <3>2. CASE q.at = "set" /\ e = [key |-> Key(q), ans |-> q.ans]
      <4>1. Key(q) \in Keys
        BY <2>6 DEF Key, Keys
      <4> QED
        BY <2>5, <3>2, <4>1
    <3> QED
      BY <2>1, <3>1, <3>2 DEF Stored
  <2>8. ASSUME NEW e \in sem'
        PROVE  e \in [scope : Scopes, gen : Nat, topic : {TopicOf[z] : z \in Queries},
                      ans : Cached]
    <3>1. CASE e \in sem
      BY <3>1 DEF TypeOK
    <3>2. CASE /\ q.at = "store"
               /\ e = [scope |-> q.scope, gen |-> q.gen, topic |-> TopicOf[q.query],
                       ans |-> q.ans]
      BY <2>5, <2>6, <3>2
    <3> QED
      BY <2>1, <3>1, <3>2 DEF Stored
  <2> QED
    BY <2>1, <2>4, <2>7, <2>8 DEF TypeOK
<1>6. CASE UNCHANGED vars
  BY <1>6 DEF vars, TypeOK
<1> QED
  BY <1>1, <1>2, <1>3, <1>4, <1>5, <1>6 DEF Next

\* A tenant sees nothing but its own documents, the open mode everything.
LEMMA SeesItself ==
    ASSUME NEW s \in Scopes, NEW a \in Scopes, s = Global \/ a = s
    PROVE  Sees(a) \subseteq Sees(s)
BY AnswerCacheAssumption DEF Sees

\* The step of a request that keeps to an outcome keeps what isolation rests on.
LEMMA OutcomeScope ==
    ASSUME TypeOK, ScopeInv, NEW r \in Requests, req[r] \in Asked, req[r] # Idle,
           NEW p, Outcome(req[r], p), p # Idle
    PROVE  /\ OwnAnswer(p)
           /\ p.at = "done" /\ p.ans # NoAnswer =>
                /\ Sees(p.ans.scope) \subseteq Sees(p.scope)
                /\ ~p.similar => p.ans.filter = p.filter
<1> DEFINE q == req[r]
<1>0. p \in Asked /\ Same(p, q) /\ OwnAnswer(q) /\ q.scope \in Scopes
  BY DEF Outcome, ScopeInv, Asked
<1>1. CASE /\ q.at = "exact" /\ p.at = "done" /\ p.similar = q.similar
           /\ \E e \in exact : e.key = Key(q) /\ p.ans = e.ans
  <2>1. PICK e \in exact : e.key = Key(q) /\ p.ans = e.ans
    BY <1>1
  <2>2. e.ans.scope = q.scope /\ e.ans.filter = q.filter
    BY <2>1 DEF ScopeInv, EntriesOwned, Key
  <2>3. Sees(p.ans.scope) \subseteq Sees(p.scope)
    BY <1>0, <2>1, <2>2, SeesItself DEF Same
  <2> QED
    BY <1>0, <1>1, <2>1, <2>2, <2>3 DEF OwnAnswer, Same
<1>2. CASE /\ p.at = "done" /\ p.similar
           /\ \E e \in sem : Similar(q, e) /\ p.ans = e.ans
  <2>1. PICK e \in sem : Similar(q, e) /\ p.ans = e.ans
    BY <1>2
  <2>2. e.ans.scope = e.scope /\ (q.scope # Global => e.scope = q.scope) /\ e.scope \in Scopes
    BY <2>1 DEF ScopeInv, EntriesOwned, Similar, TypeOK
  <2>3. Sees(p.ans.scope) \subseteq Sees(p.scope)
    BY <1>0, <2>1, <2>2, SeesItself DEF Same
  <2> QED
    BY <1>2, <2>3 DEF OwnAnswer
<1>3. CASE /\ q.at # "done" /\ p.at \in {"embed", "semantic", "retrieve"}
           /\ p.similar = q.similar
  BY <1>0, <1>3 DEF OwnAnswer
<1>4. CASE /\ q.at = "retrieve" /\ p.at \in {"generate", "done"} /\ p.similar = q.similar
           /\ p.ans \in Answers /\ (p.at = "generate" => p.ans.kind = "answer")
           /\ p.ans.scope = q.scope /\ p.ans.filter = q.filter /\ p.ans.basis = content
  <2>3. Sees(p.ans.scope) \subseteq Sees(p.scope)
    BY <1>0, <1>4, SeesItself DEF Same
  <2> QED
    BY <1>0, <1>4, <2>3 DEF OwnAnswer, Same, Cached
<1>5. CASE p.at = "done" /\ p.ans = NoAnswer
  BY <1>5 DEF OwnAnswer
<1>6. CASE /\ q.at \in {"generate", "set", "store"} /\ p.similar = q.similar
           /\ \/ p.at \in {"set", "store", "done"} /\ p.ans = q.ans
              \/ p.at = "done" /\ p.ans = [q.ans EXCEPT !.kind = "degraded"]
  <2>1. q.ans \in Cached /\ q.ans.scope = q.scope /\ q.ans.filter = q.filter /\ ~q.similar
    BY <1>0, <1>6 DEF OwnAnswer
  <2>2. p.ans.scope = q.scope /\ p.ans.filter = q.filter
    BY <1>6, <2>1 DEF Cached, Answers
  <2>3. Sees(p.ans.scope) \subseteq Sees(p.scope)
    BY <1>0, <2>2, SeesItself DEF Same
  <2> QED
    BY <1>0, <1>6, <2>1, <2>2, <2>3 DEF OwnAnswer, Same
<1> QED
  BY <1>1, <1>2, <1>3, <1>4, <1>5, <1>6 DEF Outcome

\* Nothing is cached and nobody is answered at the start.
LEMMA InitScopeInv == Init => ScopeInv
BY DEF Init, ScopeInv, EntriesOwned, Isolation, FiltersRespected, Answered, Idle

\* Every step keeps answers under the scope and the filters they were made for.
LEMMA StepScopeInv == TypeOK /\ ScopeInv /\ [Next]_vars => ScopeInv'
<1> SUFFICES ASSUME TypeOK, ScopeInv, [Next]_vars PROVE ScopeInv'
  OBVIOUS
<1> USE DEF ScopeInv, EntriesOwned, Isolation, FiltersRespected, Answered
<1>1. CASE UNCHANGED <<exact, sem, req>>
  BY <1>1 DEF OwnAnswer
<1>2. ASSUME NEW t \in Tenants, Write(t) \/ Bump(t) PROVE ScopeInv'
  BY <1>1, <1>2 DEF Write, Bump, redis
<1>3. CASE RedisRestart
  BY <1>3 DEF RedisRestart, OwnAnswer
<1>4. ASSUME NEW r \in Requests, NEW s \in Scopes, NEW q \in Queries, NEW f \in Filters,
             Begin(r, s, q, f)
      PROVE  ScopeInv'
  <2>1. PICK p \in Asked : /\ req' = [req EXCEPT ![r] = p] /\ p.at = "exact" /\ ~p.similar
    BY <1>4, BeginOutcome
  <2>2. \A x \in Requests : req'[x] = IF x = r THEN p ELSE req[x]
    BY <2>1 DEF TypeOK
  <2>3. OwnAnswer(p)
    BY <2>1 DEF OwnAnswer
  <2>4. \A x \in Requests : req'[x] # Idle => OwnAnswer(req'[x])
    BY <2>2, <2>3
  <2>5. \A x \in Requests : req'[x].at = "done" => x # r /\ req[x].at = "done"
    BY <2>1, <2>2
  <2>6. Isolation' /\ FiltersRespected'
    BY <2>2, <2>5 DEF Sees
  <2>7. UNCHANGED <<exact, sem>>
    BY <1>4 DEF Begin, redis
  <2> QED
    BY <2>4, <2>6, <2>7 DEF OwnAnswer
<1>5. ASSUME NEW r \in Requests, Handle(r) PROVE ScopeInv'
  <2> DEFINE q == req[r]
  <2>1. q \in Asked /\ q # Idle /\ Stored(q)
    BY <1>5, HandleOutcome
  <2>2. PICK p : req' = [req EXCEPT ![r] = p] /\ Outcome(q, p)
    BY <1>5, HandleOutcome
  <2>3. \A x \in Requests : req'[x] = IF x = r THEN p ELSE req[x]
    BY <2>2 DEF TypeOK
  <2>4. EntriesOwned'
    <3>1. q.at \in {"set", "store"} => q.ans.scope = q.scope /\ q.ans.filter = q.filter
      BY <2>1 DEF OwnAnswer
    <3>2. \A e \in exact' : e.ans.scope = e.key.scope /\ e.ans.filter = e.key.filter
      BY <2>1, <3>1 DEF Stored, Key
    <3>3. \A e \in sem' : e.ans.scope = e.scope
      BY <2>1, <3>1 DEF Stored
    <3> QED
      BY <3>2, <3>3
  <2>5. p # Idle =>
          /\ OwnAnswer(p)
          /\ p.at = "done" /\ p.ans # NoAnswer =>
               /\ Sees(p.ans.scope) \subseteq Sees(p.scope)
               /\ ~p.similar => p.ans.filter = p.filter
    BY <2>1, <2>2, OutcomeScope
  <2>6. p = Idle => p.at # "done"
    BY DEF Idle
  <2>7. \A x \in Requests : req'[x] # Idle => OwnAnswer(req'[x])
    BY <2>3, <2>5
  <2>8. Isolation'
    <3> SUFFICES ASSUME NEW x \in Requests, req'[x].at = "done", req'[x].ans # NoAnswer
                 PROVE  Sees(req'[x].ans.scope) \subseteq Sees(req'[x].scope)
      BY DEF Sees
    <3>1. CASE x = r
      BY <2>3, <2>5, <2>6, <3>1
    <3>2. CASE x # r
      BY <2>3, <3>2
    <3> QED
      BY <3>1, <3>2
  <2>9. FiltersRespected'
    BY <2>3, <2>5, <2>6
  <2> QED
    BY <2>4, <2>7, <2>8, <2>9 DEF OwnAnswer
<1>6. CASE UNCHANGED vars
  BY <1>1, <1>6 DEF vars
<1> QED
  BY <1>2, <1>3, <1>4, <1>5, <1>6 DEF Next

\* The scope of the answers, kept together with the types.
LEMMA ScopesKept == Spec => [](TypeOK /\ ScopeInv)
<1>1. Init => TypeOK /\ ScopeInv
  BY InitTypeOK, InitScopeInv
<1>2. TypeOK /\ ScopeInv /\ [Next]_vars => TypeOK' /\ ScopeInv'
  BY StepTypeOK, StepScopeInv
<1> QED
  BY <1>1, <1>2, PTL DEF Spec

\* Type correctness of the caches and of the requests in progress: in particular
\* no response without a generated answer is ever cached.
THEOREM AnswerCacheTypes == Spec => []TypeOK
BY ScopesKept, PTL

\* Tenant isolation: whichever cache serves a request of handleAsk, and however
\* many requests overlap, the answer was computed from documents its tenant may see.
THEOREM TenantIsolation == Spec => []Isolation
<1>1. ScopeInv => Isolation
  BY DEF ScopeInv
<1> QED
  BY <1>1, ScopesKept, PTL

\* Filter isolation: unless it is a paraphrase's, an answer was computed under
\* the filters of the request that is given it.
THEOREM FilterIsolation == Spec => []FiltersRespected
<1>1. ScopeInv => FiltersRespected
  BY DEF ScopeInv
<1> QED
  BY <1>1, ScopesKept, PTL

-----------------------------------------------------------------------------
(* Freshness *)

\* A fault lowers its counter, so that the budget is not full after it.
LEMMA FaultSpends ==
    ASSUME TypeOK, BudgetInv, NEW f \in Faults, Spend(f)
    PROVE  budget' # Budget /\ BudgetInv'
<1>1. budget' = [budget EXCEPT ![f] = @ - 1] /\ budget \in [Faults -> Nat]
  BY DEF Spend, TypeOK
<1>2. Budget \in [Faults -> Nat]
  BY AnswerCacheAssumption
<1>3. \A x \in Faults : budget[x] \in Nat /\ Budget[x] \in Nat /\ budget[x] <= Budget[x]
  BY <1>1, <1>2 DEF BudgetInv
<1>4. \A x \in Faults : budget'[x] = IF x = f THEN budget[x] - 1 ELSE budget[x]
  BY <1>1
<1>5. \A x \in Faults : budget'[x] <= Budget[x]
  BY <1>3, <1>4
<1>6. budget'[f] # Budget[f]
  BY <1>3, <1>4
<1> QED
  BY <1>5, <1>6 DEF BudgetInv

\* Only a restart of Redis and a generation that is not read are faults.
LEMMA StepBudget ==
    ASSUME TypeOK, ScopeInv, BudgetInv, [Next]_vars
    PROVE  BudgetInv' /\ (budget' = Budget => UNCHANGED budget /\ ~RedisRestart)
<1>0. ASSUME UNCHANGED budget PROVE BudgetInv'
  BY <1>0 DEF BudgetInv
<1>1. ASSUME NEW t \in Tenants, Write(t) \/ Bump(t) PROVE UNCHANGED budget
  BY <1>1 DEF Write, Bump
<1>3. CASE RedisRestart
  BY <1>3, FaultSpends DEF RedisRestart, Faults
<1>4. ASSUME NEW r \in Requests, NEW s \in Scopes, NEW q \in Queries, NEW f \in Filters,
             Begin(r, s, q, f)
      PROVE  UNCHANGED budget \/ Spend("gen")
  BY <1>4, BeginOutcome
<1>5. ASSUME NEW r \in Requests, Handle(r) PROVE UNCHANGED budget
  BY <1>5, HandleOutcome
<1>6. ASSUME UNCHANGED vars PROVE UNCHANGED budget
  BY <1>6 DEF vars
<1>7. RedisRestart => budget' # Budget
  BY FaultSpends DEF RedisRestart, Faults
<1>8. Spend("gen") => budget' # Budget /\ BudgetInv'
  BY FaultSpends DEF Faults
<1> QED
  BY <1>0, <1>1, <1>3, <1>4, <1>5, <1>6, <1>7, <1>8 DEF Next

\* The types of what freshness compares.
LEMMA FreshTypes ==
    ASSUME TypeOK, NEW t \in Tenants
    PROVE  /\ gen[t] \in Nat /\ finished[t] \in Nat /\ content[t] \in Nat
           /\ finished[t] <= content[t]
           /\ \A r \in Of(t) : req[r] \in Asked /\ req[r].gen \in Nat /\ req[r].floor[t] \in Nat
           /\ \A e \in exact : e.key.gen \in Nat /\ e.ans.basis[t] \in Nat
           /\ \A e \in sem : e.gen \in Nat /\ e.ans.basis[t] \in Nat
<1>1. gen[t] \in Nat /\ finished[t] \in Nat /\ content[t] \in Nat /\ finished[t] <= content[t]
  BY DEF TypeOK
<1>2. ASSUME NEW r \in Of(t)
      PROVE  req[r] \in Asked /\ req[r].gen \in Nat /\ req[r].floor[t] \in Nat
  <2>1. req[r] \in Asked
    BY <1>2, AskedAt DEF Of
  <2> QED
    BY <2>1 DEF Asked
<1>3. ASSUME NEW e \in exact PROVE e.key.gen \in Nat /\ e.ans.basis[t] \in Nat
  BY <1>3 DEF TypeOK, Keys, Cached, Answers
<1>4. ASSUME NEW e \in sem PROVE e.gen \in Nat /\ e.ans.basis[t] \in Nat
  BY <1>4 DEF TypeOK, Cached, Answers
<1> QED
  BY <1>1, <1>2, <1>3, <1>4

\* A bump moves its tenant to a generation no request and no entry has yet.
LEMMA BumpFresh ==
    ASSUME TypeOK, NEW t \in Tenants, TenantFresh(t), NEW u \in Tenants, Bump(u)
    PROVE  TenantFresh(t)'
<1>0. UNCHANGED <<exact, sem, req>> /\ Of(t)' = Of(t)
  BY DEF Bump, Of
<1>1. CASE u # t
  <2>1. gen'[t] = gen[t] /\ finished'[t] = finished[t]
    BY <1>1 DEF Bump, TypeOK
  <2> QED
    BY <1>0, <2>1 DEF TenantFresh, GenerationRead, FloorByGeneration, EntryFresh, AnswerFresh
<1>2. CASE u = t
  <2>1. gen'[t] = gen[t] + 1 /\ finished'[t] = content[t]
    BY <1>2 DEF Bump, TypeOK
  <2>2. GenerationRead(t)'
    BY <1>0, <2>1, FreshTypes DEF TenantFresh, GenerationRead
  <2>3. FloorByGeneration(t)'
    BY <1>0 DEF TenantFresh, FloorByGeneration
  <2>4. \A e \in exact : e.key.scope = t => EntryFresh(t, e.key.gen, e.ans)'
    BY <1>0, <2>1, FreshTypes DEF TenantFresh, EntryFresh
  <2>5. \A e \in sem : e.scope = t => EntryFresh(t, e.gen, e.ans)'
    BY <1>0, <2>1, FreshTypes DEF TenantFresh, EntryFresh
  <2>6. \A r \in Of(t) : AnswerFresh(req[r])
    BY DEF TenantFresh
  <2> QED
    BY <1>0, <2>2, <2>3, <2>4, <2>5, <2>6 DEF TenantFresh, AnswerFresh
<1> QED
  BY <1>1, <1>2

\* A request that reads the current generation has to reflect what is announced,
\* and so does every entry and every other request of that generation.
LEMMA BeginFresh ==
    ASSUME TypeOK, NEW t \in Tenants, TenantFresh(t), NEW r \in Requests, NEW p \in Asked,
           req[r] = Idle, req' = [req EXCEPT ![r] = p],
           p.at = "exact", p.gen = gen[p.scope], p.floor = finished,
           UNCHANGED <<gen, finished, exact, sem>>
    PROVE  TenantFresh(t)'
<1>1. \A x \in Requests : req'[x] = IF x = r THEN p ELSE req[x]
  BY DEF TypeOK
<1>2. ASSUME NEW x \in Of(t)'
      PROVE  (x \in Of(t) /\ req'[x] = req[x]) \/ (x = r /\ req'[x] = p /\ p.scope = t)
  <2>1. x \in Requests /\ req'[x] # Idle /\ req'[x].scope = t
    BY DEF Of
  <2>2. CASE x = r
    BY <1>1, <2>1, <2>2
  <2>3. CASE x # r
    BY <1>1, <2>1, <2>3 DEF Of
  <2> QED
    BY <2>2, <2>3
<1>3. GenerationRead(t)'
  BY <1>2, FreshTypes DEF TenantFresh, GenerationRead
<1>4. FloorByGeneration(t)'
  BY <1>2, FreshTypes DEF TenantFresh, GenerationRead, FloorByGeneration
<1>5. \A e \in exact : e.key.scope = t => EntryFresh(t, e.key.gen, e.ans)'
  BY <1>2, FreshTypes DEF TenantFresh, EntryFresh
<1>6. \A e \in sem : e.scope = t => EntryFresh(t, e.gen, e.ans)'
  BY <1>2, FreshTypes DEF TenantFresh, EntryFresh
<1>7. \A x \in Of(t)' : AnswerFresh(req'[x])
  <2>1. AnswerFresh(p)
    BY DEF AnswerFresh
  <2> QED
    BY <1>2, <2>1 DEF TenantFresh
<1> QED
  BY <1>3, <1>4, <1>5, <1>6, <1>7 DEF TenantFresh, AnswerFresh

\* The answer a request ends up with is fresh: what it computes reflects the
\* content of that moment, what it takes from a cache was stored under its
\* generation.
LEMMA OutcomeFresh ==
    ASSUME TypeOK, ScopeInv, NEW t \in Tenants, TenantFresh(t), NEW r \in Of(t),
           NEW p, Outcome(req[r], p), p # Idle
    PROVE  AnswerFresh(p)
<1> DEFINE q == req[r]
<1>0. /\ Same(p, q) /\ q.scope = t /\ AnswerFresh(q) /\ r \in Requests /\ OwnAnswer(q)
      /\ q.floor[t] <= finished[t] /\ q.floor[t] \in Nat
  BY FreshTypes DEF Outcome, TenantFresh, Of, ScopeInv, GenerationRead
<1>t. t # Global
  BY AnswerCacheAssumption
<1>1. CASE /\ q.at = "exact" /\ p.at = "done" /\ p.similar = q.similar
           /\ \E e \in exact : e.key = Key(q) /\ p.ans = e.ans
  <2>1. PICK e \in exact : e.key = Key(q) /\ p.ans = e.ans
    BY <1>1
  <2>2. e.key.scope = t /\ e.key.gen = q.gen
    BY <1>0, <2>1 DEF Key
  <2>3. e.ans.basis[t] >= q.floor[t]
    BY <2>2 DEF TenantFresh, EntryFresh
  <2> QED
    BY <1>0, <2>1, <2>3 DEF AnswerFresh, Same
<1>2. CASE /\ p.at = "done" /\ p.similar
           /\ \E e \in sem : Similar(q, e) /\ p.ans = e.ans
  <2>1. PICK e \in sem : Similar(q, e) /\ p.ans = e.ans
    BY <1>2
  <2>2. e.scope = t /\ e.gen = q.gen
    BY <1>0, <1>t, <2>1 DEF Similar
  <2>3. e.ans.basis[t] >= q.floor[t]
    BY <2>2 DEF TenantFresh, EntryFresh
  <2> QED
    BY <1>0, <2>1, <2>3 DEF AnswerFresh, Same
<1>3. CASE /\ q.at # "done" /\ p.at \in {"embed", "semantic", "retrieve"}
           /\ p.similar = q.similar
  BY <1>3 DEF AnswerFresh
<1>4. CASE /\ q.at = "retrieve" /\ p.at \in {"generate", "done"} /\ p.similar = q.similar
           /\ p.ans \in Answers /\ (p.at = "generate" => p.ans.kind = "answer")
           /\ p.ans.scope = q.scope /\ p.ans.filter = q.filter /\ p.ans.basis = content
  BY <1>0, <1>4, FreshTypes DEF AnswerFresh, Same
<1>5. CASE p.at = "done" /\ p.ans = NoAnswer
  BY <1>5 DEF AnswerFresh
<1>6. CASE /\ q.at \in {"generate", "set", "store"} /\ p.similar = q.similar
           /\ \/ p.at \in {"set", "store", "done"} /\ p.ans = q.ans
              \/ p.at = "done" /\ p.ans = [q.ans EXCEPT !.kind = "degraded"]
  <2>1. q.ans \in Answers /\ q.ans.kind = "answer"
    BY <1>0, <1>6 DEF OwnAnswer, Cached
  <2>2. q.ans # NoAnswer
    BY <2>1 DEF NoAnswer
  <2>3. p.ans.basis = q.ans.basis
    BY <1>6, <2>1 DEF Answers
  <2> QED
    BY <1>0, <1>6, <2>2, <2>3 DEF AnswerFresh, Same
<1> QED
  BY <1>1, <1>2, <1>3, <1>4, <1>5, <1>6 DEF Outcome

\* An answer a request puts into a cache is fresh for every request that reads
\* the generation it was stored under.
LEMMA StoredFresh ==
    ASSUME TypeOK, ScopeInv, NEW t \in Tenants, TenantFresh(t), NEW r \in Of(t),
           req[r].at \in {"set", "store"}
    PROVE  EntryFresh(t, req[r].gen, req[r].ans)
<1> DEFINE q == req[r]
<1>1. q.ans # NoAnswer /\ q.ans.basis[t] \in Nat
  BY DEF Of, ScopeInv, OwnAnswer, Cached, Answers, NoAnswer
<1>2. q.ans.basis[t] >= q.floor[t]
  BY <1>1 DEF TenantFresh, AnswerFresh, Of
<1>3. q.gen <= gen[t] /\ (q.gen = gen[t] => q.ans.basis[t] >= finished[t])
  BY <1>2 DEF TenantFresh, GenerationRead
<1>4. \A x \in Of(t) : req[x].gen = q.gen => q.ans.basis[t] >= req[x].floor[t]
  BY <1>2 DEF TenantFresh, FloorByGeneration
<1> QED
  BY <1>3, <1>4 DEF EntryFresh

\* Every step of handleAsk keeps freshness.
LEMMA HandleFresh ==
    ASSUME TypeOK, ScopeInv, NEW t \in Tenants, TenantFresh(t), NEW r \in Requests, Handle(r)
    PROVE  TenantFresh(t)'
<1> DEFINE q == req[r]
<1>1. /\ q \in Asked /\ q # Idle /\ Stored(q)
      /\ UNCHANGED <<content, finished, gen, asks, budget>>
  BY HandleOutcome
<1>2. PICK p : req' = [req EXCEPT ![r] = p] /\ Outcome(q, p)
  BY HandleOutcome
<1>3. \A x \in Requests : req'[x] = IF x = r THEN p ELSE req[x]
  BY <1>2 DEF TypeOK
<1>4. p # Idle => Same(p, q)
  BY <1>2 DEF Outcome
<1>5. \A x \in Of(t)' : /\ x \in Of(t) /\ req'[x].gen = req[x].gen
                        /\ req'[x].floor = req[x].floor
  BY <1>1, <1>3, <1>4 DEF Of, Same
<1>6. GenerationRead(t)'
  BY <1>1, <1>5 DEF TenantFresh, GenerationRead
<1>7. FloorByGeneration(t)'
  BY <1>5 DEF TenantFresh, FloorByGeneration
<1>8. ASSUME NEW g, NEW a, EntryFresh(t, g, a) PROVE EntryFresh(t, g, a)'
  BY <1>1, <1>5, <1>8 DEF EntryFresh
<1>9. ASSUME NEW e \in exact', e.key.scope = t PROVE EntryFresh(t, e.key.gen, e.ans)'
  <2>1. CASE e \in exact
    BY <1>8, <1>9, <2>1 DEF TenantFresh
  <2>2. CASE q.at = "set" /\ e = [key |-> Key(q), ans |-> q.ans]
    <3>1. q.scope = t /\ e.key.gen = q.gen /\ e.ans = q.ans
      BY <1>9, <2>2 DEF Key
    <3>2. EntryFresh(t, q.gen, q.ans)
      BY <1>1, <2>2, <3>1, StoredFresh DEF Of
    <3> QED
      BY <1>8, <3>1, <3>2
  <2> QED
    BY <1>1, <2>1, <2>2 DEF Stored
<1>10. ASSUME NEW e \in sem', e.scope = t PROVE EntryFresh(t, e.gen, e.ans)'
  <2>1. CASE e \in sem
    BY <1>8, <1>10, <2>1 DEF TenantFresh
  <2>2. CASE /\ q.at = "store"
             /\ e = [scope |-> q.scope, gen |-> q.gen, topic |-> TopicOf[q.query],
                     ans |-> q.ans]
    <3>1. q.scope = t /\ e.gen = q.gen /\ e.ans = q.ans
      BY <1>10, <2>2
    <3>2. EntryFresh(t, q.gen, q.ans)
      BY <1>1, <2>2, <3>1, StoredFresh DEF Of
    <3> QED
      BY <1>8, <3>1, <3>2
  <2> QED
    BY <1>1, <2>1, <2>2 DEF Stored
<1>11. ASSUME NEW x \in Of(t)' PROVE AnswerFresh(req'[x])
  <2>1. CASE x = r
    <3>1. r \in Of(t) /\ p # Idle /\ req'[x] = p
      BY <1>3, <1>5, <1>11, <2>1 DEF Of
    <3> QED
      BY <1>2, <3>1, OutcomeFresh
  <2>2. CASE x # r
    <3>1. x \in Of(t) /\ req'[x] = req[x]
      BY <1>3, <1>5, <1>11, <2>2 DEF Of
    <3> QED
      BY <3>1 DEF TenantFresh
  <2> QED
    BY <2>1, <2>2
<1> QED
  BY <1>6, <1>7, <1>9, <1>10, <1>11 DEF TenantFresh, AnswerFresh

\* Every step keeps freshness as long as there is no fault.
LEMMA StepFresh ==
    ASSUME TypeOK, ScopeInv, BudgetInv, FreshInv, [Next]_vars
    PROVE  FreshInv'
<1> SUFFICES ASSUME budget' = Budget, NEW t \in Tenants PROVE TenantFresh(t)'
  BY DEF FreshInv
<1>0. budget = Budget /\ UNCHANGED budget /\ ~RedisRestart
  BY StepBudget
<1>1. TenantFresh(t)
  BY <1>0 DEF FreshInv
<1>2. ASSUME UNCHANGED <<finished, gen, exact, sem, req>> PROVE TenantFresh(t)'
  BY <1>1, <1>2 DEF TenantFresh, GenerationRead, FloorByGeneration, EntryFresh, AnswerFresh, Of
<1>3. ASSUME NEW u \in Tenants, Write(u) PROVE TenantFresh(t)'
  BY <1>2, <1>3 DEF Write, redis
<1>4. ASSUME NEW u \in Tenants, Bump(u) PROVE TenantFresh(t)'
  BY <1>1, <1>4, BumpFresh
<1>5. ASSUME NEW r \in Requests, NEW s \in Scopes, NEW q \in Queries, NEW f \in Filters,
             Begin(r, s, q, f)
      PROVE  TenantFresh(t)'
  <2>1. ~Spend("gen")
    BY FaultSpends DEF Faults
  <2>2. PICK p \in Asked :
            /\ req' = [req EXCEPT ![r] = p]
            /\ p.at = "exact" /\ p.gen = gen[p.scope] /\ p.floor = finished
    BY <1>5, <2>1, BeginOutcome
  <2>3. req[r] = Idle /\ UNCHANGED <<gen, finished, exact, sem>>
    BY <1>5 DEF Begin, index, redis
  <2> QED
    BY <1>1, <2>2, <2>3, BeginFresh
<1>6. ASSUME NEW r \in Requests, Handle(r) PROVE TenantFresh(t)'
  BY <1>1, <1>6, HandleFresh
<1>7. CASE UNCHANGED vars
  BY <1>2, <1>7 DEF vars
<1> QED
  BY <1>0, <1>3, <1>4, <1>5, <1>6, <1>7 DEF Next

\* Freshness: while Redis answers and keeps its counters, no request of a tenant
\* is given an answer older than the writes whose apply had bumped the tenant's
\* generation when handleAsk read it, whoever computed and cached the answer.
THEOREM Freshness == Spec => []Fresh
<1> DEFINE Inv == TypeOK /\ ScopeInv /\ BudgetInv /\ FreshInv
<1>1. Init => Inv
  <2>1. Init => BudgetInv
    BY AnswerCacheAssumption DEF Init, BudgetInv
  <2>2. Init => FreshInv
    BY DEF Init, FreshInv, TenantFresh, GenerationRead, FloorByGeneration, Of
  <2> QED
    BY <2>1, <2>2, InitTypeOK, InitScopeInv
<1>2. Inv /\ [Next]_vars => Inv'
  BY StepTypeOK, StepScopeInv, StepBudget, StepFresh
<1>3. Inv => Fresh
  <2> SUFFICES ASSUME Inv, budget = Budget, NEW r \in Answered, req[r].scope \in Tenants
               PROVE  UpToDate(r)
    BY DEF Fresh
  <2>1. req[r] # Idle /\ r \in Requests /\ req[r].at = "done" /\ req[r].ans # NoAnswer
    BY DEF Answered, Idle
  <2>2. AnswerFresh(req[r])
    BY <2>1 DEF FreshInv, TenantFresh, Of
  <2>3. req[r].scope # Global
    BY AnswerCacheAssumption
  <2> QED
    BY <2>1, <2>2, <2>3 DEF AnswerFresh, UpToDate, Sees
<1> QED
  BY <1>1, <1>2, <1>3, PTL DEF Spec
=============================================================================
