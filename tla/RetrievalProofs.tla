--------------------------- MODULE RetrievalProofs ---------------------------
(***************************************************************************)
(* What the steps of a retrieval and of the indexer next to it preserve,    *)
(* for any documents, stores, filters and limits.  AskProofs draws the      *)
(* theorems about the whole handler from it.                                *)
(***************************************************************************)
EXTENDS Retrieval, FiniteSetTheorems, SequenceTheorems, TLAPS

-----------------------------------------------------------------------------
(* The operators *)

\* A permutation of a finite set lists each of its elements once.
LEMMA PermutationIs ==
    ASSUME NEW S, IsFiniteSet(S), NEW s \in SetToSeqs(S)
    PROVE  /\ s \in Seq(S) /\ Len(s) = Cardinality(S) /\ Cardinality(S) \in Nat
           /\ DOMAIN s = 1..Cardinality(S)
           /\ IsInjective(s) /\ Range(s) = S
<1> DEFINE D == 1..Cardinality(S)
<1>1. Cardinality(S) \in Nat
  BY FS_CardinalityType
<1>2. s \in [D -> S] /\ IsInjective(s)
  BY DEF SetToSeqs, IsInjective
<1>3. IsFiniteSet(D) /\ Cardinality(D) = Cardinality(S)
  BY <1>1, FS_Interval
<1>4. s \in Injection(D, S)
  BY <1>2 DEF Injection
<1>5. s \in Surjection(D, S)
  BY <1>3, <1>4, FS_Injection
<1>6. Range(s) = S
  BY <1>2, <1>5 DEF Range, Surjection
<1>7. s \in Seq(S) /\ Len(s) = Cardinality(S)
  BY <1>1, <1>2
<1> QED
  BY <1>1, <1>2, <1>6, <1>7

LEMMA MinOfTwo ==
    ASSUME NEW m \in Int, NEW n \in Int
    PROVE  Min({m, n}) = IF m <= n THEN m ELSE n
<1> DEFINE x == IF m <= n THEN m ELSE n
<1>1. x \in {m, n} /\ \A y \in {m, n} : x =< y
  OBVIOUS
<1>2. \A z \in {m, n} : (\A y \in {m, n} : z =< y) => z = x
  OBVIOUS
<1> HIDE DEF x
<1>3. Min({m, n}) \in {m, n} /\ \A y \in {m, n} : Min({m, n}) =< y
  BY <1>1 DEF Min
<1>4. Min({m, n}) = x
  BY <1>2, <1>3
<1> QED
  BY <1>4 DEF x

\* The best n of S: no repetition, at most n, and all of S if fewer than n.
LEMMA BestIs ==
    ASSUME NEW S, IsFiniteSet(S), NEW n \in Nat, NEW s \in Best(S, n)
    PROVE  /\ s \in Seq(S) /\ IsInjective(s) /\ Len(s) <= n /\ Range(s) \subseteq S
           /\ Len(s) < n => Range(s) = S
<1>1. PICK T \in SUBSET S : s \in SetToSeqs(T)
  BY DEF Best, SetToAllKPermutations
<1>2. IsFiniteSet(T) /\ Cardinality(T) <= Cardinality(S)
      /\ (Cardinality(T) = Cardinality(S) => T = S)
  BY <1>1, FS_Subset
<1>3. s \in Seq(T) /\ Len(s) = Cardinality(T) /\ IsInjective(s) /\ Range(s) = T
  BY <1>1, <1>2, PermutationIs
<1>4. s \in Seq(S)
  BY <1>1, <1>3
<1>5. Cardinality(S) \in Nat /\ Len(s) = Min({n, Cardinality(S)})
  BY FS_CardinalityType DEF Best
<1>6. Len(s) = IF n <= Cardinality(S) THEN n ELSE Cardinality(S)
  BY <1>5, MinOfTwo
<1> QED
  BY <1>1, <1>2, <1>3, <1>4, <1>5, <1>6

\* A cut sequence is a prefix, no longer than the limit.
LEMMA CutIs ==
    ASSUME NEW T, NEW s \in Seq(T), NEW n \in Nat
    PROVE  /\ Cut(s, n) \in Seq(T)
           /\ Len(Cut(s, n)) = IF n <= Len(s) THEN n ELSE Len(s)
           /\ DOMAIN Cut(s, n) = 1..Len(Cut(s, n)) /\ DOMAIN Cut(s, n) \subseteq DOMAIN s
           /\ \A i \in DOMAIN Cut(s, n) : Cut(s, n)[i] = s[i]
<1> DEFINE m == IF n <= Len(s) THEN n ELSE Len(s)
<1>1. Len(s) \in Nat /\ DOMAIN s = 1..Len(s) /\ \A i \in 1..Len(s) : s[i] \in T
  OBVIOUS
<1>2. m \in Nat /\ m <= Len(s)
  BY <1>1
<1>3. Cut(s, n) = SubSeq(s, 1, m)
  BY <1>1, MinOfTwo DEF Cut
<1> HIDE DEF m
<1>4. \A i \in 1..m : s[i] \in T
  BY <1>1, <1>2
<1>5. /\ SubSeq(s, 1, m) \in Seq(T)
      /\ Len(SubSeq(s, 1, m)) = IF 1 <= m THEN m - 1 + 1 ELSE 0
      /\ \A i \in 1..(m - 1 + 1) : SubSeq(s, 1, m)[i] = s[1 + i - 1]
  BY <1>2, <1>4, SubSeqProperties
<1>6. Len(Cut(s, n)) = m /\ Cut(s, n) \in Seq(T)
  BY <1>2, <1>3, <1>5
<1>7. DOMAIN Cut(s, n) = 1..m
  BY <1>6
<1>8. \A i \in 1..m : Cut(s, n)[i] = s[i]
  BY <1>2, <1>3, <1>5
<1> QED
  BY <1>1, <1>2, <1>6, <1>7, <1>8 DEF m

-----------------------------------------------------------------------------
(* The steps *)

\* The request is in progress.
LEMMA InProgress ==
    ASSUME RetrievalTypeOK, req.at # "idle"
    PROVE  req # Idle /\ req \in Requests
BY DEF RetrievalTypeOK, Idle

\* What a finished search leaves in its lane: hits without repetition, and all
\* of them when the list is not full.
LaneOf(l, hits) ==
    /\ l \in LaneStates
    /\ Range(l.ids) \subseteq hits /\ IsInjective(l.ids) /\ Len(l.ids) <= RerankN
    /\ l.ok => l.at = "done"
    /\ Lists(l) => Range(l.ids) = hits

LEMMA NoHits ==
    ASSUME NEW a \in {"embed", "search", "done"}, NEW hits
    PROVE  LaneOf(Lane(a), hits)
<1>1. Lane(a) \in LaneStates /\ ~Lane(a).ok /\ Lane(a).ids = <<>>
  BY DEF Lane, LaneStates
<1>2. Range(<<>>) = {} /\ IsInjective(<<>>) /\ Len(<<>>) = 0
  BY DEF Range, IsInjective
<1> QED
  BY <1>1, <1>2, RetrievalAssumption DEF LaneOf, Lists

LEMMA SomeHits ==
    ASSUME NEW hits \in SUBSET Docs, NEW s \in Best(hits, RerankN)
    PROVE  LaneOf(Answered(s), hits)
<1>1. IsFiniteSet(hits) /\ RerankN \in Nat
  BY RetrievalAssumption, FS_Subset
<1>2. /\ s \in Seq(hits) /\ IsInjective(s) /\ Len(s) <= RerankN /\ Range(s) \subseteq hits
      /\ Len(s) < RerankN => Range(s) = hits
  BY <1>1, BestIs
<1>3. s \in Seq(Docs)
  BY <1>2
<1> QED
  BY <1>2, <1>3 DEF LaneOf, Lists, Answered, LaneStates

\* Parts of the request that a step leaves alone.
LanesSame == req'.bm25 = req.bm25 /\ req'.vec = req.vec
AskedSame ==
    /\ req'.tenant = req.tenant /\ req'.filters = req.filters
    /\ req'.topK = req.topK /\ req'.floor = req.floor
ListsSame ==
    /\ req'.ids = req.ids /\ req'.docs = req.docs /\ req'.sources = req.sources
    /\ req'.missed = req.missed /\ req'.reranked = req.reranked

\* A step of the lexical lane.
LexicalStep(l) ==
    /\ req \in Requests /\ req.at = "lanes"
    /\ LaneOf(l, LexicalHits(req.filters))
    /\ req' \in Requests /\ req'.at = "lanes" /\ req'.status = req.status
    /\ req'.bm25 = l /\ req'.vec = req.vec /\ AskedSame /\ ListsSame
    /\ UNCHANGED <<os, qd, writes, settled, owners>>

LEMMA LexicalUpdate ==
    ASSUME req \in Requests, req.at = "lanes", NEW l, LaneOf(l, LexicalHits(req.filters)),
           req' = [req EXCEPT !.bm25 = l], UNCHANGED <<os, qd, writes, settled, owners>>
    PROVE  LexicalStep(l)
<1>1. l \in LaneStates
  BY DEF LaneOf
<1>2. req' \in Requests
  BY <1>1 DEF Requests
<1> QED
  BY <1>2 DEF LexicalStep, Requests, AskedSame, ListsSame

LEMMA LexicalSteps ==
    ASSUME RetrievalTypeOK, Bm25 \/ Bm25Down
    PROVE  \E l \in LaneStates : LexicalStep(l)
<1>0. req \in Requests
  BY InProgress DEF Bm25, Bm25Down
<1>1. CASE Bm25
  <2>1. PICK s \in Best(LexicalHits(req.filters), RerankN) : req' = [req EXCEPT !.bm25 = Answered(s)]
    BY <1>1 DEF Bm25
  <2>2. LaneOf(Answered(s), LexicalHits(req.filters))
    BY SomeHits DEF LexicalHits
  <2> QED
    BY <1>0, <1>1, <2>1, <2>2, LexicalUpdate DEF Bm25, stores, history, LaneOf
<1>2. CASE Bm25Down
  <2>2. LaneOf(Lane("done"), LexicalHits(req.filters))
    BY NoHits
  <2> QED
    BY <1>0, <1>2, <2>2, LexicalUpdate DEF Bm25Down, stores, history, LaneOf
<1> QED
  BY <1>1, <1>2

\* A step of the vector lane.
VectorStep(l) ==
    /\ req \in Requests /\ req.at = "lanes"
    /\ LaneOf(l, VectorHits(req.filters))
    /\ req' \in Requests /\ req'.at = "lanes" /\ req'.status = req.status
    /\ req'.vec = l /\ req'.bm25 = req.bm25 /\ AskedSame /\ ListsSame
    /\ UNCHANGED <<os, qd, writes, settled, owners>>

LEMMA VectorUpdate ==
    ASSUME req \in Requests, req.at = "lanes", NEW l, LaneOf(l, VectorHits(req.filters)),
           req' = [req EXCEPT !.vec = l], UNCHANGED <<os, qd, writes, settled, owners>>
    PROVE  VectorStep(l)
<1>1. l \in LaneStates
  BY DEF LaneOf
<1>2. req' \in Requests
  BY <1>1 DEF Requests
<1> QED
  BY <1>2 DEF VectorStep, Requests, AskedSame, ListsSame

LEMMA VectorSteps ==
    ASSUME RetrievalTypeOK, EmbedQuery \/ Vector \/ VectorDown
    PROVE  \E l \in LaneStates : VectorStep(l)
<1>0. req \in Requests
  BY InProgress DEF EmbedQuery, Vector, VectorDown
<1>1. CASE Vector
  <2>1. PICK s \in Best(VectorHits(req.filters), RerankN) : req' = [req EXCEPT !.vec = Answered(s)]
    BY <1>1 DEF Vector
  <2>2. LaneOf(Answered(s), VectorHits(req.filters))
    BY SomeHits DEF VectorHits
  <2> QED
    BY <1>0, <1>1, <2>1, <2>2, VectorUpdate DEF Vector, stores, history, LaneOf
<1>2. CASE VectorDown
  <2>2. LaneOf(Lane("done"), VectorHits(req.filters))
    BY NoHits
  <2> QED
    BY <1>0, <1>2, <2>2, VectorUpdate DEF VectorDown, stores, history, LaneOf
<1>3. CASE EmbedQuery
  <2>1. PICK a \in {"search", "done"} : req' = [req EXCEPT !.vec = Lane(a)]
    BY <1>3 DEF EmbedQuery
  <2>2. LaneOf(Lane(a), VectorHits(req.filters))
    BY NoHits
  <2> QED
    BY <1>0, <1>3, <2>1, <2>2, VectorUpdate DEF EmbedQuery, stores, history, LaneOf
<1> QED
  BY <1>1, <1>2, <1>3

\* Fusion and the cut: documents of the lanes in the order of their scores, all
\* of them if they are not too many.
FuseStep(c) ==
    /\ req \in Requests /\ req.at = "lanes"
    /\ c \in Seq(Docs) /\ IsInjective(c) /\ Range(c) \subseteq Found
    /\ Len(c) <= RerankN /\ Len(c) <= Cardinality(Found) /\ Cardinality(Found) \in Nat
    /\ Cardinality(Found) <= RerankN => Range(c) = Found
    /\ LET k == IF RrfK <= 0 THEN 60 ELSE RrfK
       IN  \A i, j \in DOMAIN c :
               i < j => Above(<<req.bm25.ids, req.vec.ids>>, k, c[i], c[j])
    /\ req' \in Requests /\ req'.at = IF c = <<>> THEN "retrieved" ELSE "fetch"
    /\ req'.status = IF c = <<>> THEN "ok" ELSE req.status
    /\ req'.ids = IF c = <<>> THEN req.ids ELSE c
    /\ req'.docs = req.docs /\ req'.sources = req.sources /\ req'.reranked = req.reranked
    /\ req'.missed = req.missed
    /\ LanesSame /\ AskedSame
    /\ UNCHANGED <<os, qd, writes, settled, owners>>

LEMMA FoundFinite ==
    ASSUME req \in Requests
    PROVE  Found \subseteq Docs /\ IsFiniteSet(Found) /\ Cardinality(Found) \in Nat
<1>1. req.bm25.ids \in Seq(Docs) /\ req.vec.ids \in Seq(Docs)
  BY DEF Requests, LaneStates
<1>2. \A s \in Seq(Docs) : Range(s) \subseteq Docs
  BY DEF Range
<1>3. Found \subseteq Docs
  BY <1>1, <1>2 DEF Found
<1> QED
  BY <1>3, RetrievalAssumption, FS_Subset, FS_CardinalityType

LEMMA FuseSteps ==
    ASSUME RetrievalTypeOK, Fuse
    PROVE  \E c \in Seq(Docs) : FuseStep(c)
<1> DEFINE lists == <<req.bm25.ids, req.vec.ids>>
           k == IF RrfK <= 0 THEN 60 ELSE RrfK
<1>0. req \in Requests /\ req.at = "lanes" /\ UNCHANGED <<os, qd, writes, settled, owners>>
  BY InProgress DEF Fuse, stores, history
<1>1. PICK s \in RRF(lists, RrfK) :
          req' = IF s = <<>> THEN [req EXCEPT !.at = "retrieved", !.status = "ok"]
                 ELSE [req EXCEPT !.at = "fetch", !.ids = Cut(s, RerankN)]
  BY DEF Fuse
<1>2. s \in SetToSeqs(Found) /\ \A i, j \in DOMAIN s : i < j => Above(lists, k, s[i], s[j])
  <2>1. lists[1] = req.bm25.ids /\ lists[2] = req.vec.ids
    OBVIOUS
  <2> HIDE DEF lists
  <2> QED
    BY <1>1, <2>1 DEF RRF, Found
<1> HIDE DEF lists, k
<1>3. IsFiniteSet(Found) /\ Found \subseteq Docs
  BY <1>0, FoundFinite
<1>4. /\ s \in Seq(Found) /\ Len(s) = Cardinality(Found) /\ Cardinality(Found) \in Nat
      /\ DOMAIN s = 1..Cardinality(Found)
      /\ IsInjective(s) /\ Range(s) = Found
  BY <1>2, <1>3, PermutationIs
<1>5. s \in Seq(Docs)
  BY <1>3, <1>4
<1> DEFINE c == Cut(s, RerankN)
<1>6. RerankN \in Nat \ {0}
  BY RetrievalAssumption
<1>7. /\ c \in Seq(Docs) /\ Len(c) = IF RerankN <= Len(s) THEN RerankN ELSE Len(s)
      /\ DOMAIN c = 1..Len(c) /\ DOMAIN c \subseteq DOMAIN s
      /\ \A i \in DOMAIN c : c[i] = s[i]
  BY <1>5, <1>6, CutIs
<1> HIDE DEF c
<1>8. Len(c) <= RerankN /\ Len(c) <= Cardinality(Found)
  BY <1>4, <1>6, <1>7
<1>9. c = <<>> <=> s = <<>>
  <2>1. Len(c) = 0 <=> Len(s) = 0
    BY <1>4, <1>6, <1>7
  <2> QED
    BY <1>5, <1>7, <2>1, EmptySeq
<1>10. IsInjective(c) /\ Range(c) \subseteq Found
  BY <1>4, <1>7 DEF IsInjective, Range
<1>11. Cardinality(Found) <= RerankN => Range(c) = Found
  <2> SUFFICES ASSUME Cardinality(Found) <= RerankN PROVE Range(c) = Found
    OBVIOUS
  <2>1. Len(c) = Len(s)
    BY <1>4, <1>6, <1>7
  <2>2. DOMAIN c = DOMAIN s
    BY <1>4, <1>7, <2>1
  <2> QED
    BY <1>4, <1>7, <2>2 DEF Range
<1>12. \A i, j \in DOMAIN c : i < j => Above(lists, k, c[i], c[j])
  BY <1>2, <1>7
<1>13. req' = IF c = <<>> THEN [req EXCEPT !.at = "retrieved", !.status = "ok"]
              ELSE [req EXCEPT !.at = "fetch", !.ids = c]
  BY <1>1, <1>9 DEF c
<1>14. req' \in Requests
  BY <1>0, <1>7, <1>13 DEF Requests
<1>15. /\ req'.at = IF c = <<>> THEN "retrieved" ELSE "fetch"
       /\ req'.status = IF c = <<>> THEN "ok" ELSE req.status
       /\ req'.ids = IF c = <<>> THEN req.ids ELSE c
       /\ req'.docs = req.docs /\ req'.sources = req.sources /\ req'.reranked = req.reranked
       /\ req'.missed = req.missed
       /\ LanesSame /\ AskedSame
  BY <1>0, <1>13 DEF Requests, LanesSame, AskedSame
<1>16. FuseStep(c)
  BY <1>0, <1>4, <1>7, <1>8, <1>10, <1>11, <1>12, <1>14, <1>15 DEF FuseStep, lists, k
<1> QED
  BY <1>7, <1>16

\* The fetch of one document: it is appended, or dropped because it is not
\* there or OpenSearch reports an error for it.
FetchStep(d) ==
    /\ req \in Requests /\ req.at = "fetch"
    /\ d \in Docs /\ d = req.ids[1] /\ req.ids # <<>>
    /\ req' \in Requests
    /\ req'.at = IF Len(req.ids) > 1 THEN "fetch"
                 ELSE IF req'.docs = <<>> THEN "retrieved" ELSE "rerank"
    /\ req'.status = IF req'.at = "retrieved" THEN "ok" ELSE req.status
    /\ \/ os[d].live /\ req'.docs = Append(req.docs, Stored(d)) /\ req'.missed = req.missed
       \/ ~os[d].live /\ req'.docs = req.docs /\ req'.missed = req.missed
       \/ req'.docs = req.docs /\ req'.missed = req.missed \cup {d}
    /\ req'.ids = Tail(req.ids)
    /\ Len(req'.ids) = Len(req.ids) - 1
    /\ \A i \in 1..Len(req'.ids) : req'.ids[i] = req.ids[i + 1]
    /\ LanesSame /\ AskedSame
    /\ req'.sources = req.sources /\ req'.reranked = req.reranked
    /\ UNCHANGED <<os, qd, writes, settled, owners>>

LEMMA FetchSteps ==
    ASSUME RetrievalTypeOK, FetchDoc \/ FetchMissed, req.ids # <<>>
    PROVE  FetchStep(Head(req.ids))
<1> DEFINE d == Head(req.ids)
<1>0. req \in Requests /\ req.at = "fetch" /\ UNCHANGED <<os, qd, writes, settled, owners>>
  BY InProgress DEF FetchDoc, FetchMissed, Fetch, stores, history
<1>1. req.ids \in Seq(Docs) /\ req.docs \in Seq(Fetched) /\ os \in [Docs -> Contents]
      /\ req.missed \in SUBSET Docs
  BY <1>0 DEF Requests, RetrievalTypeOK
<1>2. /\ d \in Docs /\ d = req.ids[1] /\ Tail(req.ids) \in Seq(Docs)
      /\ Len(Tail(req.ids)) = Len(req.ids) - 1
      /\ \A i \in 1..Len(Tail(req.ids)) : Tail(req.ids)[i] = req.ids[i + 1]
  BY <1>1, HeadTailProperties
<1>3. Stored(d) \in Fetched /\ Stored(d).live = os[d].live
  BY <1>1, <1>2 DEF Stored, Fetched, Contents
<1>4. PICK have, lost :
          /\ Fetch(have, lost)
          /\ \/ os[d].live /\ have = Append(req.docs, Stored(d)) /\ lost = {}
             \/ ~os[d].live /\ have = req.docs /\ lost = {}
             \/ have = req.docs /\ lost = {d}
  BY <1>3 DEF FetchDoc, FetchMissed
<1> DEFINE at == IF Len(req.ids) > 1 THEN "fetch" ELSE IF have = <<>> THEN "retrieved" ELSE "rerank"
<1>5. req' = [req EXCEPT !.at = at, !.ids = Tail(@), !.docs = have, !.missed = @ \cup lost,
                         !.status = IF at = "retrieved" THEN "ok" ELSE @]
  BY <1>4 DEF Fetch
<1> HIDE DEF d
<1>6. have \in Seq(Fetched) /\ lost \subseteq Docs
  <2>1. Append(req.docs, Stored(d)) \in Seq(Fetched)
    BY <1>1, <1>3, AppendProperties
  <2>2. have \in Seq(Fetched)
    BY <1>1, <1>4, <2>1
  <2>3. lost \subseteq Docs
    BY <1>2, <1>4
  <2> QED
    BY <2>2, <2>3
<1>7. at \in {"fetch", "retrieved", "rerank"}
  OBVIOUS
<1> HIDE DEF at
<1>8. req' \in Requests
  BY <1>0, <1>2, <1>5, <1>6, <1>7 DEF Requests
<1>9. /\ req'.at = at /\ req'.status = IF at = "retrieved" THEN "ok" ELSE req.status
      /\ req'.docs = have /\ req'.missed = req.missed \cup lost /\ req'.ids = Tail(req.ids)
      /\ req'.bm25 = req.bm25 /\ req'.vec = req.vec /\ req'.filters = req.filters
      /\ req'.tenant = req.tenant /\ req'.topK = req.topK /\ req'.floor = req.floor
      /\ req'.sources = req.sources /\ req'.reranked = req.reranked
  BY <1>0, <1>5 DEF Requests
<1>10. \/ os[d].live /\ req'.docs = Append(req.docs, Stored(d)) /\ req'.missed = req.missed
       \/ ~os[d].live /\ req'.docs = req.docs /\ req'.missed = req.missed
       \/ req'.docs = req.docs /\ req'.missed = req.missed \cup {d}
  BY <1>4, <1>9
<1> QED
  BY <1>0, <1>2, <1>8, <1>9, <1>10 DEF FetchStep, LanesSame, AskedSame, at, d

\* The sources are made from the documents, in some order or in theirs.
RankStep(order) ==
    /\ req \in Requests /\ req.at = "rerank"
    /\ order \in [DOMAIN req.docs -> DOMAIN req.docs]
    /\ IsInjective(order) /\ Range(order) = DOMAIN req.docs
    /\ req' \in Requests /\ req'.at = "retrieved" /\ req'.status = "ok"
    /\ ~req'.reranked => \A i \in DOMAIN order : order[i] = i
    /\ Len(req'.sources) = IF req.topK <= Len(req.docs) THEN req.topK ELSE Len(req.docs)
    /\ \A i \in DOMAIN req'.sources : i \in DOMAIN order /\ req'.sources[i] = req.docs[order[i]]
    /\ LanesSame /\ AskedSame
    /\ req'.ids = req.ids /\ req'.docs = req.docs /\ req'.missed = req.missed
    /\ UNCHANGED <<os, qd, writes, settled, owners>>

LEMMA SourcesAre ==
    ASSUME req \in Requests, NEW order \in [DOMAIN req.docs -> DOMAIN req.docs]
    PROVE  /\ Sources(order) \in Seq(Fetched)
           /\ Len(Sources(order)) = IF req.topK <= Len(req.docs) THEN req.topK ELSE Len(req.docs)
           /\ \A i \in DOMAIN Sources(order) :
                 i \in DOMAIN order /\ Sources(order)[i] = req.docs[order[i]]
<1>1. req.docs \in Seq(Fetched) /\ req.topK \in Nat
  BY DEF Requests
<1>2. DOMAIN req.docs = 1..Len(req.docs) /\ Len(req.docs) \in Nat
  BY <1>1
<1> DEFINE s == [i \in DOMAIN order |-> req.docs[order[i]]]
<1>3. s \in [1..Len(req.docs) -> Fetched]
  BY <1>1, <1>2
<1>4. s \in Seq(Fetched) /\ Len(s) = Len(req.docs) /\ DOMAIN s = DOMAIN order
  BY <1>2, <1>3
<1>5. \A i \in DOMAIN order : s[i] = req.docs[order[i]]
  OBVIOUS
<1> HIDE DEF s
<1>6. /\ Cut(s, req.topK) \in Seq(Fetched)
      /\ Len(Cut(s, req.topK)) = IF req.topK <= Len(s) THEN req.topK ELSE Len(s)
      /\ DOMAIN Cut(s, req.topK) \subseteq DOMAIN s
      /\ \A i \in DOMAIN Cut(s, req.topK) : Cut(s, req.topK)[i] = s[i]
  BY <1>1, <1>4, CutIs
<1>7. Sources(order) = Cut(s, req.topK)
  BY DEF Sources, s
<1> QED
  BY <1>4, <1>5, <1>6, <1>7

LEMMA RankSteps ==
    ASSUME RetrievalTypeOK, Rerank \/ RerankSkipped
    PROVE  \E order \in [DOMAIN req.docs -> DOMAIN req.docs] : RankStep(order)
<1>0. req \in Requests /\ req.at = "rerank" /\ UNCHANGED <<os, qd, writes, settled, owners>>
  BY InProgress DEF Rerank, RerankSkipped, stores, history
<1>1. DOMAIN req.docs = 1..Len(req.docs) /\ Len(req.docs) \in Nat
  BY <1>0 DEF Requests
<1>2. ASSUME NEW order \in [DOMAIN req.docs -> DOMAIN req.docs], NEW r \in BOOLEAN,
             IsInjective(order), Range(order) = DOMAIN req.docs,
             ~r => \A i \in DOMAIN order : order[i] = i,
             req' = [req EXCEPT !.at = "retrieved", !.status = "ok", !.reranked = r,
                                !.sources = Sources(order)]
      PROVE  RankStep(order)
  <2>1. /\ Sources(order) \in Seq(Fetched)
        /\ Len(Sources(order)) = IF req.topK <= Len(req.docs) THEN req.topK ELSE Len(req.docs)
        /\ \A i \in DOMAIN Sources(order) :
              i \in DOMAIN order /\ Sources(order)[i] = req.docs[order[i]]
    BY <1>0, SourcesAre
  <2>2. req' \in Requests
    BY <1>0, <1>2, <2>1 DEF Requests
  <2>3. /\ req'.at = "retrieved" /\ req'.status = "ok" /\ req'.reranked = r
        /\ req'.sources = Sources(order)
        /\ req'.bm25 = req.bm25 /\ req'.vec = req.vec /\ req'.filters = req.filters
        /\ req'.tenant = req.tenant /\ req'.topK = req.topK /\ req'.floor = req.floor
        /\ req'.ids = req.ids /\ req'.docs = req.docs /\ req'.missed = req.missed
    BY <1>0, <1>2 DEF Requests
  <2> QED
    BY <1>0, <1>2, <2>1, <2>2, <2>3 DEF RankStep, LanesSame, AskedSame
<1>3. CASE Rerank
  <2>1. PICK order \in SetToSeqs(DOMAIN req.docs) :
            req' = [req EXCEPT !.at = "retrieved", !.status = "ok", !.reranked = TRUE,
                               !.sources = Sources(order)]
    BY <1>3 DEF Rerank
  <2>2. IsFiniteSet(DOMAIN req.docs) /\ Cardinality(DOMAIN req.docs) = Len(req.docs)
    BY <1>1, FS_Interval
  <2>3. /\ order \in Seq(DOMAIN req.docs) /\ DOMAIN order = DOMAIN req.docs
        /\ IsInjective(order) /\ Range(order) = DOMAIN req.docs
    BY <1>1, <2>2, PermutationIs
  <2>4. order \in [DOMAIN req.docs -> DOMAIN req.docs]
    BY <2>3
  <2> QED
    BY <1>2, <2>1, <2>3, <2>4
<1>4. CASE RerankSkipped
  <2> DEFINE order == [i \in DOMAIN req.docs |-> i]
  <2>1. /\ order \in [DOMAIN req.docs -> DOMAIN req.docs] /\ \A i \in DOMAIN order : order[i] = i
        /\ IsInjective(order) /\ Range(order) = DOMAIN req.docs
    BY DEF IsInjective, Range
  <2>2. req' = [req EXCEPT !.at = "retrieved", !.status = "ok", !.sources = Sources(order)]
    BY <1>4 DEF RerankSkipped
  <2> HIDE DEF order
  <2>3. req.reranked \in BOOLEAN
    BY <1>0 DEF Requests
  <2>4. req' = [req EXCEPT !.at = "retrieved", !.status = "ok", !.reranked = req.reranked,
                           !.sources = Sources(order)]
    BY <1>0, <2>2 DEF Requests
  <2> QED
    BY <1>2, <2>1, <2>3, <2>4
<1> QED
  BY <1>3, <1>4

FailStep ==
    /\ req \in Requests /\ req.at = "fetch"
    /\ req' \in Requests /\ req'.at = "retrieved" /\ req'.status = "error"
    /\ LanesSame /\ AskedSame /\ ListsSame
    /\ UNCHANGED <<os, qd, writes, settled, owners>>

LEMMA FailSteps ==
    ASSUME RetrievalTypeOK, FetchError
    PROVE  FailStep
<1>1. req \in Requests /\ req.at = "fetch"
  BY InProgress DEF FetchError
<1>2. req' = [req EXCEPT !.at = "retrieved", !.status = "error"]
      /\ UNCHANGED <<os, qd, writes, settled, owners>>
  BY DEF FetchError, stores, history
<1>3. req' \in Requests
  BY <1>1, <1>2 DEF Requests
<1> QED
  BY <1>1, <1>2, <1>3 DEF FailStep, Requests, LanesSame, AskedSame, ListsSame

\* The filters hold the request to its tenant.
Bound(filters, tenant) ==
    tenant # NoTenant => "tenant_id" \in DOMAIN filters /\ filters["tenant_id"] = tenant

\* A retrieval begins.
BeginStep ==
    /\ req = Idle
    /\ req' \in Requests /\ req'.at = "lanes" /\ req'.status = "pending"
    /\ req'.bm25.ids = <<>> /\ ~req'.bm25.ok /\ req'.vec.ids = <<>> /\ ~req'.vec.ok
    /\ req'.ids = <<>> /\ req'.docs = <<>> /\ req'.sources = <<>> /\ ~req'.reranked
    /\ req'.floor = os /\ Bound(req'.filters, req'.tenant)
    /\ settled' = {d \in Docs : os[d] = qd[d]} /\ owners' = [d \in Docs |-> Owner(os[d])]
    /\ UNCHANGED <<os, qd, writes>>

LEMMA BeginSteps ==
    ASSUME RetrievalTypeOK,
           NEW t \in Tenants, NEW cf \in ClientFilters, NEW k \in TopKs, NEW v \in BOOLEAN,
           Begin(t, cf, k, v)
    PROVE  BeginStep
<1>1. scopeFilters(cf, t) \in Scoped
  BY DEF Scoped
<1>2. (IF k <= 0 THEN TopK ELSE k) \in Nat \ {0}
  BY RetrievalAssumption
<1>3. /\ Lane("search") \in LaneStates /\ Lane("embed") \in LaneStates
      /\ Lane("search").ids = <<>> /\ Lane("embed").ids = <<>>
      /\ ~Lane("search").ok /\ ~Lane("embed").ok
  BY DEF Lane, LaneStates
<1>4. os \in [Docs -> Contents]
  BY DEF RetrievalTypeOK
<1> DEFINE w == Lane(IF v THEN "search" ELSE "embed")
<1>5. w \in LaneStates /\ w.ids = <<>> /\ ~w.ok
  BY <1>3
<1>6. req' = [at |-> "lanes", tenant |-> t, filters |-> scopeFilters(cf, t),
              topK |-> IF k <= 0 THEN TopK ELSE k,
              bm25 |-> Lane("search"), vec |-> w,
              ids |-> <<>>, docs |-> <<>>, missed |-> {}, reranked |-> FALSE,
              status |-> "pending", sources |-> <<>>, floor |-> os]
  BY DEF Begin
<1> HIDE DEF w
<1>7. req' \in Requests
  BY <1>1, <1>2, <1>3, <1>4, <1>5, <1>6 DEF Requests
<1>8. Bound(scopeFilters(cf, t), t)
  BY DEF Bound, scopeFilters
<1> QED
  BY <1>3, <1>5, <1>6, <1>7, <1>8 DEF BeginStep, Begin, stores, history

\* The indexer writes to OpenSearch.
PutStep(d) ==
    /\ d \in Docs /\ os[d].ver < os'[d].ver /\ os' \in [Docs -> Contents]
    /\ \A c \in Docs : c # d => os'[c] = os[c]
    /\ settled' = settled \ {d} /\ writes' \in 0..MaxWrites
    /\ owners' = [owners EXCEPT ![d] = @ \cup Owner(os'[d])]
    /\ UNCHANGED <<qd, req>>

LEMMA PutSteps ==
    ASSUME RetrievalTypeOK, NEW d \in Docs,
           IndexDelete(d) \/ \E t \in DocTenants, c \in Categories : IndexUpsert(d, t, c)
    PROVE  PutStep(d)
<1>1. os \in [Docs -> Contents] /\ MaxVersion \in Nat /\ MaxWrites \in Nat /\ writes \in 0..MaxWrites
  BY RetrievalAssumption DEF RetrievalTypeOK
<1>2. os[d].ver \in 0..MaxVersion
  BY <1>1 DEF Contents
<1>3. ASSUME NEW x \in Contents, Put(d, x), x.ver = os[d].ver + 1
      PROVE  PutStep(d)
  BY <1>1, <1>2, <1>3 DEF Put, PutStep
<1>4. CASE IndexDelete(d)
  <2> DEFINE x == [os[d] EXCEPT !.ver = @ + 1, !.live = FALSE]
  <2>1. os[d] \in [ver : 0..MaxVersion, live : BOOLEAN, tenant : DocTenants, cat : Categories]
        /\ os[d].ver < MaxVersion
    BY <1>1, <1>4 DEF IndexDelete, Contents
  <2>2. os[d].ver + 1 \in 0..MaxVersion
    BY <1>1, <1>2, <2>1
  <2>3. /\ x \in [ver : 0..MaxVersion, live : BOOLEAN, tenant : DocTenants, cat : Categories]
        /\ x.ver = os[d].ver + 1 /\ x.live = FALSE
    BY <2>1, <2>2
  <2>4. x \in Contents
    BY <2>3 DEF Contents
  <2> QED
    BY <1>3, <1>4, <2>3, <2>4 DEF IndexDelete
<1>5. ASSUME NEW t \in DocTenants, NEW c \in Categories, IndexUpsert(d, t, c) PROVE PutStep(d)
  <2> DEFINE x == [ver |-> os[d].ver + 1, live |-> TRUE, tenant |-> t, cat |-> c]
  <2>1. x \in Contents /\ x.ver = os[d].ver + 1
    BY <1>1, <1>2, <1>5 DEF IndexUpsert, Contents
  <2> QED
    BY <1>3, <1>5, <2>1 DEF IndexUpsert
<1> QED
  BY <1>4, <1>5

\* The indexer writes to Qdrant.
PointStep(d) ==
    /\ d \in Docs /\ qd[d] # os[d]
    /\ qd' = [qd EXCEPT ![d] = os[d]]
    /\ UNCHANGED <<os, writes, req, settled, owners>>

LEMMA PointSteps ==
    ASSUME NEW d \in Docs, IndexVector(d)
    PROVE  PointStep(d)
BY DEF IndexVector, PointStep, history
-----------------------------------------------------------------------------
(* The invariants *)

\* Which lists are filled in which phase.
PhaseInv ==
    req # Idle =>
        /\ req.at = "lanes" => req.ids = <<>> /\ req.docs = <<>>
        /\ req.at = "fetch" => req.ids # <<>>
        /\ req.at = "rerank" => req.ids = <<>>
        /\ req.at # "retrieved" => req.sources = <<>> /\ req.status = "pending" /\ ~req.reranked

\* Everything comes from the lanes, and nothing is fetched twice.
ApartInv ==
    req # Idle =>
        /\ \A i, j \in DOMAIN req.docs : req.docs[i].doc = req.docs[j].doc => i = j
        /\ \A i \in DOMAIN req.docs : req.docs[i].doc \in Found \ Range(req.ids)
        /\ Range(req.ids) \subseteq Found
        /\ ServedDocs \subseteq Found

\* OpenSearch only moves on, and what was fetched was current at the time.
CurrentInv ==
    req # Idle =>
        /\ \A d \in Docs : os[d].ver >= req.floor[d].ver
        /\ \A i \in DOMAIN req.docs :
              LET x == req.docs[i]
              IN  x.live /\ x.ver > 0 /\ x.ver >= req.floor[x.doc].ver
        /\ \A i \in DOMAIN req.sources : \E j \in DOMAIN req.docs : req.sources[i] = req.docs[j]

\* d passes the filters if it is settled.
Passes(d) == d \in settled => Matches(Fields(d), req.filters)

\* Settled documents are equal in both stores, and what the lanes found passes.
PassInv ==
    /\ req = Idle => settled = {}
    /\ \A d \in settled : os[d] = qd[d]
    /\ req # Idle => \A d \in Found : Passes(d)

\* What the lanes found for a tenant was its own at some moment since the
\* request began.
TenantInv ==
    req # Idle =>
        /\ \A d \in Docs : Owner(os[d]) \subseteq owners[d]
        /\ Bound(req.filters, req.tenant)
        /\ req.tenant # NoTenant => \A d \in Found : req.tenant \in owners[d]

\* d has been fetched, or is about to be.
Coming(d) == d \in Range(req.ids) \/ \E i \in DOMAIN req.docs : req.docs[i].doc = d

\* A lane that lists all its hits has listed every settled document it can
\* find; where there is room for all that was found, none of it is dropped.
ServeInv ==
    req # Idle =>
        /\ Lists(req.bm25) =>
              \A d \in Findable : <<d, os[d].ver>> \in Lexical => d \in Range(req.bm25.ids)
        /\ Lists(req.vec) /\ "tenant_id" \notin DOMAIN req.filters =>
              \A d \in Findable : d \in Range(req.vec.ids)
        /\ RoomForAll /\ req.at \in {"fetch", "rerank"} =>
              /\ \A d \in Findable \cap Found : Coming(d)
              /\ Len(req.ids) + Len(req.docs) <= Cardinality(Found)
        /\ RoomForAll /\ Retrieved /\ req.status = "ok" =>
              \A d \in Findable \cap Found : d \in ServedDocs

\* Both lanes found d.
InBoth(d) == d \in Range(req.bm25.ids) /\ d \in Range(req.vec.ids)

\* Documents of both lanes come before the others in every list.
OrderInv ==
    req # Idle /\ RerankN <= RrfK + 1 =>
        /\ \A i, j \in DOMAIN req.ids : InBoth(req.ids[i]) /\ ~InBoth(req.ids[j]) => i < j
        /\ \A i, j \in DOMAIN req.docs : InBoth(req.docs[i].doc) /\ ~InBoth(req.docs[j].doc) => i < j
        /\ \A i \in DOMAIN req.ids, j \in DOMAIN req.docs :
              InBoth(req.ids[i]) => InBoth(req.docs[j].doc)
        /\ ~req.reranked =>
              \A i, j \in DOMAIN req.sources :
                  InBoth(req.sources[i].doc) /\ ~InBoth(req.sources[j].doc) => i < j

RetrievalInv ==
    /\ RetrievalTypeOK
    /\ PhaseInv /\ ApartInv /\ CurrentInv /\ PassInv /\ TenantInv /\ ServeInv /\ OrderInv

-----------------------------------------------------------------------------
(* The invariants are kept *)

\* A step of the indexer or of the retrieval.
RetrievalStep ==
    \/ BeginStep \/ FailStep
    \/ \E l \in LaneStates : LexicalStep(l) \/ VectorStep(l)
    \/ \E c \in Seq(Docs) : FuseStep(c)
    \/ \E d \in Docs : FetchStep(d) \/ PutStep(d) \/ PointStep(d)
    \/ \E order \in [DOMAIN req.docs -> DOMAIN req.docs] : RankStep(order)
    \/ UNCHANGED vars

LEMMA StepsAre ==
    ASSUME RetrievalTypeOK, PhaseInv,
           \/ Index \/ Retrieve \/ UNCHANGED vars
           \/ \E t \in Tenants, cf \in ClientFilters, k \in TopKs, v \in BOOLEAN : Begin(t, cf, k, v)
    PROVE  RetrievalStep
<1>1. CASE Index
  <2>1. PICK d \in Docs :
            \/ IndexDelete(d) \/ IndexVector(d)
            \/ \E t \in DocTenants, c \in Categories : IndexUpsert(d, t, c)
    BY <1>1 DEF Index
  <2> QED
    BY <2>1, PutSteps, PointSteps DEF RetrievalStep
<1>2. CASE Retrieve
  <2>1. CASE Bm25 \/ Bm25Down
    BY <2>1, LexicalSteps DEF RetrievalStep
  <2>2. CASE EmbedQuery \/ Vector \/ VectorDown
    BY <2>2, VectorSteps DEF RetrievalStep
  <2>3. CASE Fuse
    BY <2>3, FuseSteps DEF RetrievalStep
  <2>4. CASE FetchDoc \/ FetchMissed
    <3>1. req.ids # <<>>
      BY <2>4, InProgress DEF FetchDoc, FetchMissed, Fetch, PhaseInv
    <3>2. FetchStep(Head(req.ids))
      BY <2>4, <3>1, FetchSteps
    <3>3. Head(req.ids) \in Docs
      BY <3>2 DEF FetchStep
    <3> QED
      BY <3>2, <3>3 DEF RetrievalStep
  <2>5. CASE FetchError
    BY <2>5, FailSteps DEF RetrievalStep
  <2>6. CASE Rerank \/ RerankSkipped
    BY <2>6, RankSteps DEF RetrievalStep
  <2> QED
    BY <1>2, <2>1, <2>2, <2>3, <2>4, <2>5, <2>6 DEF Retrieve
<1>3. CASE \E t \in Tenants, cf \in ClientFilters, k \in TopKs, v \in BOOLEAN : Begin(t, cf, k, v)
  BY <1>3, BeginSteps DEF RetrievalStep
<1> QED
  BY <1>1, <1>2, <1>3 DEF RetrievalStep

LEMMA RequestsNotIdle ==
    ASSUME NEW r \in Requests
    PROVE  r # Idle
BY DEF Requests, Idle

LEMMA PhaseKept ==
    ASSUME RetrievalTypeOK, PhaseInv, RetrievalStep
    PROVE  PhaseInv'
<1>0. req \in Requests => req # Idle
  BY RequestsNotIdle
<1>1. CASE BeginStep
  BY <1>1 DEF BeginStep, PhaseInv
<1>2. CASE FailStep
  BY <1>0, <1>2 DEF FailStep, PhaseInv
<1>3. ASSUME NEW l \in LaneStates, LexicalStep(l) \/ VectorStep(l) PROVE PhaseInv'
  BY <1>0, <1>3 DEF LexicalStep, VectorStep, ListsSame, PhaseInv
<1>4. ASSUME NEW c \in Seq(Docs), FuseStep(c) PROVE PhaseInv'
  BY <1>0, <1>4 DEF FuseStep, PhaseInv
<1>5. ASSUME NEW d \in Docs, FetchStep(d) PROVE PhaseInv'
  <2>1. req.ids \in Seq(Docs) /\ req'.ids \in Seq(Docs) /\ Len(req'.ids) = Len(req.ids) - 1
        /\ req.ids # <<>>
    BY <1>5 DEF FetchStep, Requests
  <2>2. Len(req.ids) > 1 <=> req'.ids # <<>>
    BY <2>1, EmptySeq
  <2> QED
    BY <1>0, <1>5, <2>2 DEF FetchStep, PhaseInv
<1>6. ASSUME NEW order \in [DOMAIN req.docs -> DOMAIN req.docs], RankStep(order) PROVE PhaseInv'
  BY <1>0, <1>6 DEF RankStep, PhaseInv
<1>7. ASSUME NEW d \in Docs, PutStep(d) \/ PointStep(d) PROVE PhaseInv'
  BY <1>7 DEF PutStep, PointStep, PhaseInv
<1>8. CASE UNCHANGED vars
  BY <1>8 DEF vars, PhaseInv
<1> QED
  BY <1>1, <1>2, <1>3, <1>4, <1>5, <1>6, <1>7, <1>8 DEF RetrievalStep

\* The fetch of d takes it from the front of the list.
LEMMA FetchMoves ==
    ASSUME RetrievalTypeOK, NEW d \in Docs, FetchStep(d)
    PROVE  /\ d \in Range(req.ids) /\ Range(req.ids) = Range(req'.ids) \cup {d}
           /\ d \notin Range(req'.ids)
           /\ DOMAIN req'.ids = 1..Len(req'.ids) /\ DOMAIN req.ids = 1..Len(req.ids)
           /\ Len(req.ids) \in Nat /\ Len(req'.ids) \in Nat /\ IsInjective(req'.ids)
<1>1. /\ req.ids \in Seq(Docs) /\ req'.ids \in Seq(Docs) /\ req.ids # <<>> /\ d = req.ids[1]
      /\ Len(req'.ids) = Len(req.ids) - 1
      /\ \A i \in 1..Len(req'.ids) : req'.ids[i] = req.ids[i + 1]
  BY DEF FetchStep, Requests
<1>2. /\ DOMAIN req.ids = 1..Len(req.ids) /\ DOMAIN req'.ids = 1..Len(req'.ids)
      /\ Len(req.ids) \in Nat \ {0} /\ Len(req'.ids) \in Nat
  BY <1>1, EmptySeq
<1>3. \A i, j \in 1..Len(req.ids) : req.ids[i] = req.ids[j] => i = j
  BY <1>2, RequestsNotIdle DEF RetrievalTypeOK, FetchStep, IsInjective
<1>4. d \in Range(req.ids)
  BY <1>1, <1>2 DEF Range
<1>5. \A i \in 1..Len(req'.ids) : i + 1 \in 1..Len(req.ids) /\ i + 1 # 1
  BY <1>1, <1>2
<1>6. \A i \in 1..Len(req.ids) : i # 1 => i - 1 \in 1..Len(req'.ids) /\ (i - 1) + 1 = i
  BY <1>1, <1>2
<1>7. d \notin Range(req'.ids)
  <2> SUFFICES ASSUME NEW i \in 1..Len(req'.ids), req'.ids[i] = d PROVE FALSE
    BY <1>2 DEF Range
  <2>1. req.ids[i + 1] = req.ids[1] /\ 1 \in 1..Len(req.ids)
    BY <1>1, <1>2
  <2> QED
    BY <1>3, <1>5, <2>1
<1>8. Range(req'.ids) \subseteq Range(req.ids)
  BY <1>1, <1>2, <1>5 DEF Range
<1>9. ASSUME NEW x \in Range(req.ids), x # d PROVE x \in Range(req'.ids)
  <2>1. PICK i \in 1..Len(req.ids) : x = req.ids[i]
    BY <1>2 DEF Range
  <2>2. i # 1
    BY <1>1, <1>9, <2>1
  <2>3. x = req'.ids[i - 1]
    BY <1>1, <1>6, <2>1, <2>2
  <2> QED
    BY <1>2, <1>6, <2>2, <2>3 DEF Range
<1>10. IsInjective(req'.ids)
  <2> SUFFICES ASSUME NEW i \in 1..Len(req'.ids), NEW j \in 1..Len(req'.ids),
                      req'.ids[i] = req'.ids[j]
               PROVE  i = j
    BY <1>2 DEF IsInjective
  <2>1. req.ids[i + 1] = req.ids[j + 1]
    BY <1>1
  <2>2. i + 1 = j + 1
    BY <1>3, <1>5, <2>1
  <2> QED
    BY <2>2
<1>11. Range(req.ids) = Range(req'.ids) \cup {d}
  BY <1>4, <1>8, <1>9
<1> QED
  BY <1>2, <1>4, <1>7, <1>10, <1>11

\* What the documents are after the fetch of d.
LEMMA FetchAppends ==
    ASSUME RetrievalTypeOK, NEW d \in Docs, FetchStep(d)
    PROVE  /\ DOMAIN req.docs = 1..Len(req.docs) /\ Len(req.docs) \in Nat
           /\ \/ (~os[d].live \/ d \in req'.missed) /\ req'.docs = req.docs
              \/ /\ os[d].live /\ Len(req'.docs) = Len(req.docs) + 1
                 /\ DOMAIN req'.docs = 1..(Len(req.docs) + 1)
                 /\ \A i \in DOMAIN req.docs : req'.docs[i] = req.docs[i]
                 /\ req'.docs[Len(req.docs) + 1] = Stored(d)
<1>1. req.docs \in Seq(Fetched) /\ os[d].live \in BOOLEAN
  BY DEF FetchStep, Requests, RetrievalTypeOK, Contents
<1>2. DOMAIN req.docs = 1..Len(req.docs) /\ Len(req.docs) \in Nat
  BY <1>1
<1>3. CASE (~os[d].live \/ req'.missed = req.missed \cup {d}) /\ req'.docs = req.docs
  BY <1>2, <1>3
<1>4. CASE os[d].live /\ req'.docs = Append(req.docs, Stored(d))
  <2>1. req'.docs = Append(req.docs, Stored(d))
    BY <1>4
  <2>2. Stored(d) \in Fetched
    BY DEF Stored, Fetched, RetrievalTypeOK, Contents
  <2>3. /\ Len(req'.docs) = Len(req.docs) + 1 /\ DOMAIN req'.docs = 1..(Len(req.docs) + 1)
        /\ \A i \in DOMAIN req.docs : req'.docs[i] = req.docs[i]
        /\ req'.docs[Len(req.docs) + 1] = Stored(d)
    BY <1>1, <1>2, <2>1, <2>2
  <2> QED
    BY <1>2, <1>4, <2>3
<1> QED
  BY <1>3, <1>4 DEF FetchStep

LEMMA ApartKept ==
    ASSUME RetrievalTypeOK, PhaseInv, ApartInv, RetrievalStep
    PROVE  ApartInv'
<1>0. req \in Requests => req # Idle
  BY RequestsNotIdle
<1>e. Range(<<>>) = {} /\ DOMAIN <<>> = {}
  BY DEF Range
<1>s. LanesSame => Found' = Found
  BY DEF LanesSame, Found
<1>1. CASE BeginStep
  BY <1>1, <1>e DEF BeginStep, ApartInv, ServedDocs
<1>2. CASE FailStep
  BY <1>0, <1>2, <1>s DEF FailStep, ListsSame, ApartInv, ServedDocs
<1>3. ASSUME NEW l \in LaneStates, LexicalStep(l) \/ VectorStep(l) PROVE ApartInv'
  <2>1. req'.ids = <<>> /\ req'.docs = <<>> /\ req'.sources = <<>>
    BY <1>0, <1>3 DEF LexicalStep, VectorStep, ListsSame, PhaseInv
  <2> QED
    BY <1>e, <2>1 DEF ApartInv, ServedDocs
<1>4. ASSUME NEW c \in Seq(Docs), FuseStep(c) PROVE ApartInv'
  <2>1. req.ids = <<>> /\ req'.docs = <<>> /\ req'.sources = <<>>
    BY <1>0, <1>4 DEF FuseStep, PhaseInv
  <2>2. Range(req'.ids) \subseteq Found'
    BY <1>4, <1>e, <1>s, <2>1 DEF FuseStep
  <2> QED
    BY <1>e, <2>1, <2>2 DEF ApartInv, ServedDocs
<1>5. ASSUME NEW d \in Docs, FetchStep(d) PROVE ApartInv'
  <2>1. /\ Found' = Found /\ req # Idle /\ req'.sources = req.sources
    BY <1>0, <1>5, <1>s DEF FetchStep
  <2>2. ServedDocs' = ServedDocs
    BY <2>1 DEF ServedDocs
  <2>3. /\ d \in Range(req.ids) /\ Range(req'.ids) \subseteq Range(req.ids) /\ d \notin Range(req'.ids)
    BY <1>5, FetchMoves
  <2>4. \A i \in DOMAIN req.docs : req.docs[i].doc # d /\ req.docs[i].doc \in Found \ Range(req'.ids)
    BY <2>1, <2>3 DEF ApartInv
  <2>5. d \in Found \ Range(req'.ids)
    BY <2>1, <2>3 DEF ApartInv
  <2>6. Stored(d).doc = d
    BY DEF Stored
  <2>7. /\ \A i, j \in DOMAIN req'.docs : req'.docs[i].doc = req'.docs[j].doc => i = j
        /\ \A i \in DOMAIN req'.docs : req'.docs[i].doc \in Found \ Range(req'.ids)
    <3>1. CASE req'.docs = req.docs
      BY <2>1, <2>4, <3>1 DEF ApartInv
    <3>2. CASE /\ DOMAIN req'.docs = 1..(Len(req.docs) + 1)
               /\ \A i \in DOMAIN req.docs : req'.docs[i] = req.docs[i]
               /\ req'.docs[Len(req.docs) + 1] = Stored(d)
      <4>1. DOMAIN req.docs = 1..Len(req.docs) /\ Len(req.docs) \in Nat
        BY <1>5, FetchAppends
      <4>2. \A i \in DOMAIN req'.docs : i \in DOMAIN req.docs \/ i = Len(req.docs) + 1
        BY <3>2, <4>1
      <4>3. \A i, j \in DOMAIN req.docs : req.docs[i].doc = req.docs[j].doc => i = j
        BY <2>1 DEF ApartInv
      <4>4. \A i \in DOMAIN req'.docs : req'.docs[i].doc \in Found \ Range(req'.ids)
        BY <2>4, <2>5, <2>6, <3>2, <4>2
      <4> QED
        BY <2>4, <2>6, <3>2, <4>2, <4>3, <4>4
    <3> QED
      BY <1>5, <3>1, <3>2, FetchAppends
  <2>8. Range(req'.ids) \subseteq Found /\ ServedDocs \subseteq Found
    BY <2>1, <2>3 DEF ApartInv
  <2> QED
    BY <2>1, <2>2, <2>7, <2>8 DEF ApartInv
<1>6. ASSUME NEW order \in [DOMAIN req.docs -> DOMAIN req.docs], RankStep(order) PROVE ApartInv'
  <2>1. Found' = Found /\ req # Idle /\ req'.docs = req.docs /\ req'.ids = req.ids
    BY <1>0, <1>6, <1>s DEF RankStep
  <2>2. \A i \in DOMAIN req'.sources : \E j \in DOMAIN req.docs : req'.sources[i] = req.docs[j]
    BY <1>6 DEF RankStep
  <2>3. \A j \in DOMAIN req.docs : req.docs[j].doc \in Found
    BY <2>1 DEF ApartInv
  <2>4. ServedDocs' \subseteq Found
    BY <2>2, <2>3 DEF ServedDocs
  <2> QED
    BY <2>1, <2>4 DEF ApartInv
<1>7. ASSUME NEW d \in Docs, PutStep(d) \/ PointStep(d) PROVE ApartInv'
  BY <1>7 DEF PutStep, PointStep, ApartInv, ServedDocs, Found
<1>8. CASE UNCHANGED vars
  BY <1>8 DEF vars, ApartInv, ServedDocs, Found
<1> QED
  BY <1>1, <1>2, <1>3, <1>4, <1>5, <1>6, <1>7, <1>8 DEF RetrievalStep

LEMMA TypesKept ==
    ASSUME RetrievalTypeOK, PhaseInv, ApartInv, RetrievalStep
    PROVE  RetrievalTypeOK'
<1>0. req \in Requests => req # Idle
  BY RequestsNotIdle
<1>e. IsInjective(<<>>) /\ Len(<<>>) = 0 /\ RerankN \in Nat
  BY RetrievalAssumption DEF IsInjective
<1> DEFINE StoresOK == /\ os \in [Docs -> Contents] /\ qd \in [Docs -> Contents]
                       /\ \A d \in Docs : qd[d].ver <= os[d].ver
                       /\ writes \in 0..MaxWrites /\ settled \subseteq Docs
                       /\ owners \in [Docs -> SUBSET DocTenants]
           Short(s) == Len(s) <= RerankN /\ IsInjective(s)
           SourcesOK == /\ Len(req.sources) <= req.topK
                        /\ IsInjective([i \in DOMAIN req.sources |-> req.sources[i].doc])
<1>t. StoresOK
  BY DEF RetrievalTypeOK
<1>o. \A x \in Contents : Owner(x) \subseteq DocTenants
  BY DEF Contents, Owner
<1>r. req # Idle => Short(req.bm25.ids) /\ Short(req.vec.ids) /\ Short(req.ids) /\ SourcesOK
  BY DEF RetrievalTypeOK
<1>q. ASSUME StoresOK', req' # Idle => /\ req' \in Requests
                                       /\ Short(req'.bm25.ids) /\ Short(req'.vec.ids) /\ Short(req'.ids)
                                       /\ SourcesOK'
      PROVE  RetrievalTypeOK'
  BY <1>q DEF RetrievalTypeOK
<1>u. UNCHANGED <<os, qd, writes, settled, owners>> => StoresOK'
  BY <1>t
<1>v. req'.sources = req.sources /\ req'.topK = req.topK /\ SourcesOK => SourcesOK'
  OBVIOUS
<1> HIDE DEF StoresOK, Short, SourcesOK
<1>w. Short(<<>>)
  BY <1>e DEF Short
<1>1. CASE BeginStep
  <2>1. StoresOK'
    BY <1>1, <1>t, <1>o DEF BeginStep, StoresOK
  <2>2. SourcesOK'
    <3>1. req'.sources = <<>> /\ req'.topK \in Nat
      BY <1>1 DEF BeginStep, Requests
    <3>2. DOMAIN req'.sources = {}
      BY <3>1
    <3> QED
      BY <1>e, <3>1, <3>2 DEF SourcesOK, IsInjective
  <2> QED
    BY <1>1, <1>q, <1>w, <2>1, <2>2 DEF BeginStep
<1>2. CASE FailStep
  BY <1>0, <1>2, <1>q, <1>r, <1>u, <1>v DEF FailStep, LanesSame, AskedSame, ListsSame
<1>3. ASSUME NEW l \in LaneStates, LexicalStep(l) PROVE RetrievalTypeOK'
  <2>1. Short(l.ids)
    BY <1>3 DEF LexicalStep, LaneOf, Short
  <2> QED
    BY <1>0, <1>3, <1>q, <1>r, <1>u, <1>v, <2>1 DEF LexicalStep, AskedSame, ListsSame
<1>4. ASSUME NEW l \in LaneStates, VectorStep(l) PROVE RetrievalTypeOK'
  <2>1. Short(l.ids)
    BY <1>4 DEF VectorStep, LaneOf, Short
  <2> QED
    BY <1>0, <1>4, <1>q, <1>r, <1>u, <1>v, <2>1 DEF VectorStep, AskedSame, ListsSame
<1>5. ASSUME NEW c \in Seq(Docs), FuseStep(c) PROVE RetrievalTypeOK'
  <2>1. Short(c)
    BY <1>5 DEF FuseStep, Short
  <2>2. Short(req'.ids)
    BY <1>0, <1>5, <1>r, <2>1 DEF FuseStep
  <2> QED
    BY <1>0, <1>5, <1>q, <1>r, <1>u, <1>v, <2>2 DEF FuseStep, LanesSame, AskedSame
<1>6. ASSUME NEW d \in Docs, FetchStep(d) PROVE RetrievalTypeOK'
  <2>1. Short(req'.ids)
    <3>1. /\ Len(req.ids) \in Nat /\ Len(req'.ids) \in Nat /\ IsInjective(req'.ids)
          /\ Len(req'.ids) = Len(req.ids) - 1 /\ Len(req.ids) <= RerankN
      BY <1>0, <1>6, <1>r, FetchMoves DEF FetchStep, Short
    <3> QED
      BY <1>e, <3>1 DEF Short
  <2> QED
    BY <1>0, <1>6, <1>q, <1>r, <1>u, <1>v, <2>1 DEF FetchStep, LanesSame, AskedSame
<1>7. ASSUME NEW order \in [DOMAIN req.docs -> DOMAIN req.docs], RankStep(order) PROVE RetrievalTypeOK'
  <2>1. /\ req # Idle /\ req.topK \in Nat /\ Len(req.docs) \in Nat
    BY <1>0, <1>7 DEF RankStep, Requests
  <2>2. Len(req'.sources) <= req'.topK
    BY <1>7, <2>1 DEF RankStep, AskedSame
  <2>3. ASSUME NEW i \in DOMAIN req'.sources, NEW j \in DOMAIN req'.sources,
               req'.sources[i].doc = req'.sources[j].doc
        PROVE  i = j
    <3>1. /\ i \in DOMAIN order /\ j \in DOMAIN order
          /\ req'.sources[i] = req.docs[order[i]] /\ req'.sources[j] = req.docs[order[j]]
      BY <1>7 DEF RankStep
    <3>2. order[i] = order[j]
      BY <2>1, <2>3, <3>1 DEF ApartInv
    <3> QED
      BY <1>7, <3>1, <3>2 DEF RankStep, IsInjective
  <2>4. SourcesOK'
    BY <2>2, <2>3 DEF SourcesOK, IsInjective
  <2> QED
    BY <1>7, <1>q, <1>r, <1>u, <2>1, <2>4 DEF RankStep, LanesSame
<1>8. ASSUME NEW d \in Docs, PutStep(d) PROVE RetrievalTypeOK'
  <2>1. \A c \in Docs : qd'[c].ver <= os'[c].ver
    <3> SUFFICES ASSUME NEW c \in Docs PROVE qd'[c].ver <= os'[c].ver
      OBVIOUS
    <3>1. qd' = qd /\ qd[c].ver <= os[c].ver /\ qd[c].ver \in Int /\ os[c].ver \in Int /\ os'[c].ver \in Int
      BY <1>8, <1>t DEF PutStep, StoresOK, Contents
    <3>2. os[c].ver <= os'[c].ver
      BY <1>8, <3>1 DEF PutStep
    <3> QED
      BY <3>1, <3>2
  <2>4. owners' \in [Docs -> SUBSET DocTenants]
    <3>1. Owner(os'[d]) \subseteq DocTenants
      BY <1>8, <1>o DEF PutStep
    <3> QED
      BY <1>8, <1>t, <3>1 DEF PutStep, StoresOK
  <2>2. StoresOK'
    BY <1>8, <1>t, <2>1, <2>4 DEF PutStep, StoresOK
  <2>3. req' = req
    BY <1>8 DEF PutStep
  <2> QED
    BY <2>2, <2>3 DEF RetrievalTypeOK, StoresOK
<1>9. ASSUME NEW d \in Docs, PointStep(d) PROVE RetrievalTypeOK'
  <2>1. qd' \in [Docs -> Contents] /\ \A c \in Docs : qd'[c] = IF c = d THEN os[d] ELSE qd[c]
    BY <1>9, <1>t DEF PointStep, StoresOK
  <2>2. os[d].ver <= os[d].ver
    BY <1>t DEF StoresOK, Contents
  <2>3. StoresOK'
    BY <1>9, <1>t, <2>1, <2>2 DEF PointStep, StoresOK
  <2>4. req' = req
    BY <1>9 DEF PointStep
  <2> QED
    BY <2>3, <2>4 DEF RetrievalTypeOK, StoresOK
<1>10. CASE UNCHANGED vars
  BY <1>10 DEF vars, RetrievalTypeOK
<1> QED
  BY <1>1, <1>2, <1>3, <1>4, <1>5, <1>6, <1>7, <1>8, <1>9, <1>10 DEF RetrievalStep

LEMMA CurrentKept ==
    ASSUME RetrievalTypeOK, PhaseInv, CurrentInv, RetrievalStep
    PROVE  CurrentInv'
<1>0. req \in Requests => req # Idle
  BY RequestsNotIdle
<1>v. \A d \in Docs : os[d].ver \in Int
  BY DEF RetrievalTypeOK, Contents
<1>1. CASE BeginStep
  BY <1>1, <1>v DEF BeginStep, CurrentInv
<1>2. CASE FailStep
  BY <1>0, <1>2 DEF FailStep, AskedSame, ListsSame, CurrentInv
<1>3. ASSUME NEW l \in LaneStates, LexicalStep(l) \/ VectorStep(l) PROVE CurrentInv'
  BY <1>0, <1>3 DEF LexicalStep, VectorStep, AskedSame, ListsSame, CurrentInv
<1>4. ASSUME NEW c \in Seq(Docs), FuseStep(c) PROVE CurrentInv'
  BY <1>0, <1>4 DEF FuseStep, AskedSame, CurrentInv
<1>5. ASSUME NEW d \in Docs, FetchStep(d) PROVE CurrentInv'
  <2>1. /\ req # Idle /\ os' = os /\ req'.floor = req.floor /\ req'.sources = <<>>
    BY <1>0, <1>5 DEF FetchStep, AskedSame, PhaseInv
  <2>2. os[d].live => LET x == Stored(d) IN x.live /\ x.ver > 0 /\ x.ver >= req.floor[x.doc].ver
    BY <2>1 DEF Stored, RetrievalTypeOK, Contents, CurrentInv
  <2>3. \A i \in DOMAIN req'.docs :
            \/ i \in DOMAIN req.docs /\ req'.docs[i] = req.docs[i]
            \/ req'.docs[i] = Stored(d) /\ os[d].live
    BY <1>5, FetchAppends
  <2>4. \A i \in DOMAIN req'.docs :
            LET x == req'.docs[i] IN x.live /\ x.ver > 0 /\ x.ver >= req.floor[x.doc].ver
    BY <2>1, <2>2, <2>3 DEF CurrentInv
  <2> QED
    BY <2>1, <2>4 DEF CurrentInv
<1>6. ASSUME NEW order \in [DOMAIN req.docs -> DOMAIN req.docs], RankStep(order) PROVE CurrentInv'
  <2>1. /\ req # Idle /\ os' = os /\ req'.floor = req.floor /\ req'.docs = req.docs
    BY <1>0, <1>6 DEF RankStep, AskedSame
  <2>2. \A i \in DOMAIN req'.sources : \E j \in DOMAIN req'.docs : req'.sources[i] = req'.docs[j]
    BY <1>6, <2>1 DEF RankStep
  <2> QED
    BY <2>1, <2>2 DEF CurrentInv
<1>7. ASSUME NEW d \in Docs, PutStep(d) PROVE CurrentInv'
  <2>1. req' = req /\ \A c \in Docs : os'[c].ver \in Int /\ os'[c].ver >= os[c].ver
    BY <1>7, <1>v DEF PutStep, Contents
  <2>2. req # Idle => \A c \in Docs : req.floor[c].ver \in Int
    BY DEF RetrievalTypeOK, Requests, Contents
  <2>3. req # Idle => \A c \in Docs : os'[c].ver >= req.floor[c].ver
    BY <1>v, <2>1, <2>2 DEF CurrentInv
  <2> QED
    BY <2>1, <2>3 DEF CurrentInv
<1>8. CASE UNCHANGED vars \/ \E d \in Docs : PointStep(d)
  BY <1>8 DEF vars, PointStep, CurrentInv
<1> QED
  BY <1>1, <1>2, <1>3, <1>4, <1>5, <1>6, <1>7, <1>8 DEF RetrievalStep

LEMMA FilterKeys ==
    ASSUME NEW f \in Scoped
    PROVE  DOMAIN f \subseteq {"tenant_id", "category"}
<1>1. PICK cf \in ClientFilters, t \in Tenants : f = scopeFilters(cf, t)
  BY DEF Scoped
<1>2. DOMAIN cf \subseteq {"tenant_id", "category"}
  BY RetrievalAssumption
<1> QED
  BY <1>1, <1>2 DEF scopeFilters

\* Hits of OpenSearch pass the filters.
LEMMA LexicalPasses ==
    ASSUME NEW d \in LexicalHits(req.filters)
    PROVE  Passes(d)
BY DEF LexicalHits, Passes

\* With a tenant among the filters Qdrant has no hits: a keyword is no number.
LEMMA NoVectorHits ==
    ASSUME NEW filters, "tenant_id" \in DOMAIN filters
    PROVE  VectorHits(filters) = {}
<1> SUFFICES ASSUME NEW d \in VectorHits(filters) PROVE FALSE
  OBVIOUS
<1>1. Payload(d)["tenant_id"] = Keyword(filters["tenant_id"])
  BY DEF VectorHits, Matches
<1>2. Payload(d)["tenant_id"] = Number(qd[d].tenant)
  BY DEF Payload
<1>3. "integer" = "keyword"
  BY <1>1, <1>2 DEF Keyword, Number
<1> QED
  BY <1>3

\* Settled hits of Qdrant, which exist only without a tenant among the filters:
\* what they passed with the category of the point they pass with that of the
\* document.
LEMMA VectorPasses ==
    ASSUME req \in Requests, NEW d \in VectorHits(req.filters), d \in settled => os[d] = qd[d]
    PROVE  Passes(d)
<1>1. Matches(Payload(d), req.filters)
  BY DEF VectorHits
<1>2. DOMAIN req.filters \subseteq {"category"}
  BY NoVectorHits, FilterKeys DEF Requests
<1>3. ASSUME d \in settled PROVE Matches(Fields(d), req.filters)
  <2>1. Payload(d)["category"] = Keyword(qd[d].cat) /\ Fields(d)["category"] = Keyword(os[d].cat)
    BY DEF Payload, Fields
  <2>2. \A k \in DOMAIN req.filters : k = "category" /\ Payload(d)[k] = Keyword(req.filters[k])
    BY <1>1, <1>2 DEF Matches
  <2> QED
    BY <1>3, <2>1, <2>2 DEF Matches
<1> QED
  BY <1>3 DEF Passes

LEMMA PassKept ==
    ASSUME RetrievalTypeOK, PassInv, RetrievalStep
    PROVE  PassInv'
<1>0. /\ req \in Requests => req # Idle
      /\ req' \in Requests => req' # Idle
  BY RequestsNotIdle
<1>p. ASSUME os' = os, settled' = settled, req'.filters = req.filters, NEW d, Passes(d)
      PROVE  Passes(d)'
  BY <1>p DEF Passes, Fields
<1>q. ASSUME UNCHANGED <<os, qd, settled>>, req # Idle, req' # Idle, req'.filters = req.filters,
             \A d \in Found' : d \in Found \/ Passes(d)
      PROVE  PassInv'
  BY <1>p, <1>q DEF PassInv
<1>1. CASE BeginStep
  <2>1. Found' = {}
    BY <1>1 DEF BeginStep, Found, Range
  <2> QED
    BY <1>0, <1>1, <2>1 DEF BeginStep, PassInv
<1>2. CASE FailStep \/ (\E c \in Seq(Docs) : FuseStep(c)) \/ (\E d \in Docs : FetchStep(d))
           \/ \E order \in [DOMAIN req.docs -> DOMAIN req.docs] : RankStep(order)
  <2>1. /\ UNCHANGED <<os, qd, settled>> /\ req # Idle /\ req' # Idle
        /\ LanesSame /\ req'.filters = req.filters
    BY <1>0, <1>2 DEF FailStep, FuseStep, FetchStep, RankStep, AskedSame
  <2>2. Found' = Found
    BY <2>1 DEF LanesSame, Found
  <2> QED
    BY <1>q, <2>1, <2>2
<1>3. ASSUME NEW l \in LaneStates, LexicalStep(l) PROVE PassInv'
  <2>1. /\ UNCHANGED <<os, qd, settled>> /\ req # Idle /\ req' # Idle /\ req'.filters = req.filters
        /\ req'.bm25 = l /\ req'.vec = req.vec /\ Range(l.ids) \subseteq LexicalHits(req.filters)
    BY <1>0, <1>3 DEF LexicalStep, AskedSame, LaneOf
  <2>2. \A d \in Found' : d \in Found \/ Passes(d)
    BY <2>1, LexicalPasses DEF Found
  <2> QED
    BY <1>q, <2>1, <2>2
<1>4. ASSUME NEW l \in LaneStates, VectorStep(l) PROVE PassInv'
  <2>1. /\ UNCHANGED <<os, qd, settled>> /\ req # Idle /\ req' # Idle /\ req'.filters = req.filters
        /\ req'.vec = l /\ req'.bm25 = req.bm25 /\ Range(l.ids) \subseteq VectorHits(req.filters)
        /\ req \in Requests
    BY <1>0, <1>4 DEF VectorStep, AskedSame, LaneOf
  <2>2. \A d \in Found' : d \in Found \/ Passes(d)
    <3>1. \A d \in VectorHits(req.filters) : Passes(d)
      BY <2>1, VectorPasses DEF PassInv
    <3> QED
      BY <2>1, <3>1 DEF Found
  <2> QED
    BY <1>q, <2>1, <2>2
<1>5. ASSUME NEW d \in Docs, PutStep(d) PROVE PassInv'
  <2>1. req' = req /\ qd' = qd /\ settled' = settled \ {d} /\ Found' = Found
        /\ \A c \in Docs : c # d => os'[c] = os[c]
    BY <1>5 DEF PutStep, Found
  <2>2. settled \subseteq Docs
    BY DEF RetrievalTypeOK
  <2>3. \A c : Passes(c) => Passes(c)'
    BY <2>1, <2>2 DEF Passes, Fields
  <2> QED
    BY <2>1, <2>2, <2>3 DEF PassInv
<1>6. ASSUME NEW d \in Docs, PointStep(d) PROVE PassInv'
  <2>1. UNCHANGED <<os, req, settled>> /\ Found' = Found
    BY <1>6 DEF PointStep, Found
  <2>2. \A c \in settled : qd'[c] = qd[c]
    BY <1>6 DEF PointStep, PassInv, RetrievalTypeOK
  <2>3. \A c : Passes(c) => Passes(c)'
    BY <2>1 DEF Passes, Fields
  <2> QED
    BY <2>1, <2>2, <2>3 DEF PassInv
<1>7. CASE UNCHANGED vars
  BY <1>7 DEF vars, PassInv, Passes, Fields, Found
<1> QED
  BY <1>1, <1>2, <1>3, <1>4, <1>5, <1>6, <1>7 DEF RetrievalStep

\* A hit of OpenSearch belongs to the tenant of the filters.
LEMMA LexicalOwned ==
    ASSUME req.tenant # NoTenant, Bound(req.filters, req.tenant),
           NEW d \in LexicalHits(req.filters)
    PROVE  d \in Docs /\ req.tenant \in Owner(os[d])
<1>1. d \in Docs /\ os[d].live /\ Matches(Fields(d), req.filters)
  BY DEF LexicalHits
<1>2. Fields(d)["tenant_id"] = Keyword(req.tenant)
  BY <1>1 DEF Matches, Bound
<1>3. Fields(d)["tenant_id"] = Keyword(os[d].tenant)
  BY DEF Fields
<1>4. req.tenant = os[d].tenant
  BY <1>2, <1>3 DEF Keyword
<1> QED
  BY <1>1, <1>4 DEF Owner

LEMMA TenantKept ==
    ASSUME RetrievalTypeOK, TenantInv, RetrievalStep
    PROVE  TenantInv'
<1>0. req \in Requests => req # Idle
  BY RequestsNotIdle
<1>q. ASSUME UNCHANGED <<os, owners>>, req # Idle, AskedSame,
             req.tenant # NoTenant => \A d \in Found' : d \in Found \/ req.tenant \in owners[d]
      PROVE  TenantInv'
  BY <1>q DEF TenantInv, AskedSame
<1>1. CASE BeginStep
  <2>1. Found' = {}
    BY <1>1 DEF BeginStep, Found, Range
  <2>2. \A d \in Docs : Owner(os'[d]) \subseteq owners'[d]
    BY <1>1 DEF BeginStep
  <2> QED
    BY <1>1, <2>1, <2>2 DEF BeginStep, TenantInv
<1>2. CASE FailStep \/ (\E c \in Seq(Docs) : FuseStep(c)) \/ (\E d \in Docs : FetchStep(d))
           \/ \E order \in [DOMAIN req.docs -> DOMAIN req.docs] : RankStep(order)
  <2>1. UNCHANGED <<os, owners>> /\ req # Idle /\ LanesSame /\ AskedSame
    BY <1>0, <1>2 DEF FailStep, FuseStep, FetchStep, RankStep
  <2>2. Found' = Found
    BY <2>1 DEF LanesSame, Found
  <2> QED
    BY <1>q, <2>1, <2>2
<1>3. ASSUME NEW l \in LaneStates, LexicalStep(l) PROVE TenantInv'
  <2>1. /\ UNCHANGED <<os, owners>> /\ req # Idle /\ AskedSame
        /\ req'.bm25 = l /\ req'.vec = req.vec /\ Range(l.ids) \subseteq LexicalHits(req.filters)
    BY <1>0, <1>3 DEF LexicalStep, LaneOf
  <2>2. req.tenant # NoTenant => \A d \in LexicalHits(req.filters) : req.tenant \in owners[d]
    BY <2>1, LexicalOwned DEF TenantInv
  <2>3. req.tenant # NoTenant => \A d \in Found' : d \in Found \/ req.tenant \in owners[d]
    BY <2>1, <2>2 DEF Found
  <2> QED
    BY <1>q, <2>1, <2>3
<1>4. ASSUME NEW l \in LaneStates, VectorStep(l) PROVE TenantInv'
  <2>1. /\ UNCHANGED <<os, owners>> /\ req # Idle /\ AskedSame
        /\ req'.vec = l /\ req'.bm25 = req.bm25 /\ Range(l.ids) \subseteq VectorHits(req.filters)
    BY <1>0, <1>4 DEF VectorStep, LaneOf
  <2>2. req.tenant # NoTenant => VectorHits(req.filters) = {}
    BY <2>1, NoVectorHits DEF TenantInv, Bound
  <2>3. req.tenant # NoTenant => \A d \in Found' : d \in Found
    BY <2>1, <2>2 DEF Found
  <2> QED
    BY <1>q, <2>1, <2>3
<1>5. ASSUME NEW d \in Docs, PutStep(d) PROVE TenantInv'
  <2>1. req' = req /\ Found' = Found /\ \A c \in Docs : c # d => os'[c] = os[c]
    BY <1>5 DEF PutStep, Found
  <2>2. /\ owners \in [Docs -> SUBSET DocTenants]
        /\ owners' = [owners EXCEPT ![d] = @ \cup Owner(os'[d])]
    BY <1>5 DEF PutStep, RetrievalTypeOK
  <2>3. \A c \in Docs : owners[c] \subseteq owners'[c]
    BY <2>2
  <2>4. Owner(os'[d]) \subseteq owners'[d]
    BY <2>2
  <2>5. req # Idle => Found \subseteq Docs
    BY FoundFinite DEF RetrievalTypeOK
  <2>6. req # Idle => \A c \in Docs : Owner(os'[c]) \subseteq owners'[c]
    <3> SUFFICES ASSUME req # Idle, NEW c \in Docs, c # d PROVE Owner(os'[c]) \subseteq owners'[c]
      BY <2>4
    <3>1. os'[c] = os[c] /\ Owner(os[c]) \subseteq owners[c]
      BY <2>1 DEF TenantInv
    <3> QED
      BY <2>3, <3>1
  <2> QED
    BY <2>1, <2>3, <2>5, <2>6 DEF TenantInv
<1>6. CASE UNCHANGED vars \/ \E d \in Docs : PointStep(d)
  <2>1. UNCHANGED <<os, req, owners>>
    BY <1>6 DEF vars, PointStep
  <2> QED
    BY <2>1 DEF TenantInv, Found
<1> QED
  BY <1>1, <1>2, <1>3, <1>4, <1>5, <1>6 DEF RetrievalStep

LEMMA RoomIs ==
    ASSUME req \in Requests
    PROVE  /\ RoomForAll <=> Cardinality(Found) <= RerankN /\ Cardinality(Found) <= req.topK
           /\ Cardinality(Found) \in Nat
<1>1. RerankN \in Int /\ req.topK \in Int /\ Cardinality(Found) \in Nat
  BY RetrievalAssumption, FoundFinite DEF Requests
<1>2. Min({RerankN, req.topK}) = IF RerankN <= req.topK THEN RerankN ELSE req.topK
  BY <1>1, MinOfTwo
<1> QED
  BY <1>1, <1>2 DEF RoomForAll

\* A settled document that passes the filters without a tenant is a hit of Qdrant.
LEMMA FindableInQdrant ==
    ASSUME RetrievalTypeOK, req \in Requests, PassInv, "tenant_id" \notin DOMAIN req.filters
    PROVE  Findable \subseteq VectorHits(req.filters)
<1> SUFFICES ASSUME NEW d \in Findable PROVE d \in VectorHits(req.filters)
  OBVIOUS
<1>1. d \in settled /\ os[d].live /\ Matches(Fields(d), req.filters)
  BY DEF Findable
<1>2. d \in Docs /\ os[d] = qd[d]
  BY <1>1 DEF RetrievalTypeOK, PassInv
<1>3. DOMAIN req.filters \subseteq {"category"}
  BY FilterKeys DEF Requests
<1>4. Payload(d)["category"] = Keyword(qd[d].cat) /\ Fields(d)["category"] = Keyword(os[d].cat)
  BY DEF Payload, Fields
<1>5. \A k \in DOMAIN req.filters : k = "category" /\ Fields(d)[k] = Keyword(req.filters[k])
  BY <1>1, <1>3 DEF Matches
<1>6. Matches(Payload(d), req.filters)
  BY <1>2, <1>4, <1>5 DEF Matches
<1> QED
  BY <1>1, <1>2, <1>6 DEF VectorHits

\* The two parts of ServeInv: what the lanes list, and what becomes of it.
LanesComplete ==
    /\ Lists(req.bm25) =>
          \A d \in Findable : <<d, os[d].ver>> \in Lexical => d \in Range(req.bm25.ids)
    /\ Lists(req.vec) /\ "tenant_id" \notin DOMAIN req.filters =>
          \A d \in Findable : d \in Range(req.vec.ids)
NothingDropped ==
    /\ RoomForAll /\ req.at \in {"fetch", "rerank"} =>
          /\ \A d \in Findable \cap Found : Coming(d)
          /\ Len(req.ids) + Len(req.docs) <= Cardinality(Found)
    /\ RoomForAll /\ Retrieved /\ req.status = "ok" =>
          \A d \in Findable \cap Found : d \in ServedDocs

LEMMA FetchDropsNone ==
    ASSUME RetrievalTypeOK, PhaseInv, NothingDropped, NEW d \in Docs, FetchStep(d)
    PROVE  NothingDropped'
<1>0. req \in Requests /\ req # Idle /\ req.at = "fetch"
  BY RequestsNotIdle DEF FetchStep
<1>m. req.missed \subseteq req'.missed
  BY DEF FetchStep
<1>1. Found' = Found /\ Findable' \subseteq Findable /\ (RoomForAll' <=> RoomForAll)
  BY <1>m DEF FetchStep, LanesSame, AskedSame, Found, Findable, Fields, RoomForAll
<1> SUFFICES ASSUME RoomForAll
             PROVE  /\ \A e \in Findable' \cap Found : Coming(e)'
                    /\ Len(req'.ids) + Len(req'.docs) <= Cardinality(Found)
                    /\ req'.at = "retrieved" => Findable' \cap Found = {}
  BY <1>1 DEF NothingDropped, Retrieved
<1>2. /\ \A e \in Findable \cap Found : Coming(e)
      /\ Len(req.ids) + Len(req.docs) <= Cardinality(Found)
  BY <1>0 DEF NothingDropped
<1>3. /\ Range(req.ids) = Range(req'.ids) \cup {d}
      /\ Len(req.ids) \in Nat /\ Len(req'.ids) \in Nat /\ Len(req'.ids) = Len(req.ids) - 1
  BY FetchMoves DEF FetchStep
<1>4. /\ DOMAIN req.docs = 1..Len(req.docs) /\ Len(req.docs) \in Nat
      /\ \/ (~os[d].live \/ d \in req'.missed) /\ req'.docs = req.docs
         \/ /\ os[d].live /\ Len(req'.docs) = Len(req.docs) + 1
            /\ DOMAIN req'.docs = 1..(Len(req.docs) + 1)
            /\ \A i \in DOMAIN req.docs : req'.docs[i] = req.docs[i]
            /\ req'.docs[Len(req.docs) + 1] = Stored(d)
  BY FetchAppends
<1>5. Cardinality(Found) \in Nat
  BY <1>0, FoundFinite
<1>s. /\ req.ids \in Seq(Docs) /\ req'.ids \in Seq(Docs)
      /\ req.docs \in Seq(Fetched) /\ req'.docs \in Seq(Fetched)
  BY DEF FetchStep, Requests
<1>6. Len(req'.ids) + Len(req'.docs) <= Cardinality(Found)
  <2> DEFINE m == Len(req.ids)
             n == Len(req.docs)
             p == Len(req'.ids)
             q == Len(req'.docs)
             c == Cardinality(Found)
  <2>1. m \in Int /\ n \in Int /\ p \in Int /\ q \in Int /\ c \in Int
    BY <1>5, <1>s
  <2>2. p = m - 1 /\ m + n <= c
    BY <1>2, <1>3
  <2>3. q <= n + 1
    BY <1>4
  <2> HIDE DEF m, n, p, q, c
  <2>4. p + q <= c
    BY <2>1, <2>2, <2>3
  <2> QED
    BY <2>4 DEF p, q, c
<1>7. ASSUME NEW e \in Findable' \cap Found PROVE Coming(e)'
  <2>1. CASE e = d
    <3>1. os[d].live /\ d \notin req'.missed /\ Stored(d).doc = d
      BY <1>1, <2>1 DEF Findable, Stored
    <3>2. Len(req.docs) + 1 \in DOMAIN req'.docs /\ req'.docs[Len(req.docs) + 1].doc = d
      BY <1>4, <3>1
    <3> QED
      BY <2>1, <3>2 DEF Coming
  <2>2. CASE e \in Range(req.ids) /\ e # d
    BY <1>3, <2>2 DEF Coming
  <2>3. CASE \E i \in DOMAIN req.docs : req.docs[i].doc = e
    <3>1. PICK i \in DOMAIN req.docs : req.docs[i].doc = e
      BY <2>3
    <3>2. i \in DOMAIN req'.docs /\ req'.docs[i] = req.docs[i]
      BY <1>4
    <3> QED
      BY <3>1, <3>2 DEF Coming
  <2> QED
    BY <1>1, <1>2, <2>1, <2>2, <2>3 DEF Coming
<1>8. ASSUME req'.at = "retrieved" PROVE Findable' \cap Found = {}
  <2>0. req'.docs = <<>> /\ ~(Len(req.ids) > 1)
    BY <1>8 DEF FetchStep
  <2> DEFINE m == Len(req.ids)
             p == Len(req'.ids)
  <2>1. m \in Nat /\ p \in Nat /\ p = m - 1 /\ ~(m > 1)
    BY <1>3, <1>s, <2>0
  <2> HIDE DEF m, p
  <2>4. p = 0
    BY <2>1
  <2>2. req'.ids = <<>>
    BY <2>4, EmptySeq DEF FetchStep, Requests, p
  <2>3. \A e : ~Coming(e)'
    BY <2>0, <2>2 DEF Coming, Range
  <2> QED
    BY <1>7, <2>3
<1> QED
  BY <1>6, <1>7, <1>8

LEMMA RankDropsNone ==
    ASSUME RetrievalTypeOK, PhaseInv, NothingDropped,
           NEW order \in [DOMAIN req.docs -> DOMAIN req.docs], RankStep(order)
    PROVE  NothingDropped'
<1>0. req \in Requests /\ req # Idle /\ req.at = "rerank" /\ req.ids = <<>>
  BY RequestsNotIdle DEF RankStep, PhaseInv
<1>1. Found' = Found /\ Findable' = Findable /\ (RoomForAll' <=> RoomForAll)
  BY DEF RankStep, LanesSame, AskedSame, Found, Findable, Fields, RoomForAll
<1> SUFFICES ASSUME RoomForAll, NEW e \in Findable \cap Found PROVE e \in ServedDocs'
  BY <1>1 DEF NothingDropped, RankStep
<1>2. Coming(e) /\ Len(req.ids) + Len(req.docs) <= Cardinality(Found)
  BY <1>0 DEF NothingDropped
<1>3. PICK j \in DOMAIN req.docs : req.docs[j].doc = e
  BY <1>0, <1>2 DEF Coming, Range
<1>4. Cardinality(Found) <= req.topK /\ Cardinality(Found) \in Nat
  BY <1>0, RoomIs
<1>5. /\ DOMAIN req.docs = 1..Len(req.docs) /\ Len(req.docs) \in Nat /\ req.topK \in Nat
      /\ DOMAIN req'.sources = 1..Len(req'.sources)
  BY DEF RankStep, Requests
<1>6. Len(req.docs) <= req.topK
  BY <1>0, <1>2, <1>4, <1>5
<1>7. Len(req'.sources) = Len(req.docs)
  BY <1>5, <1>6 DEF RankStep
<1>8. PICK i \in DOMAIN order : order[i] = j
  BY DEF RankStep, Range
<1>9. i \in DOMAIN req'.sources
  BY <1>5, <1>7
<1>10. req'.sources[i].doc = e
  BY <1>3, <1>8, <1>9 DEF RankStep
<1> QED
  BY <1>9, <1>10 DEF ServedDocs

LEMMA ServeKept ==
    ASSUME RetrievalTypeOK, PhaseInv, PassInv, ServeInv, RetrievalStep
    PROVE  ServeInv'
<1>0. /\ req \in Requests => req # Idle
      /\ req' \in Requests => req' # Idle
  BY RequestsNotIdle
<1>i. ServeInv <=> (req # Idle => LanesComplete /\ NothingDropped)
  BY DEF ServeInv, LanesComplete, NothingDropped
<1>j. ServeInv' <=> (req' # Idle => LanesComplete' /\ NothingDropped')
  BY DEF ServeInv, LanesComplete, NothingDropped
<1>f. ASSUME UNCHANGED <<os, settled>>, req'.filters = req.filters, req.missed \subseteq req'.missed
      PROVE  Findable' \subseteq Findable
  BY <1>f DEF Findable, Fields
<1>l. ASSUME UNCHANGED <<os, settled>>, LanesSame, req'.filters = req.filters,
             req.missed \subseteq req'.missed, LanesComplete
      PROVE  LanesComplete'
  BY <1>f, <1>l DEF LanesComplete, Lists, LanesSame
<1>n. ASSUME req' \in Requests, req'.at = "lanes"
      PROVE  NothingDropped'
  BY <1>n DEF NothingDropped, Retrieved
<1>1. CASE BeginStep
  <2>1. LanesComplete'
    BY <1>1 DEF BeginStep, LanesComplete, Lists
  <2> QED
    BY <1>1, <1>j, <1>n, <2>1 DEF BeginStep
<1>2. CASE FailStep
  <2>1. LanesComplete'
    BY <1>0, <1>2, <1>i, <1>l DEF FailStep, AskedSame, ListsSame
  <2>2. NothingDropped'
    BY <1>2 DEF FailStep, NothingDropped
  <2> QED
    BY <1>j, <2>1, <2>2
<1>3. ASSUME NEW l \in LaneStates, LexicalStep(l) PROVE ServeInv'
  <2>1. /\ UNCHANGED <<os, settled>> /\ req'.filters = req.filters /\ req # Idle
        /\ req'.bm25 = l /\ req'.vec = req.vec
        /\ Lists(l) => Range(l.ids) = LexicalHits(req.filters)
    BY <1>0, <1>3 DEF LexicalStep, AskedSame, LaneOf
  <2>m. req.missed \subseteq req'.missed
    BY <1>3 DEF LexicalStep, ListsSame
  <2>2. \A d \in Findable : <<d, os[d].ver>> \in Lexical => d \in LexicalHits(req.filters)
    BY DEF Findable, LexicalHits, RetrievalTypeOK
  <2>3. LanesComplete'
    BY <1>f, <1>i, <2>1, <2>2, <2>m DEF LanesComplete, Lists
  <2> QED
    BY <1>3, <1>j, <1>n, <2>3 DEF LexicalStep
<1>4. ASSUME NEW l \in LaneStates, VectorStep(l) PROVE ServeInv'
  <2>1. /\ UNCHANGED <<os, settled>> /\ req'.filters = req.filters /\ req # Idle /\ req \in Requests
        /\ req'.vec = l /\ req'.bm25 = req.bm25
        /\ Lists(l) => Range(l.ids) = VectorHits(req.filters)
    BY <1>0, <1>4 DEF VectorStep, AskedSame, LaneOf
  <2>m. req.missed \subseteq req'.missed
    BY <1>4 DEF VectorStep, ListsSame
  <2>2. "tenant_id" \notin DOMAIN req.filters => Findable \subseteq VectorHits(req.filters)
    BY <2>1, FindableInQdrant
  <2>3. LanesComplete'
    BY <1>f, <1>i, <2>1, <2>2, <2>m DEF LanesComplete, Lists
  <2> QED
    BY <1>4, <1>j, <1>n, <2>3 DEF VectorStep
<1>5. ASSUME NEW c \in Seq(Docs), FuseStep(c) PROVE ServeInv'
  <2>1. LanesComplete'
    BY <1>0, <1>5, <1>i, <1>l DEF FuseStep, AskedSame
  <2>2. /\ req \in Requests /\ req # Idle /\ req.docs = <<>> /\ Found' = Found
        /\ (RoomForAll' <=> RoomForAll)
    BY <1>0, <1>5 DEF FuseStep, PhaseInv, LanesSame, AskedSame, Found, RoomForAll
  <2>3. RoomForAll => Range(c) = Found
    BY <1>5, <2>2, RoomIs DEF FuseStep
  <2>4. CASE c = <<>>
    <3>1. RoomForAll => Found = {}
      BY <2>3, <2>4 DEF Range
    <3>2. NothingDropped'
      BY <1>5, <2>2, <2>4, <3>1 DEF FuseStep, NothingDropped
    <3> QED
      BY <1>j, <2>1, <3>2
  <2>5. CASE c # <<>>
    <3>1. /\ req'.at = "fetch" /\ req'.ids = c /\ req'.docs = <<>>
          /\ Len(c) <= Cardinality(Found) /\ Len(c) \in Nat
      BY <1>5, <2>2, <2>5 DEF FuseStep
    <3>2. RoomForAll => /\ \A d \in Findable' \cap Found' : Coming(d)'
                        /\ Len(req'.ids) + Len(req'.docs) <= Cardinality(Found')
      BY <2>2, <2>3, <3>1 DEF Coming
    <3>3. NothingDropped'
      BY <2>2, <3>1, <3>2 DEF NothingDropped, Retrieved
    <3> QED
      BY <1>j, <2>1, <3>3
  <2> QED
    BY <2>4, <2>5
<1>6. ASSUME NEW d \in Docs, FetchStep(d) PROVE ServeInv'
  <2>1. LanesComplete'
    BY <1>0, <1>6, <1>i, <1>l DEF FetchStep, AskedSame
  <2>2. NothingDropped'
    BY <1>0, <1>6, <1>i, FetchDropsNone DEF FetchStep
  <2> QED
    BY <1>j, <2>1, <2>2
<1>7. ASSUME NEW order \in [DOMAIN req.docs -> DOMAIN req.docs], RankStep(order) PROVE ServeInv'
  <2>1. LanesComplete'
    BY <1>0, <1>7, <1>i, <1>l DEF RankStep, AskedSame
  <2>2. NothingDropped'
    BY <1>0, <1>7, <1>i, RankDropsNone DEF RankStep
  <2> QED
    BY <1>j, <2>1, <2>2
<1>8. ASSUME NEW d \in Docs, PutStep(d) PROVE ServeInv'
  <2>1. /\ req' = req /\ settled' = settled \ {d} /\ Found' = Found
        /\ (RoomForAll' <=> RoomForAll) /\ (Retrieved' <=> Retrieved) /\ ServedDocs' = ServedDocs
        /\ \A e : Coming(e)' <=> Coming(e)
    BY <1>8 DEF PutStep, Found, RoomForAll, Retrieved, ServedDocs, Coming
  <2>2. \A e \in Findable' : e \in Findable /\ os'[e] = os[e]
    <3> SUFFICES ASSUME NEW e \in Findable' PROVE e \in Findable /\ os'[e] = os[e]
      OBVIOUS
    <3>1. /\ e \in settled' /\ e \notin req'.missed /\ os'[e].live
          /\ Matches(Fields(e)', req'.filters)
      BY DEF Findable
    <3>2. e \in settled /\ e # d /\ e \in Docs
      BY <2>1, <3>1 DEF RetrievalTypeOK
    <3>3. os'[e] = os[e]
      BY <1>8, <3>2 DEF PutStep
    <3>4. Fields(e)' = Fields(e)
      BY <3>3 DEF Fields
    <3> QED
      BY <2>1, <3>1, <3>2, <3>3, <3>4 DEF Findable
  <2>3. LanesComplete => LanesComplete'
    BY <2>1, <2>2 DEF LanesComplete, Lists
  <2>4. NothingDropped => NothingDropped'
    BY <2>1, <2>2 DEF NothingDropped
  <2> QED
    BY <1>i, <1>j, <2>1, <2>3, <2>4
<1>9. CASE UNCHANGED vars \/ \E d \in Docs : PointStep(d)
  <2>1. UNCHANGED <<os, req, settled>>
    BY <1>9 DEF vars, PointStep
  <2>2. /\ Findable' = Findable /\ Found' = Found /\ (RoomForAll' <=> RoomForAll)
        /\ (Retrieved' <=> Retrieved) /\ ServedDocs' = ServedDocs
        /\ \A e : Coming(e)' <=> Coming(e)
    BY <2>1 DEF Findable, Fields, Found, RoomForAll, Retrieved, ServedDocs, Coming
  <2>3. (LanesComplete => LanesComplete') /\ (NothingDropped => NothingDropped')
    BY <2>1, <2>2 DEF LanesComplete, NothingDropped, Lists
  <2> QED
    BY <1>i, <1>j, <2>1, <2>2, <2>3
<1> QED
  BY <1>1, <1>2, <1>3, <1>4, <1>5, <1>6, <1>7, <1>8, <1>9 DEF RetrievalStep

LEMMA ProductGrows ==
    ASSUME NEW a \in Nat, NEW b \in Nat, NEW c \in Nat, b <= c
    PROVE  a * b <= a * c /\ a * b \in Nat /\ a * c \in Nat
OBVIOUS

\* 1/a + 1/b > 1/g when a and b are at most 2k + 1 and g at least k + 1.
LEMMA SumAboveOne ==
    ASSUME NEW k \in Nat, NEW a \in Nat \ {0}, NEW b \in Nat \ {0}, NEW g \in Nat,
           a <= 2 * k + 1, b <= 2 * k + 1, k + 1 <= g
    PROVE  a * b < (a + b) * g
<1>1. a * b <= a * (2 * k + 1) /\ b * a <= b * (2 * k + 1)
  BY ProductGrows
<1>2. (a + b) * (k + 1) <= (a + b) * g
  BY ProductGrows
<1>3. a * b = b * a /\ a * b \in Int /\ a * k \in Int /\ b * k \in Int /\ (a + b) * g \in Int
  OBVIOUS
<1>4. /\ a * (2 * k + 1) = 2 * (a * k) + a /\ b * (2 * k + 1) = 2 * (b * k) + b
      /\ (a + b) * (k + 1) = (a * k) + (b * k) + a + b
  OBVIOUS
<1> QED
  BY <1>1, <1>2, <1>3, <1>4

LEMMA ShareIs ==
    ASSUME NEW s \in Seq(Docs), NEW k \in Nat, NEW d
    PROVE  /\ d \notin Range(s) => Share(s, k, d) = [num |-> 0, den |-> 1]
           /\ d \in Range(s) => \E i \in 1..Len(s) : Share(s, k, d) = [num |-> 1, den |-> k + i]
<1>1. DOMAIN s = 1..Len(s)
  OBVIOUS
<1>2. d \in Range(s) => (CHOOSE i \in DOMAIN s : s[i] = d) \in DOMAIN s
  BY DEF Range
<1> QED
  BY <1>1, <1>2 DEF Share

\* No document of one list comes before one of both, as long as the lists are
\* not longer than k + 1.
LEMMA BothAbove ==
    ASSUME NEW s \in Seq(Docs), NEW t \in Seq(Docs), NEW k \in Nat,
           Len(s) <= k + 1, Len(t) <= k + 1,
           NEW c \in Range(s) \cup Range(t), ~(c \in Range(s) /\ c \in Range(t)),
           NEW d \in Range(s) \cap Range(t)
    PROVE  ~Above(<<s, t>>, k, c, d)
<1> DEFINE L == <<s, t>>
<1>l. L[1] = s /\ L[2] = t
  OBVIOUS
<1> HIDE DEF L
<1>1. PICK x \in 1..Len(s) : Share(s, k, d) = [num |-> 1, den |-> k + x]
  BY ShareIs
<1>2. PICK y \in 1..Len(t) : Share(t, k, d) = [num |-> 1, den |-> k + y]
  BY ShareIs
<1>x. /\ k + x \in Nat \ {0} /\ k + y \in Nat \ {0}
      /\ k + x <= 2 * k + 1 /\ k + y <= 2 * k + 1
  OBVIOUS
<1>3. Score(L, k, d) = [num |-> (k + x) + (k + y), den |-> (k + x) * (k + y)]
  <2>1. Score(L, k, d) = [num |-> 1 * (k + y) + 1 * (k + x), den |-> (k + x) * (k + y)]
    BY <1>1, <1>2, <1>l DEF Score
  <2>2. 1 * (k + y) + 1 * (k + x) = (k + x) + (k + y)
    BY <1>x
  <2> QED
    BY <2>1, <2>2
<1>4. \E g \in Nat : k + 1 <= g /\ Score(L, k, c) = [num |-> 1, den |-> g]
  <2>1. CASE c \in Range(s) /\ c \notin Range(t)
    <3>1. PICK i \in 1..Len(s) : Share(s, k, c) = [num |-> 1, den |-> k + i]
      BY <2>1, ShareIs
    <3>2. Share(t, k, c) = [num |-> 0, den |-> 1]
      BY <2>1, ShareIs
    <3>3. Score(L, k, c) = [num |-> 1 * 1 + 0 * (k + i), den |-> (k + i) * 1]
      BY <1>l, <3>1, <3>2 DEF Score
    <3>4. 1 * 1 + 0 * (k + i) = 1 /\ (k + i) * 1 = k + i /\ k + i \in Nat /\ k + 1 <= k + i
      OBVIOUS
    <3> QED
      BY <3>3, <3>4
  <2>2. CASE c \in Range(t) /\ c \notin Range(s)
    <3>1. PICK i \in 1..Len(t) : Share(t, k, c) = [num |-> 1, den |-> k + i]
      BY <2>2, ShareIs
    <3>2. Share(s, k, c) = [num |-> 0, den |-> 1]
      BY <2>2, ShareIs
    <3>3. Score(L, k, c) = [num |-> 0 * (k + i) + 1 * 1, den |-> 1 * (k + i)]
      BY <1>l, <3>1, <3>2 DEF Score
    <3>4. 0 * (k + i) + 1 * 1 = 1 /\ 1 * (k + i) = k + i /\ k + i \in Nat /\ k + 1 <= k + i
      OBVIOUS
    <3> QED
      BY <3>3, <3>4
  <2> QED
    BY <2>1, <2>2
<1>5. PICK g \in Nat : k + 1 <= g /\ Score(L, k, c) = [num |-> 1, den |-> g]
  BY <1>4
<1>6. (k + x) * (k + y) < ((k + x) + (k + y)) * g
  BY <1>5, <1>x, SumAboveOne
<1> DEFINE p == (k + x) * (k + y)
           q == ((k + x) + (k + y)) * g
<1>7. p \in Int /\ q \in Int /\ p < q /\ 1 * p = p
  BY <1>6
<1> SUFFICES ASSUME Above(L, k, c, d) PROVE FALSE
  BY DEF L
<1>8. \/ Score(L, k, c).num * Score(L, k, d).den > Score(L, k, d).num * Score(L, k, c).den
      \/ Score(L, k, c).num * Score(L, k, d).den = Score(L, k, d).num * Score(L, k, c).den
  BY Zenon DEF Above
<1>9. 1 * p > q \/ 1 * p = q
  BY <1>3, <1>5, <1>8
<1> QED
  BY <1>7, <1>9

LEMMA OrderKept ==
    ASSUME RetrievalTypeOK, PhaseInv, OrderInv, RetrievalStep
    PROVE  OrderInv'
<1> SUFFICES ASSUME RerankN <= RrfK + 1, req' # Idle PROVE OrderInv'
  BY DEF OrderInv
<1>0. req \in Requests => req # Idle
  BY RequestsNotIdle
<1>e. DOMAIN <<>> = {}
  OBVIOUS
<1>b. LanesSame => \A d : InBoth(d)' <=> InBoth(d)
  BY DEF LanesSame, InBoth
<1>1. CASE BeginStep
  BY <1>1, <1>e DEF BeginStep, OrderInv
<1>2. CASE FailStep
  BY <1>0, <1>2, <1>b DEF FailStep, ListsSame, OrderInv
<1>3. ASSUME NEW l \in LaneStates, LexicalStep(l) \/ VectorStep(l) PROVE OrderInv'
  <2>1. req'.ids = <<>> /\ req'.docs = <<>> /\ req'.sources = <<>>
    BY <1>0, <1>3 DEF LexicalStep, VectorStep, ListsSame, PhaseInv
  <2> QED
    BY <1>e, <2>1 DEF OrderInv
<1>4. ASSUME NEW c \in Seq(Docs), FuseStep(c) PROVE OrderInv'
  <2>1. /\ req # Idle /\ req.ids = <<>> /\ req'.docs = <<>> /\ req'.sources = <<>>
        /\ req.bm25.ids \in Seq(Docs) /\ req.vec.ids \in Seq(Docs)
        /\ Len(req.bm25.ids) <= RerankN /\ Len(req.vec.ids) <= RerankN
    BY <1>0, <1>4 DEF FuseStep, PhaseInv, Requests, LaneStates, RetrievalTypeOK
  <2> DEFINE k == IF RrfK <= 0 THEN 60 ELSE RrfK
  <2>2. k \in Nat /\ RerankN <= k + 1 /\ RerankN \in Int
    BY RetrievalAssumption
  <2>3. \A i, j \in DOMAIN c : i < j => Above(<<req.bm25.ids, req.vec.ids>>, k, c[i], c[j])
    BY <1>4 DEF FuseStep
  <2> HIDE DEF k
  <2>4. Len(req.bm25.ids) <= k + 1 /\ Len(req.vec.ids) <= k + 1
    BY <2>1, <2>2
  <2>5. ASSUME NEW i \in DOMAIN c, NEW j \in DOMAIN c, InBoth(c[i]), ~InBoth(c[j]) PROVE i < j
    <3>1. c[i] \in Found /\ c[j] \in Found /\ i \in Int /\ j \in Int
      BY <1>4 DEF FuseStep, Range
    <3>2. ~Above(<<req.bm25.ids, req.vec.ids>>, k, c[j], c[i])
      BY <2>1, <2>2, <2>4, <2>5, <3>1, BothAbove DEF InBoth, Found
    <3>3. ~(j < i)
      BY <2>3, <3>2
    <3>4. i # j
      BY <2>5
    <3> QED
      BY <3>1, <3>3, <3>4
  <2>6. req'.ids = c
    BY <1>4, <2>1 DEF FuseStep
  <2> QED
    BY <1>4, <1>b, <1>e, <2>1, <2>5, <2>6 DEF FuseStep, OrderInv
<1>5. ASSUME NEW d \in Docs, FetchStep(d) PROVE OrderInv'
  <2>0. req # Idle /\ LanesSame /\ req'.sources = <<>>
    BY <1>0, <1>5 DEF FetchStep, PhaseInv
  <2>1. /\ \A i, j \in DOMAIN req.ids : InBoth(req.ids[i]) /\ ~InBoth(req.ids[j]) => i < j
        /\ \A i, j \in DOMAIN req.docs : InBoth(req.docs[i].doc) /\ ~InBoth(req.docs[j].doc) => i < j
        /\ \A i \in DOMAIN req.ids, j \in DOMAIN req.docs :
              InBoth(req.ids[i]) => InBoth(req.docs[j].doc)
    BY <2>0 DEF OrderInv
  <2>2. /\ DOMAIN req.ids = 1..Len(req.ids) /\ DOMAIN req'.ids = 1..Len(req'.ids)
        /\ Len(req'.ids) = Len(req.ids) - 1 /\ d = req.ids[1]
        /\ \A i \in 1..Len(req'.ids) : req'.ids[i] = req.ids[i + 1]
    BY <1>5, FetchMoves DEF FetchStep
  <2>3. 1 \in DOMAIN req.ids
    <3>1. req.ids \in Seq(Docs) /\ req.ids # <<>>
      BY <1>5 DEF FetchStep, Requests
    <3> QED
      BY <3>1, EmptySeq
  <2>4. \A i \in DOMAIN req'.ids : /\ i \in Int /\ i + 1 \in DOMAIN req.ids /\ ~(i + 1 < 1)
                                   /\ req'.ids[i] = req.ids[i + 1]
    <3>1. req.ids \in Seq(Docs) /\ req'.ids \in Seq(Docs)
      BY <1>5 DEF FetchStep, Requests
    <3> QED
      BY <2>2, <3>1
  <2>5. \A i \in DOMAIN req'.docs :
            \/ i \in DOMAIN req.docs /\ req'.docs[i] = req.docs[i]
            \/ i = Len(req.docs) + 1 /\ req'.docs[i].doc = d
    <3>1. DOMAIN req.docs = 1..Len(req.docs) /\ Len(req.docs) \in Nat /\ Stored(d).doc = d
      BY <1>5, FetchAppends DEF Stored
    <3>2. CASE req'.docs = req.docs
      BY <3>2
    <3>3. CASE /\ DOMAIN req'.docs = 1..(Len(req.docs) + 1)
               /\ \A i \in DOMAIN req.docs : req'.docs[i] = req.docs[i]
               /\ req'.docs[Len(req.docs) + 1] = Stored(d)
      <4>1. \A i \in DOMAIN req'.docs : i \in DOMAIN req.docs \/ i = Len(req.docs) + 1
        BY <3>1, <3>3
      <4> QED
        BY <3>1, <3>3, <4>1
    <3> QED
      BY <1>5, <3>2, <3>3, FetchAppends
  <2>6. \A i \in DOMAIN req.docs : i < Len(req.docs) + 1
    BY <1>5, FetchAppends
  <2>7. \A i, j \in DOMAIN req'.ids : InBoth(req'.ids[i]) /\ ~InBoth(req'.ids[j]) => i < j
    <3> SUFFICES ASSUME NEW i \in DOMAIN req'.ids, NEW j \in DOMAIN req'.ids,
                        InBoth(req'.ids[i]), ~InBoth(req'.ids[j])
                 PROVE  i < j
      OBVIOUS
    <3>1. i + 1 < j + 1 /\ i \in Int /\ j \in Int
      BY <2>1, <2>4
    <3> QED
      BY <3>1
  <2>8. \A i, j \in DOMAIN req'.docs : InBoth(req'.docs[i].doc) /\ ~InBoth(req'.docs[j].doc) => i < j
    BY <2>1, <2>2, <2>3, <2>5, <2>6
  <2>9. \A i \in DOMAIN req'.ids, j \in DOMAIN req'.docs :
            InBoth(req'.ids[i]) => InBoth(req'.docs[j].doc)
    BY <2>1, <2>2, <2>3, <2>4, <2>5
  <2> QED
    BY <1>b, <1>e, <2>0, <2>7, <2>8, <2>9 DEF OrderInv
<1>6. ASSUME NEW order \in [DOMAIN req.docs -> DOMAIN req.docs], RankStep(order) PROVE OrderInv'
  <2>1. req # Idle /\ LanesSame /\ req'.ids = req.ids /\ req'.docs = req.docs
    BY <1>0, <1>6 DEF RankStep
  <2>2. ~req'.reranked => \A i \in DOMAIN req'.sources : i \in DOMAIN req.docs /\ req'.sources[i] = req.docs[i]
    BY <1>6 DEF RankStep
  <2> QED
    BY <1>b, <2>1, <2>2 DEF OrderInv
<1>7. CASE UNCHANGED vars \/ \E d \in Docs : PutStep(d) \/ PointStep(d)
  <2>1. req' = req
    BY <1>7 DEF vars, PutStep, PointStep
  <2> QED
    BY <2>1 DEF OrderInv, InBoth
<1> QED
  BY <1>1, <1>2, <1>3, <1>4, <1>5, <1>6, <1>7 DEF RetrievalStep

\* The initial states and every step of retrieval and indexer.
LEMMA RetrievalInits ==
    ASSUME Init
    PROVE  RetrievalInv
<1>1. req = Idle /\ settled = {} /\ qd = os /\ writes = 0
  BY DEF Init
<1>2. Absent \in Contents /\ \A t \in DocTenants :
          [Absent EXCEPT !.ver = 1, !.live = TRUE, !.tenant = t] \in Contents
  <2> DEFINE Rec == [ver : 0..MaxVersion, live : BOOLEAN, tenant : DocTenants, cat : Categories]
  <2>1. (CHOOSE c \in Categories : TRUE) \in Categories /\ (CHOOSE t \in DocTenants : TRUE) \in DocTenants
    BY RetrievalAssumption
  <2>2. MaxVersion \in Nat \ {0} /\ 0 \in 0..MaxVersion /\ 1 \in 0..MaxVersion
    BY RetrievalAssumption
  <2>3. Absent \in Rec /\ Absent.live = FALSE
    BY <2>1, <2>2 DEF Absent
  <2>4. ASSUME NEW t \in DocTenants
        PROVE  [Absent EXCEPT !.ver = 1, !.live = TRUE, !.tenant = t] \in Contents
    <3> DEFINE x == [Absent EXCEPT !.ver = 1, !.live = TRUE, !.tenant = t]
    <3>1. x \in Rec /\ x.ver = 1
      BY <2>2, <2>3
    <3> HIDE DEF x
    <3>2. x \in Contents
      BY <3>1 DEF Contents
    <3> QED
      BY <3>2 DEF x
  <2> QED
    BY <2>3, <2>4 DEF Contents
<1>3. os \in [Docs -> Contents]
  <2>1. PICK load \in Loads :
            os = [d \in Docs |-> IF d \in DOMAIN load
                                 THEN [Absent EXCEPT !.ver = 1, !.live = TRUE, !.tenant = load[d]]
                                 ELSE Absent]
    BY DEF Init
  <2>2. \A d \in DOMAIN load : load[d] \in DocTenants
    BY RetrievalAssumption
  <2> QED
    BY <1>2, <2>1, <2>2
<1>o. owners \in [Docs -> SUBSET DocTenants]
  BY DEF Init
<1>4. RetrievalTypeOK
  BY <1>1, <1>3, <1>o, RetrievalAssumption DEF RetrievalTypeOK, Contents
<1> QED
  BY <1>1, <1>4 DEF RetrievalInv, PhaseInv, ApartInv, CurrentInv, PassInv, TenantInv, ServeInv, OrderInv

LEMMA RetrievalInvKept ==
    ASSUME RetrievalInv,
           \/ Index \/ Retrieve \/ UNCHANGED vars
           \/ \E t \in Tenants, cf \in ClientFilters, k \in TopKs, v \in BOOLEAN : Begin(t, cf, k, v)
    PROVE  RetrievalInv'
<1>1. RetrievalStep
  BY StepsAre DEF RetrievalInv
<1> QED
  BY <1>1, TypesKept, PhaseKept, ApartKept, CurrentKept, PassKept, TenantKept,
     ServeKept, OrderKept DEF RetrievalInv

\* What the invariants say of a finished retrieval.
LEMMA RetrievalOutcome ==
    ASSUME RetrievalInv
    PROVE  SourcesFresh /\ FilterHonoured /\ TenantScoped /\ SettledServed /\ BothLanesFirst
<1>1. SourcesFresh
  BY DEF RetrievalInv, CurrentInv, SourcesFresh, Retrieved
<1>2. FilterHonoured
  <2> SUFFICES ASSUME Retrieved, NEW i \in DOMAIN req.sources PROVE Passes(req.sources[i].doc)
    BY DEF FilterHonoured, Passes
  <2>1. req.sources[i].doc \in Found
    BY DEF RetrievalInv, ApartInv, ServedDocs, Retrieved
  <2> QED
    BY <2>1 DEF RetrievalInv, PassInv, Retrieved
<1>3. SettledServed
  <2> SUFFICES ASSUME Retrieved, req.status = "ok", RoomForAll, NEW d \in Findable,
                      \/ Lists(req.bm25) /\ <<d, os[d].ver>> \in Lexical
                      \/ Lists(req.vec) /\ "tenant_id" \notin DOMAIN req.filters
               PROVE  d \in ServedDocs
    BY DEF SettledServed
  <2>1. d \in Found
    BY DEF RetrievalInv, ServeInv, Retrieved, Found
  <2> QED
    BY <2>1 DEF RetrievalInv, ServeInv, Retrieved
<1>4. BothLanesFirst
  BY DEF RetrievalInv, OrderInv, BothLanesFirst, InBoth, Retrieved
<1>5. TenantScoped
  <2>1. Retrieved => \A i \in DOMAIN req.sources : req.sources[i].doc \in Found
    BY DEF RetrievalInv, ApartInv, ServedDocs, Retrieved
  <2> QED
    BY <2>1 DEF RetrievalInv, TenantInv, TenantScoped, Retrieved
<1> QED
  BY <1>1, <1>2, <1>3, <1>4, <1>5
=============================================================================
