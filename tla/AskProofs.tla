------------------------------ MODULE AskProofs ------------------------------
(***************************************************************************)
(* The theorems about handleSearch and handleAsk: what is retrieved, what   *)
(* is quoted and cited, and which answers carry a warning, for any texts,   *)
(* queries, replies of a model, verdicts of a judge and limits.             *)
(***************************************************************************)
EXTENDS Ask, RetrievalProofs

-----------------------------------------------------------------------------
(* The operators of Grounding *)

\* Sentences end at pieces of the text.
LEMMA SplitIs ==
    ASSUME NEW T, NEW text \in Seq(T)
    PROVE  /\ splitSentences(text) \subseteq DOMAIN text /\ IsFiniteSet(splitSentences(text))
           /\ DOMAIN text = 1..Len(text) /\ Len(text) \in Nat
           /\ IsFiniteSet(DOMAIN text) /\ Cardinality(DOMAIN text) = Len(text)
           /\ \A i \in DOMAIN text : text[i] \in T
<1>1. DOMAIN text = 1..Len(text) /\ Len(text) \in Nat
  OBVIOUS
<1>2. IsFiniteSet(DOMAIN text) /\ Cardinality(DOMAIN text) = Len(text)
  BY <1>1, FS_Interval
<1>3. splitSentences(text) \subseteq DOMAIN text
  BY <1>1 DEF splitSentences, Ends
<1> QED
  BY <1>1, <1>2, <1>3, FS_Subset

\* The words of a sentence are words of the text.
LEMMA SentenceIs ==
    ASSUME NEW text \in Texts, NEW i \in DOMAIN text
    PROVE  Sentence(text, i) \subseteq tokens(text) /\ tokens(text) \subseteq Words
<1>1. DOMAIN text = 1..Len(text) /\ Len(text) \in Nat
  BY DEF Texts
<1>2. \A j \in DOMAIN text : text[j].words \subseteq Words
  <2> DEFINE Rec == [words : SUBSET Words, stop : BOOLEAN]
  <2>0. text \in Seq(Rec)
    BY DEF Texts
  <2> HIDE DEF Rec
  <2>1. \A j \in DOMAIN text : text[j] \in Rec
    BY <2>0, SplitIs
  <2> USE DEF Rec
  <2>2. \A x \in Rec : x.words \in SUBSET Words
    OBVIOUS
  <2> HIDE DEF Rec
  <2>3. \A j \in DOMAIN text : text[j].words \in SUBSET Words
    BY <2>1, <2>2
  <2> QED
    BY <2>3
<1>3. 1..i \subseteq DOMAIN text
  BY <1>1
<1> QED
  BY <1>2, <1>3 DEF Sentence, tokens

\* Where every piece has its full stop, every piece is a sentence.
LEMMA AllStopped ==
    ASSUME NEW T, NEW a \in Seq(T), a # <<>>, \A i \in DOMAIN a : a[i].stop
    PROVE  splitSentences(a) = DOMAIN a /\ \A i \in DOMAIN a : Sentence(a, i) = a[i].words
<1>1. DOMAIN a = 1..Len(a) /\ Len(a) \in Nat /\ Len(a) # 0
  BY EmptySeq
<1>2. Ends(a) = DOMAIN a
  BY DEF Ends
<1>3. Ends(a) # {}
  BY <1>1, <1>2
<1>4. ASSUME NEW i \in DOMAIN a PROVE Sentence(a, i) = a[i].words
  <2> DEFINE J == {j \in 1..i : \A k \in j..(i - 1) : ~a[k].stop}
  <2>1. i \in Nat /\ 1..i \subseteq DOMAIN a
    BY <1>1
  <2>2. i \in J
    BY <1>1, <2>1
  <2>3. ASSUME NEW j \in 1..i, j # i PROVE j \notin J
    <3>1. j \in j..(i - 1) /\ a[j].stop
      BY <2>1, <2>3
    <3> QED
      BY <3>1
  <2>4. J = {i}
    BY <2>2, <2>3
  <2>5. Sentence(a, i) = UNION {a[j].words : j \in J}
    BY DEF Sentence
  <2> HIDE DEF J
  <2> QED
    BY <2>4, <2>5
<1> QED
  BY <1>2, <1>3, <1>4 DEF splitSentences

\* Sources with the texts the assumptions speak of.
Readable(sources) ==
    \A i \in DOMAIN sources :
        /\ i \in Nat \ {0} /\ sources[i].text \in Texts
        /\ Ends(sources[i].text) # {} /\ IsFiniteSet(tokens(sources[i].text))

\* A part of an answer that stands verbatim, as a sentence, in the source its
\* marker names.
Quotes(p, sources) ==
    /\ p.marker \in DOMAIN sources /\ p.stop = TRUE
    /\ \E j \in splitSentences(sources[p.marker].text) : p.words = Sentence(sources[p.marker].text, j)

\* An extractive answer is the abstention, or one to three quotes.
LEMMA ExtractIs ==
    ASSUME NEW query, NEW sources, Readable(sources), NEW a \in Extract(query, sources)
    PROVE  /\ a \in Seq(Parts) /\ Len(a) \in 1..3 /\ \A i \in DOMAIN a : a[i].stop
           /\ a # Abstention => \A i \in DOMAIN a : Quotes(a[i], sources)
<1> DEFINE cands == Candidates(query, sources)
           first == {c \in cands : \A d \in cands :
                        d.words = c.words /\ d.stop = c.stop /\ d # c => Better(query, c, d)}
           quote(s) == [i \in DOMAIN s |->
                           [words |-> s[i].words, stop |-> s[i].stop, marker |-> s[i].marker]]
<1>1. \A c \in cands : c.words \in SUBSET Words /\ c.marker \in Nat /\ Quotes(c, sources)
  <2> SUFFICES ASSUME NEW c \in cands
               PROVE  c.words \in SUBSET Words /\ c.marker \in Nat /\ Quotes(c, sources)
    OBVIOUS
  <2>1. PICK i \in DOMAIN sources : \E j \in splitSentences(sources[i].text) :
            c = [words |-> Sentence(sources[i].text, j), stop |-> sources[i].text[j].stop,
                 marker |-> i, pos |-> j]
    BY DEF Candidates
  <2>2. PICK j \in splitSentences(sources[i].text) :
            /\ c.words = Sentence(sources[i].text, j) /\ c.stop = sources[i].text[j].stop
            /\ c.marker = i
    BY <2>1
  <2>3. sources[i].text \in Texts /\ Ends(sources[i].text) # {} /\ i \in Nat
    BY DEF Readable
  <2>4. j \in DOMAIN sources[i].text /\ sources[i].text[j].stop
    BY <2>3 DEF splitSentences, Ends
  <2>5. sources[i].text[j].stop = TRUE
    <3> DEFINE b == sources[i].text[j].stop
               Rec == [words : SUBSET Words, stop : BOOLEAN]
    <3>0. sources[i].text \in Seq(Rec)
      BY <2>3 DEF Texts
    <3> HIDE DEF Rec
    <3>1. sources[i].text[j] \in Rec
      BY <2>4, <3>0, SplitIs
    <3> USE DEF Rec
    <3>2. b \in BOOLEAN
      BY <3>1
    <3> HIDE DEF b
    <3>3. b
      BY <2>4 DEF b
    <3>4. b = TRUE
      BY <3>2, <3>3, Zenon
    <3> QED
      BY <3>4, Zenon DEF b
  <2>6. c.words \in SUBSET Words
    BY <2>2, <2>3, <2>4, SentenceIs
  <2> QED
    BY <2>2, <2>3, <2>5, <2>6 DEF Quotes
<1>2. CASE cands = {}
  <2>1. a = Abstention
    BY <1>2 DEF Extract
  <2> DEFINE w == {"not", "found", "in", "sources"}
  <2>w. w \in SUBSET Words
    BY AskAssumption
  <2> HIDE DEF w
  <2>2. [words |-> w, stop |-> TRUE, marker |-> 0] \in Parts
    BY <2>w DEF Parts
  <2> QED
    BY <2>1, <2>2 DEF Abstention, w
<1>3. CASE cands # {}
  <2>1. PICK n \in 1..3 : \E s \in [1..n -> first] : a = quote(s)
    BY <1>3 DEF Extract
  <2>s. PICK s \in [1..n -> first] : a = quote(s)
    BY <2>1
  <2>2. n \in Nat /\ DOMAIN s = 1..n
    BY <2>s
  <2>3. \A i \in 1..n : s[i] \in cands
    BY <2>s
  <2> HIDE DEF cands, first
  <2>4. \A i \in 1..n : a[i] = [words |-> s[i].words, stop |-> s[i].stop, marker |-> s[i].marker]
    BY <2>s, <2>2
  <2>5. ASSUME NEW i \in 1..n PROVE a[i] \in Parts /\ a[i].stop = TRUE /\ Quotes(a[i], sources)
    <3> DEFINE w == s[i].words
               m == s[i].marker
    <3>1. w \in SUBSET Words /\ m \in Nat /\ Quotes(s[i], sources)
      BY <1>1, <2>3
    <3>2. a[i] = [words |-> w, stop |-> TRUE, marker |-> m]
      BY <2>4, <3>1 DEF Quotes
    <3>3. m \in DOMAIN sources
          /\ \E j \in splitSentences(sources[m].text) : w = Sentence(sources[m].text, j)
      BY <3>1 DEF Quotes
    <3> HIDE DEF w, m
    <3>4. a[i].words = w /\ a[i].stop = TRUE /\ a[i].marker = m
      BY <3>2
    <3>5. a[i] \in Parts
      BY <3>1, <3>2 DEF Parts, w, m
    <3>6. Quotes(a[i], sources)
      BY <3>3, <3>4, Zenon DEF Quotes
    <3> QED
      BY <3>4, <3>5, <3>6
  <2>6. DOMAIN a = 1..n
    BY <2>s, <2>2
  <2>7. a = [i \in 1..n |-> a[i]]
    BY <2>s, <2>2
  <2>8. a \in [1..n -> Parts]
    BY <2>5, <2>7
  <2>9. a \in Seq(Parts) /\ Len(a) = n
    BY <2>2, <2>8
  <2> QED
    BY <2>1, <2>5, <2>6, <2>9
<1> QED
  BY <1>2, <1>3

\* The check that follows splits an extractive answer into its quotes.
LEMMA ExtractSplits ==
    ASSUME NEW query, NEW sources, Readable(sources), NEW a \in Extract(query, sources)
    PROVE  /\ splitSentences(a) = DOMAIN a /\ \A i \in DOMAIN a : Sentence(a, i) = a[i].words
           /\ Cardinality(splitSentences(a)) \in 1..3
<1>1. a \in Seq(Parts) /\ Len(a) \in 1..3 /\ \A i \in DOMAIN a : a[i].stop
  BY ExtractIs
<1>2. a # <<>>
  <2>1. Len(<<>>) = 0
    OBVIOUS
  <2> QED
    BY <1>1, <2>1
<1>3. splitSentences(a) = DOMAIN a /\ \A i \in DOMAIN a : Sentence(a, i) = a[i].words
  BY <1>1, <1>2, AllStopped
<1> QED
  BY <1>1, <1>3, SplitIs

\* A quote has all its words in its source.
LEMMA QuoteSupported ==
    ASSUME NEW sources, Readable(sources), NEW p, Quotes(p, sources)
    PROVE  Supported(p.words, sources)
<1> DEFINE st == contentTokens(p.words)
           text == sources[p.marker].text
<1>1. PICK j \in splitSentences(text) : p.words = Sentence(text, j)
  BY DEF Quotes
<1>2. text \in Texts /\ IsFiniteSet(tokens(text))
  BY DEF Readable, Quotes
<1>3. p.words \subseteq tokens(text)
  <2> DEFINE Rec == [words : SUBSET Words, stop : BOOLEAN]
  <2>1. text \in Seq(Rec)
    BY <1>2 DEF Texts
  <2> HIDE DEF Rec
  <2>2. j \in DOMAIN text
    BY <1>1, <2>1, SplitIs
  <2> QED
    BY <1>1, <1>2, <2>2, SentenceIs
<1>4. st \subseteq tokens(text)
  BY <1>3 DEF contentTokens
<1>5. Cardinality(st) \in Nat
  BY <1>2, <1>4, FS_Subset, FS_CardinalityType
<1>6. st \cap tokens(text) = st
  BY <1>4
<1>7. overlap(st, tokens(text)) = Cardinality(st)
  BY <1>6 DEF overlap
<1>8. p.marker \in DOMAIN sources
  BY DEF Quotes
<1> HIDE DEF st
<1>9. 10 * overlap(st, tokens(text)) >= 6 * Cardinality(st)
  BY <1>5, <1>7
<1> QED
  BY <1>8, <1>9 DEF Supported, st

\* The lexical score is a fraction of at most 1, and 1 exactly when every
\* sentence that splitSentences finds is supported.
LEMMA FaithfulnessIs ==
    ASSUME NEW a \in Seq(Parts), splitSentences(a) # {}, NEW sources
    PROVE  LET f == Faithfulness(a, sources)
           IN  /\ f \in [num : Nat, den : Nat] /\ f.den = Cardinality(splitSentences(a))
               /\ f.num <= f.den
               /\ f.num = f.den <=> \A i \in splitSentences(a) : Supported(Sentence(a, i), sources)
<1> DEFINE all  == splitSentences(a)
           good == {i \in all : Supported(Sentence(a, i), sources)}
<1>1. IsFiniteSet(all)
  BY SplitIs
<1>2. /\ IsFiniteSet(good) /\ Cardinality(good) <= Cardinality(all)
      /\ Cardinality(all) = Cardinality(good) => all = good
  BY <1>1, FS_Subset
<1>3. Cardinality(good) \in Nat /\ Cardinality(all) \in Nat
  BY <1>1, <1>2, FS_CardinalityType
<1>4. all = good <=> \A i \in all : Supported(Sentence(a, i), sources)
  OBVIOUS
<1>5. Faithfulness(a, sources) = [num |-> Cardinality(good), den |-> Cardinality(all)]
  BY DEF Faithfulness
<1> HIDE DEF good, all
<1>6. Cardinality(good) = Cardinality(all) <=> \A i \in all : Supported(Sentence(a, i), sources)
  BY <1>2, <1>4
<1> QED
  BY <1>2, <1>3, <1>5, <1>6 DEF all

\* Every score is a fraction of at most 1, whatever a judge says.
LEMMA ScoreIs ==
    ASSUME NEW m, NEW v \in Verdicts \cup {NoVerdict}, NEW a \in Seq(Parts), NEW sources
    PROVE  LET s == ScoreFaithfulness(m, v, a, sources)
           IN  s \in [num : Nat, den : Nat] /\ s.num <= s.den
<1>1. CASE m = "llm" /\ v # NoVerdict
  <2>1. v \in [num : Int, den : Nat \ {0}]
    BY <1>1, AskAssumption
  <2>2. Clamp(v) \in [num : Nat, den : Nat] /\ Clamp(v).num <= Clamp(v).den
    BY <2>1 DEF Clamp, One
  <2> QED
    BY <1>1, <2>2 DEF ScoreFaithfulness
<1>2. CASE ~(m = "llm" /\ v # NoVerdict)
  <2>1. ScoreFaithfulness(m, v, a, sources) = Faithfulness(a, sources)
    BY <1>2 DEF ScoreFaithfulness
  <2>2. CASE splitSentences(a) = {}
    BY <2>1, <2>2 DEF Faithfulness, One
  <2>3. CASE splitSentences(a) # {}
    BY <2>1, <2>3, FaithfulnessIs
  <2> QED
    BY <2>2, <2>3
<1> QED
  BY <1>1, <1>2

-----------------------------------------------------------------------------
(* The invariant *)

\* The sources do not change once the handler uses them: it waits for retrieve.
WaitInv ==
    ask # NoRequest =>
        /\ ask.at \in {"score", "done"} => Retrieved
        /\ ask.at # "done" => ask.kind = "none" /\ ask.verdict = NoVerdict
        /\ ask.at \in {"search", "ask"} => ask.citations = {}

\* An answer came from its provider and is cited by its markers.
AnswerInv ==
    ask # NoRequest =>
        /\ ask.at = "score" \/ ask.kind = "answer" =>
              /\ ask.answer \in IF ask.provider = "litellm" THEN Replies ELSE Extract(Query, Given)
              /\ ask.citations = Citations(ask.answer, Given)
        /\ ask.at = "done" /\ ask.kind # "answer" => ask.citations = {}

\* An answer was scored over the sources it was given, and compared.
ScoreInv ==
    ask # NoRequest /\ ask.kind = "answer" =>
        /\ \E m \in Modes : ask.score = ScoreFaithfulness(m, ask.verdict, ask.answer, Given)
        /\ ask.warning = Below(ask.score, FaithMin)
        /\ ask.verdict # NoVerdict => ask.provider = "litellm"

AskInv == RetrievalInv /\ TypeOK /\ WaitInv /\ AnswerInv /\ ScoreInv

\* The sources of a finished retrieval have texts, and documents of the store.
LEMMA GivenIs ==
    ASSUME RetrievalInv, Retrieved
    PROVE  /\ Readable(Given) /\ DOMAIN Given = DOMAIN req.sources
           /\ \A i \in DOMAIN Given : Given[i].doc = req.sources[i].doc /\ Given[i].doc \in Docs
<1>1. req \in Requests /\ req # Idle
  BY DEF RetrievalInv, RetrievalTypeOK, Retrieved
<1>2. req.sources \in Seq(Fetched) /\ DOMAIN req.sources = 1..Len(req.sources)
  BY <1>1 DEF Requests
<1>3. \A i \in DOMAIN Given :
         Given[i] = [doc |-> req.sources[i].doc, text |-> Text[req.sources[i].doc][req.sources[i].ver]]
  BY DEF Given
<1>4. DOMAIN Given = DOMAIN req.sources
  BY DEF Given
<1>5. ASSUME NEW i \in DOMAIN Given
      PROVE  /\ i \in Nat \ {0}
             /\ req.sources[i].doc \in Docs /\ req.sources[i].ver \in 1..MaxVersion
  <2>1. i \in Nat \ {0} /\ req.sources[i] \in Fetched
    BY <1>2, <1>4, <1>5
  <2>2. req.sources[i].ver > 0
    BY <1>1, <1>4, <1>5 DEF RetrievalInv, CurrentInv
  <2> QED
    BY <2>1, <2>2, RetrievalAssumption DEF Fetched
<1>6. ASSUME NEW i \in DOMAIN Given
      PROVE  /\ Given[i].doc = req.sources[i].doc /\ Given[i].text \in Texts
             /\ Ends(Given[i].text) # {} /\ IsFiniteSet(tokens(Given[i].text))
  <2> DEFINE x == req.sources[i]
  <2>1. Given[i].doc = x.doc /\ Given[i].text = Text[x.doc][x.ver]
    BY <1>3
  <2>2. x.doc \in Docs /\ x.ver \in 1..MaxVersion
    BY <1>5
  <2> HIDE DEF x
  <2>3. /\ Text[x.doc][x.ver] \in Texts /\ Ends(Text[x.doc][x.ver]) # {}
        /\ IsFiniteSet(tokens(Text[x.doc][x.ver]))
    BY <2>2, AskAssumption
  <2>4. Given[i].doc = x.doc
    BY <2>1
  <2> QED
    BY <2>1, <2>3, <2>4 DEF x
<1> QED
  BY <1>4, <1>5, <1>6 DEF Readable

\* As long as the request is the same, so is what the provider sees.
LEMMA SameSources ==
    ASSUME req' = req
    PROVE  Given' = Given /\ Retrieved' = Retrieved
BY DEF Given, Retrieved

LEMMA IndexLeavesRequest ==
    ASSUME Index
    PROVE  req' = req
BY DEF Index, IndexUpsert, IndexDelete, IndexVector, Put

\* A retrieval in progress has not ended.
LEMMA RetrieveMoves ==
    ASSUME RetrievalTypeOK, Retrieve
    PROVE  ~Retrieved /\ req # Idle /\ req' # Idle
<1>1. req.at \in {"lanes", "fetch", "rerank"}
  BY DEF Retrieve, Bm25, Bm25Down, EmbedQuery, Vector, VectorDown, Fuse, FetchDoc, FetchMissed, Fetch,
         FetchError, Rerank, RerankSkipped
<1>2. req # Idle /\ ~Retrieved
  BY <1>1 DEF Idle, Retrieved
<1>3. req \in Requests
  BY <1>2 DEF RetrievalTypeOK
<1>4. req'.at # "idle"
  <2>1. CASE Bm25 \/ Bm25Down \/ EmbedQuery \/ Vector \/ VectorDown
    BY <1>1, <1>3, <2>1 DEF Requests, Bm25, Bm25Down, EmbedQuery, Vector, VectorDown
  <2>2. CASE Fuse
    BY <1>1, <1>3, <2>2 DEF Requests, Fuse
  <2>3. CASE FetchDoc \/ FetchMissed
    <3>1. PICK have, lost : Fetch(have, lost)
      BY <2>3 DEF FetchDoc, FetchMissed
    <3> QED
      BY <1>1, <1>3, <3>1 DEF Requests, Fetch
  <2>4. CASE FetchError \/ Rerank \/ RerankSkipped
    BY <1>1, <1>3, <2>4 DEF Requests, FetchError, Rerank, RerankSkipped
  <2> QED
    BY <2>1, <2>2, <2>3, <2>4 DEF Retrieve
<1> QED
  BY <1>2, <1>4 DEF Idle

\* The answers of the providers are sequences of parts.
LEMMA ProviderAnswers ==
    ASSUME RetrievalInv, Retrieved, NEW p,
           NEW a \in IF p = "litellm" THEN Replies ELSE Extract(Query, Given)
    PROVE  a \in Seq(Parts)
<1>1. CASE p = "litellm"
  BY <1>1, AskAssumption
<1>2. CASE p # "litellm"
  BY <1>2, GivenIs, ExtractIs
<1> QED
  BY <1>1, <1>2

\* Citations have the marker of a source and its document.
LEMMA CitationsAre ==
    ASSUME RetrievalInv, Retrieved, NEW a
    PROVE  Citations(a, Given) \subseteq [marker : Nat, doc : Nat]
<1> SUFFICES ASSUME NEW c \in Citations(a, Given) PROVE c \in [marker : Nat, doc : Nat]
  OBVIOUS
<1>1. PICK m \in DOMAIN Given : c = [marker |-> m, doc |-> Given[m].doc]
  BY DEF Citations
<1>2. m \in Nat /\ Given[m].doc \in Docs
  BY GivenIs DEF Readable
<1> QED
  BY <1>1, <1>2, RetrievalAssumption

-----------------------------------------------------------------------------
(* The invariant is kept *)

LEMMA ResponsesNotIdle ==
    ASSUME NEW a \in Responses
    PROVE  a # NoRequest
BY DEF Responses, NoRequest

\* The handler starts only once, with an empty response.
LEMMA HandlerIs ==
    ASSUME NEW a \in {"search", "ask"}
    PROVE  /\ Handler(a) \in Responses /\ Handler(a).score.num <= Handler(a).score.den
           /\ Handler(a).at = a /\ Handler(a).kind = "none" /\ Handler(a).citations = {}
           /\ Handler(a).verdict = NoVerdict
<1>1. One \in [num : Nat, den : Nat] /\ One.num <= One.den
  BY DEF One
<1>2. <<>> \in Seq(Parts)
  OBVIOUS
<1> QED
  BY <1>1, <1>2 DEF Handler, Responses

LEMMA StartKept ==
    ASSUME AskInv, RetrievalInv',
           NEW t, NEW cf, NEW k, NEW vec,
           HandleSearch(t, cf, k) \/ HandleAsk(t, cf, k, vec)
    PROVE  AskInv'
<1>1. PICK a \in {"search", "ask"} : ask' = Handler(a)
  BY DEF HandleSearch, HandleAsk
<1>2. req' # Idle
  BY DEF HandleSearch, HandleAsk, Begin, Idle
<1>3. /\ ask' \in Responses /\ ask'.score.num <= ask'.score.den
      /\ ask'.at = a /\ ask'.kind = "none" /\ ask'.citations = {} /\ ask'.verdict = NoVerdict
  BY <1>1, HandlerIs
<1> QED
  BY <1>2, <1>3 DEF AskInv, RetrievalInv, TypeOK, WaitInv, AnswerInv, ScoreInv

\* Steps of the indexer and of retrieve, which the handler only sees end.
LEMMA WaitKept ==
    ASSUME AskInv, RetrievalInv', UNCHANGED ask, Index \/ Retrieve \/ UNCHANGED vars
    PROVE  AskInv'
<1>1. CASE req' = req
  BY <1>1, SameSources DEF AskInv, RetrievalInv, TypeOK, WaitInv, AnswerInv, ScoreInv
<1>2. CASE Retrieve
  <2>1. ~Retrieved /\ req' # Idle
    BY <1>2, RetrieveMoves DEF AskInv, RetrievalInv
  <2>2. ask # NoRequest => ask.at \in {"search", "ask"} /\ ask.kind = "none"
    BY <2>1 DEF AskInv, WaitInv, TypeOK, Responses
  <2> QED
    BY <2>1, <2>2 DEF AskInv, RetrievalInv, TypeOK, WaitInv, AnswerInv, ScoreInv
<1> QED
  BY <1>1, <1>2, IndexLeavesRequest DEF vars

\* A response without an answer.
LEMMA ReturnKept ==
    ASSUME AskInv, RetrievalInv', UNCHANGED vars, Retrieved, ask.at \in {"search", "ask"},
           NEW k \in {"results", "notfound", "degraded", "error"}, Return(k)
    PROVE  AskInv'
<1>1. ask # NoRequest /\ ask \in Responses /\ req' = req
  BY DEF AskInv, TypeOK, NoRequest, vars
<1>2. /\ ask' \in Responses /\ ask'.at = "done" /\ ask'.kind = k /\ ask'.citations = ask.citations
      /\ ask'.score = ask.score
  BY <1>1 DEF Return, Responses
<1>3. ask.citations = {} /\ ask.score.num <= ask.score.den /\ req # Idle
  BY <1>1 DEF AskInv, WaitInv, TypeOK
<1>4. Retrieved'
  BY <1>1, SameSources
<1> QED
  BY <1>1, <1>2, <1>3, <1>4 DEF AskInv, RetrievalInv, TypeOK, WaitInv, AnswerInv, ScoreInv

LEMMA GenerateKept ==
    ASSUME AskInv, RetrievalInv', NEW p \in Providers, Generate(p)
    PROVE  AskInv'
<1>1. ask # NoRequest /\ ask \in Responses /\ req' = req /\ req # Idle /\ Retrieved /\ ask.at = "ask"
  BY DEF AskInv, TypeOK, NoRequest, vars, Generate, Answering
<1>2. PICK a \in IF p = "litellm" THEN Replies ELSE Extract(Query, Given) :
          ask' = [ask EXCEPT !.at = "score", !.provider = p, !.answer = a,
                             !.citations = Citations(a, Given)]
  BY DEF Generate
<1>3. a \in Seq(Parts) /\ Citations(a, Given) \subseteq [marker : Nat, doc : Nat]
  BY <1>1, <1>2, ProviderAnswers, CitationsAre DEF AskInv
<1>4. ask.kind = "none" /\ ask.verdict = NoVerdict /\ ask.score.num <= ask.score.den
  BY <1>1 DEF AskInv, WaitInv, TypeOK
<1>5. /\ ask' \in Responses /\ ask'.at = "score" /\ ask'.provider = p /\ ask'.answer = a
      /\ ask'.citations = Citations(a, Given) /\ ask'.kind = ask.kind /\ ask'.verdict = ask.verdict
      /\ ask'.score = ask.score
  BY <1>1, <1>2, <1>3 DEF Responses
<1>6. Given' = Given /\ Retrieved'
  BY <1>1, SameSources
<1> QED
  BY <1>1, <1>2, <1>4, <1>5, <1>6 DEF AskInv, RetrievalInv, TypeOK, WaitInv, AnswerInv, ScoreInv

LEMMA ScoreKept ==
    ASSUME AskInv, RetrievalInv', NEW m \in Modes, ScoreAnswer(m)
    PROVE  AskInv'
<1>1. ask # NoRequest /\ ask \in Responses /\ req' = req /\ req # Idle /\ ask.at = "score"
  BY DEF AskInv, TypeOK, NoRequest, vars, ScoreAnswer
<1>2. PICK v \in (IF m = "llm" /\ ask.provider = "litellm" THEN Verdicts ELSE {}) \cup {NoVerdict} :
          ask' = [ask EXCEPT !.at = "done", !.kind = "answer", !.verdict = v,
                             !.score = ScoreFaithfulness(m, v, ask.answer, Given),
                             !.warning = Below(ScoreFaithfulness(m, v, ask.answer, Given), FaithMin)]
  BY DEF ScoreAnswer
<1> DEFINE s == ScoreFaithfulness(m, v, ask.answer, Given)
<1>3. v \in Verdicts \cup {NoVerdict} /\ (v # NoVerdict => ask.provider = "litellm")
  BY <1>2
<1>4. s \in [num : Nat, den : Nat] /\ s.num <= s.den
  <2>1. ask.answer \in Seq(Parts)
    BY <1>1 DEF Responses
  <2> QED
    BY <1>3, <2>1, ScoreIs
<1>5. Below(s, FaithMin) \in BOOLEAN
  BY DEF Below
<1>6. Retrieved
  BY <1>1 DEF AskInv, WaitInv
<1>7. Given' = Given /\ Retrieved'
  BY <1>1, <1>6, SameSources
<1>8. ask.answer \in (IF ask.provider = "litellm" THEN Replies ELSE Extract(Query, Given))
      /\ ask.citations = Citations(ask.answer, Given)
  BY <1>1 DEF AskInv, AnswerInv
<1>9. ask'.score = s
  BY <1>1, <1>2 DEF Responses
<1> HIDE DEF s
<1>10. /\ ask' \in Responses /\ ask'.at = "done" /\ ask'.kind = "answer" /\ ask'.verdict = v
       /\ ask'.warning = Below(s, FaithMin) /\ ask'.provider = ask.provider
       /\ ask'.answer = ask.answer /\ ask'.citations = ask.citations
  BY <1>1, <1>2, <1>3, <1>4, <1>5 DEF Responses, s
<1>11. TypeOK' /\ WaitInv'
  BY <1>1, <1>4, <1>7, <1>9, <1>10 DEF RetrievalInv, TypeOK, WaitInv
<1>12. AnswerInv'
  BY <1>7, <1>8, <1>10 DEF AnswerInv
<1>13. ScoreInv'
  <2>1. ask'.score = ScoreFaithfulness(m, ask'.verdict, ask'.answer, Given')
    BY <1>7, <1>9, <1>10 DEF s
  <2>2. ask'.warning = Below(ask'.score, FaithMin)
    BY <1>9, <1>10
  <2> QED
    BY <1>3, <1>10, <2>1, <2>2 DEF ScoreInv
<1> QED
  BY <1>11, <1>12, <1>13 DEF AskInv

LEMMA AskInvInits ==
    ASSUME AskInit
    PROVE  AskInv
BY RetrievalInits DEF AskInit, AskInv, RetrievalInv, TypeOK, WaitInv, AnswerInv, ScoreInv

LEMMA AskInvKept ==
    ASSUME AskInv, [AskNext]_askVars
    PROVE  AskInv'
<1>1. CASE UNCHANGED askVars
  BY <1>1, RetrievalInvKept, WaitKept DEF askVars, AskInv
<1>2. CASE (Index \/ Retrieve) /\ UNCHANGED ask
  BY <1>2, RetrievalInvKept, WaitKept DEF AskInv
<1>3. ASSUME NEW t \in Tenants, NEW cf \in ClientFilters, NEW k \in TopKs, NEW vec \in BOOLEAN,
             HandleSearch(t, cf, k) \/ HandleAsk(t, cf, k, vec)
      PROVE  AskInv'
  <2>1. Begin(t, cf, k, vec) \/ Begin(t, cf, k, FALSE)
    BY <1>3 DEF HandleSearch, HandleAsk
  <2>2. RetrievalInv'
    BY <2>1, RetrievalInvKept DEF AskInv
  <2> QED
    BY <1>3, <2>2, StartKept
<1>4. UNCHANGED vars => RetrievalInv'
  BY RetrievalInvKept DEF AskInv
<1>5. CASE SearchResults \/ NothingToAnswer \/ GenerateError
  <2>1. PICK k \in {"results", "notfound", "degraded", "error"} : Return(k)
    BY <1>5 DEF SearchResults, NothingToAnswer, GenerateError
  <2>2. UNCHANGED vars /\ Retrieved /\ ask.at \in {"search", "ask"}
    BY <1>5 DEF SearchResults, NothingToAnswer, GenerateError, Answering
  <2> QED
    BY <1>4, <2>1, <2>2, ReturnKept
<1>6. ASSUME NEW p \in Providers, Generate(p) PROVE AskInv'
  <2>1. UNCHANGED vars
    BY <1>6 DEF Generate
  <2> QED
    BY <1>4, <1>6, <2>1, GenerateKept
<1>7. ASSUME NEW m \in Modes, ScoreAnswer(m) PROVE AskInv'
  <2>1. UNCHANGED vars
    BY <1>7 DEF ScoreAnswer
  <2> QED
    BY <1>4, <1>7, <2>1, ScoreKept
<1> QED
  BY <1>1, <1>2, <1>3, <1>5, <1>6, <1>7 DEF AskNext, Serve

-----------------------------------------------------------------------------
(* What the invariant says of a response *)

\* The invariant of every reachable state.
LEMMA AskInvariant == AskSpec => []AskInv
<1>1. AskInit => AskInv
  BY AskInvInits
<1>2. AskInv /\ [AskNext]_askVars => AskInv'
  BY AskInvKept
<1> QED
  BY <1>1, <1>2, PTL DEF AskSpec

\* An extracted answer was scored by the lexical check, and consists of quotes.
LEMMA ExtractedIs ==
    ASSUME AskInv, Extracted
    PROVE  /\ Retrieved /\ Readable(Given) /\ DOMAIN Given = DOMAIN req.sources
           /\ ask.answer \in Seq(Parts) /\ Len(ask.answer) \in 1..3
           /\ \A i \in DOMAIN ask.answer : Quotes(ask.answer[i], Given)
           /\ splitSentences(ask.answer) = DOMAIN ask.answer
           /\ \A i \in DOMAIN ask.answer : Sentence(ask.answer, i) = ask.answer[i].words
           /\ Cardinality(splitSentences(ask.answer)) \in 1..3
           /\ ask.citations = Citations(ask.answer, Given)
           /\ ask.score = Faithfulness(ask.answer, Given) /\ ask.warning = Below(ask.score, FaithMin)
<1>1. Retrieved
  BY DEF AskInv, WaitInv, Extracted, Responded
<1>2. Readable(Given) /\ DOMAIN Given = DOMAIN req.sources
  BY <1>1, GivenIs DEF AskInv
<1>3. /\ ask.answer \in Extract(Query, Given) /\ ask.answer # Abstention
      /\ ask.citations = Citations(ask.answer, Given)
  BY DEF AskInv, AnswerInv, Extracted, Responded
<1>4. /\ ask.verdict = NoVerdict /\ ask.warning = Below(ask.score, FaithMin)
      /\ \E m \in Modes : ask.score = ScoreFaithfulness(m, ask.verdict, ask.answer, Given)
  BY DEF AskInv, ScoreInv, Extracted, Responded
<1>5. ask.score = Faithfulness(ask.answer, Given)
  BY <1>4 DEF ScoreFaithfulness
<1> QED
  BY <1>1, <1>2, <1>3, <1>4, <1>5, ExtractIs, ExtractSplits

LEMMA QuotesAre ==
    ASSUME AskInv
    PROVE  QuotesCurrent
<1> SUFFICES ASSUME Extracted, NEW i \in DOMAIN ask.answer
             PROVE  LET p == ask.answer[i]
                        x == req.sources[p.marker]
                    IN  /\ p.marker \in DOMAIN req.sources
                        /\ \E j \in splitSentences(Text[x.doc][x.ver]) :
                              p.words = Sentence(Text[x.doc][x.ver], j)
                        /\ x.ver >= req.floor[x.doc].ver
                        /\ [marker |-> p.marker, doc |-> x.doc] \in ask.citations
  BY DEF QuotesCurrent
<1> DEFINE p == ask.answer[i]
           x == req.sources[p.marker]
<1>1. p.marker \in DOMAIN Given /\ \E j \in splitSentences(Given[p.marker].text) :
          p.words = Sentence(Given[p.marker].text, j)
  BY ExtractedIs DEF Quotes
<1>2. p.marker \in DOMAIN req.sources
  BY <1>1, ExtractedIs
<1>3. Given[p.marker].doc = x.doc /\ Given[p.marker].text = Text[x.doc][x.ver]
  BY <1>2 DEF Given
<1>4. x.ver >= req.floor[x.doc].ver
  BY <1>2, ExtractedIs, RetrievalOutcome DEF AskInv, SourcesFresh
<1>5. [marker |-> p.marker, doc |-> Given[p.marker].doc] \in Citations(ask.answer, Given)
  BY <1>1 DEF Citations
<1> HIDE DEF p, x
<1>6. \E j \in splitSentences(Text[x.doc][x.ver]) : p.words = Sentence(Text[x.doc][x.ver], j)
  BY <1>1, <1>3
<1>7. [marker |-> p.marker, doc |-> x.doc] \in ask.citations
  BY <1>3, <1>5, ExtractedIs
<1> QED
  BY <1>2, <1>4, <1>6, <1>7 DEF p, x

LEMMA QuotesFaithful ==
    ASSUME AskInv
    PROVE  FaithfulByConstruction
<1> SUFFICES ASSUME Extracted PROVE ask.score.num = ask.score.den /\ ~ask.warning
  BY DEF FaithfulByConstruction
<1> DEFINE n == Cardinality(splitSentences(ask.answer))
<1>1. \A i \in splitSentences(ask.answer) : Supported(Sentence(ask.answer, i), Given)
  BY ExtractedIs, QuoteSupported
<1>2. splitSentences(ask.answer) # {} /\ n \in Nat
  <2>1. n \in 1..3
    BY ExtractedIs
  <2> QED
    BY <2>1, FS_EmptySet
<1>3. ask.score.num = n /\ ask.score.den = n
  BY <1>1, <1>2, ExtractedIs, FaithfulnessIs
<1> HIDE DEF n
<1>4. FaithMin.num \in Int /\ FaithMin.den \in Nat /\ FaithMin.num <= FaithMin.den
  BY AskAssumption
<1>5. FaithMin.num * n <= n * FaithMin.den
  BY <1>2, <1>4
<1>6. ~(n * FaithMin.den < FaithMin.num * n)
  BY <1>2, <1>4, <1>5
<1> QED
  BY <1>3, <1>6, ExtractedIs DEF Below

\* An answer at or above the threshold has no unsupported sentence.
LEMMA PassedIsSupported ==
    ASSUME NEW a \in Seq(Parts), NEW sources,
           LET n == Cardinality(splitSentences(a)) IN (n - 1) * FaithMin.den < FaithMin.num * n,
           ~Below(Faithfulness(a, sources), FaithMin)
    PROVE  \A i \in splitSentences(a) : Supported(Sentence(a, i), sources)
<1>1. CASE splitSentences(a) = {}
  BY <1>1
<1>2. CASE splitSentences(a) # {}
  <2> DEFINE n == Cardinality(splitSentences(a))
             g == Faithfulness(a, sources).num
             q == FaithMin.den
             r == FaithMin.num
  <2>1. /\ g \in Nat /\ Faithfulness(a, sources).den = n /\ g <= n
        /\ g = n <=> \A i \in splitSentences(a) : Supported(Sentence(a, i), sources)
    BY <1>2, FaithfulnessIs
  <2>2. n \in Nat
    BY SplitIs, FS_CardinalityType
  <2>3. q \in Nat /\ r \in Int
    BY AskAssumption
  <2>4. ~(g * q < r * n) /\ (n - 1) * q < r * n
    BY <2>1 DEF Below
  <2> HIDE DEF n, g, q, r
  <2>5. ASSUME g # n PROVE FALSE
    <3>1. g <= n - 1 /\ n - 1 \in Nat
      BY <2>1, <2>2, <2>5
    <3>2. q * g <= q * (n - 1) /\ q * g \in Nat /\ q * (n - 1) \in Nat
      BY <2>1, <2>3, <3>1, ProductGrows
    <3>3. q * g = g * q /\ q * (n - 1) = (n - 1) * q /\ r * n \in Int
      BY <2>1, <2>2, <2>3
    <3> QED
      BY <2>4, <3>2, <3>3
  <2> QED
    BY <2>1, <2>5
<1> QED
  BY <1>1, <1>2

LEMMA UnsupportedAreWarned ==
    ASSUME AskInv
    PROVE  UnsupportedWarned
<1> SUFFICES ASSUME ShortAnswers, Responded, ask.kind = "answer", ask.verdict = NoVerdict, ~ask.warning
             PROVE  \A i \in splitSentences(ask.answer) : Supported(Sentence(ask.answer, i), Given)
  BY DEF UnsupportedWarned, splitSentences, Ends
<1>1. Retrieved
  BY DEF AskInv, WaitInv, Responded
<1>2. ask.answer \in IF ask.provider = "litellm" THEN Replies ELSE Extract(Query, Given)
  BY DEF AskInv, AnswerInv, Responded
<1>3. ask.answer \in Seq(Parts)
  BY <1>1, <1>2, ProviderAnswers DEF AskInv
<1> DEFINE n == Cardinality(splitSentences(ask.answer))
<1>4. n \in {Cardinality(splitSentences(a)) : a \in Replies} \cup 1..3
  <2>1. CASE ask.provider = "litellm"
    BY <1>2, <2>1
  <2>2. CASE ask.provider # "litellm"
    BY <1>1, <1>2, <2>2, GivenIs, ExtractSplits DEF AskInv
  <2> QED
    BY <2>1, <2>2
<1>5. ask.score = Faithfulness(ask.answer, Given) /\ ask.warning = Below(ask.score, FaithMin)
  BY DEF AskInv, ScoreInv, Responded, ScoreFaithfulness
<1>6. (n - 1) * FaithMin.den < FaithMin.num * n
  BY <1>4 DEF ShortAnswers
<1>7. ~Below(Faithfulness(ask.answer, Given), FaithMin)
  BY <1>5
<1> QED
  BY <1>3, <1>6, <1>7, PassedIsSupported

-----------------------------------------------------------------------------
(* The theorems *)

\* Every request and response of handleSearch and handleAsk has its type: no
\* list of retrieve is longer than its limit or repeats a document, and the
\* faithfulness score is a fraction of at most 1 whatever a judge returns.
THEOREM AskTypes == AskSpec => []TypeOK
<1>1. AskInv => TypeOK
  BY DEF AskInv
<1> QED
  BY <1>1, AskInvariant, PTL

\* What GetByIDs returned is live and not older than OpenSearch was when the
\* request began, however stale the point that proposed it.
THEOREM SourcesAreFresh == AskSpec => []SourcesFresh
<1>1. AskInv => SourcesFresh
  BY RetrievalOutcome DEF AskInv
<1> QED
  BY <1>1, AskInvariant, PTL

\* A source the stores agreed about and nobody wrote during the request passes
\* the filters, though GetByIDs does not look at them.
THEOREM FiltersHonoured == AskSpec => []FilterHonoured
<1>1. AskInv => FilterHonoured
  BY RetrievalOutcome DEF AskInv
<1> QED
  BY <1>1, AskInvariant, PTL

\* scopeFilters: every source belonged to the tenant of the request at some
\* moment of it, though the client may ask for another tenant, rows may move
\* between tenants and GetByIDs has no filter.
THEOREM TenantsScoped == AskSpec => []TenantScoped
<1>1. AskInv => TenantScoped
  BY RetrievalOutcome DEF AskInv
<1> QED
  BY <1>1, AskInvariant, PTL

\* retrieve serves what one surviving lane can find, whatever fails besides it.
THEOREM SettledIsServed == AskSpec => []SettledServed
<1>1. AskInv => SettledServed
  BY RetrievalOutcome DEF AskInv
<1> QED
  BY <1>1, AskInvariant, PTL

\* RRF: what both lanes found comes first when no reranker reorders it.
THEOREM BothFirst == AskSpec => []BothLanesFirst
<1>1. AskInv => BothLanesFirst
  BY RetrievalOutcome DEF AskInv
<1> QED
  BY <1>1, AskInvariant, PTL

\* The sentences of ExtractiveProvider stand in the sources they are cited from.
THEOREM QuotesAreCurrent == AskSpec => []QuotesCurrent
<1>1. AskInv => QuotesCurrent
  BY QuotesAre
<1> QED
  BY <1>1, AskInvariant, PTL

\* ExtractiveProvider is "faithful by construction" for the check that splits
\* its answer again.
THEOREM ExtractsAreFaithful == AskSpec => []FaithfulByConstruction
<1>1. AskInv => FaithfulByConstruction
  BY QuotesFaithful
<1> QED
  BY <1>1, AskInvariant, PTL

\* handleAsk warns about every short answer no judge has scored in which a
\* sentence that splitSentences finds has no support; words after the last full
\* stop are not a sentence to it.
THEOREM UnsupportedAnswersWarned == AskSpec => []UnsupportedWarned
<1>1. AskInv => UnsupportedWarned
  BY UnsupportedAreWarned
<1> QED
  BY <1>1, AskInvariant, PTL
=============================================================================
