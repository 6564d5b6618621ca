-------------------------------- MODULE Ask --------------------------------
(***************************************************************************)
(* handleSearch and handleAsk of cmd/query below the caches: Retrieval      *)
(* composed with Grounding.  What the caches do with the response is the    *)
(* subject of AnswerCache.                                                  *)
(***************************************************************************)
EXTENDS Retrieval, Grounding

CONSTANTS
    Words,         \* the words there are
    Query,         \* the words of the query
    Text,          \* Text[d][v]: the text of version v of document d
    Providers,     \* LLM_PROVIDER: "extractive", "litellm"
    Modes,         \* FAITHFULNESS_MODE: "lexical", "llm"
    FaithMin,      \* FAITHFULNESS_THRESHOLD, a fraction
    Replies,       \* answers a model behind LiteLLM may write
    Verdicts       \* scores its judge may give

Texts == Seq([words : SUBSET Words, stop : BOOLEAN])
Parts == [words : SUBSET Words, stop : BOOLEAN, marker : Nat]

\* Texts are finite and have a full stop, which retrieve puts after the title;
\* the threshold and the judge's scores are fractions.
ASSUME AskAssumption ==
    /\ {"not", "found", "in", "sources"} \subseteq Words
    /\ Lexical = {x \in Docs \X (1..MaxVersion) : Query \cap tokens(Text[x[1]][x[2]]) # {}}
    /\ \A d \in Docs, v \in 1..MaxVersion :
          /\ Text[d][v] \in Texts /\ Ends(Text[d][v]) # {}
          /\ IsFiniteSet(tokens(Text[d][v]))
    /\ Replies \subseteq Seq(Parts)
    /\ FaithMin \in [num : Int, den : Nat \ {0}] /\ FaithMin.num <= FaithMin.den
    /\ Verdicts \subseteq [num : Int, den : Nat \ {0}]

VARIABLE ask       \* the handler: its settings and the response so far

askVars == <<vars, ask>>

NoRequest == [at |-> "idle"]
Handler(a) ==
    [at |-> a, provider |-> "none", kind |-> "none", answer |-> <<>>, citations |-> {},
     verdict |-> NoVerdict, score |-> One, warning |-> FALSE]

\* Mutant: the provider numbers the documents as they were fused.
Given_Unranked == [i \in DOMAIN req.sources |->
                      [doc |-> req.docs[i].doc, text |-> Text[req.docs[i].doc][req.docs[i].ver]]]

\* The sources as the provider sees them.
Given == [i \in DOMAIN req.sources |->
             [doc |-> req.sources[i].doc, text |-> Text[req.sources[i].doc][req.sources[i].ver]]]

\* The handler returns a response of kind k without an answer.
Return(k) == ask' = [ask EXCEPT !.at = "done", !.kind = k]

HandleSearch(t, cf, k) ==
    /\ Begin(t, cf, k, FALSE)
    /\ ask' = Handler("search")

\* vec: whether handleAsk's own Embed succeeded; if not, retrieve tries again.
HandleAsk(t, cf, k, vec) ==
    /\ Begin(t, cf, k, vec)
    /\ ask' = Handler("ask")

SearchResults ==
    /\ ask.at = "search" /\ Retrieved
    /\ Return(IF req.status = "error" THEN "error" ELSE "results")
    /\ UNCHANGED vars

NothingToAnswer ==
    /\ ask.at = "ask" /\ Retrieved
    /\ req.status = "error" \/ req.sources = <<>>
    /\ Return(IF req.status = "error" THEN "error" ELSE "notfound")
    /\ UNCHANGED vars

Answering == ask.at = "ask" /\ Retrieved /\ req.sources # <<>>

\* Generate: a provider's text and the citations found in it.  The settings of
\* the server are chosen where they are first used.
Generate(p) ==
    /\ Answering
    /\ \E a \in IF p = "litellm" THEN Replies ELSE Extract(Query, Given) :
          ask' = [ask EXCEPT !.at = "score", !.provider = p, !.answer = a,
                             !.citations = Citations(a, Given)]
    /\ UNCHANGED vars

\* The model cannot be reached: the documents are returned without an answer.
GenerateError ==
    /\ Answering /\ "litellm" \in Providers
    /\ Return("degraded")
    /\ UNCHANGED vars

\* ScoreFaithfulness, then the comparison with the threshold.  Only LiteLLM is
\* a Judge, it is asked in mode "llm", and its call may fail.
ScoreAnswer(m) ==
    /\ ask.at = "score"
    /\ \E v \in (IF m = "llm" /\ ask.provider = "litellm" THEN Verdicts ELSE {}) \cup {NoVerdict} :
          LET s == ScoreFaithfulness(m, v, ask.answer, Given)
          IN  ask' = [ask EXCEPT !.at = "done", !.kind = "answer", !.verdict = v, !.score = s,
                                 !.warning = Below(s, FaithMin)]
    /\ UNCHANGED vars

-----------------------------------------------------------------------------
AskInit == Init /\ ask = NoRequest

Serve ==
    \/ Retrieve /\ UNCHANGED ask
    \/ SearchResults \/ NothingToAnswer \/ GenerateError
    \/ \E p \in Providers : Generate(p)
    \/ \E m \in Modes : ScoreAnswer(m)

AskNext ==
    \/ Index /\ UNCHANGED ask
    \/ \E t \in Tenants, cf \in ClientFilters, k \in TopKs :
          \/ HandleSearch(t, cf, k)
          \/ \E vec \in BOOLEAN : HandleAsk(t, cf, k, vec)
    \/ Serve

AskSpec == AskInit /\ [][AskNext]_askVars

\* The handler and the goroutines it waits for keep running.
FairAskSpec == AskSpec /\ WF_askVars(Serve)

-----------------------------------------------------------------------------
(* Correctness *)

Responses ==
    [at : {"search", "ask", "score", "done"}, provider : Providers \cup {"none"},
     kind : {"none", "results", "notfound", "degraded", "answer", "error"},
     answer : Seq(Parts), citations : SUBSET [marker : Nat, doc : Nat],
     verdict : Verdicts \cup {NoVerdict}, score : [num : Nat, den : Nat], warning : BOOLEAN]

\* Type invariant: the response, and what was retrieved for it.
TypeOK ==
    /\ RetrievalTypeOK
    /\ ask # NoRequest => req # Idle /\ ask \in Responses /\ ask.score.num <= ask.score.den

Responded == ask # NoRequest /\ ask.at = "done"
Extracted == Responded /\ ask.kind = "answer" /\ ask.provider = "extractive"
             /\ ask.answer # Abstention

\* Every request is answered: the lanes join whichever of their calls fail.
Responds == ask # NoRequest ~> Responded

\* An extractive answer quotes: each of its sentences stands verbatim in the
\* document its marker and its citation name, as that document was when the
\* request began or later.
QuotesCurrent ==
    Extracted => \A i \in DOMAIN ask.answer :
        LET p == ask.answer[i]
            x == req.sources[p.marker]
        IN  /\ p.marker \in DOMAIN req.sources
            /\ \E j \in splitSentences(Text[x.doc][x.ver]) : p.words = Sentence(Text[x.doc][x.ver], j)
            /\ x.ver >= req.floor[x.doc].ver
            /\ [marker |-> p.marker, doc |-> x.doc] \in ask.citations

\* "Faithful by construction": an extractive answer, joined from its quotes and
\* split again by the check that runs after it, gets the full score and is
\* served without a warning.
FaithfulByConstruction ==
    Extracted => ask.score.num = ask.score.den /\ ~ask.warning

\* Answers are so short that one unsupported sentence brings the score below
\* the threshold: under ten sentences when it is 0.9.
ShortAnswers ==
    \A n \in {Cardinality(splitSentences(a)) : a \in Replies} \cup 1..3 :
        (n - 1) * FaithMin.den < FaithMin.num * n

\* A short answer no judge has scored is served without a warning only if one
\* of the sources supports each of its sentences that ends in a full stop, or
\* the whole answer if it has none.  Nothing is said of words that follow the
\* last full stop: splitSentences drops them, and no warning is due to them.
UnsupportedWarned ==
    ShortAnswers /\ Responded /\ ask.kind = "answer" /\ ask.verdict = NoVerdict /\ ~ask.warning =>
        \A i \in DOMAIN ask.answer :
            ask.answer[i].stop \/ (Ends(ask.answer) = {} /\ i = Len(ask.answer))
            => Supported(Sentence(ask.answer, i), Given)
=============================================================================
