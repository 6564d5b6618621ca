----------------------------- MODULE Grounding -----------------------------
(***************************************************************************)
(* internal/rag as operators: the extractive provider, citations, and the   *)
(* lexical faithfulness score.                                              *)
(*                                                                         *)
(* A text is a sequence of pieces [words, stop]: words, and whether a full  *)
(* stop (or ! or ?) and a space follow them.  Sentences are told apart by   *)
(* their words and the stop only.  A piece of an answer also has the marker *)
(* behind it, the number of a source or 0 for none; Join and the stripping  *)
(* of markers leave words and stops as they are.  A score is a fraction     *)
(* [num, den].                                                              *)
(***************************************************************************)
EXTENDS Integers, Sequences, SequencesExt

CONSTANT Stopwords

\* The pieces a full stop follows.
Ends(text) == {i \in DOMAIN text : text[i].stop}

\* splitSentences, each sentence by the position of its last piece: one ends at
\* every full stop; what follows the last is dropped, unless there is no other.
splitSentences(text) == IF Ends(text) # {} THEN Ends(text) ELSE {Len(text)} \ {0}

\* The words of the sentence that ends with piece i: those since the full stop before.
Sentence(text, i) ==
    UNION {text[j].words : j \in {j \in 1..i : \A k \in j..(i - 1) : ~text[k].stop}}

tokens(text) == UNION {text[i].words : i \in DOMAIN text}
contentTokens(words) == words \ Stopwords
overlap(a, b) == Cardinality(a \cap b)

\* "Not found in sources.", which extractive answers fall back to.
Abstention == <<[words |-> {"not", "found", "in", "sources"}, stop |-> TRUE, marker |-> 0]>>

\* The sentences that share a content word with the query.
Candidates(query, sources) ==
    {c \in UNION {{[words |-> Sentence(sources[i].text, j), stop |-> sources[i].text[j].stop,
                    marker |-> i, pos |-> j] :
                        j \in splitSentences(sources[i].text)} : i \in DOMAIN sources} :
        overlap(contentTokens(query), contentTokens(c.words)) > 0}

\* The better candidate: more words of the query, then the earlier source and
\* the earlier position (up to nine sources: markers compare as text).
Better(query, c, d) ==
    LET score(x) == overlap(contentTokens(query), contentTokens(x.words))
    IN  \/ score(c) > score(d)
        \/ score(c) = score(d) /\ c.marker < d.marker
        \/ score(c) = score(d) /\ c.marker = d.marker /\ c.pos < d.pos

\* ExtractiveProvider.Generate: the best three different sentences, or all if
\* they are fewer, each with the marker of its source (the set of the one answer).
Extract(query, sources) ==
    LET cands == Candidates(query, sources)
        first == {c \in cands : \A d \in cands :
                     d.words = c.words /\ d.stop = c.stop /\ d # c => Better(query, c, d)}
        best  == {s \in UNION {[1..n -> first] : n \in 1..3} :
                     /\ \A i, j \in DOMAIN s : i < j => Better(query, s[i], s[j])
                     /\ \A c \in first \ Range(s) : Len(s) = 3 /\ Better(query, s[3], c)}
    IN  IF cands = {} THEN {Abstention}
        ELSE {[i \in DOMAIN s |-> [words |-> s[i].words, stop |-> s[i].stop, marker |-> s[i].marker]] :
                 s \in best}

\* The citations of an answer: its markers that belong to a source.  The
\* extractive provider builds the same set from the parts it takes.
Citations(answer, sources) ==
    {[marker |-> m, doc |-> sources[m].doc] :
        m \in {answer[i].marker : i \in DOMAIN answer} \cap DOMAIN sources}

\* Mutant: only the first source is looked at.
Supported_FirstSource(words, sources) ==
    LET st == contentTokens(words)
    IN  st = {} \/ 10 * overlap(st, tokens(sources[1].text)) >= 6 * Cardinality(st)

\* At least 60% of the content words are in one source; a sentence without
\* content words has nothing to contradict.
Supported(words, sources) ==
    LET st == contentTokens(words)
    IN  \/ st = {}
        \/ \E i \in DOMAIN sources : 10 * overlap(st, tokens(sources[i].text)) >= 6 * Cardinality(st)

One == [num |-> 1, den |-> 1]

\* Faithfulness: the markers are stripped, the answer is split again, and the
\* score is the share of its sentences that a source supports.
Faithfulness(answer, sources) ==
    LET sentences == splitSentences(answer)
    IN  IF sentences = {} THEN One
        ELSE [num |-> Cardinality({i \in sentences : Supported(Sentence(answer, i), sources)}),
              den |-> Cardinality(sentences)]

\* JudgeFaithfulness: the model's score, brought into 0..1.
Clamp(x) ==
    IF x.num < 0 THEN [num |-> 0, den |-> 1] ELSE IF x.num > x.den THEN One ELSE x

\* The judge was not asked, or failed.
NoVerdict == [num |-> 0, den |-> 0]

\* Mutant: a judge that fails passes the answer.
ScoreFaithfulness_JudgeTrusted(mode, verdict, answer, sources) ==
    IF verdict # NoVerdict THEN Clamp(verdict)
    ELSE IF mode = "llm" THEN One ELSE Faithfulness(answer, sources)

\* ScoreFaithfulness: the verdict of the judge where there is one, otherwise
\* the lexical score.
ScoreFaithfulness(mode, verdict, answer, sources) ==
    IF mode = "llm" /\ verdict # NoVerdict THEN Clamp(verdict)
    ELSE Faithfulness(answer, sources)

Below(x, y) == x.num * y.den < y.num * x.den
=============================================================================
