------------------------------- MODULE MCAsk -------------------------------
(***************************************************************************)
(* Instances of Ask for TLC: two or three short documents about "wal".      *)
(***************************************************************************)
EXTENDS Ask

MCWords     == {"the", "wal", "log", "lag", "slot", "moon", "not", "found", "in", "sources"}
MCStopwords == {"the", "not", "in"}
MCQuery     == {"the", "wal"}

S(w) == [words |-> w, stop |-> TRUE]

\* Version 1 of document 1 answers the query, version 2 no longer; document 2
\* mentions "wal" after its last full stop, then comes to answer twice, once in
\* words of document 1; document 3 shares only a stop word with the query.
MCText == <<
    << <<S({"wal", "log"}), S({"lag"})>>, <<S({"lag"})>> >>,
    << <<S({"slot"}), [words |-> {"wal"}, stop |-> FALSE]>>, <<S({"wal", "log"}), S({"wal", "slot"})>> >>,
    << <<S({"the", "lag"})>>, <<S({"the", "lag"})>> >> >>

MCLexical == {x \in Docs \X (1..MaxVersion) : MCQuery \cap tokens(MCText[x[1]][x[2]]) # {}}

\* Document 1 belongs to t1 and document 2 to t2; document 3 may be inserted.
MCLoads == {<<"t1", "t2">>}

\* A client filters by category, or by a tenant that may not be its own.
MCFilters == {[category |-> "a"], [tenant_id |-> "t2"]}

\* Replies: an unsupported one without a full stop; and a sentence interrupted
\* by a marker that names no source, a second sentence that one text supports
\* together with the first and another text does not, then words without a full
\* stop that none supports.
MCReplies == LET P(w, e, m) == [words |-> w, stop |-> e, marker |-> m]
             IN  {<<P({"moon"}, FALSE, 1)>>,
                  <<P({"wal"}, FALSE, 3), P({"log"}, TRUE, 1), P({"lag"}, TRUE, 2),
                    P({"moon"}, FALSE, 1)>>}
MCVerdicts == {[num |-> -1, den |-> 2], [num |-> 2, den |-> 1]}
MCFaithMin == [num |-> 9, den |-> 10]
=============================================================================
