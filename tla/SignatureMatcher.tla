-------------------------- MODULE SignatureMatcher --------------------------
(***************************************************************************)
(* app/core/signature_matcher.py: how alike two error texts are, in        *)
(* hundredths; 0 is no match.                                              *)
(*                                                                         *)
(* A text is a sequence of words, each with the role in which the regular  *)
(* expressions of extract_structure would find it.  A bound: the names     *)
(* they find are quoted, as in the messages of CPython and NumPy.          *)
(***************************************************************************)
EXTENDS Integers, Sequences, FiniteSets

CONSTANT Nothing \* a field of the structure that was not found

Roles == {"class", "object", "attribute", "import", "removed", "quoted",
          "method", "plain", "stop"}

WordsIn(text, roles) == {text[i].word : i \in {j \in DOMAIN text : text[j].role \in roles}}

\* The first word in that role.
Named(text, role) ==
    LET found == SelectSeq(text, LAMBDA w : w.role = role)
    IN  IF found = <<>> THEN Nothing ELSE found[1].word

AllWords(text) == WordsIn(text, Roles)
Quoted(text) == WordsIn(text, {"object", "attribute", "import", "removed", "quoted"})
Methods(text) == WordsIn(text, {"method"})
Tokens(text) == WordsIn(text, Roles \ {"stop"})

Within(s, t) ==
    \E i \in 0 .. (Len(t) - Len(s)) : SubSeq(t, i + 1, i + Len(s)) = s

\* Both name something in that role, and not the same thing.
Differ(q, t, role) ==
    /\ Named(q, role) # Nothing /\ Named(t, role) # Nothing
    /\ Named(q, role) # Named(t, role)

Agree(q, t, role) == Named(q, role) # Nothing /\ Named(q, role) = Named(t, role)

(***************************************************************************)
(* The gates of _evaluate_single_match, in its order.                      *)
(***************************************************************************)

\* C. What a missing attribute says against a match.
AttributeRefutes(q, t) ==
    \/ Differ(q, t, "attribute")
    \/ Agree(q, t, "attribute") /\ Differ(q, t, "object")
    \/ /\ Named(q, "attribute") # Nothing /\ Named(t, "attribute") = Nothing
       /\ Named(q, "attribute") \notin Tokens(t) \cup Quoted(t)

\* F. A literal or a call of the query has to occur in the target.
LiteralsRefute(q, t) ==
    \/ Quoted(q) # {} /\ Quoted(q) \cap AllWords(t) = {}
    \/ Methods(q) # {} /\ Methods(q) \cap AllWords(t) = {}

\* G. At least three tokens in common, and 60% of the query's.
WordSimilarity(q, t) ==
    LET common == Cardinality(Tokens(q) \cap Tokens(t))
        all == Cardinality(Tokens(q))
    IN  IF common >= 3 /\ 10 * common >= 6 * all
        THEN 50 + ((90 * common + all) \div (2 * all))
        ELSE 0

\* Mutation: the words are weighed before the imported and the removed names.
SimilarityWordsFirst(q, t, regex) ==
    IF Differ(q, t, "class") THEN 0
    ELSE IF Within(q, t) \/ Within(t, q) \/ q \in regex THEN 100
    ELSE IF AttributeRefutes(q, t) THEN 0
    ELSE IF Agree(q, t, "attribute") THEN 98
    ELSE WordSimilarity(q, t)

\* _evaluate_single_match: regex, the texts the fingerprint's pattern finds.
Similarity(q, t, regex) ==
    IF Differ(q, t, "class") THEN 0
    ELSE IF Within(q, t) \/ Within(t, q) \/ q \in regex THEN 100
    ELSE IF AttributeRefutes(q, t) THEN 0
    ELSE IF Agree(q, t, "attribute") THEN 98
    ELSE IF Differ(q, t, "import") THEN 0
    ELSE IF Agree(q, t, "import") THEN 98
    ELSE IF Differ(q, t, "removed") THEN 0
    ELSE IF Agree(q, t, "removed") THEN 98
    ELSE IF LiteralsRefute(q, t) THEN 0
    ELSE WordSimilarity(q, t)

\* compute_match: the primary signature, otherwise the first variant that fits.
Match(q, primary, variants) ==
    LET candidates == <<primary>> \o variants
        scores == [i \in DOMAIN candidates |->
                      Similarity(q, candidates[i].text, candidates[i].regex)]
        fitting == {i \in DOMAIN candidates : scores[i] > 0}
    IN  IF fitting = {} THEN 0
        ELSE scores[CHOOSE i \in fitting : \A j \in fitting : i <= j]
=============================================================================
