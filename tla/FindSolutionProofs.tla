------------------------- MODULE FindSolutionProofs -------------------------
(***************************************************************************)
(* Proofs about FindSolution, for any bundles, requests, texts and changes *)
(* of the evidence: run-bound evidence is inherited by no other release    *)
(* (whatever the matchers answer), structure overrides words, no evidence  *)
(* is missed, and two version ranges overlap exactly when a probe meets    *)
(* both.                                                                   *)
(***************************************************************************)
EXTENDS FindSolution, FiniteSetTheorems, WellFoundedInduction, TLAPS

\* Nothing is answered before the answer.
AnswerComesLast == phase # "answered" => answer = NoAnswer

\* What EvidenceIsScoped says of one payload.
Scoped(r, p) ==
    p.status = "VERIFIED_MATCH" =>
        /\ \E package \in DOMAIN r.versions :
              MatchesExactObserved(r.versions[package], p.bundle.observed[package])
        /\ p.bundle.package \in p.bundle.names \cap DOMAIN r.versions =>
              ExactRelease(r, p.bundle)

(***************************************************************************)
(* A candidate's payload is scoped: the bundle path asks for the exact     *)
(* release of the bundle's own package.                                    *)
(***************************************************************************)
LEMMA PayloadScoped ==
    ASSUME NEW r, NEW b PROVE Scoped(r, Payload(r, b))
<1>1. CASE Environment(r, b) = "MISMATCH"
  <2>1. Payload(r, b).status = "VERSION_MISMATCH" BY <1>1 DEF Payload
  <2>. QED BY <2>1 DEF Scoped
<1>2. CASE Environment(r, b) # "MISMATCH"
  <2>1. /\ Payload(r, b).bundle = b
        /\ Payload(r, b).status = "VERIFIED_MATCH" => ExactRelease(r, b)
    BY <1>2 DEF Payload
  <2>. QED BY <2>1 DEF Scoped, ExactRelease
<1>. QED BY <1>1, <1>2

(***************************************************************************)
(* So is a recipe's: the recipe path asks for the exact release of every   *)
(* supplied package that the recipe's text names, and for at least one.    *)
(***************************************************************************)
LEMMA RecipeScoped ==
    ASSUME NEW r, NEW a \in RecipeAnswers(r), a # NoAnswer
    PROVE  a.related = {} /\ Scoped(r, a.top)
<1>1. PICK b \in Found(r) :
        /\ a.top.bundle = b
        /\ a.related = {}
        /\ DOMAIN r.versions # {}
  BY DEF RecipeAnswers, MostSimilar
<1>2. RecipeVersionsMatch(r, b) BY <1>1 DEF Found, Scored
<1>. QED BY <1>1, <1>2 DEF Scoped, RecipeVersionsMatch, ExactRelease

IInv == AnswerComesLast /\ EvidenceIsScoped

LEMMA NothingIsScoped ==
    ASSUME answer = NoAnswer PROVE EvidenceIsScoped
BY DEF NoAnswer, EvidenceIsScoped, Payloads

LEMMA Inductive == IInv /\ [Next]_findVars => IInv'
<1>. SUFFICES ASSUME IInv, [Next]_findVars PROVE IInv'
  OBVIOUS
<1>1. CASE answer' = NoAnswer
  BY <1>1 DEF IInv, AnswerComesLast, NoAnswer, EvidenceIsScoped, Payloads
<1>2. ASSUME NEW r, Ask(r) PROVE answer' = NoAnswer
  BY <1>2 DEF Ask, IInv, AnswerComesLast
<1>3. ASSUME Scan PROVE IInv'
  <2>1. CASE Candidates = {}
    BY <1>3, <1>1, <2>1 DEF Scan, IInv, AnswerComesLast
  <2>2. CASE Candidates # {}
    <3>. DEFINE P == {Payload(request, b) : b \in Candidates}
    <3>1. answer' \in Answers(P) /\ phase' = "answered" /\ request' = request
      BY <1>3, <2>2 DEF Scan
    <3>2. Payloads' \subseteq P
      BY <3>1 DEF Answers, MostSimilar, Payloads
    <3>3. \A p \in P : Scoped(request, p)
      BY PayloadScoped
    <3>. QED BY <3>1, <3>2, <3>3 DEF IInv, AnswerComesLast, EvidenceIsScoped, Scoped
  <2>. QED BY <2>1, <2>2
<1>4. ASSUME SearchRecipes, answer' # NoAnswer PROVE IInv'
  <2>1. answer' \in RecipeAnswers(request) /\ phase' = "answered" /\ request' = request
    BY <1>4 DEF SearchRecipes
  <2>2. answer'.related = {} /\ Scoped(request, answer'.top)
    BY <1>4, <2>1, RecipeScoped
  <2>. QED BY <2>1, <2>2
         DEF IInv, AnswerComesLast, EvidenceIsScoped, Payloads, Scoped
<1>5. ASSUME NEW b, NEW s, Change(b, s) PROVE answer' = NoAnswer
  BY <1>5 DEF Change, IInv, AnswerComesLast
<1>6. CASE UNCHANGED findVars
  BY <1>6 DEF findVars, IInv, AnswerComesLast, EvidenceIsScoped, Payloads, ExactRelease
<1>. QED BY <1>1, <1>2, <1>3, <1>4, <1>5, <1>6 DEF Next

(***************************************************************************)
(* However the standing of the bundles moves between the two reads, a      *)
(* VERIFIED_MATCH rests on a supplied version that its run observed        *)
(* (find_solution, search_recipes).                                        *)
(***************************************************************************)
THEOREM EvidenceScoped == Spec => []EvidenceIsScoped
<1>1. Init => IInv
  BY NothingIsScoped DEF Init, IInv, AnswerComesLast
<1>2. IInv /\ [Next]_findVars => IInv'
  BY Inductive
<1>3. IInv => EvidenceIsScoped
  BY DEF IInv
<1>. QED BY <1>1, <1>2, <1>3, PTL DEF Spec
-----------------------------------------------------------------------------
(***************************************************************************)
(* What the signature matcher answers.                                     *)
(***************************************************************************)
IsText(t) == t \in Seq([word : AllWords(t), role : Roles])

LEMMA TokensFinite ==
    ASSUME NEW q, IsText(q) PROVE IsFiniteSet(Tokens(q))
<1>. DEFINE I == {i \in DOMAIN q : q[i].role \in Roles \ {"stop"}}
            F == [i \in I |-> q[i].word]
<1>1. DOMAIN q = 1 .. Len(q) /\ Len(q) \in Nat BY DEF IsText
<1>2. IsFiniteSet(DOMAIN q) BY <1>1, FS_Interval
<1>3. IsFiniteSet(I) BY <1>2, FS_Subset
<1>4. F \in Surjection(I, Tokens(q)) BY DEF Tokens, WordsIn, Surjection
<1>. QED BY <1>3, <1>4, FS_Surjection

(***************************************************************************)
(* Words alone are worth at least 77 hundredths, or nothing: 60% of the    *)
(* query's words are enough for 50 + 27, all of them are worth 50 + 45.    *)
(***************************************************************************)
LEMMA Rounded ==
    ASSUME NEW c \in Nat, NEW a \in Nat, 0 < a, c <= a, 10 * c >= 6 * a
    PROVE  (90 * c + a) \div (2 * a) \in 27 .. 45
<1>. DEFINE x == 90 * c + a
            d == 2 * a
            y == x \div d
<1>1. x \in Nat /\ d \in Nat /\ 0 < d OBVIOUS
<1>2. y \in Int /\ x = (d * y) + (x % d) /\ x % d \in 0 .. (d - 1)
  BY <1>1
<1>3. 27 * d <= x /\ x < 46 * d OBVIOUS
<1>. HIDE DEF x, d, y
<1>4. ASSUME y <= 26 PROVE FALSE
  <2>1. d * y <= d * 26 BY <1>1, <1>2, <1>4
  <2>. QED BY <2>1, <1>1, <1>2, <1>3
<1>5. ASSUME y >= 46 PROVE FALSE
  <2>1. d * y >= d * 46 BY <1>1, <1>2, <1>5
  <2>. QED BY <2>1, <1>1, <1>2, <1>3
<1>6. y \in 27 .. 45 BY <1>2, <1>4, <1>5
<1>. QED BY <1>6 DEF x, d, y

LEMMA WordsRange ==
    ASSUME NEW q, NEW t, IsText(q)
    PROVE  WordSimilarity(q, t) \in {0} \cup 77 .. 95
<1>. DEFINE common == Cardinality(Tokens(q) \cap Tokens(t))
            all == Cardinality(Tokens(q))
<1>1. common \in Nat /\ all \in Nat /\ common <= all
  <2>1. IsFiniteSet(Tokens(q)) BY TokensFinite
  <2>. QED BY <2>1, FS_Subset, FS_CardinalityType
<1>. HIDE DEF common, all
<1>2. CASE common >= 3 /\ 10 * common >= 6 * all
  <2>1. (90 * common + all) \div (2 * all) \in 27 .. 45
    BY <1>1, <1>2, Rounded
  <2>2. WordSimilarity(q, t) = 50 + ((90 * common + all) \div (2 * all))
    BY <1>2 DEF WordSimilarity, common, all
  <2>. QED BY <2>1, <2>2
<1>3. CASE ~ (common >= 3 /\ 10 * common >= 6 * all)
  BY <1>3 DEF WordSimilarity, common, all
<1>. QED BY <1>2, <1>3

LEMMA SimilarityRange ==
    ASSUME NEW q, NEW t, NEW regex, IsText(q)
    PROVE  Similarity(q, t, regex) \in {0} \cup 77 .. 100
BY WordsRange DEF Similarity

\* A match contradicts no exception class, and below 98 no structured field.
Respects(q, t, s) ==
    /\ ~Differ(q, t, "class")
    /\ s < 98 => \A role \in {"attribute", "import", "removed"} : ~Differ(q, t, role)

LEMMA SimilarityRespects ==
    ASSUME NEW q, NEW t, NEW regex, Similarity(q, t, regex) # 0
    PROVE  Respects(q, t, Similarity(q, t, regex))
<1>1. ~Differ(q, t, "class") BY DEF Similarity
<1>2. ASSUME Similarity(q, t, regex) < 98
      PROVE  /\ ~Differ(q, t, "attribute")
             /\ ~Differ(q, t, "import")
             /\ ~Differ(q, t, "removed")
  BY <1>2 DEF Similarity, AttributeRefutes
<1>. QED BY <1>1, <1>2 DEF Respects

(***************************************************************************)
(* Positions have a least one: inclusion of finite sets is well-founded,   *)
(* hence so is that of the intervals that end at them.                     *)
(***************************************************************************)
LEMMA LeastNatural ==
    ASSUME NEW T \in SUBSET Nat, T # {}
    PROVE  \E i \in T : \A j \in T : i <= j
<1>. DEFINE I == {1 .. i : i \in T}
<1>1. I \subseteq FiniteSubsetsOf(Nat)
  <2>1. ASSUME NEW i \in T PROVE 1 .. i \in FiniteSubsetsOf(Nat)
    <3>1. IsFiniteSet(1 .. i) BY FS_Interval
    <3>2. 1 .. i \subseteq Nat OBVIOUS
    <3>. QED BY <3>1, <3>2 DEF FiniteSubsetsOf
  <2>. QED BY <2>1
<1>2. I # {} OBVIOUS
<1>3. PICK S \in I : \A U \in I : ~ (<<U, S>> \in StrictSubsetOrdering(Nat))
  BY <1>1, <1>2, FS_StrictSubsetOrderingWellFounded, WFMin
<1>4. PICK i \in T : S = 1 .. i OBVIOUS
<1>5. ASSUME NEW j \in T, j < i PROVE FALSE
  <2>1. 1 .. j \subseteq 1 .. i /\ i \in 1 .. i /\ i \notin 1 .. j
    BY <1>5
  <2>2. <<1 .. j, 1 .. i>> \in StrictSubsetOrdering(Nat)
    BY <2>1 DEF StrictSubsetOrdering
  <2>. QED BY <1>3, <1>4, <2>2
<1>. QED BY <1>5

(***************************************************************************)
(* A match is the match of the signature or of one of its variants.        *)
(***************************************************************************)
LEMMA MatchIsOne ==
    ASSUME NEW q, NEW primary, NEW variants, IsText(q),
           variants \in Seq({variants[i] : i \in DOMAIN variants})
    PROVE  \/ Match(q, primary, variants) = 0
           \/ \E v \in {primary} \cup {variants[i] : i \in DOMAIN variants} :
                 /\ Match(q, primary, variants) = Similarity(q, v.text, v.regex)
                 /\ Similarity(q, v.text, v.regex) \in 77 .. 100
<1>. DEFINE candidates == <<primary>> \o variants
            scores == [i \in DOMAIN candidates |->
                          Similarity(q, candidates[i].text, candidates[i].regex)]
            fitting == {i \in DOMAIN candidates : scores[i] > 0}
            least == CHOOSE i \in fitting : \A j \in fitting : i <= j
<1>. SUFFICES ASSUME fitting # {}
              PROVE  \E v \in {primary} \cup {variants[i] : i \in DOMAIN variants} :
                 /\ scores[least] = Similarity(q, v.text, v.regex)
                 /\ Similarity(q, v.text, v.regex) \in 77 .. 100
  BY DEF Match
<1>1. /\ DOMAIN candidates = 1 .. (1 + Len(variants)) /\ Len(variants) \in Nat
      /\ \A i \in DOMAIN candidates :
            candidates[i] = IF i = 1 THEN primary ELSE variants[i - 1]
      /\ DOMAIN variants = 1 .. Len(variants)
  OBVIOUS
<1>2. least \in fitting
  <2>1. fitting \subseteq Nat BY <1>1
  <2>2. \E i \in fitting : \A j \in fitting : i <= j
    BY <2>1, LeastNatural
  <2>. QED BY <2>2
<1>. HIDE DEF least, candidates
<1>3. candidates[least] \in {primary} \cup {variants[i] : i \in DOMAIN variants}
  BY <1>1, <1>2
<1>4. /\ scores[least] = Similarity(q, candidates[least].text, candidates[least].regex)
      /\ scores[least] > 0
  BY <1>2
<1>5. Similarity(q, candidates[least].text, candidates[least].regex)
        \in {0} \cup 77 .. 100
  BY SimilarityRange
<1>. HIDE DEF scores, fitting
<1>6. scores[least] \in 77 .. 100
  BY <1>4, <1>5
<1>. QED BY <1>3, <1>4, <1>6

-----------------------------------------------------------------------------
(***************************************************************************)
(* Structure overrides words.                                              *)
(***************************************************************************)

\* Where the request and the bundles come from, and what the standing can be.
AskedInv ==
    /\ shelf \in Shelves
    /\ standing \in [shelf -> Standings]
    /\ \A b \in shelf : standing[b] \in Possible(b)
    /\ phase # "idle" => request \in Requests[shelf]
    /\ AnswerComesLast

LEMMA AskedInit == Init => AskedInv
BY DEF Init, AskedInv, AnswerComesLast

LEMMA AskedStep == AskedInv /\ [Next]_findVars => AskedInv'
<1>. SUFFICES ASSUME AskedInv, [Next]_findVars PROVE AskedInv'
  OBVIOUS
<1>1. ASSUME NEW r \in Requests[shelf], Ask(r) PROVE AskedInv'
  BY <1>1 DEF Ask, AskedInv, AnswerComesLast
<1>2. CASE Scan
  BY <1>2 DEF Scan, AskedInv, AnswerComesLast
<1>3. CASE SearchRecipes
  BY <1>3 DEF SearchRecipes, AskedInv, AnswerComesLast
<1>4. ASSUME NEW b \in shelf, NEW s \in Standings, Change(b, s) PROVE AskedInv'
  BY <1>4 DEF Change, AskedInv, AnswerComesLast
<1>5. CASE UNCHANGED findVars
  BY <1>5 DEF findVars, AskedInv, AnswerComesLast
<1>. QED BY <1>1, <1>2, <1>3, <1>4, <1>5 DEF Next

\* What StructureOverridesWords says of one payload.
Structured(r, p) ==
    \E v \in {p.bundle.fingerprint}
             \cup {p.bundle.variants[i] : i \in DOMAIN p.bundle.variants} :
        Respects(r.text, v.text, p.similarity)

LEMMA PayloadStructured ==
    ASSUME NEW bundles \in Shelves, NEW r \in Requests[bundles], NEW b \in bundles,
           Similar(r, b) # 0
    PROVE  Structured(r, Payload(r, b))
<1>1. PICK v \in {b.fingerprint} \cup {b.variants[i] : i \in DOMAIN b.variants} :
        /\ Similar(r, b) = Similarity(r.text, v.text, v.regex)
        /\ Similarity(r.text, v.text, v.regex) # 0
  BY TextsAssumption, MatchIsOne DEF Similar, IsText
<1>2. Respects(r.text, v.text, Similar(r, b))
  BY <1>1, SimilarityRespects
<1>3. Payload(r, b).bundle = b /\ Payload(r, b).similarity = Similar(r, b)
  BY DEF Payload
<1>. QED BY <1>2, <1>3 DEF Structured

LEMMA RecipeStructured ==
    ASSUME NEW r, NEW a \in RecipeAnswers(r), a # NoAnswer
    PROVE  a.related = {} /\ Structured(r, a.top)
<1>1. PICK b \in Found(r) :
        /\ a.top.bundle = b
        /\ a.top.similarity = RecipeSimilarity(r, b)
        /\ a.related = {}
  BY DEF RecipeAnswers, MostSimilar
<1>2. RecipeSimilarity(r, b) >= 70 BY DEF Found, Scored
<1>3. Respects(r.text, b.fingerprint.text, RecipeSimilarity(r, b))
  BY <1>2, SimilarityRespects DEF RecipeSimilarity
<1>. QED BY <1>1, <1>3 DEF Structured

LEMMA StructuredPayloads ==
    StructureOverridesWords <=> \A p \in Payloads : Structured(request, p)
BY DEF StructureOverridesWords, Structured, Respects

LEMMA NoAnswerNoPayloads == answer = NoAnswer => Payloads = {}
BY DEF NoAnswer, Payloads

StructureInv == AskedInv /\ \A p \in Payloads : Structured(request, p)

LEMMA StructureStep == StructureInv /\ [Next]_findVars => StructureInv'
<1>. SUFFICES ASSUME StructureInv, [Next]_findVars
              PROVE  \A p \in Payloads' : Structured(request', p)
  BY AskedStep DEF StructureInv
<1>1. CASE answer' = NoAnswer
  BY <1>1 DEF NoAnswer, Payloads
<1>2. ASSUME NEW r, Ask(r) PROVE answer' = NoAnswer
  BY <1>2 DEF Ask, StructureInv, AskedInv, AnswerComesLast
<1>3. CASE Scan
  <2>1. CASE Candidates = {}
    BY <1>3, <1>1, <2>1 DEF Scan, StructureInv, AskedInv, AnswerComesLast
  <2>2. CASE Candidates # {}
    <3>. DEFINE P == {Payload(request, b) : b \in Candidates}
    <3>1. answer' \in Answers(P) /\ request' = request
      BY <1>3, <2>2 DEF Scan
    <3>2. Payloads' \subseteq P
      BY <3>1 DEF Answers, MostSimilar, Payloads
    <3>3. ASSUME NEW b \in Candidates PROVE Structured(request, Payload(request, b))
      <4>1. b \in shelf /\ Similar(request, b) # 0
        BY DEF Candidates, Candidate
      <4>2. shelf \in Shelves /\ request \in Requests[shelf]
        BY <1>3 DEF Scan, StructureInv, AskedInv
      <4>. QED BY <4>1, <4>2, PayloadStructured
    <3>. QED BY <3>1, <3>2, <3>3
  <2>. QED BY <2>1, <2>2
<1>4. ASSUME SearchRecipes, answer' # NoAnswer
      PROVE  \A p \in Payloads' : Structured(request', p)
  <2>1. answer' \in RecipeAnswers(request) /\ request' = request
    BY <1>4 DEF SearchRecipes
  <2>2. answer'.related = {} /\ Structured(request, answer'.top)
    BY <1>4, <2>1, RecipeStructured
  <2>. QED BY <2>1, <2>2 DEF Payloads
<1>5. ASSUME NEW b, NEW s, Change(b, s) PROVE answer' = NoAnswer
  BY <1>5 DEF Change, StructureInv, AskedInv, AnswerComesLast
<1>6. CASE UNCHANGED findVars
  BY <1>6 DEF findVars, StructureInv, Payloads
<1>. QED BY <1>1, <1>2, <1>3, <1>4, <1>5, <1>6 DEF Next

(***************************************************************************)
(* No payload names another exception class than the request, and one that *)
(* is alike in its words only contradicts it in no structured field        *)
(* (_evaluate_single_match, compute_match), for any texts.                 *)
(***************************************************************************)
THEOREM StructureFirst == Spec => []StructureOverridesWords
<1>1. Init => StructureInv
  BY AskedInit, NoAnswerNoPayloads DEF Init, StructureInv
<1>2. StructureInv /\ [Next]_findVars => StructureInv'
  BY StructureStep
<1>3. StructureInv => StructureOverridesWords
  BY StructuredPayloads DEF StructureInv
<1>. QED BY <1>1, <1>2, <1>3, PTL DEF Spec

-----------------------------------------------------------------------------
(***************************************************************************)
(* No evidence is missed.                                                  *)
(***************************************************************************)
LEMMA SimilarRange ==
    ASSUME NEW bundles \in Shelves, NEW r \in Requests[bundles], NEW b \in bundles
    PROVE  Similar(r, b) \in {0} \cup 77 .. 100
BY TextsAssumption, MatchIsOne DEF Similar, IsText

LEMMA RecipeRange ==
    ASSUME NEW bundles \in Shelves, NEW r \in Requests[bundles], NEW b
    PROVE  RecipeSimilarity(r, b) \in {0} \cup 77 .. 100
BY TextsAssumption, SimilarityRange DEF RecipeSimilarity, IsText

LEMMA ScanMissesNothing ==
    ASSUME AskedInv, Scan, NEW b \in shelf, standing[b] = "VERIFIED", request.lower,
           ExactRelease(request, b), Environment(request, b) = "MATCH",
           Similar(request, b) > 0
    PROVE  \E p \in Payloads' : p.bundle = b /\ p.status = "VERIFIED_MATCH"
<1>. DEFINE P == {Payload(request, c) : c \in Candidates}
            p == Payload(request, b)
<1>0. shelf \in Shelves /\ request \in Requests[shelf]
  BY DEF Scan, AskedInv
<1>1. b \in Candidates
  <2>1. Similar(request, b) >= 70 BY <1>0, SimilarRange
  <2>2. b.contract BY DEF AskedInv, Possible
  <2>. QED BY <2>1, <2>2 DEF Candidates, Candidate, Published, ExactRelease
<1>2. p.bundle = b /\ p.status = "VERIFIED_MATCH" /\ p.similarity = Similar(request, b)
  BY DEF Payload
<1>3. PICK top \in P : answer' = [top |-> top, related |-> P \ {top}]
  BY <1>1 DEF Scan, Answers, MostSimilar
<1>4. top # None
  <2>1. PICK c \in Candidates : top = Payload(request, c) BY <1>3
  <2>2. c \in shelf /\ Similar(request, c) \in 0 .. 100
    BY <1>0, <2>1, SimilarRange DEF Candidates
  <2>3. standing[c] \in Standings BY <2>2 DEF AskedInv
  <2>4. Actionability(c, TRUE) = "REPRODUCE_BEFORE_APPLY" BY DEF Actionability
  <2>5. Actionability(c, FALSE) \in
          {"REVERIFY_BEFORE_CONSIDERING", "USE_SUPERSEDING_RECORD", "DO_NOT_APPLY",
           "REPRODUCE_BEFORE_CONSIDERING"}
    BY <2>3 DEF Actionability, Standings
  <2>6. c \in UNION Shelves BY <1>0, <2>2
  <2>7. Payload(request, c) \in PayloadRecords
    BY <2>2, <2>4, <2>5, <2>6 DEF Payload, PayloadRecords
  <2>. QED BY <2>1, <2>7, PayloadsAssumption
<1>5. Payloads' = P BY <1>3, <1>4 DEF Payloads
<1>. QED BY <1>1, <1>2, <1>5

LEMMA RecipesMissNothing ==
    ASSUME AskedInv, SearchRecipes, NEW b \in shelf, standing[b] = "VERIFIED", b.unique,
           DOMAIN request.versions = {b.package}, b.package \in b.names,
           ExactRelease(request, b), RecipeSimilarity(request, b) > 0
    PROVE  answer'.top # None
<1>0. shelf \in Shelves /\ request \in Requests[shelf]
  BY DEF SearchRecipes, AskedInv
<1>1. b \in Scored(request)
  <2>1. RecipeSimilarity(request, b) >= 70 BY <1>0, RecipeRange
  <2>2. RecipeVersionsMatch(request, b) BY DEF RecipeVersionsMatch, ExactRelease
  <2>3. Asked(request) \cap b.names # {} BY DEF Asked
  <2>. QED BY <2>1, <2>2, <2>3 DEF Scored
<1>2. b \in Found(request)
  <2>1. RecipeSimilarity(request, b) \in 77 .. 100 BY <1>0, RecipeRange
  <2>2. ASSUME NEW c \in Scored(request)
        PROVE  10 * RecipeScore(request, b) >= 6 * RecipeScore(request, c)
    <3>1. RecipeSimilarity(request, c) \in 0 .. 100 BY <1>0, RecipeRange
    <3>. QED BY <2>1, <3>1 DEF RecipeScore
  <2>. QED BY <1>1, <2>2 DEF Found
<1>. DEFINE payload(c) ==
              [bundle |-> c, similarity |-> RecipeSimilarity(request, c),
               status |-> "VERIFIED_MATCH", action |-> "REPRODUCE_BEFORE_APPLY",
               patch |-> TRUE]
            P == {payload(c) : c \in Found(request)}
<1>3. P # {} BY <1>2
<1>4. RecipeAnswers(request) = {[top |-> p, related |-> {}] : p \in MostSimilar(P)}
  BY <1>3 DEF RecipeAnswers
<1>5. answer'.top \in MostSimilar(P)
  <2>1. answer' \in RecipeAnswers(request) BY DEF SearchRecipes
  <2>. QED BY <1>4, <2>1
<1>6. PICK c \in Found(request) : answer'.top = payload(c)
  BY <1>5 DEF MostSimilar
<1>7. c \in UNION Shelves BY <1>0 DEF Found, Scored
<1>8. RecipeSimilarity(request, c) \in 0 .. 100 BY <1>0, RecipeRange
<1>9. payload(c) \in PayloadRecords
  BY <1>7, <1>8 DEF PayloadRecords
<1>. QED BY <1>6, <1>9, PayloadsAssumption

(***************************************************************************)
(* A bundle with qualified evidence for the requested release is in the    *)
(* answer, whatever else matches and however it ranks; and if the bundles  *)
(* fail, the recipes of a single package find such evidence (find_solution *)
(* and search_recipes with their thresholds of 70, and 60% of the best).   *)
(***************************************************************************)
THEOREM NothingMissed == Spec => EvidenceNotMissed
<1>1. AskedInv /\ [Next]_findVars =>
        [Scan =>
             \A b \in shelf :
                 /\ standing[b] = "VERIFIED" /\ request.lower
                 /\ ExactRelease(request, b)
                 /\ Environment(request, b) = "MATCH" /\ Similar(request, b) > 0
                 => \E p \in Payloads' :
                       p.bundle = b /\ p.status = "VERIFIED_MATCH"]_findVars
  BY ScanMissesNothing
<1>2. AskedInv /\ [Next]_findVars =>
        [SearchRecipes =>
             \A b \in shelf :
                 /\ standing[b] = "VERIFIED" /\ b.unique
                 /\ DOMAIN request.versions = {b.package}
                 /\ b.package \in b.names /\ ExactRelease(request, b)
                 /\ RecipeSimilarity(request, b) > 0
                 => answer'.top # None]_findVars
  BY RecipesMissNothing
<1>. QED BY <1>1, <1>2, AskedInit, AskedStep, PTL DEF Spec, EvidenceNotMissed

-----------------------------------------------------------------------------
(***************************************************************************)
(* Overlaps.  Releases are ordered by their first segment that differs.    *)
(***************************************************************************)
Triples == [1 .. 3 -> Nat]
AnyClause == [op : Operators, at : Boundaries(Nat)]
Zero == <<0, 0, 0>>

LEMMA BelowIs ==
    ASSUME NEW r, NEW s
    PROVE  Below(r, s) <=>
              \/ r[1] < s[1]
              \/ r[1] = s[1] /\ r[2] < s[2]
              \/ r[1] = s[1] /\ r[2] = s[2] /\ r[3] < s[3]
<1>1. 1 .. 3 = {1, 2, 3} /\ 1 .. (1 - 1) = {} /\ 1 .. (2 - 1) = {1} /\ 1 .. (3 - 1) = {1, 2}
  OBVIOUS
<1>. QED BY <1>1 DEF Below

LEMMA TriplesEqual ==
    ASSUME NEW r \in Triples, NEW s \in Triples
    PROVE  r = s <=> r[1] = s[1] /\ r[2] = s[2] /\ r[3] = s[3]
<1>1. 1 .. 3 = {1, 2, 3} OBVIOUS
<1>2. ASSUME \A i \in 1 .. 3 : r[i] = s[i] PROVE r = s
  BY <1>2 DEF Triples
<1>. QED BY <1>1, <1>2

LEMMA TripleIs ==
    ASSUME NEW i \in Nat, NEW j \in Nat, NEW k \in Nat
    PROVE  <<i, j, k>> \in Triples
BY DEF Triples

LEMMA SegmentsAre ==
    ASSUME NEW r \in Triples
    PROVE  r[1] \in Nat /\ r[2] \in Nat /\ r[3] \in Nat
BY DEF Triples

(***************************************************************************)
(* What a boundary is padded to, and what is probed around it.             *)
(***************************************************************************)
LEMMA PadIs ==
    ASSUME NEW at \in Boundaries(Nat)
    PROVE  /\ Pad(at) \in Triples
           /\ Len(at) \in 1 .. 3
           /\ \A i \in 1 .. Len(at) : Pad(at)[i] = at[i]
           /\ \A i \in 1 .. 3 : i > Len(at) => Pad(at)[i] = 0
<1>1. PICK n \in 1 .. 3 : at \in [1 .. n -> Nat] BY DEF Boundaries
<1>2. at \in Seq(Nat) /\ Len(at) = n BY <1>1
<1>3. \A i \in 1 .. 3 : i <= n => at[i] \in Nat BY <1>1
<1>. QED BY <1>1, <1>2, <1>3 DEF Pad, Triples

LEMMA ProbesAre ==
    ASSUME NEW at \in Boundaries(Nat)
    PROVE  /\ Probes(at) \subseteq Triples
           /\ Pad(at) \in Probes(at)
           /\ <<Pad(at)[1], Pad(at)[2], Pad(at)[3] + 1>> \in Probes(at)
           /\ <<Pad(at)[1], Pad(at)[2] + 1, 0>> \in Probes(at)
           /\ <<Pad(at)[1] + 1, 0, 0>> \in Probes(at)
           /\ Pad(at)[3] > 0 =>
                <<Pad(at)[1], Pad(at)[2], Pad(at)[3] - 1>> \in Probes(at)
           /\ Pad(at)[2] > 0 => <<Pad(at)[1], Pad(at)[2] - 1, Far>> \in Probes(at)
           /\ Pad(at)[1] > 0 => <<Pad(at)[1] - 1, Far, Far>> \in Probes(at)
<1>. DEFINE b == Pad(at)
<1>1. b \in Triples BY PadIs
<1>2. b[1] \in Nat /\ b[2] \in Nat /\ b[3] \in Nat BY <1>1, SegmentsAre
<1>. HIDE DEF b
<1>3. [b EXCEPT ![3] = @ + 1] = <<b[1], b[2], b[3] + 1>>
  BY <1>1 DEF Triples
<1>4. [b EXCEPT ![3] = @ - 1] = <<b[1], b[2], b[3] - 1>>
  BY <1>1 DEF Triples
<1>5. Probes(at) =
        {b, <<b[1], b[2], b[3] + 1>>, <<b[1], b[2] + 1, 0>>, <<b[1] + 1, 0, 0>>}
        \cup (IF b[3] > 0 THEN {<<b[1], b[2], b[3] - 1>>} ELSE {})
        \cup (IF b[2] > 0 THEN {<<b[1], b[2] - 1, Far>>} ELSE {})
        \cup (IF b[1] > 0 THEN {<<b[1] - 1, Far, Far>>} ELSE {})
  BY <1>3, <1>4 DEF Probes, b
<1>6. Probes(at) \subseteq Triples
  <2>1. /\ <<b[1], b[2], b[3] + 1>> \in Triples
        /\ <<b[1], b[2] + 1, 0>> \in Triples
        /\ <<b[1] + 1, 0, 0>> \in Triples
    BY <1>2, TripleIs
  <2>2. b[3] > 0 => <<b[1], b[2], b[3] - 1>> \in Triples
    <3>1. b[3] > 0 => b[3] - 1 \in Nat BY <1>2
    <3>. QED BY <1>2, <3>1, TripleIs
  <2>3. b[2] > 0 => <<b[1], b[2] - 1, Far>> \in Triples
    <3>1. (b[2] > 0 => b[2] - 1 \in Nat) /\ Far \in Nat BY <1>2, FarAssumption
    <3>. QED BY <1>2, <3>1, TripleIs
  <2>4. b[1] > 0 => <<b[1] - 1, Far, Far>> \in Triples
    <3>1. (b[1] > 0 => b[1] - 1 \in Nat) /\ Far \in Nat BY <1>2, FarAssumption
    <3>. QED BY <3>1, TripleIs
  <2>. QED BY <1>1, <1>5, <2>1, <2>2, <2>3, <2>4
<1>. QED BY <1>5, <1>6 DEF b

\* Releases with the same first segments lie together.
LEMMA BetweenShares ==
    ASSUME NEW at \in Boundaries(Nat), NEW n \in 0 .. Len(at), NEW m \in Triples,
           NEW r \in Triples, SharePrefix(m, at, n), ~Below(r, Pad(at)), ~Below(m, r)
    PROVE  SharePrefix(r, at, n)
<1>. DEFINE b == Pad(at)
<1>1. b \in Triples /\ Len(at) \in 1 .. 3 /\ \A i \in 1 .. n : b[i] = at[i]
  BY PadIs
<1>2. \A i \in 1 .. n : m[i] = b[i] BY <1>1 DEF SharePrefix
<1>. HIDE DEF b
<1>3. /\ b[1] \in Nat /\ b[2] \in Nat /\ b[3] \in Nat
      /\ m[1] \in Nat /\ m[2] \in Nat /\ m[3] \in Nat
      /\ r[1] \in Nat /\ r[2] \in Nat /\ r[3] \in Nat
  BY <1>1, SegmentsAre
<1>4. ~Below(r, b) /\ ~Below(m, r) BY DEF b
<1>5. n \in {0, 1, 2, 3} BY <1>1
<1>6. \A i \in 1 .. n : r[i] = b[i]
  <2>1. CASE n = 0 BY <2>1
  <2>2. CASE n = 1
    <3>1. m[1] = b[1] BY <1>2, <2>2
    <3>2. r[1] = b[1] BY <1>3, <1>4, <3>1, BelowIs
    <3>. QED BY <2>2, <3>2
  <2>3. CASE n = 2
    <3>1. m[1] = b[1] /\ m[2] = b[2] BY <1>2, <2>3
    <3>2. r[1] = b[1] /\ r[2] = b[2] BY <1>3, <1>4, <3>1, BelowIs
    <3>3. 1 .. n = {1, 2} BY <2>3
    <3>. QED BY <3>2, <3>3
  <2>4. CASE n = 3
    <3>1. m[1] = b[1] /\ m[2] = b[2] /\ m[3] = b[3] BY <1>2, <2>4
    <3>2. r[1] = b[1] /\ r[2] = b[2] /\ r[3] = b[3] BY <1>3, <1>4, <3>1, BelowIs
    <3>3. 1 .. n = {1, 2, 3} BY <2>4
    <3>. QED BY <3>2, <3>3
  <2>. QED BY <1>5, <2>1, <2>2, <2>3, <2>4
<1>. QED BY <1>1, <1>6 DEF SharePrefix

\* The boundary itself is the first that shares its segments.
LEMMA SharingIsNotBelow ==
    ASSUME NEW at \in Boundaries(Nat), NEW r \in Triples, SharePrefix(r, at, Len(at))
    PROVE  ~Below(r, Pad(at))
<1>. DEFINE b == Pad(at)
<1>1. /\ b \in Triples /\ Len(at) \in 1 .. 3
      /\ \A i \in 1 .. 3 : i > Len(at) => b[i] = 0
      /\ \A i \in 1 .. Len(at) : r[i] = b[i]
  BY PadIs DEF SharePrefix
<1>2. /\ b[1] \in Nat /\ b[2] \in Nat /\ b[3] \in Nat
      /\ r[1] \in Nat /\ r[2] \in Nat /\ r[3] \in Nat
  BY <1>1, SegmentsAre
<1>. HIDE DEF b
<1>3. \A i \in 1 .. 3 : r[i] = b[i] \/ b[i] = 0 BY <1>1
<1>4. r[1] >= b[1] /\ r[2] >= b[2] /\ r[3] >= b[3] BY <1>2, <1>3
<1>5. ~Below(r, b) BY <1>2, <1>4, BelowIs
<1>. QED BY <1>5 DEF b

\* The first after those that share its segments is probed.
LEMMA FirstAfter ==
    ASSUME NEW at \in Boundaries(Nat)
    PROVE  \E l \in Probes(at) :
              \A r \in Triples :
                 (~SharePrefix(r, at, Len(at)) /\ ~Below(r, Pad(at))) <=> ~Below(r, l)
<1>. DEFINE b == Pad(at)
<1>1. /\ b \in Triples /\ Len(at) \in 1 .. 3
      /\ \A i \in 1 .. Len(at) : b[i] = at[i]
      /\ \A i \in 1 .. 3 : i > Len(at) => b[i] = 0
  BY PadIs
<1>2. b[1] \in Nat /\ b[2] \in Nat /\ b[3] \in Nat BY <1>1, SegmentsAre
<1>3. /\ <<b[1], b[2], b[3] + 1>> \in Probes(at) /\ <<b[1], b[2] + 1, 0>> \in Probes(at)
      /\ <<b[1] + 1, 0, 0>> \in Probes(at)
  BY ProbesAre
<1>4. \A r : SharePrefix(r, at, Len(at)) <=> \A i \in 1 .. Len(at) : r[i] = b[i]
  BY <1>1 DEF SharePrefix
<1>. HIDE DEF b
<1>5. CASE Len(at) = 1
  <2>1. ASSUME NEW r \in Triples
        PROVE  (~SharePrefix(r, at, Len(at)) /\ ~Below(r, b)) <=> ~Below(r, <<b[1] + 1, 0, 0>>)
    <3>1. r[1] \in Nat /\ r[2] \in Nat /\ r[3] \in Nat BY SegmentsAre
    <3>2. SharePrefix(r, at, Len(at)) <=> r[1] = b[1] BY <1>4, <1>5
    <3>3. b[2] = 0 /\ b[3] = 0 BY <1>1, <1>5
    <3>. QED BY <1>2, <3>1, <3>2, <3>3, BelowIs
  <2>. QED BY <1>3, <2>1 DEF b
<1>6. CASE Len(at) = 2
  <2>1. ASSUME NEW r \in Triples
        PROVE  (~SharePrefix(r, at, Len(at)) /\ ~Below(r, b)) <=> ~Below(r, <<b[1], b[2] + 1, 0>>)
    <3>1. r[1] \in Nat /\ r[2] \in Nat /\ r[3] \in Nat BY SegmentsAre
    <3>2. SharePrefix(r, at, Len(at)) <=> r[1] = b[1] /\ r[2] = b[2]
      <4>1. 1 .. Len(at) = {1, 2} BY <1>6
      <4>. QED BY <1>4, <4>1
    <3>3. b[3] = 0 BY <1>1, <1>6
    <3>. QED BY <1>2, <3>1, <3>2, <3>3, BelowIs
  <2>. QED BY <1>3, <2>1 DEF b
<1>7. CASE Len(at) = 3
  <2>1. ASSUME NEW r \in Triples
        PROVE  (~SharePrefix(r, at, Len(at)) /\ ~Below(r, b)) <=> ~Below(r, <<b[1], b[2], b[3] + 1>>)
    <3>1. r[1] \in Nat /\ r[2] \in Nat /\ r[3] \in Nat BY SegmentsAre
    <3>2. SharePrefix(r, at, Len(at)) <=> r[1] = b[1] /\ r[2] = b[2] /\ r[3] = b[3]
      <4>1. 1 .. Len(at) = {1, 2, 3} BY <1>7
      <4>. QED BY <1>4, <4>1
    <3>. QED BY <1>2, <3>1, <3>2, BelowIs
  <2>. QED BY <1>3, <2>1 DEF b
<1>. QED BY <1>1, <1>5, <1>6, <1>7

(***************************************************************************)
(* Where a clause is met it is met down to a probe around its boundary, or *)
(* all the way down.                                                       *)
(***************************************************************************)
LEMMA LeftEnd ==
    ASSUME NEW c \in AnyClause, NEW m \in Triples, Meets(m, c)
    PROVE  \E l \in Probes(c.at) \cup {Zero} :
              /\ ~Below(m, l)
              /\ \A r \in Triples : ~Below(r, l) /\ ~Below(m, r) => Meets(r, c)
<1>. DEFINE b == Pad(c.at)
<1>1. c.op \in Operators /\ c.at \in Boundaries(Nat) BY DEF AnyClause
<1>2. b \in Triples /\ Len(c.at) \in 1 .. 3 BY <1>1, PadIs
<1>3. /\ b[1] \in Nat /\ b[2] \in Nat /\ b[3] \in Nat
      /\ m[1] \in Nat /\ m[2] \in Nat /\ m[3] \in Nat
  BY <1>2, SegmentsAre
<1>4. b \in Probes(c.at) /\ <<b[1], b[2], b[3] + 1>> \in Probes(c.at)
  BY <1>1, ProbesAre
<1>. HIDE DEF b
<1>5. \A r \in Triples : ~Below(r, Zero) BY SegmentsAre, BelowIs DEF Zero
<1>6. ~Below(m, Zero) BY <1>5
<1>7. CASE c.op = "<"
  <2>1. ASSUME NEW r \in Triples, ~Below(m, r) PROVE Below(r, b)
    <3>1. Below(m, b) BY <1>7 DEF Meets, b
    <3>. QED BY <1>3, <2>1, <3>1, SegmentsAre, BelowIs
  <2>. QED BY <1>6, <1>7, <2>1 DEF Meets, b
<1>8. CASE c.op = "<="
  <2>1. ASSUME NEW r \in Triples, ~Below(m, r) PROVE ~Below(b, r)
    <3>1. ~Below(b, m) BY <1>8 DEF Meets, b
    <3>. QED BY <1>3, <2>1, <3>1, SegmentsAre, BelowIs
  <2>. QED BY <1>6, <1>8, <2>1 DEF Meets, b
<1>9. CASE c.op = ">"
  <2>. DEFINE l == <<b[1], b[2], b[3] + 1>>
  <2>1. \A r \in Triples : Below(b, r) <=> ~Below(r, l)
    BY <1>3, SegmentsAre, BelowIs
  <2>2. Below(b, m) BY <1>9 DEF Meets, b
  <2>. QED BY <1>4, <1>9, <2>1, <2>2 DEF Meets, b
<1>10. CASE c.op = ">="
  BY <1>4, <1>10 DEF Meets, b
<1>11. CASE c.op = "=="
  <2>1. m = b BY <1>11 DEF Meets, b
  <2>2. \A r \in Triples : ~Below(r, b) /\ ~Below(b, r) => r = b
    BY <1>2, <1>3, SegmentsAre, BelowIs, TriplesEqual
  <2>3. ~Below(m, b) BY <1>3, <2>1, BelowIs
  <2>. QED BY <1>4, <1>11, <2>1, <2>2, <2>3 DEF Meets, b
<1>12. CASE c.op = "!="
  <2>. DEFINE l == <<b[1], b[2], b[3] + 1>>
  <2>1. \A r \in Triples : Below(b, r) <=> ~Below(r, l)
    BY <1>3, SegmentsAre, BelowIs
  <2>2. m # b BY <1>12 DEF Meets, b
  <2>3. Below(m, b) \/ Below(b, m) BY <1>2, <1>3, <2>2, BelowIs, TriplesEqual
  <2>4. CASE Below(m, b)
    <3>1. ASSUME NEW r \in Triples, ~Below(m, r) PROVE r # b
      BY <2>4, <3>1
    <3>. QED BY <1>6, <1>12, <3>1 DEF Meets, b
  <2>5. CASE Below(b, m)
    <3>1. ~Below(b, b) BY <1>3, BelowIs
    <3>. QED BY <1>2, <1>4, <1>12, <2>1, <2>5, <3>1 DEF Meets, b
  <2>. QED BY <2>3, <2>4, <2>5
<1>13. CASE c.op = "~="
  <2>1. ~Below(m, b) /\ SharePrefix(m, c.at, Len(c.at) - 1) BY <1>13 DEF Meets, b
  <2>2. Len(c.at) - 1 \in 0 .. Len(c.at)
    <3>1. \A n \in 1 .. 3 : n - 1 \in 0 .. n OBVIOUS
    <3>. QED BY <1>2, <3>1
  <2>3. ASSUME NEW r \in Triples, ~Below(r, b), ~Below(m, r)
        PROVE  SharePrefix(r, c.at, Len(c.at) - 1)
    BY <1>1, <2>1, <2>2, <2>3, BetweenShares DEF b
  <2>. QED BY <1>4, <1>13, <2>1, <2>3 DEF Meets, b
<1>14. CASE c.op = "==.*"
  <2>1. SharePrefix(m, c.at, Len(c.at)) BY <1>14 DEF Meets
  <2>2. Len(c.at) \in 0 .. Len(c.at) BY <1>2
  <2>3. ASSUME NEW r \in Triples, ~Below(r, b), ~Below(m, r)
        PROVE  SharePrefix(r, c.at, Len(c.at))
    BY <1>1, <2>1, <2>2, <2>3, BetweenShares DEF b
  <2>4. ~Below(m, b) BY <1>1, <2>1, SharingIsNotBelow DEF b
  <2>. QED BY <1>4, <1>14, <2>3, <2>4 DEF Meets, b
<1>15. CASE c.op = "!=.*"
  <2>1. ~SharePrefix(m, c.at, Len(c.at)) BY <1>15 DEF Meets
  <2>2. CASE Below(m, b)
    <3>1. ASSUME NEW r \in Triples, ~Below(m, r) PROVE ~SharePrefix(r, c.at, Len(c.at))
      <4>1. Below(r, b) BY <1>3, <2>2, <3>1, SegmentsAre, BelowIs
      <4>. QED BY <1>1, <4>1, SharingIsNotBelow DEF b
    <3>. QED BY <1>6, <1>15, <3>1 DEF Meets
  <2>3. CASE ~Below(m, b)
    <3>1. PICK l \in Probes(c.at) :
            \A r \in Triples :
              (~SharePrefix(r, c.at, Len(c.at)) /\ ~Below(r, b)) <=> ~Below(r, l)
      BY <1>1, FirstAfter DEF b
    <3>. QED BY <1>15, <2>1, <2>3, <3>1 DEF Meets
  <2>. QED BY <2>2, <2>3
<1>. QED
  BY <1>1, <1>7, <1>8, <1>9, <1>10, <1>11, <1>12, <1>13, <1>14, <1>15 DEF Operators

(***************************************************************************)
(* A clause that all releases from the first on meet is met up to a probe. *)
(***************************************************************************)
LEMMA RightEnd ==
    ASSUME NEW c \in AnyClause, Meets(Zero, c)
    PROVE  \E u \in Probes(c.at) : \A r \in Triples : ~Below(u, r) => Meets(r, c)
<1>. DEFINE b == Pad(c.at)
<1>1. c.op \in Operators /\ c.at \in Boundaries(Nat) BY DEF AnyClause
<1>2. b \in Triples /\ Len(c.at) \in 1 .. 3 BY <1>1, PadIs
<1>3. b[1] \in Nat /\ b[2] \in Nat /\ b[3] \in Nat BY <1>2, SegmentsAre
<1>4. b \in Probes(c.at) BY <1>1, ProbesAre
<1>5. Zero \in Triples /\ Zero[1] = 0 /\ Zero[2] = 0 /\ Zero[3] = 0
  BY TripleIs DEF Zero
<1>6. b # Zero => \E u \in Probes(c.at) : \A r \in Triples : ~Below(u, r) => Below(r, b)
  <2>1. CASE b[3] > 0
    <3>. DEFINE u == <<b[1], b[2], b[3] - 1>>
    <3>1. u \in Probes(c.at) BY <1>1, <2>1, ProbesAre
    <3>. HIDE DEF b
    <3>2. \A r \in Triples : ~Below(u, r) => Below(r, b)
      BY <1>3, SegmentsAre, BelowIs
    <3>. QED BY <3>1, <3>2
  <2>2. CASE b[2] > 0
    <3>. DEFINE u == <<b[1], b[2] - 1, Far>>
    <3>1. u \in Probes(c.at) BY <1>1, <2>2, ProbesAre
    <3>. HIDE DEF b
    <3>2. \A r \in Triples : ~Below(u, r) => Below(r, b)
      BY <1>3, <2>2, FarAssumption, SegmentsAre, BelowIs
    <3>. QED BY <3>1, <3>2
  <2>3. CASE b[1] > 0
    <3>. DEFINE u == <<b[1] - 1, Far, Far>>
    <3>1. u \in Probes(c.at) BY <1>1, <2>3, ProbesAre
    <3>. HIDE DEF b
    <3>2. \A r \in Triples : ~Below(u, r) => Below(r, b)
      BY <1>3, <2>3, FarAssumption, SegmentsAre, BelowIs
    <3>. QED BY <3>1, <3>2
  <2>4. CASE b[1] = 0 /\ b[2] = 0 /\ b[3] = 0
    <3>. HIDE DEF b
    <3>1. b = Zero BY <1>2, <1>5, <2>4, TriplesEqual
    <3>. QED BY <3>1
  <2>. HIDE DEF b
  <2>. QED BY <1>3, <2>1, <2>2, <2>3, <2>4
<1>. HIDE DEF b
<1>7. \A r \in Triples : ~Below(Zero, r) => r = Zero
  BY <1>5, SegmentsAre, BelowIs, TriplesEqual
<1>8. Below(Zero, b) => b # Zero BY <1>5, BelowIs
<1>9. ~Below(Zero, b) => b = Zero BY <1>2, <1>7
<1>10. CASE c.op = "<"
  BY <1>6, <1>8, <1>10 DEF Meets, b
<1>11. CASE c.op = "<="
  BY <1>4, <1>11 DEF Meets, b
<1>12. CASE c.op = ">"
  <2>1. Below(b, Zero) BY <1>12 DEF Meets, b
  <2>. QED BY <1>3, <1>5, <2>1, BelowIs
<1>13. CASE c.op = ">="
  <2>1. b = Zero BY <1>9, <1>13 DEF Meets, b
  <2>2. \A r \in Triples : ~Below(r, b) BY <1>5, <2>1, SegmentsAre, BelowIs
  <2>. QED BY <1>4, <1>13, <2>2 DEF Meets, b
<1>14. CASE c.op = "=="
  <2>1. b = Zero BY <1>14 DEF Meets, b
  <2>. QED BY <1>4, <1>7, <1>14, <2>1 DEF Meets, b
<1>15. CASE c.op = "!="
  <2>1. b # Zero BY <1>15 DEF Meets, b
  <2>2. \A r : Below(r, b) => r # b BY <1>3, BelowIs
  <2>. QED BY <1>6, <1>15, <2>1, <2>2 DEF Meets, b
<1>16. CASE c.op = "~="
  <2>1. b = Zero BY <1>9, <1>16 DEF Meets, b
  <2>. QED BY <1>4, <1>7, <1>16, <2>1 DEF b
<1>17. CASE c.op = "==.*"
  <2>1. SharePrefix(Zero, c.at, Len(c.at)) BY <1>17 DEF Meets
  <2>2. ~Below(Zero, b) BY <1>1, <1>5, <2>1, SharingIsNotBelow DEF b
  <2>3. b = Zero BY <1>9, <2>2
  <2>. QED BY <1>4, <1>7, <1>17, <2>3 DEF b
<1>18. CASE c.op = "!=.*"
  <2>1. ~SharePrefix(Zero, c.at, Len(c.at)) BY <1>18 DEF Meets
  <2>2. SharePrefix(b, c.at, Len(c.at)) BY <1>1, PadIs DEF SharePrefix, b
  <2>3. b # Zero BY <2>1, <2>2
  <2>4. \A r \in Triples : Below(r, b) => ~SharePrefix(r, c.at, Len(c.at))
    BY <1>1, SharingIsNotBelow DEF b
  <2>. QED BY <1>6, <1>18, <2>3, <2>4 DEF Meets
<1>. QED
  BY <1>1, <1>10, <1>11, <1>12, <1>13, <1>14, <1>15, <1>16, <1>17, <1>18 DEF Operators

(***************************************************************************)
(* A finite set has a greatest element by any strict order, here a set of  *)
(* pairs.                                                                  *)
(***************************************************************************)
LEMMA Greatest ==
    ASSUME NEW T, IsFiniteSet(T), T # {}, NEW before,
           \A a \in T : <<a, a>> \notin before,
           \A a, b, c \in T :
              <<a, b>> \in before /\ <<b, c>> \in before => <<a, c>> \in before
    PROVE  \E m \in T : \A t \in T : <<m, t>> \notin before
<1>. DEFINE after(a) == {t \in T : <<a, t>> \in before}
            A == {after(a) : a \in T}
<1>1. A \subseteq FiniteSubsetsOf(T)
  <2>1. ASSUME NEW a \in T PROVE after(a) \in FiniteSubsetsOf(T)
    <3>1. IsFiniteSet(after(a)) BY FS_Subset
    <3>. QED BY <3>1 DEF FiniteSubsetsOf
  <2>. QED BY <2>1
<1>2. A # {}
  <2>1. PICK a \in T : TRUE OBVIOUS
  <2>2. after(a) \in A OBVIOUS
  <2>. QED BY <2>2
<1>3. PICK S \in A : \A U \in A : ~ (<<U, S>> \in StrictSubsetOrdering(T))
  BY <1>1, <1>2, FS_StrictSubsetOrderingWellFounded, WFMin
<1>4. PICK m \in T : S = after(m) OBVIOUS
<1>5. ASSUME NEW t \in T, <<m, t>> \in before PROVE FALSE
  <2>1. after(t) \subseteq after(m) /\ t \in after(m) /\ t \notin after(t)
    BY <1>5
  <2>2. after(t) \in SUBSET T /\ after(m) \in SUBSET T OBVIOUS
  <2>3. <<after(t), after(m)>> \in StrictSubsetOrdering(T)
    BY <2>1, <2>2 DEF StrictSubsetOrdering
  <2>. QED BY <1>3, <1>4, <2>3
<1>. QED BY <1>5

LEMMA ReleasesOrdered ==
    ASSUME NEW T \in SUBSET Triples, IsFiniteSet(T), T # {}
    PROVE  /\ \E m \in T : \A t \in T : ~Below(m, t)
           /\ \E m \in T : \A t \in T : ~Below(t, m)
<1>. DEFINE up == {p \in T \X T : Below(p[1], p[2])}
            down == {p \in T \X T : Below(p[2], p[1])}
<1>1. \A a, b, c \in Triples : Below(a, b) /\ Below(b, c) => Below(a, c)
  BY SegmentsAre, BelowIs
<1>2. \A a \in Triples : ~Below(a, a)
  BY SegmentsAre, BelowIs
<1>3. \A a, b \in T : /\ <<a, b>> \in up <=> Below(a, b)
                      /\ <<a, b>> \in down <=> Below(b, a)
  OBVIOUS
<1>. HIDE DEF up, down
<1>4. /\ \A a \in T : <<a, a>> \notin up /\ <<a, a>> \notin down
      /\ \A a, b, c \in T : <<a, b>> \in up /\ <<b, c>> \in up => <<a, c>> \in up
      /\ \A a, b, c \in T : <<a, b>> \in down /\ <<b, c>> \in down => <<a, c>> \in down
  BY <1>1, <1>2, <1>3
<1>5. \E m \in T : \A t \in T : <<m, t>> \notin up BY <1>4, Greatest
<1>6. \E m \in T : \A t \in T : <<m, t>> \notin down BY <1>4, Greatest
<1>. QED BY <1>3, <1>5, <1>6

(***************************************************************************)
(* The probes are enough, however far the releases reach: of all clauses,  *)
(* a release that meets them can be moved down to the greatest of their    *)
(* left ends, and, if that is no probe, from the first release up to the   *)
(* least of their right ends (check_version_compatibility).                *)
(***************************************************************************)
THEOREM ProbesFindOverlaps ==
    ASSUME NEW clauses, IsFiniteSet(clauses), clauses # {}, clauses \subseteq AnyClause
    PROVE  (\E r \in Triples : \A c \in clauses : Meets(r, c))
           <=> \E d \in clauses : \E r \in Probes(d.at) : \A c \in clauses : Meets(r, c)
<1>0. \A c \in clauses : Probes(c.at) \subseteq Triples
  BY ProbesAre DEF AnyClause
<1>1. Zero \in Triples BY TripleIs DEF Zero
<1>2. \A r, s, t \in Triples : ~Below(s, r) /\ ~Below(t, s) => ~Below(t, r)
  BY SegmentsAre, BelowIs
<1>. SUFFICES ASSUME NEW m \in Triples, \A c \in clauses : Meets(m, c)
              PROVE  \E d \in clauses : \E r \in Probes(d.at) :
                        \A c \in clauses : Meets(r, c)
  BY <1>0
<1>. DEFINE IsLeft(c, l) ==
              /\ l \in Probes(c.at) \cup {Zero}
              /\ ~Below(m, l)
              /\ \A r \in Triples : ~Below(r, l) /\ ~Below(m, r) => Meets(r, c)
            left == [c \in clauses |-> CHOOSE l : IsLeft(c, l)]
            L == {left[c] : c \in clauses}
<1>3. \A c \in clauses : IsLeft(c, left[c])
  <2>1. ASSUME NEW c \in clauses PROVE \E l : IsLeft(c, l)
    <3>1. c \in AnyClause /\ Meets(m, c) OBVIOUS
    <3>. QED BY <3>1, LeftEnd
  <2>. QED BY <2>1
<1>4. L \subseteq Triples BY <1>0, <1>1, <1>3
<1>5. IsFiniteSet(L) /\ L # {}
  <2>1. left \in Surjection(clauses, L) BY DEF Surjection
  <2>. QED BY <2>1, FS_Surjection
<1>6. PICK l \in L : \A t \in L : ~Below(l, t) BY <1>4, <1>5, ReleasesOrdered
<1>7. PICK d \in clauses : l = left[d] BY <1>6
<1>8. l \in Triples /\ ~Below(m, l) BY <1>3, <1>4, <1>7
<1>9. \A c \in clauses : Meets(l, c)
  <2>1. ASSUME NEW c \in clauses PROVE Meets(l, c)
    <3>1. ~Below(l, left[c]) BY <1>6
    <3>. QED BY <1>3, <1>8, <3>1
  <2>. QED BY <2>1
<1>10. CASE l \in Probes(d.at)
  BY <1>9, <1>10
<1>11. CASE l = Zero
  <2>. DEFINE IsRight(c, u) ==
                /\ u \in Probes(c.at)
                /\ \A r \in Triples : ~Below(u, r) => Meets(r, c)
              right == [c \in clauses |-> CHOOSE u : IsRight(c, u)]
              R == {right[c] : c \in clauses}
  <2>1. \A c \in clauses : IsRight(c, right[c])
    <3>1. ASSUME NEW c \in clauses PROVE \E u : IsRight(c, u)
      <4>1. c \in AnyClause /\ Meets(Zero, c) BY <1>9, <1>11
      <4>. QED BY <4>1, RightEnd
    <3>. QED BY <3>1
  <2>2. R \subseteq Triples BY <1>0, <2>1
  <2>3. IsFiniteSet(R) /\ R # {}
    <3>1. right \in Surjection(clauses, R) BY DEF Surjection
    <3>. QED BY <3>1, FS_Surjection
  <2>4. PICK u \in R : \A t \in R : ~Below(t, u) BY <2>2, <2>3, ReleasesOrdered
  <2>5. PICK e \in clauses : u = right[e] BY <2>4
  <2>6. u \in Probes(e.at) /\ u \in Triples BY <2>1, <2>2, <2>5
  <2>7. \A c \in clauses : Meets(u, c)
    <3>1. ASSUME NEW c \in clauses PROVE Meets(u, c)
      <4>1. ~Below(right[c], u) BY <2>4
      <4>. QED BY <2>1, <2>6, <4>1
    <3>. QED BY <3>1
  <2>. QED BY <2>6, <2>7
<1>. QED BY <1>3, <1>7, <1>10, <1>11

LEMMA InnerProbes ==
    ASSUME NEW at \in Boundaries(0 .. Far)
    PROVE  at \in Boundaries(Nat) /\ Probes(at) \subseteq Releases
<1>. DEFINE b == Pad(at)
<1>1. PICK n \in 1 .. 3 : at \in [1 .. n -> 0 .. Far] BY DEF Boundaries
<1>2. Far \in Nat BY FarAssumption
<1>3. 0 .. Far \subseteq Nat OBVIOUS
<1>4. at \in Boundaries(Nat) BY <1>1, <1>3 DEF Boundaries
<1>5. \A i \in 1 .. 3 : b[i] \in 0 .. Far
  <2>1. Len(at) = n /\ \A i \in 1 .. 3 : i <= n => at[i] \in 0 .. Far BY <1>1
  <2>. QED BY <1>2, <2>1 DEF Pad
<1>6. b \in Triples BY <1>4, PadIs
<1>7. Releases = [1 .. 3 -> 0 .. (Far + 1)] BY DEF Releases
<1>8. ASSUME NEW i \in 0 .. (Far + 1), NEW j \in 0 .. (Far + 1), NEW k \in 0 .. (Far + 1)
      PROVE  <<i, j, k>> \in Releases
  BY <1>7
<1>. HIDE DEF b
<1>9. b \in Releases BY <1>2, <1>5, <1>6, <1>7 DEF Triples
<1>10. /\ [b EXCEPT ![3] = @ + 1] \in Releases
       /\ b[3] > 0 => [b EXCEPT ![3] = @ - 1] \in Releases
  BY <1>2, <1>5, <1>7, <1>9
<1>11. <<b[1], b[2] + 1, 0>> \in Releases /\ <<b[1] + 1, 0, 0>> \in Releases
  BY <1>2, <1>5, <1>8
<1>12. b[2] > 0 => <<b[1], b[2] - 1, Far>> \in Releases
  BY <1>2, <1>5, <1>8
<1>13. b[1] > 0 => <<b[1] - 1, Far, Far>> \in Releases
  BY <1>2, <1>5, <1>8
<1>14. Probes(at) \subseteq Releases
  BY <1>9, <1>10, <1>11, <1>12, <1>13 DEF Probes, b
<1>. QED BY <1>4, <1>14

LEMMA CompatibleIsOverlap ==
    ASSUME NEW requested, IsRequest(requested), NEW affected, affected # {},
           IsFiniteSet(affected), affected \subseteq InnerClauses
    PROVE  Compatible(requested, affected) <=> Overlap(requested, affected)
<1>1. CASE requested = ExactRequest(requested.version) /\ requested.version \in Versions
  <2>. DEFINE v == requested.version
  <2>1. /\ requested.kind = "exact"
        /\ v.pre \in BOOLEAN
    BY <1>1 DEF ExactRequest, Versions
  <2>2. In(v, affected) <=> ~v.pre /\ In(Final(v.release), affected)
    BY DEF In, Final
  <2>. QED BY <2>1, <2>2 DEF Compatible, Overlap
<1>2. CASE /\ requested = RangeRequest(requested.clauses)
           /\ IsFiniteSet(requested.clauses)
           /\ requested.clauses \subseteq InnerClauses
  <2>. DEFINE clauses == requested.clauses \cup affected
  <2>1. requested.kind = "range" BY <1>2 DEF RangeRequest
  <2>2. \A r : In(Final(r), requested.clauses) /\ In(Final(r), affected)
               <=> \A c \in clauses : Meets(r, c)
    BY DEF In, Final
  <2>3. \A c \in clauses : c \in AnyClause /\ Probes(c.at) \subseteq Releases
    BY <1>2, InnerProbes DEF InnerClauses, AnyClause
  <2>4. Releases \subseteq Triples BY FarAssumption DEF Releases, Triples
  <2>5. IsFiniteSet(clauses) /\ clauses # {} BY <1>2, FS_Union
  <2>6. (\E r \in Triples : \A c \in clauses : Meets(r, c))
        <=> \E d \in clauses : \E r \in Probes(d.at) : \A c \in clauses : Meets(r, c)
    BY <2>3, <2>5, ProbesFindOverlaps
  <2>7. Compatible(requested, affected) <=>
          \E d \in clauses : \E r \in Probes(d.at) : \A c \in clauses : Meets(r, c)
    BY <2>1, <2>2 DEF Compatible
  <2>8. Overlap(requested, affected) <=>
          \E r \in Releases : \A c \in clauses : Meets(r, c)
    BY <2>1, <2>2 DEF Overlap
  <2>. HIDE DEF clauses
  <2>. QED BY <2>3, <2>4, <2>6, <2>7, <2>8
<1>3. CASE requested = MalformedRequest
  BY <1>3 DEF MalformedRequest, Compatible, Overlap
<1>. QED BY <1>1, <1>2, <1>3 DEF IsRequest

(***************************************************************************)
(* The probes answer of every request that they were asked about what a    *)
(* search of all releases would (check_version_compatibility).             *)
(***************************************************************************)
THEOREM OverlapsExact == Spec => []OverlapExact
<1>. DEFINE Asking == request # None => phase # "idle"
<1>1. Init => Asking BY DEF Init
<1>2. Asking /\ [Next]_findVars => Asking'
  BY DEF Next, Ask, Scan, SearchRecipes, Change, findVars
<1>3. AskedInv /\ Asking => OverlapExact
  <2>. SUFFICES ASSUME AskedInv, Asking, request # None, NEW b \in shelf,
                       b.package \in DOMAIN request.versions
                PROVE  Compatible(request.versions[b.package], b.affected)
                       <=> Overlap(request.versions[b.package], b.affected)
    BY DEF OverlapExact
  <2>1. shelf \in Shelves /\ request \in Requests[shelf] BY DEF AskedInv
  <2>2. /\ IsRequest(request.versions[b.package])
        /\ b.affected # {} /\ IsFiniteSet(b.affected)
        /\ b.affected \subseteq InnerClauses
    BY <2>1, VersionsAssumption
  <2>. QED BY <2>2, CompatibleIsOverlap
<1>. QED BY <1>1, <1>2, <1>3, AskedInit, AskedStep, PTL DEF Spec
=============================================================================
