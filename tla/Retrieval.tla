----------------------------- MODULE Retrieval -----------------------------
(* A question to the knowledge base (RagPipeline.query): routing, rewriting, a *)
(* semantic and a keyword search per query, two fusions by reciprocal rank,    *)
(* the quality gate, the reranker and the answer. Passages are numbers;        *)
(* cosines, strengths and relevances are hundredths, the weights tenths.       *)
(* Each initial state is one question and one content of the stores.           *)
EXTENDS Integers, Sequences, FiniteSets

CONSTANTS Passages, Siblings,     \* all passages; those of one parent
          Widening,               \* the first width of the vector search: 4 limits
          SemanticTenths, RankBase, \* the weight 0.7 and the constant 60
          NumQueries, RecallLimit, Pool, TopK,
          Cosines, Strengths      \* scores by position in a store's answer

ASSUME RetrievalAssumption ==
  /\ IsFiniteSet(Passages) /\ Siblings \subseteq Passages
  /\ {Widening, RankBase, NumQueries, RecallLimit, Pool, TopK} \subseteq Nat \ {0}
  /\ SemanticTenths \in 0..10
  /\ Cosines \subseteq [1..Cardinality(Passages) -> Int]
  \* FTS5's rank is never 0, so the best match is a positive one
  /\ Strengths \in [1..Cardinality(Passages) -> Nat]
  /\ Passages # {} => Strengths[1] > 0

VARIABLES question, answer
askVars == <<question, answer>>

Least(a, b) == IF a < b THEN a ELSE b
Most(a, b) == IF a > b THEN a ELSE b
ParentOf(p) == IF p \in Siblings THEN 0 ELSE p
Members(list) == {list[i] : i \in DOMAIN list}
PlaceOf(list, p) == CHOOSE i \in DOMAIN list : list[i] = p
FirstOf(list, n) == SubSeq(list, 1, Least(n, Len(list)))
\* The elements of a list that are in V, in the order of the list.
Among(list, V) ==
  LET upTo[k \in 0..Len(list)] ==
        IF k = 0 THEN <<>>
        ELSE IF list[k] \in V THEN Append(upTo[k - 1], list[k]) ELSE upTo[k - 1]
  IN upTo[Len(list)]
\* The members of S, those ahead of others first.
Ordered(S, Ahead(_, _)) ==
  [i \in 1..Cardinality(S) |->
     CHOOSE p \in S : Cardinality({x \in S \ {p} : Ahead(x, p)}) = i - 1]

-----------------------------------------------------------------------------
(* The stores. near: every passage, the nearest first.                        *)

\* sqlite-vec cannot filter: the width grows until enough visible ones are in.
Enough(near, visible, limit, k) ==
  Cardinality({i \in 1..k : near[i] \in visible}) >= limit \/ k >= Len(near)
WideEnough(near, visible, limit, k) == Enough(near, visible, limit, k)
Width(near, visible, limit) ==
  LET grown[k \in 1..Len(near)] ==
        IF WideEnough(near, visible, limit, k) THEN k
        ELSE grown[Least(Len(near), Most(k + 1, 2 * k))]
  IN grown[Least(Len(near), Most(limit * Widening, limit))]
SearchSemantic(near, visible, limit) ==
  FirstOf(Among(SubSeq(near, 1, Width(near, visible, limit)), visible), limit)
\* The filter is part of the text query.
SearchKeyword(matches, visible, limit) == FirstOf(Among(matches, visible), limit)

-----------------------------------------------------------------------------
(* HybridRetriever: a failing store is an empty list.                         *)

\* A share of 1/(RankBase + rank) in whole numbers.
Scale == 10 * (RankBase + 1) * (RankBase + 2) * (RankBase + 3)
Reciprocal(list, p) == IF p \in Members(list) THEN Scale \div (RankBase + PlaceOf(list, p)) ELSE 0
Positive(n) == Most(n, 0)
\* A passage's score as a share of the best of its list.
Share(list, score, p) ==
  IF p \in Members(list) /\ score[1] > 0 THEN (100 * Positive(score[PlaceOf(list, p)])) \div score[1]
  ELSE 0
\* mutant: the keyword contribution replaces the semantic one
FusedByLast(semantic, keyword, p) ==
  IF p \in Members(keyword) THEN (10 - SemanticTenths) * Reciprocal(keyword, p)
  ELSE SemanticTenths * Reciprocal(semantic, p)
Fused(semantic, keyword, p) ==
  SemanticTenths * Reciprocal(semantic, p) + (10 - SemanticTenths) * Reciprocal(keyword, p)
Relevance(semantic, cosine, keyword, p) ==
  (SemanticTenths * Share(semantic, cosine, p) + (10 - SemanticTenths) * Share(keyword, Strengths, p))
    \div 10
\* The order the passages were first met in breaks ties.
Met(semantic, keyword) == semantic \o Among(keyword, Members(keyword) \ Members(semantic))
FuseStores(semantic, keyword) ==
  LET met == Met(semantic, keyword)
      Ahead(x, p) == \/ Fused(semantic, keyword, x) > Fused(semantic, keyword, p)
                     \/ /\ Fused(semantic, keyword, x) = Fused(semantic, keyword, p)
                        /\ PlaceOf(met, x) < PlaceOf(met, p)
  IN FirstOf(Ordered(Members(met), Ahead), RecallLimit)
Semantic(q, i) == IF "semantic" \in q.down THEN <<>>
                  ELSE SearchSemantic(q.found[i].near, q.visible, RecallLimit)
Keyword(q, i) == IF "keyword" \in q.down THEN <<>>
                 ELSE SearchKeyword(q.found[i].matches, q.visible, RecallLimit)
SearchResult(q, i) ==
  [list |-> FuseStores(Semantic(q, i), Keyword(q, i)),
   relevance |-> [p \in Passages |-> Relevance(Semantic(q, i), q.cosine, Keyword(q, i), p)]]

-----------------------------------------------------------------------------
(* RagPipeline.query                                                          *)

\* The model's queries that are usable, then the question, without repeats.
Rewritten(q) ==
  LET candidates == Append(Among(q.parsed, Members(q.parsed) \ {"unusable"}), "question")
      new == {i \in DOMAIN candidates : \A j \in 1..(i - 1) : candidates[j] # candidates[i]}
  IN Least(NumQueries, Cardinality(new))

Total(searches, p) ==
  LET sum[i \in 0..Len(searches)] ==
        IF i = 0 THEN 0 ELSE sum[i - 1] + Reciprocal(searches[i].list, p)
  IN sum[Len(searches)]
BestRelevance(searches, p) ==
  LET values == {searches[i].relevance[p] : i \in {j \in DOMAIN searches : p \in Members(searches[j].list)}}
  IN CHOOSE v \in values : \A w \in values : w <= v
\* Where a passage was first met: the search, then the place in its list.
Earlier(searches, x, p) ==
  LET first(y) == CHOOSE i \in DOMAIN searches :
                    /\ y \in Members(searches[i].list)
                    /\ \A j \in 1..(i - 1) : y \notin Members(searches[j].list)
  IN \/ first(x) < first(p)
     \/ first(x) = first(p) /\ PlaceOf(searches[first(x)].list, x) < PlaceOf(searches[first(p)].list, p)
FuseQueries(searches) ==
  LET Ahead(x, p) == \/ Total(searches, x) > Total(searches, p)
                     \/ Total(searches, x) = Total(searches, p) /\ Earlier(searches, x, p)
  IN FirstOf(Ordered(UNION {Members(searches[i].list) : i \in DOMAIN searches}, Ahead), Pool)

Apart(a, b) == Most(a - b, b - a)
\* The gate looks at the first passage and the first of another parent.
GateStatus(list, relevance) ==
  LET rivals == {i \in DOMAIN list : ParentOf(list[i]) # ParentOf(list[1])}
      rival == list[CHOOSE i \in rivals : \A j \in rivals : i <= j]
  IN IF list = <<>> \/ relevance[list[1]] <= 0 THEN "NO_EVIDENCE"
     ELSE IF \/ relevance[list[1]] < 15
             \/ rivals # {} /\ Apart(relevance[list[1]], relevance[rival]) < 2 THEN "AMBIGUOUS"
     ELSE "HIGH_CONFIDENCE"

\* The model's scores by position; one that is missing is 0, none is a failure.
Reranked(list, scores) ==
  LET score(p) == IF PlaceOf(list, p) \in DOMAIN scores THEN scores[PlaceOf(list, p)] ELSE 0
      Ahead(x, p) == \/ score(x) > score(p)
                     \/ score(x) = score(p) /\ PlaceOf(list, x) < PlaceOf(list, p)
  IN IF scores = <<>> \/ Len(list) <= 1 THEN list ELSE Ordered(Members(list), Ahead)
UniqueParents(list) ==
  LET new == {p \in Members(list) : \A i \in 1..(PlaceOf(list, p) - 1) :
                                       ParentOf(list[i]) # ParentOf(p)}
  IN FirstOf(Among(list, new), TopK)

\* Dynamic data, sums and commitments are not answered from passages.
Route(words) ==
  IF "commitment" \in words THEN "human_review"
  ELSE IF "quote total" \in words THEN "calculator"
  ELSE IF "price" \in words THEN "mysql" ELSE "rag"
Refused(status) == [status |-> status, cites |-> 0]
\* The answer is the parent of the first passage.
AnswerWithCitations(list, status) ==
  IF status = "HIGH_CONFIDENCE" THEN [status |-> "ANSWERED", cites |-> list[1]] ELSE Refused(status)
QueryResult(q) ==
  LET searches == [i \in 1..Rewritten(q) |-> SearchResult(q, i)]
      list == FuseQueries(searches)
      relevance == [p \in Members(list) |-> BestRelevance(searches, p)]
      status == GateStatus(list, relevance)
      kept == UniqueParents(IF status = "HIGH_CONFIDENCE" THEN Reranked(list, q.scores) ELSE list)
  IN IF Route(q.words) # "rag" THEN Refused(Route(q.words)) ELSE AnswerWithCitations(kept, status)

-----------------------------------------------------------------------------
Orders == {s \in [1..Cardinality(Passages) -> Passages] : Members(s) = Passages}
\* What the text index may hold: up to two passages match.
KeywordLists == {<<>>} \cup {<<p>> : p \in Passages} \cup
           {m \in Passages \X Passages : m[1] # m[2]}
Found == [near : Orders, matches : KeywordLists]
Questions ==
  [found : [1..NumQueries -> Found], cosine : Cosines, down : {{}, {"semantic"}, {"keyword"}},
   visible : {Passages} \cup {Passages \ {p} : p \in Passages},
   parsed : {<<"variant">>}, scores : {<<>>, <<2, 8>>}, words : {{}}]
\* The words, and what the rewriter may return, are tried on one content each.
OtherQuestions ==
  [found : [1..NumQueries -> {[near |-> CHOOSE o \in Orders : TRUE, matches |-> <<>>]}],
   cosine : Cosines, down : {{}}, visible : {Passages},
   parsed : {<<>>, <<"unusable">>, <<"question">>, <<"variant", "variant">>}, scores : {<<>>},
   words : SUBSET {"price", "quote total", "commitment"}]

AskInit == question \in Questions \cup OtherQuestions /\ answer = Refused("none")
Ask == answer.status = "none" /\ answer' = QueryResult(question) /\ UNCHANGED question
AskSpec == AskInit /\ [][Ask]_askVars

-----------------------------------------------------------------------------
(* Properties.                                                                *)

\* When no store is down and a passage is the nearest, not pointing away from the
\* question, and the best match for every query, the answer is its parent; it is refused only when another
\* parent is as relevant, and replaced only by the reranker
\* (_fuse, reciprocal_rank_fusion, QualityGate, answer_with_citations).
Agreed(p) ==
  question.down = {} /\ question.words = {} /\ question.cosine[1] > 0 /\ \A i \in 1..Rewritten(question) :
    /\ Len(Semantic(question, i)) > 0 /\ Semantic(question, i)[1] = p
    /\ Len(Keyword(question, i)) > 0 /\ Keyword(question, i)[1] = p
Rivalled(p) ==
  \E i \in 1..Rewritten(question), j \in 1..Rewritten(question), r \in Passages :
    /\ ParentOf(r) # ParentOf(p)
    /\ Apart(SearchResult(question, i).relevance[r], SearchResult(question, j).relevance[p]) < 2
AgreedIsAnswered ==
  \A p \in Passages :
    (answer.status # "none" /\ question.scores = <<>> /\ Agreed(p)) =>
      \/ answer = [status |-> "ANSWERED", cites |-> p]
      \/ Rivalled(p) /\ answer = Refused("AMBIGUOUS")
=============================================================================
