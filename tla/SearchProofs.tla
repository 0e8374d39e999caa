---------------------------- MODULE SearchProofs ----------------------------
(***************************************************************************)
(* Proofs about the search box and the search page's filters.               *)
(*                                                                          *)
(* The box, for any texts typed and any number of answers in any order: its *)
(* rows answer its present question, and a search it leads to is the one    *)
(* it showed.                                                               *)
(*                                                                          *)
(* The filters, for any catalogue, brands, types and limit of values: a     *)
(* click on a value never lists fewer articles than were counted beside it, *)
(* and the dimensions on screen stay those of the search, whatever was      *)
(* clicked and gone back from.                                              *)
(***************************************************************************)
EXTENDS SearchBar, SearchFilters, FiniteSetTheorems, SequenceTheorems, TLAPS

-----------------------------------------------------------------------------
(* The search box.                                                          *)

(* What is kept for a question is an answer to it, and only texts that were *)
(* typed are asked for.                                                     *)
BoxOK ==
    /\ boxText \in TypedTexts \union {"blank"} /\ settledText \in TypedTexts \union {"blank"}
    /\ scope \in {"generic", "part"} /\ isExact \in BOOLEAN
AnswersOK ==
    /\ DOMAIN answers \subseteq Questions
    /\ \A q \in DOMAIN answers : answers[q] \in Answers(q)
BarCountsOK == answerCount \in 0 .. MaxAnswers /\ typingCount \in 0 .. MaxTyping

BarInv ==
    /\ BoxOK /\ AnswersOK /\ BarCountsOK
    /\ listOpen \in BOOLEAN /\ activeIndex \in 0 .. 3
    /\ asked \subseteq Questions

LEMMA LaneType ==
    ASSUME NEW s, NEW exact
    PROVE  ResolveSearchMode(s, exact) \in Lanes
BY DEF ResolveSearchMode, Lanes

LEMMA QuestionsArePairs ==
    ASSUME NEW lane \in Lanes, NEW text \in TypedTexts \union {"blank"}, Completable(text)
    PROVE  AskKey(lane, text) \in Questions
BY DEF AskKey, Questions, Completable

(* An answer has at most three rows, each of the question's lane and text;  *)
(* terms are of the descriptive lane.                                       *)
LEMMA AnswerShape ==
    ASSUME NEW q \in Questions, NEW rows \in Answers(q)
    PROVE  /\ rows # <<>> => Len(rows) \in {1, 2, 3}
           /\ DOMAIN rows \subseteq 1 .. 3
           /\ DOMAIN rows = 1 .. Len(rows)
           /\ \A i \in DOMAIN rows :
                /\ rows[i].lane = q[1] /\ rows[i].text = q[2]
                /\ rows[i].kind \in {"article", "category", "term"}
                /\ rows[i].kind = "term" => q[1] = "generic"
<1>1. CASE rows = <<>>
    BY <1>1
<1>2. CASE q[1] = "generic" /\ rows = <<Row("term", 1, q), Row("term", 2, q)>>
    BY <1>2 DEF Row
<1>3. CASE rows = <<Row("article", 1, q)>>
    BY <1>3 DEF Row
<1>4. CASE rows = <<Row("article", 1, q), Row("category", 1, q), Row("category", 2, q)>>
    BY <1>4 DEF Row
<1> QED BY <1>1, <1>2, <1>3, <1>4 DEF Answers

LEMMA BarTyped == BarInv => SearchBarTypeOK
<1> SUFFICES ASSUME BarInv PROVE SearchBarTypeOK
    OBVIOUS
<1>1. boxText \in Texts /\ settledText \in Texts
    BY SearchBarAssumption DEF BarInv, BoxOK, Texts
<1>2. ASSUME NEW q \in DOMAIN answers, NEW i \in DOMAIN answers[q]
      PROVE  answers[q][i] \in SuggestionRows
  <2>1. q \in Questions /\ answers[q] \in Answers(q)
      BY DEF BarInv, AnswersOK
  <2>2. answers[q] \in UNION {Answers(k) : k \in Questions}
      BY <2>1
  <2> QED BY <2>2 DEF SuggestionRows
<1> QED BY <1>1, <1>2 DEF BarInv, BoxOK, AnswersOK, BarCountsOK, SearchBarTypeOK

(* The rows on screen are an answer to the question on screen.              *)
LEMMA RowsOnScreen ==
    ASSUME BarInv, Suggestions # <<>>
    PROVE  /\ Question \in Questions /\ Question = <<Lane, settledText>>
           /\ Suggestions \in Answers(Question)
BY DEF BarInv, AnswersOK, Suggestions, Question, AskKey

LEMMA RowOnScreen ==
    ASSUME BarInv, NEW i \in DOMAIN Suggestions
    PROVE  /\ Suggestions[i].lane = Lane /\ Suggestions[i].text = settledText
           /\ Suggestions[i].kind \in {"article", "category", "term"}
           /\ Suggestions[i].kind = "term" => Lane = "generic"
<1>1. Suggestions # <<>>
    OBVIOUS
<1>2. Question[1] = Lane /\ Question[2] = settledText
    BY <1>1, RowsOnScreen
<1> QED BY <1>1, <1>2, RowsOnScreen, AnswerShape

LEMMA BarInitHolds == SearchBarInit => BarInv
<1> SUFFICES ASSUME SearchBarInit PROVE BarInv
    OBVIOUS
<1>1. DOMAIN answers = {}
    BY DEF SearchBarInit
<1>2. AnswersOK
    BY <1>1 DEF AnswersOK
<1>3. BoxOK /\ BarCountsOK
    BY SearchBarAssumption DEF SearchBarInit, BoxOK, BarCountsOK
<1>4. listOpen \in BOOLEAN /\ asked \subseteq Questions
    BY DEF SearchBarInit
<1>5. activeIndex \in 0 .. 3
    BY DEF SearchBarInit
<1> QED BY <1>2, <1>3, <1>4, <1>5 DEF BarInv

(* Asking when the question is a new one asks a question.                   *)
LEMMA AskingKeeps ==
    ASSUME AskWhenNew, asked \subseteq Questions, BoxOK'
    PROVE  asked' \subseteq Questions
<1>1. Lane' \in Lanes
    BY LaneType DEF Lane
<1>2. Completable(settledText') => Question' \in Questions
    BY <1>1, QuestionsArePairs DEF BoxOK, Question
<1> QED BY <1>2 DEF AskWhenNew

LEMMA HighlightKeeps ==
    ASSUME BarInv, ArrowDown \/ ArrowUp \/ MouseEnter
    PROVE  BarInv'
<1>1. /\ Suggestions # <<>>
      /\ UNCHANGED <<boxText, scope, isExact, listOpen, settledText, asked, answers, landed,
                     answerCount, typingCount>>
    BY DEF ArrowDown, ArrowUp, MouseEnter, Highlight, IsListVisible
<1>2. Len(Suggestions) \in {1, 2, 3} /\ DOMAIN Suggestions \subseteq 1 .. 3
    BY <1>1, RowsOnScreen, AnswerShape
<1>3. activeIndex \in 0 .. 3
    BY DEF BarInv
<1>4. activeIndex' \in 0 .. 3
  <2>1. CASE ArrowDown
    <3>1. activeIndex' = (activeIndex % Len(Suggestions)) + 1
        BY <2>1 DEF ArrowDown, Highlight
    <3>2. CASE Len(Suggestions) = 1
        BY <3>1, <3>2, <1>3
    <3>3. CASE Len(Suggestions) = 2
        BY <3>1, <3>3, <1>3
    <3>4. CASE Len(Suggestions) = 3
        BY <3>1, <3>4, <1>3
    <3> QED BY <3>2, <3>3, <3>4, <1>2
  <2>2. CASE ArrowUp
    <3>1. activeIndex' = ((activeIndex - 2 + Len(Suggestions)) % Len(Suggestions)) + 1
        BY <2>2 DEF ArrowUp, Highlight
    <3>2. CASE Len(Suggestions) = 1
        BY <3>1, <3>2, <1>3
    <3>3. CASE Len(Suggestions) = 2
        BY <3>1, <3>3, <1>3
    <3>4. CASE Len(Suggestions) = 3
        BY <3>1, <3>4, <1>3
    <3> QED BY <3>2, <3>3, <3>4, <1>2
  <2>3. CASE MouseEnter
      BY <2>3, <1>2 DEF MouseEnter, Highlight
  <2> QED BY <2>1, <2>2, <2>3
<1> QED BY <1>1, <1>4 DEF BarInv, BoxOK, AnswersOK, BarCountsOK

LEMMA AnswerKeeps ==
    ASSUME BarInv, NEW q \in Questions, Answer(q)
    PROVE  BarInv'
<1>1. PICK rows \in Answers(q) :
        answers' = [k \in DOMAIN answers \union {q} |-> IF k = q THEN rows ELSE answers[k]]
    BY DEF Answer
<1>2. AnswersOK'
    BY <1>1 DEF BarInv, AnswersOK
<1>3. BarCountsOK'
    BY SearchBarAssumption DEF Answer, BarInv, BarCountsOK
<1> QED BY <1>2, <1>3 DEF BarInv, BoxOK, Answer

LEMMA BarStepHolds ==
    ASSUME BarInv, [SearchBarNext]_SearchBarVars
    PROVE  BarInv'
<1> USE DEF BarInv
<1>1. CASE \E t \in TypedTexts : Type(t)
    BY <1>1, SearchBarAssumption DEF Type, BoxOK, AnswersOK, BarCountsOK
<1>2. CASE Settle
  <2>1. BoxOK' /\ AnswersOK' /\ BarCountsOK'
      BY <1>2 DEF Settle, BoxOK, AnswersOK, BarCountsOK
  <2> QED BY <1>2, <2>1, AskingKeeps DEF Settle
<1>3. CASE \E q \in Questions : Answer(q)
    BY <1>3, AnswerKeeps
<1>4. CASE \E q \in Questions : AskingFails(q)
    BY <1>4 DEF AskingFails, BoxOK, AnswersOK, BarCountsOK
<1>5. CASE Refetch
    BY <1>5 DEF Refetch, BoxOK, AnswersOK, BarCountsOK
<1>6. ASSUME NEW s \in {"generic", "part"}, NEW exact \in BOOLEAN, SetMode(s, exact)
      PROVE  BarInv'
  <2>1. BoxOK' /\ AnswersOK' /\ BarCountsOK'
      BY <1>6, SearchBarAssumption DEF SetMode, BoxOK, AnswersOK, BarCountsOK
  <2> QED BY <1>6, <2>1, AskingKeeps DEF SetMode
<1>7. CASE (\E s \in {"generic", "part"} : SetScope(s)) \/ ToggleExact
    BY <1>6, <1>7 DEF SetScope, ToggleExact, BoxOK
<1>8. CASE Escape
  <2>1. BoxOK' /\ AnswersOK' /\ BarCountsOK'
      BY <1>8 DEF Escape, BoxOK, AnswersOK, BarCountsOK
  <2>2. listOpen' \in BOOLEAN /\ asked' \subseteq Questions
      BY <1>8 DEF Escape
  <2>3. activeIndex' \in 0 .. 3
      BY <1>8 DEF Escape
  <2> QED BY <2>1, <2>2, <2>3
<1>9. CASE ArrowDown \/ ArrowUp \/ MouseEnter
    BY <1>9, HighlightKeeps
<1>10. CASE UNCHANGED SearchBarVars
    BY <1>10 DEF SearchBarVars, BoxOK, AnswersOK, BarCountsOK
<1>11. CASE MouseDown \/ EnterOnRow \/ Submit
    BY <1>10, <1>11 DEF MouseDown, EnterOnRow, Submit, SelectSuggestion, SubmitSearch,
                NavigateTo, BoxOK, AnswersOK, BarCountsOK
<1>12. CASE TakeHint
  <2>1. BoxOK' /\ AnswersOK' /\ BarCountsOK'
      BY <1>12 DEF TakeHint, SubmitSearch, NavigateTo, ScopeHint, BoxOK, AnswersOK,
                   BarCountsOK
  <2> QED BY <1>12, <2>1, AskingKeeps DEF TakeHint, SubmitSearch, NavigateTo
<1> QED BY <1>1, <1>2, <1>3, <1>4, <1>5, <1>7, <1>8, <1>9, <1>10, <1>11, <1>12
        DEF SearchBarNext

THEOREM SearchBarInvariant == SearchBarSpec => []BarInv
BY BarInitHolds, BarStepHolds, PTL DEF SearchBarSpec

(* Every variable keeps to its values, and only a question that may be      *)
(* asked is asked.                                                          *)
THEOREM SearchBarTypeCorrect == SearchBarSpec => []SearchBarTypeOK
BY SearchBarInvariant, BarTyped, PTL

(* autocomplete.ts: in whatever order the answers arrive, the rows on       *)
(* screen are of the text and the lane the box now asks for.                *)
THEOREM RowsAreOfTheBox == SearchBarSpec => []RowsAnswerTheBox
<1>1. BarInv => RowsAnswerTheBox
    BY RowOnScreen DEF RowsAnswerTheBox
<1> QED BY <1>1, SearchBarInvariant, PTL

LEMMA SearchIsAsShownStep ==
    ASSUME BarInv, SearchBarNext, landed' # landed, landed'.to \notin {"home", "article"}
    PROVE  /\ landed'.mode = ResolveSearchMode(scope', isExact')
           /\ landed'.to \in {"term", "category"} => landed'.text = settledText
<1>1. ASSUME NEW i \in DOMAIN Suggestions, SelectSuggestion(Suggestions[i])
      PROVE  /\ landed'.mode = ResolveSearchMode(scope', isExact')
             /\ landed'.to \in {"term", "category"} => landed'.text = settledText
  <2>1. /\ landed' = SuggestionHref(Suggestions[i])
        /\ ResolveSearchMode(scope', isExact') = Lane
      BY <1>1 DEF SelectSuggestion, NavigateTo, Lane
  <2>2. CASE Suggestions[i].kind = "term"
      BY <2>1, <2>2, RowOnScreen DEF SuggestionHref, Search
  <2>3. CASE Suggestions[i].kind = "category"
      BY <2>1, <2>3, RowOnScreen DEF SuggestionHref, Search
  <2>4. CASE Suggestions[i].kind = "article"
      BY <2>1, <2>4 DEF SuggestionHref, Search
  <2> QED BY <2>2, <2>3, <2>4, RowOnScreen
<1>2. CASE MouseDown
    BY <1>1, <1>2 DEF MouseDown
<1>3. CASE EnterOnRow
    BY <1>1, <1>3 DEF EnterOnRow, SearchBarVars
<1>4. CASE Submit \/ TakeHint
    BY <1>4 DEF Submit, TakeHint, SubmitSearch, NavigateTo, Search
<1>5. CASE \E t \in TypedTexts : Type(t)
    BY <1>5 DEF Type, Home, Search
<1>6. ~ (\/ Settle \/ (\E q \in Questions : Answer(q)) \/ (\E q \in Questions : AskingFails(q))
         \/ Refetch \/ (\E s \in {"generic", "part"} : SetScope(s)) \/ ToggleExact
         \/ Escape \/ ArrowDown \/ ArrowUp \/ MouseEnter)
    BY DEF Settle, Answer, AskingFails, Refetch, SetScope, ToggleExact, SetMode, Escape,
           ArrowDown, ArrowUp, MouseEnter, Highlight
<1> QED BY <1>2, <1>3, <1>4, <1>5, <1>6 DEF SearchBarNext

(* suggestion-href.ts and use-search-mode.ts: whichever of the four ways    *)
(* leads to a search, it is in the lane the box then shows, and a row leads *)
(* to a search of the text it was suggested for.                            *)
THEOREM SearchesAreAsShown == SearchBarSpec => SearchIsAsShown
<1>1. BarInv /\ [SearchBarNext]_SearchBarVars =>
        [landed' # landed /\ landed'.to \notin {"home", "article"} =>
          /\ landed'.mode = ResolveSearchMode(scope', isExact')
          /\ landed'.to \in {"term", "category"} => landed'.text = settledText]_SearchBarVars
    BY SearchIsAsShownStep
<1> QED BY <1>1, SearchBarInvariant, PTL DEF SearchBarSpec, SearchIsAsShown

-----------------------------------------------------------------------------
(* The filters of the search page.                                          *)

(* A path of two categories ends at a leaf: the tree has no third level.    *)
Paths ==
    {path \in Seq(Categories) :
        Len(path) <= 2 /\ (Len(path) = 2 => ChildrenOf(path[2]) = {})}

Pages == Nat \ {0}

Urls == [query : BOOLEAN, page : Pages, brandIds : SUBSET Brands,
         productType : Types \union {"none"}, path : Paths,
         hasChildren : {"unknown", "true", "false"}, attributes : SUBSET Attributes]

(* The page is one of the list, or the list is empty.                       *)
PageExists(u) == MaxPage(u) >= 1 => u.page <= MaxPage(u)

CatalogueOK == catalogue \in [Listed -> ArticleKinds]
HereOK == here \in Urls /\ PageExists(here)
BeforeOK == before # NoUrl => before \in Urls /\ PageExists(before)
RetainedOK == retained.block \subseteq Attributes

FiltersInv ==
    /\ CatalogueOK /\ HereOK /\ BeforeOK /\ RetainedOK /\ NeverFewerThanOffered
    /\ clickCount \in 0 .. MaxNavigations

-----------------------------------------------------------------------------
(* What is matched.                                                         *)

LEMMA MatchesAreFinite ==
    ASSUME NEW u
    PROVE  /\ Matches(u) \subseteq Listed /\ IsFiniteSet(Matches(u)) /\ Total(u) \in Nat
<1>1. Matches(u) \subseteq Listed
    BY DEF Matches
<1> QED BY <1>1, SearchFiltersAssumption, FS_Subset, FS_CardinalityType DEF Total

LEMMA FewerOfFewer ==
    ASSUME NEW u, NEW S, S \subseteq Matches(u)
    PROVE  Cardinality(S) \in Nat /\ Cardinality(S) <= Total(u)
BY MatchesAreFinite, FS_Subset, FS_CardinalityType DEF Total

(* The search takes no notice of the page.                                  *)
LEMMA PageMatchesTheSame ==
    ASSUME NEW u \in Urls, NEW p
    PROVE  Matches(WithPage(u, p)) = Matches(u) /\ Total(WithPage(u, p)) = Total(u)
<1>1. /\ WithPage(u, p).brandIds = u.brandIds /\ WithPage(u, p).productType = u.productType
      /\ WithPage(u, p).path = u.path /\ WithPage(u, p).attributes = u.attributes
    BY DEF WithPage, Urls
<1>2. Matches(WithPage(u, p)) = Matches(u)
    BY <1>1 DEF Matches, FiltersOn, SelectedCategory
<1> QED BY <1>2 DEF Total

LEMMA RedirectedExists ==
    ASSUME NEW u \in Urls
    PROVE  /\ Redirected(u) \in Urls /\ PageExists(Redirected(u))
           /\ Total(Redirected(u)) = Total(u)
<1>1. Total(u) \in Nat
    BY MatchesAreFinite
<1>2. CASE MaxPage(u) >= 1 /\ u.page > MaxPage(u)
  <2>1. WithPage(u, MaxPage(u)) \in Urls /\ WithPage(u, MaxPage(u)).page = MaxPage(u)
      BY <1>1, <1>2 DEF WithPage, Urls, Pages, MaxPage
  <2> QED BY <1>1, <1>2, <2>1, PageMatchesTheSame DEF Redirected, PageExists, MaxPage
<1>3. CASE ~(MaxPage(u) >= 1 /\ u.page > MaxPage(u))
    BY <1>1, <1>3 DEF Redirected, PageExists, MaxPage, Urls, Pages
<1> QED BY <1>2, <1>3

(* What is offered of a dimension is a spelling or some of one measure.     *)
LEMMA BlockType ==
    ASSUME CatalogueOK, NEW u
    PROVE  DimensionBlock(u) \subseteq Attributes
<1>1. ASSUME NEW c \in Criteria, NEW t \in CriterionValues(u, c)
      PROVE  t \in (SUBSET Spellings) \ {{}}
  <2> DEFINE found == Matches([u EXCEPT !.attributes = {a \in @ : a.criterion # c}])
  <2>1. t \in MergedValues(found, c)
      BY <1>1 DEF CriterionValues, CapValues
  <2>2. found \subseteq Listed
      BY MatchesAreFinite
  <2> HIDE DEF found
  <2>3. PICK a \in found :
          t = {catalogue[b][c] : b \in {x \in found : MeasureOf(catalogue[x][c])
                                                       = MeasureOf(catalogue[a][c])}}
      BY <2>1 DEF MergedValues
  <2>4. catalogue[a][c] \in t
      BY <2>3
  <2>5. \A b \in found : catalogue[b][c] \in SpellingsOf(c)
      BY <2>2 DEF CatalogueOK, ArticleKinds, Criteria
  <2>6. SpellingsOf(c) \subseteq Spellings
      BY DEF Spellings
  <2> QED BY <2>3, <2>4, <2>5, <2>6
<1> QED BY <1>1 DEF DimensionBlock, Attributes

-----------------------------------------------------------------------------
(* The mutations of a URL.                                                  *)

LEMMA AtMostTwo == \A n \in Nat : n <= 2 => n \in {0, 1, 2}
OBVIOUS

LEMMA TwoOfTwo == \A n \in {0, 1, 2} : \A k \in 0 .. n : k = 2 => n = 2
OBVIOUS

LEMMA PathShape ==
    ASSUME NEW path \in Paths
    PROVE  /\ path \in Seq(Categories) /\ Len(path) \in {0, 1, 2}
           /\ Len(path) = 2 => ChildrenOf(path[2]) = {}
<1>1. path \in Seq(Categories) /\ Len(path) <= 2
    BY DEF Paths
<1>2. Len(path) \in Nat
    BY <1>1
<1>3. Len(path) \in {0, 1, 2}
    BY <1>1, <1>2, AtMostTwo
<1> QED BY <1>1, <1>3 DEF Paths

LEMMA PathsClosed ==
    /\ <<>> \in Paths
    /\ \A c \in Categories : <<c>> \in Paths /\ AncestryOf(c) \in Paths
    /\ \A path \in Paths : \A n \in 0 .. Len(path) : SubSeq(path, 1, n) \in Paths
    /\ \A path \in Paths :
         \A c \in ChildrenOf(IF path = <<>> THEN "none" ELSE path[Len(path)]) :
            Append(path, c) \in Paths
<1>1. <<>> \in Paths
    BY DEF Paths
<1>2. ASSUME NEW c \in Categories
      PROVE  <<c>> \in Paths
    BY DEF Paths
<1>3. ASSUME NEW c \in Categories
      PROVE  AncestryOf(c) \in Paths
  <2>1. CASE c = "brakes"
      BY <2>1, <1>2 DEF AncestryOf
  <2>2. CASE c # "brakes"
    <3>1. AncestryOf(c) = <<"brakes", c>>
        BY <2>2 DEF AncestryOf
    <3>2. ChildrenOf(c) = {}
        BY <2>2 DEF ChildrenOf, ParentOf, Categories
    <3> QED BY <3>1, <3>2 DEF Paths, Categories
  <2> QED BY <2>1, <2>2
<1>4. ASSUME NEW path \in Paths, NEW n \in 0 .. Len(path)
      PROVE  SubSeq(path, 1, n) \in Paths
  <2>1. path \in Seq(Categories) /\ Len(path) \in {0, 1, 2}
      BY PathShape
  <2>2. /\ SubSeq(path, 1, n) \in Seq(Categories) /\ Len(SubSeq(path, 1, n)) = n
        /\ n >= 2 => SubSeq(path, 1, n)[2] = path[2]
      BY <2>1, SubSeqProperties
  <2>3. CASE n = 2
    <3>1. Len(path) = 2
        BY <2>1, <2>3, TwoOfTwo
    <3>2. SubSeq(path, 1, n)[2] = path[2]
        BY <2>2, <2>3
    <3>3. ChildrenOf(SubSeq(path, 1, n)[2]) = {}
        BY <3>1, <3>2, PathShape
    <3>4. Len(SubSeq(path, 1, n)) <= 2
        BY <2>2, <2>3
    <3> QED BY <2>2, <3>3, <3>4 DEF Paths
  <2>4. CASE n # 2
    <3>1. Len(SubSeq(path, 1, n)) <= 2 /\ Len(SubSeq(path, 1, n)) # 2
        BY <2>1, <2>2, <2>4
    <3> QED BY <2>2, <3>1 DEF Paths
  <2> QED BY <2>3, <2>4
<1>5. ASSUME NEW path \in Paths,
             NEW c \in ChildrenOf(IF path = <<>> THEN "none" ELSE path[Len(path)])
      PROVE  Append(path, c) \in Paths
  <2>1. path \in Seq(Categories) /\ c \in Categories /\ Len(path) \in {0, 1, 2}
    <3>1. \A x : ChildrenOf(x) \subseteq Categories
        BY DEF ChildrenOf
    <3> QED BY <3>1, PathShape
  <2>2. CASE Len(path) = 0
      BY <2>1, <2>2, AppendProperties DEF Paths
  <2>3. CASE Len(path) = 1
    <3>1. path # <<>> /\ ParentOf(c) = path[1] /\ path[1] \in Categories
        BY <2>1, <2>3 DEF ChildrenOf
    <3>2. ChildrenOf(c) = {}
        BY <2>1, <3>1 DEF ChildrenOf, ParentOf, Categories
    <3>3. Append(path, c) \in Seq(Categories)
        BY <2>1
    <3>4. Len(Append(path, c)) = 2 /\ Append(path, c)[2] = c
      <4>1. /\ Len(Append(path, c)) = Len(path) + 1
            /\ Append(path, c)[Len(path) + 1] = c
          BY ONLY <2>1, AppendProperties
      <4> QED BY ONLY <4>1, <2>3
    <3> HIDE DEF Paths
    <3>5. Append(path, c) \in Seq(Categories) /\ Len(Append(path, c)) <= 2
          /\ (Len(Append(path, c)) = 2 => ChildrenOf(Append(path, c)[2]) = {})
        BY <3>2, <3>3, <3>4
    <3> QED BY ONLY <3>5 DEF Paths
  <2>4. CASE Len(path) = 2
      BY <2>1, <2>4 DEF Paths
  <2> QED BY <2>1, <2>2, <2>3, <2>4
<1> QED BY <1>1, <1>2, <1>3, <1>4, <1>5

LEMMA FirstPage == 1 \in Pages
BY DEF Pages

LEMMA NewSearchType == NewSearch \in Urls /\ Browse \in Urls
BY PathsClosed, FirstPage DEF NewSearch, Browse, Urls

LEMMA MutationsAreUrls ==
    ASSUME NEW u \in Urls
    PROVE  /\ \A b \in Brands : ToggleBrand(u, b) \in Urls
           /\ ClearBrands(u) \in Urls
           /\ \A t \in Types \union {"none"} : SelectProductType(u, t) \in Urls
           /\ \A path \in Paths : SelectCategoryPath(u, path) \in Urls
           /\ \A c : Append(u.path, c) \in Paths => DrillIntoCategory(u, c) \in Urls
           /\ \A a \in Attributes : ToggleAttribute(u, a) \in Urls
           /\ ClearAttributes(u) \in Urls
           /\ \A p \in Pages : WithPage(u, p) \in Urls
<1>1. \A b \in Brands : ToggleBrand(u, b) \in Urls
    BY FirstPage DEF ToggleBrand, Urls
<1>2. ClearBrands(u) \in Urls
    BY FirstPage DEF ClearBrands, Urls
<1>3. \A t \in Types \union {"none"} : SelectProductType(u, t) \in Urls
    BY FirstPage DEF SelectProductType, Urls
<1>4. \A path \in Paths : SelectCategoryPath(u, path) \in Urls
    BY FirstPage DEF SelectCategoryPath, Urls
<1>5. ASSUME NEW c, Append(u.path, c) \in Paths
      PROVE  DrillIntoCategory(u, c) \in Urls
    BY <1>5, FirstPage DEF DrillIntoCategory, Urls
<1>6. \A a \in Attributes : ToggleAttribute(u, a) \in Urls
    BY FirstPage DEF ToggleAttribute, Urls
<1>7. ClearAttributes(u) \in Urls
    BY FirstPage DEF ClearAttributes, Urls
<1>8. \A p \in Pages : WithPage(u, p) \in Urls
    BY DEF WithPage, Urls
<1> QED BY <1>1, <1>2, <1>3, <1>4, <1>5, <1>6, <1>7, <1>8

-----------------------------------------------------------------------------
(* What is counted beside a value is matched once it is applied.            *)

LEMMA BrandCountHolds ==
    ASSUME NEW u \in Urls, NEW b \in Brands, b \notin u.brandIds
    PROVE  BrandCount(u, b) \in Nat /\ BrandCount(u, b) <= Total(ToggleBrand(u, b))
<1> DEFINE v == ToggleBrand(u, b)
           w == ClearBrands(u)
<1>1. /\ v.brandIds = u.brandIds \union {b} /\ v.productType = u.productType
      /\ v.path = u.path /\ v.attributes = u.attributes
    BY FirstPage DEF ToggleBrand, Urls
<1>2. /\ w.brandIds = {} /\ w.productType = u.productType
      /\ w.path = u.path /\ w.attributes = u.attributes
    BY FirstPage DEF ClearBrands, Urls
<1> HIDE DEF v, w
<1>3. {a \in Matches(w) : catalogue[a].brand = b} \subseteq Matches(v)
    BY <1>1, <1>2 DEF Matches, FiltersOn, SelectedCategory
<1> QED BY <1>3, FewerOfFewer DEF BrandCount, v, w

LEMMA CategoryCountHolds ==
    ASSUME NEW u \in Urls, NEW c
    PROVE  CategoryCount(u, c) \in Nat /\ CategoryCount(u, c) <= Total(DrillIntoCategory(u, c))
<1> DEFINE v == DrillIntoCategory(u, c)
           w == [u EXCEPT !.productType = "none"]
<1>1. /\ v.brandIds = u.brandIds /\ v.productType = "none"
      /\ v.path = Append(u.path, c) /\ v.attributes = {}
    BY DEF DrillIntoCategory, Urls
<1>2. w.brandIds = u.brandIds /\ w.productType = "none" /\ w.path = u.path
    BY DEF Urls
<1>3. SelectedCategory(v) = c
  <2>1. u.path \in Seq(Categories)
      BY DEF Urls, Paths
  <2> HIDE DEF v
  <2>2. Append(u.path, c)[Len(Append(u.path, c))] = c
      BY <2>1
  <2> QED BY <2>2, <1>1 DEF SelectedCategory
<1> HIDE DEF v, w
<1>4. {a \in Matches(w) : Under(catalogue[a].leaf, c)} \subseteq Matches(v)
    BY <1>1, <1>2, <1>3 DEF Matches, FiltersOn
<1> QED BY <1>4, FewerOfFewer DEF CategoryCount, v, w

LEMMA TypeCountHolds ==
    ASSUME NEW u \in Urls, NEW t \in Types
    PROVE  TypeCount(u, t) \in Nat /\ TypeCount(u, t) <= Total(SelectProductType(u, t))
<1> DEFINE v == SelectProductType(u, t)
           w == [u EXCEPT !.productType = "none"]
<1>1. v.brandIds = u.brandIds /\ v.productType = t /\ v.path = u.path /\ v.attributes = {}
    BY FirstPage DEF SelectProductType, Urls
<1>2. w.brandIds = u.brandIds /\ w.productType = "none" /\ w.path = u.path
    BY DEF Urls
<1> HIDE DEF v, w
<1>3. {a \in Matches(w) : catalogue[a].type = t} \subseteq Matches(v)
    BY <1>1, <1>2 DEF Matches, FiltersOn, SelectedCategory
<1> QED BY <1>3, FewerOfFewer DEF TypeCount, v, w

LEMMA ValueCountHolds ==
    ASSUME NEW u \in Urls, NEW a \in Attributes, a \notin u.attributes
    PROVE  ValueCount(u, a) \in Nat /\ ValueCount(u, a) <= Total(ToggleAttribute(u, a))
<1> DEFINE v == ToggleAttribute(u, a)
           w == [u EXCEPT !.attributes = {x \in @ : x.criterion # a.criterion}]
<1>1. /\ v.brandIds = u.brandIds /\ v.productType = u.productType
      /\ v.path = u.path /\ v.attributes = u.attributes \union {a}
    BY FirstPage DEF ToggleAttribute, Urls
<1>2. /\ w.brandIds = u.brandIds /\ w.productType = u.productType
      /\ w.path = u.path
      /\ w.attributes = {x \in u.attributes : x.criterion # a.criterion}
    BY DEF Urls
<1> HIDE DEF v, w
<1>3. ASSUME NEW x \in Matches(w), catalogue[x][a.criterion] \in a.token
      PROVE  x \in Matches(v)
  <2>1. a.token \subseteq FiltersOn(v, a.criterion)
      BY <1>1 DEF FiltersOn
  <2>2. \A c : c # a.criterion => FiltersOn(v, c) = FiltersOn(w, c)
    <3> SUFFICES ASSUME NEW c, c # a.criterion
                 PROVE  {y \in v.attributes : y.criterion = c}
                          = {y \in w.attributes : y.criterion = c}
        BY DEF FiltersOn
    <3> QED BY <1>1, <1>2
  <2>3. \A c \in Criteria : FiltersOn(v, c) # {} => catalogue[x][c] \in FiltersOn(v, c)
      BY <1>3, <2>1, <2>2 DEF Matches
  <2> QED BY <1>1, <1>2, <1>3, <2>3 DEF Matches, SelectedCategory
<1>4. {x \in Matches(w) : catalogue[x][a.criterion] \in a.token} \subseteq Matches(v)
    BY <1>3
<1> QED BY <1>4, FewerOfFewer DEF ValueCount, CountOf, v, w

-----------------------------------------------------------------------------
(* A page is shown.                                                         *)

LEMMA ShowKeeps ==
    ASSUME CatalogueOK, NEW u, NEW held, held.block \subseteq Attributes, Show(u, held)
    PROVE  RetainedOK' /\ here' = u
<1>1. DimensionBlock(u) \subseteq Attributes
    BY BlockType
<1> QED BY <1>1 DEF Show, NothingRetained, NextRetained, RetainedOK

(* The catalogue stands, so what is counted of a URL does too.              *)
LEMMA CountsStand ==
    ASSUME UNCHANGED catalogue
    PROVE  /\ Total(here)' = Total(here') /\ PageExists(here)' = PageExists(here')
           /\ Total(before)' = Total(before') /\ PageExists(before)' = PageExists(before')
<1>1. Total(here)' = Total(here') /\ Total(before)' = Total(before')
    BY DEF Total, Matches, FiltersOn, SelectedCategory
<1> QED BY <1>1 DEF PageExists, MaxPage

LEMMA VisitKeeps ==
    ASSUME FiltersInv, NEW u \in Urls, NEW count \in Nat, count <= Total(u), Visit(u, count)
    PROVE  FiltersInv'
<1> USE DEF FiltersInv
<1>1. /\ Show(Redirected(u), retained) /\ before' = here /\ promised' = count
      /\ clickCount < MaxNavigations /\ clickCount' = clickCount + 1 /\ UNCHANGED catalogue
    BY DEF Visit
<1>2. here' = Redirected(u) /\ RetainedOK'
    BY <1>1, ShowKeeps DEF RetainedOK
<1>3. HereOK'
    BY <1>1, <1>2, RedirectedExists, CountsStand DEF HereOK
<1>4. BeforeOK'
    BY <1>1, CountsStand DEF HereOK, BeforeOK
<1>5. NeverFewerThanOffered'
    BY <1>1, <1>2, RedirectedExists, CountsStand DEF NeverFewerThanOffered
<1>6. clickCount' \in 0 .. MaxNavigations
    BY <1>1, SearchFiltersAssumption
<1> QED BY <1>1, <1>2, <1>3, <1>4, <1>5, <1>6 DEF CatalogueOK

LEMMA PlainVisitKeeps ==
    ASSUME FiltersInv, NEW u \in Urls, Visit(u, 0)
    PROVE  FiltersInv'
<1>1. 0 <= Total(u)
    BY MatchesAreFinite
<1> QED BY <1>1, VisitKeeps

LEMMA GoBackKeeps ==
    ASSUME FiltersInv, GoBack
    PROVE  FiltersInv'
<1> USE DEF FiltersInv
<1>1. /\ Show(before, retained) /\ before # NoUrl /\ before' = NoUrl /\ promised' = 0
      /\ UNCHANGED <<catalogue, clickCount>>
    BY DEF GoBack
<1>2. here' = before /\ RetainedOK'
    BY <1>1, ShowKeeps DEF RetainedOK
<1>3. HereOK'
    BY <1>1, <1>2, CountsStand DEF HereOK, BeforeOK
<1>4. NeverFewerThanOffered'
    BY <1>1, MatchesAreFinite, CountsStand DEF NeverFewerThanOffered
<1>5. BeforeOK'
    BY <1>1 DEF BeforeOK, NoUrl, NewSearch
<1> QED BY <1>1, <1>2, <1>3, <1>4, <1>5 DEF CatalogueOK

LEMMA ReloadKeeps ==
    ASSUME FiltersInv, Reload
    PROVE  FiltersInv'
<1> USE DEF FiltersInv
<1>1. /\ Show(here, NothingRetained(here)) /\ before' = NoUrl /\ promised' = 0
      /\ clickCount < MaxNavigations /\ clickCount' = clickCount + 1 /\ UNCHANGED catalogue
    BY DEF Reload
<1>2. NothingRetained(here).block \subseteq Attributes
    BY DEF NothingRetained
<1>3. here' = here /\ RetainedOK'
    BY <1>1, <1>2, ShowKeeps
<1>4. HereOK'
    BY <1>1, <1>3, CountsStand DEF HereOK
<1>5. NeverFewerThanOffered'
    BY <1>1, MatchesAreFinite, CountsStand DEF NeverFewerThanOffered
<1>6. BeforeOK'
    BY <1>1 DEF BeforeOK, NoUrl, NewSearch
<1>7. clickCount' \in 0 .. MaxNavigations
    BY <1>1, SearchFiltersAssumption
<1> QED BY <1>1, <1>3, <1>4, <1>5, <1>6, <1>7 DEF CatalogueOK

LEMMA EntriesAreUrls ==
    ASSUME NEW u \in Entries
    PROVE  u \in Urls
<1> USE NewSearchType, MutationsAreUrls
<1>1. <<"pads">> \in Paths /\ <<"discs">> \in Paths /\ <<"brakes">> \in Paths
      /\ <<"brakes", "pads">> \in Paths
    BY PathsClosed DEF Categories, AncestryOf
<1>2. /\ SelectCategoryPath(Browse, <<"pads">>) \in Urls
      /\ WithPage(SelectCategoryPath(Browse, <<"discs">>), 2) \in Urls
  <2>1. 2 \in Pages
      BY DEF Pages
  <2> QED BY <1>1, <2>1
<1>3. /\ DrillIntoCategory(Browse, "brakes") \in Urls
      /\ DrillIntoCategory(Browse, "brakes").path = <<"brakes">>
  <2>1. Browse.path = <<>> /\ Append(<<>>, "brakes") = <<"brakes">>
      BY DEF Browse, NewSearch
  <2>2. DrillIntoCategory(Browse, "brakes") \in Urls
      BY <2>1, <1>1
  <2>3. Browse \in Urls
      OBVIOUS
  <2>4. DrillIntoCategory(Browse, "brakes").path = Append(Browse.path, "brakes")
      BY <2>3 DEF DrillIntoCategory, Urls
  <2> QED BY <2>1, <2>2, <2>4
<1>4. DrillIntoCategory(DrillIntoCategory(Browse, "brakes"), "pads") \in Urls
  <2>1. <<"brakes">>[Len(<<"brakes">>)] = "brakes" /\ <<"brakes">> # <<>>
      OBVIOUS
  <2>2. "pads" \in ChildrenOf(IF <<"brakes">> = <<>> THEN "none"
                              ELSE <<"brakes">>[Len(<<"brakes">>)])
      BY <2>1 DEF ChildrenOf, ParentOf, Categories
  <2>3. Append(<<"brakes">>, "pads") \in Paths
      BY <2>2, <1>1, PathsClosed
  <2> QED BY <2>3, <1>3
<1> QED BY <1>2, <1>3, <1>4 DEF Entries

LEMMA FiltersInitHolds == SearchFiltersInit => FiltersInv
<1> SUFFICES ASSUME SearchFiltersInit PROVE FiltersInv
    OBVIOUS
<1>1. PICK u \in Entries :
        /\ here = Redirected(u)
        /\ retained = [key |-> FacetScopeKey(here),
                       block |-> IF IsEmptyPage(here) THEN {} ELSE DimensionBlock(here)]
    BY DEF SearchFiltersInit
<1>2. CatalogueOK /\ before = NoUrl /\ promised = 0 /\ clickCount = 0
    BY DEF SearchFiltersInit, CatalogueOK
<1>3. u \in Urls
    BY EntriesAreUrls
<1>4. HereOK /\ 0 <= Total(here)
    BY <1>1, <1>3, RedirectedExists, MatchesAreFinite DEF HereOK
<1>5. RetainedOK
    BY <1>1, <1>2, BlockType DEF RetainedOK
<1> QED BY <1>2, <1>4, <1>5, SearchFiltersAssumption
        DEF FiltersInv, BeforeOK, NeverFewerThanOffered

(* Every navigation is to a URL, and what was counted is matched there.     *)
LEMMA ClicksKeep ==
    ASSUME FiltersInv,
           \/ \E b \in Brands : ClickBrand(b)
           \/ \E c \in Categories : ClickCategory(c)
           \/ \E t \in Types : ClickProductType(t)
           \/ \E a \in retained.block : ClickAttribute(a)
    PROVE  FiltersInv'
<1> USE MutationsAreUrls
<1>1. here \in Urls /\ here.path \in Paths
    BY DEF FiltersInv, HereOK, Urls
<1>2. ASSUME NEW b \in Brands, ClickBrand(b)
      PROVE  FiltersInv'
  <2>1. ToggleBrand(here, b) \in Urls
      BY <1>1
  <2>2. CASE b \in here.brandIds
      BY <1>2, <2>1, <2>2, PlainVisitKeeps DEF ClickBrand
  <2>3. CASE b \notin here.brandIds
      BY <1>1, <1>2, <2>1, <2>3, BrandCountHolds, VisitKeeps DEF ClickBrand
  <2> QED BY <2>2, <2>3
<1>3. ASSUME NEW c \in Categories, ClickCategory(c)
      PROVE  FiltersInv'
  <2>1. c \in ChildrenOf(IF here.path = <<>> THEN "none" ELSE here.path[Len(here.path)])
      BY <1>3 DEF ClickCategory, CategoryOptions, SelectedCategory
  <2>2. Append(here.path, c) \in Paths
      BY <1>1, <2>1, PathsClosed
  <2>3. DrillIntoCategory(here, c) \in Urls
      BY <1>1, <2>2
  <2> QED BY <1>1, <1>3, <2>3, CategoryCountHolds, VisitKeeps DEF ClickCategory
<1>4. ASSUME NEW t \in Types, ClickProductType(t)
      PROVE  FiltersInv'
  <2>1. SelectProductType(here, t) \in Urls
      BY <1>1
  <2> QED BY <1>1, <1>4, <2>1, TypeCountHolds, VisitKeeps DEF ClickProductType
<1>5. ASSUME NEW a \in retained.block, ClickAttribute(a)
      PROVE  FiltersInv'
  <2>1. a \in Attributes
      BY DEF FiltersInv, RetainedOK
  <2>2. ToggleAttribute(here, a) \in Urls
      BY <1>1, <2>1
  <2>3. CASE a \in here.attributes \/ here.page > 1
      BY <1>5, <2>2, <2>3, PlainVisitKeeps DEF ClickAttribute
  <2>4. CASE ~(a \in here.attributes \/ here.page > 1)
      BY <1>1, <1>5, <2>1, <2>2, <2>4, ValueCountHolds, VisitKeeps DEF ClickAttribute
  <2> QED BY <2>3, <2>4
<1> QED BY <1>2, <1>3, <1>4, <1>5

LEMMA NavigationsKeep ==
    ASSUME FiltersInv,
           \/ ClickClearBrands \/ ClickUp \/ ClickCrumb \/ ClickClearAttributes
           \/ \E p \in 1 .. Cardinality(Listed) : ClickPage(p)
           \/ \E c \in Categories : ClickSuggestion(c)
    PROVE  FiltersInv'
<1> USE MutationsAreUrls
<1>1. here \in Urls /\ here.path \in Paths
    BY DEF FiltersInv, HereOK, Urls
<1>2. CASE ClickClearBrands
    BY <1>1, <1>2, PlainVisitKeeps DEF ClickClearBrands
<1>3. CASE ClickUp
  <2>1. ClearProductType(here) \in Urls
      BY <1>1 DEF ClearProductType
  <2>2. here.path # <<>> => CategoryUp(here) \in Urls
    <3> SUFFICES ASSUME here.path # <<>> PROVE CategoryUp(here) \in Urls
        OBVIOUS
    <3>1. here.path \in Seq(Categories) /\ Len(here.path) \in {0, 1, 2}
        BY <1>1, PathShape
    <3>2. Len(here.path) - 1 \in 0 .. Len(here.path)
        BY <3>1
    <3> QED BY <1>1, <3>2, PathsClosed DEF CategoryUp
  <2> QED BY <1>3, <2>1, <2>2, PlainVisitKeeps DEF ClickUp
<1>4. CASE ClickCrumb
  <2>1. SelectCategoryPath(here, <<>>) \in Urls
      BY <1>1, PathsClosed
  <2>2. ASSUME here.path # <<>>, NEW trail \in Paths, NEW n \in DOMAIN trail
        PROVE  SelectCategoryPath(here, SubSeq(trail, 1, n)) \in Urls
    <3>1. trail \in Seq(Categories)
        BY PathShape
    <3>2. n \in 0 .. Len(trail)
        BY <3>1
    <3> QED BY <1>1, <3>2, PathsClosed
  <2>3. here.path # <<>> => AncestryOf(SelectedCategory(here)) \in Paths
    <3> SUFFICES ASSUME here.path # <<>> PROVE AncestryOf(SelectedCategory(here)) \in Paths
        OBVIOUS
    <3>1. here.path \in Seq(Categories)
        BY <1>1, PathShape
    <3>2. here.path[Len(here.path)] \in Categories
        BY <3>1
    <3> QED BY <3>2, PathsClosed DEF SelectedCategory
  <2>4. CASE Visit(SelectCategoryPath(here, <<>>), 0)
      BY <2>1, <2>4, PlainVisitKeeps
  <2>5. CASE /\ here.path # <<>>
             /\ LET trail == IF CategoryCount(here, SelectedCategory(here)) > 0
                             THEN AncestryOf(SelectedCategory(here)) ELSE here.path
                IN  \E n \in DOMAIN trail :
                       Visit(SelectCategoryPath(here, SubSeq(trail, 1, n)), 0)
    <3> DEFINE trail == IF CategoryCount(here, SelectedCategory(here)) > 0
                        THEN AncestryOf(SelectedCategory(here)) ELSE here.path
    <3>1. trail \in Paths
        BY <1>1, <2>3, <2>5
    <3>2. PICK n \in DOMAIN trail : Visit(SelectCategoryPath(here, SubSeq(trail, 1, n)), 0)
        BY <2>5
    <3> HIDE DEF trail
    <3>3. SelectCategoryPath(here, SubSeq(trail, 1, n)) \in Urls
        BY <2>2, <2>5, <3>1
    <3> QED BY <3>2, <3>3, PlainVisitKeeps
  <2> QED BY <1>4, <2>4, <2>5 DEF ClickCrumb
<1>5. CASE ClickClearAttributes
    BY <1>1, <1>5, PlainVisitKeeps DEF ClickClearAttributes
<1>6. ASSUME NEW p \in 1 .. Cardinality(Listed), ClickPage(p)
      PROVE  FiltersInv'
  <2>1. p \in Pages
      BY SearchFiltersAssumption, FS_CardinalityType DEF Pages
  <2> QED BY <1>1, <1>6, <2>1, PlainVisitKeeps DEF ClickPage
<1>7. ASSUME NEW c \in Categories, ClickSuggestion(c)
      PROVE  FiltersInv'
  <2>1. Append(NewSearch.path, c) \in Paths
    <3>1. NewSearch.path = <<>> /\ <<>> \in Seq(Categories)
        BY DEF NewSearch
    <3>2. Append(<<>>, c) = <<c>>
        OBVIOUS
    <3> QED BY <3>1, <3>2, PathsClosed
  <2> QED BY <1>7, <2>1, NewSearchType, PlainVisitKeeps DEF ClickSuggestion
<1> QED BY <1>2, <1>3, <1>4, <1>5, <1>6, <1>7

LEMMA FiltersStepHolds ==
    ASSUME FiltersInv, [SearchFiltersNext]_FilterVars
    PROVE  FiltersInv'
<1>1. CASE UNCHANGED FilterVars
  <2>1. UNCHANGED <<catalogue, here, before, retained, promised, clickCount>>
      BY <1>1 DEF FilterVars
  <2>2. HereOK' /\ BeforeOK' /\ NeverFewerThanOffered'
      BY <2>1, CountsStand DEF FiltersInv, HereOK, BeforeOK, NeverFewerThanOffered
  <2> QED BY <2>1, <2>2 DEF FiltersInv, CatalogueOK, RetainedOK
<1> QED BY <1>1, ClicksKeep, NavigationsKeep, GoBackKeeps, ReloadKeeps
        DEF SearchFiltersNext

THEOREM SearchFiltersInvariant == SearchFiltersSpec => []FiltersInv
BY FiltersInitHolds, FiltersStepHolds, PTL DEF SearchFiltersSpec

(* search-url: whatever is clicked, the URL on screen is one the server     *)
(* accepts, and names a page of its list, or the first page of nothing.     *)
THEOREM SearchFiltersTypeCorrect == SearchFiltersSpec => []FiltersTypeOK
<1>1. FiltersInv => FiltersTypeOK
  <2> SUFFICES ASSUME FiltersInv PROVE FiltersTypeOK
      OBVIOUS
  <2>1. here \in Urls /\ here.path \in Paths /\ here.page \in Nat \ {0}
      BY DEF FiltersInv, HereOK, Urls, Pages
  <2>2. here.path \in Seq(Categories) /\ Len(here.path) <= 2
      BY <2>1 DEF Paths
  <2>3. MaxPage(here) \in Nat
      BY MatchesAreFinite DEF MaxPage
  <2>4. here.page \in 1 .. (IF MaxPage(here) = 0 THEN here.page ELSE MaxPage(here))
      BY <2>1, <2>3 DEF FiltersInv, HereOK, PageExists
  <2> QED BY <2>1, <2>2, <2>4 DEF FiltersInv, RetainedOK, FiltersTypeOK, Urls
<1> QED BY <1>1, SearchFiltersInvariant, PTL

(* search.tecdoc.ts and search-facet-mappers.ts: a click on a value offered *)
(* with a count leads to a list of at least so many articles, whatever else *)
(* is applied and in whatever catalogue.                                    *)
THEOREM NoFewerThanOffered == SearchFiltersSpec => []NeverFewerThanOffered
<1>1. FiltersInv => NeverFewerThanOffered
    BY DEF FiltersInv
<1> QED BY <1>1, SearchFiltersInvariant, PTL

-----------------------------------------------------------------------------
(* The block of dimensions.                                                 *)

(* What a dimension's values are taken from: all that is matched but for    *)
(* that dimension's own filter.                                             *)
Found(u, c) == Matches([u EXCEPT !.attributes = {a \in @ : a.criterion # c}])

SomeFound(u) == \E c \in Criteria : Found(u, c) # {}

(* A URL that says its category is a leaf is right.                         *)
LeafOK(u) == u.hasChildren = "false" => u.path # <<>> /\ ChildrenOf(SelectedCategory(u)) = {}

(* Dimensions are applied to a search that has them, and brands apart they  *)
(* match something.                                                         *)
AppliedOK(u) ==
    u.attributes # {} => HasDimensions(u) /\ HasSearchSubject(u) /\ SomeFound(ClearBrands(u))

(* The block answered a search of its key.                                  *)
BlockOK ==
    retained.block # {} =>
        /\ blockOf \in Urls /\ FacetScopeKey(blockOf) = retained.key
        /\ HasDimensions(blockOf) /\ SomeFound(blockOf)

(* A URL the block is kept for is of the same search, and answers a block.  *)
ScopeOK(u) ==
    retained.block # {} /\ retained.key = FacetScopeKey(u) /\ HasDimensions(u) =>
        blockOf.hasChildren = u.hasChildren /\ SomeFound(u)

ShownOK ==
    /\ retained.key = FacetScopeKey(here)
    /\ ~IsEmptyPage(here) /\ DimensionBlock(here) # {} => retained.block = DimensionBlock(here)

(* Past the first page of a search with dimensions something is matched.    *)
PageOK(u) == u.page # 1 /\ HasDimensions(u) => Total(u) > 0

BlockInv ==
    /\ PageOK(here) /\ PageOK(before) /\ LeafOK(here) /\ LeafOK(before) /\ AppliedOK(here) /\ AppliedOK(before)
    /\ BlockOK /\ ScopeOK(here) /\ ScopeOK(before) /\ ShownOK

(* What is found depends on the filters alone, and on fewer of them less is *)
(* left out.                                                                *)
LEMMA FoundIs ==
    ASSUME NEW u \in Urls, NEW c, NEW x
    PROVE  x \in Found(u, c) <=>
             /\ x \in Listed
             /\ u.brandIds # {} => catalogue[x].brand \in u.brandIds
             /\ u.productType # "none" => catalogue[x].type = u.productType
             /\ u.path # <<>> => Under(catalogue[x].leaf, u.path[Len(u.path)])
             /\ \A d \in Criteria : d # c /\ FiltersOn(u, d) # {} =>
                                      catalogue[x][d] \in FiltersOn(u, d)
<1> DEFINE w == [u EXCEPT !.attributes = {a \in @ : a.criterion # c}]
<1>1. /\ w.brandIds = u.brandIds /\ w.productType = u.productType /\ w.path = u.path
      /\ w.attributes = {a \in u.attributes : a.criterion # c}
    BY DEF Urls
<1> HIDE DEF w
<1>2. FiltersOn(w, c) = {}
    BY <1>1 DEF FiltersOn
<1>3. \A d : d # c => FiltersOn(w, d) = FiltersOn(u, d)
  <2> SUFFICES ASSUME NEW d, d # c
               PROVE  {y \in w.attributes : y.criterion = d}
                        = {y \in u.attributes : y.criterion = d}
      BY DEF FiltersOn
  <2> QED BY <1>1
<1>4. Found(u, c) = Matches(w)
    BY DEF Found, w
<1> QED BY <1>1, <1>2, <1>3, <1>4 DEF Matches, SelectedCategory

LEMMA FoundGrows ==
    ASSUME NEW u \in Urls, NEW v \in Urls, NEW c, NEW e,
           v.productType = u.productType, v.path = u.path,
           v.brandIds = u.brandIds \/ v.brandIds = {},
           \A d \in Criteria :
              d # e => FiltersOn(v, d) = {} \/ (d # c /\ FiltersOn(v, d) = FiltersOn(u, d))
    PROVE  Found(u, c) \subseteq Found(v, e)
<1> SUFFICES ASSUME NEW x \in Found(u, c) PROVE x \in Found(v, e)
    OBVIOUS
<1>1. /\ x \in Listed
      /\ u.brandIds # {} => catalogue[x].brand \in u.brandIds
      /\ u.productType # "none" => catalogue[x].type = u.productType
      /\ u.path # <<>> => Under(catalogue[x].leaf, u.path[Len(u.path)])
      /\ \A d \in Criteria : d # c /\ FiltersOn(u, d) # {} => catalogue[x][d] \in FiltersOn(u, d)
    BY FoundIs
<1>2. \A d \in Criteria : d # e /\ FiltersOn(v, d) # {} => catalogue[x][d] \in FiltersOn(v, d)
    BY <1>1
<1> QED BY <1>1, <1>2, FoundIs

LEMMA FoundAlike ==
    ASSUME NEW u \in Urls, NEW v \in Urls, v.productType = u.productType, v.path = u.path,
           v.brandIds = u.brandIds \/ v.brandIds = {}, v.attributes = u.attributes, SomeFound(u)
    PROVE  SomeFound(v)
<1>1. PICK c \in Criteria : Found(u, c) # {}
    BY DEF SomeFound
<1>2. \A d : FiltersOn(v, d) = FiltersOn(u, d)
    BY DEF FiltersOn
<1>3. Found(u, c) \subseteq Found(v, c)
    BY <1>2, FoundGrows
<1> QED BY <1>1, <1>3 DEF SomeFound

LEMMA FoundUnfiltered ==
    ASSUME NEW u \in Urls, NEW v \in Urls, v.productType = u.productType, v.path = u.path,
           v.brandIds = u.brandIds, v.attributes = {}, SomeFound(u)
    PROVE  SomeFound(v)
<1>1. PICK c \in Criteria : Found(u, c) # {}
    BY DEF SomeFound
<1>2. \A d : FiltersOn(v, d) = {}
    BY DEF FiltersOn
<1>3. Found(u, c) \subseteq Found(v, c)
    BY <1>2, FoundGrows
<1> QED BY <1>1, <1>3 DEF SomeFound

LEMMA MatchedIsFound ==
    ASSUME NEW u \in Urls, Total(u) > 0
    PROVE  \A c : Found(u, c) # {}
<1>1. Matches(u) # {}
    BY FS_EmptySet DEF Total
<1>2. PICK x : x \in Matches(u)
    BY <1>1
<1>3. \A c : x \in Found(u, c)
    BY <1>2, FoundIs DEF Matches, SelectedCategory
<1> QED BY <1>3

-----------------------------------------------------------------------------
(* A block is answered where something is found.                            *)

(* A dimension has two measures, so of its values there are two at most.    *)
LEMMA TwoValues ==
    ASSUME CatalogueOK, NEW found, found \subseteq Listed, NEW c \in Criteria,
           NEW v \in MergedValues(found, c), NEW w \in MergedValues(found, c),
           NEW z \in MergedValues(found, c)
    PROVE  v = w \/ w = z \/ v = z
<1> DEFINE of(a) == {catalogue[b][c] : b \in {x \in found : MeasureOf(catalogue[x][c])
                                                            = MeasureOf(catalogue[a][c])}}
<1>1. PICK a1 \in found, a2 \in found, a3 \in found : v = of(a1) /\ w = of(a2) /\ z = of(a3)
    BY DEF MergedValues
<1>2. \A a \in found : catalogue[a][c] \in SpellingsOf(c)
    BY DEF CatalogueOK, ArticleKinds, Criteria
<1>3. \A a \in found : MeasureOf(catalogue[a][c])
                         \in IF c = "width" THEN {"193", "200"} ELSE {"S", "V"}
    BY <1>2 DEF MeasureOf, SpellingsOf
<1>4. \A a, b \in found : MeasureOf(catalogue[a][c]) = MeasureOf(catalogue[b][c]) => of(a) = of(b)
    OBVIOUS
<1> HIDE DEF of
<1> QED BY <1>1, <1>3, <1>4

LEMMA MostMatched ==
    ASSUME CatalogueOK, NEW found, found \subseteq Listed, found # {}, NEW c \in Criteria
    PROVE  \E v \in MergedValues(found, c) :
              \A w \in MergedValues(found, c) : ~(CountOf(found, c, w) > CountOf(found, c, v))
<1> DEFINE values == MergedValues(found, c)
<1>1. PICK v : v \in values
    BY DEF MergedValues
<1>2. \A w : CountOf(found, c, w) \in Nat
  <2> SUFFICES ASSUME NEW w PROVE CountOf(found, c, w) \in Nat
      OBVIOUS
  <2>1. IsFiniteSet({a \in found : catalogue[a][c] \in w})
      BY SearchFiltersAssumption, FS_Subset
  <2> QED BY <2>1, FS_CardinalityType DEF CountOf
<1>3. \A x, y, z \in values : x = y \/ y = z \/ x = z
    BY TwoValues
<1> HIDE DEF values
<1>4. CASE \A w \in values : ~(CountOf(found, c, w) > CountOf(found, c, v))
    BY <1>1, <1>4 DEF values
<1>5. CASE \E w \in values : CountOf(found, c, w) > CountOf(found, c, v)
  <2>1. PICK w \in values : CountOf(found, c, w) > CountOf(found, c, v)
      BY <1>5
  <2>2. ASSUME NEW z \in values, CountOf(found, c, z) > CountOf(found, c, w)
        PROVE  FALSE
    <3>1. z = v \/ z = w \/ v = w
        BY <1>1, <1>3
    <3> QED BY <1>2, <2>1, <2>2, <3>1
  <2> QED BY <2>2 DEF values
<1> QED BY <1>4, <1>5

LEMMA ValuesAreFound ==
    ASSUME CatalogueOK, NEW u \in Urls, NEW c \in Criteria
    PROVE  (CriterionValues(u, c) # {}) <=> (Found(u, c) # {})
<1>1. CriterionValues(u, c)
        = CapValues(Found(u, c), c, MergedValues(Found(u, c), c), FiltersOn(u, c))
    BY DEF CriterionValues, Found
<1>2. Found(u, c) \subseteq Listed
    BY MatchesAreFinite DEF Found
<1>3. ASSUME Found(u, c) # {} PROVE CriterionValues(u, c) # {}
  <2>1. PICK v \in MergedValues(Found(u, c), c) :
          \A w \in MergedValues(Found(u, c), c) :
             ~(CountOf(Found(u, c), c, w) > CountOf(Found(u, c), c, v))
      BY <1>2, <1>3, MostMatched
  <2>2. {w \in MergedValues(Found(u, c), c) :
           CountOf(Found(u, c), c, w) > CountOf(Found(u, c), c, v)} = {}
      BY <2>1
  <2>3. Cardinality({}) < ValueLimit
      BY FS_EmptySet, SearchFiltersAssumption
  <2>4. v \in CriterionValues(u, c)
      BY <1>1, <2>2, <2>3 DEF CapValues
  <2> QED BY <2>4
<1>4. ASSUME Found(u, c) = {} PROVE CriterionValues(u, c) = {}
    BY <1>1, <1>4 DEF CapValues, MergedValues
<1> QED BY <1>3, <1>4

LEMMA BlockIsOf ==
    ASSUME CatalogueOK, NEW u \in Urls, NEW a \in DimensionBlock(u)
    PROVE  /\ HasDimensions(u) /\ u.page = 1 /\ a.criterion \in Criteria
           /\ Found(u, a.criterion) # {}
<1>1. /\ HasDimensions(u) /\ u.page = 1
      /\ \E c \in Criteria : \E t \in CriterionValues(u, c) : a = [criterion |-> c, token |-> t]
    BY DEF DimensionBlock
<1> QED BY <1>1, ValuesAreFound

LEMMA BlockExists ==
    ASSUME CatalogueOK, NEW u \in Urls, LeafOK(u), u.page = 1, HasDimensions(u)
    PROVE  /\ SomeFound(u) <=> DimensionBlock(u) # {}
           /\ \A c \in Criteria : \A t \in CriterionValues(u, c) :
                 [criterion |-> c, token |-> t] \in DimensionBlock(u)
<1>1. u.productType # "none" \/ IsAtLeafCategory(u)
  <2> SUFFICES ASSUME u.productType = "none" PROVE IsAtLeafCategory(u)
      OBVIOUS
  <2>1. u.path # <<>> /\ ChildrenOf(SelectedCategory(u)) = {}
      BY DEF HasDimensions, LeafOK
  <2>2. CategoryOptions(u) = {}
      BY <2>1 DEF CategoryOptions
  <2> QED BY <2>1, <2>2 DEF IsAtLeafCategory
<1>2. DimensionBlock(u)
        = UNION {{[criterion |-> c, token |-> t] : t \in CriterionValues(u, c)} : c \in Criteria}
    BY <1>1 DEF DimensionBlock
<1>3. \A c \in Criteria : \A t \in CriterionValues(u, c) :
        [criterion |-> c, token |-> t] \in DimensionBlock(u)
    BY <1>2
<1>4. ASSUME SomeFound(u) PROVE DimensionBlock(u) # {}
    BY <1>3, <1>4, ValuesAreFound DEF SomeFound
<1>5. ASSUME DimensionBlock(u) # {} PROVE SomeFound(u)
    BY <1>5, BlockIsOf DEF SomeFound
<1> QED BY <1>3, <1>4, <1>5

LEMMA FreshBlock ==
    ASSUME CatalogueOK, NEW u \in Urls, DimensionBlock(u) # {}
    PROVE  HasDimensions(u) /\ u.page = 1 /\ SomeFound(u)
<1>1. PICK a \in DimensionBlock(u) : TRUE
    OBVIOUS
<1> QED BY <1>1, BlockIsOf DEF SomeFound

-----------------------------------------------------------------------------
(* The block follows each navigation.                                       *)

LEMMA KeyIs ==
    ASSUME NEW u, NEW v
    PROVE  FacetScopeKey(u) = FacetScopeKey(v)
             <=> /\ u.query = v.query /\ u.path = v.path
                 /\ u.brandIds = v.brandIds /\ u.productType = v.productType
<1> DEFINE KeyOf(w) == [query |-> w.query, path |-> w.path, brandIds |-> w.brandIds,
                        productType |-> w.productType]
<1>1. \A w : FacetScopeKey(w) = KeyOf(w)
    BY DEF FacetScopeKey
<1>2. \A w : /\ KeyOf(w).query = w.query /\ KeyOf(w).path = w.path
             /\ KeyOf(w).brandIds = w.brandIds /\ KeyOf(w).productType = w.productType
    OBVIOUS
<1>3. ASSUME u.query = v.query, u.path = v.path, u.brandIds = v.brandIds,
             u.productType = v.productType
      PROVE  KeyOf(u) = KeyOf(v)
    BY <1>3
<1> HIDE DEF KeyOf
<1> QED BY <1>1, <1>2, <1>3

LEMMA NothingToClear ==
    LeafOK(NoUrl) /\ AppliedOK(NoUrl) /\ PageOK(NoUrl) /\ ~HasDimensions(NoUrl)
BY DEF PageOK, LeafOK, AppliedOK, HasDimensions, NoUrl, NewSearch

LEMMA ClearedIs ==
    ASSUME NEW u \in Urls
    PROVE  /\ ClearBrands(u) \in Urls /\ ClearBrands(u).brandIds = {}
           /\ ClearBrands(u).productType = u.productType /\ ClearBrands(u).path = u.path
           /\ ClearBrands(u).attributes = u.attributes
BY FirstPage DEF ClearBrands, Urls

(* A redirect changes the page alone.                                       *)
LEMMA RedirectedIs ==
    ASSUME NEW u \in Urls
    PROVE  /\ Redirected(u).query = u.query /\ Redirected(u).brandIds = u.brandIds
           /\ Redirected(u).productType = u.productType /\ Redirected(u).path = u.path
           /\ Redirected(u).hasChildren = u.hasChildren
           /\ Redirected(u).attributes = u.attributes
BY DEF Redirected, WithPage, Urls

LEMMA RedirectedAlike ==
    ASSUME NEW u \in Urls
    PROVE  /\ FacetScopeKey(Redirected(u)) = FacetScopeKey(u)
           /\ HasDimensions(Redirected(u)) <=> HasDimensions(u)
           /\ HasSearchSubject(Redirected(u)) <=> HasSearchSubject(u)
           /\ SomeFound(Redirected(u)) <=> SomeFound(u)
           /\ SomeFound(ClearBrands(Redirected(u))) <=> SomeFound(ClearBrands(u))
           /\ LeafOK(u) => LeafOK(Redirected(u))
           /\ u.page = 1 \/ Total(u) > 0 => PageOK(Redirected(u))
<1> DEFINE r == Redirected(u)
<1>1. r \in Urls
    BY RedirectedExists
<1>2. /\ r.query = u.query /\ r.brandIds = u.brandIds /\ r.productType = u.productType
      /\ r.path = u.path /\ r.hasChildren = u.hasChildren /\ r.attributes = u.attributes
    BY RedirectedIs
<1> HIDE DEF r
<1>3. FacetScopeKey(r) = FacetScopeKey(u)
    BY <1>2 DEF FacetScopeKey
<1>4. /\ HasDimensions(r) <=> HasDimensions(u)
      /\ HasSearchSubject(r) <=> HasSearchSubject(u)
      /\ LeafOK(u) => LeafOK(r)
    BY <1>2 DEF HasDimensions, HasSearchSubject, LeafOK, SelectedCategory
<1>5. SomeFound(r) <=> SomeFound(u)
    BY <1>1, <1>2, FoundAlike
<1>6. /\ ClearBrands(r) \in Urls /\ ClearBrands(u) \in Urls
      /\ ClearBrands(r).brandIds = ClearBrands(u).brandIds
      /\ ClearBrands(r).productType = ClearBrands(u).productType
      /\ ClearBrands(r).path = ClearBrands(u).path
      /\ ClearBrands(r).attributes = ClearBrands(u).attributes
    BY <1>1, <1>2, ClearedIs
<1>7. SomeFound(ClearBrands(r)) <=> SomeFound(ClearBrands(u))
    BY <1>6, FoundAlike
<1>8. ASSUME u.page = 1 \/ Total(u) > 0 PROVE PageOK(r)
  <2>1. Total(r) = Total(u)
      BY RedirectedExists DEF r
  <2>2. u.page = 1 => r.page = 1
    <3>1. Total(u) \in Nat
        BY MatchesAreFinite
    <3> QED BY <3>1 DEF r, Redirected, MaxPage
  <2> QED BY <1>8, <2>1, <2>2 DEF PageOK
<1> QED BY <1>3, <1>4, <1>5, <1>7, <1>8 DEF r

(* The catalogue stands, so what is found and answered of a URL does too.   *)
LEMMA FoundStands ==
    ASSUME UNCHANGED catalogue
    PROVE  /\ SomeFound(here)' <=> SomeFound(here')
           /\ SomeFound(before)' <=> SomeFound(before')
           /\ SomeFound(blockOf)' <=> SomeFound(blockOf')
           /\ SomeFound(ClearBrands(here))' <=> SomeFound(ClearBrands(here'))
           /\ SomeFound(ClearBrands(before))' <=> SomeFound(ClearBrands(before'))
BY DEF SomeFound, Found, ClearBrands, Matches, FiltersOn, SelectedCategory

LEMMA AnswerStands ==
    ASSUME UNCHANGED catalogue
    PROVE  /\ DimensionBlock(here)' = DimensionBlock(here')
           /\ IsEmptyPage(here)' <=> IsEmptyPage(here')
<1>1. IsEmptyPage(here)' <=> IsEmptyPage(here')
    BY DEF IsEmptyPage, HasSearchSubject, HasActiveFilters, Total, Matches, FiltersOn,
           SelectedCategory
<1>2. DimensionBlock(here)' = DimensionBlock(here')
    BY DEF DimensionBlock, HasDimensions, IsAtLeafCategory, CategoryCount, CategoryOptions,
           CriterionValues, CapValues, MergedValues, CountOf, Matches, FiltersOn,
           SelectedCategory
<1> QED BY <1>1, <1>2

(* What a page shown holds: its own block, the one held, or none.           *)
LEMMA ShowHolds ==
    ASSUME NEW u, NEW held, Show(u, held), UNCHANGED catalogue
    PROVE  /\ here' = u /\ ShownOK'
           /\ \/ /\ DimensionBlock(u) # {} /\ blockOf' = u
                 /\ retained' = [key |-> FacetScopeKey(u), block |-> DimensionBlock(u)]
              \/ retained' = held /\ held.key = FacetScopeKey(u) /\ blockOf' = blockOf
              \/ retained'.block = {}
<1>1. /\ here' = u
      /\ retained' = IF IsEmptyPage(u) THEN NothingRetained(u)
                     ELSE NextRetained(held, DimensionBlock(u), u)
      /\ blockOf' = IF ~IsEmptyPage(u) /\ DimensionBlock(u) # {} THEN u ELSE blockOf
    BY DEF Show
<1>2. NothingRetained(u).key = FacetScopeKey(u) /\ NothingRetained(u).block = {}
    BY DEF NothingRetained
<1>3. FacetScopeKey(here)' = FacetScopeKey(here')
    BY DEF FacetScopeKey
<1>4. CASE IsEmptyPage(u)
    BY <1>1, <1>2, <1>3, <1>4, AnswerStands DEF ShownOK
<1>5. CASE ~IsEmptyPage(u) /\ DimensionBlock(u) # {}
    BY <1>1, <1>3, <1>5, AnswerStands DEF ShownOK, NextRetained
<1>6. CASE ~IsEmptyPage(u) /\ DimensionBlock(u) = {} /\ held.key = FacetScopeKey(u)
    BY <1>1, <1>3, <1>6, AnswerStands DEF ShownOK, NextRetained
<1>7. CASE ~IsEmptyPage(u) /\ DimensionBlock(u) = {} /\ held.key # FacetScopeKey(u)
    BY <1>1, <1>2, <1>3, <1>7, AnswerStands DEF ShownOK, NextRetained
<1> QED BY <1>4, <1>5, <1>6, <1>7

(* The parts of the invariant that speak of what is shown, after a step.    *)
LEMMA PartsStand ==
    ASSUME UNCHANGED catalogue
    PROVE  /\ PageOK(here)' <=> PageOK(here')
           /\ PageOK(before)' <=> PageOK(before')
           /\ LeafOK(here)' <=> LeafOK(here')
           /\ LeafOK(before)' <=> LeafOK(before')
           /\ AppliedOK(here)' <=> AppliedOK(here')
           /\ AppliedOK(before)' <=> AppliedOK(before')
           /\ BlockOK' <=>
                (retained'.block # {} =>
                   /\ blockOf' \in Urls /\ FacetScopeKey(blockOf') = retained'.key
                   /\ HasDimensions(blockOf') /\ SomeFound(blockOf'))
           /\ ScopeOK(here)' <=>
                (retained'.block # {} /\ retained'.key = FacetScopeKey(here')
                     /\ HasDimensions(here') =>
                   blockOf'.hasChildren = here'.hasChildren /\ SomeFound(here'))
           /\ ScopeOK(before)' <=>
                (retained'.block # {} /\ retained'.key = FacetScopeKey(before')
                     /\ HasDimensions(before') =>
                   blockOf'.hasChildren = before'.hasChildren /\ SomeFound(before'))
<1>1. LeafOK(here)' <=> LeafOK(here')
    BY DEF LeafOK, SelectedCategory
<1>2. LeafOK(before)' <=> LeafOK(before')
    BY DEF LeafOK, SelectedCategory
<1>3. /\ HasDimensions(here)' <=> HasDimensions(here')
      /\ HasDimensions(before)' <=> HasDimensions(before')
      /\ HasDimensions(blockOf)' <=> HasDimensions(blockOf')
      /\ HasSearchSubject(here)' <=> HasSearchSubject(here')
      /\ HasSearchSubject(before)' <=> HasSearchSubject(before')
    BY DEF HasDimensions, HasSearchSubject
<1>4. /\ FacetScopeKey(here)' = FacetScopeKey(here')
      /\ FacetScopeKey(before)' = FacetScopeKey(before')
      /\ FacetScopeKey(blockOf)' = FacetScopeKey(blockOf')
    BY DEF FacetScopeKey
<1>5. /\ AppliedOK(here)' <=> AppliedOK(here')
      /\ AppliedOK(before)' <=> AppliedOK(before')
    BY <1>3, FoundStands DEF AppliedOK
<1>6. /\ PageOK(here)' <=> PageOK(here')
      /\ PageOK(before)' <=> PageOK(before')
    BY <1>3, CountsStand DEF PageOK
<1> QED BY <1>1, <1>2, <1>3, <1>4, <1>5, <1>6, FoundStands DEF BlockOK, ScopeOK

(* A URL clicked: where it is of the search on screen, the two are of one   *)
(* leaf, and something is found for both.                                   *)
Follows(v) ==
    FacetScopeKey(v) = FacetScopeKey(here) /\ HasDimensions(v) =>
        /\ HasDimensions(here) /\ SomeFound(v) =>
             v.hasChildren = here.hasChildren /\ SomeFound(here)
        /\ retained.block # {} => blockOf.hasChildren = v.hasChildren /\ SomeFound(v)

LEMMA VisitFollows ==
    ASSUME FiltersInv, BlockInv, NEW v \in Urls, NEW count, Visit(v, count),
           v.page = 1 \/ Total(v) > 0, LeafOK(v), AppliedOK(v), Follows(v)
    PROVE  BlockInv'
<1> DEFINE r == Redirected(v)
<1>1. /\ Show(r, retained) /\ before' = here /\ UNCHANGED catalogue
    BY DEF Visit
<1>2. r \in Urls /\ here \in Urls /\ CatalogueOK
    BY RedirectedExists DEF FiltersInv, HereOK
<1>3. r.attributes = v.attributes /\ r.hasChildren = v.hasChildren
    BY RedirectedIs
<1>4. PageOK(r) /\ LeafOK(r) /\ AppliedOK(r) /\ Follows(r)
    BY <1>3, RedirectedAlike DEF AppliedOK, Follows
<1> HIDE DEF r
<1> USE DEF BlockInv
<1>5. here' = r /\ ShownOK'
    BY <1>1, ShowHolds
<1>6. /\ PageOK(here)' /\ PageOK(before)' /\ LeafOK(here)' /\ LeafOK(before)'
      /\ AppliedOK(here)' /\ AppliedOK(before)'
    BY <1>1, <1>4, <1>5, PartsStand
<1>7. BlockOK' /\ ScopeOK(here)' /\ ScopeOK(before)'
  <2>1. CASE /\ DimensionBlock(r) # {} /\ blockOf' = r
             /\ retained' = [key |-> FacetScopeKey(r), block |-> DimensionBlock(r)]
    <3>1. HasDimensions(r) /\ SomeFound(r)
        BY <1>2, <2>1, FreshBlock
    <3>2. retained'.key = FacetScopeKey(r)
        BY <2>1
    <3>3. FacetScopeKey(r) = FacetScopeKey(here) /\ HasDimensions(here) =>
            r.hasChildren = here.hasChildren /\ SomeFound(here)
        BY <1>4, <3>1 DEF Follows
    <3> QED BY <1>1, <1>2, <1>5, <2>1, <3>1, <3>2, <3>3, PartsStand
  <2>2. CASE retained' = retained /\ retained.key = FacetScopeKey(r) /\ blockOf' = blockOf
    <3>1. FacetScopeKey(r) = FacetScopeKey(here)
        BY <2>2 DEF ShownOK
    <3>2. retained.block # {} /\ HasDimensions(r) =>
            blockOf.hasChildren = r.hasChildren /\ SomeFound(r)
        BY <1>4, <3>1 DEF Follows
    <3>3. BlockOK'
        BY <1>1, <2>2, PartsStand DEF BlockOK
    <3>4. ScopeOK(here)'
        BY <1>1, <1>5, <2>2, <3>2, PartsStand
    <3>5. ScopeOK(before)'
        BY <1>1, <2>2, PartsStand DEF ScopeOK
    <3> QED BY <3>3, <3>4, <3>5
  <2>3. CASE retained'.block = {}
      BY <1>1, <2>3, PartsStand
  <2> QED BY <1>1, <2>1, <2>2, <2>3, ShowHolds
<1> QED BY <1>5, <1>6, <1>7

LEMMA GoBackFollows ==
    ASSUME FiltersInv, BlockInv, GoBack
    PROVE  BlockInv'
<1>1. Show(before, retained) /\ before # NoUrl /\ before' = NoUrl /\ UNCHANGED catalogue
    BY DEF GoBack
<1>2. before \in Urls /\ CatalogueOK
    BY <1>1 DEF FiltersInv, BeforeOK
<1> USE DEF BlockInv
<1>3. here' = before /\ ShownOK'
    BY <1>1, ShowHolds
<1>4. /\ PageOK(here)' /\ PageOK(before)' /\ LeafOK(here)' /\ LeafOK(before)'
      /\ AppliedOK(here)' /\ AppliedOK(before)'
    BY <1>1, <1>3, NothingToClear, PartsStand
<1>5. ScopeOK(before)'
    BY <1>1, NothingToClear, PartsStand
<1>6. BlockOK' /\ ScopeOK(here)'
  <2>1. CASE /\ DimensionBlock(before) # {} /\ blockOf' = before
             /\ retained' = [key |-> FacetScopeKey(before), block |-> DimensionBlock(before)]
    <3>1. HasDimensions(before) /\ SomeFound(before)
        BY <1>2, <2>1, FreshBlock
    <3> QED BY <1>1, <1>2, <1>3, <2>1, <3>1, PartsStand
  <2>2. CASE retained' = retained /\ retained.key = FacetScopeKey(before) /\ blockOf' = blockOf
      BY <1>1, <1>3, <2>2, PartsStand DEF BlockOK, ScopeOK
  <2>3. CASE retained'.block = {}
      BY <1>1, <2>3, PartsStand
  <2> QED BY <1>1, <2>1, <2>2, <2>3, ShowHolds
<1> QED BY <1>3, <1>4, <1>5, <1>6

LEMMA ReloadFollows ==
    ASSUME FiltersInv, BlockInv, Reload
    PROVE  BlockInv'
<1>1. Show(here, NothingRetained(here)) /\ before' = NoUrl /\ UNCHANGED catalogue
    BY DEF Reload
<1>2. here \in Urls /\ CatalogueOK
    BY DEF FiltersInv, HereOK
<1> USE DEF BlockInv
<1>3. here' = here /\ ShownOK'
    BY <1>1, ShowHolds
<1>4. /\ PageOK(here)' /\ PageOK(before)' /\ LeafOK(here)' /\ LeafOK(before)'
      /\ AppliedOK(here)' /\ AppliedOK(before)'
    BY <1>1, <1>3, NothingToClear, PartsStand
<1>5. ScopeOK(before)'
    BY <1>1, NothingToClear, PartsStand
<1>6. BlockOK' /\ ScopeOK(here)'
  <2>1. CASE /\ DimensionBlock(here) # {} /\ blockOf' = here
             /\ retained' = [key |-> FacetScopeKey(here), block |-> DimensionBlock(here)]
    <3>1. HasDimensions(here) /\ SomeFound(here)
        BY <1>2, <2>1, FreshBlock
    <3> QED BY <1>1, <1>2, <1>3, <2>1, <3>1, PartsStand
  <2>2. CASE retained'.block = {}
      BY <1>1, <2>2, PartsStand
  <2>3. NothingRetained(here).block = {}
      BY DEF NothingRetained
  <2> QED BY <1>1, <2>1, <2>2, <2>3, ShowHolds
<1> QED BY <1>3, <1>4, <1>5, <1>6

(* A dimension is clicked on screen: something is found beside its own.     *)
LEMMA BlockOnScreen ==
    ASSUME FiltersInv, BlockInv, NEW a \in retained.block, Sidebar, HasDimensions(here)
    PROVE  a \in Attributes /\ a.criterion \in Criteria /\ Found(here, a.criterion) # {}
<1>1. here \in Urls /\ CatalogueOK /\ a \in Attributes /\ a.criterion \in Criteria
    BY DEF FiltersInv, HereOK, RetainedOK, Attributes
<1>2. SomeFound(here)
    BY <1>1 DEF BlockInv, ScopeOK, ShownOK
<1>3. CASE here.page = 1
  <2>1. DimensionBlock(here) # {}
      BY <1>1, <1>2, <1>3, BlockExists DEF BlockInv
  <2>2. retained.block = DimensionBlock(here)
      BY <2>1 DEF BlockInv, ShownOK, Sidebar
  <2> QED BY <1>1, <2>2, BlockIsOf
<1>4. CASE here.page # 1
    BY <1>1, <1>4, MatchedIsFound DEF BlockInv, PageOK
<1> QED BY <1>1, <1>3, <1>4

LEMMA AttributesFollow ==
    ASSUME FiltersInv, BlockInv,
           (\E a \in retained.block : ClickAttribute(a)) \/ ClickClearAttributes
    PROVE  BlockInv'
<1>1. here \in Urls
    BY DEF FiltersInv, HereOK
<1>2. Sidebar /\ HasDimensions(here) /\ retained.block # {}
    BY DEF ClickAttribute, ClickClearAttributes
<1>3. HasSearchSubject(here) /\ LeafOK(here)
    BY <1>2 DEF Sidebar, IsEmptyPage, BlockInv
<1>4. SomeFound(here) /\ blockOf.hasChildren = here.hasChildren
    BY <1>2 DEF BlockInv, ScopeOK, ShownOK
<1>5. ASSUME NEW v \in Urls, NEW count, Visit(v, count), SomeFound(v),
             v.page = 1, v.query = here.query, v.brandIds = here.brandIds,
             v.productType = here.productType, v.path = here.path,
             v.hasChildren = here.hasChildren
      PROVE  BlockInv'
  <2>1. LeafOK(v) /\ HasDimensions(v) /\ HasSearchSubject(v)
      BY <1>2, <1>3, <1>5 DEF LeafOK, SelectedCategory, HasDimensions, HasSearchSubject
  <2>2. SomeFound(ClearBrands(v))
      BY <1>5, ClearedIs, FoundAlike
  <2> QED BY <1>4, <1>5, <2>1, <2>2, VisitFollows DEF AppliedOK, Follows
<1>6. ASSUME NEW a \in retained.block, ClickAttribute(a)
      PROVE  BlockInv'
  <2> DEFINE v == ToggleAttribute(here, a)
  <2>1. a \in Attributes /\ a.criterion \in Criteria /\ Found(here, a.criterion) # {}
      BY <1>2, BlockOnScreen
  <2>2. v \in Urls
      BY <1>1, <2>1, MutationsAreUrls
  <2>3. /\ v.page = 1 /\ v.query = here.query /\ v.brandIds = here.brandIds
        /\ v.productType = here.productType /\ v.path = here.path
        /\ v.hasChildren = here.hasChildren
        /\ v.attributes = IF a \in here.attributes THEN here.attributes \ {a}
                          ELSE here.attributes \union {a}
      BY <1>1 DEF ToggleAttribute, Urls
  <2>4. \E count : Visit(v, count)
      BY <1>6 DEF ClickAttribute
  <2> HIDE DEF v
  <2>5. \A d : d # a.criterion => FiltersOn(v, d) = FiltersOn(here, d)
    <3> SUFFICES ASSUME NEW d, d # a.criterion
                 PROVE  {y \in v.attributes : y.criterion = d}
                          = {y \in here.attributes : y.criterion = d}
        BY DEF FiltersOn
    <3> QED BY <2>3
  <2>6. Found(here, a.criterion) \subseteq Found(v, a.criterion)
      BY <1>1, <2>2, <2>3, <2>5, FoundGrows
  <2>7. SomeFound(v)
      BY <2>1, <2>6 DEF SomeFound
  <2> QED BY <1>5, <2>2, <2>3, <2>4, <2>7
<1>7. CASE ClickClearAttributes
  <2> DEFINE v == ClearAttributes(here)
  <2>1. v \in Urls
      BY <1>1, MutationsAreUrls
  <2>2. /\ v.page = 1 /\ v.query = here.query /\ v.brandIds = here.brandIds
        /\ v.productType = here.productType /\ v.path = here.path
        /\ v.hasChildren = here.hasChildren /\ v.attributes = {}
      BY <1>1 DEF ClearAttributes, Urls
  <2>3. Visit(v, 0)
      BY <1>7 DEF ClickClearAttributes
  <2> HIDE DEF v
  <2>4. SomeFound(v)
      BY <1>1, <1>4, <2>1, <2>2, FoundUnfiltered
  <2> QED BY <1>5, <2>1, <2>2, <2>3, <2>4
<1> QED BY <1>6, <1>7

(* Another page of the list on screen.                                      *)
LEMMA PageFollows ==
    ASSUME FiltersInv, BlockInv, NEW p \in 1 .. Cardinality(Listed), ClickPage(p)
    PROVE  BlockInv'
<1> DEFINE v == WithPage(here, p)
<1>1. here \in Urls /\ Visit(v, 0) /\ p \in 1 .. MaxPage(here)
    BY DEF FiltersInv, HereOK, ClickPage
<1>2. v \in Urls
  <2>1. p \in Pages
      BY SearchFiltersAssumption, FS_CardinalityType DEF Pages
  <2> QED BY <1>1, <2>1, MutationsAreUrls
<1>3. /\ v.query = here.query /\ v.brandIds = here.brandIds
      /\ v.productType = here.productType /\ v.path = here.path
      /\ v.hasChildren = here.hasChildren /\ v.attributes = here.attributes
    BY <1>1 DEF WithPage, Urls
<1>4. Total(here) > 0 /\ Total(v) = Total(here)
  <2>1. Total(here) \in Nat
      BY MatchesAreFinite
  <2> QED BY <1>1, <2>1, PageMatchesTheSame DEF MaxPage
<1> HIDE DEF v
<1>5. SomeFound(here) /\ SomeFound(v)
    BY <1>1, <1>2, <1>4, MatchedIsFound DEF SomeFound, Criteria
<1>6. /\ HasDimensions(v) <=> HasDimensions(here)
      /\ HasSearchSubject(v) <=> HasSearchSubject(here)
      /\ LeafOK(v)
    BY <1>3 DEF BlockInv, LeafOK, SelectedCategory, HasDimensions, HasSearchSubject
<1>7. SomeFound(ClearBrands(v))
    BY <1>2, <1>5, ClearedIs, FoundAlike
<1>8. AppliedOK(v)
    BY <1>3, <1>6, <1>7 DEF BlockInv, AppliedOK
<1>9. Follows(v)
    BY <1>3, <1>5, <1>6 DEF Follows, BlockInv, ScopeOK, ShownOK
<1> QED BY <1>1, <1>2, <1>4, <1>6, <1>8, <1>9, VisitFollows

(* A navigation to another search: the block of this one is not for it.     *)
LEMMA ElsewhereFollows ==
    ASSUME FiltersInv, BlockInv, NEW v \in Urls, NEW count, Visit(v, count),
           v.page = 1, LeafOK(v), AppliedOK(v),
           \/ v.path # here.path \/ v.brandIds # here.brandIds
           \/ v.productType # here.productType \/ ~HasDimensions(v)
    PROVE  BlockInv'
<1>1. Follows(v)
    BY KeyIs DEF Follows
<1> QED BY <1>1, VisitFollows

LEMMA BrandsFollow ==
    ASSUME FiltersInv, BlockInv, (\E b \in Brands : ClickBrand(b)) \/ ClickClearBrands
    PROVE  BlockInv'
<1>1. here \in Urls /\ LeafOK(here) /\ AppliedOK(here)
    BY DEF FiltersInv, HereOK, BlockInv
<1>2. ASSUME NEW v \in Urls, NEW count, Visit(v, count), v.page = 1, v.query = here.query,
             v.productType = here.productType, v.path = here.path,
             v.hasChildren = here.hasChildren, v.attributes = here.attributes,
             v.brandIds # here.brandIds
      PROVE  BlockInv'
  <2>1. /\ HasDimensions(v) <=> HasDimensions(here)
        /\ HasSearchSubject(v) <=> HasSearchSubject(here)
        /\ LeafOK(v)
      BY <1>1, <1>2 DEF LeafOK, SelectedCategory, HasDimensions, HasSearchSubject
  <2>2. SomeFound(ClearBrands(here)) => SomeFound(ClearBrands(v))
    <3>1. /\ ClearBrands(v) \in Urls /\ ClearBrands(here) \in Urls
          /\ ClearBrands(v).brandIds = ClearBrands(here).brandIds
          /\ ClearBrands(v).productType = ClearBrands(here).productType
          /\ ClearBrands(v).path = ClearBrands(here).path
          /\ ClearBrands(v).attributes = ClearBrands(here).attributes
        BY <1>1, <1>2, ClearedIs
    <3> QED BY <3>1, FoundAlike
  <2>3. AppliedOK(v)
      BY <1>1, <1>2, <2>1, <2>2 DEF AppliedOK
  <2> QED BY <1>2, <2>1, <2>3, ElsewhereFollows
<1>3. ASSUME NEW b \in Brands, ClickBrand(b)
      PROVE  BlockInv'
  <2> DEFINE v == ToggleBrand(here, b)
  <2>1. v \in Urls
      BY <1>1, MutationsAreUrls
  <2>2. /\ v.page = 1 /\ v.query = here.query /\ v.productType = here.productType
        /\ v.path = here.path /\ v.hasChildren = here.hasChildren
        /\ v.attributes = here.attributes
        /\ v.brandIds = IF b \in here.brandIds THEN here.brandIds \ {b}
                        ELSE here.brandIds \union {b}
      BY <1>1 DEF ToggleBrand, Urls
  <2>3. \E count : Visit(v, count)
      BY <1>3 DEF ClickBrand
  <2> HIDE DEF v
  <2> QED BY <1>2, <2>1, <2>2, <2>3
<1>4. CASE ClickClearBrands
  <2> DEFINE v == ClearBrands(here)
  <2>1. /\ v \in Urls /\ v.page = 1 /\ v.query = here.query
        /\ v.productType = here.productType /\ v.path = here.path
        /\ v.hasChildren = here.hasChildren /\ v.attributes = here.attributes
        /\ v.brandIds = {}
      BY <1>1, FirstPage DEF ClearBrands, Urls
  <2>2. Visit(v, 0) /\ here.brandIds # {}
      BY <1>4 DEF ClickClearBrands
  <2> HIDE DEF v
  <2> QED BY <1>2, <2>1, <2>2
<1> QED BY <1>3, <1>4

(* A change of category or type drops the dimensions applied.               *)
LEMMA TreeFollows ==
    ASSUME FiltersInv, BlockInv,
           \/ \E c \in Categories : ClickCategory(c)
           \/ \E t \in Types : ClickProductType(t)
           \/ ClickUp \/ ClickCrumb
    PROVE  BlockInv'
<1>1. here \in Urls /\ LeafOK(here) /\ here.path \in Seq(Categories)
    BY PathShape DEF FiltersInv, HereOK, BlockInv, Urls
<1>2. ASSUME NEW t \in Types \union {"none"}, here.productType # t,
             NEW count, Visit(SelectProductType(here, t), count)
      PROVE  BlockInv'
  <2> DEFINE v == SelectProductType(here, t)
  <2>1. /\ v \in Urls /\ v.page = 1 /\ v.productType = t /\ v.path = here.path
        /\ v.hasChildren = here.hasChildren /\ v.attributes = {}
      BY <1>1, MutationsAreUrls, FirstPage DEF SelectProductType, Urls
  <2>2. Visit(v, count)
      BY <1>2
  <2> HIDE DEF v
  <2>3. LeafOK(v) /\ AppliedOK(v)
      BY <1>1, <2>1 DEF LeafOK, AppliedOK, SelectedCategory
  <2> QED BY <1>2, <2>1, <2>2, <2>3, ElsewhereFollows
<1>3. ASSUME NEW path \in Paths, NEW count, Visit(SelectCategoryPath(here, path), count)
      PROVE  BlockInv'
  <2> DEFINE v == SelectCategoryPath(here, path)
  <2>1. /\ v \in Urls /\ v.page = 1 /\ v.productType = "none" /\ v.path = path
        /\ v.attributes = {}
        /\ v.hasChildren = IF path # <<>> THEN "true" ELSE "unknown"
    <3>1. v \in Urls
        BY <1>1, MutationsAreUrls
    <3> QED BY <1>1, <3>1 DEF SelectCategoryPath, Urls
  <2>2. Visit(v, count)
      BY <1>3
  <2> HIDE DEF v
  <2>3. LeafOK(v) /\ AppliedOK(v) /\ ~HasDimensions(v)
      BY <2>1 DEF LeafOK, AppliedOK, HasDimensions
  <2> QED BY <2>1, <2>2, <2>3, ElsewhereFollows
<1>4. ASSUME NEW c \in Categories, ClickCategory(c)
      PROVE  BlockInv'
  <2> DEFINE v == DrillIntoCategory(here, c)
  <2>1. Append(here.path, c) \in Paths
    <3>1. c \in ChildrenOf(IF here.path = <<>> THEN "none" ELSE here.path[Len(here.path)])
        BY <1>4 DEF ClickCategory, CategoryOptions, SelectedCategory
    <3> QED BY <1>1, <3>1, PathsClosed DEF Urls
  <2>2. /\ v \in Urls /\ v.page = 1 /\ v.path = Append(here.path, c) /\ v.attributes = {}
        /\ v.hasChildren = IF ChildrenOf(c) # {} THEN "true" ELSE "false"
    <3>1. v \in Urls
        BY <1>1, <2>1, MutationsAreUrls
    <3> QED BY <1>1, <3>1, FirstPage DEF DrillIntoCategory, Urls
  <2>3. \E count : Visit(v, count)
      BY <1>4 DEF ClickCategory
  <2> HIDE DEF v
  <2>4. /\ Append(here.path, c) # here.path /\ Append(here.path, c) # <<>>
        /\ Append(here.path, c)[Len(Append(here.path, c))] = c
      BY <1>1, AppendProperties
  <2>5. LeafOK(v) /\ AppliedOK(v)
      BY <2>2, <2>4 DEF LeafOK, AppliedOK, SelectedCategory
  <2> QED BY <2>2, <2>3, <2>4, <2>5, ElsewhereFollows
<1>5. ASSUME NEW t \in Types, ClickProductType(t)
      PROVE  BlockInv'
    BY <1>2, <1>5, SearchFiltersAssumption DEF ClickProductType
<1>6. CASE ClickUp
  <2>1. CASE here.productType # "none" /\ Visit(ClearProductType(here), 0)
      BY <1>2, <2>1 DEF ClearProductType
  <2>2. CASE here.path # <<>> /\ Visit(CategoryUp(here), 0)
    <3>1. Len(here.path) - 1 \in 0 .. Len(here.path)
        BY <1>1, <2>2
    <3>2. SubSeq(here.path, 1, Len(here.path) - 1) \in Paths
        BY <1>1, <3>1, PathsClosed DEF Urls
    <3> QED BY <1>3, <2>2, <3>2 DEF CategoryUp
  <2> QED BY <1>6, <2>1, <2>2 DEF ClickUp
<1>7. CASE ClickCrumb
  <2>1. CASE Visit(SelectCategoryPath(here, <<>>), 0)
      BY <1>3, <2>1, PathsClosed
  <2>2. CASE /\ here.path # <<>>
             /\ LET trail == IF CategoryCount(here, SelectedCategory(here)) > 0
                             THEN AncestryOf(SelectedCategory(here)) ELSE here.path
                IN  \E n \in DOMAIN trail :
                       Visit(SelectCategoryPath(here, SubSeq(trail, 1, n)), 0)
    <3> DEFINE trail == IF CategoryCount(here, SelectedCategory(here)) > 0
                        THEN AncestryOf(SelectedCategory(here)) ELSE here.path
    <3>1. here.path[Len(here.path)] \in Categories
        BY <1>1, <2>2
    <3>2. trail \in Paths
        BY <1>1, <3>1, PathsClosed DEF SelectedCategory, Urls
    <3>3. PICK n \in DOMAIN trail : Visit(SelectCategoryPath(here, SubSeq(trail, 1, n)), 0)
        BY <2>2
    <3> HIDE DEF trail
    <3>4. n \in 0 .. Len(trail)
        BY <3>2, <3>3, PathShape
    <3>5. SubSeq(trail, 1, n) \in Paths
        BY <3>2, <3>4, PathsClosed
    <3> QED BY <1>3, <3>3, <3>5
  <2> QED BY <1>7, <2>1, <2>2 DEF ClickCrumb
<1> QED BY <1>4, <1>5, <1>6, <1>7

(* A suggestion may lead to the very search on screen, its dimensions taken *)
(* off: no brand was applied there, so something is found.                  *)
LEMMA SuggestionFollows ==
    ASSUME FiltersInv, BlockInv, NEW c \in Categories, ClickSuggestion(c)
    PROVE  BlockInv'
<1> DEFINE v == DrillIntoCategory(NewSearch, c)
<1>1. /\ v.page = 1 /\ v.path = <<c>> /\ v.attributes = {} /\ v.hasChildren = "false"
      /\ v.productType = "none" /\ v.brandIds = {} /\ v.query = TRUE
  <2>1. Append(<<>>, c) = <<c>>
      OBVIOUS
  <2> QED BY <2>1 DEF ClickSuggestion, DrillIntoCategory, NewSearch
<1>2. v \in Urls
  <2>1. Append(NewSearch.path, c) \in Paths
      BY <1>1, PathsClosed DEF DrillIntoCategory, NewSearch
  <2> QED BY <2>1, NewSearchType, MutationsAreUrls
<1>3. Visit(v, 0) /\ ChildrenOf(c) = {} /\ here \in Urls
    BY DEF ClickSuggestion, FiltersInv, HereOK
<1> HIDE DEF v
<1>4. LeafOK(v) /\ AppliedOK(v) /\ HasDimensions(v)
    BY <1>1, <1>3 DEF LeafOK, AppliedOK, SelectedCategory, HasDimensions
<1>5. ASSUME FacetScopeKey(v) = FacetScopeKey(here)
      PROVE  /\ HasDimensions(here) /\ SomeFound(v) =>
                  v.hasChildren = here.hasChildren /\ SomeFound(here)
             /\ retained.block # {} => blockOf.hasChildren = v.hasChildren /\ SomeFound(v)
  <2>1. /\ here.path = <<c>> /\ here.productType = "none" /\ here.brandIds = {}
      BY <1>1, <1>5, KeyIs
  <2>2. ASSUME HasDimensions(here), SomeFound(v)
        PROVE  v.hasChildren = here.hasChildren /\ SomeFound(here)
    <3>1. here.hasChildren = "false"
        BY <2>1, <2>2 DEF HasDimensions
    <3>2. ASSUME here.attributes = {} PROVE SomeFound(here)
        BY <1>1, <1>2, <1>3, <2>1, <2>2, <3>2, FoundAlike
    <3>3. ASSUME here.attributes # {} PROVE SomeFound(here)
      <4>1. SomeFound(ClearBrands(here))
          BY <3>3 DEF BlockInv, AppliedOK
      <4> QED BY <1>3, <2>1, <4>1, ClearedIs, FoundAlike
    <3> QED BY <1>1, <3>1, <3>2, <3>3
  <2>3. ASSUME retained.block # {}
        PROVE  blockOf.hasChildren = v.hasChildren /\ SomeFound(v)
    <3>1. /\ blockOf \in Urls /\ FacetScopeKey(blockOf) = FacetScopeKey(v)
          /\ HasDimensions(blockOf) /\ SomeFound(blockOf)
        BY <1>5, <2>3 DEF BlockInv, BlockOK, ShownOK
    <3>2. /\ v.path = blockOf.path /\ v.productType = blockOf.productType
          /\ v.brandIds = blockOf.brandIds
        BY <3>1, KeyIs
    <3>3. blockOf.hasChildren = "false"
        BY <1>1, <3>1, <3>2 DEF HasDimensions
    <3> QED BY <1>1, <1>2, <3>1, <3>2, <3>3, FoundUnfiltered
  <2> QED BY <2>2, <2>3
<1>6. Follows(v)
    BY <1>5 DEF Follows
<1> QED BY <1>1, <1>2, <1>3, <1>4, <1>6, VisitFollows

LEMMA BlockInitHolds == SearchFiltersInit => BlockInv
<1> SUFFICES ASSUME SearchFiltersInit PROVE BlockInv
    OBVIOUS
<1> DEFINE EntryOK(u) ==
        /\ u.page = 1 \/ ~HasDimensions(u)
        /\ u.attributes = {}
        /\ LeafOK(u)
<1>1. FiltersInv
    BY FiltersInitHolds
<1>2. PICK u \in Entries :
        /\ here = Redirected(u) /\ blockOf = here
        /\ retained = [key |-> FacetScopeKey(here),
                       block |-> IF IsEmptyPage(here) THEN {} ELSE DimensionBlock(here)]
    BY DEF SearchFiltersInit
<1>3. u \in Urls
    BY EntriesAreUrls
<1>4. EntryOK(u)
  <2>1. EntryOK(NewSearch)
      BY DEF NewSearch, LeafOK
  <2>2. EntryOK(SelectCategoryPath(Browse, <<"pads">>))
      BY DEF SelectCategoryPath, Browse, NewSearch, LeafOK
  <2>3. EntryOK(WithPage(SelectCategoryPath(Browse, <<"discs">>), 2))
      BY DEF WithPage, SelectCategoryPath, Browse, NewSearch, LeafOK, HasDimensions
  <2>4. EntryOK(DrillIntoCategory(Browse, "brakes"))
    <3>1. "pads" \in ChildrenOf("brakes")
        BY DEF ChildrenOf, ParentOf, Categories
    <3> QED BY <3>1 DEF DrillIntoCategory, Browse, NewSearch, LeafOK
  <2>5. EntryOK(DrillIntoCategory(DrillIntoCategory(Browse, "brakes"), "pads"))
    <3>1. ChildrenOf("pads") = {}
        BY DEF ChildrenOf, ParentOf, Categories
    <3> DEFINE w == DrillIntoCategory(DrillIntoCategory(Browse, "brakes"), "pads")
    <3>2. w.page = 1 /\ w.attributes = {} /\ w.path = Append(Append(<<>>, "brakes"), "pads")
        BY DEF DrillIntoCategory, Browse, NewSearch
    <3> HIDE DEF w
    <3>3. w.path = Append(<<"brakes">>, "pads")
      <4>1. Append(<<>>, "brakes") = <<"brakes">>
          OBVIOUS
      <4> QED BY <3>2, <4>1
    <3>4. SelectedCategory(w) = "pads" /\ w.path # <<>>
      <4>1. <<"brakes">> \in Seq(Categories) /\ "pads" \in Categories
          BY DEF Categories
      <4> QED BY <3>3, <4>1, AppendProperties DEF SelectedCategory
    <3> QED BY <3>1, <3>2, <3>4 DEF LeafOK, w
  <2> QED BY <2>1, <2>2, <2>3, <2>4, <2>5 DEF Entries
<1>5. /\ PageOK(here) /\ LeafOK(here) /\ here.attributes = {} /\ here \in Urls
      /\ CatalogueOK
  <2>1. LeafOK(here) /\ here.attributes = {} /\ (HasDimensions(here) <=> HasDimensions(u))
      BY <1>2, <1>3, <1>4, RedirectedAlike, RedirectedIs
  <2>2. PageOK(here)
      BY <1>2, <1>3, <1>4, <2>1, RedirectedAlike DEF PageOK
  <2> QED BY <1>1, <2>1, <2>2 DEF FiltersInv, HereOK
<1>6. BlockOK /\ ScopeOK(here)
    BY <1>2, <1>5, FreshBlock DEF BlockOK, ScopeOK
<1>7. before = NoUrl
    BY DEF SearchFiltersInit
<1> QED BY <1>2, <1>5, <1>6, <1>7, NothingToClear
        DEF BlockInv, AppliedOK, ScopeOK, ShownOK

LEMMA BlockStepHolds ==
    ASSUME FiltersInv, BlockInv, [SearchFiltersNext]_FilterVars
    PROVE  BlockInv'
<1>1. CASE UNCHANGED FilterVars
  <2>1. UNCHANGED <<catalogue, here, before, retained, blockOf>>
      BY <1>1 DEF FilterVars
  <2>2. FacetScopeKey(here)' = FacetScopeKey(here')
      BY DEF FacetScopeKey
  <2>3. ShownOK'
      BY <2>1, <2>2, AnswerStands DEF BlockInv, ShownOK
  <2> QED BY <2>1, <2>3, PartsStand DEF BlockInv, BlockOK, ScopeOK
<1> QED BY <1>1, BrandsFollow, TreeFollows, AttributesFollow, PageFollows,
           SuggestionFollows, GoBackFollows, ReloadFollows
        DEF SearchFiltersNext

THEOREM BlockInvariant == SearchFiltersSpec => []BlockInv
BY FiltersInitHolds, FiltersStepHolds, BlockInitHolds, BlockStepHolds, PTL
   DEF SearchFiltersSpec

(* use-retained-facets.ts and dimension-facets.ts: whatever was clicked and *)
(* gone back from, the dimensions on screen are those of the search on      *)
(* screen, and one applied can be taken off wherever the brands applied     *)
(* leave something matched.                                                 *)
THEOREM BlockIsOfTheSearch == SearchFiltersSpec => []BlockFollowsTheSearch
<1>1. FiltersInv /\ BlockInv => BlockFollowsTheSearch
  <2> SUFFICES ASSUME FiltersInv, BlockInv PROVE BlockFollowsTheSearch
      OBVIOUS
  <2>1. here \in Urls /\ CatalogueOK /\ LeafOK(here)
      BY DEF FiltersInv, HereOK, BlockInv
  <2>2. ASSUME Sidebar, HasDimensions(here), here.page = 1, SomeFound(here)
        PROVE  DimensionBlock(here) # {} /\ retained.block = DimensionBlock(here)
    <3>1. DimensionBlock(here) # {}
        BY <2>1, <2>2, BlockExists
    <3> QED BY <2>2, <3>1 DEF BlockInv, ShownOK, Sidebar
  <2>3. ASSUME HasDimensions(here), Sidebar, retained.block # {}
        PROVE  /\ [blockOf EXCEPT !.page = 1, !.attributes = {}]
                    = [here EXCEPT !.page = 1, !.attributes = {}]
               /\ here.page = 1 => retained.block = DimensionBlock(here)
    <3>1. blockOf \in Urls /\ FacetScopeKey(blockOf) = FacetScopeKey(here)
        BY <2>3 DEF BlockInv, BlockOK, ShownOK
    <3>2. blockOf.hasChildren = here.hasChildren /\ SomeFound(here)
        BY <2>3 DEF BlockInv, ScopeOK, ShownOK
    <3>3. /\ blockOf.query = here.query /\ blockOf.path = here.path
          /\ blockOf.brandIds = here.brandIds /\ blockOf.productType = here.productType
        BY <3>1, KeyIs
    <3>4. [blockOf EXCEPT !.page = 1, !.attributes = {}]
            = [here EXCEPT !.page = 1, !.attributes = {}]
        BY <2>1, <3>1, <3>2, <3>3 DEF Urls
    <3> QED BY <2>2, <2>3, <3>2, <3>4
  <2>4. ASSUME here.attributes # {}, here.page = 1
        PROVE  /\ Sidebar /\ HasDimensions(here)
               /\ here.brandIds = {} \/ Total(here) > 0 => retained.block # {}
               /\ \A a \in here.attributes :
                     ValueCount(here, a) > 0 =>
                         \E b \in retained.block :
                             b.criterion = a.criterion /\ b.token \intersect a.token # {}
    <3>1. HasDimensions(here) /\ HasSearchSubject(here) /\ SomeFound(ClearBrands(here))
        BY <2>4 DEF BlockInv, AppliedOK
    <3>2. Sidebar
        BY <2>4, <3>1 DEF Sidebar, IsEmptyPage, HasActiveFilters
    <3>3. ASSUME Total(here) > 0 PROVE SomeFound(here)
        BY <2>1, <3>3, MatchedIsFound DEF SomeFound, Criteria
    <3>4. ASSUME here.brandIds = {} PROVE SomeFound(here)
        BY <2>1, <3>1, <3>4, ClearedIs, FoundAlike
    <3>5. ASSUME NEW a \in here.attributes, ValueCount(here, a) > 0
          PROVE  \E b \in retained.block :
                    b.criterion = a.criterion /\ b.token \intersect a.token # {}
      <4> DEFINE c == a.criterion
                 of(x) == {catalogue[y][c] :
                             y \in {z \in Found(here, c) : MeasureOf(catalogue[z][c])
                                                           = MeasureOf(catalogue[x][c])}}
      <4>1. a \in Attributes /\ c \in Criteria
          BY <2>1 DEF Urls, Attributes
      <4>2. ValueCount(here, a) = CountOf(Found(here, c), c, a.token)
          BY DEF ValueCount, Found
      <4>3. {x \in Found(here, c) : catalogue[x][c] \in a.token} # {}
          BY <3>5, <4>2, FS_EmptySet DEF CountOf
      <4>4. PICK x \in Found(here, c) : catalogue[x][c] \in a.token
          BY <4>3
      <4>5. of(x) \in MergedValues(Found(here, c), c) /\ catalogue[x][c] \in of(x)
          BY <4>4 DEF MergedValues
      <4> HIDE DEF of
      <4>6. catalogue[x][c] \in FiltersOn(here, c)
          BY <4>4 DEF FiltersOn
      <4>7. of(x) \in CriterionValues(here, c)
        <5>1. CriterionValues(here, c)
                = CapValues(Found(here, c), c, MergedValues(Found(here, c), c),
                            FiltersOn(here, c))
            BY DEF CriterionValues, Found
        <5> QED BY <4>5, <4>6, <5>1 DEF CapValues
      <4>8. SomeFound(here)
          BY <4>1, <4>4 DEF SomeFound
      <4>9. [criterion |-> c, token |-> of(x)] \in retained.block
          BY <2>1, <2>2, <2>4, <3>1, <3>2, <4>1, <4>7, <4>8, BlockExists
      <4> QED BY <4>4, <4>5, <4>9
    <3> QED BY <2>2, <2>4, <3>1, <3>2, <3>3, <3>4, <3>5
  <2> QED BY <2>3, <2>4 DEF BlockFollowsTheSearch
<1> QED BY <1>1, SearchFiltersInvariant, BlockInvariant, PTL
=============================================================================
