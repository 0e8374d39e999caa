----------------------------- MODULE SearchBar -----------------------------
(***************************************************************************)
(* The search box of every page: components/catalog/search/search-bar.tsx   *)
(* with use-search-mode.ts, use-debounced-value.ts, suggestion-href.ts and  *)
(* the autocomplete queries it keeps.                                       *)
(*                                                                          *)
(* The visitor types; three hundred milliseconds later the text is asked    *)
(* for in the lane the box is set to; answers arrive in any order, or not   *)
(* at all, and are kept by their question.  The list on screen is the       *)
(* answer to the box's present question.  Which row is highlighted is       *)
(* remembered apart from the list, as an index.                             *)
(*                                                                          *)
(* A text is only what the box asks of it: blank, too short to ask for,     *)
(* like a part number, like prose, or neither.                              *)
(***************************************************************************)
EXTENDS Integers, Sequences

CONSTANTS
    TypedTexts,    \* the texts a visitor may type, members of Texts
    MaxAnswers,    \* bound: autocomplete answers that arrive
    MaxTyping      \* bound: times the text or the lane is changed

Texts == {"blank", "short", "number", "prose", "code", "other code"}

ASSUME SearchBarAssumption ==
    /\ TypedTexts \subseteq Texts
    /\ MaxAnswers \in Nat /\ MaxTyping \in Nat

VARIABLES
    boxText,      \* query, trimmed
    scope,        \* "generic" or "part"
    isExact,
    listOpen,     \* isDropdownOpen
    activeIndex,  \* 0 for the code's -1
    settledText,  \* debouncedQuery
    asked,        \* questions on their way to the server
    answers,      \* answered question -> the rows of its answer
    landed,       \* where the last navigation since he typed led
    answerCount, typingCount

SearchBarVars == <<boxText, scope, isExact, listOpen, activeIndex, settledText,
                   asked, answers, landed, answerCount, typingCount>>

Lanes == {"generic", "part_number", "part_number_exact"}

LooksLikePartNumber(t) == t = "number"

LooksLikeDescription(t) == t = "prose"

Completable(t) == t \notin {"blank", "short"}

Questions == Lanes \X {t \in TypedTexts : Completable(t)}

ResolveSearchMode(s, exact) ==
    CASE s = "generic" -> "generic"
      [] s = "part" /\ exact -> "part_number_exact"
      [] OTHER -> "part_number"

Lane == ResolveSearchMode(scope, isExact)

\* Mutant of AskKey: the lane is not part of the query key.
AskKeyOfText(lane, text) == <<"part_number", text>>

AskKey(lane, text) == <<lane, text>>

Question == AskKey(Lane, settledText)

(***************************************************************************)
(* What the server answers: terms in the descriptive lane; else articles    *)
(* and, when the matches fall into more than one category, the categories.  *)
(***************************************************************************)
Row(kind, n, q) == [kind |-> kind, n |-> n, lane |-> q[1], text |-> q[2]]

Answers(q) ==
    IF q[1] = "generic"
    THEN {<<>>, <<Row("term", 1, q), Row("term", 2, q)>>}
    ELSE {<<>>, <<Row("article", 1, q)>>,
          <<Row("article", 1, q), Row("category", 1, q), Row("category", 2, q)>>}

SuggestionRows == UNION {{a[i] : i \in DOMAIN a} : a \in UNION {Answers(q) : q \in Questions}}

Suggestions ==
    IF listOpen /\ Completable(settledText) /\ Question \in DOMAIN answers
    THEN answers[Question] ELSE <<>>

IsListVisible == Suggestions # <<>>

ScopeHint ==
    IF IsListVisible THEN "none"
    ELSE IF scope = "generic" /\ LooksLikePartNumber(boxText) THEN "part"
    ELSE IF scope = "part" /\ LooksLikeDescription(boxText) THEN "generic"
    ELSE "none"

(***************************************************************************)
(* Where a suggestion leads.  A term or a category re-runs a search; an     *)
(* article is opened.                                                       *)
(***************************************************************************)
Search(kind, text, mode) == [to |-> kind, text |-> text, mode |-> mode]

Home == Search("home", "blank", "none")

SuggestionHref(row) ==
    CASE row.kind = "article" -> Search("article", row.text, "none")
      [] row.kind = "term" -> Search("term", row.text, "generic")
      [] row.kind = "category" -> Search("category", row.text, Lane)

\* The query runs when the question on screen is a new one that may be asked.
AskWhenNew ==
    asked' = asked \union
        {q \in {Question'} : Completable(settledText') /\ q \notin DOMAIN answers}

-----------------------------------------------------------------------------
Type(t) ==
    /\ typingCount < MaxTyping
    /\ t # boxText
    /\ boxText' = t
    /\ listOpen' = TRUE
    /\ activeIndex' = 0
    /\ landed' = Home
    /\ typingCount' = typingCount + 1
    /\ UNCHANGED <<scope, isExact, settledText, asked, answers, answerCount>>

\* useDebouncedValue: the text has stayed as it is for long enough.
Settle ==
    /\ settledText # boxText
    /\ settledText' = boxText
    /\ UNCHANGED <<boxText, scope, isExact, listOpen, activeIndex, answers, landed,
                   answerCount, typingCount>>
    /\ AskWhenNew

Answer(q) ==
    /\ q \in asked /\ answerCount < MaxAnswers
    /\ \E rows \in Answers(q) :
          answers' = [k \in DOMAIN answers \union {q} |-> IF k = q THEN rows ELSE answers[k]]
    /\ asked' = asked \ {q}
    /\ answerCount' = answerCount + 1
    /\ UNCHANGED <<boxText, scope, isExact, listOpen, activeIndex, settledText, landed,
                   typingCount>>

AskingFails(q) ==
    /\ q \in asked
    /\ asked' = asked \ {q}
    /\ UNCHANGED <<boxText, scope, isExact, listOpen, activeIndex, settledText, answers,
                   landed, answerCount, typingCount>>

SetMode(s, exact) ==
    /\ typingCount < MaxTyping
    /\ scope' = s /\ isExact' = exact
    /\ typingCount' = typingCount + 1
    /\ UNCHANGED <<boxText, listOpen, activeIndex, settledText, answers, landed,
                   answerCount>>
    /\ AskWhenNew

SetScope(s) == s # scope /\ SetMode(s, isExact)

\* The switch beside the box and Alt+E, offered in the number scope only.
ToggleExact == scope = "part" /\ SetMode(scope, ~isExact)

\* A list kept for more than a minute is asked for again when the window regains
\* the focus; its rows stay until the answer.
Refetch ==
    /\ Question \in DOMAIN answers
    /\ asked' = asked \union {Question}
    /\ UNCHANGED <<boxText, scope, isExact, listOpen, activeIndex, settledText, answers,
                   landed, answerCount, typingCount>>

Escape ==
    /\ listOpen' = FALSE /\ activeIndex' = 0
    /\ UNCHANGED <<boxText, scope, isExact, settledText, asked, answers, landed,
                   answerCount, typingCount>>

-----------------------------------------------------------------------------
Highlight(i) ==
    /\ IsListVisible
    /\ activeIndex' = i
    /\ UNCHANGED <<boxText, scope, isExact, listOpen, settledText, asked, answers, landed,
                   answerCount, typingCount>>

ArrowDown == Highlight((activeIndex % Len(Suggestions)) + 1)

ArrowUp == Highlight(((activeIndex - 2 + Len(Suggestions)) % Len(Suggestions)) + 1)

MouseEnter == \E i \in DOMAIN Suggestions : Highlight(i)

NavigateTo(place) ==
    /\ listOpen' = FALSE
    /\ landed' = place
    /\ UNCHANGED <<boxText, isExact, activeIndex, settledText, answers, answerCount, typingCount>>

SelectSuggestion(row) == NavigateTo(SuggestionHref(row)) /\ UNCHANGED <<scope, asked>>

MouseDown == \E i \in DOMAIN Suggestions : SelectSuggestion(Suggestions[i])

\* A list that no longer has the row: the handler throws and nothing opens.
EnterOnRow ==
    /\ IsListVisible /\ activeIndex > 0
    /\ IF activeIndex \in DOMAIN Suggestions
       THEN SelectSuggestion(Suggestions[activeIndex])
       ELSE UNCHANGED SearchBarVars

SubmitSearch(s) ==
    /\ boxText # "blank"
    /\ NavigateTo(Search("search", boxText, ResolveSearchMode(s, isExact)))

\* The button, or Enter on no row.
Submit == SubmitSearch(scope) /\ UNCHANGED <<scope, asked>>

\* Mutant of TakeHint: the search runs in the scope read before the click.
TakeHintStale ==
    /\ ScopeHint # "none"
    /\ scope' = ScopeHint
    /\ SubmitSearch(scope)
    /\ AskWhenNew

\* The offer sets the scope and searches at once, in the scope it was handed:
\* what the component read before the click still says the old one.
TakeHint ==
    /\ ScopeHint # "none"
    /\ scope' = ScopeHint
    /\ SubmitSearch(ScopeHint)
    /\ AskWhenNew

-----------------------------------------------------------------------------
SearchBarInit ==
    /\ boxText = "blank" /\ settledText = "blank"
    /\ scope \in {"generic", "part"} /\ isExact \in BOOLEAN
    /\ listOpen = FALSE /\ activeIndex = 0
    /\ asked = {} /\ answers = [q \in {} |-> <<>>]
    /\ landed = Home
    /\ answerCount = 0 /\ typingCount = 0

SearchBarNext ==
    \/ \E t \in TypedTexts : Type(t)
    \/ Settle
    \/ \E q \in Questions : Answer(q)
    \/ \E q \in Questions : AskingFails(q)
    \/ Refetch
    \/ \E s \in {"generic", "part"} : SetScope(s)
    \/ ToggleExact
    \/ Escape
    \/ ArrowDown
    \/ ArrowUp
    \/ MouseEnter
    \/ MouseDown
    \/ EnterOnRow
    \/ Submit
    \/ TakeHint

SearchBarSpec == SearchBarInit /\ [][SearchBarNext]_SearchBarVars

-----------------------------------------------------------------------------
(* Properties *)

\* Every variable keeps to its values, and only a question that may be asked
\* is asked: one of a text long enough, in one of the three lanes.
SearchBarTypeOK ==
    /\ boxText \in Texts /\ settledText \in Texts
    /\ scope \in {"generic", "part"} /\ isExact \in BOOLEAN
    /\ listOpen \in BOOLEAN /\ activeIndex \in 0 .. 3
    /\ asked \subseteq Questions /\ DOMAIN answers \subseteq Questions
    /\ \A q \in DOMAIN answers : \A i \in DOMAIN answers[q] : answers[q][i] \in SuggestionRows
    /\ answerCount \in 0 .. MaxAnswers /\ typingCount \in 0 .. MaxTyping

\* The rows on screen answer what the box asks now, in the lane it is set to:
\* an answer that arrives after the text or the lane has moved on is never
\* shown for them (autocomplete.ts keeps the lane in the query key).
RowsAnswerTheBox ==
    \A i \in DOMAIN Suggestions :
        Suggestions[i].lane = Lane /\ Suggestions[i].text = settledText

\* A search the box leads to is what it showed: in the lane the box then shows,
\* whichever of the four ways led to it (the button, the offer of the other
\* scope, a term or a category row), and, led to by a row, of the text the row
\* was suggested for, although the box may hold another text by then.
SearchIsAsShown ==
    [][landed' # landed /\ landed'.to \notin {"home", "article"} =>
          /\ landed'.mode = ResolveSearchMode(scope', isExact')
          /\ landed'.to \in {"term", "category"} => landed'.text = settledText
      ]_SearchBarVars
=============================================================================
