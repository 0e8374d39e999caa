--------------------------- MODULE SearchFilters ---------------------------
(***************************************************************************)
(* The filters of the search page.  Every filter lives in the URL           *)
(* (lib/catalog/url/search-url); a click is a navigation; the server        *)
(* searches again and answers the list with the values each filter may      *)
(* still take (apps/api/src/search), and the sidebar offers them.  Only the *)
(* technical dimensions are remembered by the browser between pages         *)
(* (hooks/use-retained-facets.ts).                                          *)
(*                                                                          *)
(* An article is of a brand and a type, is filed under a leaf of the        *)
(* category tree, and has a width, which suppliers spell in two ways, and   *)
(* a kit code.  The catalogue is any assignment of these.  Orders, stock    *)
(* origins, modes and vehicles are left out: the last two start the filters *)
(* afresh, as a new search does.                                            *)
(***************************************************************************)
EXTENDS Integers, Sequences, FiniteSets

CONSTANTS
    Listed,           \* articles
    Brands,
    Types,            \* product types
    ValueLimit,       \* DIMENSION_VALUE_LIMIT
    MaxNavigations    \* bound: navigations

ASSUME SearchFiltersAssumption ==
    /\ IsFiniteSet(Listed) /\ "none" \notin Types
    /\ ValueLimit \in Nat \ {0} /\ MaxNavigations \in Nat

VARIABLES
    catalogue,   \* article -> what it is
    here,        \* the URL on screen
    before,      \* the URL the back button leads to, or NoUrl
    retained,    \* the dimension block the sidebar holds, with its scope key
    blockOf,     \* the URL that block answered (not in the code)
    promised,    \* the count beside the value just clicked (not in the code)
    clickCount

FilterVars == <<catalogue, here, before, retained, blockOf, promised, clickCount>>

-----------------------------------------------------------------------------
(* The catalogue, outside the code *)

Categories == {"brakes", "pads", "discs"}

ParentOf(c) == IF c = "brakes" THEN "none" ELSE "brakes"

ChildrenOf(c) == {k \in Categories : ParentOf(k) = c}

AncestryOf(c) == IF c = "brakes" THEN <<"brakes">> ELSE <<"brakes", c>>

Under(leaf, c) == leaf = c \/ ParentOf(leaf) = c

Criteria == {"width", "kit"}

SpellingsOf(criterion) ==
    IF criterion = "width" THEN {"193", "193,0", "200"} ELSE {"S", "V"}

Spellings == UNION {SpellingsOf(criterion) : criterion \in Criteria}

ArticleKinds == [brand : Brands, type : Types, leaf : {"pads", "discs"},
             width : SpellingsOf("width"), kit : SpellingsOf("kit")]

-----------------------------------------------------------------------------
(* The URL: state.ts, mutations.ts and queries.ts *)

Attributes == {[criterion |-> c, token |-> t] :
                  c \in Criteria, t \in (SUBSET Spellings) \ {{}}}

NewSearch ==
    [query |-> TRUE, page |-> 1, brandIds |-> {}, productType |-> "none",
     path |-> <<>>, hasChildren |-> "unknown", attributes |-> {}]

NoUrl == [NewSearch EXCEPT !.page = 0]

WithPage(u, p) == [u EXCEPT !.page = p]

ToggleBrand(u, b) ==
    [u EXCEPT !.brandIds = IF b \in @ THEN @ \ {b} ELSE @ \union {b}, !.page = 1]

ClearBrands(u) == [u EXCEPT !.brandIds = {}, !.page = 1]

SelectProductType(u, t) == [u EXCEPT !.productType = t, !.attributes = {}, !.page = 1]

ClearProductType(u) == SelectProductType(u, "none")

DrillIntoCategory(u, c) ==
    [u EXCEPT !.path = Append(@, c),
              !.hasChildren = IF ChildrenOf(c) # {} THEN "true" ELSE "false",
              !.productType = "none", !.attributes = {}, !.page = 1]

SelectCategoryPath(u, path) ==
    [u EXCEPT !.path = path,
              !.hasChildren = IF path # <<>> THEN "true" ELSE "unknown",
              !.productType = "none", !.attributes = {}, !.page = 1]

CategoryUp(u) == SelectCategoryPath(u, SubSeq(u.path, 1, Len(u.path) - 1))

ToggleAttribute(u, a) ==
    [u EXCEPT !.attributes = IF a \in @ THEN @ \ {a} ELSE @ \union {a}, !.page = 1]

ClearAttributes(u) == [u EXCEPT !.attributes = {}, !.page = 1]

SelectedCategory(u) == u.path[Len(u.path)]

HasActiveFilters(u) ==
    u.brandIds # {} \/ u.productType # "none" \/ u.path # <<>> \/ u.attributes # {}

HasSearchSubject(u) == u.query \/ u.path # <<>>

HasDimensions(u) ==
    u.productType # "none" \/ (u.path # <<>> /\ u.hasChildren = "false")

\* Mutant of FacetScopeKey: the brands are not part of the key.
ScopeKeyWithoutBrands(u) ==
    [query |-> u.query, path |-> u.path, brandIds |-> {}, productType |-> u.productType]

FacetScopeKey(u) ==
    [query |-> u.query, path |-> u.path, brandIds |-> u.brandIds,
     productType |-> u.productType]

-----------------------------------------------------------------------------
(* The search: search.tecdoc.ts, search-facet-mappers.ts, dimension-facets.ts *)

\* Mutant of FiltersOn: a token is sent whole, as one value nothing has.
FiltersOnWhole(u, criterion) ==
    UNION {IF Cardinality(a.token) = 1 THEN a.token ELSE {"193|193,0"} :
              a \in {x \in u.attributes : x.criterion = criterion}}

\* parseCriteriaFilters: a token is split back into its spellings, and those of
\* one criterion are alternatives.
FiltersOn(u, criterion) ==
    UNION {a.token : a \in {x \in u.attributes : x.criterion = criterion}}

Matches(u) ==
    {a \in Listed :
        /\ u.brandIds # {} => catalogue[a].brand \in u.brandIds
        /\ u.productType # "none" => catalogue[a].type = u.productType
        /\ u.path # <<>> => Under(catalogue[a].leaf, SelectedCategory(u))
        /\ \A c \in Criteria :
              FiltersOn(u, c) # {} => catalogue[a][c] \in FiltersOn(u, c)}

Total(u) == Cardinality(Matches(u))

\* One article a page; every page of a list that can be ranked is reachable.
MaxPage(u) == Total(u)

\* TecDoc counts each facet before that facet's own filter.
BrandCount(u, b) == Cardinality({a \in Matches(ClearBrands(u)) : catalogue[a].brand = b})

TypeCount(u, t) ==
    Cardinality({a \in Matches([u EXCEPT !.productType = "none"]) : catalogue[a].type = t})

\* The category facet takes no notice of the product type.
CategoryCount(u, c) ==
    Cardinality({a \in Matches([u EXCEPT !.productType = "none"]) :
                    Under(catalogue[a].leaf, c)})

CategoryOptions(u) ==
    {c \in ChildrenOf(IF u.path = <<>> THEN "none" ELSE SelectedCategory(u)) :
        CategoryCount(u, c) > 0}

\* The response's own reading of whether the node is a leaf.
IsAtLeafCategory(u) ==
    /\ u.path # <<>>
    /\ IF CategoryCount(u, SelectedCategory(u)) > 0
       THEN ChildrenOf(SelectedCategory(u)) = {}
       ELSE CategoryOptions(u) = {}

MeasureOf(spelling) == IF spelling = "193,0" THEN "193" ELSE spelling

CountOf(found, criterion, spellings) ==
    Cardinality({a \in found : catalogue[a][criterion] \in spellings})

\* mergeIndistinguishableValues: the spellings of one measure are one value.
MergedValues(found, criterion) ==
    {{catalogue[b][criterion] :
        b \in {x \in found : MeasureOf(catalogue[x][criterion])
                               = MeasureOf(catalogue[a][criterion])}} : a \in found}

\* capValues: the most-matched ones, and what is selected.  Of values matched
\* alike TecDoc's order decides; here they are all kept, so any may be clicked.
CapValues(found, criterion, values, selected) ==
    {v \in values :
        \/ Cardinality({w \in values : CountOf(found, criterion, w)
                                         > CountOf(found, criterion, v)}) < ValueLimit
        \/ v \intersect selected # {}}

CriterionValues(u, criterion) ==
    LET found == Matches([u EXCEPT !.attributes = {a \in @ : a.criterion # criterion}])
    IN  CapValues(found, criterion, MergedValues(found, criterion), FiltersOn(u, criterion))

ValueCount(u, a) ==
    CountOf(Matches([u EXCEPT !.attributes = {x \in @ : x.criterion # a.criterion}]),
            a.criterion, a.token)

\* On the first page, when asked for, and when the response is of one type or
\* one leaf.
DimensionBlock(u) ==
    IF u.page = 1 /\ HasDimensions(u) /\ (u.productType # "none" \/ IsAtLeafCategory(u))
    THEN UNION {{[criterion |-> c, token |-> t] : t \in CriterionValues(u, c)} :
                   c \in Criteria}
    ELSE {}

-----------------------------------------------------------------------------
(* The page: search/page.tsx and the retained block *)

\* A query that matches nothing, or no subject at all: the filters are not shown.
IsEmptyPage(u) ==
    ~HasSearchSubject(u) \/ (Total(u) = 0 /\ ~HasActiveFilters(u))

\* Mutant of Redirected: the page asked for is shown, past the end or not.
ShownAsAsked(u) == u

\* A page past the end is redirected to the last one.
Redirected(u) ==
    IF MaxPage(u) >= 1 /\ u.page > MaxPage(u) THEN WithPage(u, MaxPage(u)) ELSE u

NothingRetained(u) == [key |-> FacetScopeKey(u), block |-> {}]

NextRetained(current, incoming, u) ==
    IF incoming # {} THEN [key |-> FacetScopeKey(u), block |-> incoming]
    ELSE IF FacetScopeKey(u) = current.key THEN current ELSE NothingRetained(u)

Show(u, held) ==
    /\ here' = u
    /\ retained' = IF IsEmptyPage(u) THEN NothingRetained(u)
                   ELSE NextRetained(held, DimensionBlock(u), u)
    /\ blockOf' = IF ~IsEmptyPage(u) /\ DimensionBlock(u) # {} THEN u ELSE blockOf

Visit(u, count) ==
    /\ clickCount < MaxNavigations
    /\ Show(Redirected(u), retained)
    /\ before' = here
    /\ promised' = count
    /\ clickCount' = clickCount + 1
    /\ UNCHANGED catalogue

Sidebar == ~IsEmptyPage(here)

ClickBrand(b) ==
    /\ Sidebar /\ BrandCount(here, b) > 0
    /\ Visit(ToggleBrand(here, b), IF b \in here.brandIds THEN 0 ELSE BrandCount(here, b))

ClickClearBrands ==
    Sidebar /\ here.brandIds # {} /\ Visit(ClearBrands(here), 0)

ClickCategory(c) ==
    /\ Sidebar /\ c \in CategoryOptions(here)
    /\ Visit(DrillIntoCategory(here, c), CategoryCount(here, c))

\* The types take over where the tree has no more levels to offer.
ClickProductType(t) ==
    /\ Sidebar /\ CategoryOptions(here) = {} /\ here.productType = "none"
    /\ TypeCount(here, t) > 0
    /\ Visit(SelectProductType(here, t), TypeCount(here, t))

ClickUp ==
    /\ Sidebar
    /\ \/ here.productType # "none" /\ Visit(ClearProductType(here), 0)
       \/ here.productType = "none" /\ here.path # <<>> /\ Visit(CategoryUp(here), 0)

\* The breadcrumb: the tree's own trail down to the current node, or the path
\* clicked when the answer does not hold the node.
ClickCrumb ==
    /\ Sidebar
    /\ \/ Visit(SelectCategoryPath(here, <<>>), 0)
       \/ /\ here.path # <<>>
          /\ LET trail == IF CategoryCount(here, SelectedCategory(here)) > 0
                          THEN AncestryOf(SelectedCategory(here)) ELSE here.path
             IN  \E n \in DOMAIN trail :
                    Visit(SelectCategoryPath(here, SubSeq(trail, 1, n)), 0)

\* A value of the block on screen; its count is true of a block just answered.
ClickAttribute(a) ==
    /\ Sidebar /\ HasDimensions(here) /\ a \in retained.block
    /\ Visit(ToggleAttribute(here, a),
             IF a \in here.attributes \/ here.page > 1 THEN 0 ELSE ValueCount(here, a))

ClickClearAttributes ==
    /\ Sidebar /\ HasDimensions(here) /\ retained.block # {} /\ here.attributes # {}
    /\ Visit(ClearAttributes(here), 0)

ClickPage(p) ==
    Sidebar /\ p \in 1 .. MaxPage(here) /\ p # here.page /\ Visit(WithPage(here, p), 0)

\* A category row of the search box: a leaf, in one step.
ClickSuggestion(c) ==
    ChildrenOf(c) = {} /\ Visit(DrillIntoCategory(NewSearch, c), 0)

GoBack ==
    /\ before # NoUrl
    /\ Show(before, retained)
    /\ before' = NoUrl /\ promised' = 0
    /\ UNCHANGED <<catalogue, clickCount>>

\* A reload, or the link opened elsewhere: nothing is retained.
Reload ==
    /\ clickCount < MaxNavigations
    /\ Show(here, NothingRetained(here))
    /\ before' = NoUrl /\ promised' = 0 /\ clickCount' = clickCount + 1
    /\ UNCHANGED catalogue

-----------------------------------------------------------------------------
\* A typed query; a browse from the catalogue page, whose whole chain was
\* drilled; one from an article's breadcrumb, which cannot tell a leaf, or an
\* old link to its second page.
Browse == [NewSearch EXCEPT !.query = FALSE]

Entries ==
    {NewSearch, DrillIntoCategory(Browse, "brakes"),
     DrillIntoCategory(DrillIntoCategory(Browse, "brakes"), "pads"),
     SelectCategoryPath(Browse, <<"pads">>),
     WithPage(SelectCategoryPath(Browse, <<"discs">>), 2)}

SearchFiltersInit ==
    /\ catalogue \in [Listed -> ArticleKinds]
    /\ \E u \in Entries :
          LET first == Redirected(u)
          IN  /\ here = first
              /\ retained = [key |-> FacetScopeKey(first),
                             block |-> IF IsEmptyPage(first) THEN {} ELSE DimensionBlock(first)]
              /\ blockOf = first
    /\ before = NoUrl /\ promised = 0 /\ clickCount = 0

SearchFiltersNext ==
    \/ \E b \in Brands : ClickBrand(b)
    \/ ClickClearBrands
    \/ \E c \in Categories : ClickCategory(c)
    \/ \E t \in Types : ClickProductType(t)
    \/ ClickUp
    \/ ClickCrumb
    \/ \E a \in retained.block : ClickAttribute(a)
    \/ ClickClearAttributes
    \/ \E p \in 1 .. Cardinality(Listed) : ClickPage(p)
    \/ \E c \in Categories : ClickSuggestion(c)
    \/ GoBack
    \/ Reload

SearchFiltersSpec == SearchFiltersInit /\ [][SearchFiltersNext]_FilterVars

-----------------------------------------------------------------------------
(* Properties *)

\* The URL on screen is one the server accepts, and names a page that exists or
\* the first page of nothing: an unknown page is redirected, never shown empty.
FiltersTypeOK ==
    /\ here.brandIds \subseteq Brands /\ here.productType \in Types \union {"none"}
    /\ here.path \in Seq(Categories) /\ Len(here.path) <= 2
    /\ here.hasChildren \in {"unknown", "true", "false"}
    /\ here.attributes \subseteq Attributes
    /\ here.page \in 1 .. (IF MaxPage(here) = 0 THEN here.page ELSE MaxPage(here))
    /\ retained.block \subseteq Attributes
    /\ clickCount \in 0 .. MaxNavigations

\* A value offered with a count leads to a list of at least so many articles,
\* whatever else is applied: no click on an offered value empties the list.
NeverFewerThanOffered == Total(here) >= promised

\* The dimensions shown are those of the search on screen, the page and the
\* dimensions applied apart; on the first page they are exactly its own, and
\* one applied can be cleared: its block is there, with the value or another
\* that shares a spelling with it whenever one is still matched.  Only of brands
\* that match nothing is there no block to clear it in: an earlier brand had
\* the value, and taking that brand off leaves the value applied.
BlockFollowsTheSearch ==
    /\ HasDimensions(here) /\ Sidebar /\ retained.block # {} =>
         /\ [blockOf EXCEPT !.page = 1, !.attributes = {}]
              = [here EXCEPT !.page = 1, !.attributes = {}]
         /\ here.page = 1 => retained.block = DimensionBlock(here)
    /\ here.attributes # {} /\ here.page = 1 =>
         /\ Sidebar /\ HasDimensions(here)
         /\ here.brandIds = {} \/ Total(here) > 0 => retained.block # {}
         /\ \A a \in here.attributes :
               ValueCount(here, a) > 0 =>
                   \E b \in retained.block :
                       b.criterion = a.criterion /\ b.token \intersect a.token # {}
==============================================================================
