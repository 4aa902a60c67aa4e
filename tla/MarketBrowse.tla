---------------------------- MODULE MarketBrowse ----------------------------
(***************************************************************************)
(* The marketplace page: the filter bar, the grid and the page buttons.    *)
(* Every change of the filters starts a request; the ones before are not   *)
(* cancelled, so their answers come in any order and each rewrites grid,   *)
(* total and spinner.  fetchMarketplaceAgents never fails: when the API    *)
(* does, or has nothing on the page asked for, it answers with made-up     *)
(* agents, all of them whatever the page.                                  *)
(* Search, category, prices and sorting are one query; cards are a count.  *)
(***************************************************************************)
EXTENDS Naturals, Sequences, SequencesExt

CONSTANTS Queries, AllAgents,  \* what the filter bar can ask; the initial query
          PageSize,            \* limit (9)
          Samples,             \* how many made-up agents match each query
          MaxStock,            \* bound: published agents matching a query
          MaxPicks             \* bound: changes of filters, catalog and failures

ASSUME BrowseAssumption ==
    /\ AllAgents \in Queries /\ PageSize \in Nat \ {0} /\ {MaxStock, MaxPicks} \subseteq Nat
    /\ Samples \in [Queries -> 0..PageSize]   \* four of them, nine to a page

VARIABLES
    filters,     \* query and page (offset / limit)
    sheetOpen,   \* FilterBar's drawer on small screens
    gridLoading, \* isLoading
    grid,        \* agents and total, and the filters they answer
    queryCalls,  \* requests under way, in the order they were made
    stock,       \* the API: published agents per query
    picks,
    overtook,    \* history: an answer came before one asked for earlier
    unsettled    \* history: requests overlapped, failed or saw the catalog change

browseVars == <<filters, sheetOpen, gridLoading, grid, queryCalls, stock, picks, overtook,
                unsettled>>

Filters == [of : Queries, page : 0..MaxStock]
FirstPage(q) == [of |-> q, page |-> 0]
Unloaded == [for |-> FirstPage(AllAgents), got |-> FALSE, cards |-> 0, total |-> 0]
Query(f) == [for |-> f, got |-> FALSE, cards |-> 0, total |-> 0]

BrowseTypeOK ==
    /\ filters \in Filters /\ {sheetOpen, gridLoading, overtook, unsettled} \subseteq BOOLEAN
    /\ queryCalls \in Seq([for : Filters, got : BOOLEAN, cards : 0..PageSize, total : Nat])
    /\ grid \in [for : Filters, got : BOOLEAN, cards : 0..PageSize, total : Nat]
    /\ stock \in [Queries -> 0..MaxStock] /\ picks \in 0..MaxPicks

BrowseInit ==
    /\ filters = FirstPage(AllAgents) /\ sheetOpen = FALSE
    /\ gridLoading = TRUE /\ grid = Unloaded /\ queryCalls = <<Query(filters)>>
    /\ stock \in [Queries -> 0..MaxStock] /\ picks = 0
    /\ overtook = FALSE /\ unsettled = FALSE

Pick == picks < MaxPicks /\ picks' = picks + 1

-----------------------------------------------------------------------------
(* The user.                                                               *)

Pages(total) == IF total = 0 THEN 1 ELSE (total + PageSize - 1) \div PageSize

\* setFilters always makes a new object, and its effect a new request.
FiltersChange(f) ==
    /\ Pick /\ filters' = f
    /\ gridLoading' = TRUE
    /\ queryCalls' = Append(queryCalls, Query(f))
    /\ unsettled' = (unsettled \/ queryCalls # <<>>)
    /\ UNCHANGED <<grid, stock, overtook>>

PickQuery(q) == FiltersChange(FirstPage(q)) /\ UNCHANGED sheetOpen

\* The bar's own button and "Clear All Filters"; the drawer's button closes it too.
ResetFilters == FiltersChange(FirstPage(AllAgents)) /\ sheetOpen' = FALSE

ToggleSheet ==
    /\ sheetOpen' = ~sheetOpen
    /\ UNCHANGED <<filters, gridLoading, grid, queryCalls, stock, picks, overtook, unsettled>>

PagingShown == Pages(grid.total) > 1 /\ ~gridLoading

\* Variant of NextPage: the last page has a next one.
NextPageOffByOne ==
    /\ PagingShown /\ ~sheetOpen /\ filters.page + 1 <= Pages(grid.total)
    /\ FiltersChange([filters EXCEPT !.page = @ + 1]) /\ UNCHANGED sheetOpen

NextPage ==
    /\ PagingShown /\ ~sheetOpen /\ filters.page + 1 < Pages(grid.total)
    /\ FiltersChange([filters EXCEPT !.page = @ + 1]) /\ UNCHANGED sheetOpen

PreviousPage ==
    /\ PagingShown /\ ~sheetOpen /\ filters.page > 0
    /\ FiltersChange([filters EXCEPT !.page = @ - 1]) /\ UNCHANGED sheetOpen

-----------------------------------------------------------------------------
(* The API and the client's stand-in for it.                               *)

PublishedOn(f) ==
    LET left == IF stock[f.of] > f.page * PageSize THEN stock[f.of] - f.page * PageSize ELSE 0
    IN  [for |-> f, got |-> TRUE, cards |-> IF left < PageSize THEN left ELSE PageSize,
         total |-> stock[f.of]]

MadeUp(f) == [for |-> f, got |-> TRUE, cards |-> Samples[f.of], total |-> Samples[f.of]]

QueryServed(i) ==
    /\ ~queryCalls[i].got
    /\ LET f == queryCalls[i].for
           found == IF PublishedOn(f).cards > 0 THEN PublishedOn(f) ELSE MadeUp(f)
       IN  \/ /\ queryCalls' = [queryCalls EXCEPT ![i] = found]
              /\ UNCHANGED <<picks, unsettled>>
           \/ /\ Pick /\ queryCalls' = [queryCalls EXCEPT ![i] = MadeUp(f)]
              /\ unsettled' = TRUE
    /\ UNCHANGED <<filters, sheetOpen, gridLoading, grid, stock, overtook>>

QueryAnswered(i) ==
    /\ queryCalls[i].got
    /\ grid' = queryCalls[i] /\ gridLoading' = FALSE
    /\ queryCalls' = RemoveAt(queryCalls, i)
    /\ overtook' = (overtook \/ i # 1)
    /\ UNCHANGED <<filters, sheetOpen, stock, picks, unsettled>>

\* Agents are published, paused and taken down.
CatalogChanges(q) ==
    /\ Pick /\ \E n \in 0..MaxStock : n # stock[q] /\ stock' = [stock EXCEPT ![q] = n]
    /\ unsettled' = TRUE
    /\ UNCHANGED <<filters, sheetOpen, gridLoading, grid, queryCalls, overtook>>

-----------------------------------------------------------------------------

BrowseStep == \E i \in DOMAIN queryCalls : QueryServed(i) \/ QueryAnswered(i)

BrowseNext ==
    \/ \E q \in Queries : PickQuery(q) \/ CatalogChanges(q)
    \/ ResetFilters \/ ToggleSheet \/ NextPage \/ PreviousPage
    \/ BrowseStep

BrowseFairness == WF_browseVars(BrowseStep)

BrowseSpec == BrowseInit /\ [][BrowseNext]_browseVars

-----------------------------------------------------------------------------

\* A grid at rest shows the agents of the filters above it, unless an answer
\* overtook an earlier one (page.tsx:33: no request is cancelled).
GridIsCurrent == (queryCalls = <<>> /\ ~overtook) => grid.for = filters /\ ~gridLoading

\* "Page N of M" has N <= M, so that the way back is shown: never does Next lead to
\* the made-up agents of a page that does not exist, unless requests overlapped,
\* failed, or agents were taken down meanwhile (page.tsx:167).
PageExists == (queryCalls = <<>> /\ ~unsettled) => filters.page < Pages(grid.total)

\* What must not last: the grid's skeleton, as every request is answered, by made-up
\* agents if need be (page.tsx:29).
BrowseWaits == gridLoading
=============================================================================
