----------------------------- MODULE SearchCache -----------------------------
(***************************************************************************)
(* Cached result sets (backend/search) and the views that page through     *)
(* them (frontend/src/search/SearchResults.tsx). A search mints a result   *)
(* set; "Search more" reveals the next page of its pool and, when nothing  *)
(* is left to reveal, widens it: the pool is read, the sources are asked   *)
(* for more, and the pool read earlier is written back with the new hits.  *)
(*                                                                         *)
(* A tab that is closed and opened again while its request is in flight    *)
(* counts as two of Tabs. How deep a widen reaches only decides what it    *)
(* finds, so the page number is left out. Pools do not expire: nothing     *)
(* reads expires_at.                                                       *)
(***************************************************************************)
EXTENDS Naturals, Sequences, FiniteSets, SequencesExt, Selection

CONSTANTS
    Tabs,
    Papers,
    PageSize,    \* PAGE_SIZE
    MaxResults,  \* bound: result sets minted
    None         \* no result, no request

VARIABLES
    pool,    \* result_store, by result id
    tab,     \* result, mode and rows of a view
    load,    \* the result id a view was opened on, not yet loaded
    search,  \* a view's search: None, 0 when asked, the result it minted
    more,    \* a view's "Search more"
    mixed,   \* views that took a page of one result into another
    lost     \* results written back from a pool that was no longer the cached one

vars == <<pool, tab, load, search, more, mixed, lost>>

Results == 1 .. MaxResults
Modes   == {"reveal", "widen", "exhausted"}
\* What a ranking may return: any list of distinct papers.
Lists   == {s \in UNION {[1 .. n -> Papers] : n \in 0 .. Cardinality(Papers)} : IsInjective(s)}
Empty   == [result |-> None, shown |-> <<>>, mode |-> "reveal"]
Idle    == [pc |-> "idle", widen |-> FALSE, result |-> None, offset |-> 0,
            cached |-> <<>>, got |-> <<>>, hasMore |-> FALSE]

TypeOK ==
    /\ pool \in Seq(Seq(Papers)) /\ Len(pool) <= MaxResults
    /\ \A r \in DOMAIN pool : IsInjective(pool[r])
    /\ \A t \in Tabs :
          /\ tab[t].result \in (DOMAIN pool) \cup {None} /\ tab[t].mode \in Modes
          /\ tab[t].shown \in Seq(Papers)
          /\ load[t] \in (DOMAIN pool) \cup {None}
          /\ search[t] \in (DOMAIN pool) \cup {0, None}
          /\ more[t].pc \in {"idle", "reveal", "widen", "fetch", "land"}
          /\ more[t].result \in (DOMAIN pool) \cup {None}
    /\ mixed \subseteq Tabs /\ lost \subseteq Results

Init ==
    /\ pool = <<>>
    /\ tab = [t \in Tabs |-> Empty] /\ load = [t \in Tabs |-> None]
    /\ search = [t \in Tabs |-> None] /\ more = [t \in Tabs |-> Idle]
    /\ mixed = {} /\ lost = {}

\* results[offset : offset + PageSize], and whether the pool goes on after it.
Page(p, offset)    == SubSeq(p, offset + 1, IF Len(p) < offset + PageSize THEN Len(p) ELSE offset + PageSize)
HasMore(p, offset) == offset + PageSize < Len(p)
NextMode(hasMore)  == IF hasMore THEN "reveal" ELSE "widen"

(***************************************************************************)
(* Searches.                                                               *)
(***************************************************************************)
\* handleSearch: a search still in flight is aborted, its result set is not.
Search(t) ==
    /\ search' = [search EXCEPT ![t] = 0]
    /\ UNCHANGED <<pool, tab, load, more, mixed, lost>>

\* search_papers, for a view that still waits or for nobody (an aborted
\* search, the agent's tool).
Mint(ranked) ==
    /\ Len(pool) < MaxResults
    /\ pool' = Append(pool, ranked)
    /\ UNCHANGED <<tab, load, more, mixed, lost>>

SearchPapers ==
    \E ranked \in Lists :
        /\ Mint(ranked)
        /\ \/ UNCHANGED search
           \/ \E t \in Tabs : search[t] = 0 /\ search' = [search EXCEPT ![t] = Len(pool) + 1]

applyFreshResult(t, r) ==
    /\ tab' = [tab EXCEPT ![t] = [result |-> r, shown |-> Page(pool[r], 0),
                                  mode |-> NextMode(HasMore(pool[r], 0))]]
    /\ mixed' = mixed \ {t}

SearchLands(t) ==
    /\ search[t] \in DOMAIN pool
    /\ applyFreshResult(t, search[t])
    /\ search' = [search EXCEPT ![t] = None]
    /\ UNCHANGED <<pool, load, more, lost>>

SearchFails(t) ==
    /\ search[t] = 0
    /\ search' = [search EXCEPT ![t] = None]
    /\ UNCHANGED <<pool, tab, load, more, mixed, lost>>

\* A view opened on a result set of the Companion's; a later search of the
\* view does not abort the load.
Open(t, r) ==
    /\ tab[t] = Empty /\ search[t] = None
    /\ load' = [load EXCEPT ![t] = r]
    /\ UNCHANGED <<pool, tab, search, more, mixed, lost>>

LoadLands(t) ==
    /\ load[t] # None
    /\ applyFreshResult(t, load[t])
    /\ load' = [load EXCEPT ![t] = None]
    /\ UNCHANGED <<pool, search, more, lost>>

(***************************************************************************)
(* "Search more". The button is disabled while a request is in flight.     *)
(***************************************************************************)
handleSearchMore(t) ==
    /\ more[t].pc = "idle" /\ tab[t].shown # <<>> /\ tab[t].mode # "exhausted"
    /\ more' = [more EXCEPT ![t] = [Idle EXCEPT !.pc = tab[t].mode, !.result = tab[t].result,
                                                !.widen = (tab[t].mode = "widen"),
                                                !.offset = Len(tab[t].shown)]]
    /\ UNCHANGED <<pool, tab, load, search, mixed, lost>>

\* The answer to t: the page at its offset of the pool p.
Answer(t, p) ==
    more' = [more EXCEPT ![t].pc = "land", ![t].cached = <<>>,
                         ![t].got = Page(p, more[t].offset),
                         ![t].hasMore = HasMore(p, more[t].offset)]

\* refine_results without a filter.
Reveal(t) ==
    /\ more[t].pc = "reveal"
    /\ Answer(t, pool[more[t].result])
    /\ UNCHANGED <<pool, tab, load, search, mixed, lost>>

WidenRead(t) ==
    /\ more[t].pc = "widen"
    /\ more' = [more EXCEPT ![t].pc = "fetch", ![t].cached = pool[more[t].result]]
    /\ UNCHANGED <<pool, tab, load, search, mixed, lost>>

\* Mutant: the hits already cached are appended again.
Merged_NoDedupe(cached, ranked) == cached \o ranked

Merged(cached, ranked) == cached \o Among(ranked, Papers \ ToSet(cached))

WidenWrite(t) ==
    /\ more[t].pc = "fetch"
    /\ \E ranked \in Lists :
          LET merged == Merged(more[t].cached, ranked) IN
          /\ pool' = [pool EXCEPT ![more[t].result] = merged]
          /\ Answer(t, merged)
    /\ lost' = IF pool[more[t].result] # more[t].cached THEN lost \cup {more[t].result} ELSE lost
    /\ UNCHANGED <<tab, load, search, mixed>>

\* The page goes to whatever the view shows by now.
MoreLands(t) ==
    /\ more[t].pc = "land"
    /\ tab' = [tab EXCEPT
          ![t].shown = @ \o more[t].got,
          ![t].mode = IF more[t].widen /\ more[t].got = <<>> THEN "exhausted"
                      ELSE NextMode(more[t].hasMore)]
    /\ mixed' = IF more[t].result # tab[t].result THEN mixed \cup {t} ELSE mixed
    /\ more' = [more EXCEPT ![t] = Idle]
    /\ UNCHANGED <<pool, load, search, lost>>

MoreFails(t) ==
    /\ more[t].pc \in {"reveal", "widen", "fetch"}
    /\ more' = [more EXCEPT ![t] = Idle]
    /\ UNCHANGED <<pool, tab, load, search, mixed, lost>>

Next ==
    \/ SearchPapers
    \/ \E t \in Tabs :
          \/ Search(t) \/ SearchLands(t) \/ SearchFails(t) \/ LoadLands(t)
          \/ \E r \in DOMAIN pool : Open(t, r)
          \/ handleSearchMore(t) \/ Reveal(t) \/ WidenRead(t) \/ WidenWrite(t)
          \/ MoreLands(t) \/ MoreFails(t)

Spec == Init /\ [][Next]_vars

(***************************************************************************)
(* Properties.                                                             *)
(***************************************************************************)
\* A view shows its pool's first rows, in order and once each, unless it took
\* a page of another result or a widen undid what another one had cached.
ShownIsPrefix == \A t \in Tabs :
    tab[t].result # None /\ t \notin mixed /\ tab[t].result \notin lost =>
        /\ IsInjective(pool[tab[t].result])
        /\ IsPrefix(tab[t].shown, pool[tab[t].result])
=============================================================================
