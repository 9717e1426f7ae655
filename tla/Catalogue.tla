------------------------------- MODULE Catalogue -------------------------------
(***************************************************************************)
(* How the source threads of one discovery reach the listings of a shop:   *)
(* the strategies planned for it (sources/strategies.py), the walk through *)
(* its catalogue feed (catalog.py), the pages of its frontier and their    *)
(* expansion into members (expand.py), and what each strategy is credited  *)
(* with in the end.  The threads share the campaign's caps, which are      *)
(* counted under one lock (BoundedDiscoveryEngine._state_lock), its page   *)
(* budget, the receipts and the runtime row.                               *)
(*                                                                         *)
(* A URL is canonical.  A body is what was parsed from it: the members it  *)
(* names and the words that are compared with the query.  Whether the      *)
(* ExplorationReserve gives a page, admission lets a URL pass and a shop   *)
(* answers is open at every request.  Left out: query memory and the       *)
(* reserve (Discovery), the warm index (WarmIndex), what a request does    *)
(* (Fetching), a second query, and the fields a listing is filled with.    *)
(***************************************************************************)
EXTENDS Integers, SequencesExt

CONSTANTS
    Sources,         \* the eligible plans
    NoSource,        \* nobody holds the lock
    Products,        \* listing URLs; URLs are numbers, so that they have an order
    Indexes,         \* collections, searches, sitemaps
    Strategy,        \* strategy_name_for_url of an index
    SeedDepth,       \* the depth an index gets as a seed
    Paths,           \* the URLs a source's spec gives for each strategy
    Origins,         \* its feed's first page at each of its origins, in their order
    Declared,        \* the sitemaps its robots.txt declares
    SearchAdmitted,  \* sources that admit a site search
    Disallowed,      \* URLs under a disallowed prefix of their spec
    Admitted,        \* URLs on an admitted host
    InLoc,           \* products whose URL holds a token of the query
    SaysProduct,     \* URLs with "product" in them
    Queries,         \* the distinctive terms of each query text
    FeedPages,       \* the pages a feed may answer with
    Bodies,          \* the bodies each page may answer with
    PageSize,        \* catalog_page_size
    EnvShare, EnvCap,           \* SEARCHER_CATALOG_PAGES_PER_SOURCE, _PER_CAMPAIGN
    ShareFloor,      \* CATALOG_PAGE_SHARE_FLOOR
    PromoteShare, PromoteCap,   \* promote_per_source, promote_per_campaign
    IndexCap, ExpandCap,        \* per_index, per_campaign
    MaxDepth, MaxWork, Batch,   \* frontier.MAX_DEPTH, max_work, batch_size
    Ceiling          \* pages the sealed budget has left

ASSUME UrlsAssumption == Products \cup Indexes \subseteq Nat \ {0}
ASSUME CapsAssumption ==
    {PageSize, EnvShare, EnvCap, ShareFloor, PromoteShare, PromoteCap, IndexCap,
     ExpandCap, MaxDepth, MaxWork, Batch, Ceiling} \subseteq Nat
ASSUME NoSourceAssumption == NoSource \notin Sources
ASSUME SourcesAssumption == IsFiniteSet(Sources)
ASSUME AdmittedAssumption == IsFiniteSet(Admitted) /\ Admitted \subseteq Nat
ASSUME QueriesAssumption == IsFiniteSet(Queries) /\ \A q \in Queries : IsFiniteSet(q)
ASSUME FeedPagesAssumption ==
    \A page \in FeedPages : Len(page) \in Nat /\ DOMAIN page = 1..Len(page)
ASSUME OriginsAssumption ==
    \A s \in Sources : Paths[s]["catalog_feed"] = ToSet(Origins[s])

VARIABLES
    stage,              \* where each source thread is
    lock,            \* who holds _state_lock
    book,            \* its StrategyBook
    rows,            \* its frontier
    item,            \* the index it is about to expand, and its body
    worked,          \* items it has begun
    walk,            \* its walk at one origin
    seen,            \* the URLs known when that walk began
    found,           \* the listings it has found
    outcome,         \* last_outcome
    answered,        \* history: whether any request of it was answered with a page
    used,            \* usage.used("pages")
    catalogPages, catalogPromoted, expanded,   \* the campaign's counters
    catalogs, expansions,                      \* the engine's lists, and the receipts
    candidates,      \* the campaign's candidate rows
    runtime, held    \* the records in the runtime row; the row as a thread read it

thread == <<book, rows, item, worked, walk, seen, found, outcome, answered>>
counters == <<catalogPages, catalogPromoted, expanded>>
records == <<catalogs, expansions, runtime, held>>
catalogueVars == <<stage, lock, thread, used, counters, candidates, records>>

Names == {"collection_slug", "site_search", "catalog_feed", "sitemap"}
NoWalk == [origin |-> 0, read |-> 0, seen |-> 0, matched |-> {}, barred |-> FALSE,
           pages |-> 0, promoted |-> 0]
NoItem == [url |-> 0, body |-> {}]

CatalogueInit ==
    /\ stage = [s \in Sources |-> "start"] /\ lock = NoSource
    /\ book = [s \in Sources |-> <<>>] /\ rows = [s \in Sources |-> <<>>]
    /\ item = [s \in Sources |-> NoItem] /\ worked = [s \in Sources |-> 0]
    /\ walk = [s \in Sources |-> NoWalk] /\ seen = [s \in Sources |-> {}]
    /\ found = [s \in Sources |-> <<>>]
    /\ outcome = [s \in Sources |-> "NOT_ATTEMPTED"]
    /\ answered = [s \in Sources |-> FALSE]
    /\ used = 0 /\ catalogPages = 0 /\ catalogPromoted = 0 /\ expanded = 0
    /\ catalogs = <<>> /\ expansions = <<>> /\ candidates = {}
    /\ runtime = {} /\ held = [s \in Sources |-> {}]

-------------------------------------------------------------------------------
(* catalog_caps_for_campaign, bound when the run begins, before a page is spent. *)

\* pages_per_source: a share of the budget, and the floor when the share is below it.
WalkShare ==
    Min({EnvShare, IF Ceiling = 0 \/ Sources = {} THEN 0
                   ELSE Max({ShareFloor, Ceiling \div Cardinality(Sources)})})

\* pages_per_campaign.
WalkCap == Min({EnvCap, Ceiling})

(* What is planned for a shop, and what a page of text is worth. *)

\* plan_strategies: a strategy without a URL, or a search that is not admitted, is
\* skipped; one whose every URL is disallowed is blocked.
Plan(s) == [n \in Names |->
    LET urls == IF n = "site_search" /\ s \notin SearchAdmitted THEN {} ELSE Paths[s][n]
        open == urls \ Disallowed
    IN  [status |-> IF urls = {} THEN "skipped" ELSE IF open = {} THEN "blocked" ELSE "queued",
         urls |-> IF open = {} THEN urls ELSE open, yielded |-> 0]]

\* discover_seed_urls: the catalogue is walked, it is no seed.
Seeds(s) == UNION {Plan(s)[n].urls : n \in {m \in Names \ {"catalog_feed"} :
                                               Plan(s)[m].status = "queued"}}

\* _should_run_catalog.
ShouldRunCatalog(s) == book[s]["catalog_feed"].status = "queued"

\* _seed_robots_sitemaps: the allowed ones that the plan does not have are queued.
Added(plan, declared) == (declared \ Disallowed) \ plan["sitemap"].urls
WithSitemaps(plan, added) ==
    IF added = {} THEN plan
    ELSE [plan EXCEPT !["sitemap"] =
             [status |-> "queued", yielded |-> 0,
              urls |-> IF @.status = "queued" THEN @.urls \cup added ELSE added]]

\* match_score: the most distinctive terms of one query that are in the text.
MatchScore(words) == Max({0} \cup {Cardinality(q \cap words) : q \in Queries})

\* classify_acquired_document for a listing URL or an index URL: an error page that calls
\* itself one is neither, and a product feed is an index wherever it is found.
Class(u, body) ==
    IF body.error THEN "other"
    ELSE IF u \in Indexes THEN IF body.json = "product" THEN "product" ELSE "index"
    ELSE IF body.json = "products" THEN "index" ELSE "product"

\* An index URL is expanded, whatever its body is.
IsExpanded(u, body) == Class(u, body) = "index" \/ u \in Indexes

\* The first occurrence of each URL.
Distinct(entries) ==
    FoldLeft(LAMBDA kept, e : IF \E i \in DOMAIN kept : kept[i].url = e.url THEN kept
                              ELSE Append(kept, e), <<>>, entries)

\* extract_index_members: the product feed, else the JSON-LD list, else the sitemap's
\* locations, those with "product" in them first, else the page's links.
MembersOf(body) ==
    LET products == SelectSeq(body.products, LAMBDA e : e.named)
        locs == SelectSeq(body.locs, LAMBDA e : e.url \in Products \/ Strategy[e.url] = "sitemap")
        named == SelectSeq(locs, LAMBDA e : e.url \in SaysProduct)
        others == SelectSeq(locs, LAMBDA e : e.url \notin SaysProduct)
        links == SelectSeq(body.links, LAMBDA e : e.url \in Products \cap Admitted)
    IN  IF products # <<>> THEN products
        ELSE IF body.list # <<>> THEN Distinct(body.list)
        ELSE IF locs # <<>> THEN named \o others ELSE Distinct(links)

FromFeed(body) == \E i \in DOMAIN body.products : body.products[i].named

\* haystack_from_product: the product's own fields and the member's description.
FeedText(raw, member) == raw.words \cup member.about

Row(state, depth, feed) == [state |-> state, depth |-> depth, feed |-> feed]

\* Frontier.enqueue: nothing below MAX_DEPTH, and no row that was taken up before.
Enqueued(table, urls, depth, feed) ==
    LET open == {u \in urls : depth[u] <= MaxDepth
                              /\ (u \in DOMAIN table => table[u].state = "pending")}
    IN  [u \in DOMAIN table \cup open |->
            IF u \in open THEN Row("pending", depth[u], feed) ELSE table[u]]

In(s, state) == {u \in DOMAIN rows[s] : rows[s][u].state = state}
Settled(s, u, state) == [rows EXCEPT ![s][u].state = state]

\* Mutated form of SeenTargets: the candidates of the campaign are not looked at.
SeenInFrontier(s) == DOMAIN rows[s]

\* _seen_target_urls.
SeenTargets(s) == candidates \cup DOMAIN rows[s]

\* Mutated form of Free: the counters are read and written without the lock.
Always == TRUE

\* _state_lock, taken for a whole walk and a whole expansion.
Free == lock = NoSource

-------------------------------------------------------------------------------
(* The beginning of _run_source_plan. *)

\* The plan is loaded, the robots files of the origins are looked at, and the runtime row
\* is read.
ReadRobots(s) ==
    /\ stage[s] = "start"
    /\ book' = [book EXCEPT ![s] = Plan(s)]
    /\ held' = [held EXCEPT ![s] = runtime]
    /\ stage' = [stage EXCEPT ![s] = "robots"]
    /\ UNCHANGED <<lock, rows, item, worked, walk, seen, found, outcome, answered, used,
                   counters, candidates, catalogs, expansions, runtime>>

\* The evidence is written into the row as it was read, and the sitemaps are queued; a file
\* that is missing or was not fetched declares none.
RecordRobots(s) ==
    /\ stage[s] = "robots"
    /\ runtime' = held[s] \cup {<<"robots", s>>}
    /\ \E declared \in {{}, Declared[s]} :
           LET added == Added(book[s], declared) IN
           /\ book' = [book EXCEPT ![s] = WithSitemaps(@, added)]
           /\ rows' = [rows EXCEPT ![s] = Enqueued(@, added, [u \in added |-> 0], FALSE)]
    /\ stage' = [stage EXCEPT ![s] = "ready"]
    /\ UNCHANGED <<lock, item, worked, walk, seen, found, outcome, answered, used, counters,
                   candidates, catalogs, expansions, held>>

\* The circuit is open, or the adapter answers the query with a block.
TurnedAway(s) ==
    /\ stage[s] = "ready"
    /\ outcome' = [outcome EXCEPT ![s] = "BLOCKED"]
    /\ stage' = [stage EXCEPT ![s] = "over"]
    /\ UNCHANGED <<lock, book, rows, item, worked, walk, seen, found, answered, used, counters,
                   candidates, records>>

\* The query's seeds become frontier rows.
Discover(s) ==
    /\ stage[s] = "ready"
    /\ rows' = [rows EXCEPT ![s] = Enqueued(@, Seeds(s), SeedDepth, FALSE)]
    /\ stage' = [stage EXCEPT ![s] = IF ShouldRunCatalog(s) THEN "discovered" ELSE "working"]
    /\ UNCHANGED <<lock, book, item, worked, walk, seen, found, outcome, answered, used,
                   counters, candidates, records>>

-------------------------------------------------------------------------------
(* _run_catalog_fallback, in the lock from its first line to its last. *)

\* What page_catalog is called with.
NewWalk(origin) == [NoWalk EXCEPT !.origin = origin, !.pages = catalogPages,
                                  !.promoted = catalogPromoted]

EnterWalk(s) ==
    /\ stage[s] = "discovered" /\ Free
    /\ lock' = s /\ stage' = [stage EXCEPT ![s] = "walking"]
    /\ walk' = [walk EXCEPT ![s] = NewWalk(1)]
    /\ seen' = [seen EXCEPT ![s] = SeenTargets(s)]
    /\ UNCHANGED <<book, rows, item, worked, found, outcome, answered, used, counters,
                   candidates, records>>

\* Mutated form of MayRead: the pages other sources have read are forgotten.
MayReadShare(w) == w.read < WalkShare /\ w.read < WalkCap

\* The loop's condition.
MayRead(w) == w.read < WalkShare /\ w.read < WalkCap - w.pages

\* catalog_url_allowed of the origin's feed.
Barred(s, w) == Origins[s][w.origin] \in Disallowed

\* One page in page_catalog.  Products without a handle have no member, and the members
\* that are left are paired with the products by their position.
Accumulated(s, w, page) ==
    LET members == SelectSeq(page, LAMBDA e : e.named)
        Match(i) == [url |-> members[i].url,
                     score |-> MatchScore(FeedText(page[i], members[i]))]
        Hits == {i \in DOMAIN page :
                    /\ i <= Len(members)
                    /\ Match(i).url \in Admitted \ seen[s] /\ Match(i).score > 0
                    /\ \A m \in w.matched : m.url # Match(i).url}
        First == {i \in Hits : \A j \in Hits : j < i => Match(j).url # Match(i).url}
    IN  [w EXCEPT !.read = @ + 1, !.seen = @ + Len(page),
                  !.matched = @ \cup {Match(i) : i \in First}]

\* The budget or the reserve may have no page for it: the page is read as an empty one.
AskPage(s) ==
    /\ stage[s] = "walking" /\ MayRead(walk[s]) /\ ~Barred(s, walk[s])
    /\ \/ /\ used < Ceiling
          /\ stage' = [stage EXCEPT ![s] = "asking"]
          /\ UNCHANGED walk
       \/ /\ stage' = [stage EXCEPT ![s] = "walked"]
          /\ walk' = [walk EXCEPT ![s].read = @ + 1]
    /\ UNCHANGED <<lock, book, rows, item, worked, seen, found, outcome, answered, used,
                   counters, candidates, records>>

\* Mutated form of FetchPage: a page without a body is asked for again.
FetchPageAgain(s) ==
    /\ stage[s] = "asking"
    /\ \E page \in FeedPages \cup {<<>>} :
           /\ walk' = [walk EXCEPT ![s] = IF page = <<>> THEN @ ELSE Accumulated(s, @, page)]
           /\ stage' = [stage EXCEPT ![s] = "walking"]
    /\ UNCHANGED <<lock, book, rows, item, worked, seen, found, outcome, answered, used,
                   counters, candidates, records>>

\* A refused page, one held for other sources, and one after the deadline have no body.  A
\* page that is short is the last.
FetchPage(s) ==
    /\ stage[s] = "asking"
    /\ \E page \in FeedPages \cup {<<>>}, cost \in {0, 1} :
           /\ used < Ceiling \/ (page = <<>> /\ cost = 0)
           /\ used' = used + cost
           /\ walk' = [walk EXCEPT ![s] = Accumulated(s, @, page)]
           /\ answered' = [answered EXCEPT ![s] = @ \/ page # <<>>]
           /\ stage' = [stage EXCEPT ![s] = IF page = <<>> \/ Len(page) < PageSize
                                         THEN "walked" ELSE "walking"]
    /\ UNCHANGED <<lock, book, rows, item, worked, seen, found, outcome, counters, candidates,
                   records>>

\* The lock after the with block, left by a return or by an exception.
Released(s) == IF lock = s THEN NoSource ELSE lock

\* Another thread took the last page between the question and the request: BudgetExceeded
\* leaves the walk and the source, without a receipt and without an end of its run.
Unwind(s) ==
    /\ stage[s] = "asking" /\ used >= Ceiling
    /\ lock' = Released(s)
    /\ outcome' = [outcome EXCEPT ![s] = "UNMEASURABLE"]
    /\ stage' = [stage EXCEPT ![s] = "over"]
    /\ UNCHANGED <<book, rows, item, worked, walk, seen, found, answered, used, counters,
                   candidates, records>>

\* By score, then by URL.
Precedes(a, b) == a.score > b.score \/ (a.score = b.score /\ a.url < b.url)

\* The matches in their order, as far as the caps go.
Promoted(w) ==
    LET room == Min({PromoteShare, Max({0, PromoteCap - w.promoted})}) IN
    {m \in w.matched : Cardinality({o \in w.matched : Precedes(o, m)}) < room}

\* page_catalog returns: the counters become the result's, the receipt is stored, and
\* _record_catalog reads the runtime row.
CloseWalk(s) ==
    LET w == walk[s]
        promoted == {m.url : m \in Promoted(w)}
    IN
    /\ \/ stage[s] = "walked"
       \/ stage[s] = "walking" /\ (~MayRead(w) \/ Barred(s, w))
    /\ catalogPages' = w.pages + w.read
    /\ catalogPromoted' = w.promoted + Cardinality(promoted)
    /\ catalogs' = Append(catalogs, [source |-> s, read |-> w.read, promoted |-> promoted,
                                     pages |-> w.pages, before |-> w.promoted])
    /\ walk' = [walk EXCEPT ![s].matched = Promoted(w),
                            ![s].barred = stage[s] = "walking" /\ MayRead(w) /\ Barred(s, w)]
    /\ held' = [held EXCEPT ![s] = runtime]
    /\ stage' = [stage EXCEPT ![s] = "recording"]
    /\ UNCHANGED <<lock, book, rows, item, worked, seen, found, outcome, answered, used,
                   expanded, candidates, expansions, runtime>>

\* The runtime row is written.  The first origin with products is the one; after it, or
\* after the last, its matches become candidates, and the lock is given back.
RecordWalk(s) ==
    LET w == walk[s]
        urls == SetToSortSeq({m.url : m \in w.matched}, <)
    IN
    /\ stage[s] = "recording"
    /\ runtime' = held[s] \cup {<<"walk", s, w.origin>>}
    /\ IF w.seen = 0 /\ w.origin < Len(Origins[s])
       THEN /\ walk' = [walk EXCEPT ![s] = NewWalk(w.origin + 1)]
            /\ stage' = [stage EXCEPT ![s] = "walking"]
            /\ UNCHANGED <<lock, found, outcome, candidates>>
       ELSE /\ found' = [found EXCEPT ![s] = @ \o urls]
            /\ candidates' = candidates \cup ToSet(urls)
            /\ outcome' = [outcome EXCEPT ![s] =
                   IF urls # <<>> THEN "MATCHES"
                   ELSE IF w.barred /\ w.seen = 0 THEN "BLOCKED" ELSE "NO_MATCH"]
            /\ walk' = [walk EXCEPT ![s] = NoWalk]
            /\ lock' = Released(s) /\ stage' = [stage EXCEPT ![s] = "working"]
    /\ UNCHANGED <<book, rows, item, worked, seen, answered, used, counters, catalogs,
                   expansions, held>>

-------------------------------------------------------------------------------
(* The frontier. *)

\* A batch is claimed; rows are taken by priority, here in any order.
Pop(s) ==
    /\ stage[s] = "working" /\ In(s, "inflight") = {}
    /\ worked[s] < MaxWork /\ used < Ceiling /\ In(s, "pending") # {}
    /\ \E urls \in kSubset(Min({Batch, Cardinality(In(s, "pending"))}), In(s, "pending")) :
           rows' = [rows EXCEPT ![s] = [u \in DOMAIN @ |->
                        IF u \in urls THEN [@[u] EXCEPT !.state = "inflight"] ELSE @[u]]]
    /\ UNCHANGED <<stage, lock, book, item, worked, walk, seen, found, outcome, answered, used,
                   counters, candidates, records>>

Listed(s, u) == /\ found' = [found EXCEPT ![s] = Append(@, u)]
                /\ candidates' = candidates \cup {u}

\* Admission refuses the URL.
NotAdmitted(s, u) ==
    /\ rows' = Settled(s, u, "blocked") /\ outcome' = [outcome EXCEPT ![s] = "BLOCKED"]
    /\ UNCHANGED <<stage, item, found, answered, used, candidates>>

\* _materialize_feed_member: a member of a feed is a listing without a request.
Materialize(s, u) ==
    /\ rows[s][u].feed
    /\ rows' = Settled(s, u, "done") /\ outcome' = [outcome EXCEPT ![s] = "MATCHES"]
    /\ Listed(s, u)
    /\ UNCHANGED <<stage, item, answered, used>>

\* _handle_item for a page, and _ingest_document: an answered product is a listing, an
\* answered index waits to be expanded.
FetchItem(s, u) ==
    /\ ~rows[s][u].feed
    /\ \E result \in {"MATCHES", "BLOCKED", "OTHER"}, cost \in {0, 1} :
           /\ used < Ceiling \/ (result = "OTHER" /\ cost = 0)
           /\ used' = used + cost
           /\ outcome' = [outcome EXCEPT ![s] = result]
           /\ answered' = [answered EXCEPT ![s] = @ \/ result = "MATCHES"]
           /\ \/ /\ result = "MATCHES"
                 /\ \E body \in Bodies[u] : IF IsExpanded(u, body)
                    THEN /\ item' = [item EXCEPT ![s] = [url |-> u, body |-> body]]
                         /\ stage' = [stage EXCEPT ![s] = "expanding"]
                         /\ UNCHANGED <<rows, found, candidates>>
                    ELSE /\ rows' = Settled(s, u, "done")
                         /\ IF Class(u, body) = "product" THEN Listed(s, u)
                            ELSE UNCHANGED <<found, candidates>>
                         /\ UNCHANGED <<stage, item>>
              \/ /\ result # "MATCHES"
                 /\ rows' = Settled(s, u, IF result = "BLOCKED" THEN "blocked" ELSE "done")
                 /\ UNCHANGED <<stage, item, found, candidates>>

\* BudgetExceeded in the loop: the item is blocked, the rest of the batch stays claimed.
OutOfPages(s, u) ==
    /\ ~rows[s][u].feed /\ used >= Ceiling
    /\ rows' = Settled(s, u, "blocked")
    /\ outcome' = [outcome EXCEPT ![s] = "UNMEASURABLE"]
    /\ stage' = [stage EXCEPT ![s] = "finishing"]
    /\ UNCHANGED <<item, found, answered, used, candidates>>

Handle(s) ==
    /\ stage[s] = "working"
    /\ \E u \in In(s, "inflight") :
           NotAdmitted(s, u) \/ Materialize(s, u) \/ FetchItem(s, u) \/ OutOfPages(s, u)
    /\ worked' = [worked EXCEPT ![s] = @ + 1]
    /\ UNCHANGED <<lock, book, walk, seen, counters, records>>

\* expand_index: the members in the order of their score, as far as they are new, on an
\* admitted host, in a sitemap named like the query, and within depth and caps.
Taken(s, index, body) ==
    LET entries == MembersOf(body)
        members == [i \in 1..Len(entries) |-> entries[i].url]
        known == SeenTargets(s) \cup {index}
        Score(i) == MatchScore(FeedText(entries[i], entries[i]))
        Ahead(j, i) == Score(j) > Score(i) \/ (Score(j) = Score(i) /\ j < i)
        InQuery(u) == Strategy[index] = "sitemap" /\ u \in Products => u \in InLoc
        Fresh == {i \in DOMAIN members :
                     /\ members[i] \in Admitted \ known /\ InQuery(members[i])
                     /\ \A j \in DOMAIN members : j < i => members[j] # members[i]}
        room == Min({IndexCap, Max({0, ExpandCap - expanded})})
    IN  IF rows[s][index].depth + 1 > MaxDepth THEN {}
        ELSE {members[i] : i \in {k \in Fresh :
                  Cardinality({j \in Fresh : Ahead(j, k)}) < room}}

\* _expand_into_frontier, again in the lock: the counter and the receipt.
Expand(s) ==
    /\ stage[s] = "expanding" /\ Free
    /\ lock' = s
    /\ LET taken == Taken(s, item[s].url, item[s].body) IN
           /\ expanded' = expanded + Cardinality(taken)
           /\ expansions' = Append(expansions,
                  [source |-> s, index |-> item[s].url, taken |-> taken, before |-> expanded])
    /\ held' = [held EXCEPT ![s] = runtime]
    /\ stage' = [stage EXCEPT ![s] = "expanded"]
    /\ UNCHANGED <<thread, used, catalogPages, catalogPromoted, candidates, catalogs, runtime>>

\* The lists are the engine's: whose a record is has to be asked.
ExpansionsOf(s) == SelectSeq(expansions, LAMBDA e : e.source = s)

\* The runtime row and the frontier are written; the index page is done.
EnqueueMembers(s) ==
    LET index == item[s].url
        taken == Last(ExpansionsOf(s)).taken
        depth == [u \in taken |-> rows[s][index].depth + 1]
    IN
    /\ stage[s] = "expanded"
    /\ runtime' = held[s] \cup {<<"index", s, index>>}
    /\ rows' = [Settled(s, index, "done") EXCEPT
                   ![s] = Enqueued(@, taken, depth, FromFeed(item[s].body))]
    /\ item' = [item EXCEPT ![s] = NoItem]
    /\ lock' = Released(s) /\ stage' = [stage EXCEPT ![s] = "working"]
    /\ UNCHANGED <<book, worked, walk, seen, found, outcome, answered, used, counters,
                   candidates, catalogs, expansions, held>>

-------------------------------------------------------------------------------
(* The end. *)

\* Mutated form of WalksOf: nobody asks whose they are.
WalksOfAll(s) == catalogs

WalksOf(s) == SelectSeq(catalogs, LAMBDA c : c.source = s)

\* _finalize_strategy_yields: what was taken from the indexes of a strategy; of the walks,
\* the last one counts.
Yield(s, n) ==
    IF n = "catalog_feed"
    THEN IF WalksOf(s) = <<>> THEN 0 ELSE Cardinality(Last(WalksOf(s)).promoted)
    ELSE FoldLeft(LAMBDA sum, e : IF Strategy[e.index] = n THEN sum + Cardinality(e.taken)
                                  ELSE sum,
                  0, ExpansionsOf(s))

\* The loop is left: by the budget, with max_work done, with nothing to do, or, at any
\* batch, because the reserve gives no page.
Finish(s) ==
    /\ \/ stage[s] = "finishing"
       \/ stage[s] = "working" /\ In(s, "inflight") = {}
    /\ book' = [book EXCEPT ![s] = [n \in Names |->
           IF @[n].status \in {"skipped", "blocked"} THEN @[n]
           ELSE [@[n] EXCEPT !.status = "tried", !.yielded = Yield(s, n)]]]
    /\ outcome' = [outcome EXCEPT ![s] =
           IF found[s] # <<>> THEN "MATCHES" ELSE IF @ = "NOT_ATTEMPTED" THEN "NO_MATCH" ELSE @]
    /\ stage' = [stage EXCEPT ![s] = "over"]
    /\ UNCHANGED <<lock, rows, item, worked, walk, seen, found, answered, used, counters,
                   candidates, records>>

Step(s) ==
    \/ ReadRobots(s) \/ RecordRobots(s) \/ TurnedAway(s) \/ Discover(s)
    \/ EnterWalk(s) \/ AskPage(s) \/ FetchPage(s) \/ Unwind(s) \/ CloseWalk(s) \/ RecordWalk(s)
    \/ Pop(s) \/ Handle(s) \/ Expand(s) \/ EnqueueMembers(s) \/ Finish(s)

\* Every source has ended; the pool is joined.
Joined == (\A s \in Sources : stage[s] = "over") /\ UNCHANGED catalogueVars

CatalogueNext == (\E s \in Sources : Step(s)) \/ Joined

\* A thread of the pool is scheduled again and again, and a request ends (Fetching).
Fairness == \A s \in Sources : WF_catalogueVars(Step(s))

CatalogueSpec == CatalogueInit /\ [][CatalogueNext]_catalogueVars /\ Fairness

-------------------------------------------------------------------------------
(* Properties. *)

CatalogueTypes ==
    /\ lock \in Sources \cup {NoSource}
    /\ used \in 0..Ceiling
    /\ candidates \subseteq Products
    /\ \A s \in Sources :
           /\ DOMAIN rows[s] \subseteq Products \cup Indexes
           /\ \A u \in DOMAIN rows[s] : rows[s][u].depth \in 0..MaxDepth
           /\ found[s] \in Seq(Products)

\* What the first n receipts say was read, promoted and taken.
ReadBy(n) == IF n = 0 THEN 0 ELSE catalogs[n].pages + catalogs[n].read
PromotedBy(n) == IF n = 0 THEN 0
                 ELSE catalogs[n].before + Cardinality(catalogs[n].promoted)
TakenBy(n) == IF n = 0 THEN 0 ELSE expansions[n].before + Cardinality(expansions[n].taken)

\* The receipts form one account: each begins where the one before it ended, and the
\* counters stand where the last one ended, whatever was unwound in between.
ReceiptsChain ==
    /\ \A i \in DOMAIN catalogs : /\ catalogs[i].pages = ReadBy(i - 1)
                                  /\ catalogs[i].before = PromotedBy(i - 1)
    /\ \A i \in DOMAIN expansions : expansions[i].before = TakenBy(i - 1)
    /\ catalogPages = ReadBy(Len(catalogs))
    /\ catalogPromoted = PromotedBy(Len(catalogs))
    /\ expanded = TakenBy(Len(expansions))

\* However the threads interleave, what a campaign has read, promoted and taken stays within
\* its caps, and what one walk or one index gave within its share.
CapsHold ==
    /\ catalogPages <= WalkCap /\ catalogPromoted <= PromoteCap /\ expanded <= ExpandCap
    /\ \A i \in DOMAIN catalogs : /\ catalogs[i].read <= WalkShare
                                  /\ Cardinality(catalogs[i].promoted) <= PromoteShare
    /\ \A i \in DOMAIN expansions : Cardinality(expansions[i].taken) <= IndexCap

\* The walk, the frontier and the expansions of one source find no listing twice, though each
\* of them keeps its own account of what was seen.
ListedOnce == \A s \in Sources : IsInjective(found[s])

\* What a source reports for its strategies is its own: the catalogue is credited with the
\* listings its walk put forward, and the other strategies with the rows their indexes put
\* into its frontier, and with nothing of another source.
YieldsAreReal ==
    \A s \in Sources : stage[s] = "over" =>
        /\ book[s]["catalog_feed"].yielded = Cardinality(ToSet(found[s]) \ DOMAIN rows[s])
        /\ MapThenSumSet(LAMBDA n : book[s][n].yielded, Names \ {"catalog_feed"})
               <= Cardinality(DOMAIN rows[s] \ (Seeds(s) \cup book[s]["sitemap"].urls))

\* No walk, no expansion and no exception keeps the lock: every source thread ends.
WalksEnd == <>(\A s \in Sources : stage[s] = "over")

-------------------------------------------------------------------------------
(* Stated and failing. *)

\* SOURCE_POLICY.md:42: a source is searched without a match only if it was searched.
RefusalIsTold ==
    \A s \in Sources : stage[s] = "over" /\ outcome[s] = "NO_MATCH" => answered[s]

\* LISTING_EXPANSION.md:53: the counts of every walk and expansion are in the runtime.
RecordsKept ==
    /\ \A i \in DOMAIN catalogs : stage[catalogs[i].source] = "over" =>
           \E o \in 1..Len(Origins[catalogs[i].source]) :
               <<"walk", catalogs[i].source, o>> \in runtime
    /\ \A i \in DOMAIN expansions : stage[expansions[i].source] = "over" =>
           <<"index", expansions[i].source, expansions[i].index>> \in runtime

\* statuses.py: SEARCHED_MATCHES_FOUND means that there are matches.
MatchesAreFound ==
    \A s \in Sources : stage[s] = "over" /\ outcome[s] = "MATCHES" => found[s] # <<>>

\* catalog.py:5: only products whose own text matches the query are put forward.
PromotedMatches ==
    \A i \in DOMAIN catalogs : \A u \in catalogs[i].promoted :
        \E page \in FeedPages : \E k \in DOMAIN page :
            page[k].url = u /\ MatchScore(FeedText(page[k], page[k])) > 0
===============================================================================
