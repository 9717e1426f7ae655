------------------------------- MODULE Discovery -------------------------------
(***************************************************************************)
(* One campaign's discovery: BoundedDiscoveryEngine.run and the source     *)
(* threads it starts (DiscoveryEngine._run_source_plan), which share the   *)
(* campaign's page budget through the ExplorationReserve.  A thread asks   *)
(* its source each query the warm index does not remember, puts the URLs   *)
(* into a frontier of its own run, and works the frontier off in batches:  *)
(* claim a page, look in the response cache, pay, ask, retry, settle.      *)
(*                                                                         *)
(* On disk: the frontier rows, the index's memory of queries, the response *)
(* cache and the budget row.  A run's frontier rows carry the fresh id of  *)
(* its source plan, so a later run starts from an empty frontier.          *)
(*                                                                         *)
(* Left out: the catalogue walk (it claims and pays as a frontier item     *)
(* does), robots sitemaps, source health, parsing, priorities, depths and  *)
(* the expansion caps; the URLs a source holds are finite.                 *)
(***************************************************************************)
EXTENDS Integers, FiniteSetsExt, Functions

CONSTANTS
    Sources,      \* the adapters of the eligible plans
    Queries,      \* the campaign's queries
    Urls,         \* the pages a source may have
    NoItem,       \* no query and no page
    UrlsOf,       \* what discover of a source returns for a query
    Links,        \* what expand_index finds on a page
    Ceiling,      \* the sealed page ceiling
    Floor,        \* CATALOG_PAGE_SHARE_FLOOR
    Batch,        \* batch_size
    MaxWork,      \* max_work
    MaxAttempts,  \* RETRY_CEILING
    MaxRuns,      \* bound: discoveries of this campaign (rounds and resumes)
    MaxCrashes    \* bound: how often the process dies

ASSUME PagesAssumption == Ceiling \in Nat /\ Floor \in Nat
ASSUME SizesAssumption == {Batch, MaxWork, MaxAttempts} \subseteq Nat \ {0}
ASSUME SourcesAssumption == IsFiniteSet(Sources)
ASSUME WebAssumption ==
    UrlsOf \in [Sources -> [Queries -> SUBSET Urls]] /\ Links \in [Urls -> SUBSET Urls]
ASSUME LivesAssumption == MaxRuns \in Nat /\ MaxCrashes \in Nat

VARIABLES
    \* On disk.
    frontier,        \* rows of each source's run: the state of each URL
    memory,          \* index: queries recorded as run, per source
    cache,           \* response cache: pages that were answered
    saved,           \* the budget row: pages charged
    \* The process.
    phase,           \* "idle", "work" while the pool runs, "over", "down"
    cancelled,       \* the campaign's cancellation flag
    used,            \* usage.used("pages")
    allowance, budget, claims, finished,   \* ExplorationReserve
    \* The source threads.
    pc, todo,        \* where it is; queries it has not dispatched
    batch, item,     \* URLs popped and not begun; the query or URL at work
    worked, tries,   \* worked, attempt
    before,          \* pages_before
    \* History.
    run, crashes,
    known,           \* URLs some run of this campaign put into its frontier
    paid,            \* pages each source paid for in this run
    late,            \* of those, the pages paid for after the cancel
    exit             \* why a thread left its loop

disk == <<frontier, memory, cache, saved>>
reserve == <<allowance, budget, claims, finished>>
thread == <<pc, todo, batch, item, worked, tries, before>>
history == <<run, crashes, known, paid, late, exit>>
vars == <<disk, phase, cancelled, used, reserve, thread, history>>

\* FrontierState; a page held for other sources is DONE with outcome NOT_ATTEMPTED.
Terminal == {"done", "held", "blocked", "cancelled"}
ItemStates == {"none", "pending", "inflight"} \cup Terminal

Init ==
    /\ frontier = [s \in Sources |-> [u \in Urls |-> "none"]]
    /\ memory = {} /\ cache = {} /\ saved = 0
    /\ phase = "idle" /\ cancelled = FALSE /\ used = 0
    /\ allowance = 0 /\ budget = 0
    /\ claims = [s \in Sources |-> 0] /\ finished = {}
    /\ pc = [s \in Sources |-> "ended"] /\ todo = [s \in Sources |-> {}]
    /\ batch = [s \in Sources |-> {}] /\ item = [s \in Sources |-> NoItem]
    /\ worked = [s \in Sources |-> 0] /\ tries = [s \in Sources |-> 0]
    /\ before = [s \in Sources |-> 0]
    /\ run = 0 /\ crashes = 0 /\ known = {}
    /\ paid = [s \in Sources |-> 0] /\ late = [s \in Sources |-> 0]
    /\ exit = [s \in Sources |-> "none"]

-------------------------------------------------------------------------------
(* ExplorationReserve; every method holds its lock. *)

\* remaining_page_budget.
Remaining == Ceiling - used

\* Mutated form of Allowance: each source gets the floor, whether or not it fits.
FloorForAll(remaining) == IF remaining <= 0 THEN 0 ELSE Floor

\* exploration_page_allowance(remaining, source_count).
Allowance(remaining) ==
    IF remaining <= 0 \/ Sources = {} THEN 0
    ELSE IF Floor * Cardinality(Sources) <= remaining THEN Floor
    ELSE remaining \div Cardinality(Sources)

\* The code's lower bound of 0 never takes effect (FloorHeld).
RemainingAfterClaims == budget - SumFunctionOnSet(claims, Sources)

\* What each source still has of its allowance.
Unused == [s \in Sources |-> Max({0, allowance - claims[s]})]

ReservedForOthers(s) == SumFunctionOnSet(Unused, Sources \ (finished \cup {s}))

MayClaim(s) ==
    /\ RemainingAfterClaims > 0
    /\ allowance > 0 /\ claims[s] >= allowance => RemainingAfterClaims > ReservedForOthers(s)

Claimed(s) == [claims EXCEPT ![s] = @ + 1]
Unclaimed(s) == [claims EXCEPT ![s] = IF @ > 0 THEN @ - 1 ELSE @]

-------------------------------------------------------------------------------
(* BoundedDiscoveryEngine.run. *)

\* A run binds the reserve to what the budget has left and starts one thread for each
\* plan.  The first run, a later round, or a resumed process: all begin alike.
BeginRun ==
    /\ phase \in {"idle", "over", "down"} /\ ~cancelled /\ run < MaxRuns
    /\ run' = run + 1 /\ phase' = "work"
    /\ allowance' = Allowance(Remaining) /\ budget' = Remaining
    /\ claims' = [s \in Sources |-> 0] /\ finished' = {}
    /\ frontier' = [s \in Sources |-> [u \in Urls |-> "none"]]
    /\ pc' = [s \in Sources |-> "ready"] /\ todo' = [s \in Sources |-> Queries]
    /\ batch' = [s \in Sources |-> {}] /\ item' = [s \in Sources |-> NoItem]
    /\ worked' = [s \in Sources |-> 0] /\ tries' = [s \in Sources |-> 0]
    /\ before' = [s \in Sources |-> 0] /\ paid' = [s \in Sources |-> 0]
    /\ exit' = [s \in Sources |-> "none"]
    /\ UNCHANGED <<memory, cache, saved, cancelled, used, crashes, known, late>>

\* The pool is joined, and the usage is persisted.
Collect ==
    /\ phase = "work" /\ \A s \in Sources : pc[s] = "ended"
    /\ phase' = "over" /\ saved' = used
    /\ UNCHANGED <<frontier, memory, cache, cancelled, used, reserve, thread, history>>

\* A cancel request of this process.
Cancel ==
    /\ phase = "work" /\ ~cancelled
    /\ cancelled' = TRUE
    /\ UNCHANGED <<disk, phase, used, reserve, thread, history>>

\* The process dies.  The next one restores the usage from its row.
Crash ==
    /\ phase = "work" /\ crashes < MaxCrashes
    /\ crashes' = crashes + 1 /\ phase' = "down" /\ used' = saved
    /\ pc' = [s \in Sources |-> "ended"]
    /\ batch' = [s \in Sources |-> {}] /\ item' = [s \in Sources |-> NoItem]
    /\ UNCHANGED <<disk, cancelled, reserve, todo, worked, tries, before,
                   run, known, paid, late, exit>>

-------------------------------------------------------------------------------
(* A source thread: the queries. *)

\* Frontier.enqueue: a key that is terminal or in flight keeps its row.
Enqueued(s, us) ==
    [frontier EXCEPT ![s] = [u \in Urls |->
        IF u \in us /\ @[u] \in {"none", "pending"} THEN "pending" ELSE @[u]]]

\* A thread leaves: the finally clause of _run_plan releases what it did not use.
Leave(s, why) ==
    /\ pc' = [pc EXCEPT ![s] = "ended"]
    /\ finished' = finished \cup {s}
    /\ exit' = [exit EXCEPT ![s] = why]

\* query_already_run: the index answers instead of the source.
SkipQuery(s, q) ==
    /\ pc[s] = "ready" /\ q \in todo[s] /\ <<s, q>> \in memory
    /\ todo' = [todo EXCEPT ![s] = @ \ {q}]
    /\ UNCHANGED <<disk, phase, cancelled, used, reserve, pc, batch, item, worked, tries,
                   before, history>>

\* adapter.discover answers and record_query remembers it.  The URLs are not in the
\* frontier yet.
RecordQuery(s, q) ==
    /\ pc[s] = "ready" /\ q \in todo[s] /\ <<s, q>> \notin memory
    /\ memory' = memory \cup {<<s, q>>}
    /\ item' = [item EXCEPT ![s] = q]
    /\ pc' = [pc EXCEPT ![s] = "enqueue"]
    /\ UNCHANGED <<frontier, cache, saved, phase, cancelled, used, reserve, todo, batch,
                   worked, tries, before, history>>

EnqueueUrls(s) ==
    /\ pc[s] = "enqueue"
    /\ frontier' = Enqueued(s, UrlsOf[s][item[s]])
    /\ known' = known \cup ({s} \X UrlsOf[s][item[s]])
    /\ todo' = [todo EXCEPT ![s] = @ \ {item[s]}]
    /\ item' = [item EXCEPT ![s] = NoItem]
    /\ pc' = [pc EXCEPT ![s] = "ready"]
    /\ UNCHANGED <<memory, cache, saved, phase, cancelled, used, reserve, batch, worked,
                   tries, before, run, crashes, paid, late, exit>>

\* discover is blocked or wants a login: the source is over, whatever it has enqueued.
DiscoverBlocked(s, q) ==
    /\ pc[s] = "ready" /\ q \in todo[s] /\ <<s, q>> \notin memory
    /\ Leave(s, "blocked")
    /\ UNCHANGED <<disk, phase, cancelled, used, allowance, budget, claims, todo, batch,
                   item, worked, tries, before, run, crashes, known, paid, late>>

-------------------------------------------------------------------------------
(* A source thread: the frontier. *)

\* Mutated form of Pending: a page held for other sources is popped once more.
PendingOrHeld(s) == {u \in Urls : frontier[s][u] \in {"pending", "held"}}

Pending(s) == {u \in Urls : frontier[s][u] = "pending"}

\* _source_may_fetch_more.
MayFetchMore(s) == Remaining > 0 /\ MayClaim(s)

\* No query and no popped item is left: the head of the loop.
AtLoop(s) == pc[s] = "ready" /\ todo[s] = {} /\ batch[s] = {}

\* pop_frontier_batch.
Pop(s) ==
    /\ AtLoop(s)
    /\ worked[s] < MaxWork /\ ~cancelled /\ MayFetchMore(s) /\ Pending(s) # {}
    /\ \E b \in SUBSET Pending(s) :
          /\ Cardinality(b) = Min({Batch, Cardinality(Pending(s))})
          /\ batch' = [batch EXCEPT ![s] = b]
          /\ frontier' = [frontier EXCEPT ![s] =
                            [u \in Urls |-> IF u \in b THEN "inflight" ELSE @[u]]]
    /\ UNCHANGED <<memory, cache, saved, phase, cancelled, used, reserve, pc, todo, item,
                   worked, tries, before, history>>

\* Mutated form of LoopOver: a source that may not fetch waits for what the others leave.
WaitsForOthers(s) ==
    \/ worked[s] >= MaxWork \/ cancelled \/ Pending(s) = {}
    \/ ~MayFetchMore(s) /\ finished = Sources \ {s}

LoopOver(s) == worked[s] >= MaxWork \/ cancelled \/ ~MayFetchMore(s) \/ Pending(s) = {}

\* The loop ends: max_work, the cancel, the budget or the reserve, or an empty frontier.
LeaveLoop(s) ==
    /\ AtLoop(s) /\ LoopOver(s)
    /\ Leave(s, IF worked[s] < MaxWork /\ cancelled THEN "cancelled" ELSE "loop")
    /\ UNCHANGED <<disk, phase, cancelled, used, allowance, budget, claims, todo, batch,
                   item, worked, tries, before, run, crashes, known, paid, late>>

\* Frontier.complete.
Completed(s, u, state) == [frontier EXCEPT ![s][u] = state]

BeginItem(s, u) ==
    /\ pc[s] = "ready" /\ u \in batch[s]
    /\ batch' = [batch EXCEPT ![s] = @ \ {u}]
    /\ worked' = [worked EXCEPT ![s] = @ + 1]

\* Admission refuses the page, or the claim does: a page held for the other sources is
\* settled without having been asked for.
Refuse(s, u) ==
    /\ BeginItem(s, u)
    /\ \/ frontier' = Completed(s, u, "blocked")
       \/ /\ Remaining > 0 /\ ~MayClaim(s)
          /\ frontier' = Completed(s, u, "held")
    /\ UNCHANGED <<memory, cache, saved, phase, cancelled, used, reserve, pc, todo, item,
                   tries, before, history>>

\* _fetch_item finds the budget used up: the item is blocked, the rest of the batch is
\* left in flight.
FindExhausted(s, u) ==
    /\ BeginItem(s, u) /\ Remaining <= 0
    /\ frontier' = Completed(s, u, "blocked")
    /\ Leave(s, "budget")
    /\ UNCHANGED <<memory, cache, saved, phase, cancelled, used, allowance, budget, claims,
                   todo, item, tries, before, run, crashes, known, paid, late>>

\* The page is claimed.
Claim(s, u) ==
    /\ BeginItem(s, u) /\ Remaining > 0 /\ MayClaim(s)
    /\ claims' = Claimed(s)
    /\ before' = [before EXCEPT ![s] = used]
    /\ item' = [item EXCEPT ![s] = u] /\ tries' = [tries EXCEPT ![s] = 1]
    /\ pc' = [pc EXCEPT ![s] = "lookup"]
    /\ UNCHANGED <<disk, phase, cancelled, used, allowance, budget, finished, todo, history>>

\* A claim is given back if no page was charged meanwhile, by any thread.
AfterFetch(s) == IF used = before[s] THEN Unclaimed(s) ELSE claims

\* expand_index takes what the frontier has not seen.
Taken(s, u) == {v \in Links[u] : frontier[s][v] = "none"}

\* A page was found: its links go into the frontier, and it is done.
Ingest(s, u) ==
    /\ frontier' = [Enqueued(s, Taken(s, u)) EXCEPT ![s][u] = "done"]
    /\ known' = known \cup ({s} \X Taken(s, u))
    /\ claims' = AfterFetch(s)
    /\ item' = [item EXCEPT ![s] = NoItem]
    /\ pc' = [pc EXCEPT ![s] = "ready"]

\* Escalator.fetch serves the page from the cache, or goes on to ask for it.
LookUp(s) ==
    /\ pc[s] = "lookup"
    /\ IF <<s, item[s]>> \in cache
       THEN Ingest(s, item[s])
       ELSE pc' = [pc EXCEPT ![s] = "attempt"] /\ UNCHANGED <<frontier, known, claims, item>>
    /\ UNCHANGED <<memory, cache, saved, phase, cancelled, used, allowance, budget,
                   finished, todo, batch, worked, tries, before, run, crashes, paid, late,
                   exit>>

\* Mutated form of StopsAttempt: the flag is looked at between items only.
NeverStops == FALSE

\* raise_if_cancelled before every attempt.
StopsAttempt == cancelled

Attempt(s) ==
    /\ pc[s] = "attempt"
    /\ IF StopsAttempt
       THEN /\ frontier' = Completed(s, item[s], "cancelled")
            /\ item' = [item EXCEPT ![s] = NoItem]
            /\ Leave(s, "cancelled")
       ELSE /\ pc' = [pc EXCEPT ![s] = "pay"]
            /\ UNCHANGED <<frontier, item, finished, exit>>
    /\ UNCHANGED <<memory, cache, saved, phase, cancelled, used, allowance, budget, claims,
                   todo, batch, worked, tries, before, run, crashes, known, paid, late>>

WouldExceed == used + 1 > Ceiling

\* consume(pages=1), for every attempt.
Pay(s) ==
    /\ pc[s] = "pay" /\ ~WouldExceed
    /\ used' = used + 1
    /\ paid' = [paid EXCEPT ![s] = @ + 1]
    /\ late' = [late EXCEPT ![s] = IF cancelled THEN @ + 1 ELSE @]
    /\ pc' = [pc EXCEPT ![s] = "wait"]
    /\ UNCHANGED <<disk, phase, cancelled, reserve, todo, batch, item, worked, tries,
                   before, run, crashes, known, exit>>

\* BudgetExceeded: the claim is given back, the item is blocked, the source is over.
PayRefused(s) ==
    /\ pc[s] = "pay" /\ WouldExceed
    /\ claims' = Unclaimed(s)
    /\ frontier' = Completed(s, item[s], "blocked")
    /\ item' = [item EXCEPT ![s] = NoItem]
    /\ Leave(s, "budget")
    /\ UNCHANGED <<memory, cache, saved, phase, cancelled, used, allowance, budget, todo,
                   batch, worked, tries, before, run, crashes, known, paid, late>>

\* The page is found, and cached.
AnswerFound(s) ==
    /\ pc[s] = "wait"
    /\ cache' = cache \cup {<<s, item[s]>>}
    /\ Ingest(s, item[s])
    /\ UNCHANGED <<memory, saved, phase, cancelled, used, allowance, budget, finished,
                   todo, batch, worked, tries, before, run, crashes, paid, late, exit>>

\* The page is not there, failed for good or too often, or is blocked.
AnswerOther(s) ==
    /\ pc[s] = "wait"
    /\ \E state \in {"done", "blocked"} : frontier' = Completed(s, item[s], state)
    /\ item' = [item EXCEPT ![s] = NoItem]
    /\ pc' = [pc EXCEPT ![s] = "ready"]
    /\ UNCHANGED <<memory, cache, saved, phase, cancelled, used, reserve, todo, batch,
                   worked, tries, before, history>>

\* should_retry: rate limited, no network, unavailable.
AnswerRetry(s) ==
    /\ pc[s] = "wait" /\ tries[s] < MaxAttempts
    /\ tries' = [tries EXCEPT ![s] = @ + 1]
    /\ pc' = [pc EXCEPT ![s] = "attempt"]
    /\ UNCHANGED <<disk, phase, cancelled, used, reserve, todo, batch, item, worked, before,
                   history>>

\* The adapter cannot parse what came: the thread ends, the item stays in flight.
AnswerRaises(s) ==
    /\ pc[s] = "wait"
    /\ cache' = cache \cup {<<s, item[s]>>}
    /\ item' = [item EXCEPT ![s] = NoItem]
    /\ Leave(s, "raised")
    /\ UNCHANGED <<frontier, memory, saved, phase, cancelled, used, allowance, budget,
                   claims, todo, batch, worked, tries, before, run, crashes, known, paid,
                   late>>

SourceStep(s) ==
    \/ \E q \in Queries : SkipQuery(s, q) \/ RecordQuery(s, q) \/ DiscoverBlocked(s, q)
    \/ EnqueueUrls(s) \/ Pop(s) \/ LeaveLoop(s)
    \/ \E u \in Urls : Refuse(s, u) \/ FindExhausted(s, u) \/ Claim(s, u)
    \/ LookUp(s) \/ Attempt(s) \/ Pay(s) \/ PayRefused(s)
    \/ AnswerFound(s) \/ AnswerOther(s) \/ AnswerRetry(s) \/ AnswerRaises(s)

Next == BeginRun \/ Collect \/ Cancel \/ Crash \/ \E s \in Sources : SourceStep(s)

\* A thread runs until it ends: requests time out, waits are capped.
Spec ==
    /\ Init /\ [][Next]_vars
    /\ \A s \in Sources : WF_vars(SourceStep(s))
    /\ WF_vars(Collect)

-------------------------------------------------------------------------------
(* Properties. *)

\* Every variable holds a value of its kind.
TypeOK ==
    /\ frontier \in [Sources -> [Urls -> ItemStates]]
    /\ memory \subseteq Sources \X Queries /\ cache \subseteq Sources \X Urls
    /\ saved \in 0..Ceiling /\ used \in 0..Ceiling
    /\ phase \in {"idle", "work", "over", "down"} /\ cancelled \in BOOLEAN
    /\ allowance \in Nat /\ budget \in Nat
    /\ claims \in [Sources -> Nat] /\ finished \subseteq Sources
    /\ pc \in [Sources -> {"ready", "enqueue", "lookup", "attempt", "pay", "wait",
                           "ended"}]
    /\ todo \in [Sources -> SUBSET Queries] /\ batch \in [Sources -> SUBSET Urls]
    /\ item \in [Sources -> Urls \cup Queries \cup {NoItem}]
    /\ worked \in [Sources -> Nat] /\ tries \in [Sources -> Nat]
    /\ before \in [Sources -> Nat]
    /\ run \in 0..MaxRuns /\ crashes \in 0..MaxCrashes
    /\ known \subseteq Sources \X Urls
    /\ paid \in [Sources -> Nat] /\ late \in [Sources -> Nat]
    /\ exit \in [Sources -> {"none", "loop", "blocked", "budget", "cancelled", "raised"}]

\* engine.py:199-204: concurrent sources cannot overdraw.  However the claims of the
\* threads interleave, they stay within the budget, and what is left of it covers the
\* floor of every source that is still at work.
FloorHeld == RemainingAfterClaims >= SumFunctionOnSet(Unused, Sources \ finished)

\* BIBLE 22.4, inhibition of return: within a run no page that is settled is taken up
\* again, whatever links lead back to it.
InhibitionOfReturn ==
    [][run' = run =>
        \A s \in Sources : \A u \in Urls :
            frontier[s][u] \in Terminal => frontier'[s][u] = frontier[s][u]]_vars

\* cancel stops new work: after it, each source asks for one more page at most, retries
\* included.
CancelStopsFetching == \A s \in Sources : late[s] <= 1

\* The pool always ends, so the campaign gets its answer: no source works for ever.
DiscoveryEnds == phase = "work" ~> phase # "work"

\* frontier.py:1, a durable work frontier that survives a kill; docs BIBLE 15.6.  So
\* when the discovery after a crash has ended with pages and work to spare, every page
\* the campaign had put into its frontier has been settled.  It fails.
FrontierSurvives ==
    (phase = "over" /\ run = 2 /\ crashes = 1 /\ used < Ceiling) =>
        \A s \in Sources : exit[s] = "loop" /\ worked[s] < MaxWork /\ claims[s] < allowance =>
            \A u \in Urls : <<s, u>> \in known => frontier[s][u] \in Terminal

\* engine.py:181-184: when floor * N fits, each source is guaranteed the floor.  So a
\* source that the budget stopped has had its floor.
FloorGuaranteed == \A s \in Sources : exit[s] = "budget" => paid[s] >= allowance
===============================================================================
