# Searcher: a TLA+ verification of the campaign engine

Searcher takes a picture or a description of a product and runs a *campaign*: it
forms hypotheses about the item, compiles queries, sends them to sources, fetches
and compares listings, decides which of them are the genuine item, and publishes
results, while a client follows over server-sent events and may cancel at any
moment. Campaigns live in SQLite; a process that dies is followed by `campaign
resume`. This directory models the parts of that engine where order, concurrency,
crashes, time and limits matter, checks them with TLC and proves much of them with
TLAPS. Paths below are relative to `src/searcher/` unless they start with `docs/`.

## The system

| Component | State it keeps | Operations | Hard parts | Modelled by |
|---|---|---|---|---|
| State graph (`campaigns/states.py`, `transitions.py`) | none | edges, guards | legality across resumes and rounds | `CampaignStates`, `CampaignLife` |
| Controller, cancellation, event log (`campaigns/controller.py`, `cancellation.py`, `events.py`) | campaign row with a version, event log, one cancel flag per process | `create`, `get`, `transition`, `_emit`, `cancel` | each is several SQL statements; worker, API thread and resumed process interleave | `CampaignController` |
| Event stream (`api/events.py`) | a cursor per connection | `stream_events`, reconnect | reads a log and a row that change meanwhile | `EventStream` |
| Orchestrator (`campaigns/orchestrator.py`, `workers/*orchestrator*`, `workers/reference/pipeline.py`) | `completed_steps`, round, queries, candidates, scores, results | `run`, stages, replan, terminate, salvage, resume | crashes between durable writes, rounds, budget stops | `Orchestrator`, `Listings` |
| Sealed budget (`core/budgets.py`) | committed and reserved amounts, a stored row | `reserve`, `commit`, `would_exceed`, `snapshot`, `restore` | pools of threads spend from it; resume restores it | `Budget` |
| Discovery (`sources/engine.py`, `workers/bounded_discovery.py`, `sources/frontier.py`) | frontier rows, memory of queries, exploration reserve | source threads: query, enqueue, pop, claim, fetch, retry | threads share a page budget; crash in the middle | `Discovery` |
| Fetching (`sources/fetch_modes.py`, `http.py`, `retry.py`, `admission.py`, the deadline client of `workers/bounded_discovery.py`) | the host's limiter, a robots snapshot, deadlines | `fetch`, `render`, robots request, retry | slots reserved under a lock and slept to outside it; deadlines | `Fetching` |
| Source health, circuit, broker, robots (`sources/health.py`, `circuit.py`, `broker.py`, `robots.py`) | failure counters, an open-until time, robots rows | `plan`, `record`, `get_cached` | time windows; rows read and written apart | `SourceAccess` |
| Content store, cache, deletion (`evidence/content_store.py`, `sources/cache.py`, `api/deletion.py`) | objects, an index of owners in one file | `put_bytes`, `get`, `purge_campaign_private` | read-modify-write by threads that do not all lock | `ContentStore` |
| Deduplication (`deduplication/clusters.py`) | none of its own | `cluster_candidates` | order of merges | `Clusters` |
| Matching, authenticity, ranking, publication (`matching/`, `authenticity/`, `ranking/`, `campaigns/publication.py`) | scores, decisions, results | score, veto, route, publish | thresholds; two places that decide | `Evidence`, `Verdict` |
| Live check and refresh (`sources/live_check.py`, `api/searches.py`) | availability and its time | `live_check`, `refresh` | pages that change, cached bodies | `Listings` |
| Warm index (`index/`) and the scripted runner (`fixtures/scripted.py`) | listings, evidence and queries that outlive a campaign | `consult_and_surface`, `remember_campaign`; `run`, `resume` | campaigns write each other's input; deaths between writes | `WarmIndex` |
| Catalogue walks and expansions (`sources/strategies.py`, `catalog.py`, `classify.py`, `expand.py`, their callers in `engine.py`) | strategy books, counters and lists of a run, records in the runtime row | plan, walk a feed, classify, expand, credit | source threads share caps, budget, receipts and a row | `Catalogue` |
| Reference analysis (`reference/`) | none of its own | `analyze_uploads`, views, groups of photographs, gaps | likeness is no equivalence; a lone view | `Reference` |
| Hypotheses, queries, replanning (`hypotheses/`, `queries/`, `_learn_terms` and `_replan` of the orchestrator) | hypotheses and the queries of each round | parse, contradict, draft, plan, learn, replan | caps, ceilings and one query per language at once; rounds | `Inquiry` |
| Retrieval and ranking (`retrieval/`, `_broad` to `_rank` of the orchestrator, `ranking/order.py`, `diversity.py`, `judge_candidates`) | scores, the cut of a round | recall, cut, compare, order, diversify | rounds cut anew beside the scores of earlier ones | `Retrieval` |
| Reading and verifying pages (`sources/adapters/generic_page.py`, `normalization/`, `verification/`) | records of verification | extract, normalize, extract again, compare | two readers with orders and rules of their own | `Verification` |
| API requests and workers (`api/searches.py`, `deletion.py`, `feedback.py`, `uploads.py`, `workers/api_campaign.py`) | threads, cancel flags, the rows of a search, its coverage | create, cancel, delete, feedback, refresh; the worker's run and end; restart | requests interleave with workers, with one another and with a delete | `Service` |
| Projections (`api/views.py`, `api/results.py`) | none of its own | `project_search`, `project_result`, `list_public_results` | read row by row while the worker writes; choices and thresholds of their own | `Display` |
| Idempotent tasks (`run_task`, `commit_packet`), adapters of single sites, vision, CLI, web, bench | | | | not modelled |

How they interact: the API creates a campaign through the controller and starts one
worker thread for it; the worker drives the orchestrator, which asks the controller
for transitions, runs the discovery engine (its own pool of source threads, each of
which asks broker, circuit, robots gate and limiter before it fetches) and the image
pool, charges the budget, stores bodies and photographs in the content store, and
writes candidates, decisions and results through the repositories. A cancel request
sets the process's flag and races the worker for the row. A stream reads the log and
the row. A delete purges beside whatever still runs. A resumed process meets only
what is on disk. The warm index hands listings from one campaign to the next.

`PROJECT.json` lists the components with every source file they cover, the hazards
of this code with the properties that watch them, and for each definition the lines
it translates.

## The modules

**CampaignStates** has the states, the edges, the forward walk and the guards
of `assert_invariants` as one operator, `GuardsHold`. **CampaignLife** is the abstract
specification of a campaign: a state and a version, and a single step, one legal edge
with the version one higher. It is what the rest of the code may assume of the row.

**CampaignController** is the detailed one: any number of processes, workers and cancel
requests. A thread is a program counter; `transition` is `CheckFlag`, `ReadRow`,
`CommitRow` (the `UPDATE ... WHERE state_version = ?`) or `Reject`; `_emit` is
`ReadVersion`, `ReadPredecessor`, `AppendEvent`. What a worker does between
transitions is nondeterministic (`Targets`, `Situations`), `_fail` and `Crash`
included. The theorem `RowImplementsLife` and the run `campaign` show that it
implements `CampaignLife` with `state <- row.state, version <- row.version`.

**EventStream** extends it with one client: `SendBatch`, `JudgeClosed`, `EndOrSleep`,
`Drop`, `Reconnect`, in the order of the generator's three reads.

**Orchestrator** walks one campaign through reference wave, pipeline, replan,
termination and salvage. Each durable write is a step (a row of a handler, the
transition, the checkpoint and mark), so that a crash falls between any two; the
variables are split into what is on disk and what is in the worker, and `Resume`
starts again from the first. Candidates carry which evidence they have, and how
many decisions and results were written for them. A transition is two steps, the look at the
flag (`LookAtFlag`) and the write of the row (`Arrive`); a cancel is three, the flag, the read of the row
and the write of it (`Cancel`, `CancelLooks`, `CancelWrites`), and one that serves no worker's flag
reads at once. Whichever writes first makes the other fail (`Overtake`); `beaten` remembers that a cancel whose flag
was set has lost. The statements around the row, and several workers, are `CampaignController`'s
subject. When the graph or a guard refuses a transition, `asked` keeps what was asked for and which layers
were shut (`Refusal`); `Explained` lists the five kinds there are.

**Budget** has the usage of each process, the stored row, and the threads of two pools:
a source thread pays for a page before it asks for it, an image thread looks, stores,
and pays after. `consume` is `Reserve` then `Commit`, each under the lock.

**Discovery** has the source threads of `_run_source_plan`, the `ExplorationReserve`
(`MayClaim`, `Claimed`, `Unclaimed`, `finished`), the frontier of the run, the memory of
queries and the response cache. A run begins with an empty frontier because its id is
the fresh id of the source plan; `Crash` keeps the memory, the cache and the stored
budget. `Crash`, `Cancel`, a blocked `discover`, a parse error, a retry and a refused page
can each come at every step.

**Fetching** looks into one host: source threads with a deadline and the threads of the
live check, which have none, ask for its pages through one limiter. Time is relative (what is left of
a deadline, of a sleep, how far ahead the last slot is), so that the state space is finite
without a clock. `Ask` reserves a slot and begins the sleep; `TooLate` reserves one and raises;
`limiter_for` hands out a new limiter when the delay differs, as robots requests make
it do. `limiter_for` and the lock that follows are one step.

**SourceAccess** has two campaigns that plan, look at the circuit, pass the robots gate, fetch,
and record; `record` is `RecordRead` and `RecordWrite`. A robots snapshot has two dates, when
it was fetched and when it was put where it is, because the code keeps only the second.

**ContentStore** splits `put_bytes`, the cache's put and the purge at their file operations:
object, zone link, read of the index, write of the temporary file, rename, marker. Threads
that take `STORE_LOCK` exclude each other and nobody else.

**Clusters** is `cluster_candidates`: the link groups, the image pass that merges while it
walks the listings (the families of one listing in any order, as a Python set gives
them), the title pass over representatives. A cluster id is the first listing of its group.

**Evidence** and **Verdict** are pure: what the photographs and words of a listing become
(contradictions, lower bounds, calibration), and what that leads to (vetoes, gates,
bucket, publication). Scores are whole thousandths. Correspondence is "strong", "ratio" or
"weak", as `match_candidate` tells its outcomes apart; that it was looked for at all, which is wherever
both sides have photographs, is what `combine_item_match` goes by when it lifts a lower bound.
**Listings** puts them to work: listings go from discovery over the live check to a tab, while
shops change them, the cache answers with an older body, the budget stops, the live check
fails or the process dies in it, a round follows, and a reader asks for a refresh.
`RESERVED` is treated as `SOLD`, which the gates do not tell apart.

**WarmIndex** composes the warm index with the runner of fixture campaigns, the one caller that walks every
step itself. A handler is the script of its writes, computed when it starts, and each
write is a step, so that a process may die between any two. The index is consulted
before the source is planned and written after publication; evidence, listing and query are
separate writes. All listings match the terms of all queries (the runner's hypothesis
is one constant record), a pack has at most the fifty listings that a search returns, hits and queries come
in any order, and a listing's three transactions are one.

**Catalogue** follows the threads of one discovery through the strategies of their shops: the plan and
the robots sitemaps (`ReadRobots`, `RecordRobots`), the walk through the feed of each origin
(`EnterWalk` to `RecordWalk`), the frontier's pages and what is found in them
(`Pop`, `Handle`), their expansion (`Expand`, `EnqueueMembers`) and the credit of each
strategy (`Finish`). The engine's attributes (`_campaign_catalog_pages`, `_catalogs`, ...) are
variables that all threads write; `_state_lock` is one of them. The read and the write of
the runtime row are two steps. A body is the record of what parsing it finds; `MembersOf` and
`Class` choose among its parts as `extract_index_members` and `classify_acquired_document` do.

**Reference** is what becomes of a user's photographs before anything is searched: which
uploads are refused, the view each shows (and what a lone view is worth), the groups of
likely duplicates, the roles, and the gaps that are asked about. What the image
libraries measure of a picture (sizes, blur, exposure, hashes) is its input.

**Inquiry** goes on from there: the user's words become facts (`parse_user_text`, where
instructions are told from descriptions), the facts seeds, hypotheses and contradictions,
the hypotheses drafts of queries, and `compile_plan` cuts these by family, by round and by a ceiling,
keeping a query in each language. Between rounds `_learn_terms` reads the
listings found and `_replan` plans again. Each stage is an action.

**Retrieval** follows the listings of a campaign through its rounds: `Find`, the cheap signals and
the cut of `Broad`, `Compare`, `RankOnce`, `ReplanOrEnd`. `JudgeAll` is the other way to a
ranking, the one the vision worker takes, with the order and the diversity of a tab.

**Verification** is the two ways a page is read: the one the row of a listing is made of
(`Merged`, `Row`), which merges all sections of a page, and the one a later look takes
(`Structured`), which reads one of them. `VerifyPage` holds the second against what was recorded.

**Service** has the requests and the worker threads over the rows of searches. A create is
one step, because its coroutine has no `await` between the look at the client's key and the
start of the thread; the other requests are served in a thread pool, and their statements
interleave. Of a table the model keeps whether it has rows of a search, as that is what
the purge is about; a worker's stages are taken apart only as far as cancellation and deletion
reach into them. `Restart` forgets threads and flags and keeps the rows. A budget that runs
out (`BudgetStop`) is handled apart from every other failure, because its handler ends the
search with a transition of its own: `StopLooks` and `StopEnds` are that transition's look at
the flag and the row, and its version-checked write. Refused at either, by a cancel or because
the graph has no edge to `PARTIAL` yet, the exception leaves `run()`, the accounting of
sources is passed by, and the thread is "left" instead of "over".

**Display** puts pages together beside a worker: `OpenList` reads the results, `AddCard` the
rows of one of them, `CloseList` the counts, and any stage of the worker, or a purge, falls
between. A card is what `project_result` makes of the rows; `delivered` keeps the pages
for the properties.

`MCStages` runs `Clusters`, `Inquiry`, `Retrieval` and `Verification`, and `MCApi` runs `Budget`,
`Service` and `Display`, as kinds of behaviour in one run: `part` says which one a behaviour is of. The parts of a run share no variable, and each starts
from inputs of its own.

The definitions called "mutated form of" are plausible mistakes in the definition
that follows them. They take part in no specification; replacing the definition by
one of them breaks the property that is meant to catch that mistake.

## The runs

| Run | Checks | Shows |
|---|---|---|
| `campaign` | `CancelStopsWork`, `LogAccountsForRow`, `RowFollowsLife` | two workers, a cancel and a crash, interleaved at every statement, keep row and log consistent |
| `event_stream` | `NoGapNoDuplicate`, `StreamEnds` | the stream is the log, in order, and ends after the campaign does |
| `orchestrator` | `FailureIsExplained`, `PublishedOnce`, `EvidenceIsPublished`, `CampaignEnds` | crash and resume neither repeat nor lose work; the illegal transitions the worker asks for are of five known kinds; only a death, or a cancel that loses the row to the worker it has stopped, leaves a campaign open |
| `api` | `NeverExceedsCeiling`, `OvershootBounded` (`Budget`); `StartedOnce`, `EverySourceTold`, `NothingAfterPurge` (`Service`); `ShownAsDecided`, `LabelsFitTabs`, `ShownStays` (`Display`) | the accounting never crosses a ceiling, and what is spent unpaid is bounded by the pool; a create sent again starts nothing again, every known source is told of once when the worker comes back (and at most once if a refused budget stop takes it out of `run()`), a purge is undone only by what was at work beside it; a card stands for what was decided, its labels fit its tab, and no later page takes it back |
| `discovery` | `FloorHeld`, `CancelStopsFetching`, `InhibitionOfReturn`, `DiscoveryEnds` | claims keep every unfinished source's floor free, settled pages stay settled, the pool ends |
| `content_store` | `ReadersStoredIt`, `DeletedIsGone` | with writers that do not lock, what is lost is an index entry and never a secret: nobody may read what it did not store |
| `source_access` | `BlockStands` | a block stands for its window unless two records overlap |
| `stages` | `EveryListingRepresented`, `MergesJustified` (`Clusters`); `LanguagesCovered`, `NothingAskedTwice`, `GroupsAreComponents` (`Inquiry`); `BestAreCompared` (`Retrieval`); `UnchangedIsNotContradicted` (`Verification`) | on every input and order no listing is lost, none is merged without a reason; every language worth asking in is asked in, no replan repeats a query; photographs are grouped by chains of likeness; the best listings of all rounds are compared; a page that did not change contradicts nothing |
| `listings` | `RealIsEarned`, `ShownNotKnownDead` | what is published as real has earned it in what was measured of it, is no replica and shares no photograph with another seller's result, through any salvage, crash, round and refresh |
| `fetching` | `SlotsApart`, `FetchesEnd` | sleepers of one limiter wake apart, and every thread comes to its end |
| `warm_index` | `OnceOnly`, `IndexIsTakenOver`, `ResumeEnds` | deaths between any two writes, and campaigns that feed each other, repeat nothing, drop nothing and end |
| `catalogue` | `ReceiptsChain`, `WalksEnd` | threads that share the caps, the budget and the receipts leave one account that agrees with the counters, and each of them ends |

Every property has a mutant in `PROJECT.json`: a mistake in the modelled code that it catches.

Further properties are stated in the modules and not among the runs, which keep to those that are
hard to see: `StageOncePerRound` (`Orchestrator`), `ListedOnce` and
`YieldsAreReal` (`Catalogue`), `UniqueAngleGains` (`Inquiry`), `TabsKeepOrder` (`Retrieval`) and
`HiddenAreCounted` (`Display`) hold on the same instances; `RobotsBounded`, `CachedBodyPresent`,
`IdsKeepApart` and `LiveIsRecent` (`WarmIndex`) hold there too and are proved.

### Stated and failing

Some modules state what a document or a docstring says, and the code does not keep it.
TLC refutes each; `PROJECT.json` quotes the lines under `findings`.

| Property | What happens instead |
|---|---|
| `CampaignController!CancelEndsCampaign` | a cancel that loses the version race leaves an active campaign without a worker; it is the one case `CampaignEnds` excepts |
| `EventStream!EndedStreamIsComplete` | the stream may close before `search.complete` is appended |
| `CampaignController!EventChainLinear` | two writers name the same predecessor event |
| `Orchestrator!ReplanDiscovers` | after a replan the pipeline asks for PLANNING_SOURCES while the row is in DISCOVERING: refused, and the campaign FAILED |
| `Budget!SealedBudgetHolds` | two image threads store an image each when one was affordable |
| `Budget!ResumedBudgetHolds` | a process that dies in discovery has not persisted the pages it paid for |
| `Discovery!FrontierSurvives` | after a crash in discovery, pages that were waiting are never asked for |
| `Discovery!FloorGuaranteed` | retries of one source spend another's floor |
| `SourceAccess!RefusedOnlyInWindow` | a breaker once open refuses its source for ever |
| `SourceAccess!NoMatchMeansAsked` | a source of which no page was asked for is recorded as SEARCHED_NO_MATCH |
| `ContentStore!IndexStaysJson`, `StoredStays` | unlocked writers tear the index, or lose each other's entries |
| `Clusters!DistinctListingsApart`, `SharedFamilyMeets` | a listing without an id joins two clusters of different ids; two of one family stay apart |
| `Listings!LiftNeedsIdentity` | any comparison of photographs counts as correspondence and lifts the item match over the gate of Real, whatever it came to |
| `Listings!RefreshDoesNotFabricate` | a refresh answered by the cache moves the time of the check |
| `Fetching!HttpBodyKept` | a page read by HTTP is returned as refused, with no body, when it may not be rendered |
| `Fetching!SlotsAreUsed` | a request refused for want of time keeps its slot, and its retries take more |
| `Fetching!RobotsFailureIsTheHosts` | a robots request cut short by a deadline counts as the host's failure |
| `WarmIndex!SourceIsCovered` | one listing taken over from the index, or written before a death, keeps the others of the source out |
| `WarmIndex!AllArePublished` | a death in `_rank` or `_publish` leaves candidates undecided or unpublished |
| `WarmIndex!EndIsSaid` | a death after the COMPLETE row leaves no receipt and no `search.complete` |
| `Catalogue!RefusalIsTold` | a feed that is refused ends as SEARCHED_NO_MATCH |
| `Catalogue!RecordsKept` | the robots evidence of one source overwrites the walk another has recorded |
| `Catalogue!MatchesAreFound` | a source that found nothing ends as SEARCHED_MATCHES_FOUND if its last page was answered |
| `Catalogue!PromotedMatches` | after a product without a handle each member is judged by another product's text |
| `Service!NoSourceInvisible` | a budget stop whose own transition is refused, by a cancel or before DISCOVERING, leaves `run()`, and the sources are not accounted for |

### Bounds

- `campaign`: two workers (one started by `campaign resume`), one cancel, one crash, two
  versions, four events. The properties speak of the row, one stale reader and one
  event of a version; two writers and a canceller give every pair of racing
  statements, and the stages a worker works on are chosen freely.
- `event_stream`: one worker, one cancel, one crash, one dropped connection, five
  events; enough for the end to fall between any two of the generator's reads.
- `orchestrator`: two candidates (one written, one not, when the crash comes), two
  rounds and query waves (`max_rounds` is two by default), one crash, one resume, any number of cancels one
  after another; 4.28 million states. The fifth kind of refusal needs two resumes, a worker without the
  routing layer and another after it: it was met by hand, with one candidate and two crashes and
  resumes (12.1 million states), and the theorem covers any number.
- `api`: for `Budget`, a process with two threads beside one with one thread; ceilings two pages,
  one image, two bytes; responses of one or two bytes; one crash. For `Service`, two searches
  under one client's key, two requests at a time and two in all, one restart, five sources of which each
  is declined, or not, for another reason. For `Display`, hauls of up to two listings, chosen
  for their cases (a close match, a vague one, one that retrieval drops, one that became dearer, a
  replica), two rounds, two pages: a page can be open across any two steps of the worker; 2.40
  million states.
- `discovery`: two sources, three pages each, one query, page ceiling three, floor one,
  batch two, three items of work, two attempts, two runs, one crash. The reserve's
  cases (floor fits, floor does not fit, exploit, held) and each limit are all met.
- `content_store`: two campaigns, two images, one page, one source thread and the delete
  handler, two puts, one crash; 1.24 million states. An image both campaigns hold, and one only one
  of them holds, are the cases of ownership.
- `source_access`: two campaigns, threshold two, windows and lifetimes of two ticks, four
  ticks: a window can open, end, and be opened again; 2.96 million states.
- `stages`: for `Clusters`, four listings of every mixture of kinds. Three are needed for a
  chain, the fourth for a merge of two clusters of two. For `Inquiry`, requests chosen for their
  cases: five languages, three rounds, a ceiling of twelve queries, four to a family, eight to a
  round, three hypotheses. Each cap is met, and the ceiling bites in the second round. For `Retrieval`,
  five kinds of listings, up to two found in each of two rounds, two compared of four: the second round
  can displace the first. For `Verification`, one listing and two looks, with a page of every make-up of
  its five sections, in yen or not.
- `listings`: two listings of four offers, two rounds, one page short, one change of a shop, one
  crash, one refresh; 9.8 million states under symmetry. The offers are at the edges: one is over the gate
  of the item match only by what lifts its lower bound, on a weak correspondence; a bag has no
  calibration and another seller's photograph; a dealer's replica scores as the item; one has two photographs and
  lacks a piece of evidence, 0.6499999999999999 against 0.65. The theorems cover any number.
- `fetching`: two sources and one checker, two pages, deadline four, delays two or three
  against one for robots, two attempts, four pages in all, one lapse of the
  robots file: a slot can lie within or past each deadline, and the limiter is replaced in
  both directions.
- `warm_index`: two campaigns, two listings of which one is on sale, one query, a lifetime that
  the one tick of the clock ends, one death; 0.83 million states. A campaign meets an index that is
  empty, half written and full, and one that the other is writing.

- `catalogue`: two shops, four products, a collection, two sitemaps and three feed pages; page
  ceiling three, walks of up to two pages, promotions one for a source and two in all, members
  two of an index and two in all, two items of work, depth one: each cap is met, by one source and by both
  together. A feed answers a page of two, the same page again, one whose first product
  has no handle, or nothing; 0.55 million states.

Runs that may stop (a campaign that ended, a worker that left) say so with
`CHECK_DEADLOCK FALSE`; the liveness properties are what forbids stopping early.

### Fairness

Threads are operating-system threads or processes whose requests time out and whose
waits are capped (retry delays at five seconds), so each has
weak fairness on its next step, the one that serves a cancel request in `Orchestrator` included, and in
`Fetching` the clock has it too. The event loop keeps polling and a client that lost
its connection comes back (`StreamedSpec`). `WarmIndex` assumes that a campaign that was
stopped is resumed, which is the operator's part; what `ResumeEnds` then says is
that no number of resumes is wasted. Nothing obliges anyone to cancel, crash,
start a further round, plan a campaign, change a listing or ask for a refresh.

## The proofs

Eight modules are checked by TLAPS to the last leaf, for every value of the constants
under the named assumptions of the modules. Where a run checks the same property, it shows that
the states in question are reached.

- `Campaign_proofs`, of `CampaignController` and `EventStream`. `TypeCorrect`. `RowImplementsLife`:
  `Spec => Life!Spec`; the row
  changes in `CommitRow` only, where the version read earlier equals the row's, and the
  inductive invariant says that a thread past its read whose version still matches
  read the very row that is there, and that its target was legal from what it read.
  Without it the commit could write an edge from a state that is gone.
  `CancelBoundsWork`: a worker that is past its flag check owes at most one write, and
  one that has written after the flag was set is at no place from which it writes
  again without a check.
  `LogIsTheRowsHistory`: the log alone is not inductive, because the row is written before its
  event. The invariant is about *voices*, the events in the log together with those a thread
  has still to append: each version has one (`NoVersionUntold`, until a process
  dies), none has two (`OneVoiceEach`), and the voices of two versions in a row say a legal edge.
  `StreamHasNoGap`, `StreamEndsComplete`: a connected client has exactly what lies before the
  generator's cursor, one that is not connected some first part of the log.
- `Orchestrator_proofs`. `OrchestratorTypes`; `FailuresExplained` (`FailureIsExplained`): what a worker
  leaves on disk, the state and the marked stages, always fit each other (`DiskFits`), so that the
  next worker finds its place again or asks for one of the five transitions. Stages are marked from
  the front without a hole (`Ready`), but for what a worker without the routing layer leaves
  (`Detoured`). `NothingTwice` (`PublishedOnce`): what a handler has still to write is not written
  yet. `EvidenceIsSeen` (`EvidenceIsPublished`): as long as nothing has gone wrong, each listing with
  evidence is decided once RANKING is marked and shown once PUBLISHING is, and salvage takes up
  what a budget stop left between the two (`EvidenceKept`). These three leave the race of a cancel with a
  worker's transition aside: whatever the two do, a step of the campaign is one of those `NextIs`
  lists, because a worker between its look and its write, and a cancel that has read the row, still
  find what they saw or are refused (`RaceFits`). `WorkerStays` takes the race up again: a campaign's first
  worker leaves it open only if its process dies, or to a cancel that has still to write the row or
  has lost it (`LeavesIInv`). It is the part of `CampaignEnds` that needs no fairness. The proof of
  `FailuresExplained` found the fifth kind of refusal, which one resume does not reach.
- `Api_proofs`, of `Budget` and `Service`. `BudgetTypeCorrect`, `CeilingHolds`: reservation keeps the
  sum under the ceiling by its guard, commit moves an amount from reserved to committed; what is
  stored was some process's usage, so it is restored under the ceiling.
  `SpendingStaysClose` (`OvershootBounded`): while one process works and does not die, a page that is being
  asked for is paid for (`PagesPaid`), and the images stored are those paid for and those being
  paid for; a thread stores one only after it saw the usage, which never falls, below the ceiling, so that
  with what is under way it is crossed by the other threads' at most (`ImagesPaid`). After a refused payment no thread begins another image
  (`ImagesFinishing`). Both count threads, so the pool is finite.
  `CreatesAreIdempotent` (`StartedOnce`) and `PurgeIsLasting` (`NothingAfterPurge`): a search that is
  not created is nobody's (`NothingBefore`); from the purge to the mark of the row nobody else knows
  of a search that was not raced (`PurgeAlone`), and nobody does afterwards (`DeletedAlone`). The
  steps of the module are of seven kinds (a search is created, a thread works, a request comes in,
  writes, or waits, a purge, a restart), and the argument is made for each kind.
  `SourcesAreTold` (`EverySourceTold`): what is told of the sources is one entry to a source, since the names in
  the order differ, and the walk over them leaves none out (`CoverageInv`); a row with an end of its own
  has its thread at the accounting or past it (`Stray`), so none that a refused budget stop left has one.
- `Discovery_proofs`. `DiscoveryTypeCorrect`, `PagesStaySettled`, `CancelBoundsFetching`. Settled
  pages rest on `ItemsAtWork`: the page a thread fetches and the rest of its batch are in
  flight, and the page is no longer in the batch. The cancel rests on `LateOnce`: whoever
  is about to pay has looked at the flag since its last page. `FloorIsHeld` (`FloorHeld`): what the
  claims leave never falls below the sum of the floors of the sources that are not finished. A claim takes
  from its own source's floor first, and a source that finishes gives its floor up.
- `ContentStore_proofs`. `StoreTypeCorrect`, `Isolation`, `CacheHasBodies`. The invariant is
  about the index, the temporary file and every thread's copy alike (`Attribution`:
  each owner in any of them began to store what it owns), because without the lock
  any copy may become the index later.
  `DeletionLeavesNothing` (`DeletedIsGone`) and `PurgeSparesOthers` (`SerialStoreKeeps`) are about operations
  that do not overlap, whatever step the process dies at. Then (`Undisturbed`) one thread is at work, its
  copy is the index with its own change, an object of one owner is gone before the owner is, and
  nothing names a campaign that was deleted without a worker.
- `Sources_proofs`, of `SourceAccess` and `Fetching`. `RobotsLifetime` rests on the two dates of a
  snapshot (`Dated`), `OneVerdictOnHealth` and `NoFailureInvented` on what `record` makes of any row,
  `BlockIsFinal` on `BlockHeld`: while no two records have overlapped, whoever is about to write
  has read the row that is there. `FetchTypeCorrect`, `SlotsStayApart` (`SlotsApart`), for any number of threads, deadlines
  and delays: two slots of one limiter are at least its gap apart, because the limiter's last slot lies
  ahead of every slot that was given, and whoever sleeps to one wakes with the last of them at the latest (`SlotsGiven`);
  those asleep to slots of one limiter ask the same kind of thing (`SlotsAlike`). `FetchInvariance` is all of it.
- `Candidates_proofs`, of `Clusters`, `Catalogue` and `WarmIndex`. `NoListingWithoutReason` is stated over labellings: any
  labelling that respects the links is constant on every cluster, through each merge. `NoListingLost` needs the least
  element of a set of listings, which is derived from the well-foundedness of the naturals.
  `OneIdToACluster`: if every listing has an id, no pass puts two ids into one cluster.
  `OneAccount` (`ReceiptsChain`) and `CapsAreKept`: each receipt begins where the one before it ended and the last
  ends at the counters, because the counters move under the lock together with the receipts (`LockHeld`: who is between the two ends of a
  locked section has the lock); a walk goes on from where the counters stand and has passed no cap (`WalkGoesOn`),
  and so the counters stay at the caps (`CapsHold`). `CatalogueInvariance` is their invariant.
  `EachIsTakenOnce` (`OnceOnly`), `OffersAreTakenOver` (`IndexIsTakenOver`) and `LiveWhileItLasts` (`LiveIsRecent`):
  the tables alone are not inductive, since a script was computed from tables that have changed. The invariant is about
  what a script still *claims* (`Fits`): rows that are in no table, each claimed by one write. What the index offered is among the
  candidates or awaited by a write of the step that asked it (`TakenOver`), which comes before the mark (`Placed`, `Course`). No row, whether in a
  table, in the index or in a script, is younger than the last live stage that had its listing (`RowsDated`).
- `Listings_proofs`, of `Evidence`, `Verdict`, `Listings` and `Display`. Theorems about the scores for every
  input: no price raises one, a hard contradiction holds either below every gate, calibration is monotone and
  without it the gate is out of reach, and more photographs take no contradiction back. All properties of `Listings` for
  any listings, rounds and crashes; a decision is made once, of all listings together (`DecisionsStep`), a result once from the
  decisions (`ResultsStep`), and what both rest on is never taken back (`Standing`).
  `RealEarned` (`RealIsEarned`) has two halves. The invariant says that what is published as real passed the gates in its own
  scores (`PublishedRight`); `PassedIsEarned` reads the gates back into what was measured, by the arithmetic of the
  item match (`MatchNeeds`), of calibration (`AuthNeeds`) and of completeness (`CompletenessNeeds`).
  `CardsAreAsDecided` (`ShownAsDecided`), `LabelsAreTrue` (`LabelsFitTabs`) and `NothingIsTakenBack` (`ShownStays`), for any
  hauls and rounds: a card is read in pieces while the worker goes on. `RowsInv` says what the tables agree on at
  any moment (a result has its decision, a decision its scores, and each was made of the listing as it was found),
  `PagesInv` what a page that is half read has from rows that have changed since.

`PlanAgreesWithCircuit`, `FailuresEarned`, `RealAfterLiveStage`, `RowWasShown`, `ReplicaApart`,
`StolenPhotoBarred`, `EndsWithNothingUnsent` and `SerialStoreKeeps` are proved and are not among the runs.

Assumed of the constants, beyond what kind of thing each is: finitely many sources (`Discovery`, `Catalogue`),
with finite sets of queries and of admitted pages, and feed pages that are sequences
(`Catalogue`); a pool
that is finite and has a worker (`PoolAssumption`: `min(8, len(eligible))` threads, and
`map_by_host` works in the calling thread when there is one host only); in the content
store, a file that is not JSON, and an entry that is absent, are no set of campaigns (`FileConstants`); finitely
many searches, numbered as they are created (`SearchesAssumption`); sources with ids of their own (`OrderAssumption`)
and no source twice in what a discovery reports (`WalksAssumption`); a pack without repetitions, of at most fifty listings (`IndexConstants`);
at least one round, and hauls that are sequences of listings (`LapsAssumption`, `HaulsAssumption`).

The induction theorems of the library cannot be instantiated by the provers here. Where an argument needs
induction (a sum over a set, a greatest element, a chain of steps in a walk), it is made by way of a least
counterexample, from the well-foundedness of the naturals (`LeastNat`, `GreatestNat`, `WalkExists`, `SumIsCount`).

Only model-checked:

- liveness (`CampaignEnds`, `StreamEnds`, `DiscoveryEnds`, `FetchesEnd`, `WalksEnd`, `ResumeEnds`): it rests on
  fairness and ENABLED, which the prover does not reach;
- `LanguagesCovered`, `NothingAskedTwice`, `GroupsAreComponents` (`Inquiry`), `BestAreCompared` (`Retrieval`) and
  `UnchangedIsNotContradicted` (`Verification`): they say what nested folds, sorts and selections compute from a sequence
  of any length, and the community modules define sorting and selection by recursion, which the provers
  do not unfold;
- `HiddenAreCounted`, `ListedOnce`, `YieldsAreReal`, `StageOncePerRound`, `UniqueAngleGains` and `TabsKeepOrder`, which
  no run lists: on the same instances.

## What is abstracted

Scores, texts, URLs and images are members of small sets; parsing and network answers
are nondeterministic choices; a SQLite statement or transaction is one atomic step
(the connection admits one writer). `Orchestrator` and `WarmIndex` treat a read-modify-write of the
runtime blob as one step: that `update_runtime` called without the
lock of `workers/locks.py` loses a record is modelled in `Catalogue` only. The token bucket of
`sources/rate_limit.py` belongs to an escalator and the bounded engine drops it. In `Inquiry` the word
tables hold the words its inputs use, and drafts of equal rank keep the order they were
made in where the code goes on to compare their texts. In `Service` and `Display` no statement fails
half way, and a search that is worked on while it is purged is named in `raced` rather than
followed row by row.

## Not modelled

Adapters of single sites and manifests: parsing and building of strings without
state of their own. The measuring of images (`integrations/`, the measuring half of `matching/` and of
`reference/`) and the embeddings. The API's capabilities, settings and static files, the command line,
the frontend, benchmarks, scripts and recorded artifacts. `run_task` and `commit_packet`, which only the fixture runner calls.
Migrations and plain queries.
