------------------------------- MODULE Service --------------------------------
(***************************************************************************)
(* The API process: what the requests of api/ (create, cancel, delete,     *)
(* feedback, refresh) and the threads of workers/api_campaign.py do to the *)
(* rows of storage/repositories.py and to each other.  create_search is a  *)
(* coroutine without an await between its look at the client's key and the *)
(* start of the thread, so that creates exclude each other; the others run *)
(* in a thread pool, in steps that interleave.  Of a table the model keeps *)
(* whether it has rows of a search; the stages of a worker are taken apart *)
(* only as far as cancellation and deletion reach into them.               *)
(*                                                                         *)
(* A form has key, images ("none", "fine", "many", "bad") and hostile.  A  *)
(* source has id, made (its manifest can be had), enabled, secret (its     *)
(* requires_operator_credential), barred, speaks (a language of some query,*)
(* or English, or it is general) and answers (its health_check).           *)
(***************************************************************************)
EXTENDS Integers, FiniteSets

CONSTANTS Searches,     \* how many searches may be created: bound
          Forms,        \* what a create may bring
          NoKey,        \* no client_search_id
          Order,        \* the sources of DEFAULT_ORDER
          Walks,        \* what a discovery may report: sequences of [id, outcome]
          Slots,        \* the requests the thread pool serves at once: bound
          MaxRequests,  \* and those it ever serves: bound
          MaxRestarts   \* bound

ASSUME SearchesAssumption == Searches \in Nat

\* No name is twice in DEFAULT_ORDER; a discovery keeps what it found by source (per_source).
ASSUME OrderAssumption == \A a, b \in Order : a.id = b.id => a = b
ASSUME WalksAssumption ==
    \A walk \in Walks : \A j, k \in DOMAIN walk : walk[j].id = walk[k].id => j = k

VARIABLES live,         \* settings.live_discovery
          row,          \* the campaigns row of each search
          tables,       \* the other tables with rows of it
          thread,       \* AppState.threads: where it is, and how often one was started
          cancelled,    \* the registry of cancellations, in memory
          request,      \* the request in each slot
          served,       \* how many there have been
          coverage,     \* runtime_json["coverage"]: the entries of its two lists of sources
          restarts,
          raced         \* history: searches that others worked on while they were purged

serviceVars == <<live, row, tables, thread, cancelled, request, served, coverage,
                 restarts, raced>>

Ids == 1..Searches
Idle == [kind |-> "none", s |-> 0, at |-> "idle"]
EmptyCoverage == {}
Ended == {"COMPLETE", "BLOCKED", "FAILED", "CANCELLED"}

-------------------------------------------------------------------------------
(* The tables that a write leaves a row in *)

LogRows == {"events"}
CheckpointRows == {"checkpoints"}
ReceiptRows == {"receipts"}
EvidenceRows == {"evidence_metadata"}
FeedbackRows == {"feedback"}
UsageRows == {"budget_usage"}
TaskRows == {"tasks"}
WaveRows ==
    {"hypotheses", "queries"} \cup TaskRows \cup CheckpointRows \cup LogRows \cup ReceiptRows
RunRows == {"source_runs", "fetch_attempts"}
PageRows == {"discovery_pages"}
FrontierRows == {"frontier"}
ListingRows == {"candidates", "candidate_images"}
DiscoveryRows ==
    RunRows \cup PageRows \cup FrontierRows \cup ListingRows \cup UsageRows \cup LogRows
ClusterRows == {"clusters"}
JudgedRows == ClusterRows \cup EvidenceRows \cup {"scores", "decisions"} \cup LogRows
ResultRows == {"results"} \cup LogRows
EndRows == CheckpointRows \cup ReceiptRows \cup LogRows

Write(s, names) == tables' = [tables EXCEPT ![s] = @ \cup names]

\* purge_campaign_private_rows: what none of its statements deletes.
Kept == {"receipts", "frontier"}

\* _seal_terminal, unless the row has ended or the cancellation is already asked for.
Sealed(s, state) == IF row[s].state = "open" /\ s \notin cancelled THEN state ELSE row[s].state
Seal(s, state) ==
    /\ row' = [row EXCEPT ![s].state = Sealed(s, state)]
    /\ Write(s, IF Sealed(s, state) # row[s].state THEN EndRows ELSE {})

-------------------------------------------------------------------------------
(* POST /v1/searches *)

\* parse_create_form, and _reject_hostile_fields: nothing is written.
Refused(form) == form.images # "fine" \/ form.hostile

ByKey(key) == {s \in Ids : row[s].state # "none" /\ ~row[s].deleted /\ row[s].key = key}

\* Mutated form of Existing: the look at the key is left to the insert.
NotLooked(form) == {}

\* find_by_client_search_id: such a create is answered with the search that there is.
Existing(form) == IF form.key = NoKey THEN {} ELSE ByKey(form.key)

Fresh == {s \in Ids : row[s].state = "none"}

\* The unique index on the key of what is not deleted: the insert gives the search back.
Inserted(form) ==
    IF form.key # NoKey /\ ByKey(form.key) # {} THEN ByKey(form.key)
    ELSE {s \in Fresh : \A r \in Fresh : s <= r}

StartThread(s) == thread' = [thread EXCEPT ![s] = [at |-> "begin", starts |-> @.starts + 1]]

\* The photographs are ingested after the row is there: one that cannot be ends it, and
\* the client gets an error for a search that keeps its key.
Ingested(s, form, how) ==
    /\ row' = [row EXCEPT ![s] = [state |-> CASE how = "fine" -> "open"
                                              [] how = "internal" -> "FAILED"
                                              [] OTHER -> "BLOCKED",
                                  key |-> form.key, deleted |-> FALSE, intent |-> TRUE]]
    /\ Write(s, UsageRows \cup LogRows \cup IF how = "fine" THEN EvidenceRows ELSE EndRows)
    /\ IF how = "fine" THEN StartThread(s) ELSE UNCHANGED thread

CreateSearch(form, how) ==
    /\ ~Refused(form) /\ Existing(form) = {}
    /\ \E s \in Inserted(form) :
          \/ s \in Fresh /\ Ingested(s, form, how)
          \/ s \notin Fresh /\ row[s].state = "open" /\ StartThread(s) /\ UNCHANGED <<row, tables>>
    /\ UNCHANGED <<live, cancelled, request, served, coverage, restarts, raced>>

-------------------------------------------------------------------------------
(* run_api_campaign *)

\* A thread has returned, "left" if an exception took it past the accounting of sources.
Returned == {"none", "over", "left"}

Goes(s, at) == thread' = [thread EXCEPT ![s].at = at]
Stopped(s) == s \in cancelled \/ row[s].state # "open"
rest == <<live, cancelled, request, served, restarts, raced>>

Begin(s) ==
    /\ thread[s].at = "begin"
    /\ Goes(s, IF Stopped(s) \/ row[s].deleted THEN "over" ELSE "wave")
    /\ UNCHANGED <<rest, row, tables, coverage>>

LiveStages == <<"wave", "discover", "judge", "publish", "seal">>
ReferenceStages == <<"wave", "consult", "seal">>
Stages == IF live THEN LiveStages ELSE ReferenceStages
NextStage(stage) ==
    LET n == CHOOSE k \in DOMAIN Stages : Stages[k] = stage IN Stages[n + 1]

RowsOf(stage) ==
    CASE stage = "wave" -> WaveRows
      [] stage = "discover" -> DiscoveryRows
      [] stage = "judge" -> JudgedRows
      [] stage = "publish" -> ResultRows
      [] stage = "consult" -> ListingRows \cup JudgedRows \cup ResultRows

\* The orchestrator returns from a cancellation or a failure as from an end, and the sources
\* are accounted for in each case; without discovery the thread is at its end.  What the stop
\* of a budget may do instead is StopLooks' and StopEnds' to say.
AfterStop == IF live THEN "account" ELSE "over"

\* Where the thread is once a stage has begun.
Underway ==
    [ wave |-> "wave.work", discover |-> "discover.work", judge |-> "judge.work",
      publish |-> "publish.work", consult |-> "consult.work", seal |-> "seal.work" ]

\* A stage begins with a transition, which a cancellation or an ended row refuses.
Look(s, stage) ==
    /\ thread[s].at = stage
    /\ Goes(s, IF Stopped(s) \/ (~live /\ row[s].deleted) THEN AfterStop ELSE Underway[stage])
    /\ UNCHANGED <<rest, row, tables, coverage>>

\* An entry of the coverage: the source, the list it is in, and who put it there, so that
\* what two of them say of a source are two entries.
Entry(id, outcome, by, list) == [id |-> id, outcome |-> outcome, by |-> by, list |-> list]

\* _ui_coverage: what is no block counts as completed, failures of a source included.
CountsAsBlocked ==
    {"BLOCKED_BY_ACCESS", "BLOCKED_BY_POLICY", "AUTH_REQUIRED", "RATE_LIMITED",
     "SOURCE_UNAVAILABLE", "UNMEASURABLE"}
UiCoverage(walk) ==
    {Entry(walk[k].id, walk[k].outcome, "discovery",
           IF walk[k].outcome \in CountsAsBlocked THEN "blocked" ELSE "completed") :
        k \in DOMAIN walk}

Work(s, stage) ==
    /\ thread[s].at = Underway[stage]
    /\ stage # "seal"
    /\ Write(s, RowsOf(stage))
    /\ Goes(s, NextStage(stage))
    /\ IF stage = "discover"
       THEN \E walk \in Walks : coverage' = [coverage EXCEPT ![s] = UiCoverage(walk)]
       ELSE UNCHANGED coverage
    /\ UNCHANGED <<rest, row>>

\* A photograph that cannot be read, or no room, ends it as BLOCKED without discovery; with
\* discovery the orchestrator fails it itself, unless it is the budget that is exceeded.
Raise(s, stage, how) ==
    /\ thread[s].at = Underway[stage]
    /\ Seal(s, IF live \/ how = "internal" THEN "FAILED" ELSE "BLOCKED")
    /\ Goes(s, AfterStop)
    /\ UNCHANGED <<rest, coverage>>

\* _salvage_publish: what is scored is ranked and published.
Salvaged(s, names) ==
    IF row[s].state = "open" /\ "scores" \in names THEN {"decisions"} \cup ResultRows ELSE {}

Charging == {"wave", "discover", "judge", "publish"}

\* The photographs or the pages of a stage exceed the budget, or the wall clock does before a
\* stage or between two that the model takes as one.  Before DISCOVERING there is no edge to
\* PARTIAL yet, so that such a stop is early.
BudgetStop(s, stage, early) ==
    /\ live
    /\ stage = "wave" => early
    /\ stage \in {"judge", "publish"} => ~early
    /\ \/ /\ thread[s].at = stage /\ stage # "wave" /\ ~Stopped(s)
          /\ stage = "discover" => early
          /\ Write(s, Salvaged(s, tables[s])) /\ UNCHANGED coverage
       \/ /\ thread[s].at = Underway[stage]
          /\ \E names \in IF early THEN {{}} ELSE {{}, RowsOf(stage)} :
                Write(s, names \cup Salvaged(s, tables[s] \cup names))
          /\ \/ UNCHANGED coverage
             \/ /\ stage = "discover" /\ ~early
                /\ \E walk \in Walks : coverage' = [coverage EXCEPT ![s] = UiCoverage(walk)]
    /\ Goes(s, IF early THEN "early" ELSE "stop")
    /\ UNCHANGED <<rest, row>>

\* _terminate within the handler of BudgetExceeded.  What its transition raises leaves run(),
\* and run_api_campaign with it: of a cancellation nothing more is made, anything else is
\* failed by _fail, and in no case are the sources accounted for.
StopLooks(s) ==
    /\ thread[s].at \in {"stop", "early"}
    /\ CASE row[s].state # "open" -> Goes(s, "account") /\ UNCHANGED <<row, tables>>
         [] row[s].state = "open" /\ thread[s].at = "stop" /\ s \notin cancelled ->
                Goes(s, "ending") /\ UNCHANGED <<row, tables>>
         [] OTHER -> Goes(s, "left") /\ Seal(s, "FAILED")
    /\ UNCHANGED <<rest, coverage>>

\* The version-checked write of PARTIAL, for which "COMPLETE" stands: a cancel that got its
\* row written since the look makes it raise.
StopEnds(s) ==
    /\ thread[s].at = "ending"
    /\ IF row[s].state = "open"
       THEN /\ row' = [row EXCEPT ![s].state = "COMPLETE"]
            /\ Write(s, EndRows) /\ Goes(s, "account")
       ELSE Goes(s, "left") /\ UNCHANGED <<row, tables>>
    /\ UNCHANGED <<rest, coverage>>

\* blocked_discovery_coverage.
NoDiscovery == {Entry("live_discovery", "SOURCE_UNAVAILABLE", "discovery", "blocked")}

\* "COMPLETE" stands for whichever end the orchestrator chooses, PARTIAL among them.
SealWork(s) ==
    /\ thread[s].at = "seal.work"
    /\ Seal(s, IF live THEN "COMPLETE" ELSE "BLOCKED")
    /\ coverage' = IF live THEN coverage ELSE [coverage EXCEPT ![s] = NoDiscovery]
    /\ Goes(s, AfterStop)
    /\ UNCHANGED rest

\* What SourceBroker.plan records of a source that it leaves out, without health records,
\* families or a budget; what it plans is told to have had no budget.
Declined(src) ==
    CASE ~src.made -> "UNMEASURABLE"
      [] src.made /\ ~src.enabled -> "BLOCKED_BY_POLICY"
      [] src.made /\ src.enabled /\ src.secret -> "AUTH_REQUIRED"
      [] src.made /\ src.enabled /\ ~src.secret /\ src.barred -> "BLOCKED_BY_POLICY"
      [] src.made /\ src.enabled /\ ~src.secret /\ ~src.barred /\ ~src.speaks -> "NOT_ATTEMPTED"
      [] src.made /\ src.enabled /\ ~src.secret /\ ~src.barred /\ src.speaks /\ ~src.answers ->
             "SOURCE_UNAVAILABLE"
      [] OTHER -> "UNMEASURABLE"

\* _coverage_source_ids
Seen(cov) == {e.id : e \in cov}

LeftOut(sources) == {Entry(src.id, Declined(src), "account", "blocked") : src \in sources}

\* Mutated form of Accounted: every source is told of.
AccountedAgain(cov) == cov \cup LeftOut(Order)

Accounted(cov) == cov \cup LeftOut({src \in Order : src.id \notin Seen(cov)})

\* account_for_every_known_source; a search without queries is left as it is.
Account(s) ==
    /\ thread[s].at = "account"
    /\ IF "queries" \in tables[s] /\ Accounted(coverage[s]) # coverage[s]
       THEN coverage' = [coverage EXCEPT ![s] = Accounted(@)] /\ Write(s, LogRows)
       ELSE UNCHANGED <<coverage, tables>>
    /\ Goes(s, "over")
    /\ UNCHANGED <<rest, row>>

-------------------------------------------------------------------------------
(* The requests of the thread pool *)

\* Mutated form of Found: the row is enough.
FoundAtAll(s) == row[s].state # "none"

\* require_campaign
Found(s) == row[s].state # "none" /\ ~row[s].deleted

Step(r, at) == request' = [request EXCEPT ![r].at = at]
Finish(r) == request' = [request EXCEPT ![r] = Idle]
InPurge(s) == \E r \in Slots : request[r].kind = "delete" /\ request[r].s = s
                               /\ request[r].at \in {"redact", "mark"}
Enter(r, kind, s, at) ==
    /\ request[r] = Idle /\ \A q \in Slots : q < r => request[q] # Idle
    /\ served < MaxRequests /\ served' = served + 1
    /\ request' = [request EXCEPT ![r] = [kind |-> kind, s |-> s, at |-> at]]
    /\ raced' = IF InPurge(s) THEN raced \cup {s} ELSE raced
others == <<live, thread, coverage, restarts>>
steady == <<others, served>>

asked == <<others, row, tables, cancelled>>

BeginCancel(r, s) == Found(s) /\ Enter(r, "cancel", s, "flag") /\ UNCHANGED asked
BeginDelete(r, s) == Found(s) /\ Enter(r, "delete", s, "flag") /\ UNCHANGED asked
BeginRefresh(r, s) == Found(s) /\ Enter(r, "refresh", s, "check") /\ UNCHANGED asked

\* submit_feedback asks for the result's row, then whether its search is deleted.
BeginFeedback(r, s) ==
    /\ "results" \in tables[s] /\ ~row[s].deleted
    /\ Enter(r, "feedback", s, "evidence")
    /\ UNCHANGED asked

At(r, kind, at) == request[r].kind = kind /\ request[r].at = at

\* The registry is told first; a cancel then waits a little, a delete up to two seconds.
Flag(r) ==
    /\ request[r].at = "flag"
    /\ cancelled' = cancelled \cup {request[r].s}
    /\ Step(r, IF request[r].kind = "cancel" THEN "end" ELSE "wait")
    /\ UNCHANGED <<steady, row, tables, raced>>

CancelRow(r) ==
    LET s == request[r].s
    IN  /\ At(r, "cancel", "end")
        /\ IF row[s].state = "open"
           THEN /\ row' = [row EXCEPT ![s].state = "CANCELLED"]
                /\ Write(s, CheckpointRows \cup LogRows)
           ELSE UNCHANGED <<row, tables>>
        /\ Finish(r)
        /\ UNCHANGED <<steady, cancelled, raced>>

\* wait_for_campaign ends with the thread, or in its time.
Wait(r) ==
    /\ At(r, "delete", "wait") /\ Step(r, "purge")
    /\ UNCHANGED <<steady, row, tables, cancelled, raced>>

AtWork(s, r) ==
    \/ thread[s].at \notin Returned
    \/ \E q \in Slots \ {r} : request[q].s = s

\* controller.delete asks again whether the search is deleted.
PurgeRows(r) ==
    LET s == request[r].s
    IN  /\ At(r, "delete", "purge")
        /\ IF row[s].deleted THEN Finish(r) /\ UNCHANGED <<tables, raced>>
           ELSE /\ Step(r, "redact")
                /\ tables' = [tables EXCEPT ![s] = @ \cap Kept]
                /\ raced' = IF AtWork(s, r) THEN raced \cup {s} ELSE raced
        /\ UNCHANGED <<steady, row, cancelled>>

RedactIntent(r) ==
    /\ At(r, "delete", "redact")
    /\ row' = [row EXCEPT ![request[r].s].intent = FALSE]
    /\ Step(r, "mark")
    /\ UNCHANGED <<steady, tables, cancelled, raced>>

MarkDeleted(r) ==
    /\ At(r, "delete", "mark")
    /\ row' = [row EXCEPT ![request[r].s].deleted = TRUE]
    /\ Write(request[r].s, ReceiptRows)
    /\ Finish(r)
    /\ UNCHANGED <<steady, cancelled, raced>>

FeedbackEvidence(r) ==
    /\ At(r, "feedback", "evidence")
    /\ Write(request[r].s, EvidenceRows) /\ Step(r, "row")
    /\ UNCHANGED <<steady, row, cancelled, raced>>
InsertFeedback(r) ==
    /\ At(r, "feedback", "row")
    /\ Write(request[r].s, FeedbackRows \cup ReceiptRows) /\ Finish(r)
    /\ UNCHANGED <<steady, row, cancelled, raced>>

RefreshLive(r) ==
    LET s == request[r].s
    IN  /\ At(r, "refresh", "check")
        /\ Write(s, IF live /\ "results" \in tables[s] THEN ListingRows ELSE {})
        /\ Step(r, "tell")
        /\ UNCHANGED <<steady, row, cancelled, raced>>
RefreshTold(r) ==
    /\ At(r, "refresh", "tell")
    /\ Write(request[r].s, LogRows \cup ReceiptRows) /\ Finish(r)
    /\ UNCHANGED <<steady, row, cancelled, raced>>

-------------------------------------------------------------------------------
(* The process ends, with or without the second that its threads are given to see it; no *)
(* search is taken up again by the next one.                                             *)
Restart ==
    /\ restarts < MaxRestarts
    /\ restarts' = restarts + 1
    /\ thread' = [s \in Ids |-> [thread[s] EXCEPT !.at = "none"]]
    /\ cancelled' = {} /\ request' = [r \in Slots |-> Idle]
    /\ UNCHANGED <<live, row, tables, served, coverage, raced>>

ServiceInit ==
    /\ live \in BOOLEAN
    /\ row = [s \in Ids |-> [state |-> "none", key |-> NoKey, deleted |-> FALSE, intent |-> FALSE]]
    /\ tables = [s \in Ids |-> {}]
    /\ thread = [s \in Ids |-> [at |-> "none", starts |-> 0]]
    /\ cancelled = {} /\ request = [r \in Slots |-> Idle] /\ served = 0
    /\ coverage = [s \in Ids |-> EmptyCoverage]
    /\ restarts = 0 /\ raced = {}

ServiceNext ==
    \/ \E form \in Forms, how \in {"fine", "input", "internal"} : CreateSearch(form, how)
    \/ \E s \in Ids :
          \/ Begin(s) \/ SealWork(s) \/ Account(s) \/ StopLooks(s) \/ StopEnds(s)
          \/ \E stage \in Charging, early \in BOOLEAN : BudgetStop(s, stage, early)
          \/ \E stage \in {LiveStages[k] : k \in 1..5} \cup {"consult"} :
                \/ Look(s, stage) \/ Work(s, stage)
                \/ \E how \in {"input", "internal"} : Raise(s, stage, how)
    \/ \E r \in Slots :
          \/ \E s \in Ids : \/ BeginCancel(r, s) \/ BeginDelete(r, s)
                             \/ BeginRefresh(r, s) \/ BeginFeedback(r, s)
          \/ Flag(r) \/ CancelRow(r) \/ Wait(r) \/ PurgeRows(r) \/ RedactIntent(r) \/ MarkDeleted(r)
          \/ FeedbackEvidence(r) \/ InsertFeedback(r) \/ RefreshLive(r) \/ RefreshTold(r)
    \/ Restart

ServiceSpec == ServiceInit /\ [][ServiceNext]_serviceVars

-------------------------------------------------------------------------------
(* Properties *)

\* docs/architecture/API.md:60: "`client_search_id` is idempotent: the same key returns the
\* existing campaign".  A create that is sent again starts nothing again: however creates, deletes,
\* cancels, failed uploads and a restart follow each other, no search ever gets a second
\* thread, and no two searches that are not deleted have the same client's key.
StartedOnce ==
    /\ \A s \in Ids : thread[s].starts <= 1
    /\ \A s, t \in Ids :
           s # t /\ Found(s) /\ Found(t) => row[s].key # row[t].key \/ row[s].key = NoKey

\* When the thread of a search with queries is over, each known source is told of in its
\* coverage, and in one place, whether the search came to its end, ran out of its budget,
\* failed or was cancelled before or after it was on the sources.  Only a stop of the budget
\* whose own transition is refused, for a cancel that overtakes it or for an edge the graph
\* has not got yet, passes the accounting by; there too no source is told of twice, and the
\* search is not one that came to an end.
EverySourceTold ==
    live => \A s \in Ids, src \in Order : "queries" \in tables[s] =>
        LET told == Cardinality({e \in coverage[s] : e.id = src.id})
        IN  /\ thread[s].at = "over" => told = 1
            /\ thread[s].at = "left" => told <= 1 /\ row[s].state # "COMPLETE"

\* The docstring of account_for_every_known_source: "a source the broker declined is invisible
\* unless this step copies those reasons onto the campaign".  It fails: a refused stop of the
\* budget passes the step by.
NoSourceInvisible ==
    live => \A s \in Ids : thread[s].at \in {"over", "left"} /\ "queries" \in tables[s] =>
        \A src \in Order : src.id \in Seen(coverage[s])

\* A deleted search leaves no row that the purge is to take, and its words are redacted,
\* unless another was at work on it while it was purged: no later request writes to it.
NothingAfterPurge ==
    \A s \in Ids : row[s].deleted =>
        ~row[s].intent /\ (s \in raced \/ tables[s] \subseteq {"receipts", "frontier"})

===============================================================================
