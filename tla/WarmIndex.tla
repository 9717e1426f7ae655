------------------------------ MODULE WarmIndex ------------------------------
(***************************************************************************)
(* Campaigns of the scripted runner (FixtureRunner of fixtures/scripted.py,*)
(* `campaign create --fixture`, run, resume) and the warm index they share *)
(* (index/consult.py, index/store.py): a campaign consults the index       *)
(* before it asks its source, and remembers its listings when it has       *)
(* published.                                                              *)
(*                                                                         *)
(* run walks the steps that are not marked.  A handler reads its tables    *)
(* when it starts, returns if its work is there, and writes row by row: it *)
(* is the script of its writes, and a process may die between any two.     *)
(* Steps that write nothing the properties tell apart are left out.        *)
(*                                                                         *)
(* One source and one hypothesis, as the runner has them.  put_listing is  *)
(* one write of its three.  Cancelling is in CampaignController, the rule  *)
(* of the buckets in Verdict.                                              *)
(***************************************************************************)
EXTENDS Integers, SequencesExt

CONSTANTS
    Campaigns,
    Pack,          \* the listings of the source, in its order
    OnSale,        \* those it says are LIVE
    QueryTexts,    \* what _queries compiles
    Ttl,           \* liveness_ttl_seconds
    MaxTime, MaxCrashes  \* bounds: the clock; deaths of a process

ASSUME IndexConstants ==
    /\ Pack \in Seq(ToSet(Pack)) /\ Len(Pack) <= 50  \* the limit of search
    /\ \A i, j \in DOMAIN Pack : Pack[i] = Pack[j] => i = j
    /\ QueryTexts \in Seq(ToSet(QueryTexts))
    /\ OnSale \subseteq ToSet(Pack)
    /\ {Ttl, MaxTime, MaxCrashes} \subseteq Nat

Listings == ToSet(Pack)

Steps == <<"FORMING_HYPOTHESES", "PLANNING_QUERIES", "PLANNING_SOURCES",
           "DISCOVERING", "ACQUIRING", "NORMALIZING", "BROAD_RETRIEVAL",
           "FINE_MATCHING", "AUTHENTICITY_REVIEW", "LIVE_CHECKING", "RANKING",
           "PUBLISHING", "COMPLETE">>

VARIABLES
    state,      \* each campaign's row
    marked,     \* how many of the steps are in completed_steps
    facts,      \* its runtime keys, and its rows that need no order
    db,         \* its candidates, scores, decisions and results
    up,         \* whether a process runs it
    script,     \* the writes its handler has still to make
    index,      \* the index: listings and evidence by listing, query memory
    now,
    \* History.
    crashes,
    offered,    \* the listings the index held when the campaign searched it
    lastCheck   \* when a live stage last had the listing

campaign == <<state, marked, facts, db>>
warmVars == <<campaign, up, script, index, now, crashes, offered, lastCheck>>

Never == -Ttl - 1
Nothing == [url |-> "", availability |-> "", checked |-> Never]
Unmeasured == [match |-> "", authenticity |-> ""]

Tables == [candidates |-> <<>>, scores |-> <<>>, decisions |-> <<>>, results |-> <<>>]

WarmInit ==
    /\ state = [c \in Campaigns |-> "CREATED"]
    /\ marked = [c \in Campaigns |-> 0]
    /\ facts = [c \in Campaigns |-> {}]
    /\ db = [c \in Campaigns |-> Tables]
    /\ up = [c \in Campaigns |-> FALSE]
    /\ script = [c \in Campaigns |-> <<>>]
    /\ index = [listings |-> [u \in Listings |-> Nothing],
                evidence |-> [u \in Listings |-> Unmeasured],
                queries |-> {}]
    /\ now = 0 /\ crashes = 0
    /\ offered = [c \in Campaigns |-> {}]
    /\ lastCheck = [u \in Listings |-> Never]

\* What the tables, the index and a script are made of.
Rows == [url : Listings, availability : {"LIVE", "SOLD", "UNKNOWN"},
         checked : Never..MaxTime]
Levels == {"", "assumed", "measured"}
ScoreRows == [id : Nat, kind : {"broad", "fine", "authenticity", "utility"}, level : Levels]
Measures == [match : Levels, authenticity : Levels]
Facts == ToSet(QueryTexts) \union {"hypothesis", "primary", "run", "runId", "skip",
                                  "page", "fetched", "receipt", "search.complete"}

Writes ==
    [op : {"put", "need"}, fact : Facts]
        \union [op : {"candidate"}, row : Rows] \union [op : {"score"}, score : ScoreRows]
        \union [op : {"decision", "result", "keep"}, id : Nat]
        \union [op : {"check"}, id : Nat, at : 0..MaxTime]
        \union [op : {"search", "remember", "mark"}]
        \union [op : {"recall"}, hits : SUBSET Rows] \union [op : {"surface"}, hit : Rows]
        \union [op : {"replay"}, id : Nat, url : Listings]
        \union [op : {"evidence"}, url : Listings, levels : Measures]
        \union [op : {"query"}, text : ToSet(QueryTexts)]

WarmTypes ==
    /\ state \in [Campaigns -> {"CREATED"} \union ToSet(Steps)]
    /\ marked \in [Campaigns -> 0..Len(Steps)]
    /\ facts \in [Campaigns -> SUBSET Facts]
    /\ db \in [Campaigns -> [candidates : Seq(Rows), scores : Seq(ScoreRows),
                             decisions : Seq(Nat), results : Seq(Nat)]]
    /\ up \in [Campaigns -> BOOLEAN]
    /\ script \in [Campaigns -> Seq(Writes)]
    /\ index \in [listings : [Listings -> Rows \union {Nothing}],
                  evidence : [Listings -> Measures], queries : SUBSET ToSet(QueryTexts)]
    /\ now \in 0..MaxTime /\ crashes \in 0..MaxCrashes
    /\ offered \in [Campaigns -> SUBSET Listings]
    /\ lastCheck \in [Listings -> Never..MaxTime]

-----------------------------------------------------------------------------
(* The handlers, as the writes each has to make                            *)

\* A runtime key or a row; a runtime key that must be there.
Put(f) == [op |-> "put", fact |-> f]
Need(f) == [op |-> "need", fact |-> f]
\* Whether a kind has been scored, as _kind_scored asks, and the score of a candidate.
Scored(c, kind) == \E k \in DOMAIN db[c].scores : db[c].scores[k].kind = kind
Score(i, kind, level) ==
    [op |-> "score", score |-> [id |-> i, kind |-> kind, level |-> level]]
Decision(i) == [op |-> "decision", id |-> i]
Result(i) == [op |-> "result", id |-> i]

ForEach(c, W(_)) == [i \in DOMAIN db[c].candidates |-> W(i)]

\* Kept once a row of it is there, whatever is missing.
Once(there, writes) == IF there THEN <<>> ELSE writes

Hypotheses(c) == Once("hypothesis" \in facts[c], <<Put("hypothesis"), Put("primary")>>)

PlanQueries(c) ==
    Once(facts[c] \intersect ToSet(QueryTexts) # {},
         <<Need("primary")>> \o [i \in DOMAIN QueryTexts |-> Put(QueryTexts[i])])

\* consult_and_surface comes first, on every execution of the step.
PlanSources(c) == <<[op |-> "search"]>>
                    \o Once("run" \in facts[c], <<Put("run"), Put("runId")>>)

\* Mutated form of ReadPage: the page does not end it.
ReadPageAgain(c) == Once("skip" \in facts[c], <<Put("page"), Need("runId")>>)

\* The page is stored before the run it belongs to is looked up.
ReadPage(c) == Once({"skip", "page"} \intersect facts[c] # {}, <<Put("page"), Need("runId")>>)

Acquire(c) == Once({"skip", "fetched"} \intersect facts[c] # {}, <<Put("fetched")>>)

Normalize(c) ==
    Once(db[c].candidates # <<>>,
         [i \in DOMAIN Pack |->
            [op |-> "candidate", row |-> [url |-> Pack[i], checked |-> Never,
               availability |-> IF Pack[i] \in OnSale THEN "LIVE" ELSE "SOLD"]]])

Broad(c) ==
    Once(Scored(c, "broad"), ForEach(c, LAMBDA i : Score(i, "broad", "assumed")))

Fine(c) ==
    Once(Scored(c, "fine"), ForEach(c, LAMBDA i : Score(i, "fine", "measured")))

Authenticity(c) ==
    Once(Scored(c, "authenticity"), ForEach(c, LAMBDA i : Score(i, "authenticity", "measured")))

\* The time is that of the start of the handler.
Live(c) ==
    Once(Scored(c, "utility"), ForEach(c, LAMBDA i : [op |-> "check", id |-> i, at |-> now]))

Rank(c) == Once(db[c].decisions # <<>>, ForEach(c, Decision))

\* Mutated form of Publish: the results that are there are not looked at.
PublishAgain(c) ==
    [k \in DOMAIN db[c].decisions |-> Result(db[c].decisions[k])]
      \o <<[op |-> "remember"]>>

\* remember_campaign comes after, on every execution of the step.
Publish(c) ==
    Once(db[c].results # <<>>,
         [k \in DOMAIN db[c].decisions |-> Result(db[c].decisions[k])])
      \o <<[op |-> "remember"]>>

Complete(c) == <<Put("receipt"), Put("search.complete")>>

Handler(c, step) ==
    CASE step = "FORMING_HYPOTHESES" -> Hypotheses(c)
      [] step = "PLANNING_QUERIES" -> PlanQueries(c)
      [] step = "PLANNING_SOURCES" -> PlanSources(c)
      [] step = "DISCOVERING" -> ReadPage(c)
      [] step = "ACQUIRING" -> Acquire(c)
      [] step = "NORMALIZING" -> Normalize(c)
      [] step = "BROAD_RETRIEVAL" -> Broad(c)
      [] step = "FINE_MATCHING" -> Fine(c)
      [] step = "AUTHENTICITY_REVIEW" -> Authenticity(c)
      [] step = "LIVE_CHECKING" -> Live(c)
      [] step = "RANKING" -> Rank(c)
      [] step = "PUBLISHING" -> Publish(c)
      [] step = "COMPLETE" -> Complete(c)

-----------------------------------------------------------------------------
(* The runner                                                              *)

Ended(c) == state[c] = "COMPLETE"

\* run and resume: a terminal row ends them at once.
Run(c) ==
    /\ ~up[c] /\ ~Ended(c)
    /\ up' = [up EXCEPT ![c] = TRUE]
    /\ UNCHANGED <<campaign, script, index, now, crashes, offered, lastCheck>>

\* _enter moves the row, and _execute starts the handler.
Begin(c) ==
    /\ up[c] /\ script[c] = <<>> /\ ~Ended(c)
    /\ LET step == Steps[marked[c] + 1] IN
         /\ state' = [state EXCEPT ![c] = step]
         /\ script' = [script EXCEPT ![c] = Append(Handler(c, step), [op |-> "mark"])]
    /\ UNCHANGED <<marked, facts, db, up, index, now, crashes, offered, lastCheck>>

Writing(c, op) == up[c] /\ script[c] # <<>> /\ Head(script[c]).op = op
Done(c) == script' = [script EXCEPT ![c] = Tail(@)]
Then(c, writes) == script' = [script EXCEPT ![c] = writes \o Tail(@)]

\* mark_step; after the last one the process ends.
Mark(c) ==
    /\ Writing(c, "mark") /\ Done(c)
    /\ marked' = [marked EXCEPT ![c] = @ + 1]
    /\ up' = [up EXCEPT ![c] = ~Ended(c)]
    /\ UNCHANGED <<state, facts, db, index, now, crashes, offered, lastCheck>>

PutFact(c) ==
    /\ Writing(c, "put") /\ Done(c)
    /\ facts' = [facts EXCEPT ![c] = @ \union {Head(script[c]).fact}]
    /\ UNCHANGED <<state, marked, db, up, index, now, crashes, offered, lastCheck>>

\* A KeyError ends the process.
NeedFact(c) ==
    /\ Writing(c, "need")
    /\ IF Head(script[c]).fact \in facts[c] THEN Done(c) /\ UNCHANGED up
       ELSE script' = [script EXCEPT ![c] = <<>>] /\ up' = [up EXCEPT ![c] = FALSE]
    /\ UNCHANGED <<campaign, index, now, crashes, offered, lastCheck>>

\* upsert_candidate, insert_score, insert_decision and insert_result.
InsertCandidate(c) ==
    /\ Writing(c, "candidate") /\ Done(c)
    /\ db' = [db EXCEPT ![c].candidates = Append(@, Head(script[c]).row)]
    /\ UNCHANGED <<state, marked, facts, up, index, now, crashes, offered, lastCheck>>

InsertScore(c) ==
    /\ Writing(c, "score") /\ Done(c)
    /\ db' = [db EXCEPT ![c].scores = Append(@, Head(script[c]).score)]
    /\ UNCHANGED <<state, marked, facts, up, index, now, crashes, offered, lastCheck>>

InsertDecision(c) ==
    /\ Writing(c, "decision") /\ Done(c)
    /\ db' = [db EXCEPT ![c].decisions = Append(@, Head(script[c]).id)]
    /\ UNCHANGED <<state, marked, facts, up, index, now, crashes, offered, lastCheck>>

InsertResult(c) ==
    /\ Writing(c, "result") /\ Done(c)
    /\ db' = [db EXCEPT ![c].results = Append(@, Head(script[c]).id)]
    /\ UNCHANGED <<state, marked, facts, up, index, now, crashes, offered, lastCheck>>

\* The candidate is written back with the time of the live stage, then its utility.
CheckRow(c) ==
    /\ Writing(c, "check")
    /\ LET w == Head(script[c])
           u == db[c].candidates[w.id].url IN
         /\ Then(c, <<Score(w.id, "utility", "measured")>>)
         /\ db' = [db EXCEPT ![c].candidates[w.id].checked = w.at]
         /\ lastCheck' = [lastCheck EXCEPT ![u] = IF w.at > @ THEN w.at ELSE @]
    /\ UNCHANGED <<state, marked, facts, up, index, now, crashes, offered>>

Crash(c) ==
    /\ up[c] /\ crashes < MaxCrashes
    /\ up' = [up EXCEPT ![c] = FALSE]
    /\ script' = [script EXCEPT ![c] = <<>>]
    /\ crashes' = crashes + 1
    /\ UNCHANGED <<campaign, index, now, offered, lastCheck>>

-----------------------------------------------------------------------------
(* consult_and_surface                                                     *)

Known == {u \in Listings : index.listings[u] # Nothing}

\* Mutated form of Hits: like the other handlers, none once there are candidates.
HitsAtFirst(c) ==
    IF db[c].candidates # <<>> THEN {} ELSE {index.listings[u] : u \in Known}

\* search: what the index holds, as it is at this moment.
Hits(c) == {index.listings[u] : u \in Known}

Search(c) ==
    /\ Writing(c, "search")
    /\ Then(c, IF Hits(c) = {} THEN <<>> ELSE <<[op |-> "recall", hits |-> Hits(c)]>>)
    /\ offered' = [offered EXCEPT ![c] = @ \union Known]
    /\ UNCHANGED <<campaign, up, index, now, crashes, lastCheck>>

Urls(c) == {db[c].candidates[i].url : i \in DOMAIN db[c].candidates}

\* query_already_run for each query, list_candidates, and the loop over the hits
\* that are not among them, by score, which leaves their order open; the source is
\* skipped if one query is known.
Recall(c) ==
    /\ Writing(c, "recall")
    /\ LET skip == facts[c] \intersect index.queries # {} IN
         \E new \in SetToSeqs({h \in Head(script[c]).hits : h.url \notin Urls(c)}) :
             Then(c, [i \in DOMAIN new |-> [op |-> "surface", hit |-> new[i]]]
                       \o IF skip THEN <<Put("skip")>> ELSE <<>>)
    /\ UNCHANGED <<campaign, up, index, now, crashes, offered, lastCheck>>

\* present_availability.
Presented(h) == IF now - h.checked > Ttl THEN "UNKNOWN" ELSE h.availability

\* _hydrate: the candidate is a copy of the hit, with the time of its check.
Surface(c) ==
    /\ Writing(c, "surface")
    /\ LET h == Head(script[c]).hit IN
         /\ db' = [db EXCEPT ![c].candidates =
                     Append(@, [h EXCEPT !.availability = Presented(h)])]
         /\ Then(c, <<[op |-> "replay", id |-> Len(db[c].candidates) + 1, url |-> h.url]>>)
    /\ UNCHANGED <<state, marked, facts, up, index, now, crashes, offered, lastCheck>>

\* _replay_evidence: the intervals are copied as they are remembered.
Replay(c) ==
    /\ Writing(c, "replay")
    /\ LET w == Head(script[c])
           e == index.evidence[w.url] IN
         Then(c, IF e = Unmeasured THEN <<>>
                 ELSE <<Score(w.id, "fine", e.match),
                        Score(w.id, "authenticity", e.authenticity),
                        Decision(w.id), Result(w.id)>>)
    /\ UNCHANGED <<campaign, up, index, now, crashes, offered, lastCheck>>

-----------------------------------------------------------------------------
(* remember_campaign                                                       *)

\* _score_pair takes the last row of each kind; one of the broad pass is no match.
ScoresOf(c, i, kind) ==
    {k \in DOMAIN db[c].scores : db[c].scores[k].id = i /\ db[c].scores[k].kind = kind}
LastLevel(c, i, kind) == db[c].scores[Max(ScoresOf(c, i, kind))].level

\* Mutated form of Kept: the listing is stamped with the time it is kept at.
KeptNow(row) == [row EXCEPT !.checked = now]

\* public_listing_payload, with the availability and the time of the candidate.
Kept(row) == row

\* The queries are read without an order.
Remember(c) ==
    /\ Writing(c, "remember")
    /\ LET asked == IF "run" \in facts[c] THEN facts[c] \intersect ToSet(QueryTexts) ELSE {} IN
         \E texts \in SetToSeqs(asked) :
             Then(c, ForEach(c, LAMBDA i : [op |-> "keep", id |-> i])
                       \o [i \in DOMAIN texts |-> [op |-> "query", text |-> texts[i]]])
    /\ UNCHANGED <<campaign, up, index, now, crashes, offered, lastCheck>>

\* The evidence follows the listing, if both of its scores are there.
KeepListing(c) ==
    /\ Writing(c, "keep")
    /\ LET i == Head(script[c]).id
           row == db[c].candidates[i] IN
         /\ index' = [index EXCEPT !.listings[row.url] = Kept(row)]
         /\ Then(c, IF {} \in {ScoresOf(c, i, "fine"), ScoresOf(c, i, "authenticity")} THEN <<>>
                    ELSE <<[op |-> "evidence", url |-> row.url,
                            levels |-> [match |-> LastLevel(c, i, "fine"),
                                        authenticity |-> LastLevel(c, i, "authenticity")]]>>)
    /\ UNCHANGED <<campaign, up, now, crashes, offered, lastCheck>>

KeepEvidence(c) ==
    /\ Writing(c, "evidence") /\ Done(c)
    /\ LET w == Head(script[c]) IN index' = [index EXCEPT !.evidence[w.url] = w.levels]
    /\ UNCHANGED <<campaign, up, now, crashes, offered, lastCheck>>

RecordQuery(c) ==
    /\ Writing(c, "query") /\ Done(c)
    /\ index' = [index EXCEPT !.queries = @ \union {Head(script[c]).text}]
    /\ UNCHANGED <<campaign, up, now, crashes, offered, lastCheck>>

-----------------------------------------------------------------------------

Tick ==
    /\ now < MaxTime /\ now' = now + 1
    /\ UNCHANGED <<campaign, up, script, index, crashes, offered, lastCheck>>

Write(c) ==
    \/ Begin(c) \/ Mark(c) \/ PutFact(c) \/ NeedFact(c) \/ InsertCandidate(c)
    \/ InsertScore(c) \/ InsertDecision(c) \/ InsertResult(c) \/ CheckRow(c)
    \/ Search(c) \/ Recall(c) \/ Surface(c) \/ Replay(c)
    \/ Remember(c) \/ KeepListing(c) \/ KeepEvidence(c) \/ RecordQuery(c)

WarmNext == Tick \/ \E c \in Campaigns : Run(c) \/ Write(c) \/ Crash(c)

\* A process goes on, and a campaign that was stopped is resumed.
WarmFairness == \A c \in Campaigns : WF_warmVars(Write(c)) /\ WF_warmVars(Run(c))

WarmSpec == WarmInit /\ [][WarmNext]_warmVars /\ WarmFairness

-----------------------------------------------------------------------------
(* Properties                                                              *)

NoneTwice(s) == \A i, j \in DOMAIN s : s[i] = s[j] => i = j

\* However often a campaign is killed and resumed, and whatever the index has
\* put in before its source is asked, it has one candidate to a listing, and one
\* decision and one result to a candidate (FixtureRunner, consult_and_surface).
OnceOnly ==
    \A c \in Campaigns :
        /\ NoneTwice([i \in DOMAIN db[c].candidates |-> db[c].candidates[i].url])
        /\ NoneTwice(db[c].decisions) /\ NoneTwice(db[c].results)

\* A campaign that completes has every listing the index held when it asked it,
\* also if it was killed in the middle of taking them over (consult_and_surface).
IndexIsTakenOver == \A c \in Campaigns : Ended(c) => offered[c] \subseteq Urls(c)

\* The index presents a listing as LIVE only within the lifetime of the last
\* live stage that had it, whoever kept it since (present_availability).
LiveIsRecent ==
    [][\A c \in Campaigns :
         Surface(c) /\ Last(db'[c].candidates).availability = "LIVE" =>
             now - lastCheck[Last(db'[c].candidates).url] <= Ttl]_warmVars

\* A campaign that is resumed comes to its end wherever it was killed, but for
\* one place: between the hypotheses and the key of the primary one.
Headless(c) == "hypothesis" \in facts[c] /\ "primary" \notin facts[c] /\ ~up[c]
ResumeEnds == \A c \in Campaigns : <>(Ended(c) \/ Headless(c))

\* Not run, since they fail; the README says how.

\* A completed campaign has the listings of its source.
SourceIsCovered == \A c \in Campaigns : Ended(c) => Urls(c) = Listings

\* A completed campaign has decided on every candidate, and published it.
AllArePublished ==
    \A c \in Campaigns : Ended(c) => ToSet(db[c].results) = DOMAIN db[c].candidates

\* A completed campaign says so.
EndIsSaid == \A c \in Campaigns : <>(Headless(c) \/ "search.complete" \in facts[c])
===============================================================================
