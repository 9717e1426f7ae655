----------------------------- MODULE Orchestrator -----------------------------
(***************************************************************************)
(* campaigns/orchestrator.py: one campaign from CREATED to its end, walked *)
(* by one worker at a time, and what a worker that dies leaves for the     *)
(* `campaign resume` that follows it.                                      *)
(*                                                                         *)
(* Each durable write is a step, so a crash falls between any two: the     *)
(* state is entered, the handler writes its rows one candidate at a time,  *)
(* the step is marked.  The worker's transition is two steps, its look at  *)
(* the flag and its write of the row, and a cancel request three: either   *)
(* may lose the row to the other.  The event that follows the row is       *)
(* CampaignController's subject.                                           *)
(*                                                                         *)
(* Left out: the scores' values, FINE_COMPARE_CAP (every candidate is      *)
(* kept), the lanes of single scorers, and search.complete.                *)
(***************************************************************************)
EXTENDS CampaignStates, FiniteSets

CONSTANTS
    Cands,        \* the listings the sources hold
    MaxRounds,    \* the orchestrator's max_rounds
    MaxWaves,     \* bound: no query wave is compiled beyond this one
    MaxCrashes,   \* bound: how often the worker's process dies
    MaxResumes    \* bound: how often `campaign resume` is run

ASSUME RoundsAssumption == {MaxRounds, MaxWaves} \subseteq Nat \ {0}
ASSUME LivesAssumption == {MaxCrashes, MaxResumes} \subseteq Nat

VARIABLES
    \* On disk.
    state, completed,        \* campaigns.state, runtime completed_steps
    round,                   \* runtime orchestrator_round
    waves, searched,         \* query waves compiled, waves a discovery answered
    coverage,                \* runtime coverage: which sources answered
    cands, matched, authed,  \* candidates, and those with each kind of score
    decided, shown,          \* how many decisions, results a candidate has
    \* In the worker.
    pc, mode,                \* where it is; "api" thread or "cli" process
    flag,                    \* its process's cancellation flag
    turn,                    \* self.round
    stage,                   \* index in Walk of the state it works on
    begun,                   \* the stages this pipeline has taken up
    lanes, engine,           \* blocked_lanes; whether there is an engine
    todo,                    \* candidates the handler has still to write
    inside,                  \* it is in transition, past the look at the flag
    \* In the process that serves a cancel request; one at a time: bound.
    request,                 \* where it is, and whether the worker's process serves it
    \* History.
    crashes, resumes,
    asked,      \* the transition that was refused last, and the lanes shut then
    raised,     \* some handler failed with an error
    runs,       \* how often each stage was finished in this round
    beaten      \* a cancel that had set a worker's flag lost the row

disk == <<state, completed, round, waves, searched, coverage,
          cands, matched, authed, decided, shown>>
self == <<pc, mode, flag, turn, stage, begun, lanes, engine, todo>>
history == <<crashes, resumes, asked, raised, runs>>
race == <<inside, request, beaten>>
vars == <<disk, self, history, race>>

Stages == 8..19          \* PLANNING_SOURCES .. GAP_ANALYSIS
MatchStages == 14..18    \* _MATCH_STAGES

Refusal(source, target, shut) == [from |-> source, to |-> target, shut |-> shut]

Init ==
    /\ state = "CREATED" /\ completed = {} /\ round = 1
    /\ waves = 0 /\ searched = 0 /\ coverage = "none"
    /\ cands = {} /\ matched = {} /\ authed = {}
    /\ decided = [c \in Cands |-> 0] /\ shown = [c \in Cands |-> 0]
    /\ pc = "open" /\ mode = "api" /\ flag = FALSE /\ turn = 1
    /\ stage = 1 /\ begun = {} /\ lanes = {} /\ engine = TRUE /\ todo = {}
    /\ crashes = 0 /\ resumes = 0 /\ raised = FALSE
    /\ asked = Refusal("none", "none", {})
    /\ runs = [s \in Stages |-> 0]
    /\ inside = FALSE /\ request = "none" /\ beaten = FALSE

\* Mutated form of ContextFromDisk: _fail does not set the error class.
NoErrorClass ==
    [ searchable |-> TRUE, candidates |-> cands # {}, sellerTextOnly |-> FALSE,
      evidence |-> TRUE, receipt |-> pc = "terminate", internalDefect |-> FALSE ]

\* context_from_disk; a reference wave that got this far has set
\* has_visual_representation.
ContextFromDisk ==
    [ searchable |-> TRUE, candidates |-> cands # {}, sellerTextOnly |-> FALSE,
      evidence |-> TRUE, receipt |-> pc = "terminate",
      internalDefect |-> pc = "fail" ]

Legal(target) == IsLegal(state, target) /\ GuardsHold(target, ContextFromDisk)

\* What ends a step marks: checkpoint the row's state, mark_step the state worked on.
Marked == {state, Walk[stage]}

\* A cancel request that has read the row: in the worker's process, or in another.
HasRead == {"here", "elsewhere"}

\* transition and cancel write the row only in the version they have read.  The worker's
\* transition makes a cancel that has read the row before it fail.
Overtake ==
    /\ request' = IF request \in HasRead THEN "none" ELSE request
    /\ beaten' = (beaten \/ request = "here")

\* The row is read and written.  A cancel in between makes the worker's transition fail:
\* CANCELLED is an illegal source, or a version that is no longer the one read.
Arrive(target, there, refused) ==
    /\ inside' = FALSE
    /\ IF Legal(target)
       THEN state' = target /\ pc' = there /\ Overtake /\ UNCHANGED asked
       ELSE asked' = Refusal(state, target, lanes) /\ pc' = refused
            /\ UNCHANGED <<state, request, beaten>>

\* raise_if_cancelled at the head of transition.
LookAtFlag ==
    /\ ~inside
    /\ IF flag THEN pc' = "gone" /\ UNCHANGED inside ELSE inside' = TRUE /\ UNCHANGED pc
    /\ UNCHANGED <<state, asked, request, beaten>>

\* transition, called where run catches what it raises.
Transit(target, there) == LookAtFlag \/ (inside /\ Arrive(target, there, "fail"))

\* The caller finds the row where it need not be moved.
Passes(there) == pc' = there /\ UNCHANGED <<state, asked, inside, request, beaten>>

\* _enter: silent on a terminal campaign and on the state it is in.
EnterState(target, there) ==
    IF ~inside /\ state \in Terminal \cup {target} THEN Passes(there)
                                                  ELSE Transit(target, there)

-------------------------------------------------------------------------------
(* run: the opening, the reference wave, the rounds. *)

\* reconstruct and _open_engine.  run_api_campaign comes here only with both layers
\* importable; `campaign resume` comes in any case.
Open ==
    /\ pc = "open"
    /\ pc' = IF state \in Terminal THEN "gone" ELSE "reference"
    /\ turn' = round
    /\ \E shut \in {{}, {"discovery"}, {"routing"}} :
          /\ mode = "api" => shut = {}
          /\ lanes' = shut
          /\ engine' = ("discovery" \notin shut)
    /\ UNCHANGED <<disk, history, mode, flag, stage, begun, todo, race>>

\* _ensure_reference: the wave runs unless it is marked done or the state is past it;
\* it always starts with its first step.
EnsureReference ==
    /\ pc = "reference"
    /\ IF "PLANNING_QUERIES" \in completed \/ state \in Terminal \cup From(8)
       THEN pc' = "round" /\ UNCHANGED stage
       ELSE pc' = "wave" /\ stage' = 2
    /\ UNCHANGED <<disk, history, mode, flag, turn, begun, lanes, engine, todo,
                   race>>

\* One step of run_reference_query_wave: transition unless the row is there already.
WaveEnter ==
    /\ pc = "wave"
    /\ IF ~inside /\ state = Walk[stage] THEN Passes("wavework")
                                         ELSE Transit(Walk[stage], "wavework")
    /\ UNCHANGED <<completed, round, waves, searched, coverage, cands, matched, authed,
                   decided, shown, mode, flag, turn, stage, begun, lanes, engine, todo,
                   crashes, resumes, raised, runs>>

\* The step's own work; PLANNING_QUERIES compiles the first query wave.
WaveWork ==
    /\ pc = "wavework"
    /\ pc' = "wavemark"
    /\ waves' = IF Walk[stage] = "PLANNING_QUERIES" THEN 1 ELSE waves
    /\ UNCHANGED <<state, completed, round, searched, coverage, cands, matched, authed,
                   decided, shown, mode, flag, turn, stage, begun, lanes, engine, todo,
                   history, race>>

\* checkpoint and mark_step after the step's work.
WaveMark ==
    /\ pc = "wavemark"
    /\ completed' = completed \cup Marked
    /\ IF Walk[stage] = "PLANNING_QUERIES"
       THEN pc' = "round" /\ UNCHANGED stage
       ELSE pc' = "wave" /\ stage' = stage + 1
    /\ UNCHANGED <<state, round, waves, searched, coverage, cands, matched, authed,
                   decided, shown, mode, flag, turn, begun, lanes, engine, todo,
                   history, race>>

\* The head of the while loop of run.
RoundHead ==
    /\ pc = "round"
    /\ pc' = IF turn > MaxRounds THEN "terminate"
             ELSE IF flag \/ state \in Terminal THEN "gone" ELSE "pick"
    /\ begun' = {}
    /\ UNCHANGED <<disk, history, mode, flag, turn, stage, lanes, engine, todo, race>>

-------------------------------------------------------------------------------
(* _run_pipeline. *)

\* Mutated form of Sequence: the match stages are planned without candidates too.
AllStages == Stages

\* _sequence: the match stages are there only if some candidate is stored.
Sequence == (Stages \ MatchStages) \cup (IF cands = {} THEN {} ELSE MatchStages)

\* Mutated form of Remaining: what is marked done is not consulted.
AllRemaining == {s \in Sequence : s \notin begun}

Remaining == {s \in Sequence : Walk[s] \notin completed}

Upcoming == CHOOSE s \in Remaining : \A r \in Remaining : s <= r

\* The pipeline returns: everything is done, the next stage was taken up already, or
\* the campaign is over.
PipelineDone ==
    \/ state \in Terminal
    \/ Remaining = {}
    \/ Upcoming \in begun

Pick ==
    /\ pc = "pick"
    /\ IF PipelineDone
       THEN pc' = "judge" /\ UNCHANGED <<stage, begun>>
       ELSE /\ begun' = begun \cup {Upcoming}
            /\ IF flag THEN pc' = "gone" /\ UNCHANGED stage
               ELSE \/ pc' = "salvage" /\ UNCHANGED stage    \* _wall_exceeded
                    \/ /\ Upcoming \in MatchStages /\ "routing" \in lanes
                       /\ IF state = "BROAD_RETRIEVAL"
                          THEN pc' = "detour" /\ stage' = 19
                          ELSE pc' = "judge" /\ UNCHANGED stage
                    \/ /\ ~(Upcoming \in MatchStages /\ "routing" \in lanes)
                       /\ pc' = "enter" /\ stage' = Upcoming
    /\ UNCHANGED <<disk, history, mode, flag, turn, lanes, engine, todo, race>>

Enter ==
    /\ \/ pc = "enter" /\ EnterState(Walk[stage], "handle")
       \/ pc = "detour" /\ EnterState("GAP_ANALYSIS", "gaps")
    /\ UNCHANGED <<completed, round, waves, searched, coverage, cands, matched, authed,
                   decided, shown, mode, flag, turn, stage, begun, lanes, engine, todo,
                   crashes, resumes, raised, runs>>

\* Mutated form of ToRank: rank whatever has no decision guard.
RankAgain == cands \cap matched \cap authed

\* _rank does nothing when a decision is stored; it decides the candidates that have
\* both kinds of evidence.
ToRank ==
    {c \in cands \cap matched \cap authed : \A d \in Cands : decided[d] = 0}

\* Mutated form of ToPublish: the guard on stored results is dropped.
PublishAgain == {c \in Cands : decided[c] > 0}

\* _publish does nothing when a result is stored.
ToPublish == {c \in Cands : decided[c] > 0 /\ \A d \in Cands : shown[d] = 0}

ToDo(s) ==
    CASE Walk[s] = "FINE_MATCHING" -> cands \ matched
      [] Walk[s] = "AUTHENTICITY_REVIEW" -> cands \ authed
      [] Walk[s] = "RANKING" -> ToRank
      [] Walk[s] = "PUBLISHING" -> ToPublish
      [] OTHER -> {}

\* A handler begins.  _discover with an engine stores what the sources give it;
\* _plan_sources may find that no source takes the queries.
Handle ==
    /\ pc = "handle"
    /\ pc' = "work"
    /\ todo' = ToDo(stage)
    /\ \/ Walk[stage] = "DISCOVERING" /\ engine
          /\ \E found \in SUBSET Cands : cands' = cands \cup found
       \/ ~(Walk[stage] = "DISCOVERING" /\ engine) /\ UNCHANGED cands
    /\ lanes' \in IF Walk[stage] = "PLANNING_SOURCES"
                 THEN {lanes, lanes \cup {"discovery"}} ELSE {lanes}
    /\ UNCHANGED <<state, completed, round, waves, searched, coverage, matched, authed,
                   decided, shown, mode, flag, turn, stage, begun, engine,
                   crashes, resumes, asked, raised, runs, race>>

\* One candidate's row: a score, a decision or a result.
WriteRow(c) ==
    /\ pc \in {"work", "saverank", "savepublish"} /\ c \in todo
    /\ todo' = todo \ {c}
    /\ matched' = IF Walk[stage] = "FINE_MATCHING" THEN matched \cup {c} ELSE matched
    /\ authed' = IF Walk[stage] = "AUTHENTICITY_REVIEW" THEN authed \cup {c} ELSE authed
    /\ decided' = IF Walk[stage] = "RANKING" THEN [decided EXCEPT ![c] = @ + 1] ELSE decided
    /\ shown' = IF Walk[stage] = "PUBLISHING" THEN [shown EXCEPT ![c] = @ + 1] ELSE shown
    /\ UNCHANGED <<state, completed, round, waves, searched, coverage, cands, pc, mode,
                   flag, turn, stage, begun, lanes, engine, history, race>>

\* _emit_discovery_fallback: one source is listed, as unavailable.
Fallback == "blocked"

\* The handler returns.  _discover writes the coverage of the sources it asked, or, when
\* it failed, the fallback coverage in which nothing answered.
HandlerDone ==
    /\ pc = "work" /\ todo = {}
    /\ pc' = "finish"
    /\ IF Walk[stage] # "DISCOVERING" THEN UNCHANGED <<searched, coverage, lanes>>
       ELSE \/ /\ engine
               /\ searched' = waves
               /\ coverage' \in {"answered", "partly", "blocked"}
               /\ UNCHANGED lanes
            \/ /\ coverage' = Fallback
               /\ lanes' = lanes \cup {"discovery"}
               /\ UNCHANGED searched
    /\ UNCHANGED <<state, completed, round, waves, cands, matched, authed, decided, shown,
                   mode, flag, turn, stage, begun, engine, todo,
                   history, race>>

\* The stages that spend from the sealed budget and let BudgetExceeded through.
Spending == {"INGESTING_REFERENCES", "DISCOVERING", "ACQUIRING"}

\* A handler raises: BudgetExceeded, CancelledError (discovery looks at the flag), or
\* anything else.
HandlerRaises ==
    /\ pc \in {"work", "wavework"}
    /\ \/ Walk[stage] \in Spending /\ pc' = "salvage" /\ UNCHANGED raised
       \/ flag /\ Walk[stage] = "DISCOVERING" /\ pc' = "gone" /\ UNCHANGED raised
       \/ pc' = "fail" /\ raised' = TRUE
    /\ UNCHANGED <<disk, mode, flag, turn, stage, begun, lanes, engine, todo,
                   crashes, resumes, asked, runs, race>>

\* _gaps and _finish_stage when routing is shut: the pipeline returns after it.
Detour ==
    /\ pc = "gaps"
    /\ completed' = completed \cup {state, "GAP_ANALYSIS"}
    /\ pc' = "judge"
    /\ UNCHANGED <<state, round, waves, searched, coverage, cands, matched, authed,
                   decided, shown, mode, flag, turn, stage, begun, lanes, engine, todo,
                   history, race>>

\* _finish_stage.
FinishStage ==
    /\ pc = "finish"
    /\ completed' = completed \cup Marked
    /\ pc' = "pick"
    /\ runs' = [runs EXCEPT ![stage] = @ + 1]
    /\ UNCHANGED <<state, round, waves, searched, coverage, cands, matched, authed,
                   decided, shown, mode, flag, turn, stage, begun, lanes, engine, todo,
                   crashes, resumes, asked, raised, race>>

-------------------------------------------------------------------------------
(* After the pipeline: _should_stop and _replan. *)

\* The campaign may be over; it may be time to stop, and is when this was the last
\* round.  From the second round on _replan's own call of _should_stop finds the
\* cluster count its first call stored, and stops.
Judge ==
    /\ pc = "judge"
    /\ IF state \in Terminal THEN pc' = "gone"
       ELSE \/ pc' = "terminate"
            \/ turn = 1 /\ turn < MaxRounds /\ pc' = "compile"
    /\ UNCHANGED <<disk, history, mode, flag, turn, stage, begun, lanes, engine, todo,
                   race>>

\* compile_queries finds nothing that is new, or stores a new wave of queries.
Compile ==
    /\ pc = "compile"
    /\ \/ pc' = "terminate" /\ UNCHANGED waves
       \/ waves < MaxWaves /\ waves' = waves + 1 /\ pc' = "replan"
    /\ UNCHANGED <<state, completed, round, searched, coverage, cands, matched, authed,
                   decided, shown, mode, flag, turn, stage, begun, lanes, engine, todo,
                   history, race>>

\* The two calls of _enter in _replan.
ReplanEnter ==
    /\ \/ pc = "replan" /\ EnterState("REPLANNING", "reset")
       \/ pc = "rediscover" /\ EnterState("DISCOVERING", "nextround")
    /\ UNCHANGED <<completed, round, waves, searched, coverage, cands, matched, authed,
                   decided, shown, mode, flag, turn, stage, begun, lanes, engine, todo,
                   crashes, resumes, raised, runs>>

\* completed_steps keeps the reference wave only, so that the pipeline runs again.
ResetSteps ==
    /\ pc = "reset"
    /\ completed' = completed \cap {"PLANNING_QUERIES"}
    /\ pc' = "finishreplan"
    /\ runs' = [s \in Stages |-> 0]
    /\ UNCHANGED <<state, round, waves, searched, coverage, cands, matched, authed,
                   decided, shown, mode, flag, turn, stage, begun, lanes, engine, todo,
                   crashes, resumes, asked, raised, race>>

FinishReplan ==
    /\ pc = "finishreplan"
    /\ completed' = completed \cup {state, "REPLANNING"}
    /\ pc' = "rediscover"
    /\ UNCHANGED <<state, round, waves, searched, coverage, cands, matched, authed,
                   decided, shown, mode, flag, turn, stage, begun, lanes, engine, todo,
                   history, race>>

NextRound ==
    /\ pc = "nextround"
    /\ turn' = turn + 1
    /\ round' = turn + 1
    /\ pc' = "round"
    /\ UNCHANGED <<state, completed, waves, searched, coverage, cands, matched, authed,
                   decided, shown, mode, flag, stage, begun, lanes, engine, todo,
                   history, race>>

-------------------------------------------------------------------------------
(* The end: _choose_terminal, _terminate, _salvage_publish, _fail. *)

Published == \E c \in Cands : shown[c] > 0

\* What _choose_terminal may answer, without a forced end: the lanes that are shut, then
\* saturation, then the coverage decide.  Some of the sources' outcomes count as no
\* answer, so a covered campaign may be PARTIAL.
Verdicts ==
    IF lanes # {} /\ cands = {} THEN {"BLOCKED"}
    ELSE (IF Published THEN {"COMPLETE"} ELSE {})
         \cup (IF lanes # {} /\ Published THEN {"PARTIAL"} ELSE {})
         \cup CASE coverage = "none" -> {"BLOCKED"}
                [] coverage = "blocked" /\ cands = {} -> {"BLOCKED"}
                [] coverage \in {"blocked", "partly"} /\ cands # {} -> {"PARTIAL"}
                [] coverage \in {"answered", "partly"} /\ cands = {} ->
                      {"COMPLETE", "PARTIAL", "BLOCKED"}
                [] coverage = "answered" /\ cands # {} -> {"COMPLETE", "PARTIAL"}

\* _terminate.
Terminate ==
    /\ pc = "terminate"
    /\ IF inside THEN \E verdict \in Verdicts : Arrive(verdict, "gone", "fail")
       ELSE IF state \in Terminal THEN Passes("gone") ELSE LookAtFlag
    /\ UNCHANGED <<completed, round, waves, searched, coverage, cands, matched, authed,
                   decided, shown, mode, flag, turn, stage, begun, lanes, engine, todo,
                   crashes, resumes, raised, runs>>

\* Mutated form of Salvage: a budget stop ends the campaign as it is.
NoSalvage ==
    /\ pc = "salvage" /\ pc' = "partial"
    /\ UNCHANGED <<disk, history, mode, flag, turn, stage, begun, lanes, engine, todo,
                   race>>

\* _salvage_publish: rank if nothing is decided, then publish if nothing is published.
\* It ends early, and quietly, if either raises.
Salvage ==
    /\ \/ /\ pc = "salvage" /\ state \notin Terminal
          /\ pc' = "saverank" /\ stage' = 17 /\ todo' = ToRank
       \/ /\ pc = "saverank" /\ todo = {}
          /\ pc' = "savepublish" /\ stage' = 18 /\ todo' = ToPublish
       \/ /\ \/ pc = "salvage" /\ state \in Terminal
             \/ pc = "savepublish" /\ todo = {}
          /\ pc' = "partial" /\ todo' = {} /\ UNCHANGED stage
    /\ UNCHANGED <<disk, history, mode, flag, turn, begun, lanes, engine, race>>

SalvageRaises ==
    /\ pc \in {"saverank", "savepublish"}
    /\ pc' = "partial" /\ todo' = {} /\ raised' = TRUE
    /\ UNCHANGED <<disk, mode, flag, turn, stage, begun, lanes, engine,
                   crashes, resumes, asked, runs, race>>

\* _terminate with PARTIAL forced.  What it raises leaves run: run_api_campaign goes to
\* its own _fail, `campaign resume` dies of it.
ForcePartial ==
    /\ pc = "partial"
    /\ IF inside THEN Arrive("PARTIAL", "gone", IF mode = "api" THEN "fail" ELSE "gone")
       ELSE IF state \in Terminal THEN Passes("gone") ELSE LookAtFlag
    /\ UNCHANGED <<completed, round, waves, searched, coverage, cands, matched, authed,
                   decided, shown, mode, flag, turn, stage, begun, lanes, engine, todo,
                   crashes, resumes, raised, runs>>

\* _fail of run and of run_api_campaign: what its transition raises is swallowed.
Fail ==
    /\ pc = "fail"
    /\ IF inside
       THEN /\ pc' = "gone" /\ inside' = FALSE
            /\ IF Legal("FAILED") THEN state' = "FAILED" /\ Overtake
                                  ELSE UNCHANGED <<state, request, beaten>>
            /\ UNCHANGED asked
       ELSE IF state \in Terminal THEN Passes("gone") ELSE LookAtFlag
    /\ UNCHANGED <<completed, round, waves, searched, coverage, cands, matched, authed,
                   decided, shown, mode, flag, turn, stage, begun, lanes, engine, todo,
                   crashes, resumes, raised, runs>>

-------------------------------------------------------------------------------
(* Around the worker. *)

\* controller.cancel: the flag first, then a short sleep, then the row.  The flag of a
\* process without the worker tells nobody, so there the row is read at once.  A request
\* for a campaign that has ended changes no row.
Cancel ==
    /\ request = "none" /\ state \notin Terminal
    /\ \/ mode = "api" /\ flag' = TRUE /\ request' = "flagged"
       \/ request' = "elsewhere" /\ UNCHANGED flag
    /\ UNCHANGED <<disk, history, pc, mode, turn, stage, begun, lanes, engine, todo,
                   inside, beaten>>

CancelLooks ==
    /\ request = "flagged"
    /\ request' = IF state \in Terminal THEN "none" ELSE "here"
    /\ UNCHANGED <<disk, self, history, inside, beaten>>

\* Nobody was in between.  The rows that follow are read by none once it has ended.
CancelWrites ==
    /\ request \in HasRead
    /\ request' = "none" /\ state' = "CANCELLED"
    /\ UNCHANGED <<completed, round, waves, searched, coverage, cands, matched, authed,
                   decided, shown, self, history, inside, beaten>>

\* What a process that starts holds in memory.
Forgets ==
    /\ flag' = FALSE /\ turn' = 1 /\ stage' = 1 /\ begun' = {} /\ lanes' = {}
    /\ engine' = TRUE /\ todo' = {} /\ inside' = FALSE

\* The worker's process dies, and with it the requests that it serves.
Crash ==
    /\ pc # "gone" /\ crashes < MaxCrashes
    /\ crashes' = crashes + 1
    /\ pc' = "gone" /\ Forgets
    /\ request' = IF mode = "api" /\ request # "elsewhere" THEN "none" ELSE request
    /\ UNCHANGED <<disk, mode, resumes, asked, raised, runs, beaten>>

\* `campaign resume`: run again, in a process of its own.
Resume ==
    /\ pc = "gone" /\ resumes < MaxResumes
    /\ resumes' = resumes + 1
    /\ pc' = "open" /\ mode' = "cli" /\ Forgets
    /\ UNCHANGED <<disk, crashes, asked, raised, runs, request, beaten>>

WorkerStep ==
    \/ Open \/ EnsureReference \/ WaveEnter \/ WaveWork \/ WaveMark \/ RoundHead
    \/ Pick \/ Enter \/ Handle \/ (\E c \in Cands : WriteRow(c)) \/ HandlerDone
    \/ HandlerRaises \/ Detour \/ FinishStage
    \/ Judge \/ Compile \/ ReplanEnter \/ ResetSteps \/ FinishReplan \/ NextRound
    \/ Terminate \/ Salvage \/ SalvageRaises \/ ForcePartial \/ Fail

CancelStep == CancelLooks \/ CancelWrites

Next == WorkerStep \/ Cancel \/ CancelStep \/ Crash \/ Resume

\* The worker is a running thread or process: it goes on until it returns.  So is the
\* one that serves a cancel request.
Spec == Init /\ [][Next]_vars /\ WF_vars(WorkerStep) /\ WF_vars(CancelStep)

-------------------------------------------------------------------------------
(* Properties. *)

PCs == {"open", "reference", "wave", "wavework", "wavemark", "round", "pick", "enter",
        "detour", "handle", "work", "finish", "gaps", "judge", "compile", "replan",
        "reset", "finishreplan", "rediscover", "nextround", "terminate", "salvage",
        "saverank", "savepublish", "partial", "fail", "gone"}

\* Every variable holds a value of its kind.
TypeOK ==
    /\ state \in States /\ completed \subseteq States
    /\ round \in Nat /\ turn \in Nat
    /\ waves \in 0..MaxWaves /\ searched \in 0..MaxWaves
    /\ coverage \in {"none", "answered", "partly", "blocked"}
    /\ cands \subseteq Cands /\ matched \subseteq Cands /\ authed \subseteq Cands
    /\ todo \subseteq Cands
    /\ decided \in [Cands -> Nat] /\ shown \in [Cands -> Nat]
    /\ pc \in PCs /\ mode \in {"api", "cli"}
    /\ flag \in BOOLEAN /\ engine \in BOOLEAN /\ raised \in BOOLEAN
    /\ stage \in 1..20 /\ begun \subseteq Stages
    /\ lanes \subseteq {"discovery", "routing"}
    /\ crashes \in 0..MaxCrashes /\ resumes \in 0..MaxResumes
    /\ runs \in [Stages -> Nat]
    /\ inside \in BOOLEAN /\ beaten \in BOOLEAN
    /\ request \in {"none", "flagged", "here", "elsewhere"}

\* The refusals the pipeline's own order leads to:
\*   - the pipeline after a replan asks for PLANNING_SOURCES from DISCOVERING,
\*   - a resumed reference wave starts again from a later state,
\*   - the budget runs out before DISCOVERING, where PARTIAL is not legal,
\*   - a match stage is resumed without the routing layer, and the round ends there,
\*   - a match stage is resumed with it, after a worker without it took the detour.
Explained(no) ==
    \/ no.from = "DISCOVERING" /\ no.to = "PLANNING_SOURCES" /\ waves > 1
    \/ no.from \in From(3) /\ no.to = "VALIDATING_INPUT" /\ resumes > 0
    \/ no.from \notin From(9) /\ no.to = "PARTIAL"
    \/ no.from \in From(14) /\ no.to \in {"COMPLETE", "REPLANNING"} /\ "routing" \in no.shut
    \/ no.from \in From(19) /\ no.to = "FINE_MATCHING" /\ resumes > 1

\* Every transition the worker asks for is one the graph and the guards allow, but for
\* these five: a campaign whose handlers raised nothing is FAILED only after one.
FailureIsExplained == (state = "FAILED" /\ ~raised) => Explained(asked)

\* No crash, resume or salvage gives a candidate a second decision or a second result:
\* each call of _rank and _publish looks for its own rows first.
PublishedOnce == \A c \in Cands : decided[c] <= 1 /\ shown[c] <= 1

\* BIBLE 10.4: a resumed campaign must not repeat what is done already.  Apart from the
\* stage a crash interrupted, no stage of a round is worked through twice, by one worker
\* or by the one that resumes after it.
StageOncePerRound == \A s \in Stages : runs[s] <= 1

\* A worker that takes a campaign to its end, and whose handlers did not fail, leaves no
\* evidence unseen: whatever way it came to COMPLETE or PARTIAL, a budget stop in the
\* middle included, each candidate with match and authenticity evidence is published.
EvidenceIsPublished ==
    (state \in {"COMPLETE", "PARTIAL"} /\ resumes = 0 /\ ~raised)
    => \A c \in matched \cap authed : shown[c] = 1

\* No worker walks away from a campaign, whatever it asks for, is refused or is told by a
\* cancel: the campaign reaches an end, unless a process dies, or a cancel stops the
\* worker by its flag and loses the row to a transition that was under way (cancel does
\* not try again: CampaignController!CancelEndsCampaign).  No other failed transition, and
\* no other order of a cancel's and a worker's steps, leaves it open.
CampaignEnds == <>(state \in Terminal \/ crashes > 0 \/ beaten)

\* docs/architecture/ORCHESTRATION.md:53-56: the active loop compiles a new query round
\* and discovers once more.  So an undisturbed campaign that compiled a second wave
\* ends with that wave searched.
ReplanDiscovers ==
    (/\ pc = "gone" /\ waves > 1 /\ crashes = 0 /\ ~raised
     /\ state \notin {"CANCELLED", "PARTIAL"})
    => searched = waves
===============================================================================
