-------------------------- MODULE CampaignController --------------------------
(***************************************************************************)
(* The one campaign row and its append-only event log, and the threads     *)
(* that write them: campaign workers (the API's background thread, and any *)
(* `campaign resume` process) and cancel requests (POST .../cancel, and    *)
(* any `campaign cancel` process).                                         *)
(*                                                                         *)
(* CampaignController.transition is not one step.  It checks the           *)
(* cancellation flag of its own process, reads the row, decides on what it *)
(* read, writes the row if the version is still the one it read, reads the *)
(* id of the last event and inserts its event; between any two of these    *)
(* another thread may run.  The model has one action for each.  Every SQL  *)
(* statement is atomic (storage/connection.py holds a lock over it, and    *)
(* SQLite serialises the processes).                                       *)
(*                                                                         *)
(* Left out: the side tables written with a transition (tasks,             *)
(* checkpoints, receipts, runtime_json), which no guard here reads.        *)
(***************************************************************************)
EXTENDS CampaignStates, FiniteSets

CONSTANTS
    Procs,        \* operating-system processes: each has its own flag
    Workers,      \* threads that run a campaign
    Cancellers,   \* threads that serve one cancel request each
    ApiWorker,    \* the worker that POST /v1/searches starts
    Home,         \* the process of each thread
    Targets,      \* the states the pipeline asks for
    Situations,   \* the contexts a transition may be decided in
    MaxVersion,   \* bound: no stage is started at this row version
    MaxLog,       \* bound: no stage is started at this log length
    MaxLaunches,  \* bound: how often `campaign resume` is run
    MaxCrashes    \* bound: how often a process dies

Threads == Workers \cup Cancellers

ASSUME ThreadsAssumption ==
    /\ Workers \cap Cancellers = {}
    /\ ApiWorker \in Workers
    /\ Home \in [Threads -> Procs]
    \* `campaign resume` and nothing else runs in the process of such a worker.
    /\ \A w \in Workers \ {ApiWorker} : \A t \in Threads : Home[t] = Home[w] => t = w

ASSUME TargetsAssumption ==
    /\ Targets \subseteq States \ {"FAILED", "CANCELLED"}
    /\ Situations \subseteq Contexts

ASSUME BoundsAssumption ==
    {MaxVersion, MaxLog, MaxLaunches, MaxCrashes} \subseteq Nat

VARIABLES
    row,        \* campaigns.state and campaigns.state_version
    log,        \* the events table by rowid
    flag,       \* CancellationController, one in each process
    pc,         \* where each thread is
    goal,       \* the state a thread wants to enter
    job,        \* which code asked for it: "stage", "fail" or "cancel"
    seen,       \* the SearchCampaign a thread read last
    msg,        \* the event a thread is about to append
    launches, crashes,
    late        \* history: rows a worker wrote with its flag already set

vars == <<row, log, flag, pc, goal, job, seen, msg, launches, crashes, late>>

Rows == [state : States, version : Nat]

Names == {"search.state", "search.progress", "search.complete"}

\* An event's id is its position in the log; pred 0 stands for no predecessor.
Events == [name : Names, version : Nat, state : States, pred : Nat]

Stopped == {"down", "dead", "done", "raised"}

PCs == Stopped \cup {"start", "loop", "stage", "enter", "failing", "flag", "read",
                     "decide", "version", "pred", "append", "idle", "look"}

StateEvent(r, p) ==
    [name |-> "search.state", version |-> r.version, state |-> r.state, pred |-> p]

Created == [state |-> "CREATED", version |-> 0]

\* What a thread's local variables hold while nothing reads them.
NoMsg == StateEvent(Created, 0)
NoGoal == "CANCELLED"

\* The row as create leaves it, with its first event.
Init ==
    /\ row = Created
    /\ log = <<StateEvent(Created, 0)>>
    /\ flag = [p \in Procs |-> FALSE]
    /\ pc = [t \in Threads |-> IF t = ApiWorker THEN "start"
                               ELSE IF t \in Workers THEN "down" ELSE "idle"]
    /\ goal = [t \in Threads |-> NoGoal]
    /\ job = [t \in Threads |-> IF t \in Workers THEN "stage" ELSE "cancel"]
    /\ seen = [t \in Threads |-> Created]
    /\ msg = [t \in Threads |-> NoMsg]
    /\ launches = 0
    /\ crashes = 0
    /\ late = [w \in Workers |-> 0]

Go(t, from, to) == pc[t] = from /\ pc' = [pc EXCEPT ![t] = to]

\* A call returns: its local variables are gone.
Forget(t) ==
    /\ goal' = [goal EXCEPT ![t] = NoGoal]
    /\ seen' = [seen EXCEPT ![t] = Created]
    /\ msg' = [msg EXCEPT ![t] = NoMsg]

-------------------------------------------------------------------------------
(* A worker between transitions: CampaignOrchestrator.run and _run_pipeline. *)

\* run and the head of the _run_pipeline loop: a terminal campaign ends the worker.
CheckTerminal(w) ==
    /\ \/ Go(w, "start", IF row.state \in Terminal THEN "dead" ELSE "loop")
       \/ Go(w, "loop", IF row.state \in Terminal THEN "dead" ELSE "stage")
    /\ UNCHANGED <<row, log, flag, goal, job, seen, msg, launches, crashes, late>>

\* raise_if_cancelled, then the next stage (or, for a terminal target, _terminate).
StartStage(w) ==
    /\ ~flag[Home[w]]
    /\ row.version < MaxVersion /\ Len(log) < MaxLog
    /\ Go(w, "stage", "enter")
    /\ job' = [job EXCEPT ![w] = "stage"]
    /\ \E s \in Targets : goal' = [goal EXCEPT ![w] = s]
    /\ UNCHANGED <<row, log, flag, seen, msg, launches, crashes, late>>

\* raise_if_cancelled raises CancelledError: the worker returns and writes nothing.
StopOnFlag(w) ==
    /\ flag[Home[w]]
    /\ Go(w, "stage", "dead")
    /\ UNCHANGED <<row, log, flag, goal, job, seen, msg, launches, crashes, late>>

\* The handler of the stage just entered (or of the opening) raised: run and
\* run_api_campaign go to their _fail or _stop_blocked.
StageFails(w) ==
    /\ Go(w, "loop", "failing")
    /\ UNCHANGED <<row, log, flag, goal, job, seen, msg, launches, crashes, late>>

\* _fail and _stop_blocked: nothing to do on a terminal campaign, else the exit transition.
BeginFail(w) ==
    /\ Go(w, "failing", IF row.state \in Terminal THEN "dead" ELSE "flag")
    /\ IF row.state \in Terminal
       THEN UNCHANGED <<job, goal>>
       ELSE /\ job' = [job EXCEPT ![w] = "fail"]
            /\ \E s \in {"FAILED", "BLOCKED"} : goal' = [goal EXCEPT ![w] = s]
    /\ UNCHANGED <<row, log, flag, seen, msg, launches, crashes, late>>

\* _enter: no transition when the row is terminal or already there; the stage's
\* progress event follows all the same.
Enter(w) ==
    /\ Go(w, "enter",
          IF row.state \in Terminal \cup {goal[w]} THEN "version" ELSE "flag")
    /\ msg' = [msg EXCEPT ![w] = [@ EXCEPT !.name = "search.progress"]]
    /\ UNCHANGED <<row, log, flag, goal, job, seen, launches, crashes, late>>

-------------------------------------------------------------------------------
(* CampaignController.transition. *)

\* Mutated form of IsCancelled: the check is dropped.
NeverCancelled(w) == FALSE

\* cancellation.raise_if_cancelled, asked of the thread's own process.
IsCancelled(w) == flag[Home[w]]

\* The first line of transition; CancelledError ends the worker, in _fail too.
CheckFlag(w) ==
    /\ \/ /\ IsCancelled(w) /\ Go(w, "flag", "dead") /\ Forget(w)
       \/ /\ ~IsCancelled(w) /\ Go(w, "flag", "read")
          /\ UNCHANGED <<goal, seen, msg>>
    /\ UNCHANGED <<row, log, flag, job, launches, crashes, late>>

\* self.get: the version and state that the decision and the write rest on.
ReadRow(t) ==
    /\ Go(t, "read", "decide")
    /\ seen' = [seen EXCEPT ![t] = row]
    /\ UNCHANGED <<row, log, flag, goal, job, msg, launches, crashes, late>>

\* _fail passes a context whose error_class is an internal one.
ContextsFor(t) ==
    IF job[t] = "fail" THEN {c \in Situations : c.internalDefect} ELSE Situations

Allowed(t, ctx) ==
    /\ IsLegal(seen[t].state, goal[t])
    /\ GuardsHold(goal[t], ctx)

\* Mutated form of VersionMatches: an UPDATE without its version condition.
AnyVersion(t) == TRUE

\* WHERE search_id = ? AND state_version = ?
VersionMatches(t) == seen[t].version = row.version

\* update_campaign_blob: the row changes only if its version is the one read.
CommitRow(t) ==
    /\ pc[t] = "decide"
    /\ VersionMatches(t)
    /\ \E ctx \in ContextsFor(t) : Allowed(t, ctx)
    /\ row' = [state |-> goal[t], version |-> row.version + 1]
    /\ msg' = [msg EXCEPT ![t] = StateEvent(row', 0)]
    /\ late' = IF t \in Workers /\ flag[Home[t]]
               THEN [late EXCEPT ![t] = @ + 1] ELSE late
    /\ pc' = [pc EXCEPT ![t] = "pred"]
    /\ seen' = [seen EXCEPT ![t] = Created]
    /\ UNCHANGED <<log, flag, goal, job, launches, crashes>>

\* Mutated form of AfterRaise: the raised error is swallowed and the target announced.
AnnounceAnyway(t) ==
    /\ pc' = [pc EXCEPT ![t] = "pred"]
    /\ msg' = [msg EXCEPT ![t] =
                 StateEvent([state |-> goal[t], version |-> seen[t].version + 1], 0)]
    /\ UNCHANGED <<goal, seen>>

\* Where IllegalTransition, InvariantViolation or StaleStateVersion takes the thread:
\* a stage to _fail, _fail to the end, a cancel request to its error answer.
AfterRaise(t) ==
    /\ \/ job[t] = "stage" /\ pc' = [pc EXCEPT ![t] = "failing"]
       \/ job[t] = "fail" /\ pc' = [pc EXCEPT ![t] = "dead"]
       \/ job[t] = "cancel" /\ pc' = [pc EXCEPT ![t] = "raised"]
    /\ Forget(t)

\* assert_legal, assert_invariants or the version check raises; the row is untouched.
Reject(t) ==
    /\ pc[t] = "decide"
    /\ \/ ~VersionMatches(t)
       \/ \E ctx \in ContextsFor(t) : ~Allowed(t, ctx)
    /\ AfterRaise(t)
    /\ UNCHANGED <<row, log, flag, job, launches, crashes, late>>

-------------------------------------------------------------------------------
(* CampaignController.emit and _emit. *)

\* emit reads the row's version for an event that is not a transition's own.
ReadVersion(t) ==
    /\ Go(t, "version", "pred")
    /\ msg' = [msg EXCEPT ![t] = [@ EXCEPT !.version = row.version, !.state = row.state]]
    /\ UNCHANGED <<row, log, flag, goal, job, seen, launches, crashes, late>>

\* last_event_id.
ReadPredecessor(t) ==
    /\ Go(t, "pred", "append")
    /\ msg' = [msg EXCEPT ![t] = [@ EXCEPT !.pred = Len(log)]]
    /\ UNCHANGED <<row, log, flag, goal, job, seen, launches, crashes, late>>

\* What follows an event.  A terminal transition is followed by search.complete
\* (cancel hands over the version it wrote, a worker's emit reads it again); a
\* stage's transition by its progress event; progress by the next turn of the loop.
AfterAppend(t) ==
    \/ /\ msg[t].name = "search.state"
       /\ msg' = [msg EXCEPT ![t] = [@ EXCEPT !.pred = 0, !.name =
                    IF goal[t] \in Terminal THEN "search.complete" ELSE "search.progress"]]
       /\ pc' = [pc EXCEPT ![t] = IF t \in Cancellers THEN "pred" ELSE "version"]
       /\ UNCHANGED <<goal, seen>>
    \/ /\ msg[t].name = "search.progress"
       /\ pc' = [pc EXCEPT ![t] = "loop"]
       /\ Forget(t)
    \/ /\ msg[t].name = "search.complete"
       /\ pc' = [pc EXCEPT ![t] = IF t \in Cancellers THEN "done" ELSE "dead"]
       /\ Forget(t)

\* append_event: an INSERT; there is no UPDATE or DELETE of an event.
AppendEvent(t) ==
    /\ pc[t] = "append"
    /\ log' = Append(log, msg[t])
    /\ AfterAppend(t)
    /\ UNCHANGED <<row, flag, job, launches, crashes, late>>

-------------------------------------------------------------------------------
(* CampaignController.cancel. *)

\* The request sets the flag of the process that serves it.
Request(c) ==
    /\ Go(c, "idle", "look")
    /\ flag' = [flag EXCEPT ![Home[c]] = TRUE]
    /\ UNCHANGED <<row, log, goal, job, seen, msg, launches, crashes, late>>

\* After bounded_cleanup: a terminal campaign is returned as it is.
LookAtRow(c) ==
    /\ Go(c, "look", IF row.state \in Terminal THEN "done" ELSE "read")
    /\ UNCHANGED <<row, log, flag, goal, job, seen, msg, launches, crashes, late>>

-------------------------------------------------------------------------------
(* Processes. *)

\* `campaign resume`: a worker in a process of its own.
Launch(w) ==
    /\ w # ApiWorker /\ pc[w] \in {"down", "dead"}
    /\ launches < MaxLaunches
    /\ launches' = launches + 1
    /\ pc' = [pc EXCEPT ![w] = "start"]
    /\ UNCHANGED <<row, log, flag, goal, job, seen, msg, crashes, late>>

\* A process dies with its threads and its flag; the database stays.
Crash(p) ==
    /\ crashes < MaxCrashes
    /\ crashes' = crashes + 1
    /\ \E t \in Threads : Home[t] = p /\ pc[t] \notin Stopped \cup {"idle"}
    /\ pc' = [t \in Threads |-> IF Home[t] = p THEN "down" ELSE pc[t]]
    /\ flag' = [flag EXCEPT ![p] = FALSE]
    /\ goal' = [t \in Threads |-> IF Home[t] = p THEN NoGoal ELSE goal[t]]
    /\ seen' = [t \in Threads |-> IF Home[t] = p THEN Created ELSE seen[t]]
    /\ msg' = [t \in Threads |-> IF Home[t] = p THEN NoMsg ELSE msg[t]]
    /\ UNCHANGED <<row, log, job, launches, late>>

-------------------------------------------------------------------------------
WorkerStep(w) ==
    \/ CheckTerminal(w) \/ StartStage(w) \/ StopOnFlag(w) \/ StageFails(w)
    \/ BeginFail(w) \/ Enter(w) \/ CheckFlag(w)

ThreadStep(t) ==
    \/ ReadRow(t) \/ CommitRow(t) \/ Reject(t)
    \/ ReadVersion(t) \/ ReadPredecessor(t) \/ AppendEvent(t)

CancelStep(c) == LookAtRow(c)

Next ==
    \/ \E w \in Workers : WorkerStep(w) \/ Launch(w)
    \/ \E t \in Threads : ThreadStep(t)
    \/ \E c \in Cancellers : Request(c) \/ CancelStep(c)
    \/ \E p \in Procs : Crash(p)

\* A running thread is scheduled until it stops.  Nobody is obliged to request a
\* cancel, to resume a campaign or to crash.
Fairness ==
    /\ \A w \in Workers : WF_vars(WorkerStep(w) \/ ThreadStep(w))
    /\ \A c \in Cancellers : WF_vars(CancelStep(c) \/ ThreadStep(c))

Spec == Init /\ [][Next]_vars /\ Fairness
-------------------------------------------------------------------------------
(* Properties. *)

\* Every variable holds a value of its kind.
TypeOK ==
    /\ row \in Rows
    /\ log \in Seq(Events)
    /\ flag \in [Procs -> BOOLEAN]
    /\ pc \in [Threads -> PCs]
    /\ goal \in [Threads -> States]
    /\ job \in [Threads -> {"stage", "fail", "cancel"}]
    /\ seen \in [Threads -> Rows]
    /\ msg \in [Threads -> Events]
    /\ launches \in 0..MaxLaunches
    /\ crashes \in 0..MaxCrashes
    /\ late \in [Workers -> Nat]

Life == INSTANCE CampaignLife WITH state <- row.state, version <- row.version

\* With any number of workers, cancel requests and crashes interleaved, the row moves
\* one version at a time along one legal edge and never leaves a terminal state: the
\* decision a thread took on an older read of the row (controller.transition, lines
\* 158-161) never reaches a row that has changed since.
RowFollowsLife == Life!Spec

\* cancel in a process leaves the worker of that process at most one more row to
\* write: the one whose flag check had already passed.
CancelStopsWork == \A w \in Workers : late[w] <= 1

StateEventsOf(v) == {i \in DOMAIN log : log[i].name = "search.state" /\ log[i].version = v}

\* Some thread has written version v and not yet its event.
EventPending(v) ==
    \E t \in Threads : /\ pc[t] \in {"pred", "append"}
                       /\ msg[t].name = "search.state" /\ msg[t].version = v

\* The log accounts for the row: each version the row went through has exactly one
\* search.state event (or a thread about to append it, or a process died), no event
\* speaks of a version the row never had, and whatever order the threads appended
\* in, following the events by version walks legal edges.
LogAccountsForRow ==
    /\ \A v \in 0..row.version :
          /\ Cardinality(StateEventsOf(v)) <= 1
          /\ StateEventsOf(v) = {} => EventPending(v) \/ crashes > 0
    /\ \A i \in DOMAIN log : log[i].version <= row.version
    /\ \A i, j \in DOMAIN log :
          /\ log[i].name = "search.state" /\ log[j].name = "search.state"
          /\ log[j].version = log[i].version + 1
          => IsLegal(log[i].state, log[j].state)

Completions == {i \in DOMAIN log : log[i].name = "search.complete"}

\* docs/architecture/API.md:133-134 of cancel: it stops new work and persists
\* CANCELLED.  So once a cancel request has been answered and no worker is left, the
\* campaign has ended.
CancelEndsCampaign ==
    (/\ crashes = 0
     /\ \E c \in Cancellers : pc[c] \in {"done", "raised"}
     /\ \A t \in Threads : pc[t] \in Stopped \cup {"idle"})
    => row.state \in Terminal

\* campaigns/events.py:46-52 event_chain_ok: each event names the event before it.
EventChainLinear == \A i \in DOMAIN log : log[i].pred = i - 1
===============================================================================
