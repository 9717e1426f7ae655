---------------------------- MODULE SourceAccess ----------------------------
(***************************************************************************)
(* How campaigns come to ask one source, or not to: the plan reads the     *)
(* health of the source (sources/broker.py), the run looks at the circuit  *)
(* (sources/circuit.py), every page passes the robots gate                 *)
(* (sources/admission.py, sources/robots.py), and the outcome of the run   *)
(* goes back into the health row (sources/health.py).                      *)
(*                                                                         *)
(* There is one thread per campaign.  The health row and the robots row    *)
(* are in the database and shared; a robots snapshot held in memory        *)
(* belongs to the campaign's engine.  record reads the row in one          *)
(* statement and writes it in another.  The clock ticks at any time.       *)
(***************************************************************************)
EXTENDS Integers

CONSTANTS Threads,        \* one source thread per campaign
          Threshold,      \* BREAKER_THRESHOLD
          OpenFor,        \* BREAKER_OPEN_HOURS, in ticks
          Ttl,            \* robots_ttl_seconds, in ticks
          MaxWork,        \* max_work: pages taken up in one run
          PageOutcomes,   \* what a fetched page may come back as
          DiscoverBlocks, \* what an adapter may say before any page is fetched
          MaxTime, MaxFailures   \* bounds of the model

ASSUME AccessConstants ==
    /\ Threshold \in Nat \ {0} /\ OpenFor \in Nat \ {0} /\ Ttl \in Nat \ {0}
    /\ MaxWork \in Nat /\ MaxTime \in Nat /\ MaxFailures \in Nat

\* SourceOutcome, with one member for each way the code treats them:
\* AUTH_REQUIRED goes the way of RATE_LIMITED, UNMEASURABLE that of
\* NETWORK_FAILED.
Answers == {"MATCHES_FOUND", "NO_MATCH"}
Blocks == {"BLOCKED_BY_ACCESS", "BLOCKED_BY_POLICY", "RATE_LIMITED",
           "SOURCE_UNAVAILABLE"}
Failures == {"PARSER_FAILED", "NETWORK_FAILED"}
Outcomes == Answers \union Blocks \union Failures \union {"NOT_ATTEMPTED"}

\* classify_http and the challenge check give a page any outcome but these;
\* an adapter's discover may answer with a block.
ASSUME InputConstants ==
    /\ PageOutcomes \subseteq Outcomes \ {"NOT_ATTEMPTED", "BLOCKED_BY_POLICY"}
    /\ DiscoverBlocks \subseteq Blocks

Verdicts == {"allows", "disallows", "fetch_failed"}

VARIABLES
    now,        \* the clock
    health,     \* the row of source_health
    robotsRow,  \* the row of robots_cache
    memory,     \* each engine: RobotsCache._memory
    pc,         \* each thread: the place reached
    seen,       \* each thread: the row that record has read
    outcome,    \* each thread: last_outcome; its coverage when it has ended
    found,      \* each thread: a page gave candidates
    worked,     \* each thread: pages taken up
    recorded,   \* history: failures and blocks recorded
    standing,   \* history: the end of the window of the last block recorded,
                \*   0 when an answer has been recorded since
    overlap,    \* history: two records have overlapped
    age         \* history: how old the robots file was on which a thread
                \*   fetched its last page; -1 before the first

vars == <<now, health, robotsRow, memory, pc, seen, outcome, found, worked,
          recorded, standing, overlap, age>>

States == {"HEALTHY", "DEGRADED", "BLOCKED", "PARSER_DRIFT", "UNAVAILABLE"}
Rows == [failures : Nat, until : Nat, last : Outcomes, state : States]

\* No row, and a row of zeros, are the same to every reader.
NoRow == [failures |-> 0, until |-> 0, last |-> "NOT_ATTEMPTED", state |-> "HEALTHY"]

\* A snapshot: when it was put where it is, when its file was fetched, and
\* what the file said.  at = -1: there is none.
Snapshots == [at : {-1} \union Nat, fetched : {-1} \union Nat, says : Verdicts]
NoSnapshot == [at |-> -1, fetched |-> -1, says |-> "fetch_failed"]

Places == {"idle", "planned", "work", "ending", "record", "write", "refused", "done"}

TypeOK ==
    /\ now \in 0..MaxTime
    /\ health \in Rows
    /\ robotsRow \in Snapshots
    /\ memory \in [Threads -> Snapshots]
    /\ pc \in [Threads -> Places]
    /\ seen \in [Threads -> Rows]
    /\ outcome \in [Threads -> Outcomes]
    /\ found \in [Threads -> BOOLEAN]
    /\ worked \in [Threads -> 0..MaxWork]
    /\ recorded \in 0..MaxFailures
    /\ standing \in Nat
    /\ overlap \in BOOLEAN
    /\ age \in [Threads -> {-1} \union Nat]

Init ==
    /\ now = 0
    /\ health = NoRow
    /\ robotsRow = NoSnapshot
    /\ memory = [t \in Threads |-> NoSnapshot]
    /\ pc = [t \in Threads |-> "idle"]
    /\ seen = [t \in Threads |-> NoRow]
    /\ outcome = [t \in Threads |-> "NOT_ATTEMPTED"]
    /\ found = [t \in Threads |-> FALSE]
    /\ worked = [t \in Threads |-> 0]
    /\ recorded = 0 /\ standing = 0
    /\ overlap = FALSE
    /\ age = [t \in Threads |-> -1]

Tick ==
    /\ now < MaxTime
    /\ now' = now + 1
    /\ UNCHANGED <<health, robotsRow, memory, pc, seen, outcome, found, worked,
                   recorded, standing, overlap, age>>

-----------------------------------------------------------------------------
(* The plan, and the circuit                                               *)

MayPlan(state) == state \in {"HEALTHY", "DEGRADED", "PARSER_DRIFT"}

\* _health_skip_outcome: the coverage of a source that was not planned.
SkipOutcome(row) ==
    IF row.last \notin Answers \union {"NOT_ATTEMPTED"} THEN row.last
    ELSE IF row.state = "UNAVAILABLE" THEN "SOURCE_UNAVAILABLE"
    ELSE "BLOCKED_BY_ACCESS"

\* A campaign, with an engine of its own, comes to this source in its plan.
Plan(t) ==
    /\ pc[t] \in {"idle", "refused", "done"}
    /\ age' = [age EXCEPT ![t] = -1]
    /\ IF MayPlan(health.state)
       THEN /\ pc' = [pc EXCEPT ![t] = "planned"]
            /\ outcome' = [outcome EXCEPT ![t] = "NOT_ATTEMPTED"]
       ELSE /\ pc' = [pc EXCEPT ![t] = "refused"]
            /\ outcome' = [outcome EXCEPT ![t] = SkipOutcome(health)]
    /\ UNCHANGED <<now, health, robotsRow, memory, seen, found, worked,
                   recorded, standing, overlap>>

\* HealthStore.get: circuit_open is whether breaker_open_until is set.
CircuitOpen(row) == row.until # 0

\* assert_closed, and the first query of the plan: an adapter may say that
\* the source is closed to it before any page is fetched.
AssertClosed(t) ==
    /\ pc[t] = "planned"
    /\ IF CircuitOpen(health)
       THEN /\ pc' = [pc EXCEPT ![t] = "refused"]
            /\ outcome' = [outcome EXCEPT ![t] = "BLOCKED_BY_ACCESS"]
       ELSE \/ pc' = [pc EXCEPT ![t] = "work"] /\ UNCHANGED outcome
            \/ /\ pc' = [pc EXCEPT ![t] = "record"]
               /\ outcome' \in {[outcome EXCEPT ![t] = o] : o \in DiscoverBlocks}
    /\ UNCHANGED <<now, health, robotsRow, memory, seen, found, worked,
                   recorded, standing, overlap, age>>

-----------------------------------------------------------------------------
(* The pages                                                               *)

\* Mutated form of Held: a snapshot in memory never lapses.
HeldForever(t) == memory[t].at # -1

\* RobotsCache.get_cached: memory, then the row, each within the ttl.
Held(t) == memory[t].at # -1 /\ now - memory[t].at < Ttl
InRow == robotsRow.at # -1 /\ now - robotsRow.at <= Ttl

\* A snapshot taken from the row enters memory with the time of now.
FromRow == [at |-> now, fetched |-> robotsRow.fetched, says |-> robotsRow.says]

\* What decide goes by, and where it leaves it.
UseRobots(t, snapshot) ==
    \/ Held(t) /\ snapshot = memory[t] /\ UNCHANGED <<memory, robotsRow>>
    \/ /\ ~Held(t) /\ InRow
       /\ snapshot = FromRow
       /\ memory' = [memory EXCEPT ![t] = snapshot]
       /\ UNCHANGED robotsRow
    \/ /\ ~Held(t) /\ ~InRow
       /\ snapshot.at = now /\ snapshot.fetched = now
       /\ memory' = [memory EXCEPT ![t] = snapshot]
       /\ robotsRow' = snapshot

\* The snapshots decide may go by at this moment.
Candidates(t) ==
    {memory[t], FromRow} \union
    {[at |-> now, fetched |-> now, says |-> v] : v \in Verdicts}

\* One page: the gate, then the fetch.  A page that was read need not hold a
\* candidate.
Work(t) ==
    /\ pc[t] = "work" /\ worked[t] < MaxWork
    /\ worked' = [worked EXCEPT ![t] = @ + 1]
    /\ \E snapshot \in Candidates(t) :
         /\ UseRobots(t, snapshot)
         /\ IF snapshot.says = "allows"
            THEN /\ outcome' \in {[outcome EXCEPT ![t] = o] : o \in PageOutcomes}
                 /\ \/ UNCHANGED found
                    \/ /\ outcome'[t] = "MATCHES_FOUND"
                       /\ found' = [found EXCEPT ![t] = TRUE]
                 /\ age' = [age EXCEPT ![t] = now - snapshot.fetched]
            ELSE /\ outcome' = [outcome EXCEPT ![t] = "BLOCKED_BY_POLICY"]
                 /\ UNCHANGED <<found, age>>
    /\ UNCHANGED <<now, health, pc, seen, recorded, standing, overlap>>

\* The loop is over: no work left, or none that the budget allows.  The
\* snapshots of this engine are not asked again.
EndWork(t) ==
    /\ pc[t] = "work"
    /\ outcome' = [outcome EXCEPT ![t] =
           IF found[t] THEN "MATCHES_FOUND"
           ELSE IF @ = "NOT_ATTEMPTED" THEN "NO_MATCH" ELSE @]
    /\ memory' = [memory EXCEPT ![t] = NoSnapshot]
    /\ worked' = [worked EXCEPT ![t] = 0]
    /\ found' = [found EXCEPT ![t] = FALSE]
    /\ pc' = [pc EXCEPT ![t] = "record"]
    /\ UNCHANGED <<now, health, robotsRow, seen, recorded, standing, overlap, age>>

-----------------------------------------------------------------------------
(* HealthStore.record                                                      *)

\* Mutated form of UntilAfter: a block has to be counted.
UntilCounted(row, o) ==
    IF o \in Answers THEN 0
    ELSE IF o \in Blocks \union Failures /\ row.failures + 1 >= Threshold
         THEN now + OpenFor
    ELSE IF row.until > now THEN row.until ELSE 0

FailuresAfter(row, o) ==
    IF o \in Answers THEN 0
    ELSE IF o \in Blocks \union Failures THEN row.failures + 1 ELSE row.failures

UntilAfter(row, o) ==
    IF o \in Answers THEN 0
    ELSE IF o \in Blocks \/ (o \in Failures /\ row.failures + 1 >= Threshold)
         THEN now + OpenFor
    ELSE IF row.until > now THEN row.until ELSE 0

StateAfter(o, failures, open) ==
    IF open \/ o = "BLOCKED_BY_ACCESS" THEN "BLOCKED"
    ELSE IF o = "SOURCE_UNAVAILABLE" THEN "UNAVAILABLE"
    ELSE IF o = "PARSER_FAILED" THEN "PARSER_DRIFT"
    ELSE IF failures > 0 \/ o = "RATE_LIMITED" THEN "DEGRADED"
    ELSE "HEALTHY"

RowAfter(row, o) ==
    [failures |-> FailuresAfter(row, o), until |-> UntilAfter(row, o), last |-> o,
     state |-> StateAfter(o, FailuresAfter(row, o), UntilAfter(row, o) # 0)]

RecordRead(t) ==
    /\ pc[t] = "record"
    /\ seen' = [seen EXCEPT ![t] = health]
    /\ pc' = [pc EXCEPT ![t] = "write"]
    /\ overlap' = (overlap \/ \E u \in Threads \ {t} : pc[u] = "write")
    /\ UNCHANGED <<now, health, robotsRow, memory, outcome, found, worked,
                   recorded, standing, age>>

RecordWrite(t) ==
    /\ pc[t] = "write"
    /\ outcome[t] \notin Answers => recorded < MaxFailures
    /\ health' = RowAfter(seen[t], outcome[t])
    /\ seen' = [seen EXCEPT ![t] = NoRow]
    /\ pc' = [pc EXCEPT ![t] = "done"]
    /\ recorded' = IF outcome[t] \in Blocks \union Failures THEN recorded + 1
                   ELSE recorded
    /\ standing' = IF outcome[t] \in Answers THEN 0
                   ELSE IF outcome[t] \in Blocks THEN now + OpenFor ELSE standing
    /\ UNCHANGED <<now, robotsRow, memory, outcome, found, worked, overlap, age>>

Next ==
    \/ Tick
    \/ \E t \in Threads :
         \/ Plan(t) \/ AssertClosed(t) \/ Work(t) \/ EndWork(t)
         \/ RecordRead(t) \/ RecordWrite(t)

Spec == Init /\ [][Next]_vars

-----------------------------------------------------------------------------
(* Properties                                                              *)

\* The plan goes by the state of the row, the circuit by the end of its window.
\* They never disagree: a campaign is refused at the circuit only for what was
\* recorded after its plan.  (Proved in Sources_proofs.)
PlanAgreesWithCircuit == MayPlan(health.state) <=> ~CircuitOpen(health)

\* No page is fetched on a robots file of two lifetimes or more: one in the
\* row, one in memory.  ("Per-origin cache with TTL".)
RobotsBounded == \A t \in Threads : age[t] < 2 * Ttl

\* A breaker opened by counting has counted: whatever records were lost to the race of
\* read and write, the row counts no more failures than were recorded.  (Proved in
\* Sources_proofs.)
FailuresEarned ==
    /\ health.failures <= recorded
    /\ \A t \in Threads : seen[t].failures <= recorded

\* "Access block is final for this circuit window": after a block no campaign
\* gets past the circuit before the window is over, unless an answer has been
\* recorded since.  Records that overlap may undo each other.
BlockStands ==
    [][\A t \in Threads : pc[t] = "planned" /\ pc'[t] = "work"
         => overlap \/ now >= standing]_vars

\* A breaker is open for its window ("open for hours").  The window is
\* written, but nobody who reads the row compares it with the clock: it fails.
RefusedOnlyInWindow ==
    [][\A t \in Threads : pc[t] = "planned" /\ pc'[t] = "refused"
         => now < health.until]_vars

\* A source is reported as searched without a match only by a campaign that
\* had a page of it (SourceOutcome; as_searched_no_match refuses NOT_ATTEMPTED).
\* It fails.
NoMatchMeansAsked ==
    \A t \in Threads : pc[t] = "done" /\ outcome[t] = "NO_MATCH"
        => age[t] # -1
=============================================================================
