---------------------------- MODULE Sources_proofs ----------------------------
(***************************************************************************)
(* The health of a source, its circuit and its robots file, for any number *)
(* of campaigns, any threshold and any lifetimes; and the client that      *)
(* fetches its pages, for any number of threads, any gaps and ceilings.    *)
(***************************************************************************)
EXTENDS SourceAccess, Fetching, TLAPS

\* A snapshot was put where it is no earlier than its file was fetched, and no
\* later than now; memory takes over what has been in the row for one lifetime
\* at most.
Dated(snapshot, slack) ==
    snapshot.at # -1 =>
        /\ snapshot.fetched \in 0..snapshot.at
        /\ snapshot.at <= now
        /\ snapshot.at - snapshot.fetched <= slack

RobotsDated == Dated(robotsRow, 0) /\ \A t \in Threads : Dated(memory[t], Ttl)

\* As long as no two records have overlapped, the one that has read the row
\* will write over what it has read, and the row holds the last block until the
\* end of its window.
BlockHeld ==
    /\ standing <= now + OpenFor
    /\ ~overlap =>
         /\ standing <= now \/ standing <= health.until
         /\ \A t \in Threads : pc[t] = "write" =>
              /\ seen[t] = health
              /\ \A u \in Threads : pc[u] = "write" => u = t

IInv ==
    /\ TypeOK /\ RobotsDated /\ RobotsBounded
    /\ PlanAgreesWithCircuit /\ FailuresEarned /\ BlockHeld

-----------------------------------------------------------------------------
LEMMA InitIInv == Init => IInv
<1> SUFFICES ASSUME Init PROVE IInv
  OBVIOUS
<1> USE AccessConstants DEF Init
<1>1. NoRow \in Rows /\ NoSnapshot \in Snapshots
  BY DEF NoRow, NoSnapshot, Rows, Snapshots, States, Outcomes, Verdicts
<1>2. TypeOK
  <2>1. /\ health \in Rows /\ robotsRow \in Snapshots
        /\ memory \in [Threads -> Snapshots] /\ seen \in [Threads -> Rows]
    BY <1>1
  <2>2. /\ pc \in [Threads -> Places] /\ outcome \in [Threads -> Outcomes]
        /\ found \in [Threads -> BOOLEAN]
    BY DEF Places, Outcomes
  <2>3. worked \in [Threads -> 0..MaxWork] /\ age \in [Threads -> {-1} \union Nat]
    OBVIOUS
  <2>4. /\ now \in 0..MaxTime /\ recorded \in 0..MaxFailures
        /\ standing \in Nat
    OBVIOUS
  <2>5. overlap \in BOOLEAN
    OBVIOUS
  <2>. QED
    BY <2>1, <2>2, <2>3, <2>4, <2>5 DEF TypeOK
<1>3. RobotsDated /\ RobotsBounded
  BY DEF RobotsDated, Dated, RobotsBounded, NoSnapshot
<1>4. PlanAgreesWithCircuit
  BY DEF PlanAgreesWithCircuit, NoRow, MayPlan, CircuitOpen
<1>5. FailuresEarned /\ BlockHeld
  BY DEF FailuresEarned, BlockHeld, NoRow
<1>. QED
  BY <1>2, <1>3, <1>4, <1>5 DEF IInv

\* What record writes is a row.
LEMMA RowAfterType ==
    ASSUME NEW row \in Rows, NEW o \in Outcomes, now \in Nat
    PROVE  RowAfter(row, o) \in Rows
<1>1. FailuresAfter(row, o) \in Nat /\ UntilAfter(row, o) \in Nat
  BY AccessConstants DEF FailuresAfter, UntilAfter, Rows
<1>2. StateAfter(o, FailuresAfter(row, o), UntilAfter(row, o) # 0) \in States
  BY DEF StateAfter, States
<1>. QED
  BY <1>1, <1>2 DEF RowAfter, Rows

\* The plan refuses a row that record has written if and only if the circuit
\* does.
LEMMA RowAfterAgrees ==
    ASSUME NEW row \in Rows, NEW o \in Outcomes, now \in Nat
    PROVE  MayPlan(RowAfter(row, o).state) <=> ~CircuitOpen(RowAfter(row, o))
<1>1. o \in Blocks => UntilAfter(row, o) # 0
  BY AccessConstants DEF UntilAfter, Blocks, Answers
<1>2. CASE UntilAfter(row, o) # 0
  BY <1>2 DEF RowAfter, StateAfter, MayPlan, CircuitOpen
<1>3. CASE UntilAfter(row, o) = 0
  <2>1. o # "BLOCKED_BY_ACCESS" /\ o # "SOURCE_UNAVAILABLE"
    BY <1>1, <1>3 DEF Blocks
  <2>. QED
    BY <1>3, <2>1 DEF RowAfter, StateAfter, MayPlan, CircuitOpen
<1>. QED
  BY <1>2, <1>3

\* A snapshot that a page goes by, and what it leaves in memory and in the row.
LEMMA RobotsUsed ==
    ASSUME IInv, NEW t \in Threads, NEW snapshot \in Candidates(t),
           UseRobots(t, snapshot)
    PROVE  /\ snapshot \in Snapshots
           /\ now - snapshot.fetched \in Nat
           /\ now - snapshot.fetched < 2 * Ttl
           /\ memory' \in [Threads -> Snapshots] /\ robotsRow' \in Snapshots
           /\ now' = now => RobotsDated'
<1> USE AccessConstants DEF IInv, TypeOK, RobotsDated, Dated, Snapshots
<1>1. CASE Held(t) /\ snapshot = memory[t] /\ UNCHANGED <<memory, robotsRow>>
  BY <1>1 DEF Held
<1>2. CASE ~Held(t) /\ InRow /\ snapshot = FromRow
           /\ memory' = [memory EXCEPT ![t] = snapshot] /\ UNCHANGED robotsRow
  <2>1. snapshot \in Snapshots /\ snapshot.at = now /\ snapshot.fetched = robotsRow.fetched
    BY <1>2 DEF FromRow
  <2>2. snapshot.fetched \in 0..now /\ now - snapshot.fetched <= Ttl
    BY <1>2, <2>1 DEF InRow
  <2>. QED
    BY <1>2, <2>1, <2>2
<1>3. CASE ~Held(t) /\ ~InRow /\ snapshot.at = now /\ snapshot.fetched = now
           /\ memory' = [memory EXCEPT ![t] = snapshot] /\ robotsRow' = snapshot
  <2>1. memory[t] \in Snapshots /\ FromRow \in Snapshots
    BY DEF FromRow
  <2>2. \A v \in Verdicts : [at |-> now, fetched |-> now, says |-> v] \in Snapshots
    OBVIOUS
  <2>3. snapshot \in Snapshots
    BY <2>1, <2>2 DEF Candidates
  <2>. QED
    BY <1>3, <2>3
<1>. QED
  BY <1>1, <1>2, <1>3 DEF UseRobots

-----------------------------------------------------------------------------
LEMMA StepTypeOK ==
    ASSUME IInv, [Next]_vars PROVE TypeOK'
<1> USE AccessConstants DEF IInv, TypeOK, Places
<1>1. CASE Tick
  BY <1>1 DEF Tick
<1>2. ASSUME NEW t \in Threads, Plan(t) PROVE TypeOK'
  <2>1. SkipOutcome(health) \in Outcomes
    BY DEF SkipOutcome, Rows, Outcomes, Blocks
  <2>2. outcome' \in [Threads -> Outcomes] /\ pc' \in [Threads -> Places]
    BY <1>2, <2>1 DEF Plan, Outcomes
  <2>. QED
    BY <1>2, <2>2 DEF Plan
<1>3. ASSUME NEW t \in Threads, AssertClosed(t) PROVE TypeOK'
  <2>1. outcome' \in [Threads -> Outcomes]
    BY <1>3, InputConstants DEF AssertClosed, Outcomes, Blocks
  <2>. QED
    BY <1>3, <2>1 DEF AssertClosed
<1>4. ASSUME NEW t \in Threads, Work(t) PROVE TypeOK'
  <2>1. PICK snapshot \in Candidates(t) :
         /\ UseRobots(t, snapshot)
         /\ IF snapshot.says = "allows"
            THEN /\ outcome' \in {[outcome EXCEPT ![t] = o] : o \in PageOutcomes}
                 /\ \/ UNCHANGED found
                    \/ /\ outcome'[t] = "MATCHES_FOUND"
                       /\ found' = [found EXCEPT ![t] = TRUE]
                 /\ age' = [age EXCEPT ![t] = now - snapshot.fetched]
            ELSE /\ outcome' = [outcome EXCEPT ![t] = "BLOCKED_BY_POLICY"]
                 /\ UNCHANGED <<found, age>>
    BY <1>4 DEF Work
  <2>2. memory' \in [Threads -> Snapshots] /\ robotsRow' \in Snapshots
    BY <2>1, RobotsUsed
  <2>3. age' \in [Threads -> {-1} \union Nat] /\ found' \in [Threads -> BOOLEAN]
    <3>1. now - snapshot.fetched \in Nat
      BY <2>1, RobotsUsed
    <3>. QED
      BY <2>1, <3>1
  <2>4. outcome' \in [Threads -> Outcomes]
    BY <2>1, InputConstants DEF Outcomes, Blocks
  <2>5. worked' \in [Threads -> 0..MaxWork]
    BY <1>4 DEF Work
  <2>. QED
    BY <1>4, <2>2, <2>3, <2>4, <2>5 DEF Work
<1>5. ASSUME NEW t \in Threads, EndWork(t) PROVE TypeOK'
  <2>1. outcome' \in [Threads -> Outcomes]
    BY <1>5 DEF EndWork, Outcomes, Answers
  <2>. QED
    BY <1>5, <2>1 DEF EndWork, NoSnapshot, Snapshots, Verdicts
<1>6. ASSUME NEW t \in Threads, RecordRead(t) PROVE TypeOK'
  BY <1>6 DEF RecordRead
<1>7. ASSUME NEW t \in Threads, RecordWrite(t) PROVE TypeOK'
  <2>1. health' \in Rows
    BY <1>7, RowAfterType DEF RecordWrite
  <2>2. recorded' \in 0..MaxFailures
    BY <1>7 DEF RecordWrite, Blocks, Failures, Answers
  <2>3. standing' \in Nat
    BY <1>7 DEF RecordWrite
  <2>4. seen' \in [Threads -> Rows]
    BY <1>7 DEF RecordWrite, NoRow, Rows, States, Outcomes
  <2>. QED
    BY <1>7, <2>1, <2>2, <2>3, <2>4 DEF RecordWrite
<1>8. CASE UNCHANGED vars
  BY <1>8 DEF vars
<1>. QED
  BY <1>1, <1>2, <1>3, <1>4, <1>5, <1>6, <1>7, <1>8 DEF Next

LEMMA StepRobots ==
    ASSUME IInv, [Next]_vars PROVE (RobotsDated /\ RobotsBounded)'
<1> USE AccessConstants DEF IInv, TypeOK, RobotsDated, RobotsBounded, Dated, Snapshots
<1>1. CASE Tick
  BY <1>1 DEF Tick
<1>2. ASSUME NEW t \in Threads, Plan(t) PROVE (RobotsDated /\ RobotsBounded)'
  BY <1>2 DEF Plan
<1>3. ASSUME NEW t \in Threads, AssertClosed(t) PROVE (RobotsDated /\ RobotsBounded)'
  BY <1>3 DEF AssertClosed
<1>4. ASSUME NEW t \in Threads, Work(t) PROVE (RobotsDated /\ RobotsBounded)'
  <2>1. PICK snapshot \in Candidates(t) :
         /\ UseRobots(t, snapshot)
         /\ \/ age' = [age EXCEPT ![t] = now - snapshot.fetched]
            \/ UNCHANGED age
    BY <1>4 DEF Work
  <2>2. now - snapshot.fetched < 2 * Ttl /\ RobotsDated'
    BY <2>1, <1>4, RobotsUsed DEF Work
  <2>. QED
    BY <2>1, <2>2
<1>5. ASSUME NEW t \in Threads, EndWork(t) PROVE (RobotsDated /\ RobotsBounded)'
  BY <1>5 DEF EndWork, NoSnapshot
<1>6. ASSUME NEW t \in Threads, RecordRead(t) PROVE (RobotsDated /\ RobotsBounded)'
  BY <1>6 DEF RecordRead
<1>7. ASSUME NEW t \in Threads, RecordWrite(t) PROVE (RobotsDated /\ RobotsBounded)'
  BY <1>7 DEF RecordWrite
<1>8. CASE UNCHANGED vars
  BY <1>8 DEF vars
<1>. QED
  BY <1>1, <1>2, <1>3, <1>4, <1>5, <1>6, <1>7, <1>8 DEF Next

LEMMA StepHealth ==
    ASSUME IInv, [Next]_vars PROVE (PlanAgreesWithCircuit /\ FailuresEarned)'
<1> USE AccessConstants DEF IInv, TypeOK, PlanAgreesWithCircuit, FailuresEarned
<1>1. CASE Tick
  BY <1>1 DEF Tick
<1>2. ASSUME NEW t \in Threads, Plan(t) PROVE (PlanAgreesWithCircuit /\ FailuresEarned)'
  BY <1>2 DEF Plan
<1>3. ASSUME NEW t \in Threads, AssertClosed(t) PROVE (PlanAgreesWithCircuit /\ FailuresEarned)'
  BY <1>3 DEF AssertClosed
<1>4. ASSUME NEW t \in Threads, Work(t) PROVE (PlanAgreesWithCircuit /\ FailuresEarned)'
  BY <1>4 DEF Work
<1>5. ASSUME NEW t \in Threads, EndWork(t) PROVE (PlanAgreesWithCircuit /\ FailuresEarned)'
  BY <1>5 DEF EndWork
<1>6. ASSUME NEW t \in Threads, RecordRead(t) PROVE (PlanAgreesWithCircuit /\ FailuresEarned)'
  BY <1>6 DEF RecordRead
<1>7. ASSUME NEW t \in Threads, RecordWrite(t) PROVE (PlanAgreesWithCircuit /\ FailuresEarned)'
  <2>1. (MayPlan(health.state) <=> ~CircuitOpen(health))'
    BY <1>7, RowAfterAgrees DEF RecordWrite, MayPlan, CircuitOpen
  <2>2. FailuresAfter(seen[t], outcome[t]) <= recorded'
    BY <1>7 DEF RecordWrite, FailuresAfter, Rows
  <2>3. recorded' >= recorded /\ recorded' \in Nat
    BY <1>7 DEF RecordWrite
  <2>4. health'.failures = FailuresAfter(seen[t], outcome[t])
    BY <1>7 DEF RecordWrite, RowAfter
  <2>5. \A u \in Threads : seen'[u].failures <= recorded'
    BY <1>7, <2>3 DEF RecordWrite, NoRow, Rows
  <2>. QED
    BY <2>1, <2>2, <2>4, <2>5
<1>8. CASE UNCHANGED vars
  BY <1>8 DEF vars
<1>. QED
  BY <1>1, <1>2, <1>3, <1>4, <1>5, <1>6, <1>7, <1>8 DEF Next

LEMMA StepBlock ==
    ASSUME IInv, [Next]_vars PROVE BlockHeld'
<1> USE AccessConstants DEF IInv, TypeOK, BlockHeld, Rows
<1>1. CASE Tick
  BY <1>1 DEF Tick
<1>2. ASSUME NEW t \in Threads, Plan(t) PROVE BlockHeld'
  BY <1>2 DEF Plan
<1>3. ASSUME NEW t \in Threads, AssertClosed(t) PROVE BlockHeld'
  BY <1>3 DEF AssertClosed
<1>4. ASSUME NEW t \in Threads, Work(t) PROVE BlockHeld'
  BY <1>4 DEF Work
<1>5. ASSUME NEW t \in Threads, EndWork(t) PROVE BlockHeld'
  BY <1>5 DEF EndWork
<1>6. ASSUME NEW t \in Threads, RecordRead(t) PROVE BlockHeld'
  BY <1>6 DEF RecordRead
<1>7. ASSUME NEW t \in Threads, RecordWrite(t) PROVE BlockHeld'
  <2>1. (standing <= now + OpenFor)'
    BY <1>7 DEF RecordWrite
  <2>2. ASSUME ~overlap PROVE standing' <= now \/ standing' <= health'.until
    <3>1. seen[t] = health /\ health'.until = UntilAfter(health, outcome[t])
      BY <1>7, <2>2 DEF RecordWrite, RowAfter
    <3>. QED
      BY <1>7, <2>2, <3>1 DEF RecordWrite, UntilAfter, Blocks, Answers
  <2>3. ASSUME ~overlap, NEW u \in Threads, pc'[u] = "write" PROVE FALSE
    BY <1>7, <2>3 DEF RecordWrite
  <2>. QED
    BY <1>7, <2>1, <2>2, <2>3 DEF RecordWrite
<1>8. CASE UNCHANGED vars
  BY <1>8 DEF vars
<1>. QED
  BY <1>1, <1>2, <1>3, <1>4, <1>5, <1>6, <1>7, <1>8 DEF Next

-----------------------------------------------------------------------------
LEMMA Invariance == Spec => []IInv
<1>1. IInv /\ [Next]_vars => IInv'
  BY StepTypeOK, StepRobots, StepHealth, StepBlock DEF IInv
<1>. QED
  BY InitIInv, <1>1, PTL DEF Spec

\* TypeOK for any number of campaigns and any lifetimes.
THEOREM SourceTypeCorrect == Spec => []TypeOK
<1>1. IInv => TypeOK
  BY DEF IInv
<1>. QED
  BY <1>1, Invariance, PTL

\* The plan (may_plan of the state) and the circuit (breaker_open_until) refuse
\* the same rows.
THEOREM OneVerdictOnHealth == Spec => []PlanAgreesWithCircuit
<1>1. IInv => PlanAgreesWithCircuit
  BY DEF IInv
<1>. QED
  BY <1>1, Invariance, PTL

\* A page is fetched on a robots file younger than two lifetimes.
THEOREM RobotsLifetime == Spec => []RobotsBounded
<1>1. IInv => RobotsBounded
  BY DEF IInv
<1>. QED
  BY <1>1, Invariance, PTL

\* consecutive_failures never counts a failure that was not recorded, although
\* record reads and writes the row without a lock.
THEOREM NoFailureInvented == Spec => []FailuresEarned
<1>1. IInv => FailuresEarned
  BY DEF IInv
<1>. QED
  BY <1>1, Invariance, PTL

\* After a block, assert_closed lets nobody through before the window is over,
\* unless an answer was recorded or two records overlapped.
THEOREM BlockIsFinal == Spec => BlockStands
<1>1. IInv /\ [Next]_vars =>
        [\A t \in Threads : pc[t] = "planned" /\ pc'[t] = "work"
            => overlap \/ now >= standing]_vars
  <2> SUFFICES ASSUME IInv, Next, NEW t \in Threads,
                      pc[t] = "planned", pc'[t] = "work", ~overlap
               PROVE  now >= standing
    BY DEF vars
  <2> USE DEF IInv, TypeOK
  <2>1. AssertClosed(t)
    BY DEF Next, Tick, Plan, AssertClosed, Work, EndWork, RecordRead, RecordWrite
  <2>2. health.until = 0
    BY <2>1 DEF AssertClosed, CircuitOpen
  <2>. QED
    BY <2>2 DEF BlockHeld, Rows
<1>. QED
  BY <1>1, Invariance, PTL DEF Spec, BlockStands

-----------------------------------------------------------------------------
(* The client that fetches a source's pages. *)


\* A thread that has a page at work has its URL, and one that sleeps before a
\* retry has a try left.
AtWork ==
    \A t \in Fetchers :
        /\ place[t] \notin {"idle", "ended"} => url[t] \in Urls
        /\ place[t] = "backoff" => tries[t] < RetryCeiling

\* Nobody sleeps to a slot that is not given yet; who sleeps to one of the
\* limiter that is there asks what it is for, and wakes with its last slot at
\* the latest.
SlotsGiven ==
    \A t \in Fetchers :
        /\ mine[t] <= made
        /\ Asleep(t) /\ mine[t] = made =>
             /\ limiter.for = (IF place[t] = "asked" THEN "page" ELSE "robots")
             /\ rest[t] <= limiter.at

\* Those that sleep to slots of one limiter ask the same thing.
SlotsAlike ==
    \A t, u \in Fetchers :
        Asleep(t) /\ Asleep(u) /\ mine[t] = mine[u] => place[t] = place[u]

FetchInv == FetchTypes /\ AtWork /\ SlotsGiven /\ SlotsAlike /\ SlotsApart

-----------------------------------------------------------------------------

LEMMA FetchInitInv == FetchInit => FetchInv
<1> SUFFICES ASSUME FetchInit PROVE FetchInv
  OBVIOUS
<1> USE FetchConstants
<1>1. FetchTypes
  BY DEF FetchInit, FetchTypes, FetchPlaces, FetchOutcomes
<1>2. \A t \in Fetchers : place[t] = "idle" /\ mine[t] = 0 /\ ~Asleep(t)
  BY DEF FetchInit, Asleep
<1>3. made = 0
  BY DEF FetchInit
<1>. QED
  BY <1>1, <1>2, <1>3 DEF FetchInv, AtWork, SlotsGiven, SlotsAlike, SlotsApart

\* Every variable keeps its kind, and every page at work its URL.
LEMMA FetchTypesStep ==
    FetchTypes /\ AtWork /\ [FetchNext]_fetchVars => FetchTypes' /\ AtWork'
<1> SUFFICES ASSUME FetchTypes, AtWork, [FetchNext]_fetchVars PROVE FetchTypes' /\ AtWork'
  OBVIOUS
<1> USE FetchConstants, AnswersAssumption DEF FetchTypes, AtWork
<1>1. CASE Pass
  BY <1>1 DEF Pass, Less, work, past
<1>2. CASE Lapse
  BY <1>2 DEF Lapse, work, past, time
<1>3. ASSUME NEW t \in Fetchers, Begin(t) PROVE FetchTypes' /\ AtWork'
  <2>1. PICK u \in todo[t] :
          /\ todo' = [todo EXCEPT ![t] = @ \ {u}]
          /\ \/ /\ doc' = [doc EXCEPT ![t] = "SOURCE_UNAVAILABLE"]
                /\ UNCHANGED <<place, url>>
             \/ /\ url' = [url EXCEPT ![t] = u] /\ place' = [place EXCEPT ![t] = "gate"]
                /\ UNCHANGED doc
    BY <1>3 DEF Begin, TakenUp, To
  <2>2. u \in Urls
    BY <2>1
  <2>3. /\ gate' = [gate EXCEPT ![t] = "fetch"]
        /\ read' = [read EXCEPT ![t] = FALSE] /\ rendered' = [rendered EXCEPT ![t] = FALSE]
        /\ UNCHANGED <<limiter, robots, cache, used, tries, left, rest, lapses, made, mine>>
        /\ place[t] = "idle"
    BY <1>3 DEF Begin, time
  <2>4. AtWork'
    BY <2>1, <2>2, <2>3 DEF FetchPlaces
  <2>5. /\ place' \in [Fetchers -> FetchPlaces] /\ url' \in [Fetchers -> Urls \union {NoUrl}]
    BY <2>1, <2>2 DEF FetchPlaces
  <2>6. doc' \in [Fetchers -> FetchOutcomes]
    BY <2>1 DEF FetchOutcomes, Retried
  <2>7. todo' \in [Fetchers -> SUBSET Urls]
    BY <2>1
  <2>8. gate' \in [Fetchers -> {"fetch", "render"}]
    BY <2>3
  <2>9. read' \in [Fetchers -> BOOLEAN] /\ rendered' \in [Fetchers -> BOOLEAN]
    BY <2>3
  <2>. QED
    BY <2>3, <2>4, <2>5, <2>6, <2>7, <2>8, <2>9
<1>4. ASSUME NEW t \in Fetchers, End(t) PROVE FetchTypes' /\ AtWork'
  BY <1>4 DEF End, To, time, past, FetchPlaces
<1>5. ASSUME NEW t \in Fetchers, Gate(t) PROVE FetchTypes' /\ AtWork'
  BY <1>5 DEF Gate, Admitted, Refused, Return, To, time, past, FetchPlaces, FetchOutcomes
<1>6. ASSUME NEW t \in Fetchers, AskRobots(t) PROVE FetchTypes' /\ AtWork'
  BY <1>6 DEF AskRobots, Ask, TooLate, Refused, Reserve, NextSlot, Return, To, past, FetchPlaces,
              FetchOutcomes, Kinds, Jittered, Wait, LastSlot
<1>7. ASSUME NEW t \in Fetchers, RobotsAnswer(t) PROVE FetchTypes' /\ AtWork'
  BY <1>7 DEF RobotsAnswer, Admitted, Refused, Return, To, time, past, FetchPlaces, FetchOutcomes
<1>8. ASSUME NEW t \in Fetchers, Attempt(t) PROVE FetchTypes' /\ AtWork'
  <2>0. /\ place[t] = "attempt" /\ used < Ceiling /\ used' = used + 1
        /\ UNCHANGED <<robots, cache, todo, gate, tries, left, lapses, read, rendered>>
    BY <1>8 DEF Attempt, past
  <2>1. CASE Ask(t, "page", "asked") /\ UNCHANGED <<url, doc>>
    BY <2>0, <2>1 DEF Ask, To, FetchPlaces, Reserve, NextSlot, Kinds, Jittered, Wait, LastSlot
  <2>2. CASE /\ TooLate(t, "page") /\ RetryOrReturn(t, "NETWORK_FAILED")
             /\ UNCHANGED mine
    <3>1. limiter' \in [for : Kinds \union {"none"}, at : Int] /\ made' \in Nat
      BY <2>2 DEF TooLate, Reserve, NextSlot, Kinds, Jittered, Wait, LastSlot
    <3>2. CASE MayRetry(t, "NETWORK_FAILED") /\ BackOff(t)
      BY <2>0, <2>2, <3>1, <3>2 DEF MayRetry, BackOff, Nap, To, FetchPlaces
    <3>3. CASE Return(t, "NETWORK_FAILED") /\ UNCHANGED rest
      BY <2>0, <2>2, <3>1, <3>3 DEF Return, To, FetchPlaces, FetchOutcomes, Retried
    <3>. QED
      BY <2>2, <3>2, <3>3 DEF RetryOrReturn
  <2>. QED
    BY <1>8, <2>1, <2>2 DEF Attempt
<1>9. ASSUME NEW t \in Fetchers, Broke(t) PROVE FetchTypes' /\ AtWork'
  BY <1>9 DEF Broke, To, time, past, FetchPlaces
<1>10. ASSUME NEW t \in Fetchers, Answer(t) PROVE FetchTypes' /\ AtWork'
  BY <1>10 DEF Answer, RetryOrReturn, BackOff, Nap, MayRetry, Return, To, FetchPlaces,
               FetchOutcomes, Retried
<1>11. ASSUME NEW t \in Fetchers, Retry(t) PROVE FetchTypes' /\ AtWork'
  BY <1>11 DEF Retry, To, time, past, FetchPlaces
<1>12. ASSUME NEW t \in Fetchers, Browse(t) PROVE FetchTypes' /\ AtWork'
  <2>1. PICK o \in FetchOutcomes : Return(t, o)
    BY <1>12 DEF Browse, FetchOutcomes
  <2>2. /\ UNCHANGED <<limiter, robots, cache, used, todo, gate, tries, left, rest,
                      lapses, made, mine, read>>
        /\ rendered' \in [Fetchers -> BOOLEAN]
    BY <1>12 DEF Browse, time
  <2>. QED
    BY <2>1, <2>2 DEF Return, To, FetchPlaces
<1>13. CASE UNCHANGED fetchVars
  BY <1>13 DEF fetchVars, work, time, past
<1>. QED
  BY <1>1, <1>2, <1>3, <1>4, <1>5, <1>6, <1>7, <1>8, <1>9, <1>10, <1>11, <1>12, <1>13
     DEF FetchNext, Step

-----------------------------------------------------------------------------

\* A thread that does not go to sleep leaves who sleeps, and to what slot, as
\* it is.
LEMMA OthersSleep ==
    ASSUME FetchInv, NEW t \in Fetchers,
           \A u \in Fetchers \ {t} : place'[u] = place[u] /\ rest'[u] = rest[u],
           mine' = mine, ~Asleep(t)', made' \in Nat, made' >= made,
           \A u \in Fetchers \ {t} :
               Asleep(u) /\ mine[u] = made' => limiter'.for = limiter.for
                                               /\ limiter'.at >= rest[u]
    PROVE  SlotsGiven' /\ SlotsAlike' /\ SlotsApart'
<1>1. \A u \in Fetchers : Asleep(u)' => u # t /\ Asleep(u)
  BY DEF Asleep
<1>2. \A u \in Fetchers : Asleep(u)' => place'[u] = place[u] /\ rest'[u] = rest[u]
  BY <1>1
<1>3. SlotsGiven'
  BY <1>1, <1>2 DEF SlotsGiven, FetchInv, FetchTypes
<1>4. SlotsAlike'
  BY <1>1, <1>2 DEF SlotsAlike, FetchInv
<1>5. SlotsApart'
  BY <1>1, <1>2 DEF SlotsApart, FetchInv
<1>. QED
  BY <1>3, <1>4, <1>5

\* A slot reserved is no earlier than the last one of its limiter that somebody
\* sleeps to.
LEMMA Reserved ==
    ASSUME FetchInv, NEW kind \in Kinds, NEW g \in Jittered(kind),
           Reserve(kind, Wait(kind, g))
    PROVE  /\ made' \in Nat /\ made' >= made
           /\ Wait(kind, g) \in Nat /\ limiter' = [for |-> kind, at |-> Wait(kind, g)]
           /\ \A u \in Fetchers : Asleep(u) /\ mine[u] = made' =>
                /\ made' = made /\ limiter.for = kind
                /\ Wait(kind, g) > 0 => Wait(kind, g) >= rest[u] + g
                /\ Wait(kind, g) >= rest[u]
<1> USE FetchConstants DEF FetchInv, FetchTypes, Kinds
<1>1. g \in Nat /\ g <= High
  BY DEF Jittered
<1>2. limiter.at \in Int /\ made \in Nat
  OBVIOUS
<1>3. CASE limiter.for = kind
  <2>1. made' = made
    BY <1>3 DEF Reserve
  <2>2. \A u \in Fetchers : Asleep(u) /\ mine[u] = made => rest[u] <= limiter.at /\ rest[u] > 0
    BY DEF SlotsGiven, Asleep
  <2>3. \A u \in Fetchers : rest[u] \in Nat
    OBVIOUS
  <2>. QED
    BY <1>1, <1>2, <1>3, <2>1, <2>2, <2>3 DEF Wait, LastSlot, Reserve, NextSlot
<1>4. CASE limiter.for # kind
  <2>1. made' = made + 1
    BY <1>4 DEF Reserve
  <2>2. Wait(kind, g) = 0
    BY <1>1, <1>4 DEF Wait, LastSlot
  <2>3. \A u \in Fetchers : mine[u] \in Nat /\ mine[u] <= made
    BY DEF SlotsGiven
  <2>. QED
    BY <1>2, <1>4, <2>1, <2>2, <2>3 DEF Reserve, NextSlot
<1>. QED
  BY <1>3, <1>4

\* A thread that asks gets a slot that is apart from all the others.
LEMMA AskStep ==
    ASSUME FetchInv, FetchTypes', NEW t \in Fetchers, ~Asleep(t),
           \/ Ask(t, "page", "asked")
           \/ Ask(t, "robots", "robots")
    PROVE  SlotsGiven' /\ SlotsAlike' /\ SlotsApart'
<1> USE DEF FetchInv, FetchTypes
<1>0. PICK kind \in Kinds : Ask(t, kind, IF kind = "page" THEN "asked" ELSE "robots")
  BY DEF Kinds
<1>1. PICK g \in Jittered(kind) :
        /\ Reserve(kind, Wait(kind, g))
        /\ rest' = [rest EXCEPT ![t] = Wait(kind, g)]
        /\ mine' = [mine EXCEPT ![t] = made']
        /\ place' = [place EXCEPT ![t] = IF kind = "page" THEN "asked" ELSE "robots"]
  BY <1>0 DEF Ask, To
<1>2. /\ made' \in Nat /\ made' >= made
      /\ Wait(kind, g) \in Nat /\ limiter' = [for |-> kind, at |-> Wait(kind, g)]
      /\ \A u \in Fetchers : Asleep(u) /\ mine[u] = made' =>
           /\ made' = made /\ limiter.for = kind
           /\ Wait(kind, g) > 0 => Wait(kind, g) >= rest[u] + g
           /\ Wait(kind, g) >= rest[u]
  BY <1>1, Reserved
<1>3. /\ mine'[t] = made' /\ rest'[t] = Wait(kind, g)
      /\ place'[t] = (IF kind = "page" THEN "asked" ELSE "robots")
      /\ \A u \in Fetchers \ {t} : mine'[u] = mine[u] /\ rest'[u] = rest[u] /\ place'[u] = place[u]
  BY <1>1
<1>4. \A u \in Fetchers \ {t} : Asleep(u)' <=> Asleep(u)
  BY <1>3 DEF Asleep
<1>5. limiter'.for = kind /\ limiter'.at = Wait(kind, g)
  BY <1>2
<1>6. \A u \in Fetchers \ {t} : Asleep(u) /\ mine[u] = made' =>
         place[u] = (IF kind = "page" THEN "asked" ELSE "robots")
  BY <1>2 DEF SlotsGiven, Asleep, Kinds
<1>7. SlotsGiven'
  <2>1. \A u \in Fetchers \ {t} : mine[u] <= made /\ mine[u] \in Nat /\ made \in Nat
    BY DEF SlotsGiven
  <2>2. ASSUME NEW u \in Fetchers \ {t}, Asleep(u)', mine'[u] = made'
        PROVE  limiter'.for = (IF place'[u] = "asked" THEN "page" ELSE "robots")
               /\ rest'[u] <= limiter'.at
    BY <1>2, <1>3, <1>4, <1>5, <1>6, <2>2 DEF Kinds
  <2>3. limiter'.for = (IF place'[t] = "asked" THEN "page" ELSE "robots")
        /\ rest'[t] <= limiter'.at
    BY <1>2, <1>3, <1>5 DEF Kinds
  <2>4. \A u \in Fetchers : mine'[u] <= made'
    BY <1>2, <1>3, <2>1
  <2>. QED
    BY <2>2, <2>3, <2>4 DEF SlotsGiven
<1>8. SlotsAlike'
  BY <1>3, <1>4, <1>6 DEF SlotsAlike
<1>9. g >= (IF kind = "page" THEN Low ELSE RobotsGap) /\ g \in Nat /\ Low \in Nat /\ RobotsGap \in Nat
  BY FetchConstants DEF Jittered, Kinds
<1>10. \A u \in Fetchers \ {t} : Asleep(u) /\ mine[u] = made' /\ Asleep(t)' =>
          rest'[t] - rest[u] >= (IF kind = "page" THEN Low ELSE RobotsGap)
  BY <1>2, <1>3, <1>9 DEF Asleep
<1>11. SlotsApart'
  <2>1. SUFFICES ASSUME NEW x \in Fetchers, NEW u \in Fetchers,
                        x # u, Asleep(x)', Asleep(u)', mine'[x] = mine'[u]
                 PROVE  LET gap == IF place'[x] = "asked" THEN Low ELSE RobotsGap IN
                        rest'[x] - rest'[u] >= gap \/ rest'[u] - rest'[x] >= gap
    BY DEF SlotsApart
  <2>2. CASE x = t
    BY <1>3, <1>4, <1>10, <2>1, <2>2 DEF Kinds
  <2>3. CASE u = t
    BY <1>3, <1>4, <1>6, <1>10, <2>1, <2>3 DEF Kinds
  <2>4. CASE x # t /\ u # t
    BY <1>3, <1>4, <2>1, <2>4 DEF SlotsApart
  <2>. QED
    BY <2>2, <2>3, <2>4
<1>. QED
  BY <1>7, <1>8, <1>11

\* One that comes too late leaves its slot unused.
LEMMA TooLateStep ==
    ASSUME FetchInv, NEW t \in Fetchers, NEW kind \in Kinds, TooLate(t, kind),
           \A u \in Fetchers \ {t} : place'[u] = place[u] /\ rest'[u] = rest[u],
           mine' = mine, ~Asleep(t)'
    PROVE  SlotsGiven' /\ SlotsAlike' /\ SlotsApart'
<1>1. CASE UNCHANGED <<limiter, made>>
  BY <1>1, OthersSleep DEF FetchInv, FetchTypes, SlotsGiven
<1>2. CASE \E g \in Jittered(kind) : Reserve(kind, Wait(kind, g))
  <2>1. PICK g \in Jittered(kind) : Reserve(kind, Wait(kind, g))
    BY <1>2
  <2>2. /\ made' \in Nat /\ made' >= made
        /\ limiter' = [for |-> kind, at |-> Wait(kind, g)]
        /\ \A u \in Fetchers : Asleep(u) /\ mine[u] = made' =>
             limiter.for = kind /\ Wait(kind, g) >= rest[u]
    BY <2>1, Reserved
  <2>. QED
    BY <2>2, OthersSleep
<1>. QED
  BY <1>1, <1>2 DEF TooLate

LEMMA SlotsStep ==
    FetchInv /\ FetchTypes' /\ [FetchNext]_fetchVars => SlotsGiven' /\ SlotsAlike' /\ SlotsApart'
<1> SUFFICES ASSUME FetchInv, FetchTypes', [FetchNext]_fetchVars
             PROVE  SlotsGiven' /\ SlotsAlike' /\ SlotsApart'
  OBVIOUS
<1>0. /\ limiter.at \in Int /\ made \in Nat
      /\ \A t \in Fetchers : rest[t] \in Nat /\ mine[t] \in Nat /\ place[t] \in FetchPlaces
      /\ place \in [Fetchers -> FetchPlaces] /\ rest \in [Fetchers -> Nat]
  BY DEF FetchInv, FetchTypes
\* A step of one thread that reserves nothing and does not sleep to a slot.
<1>1. ASSUME NEW t \in Fetchers,
             \A u \in Fetchers \ {t} : place'[u] = place[u] /\ rest'[u] = rest[u],
             UNCHANGED <<mine, limiter, made>>, ~Asleep(t)'
      PROVE  SlotsGiven' /\ SlotsAlike' /\ SlotsApart'
  BY <1>0, <1>1, OthersSleep DEF SlotsGiven, FetchInv
<1>2. CASE Pass
  <2>1. /\ UNCHANGED <<place, mine, made>> /\ limiter'.for = limiter.for
        /\ limiter'.at = Less(limiter.at, -High)
        /\ \A t \in Fetchers : rest'[t] = Less(rest[t], 0)
    BY <1>0, <1>2 DEF Pass, work, FetchInv, FetchTypes
  <2>2. \A t \in Fetchers : Asleep(t)' =>
           Asleep(t) /\ rest'[t] = rest[t] - 1 /\ rest'[t] > 0
    BY <1>0, <2>1 DEF Asleep, Less
  <2>3. \A t \in Fetchers : Asleep(t)' /\ rest[t] <= limiter.at => rest'[t] <= limiter'.at
    BY <1>0, <2>1, <2>2, FetchConstants DEF Less
  <2>4. SlotsGiven'
    BY <2>1, <2>2, <2>3 DEF SlotsGiven, FetchInv
  <2>5. SlotsAlike'
    BY <2>1, <2>2 DEF SlotsAlike, FetchInv
  <2>6. SlotsApart'
    BY <1>0, <2>1, <2>2 DEF SlotsApart, FetchInv
  <2>. QED
    BY <2>4, <2>5, <2>6
<1>3. CASE Lapse
  <2>1. UNCHANGED <<place, rest, mine, limiter, made>>
    BY <1>3 DEF Lapse, work, time
  <2>. QED
    BY <2>1 DEF FetchInv, SlotsGiven, SlotsAlike, SlotsApart, Asleep
<1>4. ASSUME NEW t \in Fetchers, Begin(t) PROVE SlotsGiven' /\ SlotsAlike' /\ SlotsApart'
  BY <1>0, <1>1, <1>4 DEF Begin, To, time, Asleep
<1>5. ASSUME NEW t \in Fetchers, End(t) PROVE SlotsGiven' /\ SlotsAlike' /\ SlotsApart'
  BY <1>0, <1>1, <1>5 DEF End, To, time, Asleep
<1>6. ASSUME NEW t \in Fetchers, Gate(t) PROVE SlotsGiven' /\ SlotsAlike' /\ SlotsApart'
  BY <1>0, <1>1, <1>6 DEF Gate, Admitted, Refused, Return, To, time, Asleep
<1>7. ASSUME NEW t \in Fetchers, AskRobots(t) PROVE SlotsGiven' /\ SlotsAlike' /\ SlotsApart'
  <2>1. CASE Ask(t, "robots", "robots")
    BY <1>7, <2>1, AskStep DEF AskRobots, Asleep
  <2>2. CASE TooLate(t, "robots") /\ Refused(t) /\ UNCHANGED <<rest, mine>>
    BY <1>0, <2>2, TooLateStep DEF Refused, Return, To, Asleep, Kinds
  <2>. QED
    BY <1>7, <2>1, <2>2 DEF AskRobots
<1>8. ASSUME NEW t \in Fetchers, RobotsAnswer(t) PROVE SlotsGiven' /\ SlotsAlike' /\ SlotsApart'
  BY <1>0, <1>1, <1>8 DEF RobotsAnswer, Admitted, Refused, Return, To, time, Asleep
<1>9. ASSUME NEW t \in Fetchers, Attempt(t) PROVE SlotsGiven' /\ SlotsAlike' /\ SlotsApart'
  <2>1. CASE Ask(t, "page", "asked")
    BY <1>9, <2>1, AskStep DEF Attempt, Asleep
  <2>2. CASE TooLate(t, "page") /\ RetryOrReturn(t, "NETWORK_FAILED") /\ UNCHANGED mine
    <3>1. /\ \A u \in Fetchers \ {t} : place'[u] = place[u] /\ rest'[u] = rest[u]
          /\ ~Asleep(t)'
      BY <1>0, <2>2 DEF RetryOrReturn, BackOff, Return, To, Asleep
    <3>. QED
      BY <2>2, <3>1, TooLateStep DEF Kinds
  <2>. QED
    BY <1>9, <2>1, <2>2 DEF Attempt
<1>10. ASSUME NEW t \in Fetchers, Broke(t) PROVE SlotsGiven' /\ SlotsAlike' /\ SlotsApart'
  BY <1>0, <1>1, <1>10 DEF Broke, To, time, Asleep
<1>11. ASSUME NEW t \in Fetchers, Answer(t) PROVE SlotsGiven' /\ SlotsAlike' /\ SlotsApart'
  <2>1. /\ \A u \in Fetchers \ {t} : place'[u] = place[u] /\ rest'[u] = rest[u]
        /\ ~Asleep(t)' /\ UNCHANGED <<mine, limiter, made>>
    BY <1>0, <1>11 DEF Answer, RetryOrReturn, BackOff, Return, To, Asleep
  <2>. QED
    BY <1>1, <2>1
<1>12. ASSUME NEW t \in Fetchers, Retry(t) PROVE SlotsGiven' /\ SlotsAlike' /\ SlotsApart'
  BY <1>0, <1>1, <1>12 DEF Retry, To, time, Asleep
<1>13. ASSUME NEW t \in Fetchers, Browse(t) PROVE SlotsGiven' /\ SlotsAlike' /\ SlotsApart'
  BY <1>0, <1>1, <1>13 DEF Browse, Return, To, time, Asleep
<1>14. CASE UNCHANGED fetchVars
  BY <1>14 DEF fetchVars, work, time, FetchInv, SlotsGiven, SlotsAlike, SlotsApart, Asleep
<1>. QED
  BY <1>2, <1>3, <1>4, <1>5, <1>6, <1>7, <1>8, <1>9, <1>10, <1>11, <1>12, <1>13, <1>14
     DEF FetchNext, Step

THEOREM FetchInvariance == FetchSpec => []FetchInv
<1>1. FetchInv /\ [FetchNext]_fetchVars => FetchInv'
  BY FetchTypesStep, SlotsStep DEF FetchInv
<1>. QED
  BY <1>1, FetchInitInv, PTL DEF FetchSpec

\* However many threads fetch pages of a host, and whatever its answers, its
\* pages and tries stay within their ceilings, and every variable holds a value
\* of its kind.
THEOREM FetchTypeCorrect == FetchSpec => []FetchTypes
<1>1. FetchInv => FetchTypes
  BY DEF FetchInv
<1>. QED
  BY <1>1, FetchInvariance, PTL

\* However many threads ask one host, and whatever the gaps, the deadlines and
\* the jitter, no two of them wake for slots of one limiter within its
\* shortest gap (_pace_wait).
THEOREM SlotsStayApart == FetchSpec => []SlotsApart
<1>1. FetchInv => SlotsApart
  BY DEF FetchInv
<1>. QED
  BY <1>1, FetchInvariance, PTL
=============================================================================
