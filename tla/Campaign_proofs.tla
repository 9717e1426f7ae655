---------------------------- MODULE Campaign_proofs ----------------------------
(***************************************************************************)
(* Theorems about CampaignController and, beside it, EventStream, for any  *)
(* processes, threads, targets and bounds: types; the row implements       *)
(* CampaignLife; a cancel request stops the worker of its process; the log *)
(* accounts for every version of the row; and the client of the stream     *)
(* gets the log's events in order, each once, all of them by the end.      *)
(***************************************************************************)
EXTENDS EventStream, FiniteSetTheorems, SequenceTheorems, TLAPS

\* A thread that is about to decide holds a row that was current at some version no
\* newer than the row's; if the versions agree, so do the states.
ReadIsPast ==
    \A t \in Threads :
        /\ seen[t].version <= row.version
        /\ pc[t] = "decide" /\ seen[t].version = row.version => seen[t].state = row.state

\* The flag of a `campaign resume` process is never set, since no cancel request is
\* served there; the API's worker, once it has written a row under its flag, is past
\* the check and meets the flag at the next one.
FlagBlocks ==
    /\ \A w \in Workers \ {ApiWorker} : ~flag[Home[w]] /\ late[w] = 0
    /\ \/ late[ApiWorker] = 0
       \/ /\ late[ApiWorker] = 1
          /\ pc[ApiWorker] \notin {"read", "decide"}
          /\ flag[Home[ApiWorker]] \/ pc[ApiWorker] = "down"

LEMMA KnownStates ==
    /\ {"CREATED", "CANCELLED", "FAILED", "BLOCKED"} \subseteq States
    /\ Targets \subseteq States
    /\ Created \in Rows /\ NoMsg \in Events /\ NoGoal \in States
<1>1. Walk[1] = "CREATED"
  BY DEF Walk
<1>2. "CREATED" \in States
  BY <1>1 DEF States, Active
<1>3. {"CANCELLED", "FAILED", "BLOCKED"} \subseteq States
  BY DEF States, Terminal
<1> QED
  BY <1>2, <1>3, TargetsAssumption
     DEF Created, NoMsg, NoGoal, StateEvent, Rows, Events, Names

LEMMA TypeInit == Init => TypeOK
<1> SUFFICES ASSUME Init PROVE TypeOK
  OBVIOUS
<1>1. log \in Seq(Events)
  BY KnownStates DEF Init, NoMsg
<1>2. pc \in [Threads -> PCs]
  BY DEF Init, PCs, Stopped
<1> QED
  BY <1>1, <1>2, KnownStates, BoundsAssumption DEF Init, TypeOK

\* Returning from a call leaves the locals in their types.
LEMMA ForgetTypes ==
    ASSUME TypeOK, NEW t \in Threads, Forget(t)
    PROVE  /\ goal' \in [Threads -> States]
           /\ seen' \in [Threads -> Rows]
           /\ msg' \in [Threads -> Events]
BY KnownStates DEF TypeOK, Forget

LEMMA TypeStep == TypeOK /\ [Next]_vars => TypeOK'
<1> SUFFICES ASSUME TypeOK, [Next]_vars PROVE TypeOK'
  OBVIOUS
<1> USE DEF PCs, Stopped
<1>1. ASSUME NEW w \in Workers, WorkerStep(w) PROVE TypeOK'
  <2> w \in Threads
    BY DEF Threads
  <2>1. CASE CheckTerminal(w)
    BY <2>1 DEF CheckTerminal, Go, TypeOK
  <2>2. CASE StartStage(w)
    BY <2>2, KnownStates DEF StartStage, Go, TypeOK
  <2>3. CASE StopOnFlag(w)
    BY <2>3 DEF StopOnFlag, Go, TypeOK
  <2>4. CASE StageFails(w)
    BY <2>4 DEF StageFails, Go, TypeOK
  <2>5. CASE BeginFail(w)
    <3>1. CASE row.state \in Terminal
      BY <2>5, <3>1 DEF BeginFail, Go, TypeOK
    <3>2. CASE row.state \notin Terminal
      <4>1. goal' \in [Threads -> States]
        BY <2>5, <3>2, KnownStates DEF BeginFail, TypeOK
      <4> QED
        BY <2>5, <3>2, <4>1 DEF BeginFail, Go, TypeOK
    <3> QED
      BY <3>1, <3>2
  <2>6. CASE Enter(w)
    BY <2>6 DEF Enter, Go, TypeOK, Events, Names
  <2>7. CASE CheckFlag(w)
    BY <2>7, ForgetTypes DEF CheckFlag, Go, TypeOK
  <2> QED
    BY <1>1, <2>1, <2>2, <2>3, <2>4, <2>5, <2>6, <2>7 DEF WorkerStep
<1>2. ASSUME NEW w \in Workers, Launch(w) PROVE TypeOK'
  <2>1. launches' \in 0..MaxLaunches
    BY <1>2, BoundsAssumption DEF Launch, TypeOK
  <2>2. pc' \in [Threads -> PCs]
    BY <1>2 DEF Launch, TypeOK, Threads
  <2> QED
    BY <1>2, <2>1, <2>2 DEF Launch, TypeOK
<1>3. ASSUME NEW t \in Threads, ThreadStep(t) PROVE TypeOK'
  <2>1. CASE ReadRow(t)
    BY <2>1 DEF ReadRow, Go, TypeOK
  <2>2. CASE CommitRow(t)
    <3>1. row' \in Rows
      BY <2>2 DEF CommitRow, TypeOK, Rows
    <3>2. StateEvent(row', 0) \in Events
      BY <3>1 DEF StateEvent, Rows, Events, Names
    <3>3. late' \in [Workers -> Nat]
      BY <2>2 DEF CommitRow, TypeOK
    <3> QED
      BY <2>2, <3>1, <3>2, <3>3, KnownStates DEF CommitRow, TypeOK
  <2>3. CASE Reject(t)
    BY <2>3, ForgetTypes DEF Reject, AfterRaise, TypeOK
  <2>4. CASE ReadVersion(t)
    <3>1. [msg[t] EXCEPT !.version = row.version, !.state = row.state] \in Events
      <4>1. msg[t] \in Events /\ row.version \in Nat /\ row.state \in States
        BY DEF TypeOK, Rows
      <4> QED
        BY <4>1 DEF Events
    <3>2. msg' \in [Threads -> Events]
      BY <2>4, <3>1 DEF ReadVersion, TypeOK
    <3>3. pc' \in [Threads -> PCs]
      BY <2>4 DEF ReadVersion, Go, TypeOK
    <3> QED
      BY <2>4, <3>2, <3>3 DEF ReadVersion, TypeOK
  <2>5. CASE ReadPredecessor(t)
    <3>1. [msg[t] EXCEPT !.pred = Len(log)] \in Events
      <4>1. Len(log) \in Nat
        BY DEF TypeOK
      <4> QED
        BY <4>1 DEF TypeOK, Events
    <3>2. msg' \in [Threads -> Events]
      BY <2>5, <3>1 DEF ReadPredecessor, TypeOK
    <3>3. pc' \in [Threads -> PCs]
      BY <2>5 DEF ReadPredecessor, Go, TypeOK
    <3> QED
      BY <2>5, <3>2, <3>3 DEF ReadPredecessor, TypeOK
  <2>6. CASE AppendEvent(t)
    <3>1. log' \in Seq(Events)
      BY <2>6 DEF AppendEvent, TypeOK
    <3>2. /\ pc' \in [Threads -> PCs]
          /\ goal' \in [Threads -> States]
          /\ seen' \in [Threads -> Rows]
          /\ msg' \in [Threads -> Events]
      <4>1. CASE msg[t].name = "search.state"
        <5> DEFINE next == [msg[t] EXCEPT !.pred = 0, !.name =
                     IF goal[t] \in Terminal THEN "search.complete" ELSE "search.progress"]
        <5>1. next \in Events
          BY DEF TypeOK, Events, Names
        <5>2. msg' = [msg EXCEPT ![t] = next] /\ UNCHANGED <<goal, seen>>
          BY <2>6, <4>1 DEF AppendEvent, AfterAppend
        <5>3. pc' \in [Threads -> PCs]
          BY <2>6, <4>1 DEF AppendEvent, AfterAppend, TypeOK
        <5> HIDE DEF next
        <5> QED
          BY <5>1, <5>2, <5>3 DEF TypeOK
      <4>2. CASE msg[t].name # "search.state"
        BY <2>6, <4>2, ForgetTypes DEF AppendEvent, AfterAppend, TypeOK
      <4> QED
        BY <4>1, <4>2
    <3> QED
      BY <2>6, <3>1, <3>2 DEF AppendEvent, TypeOK
  <2> QED
    BY <1>3, <2>1, <2>2, <2>3, <2>4, <2>5, <2>6 DEF ThreadStep
<1>4. ASSUME NEW c \in Cancellers, Request(c) \/ CancelStep(c) PROVE TypeOK'
  <2> c \in Threads
    BY DEF Threads
  <2> QED
    BY <1>4, ThreadsAssumption DEF Request, CancelStep, LookAtRow, Go, TypeOK
<1>5. ASSUME NEW p \in Procs, Crash(p) PROVE TypeOK'
  BY <1>5, KnownStates, BoundsAssumption DEF Crash, TypeOK
<1>6. CASE UNCHANGED vars
  BY <1>6 DEF vars, TypeOK
<1> QED
  BY <1>1, <1>2, <1>3, <1>4, <1>5, <1>6 DEF Next

\* Type correctness: every variable keeps its kind in every behaviour.
THEOREM TypeCorrect == Spec => []TypeOK
<1> QED
  BY TypeInit, TypeStep, PTL DEF Spec

-------------------------------------------------------------------------------
(* The row implements CampaignLife. *)

LEMMA ReadIsPastInit == Init => ReadIsPast
BY DEF Init, ReadIsPast, Created

\* The read of a row is current when it is made, and a write makes every other read old.
LEMMA ReadIsPastStep == TypeOK /\ ReadIsPast /\ [Next]_vars => ReadIsPast'
<1> SUFFICES ASSUME TypeOK, ReadIsPast, [Next]_vars PROVE ReadIsPast'
  OBVIOUS
<1> USE DEF ReadIsPast
<1>0. row.version \in Nat /\ \A t \in Threads : seen[t].version \in Nat
  BY DEF TypeOK, Rows
<1>1. ASSUME NEW w \in Workers, WorkerStep(w) PROVE ReadIsPast'
  <2>0. w \in Threads
    BY DEF Threads
  <2>1. CASE CheckFlag(w)
    BY <2>0, <2>1, <1>0 DEF CheckFlag, Forget, Go, TypeOK, Created
  <2>2. CASE ~CheckFlag(w)
    <3>1. UNCHANGED <<row, seen>>
      BY <1>1, <2>2 DEF WorkerStep, CheckTerminal, StartStage, StopOnFlag, StageFails,
                        BeginFail, Enter
    <3>2. \A t \in Threads : pc'[t] = "decide" => pc[t] = "decide"
      BY <1>1, <2>0, <2>2 DEF WorkerStep, CheckTerminal, StartStage, StopOnFlag, StageFails,
                        BeginFail, Enter, Go, TypeOK
    <3> QED
      BY <3>1, <3>2
  <2> QED
    BY <2>1, <2>2
<1>2. ASSUME NEW w \in Workers, Launch(w) PROVE ReadIsPast'
  BY <1>2 DEF Launch, TypeOK
<1>3. ASSUME NEW t \in Threads, ThreadStep(t) PROVE ReadIsPast'
  <2>1. CASE ReadRow(t)
    BY <2>1, <1>0 DEF ReadRow, Go, TypeOK
  <2>2. CASE CommitRow(t)
    <3>1. row'.version = row.version + 1
      BY <2>2 DEF CommitRow
    <3>2. \A u \in Threads : seen'[u].version <= row.version
      BY <2>2, <1>0 DEF CommitRow, TypeOK, Created
    <3>3. \A u \in Threads : seen'[u].version \in Nat
      BY <2>2, <1>0 DEF CommitRow, TypeOK, Created
    <3> QED
      BY <1>0, <3>1, <3>2, <3>3
  <2>3. CASE Reject(t)
    BY <2>3, <1>0 DEF Reject, AfterRaise, Forget, TypeOK, Created
  <2>4. CASE ReadVersion(t) \/ ReadPredecessor(t)
    BY <2>4 DEF ReadVersion, ReadPredecessor, Go, TypeOK
  <2>5. CASE AppendEvent(t)
    BY <2>5, <1>0 DEF AppendEvent, AfterAppend, Forget, TypeOK, Created
  <2> QED
    BY <1>3, <2>1, <2>2, <2>3, <2>4, <2>5 DEF ThreadStep
<1>4. ASSUME NEW c \in Cancellers, Request(c) \/ CancelStep(c) PROVE ReadIsPast'
  <2> c \in Threads
    BY DEF Threads
  <2> QED
    BY <1>4 DEF Request, CancelStep, LookAtRow, Go, TypeOK
<1>5. ASSUME NEW p \in Procs, Crash(p) PROVE ReadIsPast'
  BY <1>5, <1>0 DEF Crash, TypeOK, Created
<1>6. CASE UNCHANGED vars
  BY <1>6 DEF vars
<1> QED
  BY <1>1, <1>2, <1>3, <1>4, <1>5, <1>6 DEF Next

\* The graph that CampaignLife sees through the instance is the same graph.
LEMMA SameGraph ==
    /\ Life!States = States
    /\ \A a, b : Life!IsLegal(a, b) <=> IsLegal(a, b)
BY DEF States, Life!States, Active, Life!Active, Terminal, Life!Terminal, Walk, Life!Walk,
       IsLegal, Life!IsLegal, LegalEdges, Life!LegalEdges, ForwardEdges, Life!ForwardEdges,
       ExitEdges, Life!ExitEdges, From, Life!From

\* Only CommitRow writes the row, and it takes a legal edge of the current state.
LEMMA RowStep ==
    TypeOK /\ ReadIsPast /\ [Next]_vars => [Life!Next]_<<row.state, row.version>>
<1> SUFFICES ASSUME TypeOK, ReadIsPast, [Next]_vars
             PROVE  [Life!Next]_<<row.state, row.version>>
  OBVIOUS
<1>1. ASSUME NEW t \in Threads, CommitRow(t) PROVE Life!Next
  <2>1. seen[t].state = row.state
    BY <1>1 DEF CommitRow, VersionMatches, ReadIsPast
  <2>2. IsLegal(row.state, goal[t])
    BY <1>1, <2>1 DEF CommitRow, Allowed
  <2>3. row'.state = goal[t] /\ row'.version = row.version + 1 /\ goal[t] \in States
    BY <1>1 DEF CommitRow, TypeOK
  <2> QED
    BY <2>2, <2>3, SameGraph DEF Life!Next, Life!Advance
<1>2. CASE \E t \in Threads : CommitRow(t)
  BY <1>1, <1>2
<1>3. CASE ~\E t \in Threads : CommitRow(t)
  <2>1. row' = row
    BY <1>3 DEF Next, vars, WorkerStep, ThreadStep, CancelStep, CheckTerminal, StartStage,
                StopOnFlag, StageFails, BeginFail, Enter, CheckFlag, ReadRow, Reject,
                ReadVersion, ReadPredecessor, AppendEvent, LookAtRow, Request, Launch, Crash
  <2> QED
    BY <2>1
<1> QED
  BY <1>2, <1>3

\* Whatever the processes, threads, targets and bounds, the row moves one version at a
\* time along one legal edge and stays at a terminal state.
THEOREM RowImplementsLife == Spec => RowFollowsLife
<1>1. Init => Life!Init
  BY DEF Init, Life!Init, Created
<1>2. TypeOK /\ ReadIsPast /\ [Next]_vars => (TypeOK /\ ReadIsPast)'
  BY TypeStep, ReadIsPastStep
<1> QED
  BY <1>1, <1>2, TypeInit, ReadIsPastInit, RowStep, PTL DEF Spec, RowFollowsLife, Life!Spec

-------------------------------------------------------------------------------
(* A cancel request stops the worker of its process. *)

LEMMA FlagBlocksInit == Init => FlagBlocks /\ CancelStopsWork
BY ThreadsAssumption DEF Init, FlagBlocks, CancelStopsWork, Threads

LEMMA FlagBlocksStep == TypeOK /\ FlagBlocks /\ [Next]_vars => FlagBlocks'
<1> SUFFICES ASSUME TypeOK, FlagBlocks, [Next]_vars PROVE FlagBlocks'
  OBVIOUS
<1> USE ThreadsAssumption DEF FlagBlocks, Threads
<1>1. ASSUME NEW w \in Workers, WorkerStep(w) PROVE FlagBlocks'
  <2>1. UNCHANGED <<flag, late>>
    BY <1>1 DEF WorkerStep, CheckTerminal, StartStage, StopOnFlag, StageFails, BeginFail,
                Enter, CheckFlag
  <2>2. \A u \in Threads \ {w} : pc'[u] = pc[u]
    BY <1>1 DEF WorkerStep, CheckTerminal, StartStage, StopOnFlag, StageFails, BeginFail,
                Enter, CheckFlag, Go, TypeOK
  <2>3. pc[w] # "down" /\ (flag[Home[w]] => pc'[w] \notin {"read", "decide"})
    BY <1>1 DEF WorkerStep, CheckTerminal, StartStage, StopOnFlag, StageFails, BeginFail,
                Enter, CheckFlag, IsCancelled, Go, TypeOK
  <2> QED
    BY <2>1, <2>2, <2>3
<1>2. ASSUME NEW w \in Workers, Launch(w) PROVE FlagBlocks'
  BY <1>2 DEF Launch, TypeOK
<1>3. ASSUME NEW t \in Threads, ThreadStep(t) PROVE FlagBlocks'
  <2>1. CASE ReadRow(t)
    BY <2>1 DEF ReadRow, Go, TypeOK
  <2>2. CASE CommitRow(t)
    BY <2>2 DEF CommitRow, TypeOK
  <2>3. CASE Reject(t)
    BY <2>3 DEF Reject, AfterRaise, TypeOK
  <2>4. CASE ReadVersion(t) \/ ReadPredecessor(t)
    BY <2>4 DEF ReadVersion, ReadPredecessor, Go, TypeOK
  <2>5. CASE AppendEvent(t)
    BY <2>5 DEF AppendEvent, AfterAppend, TypeOK
  <2> QED
    BY <1>3, <2>1, <2>2, <2>3, <2>4, <2>5 DEF ThreadStep
<1>4. ASSUME NEW c \in Cancellers, Request(c) \/ CancelStep(c) PROVE FlagBlocks'
  <2>1. CASE Request(c)
    <3>1. \A w \in Workers \ {ApiWorker} : Home[w] # Home[c]
      OBVIOUS
    <3>2. flag' = [flag EXCEPT ![Home[c]] = TRUE] /\ UNCHANGED late
      BY <2>1 DEF Request
    <3>3. pc'[ApiWorker] = pc[ApiWorker]
      BY <2>1 DEF Request, Go, TypeOK
    <3>4. flag[Home[ApiWorker]] => flag'[Home[ApiWorker]]
      BY <3>2 DEF TypeOK
    <3>5. \A w \in Workers \ {ApiWorker} : flag'[Home[w]] = flag[Home[w]]
      BY <3>1, <3>2 DEF TypeOK
    <3> QED
      BY <3>2, <3>3, <3>4, <3>5
  <2>2. CASE CancelStep(c)
    BY <2>2 DEF CancelStep, LookAtRow, Go, TypeOK
  <2> QED
    BY <1>4, <2>1, <2>2
<1>5. ASSUME NEW p \in Procs, Crash(p) PROVE FlagBlocks'
  <2>1. /\ \A t \in Threads : pc'[t] = IF Home[t] = p THEN "down" ELSE pc[t]
        /\ UNCHANGED late
    BY <1>5 DEF Crash
  <2>2. \A q \in Procs : flag'[q] = IF q = p THEN FALSE ELSE flag[q]
    BY <1>5 DEF Crash, TypeOK
  <2>3. \A t \in Threads : Home[t] \in Procs
    OBVIOUS
  <2> QED
    BY <2>1, <2>2, <2>3
<1>6. CASE UNCHANGED vars
  BY <1>6 DEF vars
<1> QED
  BY <1>1, <1>2, <1>3, <1>4, <1>5, <1>6 DEF Next

\* After the flag of its process is set, a worker writes at most one more row: every
\* transition, the one in _fail included, begins with the check.
THEOREM CancelBoundsWork == Spec => []CancelStopsWork
<1>1. FlagBlocks => CancelStopsWork
  BY DEF FlagBlocks, CancelStopsWork
<1> QED
  BY <1>1, TypeInit, TypeStep, FlagBlocksInit, FlagBlocksStep, PTL DEF Spec

-------------------------------------------------------------------------------
(* The log accounts for the row. *)

IsStateEvent(e) == e.name = "search.state"

\* A thread that has written the row and not yet appended its event.
Pending(t) == pc[t] \in {"pred", "append"} /\ IsStateEvent(msg[t])

\* What has been or is about to be said of the row: version and state.
Voices ==
    {<<log[i].version, log[i].state>> : i \in {i \in DOMAIN log : IsStateEvent(log[i])}}
    \cup {<<msg[t].version, msg[t].state>> : t \in {t \in Threads : Pending(t)}}

\* Nobody speaks of a version the row has not reached, and a thread that re-reads the
\* row does it for an event that is not a transition's.
VoicesArePast ==
    /\ \A i \in DOMAIN log : log[i].version <= row.version
    /\ \A t \in Threads :
          /\ msg[t].version <= row.version
          /\ pc[t] = "version" => ~IsStateEvent(msg[t])

\* A version is spoken of once: by one event, or by one thread, and never by both.
OneVoiceEach ==
    /\ \A i, j \in DOMAIN log :
          IsStateEvent(log[i]) /\ IsStateEvent(log[j]) /\ log[i].version = log[j].version
          => i = j
    /\ \A i \in DOMAIN log, t \in Threads :
          IsStateEvent(log[i]) /\ Pending(t) => log[i].version # msg[t].version
    /\ \A t, u \in Threads :
          Pending(t) /\ Pending(u) /\ msg[t].version = msg[u].version => t = u

\* Every version has its voice, unless a process died.
NoVersionUntold ==
    crashes > 0 \/ \A v \in 0..row.version : \E a \in Voices : a[1] = v

\* The voice of the current version says the current state, and those of two versions
\* in a row say a legal edge.
VoicesFollowEdges ==
    /\ \A a \in Voices : a[1] = row.version => a[2] = row.state
    /\ \A a, b \in Voices : b[1] = a[1] + 1 => IsLegal(a[2], b[2])

\* The inductive strengthening of LogAccountsForRow.
LogIInv == VoicesArePast /\ OneVoiceEach /\ NoVersionUntold /\ VoicesFollowEdges

LEMMA LogIInit == Init => LogIInv
<1> SUFFICES ASSUME Init PROVE LogIInv
  OBVIOUS
<1>1. DOMAIN log = {1} /\ log[1] = StateEvent(Created, 0)
  BY DEF Init
<1>2. \A t \in Threads : ~Pending(t) /\ msg[t] = NoMsg
  BY DEF Init, Pending
<1>3. Voices = {<<0, "CREATED">>}
  BY <1>1, <1>2 DEF Voices, StateEvent, Created, IsStateEvent
<1>4. VoicesArePast
  BY <1>1, <1>2 DEF Init, VoicesArePast, StateEvent, Created, NoMsg
<1>5. OneVoiceEach
  BY <1>1, <1>2 DEF OneVoiceEach
<1>6. NoVersionUntold /\ VoicesFollowEdges
  BY <1>3 DEF Init, NoVersionUntold, VoicesFollowEdges, Created
<1> QED
  BY <1>4, <1>5, <1>6 DEF LogIInv

\* A step that leaves the row and the log alone, and neither gives nor takes an
\* announcement, changes no voice.
LEMMA QuietStep ==
    ASSUME LogIInv, UNCHANGED <<row, log, crashes>>,
           \A u \in Threads :
              /\ Pending(u)' <=> Pending(u)
              /\ Pending(u) => /\ msg'[u].version = msg[u].version
                               /\ msg'[u].state = msg[u].state,
           VoicesArePast'
    PROVE  LogIInv'
<1>1. Voices' = Voices
  BY DEF Voices
<1>2. OneVoiceEach'
  BY DEF LogIInv, OneVoiceEach
<1>3. NoVersionUntold'
  BY <1>1 DEF LogIInv, NoVersionUntold
<1>4. VoicesFollowEdges'
  BY <1>1 DEF LogIInv, VoicesFollowEdges
<1> QED
  BY <1>2, <1>3, <1>4 DEF LogIInv

\* The row moves to the next version, and the thread that moved it has it to say.
LEMMA CommitKeepsLog ==
    ASSUME TypeOK, ReadIsPast, LogIInv, NEW t \in Threads, CommitRow(t)
    PROVE  LogIInv'
<1> DEFINE v == row.version
           r == row.state
           g == goal[t]
<1>1. v \in Nat /\ row' = [state |-> g, version |-> v + 1] /\ UNCHANGED <<log, crashes>>
  BY DEF CommitRow, TypeOK, Rows
<1>2. seen[t].state = r /\ IsLegal(r, g)
  BY DEF CommitRow, VersionMatches, ReadIsPast, Allowed
<1>3. msg'[t] = StateEvent(row', 0) /\ pc'[t] = "pred"
  BY DEF CommitRow, TypeOK
<1>4. \A u \in Threads \ {t} : msg'[u] = msg[u] /\ pc'[u] = pc[u]
  BY DEF CommitRow, TypeOK
<1>5. Pending(t)' /\ ~Pending(t) /\ msg'[t].version = v + 1 /\ msg'[t].state = g
  BY <1>1, <1>3 DEF Pending, IsStateEvent, StateEvent, CommitRow
<1>6. \A u \in Threads \ {t} : Pending(u)' <=> Pending(u)
  BY <1>4 DEF Pending
<1>7. Voices' = Voices \cup {<<v + 1, g>>}
  <2>1. {<<log'[i].version, log'[i].state>> : i \in {i \in DOMAIN log' : IsStateEvent(log'[i])}}
        = {<<log[i].version, log[i].state>> : i \in {i \in DOMAIN log : IsStateEvent(log[i])}}
    BY <1>1
  <2>2. {<<msg'[u].version, msg'[u].state>> : u \in {u \in Threads : Pending(u)'}}
        = {<<msg[u].version, msg[u].state>> : u \in {u \in Threads : Pending(u)}}
          \cup {<<v + 1, g>>}
    BY <1>4, <1>5, <1>6
  <2> QED
    BY <2>1, <2>2 DEF Voices
<1>8. \A i \in DOMAIN log : log[i].version \in Nat /\ log[i].version <= v
  <2>1. \A i \in DOMAIN log : log[i] \in Events
    BY DEF TypeOK
  <2> QED
    BY <2>1 DEF Events, LogIInv, VoicesArePast
<1>9. \A u \in Threads : msg[u].version \in Nat /\ msg[u].version <= v
  BY DEF TypeOK, Events, LogIInv, VoicesArePast
<1>10. \A a \in Voices : a[1] \in Nat /\ a[1] <= v
  BY <1>8, <1>9 DEF Voices
<1>11. VoicesArePast'
  BY <1>1, <1>3, <1>4, <1>5, <1>8, <1>9 DEF LogIInv, VoicesArePast
<1>12. OneVoiceEach'
  BY <1>1, <1>4, <1>5, <1>6, <1>8, <1>9 DEF LogIInv, OneVoiceEach
<1>13. NoVersionUntold'
  <2>1. CASE crashes > 0
    BY <1>1, <2>1 DEF NoVersionUntold
  <2>2. CASE \A n \in 0..v : \E a \in Voices : a[1] = n
    <3>1. ASSUME NEW n \in 0..(v + 1) PROVE \E a \in Voices' : a[1] = n
      <4>1. CASE n \in 0..v
        BY <1>7, <2>2, <4>1
      <4>2. CASE n = v + 1
        <5>1. <<v + 1, g>> \in Voices' /\ <<v + 1, g>>[1] = v + 1
          BY <1>7
        <5> QED
          BY <4>2, <5>1
      <4> QED
        BY <1>1, <4>1, <4>2
    <3> QED
      BY <1>1, <3>1 DEF NoVersionUntold
  <2> QED
    BY <2>1, <2>2 DEF LogIInv, NoVersionUntold
<1>14. VoicesFollowEdges'
  <2>1. \A a \in Voices' : a[1] = v + 1 => a[2] = g
    BY <1>1, <1>7, <1>10
  <2>2. ASSUME NEW a \in Voices', NEW b \in Voices', b[1] = a[1] + 1
        PROVE  IsLegal(a[2], b[2])
    <3>1. CASE b \in Voices
      <4>1. a \in Voices
        BY <1>1, <1>7, <1>10, <2>2, <3>1
      <4> QED
        BY <2>2, <3>1, <4>1 DEF LogIInv, VoicesFollowEdges
    <3>2. CASE b = <<v + 1, g>>
      <4>1. a \in Voices /\ a[1] = v
        BY <1>1, <1>7, <1>10, <2>2, <3>2
      <4>2. a[2] = r
        BY <4>1 DEF LogIInv, VoicesFollowEdges
      <4> QED
        BY <1>2, <3>2, <4>2
    <3> QED
      BY <1>7, <3>1, <3>2
  <2> QED
    BY <1>1, <2>1, <2>2 DEF VoicesFollowEdges
<1> QED
  BY <1>11, <1>12, <1>13, <1>14 DEF LogIInv

\* What a thread was about to say is in the log now.
LEMMA AppendKeepsLog ==
    ASSUME TypeOK, LogIInv, NEW t \in Threads, AppendEvent(t)
    PROVE  LogIInv'
<1> DEFINE n == Len(log)
<1>1. /\ n \in Nat /\ DOMAIN log = 1..n /\ DOMAIN log' = 1..(n + 1)
      /\ log'[n + 1] = msg[t] /\ \A i \in DOMAIN log : log'[i] = log[i]
      /\ UNCHANGED <<row, crashes>>
  BY DEF AppendEvent, TypeOK
<1>2. \A u \in Threads \ {t} : msg'[u] = msg[u] /\ pc'[u] = pc[u]
  BY DEF AppendEvent, AfterAppend, Forget, TypeOK
<1>3. \A u \in Threads \ {t} : Pending(u)' <=> Pending(u)
  BY <1>2 DEF Pending
<1>4. ~Pending(t)' /\ msg'[t].version <= row.version
      /\ (pc'[t] = "version" => ~IsStateEvent(msg'[t]))
  <2>0. msg[t].version <= row.version /\ row.version \in Nat
    BY DEF LogIInv, VoicesArePast, TypeOK, Rows
  <2>1. CASE msg[t].name = "search.state"
    <3> DEFINE next == [msg[t] EXCEPT !.pred = 0, !.name =
                   IF goal[t] \in Terminal THEN "search.complete" ELSE "search.progress"]
    <3>0. next.name # "search.state" /\ next.version = msg[t].version
      BY DEF TypeOK, Events
    <3>1. msg'[t].name # "search.state" /\ msg'[t].version = msg[t].version
      <4>1. msg' = [msg EXCEPT ![t] = next]
        BY <2>1 DEF AppendEvent, AfterAppend
      <4> HIDE DEF next
      <4> QED
        BY <3>0, <4>1 DEF TypeOK
    <3> QED
      BY <2>0, <3>1 DEF Pending, IsStateEvent
  <2>2. CASE msg[t].name # "search.state"
    BY <2>0, <2>2 DEF AppendEvent, AfterAppend, Forget, Pending, TypeOK, NoMsg, StateEvent,
                      Created
  <2> QED
    BY <2>1, <2>2
<1>5. pc[t] = "append" /\ (Pending(t) <=> IsStateEvent(msg[t]))
  BY DEF AppendEvent, Pending
<1>6. Voices' = Voices
  <2> DEFINE said == {<<log[i].version, log[i].state>> :
                         i \in {i \in DOMAIN log : IsStateEvent(log[i])}}
             owed == {<<msg[u].version, msg[u].state>> :
                         u \in {u \in Threads : Pending(u)}}
             kept == {<<msg[u].version, msg[u].state>> :
                         u \in {u \in Threads \ {t} : Pending(u)}}
             new  == {<<msg[t].version, msg[t].state>> : x \in {x \in {t} : Pending(t)}}
  <2>1. owed = kept \cup new
    OBVIOUS
  <2>2. owed' = kept
    BY <1>2, <1>3, <1>4
  <2>3. said' = said \cup new
    BY <1>1, <1>5
  <2> QED
    BY <2>1, <2>2, <2>3 DEF Voices
<1>7. VoicesArePast'
  BY <1>1, <1>2, <1>4 DEF LogIInv, VoicesArePast
<1>8. OneVoiceEach'
  <2>1. \A i, j \in DOMAIN log' :
          IsStateEvent(log'[i]) /\ IsStateEvent(log'[j])
          /\ log'[i].version = log'[j].version => i = j
    BY <1>1, <1>5 DEF LogIInv, OneVoiceEach
  <2>2. \A i \in DOMAIN log', u \in Threads :
          IsStateEvent(log'[i]) /\ Pending(u)' => log'[i].version # msg'[u].version
    <3> SUFFICES ASSUME NEW i \in DOMAIN log', NEW u \in Threads,
                        IsStateEvent(log'[i]), Pending(u)'
                 PROVE  log'[i].version # msg'[u].version
      OBVIOUS
    <3>1. u # t /\ Pending(u) /\ msg'[u] = msg[u]
      BY <1>2, <1>3, <1>4
    <3>2. CASE i \in DOMAIN log
      BY <1>1, <3>1, <3>2 DEF LogIInv, OneVoiceEach
    <3>3. CASE i = n + 1
      BY <1>1, <1>5, <3>1, <3>3 DEF LogIInv, OneVoiceEach
    <3> QED
      BY <1>1, <3>2, <3>3
  <2>3. \A u, w \in Threads :
          Pending(u)' /\ Pending(w)' /\ msg'[u].version = msg'[w].version => u = w
    BY <1>2, <1>3, <1>4 DEF LogIInv, OneVoiceEach
  <2> QED
    BY <2>1, <2>2, <2>3 DEF OneVoiceEach
<1>9. NoVersionUntold'
  BY <1>1, <1>6 DEF LogIInv, NoVersionUntold
<1>10. VoicesFollowEdges'
  BY <1>1, <1>6 DEF LogIInv, VoicesFollowEdges
<1> QED
  BY <1>7, <1>8, <1>9, <1>10 DEF LogIInv


\* With a process the announcements of its threads are lost, and that one has died is
\* on record.
LEMMA CrashKeepsLog ==
    ASSUME TypeOK, LogIInv, NEW p \in Procs, Crash(p)
    PROVE  LogIInv'
<1>1. crashes' > 0 /\ UNCHANGED <<row, log>>
  BY BoundsAssumption DEF Crash, TypeOK
<1>2. \A u \in Threads :
        /\ Pending(u)' => Pending(u) /\ msg'[u] = msg[u]
        /\ msg'[u].version <= row.version
        /\ pc'[u] = "version" => pc[u] = "version" /\ msg'[u] = msg[u]
  BY DEF Crash, Pending, LogIInv, VoicesArePast, NoMsg, StateEvent, Created, TypeOK, Rows
<1>3. Voices' \subseteq Voices
  BY <1>1, <1>2 DEF Voices
<1>4. VoicesArePast'
  BY <1>1, <1>2 DEF LogIInv, VoicesArePast
<1>5. OneVoiceEach'
  BY <1>1, <1>2 DEF LogIInv, OneVoiceEach
<1>6. NoVersionUntold'
  BY <1>1 DEF NoVersionUntold
<1>7. VoicesFollowEdges'
  BY <1>1, <1>3 DEF LogIInv, VoicesFollowEdges
<1> QED
  BY <1>4, <1>5, <1>6, <1>7 DEF LogIInv

LEMMA LogIStep == TypeOK /\ ReadIsPast /\ LogIInv /\ [Next]_vars => LogIInv'
<1> SUFFICES ASSUME TypeOK, ReadIsPast, LogIInv, [Next]_vars PROVE LogIInv'
  OBVIOUS
<1>0. /\ crashes \in Nat /\ row.version \in Nat
      /\ \A u \in Threads : msg[u].version <= row.version
      /\ \A u \in Threads : pc[u] = "version" => ~IsStateEvent(msg[u])
      /\ \A i \in DOMAIN log : log[i].version <= row.version
  BY BoundsAssumption DEF TypeOK, Rows, LogIInv, VoicesArePast
<1>1. ASSUME NEW w \in Workers, WorkerStep(w) PROVE LogIInv'
  <2>0. w \in Threads /\ UNCHANGED <<row, log, crashes>>
    BY <1>1 DEF Threads, WorkerStep, CheckTerminal, StartStage, StopOnFlag, StageFails,
                BeginFail, Enter, CheckFlag
  <2>1. \A u \in Threads \ {w} : pc'[u] = pc[u] /\ msg'[u] = msg[u]
    BY <1>1 DEF WorkerStep, CheckTerminal, StartStage, StopOnFlag, StageFails,
                BeginFail, Enter, CheckFlag, Go, Forget, TypeOK
  <2>2. ~Pending(w) /\ ~Pending(w)'
    BY <1>1 DEF WorkerStep, CheckTerminal, StartStage, StopOnFlag, StageFails,
                BeginFail, Enter, CheckFlag, Go, Pending, TypeOK
  <2>3. msg'[w].version <= row.version /\ (pc'[w] = "version" => ~IsStateEvent(msg'[w]))
    <3>1. CASE Enter(w)
      <4>1. msg'[w].name = "search.progress" /\ msg'[w].version = msg[w].version
        BY <2>0, <3>1 DEF Enter, TypeOK, Events
      <4> QED
        BY <1>0, <2>0, <4>1 DEF IsStateEvent
    <3>2. CASE CheckFlag(w)
      BY <1>0, <2>0, <3>2 DEF CheckFlag, Go, Forget, NoMsg, StateEvent, Created, TypeOK
    <3>3. CASE ~Enter(w) /\ ~CheckFlag(w)
      BY <1>0, <1>1, <2>0, <3>3 DEF WorkerStep, CheckTerminal, StartStage, StopOnFlag,
                StageFails, BeginFail, Go, TypeOK
    <3> QED
      BY <3>1, <3>2, <3>3
  <2>4. VoicesArePast'
    BY <1>0, <2>0, <2>1, <2>3 DEF VoicesArePast
  <2>5. \A u \in Threads : Pending(u)' <=> Pending(u)
    BY <2>1, <2>2 DEF Pending
  <2> QED
    BY <1>0, <2>0, <2>1, <2>2, <2>4, <2>5, QuietStep
<1>2. ASSUME NEW w \in Workers, Launch(w) PROVE LogIInv'
  <2>1. \A u \in Threads : Pending(u)' <=> Pending(u)
    BY <1>2 DEF Launch, Pending, TypeOK
  <2>2. VoicesArePast'
    BY <1>0, <1>2 DEF Launch, VoicesArePast, TypeOK
  <2> QED
    BY <1>0, <1>2, <2>1, <2>2, QuietStep DEF Launch
<1>3. ASSUME NEW t \in Threads, ThreadStep(t) PROVE LogIInv'
  <2>1. CASE ReadRow(t)
    <3>1. \A u \in Threads : Pending(u)' <=> Pending(u)
      BY <2>1 DEF ReadRow, Go, Pending, TypeOK
    <3>2. VoicesArePast'
      BY <1>0, <2>1 DEF ReadRow, Go, VoicesArePast, TypeOK
    <3> QED
      BY <1>0, <2>1, <3>1, <3>2, QuietStep DEF ReadRow
  <2>2. CASE CommitRow(t)
    BY <2>2, CommitKeepsLog
  <2>3. CASE Reject(t)
    <3>1. \A u \in Threads \ {t} : pc'[u] = pc[u] /\ msg'[u] = msg[u]
      BY <2>3 DEF Reject, AfterRaise, Forget, TypeOK
    <3>2. ~Pending(t) /\ ~Pending(t)' /\ pc'[t] # "version" /\ msg'[t].version = 0
      BY <2>3 DEF Reject, AfterRaise, Forget, TypeOK, Pending, NoMsg, StateEvent, Created
    <3>3. VoicesArePast'
      BY <1>0, <2>3, <3>1, <3>2 DEF Reject, VoicesArePast
    <3>4. \A u \in Threads : Pending(u)' <=> Pending(u)
      BY <3>1, <3>2 DEF Pending
    <3> QED
      BY <1>0, <2>3, <3>1, <3>2, <3>3, <3>4, QuietStep DEF Reject
  <2>4. CASE ReadVersion(t)
    <3>1. \A u \in Threads \ {t} : pc'[u] = pc[u] /\ msg'[u] = msg[u]
      BY <2>4 DEF ReadVersion, Go, TypeOK
    <3>2. pc[t] = "version" /\ pc'[t] = "pred"
      BY <2>4 DEF ReadVersion, Go, TypeOK
    <3>3. msg'[t].name = msg[t].name /\ msg'[t].version = row.version
      BY <2>4 DEF ReadVersion, TypeOK, Events
    <3>4. ~Pending(t) /\ ~Pending(t)'
      BY <1>0, <3>2, <3>3 DEF Pending, IsStateEvent
    <3>5. VoicesArePast'
      BY <1>0, <2>4, <3>1, <3>2, <3>3 DEF ReadVersion, VoicesArePast
    <3>6. \A u \in Threads : Pending(u)' <=> Pending(u)
      BY <3>1, <3>4 DEF Pending
    <3> QED
      BY <1>0, <2>4, <3>1, <3>4, <3>5, <3>6, QuietStep DEF ReadVersion
  <2>5. CASE ReadPredecessor(t)
    <3>1. \A u \in Threads \ {t} : pc'[u] = pc[u] /\ msg'[u] = msg[u]
      BY <2>5 DEF ReadPredecessor, Go, TypeOK
    <3>2. /\ pc[t] = "pred" /\ pc'[t] = "append"
          /\ msg'[t].name = msg[t].name /\ msg'[t].version = msg[t].version
          /\ msg'[t].state = msg[t].state
      BY <2>5 DEF ReadPredecessor, Go, TypeOK, Events
    <3>3. \A u \in Threads : Pending(u)' <=> Pending(u)
      BY <3>1, <3>2 DEF Pending, IsStateEvent
    <3>4. VoicesArePast'
      BY <1>0, <2>5, <3>1, <3>2 DEF ReadPredecessor, VoicesArePast
    <3> QED
      BY <1>0, <2>5, <3>1, <3>2, <3>3, <3>4, QuietStep DEF ReadPredecessor
  <2>6. CASE AppendEvent(t)
    BY <2>6, AppendKeepsLog
  <2> QED
    BY <1>3, <2>1, <2>2, <2>3, <2>4, <2>5, <2>6 DEF ThreadStep
<1>4. ASSUME NEW c \in Cancellers, Request(c) \/ CancelStep(c) PROVE LogIInv'
  <2>0. c \in Threads /\ UNCHANGED <<row, log, crashes, msg>>
    BY <1>4 DEF Threads, Request, CancelStep, LookAtRow
  <2>1. \A u \in Threads :
           (Pending(u)' <=> Pending(u)) /\ (pc'[u] = "version" => pc[u] = "version")
    BY <1>4, <2>0 DEF Request, CancelStep, LookAtRow, Go, Pending, TypeOK
  <2>2. VoicesArePast'
    BY <1>0, <2>0, <2>1 DEF VoicesArePast
  <2> QED
    BY <1>0, <2>0, <2>1, <2>2, QuietStep
<1>5. ASSUME NEW p \in Procs, Crash(p) PROVE LogIInv'
  BY <1>5, CrashKeepsLog
<1>6. CASE UNCHANGED vars
  <2>1. UNCHANGED <<row, log, crashes, msg, pc>>
    BY <1>6 DEF vars
  <2>2. VoicesArePast'
    BY <1>0, <2>1 DEF VoicesArePast
  <2> QED
    BY <1>0, <2>1, <2>2, QuietStep DEF Pending
<1> QED
  BY <1>1, <1>2, <1>3, <1>4, <1>5, <1>6 DEF Next

\* At most one element: the set is empty or a singleton.
LEMMA AtMostOne ==
    ASSUME NEW S, \A x, y \in S : x = y
    PROVE  Cardinality(S) <= 1
<1>1. CASE S = {}
  BY <1>1, FS_EmptySet
<1>2. CASE S # {}
  <2>1. PICK x \in S : TRUE
    BY <1>2
  <2>2. S = {x}
    BY <2>1
  <2> QED
    BY <2>2, FS_Singleton
<1> QED
  BY <1>1, <1>2

LEMMA LogIImplies == TypeOK /\ LogIInv => LogAccountsForRow
<1> SUFFICES ASSUME TypeOK, LogIInv PROVE LogAccountsForRow
  OBVIOUS
<1>0. row.version \in Nat /\ crashes \in Nat
      /\ \A i \in DOMAIN log : log[i] \in Events
  BY BoundsAssumption DEF TypeOK, Rows
<1>1. ASSUME NEW v \in 0..row.version
      PROVE  /\ Cardinality(StateEventsOf(v)) <= 1
             /\ StateEventsOf(v) = {} => EventPending(v) \/ crashes > 0
  <2>1. \A i, j \in StateEventsOf(v) : i = j
    BY DEF StateEventsOf, LogIInv, OneVoiceEach, IsStateEvent
  <2>2. Cardinality(StateEventsOf(v)) <= 1
    BY <2>1, AtMostOne
  <2>3. ASSUME StateEventsOf(v) = {}, ~(crashes > 0) PROVE EventPending(v)
    <3>1. PICK a \in Voices : a[1] = v
      BY <2>3 DEF LogIInv, NoVersionUntold
    <3>2. \A i \in DOMAIN log : IsStateEvent(log[i]) => log[i].version # v
      BY <2>3 DEF StateEventsOf, IsStateEvent
    <3>3. PICK t \in Threads : Pending(t) /\ msg[t].version = v
      BY <3>1, <3>2 DEF Voices
    <3> QED
      BY <3>3 DEF EventPending, Pending, IsStateEvent
  <2> QED
    BY <2>2, <2>3
<1>2. \A i \in DOMAIN log : log[i].version <= row.version
  BY DEF LogIInv, VoicesArePast
<1>3. ASSUME NEW i \in DOMAIN log, NEW j \in DOMAIN log,
             log[i].name = "search.state", log[j].name = "search.state",
             log[j].version = log[i].version + 1
      PROVE  IsLegal(log[i].state, log[j].state)
  <2>1. /\ <<log[i].version, log[i].state>> \in Voices
        /\ <<log[j].version, log[j].state>> \in Voices
    BY <1>3 DEF Voices, IsStateEvent
  <2> QED
    BY <1>3, <2>1 DEF LogIInv, VoicesFollowEdges
<1> QED
  BY <1>1, <1>2, <1>3 DEF LogAccountsForRow

\* Whatever the interleaving of the writers: one search.state event for each version,
\* none for a version the row never had, and by version they walk legal edges.
THEOREM LogIsTheRowsHistory == Spec => []LogAccountsForRow
<1>1. Init => TypeOK /\ ReadIsPast /\ LogIInv
  BY TypeInit, ReadIsPastInit, LogIInit
<1>2. TypeOK /\ ReadIsPast /\ LogIInv /\ [Next]_vars => (TypeOK /\ ReadIsPast /\ LogIInv)'
  BY TypeStep, ReadIsPastStep, LogIStep
<1> QED
  BY <1>1, <1>2, LogIImplies, PTL DEF Spec

-------------------------------------------------------------------------------
(* The event stream. *)

\* A client that is connected has what lies before the generator's cursor, in order
\* and without a hole; one that is not has some first part of the log.
StreamIInv ==
    /\ stream \in {"poll", "offline", "sent", "judged", "ended"}
    /\ cursor \in Nat
    /\ got \in Seq(Nat) /\ got = Ids(0, Len(got)) /\ Len(got) <= Len(log)
    /\ stream # "offline" => cursor = Len(got)

\* The ids between two positions of the log.
LEMMA IdsAre ==
    ASSUME NEW m \in Nat, NEW n \in Nat, m <= n
    PROVE  /\ Ids(m, n) \in Seq(Nat)
           /\ Len(Ids(m, n)) = n - m
           /\ \A i \in 1..(n - m) : Ids(m, n)[i] = m + i
<1>1. n - m \in Nat
  OBVIOUS
<1>2. Ids(m, n) \in [1..(n - m) -> Nat]
  BY DEF Ids
<1>3. Ids(m, n) \in Seq(Nat)
  BY <1>1, <1>2
<1> QED
  BY <1>1, <1>3 DEF Ids

\* What follows the ids up to m are those from m on.
LEMMA IdsConcat ==
    ASSUME NEW m \in Nat, NEW n \in Nat, m <= n
    PROVE  Ids(0, m) \o Ids(m, n) = Ids(0, n)
<1>1. /\ Ids(0, m) \in Seq(Nat) /\ Len(Ids(0, m)) = m
      /\ \A i \in 1..m : Ids(0, m)[i] = i
  BY IdsAre
<1>2. /\ Ids(m, n) \in Seq(Nat) /\ Len(Ids(m, n)) = n - m
      /\ \A i \in 1..(n - m) : Ids(m, n)[i] = m + i
  BY IdsAre
<1>3. /\ Ids(0, n) \in Seq(Nat) /\ Len(Ids(0, n)) = n
      /\ \A i \in 1..n : Ids(0, n)[i] = i
  BY IdsAre
<1> DEFINE both == Ids(0, m) \o Ids(m, n)
<1>4. both \in Seq(Nat) /\ Len(both) = n
  BY <1>1, <1>2, ConcatProperties
<1>5. ASSUME NEW i \in 1..n PROVE both[i] = i
  <2>1. CASE i <= m
    BY <1>1, <1>2, <2>1, ConcatProperties
  <2>2. CASE m < i
    <3>1. i - m \in 1..(n - m)
      BY <2>2
    <3>2. both[i] = Ids(m, n)[i - m]
      BY <1>1, <1>2, <2>2, ConcatProperties
    <3> QED
      <4>1. Ids(m, n)[i - m] = m + (i - m)
        BY <1>2, <3>1
      <4>2. m + (i - m) = i
        OBVIOUS
      <4> HIDE DEF both
      <4> QED
        BY <3>2, <4>1, <4>2
  <2> HIDE DEF both
  <2> QED
    BY <2>1, <2>2
<1> HIDE DEF both
<1> QED
  BY <1>3, <1>4, <1>5, SeqEqual DEF both

\* A first part of the ids from m on is the ids from m to an earlier position.
LEMMA IdsCut ==
    ASSUME NEW m \in Nat, NEW n \in Nat, m <= n, NEW k \in 0..(n - m)
    PROVE  SubSeq(Ids(m, n), 1, k) = Ids(m, m + k)
<1>1. /\ Ids(m, n) \in Seq(Nat) /\ Len(Ids(m, n)) = n - m
      /\ \A i \in 1..(n - m) : Ids(m, n)[i] = m + i
  BY IdsAre
<1>2. m + k \in Nat /\ m <= m + k /\ (m + k) - m = k
  OBVIOUS
<1>3. /\ Ids(m, m + k) \in Seq(Nat) /\ Len(Ids(m, m + k)) = k
      /\ \A i \in 1..k : Ids(m, m + k)[i] = m + i
  BY <1>2, IdsAre
<1> DEFINE cut == SubSeq(Ids(m, n), 1, k)
<1>4. cut \in Seq(Nat) /\ Len(cut) = k /\ \A i \in 1..k : cut[i] = m + i
  BY <1>1
<1> HIDE DEF cut
<1> QED
  BY <1>3, <1>4, SeqEqual DEF cut

\* No step takes an event away.
LEMMA LogGrows == TypeOK /\ [Next]_vars => Len(log') >= Len(log)
<1> SUFFICES ASSUME TypeOK, [Next]_vars PROVE Len(log') >= Len(log)
  OBVIOUS
<1>0. Len(log) \in Nat
  BY DEF TypeOK
<1>1. ASSUME NEW t \in Threads, AppendEvent(t) PROVE Len(log') = Len(log) + 1
  BY <1>1 DEF AppendEvent, TypeOK
<1>2. CASE \E t \in Threads : AppendEvent(t)
  BY <1>0, <1>1, <1>2
<1>3. CASE ~\E t \in Threads : AppendEvent(t)
  <2>1. log' = log
    BY <1>3 DEF Next, vars, WorkerStep, ThreadStep, CancelStep, CheckTerminal, StartStage,
                StopOnFlag, StageFails, BeginFail, Enter, CheckFlag, ReadRow, CommitRow,
                Reject, ReadVersion, ReadPredecessor, LookAtRow, Request, Launch, Crash
  <2> QED
    BY <1>0, <2>1
<1> QED
  BY <1>2, <1>3

LEMMA StreamIInit == StreamedInit => StreamIInv
<1> SUFFICES ASSUME StreamedInit PROVE StreamIInv
  OBVIOUS
<1>1. got = <<>> /\ Len(log) = 1 /\ cursor = 0 /\ stream = "poll"
  BY DEF StreamedInit, StreamInit, Init
<1>2. Ids(0, 0) = <<>>
  BY IdsAre, SeqEqual
<1> QED
  BY <1>1, <1>2 DEF StreamIInv

\* A step of the stream is no step of the campaign, and the other way round.
LEMMA StreamedIsNext == [StreamedNext]_StreamedVars => [Next]_vars
BY DEF StreamedNext, StreamedVars

LEMMA StreamIStep == TypeOK /\ StreamIInv /\ [StreamedNext]_StreamedVars => StreamIInv'
<1> SUFFICES ASSUME TypeOK, StreamIInv, [StreamedNext]_StreamedVars PROVE StreamIInv'
  OBVIOUS
<1>0. /\ Len(log) \in Nat /\ Len(got) \in Nat /\ Len(got) <= Len(log)
      /\ got = Ids(0, Len(got)) /\ got \in Seq(Nat)
  BY DEF TypeOK, StreamIInv
<1>1. CASE UNCHANGED streamVars
  <2>1. Len(log') >= Len(log) /\ Len(log') \in Nat
    BY StreamedIsNext, LogGrows, TypeStep DEF TypeOK
  <2> QED
    BY <1>0, <1>1, <2>1 DEF StreamIInv, streamVars
<1>2. CASE SendBatch /\ UNCHANGED vars
  <2>1. cursor = Len(got) /\ UNCHANGED log
    BY <1>2 DEF SendBatch, StreamIInv, vars
  <2>2. got' = Ids(0, Len(log))
    BY <1>0, <1>2, <2>1, IdsConcat DEF SendBatch, NumberedAfter
  <2>3. Len(got') = Len(log) /\ got' \in Seq(Nat)
    BY <1>0, <2>2, IdsAre
  <2> QED
    <3>1. cursor' = Len(log) /\ stream' = "sent"
      BY <1>2 DEF SendBatch
    <3> QED
      BY <1>0, <2>1, <2>2, <2>3, <3>1 DEF StreamIInv
<1>3. CASE Drop /\ UNCHANGED vars
  <2>1. cursor = Len(got) /\ UNCHANGED log
    BY <1>3 DEF Drop, StreamIInv, vars
  <2> DEFINE g == Len(got)
             n == Len(log)
  <2>2. Len(Ids(g, n)) = n - g
    BY <1>0, IdsAre
  <2>3. PICK k \in 0..(n - g) : got' = got \o SubSeq(Ids(g, n), 1, k)
    BY <1>3, <2>1, <2>2 DEF Drop, NumberedAfter
  <2>4. g + k \in Nat /\ g <= g + k /\ g + k <= n
    BY <1>0
  <2>5. got' = Ids(0, g + k)
    BY <1>0, <2>3, <2>4, IdsCut, IdsConcat
  <2>6. Len(got') = g + k /\ got' \in Seq(Nat)
    BY <2>4, <2>5, IdsAre
  <2> QED
    BY <1>3, <2>1, <2>4, <2>5, <2>6 DEF Drop, StreamIInv
<1>4. CASE Reconnect /\ UNCHANGED vars
  <2>1. ResumePoint = Len(got)
    <3>1. CASE got = <<>>
      BY <3>1 DEF ResumePoint
    <3>2. CASE got # <<>>
      <4>1. Len(got) \in 1..Len(got)
        BY <1>0, <3>2
      <4>2. Ids(0, Len(got))[Len(got)] = Len(got)
        <5>1. \A i \in 1..(Len(got) - 0) : Ids(0, Len(got))[i] = 0 + i
          <6>1. 0 <= Len(got) /\ 0 \in Nat
            BY <1>0
          <6> QED
            BY <1>0, <6>1, IdsAre
        <5> QED
          BY <1>0, <4>1, <5>1
      <4> QED
        BY <1>0, <3>2, <4>2 DEF ResumePoint
    <3> QED
      BY <3>1, <3>2
  <2> QED
    BY <1>0, <1>4, <2>1 DEF Reconnect, StreamIInv, vars
<1>5. CASE (JudgeClosed \/ EndOrSleep) /\ UNCHANGED vars
  BY <1>0, <1>5 DEF JudgeClosed, EndOrSleep, StreamIInv, vars
<1> QED
  BY <1>1, <1>2, <1>3, <1>4, <1>5
     DEF StreamedNext, StreamedVars, StreamStep

\* The generator ends only on a client that has the whole log.
LEMMA EndStep ==
    TypeOK /\ StreamIInv /\ [StreamedNext]_StreamedVars
    => (stream' = "ended" /\ stream # "ended" => Len(got) = Len(log))
<1> SUFFICES ASSUME TypeOK, StreamIInv, [StreamedNext]_StreamedVars,
                    stream' = "ended", stream # "ended"
             PROVE  Len(got) = Len(log)
  OBVIOUS
<1>0. Len(log) \in Nat /\ Len(got) \in Nat /\ Len(got) <= Len(log)
  BY DEF TypeOK, StreamIInv
<1>1. EndOrSleep
  BY DEF StreamedNext, StreamedVars, StreamStep, streamVars, SendBatch, Drop, Reconnect,
         JudgeClosed
<1>2. cursor = Len(got) /\ NumberedAfter(cursor) = <<>>
  BY <1>1 DEF EndOrSleep, StreamIInv, NothingRemains
<1>3. Len(NumberedAfter(cursor)) = Len(log) - Len(got)
  BY <1>0, <1>2, IdsAre DEF NumberedAfter
<1> QED
  BY <1>0, <1>2, <1>3

\* Over any number of broken connections and any writers of the log, what the client
\* received is a first part of the log, each event once and in order.
THEOREM StreamHasNoGap == StreamedSpec => []NoGapNoDuplicate
<1>1. StreamedInit => TypeOK /\ StreamIInv
  BY TypeInit, StreamIInit DEF StreamedInit
<1>2. TypeOK /\ StreamIInv /\ [StreamedNext]_StreamedVars => (TypeOK /\ StreamIInv)'
  BY StreamedIsNext, TypeStep, StreamIStep
<1>3. StreamIInv => NoGapNoDuplicate
  BY DEF StreamIInv, NoGapNoDuplicate
<1> QED
  BY <1>1, <1>2, <1>3, PTL DEF StreamedSpec

\* The stream ends on a client only when it has every event of the log, whatever was
\* appended between the three reads of the loop.
THEOREM StreamEndsComplete == StreamedSpec => EndsWithNothingUnsent
<1>1. StreamedInit => TypeOK /\ StreamIInv
  BY TypeInit, StreamIInit DEF StreamedInit
<1>2. TypeOK /\ StreamIInv /\ [StreamedNext]_StreamedVars => (TypeOK /\ StreamIInv)'
  BY StreamedIsNext, TypeStep, StreamIStep
<1> QED
  BY <1>1, <1>2, EndStep, PTL DEF StreamedSpec, EndsWithNothingUnsent
===============================================================================
