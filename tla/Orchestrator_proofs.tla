-------------------------- MODULE Orchestrator_proofs --------------------------
(***************************************************************************)
(* The invariants that the run of Orchestrator checks, for any listings,   *)
(* rounds and waves and any number of crashes and resumes: nothing is      *)
(* decided or published twice, what is FAILED is explained, and a budget   *)
(* stop leaves no evidence unseen.                                         *)
(*                                                                         *)
(* The argument is about what a worker leaves on disk: the state and the   *)
(* marked steps always fit each other (DiskFits), so that the next worker  *)
(* finds its place again or asks for one of the five transitions           *)
(* Explained lists.  The race of a cancel with a worker's transition is    *)
(* taken out of it first: NextIs says what is left of every step when only *)
(* its outcome counts.  The last section takes it up again, and shows what *)
(* a worker leaves an open campaign for.                                   *)
(***************************************************************************)
EXTENDS Orchestrator, TLAPS

Done(s) == Walk[s] \in completed

Over == state \in Terminal

\* Every stage before n that the campaign has to take is marked.
MarkedBefore(n) == \A s \in 8..(n - 1) : Done(s) \/ (s \in MatchStages /\ cands = {})

NoneMarkedFrom(n) == \A s \in n..19 : ~Done(s)

\* Stage n is the one to take up next.
Ready(n) ==
    /\ MarkedBefore(n) /\ NoneMarkedFrom(n)
    /\ n \in MatchStages => cands # {}

\* What a worker without the routing layer leaves: GAP_ANALYSIS is entered with the
\* match stages still to do.
Detoured ==
    /\ state \in From(19)
    /\ \A s \in 8..13 : Done(s)
    /\ \A s \in MatchStages : ~Done(s)
    /\ cands # {}

\* In state Walk[n], with the stages before it marked and none after it.
Inside(n) ==
    /\ state = Walk[n] /\ MarkedBefore(n) /\ NoneMarkedFrom(n + 1)
    /\ n \in MatchStages => cands # {}

\* The state that the last replan left, the steps unmarked.
Again == state = "DISCOVERING" /\ NoneMarkedFrom(8) /\ waves > 1

\* The state and the marked steps, whatever happened to the workers.
DiskFits ==
    \/ Over
    \/ state \in {Walk[i] : i \in 1..7} /\ NoneMarkedFrom(8)
    \/ \E n \in Stages : Inside(n)
    \/ Again
    \/ state = "REPLANNING" /\ (MarkedBefore(20) \/ NoneMarkedFrom(8))
    \/ Detoured

\* The reference wave leaves queries behind.
Planned ==
    /\ "PLANNING_QUERIES" \in completed \/ state \in From(8) => waves >= 1
    /\ "PLANNING_QUERIES" \in completed => state \in From(7) \cup Terminal

\* What a worker in the middle of a transition, and a cancel that has read the row, still
\* find there when they write it.
RaceFits ==
    /\ inside => /\ pc \in {"wave", "enter", "detour", "replan", "rediscover", "terminate",
                            "partial", "fail"}
                 /\ pc \in {"wave", "enter"} => state # Walk[stage]
                 /\ pc = "detour" => state # "GAP_ANALYSIS"
                 /\ pc = "replan" => state # "REPLANNING"
                 /\ pc = "rediscover" => state # "DISCOVERING"
    /\ request \in HasRead => ~Over

\* The worker's own variables, by the place it is at.
Where ==
    /\ pc \in {"wave", "wavework", "wavemark"} => stage \in 2..7
    /\ pc \in {"enter", "handle", "work", "finish"} => stage \in Stages
    /\ pc \in {"detour", "gaps"} => stage = 19
    /\ pc = "saverank" => stage = 17
    /\ pc = "savepublish" => stage = 18
    /\ Over => state = "CANCELLED" \/ pc \in {"gone", "open"}
    /\ mode = "api" <=> resumes = 0
    /\ mode = "api" => "routing" \notin lanes
    /\ {round, turn} \subseteq 1..MaxRounds
    /\ pc \in {"compile", "replan", "reset", "finishreplan", "rediscover", "nextround"}
       => turn = 1 /\ MaxRounds > 1
    /\ RaceFits

\* A round is over: all of it is marked, or routing was shut.
RoundIsOver ==
    \/ state \in From(19) /\ (MarkedBefore(20) \/ Detoured)
    \/ state \in From(14) \ From(19) /\ "routing" \in lanes

\* The stage taken up is the next one, and the graph lets the worker in; or it is asked
\* for all the same, and Explained tells why.
EnterFits(n) ==
    \/ Ready(n) /\ (state = Walk[n] \/ IsLegal(state, Walk[n]))
    \/ /\ ~IsLegal(state, Walk[n]) /\ state # Walk[n]
       /\ Explained(Refusal(state, Walk[n], lanes))

\* What the worker relies on at each place, as long as nobody ends the campaign.
Relies ==
    /\ pc \in {"open", "reference"} /\ resumes = 0 => state = "CREATED"
    /\ pc \in {"wave", "wavework", "wavemark"} => state \in {Walk[i] : i \in 1..7}
    /\ pc = "wave" => IF stage = 2 THEN resumes = 0 => state = "CREATED"
                                   ELSE state = Walk[stage - 1]
    /\ pc \in {"wavework", "wavemark"} => state = Walk[stage]
    /\ pc \in {"round", "pick"} => state \in From(7)
    /\ pc \in {"round", "pick", "enter", "handle", "work", "finish", "detour", "gaps",
               "judge", "compile", "replan", "reset", "finishreplan", "rediscover",
               "nextround", "terminate"} => waves >= 1
    /\ pc = "enter" => EnterFits(stage)
    /\ pc \in {"handle", "work", "finish"} => state = Walk[stage] /\ Ready(stage)
    /\ pc = "detour" => /\ state = "BROAD_RETRIEVAL" /\ "routing" \in lanes
                        /\ Ready(14)
    /\ pc = "gaps" => state = "GAP_ANALYSIS" /\ Detoured /\ "routing" \in lanes
    /\ pc \in {"judge", "compile", "replan", "terminate"} => RoundIsOver
    /\ pc \in {"replan", "reset", "finishreplan", "rediscover", "nextround"} => waves > 1
    /\ pc = "reset" => state = "REPLANNING" /\ (MarkedBefore(20) \/ Detoured)
    /\ pc \in {"finishreplan", "rediscover"} => state = "REPLANNING" /\ NoneMarkedFrom(8)
    /\ pc = "nextround" => Again
    /\ pc = "fail" /\ ~raised => Explained(asked)

\* Only a resumed worker takes the detour, and the next one that goes on from there is at
\* least the second.
DetourKnown ==
    Detoured =>
        /\ resumes > 0
        /\ resumes < 2 => pc \in {"gaps", "judge", "compile", "replan", "terminate",
                                  "reset", "gone"}

\* The stages taken up in this pipeline are marked, but for the one it works on; the
\* reference wave is not, until it has compiled the queries.
BegunIsDone ==
    /\ pc \in {"wave", "wavework", "wavemark"} => "PLANNING_QUERIES" \notin completed
    /\ pc = "wavemark" /\ stage = 7 => waves >= 1
    /\ pc = "pick" => \A s \in begun : Done(s)
    /\ pc \in {"enter", "handle", "work", "finish"} =>
          \A s \in begun : Done(s) \/ s = stage

FailIInv ==
    /\ Where /\ DiskFits /\ Planned /\ BegunIsDone /\ DetourKnown
    /\ Over \/ Relies
    /\ FailureIsExplained

-------------------------------------------------------------------------------
(* What the second half of the argument is about: the evidence and its rows. *)

\* What the handler has still to write is not written yet.
ToWriteOnce ==
    pc \in {"work", "saverank", "savepublish"} =>
        /\ stage = 17 => \A c \in todo : decided[c] = 0
        /\ stage = 18 => \A c \in todo : shown[c] = 0

OnceIInv == PublishedOnce /\ ToWriteOnce

Evident == matched \cap authed

AllDecided == \A c \in Evident : decided[c] > 0
AllShown == \A c \in Evident : shown[c] > 0
NoneDecided == \A c \in Cands : decided[c] = 0
NoneShown == \A c \in Cands : shown[c] = 0
RestDecided == \A c \in Evident : decided[c] > 0 \/ c \in todo
RestShown == \A c \in Evident : shown[c] > 0 \/ c \in todo

\* Only a stored candidate is scored.
ScoredIsStored ==
    /\ matched \subseteq cands /\ authed \subseteq cands
    /\ pc = "work" /\ stage \in {14, 15} => todo \subseteq cands

\* A campaign that its first worker is still at, and nothing has gone wrong with.
Undisturbed == resumes = 0 /\ pc # "gone" /\ ~raised /\ ~Over

Replanned == turn # 1 \/ pc \in {"finishreplan", "rediscover", "nextround"}

\* In an undisturbed campaign every candidate with evidence is decided once RANKING is
\* marked and published once PUBLISHING is, nothing before that, and the second round
\* gets no further than its first stage.
EvidenceKept ==
    /\ turn = round
    /\ Done(17) => AllDecided
    /\ Done(18) => AllShown
    /\ \/ NoneDecided \/ Done(17) \/ Replanned
       \/ pc \in {"work", "finish"} /\ stage = 17
       \/ pc \in {"saverank", "savepublish", "partial", "fail"}
    /\ \/ NoneShown \/ Done(18) \/ Replanned
       \/ pc \in {"work", "finish"} /\ stage = 18
       \/ pc \in {"savepublish", "partial", "fail"}
    /\ Replanned \/ pc \in {"judge", "compile", "replan", "reset", "terminate"}
       => AllDecided /\ AllShown
    /\ turn # 1 =>
          /\ Again
          /\ pc \in {"round", "pick", "enter", "fail", "salvage", "saverank",
                     "savepublish", "partial"}
          /\ pc = "enter" => stage = 8
    /\ (pc = "finish" /\ stage = 17) \/ pc = "savepublish" => AllDecided
    /\ (pc = "finish" /\ stage = 18) \/ pc = "partial" => AllShown
    /\ (pc = "work" /\ stage = 17) \/ pc = "saverank" => RestDecided
    /\ (pc = "work" /\ stage = 18) \/ pc = "savepublish" => RestShown

EvidenceIInv ==
    /\ ScoredIsStored
    /\ Undisturbed => EvidenceKept
    /\ EvidenceIsPublished


-------------------------------------------------------------------------------
(* The graph. *)

LEMMA WalkNames ==
    /\ Walk[1] = "CREATED" /\ Walk[2] = "VALIDATING_INPUT"
    /\ Walk[3] = "INGESTING_REFERENCES" /\ Walk[7] = "PLANNING_QUERIES"
    /\ Walk[8] = "PLANNING_SOURCES" /\ Walk[9] = "DISCOVERING" /\ Walk[10] = "ACQUIRING"
    /\ Walk[13] = "BROAD_RETRIEVAL" /\ Walk[14] = "FINE_MATCHING"
    /\ Walk[15] = "AUTHENTICITY_REVIEW" /\ Walk[17] = "RANKING" /\ Walk[18] = "PUBLISHING"
    /\ Walk[19] = "GAP_ANALYSIS" /\ Walk[20] = "REPLANNING"
BY DEF Walk

\* No state is met twice on the walk, and none of them is terminal.
LEMMA WalkInjective ==
    /\ \A i, j \in 1..20 : Walk[i] = Walk[j] => i = j
    /\ \A i \in 1..20 : Walk[i] \notin Terminal /\ Walk[i] \in States
<1>1. \A i, j \in 1..20 : Walk[i] = Walk[j] => i = j
  BY DEF Walk
<1>2. \A i \in 1..20 : Walk[i] \notin Terminal
  BY DEF Walk, Terminal
<1>3. \A i \in 1..20 : Walk[i] \in States
  BY DEF States, Active
<1> QED
  BY <1>1, <1>2, <1>3

LEMMA StageNames ==
    ASSUME NEW s \in 1..20
    PROVE  /\ Walk[s] = "INGESTING_REFERENCES" <=> s = 3
           /\ Walk[s] = "PLANNING_QUERIES" <=> s = 7
           /\ Walk[s] = "PLANNING_SOURCES" <=> s = 8
           /\ Walk[s] = "DISCOVERING" <=> s = 9
           /\ Walk[s] = "ACQUIRING" <=> s = 10
           /\ Walk[s] = "FINE_MATCHING" <=> s = 14
           /\ Walk[s] = "AUTHENTICITY_REVIEW" <=> s = 15
           /\ Walk[s] = "RANKING" <=> s = 17
           /\ Walk[s] = "PUBLISHING" <=> s = 18
BY WalkNames, WalkInjective

\* The edges the orchestrator relies on.
LEMMA LegalHere ==
    /\ \A i \in 1..19 : IsLegal(Walk[i], Walk[i + 1])
    /\ IsLegal("BROAD_RETRIEVAL", "GAP_ANALYSIS")
    /\ IsLegal("REPLANNING", "PLANNING_SOURCES")
    /\ IsLegal("REPLANNING", "DISCOVERING")
    /\ \A s \in From(1) : IsLegal(s, "FAILED")
    /\ \A s \in From(2) : IsLegal(s, "BLOCKED")
    /\ \A s \in From(9) : IsLegal(s, "PARTIAL")
    /\ \A s \in From(18) : IsLegal(s, "COMPLETE")
<1>1. \A i \in 1..20 : \A s \in From(i) : s \notin Terminal
  BY WalkInjective DEF From
<1>2. \A i \in 1..19 : <<Walk[i], Walk[i + 1]>> \in LegalEdges
  BY DEF LegalEdges, ForwardEdges
<1>3. {"BROAD_RETRIEVAL", "REPLANNING"} \cap Terminal = {}
  BY DEF Terminal
<1>4. \A i \in 1..19 : IsLegal(Walk[i], Walk[i + 1])
  BY <1>2, WalkInjective DEF IsLegal
<1>5. /\ IsLegal("BROAD_RETRIEVAL", "GAP_ANALYSIS")
      /\ IsLegal("REPLANNING", "PLANNING_SOURCES") /\ IsLegal("REPLANNING", "DISCOVERING")
  BY <1>3 DEF IsLegal, LegalEdges, ForwardEdges
<1>6. /\ \A s \in From(1) : <<s, "FAILED">> \in LegalEdges
      /\ \A s \in From(2) : <<s, "BLOCKED">> \in LegalEdges
      /\ \A s \in From(9) : <<s, "PARTIAL">> \in LegalEdges
      /\ \A s \in From(18) : <<s, "COMPLETE">> \in LegalEdges
  BY DEF LegalEdges, ExitEdges
<1> QED
  BY <1>1, <1>4, <1>5, <1>6 DEF IsLegal

\* The five edges it would need and does not have.
LEMMA IllegalHere ==
    /\ ~IsLegal("DISCOVERING", "PLANNING_SOURCES")
    /\ ~IsLegal("GAP_ANALYSIS", "FINE_MATCHING")
    /\ ~IsLegal("REPLANNING", "FINE_MATCHING")
    /\ \A s \in From(14) : IsLegal(s, "REPLANNING") => s = "GAP_ANALYSIS"
<1>1. \A i \in 1..19 : <<Walk[i], Walk[i + 1]>> # <<"DISCOVERING", "PLANNING_SOURCES">>
  BY StageNames, WalkInjective
<1>2. \A i \in 1..19 : Walk[i + 1] = "FINE_MATCHING" => Walk[i] = "BROAD_RETRIEVAL"
  <2>1. \A i \in 1..19 : Walk[i + 1] = "FINE_MATCHING" => i = 13
    BY StageNames
  <2> QED
    BY <2>1, WalkNames
<1>3. \A i : <<"DISCOVERING", "PLANNING_SOURCES">> \notin ExitEdges
  BY DEF ExitEdges
<1>4. \A s : <<s, "FINE_MATCHING">> \notin ExitEdges
  BY DEF ExitEdges
<1>5. ASSUME NEW s \in From(14), IsLegal(s, "REPLANNING") PROVE s = "GAP_ANALYSIS"
  <2>1. s # "DISCOVERING"
    BY WalkNames, WalkInjective, <1>5 DEF From
  <2>2. \A i \in 1..19 : Walk[i + 1] = "REPLANNING" => i = 19
    BY WalkNames, WalkInjective
  <2>3. <<s, "REPLANNING">> \notin ExitEdges
    BY DEF ExitEdges
  <2> QED
    BY <1>5, <2>1, <2>2, <2>3, WalkNames DEF IsLegal, LegalEdges, ForwardEdges
<1> QED
  BY <1>1, <1>2, <1>3, <1>4, <1>5 DEF IsLegal, LegalEdges, ForwardEdges

LEMMA FromIs ==
    /\ \A i, j \in 1..20 : i >= j <=> Walk[i] \in From(j)
    /\ \A j \in 1..20 : From(j) \cap Terminal = {}
    /\ \A j \in 1..20 : \A s \in From(j) : \E i \in j..20 : s = Walk[i]
    /\ States = From(1) \cup Terminal
    /\ From(19) = {"GAP_ANALYSIS", "REPLANNING"}
<1>1. From(19) = {"GAP_ANALYSIS", "REPLANNING"}
  BY WalkNames DEF From
<1>2. ASSUME NEW i \in 1..20, NEW j \in 1..20 PROVE i >= j <=> Walk[i] \in From(j)
  <2>1. i >= j => Walk[i] \in From(j)
    BY DEF From
  <2>2. ASSUME Walk[i] \in From(j) PROVE i >= j
    <3>1. PICK k \in j..20 : Walk[i] = Walk[k]
      BY <2>2 DEF From
    <3>2. k \in 1..20
      OBVIOUS
    <3> QED
      BY <3>1, <3>2, WalkInjective
  <2> QED
    BY <2>1, <2>2
<1>3. ASSUME NEW j \in 1..20 PROVE From(j) \cap Terminal = {}
  BY WalkInjective DEF From
<1>4. States = From(1) \cup Terminal
  BY DEF From, States, Active
<1>5. \A j \in 1..20 : \A s \in From(j) : \E i \in j..20 : s = Walk[i]
  BY DEF From
<1> QED
  BY <1>1, <1>2, <1>3, <1>4, <1>5

LEMMA VerdictsAre ==
    ASSUME coverage \in {"none", "answered", "partly", "blocked"}, NEW v \in Verdicts
    PROVE  v \in {"COMPLETE", "PARTIAL", "BLOCKED"}
<1>1. CASE coverage = "none"
  BY <1>1 DEF Verdicts
<1>2. CASE coverage = "answered"
  BY <1>2 DEF Verdicts
<1>3. CASE coverage = "partly"
  BY <1>3 DEF Verdicts
<1>4. CASE coverage = "blocked"
  BY <1>4 DEF Verdicts
<1> QED
  BY <1>1, <1>2, <1>3, <1>4

-------------------------------------------------------------------------------
(* Types, and where the worker is. *)

LEMMA Init0 == Init => TypeOK /\ Where
<1> SUFFICES ASSUME Init PROVE TypeOK /\ Where
  OBVIOUS
<1>1. "CREATED" \in States /\ "CREATED" \notin Terminal
  BY WalkNames, WalkInjective
<1>2. /\ MaxRounds \in Nat /\ MaxRounds >= 1 /\ MaxWaves \in Nat
      /\ MaxCrashes \in Nat /\ MaxResumes \in Nat
  BY RoundsAssumption, LivesAssumption
<1>3. TypeOK
  <2>1. /\ decided \in [Cands -> Nat] /\ shown \in [Cands -> Nat]
        /\ runs \in [Stages -> Nat]
    BY DEF Init
  <2>2. /\ cands \subseteq Cands /\ matched \subseteq Cands /\ authed \subseteq Cands
        /\ todo \subseteq Cands
    BY DEF Init
  <2>3. pc \in PCs
    BY DEF Init, PCs
  <2>5. /\ round \in Nat /\ turn \in Nat
        /\ waves \in 0..MaxWaves /\ searched \in 0..MaxWaves
        /\ crashes \in 0..MaxCrashes /\ resumes \in 0..MaxResumes
    BY <1>2 DEF Init
  <2>6. /\ coverage \in {"none", "answered", "partly", "blocked"} /\ mode \in {"api", "cli"}
        /\ stage \in 1..20 /\ begun \subseteq Stages
        /\ lanes \subseteq {"discovery", "routing"}
        /\ state \in States /\ completed \subseteq States
    BY <1>1 DEF Init
  <2>7. /\ flag \in BOOLEAN /\ engine \in BOOLEAN /\ raised \in BOOLEAN
        /\ inside \in BOOLEAN /\ beaten \in BOOLEAN
        /\ request \in {"none", "flagged", "here", "elsewhere"}
    BY DEF Init
  <2> QED
    BY <2>1, <2>2, <2>3, <2>5, <2>6, <2>7 DEF TypeOK
<1>4. Where
  <2>1. RaceFits
    BY DEF Init, RaceFits, HasRead
  <2> QED
    BY <2>1, <1>1, <1>2 DEF Init, Where, Over
<1> QED
  BY <1>3, <1>4

-------------------------------------------------------------------------------
(* The steps as the campaign sees them.  A transition's look at the flag and a cancel's   *)
(* way to the row move nothing but the race between the two; when the race is run, the    *)
(* transition was made, was refused, or never came to pass.                               *)

Still ==
    UNCHANGED <<disk, pc, mode, turn, stage, begun, lanes, engine, todo, history>>

\* The worker asks for target: the flag stops it, the row is written, or it is refused.
Moved(target, there) ==
    \/ pc' = "gone" /\ UNCHANGED <<state, asked>>
    \/ Legal(target) /\ state' = target /\ pc' = there /\ UNCHANGED asked
    \/ ~Legal(target) /\ asked' = Refusal(state, target, lanes) /\ pc' = "fail"
       /\ UNCHANGED state

EnterMoves(target, there) ==
    \/ state \in Terminal \cup {target} /\ pc' = there /\ UNCHANGED <<state, asked>>
    \/ state # target /\ Moved(target, there)

\* What no transition touches.
Apart ==
    UNCHANGED <<completed, round, waves, searched, coverage, cands, matched, authed,
                decided, shown, mode, flag, turn, stage, begun, lanes, engine, todo,
                crashes, resumes, raised, runs>>

WaveEnters ==
    /\ pc = "wave"
    /\ \/ state = Walk[stage] /\ pc' = "wavework" /\ UNCHANGED <<state, asked>>
       \/ state # Walk[stage] /\ Moved(Walk[stage], "wavework")
    /\ Apart

Enters ==
    /\ \/ pc = "enter" /\ EnterMoves(Walk[stage], "handle")
       \/ pc = "detour" /\ EnterMoves("GAP_ANALYSIS", "gaps")
    /\ Apart

ReplanEnters ==
    /\ \/ pc = "replan" /\ EnterMoves("REPLANNING", "reset")
       \/ pc = "rediscover" /\ EnterMoves("DISCOVERING", "nextround")
    /\ Apart

Terminates ==
    /\ pc = "terminate"
    /\ \/ pc' = "gone" /\ UNCHANGED <<state, asked>>
       \/ \E verdict \in Verdicts : Moved(verdict, "gone")
    /\ Apart

ForcesPartial ==
    /\ pc = "partial"
    /\ \/ pc' = "gone" /\ UNCHANGED <<state, asked>>
       \/ Legal("PARTIAL") /\ state' = "PARTIAL" /\ pc' = "gone" /\ UNCHANGED asked
       \/ /\ ~Legal("PARTIAL") /\ asked' = Refusal(state, "PARTIAL", lanes)
          /\ pc' = IF mode = "api" THEN "fail" ELSE "gone"
          /\ UNCHANGED state
    /\ Apart

Fails ==
    /\ pc = "fail" /\ pc' = "gone"
    /\ state' = state \/ (Legal("FAILED") /\ state' = "FAILED")
    /\ UNCHANGED asked /\ Apart

Cancels ==
    /\ ~Over /\ state' = "CANCELLED"
    /\ UNCHANGED <<completed, round, waves, searched, coverage, cands, matched, authed,
                   decided, shown, self, history>>

Steps ==
    \/ Open \/ EnsureReference \/ WaveEnters \/ WaveWork \/ WaveMark \/ RoundHead
    \/ Pick \/ Enters \/ Handle \/ (\E c \in Cands : WriteRow(c)) \/ HandlerDone
    \/ HandlerRaises \/ Detour \/ FinishStage
    \/ Judge \/ Compile \/ ReplanEnters \/ ResetSteps \/ FinishReplan \/ NextRound
    \/ Terminates \/ Salvage \/ SalvageRaises \/ ForcesPartial \/ Fails
    \/ Cancels \/ Crash \/ Resume \/ Still

\* A transition looks at the row before it is made, and whoever makes it first makes the
\* cancel that has read the row fail.
LEMMA RaceStep == TypeOK /\ Where /\ [Next]_vars => RaceFits'
<1> SUFFICES ASSUME TypeOK, Where, [Next]_vars PROVE RaceFits'
  OBVIOUS
<1> USE DEF race, RaceFits, Over
<1>0. /\ RaceFits /\ stage \in 1..20
      /\ \A s \in 1..20 : Walk[s] # "CANCELLED"
      /\ "CANCELLED" \in Terminal
  BY WalkInjective DEF TypeOK, Where, Terminal
<1>1. CASE WaveEnter
  BY <1>0, <1>1 DEF WaveEnter, Transit, LookAtFlag, Passes, Arrive, Overtake, HasRead
<1>2. CASE Enter
  BY <1>0, <1>2 DEF Enter, EnterState, Transit, LookAtFlag, Passes, Arrive, Overtake, HasRead
<1>3. CASE ReplanEnter
  BY <1>0, <1>3 DEF ReplanEnter, EnterState, Transit, LookAtFlag, Passes, Arrive, Overtake,
     HasRead
<1>4. CASE Terminate
  BY <1>0, <1>4 DEF Terminate, LookAtFlag, Passes, Arrive, Overtake, HasRead
<1>5. CASE ForcePartial
  BY <1>0, <1>5 DEF ForcePartial, LookAtFlag, Passes, Arrive, Overtake, HasRead
<1>6. CASE Fail
  BY <1>0, <1>6 DEF Fail, LookAtFlag, Passes, Overtake, HasRead
<1>7. CASE Cancel \/ CancelLooks
  BY <1>0, <1>7 DEF Cancel, CancelLooks, HasRead, disk, self
<1>8. CASE CancelWrites
  <2>1. /\ inside' = inside /\ pc' = pc /\ stage' = stage /\ state' = "CANCELLED"
        /\ request' = "none"
    BY <1>8 DEF CancelWrites, self
  <2>2. "none" \notin HasRead
    BY DEF HasRead
  <2> QED
    BY <1>0, <2>1, <2>2
<1>9. CASE Crash \/ Resume
  BY <1>0, <1>9 DEF Crash, Resume, Forgets, HasRead, disk
<1>10. CASE UNCHANGED vars
  BY <1>0, <1>10 DEF vars, disk, self
<1>11. CASE ~(\/ WaveEnter \/ Enter \/ ReplanEnter \/ Terminate \/ ForcePartial \/ Fail
              \/ Cancel \/ CancelLooks \/ CancelWrites \/ Crash \/ Resume \/ UNCHANGED vars)
  <2>1. /\ pc \notin {"wave", "enter", "detour", "replan", "rediscover", "terminate",
                      "partial", "fail"}
        /\ UNCHANGED <<race, state>>
    BY <1>11 DEF Next, WorkerStep, CancelStep, disk, Open, EnsureReference, WaveWork,
       WaveMark, RoundHead, Pick, Handle, WriteRow, HandlerDone, HandlerRaises, Detour,
       FinishStage, Judge, Compile, ResetSteps, FinishReplan, NextRound, Salvage,
       SalvageRaises
  <2> QED
    BY <1>0, <2>1
<1> QED
  BY <1>1, <1>2, <1>3, <1>4, <1>5, <1>6, <1>7, <1>8, <1>9, <1>10, <1>11

LEMMA NextIs == Where /\ [Next]_vars => Steps
<1> SUFFICES ASSUME Where, [Next]_vars PROVE Steps
  OBVIOUS
<1> USE DEF Apart, Moved, EnterMoves, Steps
<1>0. RaceFits
  BY DEF Where
<1>1. ASSUME LookAtFlag, Apart
      PROVE  Still \/ (pc' = "gone" /\ UNCHANGED <<state, asked>>)
  BY <1>1 DEF LookAtFlag, Still, disk, history
<1>2. \A target, there : Transit(target, there) =>
          LookAtFlag \/ (inside /\ Moved(target, there))
  BY DEF Transit, Arrive
<1>3. CASE WaveEnter
  <2>1. \/ state = Walk[stage] /\ Passes("wavework")
        \/ LookAtFlag /\ state # Walk[stage]
        \/ inside /\ Moved(Walk[stage], "wavework")
    BY <1>2, <1>3 DEF WaveEnter, Transit, LookAtFlag
  <2> QED
    BY <1>0, <1>1, <1>3, <2>1 DEF WaveEnter, WaveEnters, Passes, RaceFits
<1>4. CASE Enter
  <2>1. ASSUME NEW target, NEW there, EnterState(target, there), inside => state # target
        PROVE  (LookAtFlag /\ state # target) \/ EnterMoves(target, there)
    BY <1>2, <2>1 DEF EnterState, Transit, LookAtFlag, Passes
  <2> QED
    BY <1>0, <1>1, <1>4, <2>1 DEF Enter, Enters, RaceFits
<1>5. CASE ReplanEnter
  <2>1. ASSUME NEW target, NEW there, EnterState(target, there), inside => state # target
        PROVE  (LookAtFlag /\ state # target) \/ EnterMoves(target, there)
    BY <1>2, <2>1 DEF EnterState, Transit, LookAtFlag, Passes
  <2> QED
    BY <1>0, <1>1, <1>5, <2>1 DEF ReplanEnter, ReplanEnters, RaceFits
<1>6. CASE Terminate
  <2>1. \/ LookAtFlag
        \/ state \in Terminal /\ Passes("gone")
        \/ \E verdict \in Verdicts : Moved(verdict, "gone")
    BY <1>6 DEF Terminate, Arrive
  <2>2. pc = "terminate" /\ Apart
    BY <1>6 DEF Terminate
  <2> QED
    BY <1>1, <2>1, <2>2 DEF Terminates, Passes
<1>7. CASE ForcePartial
  BY <1>1, <1>7 DEF ForcePartial, ForcesPartial, Arrive, Passes
<1>8. CASE Fail
  BY <1>1, <1>8 DEF Fail, Fails, Passes
<1>9. CASE Cancel \/ CancelLooks
  BY <1>9 DEF Cancel, CancelLooks, Still, self
<1>10. CASE CancelWrites
  BY <1>0, <1>10 DEF CancelWrites, Cancels, RaceFits
<1>11. CASE UNCHANGED vars
  BY <1>11 DEF vars, Still, self
<1> QED
  BY <1>3, <1>4, <1>5, <1>6, <1>7, <1>8, <1>9, <1>10, <1>11
     DEF Next, WorkerStep, CancelStep

\* The flag and the race keep their kinds.
LEMMA RaceTypes ==
    TypeOK /\ [Next]_vars =>
        /\ {flag', inside', beaten'} \subseteq BOOLEAN
        /\ request' \in {"none", "flagged", "here", "elsewhere"}
<1> SUFFICES ASSUME TypeOK, [Next]_vars
             PROVE  /\ {flag', inside', beaten'} \subseteq BOOLEAN
                    /\ request' \in {"none", "flagged", "here", "elsewhere"}
  OBVIOUS
<1> USE DEF race
<1>0. /\ {flag, inside, beaten} \subseteq BOOLEAN
      /\ request \in {"none", "flagged", "here", "elsewhere"}
  BY DEF TypeOK
<1>1. CASE WaveEnter \/ Enter \/ ReplanEnter \/ Terminate \/ ForcePartial \/ Fail
  BY <1>0, <1>1 DEF WaveEnter, Enter, ReplanEnter, Terminate, ForcePartial, Fail, EnterState,
     Transit, LookAtFlag, Passes, Arrive, Overtake
<1>2. CASE Cancel \/ CancelStep
  BY <1>0, <1>2 DEF Cancel, CancelStep, CancelLooks, CancelWrites, self
<1>3. CASE Crash \/ Resume
  BY <1>0, <1>3 DEF Crash, Resume, Forgets
<1>4. CASE ~(\/ WaveEnter \/ Enter \/ ReplanEnter \/ Terminate \/ ForcePartial \/ Fail
             \/ Cancel \/ CancelStep \/ Crash \/ Resume)
  <2>1. UNCHANGED <<flag, race>>
    BY <1>4 DEF Next, WorkerStep, vars, self, Open, EnsureReference, WaveWork, WaveMark,
       RoundHead, Pick, Handle, WriteRow, HandlerDone, HandlerRaises, Detour, FinishStage,
       Judge, Compile, ResetSteps, FinishReplan, NextRound, Salvage, SalvageRaises
  <2> QED
    BY <1>0, <2>1
<1> QED
  BY <1>1, <1>2, <1>3, <1>4

\* The state stays one of States.
LEMMA StateType == TypeOK /\ [Next]_vars => state' \in States
<1> SUFFICES ASSUME TypeOK, [Next]_vars PROVE state' \in States
  OBVIOUS
<1>0. /\ Terminal \subseteq States /\ state \in States /\ stage \in 1..20
      /\ \A i \in 1..20 : Walk[i] \in States
      /\ {"GAP_ANALYSIS", "REPLANNING", "DISCOVERING", "PARTIAL", "FAILED", "CANCELLED",
          "COMPLETE", "BLOCKED"} \subseteq States
  BY WalkNames, WalkInjective DEF TypeOK, States, Terminal
<1> USE DEF Transit, LookAtFlag, Passes, Arrive
<1>1. CASE Terminate
  <2>1. \A v \in Verdicts : v \in {"COMPLETE", "PARTIAL", "BLOCKED"}
    BY VerdictsAre DEF TypeOK
  <2> QED
    BY <1>0, <1>1, <2>1 DEF Terminate
<1>2. CASE WaveEnter \/ Enter \/ ReplanEnter
  BY <1>0, <1>2 DEF WaveEnter, Enter, ReplanEnter, EnterState
<1>3. CASE ForcePartial \/ Fail \/ CancelWrites
  BY <1>0, <1>3 DEF ForcePartial, Fail, CancelWrites
<1>4. CASE ~(\/ Terminate \/ WaveEnter \/ Enter \/ ReplanEnter \/ ForcePartial \/ Fail
             \/ CancelWrites)
  <2>1. state' = state
    BY <1>4 DEF Next, WorkerStep, CancelStep, vars, disk, Open, EnsureReference, WaveWork,
       WaveMark, RoundHead, Pick, Handle, WriteRow, HandlerDone, HandlerRaises, Detour,
       FinishStage, Judge, Compile, ResetSteps, FinishReplan, NextRound, Salvage,
       SalvageRaises, Cancel, CancelLooks, Crash, Resume
  <2> QED
    BY <1>0, <2>1
<1> QED
  BY <1>1, <1>2, <1>3, <1>4

\* The next stage is the first of those that remain.
LEMMA UpcomingIsFirst ==
    ASSUME Remaining # {}
    PROVE  /\ Upcoming \in Remaining /\ Remaining \subseteq Stages
           /\ \A s \in Remaining : Upcoming <= s
<1> DEFINE R == Remaining
<1>1. R \subseteq 8..19
  BY DEF Remaining, Sequence, Stages, MatchStages
<1> HIDE DEF R
<1>2. \E s \in R : \A r \in R : s <= r
  <2>1. R # {}
    BY DEF R
  <2>2. CASE R \cap 8..11 # {}
    BY <1>1, <2>2
  <2>3. CASE R \cap 8..11 = {} /\ R \cap 12..15 # {}
    BY <1>1, <2>3
  <2>4. CASE R \cap 8..15 = {}
    <3>1. R \subseteq 16..19
      BY <1>1, <2>4
    <3>2. CASE 16 \in R \/ 17 \in R
      BY <3>1, <3>2
    <3>3. CASE 16 \notin R /\ 17 \notin R
      <4>1. R \subseteq 18..19
        BY <3>1, <3>3
      <4>2. CASE 18 \in R
        BY <4>1, <4>2
      <4>3. CASE 18 \notin R
        <5>1. \A r \in R : r = 19
          BY <4>1, <4>3
        <5>2. 19 \in R
          BY <2>1, <5>1
        <5> QED
          BY <5>1, <5>2
      <4> QED
        BY <4>2, <4>3
    <3> QED
      BY <3>2, <3>3
  <2> QED
    BY <1>1, <2>2, <2>3, <2>4
<1> QED
  BY <1>1, <1>2 DEF Upcoming, R, Stages

LEMMA TypeStep == TypeOK /\ Where /\ [Next]_vars => TypeOK'
<1> SUFFICES ASSUME TypeOK, Where, [Next]_vars PROVE TypeOK'
  OBVIOUS
<1> USE DEF Apart, disk, self, history, TypeOK, PCs, Stages
<1>m. Steps
  BY NextIs
<1>0. /\ state' \in States
      /\ {flag', inside', beaten'} \subseteq BOOLEAN
      /\ request' \in {"none", "flagged", "here", "elsewhere"}
      /\ MaxRounds \in Nat /\ MaxWaves \in Nat \ {0}
      /\ MaxCrashes \in Nat /\ MaxResumes \in Nat
  BY StateType, RaceTypes, RoundsAssumption, LivesAssumption
<1>1. CASE Open
  BY <1>1, <1>0 DEF Open
<1>2. CASE EnsureReference
  BY <1>2, <1>0 DEF EnsureReference
<1>3. CASE WaveEnters
  BY <1>3, <1>0 DEF WaveEnters, Moved
<1>4. CASE WaveWork
  BY <1>4, <1>0 DEF WaveWork
<1>5. CASE WaveMark
  <2>1. Walk[stage] \in States /\ stage \in 2..7 /\ (Walk[stage] = "PLANNING_QUERIES" <=> stage = 7)
    BY <1>5, WalkInjective, StageNames DEF WaveMark, Where
  <2>2. Marked \subseteq States
    BY <2>1 DEF Marked
  <2> QED
    BY <1>5, <1>0, <2>1, <2>2 DEF WaveMark
<1>6. CASE RoundHead
  BY <1>6, <1>0 DEF RoundHead
<1>7. CASE Pick
  <2>1. ~PipelineDone => Upcoming \in Stages
    BY UpcomingIsFirst DEF PipelineDone
  <2>2. pc' \in PCs
    BY <1>7 DEF Pick
  <2>3. stage' \in 1..20 /\ begun' \subseteq Stages
    <3>1. CASE PipelineDone
      BY <1>7, <3>1 DEF Pick
    <3>2. CASE ~PipelineDone
      <4>1. begun' = begun \cup {Upcoming}
        BY <1>7, <3>2 DEF Pick
      <4>2. stage' \in {stage, 19, Upcoming}
        BY <1>7, <3>2 DEF Pick
      <4>3. Upcoming \in 8..19
        BY <2>1, <3>2
      <4> QED
        BY <4>1, <4>2, <4>3
    <3> QED
      BY <3>1, <3>2
  <2> HIDE DEF PCs
  <2> QED
    BY <1>7, <1>0, <2>2, <2>3 DEF Pick
<1>8. CASE Enters
  BY <1>8, <1>0 DEF Enters, EnterMoves, Moved
<1>9. CASE Handle
  <2>1. todo' \subseteq Cands
    BY <1>9 DEF Handle, ToDo, ToRank, ToPublish
  <2>2. lanes' \subseteq {"discovery", "routing"}
    BY <1>9 DEF Handle
  <2>3. cands' \subseteq Cands /\ pc' = "work"
    BY <1>9 DEF Handle
  <2> QED
    BY <1>9, <1>0, <2>1, <2>2, <2>3 DEF Handle
<1>10. ASSUME NEW c \in Cands, WriteRow(c) PROVE TypeOK'
  BY <1>10, <1>0 DEF WriteRow
<1>11. CASE HandlerDone
  <2>1. coverage' \in {"none", "answered", "partly", "blocked"}
    BY <1>11 DEF HandlerDone, Fallback
  <2>2. searched' \in 0..MaxWaves /\ lanes' \subseteq {"discovery", "routing"}
    BY <1>11 DEF HandlerDone
  <2>3. pc' = "finish"
    BY <1>11 DEF HandlerDone
  <2> QED
    BY <1>11, <1>0, <2>1, <2>2, <2>3 DEF HandlerDone
<1>12. CASE HandlerRaises
  BY <1>12, <1>0 DEF HandlerRaises
<1>13. CASE Detour
  <2>1. completed' \subseteq States
    BY <1>13, WalkInjective, WalkNames DEF Detour, Marked
  <2> QED
    BY <1>13, <1>0, <2>1 DEF Detour
<1>14. CASE FinishStage
  <2>1. completed' \subseteq States
    BY <1>14, WalkInjective, WalkNames DEF FinishStage, Marked
  <2>2. runs' \in [Stages -> Nat]
    BY <1>14 DEF FinishStage, Where
  <2> QED
    BY <1>14, <1>0, <2>1, <2>2 DEF FinishStage
<1>15. CASE Judge
  BY <1>15, <1>0 DEF Judge
<1>16. CASE Compile
  BY <1>16, <1>0 DEF Compile
<1>17. CASE ReplanEnters
  BY <1>17, <1>0 DEF ReplanEnters, EnterMoves, Moved
<1>18. CASE ResetSteps
  BY <1>18, <1>0 DEF ResetSteps
<1>19. CASE FinishReplan
  <2>1. completed' \subseteq States
    BY <1>19, WalkInjective, WalkNames DEF FinishReplan, Marked
  <2> QED
    BY <1>19, <1>0, <2>1 DEF FinishReplan
<1>20. CASE NextRound
  BY <1>20, <1>0 DEF NextRound
<1>21. CASE Terminates
  BY <1>21, <1>0 DEF Terminates, Moved
<1>22. CASE Salvage
  <2>1. todo' \subseteq Cands
    BY <1>22 DEF Salvage, ToRank, ToPublish
  <2> QED
    BY <1>22, <1>0, <2>1 DEF Salvage
<1>23. CASE SalvageRaises
  BY <1>23, <1>0 DEF SalvageRaises
<1>24. CASE ForcesPartial
  BY <1>24, <1>0 DEF ForcesPartial
<1>25. CASE Fails
  BY <1>25, <1>0 DEF Fails
<1>26. CASE Cancels
  BY <1>26, <1>0 DEF Cancels
<1>27. CASE Crash
  BY <1>27, <1>0 DEF Crash, Forgets
<1>28. CASE Resume
  <2>1. resumes' \in 0..MaxResumes
    BY <1>28, <1>0 DEF Resume
  <2>2. flag' \in BOOLEAN /\ engine' \in BOOLEAN
    BY <1>28 DEF Resume, Forgets
  <2> QED
    BY <1>28, <1>0, <2>1, <2>2 DEF Resume, Forgets
<1>29. CASE Still
  BY <1>29, <1>0 DEF Still
<1> QED
  BY <1>1, <1>2, <1>3, <1>4, <1>5, <1>6, <1>7, <1>8, <1>9, <1>10, <1>11, <1>12, <1>13,
     <1>14, <1>15, <1>16, <1>17, <1>18, <1>19, <1>20, <1>21, <1>22, <1>23, <1>24,
     <1>25, <1>26, <1>27, <1>28, <1>29, <1>m DEF Steps

LEMMA LanesOf == TypeOK /\ Where /\ [Next]_vars => (mode' = "api" => "routing" \notin lanes')
<1> SUFFICES ASSUME TypeOK, Where, [Next]_vars, mode' = "api" PROVE "routing" \notin lanes'
  OBVIOUS
<1> USE DEF Apart, disk, self, history
<1>m. Steps
  BY NextIs
<1>1. CASE Open
  BY <1>1 DEF Open
<1>2. CASE Crash \/ Resume
  BY <1>2 DEF Crash, Resume, Forgets
<1>3. CASE Handle
  BY <1>3 DEF Handle, Where
<1>4. CASE HandlerDone
  BY <1>4 DEF HandlerDone, Where
<1>5. CASE ~(Open \/ Crash \/ Resume \/ Handle \/ HandlerDone)
  <2>1. mode' = mode /\ lanes' = lanes
    BY <1>5, <1>m DEF Steps, Still, EnsureReference, WaveEnters, WaveWork, WaveMark,
       RoundHead, Pick, Enters, WriteRow, HandlerRaises, Detour, FinishStage, Judge, Compile,
       ReplanEnters, ResetSteps, FinishReplan, NextRound, Terminates, Salvage, SalvageRaises,
       ForcesPartial, Fails, Cancels
  <2> QED
    BY <2>1 DEF Where
<1> QED
  BY <1>1, <1>2, <1>3, <1>4, <1>5

LEMMA WhereStep == TypeOK /\ Where /\ [Next]_vars => Where'
<1> SUFFICES ASSUME TypeOK, Where, [Next]_vars PROVE Where'
  OBVIOUS
<1> USE DEF Apart, disk, self, history, Where, Over, Stages
<1>m. Steps
  BY NextIs
<1>0. /\ RaceFits'
      /\ "routing" \in lanes' => mode' # "api"
      /\ MaxRounds \in Nat \ {0}
      /\ \A s \in 1..20 : Walk[s] \notin Terminal
      /\ {"GAP_ANALYSIS", "REPLANNING", "DISCOVERING"} \cap Terminal = {}
      /\ \A s \in Terminal : \A t : ~IsLegal(s, t)
      /\ \A s \in 2..7 : Walk[s] # "PLANNING_QUERIES" => s # 7
  BY RaceStep, LanesOf, RoundsAssumption, WalkInjective, WalkNames DEF Terminal, IsLegal
<1>1. CASE Open
  BY <1>1, <1>0 DEF TypeOK, Open
<1>2. CASE EnsureReference
  BY <1>2, <1>0 DEF TypeOK, EnsureReference
<1>3. CASE WaveEnters
  BY <1>3, <1>0 DEF TypeOK, WaveEnters, Moved
<1>4. CASE WaveWork
  BY <1>4, <1>0 DEF TypeOK, WaveWork
<1>5. CASE WaveMark
  BY <1>5, <1>0 DEF TypeOK, WaveMark
<1>6. CASE RoundHead
  BY <1>6, <1>0 DEF TypeOK, RoundHead
<1>7. CASE Pick
  <2>1. ~PipelineDone => Upcoming \in 8..19
    BY UpcomingIsFirst DEF PipelineDone
  <2>2. pc' \in {"judge", "gone", "salvage", "detour", "enter"}
    BY <1>7 DEF Pick
  <2>3. (pc' = "enter" => stage' \in 8..19) /\ (pc' = "detour" => stage' = 19)
    BY <1>7, <2>1 DEF Pick
  <2>4. state \in Terminal \ {"CANCELLED"} => pc \in {"gone", "open"}
    OBVIOUS
  <2> QED
    BY <1>7, <1>0, <2>2, <2>3, <2>4 DEF Pick
<1>8. CASE Enters
  BY <1>8, <1>0 DEF TypeOK, Enters, EnterMoves, Moved
<1>9. CASE Handle
  BY <1>9, <1>0 DEF TypeOK, Handle
<1>10. ASSUME NEW c \in Cands, WriteRow(c) PROVE Where'
  BY <1>10, <1>0 DEF TypeOK, WriteRow
<1>11. CASE HandlerDone
  BY <1>11, <1>0 DEF TypeOK, HandlerDone
<1>12. CASE HandlerRaises
  BY <1>12, <1>0 DEF TypeOK, HandlerRaises
<1>13. CASE Detour
  BY <1>13, <1>0 DEF TypeOK, Detour
<1>14. CASE FinishStage
  BY <1>14, <1>0 DEF TypeOK, FinishStage
<1>15. CASE Judge
  BY <1>15, <1>0 DEF TypeOK, Judge
<1>16. CASE Compile
  BY <1>16, <1>0 DEF TypeOK, Compile
<1>17. CASE ReplanEnters
  BY <1>17, <1>0 DEF TypeOK, ReplanEnters, EnterMoves, Moved
<1>18. CASE ResetSteps
  BY <1>18, <1>0 DEF TypeOK, ResetSteps
<1>19. CASE FinishReplan
  BY <1>19, <1>0 DEF TypeOK, FinishReplan
<1>20. CASE NextRound
  BY <1>20, <1>0 DEF TypeOK, NextRound
<1>21. CASE Terminates
  BY <1>21, <1>0 DEF TypeOK, Terminates, Moved
<1>22. CASE Salvage
  BY <1>22, <1>0 DEF TypeOK, Salvage
<1>23. CASE SalvageRaises
  BY <1>23, <1>0 DEF TypeOK, SalvageRaises
<1>24. CASE ForcesPartial
  BY <1>24, <1>0 DEF TypeOK, ForcesPartial
<1>25. CASE Fails
  BY <1>25, <1>0 DEF TypeOK, Fails
<1>26. CASE Cancels
  <2>1. state' = "CANCELLED" /\ "CANCELLED" \in Terminal
    BY <1>26 DEF Cancels, Terminal
  <2> QED
    BY <1>26, <1>0, <2>1 DEF Cancels
<1>27. CASE Crash
  BY <1>27, <1>0 DEF TypeOK, Crash, Forgets
<1>28. CASE Resume
  BY <1>28, <1>0 DEF TypeOK, Resume, Forgets
<1>29. CASE Still
  BY <1>29, <1>0 DEF Still
<1> QED
  BY <1>1, <1>2, <1>3, <1>4, <1>5, <1>6, <1>7, <1>8, <1>9, <1>10, <1>11, <1>12, <1>13,
     <1>14, <1>15, <1>16, <1>17, <1>18, <1>19, <1>20, <1>21, <1>22, <1>23, <1>24,
     <1>25, <1>26, <1>27, <1>28, <1>29, <1>m DEF Steps

\* Type correctness: every variable keeps its kind in every behaviour.
THEOREM OrchestratorTypes == Spec => []TypeOK
<1>1. TypeOK /\ Where /\ [Next]_vars => (TypeOK /\ Where)'
  BY TypeStep, WhereStep
<1> QED
  BY Init0, <1>1, PTL DEF Spec

-------------------------------------------------------------------------------
(* Nothing is decided or published twice. *)

LEMMA OnceInit == Init => OnceIInv
BY DEF Init, OnceIInv, PublishedOnce, ToWriteOnce

\* The handler and the salvage look for rows before they take up theirs, and a row is
\* struck from the list as it is written.
LEMMA OnceStep == TypeOK /\ Where /\ OnceIInv /\ [Next]_vars => OnceIInv'
<1> SUFFICES ASSUME TypeOK, Where, OnceIInv, [Next]_vars PROVE OnceIInv'
  OBVIOUS
<1> USE DEF Apart, disk, self, history, OnceIInv, PublishedOnce, ToWriteOnce
<1>m. Steps
  BY NextIs
<1>1. CASE Open
  BY <1>1 DEF Open
<1>2. CASE EnsureReference
  BY <1>2 DEF EnsureReference
<1>3. CASE WaveEnters
  BY <1>3 DEF WaveEnters, Moved
<1>4. CASE WaveWork
  BY <1>4 DEF WaveWork
<1>5. CASE WaveMark
  BY <1>5 DEF WaveMark
<1>6. CASE RoundHead
  BY <1>6 DEF RoundHead
<1>7. CASE Pick
  BY <1>7 DEF Pick
<1>8. CASE Enters
  BY <1>8 DEF Enters, EnterMoves, Moved
<1>9. CASE Handle
  <2>1. stage = 17 => todo' = ToRank
    BY <1>9, StageNames DEF Handle, ToDo, TypeOK
  <2>2. stage = 18 => todo' = ToPublish
    BY <1>9, StageNames DEF Handle, ToDo, TypeOK
  <2>3. UNCHANGED <<decided, shown, stage>>
    BY <1>9 DEF Handle
  <2>4. todo' \subseteq Cands
    BY TypeStep DEF TypeOK
  <2> QED
    BY <2>1, <2>2, <2>3, <2>4 DEF ToRank, ToPublish
<1>10. ASSUME NEW c \in Cands, WriteRow(c) PROVE OnceIInv'
  <2>1. pc' = pc /\ stage' = stage /\ todo' = todo \ {c} /\ c \in todo
        /\ pc \in {"work", "saverank", "savepublish"}
    BY <1>10 DEF WriteRow
  <2>2. /\ Walk[stage] = "RANKING" <=> stage = 17
        /\ Walk[stage] = "PUBLISHING" <=> stage = 18
    BY StageNames DEF TypeOK
  <2>3. /\ stage = 17 => decided[c] = 0 /\ decided' = [decided EXCEPT ![c] = @ + 1]
        /\ stage # 17 => decided' = decided
    BY <1>10, <2>1, <2>2 DEF WriteRow
  <2>4. /\ stage = 18 => shown[c] = 0 /\ shown' = [shown EXCEPT ![c] = @ + 1]
        /\ stage # 18 => shown' = shown
    BY <1>10, <2>1, <2>2 DEF WriteRow
  <2> QED
    BY <2>1, <2>3, <2>4 DEF TypeOK
<1>11. CASE HandlerDone
  BY <1>11 DEF HandlerDone
<1>12. CASE HandlerRaises
  BY <1>12 DEF HandlerRaises
<1>13. CASE Detour
  BY <1>13 DEF Detour
<1>14. CASE FinishStage
  BY <1>14 DEF FinishStage
<1>15. CASE Judge
  BY <1>15 DEF Judge
<1>16. CASE Compile
  BY <1>16 DEF Compile
<1>17. CASE ReplanEnters
  BY <1>17 DEF ReplanEnters, EnterMoves, Moved
<1>18. CASE ResetSteps
  BY <1>18 DEF ResetSteps
<1>19. CASE FinishReplan
  BY <1>19 DEF FinishReplan
<1>20. CASE NextRound
  BY <1>20 DEF NextRound
<1>21. CASE Terminates
  BY <1>21 DEF Terminates, Moved
<1>22. CASE Salvage
  <2>1. UNCHANGED <<decided, shown>>
    BY <1>22 DEF Salvage
  <2>2. todo' \subseteq Cands
    BY TypeStep DEF TypeOK
  <2>3. \/ pc' = "saverank" /\ stage' = 17 /\ todo' = ToRank
        \/ pc' = "savepublish" /\ stage' = 18 /\ todo' = ToPublish
        \/ pc' = "partial"
    BY <1>22 DEF Salvage
  <2> QED
    BY <2>1, <2>2, <2>3 DEF ToRank, ToPublish
<1>23. CASE SalvageRaises
  BY <1>23 DEF SalvageRaises
<1>24. CASE ForcesPartial
  BY <1>24 DEF ForcesPartial
<1>25. CASE Fails
  BY <1>25 DEF Fails
<1>26. CASE Cancels
  BY <1>26 DEF Cancels
<1>27. CASE Crash
  BY <1>27 DEF Crash, Forgets
<1>28. CASE Resume
  BY <1>28 DEF Resume, Forgets
<1>29. CASE Still
  BY <1>29 DEF Still
<1> QED
  BY <1>1, <1>2, <1>3, <1>4, <1>5, <1>6, <1>7, <1>8, <1>9, <1>10, <1>11, <1>12, <1>13,
     <1>14, <1>15, <1>16, <1>17, <1>18, <1>19, <1>20, <1>21, <1>22, <1>23, <1>24,
     <1>25, <1>26, <1>27, <1>28, <1>29, <1>m DEF Steps

\* Whatever crashes, resumes and salvages there are, no candidate has a second decision
\* or a second result.
THEOREM NothingTwice == Spec => []PublishedOnce
<1>1. TypeOK /\ Where /\ OnceIInv /\ [Next]_vars => (TypeOK /\ Where /\ OnceIInv)'
  BY TypeStep, WhereStep, OnceStep
<1>2. OnceIInv => PublishedOnce
  BY DEF OnceIInv
<1> QED
  BY Init0, OnceInit, <1>1, <1>2, PTL DEF Spec

-------------------------------------------------------------------------------
(* The state and the marked steps fit each other, and what is FAILED is explained. *)

\* An ended campaign stays as it ended.
LEMMA OverStays == TypeOK /\ Where /\ Over /\ [Next]_vars => Over' /\ state' = state
<1> SUFFICES ASSUME TypeOK, Where, Over, [Next]_vars PROVE Over' /\ state' = state
  OBVIOUS
<1> USE DEF Apart, disk, self, history, Over
<1>m. Steps
  BY NextIs
<1>0. \A t : ~Legal(t)
  BY DEF Legal, IsLegal
<1>1. CASE WaveEnters \/ Enters \/ ReplanEnters \/ Terminates \/ ForcesPartial \/ Fails
  BY <1>0, <1>1 DEF WaveEnters, Enters, ReplanEnters, Terminates, ForcesPartial, Fails,
     EnterMoves, Moved
<1>2. CASE ~(WaveEnters \/ Enters \/ ReplanEnters \/ Terminates \/ ForcesPartial \/ Fails)
  BY <1>2, <1>m DEF Steps, Still, Open, EnsureReference, WaveWork, WaveMark,
     RoundHead, Pick, Handle, WriteRow, HandlerDone, HandlerRaises, Detour, FinishStage,
     Judge, Compile, ResetSteps, FinishReplan, NextRound, Salvage, SalvageRaises, Crash,
     Resume, Forgets, Cancels
<1> QED
  BY <1>1, <1>2

\* The stage that Pick takes up, whatever was on disk.
LEMMA NextStageFits ==
    ASSUME TypeOK, Where, DiskFits, BegunIsDone, DetourKnown, Relies, ~Over, pc = "pick"
    PROVE  /\ PipelineDone => state \in From(19) /\ MarkedBefore(20)
           /\ ~PipelineDone =>
                 /\ Upcoming \in Stages
                 /\ EnterFits(Upcoming)
                 /\ Upcoming \in MatchStages =>
                       IF state = "BROAD_RETRIEVAL" THEN Ready(14)
                       ELSE state \in From(14) \ From(19) \/ Detoured
<1> DEFINE n == Upcoming
<1>0. /\ \A s \in Stages : s \in Remaining <=>
            ~Done(s) /\ (s \in MatchStages => cands # {})
      /\ Remaining \subseteq Stages
  BY DEF Remaining, Sequence, Done, Stages, MatchStages
<1>1. state \in From(7) /\ (Detoured => resumes > 1)
  BY DEF Relies, DetourKnown, TypeOK
<1>2. \/ state = Walk[7] /\ NoneMarkedFrom(8)
      \/ \E m \in Stages : Inside(m)
      \/ Again
      \/ state = "REPLANNING" /\ (MarkedBefore(20) \/ NoneMarkedFrom(8))
      \/ Detoured
  <2>1. state \in {Walk[i] : i \in 1..7} => state = Walk[7]
    BY <1>1, FromIs
  <2> QED
    BY <2>1 DEF DiskFits
<1>3. 8 \in Stages /\ 8 \notin MatchStages /\ 19 \in Stages /\ 19 \notin MatchStages
      /\ MatchStages \subseteq Stages
  BY DEF Stages, MatchStages
<1>4. ASSUME PipelineDone PROVE state \in From(19) /\ MarkedBefore(20)
  <2>1. Remaining = {}
    <3>1. Remaining # {} => Done(Upcoming) \/ Upcoming \notin begun
      BY DEF BegunIsDone
    <3> QED
      BY <1>0, <1>4, <3>1, UpcomingIsFirst DEF PipelineDone, Over
  <2>2. \A s \in Stages : Done(s) \/ (s \in MatchStages /\ cands = {})
    BY <1>0, <2>1
  <2>3. MarkedBefore(20) /\ Done(8) /\ Done(19)
    BY <1>3, <2>2 DEF MarkedBefore, Stages
  <2>4. ~NoneMarkedFrom(8)
    BY <2>3 DEF NoneMarkedFrom
  <2>5. ~Detoured
    BY <1>3, <2>2 DEF Detoured, MatchStages, Stages
  <2>6. ASSUME NEW m \in Stages, Inside(m) PROVE state = Walk[19]
    <3>1. ~(m + 1 <= 19)
      BY <2>3, <2>6 DEF Inside, NoneMarkedFrom, Stages
    <3> QED
      BY <2>6, <3>1 DEF Inside, Stages
  <2>7. state = Walk[19] \/ state = "REPLANNING"
    BY <1>2, <2>4, <2>5, <2>6 DEF Again
  <2> QED
    BY <2>3, <2>7, FromIs, WalkNames
<1>5. ASSUME ~PipelineDone
      PROVE  /\ n \in Stages /\ EnterFits(n)
             /\ n \in MatchStages =>
                   IF state = "BROAD_RETRIEVAL" THEN Ready(14)
                   ELSE state \in From(14) \ From(19) \/ Detoured
  <2>1. /\ n \in Stages /\ ~Done(n) /\ (n \in MatchStages => cands # {})
        /\ \A s \in Stages : s < n => Done(s) \/ (s \in MatchStages /\ cands = {})
    <3>1. n \in Remaining /\ \A s \in Remaining : n <= s
      BY <1>5, UpcomingIsFirst DEF PipelineDone
    <3>2. n \in Stages
      BY <1>0, <3>1
    <3> QED
      BY <1>0, <3>1, <3>2 DEF Stages
  <2>2. n \in 8..19 /\ MarkedBefore(n)
    BY <2>1 DEF MarkedBefore, Stages
  <2>3. ASSUME NoneMarkedFrom(8) PROVE n = 8 /\ Ready(8)
    <3>1. ~Done(8)
      BY <2>3 DEF NoneMarkedFrom
    <3>2. n = 8
      BY <1>3, <2>1, <2>2, <3>1
    <3> QED
      BY <1>3, <2>2, <2>3, <3>2 DEF Ready
  <2> HIDE DEF n
  <2>4. CASE state = Walk[7] /\ NoneMarkedFrom(8)
    <3>1. IsLegal(Walk[7], Walk[7 + 1])
      BY LegalHere
    <3> QED
      BY <1>3, <2>1, <2>3, <2>4, <3>1 DEF EnterFits
  <2>5. ASSUME NEW m \in Stages, Inside(m)
        PROVE  /\ Ready(n) /\ (n = m \/ n = m + 1 \/ (m = 13 /\ n = 19))
               /\ m = 13 /\ n \in MatchStages => n = 14
    <3>0. m \in 8..19 /\ NoneMarkedFrom(m + 1) /\ MarkedBefore(m)
          /\ (m \in MatchStages => cands # {})
      BY <2>5 DEF Inside, Stages
    <3>1. n >= m
      BY <2>1, <2>2, <3>0 DEF MarkedBefore
    <3>2. NoneMarkedFrom(n)
      BY <2>1, <2>2, <3>0, <3>1 DEF NoneMarkedFrom
    <3>3. ASSUME n > m + 1 PROVE m = 13 /\ n = 19
      <4>1. m + 1 \in 8..19 /\ ~Done(m + 1)
        BY <2>2, <3>0, <3>3 DEF NoneMarkedFrom
      <4>2. m + 1 \in MatchStages /\ cands = {}
        BY <2>1, <2>2, <3>3, <4>1 DEF Stages
      <4>3. m \notin MatchStages /\ n \notin MatchStages
        BY <2>1, <3>0, <4>2
      <4> QED
        BY <2>2, <3>3, <3>0, <4>2, <4>3 DEF MatchStages
    <3>4. Ready(n)
      BY <2>1, <2>2, <3>2 DEF Ready
    <3> QED
      BY <2>2, <3>0, <3>1, <3>3, <3>4 DEF MatchStages
  <2>6. CASE \E m \in Stages : Inside(m)
    <3>1. PICK m \in Stages : Inside(m)
      BY <2>6
    <3>2. m \in 8..19 /\ state = Walk[m]
      BY <3>1 DEF Inside, Stages
    <3>3. state = Walk[n] \/ IsLegal(state, Walk[n])
      BY <2>5, <3>1, <3>2, LegalHere, WalkNames
    <3>4. EnterFits(n)
      BY <2>5, <3>1, <3>3 DEF EnterFits
    <3>5. ASSUME n \in MatchStages
          PROVE  IF state = "BROAD_RETRIEVAL" THEN Ready(14)
                 ELSE state \in From(14) \ From(19) \/ Detoured
      <4>1. n \in 14..18 /\ m >= 13 /\ m <= n
        BY <2>5, <3>1, <3>2, <3>5 DEF MatchStages
      <4>2. m = 13 <=> state = "BROAD_RETRIEVAL"
        BY <3>2, WalkNames, WalkInjective
      <4>3. state \notin From(19)
        BY <3>2, <4>1, FromIs
      <4> QED
        BY <2>5, <3>1, <3>2, <3>5, <4>1, <4>2, <4>3, FromIs
    <3> QED
      BY <2>1, <3>4, <3>5
  <2>7. CASE Again
    <3>1. n = 8 /\ state = "DISCOVERING" /\ waves > 1 /\ Walk[8] = "PLANNING_SOURCES"
      BY <2>3, <2>7, WalkNames DEF Again
    <3>2. Explained(Refusal(state, Walk[n], lanes))
      BY <3>1 DEF Explained, Refusal
    <3> QED
      BY <1>3, <2>1, <3>1, <3>2, IllegalHere DEF EnterFits
  <2>8. CASE state = "REPLANNING" /\ (MarkedBefore(20) \/ NoneMarkedFrom(8))
    <3>1. ~MarkedBefore(20)
      BY <2>1, <2>2 DEF MarkedBefore
    <3>2. n = 8 /\ Ready(8) /\ IsLegal(state, Walk[8])
      BY <2>3, <2>8, <3>1, LegalHere, WalkNames
    <3> QED
      BY <1>3, <2>1, <3>2 DEF EnterFits
  <2>9. CASE Detoured
    <3>1. n >= 14
      BY <2>1, <2>2, <2>9 DEF Detoured
    <3>2. n <= 14
      <4>1. 14 \in MatchStages /\ 14 \in Stages /\ ~Done(14) /\ cands # {}
        BY <2>9 DEF Detoured, MatchStages, Stages
      <4> QED
        BY <2>1, <2>2, <4>1
    <3>3. n = 14 /\ Walk[14] = "FINE_MATCHING" /\ state \in From(19) /\ resumes > 1
      BY <1>1, <2>2, <2>9, <3>1, <3>2, WalkNames DEF Detoured
    <3>4. state \in {"GAP_ANALYSIS", "REPLANNING"}
      BY <3>3, FromIs
    <3>5. Explained(Refusal(state, Walk[n], lanes))
      BY <3>3 DEF Explained, Refusal
    <3>6. EnterFits(n)
      BY <3>3, <3>4, <3>5, IllegalHere DEF EnterFits
    <3> QED
      BY <2>1, <2>9, <3>4, <3>6
  <2> QED
    BY <1>2, <2>4, <2>6, <2>7, <2>8, <2>9
<1> QED
  BY <1>4, <1>5

-------------------------------------------------------------------------------
(* One step of each part of the invariant. *)

\* What the predicates on the disk depend on.
LEMMA SameDisk ==
    ASSUME UNCHANGED <<state, completed, cands>>
    PROVE  /\ \A n : MarkedBefore(n)' <=> MarkedBefore(n)
           /\ \A n : NoneMarkedFrom(n)' <=> NoneMarkedFrom(n)
           /\ \A n : Ready(n)' <=> Ready(n)
           /\ \A n : Inside(n)' <=> Inside(n)
           /\ Detoured' <=> Detoured
<1>1. \A n : MarkedBefore(n)' <=> MarkedBefore(n)
  BY DEF MarkedBefore, Done
<1>2. \A n : NoneMarkedFrom(n)' <=> NoneMarkedFrom(n)
  BY DEF NoneMarkedFrom, Done
<1>3. \A n : Ready(n)' <=> Ready(n)
  BY <1>1, <1>2 DEF Ready
<1>4. \A n : Inside(n)' <=> Inside(n)
  BY <1>1, <1>2 DEF Inside
<1>5. Detoured' <=> Detoured
  BY DEF Detoured, Done
<1> QED
  BY <1>1, <1>2, <1>3, <1>4, <1>5

\* The stages this pipeline has taken up are marked, but for the last one.
LEMMA BegunStep ==
    TypeOK /\ Where /\ BegunIsDone /\ (Over \/ Relies) /\ [Next]_vars => BegunIsDone'
<1> SUFFICES ASSUME TypeOK, Where, BegunIsDone, Over \/ Relies, [Next]_vars PROVE BegunIsDone'
  OBVIOUS
<1> USE DEF Apart, disk, self, history, BegunIsDone, Done
<1>m. Steps
  BY NextIs
<1>1. CASE Open
  BY <1>1 DEF Open
<1>2. CASE EnsureReference
  BY <1>2 DEF EnsureReference
<1>3. CASE WaveEnters
  BY <1>3 DEF WaveEnters, Moved
<1>4. CASE WaveWork
  <2>1. stage = 7 => Walk[stage] = "PLANNING_QUERIES"
    BY WalkNames
  <2> QED
    BY <1>4, <2>1 DEF WaveWork
<1>5. CASE WaveMark
  <2>1. stage \in 2..7 /\ "PLANNING_QUERIES" \notin completed
    BY <1>5 DEF WaveMark, Where
  <2>2. state # "PLANNING_QUERIES" \/ stage = 7
    BY <1>5, <2>1, StageNames, WalkNames, WalkInjective DEF WaveMark, Relies, Over
  <2>3. Walk[stage] = "PLANNING_QUERIES" <=> stage = 7
    BY <2>1, StageNames
  <2>4. pc' = "wave" => stage # 7 /\ completed' = completed \cup {state, Walk[stage]}
    BY <1>5, <2>3 DEF WaveMark, Marked
  <2>5. pc' \in {"wave", "round"}
    BY <1>5 DEF WaveMark
  <2> QED
    BY <2>1, <2>2, <2>3, <2>4, <2>5
<1>6. CASE RoundHead
  BY <1>6 DEF RoundHead
<1>7. CASE Pick
  <2>1. pc' \in {"judge", "gone", "salvage", "detour", "enter"}
    BY <1>7 DEF Pick
  <2>2. pc' = "enter" => begun' = begun \cup {stage'}
    BY <1>7 DEF Pick
  <2>3. pc = "pick" /\ completed' = completed
    BY <1>7 DEF Pick
  <2> QED
    BY <2>1, <2>2, <2>3 DEF Done
<1>8. CASE Enters
  BY <1>8 DEF Enters, EnterMoves, Moved
<1>9. CASE Handle
  BY <1>9 DEF Handle
<1>10. ASSUME NEW c \in Cands, WriteRow(c) PROVE BegunIsDone'
  BY <1>10 DEF WriteRow
<1>11. CASE HandlerDone
  BY <1>11 DEF HandlerDone
<1>12. CASE HandlerRaises
  BY <1>12 DEF HandlerRaises
<1>13. CASE Detour
  BY <1>13 DEF Detour
<1>14. CASE FinishStage
  <2>1. /\ pc = "finish" /\ pc' = "pick" /\ begun' = begun
        /\ completed \subseteq completed' /\ Walk[stage] \in completed'
    BY <1>14 DEF FinishStage, Marked
  <2> QED
    BY <2>1 DEF Done
<1>15. CASE Judge
  BY <1>15 DEF Judge
<1>16. CASE Compile
  BY <1>16 DEF Compile
<1>17. CASE ReplanEnters
  BY <1>17 DEF ReplanEnters, EnterMoves, Moved
<1>18. CASE ResetSteps
  BY <1>18 DEF ResetSteps
<1>19. CASE FinishReplan
  BY <1>19 DEF FinishReplan
<1>20. CASE NextRound
  BY <1>20 DEF NextRound
<1>21. CASE Terminates
  BY <1>21 DEF Terminates, Moved
<1>22. CASE Salvage
  BY <1>22 DEF Salvage
<1>23. CASE SalvageRaises
  BY <1>23 DEF SalvageRaises
<1>24. CASE ForcesPartial
  BY <1>24 DEF ForcesPartial
<1>25. CASE Fails
  BY <1>25 DEF Fails, Done
<1>26. CASE Cancels
  BY <1>26 DEF Cancels
<1>27. CASE Crash
  BY <1>27 DEF Crash, Forgets
<1>28. CASE Resume
  BY <1>28 DEF Resume, Forgets
<1>29. CASE Still
  BY <1>29 DEF Still
<1> QED
  BY <1>1, <1>2, <1>3, <1>4, <1>5, <1>6, <1>7, <1>8, <1>9, <1>10, <1>11, <1>12, <1>13,
     <1>14, <1>15, <1>16, <1>17, <1>18, <1>19, <1>20, <1>21, <1>22, <1>23, <1>24,
     <1>25, <1>26, <1>27, <1>28, <1>29, <1>m DEF Steps
\* A campaign past the reference wave has its queries, and stays past it.
LEMMA PlannedStep ==
    TypeOK /\ Where /\ Planned /\ BegunIsDone /\ (Over \/ Relies) /\ [Next]_vars => Planned'
<1> SUFFICES ASSUME TypeOK, Where, Planned, BegunIsDone, Over \/ Relies, [Next]_vars
             PROVE  Planned'
  OBVIOUS
<1> USE DEF Apart, disk, self, history, Planned
<1>m. Steps
  BY NextIs
<1>a. /\ Terminal \cap From(8) = {} /\ "PLANNING_QUERIES" \notin Terminal
      /\ {"GAP_ANALYSIS", "REPLANNING", "DISCOVERING"} \subseteq From(7)
      /\ "PLANNING_QUERIES" \notin {"GAP_ANALYSIS", "REPLANNING", "DISCOVERING"}
      /\ {"PARTIAL", "FAILED", "CANCELLED"} \subseteq Terminal
  BY FromIs, WalkNames DEF Terminal
<1>b. state' # state /\ pc \in {"enter", "detour"} => Relies
  BY OverStays
<1>c. UNCHANGED <<state, completed, waves>> => Planned'
  OBVIOUS
<1>1. CASE Open
  BY <1>1, <1>c DEF Open
<1>2. CASE EnsureReference
  BY <1>2, <1>c DEF EnsureReference
<1>3. CASE WaveEnters
  <2>1. "PLANNING_QUERIES" \notin completed /\ completed' = completed /\ waves' = waves
    BY <1>3 DEF WaveEnters, BegunIsDone
  <2>2. state' = state \/ (pc = "wave" /\ state' = Walk[stage])
    BY <1>3 DEF WaveEnters, Moved
  <2>3. pc = "wave" => Walk[stage] \notin From(8)
    BY FromIs DEF Where
  <2> QED
    BY <2>1, <2>2, <2>3
<1>4. CASE WaveWork
  <2>1. UNCHANGED <<state, completed>> /\ (waves' = 1 \/ waves' = waves)
    BY <1>4 DEF WaveWork
  <2> QED
    BY <2>1
<1>5. CASE WaveMark
  <2>1. stage \in 2..7 /\ UNCHANGED <<state, waves>>
        /\ completed' = completed \cup {state, Walk[stage]}
    BY <1>5 DEF WaveMark, Where, Marked
  <2>2. Over \/ state = Walk[stage]
    BY <1>5 DEF WaveMark, Relies
  <2>3. Walk[stage] = "PLANNING_QUERIES" <=> stage = 7
    BY <2>1, StageNames
  <2>4. stage = 7 => waves >= 1 /\ state \in From(7) \cup Terminal
    <3>1. Walk[7] \in From(7)
      BY FromIs
    <3> QED
      BY <1>5, <2>2, <3>1 DEF WaveMark, Over, BegunIsDone
  <2> QED
    BY <2>1, <2>2, <2>3, <2>4, <1>a DEF Over
<1>6. CASE RoundHead
  BY <1>6, <1>c DEF RoundHead
<1>7. CASE Pick
  BY <1>7, <1>c DEF Pick
<1>8. CASE Enters
  <2>1. completed' = completed /\ waves' = waves
    BY <1>8 DEF Enters
  <2>2. \/ state' = state
        \/ pc = "enter" /\ state' = Walk[stage]
        \/ pc = "detour" /\ state' = "GAP_ANALYSIS"
    BY <1>8 DEF Enters, EnterMoves, Moved
  <2>3. state' # state => waves >= 1
    <3>1. pc \in {"enter", "detour"} /\ Relies => waves >= 1
      BY DEF Relies
    <3> QED
      BY <2>2, <1>b, <3>1
  <2>4. state' # state => state' \in From(7)
    BY <2>2, FromIs DEF Where, Stages
  <2> QED
    BY <2>1, <2>3, <2>4
<1>9. CASE Handle
  BY <1>9, <1>c DEF Handle
<1>10. ASSUME NEW c \in Cands, WriteRow(c) PROVE Planned'
  BY <1>10, <1>c DEF WriteRow
<1>11. CASE HandlerDone
  BY <1>11, <1>c DEF HandlerDone
<1>12. CASE HandlerRaises
  BY <1>12, <1>c DEF HandlerRaises
<1>13. CASE Detour
  <2>1. /\ UNCHANGED <<state, waves>>
        /\ completed' = completed \cup {state, "GAP_ANALYSIS"}
    BY <1>13 DEF Detour
  <2>2. state # "PLANNING_QUERIES"
    BY <1>13, <1>a DEF Detour, Relies, Over
  <2> QED
    BY <2>1, <2>2, <1>a
<1>14. CASE FinishStage
  <2>1. UNCHANGED <<state, waves>> /\ completed' = completed \cup {state, Walk[stage]}
    BY <1>14 DEF FinishStage, Marked
  <2>2. Over \/ state = Walk[stage]
    BY <1>14 DEF FinishStage, Relies
  <2>3. stage \in 8..19
    BY <1>14 DEF FinishStage, Where, Stages
  <2>4. Walk[stage] # "PLANNING_QUERIES"
    BY <2>3, StageNames
  <2> QED
    BY <2>1, <2>2, <2>4, <1>a DEF Over
<1>15. CASE Judge
  BY <1>15, <1>c DEF Judge
<1>16. CASE Compile
  <2>1. UNCHANGED <<state, completed>> /\ waves' \in {waves, waves + 1}
    BY <1>16 DEF Compile
  <2> QED
    BY <2>1 DEF TypeOK
<1>17. CASE ReplanEnters
  <2>1. completed' = completed /\ waves' = waves
    BY <1>17 DEF ReplanEnters
  <2>2. state' = state \/ state' \in {"REPLANNING", "DISCOVERING"}
    BY <1>17 DEF ReplanEnters, EnterMoves, Moved
  <2>3. state' # state => ~Over /\ pc \in {"replan", "rediscover"}
    BY <1>17, OverStays DEF ReplanEnters
  <2>4. state' # state => waves >= 1
    BY <2>3 DEF Relies
  <2> QED
    BY <2>1, <2>2, <2>4, <1>a
<1>18. CASE ResetSteps
  <2>1. UNCHANGED <<state, waves>> /\ completed' \subseteq completed
    BY <1>18 DEF ResetSteps
  <2> QED
    BY <2>1
<1>19. CASE FinishReplan
  <2>1. UNCHANGED <<state, waves>> /\ completed' = completed \cup {state, "REPLANNING"}
    BY <1>19 DEF FinishReplan
  <2>2. Over \/ state = "REPLANNING"
    BY <1>19 DEF FinishReplan, Relies
  <2> QED
    BY <2>1, <2>2, <1>a DEF Over
<1>20. CASE NextRound
  BY <1>20, <1>c DEF NextRound
<1>21. CASE Terminates
  <2>0. \A v \in Verdicts : v \in Terminal
    BY VerdictsAre DEF TypeOK, Terminal
  <2>1. UNCHANGED <<completed, waves>> /\ (state' = state \/ state' \in Terminal)
    BY <1>21, <1>a, <2>0 DEF Terminates, Moved
  <2> QED
    BY <2>1, <1>a
<1>22. CASE Salvage
  BY <1>22, <1>c DEF Salvage
<1>23. CASE SalvageRaises
  BY <1>23, <1>c DEF SalvageRaises
<1>24. CASE ForcesPartial
  <2>1. UNCHANGED <<completed, waves>> /\ (state' = state \/ state' \in Terminal)
    BY <1>24, <1>a DEF ForcesPartial
  <2> QED
    BY <2>1, <1>a
<1>25. CASE Fails
  <2>1. UNCHANGED <<completed, waves>> /\ (state' = state \/ state' \in Terminal)
    BY <1>25, <1>a DEF Fails
  <2> QED
    BY <2>1, <1>a
<1>26. CASE Cancels
  <2>1. UNCHANGED <<completed, waves>> /\ (state' = state \/ state' \in Terminal)
    BY <1>26, <1>a DEF Cancels
  <2> QED
    BY <2>1, <1>a
<1>27. CASE Crash
  BY <1>27, <1>c DEF Crash, Forgets
<1>28. CASE Resume
  BY <1>28, <1>c DEF Resume, Forgets
<1>29. CASE Still
  BY <1>29 DEF Still
<1> QED
  BY <1>1, <1>2, <1>3, <1>4, <1>5, <1>6, <1>7, <1>8, <1>9, <1>10, <1>11, <1>12, <1>13,
     <1>14, <1>15, <1>16, <1>17, <1>18, <1>19, <1>20, <1>21, <1>22, <1>23, <1>24,
     <1>25, <1>26, <1>27, <1>28, <1>29, <1>m DEF Steps

\* In a state of the reference wave no stage is marked.
LEMMA DiskEarly ==
    ASSUME DiskFits, ~Over, state \in {Walk[i] : i \in 1..7}
    PROVE  NoneMarkedFrom(8)
<1>1. \A i \in 1..7 : \A j \in 8..20 : Walk[i] # Walk[j]
  BY WalkInjective
<1>2. \A s \in From(8) : s # state
  BY <1>1 DEF From
<1>3. {"DISCOVERING", "REPLANNING"} \subseteq From(8) /\ From(19) \subseteq From(8)
  BY WalkNames DEF From
<1>4. \A n \in Stages : ~Inside(n)
  BY <1>2 DEF Inside, From, Stages
<1> QED
  BY <1>2, <1>3, <1>4 DEF DiskFits, Again, Detoured

\* The state and the marked steps fit each other after every step, a crash among them.
LEMMA DiskStep ==
    TypeOK /\ Where /\ DiskFits /\ (Over \/ Relies) /\ [Next]_vars => DiskFits'
<1> SUFFICES ASSUME TypeOK, Where, DiskFits, Over \/ Relies, [Next]_vars PROVE DiskFits'
  OBVIOUS
<1> USE DEF Apart, disk, self, history
<1>m. Steps
  BY NextIs
<1>o. CASE Over'
  BY <1>o DEF DiskFits
<1>p. SUFFICES ASSUME ~Over' PROVE DiskFits'
  BY <1>o
<1>a. ~Over /\ Relies /\ ~Over'
  BY <1>p, OverStays
<1>s. UNCHANGED <<state, completed, cands, waves>> => DiskFits'
  BY SameDisk DEF DiskFits, Over, Again
<1>1. CASE Open
  BY <1>1, <1>s DEF Open
<1>2. CASE EnsureReference
  BY <1>2, <1>s DEF EnsureReference
<1>3. CASE WaveEnters
  <2>1. stage \in 2..7 /\ UNCHANGED <<completed, cands, waves>>
    BY <1>3 DEF WaveEnters, Where
  <2>2. state' = state \/ state' = Walk[stage]
    BY <1>3 DEF WaveEnters, Moved
  <2>3. NoneMarkedFrom(8)
    BY <1>3, <1>a, DiskEarly DEF WaveEnters, Relies
  <2>4. NoneMarkedFrom(8)'
    BY <2>1, <2>3 DEF NoneMarkedFrom, Done
  <2>5. state \in {Walk[i] : i \in 1..7}
    BY <1>3, <1>a DEF WaveEnters, Relies
  <2> QED
    BY <2>1, <2>2, <2>4, <2>5 DEF DiskFits
<1>4. CASE WaveWork
  <2>1. NoneMarkedFrom(8) /\ state \in {Walk[i] : i \in 1..7}
    BY <1>4, <1>a, DiskEarly DEF WaveWork, Relies
  <2>2. UNCHANGED <<state, completed, cands>>
    BY <1>4 DEF WaveWork
  <2> QED
    BY <2>1, <2>2, SameDisk DEF DiskFits
<1>5. CASE WaveMark
  <2>1. NoneMarkedFrom(8) /\ state \in {Walk[i] : i \in 1..7} /\ state = Walk[stage]
    BY <1>5, <1>a, DiskEarly DEF WaveMark, Relies
  <2>2. state' = state /\ completed' = completed \cup {state}
    BY <1>5, <2>1 DEF WaveMark, Marked
  <2>3. stage \in 2..7
    BY <1>5 DEF WaveMark, Where
  <2>4. \A s \in 8..19 : Walk[s] # state
    BY <2>1, <2>3, WalkInjective
  <2>5. NoneMarkedFrom(8)'
    BY <2>1, <2>2, <2>4 DEF NoneMarkedFrom, Done
  <2> QED
    BY <2>1, <2>2, <2>5 DEF DiskFits
<1>6. CASE RoundHead
  BY <1>6, <1>s DEF RoundHead
<1>7. CASE Pick
  BY <1>7, <1>s DEF Pick
<1>8. CASE Enters
  <2>1. UNCHANGED <<completed, cands, waves, stage>>
    BY <1>8 DEF Enters
  <2>2. CASE state' = state
    BY <2>1, <2>2, <1>s
  <2>3. CASE pc = "enter" /\ state' # state
    <3>1. state' = Walk[stage] /\ IsLegal(state, Walk[stage])
      BY <1>8, <2>3 DEF Enters, EnterMoves, Moved, Legal
    <3>2. Ready(stage) /\ stage \in Stages
      BY <2>3, <3>1, <1>a DEF Relies, EnterFits, Where
    <3>3. Inside(stage)'
      BY <2>1, <3>1, <3>2 DEF Inside, Ready, MarkedBefore, NoneMarkedFrom, Done, Stages
    <3> QED
      BY <2>1, <3>2, <3>3 DEF DiskFits
  <2>4. CASE pc = "detour" /\ state' # state
    <3>1. state' = "GAP_ANALYSIS"
      BY <1>8, <2>4 DEF Enters, EnterMoves, Moved
    <3>2. Ready(14)
      BY <2>4, <1>a DEF Relies
    <3>3. Detoured'
      BY <2>1, <3>1, <3>2, FromIs DEF Detoured, Ready, MarkedBefore, NoneMarkedFrom, Done,
         MatchStages
    <3> QED
      BY <3>3 DEF DiskFits
  <2> QED
    BY <1>8, <2>2, <2>3, <2>4 DEF Enters
<1>9. CASE Handle
  <2>1. UNCHANGED <<state, completed, waves, stage>> /\ cands \subseteq cands'
    BY <1>9 DEF Handle
  <2>2. state = Walk[stage] /\ Ready(stage) /\ stage \in Stages
    BY <1>9, <1>a DEF Handle, Relies, Where
  <2>3. CASE stage = 9
    <3>1. Inside(9)'
      BY <2>1, <2>2, <2>3 DEF Inside, Ready, MarkedBefore, NoneMarkedFrom, Done, MatchStages
    <3> QED
      BY <2>2, <2>3, <3>1 DEF DiskFits
  <2>4. CASE stage # 9
    <3>1. Walk[stage] # "DISCOVERING"
      BY <2>4, StageNames DEF TypeOK
    <3>2. cands' = cands
      BY <1>9, <3>1 DEF Handle
    <3> QED
      BY <2>1, <3>2, <1>s
  <2> QED
    BY <2>3, <2>4
<1>10. ASSUME NEW c \in Cands, WriteRow(c) PROVE DiskFits'
  BY <1>10, <1>s DEF WriteRow
<1>11. CASE HandlerDone
  BY <1>11, <1>s DEF HandlerDone
<1>12. CASE HandlerRaises
  BY <1>12, <1>s DEF HandlerRaises
<1>13. CASE Detour
  <2>1. state = "GAP_ANALYSIS" /\ Detoured
    BY <1>13, <1>a DEF Detour, Relies
  <2>2. UNCHANGED <<state, cands>> /\ completed' = completed \cup {state}
    BY <1>13, <2>1 DEF Detour
  <2>3. \A s \in MatchStages : Walk[s] # state
    BY <2>1, WalkNames, WalkInjective DEF MatchStages
  <2>4. Detoured'
    BY <2>1, <2>2, <2>3 DEF Detoured, Done
  <2> QED
    BY <2>4 DEF DiskFits
<1>14. CASE FinishStage
  <2>1. state = Walk[stage] /\ Ready(stage) /\ stage \in Stages
    BY <1>14, <1>a DEF FinishStage, Relies, Where
  <2>2. UNCHANGED <<state, cands, stage>> /\ completed' = completed \cup {state}
    BY <1>14, <2>1 DEF FinishStage, Marked
  <2>3. \A s \in (stage + 1)..19 : Walk[s] # state
    BY <2>1, WalkInjective DEF Stages
  <2>4. Inside(stage)'
    BY <2>1, <2>2, <2>3 DEF Inside, Ready, MarkedBefore, NoneMarkedFrom, Done, Stages
  <2> QED
    BY <2>1, <2>2, <2>4 DEF DiskFits
<1>15. CASE Judge
  BY <1>15, <1>s DEF Judge
<1>16. CASE Compile
  <2>1. UNCHANGED <<state, completed, cands>> /\ waves' \in {waves, waves + 1}
    BY <1>16 DEF Compile
  <2> QED
    BY <2>1, SameDisk DEF DiskFits, Over, Again, TypeOK
<1>17. CASE ReplanEnters
  <2>1. UNCHANGED <<completed, cands, waves>>
    BY <1>17 DEF ReplanEnters
  <2>2. CASE state' = state
    BY <2>1, <2>2, <1>s
  <2>3. CASE pc = "replan" /\ state' # state
    <3>1. state' = "REPLANNING" /\ IsLegal(state, "REPLANNING")
      BY <1>17, <2>3 DEF ReplanEnters, EnterMoves, Moved, Legal
    <3>2. RoundIsOver
      BY <2>3, <1>a DEF Relies
    <3>3. state \in From(14) => state \in From(19)
      BY <3>1, IllegalHere, FromIs
    <3>4. MarkedBefore(20) \/ Detoured
      BY <3>2, <3>3 DEF RoundIsOver
    <3>5. MarkedBefore(20)' \/ Detoured'
      BY <2>1, <3>1, <3>4, FromIs DEF MarkedBefore, Detoured, Done
    <3> QED
      BY <3>1, <3>5 DEF DiskFits
  <2>4. CASE pc = "rediscover" /\ state' # state
    <3>1. state' = "DISCOVERING"
      BY <1>17, <2>4 DEF ReplanEnters, EnterMoves, Moved
    <3>2. NoneMarkedFrom(8) /\ waves > 1
      BY <2>4, <1>a DEF Relies
    <3>3. Again'
      BY <2>1, <3>1, <3>2 DEF Again, NoneMarkedFrom, Done
    <3> QED
      BY <3>3 DEF DiskFits
  <2> QED
    BY <1>17, <2>2, <2>3, <2>4 DEF ReplanEnters
<1>18. CASE ResetSteps
  <2>1. state' = "REPLANNING" /\ completed' \subseteq {"PLANNING_QUERIES"}
    BY <1>18, <1>a DEF ResetSteps, Relies
  <2>2. \A s \in 8..19 : Walk[s] # "PLANNING_QUERIES"
    BY StageNames
  <2>3. NoneMarkedFrom(8)'
    BY <2>1, <2>2 DEF NoneMarkedFrom, Done
  <2> QED
    BY <2>1, <2>3 DEF DiskFits
<1>19. CASE FinishReplan
  <2>1. state = "REPLANNING" /\ NoneMarkedFrom(8)
    BY <1>19, <1>a DEF FinishReplan, Relies
  <2>2. state' = state /\ completed' = completed \cup {state}
    BY <1>19, <2>1 DEF FinishReplan
  <2>3. \A s \in 8..19 : Walk[s] # state
    BY <2>1, WalkNames, WalkInjective
  <2>4. NoneMarkedFrom(8)'
    BY <2>1, <2>2, <2>3 DEF NoneMarkedFrom, Done
  <2> QED
    BY <2>1, <2>2, <2>4 DEF DiskFits
<1>20. CASE NextRound
  BY <1>20, <1>s DEF NextRound
<1>21. CASE Terminates
  <2>0. \A v \in Verdicts : v \in Terminal
    BY VerdictsAre DEF TypeOK, Terminal
  <2>1. UNCHANGED <<completed, cands, waves>> /\ (state' = state \/ state' \in Terminal)
    BY <1>21, <2>0 DEF Terminates, Moved
  <2> QED
    BY <2>1, <1>a, <1>s DEF Over
<1>22. CASE Salvage
  BY <1>22, <1>s DEF Salvage
<1>23. CASE SalvageRaises
  BY <1>23, <1>s DEF SalvageRaises
<1>24. CASE ForcesPartial
  <2>1. UNCHANGED <<completed, cands, waves>> /\ (state' = state \/ state' \in Terminal)
    BY <1>24 DEF ForcesPartial, Terminal
  <2> QED
    BY <2>1, <1>a, <1>s DEF Over
<1>25. CASE Fails
  <2>1. UNCHANGED <<completed, cands, waves>> /\ (state' = state \/ state' \in Terminal)
    BY <1>25 DEF Fails, Terminal
  <2> QED
    BY <2>1, <1>a, <1>s DEF Over
<1>26. CASE Cancels
  <2>1. UNCHANGED <<completed, cands, waves>> /\ (state' = state \/ state' \in Terminal)
    BY <1>26 DEF Cancels, Terminal
  <2> QED
    BY <2>1, <1>a, <1>s DEF Over
<1>27. CASE Crash
  BY <1>27, <1>s DEF Crash, Forgets
<1>28. CASE Resume
  BY <1>28, <1>s DEF Resume, Forgets
<1>29. CASE Still
  BY <1>29, <1>s DEF Still
<1> QED
  BY <1>1, <1>2, <1>3, <1>4, <1>5, <1>6, <1>7, <1>8, <1>9, <1>10, <1>11, <1>12, <1>13,
     <1>14, <1>15, <1>16, <1>17, <1>18, <1>19, <1>20, <1>21, <1>22, <1>23, <1>24,
     <1>25, <1>26, <1>27, <1>28, <1>29, <1>m DEF Steps
\* The detour is a resumed worker's, and the next stage is asked for by a later one.
LEMMA DetourStep ==
    TypeOK /\ Where /\ DetourKnown /\ (Over \/ Relies) /\ [Next]_vars => DetourKnown'
<1> SUFFICES ASSUME TypeOK, Where, DetourKnown, Over \/ Relies, [Next]_vars PROVE DetourKnown'
  OBVIOUS
<1> USE DEF Apart, disk, self, history
<1>m. Steps
  BY NextIs
<1> DEFINE Late == {"gaps", "judge", "compile", "replan", "terminate", "reset", "gone"}
<1>p. SUFFICES ASSUME Detoured' PROVE DetourKnown'
  BY DEF DetourKnown
<1>d. /\ state' \in From(19) /\ cands' # {} /\ ~Over'
      /\ Walk[8] \in completed' /\ Walk[14] \notin completed'
  BY <1>p, FromIs DEF Detoured, Done, MatchStages, Over
<1>a. ~Over /\ Relies
  BY <1>d, OverStays
<1>s. UNCHANGED <<state, completed, cands, resumes>> /\ (pc \in Late => pc' \in Late)
      => DetourKnown'
  BY <1>p, SameDisk DEF DetourKnown
<1>1. CASE Open
  BY <1>1, <1>s DEF Open
<1>2. CASE EnsureReference
  BY <1>2, <1>s DEF EnsureReference
<1>3. CASE WaveEnters
  <2>1. UNCHANGED <<completed, cands, resumes>> /\ pc = "wave" /\ stage \in 2..7
    BY <1>3 DEF WaveEnters, Where
  <2>2. state' = state \/ state' = Walk[stage]
    BY <1>3 DEF WaveEnters, Moved
  <2>3. state' = state
    BY <2>1, <2>2, <1>d, FromIs
  <2> QED
    BY <2>1, <2>3, <1>s
<1>4. CASE WaveWork
  BY <1>4, <1>s DEF WaveWork
<1>5. CASE WaveMark
  <2>1. state \in {Walk[i] : i \in 1..7} /\ state' = state
    BY <1>5, <1>a DEF WaveMark, Relies
  <2> QED
    BY <2>1, <1>d, FromIs
<1>6. CASE RoundHead
  BY <1>6, <1>s DEF RoundHead
<1>7. CASE Pick
  BY <1>7, <1>s DEF Pick
<1>8. CASE Enters
  <2>1. UNCHANGED <<completed, cands, resumes, mode, lanes>> /\ pc \in {"enter", "detour"}
    BY <1>8 DEF Enters
  <2>2. CASE state' = state
    BY <2>1, <2>2, <1>s
  <2>3. CASE pc = "enter" /\ state' # state
    <3>1. state' = Walk[stage] /\ IsLegal(state, Walk[stage])
      BY <1>8, <2>3 DEF Enters, EnterMoves, Moved, Legal
    <3>2. Ready(stage) /\ stage \in 8..19
      BY <2>3, <3>1, <1>a DEF Relies, EnterFits, Where, Stages
    <3>3. stage = 19
      BY <3>1, <3>2, <1>d, FromIs
    <3>4. Done(14) \/ cands = {}
      BY <3>2, <3>3 DEF Ready, MarkedBefore
    <3> QED
      BY <2>1, <3>4, <1>d DEF Done
  <2>4. CASE pc = "detour" /\ state' # state
    <3>1. pc' = "gaps"
      BY <1>8, <2>4 DEF Enters, EnterMoves, Moved
    <3>2. "routing" \in lanes
      BY <2>4, <1>a DEF Relies
    <3>3. resumes > 0
      BY <3>2 DEF Where, TypeOK
    <3> QED
      BY <2>1, <3>1, <3>3 DEF DetourKnown
  <2> QED
    BY <2>1, <2>2, <2>3, <2>4
<1>9. CASE Handle
  <2>1. UNCHANGED <<state, completed, resumes>> /\ pc = "handle"
    BY <1>9 DEF Handle
  <2>2. state = Walk[stage] /\ stage \in 8..19
    BY <1>9, <1>a DEF Handle, Relies, Where, Stages
  <2>3. stage = 19
    BY <2>1, <2>2, <1>d, FromIs
  <2>4. cands' = cands
    BY <1>9, <2>3, StageNames DEF Handle
  <2> QED
    BY <2>1, <2>4, <1>s
<1>10. ASSUME NEW c \in Cands, WriteRow(c) PROVE DetourKnown'
  BY <1>10, <1>s DEF WriteRow
<1>11. CASE HandlerDone
  BY <1>11, <1>s DEF HandlerDone
<1>12. CASE HandlerRaises
  BY <1>12, <1>s DEF HandlerRaises
<1>13. CASE Detour
  <2>1. Detoured /\ resumes' = resumes /\ pc' = "judge"
    BY <1>13, <1>a DEF Detour, Relies
  <2> QED
    BY <2>1 DEF DetourKnown
<1>14. CASE FinishStage
  <2>1. UNCHANGED <<state, cands>> /\ completed \subseteq completed'
    BY <1>14 DEF FinishStage
  <2>2. state = Walk[stage] /\ stage \in 8..19 /\ Ready(stage)
    BY <1>14, <1>a DEF FinishStage, Relies, Where, Stages
  <2>3. stage = 19
    BY <2>1, <2>2, <1>d, FromIs
  <2>4. Done(14) \/ cands = {}
    BY <2>2, <2>3 DEF Ready, MarkedBefore
  <2> QED
    BY <2>1, <2>4, <1>d DEF Done
<1>15. CASE Judge
  BY <1>15, <1>s DEF Judge
<1>16. CASE Compile
  BY <1>16, <1>s DEF Compile
<1>17. CASE ReplanEnters
  <2>1. UNCHANGED <<completed, cands, resumes>> /\ pc \in {"replan", "rediscover"}
    BY <1>17 DEF ReplanEnters
  <2>2. CASE pc = "rediscover"
    <3>1. ~Done(8)
      BY <2>2, <1>a DEF Relies, NoneMarkedFrom
    <3> QED
      BY <2>1, <3>1, <1>d DEF Done
  <2>3. CASE pc = "replan"
    <3>1. state \in From(19) /\ Detoured
      <4>1. RoundIsOver
        BY <2>3, <1>a DEF Relies
      <4>2. state' = state \/ IsLegal(state, "REPLANNING")
        BY <1>17, <2>3 DEF ReplanEnters, EnterMoves, Moved, Legal
      <4>3. state \in From(19)
        BY <4>1, <4>2, <1>d, IllegalHere, FromIs DEF RoundIsOver
      <4>4. ~MarkedBefore(20)
        BY <2>1, <1>d DEF MarkedBefore, Done
      <4> QED
        BY <4>1, <4>3, <4>4 DEF RoundIsOver
    <3>2. state = "REPLANNING" \/ Legal("REPLANNING")
      BY <3>1, FromIs, LegalHere, WalkNames DEF Legal, GuardsHold
    <3>3. pc' \in {"reset", "gone"}
      BY <1>17, <2>3, <3>2, <1>a DEF ReplanEnters, EnterMoves, Moved, Over
    <3> QED
      BY <2>1, <3>1, <3>3 DEF DetourKnown
  <2> QED
    BY <2>1, <2>2, <2>3
<1>18. CASE ResetSteps
  <2>1. completed' \subseteq {"PLANNING_QUERIES"}
    BY <1>18 DEF ResetSteps
  <2> QED
    BY <2>1, <1>d, StageNames
<1>19. CASE FinishReplan
  <2>1. state = "REPLANNING" /\ ~Done(8)
    BY <1>19, <1>a DEF FinishReplan, Relies, NoneMarkedFrom
  <2>2. completed' = completed \cup {"REPLANNING"}
    BY <1>19, <2>1 DEF FinishReplan
  <2> QED
    BY <2>1, <2>2, <1>d, WalkNames DEF Done
<1>20. CASE NextRound
  BY <1>20, <1>s DEF NextRound
<1>21. CASE Terminates
  <2>1. UNCHANGED <<completed, cands, resumes>>
    BY <1>21 DEF Terminates
  <2>2. \A v \in Verdicts : v \in {"COMPLETE", "PARTIAL", "BLOCKED"}
    BY VerdictsAre DEF TypeOK
  <2>3. state' = state
    BY <1>21, <2>2, <1>d DEF Terminates, Moved, Over, Terminal
  <2>4. state \in From(19)
    BY <2>3, <1>d
  <2>5. pc = "terminate"
    BY <1>21 DEF Terminates
  <2>6. \A v \in Verdicts : Legal(v)
    <3>1. Walk[19] \in From(18) /\ Walk[20] \in From(18) /\ Walk[19] \in From(9)
          /\ Walk[20] \in From(9) /\ Walk[19] \in From(2) /\ Walk[20] \in From(2)
      BY FromIs
    <3>2. state = Walk[19] \/ state = Walk[20]
      BY <2>4, FromIs, WalkNames
    <3>3. \A t \in {"COMPLETE", "PARTIAL", "BLOCKED"} : IsLegal(state, t)
      BY <3>1, <3>2, LegalHere
    <3> QED
      BY <2>2, <2>5, <3>3 DEF Legal, GuardsHold, ContextFromDisk
  <2>7. pc' = "gone"
    BY <1>21, <2>6 DEF Terminates, Moved
  <2> QED
    BY <2>1, <2>3, <2>7, <1>s
<1>22. CASE Salvage
  BY <1>22, <1>s DEF Salvage
<1>23. CASE SalvageRaises
  BY <1>23, <1>s DEF SalvageRaises
<1>24. CASE ForcesPartial
  <2>1. UNCHANGED <<completed, cands, resumes>>
    BY <1>24 DEF ForcesPartial
  <2>2. state' = state
    BY <1>24, <1>d DEF ForcesPartial, Over, Terminal
  <2>3. pc \in Late => pc' \in Late
    BY <1>24 DEF ForcesPartial
  <2> QED
    BY <2>1, <2>2, <2>3, <1>s
<1>25. CASE Fails
  <2>1. UNCHANGED <<completed, cands, resumes>>
    BY <1>25 DEF Fails
  <2>2. state' = state
    BY <1>25, <1>d DEF Fails, Over, Terminal
  <2>3. pc \in Late => pc' \in Late
    BY <1>25 DEF Fails
  <2> QED
    BY <2>1, <2>2, <2>3, <1>s
<1>26. CASE Cancels
  <2>1. UNCHANGED <<completed, cands, resumes>>
    BY <1>26 DEF Cancels
  <2>2. state' = state
    BY <1>26, <1>d DEF Cancels, Over, Terminal
  <2>3. pc \in Late => pc' \in Late
    BY <1>26 DEF Cancels
  <2> QED
    BY <2>1, <2>2, <2>3, <1>s
<1>27. CASE Crash
  BY <1>27, <1>s DEF Crash, Forgets
<1>28. CASE Resume
  <2>1. Detoured /\ resumes' = resumes + 1
    <3>1. UNCHANGED <<state, completed, cands>> /\ resumes' = resumes + 1
      BY <1>28 DEF Resume, Forgets
    <3> QED
      BY <1>p, <3>1, SameDisk
  <2> QED
    BY <2>1 DEF DetourKnown, TypeOK
<1>29. CASE Still
  BY <1>29, <1>s DEF Still
<1> QED
  BY <1>1, <1>2, <1>3, <1>4, <1>5, <1>6, <1>7, <1>8, <1>9, <1>10, <1>11, <1>12, <1>13,
     <1>14, <1>15, <1>16, <1>17, <1>18, <1>19, <1>20, <1>21, <1>22, <1>23, <1>24,
     <1>25, <1>26, <1>27, <1>28, <1>29, <1>m DEF Steps

\* What the worker relies on, step by step.
LEMMA ReliesStep == TypeOK /\ FailIInv /\ [Next]_vars => Over' \/ Relies'
<1> SUFFICES ASSUME TypeOK, FailIInv, [Next]_vars PROVE Over' \/ Relies'
  OBVIOUS
<1> USE DEF Apart, disk, self, history
<1>m. Steps
  BY NextIs DEF FailIInv
<1>p. SUFFICES ASSUME ~Over', pc' # "gone" PROVE Relies'
  BY DEF Relies
<1>a. /\ ~Over /\ Relies /\ ~Over' /\ pc' # "gone"
      /\ Where /\ DiskFits /\ Planned /\ BegunIsDone /\ DetourKnown
  <2>1. Where /\ DiskFits /\ Planned /\ BegunIsDone /\ DetourKnown /\ (Over \/ Relies)
    BY DEF FailIInv
  <2>2. ~Over /\ Relies
    BY <1>p, <2>1, OverStays
  <2> QED
    BY <1>p, <2>1, <2>2 DEF Where
<1>1. CASE Open
  <2>1. UNCHANGED <<state, resumes>> /\ pc = "open" /\ pc' \in {"gone", "reference"}
    BY <1>1 DEF Open
  <2> QED
    BY <2>1, <1>a DEF Relies
<1>2. CASE EnsureReference
  <2>1. UNCHANGED <<state, resumes, waves>> /\ pc = "reference"
    BY <1>2 DEF EnsureReference
  <2>2. CASE "PLANNING_QUERIES" \in completed \/ state \in From(8)
    <3>1. pc' = "round"
      BY <1>2, <2>2 DEF EnsureReference
    <3>2. state \in From(7) /\ waves >= 1
      BY <2>2, <1>a, FromIs DEF Planned, Over
    <3> QED
      BY <2>1, <3>1, <3>2 DEF Relies
  <2>3. CASE ~("PLANNING_QUERIES" \in completed \/ state \in From(8))
    <3>1. pc' = "wave" /\ stage' = 2
      BY <1>2, <2>3, <1>a DEF EnsureReference, Over
    <3>2. state \in {Walk[i] : i \in 1..7}
      BY <2>3, <1>a, FromIs DEF TypeOK, Over
    <3>3. resumes = 0 => state = "CREATED"
      BY <2>1, <1>a DEF Relies
    <3> QED
      BY <2>1, <3>1, <3>2, <3>3 DEF Relies
  <2> QED
    BY <2>2, <2>3
<1>3. CASE WaveEnters
  <2>1. UNCHANGED <<stage, resumes, waves, lanes>> /\ pc = "wave" /\ stage \in 2..7
    BY <1>3, <1>a DEF WaveEnters, Where
  <2>2. Walk[stage] \in {Walk[i] : i \in 1..7}
    BY <2>1
  <2>3. CASE state' = Walk[stage] /\ pc' = "wavework"
    BY <2>1, <2>2, <2>3 DEF Relies
  <2>4. CASE state # Walk[stage] /\ ~Legal(Walk[stage])
    <3>1. \A i \in 1..19 : i + 1 \in 2..7 => Legal(Walk[i + 1]) \/ state # Walk[i]
      BY LegalHere, StageNames, WalkInjective DEF Legal, GuardsHold, ContextFromDisk, Terminal
    <3>2. stage = 2 /\ resumes # 0
      <4>1. stage - 1 \in 1..19 /\ (stage - 1) + 1 = stage
        BY <2>1
      <4>2. state # Walk[stage - 1]
        BY <2>1, <2>4, <3>1, <4>1
      <4>3. stage = 2 => (resumes = 0 => state = Walk[1])
        BY <2>1, <1>a, WalkNames DEF Relies
      <4> QED
        BY <2>1, <4>2, <4>3, <1>a DEF Relies
    <3>3. state # Walk[1] /\ state # Walk[2]
      BY <2>4, <3>1, <3>2
    <3>4. state \in From(3)
      BY <2>1, <3>3, <1>a, FromIs DEF Relies
    <3>5. asked' = Refusal(state, "VALIDATING_INPUT", lanes) /\ pc' = "fail"
      BY <1>3, <2>4, <3>2, <1>a, WalkNames DEF WaveEnters, Moved
    <3>6. Explained(asked)'
      BY <2>1, <3>2, <3>4, <3>5 DEF Explained, Refusal, TypeOK
    <3> QED
      BY <3>5, <3>6 DEF Relies
  <2> QED
    BY <1>3, <2>3, <2>4, <1>a DEF WaveEnters, Moved
<1>4. CASE WaveWork
  <2>1. UNCHANGED <<state, stage>> /\ pc = "wavework" /\ pc' = "wavemark"
    BY <1>4 DEF WaveWork
  <2> QED
    BY <2>1, <1>a DEF Relies
<1>5. CASE WaveMark
  <2>1. UNCHANGED <<state, waves, resumes>> /\ pc = "wavemark" /\ stage \in 2..7
        /\ state = Walk[stage]
    BY <1>5, <1>a DEF WaveMark, Where, Relies
  <2>2. Walk[stage] = "PLANNING_QUERIES" <=> stage = 7
    BY <2>1, StageNames
  <2>3. CASE stage = 7
    <3>1. pc' = "round"
      BY <1>5, <2>2, <2>3 DEF WaveMark
    <3>2. state \in From(7) /\ waves >= 1
      <4>1. Walk[7] \in From(7)
        BY FromIs
      <4> QED
        BY <2>1, <2>3, <4>1, <1>a DEF BegunIsDone
    <3> QED
      BY <2>1, <3>1, <3>2 DEF Relies
  <2>4. CASE stage # 7
    <3>1. pc' = "wave" /\ stage' = stage + 1
      BY <1>5, <2>2, <2>4 DEF WaveMark
    <3>2. stage' # 2 /\ stage' - 1 = stage
      BY <2>1, <3>1
    <3>3. state \in {Walk[i] : i \in 1..7}
      BY <2>1
    <3> QED
      BY <2>1, <3>1, <3>2, <3>3 DEF Relies
  <2> QED
    BY <2>3, <2>4
<1>6. CASE RoundHead
  <2>1. UNCHANGED <<state, waves>> /\ pc = "round"
    BY <1>6 DEF RoundHead
  <2>2. turn <= MaxRounds
    BY <1>a, RoundsAssumption DEF Where
  <2>3. pc' \in {"gone", "pick"}
    BY <1>6, <2>2, <1>a, RoundsAssumption DEF RoundHead, Over, Where
  <2>4. state \in From(7) /\ waves >= 1
    BY <2>1, <1>a DEF Relies
  <2> QED
    BY <2>1, <2>3, <2>4 DEF Relies
<1>7. CASE Pick
  <2>1. UNCHANGED <<state, completed, cands, waves, resumes, lanes, asked>> /\ pc = "pick"
    BY <1>7 DEF Pick
  <2>2. waves >= 1
    BY <2>1, <1>a DEF Relies
  <2>3. CASE PipelineDone
    <3>1. pc' = "judge"
      BY <1>7, <2>3 DEF Pick
    <3>2. state \in From(19) /\ MarkedBefore(20)
      BY <2>1, <2>3, <1>a, NextStageFits
    <3>3. RoundIsOver'
      BY <2>1, <3>2, SameDisk DEF RoundIsOver
    <3> QED
      BY <2>1, <2>2, <3>1, <3>3 DEF Relies
  <2>4. CASE ~PipelineDone
    <3>1. /\ EnterFits(Upcoming)
          /\ Upcoming \in MatchStages =>
                IF state = "BROAD_RETRIEVAL" THEN Ready(14)
                ELSE state \in From(14) \ From(19) \/ Detoured
      BY <2>1, <2>4, <1>a, NextStageFits
    <3>2. CASE pc' = "salvage"
      BY <3>2 DEF Relies
    <3>3. CASE Upcoming \in MatchStages /\ "routing" \in lanes /\ state = "BROAD_RETRIEVAL"
               /\ pc' = "detour"
      <4>1. Ready(14)'
        BY <2>1, <3>1, <3>3, SameDisk
      <4> QED
        BY <2>1, <2>2, <3>3, <4>1 DEF Relies
    <3>4. CASE Upcoming \in MatchStages /\ "routing" \in lanes /\ state # "BROAD_RETRIEVAL"
               /\ pc' = "judge"
      <4>1. state \in From(14) \ From(19) \/ Detoured
        BY <3>1, <3>4
      <4>2. RoundIsOver'
        BY <2>1, <3>4, <4>1, SameDisk DEF RoundIsOver, Detoured
      <4> QED
        BY <2>1, <2>2, <3>4, <4>2 DEF Relies
    <3>5. CASE pc' = "enter" /\ stage' = Upcoming
      <4>0. PICK n : n = Upcoming
        OBVIOUS
      <4>1. EnterFits(n)
        BY <3>1, <4>0
      <4>2. EnterFits(n) => (/\ Ready(n) /\ (state = Walk[n] \/ IsLegal(state, Walk[n]))
                             \/ /\ ~IsLegal(state, Walk[n]) /\ state # Walk[n]
                                /\ Explained(Refusal(state, Walk[n], lanes)))
        BY DEF EnterFits
      <4>3. stage' = n
        BY <3>5, <4>0
      <4>4. Ready(n) => Ready(stage)'
        BY <2>1, <4>3 DEF Ready, MarkedBefore, NoneMarkedFrom, Done
      <4>5. Explained(Refusal(state, Walk[n], lanes))
            => Explained(Refusal(state, Walk[stage], lanes))'
        BY <2>1, <4>3 DEF Explained, Refusal
      <4>6. EnterFits(stage)'
        BY <2>1, <4>1, <4>2, <4>3, <4>4, <4>5 DEF EnterFits
      <4> QED
        BY <2>1, <2>2, <3>5, <4>6 DEF Relies
    <3> QED
      BY <1>7, <2>4, <3>2, <3>3, <3>4, <3>5, <1>a DEF Pick
  <2> QED
    BY <2>3, <2>4
<1>8. CASE Enters
  <2>1. UNCHANGED <<completed, cands, waves, resumes, lanes, stage>>
    BY <1>8 DEF Enters
  <2>2. waves >= 1
    BY <1>8, <1>a DEF Enters, Relies
  <2>3. CASE pc = "enter" /\ Ready(stage) /\ (state = Walk[stage] \/ IsLegal(state, Walk[stage]))
    <3>1. stage \in 8..19
      BY <2>3, <1>a DEF Where, Stages
    <3>2. stage = 14 => cands # {}
      BY <2>3 DEF Ready, MatchStages
    <3>3. GuardsHold(Walk[stage], ContextFromDisk)
      <4>1. Walk[stage] \notin {"COMPLETE", "FAILED"}
        BY <3>1, WalkInjective DEF Terminal
      <4>2. Walk[stage] = "FINE_MATCHING" => cands # {}
        BY <3>1, <3>2, StageNames
      <4> QED
        BY <4>1, <4>2 DEF GuardsHold, ContextFromDisk
    <3>4. state' = Walk[stage] /\ pc' = "handle"
      BY <1>8, <2>3, <3>3, <1>a DEF Enters, EnterMoves, Moved, Legal, Over
    <3>5. Ready(stage)'
      BY <2>1, <2>3 DEF Ready, MarkedBefore, NoneMarkedFrom, Done
    <3> QED
      BY <2>1, <2>2, <3>4, <3>5 DEF Relies
  <2>4. CASE pc = "enter" /\ ~IsLegal(state, Walk[stage]) /\ state # Walk[stage]
             /\ Explained(Refusal(state, Walk[stage], lanes))
    <3>1. asked' = Refusal(state, Walk[stage], lanes) /\ pc' = "fail"
      BY <1>8, <2>4, <1>a DEF Enters, EnterMoves, Moved, Legal, Over
    <3>2. Explained(asked)'
      BY <2>1, <2>4, <3>1 DEF Explained
    <3> QED
      BY <3>1, <3>2 DEF Relies
  <2>5. CASE pc = "detour"
    <3>1. state = "BROAD_RETRIEVAL" /\ "routing" \in lanes /\ Ready(14)
      BY <2>5, <1>a DEF Relies
    <3>2. Legal("GAP_ANALYSIS")
      BY <3>1, LegalHere DEF Legal, GuardsHold
    <3>3. state' = "GAP_ANALYSIS" /\ pc' = "gaps"
      BY <1>8, <2>5, <3>1, <3>2, <1>a DEF Enters, EnterMoves, Moved, Over
    <3>4. Detoured'
      BY <2>1, <3>1, <3>3, FromIs DEF Detoured, Ready, MarkedBefore, NoneMarkedFrom, Done,
         MatchStages
    <3> QED
      BY <2>1, <2>2, <3>1, <3>3, <3>4 DEF Relies
  <2> QED
    BY <1>8, <2>3, <2>4, <2>5, <1>a DEF Enters, Relies, EnterFits
<1>9. CASE Handle
  <2>1. UNCHANGED <<state, completed, waves, stage>> /\ cands \subseteq cands'
        /\ pc = "handle" /\ pc' = "work"
    BY <1>9 DEF Handle
  <2>2. state = Walk[stage] /\ Ready(stage) /\ stage \in 8..19 /\ waves >= 1
    BY <2>1, <1>a DEF Relies, Where, Stages
  <2>3. Ready(stage)'
    <3>1. CASE stage = 9
      BY <2>1, <2>2, <3>1 DEF Ready, MarkedBefore, NoneMarkedFrom, Done, MatchStages
    <3>2. CASE stage # 9
      <4>1. cands' = cands
        BY <1>9, <2>2, <3>2, StageNames DEF Handle
      <4> QED
        BY <2>1, <2>2, <4>1 DEF Ready, MarkedBefore, NoneMarkedFrom, Done
    <3> QED
      BY <3>1, <3>2
  <2> QED
    BY <2>1, <2>2, <2>3 DEF Relies
<1>10. ASSUME NEW c \in Cands, WriteRow(c) PROVE Relies'
  <2>1. UNCHANGED <<state, completed, cands, waves, stage>>
    BY <1>10 DEF WriteRow
  <2>2. CASE pc = "work"
    <3>1. state = Walk[stage] /\ Ready(stage) /\ waves >= 1
      BY <2>2, <1>a DEF Relies
    <3>2. Ready(stage)'
      BY <2>1, <3>1 DEF Ready, MarkedBefore, NoneMarkedFrom, Done
    <3>3. pc' = "work"
      BY <1>10, <2>2 DEF WriteRow
    <3> QED
      BY <2>1, <3>1, <3>2, <3>3 DEF Relies
  <2>3. CASE pc \in {"saverank", "savepublish"}
    <3>1. pc' = pc
      BY <1>10 DEF WriteRow
    <3> QED
      BY <2>3, <3>1 DEF Relies
  <2> QED
    BY <1>10, <2>2, <2>3 DEF WriteRow
<1>11. CASE HandlerDone
  <2>1. UNCHANGED <<state, completed, cands, waves, stage>>
    BY <1>11 DEF HandlerDone
  <2>2. CASE pc = "work"
    <3>1. state = Walk[stage] /\ Ready(stage) /\ waves >= 1
      BY <2>2, <1>a DEF Relies
    <3>2. Ready(stage)'
      BY <2>1, <3>1 DEF Ready, MarkedBefore, NoneMarkedFrom, Done
    <3>3. pc' = "finish"
      BY <1>11, <2>2 DEF HandlerDone
    <3> QED
      BY <2>1, <3>1, <3>2, <3>3 DEF Relies
  <2> QED
    BY <1>11, <2>2 DEF HandlerDone
<1>12. CASE HandlerRaises
  <2>1. pc' \in {"salvage", "gone"} \/ (pc' = "fail" /\ raised')
    BY <1>12 DEF HandlerRaises
  <2> QED
    BY <2>1 DEF Relies
<1>13. CASE Detour
  <2>1. state = "GAP_ANALYSIS" /\ Detoured /\ waves >= 1
    BY <1>13, <1>a DEF Detour, Relies
  <2>2. UNCHANGED <<state, cands, waves>> /\ completed' = completed \cup {state}
        /\ pc' = "judge"
    BY <1>13, <2>1 DEF Detour
  <2>3. \A s \in MatchStages : Walk[s] # state
    BY <2>1, WalkNames, WalkInjective DEF MatchStages
  <2>4. Detoured'
    BY <2>1, <2>2, <2>3 DEF Detoured, Done
  <2>5. RoundIsOver'
    BY <2>4 DEF RoundIsOver, Detoured
  <2> QED
    BY <2>1, <2>2, <2>5 DEF Relies
<1>14. CASE FinishStage
  <2>1. UNCHANGED <<state, waves>> /\ pc = "finish" /\ pc' = "pick"
    BY <1>14 DEF FinishStage
  <2>2. state = Walk[stage] /\ stage \in 8..19 /\ waves >= 1
    BY <2>1, <1>a DEF Relies, Where, Stages
  <2>3. state \in From(7)
    BY <2>2, FromIs
  <2> QED
    BY <2>1, <2>2, <2>3 DEF Relies
<1>15. CASE Judge
  <2>1. UNCHANGED <<state, completed, cands, waves, lanes>> /\ pc = "judge"
        /\ pc' \in {"gone", "terminate", "compile"}
    BY <1>15 DEF Judge
  <2>2. RoundIsOver /\ waves >= 1
    BY <2>1, <1>a DEF Relies
  <2>3. RoundIsOver'
    BY <2>1, <2>2, SameDisk DEF RoundIsOver
  <2> QED
    BY <2>1, <2>2, <2>3 DEF Relies
<1>16. CASE Compile
  <2>1. UNCHANGED <<state, completed, cands, lanes>> /\ pc = "compile"
    BY <1>16 DEF Compile
  <2>2. \/ pc' = "terminate" /\ waves' = waves
        \/ pc' = "replan" /\ waves' = waves + 1
    BY <1>16 DEF Compile
  <2>3. RoundIsOver /\ waves >= 1
    BY <2>1, <1>a DEF Relies
  <2>4. RoundIsOver'
    BY <2>1, <2>3, SameDisk DEF RoundIsOver
  <2>5. waves' >= 1 /\ (pc' = "replan" => waves' > 1)
    BY <2>2, <2>3 DEF TypeOK
  <2> QED
    BY <2>2, <2>4, <2>5 DEF Relies
<1>17. CASE ReplanEnters
  <2>1. UNCHANGED <<completed, cands, waves, resumes, lanes>>
    BY <1>17 DEF ReplanEnters
  <2>2. waves > 1
    BY <1>17, <1>a DEF ReplanEnters, Relies
  <2>3. CASE pc = "replan" /\ state \in From(19)
    <3>1. MarkedBefore(20) \/ Detoured
      BY <2>3, <1>a DEF Relies, RoundIsOver
    <3>2. state = "REPLANNING" \/ Legal("REPLANNING")
      BY <2>3, FromIs, LegalHere, WalkNames DEF Legal, GuardsHold
    <3>3. state' = "REPLANNING" /\ pc' = "reset"
      BY <1>17, <2>3, <3>2, <1>a DEF ReplanEnters, EnterMoves, Moved, Over
    <3>4. MarkedBefore(20)' \/ Detoured'
      BY <2>1, <3>1, <3>3, FromIs DEF MarkedBefore, Detoured, Done
    <3> QED
      BY <2>1, <2>2, <3>3, <3>4 DEF Relies, TypeOK
  <2>4. CASE pc = "replan" /\ state \notin From(19)
    <3>1. state \in From(14) /\ "routing" \in lanes
      BY <2>4, <1>a DEF Relies, RoundIsOver
    <3>2. ~Legal("REPLANNING") /\ state # "REPLANNING"
      BY <2>4, <3>1, FromIs, IllegalHere DEF Legal
    <3>3. asked' = Refusal(state, "REPLANNING", lanes) /\ pc' = "fail"
      BY <1>17, <2>4, <3>2, <1>a DEF ReplanEnters, EnterMoves, Moved, Over
    <3>4. Explained(asked)'
      BY <3>1, <3>3 DEF Explained, Refusal
    <3> QED
      BY <3>3, <3>4 DEF Relies
  <2>5. CASE pc = "rediscover"
    <3>1. state = "REPLANNING" /\ NoneMarkedFrom(8)
      BY <2>5, <1>a DEF Relies
    <3>2. Legal("DISCOVERING")
      BY <3>1, LegalHere DEF Legal, GuardsHold, ContextFromDisk
    <3>3. state' = "DISCOVERING" /\ pc' = "nextround"
      BY <1>17, <2>5, <3>1, <3>2, <1>a DEF ReplanEnters, EnterMoves, Moved, Over
    <3>4. Again'
      BY <2>1, <2>2, <3>1, <3>3 DEF Again, NoneMarkedFrom, Done
    <3> QED
      BY <2>1, <2>2, <3>3, <3>4 DEF Relies, TypeOK
  <2> QED
    BY <1>17, <2>3, <2>4, <2>5 DEF ReplanEnters
<1>18. CASE ResetSteps
  <2>1. UNCHANGED <<state, waves>> /\ completed' \subseteq {"PLANNING_QUERIES"}
        /\ pc = "reset" /\ pc' = "finishreplan"
    BY <1>18 DEF ResetSteps
  <2>2. state = "REPLANNING" /\ waves > 1
    BY <2>1, <1>a DEF Relies
  <2>3. \A s \in 8..19 : Walk[s] # "PLANNING_QUERIES"
    BY StageNames
  <2>4. NoneMarkedFrom(8)'
    BY <2>1, <2>3 DEF NoneMarkedFrom, Done
  <2> QED
    BY <2>1, <2>2, <2>4 DEF Relies, TypeOK
<1>19. CASE FinishReplan
  <2>1. pc = "finishreplan" /\ pc' = "rediscover" /\ UNCHANGED <<state, waves>>
    BY <1>19 DEF FinishReplan
  <2>2. state = "REPLANNING" /\ NoneMarkedFrom(8) /\ waves > 1
    BY <2>1, <1>a DEF Relies
  <2>3. completed' = completed \cup {state}
    BY <1>19, <2>2 DEF FinishReplan
  <2>4. \A s \in 8..19 : Walk[s] # state
    BY <2>2, WalkNames, WalkInjective
  <2>5. NoneMarkedFrom(8)'
    BY <2>2, <2>3, <2>4 DEF NoneMarkedFrom, Done
  <2> QED
    BY <2>1, <2>2, <2>5 DEF Relies, TypeOK
<1>20. CASE NextRound
  <2>1. pc = "nextround" /\ pc' = "round" /\ UNCHANGED <<state, waves>>
    BY <1>20 DEF NextRound
  <2>2. state = Walk[9] /\ waves > 1
    BY <2>1, <1>a, WalkNames DEF Relies, Again
  <2>3. state \in From(7)
    BY <2>2, FromIs
  <2> QED
    BY <2>1, <2>2, <2>3 DEF Relies, TypeOK
<1>21. CASE Terminates
  <2>1. UNCHANGED <<waves, resumes, lanes>> /\ pc = "terminate"
    BY <1>21 DEF Terminates
  <2>2. \A v \in Verdicts : v \in {"COMPLETE", "PARTIAL", "BLOCKED"}
    BY VerdictsAre DEF TypeOK
  <2>3. RoundIsOver
    BY <2>1, <1>a DEF Relies
  <2>4. state \in From(14)
    BY <2>3, FromIs DEF RoundIsOver
  <2>5. \A t \in {"PARTIAL", "BLOCKED"} : Legal(t)
    <3>1. PICK i \in 14..20 : state = Walk[i]
      BY <2>4, FromIs
    <3>2. state \in From(2) /\ state \in From(9)
      BY <3>1, FromIs
    <3> QED
      BY <3>2, LegalHere DEF Legal, GuardsHold
  <2>6. Legal("COMPLETE") \/ "routing" \in lanes
    <3>1. ASSUME state \in From(19) PROVE state \in From(18)
      <4>1. PICK i \in 19..20 : state = Walk[i]
        BY <3>1, FromIs
      <4> QED
        BY <4>1, FromIs
    <3> QED
      BY <2>1, <2>3, <3>1, LegalHere DEF Legal, GuardsHold, ContextFromDisk, RoundIsOver
  <2>7. CASE pc' = "gone"
    BY <2>7 DEF Relies
  <2>8. CASE pc' # "gone"
    <3>1. PICK v \in Verdicts : Moved(v, "gone")
      BY <1>21, <2>8 DEF Terminates
    <3>2. asked' = Refusal(state, v, lanes) /\ pc' = "fail" /\ ~Legal(v)
      BY <3>1, <2>8 DEF Moved
    <3>3. v = "COMPLETE" /\ "routing" \in lanes
      BY <2>2, <2>5, <2>6, <3>2
    <3>4. Explained(asked)'
      BY <2>4, <3>2, <3>3 DEF Explained, Refusal
    <3> QED
      BY <3>2, <3>4 DEF Relies
  <2> QED
    BY <2>7, <2>8
<1>22. CASE Salvage
  <2>1. pc' \in {"saverank", "savepublish", "partial"}
    BY <1>22 DEF Salvage
  <2> QED
    BY <2>1 DEF Relies
<1>23. CASE SalvageRaises
  BY <1>23 DEF SalvageRaises, Relies
<1>24. CASE ForcesPartial
  <2>1. CASE pc' = "gone"
    BY <2>1 DEF Relies
  <2>2. CASE pc' # "gone"
    <3>1. asked' = Refusal(state, "PARTIAL", lanes) /\ pc' = "fail" /\ ~Legal("PARTIAL")
      BY <1>24, <2>2 DEF ForcesPartial
    <3>2. state \notin From(9)
      BY <3>1, LegalHere DEF Legal, GuardsHold
    <3>3. Explained(asked)'
      BY <3>1, <3>2 DEF Explained, Refusal
    <3> QED
      BY <3>1, <3>3 DEF Relies
  <2> QED
    BY <2>1, <2>2
<1>25. CASE Fails
  BY <1>25 DEF Fails, Relies
<1>26. CASE Cancels
  BY <1>26, <1>a DEF Cancels, Over, Terminal
<1>27. CASE Crash
  BY <1>27 DEF Crash, Forgets, Relies
<1>28. CASE Resume
  <2>1. pc' = "open" /\ resumes' = resumes + 1
    BY <1>28 DEF Resume, Forgets
  <2> QED
    BY <2>1 DEF Relies, TypeOK
<1>29. CASE Still
  <2>1. UNCHANGED <<state, completed, cands, waves, resumes, lanes, stage, pc, asked, raised>>
    BY <1>29 DEF Still
  <2>2. (Ready(stage)' <=> Ready(stage)) /\ (Explained(asked)' <=> Explained(asked))
        /\ (Explained(Refusal(state, Walk[stage], lanes))'
            <=> Explained(Refusal(state, Walk[stage], lanes)))
    BY <2>1 DEF Ready, MarkedBefore, NoneMarkedFrom, Done, Explained, Refusal
  <2> QED
    BY <2>1, <2>2, <1>a, SameDisk DEF Relies, EnterFits, RoundIsOver, Again
<1> QED
  BY <1>1, <1>2, <1>3, <1>4, <1>5, <1>6, <1>7, <1>8, <1>9, <1>10, <1>11, <1>12, <1>13,
     <1>14, <1>15, <1>16, <1>17, <1>18, <1>19, <1>20, <1>21, <1>22, <1>23, <1>24,
     <1>25, <1>26, <1>27, <1>28, <1>29, <1>m DEF Steps
\* A campaign becomes FAILED only in _fail, and nothing moves it afterwards.
LEMMA FailureStep == TypeOK /\ FailIInv /\ [Next]_vars => FailureIsExplained'
<1> SUFFICES ASSUME TypeOK, FailIInv, [Next]_vars, state' = "FAILED", ~raised'
             PROVE  Explained(asked)'
  BY DEF FailureIsExplained
<1> USE DEF Apart, disk, self, history
<1>m. Steps
  BY NextIs DEF FailIInv
<1>a. Where /\ (Over \/ Relies) /\ FailureIsExplained
  BY DEF FailIInv
<1>1. CASE state = "FAILED"
  <2>1. pc \in {"gone", "open"} /\ Over
    BY <1>1, <1>a DEF Where, Over, Terminal
  <2>2. Open \/ Crash \/ Resume \/ Still
    BY <2>1, <1>m DEF Steps, EnsureReference, WaveEnters, WaveWork, WaveMark, RoundHead,
       Pick, Enters, Handle, WriteRow, HandlerDone, HandlerRaises, Detour, FinishStage, Judge,
       Compile, ReplanEnters, ResetSteps, FinishReplan, NextRound, Terminates, Salvage,
       SalvageRaises, ForcesPartial, Fails, Cancels, Over
  <2>3. UNCHANGED <<state, waves, asked, raised>> /\ resumes' \in {resumes, resumes + 1}
    BY <2>2 DEF Open, Crash, Resume, Still
  <2>4. Explained(asked)
    BY <1>1, <1>a, <2>3 DEF FailureIsExplained
  <2> QED
    BY <2>3, <2>4 DEF Explained, TypeOK
<1>2. CASE state # "FAILED"
  <2>1. Fails
    <3>1. \A v \in Verdicts : v # "FAILED"
      BY VerdictsAre DEF TypeOK
    <3>2. pc = "wave" => Walk[stage] # "FAILED"
      BY WalkInjective, <1>a DEF Where, Terminal
    <3>3. pc = "enter" => Walk[stage] # "FAILED"
      BY WalkInjective, <1>a DEF Where, Stages, Terminal
    <3>4. WaveEnters \/ Enters \/ ReplanEnters \/ Terminates \/ ForcesPartial \/ Fails \/ Cancels
      BY <1>2, <1>m DEF Steps, Still, Open, EnsureReference, WaveWork, WaveMark,
         RoundHead, Pick, Handle, WriteRow, HandlerDone, HandlerRaises, Detour, FinishStage,
         Judge, Compile, ResetSteps, FinishReplan, NextRound, Salvage, SalvageRaises, Crash,
         Resume, Forgets
    <3> QED
      BY <1>2, <3>1, <3>2, <3>3, <3>4 DEF WaveEnters, Enters, ReplanEnters, Terminates,
         ForcesPartial, Cancels, EnterMoves, Moved
  <2>2. UNCHANGED <<waves, asked, raised, resumes>> /\ pc = "fail" /\ ~Over
    BY <1>2, <1>a, <2>1, OverStays DEF Fails
  <2>3. Explained(asked)
    BY <1>a, <2>2 DEF Relies
  <2> QED
    BY <2>2, <2>3 DEF Explained
<1> QED
  BY <1>1, <1>2

LEMMA FailInit == Init => FailIInv
<1> SUFFICES ASSUME Init PROVE FailIInv
  OBVIOUS
<1>1. /\ state = Walk[1] /\ completed = {} /\ pc = "open" /\ resumes = 0
      /\ Walk[1] \notin From(8) /\ Walk[1] \notin From(19) /\ Walk[1] # "FAILED"
  BY WalkNames, FromIs DEF Init
<1>2. DiskFits
  BY <1>1 DEF DiskFits, NoneMarkedFrom, Done
<1>3. Planned /\ BegunIsDone /\ DetourKnown /\ FailureIsExplained
  BY <1>1 DEF Planned, BegunIsDone, DetourKnown, Detoured, FailureIsExplained
<1>4. Relies
  BY <1>1, WalkNames DEF Relies
<1> QED
  BY <1>2, <1>3, <1>4, Init0 DEF FailIInv

LEMMA FailStep == TypeOK /\ FailIInv /\ [Next]_vars => FailIInv'
<1> SUFFICES ASSUME TypeOK, FailIInv, [Next]_vars PROVE FailIInv'
  OBVIOUS
<1>1. Where /\ DiskFits /\ Planned /\ BegunIsDone /\ DetourKnown /\ (Over \/ Relies)
  BY DEF FailIInv
<1>2. Where' /\ DiskFits' /\ Planned'
  BY <1>1, WhereStep, DiskStep, PlannedStep
<1>3. BegunIsDone' /\ DetourKnown'
  BY <1>1, BegunStep, DetourStep
<1>4. (Over' \/ Relies') /\ FailureIsExplained'
  BY ReliesStep, FailureStep
<1> QED
  BY <1>2, <1>3, <1>4 DEF FailIInv

\* Whatever is killed and resumed, and however often: a campaign whose handlers raised
\* nothing is FAILED only after one of the five refusals of Explained.
THEOREM FailuresExplained == Spec => []FailureIsExplained
<1>1. TypeOK /\ FailIInv /\ [Next]_vars => (TypeOK /\ FailIInv)'
  <2>1. FailIInv => Where
    BY DEF FailIInv
  <2> QED
    BY <2>1, TypeStep, FailStep
<1>2. FailIInv => FailureIsExplained
  BY DEF FailIInv
<1> QED
  BY Init0, FailInit, <1>1, <1>2, PTL DEF Spec

-------------------------------------------------------------------------------
(* No evidence is left unseen. *)

LEMMA StoredStep == TypeOK /\ FailIInv /\ ScoredIsStored /\ [Next]_vars => ScoredIsStored'
<1> SUFFICES ASSUME TypeOK, FailIInv, ScoredIsStored, [Next]_vars PROVE ScoredIsStored'
  OBVIOUS
<1> USE DEF Apart, disk, self, history, ScoredIsStored
<1>m. Steps
  BY NextIs DEF FailIInv
<1>a. Where
  BY DEF FailIInv
<1>1. CASE Handle
  <2>1. stage \in {14, 15} => todo' \subseteq cands /\ cands' = cands
    BY <1>1, StageNames DEF Handle, ToDo, TypeOK
  <2>2. UNCHANGED <<matched, authed, stage>> /\ cands \subseteq cands'
    BY <1>1 DEF Handle
  <2> QED
    BY <2>1, <2>2
<1>2. ASSUME NEW c \in Cands, WriteRow(c) PROVE ScoredIsStored'
  <2>1. UNCHANGED <<cands, pc, stage>> /\ todo' = todo \ {c} /\ c \in todo
        /\ pc \in {"work", "saverank", "savepublish"}
    BY <1>2 DEF WriteRow
  <2>2. /\ Walk[stage] = "FINE_MATCHING" <=> stage = 14
        /\ Walk[stage] = "AUTHENTICITY_REVIEW" <=> stage = 15
    BY StageNames DEF TypeOK
  <2>3. /\ matched' = IF stage = 14 THEN matched \cup {c} ELSE matched
        /\ authed' = IF stage = 15 THEN authed \cup {c} ELSE authed
    BY <1>2, <2>2 DEF WriteRow
  <2>4. stage \in {14, 15} => pc = "work"
    BY <2>1, <1>a DEF Where
  <2> QED
    BY <2>1, <2>3, <2>4
<1>3. CASE ~Handle /\ \A c \in Cands : ~WriteRow(c)
  <2>1. UNCHANGED <<matched, authed, cands>> /\ (pc' = "work" => pc = "work")
        /\ (pc' = "work" => UNCHANGED <<stage, todo>>)
    BY <1>3, <1>m DEF Steps, Still, Open, EnsureReference, WaveEnters, WaveWork, WaveMark,
       RoundHead, Pick, Enters, HandlerDone, HandlerRaises, Detour, FinishStage, Judge,
       Compile, ReplanEnters, ResetSteps, FinishReplan, NextRound, Terminates, Salvage,
       SalvageRaises, ForcesPartial, Fails, Cancels, Crash, Resume, EnterMoves, Moved
  <2> QED
    BY <2>1
<1> QED
  BY <1>1, <1>2, <1>3

\* The second round asks for PLANNING_SOURCES and nothing else.
LEMMA SecondRound ==
    ASSUME TypeOK, FailIInv, ~Over, pc = "pick", Again
    PROVE  ~PipelineDone /\ Upcoming = 8
<1>1. Where /\ DiskFits /\ BegunIsDone /\ DetourKnown /\ Relies
  BY DEF FailIInv
<1>2. ~PipelineDone
  <2>1. state \notin From(19)
    BY FromIs DEF Again
  <2> QED
    BY <1>1, <2>1, NextStageFits
<1>3. 8 \in Remaining
  BY DEF Again, NoneMarkedFrom, Done, Remaining, Sequence, Stages, MatchStages
<1>4. Upcoming \in Remaining /\ \A r \in Remaining : Upcoming <= r
  BY <1>2, UpcomingIsFirst DEF PipelineDone
<1>5. Upcoming \in 8..19 /\ Upcoming <= 8
  <2>1. Remaining \subseteq 8..19
    BY DEF Remaining, Sequence, Stages, MatchStages
  <2> QED
    BY <1>3, <1>4, <2>1
<1> QED
  BY <1>2, <1>5

\* What has gone wrong stays on record.
LEMMA HistoryGrows ==
    TypeOK /\ Where /\ [Next]_vars =>
        /\ resumes' = 0 => resumes = 0
        /\ ~raised' => ~raised
        /\ pc = "gone" /\ resumes' = 0 => pc' = "gone"
<1> SUFFICES ASSUME TypeOK, Where, [Next]_vars
             PROVE  /\ resumes' = 0 => resumes = 0
                    /\ ~raised' => ~raised
                    /\ pc = "gone" /\ resumes' = 0 => pc' = "gone"
  OBVIOUS
<1> USE DEF Apart, disk, self, history
<1>m. Steps
  BY NextIs
<1>1. CASE Resume
  BY <1>1 DEF Resume, Forgets, TypeOK
<1>2. CASE ~Resume
  <2>1. resumes' = resumes /\ (raised => raised') /\ (pc = "gone" => pc' = "gone")
    BY <1>2, <1>m DEF Steps, Still, Open, EnsureReference, WaveEnters, WaveWork, WaveMark,
       RoundHead, Pick, Enters, Handle, WriteRow, HandlerDone, HandlerRaises, Detour,
       FinishStage, Judge, Compile, ReplanEnters, ResetSteps, FinishReplan, NextRound,
       Terminates, Salvage, SalvageRaises, ForcesPartial, Fails, Cancels, Crash
  <2> QED
    BY <2>1
<1> QED
  BY <1>1, <1>2

\* The evidence of an undisturbed campaign, step by step.
LEMMA KeptStep == TypeOK /\ FailIInv /\ ScoredIsStored /\ (Undisturbed => EvidenceKept)
                  /\ Undisturbed' /\ [Next]_vars => EvidenceKept'
<1> SUFFICES ASSUME TypeOK, FailIInv, ScoredIsStored, Undisturbed => EvidenceKept,
                    Undisturbed', [Next]_vars
             PROVE  EvidenceKept'
  OBVIOUS
<1> USE DEF Apart, disk, self, history
<1>m. Steps
  BY NextIs DEF FailIInv
<1>a. /\ ~Over /\ ~Over' /\ resumes = 0 /\ resumes' = 0 /\ ~raised /\ ~raised'
      /\ pc # "gone" /\ pc' # "gone"
      /\ Where /\ DiskFits /\ Planned /\ BegunIsDone /\ DetourKnown /\ Relies
      /\ FailIInv /\ ScoredIsStored /\ EvidenceKept /\ "routing" \notin lanes
  <2>1. Where /\ DiskFits /\ Planned /\ BegunIsDone /\ DetourKnown /\ (Over \/ Relies)
    BY DEF FailIInv
  <2>2. ~Over'
    BY DEF Undisturbed
  <2>3. ~Over /\ Relies
    BY <2>1, <2>2, OverStays
  <2>4. /\ resumes = 0 /\ resumes' = 0 /\ ~raised /\ ~raised'
        /\ pc # "gone" /\ pc' # "gone"
    BY <2>1, HistoryGrows DEF Undisturbed
  <2>5. EvidenceKept
    BY <2>3, <2>4 DEF Undisturbed
  <2> QED
    BY <2>1, <2>2, <2>3, <2>4, <2>5 DEF EvidenceKept, Where
<1>s. /\ UNCHANGED <<matched, authed, decided, shown>> =>
         /\ AllDecided' <=> AllDecided
         /\ AllShown' <=> AllShown
         /\ NoneDecided' <=> NoneDecided
         /\ NoneShown' <=> NoneShown
         /\ todo' = todo => (RestDecided' <=> RestDecided) /\ (RestShown' <=> RestShown)
      /\ completed' = completed => (Done(17)' <=> Done(17)) /\ (Done(18)' <=> Done(18))
      /\ UNCHANGED <<state, completed, waves>> => (Again' <=> Again)
  BY DEF AllDecided, AllShown, NoneDecided, NoneShown, RestDecided, RestShown, Evident,
     Done, Again, NoneMarkedFrom
<1>1. CASE Open
  <2>1. UNCHANGED <<state, completed, waves, round, matched, authed, decided, shown,
                    todo, stage, resumes>> /\ pc = "open" /\ turn' = round
    BY <1>1 DEF Open
  <2>2. pc' = "reference"
    BY <1>1, <1>a DEF Open, Over
  <2> QED
    BY <2>1, <2>2, <1>a, <1>s DEF EvidenceKept, Replanned
<1>2. CASE EnsureReference
  <2>1. UNCHANGED <<state, completed, waves, round, turn, matched, authed, decided, shown,
                    todo, resumes>>
        /\ pc = "reference" /\ pc' \in {"round", "wave"}
    BY <1>2 DEF EnsureReference
  <2>2. turn = 1
    BY <2>1, <1>a DEF EvidenceKept
  <2> QED
    BY <2>1, <2>2, <1>a, <1>s DEF EvidenceKept, Replanned
<1>3. CASE WaveEnters
  <2>1. UNCHANGED <<completed, waves, round, turn, matched, authed, decided, shown,
                    todo, stage, resumes>>
        /\ pc = "wave" /\ pc' \in {"wavework", "fail"}
    BY <1>3, <1>a DEF WaveEnters, Moved
  <2>2. turn = 1
    BY <2>1, <1>a DEF EvidenceKept
  <2> QED
    BY <2>1, <2>2, <1>a, <1>s DEF EvidenceKept, Replanned
<1>4. CASE WaveWork
  <2>1. UNCHANGED <<state, completed, round, turn, matched, authed, decided, shown,
                    todo, stage, resumes>> /\ pc = "wavework" /\ pc' = "wavemark"
    BY <1>4 DEF WaveWork
  <2>2. turn = 1
    BY <2>1, <1>a DEF EvidenceKept
  <2> QED
    BY <2>1, <2>2, <1>a, <1>s DEF EvidenceKept, Replanned
<1>5. CASE WaveMark
  <2>1. UNCHANGED <<state, round, turn, matched, authed, decided, shown, resumes>>
        /\ pc = "wavemark" /\ pc' \in {"wave", "round"}
        /\ completed' = completed \cup {state, Walk[stage]}
    BY <1>5 DEF WaveMark, Marked
  <2>2. turn = 1
    BY <2>1, <1>a DEF EvidenceKept
  <2>3. stage \in 2..7 /\ state = Walk[stage]
    BY <2>1, <1>a DEF Where, Relies
  <2>4. Walk[stage] # Walk[17] /\ Walk[stage] # Walk[18]
    BY <2>3, WalkInjective
  <2>5. (Done(17)' <=> Done(17)) /\ (Done(18)' <=> Done(18))
    BY <2>1, <2>3, <2>4 DEF Done
  <2> QED
    BY <2>1, <2>2, <2>5, <1>a, <1>s DEF EvidenceKept, Replanned
<1>6. CASE RoundHead
  <2>1. UNCHANGED <<state, completed, waves, round, turn, matched, authed, decided, shown,
                    todo, stage, resumes>>
        /\ pc = "round"
    BY <1>6 DEF RoundHead
  <2>2. turn <= MaxRounds
    BY RoundsAssumption, <1>a DEF Where
  <2>3. pc' = "pick"
    BY <1>6, <2>2, <1>a, RoundsAssumption DEF RoundHead, Over, Where
  <2> QED
    BY <2>1, <2>3, <1>a, <1>s DEF EvidenceKept, Replanned
<1>7. CASE Pick
  <2>1. UNCHANGED <<state, completed, waves, round, turn, matched, authed, decided, shown,
                    todo, resumes>>
        /\ cands' = cands /\ pc = "pick"
    BY <1>7 DEF Pick
  <2>2. CASE turn # 1
    <3>1. ~PipelineDone /\ Upcoming = 8 /\ Again
      BY <2>1, <2>2, <1>a, SecondRound DEF EvidenceKept
    <3>2. pc' = "salvage" \/ (pc' = "enter" /\ stage' = 8)
      BY <1>7, <3>1, <1>a DEF Pick, MatchStages
    <3> QED
      BY <2>1, <2>2, <3>1, <3>2, <1>a, <1>s DEF EvidenceKept, Replanned
  <2>3. CASE turn = 1 /\ PipelineDone
    <3>1. pc' = "judge" /\ UNCHANGED stage
      BY <1>7, <2>3 DEF Pick
    <3>2. MarkedBefore(20)
      BY <2>1, <2>3, <1>a, NextStageFits
    <3>3. (Done(17) /\ Done(18)) \/ cands = {}
      BY <3>2 DEF MarkedBefore
    <3>4. cands = {} => AllDecided /\ AllShown
      BY <1>a DEF AllDecided, AllShown, Evident, ScoredIsStored
    <3>5. AllDecided /\ AllShown
      BY <3>3, <3>4, <1>a DEF EvidenceKept
    <3> QED
      BY <2>1, <2>3, <3>1, <3>5, <1>a, <1>s DEF EvidenceKept, Replanned
  <2>4. CASE turn = 1 /\ ~PipelineDone
    <3>1. pc' \in {"salvage", "enter"}
      BY <1>7, <2>4, <1>a DEF Pick
    <3> QED
      BY <2>1, <2>4, <3>1, <1>a, <1>s DEF EvidenceKept, Replanned
  <2> QED
    BY <2>2, <2>3, <2>4
<1>8. CASE Enters
  <2>1. UNCHANGED <<completed, waves, round, turn, matched, authed, decided, shown,
                    todo, stage, resumes>>
    BY <1>8 DEF Enters
  <2>2. pc = "enter" /\ pc' \in {"handle", "fail"}
    BY <1>8, <1>a DEF Enters, EnterMoves, Moved, Relies
  <2>3. CASE turn # 1
    <3>1. Again /\ stage = 8
      BY <2>2, <2>3, <1>a DEF EvidenceKept
    <3>2. ~Legal(Walk[stage]) /\ state # Walk[stage]
      BY <3>1, IllegalHere, WalkNames DEF Again, Legal
    <3>3. state' = state /\ pc' = "fail"
      BY <1>8, <2>2, <3>2, <1>a DEF Enters, EnterMoves, Moved, Over
    <3> QED
      BY <2>1, <2>2, <2>3, <3>1, <3>3, <1>a, <1>s DEF EvidenceKept, Replanned
  <2>4. CASE turn = 1
    BY <2>1, <2>2, <2>4, <1>a, <1>s DEF EvidenceKept, Replanned
  <2> QED
    BY <2>3, <2>4
<1>9. CASE Handle
  <2>1. UNCHANGED <<state, completed, waves, round, turn, matched, authed, decided, shown,
                    stage, resumes>> /\ pc = "handle" /\ pc' = "work"
    BY <1>9 DEF Handle
  <2>2. turn = 1 /\ Ready(stage) /\ stage \in 8..19
    BY <2>1, <1>a DEF EvidenceKept, Relies, Where, Stages
  <2>3. stage = 17 => RestDecided'
    <3>1. stage = 17 => todo' = ToRank
      BY <1>9, StageNames DEF Handle, ToDo, TypeOK
    <3>2. stage = 17 => ~Done(17)
      BY <2>2 DEF Ready, NoneMarkedFrom
    <3>3. stage = 17 => NoneDecided
      BY <2>1, <2>2, <3>2, <1>a DEF EvidenceKept, Replanned
    <3> QED
      BY <2>1, <3>1, <3>3, <1>a DEF RestDecided, Evident, ToRank, NoneDecided, ScoredIsStored
  <2>4. stage = 18 => RestShown'
    <3>1. stage = 18 => todo' = ToPublish
      BY <1>9, StageNames DEF Handle, ToDo, TypeOK
    <3>2. stage = 18 => ~Done(18) /\ Done(17)
      BY <2>2 DEF Ready, NoneMarkedFrom, MarkedBefore, MatchStages
    <3>3. stage = 18 => NoneShown /\ AllDecided
      BY <2>1, <2>2, <3>2, <1>a DEF EvidenceKept, Replanned
    <3>4. Evident \subseteq Cands
      BY DEF Evident, TypeOK
    <3> QED
      BY <2>1, <3>1, <3>3, <3>4, <1>a DEF RestShown, Evident, ToPublish, NoneShown, AllDecided
  <2> QED
    BY <2>1, <2>2, <2>3, <2>4, <1>a, <1>s DEF EvidenceKept, Replanned
<1>10. ASSUME NEW c \in Cands, WriteRow(c) PROVE EvidenceKept'
  <2>1. UNCHANGED <<state, completed, waves, round, turn, pc, stage, resumes>>
        /\ todo' = todo \ {c} /\ c \in todo
        /\ pc \in {"work", "saverank", "savepublish"}
    BY <1>10 DEF WriteRow
  <2>2. /\ Walk[stage] = "FINE_MATCHING" <=> stage = 14
        /\ Walk[stage] = "AUTHENTICITY_REVIEW" <=> stage = 15
        /\ Walk[stage] = "RANKING" <=> stage = 17
        /\ Walk[stage] = "PUBLISHING" <=> stage = 18
    BY StageNames DEF TypeOK
  <2>3. pc = "work" => turn = 1 /\ stage \in 8..19 /\ Ready(stage)
    BY <1>a DEF EvidenceKept, Where, Relies, Stages
  <2>4. (pc = "saverank" => stage = 17) /\ (pc = "savepublish" => stage = 18)
    BY <1>a DEF Where
  <2>5. (Done(17)' <=> Done(17)) /\ (Done(18)' <=> Done(18)) /\ (Again' <=> Again)
    BY <2>1 DEF Done, Again, NoneMarkedFrom
  <2>6. CASE stage \in {14, 15}
    <3>1. pc = "work" /\ UNCHANGED <<decided, shown>>
      BY <1>10, <2>1, <2>2, <2>4, <2>6 DEF WriteRow
    <3>2. ~Done(17) /\ ~Done(18) /\ turn = 1
      BY <2>3, <2>6, <3>1 DEF Ready, NoneMarkedFrom
    <3>3. (NoneDecided' <=> NoneDecided) /\ (NoneShown' <=> NoneShown)
      BY <3>1 DEF NoneDecided, NoneShown
    <3> QED
      BY <2>1, <2>5, <2>6, <3>1, <3>2, <3>3, <1>a DEF EvidenceKept, Replanned
  <2>7. CASE stage = 17
    <3>1. UNCHANGED <<matched, authed, shown>> /\ decided' = [decided EXCEPT ![c] = @ + 1]
          /\ pc \in {"work", "saverank"}
      BY <1>10, <2>1, <2>2, <2>4, <2>7 DEF WriteRow
    <3>2. decided'[c] > 0 /\ \A d \in Cands : d # c => decided'[d] = decided[d]
      BY <3>1 DEF TypeOK
    <3>3. Evident \subseteq Cands
      BY DEF Evident, TypeOK
    <3>4. (AllDecided => AllDecided') /\ (RestDecided => RestDecided')
      BY <2>1, <3>1, <3>2, <3>3 DEF AllDecided, RestDecided, Evident
    <3>5. (AllShown' <=> AllShown) /\ (NoneShown' <=> NoneShown)
      BY <3>1 DEF AllShown, NoneShown, Evident
    <3> QED
      BY <2>1, <2>5, <2>7, <3>1, <3>4, <3>5, <1>a DEF EvidenceKept, Replanned
  <2>8. CASE stage = 18
    <3>1. UNCHANGED <<matched, authed, decided>> /\ shown' = [shown EXCEPT ![c] = @ + 1]
          /\ pc \in {"work", "savepublish"}
      BY <1>10, <2>1, <2>2, <2>4, <2>8 DEF WriteRow
    <3>2. shown'[c] > 0 /\ \A d \in Cands : d # c => shown'[d] = shown[d]
      BY <3>1 DEF TypeOK
    <3>3. Evident \subseteq Cands
      BY DEF Evident, TypeOK
    <3>4. (AllShown => AllShown') /\ (RestShown => RestShown')
      BY <2>1, <3>1, <3>2, <3>3 DEF AllShown, RestShown, Evident
    <3>5. (AllDecided' <=> AllDecided) /\ (NoneDecided' <=> NoneDecided)
      BY <3>1 DEF AllDecided, NoneDecided, Evident
    <3> QED
      BY <2>1, <2>5, <2>8, <3>1, <3>4, <3>5, <1>a DEF EvidenceKept, Replanned
  <2>9. CASE stage \notin {14, 15, 17, 18}
    <3>1. pc = "work" /\ UNCHANGED <<matched, authed, decided, shown>>
      BY <1>10, <2>1, <2>2, <2>4, <2>9 DEF WriteRow
    <3> QED
      BY <2>1, <2>3, <2>9, <3>1, <1>a, <1>s DEF EvidenceKept, Replanned
  <2> QED
    BY <2>6, <2>7, <2>8, <2>9
<1>11. CASE HandlerDone
  <2>1. UNCHANGED <<state, completed, waves, round, turn, matched, authed, decided, shown,
                    todo, stage, resumes>> /\ pc = "work" /\ pc' = "finish" /\ todo = {}
    BY <1>11 DEF HandlerDone
  <2>2. (RestDecided => AllDecided) /\ (RestShown => AllShown)
    BY <2>1 DEF RestDecided, RestShown, AllDecided, AllShown
  <2>3. turn = 1
    BY <2>1, <1>a DEF EvidenceKept
  <2> QED
    BY <2>1, <2>2, <2>3, <1>a, <1>s DEF EvidenceKept, Replanned
<1>12. CASE HandlerRaises
  <2>1. UNCHANGED <<state, completed, waves, round, turn, matched, authed, decided, shown,
                    todo, stage, resumes>>
        /\ pc \in {"work", "wavework"} /\ pc' = "salvage" /\ Walk[stage] \in Spending
    BY <1>12, <1>a DEF HandlerRaises
  <2>2. turn = 1
    BY <2>1, <1>a DEF EvidenceKept
  <2>3. stage \in 1..20 /\ stage # 17 /\ stage # 18
    BY <2>1, WalkNames DEF Spending, TypeOK
  <2> QED
    BY <2>1, <2>2, <2>3, <1>a, <1>s DEF EvidenceKept, Replanned
<1>13. CASE Detour
  <2>1. pc = "gaps" /\ "routing" \in lanes /\ mode = "api"
    BY <1>13, <1>a DEF Detour, Relies, Where, EvidenceKept
  <2> QED
    BY <2>1, <1>a DEF Where
<1>14. CASE FinishStage
  <2>1. UNCHANGED <<state, waves, round, turn, matched, authed, decided, shown, todo, stage,
                    resumes>> /\ pc = "finish" /\ pc' = "pick"
        /\ completed' = completed \cup {state, Walk[stage]}
    BY <1>14 DEF FinishStage, Marked
  <2>2. turn = 1
    BY <2>1, <1>a DEF EvidenceKept
  <2>3. stage \in 8..19 /\ state = Walk[stage]
    BY <2>1, <1>a DEF Where, Relies, Stages
  <2>4. (Done(17)' <=> Done(17) \/ stage = 17) /\ (Done(18)' <=> Done(18) \/ stage = 18)
    BY <2>1, <2>3, WalkInjective DEF Done
  <2> QED
    BY <2>1, <2>2, <2>4, <1>a, <1>s DEF EvidenceKept, Replanned
<1>15. CASE Judge
  <2>1. UNCHANGED <<state, completed, waves, round, turn, matched, authed, decided, shown,
                    todo, stage, resumes>>
        /\ pc = "judge" /\ pc' \in {"terminate", "compile"}
    BY <1>15, <1>a DEF Judge, Over
  <2> QED
    BY <2>1, <1>a, <1>s DEF EvidenceKept, Replanned
<1>16. CASE Compile
  <2>1. UNCHANGED <<state, completed, round, turn, matched, authed, decided, shown,
                    todo, stage, resumes>>
        /\ pc = "compile" /\ pc' \in {"terminate", "replan"}
    BY <1>16 DEF Compile
  <2>2. turn = 1
    BY <2>1, <1>a DEF Where
  <2> QED
    BY <2>1, <2>2, <1>a, <1>s DEF EvidenceKept, Replanned
<1>17. CASE ReplanEnters
  <2>1. UNCHANGED <<completed, waves, round, turn, matched, authed, decided, shown,
                    todo, stage, resumes>>
        /\ \/ pc = "replan" /\ pc' \in {"reset", "fail"}
           \/ pc = "rediscover" /\ pc' \in {"nextround", "fail"}
    BY <1>17, <1>a DEF ReplanEnters, EnterMoves, Moved
  <2>2. turn = 1
    BY <2>1, <1>a DEF Where
  <2>3. AllDecided /\ AllShown
    BY <2>1, <1>a DEF EvidenceKept, Replanned
  <2> QED
    BY <2>1, <2>2, <2>3, <1>a, <1>s DEF EvidenceKept, Replanned
<1>18. CASE ResetSteps
  <2>1. UNCHANGED <<round, turn, matched, authed, decided, shown, resumes>>
        /\ completed' \subseteq {"PLANNING_QUERIES"}
        /\ pc = "reset" /\ pc' = "finishreplan"
    BY <1>18 DEF ResetSteps
  <2>2. turn = 1
    BY <2>1, <1>a DEF Where
  <2>3. ~Done(17)' /\ ~Done(18)'
    BY <2>1, StageNames DEF Done
  <2>4. AllDecided /\ AllShown
    BY <2>1, <1>a DEF EvidenceKept
  <2> QED
    BY <2>1, <2>2, <2>3, <2>4, <1>a, <1>s DEF EvidenceKept, Replanned
<1>19. CASE FinishReplan
  <2>1. UNCHANGED <<round, turn, matched, authed, decided, shown, resumes>>
        /\ pc = "finishreplan" /\ pc' = "rediscover"
        /\ completed' = completed \cup {state, "REPLANNING"}
    BY <1>19 DEF FinishReplan
  <2>2. turn = 1
    BY <2>1, <1>a DEF Where
  <2>3. AllDecided /\ AllShown
    BY <2>1, <1>a DEF EvidenceKept, Replanned
  <2> QED
    BY <2>1, <2>2, <2>3, <1>a, <1>s DEF EvidenceKept, Replanned
<1>20. CASE NextRound
  <2>1. UNCHANGED <<state, completed, waves, matched, authed, decided, shown, resumes>>
        /\ pc = "nextround" /\ pc' = "round" /\ turn' = turn + 1 /\ round' = turn + 1
    BY <1>20 DEF NextRound
  <2>2. Again /\ AllDecided /\ AllShown
    BY <2>1, <1>a DEF EvidenceKept, Replanned, Relies
  <2>3. turn' # 1
    BY <2>1, <1>a DEF Where
  <2> QED
    BY <2>1, <2>2, <2>3, <1>a, <1>s DEF EvidenceKept, Replanned
<1>21. CASE Terminates
  <2>1. UNCHANGED <<completed, waves, round, turn, matched, authed, decided, shown,
                    todo, stage, resumes>>
        /\ pc = "terminate"
    BY <1>21 DEF Terminates
  <2>2. \A v \in Verdicts : v \in Terminal
    BY VerdictsAre DEF TypeOK, Terminal
  <2>3. state' = state /\ pc' = "fail"
    BY <1>21, <2>2, <1>a DEF Terminates, Moved, Over
  <2>4. turn = 1 /\ AllDecided /\ AllShown
    BY <2>1, <1>a DEF EvidenceKept
  <2> QED
    BY <2>1, <2>3, <2>4, <1>a, <1>s DEF EvidenceKept, Replanned
<1>22. CASE Salvage
  <2>1. UNCHANGED <<state, completed, waves, round, turn, matched, authed, decided, shown,
                    resumes>>
    BY <1>22 DEF Salvage
  <2>2. CASE pc = "salvage"
    <3>1. pc' = "saverank" /\ stage' = 17 /\ todo' = ToRank
      BY <1>22, <2>2, <1>a DEF Salvage, Over
    <3>2. NoneDecided => RestDecided'
      BY <2>1, <3>1, <1>a DEF RestDecided, Evident, ToRank, NoneDecided, ScoredIsStored
    <3>3. AllDecided => RestDecided'
      BY <2>1 DEF RestDecided, Evident, AllDecided
    <3> QED
      BY <2>1, <2>2, <3>1, <3>2, <3>3, <1>a, <1>s DEF EvidenceKept, Replanned
  <2>3. CASE pc = "saverank"
    <3>1. pc' = "savepublish" /\ stage' = 18 /\ todo' = ToPublish /\ todo = {}
      BY <1>22, <2>3 DEF Salvage
    <3>2. AllDecided
      BY <2>3, <3>1, <1>a DEF EvidenceKept, RestDecided, AllDecided
    <3>3. Evident \subseteq Cands
      BY DEF Evident, TypeOK
    <3>4. NoneShown => RestShown'
      BY <2>1, <3>1, <3>2, <3>3 DEF RestShown, Evident, ToPublish, NoneShown, AllDecided
    <3>5. AllShown => RestShown'
      BY <2>1 DEF RestShown, Evident, AllShown
    <3> QED
      BY <2>1, <2>3, <3>1, <3>2, <3>4, <3>5, <1>a, <1>s DEF EvidenceKept, Replanned
  <2>4. CASE pc = "savepublish"
    <3>1. pc' = "partial" /\ todo = {}
      BY <1>22, <2>4 DEF Salvage
    <3>2. AllShown
      BY <2>4, <3>1, <1>a DEF EvidenceKept, RestShown, AllShown
    <3> QED
      BY <2>1, <2>4, <3>1, <3>2, <1>a, <1>s DEF EvidenceKept, Replanned
  <2> QED
    BY <1>22, <2>2, <2>3, <2>4 DEF Salvage
<1>23. CASE SalvageRaises
  BY <1>23, <1>a DEF SalvageRaises
<1>24. CASE ForcesPartial
  <2>1. UNCHANGED <<completed, waves, round, turn, matched, authed, decided, shown,
                    todo, stage, resumes>>
        /\ pc = "partial"
    BY <1>24 DEF ForcesPartial
  <2>2. mode = "api"
    BY <1>a DEF EvidenceKept, Where
  <2>3. state' = state /\ pc' = "fail"
    BY <1>24, <2>2, <1>a DEF ForcesPartial, Over, Terminal
  <2>4. AllShown
    BY <2>1, <1>a DEF EvidenceKept
  <2> QED
    BY <2>1, <2>3, <2>4, <1>a, <1>s DEF EvidenceKept, Replanned
<1>25. CASE Fails
  <2>1. Legal("FAILED")
    <3>1. state \in From(1) /\ pc = "fail"
      BY <1>25, <1>a, FromIs DEF Fails, Over, TypeOK
    <3> QED
      BY <3>1, LegalHere DEF Legal, GuardsHold, ContextFromDisk
  <2>2. state' = "FAILED"
    BY <1>25, <2>1, <1>a DEF Fails, Over
  <2> QED
    BY <2>2, <1>a DEF Over, Terminal
<1>26. CASE Cancels
  BY <1>26, <1>a DEF Cancels, Over, Terminal
<1>27. CASE Crash
  BY <1>27, <1>a DEF Crash, Forgets, TypeOK
<1>28. CASE Resume
  BY <1>28, <1>a DEF Resume, Forgets, EvidenceKept
<1>29. CASE Still
  <2>1. UNCHANGED <<state, completed, waves, round, turn, matched, authed, decided, shown,
                    todo, stage, resumes>> /\ pc' = pc
    BY <1>29 DEF Still
  <2> QED
    BY <2>1, <1>a, <1>s DEF EvidenceKept, Replanned
<1> QED
  BY <1>1, <1>2, <1>3, <1>4, <1>5, <1>6, <1>7, <1>8, <1>9, <1>10, <1>11, <1>12, <1>13,
     <1>14, <1>15, <1>16, <1>17, <1>18, <1>19, <1>20, <1>21, <1>22, <1>23, <1>24,
     <1>25, <1>26, <1>27, <1>28, <1>29, <1>m DEF Steps

\* Only _terminate and the forced end make a campaign COMPLETE or PARTIAL, and by then
\* everything with evidence is shown.
LEMMA SeenStep ==
    TypeOK /\ FailIInv /\ EvidenceIInv /\ PublishedOnce' /\ [Next]_vars
    => EvidenceIsPublished'
<1> SUFFICES ASSUME TypeOK, FailIInv, EvidenceIInv, PublishedOnce', [Next]_vars,
                    state' \in {"COMPLETE", "PARTIAL"}, resumes' = 0, ~raised'
             PROVE  \A c \in matched' \cap authed' : shown'[c] = 1
  BY DEF EvidenceIsPublished
<1> USE DEF Apart, disk, self, history
<1>m. Steps
  BY NextIs DEF FailIInv
<1>a. Where /\ (Undisturbed => EvidenceKept) /\ EvidenceIsPublished
  BY DEF FailIInv, EvidenceIInv
<1>b. resumes = 0 /\ ~raised
  BY <1>a, HistoryGrows
<1>d. ASSUME UNCHANGED <<matched, authed, shown>>, AllShown
      PROVE  \A c \in matched' \cap authed' : shown'[c] = 1
  <2> SUFFICES ASSUME NEW c \in matched \cap authed PROVE shown[c] = 1
    BY <1>d
  <2>1. c \in Cands /\ shown[c] \in Nat
    BY DEF TypeOK
  <2>2. shown[c] > 0
    BY <1>d DEF AllShown, Evident
  <2>3. shown[c] <= 1
    BY <1>d, <2>1 DEF PublishedOnce
  <2> QED
    BY <2>1, <2>2, <2>3
<1>1. CASE Over
  <2>1. state' = state
    BY <1>1, <1>a, OverStays
  <2>2. pc \in {"gone", "open"}
    BY <1>1, <1>a, <2>1 DEF Where
  <2>3. UNCHANGED <<matched, authed, shown>>
    BY <2>2, <1>m DEF Steps, Still, Open, EnsureReference, WaveEnters, WaveWork,
       WaveMark, RoundHead, Pick, Enters, Handle, WriteRow, HandlerDone, HandlerRaises,
       Detour, FinishStage, Judge, Compile, ReplanEnters, ResetSteps, FinishReplan,
       NextRound, Terminates, Salvage, SalvageRaises, ForcesPartial, Fails, Cancels, Crash,
       Resume, Forgets
  <2> QED
    BY <1>a, <1>b, <2>1, <2>3 DEF EvidenceIsPublished
<1>2. CASE ~Over
  <2>1. state' # state
    BY <1>2 DEF Over, Terminal
  <2>2. pc = "wave" => Walk[stage] \notin {"COMPLETE", "PARTIAL"}
    BY WalkInjective, <1>a DEF Where, Terminal
  <2>3. pc = "enter" => Walk[stage] \notin {"COMPLETE", "PARTIAL"}
    BY WalkInjective, <1>a DEF Where, Stages, Terminal
  <2>4. WaveEnters \/ Enters \/ ReplanEnters \/ Terminates \/ ForcesPartial \/ Fails \/ Cancels
    BY <2>1, <1>m DEF Steps, Still, Open, EnsureReference, WaveWork, WaveMark,
       RoundHead, Pick, Handle, WriteRow, HandlerDone, HandlerRaises, Detour, FinishStage,
       Judge, Compile, ResetSteps, FinishReplan, NextRound, Salvage, SalvageRaises, Crash,
       Resume, Forgets
  <2>5. Terminates \/ ForcesPartial
    BY <2>1, <2>2, <2>3, <2>4 DEF WaveEnters, Enters, ReplanEnters, Fails, Cancels, EnterMoves,
       Moved
  <2>6. UNCHANGED <<matched, authed, shown>> /\ pc \in {"terminate", "partial"}
    BY <2>5 DEF Terminates, ForcesPartial
  <2>7. AllShown
    BY <1>2, <1>a, <1>b, <2>6 DEF Undisturbed, EvidenceKept
  <2> QED
    BY <2>6, <2>7, <1>d
<1> QED
  BY <1>1, <1>2

LEMMA EvidenceInit == Init => EvidenceIInv
<1> SUFFICES ASSUME Init PROVE EvidenceIInv
  OBVIOUS
<1>1. /\ matched = {} /\ authed = {} /\ cands = {} /\ completed = {} /\ pc = "open"
      /\ resumes = 0 /\ turn = 1 /\ round = 1 /\ state = Walk[1]
  BY WalkNames DEF Init
<1>2. ScoredIsStored
  BY <1>1 DEF ScoredIsStored
<1>3. NoneDecided /\ NoneShown
  BY DEF Init, NoneDecided, NoneShown
<1>4. EvidenceKept
  BY <1>1, <1>3 DEF EvidenceKept, Done, Replanned
<1>5. EvidenceIsPublished
  BY <1>1 DEF EvidenceIsPublished
<1> QED
  BY <1>2, <1>4, <1>5 DEF EvidenceIInv

\* However a campaign came to COMPLETE or PARTIAL, a budget stop in the middle included:
\* if it was not resumed and its handlers did not fail, each candidate with both kinds of
\* evidence is published, and once.
THEOREM EvidenceIsSeen == Spec => []EvidenceIsPublished
<1> DEFINE IInv == TypeOK /\ FailIInv /\ OnceIInv /\ EvidenceIInv
<1>1. Init => IInv
  BY Init0, FailInit, OnceInit, EvidenceInit
<1>2. IInv /\ [Next]_vars => IInv'
  <2> SUFFICES ASSUME IInv, [Next]_vars PROVE IInv'
    OBVIOUS
  <2>1. Where /\ ScoredIsStored /\ (Undisturbed => EvidenceKept)
    BY DEF FailIInv, EvidenceIInv
  <2>2. TypeOK' /\ FailIInv' /\ OnceIInv'
    BY <2>1, TypeStep, FailStep, OnceStep
  <2>3. ScoredIsStored' /\ (Undisturbed' => EvidenceKept')
    BY <2>1, StoredStep, KeptStep
  <2>4. EvidenceIsPublished'
    BY <2>2, SeenStep DEF OnceIInv
  <2> QED
    BY <2>2, <2>3, <2>4 DEF EvidenceIInv
<1>3. IInv => EvidenceIsPublished
  BY DEF EvidenceIInv
<1> QED
  BY <1>1, <1>2, <1>3, PTL DEF Spec

-------------------------------------------------------------------------------
(* What CampaignEnds rests on: why a worker leaves. *)

\* The campaign is over, or some cancel is on its way to the row, or has lost it.
Told == Over \/ beaten \/ request \in {"flagged", "here"}

\* The flag comes from a cancel, and is all a worker leaves an open campaign for; a resumed
\* one may also find PARTIAL illegal.
LeavesIInv ==
    /\ flag => Told
    /\ pc = "gone" => Told \/ crashes > 0 \/ resumes > 0

LEMMA ToldStays == TypeOK /\ Where /\ Told /\ [Next]_vars => Told' \/ Crash
<1> SUFFICES ASSUME TypeOK, Where, Told, [Next]_vars PROVE Told' \/ Crash
  OBVIOUS
<1> USE DEF race
<1>1. CASE Over
  BY <1>1, OverStays DEF Told
<1>2. CASE WaveEnter \/ Enter \/ ReplanEnter \/ Terminate \/ ForcePartial \/ Fail
  <2>1. \/ UNCHANGED <<request, beaten>>
        \/ Overtake
    BY <1>2 DEF WaveEnter, Enter, ReplanEnter, Terminate, ForcePartial, Fail, EnterState,
       Transit, LookAtFlag, Passes, Arrive
  <2> QED
    BY <1>1, <2>1 DEF Told, Overtake, HasRead
<1>3. CASE Cancel \/ CancelStep
  BY <1>1, <1>3 DEF Cancel, CancelStep, CancelLooks, CancelWrites, Told, Over, Terminal,
     HasRead
<1>4. CASE ~(\/ WaveEnter \/ Enter \/ ReplanEnter \/ Terminate \/ ForcePartial \/ Fail
             \/ Cancel \/ CancelStep \/ Crash)
  <2>1. UNCHANGED <<request, beaten>>
    BY <1>4 DEF Next, WorkerStep, vars, Open, EnsureReference, WaveWork, WaveMark,
       RoundHead, Pick, Handle, WriteRow, HandlerDone, HandlerRaises, Detour, FinishStage,
       Judge, Compile, ResetSteps, FinishReplan, NextRound, Salvage, SalvageRaises, Resume
  <2> QED
    BY <1>1, <2>1 DEF Told
<1> QED
  BY <1>2, <1>3, <1>4

LEMMA LeavesStep ==
    TypeOK /\ Where /\ LeavesIInv /\ [Next]_vars => LeavesIInv'
<1> SUFFICES ASSUME TypeOK, Where, LeavesIInv, [Next]_vars PROVE LeavesIInv'
  OBVIOUS
<1> USE DEF disk, self, history
<1>a. Told => Told' \/ Crash
  BY ToldStays
<1>b. /\ crashes \in Nat /\ resumes \in Nat /\ (mode = "cli" => resumes > 0)
      /\ Over => Told
  BY LivesAssumption DEF TypeOK, Where, Told
<1>1. CASE Crash
  BY <1>1, <1>b DEF Crash, Forgets, LeavesIInv
<1>2. CASE Resume
  BY <1>2 DEF Resume, Forgets, LeavesIInv
<1>3. CASE Cancel
  <2>1. /\ pc' = pc /\ crashes' = crashes /\ resumes' = resumes /\ beaten' = beaten
        /\ request = "none" /\ state' = state
        /\ flag' = flag \/ request' = "flagged"
    BY <1>3 DEF Cancel
  <2> QED
    BY <1>b, <2>1 DEF LeavesIInv, Told, Over
<1>4. CASE ~(Crash \/ Resume \/ Cancel)
  <2>1. flag' = flag /\ resumes' = resumes /\ crashes' = crashes
    BY <1>4 DEF Next, WorkerStep, CancelStep, vars, Open, EnsureReference, WaveEnter,
       WaveWork, WaveMark, RoundHead, Pick, Enter, Handle, WriteRow, HandlerDone,
       HandlerRaises, Detour, FinishStage, Judge, Compile, ReplanEnter, ResetSteps,
       FinishReplan, NextRound, Terminate, Salvage, SalvageRaises, ForcePartial, Fail,
       CancelLooks, CancelWrites
  <2>2. pc' = "gone" => pc = "gone" \/ Told \/ Over' \/ resumes > 0
    <3>1. CASE WaveEnter \/ Enter \/ ReplanEnter
      BY <1>b, <3>1 DEF WaveEnter, Enter, ReplanEnter, EnterState, Transit, LookAtFlag,
         Passes, Arrive, LeavesIInv
    <3>2. CASE Terminate
      <4>1. \A v \in Verdicts : v \in Terminal
        BY VerdictsAre DEF TypeOK, Terminal
      <4> QED
        BY <1>b, <3>2, <4>1 DEF Terminate, LookAtFlag, Passes, Arrive, LeavesIInv, Over
    <3>3. CASE ForcePartial
      BY <1>b, <3>3 DEF ForcePartial, LookAtFlag, Passes, Arrive, LeavesIInv, Over, Terminal,
         TypeOK
    <3>4. CASE Fail
      <4>1. Over \/ Legal("FAILED")
        BY <3>4, LegalHere, FromIs DEF Fail, Over, TypeOK, Legal, GuardsHold, ContextFromDisk
      <4> QED
        BY <1>b, <3>4, <4>1 DEF Fail, LookAtFlag, Passes, LeavesIInv, Over, Terminal
    <3>5. CASE Open \/ RoundHead \/ Pick \/ HandlerRaises \/ Judge
      BY <1>b, <3>5 DEF Open, RoundHead, Pick, HandlerRaises, Judge, LeavesIInv, Over
    <3>6. CASE ~(\/ WaveEnter \/ Enter \/ ReplanEnter \/ Terminate \/ ForcePartial \/ Fail
                 \/ Open \/ RoundHead \/ Pick \/ HandlerRaises \/ Judge)
      BY <1>4, <3>6 DEF Next, WorkerStep, CancelStep, vars, EnsureReference, WaveWork,
         WaveMark, Handle, WriteRow, HandlerDone, Detour, FinishStage, Compile, ResetSteps,
         FinishReplan, NextRound, Salvage, SalvageRaises, CancelLooks, CancelWrites
    <3> QED
      BY <3>1, <3>2, <3>3, <3>4, <3>5, <3>6
  <2>3. Over' => Told'
    BY DEF Told
  <2> QED
    BY <1>4, <1>a, <2>1, <2>2, <2>3 DEF LeavesIInv
<1> QED
  BY <1>1, <1>2, <1>3, <1>4

\* Whatever the first worker of a campaign asks for, is refused or raises: it leaves the
\* campaign open only if its process dies, or to a cancel that set its flag and has still
\* to write the row, or has lost it to another transition.
THEOREM WorkerStays ==
    Spec => [](pc = "gone" /\ state \notin Terminal =>
                  \/ crashes > 0 \/ resumes > 0
                  \/ beaten \/ request \in {"flagged", "here"})
<1> DEFINE Stays == pc = "gone" /\ state \notin Terminal =>
                       \/ crashes > 0 \/ resumes > 0
                       \/ beaten \/ request \in {"flagged", "here"}
<1>1. Init => LeavesIInv
  BY DEF Init, LeavesIInv
<1>2. TypeOK /\ Where /\ LeavesIInv /\ [Next]_vars => (TypeOK /\ Where /\ LeavesIInv)'
  BY TypeStep, WhereStep, LeavesStep
<1>3. LeavesIInv => Stays
  BY DEF LeavesIInv, Told, Over
<1> QED
  BY Init0, <1>1, <1>2, <1>3, PTL DEF Spec
===============================================================================
