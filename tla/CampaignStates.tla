---------------------------- MODULE CampaignStates ----------------------------
(***************************************************************************)
(* The campaign state graph of campaigns/transitions.py and                *)
(* campaigns/states.py: the states, the legal edges and the guards that a  *)
(* transition evaluates on its context.  The other modules take the graph  *)
(* from here, as every caller in the program takes it from assert_legal.   *)
(***************************************************************************)
EXTENDS Naturals, Sequences

\* The happy path, in order: every state has an edge to its successor.
Walk == << "CREATED", "VALIDATING_INPUT", "INGESTING_REFERENCES",
           "CALIBRATING_REFERENCES", "DECOMPOSING_REFERENCES",
           "FORMING_HYPOTHESES", "PLANNING_QUERIES", "PLANNING_SOURCES",
           "DISCOVERING", "ACQUIRING", "NORMALIZING", "DEDUPLICATING",
           "BROAD_RETRIEVAL", "FINE_MATCHING", "AUTHENTICITY_REVIEW",
           "LIVE_CHECKING", "RANKING", "PUBLISHING", "GAP_ANALYSIS",
           "REPLANNING" >>

Active == {Walk[i] : i \in 1..20}

\* states.is_terminal: the TERMINAL_STATES of contracts/enums.py.
Terminal == {"COMPLETE", "PARTIAL", "BLOCKED", "FAILED", "CANCELLED"}

States == Active \cup Terminal

\* The states of the walk from index i on.
From(i) == {Walk[j] : j \in i..20}

\* The edges of _FORWARD, written as unions: the walk, the loops and short
\* cuts, and the terminal exits each stretch of the walk has.
ForwardEdges ==
    {<<Walk[i], Walk[i + 1]>> : i \in 1..19}
    \cup { <<"DISCOVERING", "REPLANNING">>,
           <<"ACQUIRING", "DISCOVERING">>,
           <<"BROAD_RETRIEVAL", "GAP_ANALYSIS">>,
           <<"FINE_MATCHING", "GAP_ANALYSIS">>,
           <<"REPLANNING", "PLANNING_QUERIES">>,
           <<"REPLANNING", "PLANNING_SOURCES">>,
           <<"REPLANNING", "DISCOVERING">> }

ExitEdges ==
    (From(1) \X {"CANCELLED", "FAILED"})
    \cup (From(2) \X {"BLOCKED"})
    \cup (From(9) \X {"PARTIAL"})
    \cup (From(18) \X {"COMPLETE"})

LegalEdges == ForwardEdges \cup ExitEdges

\* assert_legal: no edge leaves a terminal state, and the graph decides the rest.
IsLegal(source, target) ==
    /\ source \notin Terminal
    /\ <<source, target>> \in LegalEdges

(***************************************************************************)
(* assert_invariants.  A context is a record of the TransitionContext      *)
(* fields its guards read; candidates stands for "at least one normalised  *)
(* candidate", receipt for "an exhaustion or a saturation receipt", and    *)
(* internalDefect for an error_class in _INTERNAL_FAILURES with a reason   *)
(* that does not speak of zero matches.                                    *)
(***************************************************************************)
Contexts == [ searchable     : BOOLEAN,   \* has_query or has_visual_representation
              candidates     : BOOLEAN,
              sellerTextOnly : BOOLEAN,
              evidence       : BOOLEAN,   \* has_visual_or_normalized_evidence
              receipt        : BOOLEAN,
              internalDefect : BOOLEAN ]

GuardsHold(target, ctx) ==
    /\ target = "DISCOVERING" => ctx.searchable
    /\ target = "FINE_MATCHING" => ctx.candidates
    /\ target = "AUTHENTICITY_REVIEW" => ctx.evidence /\ ~ctx.sellerTextOnly
    /\ target = "COMPLETE" => ctx.receipt
    /\ target = "FAILED" => ctx.internalDefect
===============================================================================
