------------------------------ MODULE Retrieval -------------------------------
(***************************************************************************)
(* Which of the listings found are worth a comparison, and in which order  *)
(* the decided ones stand: retrieval/broad.py and signals.py, the stages   *)
(* _broad to _rank of campaigns/orchestrator.py over the rounds of a       *)
(* campaign, and ranking/pipeline.py (judge_candidates) with order.py,     *)
(* diversity.py and utility.py, by which the vision worker judges.         *)
(*                                                                         *)
(* A listing is a record of title and said (the words of its title, and of *)
(* the rest of it; what reads like an instruction is left out of both), cat*)
(* (what the title calls it), hashes, tints and shapes of its photographs, *)
(* alike (the embedding's opinion, or -1), offer, match, auth and complete *)
(* (what Evidence makes of it), avail, dest, size ("none", "same" or       *)
(* "other"), cost ("none", "fits" or "over"), described, and family        *)
(* ("none" without a cluster and photographs).                             *)
(* Scores are thousandths.                                                 *)
(***************************************************************************)
EXTENDS Verdict

CONSTANTS Wanted,       \* the hypothesis: brand, words, aliases, codes and what is read off
                        \* the photographs, ocr; cat; their hashes, tints and shape
          Years,        \* pairs of a year's two digits and its four
          Hauls,        \* what a round may find: sequences of listings
          BroadCap,     \* broad_candidates: 500
          FineCap,      \* FINE_COMPARE_CAP: 8
          PartCap, DeepCap,         \* part_matching: 50, deep_authenticity: 10
          DeliberateCap,            \* deliberative_review: 15
          MaxHauls                  \* max_rounds

VARIABLES rows,         \* the candidates, in the order they were found
          kept,         \* _kept_ids, as places in rows
          compared,     \* those with match and authenticity scores
          decided,      \* the decisions, in order
          tabs,         \* what the vision worker answers: its two tabs, and what it did
          step, haul    \* "find", "broad", "compare", "rank", "replan" or "over"

retrievalVars == <<rows, kept, compared, decided, tabs, step, haul>>

-------------------------------------------------------------------------------
(* compute_cheap_signals *)

\* tokenize: a year counts in its long form and in its short one.
Tokens(words) == words \cup {y[2] : y \in {z \in Years : z[1] \in words}}
                       \cup {y[1] : y \in {z \in Years : z[2] \in words}}

HypothesisTerms ==
    Tokens({Wanted.brand} \cup Wanted.words \cup Wanted.aliases \cup Wanted.codes \cup Wanted.ocr)
ListingTerms(l) == Tokens(l.title \cup l.said)

\* text_identity: jaccard and containment.
TextIdentity(a, b) ==
    LET common == Cardinality(a \cap b)
        smaller == Lesser(Cardinality(a), Cardinality(b))
    IN  IF smaller = 0 THEN 0
        ELSE ( 55 * ((1000 * common) \div Cardinality(a \cup b))
             + 45 * ((1000 * common) \div smaller) ) \div 100

\* The best of any pair of photographs; 0 if one side has none.
BestOf(As, Bs, Like(_, _)) ==
    LET likes == {Like(a, b) : a \in As, b \in Bs}
    IN  IF likes = {} THEN 0 ELSE CHOOSE m \in likes : \A n \in likes : n <= m

HashLike(a, b) == Greater(0, 1000 - (1000 * Gap(a, b)) \div 64)
TintLike(a, b) == Greater(0, 1000 - Gap(a, b))
Silhouette(l, perceptual) ==
    IF Wanted.shape = 0 \/ l.shapes = {} THEN 0
    ELSE IF Wanted.shape \in l.shapes THEN 1000 ELSE (35 * perceptual) \div 100
CategoryFit(l) ==
    IF Wanted.cat = "none" THEN 0
    ELSE IF l.cat = "none" THEN 400 ELSE IF l.cat = Wanted.cat THEN 1000 ELSE 150

Recall(l) ==
    LET perceptual == BestOf(Wanted.hashes, l.hashes, HashLike)
        cheap == ( 32 * TextIdentity(HypothesisTerms, ListingTerms(l))
                 + 12 * TextIdentity(Tokens(Wanted.ocr), ListingTerms(l))
                 + 22 * perceptual
                 + 14 * BestOf(Wanted.tints, l.tints, TintLike)
                 + 8 * Silhouette(l, perceptual)
                 + 7 * CategoryFit(l)
                 + 5 * (IF Wanted.brand \in ListingTerms(l) THEN 1000 ELSE 0) ) \div 100
    IN  IF l.alike = -1 THEN cheap ELSE Clamp((85 * cheap + 15 * l.alike) \div 100)

-------------------------------------------------------------------------------
(* retrieve_broad, select_kept_ids *)

\* Mutated form of Hits: in the order of discovery.
HitsUnsorted(rs) == [i \in DOMAIN rs |-> i]

\* The places of the listings, the highest recall first; equal ones as they were found.
Hits(rs) ==
    SortSeq([i \in DOMAIN rs |-> i],
            LAMBDA i, j : \/ Recall(rs[i]) > Recall(rs[j])
                          \/ Recall(rs[i]) = Recall(rs[j]) /\ i < j)

\* KEEP_THRESHOLD is halved, for the rare item of few words; what is over it only says so.
KeepThreshold == 120
InBroad(rs) ==
    LET hits == Hits(rs)
        \* a sequence in falling order: those over the threshold come first
        n == Cardinality({k \in DOMAIN hits : 2 * Recall(rs[hits[k]]) >= KeepThreshold})
    IN  SubSeq(hits, 1, Lesser(n, BroadCap))

\* Nothing over the threshold: all of them.
Ranked(rs) == IF InBroad(rs) = <<>> THEN Hits(rs) ELSE InBroad(rs)

SelectKept(ranked, all) ==
    LET rest == SelectSeq(all, LAMBDA i : \A k \in DOMAIN ranked : ranked[k] # i)
    IN  SubSeq(ranked \o rest, 1, Lesser(FineCap, Len(all)))

-------------------------------------------------------------------------------
(* Ranking within a tab *)

\* listing_utility, the parts of it that order a tab.
Live(l) == IF l.avail = "LIVE" THEN 1000 ELSE 0
SizeMatch(l) == CASE l.size = "same" -> 1000 [] l.size = "other" -> 200 [] OTHER -> 0
PriceFit(l) == CASE l.cost = "fits" -> 1000 [] l.cost = "over" -> 200 [] OTHER -> 0
Coverage(l) == Lesser(1000, 250 * Cardinality(l.hashes))

RealKey(l) ==
    <<l.match.lower, l.auth.lower, l.complete, Live(l), SizeMatch(l), Coverage(l), PriceFit(l)>>
PossiblyKey(l) ==
    << l.match.lower, Greater(0, 1000 - l.complete), l.auth.lower,
       Live(l), SizeMatch(l), Coverage(l) >>
SortKey(bucket, l) == IF bucket = "real" THEN RealKey(l) ELSE PossiblyKey(l)

Over(a, b) == \E i \in DOMAIN a : a[i] > b[i] /\ \A j \in 1..(i - 1) : a[j] = b[j]

\* route_candidate as judge_candidates calls it: the page is taken for live-checked.
Judged(l, reused) ==
    Route([ offer |-> l.offer, match |-> l.match, auth |-> l.auth, complete |-> l.complete,
            avail |-> l.avail, dest |-> l.dest, attested |-> FALSE, liveChecked |-> TRUE,
            stolen |-> reused, screened |-> TRUE ])

\* rank_tab: a stable sort of the places of one bucket.
RankTab(bucket, places, bucketOf) ==
    LET mine == SelectSeq(places, LAMBDA i : bucketOf[i] = bucket)
        order == SortSeq([k \in DOMAIN mine |-> k],
                     LAMBDA k, m :
                         LET a == SortKey(bucket, rows[mine[k]])
                             b == SortKey(bucket, rows[mine[m]])
                         IN  Over(a, b) \/ (~Over(b, a) /\ k < m))
    IN  [k \in DOMAIN mine |-> mine[order[k]]]

\* Without a cluster and without photographs a listing is a family of its own.
SameFamily(i, j) == i = j \/ (rows[i].family = rows[j].family /\ rows[i].family # "none")

Nth(places, n) == CHOOSE k \in places : Cardinality({m \in places : m <= k}) = n

\* diversify: the first of each family, then the others, each as they stood.
Diversified(tab) ==
    LET first == {k \in DOMAIN tab : \A m \in 1..(k - 1) : ~SameFamily(tab[k], tab[m])}
        n == Cardinality(first)
    IN  [p \in DOMAIN tab |-> IF p <= n THEN tab[Nth(first, p)]
                                        ELSE tab[Nth(DOMAIN tab \ first, p - n)]]

-------------------------------------------------------------------------------
NoTabs == [judged |-> <<>>, real |-> <<>>, possibly_real |-> <<>>, deep |-> {}, advised |-> {}]

RetrievalInit ==
    /\ rows = <<>> /\ kept = <<>> /\ compared = {} /\ decided = <<>> /\ tabs = NoTabs
    /\ step = "find" /\ haul = 0

\* A round of discovery adds its listings behind those there are.
Find(found) ==
    /\ step = "find"
    /\ rows' = rows \o found
    /\ haul' = haul + 1
    /\ step' = "broad"
    /\ UNCHANGED <<kept, compared, decided, tabs>>

\* _broad; without a hypothesis in the order of discovery, and with nothing to compare to.
Broad(blocked) ==
    /\ step = "broad"
    /\ kept' = SelectKept(IF blocked \/ rows = <<>> THEN <<>> ELSE Ranked(rows),
                          [i \in DOMAIN rows |-> i])
    /\ step' = IF blocked THEN "rank" ELSE "compare"
    /\ UNCHANGED <<rows, compared, decided, tabs, haul>>

\* _fine and _authenticity: those that have no scores yet.
Compare ==
    /\ step = "compare"
    /\ compared' = compared \cup {kept[k] : k \in DOMAIN kept}
    /\ step' = "rank"
    /\ UNCHANGED <<rows, kept, decided, tabs, haul>>

\* _rank decides once, in the first round that leaves it something to decide; the tabs it
\* has rank_tab sort are thrown away.
RankOnce ==
    /\ step = "rank"
    /\ decided' = IF decided = <<>> THEN SelectSeq(kept, LAMBDA i : i \in compared) ELSE decided
    /\ step' = IF haul < MaxHauls THEN "replan" ELSE "over"
    /\ UNCHANGED <<rows, kept, compared, tabs, haul>>

ReplanOrEnd ==
    /\ step = "replan"
    /\ step' \in {"find", "over"}
    /\ UNCHANGED <<rows, kept, compared, decided, tabs, haul>>

\* run_vision_worker: judge_candidates over all there is, in one go.
JudgeAll(reused) ==
    /\ step = "broad"
    /\ \E all \in {IF InBroad(rows) = <<>> THEN SubSeq(Hits(rows), 1, Lesser(BroadCap, Len(rows)))
                                          ELSE InBroad(rows)} :
       \E judged \in {SubSeq(all, 1, Lesser(PartCap, Len(all)))},
          bucketOf \in {[i \in DOMAIN rows |-> Judged(rows[i], i \in reused)]} :
       \E real \in {RankTab("real", judged, bucketOf)},
          possibly \in {RankTab("possibly_real", judged, bucketOf)} :
           tabs' = [ judged |-> judged,
                     real |-> Diversified(real), possibly_real |-> Diversified(possibly),
                     deep |-> {judged[k] : k \in 1..Lesser(DeepCap, Len(judged))},
                     advised |-> {judged[k] : k \in 1..Lesser(DeliberateCap, Len(judged))} ]
    /\ step' = "over"
    /\ UNCHANGED <<rows, kept, compared, decided, haul>>

RetrievalNext ==
    \/ \E found \in Hauls : Find(found)
    \/ \E blocked \in BOOLEAN : Broad(blocked)
    \/ Compare \/ RankOnce \/ ReplanOrEnd
    \/ \E reused \in {{}, {1}} : JudgeAll(reused)

-------------------------------------------------------------------------------
(* Properties *)

\* A round compares as many listings as it may, and the best of all that are there: with
\* any that retrieval keeps left out, none with less recall is compared, whichever round
\* found them and in whatever order.
BestAreCompared ==
    step = "compare" =>
        LET in == {kept[k] : k \in DOMAIN kept}
        IN  /\ Cardinality(in) = Lesser(FineCap, Len(rows))
            /\ \A i \in in, j \in DOMAIN rows \ in :
                   2 * Recall(rows[j]) >= KeepThreshold => Recall(rows[i]) >= Recall(rows[j])

\* Each tab of the vision worker shows every listing judged into it once, no second one of
\* a family before another family's first, and the closer match first among either.
TabsKeepOrder ==
    \A b \in {"real", "possibly_real"} :
        LET tab == tabs[b]
            repeat(k) == \E m \in 1..(k - 1) : SameFamily(tab[m], tab[k])
        IN  /\ Cardinality({tab[k] : k \in DOMAIN tab}) = Len(tab)
            /\ tabs.judged # <<>> =>
                   \A k \in DOMAIN tabs.judged :
                       LET i == tabs.judged[k]
                       IN  Judged(rows[i], FALSE) = b /\ i # 1 => \E m \in DOMAIN tab : tab[m] = i
            /\ \A k, m \in DOMAIN tab : k < m =>
                   /\ repeat(k) => repeat(m)
                   /\ repeat(k) = repeat(m) =>
                          rows[tab[k]].match.lower >= rows[tab[m]].match.lower

===============================================================================
