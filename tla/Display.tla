-------------------------------- MODULE Display --------------------------------
(***************************************************************************)
(* What a reader is shown of a search while its worker is at it: the       *)
(* projections of api/views.py, which api/searches.py, api/results.py and  *)
(* the event stream answer with, over the rows that the stages of          *)
(* campaigns/orchestrator.py leave.  A view reads the rows one after the   *)
(* other, and the worker, or a delete, goes on between two of its reads.   *)
(*                                                                         *)
(* A listing is a record of recall (-1: retrieval does not keep it), offer,*)
(* match, auth and complete (what Evidence makes of it; auth with missing),*)
(* against and missing (the lines its verification leaves), support, image *)
(* (its first photograph's address), compared (the photographs that match  *)
(* names), reads (what its page says when it is found, and in the live     *)
(* check of each round).  A row has avail and dest besides.  Bounds of     *)
(* scores are thousandths.  A campaign has a hypothesis, and no more       *)
(* listings than FINE_COMPARE_CAP.                                         *)
(***************************************************************************)
EXTENDS Verdict, SequencesExt

CONSTANTS Hauls,       \* what a round may find: sequences of listings
          Reports,     \* the sources it may tell of: sequences of [id, outcome]
          Catalogues,  \* the sources that declare capabilities, but not text_search
          MaxLaps,     \* the orchestrator's max_rounds
          MaxViews     \* bound: how many pages are asked for

\* What retrieval, the comparison, the assessment and the pages make of a listing.
Matches == [hard : SUBSET STRING, lower : Int, missing : SUBSET STRING]
Assessments == [hard : SUBSET STRING, mean : Int, lower : Int, missing : SUBSET STRING]
Offered == [footwear : BOOLEAN, link : STRING, words : BOOLEAN, family : STRING]
Listed ==
    [ recall : Int, complete : Int, reads : [1..(MaxLaps + 1) -> Availabilities],
      avail : Availabilities, dest : BOOLEAN, offer : Offered, match : Matches,
      auth : Assessments, against : SUBSET STRING, missing : SUBSET STRING,
      support : SUBSET STRING, image : STRING, compared : SUBSET STRING ]

ASSUME LapsAssumption == MaxLaps \in Nat \ {0}
ASSUME HaulsAssumption == Hauls \subseteq Seq(Listed)

VARIABLES listings,    \* the candidates
          told,        \* runtime_json["coverage"]
          scores,      \* the rows of scores, in the order of insertion
          decisions, results,
          phase, lap,  \* the worker: its stage, its round
          view,        \* the page that is being put together
          delivered,   \* history: the pages that were answered with
          purged       \* the search is deleted, its rows are gone

displayVars == <<listings, told, scores, decisions, results, phase, lap, view, delivered, purged>>

Tabs == {"real", "possibly_real", "replica"}
Count(tab) == Cardinality({n \in DOMAIN results : results[n].tab = tab})

\* The numbers of a set, in order.
InOrder(S) ==
    CHOOSE f \in [1..Cardinality(S) -> S] : \A j, k \in DOMAIN f : j < k => f[j] < f[k]

-------------------------------------------------------------------------------
(* The worker *)

\* empty_coverage
NothingTold == [sources |-> <<>>, normalized |-> 0, hidden |-> 0]

\* _emit_discovery_fallback: whatever was told before is told no more.
Undiscovered == <<[id |-> "live_discovery", outcome |-> "SOURCE_UNAVAILABLE"]>>
Fallback == [NothingTold EXCEPT !.sources = Undiscovered]

Row(l) == [l EXCEPT !.avail = l.reads[1], !.dest = FALSE]

\* Mutated form of Reported: a round begins its coverage anew.
ReportedAnew(walk) == [sources |-> walk, normalized |-> Len(listings), hidden |-> 0]

\* _ui_coverage
Reported(walk) == [sources |-> walk, normalized |-> Len(listings), hidden |-> Count("hidden")]

\* _discover: it may fail or run out of budget, with some listings stored or none.
Discover(found, how) ==
    /\ phase = "discover"
    /\ listings' = listings \o [k \in DOMAIN found |-> Row(found[k])]
    /\ \/ how = "fine"
          /\ \E walk \in Reports : told' = [Reported(walk) EXCEPT !.normalized = @ + Len(found)]
       \/ how = "fails" /\ told' = Fallback
       \/ how = "budget" /\ UNCHANGED told
    /\ phase' = IF how = "budget" THEN "salvage" ELSE "normalize"
    /\ UNCHANGED <<scores, decisions, results, lap, view, delivered, purged>>

Normalize ==
    /\ phase = "normalize"
    /\ told' = [told EXCEPT !.normalized = Len(listings)]
    /\ phase' = "broad"
    /\ UNCHANGED <<listings, scores, decisions, results, lap, view, delivered, purged>>

Score(kind, n, from) ==
    [listing |-> n, kind |-> kind, finer |-> kind # "broad", lower |-> from.lower,
     against |-> from.hard, missing |-> from.missing]
HasScore(n, kind) == \E k \in DOMAIN scores : scores[k].listing = n /\ scores[k].kind = kind

\* _broad: a row for each listing kept, unless the search has such rows; 0.12 below the mean.
Recalled(n) == [lower |-> Greater(0, listings[n].recall - 120), hard |-> {}, missing |-> {}]
BroadScores ==
    LET first == \A m \in DOMAIN listings : ~HasScore(m, "broad")
        kept == InOrder({n \in DOMAIN listings : first /\ listings[n].recall >= 0})
    IN  [k \in DOMAIN kept |-> Score("broad", kept[k], Recalled(kept[k]))]

\* _fine and _authenticity: a row for each listing that has none.
NewScores(kind) ==
    LET new == InOrder({n \in DOMAIN listings : ~HasScore(n, kind)})
    IN  [k \in DOMAIN new |-> Score(kind, new[k], listings[new[k]][kind])]

Following == [broad |-> "match", match |-> "auth", auth |-> "live"]
Compare(kind) ==
    /\ phase = kind
    /\ scores' = scores \o (IF kind = "broad" THEN BroadScores ELSE NewScores(kind))
    /\ phase' = IF listings = <<>> THEN "replan" ELSE Following[kind]
    /\ UNCHANGED <<listings, told, decisions, results, lap, view, delivered, purged>>

Live ==
    /\ phase = "live"
    /\ listings' = [n \in DOMAIN listings |->
                        LET now == listings[n].reads[lap + 1]
                        IN  [listings[n] EXCEPT !.avail = now, !.dest = now = "LIVE"]]
    /\ phase' = "rank"
    /\ UNCHANGED <<told, scores, decisions, results, lap, view, delivered, purged>>

\* _score_payloads: the row that a listing's match is taken from; the last finer one, or
\* the first of the others, which holds no match and leaves the listing undecided.
RowsFor(n, kinds) == {k \in DOMAIN scores : scores[k].listing = n /\ scores[k].kind \in kinds}
MatchKinds == {"broad", "match"}
Finest(n) ==
    LET finer == {k \in RowsFor(n, MatchKinds) : scores[k].finer}
    IN  {k \in finer : \A m \in finer : m <= k}

\* route_candidate and merge_verification
Case(l) ==
    [ offer |-> l.offer, match |-> l.match, auth |-> l.auth, complete |-> l.complete,
      avail |-> l.avail, dest |-> l.dest, attested |-> FALSE, liveChecked |-> TRUE,
      stolen |-> FALSE, screened |-> TRUE ]
Decision(n) ==
    LET l == listings[n]
    IN  [ listing |-> n, by |-> Finest(n), bucket |-> Route(Case(l)),
          codes |-> Vetoes(Case(l)) \cup {Route(Case(l))},
          against |-> l.match.hard \cup l.auth.hard \cup l.against,
          missing |-> l.auth.missing \cup l.missing, support |-> l.support, images |-> l.compared ]

\* _rank decides once.
Decide ==
    LET ready == InOrder({n \in DOMAIN listings : Finest(n) # {} /\ HasScore(n, "auth")})
    IN  decisions' = IF decisions # <<>> THEN decisions
                     ELSE [k \in DOMAIN ready |-> Decision(ready[k])]
RankStage ==
    /\ phase \in {"rank", "salvage"}
    /\ Decide
    /\ phase' = IF results # <<>> THEN (IF phase = "rank" THEN "replan" ELSE "over")
                ELSE IF phase = "rank" THEN "publish" ELSE "publish.last"
    /\ UNCHANGED <<listings, told, scores, results, lap, view, delivered, purged>>

\* _publish: a row and its event after the other.
PublishOne ==
    /\ phase \in {"publish", "publish.last"} /\ Len(results) < Len(decisions)
    /\ LET d == decisions[Len(results) + 1]
       IN  results' = Append(results,
               [ listing |-> d.listing, codes |-> d.codes,
                 tab |-> PublishedBucket(listings[d.listing].offer, d.bucket) ])
    /\ UNCHANGED <<listings, told, scores, decisions, phase, lap, view, delivered, purged>>

\* The hidden ones are counted when all are there.
PublishEnds ==
    /\ phase \in {"publish", "publish.last"} /\ Len(results) = Len(decisions)
    /\ told' = [told EXCEPT !.hidden = Count("hidden")]
    /\ phase' = IF phase = "publish" THEN "replan" ELSE "over"
    /\ UNCHANGED <<listings, scores, decisions, results, lap, view, delivered, purged>>

Replan ==
    /\ phase = "replan"
    /\ \/ lap < MaxLaps /\ phase' = "discover" /\ lap' = lap + 1
       \/ phase' = "over" /\ UNCHANGED lap
    /\ UNCHANGED <<listings, told, scores, decisions, results, view, delivered, purged>>

\* The budget, or the wall time, is at its end before a stage or in it, and what has
\* scores is decided and published; or the search is cancelled, or fails.
RunOut ==
    /\ phase \in {"discover", "normalize", "broad", "match", "auth", "live", "rank", "publish"}
    /\ phase = "publish" => results = <<>>
    /\ phase' \in {"salvage", "over"}
    /\ UNCHANGED <<listings, told, scores, decisions, results, lap, view, delivered, purged>>

\* A delete takes the rows, and stops the worker; the runtime stays.
Purge ==
    /\ ~purged /\ purged' = TRUE
    /\ listings' = <<>> /\ scores' = <<>> /\ decisions' = <<>> /\ results' = <<>>
    /\ phase' = "over"
    /\ UNCHANGED <<told, lap, view, delivered>>

-------------------------------------------------------------------------------
(* project_result *)

\* Mutated form of Label: the bound of "high" is to be passed.
LabelAbove(lower, contradicted, lacking) ==
    IF contradicted THEN "contradictory"
    ELSE IF lacking /\ lower < 800 THEN "incomplete"
    ELSE IF lower > 800 THEN "high" ELSE IF lower >= 450 THEN "moderate" ELSE "incomplete"

\* _judgment_label
Label(lower, contradicted, lacking) ==
    IF contradicted THEN "contradictory"
    ELSE IF lacking /\ lower < 800 THEN "incomplete"
    ELSE IF lower >= 800 THEN "high" ELSE IF lower >= 450 THEN "moderate" ELSE "incomplete"

\* Mutated form of Chosen: the higher bound counts, and nothing else.
ChosenByBound(n, kinds) ==
    LET rows == RowsFor(n, kinds)
    IN  {k \in rows : \A m \in rows : \/ scores[m].lower < scores[k].lower
                                      \/ scores[m].lower = scores[k].lower /\ m <= k}

\* _score_block: row for row, a finer one is taken, or one with no lower a bound.
Chosen(n, kinds) ==
    LET at[k \in 0..Len(scores)] ==
            IF k = 0 THEN 0
            ELSE IF k \in RowsFor(n, kinds)
                    /\ \/ at[k - 1] = 0 \/ scores[k].finer
                       \/ scores[k].lower >= scores[at[k - 1]].lower
                 THEN k ELSE at[k - 1]
    IN  {at[Len(scores)]} \ {0}

Either(a, b) == IF a # {} THEN a ELSE b
DecisionsFor(n) == {decisions[k] : k \in {j \in DOMAIN decisions : decisions[j].listing = n}}
NoDecision ==
    [by |-> {}, codes |-> {}, against |-> {}, missing |-> {}, support |-> {}, images |-> {}]

\* safe_http_url and safe_image_url: another scheme is not passed on.
Opens(address) == address \in {"ok", "private"}
Shows(address) == Opens(address) \/ address = "own"

\* _comparison_reason
Comparison(images, matched, pictured) ==
    IF images # {} THEN "images" ELSE IF ~matched THEN "did not run"
    ELSE IF ~pictured THEN "no images" ELSE "recorded none"

LiveLabel(avail) ==
    CASE avail = "LIVE" -> "Live" [] avail = "UNKNOWN" -> "Unknown" [] OTHER -> "Not live"

\* The listing, its decision and its scores are looked up again for each card.
Card(result, rank) ==
    LET n == result.listing
        there == n \in DOMAIN listings
        d == IF DecisionsFor(n) = {} THEN NoDecision ELSE CHOOSE x \in DecisionsFor(n) : TRUE
        match == Chosen(n, MatchKinds)
        auth == Chosen(n, {"auth"})
        of(rows, list) == UNION {scores[k][list] : k \in rows}
        lower(rows) == scores[CHOOSE k \in rows : TRUE].lower
        against == Either(d.against, of(match, "against"))
        missing == Either(d.missing, of(auth, "missing"))
    IN  [ listing |-> n, tab |-> result.tab, rank |-> rank, decided |-> d.by, by |-> match,
          match |-> IF match = {} THEN "none" ELSE Label(lower(match), against # {}, missing # {}),
          auth |-> IF auth = {} THEN "none"
                   ELSE Label(lower(auth), of(auth, "against") # {}, missing # {}),
          live |-> IF there THEN LiveLabel(listings[n].avail) ELSE "Unknown",
          against |-> against \cup of(auth, "against"), missing |-> missing,
          chips |-> Either(d.support, missing),
          link |-> there /\ Opens(listings[n].offer.link),
          image |-> there /\ Shows(listings[n].image),
          compared |-> Comparison(d.images, match # {}, there /\ listings[n].image # "none") ]

-------------------------------------------------------------------------------
(* The pages *)

Rows(places) == [k \in DOMAIN places |-> results[places[k]]]
Shown == {n \in DOMAIN results : results[n].tab \in Tabs}

\* Mutated form of Public: the newest first.
PublicNewest == Rows(Reverse(InOrder(Shown)))

\* list_results, in the order of insertion, without what is hidden.
Public == Rows(InOrder(Shown))

NoView == [kind |-> "none", todo |-> <<>>, cards |-> <<>>]
Answered == UNCHANGED <<listings, told, scores, decisions, results, phase, lap, purged>>

\* list_public_results: the rows first.
OpenList ==
    /\ view = NoView /\ ~purged /\ Len(delivered) < MaxViews
    /\ view' = [kind |-> "list", todo |-> Public, cards |-> <<>>]
    /\ Answered /\ UNCHANGED delivered

\* A card for each, its rank the place in its tab.
AddCard ==
    /\ view.kind = "list" /\ view.todo # <<>>
    /\ LET r == Head(view.todo)
           rank == 1 + Cardinality({k \in DOMAIN view.cards : view.cards[k].tab = r.tab})
       IN  view' = [view EXCEPT !.todo = Tail(@), !.cards = Append(@, Card(r, rank))]
    /\ Answered /\ UNCHANGED delivered

\* result_counts: they are read last.
Counts == [tab \in {"real", "possibly_real", "hidden"} |-> Count(tab)]
CloseList ==
    /\ view.kind = "list" /\ view.todo = <<>>
    /\ delivered' = Append(delivered,
           [kind |-> "list", cards |-> view.cards, counts |-> Counts, torn |-> purged])
    /\ view' = NoView
    /\ Answered

\* get_result, and the event of a result: the card alone, always of rank 1.
ShowOne(n) ==
    /\ view = NoView /\ ~purged /\ Len(delivered) < MaxViews
    /\ n \in DOMAIN results
    /\ delivered' = Append(delivered,
           [kind |-> "one", cards |-> <<Card(results[n], 1)>>, counts |-> Counts, torn |-> FALSE])
    /\ Answered /\ UNCHANGED view

\* project_search: the coverage is read first, and the rows of results last.
OpenSearch ==
    /\ view = NoView /\ ~purged /\ Len(delivered) < MaxViews
    /\ view' = [kind |-> "search", todo |-> told.sources, cards |-> <<>>]
    /\ Answered /\ UNCHANGED delivered

\* _hidden_reason_note: the three commonest codes of what is hidden, of equally common
\* ones any.
HiddenReasons(reasons) ==
    LET hidden == {n \in DOMAIN results : results[n].tab = "hidden"}
        times(c) == Cardinality({n \in hidden : c \in results[n].codes})
        codes == UNION {results[n].codes : n \in hidden} \ {"hidden"}
    IN  /\ reasons \subseteq codes /\ Cardinality(reasons) = Lesser(3, Cardinality(codes))
        /\ \A c \in reasons, d \in codes \ reasons : times(c) >= times(d)

\* _keyhole_coverage_note: the sources among the completed that were not searched.
Blocks == {"SOURCE_UNAVAILABLE", "AUTH_REQUIRED", "BLOCKED_BY_ACCESS", "BLOCKED_BY_POLICY"}
Walked(sources) ==
    LET completed == {k \in DOMAIN sources : sources[k].outcome \notin Blocks}
    IN  {sources[k].id : k \in completed} \cap Catalogues

CloseSearch(reasons) ==
    /\ view.kind = "search" /\ HiddenReasons(reasons)
    /\ delivered' = Append(delivered,
           [ kind |-> "search", cards |-> <<>>, counts |-> Counts, torn |-> purged,
             reasons |-> reasons, walked |-> Walked(view.todo) ])
    /\ view' = NoView
    /\ Answered

-------------------------------------------------------------------------------
DisplayInit ==
    /\ listings = <<>> /\ told = NothingTold /\ scores = <<>> /\ decisions = <<>> /\ results = <<>>
    /\ phase = "discover" /\ lap = 1 /\ view = NoView /\ delivered = <<>> /\ purged = FALSE

DisplayNext ==
    \/ \E found \in Hauls, how \in {"fine", "fails", "budget"} : Discover(found, how)
    \/ Normalize \/ \E kind \in {"broad", "match", "auth"} : Compare(kind)
    \/ Live \/ RankStage \/ PublishOne \/ PublishEnds \/ Replan \/ RunOut \/ Purge
    \/ OpenList \/ AddCard \/ CloseList \/ \E n \in DOMAIN results : ShowOne(n)
    \/ OpenSearch
    \/ \E reasons \in SUBSET UNION {results[n].codes : n \in DOMAIN results} : CloseSearch(reasons)

DisplaySpec == DisplayInit /\ [][DisplayNext]_displayVars

-------------------------------------------------------------------------------
(* Properties *)

Cards(page) == {page.cards[k] : k \in DOMAIN page.cards}
Whole == {k \in DOMAIN delivered : ~delivered[k].torn}

\* A card stands for what was decided: the match it shows is the row of scores that the
\* decision was made of, which the ranking and the view choose by different rules, in
\* whatever order the rounds leave their rows.  A page that a delete tore is left aside.
ShownAsDecided ==
    \A k \in Whole : \A c \in Cards(delivered[k]) : c.by = c.decided /\ c.by # {}

\* The labels agree with the tabs, although the gates and the labels have bounds of their
\* own: with nothing that contradicts it, what is Real is labelled high on both counts,
\* and what is Possibly Real, with nothing missing, at least moderate.
LabelsFitTabs ==
    \A k \in Whole : \A c \in Cards(delivered[k]) :
        c.against = {} => /\ c.tab = "real" => c.match = "high" /\ c.auth = "high"
                          /\ c.tab = "possibly_real" /\ c.missing = {}
                             => c.match \in {"high", "moderate"}

\* A page that comes later takes nothing back: every card of a list is in each later one,
\* in its tab and at its rank, no count falls, and no list has more cards than its counts.
ShownStays ==
    /\ \A j, k \in Whole : j < k =>
           /\ \A tab \in DOMAIN Counts : delivered[j].counts[tab] <= delivered[k].counts[tab]
           /\ delivered[j].kind = "list" /\ delivered[k].kind = "list" =>
                  \A c \in Cards(delivered[j]) : \E d \in Cards(delivered[k]) :
                      d.listing = c.listing /\ d.tab = c.tab /\ d.rank = c.rank
    /\ \A k \in Whole : \A tab \in {"real", "possibly_real"} :
           Cardinality({c \in Cards(delivered[k]) : c.tab = tab}) <= delivered[k].counts[tab]

\* When the worker is done, the coverage tells of as many hidden listings as there are,
\* whichever stage ran out of budget: but for a later round whose discovery failed.
HiddenAreCounted ==
    phase = "over" /\ ~purged /\ (told.sources = Undiscovered => lap = 1) =>
        told.hidden = Count("hidden")

===============================================================================
