------------------------------- MODULE Listings -------------------------------
(***************************************************************************)
(* What a campaign says of the listings it found, and what the shops say   *)
(* meanwhile: from discovery over the live check to the tab a listing is   *)
(* published in (campaigns/orchestrator.py with the stages of              *)
(* workers/fast_orchestrator.py), and the refresh a reader may ask for     *)
(* afterwards (api/searches.py).  The evidence and the verdicts are those  *)
(* of Verdict.                                                             *)
(*                                                                         *)
(* A worker may run out of wall time before any stage, and its process may *)
(* die in the live check; the rows it leaves are the next one's.           *)
(*                                                                         *)
(* Left out: the crash between two decisions or two results and the        *)
(* cancel (Orchestrator), who may fetch what (SourceAccess, Budget), the   *)
(* retries of one fetch, FINE_COMPARE_CAP (every candidate is kept).       *)
(***************************************************************************)
EXTENDS Verdict

CONSTANTS
    Links,         \* the listings the sources hold
    Offers,        \* names of the offers there may be
    References,    \* the user's photographs of the item
    Says,          \* Says[o]: what offer o shows and says, a record of Evidence
    MaxRounds,     \* the orchestrator's max_rounds
    MaxPages,      \* bound: pages left in the sealed budget
    MaxChanges,    \* bound: how often a shop changes a listing
    MaxRefreshes,  \* bound: how often a refresh is asked for
    MaxCrashes     \* bound: how often the worker's process dies

ASSUME ListingsAssumption ==
    MaxRounds \in Nat \ {0} /\ MaxPages \in Nat /\ DOMAIN Says = Offers
    /\ \A o \in Offers : OfferOK(Says[o])

VARIABLES
    offer,    \* offer[l]: the offer l makes
    shop,     \* shop[l]: what l's page shows now
    shown,    \* shown[l]: all it has shown, ever
    cached,   \* cached[l]: the body the response cache holds; it never expires
    row,      \* row[l]: availability on the candidate's row; "none" if not found
    checked,  \* checked[l]: last_checked_at, and whether l's page was opened then
    feed,     \* the listings an index feed published
    scored,   \* those with match and authenticity evidence
    dest,     \* dest[l]: destination_verified, where the live stage has put it
    decision, result,          \* decision[l], result[l]: the stored rows' buckets
    stage, round, todo, held,  \* the worker: its stage, the live checks to do, what it read
    refresh,  \* the listings a running refresh has still to check
    pages, changes, crashes, asked

world == <<offer, shop, shown, changes>>
disk == <<row, checked, feed, scored, dest, decision, result, round>>
vars == <<world, disk, cached, stage, todo, held, refresh, pages, crashes, asked>>

The(l) == Says[offer[l]]
Matched == [o \in Offers |-> MatchEvidence(Says[o], References)]
Assessed == [o \in Offers |-> AuthenticityEvidence(Says[o], References)]
found == {l \in Links : row[l] # "none"}

Stages == {"discover", "match", "live", "checking", "rank", "publish", "gaps", "salvage", "ended"}
Provenances == {"never", "opened", "unopened"}

\* An earlier campaign may have left the body of a page that was up.
Init ==
    /\ offer \in [Links -> Offers]
    /\ shop \in [Links -> {"LIVE", "SOLD"}]
    /\ cached \in [Links -> {"none", "LIVE"}]
    /\ shown = [l \in Links |-> {shop[l], cached[l]} \ {"none"}]
    /\ row = [l \in Links |-> "none"] /\ checked = [l \in Links |-> "never"]
    /\ feed = {} /\ scored = {} /\ dest = [l \in Links |-> "none"]
    /\ decision = [l \in Links |-> "none"] /\ result = [l \in Links |-> "none"]
    /\ stage = "discover" /\ round = 1 /\ todo = {} /\ held = [l \in Links |-> "none"]
    /\ refresh = {} /\ pages = MaxPages /\ changes = 0 /\ crashes = 0 /\ asked = 0

\* The listing is sold, taken down or offered again.
ShopChanges(l) ==
    /\ changes < MaxChanges
    /\ \E now \in {"LIVE", "SOLD", "REMOVED"} \ {shop[l]} :
          /\ shop' = [shop EXCEPT ![l] = now]
          /\ shown' = [shown EXCEPT ![l] = @ \cup {now}]
    /\ changes' = changes + 1
    /\ UNCHANGED <<offer, disk, cached, stage, todo, held, refresh, pages, crashes, asked>>

-------------------------------------------------------------------------------
(* One look at a listing's page: Escalator.fetch and classify_liveness. *)

\* Mutated form of Refused: a page that could not be read counts as gone.
RefusedIsGone == "REMOVED"

\* classify_liveness of a challenge, a refusal or a rate limit: blocked, not sold.
Refused == "UNKNOWN"

\* What a fetch may come back with: the availability it reads as, what stands behind it,
\* and the body the cache holds afterwards.  A cached body is taken whatever its age;
\* a body is kept when it came with 200, and a 404 leaves the cache alone.
Looks(l) ==
    (IF cached[l] # "none"
     THEN {[avail |-> cached[l], by |-> "unopened", keep |-> cached[l], cost |-> 0]}
     ELSE IF pages = 0 THEN {}
     ELSE {[avail |-> shop[l], by |-> "opened", cost |-> 1,
            keep |-> IF shop[l] = "REMOVED" THEN "none" ELSE shop[l]],
           [avail |-> Refused, by |-> "unopened", keep |-> "none", cost |-> 1]})
    \cup {[avail |-> Refused, by |-> "unopened", keep |-> cached[l], cost |-> 0]}

\* The sealed budget refuses the page before it is asked for.
NoPageLeft(l) == cached[l] = "none" /\ pages = 0

Look(l, look) ==
    /\ cached' = [cached EXCEPT ![l] = look.keep]
    /\ pages' = pages - look.cost

-------------------------------------------------------------------------------
(* The stages. *)

\* DISCOVERING: the item page is parsed; what it does not say is unknown.
DiscoverPage(l) ==
    /\ stage = "discover" /\ row[l] = "none"
    /\ \E look \in Looks(l), says \in BOOLEAN :
          /\ look.avail \in {"LIVE", "SOLD"}
          /\ Look(l, look)
          /\ row' = [row EXCEPT ![l] = IF says THEN look.avail ELSE "UNKNOWN"]
          /\ checked' = [checked EXCEPT ![l] = look.by]
    /\ UNCHANGED <<world, feed, scored, dest, decision, result, round, stage, todo, held,
                   refresh, crashes, asked>>

\* DISCOVERING: the shop's index feed lists it; the feed's body may be as old as any.
DiscoverFeed(l) ==
    /\ stage = "discover" /\ row[l] = "none" /\ pages > 0
    /\ \E says \in shown[l] \ {"REMOVED"} : row' = [row EXCEPT ![l] = says]
    /\ feed' = feed \cup {l}
    /\ checked' = [checked EXCEPT ![l] = "unopened"]
    /\ pages' = pages - 1
    /\ UNCHANGED <<world, cached, scored, dest, decision, result, round, stage, todo, held,
                   refresh, crashes, asked>>

\* A source may yield nothing more; without candidates the match stages are left out.
EndDiscover ==
    /\ stage = "discover"
    /\ stage' = IF found = {} THEN "gaps" ELSE "match"
    /\ UNCHANGED <<world, disk, cached, todo, held, refresh, pages, crashes, asked>>

\* FINE_MATCHING and AUTHENTICITY_REVIEW: what has no score yet is scored.
Match ==
    /\ stage = "match"
    /\ scored' = found /\ stage' = "live"
    /\ UNCHANGED <<world, cached, row, checked, feed, dest, decision, result, round, todo, held,
                   refresh, pages, crashes, asked>>

\* LIVE_CHECKING begins: the candidates are read from their rows.
BeginLive ==
    /\ stage = "live"
    /\ stage' = "checking" /\ todo' = found /\ held' = row
    /\ UNCHANGED <<world, disk, cached, refresh, pages, crashes, asked>>

\* One listing of live_and_verify_all: looked at, classified, its row written;
\* verify_candidate stamps the time again and leaves the availability.
LiveCheck(l) ==
    /\ stage = "checking" /\ l \in todo
    /\ \E look \in Looks(l) :
          /\ Look(l, look)
          /\ row' = [row EXCEPT ![l] = look.avail]
          /\ checked' = [checked EXCEPT ![l] = look.by]
    /\ todo' = todo \ {l}
    /\ UNCHANGED <<world, feed, scored, dest, decision, result, round, stage, held, refresh,
                   crashes, asked>>

\* The end of _live, from whatever objects it was left with.
Verified(seen) ==
    /\ dest' = [l \in Links |-> IF row[l] = "none" THEN dest[l]
                                ELSE IF seen[l] = "LIVE" THEN "yes" ELSE "no"]
    /\ stage' = "rank" /\ todo' = {}
    /\ held' = [l \in Links |-> "none"]
    /\ UNCHANGED <<world, row, checked, feed, scored, decision, result, round, cached, refresh,
                   pages, crashes, asked>>

\* All are checked, or the budget has stopped one and with it all that had not begun:
\* the rows are read again, checked or not.
EndLive ==
    /\ stage = "checking"
    /\ todo = {} \/ \E l \in todo : NoPageLeft(l)
    /\ Verified(row)

\* Any other failure: the listings are taken for what they were before the stage.
LiveFails == stage = "checking" /\ todo # {} /\ Verified(held)

-------------------------------------------------------------------------------
(* RANKING and PUBLISHING. *)

\* screen_photo_reuse: another seller offers the same photograph.
Reused(l, among) ==
    \E m \in among \ {l} : /\ The(m).families \cap The(l).families # {}
                           /\ The(m).seller # The(l).seller

DestOf(l) == dest[l] = "yes"

CaseOf(l) ==
    [ offer |-> The(l), match |-> Matched[offer[l]], auth |-> Assessed[offer[l]],
      complete |-> Completeness(The(l)), avail |-> row[l], dest |-> DestOf(l),
      attested |-> dest[l] # "none" /\ l \in feed, liveChecked |-> dest[l] # "none" \/ row[l] = "LIVE",
      stolen |-> Reused(l, found), screened |-> TRUE ]

Ranked == [l \in Links |-> IF l \in scored THEN Route(CaseOf(l)) ELSE "none"]

NothingStored(bucket) == \A l \in Links : bucket[l] = "none"

\* _rank: not at all where a decision is stored.
Decided == IF NothingStored(decision) THEN Ranked ELSE decision

Rank ==
    /\ stage = "rank"
    /\ decision' = Decided /\ stage' = "publish"
    /\ UNCHANGED <<world, row, checked, feed, scored, dest, result, round, cached, todo, held,
                   refresh, pages, crashes, asked>>

Published(buckets) ==
    [l \in Links |-> IF buckets[l] = "none" THEN "none"
                     ELSE PublishedBucket(The(l), buckets[l])]

\* _publish: not at all where a result is stored.
ResultsOf(buckets) == IF NothingStored(result) THEN Published(buckets) ELSE result

Publish ==
    /\ stage = "publish"
    /\ result' = ResultsOf(decision) /\ stage' = "gaps"
    /\ UNCHANGED <<world, row, checked, feed, scored, dest, decision, round, cached, todo, held,
                   refresh, pages, crashes, asked>>

\* GAP_ANALYSIS, then another round or the end.
Gaps ==
    /\ stage = "gaps"
    /\ \/ /\ round < MaxRounds
          /\ round' = round + 1 /\ stage' = "discover"
       \/ stage' = "ended" /\ UNCHANGED round
    /\ UNCHANGED <<world, row, checked, feed, scored, dest, decision, result, cached, todo, held,
                   refresh, pages, crashes, asked>>

\* The wall is reached before a stage, or discovery has no page left: run salvages.
BudgetStop ==
    /\ stage \in {"discover", "match", "live", "rank", "publish", "gaps"}
    /\ stage' = "salvage"
    /\ UNCHANGED <<world, disk, cached, todo, held, refresh, pages, crashes, asked>>

\* _salvage_publish ranks and publishes what scores there are.
Salvage ==
    /\ stage = "salvage"
    /\ decision' = Decided
    /\ result' = ResultsOf(Decided)
    /\ stage' = "ended"
    /\ UNCHANGED <<world, row, checked, feed, scored, dest, round, cached, todo, held,
                   refresh, pages, crashes, asked>>

\* The process dies in the live check; the stage is taken up from its start.
Crash ==
    /\ stage = "checking" /\ crashes < MaxCrashes
    /\ crashes' = crashes + 1
    /\ stage' = "live" /\ todo' = {} /\ held' = [l \in Links |-> "none"] /\ refresh' = {}
    /\ UNCHANGED <<world, disk, cached, pages, asked>>

-------------------------------------------------------------------------------
(* POST /v1/searches/{id}/refresh *)

\* refresh_search: only where results are stored, hidden ones included.
StartRefresh ==
    /\ refresh = {} /\ asked < MaxRefreshes /\ ~NothingStored(result)
    /\ refresh' = {l \in Links : result[l] # "none"}
    /\ asked' = asked + 1
    /\ UNCHANGED <<world, disk, cached, stage, todo, held, pages, crashes>>

\* live_check_all, one listing: the row is written, the result it was published as is not.
RefreshCheck(l) ==
    /\ l \in refresh
    /\ \E look \in Looks(l) :
          /\ Look(l, look)
          /\ row' = [row EXCEPT ![l] = look.avail]
          /\ checked' = [checked EXCEPT ![l] = look.by]
    /\ refresh' = refresh \ {l}
    /\ UNCHANGED <<world, feed, scored, dest, decision, result, round, stage, todo, held,
                   crashes, asked>>

\* live_check_all swallows the budget's refusal.
RefreshStops ==
    /\ \E l \in refresh : NoPageLeft(l)
    /\ refresh' = {}
    /\ UNCHANGED <<world, disk, cached, stage, todo, held, pages, crashes, asked>>

-------------------------------------------------------------------------------
Next ==
    \/ \E l \in Links : \/ ShopChanges(l) \/ DiscoverPage(l) \/ DiscoverFeed(l)
                        \/ LiveCheck(l) \/ RefreshCheck(l)
    \/ EndDiscover \/ Match \/ BeginLive \/ EndLive \/ LiveFails
    \/ Rank \/ Publish \/ Gaps \/ BudgetStop \/ Salvage \/ Crash
    \/ StartRefresh \/ RefreshStops

Spec == Init /\ [][Next]_vars

-------------------------------------------------------------------------------
TypeOK ==
    /\ offer \in [Links -> Offers]
    /\ shop \in [Links -> {"LIVE", "SOLD", "REMOVED"}]
    /\ shown \in [Links -> SUBSET {"LIVE", "SOLD", "REMOVED"}]
    /\ cached \in [Links -> {"none", "LIVE", "SOLD"}]
    /\ row \in [Links -> Availabilities \cup {"none"}]
    /\ checked \in [Links -> Provenances]
    /\ feed \subseteq Links /\ scored \subseteq Links
    /\ dest \in [Links -> {"none", "yes", "no"}]
    /\ decision \in [Links -> Buckets \cup {"none"}]
    /\ result \in [Links -> Buckets \cup {"none", "replica"}]
    /\ stage \in Stages /\ round \in 1..MaxRounds
    /\ todo \subseteq Links /\ held \in [Links -> Availabilities \cup {"none"}]
    /\ refresh \subseteq Links
    /\ pages \in Nat /\ changes \in Nat /\ crashes \in Nat /\ asked \in Nat

SamePhotoOtherSeller(l, m) ==
    The(l).families \cap The(m).families # {} /\ The(l).seller # The(m).seller

\* What an offer has to come to if it is to be called real, in what was measured of it: the
\* bounds are the least each part may be, whatever the others are.  The parts of the item
\* have to agree, and the geometry; words and embedding may be weak, because a comparison
\* of photographs lifts the lower bound of the match.
Earned(o) ==
    /\ References # <<>>
    /\ ItemHard(References, o.photos, o.footwear) = {} /\ AuthHard(o, References) = {}
    /\ o.parts >= 894 /\ o.text >= 445 /\ o.glob >= 445
    /\ o.corr = "strong" \/ o.geometry >= 762
    /\ Calibrated(o) /\ AuthMean(o, References) >= 780
    /\ Len(o.photos) >= 3 \/ (Len(o.photos) = 2 /\ ~o.gaps)
    /\ o.link = "ok" /\ ~IsReplica(o)
Deserving == {o \in Offers : Earned(Says[o])}

\* What is published as real has earned it on the evidence of that listing, whatever round,
\* salvage or restart it came through (core/policy.py, REAL_GATE_THRESHOLDS); its page has
\* been up, it has been through a live stage, and no result of another seller has its
\* photographs.
RealIsEarned ==
    \A l \in Links : result[l] = "real" =>
        /\ offer[l] \in Deserving
        /\ dest[l] # "none" /\ "LIVE" \in shown[l]
        /\ \A m \in Links : result[m] # "none" => ~SamePhotoOtherSeller(l, m)

\* Nothing is published as real before a live stage has come to its end with it, although
\* a stop of the budget may rank and publish before there was one (core/policy.py: "Live check is
\* mandatory for Real").  (Proved in Listings_proofs, as are ReplicaApart and
\* StolenPhotoBarred.)
RealAfterLiveStage == \A l \in Links : result[l] = "real" => dest[l] # "none"

\* A row never says of a listing what its page has not shown: a challenge, a refusal or an
\* unread page leaves it unknown and is not taken for sold or removed
\* (sources/live_check.py, "blocked, not sold").
RowWasShown == \A l \in Links : row[l] \notin {"none", "UNKNOWN"} => row[l] \in shown[l]

\* A listing whose row says sold or removed when it is ranked is not put into a public tab,
\* even where the live stage failed, was stopped by the budget or was begun again.  A
\* refresh and another round's live stage rewrite the row and leave the result.
ShownNotKnownDead ==
    round = 1 /\ asked = 0 =>
        \A l \in Links : result[l] \in {"real", "possibly_real"} => row[l] \in {"LIVE", "UNKNOWN"}

\* The replica tab holds what is a dealer's replica or calls itself one, and no other tab
\* shows such a listing, whatever the ranking has decided (campaigns/publication.py).
ReplicaApart ==
    \A l \in Links : result[l] # "none" => (result[l] = "replica" <=> IsReplica(The(l)))

\* Of listings ranked together that show the same photograph under different sellers, none
\* is put into a public tab of genuine items (authenticity/photo_reuse.py).
StolenPhotoBarred ==
    \A l, m \in Links :
        result[l] # "none" /\ result[m] # "none" /\ SamePhotoOtherSeller(l, m)
        => result[l] \in {"hidden", "replica"}

\* matching/combine.py:67 of the lift: "Correspondence, not the embedding, is the identity
\* evidence."  With an embedding under 824 only the lift brings a listing over the gate, and
\* a correspondence should be what it is lifted on.  It fails: any comparison counts as one,
\* also where pipeline.py cites it as "below the identity bar".
LiftNeedsIdentity ==
    \A l \in Links : result[l] = "real" /\ The(l).glob < 824 => The(l).corr = "strong"

\* docs/architecture/API.md:129-130 of the refresh: "it does not fabricate a new
\* last_checked_at".  A refresh moves the time of a listing only if its page was opened.
\* It fails: the cache may answer.
RefreshDoesNotFabricate ==
    [][\A l \in refresh \ refresh' : checked'[l] # checked[l] => checked'[l] = "opened"]_vars
===============================================================================
