------------------------------- MODULE Verdict --------------------------------
(***************************************************************************)
(* What is decided about a listing: ranking/vetoes.py and buckets.py, the  *)
(* gates of core/policy.py under the policy matching-1, and                *)
(* campaigns/publication.py, which has the last word.                      *)
(*                                                                         *)
(* A case c is what route_candidate is called with:                        *)
(*   offer          what the listing shows and says (Evidence)             *)
(*   match, auth    the evidence of both sides; complete: its completeness *)
(*   avail          the availability on the candidate's row                *)
(*   dest, attested destination_verified, destination_attested             *)
(*   liveChecked    live_checked                                           *)
(*   stolen         the photo screen found it; screened: it has run        *)
(***************************************************************************)
EXTENDS Evidence

Availabilities == {"LIVE", "SOLD", "REMOVED", "UNKNOWN"}
Buckets == {"real", "possibly_real", "hidden"}

\* url_is_malicious: nothing to open, another scheme, or an address of this machine.
Malicious(o) == o.link \in {"none", "script", "private"}

WrongProductCodes ==
    {"eyelet-count-mismatch", "panel-count-mismatch", "outsole-geometry-mismatch"}

\* collect_hard_vetoes with dead_listing_is_hard_veto.  No caller passes
\* duplicate_no_utility.
Vetoes(c) ==
    LET item == c.match.hard
        auth == c.auth.hard
        wrong == c.offer.footwear /\ item \cap WrongProductCodes # {}
    IN  { v \in {"MALICIOUS_URL", "SELF_DECLARED_REPLICA", "WRONG_PRODUCT", "HARD_COLOURWAY",
                 "STRONG_COUNTERFEIT_EVIDENCE", "IMAGE_THEFT_OR_SCAM",
                 "INACCESSIBLE_DESTINATION", "DEAD_LISTING", "INSUFFICIENT_MATCH"} :
            \/ v = "MALICIOUS_URL" /\ Malicious(c.offer)
            \/ v = "SELF_DECLARED_REPLICA" /\ (c.offer.words \/ "self-declared-replica" \in auth)
            \/ v = "WRONG_PRODUCT" /\ wrong
            \/ v = "HARD_COLOURWAY" /\ ExactColour
               /\ {"colourway-hard-mismatch", "material-colourway"} \cap (item \cup auth) # {}
            \/ v = "STRONG_COUNTERFEIT_EVIDENCE" /\ "logo-incompatible" \in auth /\ ~wrong
            \/ v = "IMAGE_THEFT_OR_SCAM" /\ c.stolen
            \/ v = "INACCESSIBLE_DESTINATION"
               /\ ~c.dest /\ ~c.attested /\ c.avail = "UNKNOWN"
            \/ v = "DEAD_LISTING" /\ c.avail \notin {"LIVE", "UNKNOWN"}
            \/ v = "INSUFFICIENT_MATCH" /\ c.match.lower < 450 /\ ~wrong }

\* Mutated form of AuthForReal: the mean is put to the gate, not the lower bound.
AuthOnMean(c) == c.auth.mean

\* auth_for_real: without screening or calibration it stays under the gate.
AuthForReal(c) ==
    IF ~c.screened \/ ~Calibrated(c.offer)
    THEN Lesser(c.auth.lower, 790)
    ELSE c.auth.lower

\* What either gate asks for: no hard contradiction and no veto.
Uncontradicted(c) ==
    /\ c.match.hard = {}
    /\ c.auth.hard = {}
    /\ Vetoes(c) = {}

\* evaluate_real_gate; the utility's live is the row's.
RealGate(c) ==
    /\ c.match.lower >= 900
    /\ AuthForReal(c) >= 800
    /\ c.complete >= 650
    /\ c.avail = "LIVE" /\ c.liveChecked
    /\ c.dest
    /\ Uncontradicted(c)

\* evaluate_possibly_real_gate
PossiblyGate(c) == c.match.lower >= 450 /\ Uncontradicted(c)

\* Mutated form of Route: the vetoes explain and do not decide.
RouteByGates(c) ==
    IF RealGate(c) THEN "real"
    ELSE IF c.match.lower >= 450 THEN "possibly_real" ELSE "hidden"

\* route_candidate
Route(c) ==
    IF RealGate(c) THEN "real" ELSE IF PossiblyGate(c) THEN "possibly_real" ELSE "hidden"

\* is_replica_result
IsReplica(o) == o.family = "REPLICA" \/ o.words

\* has_usable_listing_link: http or https and a host, this machine's included.
LinkUsable(o) == o.link \in {"ok", "private"}

\* published_public_bucket; route_candidate always leaves a reason code.
PublishedBucket(o, bucket) ==
    IF IsReplica(o) THEN "replica" ELSE IF LinkUsable(o) THEN bucket ELSE "hidden"

===============================================================================
