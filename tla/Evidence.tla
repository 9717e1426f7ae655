------------------------------- MODULE Evidence -------------------------------
(***************************************************************************)
(* matching/ and authenticity/: what the photographs and the words of one  *)
(* listing are turned into before anything is decided about it: the hard   *)
(* contradictions, and the lower bounds of item match and authenticity.    *)
(*                                                                         *)
(* Scores are whole thousandths.  A photograph is the record of what was   *)
(* measured on it:                                                         *)
(*   eyelets, panels, outsole, heel, angle   the constructed view          *)
(*   logo, kind, label where the logo is and which, the label's hash; 0 if *)
(*                     not found                                           *)
(*   colour, smooth    its dominant colour, its smoothness                 *)
(*   view, look        its view class; photographs of one look are alike   *)
(* An offer is what one listing shows and says, and what it scores:        *)
(*   photos, footwear                          its gallery, its category   *)
(*   text, glob, parts, geometry, material, cross, missing                 *)
(*                                             the parts of the item match *)
(*   corr              what correspondence found on its best pair: "strong"*)
(*                     of ten inliers or more, "ratio" over 0.4, or "weak" *)
(*   construction, labels, logos, materials, source, provenance, views     *)
(*                                             and of authenticity         *)
(*   words, family     it calls itself a replica; the dealer's family      *)
(*   link              "ok", "none", "private" (of this machine), "script" *)
(*   cheap, gaps       the price is suspicious; evidence is missing        *)
(*   seller, families  who offers it; the families of its photographs      *)
(*                                                                         *)
(* Left out: how a photograph is measured; the second reading of a mirrored*)
(* photograph; soft contradictions, which only explain; upper bounds.      *)
(***************************************************************************)
EXTENDS Integers, Sequences, FiniteSets, TLC

CONSTANTS
    MaxPairs,      \* _capped_view_pairs and _best_correspondence: 9
    ExactColour,   \* the search names a colour
    TablePresent   \* a calibration table was found

ASSUME EvidenceAssumption ==
    MaxPairs \in Nat \ {0} /\ ExactColour \in BOOLEAN /\ TablePresent \in BOOLEAN

Lesser(a, b) == IF a <= b THEN a ELSE b
Greater(a, b) == IF a <= b THEN b ELSE a
Gap(a, b) == IF a <= b THEN b - a ELSE a - b
Clamp(n) == Greater(0, Lesser(1000, n))

-------------------------------------------------------------------------------
(* Which photographs are compared, matching/pipeline.py. *)

\* Footwear spends the budget of pairs on the constructed views first.
Sorted(photos, footwear) ==
    LET Less(p, q) == p.eyelets < q.eyelets \/ (p.eyelets = q.eyelets /\ p.panels < q.panels)
        Ahead(i, j) == \/ Less(photos[j], photos[i])
                       \/ ~Less(photos[i], photos[j]) /\ i < j
        order == SortSeq([i \in 1..Len(photos) |-> i], Ahead)
    IN  IF footwear THEN [k \in 1..Len(photos) |-> photos[order[k]]] ELSE photos

\* _capped_view_pairs: row by row, until the budget is spent.
Considered(refs, photos) ==
    { w \in (1..Len(refs)) \X (1..Len(photos)) :
          (w[1] - 1) * Len(photos) + w[2] <= MaxPairs }

\* global_visual, as far as the choice of a pair depends on it.
Visual(r, p) == IF r.look = p.look THEN 900 ELSE 500

\* _pair_rank, its three parts read as one number.
PairRank(r, p, footwear) ==
    IF footwear
    THEN Lesser(r.eyelets, p.eyelets) * 100000 + Lesser(r.panels, p.panels) * 1000 + Visual(r, p)
    ELSE Visual(r, p)

\* max(considered, key=rank): the first of the best.
ChosenPair(refs, photos, footwear) ==
    CHOOSE w \in Considered(refs, photos) :
        \A v \in Considered(refs, photos) :
            LET here == PairRank(refs[w[1]], photos[w[2]], footwear)
                there == PairRank(refs[v[1]], photos[v[2]], footwear)
            IN  \/ here > there
                \/ here = there /\ \/ w[1] < v[1]
                                   \/ w[1] = v[1] /\ w[2] <= v[2]

-------------------------------------------------------------------------------
(* Contradictions on the item side. *)

\* item_contradictions: what counts as another model, on footwear only.
ConstructionHard(r, p, footwear) ==
    { code \in {"eyelet-count-mismatch", "panel-count-mismatch", "outsole-geometry-mismatch",
                "heel-construction-mismatch", "logo-placement-mismatch"} :
        /\ footwear
        /\ \/ code = "eyelet-count-mismatch" /\ Gap(r.eyelets, p.eyelets) >= 2
           \/ code = "panel-count-mismatch" /\ Gap(r.panels, p.panels) >= 1
           \/ code = "outsole-geometry-mismatch" /\ Gap(r.outsole, p.outsole) >= 70
           \/ code = "heel-construction-mismatch" /\ r.heel # p.heel
              /\ (Gap(r.angle, p.angle) >= 250 \/ "unknown" \notin {r.heel, p.heel})
           \/ code = "logo-placement-mismatch" /\ r.logo # 0 /\ p.logo # 0
                                               /\ Gap(r.logo, p.logo) >= 180 }

\* colour_consistency with an exact colour asked for.
ColourClash(r, p) == ExactColour /\ Gap(r.colour, p.colour) > 70

OneHasLabel(r, p) == (r.label # 0) # (p.label # 0)

\* _construction_pair_eligible and _colour_pair_eligible: a reading of the same view.
SameView(r, p, footwear) ==
    ~OneHasLabel(r, p) /\ (footwear => Gap(r.outsole, p.outsole) < 70)
ColourReading(r, p, footwear) ==
    ~OneHasLabel(r, p) /\ (footwear => Lesser(r.eyelets, p.eyelets) > 0)

\* _construction_across_pairs and _colour_across_pairs: what the considered pairs hold
\* against the listing, whichever of them the score is taken from.
AcrossPairs(refs, photos, footwear) ==
    UNION { LET r == refs[w[1]]
                p == photos[w[2]]
            IN  (IF SameView(r, p, footwear) THEN ConstructionHard(r, p, footwear) ELSE {})
                \cup (IF ColourReading(r, p, footwear) /\ ColourClash(r, p)
                      THEN {"colourway-hard-mismatch"} ELSE {})
          : w \in Considered(refs, photos) }

\* cross_view_consistency: the listing's own photographs against each other.
GalleryHard(photos, footwear) ==
    LET Constructed == { i \in 1..Len(photos) : photos[i].eyelets >= 2 /\ photos[i].panels >= 2 }
    IN  (IF footwear /\ \E i, j \in Constructed : photos[i].eyelets - photos[j].eyelets >= 2
         THEN {"gallery-eyelet-incompatible"} ELSE {})
        \cup (IF footwear /\ \E i, j \in Constructed : photos[i].panels - photos[j].panels >= 2
              THEN {"gallery-panel-incompatible"} ELSE {})
        \cup (IF \E i, j \in 1..Len(photos) :
                    /\ photos[i].view = photos[j].view /\ photos[i].view # "graphic"
                    /\ photos[i].smooth - photos[j].smooth > 450
              THEN {"stock-photo-smoothness-gap"} ELSE {})

\* The first label of either gallery; 0 if there is none.
LabelOf(photos) ==
    IF \E i \in 1..Len(photos) : photos[i].label # 0
    THEN photos[CHOOSE i \in 1..Len(photos) :
                    photos[i].label # 0 /\ \A j \in 1..(i - 1) : photos[j].label = 0].label
    ELSE 0

LabelsDiffer(refs, photos) ==
    LabelOf(refs) # 0 /\ LabelOf(photos) # 0 /\ LabelOf(refs) # LabelOf(photos)

\* match_candidate: the hard contradictions of the item match.
ItemHard(refs, photos, footwear) ==
    LET ours == Sorted(refs, footwear)
        theirs == Sorted(photos, footwear)
        w == ChosenPair(ours, theirs, footwear)
    IN  (IF Considered(ours, theirs) = {} THEN {}
         ELSE ConstructionHard(ours[w[1]], theirs[w[2]], footwear)
              \cup (IF ColourClash(ours[w[1]], theirs[w[2]])
                    THEN {"colourway-hard-mismatch"} ELSE {})
              \cup (IF footwear /\ LabelsDiffer(refs, photos)
                    THEN {"label-code-mismatch"} ELSE {})
              \cup AcrossPairs(ours, theirs, footwear))
        \cup GalleryHard(photos, footwear)

-------------------------------------------------------------------------------
(* The item-match lower bound. *)

\* Mutated form of HardPenalty: a hard contradiction lowers the score and no more.
SoftPenalty(lower, hard) == IF hard = {} THEN lower ELSE Clamp(lower - 250)

\* apply_hard_penalty: any hard contradiction caps the lower bound.
HardPenalty(lower, hard) == IF hard = {} THEN lower ELSE Lesser(lower, 120)

\* Strong visual identity lifts the lower bound towards the mean, never over it.
Lifted(lower, mean) == Lesser(mean, Greater(lower, 910))

\* The geometry of match_candidate after the best pair has been counted; without a pair
\* there is nothing to measure.
GeometryScore(o, pair) ==
    IF ~pair THEN 450
    ELSE CASE o.corr = "strong" -> Greater(o.geometry, 920)
           [] o.corr = "ratio"  -> Lesser(1000, o.geometry + 40)
           [] OTHER             -> o.geometry

\* combine_item_match.  The lower bounds it averages lie a spread under the means, a wider
\* one where no pair was compared; a contradicted colour or gallery caps its own mean.
\* Geometry cites a correspondence wherever a pair was compared, whatever it came to.
ItemLower(o, refs) ==
    LET hard == ItemHard(refs, o.photos, o.footwear)
        pair == refs # <<>> /\ o.photos # <<>>
        Under(n, spread, alone) == Clamp(n - IF pair THEN spread ELSE alone)
        geometry == GeometryScore(o, pair)
        parts == IF pair \/ ~o.footwear THEN o.parts ELSE 400
        material == IF "colourway-hard-mismatch" \in hard THEN Lesser(o.material, 250)
                                                         ELSE o.material
        cross == IF Len(o.photos) < 2 THEN 550
                 ELSE IF GalleryHard(o.photos, o.footwear) = {} THEN o.cross
                 ELSE Lesser(o.cross, 400)
        mean == (18 * o.text + 18 * o.glob + 30 * parts + 16 * geometry
                 + 8 * material + 10 * cross) \div 100
        source == (18 * Clamp(o.text - 60) + 18 * Under(o.glob, 50, 120)
                   + 30 * Clamp(parts - 60) + 16 * Under(geometry, 50, 200)
                   + 8 * Under(material, 80, 140) + 10 * Clamp(cross - 100)) \div 100
        spread == 40 + 30 * Lesser(4, o.missing)
        lower == Clamp(Lesser(mean, source) - (spread * 15) \div 100)
        strong == /\ parts >= 900 /\ geometry >= 900 /\ o.missing <= 2
                  /\ o.glob >= 880 \/ pair
    IN  IF hard = {} /\ strong THEN Lifted(lower, mean) ELSE HardPenalty(lower, hard)

-------------------------------------------------------------------------------
(* Authenticity. *)

\* engine._pick: of footwear the first with the most eyelets and panels; of the rest the
\* richest in keypoints, which here comes first.
Pick(photos, footwear) == Sorted(photos, footwear)[1]

\* assess_construction, assess_logos, assess_materials on the picked photographs.
PickedHard(r, p, footwear) ==
    { code \in {"construction-eyelet-count", "construction-panel-count",
                "construction-outsole", "construction-heel",
                "logo-incompatible", "material-colourway"} :
        \/ code = "construction-eyelet-count" /\ footwear /\ Gap(r.eyelets, p.eyelets) >= 2
        \/ code = "construction-panel-count" /\ footwear /\ Gap(r.panels, p.panels) >= 1
        \/ code = "construction-outsole" /\ footwear /\ Gap(r.outsole, p.outsole) >= 70
        \/ code = "construction-heel" /\ footwear /\ r.heel # p.heel
                                      /\ "unknown" \notin {r.heel, p.heel}
        \/ code = "logo-incompatible" /\ r.logo # 0 /\ p.logo # 0
           /\ (Gap(r.logo, p.logo) >= 180 \/ (0 \notin {r.kind, p.kind} /\ r.kind # p.kind))
        \/ code = "material-colourway" /\ ColourClash(r, p) }

\* assess_photo_set keeps the incompatible ones; assess_source reads the words and the link.
AuthHard(o, refs) ==
    (IF refs = <<>> \/ o.photos = <<>> THEN {}
     ELSE PickedHard(Pick(refs, o.footwear), Pick(o.photos, o.footwear), o.footwear))
    \cup (GalleryHard(o.photos, o.footwear) \ {"stock-photo-smoothness-gap"})
    \cup (IF o.words THEN {"self-declared-replica"} ELSE {})
    \cup (IF o.link \in {"none", "private", "script"} THEN {"malicious-url"} ELSE {})

\* apply_price_to_authenticity: a price may pull the score down, never up.
PricedIn(raw, contribution) == IF contribution > 0 THEN raw ELSE Greater(0, raw + contribution)

\* table_applies and authority_ceiling: the one table was measured on footwear.
Calibrated(o) == TablePresent /\ o.footwear

\* apply_calibration: the lower bound of the bin a raw mean falls in.
BinLower(raw) ==
    LET bins == << <<250, 20>>, <<450, 200>>, <<620, 400>>, <<780, 600>>, <<900, 800>> >>
        above == {i \in 1..5 : raw < bins[i][1]}
    IN  IF above = {} THEN 880 ELSE bins[CHOOSE i \in above : \A j \in above : i <= j][2]
CalibratedLower(raw, calibrated) == IF calibrated THEN BinLower(raw) ELSE Clamp(raw - 220)

\* combine_authenticity; what is not established for a category has no weight.
AuthRaw(o) ==
    LET others == 16 * o.labels + 12 * o.logos + 12 * o.materials + 12 * o.cross
                  + 8 * 700 + 8 * o.source + 8 * o.provenance
    IN  IF o.footwear THEN (24 * o.construction + others) \div 100 ELSE others \div 76

\* The score's mean, after the bonus of enough views, the price and the hard cap.
AuthMean(o, refs) ==
    LET hard == AuthHard(o, refs)
        full == IF hard = {} /\ o.views >= 650 THEN Lesser(1000, AuthRaw(o) + 120) ELSE AuthRaw(o)
        priced == PricedIn(full, IF o.cheap THEN -150 ELSE 0)
    IN  IF hard = {} THEN priced ELSE Lesser(priced, 220)

AuthLower(o, refs) ==
    HardPenalty(CalibratedLower(AuthMean(o, refs), Calibrated(o)), AuthHard(o, refs))

\* What an offer scores are whole thousandths, of the item match no more than the whole.
Thousandths(n) == n \in Nat /\ n <= 1000
OfferOK(o) ==
    /\ Thousandths(o.text) /\ Thousandths(o.glob) /\ Thousandths(o.parts)
    /\ Thousandths(o.geometry) /\ Thousandths(o.material) /\ Thousandths(o.cross)
    /\ o.missing \in Nat /\ Len(o.photos) \in Nat
    /\ o.construction \in Nat /\ o.labels \in Nat /\ o.logos \in Nat
    /\ o.materials \in Nat /\ o.source \in Nat
    /\ o.provenance \in Nat /\ o.views \in Nat

\* What match_candidate and assess leave behind for the ranking.
MatchEvidence(o, refs) ==
    [hard |-> ItemHard(refs, o.photos, o.footwear), lower |-> ItemLower(o, refs)]
AuthenticityEvidence(o, refs) ==
    [hard |-> AuthHard(o, refs), mean |-> AuthMean(o, refs), lower |-> AuthLower(o, refs)]

\* The evidence completeness _rank computes.  0.35 + 0.15 * 2 is 0.6499999999999999, so
\* two photographs and one missing piece of evidence stay under the gate's 0.65.
Completeness(o) ==
    LET images == Lesser(3, Len(o.photos))
    IN  IF images = 0 THEN IF o.gaps THEN 150 ELSE 200
        ELSE IF o.gaps THEN <<500, 649, 799>>[images] ELSE <<550, 700, 850>>[images]

===============================================================================
