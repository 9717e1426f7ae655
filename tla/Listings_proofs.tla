--------------------------- MODULE Listings_proofs ----------------------------
(***************************************************************************)
(* First what holds of every verdict, whatever a listing shows and scores: *)
(* which way the decisions can and cannot be moved.  Then every property   *)
(* the run of Listings checks, for any listings and offers, any budget and *)
(* any number of rounds, refreshes and crashes; and last what a reader is  *)
(* shown of the verdicts, the three properties of Display, for any hauls,  *)
(* rounds, views and deletes.                                              *)
(*                                                                         *)
(* The argument for Listings is about three moments.  A decision is made   *)
(* once, of all listings together, from the rows and the evidence of that  *)
(* moment (DecisionsStep); a result is made once, from the decisions       *)
(* (ResultsStep) and what both rest on is never taken back: the offer, what*)
(* a page has shown, that the live stage has seen a listing (Standing).    *)
(*                                                                         *)
(* The argument for Display has two halves.  Of the rows (RowsInv): a      *)
(* listing is compared once, and after its broad comparison, so the ranking*)
(* and the view, which choose by rules of their own, can only choose the   *)
(* same row.  Of the pages (PagesInv): a list that is put together stands  *)
(* for the results there were when it was opened (OpenedAt), and the later *)
(* ones come behind them.                                                  *)
(***************************************************************************)
EXTENDS Listings, Display, FiniteSetTheorems, WellFoundedInduction, TLAPS

\* One hard contradiction or one veto hides the listing, however well it scores
\* (ranking/buckets.py, route_candidate).
LEMMA HardContradictionBars ==
    ASSUME NEW c, c.match.hard # {} \/ c.auth.hard # {} \/ Vetoes(c) # {}
    PROVE  Route(c) = "hidden"
<1>1. ~Uncontradicted(c)
  BY DEF Uncontradicted
<1> QED
  BY <1>1 DEF Route, RealGate, PossiblyGate

\* The lower bound of authenticity passes the gate only as it is: screened, calibrated and
\* not lifted (auth_for_real).
LEMMA PassedAsItIs ==
    ASSUME NEW c, c.auth.lower \in Int, AuthForReal(c) >= 800
    PROVE  c.screened /\ Calibrated(c.offer) /\ c.auth.lower >= 800
<1>1. CASE ~c.screened \/ ~Calibrated(c.offer)
  <2>1. AuthForReal(c) = Lesser(c.auth.lower, 790)
    BY <1>1 DEF AuthForReal
  <2>2. Lesser(c.auth.lower, 790) < 800
    BY DEF Lesser
  <2>3. Lesser(c.auth.lower, 790) \in Int
    BY DEF Lesser
  <2> QED
    BY <2>1, <2>2, <2>3
<1>2. CASE c.screened /\ Calibrated(c.offer)
  BY <1>2 DEF AuthForReal
<1> QED
  BY <1>1, <1>2

\* Real asks for everything at once: both lower bounds, completeness, a live page that was
\* checked, a verified destination, calibration, the photo screen, and nothing against it.
LEMMA RealNeedsItAll ==
    ASSUME NEW c, c.auth.lower \in Int, Route(c) = "real"
    PROVE  /\ c.match.lower >= 900 /\ c.auth.lower >= 800 /\ c.complete >= 650
           /\ c.avail = "LIVE" /\ c.liveChecked /\ c.dest
           /\ c.screened /\ Calibrated(c.offer)
           /\ c.match.hard = {} /\ c.auth.hard = {} /\ Vetoes(c) = {}
<1>1. RealGate(c)
  BY DEF Route
<1>2. c.screened /\ Calibrated(c.offer) /\ c.auth.lower >= 800
  BY <1>1, PassedAsItIs DEF RealGate
<1> QED
  BY <1>1, <1>2 DEF RealGate, Uncontradicted

\* A replica reaches no other tab than its own, and a tab of genuine items only what the
\* ranking put there and what can be opened (campaigns/publication.py).
LEMMA ReplicaNeverReal ==
    ASSUME NEW o, NEW bucket \in Buckets
    PROVE  /\ PublishedBucket(o, bucket) = "replica" <=> IsReplica(o)
           /\ PublishedBucket(o, bucket) \in {"real", "possibly_real"} =>
                  PublishedBucket(o, bucket) = bucket /\ LinkUsable(o) /\ ~IsReplica(o)
BY DEF PublishedBucket, Buckets

-------------------------------------------------------------------------------
(* Scores. *)

\* A price never raises authenticity, whatever it contributes (core/policy.py).
THEOREM PriceNeverRaises ==
    ASSUME NEW raw \in Nat, NEW contribution \in Int
    PROVE  PricedIn(raw, contribution) <= raw /\ PricedIn(raw, contribution) >= 0
BY DEF PricedIn, Greater

\* One hard contradiction on the item side holds the item match under every gate, whatever
\* the parts of the score are (matching/scores.py, apply_hard_penalty).
THEOREM ContradictedItemFails ==
    ASSUME NEW o, NEW refs, ItemHard(refs, o.photos, o.footwear) # {}
    PROVE  ItemLower(o, refs) <= 120
<1>1. ASSUME NEW lower PROVE HardPenalty(lower, ItemHard(refs, o.photos, o.footwear)) <= 120
  BY DEF HardPenalty, Lesser
<1> QED
  BY <1>1 DEF ItemLower

\* The same of authenticity, calibrated or not.
THEOREM ContradictedSourceFails ==
    ASSUME NEW o, NEW refs, AuthHard(o, refs) # {}
    PROVE  AuthLower(o, refs) <= 120
BY DEF AuthLower, HardPenalty, Lesser

\* Without a calibration table for its category no listing reaches the gate's 800, so that
\* the cap in auth_for_real is a second bar and not the only one (authenticity/calibration.py).
THEOREM UncalibratedBelowGate ==
    ASSUME NEW raw \in Int, raw <= 1000
    PROVE  CalibratedLower(raw, FALSE) <= 780
BY DEF CalibratedLower, Clamp, Lesser, Greater

LEMMA BinLowerIs ==
    ASSUME NEW raw \in Int
    PROVE  /\ raw < 250 => BinLower(raw) = 20
           /\ raw \in 250..449 => BinLower(raw) = 200
           /\ raw \in 450..619 => BinLower(raw) = 400
           /\ raw \in 620..779 => BinLower(raw) = 600
           /\ raw \in 780..899 => BinLower(raw) = 800
           /\ raw >= 900 => BinLower(raw) = 880
<1> DEFINE bins == << <<250, 20>>, <<450, 200>>, <<620, 400>>, <<780, 600>>, <<900, 800>> >>
           above == {i \in 1..5 : raw < bins[i][1]}
           first == CHOOSE i \in above : \A j \in above : i <= j
<1>1. BinLower(raw) = IF above = {} THEN 880 ELSE bins[first][2]
  BY DEF BinLower
<1>2. /\ bins[1] = <<250, 20>> /\ bins[2] = <<450, 200>> /\ bins[3] = <<620, 400>>
      /\ bins[4] = <<780, 600>> /\ bins[5] = <<900, 800>>
  OBVIOUS
<1>3. /\ bins[1][1] = 250 /\ bins[2][1] = 450 /\ bins[3][1] = 620 /\ bins[4][1] = 780
      /\ bins[5][1] = 900 /\ bins[1][2] = 20 /\ bins[2][2] = 200 /\ bins[3][2] = 400
      /\ bins[4][2] = 600 /\ bins[5][2] = 800
  BY <1>2
<1> HIDE DEF bins
<1>4. \A i \in 1..5 : i \in above <=> raw < bins[i][1]
  OBVIOUS
<1>5. ASSUME NEW k \in 1..5, k \in above, \A j \in above : k <= j
      PROVE  BinLower(raw) = bins[k][2]
  <2>1. first \in above /\ \A j \in above : first <= j
    BY <1>5
  <2>2. first = k
    BY <2>1, <1>5
  <2> QED
    BY <2>2, <1>5, <1>1
<1> HIDE DEF above, first
<1>6. above \subseteq 1..5
  BY DEF above
<1>7. raw >= 900 => above = {}
  BY <1>3, <1>4, <1>6
<1>8. /\ raw < 250 => 1 \in above /\ \A j \in above : 1 <= j
      /\ raw \in 250..449 => 2 \in above /\ \A j \in above : 2 <= j
      /\ raw \in 450..619 => 3 \in above /\ \A j \in above : 3 <= j
      /\ raw \in 620..779 => 4 \in above /\ \A j \in above : 4 <= j
      /\ raw \in 780..899 => 5 \in above /\ \A j \in above : 5 <= j
  BY <1>3, <1>4, <1>6
<1> QED
  BY <1>1, <1>3, <1>5, <1>7, <1>8

\* Calibration keeps the order of raw means: a better measurement is never trusted less
\* (fixtures/calibration/footwear_v1.json with authenticity/calibration.py).
THEOREM CalibrationKeepsOrder ==
    ASSUME NEW low \in Int, NEW high \in Int, low <= high, NEW calibrated \in BOOLEAN
    PROVE  CalibratedLower(low, calibrated) <= CalibratedLower(high, calibrated)
<1>1. Clamp(low - 220) <= Clamp(high - 220)
  BY DEF Clamp, Lesser, Greater
<1>2. BinLower(low) <= BinLower(high)
  BY BinLowerIs
<1> QED
  BY <1>1, <1>2 DEF CalibratedLower

LEMMA AuthMeanInt ==
    ASSUME NEW o, OfferOK(o), NEW refs
    PROVE  AuthMean(o, refs) \in Int
<1> DEFINE hard == AuthHard(o, refs)
           full == IF hard = {} /\ o.views >= 650 THEN Lesser(1000, AuthRaw(o) + 120)
                                                 ELSE AuthRaw(o)
           priced == PricedIn(full, IF o.cheap THEN -150 ELSE 0)
<1>1. /\ o.construction \in Int /\ o.labels \in Int /\ o.logos \in Int /\ o.materials \in Int
      /\ o.cross \in Int /\ o.source \in Int /\ o.provenance \in Int /\ o.views \in Int
  <2>1. o.cross \in Int
    BY DEF OfferOK, Thousandths
  <2> QED
    BY <2>1 DEF OfferOK
<1>2. AuthRaw(o) \in Int
  BY <1>1 DEF AuthRaw
<1>3. \A a, b \in Int : Lesser(a, b) \in Int
  BY DEF Lesser
<1>4. \A a, b \in Int : PricedIn(a, b) \in Int
  BY DEF PricedIn, Greater
<1>5. full \in Int
  BY <1>2, <1>3
<1>6. priced \in Int
  <2> HIDE DEF full
  <2>1. (IF o.cheap THEN -150 ELSE 0) \in Int
    OBVIOUS
  <2> QED
    BY <1>5, <2>1, <1>4
<1>7. AuthMean(o, refs) = IF hard = {} THEN priced ELSE Lesser(priced, 220)
  BY DEF AuthMean
<1> HIDE DEF priced
<1> QED
  BY <1>6, <1>7, <1>3

\* The authenticity bound of an offer is a number, so that putting it to a gate means
\* something.
LEMMA AuthLowerInt ==
    ASSUME NEW o, OfferOK(o), NEW refs
    PROVE  AuthLower(o, refs) \in Int
<1>1. \A n \in Int : BinLower(n) \in Int
  BY BinLowerIs
<1>2. \A n \in Int : Clamp(n - 220) \in Int
  BY DEF Clamp, Lesser, Greater
<1>3. CalibratedLower(AuthMean(o, refs), Calibrated(o)) \in Int
  BY <1>1, <1>2, AuthMeanInt DEF CalibratedLower
<1> QED
  BY <1>3 DEF AuthLower, HardPenalty, Lesser

\* What authenticity and completeness ask for, read back from the gates.
LEMMA AuthNeeds ==
    ASSUME NEW o, OfferOK(o), NEW refs, Calibrated(o), AuthLower(o, refs) >= 800
    PROVE  AuthMean(o, refs) >= 780
<1>1. AuthMean(o, refs) \in Int
  BY AuthMeanInt
<1>2. CalibratedLower(AuthMean(o, refs), Calibrated(o)) = BinLower(AuthMean(o, refs))
  BY DEF CalibratedLower
<1>3. BinLower(AuthMean(o, refs)) \in Int
  BY <1>1, BinLowerIs
<1>4. \A n \in Int : \A hard : HardPenalty(n, hard) >= 800 => n >= 800
  BY DEF HardPenalty, Lesser
<1>5. BinLower(AuthMean(o, refs)) >= 800
  <2>1. HardPenalty(CalibratedLower(AuthMean(o, refs), Calibrated(o)), AuthHard(o, refs)) >= 800
    BY Zenon DEF AuthLower
  <2> QED
    BY <2>1, <1>2, <1>3, <1>4, ZenonT(40)
<1> QED
  BY <1>1, <1>5, BinLowerIs

LEMMA CompletenessNeeds ==
    ASSUME NEW o, OfferOK(o), Completeness(o) >= 650
    PROVE  Len(o.photos) >= 3 \/ (Len(o.photos) = 2 /\ ~o.gaps)
<1>1. Len(o.photos) \in Nat
  BY DEF OfferOK
<1>2. ASSUME Len(o.photos) = 0 PROVE ~(Completeness(o) >= 650)
  BY <1>2 DEF Completeness, Lesser
<1>3. ASSUME Len(o.photos) = 1 PROVE ~(Completeness(o) >= 650)
  BY <1>3 DEF Completeness, Lesser
<1>4. ASSUME Len(o.photos) = 2, o.gaps PROVE ~(Completeness(o) >= 650)
  BY <1>4 DEF Completeness, Lesser
<1>5. \A n \in Nat : n = 0 \/ n = 1 \/ n = 2 \/ n >= 3
  OBVIOUS
<1> QED
  BY <1>1, <1>2, <1>3, <1>4, <1>5, Zenon

LEMMA Hundredth ==
    ASSUME NEW x \in Int, NEW k \in Int, x \div 100 >= k
    PROVE  x >= 100 * k
BY SMT

\* What the gate of the item match asks of the six scores, whatever it was that lifted the
\* lower bound: the mean is over the gate, and unless it was lifted so is the average of the
\* lower bounds, from which each bound follows as the others are at most the whole.
LEMMA MatchNeeds ==
    ASSUME NEW o, OfferOK(o), NEW refs, o.footwear, ItemLower(o, refs) >= 900
    PROVE  /\ refs # <<>>
           /\ o.parts >= 894 /\ o.text >= 445 /\ o.glob >= 445
           /\ o.corr = "strong" \/ o.geometry >= 762
<1> DEFINE hard == ItemHard(refs, o.photos, o.footwear)
           pair == refs # <<>> /\ o.photos # <<>>
           Under(n, spread, alone) == Clamp(n - IF pair THEN spread ELSE alone)
           geometry == GeometryScore(o, pair)
           parts == IF pair \/ ~o.footwear THEN o.parts ELSE 400
           material == IF "colourway-hard-mismatch" \in hard THEN Lesser(o.material, 250)
                                                            ELSE o.material
           cross == IF Len(o.photos) < 2 THEN 550
                    ELSE IF GalleryHard(o.photos, o.footwear) = {} THEN o.cross
                    ELSE Lesser(o.cross, 400)
           means == 18 * o.text + 18 * o.glob + 30 * parts + 16 * geometry
                    + 8 * material + 10 * cross
           sources == 18 * Clamp(o.text - 60) + 18 * Under(o.glob, 50, 120)
                      + 30 * Clamp(parts - 60) + 16 * Under(geometry, 50, 200)
                      + 8 * Under(material, 80, 140) + 10 * Clamp(cross - 100)
           spread == 40 + 30 * Lesser(4, o.missing)
           lower == Clamp(Lesser(means \div 100, sources \div 100) - (spread * 15) \div 100)
           strong == /\ parts >= 900 /\ geometry >= 900 /\ o.missing <= 2
                     /\ o.glob >= 880 \/ pair
<1>1. ItemLower(o, refs) = IF hard = {} /\ strong THEN Lifted(lower, means \div 100)
                                               ELSE HardPenalty(lower, hard)
  BY DEF ItemLower
<1>2. /\ Thousandths(o.text) /\ Thousandths(o.glob) /\ Thousandths(o.parts)
      /\ Thousandths(o.geometry) /\ Thousandths(o.material) /\ Thousandths(o.cross)
      /\ o.missing \in Nat
  BY DEF OfferOK
<1>3. Thousandths(geometry)
  BY <1>2 DEF GeometryScore, Lesser, Greater, Thousandths
<1>4. Thousandths(parts) /\ Thousandths(material) /\ Thousandths(cross)
  <2>1. \A n, m : Thousandths(n) /\ Thousandths(m) => Thousandths(Lesser(n, m))
    BY DEF Lesser
  <2>2. Thousandths(250) /\ Thousandths(400) /\ Thousandths(550)
    BY DEF Thousandths
  <2>3. Thousandths(parts)
    BY <1>2, <2>2
  <2>4. Thousandths(Lesser(o.material, 250)) /\ Thousandths(Lesser(o.cross, 400))
    BY <1>2, <2>1, <2>2
  <2>5. Thousandths(material)
    BY <1>2, <2>4
  <2>6. Thousandths(cross)
    BY <1>2, <2>2, <2>4
  <2> QED
    BY <2>3, <2>5, <2>6
<1>5. \A n \in Int : Thousandths(Clamp(n))
  BY DEF Clamp, Lesser, Greater, Thousandths
<1>6. ~pair => parts = 400 /\ geometry = 450
  BY DEF GeometryScore
<1>7. pair => parts = o.parts
  OBVIOUS
<1>8. geometry >= 802 => o.corr = "strong" \/ o.geometry >= 762
  BY <1>2 DEF GeometryScore, Lesser, Thousandths
<1>9. spread \in Int /\ 40 <= spread /\ spread <= 160
  BY <1>2 DEF Lesser, Thousandths
<1> HIDE DEF geometry, parts, material, cross, spread, hard
<1>10. /\ Thousandths(Under(o.glob, 50, 120)) /\ Thousandths(Under(geometry, 50, 200))
       /\ Thousandths(Under(material, 80, 140))
  <2>1. ASSUME NEW n, Thousandths(n), NEW by \in Int, NEW alone \in Int
        PROVE  Thousandths(Under(n, by, alone))
    <3>1. n - by \in Int /\ n - alone \in Int
      BY <2>1 DEF Thousandths
    <3> QED
      BY <3>1, <1>5
  <2> HIDE DEF Under
  <2>2. 50 \in Int /\ 80 \in Int /\ 120 \in Int /\ 140 \in Int /\ 200 \in Int
    OBVIOUS
  <2> QED
    BY <2>1, <2>2, <1>2, <1>3, <1>4, Zenon
<1> HIDE DEF pair, Under
<1>11. means \in Int /\ sources \in Int
  <2>1. \A n : Thousandths(n) => n \in Int
    BY DEF Thousandths
  <2>2. /\ o.text \in Int /\ o.glob \in Int /\ parts \in Int /\ geometry \in Int
        /\ material \in Int /\ cross \in Int
    BY <1>2, <1>3, <1>4 DEF Thousandths
  <2>3. /\ Clamp(o.text - 60) \in Int /\ Clamp(parts - 60) \in Int /\ Clamp(cross - 100) \in Int
    <3>1. o.text - 60 \in Int /\ parts - 60 \in Int /\ cross - 100 \in Int
      BY <2>2
    <3> QED
      BY <3>1, <2>1, <1>5
  <2>4. /\ Under(o.glob, 50, 120) \in Int /\ Under(geometry, 50, 200) \in Int
        /\ Under(material, 80, 140) \in Int
    BY <2>1, <1>10
  <2> QED
    BY <2>2, <2>3, <2>4
<1>12. (spread * 15) \div 100 >= 6 /\ (spread * 15) \div 100 \in Int
  BY <1>9, SMT
<1> DEFINE mean == means \div 100
           source == sources \div 100
           away == (spread * 15) \div 100
<1>13. mean \in Int /\ source \in Int
  <2> HIDE DEF means, sources
  <2> QED
    BY <1>11, SMT
<1> HIDE DEF mean, source, away, means, sources, strong
<1>14. lower \in Int /\ (lower >= 900 => mean >= 906 /\ source >= 906)
  BY <1>12, <1>13 DEF Clamp, Lesser, Greater, away, mean, source
<1>15. mean >= 900 /\ (strong \/ source >= 906)
  BY <1>1, <1>13, <1>14 DEF Lifted, HardPenalty, Lesser, Greater, mean
<1>16. means >= 90000
  BY <1>11, <1>15, Hundredth DEF mean
<1>17. pair /\ o.text >= 445 /\ o.glob >= 445
  <2>1. o.text >= 445 /\ o.glob >= 445
    BY <1>16, <1>2, <1>3, <1>4 DEF means, Thousandths
  <2>2. ASSUME parts = 400, geometry = 450 PROVE FALSE
    BY <1>16, <1>2, <1>4, <2>2 DEF means, Thousandths
  <2> QED
    BY <2>1, <2>2, <1>6
<1>18. refs # <<>>
  BY <1>17 DEF pair
<1>19. CASE strong
  BY <1>19, <1>18, <1>17, <1>7, <1>8, <1>2, <1>3 DEF strong, Thousandths
<1>20. CASE source >= 906
  <2>1. sources >= 90600
    BY <1>11, <1>20, Hundredth DEF source
  <2>2. Clamp(o.text - 60) <= 940 /\ Clamp(parts - 60) <= 940 /\ Clamp(cross - 100) <= 900
    BY <1>2, <1>4 DEF Clamp, Lesser, Greater, Thousandths
  <2>3. Under(o.glob, 50, 120) <= 950 /\ Under(geometry, 50, 200) <= 950
        /\ Under(material, 80, 140) <= 920
    BY <1>17, <1>2, <1>3, <1>4 DEF Clamp, Lesser, Greater, Thousandths, Under
  <2>4. parts <= 893 => Clamp(parts - 60) <= 833
    BY <1>4 DEF Clamp, Lesser, Greater, Thousandths
  <2>5. geometry <= 801 => Under(geometry, 50, 200) <= 751
    BY <1>17, <1>3 DEF Clamp, Lesser, Greater, Thousandths, Under
  <2>6. Clamp(o.text - 60) \in Int /\ Clamp(parts - 60) \in Int /\ Clamp(cross - 100) \in Int
    BY <1>2, <1>4, <1>5 DEF Thousandths
  <2>7. parts >= 894 /\ geometry >= 802
    BY <2>1, <2>2, <2>3, <2>4, <2>5, <2>6, <1>10, <1>3, <1>4 DEF sources, Thousandths
  <2> QED
    BY <2>7, <1>17, <1>18, <1>7, <1>8
<1> QED
  BY <1>15, <1>19, <1>20

-------------------------------------------------------------------------------
(* Which photographs are held against a listing. *)

LEMMA RowFits ==
    ASSUME NEW a \in Nat, NEW m \in Nat, NEW b \in Nat, NEW n \in Nat, a <= m, b <= n
    PROVE  (a - 1) * n + b <= m * n
<1>1. a * n <= m * n
  BY SMT
<1>2. (a - 1) * n = a * n - n
  BY SMT
<1> QED
  BY <1>1, <1>2

\* A seller who adds photographs takes no contradiction back, as long as every pair is
\* within the budget: what a considered pair holds against the listing it still holds
\* (matching/pipeline.py, "not erasable by that choice").  Beyond the budget it may not.
THEOREM EligibleContradictionsStand ==
    ASSUME NEW Photos, NEW refs \in Seq(Photos), NEW p \in Seq(Photos), NEW q \in Seq(Photos),
           NEW footwear \in BOOLEAN,
           \A i \in 1..Len(p) : \E j \in 1..Len(q) : q[j] = p[i],
           Len(refs) * Len(q) <= MaxPairs
    PROVE  AcrossPairs(refs, p, footwear) \subseteq AcrossPairs(refs, q, footwear)
<1> DEFINE Held(r, x) == (IF SameView(r, x, footwear) THEN ConstructionHard(r, x, footwear) ELSE {})
                         \cup (IF ColourReading(r, x, footwear) /\ ColourClash(r, x)
                               THEN {"colourway-hard-mismatch"} ELSE {})
<1>1. \A s : AcrossPairs(refs, s, footwear) = UNION {Held(refs[w[1]], s[w[2]]) : w \in Considered(refs, s)}
  BY DEF AcrossPairs
<1> HIDE DEF Held
<1>2. SUFFICES ASSUME NEW w \in Considered(refs, p)
               PROVE  \E v \in Considered(refs, q) : Held(refs[w[1]], p[w[2]]) = Held(refs[v[1]], q[v[2]])
  BY <1>1
<1>3. w[1] \in 1..Len(refs) /\ w[2] \in 1..Len(p)
  BY DEF Considered
<1>4. PICK j \in 1..Len(q) : q[j] = p[w[2]]
  BY <1>3
<1>5. (w[1] - 1) * Len(q) + j <= MaxPairs
  <2>1. Len(refs) \in Nat /\ Len(q) \in Nat
    OBVIOUS
  <2>2. (w[1] - 1) * Len(q) + j <= Len(refs) * Len(q)
    <3>1. w[1] \in Nat /\ w[1] <= Len(refs) /\ j \in Nat /\ j <= Len(q)
      BY <1>3, <2>1
    <3> QED
      BY <3>1, <2>1, RowFits
  <2>3. w[1] \in Int /\ j \in Int /\ MaxPairs \in Int
    BY <1>3, EvidenceAssumption
  <2>4. (w[1] - 1) * Len(q) \in Int /\ Len(refs) * Len(q) \in Int
    BY <2>1, <2>3
  <2> QED
    BY <2>2, <2>3, <2>4
<1>6. <<w[1], j>> \in Considered(refs, q)
  BY <1>3, <1>4, <1>5 DEF Considered
<1>7. Held(refs[<<w[1], j>>[1]], q[<<w[1], j>>[2]]) = Held(refs[w[1]], p[w[2]])
  BY <1>4
<1> QED
  BY <1>6, <1>7

-------------------------------------------------------------------------------
(* Listings over rounds, refreshes and crashes. *)

PublicTabs == {"real", "possibly_real"}

\* What row and cache say has been shown.
Grounded ==
    \A l \in Links : /\ shop[l] \in shown[l]
                     /\ cached[l] \in shown[l] \cup {"none"}
                     /\ row[l] \in shown[l] \cup {"none", "UNKNOWN"}

ScoredIsFound == \A l \in scored : row[l] # "none"

\* The gates of Real, put to the scores of the listing itself.
Passed(l) ==
    /\ Matched[offer[l]].lower >= 900 /\ Matched[offer[l]].hard = {}
    /\ Assessed[offer[l]].lower >= 800 /\ Assessed[offer[l]].hard = {}
    /\ Completeness(The(l)) >= 650 /\ Calibrated(The(l))
    /\ "LIVE" \in shown[l]

DecidedRight ==
    \A l \in Links : decision[l] = "real" => Passed(l) /\ dest[l] # "none"

PublishedRight ==
    \A l \in Links : result[l] = "real" => Passed(l) /\ LinkUsable(The(l))

DecidedTogether ==
    \A l, m \in Links :
        decision[l] # "none" /\ decision[m] # "none" /\ SamePhotoOtherSeller(l, m)
        => decision[l] = "hidden"

\* Nothing is decided before the first ranking, and a refresh is one that was asked for.
NothingYet ==
    /\ round = 1 /\ stage \in {"discover", "match", "live", "checking", "rank"}
       => NothingStored(decision) /\ NothingStored(result)
    /\ asked = 0 => refresh = {}

DecidedNotDead ==
    round = 1 /\ asked = 0 =>
        \A l \in Links : decision[l] \in PublicTabs => row[l] \in {"LIVE", "UNKNOWN"}

IInv ==
    /\ TypeOK /\ Grounded /\ ScoredIsFound /\ NothingYet
    /\ DecidedRight /\ DecidedTogether /\ DecidedNotDead
    /\ PublishedRight /\ RealAfterLiveStage /\ ReplicaApart
    /\ StolenPhotoBarred /\ ShownNotKnownDead

-------------------------------------------------------------------------------
(* What one verdict and one publication come to. *)

LEMMA VerdictBuckets == \A c : Route(c) \in Buckets
BY DEF Route, Buckets

LEMMA RankedBucket ==
    ASSUME NEW l \in Links
    PROVE  Ranked[l] = IF l \in scored THEN Route(CaseOf(l)) ELSE "none"
BY DEF Ranked

LEMMA RankedReal ==
    ASSUME TypeOK, Grounded, NEW l \in Links, Ranked[l] = "real"
    PROVE  Passed(l) /\ dest[l] # "none"
<1> DEFINE c == CaseOf(l)
<1>1. Route(c) = "real"
  BY RankedBucket
<1>2. /\ c.match = Matched[offer[l]] /\ c.auth = Assessed[offer[l]]
      /\ c.complete = Completeness(The(l)) /\ c.offer = The(l)
      /\ c.avail = row[l] /\ c.dest = DestOf(l)
  BY DEF CaseOf
<1>3. offer[l] \in Offers
  BY DEF TypeOK
<1>4. c.auth.lower \in Int
  <2>1. OfferOK(Says[offer[l]])
    BY <1>3, ListingsAssumption
  <2>2. AuthLower(Says[offer[l]], References) \in Int
    BY <2>1, AuthLowerInt
  <2>3. Assessed[offer[l]].lower = AuthLower(Says[offer[l]], References)
    BY <1>3 DEF Assessed, AuthenticityEvidence
  <2> QED
    BY <1>2, <2>2, <2>3
<1> HIDE DEF c
<1>5. /\ c.match.lower >= 900 /\ c.auth.lower >= 800 /\ c.complete >= 650
      /\ c.avail = "LIVE" /\ c.dest /\ Calibrated(c.offer)
      /\ c.match.hard = {} /\ c.auth.hard = {}
  BY <1>1, <1>4, RealNeedsItAll
<1>6. "LIVE" \in shown[l]
  <2>1. row[l] = "LIVE"
    BY <1>2, <1>5
  <2>2. row[l] \in shown[l] \cup {"none", "UNKNOWN"}
    BY DEF Grounded
  <2> QED
    BY <2>1, <2>2
<1>7. dest[l] = "yes"
  BY <1>2, <1>5 DEF DestOf
<1> QED
  BY <1>2, <1>5, <1>6, <1>7 DEF Passed

\* What passes the gates has the evidence.
LEMMA PassedIsEarned ==
    ASSUME NEW l \in Links, offer[l] \in Offers, Passed(l), LinkUsable(The(l)), ~IsReplica(The(l))
    PROVE  Earned(Says[offer[l]])
<1> DEFINE o == Says[offer[l]]
<1>1. The(l) = o /\ OfferOK(o)
  BY ListingsAssumption DEF The
<1>2. /\ Matched[offer[l]] = MatchEvidence(o, References)
      /\ Assessed[offer[l]] = AuthenticityEvidence(o, References)
  BY DEF Matched, Assessed
<1> HIDE DEF o
<1>3. /\ ItemLower(o, References) >= 900 /\ ItemHard(References, o.photos, o.footwear) = {}
      /\ AuthLower(o, References) >= 800 /\ AuthHard(o, References) = {}
      /\ Completeness(o) >= 650 /\ Calibrated(o)
  BY <1>1, <1>2 DEF Passed, MatchEvidence, AuthenticityEvidence
<1>4. o.footwear
  BY <1>3 DEF Calibrated
<1>5. o.link = "ok"
  <2>1. o.link \in {"ok", "private"}
    BY <1>1 DEF LinkUsable
  <2>2. o.link # "private"
    BY <1>3 DEF AuthHard
  <2> QED
    BY <2>1, <2>2
<1>6. /\ References # <<>>
      /\ o.parts >= 894 /\ o.text >= 445 /\ o.glob >= 445
      /\ o.corr = "strong" \/ o.geometry >= 762
  BY <1>1, <1>3, <1>4, MatchNeeds
<1>7. AuthMean(o, References) >= 780
  BY <1>1, <1>3, AuthNeeds
<1>8. Len(o.photos) >= 3 \/ (Len(o.photos) = 2 /\ ~o.gaps)
  BY <1>1, <1>3, CompletenessNeeds
<1>9. ~IsReplica(o)
  BY <1>1
<1>10. Earned(o)
  BY <1>3, <1>5, <1>6, <1>7, <1>8, <1>9 DEF Earned
<1> QED
  BY <1>10 DEF o

LEMMA RankedNotDead ==
    ASSUME NEW l \in Links, Ranked[l] \in PublicTabs
    PROVE  row[l] \in {"LIVE", "UNKNOWN"}
<1> DEFINE c == CaseOf(l)
<1>1. Route(c) \in PublicTabs
  BY RankedBucket DEF PublicTabs
<1>2. c.avail = row[l]
  BY DEF CaseOf
<1> HIDE DEF c
<1>3. Vetoes(c) = {}
  BY <1>1, HardContradictionBars DEF PublicTabs
<1>4. "DEAD_LISTING" \notin Vetoes(c)
  BY <1>3
<1>5. c.avail \in {"LIVE", "UNKNOWN"}
  BY <1>4, Zenon DEF Vetoes
<1> QED
  BY <1>2, <1>5

LEMMA RankedTogether ==
    ASSUME TypeOK, ScoredIsFound, NEW l \in Links, NEW m \in Links,
           Ranked[l] # "none", Ranked[m] # "none", SamePhotoOtherSeller(l, m)
    PROVE  Ranked[l] = "hidden"
<1> DEFINE c == CaseOf(l)
<1>1. l \in scored /\ m \in scored /\ Ranked[l] = Route(c)
  BY RankedBucket
<1>2. m \in found /\ m # l
  BY <1>1 DEF ScoredIsFound, found, SamePhotoOtherSeller
<1>3. Reused(l, found)
  BY <1>2 DEF Reused, SamePhotoOtherSeller
<1>4. c.stolen = Reused(l, found)
  BY DEF CaseOf
<1> HIDE DEF c
<1>5. "IMAGE_THEFT_OR_SCAM" \in Vetoes(c)
  BY <1>3, <1>4, Zenon DEF Vetoes
<1> QED
  BY <1>1, <1>5, HardContradictionBars

LEMMA PublishedIs ==
    ASSUME NEW buckets, NEW l \in Links, Published(buckets)[l] # "none"
    PROVE  buckets[l] # "none" /\ Published(buckets)[l] = PublishedBucket(The(l), buckets[l])
BY DEF Published

-------------------------------------------------------------------------------
(* What a step may do. *)

\* The actions that leave decisions and results alone.
Quiet == \/ \E l \in Links : \/ ShopChanges(l) \/ DiscoverPage(l) \/ DiscoverFeed(l)
                             \/ LiveCheck(l) \/ RefreshCheck(l)
         \/ EndDiscover \/ Match \/ BeginLive \/ EndLive \/ LiveFails
         \/ Gaps \/ BudgetStop \/ Crash \/ StartRefresh \/ RefreshStops

LEMMA NextIs == Next <=> Quiet \/ Rank \/ Publish \/ Salvage
BY DEF Next, Quiet

LEMMA QuietKeeps == Quiet => decision' = decision /\ result' = result
BY DEF Quiet, ShopChanges, DiscoverPage, DiscoverFeed, LiveCheck, RefreshCheck, EndDiscover,
       Match, BeginLive, EndLive, LiveFails, Verified, Gaps, BudgetStop, Crash, StartRefresh,
       RefreshStops, world, disk

\* Ranking and publishing look, and change nothing they look at.
LEMMA RankingReads ==
    ASSUME Rank \/ Publish \/ Salvage
    PROVE  UNCHANGED <<world, row, checked, feed, scored, dest, round, cached, todo, held,
                       refresh, pages, crashes, asked>>
BY DEF Rank, Publish, Salvage, world

LEMMA LooksAre ==
    ASSUME TypeOK, Grounded, NEW l \in Links, NEW look \in Looks(l)
    PROVE  /\ look.avail \in Availabilities /\ look.avail \in shown[l] \cup {"UNKNOWN"}
           /\ look.keep \in {"none", "LIVE", "SOLD"} /\ look.keep \in shown[l] \cup {"none"}
           /\ look.by \in Provenances
           /\ look.cost \in {0, 1} /\ pages - look.cost \in Nat
<1>1. /\ cached[l] \in {"none", "LIVE", "SOLD"} /\ shop[l] \in {"LIVE", "SOLD", "REMOVED"}
      /\ pages \in Nat
  BY DEF TypeOK
<1>2. shop[l] \in shown[l] /\ cached[l] \in shown[l] \cup {"none"}
  BY DEF Grounded
<1>3. \/ cached[l] # "none"
         /\ look = [avail |-> cached[l], by |-> "unopened", keep |-> cached[l], cost |-> 0]
      \/ pages # 0
         /\ look = [avail |-> shop[l], by |-> "opened", cost |-> 1,
                    keep |-> IF shop[l] = "REMOVED" THEN "none" ELSE shop[l]]
      \/ pages # 0
         /\ look = [avail |-> "UNKNOWN", by |-> "unopened", keep |-> "none", cost |-> 1]
      \/ look = [avail |-> "UNKNOWN", by |-> "unopened", keep |-> cached[l], cost |-> 0]
  BY Zenon DEF Looks, Refused
<1>4. CASE cached[l] # "none"
           /\ look = [avail |-> cached[l], by |-> "unopened", keep |-> cached[l], cost |-> 0]
  BY <1>4, <1>1, <1>2 DEF Availabilities, Provenances
<1>5. CASE pages # 0
           /\ look = [avail |-> shop[l], by |-> "opened", cost |-> 1,
                      keep |-> IF shop[l] = "REMOVED" THEN "none" ELSE shop[l]]
  BY <1>5, <1>1, <1>2 DEF Availabilities, Provenances
<1>6. CASE pages # 0
           /\ look = [avail |-> "UNKNOWN", by |-> "unopened", keep |-> "none", cost |-> 1]
  BY <1>6, <1>1, <1>2 DEF Availabilities, Provenances
<1>7. CASE look = [avail |-> "UNKNOWN", by |-> "unopened", keep |-> cached[l], cost |-> 0]
  BY <1>7, <1>1, <1>2 DEF Availabilities, Provenances
<1> QED
  BY <1>3, <1>4, <1>5, <1>6, <1>7

LEMMA RankedTyped ==
    /\ Ranked \in [Links -> Buckets \cup {"none"}]
    /\ \A buckets \in [Links -> Buckets \cup {"none"}] :
           Published(buckets) \in [Links -> Buckets \cup {"none", "replica"}]
<1>1. Ranked \in [Links -> Buckets \cup {"none"}]
  BY VerdictBuckets DEF Ranked
<1>2. ASSUME NEW buckets \in [Links -> Buckets \cup {"none"}]
      PROVE  Published(buckets) \in [Links -> Buckets \cup {"none", "replica"}]
  <2>1. ASSUME NEW l \in Links, buckets[l] # "none"
        PROVE  PublishedBucket(The(l), buckets[l]) \in Buckets \cup {"replica"}
    <3>1. buckets[l] \in Buckets
      BY <2>1
    <3> QED
      BY <3>1 DEF PublishedBucket, Buckets
  <2> QED
    BY <2>1 DEF Published
<1> QED
  BY <1>1, <1>2

-------------------------------------------------------------------------------
LEMMA TypeInit == Init => TypeOK
BY ListingsAssumption DEF Init, TypeOK, Availabilities, Stages, Provenances, Buckets

LEMMA TypeStep ==
    ASSUME TypeOK, Grounded, [Next]_vars
    PROVE  TypeOK'
<1>1. ASSUME NEW l \in Links, ShopChanges(l) PROVE TypeOK'
  BY <1>1 DEF TypeOK, ShopChanges, disk
<1>2. ASSUME NEW l \in Links, NEW look \in Looks(l), Look(l, look)
      PROVE  /\ cached' \in [Links -> {"none", "LIVE", "SOLD"}] /\ pages' \in Nat
  BY <1>2, LooksAre DEF TypeOK, Look
<1>3. ASSUME NEW l \in Links, DiscoverPage(l) PROVE TypeOK'
  <2>1. PICK look \in Looks(l), says \in BOOLEAN :
            /\ Look(l, look)
            /\ row' = [row EXCEPT ![l] = IF says THEN look.avail ELSE "UNKNOWN"]
            /\ checked' = [checked EXCEPT ![l] = look.by]
    BY <1>3, Zenon DEF DiscoverPage
  <2>2. row' \in [Links -> Availabilities \cup {"none"}]
    BY <2>1, LooksAre DEF TypeOK, Availabilities
  <2>3. checked' \in [Links -> Provenances]
    BY <2>1, LooksAre DEF TypeOK
  <2> QED
    BY <1>2, <1>3, <2>1, <2>2, <2>3 DEF TypeOK, DiscoverPage, world
<1>4. ASSUME NEW l \in Links, DiscoverFeed(l) PROVE TypeOK'
  <2>1. row' \in [Links -> Availabilities \cup {"none"}]
    BY <1>4 DEF TypeOK, DiscoverFeed, Availabilities
  <2> QED
    BY <1>4, <2>1 DEF TypeOK, DiscoverFeed, world, Provenances
<1>5. ASSUME NEW l \in Links, LiveCheck(l) \/ RefreshCheck(l) PROVE TypeOK'
  <2>1. PICK look \in Looks(l) :
            /\ Look(l, look)
            /\ row' = [row EXCEPT ![l] = look.avail]
            /\ checked' = [checked EXCEPT ![l] = look.by]
    BY <1>5, Zenon DEF LiveCheck, RefreshCheck
  <2>2. row' \in [Links -> Availabilities \cup {"none"}]
    BY <2>1, LooksAre DEF TypeOK
  <2>3. checked' \in [Links -> Provenances]
    BY <2>1, LooksAre DEF TypeOK
  <2> QED
    BY <1>2, <1>5, <2>1, <2>2, <2>3 DEF TypeOK, LiveCheck, RefreshCheck, world
<1>6. EndDiscover \/ Match \/ BeginLive \/ Gaps \/ BudgetStop \/ Crash => TypeOK'
  BY ListingsAssumption DEF TypeOK, EndDiscover, Match, BeginLive, Gaps, BudgetStop, Crash, world, disk, found, Stages
<1>7. EndLive \/ LiveFails => TypeOK'
  <2>1. ASSUME NEW seen, Verified(seen) PROVE TypeOK'
    BY <2>1 DEF TypeOK, Verified, world, Stages
  <2> QED
    BY <2>1 DEF EndLive, LiveFails
<1>8. Rank \/ Publish \/ Salvage => TypeOK'
  <2>1. Decided \in [Links -> Buckets \cup {"none"}]
    BY RankedTyped DEF Decided, TypeOK
  <2>2. ASSUME NEW buckets \in [Links -> Buckets \cup {"none"}]
        PROVE  ResultsOf(buckets) \in [Links -> Buckets \cup {"none", "replica"}]
    BY RankedTyped DEF ResultsOf, TypeOK
  <2>3. Rank \/ Publish \/ Salvage =>
            /\ decision' \in [Links -> Buckets \cup {"none"}]
            /\ result' \in [Links -> Buckets \cup {"none", "replica"}]
            /\ stage' \in Stages
    BY <2>1, <2>2 DEF Rank, Publish, Salvage, TypeOK, Stages
  <2> QED
    BY <2>3, RankingReads DEF TypeOK, world
<1>9. StartRefresh \/ RefreshStops => TypeOK'
  BY DEF TypeOK, StartRefresh, RefreshStops, world, disk
<1>10. UNCHANGED vars => TypeOK'
  BY DEF vars, world, disk, TypeOK
<1> QED
  BY <1>1, <1>3, <1>4, <1>5, <1>6, <1>7, <1>8, <1>9, <1>10 DEF Next

\* What verdicts rest on is never taken back.
LEMMA Standing ==
    ASSUME TypeOK, [Next]_vars
    PROVE  /\ offer' = offer
           /\ \A l \in Links : /\ shown[l] \subseteq shown'[l]
                               /\ dest[l] # "none" => dest'[l] # "none"
<1>1. offer' = offer
  BY DEF Next, ShopChanges, DiscoverPage, DiscoverFeed, LiveCheck, RefreshCheck, EndDiscover,
       Match, BeginLive, EndLive, LiveFails, Verified, Gaps, BudgetStop, Crash, StartRefresh,
       RefreshStops, Rank, Publish, Salvage, world, disk, vars
<1>2. \/ shown' = shown
      \/ \E k \in Links : ShopChanges(k)
  BY DEF Next, DiscoverPage, DiscoverFeed, LiveCheck, RefreshCheck, EndDiscover,
       Match, BeginLive, EndLive, LiveFails, Verified, Gaps, BudgetStop, Crash, StartRefresh,
       RefreshStops, Rank, Publish, Salvage, world, disk, vars
<1>3. ASSUME NEW k \in Links, ShopChanges(k) PROVE \A l \in Links : shown[l] \subseteq shown'[l]
  BY <1>3 DEF ShopChanges, TypeOK
<1>4. \/ dest' = dest
      \/ \E seen : Verified(seen)
  BY DEF Next, ShopChanges, DiscoverPage, DiscoverFeed, LiveCheck, RefreshCheck, EndDiscover,
       Match, BeginLive, EndLive, LiveFails, Gaps, BudgetStop, Crash, StartRefresh,
       RefreshStops, Rank, Publish, Salvage, world, disk, vars
<1>5. ASSUME NEW seen, Verified(seen) PROVE \A l \in Links : dest[l] # "none" => dest'[l] # "none"
  BY <1>5 DEF Verified
<1> QED
  BY <1>1, <1>2, <1>3, <1>4, <1>5

-------------------------------------------------------------------------------
(* The parts of the invariant, one by one. *)

\* The actions that write a row or the cache.
RowWriters == \E l \in Links : DiscoverPage(l) \/ DiscoverFeed(l) \/ LiveCheck(l) \/ RefreshCheck(l)

LEMMA RowsKept ==
    ASSUME [Next]_vars, ~RowWriters
    PROVE  row' = row /\ cached' = cached
BY DEF RowWriters, Next, ShopChanges, EndDiscover, Match, BeginLive, EndLive, LiveFails, Verified,
       Gaps, BudgetStop, Crash, StartRefresh, RefreshStops, Rank, Publish, Salvage, world, disk, vars

LEMMA RowWritten ==
    ASSUME TypeOK, Grounded, NEW k \in Links,
           DiscoverPage(k) \/ DiscoverFeed(k) \/ LiveCheck(k) \/ RefreshCheck(k)
    PROVE  /\ shop' = shop /\ shown' = shown
           /\ \A l \in Links \ {k} : row'[l] = row[l] /\ cached'[l] = cached[l]
           /\ row'[k] \in shown[k] \cup {"UNKNOWN"} /\ row'[k] # "none"
           /\ cached'[k] \in shown[k] \cup {"none"}
<1>1. shown[k] \subseteq {"LIVE", "SOLD", "REMOVED"}
  BY DEF TypeOK
<1>2. CASE DiscoverPage(k)
  <2>1. PICK look \in Looks(k), says \in BOOLEAN :
            /\ Look(k, look)
            /\ row' = [row EXCEPT ![k] = IF says THEN look.avail ELSE "UNKNOWN"]
    BY <1>2, Zenon DEF DiscoverPage
  <2>2. look.avail \in shown[k] \cup {"UNKNOWN"} /\ look.keep \in shown[k] \cup {"none"}
    BY LooksAre
  <2> QED
    BY <1>1, <1>2, <2>1, <2>2 DEF DiscoverPage, Look, TypeOK, world
<1>3. CASE DiscoverFeed(k)
  BY <1>1, <1>3 DEF DiscoverFeed, Grounded, TypeOK, world
<1>4. CASE LiveCheck(k) \/ RefreshCheck(k)
  <2>1. PICK look \in Looks(k) : Look(k, look) /\ row' = [row EXCEPT ![k] = look.avail]
    BY <1>4, Zenon DEF LiveCheck, RefreshCheck
  <2>2. look.avail \in shown[k] \cup {"UNKNOWN"} /\ look.keep \in shown[k] \cup {"none"}
    BY LooksAre
  <2> QED
    BY <1>1, <1>4, <2>1, <2>2 DEF LiveCheck, RefreshCheck, Look, TypeOK, world
<1> QED
  BY <1>2, <1>3, <1>4

LEMMA GroundedStep ==
    ASSUME TypeOK, Grounded, [Next]_vars
    PROVE  Grounded'
<1>1. CASE RowWriters
  <2>1. PICK k \in Links : DiscoverPage(k) \/ DiscoverFeed(k) \/ LiveCheck(k) \/ RefreshCheck(k)
    BY <1>1 DEF RowWriters
  <2> QED
    BY <2>1, RowWritten DEF Grounded
<1>2. CASE ~RowWriters
  <2>1. row' = row /\ cached' = cached
    BY <1>2, RowsKept
  <2>2. \/ shop' = shop
        \/ \E k \in Links : ShopChanges(k)
    BY DEF Next, DiscoverPage, DiscoverFeed, LiveCheck, RefreshCheck, EndDiscover, Match,
           BeginLive, EndLive, LiveFails, Verified, Gaps, BudgetStop, Crash, StartRefresh,
           RefreshStops, Rank, Publish, Salvage, world, disk, vars
  <2>3. \A l \in Links : shop'[l] \in shown'[l]
    <3>1. CASE shop' = shop
      BY <3>1, Standing DEF Grounded
    <3>2. ASSUME NEW k \in Links, ShopChanges(k) PROVE \A l \in Links : shop'[l] \in shown'[l]
      BY <3>2 DEF ShopChanges, Grounded, TypeOK
    <3> QED
      BY <2>2, <3>1, <3>2
  <2> QED
    BY <2>1, <2>3, Standing DEF Grounded
<1> QED
  BY <1>1, <1>2

\* A listing once found stays found.
LEMMA StaysFound ==
    ASSUME TypeOK, Grounded, [Next]_vars
    PROVE  \A l \in Links : row[l] # "none" => row'[l] # "none"
<1>1. CASE RowWriters
  BY <1>1, RowWritten DEF RowWriters
<1>2. CASE ~RowWriters
  BY <1>2, RowsKept
<1> QED
  BY <1>1, <1>2

LEMMA ScoredStep ==
    ASSUME TypeOK, Grounded, ScoredIsFound, [Next]_vars
    PROVE  ScoredIsFound'
<1>1. scored' = scored \/ Match
  BY DEF Next, ShopChanges, DiscoverPage, DiscoverFeed, LiveCheck, RefreshCheck, EndDiscover,
         BeginLive, EndLive, LiveFails, Verified, Gaps, BudgetStop, Crash, StartRefresh,
         RefreshStops, Rank, Publish, Salvage, world, disk, vars
<1>2. CASE scored' = scored
  <2>1. scored \subseteq Links
    BY DEF TypeOK
  <2> QED
    BY <1>2, <2>1, StaysFound DEF ScoredIsFound
<1>3. CASE Match
  BY <1>3 DEF Match, found, ScoredIsFound
<1> QED
  BY <1>1, <1>2, <1>3

LEMMA NothingYetStep ==
    ASSUME TypeOK, NothingYet, [Next]_vars
    PROVE  NothingYet'
<1>1. asked' = 0 => refresh' = {}
  <2>1. asked \in Nat
    BY DEF TypeOK
  <2> QED
    BY <2>1 DEF NothingYet, Next, ShopChanges, DiscoverPage, DiscoverFeed, LiveCheck, RefreshCheck,
         EndDiscover, Match, BeginLive, EndLive, LiveFails, Verified, Gaps, BudgetStop, Crash,
         StartRefresh, RefreshStops, Rank, Publish, Salvage, world, disk, vars
<1> DEFINE Early == {"discover", "match", "live", "checking", "rank"}
<1>2. round' = 1 /\ stage' \in Early =>
          /\ round = 1 /\ stage \in Early
          /\ decision' = decision /\ result' = result
  <2>1. round \in Nat \ {0}
    BY ListingsAssumption DEF TypeOK
  <2>2. CASE \E l \in Links : \/ ShopChanges(l) \/ DiscoverPage(l) \/ DiscoverFeed(l)
                              \/ LiveCheck(l) \/ RefreshCheck(l)
    BY <2>2 DEF ShopChanges, DiscoverPage, DiscoverFeed, LiveCheck, RefreshCheck, disk
  <2>3. CASE EndDiscover \/ Match \/ BeginLive \/ EndLive \/ LiveFails
    BY <2>3 DEF EndDiscover, Match, BeginLive, EndLive, LiveFails, Verified, disk
  <2>4. CASE Gaps \/ BudgetStop \/ Crash \/ StartRefresh \/ RefreshStops
    BY <2>1, <2>4 DEF Gaps, BudgetStop, Crash, StartRefresh, RefreshStops, disk
  <2>5. CASE Rank \/ Publish \/ Salvage
    BY <2>5 DEF Rank, Publish, Salvage
  <2>6. CASE UNCHANGED vars
    BY <2>6 DEF vars, disk
  <2> QED
    BY <2>2, <2>3, <2>4, <2>5, <2>6 DEF Next
<1> QED
  BY <1>1, <1>2 DEF NothingYet, NothingStored

-------------------------------------------------------------------------------
(* Decisions. *)

\* A decision is the first ranking's, made of the rows of that moment.
LEMMA DecisionsStep ==
    ASSUME [Next]_vars
    PROVE  \/ decision' = decision
           \/ /\ decision' = Ranked /\ NothingStored(decision)
              /\ Rank \/ Salvage
<1>1. Quiet => decision' = decision
  BY QuietKeeps
<1>2. Publish \/ UNCHANGED vars => decision' = decision
  BY DEF Publish, vars, disk
<1>3. Rank \/ Salvage => decision' = decision \/ (decision' = Ranked /\ NothingStored(decision))
  BY DEF Rank, Salvage, Decided
<1> QED
  BY <1>1, <1>2, <1>3, NextIs

LEMMA DecidedRightStep ==
    ASSUME TypeOK, Grounded, DecidedRight, [Next]_vars
    PROVE  DecidedRight'
<1>1. ASSUME NEW l \in Links, decision'[l] = "real"
      PROVE  Passed(l) /\ dest[l] # "none"
  <2>1. CASE decision' = decision
    BY <1>1, <2>1 DEF DecidedRight
  <2>2. CASE decision' = Ranked
    BY <1>1, <2>2, RankedReal
  <2> QED
    BY <2>1, <2>2, DecisionsStep
<1>2. ASSUME NEW l \in Links, Passed(l), dest[l] # "none"
      PROVE  Passed(l)' /\ dest'[l] # "none"
  BY <1>2, Standing DEF Passed, The
<1> QED
  BY <1>1, <1>2 DEF DecidedRight

LEMMA DecidedTogetherStep ==
    ASSUME TypeOK, ScoredIsFound, DecidedTogether, [Next]_vars
    PROVE  DecidedTogether'
<1>1. \A l, m \in Links : SamePhotoOtherSeller(l, m)' <=> SamePhotoOtherSeller(l, m)
  BY Standing DEF SamePhotoOtherSeller, The
<1>2. CASE decision' = decision
  BY <1>1, <1>2 DEF DecidedTogether
<1>3. CASE decision' = Ranked
  BY <1>1, <1>3, RankedTogether DEF DecidedTogether
<1> QED
  BY <1>2, <1>3, DecisionsStep

\* In the first round, and before any refresh, rows are written only where nothing is
\* decided yet.
LEMMA RowsBeforeDecisions ==
    ASSUME TypeOK, NothingYet, [Next]_vars, round' = 1, asked' = 0
    PROVE  /\ round = 1 /\ asked = 0
           /\ row' = row \/ (NothingStored(decision) /\ NothingStored(result) /\ Quiet)
<1>1. round \in Nat \ {0} /\ asked \in Nat
  BY ListingsAssumption DEF TypeOK
<1>2. round = 1 /\ asked = 0
  BY <1>1 DEF Next, ShopChanges, DiscoverPage, DiscoverFeed, LiveCheck, RefreshCheck, EndDiscover,
         Match, BeginLive, EndLive, LiveFails, Verified, Gaps, BudgetStop, Crash, StartRefresh,
         RefreshStops, Rank, Publish, Salvage, world, disk, vars
<1>3. CASE RowWriters
  <2>1. PICK k \in Links : DiscoverPage(k) \/ DiscoverFeed(k) \/ LiveCheck(k) \/ RefreshCheck(k)
    BY <1>3 DEF RowWriters
  <2>2. ~RefreshCheck(k)
    BY <1>2 DEF RefreshCheck, NothingYet
  <2>3. stage \in {"discover", "checking"}
    BY <2>1, <2>2 DEF DiscoverPage, DiscoverFeed, LiveCheck
  <2> QED
    BY <1>2, <2>1, <2>3 DEF NothingYet, Quiet
<1>4. CASE ~RowWriters
  BY <1>2, <1>4, RowsKept
<1> QED
  BY <1>3, <1>4

LEMMA DecidedNotDeadStep ==
    ASSUME TypeOK, NothingYet, DecidedNotDead, [Next]_vars
    PROVE  DecidedNotDead'
<1> SUFFICES ASSUME round' = 1, asked' = 0, NEW l \in Links, decision'[l] \in PublicTabs
             PROVE  row'[l] \in {"LIVE", "UNKNOWN"}
  BY DEF DecidedNotDead
<1>1. /\ round = 1 /\ asked = 0
      /\ row' = row \/ (NothingStored(decision) /\ Quiet)
  BY RowsBeforeDecisions
<1>2. CASE decision' = decision
  <2>1. ~NothingStored(decision)
    BY <1>2 DEF NothingStored, PublicTabs
  <2> QED
    BY <1>1, <1>2, <2>1 DEF DecidedNotDead
<1>3. CASE decision' = Ranked /\ (Rank \/ Salvage)
  <2>1. row' = row
    BY <1>3, RankingReads DEF disk
  <2> QED
    BY <1>3, <2>1, RankedNotDead
<1> QED
  BY <1>2, <1>3, DecisionsStep

-------------------------------------------------------------------------------
(* Results. *)

\* A result is the first publication's, made of the decisions as they then are.
LEMMA ResultsStep ==
    ASSUME [Next]_vars
    PROVE  \/ result' = result
           \/ result' = Published(decision') /\ row' = row /\ UNCHANGED world
<1>1. Quiet \/ Rank \/ UNCHANGED vars => result' = result
  BY QuietKeeps DEF Rank, vars, disk
<1>2. Publish \/ Salvage =>
          \/ result' = result
          \/ result' = Published(decision') /\ row' = row /\ UNCHANGED world
  BY DEF Publish, Salvage, ResultsOf
<1> QED
  BY <1>1, <1>2, NextIs

\* Where a listing is published, it was decided there and is no replica.
LEMMA PublishedFrom ==
    ASSUME TypeOK', NEW l \in Links, result' = Published(decision'), UNCHANGED world,
           result'[l] # "none"
    PROVE  /\ decision'[l] \in Buckets
           /\ result'[l] = "replica" <=> IsReplica(The(l))'
           /\ result'[l] \in PublicTabs => result'[l] = decision'[l] /\ LinkUsable(The(l))'
<1>1. The(l)' = The(l)
  BY DEF The, world
<1>2. decision'[l] # "none" /\ result'[l] = PublishedBucket(The(l), decision'[l])
  BY PublishedIs
<1>3. decision'[l] \in Buckets
  BY <1>2 DEF TypeOK
<1>4. IsReplica(The(l))' <=> IsReplica(The(l))
  BY <1>1 DEF IsReplica
<1>5. LinkUsable(The(l))' <=> LinkUsable(The(l))
  BY <1>1 DEF LinkUsable
<1> HIDE DEF PublicTabs
<1> QED
  BY <1>2, <1>3, <1>4, <1>5, ReplicaNeverReal DEF PublicTabs

LEMMA PublishedRightStep ==
    ASSUME TypeOK, TypeOK', PublishedRight, RealAfterLiveStage, DecidedRight', [Next]_vars
    PROVE  PublishedRight' /\ RealAfterLiveStage'
<1>1. CASE result' = result
  <2>1. ASSUME NEW l \in Links, Passed(l) /\ LinkUsable(The(l)), dest[l] # "none"
        PROVE  (Passed(l) /\ LinkUsable(The(l)))' /\ dest'[l] # "none"
    BY <2>1, Standing DEF Passed, The, LinkUsable
  <2> QED
    BY <1>1, <2>1 DEF PublishedRight, RealAfterLiveStage
<1>2. CASE result' = Published(decision') /\ UNCHANGED world
  <2>1. ASSUME NEW l \in Links, result'[l] = "real"
        PROVE  decision'[l] = "real" /\ LinkUsable(The(l))'
    BY <1>2, <2>1, PublishedFrom DEF PublicTabs
  <2> QED
    BY <2>1 DEF PublishedRight, RealAfterLiveStage, DecidedRight
<1> QED
  BY <1>1, <1>2, ResultsStep

LEMMA ReplicaApartStep ==
    ASSUME TypeOK, TypeOK', ReplicaApart, [Next]_vars
    PROVE  ReplicaApart'
<1>1. CASE result' = result
  <2>1. \A l \in Links : The(l)' = The(l)
    BY Standing DEF The
  <2> QED
    BY <1>1, <2>1 DEF ReplicaApart, IsReplica
<1>2. CASE result' = Published(decision') /\ UNCHANGED world
  BY <1>2, PublishedFrom DEF ReplicaApart
<1> QED
  BY <1>1, <1>2, ResultsStep

LEMMA StolenPhotoBarredStep ==
    ASSUME TypeOK, TypeOK', StolenPhotoBarred, DecidedTogether', [Next]_vars
    PROVE  StolenPhotoBarred'
<1>1. \A l, m \in Links : SamePhotoOtherSeller(l, m)' <=> SamePhotoOtherSeller(l, m)
  BY Standing DEF SamePhotoOtherSeller, The
<1>2. CASE result' = result
  BY <1>1, <1>2 DEF StolenPhotoBarred
<1>3. CASE result' = Published(decision') /\ UNCHANGED world
  <2> SUFFICES ASSUME NEW l \in Links, NEW m \in Links, result'[l] # "none",
                      result'[m] # "none", SamePhotoOtherSeller(l, m)'
               PROVE  result'[l] \in {"hidden", "replica"}
    BY DEF StolenPhotoBarred
  <2>1. decision'[l] \in Buckets /\ decision'[m] \in Buckets
    BY <1>3, PublishedFrom
  <2>2. decision'[l] = "hidden"
    BY <2>1 DEF DecidedTogether, Buckets
  <2>3. result'[l] \notin PublicTabs
    BY <1>3, <2>2, PublishedFrom DEF PublicTabs
  <2>4. result'[l] \in Buckets \cup {"replica"}
    BY DEF TypeOK
  <2> QED
    BY <2>3, <2>4 DEF PublicTabs, Buckets
<1> QED
  BY <1>2, <1>3, ResultsStep

LEMMA ShownNotKnownDeadStep ==
    ASSUME TypeOK, TypeOK', NothingYet, ShownNotKnownDead, DecidedNotDead', [Next]_vars
    PROVE  ShownNotKnownDead'
<1> SUFFICES ASSUME round' = 1, asked' = 0, NEW l \in Links, result'[l] \in PublicTabs
             PROVE  row'[l] \in {"LIVE", "UNKNOWN"}
  BY DEF ShownNotKnownDead, PublicTabs
<1>1. /\ round = 1 /\ asked = 0
      /\ row' = row \/ NothingStored(result)
  BY RowsBeforeDecisions
<1>2. CASE result' = result
  <2>1. ~NothingStored(result)
    BY <1>2 DEF NothingStored, PublicTabs
  <2> QED
    BY <1>1, <1>2, <2>1 DEF ShownNotKnownDead, PublicTabs
<1>3. CASE result' = Published(decision') /\ UNCHANGED world
  <2>1. decision'[l] \in PublicTabs
    BY <1>3, PublishedFrom DEF PublicTabs
  <2> QED
    BY <2>1 DEF DecidedNotDead
<1> QED
  BY <1>2, <1>3, ResultsStep

-------------------------------------------------------------------------------
THEOREM InvariantInit == Init => IInv
<1> SUFFICES ASSUME Init PROVE IInv
  OBVIOUS
<1>1. TypeOK
  BY TypeInit
<1>2. Grounded
  <2>1. \A l \in Links : shop[l] # "none"
    BY DEF Init
  <2> QED
    BY <2>1 DEF Init, Grounded
<1>3. ScoredIsFound /\ DecidedRight /\ DecidedTogether /\ DecidedNotDead
  BY DEF Init, ScoredIsFound, DecidedRight, DecidedTogether, DecidedNotDead, PublicTabs
<1>4. NothingYet
  BY DEF Init, NothingYet, NothingStored
<1>5. PublishedRight /\ RealAfterLiveStage /\ ReplicaApart /\ StolenPhotoBarred /\ ShownNotKnownDead
  BY DEF Init, PublishedRight, RealAfterLiveStage, ReplicaApart, StolenPhotoBarred, ShownNotKnownDead
<1> QED
  BY <1>1, <1>2, <1>3, <1>4, <1>5 DEF IInv

THEOREM InvariantStep == IInv /\ [Next]_vars => IInv'
<1> SUFFICES ASSUME IInv, [Next]_vars PROVE IInv'
  OBVIOUS
<1>1. TypeOK' /\ Grounded'
  BY TypeStep, GroundedStep DEF IInv
<1>2. ScoredIsFound' /\ NothingYet'
  BY ScoredStep, NothingYetStep DEF IInv
<1>3. DecidedRight' /\ DecidedTogether' /\ DecidedNotDead'
  BY DecidedRightStep, DecidedTogetherStep, DecidedNotDeadStep DEF IInv
<1>4. PublishedRight' /\ RealAfterLiveStage'
  BY <1>1, <1>3, PublishedRightStep DEF IInv
<1>5. ReplicaApart' /\ StolenPhotoBarred' /\ ShownNotKnownDead'
  BY <1>1, <1>3, ReplicaApartStep, StolenPhotoBarredStep, ShownNotKnownDeadStep DEF IInv
<1> QED
  BY <1>1, <1>2, <1>3, <1>4, <1>5 DEF IInv

THEOREM Invariance == Spec => []IInv
<1> QED
  BY InvariantInit, InvariantStep, PTL DEF Spec

\* Every variable keeps its type.
THEOREM ListingsTypeCorrect == Spec => []TypeOK
<1>1. IInv => TypeOK
  BY DEF IInv
<1> QED
  BY <1>1, Invariance, PTL

\* Real is earned by the listing it is said of (core/policy.py, ranking/buckets.py).
THEOREM RealEarned == Spec => []RealIsEarned
<1>1. ASSUME IInv PROVE RealIsEarned
  <2> SUFFICES ASSUME NEW l \in Links, result[l] = "real"
               PROVE  /\ offer[l] \in Deserving
                      /\ dest[l] # "none" /\ "LIVE" \in shown[l]
                      /\ \A m \in Links : result[m] # "none" => ~SamePhotoOtherSeller(l, m)
    BY DEF RealIsEarned
  <2>1. offer[l] \in Offers /\ Passed(l) /\ LinkUsable(The(l)) /\ dest[l] # "none"
    BY <1>1 DEF IInv, TypeOK, PublishedRight, RealAfterLiveStage
  <2>2. ~IsReplica(The(l))
    BY <1>1 DEF IInv, ReplicaApart
  <2>3. \A m \in Links : result[m] # "none" => ~SamePhotoOtherSeller(l, m)
    BY <1>1 DEF IInv, StolenPhotoBarred
  <2>4. Earned(Says[offer[l]])
    BY <2>1, <2>2, PassedIsEarned
  <2> QED
    BY <2>1, <2>3, <2>4 DEF Deserving, Passed
<1> QED
  BY <1>1, Invariance, PTL

\* No listing is real that no live stage has seen.
THEOREM NoRealUnseen == Spec => []RealAfterLiveStage
<1>1. IInv => RealAfterLiveStage
  BY DEF IInv
<1> QED
  BY <1>1, Invariance, PTL

\* What a row says of a listing its page has shown.
THEOREM RowsAreGrounded == Spec => []RowWasShown
<1>1. IInv => RowWasShown
  BY DEF IInv, Grounded, RowWasShown
<1> QED
  BY <1>1, Invariance, PTL

\* Until a refresh or a second round no public tab shows what its row says is gone.
THEOREM NoneKnownDead == Spec => []ShownNotKnownDead
<1>1. IInv => ShownNotKnownDead
  BY DEF IInv
<1> QED
  BY <1>1, Invariance, PTL

\* Replicas and genuine items are never in one tab.
THEOREM ReplicasApart == Spec => []ReplicaApart
<1>1. IInv => ReplicaApart
  BY DEF IInv
<1> QED
  BY <1>1, Invariance, PTL

\* The same photograph under two sellers makes neither listing genuine.
THEOREM StolenPhotosBarred == Spec => []StolenPhotoBarred
<1>1. IInv => StolenPhotoBarred
  BY DEF IInv
<1> QED
  BY <1>1, Invariance, PTL

-------------------------------------------------------------------------------
(* Display: what a reader is shown of all this, page after page.           *)

\* Induction over the numbers is by a least counterexample.
LEMMA LeastNat ==
    ASSUME NEW T, T \subseteq Nat, T # {}
    PROVE  \E x \in T : \A y \in T : x <= y
<1> DEFINE R == {p \in Nat \X Nat : p[1] < p[2]}
<1>1. IsWellFoundedOn(R, Nat)
  BY NatLessThanWellFounded DEF OpToRel
<1>2. \A y, x \in Nat : y < x => <<y, x>> \in R
  OBVIOUS
<1> HIDE DEF R
<1>3. PICK x \in T : \A y \in T : ~ (<<y, x>> \in R)
  BY <1>1, WFMin
<1>4. ASSUME NEW y \in T PROVE x <= y
  <2>1. x \in Nat /\ y \in Nat
    OBVIOUS
  <2>2. ~ (y < x)
    BY <1>2, <1>3, <2>1
  <2> QED
    BY <2>1, <2>2
<1> QED
  BY <1>3, <1>4

Increasing(f, S) ==
    f \in [1..Cardinality(S) -> S] /\ \A j, k \in DOMAIN f : j < k => f[j] < f[k]
Orderable(n) == \A S \in SUBSET (1..n) : \E f : Increasing(f, S)

\* Numbers can be put in order, one after the other.
LEMMA OrderExists == \A n \in Nat : Orderable(n)
<1> SUFFICES ASSUME NEW T, T = {n \in Nat : ~Orderable(n)}, T # {} PROVE FALSE
  OBVIOUS
<1>1. PICK n \in T : \A m \in T : n <= m
  BY LeastNat
<1>2. PICK S \in SUBSET (1..n) : \A f : ~Increasing(f, S)
  BY DEF Orderable
<1>3. IsFiniteSet(1..n) /\ n \in Nat
  BY FS_Interval
<1>4. IsFiniteSet(S)
  BY <1>3, FS_Subset
<1>5. S # {}
  <2> SUFFICES ASSUME S = {} PROVE FALSE
    OBVIOUS
  <2>1. Cardinality(S) = 0
    BY FS_EmptySet
  <2>2. Increasing([k \in 1..0 |-> 0], S)
    BY <2>1 DEF Increasing
  <2> QED
    BY <1>2, <2>2
<1>6. n # 0
  <2>1. 1..0 = {}
    OBVIOUS
  <2> QED
    BY <1>5, <2>1
<1>7. n - 1 \in Nat /\ Orderable(n - 1)
  <2>1. n - 1 \in Nat /\ n - 1 \notin T
    BY <1>1, <1>3, <1>6
  <2> QED
    BY <2>1
<1>8. CASE n \notin S
  <2>1. S \in SUBSET (1..(n - 1))
    BY <1>3, <1>8
  <2> QED
    BY <1>2, <1>7, <2>1 DEF Orderable
<1>9. CASE n \in S
  <2>1. S \ {n} \in SUBSET (1..(n - 1))
    BY <1>3
  <2>2. PICK f : Increasing(f, S \ {n})
    BY <1>7, <2>1 DEF Orderable
  <2>3. Cardinality(S) \in Nat /\ Cardinality(S \ {n}) = Cardinality(S) - 1
        /\ Cardinality(S \ {n}) \in Nat
    BY <1>4, <1>9, FS_RemoveElement, FS_CardinalityType
  <2> DEFINE c == Cardinality(S)
             g == [k \in 1..c |-> IF k = c THEN n ELSE f[k]]
  <2>4. f \in [1..(c - 1) -> S \ {n}] /\ \A j, k \in 1..(c - 1) : j < k => f[j] < f[k]
    BY <2>2, <2>3 DEF Increasing
  <2>5. \A k \in 1..(c - 1) : f[k] \in S /\ f[k] \in 1..(n - 1)
    BY <2>1, <2>4
  <2>6. \A k \in 1..c : k = c \/ k \in 1..(c - 1)
    BY <2>3
  <2>7. g \in [1..c -> S]
    BY <1>9, <2>5, <2>6
  <2>8. \A j, k \in 1..c : j < k => g[j] < g[k]
    <3> SUFFICES ASSUME NEW j \in 1..c, NEW k \in 1..c, j < k PROVE g[j] < g[k]
      OBVIOUS
    <3>1. j \in 1..(c - 1)
      BY <2>3
    <3>2. CASE k = c
      BY <1>3, <2>3, <2>5, <3>1, <3>2
    <3>3. CASE k # c
      <4>1. k \in 1..(c - 1)
        BY <2>6, <3>3
      <4> QED
        BY <2>3, <2>4, <3>1, <3>3, <4>1
    <3> QED
      BY <3>2, <3>3
  <2>9. Increasing(g, S)
    BY <2>7, <2>8 DEF Increasing
  <2> QED
    BY <1>2, <2>9
<1> QED
  BY <1>8, <1>9

\* InOrder gives each number of a set once, the smaller first.
LEMMA InOrderIs ==
    ASSUME NEW n \in Nat, NEW S \in SUBSET (1..n)
    PROVE  /\ IsFiniteSet(S) /\ Cardinality(S) \in Nat
           /\ InOrder(S) \in Seq(S) /\ Len(InOrder(S)) = Cardinality(S)
           /\ \A j, k \in 1..Cardinality(S) : j < k => InOrder(S)[j] < InOrder(S)[k]
           /\ \A j, k \in 1..Cardinality(S) : InOrder(S)[j] = InOrder(S)[k] => j = k
           /\ \A x \in S : \E k \in 1..Cardinality(S) : InOrder(S)[k] = x
<1> DEFINE c == Cardinality(S)
<1>1. IsFiniteSet(S) /\ c \in Nat
  <2>1. IsFiniteSet(1..n)
    BY FS_Interval
  <2> QED
    BY <2>1, FS_Subset, FS_CardinalityType
<1>2. \E f \in [1..c -> S] : \A j, k \in DOMAIN f : j < k => f[j] < f[k]
  BY OrderExists DEF Orderable, Increasing
<1>3. /\ InOrder(S) \in [1..c -> S]
      /\ \A j, k \in DOMAIN InOrder(S) : j < k => InOrder(S)[j] < InOrder(S)[k]
  BY <1>2 DEF InOrder
<1> DEFINE g == InOrder(S)
<1> HIDE DEF g
<1>4. g \in [1..c -> S] /\ \A j, k \in 1..c : j < k => g[j] < g[k]
  BY <1>3 DEF g
<1>5. \A k \in 1..c : g[k] \in Nat
  <2>1. S \subseteq Nat
    OBVIOUS
  <2> QED
    BY <1>4, <2>1
<1>6. ASSUME NEW j \in 1..c, NEW k \in 1..c, g[j] = g[k] PROVE j = k
  <2>1. ~(j < k) /\ ~(k < j)
    BY <1>4, <1>5, <1>6
  <2> QED
    BY <1>1, <2>1
<1>7. g \in Injection(1..c, S)
  BY <1>4, <1>6 DEF Injection, IsInjective
<1>8. Cardinality(1..c) = c
  <2>1. Cardinality(1..c) = IF 1 > c THEN 0 ELSE c - 1 + 1
    BY <1>1, FS_Interval
  <2> QED
    BY <1>1, <2>1
<1>9. g \in Surjection(1..c, S)
  BY <1>1, <1>7, <1>8, FS_Injection
<1>10. \A x \in S : \E k \in 1..c : g[k] = x
  BY <1>9 DEF Surjection
<1>11. g \in Seq(S) /\ Len(g) = c
  BY <1>1, <1>4
<1> QED
  BY <1>1, <1>4, <1>6, <1>10, <1>11 DEF g

-------------------------------------------------------------------------------
(* The sequences that only grow. *)

IsSequence(s) == \E S : s \in Seq(S)

LEMMA Appended ==
    ASSUME NEW s, IsSequence(s), NEW e
    PROVE  /\ IsSequence(Append(s, e)) /\ Len(s) \in Nat /\ Len(Append(s, e)) = Len(s) + 1
           /\ DOMAIN s = 1..Len(s) /\ DOMAIN Append(s, e) = 1..(Len(s) + 1)
           /\ \A k \in 1..Len(s) : Append(s, e)[k] = s[k]
           /\ Append(s, e)[Len(s) + 1] = e
<1>1. PICK S : s \in Seq(S)
  BY DEF IsSequence
<1> DEFINE T == S \cup {e}
<1>2. s \in Seq(T) /\ e \in T
  <2>1. s \in [1..Len(s) -> S] /\ Len(s) \in Nat
    BY <1>1
  <2>2. s \in [1..Len(s) -> T]
    BY <2>1
  <2> QED
    BY <2>1, <2>2
<1> HIDE DEF T
<1>3. Append(s, e) \in Seq(T)
  BY <1>2
<1> QED
  BY <1>2, <1>3 DEF IsSequence

\* Rows joined to rows.
LEMMA Joined ==
    ASSUME NEW S, NEW s \in Seq(S), NEW t \in Seq(S)
    PROVE  /\ s \o t \in Seq(S) /\ Len(s) \in Nat /\ Len(t) \in Nat
           /\ Len(s \o t) = Len(s) + Len(t)
           /\ DOMAIN s = 1..Len(s) /\ DOMAIN t = 1..Len(t)
           /\ DOMAIN (s \o t) = 1..(Len(s) + Len(t))
           /\ \A k \in 1..Len(s) : (s \o t)[k] = s[k]
           /\ \A k \in 1..Len(t) : (s \o t)[Len(s) + k] = t[k]
           /\ \A k \in 1..(Len(s) + Len(t)) : k \in 1..Len(s) \/ k - Len(s) \in 1..Len(t)
  OBVIOUS

LEMMA EmptySequence == IsSequence(<<>>) /\ Len(<<>>) = 0 /\ DOMAIN <<>> = {}
<1>1. <<>> \in Seq({})
  OBVIOUS
<1> QED
  BY <1>1 DEF IsSequence

-------------------------------------------------------------------------------
(* The score a view takes: row for row, with what it had at the row before. *)

Taking(n, kinds, k, before) ==
    IF k \in RowsFor(n, kinds)
       /\ \/ before = 0 \/ scores[k].finer
          \/ scores[k].lower >= scores[before].lower
    THEN k ELSE before

WalkOver(n, kinds, g, m) == g = [k \in 0..m |-> IF k = 0 THEN 0 ELSE Taking(n, kinds, k, g[k - 1])]
Walkable(n, kinds, m) == \E g : WalkOver(n, kinds, g, m)

LEMMA WalkExists == ASSUME NEW n, NEW kinds PROVE \A m \in Nat : Walkable(n, kinds, m)
<1> SUFFICES ASSUME NEW T, T = {m \in Nat : ~Walkable(n, kinds, m)}, T # {} PROVE FALSE
  OBVIOUS
<1>1. PICK m \in T : \A x \in T : m <= x
  BY LeastNat
<1>2. m # 0
  <2> SUFFICES ASSUME m = 0 PROVE FALSE
    OBVIOUS
  <2> DEFINE g == [k \in 0..0 |-> 0]
  <2>1. g = [k \in 0..0 |-> IF k = 0 THEN 0 ELSE Taking(n, kinds, k, g[k - 1])]
    OBVIOUS
  <2>2. Walkable(n, kinds, 0)
    BY <2>1 DEF Walkable, WalkOver
  <2> QED
    BY <2>2
<1>3. m - 1 \in Nat /\ m \in Nat /\ Walkable(n, kinds, m - 1)
  <2>1. m - 1 \in Nat /\ m - 1 \notin T
    BY <1>1, <1>2
  <2> QED
    BY <2>1
<1>4. PICK g : WalkOver(n, kinds, g, m - 1)
  BY <1>3 DEF Walkable
<1> DEFINE h == [k \in 0..m |-> IF k = m THEN Taking(n, kinds, m, g[m - 1]) ELSE g[k]]
<1>5. \A k \in 0..m : h[k] = IF k = 0 THEN 0 ELSE Taking(n, kinds, k, h[k - 1])
  <2> SUFFICES ASSUME NEW k \in 0..m
               PROVE  h[k] = IF k = 0 THEN 0 ELSE Taking(n, kinds, k, h[k - 1])
    OBVIOUS
  <2>1. CASE k = m
    <3>1. m - 1 \in 0..m /\ m - 1 # m
      BY <1>3
    <3> QED
      BY <1>2, <2>1, <3>1
  <2>2. CASE k # m
    <3>1. k \in 0..(m - 1) /\ h[k] = g[k]
      BY <1>3, <2>2
    <3>2. g[k] = IF k = 0 THEN 0 ELSE Taking(n, kinds, k, g[k - 1])
      BY <1>4, <3>1 DEF WalkOver
    <3>3. k # 0 => k - 1 \in 0..m /\ k - 1 # m
      BY <3>1, <1>3
    <3> QED
      BY <3>1, <3>2, <3>3
  <2> QED
    BY <2>1, <2>2
<1>6. WalkOver(n, kinds, h, m)
  BY <1>5 DEF WalkOver
<1> QED
  BY <1>1, <1>6 DEF Walkable

LEMMA ChosenIs ==
    ASSUME NEW n, NEW kinds, Len(scores) \in Nat
    PROVE  \E g : WalkOver(n, kinds, g, Len(scores)) /\ Chosen(n, kinds) = {g[Len(scores)]} \ {0}
<1> DEFINE at == CHOOSE g : g = [k \in 0..Len(scores) |->
                     IF k = 0 THEN 0
                     ELSE IF k \in RowsFor(n, kinds)
                             /\ \/ g[k - 1] = 0 \/ scores[k].finer
                                \/ scores[k].lower >= scores[g[k - 1]].lower
                          THEN k ELSE g[k - 1]]
<1>1. Chosen(n, kinds) = {at[Len(scores)]} \ {0}
  BY DEF Chosen
<1>2. Walkable(n, kinds, Len(scores))
  BY WalkExists
<1>3. \E g : g = [k \in 0..Len(scores) |->
                     IF k = 0 THEN 0
                     ELSE IF k \in RowsFor(n, kinds)
                             /\ \/ g[k - 1] = 0 \/ scores[k].finer
                                \/ scores[k].lower >= scores[g[k - 1]].lower
                          THEN k ELSE g[k - 1]]
  BY <1>2 DEF Walkable, WalkOver, Taking
<1>4. WalkOver(n, kinds, at, Len(scores))
  BY <1>3 DEF WalkOver, Taking
<1> QED
  BY <1>1, <1>4

\* A view takes a row of those there are.
LEMMA ChosenIsARow ==
    ASSUME NEW n, NEW kinds, IsSequence(scores), RowsFor(n, kinds) # {}
    PROVE  \E k \in RowsFor(n, kinds) : Chosen(n, kinds) = {k}
<1>1. Len(scores) \in Nat /\ DOMAIN scores = 1..Len(scores)
  BY Appended
<1>2. PICK g : WalkOver(n, kinds, g, Len(scores)) /\ Chosen(n, kinds) = {g[Len(scores)]} \ {0}
  BY <1>1, ChosenIs
<1>3. \A k \in 0..Len(scores) : g[k] = IF k = 0 THEN 0 ELSE Taking(n, kinds, k, g[k - 1])
  BY <1>2 DEF WalkOver
<1>4. PICK p \in RowsFor(n, kinds) : TRUE
  OBVIOUS
<1>5. p \in 1..Len(scores)
  BY <1>1 DEF RowsFor
<1> DEFINE Out == {k \in Nat : k \in p..Len(scores) /\ g[k] \notin RowsFor(n, kinds)}
<1> HIDE DEF Out
<1>6. 0 \notin RowsFor(n, kinds)
  BY <1>1 DEF RowsFor
<1>7. \A k \in 0..Len(scores) : g[k] \in RowsFor(n, kinds) \cup {0}
  <2> SUFFICES ASSUME NEW T, T = {k \in 0..Len(scores) : g[k] \notin RowsFor(n, kinds) \cup {0}},
                      T # {}
               PROVE  FALSE
    OBVIOUS
  <2>1. PICK k \in T : \A j \in T : k <= j
    <3>1. T \subseteq Nat
      OBVIOUS
    <3> QED
      BY <3>1, LeastNat
  <2>2. k # 0
    BY <1>1, <1>3
  <2>3. k - 1 \in 0..Len(scores) /\ k - 1 \notin T
    BY <1>1, <2>1, <2>2
  <2> QED
    BY <1>3, <2>2, <2>3 DEF Taking
<1>8. Out = {}
  <2> SUFFICES ASSUME Out # {} PROVE FALSE
    OBVIOUS
  <2>1. PICK k \in Out : \A j \in Out : k <= j
    <3>1. Out \subseteq Nat
      BY DEF Out
    <3> QED
      BY <3>1, LeastNat
  <2>2. k \in p..Len(scores) /\ k \in 1..Len(scores) /\ g[k] \notin RowsFor(n, kinds)
    BY <1>1, <1>5 DEF Out
  <2>3. k - 1 \in 0..Len(scores) /\ g[k] = Taking(n, kinds, k, g[k - 1])
    BY <1>1, <1>3, <2>2
  <2>4. CASE k = p
    BY <1>7, <2>2, <2>3, <2>4 DEF Taking
  <2>5. CASE k # p
    <3>1. k - 1 \in Nat /\ k - 1 \in p..Len(scores) /\ ~(k <= k - 1)
      BY <1>1, <1>5, <2>2, <2>5
    <3>2. g[k - 1] \in RowsFor(n, kinds)
      BY <2>1, <3>1 DEF Out
    <3> QED
      BY <2>2, <2>3, <3>2 DEF Taking
  <2> QED
    BY <2>4, <2>5
<1>9. g[Len(scores)] \in RowsFor(n, kinds)
  <2>1. Len(scores) \in Nat /\ Len(scores) \in p..Len(scores)
    BY <1>1, <1>5
  <2> QED
    BY <1>8, <2>1 DEF Out
<1> QED
  BY <1>2, <1>6, <1>9

\* Of rows of which the last is a finer one, that one.
LEMMA ChosenIsTheFiner ==
    ASSUME NEW n, NEW kinds, IsSequence(scores), NEW p \in RowsFor(n, kinds), scores[p].finer,
           \A q \in RowsFor(n, kinds) : q <= p
    PROVE  Chosen(n, kinds) = {p}
<1>1. Len(scores) \in Nat /\ DOMAIN scores = 1..Len(scores)
  BY Appended
<1>2. PICK g : WalkOver(n, kinds, g, Len(scores)) /\ Chosen(n, kinds) = {g[Len(scores)]} \ {0}
  BY <1>1, ChosenIs
<1>3. \A k \in 0..Len(scores) : g[k] = IF k = 0 THEN 0 ELSE Taking(n, kinds, k, g[k - 1])
  BY <1>2 DEF WalkOver
<1>4. p \in 1..Len(scores)
  BY <1>1 DEF RowsFor
<1> DEFINE Out == {k \in Nat : k \in p..Len(scores) /\ g[k] # p}
<1> HIDE DEF Out
<1>5. Out = {}
  <2> SUFFICES ASSUME Out # {} PROVE FALSE
    OBVIOUS
  <2>1. PICK k \in Out : \A j \in Out : k <= j
    <3>1. Out \subseteq Nat
      BY DEF Out
    <3> QED
      BY <3>1, LeastNat
  <2>2. k \in p..Len(scores) /\ k \in 1..Len(scores) /\ g[k] # p
    BY <1>1, <1>4 DEF Out
  <2>3. g[k] = Taking(n, kinds, k, g[k - 1])
    BY <1>1, <1>3, <2>2
  <2>4. CASE k = p
    BY <2>2, <2>3, <2>4 DEF Taking
  <2>5. CASE k # p
    <3>1. k - 1 \in Nat /\ k - 1 \in p..Len(scores) /\ ~(k <= k - 1) /\ ~(k <= p)
      BY <1>1, <1>4, <2>2, <2>5
    <3>2. g[k - 1] = p
      BY <2>1, <3>1 DEF Out
    <3>3. k \notin RowsFor(n, kinds)
      BY <3>1
    <3> QED
      BY <2>2, <2>3, <3>2, <3>3 DEF Taking
  <2> QED
    BY <2>4, <2>5
<1>6. g[Len(scores)] = p
  <2>1. Len(scores) \in Nat /\ Len(scores) \in p..Len(scores)
    BY <1>1, <1>4
  <2> QED
    BY <1>5, <2>1 DEF Out
<1> QED
  BY <1>2, <1>4, <1>6

-------------------------------------------------------------------------------
(* The rows the stages leave *)

Kinds == {"broad", "match", "auth"}
Phases ==
    {"discover", "normalize", "live", "rank", "salvage", "publish", "publish.last", "replan",
     "over"} \cup Kinds
Codes ==
    {"MALICIOUS_URL", "SELF_DECLARED_REPLICA", "WRONG_PRODUCT", "HARD_COLOURWAY",
     "STRONG_COUNTERFEIT_EVIDENCE", "IMAGE_THEFT_OR_SCAM", "INACCESSIBLE_DESTINATION",
     "DEAD_LISTING", "INSUFFICIENT_MATCH"} \cup Buckets

ScoreRows ==
    [ listing : Nat, kind : Kinds, finer : BOOLEAN, lower : Int, against : SUBSET STRING,
      missing : SUBSET STRING ]
DecisionRows ==
    [ listing : Nat, by : SUBSET Nat, bucket : Buckets, codes : SUBSET Codes,
      against : SUBSET STRING, missing : SUBSET STRING, support : SUBSET STRING,
      images : SUBSET STRING ]
ResultRows == [listing : Nat, codes : SUBSET Codes, tab : Buckets \cup {"replica"}]

DisplayTypes ==
    /\ listings \in Seq(Listed) /\ scores \in Seq(ScoreRows)
    /\ decisions \in Seq(DecisionRows) /\ results \in Seq(ResultRows)
    /\ phase \in Phases /\ lap \in 1..MaxLaps /\ purged \in BOOLEAN
    /\ purged => /\ phase = "over" /\ listings = <<>> /\ scores = <<>>
                 /\ decisions = <<>> /\ results = <<>>

\* A score is of a listing that is there, and says what was made of it.
ScoreRight(k) ==
    LET n == scores[k].listing
    IN  /\ n \in DOMAIN listings
        /\ scores[k].finer <=> scores[k].kind # "broad"
        /\ scores[k].kind = "match" => scores[k].lower = listings[n].match.lower
        /\ scores[k].kind = "auth" => scores[k].lower = listings[n].auth.lower
ScoresRight == \A k \in DOMAIN scores : ScoreRight(k)

\* A listing is compared once, and after its broad comparison: there is one of these as
\* soon as there is a listing that retrieval keeps and that is compared.
Precedes(j, k) ==
    scores[j].listing = scores[k].listing /\ scores[k].kind = "match" =>
        /\ scores[j].kind = "match" => j = k
        /\ scores[j].kind = "broad" => j < k
MatchedOnce == \A j, k \in DOMAIN scores : Precedes(j, k)

Broad == \E k \in DOMAIN scores : scores[k].kind = "broad"
BroadDone ==
    \A n \in DOMAIN listings :
        listings[n].recall >= 0 /\ (phase = "match" \/ HasScore(n, "match")) => Broad

\* A decision is made of the one comparison of its listing.
Founded(d) ==
    LET n == d.listing
    IN  /\ \E k \in DOMAIN scores :
               d.by = {k} /\ scores[k].listing = n /\ scores[k].kind = "match"
        /\ HasScore(n, "auth")
        /\ d.bucket = "real" => listings[n].match.lower >= 900 /\ listings[n].auth.lower >= 800
        /\ d.bucket = "possibly_real" => listings[n].match.lower >= 450
DecisionsHold == \A k \in DOMAIN decisions : Founded(decisions[k])

\* A result is published as it was decided, or as a replica, or not at all.
Follows(r, d) ==
    /\ r.listing = d.listing
    /\ r.tab \in {"real", "possibly_real"} => r.tab = d.bucket
ResultsHold ==
    \A i \in DOMAIN results : \E k \in DOMAIN decisions : Follows(results[i], decisions[k])

RowsInv ==
    DisplayTypes /\ ScoresRight /\ MatchedOnce /\ BroadDone /\ DecisionsHold /\ ResultsHold

-------------------------------------------------------------------------------
(* What a stage adds to them *)

LEMMA ListedIs ==
    ASSUME NEW l \in Listed
    PROVE  /\ l.recall \in Int /\ l.match \in Matches /\ l.auth \in Assessments
           /\ l.match.lower \in Int /\ l.auth.lower \in Int
           /\ l.match.missing \in SUBSET STRING /\ l.auth.missing \in SUBSET STRING
           /\ l.match.hard \in SUBSET STRING /\ l.auth.hard \in SUBSET STRING
           /\ l.against \in SUBSET STRING /\ l.missing \in SUBSET STRING
           /\ l.support \in SUBSET STRING /\ l.compared \in SUBSET STRING
           /\ l.reads \in [1..(MaxLaps + 1) -> Availabilities] /\ l.offer \in Offered
<1>1. /\ l.recall \in Int /\ l.match \in Matches /\ l.auth \in Assessments
      /\ l.against \in SUBSET STRING /\ l.missing \in SUBSET STRING
      /\ l.support \in SUBSET STRING /\ l.compared \in SUBSET STRING
      /\ l.reads \in [1..(MaxLaps + 1) -> Availabilities] /\ l.offer \in Offered
  BY DEF Listed
<1>2. \A m \in Matches :
          m.lower \in Int /\ m.missing \in SUBSET STRING /\ m.hard \in SUBSET STRING
  BY DEF Matches
<1>3. \A a \in Assessments :
          a.lower \in Int /\ a.missing \in SUBSET STRING /\ a.hard \in SUBSET STRING
  BY DEF Assessments
<1> QED
  BY <1>1, <1>2, <1>3

\* What a page says of a listing changes nothing of what was made of it.
LEMMA Reread ==
    ASSUME NEW l \in Listed, NEW avail \in Availabilities, NEW there \in BOOLEAN
    PROVE  LET m == [l EXCEPT !.avail = avail, !.dest = there]
           IN  m \in Listed /\ m.recall = l.recall /\ m.match = l.match /\ m.auth = l.auth
  BY DEF Listed

LEMMA FoundRows ==
    ASSUME NEW haul \in Hauls
    PROVE  [k \in DOMAIN haul |-> Row(haul[k])] \in Seq(Listed)
<1>1. haul \in Seq(Listed) /\ DOMAIN haul = 1..Len(haul) /\ Len(haul) \in Nat
  BY HaulsAssumption
<1>2. ASSUME NEW k \in DOMAIN haul PROVE Row(haul[k]) \in Listed
  <2>1. haul[k] \in Listed
    BY <1>1
  <2>2. haul[k].reads[1] \in Availabilities
    <3>1. 1 \in 1..(MaxLaps + 1)
      BY LapsAssumption
    <3> QED
      BY <2>1, <3>1, ListedIs
  <2> QED
    BY <2>1, <2>2, Reread DEF Row
<1>3. [k \in DOMAIN haul |-> Row(haul[k])] \in [1..Len(haul) -> Listed]
  BY <1>1, <1>2
<1> QED
  BY <1>1, <1>3

\* The rows of scores a comparison adds: each of a listing that has none, once.
Added(rows, kind) ==
    /\ rows \in Seq(ScoreRows)
    /\ \A k \in 1..Len(rows) :
          /\ rows[k].listing \in DOMAIN listings /\ rows[k].kind = kind
          /\ rows[k].finer <=> kind # "broad"
          /\ kind = "match" => rows[k].lower = listings[rows[k].listing].match.lower
          /\ kind = "auth" => rows[k].lower = listings[rows[k].listing].auth.lower
          /\ ~HasScore(rows[k].listing, kind)
          /\ kind = "broad" => listings[rows[k].listing].recall >= 0
    /\ \A j, k \in 1..Len(rows) : rows[j].listing = rows[k].listing => j = k

LEMMA ScoreIs ==
    ASSUME NEW kind \in Kinds, NEW n \in Nat, NEW from, from.lower \in Int,
           from.hard \in SUBSET STRING, from.missing \in SUBSET STRING
    PROVE  Score(kind, n, from) \in ScoreRows
  BY DEF Score, ScoreRows

LEMMA ScoreSays ==
    ASSUME NEW kind, NEW n, NEW from
    PROVE  LET score == Score(kind, n, from)
           IN  /\ score.listing = n /\ score.kind = kind /\ score.lower = from.lower
               /\ score.finer <=> kind # "broad"
  BY Zenon DEF Score

LEMMA NewScoresAre ==
    ASSUME DisplayTypes, NEW kind \in {"match", "auth"}
    PROVE  Added(NewScores(kind), kind)
<1> DEFINE N == {n \in DOMAIN listings : ~HasScore(n, kind)}
           new == InOrder(N)
           rows == [k \in DOMAIN new |-> Score(kind, new[k], listings[new[k]][kind])]
<1>1. listings \in Seq(Listed) /\ Len(listings) \in Nat /\ DOMAIN listings = 1..Len(listings)
      /\ \A n \in DOMAIN listings : listings[n] \in Listed /\ n \in Nat
  BY DEF DisplayTypes
<1>2. /\ new \in Seq(N) /\ Len(new) \in Nat /\ DOMAIN new = 1..Len(new)
      /\ \A j, k \in 1..Len(new) : new[j] = new[k] => j = k
  <2>1. N \in SUBSET (1..Len(listings))
    BY <1>1
  <2> HIDE DEF N
  <2>2. /\ new \in Seq(N) /\ Len(new) = Cardinality(N) /\ Cardinality(N) \in Nat
        /\ \A j, k \in 1..Cardinality(N) : new[j] = new[k] => j = k
    BY <1>1, <2>1, InOrderIs
  <2> HIDE DEF new
  <2> QED
    BY <2>2
<1>3. \A k \in 1..Len(new) : new[k] \in N
  BY <1>2
<1> HIDE DEF new
<1>4. ASSUME NEW n \in DOMAIN listings
      PROVE  /\ kind = "match" => listings[n][kind] = listings[n].match
             /\ kind = "auth" => listings[n][kind] = listings[n].auth
             /\ Score(kind, n, listings[n][kind]) \in ScoreRows
  <2>1. listings[n] \in Listed /\ n \in Nat
    BY <1>1
  <2>2. CASE kind = "match"
    <3>1. Score(kind, n, listings[n].match) \in ScoreRows
      BY <2>1, <2>2, ListedIs, ScoreIs DEF Kinds
    <3> QED
      BY <2>2, <3>1
  <2>3. CASE kind = "auth"
    <3>1. Score(kind, n, listings[n].auth) \in ScoreRows
      BY <2>1, <2>3, ListedIs, ScoreIs DEF Kinds
    <3> QED
      BY <2>3, <3>1
  <2> QED
    BY <2>2, <2>3
<1>5. rows \in [1..Len(new) -> ScoreRows]
  BY <1>2, <1>3, <1>4
<1>6. rows \in Seq(ScoreRows) /\ Len(rows) = Len(new)
  BY <1>2, <1>5
<1>7. ASSUME NEW k \in 1..Len(new)
      PROVE  /\ rows[k].listing = new[k] /\ new[k] \in N /\ rows[k].kind = kind
             /\ rows[k].finer <=> kind # "broad"
             /\ kind = "match" => rows[k].lower = listings[new[k]].match.lower
             /\ kind = "auth" => rows[k].lower = listings[new[k]].auth.lower
  <2>1. rows[k] = Score(kind, new[k], listings[new[k]][kind]) /\ new[k] \in DOMAIN listings
    BY <1>2, <1>3
  <2> HIDE DEF rows
  <2> QED
    BY <1>3, <1>4, <2>1, ScoreSays
<1>8. NewScores(kind) = rows
  BY DEF NewScores, new
<1> HIDE DEF rows
<1>9. Added(rows, kind)
  BY <1>2, <1>6, <1>7 DEF Added
<1> QED
  BY <1>8, <1>9

LEMMA BroadScoresAre ==
    ASSUME DisplayTypes
    PROVE  /\ Added(BroadScores, "broad")
           /\ Len(BroadScores) > 0 => \A n \in DOMAIN listings : ~HasScore(n, "broad")
           /\ (\E n \in DOMAIN listings : listings[n].recall >= 0)
              /\ (\A n \in DOMAIN listings : ~HasScore(n, "broad")) => Len(BroadScores) > 0
<1> DEFINE first == \A m \in DOMAIN listings : ~HasScore(m, "broad")
           N == {n \in DOMAIN listings : first /\ listings[n].recall >= 0}
           kept == InOrder(N)
           rows == [k \in DOMAIN kept |-> Score("broad", kept[k], Recalled(kept[k]))]
<1>1. listings \in Seq(Listed) /\ Len(listings) \in Nat /\ DOMAIN listings = 1..Len(listings)
      /\ \A n \in DOMAIN listings : listings[n] \in Listed /\ n \in Nat
  BY DEF DisplayTypes
<1>2. /\ kept \in Seq(N) /\ Len(kept) \in Nat /\ DOMAIN kept = 1..Len(kept)
      /\ \A j, k \in 1..Len(kept) : kept[j] = kept[k] => j = k
      /\ \A n \in N : \E k \in 1..Len(kept) : kept[k] = n
  <2>1. N \in SUBSET (1..Len(listings))
    BY <1>1
  <2> HIDE DEF N
  <2>2. /\ kept \in Seq(N) /\ Len(kept) = Cardinality(N) /\ Cardinality(N) \in Nat
        /\ \A j, k \in 1..Cardinality(N) : kept[j] = kept[k] => j = k
        /\ \A n \in N : \E k \in 1..Cardinality(N) : kept[k] = n
    BY <1>1, <2>1, InOrderIs
  <2> HIDE DEF kept
  <2> QED
    BY <2>2
<1>3. \A k \in 1..Len(kept) : kept[k] \in N
  BY <1>2
<1> HIDE DEF kept
<1>4. ASSUME NEW n \in DOMAIN listings PROVE Score("broad", n, Recalled(n)) \in ScoreRows
  <2>1. listings[n].recall \in Int /\ n \in Nat
    BY <1>1, ListedIs
  <2>2. Recalled(n).lower \in Int /\ Recalled(n).hard \in SUBSET STRING
        /\ Recalled(n).missing \in SUBSET STRING
    BY <2>1 DEF Recalled, Greater
  <2> QED
    BY <2>1, <2>2, ScoreIs DEF Kinds
<1>5. rows \in [1..Len(kept) -> ScoreRows]
  BY <1>2, <1>3, <1>4
<1>6. rows \in Seq(ScoreRows) /\ Len(rows) = Len(kept)
  BY <1>2, <1>5
<1>7. ASSUME NEW k \in 1..Len(kept)
      PROVE  /\ rows[k].listing = kept[k] /\ kept[k] \in N /\ rows[k].kind = "broad"
             /\ ~rows[k].finer
  <2>1. rows[k] = Score("broad", kept[k], Recalled(kept[k])) /\ kept[k] \in DOMAIN listings
    BY <1>2, <1>3
  <2> HIDE DEF rows
  <2> QED
    BY <1>3, <2>1, ScoreSays
<1>8. BroadScores = rows
  BY DEF BroadScores, kept
<1> HIDE DEF rows
<1>9. \A n \in N : first /\ listings[n].recall >= 0 /\ n \in DOMAIN listings
  OBVIOUS
<1>10. Added(rows, "broad")
  <2> HIDE DEF N
  <2> QED
    BY <1>2, <1>6, <1>7, <1>9 DEF Added
<1>11. Len(kept) > 0 => first
  <2> SUFFICES ASSUME Len(kept) > 0 PROVE first
    OBVIOUS
  <2>1. 1 \in 1..Len(kept)
    BY <1>2
  <2> QED
    BY <1>3, <1>9, <2>1
<1>12. ASSUME NEW n \in DOMAIN listings, listings[n].recall >= 0, first PROVE Len(kept) > 0
  <2>1. PICK k \in 1..Len(kept) : kept[k] = n
    BY <1>2, <1>12
  <2> QED
    BY <1>2, <2>1
<1> QED
  BY <1>6, <1>8, <1>10, <1>11, <1>12

-------------------------------------------------------------------------------
(* The steps of the worker, by the rows they change *)

StandsAs(n) ==
    /\ n \in DOMAIN listings' /\ listings'[n].recall = listings[n].recall
    /\ listings'[n].match = listings[n].match /\ listings'[n].auth = listings[n].auth

\* Listings are found, or read again.
FindsOrReads ==
    /\ ~purged /\ listings' \in Seq(Listed) /\ \A n \in DOMAIN listings : StandsAs(n)
    /\ phase' \in Phases \ {"match"} /\ UNCHANGED <<scores, decisions, results, lap, purged>>

Compares(kind, rows) ==
    /\ ~purged /\ Added(rows, kind) /\ scores' = scores \o rows /\ phase = kind
    /\ kind = "broad" =>
          /\ Len(rows) > 0 => \A n \in DOMAIN listings : ~HasScore(n, "broad")
          /\ (\E n \in DOMAIN listings : listings[n].recall >= 0)
             /\ (\A n \in DOMAIN listings : ~HasScore(n, "broad")) => Len(rows) > 0
    /\ phase' \in Phases /\ (phase' = "match" => kind = "broad")
    /\ UNCHANGED <<listings, decisions, results, lap, purged>>

Decides ==
    /\ ~purged /\ Decide /\ phase' \in Phases \ {"match"}
    /\ UNCHANGED <<listings, scores, results, lap, purged>>

Publishes ==
    /\ ~purged /\ PublishOne

Proceeds ==
    /\ ~purged /\ phase' \in Phases \ {"match"} /\ lap' \in 1..MaxLaps
    /\ UNCHANGED <<listings, scores, decisions, results, purged>>

Reads == UNCHANGED <<listings, scores, decisions, results, phase, lap, purged>>

LEMMA WorkerSteps ==
    ASSUME DisplayTypes, [DisplayNext]_displayVars
    PROVE  \/ FindsOrReads \/ Decides \/ Publishes \/ Proceeds \/ Purge \/ Reads
           \/ \E kind \in Kinds, rows \in Seq(ScoreRows) : Compares(kind, rows)
<1>0. /\ listings \in Seq(Listed) /\ DOMAIN listings = 1..Len(listings) /\ Len(listings) \in Nat
      /\ \A n \in DOMAIN listings : listings[n] \in Listed
      /\ phase # "over" => ~purged
  BY DEF DisplayTypes
<1>1. ASSUME NEW haul \in Hauls, NEW how \in {"fine", "fails", "budget"}, Discover(haul, how)
      PROVE  FindsOrReads
  <2> DEFINE more == [k \in DOMAIN haul |-> Row(haul[k])]
  <2>1. more \in Seq(Listed)
    BY FoundRows
  <2> HIDE DEF more
  <2>2. listings' = listings \o more /\ phase = "discover" /\ phase' \in {"salvage", "normalize"}
        /\ UNCHANGED <<scores, decisions, results, lap, purged>>
    BY <1>1 DEF Discover, more
  <2>3. listings' \in Seq(Listed) /\ DOMAIN listings' = 1..(Len(listings) + Len(more))
        /\ Len(more) \in Nat /\ \A n \in 1..Len(listings) : listings'[n] = listings[n]
    BY <1>0, <2>1, <2>2, Joined
  <2>4. \A n \in DOMAIN listings : StandsAs(n)
    BY <1>0, <2>3 DEF StandsAs
  <2> QED
    BY <1>0, <2>2, <2>3, <2>4 DEF FindsOrReads, Phases
<1>2. CASE Live
  <2>1. lap + 1 \in 1..(MaxLaps + 1)
    BY LapsAssumption DEF DisplayTypes
  <2> DEFINE now(n) == listings[n].reads[lap + 1]
  <2>2. \A n \in DOMAIN listings :
            listings'[n] = [listings[n] EXCEPT !.avail = now(n), !.dest = now(n) = "LIVE"]
    BY <1>2 DEF Live
  <2>3. DOMAIN listings' = DOMAIN listings
        /\ listings' = [n \in DOMAIN listings |-> listings'[n]]
    BY <1>2 DEF Live
  <2>4. ASSUME NEW n \in DOMAIN listings PROVE listings'[n] \in Listed /\ StandsAs(n)
    <3>1. listings[n] \in Listed /\ now(n) \in Availabilities
      BY <1>0, <2>1, ListedIs
    <3> HIDE DEF now
    <3>2. PICK a \in Availabilities :
              listings'[n] = [listings[n] EXCEPT !.avail = a, !.dest = a = "LIVE"]
      BY <2>2, <3>1
    <3>3. /\ listings'[n] \in Listed /\ listings'[n].recall = listings[n].recall
          /\ listings'[n].match = listings[n].match /\ listings'[n].auth = listings[n].auth
      BY <3>1, <3>2 DEF Listed
    <3> QED
      BY <2>3, <3>3 DEF StandsAs
  <2>5. listings' \in Seq(Listed)
    <3>1. listings' \in [1..Len(listings) -> Listed]
      BY <1>0, <2>3, <2>4
    <3> QED
      BY <1>0, <3>1
  <2>6. phase = "live" /\ phase' = "rank" /\ UNCHANGED <<scores, decisions, results, lap, purged>>
    BY <1>2 DEF Live
  <2> QED
    BY <1>0, <2>4, <2>5, <2>6 DEF FindsOrReads, Phases, Kinds
<1>3. ASSUME NEW kind \in Kinds, Compare(kind)
      PROVE  \E rows \in Seq(ScoreRows) : Compares(kind, rows)
  <2>1. /\ phase = kind /\ phase # "over"
        /\ phase' = IF listings = <<>> THEN "replan" ELSE Following[kind]
        /\ UNCHANGED <<listings, decisions, results, lap, purged>>
    BY <1>3 DEF Compare, Kinds
  <2>2. phase' \in Phases /\ (phase' = "match" => kind = "broad")
    BY <2>1 DEF Following, Phases, Kinds
  <2>3. CASE kind = "broad"
    <3>1. scores' = scores \o BroadScores
      BY <1>3, <2>3 DEF Compare
    <3>2. BroadScores \in Seq(ScoreRows)
      BY BroadScoresAre DEF Added
    <3> QED
      BY <1>0, <2>1, <2>2, <2>3, <3>1, <3>2, BroadScoresAre DEF Compares
  <2>4. CASE kind \in {"match", "auth"}
    <3>1. scores' = scores \o NewScores(kind) /\ kind # "broad"
      BY <1>3, <2>4 DEF Compare
    <3>2. NewScores(kind) \in Seq(ScoreRows) /\ Added(NewScores(kind), kind)
      BY <2>4, NewScoresAre DEF Added
    <3> QED
      BY <1>0, <2>1, <2>2, <3>1, <3>2 DEF Compares
  <2> QED
    BY <2>3, <2>4 DEF Kinds
<1>4. CASE RankStage
  BY <1>0, <1>4 DEF RankStage, Decides, Phases, Kinds
<1>5. CASE PublishOne
  BY <1>0, <1>5 DEF PublishOne, Publishes
<1>6. CASE Normalize \/ PublishEnds \/ RunOut
  BY <1>0, <1>6 DEF Normalize, PublishEnds, RunOut, Proceeds, Phases, Kinds, DisplayTypes
<1>7. CASE Replan
  BY <1>0, <1>7, LapsAssumption DEF Replan, Proceeds, Phases, Kinds, DisplayTypes
<1>8. CASE \/ OpenList \/ AddCard \/ CloseList \/ (\E n \in DOMAIN results : ShowOne(n))
           \/ OpenSearch \/ (\E reasons : CloseSearch(reasons)) \/ UNCHANGED displayVars
  BY <1>8 DEF OpenList, AddCard, CloseList, ShowOne, OpenSearch, CloseSearch, Answered, Reads,
              displayVars
<1> QED
  BY <1>1, <1>2, <1>3, <1>4, <1>5, <1>6, <1>7, <1>8 DEF DisplayNext, Kinds

\* A score stays where it is, and what is said of it.
LEMMA ScoreStays ==
    ASSUME NEW k, NEW n, scores'[k] = scores[k], ScoreRight(k), scores[k].listing = n,
           StandsAs(n)
    PROVE  ScoreRight(k)'
  BY DEF ScoreRight, StandsAs

LEMMA FoundStep == ASSUME RowsInv, FindsOrReads PROVE RowsInv'
<1>1. DisplayTypes'
  BY DEF RowsInv, DisplayTypes, FindsOrReads
<1>2. ScoresRight'
  BY ScoreStays DEF RowsInv, ScoresRight, ScoreRight, FindsOrReads
<1>3. MatchedOnce'
  BY DEF RowsInv, MatchedOnce, Precedes, FindsOrReads
<1>4. BroadDone'
  <2> SUFFICES ASSUME NEW n \in DOMAIN listings', listings'[n].recall >= 0, HasScore(n, "match")'
               PROVE  Broad'
    BY DEF BroadDone, FindsOrReads
  <2>1. HasScore(n, "match") /\ n \in DOMAIN listings
    BY DEF HasScore, FindsOrReads, RowsInv, ScoresRight, ScoreRight
  <2> QED
    BY <2>1 DEF RowsInv, BroadDone, Broad, FindsOrReads, StandsAs
<1>5. DecisionsHold'
  <2>1. ASSUME NEW k \in DOMAIN decisions PROVE Founded(decisions[k])'
    <3>1. Founded(decisions[k]) /\ decisions' = decisions /\ scores' = scores
      BY DEF RowsInv, DecisionsHold, FindsOrReads
    <3>2. StandsAs(decisions[k].listing)
      BY <3>1 DEF Founded, RowsInv, ScoresRight, ScoreRight, FindsOrReads
    <3> QED
      BY <3>1, <3>2 DEF Founded, StandsAs, HasScore
  <2> QED
    BY <2>1 DEF DecisionsHold, FindsOrReads
<1>6. ResultsHold'
  BY DEF RowsInv, ResultsHold, Follows, FindsOrReads
<1> QED
  BY <1>1, <1>2, <1>3, <1>4, <1>5, <1>6 DEF RowsInv

LEMMA ComparedStep ==
    ASSUME RowsInv, NEW kind \in Kinds, NEW rows \in Seq(ScoreRows), Compares(kind, rows)
    PROVE  RowsInv'
<1> DEFINE L == Len(scores)
           R == Len(rows)
<1>1. /\ scores' \in Seq(ScoreRows) /\ L \in Nat /\ R \in Nat
      /\ DOMAIN scores = 1..L /\ DOMAIN scores' = 1..(L + R)
      /\ \A k \in 1..L : scores'[k] = scores[k]
      /\ \A k \in 1..R : scores'[L + k] = rows[k]
      /\ \A k \in 1..(L + R) : k \in 1..L \/ k - L \in 1..R
  <2>1. scores \in Seq(ScoreRows) /\ scores' = scores \o rows
    BY DEF Compares, RowsInv, DisplayTypes
  <2> QED
    BY <2>1, Joined
<1>2. /\ listings' = listings /\ decisions' = decisions /\ results' = results /\ ~purged
      /\ phase' \in Phases /\ lap' = lap /\ purged' = purged /\ Added(rows, kind)
  BY DEF Compares
<1> HIDE DEF L, R
<1>3. \A k \in 1..(L + R) : k \in 1..L \/ \E i \in 1..R : k = L + i
  <2> SUFFICES ASSUME NEW k \in 1..(L + R), k \notin 1..L PROVE \E i \in 1..R : k = L + i
    OBVIOUS
  <2>1. k - L \in 1..R /\ k = L + (k - L)
    BY <1>1
  <2> QED
    BY <2>1
<1>4. DisplayTypes'
  BY <1>1, <1>2 DEF RowsInv, DisplayTypes
<1>5. ScoresRight'
  <2>1. ASSUME NEW k \in 1..L PROVE ScoreRight(k)'
    <3>1. ScoreRight(k) /\ scores'[k] = scores[k]
      BY <1>1 DEF RowsInv, ScoresRight
    <3> QED
      BY <1>2, <3>1 DEF ScoreRight
  <2>2. ASSUME NEW i \in 1..R, NEW k \in 1..(L + R), k = L + i PROVE ScoreRight(k)'
    <3>1. /\ rows[i].listing \in DOMAIN listings /\ rows[i].kind = kind
          /\ rows[i].finer <=> kind # "broad"
          /\ kind = "match" => rows[i].lower = listings[rows[i].listing].match.lower
          /\ kind = "auth" => rows[i].lower = listings[rows[i].listing].auth.lower
      BY <1>2 DEF Added, R
    <3>2. scores'[k] = rows[i]
      BY <1>1, <2>2
    <3>3. scores'[k].finer <=> scores'[k].kind # "broad"
      BY <3>1, <3>2
    <3>4. /\ scores'[k].kind = "match" =>
                scores'[k].lower = listings[scores'[k].listing].match.lower
          /\ scores'[k].kind = "auth" =>
                scores'[k].lower = listings[scores'[k].listing].auth.lower
          /\ scores'[k].listing \in DOMAIN listings
      BY <3>1, <3>2
    <3> QED
      BY <1>2, <3>3, <3>4 DEF ScoreRight
  <2>3. ASSUME NEW k \in 1..(L + R) PROVE ScoreRight(k)'
    BY <1>3, <2>1, <2>2
  <2> QED
    BY <1>1, <2>3 DEF ScoresRight
<1>6. \A i \in 1..R : rows[i].kind = kind /\ ~HasScore(rows[i].listing, kind)
                      /\ rows[i].listing \in DOMAIN listings
                      /\ (kind = "broad" => listings[rows[i].listing].recall >= 0)
  BY <1>2 DEF Added, R
<1>7. MatchedOnce'
  <2> SUFFICES ASSUME NEW j \in 1..(L + R), NEW k \in 1..(L + R) PROVE Precedes(j, k)'
    BY <1>1 DEF MatchedOnce
  <2>1. CASE j \in 1..L /\ k \in 1..L
    BY <1>1, <2>1 DEF RowsInv, MatchedOnce, Precedes
  <2>2. ASSUME NEW i \in 1..R, k = L + i, j \in 1..L PROVE Precedes(j, k)'
    <3>1. scores'[k] = rows[i] /\ scores'[j] = scores[j] /\ j < k
      BY <1>1, <2>2
    <3>2. ~(scores[j].listing = rows[i].listing /\ scores[j].kind = kind)
      BY <1>1, <1>6, <2>2 DEF HasScore
    <3> QED
      BY <1>6, <3>1, <3>2 DEF Precedes
  <2>3. ASSUME NEW i \in 1..R, j = L + i, k \in 1..L PROVE Precedes(j, k)'
    <3> SUFFICES ASSUME scores'[j].listing = scores'[k].listing, scores'[k].kind = "match"
                 PROVE  scores'[j].kind \notin {"match", "broad"}
      BY DEF Precedes
    <3>1. scores'[j] = rows[i] /\ scores'[k] = scores[k] /\ k \in DOMAIN scores
      BY <1>1, <2>3
    <3>2. rows[i].kind = kind /\ kind # "match"
      BY <1>6, <3>1 DEF HasScore
    <3>3. CASE kind = "broad"
      <4>1. HasScore(rows[i].listing, "match") /\ rows[i].listing \in DOMAIN listings
            /\ listings[rows[i].listing].recall >= 0
        BY <1>6, <3>1, <3>3 DEF HasScore
      <4>2. Broad
        BY <4>1 DEF RowsInv, BroadDone
      <4>3. PICK b \in DOMAIN scores : scores[b].kind = "broad"
        BY <4>2 DEF Broad
      <4>4. scores[b].listing \in DOMAIN listings /\ HasScore(scores[b].listing, "broad")
        BY <4>3 DEF RowsInv, ScoresRight, ScoreRight, HasScore
      <4>5. R > 0
        BY <1>1
      <4> QED
        BY <3>3, <4>4, <4>5 DEF Compares, R
    <3> QED
      BY <3>1, <3>2, <3>3
  <2>4. ASSUME NEW i \in 1..R, NEW h \in 1..R, j = L + i, k = L + h PROVE Precedes(j, k)'
    <3>1. scores'[j] = rows[i] /\ scores'[k] = rows[h]
      BY <1>1, <2>4
    <3>2. rows[i].listing = rows[h].listing => i = h
      BY <1>2 DEF Added, R
    <3> QED
      BY <1>6, <2>4, <3>1, <3>2 DEF Precedes
  <2> QED
    BY <1>3, <2>1, <2>2, <2>3, <2>4
<1>8. \A n \in DOMAIN listings : \A x \in Kinds : HasScore(n, x) => HasScore(n, x)'
  BY <1>1 DEF HasScore
<1>9. BroadDone'
  <2> SUFFICES ASSUME NEW n \in DOMAIN listings, listings[n].recall >= 0,
                      phase' = "match" \/ HasScore(n, "match")'
               PROVE  Broad'
    BY <1>2 DEF BroadDone
  <2>1. Broad => Broad'
    BY <1>1 DEF Broad
  <2>2. CASE Broad
    BY <2>1, <2>2
  <2>3. CASE ~Broad
    <3>1. \A m \in DOMAIN listings : ~HasScore(m, "broad")
      BY <2>3 DEF Broad, HasScore
    <3>2. ~HasScore(n, "match") /\ phase # "match"
      BY <2>3 DEF RowsInv, BroadDone
    <3>3. kind = "broad"
      <4>1. CASE phase' = "match"
        BY <4>1 DEF Compares
      <4>2. CASE HasScore(n, "match")'
        <5>1. PICK k \in 1..(L + R) : scores'[k].listing = n /\ scores'[k].kind = "match"
          BY <1>1, <4>2 DEF HasScore
        <5>2. k \notin 1..L
          BY <1>1, <3>2, <5>1 DEF HasScore
        <5>3. PICK i \in 1..R : k = L + i
          BY <1>3, <5>2
        <5>4. kind = "match"
          BY <1>1, <1>6, <5>1, <5>3
        <5> QED
          BY <3>2, <5>4 DEF Compares
      <4> QED
        BY <4>1, <4>2
    <3>4. R > 0
      BY <3>1, <3>3 DEF Compares, R
    <3>5. 1 \in 1..R /\ scores'[L + 1] = rows[1] /\ L + 1 \in 1..(L + R)
      BY <1>1, <3>4
    <3> QED
      BY <1>1, <1>6, <3>3, <3>5 DEF Broad
  <2> QED
    BY <2>2, <2>3
<1>10. DecisionsHold'
  <2>1. ASSUME NEW k \in DOMAIN decisions PROVE Founded(decisions[k])'
    <3>1. Founded(decisions[k])
      BY DEF RowsInv, DecisionsHold
    <3>2. PICK m \in DOMAIN scores :
              /\ decisions[k].by = {m} /\ scores[m].listing = decisions[k].listing
              /\ scores[m].kind = "match"
      BY <3>1 DEF Founded
    <3>3. decisions[k].listing \in DOMAIN listings
      BY <3>2 DEF RowsInv, ScoresRight, ScoreRight
    <3>4. HasScore(decisions[k].listing, "auth")'
      BY <1>2, <1>8, <3>1, <3>3 DEF Founded, Kinds
    <3>5. m \in DOMAIN scores' /\ scores'[m] = scores[m]
      BY <1>1, <3>2
    <3>6. /\ decisions' = decisions /\ listings' = listings
          /\ m \in DOMAIN scores' /\ decisions[k].by = {m}
          /\ scores'[m].listing = decisions[k].listing /\ scores'[m].kind = "match"
      BY <1>2, <3>2, <3>5
    <3> QED
      BY <3>1, <3>4, <3>6 DEF Founded
  <2> QED
    BY <1>2, <2>1 DEF DecisionsHold
<1>11. ResultsHold'
  BY <1>2 DEF RowsInv, ResultsHold
<1> QED
  BY <1>4, <1>5, <1>7, <1>9, <1>10, <1>11 DEF RowsInv

\* What is said of the scores holds as long as they and the listings stay.
LEMMA ScoresStand ==
    ASSUME ScoresRight, MatchedOnce, BroadDone, UNCHANGED <<listings, scores>>,
           phase' = "match" => phase = "match"
    PROVE  ScoresRight' /\ MatchedOnce' /\ BroadDone'
<1>1. ScoresRight'
  BY DEF ScoresRight, ScoreRight
<1>2. MatchedOnce'
  BY DEF MatchedOnce, Precedes
<1>3. BroadDone'
  BY DEF BroadDone, Broad, HasScore
<1> QED
  BY <1>1, <1>2, <1>3

LEMMA DecisionsStand ==
    ASSUME DecisionsHold, UNCHANGED <<listings, scores, decisions>>
    PROVE  DecisionsHold'
<1>1. ASSUME NEW k \in DOMAIN decisions PROVE Founded(decisions[k])'
  <2>1. Founded(decisions[k]) /\ decisions' = decisions
    BY DEF DecisionsHold
  <2> QED
    BY <2>1 DEF Founded, HasScore
<1> QED
  BY <1>1 DEF DecisionsHold

\* Codes and bucket of a verdict.
LEMMA VerdictCodes == \A c : Vetoes(c) \cup {Route(c)} \in SUBSET Codes
<1>1. \A c : Vetoes(c) \in SUBSET Codes
  BY DEF Vetoes, Codes
<1> QED
  BY <1>1, VerdictBuckets DEF Codes

\* What a bucket asks of a listing.
LEMMA RoutedCase ==
    ASSUME NEW l \in Listed
    PROVE  /\ Route(Case(l)) = "real" => l.match.lower >= 900 /\ l.auth.lower >= 800
           /\ Route(Case(l)) = "possibly_real" => l.match.lower >= 450
<1>1. Case(l).auth = l.auth /\ Case(l).match = l.match
  BY DEF Case
<1>2. l.auth.lower \in Int /\ l.match.lower \in Int
  BY ListedIs
<1>3. Route(Case(l)) = "real" => l.match.lower >= 900 /\ l.auth.lower >= 800
  BY <1>1, <1>2, RealNeedsItAll
<1>4. Route(Case(l)) = "possibly_real" => l.match.lower >= 450
  BY <1>1 DEF Route, PossiblyGate
<1> QED
  BY <1>3, <1>4

LEMMA FinestIs ==
    ASSUME RowsInv, NEW n, Finest(n) # {}
    PROVE  \E k \in DOMAIN scores :
               Finest(n) = {k} /\ scores[k].listing = n /\ scores[k].kind = "match"
<1>1. DOMAIN scores \subseteq Nat /\ \A k \in DOMAIN scores : scores[k].kind \in Kinds
  <2>1. scores \in Seq(ScoreRows)
    BY DEF RowsInv, DisplayTypes
  <2>2. DOMAIN scores = 1..Len(scores) /\ Len(scores) \in Nat
        /\ \A k \in DOMAIN scores : scores[k] \in ScoreRows
    BY <2>1
  <2>3. \A score \in ScoreRows : score.kind \in Kinds
    BY DEF ScoreRows
  <2> QED
    BY <2>2, <2>3
<1>2. PICK k : k \in Finest(n)
  OBVIOUS
<1>3. \A j \in Finest(n) : /\ j \in DOMAIN scores /\ scores[j].listing = n
                           /\ scores[j].kind \in {"broad", "match"} /\ scores[j].finer
  BY DEF Finest, RowsFor, MatchKinds
<1>4. \A j \in Finest(n) : scores[j].kind = "match"
  BY <1>3 DEF RowsInv, ScoresRight, ScoreRight
<1>5. \A j \in Finest(n) : j = k
  BY <1>2, <1>3, <1>4 DEF RowsInv, MatchedOnce, Precedes
<1>6. Finest(n) = {k}
  BY <1>2, <1>5
<1> QED
  BY <1>2, <1>3, <1>4, <1>6

LEMMA DecisionIs ==
    ASSUME RowsInv, NEW n \in DOMAIN listings, Finest(n) # {}, HasScore(n, "auth")
    PROVE  Decision(n) \in DecisionRows /\ Founded(Decision(n))
<1>1. n \in Nat /\ listings[n] \in Listed /\ DOMAIN scores \subseteq Nat
  BY DEF RowsInv, DisplayTypes
<1>2. PICK k \in DOMAIN scores :
          Finest(n) = {k} /\ scores[k].listing = n /\ scores[k].kind = "match"
  BY FinestIs
<1> DEFINE l == listings[n]
           d == Decision(n)
<1>3. /\ d.listing = n /\ d.by = Finest(n) /\ d.bucket = Route(Case(l))
      /\ d.codes = Vetoes(Case(l)) \cup {Route(Case(l))}
  BY DEF Decision
<1>4. Founded(d)
  <2> HIDE DEF d
  <2>1. /\ d.bucket = "real" => l.match.lower >= 900 /\ l.auth.lower >= 800
        /\ d.bucket = "possibly_real" => l.match.lower >= 450
    BY <1>1, <1>3, RoutedCase
  <2> QED
    BY <1>2, <1>3, <2>1 DEF Founded
<1>5. d \in DecisionRows
  <2>1. Finest(n) \in SUBSET Nat
    BY <1>1, <1>2
  <2>2. Route(Case(l)) \in Buckets /\ Vetoes(Case(l)) \cup {Route(Case(l))} \in SUBSET Codes
    BY VerdictBuckets, VerdictCodes
  <2>3. /\ l.match.hard \cup l.auth.hard \cup l.against \in SUBSET STRING
        /\ l.auth.missing \cup l.missing \in SUBSET STRING
        /\ l.support \in SUBSET STRING /\ l.compared \in SUBSET STRING
    BY <1>1, ListedIs
  <2> QED
    BY <1>1, <2>1, <2>2, <2>3 DEF Decision, DecisionRows
<1> QED
  BY <1>4, <1>5

LEMMA DecidedStep == ASSUME RowsInv, Decides PROVE RowsInv'
<1>1. CASE decisions' = decisions
  <2>1. UNCHANGED <<listings, scores, decisions, results, lap, purged>>
        /\ phase' \in Phases \ {"match"} /\ ~purged
    BY <1>1 DEF Decides
  <2>2. DisplayTypes'
    BY <2>1 DEF RowsInv, DisplayTypes
  <2>3. ResultsHold'
    BY <2>1 DEF RowsInv, ResultsHold
  <2> QED
    BY <2>1, <2>2, <2>3, ScoresStand, DecisionsStand DEF RowsInv
<1>2. CASE decisions # <<>>
  BY <1>1, <1>2 DEF Decides, Decide
<1>3. CASE decisions = <<>>
  <2> DEFINE N == {n \in DOMAIN listings : Finest(n) # {} /\ HasScore(n, "auth")}
             ready == InOrder(N)
  <2>1. decisions' = [k \in DOMAIN ready |-> Decision(ready[k])]
    BY <1>3 DEF Decides, Decide
  <2>2. ready \in Seq(N)
    <3>1. Len(listings) \in Nat /\ DOMAIN listings = 1..Len(listings)
      BY DEF RowsInv, DisplayTypes
    <3>2. N \in SUBSET (1..Len(listings))
      BY <3>1
    <3> HIDE DEF N
    <3> QED
      BY <3>1, <3>2, InOrderIs
  <2> HIDE DEF ready
  <2>3. Len(ready) \in Nat /\ DOMAIN ready = 1..Len(ready) /\ \A k \in DOMAIN ready : ready[k] \in N
    BY <2>2
  <2>4. \A k \in DOMAIN ready : Decision(ready[k]) \in DecisionRows /\ Founded(Decision(ready[k]))
    BY <2>3, DecisionIs
  <2>5. decisions' \in Seq(DecisionRows) /\ DOMAIN decisions' = DOMAIN ready
    <3>1. decisions' \in [1..Len(ready) -> DecisionRows]
      BY <2>1, <2>3, <2>4
    <3> QED
      BY <2>3, <3>1
  <2>6. results = <<>> /\ DOMAIN results = {}
    <3>1. DOMAIN decisions = {} /\ results \in Seq(ResultRows)
      BY <1>3, EmptySequence DEF RowsInv, DisplayTypes
    <3>2. DOMAIN results = {}
      BY <3>1 DEF RowsInv, ResultsHold
    <3> QED
      BY <3>1, <3>2
  <2>7. UNCHANGED <<listings, scores, results, lap, purged>>
        /\ phase' \in Phases \ {"match"} /\ ~purged
    BY DEF Decides
  <2>8. DisplayTypes'
    BY <2>5, <2>7 DEF RowsInv, DisplayTypes
  <2>9. ScoresRight' /\ MatchedOnce' /\ BroadDone'
    BY <2>7, ScoresStand DEF RowsInv
  <2>10. DecisionsHold'
    <3>1. ASSUME NEW k \in DOMAIN decisions' PROVE Founded(decisions[k])'
      <4>1. decisions'[k] = Decision(ready[k]) /\ Founded(Decision(ready[k]))
        BY <2>1, <2>4, <2>5
      <4>2. PICK d : d = Decision(ready[k])
        OBVIOUS
      <4>3. Founded(d) /\ decisions'[k] = d
        BY <4>1, <4>2
      <4> QED
        BY <2>7, <4>3 DEF Founded, HasScore
    <3> QED
      BY <3>1 DEF DecisionsHold
  <2>11. ResultsHold'
    BY <2>6, <2>7 DEF ResultsHold
  <2> QED
    BY <2>8, <2>9, <2>10, <2>11 DEF RowsInv
<1> QED
  BY <1>1, <1>2, <1>3 DEF Decides, Decide

LEMMA PublishedStep ==
    ASSUME RowsInv, Publishes
    PROVE  /\ RowsInv' /\ \E r \in ResultRows : results' = Append(results, r)
<1> DEFINE d == decisions[Len(results) + 1]
           tab == PublishedBucket(listings[d.listing].offer, d.bucket)
           r == [listing |-> d.listing, codes |-> d.codes, tab |-> tab]
<1>1. /\ results \in Seq(ResultRows) /\ Len(results) \in Nat /\ DOMAIN results = 1..Len(results)
      /\ decisions \in Seq(DecisionRows)
      /\ Len(results) + 1 \in DOMAIN decisions /\ results' = Append(results, r) /\ ~purged
      /\ UNCHANGED <<listings, decisions, scores, lap, purged, phase>>
  BY DEF RowsInv, DisplayTypes, Publishes, PublishOne
<1>2. d \in DecisionRows
  BY <1>1
<1>3. tab \in Buckets \cup {"replica"} /\ (tab \in {"real", "possibly_real"} => tab = d.bucket)
  <2>1. d.bucket \in Buckets
    BY <1>2 DEF DecisionRows
  <2> QED
    BY <2>1 DEF PublishedBucket, Buckets
<1> HIDE DEF tab
<1>4. r \in ResultRows /\ r.listing = d.listing /\ r.tab = tab
  BY <1>2, <1>3 DEF ResultRows, DecisionRows
<1>5. Follows(r, d)
  BY <1>3, <1>4 DEF Follows
<1> HIDE DEF r
<1>6. /\ results' \in Seq(ResultRows) /\ DOMAIN results' = 1..(Len(results) + 1)
      /\ \A i \in 1..Len(results) : results'[i] = results[i]
      /\ results'[Len(results) + 1] = r
  BY <1>1, <1>4
<1>7. ResultsHold'
  <2> SUFFICES ASSUME NEW i \in 1..(Len(results) + 1)
               PROVE  \E k \in DOMAIN decisions : Follows(results'[i], decisions[k])
    BY <1>1, <1>6 DEF ResultsHold
  <2>1. CASE i \in 1..Len(results)
    BY <1>1, <1>6, <2>1 DEF RowsInv, ResultsHold
  <2>2. CASE i = Len(results) + 1
    BY <1>1, <1>5, <1>6, <2>2
  <2> QED
    BY <1>1, <2>1, <2>2
<1>8. DisplayTypes'
  BY <1>1, <1>6 DEF RowsInv, DisplayTypes
<1>9. ScoresRight' /\ MatchedOnce' /\ BroadDone' /\ DecisionsHold'
  BY <1>1, ScoresStand, DecisionsStand DEF RowsInv
<1> QED
  BY <1>1, <1>4, <1>7, <1>8, <1>9 DEF RowsInv

LEMMA OtherRowsStep == ASSUME RowsInv, Proceeds \/ Reads PROVE RowsInv'
<1>1. UNCHANGED <<listings, scores, decisions, results, purged>>
      /\ (phase' = "match" => phase = "match")
  BY DEF Proceeds, Reads
<1>2. DisplayTypes'
  BY DEF Proceeds, Reads, RowsInv, DisplayTypes
<1>3. ResultsHold'
  BY <1>1 DEF RowsInv, ResultsHold
<1> QED
  BY <1>1, <1>2, <1>3, ScoresStand, DecisionsStand DEF RowsInv

LEMMA PurgedStep == ASSUME RowsInv, Purge PROVE RowsInv'
<1>1. /\ listings' = <<>> /\ scores' = <<>> /\ decisions' = <<>> /\ results' = <<>>
      /\ phase' = "over" /\ lap' = lap /\ purged' = TRUE
  BY DEF Purge
<1>2. DisplayTypes'
  BY <1>1 DEF RowsInv, DisplayTypes, Phases
<1> QED
  BY <1>1, <1>2, EmptySequence DEF RowsInv, ScoresRight, MatchedOnce, BroadDone, DecisionsHold,
     ResultsHold

LEMMA RowsInit == DisplayInit => RowsInv
<1> SUFFICES ASSUME DisplayInit PROVE RowsInv
  OBVIOUS
<1>1. DisplayTypes
  <2>1. ~purged /\ purged \in BOOLEAN
    BY Zenon DEF DisplayInit
  <2>2. listings = <<>> /\ scores = <<>> /\ decisions = <<>> /\ results = <<>>
        /\ phase = "discover" /\ lap = 1
    BY DEF DisplayInit
  <2> QED
    BY <2>1, <2>2, LapsAssumption DEF DisplayTypes, Phases
<1> QED
  BY <1>1, EmptySequence DEF DisplayInit, RowsInv, ScoresRight, MatchedOnce, BroadDone,
     DecisionsHold, ResultsHold

LEMMA RowsStep == ASSUME RowsInv, [DisplayNext]_displayVars PROVE RowsInv'
<1>1. DisplayTypes
  BY DEF RowsInv
<1> QED
  BY <1>1, WorkerSteps, FoundStep, ComparedStep, DecidedStep, PublishedStep, OtherRowsStep,
     PurgedStep

-------------------------------------------------------------------------------
(* A card *)

\* What holds of a card on a whole page.
Good(c) ==
    /\ c.by = c.decided /\ c.by # {}
    /\ c.against = {} =>
          /\ c.tab = "real" => c.match = "high" /\ c.auth = "high"
          /\ c.tab = "possibly_real" /\ c.missing = {} => c.match \in {"high", "moderate"}

LEMMA LabelIs ==
    ASSUME NEW lower \in Int, NEW lacking \in BOOLEAN
    PROVE  /\ lower >= 800 => Label(lower, FALSE, lacking) = "high"
           /\ lower >= 450 => Label(lower, FALSE, FALSE) \in {"high", "moderate"}
  BY DEF Label

\* The row a card takes its match from is the one its listing was decided by.
LEMMA MatchIsTheOne ==
    ASSUME RowsInv, NEW d, Founded(d)
    PROVE  \E k \in DOMAIN scores :
               /\ d.by = {k} /\ Chosen(d.listing, MatchKinds) = {k}
               /\ scores[k].lower = listings[d.listing].match.lower
               /\ listings[d.listing] \in Listed
<1>1. PICK k \in DOMAIN scores :
          d.by = {k} /\ scores[k].listing = d.listing /\ scores[k].kind = "match"
  BY DEF Founded
<1>2. /\ ScoreRight(k) /\ listings \in Seq(Listed) /\ IsSequence(scores)
      /\ scores \in Seq(ScoreRows) /\ \A j \in DOMAIN scores : j \in Nat
  BY DEF RowsInv, ScoresRight, DisplayTypes, IsSequence
<1>3. /\ scores[k].finer /\ scores[k].lower = listings[d.listing].match.lower
      /\ d.listing \in DOMAIN listings
  BY <1>1, <1>2 DEF ScoreRight
<1>4. listings[d.listing] \in Listed
  BY <1>2, <1>3
<1>5. k \in RowsFor(d.listing, MatchKinds)
  BY <1>1 DEF RowsFor, MatchKinds
<1>6. ASSUME NEW q \in RowsFor(d.listing, MatchKinds) PROVE q <= k
  <2>1. /\ q \in DOMAIN scores /\ scores[q].listing = d.listing
        /\ scores[q].kind \in {"broad", "match"}
    BY DEF RowsFor, MatchKinds
  <2>2. Precedes(q, k)
    BY <2>1 DEF RowsInv, MatchedOnce
  <2>3. q = k \/ q < k
    BY <1>1, <2>1, <2>2 DEF Precedes
  <2> QED
    BY <1>2, <2>1, <2>3
<1>7. Chosen(d.listing, MatchKinds) = {k}
  BY <1>2, <1>3, <1>5, <1>6, ChosenIsTheFiner
<1> QED
  BY <1>1, <1>3, <1>4, <1>7

LEMMA AuthIsOne ==
    ASSUME RowsInv, NEW d, Founded(d)
    PROVE  \E k \in DOMAIN scores :
               /\ Chosen(d.listing, {"auth"}) = {k}
               /\ scores[k].lower = listings[d.listing].auth.lower
<1>1. PICK h \in DOMAIN scores : scores[h].listing = d.listing /\ scores[h].kind = "auth"
  BY DEF Founded, HasScore
<1>2. RowsFor(d.listing, {"auth"}) # {} /\ IsSequence(scores)
  BY <1>1 DEF RowsFor, RowsInv, DisplayTypes, IsSequence
<1>3. PICK k \in RowsFor(d.listing, {"auth"}) : Chosen(d.listing, {"auth"}) = {k}
  BY <1>2, ChosenIsARow
<1>4. k \in DOMAIN scores /\ scores[k].kind = "auth" /\ scores[k].listing = d.listing
  BY DEF RowsFor
<1>5. scores[k].lower = listings[d.listing].auth.lower
  BY <1>4 DEF RowsInv, ScoresRight, ScoreRight
<1> QED
  BY <1>3, <1>4, <1>5

LEMMA CardIs ==
    ASSUME RowsInv, NEW q \in DOMAIN results, NEW rank
    PROVE  LET c == Card(results[q], rank)
           IN  /\ c.listing = results[q].listing /\ c.tab = results[q].tab /\ c.rank = rank
               /\ Good(c)
<1> DEFINE r == results[q]
           n == r.listing
           chosen == IF DecisionsFor(n) = {} THEN NoDecision
                     ELSE CHOOSE x \in DecisionsFor(n) : TRUE
           of(rows, list) == UNION {scores[k][list] : k \in rows}
           lower(rows) == scores[CHOOSE k \in rows : TRUE].lower
           match == Chosen(n, MatchKinds)
           auth == Chosen(n, {"auth"})
<1>1. PICK j \in DOMAIN decisions : Follows(r, decisions[j])
  BY DEF RowsInv, ResultsHold
<1>2. Founded(decisions[j]) /\ decisions[j].listing = n
  BY <1>1 DEF RowsInv, DecisionsHold, Follows
<1>3. decisions[j] \in DecisionsFor(n)
  BY <1>2 DEF DecisionsFor
<1>4. chosen \in DecisionsFor(n) /\ DecisionsFor(n) # {}
  BY <1>3
<1>5. Founded(chosen) /\ chosen.listing = n
  <2> HIDE DEF chosen
  <2>1. PICK i \in DOMAIN decisions : decisions[i].listing = n /\ chosen = decisions[i]
    BY <1>4 DEF DecisionsFor
  <2> QED
    BY <2>1 DEF RowsInv, DecisionsHold
<1> HIDE DEF chosen
<1>6. PICK k \in DOMAIN scores :
          /\ chosen.by = {k} /\ match = {k} /\ scores[k].lower = listings[n].match.lower
          /\ listings[n] \in Listed
  BY <1>5, MatchIsTheOne
<1>7. PICK h \in DOMAIN scores : auth = {h} /\ scores[h].lower = listings[n].auth.lower
  BY <1>5, AuthIsOne
<1> DEFINE against == Either(chosen.against, of(match, "against"))
           missing == Either(chosen.missing, of(auth, "missing"))
           there == n \in DOMAIN listings
           c == [ listing |-> n, tab |-> r.tab, rank |-> rank, decided |-> chosen.by, by |-> match,
                  match |-> IF match = {} THEN "none"
                            ELSE Label(lower(match), against # {}, missing # {}),
                  auth |-> IF auth = {} THEN "none"
                           ELSE Label(lower(auth), of(auth, "against") # {}, missing # {}),
                  live |-> IF there THEN LiveLabel(listings[n].avail) ELSE "Unknown",
                  against |-> against \cup of(auth, "against"), missing |-> missing,
                  chips |-> Either(chosen.support, missing),
                  link |-> there /\ Opens(listings[n].offer.link),
                  image |-> there /\ Shows(listings[n].image),
                  compared |-> Comparison(chosen.images, match # {},
                                          there /\ listings[n].image # "none") ]
<1>8. Card(r, rank) = c
  BY DEF Card, chosen
<1>9. lower(match) = listings[n].match.lower /\ lower(auth) = listings[n].auth.lower
      /\ match # {} /\ auth # {} /\ lower(match) \in Int /\ lower(auth) \in Int
  BY <1>6, <1>7, ListedIs
<1> HIDE DEF match, auth, of, lower
<1>10. /\ c.listing = n /\ c.tab = r.tab /\ c.rank = rank /\ c.by = match /\ c.decided = chosen.by
       /\ c.against = against \cup of(auth, "against") /\ c.missing = missing
       /\ c.match = Label(lower(match), against # {}, missing # {})
       /\ c.auth = Label(lower(auth), of(auth, "against") # {}, missing # {})
  BY <1>9, Zenon
<1> HIDE DEF c, against, missing, n, there
<1>11. /\ r.tab = "real" => lower(match) >= 800 /\ lower(auth) >= 800
       /\ r.tab = "possibly_real" => lower(match) >= 450
  <2>1. r.tab \in {"real", "possibly_real"} => r.tab = decisions[j].bucket
    BY <1>1 DEF Follows
  <2>2. /\ decisions[j].bucket = "real" => lower(match) >= 900 /\ lower(auth) >= 800
        /\ decisions[j].bucket = "possibly_real" => lower(match) >= 450
    BY <1>2, <1>9 DEF Founded
  <2> HIDE DEF r
  <2> QED
    BY <1>9, <2>1, <2>2
<1>12. ASSUME c.against = {}
       PROVE  /\ c.tab = "real" => c.match = "high" /\ c.auth = "high"
              /\ c.tab = "possibly_real" /\ c.missing = {} => c.match \in {"high", "moderate"}
  <2>1. (against # {}) = FALSE /\ (of(auth, "against") # {}) = FALSE
    BY <1>10, <1>12
  <2>2. (missing # {}) \in BOOLEAN /\ (missing = {} => (missing # {}) = FALSE)
    OBVIOUS
  <2>3. /\ c.match = Label(lower(match), FALSE, missing # {})
        /\ c.auth = Label(lower(auth), FALSE, missing # {})
    BY <1>10, <2>1, Zenon
  <2>4. PICK lacking \in BOOLEAN :
            /\ c.match = Label(lower(match), FALSE, lacking)
            /\ c.auth = Label(lower(auth), FALSE, lacking)
            /\ missing = {} => lacking = FALSE
    BY <2>2, <2>3, Zenon
  <2>5. c.tab = "real" => c.match = "high" /\ c.auth = "high"
    <3> SUFFICES ASSUME c.tab = "real" PROVE c.match = "high" /\ c.auth = "high"
      OBVIOUS
    <3>1. lower(match) \in Int /\ lower(auth) \in Int /\ lower(match) >= 800 /\ lower(auth) >= 800
      BY <1>9, <1>10, <1>11
    <3>2. Label(lower(match), FALSE, lacking) = "high" /\ Label(lower(auth), FALSE, lacking) = "high"
      BY <2>4, <3>1, LabelIs
    <3> QED
      BY <2>4, <3>2, Zenon
  <2>6. ASSUME c.tab = "possibly_real", c.missing = {} PROVE c.match \in {"high", "moderate"}
    <3>1. c.match = Label(lower(match), FALSE, FALSE)
      BY <1>10, <2>4, <2>6, Zenon
    <3>2. lower(match) >= 450
      BY <1>10, <1>11, <2>6
    <3> QED
      BY <1>9, <3>1, <3>2, LabelIs
  <2> QED
    BY <2>5, <2>6
<1>13. c.by = c.decided /\ c.by # {}
  BY <1>6, <1>9, <1>10
<1>14. Good(c)
  BY <1>12, <1>13 DEF Good
<1> QED
  BY <1>8, <1>10, <1>14 DEF n

-------------------------------------------------------------------------------
(* The pages, of a sequence of results *)

PageTabs == {"real", "possibly_real", "hidden"}
OfTab(rows, tab) == {n \in DOMAIN rows : rows[n].tab = tab}
UpTo(rows, L) == {n \in 1..L : rows[n].tab \in Tabs}

\* The place of a result among those of its tab, and a card that stands for it.
PlaceInTab(rows, q) == 1 + Cardinality({p \in 1..(q - 1) : rows[p].tab = rows[q].tab})
Fits(rows, c, q) ==
    c.listing = rows[q].listing /\ c.tab = rows[q].tab /\ c.rank = PlaceInTab(rows, q)

\* What holds of a whole page, whatever comes later.
PageGood(page) ==
    /\ \A c \in Cards(page) : Good(c)
    /\ page.counts \in [PageTabs -> Nat]
    /\ \A tab \in {"real", "possibly_real"} :
           Cardinality({c \in Cards(page) : c.tab = tab}) <= page.counts[tab]

\* What the rows still say of a page: its cards are among the first L results.
PageHolds(rows, page, L) ==
    /\ \A tab \in PageTabs : page.counts[tab] <= Cardinality(OfTab(rows, tab))
    /\ page.kind = "list" => \A c \in Cards(page) : \E q \in UpTo(rows, L) : Fits(rows, c, q)

\* A later page takes nothing back.
Keeps(page, later) ==
    /\ \A tab \in PageTabs : page.counts[tab] <= later.counts[tab]
    /\ page.kind = "list" /\ later.kind = "list" =>
           \A c \in Cards(page) : \E d \in Cards(later) :
               d.listing = c.listing /\ d.tab = c.tab /\ d.rank = c.rank

WholeOf(shelf) == {k \in DOMAIN shelf : ~shelf[k].torn}

ListShape(v) ==
    v.kind = "list" =>
        /\ v = [kind |-> "list", todo |-> v.todo, cards |-> v.cards]
        /\ v.todo \in Seq(ResultRows) /\ IsSequence(v.cards)

\* A list that is put together was opened when there were L results; its cards stand for
\* the first of what they show, and what is to do is the rest of it.
OpenedAt(rows, v, shelf, L) ==
    LET f == InOrder(UpTo(rows, L))
        m == Len(v.cards)
    IN  /\ m + Len(v.todo) = Len(f)
        /\ \A i \in 1..m : Fits(rows, v.cards[i], f[i]) /\ Good(v.cards[i])
        /\ \A i \in 1..Len(v.todo) : v.todo[i] = rows[f[m + i]]
        /\ \A k \in WholeOf(shelf) : PageHolds(rows, shelf[k], L)

PagesAre(rows, v, shelf, gone) ==
    /\ IsSequence(shelf) /\ ListShape(v)
    /\ \A k \in WholeOf(shelf) : PageGood(shelf[k])
    /\ \A j, k \in WholeOf(shelf) : j < k => Keeps(shelf[j], shelf[k])
    /\ gone \/ \A k \in WholeOf(shelf) : PageHolds(rows, shelf[k], Len(rows))
    /\ gone \/ v.kind # "list" \/ \E L \in 0..Len(rows) : OpenedAt(rows, v, shelf, L)
PagesInv == PagesAre(results, view, delivered, purged)

LEMMA OfTabIs ==
    ASSUME NEW rows \in Seq(ResultRows), NEW tab
    PROVE  IsFiniteSet(OfTab(rows, tab)) /\ Cardinality(OfTab(rows, tab)) \in Nat
<1>1. DOMAIN rows = 1..Len(rows) /\ Len(rows) \in Nat
  OBVIOUS
<1>2. IsFiniteSet(DOMAIN rows)
  BY <1>1, FS_Interval
<1>3. OfTab(rows, tab) \subseteq DOMAIN rows
  BY DEF OfTab
<1> QED
  BY <1>2, <1>3, FS_Subset, FS_CardinalityType

LEMMA UpToIs ==
    ASSUME NEW rows \in Seq(ResultRows), NEW L \in 0..Len(rows)
    PROVE  LET f == InOrder(UpTo(rows, L))
           IN  /\ Len(f) \in Nat /\ DOMAIN f = 1..Len(f) /\ f \in Seq(UpTo(rows, L))
               /\ \A i \in 1..Len(f) : f[i] \in UpTo(rows, L)
               /\ \A i, j \in 1..Len(f) : i < j => f[i] < f[j]
               /\ \A i, j \in 1..Len(f) : f[i] = f[j] => i = j
               /\ \A q \in UpTo(rows, L) : \E i \in 1..Len(f) : f[i] = q
<1> DEFINE f == InOrder(UpTo(rows, L))
<1>1. DOMAIN rows = 1..Len(rows) /\ Len(rows) \in Nat
  OBVIOUS
<1>2. UpTo(rows, L) \in SUBSET (1..Len(rows))
  BY <1>1 DEF UpTo
<1>3. /\ f \in Seq(UpTo(rows, L)) /\ Len(f) = Cardinality(UpTo(rows, L))
      /\ Cardinality(UpTo(rows, L)) \in Nat
      /\ \A i, j \in 1..Cardinality(UpTo(rows, L)) : i < j => f[i] < f[j]
      /\ \A i, j \in 1..Cardinality(UpTo(rows, L)) : f[i] = f[j] => i = j
      /\ \A q \in UpTo(rows, L) : \E i \in 1..Cardinality(UpTo(rows, L)) : f[i] = q
  BY <1>1, <1>2, InOrderIs
<1> HIDE DEF f
<1>4. DOMAIN f = 1..Len(f) /\ \A i \in 1..Len(f) : f[i] \in UpTo(rows, L)
  BY <1>3
<1> QED
  BY <1>3, <1>4 DEF f

\* A result that comes changes nothing of those that are there.
LEMMA Grows ==
    ASSUME NEW rows \in Seq(ResultRows), NEW r \in ResultRows
    PROVE  LET more == Append(rows, r)
           IN  /\ Len(more) = Len(rows) + 1 /\ Len(rows) \in Nat
               /\ \A L \in 0..Len(rows) :
                     UpTo(more, L) = UpTo(rows, L) /\ UpTo(rows, L) \subseteq UpTo(more, Len(more))
               /\ \A q \in DOMAIN rows :
                     more[q] = rows[q] /\ \A c : Fits(rows, c, q) => Fits(more, c, q)
               /\ \A tab : Cardinality(OfTab(rows, tab)) <= Cardinality(OfTab(more, tab))
<1> DEFINE more == Append(rows, r)
<1>1. /\ Len(rows) \in Nat /\ DOMAIN rows = 1..Len(rows)
      /\ more \in Seq(ResultRows) /\ Len(more) = Len(rows) + 1
      /\ DOMAIN more = 1..(Len(rows) + 1)
      /\ \A q \in 1..Len(rows) : more[q] = rows[q]
  OBVIOUS
<1> HIDE DEF more
<1>2. ASSUME NEW L \in 0..Len(rows)
      PROVE  UpTo(more, L) = UpTo(rows, L) /\ UpTo(rows, L) \subseteq UpTo(more, Len(more))
  <2>1. \A q \in 1..L : q \in 1..Len(rows) /\ q \in 1..Len(more)
    BY <1>1
  <2> QED
    BY <1>1, <2>1 DEF UpTo
<1>3. ASSUME NEW q \in DOMAIN rows, NEW c, Fits(rows, c, q) PROVE Fits(more, c, q)
  <2>1. more[q] = rows[q] /\ \A p \in 1..(q - 1) : more[p] = rows[p]
    BY <1>1
  <2>2. {p \in 1..(q - 1) : more[p].tab = more[q].tab}
        = {p \in 1..(q - 1) : rows[p].tab = rows[q].tab}
    BY <2>1
  <2> QED
    BY <1>3, <2>1, <2>2 DEF Fits, PlaceInTab
<1>4. ASSUME NEW tab PROVE Cardinality(OfTab(rows, tab)) <= Cardinality(OfTab(more, tab))
  <2>1. OfTab(rows, tab) \subseteq OfTab(more, tab)
    BY <1>1 DEF OfTab
  <2>2. IsFiniteSet(OfTab(more, tab))
    BY <1>1, OfTabIs
  <2> QED
    BY <2>1, <2>2, FS_Subset
<1> QED
  BY <1>1, <1>2, <1>3, <1>4 DEF more

LEMMA PageStillHolds ==
    ASSUME NEW rows \in Seq(ResultRows), NEW r \in ResultRows, NEW page, PageGood(page),
           NEW L \in 0..Len(rows), PageHolds(rows, page, L)
    PROVE  LET more == Append(rows, r)
           IN  PageHolds(more, page, L) /\ PageHolds(more, page, Len(more))
<1> DEFINE more == Append(rows, r)
<1>1. /\ Len(rows) \in Nat /\ DOMAIN rows = 1..Len(rows) /\ more \in Seq(ResultRows)
      /\ UpTo(more, L) = UpTo(rows, L) /\ UpTo(rows, L) \subseteq UpTo(more, Len(more))
      /\ \A q \in DOMAIN rows : \A c : Fits(rows, c, q) => Fits(more, c, q)
      /\ \A tab : Cardinality(OfTab(rows, tab)) <= Cardinality(OfTab(more, tab))
  BY Grows
<1> HIDE DEF more
<1>2. ASSUME NEW tab \in PageTabs PROVE page.counts[tab] <= Cardinality(OfTab(more, tab))
  <2>1. page.counts[tab] \in Nat /\ page.counts[tab] <= Cardinality(OfTab(rows, tab))
    BY DEF PageGood, PageHolds
  <2>2. /\ Cardinality(OfTab(rows, tab)) \in Nat /\ Cardinality(OfTab(more, tab)) \in Nat
        /\ Cardinality(OfTab(rows, tab)) <= Cardinality(OfTab(more, tab))
    BY <1>1, OfTabIs
  <2> QED
    BY <2>1, <2>2
<1>3. \A q \in UpTo(rows, L) : q \in DOMAIN rows
  BY <1>1 DEF UpTo
<1>4. ASSUME page.kind = "list", NEW c \in Cards(page)
      PROVE  \E q \in UpTo(rows, L) : Fits(more, c, q)
  <2>1. PICK q \in UpTo(rows, L) : Fits(rows, c, q)
    BY <1>4 DEF PageHolds
  <2> QED
    BY <1>1, <1>3, <2>1
<1>5. PageHolds(more, page, L)
  BY <1>1, <1>2, <1>4 DEF PageHolds
<1>6. PageHolds(more, page, Len(more))
  BY <1>1, <1>2, <1>4 DEF PageHolds
<1> QED
  BY <1>5, <1>6 DEF more

LEMMA PagesGrow ==
    ASSUME NEW rows \in Seq(ResultRows), NEW r \in ResultRows, NEW v, NEW shelf,
           NEW gone \in BOOLEAN, PagesAre(rows, v, shelf, gone)
    PROVE  PagesAre(Append(rows, r), v, shelf, gone)
<1> DEFINE more == Append(rows, r)
<1>1. /\ Len(rows) \in Nat /\ DOMAIN rows = 1..Len(rows) /\ Len(more) = Len(rows) + 1
      /\ \A L \in 0..Len(rows) : UpTo(more, L) = UpTo(rows, L)
      /\ \A q \in DOMAIN rows : more[q] = rows[q] /\ \A c : Fits(rows, c, q) => Fits(more, c, q)
  BY Grows
<1>2. /\ IsSequence(shelf) /\ ListShape(v) /\ \A k \in WholeOf(shelf) : PageGood(shelf[k])
      /\ \A j, k \in WholeOf(shelf) : j < k => Keeps(shelf[j], shelf[k])
  BY DEF PagesAre
<1>3. ASSUME NEW L \in 0..Len(rows), NEW k \in WholeOf(shelf), PageHolds(rows, shelf[k], L)
      PROVE  PageHolds(more, shelf[k], L) /\ PageHolds(more, shelf[k], Len(more))
  BY <1>2, <1>3, PageStillHolds
<1> HIDE DEF more
<1>4. ASSUME ~gone, NEW k \in WholeOf(shelf) PROVE PageHolds(more, shelf[k], Len(more))
  <2>1. PageHolds(rows, shelf[k], Len(rows)) /\ Len(rows) \in 0..Len(rows)
    BY <1>1, <1>4 DEF PagesAre
  <2> QED
    BY <1>3, <2>1
<1>5. ASSUME ~gone, v.kind = "list" PROVE \E L \in 0..Len(more) : OpenedAt(more, v, shelf, L)
  <2>1. PICK L \in 0..Len(rows) : OpenedAt(rows, v, shelf, L)
    BY <1>5 DEF PagesAre
  <2> DEFINE f == InOrder(UpTo(rows, L))
  <2>2. UpTo(more, L) = UpTo(rows, L) /\ L \in 0..Len(more)
    BY <1>1
  <2>3. \A i \in 1..Len(f) : f[i] \in UpTo(rows, L)
    BY UpToIs
  <2>4. /\ Len(v.cards) + Len(v.todo) = Len(f) /\ IsSequence(v.cards)
        /\ v.todo \in Seq(ResultRows)
        /\ \A i \in 1..Len(v.cards) : Fits(rows, v.cards[i], f[i]) /\ Good(v.cards[i])
        /\ \A i \in 1..Len(v.todo) : v.todo[i] = rows[f[Len(v.cards) + i]]
        /\ \A k \in WholeOf(shelf) : PageHolds(rows, shelf[k], L)
    BY <1>2, <1>5, <2>1 DEF OpenedAt, ListShape
  <2> HIDE DEF f
  <2>5. PICK m \in Nat, t \in Nat : Len(v.cards) = m /\ Len(v.todo) = t /\ Len(f) = m + t
    <3>1. Len(v.cards) \in Nat /\ Len(v.todo) \in Nat
      BY <2>4, Appended
    <3> QED
      BY <2>4, <3>1
  <2>6. \A i \in 1..Len(f) : f[i] \in DOMAIN rows
    BY <1>1, <2>3 DEF UpTo
  <2>7. ASSUME NEW i \in 1..Len(v.cards) PROVE Fits(more, v.cards[i], f[i])
    <3>1. i \in 1..Len(f)
      BY <2>5
    <3>2. f[i] \in DOMAIN rows /\ Fits(rows, v.cards[i], f[i])
      BY <2>4, <2>6, <3>1
    <3> QED
      BY <1>1, <3>2
  <2>8. ASSUME NEW i \in 1..Len(v.todo) PROVE v.todo[i] = more[f[Len(v.cards) + i]]
    <3>1. i \in 1..t /\ m + i \in 1..Len(f)
      BY <2>5
    <3>2. f[m + i] \in DOMAIN rows /\ v.todo[i] = rows[f[m + i]]
      BY <2>4, <2>5, <2>6, <3>1
    <3> QED
      BY <1>1, <2>5, <3>2
  <2>9. \A k \in WholeOf(shelf) : PageHolds(more, shelf[k], L)
    BY <1>3, <2>4
  <2> QED
    BY <2>2, <2>4, <2>7, <2>8, <2>9 DEF OpenedAt, f
<1> QED
  BY <1>2, <1>4, <1>5 DEF PagesAre, more

-------------------------------------------------------------------------------
(* The steps of a view *)

\* Nothing is delivered: the rows and what is in hand may have changed.
LEMMA RowsGone ==
    ASSUME NEW rows, NEW others, NEW v, NEW shelf, NEW gone, PagesAre(rows, v, shelf, gone)
    PROVE  PagesAre(others, v, shelf, TRUE)
  BY DEF PagesAre

LEMMA ViewOf ==
    ASSUME NEW rows, NEW v, NEW w, NEW shelf, NEW gone, PagesAre(rows, v, shelf, gone),
           w.kind # "list"
    PROVE  PagesAre(rows, w, shelf, gone)
  BY DEF PagesAre, ListShape

LEMMA ListOpens ==
    ASSUME RowsInv, PagesInv, OpenList
    PROVE  PagesAre(results, view', delivered, purged)
<1> DEFINE L == Len(results)
           f == InOrder(UpTo(results, L))
<1>1. results \in Seq(ResultRows) /\ L \in Nat /\ DOMAIN results = 1..L /\ L \in 0..L
  BY DEF RowsInv, DisplayTypes
<1>2. Shown = UpTo(results, L)
  BY <1>1 DEF Shown, UpTo
<1>3. /\ Len(f) \in Nat /\ DOMAIN f = 1..Len(f)
      /\ \A i \in 1..Len(f) : f[i] \in UpTo(results, L)
  BY <1>1, UpToIs
<1>4. view' = [kind |-> "list", todo |-> Public, cards |-> <<>>] /\ ~purged
  BY DEF OpenList
<1>5. Public = [i \in DOMAIN f |-> results[f[i]]]
  BY <1>2 DEF Public, Rows
<1> HIDE DEF f
<1>6. \A i \in 1..Len(f) : results[f[i]] \in ResultRows
  BY <1>1, <1>3 DEF UpTo
<1>7. Public \in Seq(ResultRows) /\ Len(Public) = Len(f)
      /\ \A i \in 1..Len(f) : Public[i] = results[f[i]]
  <2>1. Public \in [1..Len(f) -> ResultRows]
    BY <1>3, <1>5, <1>6
  <2> QED
    BY <1>3, <1>5, <2>1
<1>8. view'.kind = "list" /\ view'.todo = Public /\ view'.cards = <<>>
  BY <1>4
<1>9. ListShape(view')
  BY <1>4, <1>7, <1>8, EmptySequence DEF ListShape
<1>10. \A k \in WholeOf(delivered) : PageHolds(results, delivered[k], L)
  BY <1>4 DEF PagesInv, PagesAre
<1>11. OpenedAt(results, view', delivered, L)
  <2>1. Len(view'.cards) = 0 /\ Len(view'.todo) = Len(f)
    BY <1>7, <1>8, EmptySequence
  <2>2. \A i \in 1..Len(view'.todo) : view'.todo[i] = results[f[0 + i]]
    BY <1>3, <1>7, <1>8
  <2> QED
    BY <1>3, <1>10, <2>1, <2>2 DEF OpenedAt, f
<1> QED
  BY <1>1, <1>4, <1>9, <1>11 DEF PagesInv, PagesAre

\* The cards of what is shown of the first L results, up to the m-th of them.
CardsBefore(rows, L, cards, m) ==
    LET f == InOrder(UpTo(rows, L))
    IN  /\ m \in 1..Len(f) /\ DOMAIN cards = 1..(m - 1)
        /\ \A i \in 1..(m - 1) : cards[i].tab = rows[f[i]].tab

\* The card that is added is ranked where its result is in its tab.
LEMMA RankIsPlace ==
    ASSUME NEW rows \in Seq(ResultRows), NEW L \in 0..Len(rows), NEW cards, NEW m,
           CardsBefore(rows, L, cards, m)
    PROVE  LET q == InOrder(UpTo(rows, L))[m]
           IN  Cardinality({k \in DOMAIN cards : cards[k].tab = rows[q].tab})
               = Cardinality({p \in 1..(q - 1) : rows[p].tab = rows[q].tab})
<1> DEFINE f == InOrder(UpTo(rows, L))
<1>. m \in 1..Len(f) /\ DOMAIN cards = 1..(m - 1)
     /\ \A i \in 1..(m - 1) : cards[i].tab = rows[f[i]].tab
  BY DEF CardsBefore
<1> DEFINE S == {k \in DOMAIN cards : cards[k].tab = rows[f[m]].tab}
           T == {p \in 1..(f[m] - 1) : rows[p].tab = rows[f[m]].tab}
           g == [k \in S |-> f[k]]
<1>0. /\ Len(f) \in Nat /\ \A i \in 1..Len(f) : f[i] \in UpTo(rows, L)
      /\ \A i, j \in 1..Len(f) : i < j => f[i] < f[j]
      /\ \A i, j \in 1..Len(f) : f[i] = f[j] => i = j
      /\ \A q \in UpTo(rows, L) : \E i \in 1..Len(f) : f[i] = q
  BY UpToIs, Zenon
<1> HIDE DEF f
<1>1. Len(rows) \in Nat /\ m \in Nat /\ L \in Nat
  BY <1>0
<1>2. \A q \in UpTo(rows, L) : q \in 1..L /\ rows[q].tab \in Tabs
  BY DEF UpTo
<1>3. f[m] \in 1..L /\ rows[f[m]].tab \in Tabs
  BY <1>0, <1>1, <1>2
<1>4. \A k \in S : k \in 1..(m - 1) /\ k \in 1..Len(f) /\ f[k] < f[m] /\ f[k] \in 1..L
  BY <1>0, <1>1, <1>2
<1>5. \A k \in S : g[k] = f[k] /\ g[k] \in T
  BY <1>3, <1>4
<1>6. ASSUME NEW p \in T PROVE \E k \in S : g[k] = p
  <2>1. p \in 1..(f[m] - 1) /\ rows[p].tab = rows[f[m]].tab
    OBVIOUS
  <2>2. p \in UpTo(rows, L) /\ p < f[m]
    BY <1>1, <1>3, <2>1 DEF UpTo
  <2>3. PICK k \in 1..Len(f) : f[k] = p
    BY <1>0, <2>2
  <2>4. k < m
    <3>1. CASE k = m
      BY <1>3, <2>2, <2>3, <3>1
    <3>2. CASE m < k
      <4>1. f[m] < f[k]
        BY <1>0, <1>1, <3>2
      <4> QED
        BY <1>3, <2>2, <2>3, <4>1 DEF UpTo
    <3> QED
      BY <1>0, <1>1, <3>1, <3>2
  <2>5. k \in 1..(m - 1)
    BY <1>0, <1>1, <2>4
  <2>6. k \in S
    BY <2>1, <2>3, <2>5
  <2> QED
    BY <1>5, <2>3, <2>6
<1>7. g \in Bijection(S, T)
  <2>1. g \in [S -> T]
    BY <1>5
  <2>2. \A j, k \in S : g[j] = g[k] => j = k
    BY <1>0, <1>4, <1>5
  <2> HIDE DEF g, S, T
  <2>3. g \in Injection(S, T)
    BY <2>1, <2>2 DEF Injection, IsInjective
  <2>4. g \in Surjection(S, T)
    BY <1>6, <2>1 DEF Surjection
  <2> QED
    BY <2>3, <2>4 DEF Bijection
<1>8. IsFiniteSet(S)
  <2>1. IsFiniteSet(1..(m - 1)) /\ S \subseteq 1..(m - 1)
    BY <1>1, FS_Interval
  <2> HIDE DEF S
  <2> QED
    BY <2>1, FS_Subset
<1> HIDE DEF S, T, g
<1>9. Cardinality(S) = Cardinality(T)
  BY <1>7, <1>8, FS_Bijection DEF ExistsBijection
<1> QED
  BY <1>9 DEF S, T, f

LEMMA CardIsAdded ==
    ASSUME RowsInv, PagesInv, AddCard, ~purged
    PROVE  PagesAre(results, view', delivered, purged)
<1>1. results \in Seq(ResultRows) /\ Len(results) \in Nat /\ DOMAIN results = 1..Len(results)
  BY DEF RowsInv, DisplayTypes
<1>2. /\ view = [kind |-> "list", todo |-> view.todo, cards |-> view.cards]
      /\ view.kind = "list" /\ view.todo \in Seq(ResultRows) /\ IsSequence(view.cards)
      /\ view.todo # <<>>
  BY DEF AddCard, PagesInv, PagesAre, ListShape
<1>3. PICK L \in 0..Len(results) : OpenedAt(results, view, delivered, L)
  BY <1>2 DEF PagesInv, PagesAre
<1> DEFINE f == InOrder(UpTo(results, L))
           r == Head(view.todo)
           rank == 1 + Cardinality({k \in DOMAIN view.cards : view.cards[k].tab = r.tab})
           c == Card(r, rank)
<1>4. /\ \A i \in 1..Len(view.cards) : Fits(results, view.cards[i], f[i]) /\ Good(view.cards[i])
      /\ \A i \in 1..Len(view.todo) : view.todo[i] = results[f[Len(view.cards) + i]]
      /\ Len(view.cards) + Len(view.todo) = Len(f)
      /\ \A k \in WholeOf(delivered) : PageHolds(results, delivered[k], L)
  BY <1>3 DEF OpenedAt
<1>5. Len(f) \in Nat /\ \A i \in 1..Len(f) : f[i] \in DOMAIN results
  <2>1. \A i \in 1..Len(f) : f[i] \in UpTo(results, L)
    BY <1>1, UpToIs
  <2>2. Len(f) \in Nat
    BY <1>1, UpToIs
  <2> HIDE DEF f
  <2> QED
    BY <1>1, <2>1, <2>2 DEF UpTo
<1>6. view' = [kind |-> "list", todo |-> Tail(view.todo), cards |-> Append(view.cards, c)]
  <2>1. view' = [view EXCEPT !.todo = Tail(@), !.cards = Append(@, c)]
    BY DEF AddCard
  <2> HIDE DEF c
  <2> QED
    BY <1>2, <2>1
<1> HIDE DEF f
<1>7. PICK m \in Nat, t \in Nat : Len(view.cards) = m /\ Len(view.todo) = t /\ Len(f) = m + t
  <2>1. Len(view.cards) \in Nat /\ Len(view.todo) \in Nat
    BY <1>2, Appended
  <2> QED
    BY <1>4, <2>1
<1>8. t > 0 /\ r = view.todo[1] /\ Tail(view.todo) \in Seq(ResultRows)
      /\ Len(Tail(view.todo)) = t - 1 /\ \A i \in 1..(t - 1) : Tail(view.todo)[i] = view.todo[i + 1]
  BY <1>2, <1>7
<1>9. m + 1 \in 1..Len(f) /\ 1 \in 1..t
  BY <1>7, <1>8
<1>10. r = results[f[m + 1]] /\ f[m + 1] \in DOMAIN results
  BY <1>4, <1>5, <1>7, <1>8, <1>9
<1> HIDE DEF r
<1>11. rank = PlaceInTab(results, f[m + 1])
  <2>1. PICK p \in 1..Len(f) : p = m + 1
    BY <1>9
  <2>2. DOMAIN view.cards = 1..(p - 1)
    BY <1>2, <1>7, <2>1, Appended
  <2>3. ASSUME NEW i \in 1..(p - 1) PROVE view.cards[i].tab = results[f[i]].tab
    BY <1>4, <1>7, <2>1 DEF Fits
  <2>4. CardsBefore(results, L, view.cards, p)
    BY <2>1, <2>2, <2>3 DEF CardsBefore, f
  <2>5. Cardinality({k \in DOMAIN view.cards : view.cards[k].tab = results[f[p]].tab})
        = Cardinality({q \in 1..(f[p] - 1) : results[q].tab = results[f[p]].tab})
    BY <1>1, <2>4, RankIsPlace DEF f
  <2> QED
    BY <1>10, <2>1, <2>5 DEF PlaceInTab, rank
<1> HIDE DEF rank
<1>12. Fits(results, c, f[m + 1]) /\ Good(c)
  BY <1>10, <1>11, CardIs DEF Fits
<1> HIDE DEF c
<1> DEFINE cards == Append(view.cards, c)
           rest == Tail(view.todo)
<1>13. /\ IsSequence(cards) /\ Len(cards) = m + 1
       /\ \A i \in 1..m : cards[i] = view.cards[i]
       /\ cards[m + 1] = c
  BY <1>2, <1>7, Appended
<1>14. view'.kind = "list" /\ view'.todo = rest /\ view'.cards = cards
  BY <1>6
<1> HIDE DEF cards, rest
<1>15. ListShape(view')
  BY <1>6, <1>8, <1>13, <1>14 DEF ListShape, cards, rest
<1>16. ASSUME NEW i \in 1..(m + 1) PROVE Fits(results, cards[i], f[i]) /\ Good(cards[i])
  <2>1. CASE i \in 1..m
    BY <1>4, <1>7, <1>13, <2>1
  <2>2. CASE i = m + 1
    BY <1>12, <1>13, <2>2
  <2> QED
    BY <2>1, <2>2
<1>17. ASSUME NEW i \in 1..(t - 1) PROVE rest[i] = results[f[(m + 1) + i]]
  <2>1. i + 1 \in 1..t /\ m + (i + 1) = (m + 1) + i
    BY <1>7
  <2>2. rest[i] = view.todo[i + 1]
    BY <1>8 DEF rest
  <2>3. view.todo[i + 1] = results[f[m + (i + 1)]]
    BY <1>4, <1>7, <2>1
  <2> QED
    BY <2>1, <2>2, <2>3
<1>18. OpenedAt(results, view', delivered, L)
  <2>1. Len(rest) = t - 1 /\ (m + 1) + (t - 1) = Len(f)
    BY <1>7, <1>8 DEF rest
  <2> QED
    BY <1>4, <1>13, <1>14, <1>16, <1>17, <2>1 DEF OpenedAt, f
<1> QED
  BY <1>14, <1>15, <1>18 DEF PagesInv, PagesAre

-------------------------------------------------------------------------------
(* A page that is delivered *)

LEMMA PageIsDelivered ==
    ASSUME NEW rows \in Seq(ResultRows), NEW v, NEW w, NEW shelf, NEW gone \in BOOLEAN,
           PagesAre(rows, v, shelf, gone), w.kind # "list", NEW page,
           page.torn \/ /\ PageGood(page) /\ PageHolds(rows, page, Len(rows)) /\ ~gone
                        /\ \A j \in WholeOf(shelf) : Keeps(shelf[j], page)
    PROVE  PagesAre(rows, w, Append(shelf, page), gone)
<1> DEFINE more == Append(shelf, page)
           P == Len(shelf)
<1>1. /\ IsSequence(shelf) /\ \A k \in WholeOf(shelf) : PageGood(shelf[k])
      /\ \A j, k \in WholeOf(shelf) : j < k => Keeps(shelf[j], shelf[k])
      /\ gone \/ \A k \in WholeOf(shelf) : PageHolds(rows, shelf[k], Len(rows))
  BY DEF PagesAre
<1>2. /\ IsSequence(more) /\ P \in Nat /\ DOMAIN shelf = 1..P /\ DOMAIN more = 1..(P + 1)
      /\ \A k \in 1..P : more[k] = shelf[k]
      /\ more[P + 1] = page
  BY <1>1, Appended
<1> HIDE DEF more, P
<1>3. ASSUME NEW k \in WholeOf(more)
      PROVE  \/ k \in WholeOf(shelf) /\ more[k] = shelf[k] /\ k \in 1..P
             \/ k = P + 1 /\ more[k] = page /\ ~page.torn
  <2>1. k \in 1..(P + 1) /\ ~more[k].torn
    BY <1>2 DEF WholeOf
  <2>2. CASE k \in 1..P
    <3>1. more[k] = shelf[k]
      BY <1>2, <2>2
    <3> QED
      BY <1>2, <2>1, <2>2, <3>1 DEF WholeOf
  <2>3. CASE k = P + 1
    BY <1>2, <2>1, <2>3
  <2> QED
    BY <1>2, <2>1, <2>2, <2>3
<1>4. ASSUME NEW k \in WholeOf(more)
      PROVE  PageGood(more[k]) /\ (gone \/ PageHolds(rows, more[k], Len(rows)))
  BY <1>1, <1>3
<1>5. ASSUME NEW j \in WholeOf(more), NEW k \in WholeOf(more), j < k PROVE Keeps(more[j], more[k])
  <2>1. j \in 1..P /\ j \in WholeOf(shelf) /\ more[j] = shelf[j]
    BY <1>2, <1>3, <1>5
  <2>2. CASE k \in WholeOf(shelf) /\ more[k] = shelf[k]
    BY <1>1, <1>5, <2>1, <2>2
  <2>3. CASE more[k] = page /\ ~page.torn
    BY <2>1, <2>3
  <2> QED
    BY <1>3, <2>2, <2>3
<1> QED
  BY <1>2, <1>4, <1>5 DEF PagesAre, ListShape, more

LEMMA CountsAre ==
    ASSUME DisplayTypes
    PROVE  /\ Counts \in [PageTabs -> Nat]
           /\ \A tab \in PageTabs : Counts[tab] = Cardinality(OfTab(results, tab))
<1>1. \A tab : Count(tab) = Cardinality(OfTab(results, tab)) /\ Count(tab) \in Nat
  BY OfTabIs DEF DisplayTypes, Count, OfTab
<1> QED
  BY <1>1 DEF Counts, PageTabs

\* What is not torn counts what there is; a page without a list shows at most one card,
\* of a result that is there.
LEMMA CountsKeep ==
    ASSUME DisplayTypes, PagesInv, ~purged, NEW page, page.counts = Counts,
           page.kind # "list", \A c \in Cards(page) : Good(c),
           \A c, d \in Cards(page) : c = d,
           \A c \in Cards(page) : \E q \in DOMAIN results : c.tab = results[q].tab
    PROVE  /\ PageGood(page) /\ PageHolds(results, page, Len(results))
           /\ \A j \in WholeOf(delivered) : Keeps(delivered[j], page)
<1>1. /\ results \in Seq(ResultRows) /\ Counts \in [PageTabs -> Nat]
      /\ \A tab \in PageTabs : Counts[tab] = Cardinality(OfTab(results, tab))
  BY CountsAre DEF DisplayTypes
<1>2. ASSUME NEW tab \in {"real", "possibly_real"}
      PROVE  Cardinality({c \in Cards(page) : c.tab = tab}) <= page.counts[tab]
  <2> DEFINE S == {c \in Cards(page) : c.tab = tab}
             T == OfTab(results, tab)
  <2>1. page.counts[tab] = Cardinality(T) /\ tab \in PageTabs
    BY <1>1 DEF PageTabs
  <2>2. IsFiniteSet(T) /\ Cardinality(T) \in Nat
    BY <1>1, OfTabIs
  <2>3. Cardinality(S) <= Cardinality(T)
    <3>1. CASE S = {}
      <4> HIDE DEF S, T
      <4>1. Cardinality(S) = 0
        BY <3>1, FS_EmptySet
      <4> QED
        BY <2>2, <4>1
    <3>2. CASE S # {}
      <4>1. PICK c \in S : TRUE
        BY <3>2
      <4>2. S = {c}
        BY <4>1
      <4>3. PICK q \in T : TRUE
        BY <4>1 DEF OfTab
      <4> HIDE DEF S, T
      <4>4. Cardinality(S) = 1
        BY <4>2, FS_Singleton
      <4>5. Cardinality({q}) <= Cardinality(T) /\ Cardinality({q}) = 1
        BY <2>2, <4>3, FS_Subset, FS_Singleton
      <4> QED
        BY <4>4, <4>5
    <3> QED
      BY <3>1, <3>2
  <2> QED
    BY <2>1, <2>3
<1>3. PageGood(page)
  BY <1>1, <1>2 DEF PageGood
<1>4. PageHolds(results, page, Len(results))
  BY <1>1 DEF PageHolds
<1>5. \A j \in WholeOf(delivered) : PageHolds(results, delivered[j], Len(results))
  BY DEF PagesInv, PagesAre
<1>6. \A j \in WholeOf(delivered) : Keeps(delivered[j], page)
  BY <1>1, <1>5 DEF PageHolds, Keeps
<1> QED
  BY <1>3, <1>4, <1>6

\* Two cards of a list are two results of its tab.
CardsOfTab(cards, tab) == {c \in {cards[k] : k \in DOMAIN cards} : c.tab = tab}

LEMMA ListCounts ==
    ASSUME NEW rows \in Seq(ResultRows), NEW cards, IsSequence(cards), NEW f, NEW tab,
           \A i \in 1..Len(cards) : f[i] \in DOMAIN rows /\ cards[i].tab = rows[f[i]].tab,
           \A i, j \in 1..Len(cards) : f[i] = f[j] => i = j
    PROVE  Cardinality(CardsOfTab(cards, tab)) <= Cardinality(OfTab(rows, tab))
<1> DEFINE S == {c \in {cards[k] : k \in DOMAIN cards} : c.tab = tab}
           T == OfTab(rows, tab)
           at(c) == CHOOSE k \in DOMAIN cards : cards[k] = c
           g == [c \in S |-> f[at(c)]]
<1>1. DOMAIN cards = 1..Len(cards)
  BY Appended
<1>2. ASSUME NEW c \in S PROVE at(c) \in 1..Len(cards) /\ cards[at(c)] = c /\ c.tab = tab
  <2>1. \E k \in DOMAIN cards : cards[k] = c
    OBVIOUS
  <2>2. at(c) \in DOMAIN cards /\ cards[at(c)] = c
    BY <2>1
  <2> QED
    BY <1>1, <2>2
<1> HIDE DEF at
<1>3. \A c \in S : g[c] = f[at(c)] /\ g[c] \in T
  BY <1>2 DEF OfTab
<1>4. \A c, d \in S : g[c] = g[d] => c = d
  BY <1>2, <1>3
<1>5. g \in [S -> T]
  BY <1>3
<1>6. IsFiniteSet(T)
  BY OfTabIs
<1> HIDE DEF S, T, g
<1>7. g \in Injection(S, T)
  BY <1>4, <1>5 DEF Injection, IsInjective
<1> QED
  BY <1>6, <1>7, FS_Injection DEF S, T, CardsOfTab

LEMMA ListIsDelivered ==
    ASSUME RowsInv, PagesInv, CloseList
    PROVE  PagesAre(results, view', delivered', purged)
<1> DEFINE page == [kind |-> "list", cards |-> view.cards, counts |-> Counts, torn |-> purged]
<1>1. /\ results \in Seq(ResultRows) /\ Len(results) \in Nat /\ DOMAIN results = 1..Len(results)
      /\ purged \in BOOLEAN
      /\ Counts \in [PageTabs -> Nat]
      /\ \A tab \in PageTabs : Counts[tab] = Cardinality(OfTab(results, tab))
  BY CountsAre DEF RowsInv, DisplayTypes
<1>2. /\ view.kind = "list" /\ view.todo = <<>> /\ delivered' = Append(delivered, page)
      /\ view' = NoView
  BY DEF CloseList
<1>3. page.kind = "list" /\ page.cards = view.cards /\ page.counts = Counts /\ page.torn = purged
  BY Zenon
<1> HIDE DEF page
<1>4. IsSequence(view.cards) /\ DOMAIN view.cards = 1..Len(view.cards) /\ Len(view.cards) \in Nat
  BY <1>2, Appended DEF PagesInv, PagesAre, ListShape
<1>5. view'.kind # "list"
  BY <1>2 DEF NoView
<1>6. ASSUME ~purged
      PROVE  /\ PageGood(page) /\ PageHolds(results, page, Len(results))
             /\ \A j \in WholeOf(delivered) : Keeps(delivered[j], page)
  <2>1. PICK L \in 0..Len(results) : OpenedAt(results, view, delivered, L)
    BY <1>2, <1>6 DEF PagesInv, PagesAre
  <2> DEFINE f == InOrder(UpTo(results, L))
  <2>2. /\ \A i \in 1..Len(view.cards) : Fits(results, view.cards[i], f[i]) /\ Good(view.cards[i])
        /\ Len(view.cards) + Len(view.todo) = Len(f)
        /\ \A k \in WholeOf(delivered) : PageHolds(results, delivered[k], L)
    BY <2>1 DEF OpenedAt
  <2>3. /\ \A i \in 1..Len(f) : f[i] \in UpTo(results, L)
        /\ \A i, j \in 1..Len(f) : f[i] = f[j] => i = j
        /\ \A q \in UpTo(results, L) : \E i \in 1..Len(f) : f[i] = q
    BY <1>1, UpToIs
  <2> HIDE DEF f
  <2>4. Len(view.cards) = Len(f)
    BY <1>2, <1>4, <2>2, EmptySequence
  <2>5. \A q \in UpTo(results, L) : q \in UpTo(results, Len(results)) /\ q \in DOMAIN results
    BY <1>1 DEF UpTo
  <2>6. \A c \in Cards(page) : \E i \in 1..Len(f) : c = view.cards[i]
    BY <1>3, <1>4, <2>4 DEF Cards
  <2>7. \A i \in 1..Len(f) : view.cards[i] \in Cards(page)
    BY <1>3, <1>4, <2>4 DEF Cards
  <2>8. PageGood(page)
    <3>1. \A c \in Cards(page) : Good(c)
      BY <2>2, <2>4, <2>6
    <3>2. \A i \in 1..Len(view.cards) :
              f[i] \in DOMAIN results /\ view.cards[i].tab = results[f[i]].tab
      BY <2>2, <2>3, <2>4, <2>5 DEF Fits
    <3>3. \A i, j \in 1..Len(view.cards) : f[i] = f[j] => i = j
      BY <2>3, <2>4
    <3>4. ASSUME NEW tab \in {"real", "possibly_real"}
          PROVE  Cardinality({c \in Cards(page) : c.tab = tab}) <= page.counts[tab]
      <4>1. {c \in Cards(page) : c.tab = tab} = CardsOfTab(view.cards, tab)
        BY <1>3 DEF Cards, CardsOfTab
      <4>2. Cardinality(CardsOfTab(view.cards, tab)) <= Cardinality(OfTab(results, tab))
        BY <1>1, <1>4, <3>2, <3>3, ListCounts
      <4>3. page.counts[tab] = Cardinality(OfTab(results, tab))
        BY <1>1, <1>3 DEF PageTabs
      <4> QED
        BY <4>1, <4>2, <4>3
    <3>5. page.counts \in [PageTabs -> Nat]
      BY <1>1, <1>3
    <3> QED
      BY <3>1, <3>4, <3>5, Zenon DEF PageGood
  <2>9. PageHolds(results, page, Len(results))
    <3>1. ASSUME NEW c \in Cards(page)
          PROVE  \E q \in UpTo(results, Len(results)) : Fits(results, c, q)
      <4>1. PICK i \in 1..Len(f) : c = view.cards[i]
        BY <2>6
      <4>2. Fits(results, c, f[i])
        BY <2>2, <2>4, <4>1
      <4> QED
        BY <2>3, <2>5, <4>2
    <3> QED
      BY <1>1, <1>3, <3>1 DEF PageHolds
  <2>10. ASSUME NEW j \in WholeOf(delivered) PROVE Keeps(delivered[j], page)
    <3>1. PageHolds(results, delivered[j], L)
      BY <2>2
    <3>2. \A tab \in PageTabs : delivered[j].counts[tab] <= page.counts[tab]
      BY <1>1, <1>3, <3>1 DEF PageHolds
    <3>3. ASSUME delivered[j].kind = "list", NEW c \in Cards(delivered[j])
          PROVE  \E d \in Cards(page) :
                     d.listing = c.listing /\ d.tab = c.tab /\ d.rank = c.rank
      <4>1. PICK q \in UpTo(results, L) : Fits(results, c, q)
        BY <3>1, <3>3 DEF PageHolds
      <4>2. PICK i \in 1..Len(f) : f[i] = q
        BY <2>3
      <4>3. Fits(results, view.cards[i], q)
        BY <2>2, <2>4, <4>2
      <4> QED
        BY <2>7, <4>1, <4>3 DEF Fits
    <3> QED
      BY <3>2, <3>3 DEF Keeps
  <2> QED
    BY <2>8, <2>9, <2>10
<1>7. page.torn \/ /\ PageGood(page) /\ PageHolds(results, page, Len(results)) /\ ~purged
                   /\ \A j \in WholeOf(delivered) : Keeps(delivered[j], page)
  BY <1>3, <1>6
<1> QED
  BY <1>1, <1>2, <1>5, <1>7, PageIsDelivered DEF PagesInv

LEMMA CardIsDelivered ==
    ASSUME RowsInv, PagesInv, NEW n \in DOMAIN results, ShowOne(n)
    PROVE  PagesAre(results, view', delivered', purged)
<1> DEFINE c == Card(results[n], 1)
           page == [kind |-> "one", cards |-> <<c>>, counts |-> Counts, torn |-> FALSE]
<1>1. delivered' = Append(delivered, page) /\ view' = view /\ view = NoView /\ ~purged
  BY DEF ShowOne
<1>2. Good(c) /\ c.tab = results[n].tab
  BY CardIs
<1> HIDE DEF c
<1>3. page.kind = "one" /\ page.cards = <<c>> /\ page.counts = Counts /\ page.torn = FALSE
  BY Zenon
<1>4. Cards(page) = {c}
  BY DEF Cards
<1> HIDE DEF page
<1>5. /\ PageGood(page) /\ PageHolds(results, page, Len(results))
      /\ \A j \in WholeOf(delivered) : Keeps(delivered[j], page)
  BY <1>1, <1>2, <1>3, <1>4, CountsKeep DEF RowsInv
<1>6. view'.kind # "list" /\ purged \in BOOLEAN /\ results \in Seq(ResultRows)
  BY <1>1 DEF NoView, RowsInv, DisplayTypes
<1> QED
  BY <1>1, <1>5, <1>6, PageIsDelivered DEF PagesInv

LEMMA SearchIsDelivered ==
    ASSUME RowsInv, PagesInv, NEW reasons, CloseSearch(reasons)
    PROVE  PagesAre(results, view', delivered', purged)
<1> DEFINE page == [ kind |-> "search", cards |-> <<>>, counts |-> Counts, torn |-> purged,
                     reasons |-> reasons, walked |-> Walked(view.todo) ]
<1>1. delivered' = Append(delivered, page) /\ view' = NoView
  BY DEF CloseSearch
<1>2. page.kind = "search" /\ page.cards = <<>> /\ page.counts = Counts /\ page.torn = purged
  BY Zenon
<1> HIDE DEF page
<1>3. Cards(page) = {}
  BY <1>2, EmptySequence DEF Cards
<1>4. ~purged => /\ PageGood(page) /\ PageHolds(results, page, Len(results))
                 /\ \A j \in WholeOf(delivered) : Keeps(delivered[j], page)
  BY <1>2, <1>3, CountsKeep DEF RowsInv
<1>5. view'.kind # "list" /\ results \in Seq(ResultRows) /\ purged \in BOOLEAN
  BY <1>1 DEF NoView, RowsInv, DisplayTypes
<1>6. page.torn \/ /\ PageGood(page) /\ PageHolds(results, page, Len(results)) /\ ~purged
                   /\ \A j \in WholeOf(delivered) : Keeps(delivered[j], page)
  BY <1>2, <1>4
<1> QED
  BY <1>1, <1>5, <1>6, PageIsDelivered DEF PagesInv

-------------------------------------------------------------------------------
(* All together *)

ReaderInv == RowsInv /\ PagesInv

LEMMA ReaderInit == DisplayInit => ReaderInv
<1> SUFFICES ASSUME DisplayInit PROVE ReaderInv
  OBVIOUS
<1>1. view = NoView /\ delivered = <<>>
  BY DEF DisplayInit
<1>2. view.kind # "list" /\ IsSequence(delivered) /\ WholeOf(delivered) = {}
  BY <1>1, EmptySequence DEF NoView, WholeOf
<1>3. PagesInv
  BY <1>2 DEF PagesInv, PagesAre, ListShape
<1> QED
  BY <1>3, RowsInit DEF ReaderInv

LEMMA ReaderStep == ReaderInv /\ [DisplayNext]_displayVars => ReaderInv'
<1> SUFFICES ASSUME RowsInv, PagesInv, [DisplayNext]_displayVars PROVE ReaderInv'
  BY DEF ReaderInv
<1>1. RowsInv'
  BY RowsStep
<1>2. /\ PagesAre(results, view, delivered, purged)
      /\ PagesInv' <=> PagesAre(results', view', delivered', purged')
      /\ results \in Seq(ResultRows) /\ purged \in BOOLEAN
  BY DEF PagesInv, RowsInv, DisplayTypes
<1>3. CASE UNCHANGED <<view, delivered>>
  <2>1. \/ UNCHANGED <<results, purged>> \/ purged' = TRUE
        \/ UNCHANGED purged /\ \E r \in ResultRows : results' = Append(results, r)
    <3>1. DisplayTypes
      BY DEF RowsInv
    <3>2. \/ FindsOrReads \/ Decides \/ Publishes \/ Proceeds \/ Purge \/ Reads
          \/ \E kind \in Kinds, rows \in Seq(ScoreRows) : Compares(kind, rows)
      BY <3>1, WorkerSteps
    <3>3. CASE Publishes
      <4>1. \E r \in ResultRows : results' = Append(results, r)
        BY <3>3, PublishedStep
      <4> QED
        BY <3>3, <4>1 DEF Publishes, PublishOne
    <3> QED
      BY <3>2, <3>3 DEF FindsOrReads, Decides, Proceeds, Purge, Reads, Compares
  <2>2. ASSUME UNCHANGED <<results, purged>> PROVE PagesInv'
    BY <1>2, <1>3, <2>2
  <2>3. ASSUME purged' = TRUE PROVE PagesInv'
    BY <1>2, <1>3, <2>3, RowsGone
  <2>4. ASSUME UNCHANGED purged, NEW r \in ResultRows, results' = Append(results, r)
        PROVE  PagesInv'
    BY <1>2, <1>3, <2>4, PagesGrow
  <2>5. PagesInv'
    BY <2>1, <2>2, <2>3, <2>4
  <2> QED
    BY <1>1, <2>5 DEF ReaderInv
<1>4. CASE OpenList
  BY <1>1, <1>2, <1>4, ListOpens DEF OpenList, Answered, ReaderInv
<1>5. CASE AddCard
  <2>1. UNCHANGED <<results, delivered, purged>>
    BY <1>5 DEF AddCard, Answered
  <2>2. CASE ~purged
    BY <1>1, <1>2, <1>5, <2>1, <2>2, CardIsAdded DEF ReaderInv
  <2>3. CASE purged
    <3>1. IsSequence(view.cards) /\ view.kind = "list" /\ view.todo # <<>>
          /\ view.todo \in Seq(ResultRows)
          /\ view = [kind |-> "list", todo |-> view.todo, cards |-> view.cards]
      BY <1>5 DEF AddCard, PagesInv, PagesAre, ListShape
    <3>2. \E c : view' = [kind |-> "list", todo |-> Tail(view.todo),
                          cards |-> Append(view.cards, c)]
      <4> DEFINE r == Head(view.todo)
                 c == Card(r, 1 + Cardinality({k \in DOMAIN view.cards :
                                                  view.cards[k].tab = r.tab}))
      <4>1. view' = [view EXCEPT !.todo = Tail(@), !.cards = Append(@, c)]
        BY <1>5 DEF AddCard
      <4> HIDE DEF c
      <4> QED
        BY <3>1, <4>1
    <3>3. Tail(view.todo) \in Seq(ResultRows) /\ \A c : IsSequence(Append(view.cards, c))
      BY <3>1, Appended
    <3>4. ListShape(view')
      BY <3>2, <3>3 DEF ListShape
    <3> QED
      BY <1>1, <1>2, <2>1, <2>3, <3>4 DEF PagesAre, ReaderInv
  <2> QED
    BY <2>2, <2>3
<1>6. CASE CloseList
  BY <1>1, <1>2, <1>6, ListIsDelivered DEF CloseList, Answered, ReaderInv
<1>7. CASE \E n \in DOMAIN results : ShowOne(n)
  BY <1>1, <1>2, <1>7, CardIsDelivered DEF ShowOne, Answered, ReaderInv
<1>8. CASE OpenSearch
  <2>1. view'.kind # "list" /\ UNCHANGED <<results, delivered, purged>>
    BY <1>8 DEF OpenSearch, Answered
  <2> QED
    BY <1>1, <1>2, <2>1, ViewOf DEF ReaderInv
<1>9. CASE \E reasons : CloseSearch(reasons)
  BY <1>1, <1>2, <1>9, SearchIsDelivered DEF CloseSearch, Answered, ReaderInv
<1>10. \/ OpenList \/ AddCard \/ CloseList \/ (\E n \in DOMAIN results : ShowOne(n))
       \/ OpenSearch \/ (\E reasons : CloseSearch(reasons)) \/ UNCHANGED <<view, delivered>>
  BY DEF DisplayNext, displayVars, Discover, Normalize, Compare, Live, RankStage, PublishOne,
         PublishEnds, Replan, RunOut, Purge
<1> QED
  BY <1>3, <1>4, <1>5, <1>6, <1>7, <1>8, <1>9, <1>10

LEMMA ReaderInvariance == DisplaySpec => []ReaderInv
  BY ReaderInit, ReaderStep, PTL DEF DisplaySpec

\* Of every page that no delete tore, each card shows the match that its result was decided
\* by (project_result reads the scores by a rule of its own), for every campaign.
THEOREM CardsAreAsDecided == DisplaySpec => []ShownAsDecided
<1>1. ReaderInv => ShownAsDecided
  BY DEF ReaderInv, PagesInv, PagesAre, PageGood, Good, Whole, WholeOf, ShownAsDecided
<1> QED
  BY <1>1, ReaderInvariance, PTL

\* What is Real is labelled high on both counts, and what is Possibly Real at least moderate
\* (_judgment_label against the gates of the ranking), for every campaign.
THEOREM LabelsAreTrue == DisplaySpec => []LabelsFitTabs
<1>1. ReaderInv => LabelsFitTabs
  BY DEF ReaderInv, PagesInv, PagesAre, PageGood, Good, Whole, WholeOf, LabelsFitTabs
<1> QED
  BY <1>1, ReaderInvariance, PTL

\* What a page has shown, each later one shows in its tab and at its rank, and counts at
\* least as much (list_public_results while the worker publishes), for every campaign.
THEOREM NothingIsTakenBack == DisplaySpec => []ShownStays
<1>1. ReaderInv => ShownStays
  <2>1. DOMAIN Counts = PageTabs /\ Whole = WholeOf(delivered)
    BY DEF Counts, PageTabs, Whole, WholeOf
  <2> QED
    BY <2>1 DEF ReaderInv, PagesInv, PagesAre, PageGood, Keeps, ShownStays
<1> QED
  BY <1>1, ReaderInvariance, PTL

===============================================================================
