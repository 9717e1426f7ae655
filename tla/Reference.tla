------------------------------- MODULE Reference -------------------------------
(***************************************************************************)
(* What is read from the user's photographs (reference/*.py): which        *)
(* uploads are taken, which view a photograph shows, what its quality      *)
(* weighs, which photographs show one item, and what is asked for.         *)
(*                                                                         *)
(* A photograph p is a record:                                             *)
(*   bytes    "none", "fits" or "large";  magic  "image", "unsafe" or      *)
(*            "unknown";  size  "fits", "zero", "edge" or "pixels"; header *)
(*            says whether the header gives the size                       *)
(*   width, height, x, y, w, h   the picture, and the subject's box in it  *)
(*   jpeg, flat, sharp, mean     for the quality, the last two per mille   *)
(*   blur, glare                 the donor's warnings: "none", "yes", "no" *)
(*   marks    the words read, records with word, kind, cat, year (0: none) *)
(*            and sure; order says that together they read like an order   *)
(*   label, box                  what the words speak of                   *)
(*   hash, tint                  places of its average hash and histogram  *)
(*                               on a line, apart as the code measures     *)
(* Shares are per mille.  The pictures derived from a photograph and the   *)
(* descriptors kept for the report are left out.                           *)
(***************************************************************************)
EXTENDS Integers, Sequences, FiniteSets, SequencesExt

Smaller(a, b) == IF a < b THEN a ELSE b
Larger(a, b) == IF a > b THEN a ELSE b
Absolute(n) == IF n < 0 THEN -n ELSE n
Opt(when, s) == IF when THEN s ELSE <<>>

\* The first row whose condition holds; the last one's always does.
FirstRow(rows) ==
    rows[CHOOSE i \in DOMAIN rows : rows[i][1] /\ \A j \in 1..(i - 1) : ~rows[j][1]][2]

-------------------------------------------------------------------------------
(* Uploads. *)

\* validate_upload_bytes: the error class, or "none".
Refusal(p) ==
    FirstRow(<< <<p.bytes = "none", "malformed">>,
                <<p.bytes = "large", "input">>,
                <<p.magic = "unsafe", "input">>,
                <<p.magic = "unknown", "malformed">>,
                <<p.header /\ p.size = "edge", "input">>,
                <<p.header /\ p.size # "fits", "malformed">>,
                <<TRUE, "none">> >>)

\* decode_and_normalize: what the header did not tell.
DecodeFails(p) == p.size # "fits"

-------------------------------------------------------------------------------
(* Marks: what is written on the item. *)

\* flag_instruction_spans: in a line that reads like an instruction every mark is a
\* candidate; a mark of a known kind keeps it.
Flagged(p) ==
    [i \in DOMAIN p.marks |->
        [p.marks[i] EXCEPT !.kind = IF p.order /\ @ = "unknown" THEN "instruction" ELSE @]
        @@ [injected |-> p.order \/ p.marks[i].kind = "instruction"]]

KindsOf(p) == {p.marks[i].kind : i \in DOMAIN p.marks}

\* The words of one kind that no instruction is suspected in.
Trusted(marks, kind) ==
    LET held == SelectSeq(marks, LAMBDA m : m.kind = kind /\ ~m.injected)
    IN  [i \in DOMAIN held |-> held[i].word]

\* _category_from_signals: the categories named, in the order of their first word.
Categories(words, marks) ==
    LET named == SelectSeq([i \in DOMAIN words |-> words[i].cat]
                           \o [i \in DOMAIN marks |-> marks[i].cat],
                           LAMBDA c : c # "none")
        new == {i \in DOMAIN named : \A j \in 1..(i - 1) : named[j] # named[i]}
    IN  IF named = <<>> THEN <<"unknown">>
        ELSE [i \in 1..Cardinality(new) |-> named[SetToSortSeq(new, <)[i]]]

-------------------------------------------------------------------------------
(* Views. *)

\* The subject's share of the picture.
Area(p) == (1000 * p.w * p.h) \div Larger(1, p.width * p.height)

\* classify_view with its confidence, in per cent; shoe is the category hint.
View(p, shoe) ==
    LET area == Area(p)
        low == p.height > 0 /\ 10 * (p.y + p.h) > 7 * p.height
        row(view, sure) == [view |-> view, sure |-> sure]
    IN  FirstRow(
          << <<"size" \in {m.kind : m \in ToSet(Flagged(p))} \/ p.label, row("label", 62)>>,
             <<p.box, row("box", 45)>>,
             <<p.height > 0 /\ 100 * p.w < 85 * p.h /\ low /\ area < 450, row("worn", 48)>>,
             <<100 * p.w >= 85 * p.h /\ 100 * p.w <= 115 * p.h /\ area > 400,
               IF shoe THEN row("top", 40) ELSE row("front", 45)>>,
             <<10 * p.w > 16 * p.h /\ area > 350,
               IF shoe THEN row("sole", 38) ELSE row("detail", 40)>>,
             <<100 * p.w > 115 * p.h /\ 10 * p.w <= 17 * p.h, row("lateral", 44)>>,
             <<100 * p.w < 75 * p.h, row("heel", 36)>>,
             <<p.w < 180 \/ p.h < 180, row("detail", 40)>>,
             <<TRUE, row("unknown", 25)>> >>)

-------------------------------------------------------------------------------
(* Quality. *)

Resolution(p) == Smaller(1000, (1000 * Smaller(p.width, p.height)) \div 800)

Blur(p, warned) ==
    LET seen == IF warned = "yes" THEN 200 ELSE Smaller(1000, p.sharp)
    IN  IF warned = "no" THEN Larger(seen, 550) ELSE seen

Lighting(p, warned) ==
    LET seen == 1000 - Smaller(1000, 2 * Absolute(p.mean - 500))
    IN  IF warned = "yes" THEN Smaller(seen, 350) ELSE seen

NearBorder(p) ==
    \/ 100 * p.x < 12 * p.width \/ 100 * p.y < 12 * p.height
    \/ 100 * (p.x + p.w) > 88 * p.width

Occlusion(p) == IF Area(p) < 150 THEN 550
                ELSE IF NearBorder(p) /\ Area(p) < 400 THEN 350 ELSE 150

\* How well the surest mark was read.
TextVisibility(p) == CHOOSE n \in {m.sure : m \in ToSet(p.marks)} \cup {0} :
                        \A m \in ToSet(p.marks) : m.sure <= n

PartVisibility(p, unique) ==
    Smaller(1000, 300 + Smaller(1000, Area(p)) \div 2 + (IF unique THEN 200 ELSE 0))

\* Mutated form of Bonus: an angle seen once is worth no more.
NoBonus(unique) == 0

\* What an angle seen once is worth, of 100000.
Bonus(unique) == IF unique THEN 12000 ELSE 0

\* score_quality: the weight, of 100000.
Weight(p, unique, blurWarned, glareWarned) ==
    LET area == Smaller(1000, Area(p))
        sum == 20 * Resolution(p) + 15 * Blur(p, blurWarned)
             + 10 * (IF ~p.jpeg THEN 800 ELSE IF p.flat THEN 350 ELSE 550)
             + 10 * (1000 - Occlusion(p)) + 10 * Lighting(p, glareWarned)
             + 15 * area + 10 * Smaller(1000, 300 + area)
             + 5 * TextVisibility(p) + 5 * PartVisibility(p, unique)
    IN  Smaller(100000, Larger(5000, sum + Bonus(unique)))

\* As it is scored when the photograph is read.
FirstWeight(p) == Weight(p, FALSE, p.blur, p.glare)

\* A view that only one photograph shows is scored again, without the donor's warnings.
WeightOf(photos, views, i) ==
    IF \E j \in DOMAIN photos \ {i} : views[j].view = views[i].view
    THEN FirstWeight(photos[i])
    ELSE Weight(photos[i], TRUE, "none", "none")

-------------------------------------------------------------------------------
(* One item or several: unify_references. *)

HashNear(p, q) == Absolute(p.hash - q.hash) <= 12
TintApart(p, q) == Absolute(p.tint - q.tint)
Near(p, q) == HashNear(p, q) /\ TintApart(p, q) < 18

\* find: the image a parent chain ends in.
Root(parent, i) ==
    LET root[j \in DOMAIN parent] == IF parent[j] = j THEN j ELSE root[parent[j]] IN root[i]

\* Mutated form of Joined: the image is hung up, not the group it is in.
JoinedAlone(parent, i, j) == [parent EXCEPT ![j] = Root(parent, i)]

\* union
Joined(parent, i, j) == [parent EXCEPT ![Root(parent, j)] = Root(parent, i)]

Pairs(n) == SetToSortSeq({<<i, j>> \in (1..n) \X (1..n) : i < j},
                         LAMBDA a, b : a[1] < b[1] \/ (a[1] = b[1] /\ a[2] < b[2]))

Parents(photos) ==
    FoldLeft(LAMBDA parent, pair : IF Near(photos[pair[1]], photos[pair[2]])
                                   THEN Joined(parent, pair[1], pair[2]) ELSE parent,
             [i \in DOMAIN photos |-> i], Pairs(Len(photos)))

LeastOf(S) == CHOOSE i \in S : \A j \in S : i <= j

\* The groups, the largest first; of two as large, the one with the earlier image.
Groups(photos) ==
    LET parent == Parents(photos)
        all == {{j \in DOMAIN photos : Root(parent, j) = r} : r \in
                   {Root(parent, i) : i \in DOMAIN photos}}
    IN  SetToSortSeq(all, LAMBDA A, B : \/ Cardinality(A) > Cardinality(B)
                                        \/ /\ Cardinality(A) = Cardinality(B)
                                           /\ LeastOf(A) < LeastOf(B))

\* _relation: what a group is said to be.
GroupKind(photos, views, members) ==
    LET first == photos[LeastOf(members)] IN
    FirstRow(
      << <<\E i \in members : Area(photos[i]) < 250 /\ Len(photos[i].marks) > 8, "collage">>,
         <<\E i \in members : KindsOf(photos[i]) \cap {"overlay", "handle"} # {},
           "screenshot_multiple_products">>,
         <<\E i \in members : views[i].view = "worn", "worn_item">>,
         <<Cardinality(members) = 1, "single_view">>,
         <<\E i \in members : TintApart(first, photos[i]) > 22, "colourways">>,
         <<TRUE, "same_item_multiple_views">> >>)

-------------------------------------------------------------------------------
(* What is asked for, and the whole analysis. *)

FootwearViews == {"sole", "label", "heel", "lateral", "medial"}
GarmentViews == {"front", "rear", "label", "detail"}

\* evidence_gaps; the embedding is never learned without its weights.
Gaps(views, photos, category, learned) ==
    ((IF category = "footwear" THEN FootwearViews ELSE GarmentViews)
        \ {views[i].view : i \in DOMAIN views})
    \cup (IF learned THEN {} ELSE {"dense_features_blocked"})
    \cup (IF \E i \in DOMAIN photos : Resolution(photos[i]) < 400
          THEN {"low_resolution"} ELSE {})

\* analyze_stored_references of the photographs taken and the words typed; evidence_gaps
\* is called without a category.  lanes are the vision lanes that are there.
CriticalLanes == {"dense", "segmentation", "correspondence"}

Analysis(photos, words, lanes) ==
    LET shoe == \E i \in DOMAIN words : words[i].shoe
        views == [i \in DOMAIN photos |-> View(photos[i], shoe)]
        groups == Groups(photos)
        marks == FlattenSeq([i \in DOMAIN photos |-> Flagged(photos[i])])
    IN  [ views |-> views,
          weights |-> [i \in DOMAIN photos |-> WeightOf(photos, views, i)],
          groups |-> groups,
          kinds |-> [k \in DOMAIN groups |-> GroupKind(photos, views, groups[k])],
          marks |-> marks,
          relations |-> <<>>,
          categories |-> Categories(words, marks),
          gaps |-> Gaps(views, photos, "none", "dense" \in lanes),
          blocked |-> ~(CriticalLanes \subseteq lanes) ]

===============================================================================
