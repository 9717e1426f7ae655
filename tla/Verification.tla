----------------------------- MODULE Verification -----------------------------
(***************************************************************************)
(* What is read off a listing's page, when it is found and when it is      *)
(* verified: the extractors of sources/adapters/generic_page.py, what      *)
(* normalization/listing.py records of them, and the second reading of     *)
(* verification/extract.py, which verification/compare.py holds against    *)
(* the first and verification/runner.py leaves its marks of.               *)
(*                                                                         *)
(* A page has sections, each a record of there, title, brand, seller,      *)
(* price, avail and images; it is in yen or not, and it is classified as   *)
(* a product page or not.  A price is a text: its whole amount, and the    *)
(* form it is written in.  Amounts read are in hundredths.                 *)
(***************************************************************************)
EXTENDS Integers, SequencesExt

CONSTANTS Listed,       \* the listings that are verified
          FirstPages,   \* the pages they were found on
          LaterPages,   \* the pages they may have become
          MaxLooks

VARIABLES first,        \* first[c]: the page its row was made of
          looks,        \* looks[c]: the verifications its row tells of: how they went, the
                        \* page, the verdicts
          evidence,     \* the rows of evidence_metadata that verification has inserted
          turn          \* the listing that verify_candidates is at, or 0 when verify_all is over

verificationVars == <<first, looks, evidence, turn>>

Fields == {"price", "availability", "title", "seller", "images"}
Verdicts == {"agrees", "disagrees", "absent", "unchecked"}

-------------------------------------------------------------------------------
(* The extractors *)

NoPrice == [whole |-> 0, form |-> "none"]

\* A section with no product in it is not there; all but JSON-LD want a title too.
Has(page, s) == page[s].there /\ (s # "jsonld" => page[s].title # "none")

\* What an extractor gives: only the RDFa one reads a seller, and Open Graph has no stock.
Extract(page, s) ==
    LET sec == page[s]
    IN  [ title |-> sec.title, images |-> sec.images, price |-> sec.price,
          brand |-> IF s \in {"og", "dom"} THEN "none" ELSE sec.brand,
          seller |-> IF s = "rdfa" THEN sec.seller ELSE "none",
          avail |-> IF s \in {"og", "dom"} THEN "none" ELSE sec.avail ]

\* extract_listing: field by field the first that has it, and the images of all.
MergeOrder == <<"jsonld", "microdata", "og", "dom">>
Firsts(page, field, none) ==
    LET given == SelectSeq(MergeOrder, LAMBDA s :
                     (s = "dom" \/ Has(page, s)) /\ Extract(page, s)[field] # none)
    IN  IF given = <<>> THEN none ELSE Extract(page, given[1])[field]
Merged(page) ==
    [ title |-> Firsts(page, "title", "none"), brand |-> Firsts(page, "brand", "none"),
      seller |-> "none", avail |-> Firsts(page, "avail", "none"),
      price |-> Firsts(page, "price", NoPrice),
      images |-> UNION {Extract(page, s).images : s \in {t \in ToSet(MergeOrder) :
                                                            t = "dom" \/ Has(page, t)}} ]

\* extract_structured: all of the first section that is there, RDFa among them.
StructuredOrder == <<"jsonld", "microdata", "rdfa", "og">>
SellerFilled(p) == [p EXCEPT !.seller = IF @ = "none" THEN p.brand ELSE @]
Nothing == [title |-> "none", brand |-> "none", seller |-> "none", avail |-> "none",
            price |-> NoPrice, images |-> {}]
Structured(page) ==
    LET given == SelectSeq(StructuredOrder, LAMBDA s : Has(page, s))
    IN  IF given # <<>> THEN SellerFilled(Extract(page, given[1]))
        ELSE IF page.product THEN SellerFilled(Merged(page)) ELSE Nothing

-------------------------------------------------------------------------------
(* What is recorded of the first reading, and how the second is normalised *)

Availability(raw) ==
    CASE raw \in {"InStock", "https://schema.org/InStock"} -> "LIVE"
      [] raw \in {"SoldOut", "OutOfStock", "http://schema.org/SoldOut"} -> "SOLD"
      [] raw = "reserved" -> "RESERVED"
      [] raw = "Discontinued" -> "REMOVED"
      [] OTHER -> "UNKNOWN"

\* parse_price: a lone comma or full stop is read as the decimal one, two digits of
\* what is behind it at most; in yen every digit counts.
ParsedAmount(price, yen) ==
    CASE price.form \in {"none", "words"} -> -1
      [] yen /\ price.form \in {"1200", "1,200", "1.200"} -> 100 * price.whole
      [] yen -> 10000 * price.whole
      [] price.form \in {"1,200", "1.200"} -> price.whole \div 10
      [] OTHER -> 100 * price.whole

\* _norm_price: commas are left out, whatever they stand for; a text without an amount is
\* compared as it stands.
NormPrice(price) ==
    CASE price.form = "none" -> -1
      [] price.form = "words" -> -2
      [] price.form \in {"1.200", "1.200,00"} -> price.whole \div 10
      [] OTHER -> 100 * price.whole

\* normalize_raw, as far as verification asks: a seller who is only a name is not kept.
Row(page) ==
    LET m == Merged(page)
    IN  [ price |-> ParsedAmount(m.price, page.yen), availability |-> Availability(m.avail),
          title |-> m.title, brand |-> m.brand, images |-> m.images ]

\* recorded_values: without a seller the brand stands for it; the availability of a row is
\* never missing, only unknown.
Recorded(page) ==
    LET row == Row(page)
    IN  [ price |-> row.price, availability |-> row.availability, title |-> row.title,
          seller |-> row.brand, images |-> row.images ]

Observed(page) ==
    LET o == Structured(page)
    IN  [ price |-> NormPrice(o.price),
          availability |-> IF o.avail = "none" THEN "none" ELSE Availability(o.avail),
          title |-> o.title, seller |-> o.seller, images |-> o.images ]

Missing(field, value) ==
    CASE field = "price" -> value = -1
      [] field = "images" -> value = {}
      [] OTHER -> value = "none"

\* Mutated form of Compared: only equal sets of images agree.
ComparedExactly(field, rec, obs) ==
    IF Missing(field, obs[field]) \/ Missing(field, rec[field]) THEN "absent"
    ELSE IF rec[field] = obs[field] THEN "agrees" ELSE "disagrees"

\* compare_fields
Compared(field, rec, obs) ==
    IF Missing(field, obs[field]) \/ Missing(field, rec[field]) THEN "absent"
    ELSE IF rec[field] = obs[field] THEN "agrees"
    ELSE IF field = "images" /\ rec.images \cap obs.images # {} THEN "agrees" ELSE "disagrees"

\* A page that was not read says nothing.
Verdict(field, how, rec, obs) == IF how = "read" THEN Compared(field, rec, obs) ELSE "unchecked"
Checks(c, how, page) ==
    [field \in Fields |-> Verdict(field, how, Recorded(first[c]), Observed(page))]

\* statements_for: which list of the explanation a verdict's line goes to.
Statement == [agrees |-> "support", disagrees |-> "contradictions", absent |-> "missing_evidence",
              unchecked |-> "missing_evidence"]

-------------------------------------------------------------------------------
VerificationInit ==
    /\ first \in [Listed -> FirstPages]
    /\ looks = [c \in Listed |-> <<>>]
    /\ evidence = {} /\ turn = 1

Look(how, page) ==
    looks' = [looks EXCEPT ![turn] =
                  Append(@, [how |-> how, page |-> page, verdicts |-> Checks(turn, how, page)])]

\* _evidence_for: a row of a new id for each field that was checked, kept for good.
RowsOf(c, n, verdicts) ==
    { [listing |-> c, look |-> n, field |-> f, verdict |-> verdicts[f],
       hard |-> f \in {"title", "seller"} /\ verdicts[f] = "disagrees"] :
      f \in {g \in Fields : verdicts[g] # "unchecked"} }

NextTurn == turn' = IF turn = Cardinality(Listed) THEN 0 ELSE turn + 1

\* The page came, to be read or ("blocked") with a challenge or an error in its place.
VerifyPage(how, page) ==
    /\ turn # 0
    /\ how \in {"read", "blocked"}
    /\ Look(how, page)
    /\ LET now == looks'[turn]
       IN  evidence' = evidence \cup RowsOf(turn, Len(now), now[Len(now)].verdicts)
    /\ NextTurn /\ UNCHANGED first

\* The budget is at its end, the fetch raises, or the source has no adapter any more: the
\* record that is made of it is not stored, and every later stage reads the row.
VerifyUnread == turn # 0 /\ NextTurn /\ UNCHANGED <<first, looks, evidence>>

\* The fetch is cancelled: verify_all raises, and the orchestrator goes on without the rest.
VerifyCancelled == turn # 0 /\ turn' = 0 /\ UNCHANGED <<first, looks, evidence>>

\* The next round verifies the listings that are to be compared again.
VerifyAgain ==
    /\ turn = 0
    /\ \A c \in Listed : Len(looks[c]) < MaxLooks
    /\ turn' = 1 /\ UNCHANGED <<first, looks, evidence>>

VerificationNext ==
    \/ \E how \in {"read", "blocked"}, p \in LaterPages \cup {first[c] : c \in Listed} :
           VerifyPage(how, p)
    \/ VerifyUnread \/ VerifyCancelled \/ VerifyAgain

-------------------------------------------------------------------------------
(* Properties *)

\* The two readers of a price read these alike.
PriceReadAlike(page) ==
    \A s \in {"jsonld", "microdata", "og", "dom"} :
        page[s].price.form \in {"none", "words", "1200"}
            \cup (IF page.yen THEN {"1,200"} ELSE {"1200.00", "1,200.00"})

\* A listing whose page has not changed since it was found is contradicted in nothing by
\* its verification, and no evidence is held against it, although the first reading merges
\* all the sections and the second takes one: no field of the one taken may lose to another
\* section's.  Where a page has its product in RDFa, which the first reading leaves out, or
\* a price in a form that the two read differently, it is not so.
UnchangedIsNotContradicted ==
    \A c \in Listed : \A n \in DOMAIN looks[c] :
        LET l == looks[c][n]
        IN  l.how = "read" /\ l.page = first[c] /\ ~Has(l.page, "rdfa") /\ PriceReadAlike(l.page)
            => /\ \A f \in Fields : Statement[l.verdicts[f]] # "contradictions"
               /\ \A row \in evidence : row.listing = c /\ row.look = n => ~row.hard

===============================================================================
