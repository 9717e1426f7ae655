------------------------------ MODULE MCStages ------------------------------
(***************************************************************************)
(* The stages of a campaign that one worker runs alone, on enumerated      *)
(* inputs: a behaviour is one of Clusters (the listings found), Inquiry    *)
(* (the photographs, the hypotheses and the queries), Retrieval (which     *)
(* listings are compared) or Verification (their pages, read again).       *)
(***************************************************************************)
EXTENDS Clusters, Sequences, TLC

VARIABLE part  \* which of the four a behaviour is of

CONSTANTS Requests, Finds, Lanes, Languages, MaxImages, HypCeiling, Ceiling, MaxPerFamily,
          MaxPerRound, MaxRounds
VARIABLES photos, typed, stage, reading, hyps, queries, found, round

I == INSTANCE Inquiry
inquiryVars == <<photos, typed, stage, reading, hyps, queries, found, round>>

CONSTANTS MaxPairs, ExactColour, TablePresent, Wanted, Years, Hauls, BroadCap, FineCap, PartCap,
          DeepCap, DeliberateCap, MaxHauls
VARIABLES rows, kept, compared, decided, tabs, step, haul

R == INSTANCE Retrieval
retrievalVars == <<rows, kept, compared, decided, tabs, step, haul>>

CONSTANTS Verified, FirstPages, LaterPages, MaxLooks
VARIABLES first, looks, evidence, turn

V == INSTANCE Verification WITH Listed <- Verified
verificationVars == <<first, looks, evidence, turn>>

ClustersIdle ==
    /\ page = [c \in Cands |-> CHOOSE p \in Pages : TRUE]
    /\ pc = "idle" /\ assigned = [c \in Cands |-> c]
    /\ entry = [c \in Cands |-> 0] /\ lead = [c \in Cands |-> 0]
    /\ owner = [f \in Families |-> 0] /\ at = 1 /\ left = {}
    /\ order = [c \in Cands |-> 0] /\ reps = [c \in Cands |-> 0] /\ cards = {}
InquiryIdle ==
    /\ photos = <<>> /\ typed = <<>> /\ stage = "idle" /\ reading = I!NoReading
    /\ hyps = <<>> /\ queries = <<>> /\ found = <<>> /\ round = 0
VerificationIdle ==
    /\ first = [c \in Verified |-> CHOOSE p \in FirstPages : TRUE]
    /\ looks = [c \in Verified |-> <<>>] /\ evidence = {} /\ turn = 0

StagesInit ==
    /\ part \in {"clusters", "inquiry", "retrieval", "verification"}
    /\ IF part = "clusters" THEN Init ELSE ClustersIdle
    /\ IF part = "inquiry" THEN I!InquiryInit ELSE InquiryIdle
    /\ R!RetrievalInit
    /\ IF part = "verification" THEN V!VerificationInit ELSE VerificationIdle

ClustersStep ==
    part = "clusters" /\ UNCHANGED <<part, inquiryVars, retrievalVars, verificationVars>>
InquiryStep == part = "inquiry" /\ UNCHANGED <<part, vars, retrievalVars, verificationVars>>
RetrievalStep == part = "retrieval" /\ UNCHANGED <<part, vars, inquiryVars, verificationVars>>
VerificationStep == part = "verification" /\ UNCHANGED <<part, vars, inquiryVars, retrievalVars>>

StagesNext ==
    \/ ClustersStep /\ Next
    \/ InquiryStep /\ I!Ingest
    \/ InquiryStep /\ I!Analyse
    \/ InquiryStep /\ I!FormHypotheses
    \/ InquiryStep /\ I!PlanQueries
    \/ InquiryStep /\ I!Discover
    \/ InquiryStep /\ I!EndRounds
    \/ InquiryStep /\ I!Replan
    \/ RetrievalStep /\ R!RetrievalNext
    \/ VerificationStep /\ V!VerificationNext

StagesSpec ==
    StagesInit /\ [][StagesNext]_<<part, vars, inquiryVars, retrievalVars, verificationVars>>

LanguagesCovered == part = "inquiry" => I!LanguagesCovered
NothingAskedTwice == part = "inquiry" => I!NothingAskedTwice
GroupsAreComponents == part = "inquiry" => I!GroupsAreComponents
BestAreCompared == part = "retrieval" => R!BestAreCompared
UnchangedIsNotContradicted == part = "verification" => V!UnchangedIsNotContradicted

-------------------------------------------------------------------------------
\* Titles as sets of words: AllWords is nearly FrontWords and nearly BackWords, which are not alike.
AllWords == 1..10
FrontWords == 1..9
BackWords == 2..10

Listed(listing, inUrl, url, families, title, place) ==
    [adapter |-> "shop", listing |-> listing, inUrl |-> inUrl, url |-> url,
     families |-> families, title |-> title, place |-> place]

MCPages ==
    { Listed("a", "none", 1, {"f"}, {}, 2),
      Listed("b", "none", 2, {"g"}, FrontWords, 1),
      Listed("b", "none", 2, {"f"}, AllWords, 0),
      Listed("none", "a", 1, {"g"}, BackWords, 3),
      Listed("none", "none", 3, {"f", "g"}, {}, 1),
      Listed("none", "none", 4, {"f"}, FrontWords, 2),
      Listed("none", "none", 5, {"g"}, AllWords, 0),
      Listed("none", "none", 6, {}, BackWords, 1),
      Listed("c", "none", 7, {"f", "h"}, BackWords, 2) }

Photo(hash, tint, w, h) ==
    [bytes |-> "fits", magic |-> "image", size |-> "fits", header |-> TRUE,
     width |-> 1000, height |-> 1000, x |-> 130, y |-> 100, w |-> w, h |-> h,
     jpeg |-> TRUE, flat |-> FALSE, sharp |-> 700, mean |-> 500, blur |-> "no", glare |-> "no",
     marks |-> <<>>, order |-> FALSE, label |-> FALSE, box |-> FALSE, hash |-> hash,
     tint |-> tint]
Mark(word, kind, year) ==
    [word |-> word, kind |-> kind, cat |-> "none", year |-> year, sure |-> 800]
Marked(p, marks, asOrder) == [p EXCEPT !.marks = marks, !.order = asOrder]

Token(word, is) == [word |-> word, is |-> is, sized |-> FALSE, num |-> FALSE, full |-> 0,
                    tail |-> -1, cat |-> "none", shoe |-> FALSE]
Prada == Token("prada", "plain")
Rolex == Token("rolex", "plain")
Sport == Token("sport", "plain")
Linea == Token("linea", "plain")
Black == Token("black", "colour")
Shoes == [Token("shoes", "category") EXCEPT !.cat = "footwear", !.shoe = TRUE]
Y2003 == [Token("2003", "plain") EXCEPT !.num = TRUE, !.full = 2003]
S38 == [Token("38", "plain") EXCEPT !.num = TRUE, !.sized = TRUE, !.tail = 38]
N5 == [Token("05", "plain") EXCEPT !.num = TRUE, !.sized = TRUE, !.tail = 5]

Square == Photo(0, 0, 600, 600)
Side == Photo(10, 10, 700, 500)
Heel == [Photo(20, 20, 400, 620) EXCEPT !.sharp = 100]
Far == Photo(60, 60, 600, 600)
Blurred == [Photo(60, 60, 700, 520) EXCEPT !.blur = "yes", !.glare = "yes"]

Asks(photosOf, tokens, marker) == [photos |-> photosOf, tokens |-> tokens, marker |-> marker]

Texts == { <<>>, <<Prada>>, <<Black>>, <<Prada, Sport, Linea, Black, Shoes, Y2003>>,
           <<Prada, S38>>, <<Prada, N5, Shoes>> }
Sets == { <<Square>>, <<Square, Heel, Side>>, <<Blurred, Square>>,
          <<Marked(Square, <<Mark("prada", "brand", 0), Mark("2001", "season", 2001)>>, FALSE)>>,
          <<Marked(Far, <<Mark("rolex", "brand", 0), Mark("ab123", "product_code", 0)>>, FALSE),
            Side>>,
          <<Marked(Square, <<Mark("rolex", "brand", 0), Mark("2001", "season", 2001)>>, TRUE)>> }
MCRequests ==
    {Asks(p, t, FALSE) : p \in Sets, t \in Texts}
    \cup {Asks(<<Square>>, <<Token("size", "plain"), S38>>, TRUE), Asks(<<>>, <<Prada>>, FALSE),
          Asks(<<Square, [Side EXCEPT !.magic = "unsafe"]>>, <<Prada>>, FALSE),
          Asks(<<Square, [Side EXCEPT !.header = FALSE, !.size = "pixels"]>>, <<Prada>>, FALSE)}

Found(title, adapter) == [title |-> title, adapter |-> adapter, barred |-> FALSE,
                            structured |-> TRUE,
                            codes |-> <<[word |-> "ab123", sized |-> FALSE, short |-> FALSE]>>]
OnKind == Found(<<"prada", "sport">>, "kind")
OnEbay == Found(<<"prada", "sport">>, "ebay")
MCFinds == { <<>>, <<OnKind, OnEbay>>, <<OnKind, [OnEbay EXCEPT !.barred = TRUE]>> }

-------------------------------------------------------------------------------
MCYears == {<<"03", "2003">>}
MCWanted ==
    [ words |-> {"sport", "2003"}, aliases |-> {"linea"}, codes |-> {}, ocr |-> {"x1"},
      cat |-> "shoe", brand |-> "prada", hashes |-> {0, 8}, tints |-> {100}, shape |-> 7 ]

Good(words, cat, hashes, lower, family) ==
    [ title |-> words, said |-> {"03"}, cat |-> cat, hashes |-> hashes, tints |-> hashes,
      shapes |-> {7}, alike |-> -1, match |-> [hard |-> {}, lower |-> lower],
      offer |-> [footwear |-> TRUE, link |-> "ok", words |-> FALSE, family |-> "RETAIL"],
      auth |-> [hard |-> {}, mean |-> 900, lower |-> 850], complete |-> 700, avail |-> "LIVE",
      dest |-> TRUE, size |-> "none", cost |-> "none", described |-> TRUE, family |-> family ]
Unlike(l) == [l EXCEPT !.shapes = {}, !.tints = {}]
MCGoods ==
    { Good({"prada", "sport"}, "shoe", {0}, 950, "f"),
      [Good({"prada"}, "none", {60}, 940, "f") EXCEPT !.cost = "fits"],
      [Unlike(Good({"bag"}, "bag", {}, 500, "none")) EXCEPT !.auth.lower = 300],
      [Good({"prada", "sport", "x1"}, "shoe", {8}, 600, "g") EXCEPT !.alike = 900],
      Unlike(Good({"kids"}, "bag", {}, 400, "none")) }
MCHauls == {<<>>} \cup [1..1 -> MCGoods] \cup [1..2 -> MCGoods]

-------------------------------------------------------------------------------
Unpriced == [whole |-> 0, form |-> "none"]
Section(title, brand, seller, price, avail, images) ==
    [there |-> TRUE, title |-> title, brand |-> brand, seller |-> seller, price |-> price,
     avail |-> avail, images |-> images]
Empty == [Section("none", "none", "none", Unpriced, "none", {}) EXCEPT !.there = FALSE]
Price(form) == [whole |-> 1200, form |-> form]

PageOf(jsonld, microdata, rdfa, og, dom, yen) ==
    [ jsonld |-> jsonld, microdata |-> microdata, rdfa |-> rdfa, og |-> og, dom |-> dom,
      yen |-> yen, product |-> TRUE ]
Json == Section("coat", "acme", "none", Price("1,200.00"), "InStock", {1})
JsonWithoutProduct == Section("none", "none", "none", Unpriced, "none", {})
Micro == Section("coat", "none", "none", Price("1200"), "http://schema.org/SoldOut", {2})
Rdfa == Section("coat", "acme", "shop", Price("1200"), "InStock", {3})
OpenGraph == Section("coat, used", "none", "none", Price("1,200"), "none", {1})
Dom == Section("a coat", "none", "none", Price("1.200,00"), "none", {4})
DomInWords == Section("none", "none", "none", Price("words"), "none", {})

MCFirstPages ==
    { PageOf(j, m, r, o, d, yen) :
        j \in {Json, JsonWithoutProduct, Empty}, m \in {Micro, Empty}, r \in {Rdfa, Empty},
        o \in {OpenGraph, Empty}, d \in {Dom, DomInWords}, yen \in BOOLEAN }
MCLaterPages ==
    { PageOf(Json, Empty, Empty, Empty, DomInWords, FALSE),
      [PageOf(Empty, Empty, Empty, Empty, DomInWords, FALSE) EXCEPT !.product = FALSE] }

===============================================================================
