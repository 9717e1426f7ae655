-------------------------------- MODULE Inquiry --------------------------------
(***************************************************************************)
(* From the user's photographs and words to the queries a campaign asks:   *)
(* workers/reference/pipeline.py (run_reference_query_wave), the item      *)
(* hypotheses of hypotheses/*.py, the query plan of queries/*.py, and the  *)
(* orchestrator's _learn_terms and _replan, which plan again after a round *)
(* of discovery.                                                           *)
(*                                                                         *)
(* The user's text is a sequence of tokens, records with word, is (what    *)
(* the vocabulary says of it: "plain", "category", "colour", "material" or *)
(* "cut"), sized and num (it looks like a size, it has no letters), full   *)
(* (a year of four digits, or 0), tail (a number of two digits, or -1),    *)
(* cat, and shoe.  Queries are sequences of words in lower case, without   *)
(* quotes.  Posteriors and gains are of 10000.                             *)
(***************************************************************************)
EXTENDS Reference

CONSTANTS Requests,     \* what a user can ask: records with photos, tokens and marker
          Finds,        \* what a round of discovery can bring: sequences of listings
          Lanes,        \* the vision lanes that are there
          Languages,    \* the languages that queries are drafted in
          MaxImages, HypCeiling, Ceiling, MaxPerFamily, MaxPerRound, MaxRounds

VARIABLES photos, typed,    \* the request
          stage,            \* "validate", "read", "form", "plan", "discover", "learn",
                            \* "over" or "failed"
          reading,          \* analysis.json
          hyps,             \* the hypotheses, in the order of their rows
          queries,          \* the queries, in the order of their rows
          found,            \* the listings found
          round

inquiryVars == <<photos, typed, stage, reading, hyps, queries, found, round>>

-------------------------------------------------------------------------------
(* parse_user_text *)

Year(t) ==
    LET full == SelectSeq(t.tokens, LAMBDA k : k.full # 0)
        short == SelectSeq(t.tokens, LAMBDA k : k.tail \in 0..26)
    IN  IF full # <<>> THEN full[1].full
        ELSE IF short # <<>> THEN 2000 + short[1].tail ELSE 0

\* The tokens that are neither a size behind a marker nor the year.
Telling(t) ==
    SelectSeq(t.tokens, LAMBDA k :
        /\ ~(t.marker /\ k.sized)
        /\ Year(t) # 0 => k.full # Year(t) /\ k.tail # Year(t) % 100)

WordsThat(t, is) ==
    LET these == SelectSeq(Telling(t), LAMBDA k : k.is = is)
    IN  [i \in DOMAIN these |-> these[i].word]

\* How many of the words nothing else explains are the brand.
BrandLength(plain) ==
    IF Len(plain) <= 1 THEN Len(plain)
    ELSE IF plain[2].num /\ ~plain[1].num THEN 1
    ELSE IF Len(plain) = 2 THEN 1 ELSE 2

Parsed(t) ==
    LET plain == SelectSeq(Telling(t), LAMBDA k : k.is = "plain")
        cats == SelectSeq(Telling(t), LAMBDA k : k.is = "category")
        word == [i \in DOMAIN plain |-> plain[i].word]
        n == BrandLength(plain)
    IN  [ raw |-> t.tokens # <<>> \/ t.marker,
          brand |-> SubSeq(word, 1, n), model |-> SubSeq(word, n + 1, Len(word)),
          year |-> Year(t), colours |-> WordsThat(t, "colour"),
          cat |-> IF cats = <<>> THEN "none" ELSE cats[1].cat ]

-------------------------------------------------------------------------------
(* seed_portfolio, apply_contradictions, bound_portfolio *)

\* A hypothesis: whose the brand and the year are, span when it is two years with a dash.
Hyp(brand, brandBy, model, year, span, yearBy, colour, cat, post) ==
    [ brand |-> brand, brandBy |-> brandBy, model |-> model, year |-> year, span |-> span,
      yearBy |-> yearBy, colour |-> colour, cat |-> cat, post |-> post, active |-> TRUE,
      aliases |-> <<>> ]

First1(s, none) == IF s = <<>> THEN none ELSE s[1]

\* The years read off the item: an instruction's words are not left out here, as they are
\* where the hypotheses are seeded.
YearsRead(marks) == {m.year : m \in {k \in ToSet(marks) : k.kind = "season"}} \ {0}
TrustedYears(marks) ==
    SelectSeq([i \in DOMAIN marks |-> IF marks[i].kind = "season" /\ ~marks[i].injected
                                      THEN marks[i].year ELSE 0], LAMBDA y : y # 0)

\* The identities to look for, with their first posteriors, per cent.
Seeds(p, an) ==
    LET cat == IF p.cat # "none" THEN p.cat ELSE an.categories[1]
        colour == First1(p.colours, "none")
        seen == SubSeq(Trusted(an.marks, "brand"), 1, Smaller(1, Len(Trusted(an.marks, "brand"))))
        seenYear == First1(TrustedYears(an.marks), 0)
        all ==
          Opt(p.raw, << Hyp(p.brand, "user", p.model, p.year, FALSE, "user", colour, cat, 38) >>)
          \o Opt(p.raw /\ p.model # <<>>,
                 << Hyp(p.brand, "user", p.model, p.year, FALSE, "user", colour, cat, 18) >>)
          \o Opt(p.raw /\ p.year # 0,
                 << Hyp(p.brand, "user", p.model, p.year, TRUE, "guess", colour, cat, 16) >>)
          \o << Hyp(seen, "photo", <<>>, seenYear, FALSE, "photo", "none", cat, 14) >>
          \o Opt(p.brand # <<>> /\ seen # <<>> /\ ToSet(seen) \cap ToSet(p.brand) = {},
                 << Hyp(seen, "photo", <<>>, seenYear, FALSE, "photo", colour, cat, 12) >>)
          \o Opt(Len(an.groups) > 1,
                 << Hyp(p.brand, "guess", <<>>, p.year, FALSE, "user", "none", cat, 8) >>)
    IN  all \o Opt(Len(all) < 2,
                   << Hyp(<<>>, "nobody", <<>>, 0, FALSE, "nobody", "none", "unknown", 10) >>)

Rounded(a, b) == (2 * a + b) \div (2 * b)

SumOf(hs) == LET sum[i \in 0..Len(hs)] == IF i = 0 THEN 0 ELSE sum[i - 1] + hs[i].post
             IN sum[Len(hs)]

Portioned(hs, total) ==
    [i \in DOMAIN hs |-> [hs[i] EXCEPT !.post = Rounded(10000 * @, Larger(1, total))]]

\* The shares are of the whole portfolio, of which the first few are kept.
Portfolio(p, an) ==
    LET seeds == Seeds(p, an)
    IN  SubSeq(Portioned(seeds, SumOf(seeds)), 1, Smaller(HypCeiling, Len(seeds)))

BrandConflict(h, marks) ==
    /\ h.brand # <<>> /\ h.brandBy = "user" /\ Trusted(marks, "brand") # <<>>
    /\ ToSet(Trusted(marks, "brand")) \cap ToSet(h.brand) = {}
YearConflict(h, marks) ==
    /\ h.year # 0 /\ ~h.span /\ h.yearBy = "user"
    /\ YearsRead(marks) # {} /\ h.year \notin YearsRead(marks)

\* What is written on the item lowers the user's brand and year.
Reweighed(h, marks) ==
    LET factor == (IF BrandConflict(h, marks) THEN 70 ELSE 100)
                * (IF YearConflict(h, marks) THEN 65 ELSE 100)
    IN  [h EXCEPT !.post = Larger(100, Rounded(@ * factor, 10000)),
                  !.active = @ /\ h.post * factor >= 400 * 10000]

Contradicted(hs, marks) ==
    LET all == [i \in DOMAIN hs |-> Reweighed(hs[i], marks)]
        active == SelectSeq(all, LAMBDA h : h.active)
    IN  Portioned(active, SumOf(active)) \o SelectSeq(all, LAMBDA h : ~h.active)

\* bound_portfolio: the likeliest first; the weak ones are archived, none is dropped.
Bounded(hs) ==
    LET ranked == SortSeq(SelectSeq(hs, LAMBDA h : h.active), LAMBDA g, h : g.post > h.post)
        kept(i) == i <= HypCeiling /\ ranked[i].post >= 300
        all == [i \in DOMAIN ranked |-> [ranked[i] EXCEPT !.active = kept(i)]]
    IN  SelectSeq(all, LAMBDA h : h.active) \o SelectSeq(all, LAMBDA h : ~h.active)
        \o SelectSeq(hs, LAMBDA h : ~h.active)

-------------------------------------------------------------------------------
(* drafts_for_hypothesis: what can be asked about one hypothesis *)

\* The tables of queries/languages.py, the words in Latin letters.
Terms ==
  [ used     |-> [en |-> "used", ja |-> "chuko", ko |-> "junggo", zh |-> "ershou",
                  fr |-> "occasion", it |-> "usato", ru |-> "bu"],
    archive  |-> [en |-> "archive", ja |-> "akaibu", ko |-> "akaibeu", zh |-> "archive",
                  fr |-> "archive", it |-> "archivio", ru |-> "arkhiv"],
    vintage  |-> [en |-> "vintage", ja |-> "vinteji", ko |-> "bintiji", zh |-> "guzhuo",
                  fr |-> "vintage", it |-> "vintage", ru |-> "vintazh"],
    sold     |-> [en |-> "sold", ja |-> "urikire", ko |-> "panmae", zh |-> "yishou",
                  fr |-> "vendu", it |-> "venduto", ru |-> "prodano"],
    footwear |-> [en |-> "sneaker", ja |-> "suniika", ko |-> "seunikeojeu", zh |-> "yundongxie",
                  fr |-> "basket", it |-> "sneaker", ru |-> "krossovki"],
    black    |-> [en |-> "black", ja |-> "burakku", ko |-> "beullaek", zh |-> "heise",
                  fr |-> "noir", it |-> "nero", ru |-> "chyornyi"],
    white    |-> [en |-> "white", ja |-> "howaito", ko |-> "hwaiteu", zh |-> "baise",
                  fr |-> "blanc", it |-> "bianco", ru |-> "belyi"],
    navy     |-> [en |-> "navy", ja |-> "neibi", ko |-> "neibi", zh |-> "zangqing",
                  fr |-> "marine", it |-> "navy", ru |-> "tyomnosinii"],
    grey     |-> [en |-> "grey", ja |-> "guree", ko |-> "geurei", zh |-> "huise",
                  fr |-> "gris", it |-> "grigio", ru |-> "seryi"] ]

\* translate_term: the local word, if the table has one.
Local(term, lang) == IF term \in DOMAIN Terms THEN <<Terms[term][lang]>> ELSE <<>>

\* transliterate_brand: a word in another script is another word.
Transliterated(brand, lang) ==
    IF lang \in {"ja", "ko", "ru"} THEN [i \in DOMAIN brand |-> brand[i] \o "@" \o lang] ELSE <<>>

\* The sources a language is asked of, by the form of query they are given.
Admitted(lang) ==
    IF lang = "en" THEN << "general", "core", "general", "general", "general", "core", "general",
                           "general", "general", "general" >>
    ELSE IF lang = "ja" THEN <<"shop", "shop", "core">> ELSE <<"core">>

\* source_queries: of a language's sources the first four get a query.
SourceTexts(h, lang) ==
    LET core == h.brand \o h.model
        text(form) == CASE form = "core" -> core
                        [] form = "shop" -> core \o Local("used", lang)
                        [] OTHER -> core \o Local(h.cat, lang) \o Local("used", lang)
        forms == Admitted(lang)
    IN  Opt(core # <<>>, [i \in 1..Smaller(4, Len(forms)) |-> text(forms[i])])

Draft(text, lang, r, family, novelty, cost) ==
    [text |-> text, lang |-> lang, round |-> r, family |-> family, novelty |-> novelty,
     cost |-> cost]

InOrder(langs) == SelectSeq(langs, LAMBDA l : l \in Languages)
ForEach(langs, drafts(_)) == FlattenSeq([i \in DOMAIN InOrder(langs) |-> drafts(InOrder(langs)[i])])

ExactDrafts(h) ==
    LET name == h.brand \o h.model
        exact(text, novelty) == Draft(text, "en", 0, "exact_name", novelty, 10)
    IN  IF h.brand = <<>> THEN <<>>
        ELSE IF h.model = <<>> THEN << exact(h.brand, 60) >>
        ELSE << exact(name, 100) >>
             \o Opt(h.year # 0 /\ ~h.span, << exact(Append(name, ToString(h.year)), 85) >>)
             \o Opt(h.colour # "none", << exact(Append(name, h.colour), 70) >>)

\* An alias is asked for from a confidence of 0.5; no seed names a designer.
LearnedDrafts(h, codes) ==
    LET sure == SelectSeq(h.aliases, LAMBDA a : a.sure >= 50)
        code(k) == << Draft(Append(h.brand, codes[k]), "en", 1, "product_code", 80, 10),
                      Draft(<<codes[k]>>, "en", 1, "product_code", 75, 10) >>
    IN  [i \in 1..Smaller(3, Len(sure)) |->
            Draft(h.brand \o sure[i].words, "en", 1, "alias", 70, 12)]
        \o FlattenSeq([k \in 1..Smaller(2, Len(codes)) |-> code(k)])

TranslatedDrafts(h, lang) ==
    LET kind == IF h.cat = "unknown" THEN "footwear" ELSE h.cat
        local(word, novelty) == Opt(word # <<>>,
            << Draft(h.brand \o word, lang, 2, "multilingual", novelty, 15) >>)
        written == Transliterated(h.brand, lang)
    IN  Opt(h.brand # <<>>,
            local(Local("used", lang), 70) \o local(Local("archive", lang), 65)
            \o local(Local(kind, lang), 60) \o local(Local(h.colour, lang), 50))
        \o Opt(written # <<>>,
               << Draft(written \o Local("used", lang), lang, 2, "multilingual", 72, 16) >>)

SourceDrafts(h, lang) ==
    LET texts == SourceTexts(h, lang)
    IN  [i \in DOMAIN texts |-> Draft(texts[i], lang, 3, "source_specific", 45, 12)]

ArchivalDrafts(h, lang) ==
    Opt(h.brand # <<>>,
        << Draft(h.brand \o h.model \o Local("sold", lang), lang, 4, "archival", 40, 14),
           Draft(h.brand \o Local("vintage", lang), lang, 4, "archival", 38, 14) >>)

NegativeDrafts(h) ==
    Opt(h.brand # <<>>,
        << Draft(h.brand \o h.model \o <<"authentication">>, "en", 4, "negative_research", 50, 14),
           Draft(h.brand \o h.model \o <<"replica", "differences">>, "en", 5,
                 "negative_research", 45, 18) >>)

\* The visual family is empty: a signature's distinctive_relations are.
Drafts(h, codes) ==
    ExactDrafts(h) \o LearnedDrafts(h, codes)
    \o ForEach(<<"ja", "ko", "zh", "fr", "it", "ru">>, LAMBDA l : TranslatedDrafts(h, l))
    \o ForEach(<<"en", "ja", "ko", "zh", "fr", "it", "ru">>, LAMBDA l : SourceDrafts(h, l))
    \o ForEach(<<"en", "ja", "fr">>, LAMBDA l : ArchivalDrafts(h, l))
    \o NegativeDrafts(h)

-------------------------------------------------------------------------------
(* compile_plan: which drafts become queries *)

\* jaccard, as the two counts of the fraction.
Common(s, t) == Cardinality(ToSet(s) \cap ToSet(t))
Either(s, t) == Cardinality(ToSet(s) \cup ToSet(t))

\* The fraction of the nearest query asked before.
Overlap(text, prior) ==
    LET near == {<<Common(text, q.text), Either(text, q.text)>> : q \in ToSet(prior)}
    IN  IF prior = <<>> THEN <<0, 1>>
        ELSE CHOOSE f \in near : \A g \in near : f[1] * g[2] >= g[1] * f[2]

\* score_gain: likely, new, unlike what was asked, to many sources, and cheap.
Gain(h, d, overlap) ==
    LET coverage == 40 + Smaller(100, 25 * Len(Admitted(d.lang)))
        fresh == overlap[2] - overlap[1]
    IN  Rounded(((h.post * d.novelty * coverage) \div 100) * fresh,
                overlap[2] * (100 + d.cost))

Variants(hs, codes, prior) ==
    LET of(k) == LET ds == Drafts(hs[k], codes) IN
                 [i \in DOMAIN ds |-> ds[i] @@ [hyp |-> k,
                     gain |-> Gain(hs[k], ds[i], Overlap(ds[i].text, prior))]]
    IN  FlattenSeq([k \in DOMAIN hs |-> of(k)])

\* order_by_gain; the order in which they are drafted stands for the alphabetical one that
\* queries of one gain and one cost have.
ByGain(qs) == SortSeq(qs, LAMBDA p, q : p.gain > q.gain \/ (p.gain = q.gain /\ p.cost < q.cost))

Folded(qs, start, step(_, _)) ==
    LET after[i \in 0..Len(qs)] == IF i = 0 THEN start ELSE step(after[i - 1], qs[i])
    IN  after[Len(qs)]

\* dedupe_queries: a query like one before it is dropped.
Deduped(qs) ==
    Folded(qs, <<>>, LAMBDA kept, q :
        IF \E k \in DOMAIN kept :
              100 * Common(q.text, kept[k].text) >= 86 * Either(q.text, kept[k].text)
        THEN kept ELSE Append(kept, q))

Floor == [r \in 1..5 |-> 200 * (r + 1)]

\* Rounds are enabled in order up to the first that has no query worth its floor.
Enabled(qs) ==
    LET in(r) == {i \in DOMAIN qs : qs[i].round = r}
    IN  {r \in 0..5 : \A k \in 1..r : in(k) = {} \/ \E i \in in(k) : qs[i].gain >= Floor[k]}

\* The queries within the caps of their family and their round; one over a cap still counts
\* towards the others.
Capped(qs) ==
    LET on == SelectSeq(qs, LAMBDA q : q.round \in Enabled(qs))
        before(i, same(_)) == Cardinality({j \in 1..i : same(on[j])})
        in(i) == /\ before(i, LAMBDA q : q.family = on[i].family) <= MaxPerFamily
                 /\ before(i, LAMBDA q : q.round = on[i].round) <= MaxPerRound
        kept == Folded([i \in DOMAIN on |-> i], <<>>,
                       LAMBDA some, i : IF in(i) THEN Append(some, on[i]) ELSE some)
    IN  SubSeq(kept, 1, Smaller(Ceiling, Len(kept)))

LanguagesOf(qs) == {qs[i].lang : i \in DOMAIN qs}

\* Mutated form of Spare: any query may give way.
SpareAny(qs) == {i \in DOMAIN qs : TRUE}

\* The queries whose language has another.
Spare(qs) == {i \in DOMAIN qs : \E j \in DOMAIN qs \ {i} : qs[j].lang = qs[i].lang}

\* A language without a query gets one: a free place, or that of the least gain among the
\* languages that have two.
WithLanguages(qs, all) ==
    Folded(SelectSeq(all, LAMBDA q : q.round \in Enabled(all)), qs, LAMBDA some, q :
        IF q.lang \in LanguagesOf(some) THEN some
        ELSE IF Len(some) < Ceiling THEN Append(some, q)
        ELSE IF Spare(some) = {} THEN some
        ELSE LET least == CHOOSE i \in Spare(some) : \A j \in Spare(some) :
                              some[i].gain < some[j].gain \/ (some[i].gain = some[j].gain /\ i <= j)
             IN  Append(RemoveAt(some, least), q))

Candidates(hs, codes, prior) == Deduped(ByGain(Variants(hs, codes, prior)))

\* compile_queries: if nothing can be asked, the user's own words are.
Compiled(hs, an, codes, prior, words) ==
    LET all == Candidates(SelectSeq(hs, LAMBDA h : h.post > 0),
                          codes \o Trusted(an.marks, "product_code"), prior)
        plan == WithLanguages(Capped(all), all)
    IN  IF plan # <<>> THEN plan
        ELSE Opt(words # <<>>, << Draft(words, "en", 0, "user_fallback", 100, 10)
                                  @@ [hyp |-> 1, gain |-> 4000] >>)

-------------------------------------------------------------------------------
(* _learn_terms: what the listings found teach *)

\* assess_code: a size is not a code, and a reading needs a structured source and either the
\* photograph or agreement among the candidates.
Promotable(code, onPhoto, structured, agreed) ==
    ~code.sized /\ (onPhoto \/ structured) /\ (onPhoto \/ agreed) /\ ~code.short

\* Neither is ever claimed of a listing's codes.
CodesLearned(listings) ==
    LET codes == FlattenSeq([i \in DOMAIN listings |->
                     IF listings[i].barred THEN <<>>
                     ELSE SelectSeq(listings[i].codes, LAMBDA c :
                              Promotable(c, FALSE, listings[i].structured, FALSE))])
    IN  [i \in DOMAIN codes |-> codes[i].word]

\* can_promote_alias of evidence that is titles alone: two sources give it.  The alias is
\* then as sure as one listing's title is (promote_or_hold).
CanPromote(sources) == Cardinality(sources) >= 2
TitleSure == 45

TitlesLearned(listings) ==
    LET open == SelectSeq(listings, LAMBDA l : ~l.barred /\ l.title # <<>>)
        sources(t) == {l.adapter : l \in {k \in ToSet(open) : k.title = t}}
        titles == Folded([i \in DOMAIN open |-> open[i].title], <<>>,
                         LAMBDA some, t : IF t \in ToSet(some) THEN some ELSE Append(some, t))
    IN  SelectSeq(titles, LAMBDA t : CanPromote(sources(t)))

\* _primary_hypothesis: the first of the likeliest.
Primary(hs) == CHOOSE k \in DOMAIN hs : \A j \in DOMAIN hs :
                   hs[j].post < hs[k].post \/ (hs[j].post = hs[k].post /\ k <= j)

WithAliases(hs, titles) ==
    [hs EXCEPT ![Primary(hs)].aliases = @ \o [i \in DOMAIN titles |->
                                                [words |-> titles[i], sure |-> TitleSure]]]

-------------------------------------------------------------------------------
(* The wave, and the rounds after it. *)

NoReading == [marks |-> <<>>, groups |-> <<>>, categories |-> <<>>, views |-> <<>>,
              weights |-> <<>>]

InquiryInit ==
    /\ \E r \in Requests : photos = r.photos
                        /\ typed = [tokens |-> r.tokens, marker |-> r.marker]
    /\ stage = "validate" /\ reading = NoReading
    /\ hyps = <<>> /\ queries = <<>> /\ found = <<>> /\ round = 1

\* ingest_paths: every photograph is taken, or the campaign fails.
Ingest ==
    /\ stage = "validate"
    /\ stage' = IF Len(photos) \in 1..MaxImages /\ \A p \in ToSet(photos) : Refusal(p) = "none"
                THEN "read" ELSE "failed"
    /\ UNCHANGED <<photos, typed, reading, hyps, queries, found, round>>

\* CALIBRATING_REFERENCES
Analyse ==
    /\ stage = "read"
    /\ IF \E p \in ToSet(photos) : DecodeFails(p)
       THEN stage' = "failed" /\ UNCHANGED reading
       ELSE stage' = "form" /\ reading' = Analysis(photos, typed.tokens, Lanes)
    /\ UNCHANGED <<photos, typed, hyps, queries, found, round>>

\* FORMING_HYPOTHESES
FormHypotheses ==
    /\ stage = "form" /\ stage' = "plan"
    /\ hyps' = Bounded(Contradicted(Portfolio(Parsed(typed), reading), reading.marks))
    /\ UNCHANGED <<photos, typed, reading, queries, found, round>>

InRound(qs) == [i \in DOMAIN qs |-> qs[i] @@ [asked |-> round]]

\* PLANNING_QUERIES
PlanQueries ==
    /\ stage = "plan" /\ stage' = "discover"
    /\ queries' = InRound(Compiled(hyps, reading, <<>>, <<>>,
                      [i \in DOMAIN typed.tokens |-> typed.tokens[i].word]))
    /\ UNCHANGED <<photos, typed, reading, hyps, found, round>>

\* A round of discovery, of which only the listings matter here.
Discover ==
    /\ stage = "discover" /\ stage' = "learn"
    /\ \E listings \in Finds : found' = found \o listings
    /\ UNCHANGED <<photos, typed, reading, hyps, queries, round>>

\* The last round, or the campaign is to stop.
EndRounds ==
    /\ stage = "learn" /\ stage' = "over"
    /\ UNCHANGED <<photos, typed, reading, hyps, queries, found, round>>

\* Mutated form of Fresh: what was asked is not looked at.
FreshAgain(new, old) == new

\* The queries no earlier one has the words of.
Fresh(new, old) == SelectSeq(new, LAMBDA q : \A o \in ToSet(old) : o.text # q.text)

\* _replan: with something learned the plan is made again, of what is left to ask.
Replan ==
    /\ stage = "learn" /\ round < MaxRounds
    /\ LET titles == TitlesLearned(found)
           codes == CodesLearned(found)
           learned == WithAliases(hyps, titles)
           new == Fresh(Compiled(learned, reading, codes, queries, <<>>), queries)
       IN  /\ hyps' = learned
           /\ \/ /\ titles = <<>> /\ codes = <<>> /\ stage' = "over"
                 /\ UNCHANGED <<queries, round>>
              \/ /\ titles # <<>> \/ codes # <<>>
                 /\ new = <<>> /\ stage' = "over" /\ UNCHANGED <<queries, round>>
              \/ /\ titles # <<>> \/ codes # <<>>
                 /\ new # <<>> /\ stage' = "discover" /\ round' = round + 1
                 /\ queries' = queries \o [i \in DOMAIN new |-> new[i] @@ [asked |-> round + 1]]
    /\ UNCHANGED <<photos, typed, reading, found>>

InquiryNext == \/ Ingest \/ Analyse \/ FormHypotheses \/ PlanQueries \/ Discover
               \/ EndRounds \/ Replan

InquirySpec == InquiryInit /\ [][InquiryNext]_inquiryVars

-------------------------------------------------------------------------------
(* Properties. *)

\* Every language that some query of an enabled round is drafted in is asked in, when there
\* are no more such languages than queries: neither the caps nor the better queries of
\* another language take its place (compile_plan).
LanguagesCovered ==
    stage = "discover" /\ round = 1 =>
        LET all == Candidates(hyps, Trusted(reading.marks, "product_code"), <<>>)
            worth == LanguagesOf(SelectSeq(all, LAMBDA q : q.round \in Enabled(all)))
        IN  Cardinality(worth) <= Ceiling => worth \subseteq LanguagesOf(queries)

\* No query is asked twice in a campaign, in one round or in two (dedupe_queries, _replan).
NothingAskedTwice ==
    \A i, j \in DOMAIN queries : i # j => queries[i].text # queries[j].text

\* Two photographs are taken for one item exactly when a chain of photographs, each like the
\* next, leads from one to the other (unify_references).
GroupsAreComponents ==
    stage # "validate" /\ reading.groups # <<>> =>
        LET linked[n \in Nat] ==
                IF n = 0 THEN {<<i, i>> : i \in DOMAIN photos}
                ELSE linked[n - 1] \cup
                     {<<i, k>> \in (1..Len(photos)) \X (1..Len(photos)) :
                         \E j \in DOMAIN photos : /\ <<i, j>> \in linked[n - 1]
                                                  /\ Near(photos[j], photos[k])}
        IN  \A i, j \in DOMAIN photos :
                <<i, j>> \in linked[Len(photos)] <=>
                \E g \in ToSet(reading.groups) : {i, j} \subseteq g

\* A photograph of a view no other shows weighs at least what it would among others of its
\* view, though its second scoring knows nothing of the donor's warnings.
UniqueAngleGains ==
    \A i \in DOMAIN reading.weights : reading.weights[i] >= FirstWeight(photos[i])

===============================================================================
