------------------------------- MODULE Fetching -------------------------------
(***************************************************************************)
(* The threads of one engine that fetch pages of one host: Escalator.fetch *)
(* and render (sources/fetch_modes.py) over the DeadlineHttpClient of      *)
(* workers/bounded_discovery.py.  A source thread has a deadline; the      *)
(* threads that check the listings start when the sources have ended, and  *)
(* have none.  All share the host's limiter: a thread reserves the next    *)
(* slot under its lock, and sleeps to the slot outside.                    *)
(*                                                                         *)
(* Time is relative: what is left of a deadline, of a sleep, and how far   *)
(* the limiter's last slot is from now.                                    *)
(*                                                                         *)
(* Left out: the campaign's cancel flag (Discovery), the token bucket,     *)
(* which this engine drops, bytes, redirects, and what the pages hold.     *)
(***************************************************************************)
EXTENDS Integers

CONSTANTS
    Sources, Checkers,  \* the threads
    Urls, Wants,        \* the pages of the host; those each thread asks for
    NoUrl,
    Deadline,           \* source_deadline_seconds
    Low, High,          \* a page's base_delay, jittered: 0.7 and 1.3 times
    RobotsGap,          \* base_delay of robots.txt, jittered
    Naps,               \* what a retry may sleep
    RetryCeiling,       \* RETRY_CEILING
    Ceiling,            \* the campaign's page ceiling
    Replies,            \* the outcomes classify_http may give a page
    MaxLapses           \* bound: how often the robots snapshot lapses

Fetchers == Sources \union Checkers

ASSUME FetchConstants ==
    /\ Sources \intersect Checkers = {} /\ NoUrl \notin Urls
    /\ Wants \in [Fetchers -> SUBSET Urls]
    /\ {Deadline, RobotsGap, Ceiling, MaxLapses} \subseteq Nat
    /\ Low \in Nat \ {0} /\ High \in Nat /\ Low <= High /\ RobotsGap <= High
    /\ RetryCeiling \in Nat \ {0} /\ Naps \subseteq Nat

\* SourceOutcome, with one name for the outcomes that end a fetch alike:
\* NO_MATCH stands for AUTH_REQUIRED, PARSER_FAILED and UNMEASURABLE too.
Retried == {"RATE_LIMITED", "NETWORK_FAILED", "SOURCE_UNAVAILABLE"}
FetchOutcomes == Retried \union {"NOT_ATTEMPTED", "MATCHES_FOUND", "NO_MATCH",
                            "BLOCKED_BY_ACCESS", "BLOCKED_BY_POLICY"}
ASSUME AnswersAssumption ==
    Replies \subseteq FetchOutcomes \ {"NOT_ATTEMPTED", "BLOCKED_BY_POLICY"}

VARIABLES
    limiter,   \* the host's: the kind of its base_delay, and last_at - now
    robots,    \* what the robots snapshot says, "none" when it has lapsed
    cache,     \* the pages in the response cache
    used,      \* pages charged
    place,        \* each thread: the place reached
    todo, url, \* the pages it has not begun, and the one at work
    gate,      \* what it asks the admission gate for
    left,      \* what is left of its deadline
    rest,      \* what is left of its sleep
    tries,     \* attempt
    doc,       \* the outcome it has returned last
    \* History.
    lapses, made,   \* lapses; limiters made
    mine,           \* the limiter the sleeping thread has its slot of
    read, rendered  \* this fetch: HTTP gave the page; the browser answered

work == <<place, todo, url, gate, tries, doc>>
time == <<left, rest>>
past == <<read, rendered>>
fetchVars == <<limiter, robots, cache, used, work, time, lapses, made, mine, past>>

FetchPlaces == {"idle", "gate", "robots", "attempt", "asked", "backoff", "browser", "ended"}
Kinds == {"page", "robots"}

FetchTypes ==
    /\ limiter \in [for : Kinds \union {"none"}, at : Int]
    /\ robots \in {"none", "allows", "failed"}
    /\ cache \subseteq Urls /\ used \in 0..Ceiling
    /\ place \in [Fetchers -> FetchPlaces]
    /\ todo \in [Fetchers -> SUBSET Urls]
    /\ url \in [Fetchers -> Urls \union {NoUrl}]
    /\ gate \in [Fetchers -> {"fetch", "render"}]
    /\ left \in [Fetchers -> 0..Deadline] /\ rest \in [Fetchers -> Nat]
    /\ tries \in [Fetchers -> 0..RetryCeiling]
    /\ doc \in [Fetchers -> FetchOutcomes]
    /\ lapses \in 0..MaxLapses /\ made \in Nat /\ mine \in [Fetchers -> Nat]
    /\ {read, rendered} \subseteq [Fetchers -> BOOLEAN]

FetchInit ==
    /\ limiter = [for |-> "none", at |-> -High]
    /\ robots = "none" /\ cache = {} /\ used = 0
    /\ place = [t \in Fetchers |-> "idle"]
    /\ todo = Wants /\ url = [t \in Fetchers |-> NoUrl]
    /\ gate = [t \in Fetchers |-> "fetch"]
    /\ left = [t \in Fetchers |-> Deadline] /\ rest = [t \in Fetchers |-> 0]
    /\ tries = [t \in Fetchers |-> 0]
    /\ doc = [t \in Fetchers |-> "NOT_ATTEMPTED"]
    /\ lapses = 0 /\ made = 0 /\ mine = [t \in Fetchers |-> 0]
    /\ read = [t \in Fetchers |-> FALSE] /\ rendered = read

\* remaining() of a source thread; a checker has no deadline.
OutOfTime(t) == t \in Sources /\ left[t] = 0

To(t, where) == place' = [place EXCEPT ![t] = where]

\* fetch returns a document with this outcome.
Return(t, o) ==
    /\ To(t, "idle")
    /\ doc' = [doc EXCEPT ![t] = o]
    /\ url' = [url EXCEPT ![t] = NoUrl]

-----------------------------------------------------------------------------
(* The limiter: limiter_for and _pace_wait                                 *)

Jittered(kind) == IF kind = "page" THEN Low..High ELSE {RobotsGap}

\* A caller with another base_delay finds a limiter that has given no slot.
LastSlot(kind) == IF limiter.for = kind THEN limiter.at ELSE -High

\* Mutated form of NextSlot: last_at is set to now, and not to the slot.
SlotFromNow(kind, w) == [for |-> kind, at |-> 0]

NextSlot(kind, w) == [for |-> kind, at |-> w]

\* How far ahead the slot is, for one draw of the jitter.
Wait(kind, g) == IF -LastSlot(kind) >= g THEN 0 ELSE g + LastSlot(kind)

\* The slot is reserved whether or not its caller will use it.
Reserve(kind, w) ==
    /\ limiter' = NextSlot(kind, w)
    /\ made' = IF limiter.for = kind THEN made ELSE made + 1

InTime(t, w) == t \in Sources => w <= left[t]

\* request: the thread sleeps to its slot, and asks; one that waits for an answer
\* with no rest left has its request on the wire.
Ask(t, kind, where) ==
    /\ ~OutOfTime(t)
    /\ \E g \in Jittered(kind) :
         /\ InTime(t, Wait(kind, g)) /\ Reserve(kind, Wait(kind, g))
         /\ rest' = [rest EXCEPT ![t] = Wait(kind, g)]
    /\ mine' = [mine EXCEPT ![t] = made']
    /\ To(t, where)

\* request raises: no time is left, or not enough for the slot.
TooLate(t, kind) ==
    \/ OutOfTime(t) /\ UNCHANGED <<limiter, made>>
    \/ /\ ~OutOfTime(t)
       /\ \E g \in Jittered(kind) :
            ~InTime(t, Wait(kind, g)) /\ Reserve(kind, Wait(kind, g))

-----------------------------------------------------------------------------
(* A page                                                                  *)

\* Mutated form of TakenUp: a page there is no time for is left for later.
LeftForLater(t, u) ==
    IF OutOfTime(t) THEN todo ELSE [todo EXCEPT ![t] = @ \ {u}]

TakenUp(t, u) == [todo EXCEPT ![t] = @ \ {u}]

\* _fetch_item, and fetch up to the gate.  A source out of time answers for
\* the page itself.
Begin(t) ==
    /\ place[t] = "idle"
    /\ t \in Checkers => \A s \in Sources : place[s] = "ended"
    /\ \E u \in todo[t] :
         /\ todo' = TakenUp(t, u)
         /\ IF OutOfTime(t)
            THEN doc' = [doc EXCEPT ![t] = "SOURCE_UNAVAILABLE"] /\ UNCHANGED <<place, url>>
            ELSE url' = [url EXCEPT ![t] = u] /\ To(t, "gate") /\ UNCHANGED doc
    /\ gate' = [gate EXCEPT ![t] = "fetch"]
    /\ read' = [read EXCEPT ![t] = FALSE]
    /\ rendered' = [rendered EXCEPT ![t] = FALSE]
    /\ UNCHANGED <<limiter, robots, cache, used, tries, time, lapses, made, mine>>

End(t) ==
    /\ place[t] = "idle" /\ todo[t] = {}
    /\ t \in Checkers => \A s \in Sources : place[s] = "ended"
    /\ To(t, "ended")
    /\ UNCHANGED <<limiter, robots, cache, used, todo, url, gate, tries, doc, time,
                   lapses, made, mine, past>>

\* What follows the decision: the cache and the first attempt, or the browser.
Admitted(t) ==
    IF gate[t] = "render" THEN To(t, "browser") /\ UNCHANGED <<url, doc, tries>>
    ELSE IF url[t] \in cache THEN Return(t, "MATCHES_FOUND") /\ UNCHANGED tries
    ELSE /\ To(t, "attempt")
         /\ tries' = [tries EXCEPT ![t] = 1]
         /\ UNCHANGED <<url, doc>>

\* A page that may not be rendered is returned as refused, with no body.
Refused(t) == Return(t, "BLOCKED_BY_POLICY") /\ UNCHANGED tries

\* decide with a snapshot in hand.
Gate(t) ==
    /\ place[t] = "gate" /\ robots # "none"
    /\ IF robots = "allows" THEN Admitted(t) ELSE Refused(t)
    /\ UNCHANGED <<limiter, robots, cache, used, todo, gate, time, lapses, made, mine, past>>

\* decide without one: _fetch_robots asks the host, paced with its own delay.
\* A request that cannot be made in time is remembered as a failure of the host.
AskRobots(t) ==
    /\ place[t] = "gate" /\ robots = "none"
    /\ \/ Ask(t, "robots", "robots") /\ UNCHANGED <<robots, url, doc, tries>>
       \/ /\ TooLate(t, "robots")
          /\ robots' = "failed" /\ Refused(t) /\ UNCHANGED <<rest, mine>>
    /\ UNCHANGED <<cache, used, todo, gate, left, lapses, past>>

RobotsAnswer(t) ==
    /\ place[t] = "robots" /\ rest[t] = 0
    /\ \/ robots' = "allows" /\ Admitted(t)
       \/ robots' = "failed" /\ Refused(t)
    /\ UNCHANGED <<limiter, cache, used, todo, gate, time, lapses, made, mine, past>>

-----------------------------------------------------------------------------
(* The attempts                                                            *)

\* should_retry, and the gate the engine puts before it.
MayRetry(t, o) == o \in Retried /\ tries[t] < RetryCeiling /\ ~OutOfTime(t)

\* gated_backoff.
Nap(t, n) == IF t \in Sources /\ n > left[t] THEN left[t] ELSE n

BackOff(t) ==
    /\ \E n \in Naps : rest' = [rest EXCEPT ![t] = Nap(t, n)]
    /\ To(t, "backoff") /\ UNCHANGED <<url, doc>>

RetryOrReturn(t, o) ==
    \/ MayRetry(t, o) /\ BackOff(t)
    \/ ~MayRetry(t, o) /\ Return(t, o) /\ UNCHANGED rest

\* The page is charged first; a request the client refuses is a network failure.
Attempt(t) ==
    /\ place[t] = "attempt" /\ used < Ceiling
    /\ used' = used + 1
    /\ \/ Ask(t, "page", "asked") /\ UNCHANGED <<url, doc>>
       \/ /\ TooLate(t, "page") /\ RetryOrReturn(t, "NETWORK_FAILED")
          /\ UNCHANGED mine
    /\ UNCHANGED <<robots, cache, todo, gate, tries, left, lapses, past>>

\* BudgetExceeded leaves the source's thread; among the checkers, map_by_host
\* takes up no other page after the first error.
Broke(t) ==
    /\ place[t] = "attempt" /\ used = Ceiling
    /\ To(t, "ended")
    /\ todo' = [x \in Fetchers |->
                  IF x = t \/ {x, t} \subseteq Checkers THEN {} ELSE todo[x]]
    /\ url' = [url EXCEPT ![t] = NoUrl]
    /\ UNCHANGED <<limiter, robots, cache, used, gate, tries, doc, time,
                   lapses, made, mine, past>>

\* The host's answer, or none.  A page that was read is cached, and may call
\* for the browser.
Answer(t) ==
    /\ place[t] = "asked" /\ rest[t] = 0
    /\ \E o \in Replies :
         /\ read' = [read EXCEPT ![t] = o = "MATCHES_FOUND"]
         /\ cache' = IF o = "MATCHES_FOUND" THEN cache \union {url[t]} ELSE cache
         /\ \/ RetryOrReturn(t, o) /\ UNCHANGED gate
            \/ /\ o = "MATCHES_FOUND"
               /\ gate' = [gate EXCEPT ![t] = "render"]
               /\ To(t, "gate") /\ UNCHANGED <<url, doc, rest>>
    /\ UNCHANGED <<limiter, robots, used, todo, tries, left, lapses, made, mine, rendered>>

Retry(t) ==
    /\ place[t] = "backoff" /\ rest[t] = 0
    /\ tries' = [tries EXCEPT ![t] = @ + 1]
    /\ To(t, "attempt")
    /\ UNCHANGED <<limiter, robots, cache, used, todo, url, gate, doc, time,
                   lapses, made, mine, past>>

\* One GET by the browser, unpaced.  When it never ran, or gave no body, the
\* page that HTTP gave is kept; else its answer is the answer.
Browse(t) ==
    /\ place[t] = "browser"
    /\ \/ Return(t, "MATCHES_FOUND") /\ UNCHANGED rendered
       \/ \E o \in Replies :
            /\ Return(t, o)
            /\ rendered' = [rendered EXCEPT ![t] = TRUE]
    /\ UNCHANGED <<limiter, robots, cache, used, todo, gate, tries, time,
                   lapses, made, mine, read>>

-----------------------------------------------------------------------------

\* The robots snapshot is over its lifetime.
Lapse ==
    /\ robots # "none" /\ lapses < MaxLapses
    /\ robots' = "none" /\ lapses' = lapses + 1
    /\ UNCHANGED <<limiter, cache, used, work, time, made, mine, past>>

Less(n, floor) == IF n > floor THEN n - 1 ELSE n

\* Slots older than the longest gap are all alike.
Pass ==
    /\ limiter' = [limiter EXCEPT !.at = Less(@, -High)]
    /\ left' = [t \in Fetchers |-> Less(left[t], 0)]
    /\ rest' = [t \in Fetchers |-> Less(rest[t], 0)]
    /\ UNCHANGED <<robots, cache, used, work, lapses, made, mine, past>>

Step(t) ==
    \/ Begin(t) \/ End(t) \/ Gate(t) \/ AskRobots(t) \/ RobotsAnswer(t)
    \/ Attempt(t) \/ Broke(t) \/ Answer(t) \/ Retry(t) \/ Browse(t)

FetchNext == Pass \/ Lapse \/ \E t \in Fetchers : Step(t)

\* Every request ends, by its answer or by its timeout, and time passes.
Fairness == WF_fetchVars(Pass) /\ \A t \in Fetchers : WF_fetchVars(Step(t))

FetchSpec == FetchInit /\ [][FetchNext]_fetchVars /\ Fairness

-----------------------------------------------------------------------------
(* Properties                                                              *)

Asleep(t) == place[t] \in {"robots", "asked"} /\ rest[t] > 0

\* Two threads that wait for slots of one limiter do not wake within its
\* shortest gap of each other: the reservation is made under the lock, the sleep
\* is not, and the order they wake in is that of their slots (_pace_wait).
SlotsApart ==
    \A t, u \in Fetchers :
        t # u /\ Asleep(t) /\ Asleep(u) /\ mine[t] = mine[u] =>
            LET gap == IF place[t] = "asked" THEN Low ELSE RobotsGap IN
            rest[t] - rest[u] >= gap \/ rest[u] - rest[t] >= gap

\* However the host answers, and however far ahead others have reserved its
\* slots, every thread comes to the end of its pages (fetch, should_retry,
\* DeadlineHttpClient).
FetchesEnd == \A t \in Fetchers : <>(place[t] = "ended")

\* Not run, since they fail; the README says how.

\* The HTTP page is kept when the browser never ran (_prefer_rendered).
HttpBodyKept ==
    \A t \in Fetchers :
        place[t] = "idle" /\ read[t] /\ ~rendered[t] => doc[t] = "MATCHES_FOUND"

\* The next slot is no further ahead than the threads that wait for one account for.
SlotsAreUsed ==
    limiter.at > 0 => \E t \in Fetchers : Asleep(t) /\ rest[t] >= limiter.at

\* The host's robots file counts as failed only when the host was asked for it.
RobotsFailureIsTheHosts ==
    [][robots = "none" /\ robots' = "failed" => \E t \in Fetchers : place[t] = "robots"]_fetchVars
===============================================================================
