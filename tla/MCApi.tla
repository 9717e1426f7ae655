-------------------------------- MODULE MCApi ---------------------------------
(***************************************************************************)
(* The API process, in three views of it that share no variable, of which  *)
(* a behaviour takes one: Budget (two of its threads charge the budget of  *)
(* a campaign, beside a `campaign resume` process on its one thread),      *)
(* Service (requests and workers over the rows of searches) and Display    *)
(* (what a reader is shown of one search).                                 *)
(***************************************************************************)
EXTENDS Budget, Service, Display, TLC

CONSTANTS api, cli, t1, t2, t3

MCHome == t1 :> api @@ t2 :> api @@ t3 :> cli

MCCeiling == Amount(2, 1, 2)

-------------------------------------------------------------------------------
Source(id) ==
    [ id |-> id, made |-> TRUE, enabled |-> TRUE, secret |-> FALSE, barred |-> FALSE,
      speaks |-> TRUE, answers |-> TRUE ]
MCOrder ==
    { Source("rebag"), [Source("ebay") EXCEPT !.secret = TRUE],
      [Source("searx") EXCEPT !.answers = FALSE], [Source("kind") EXCEPT !.speaks = FALSE],
      [Source("yupoo") EXCEPT !.enabled = FALSE] }

Told(id, outcome) == [id |-> id, outcome |-> outcome]
MCWalks ==
    { <<Told("rebag", "SEARCHED_MATCHES_FOUND"), Told("ebay", "AUTH_REQUIRED")>>,
      <<Told("kind", "NOT_ATTEMPTED"), Told("rebag", "NETWORK_FAILED")>> }

MCForms == [key : {"k"}, images : {"fine", "many"}, hostile : {FALSE}]

-------------------------------------------------------------------------------
Listing(recall, match, auth, lacks, reads) ==
    [ recall |-> recall, complete |-> 700, reads |-> reads, avail |-> "UNKNOWN", dest |-> FALSE,
      offer |-> [footwear |-> TRUE, link |-> "ok", words |-> FALSE, family |-> "RETAIL"],
      match |-> [hard |-> {}, lower |-> match, missing |-> {}],
      auth |-> [hard |-> {}, mean |-> 900, lower |-> auth, missing |-> lacks],
      against |-> {}, missing |-> {}, support |-> {"s"}, image |-> "own", compared |-> {"i"} ]

UpAndSold == <<"LIVE", "LIVE", "SOLD">>
Close == Listing(400, 950, 800, {}, UpAndSold)
Vague == Listing(900, 500, 300, {"views"}, <<"UNKNOWN", "LIVE", "LIVE">>)
Unlike ==
    [Listing(-1, 300, 300, {}, UpAndSold) EXCEPT !.image = "none", !.compared = {}, !.support = {}]
Dearer == [Listing(700, 950, 900, {}, UpAndSold) EXCEPT !.against = {"price"}]
Copied ==
    [Listing(700, 450, 900, {}, UpAndSold) EXCEPT
        !.offer.family = "REPLICA", !.auth.hard = {"logo-incompatible"}]
MCHauls ==
    { <<>>, <<Close>>, <<Vague, Unlike>>, <<Dearer, Close>>, <<Unlike, Copied>>, <<Vague, Close>> }

-------------------------------------------------------------------------------
VARIABLE part  \* which of the three a behaviour is of

ApiInit ==
    /\ part \in {"budget", "service", "display"}
    /\ Init /\ ServiceInit /\ DisplayInit
    /\ live => part = "service"

ApiNext ==
    \/ part = "budget" /\ Next /\ UNCHANGED <<part, serviceVars, displayVars>>
    \/ part = "service" /\ ServiceNext /\ UNCHANGED <<part, vars, displayVars>>
    \/ part = "display" /\ DisplayNext /\ UNCHANGED <<part, vars, serviceVars>>

ApiSpec == ApiInit /\ [][ApiNext]_<<part, vars, serviceVars, displayVars>>
===============================================================================
