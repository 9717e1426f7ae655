------------------------------ MODULE MCDiscovery ------------------------------
(***************************************************************************)
(* TLC instance of Discovery: two sources; one finds two pages for the     *)
(* query, and a third through a link that leads back, the other one page.  *)
(***************************************************************************)
EXTENDS Discovery, TLC

CONSTANTS a, b, q1, u1, u2, u3

MCUrlsOf == a :> (q1 :> {u1, u2}) @@ b :> (q1 :> {u1})

MCLinks == u1 :> {} @@ u2 :> {u3} @@ u3 :> {u1, u2}
===============================================================================
