------------------------------ MODULE MCFetching ------------------------------
EXTENDS Fetching, TLC

CONSTANTS s1, s2, c1, u1, u2

MCWants == s1 :> {u1} @@ s2 :> {u2} @@ c1 :> {u1}
===============================================================================
