----------------------------- MODULE CampaignLife -----------------------------
(***************************************************************************)
(* What the campaign row promises to every reader, whatever processes and  *)
(* threads write it: the row starts at version 0 in CREATED, and each      *)
(* version is one legal edge after the version before it.  A terminal      *)
(* state has no edge, so it is the last version.                           *)
(***************************************************************************)
EXTENDS CampaignStates

VARIABLES state, version

Init == state = "CREATED" /\ version = 0

Advance(target) ==
    /\ IsLegal(state, target)
    /\ state' = target
    /\ version' = version + 1

Next == \E target \in States : Advance(target)

Spec == Init /\ [][Next]_<<state, version>>
===============================================================================
