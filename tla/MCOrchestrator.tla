---------------------------- MODULE MCOrchestrator ----------------------------
(* TLC instance of Orchestrator: two listings, two rounds, one crash and one resume. *)
EXTENDS Orchestrator, TLC

CONSTANTS k1, k2
===============================================================================
