---------------------------- MODULE MCEventStream ----------------------------
(* TLC instance of EventStream: one worker, one cancel request in its process. *)
EXTENDS EventStream, TLC

CONSTANTS api, w1, c1

MCHome == w1 :> api @@ c1 :> api

MCTargets == {"VALIDATING_INPUT", "DISCOVERING"}

MCSituations ==
    {[searchable |-> TRUE, candidates |-> TRUE, sellerTextOnly |-> FALSE,
      evidence |-> TRUE, receipt |-> TRUE, internalDefect |-> d] : d \in BOOLEAN}
===============================================================================
