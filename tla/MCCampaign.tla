------------------------------ MODULE MCCampaign ------------------------------
(***************************************************************************)
(* TLC instance of CampaignController: the API process with its worker and *)
(* a cancel request, one `campaign resume` process, one `campaign cancel`  *)
(* process.                                                                *)
(***************************************************************************)
EXTENDS CampaignController, TLC

CONSTANTS api, cli1, cli2,   \* processes
          w1, w2, c1, c2     \* threads

MCHome == [t \in Threads |-> CASE t \in {w1, c1} -> api [] t = w2 -> cli1 [] t = c2 -> cli2]

\* A legal stage, a stage the graph has no edge to, and an early end.
MCTargets == {"VALIDATING_INPUT", "DISCOVERING"}

Fine(defect) == [searchable |-> TRUE, candidates |-> TRUE, sellerTextOnly |-> FALSE,
                 evidence |-> TRUE, receipt |-> TRUE, internalDefect |-> defect]

MCSituations == {Fine(TRUE), Fine(FALSE)}
===============================================================================
