---- MODULE MCResearch ----
(* Instances of ResearchPipeline for TLC.                                  *)
EXTENDS ResearchPipeline

\* Four blocks on three days: two samples of a scan may fall on one day.
FourBlocks == <<1, 2, 2, 3>>
FewJobs == <<"btc_usd", "difficulty", "token_choice_qi_fraction", "kawpow_ws">>
FewClaims == <<"claim4">>

\* For the report: the inputs of claim 1, which leaves two files.
PriceJobs == <<"qi_usd", "btc_usd", "difficulty">>
PriceClaims == <<"claim1", "claim4">>

====
