------------------------- MODULE MCScenarioCampaign -------------------------
(* Three runs: one to leave something behind, one to be killed on it, one   *)
(* to give its verdict all the same.                                        *)
EXTENDS ScenarioCampaign

\* All scenarios, each of them alone, and two choices of two that skip others.
SomeSelections ==
    [script \in Scripts |->
        {DOMAIN Scenarios[script], {1, 4}, {2, 3}}
            \cup {{i} : i \in DOMAIN Scenarios[script]}]
=============================================================================
