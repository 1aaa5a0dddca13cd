------------------------- MODULE MCMarketScenarios -------------------------
(* Two instances of MarketStream in one run.  In "gaps" the constants are    *)
(* those of the configuration: the server sends and loses updates.  In       *)
(* "filters" it sends none, and the handles ask for ::all as well.           *)
EXTENDS MCMarketStream

VARIABLE scenario

Filters == INSTANCE MarketStream
               WITH FilterChoices <- WithAll, Lively <- {}, Lossy <- {}

ScenarioInit == Init /\ scenario \in {"gaps", "filters"}

ScenarioNext ==
    /\ \/ scenario = "gaps" /\ Next
       \/ scenario = "filters" /\ Filters!Next
    /\ UNCHANGED scenario

ScenarioSpec == ScenarioInit /\ [][ScenarioNext]_<<vars, scenario>>
=============================================================================
