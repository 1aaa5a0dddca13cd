------------------------ MODULE MCRealtimeScenarios ------------------------
(* Two instances of RealtimeClient in one run: subscriptions to two keys with *)
(* at most one session at a time, and subscriptions to one key that either of *)
(* two sessions may serve.                                                    *)
EXTENDS MCRealtimeClient

VARIABLE scenario

OneKey == INSTANCE RealtimeClient WITH Requests <- OnlyOne

OneSession == Cardinality({s \in Sessions : c.ses[s].phase # "free"}) <= 1

ScenarioInit == Init /\ scenario \in {"filters", "sessions"}

ScenarioNext ==
    /\ \/ scenario = "filters" /\ Next /\ OneSession'
       \/ scenario = "sessions" /\ OneKey!Next
    /\ UNCHANGED scenario

ScenarioSpec == ScenarioInit /\ [][ScenarioNext]_<<vars, scenario>>
=============================================================================
