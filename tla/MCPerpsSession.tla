--------------------------- MODULE MCPerpsSession ---------------------------
(* Instances of PerpsSession for TLC.                                      *)
EXTENDS PerpsSession

CONSTANTS k1, k2

\* Two calls with one client order id, once with an update of the order and once
\* with a fault; a call that meets Close, an update and a fault; updates that fill
\* the queue and meet Close and a fault; one that meets two.
Mixed == {
    [calls |-> {k1, k2}, notes |-> FALSE, close |-> FALSE, updates |-> 1, faults |-> 0],
    [calls |-> {k1, k2}, notes |-> FALSE, close |-> FALSE, updates |-> 0, faults |-> 1],
    [calls |-> {k1}, notes |-> FALSE, close |-> TRUE, updates |-> 1, faults |-> 1],
    [calls |-> {}, notes |-> TRUE, close |-> TRUE, updates |-> 3, faults |-> 1],
    [calls |-> {}, notes |-> TRUE, close |-> TRUE, updates |-> 1, faults |-> 2] }
=============================================================================
