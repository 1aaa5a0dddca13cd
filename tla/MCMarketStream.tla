--------------------------- MODULE MCMarketStream ---------------------------
(* Instances of MarketStream.                                              *)
EXTENDS MarketStream, TLC

CONSTANTS i1, i2

\* Callers of one instrument and of all of them.
WithAll == {{i1}, {All}}

\* Callers of one instrument only.
NoAll == {{i1}}

HandleSymmetry == Permutations(Handles)
=============================================================================
