--------------------------- MODULE MCWsConnection ---------------------------
(* Instances of WsConnection.  The connections are interchangeable and so   *)
(* are the callers: no action tells one from another.                       *)
EXTENDS WsConnection, TLC

ConnSymmetry == Permutations(Conn) \cup Permutations(User)
=============================================================================
