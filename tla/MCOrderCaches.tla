--------------------------- MODULE MCOrderCaches ---------------------------
(* Instances of OrderCaches.  Callers and tokens are interchangeable.       *)
EXTENDS OrderCaches, TLC

CacheSymmetry == Permutations(Caller) \cup Permutations(Token)
=============================================================================
