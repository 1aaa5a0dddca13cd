--------------------------- MODULE MCRealtimeClient ---------------------------
(* RealtimeClient for TLC. *)
EXTENDS RealtimeClient, TLC

CONSTANTS k1, k2, u1, u2

EachOrBoth == [u \in Subs |-> {{k1}, {k2}, {k1, k2}}]
OnlyOne == [u \in Subs |-> {{k1}}]
OneEach == (u1 :> {{k1}}) @@ (u2 :> {{k2}})

Symmetry == Permutations(Subs) \cup Permutations(Sessions)
SubSymmetry == Permutations(Subs)
=============================================================================
