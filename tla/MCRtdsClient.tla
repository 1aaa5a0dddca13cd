---------------------------- MODULE MCRtdsClient ----------------------------
(* Instances of RtdsClient for TLC.                                        *)
EXTENDS RtdsClient

\* An interest in a topic/type, and the same topic/type under other credentials.
MCRegistration == {"all", "other"}
MCKeyOf == [r \in MCRegistration |-> "prices/update"]
MCAuthOf == [r \in MCRegistration |-> IF r = "other" THEN "key2" ELSE "key1"]
=============================================================================
