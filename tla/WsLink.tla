------------------------------- MODULE WsLink -------------------------------
(***************************************************************************)
(* What the life cycle of clob/ws/client.go promises the code that sends on *)
(* c.conn: the published connection is announced open, may fail while it is *)
(* published, is withdrawn only once it has failed, and only then replaced. *)
(***************************************************************************)

VARIABLE wire   \* c.conn: "none" (nil), "open", "silent" (peer gone, no error yet) or "dead"

LinkInit == wire = "none"

Announce == wire = "none" /\ wire' = "open"

Fail == wire \in {"open", "silent"} /\ wire' \in {"silent", "dead"} \ {wire}

Withdraw == wire = "dead" /\ wire' = "none"

LinkNext == Announce \/ Fail \/ Withdraw

LinkSpec == LinkInit /\ [][LinkNext]_wire
=============================================================================
