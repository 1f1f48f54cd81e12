---------------------------- MODULE MCPunchFeed ----------------------------
(* The instance of PunchFeed that TLC checks: two companies, each with       *)
(* people who also punch at the other's place.                               *)
EXTENDS PunchFeed, TLC

Row(e, s, v, t) == [employer |-> e, site |-> s, verdict |-> v, counts |-> TRUE, at |-> t]

MCOldRows == (4 :> Row(1, 0, "ok", 1)) @@ (5 :> Row(1, 0, "flag", 1))
MCShapes == {Row(1, 0, "ok", 1), Row(1, 2, "ok", 2), Row(2, 1, "ok", 1), Row(2, 1, "flag", 2)}
MCReader == [tenant |-> 1, role |-> "location"]
=============================================================================
