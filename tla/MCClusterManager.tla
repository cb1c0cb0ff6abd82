-------------------------- MODULE MCClusterManager --------------------------
(* A worker and a control node; an order that leaves the worker's role out *)
(* and one that names it twice.                                            *)
EXTENDS ClusterManager

MCHostSeq == <<"w1", "cp1">>
MCRoleOf == [h \in {"w1", "cp1"} |-> IF h = "w1" THEN "worker" ELSE "control"]
MCOrders == {<<"control">>, <<"worker", "control", "worker">>}
=============================================================================
