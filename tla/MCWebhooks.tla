----------------------------- MODULE MCWebhooks -----------------------------
(* One webhook for all events that is tried twice, one for e1 that is      *)
(* tried once (retry_count 0).                                             *)
EXTENDS Webhooks

MCOrder == <<"all", "one">>
MCListed == [w \in {"all", "one"} |-> IF w = "all" THEN {} ELSE {"e1"}]
MCRetryCount == [w \in {"all", "one"} |-> IF w = "all" THEN 2 ELSE 0]
=============================================================================
