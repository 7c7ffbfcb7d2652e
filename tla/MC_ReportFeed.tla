---------------------------- MODULE MC_ReportFeed ----------------------------
(* Payloads for the runs of the watched report feed.                       *)
EXTENDS FeedWatch

Payloads == {"on", "off"}
=============================================================================
