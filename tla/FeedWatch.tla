------------------------------- MODULE FeedWatch ------------------------------
(* ReportFeed on its own, with two observers of what the dispatcher hands  *)
(* over.                                                                   *)
EXTENDS ReportFeed

VARIABLES
  shown,  \* the last report handed over
  told    \* sessions whose disconnect was handed over

watchVars == <<link, counter, leaving, queue, busy, shown, told>>

Watch ==
  IF Dispatch \/ DispatchFails
  THEN LET item == Head(queue) IN
       /\ shown' = IF IsDisconnect(item) THEN shown ELSE item.status
       /\ told' = IF IsDisconnect(item) THEN told \cup {item.session} ELSE told
  ELSE UNCHANGED <<shown, told>>

WatchInit == FeedInit /\ shown = NoStatus /\ told = {}

WatchNext == FeedNext /\ Watch

WatchSpec == WatchInit /\ [][WatchNext]_watchVars

(* A connection that is still up has lost no final word: its latest report *)
(* was handed over last or waits in the queue, whatever overflowed.        *)
LatestReportArrives ==
  LinkConnected /\ link.status # NoStatus =>
    shown = link.status \/ Queued(StatusItem(link.status))

(* So it is of the first session, that no older one disturbs: an overflow  *)
(* closes the connection whose reports it drops.                           *)
FirstSessionKeepsUp == counter <= 1 => LatestReportArrives

(* As long as no more sessions ended than the queue has places, the end of *)
(* each is handed over or waits in the queue, overflows notwithstanding.   *)
NoDisconnectLost ==
  counter <= QueueSize =>
    \A id \in 1..counter :
      id = link.session \/ id \in leaving \/ id \in told \/ Queued(DisconnectItem(id))
=============================================================================
