------------------------------ MODULE ReportFeed ------------------------------
(***************************************************************************)
(* How LocalClient hands its reports and disconnects to the coordinator: a *)
(* bounded queue of callbacks filled by the reader task and emptied by     *)
(* _dispatch_callbacks.                                                    *)
(*                                                                         *)
(* A session that ends is forgotten at once, but its disconnect is only    *)
(* queued after the wait for its writer, so that reports of the next       *)
(* session may be queued before it.  A full queue drops its reports and    *)
(* closes the connection they came on; disconnects are kept, the newest    *)
(* ones if there are too many.  The dispatcher does not yield between two  *)
(* callbacks while the queue is not empty (busy).                          *)
(***************************************************************************)
EXTENDS Integers, Sequences, FiniteSets

CONSTANTS
  Reports,       \* the payloads a status report may carry
  NoReport,      \* no report yet
  QueueSize,     \* CALLBACK_QUEUE_SIZE
  MaxSessions,   \* bound: sessions accepted
  MaxReports     \* bound: reports on one session

ASSUME FeedConstants ==
  /\ NoReport \notin Reports
  /\ QueueSize \in Nat \ {0, 1}  \* one place would make the slice take everything
  /\ MaxSessions \in Nat /\ MaxReports \in Nat

VARIABLES
  link,     \* the current session: _session and _last_status
  counter,  \* _session_counter
  leaving,  \* ended sessions whose writer is still being closed
  queue,    \* _callbacks
  busy      \* the dispatcher runs and has not yielded yet

feedVars == <<link, counter, leaving, queue, busy>>

(* A DeviceStatus: its session, its read and what it says.                 *)
Status == [session : 1..MaxSessions, sequence : 1..MaxReports, report : Reports]
NoStatus == [session |-> 0, sequence |-> 0, report |-> NoReport]

(* sequence counts the reads of the session; reports counts its reports.   *)
NoLink == [session |-> 0, verified |-> FALSE, writerClosing |-> FALSE,
           sequence |-> 0, reports |-> 0, status |-> NoStatus]

FeedInit ==
  /\ link = NoLink
  /\ counter = 0
  /\ leaving = {}
  /\ queue = <<>>
  /\ busy = FALSE

LinkUp == link.session # 0
LinkConnected == LinkUp /\ link.verified /\ ~link.writerClosing

StatusItem(s) == [kind |-> "status", session |-> s.session, status |-> s]
DisconnectItem(id) == [kind |-> "disconnect", session |-> id, status |-> NoStatus]

IsDisconnect(item) == item.kind = "disconnect"

(* The places of the disconnects in the queue, and how many of them are    *)
(* left from place k on.                                                   *)
Disconnects == {k \in 1..Len(queue) : IsDisconnect(queue[k])}
LeftFrom(k) == Cardinality({j \in Disconnects : j >= k})

(* _discard_queued_statuses: the newest disconnects in their order, few    *)
(* enough to leave one place.                                              *)
Retained ==
  LET all == Cardinality(Disconnects)
      kept == IF all < QueueSize THEN all ELSE QueueSize - 1
  IN [i \in 1..kept |-> queue[CHOOSE k \in Disconnects : LeftFrom(k) = kept - i + 1]]

Overflows == Len(queue) >= QueueSize

(* Faulty variant: an overflowing report is dropped and nothing else.      *)
QueueAfterDropping(item) == IF Overflows THEN queue ELSE Append(queue, item)

(* The queue after _enqueue_callback(item).                                *)
QueueAfter(item) ==
  IF ~Overflows THEN Append(queue, item)
  ELSE IF IsDisconnect(item) THEN Append(Retained, item)
  ELSE Retained

-----------------------------------------------------------------------------
FeedAccept ==
  /\ ~busy /\ ~LinkUp /\ counter < MaxSessions
  /\ counter' = counter + 1
  /\ link' = [NoLink EXCEPT !.session = counter + 1]
  /\ UNCHANGED <<leaving, queue, busy>>

(* A valid frame that is not a report verifies the session.                *)
Verify ==
  /\ ~busy /\ LinkUp /\ ~link.verified
  /\ link' = [link EXCEPT !.verified = TRUE]
  /\ UNCHANGED <<counter, leaving, queue, busy>>

(* The reader handles a report r, the first of a new read or, if sameRead, *)
(* one that shares its read with the report before.                        *)
NextStatus(r, sameRead) ==
  [session |-> link.session,
   sequence |-> IF sameRead THEN link.sequence ELSE link.sequence + 1,
   report |-> r]

MayReport(sameRead) ==
  /\ ~busy /\ LinkUp /\ link.reports < MaxReports
  /\ sameRead => link.reports > 0

(* Faulty variant: the connection outlives the reports it lost.            *)
ReceiveQuietly(s) ==
  /\ link' = [link EXCEPT !.verified = TRUE, !.sequence = s.sequence,
                          !.reports = @ + 1, !.status = s]
  /\ queue' = QueueAfter(StatusItem(s))
  /\ UNCHANGED <<counter, leaving, busy>>

Receive(s) ==
  /\ link' = [link EXCEPT !.verified = TRUE, !.sequence = s.sequence,
                          !.reports = @ + 1, !.status = s,
                          !.writerClosing = @ \/ Overflows]
  /\ queue' = QueueAfter(StatusItem(s))
  /\ UNCHANGED <<counter, leaving, busy>>

FeedReport(r, sameRead) ==
  /\ MayReport(sameRead)
  /\ Receive(NextStatus(r, sameRead))

(* The transport starts closing while the reader still has bytes to read.  *)
LinkCloses ==
  /\ ~busy /\ LinkUp /\ ~link.writerClosing
  /\ link' = [link EXCEPT !.writerClosing = TRUE]
  /\ UNCHANGED <<counter, leaving, queue, busy>>

(* The reader ends: the session is forgotten, its writer is waited for.    *)
LinkEnds ==
  /\ ~busy /\ LinkUp
  /\ link' = NoLink
  /\ leaving' = leaving \cup {link.session}
  /\ UNCHANGED <<counter, queue, busy>>

WriterGone(id) ==
  /\ ~busy /\ id \in leaving
  /\ leaving' = leaving \ {id}
  /\ queue' = QueueAfter(DisconnectItem(id))
  /\ UNCHANGED <<link, counter, busy>>

(* The dispatcher takes the head of the queue; its callback is added by    *)
(* the module that owns the handlers.                                      *)
Take ==
  /\ queue # <<>>
  /\ queue' = Tail(queue)
  /\ busy' = (Len(queue) > 1)
  /\ UNCHANGED <<counter, leaving>>

Dispatch == Take /\ UNCHANGED link

(* The callback of a report raises: its session, if current, is closed.    *)
DispatchFails ==
  /\ Take
  /\ Head(queue).kind = "status"
  /\ link' = IF LinkUp /\ link.session = Head(queue).session
             THEN [link EXCEPT !.writerClosing = TRUE] ELSE link

FeedNext ==
  \/ FeedAccept \/ Verify \/ LinkCloses \/ LinkEnds
  \/ \E r \in Reports, sameRead \in BOOLEAN : FeedReport(r, sameRead)
  \/ \E id \in leaving : WriterGone(id)
  \/ Dispatch \/ DispatchFails

FeedSpec == FeedInit /\ [][FeedNext]_feedVars

Queued(item) == \E k \in 1..Len(queue) : queue[k] = item

(* The end of an older session drops the latest report of one that stays   *)
(* up: an overflowing disconnect closes no connection.                     *)
DropsLatest ==
  /\ \E id \in leaving : WriterGone(id)
  /\ Overflows /\ LinkConnected
  /\ Queued(StatusItem(link.status))
=============================================================================
