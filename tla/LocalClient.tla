----------------------------- MODULE LocalClient -----------------------------
(***************************************************************************)
(* The inbound-only transport of local_client.py: one listener, at most    *)
(* one appliance session, a reader task per session, a task per command.   *)
(*                                                                         *)
(* Everything runs on one asyncio loop, so an action is the code between   *)
(* two awaits.  The reader parses a whole chunk and handles its frames     *)
(* one after the other without yielding unless it answers a heartbeat:     *)
(* while conn.reader = "work" no other action is enabled (LoopIsFree).     *)
(*                                                                         *)
(* Abstractions.  The byte stream is counted in units of half a frame, so  *)
(* a chunk can end inside a frame.  Time is relative: the time since the   *)
(* last outbound frame, the ages of the last report and of the chunk being *)
(* handled, and the remaining sleep, each capped where the code stops      *)
(* telling values apart.  Timeouts may fire at any moment of the wait they *)
(* bound.  Waiters of a lock are served in any order.  The callback queue  *)
(* and the wait for a closed writer are in module ReportFeed.              *)
(***************************************************************************)
EXTENDS Integers, Sequences, FiniteSets

CONSTANTS
  Commands,     \* identities of command tasks
  Requests,     \* what callers may ask for
  Inputs,       \* frames the appliance may send
  MaxSessions,  \* bound: sessions accepted
  MaxUnits,     \* bound: units received on one session
  ReadUnits,    \* READ_BYTES in units
  Spacing,      \* COMMAND_SPACING in clock ticks
  MaxAge,       \* config.status_max_age in clock ticks
  None          \* no command, no task

FrameLen == 2   \* units in a frame

Values == {"on", "off", "unknown", "h1", "h2", "celsius", "fahrenheit"}
Opcodes == {"power", "humidity", "unit", "event"}
Report == [opcode : Opcodes, power : Values, humidity : Values, unit : Values]
Kinds == {"status", "heartbeat", "other", "garbled", "bad"}
Input == [kind : Kinds, report : Report]
NoReport == [opcode |-> "event", power |-> "unknown",
             humidity |-> "unknown", unit |-> "unknown"]
Request == [op : {"power", "humidity", "unit"}, want : Values, allowStale : BOOLEAN]
NoRequest == [op |-> "power", want |-> "unknown", allowStale |-> FALSE]

ASSUME ConstantsOK ==
  /\ None \notin Commands /\ "reader" \notin Commands /\ None # "reader"
  /\ Requests \subseteq Request
  /\ Inputs \subseteq Input
  /\ MaxSessions \in Nat /\ MaxUnits \in Nat
  /\ ReadUnits \in Nat \ {0}
  /\ Spacing \in Nat /\ MaxAge \in Nat

VARIABLES
  closing,     \* _closing and the progress of _cleanup
  counter,     \* _session_counter
  conn,        \* _session: the current _Session, its reader task and its bytes
  lastStatus,  \* _last_status, with its age
  task,        \* the command tasks with their _Pending
  cmdLock,     \* _command_lock: its holder
  sendLock,    \* _send_lock: its holder, a command or the reader
  gap,         \* time since _last_outbound_time, capped at Spacing
  wake         \* what is left of the pacing sleep in _send

vars == <<closing, counter, conn, lastStatus, task, cmdLock, sendLock, gap, wake>>

(* A frame on the wire.  session and after are history fields: the session *)
(* it came on, and the commands already written when its first unit came.  *)
Arrival == [input : Input, session : Nat, after : SUBSET Commands]
NoArrival == [input |-> [kind |-> "other", report |-> NoReport],
              session |-> 0, after |-> {}]

NoStatus == [session |-> 0, power |-> "unknown", age |-> 0]

NoConn == [id |-> 0, reader |-> "none", verified |-> FALSE, writerClosing |-> FALSE,
           sequence |-> 0, total |-> 0, received |-> 0, buffered |-> 0,
           stream |-> <<>>, todo |-> <<>>, chunkAge |-> 0, pending |-> None]

Idle == [pc |-> "idle", owner |-> 0, request |-> NoRequest, cancelled |-> FALSE,
         queued |-> FALSE, sequence |-> 0, boundary |-> 0, future |-> "none",
         outcome |-> "none", writes |-> 0, evidence |-> NoArrival]

Init ==
  /\ closing = "no"
  /\ counter = 0
  /\ conn = NoConn
  /\ lastStatus = NoStatus
  /\ task = [c \in Commands |-> Idle]
  /\ cmdLock = None
  /\ sendLock = None
  /\ gap = Spacing
  /\ wake = 0

-----------------------------------------------------------------------------
(* Conditions read by several handlers.                                    *)

LoopIsFree == conn.reader # "work"

Connected ==
  closing = "no" /\ conn.id # 0 /\ conn.verified /\ ~conn.writerClosing

(* OFF, and humidity restoration that asks for it, accept a stale status.  *)
Lenient(r) == r.allowStale \/ (r.op = "power" /\ r.want = "off")

FreshStatus ==
  /\ lastStatus # NoStatus
  /\ lastStatus.session = conn.id
  /\ lastStatus.age <= MaxAge

(* What _require_fresh_status raises for a request bound to session s.     *)
Freshness(s, lenient) ==
  IF ~Connected \/ conn.id # s THEN "notconnected"
  ELSE IF lenient \/ FreshStatus THEN "fresh"
  ELSE "stale"

WritableWhileClosing(s) == conn.id = s /\ ~conn.writerClosing  \* faulty variant

(* The first guard of _send.                                               *)
Writable(s) == closing = "no" /\ conn.id = s /\ ~conn.writerClosing

InSend == {"send", "sleep", "drain"}
Active == InSend \cup {"await"}

Runnable(c) == LoopIsFree /\ ~task[c].cancelled

-----------------------------------------------------------------------------
(* The listener and the bytes of the connection.                           *)

Accept ==
  /\ LoopIsFree
  /\ closing = "no" /\ conn.id = 0 /\ counter < MaxSessions
  /\ counter' = counter + 1
  /\ conn' = [NoConn EXCEPT !.id = counter + 1, !.reader = "read"]
  /\ lastStatus' = NoStatus
  /\ UNCHANGED <<closing, task, cmdLock, sendLock, gap, wake>>

Written == {c \in Commands : task[c].writes > 0}

(* One unit reaches _CountingReader.feed_data: the rest of a frame already *)
(* begun, or the first half of a new one.                                  *)
FeedData ==
  /\ LoopIsFree
  /\ conn.id # 0 /\ ~conn.writerClosing /\ conn.total < MaxUnits
  /\ IF conn.total % FrameLen # 0
     THEN conn' = [conn EXCEPT !.total = @ + 1]
     ELSE \E i \in Inputs :
            conn' = [conn EXCEPT !.total = @ + 1,
                                 !.stream = Append(@, [input |-> i, session |-> conn.id,
                                                     after |-> Written])]
  /\ UNCHANGED <<closing, counter, lastStatus, task, cmdLock, sendLock, gap, wake>>

(* The transport starts closing under the session: the connection is lost, *)
(* a callback failed, or the callback queue overflowed.                    *)
WriterCloses ==
  /\ LoopIsFree
  /\ conn.id # 0 /\ ~conn.writerClosing
  /\ conn' = [conn EXCEPT !.writerClosing = TRUE]
  /\ UNCHANGED <<closing, counter, lastStatus, task, cmdLock, sendLock, gap, wake>>

-----------------------------------------------------------------------------
(* The reader task, _read_session.                                         *)

(* Faulty variants for EndReader: the pending future is left open, or the  *)
(* send lock is not released.                                              *)
EndReaderLeavesPending ==
  /\ conn' = NoConn
  /\ lastStatus' = NoStatus
  /\ sendLock' = IF sendLock = "reader" THEN None ELSE sendLock
  /\ UNCHANGED <<closing, counter, task, cmdLock, gap, wake>>

EndReaderKeepsLock ==
  /\ conn' = NoConn
  /\ lastStatus' = NoStatus
  /\ UNCHANGED <<closing, counter, task, cmdLock, sendLock, gap, wake>>

(* The finally block up to its await: the session is forgotten and a       *)
(* pending future that is still open is failed.                            *)
EndReader ==
  /\ conn' = NoConn
  /\ lastStatus' = NoStatus
  /\ task' = [c \in Commands |->
       IF c = conn.pending /\ task[c].future = "none"
       THEN [task[c] EXCEPT !.future =
               IF task[c].queued THEN "uncertain" ELSE "notconnected"]
       ELSE task[c]]
  /\ sendLock' = IF sendLock = "reader" THEN None ELSE sendLock
  /\ UNCHANGED <<closing, counter, cmdLock, gap, wake>>

Smaller(a, b) == IF a < b THEN a ELSE b

ChunkLen == Smaller(conn.total - conn.received, ReadUnits)
ParserLenOfChunk == ChunkLen                   \* faulty variant: no part is kept
ParserLen == conn.buffered + ChunkLen          \* parser.buffer after extend
Complete == ParserLen \div FrameLen            \* whole frames in it
FirstOffset == conn.received - conn.buffered   \* first_frame_offset

(* feed() returns no frame at all when one of the chunk's frames is bad.   *)
ChunkIsBad == \E k \in 1..Complete : conn.stream[k].input.kind = "bad"

(* A read already awaited is served even once async_close was called; the  *)
(* loop's own test of _closing is in ReaderStops.                          *)
Read ==
  /\ closing # "cleanup" /\ conn.reader = "read" /\ ChunkLen > 0
  /\ ~ChunkIsBad
  /\ conn' = [conn EXCEPT
       !.received = @ + ChunkLen,
       !.sequence = @ + 1,
       !.buffered = ParserLen - Complete * FrameLen,
       !.stream = SubSeq(@, Complete + 1, Len(@)),
       !.todo = [k \in 1..Complete |->
                   [arrival |-> conn.stream[k],
                    offset |-> FirstOffset + (k - 1) * FrameLen]],
       !.chunkAge = 0,
       !.reader = IF Complete > 0 THEN "work" ELSE "read"]
  /\ UNCHANGED <<closing, counter, lastStatus, task, cmdLock, sendLock, gap, wake>>

ReadBad ==
  /\ closing # "cleanup" /\ conn.reader = "read" /\ ChunkLen > 0
  /\ ChunkIsBad
  /\ EndReader

(* End of stream, idle timeout, a reset, or the loop test on _closing.     *)
ReaderStops ==
  /\ conn.reader = "read" /\ closing # "cleanup"
  /\ EndReader

(* Faulty variant: cancellation is lost on a reader that is answering.     *)
ReaderCancelledOnlyInRead ==
  /\ closing = "cleanup" /\ conn.reader = "read"
  /\ EndReader

(* _cleanup has cancelled the reader wherever it waits.                    *)
ReaderCancelled ==
  /\ closing = "cleanup" /\ LoopIsFree /\ conn.id # 0
  /\ EndReader

Working(kinds) ==
  conn.reader = "work" /\ Head(conn.todo).arrival.input.kind \in kinds

NextReader(rest) == IF rest = <<>> THEN "read" ELSE "work"

(* The frame at the head of the chunk is taken and verifies the session.   *)
TakeFrame(next) ==
  conn' = [conn EXCEPT !.verified = TRUE, !.todo = Tail(@), !.reader = next]

OnHeartbeat ==
  /\ Working({"heartbeat"})
  /\ TakeFrame("reply")
  /\ UNCHANGED <<closing, counter, lastStatus, task, cmdLock, sendLock, gap, wake>>

OnOther ==
  /\ Working({"other"})
  /\ TakeFrame(NextReader(Tail(conn.todo)))
  /\ UNCHANGED <<closing, counter, lastStatus, task, cmdLock, sendLock, gap, wake>>

OnGarbled ==
  /\ Working({"garbled"})
  /\ EndReader

(* The condition under which a report resolves the pending future.         *)
Confirms(entry, c) ==
  LET r == entry.arrival.input.report
      p == task[c] IN
  /\ p.queued
  /\ p.future = "none"
  /\ r.opcode = p.request.op
  /\ conn.sequence > p.sequence
  /\ entry.offset >= p.boundary
  /\ r[p.request.op] = p.request.want

OnStatus ==
  /\ Working({"status"})
  /\ LET entry == Head(conn.todo) IN
       /\ lastStatus' = [session |-> conn.id, power |-> entry.arrival.input.report.power,
                         age |-> conn.chunkAge]
       /\ task' = [c \in Commands |->
            IF c = conn.pending /\ Confirms(entry, c)
            THEN [task[c] EXCEPT !.future = "confirmed", !.evidence = entry.arrival]
            ELSE task[c]]
  /\ TakeFrame(NextReader(Tail(conn.todo)))
  /\ UNCHANGED <<closing, counter, cmdLock, sendLock, gap, wake>>

(* The heartbeat answer: _send without a pending command.                  *)
ReplyWrite ==
  /\ closing # "cleanup" /\ conn.reader = "reply" /\ sendLock = None
  /\ Writable(conn.id)
  /\ sendLock' = "reader"
  /\ gap' = 0
  /\ conn' = [conn EXCEPT !.reader = "drain"]
  /\ UNCHANGED <<closing, counter, lastStatus, task, cmdLock, wake>>

ReplyRefused ==
  /\ closing # "cleanup" /\ conn.reader = "reply" /\ sendLock = None
  /\ ~Writable(conn.id)
  /\ EndReader

ReplyDrained ==
  /\ closing # "cleanup" /\ conn.reader = "drain"
  /\ sendLock' = None
  /\ conn' = [conn EXCEPT !.reader = NextReader(conn.todo)]
  /\ UNCHANGED <<closing, counter, lastStatus, task, cmdLock, gap, wake>>

(* The drain of the answer times out or fails.                             *)
ReplyFails ==
  /\ closing # "cleanup" /\ conn.reader = "drain"
  /\ EndReader

-----------------------------------------------------------------------------
(* A command: _command creates the task, _execute_command runs it.         *)

(* A request refused here leaves no trace, so only accepted ones appear.   *)
Submit(c, r) ==
  /\ LoopIsFree
  /\ task[c].pc = "idle"
  /\ Freshness(conn.id, Lenient(r)) = "fresh"
  /\ task' = [task EXCEPT ![c].pc = "new", ![c].owner = conn.id, ![c].request = r]
  /\ UNCHANGED <<closing, counter, conn, lastStatus, cmdLock, sendLock, gap, wake>>

Start(c) ==
  /\ Runnable(c) /\ task[c].pc = "new"
  /\ task' = [task EXCEPT ![c].pc = "lock"]
  /\ UNCHANGED <<closing, counter, conn, lastStatus, cmdLock, sendLock, gap, wake>>

(* The task ends with outcome o: the finally block of _execute_command.    *)
(* The locks it holds are released; its _Pending is forgotten, its history *)
(* is kept.                                                                *)
Finish(c, o) ==
  /\ task' = [task EXCEPT ![c] =
       [Idle EXCEPT !.pc = "done", !.outcome = o, !.owner = task[c].owner,
                    !.request = task[c].request,
                    !.writes = task[c].writes, !.evidence = task[c].evidence]]
  /\ conn' = [conn EXCEPT !.pending = IF @ = c THEN None ELSE @]
  /\ cmdLock' = IF cmdLock = c THEN None ELSE cmdLock
  /\ sendLock' = IF sendLock = c THEN None ELSE sendLock
  /\ UNCHANGED <<closing, counter, lastStatus, gap, wake>>

FreshFor(c) == Freshness(task[c].owner, Lenient(task[c].request))

(* Faulty variant: commands are not serialized.                            *)
AcquireWithoutLock(c) ==
  /\ Runnable(c) /\ task[c].pc = "lock"
  /\ FreshFor(c) = "fresh"
  /\ cmdLock' = c
  /\ conn' = [conn EXCEPT !.pending = c]
  /\ task' = [task EXCEPT ![c].pc = "send"]
  /\ UNCHANGED <<closing, counter, lastStatus, sendLock, gap, wake>>

AcquireCommandLock(c) ==
  /\ Runnable(c) /\ task[c].pc = "lock" /\ cmdLock = None
  /\ FreshFor(c) = "fresh"
  /\ cmdLock' = c
  /\ conn' = [conn EXCEPT !.pending = c]
  /\ task' = [task EXCEPT ![c].pc = "send"]
  /\ UNCHANGED <<closing, counter, lastStatus, sendLock, gap, wake>>

(* The second freshness check fails once the lock is held.                 *)
RefusedUnderLock(c) ==
  /\ Runnable(c) /\ task[c].pc = "lock" /\ cmdLock = None
  /\ FreshFor(c) # "fresh"
  /\ Finish(c, FreshFor(c))

LockTimeout(c) ==
  /\ Runnable(c) /\ task[c].pc = "lock"
  /\ Finish(c, "notsent")

AtSendLock(c) == Runnable(c) /\ task[c].pc = "send" /\ sendLock = None

(* Faulty variant: any live session will do after the sleep.               *)
SendCheckAnySession(c) ==
  IF ~Writable(conn.id) THEN "notconnected"
  ELSE Freshness(conn.id, Lenient(task[c].request))

(* What stops _send inside the lock, "fresh" if nothing does.              *)
SendCheck(c) == IF ~Writable(task[c].owner) THEN "notconnected" ELSE FreshFor(c)

NeedsReportedOn(r) == r.op = "humidity" /\ ~r.allowStale

HumidityRefused(c) ==
  NeedsReportedOn(task[c].request) /\ lastStatus.power # "on"

SendRefused(c) ==
  /\ AtSendLock(c)
  /\ \/ SendCheck(c) # "fresh" /\ Finish(c, SendCheck(c))
     \/ /\ SendCheck(c) = "fresh" /\ gap = Spacing
        /\ HumidityRefused(c)
        /\ Finish(c, "notsent")

(* Faulty variant: the remaining time is computed the wrong way round.     *)
SendPacedBackwards(c) ==
  /\ AtSendLock(c) /\ SendCheck(c) = "fresh" /\ gap < Spacing
  /\ wake' = gap - Spacing
  /\ task' = [task EXCEPT ![c].pc = "sleep"]
  /\ UNCHANGED <<closing, counter, conn, lastStatus, cmdLock, sendLock, gap>>

(* Too early: sleep without the lock, then look at everything again.       *)
SendPaced(c) ==
  /\ AtSendLock(c) /\ SendCheck(c) = "fresh" /\ gap < Spacing
  /\ wake' = Spacing - gap
  /\ task' = [task EXCEPT ![c].pc = "sleep"]
  /\ UNCHANGED <<closing, counter, conn, lastStatus, cmdLock, sendLock, gap>>

SleepEnds(c) ==
  /\ Runnable(c) /\ task[c].pc = "sleep" /\ wake = 0
  /\ task' = [task EXCEPT ![c].pc = "send"]
  /\ UNCHANGED <<closing, counter, conn, lastStatus, cmdLock, sendLock, gap, wake>>

(* Faulty variants for SendWrite: the boundary ignores bytes not yet read, *)
(* the pacing is not looked at again after the sleep, or the reported      *)
(* power is not looked at.                                                 *)
SendWriteReadBoundary(c) ==
  /\ AtSendLock(c) /\ SendCheck(c) = "fresh" /\ gap = Spacing
  /\ ~HumidityRefused(c)
  /\ task' = [task EXCEPT ![c].pc = "drain", ![c].queued = TRUE,
                          ![c].sequence = conn.sequence,
                          ![c].boundary = conn.received,
                          ![c].writes = @ + 1]
  /\ sendLock' = c
  /\ gap' = 0
  /\ UNCHANGED <<closing, counter, conn, lastStatus, cmdLock, wake>>

SendWriteAfterSleep(c) ==
  /\ \/ AtSendLock(c) /\ gap = Spacing
     \/ Runnable(c) /\ task[c].pc = "sleep" /\ wake = 0 /\ sendLock = None
  /\ SendCheck(c) = "fresh"
  /\ ~HumidityRefused(c)
  /\ task' = [task EXCEPT ![c].pc = "drain", ![c].queued = TRUE,
                          ![c].sequence = conn.sequence,
                          ![c].boundary = conn.total,
                          ![c].writes = @ + 1]
  /\ sendLock' = c
  /\ gap' = 0
  /\ UNCHANGED <<closing, counter, conn, lastStatus, cmdLock, wake>>

SendWrite(c) ==
  /\ AtSendLock(c) /\ SendCheck(c) = "fresh" /\ gap = Spacing
  /\ ~HumidityRefused(c)
  /\ task' = [task EXCEPT ![c].pc = "drain", ![c].queued = TRUE,
                          ![c].sequence = conn.sequence,
                          ![c].boundary = conn.total,
                          ![c].writes = @ + 1]
  /\ sendLock' = c
  /\ gap' = 0
  /\ UNCHANGED <<closing, counter, conn, lastStatus, cmdLock, wake>>

SendDrained(c) ==
  /\ Runnable(c) /\ task[c].pc = "drain"
  /\ task' = [task EXCEPT ![c].pc = "await"]
  /\ sendLock' = None
  /\ UNCHANGED <<closing, counter, conn, lastStatus, cmdLock, gap, wake>>

(* How a command ends: by its future, or by what it knows of the write.    *)
FutureOutcome(c) == IF task[c].future = "confirmed" THEN "ok" ELSE task[c].future
ByPhase(c) == IF task[c].pc = "await" THEN "uncertain" ELSE "notsent"  \* faulty variant
ByWrite(c) == IF task[c].queued THEN "uncertain" ELSE "notsent"

(* A deadline of _send or of drain, or a failed drain.                     *)
SendTimeout(c) ==
  /\ Runnable(c) /\ task[c].pc \in InSend
  /\ Finish(c, IF task[c].future # "none" THEN FutureOutcome(c) ELSE ByWrite(c))

AwaitResolved(c) ==
  /\ Runnable(c) /\ task[c].pc = "await" /\ task[c].future # "none"
  /\ Finish(c, FutureOutcome(c))

(* Faulty variant: no deadline while the session lives.                    *)
AwaitTimeoutNever(c) ==
  /\ Runnable(c) /\ task[c].pc = "await" /\ task[c].future = "none"
  /\ task[c].owner # conn.id
  /\ Finish(c, ByWrite(c))

AwaitTimeout(c) ==
  /\ Runnable(c) /\ task[c].pc = "await" /\ task[c].future = "none"
  /\ Finish(c, ByWrite(c))

(* The caller of c is cancelled; it returns only when the task has ended.  *)
CancelCaller(c) ==
  /\ LoopIsFree
  /\ task[c].pc \notin {"idle", "done"} /\ ~task[c].cancelled
  /\ task' = [task EXCEPT ![c].cancelled = TRUE]
  /\ UNCHANGED <<closing, counter, conn, lastStatus, cmdLock, sendLock, gap, wake>>

(* CancelledError reaches the task; one that never started just dies.      *)
CancelDelivered(c) ==
  /\ LoopIsFree
  /\ task[c].pc \notin {"idle", "done"} /\ task[c].cancelled
  /\ Finish(c, IF task[c].pc = "new" THEN "cancelled" ELSE ByWrite(c))

-----------------------------------------------------------------------------
(* async_close and _cleanup.                                               *)

CloseRequested ==
  /\ LoopIsFree /\ closing = "no"
  /\ closing' = "requested"
  /\ UNCHANGED <<counter, conn, lastStatus, task, cmdLock, sendLock, gap, wake>>

(* _cleanup up to gather: writers are closed and every task is cancelled.  *)
CleanupStarts ==
  /\ LoopIsFree /\ closing = "requested"
  /\ closing' = "cleanup"
  /\ conn' = [conn EXCEPT !.writerClosing = (conn.id # 0) \/ @]
  /\ task' = [c \in Commands |->
       IF task[c].pc \in {"idle", "done"} THEN task[c]
       ELSE [task[c] EXCEPT !.cancelled = TRUE]]
  /\ UNCHANGED <<counter, lastStatus, cmdLock, sendLock, gap, wake>>

CleanupEnds ==
  /\ closing = "cleanup"
  /\ conn.id = 0 /\ \A c \in Commands : task[c].pc \in {"idle", "done"}
  /\ closing' = "closed"
  /\ UNCHANGED <<counter, conn, lastStatus, task, cmdLock, sendLock, gap, wake>>

-----------------------------------------------------------------------------
(* Time passes between callbacks of the loop.                              *)
Older(age) == Smaller(age + 1, MaxAge + 1)

Tick ==
  /\ LoopIsFree
  /\ gap' = Smaller(gap + 1, Spacing)
  /\ wake' = IF wake > 0 THEN wake - 1 ELSE 0
  /\ lastStatus' = IF lastStatus = NoStatus THEN NoStatus
                   ELSE [lastStatus EXCEPT !.age = Older(@)]
  /\ conn' = IF conn.todo = <<>> THEN conn ELSE [conn EXCEPT !.chunkAge = Older(@)]
  /\ UNCHANGED <<closing, counter, task, cmdLock, sendLock>>

-----------------------------------------------------------------------------
Environment == Accept \/ FeedData \/ WriterCloses \/ Tick

ReaderStep ==
  \/ Read \/ ReadBad \/ ReaderStops \/ ReaderCancelled
  \/ OnHeartbeat \/ OnOther \/ OnGarbled \/ OnStatus
  \/ ReplyWrite \/ ReplyRefused \/ ReplyDrained \/ ReplyFails

CallerStep(c) == CancelCaller(c) \/ \E r \in Requests : Submit(c, r)

CommandStep(c) ==
  \/ Start(c) \/ AcquireCommandLock(c) \/ RefusedUnderLock(c) \/ LockTimeout(c)
  \/ SendRefused(c) \/ SendPaced(c) \/ SleepEnds(c) \/ SendWrite(c)
  \/ SendDrained(c) \/ SendTimeout(c) \/ AwaitResolved(c) \/ AwaitTimeout(c)
  \/ CancelDelivered(c)

CloseStep == CloseRequested \/ CleanupStarts \/ CleanupEnds

Next ==
  \/ Environment
  \/ ReaderStep
  \/ CloseStep
  \/ \E c \in Commands : CallerStep(c) \/ CommandStep(c)

(* The loop runs every callback that is ready, and every wait of a command *)
(* is bounded by a timer: its lock, its send, its answer.  Nothing makes   *)
(* the appliance, the callers or the network act.                          *)
Fairness ==
  /\ WF_vars(OnHeartbeat \/ OnOther \/ OnGarbled \/ OnStatus)
  /\ WF_vars(ReaderCancelled)
  /\ WF_vars(CleanupStarts) /\ WF_vars(CleanupEnds)
  /\ \A c \in Commands :
       /\ WF_vars(Start(c)) /\ WF_vars(LockTimeout(c)) /\ WF_vars(SendTimeout(c))
       /\ WF_vars(AwaitResolved(c) \/ AwaitTimeout(c))
       /\ WF_vars(CancelDelivered(c))

Spec == Init /\ [][Next]_vars
FairSpec == Spec /\ Fairness

-----------------------------------------------------------------------------
(* Properties.                                                             *)

TaskRecord ==
  [pc : {"idle", "new", "lock", "done"} \cup Active, owner : Nat, request : Request,
   cancelled : BOOLEAN, queued : BOOLEAN, sequence : Nat, boundary : Nat,
   future : {"none", "confirmed", "uncertain", "notconnected"},
   outcome : {"none", "ok", "uncertain", "notsent", "notconnected", "stale", "cancelled"},
   writes : Nat, evidence : Arrival]

ConnRecord ==
  [id : Nat, reader : {"none", "read", "work", "reply", "drain"}, verified : BOOLEAN,
   writerClosing : BOOLEAN, sequence : Nat, total : Nat, received : Nat, buffered : Nat,
   stream : Seq(Arrival), todo : Seq([arrival : Arrival, offset : Int]),
   chunkAge : Nat, pending : Commands \cup {None}]

(* Every variable holds a value of the kind the code gives it.             *)
TypeOK ==
  /\ closing \in {"no", "requested", "cleanup", "closed"}
  /\ counter \in Nat
  /\ conn \in ConnRecord
  /\ lastStatus \in [session : Nat, power : Values, age : Nat]
  /\ task \in [Commands -> TaskRecord]
  /\ cmdLock \in Commands \cup {None}
  /\ sendLock \in Commands \cup {None, "reader"}
  /\ gap \in 0..Spacing /\ wake \in 0..Spacing

(* A command succeeds only on a report with its opcode and its value, that *)
(* came on its own session and began to arrive after the command had been  *)
(* written: neither a buffered report nor the tail of one already on its   *)
(* way confirms (the test at the report loop of _read_session).            *)
ConfirmedByLaterReport ==
  \A c \in Commands : task[c].outcome = "ok" =>
    LET e == task[c].evidence
        q == task[c].request IN
    /\ c \in e.after
    /\ e.session = task[c].owner
    /\ e.input.kind = "status"
    /\ e.input.report.opcode = q.op
    /\ e.input.report[q.op] = q.want

(* What the caller is told agrees with the wire: a command is written at   *)
(* most once, success or uncertainty means it was, any other error means   *)
(* that it was not and, its task being over, never will be.                *)
TruthfulOutcome ==
  \A c \in Commands :
    /\ task[c].writes <= 1
    /\ task[c].outcome \in {"ok", "uncertain"} => task[c].writes = 1
    /\ task[c].outcome \in {"notsent", "notconnected", "stale", "cancelled"}
         => task[c].writes = 0

(* Locks are held exactly by the tasks inside them, so that no path out of *)
(* a command or of the reader leaks one, and the session's pending command *)
(* is the one that holds the command lock.                                 *)
LockOwnership ==
  /\ \A c \in Commands :
       /\ task[c].pc \in Active <=> cmdLock = c
       /\ task[c].pc = "drain" <=> sendLock = c
       /\ conn.pending = c <=> task[c].pc \in Active /\ task[c].owner = conn.id
  /\ conn.reader = "drain" <=> sendLock = "reader"

(* A command still waiting when its session dies has had its future        *)
(* failed, so that it cannot be confirmed by a later session.              *)
PendingDiesWithSession ==
  \A c \in Commands :
    task[c].pc \in Active /\ task[c].owner # conn.id => task[c].future # "none"

(* However reads cut the stream, the parser keeps less than a frame, every *)
(* unit it was given belongs to one frame still to come or handed out, and *)
(* the reports of a chunk carry the place where they began, on which the   *)
(* command boundary relies.                                                *)
StreamAccounted ==
  LET parsed == conn.received - conn.buffered IN
  conn.id # 0 =>
    /\ conn.buffered < FrameLen /\ parsed % FrameLen = 0
    /\ Len(conn.stream) = (conn.total - parsed + FrameLen - 1) \div FrameLen
    /\ \A k \in DOMAIN conn.todo :
         conn.todo[k].offset = parsed - FrameLen * (Len(conn.todo) - k + 1)

Sends(c) == task'[c].writes # task[c].writes

(* Command frames are spaced from the frame before, heartbeat answers that *)
(* slipped in during the pacing sleep included.                            *)
SpacedWrites == [][\A c \in Commands : Sends(c) => gap = Spacing]_vars

(* What was true when the command was accepted is true again when its      *)
(* bytes go out, after the waits for two locks and the pacing sleep: same  *)
(* live session, fresh status if needed, and a humidity target only while  *)
(* the latest report says the appliance is on.                             *)
AdmissibleWrites ==
  [][\A c \in Commands : Sends(c) =>
       /\ Connected /\ conn.id = task[c].owner
       /\ Lenient(task[c].request) \/ FreshStatus
       /\ NeedsReportedOn(task[c].request) => lastStatus.power = "on"]_vars

(* Nothing leaves the socket once async_close was called, heartbeat        *)
(* answers included.                                                       *)
SilentAfterClose ==
  [][closing # "no" => ~(gap' = 0 /\ sendLock' \notin {None, sendLock})]_vars

(* Every accepted command ends, whatever the appliance and the connection  *)
(* do: a lost answer, a dead session and a held lock are all bounded.      *)
CommandsEnd ==
  \A c \in Commands : task[c].pc \notin {"idle", "done"} ~> task[c].pc = "done"

(* async_close finishes: reader and commands are cancelled and joined.     *)
CloseEnds == closing = "requested" ~> closing = "closed"

(* The client implements the contract: the phase of a command is read off  *)
(* its task, its _Pending and the future of it.                            *)
Phase(c) ==
  LET p == task[c] IN
  IF p.pc = "idle" THEN "idle"
  ELSE IF p.pc = "done" THEN "over"
  ELSE IF ~p.queued THEN "accepted"
  ELSE IF p.future = "confirmed" THEN "confirmed"
  ELSE "sent"

Contract == INSTANCE CommandContract
  WITH phase <- [c \in Commands |-> Phase(c)],
       outcome <- [c \in Commands |-> task[c].outcome]

(* Sent at most once and one at a time, confirmed only while in flight,    *)
(* and an outcome that fits how far the command got.                       *)
ImplementsContract == Contract!Spec
=============================================================================
