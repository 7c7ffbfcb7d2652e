-------------------------- MODULE LocalClient_proofs --------------------------
(* Proofs about LocalClient, for every value of its constants.             *)
EXTENDS LocalClient, TLAPS

(* Bytes are accounted for: what the parser holds is less than a frame,    *)
(* and the stream holds exactly the frames begun and not yet parsed, the   *)
(* last of them half arrived when an odd number of units came.             *)
Base == conn.received - conn.buffered

Begun(total, base, frames) ==
  IF total % 2 = 0 THEN 2 * frames = total - base ELSE 2 * frames = total - base + 1

Bytes ==
  /\ conn.buffered \in {0, 1}
  /\ conn.buffered <= conn.received /\ conn.received <= conn.total
  /\ Begun(conn.total, Base, Len(conn.stream))
  /\ conn.reader = "work" => conn.todo # <<>>

TypeInv == TypeOK /\ Bytes

(* The values of a client without a session have their types.              *)
LEMMA NoConnType == NoConn \in ConnRecord /\ NoStatus \in [session : Nat, power : Values, age : Nat]
BY DEF NoConn, ConnRecord, NoStatus, Values

(* So has the record of a command not yet called.                          *)
LEMMA IdleType == Idle \in TaskRecord
BY DEF Idle, TaskRecord, NoRequest, Request, Values, NoArrival, NoReport, Arrival,
       Input, Kinds, Report, Opcodes

(* The client starts with its types and with no bytes.                     *)
LEMMA InitTypeInv == Init => TypeInv
BY NoConnType, IdleType, ConstantsOK
   DEF Init, TypeInv, TypeOK, Bytes, Base, Begun, NoConn, Idle

Outcomes == {"ok", "uncertain", "notsent", "notconnected", "stale", "cancelled"}

(* The two ways out of a task or of the reader keep the types.             *)
LEMMA FinishTypeInv ==
  ASSUME TypeInv, NEW c \in Commands, NEW o \in Outcomes, Finish(c, o)
  PROVE  TypeInv'
<1>1. task[c] \in TaskRecord
  BY DEF TypeInv, TypeOK
<1>2. task' \in [Commands -> TaskRecord]
  BY <1>1, IdleType DEF TypeInv, TypeOK, Finish, Outcomes, TaskRecord
<1>3. conn' \in ConnRecord
  BY DEF TypeInv, TypeOK, Finish, ConnRecord
<1>4. Bytes'
  BY DEF TypeInv, TypeOK, Finish, ConnRecord, Bytes, Base
<1>5. QED
  BY <1>2, <1>3, <1>4 DEF TypeInv, TypeOK, Finish

(* A session that ends leaves no bytes behind (the finally of              *)
(* _read_session).                                                         *)
LEMMA EndReaderTypeInv ==
  ASSUME TypeInv, EndReader
  PROVE  TypeInv'
<1>1. task' \in [Commands -> TaskRecord]
  BY DEF TypeInv, TypeOK, EndReader, TaskRecord
<1>2. conn' \in ConnRecord /\ Bytes'
  BY NoConnType DEF EndReader, NoConn, Bytes, Base, Begun
<1>3. QED
  BY <1>1, <1>2, NoConnType DEF TypeInv, TypeOK, EndReader

(* _require_fresh_status ends in one of three ways.                        *)
LEMMA FreshnessType ==
  ASSUME NEW s, NEW l
  PROVE  Freshness(s, l) \in {"fresh", "notconnected", "stale"}
BY DEF Freshness

(* Arithmetic of the byte count: one more unit, n frames fewer.            *)
LEMMA BegunNext ==
  ASSUME NEW t \in Nat, NEW b \in Nat, NEW l \in Nat, Begun(t, b, l)
  PROVE  /\ t % 2 # 0 => Begun(t + 1, b, l)
         /\ t % 2 = 0 => Begun(t + 1, b, l + 1)
<1>1. (t % 2 = 0 /\ (t + 1) % 2 # 0) \/ (t % 2 # 0 /\ (t + 1) % 2 = 0)
  OBVIOUS
<1>2. QED
  BY <1>1 DEF Begun

(* Taking whole frames off the stream leaves a frame begun where there     *)
(* was one.                                                                *)
LEMMA BegunLess ==
  ASSUME NEW t \in Nat, NEW b \in Nat, NEW l \in Nat, NEW n \in Nat, Begun(t, b, l), n <= l
  PROVE  Begun(t, b + 2 * n, l - n)
BY DEF Begun

(* A read takes whole frames off the front of the stream and leaves less   *)
(* than a frame in the parser.                                             *)
LEMMA ReadBytes ==
  ASSUME TypeInv, ChunkLen > 0
  PROVE  /\ ChunkLen \in Nat /\ ChunkLen <= conn.total - conn.received
         /\ ParserLen \in Nat /\ Complete \in Nat
         /\ ParserLen = conn.buffered + ChunkLen
         /\ Complete <= Len(conn.stream)
         /\ ParserLen - 2 * Complete \in {0, 1}
         /\ FirstOffset = Base /\ Base \in Nat
<1> DEFINE n == Complete
<1>1. /\ conn.total \in Nat /\ conn.received \in Nat /\ conn.buffered \in {0, 1}
      /\ Len(conn.stream) \in Nat
      /\ conn.buffered <= conn.received /\ conn.received <= conn.total
      /\ Begun(conn.total, Base, Len(conn.stream))
  BY DEF TypeInv, TypeOK, ConnRecord, Bytes
<1>2. ChunkLen \in Nat /\ ChunkLen <= conn.total - conn.received
  BY <1>1, ConstantsOK DEF ChunkLen, Smaller
<1>3. ParserLen \in Nat /\ ParserLen <= conn.total - Base /\ Base \in Nat
  BY <1>1, <1>2 DEF ParserLen, Base
<1>4. n \in Nat /\ 2 * n <= ParserLen /\ ParserLen < 2 * n + 2
  BY <1>3 DEF Complete, FrameLen
<1>5. n <= Len(conn.stream)
  BY <1>1, <1>3, <1>4 DEF Begun
<1>6. ParserLen - 2 * n \in {0, 1}
  BY <1>3, <1>4
<1>7. QED
  BY <1>2, <1>3, <1>4, <1>5, <1>6 DEF FirstOffset, Base, ParserLen

(* The bytes a chunk adds are read and either parsed or kept.              *)
LEMMA Regrouped ==
  ASSUME NEW r \in Int, NEW b \in Int, NEW c \in Int, NEW k \in Int
  PROVE  (r + c) - ((b + c) - 2 * k) = (r - b) + 2 * k
OBVIOUS

(* A function on 1..n tabulates a sequence.                                *)
LEMMA TabulationIsSeq ==
  ASSUME NEW S, NEW n \in Nat, NEW f \in [1..n -> S]
  PROVE  f \in Seq(S) /\ Len(f) = n /\ (n > 0 => f # <<>>)
OBVIOUS

(* A read takes the whole frames off the stream and keeps less than one.   *)
LEMMA ReadTypeInv ==
  ASSUME TypeInv, Read
  PROVE  TypeInv'
<1> DEFINE todo == [k \in 1..Complete |-> [arrival |-> conn.stream[k],
                                           offset |-> FirstOffset + (k - 1) * FrameLen]]
           rest == SubSeq(conn.stream, Complete + 1, Len(conn.stream))
<1>1. conn \in ConnRecord
  BY DEF TypeInv, TypeOK
<1>2. /\ conn.stream \in Seq(Arrival) /\ conn.sequence \in Nat
      /\ conn.total \in Nat /\ conn.received \in Nat /\ conn.buffered \in Nat
  BY <1>1 DEF ConnRecord
<1>3. /\ ChunkLen \in Nat /\ ChunkLen <= conn.total - conn.received
      /\ ParserLen \in Nat /\ Complete \in Nat
      /\ ParserLen = conn.buffered + ChunkLen
      /\ Complete <= Len(conn.stream)
      /\ ParserLen - 2 * Complete \in {0, 1}
      /\ FirstOffset = Base /\ Base \in Nat
  BY ReadBytes DEF Read
<1>4. todo \in Seq([arrival : Arrival, offset : Int]) /\ (Complete > 0 => todo # <<>>)
  <2>1. \A k \in 1..Complete : conn.stream[k] \in Arrival
    BY <1>2, <1>3
  <2>2. \A k \in 1..Complete : FirstOffset + (k - 1) * FrameLen \in Int
    BY <1>3 DEF FrameLen
  <2>3. todo \in [1..Complete -> [arrival : Arrival, offset : Int]]
    BY <2>1, <2>2
  <2> HIDE DEF todo
  <2>4. QED
    BY <1>3, <2>3, TabulationIsSeq
<1>5. rest \in Seq(Arrival) /\ Len(rest) = Len(conn.stream) - Complete
  BY <1>2, <1>3
<1> DEFINE left == ParserLen - Complete * FrameLen
<1>6. left \in {0, 1} /\ left \in Nat /\ left = ParserLen - 2 * Complete
  BY <1>3 DEF FrameLen
<1>7. conn' = [conn EXCEPT
       !.received = conn.received + ChunkLen, !.sequence = conn.sequence + 1,
       !.buffered = left, !.stream = rest, !.todo = todo,
       !.chunkAge = 0, !.reader = IF Complete > 0 THEN "work" ELSE "read"]
  BY DEF Read
<1> HIDE DEF todo, rest, left
<1>8. /\ conn'.received = conn.received + ChunkLen
      /\ conn'.buffered = left
      /\ conn'.stream = rest
      /\ conn'.todo = todo
      /\ conn'.total = conn.total
      /\ conn'.reader = IF Complete > 0 THEN "work" ELSE "read"
  BY <1>1, <1>7 DEF ConnRecord
<1>9. conn' \in ConnRecord
  <2>1. conn.received + ChunkLen \in Nat /\ conn.sequence + 1 \in Nat
    BY <1>2, <1>3
  <2>2. QED
    BY <1>1, <1>4, <1>5, <1>6, <1>7, <2>1 DEF ConnRecord
<1>10. conn'.received - conn'.buffered = Base + 2 * Complete
  <2>1. conn'.received - conn'.buffered
          = (conn.received + ChunkLen) - (ParserLen - 2 * Complete)
    BY <1>6, <1>8
  <2>2. conn'.received - conn'.buffered
          = (conn.received + ChunkLen) - ((conn.buffered + ChunkLen) - 2 * Complete)
    BY <1>3, <2>1
  <2>3. /\ conn.received \in Int /\ conn.buffered \in Int
        /\ ChunkLen \in Int /\ Complete \in Int
    BY <1>2, <1>3
  <2>4. conn'.received - conn'.buffered = (conn.received - conn.buffered) + 2 * Complete
    BY <2>2, <2>3, Regrouped
  <2>5. QED
    BY <2>4 DEF Base
<1>11. Begun(conn'.total, Base', Len(conn'.stream))
  <2>1. Begun(conn.total, Base, Len(conn.stream))
    BY DEF TypeInv, Bytes
  <2>2. Base' = Base + 2 * Complete
    BY <1>10 DEF Base
  <2>3. Len(conn.stream) \in Nat
    BY <1>2
  <2>4. Begun(conn.total, Base + 2 * Complete, Len(conn.stream) - Complete)
    BY <1>2, <1>3, <2>1, <2>3, BegunLess
  <2>5. QED
    BY <1>5, <1>8, <2>2, <2>4
<1>12. /\ conn'.buffered \in {0, 1} /\ conn'.buffered <= conn'.received
       /\ conn'.received <= conn'.total
  <2>1. conn.buffered <= conn.received
    BY DEF TypeInv, Bytes
  <2>2. left <= conn.received + ChunkLen
    BY <1>2, <1>3, <1>6, <2>1
  <2>3. conn.received + ChunkLen <= conn.total
    BY <1>2, <1>3
  <2>4. QED
    BY <1>6, <1>8, <2>2, <2>3
<1>13. conn'.reader = "work" => conn'.todo # <<>>
  BY <1>4, <1>8
<1>14. Bytes'
  BY <1>11, <1>12, <1>13 DEF Bytes
<1>15. QED
  BY <1>9, <1>14 DEF TypeInv, TypeOK, Read

(* A unit that arrives completes a frame or begins one.                    *)
LEMMA FeedDataTypeInv ==
  ASSUME TypeInv, FeedData
  PROVE  TypeInv'
<1>0. conn \in ConnRecord
  BY DEF TypeInv, TypeOK
<1>1. /\ conn.stream \in Seq(Arrival) /\ Len(conn.stream) \in Nat
      /\ conn.total \in Nat /\ conn.received \in Nat /\ conn.buffered \in {0, 1}
      /\ conn.buffered <= conn.received /\ conn.received <= conn.total
      /\ conn.reader = "work" => conn.todo # <<>>
      /\ Begun(conn.total, Base, Len(conn.stream)) /\ Base \in Nat
  BY DEF TypeInv, TypeOK, Bytes, Base, ConnRecord
<1>2. /\ conn'.buffered = conn.buffered /\ conn'.received = conn.received
      /\ conn'.reader = conn.reader /\ conn'.todo = conn.todo
      /\ conn'.total = conn.total + 1
      /\ Base' = Base
  BY <1>0 DEF FeedData, ConnRecord, Base
<1>3. conn' \in ConnRecord /\ Begun(conn'.total, Base', Len(conn'.stream))
  <2>1. CASE conn.total % FrameLen # 0
    <3>1. conn' = [conn EXCEPT !.total = @ + 1]
      BY <2>1 DEF FeedData
    <3>1a. conn.total + 1 \in Nat
      BY <1>1
    <3>2. conn' \in ConnRecord /\ conn'.stream = conn.stream
      BY <1>0, <3>1, <3>1a DEF ConnRecord
    <3>3. QED
      BY <1>1, <1>2, <2>1, <3>2, BegunNext DEF FrameLen
  <2>2. CASE conn.total % FrameLen = 0
    <3>1. PICK i \in Inputs :
          conn' = [conn EXCEPT !.total = @ + 1,
                               !.stream = Append(@, [input |-> i, session |-> conn.id,
                                                     after |-> Written])]
      BY <2>2 DEF FeedData
    <3> DEFINE a == [input |-> i, session |-> conn.id, after |-> Written]
    <3>2. a \in Arrival
      BY <1>0, ConstantsOK DEF Arrival, Written, ConnRecord
    <3> HIDE DEF a
    <3>3. Append(conn.stream, a) \in Seq(Arrival)
          /\ Len(Append(conn.stream, a)) = Len(conn.stream) + 1
      BY <1>1, <3>2
    <3>4. conn' = [conn EXCEPT !.total = @ + 1, !.stream = Append(@, a)]
      BY <3>1 DEF a
    <3>4a. conn.total + 1 \in Nat
      BY <1>1
    <3>5. conn' \in ConnRecord /\ conn'.stream = Append(conn.stream, a)
      BY <1>0, <3>3, <3>4, <3>4a DEF ConnRecord
    <3>6. QED
      BY <1>1, <1>2, <2>2, <3>3, <3>5, BegunNext DEF FrameLen
  <2>3. QED
    BY <2>1, <2>2
<1>4. Bytes'
  BY <1>1, <1>2, <1>3 DEF Bytes
<1>5. QED
  BY <1>3, <1>4 DEF TypeInv, TypeOK, FeedData

(* The head and the tail of a sequence of frames to handle.                *)
LEMMA HeadTail ==
  ASSUME NEW S, NEW s \in Seq(S), s # <<>>
  PROVE  Head(s) \in S /\ Tail(s) \in Seq(S)
OBVIOUS

(* The entry being handled is one of the chunk's.                          *)
LEMMA WorkingEntry ==
  ASSUME TypeInv, NEW kinds, Working(kinds)
  PROVE  /\ Head(conn.todo) \in [arrival : Arrival, offset : Int]
         /\ Tail(conn.todo) \in Seq([arrival : Arrival, offset : Int])
<1>1. conn.todo \in Seq([arrival : Arrival, offset : Int]) /\ conn.todo # <<>>
  BY DEF TypeInv, TypeOK, Bytes, ConnRecord, Working
<1>2. QED
  BY <1>1, HeadTail

(* Handling one frame of a chunk keeps the types.                          *)
LEMMA TakeFrameTypeInv ==
  ASSUME TypeInv, NEW kinds, Working(kinds),
         NEW next \in {"read", "work", "reply"}, TakeFrame(next),
         next = "work" => Tail(conn.todo) # <<>>
  PROVE  conn' \in ConnRecord /\ Bytes'
<1>1. conn \in ConnRecord /\ Bytes
  BY DEF TypeInv, TypeOK
<1>2. conn' \in ConnRecord
  BY <1>1, WorkingEntry DEF TakeFrame, ConnRecord
<1>3. /\ conn'.total = conn.total /\ conn'.received = conn.received
      /\ conn'.buffered = conn.buffered /\ conn'.stream = conn.stream
      /\ conn'.reader = next /\ conn'.todo = Tail(conn.todo)
  BY <1>1 DEF TakeFrame, ConnRecord
<1>4. Base' = Base
  BY <1>3 DEF Base
<1>5. QED
  BY <1>1, <1>2, <1>3, <1>4 DEF Bytes

(* Steps that leave the connection alone leave its bytes alone.            *)
LEMMA UnchangedBytes ==
  ASSUME TypeInv, UNCHANGED conn
  PROVE  conn' \in ConnRecord /\ Bytes'
BY DEF TypeInv, TypeOK, Bytes, Base

(* What the appliance, the transport and the clock do keeps the types.     *)
LEMMA EnvironmentTypeInv ==
  ASSUME TypeInv, Environment
  PROVE  TypeInv'
<1>1. CASE Accept
  <2>1. conn' = [NoConn EXCEPT !.id = counter + 1, !.reader = "read"] /\ counter \in Nat
    BY <1>1 DEF Accept, TypeInv, TypeOK
  <2>2. conn' \in ConnRecord
    <3>1. \A x \in ConnRecord, n \in Nat : [x EXCEPT !.id = n, !.reader = "read"] \in ConnRecord
      BY DEF ConnRecord
    <3>2. counter + 1 \in Nat
      BY <2>1
    <3>3. QED
      BY <2>1, <3>1, <3>2, NoConnType
  <2>3. /\ conn'.buffered = 0 /\ conn'.received = 0 /\ conn'.total = 0
        /\ conn'.reader = "read" /\ conn'.stream = <<>>
    BY <2>1 DEF NoConn
  <2>4. Bytes'
    BY <2>3 DEF Bytes, Base, Begun
  <2>5. QED
    BY <1>1, <2>2, <2>4, NoConnType DEF Accept, TypeInv, TypeOK
<1>2. CASE FeedData
  BY <1>2, FeedDataTypeInv
<1>3. CASE WriterCloses
  <2>1. conn' \in ConnRecord /\ Bytes'
    BY <1>3 DEF WriterCloses, TypeInv, TypeOK, ConnRecord, Bytes, Base
  <2>2. QED
    BY <1>3, <2>1 DEF WriterCloses, TypeInv, TypeOK
<1>4. CASE Tick
  <2>1. conn \in ConnRecord /\ conn.chunkAge \in Nat
    BY DEF TypeInv, TypeOK, ConnRecord
  <2>2. Older(conn.chunkAge) \in Nat
    BY <2>1, ConstantsOK DEF Older, Smaller
  <2>3. conn' \in ConnRecord /\ Bytes'
    BY <1>4, <2>1, <2>2 DEF Tick, TypeInv, TypeOK, ConnRecord, Bytes, Base
  <2>4. lastStatus' \in [session : Nat, power : Values, age : Nat]
    <3>1. lastStatus \in [session : Nat, power : Values, age : Nat]
      BY DEF TypeInv, TypeOK
    <3>2. Older(lastStatus.age) \in Nat
      BY <3>1, ConstantsOK DEF Older, Smaller
    <3>3. QED
      BY <1>4, <3>1, <3>2, NoConnType DEF Tick
  <2>5. gap' \in 0..Spacing /\ wake' \in 0..Spacing
    BY <1>4, ConstantsOK DEF Tick, TypeInv, TypeOK, Smaller
  <2>6. QED
    BY <1>4, <2>3, <2>4, <2>5 DEF Tick, TypeInv, TypeOK
<1>5. QED
  BY <1>1, <1>2, <1>3, <1>4 DEF Environment

(* So does every step of the reader task (_read_session).                  *)
LEMMA ReaderTypeInv ==
  ASSUME TypeInv, ReaderStep
  PROVE  TypeInv'
<1>1. CASE Read
  BY <1>1, ReadTypeInv
<1>2. CASE ReadBad \/ ReaderStops \/ ReaderCancelled \/ OnGarbled \/ ReplyRefused \/ ReplyFails
  BY <1>2, EndReaderTypeInv
     DEF ReadBad, ReaderStops, ReaderCancelled, OnGarbled, ReplyRefused, ReplyFails
<1>3. CASE OnHeartbeat
  <2>1. conn' \in ConnRecord /\ Bytes'
    BY <1>3, TakeFrameTypeInv DEF OnHeartbeat
  <2>2. QED
    BY <1>3, <2>1 DEF OnHeartbeat, TypeInv, TypeOK
<1>4. ASSUME NEW kinds, Working(kinds), TakeFrame(NextReader(Tail(conn.todo)))
      PROVE  conn' \in ConnRecord /\ Bytes'
  <2>1. /\ NextReader(Tail(conn.todo)) \in {"read", "work", "reply"}
        /\ NextReader(Tail(conn.todo)) = "work" => Tail(conn.todo) # <<>>
    BY DEF NextReader
  <2>2. QED
    BY <1>4, <2>1, TakeFrameTypeInv
<1>5. CASE OnOther
  <2>1. conn' \in ConnRecord /\ Bytes'
    BY <1>4, <1>5 DEF OnOther
  <2>2. QED
    BY <1>5, <2>1 DEF OnOther, TypeInv, TypeOK
<1>6. CASE OnStatus
  <2>1. conn' \in ConnRecord /\ Bytes'
    BY <1>4, <1>6 DEF OnStatus
  <2> DEFINE entry == Head(conn.todo)
  <2>2. entry.arrival \in Arrival /\ entry.arrival.input.report.power \in Values
    BY <1>6, WorkingEntry DEF OnStatus, Arrival, Input, Report
  <2>3. lastStatus' \in [session : Nat, power : Values, age : Nat]
    BY <1>6, <2>2 DEF OnStatus, TypeInv, TypeOK, ConnRecord
  <2>4. task' \in [Commands -> TaskRecord]
    <3>1. task \in [Commands -> TaskRecord]
      BY DEF TypeInv, TypeOK
    <3>2. \A c \in Commands :
            [task[c] EXCEPT !.future = "confirmed", !.evidence = entry.arrival] \in TaskRecord
      BY <2>2, <3>1 DEF TaskRecord
    <3>3. task' = [c \in Commands |->
            IF c = conn.pending /\ Confirms(entry, c)
            THEN [task[c] EXCEPT !.future = "confirmed", !.evidence = entry.arrival]
            ELSE task[c]]
      BY <1>6 DEF OnStatus
    <3> HIDE DEF entry
    <3>4. QED
      BY <3>1, <3>2, <3>3
  <2>5. QED
    BY <1>6, <2>1, <2>3, <2>4 DEF OnStatus, TypeInv, TypeOK
<1>7. CASE ReplyWrite
  <2>1. conn' \in ConnRecord /\ Bytes'
    BY <1>7 DEF ReplyWrite, TypeInv, TypeOK, ConnRecord, Bytes, Base
  <2>2. QED
    BY <1>7, <2>1, ConstantsOK DEF ReplyWrite, TypeInv, TypeOK
<1>8. CASE ReplyDrained
  <2>1. conn' \in ConnRecord /\ Bytes'
    BY <1>8 DEF ReplyDrained, NextReader, TypeInv, TypeOK, ConnRecord, Bytes, Base
  <2>2. QED
    BY <1>8, <2>1 DEF ReplyDrained, TypeInv, TypeOK
<1>9. QED
  BY <1>1, <1>2, <1>3, <1>5, <1>6, <1>7, <1>8 DEF ReaderStep

(* So does every step of a command task and of its caller.                 *)
LEMMA CommandTypeInv ==
  ASSUME TypeInv, NEW c \in Commands, CallerStep(c) \/ CommandStep(c)
  PROVE  TypeInv'
<1>0. /\ task \in [Commands -> TaskRecord] /\ conn \in ConnRecord
      /\ task[c] \in TaskRecord /\ conn.id \in Nat
      /\ conn.sequence \in Nat /\ conn.total \in Nat
  BY DEF TypeInv, TypeOK, ConnRecord
<1>1. CASE CancelCaller(c)
  <2>1. task' \in [Commands -> TaskRecord]
    BY <1>0, <1>1 DEF CancelCaller, TaskRecord
  <2>2. QED
    BY <1>1, <2>1, UnchangedBytes DEF CancelCaller, TypeInv, TypeOK
<1>2. CASE \E r \in Requests : Submit(c, r)
  <2>1. PICK r \in Requests : Submit(c, r)
    BY <1>2
  <2>2. task' \in [Commands -> TaskRecord]
    BY <1>0, <2>1, ConstantsOK DEF Submit, TaskRecord
  <2>3. QED
    BY <2>1, <2>2, UnchangedBytes DEF Submit, TypeInv, TypeOK
<1>3. CASE Start(c)
  <2>1. task' \in [Commands -> TaskRecord]
    BY <1>0, <1>3 DEF Start, TaskRecord
  <2>2. QED
    BY <1>3, <2>1, UnchangedBytes DEF Start, TypeInv, TypeOK
<1>4. CASE AcquireCommandLock(c)
  <2>1. task' \in [Commands -> TaskRecord]
    BY <1>0, <1>4 DEF AcquireCommandLock, TaskRecord, Active, InSend
  <2>2. conn' \in ConnRecord /\ Bytes'
    BY <1>4 DEF AcquireCommandLock, TypeInv, TypeOK, ConnRecord, Bytes, Base
  <2>3. QED
    BY <1>4, <2>1, <2>2 DEF AcquireCommandLock, TypeInv, TypeOK
<1>5. CASE RefusedUnderLock(c)
  <2>1. FreshFor(c) \in Outcomes
    BY <1>5, FreshnessType DEF RefusedUnderLock, FreshFor, Outcomes
  <2>2. QED
    BY <1>5, <2>1, FinishTypeInv DEF RefusedUnderLock
<1>6. CASE LockTimeout(c)
  <2>1. "notsent" \in Outcomes
    BY DEF Outcomes
  <2>2. QED
    BY <1>6, <2>1, FinishTypeInv DEF LockTimeout
<1>7. CASE SendRefused(c)
  <2>1. SendCheck(c) # "fresh" => SendCheck(c) \in Outcomes
    BY FreshnessType DEF SendCheck, FreshFor, Outcomes
  <2>2. "notsent" \in Outcomes
    BY DEF Outcomes
  <2>3. QED
    BY <1>7, <2>1, <2>2, FinishTypeInv DEF SendRefused
<1>8. CASE SendPaced(c)
  <2>1. task' \in [Commands -> TaskRecord]
    BY <1>0, <1>8 DEF SendPaced, TaskRecord, Active, InSend
  <2>2. wake' \in 0..Spacing
    BY <1>8, ConstantsOK DEF SendPaced, TypeInv, TypeOK
  <2>3. QED
    BY <1>8, <2>1, <2>2, UnchangedBytes DEF SendPaced, TypeInv, TypeOK
<1>9. CASE SleepEnds(c)
  <2>1. task' \in [Commands -> TaskRecord]
    BY <1>0, <1>9 DEF SleepEnds, TaskRecord, Active, InSend
  <2>2. QED
    BY <1>9, <2>1, UnchangedBytes DEF SleepEnds, TypeInv, TypeOK
<1>10. CASE SendWrite(c)
  <2>1. task' \in [Commands -> TaskRecord]
    BY <1>0, <1>10 DEF SendWrite, TaskRecord, Active, InSend
  <2>2. QED
    BY <1>10, <2>1, UnchangedBytes, ConstantsOK DEF SendWrite, TypeInv, TypeOK
<1>11. CASE SendDrained(c)
  <2>1. task' \in [Commands -> TaskRecord]
    BY <1>0, <1>11 DEF SendDrained, TaskRecord, Active, InSend
  <2>2. QED
    BY <1>11, <2>1, UnchangedBytes DEF SendDrained, TypeInv, TypeOK
<1>12. ByWrite(c) \in Outcomes /\ (task[c].future # "none" => FutureOutcome(c) \in Outcomes)
  BY <1>0 DEF ByWrite, FutureOutcome, TaskRecord, Outcomes
<1>13. CASE SendTimeout(c)
  BY <1>12, <1>13, FinishTypeInv DEF SendTimeout
<1>14. CASE AwaitResolved(c) \/ AwaitTimeout(c)
  BY <1>12, <1>14, FinishTypeInv DEF AwaitResolved, AwaitTimeout
<1>15. CASE CancelDelivered(c)
  <2>1. "cancelled" \in Outcomes
    BY DEF Outcomes
  <2>2. QED
    BY <1>12, <1>15, <2>1, FinishTypeInv DEF CancelDelivered
<1>16. QED
  BY <1>1, <1>2, <1>3, <1>4, <1>5, <1>6, <1>7, <1>8, <1>9, <1>10, <1>11, <1>13, <1>14, <1>15
     DEF CallerStep, CommandStep

(* So does async_close.                                                    *)
LEMMA CloseTypeInv ==
  ASSUME TypeInv, CloseStep
  PROVE  TypeInv'
<1>1. CASE CloseRequested \/ CleanupEnds
  BY <1>1, UnchangedBytes DEF CloseRequested, CleanupEnds, TypeInv, TypeOK
<1>2. CASE CleanupStarts
  <2>1. conn' \in ConnRecord /\ Bytes'
    BY <1>2 DEF CleanupStarts, TypeInv, TypeOK, ConnRecord, Bytes, Base
  <2>2. task' \in [Commands -> TaskRecord]
    <3>1. task \in [Commands -> TaskRecord]
      BY DEF TypeInv, TypeOK
    <3>2. \A c \in Commands : [task[c] EXCEPT !.cancelled = TRUE] \in TaskRecord
      BY <3>1 DEF TaskRecord
    <3>3. QED
      BY <1>2, <3>1, <3>2 DEF CleanupStarts
  <2>3. QED
    BY <1>2, <2>1, <2>2 DEF CleanupStarts, TypeInv, TypeOK
<1>3. QED
  BY <1>1, <1>2 DEF CloseStep

(* So does a step that changes nothing.                                    *)
LEMMA StutterTypeInv ==
  ASSUME TypeInv, UNCHANGED vars
  PROVE  TypeInv'
BY UnchangedBytes DEF vars, TypeInv, TypeOK

(* The types and the account of the bytes are inductive.                   *)
LEMMA NextTypeInv == TypeInv /\ [Next]_vars => TypeInv'
BY EnvironmentTypeInv, ReaderTypeInv, CloseTypeInv, CommandTypeInv, StutterTypeInv DEF Next

(* Types hold always, and no byte of a session is lost or counted twice.   *)
THEOREM TypeInvariance == Spec => []TypeInv
<1>1. TypeInv /\ [Next]_vars => TypeInv'
  BY NextTypeInv
<1>2. QED
  BY <1>1, InitTypeInv, PTL DEF Spec

(* Every variable of the client keeps to the kind of value the code gives  *)
(* it; in particular the parser never asks for a frame that has not come.  *)
THEOREM TypeCorrect == Spec => []TypeOK
<1>1. TypeInv => TypeOK
  BY DEF TypeInv
<1>2. QED
  BY <1>1, TypeInvariance, PTL

-----------------------------------------------------------------------------
(* Locks, sessions and outcomes.  TruthfulOutcome and LockOwnership are    *)
(* not inductive alone: that a task whose future was failed as not sent    *)
(* never writes later rests on session numbers never being used twice, so  *)
(* that _send's test of the session fails for good.                        *)
Sessions ==
  /\ conn.id <= counter
  /\ conn.id = 0 => conn.reader = "none"
  /\ \A c \in Commands : task[c].pc # "idle" => task[c].owner \in 1..counter

Unwritten == {"idle", "new", "lock", "send", "sleep"}

Progress ==
  \A c \in Commands :
    /\ task[c].pc \in Unwritten => ~task[c].queued /\ task[c].writes = 0
    /\ task[c].pc \in {"drain", "await"} => task[c].queued /\ task[c].writes = 1
    /\ task[c].pc # "done" => task[c].outcome = "none"
    /\ task[c].pc \notin Active => task[c].future = "none"
    /\ task[c].future = "notconnected" => ~task[c].queued /\ task[c].owner # conn.id
    /\ task[c].future \in {"confirmed", "uncertain"} => task[c].queued

Safe ==
  /\ Sessions
  /\ LockOwnership
  /\ PendingDiesWithSession
  /\ Progress
  /\ TruthfulOutcome

IInv == TypeInv /\ Safe

(* The client starts without sessions, commands and locks.                 *)
LEMMA InitSafe == Init => Safe
BY ConstantsOK
   DEF Init, NoConn, Idle, Safe, Sessions, LockOwnership, PendingDiesWithSession, Progress,
       Unwritten, Active, InSend, TruthfulOutcome

(* What Safe reads of a task.                                              *)
SameTask(d) ==
  /\ task'[d].pc = task[d].pc /\ task'[d].owner = task[d].owner
  /\ task'[d].queued = task[d].queued /\ task'[d].writes = task[d].writes
  /\ task'[d].future = task[d].future /\ task'[d].outcome = task[d].outcome

(* Steps that touch neither a lock nor the phase of a command.             *)
LEMMA QuietSafe ==
  ASSUME Safe, \A d \in Commands : SameTask(d), UNCHANGED <<counter, cmdLock, sendLock>>,
         conn'.id = conn.id, conn'.pending = conn.pending,
         conn'.reader = "drain" <=> conn.reader = "drain",
         conn'.reader = "none" <=> conn.reader = "none"
  PROVE  Safe'
<1>1. Sessions' /\ PendingDiesWithSession' /\ Progress' /\ TruthfulOutcome'
  BY DEF Safe, SameTask, Sessions, PendingDiesWithSession, Progress, TruthfulOutcome
<1>2. LockOwnership'
  BY DEF Safe, SameTask, LockOwnership
<1>3. QED
  BY <1>1, <1>2 DEF Safe

(* A new session has a number no command has ever had.                     *)
LEMMA AcceptSafe ==
  ASSUME TypeInv, Safe, Accept
  PROVE  Safe'
<1>1. /\ conn'.id = counter + 1 /\ conn'.pending = None /\ conn'.reader = "read"
      /\ counter \in Nat /\ counter' = counter + 1 /\ conn.id = 0
      /\ UNCHANGED <<task, cmdLock, sendLock>>
  BY DEF Accept, NoConn, TypeInv, TypeOK
<1>2. \A c \in Commands : task[c].pc \in Active => task[c].owner \in 1..counter
  BY DEF Safe, Sessions, Active, InSend
<1>3. Sessions'
  BY <1>1 DEF Safe, Sessions
<1>4. LockOwnership'
  <2>1. conn.reader # "drain"
    BY <1>1 DEF Safe, Sessions
  <2>2. QED
    BY <1>1, <1>2, <2>1, ConstantsOK DEF Safe, LockOwnership
<1>5. PendingDiesWithSession'
  BY <1>1, <1>2 DEF Safe, PendingDiesWithSession
<1>6. Progress'
  BY <1>1, <1>2 DEF Safe, Progress
<1>7. TruthfulOutcome'
  BY <1>1 DEF Safe, TruthfulOutcome
<1>8. QED
  BY <1>3, <1>4, <1>5, <1>6, <1>7 DEF Safe

(* A session that ends fails the future of its pending command and lets    *)
(* go of the reader's lock.                                                *)
LEMMA EndReaderSafe ==
  ASSUME TypeInv, Safe, EndReader
  PROVE  Safe'
<1>1. /\ conn'.id = 0 /\ conn'.pending = None /\ conn'.reader = "none"
      /\ counter \in Nat /\ UNCHANGED <<counter, cmdLock>>
      /\ sendLock' = IF sendLock = "reader" THEN None ELSE sendLock
      /\ task \in [Commands -> TaskRecord]
  BY DEF EndReader, NoConn, TypeInv, TypeOK
<1>2. \A d \in Commands :
        /\ task'[d].pc = task[d].pc /\ task'[d].owner = task[d].owner
        /\ task'[d].queued = task[d].queued /\ task'[d].writes = task[d].writes
        /\ task'[d].outcome = task[d].outcome
        /\ task'[d].future = IF d = conn.pending /\ task[d].future = "none"
                            THEN IF task[d].queued THEN "uncertain" ELSE "notconnected"
                            ELSE task[d].future
  BY <1>1 DEF EndReader, TaskRecord
<1>3. \A d \in Commands : task[d].pc \in Active => task[d].owner \in 1..counter
  BY DEF Safe, Sessions, Active, InSend
<1>4. \A d \in Commands : conn.pending = d => task[d].pc \in Active
  BY DEF Safe, LockOwnership
<1>5. Sessions'
  BY <1>1, <1>2 DEF Safe, Sessions
<1>6. LockOwnership'
  BY <1>1, <1>2, <1>3, ConstantsOK DEF Safe, LockOwnership
<1>7. PendingDiesWithSession'
  <2>1. \A d \in Commands : task[d].pc \in Active /\ task[d].owner = conn.id => conn.pending = d
    BY DEF Safe, LockOwnership
  <2>2. QED
    BY <1>2, <2>1 DEF Safe, PendingDiesWithSession
<1>8. Progress'
  BY <1>1, <1>2, <1>3, <1>4 DEF Safe, Progress
<1>9. TruthfulOutcome'
  BY <1>2 DEF Safe, TruthfulOutcome
<1>10. QED
  BY <1>5, <1>6, <1>7, <1>8, <1>9 DEF Safe

(* A task may end with o when o tells the truth about its write.           *)
LEMMA FinishSafe ==
  ASSUME TypeInv, Safe, NEW c \in Commands, NEW o \in Outcomes, Finish(c, o),
         task[c].pc # "idle",
         task[c].writes = IF o \in {"ok", "uncertain"} THEN 1 ELSE 0
  PROVE  Safe'
<1>1. /\ counter \in Nat /\ UNCHANGED counter /\ task \in [Commands -> TaskRecord]
      /\ conn'.id = conn.id /\ conn'.reader = conn.reader
      /\ conn'.pending = IF conn.pending = c THEN None ELSE conn.pending
      /\ cmdLock' = IF cmdLock = c THEN None ELSE cmdLock
      /\ sendLock' = IF sendLock = c THEN None ELSE sendLock
  BY DEF Finish, TypeInv, TypeOK, ConnRecord
<1>2. /\ task'[c].pc = "done" /\ task'[c].owner = task[c].owner /\ ~task'[c].queued
      /\ task'[c].writes = task[c].writes /\ task'[c].outcome = o
      /\ task'[c].future = "none"
  BY <1>1 DEF Finish, Idle
<1>3. \A d \in Commands : d # c => task'[d] = task[d]
  BY <1>1 DEF Finish
<1>4. Sessions'
  BY <1>1, <1>2, <1>3 DEF Safe, Sessions
<1>5. LockOwnership'
  <2>1. ASSUME NEW d \in Commands
        PROVE  /\ task'[d].pc \in Active <=> cmdLock' = d
               /\ task'[d].pc = "drain" <=> sendLock' = d
               /\ conn'.pending = d <=> task'[d].pc \in Active /\ task'[d].owner = conn'.id
    <3>1. CASE d = c
      BY <1>1, <1>2, <3>1, ConstantsOK DEF Active, InSend
    <3>2. CASE d # c
      BY <1>1, <1>3, <3>2, ConstantsOK DEF Safe, LockOwnership
    <3>3. QED
      BY <3>1, <3>2
  <2>2. conn'.reader = "drain" <=> sendLock' = "reader"
    BY <1>1, ConstantsOK DEF Safe, LockOwnership
  <2>3. QED
    BY <2>1, <2>2 DEF LockOwnership
<1>6. PendingDiesWithSession'
  BY <1>1, <1>2, <1>3 DEF Safe, PendingDiesWithSession, Active, InSend
<1>7. Progress'
  BY <1>1, <1>2, <1>3 DEF Safe, Progress, Active, InSend, Unwritten
<1>8. TruthfulOutcome'
  BY <1>2, <1>3 DEF Safe, TruthfulOutcome, Outcomes
<1>9. QED
  BY <1>4, <1>5, <1>6, <1>7, <1>8 DEF Safe

(* A report confirms at most the pending command of its own session.       *)
LEMMA OnStatusSafe ==
  ASSUME TypeInv, Safe, OnStatus
  PROVE  Safe'
<1>1. /\ conn'.id = conn.id /\ conn'.pending = conn.pending
      /\ conn.reader = "work" /\ conn'.reader \in {"work", "read"}
      /\ UNCHANGED <<counter, cmdLock, sendLock>> /\ task \in [Commands -> TaskRecord]
  BY DEF OnStatus, TakeFrame, Working, NextReader, TypeInv, TypeOK, ConnRecord
<1>2. \A d \in Commands :
        /\ task'[d].pc = task[d].pc /\ task'[d].owner = task[d].owner
        /\ task'[d].queued = task[d].queued /\ task'[d].writes = task[d].writes
        /\ task'[d].outcome = task[d].outcome
        /\ \/ task'[d].future = task[d].future
           \/ d = conn.pending /\ task[d].queued /\ task'[d].future = "confirmed"
  <2>1. \A d \in Commands : Confirms(Head(conn.todo), d) => task[d].queued
    BY DEF Confirms
  <2>2. QED
    BY <1>1, <2>1 DEF OnStatus, TaskRecord
<1>3. \A d \in Commands : conn.pending = d => task[d].pc \in Active
  BY DEF Safe, LockOwnership
<1>4. Sessions'
  BY <1>1, <1>2 DEF Safe, Sessions
<1>5. LockOwnership'
  BY <1>1, <1>2 DEF Safe, LockOwnership
<1>6. PendingDiesWithSession'
  BY <1>1, <1>2 DEF Safe, PendingDiesWithSession
<1>7. Progress'
  BY <1>1, <1>2, <1>3 DEF Safe, Progress
<1>8. TruthfulOutcome'
  BY <1>2 DEF Safe, TruthfulOutcome
<1>9. QED
  BY <1>4, <1>5, <1>6, <1>7, <1>8 DEF Safe

(* A heartbeat answer takes the send lock and gives it back.               *)
LEMMA ReplySafe ==
  ASSUME TypeInv, Safe, ReplyWrite \/ ReplyDrained
  PROVE  Safe'
<1>1. /\ conn'.id = conn.id /\ conn'.pending = conn.pending
      /\ conn'.reader # "none" /\ conn.reader # "none"
      /\ UNCHANGED <<counter, cmdLock, task>>
      /\ \/ sendLock = None /\ sendLock' = "reader" /\ conn'.reader = "drain"
         \/ conn.reader = "drain" /\ sendLock' = None /\ conn'.reader # "drain"
  BY DEF ReplyWrite, ReplyDrained, NextReader, TypeInv, TypeOK, ConnRecord
<1>2. Sessions' /\ PendingDiesWithSession' /\ Progress' /\ TruthfulOutcome'
  BY <1>1 DEF Safe, Sessions, PendingDiesWithSession, Progress, TruthfulOutcome
<1>3. LockOwnership'
  BY <1>1, ConstantsOK DEF Safe, LockOwnership
<1>4. QED
  BY <1>2, <1>3 DEF Safe

(* The environment keeps the safety part of the invariant.                 *)
LEMMA EnvironmentSafe ==
  ASSUME TypeInv, Safe, Environment
  PROVE  Safe'
<1>1. conn \in ConnRecord
  BY DEF TypeInv, TypeOK
<1>2. CASE Accept
  BY <1>2, AcceptSafe
<1>3. CASE FeedData
  <2>1. conn'.id = conn.id /\ conn'.pending = conn.pending /\ conn'.reader = conn.reader
    BY <1>1, <1>3 DEF FeedData, ConnRecord
  <2>2. QED
    BY <1>3, <2>1, QuietSafe DEF FeedData, SameTask
<1>4. CASE WriterCloses
  <2>1. conn'.id = conn.id /\ conn'.pending = conn.pending /\ conn'.reader = conn.reader
    BY <1>1, <1>4 DEF WriterCloses, ConnRecord
  <2>2. QED
    BY <1>4, <2>1, QuietSafe DEF WriterCloses, SameTask
<1>5. CASE Tick
  <2>1. conn'.id = conn.id /\ conn'.pending = conn.pending /\ conn'.reader = conn.reader
    BY <1>1, <1>5 DEF Tick, ConnRecord
  <2>2. QED
    BY <1>5, <2>1, QuietSafe DEF Tick, SameTask
<1>6. QED
  BY <1>2, <1>3, <1>4, <1>5 DEF Environment

(* So does the reader task.                                                *)
LEMMA ReaderSafe ==
  ASSUME TypeInv, Safe, ReaderStep
  PROVE  Safe'
<1>1. conn \in ConnRecord /\ task \in [Commands -> TaskRecord]
  BY DEF TypeInv, TypeOK
<1>2. CASE ReadBad \/ ReaderStops \/ ReaderCancelled \/ OnGarbled \/ ReplyRefused \/ ReplyFails
  BY <1>2, EndReaderSafe
     DEF ReadBad, ReaderStops, ReaderCancelled, OnGarbled, ReplyRefused, ReplyFails
<1>3. CASE Read
  <2>1. /\ conn'.id = conn.id /\ conn'.pending = conn.pending
        /\ conn.reader = "read" /\ conn'.reader \in {"work", "read"}
    BY <1>1, <1>3 DEF Read, ConnRecord
  <2>2. QED
    BY <1>3, <2>1, QuietSafe DEF Read, SameTask
<1>4. ASSUME NEW kinds, NEW next \in {"reply", "work", "read"}, Working(kinds), TakeFrame(next)
      PROVE  /\ conn'.id = conn.id /\ conn'.pending = conn.pending
             /\ conn.reader = "work" /\ conn'.reader \in {"reply", "work", "read"}
  BY <1>1, <1>4 DEF TakeFrame, Working, ConnRecord
<1>5. CASE OnHeartbeat
  BY <1>4, <1>5, QuietSafe DEF OnHeartbeat, SameTask
<1>6. NextReader(Tail(conn.todo)) \in {"reply", "work", "read"}
  BY DEF NextReader
<1>7. CASE OnOther
  BY <1>4, <1>6, <1>7, QuietSafe DEF OnOther, SameTask
<1>8. CASE OnStatus
  BY <1>8, OnStatusSafe
<1>9. CASE ReplyWrite
  BY <1>9, ReplySafe
<1>10. CASE ReplyDrained
  BY <1>10, ReplySafe
<1>11. QED
  BY <1>2, <1>3, <1>5, <1>7, <1>8, <1>9, <1>10 DEF ReaderStep

(* So does async_close, which ends sessions and commands in any phase.     *)
LEMMA CloseSafe ==
  ASSUME TypeInv, Safe, CloseStep
  PROVE  Safe'
<1>1. conn \in ConnRecord /\ task \in [Commands -> TaskRecord]
  BY DEF TypeInv, TypeOK
<1>2. CASE CloseRequested \/ CleanupEnds
  BY <1>2, QuietSafe DEF CloseRequested, CleanupEnds, SameTask
<1>3. CASE CleanupStarts
  <2>1. conn'.id = conn.id /\ conn'.pending = conn.pending /\ conn'.reader = conn.reader
    BY <1>1, <1>3 DEF CleanupStarts, ConnRecord
  <2>2. \A d \in Commands : SameTask(d)
    BY <1>1, <1>3 DEF CleanupStarts, SameTask, TaskRecord
  <2>3. QED
    BY <1>3, <2>1, <2>2, QuietSafe DEF CleanupStarts
<1>4. QED
  BY <1>2, <1>3 DEF CloseStep

(* Acquiring, writing and draining: the steps that move a lock.            *)
LEMMA AcquireSafe ==
  ASSUME TypeInv, Safe, NEW c \in Commands, AcquireCommandLock(c)
  PROVE  Safe'
<1>1. /\ UNCHANGED <<counter, sendLock>> /\ cmdLock = None /\ cmdLock' = c
      /\ conn'.id = conn.id /\ conn'.pending = c /\ conn'.reader = conn.reader
      /\ task[c].pc = "lock" /\ task[c].owner = conn.id
      /\ task \in [Commands -> TaskRecord]
  BY DEF AcquireCommandLock, FreshFor, Freshness, TypeInv, TypeOK, ConnRecord
<1>2. /\ task'[c].pc = "send" /\ task'[c].owner = task[c].owner
      /\ task'[c].queued = task[c].queued /\ task'[c].writes = task[c].writes
      /\ task'[c].outcome = task[c].outcome /\ task'[c].future = task[c].future
      /\ \A d \in Commands : d # c => task'[d] = task[d]
  BY <1>1 DEF AcquireCommandLock, TaskRecord
<1>3. \A d \in Commands : task[d].pc \notin Active
  BY <1>1, ConstantsOK DEF Safe, LockOwnership
<1>4. Sessions'
  BY <1>1, <1>2 DEF Safe, Sessions
<1>5. LockOwnership'
  <2>1. ASSUME NEW d \in Commands
        PROVE  /\ task'[d].pc \in Active <=> cmdLock' = d
               /\ task'[d].pc = "drain" <=> sendLock' = d
               /\ conn'.pending = d <=> task'[d].pc \in Active /\ task'[d].owner = conn'.id
    <3>1. CASE d = c
      BY <1>1, <1>2, <3>1 DEF Safe, LockOwnership, Active, InSend
    <3>2. CASE d # c
      BY <1>1, <1>2, <1>3, <3>2 DEF Safe, LockOwnership
    <3>3. QED
      BY <3>1, <3>2
  <2>2. QED
    BY <1>1, <2>1 DEF Safe, LockOwnership
<1>6. PendingDiesWithSession'
  BY <1>1, <1>2 DEF Safe, PendingDiesWithSession
<1>7. Progress'
  BY <1>1, <1>2 DEF Safe, Progress, Unwritten, Active, InSend
<1>8. TruthfulOutcome'
  BY <1>2 DEF Safe, TruthfulOutcome
<1>9. QED
  BY <1>4, <1>5, <1>6, <1>7, <1>8 DEF Safe

(* A write goes to the session of the command and happens once.            *)
LEMMA SendWriteSafe ==
  ASSUME TypeInv, Safe, NEW c \in Commands, SendWrite(c)
  PROVE  Safe'
<1>1. /\ UNCHANGED <<counter, cmdLock, conn>> /\ sendLock = None /\ sendLock' = c
      /\ task[c].pc = "send" /\ task[c].owner = conn.id
      /\ task \in [Commands -> TaskRecord]
  BY DEF SendWrite, AtSendLock, SendCheck, Writable, TypeInv, TypeOK
<1>2. /\ task'[c].pc = "drain" /\ task'[c].owner = task[c].owner
      /\ task'[c].queued = TRUE /\ task'[c].writes = task[c].writes + 1
      /\ task'[c].outcome = task[c].outcome /\ task'[c].future = task[c].future
      /\ \A d \in Commands : d # c => task'[d] = task[d]
  BY <1>1 DEF SendWrite, TaskRecord
<1>3. /\ task[c].writes = 0 /\ task[c].outcome = "none" /\ ~task[c].queued
      /\ task[c].future \notin {"notconnected", "confirmed", "uncertain"}
  BY <1>1 DEF Safe, Progress, Unwritten
<1>4. Sessions'
  BY <1>1, <1>2 DEF Safe, Sessions
<1>5. LockOwnership'
  <2>1. ASSUME NEW d \in Commands
        PROVE  /\ task'[d].pc \in Active <=> cmdLock' = d
               /\ task'[d].pc = "drain" <=> sendLock' = d
               /\ conn'.pending = d <=> task'[d].pc \in Active /\ task'[d].owner = conn'.id
    <3>1. CASE d = c
      BY <1>1, <1>2, <3>1 DEF Safe, LockOwnership, Active, InSend
    <3>2. CASE d # c
      BY <1>1, <1>2, <3>2, ConstantsOK DEF Safe, LockOwnership
    <3>3. QED
      BY <3>1, <3>2
  <2>2. QED
    BY <1>1, <2>1, ConstantsOK DEF Safe, LockOwnership
<1>6. PendingDiesWithSession'
  BY <1>1, <1>2 DEF Safe, PendingDiesWithSession
<1>7. Progress'
  BY <1>1, <1>2, <1>3 DEF Safe, Progress, Unwritten, Active, InSend
<1>8. TruthfulOutcome'
  BY <1>2, <1>3 DEF Safe, TruthfulOutcome
<1>9. QED
  BY <1>4, <1>5, <1>6, <1>7, <1>8 DEF Safe

(* A command whose bytes are out waits for its answer without the send     *)
(* lock.                                                                   *)
LEMMA SendDrainedSafe ==
  ASSUME TypeInv, Safe, NEW c \in Commands, SendDrained(c)
  PROVE  Safe'
<1>1. /\ UNCHANGED <<counter, cmdLock, conn>> /\ sendLock' = None
      /\ task[c].pc = "drain" /\ task \in [Commands -> TaskRecord]
  BY DEF SendDrained, TypeInv, TypeOK
<1>2. /\ task'[c].pc = "await" /\ task'[c].owner = task[c].owner
      /\ task'[c].queued = task[c].queued /\ task'[c].writes = task[c].writes
      /\ task'[c].outcome = task[c].outcome /\ task'[c].future = task[c].future
      /\ \A d \in Commands : d # c => task'[d] = task[d]
  BY <1>1 DEF SendDrained, TaskRecord
<1>3. sendLock = c
  BY <1>1 DEF Safe, LockOwnership
<1>4. Sessions'
  BY <1>1, <1>2 DEF Safe, Sessions
<1>5. LockOwnership'
  <2>1. ASSUME NEW d \in Commands
        PROVE  /\ task'[d].pc \in Active <=> cmdLock' = d
               /\ task'[d].pc = "drain" <=> sendLock' = d
               /\ conn'.pending = d <=> task'[d].pc \in Active /\ task'[d].owner = conn'.id
    <3>1. CASE d = c
      BY <1>1, <1>2, <3>1, ConstantsOK DEF Safe, LockOwnership, Active, InSend
    <3>2. CASE d # c
      BY <1>1, <1>2, <1>3, <3>2, ConstantsOK DEF Safe, LockOwnership
    <3>3. QED
      BY <3>1, <3>2
  <2>2. QED
    BY <1>1, <1>3, <2>1, ConstantsOK DEF Safe, LockOwnership
<1>6. PendingDiesWithSession'
  BY <1>1, <1>2 DEF Safe, PendingDiesWithSession, Active, InSend
<1>7. Progress'
  BY <1>1, <1>2 DEF Safe, Progress, Unwritten, Active, InSend
<1>8. TruthfulOutcome'
  BY <1>2 DEF Safe, TruthfulOutcome
<1>9. QED
  BY <1>4, <1>5, <1>6, <1>7, <1>8 DEF Safe

(* A move between two phases on the same side of every lock and write.     *)
LEMMA MoveSafe ==
  ASSUME TypeInv, Safe, NEW c \in Commands,
         NEW p \in {"new", "lock", "send", "sleep"},
         task[c].pc \in Unwritten, task[c].pc \in InSend <=> p \in InSend,
         UNCHANGED <<counter, conn, cmdLock, sendLock>>,
         task'[c].pc = p, task'[c].owner \in 1..counter,
         p \in InSend => task'[c].owner = task[c].owner,
         task'[c].queued = task[c].queued, task'[c].writes = task[c].writes,
         task'[c].future = task[c].future, task'[c].outcome = task[c].outcome,
         \A d \in Commands : d # c => task'[d] = task[d]
  PROVE  Safe'
<1>1. /\ task[c].pc \in Active <=> task'[c].pc \in Active
      /\ task[c].pc # "drain" /\ task'[c].pc # "drain"
      /\ task'[c].pc \in Active => task'[c].owner = task[c].owner
      /\ task'[c].pc \in Unwritten
  BY DEF Active, InSend, Unwritten
<1>2. Sessions'
  BY DEF Safe, Sessions
<1>3. LockOwnership'
  BY <1>1 DEF Safe, LockOwnership
<1>4. PendingDiesWithSession'
  BY <1>1 DEF Safe, PendingDiesWithSession
<1>5. Progress'
  BY <1>1 DEF Safe, Progress, Unwritten
<1>6. TruthfulOutcome'
  BY DEF Safe, TruthfulOutcome
<1>7. QED
  BY <1>2, <1>3, <1>4, <1>5, <1>6 DEF Safe

(* Every step of a command task and of its caller keeps the safety part.   *)
LEMMA CommandSafe ==
  ASSUME TypeInv, Safe, NEW c \in Commands, CallerStep(c) \/ CommandStep(c)
  PROVE  Safe'
<1>0. /\ task \in [Commands -> TaskRecord] /\ task[c] \in TaskRecord
      /\ counter \in Nat /\ conn.id \in Nat
  BY DEF TypeInv, TypeOK, ConnRecord
<1>1. CASE CancelCaller(c)
  <2>1. \A d \in Commands : SameTask(d)
    BY <1>0, <1>1 DEF CancelCaller, SameTask, TaskRecord
  <2>2. QED
    BY <1>1, <2>1, QuietSafe DEF CancelCaller
<1>2. CASE \E r \in Requests : Submit(c, r)
  <2>1. PICK r \in Requests : Submit(c, r)
    BY <1>2
  <2>2. conn.id \in 1..counter
    BY <1>0, <2>1 DEF Submit, Freshness, Connected, Safe, Sessions
  <2>3. /\ task[c].pc = "idle" /\ task'[c].pc = "new" /\ task'[c].owner = conn.id
        /\ task'[c].queued = task[c].queued /\ task'[c].writes = task[c].writes
        /\ task'[c].future = task[c].future /\ task'[c].outcome = task[c].outcome
        /\ \A d \in Commands : d # c => task'[d] = task[d]
        /\ UNCHANGED <<counter, conn, cmdLock, sendLock>>
    BY <1>0, <2>1 DEF Submit, TaskRecord
  <2>4. QED
    BY <2>2, <2>3, MoveSafe DEF Unwritten, InSend
<1>3. ASSUME task[c].pc \in Unwritten \ {"idle"}
      PROVE  task[c].owner \in 1..counter
  BY <1>3 DEF Safe, Sessions
<1>4. CASE Start(c)
  <2>1. /\ task[c].pc = "new" /\ task'[c].pc = "lock" /\ task'[c].owner = task[c].owner
        /\ task'[c].queued = task[c].queued /\ task'[c].writes = task[c].writes
        /\ task'[c].future = task[c].future /\ task'[c].outcome = task[c].outcome
        /\ \A d \in Commands : d # c => task'[d] = task[d]
        /\ UNCHANGED <<counter, conn, cmdLock, sendLock>>
    BY <1>0, <1>4 DEF Start, TaskRecord
  <2>2. QED
    BY <1>3, <2>1, MoveSafe DEF Unwritten, InSend
<1>5. CASE SendPaced(c)
  <2>1. /\ task[c].pc = "send" /\ task'[c].pc = "sleep" /\ task'[c].owner = task[c].owner
        /\ task'[c].queued = task[c].queued /\ task'[c].writes = task[c].writes
        /\ task'[c].future = task[c].future /\ task'[c].outcome = task[c].outcome
        /\ \A d \in Commands : d # c => task'[d] = task[d]
        /\ UNCHANGED <<counter, conn, cmdLock, sendLock>>
    BY <1>0, <1>5 DEF SendPaced, AtSendLock, TaskRecord
  <2>2. QED
    BY <1>3, <2>1, MoveSafe DEF Unwritten, InSend
<1>6. CASE SleepEnds(c)
  <2>1. /\ task[c].pc = "sleep" /\ task'[c].pc = "send" /\ task'[c].owner = task[c].owner
        /\ task'[c].queued = task[c].queued /\ task'[c].writes = task[c].writes
        /\ task'[c].future = task[c].future /\ task'[c].outcome = task[c].outcome
        /\ \A d \in Commands : d # c => task'[d] = task[d]
        /\ UNCHANGED <<counter, conn, cmdLock, sendLock>>
    BY <1>0, <1>6 DEF SleepEnds, TaskRecord
  <2>2. QED
    BY <1>3, <2>1, MoveSafe DEF Unwritten, InSend
<1>7. CASE AcquireCommandLock(c)
  BY <1>7, AcquireSafe
<1>8. CASE SendWrite(c)
  BY <1>8, SendWriteSafe
<1>9. CASE SendDrained(c)
  BY <1>9, SendDrainedSafe
<1>10. /\ task[c].pc \in Unwritten => task[c].writes = 0 /\ ~task[c].queued
       /\ task[c].pc \in {"drain", "await"} => task[c].writes = 1 /\ task[c].queued
       /\ task[c].future = "notconnected" => ~task[c].queued
       /\ task[c].future \in {"confirmed", "uncertain"} => task[c].queued
  BY DEF Safe, Progress
<1>11. CASE RefusedUnderLock(c) \/ LockTimeout(c)
  <2>1. FreshFor(c) \in {"fresh", "notconnected", "stale"}
    BY FreshnessType DEF FreshFor
  <2>2. task[c].pc = "lock" /\ task[c].writes = 0
    BY <1>10, <1>11 DEF RefusedUnderLock, LockTimeout, Unwritten
  <2>3. QED
    BY <1>11, <2>1, <2>2, FinishSafe DEF RefusedUnderLock, LockTimeout, Outcomes
<1>12. CASE SendRefused(c)
  <2>1. SendCheck(c) \in {"fresh", "notconnected", "stale"}
    BY FreshnessType DEF SendCheck, FreshFor
  <2>2. task[c].pc = "send" /\ task[c].writes = 0
    BY <1>10, <1>12 DEF SendRefused, AtSendLock, Unwritten
  <2>3. QED
    BY <1>12, <2>1, <2>2, FinishSafe DEF SendRefused, Outcomes
<1>13. /\ ByWrite(c) \in Outcomes
       /\ ByWrite(c) \in {"ok", "uncertain"} <=> task[c].queued
       /\ task[c].future # "none" =>
            /\ FutureOutcome(c) \in Outcomes
            /\ FutureOutcome(c) \in {"ok", "uncertain"} <=> task[c].queued
  BY <1>0, <1>10 DEF ByWrite, FutureOutcome, TaskRecord, Outcomes
<1>14. task[c].pc \in InSend \cup {"await", "new", "lock"}
         => task[c].writes = IF task[c].queued THEN 1 ELSE 0
  BY <1>10 DEF InSend, Unwritten
<1>15. CASE SendTimeout(c)
  BY <1>13, <1>14, <1>15, FinishSafe DEF SendTimeout, InSend
<1>16. CASE AwaitResolved(c) \/ AwaitTimeout(c)
  BY <1>13, <1>14, <1>16, FinishSafe DEF AwaitResolved, AwaitTimeout
<1>17. CASE CancelDelivered(c)
  <2>1. task[c].pc \in InSend \cup {"await", "new", "lock"} /\ task[c].pc # "idle"
    BY <1>0, <1>17 DEF CancelDelivered, TaskRecord, Active, InSend
  <2>2. task[c].pc = "new" => ~task[c].queued
    BY <1>10 DEF Unwritten
  <2>3. QED
    BY <1>13, <1>14, <1>17, <2>1, <2>2, FinishSafe DEF CancelDelivered, Outcomes
<1>18. QED
  BY <1>1, <1>2, <1>4, <1>5, <1>6, <1>7, <1>8, <1>9, <1>11, <1>12, <1>15, <1>16, <1>17
     DEF CallerStep, CommandStep

(* So does a step that changes nothing.                                    *)
LEMMA StutterSafe ==
  ASSUME Safe, UNCHANGED vars
  PROVE  Safe'
BY QuietSafe DEF vars, SameTask

(* The invariant is inductive.                                             *)
LEMMA NextSafe == IInv /\ [Next]_vars => IInv'
<1> SUFFICES ASSUME IInv, [Next]_vars PROVE IInv'
  OBVIOUS
<1>1. TypeInv'
  BY NextTypeInv DEF IInv
<1>2. Safe'
  BY EnvironmentSafe, ReaderSafe, CloseSafe, CommandSafe, StutterSafe DEF IInv, Next
<1>3. QED
  BY <1>1, <1>2 DEF IInv

(* The inductive invariant of the client: types, bytes, sessions, locks,   *)
(* pending commands, progress and outcomes.                                *)
THEOREM Invariance == Spec => []IInv
<1>1. Init => IInv
  BY InitTypeInv, InitSafe DEF IInv
<1>2. QED
  BY <1>1, NextSafe, PTL DEF Spec

(* What a caller is told of its command agrees with what was written, for  *)
(* any number of callers, sessions and frames.                             *)
THEOREM OutcomesAreTruthful == Spec => []TruthfulOutcome
<1>1. IInv => TruthfulOutcome
  BY DEF IInv, Safe
<1>2. QED
  BY <1>1, Invariance, PTL

(* No path out of a command, of an answer or of a session leaks a lock.    *)
THEOREM LocksAreOwned == Spec => []LockOwnership
<1>1. IInv => LockOwnership
  BY DEF IInv, Safe
<1>2. QED
  BY <1>1, Invariance, PTL

(* No command outlives its session with an open future.                    *)
THEOREM SessionsTakePendingAlong == Spec => []PendingDiesWithSession
<1>1. IInv => PendingDiesWithSession
  BY DEF IInv, Safe
<1>2. QED
  BY <1>1, Invariance, PTL

-----------------------------------------------------------------------------
(* Frames and their places.  StreamAccounted follows from the byte account *)
(* once the units parsed are known to be whole frames, and the place a     *)
(* chunk's entry carries to be the distance to the end of the chunk.       *)
Framing ==
  /\ Base % 2 = 0
  /\ \A k \in DOMAIN conn.todo : conn.todo[k].offset = Base - 2 * (Len(conn.todo) - k + 1)

(* What a frame that began at offset proves about the commands in flight   *)
(* on its session: those whose boundary it lies beyond were written before *)
(* it began.                                                               *)
InFlight(c) == task[c].pc \in {"drain", "await"} /\ task[c].owner = conn.id

Follows(a, offset) ==
  /\ a.session = conn.id
  /\ \A c \in Commands : InFlight(c) /\ offset >= task[c].boundary => c \in a.after

StreamFollows ==
  \A k \in 1..Len(conn.stream) : Follows(conn.stream[k], Base + 2 * (k - 1))

TodoFollows ==
  \A k \in 1..Len(conn.todo) : Follows(conn.todo[k].arrival, conn.todo[k].offset)

Boundaries == \A c \in Commands : InFlight(c) => task[c].boundary <= conn.total

(* The report that resolved the future of a command, or ended it with ok.  *)
Proves(e, q, owner, c) ==
  /\ c \in e.after
  /\ e.session = owner
  /\ e.input.kind = "status"
  /\ e.input.report.opcode = q.op
  /\ e.input.report[q.op] = q.want

Proven ==
  \A c \in Commands :
    task[c].future = "confirmed" \/ task[c].outcome = "ok"
      => Proves(task[c].evidence, task[c].request, task[c].owner, c)

Later ==
  /\ Framing
  /\ StreamFollows
  /\ TodoFollows
  /\ Boundaries
  /\ Proven

(* The client starts without frames and commands.                          *)
LEMMA InitLater == Init => Later
BY DEF Init, NoConn, Idle, Later, Framing, Base, StreamFollows, TodoFollows, Boundaries,
       InFlight, Proven

(* What Later reads of a task.                                             *)
SameRecord(d) ==
  /\ task'[d].pc = task[d].pc /\ task'[d].owner = task[d].owner
  /\ task'[d].boundary = task[d].boundary /\ task'[d].future = task[d].future
  /\ task'[d].outcome = task[d].outcome /\ task'[d].evidence = task[d].evidence
  /\ task'[d].request = task[d].request

(* What it reads of the connection.                                        *)
SameFrames ==
  /\ conn'.id = conn.id /\ conn'.total = conn.total /\ conn'.received = conn.received
  /\ conn'.buffered = conn.buffered /\ conn'.stream = conn.stream /\ conn'.todo = conn.todo

(* A step under which no command comes into flight keeps what each frame   *)
(* proves.                                                                 *)
LEMMA FramesKept ==
  ASSUME Later, SameFrames,
         \A d \in Commands : InFlight(d)' => InFlight(d) /\ task'[d].boundary = task[d].boundary
  PROVE  Framing' /\ StreamFollows' /\ TodoFollows' /\ Boundaries'
<1>1. Framing'
  BY DEF Later, Framing, Base, SameFrames
<1>2. StreamFollows'
  BY DEF Later, StreamFollows, Follows, Base, SameFrames
<1>3. TodoFollows'
  BY DEF Later, TodoFollows, Follows, SameFrames
<1>4. Boundaries'
  BY DEF Later, Boundaries, SameFrames
<1>5. QED
  BY <1>1, <1>2, <1>3, <1>4

(* Steps that touch neither frames nor evidence.                           *)
LEMMA QuietLater ==
  ASSUME Later, SameFrames, \A d \in Commands : SameRecord(d)
  PROVE  Later'
<1>1. \A d \in Commands : InFlight(d)' => InFlight(d) /\ task'[d].boundary = task[d].boundary
  BY DEF InFlight, SameRecord, SameFrames
<1>2. Proven'
  BY DEF Later, Proven, SameRecord
<1>3. QED
  BY <1>1, <1>2, FramesKept DEF Later

(* A session that ends leaves no frames, and no command of it in flight.   *)
LEMMA EndReaderLater ==
  ASSUME IInv, Later, EndReader
  PROVE  Later'
<1>1. /\ conn'.id = 0 /\ conn'.total = 0 /\ conn'.received = 0 /\ conn'.buffered = 0
      /\ conn'.stream = <<>> /\ conn'.todo = <<>>
      /\ counter \in Nat /\ task \in [Commands -> TaskRecord]
  BY DEF EndReader, NoConn, IInv, TypeInv, TypeOK
<1>2. \A d \in Commands :
        /\ task'[d].pc = task[d].pc /\ task'[d].owner = task[d].owner
        /\ task'[d].outcome = task[d].outcome /\ task'[d].evidence = task[d].evidence
        /\ task'[d].request = task[d].request
        /\ task'[d].future = "confirmed" => task[d].future = "confirmed"
  BY <1>1 DEF EndReader, TaskRecord
<1>3. \A d \in Commands : ~InFlight(d)'
  BY <1>1, <1>2 DEF InFlight, IInv, Safe, Sessions
<1>4. Framing' /\ StreamFollows' /\ TodoFollows' /\ Boundaries'
  BY <1>1, <1>3 DEF Framing, Base, StreamFollows, TodoFollows, Boundaries
<1>5. Proven'
  BY <1>2 DEF Later, Proven
<1>6. QED
  BY <1>4, <1>5 DEF Later

(* A session that begins has no frames yet.                                *)
LEMMA AcceptLater ==
  ASSUME IInv, Later, Accept
  PROVE  Later'
<1>1. /\ conn'.id = counter + 1 /\ conn'.total = 0 /\ conn'.received = 0
      /\ conn'.buffered = 0 /\ conn'.stream = <<>> /\ conn'.todo = <<>>
      /\ counter \in Nat /\ task' = task
  BY DEF Accept, NoConn, IInv, TypeInv, TypeOK
<1>2. \A d \in Commands : ~InFlight(d)'
  BY <1>1 DEF InFlight, IInv, Safe, Sessions
<1>3. Framing' /\ StreamFollows' /\ TodoFollows' /\ Boundaries'
  BY <1>1, <1>2 DEF Framing, Base, StreamFollows, TodoFollows, Boundaries
<1>4. Proven'
  BY <1>1 DEF Later, Proven
<1>5. QED
  BY <1>3, <1>4 DEF Later

(* The place where a frame begins when its first unit arrives: behind      *)
(* every unit there is.                                                    *)
LEMMA NewFramePlace ==
  ASSUME NEW t \in Nat, NEW b \in Nat, NEW l \in Nat, Begun(t, b, l)
  PROVE  /\ t % 2 = 0 => b + 2 * l = t
         /\ \A k \in 1..l : b + 2 * (k - 1) < t
<1>1. t % 2 = 0 => 2 * l = t - b
  BY DEF Begun
<1>2. 2 * l <= t - b + 1
  BY DEF Begun
<1>3. ASSUME NEW k \in 1..l
      PROVE  b + 2 * (k - 1) < t
  BY <1>2
<1>4. QED
  BY <1>1, <1>3

(* A frame that begins to arrive follows every write before it.            *)
LEMMA FeedDataLater ==
  ASSUME IInv, Later, FeedData
  PROVE  Later'
<1>0. conn \in ConnRecord /\ task \in [Commands -> TaskRecord]
  BY DEF IInv, TypeInv, TypeOK
<1>1. /\ conn.stream \in Seq(Arrival) /\ Len(conn.stream) \in Nat
      /\ conn.total \in Nat /\ Base \in Nat
      /\ Begun(conn.total, Base, Len(conn.stream))
  BY <1>0 DEF IInv, TypeInv, Bytes, Base, ConnRecord
<1>2. /\ conn'.id = conn.id /\ conn'.received = conn.received
      /\ conn'.buffered = conn.buffered /\ conn'.todo = conn.todo
      /\ conn'.total = conn.total + 1 /\ task' = task
  BY <1>0 DEF FeedData, ConnRecord
<1>3. Base' = Base /\ \A d \in Commands : InFlight(d)' <=> InFlight(d)
  BY <1>2 DEF Base, InFlight
<1>4. Framing'
  BY <1>2, <1>3 DEF Later, Framing
<1>5. TodoFollows'
  BY <1>2, <1>3 DEF Later, TodoFollows, Follows
<1>6. Boundaries'
  <2>1. ASSUME NEW d \in Commands, InFlight(d)'
        PROVE  task'[d].boundary <= conn'.total
    <3>1. task[d].boundary \in Nat /\ task[d].boundary <= conn.total
      BY <1>0, <1>3, <2>1 DEF Later, Boundaries, TaskRecord
    <3>2. QED
      BY <1>1, <1>2, <3>1
  <2>2. QED
    BY <2>1 DEF Boundaries
<1>7. Proven'
  BY <1>2 DEF Later, Proven
<1>8. StreamFollows'
  <2>1. CASE conn.total % FrameLen # 0
    <3>1. conn'.stream = conn.stream
      BY <1>0, <2>1 DEF FeedData, ConnRecord
    <3>2. QED
      BY <1>2, <1>3, <3>1 DEF Later, StreamFollows, Follows
  <2>2. CASE conn.total % FrameLen = 0
    <3>1. PICK i \in Inputs :
          conn' = [conn EXCEPT !.total = @ + 1,
                               !.stream = Append(@, [input |-> i, session |-> conn.id,
                                                     after |-> Written])]
      BY <2>2 DEF FeedData
    <3> DEFINE a == [input |-> i, session |-> conn.id, after |-> Written]
               n == Len(conn.stream) + 1
    <3>2. conn'.stream = Append(conn.stream, a)
      BY <1>0, <3>1 DEF ConnRecord
    <3>3. a \in Arrival
      BY <1>0, ConstantsOK DEF Arrival, Written, ConnRecord
    <3>4. a.session = conn.id /\ \A d \in Commands : InFlight(d) => d \in a.after
      BY DEF InFlight, Written, IInv, Safe, Progress
    <3> HIDE DEF a
    <3>5. Len(conn'.stream) = n /\ conn'.stream[n] = a
          /\ \A k \in 1..Len(conn.stream) : conn'.stream[k] = conn.stream[k]
      BY <1>1, <3>2, <3>3
    <3>6. ASSUME NEW k \in 1..n
          PROVE  Follows(conn.stream[k], Base + 2 * (k - 1))'
      <4>1. CASE k = n
        BY <1>2, <1>3, <3>4, <3>5, <4>1 DEF Follows
      <4>2. CASE k # n
        <5>1. k \in 1..Len(conn.stream)
          BY <1>1, <4>2
        <5>2. Follows(conn.stream[k], Base + 2 * (k - 1))
          BY <5>1 DEF Later, StreamFollows
        <5>3. QED
          BY <1>2, <1>3, <3>5, <5>1, <5>2 DEF Follows
      <4>3. QED
        BY <4>1, <4>2
    <3>7. QED
      BY <3>5, <3>6 DEF StreamFollows
  <2>3. QED
    BY <2>1, <2>2
<1>9. QED
  BY <1>4, <1>5, <1>6, <1>7, <1>8 DEF Later

(* The frames of a chunk carry the places they had in the stream.          *)
LEMMA ReadLater ==
  ASSUME IInv, Later, Read
  PROVE  Later'
<1> DEFINE n == Complete
           todo == [k \in 1..n |-> [arrival |-> conn.stream[k],
                                    offset |-> FirstOffset + (k - 1) * FrameLen]]
           rest == SubSeq(conn.stream, n + 1, Len(conn.stream))
<1>0. conn \in ConnRecord
  BY DEF IInv, TypeInv, TypeOK
<1>1. /\ n \in Nat /\ n <= Len(conn.stream) /\ FirstOffset = Base /\ Base \in Nat
      /\ conn.stream \in Seq(Arrival) /\ Len(conn.stream) \in Nat
      /\ ParserLen \in Nat /\ ParserLen = conn.buffered + ChunkLen /\ ChunkLen \in Nat
      /\ conn.received \in Nat /\ conn.buffered \in Nat
  BY <1>0, ReadBytes DEF Read, IInv, ConnRecord
<1>2. /\ conn'.id = conn.id /\ conn'.total = conn.total /\ task' = task
      /\ conn'.todo = todo /\ conn'.stream = rest
      /\ conn'.received = conn.received + ChunkLen
      /\ conn'.buffered = ParserLen - n * FrameLen
  BY <1>0 DEF Read, ConnRecord
<1>3. Base' = Base + 2 * n
  <2>1. (conn.received + ChunkLen) - ((conn.buffered + ChunkLen) - 2 * n)
          = (conn.received - conn.buffered) + 2 * n
    <3>1. /\ conn.received \in Int /\ conn.buffered \in Int
          /\ ChunkLen \in Int /\ n \in Int
      BY <1>1
    <3> HIDE DEF n
    <3>2. QED
      BY <3>1, Regrouped
  <2>2. ParserLen - n * FrameLen = (conn.buffered + ChunkLen) - 2 * n
    BY <1>1 DEF FrameLen
  <2>3. QED
    BY <1>2, <2>1, <2>2 DEF Base
<1>4. /\ Len(conn'.todo) = n /\ DOMAIN conn'.todo = 1..n
      /\ \A k \in 1..n : /\ conn'.todo[k].arrival = conn.stream[k]
                         /\ conn'.todo[k].offset = Base + 2 * (k - 1)
  <2>1. todo \in [1..n -> {todo[k] : k \in 1..n}]
    OBVIOUS
  <2>2. Len(todo) = n /\ DOMAIN todo = 1..n
    <3> HIDE DEF todo
    <3>1. QED
      BY <1>1, <2>1, TabulationIsSeq
  <2>3. ASSUME NEW k \in 1..n
        PROVE  /\ todo[k].arrival = conn.stream[k]
               /\ todo[k].offset = Base + 2 * (k - 1)
    <3>1. FirstOffset + (k - 1) * FrameLen = Base + 2 * (k - 1)
      BY <1>1 DEF FrameLen
    <3>2. QED
      BY <3>1
  <2> HIDE DEF todo
  <2>4. QED
    BY <1>2, <2>2, <2>3
<1>5. \A d \in Commands : InFlight(d)' <=> InFlight(d)
  BY <1>2 DEF InFlight
<1>6. Framing'
  <2>1. Base % 2 = 0
    BY DEF Later, Framing
  <2>2. (Base + 2 * n) % 2 = 0
    BY <1>1, <2>1
  <2>3. \A k \in 1..n : Base + 2 * (k - 1) = (Base + 2 * n) - 2 * (n - k + 1)
    BY <1>1
  <2>4. QED
    BY <1>3, <1>4, <2>2, <2>3 DEF Framing
<1>7. TodoFollows'
  <2>1. ASSUME NEW k \in 1..n
        PROVE  Follows(conn.todo[k].arrival, conn.todo[k].offset)'
    <3>1. k \in 1..Len(conn.stream)
      BY <1>1
    <3>2. Follows(conn.stream[k], Base + 2 * (k - 1))
      BY <3>1 DEF Later, StreamFollows
    <3>3. QED
      BY <1>2, <1>4, <1>5, <3>2 DEF Follows
  <2>2. QED
    BY <1>4, <2>1 DEF TodoFollows
<1>8. StreamFollows'
  <2>1. Len(conn'.stream) = Len(conn.stream) - n
        /\ \A k \in 1..Len(conn.stream) - n : conn'.stream[k] = conn.stream[k + n]
    BY <1>1, <1>2
  <2>2. ASSUME NEW k \in 1..Len(conn.stream) - n
        PROVE  Follows(conn.stream[k], Base + 2 * (k - 1))'
    <3>1. k + n \in 1..Len(conn.stream)
      BY <1>1
    <3>2. Follows(conn.stream[k + n], Base + 2 * ((k + n) - 1))
      BY <3>1 DEF Later, StreamFollows
    <3>3. Base + 2 * ((k + n) - 1) = (Base + 2 * n) + 2 * (k - 1)
      BY <1>1
    <3>4. QED
      BY <1>2, <1>3, <1>5, <2>1, <3>2, <3>3 DEF Follows
  <2>3. QED
    BY <2>1, <2>2 DEF StreamFollows
<1>9. Boundaries' /\ Proven'
  BY <1>2, <1>5 DEF Later, Boundaries, Proven
<1>10. QED
  BY <1>6, <1>7, <1>8, <1>9 DEF Later

(* A frame handled leaves the rest of its chunk in place.                  *)
LEMMA TakeFrameFrames ==
  ASSUME IInv, Later, NEW kinds, Working(kinds), NEW next, TakeFrame(next),
         \A d \in Commands : /\ task'[d].pc = task[d].pc /\ task'[d].owner = task[d].owner
                            /\ task'[d].boundary = task[d].boundary
  PROVE  Framing' /\ StreamFollows' /\ TodoFollows' /\ Boundaries'
<1>0. conn \in ConnRecord /\ conn.todo # <<>>
  BY DEF IInv, TypeInv, TypeOK, Bytes, Working
<1>1. /\ conn.todo \in Seq([arrival : Arrival, offset : Int])
      /\ conn.received \in Nat /\ conn.buffered \in Nat
  BY <1>0 DEF ConnRecord
<1>2. /\ conn'.id = conn.id /\ conn'.total = conn.total /\ conn'.stream = conn.stream
      /\ conn'.received = conn.received /\ conn'.buffered = conn.buffered
      /\ conn'.todo = Tail(conn.todo)
  BY <1>0 DEF TakeFrame, ConnRecord
<1>3. Base' = Base /\ Base \in Int /\ \A d \in Commands : InFlight(d)' <=> InFlight(d)
  BY <1>1, <1>2 DEF Base, InFlight
<1> DEFINE n == Len(conn.todo) - 1
<1>4. /\ n \in Nat /\ Len(conn'.todo) = n /\ DOMAIN conn'.todo = 1..n
      /\ Len(conn.todo) = n + 1
      /\ \A k \in 1..n : conn'.todo[k] = conn.todo[k + 1] /\ k + 1 \in DOMAIN conn.todo
  BY <1>0, <1>1, <1>2
<1>5. Framing'
  <2>1. ASSUME NEW k \in 1..n
        PROVE  conn'.todo[k].offset = Base - 2 * (n - k + 1)
    <3>1. conn.todo[k + 1].offset = Base - 2 * ((n + 1) - (k + 1) + 1)
      BY <1>4 DEF Later, Framing
    <3>2. (n + 1) - (k + 1) + 1 = n - k + 1
      BY <1>4
    <3>3. QED
      BY <1>4, <3>1, <3>2
  <2>2. QED
    BY <1>3, <1>4, <2>1 DEF Framing, Later
<1>6. TodoFollows'
  <2>1. ASSUME NEW k \in 1..n
        PROVE  Follows(conn.todo[k].arrival, conn.todo[k].offset)'
    <3>1. k + 1 \in 1..Len(conn.todo)
      BY <1>4
    <3>2. Follows(conn.todo[k + 1].arrival, conn.todo[k + 1].offset)
      BY <3>1 DEF Later, TodoFollows
    <3>3. QED
      BY <1>2, <1>3, <1>4, <3>2 DEF Follows
  <2>2. QED
    BY <1>4, <2>1 DEF TodoFollows
<1>7. StreamFollows' /\ Boundaries'
  BY <1>2, <1>3 DEF Later, StreamFollows, Follows, Boundaries
<1>8. QED
  BY <1>5, <1>6, <1>7

(* A report confirms only a command it proves: the test of its boundary    *)
(* makes the report one that began after the write.                        *)
LEMMA OnStatusLater ==
  ASSUME IInv, Later, OnStatus
  PROVE  Later'
<1> DEFINE entry == Head(conn.todo)
<1>0. conn \in ConnRecord /\ task \in [Commands -> TaskRecord] /\ conn.todo # <<>>
  BY DEF OnStatus, Working, IInv, TypeInv, TypeOK, Bytes
<1>1. \A d \in Commands :
        /\ task'[d].pc = task[d].pc /\ task'[d].owner = task[d].owner
        /\ task'[d].boundary = task[d].boundary /\ task'[d].outcome = task[d].outcome
        /\ task'[d].request = task[d].request
        /\ \/ task'[d].future = task[d].future /\ task'[d].evidence = task[d].evidence
           \/ /\ d = conn.pending /\ Confirms(entry, d)
              /\ task'[d].evidence = entry.arrival
  BY <1>0 DEF OnStatus, TaskRecord
<1>2. Framing' /\ StreamFollows' /\ TodoFollows' /\ Boundaries'
  BY <1>1, TakeFrameFrames DEF OnStatus
<1>3. ASSUME NEW d \in Commands, d = conn.pending, Confirms(entry, d)
      PROVE  Proves(entry.arrival, task[d].request, task[d].owner, d)
  <2>1. InFlight(d)
    <3>1. task[d].pc \in Active /\ task[d].owner = conn.id
      BY <1>3 DEF IInv, Safe, LockOwnership
    <3>2. task[d].pc \notin Unwritten
      BY <1>3 DEF Confirms, IInv, Safe, Progress
    <3>3. QED
      BY <3>1, <3>2 DEF InFlight, Active, InSend, Unwritten
  <2>2. Follows(entry.arrival, entry.offset)
    <3>1. 1 \in 1..Len(conn.todo) /\ entry = conn.todo[1]
      BY <1>0 DEF ConnRecord
    <3>2. QED
      BY <3>1 DEF Later, TodoFollows
  <2>3. entry.offset >= task[d].boundary /\ entry.arrival.input.kind = "status"
    BY <1>3 DEF Confirms, OnStatus, Working
  <2>4. QED
    BY <1>3, <2>1, <2>2, <2>3 DEF Follows, InFlight, Confirms, Proves
<1>4. Proven'
  <2>1. ASSUME NEW d \in Commands, task'[d].future = "confirmed" \/ task'[d].outcome = "ok"
        PROVE  Proves(task'[d].evidence, task'[d].request, task'[d].owner, d)
    <3>1. CASE task'[d].future = task[d].future /\ task'[d].evidence = task[d].evidence
      BY <1>1, <2>1, <3>1 DEF Later, Proven
    <3>2. CASE d = conn.pending /\ Confirms(entry, d) /\ task'[d].evidence = entry.arrival
      BY <1>1, <1>3, <3>2
    <3>3. QED
      BY <1>1, <3>1, <3>2
  <2>2. QED
    BY <2>1 DEF Proven
<1>5. QED
  BY <1>2, <1>4 DEF Later

(* The reader task keeps frames and evidence.                              *)
LEMMA ReaderLater ==
  ASSUME IInv, Later, ReaderStep
  PROVE  Later'
<1>0. conn \in ConnRecord
  BY DEF IInv, TypeInv, TypeOK
<1>1. CASE Read
  BY <1>1, ReadLater
<1>2. CASE ReadBad \/ ReaderStops \/ ReaderCancelled \/ OnGarbled \/ ReplyRefused \/ ReplyFails
  BY <1>2, EndReaderLater
     DEF ReadBad, ReaderStops, ReaderCancelled, OnGarbled, ReplyRefused, ReplyFails
<1>3. ASSUME NEW kinds, Working(kinds), NEW next, TakeFrame(next), task' = task
      PROVE  Later'
  <2>1. Framing' /\ StreamFollows' /\ TodoFollows' /\ Boundaries'
    BY <1>3, TakeFrameFrames
  <2>2. Proven'
    BY <1>3 DEF Later, Proven
  <2>3. QED
    BY <2>1, <2>2 DEF Later
<1>4. CASE OnHeartbeat
  BY <1>3, <1>4 DEF OnHeartbeat
<1>5. CASE OnOther
  BY <1>3, <1>5 DEF OnOther
<1>6. CASE OnStatus
  BY <1>6, OnStatusLater
<1>7. CASE ReplyWrite \/ ReplyDrained
  <2>1. SameFrames /\ task' = task
    BY <1>0, <1>7 DEF ReplyWrite, ReplyDrained, SameFrames, ConnRecord
  <2>2. QED
    BY <2>1, QuietLater DEF SameRecord
<1>8. QED
  BY <1>1, <1>2, <1>4, <1>5, <1>6, <1>7 DEF ReaderStep

(* A command that ends keeps its evidence, and ends with ok only on it.    *)
LEMMA FinishLater ==
  ASSUME IInv, Later, NEW c \in Commands, NEW o, Finish(c, o),
         o = "ok" => task[c].future = "confirmed"
  PROVE  Later'
<1>0. conn \in ConnRecord /\ task \in [Commands -> TaskRecord]
  BY DEF IInv, TypeInv, TypeOK
<1>1. SameFrames
  BY <1>0 DEF Finish, SameFrames, ConnRecord
<1>2. /\ task'[c].pc = "done" /\ task'[c].owner = task[c].owner
      /\ task'[c].request = task[c].request /\ task'[c].evidence = task[c].evidence
      /\ task'[c].future = "none" /\ task'[c].outcome = o
      /\ \A d \in Commands : d # c => task'[d] = task[d]
  BY <1>0 DEF Finish, Idle
<1>3. \A d \in Commands : InFlight(d)' => InFlight(d) /\ task'[d].boundary = task[d].boundary
  BY <1>1, <1>2 DEF InFlight, SameFrames
<1>4. Proven'
  BY <1>2 DEF Later, Proven
<1>5. QED
  BY <1>1, <1>3, <1>4, FramesKept DEF Later

(* A command is written behind every frame that has begun to arrive.       *)
LEMMA SendWriteLater ==
  ASSUME IInv, Later, NEW c \in Commands, SendWrite(c)
  PROVE  Later'
<1>0. conn \in ConnRecord /\ task \in [Commands -> TaskRecord] /\ conn' = conn
  BY DEF SendWrite, IInv, TypeInv, TypeOK
<1>1. /\ task'[c].pc = "drain" /\ task'[c].owner = task[c].owner
      /\ task'[c].boundary = conn.total
      /\ task'[c].request = task[c].request /\ task'[c].evidence = task[c].evidence
      /\ task'[c].future = task[c].future /\ task'[c].outcome = task[c].outcome
      /\ \A d \in Commands : d # c => task'[d] = task[d]
  BY <1>0 DEF SendWrite, TaskRecord
<1>2. /\ Begun(conn.total, Base, Len(conn.stream)) /\ conn.total \in Nat /\ Base \in Nat
      /\ Len(conn.stream) \in Nat /\ Base <= conn.total /\ Len(conn.todo) \in Nat
  BY <1>0 DEF IInv, TypeInv, Bytes, Base, ConnRecord
<1>3. Framing' /\ Proven'
  BY <1>0, <1>1 DEF Later, Framing, Base, Proven
<1>4. StreamFollows'
  <2>1. ASSUME NEW k \in 1..Len(conn.stream)
        PROVE  Follows(conn.stream[k], Base + 2 * (k - 1))'
    <3>1. Base + 2 * (k - 1) < conn.total
      BY <1>2, NewFramePlace
    <3>2. ~(Base + 2 * (k - 1) >= conn.total)
      BY <1>2, <3>1
    <3>3. Follows(conn.stream[k], Base + 2 * (k - 1))
      BY DEF Later, StreamFollows
    <3>4. Base' = Base
      BY <1>0 DEF Base
    <3> HIDE DEF Base
    <3>5. QED
      BY <1>0, <1>1, <3>2, <3>3, <3>4 DEF Follows, InFlight
  <2>2. QED
    BY <1>0, <2>1 DEF StreamFollows
<1>5. TodoFollows'
  <2>1. ASSUME NEW k \in 1..Len(conn.todo)
        PROVE  Follows(conn.todo[k].arrival, conn.todo[k].offset)'
    <3>1. conn.todo[k].offset = Base - 2 * (Len(conn.todo) - k + 1)
      BY <1>0 DEF Later, Framing, ConnRecord
    <3>2. ~(conn.todo[k].offset >= conn.total)
      BY <1>2, <3>1
    <3>3. Follows(conn.todo[k].arrival, conn.todo[k].offset)
      BY DEF Later, TodoFollows
    <3>4. QED
      BY <1>0, <1>1, <3>2, <3>3 DEF Follows, InFlight
  <2>2. QED
    BY <1>0, <2>1 DEF TodoFollows
<1>6. Boundaries'
  BY <1>0, <1>1, <1>2 DEF Later, Boundaries, InFlight
<1>7. QED
  BY <1>3, <1>4, <1>5, <1>6 DEF Later

(* Command tasks and their callers keep frames and evidence.               *)
LEMMA CommandLater ==
  ASSUME IInv, Later, NEW c \in Commands, CallerStep(c) \/ CommandStep(c)
  PROVE  Later'
<1>0. conn \in ConnRecord /\ task \in [Commands -> TaskRecord]
  BY DEF IInv, TypeInv, TypeOK
<1>1. CASE CancelCaller(c) \/ Start(c) \/ SendPaced(c) \/ SleepEnds(c)
           \/ AcquireCommandLock(c) \/ (\E r \in Requests : Submit(c, r))
  <2>1. SameFrames
    BY <1>0, <1>1 DEF CancelCaller, Start, SendPaced, SleepEnds, AcquireCommandLock, Submit,
                      SameFrames, ConnRecord
  <2>2. /\ task'[c].pc \in {task[c].pc, "lock", "sleep", "send", "new"}
        /\ task'[c].pc = task[c].pc => task'[c].owner = task[c].owner
        /\ task'[c].boundary = task[c].boundary /\ task'[c].future = task[c].future
        /\ task'[c].outcome = task[c].outcome
        /\ \A d \in Commands : d # c => task'[d] = task[d]
    BY <1>0, <1>1 DEF CancelCaller, Start, SendPaced, SleepEnds, AcquireCommandLock, Submit,
                      AtSendLock, TaskRecord
  <2>3. \/ /\ task'[c].owner = task[c].owner /\ task'[c].request = task[c].request
           /\ task'[c].evidence = task[c].evidence
        \/ task[c].future = "none" /\ task[c].outcome = "none"
    <3>1. CASE \E r \in Requests : Submit(c, r)
      BY <3>1 DEF Submit, IInv, Safe, Progress, Active, InSend
    <3>2. CASE ~\E r \in Requests : Submit(c, r)
      BY <1>0, <1>1, <3>2 DEF CancelCaller, Start, SendPaced, SleepEnds, AcquireCommandLock,
                              TaskRecord
    <3>3. QED
      BY <3>1, <3>2
  <2>4. \A d \in Commands : InFlight(d)' => InFlight(d) /\ task'[d].boundary = task[d].boundary
    BY <2>1, <2>2 DEF InFlight, SameFrames
  <2>5. Proven'
    BY <2>2, <2>3 DEF Later, Proven
  <2>6. QED
    BY <2>1, <2>4, <2>5, FramesKept DEF Later
<1>2. CASE SendWrite(c)
  BY <1>2, SendWriteLater
<1>3. CASE SendDrained(c)
  <2>1. SameFrames /\ task[c].pc = "drain"
    BY <1>3 DEF SendDrained, SameFrames
  <2>2. /\ task'[c].pc = "await" /\ task'[c].owner = task[c].owner
        /\ task'[c].boundary = task[c].boundary /\ task'[c].future = task[c].future
        /\ task'[c].outcome = task[c].outcome /\ task'[c].evidence = task[c].evidence
        /\ task'[c].request = task[c].request
        /\ \A d \in Commands : d # c => task'[d] = task[d]
    BY <1>0, <1>3 DEF SendDrained, TaskRecord
  <2>3. \A d \in Commands : InFlight(d)' => InFlight(d) /\ task'[d].boundary = task[d].boundary
    BY <2>1, <2>2 DEF InFlight, SameFrames
  <2>4. Proven'
    BY <2>2 DEF Later, Proven
  <2>5. QED
    BY <2>1, <2>3, <2>4, FramesKept DEF Later
<1>4. ByWrite(c) # "ok" /\ (FutureOutcome(c) = "ok" => task[c].future = "confirmed")
  BY <1>0 DEF ByWrite, FutureOutcome, TaskRecord
<1>5. CASE RefusedUnderLock(c) \/ LockTimeout(c)
  <2>1. FreshFor(c) # "ok"
    BY FreshnessType DEF FreshFor
  <2>2. QED
    BY <1>5, <2>1, FinishLater DEF RefusedUnderLock, LockTimeout
<1>6. CASE SendRefused(c)
  <2>1. SendCheck(c) # "ok"
    BY FreshnessType DEF SendCheck, FreshFor
  <2>2. QED
    BY <1>6, <2>1, FinishLater DEF SendRefused
<1>7. CASE SendTimeout(c)
  BY <1>4, <1>7, FinishLater DEF SendTimeout
<1>8. CASE AwaitResolved(c) \/ AwaitTimeout(c)
  BY <1>4, <1>8, FinishLater DEF AwaitResolved, AwaitTimeout
<1>9. CASE CancelDelivered(c)
  BY <1>4, <1>9, FinishLater DEF CancelDelivered
<1>10. QED
  BY <1>1, <1>2, <1>3, <1>5, <1>6, <1>7, <1>8, <1>9 DEF CallerStep, CommandStep

(* Frames and evidence are kept by every step.                             *)
LEMMA NextLater == IInv /\ Later /\ [Next]_vars => Later'
<1> SUFFICES ASSUME IInv, Later, [Next]_vars PROVE Later'
  OBVIOUS
<1>0. conn \in ConnRecord /\ task \in [Commands -> TaskRecord]
  BY DEF IInv, TypeInv, TypeOK
<1>1. CASE Environment
  <2>1. CASE WriterCloses \/ Tick
    <3>1. SameFrames /\ task' = task
      BY <1>0, <2>1 DEF WriterCloses, Tick, SameFrames, ConnRecord
    <3>2. QED
      BY <3>1, QuietLater DEF SameRecord
  <2>2. QED
    BY <1>1, <2>1, AcceptLater, FeedDataLater DEF Environment
<1>2. CASE CloseStep
  <2>1. SameFrames
    BY <1>0, <1>2 DEF CloseStep, CloseRequested, CleanupStarts, CleanupEnds, SameFrames, ConnRecord
  <2>2. \A d \in Commands : SameRecord(d)
    BY <1>0, <1>2 DEF CloseStep, CloseRequested, CleanupStarts, CleanupEnds, SameRecord, TaskRecord
  <2>3. QED
    BY <2>1, <2>2, QuietLater
<1>3. CASE UNCHANGED vars
  BY <1>3, QuietLater DEF vars, SameFrames, SameRecord
<1>4. QED
  BY <1>1, <1>2, <1>3, ReaderLater, CommandLater DEF Next

(* The second part of the invariant: frames, places and evidence.          *)
THEOREM EvidenceInvariance == Spec => []Later
<1>1. Spec => []IInv
  BY Invariance
<1>2. QED
  BY <1>1, InitLater, NextLater, PTL DEF Spec

(* A command is reported as successful only on a status report of its own  *)
(* session that began to arrive after its bytes were written, for any cut  *)
(* of the stream and any number of commands, sessions and frames.          *)
THEOREM SuccessIsEvidenced == Spec => []ConfirmedByLaterReport
<1>1. Later => ConfirmedByLaterReport
  BY DEF Later, Proven, Proves, ConfirmedByLaterReport
<1>2. QED
  BY <1>1, EvidenceInvariance, PTL

(* Units beyond a whole number of frames, counted in frames begun.         *)
LEMMA WholeFrames ==
  ASSUME NEW t \in Nat, NEW b \in Nat, NEW l \in Nat, Begun(t, b, l), b % 2 = 0, b <= t
  PROVE  l = (t - b + 2 - 1) \div 2
<1>1. 2 * l = t - b \/ 2 * l = t - b + 1
  BY DEF Begun
<1>2. t - b + 2 - 1 = 2 * l + 1 \/ t - b + 2 - 1 = 2 * l
  BY <1>1
<1>3. (2 * l + 1) \div 2 = l /\ (2 * l) \div 2 = l
  OBVIOUS
<1>4. QED
  BY <1>2, <1>3

(* However reads cut the stream, each unit belongs to one frame and each   *)
(* report of a chunk carries the place where it began.                     *)
THEOREM StreamIsAccounted == Spec => []StreamAccounted
<1>1. IInv /\ Later => StreamAccounted
  <2> SUFFICES ASSUME IInv, Later, conn.id # 0 PROVE StreamAccounted
    BY DEF StreamAccounted
  <2>1. /\ conn.total \in Nat /\ conn.received \in Nat /\ conn.buffered \in {0, 1}
        /\ Len(conn.stream) \in Nat /\ Begun(conn.total, Base, Len(conn.stream))
        /\ Base \in Nat /\ Base <= conn.total
    BY DEF IInv, TypeInv, TypeOK, Bytes, Base, ConnRecord
  <2>2. Len(conn.stream) = (conn.total - Base + FrameLen - 1) \div FrameLen
    <3>1. Base % 2 = 0
      BY DEF Later, Framing
    <3>2. QED
      BY <2>1, <3>1, WholeFrames DEF FrameLen
  <2>3. conn.buffered < FrameLen /\ Base % FrameLen = 0
    BY <2>1 DEF Later, Framing, FrameLen
  <2>4. \A k \in DOMAIN conn.todo :
          conn.todo[k].offset = Base - FrameLen * (Len(conn.todo) - k + 1)
    BY DEF Later, Framing, FrameLen
  <2>5. QED
    BY <2>2, <2>3, <2>4 DEF StreamAccounted, Base
<1>2. QED
  BY <1>1, Invariance, EvidenceInvariance, PTL

-----------------------------------------------------------------------------
(* What a step may do to the wire.                                         *)

(* Only _send with a pending command writes a command's bytes.             *)
LEMMA OnlySendWrites ==
  ASSUME IInv, [Next]_vars, NEW c \in Commands, Sends(c)
  PROVE  SendWrite(c)
<1>0. task \in [Commands -> TaskRecord]
  BY DEF IInv, TypeInv, TypeOK
<1>1. ASSUME EndReader PROVE FALSE
  BY <1>0, <1>1 DEF EndReader, Sends, TaskRecord
<1>2. ASSUME NEW d \in Commands, NEW o, Finish(d, o) PROVE FALSE
  BY <1>0, <1>2 DEF Finish, Sends, Idle
<1>3. CASE ReaderStep
  <2>1. ~OnStatus
    <3>1. ASSUME OnStatus
          PROVE  task'[c].writes = task[c].writes
      BY <1>0, <3>1 DEF OnStatus, TaskRecord
    <3>2. QED
      BY <3>1 DEF Sends
  <2>2. QED
    BY <1>1, <1>3, <2>1
       DEF ReaderStep, Read, ReadBad, ReaderStops, ReaderCancelled, OnHeartbeat, OnOther,
           OnGarbled, ReplyWrite, ReplyRefused, ReplyDrained, ReplyFails, Sends
<1>4. CASE CloseStep
  BY <1>0, <1>4 DEF CloseStep, CloseRequested, CleanupStarts, CleanupEnds, Sends, TaskRecord
<1>5. ASSUME NEW d \in Commands, CallerStep(d) \/ CommandStep(d)
      PROVE  SendWrite(c)
  <2>1. CASE CancelCaller(d) \/ Start(d) \/ SendPaced(d) \/ SleepEnds(d)
             \/ AcquireCommandLock(d) \/ (\E r \in Requests : Submit(d, r)) \/ SendDrained(d)
    BY <1>0, <2>1 DEF CancelCaller, Start, SendPaced, SleepEnds, AcquireCommandLock, Submit,
                      SendDrained, Sends, TaskRecord
  <2>2. CASE SendWrite(d)
    BY <1>0, <2>2 DEF SendWrite, Sends, TaskRecord
  <2>3. QED
    BY <1>2, <1>5, <2>1, <2>2
       DEF CallerStep, CommandStep, RefusedUnderLock, LockTimeout, SendRefused, SendTimeout,
           AwaitResolved, AwaitTimeout, CancelDelivered
<1>6. CASE Environment \/ UNCHANGED vars
  BY <1>6 DEF Environment, Accept, FeedData, WriterCloses, Tick, vars, Sends
<1>7. QED
  BY <1>3, <1>4, <1>5, <1>6 DEF Next

(* Command frames keep their distance from every frame before them, in     *)
(* every interleaving with heartbeat answers.                              *)
THEOREM WritesAreSpaced == Spec => SpacedWrites
<1>1. IInv /\ [Next]_vars => [\A c \in Commands : Sends(c) => gap = Spacing]_vars
  BY OnlySendWrites DEF SendWrite
<1>2. QED
  BY <1>1, Invariance, PTL DEF Spec, SpacedWrites

(* What _command had checked holds again when the bytes go out: the same   *)
(* live session, a fresh status and, for a humidity target, a reported on. *)
THEOREM WritesAreAdmissible == Spec => AdmissibleWrites
<1>1. ASSUME IInv, [Next]_vars, NEW c \in Commands, Sends(c)
      PROVE  /\ Connected /\ conn.id = task[c].owner
             /\ Lenient(task[c].request) \/ FreshStatus
             /\ NeedsReportedOn(task[c].request) => lastStatus.power = "on"
  <2>1. SendCheck(c) = "fresh" /\ ~HumidityRefused(c)
    BY <1>1, OnlySendWrites DEF SendWrite
  <2>2. QED
    BY <2>1 DEF SendCheck, FreshFor, Freshness, HumidityRefused
<1>2. IInv /\ [Next]_vars =>
        [\A c \in Commands : Sends(c) =>
           /\ Connected /\ conn.id = task[c].owner
           /\ Lenient(task[c].request) \/ FreshStatus
           /\ NeedsReportedOn(task[c].request) => lastStatus.power = "on"]_vars
  BY <1>1
<1>3. QED
  BY <1>2, Invariance, PTL DEF Spec, AdmissibleWrites

(* Once async_close was called no frame leaves, neither a command that     *)
(* waited for the send lock nor a heartbeat answer.                        *)
THEOREM SilenceAfterClose == Spec => SilentAfterClose
<1>1. ASSUME IInv, [Next]_vars, closing # "no", sendLock' \notin {None, sendLock}
      PROVE  FALSE
  <2>1. CASE ReaderStep
    BY <1>1, <2>1
       DEF ReaderStep, Read, ReadBad, ReaderStops, ReaderCancelled, EndReader, OnHeartbeat,
           OnOther, OnGarbled, OnStatus, ReplyWrite, ReplyRefused, ReplyDrained, ReplyFails,
           Writable
  <2>2. ASSUME NEW c \in Commands, CallerStep(c) \/ CommandStep(c)
        PROVE  FALSE
    <3>1. ~SendWrite(c)
      BY <1>1 DEF SendWrite, SendCheck, Writable
    <3>2. QED
      BY <1>1, <2>2, <3>1
         DEF CallerStep, CommandStep, CancelCaller, Submit, Start, AcquireCommandLock,
             RefusedUnderLock, LockTimeout, SendRefused, SendPaced, SleepEnds, SendDrained,
             SendTimeout, AwaitResolved, AwaitTimeout, CancelDelivered, Finish
  <2>3. CASE CloseStep \/ Environment \/ UNCHANGED vars
    BY <1>1, <2>3 DEF CloseStep, CloseRequested, CleanupStarts, CleanupEnds, Environment,
                      Accept, FeedData, WriterCloses, Tick, vars
  <2>4. QED
    BY <1>1, <2>1, <2>2, <2>3 DEF Next
<1>2. IInv /\ [Next]_vars =>
        [closing # "no" => ~(gap' = 0 /\ sendLock' \notin {None, sendLock})]_vars
  BY <1>1
<1>3. QED
  BY <1>2, Invariance, PTL DEF Spec, SilentAfterClose

-----------------------------------------------------------------------------
(* The client implements CommandContract: each step maps to a step of the   *)
(* contract or to a stutter.                                               *)

(* Phase reads pc, queued and future of a task.                            *)
PhaseOf(pc, queued, future) ==
  IF pc = "idle" THEN "idle"
  ELSE IF pc = "done" THEN "over"
  ELSE IF ~queued THEN "accepted"
  ELSE IF future = "confirmed" THEN "confirmed"
  ELSE "sent"

(* The phase of a command is a function of three fields of its task.       *)
LEMMA PhaseNow ==
  ASSUME NEW d \in Commands
  PROVE  /\ Phase(d) = PhaseOf(task[d].pc, task[d].queued, task[d].future)
         /\ Phase(d)' = PhaseOf(task'[d].pc, task'[d].queued, task'[d].future)
BY DEF Phase, PhaseOf

SamePhase(d) == Phase(d)' = Phase(d) /\ task'[d].outcome = task[d].outcome

(* If no command changes phase or outcome the contract stutters.           *)
LEMMA StutterContract ==
  ASSUME \A d \in Commands : SamePhase(d)
  PROVE  UNCHANGED Contract!cvars
BY DEF SamePhase, Contract!cvars

(* A task that keeps its fields keeps its phase.                           *)
LEMMA SameTaskSamePhase ==
  ASSUME NEW d \in Commands, SameTask(d)
  PROVE  SamePhase(d)
BY PhaseNow DEF SameTask, SamePhase

(* One command that moves while the others stay is a move of the           *)
(* contract.                                                               *)
LEMMA MoveContract ==
  ASSUME NEW c \in Commands, NEW from, NEW to,
         Phase(c) = from, Phase(c)' = to, task'[c].outcome = task[c].outcome,
         \A d \in Commands : d # c => SamePhase(d)
  PROVE  Contract!Move(c, from, to)
<1>1. [d \in Commands |-> Phase(d)]' = [[d \in Commands |-> Phase(d)] EXCEPT ![c] = to]
  BY DEF SamePhase
<1>2. [d \in Commands |-> task[d].outcome]' = [d \in Commands |-> task[d].outcome]
  BY DEF SamePhase
<1>3. QED
  BY <1>1, <1>2 DEF Contract!Move

(* The client starts where the contract starts.                            *)
LEMMA InitContract == Init => Contract!Init
BY DEF Init, Idle, Contract!Init, Phase

(* The end of a task is an End of the contract when o fits its phase.      *)
LEMMA FinishContract ==
  ASSUME TypeInv, NEW c \in Commands, NEW o \in Outcomes, Finish(c, o),
         \/ Phase(c) = "accepted" /\ o \in {"notsent", "notconnected", "stale", "cancelled"}
         \/ Phase(c) = "sent" /\ o = "uncertain"
         \/ Phase(c) = "confirmed" /\ o \in {"ok", "uncertain"}
  PROVE  Contract!Next
<1>1. task \in [Commands -> TaskRecord]
  BY DEF TypeInv, TypeOK
<1>2. /\ task'[c].pc = "done" /\ task'[c].outcome = o
      /\ \A d \in Commands : d # c => task'[d] = task[d]
  BY <1>1 DEF Finish, Idle
<1>3. Phase(c)' = "over" /\ \A d \in Commands : d # c => SamePhase(d)
  BY <1>2, PhaseNow DEF PhaseOf, SamePhase
<1>4. [d \in Commands |-> Phase(d)]' = [[d \in Commands |-> Phase(d)] EXCEPT ![c] = "over"]
  BY <1>3 DEF SamePhase
<1>5. [d \in Commands |-> task[d].outcome]'
        = [[d \in Commands |-> task[d].outcome] EXCEPT ![c] = o]
  BY <1>2
<1>6. Contract!End(c, o)
  BY <1>4, <1>5 DEF Contract!End, Contract!NeverSent
<1>7. QED
  BY <1>6 DEF Contract!Next, Contract!NeverSent, Outcomes

(* A session that ends is a stutter: a failed future is no change of       *)
(* phase.                                                                  *)
LEMMA EndReaderContract ==
  ASSUME TypeInv, Safe, EndReader
  PROVE  UNCHANGED Contract!cvars
<1>1. \A d \in Commands :
        /\ task'[d].pc = task[d].pc /\ task'[d].queued = task[d].queued
        /\ task'[d].outcome = task[d].outcome
        /\ (task'[d].future = "confirmed") <=> (task[d].future = "confirmed")
  <2>1. task \in [Commands -> TaskRecord]
    BY DEF TypeInv, TypeOK
  <2>2. QED
    BY <2>1 DEF EndReader, TaskRecord
<1>2. \A d \in Commands : SamePhase(d)
  BY <1>1, PhaseNow DEF PhaseOf, SamePhase
<1>3. QED
  BY <1>2, StutterContract

(* The reader confirms the pending command or does nothing the contract    *)
(* sees.                                                                   *)
LEMMA ReaderContract ==
  ASSUME TypeInv, Safe, ReaderStep
  PROVE  Contract!Next \/ UNCHANGED Contract!cvars
<1>1. CASE ReadBad \/ ReaderStops \/ ReaderCancelled \/ OnGarbled \/ ReplyRefused \/ ReplyFails
  BY <1>1, EndReaderContract
     DEF ReadBad, ReaderStops, ReaderCancelled, OnGarbled, ReplyRefused, ReplyFails
<1>2. CASE Read \/ OnHeartbeat \/ OnOther \/ ReplyWrite \/ ReplyDrained
  <2>1. \A d \in Commands : SameTask(d)
    BY <1>2 DEF Read, OnHeartbeat, OnOther, ReplyWrite, ReplyDrained, SameTask
  <2>2. QED
    BY <2>1, SameTaskSamePhase, StutterContract
<1>3. CASE OnStatus
  <2> DEFINE entry == Head(conn.todo)
  <2>1. task \in [Commands -> TaskRecord]
    BY DEF TypeInv, TypeOK
  <2>2. \A d \in Commands : ~(d = conn.pending /\ Confirms(entry, d)) => task'[d] = task[d]
    BY <1>3 DEF OnStatus
  <2>3. ASSUME NEW c \in Commands, c = conn.pending, Confirms(entry, c)
        PROVE  Contract!Next
    <3>1. task[c].pc \in Active /\ task[c].queued /\ task[c].future = "none"
      BY <2>3 DEF Confirms, Safe, LockOwnership
    <3>2. /\ task'[c].pc = task[c].pc /\ task'[c].queued = task[c].queued
          /\ task'[c].outcome = task[c].outcome /\ task'[c].future = "confirmed"
      BY <1>3, <2>1, <2>3 DEF OnStatus, TaskRecord
    <3>3. Phase(c) = "sent" /\ Phase(c)' = "confirmed"
      BY <2>3, <3>1, <3>2, PhaseNow DEF PhaseOf, Active, InSend
    <3>4. \A d \in Commands : d # c => SamePhase(d)
      BY <2>2, <2>3, PhaseNow DEF SamePhase
    <3>5. Contract!Move(c, "sent", "confirmed")
      BY <2>3, <3>2, <3>3, <3>4, MoveContract
    <3>6. QED
      BY <2>3, <3>5 DEF Contract!Next, Contract!Confirm
  <2>4. CASE \A d \in Commands : ~(d = conn.pending /\ Confirms(entry, d))
    <3>1. \A d \in Commands : SameTask(d)
      BY <2>2, <2>4 DEF SameTask
    <3>2. QED
      BY <3>1, SameTaskSamePhase, StutterContract
  <2>5. QED
    BY <2>3, <2>4
<1>4. QED
  BY <1>1, <1>2, <1>3 DEF ReaderStep

(* Every step of a command task is a step of the contract or a stutter.    *)
LEMMA CommandContractStep ==
  ASSUME TypeInv, Safe, NEW c \in Commands, CallerStep(c) \/ CommandStep(c)
  PROVE  Contract!Next \/ UNCHANGED Contract!cvars
<1>0. task \in [Commands -> TaskRecord] /\ task[c] \in TaskRecord
  BY DEF TypeInv, TypeOK
<1>1. /\ task[c].pc \in Unwritten => ~task[c].queued
      /\ task[c].pc \in {"drain", "await"} => task[c].queued
      /\ task[c].future = "notconnected" => ~task[c].queued
      /\ task[c].future \in {"confirmed", "uncertain"} => task[c].queued
  BY DEF Safe, Progress
<1>2. CASE \E r \in Requests : Submit(c, r)
  <2>1. PICK r \in Requests : Submit(c, r)
    BY <1>2
  <2>2. /\ task[c].pc = "idle" /\ task'[c].pc = "new" /\ task'[c].queued = task[c].queued
        /\ task'[c].outcome = task[c].outcome
        /\ \A d \in Commands : d # c => task'[d] = task[d]
    BY <1>0, <2>1 DEF Submit, TaskRecord
  <2>3. Phase(c) = "idle" /\ Phase(c)' = "accepted"
    BY <1>1, <2>2, PhaseNow DEF PhaseOf, Unwritten
  <2>4. \A d \in Commands : d # c => SamePhase(d)
    BY <2>2, PhaseNow DEF SamePhase
  <2>5. Contract!Move(c, "idle", "accepted")
    BY <2>2, <2>3, <2>4, MoveContract
  <2>6. QED
    BY <2>5 DEF Contract!Next, Contract!Accept
<1>3. CASE \/ CancelCaller(c) \/ Start(c) \/ AcquireCommandLock(c)
           \/ SendPaced(c) \/ SleepEnds(c) \/ SendDrained(c)
  <2>1. /\ task'[c].queued = task[c].queued /\ task'[c].future = task[c].future
        /\ task'[c].outcome = task[c].outcome
        /\ task[c].pc \notin {"idle", "done"} /\ task'[c].pc \notin {"idle", "done"}
        /\ \A d \in Commands : d # c => task'[d] = task[d]
    BY <1>0, <1>3 DEF CancelCaller, Start, AcquireCommandLock, SendPaced, SleepEnds,
                      SendDrained, AtSendLock, TaskRecord
  <2>2. \A d \in Commands : SamePhase(d)
    BY <2>1, PhaseNow DEF PhaseOf, SamePhase
  <2>3. QED
    BY <2>2, StutterContract
<1>4. CASE SendWrite(c)
  <2>1. /\ task[c].pc = "send" /\ sendLock = None
        /\ task'[c].pc = "drain" /\ task'[c].queued = TRUE
        /\ task'[c].future = task[c].future /\ task'[c].outcome = task[c].outcome
        /\ \A d \in Commands : d # c => task'[d] = task[d]
    BY <1>0, <1>4 DEF SendWrite, AtSendLock, TaskRecord
  <2>2. Phase(c) = "accepted" /\ Phase(c)' = "sent"
    BY <1>1, <2>1, PhaseNow DEF PhaseOf, Unwritten
  <2>3. \A d \in Commands : d # c => SamePhase(d)
    BY <2>1, PhaseNow DEF SamePhase
  <2>4. \A d \in Commands : Phase(d) \notin {"sent", "confirmed"}
    <3>1. ASSUME NEW d \in Commands, d # c
          PROVE  Phase(d) \notin {"sent", "confirmed"}
      <4>1. task[d].pc \notin Active
        BY <2>1, <3>1 DEF Safe, LockOwnership, Active, InSend
      <4>2. task[d].pc \in {"idle", "new", "lock", "done"}
        BY <4>1 DEF TypeInv, TypeOK, TaskRecord
      <4>3. task[d].pc \in {"new", "lock"} => ~task[d].queued
        BY DEF Safe, Progress, Unwritten
      <4>4. QED
        BY <4>2, <4>3, PhaseNow DEF PhaseOf
    <3>2. QED
      BY <2>2, <3>1
  <2>5. Contract!Move(c, "accepted", "sent")
    BY <2>1, <2>2, <2>3, MoveContract
  <2>6. QED
    BY <2>4, <2>5 DEF Contract!Next, Contract!Send, Contract!InFlight
<1>5. task[c].pc \in Unwritten \ {"idle"} => Phase(c) = "accepted"
  BY <1>1, PhaseNow DEF PhaseOf, Unwritten
<1>6. CASE RefusedUnderLock(c) \/ LockTimeout(c)
  <2>1. FreshFor(c) \in {"fresh", "notconnected", "stale"}
    BY FreshnessType DEF FreshFor
  <2>2. Phase(c) = "accepted"
    BY <1>5, <1>6 DEF RefusedUnderLock, LockTimeout, Unwritten
  <2>3. QED
    BY <1>6, <2>1, <2>2, FinishContract DEF RefusedUnderLock, LockTimeout, Outcomes
<1>7. CASE SendRefused(c)
  <2>1. SendCheck(c) \in {"fresh", "notconnected", "stale"}
    BY FreshnessType DEF SendCheck, FreshFor
  <2>2. Phase(c) = "accepted"
    BY <1>5, <1>7 DEF SendRefused, AtSendLock, Unwritten
  <2>3. QED
    BY <1>7, <2>1, <2>2, FinishContract DEF SendRefused, Outcomes
<1>8. ASSUME task[c].pc \notin {"idle", "done"}
      PROVE  /\ ~task[c].queued => Phase(c) = "accepted"
             /\ task[c].queued => Phase(c) = IF task[c].future = "confirmed"
                                             THEN "confirmed" ELSE "sent"
  BY <1>8, PhaseNow DEF PhaseOf
<1>9. CASE \E o \in Outcomes : o = ByWrite(c) /\ task[c].pc \notin {"idle", "done"} /\ Finish(c, o)
  BY <1>8, <1>9, FinishContract DEF ByWrite, Outcomes
<1>10. CASE \E o \in Outcomes : /\ o = FutureOutcome(c) /\ task[c].future # "none"
                                /\ task[c].pc \notin {"idle", "done"} /\ Finish(c, o)
  <2>1. task[c].future \in {"confirmed", "uncertain", "notconnected"}
    BY <1>0, <1>10 DEF TaskRecord
  <2>2. QED
    BY <1>1, <1>8, <1>10, <2>1, FinishContract DEF FutureOutcome, Outcomes
<1>11. /\ ByWrite(c) \in Outcomes
       /\ task[c].future # "none" => FutureOutcome(c) \in Outcomes
  BY <1>0 DEF ByWrite, FutureOutcome, Outcomes, TaskRecord
<1>12. CASE SendTimeout(c) \/ AwaitResolved(c) \/ AwaitTimeout(c)
  BY <1>9, <1>10, <1>11, <1>12 DEF SendTimeout, AwaitResolved, AwaitTimeout, InSend
<1>13. CASE CancelDelivered(c)
  <2>1. CASE task[c].pc = "new"
    <3>1. Phase(c) = "accepted"
      BY <1>5, <2>1 DEF Unwritten
    <3>2. QED
      BY <1>13, <2>1, <3>1, FinishContract DEF CancelDelivered, Outcomes
  <2>2. CASE task[c].pc # "new"
    BY <1>9, <1>11, <1>13, <2>2 DEF CancelDelivered
  <2>3. QED
    BY <2>1, <2>2
<1>14. QED
  BY <1>2, <1>3, <1>4, <1>6, <1>7, <1>12, <1>13 DEF CallerStep, CommandStep

(* The environment and async_close do nothing the contract sees.           *)
LEMMA OtherContract ==
  ASSUME TypeInv, Environment \/ CloseStep \/ UNCHANGED vars
  PROVE  UNCHANGED Contract!cvars
<1>1. task \in [Commands -> TaskRecord]
  BY DEF TypeInv, TypeOK
<1>2. CASE CleanupStarts
  BY <1>1, <1>2, SameTaskSamePhase, StutterContract DEF CleanupStarts, SameTask, TaskRecord
<1>3. CASE Environment \/ CloseRequested \/ CleanupEnds \/ UNCHANGED vars
  <2>1. UNCHANGED task
    BY <1>3 DEF Environment, Accept, FeedData, WriterCloses, Tick, CloseRequested,
                CleanupEnds, vars
  <2>2. QED
    BY <2>1, SameTaskSamePhase, StutterContract DEF SameTask
<1>4. QED
  BY <1>2, <1>3 DEF CloseStep

(* Every step of the client is a step of the contract or a stutter.        *)
LEMMA StepContract ==
  ASSUME IInv, [Next]_vars
  PROVE  [Contract!Next]_(Contract!cvars)
BY ReaderContract, CommandContractStep, OtherContract DEF IInv, Next

(* The client implements the contract: commands are sent at most once and  *)
(* one at a time, are confirmed only while in flight, and end with an      *)
(* outcome that fits how far they got (_execute_command).                  *)
THEOREM ClientImplementsContract == Spec => ImplementsContract
<1>1. IInv /\ [Next]_vars => [Contract!Next]_(Contract!cvars)
  BY StepContract
<1>2. QED
  BY <1>1, InitContract, Invariance, PTL DEF Spec, ImplementsContract, Contract!Spec
=============================================================================
