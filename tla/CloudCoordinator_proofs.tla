------------------------ MODULE CloudCoordinator_proofs ------------------------
(* Proofs about CloudCoordinator: restart protection, the pending window   *)
(* and last_command, for any samples, requests, windows, skew of the two   *)
(* clocks and number of commands.                                          *)
EXTENDS CloudCoordinator, FiniteSetTheorems, TLAPS

Sample == [content : Content, time : Int, after : SUBSET Commands]
Task == [pc : {"idle", "queued", "sending", "refreshing", "done"}, request : Request,
         issued : Nat \cup {None},
         outcome : {"none", "ignored", "refused", "ok", "uncertain", "rejected"},
         reported : BOOLEAN]
Feedback == [by : Commands \cup {None},
             status : {"none", "awaiting_feedback", "awaiting_response", "cloud_acknowledged",
                       "delivery_uncertain", "rejected", "device_reported", "not_observed"}]

TypeOK ==
  /\ now \in Nat /\ skew \in Int /\ lastOff \in Nat
  /\ held \in Sample /\ data \in Sample /\ poll \in Sample \cup {None}
  /\ pending \in [Keys -> PendingCommand \cup {None}]
  /\ task \in [Commands -> Task]
  /\ feedback \in Feedback
  /\ stopSeen \in Nat \cup {None}

Attempted == {"ok", "uncertain", "rejected"}

(* A task has issued its request from the moment it sends on.              *)
TaskFits(t) ==
  /\ t.pc \in {"idle", "queued"} => t.issued = None /\ t.outcome = "none"
  /\ t.pc = "sending" => t.issued # None /\ t.outcome = "none"
  /\ t.pc = "refreshing" => t.issued # None /\ t.outcome \in {"ok", "uncertain"}
  /\ t.pc = "done" => (t.issued # None <=> t.outcome \in Attempted)
  /\ t.issued = None => ~t.reported
  /\ t.issued # None => t.issued <= now
  /\ t.request.key = "power" => t.request.wanted \in {"off", "on"}

TasksFit == \A c \in Commands : TaskFits(task[c])

(* The times on record lie in the past, and no stop is younger than the    *)
(* last one restart protection counts from.                                *)
TimesFit == lastOff <= now /\ (stopSeen # None => stopSeen <= lastOff)

(* A pending request is the one of a command that no sample has answered.  *)
PendingFits ==
  \A k \in Keys : pending[k] # None =>
    LET t == task[pending[k].by] IN
    /\ t.issued = pending[k].issued /\ t.issued # None
    /\ t.request.key = k /\ t.request.wanted = pending[k].wanted
    /\ ~t.reported
    /\ pending[k].deadline = pending[k].issued + PendingTime

(* One command runs at a time: last_command is its own, and while it sends *)
(* nobody else's request stands for its key.                               *)
RunningFits ==
  \A c \in Commands : Running(c) =>
    /\ lock = c /\ feedback.by = c
    /\ \A k \in Keys : (Sending(c) /\ task[c].request.key = k /\ pending[k] # None)
         => pending[k].by = c

LastFits == FeedbackMatchesPending /\ (feedback.by = None => feedback.status = "none")

Tried(d) == task[d].issued # None /\ task[d].outcome # "rejected"

(* Why no ON follows an OFF too early: an OFF that may have arrived is     *)
(* younger than no stop counted from, and what is pending for power is     *)
(* either an OFF no older than it or an ON that waited for it.             *)
OffFits(d) ==
  /\ task[d].issued <= lastOff
  /\ pending["power"] # None =>
       IF pending["power"].wanted = "off" THEN pending["power"].issued >= task[d].issued
       ELSE pending["power"].issued >= task[d].issued + MinOff

StopsFit == \A d \in Commands : Tried(d) /\ Stops(task[d].request) => OffFits(d)

(* Why nothing in doubt is repeated: what may have arrived and was not     *)
(* reported is pending still, or its window is over, or another value was  *)
(* asked for since.                                                        *)
Replaced(d) ==
  \E e \in Commands :
    /\ task[e].issued # None /\ task[e].issued >= task[d].issued
    /\ task[e].request.key = task[d].request.key
    /\ task[e].request.wanted # task[d].request.wanted

InDoubt(d) == Tried(d) /\ ~task[d].reported /\ task[d].request.key \in Keys

DoubtFits(d) ==
  LET p == pending[task[d].request.key] IN
  \/ p # None /\ p.by = d
  \/ now >= task[d].issued + PendingTime
  \/ Replaced(d)

DoubtsFit == \A d \in Commands : InDoubt(d) => DoubtFits(d)

IInv ==
  /\ TypeOK /\ TasksFit /\ TimesFit /\ PendingFits /\ RunningFits /\ LastFits
  /\ StopsFit /\ DoubtsFit

-----------------------------------------------------------------------------
(* What the steps leave alone.                                             *)

LEMMA ConstantTypes ==
  /\ \A r \in Requests : r \in Request /\ r.key \in Keys \cup {"none"} /\ r.wanted \in Values
                         /\ (r.key = "power" => r.wanted \in {"off", "on"})
  /\ NoRequest \in Request /\ Idle \in Task
  /\ None \notin Commands /\ None \notin Nat /\ None \notin PendingCommand
  /\ MinOff \in Nat /\ PendingTime \in Nat /\ MinOff <= PendingTime
BY ConstantsOK DEF Request, NoRequest, Idle, Task, Values, Keys

LEMMA StartsFit == Init => IInv
<1> SUFFICES ASSUME Init PROVE IInv
  OBVIOUS
<1>1. PICK c \in Contents : data = [content |-> c, time |-> skew, after |-> {}]
  BY DEF Init
<1>2. data \in Sample
  BY <1>1, ConstantsOK DEF Init, Sample
<1>3. \A d \in Commands : task[d] = Idle /\ Idle.pc = "idle" /\ Idle.issued = None
                          /\ Idle.outcome = "none" /\ ~Idle.reported
                          /\ Idle.request.key = "none"
  BY DEF Init, Idle, NoRequest
<1>4. /\ now = 0 /\ lastOff = 0 /\ stopSeen = None /\ lock = None
      /\ feedback.by = None /\ feedback.status = "none"
      /\ \A k \in Keys : pending[k] = None
  BY DEF Init
<1>5. TypeOK
  <2>1. skew \in Int
    BY ConstantsOK DEF Init
  <2>2. feedback \in Feedback
    BY DEF Init, Feedback
  <2>3. pending \in [Keys -> PendingCommand \cup {None}] /\ task \in [Commands -> Task]
    BY ConstantTypes DEF Init
  <2>4. QED
    BY <1>2, <2>1, <2>2, <2>3 DEF Init, TypeOK
<1>6. TasksFit /\ TimesFit /\ PendingFits /\ RunningFits
  BY <1>3, <1>4 DEF TasksFit, TaskFits, TimesFit, PendingFits, RunningFits, Running
<1>7. LastFits
  BY <1>4 DEF LastFits, FeedbackMatchesPending
<1>8. StopsFit /\ DoubtsFit
  BY <1>3 DEF StopsFit, DoubtsFit, InDoubt, Tried
<1>9. QED
  BY <1>5, <1>6, <1>7, <1>8 DEF IInv

(* The cloud, polls under way and unload touch no record of a command.     *)
RecordsSame == UNCHANGED <<now, skew, lastOff, pending, feedback, lock, task, stopSeen>>

LEMMA OutsideKeeps ==
  ASSUME IInv,
         \/ NewSample \/ PollReads \/ PollFails \/ UnloadRequested \/ UnloadFinishes
         \/ UNCHANGED vars
  PROVE  IInv'
<1>1. RecordsSame
  BY DEF RecordsSame, NewSample, PollReads, PollFails, UnloadRequested, UnloadFinishes, vars
<1>2. held' \in Sample /\ data' \in Sample /\ poll' \in Sample \cup {None}
  <2>1. held \in Sample /\ data \in Sample /\ poll \in Sample \cup {None}
    BY DEF IInv, TypeOK
  <2>2. CASE NewSample
    <3>1. PICK c \in Contents :
            held' = [content |-> c, time |-> now + skew,
                     after |-> {d \in Commands : task[d].issued # None}]
      BY <2>2 DEF NewSample
    <3>2. now + skew \in Int /\ c \in Content
      BY ConstantsOK DEF IInv, TypeOK
    <3>3. held' \in Sample
      BY <3>1, <3>2 DEF Sample
    <3>4. QED
      BY <2>1, <2>2, <3>3 DEF NewSample
  <2>3. QED
    BY <2>1, <2>2 DEF PollReads, PollFails, UnloadRequested, UnloadFinishes, vars
<1>3. TypeOK'
  BY <1>1, <1>2 DEF IInv, TypeOK, RecordsSame
<1>4. (TasksFit /\ TimesFit /\ PendingFits /\ RunningFits)'
  BY <1>1 DEF IInv, RecordsSame, TasksFit, TaskFits, TimesFit, PendingFits, RunningFits,
              Running, Sending
<1>5. (LastFits /\ StopsFit /\ DoubtsFit)'
  BY <1>1 DEF IInv, RecordsSame, LastFits, FeedbackMatchesPending, StopsFit, OffFits, Tried,
              Stops, DoubtsFit, InDoubt, DoubtFits, Replaced
<1>6. QED
  BY <1>3, <1>4, <1>5 DEF IInv

LEMMA TickKeeps ==
  ASSUME IInv, Tick
  PROVE  IInv'
<1>1. /\ now \in Nat /\ now' = now + 1 /\ task \in [Commands -> Task]
      /\ UNCHANGED <<skew, held, poll, data, success, lastOff, pending, feedback, lock, task,
                     unload, stopSeen>>
  BY DEF IInv, TypeOK, Tick
<1>2. TypeOK' /\ TimesFit'
  BY <1>1 DEF IInv, TypeOK, TimesFit
<1>3. TasksFit'
  <2>1. \A c \in Commands : task[c].issued # None => task[c].issued \in Nat
    BY <1>1 DEF Task
  <2>2. QED
    BY <1>1, <2>1 DEF IInv, TasksFit, TaskFits
<1>4. (PendingFits /\ RunningFits /\ LastFits /\ StopsFit)'
  BY <1>1 DEF IInv, PendingFits, RunningFits, Running, Sending, LastFits,
              FeedbackMatchesPending, StopsFit, OffFits, Tried, Stops
<1>5. DoubtsFit'
  <2>1. \A c \in Commands : task[c].issued # None => task[c].issued + PendingTime \in Nat
    BY <1>1, ConstantTypes DEF Task
  <2>2. QED
    BY <1>1, <2>1 DEF IInv, DoubtsFit, InDoubt, Tried, DoubtFits, Replaced
<1>6. QED
  BY <1>2, <1>3, <1>4, <1>5 DEF IInv

-----------------------------------------------------------------------------
(* Steps of one task that issue nothing.                                   *)

(* The task of c changes to t and its request stays on record as it is.    *)
Moves(c, t) ==
  /\ task' = [task EXCEPT ![c] = t] /\ t \in Task
  /\ t.issued = task[c].issued /\ t.reported = task[c].reported
  /\ t.issued # None => t.request = task[c].request
  /\ t.outcome # "rejected" => task[c].outcome # "rejected"

LEMMA MovesRecords ==
  ASSUME IInv, NEW c \in Commands, NEW t, Moves(c, t)
  PROVE  \A d \in Commands :
           /\ task'[d].issued = task[d].issued /\ task'[d].reported = task[d].reported
           /\ task[d].issued # None => task'[d].request = task[d].request
           /\ task'[d].outcome # "rejected" => task[d].outcome # "rejected"
           /\ d # c => task'[d] = task[d]
           /\ d = c => task'[d] = t
BY DEF IInv, TypeOK, Moves

LEMMA MoveKeeps ==
  ASSUME IInv, NEW c \in Commands, NEW t, Moves(c, t), TaskFits(t),
         UNCHANGED <<now, skew, held, poll, data, lastOff, pending, stopSeen>>
  PROVE  /\ feedback' \in Feedback => TypeOK'
         /\ (TasksFit /\ TimesFit /\ PendingFits /\ StopsFit /\ DoubtsFit)'
<1>1. \A d \in Commands :
        /\ task'[d].issued = task[d].issued /\ task'[d].reported = task[d].reported
        /\ task[d].issued # None => task'[d].request = task[d].request
        /\ task'[d].outcome # "rejected" => task[d].outcome # "rejected"
        /\ d # c => task'[d] = task[d]
        /\ d = c => task'[d] = t
  BY MovesRecords
<1>2. task' \in [Commands -> Task]
  BY DEF IInv, TypeOK, Moves
<1>3. feedback' \in Feedback => TypeOK'
  BY <1>2 DEF IInv, TypeOK
<1>4. TasksFit' /\ TimesFit'
  BY <1>1 DEF IInv, TasksFit, TaskFits, TimesFit
<1>5. PendingFits'
  <2>1. \A k \in Keys : pending[k] # None => pending[k].by \in Commands
    BY DEF IInv, TypeOK, PendingCommand
  <2>2. QED
    BY <1>1, <2>1 DEF IInv, PendingFits
<1>6. StopsFit'
  BY <1>1 DEF IInv, StopsFit, OffFits, Tried, Stops
<1>7. DoubtsFit'
  <2>1. ASSUME NEW d \in Commands, InDoubt(d)'
        PROVE  DoubtFits(d)'
    <3>1. InDoubt(d) /\ task'[d].request = task[d].request
      BY <1>1, <2>1 DEF InDoubt, Tried
    <3>2. DoubtFits(d)
      BY <3>1 DEF IInv, DoubtsFit
    <3>3. Replaced(d) => Replaced(d)'
      BY <1>1, <3>1 DEF Replaced
    <3>4. QED
      BY <1>1, <3>1, <3>2, <3>3 DEF DoubtFits
  <2>2. QED
    BY <2>1 DEF DoubtsFit
<1>8. QED
  BY <1>3, <1>4, <1>5, <1>6, <1>7

(* A call that comes or is declined holds nothing and says nothing.        *)
LEMMA QueueKeeps ==
  ASSUME IInv, NEW c \in Commands, Decline(c) \/ \E r \in Requests : Call(c, r)
  PROVE  IInv'
<1>1. task \in [Commands -> Task] /\ task[c] \in Task /\ TaskFits(task[c])
  BY DEF IInv, TypeOK, TasksFit
<1>2. PICK t : /\ Moves(c, t) /\ TaskFits(t) /\ t.pc \in {"queued", "done"}
               /\ task[c].pc \in {"idle", "queued"}
  <2>1. CASE Decline(c)
    <3> DEFINE o == IF Ignored(task[c].request) THEN "ignored" ELSE "refused"
               t == [task[c] EXCEPT !.pc = "done", !.outcome = o]
    <3>1. task' = [task EXCEPT ![c] = t] /\ task[c].pc = "queued" /\ o \in {"ignored", "refused"}
      BY <1>1, <2>1 DEF Decline, HasLock
    <3> HIDE DEF o
    <3>2. /\ t \in Task /\ t.pc = "done" /\ t.outcome = o /\ t.issued = task[c].issued
          /\ t.reported = task[c].reported /\ t.request = task[c].request
      BY <1>1, <3>1 DEF Task
    <3>3. task[c].issued = None /\ task[c].outcome = "none" /\ ~task[c].reported
      BY <1>1, <3>1 DEF TaskFits
    <3> HIDE DEF t
    <3>4. Moves(c, t) /\ TaskFits(t)
      BY <1>1, <3>1, <3>2, <3>3 DEF Moves, TaskFits, Attempted
    <3>5. QED
      BY <3>1, <3>2, <3>4
  <2>2. CASE \E r \in Requests : Call(c, r)
    <3>1. PICK r \in Requests : Call(c, r)
      BY <2>2
    <3> DEFINE t == [task[c] EXCEPT !.pc = "queued", !.request = r]
    <3>2. task' = [task EXCEPT ![c] = t] /\ task[c].pc = "idle"
      BY <1>1, <3>1 DEF Call
    <3>3. /\ t \in Task /\ t.pc = "queued" /\ t.outcome = task[c].outcome
          /\ t.request.key = "power" => t.request.wanted \in {"off", "on"}
          /\ t.issued = task[c].issued /\ t.reported = task[c].reported
      BY <1>1, ConstantTypes DEF Task
    <3>4. task[c].issued = None /\ task[c].outcome = "none" /\ ~task[c].reported
      BY <1>1, <3>2 DEF TaskFits
    <3> HIDE DEF t
    <3>5. Moves(c, t) /\ TaskFits(t)
      BY <3>2, <3>3, <3>4 DEF Moves, TaskFits
    <3>6. QED
      BY <3>2, <3>3, <3>5
  <2>3. QED
    BY <2>1, <2>2
<1>3. UNCHANGED <<now, skew, held, poll, data, lastOff, pending, stopSeen, feedback, lock>>
  BY DEF Decline, Call
<1>4. TypeOK' /\ (TasksFit /\ TimesFit /\ PendingFits /\ StopsFit /\ DoubtsFit)'
  BY <1>2, <1>3, MoveKeeps DEF IInv, TypeOK
<1>5. RunningFits'
  BY <1>2, <1>3, MovesRecords DEF IInv, RunningFits, Running, Sending
<1>6. LastFits'
  <2>1. feedback.by \in Commands \cup {None}
    BY DEF IInv, TypeOK, Feedback
  <2>2. feedback.by \in Commands => task'[feedback.by].reported = task[feedback.by].reported
    BY <1>2, MovesRecords
  <2>3. QED
    BY <1>3, <2>1, <2>2 DEF IInv, LastFits, FeedbackMatchesPending
<1>7. QED
  BY <1>4, <1>5, <1>6 DEF IInv

-----------------------------------------------------------------------------
(* The end of a request, and of a transaction.                             *)

(* The running command goes on to its refresh, or ends.                    *)
Proceeds(c, p, o) ==
  /\ Running(c) /\ task' = [task EXCEPT ![c].pc = p, ![c].outcome = o]
  /\ \/ p = "refreshing" /\ lock' = lock /\ o \in {"ok", "uncertain"}
     \/ p = "done" /\ lock' = None /\ o \in Attempted
  /\ UNCHANGED <<now, skew, held, poll, data, lastOff, stopSeen>>

LEMMA ProceedsMoves ==
  ASSUME IInv, NEW c \in Commands, NEW p, NEW o, Proceeds(c, p, o)
  PROVE  \E t : /\ Moves(c, t) /\ TaskFits(t) /\ t.pc = p /\ t.outcome = o
                /\ t.issued # None /\ t.request = task[c].request
<1> DEFINE t == [task[c] EXCEPT !.pc = p, !.outcome = o]
<1>1. task \in [Commands -> Task] /\ task[c] \in Task /\ TaskFits(task[c])
  BY DEF IInv, TypeOK, TasksFit
<1>2. task' = [task EXCEPT ![c] = t] /\ p \in {"refreshing", "done"} /\ o \in Attempted
  BY <1>1 DEF Proceeds, Attempted
<1>3. /\ t \in Task /\ t.pc = p /\ t.outcome = o /\ t.issued = task[c].issued
      /\ t.reported = task[c].reported /\ t.request = task[c].request
  BY <1>1, <1>2 DEF Task, Attempted
<1>4. task[c].issued # None /\ task[c].outcome # "rejected"
  BY <1>1 DEF Proceeds, Running, TaskFits
<1> HIDE DEF t
<1>5. Moves(c, t)
  BY <1>2, <1>3, <1>4 DEF Moves
<1>6. TaskFits(t)
  BY <1>1, <1>2, <1>3, <1>4 DEF TaskFits, Proceeds, Attempted
<1>7. QED
  BY <1>3, <1>4, <1>5, <1>6

LEMMA ProceedsRunning ==
  ASSUME IInv, NEW c \in Commands, NEW p, NEW o, Proceeds(c, p, o),
         feedback'.by = feedback.by,
         \A k \in Keys : pending'[k] # None => pending'[k] = pending[k]
  PROVE  RunningFits'
<1>1. PICK t : Moves(c, t) /\ t.pc = p
  BY ProceedsMoves
<1>2. Running(c) /\ lock = c /\ feedback.by = c
  BY DEF IInv, RunningFits, Proceeds
<1>3. \A d \in Commands : Running(d) => d = c
  BY <1>2 DEF IInv, RunningFits
<1>4. \A d \in Commands : d # c => task'[d] = task[d]
  BY <1>1, MovesRecords
<1>5. task'[c].pc = p
  BY <1>1, MovesRecords
<1>6. \A d \in Commands : Running(d)' => d = c
  BY <1>3, <1>4 DEF Running
<1>7. Running(c)' => p = "refreshing"
  BY <1>5 DEF Running, Proceeds
<1>8. QED
  BY <1>2, <1>5, <1>6, <1>7 DEF RunningFits, Proceeds, Sending

(* With the request still pending, or never kept (an experimental write).  *)
LEMMA ProceedsKeeps ==
  ASSUME IInv, NEW c \in Commands, NEW p, NEW o, Proceeds(c, p, o), UNCHANGED pending,
         NEW st, feedback' = [feedback EXCEPT !.status = st],
         \/ st = feedback.status
         \/ st = "delivery_uncertain"
         \/ st \in {"cloud_acknowledged", "rejected"} /\ Writing(c)
  PROVE  IInv'
<1>1. feedback \in Feedback /\ feedback.by = c /\ task[c].request \in Request
  BY DEF IInv, TypeOK, RunningFits, Proceeds, Task
<1>2. feedback' \in Feedback /\ feedback'.by = c /\ feedback'.status = st
  BY <1>1 DEF Feedback
<1>3. PICK t : Moves(c, t) /\ TaskFits(t)
  BY ProceedsMoves
<1>4. TypeOK' /\ (TasksFit /\ TimesFit /\ PendingFits /\ StopsFit /\ DoubtsFit)'
  BY <1>2, <1>3, MoveKeeps DEF Proceeds
<1>5. RunningFits'
  BY <1>1, <1>2, ProceedsRunning
<1>6. LastFits'
  <2>1. task'[c].reported = task[c].reported
    BY <1>3, MovesRecords
  <2>2. CASE st = feedback.status
    BY <1>1, <1>2, <2>1, <2>2 DEF IInv, LastFits, FeedbackMatchesPending
  <2>3. CASE st = "delivery_uncertain"
    BY <1>2, <2>3, ConstantTypes DEF LastFits, FeedbackMatchesPending
  <2>4. CASE st \in {"cloud_acknowledged", "rejected"} /\ Writing(c)
    <3>1. \A k \in Keys : pending[k] # None => pending[k].by # c
      BY <2>4 DEF IInv, PendingFits, Writing, Keys
    <3>2. QED
      BY <1>2, <2>4, <3>1, ConstantTypes DEF LastFits, FeedbackMatchesPending
  <2>5. QED
    BY <2>2, <2>3, <2>4
<1>7. QED
  BY <1>4, <1>5, <1>6 DEF IInv

LEMMA EndKeeps ==
  ASSUME IInv, NEW c \in Commands,
         \/ Acknowledged(c) \/ Uncertain(c) \/ WriteAcknowledged(c) \/ WriteFails(c)
         \/ Refreshed(c) \/ Deadline(c)
  PROVE  IInv'
<1>1. /\ feedback \in Feedback /\ feedback = [feedback EXCEPT !.status = feedback.status]
      /\ TaskFits(task[c])
  BY DEF IInv, TypeOK, TasksFit, Feedback
<1>2. CASE Acknowledged(c)
  <2>1. Proceeds(c, "refreshing", "ok") /\ UNCHANGED <<pending, feedback>>
    BY <1>2 DEF Acknowledged, Sending, Refreshes, Proceeds, Running
  <2>2. QED
    BY <1>1, <2>1, ProceedsKeeps
<1>3. CASE Uncertain(c)
  <2>1. /\ Proceeds(c, "refreshing", "uncertain") /\ UNCHANGED pending
        /\ feedback' = [feedback EXCEPT !.status = "delivery_uncertain"]
    BY <1>3 DEF Uncertain, Sending, Refreshes, Proceeds, Running
  <2>2. QED
    BY <2>1, ProceedsKeeps
<1>4. CASE WriteAcknowledged(c)
  <2>1. /\ Proceeds(c, "refreshing", "ok") /\ UNCHANGED pending /\ Writing(c)
        /\ feedback' = [feedback EXCEPT !.status = "cloud_acknowledged"]
    BY <1>4 DEF WriteAcknowledged, Writing, Refreshes, Proceeds, Running
  <2>2. QED
    BY <2>1, ProceedsKeeps
<1>5. CASE WriteFails(c)
  <2>1. /\ Writing(c) /\ UNCHANGED pending
        /\ \/ /\ Proceeds(c, "done", "uncertain")
              /\ feedback' = [feedback EXCEPT !.status = "delivery_uncertain"]
           \/ /\ Proceeds(c, "done", "rejected")
              /\ feedback' = [feedback EXCEPT !.status = "rejected"]
    BY <1>5 DEF WriteFails, Writing, Finish, Proceeds, Running, Attempted
  <2>2. QED
    BY <2>1, ProceedsKeeps
<1>6. CASE Refreshed(c)
  <2>1. Proceeds(c, "done", task[c].outcome) /\ UNCHANGED <<pending, feedback>>
    BY <1>1, <1>6 DEF Refreshed, Finish, Proceeds, Running, Attempted, TaskFits
  <2>2. QED
    BY <1>1, <2>1, ProceedsKeeps
<1>7. CASE Deadline(c)
  <2>1. /\ Proceeds(c, "done", "uncertain") /\ UNCHANGED pending
        /\ feedback' = [feedback EXCEPT !.status = "delivery_uncertain"]
    BY <1>7 DEF Deadline, Due, Finish, Proceeds, Attempted
  <2>2. QED
    BY <2>1, ProceedsKeeps
<1>8. QED
  BY <1>2, <1>3, <1>4, <1>5, <1>6, <1>7

(* A rejected command takes its own request along and no other.            *)
LEMMA RejectedKeeps ==
  ASSUME IInv, NEW c \in Commands, Rejected(c)
  PROVE  IInv'
<1> DEFINE k == task[c].request.key
<1>1. /\ Proceeds(c, "done", "rejected") /\ k \in Keys /\ Sending(c)
      /\ pending' = [pending EXCEPT ![k] = None]
      /\ feedback' = [feedback EXCEPT !.status = "rejected"]
  BY DEF Rejected, Sending, Finish, Proceeds, Running, Attempted
<1>2. /\ feedback \in Feedback /\ feedback.by = c /\ pending \in [Keys -> PendingCommand \cup {None}]
      /\ pending[k] # None => pending[k].by = c
  BY <1>1 DEF IInv, TypeOK, RunningFits, Proceeds
<1>3. feedback' \in Feedback /\ feedback'.by = c /\ feedback'.status = "rejected"
  BY <1>1, <1>2 DEF Feedback
<1>4. PICK t : Moves(c, t) /\ TaskFits(t) /\ t.outcome = "rejected" /\ t.issued # None
  BY <1>1, ProceedsMoves
<1>5. \A d \in Commands :
        /\ task'[d].issued = task[d].issued /\ task'[d].reported = task[d].reported
        /\ task[d].issued # None => task'[d].request = task[d].request
        /\ task'[d].outcome # "rejected" => task[d].outcome # "rejected"
        /\ d # c => task'[d] = task[d]
  BY <1>4, MovesRecords
<1>6. task'[c] = t /\ task' \in [Commands -> Task]
  BY <1>4 DEF IInv, TypeOK, Moves
<1>7. pending'[k] = None /\ \A j \in Keys \ {k} : pending'[j] = pending[j]
  BY <1>1, <1>2
<1>8. TypeOK'
  <2>1. pending' \in [Keys -> PendingCommand \cup {None}]
    BY <1>1, <1>2
  <2>2. QED
    BY <1>1, <1>3, <1>6, <2>1 DEF IInv, TypeOK, Proceeds
<1>9. TasksFit' /\ TimesFit'
  BY <1>1, <1>4, <1>5, <1>6 DEF IInv, TasksFit, TaskFits, TimesFit, Proceeds
<1> HIDE DEF k
<1>10. PendingFits'
  <2>1. \A j \in Keys : pending[j] # None => pending[j].by \in Commands
    BY DEF IInv, TypeOK, PendingCommand
  <2>2. QED
    BY <1>5, <1>7, <2>1 DEF IInv, PendingFits
<1>11. RunningFits'
  BY <1>1, <1>2, <1>3, <1>7, ProceedsRunning
<1>12. LastFits'
  <2>1. \A j \in Keys : pending'[j] # None => pending'[j].by # c
    <3>1. \A j \in Keys : pending[j] # None /\ pending[j].by = c => j = k
      BY DEF IInv, PendingFits, k
    <3>2. QED
      BY <1>7, <3>1
  <2>2. QED
    BY <1>3, <2>1, ConstantTypes DEF LastFits, FeedbackMatchesPending
<1>13. StopsFit'
  <2>1. ASSUME NEW d \in Commands, Tried(d)', Stops(task'[d].request)
        PROVE  OffFits(d)'
    <3>1. Tried(d) /\ task'[d].request = task[d].request /\ task'[d].issued = task[d].issued
      BY <1>5, <2>1 DEF Tried
    <3>2. OffFits(d)
      BY <2>1, <3>1 DEF IInv, StopsFit
    <3>3. pending'["power"] = None \/ pending'["power"] = pending["power"]
      BY <1>7 DEF Keys
    <3>4. lastOff' = lastOff
      BY <1>1 DEF Proceeds
    <3>5. QED
      BY <3>1, <3>2, <3>3, <3>4 DEF OffFits
  <2>2. QED
    BY <2>1 DEF StopsFit
<1>14. DoubtsFit'
  <2>1. ASSUME NEW d \in Commands, InDoubt(d)'
        PROVE  DoubtFits(d)'
    <3>1. d # c
      BY <1>4, <1>6, <2>1 DEF InDoubt, Tried
    <3>2. InDoubt(d) /\ task'[d].request = task[d].request /\ task'[d].issued = task[d].issued
      BY <1>5, <2>1 DEF InDoubt, Tried
    <3>3. DoubtFits(d)
      BY <3>2 DEF IInv, DoubtsFit
    <3>4. Replaced(d) => Replaced(d)'
      BY <1>5, <3>2 DEF Replaced
    <3>5. task[d].request.key = k => ~(pending[k] # None /\ pending[k].by = d)
      BY <1>2, <3>1
    <3>6. task[d].request.key # k => pending'[task[d].request.key] = pending[task[d].request.key]
      BY <1>7, <3>2 DEF InDoubt
    <3>7. now' = now
      BY <1>1 DEF Proceeds
    <3>8. QED
      BY <3>2, <3>3, <3>4, <3>5, <3>6, <3>7 DEF DoubtFits
  <2>2. QED
    BY <2>1 DEF DoubtsFit
<1>15. QED
  BY <1>8, <1>9, <1>10, <1>11, <1>12, <1>13, <1>14 DEF IInv

-----------------------------------------------------------------------------
(* A sample becomes the view.                                              *)

LEMMA AppliesKeeps ==
  ASSUME IInv, PollApplies
  PROVE  IInv'
<1> DEFINE s == poll
           A(k) == Answers(k, s)
           by(c) == \E k \in Keys : A(k) /\ pending[k].by = c
<1>1. /\ s \in Sample /\ poll' = None /\ data' = [s EXCEPT !.after = {}]
      /\ UNCHANGED <<now, skew, held, lock>>
      /\ lastOff' \in {now, lastOff}
      /\ stopSeen' = stopSeen \/ (stopSeen' = now /\ lastOff' = now)
      /\ pending' = [k \in Keys |-> IF Closes(k, s) THEN None ELSE pending[k]]
      /\ task' = [c \in Commands |-> IF by(c) THEN [task[c] EXCEPT !.reported = TRUE] ELSE task[c]]
  BY DEF IInv, TypeOK, PollApplies, Apply
<1>2. /\ now \in Nat /\ lastOff \in Nat /\ lastOff <= now /\ stopSeen \in Nat \cup {None}
      /\ pending \in [Keys -> PendingCommand \cup {None}] /\ task \in [Commands -> Task]
      /\ feedback \in Feedback
  BY DEF IInv, TypeOK, TimesFit
<1>3. \A k \in Keys : A(k) => pending[k] # None
  BY DEF Answers
<1>4. ASSUME NEW k \in Keys
      PROVE  \/ pending'[k] = pending[k] /\ ~A(k) /\ ~Lapses(k, s)
             \/ pending'[k] = None /\ A(k)
             \/ pending'[k] = None /\ ~A(k) /\ Lapses(k, s) /\ now >= pending[k].deadline
                /\ pending[k] # None
  BY <1>1 DEF Closes, Lapses
<1>5. ASSUME NEW c \in Commands
      PROVE  /\ task'[c].pc = task[c].pc /\ task'[c].request = task[c].request
             /\ task'[c].issued = task[c].issued /\ task'[c].outcome = task[c].outcome
             /\ task'[c].reported <=> task[c].reported \/ by(c)
             /\ task'[c] \in Task
  <2> HIDE DEF by
  <2>1. task[c] \in Task
    BY <1>2
  <2>2. CASE by(c)
    <3>1. task'[c] = [task[c] EXCEPT !.reported = TRUE]
      BY <1>1, <2>2
    <3>2. QED
      BY <2>1, <2>2, <3>1 DEF Task
  <2>3. CASE ~by(c)
    <3>1. task'[c] = task[c]
      BY <1>1, <2>3
    <3>2. QED
      BY <2>1, <2>3, <3>1 DEF Task
  <2>4. QED
    BY <2>2, <2>3
<1>6. \A k \in Keys : pending[k] # None =>
        /\ pending[k].by \in Commands
        /\ task[pending[k].by].request.key = k /\ ~task[pending[k].by].reported
        /\ task[pending[k].by].issued # None
        /\ pending[k].deadline = task[pending[k].by].issued + PendingTime
  BY <1>2 DEF IInv, PendingFits, PendingCommand
<1>7. \A k \in Keys : pending[k] # None => (by(pending[k].by) <=> A(k))
  BY <1>3, <1>6
<1>8. PICK st : feedback' = [feedback EXCEPT !.status = st]
           /\ \/ \E k \in Keys : pending[k] # None /\ pending[k].by = feedback.by /\ A(k)
                                 /\ st = "device_reported"
              \/ \E k \in Keys : pending[k] # None /\ pending[k].by = feedback.by /\ Lapses(k, s)
                                 /\ st = "not_observed"
              \/ /\ st = feedback.status
                 /\ \A k \in Keys : pending[k] # None /\ pending[k].by = feedback.by
                                    => ~A(k) /\ ~Lapses(k, s)
  BY DEF PollApplies, Apply
<1> HIDE DEF A, by
<1>9. feedback' \in Feedback /\ feedback'.by = feedback.by /\ feedback'.status = st
  BY <1>2, <1>8 DEF Feedback
<1>10. TypeOK'
  <2>1. data' \in Sample
    BY <1>1 DEF Sample
  <2>2. pending' \in [Keys -> PendingCommand \cup {None}]
    BY <1>1, <1>2
  <2>3. task' \in [Commands -> Task]
    BY <1>1, <1>5
  <2>4. lastOff' \in Nat /\ stopSeen' \in Nat \cup {None}
    BY <1>1, <1>2
  <2>5. QED
    BY <1>1, <1>9, <2>1, <2>2, <2>3, <2>4 DEF IInv, TypeOK
<1>11. TasksFit'
  <2>1. \A c \in Commands : task[c].issued = None => ~by(c)
    BY <1>3, <1>6 DEF by
  <2>2. QED
    BY <1>1, <1>5, <2>1 DEF IInv, TasksFit, TaskFits
<1>12. TimesFit'
  BY <1>1, <1>2 DEF IInv, TimesFit
<1>13. PendingFits'
  <2>1. ASSUME NEW k \in Keys, pending'[k] # None
        PROVE  pending'[k] = pending[k] /\ ~by(pending[k].by)
    BY <1>4, <1>7, <2>1
  <2>2. QED
    BY <1>5, <1>6, <2>1 DEF IInv, PendingFits
<1>14. RunningFits'
  BY <1>1, <1>4, <1>5, <1>9 DEF IInv, RunningFits, Running, Sending
<1>15. LastFits'
  <2>1. \A k, j \in Keys : (/\ pending[k] # None /\ pending[k].by = feedback.by
                           /\ pending[j] # None /\ pending[j].by = feedback.by) => k = j
    BY <1>6
  <2>2. CASE \E k \in Keys : pending[k] # None /\ pending[k].by = feedback.by /\ A(k)
                             /\ st = "device_reported"
    <3>1. PICK k \in Keys : pending[k] # None /\ pending[k].by = feedback.by /\ A(k)
      BY <2>2
    <3>2. feedback.by \in Commands /\ task'[feedback.by].reported
      BY <1>5, <1>6, <1>7, <3>1
    <3>3. \A j \in Keys : pending'[j] # None => pending'[j].by # feedback.by
      BY <1>4, <2>1, <3>1
    <3>4. QED
      BY <1>9, <2>2, <3>2, <3>3, ConstantTypes DEF LastFits, FeedbackMatchesPending
  <2>3. CASE \E k \in Keys : pending[k] # None /\ pending[k].by = feedback.by /\ Lapses(k, s)
                             /\ st = "not_observed"
    <3>1. PICK k \in Keys : pending[k] # None /\ pending[k].by = feedback.by /\ Lapses(k, s)
      BY <2>3
    <3>2. ~A(k)
      BY <3>1 DEF Lapses, A
    <3>3. feedback.by \in Commands /\ ~task'[feedback.by].reported
      BY <1>5, <1>6, <1>7, <3>1, <3>2
    <3>4. \A j \in Keys : pending'[j] # None => pending'[j].by # feedback.by
      BY <1>4, <2>1, <3>1
    <3>5. QED
      BY <1>9, <2>3, <3>3, <3>4, ConstantTypes DEF LastFits, FeedbackMatchesPending
  <2>4. CASE /\ st = feedback.status
             /\ \A k \in Keys : pending[k] # None /\ pending[k].by = feedback.by
                                => ~A(k) /\ ~Lapses(k, s)
    <3>1. \A k \in Keys : pending[k] # None /\ pending[k].by = feedback.by
                          => pending'[k] = pending[k]
      BY <1>4, <2>4
    <3>2. ~by(feedback.by)
      BY <1>3, <2>4 DEF by
    <3>3. \A k \in Keys : pending'[k] # None => pending'[k] = pending[k]
      BY <1>4
    <3>4. feedback.by \in Commands => task'[feedback.by].reported = task[feedback.by].reported
      BY <1>5, <3>2, <1>1
    <3>5. feedback.by \in Commands \cup {None}
      BY <1>2 DEF Feedback
    <3>6. QED
      BY <1>9, <2>4, <3>1, <3>3, <3>4, <3>5 DEF IInv, LastFits, FeedbackMatchesPending
  <2>5. QED
    BY <1>8, <2>2, <2>3, <2>4
<1>16. StopsFit'
  <2>1. ASSUME NEW d \in Commands, Tried(d)', Stops(task'[d].request)
        PROVE  OffFits(d)'
    <3>1. Tried(d) /\ task'[d].request = task[d].request /\ task'[d].issued = task[d].issued
      BY <1>5, <2>1 DEF Tried
    <3>2. OffFits(d) /\ task[d].issued \in Nat /\ task[d].issued <= now
      BY <1>2, <2>1, <3>1 DEF IInv, StopsFit, TasksFit, TaskFits, Tried, Task
    <3>3. pending'["power"] = None \/ pending'["power"] = pending["power"]
      BY <1>4 DEF Keys
    <3>4. QED
      BY <1>1, <3>1, <3>2, <3>3 DEF OffFits
  <2>2. QED
    BY <2>1 DEF StopsFit
<1>17. DoubtsFit'
  <2>1. ASSUME NEW d \in Commands, InDoubt(d)'
        PROVE  DoubtFits(d)'
    <3> DEFINE k == task[d].request.key
    <3>1. /\ InDoubt(d) /\ ~by(d) /\ k \in Keys
          /\ task'[d].request = task[d].request /\ task'[d].issued = task[d].issued
      BY <1>5, <2>1 DEF InDoubt, Tried
    <3>2. DoubtFits(d)
      BY <3>1 DEF IInv, DoubtsFit
    <3>3. Replaced(d) => Replaced(d)'
      BY <1>5 DEF Replaced
    <3>4. (pending[k] # None /\ pending[k].by = d) =>
            pending'[k] = pending[k] \/ now >= task[d].issued + PendingTime
      BY <1>4, <1>6, <1>7, <3>1
    <3>5. QED
      BY <1>1, <3>1, <3>2, <3>3, <3>4 DEF DoubtFits
  <2>2. QED
    BY <2>1 DEF DoubtsFit
<1>18. QED
  BY <1>10, <1>11, <1>12, <1>13, <1>14, <1>15, <1>16, <1>17 DEF IInv

-----------------------------------------------------------------------------
(* What is issued.                                                         *)

(* Whichever of the three guards of restart protection is the one that     *)
(* still forbids, an ON that is admitted has rested for the off interval.  *)
LEMMA AdmittedRests ==
  ASSUME IInv, NEW r \in Request, Admitted(r), Starts(r)
  PROVE  /\ (stopSeen # None /\ ~Powered(data)) => now - stopSeen >= MinOff
         /\ \A d \in Commands : Tried(d) /\ Stops(task[d].request)
              => task[d].issued \in Nat /\ now - task[d].issued >= MinOff
<1>1. /\ now \in Nat /\ lastOff \in Nat /\ lastOff <= now /\ MinOff \in Nat
      /\ stopSeen # None => stopSeen \in Nat /\ stopSeen <= lastOff
      /\ pending \in [Keys -> PendingCommand \cup {None}]
  BY ConstantTypes DEF IInv, TypeOK, TimesFit
<1>2. /\ ~PendingOff /\ (Powered(data) \/ now - lastOff >= MinOff)
      /\ Powered(data) => pending["power"] # None
  <2>1. ~RestartBlocked /\ ~AlreadyShown(r) /\ r.key = "power"
    BY DEF Admitted, Ignored, Starts
  <2>2. QED
    BY <1>1, <2>1 DEF RestartBlocked, AlreadyShown, Keys
<1>3. ASSUME NEW d \in Commands, Tried(d), Stops(task[d].request)
      PROVE  task[d].issued \in Nat /\ now - task[d].issued >= MinOff
  <2>1. OffFits(d) /\ task[d].issued \in Nat
    BY <1>3 DEF IInv, StopsFit, TypeOK, Task, Tried
  <2>2. CASE ~Powered(data)
    BY <1>1, <1>2, <2>1, <2>2 DEF OffFits
  <2>3. CASE Powered(data)
    <3> DEFINE p == pending["power"]
    <3>1. p # None /\ p \in PendingCommand
      BY <1>1, <1>2, <2>3 DEF Keys
    <3>2. /\ p.issued \in Nat /\ p.deadline = p.issued + PendingTime /\ p.issued <= now
      <4>1. p.by \in Commands /\ p.issued \in Nat
        BY <3>1 DEF PendingCommand
      <4>2. p.deadline = p.issued + PendingTime /\ task[p.by].issued = p.issued
            /\ task[p.by].issued # None
        BY <3>1 DEF IInv, PendingFits, Keys
      <4>3. QED
        BY <4>1, <4>2 DEF IInv, TasksFit, TaskFits
    <3>3. CASE p.wanted = "off"
      <4>1. p.deadline <= now
        BY <1>1, <1>2, <3>1, <3>2, <3>3, ConstantTypes DEF PendingOff, IsPending
      <4>2. QED
        BY <1>1, <2>1, <3>1, <3>2, <3>3, <4>1, ConstantTypes DEF OffFits
    <3>4. CASE p.wanted # "off"
      BY <1>1, <2>1, <3>1, <3>2, <3>4 DEF OffFits
    <3>5. QED
      BY <3>3, <3>4
  <2>4. QED
    BY <2>2, <2>3
<1>4. QED
  BY <1>1, <1>2, <1>3

(* What is admitted is not in doubt: its window is over, or another value  *)
(* was asked for since.                                                    *)
LEMMA AdmittedIsNew ==
  ASSUME IInv, NEW r \in Request, Admitted(r), NEW d \in Commands, InDoubt(d),
         task[d].request.key = r.key, task[d].request.wanted = r.wanted
  PROVE  now >= task[d].issued + PendingTime \/ Replaced(d)
<1> DEFINE p == pending[r.key]
<1>1. DoubtFits(d) /\ r.key \in Keys
  BY DEF IInv, DoubtsFit, InDoubt
<1>2. CASE p # None /\ p.by = d
  <2>1. /\ p.wanted = r.wanted /\ p.deadline = task[d].issued + PendingTime
    BY <1>1, <1>2 DEF IInv, PendingFits
  <2>2. ~IsPending(r.key)
    BY <1>1, <2>1 DEF Admitted, Ignored, Duplicate
  <2>3. now \in Nat /\ task[d].issued \in Nat
    BY DEF IInv, TypeOK, InDoubt, Tried, Task
  <2>4. QED
    BY <1>2, <2>1, <2>2, <2>3, ConstantTypes DEF IsPending
<1>3. QED
  BY <1>1, <1>2 DEF DoubtFits

(* The task of c sends; nobody else runs, and no record of another task    *)
(* changes.                                                                *)
Sends(c) ==
  /\ HasLock(c) /\ Admitted(task[c].request)
  /\ lock' = c /\ task' = [task EXCEPT ![c].pc = "sending", ![c].issued = now]
  /\ feedback'.by = c
  /\ UNCHANGED <<now, skew, held, poll, data, stopSeen>>

LEMMA SendsRecords ==
  ASSUME IInv, NEW c \in Commands, Sends(c)
  PROVE  /\ task' \in [Commands -> Task] /\ TasksFit'
         /\ \A d \in Commands : d # c => task'[d] = task[d]
         /\ task'[c].issued = now /\ task'[c].request = task[c].request
         /\ task'[c].pc = "sending" /\ task'[c].outcome = "none" /\ ~task'[c].reported
         /\ task[c].issued = None
         /\ \A d \in Commands : Running(d)' => d = c
<1>1. /\ task \in [Commands -> Task] /\ task[c] \in Task /\ TaskFits(task[c]) /\ now \in Nat
      /\ now # None
  BY ConstantTypes DEF IInv, TypeOK, TasksFit
<1>2. /\ task[c].issued = None /\ task[c].outcome = "none" /\ ~task[c].reported /\ lock = None
  BY <1>1 DEF Sends, HasLock, TaskFits
<1> DEFINE t == [task[c] EXCEPT !.pc = "sending", !.issued = now]
<1>3. task' = [task EXCEPT ![c] = t] /\ now' = now
  BY <1>1 DEF Sends
<1>4. /\ t \in Task /\ t.pc = "sending" /\ t.issued = now /\ t.outcome = task[c].outcome
      /\ t.reported = task[c].reported /\ t.request = task[c].request
  BY <1>1 DEF Task
<1> HIDE DEF t
<1>5. task'[c] = t /\ \A d \in Commands : d # c => task'[d] = task[d]
  BY <1>1, <1>3
<1>6. task' \in [Commands -> Task]
  BY <1>1, <1>3, <1>4
<1>7. TasksFit'
  <2>1. \A d \in Commands : d # c => TaskFits(task[d])'
    BY <1>3, <1>5 DEF IInv, TasksFit, TaskFits
  <2>2. TaskFits(task[c])'
    BY <1>1, <1>2, <1>3, <1>4, <1>5 DEF TaskFits
  <2>3. QED
    BY <2>1, <2>2 DEF TasksFit
<1>8. \A d \in Commands : ~Running(d)
  BY <1>2, ConstantTypes DEF IInv, RunningFits
<1>9. \A d \in Commands : Running(d)' => d = c
  BY <1>5, <1>8 DEF Running
<1>10. QED
  BY <1>2, <1>4, <1>5, <1>6, <1>7, <1>9

LEMMA SendsSame ==
  ASSUME IInv, NEW c \in Commands, Sends(c)
  PROVE  /\ \A k \in Keys : pending[k] # None => pending[k].by \in Commands \ {c}
         /\ \A d \in Commands \ {c} : Replaced(d) => Replaced(d)'
<1>1. \A d \in Commands : d # c => task'[d] = task[d]
  BY SendsRecords
<1>2. task[c].issued = None
  BY SendsRecords
<1>3. \A k \in Keys : pending[k] # None => pending[k].by \in Commands \ {c}
  BY <1>2 DEF IInv, TypeOK, PendingCommand, PendingFits
<1>4. \A d \in Commands \ {c} : Replaced(d) => Replaced(d)'
  BY <1>1, <1>2 DEF Replaced
<1>5. QED
  BY <1>3, <1>4

LEMMA IssueKeeps ==
  ASSUME IInv, NEW c \in Commands, Issue(c)
  PROVE  IInv'
<1> DEFINE r == task[c].request
           p == [by |-> c, wanted |-> r.wanted, deadline |-> now + PendingTime, issued |-> now,
                 baseline |-> IF data.content.stamped THEN data.time ELSE None]
<1>1. /\ Sends(c) /\ r.key \in Keys /\ Admitted(r)
      /\ feedback' = [by |-> c, status |-> "awaiting_feedback"]
      /\ pending' = [pending EXCEPT ![r.key] = p]
      /\ lastOff' = IF Stops(r) THEN now ELSE lastOff
  BY DEF Issue, Sends
<1>2. /\ now \in Nat /\ lastOff \in Nat /\ lastOff <= now
      /\ pending \in [Keys -> PendingCommand \cup {None}] /\ task \in [Commands -> Task]
      /\ data \in Sample /\ now' = now /\ stopSeen' = stopSeen
  BY <1>1 DEF IInv, TypeOK, TimesFit, Sends
<1>3. /\ r \in Request /\ r.wanted \in Values
      /\ r.key = "power" => r.wanted \in {"off", "on"}
  BY <1>2 DEF IInv, TasksFit, TaskFits, Task, Request
<1>4. /\ p \in PendingCommand /\ p # None /\ p.by = c /\ p.wanted = r.wanted /\ p.issued = now
      /\ p.deadline = now + PendingTime
  <2>1. data.time \in Int
    BY <1>2 DEF Sample
  <2>2. (IF data.content.stamped THEN data.time ELSE None) \in Int \cup {None}
    BY <2>1
  <2>3. now + PendingTime \in Nat
    BY <1>2, ConstantTypes
  <2>4. p \in PendingCommand
    BY <1>2, <1>3, <2>2, <2>3 DEF PendingCommand
  <2>5. QED
    BY <2>4, ConstantTypes
<1>5. /\ task' \in [Commands -> Task] /\ TasksFit'
      /\ \A d \in Commands : d # c => task'[d] = task[d]
      /\ task'[c].issued = now /\ task'[c].request = r
      /\ task'[c].pc = "sending" /\ task'[c].outcome = "none" /\ ~task'[c].reported
      /\ \A d \in Commands : Running(d)' => d = c
  BY <1>1, SendsRecords
<1>6. /\ \A k \in Keys : pending[k] # None => pending[k].by \in Commands \ {c}
      /\ \A d \in Commands \ {c} : Replaced(d) => Replaced(d)'
  BY <1>1, SendsSame
<1> HIDE DEF p
<1>7. pending'[r.key] = p /\ \A k \in Keys : k # r.key => pending'[k] = pending[k]
  BY <1>1, <1>2
<1>8. feedback'.by = c /\ feedback'.status = "awaiting_feedback" /\ feedback' \in Feedback
  BY <1>1 DEF Feedback
<1>9. lastOff' \in Nat /\ lastOff' >= lastOff /\ lastOff' <= now /\ (Stops(r) => lastOff' = now)
  BY <1>1, <1>2
<1>10. TypeOK'
  <2>1. pending' \in [Keys -> PendingCommand \cup {None}]
    BY <1>1, <1>2, <1>4
  <2>2. QED
    BY <1>1, <1>5, <1>8, <1>9, <2>1 DEF IInv, TypeOK, Sends
<1>11. TimesFit'
  BY <1>2, <1>9 DEF IInv, TypeOK, TimesFit
<1> HIDE DEF r
<1>12. PendingFits'
  <2>1. ASSUME NEW k \in Keys, k # r.key, pending[k] # None
        PROVE  task'[pending[k].by] = task[pending[k].by]
    BY <1>5, <1>6, <2>1
  <2>2. now # None
    BY <1>2, ConstantTypes
  <2>3. QED
    BY <1>4, <1>5, <1>7, <2>1, <2>2 DEF IInv, PendingFits
<1>13. RunningFits'
  BY <1>1, <1>4, <1>5, <1>7, <1>8 DEF RunningFits, Sends
<1>14. LastFits'
  BY <1>1, <1>4, <1>7, <1>8, ConstantTypes DEF LastFits, FeedbackMatchesPending
<1>15. StopsFit'
  <2>1. ASSUME NEW d \in Commands, d # c, Tried(d), Stops(task[d].request)
        PROVE  OffFits(d)'
    <3>1. /\ task'[d] = task[d] /\ OffFits(d) /\ task[d].issued \in Nat /\ task[d].issued <= now
      BY <1>2, <1>5, <2>1 DEF IInv, StopsFit, TasksFit, TaskFits, Tried, Task
    <3>2. task[d].issued <= lastOff'
      BY <1>2, <1>9, <3>1 DEF OffFits
    <3>3. CASE r.key = "power" /\ r.wanted = "off"
      BY <1>4, <1>7, <3>1, <3>2, <3>3 DEF OffFits
    <3>4. CASE r.key = "power" /\ r.wanted = "on"
      <4>1. now - task[d].issued >= MinOff
        BY <1>1, <1>3, <2>1, <3>4, AdmittedRests DEF Starts
      <4>2. now >= task[d].issued + MinOff
        BY <1>2, <3>1, <4>1, ConstantTypes
      <4>3. QED
        BY <1>4, <1>7, <3>1, <3>2, <3>4, <4>2 DEF OffFits
    <3>5. CASE r.key # "power"
      BY <1>7, <3>1, <3>2, <3>5 DEF OffFits, Keys
    <3>6. QED
      BY <1>3, <3>3, <3>4, <3>5
  <2>2. ASSUME Stops(task'[c].request)
        PROVE  OffFits(c)'
    <3>1. r.key = "power" /\ r.wanted = "off" /\ lastOff' = now
      BY <1>5, <1>9, <2>2 DEF Stops
    <3>2. QED
      BY <1>2, <1>4, <1>5, <1>7, <3>1 DEF OffFits
  <2>3. QED
    BY <1>5, <2>1, <2>2 DEF StopsFit, Tried
<1>16. DoubtsFit'
  <2>1. ASSUME NEW d \in Commands, d # c, InDoubt(d)
        PROVE  DoubtFits(d)'
    <3>1. task'[d] = task[d] /\ DoubtFits(d)
      BY <1>5, <2>1 DEF IInv, DoubtsFit
    <3>2. task[d].issued \in Nat /\ task[d].issued <= now /\ task[d].request.key \in Keys
      BY <1>2, <2>1 DEF IInv, TasksFit, TaskFits, InDoubt, Tried, Task
    <3>3. Replaced(d) => Replaced(d)'
      BY <1>6, <2>1
    <3>4. CASE task[d].request.key # r.key
      BY <1>2, <1>7, <3>1, <3>2, <3>3, <3>4 DEF DoubtFits
    <3>5. CASE task[d].request.key = r.key /\ task[d].request.wanted = r.wanted
      <4>1. now >= task[d].issued + PendingTime \/ Replaced(d)
        BY <1>1, <1>3, <2>1, <3>5, AdmittedIsNew
      <4>2. QED
        BY <1>2, <3>1, <3>3, <4>1 DEF DoubtFits
    <3>6. CASE task[d].request.key = r.key /\ task[d].request.wanted # r.wanted
      <4>1. Replaced(d)'
        BY <1>2, <1>5, <3>1, <3>2, <3>6, ConstantTypes DEF Replaced
      <4>2. QED
        BY <4>1 DEF DoubtFits
    <3>7. QED
      BY <3>4, <3>5, <3>6
  <2>2. DoubtFits(c)'
    BY <1>4, <1>5, <1>7 DEF DoubtFits
  <2>3. QED
    BY <1>5, <2>1, <2>2 DEF DoubtsFit, InDoubt, Tried
<1>17. QED
  BY <1>5, <1>10, <1>11, <1>12, <1>13, <1>14, <1>15, <1>16 DEF IInv

LEMMA IssueWriteKeeps ==
  ASSUME IInv, NEW c \in Commands, IssueWrite(c)
  PROVE  IInv'
<1>1. /\ Sends(c) /\ task[c].request.key = "none" /\ UNCHANGED <<pending, lastOff>>
      /\ feedback' = [by |-> c, status |-> "awaiting_response"]
  BY DEF IssueWrite, Sends
<1>2. /\ task' \in [Commands -> Task] /\ TasksFit'
      /\ \A d \in Commands : d # c => task'[d] = task[d]
      /\ task'[c].issued = now /\ task'[c].request.key = "none"
      /\ task[c].issued = None
      /\ \A d \in Commands : Running(d)' => d = c
  BY <1>1, SendsRecords
<1>3. /\ \A k \in Keys : pending[k] # None => pending[k].by \in Commands \ {c}
      /\ \A d \in Commands \ {c} : Replaced(d) => Replaced(d)'
  BY <1>1, SendsSame
<1>4. now' = now /\ stopSeen' = stopSeen /\ lock' = c
  BY <1>1 DEF Sends
<1>5. TypeOK' /\ TimesFit'
  BY <1>1, <1>2, <1>4 DEF IInv, TypeOK, TimesFit, Sends, Feedback
<1>6. PendingFits'
  BY <1>1, <1>2, <1>3 DEF IInv, PendingFits
<1>7. RunningFits'
  BY <1>1, <1>2, <1>4 DEF RunningFits, Keys
<1>8. LastFits'
  BY <1>1, <1>3, ConstantTypes DEF LastFits, FeedbackMatchesPending
<1>9. StopsFit'
  BY <1>1, <1>2, <1>4 DEF IInv, StopsFit, OffFits, Tried, Stops
<1>10. DoubtsFit'
  BY <1>1, <1>2, <1>3, <1>4 DEF IInv, DoubtsFit, InDoubt, Tried, DoubtFits, Keys
<1>11. QED
  BY <1>2, <1>5, <1>6, <1>7, <1>8, <1>9, <1>10 DEF IInv

-----------------------------------------------------------------------------
LEMMA NextKeeps == IInv /\ [Next]_vars => IInv'
<1> SUFFICES ASSUME IInv, [Next]_vars PROVE IInv'
  OBVIOUS
<1>1. CASE NewSample \/ PollReads \/ PollFails \/ UnloadRequested \/ UnloadFinishes
           \/ UNCHANGED vars
  BY <1>1, OutsideKeeps
<1>2. CASE Tick
  BY <1>2, TickKeeps
<1>3. CASE PollApplies
  BY <1>3, AppliesKeeps
<1>4. CASE \E c \in Commands : CommandStep(c) \/ \E r \in Requests : Call(c, r)
  <2>1. PICK c \in Commands : CommandStep(c) \/ \E r \in Requests : Call(c, r)
    BY <1>4
  <2>2. CASE Decline(c) \/ \E r \in Requests : Call(c, r)
    BY <2>2, QueueKeeps
  <2>3. CASE Issue(c)
    BY <2>3, IssueKeeps
  <2>4. CASE IssueWrite(c)
    BY <2>4, IssueWriteKeeps
  <2>5. CASE Rejected(c)
    BY <2>5, RejectedKeeps
  <2>6. CASE \/ Acknowledged(c) \/ Uncertain(c) \/ WriteAcknowledged(c) \/ WriteFails(c)
             \/ Refreshed(c) \/ Deadline(c)
    BY <2>6, EndKeeps
  <2>7. QED
    BY <2>1, <2>2, <2>3, <2>4, <2>5, <2>6 DEF CommandStep
<1>5. QED
  BY <1>1, <1>2, <1>3, <1>4 DEF Next

(* A request is issued under its guard, and reported when a sample answers *)
(* it, and no other step does either.                                      *)
LEMMA RecordsChange ==
  ASSUME IInv, [Next]_vars, NEW c \in Commands
  PROVE  /\ \/ task'[c].issued = task[c].issued
            \/ /\ task'[c].issued = now /\ UNCHANGED <<now, skew, held, poll>>
               /\ task[c].request \in Request /\ Admitted(task[c].request)
         /\ \/ task'[c].reported = task[c].reported
            \/ poll # None /\ \E k \in Keys : Answers(k, poll) /\ pending[k].by = c
<1>1. task \in [Commands -> Task]
  BY DEF IInv, TypeOK
<1>2. CASE PollApplies
  <2> DEFINE A == \E k \in Keys : Answers(k, poll) /\ pending[k].by = c
  <2>1. task'[c] = IF A THEN [task[c] EXCEPT !.reported = TRUE] ELSE task[c]
    BY <1>2 DEF PollApplies, Apply
  <2>2. poll # None
    BY <1>2 DEF PollApplies
  <2> HIDE DEF A
  <2>3. task'[c].issued = task[c].issued
    BY <1>1, <2>1 DEF Task
  <2>4. A \/ task'[c].reported = task[c].reported
    BY <1>1, <2>1 DEF Task
  <2>5. QED
    BY <2>2, <2>3, <2>4 DEF A
<1>3. CASE \E d \in Commands : CommandStep(d) \/ \E r \in Requests : Call(d, r)
  <2>1. PICK d \in Commands : CommandStep(d) \/ \E r \in Requests : Call(d, r)
    BY <1>3
  <2>2. CASE Issue(d) \/ IssueWrite(d)
    <3>1. \A e \in Commands \ {d} : task'[e] = task[e]
      BY <1>1, <2>2 DEF Issue, IssueWrite
    <3>2. /\ task'[d].issued = now /\ task'[d].reported = task[d].reported
          /\ UNCHANGED <<now, skew, held, poll>>
          /\ task[d].request \in Request /\ Admitted(task[d].request)
      BY <1>1, <2>2 DEF Issue, IssueWrite, Task
    <3>3. QED
      BY <3>1, <3>2
  <2>3. CASE ~(Issue(d) \/ IssueWrite(d))
    BY <1>1, <2>1, <2>3 DEF CommandStep, Call, Decline, Acknowledged, WriteAcknowledged,
       Uncertain, Rejected, WriteFails, Refreshed, Deadline, Refreshes, Finish, Task
  <2>4. QED
    BY <2>2, <2>3
<1>4. QED
  BY <1>2, <1>3 DEF Next, vars, NewSample, Tick, UnloadRequested, UnloadFinishes, PollReads,
                    PollFails

LEMMA IssuedIsAdmitted ==
  ASSUME IInv, [Next]_vars, NEW c \in Commands, Issues(c)
  PROVE  task[c].request \in Request /\ Admitted(task[c].request)
BY RecordsChange DEF Issues

-----------------------------------------------------------------------------
(* What a sample knows.                                                    *)

(* A sample is not from the future, and it was taken after every command   *)
(* that the clock had left behind by then.                                 *)
Knows(s) ==
  /\ s.time - skew <= now
  /\ \A c \in Commands :
       task[c].issued # None /\ s.time - skew > task[c].issued => c \in s.after

SamplesKnow == Knows(held) /\ (poll # None => Knows(poll))

LEMMA StartsKnowing == Init => SamplesKnow
<1> SUFFICES ASSUME Init PROVE SamplesKnow
  OBVIOUS
<1>1. held.time = skew /\ skew \in Int /\ now = 0 /\ poll = None
  BY ConstantsOK DEF Init
<1>2. \A c \in Commands : task[c].issued = None
  BY DEF Init, Idle
<1>3. QED
  BY <1>1, <1>2 DEF SamplesKnow, Knows

LEMMA NextKnows == IInv /\ SamplesKnow /\ [Next]_vars => SamplesKnow'
<1> SUFFICES ASSUME IInv, SamplesKnow, [Next]_vars PROVE SamplesKnow'
  OBVIOUS
<1>1. /\ now \in Nat /\ skew \in Int /\ held \in Sample /\ poll \in Sample \cup {None}
      /\ task \in [Commands -> Task]
  BY DEF IInv, TypeOK
<1>2. CASE NewSample
  <2>1. /\ held'.time = now + skew /\ UNCHANGED <<now, skew, poll, task>>
        /\ held'.after = {c \in Commands : task[c].issued # None}
    BY <1>2 DEF NewSample
  <2>2. QED
    BY <1>1, <2>1 DEF SamplesKnow, Knows
<1>3. CASE PollReads
  BY <1>3 DEF PollReads, SamplesKnow, Knows
<1>4. CASE ~NewSample /\ ~PollReads
  <2>1. held' = held /\ poll' \in {poll, None} /\ skew' = skew
    BY <1>4 DEF Next, vars, CommandStep, Tick, UnloadRequested, UnloadFinishes, PollFails,
       PollApplies, Call, Decline, Issue, IssueWrite, Acknowledged, WriteAcknowledged,
       Uncertain, Rejected, WriteFails, Refreshed, Deadline
  <2>2. now' = now \/ now' = now + 1
    BY <1>4 DEF Next, vars, CommandStep, Tick, UnloadRequested, UnloadFinishes, PollFails,
       PollApplies, Call, Decline, Issue, IssueWrite, Acknowledged, WriteAcknowledged,
       Uncertain, Rejected, WriteFails, Refreshed, Deadline
  <2>3. ASSUME NEW s \in Sample, Knows(s)
        PROVE  Knows(s)'
    <3>1. s.time \in Int
      BY DEF Sample
    <3>2. s.time - skew <= now /\ s.time - skew <= now'
      BY <1>1, <2>2, <2>3, <3>1 DEF Knows
    <3>3. ASSUME NEW c \in Commands, task'[c].issued # None, s.time - skew > task'[c].issued
          PROVE  c \in s.after
      <4>1. task'[c].issued = task[c].issued \/ task'[c].issued = now
        BY RecordsChange
      <4>2. task'[c].issued = task[c].issued
        BY <1>1, <3>1, <3>2, <3>3, <4>1
      <4>3. QED
        BY <2>3, <3>3, <4>2 DEF Knows
    <3>4. QED
      BY <2>1, <3>2, <3>3 DEF Knows
  <2>4. QED
    BY <1>1, <2>1, <2>3 DEF SamplesKnow
<1>5. QED
  BY <1>2, <1>3, <1>4

-----------------------------------------------------------------------------
(* Every record fits the others in every state that is reached.            *)
THEOREM Invariance == Spec => []IInv
<1>1. Init => IInv
  BY StartsFit
<1>2. IInv /\ [Next]_vars => IInv'
  BY NextKeeps
<1>3. QED
  BY <1>1, <1>2, PTL DEF Spec

(* last_command is never awaiting a feedback nobody waits for, and says    *)
(* reported, not observed or rejected of no request that is still pending. *)
THEOREM FeedbackFits == Spec => []FeedbackMatchesPending
<1>1. IInv => FeedbackMatchesPending
  BY DEF IInv, LastFits
<1>2. QED
  BY <1>1, Invariance, PTL

(* Restart protection holds for any interval no longer than the window in  *)
(* which a request is kept, whatever samples say and polls lose.           *)
THEOREM Rests == Spec => RestRestart
<1> DEFINE Rested(c) ==
             /\ (stopSeen # None /\ ~Powered(data)) => now - stopSeen >= MinOff
             /\ \A d \in Commands :
                  (/\ task[d].issued # None /\ Stops(task[d].request)
                   /\ task[d].outcome # "rejected")
                  => now - task[d].issued >= MinOff
           Good == \A c \in Commands : (Issues(c) /\ Starts(task[c].request)) => Rested(c)
<1>1. IInv /\ [Next]_vars => [Good]_vars
  <2>1. ASSUME IInv, [Next]_vars, NEW c \in Commands, Issues(c), Starts(task[c].request)
        PROVE  Rested(c)
    <3>1. task[c].request \in Request /\ Admitted(task[c].request)
      BY <2>1, IssuedIsAdmitted
    <3>2. /\ (stopSeen # None /\ ~Powered(data)) => now - stopSeen >= MinOff
          /\ \A d \in Commands : Tried(d) /\ Stops(task[d].request)
               => task[d].issued \in Nat /\ now - task[d].issued >= MinOff
      BY <2>1, <3>1, AdmittedRests
    <3>3. QED
      BY <3>2 DEF Tried
  <2>2. QED
    BY <2>1
<1>2. QED
  BY <1>1, Invariance, PTL DEF Spec, RestRestart

(* A request that may have arrived is not sent twice within its window     *)
(* however often it is asked for, whatever failed or lapsed in between.    *)
THEOREM NoRepeat == Spec => NoRepeatInDoubt
<1> DEFINE Doubt(c, d) ==
             /\ Issues(c) /\ task[d].issued # None
             /\ task[d].outcome \in {"ok", "uncertain"} /\ ~task[d].reported
             /\ task[c].request.key \in Keys
             /\ task[d].request = task[c].request
             /\ now < task[d].issued + PendingTime
           Other(c, d) ==
             \E e \in Commands :
               /\ task[e].issued # None /\ task[e].issued >= task[d].issued
               /\ task[e].request.key = task[c].request.key
               /\ task[e].request.wanted # task[c].request.wanted
           Good == \A c, d \in Commands : Doubt(c, d) => Other(c, d)
<1>1. IInv /\ [Next]_vars => [Good]_vars
  <2>1. ASSUME IInv, [Next]_vars, NEW c \in Commands, NEW d \in Commands, Doubt(c, d)
        PROVE  Other(c, d)
    <3>1. task[c].request \in Request /\ Admitted(task[c].request)
      BY <2>1, IssuedIsAdmitted
    <3>2. InDoubt(d) /\ task[d].request = task[c].request
      BY <2>1 DEF InDoubt, Tried
    <3>3. now >= task[d].issued + PendingTime \/ Replaced(d)
      BY <2>1, <3>1, <3>2, AdmittedIsNew
    <3>4. now \in Nat /\ task[d].issued \in Nat /\ PendingTime \in Nat
      BY <2>1, ConstantTypes DEF IInv, TypeOK, Task
    <3>5. Replaced(d)
      BY <2>1, <3>3, <3>4
    <3>6. QED
      BY <3>2, <3>5 DEF Replaced
  <2>2. QED
    BY <2>1
<1>2. QED
  BY <1>1, Invariance, PTL DEF Spec, NoRepeatInDoubt

(* What counts as reported was read from a sample taken after the request  *)
(* was issued, unless the vendor's clock is ahead; then its time is at     *)
(* least later than the request by the clock of Home Assistant.            *)
THEOREM Reported == Spec => ReportedByLaterSample
<1> DEFINE Later(c) ==
             LET r == task[c].request IN
             /\ poll.content[r.key] = r.wanted \/ (Starts(r) /\ Powered(poll))
             /\ IF skew > 0 THEN poll.time - skew > task[c].issued - skew
                            ELSE c \in poll.after
           Good == \A c \in Commands : (~task[c].reported /\ task'[c].reported) => Later(c)
<1>1. IInv /\ SamplesKnow /\ [Next]_vars => [Good]_vars
  <2>1. ASSUME IInv, SamplesKnow, [Next]_vars, NEW c \in Commands,
               ~task[c].reported, task'[c].reported
        PROVE  Later(c)
    <3>1. PICK k \in Keys : poll # None /\ Answers(k, poll) /\ pending[k].by = c
      BY <2>1, RecordsChange
    <3>2. /\ pending[k] # None /\ task[c].request.key = k
          /\ task[c].request.wanted = pending[k].wanted
          /\ task[c].issued = pending[k].issued /\ task[c].issued # None
      BY <2>1, <3>1 DEF IInv, PendingFits, Answers
    <3>3. /\ poll.content[k] = pending[k].wanted
             \/ (k = "power" /\ pending[k].wanted = "on" /\ Powered(poll))
          /\ poll.time > pending[k].issued
      BY <3>1 DEF Answers
    <3>4. task[c].issued \in Nat /\ skew \in Int
      BY <2>1, <3>2 DEF IInv, TypeOK, Task
    <3>5. poll.time \in Int
      BY <2>1, <3>1 DEF IInv, TypeOK, Sample
    <3>6. CASE skew > 0
      BY <3>2, <3>3, <3>4, <3>5, <3>6 DEF Starts
    <3>7. CASE ~(skew > 0)
      <4>1. poll.time - skew > task[c].issued
        BY <3>2, <3>3, <3>4, <3>5, <3>7
      <4>2. Knows(poll)
        BY <2>1, <3>1 DEF SamplesKnow
      <4>3. c \in poll.after
        BY <3>2, <4>1, <4>2 DEF Knows
      <4>4. QED
        BY <3>2, <3>3, <3>7, <4>3 DEF Starts
    <3>8. QED
      BY <3>6, <3>7
  <2>2. QED
    BY <2>1
<1>2. Spec => []SamplesKnow
  <2>1. QED
    BY StartsKnowing, NextKnows, Invariance, PTL DEF Spec
<1>3. QED
  BY <1>1, <1>2, Invariance, PTL DEF Spec, ReportedByLaterSample

-----------------------------------------------------------------------------
(* Unload.                                                                 *)

(* The lock is held by a task inside the transaction.                      *)
LockFits == lock # None => lock \in Commands /\ Running(lock)

UnloadSame == UNCHANGED <<Queued, lock, unload>>

LEMMA SameStutters == UnloadSame => UNCHANGED Unload!unloadVars
<1> SUFFICES ASSUME UnloadSame PROVE UNCHANGED Unload!unloadVars
  OBVIOUS
<1>1. Cardinality(Queued)' = Cardinality(Queued) /\ (lock # None)' = (lock # None)
  BY DEF UnloadSame
<1>2. QED
  BY <1>1 DEF UnloadSame, Unload!unloadVars

(* What each kind of step does to the queue, the lock and the closing.     *)
LEMMA OthersWait ==
  ASSUME IInv,
         \/ NewSample \/ Tick \/ PollReads \/ PollFails \/ PollApplies \/ UNCHANGED vars
  PROVE  UnloadSame /\ \A c \in Commands : Running(c)' = Running(c)
<1>1. UNCHANGED <<lock, unload>>
  BY DEF NewSample, Tick, PollReads, PollFails, PollApplies, vars
<1>2. \A c \in Commands : task'[c].pc = task[c].pc
  <2>1. CASE PollApplies
    <3>1. SUFFICES ASSUME NEW c \in Commands PROVE task'[c].pc = task[c].pc
      OBVIOUS
    <3> DEFINE A == \E k \in Keys : Answers(k, poll) /\ pending[k].by = c
    <3>2. task'[c] = IF A THEN [task[c] EXCEPT !.reported = TRUE] ELSE task[c]
      BY <2>1 DEF PollApplies, Apply
    <3>3. task[c] \in Task
      BY DEF IInv, TypeOK
    <3> HIDE DEF A
    <3>4. QED
      BY <3>2, <3>3 DEF Task
  <2>2. CASE ~PollApplies
    BY <2>2 DEF NewSample, Tick, PollReads, PollFails, vars
  <2>3. QED
    BY <2>1, <2>2
<1>3. QED
  BY <1>1, <1>2 DEF UnloadSame, Queued, Running

LEMMA JoinsQueue ==
  ASSUME IInv, NEW c \in Commands, NEW r \in Requests, Call(c, r)
  PROVE  /\ Queued' = Queued \cup {c} /\ c \notin Queued
         /\ unload = "no" /\ UNCHANGED <<lock, unload>>
         /\ \A d \in Commands : Running(d) => Running(d)'
<1>1. task \in [Commands -> Task]
  BY DEF IInv, TypeOK
<1>2. /\ task[c].pc = "idle" /\ task'[c].pc = "queued"
      /\ \A d \in Commands \ {c} : task'[d] = task[d]
  BY <1>1 DEF Call, Task
<1>3. QED
  BY <1>2 DEF Call, Queued, Running

LEMMA LeavesQueue ==
  ASSUME IInv, NEW c \in Commands, Decline(c) \/ Issue(c) \/ IssueWrite(c)
  PROVE  /\ Queued' = Queued \ {c} /\ c \in Queued /\ lock = None /\ UNCHANGED unload
         /\ \/ Decline(c) /\ lock' = None
            \/ lock' = c /\ Running(c)' /\ unload = "no"
<1>1. task \in [Commands -> Task] /\ task[c].pc = "queued" /\ lock = None
  BY DEF IInv, TypeOK, Decline, Issue, IssueWrite, HasLock
<1>2. /\ task'[c].pc \in {"done", "sending"} /\ (~Decline(c) => task'[c].pc = "sending")
      /\ \A d \in Commands \ {c} : task'[d] = task[d]
  BY <1>1 DEF Decline, Issue, IssueWrite, Task
<1>3. Queued' = Queued \ {c} /\ c \in Queued
  BY <1>1, <1>2 DEF Queued
<1>4. QED
  BY <1>1, <1>2, <1>3 DEF Decline, Issue, IssueWrite, Admitted, Usable, Running

LEMMA RunsOrEnds ==
  ASSUME IInv, NEW c \in Commands,
         \/ Acknowledged(c) \/ Uncertain(c) \/ Rejected(c) \/ WriteAcknowledged(c)
         \/ WriteFails(c) \/ Refreshed(c) \/ Deadline(c)
  PROVE  /\ UNCHANGED <<Queued, unload>> /\ lock = c
         /\ (lock' = lock /\ Running(c)') \/ lock' = None
<1>1. task \in [Commands -> Task]
  BY DEF IInv, TypeOK
<1>2. Running(c) /\ lock = c
  BY DEF IInv, RunningFits, Running, Acknowledged, Uncertain, Rejected, WriteAcknowledged,
         WriteFails, Refreshed, Deadline, Due, Sending, Writing
<1>3. /\ task'[c].pc \in {"refreshing", "done"} /\ UNCHANGED unload
      /\ (task'[c].pc = "refreshing" /\ lock' = lock) \/ lock' = None
      /\ \A d \in Commands \ {c} : task'[d] = task[d]
  BY <1>1 DEF Acknowledged, Uncertain, Rejected, WriteAcknowledged, WriteFails, Refreshed,
              Deadline, Refreshes, Finish, Task
<1>4. UNCHANGED Queued
  BY <1>2, <1>3 DEF Queued, Running
<1>5. QED
  BY <1>2, <1>3, <1>4 DEF Running

LEMMA LockKeeps == IInv /\ LockFits /\ [Next]_vars => LockFits'
<1> SUFFICES ASSUME IInv, LockFits, [Next]_vars PROVE LockFits'
  OBVIOUS
<1>1. CASE \/ NewSample \/ Tick \/ PollReads \/ PollFails \/ PollApplies \/ UNCHANGED vars
  BY <1>1, OthersWait DEF LockFits, UnloadSame
<1>2. CASE UnloadRequested \/ UnloadFinishes
  BY <1>2 DEF UnloadRequested, UnloadFinishes, LockFits, Running
<1>3. CASE \E c \in Commands : CommandStep(c) \/ \E r \in Requests : Call(c, r)
  <2>1. PICK c \in Commands : CommandStep(c) \/ \E r \in Requests : Call(c, r)
    BY <1>3
  <2>2. CASE \E r \in Requests : Call(c, r)
    BY <2>2, JoinsQueue DEF LockFits
  <2>3. CASE Decline(c) \/ Issue(c) \/ IssueWrite(c)
    BY <2>3, LeavesQueue DEF LockFits
  <2>4. CASE \/ Acknowledged(c) \/ Uncertain(c) \/ Rejected(c) \/ WriteAcknowledged(c)
             \/ WriteFails(c) \/ Refreshed(c) \/ Deadline(c)
    BY <2>4, RunsOrEnds DEF LockFits
  <2>5. QED
    BY <2>1, <2>2, <2>3, <2>4 DEF CommandStep
<1>4. QED
  BY <1>1, <1>2, <1>3 DEF Next

LEMMA UnloadSteps ==
  ASSUME IInv, LockFits, [Next]_vars
  PROVE  [Unload!Next]_Unload!unloadVars
<1> USE DEF Unload!Next
<1>1. IsFiniteSet(Queued) /\ Cardinality(Queued) \in Nat
  <2>1. Queued \subseteq Commands
    BY DEF Queued
  <2>2. QED
    BY <2>1, ConstantsOK, FS_Subset, FS_CardinalityType
<1>2. CASE \/ NewSample \/ Tick \/ PollReads \/ PollFails \/ PollApplies \/ UNCHANGED vars
  BY <1>2, OthersWait, SameStutters
<1>3. CASE UnloadRequested
  <2>1. unload = "no" /\ unload' = "closing" /\ UNCHANGED <<task, lock>>
    BY <1>3 DEF UnloadRequested
  <2>2. UNCHANGED Queued
    BY <2>1 DEF Queued
  <2>3. Unload!Close
    BY <2>1, <2>2 DEF Unload!Close
  <2>4. QED
    BY <2>3
<1>4. CASE UnloadFinishes
  <2>1. /\ unload = "closing" /\ unload' = "done" /\ UNCHANGED <<task, lock>>
        /\ \A c \in Commands : task[c].pc \in {"idle", "done"}
    BY <1>4 DEF UnloadFinishes
  <2>2. UNCHANGED Queued /\ Queued = {} /\ lock = None
    BY <2>1 DEF Queued, LockFits, Running
  <2>3. Cardinality(Queued) = 0
    BY <2>2, FS_EmptySet
  <2>4. Unload!Drained
    BY <2>1, <2>2, <2>3 DEF Unload!Drained
  <2>5. QED
    BY <2>4
<1>5. CASE \E c \in Commands : CommandStep(c) \/ \E r \in Requests : Call(c, r)
  <2>1. PICK c \in Commands : CommandStep(c) \/ \E r \in Requests : Call(c, r)
    BY <1>5
  <2>2. CASE \E r \in Requests : Call(c, r)
    <3>1. /\ Queued' = Queued \cup {c} /\ c \notin Queued
          /\ unload = "no" /\ UNCHANGED <<lock, unload>>
      BY <2>2, JoinsQueue
    <3>2. Cardinality(Queued') = Cardinality(Queued) + 1
      BY <1>1, <3>1, FS_AddElement
    <3>3. Unload!Enqueue
      BY <3>1, <3>2 DEF Unload!Enqueue
    <3>4. QED
      BY <3>3
  <2>3. CASE Decline(c) \/ Issue(c) \/ IssueWrite(c)
    <3>1. /\ Queued' = Queued \ {c} /\ c \in Queued /\ lock = None /\ UNCHANGED unload
          /\ \/ lock' = None
             \/ lock' # None /\ unload = "no"
      BY <2>3, LeavesQueue, ConstantTypes
    <3>2. Cardinality(Queued') = Cardinality(Queued) - 1 /\ Cardinality(Queued) # 0
      BY <1>1, <3>1, FS_RemoveElement, FS_EmptySet
    <3>3. Cardinality(Queued) > 0
      BY <1>1, <3>2
    <3>4. Unload!Decline \/ Unload!Issue
      BY <3>1, <3>2, <3>3 DEF Unload!Decline, Unload!Issue
    <3>5. QED
      BY <3>4
  <2>4. CASE \/ Acknowledged(c) \/ Uncertain(c) \/ Rejected(c) \/ WriteAcknowledged(c)
             \/ WriteFails(c) \/ Refreshed(c) \/ Deadline(c)
    <3>1. /\ UNCHANGED <<Queued, unload>> /\ lock # None
          /\ lock' = lock \/ lock' = None
      BY <2>4, RunsOrEnds, ConstantTypes
    <3>2. CASE lock' = lock
      BY <3>1, <3>2, SameStutters DEF UnloadSame
    <3>3. CASE lock' = None
      <4>1. Unload!End
        BY <3>1, <3>3 DEF Unload!End
      <4>2. QED
        BY <4>1
    <3>4. QED
      BY <3>1, <3>2, <3>3
  <2>5. QED
    BY <2>1, <2>2, <2>3, <2>4 DEF CommandStep
<1>6. QED
  BY <1>2, <1>3, <1>4, <1>5 DEF Next

(* async_prepare_unload lets nothing be issued once it began, and returns  *)
(* with nothing queued and nobody inside a transaction.                    *)
THEOREM CloudUnloadsSafely == Spec => Unload!Safe
<1>1. Init => Unload!Init /\ LockFits
  <2>1. Init => Queued = {} /\ lock = None /\ unload = "no"
    BY DEF Init, Idle, Queued
  <2>2. QED
    BY <2>1, FS_EmptySet DEF Unload!Init, LockFits
<1>2. IInv /\ LockFits /\ [Next]_vars => [Unload!Next]_Unload!unloadVars
  BY UnloadSteps
<1>3. QED
  BY <1>1, <1>2, LockKeeps, Invariance, PTL DEF Spec, Unload!Safe
=============================================================================
