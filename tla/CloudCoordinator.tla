--------------------------- MODULE CloudCoordinator ---------------------------
(***************************************************************************)
(* The cloud transport's coordinator, coordinator.py: it polls what the    *)
(* vendor's cloud holds, serializes commands, keeps a request until a      *)
(* sample answers it, and never shows a change it has not read.            *)
(*                                                                         *)
(* The cloud and the appliance are external: a sample appears with the     *)
(* second it was taken in, a poll reads the one there is at that moment    *)
(* and hands it over later, or fails.  Polls come from the timer of Home   *)
(* Assistant's DataUpdateCoordinator and from async_request_refresh, one   *)
(* at a time: a requested refresh does not wait for one under way, so the  *)
(* commands' refreshes may end at any moment.                              *)
(*                                                                         *)
(* Time is a clock in ticks up to MaxTime.  A command may end at any time  *)
(* before its deadline and the clock does not pass a deadline that is due. *)
(* The vendor's clock, which stamps the samples, is some ticks ahead of or *)
(* behind the one of Home Assistant; nobody sets either while this runs.   *)
(* The request's action name, the acknowledged flag and the measurements   *)
(* other than power and target are left out.                               *)
(***************************************************************************)
EXTENDS Integers, FiniteSets

CONSTANTS
  Commands,     \* identities of command tasks
  Requests,     \* what callers may ask for
  Contents,     \* what samples may say
  MinOff,       \* MINIMUM_OFF_SECONDS in ticks
  PendingTime,  \* PENDING_SECONDS in ticks
  CommandTime,  \* COMMAND_TIMEOUT_SECONDS in ticks
  MaxAge,       \* the 300 seconds of status_stale in ticks
  Ahead,        \* its 60 seconds in ticks
  Skews,        \* by how much the vendor's clock may be ahead
  MaxTime,      \* bound: where the clock stops
  None          \* no command, no sample, no request, no time

Keys == {"power", "target"}
Values == {"off", "on", "reached", "unknown", "t1", "t2"}
Content == [power : Values, target : Values, faulty : BOOLEAN, stamped : BOOLEAN]

(* key is "none" for an experimental write, which has no status field.     *)
Request == [key : Keys \cup {"none"}, wanted : Values, requiresOn : BOOLEAN]
NoRequest == [key |-> "none", wanted |-> "unknown", requiresOn |-> FALSE]

(* by is the command that waits for it, baseline the time of the sample    *)
(* shown when it was issued.                                               *)
PendingCommand == [by : Commands, wanted : Values, deadline : Nat, issued : Nat,
                   baseline : Int \cup {None}]

ASSUME ConstantsOK ==
  /\ None \notin Commands \cup Nat \cup PendingCommand
  /\ IsFiniteSet(Commands)
  /\ Requests \subseteq Request
  /\ \A r \in Requests : r.key = "power" => r.wanted \in {"off", "on"}
  /\ Contents \subseteq Content
  /\ MinOff \in Nat /\ PendingTime \in Nat /\ CommandTime \in Nat
  /\ MinOff <= PendingTime
  /\ MaxAge \in Nat /\ Ahead \in Nat /\ MaxTime \in Nat
  /\ Skews \subseteq Int

VARIABLES
  now,       \* the clock of Home Assistant
  skew,      \* by how much the vendor's is ahead of it (external)
  held,      \* the sample the cloud holds (external)
  poll,      \* what the poll under way has read
  data,      \* coordinator.data
  success,   \* last_update_success
  lastOff,   \* _last_off
  pending,   \* pending: a PendingCommand or None for each key
  feedback,  \* last_command: whose it is and its status
  lock,      \* command_lock: its holder
  task,      \* the command tasks
  unload,    \* _closing and the end of async_prepare_unload
  stopSeen   \* history: when the view last went from on to off

vars == <<now, skew, held, poll, data, success, lastOff, pending, feedback, lock, task,
          unload, stopSeen>>

Idle == [pc |-> "idle", request |-> NoRequest, issued |-> None, outcome |-> "none",
         reported |-> FALSE]

Powered(s) == s.content.power \in {"on", "reached"}

(* The first refresh of the entry has succeeded.                           *)
Init ==
  /\ now = 0 /\ skew \in Skews
  /\ \E c \in Contents :
       /\ c.power # "unknown"
       /\ data = [content |-> c, time |-> skew, after |-> {}]
  /\ held = data
  /\ poll = None
  /\ success = TRUE
  /\ lastOff = 0
  /\ pending = [k \in Keys |-> None]
  /\ feedback = [by |-> None, status |-> "none"]
  /\ lock = None
  /\ task = [c \in Commands |-> Idle]
  /\ unload = "no"
  /\ stopSeen = None

-----------------------------------------------------------------------------
(* What the handlers read.                                                 *)

StatusStale ==
  \/ ~data.content.stamped
  \/ now - data.time < -Ahead
  \/ now - data.time > MaxAge

IsPending(k) == pending[k] # None /\ pending[k].deadline > now

PendingOff == IsPending("power") /\ pending["power"].wanted = "off"

(* Faulty variant: an OFF that no sample has shown yet does not count.     *)
RestartBlockedAfterStop == ~Powered(data) /\ now - lastOff < MinOff

(* restart_delay_remaining is not zero.                                    *)
RestartBlocked == PendingOff \/ (~Powered(data) /\ now - lastOff < MinOff)

Starts(r) == r.key = "power" /\ r.wanted = "on"
Stops(r) == r.key = "power" /\ r.wanted = "off"

Duplicate(r) ==
  r.key \in Keys /\ IsPending(r.key) /\ pending[r.key].wanted = r.wanted

AlreadyShown(r) ==
  /\ r.key \in Keys /\ pending[r.key] = None
  /\ data.content[r.key] = r.wanted \/ (Starts(r) /\ Powered(data))

Usable == unload = "no" /\ success /\ ~StatusStale

Ignored(r) == Usable /\ (Duplicate(r) \/ AlreadyShown(r))

Admitted(r) ==
  /\ Usable /\ ~Ignored(r)
  /\ Starts(r) => ~RestartBlocked
  /\ r.requiresOn => Powered(data)
  /\ (r.key \in Keys /\ ~Stops(r)) => ~data.content.faulty

-----------------------------------------------------------------------------
(* The cloud (external) and the polls, _async_update_data.                 *)

(* At most one sample in a tick, before or after what the tick issues: its *)
(* history field after holds the commands issued before it was taken.      *)
NewSample ==
  /\ now + skew > held.time
  /\ \E c \in Contents :
       held' = [content |-> c, time |-> now + skew,
                after |-> {d \in Commands : task[d].issued # None}]
  /\ UNCHANGED <<now, skew, poll, data, success, lastOff, pending, feedback, lock, task,
                 unload, stopSeen>>

(* The request reads what the cloud holds; the answer is still under way.  *)
PollReads ==
  /\ poll = None
  /\ poll' = held
  /\ UNCHANGED <<now, skew, held, data, success, lastOff, pending, feedback, lock, task,
                 unload, stopSeen>>

(* A failed request, an expired login or a power status without meaning.   *)
PollFails ==
  /\ poll # None
  /\ poll' = None
  /\ success' = FALSE
  /\ UNCHANGED <<now, skew, held, data, lastOff, pending, feedback, lock, task, unload,
                 stopSeen>>

(* Faulty variant: a sample not seen before is new enough.                 *)
AnswersUnlessSeen(k, s) ==
  /\ pending[k] # None
  /\ \/ s.content[k] = pending[k].wanted
     \/ k = "power" /\ pending[k].wanted = "on" /\ Powered(s)
  /\ s.content.stamped
  /\ pending[k].baseline = None \/ s.time > pending[k].baseline

(* matches and newer.  The time of a sample is in whole seconds and the    *)
(* time of a request is not: a sample of the same second is the older one. *)
Answers(k, s) ==
  /\ pending[k] # None
  /\ \/ s.content[k] = pending[k].wanted
     \/ k = "power" /\ pending[k].wanted = "on" /\ Powered(s)
  /\ s.content.stamped
  /\ s.time > pending[k].issued
  /\ pending[k].baseline = None \/ s.time > pending[k].baseline

Lapses(k, s) == pending[k] # None /\ ~Answers(k, s) /\ now >= pending[k].deadline

Closes(k, s) == Answers(k, s) \/ Lapses(k, s)

(* The poll's sample becomes the view.                                     *)
Apply(s) ==
  LET stop == ~Powered(s) /\ Powered(data)
      lastIs(k) == pending[k] # None /\ pending[k].by = feedback.by IN
  /\ s.content.power # "unknown"
  /\ data' = [s EXCEPT !.after = {}] /\ success' = TRUE
  /\ lastOff' = IF \/ stop
                   \/ Answers("power", s) /\ pending["power"].wanted = "off"
                THEN now ELSE lastOff
  /\ stopSeen' = IF stop THEN now ELSE stopSeen
  /\ pending' = [k \in Keys |-> IF Closes(k, s) THEN None ELSE pending[k]]
  /\ feedback' = [feedback EXCEPT !.status =
       IF \E k \in Keys : lastIs(k) /\ Answers(k, s) THEN "device_reported"
       ELSE IF \E k \in Keys : lastIs(k) /\ Lapses(k, s) THEN "not_observed"
       ELSE @]
  /\ task' = [c \in Commands |->
       IF \E k \in Keys : Answers(k, s) /\ pending[k].by = c
       THEN [task[c] EXCEPT !.reported = TRUE] ELSE task[c]]

PollApplies ==
  /\ poll # None /\ Apply(poll)
  /\ poll' = None
  /\ UNCHANGED <<now, skew, held, lock, unload>>

-----------------------------------------------------------------------------
(* Commands: async_command and async_experimental_action make a task, the  *)
(* task takes command_lock and runs the transaction.                       *)

Call(c, r) ==
  /\ unload = "no" /\ task[c].pc = "idle"
  /\ task' = [task EXCEPT ![c].pc = "queued", ![c].request = r]
  /\ UNCHANGED <<now, skew, held, poll, data, success, lastOff, pending, feedback, lock,
                 unload, stopSeen>>

HasLock(c) == task[c].pc = "queued" /\ lock = None

(* Nothing is sent: the request is refused, or ignored as a repetition.    *)
Decline(c) ==
  /\ HasLock(c) /\ ~Admitted(task[c].request)
  /\ task' = [task EXCEPT ![c].pc = "done",
                ![c].outcome = IF Ignored(task[c].request) THEN "ignored" ELSE "refused"]
  /\ UNCHANGED <<now, skew, held, poll, data, success, lastOff, pending, feedback, lock,
                 unload, stopSeen>>

(* The intent is recorded before the request goes out.                     *)
Issue(c) ==
  LET r == task[c].request IN
  /\ HasLock(c) /\ r.key \in Keys /\ Admitted(r)
  /\ lock' = c
  /\ task' = [task EXCEPT ![c].pc = "sending", ![c].issued = now]
  /\ feedback' = [by |-> c, status |-> "awaiting_feedback"]
  /\ pending' = [pending EXCEPT ![r.key] =
       [by |-> c, wanted |-> r.wanted, deadline |-> now + PendingTime, issued |-> now,
        baseline |-> IF data.content.stamped THEN data.time ELSE None]]
  /\ lastOff' = IF Stops(r) THEN now ELSE lastOff
  /\ UNCHANGED <<now, skew, held, poll, data, success, unload, stopSeen>>

(* An experimental write leaves nothing pending.                           *)
IssueWrite(c) ==
  /\ HasLock(c) /\ task[c].request.key = "none" /\ Admitted(task[c].request)
  /\ lock' = c
  /\ task' = [task EXCEPT ![c].pc = "sending", ![c].issued = now]
  /\ feedback' = [by |-> c, status |-> "awaiting_response"]
  /\ UNCHANGED <<now, skew, held, poll, data, success, lastOff, pending, unload, stopSeen>>

(* The task ends with outcome o and lets the lock go.                      *)
Finish(c, o) ==
  /\ task' = [task EXCEPT ![c].pc = "done", ![c].outcome = o]
  /\ lock' = None

(* The answer to the request, of a device command or an experimental write.*)
Sending(c) == task[c].pc = "sending" /\ task[c].request.key \in Keys
Writing(c) == task[c].pc = "sending" /\ task[c].request.key = "none"

(* The refresh that follows is awaited, the lock is held on.               *)
Refreshes(c, o) ==
  /\ task' = [task EXCEPT ![c].pc = "refreshing", ![c].outcome = o]
  /\ UNCHANGED lock

(* The cloud takes the command: that is no feedback of the appliance.      *)
Acknowledged(c) ==
  /\ Sending(c) /\ Refreshes(c, "ok")
  /\ UNCHANGED <<now, skew, held, poll, data, success, lastOff, pending, feedback, unload,
                 stopSeen>>

WriteAcknowledged(c) ==
  /\ Writing(c) /\ Refreshes(c, "ok")
  /\ feedback' = [feedback EXCEPT !.status = "cloud_acknowledged"]
  /\ UNCHANGED <<now, skew, held, poll, data, success, lastOff, pending, unload, stopSeen>>

(* Faulty variant: what may have been delivered is forgotten.              *)
UncertainForgotten(c) ==
  /\ Sending(c) /\ Refreshes(c, "uncertain")
  /\ feedback' = [feedback EXCEPT !.status = "delivery_uncertain"]
  /\ pending' = [pending EXCEPT ![task[c].request.key] = None]
  /\ UNCHANGED <<now, skew, held, poll, data, success, lastOff, unload, stopSeen>>

(* The connection fails or the answer says nothing: the intent is kept.    *)
Uncertain(c) ==
  /\ Sending(c) /\ Refreshes(c, "uncertain")
  /\ feedback' = [feedback EXCEPT !.status = "delivery_uncertain"]
  /\ UNCHANGED <<now, skew, held, poll, data, success, lastOff, pending, unload, stopSeen>>

(* Faulty variant: a rejected request stays pending.                       *)
RejectedKept(c) ==
  /\ Sending(c) /\ Finish(c, "rejected")
  /\ feedback' = [feedback EXCEPT !.status = "rejected"]
  /\ UNCHANGED <<now, skew, held, poll, data, success, lastOff, pending, unload, stopSeen>>

(* The cloud, the login or the identity check turns the command down.      *)
Rejected(c) ==
  /\ Sending(c) /\ Finish(c, "rejected")
  /\ feedback' = [feedback EXCEPT !.status = "rejected"]
  /\ pending' = [pending EXCEPT ![task[c].request.key] = None]
  /\ UNCHANGED <<now, skew, held, poll, data, success, lastOff, unload, stopSeen>>

WriteFails(c) ==
  /\ Writing(c)
  /\ \/ Finish(c, "uncertain") /\ feedback' = [feedback EXCEPT !.status = "delivery_uncertain"]
     \/ Finish(c, "rejected") /\ feedback' = [feedback EXCEPT !.status = "rejected"]
  /\ UNCHANGED <<now, skew, held, poll, data, success, lastOff, pending, unload, stopSeen>>

Refreshed(c) ==
  /\ task[c].pc = "refreshing"
  /\ Finish(c, task[c].outcome)
  /\ UNCHANGED <<now, skew, held, poll, data, success, lastOff, pending, feedback, unload,
                 stopSeen>>

Running(c) == task[c].pc \in {"sending", "refreshing"}

(* Every deadline counts as due where the clock stops.                     *)
Due(c) == Running(c) /\ (now - task[c].issued >= CommandTime \/ now = MaxTime)

(* Faulty variant: only the request is bounded, not the refresh after it.  *)
DeadlineInRequest(c) ==
  /\ Due(c) /\ task[c].pc = "sending"
  /\ feedback' = [feedback EXCEPT !.status = "delivery_uncertain"]
  /\ Finish(c, "uncertain")
  /\ UNCHANGED <<now, skew, held, poll, data, success, lastOff, pending, unload, stopSeen>>

(* The deadline of the whole transaction, the refresh included.            *)
Deadline(c) ==
  /\ Due(c)
  /\ feedback' = [feedback EXCEPT !.status = "delivery_uncertain"]
  /\ Finish(c, "uncertain")
  /\ UNCHANGED <<now, skew, held, poll, data, success, lastOff, pending, unload, stopSeen>>

-----------------------------------------------------------------------------
(* Unload, and time.                                                       *)

UnloadRequested ==
  /\ unload = "no"
  /\ unload' = "closing"
  /\ UNCHANGED <<now, skew, held, poll, data, success, lastOff, pending, feedback, lock, task,
                 stopSeen>>

UnloadFinishes ==
  /\ unload = "closing"
  /\ \A c \in Commands : task[c].pc \in {"idle", "done"}
  /\ unload' = "done"
  /\ UNCHANGED <<now, skew, held, poll, data, success, lastOff, pending, feedback, lock, task,
                 stopSeen>>

Tick ==
  /\ now < MaxTime
  /\ \A c \in Commands : ~Due(c)
  /\ now' = now + 1
  /\ UNCHANGED <<skew, held, poll, data, success, lastOff, pending, feedback, lock, task,
                 unload, stopSeen>>

-----------------------------------------------------------------------------
CommandStep(c) ==
  \/ Decline(c) \/ Issue(c) \/ Acknowledged(c) \/ Uncertain(c) \/ Rejected(c)
  \/ IssueWrite(c) \/ WriteAcknowledged(c) \/ WriteFails(c)
  \/ Refreshed(c) \/ Deadline(c)

Next ==
  \/ NewSample \/ Tick \/ UnloadRequested \/ UnloadFinishes
  \/ PollReads \/ PollFails \/ PollApplies
  \/ \E c \in Commands : CommandStep(c) \/ \E r \in Requests : Call(c, r)

(* Tasks that hold the lock or are handed it go on, timers fire, and async *)
(* unload goes on when its tasks are done.  No poll need ever succeed.     *)
Fairness ==
  /\ WF_vars(Tick) /\ WF_vars(UnloadFinishes)
  /\ \A c \in Commands : WF_vars(Decline(c) \/ Issue(c) \/ IssueWrite(c)) /\ WF_vars(Deadline(c))

Spec == Init /\ [][Next]_vars
FairSpec == Spec /\ Fairness

-----------------------------------------------------------------------------
(* Properties.                                                             *)

(* A request counts as reported only on a sample that says what it wanted  *)
(* and was taken after it was issued, although a poll that read the cloud  *)
(* before it may be handed over after it (newer in _async_update_data).    *)
(* A vendor's clock that is ahead spoils this by no more than its lead.    *)
ReportedByLaterSample ==
  [][\A c \in Commands : (~task[c].reported /\ task'[c].reported) =>
       LET r == task[c].request IN
       /\ poll.content[r.key] = r.wanted \/ (Starts(r) /\ Powered(poll))
       /\ IF skew > 0 THEN poll.time - skew > task[c].issued - skew
                      ELSE c \in poll.after]_vars

(* Last command and the pending request tell the same story: a command     *)
(* that awaits its feedback is pending, a pending one is awaited or        *)
(* uncertain, and reported means that a sample showed it.                  *)
FeedbackMatchesPending ==
  LET c == feedback.by IN
  /\ feedback.status = "awaiting_feedback" =>
       \E k \in Keys : pending[k] # None /\ pending[k].by = c
  /\ \A k \in Keys : (pending[k] # None /\ pending[k].by = c) =>
       feedback.status \in {"awaiting_feedback", "delivery_uncertain"}
  /\ feedback.status = "device_reported" => task[c].reported
  /\ feedback.status = "not_observed" => ~task[c].reported

Issues(c) == task[c].issued = None /\ task'[c].issued # None

(* ON is issued only after the off interval: since the view last went off, *)
(* and since any OFF of ours that may have reached the appliance, however  *)
(* samples, errors and expired requests came in between.                   *)
RestRestart ==
  [][\A c \in Commands : (Issues(c) /\ Starts(task[c].request)) =>
       /\ (stopSeen # None /\ ~Powered(data)) => now - stopSeen >= MinOff
       /\ \A d \in Commands :
            (/\ task[d].issued # None /\ Stops(task[d].request)
             /\ task[d].outcome # "rejected")
            => now - task[d].issued >= MinOff]_vars

(* What may already have been delivered is not sent again within its       *)
(* window, unless a sample showed it or another value was asked for since. *)
NoRepeatInDoubt ==
  [][\A c, d \in Commands :
       (/\ Issues(c) /\ task[d].issued # None
        /\ task[d].outcome \in {"ok", "uncertain"} /\ ~task[d].reported
        /\ task[c].request.key \in Keys
        /\ task[d].request = task[c].request
        /\ now < task[d].issued + PendingTime)
       => \E e \in Commands :
            /\ task[e].issued # None /\ task[e].issued >= task[d].issued
            /\ task[e].request.key = task[c].request.key
            /\ task[e].request.wanted # task[c].request.wanted]_vars

Queued == {c \in Commands : task[c].pc = "queued"}

(* async_prepare_unload as the entry sees it: nothing is issued once it    *)
(* began, the calls behind the lock included, it waits for what is in      *)
(* flight, refresh included, and it returns although the cloud may never   *)
(* answer.                                                                 *)
Unload == INSTANCE UnloadContract WITH
  phase <- CASE unload = "no" -> "open"
             [] unload = "closing" -> "closing"
             [] unload = "done" -> "drained",
  queued <- Cardinality(Queued),
  sending <- lock # None

ImplementsUnload == Unload!Spec
=============================================================================
