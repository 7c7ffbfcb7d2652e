--------------------------- MODULE LocalCoordinator ---------------------------
(***************************************************************************)
(* local_coordinator.py on top of the report feed: what Home Assistant     *)
(* shows, the pending requests, the restart guard, the watchdog and unload.*)
(*                                                                         *)
(* The client call of the one command in flight is reduced to what module  *)
(* CommandContract promises: called, perhaps sent, then reported, rejected *)
(* or uncertain.  Whether a qualifying report began to arrive before the   *)
(* write is left open, LocalClient settles it.                             *)
(*                                                                         *)
(* Time is relative and counted in ticks much longer than the watchdog     *)
(* interval, so no tick passes while callbacks are queued or while the     *)
(* watchdog has an expired request to remove.  Measurements, the last      *)
(* automatic target and listeners are left out: no handler reads them.     *)
(***************************************************************************)
EXTENDS ReportFeed

CONSTANTS
  Requests,      \* what async_command may be asked for
  AllowPower,    \* option CONF_LOCAL_POWER
  SharedReads,   \* may two reports share one read
  MaxCalls,      \* bound: calls of async_command
  MaxAge,        \* STATUS_MAX_AGE in ticks
  CmdTimeout,    \* COMMAND_TIMEOUT_SECONDS
  MinOff,        \* MINIMUM_OFF_SECONDS
  PendingTime    \* PENDING_SECONDS

Keys == {"power", "humidity", "unit"}
Values == {"on", "off", "unknown", "h1", "h2", "celsius", "fahrenheit"}
Report == [opcode : Keys \cup {"event"}, power : Values, humidity : Values, unit : Values]
Request == [key : Keys, wanted : Values \ {"unknown"}]

ASSUME CoordinatorConstants ==
  /\ Reports \subseteq Report /\ Requests \subseteq Request
  /\ \A r \in Requests : r.key = "power" => r.wanted \in {"on", "off"}
  /\ AllowPower \in BOOLEAN /\ SharedReads \in BOOLEAN
  /\ MaxCalls \in Nat /\ MaxAge \in Nat
  /\ CmdTimeout \in Nat /\ MinOff \in Nat /\ PendingTime \in Nat
  /\ CmdTimeout < PendingTime

VARIABLES
  statusAge,  \* age of the client's last status
  view,       \* _session_id, _receive_sequence, _received_monotonic, _previous_on, data
  offAge,     \* time since _last_off, capped at MinOff
  pending,    \* pending: the request kept for each key and the time it has left
  last,       \* last_command
  waiting,    \* calls waiting for command_lock, first come first served
  flight,     \* the call that holds command_lock
  unload,     \* _closing and _finish_unload
  calls,      \* calls made
  running,    \* history: the appliance last reported on
  stopAge,    \* history: time since it was reported off after on, capped at MinOff
  restAge,    \* history: how long the view has shown off without a break, capped
              \*   at MinOff: one session, no disconnect, no OFF asked or confirmed
  doubt       \* history: per key the last uncertain request, its time left, and
              \*   whether another request for the key was issued since

coordVars == <<statusAge, view, offAge, pending, last, waiting, flight, unload, calls,
               running, stopAge, restAge, doubt>>
vars == <<feedVars, coordVars>>

Unheard == -1          \* _received_monotonic is None
Nothing == [wanted |-> "unknown", left |-> -1]
NoDoubt == [wanted |-> "unknown", left |-> -1, replaced |-> FALSE]
NoFlight == [stage |-> "none", request |-> [key |-> "power", wanted |-> "unknown"],
             session |-> 0, sequence |-> 0, reply |-> NoStatus, elapsed |-> 0]

Init ==
  /\ FeedInit
  /\ statusAge = 0
  /\ view = [session |-> 0, sequence |-> 0, age |-> Unheard, previous |-> "unknown",
             data |-> [k \in Keys |-> "unknown"], available |-> FALSE]
  /\ offAge = 0
  /\ pending = [k \in Keys |-> Nothing]
  /\ last = [key |-> "power", status |-> "none"]
  /\ waiting = <<>>
  /\ flight = NoFlight
  /\ unload = "no"
  /\ calls = 0
  /\ running = FALSE
  /\ stopAge = MinOff
  /\ restAge = 0
  /\ doubt = [k \in Keys |-> NoDoubt]

-----------------------------------------------------------------------------
Open == unload # "done"

StatusStale ==
  \/ unload # "no"
  \/ ~LinkConnected
  \/ link.status = NoStatus
  \/ link.status.session # view.session
  \/ view.age = Unheard \/ view.age > MaxAge

IsKept(k) == pending[k] # Nothing
IsPending(k) == IsKept(k) /\ pending[k].left > 0

(* restart_delay_remaining is not zero.                                    *)
RestartBlocked ==
  \/ IsPending("power") /\ pending["power"].wanted = "off"
  \/ ~(view.data["power"] = "on" /\ ~StatusStale) /\ offAge < MinOff

Power(s) == s.report.power

(* The first guard of _on_status.  A report overtaken in its own read by   *)
(* another one is left out.                                                *)
Admits(s) ==
  /\ unload = "no" /\ LinkConnected /\ link.status # NoStatus
  /\ link.status.session = s.session
  /\ view.session <= s.session
  /\ ~(link.status.sequence = s.sequence /\ link.status # s)

IsNewSession(s) == s.session # view.session
NeverOld(s) == FALSE  \* faulty variant
IsOld(s) == ~IsNewSession(s) /\ s.sequence < view.sequence

Previous(s) == IF IsNewSession(s) THEN "unknown" ELSE view.previous

(* _on_status(s): what is shown, and whether the off interval starts.      *)
ViewAfter(s) ==
  IF ~Admits(s) \/ IsOld(s) THEN view
  ELSE [session |-> s.session, sequence |-> s.sequence, age |-> statusAge,
        previous |-> Power(s), data |-> [k \in Keys |-> s.report[k]],
        available |-> statusAge <= MaxAge]

(* Faulty variant: only a stop that follows a report of on is counted.     *)
StopsAfterOnOnly(s) ==
  /\ Admits(s)
  /\ IsNewSession(s) \/ (~IsOld(s) /\ Power(s) = "off" /\ view.previous = "on")

StartsOffInterval(s) ==
  /\ Admits(s)
  /\ IsNewSession(s) \/ (~IsOld(s) /\ Power(s) = "off" /\ Previous(s) # "off")

(* How long off has been shown without a break once the view becomes v.    *)
RestAfter(v) ==
  IF v.data["power"] = "off" /\ v.session = view.session THEN restAge ELSE 0

-----------------------------------------------------------------------------
(* The feed with the coordinator's callbacks.                              *)

SameCoordinator == UNCHANGED coordVars

Accepted == Open /\ FeedAccept /\ SameCoordinator
Verified == Open /\ Verify /\ SameCoordinator
Closes == Open /\ LinkCloses /\ SameCoordinator
Ends == Open /\ LinkEnds /\ SameCoordinator
WriterLeaves(id) == Open /\ WriterGone(id) /\ SameCoordinator

(* Could s confirm the command in flight: same session, a later read, its  *)
(* opcode and its value.                                                   *)
Answers(s) ==
  /\ flight.stage = "sent" /\ flight.reply = NoStatus
  /\ s.session = flight.session /\ s.sequence > flight.sequence
  /\ s.report.opcode = flight.request.key
  /\ s.report[flight.request.key] = flight.request.wanted

Reported(r, sameRead) ==
  /\ Open /\ (sameRead => SharedReads)
  /\ FeedReport(r, sameRead)
  /\ statusAge' = 0
  /\ LET s == NextStatus(r, sameRead) IN
       \/ Answers(s) /\ flight' = [flight EXCEPT !.reply = s]
       \/ UNCHANGED flight
  /\ running' = (r.power = "on" \/ (running /\ r.power # "off"))
  /\ stopAge' = IF running /\ r.power = "off" THEN 0 ELSE stopAge
  /\ UNCHANGED <<view, offAge, restAge, pending, last, waiting, unload, calls, doubt>>

OnStatus ==
  /\ Open /\ Dispatch /\ Head(queue).kind = "status"
  /\ LET s == Head(queue).status IN
       /\ view' = ViewAfter(s)
       /\ offAge' = IF StartsOffInterval(s) THEN 0 ELSE offAge
       /\ restAge' = RestAfter(ViewAfter(s))
  /\ UNCHANGED <<statusAge, pending, last, waiting, flight, unload, calls,
                 running, stopAge, doubt>>

(* Faulty variant: the end of an older session counts for the current one. *)
OnAnyDisconnect ==
  /\ Open /\ Dispatch /\ Head(queue).kind = "disconnect"
  /\ unload = "no"
  /\ view' = [view EXCEPT !.age = Unheard, !.previous = "unknown", !.available = FALSE]
  /\ offAge' = 0 /\ restAge' = 0
  /\ UNCHANGED <<statusAge, pending, last, waiting, flight, unload, calls,
                 running, stopAge, doubt>>

OnDisconnect ==
  /\ Open /\ Dispatch /\ Head(queue).kind = "disconnect"
  /\ IF unload = "no" /\ view.session = Head(queue).session
     THEN /\ view' = [view EXCEPT !.age = Unheard, !.previous = "unknown",
                                  !.available = FALSE]
          /\ offAge' = 0 /\ restAge' = 0
     ELSE UNCHANGED <<view, offAge, restAge>>
  /\ UNCHANGED <<statusAge, pending, last, waiting, flight, unload, calls,
                 running, stopAge, doubt>>

-----------------------------------------------------------------------------
(* async_command and _async_command.                                       *)

Call(r) ==
  /\ ~busy /\ unload = "no" /\ calls < MaxCalls
  /\ calls' = calls + 1
  /\ waiting' = Append(waiting, r)
  /\ UNCHANGED <<feedVars, statusAge, view, offAge, pending, last, flight, unload,
                 running, stopAge, restAge, doubt>>

Starting(r) == r.key = "power" /\ r.wanted = "on"
Stopping(r) == r.key = "power" /\ r.wanted = "off"

(* Faulty variant: a duplicate is let through once the status is fresh.    *)
DuplicateUnlessFresh(r) ==
  IsPending(r.key) /\ pending[r.key].wanted = r.wanted /\ StatusStale

(* The same request is still pending: its delivery is uncertain.           *)
Duplicate(r) == IsPending(r.key) /\ pending[r.key].wanted = r.wanted

AlreadyShown(r) ==
  view.data[r.key] = r.wanted /\ ~IsKept(r.key) /\ ~StatusStale

(* Faulty variant: unload is not looked at behind the lock.                *)
AllowedDuringUnload(r) ==
  /\ LinkConnected
  /\ Starting(r) => AllowPower /\ view.data["power"] \in {"on", "off"}
  /\ ~Stopping(r) => ~StatusStale
  /\ r.key = "humidity" => view.data["power"] = "on"
  /\ ~Duplicate(r)
  /\ ~AlreadyShown(r)
  /\ Starting(r) => ~RestartBlocked

Allowed(r) ==
  /\ unload = "no" /\ LinkConnected
  /\ Starting(r) => AllowPower /\ view.data["power"] \in {"on", "off"}
  /\ ~Stopping(r) => ~StatusStale
  /\ r.key = "humidity" => view.data["power"] = "on"
  /\ ~Duplicate(r)
  /\ ~AlreadyShown(r)
  /\ Starting(r) => ~RestartBlocked

HasLock == ~busy /\ flight = NoFlight /\ waiting # <<>>

(* Faulty variant: calls behind the lock are left there by unload.         *)
RefuseWhileLoaded ==
  /\ HasLock /\ ~Allowed(Head(waiting)) /\ unload = "no"
  /\ waiting' = Tail(waiting)
  /\ UNCHANGED <<feedVars, statusAge, view, offAge, pending, last, flight, unload, calls,
                 running, stopAge, restAge, doubt>>

(* An error or, if the value is already shown, a silent return.            *)
Refuse ==
  /\ HasLock /\ ~Allowed(Head(waiting))
  /\ waiting' = Tail(waiting)
  /\ UNCHANGED <<feedVars, statusAge, view, offAge, pending, last, flight, unload, calls,
                 running, stopAge, restAge, doubt>>

(* The request is recorded as pending and handed to the client.            *)
Issue(r) ==
  /\ HasLock /\ r = Head(waiting) /\ Allowed(r)
  /\ waiting' = Tail(waiting)
  /\ pending' = [pending EXCEPT ![r.key] = [wanted |-> r.wanted, left |-> PendingTime]]
  /\ last' = [key |-> r.key, status |-> "awaiting_feedback"]
  /\ offAge' = IF Stopping(r) THEN 0 ELSE offAge
  /\ restAge' = IF Stopping(r) THEN 0 ELSE restAge
  /\ flight' = [NoFlight EXCEPT !.stage = "called", !.request = r, !.session = link.session]
  /\ doubt' = [doubt EXCEPT ![r.key].replaced = doubt[r.key] # NoDoubt]
  /\ UNCHANGED <<feedVars, statusAge, view, unload, calls, running, stopAge>>

(* The client writes the frame: the checks of LocalClient's SendWrite.     *)
ClientSends ==
  /\ ~busy /\ flight.stage = "called"
  /\ LinkConnected /\ link.session = flight.session
  /\ Stopping(flight.request) \/ (link.status # NoStatus /\ statusAge <= MaxAge)
  /\ flight.request.key = "humidity" => Power(link.status) = "on"
  /\ flight' = [flight EXCEPT !.stage = "sent", !.sequence = link.sequence]
  /\ UNCHANGED <<feedVars, statusAge, view, offAge, pending, last, waiting, unload, calls,
                 running, stopAge, restAge, doubt>>

Feedback(status) == last' = [last EXCEPT !.status = status]
Forget(k) == pending' = [pending EXCEPT ![k] = Nothing]

(* A LocalClientError: nothing was sent.                                   *)
Rejected ==
  /\ ~busy /\ flight.stage = "called"
  /\ Feedback("rejected") /\ Forget(flight.request.key)
  /\ flight' = NoFlight
  /\ UNCHANGED <<feedVars, statusAge, view, offAge, waiting, unload, calls,
                 running, stopAge, restAge, doubt>>

(* The client is uncertain, or the deadline of the whole call passed.      *)
InDoubt(p) == [wanted |-> p.wanted, left |-> p.left, replaced |-> FALSE]

IsUncertain ==
  \/ flight.stage = "sent"
  \/ flight.stage = "called" /\ flight.elapsed = CmdTimeout

(* Faulty variant: an uncertain request is forgotten.                      *)
UncertainForgotten ==
  /\ ~busy /\ IsUncertain
  /\ Feedback("delivery_uncertain") /\ Forget(flight.request.key)
  /\ doubt' = [doubt EXCEPT ![flight.request.key] = InDoubt(pending[flight.request.key])]
  /\ flight' = NoFlight
  /\ UNCHANGED <<feedVars, statusAge, view, offAge, waiting, unload, calls,
                 running, stopAge, restAge>>

Uncertain ==
  /\ ~busy /\ IsUncertain
  /\ Feedback("delivery_uncertain")
  /\ doubt' = [doubt EXCEPT ![flight.request.key] = InDoubt(pending[flight.request.key])]
  /\ flight' = NoFlight
  /\ UNCHANGED <<feedVars, statusAge, view, offAge, pending, waiting, unload, calls,
                 running, stopAge, restAge>>

(* The latest report came with or after the answer to ON and says off.     *)
StoppedSince(reply) ==
  /\ LinkConnected /\ link.status # NoStatus /\ link.status.session = reply.session
  /\ link.status.sequence >= reply.sequence
  /\ Power(link.status) = "off"

(* The client returned the confirming report.  The latest report is shown  *)
(* at once, ahead of those still queued before it.                         *)
Confirmed ==
  /\ ~busy /\ flight.stage = "sent" /\ flight.reply # NoStatus
  /\ Feedback("device_reported") /\ Forget(flight.request.key)
  /\ doubt' = [doubt EXCEPT ![flight.request.key] = NoDoubt]
  /\ offAge' = IF \/ Stopping(flight.request)
                  \/ Starting(flight.request) /\ StoppedSince(flight.reply)
                  \/ StartsOffInterval(link.status)
               THEN 0 ELSE offAge
  /\ view' = ViewAfter(link.status)
  /\ restAge' = IF Stopping(flight.request) THEN 0 ELSE RestAfter(ViewAfter(link.status))
  /\ flight' = NoFlight
  /\ UNCHANGED <<feedVars, statusAge, waiting, unload, calls, running, stopAge>>

-----------------------------------------------------------------------------
(* The watchdog, the clock and unload.                                     *)

Expired(k) == IsKept(k) /\ pending[k].left = 0

(* Faulty variants: requests expire only while the status is fresh, or     *)
(* staleness is left to the next poll.                                     *)
WatchdogWhileFresh ==
  /\ ~busy /\ Open /\ ~StatusStale
  /\ \E k \in Keys : Expired(k)
  /\ pending' = [k \in Keys |-> IF Expired(k) THEN Nothing ELSE pending[k]]
  /\ last' = IF Expired(last.key) THEN [last EXCEPT !.status = "not_observed"] ELSE last
  /\ UNCHANGED <<feedVars, statusAge, view, offAge, waiting, flight, unload, calls,
                 running, stopAge, restAge, doubt>>

WatchdogForPending ==
  /\ ~busy /\ Open
  /\ \E k \in Keys : Expired(k)
  /\ pending' = [k \in Keys |-> IF Expired(k) THEN Nothing ELSE pending[k]]
  /\ last' = IF Expired(last.key) THEN [last EXCEPT !.status = "not_observed"] ELSE last
  /\ UNCHANGED <<feedVars, statusAge, view, offAge, waiting, flight, unload, calls,
                 running, stopAge, restAge, doubt>>

Watchdog ==
  /\ ~busy /\ Open
  /\ (\E k \in Keys : Expired(k)) \/ (StatusStale /\ view.available)
  /\ pending' = [k \in Keys |-> IF Expired(k) THEN Nothing ELSE pending[k]]
  /\ last' = IF Expired(last.key) THEN [last EXCEPT !.status = "not_observed"] ELSE last
  /\ view' = [view EXCEPT !.available = @ /\ ~StatusStale]
  /\ UNCHANGED <<feedVars, statusAge, offAge, waiting, flight, unload, calls,
                 running, stopAge, restAge, doubt>>

Capped(age, cap) == IF age < cap THEN age + 1 ELSE cap
Less(p) == IF p.left > 0 THEN [p EXCEPT !.left = @ - 1] ELSE p

Tick ==
  /\ ~busy /\ Open /\ queue = <<>>
  /\ \A k \in Keys : ~Expired(k)
  /\ flight.stage # "none" => flight.elapsed < CmdTimeout
  /\ statusAge' = Capped(statusAge, MaxAge + 1)
  /\ view' = [view EXCEPT !.age = IF @ = Unheard THEN @ ELSE Capped(@, MaxAge + 1)]
  /\ offAge' = Capped(offAge, MinOff)
  /\ stopAge' = Capped(stopAge, MinOff)
  /\ restAge' = IF view.data["power"] = "off" THEN Capped(restAge, MinOff) ELSE 0
  /\ pending' = [k \in Keys |-> Less(pending[k])]
  /\ doubt' = [k \in Keys |-> IF doubt[k].left > 1 THEN Less(doubt[k]) ELSE NoDoubt]
  /\ flight' = IF flight.stage = "none" THEN flight
               ELSE [flight EXCEPT !.elapsed = @ + 1]
  /\ UNCHANGED <<feedVars, last, waiting, unload, calls, running>>

UnloadRequested ==
  /\ ~busy /\ unload = "no"
  /\ unload' = "draining"
  /\ UNCHANGED <<feedVars, statusAge, view, offAge, pending, last, waiting, flight, calls,
                 running, stopAge, restAge, doubt>>

(* _finish_unload once the submitted commands are over: the watchdog is    *)
(* stopped and the client closed.                                          *)
UnloadFinishes ==
  /\ ~busy /\ unload = "draining"
  /\ flight = NoFlight /\ waiting = <<>>
  /\ unload' = "done"
  /\ link' = NoLink /\ leaving' = {} /\ queue' = <<>>
  /\ view' = [view EXCEPT !.available = FALSE]
  /\ UNCHANGED <<counter, busy, statusAge, offAge, pending, last, waiting, flight, calls,
                 running, stopAge, restAge, doubt>>

-----------------------------------------------------------------------------
FeedStep ==
  \/ Accepted \/ Verified \/ Closes \/ Ends
  \/ \E id \in leaving : WriterLeaves(id)
  \/ \E r \in Reports, sameRead \in BOOLEAN : Reported(r, sameRead)

CallbackStep == OnStatus \/ OnDisconnect

CommandStep ==
  \/ \E r \in Requests : Issue(r)
  \/ Refuse \/ ClientSends \/ Rejected \/ Uncertain \/ Confirmed

Next ==
  \/ FeedStep \/ CallbackStep \/ CommandStep
  \/ \E r \in Requests : Call(r)
  \/ Watchdog \/ Tick
  \/ UnloadRequested \/ UnloadFinishes

(* The loop runs what is ready; the client bounds every call, so a command *)
(* in flight ends; the watchdog wakes every second and time passes.        *)
Fairness ==
  /\ WF_vars(CallbackStep)
  /\ WF_vars(Refuse \/ \E r \in Requests : Issue(r))
  /\ WF_vars(Rejected \/ Uncertain \/ Confirmed)
  /\ WF_vars(Watchdog) /\ WF_vars(Tick)
  /\ WF_vars(UnloadFinishes)

Spec == Init /\ [][Next]_vars
FairSpec == Spec /\ Fairness

-----------------------------------------------------------------------------
(* Properties.                                                             *)

(* Once the callbacks have run, what is shown is the client's latest       *)
(* report, and its age: reports handled out of order by Confirmed, ones    *)
(* that shared a read, and late disconnects of older sessions lose nothing.*)
ShownIsLatest ==
  queue = <<>> /\ unload = "no" /\ LinkConnected /\ link.status # NoStatus =>
    /\ view.session = link.status.session
    /\ view.sequence = link.status.sequence
    /\ view.data = [k \in Keys |-> link.status.report[k]]
    /\ view.age = statusAge

(* The command feedback agrees with the request kept for its key: kept     *)
(* while it awaits feedback or is uncertain, and only then.                *)
FeedbackMatchesPending ==
  /\ last.status = "awaiting_feedback" <=> flight # NoFlight
  /\ flight # NoFlight => last.key = flight.request.key
                          /\ pending[last.key].wanted = flight.request.wanted
  /\ last.status # "none" =>
       (IsKept(last.key) <=> last.status \in {"awaiting_feedback", "delivery_uncertain"})

IsIssued(r) == flight = NoFlight /\ flight'.stage = "called" /\ flight'.request = r

(* An uncertain request is not repeated before its window ends, counted    *)
(* from the first time: duplicates neither pass nor extend it.  A request  *)
(* with another value in between ends the promise: it takes the place of   *)
(* the first, and nothing is kept once it is rejected as not sent.         *)
NoRepeatInDoubt ==
  [][\A r \in Requests :
       IsIssued(r) /\ ~doubt[r.key].replaced => doubt[r.key].wanted # r.wanted]_vars

(* The appliance is asked to start only if it is shown on, or has been      *)
(* shown off without a break for the whole off interval: on one session    *)
(* that did not end, with no OFF asked of it or confirmed meanwhile.  It   *)
(* is not asked to start at all while an OFF may still be on its way.      *)
RestRestart ==
  [][\A r \in Requests :
       IsIssued(r) /\ Starting(r) =>
         /\ doubt["power"].wanted # "off"
         /\ view.data["power"] = "on" \/ restAge = MinOff]_vars

(* docs/PROTOCOL.md: at least the minimum off interval lies between a stop *)
(* the appliance reported and a start that is sent to it.                  *)
OffIntervalKept ==
  [][ClientSends /\ Starting(flight.request) => stopAge = MinOff]_vars

(* The view never goes back to an older session or an earlier read.        *)
ViewMovesForward ==
  [][\/ view'.session > view.session
     \/ view'.session = view.session /\ view'.sequence >= view.sequence]_vars

(* async_prepare_unload as the entry sees it: nothing is issued once it    *)
(* began, the calls behind the lock included, it waits for what is in      *)
(* flight, and it returns although no report may ever arrive.              *)
Unload == INSTANCE UnloadContract WITH
  phase <- CASE unload = "no" -> "open"
             [] unload = "draining" -> "closing"
             [] unload = "done" -> "drained",
  queued <- Len(waiting),
  sending <- flight # NoFlight

ImplementsUnload == Unload!Spec

(* The same without the promise that it returns.                           *)
UnloadIsSafe == Unload!Safe

(* A kept request is dropped in the end, and a stale view is not shown as  *)
(* available for ever.                                                     *)
PendingEnds == \A k \in Keys : IsKept(k) ~> ~IsKept(k) \/ unload = "done"

StaleIsShown ==
  view.available /\ StatusStale ~> ~view.available \/ ~StatusStale
=============================================================================
