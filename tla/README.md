# TLA+ for ALORAIR-Lite

A verification project for the Home Assistant integration in
`custom_components/alorair_lite`. It models the parts of the program that keep
state across awaits: the inbound TCP client of the local transport, the queue
between it and Home Assistant, the two coordinators, the account session of the
cloud client with the device directory on top of it, and the life of config
entries with the flows that store them. TLC checks them on small instances,
TLAPS proves the safety properties for every value of the constants. Line
numbers are those of the source files next to this directory; `PROJECT.json`
maps every definition to its lines.

## 1. The system

The integration controls one dehumidifier per config entry, over one of two
transports. Everything runs on one asyncio loop: code between two awaits is
atomic, and every await is a place where another task may run.

| part | state it keeps | operations | hard behaviour |
|---|---|---|---|
| local client, `local_client.py` | the one session with its reader, bytes read and frame parser; last status; two locks; time of the last frame sent; the `_Pending` of the command under way | accept, read, answer heartbeats, set power / humidity / unit, close | two tasks write to one socket; a report confirms a command only if it came after it; every wait has a timeout and every task may be cancelled |
| report feed, same file | a bounded queue of callbacks, the dispatcher | enqueue, overflow, dispatch | the disconnect of a session is queued late, reports of the next one may overtake it |
| local frame codec, `local_protocol.py` | the undecoded rest of the stream | split, decode, encode | a stream cut anywhere |
| local coordinator, `local_coordinator.py` | what is shown, last stop, pending requests, last command, tasks | report and disconnect callbacks, command, watchdog, unload | reports, the confirmation and the watchdog arrive in any order; restart protection |
| cloud coordinator, `coordinator.py` | sample shown, last stop, pending requests, last command, tasks | poll, command, experimental write, unload | polls and requests overlap; a sample may be older than the request it seems to answer |
| cloud session, `api.py` | token, account id, login generation and failure, three locks | login, renewal, status, command, rename | many calls share one token that dies at any time; a POST is never repeated |
| device directory, same file | the id kept for the MAC | list the pages, keep the id, read and check the detail | records change between two requests, pages of one list included; a login clears what another call is just filling |
| field interpretation, `models.py` | none | parse vendor fields | absent and malformed values |
| entry lifecycle, `__init__.py` | the running coordinator | setup, rollback, unload, stop | setups fail half way; unload survives the cancellation of its caller |
| flows, `config_flow.py` | what Home Assistant stores of an entry | forms for cloud, local, reauthentication, options | a login is awaited in the middle of a flow; a form may outlive the transport it was shown for |
| entities, service, diagnostics | the automatic target restored by the humidifier | read the coordinators and call them | none beyond those of the callees |

How they interact: entities and the service call `async_command` (or
`async_experimental_action`) of a coordinator, which makes a task and shields
it. The local coordinator awaits the local client, and is called back by it
through the feed. The cloud coordinator polls and commands through the cloud
client, whose calls share the session and the directory. Setup and unload (from
`__init__.py`) make a coordinator and wait for its tasks; flows replace what is
stored and have the entry reloaded.

What makes each part correct:

* *local client*: a caller's result agrees with the wire; success rests on a
  report that came after the command; conditions checked before a wait still
  hold when the bytes go out; frames are spaced; no lock leaks; no command
  outlives its session; close silences everything and ends.
* *feed*: no disconnect is lost or moved ahead of the reports of its session; a
  connection that is still up has its latest report delivered.
* *coordinators*: what is shown is the latest; a stopped compressor rests; what
  may have been delivered is not sent again; last command and pending requests
  agree; only a later sample counts as feedback; unload lets nothing further
  out and ends.
* *cloud session*: one login serves everyone who needs it, and so does its
  failure; a POST has a token; an error that is not marked as of unknown
  outcome means that nothing was done; every call ends.
* *directory*: a POST concerns an id that has been shown, to the same call, to be
  the appliance of the account; an appliance on some page is found, an ambiguous
  one is not used.
* *entries*: one coordinator at a time, none left behind; no permission or
  credential carried from one connection to another; two entries never share a
  listener; what is stored comes into force.

## 2. The modules

| module | models | extended or used by |
|---|---|---|
| `LocalClient` | `local_client.py`: listener, reader, commands, close | `MC_LocalClient`, `LocalClient_proofs` |
| `CommandContract` | what the client promises of its commands, abstractly | `LocalClient` (refinement) |
| `ReportFeed` | the callback queue | `LocalCoordinator`, `FeedWatch`, `ReportFeed_proofs` |
| `FeedWatch` | no code: the feed with two observers of what the dispatcher hands over | `MC_ReportFeed`, `FeedWatch_proofs` |
| `LocalCoordinator` | `local_coordinator.py`, composed with the feed | `MC_LocalCoordinator`, `LocalCoordinator_proofs` |
| `CloudCoordinator` | `coordinator.py`, with the cloud and the appliance behind it | `MC_CloudCoordinator`, `CloudCoordinator_proofs` |
| `UnloadContract` | what `async_prepare_unload` promises, abstractly | both coordinators (refinement), `EntryLifecycle` (as its coordinators) |
| `CloudSession` | the session of `api.py`, with the cloud behind it | `CloudDirectory`, `MC_CloudSession`, `CloudSession_proofs` |
| `CloudDirectory` | the paged list, the id kept, the ownership check, composed with the session | `MC_CloudDirectory`, `CloudDirectory_proofs` |
| `EntryLifecycle` | `__init__.py` and `config_flow.py`, over abstract coordinators | `MC_EntryLifecycle`, `EntryLifecycle_proofs` |
| `LocalClient_proofs`, `ReportFeed_proofs`, `FeedWatch_proofs`, `LocalCoordinator_proofs`, `CloudCoordinator_proofs`, `CloudSession_proofs`, `CloudDirectory_proofs`, `EntryLifecycle_proofs` | theorems | `LocalCoordinator_proofs` and `FeedWatch_proofs` build on `ReportFeed_proofs`, `CloudDirectory_proofs` on `CloudSession_proofs` |

Two abstract modules tie the rest together. `CommandContract` stands between the
client and the local coordinator, `UnloadContract` between the coordinators and
the entries: each is what the lower part is shown to implement, and what the
upper part takes it for.

An operator marked "faulty variant" is a plausible mistake. No specification
uses it: each is the mutant of one property in `PROJECT.json`, put in the place
of the operator it varies to see the property fail.

### LocalClient

One action is the code between two awaits. The reader handles all frames of a
chunk without yielding, unless it answers a heartbeat, so while `conn.reader`
is `"work"` nothing else is enabled (`LoopIsFree`).

| code | model |
|---|---|
| `_session`, its reader task, `_CountingReader` | `conn`; `total`, `received`, `buffered` count what came, what was read, what the parser still holds |
| `_read_session` | `Read`, `ReadBad`, `ReaderStops`, then per frame `OnStatus`, `OnHeartbeat`, `OnOther`, `OnGarbled`; the answer to a heartbeat is `ReplyWrite`, `ReplyDrained`, `ReplyFails`; the `finally` is `EndReader` |
| `_command`, `_execute_command` | `Submit`, `Start`, `AcquireCommandLock`, `RefusedUnderLock`, `LockTimeout`; the awaited future is `AwaitResolved`, `AwaitTimeout` |
| `_send` | `SendRefused`, `SendPaced` (the sleep), `SleepEnds`, `SendWrite`, `SendDrained`, `SendTimeout` |
| cancellation of a caller and its task | `Cancel`, `CancelDelivered` |
| `async_close`, `_cleanup` | `CloseRequested`, `CleanupStarts`, `CleanupEnds` |

A frame is two units of the byte stream, so that a chunk may end inside a frame
and a frame may begin before a command and end after it, which is what the
boundary test at `local_client.py:321-338` is about. Time is relative (ages and
the remaining sleep, capped where the code cannot tell the values apart).
A timeout may fire at any moment of the wait it bounds. Waiters of a lock are
served in any order, which allows more than asyncio's queue does. A chunk, a
status and a command carry only the fields that the client branches on.

The parser's buffer is what `FrameStream.feed` keeps: `StreamAccounted` is the
sum that ties the bytes on the wire, in the parser and in the chunk to the
offsets that the boundary test uses.

The fields `writes`, `evidence` and the `after` of a frame are history: nothing
reads them but the properties.

### ReportFeed and LocalCoordinator

`queue` is `_callbacks`; `Receive` is the reader's enqueue and `Retained` what
`_discard_queued_statuses` leaves: the disconnects, in their order, the newest if
there are too many. It names the places of the disconnects, which a proof can
count. `QueueSize` is at least 2 (64 in the code): with one place the slice
`retained[-0:]` would keep everything. `leaving` are the ended sessions whose
writer is still waited for, after which `WriterGone` queues the disconnect.
`busy` is the dispatcher between two callbacks: it does not yield while the
queue is not empty.

The coordinator's `_on_status` is `OnStatus`, `_on_disconnect` is `OnDisconnect`,
the task of `async_command` is `Call`, `Issue` or `Refuse`, `ClientSends`, and
`Confirmed`, `Rejected` or `Uncertain`; then `Watchdog`, `Tick`,
`UnloadRequested`, `UnloadFinishes`. The client call in flight is reduced to
the contract: called, perhaps sent, then reported, rejected or uncertain. That
the client keeps that contract is what `CommandContract` and its refinement
say of `LocalClient`. `view` is what the coordinator shows; `running`,
`stopAge`, `restAge` and `doubt` are history: what the appliance last reported of
its power and the time since it stopped, how long the view has shown it off
without a break, and what may have been delivered.

### CloudCoordinator

A poll has two steps, because its answer is under way while other things
happen: `PollReads` takes what the cloud holds, `PollApplies` hands it over
(`_async_update_data`), or `PollFails`. `Answers` is `matches` and `newer`, at
the resolution of a second. A command is `Call`, `Decline` or `Issue`, then
`Acknowledged`, `Uncertain` or `Rejected`, the refresh that follows ends with
`Refreshed`; `IssueWrite`, `WriteAcknowledged` and `WriteFails` are the
experimental writes, which leave nothing pending. `Deadline` is the
`asyncio.timeout` around the whole transaction. Home Assistant runs one refresh
at a time, hence at most one poll. `held` and the samples are external: a
sample appears at most once in a tick, before or after what is issued in it. It
is stamped by the vendor's clock, which is `skew` ticks ahead of Home
Assistant's: `StatusStale` and `Answers` compare the one with the other, as the
code does.

### CloudSession

An activity is one call of the client: a status read, a command (status, then
one POST), a rename (status, POST, POST, status). Its record says where it is:
`login` and `refresh` wait for `_login_lock`, `devices` for `_devices_lock`,
`queued` for `_command_lock`, `asking` for an answer. `UsesSession`,
`SharesFailure` and `LoginBegins` are the three ways on once `_login_lock` is
free (`async_login`, `_refresh`); `generation` and `failure` are how concurrent
attempts are coalesced. `ReadRefused` is the one renewal and retry of a read,
`PostFails` and `Raises` classify the outcome of a POST, `Cancelled` is the
caller's deadline at any await. The cloud accepts the tokens of `valid`,
forgets them at any time (`Expires`), and carries out a POST or not whatever it
then answers (`ServesPost`): a rejection of a known token stands for vendor
codes. A login's two requests are one step. The device list is one request
here; `CloudDirectory` has its pages.

### CloudDirectory

`DirNext` is the session's next-state relation with the list spread over its
pages and with data added: `book` is what the vendor's records say (rows of the
MAC on each page, detail of each id), `RecordsChange` may replace it between any
two requests, `candidate` is what `_devices` holds for the MAC, `fetch` what each
call is about. `ServesPage` and `ServesDetail` are `ServesRead` with the answer
the records give; `NextPage`, `ListRefused`, `NotFound` and `Found` are the ends
of a page in `_fetch_device_pages`; `Resolves` is `_resolve` with the lock in
hand, `LoginForgets` the clearing in `_authenticate`; `SessionStep` is the rest of
the session, unchanged. `steady` and `proven` are history.

### EntryLifecycle

A `profile` is what Home Assistant stores of an entry. `life` is how far its
setup or unload is, `unit` its coordinators, two at most, each a state of
`UnloadContract` with the address it is bound to.

| code | model |
|---|---|
| `_credentials`, with login and status awaited | `CredentialsSubmitted`, `CredentialsTurnedDown`, `CredentialsVerified` |
| `_local` | `LocalSubmitted`, with `ListenerFree` |
| `_finish_entry` | `Stores`, `OptionsKeptForLocal`, `OptionsKeptForCloud` |
| the options flow, shown and submitted | `OptionsShown`, `OptionsSubmitted` |
| `async_setup_entry` | `SetupStarts`, `Started`, `BindFails`, `FirstPollFails`, `PlatformsReady`, `PlatformsFail`, `RolledBack` |
| `async_unload_entry` | `UnloadStarts`, `CallerCancelled`, `UnloadDrained`, `PlatformsUnloaded` |
| the stop event | `Stop` |
| calls of entities and the service, and the coordinators' work | `Called`, `Works` |

Home Assistant is external: it runs setup and unload of an entry one after the
other, retries what was not ready, reloads what was stored, may cancel the caller
of an unload, and keeps forms open. `consent` is history: the permissions the
user has given on the connection the entry has now.

## 3. The runs

Every passing run explores its whole state space. Deadlock is checked except
where the configuration says so (`CHECK_DEADLOCK FALSE`): in the feed and the
local coordinator the numbers of reports, sessions and calls are bounded, in the
entries what is asked for, and when they are used up or the integration is
unloaded the system really stops.

| run | instance | shows |
|---|---|---|
| `client_sessions` | two callers of a humidity target or OFF, two sessions of two frames, reports of on and off, reads of up to three units | `ConfirmedByLaterReport`, `TruthfulOutcome`, `PendingDiesWithSession`, `StreamAccounted`, `AdmissibleWrites` |
| `client_live` | two callers of ON, one session of two frames of every kind, garbled and bad ones included | `TypeOK`, `LockOwnership`, `SpacedWrites`, `SilentAfterClose`; `CommandsEnd`, `CloseEnds`; `ImplementsContract`, the refinement of `CommandContract` |
| `feed` | three sessions of up to four reports, a queue of three | `FirstSessionKeepsUp`, `NoDisconnectLost` |
| `coord_power` | two calls of ON or OFF; one session, three reports of on, off, unknown that may share a read | `FeedbackMatchesPending`, `RestRestart`, `NoRepeatInDoubt`, `ViewMovesForward`, `UnloadIsSafe` |
| `coord_live` | a call of ON; two sessions of two reports that may share a read | `ShownIsLatest`; `PendingEnds`, `StaleIsShown`; `ImplementsUnload`, the refinement of `UnloadContract` |
| `cloud_power` | two commands ON or OFF, samples of on and off, clock to 4 | `FeedbackMatchesPending`, `RestRestart`, `NoRepeatInDoubt` |
| `cloud_target` | a target and a rename; samples of this target and of another one, without a time, faulty; the vendor's clock one tick ahead or behind; clock to 2 | `ReportedByLaterSample`; `ImplementsUnload` |
| `session` | a poll beside a command or a rename, two token spellings | `PostsCarryToken`, `ErrorsAreTruthful`, `NoNeedlessLogin`, `FailureIsShared`, `CallsEnd` |
| `directory` | the same with lists of up to three pages (two are supported), two ids, four states of the records and a change between two of them | `PostsToOwn`, `OwnedIsFound`, `IdIsUnambiguous` |
| `entry` | two entries, one local at the start and one to be added, one listener address, three things asked for | `OneCoordinator`, `PermissionIsGiven`, `ListenersDiffer`; `ProfileComesIntoForce` |

Two more runs, `feed_gap` and `restart_window`, end in a violation; section 5 is
about them.

Why the bounds are enough. *Client:* the locks, the pending command and the
lateness of a report are relations between one command and another, or between a
command and the frames around it: two callers contend for every lock, and four
units with reads of three have frames that end before, across and after a write,
in one chunk and in two. Two sessions are enough for a command of the first to
meet the second: session numbers never return. The OFF of `client_sessions`
makes the target wait for its spacing, so that a report of off can come between
the check and the write. `Spacing` and `MaxAge` of one tick separate "not yet"
from "long enough", and the ages are capped at the last value the code can tell
from the next. *Feed:* a queue of three overflows with a disconnect in front, in
the middle and alone; three sessions fill it with disconnects. *Local
coordinator:* in `coord_power` `MinOff` is 2 and `PendingTime` 3 with
`CmdTimeout` 1, the order they have in the code (180, 300, 30 seconds), so that
one window can end inside the other; three reports are enough for on, unknown
and off, for off that follows off with on in between, read together or apart,
and for a confirmation handled ahead of a report before it. What `coord_live` is
about does not depend on the off interval, so its windows are as short as they
can be; two reports of the second session and the late disconnect of the first
meet one confirmation. *Cloud:* the clock of `cloud_power` reaches past every
window once, and a poll may span a command from issue to deadline; in
`cloud_target` a request at 0 can be answered by samples of the same second and
of two later ones, and a skew of one is past `Ahead`. *Session and directory:*
one call owns a login while the other waits for it or comes late with a
rejection of the token before, which the cloud may have given again. The records
are those between which a call can be misled: the appliance on the second page;
its id lent to a guest while a new one stands on the first page; two ids on two
pages; more pages than supported. One change is enough, since a call compares
one list with one detail. *Entries:* two entries contend for one address; three
requests are enough for a flow of one transport to end while a form or a login
of the other is open and a reload is under way.

That nothing hangs on the number of callers, entries, ids or windows is what the
theorems add where there are any.

## 4. Fairness

Safety runs assume none. The liveness runs assume:

* `client_live`: the loop runs what is ready, and each wait of a command is
  bounded by `asyncio.timeout` or `wait_for` (lock, send, answer). Nothing
  obliges the appliance, the network or a caller to act.
* `coord_live`: callbacks, tasks and the watchdog (every second) run, time
  passes, and a client call ends, which is `CommandsEnd` of the client.
* `cloud_target`: time passes, a task that is given the lock goes on, and the
  deadline of a transaction (`async_command`, awaited at `coordinator.py:93`)
  fires. No request and no poll need be answered.
* `session`: a call that can go on does; each request is answered or
  fails, since `_request` bounds it by a total timeout.

* `entry`: Home Assistant carries out the reload it has scheduled and retries a
  setup that was not ready; a setup, a rollback or an unload that can go on does;
  each coordinator keeps `UnloadContract`, whose fairness both coordinators are
  shown to have. No user need act and no setup need succeed.

All are weak: none says that a lock held again and again is finally given to a
particular waiter. Where that would be needed, a timeout ends the wait.

## 5. Where code and documents part

Each is a run that checks one property and finds it violated.

* `feed_gap` (code, `local_client.py:246`): a comment says the connection is
  failed "rather than silently lose a state transition". When the disconnect of
  an older session is what finds the queue full, the reports of the live session
  are dropped and no connection is closed.
* `restart_window` (`local_coordinator.py:266`): the restart delay is looked at
  before the client's waits and not again at the write, so a stop reported in
  between does not hold an ON back.

What the passing runs leave out because of these: `FirstSessionKeepsUp` is
`LatestReportArrives` as long as there is one session; `RestRestart` of the
local coordinator looks at the moment a request goes to the client, not at the
write, and measures the rest by what the coordinator has shown. `coord_live` has
room in its queue for what its two sessions report, so that the gap does not
open there; the theorems about the coordinator name it (`DropsLatest`).

More behaviours came up while modelling, which the properties leave aside and a
reader of the code should know:

* A request that is rejected as not sent removes the pending entry of its key
  (`local_coordinator.py:292`), also when that entry replaced an earlier request
  that is still uncertain. `docs/PROTOCOL.md:214` says an uncertain request is
  kept for its window. `NoRepeatInDoubt` of the local coordinator excepts what
  another value has replaced.
* Two reports in one read, on then off, start no off interval if the view showed
  off before: the first is dropped and `_previous_on` never becomes true
  (`local_coordinator.py:122-138`). `RestRestart` speaks of the time off has
  been *shown*, which has no break here.
* A confirmation shows the client's latest report ahead of those that wait in the
  queue, which are then too old to be handled (`local_coordinator.py:313`). If
  these are on and then off, and the view showed off before, the stop starts no
  off interval: `_previous_on` was off all along. The confirmation of an OFF
  starts one by itself, and so does that of an ON on the same session when the
  latest report is off; that of a humidity target or of a unit does not. An ON
  may then follow the stop at once.
* The late failure of a cloud request overwrites `device_reported`, which a poll
  beside it has already recorded, with `delivery_uncertain`
  (`coordinator.py:271, 330, 337`).
* The second POST of a rename takes the token there is when the first is
  answered (`api.py:869`), and none while a poll is renewing the session. It is
  then turned down, and the rename reported as of unknown outcome.
  `PostsCarryToken` speaks of first POSTs only.
* A vendor's clock that is ahead lets a sample taken up to that lead before the
  request count as its answer (`coordinator.py:145`), and the samples that follow
  one from the future are not newer than the baseline until the clock has caught
  up. `ReportedByLaterSample` says by how much the first can go wrong.
* While one call renews the login, another one that is reading the list knows no
  account (`api.py:551, 634`): rows that name the account are passed over and the
  MAC is reported as not found, for one poll. `OwnedIsFound` speaks of lists
  during which the session is steady.
* An id once kept is read from the list again only after a login
  (`api.py:665`). If the vendor gives the appliance another id, every call fails
  its detail check until the session expires; nothing is sent to the wrong one.
* The humidifier restores the automatic target from the state Home Assistant
  saved of it (`humidifier.py:35-40`). When a local entry is reloaded, the
  coordinator has told its listeners that the listener stopped before the entity
  is removed, so the saved state is the unavailable one, which has no attributes.
  If the appliance is in continuous mode, `auto` then asks for 50 %
  (`docs/INSTALL.md:92` speaks of the last numeric target, when available).

## 6. What is proved

Every safety invariant and every action property of the runs is stated by a
theorem, for any set of commands, requests, entries and inputs and any bounds,
under the assumption on the constants of the module (`ConstantsOK`,
`FeedConstants`, `CoordinatorConstants`, `DirectoryConstants`,
`LifecycleConstants`). These say what kind of value each constant is, and a few
things more: a call of the local client is shorter than the pending window (30
and 300 seconds in the code); the callback queue has two places or more (64);
the off interval is not longer than the pending window in the cloud coordinator
(180 and 300 seconds, `const.py`), whose commands are finitely many; power is
asked on or off; a page of the vendor's list has finitely many rows; what is
stored at the start keeps credentials for the cloud alone, gives two listeners
two addresses, and holds no permission for the other transport.

One theorem has a hypothesis besides the specification, because the code does
not keep the property without it: `LatestIsShown` of the local coordinator. It is
named there.

**`LocalClient_proofs`.** `TypeCorrect`; `OutcomesAreTruthful` (a caller's result
agrees with the wire and no command is written twice); `LocksAreOwned`;
`SessionsTakePendingAlong`. The last three follow from `Invariance`, that `IInv`
is inductive. `IInv` is:

* `TypeInv`: the types, with the accounting of bytes. `conn.stream` holds as many
  frames as have begun in `total` units (`Begun`), and the parser holds at most a
  half. Without it the type of a chunk cannot be shown, since `Read` takes
  frames off the stream by counting units.
* `Sessions`: ids never exceed the counter and a command belongs to a session
  that existed. So a command of a past session fails the test at the write for
  ever: no later session has its number.
* `LockOwnership` and `PendingDiesWithSession`, which need each other: that the
  future of a command is failed when its session ends follows from the session's
  pending command being the one that holds the lock.
* `Progress`: what a task's place in the code says of `writes`, `queued` and its
  future. `TruthfulOutcome` is not inductive without it: a task that ends with
  "not sent" has written nothing because it never reached the write.

A second invariant, `Later`, is about the stream (`EvidenceInvariance`); it is
inductive on top of `IInv` and carries `SuccessIsEvidenced` and
`StreamIsAccounted`:

* `Framing`: what has been parsed is whole frames, and the offset that an entry
  of the chunk carries is the place its frame had in the stream.
* `StreamFollows`, `TodoFollows`: a frame that began at or beyond the boundary of
  a command in flight began after that command was written. A write puts the
  boundary behind every unit there is (`Boundaries`), and a frame's place never
  changes on its way from the wire through the parser's rest into the chunk.
* `Proven`: the report a future was resolved with has the value asked for, is of
  the command's session and began after its write. This is the boundary test of
  `local_client.py:321-338`; without the lines above the test says something
  about numbers only.

The action properties need one fact: only `SendWrite` sends a command's bytes
(`OnlySendWrites`), so that what its guard has checked again holds at the write:
`WritesAreSpaced`, `WritesAreAdmissible`. `SilenceAfterClose` goes through the
steps that take the send lock.

`ClientImplementsContract`: every step of the client
is a step of `CommandContract` or leaves it alone, under the mapping `Phase`.
`IInv` is used for exactly one command at a time being sent.

**`ReportFeed_proofs`.** `RetainsNewest` says what an overflow keeps, for any
queue: disconnects alone, in their order, fewer than the queue has places, none
older than one that is dropped, and all of them unless they would fill it. It is
a lemma about finite sets: the disconnects left from a place on are one fewer
with each of them passed, so that every number up to their count is the number
of one place. `QueueFits` is the inductive invariant `FeedInv`: of a session the
queue holds at most one disconnect, and none while it is up or its writer is
waited for; a report of the session that is up is no later than the client's
latest. The proofs about the local coordinator start from it.

**`FeedWatch_proofs`.** `EndsAreTold`: the disconnects in the queue are of
different sessions, and none is of the session that overflows it, so that while
there are no more sessions than places no overflow has to drop one.
`OnlyOneWayToLoseIt`: the latest report of a connection that stays up was handed
over last or waits behind everything but disconnects (`Arrives`), unless a step
`DropsLatest` occurs, the one `feed_gap` finds. A first session has no older one
to end: `FirstSessionIsShown` needs no condition.

**`CloudSession_proofs`.** `TypeCorrect`; `FirstPostsCarryToken`; `ErrorsTruthful`.
The invariant relates a call to what the cloud has done for it: what has been
carried out is acknowledged, or its answer is at hand and is not a rejection
(`AppliedIsKnown`), so that a rejection leaves nothing behind; the second POST
follows an acknowledged one; no POST is sent out of a renewal; and an account id
is known only together with a token (`OwnerHasToken`), which is why a status
that has passed the ownership check is followed by a POST with a token.

`LoginsAreNeeded` and `FailuresAreShared` rest on a second invariant,
`RenewalInv`. A rejection is about the generation its request was dated with,
and the token of that generation is not accepted again before the next login
(`AllDated`), although the cloud may give the same spelling again later: so a
late rejection of an older generation finds another number and renews nothing.
Whoever logs in holds the lock, and there is no token meanwhile (`LoginsHold`,
`LoginsAlone`). Those who waited for the last login, if it failed, wait with an
older generation still or have ended, and the failure is there to be shared
(`FailureStands`).

**`CloudDirectory_proofs`.** `OnlyOwnIsChanged`: what the cloud carries out for a
call concerns an id whose detail was shown to that call to be ours, whatever the
records become meanwhile. The invariant `DirInv` adds to the session's `IInv`
that a call with an accepted detail, or with a POST under way, has its id in
`proven` (`AllSecured`); it holds because nothing but the call itself changes the
id its `fetch` is about. The proof shows that each step of the directory either
is a step of the session or keeps the session's invariant, so that
`DirErrorsTruthful` says of the paged list what `ErrorsTruthful` says of the
session alone, and `DirLoginsAreNeeded` what the two theorems about renewals say.

`OwnedAreFound` and `IdsAreUnambiguous` follow from `ListInv`: while neither
records nor session have changed, a call has found exactly the ids of the rows,
not those of another account, on the pages before its own (`Gathered`), and an
answer at hand is the page it asked for, read with an account known
(`ListAsked`). The last part is what `TokenHasOwner` is for, the converse of
`OwnerHasToken`: without an account the test at `api.py:634` would
pass over our rows. The
conflict test counts ids, hence the finite pages.

**`LocalCoordinator_proofs`.** `FeedbackFits`, `NoRepeat` and
`CoordinatorUnloadsSafely`. The invariant says that a call in flight is the last
command and that its request is kept with exactly the time its window has left
(`FlightFits`), that last command is kept exactly while it awaits feedback or is
uncertain (`LastFits`), and that what is in doubt is kept for as long as it is in
doubt (`DoubtFits`). `FlightFits` needs the window to be longer than a call may
take: only then does the watchdog never take away a request that is in flight.
`NoRepeat` then follows from the test for duplicates. It says nothing of a
request that one with another value has replaced (section 5). The safety part of
`UnloadContract` is refined step by step under the mapping of
`ImplementsUnload`.

The view has invariants of its own, on top of `FeedInv`. `ViewInv`
(`ViewInvariance`): it is of a session that was accepted and of no later read
than the client has made. That no step takes it back is `ViewGoesForward`, for
which late disconnects, reports handled ahead of the queue and sessions that
replace each other are the cases. `LatestKept`: while the client is connected and
unload has not begun, its latest report waits in the queue or is what the view
shows. A step `DropsLatest` breaks it, and nothing else does: `LatestIsShown`
therefore assumes `[][~DropsLatest]_vars`, and `FirstSessionIsShownLast` shows
that up to the second session no assumption is needed.

`Rests` is `RestRestart`, without any condition on reads, queue or confirmations.
The invariant is `RestInv`: while the view shows off, the time the code counts
its interval from (`offAge`) is no longer ago than off has been shown without a
break (`restAge`). Every step that ends such a stretch has to begin the interval:
a report of off after anything else, a first report of a session, a disconnect, an
OFF that is issued or confirmed. The case to think of is `_on_status`, which begins
it only if `_previous_on` was not off. The invariant therefore says too that
`view.previous` is the power shown, or forgotten at a disconnect. For the second
half of the property, an OFF in doubt is never replaced: ON is refused while it
is kept, and a second OFF is a duplicate.

**`CloudCoordinator_proofs`.** `FeedbackFits`, `Rests`, `NoRepeat`, `Reported` and
`CloudUnloadsSafely`. In `IInv` a
pending request is the one of a command that no sample has answered
(`PendingFits`), one command runs at a time and last command is its own
(`RunningFits`), and what may have arrived is pending still, or its window is
over, or another value was asked for since (`DoubtsFit`): the last is what
`NoRepeat` excepts. `Rests` needs
`StopsFit`: for each OFF that may have arrived, the time restart protection
counts from is not older, and what is pending for power is either an OFF not
older than it or an ON that waited for it. So an ON that passes because the view
still shows the appliance on, where that time is not looked at, finds a request
pending: an OFF in its window is refused by `PendingOff`, an OFF past its window
is older than the off interval because that is the shorter of the two, and an ON
has waited already. `Reported` rests on `SamplesKnow`: a sample that is later by
the clock than a request was taken after it, which `NewSample` establishes and
which an issue cannot spoil, since no sample is from the future once the skew is
taken off. `CloudUnloadsSafely` adds that whoever holds the lock is inside a
transaction (`LockFits`), so that a drained queue means that the lock is free.

**`EntryLifecycle_proofs`.** `CoordinatorIsOne`, `PermissionsAreGiven`,
`ListenersStayApart`. `IInv` consists of the types; `UnitsSound`, that nothing
remains of a drained coordinator, a setup that starts has an open one, and only
the last one made may be there, in the stages of `Busy`; and `ProfilesSound`, that
permissions and credentials fit the transport and were given on it, and that
listeners differ. `UnitsSound` is why a new setup always finds an unused slot and
why the step from `unloading` to `detaching` leaves no coordinator behind: it
waits for `"drained"`, which means that nothing remains.

Only model-checked, because liveness under fairness and ENABLED are out of the
prover's reach: `CommandsEnd` and `CloseEnds` of the client, `PendingEnds` and
`StaleIsShown` of the local coordinator, `CallsEnd` of the session,
`ProfileComesIntoForce` of the entries, and the part of `ImplementsUnload` in both
coordinators that says that an unload ends (its safety part, `UnloadIsSafe`, is
proved).

The invariants were checked by TLC on the instances of the runs before they were
proved. There are no recursive operators and no axioms: what the proofs use of
sets, functions and sequences are the library's theorems.

## 7. What is not modelled

* *Measurements, names, wording, diagnostics*: no handler branches on them.
* *The frame codec* beyond what the reader sees: a frame is complete, partial,
  bad or of no interest. Its fields and checksum are pure functions of bytes,
  which the repository's golden frames cover.
* *Parsing of vendor fields and responses*: a sample says what it says, or is
  absent; sanitizing of logged responses is left out.
* *`async_devices`*, which nothing in the integration calls, *the experimental
  reads*, which change no state that the properties speak of, and *the filter
  writes*, which are one POST, like a command.
* *Entities*: views of a coordinator and callers of `async_command`. Their one
  state, the automatic target, is described in section 5.
* *Polling interval and field validation of the forms; the service's choice of
  an entry*: lookups and checks of one input, without state.
* *The bound of four seconds on the end of the tasks at close*
  (`local_client.py:542`). When it runs out, the tasks are cancelled once more,
  which may cut short the closing of a writer; the transports are aborted either
  way.
* *A local bind that fails with anything but `OSError`, or is cancelled.* The
  client is closed then too (`local_coordinator.py:76-80`), but Home Assistant
  does not retry that setup; `EntryLifecycle` treats every failed setup as one
  that is retried.
* *The timestamp in a frame* (`local_client.py:404`) is
  `max(now, last + 1)` in one step: a property would repeat the expression.

One thing to know when reading: the cloud coordinator reports a failure to
connect before the POST as of uncertain delivery too. That is conservative;
`CloudCoordinator` has it as `Uncertain`, whatever the reason.

## 8. Plan

Done: every part of the program that keeps state across awaits has its module,
the two contracts join them, and every component has its theorems.

What could still be added, in this order:

1. `CloudCoordinator` composed with `CloudSession`, whose calls end as
   `Acknowledged`, `Uncertain` or `Rejected`: that a rejection leaves nothing
   behind, which the coordinator takes for granted, is `ErrorsTruthful`; that it
   is used that way would be the refinement.
2. `LatestIsShown` at a finer grain: which sizes of the queue exclude
   `DropsLatest` for a given number of reports per dispatch.
3. The humidifier's automatic target over restarts and reloads.
