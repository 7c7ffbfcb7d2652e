----------------------------- MODULE CloudSession -----------------------------
(***************************************************************************)
(* The account session of the cloud client, api.py: a token that polls and *)
(* commands share, the login that renews it once for all who need it, the  *)
(* one retry of a read, and the POST requests that are never repeated.     *)
(*                                                                         *)
(* Every activity is one call of the coordinator and runs once: a status   *)
(* read, a command (status, then one POST) or a rename (status, two POSTs, *)
(* status).  The cloud is external: it accepts some tokens, forgets them   *)
(* at any time, serves a request and the answer arrives later, or never.   *)
(* A login's two requests are one step, a device list is one page.  Dicts, *)
(* parsing and the experimental reads are left out.                        *)
(***************************************************************************)
EXTENDS Integers, FiniteSets

CONSTANTS
  Activities,  \* the calls
  Kind,        \* what each may do
  Tokens,      \* the session tokens the cloud may give
  None         \* no token, no holder

Kinds == {"status", "command", "rename"}

ASSUME ConstantsOK ==
  /\ None \notin Activities \cup Tokens
  /\ Kind \in [Activities -> SUBSET Kinds]

VARIABLES
  token,        \* _token
  owner,        \* _owner_id is set
  cached,       \* _devices holds the appliance
  generation,   \* _auth_generation
  failure,      \* _auth_failure is set
  loginLock,    \* _login_lock: its holder
  devicesLock,  \* _devices_lock
  commandLock,  \* _command_lock
  act,          \* the activities
  valid,        \* the tokens the cloud accepts (external)
  applied,      \* the POSTs the cloud has carried out (external)
  waited        \* history: those who waited for the last login, if it failed

session == <<token, owner, cached, generation, failure>>
locks == <<loginLock, devicesLock, commandLock>>
cloud == <<valid, applied>>
vars == <<session, locks, act, cloud, waited>>

Posts == {"control", "label", "name"}

Fresh == [pc |-> "idle", kind |-> "status", step |-> "resolve", tok |-> None, gen |-> 0, reply |-> "none", again |-> FALSE,
          acked |-> FALSE, outcome |-> "none"]

(* A new client, or one whose session may have gone stale meanwhile.       *)
Init ==
  /\ \/ token = None /\ owner = FALSE /\ cached = FALSE /\ valid = {}
     \/ token \in Tokens /\ owner = TRUE /\ cached = TRUE /\ valid \in {{}, {token}}
  /\ generation = 0 /\ failure = FALSE
  /\ loginLock = None /\ devicesLock = None /\ commandLock = None
  /\ act = [a \in Activities |-> Fresh]
  /\ applied = [a \in Activities |-> {}]
  /\ waited = {}

-----------------------------------------------------------------------------
(* Records of an activity that goes on.                                    *)

(* async_login, on the way to step s.  (tok, reply and again belong to one *)
(* request.)                                                               *)
LogsIn(r, s) ==
  [Fresh EXCEPT !.pc = "login", !.kind = r.kind, !.step = s, !.gen = generation,
                !.acked = r.acked]

(* A request of step s leaves with token t, of generation g.               *)
Asks(r, s, t, g) ==
  [r EXCEPT !.pc = "asking", !.step = s, !.tok = t, !.gen = g, !.reply = "none"]

(* There is a session: _resolve goes on to its lock, _read to its request. *)
GoesOn(r, t, g) ==
  IF r.step = "resolve" THEN [r EXCEPT !.pc = "devices", !.gen = 0] ELSE Asks(r, r.step, t, g)

Released(lock, a) == IF lock = a THEN None ELSE lock

(* The call returns or raises, its locks are let go.                          *)
Ends(a, o) ==
  /\ act' = [act EXCEPT ![a] = [Fresh EXCEPT !.pc = "done", !.outcome = o]]
  /\ loginLock' = Released(loginLock, a)
  /\ devicesLock' = Released(devicesLock, a)
  /\ commandLock' = Released(commandLock, a)

(* Faulty variant: what the first POST of two has done is forgotten.       *)
RaisesAny(a) == Ends(a, "error")

(* An AlorairError leaves the call: after an acknowledged POST the outcome *)
(* is unknown.                                                             *)
Raises(a) == Ends(a, IF act[a].acked THEN "uncertain" ELSE "error")

-----------------------------------------------------------------------------
Begin(a) ==
  /\ act[a].pc = "idle"
  /\ \E k \in Kind[a] :
       act' = [act EXCEPT ![a] = IF k = "status" THEN LogsIn(@, "resolve")
                                 ELSE [@ EXCEPT !.pc = "queued", !.kind = k]]
  /\ UNCHANGED <<session, locks, cloud, waited>>

TakesCommandLock(a) ==
  /\ act[a].pc = "queued" /\ commandLock = None
  /\ commandLock' = a
  /\ act' = [act EXCEPT ![a] = LogsIn(@, "resolve")]
  /\ UNCHANGED <<session, loginLock, devicesLock, cloud, waited>>

-----------------------------------------------------------------------------
(* async_login and _refresh, once they have _login_lock.                   *)

Waits(a) == act[a].pc \in {"login", "refresh"}
HasLoginLock(a) == Waits(a) /\ loginLock = None

(* Faulty variant: a token of the same spelling is taken for the old one.  *)
HasSessionByToken(a) ==
  token # None /\ (act[a].pc = "login" \/ token # act[a].tok)

(* Somebody else has renewed the session since.                            *)
HasSession(a) ==
  /\ token # None
  /\ act[a].pc = "login" \/ token # act[a].tok \/ act[a].gen # generation

(* Faulty variant: the failure is not shared.                              *)
HasFailureAlone(a) == FALSE

(* A login that this one waited for has failed.                            *)
HasFailure(a) == ~HasSession(a) /\ act[a].gen # generation /\ failure

UsesSession(a) ==
  /\ HasLoginLock(a) /\ HasSession(a)
  /\ act' = [act EXCEPT ![a] = GoesOn([@ EXCEPT !.again = act[a].pc = "refresh"],
                                      token, generation)]
  /\ UNCHANGED <<session, locks, cloud, waited>>

SharesFailure(a) ==
  /\ HasLoginLock(a) /\ HasFailure(a) /\ Raises(a)
  /\ UNCHANGED <<session, cloud, waited>>

LoginBegins(a) ==
  /\ HasLoginLock(a) /\ ~HasSession(a) /\ ~HasFailure(a)
  /\ token' = None /\ owner' = FALSE /\ cached' = FALSE /\ failure' = FALSE
  /\ loginLock' = a
  /\ act' = [act EXCEPT ![a].again = act[a].pc = "refresh", ![a].pc = "authenticating"]
  /\ waited' = {}
  /\ UNCHANGED <<generation, devicesLock, commandLock, cloud>>

(* The session is there at once: token, owner and generation.              *)
LoggedIn(a, t) ==
  /\ token' = t /\ owner' = TRUE
  /\ generation' = generation + 1
  /\ loginLock' = None
  /\ valid' = valid \cup {t}
  /\ act' = [act EXCEPT ![a] = GoesOn(@, t, generation + 1)]
  /\ UNCHANGED <<cached, failure, devicesLock, commandLock, applied, waited>>

LoginSucceeds(a) == act[a].pc = "authenticating" /\ \E t \in Tokens : LoggedIn(a, t)

LoginFails(a) ==
  /\ act[a].pc = "authenticating"
  /\ failure' = TRUE /\ generation' = generation + 1
  /\ Raises(a)
  /\ waited' = {b \in Activities : Waits(b)}
  /\ UNCHANGED <<token, owner, cached, cloud>>

-----------------------------------------------------------------------------
(* _resolve and _owned_device.                                             *)

TakesDevicesLock(a) ==
  /\ act[a].pc = "devices" /\ devicesLock = None
  /\ IF cached
     THEN act' = [act EXCEPT ![a] = LogsIn(@, "detail")] /\ UNCHANGED devicesLock
     ELSE act' = [act EXCEPT ![a] = LogsIn(@, "list")] /\ devicesLock' = a
  /\ UNCHANGED <<session, loginLock, commandLock, cloud, waited>>

Reads(a, s) == act[a].pc = "asking" /\ act[a].step = s

Listed(a) ==
  /\ Reads(a, "list") /\ act[a].reply = "ok"
  /\ cached' = TRUE /\ devicesLock' = None
  /\ act' = [act EXCEPT ![a] = LogsIn(@, "detail")]
  /\ UNCHANGED <<token, owner, generation, failure, loginLock, commandLock, cloud, waited>>

(* Faulty variant: the owner was checked when the device was listed.       *)
OwnedAsListed(a) == act[a].reply = "ok"

(* The detail names the account of the session, which must be known still. *)
Owned(a) == act[a].reply = "ok" /\ owner

(* The status is read: the caller has it, or the POST leaves at once with  *)
(* whatever token there is.                                                *)
Detailed(a) ==
  /\ Reads(a, "detail") /\ Owned(a)
  /\ IF act[a].kind = "status" \/ act[a].acked
     THEN Ends(a, "ok")
     ELSE /\ act' = [act EXCEPT ![a] =
                 Asks(@, IF act[a].kind = "command" THEN "control" ELSE "label", token, 0)]
          /\ UNCHANGED locks
  /\ UNCHANGED <<session, cloud, waited>>

Reading(a) == act[a].pc = "asking" /\ act[a].step \in {"list", "detail"}

(* Faulty variant: the retry does not wait for a new session.              *)
ReadRetries(a) ==
  /\ Reading(a) /\ act[a].reply = "auth"
  /\ act' = [act EXCEPT ![a] = Asks(@, act[a].step, act[a].tok, act[a].gen)]
  /\ UNCHANGED <<session, locks, cloud, waited>>

(* The session has been turned down: one renewal, one retry.               *)
ReadRefused(a) ==
  /\ Reading(a) /\ act[a].reply = "auth" /\ ~act[a].again
  /\ act' = [act EXCEPT ![a].pc = "refresh"]
  /\ UNCHANGED <<session, locks, cloud, waited>>

ReadFails(a) ==
  /\ Reading(a)
  /\ \/ act[a].reply \in {"fail", "foreign"}
     \/ act[a].reply = "auth" /\ act[a].again
     \/ act[a].reply = "ok" /\ act[a].step = "detail" /\ ~Owned(a)
  /\ Raises(a)
  /\ UNCHANGED <<session, cloud, waited>>

-----------------------------------------------------------------------------
(* The POST requests of _command and _experimental_mutation.               *)

Posting(a) == act[a].pc = "asking" /\ act[a].step \in Posts

(* A command is through; the second POST of a rename follows the first,    *)
(* and the status follows the second.                                      *)
Posted(a) ==
  /\ Posting(a) /\ act[a].reply = "ok"
  /\ CASE act[a].step = "control" -> Ends(a, "ok")
       [] act[a].step = "label" ->
            /\ act' = [act EXCEPT ![a] = Asks([@ EXCEPT !.acked = TRUE], "name",
                                              token, 0)]
            /\ UNCHANGED locks
       [] act[a].step = "name" ->
            act' = [act EXCEPT ![a] = LogsIn(@, "resolve")] /\ UNCHANGED locks
  /\ UNCHANGED <<session, cloud, waited>>

(* An answer that settles nothing, and one that turns the POST down.       *)
PostFails(a) ==
  /\ Posting(a)
  /\ \/ act[a].reply = "fail" /\ Ends(a, "uncertain")
     \/ act[a].reply \in {"auth", "refused"} /\ Raises(a)
  /\ UNCHANGED <<session, cloud, waited>>

(* The caller's deadline, or its unload.                                   *)
Cancelled(a) ==
  /\ act[a].pc \notin {"idle", "done"}
  /\ Ends(a, "cancelled")
  /\ generation' = IF act[a].pc = "authenticating" THEN generation + 1 ELSE generation
  /\ UNCHANGED <<token, owner, cached, failure, cloud, waited>>

-----------------------------------------------------------------------------
(* The cloud (external).                                                   *)

Serves(a, r) ==
  /\ act[a].pc = "asking" /\ act[a].reply = "none"
  /\ act' = [act EXCEPT ![a].reply = r]
  /\ UNCHANGED <<session, locks, valid, waited>>

ServesRead(a) ==
  /\ Reading(a)
  /\ \E r \in IF act[a].tok \in valid THEN {"ok", "foreign", "fail"} ELSE {"auth", "fail"} :
       Serves(a, r)
  /\ UNCHANGED applied

ServesPost(a) ==
  /\ Posting(a)
  /\ \/ /\ act[a].tok \in valid
        /\ \E r \in {"ok", "fail"} : Serves(a, r)
        /\ applied' = [applied EXCEPT ![a] = @ \cup {act[a].step}]
     \/ /\ \E r \in {IF act[a].tok \in valid THEN "refused" ELSE "auth", "fail"} : Serves(a, r)
        /\ UNCHANGED applied

Expires(t) ==
  /\ t \in valid
  /\ valid' = valid \ {t}
  /\ UNCHANGED <<session, locks, act, applied, waited>>

-----------------------------------------------------------------------------
(* Every call has ended.                                                   *)
Terminated == (\A a \in Activities : act[a].pc = "done") /\ UNCHANGED vars

Step(a) ==
  \/ TakesCommandLock(a) \/ TakesDevicesLock(a)
  \/ UsesSession(a) \/ SharesFailure(a) \/ LoginBegins(a)
  \/ LoginSucceeds(a) \/ LoginFails(a)
  \/ Listed(a) \/ Detailed(a) \/ ReadRefused(a) \/ ReadFails(a)
  \/ Posted(a) \/ PostFails(a)
  \/ ServesRead(a) \/ ServesPost(a)

Next ==
  \/ \E a \in Activities : Begin(a) \/ Step(a) \/ Cancelled(a)
  \/ \E t \in Tokens : Expires(t)
  \/ Terminated

(* A call that can go on does, and every request is answered or times out. *)
Fairness == \A a \in Activities : WF_vars(Step(a))

Spec == Init /\ [][Next]_vars
FairSpec == Spec /\ Fairness

-----------------------------------------------------------------------------
(* Properties.                                                             *)

Holder == Activities \cup {None}
Steps == {"resolve", "list", "detail"} \cup Posts
Outcomes == {"none", "ok", "error", "uncertain", "cancelled"}

Activity ==
  [pc : {"idle", "queued", "login", "devices", "refresh", "authenticating", "asking", "done"},
   kind : Kinds, step : Steps, tok : Tokens \cup {None}, gen : Nat,
   reply : {"none", "ok", "foreign", "auth", "refused", "fail"},
   again : BOOLEAN, acked : BOOLEAN, outcome : Outcomes]

(* Every variable holds a value of the kind the code gives it.             *)
TypeOK ==
  /\ token \in Tokens \cup {None} /\ owner \in BOOLEAN /\ cached \in BOOLEAN
  /\ generation \in Nat /\ failure \in BOOLEAN
  /\ loginLock \in Holder /\ devicesLock \in Holder /\ commandLock \in Holder
  /\ act \in [Activities -> Activity]
  /\ valid \subseteq Tokens
  /\ applied \in [Activities -> SUBSET Posts]
  /\ waited \subseteq Activities

BeginsLogin(a) == act[a].pc # "authenticating" /\ act'[a].pc = "authenticating"

(* No login is begun while the session at hand still works: a rejection    *)
(* that comes late, of a token already replaced, renews nothing, even when *)
(* the cloud gives the same token again.                                   *)
NoNeedlessLogin == [][\A a \in Activities : BeginsLogin(a) => token \notin valid]_vars

(* Those who waited for a login that failed are told so and begin none of  *)
(* their own (async_login: "coalescing concurrent attempts").              *)
FailureIsShared == [][\A a \in Activities : BeginsLogin(a) => a \notin waited]_vars

(* The first POST of a call leaves with a token, although another call may *)
(* be renewing the session between the status and the POST.  (The second   *)
(* one of a rename takes whatever token there is, perhaps none.)           *)
PostsCarryToken ==
  \A a \in Activities :
    act[a].pc = "asking" /\ act[a].step \in {"control", "label"} => act[a].tok # None

(* An error that is not marked as of unknown outcome means that the cloud  *)
(* has carried out nothing of the call.                                    *)
ErrorsAreTruthful ==
  \A a \in Activities : act[a].outcome = "error" => applied[a] = {}

(* Every call ends, with its locks and its retry, whatever becomes of the  *)
(* session.                                                                *)
CallsEnd == \A a \in Activities : act[a].pc # "idle" ~> act[a].pc = "done"
=============================================================================
