---------------------------- MODULE EntryLifecycle ----------------------------
(***************************************************************************)
(* Config entries from their creation on: the flows of config_flow.py that *)
(* store what an entry is, setup with its rollback and unload of           *)
(* __init__.py, and the coordinators that come and go with them, each      *)
(* taken as what UnloadContract promises.                                  *)
(*                                                                         *)
(* Home Assistant is external: it runs setup and unload of one entry one   *)
(* after the other, retries a setup that was not ready, reloads an entry   *)
(* whose profile was stored, may cancel whoever waits for an unload, and   *)
(* keeps forms open as long as users like, also while another flow of the  *)
(* same entry finishes.                                                    *)
(*                                                                         *)
(* An entry stands for its MAC.  Settings that no flow stores, the polling *)
(* interval and the texts of forms are left out.                           *)
(***************************************************************************)
EXTENDS Naturals, FiniteSets

CONSTANTS
  Entries,     \* entries, one for each MAC
  Addresses,   \* what a local listener may be bound to
  None,        \* no address
  Stored,      \* what Home Assistant's storage may hold at its start
  MaxQueued,   \* bound: calls waiting in a coordinator
  MaxAsked     \* bound: what users and the shutdown ask for

(* address is None for the cloud; secrets: are account and password kept.  *)
Options == [power : BOOLEAN, experimental : BOOLEAN]
Profile == [transport : {"none", "cloud", "local"}, address : Addresses \cup {None},
            secrets : BOOLEAN, options : Options]

NoOptions == [power |-> FALSE, experimental |-> FALSE]
NoEntry == [transport |-> "none", address |-> None, secrets |-> FALSE, options |-> NoOptions]
OnCloud == [NoEntry EXCEPT !.transport = "cloud", !.secrets = TRUE]
OnListener(x) == [NoEntry EXCEPT !.transport = "local", !.address = x]

Slots == {1, 2}  \* coordinators of an entry that may be there at once

ASSUME LifecycleConstants ==
  /\ None \notin Addresses
  /\ Stored \subseteq [Entries -> Profile]
  /\ \A p \in Stored, e, f \in Entries :
       /\ p[e].secrets <=> p[e].transport = "cloud"
       /\ p[e].options.experimental => p[e].transport = "cloud"
       /\ e # f /\ p[e].transport = "local" /\ p[f].transport = "local" =>
            p[e].address # p[f].address
  /\ MaxQueued \in Nat /\ MaxAsked \in Nat

VARIABLES
  profile,    \* data and options of each entry
  life,       \* how far setup or unload of each entry is
  unit,       \* the coordinators of each entry
  current,    \* the slot of the one that setup made last, runtime_data
  wanted,     \* is a reload of the entry scheduled
  form,       \* the options form shown of each entry
  verifying,  \* is a login for the entry under way in a flow
  asked,      \* what was asked for so far
  consent     \* history: what the user has allowed on the present connection

profileVars == <<profile, wanted, form, verifying, consent>>
vars == <<profileVars, life, unit, current, asked>>

Gone == [phase |-> "drained", queued |-> 0, sending |-> FALSE, address |-> None, bound |-> FALSE]

Exists(e) == profile[e].transport # "none"
IsLocal(e) == profile[e].transport = "local"

Permissions(e) ==
  {k \in {"power", "experimental"} :
     profile[e].options[k] /\ (IsLocal(e) <=> k = "power")}

Init ==
  /\ profile \in Stored
  /\ life = [e \in Entries |-> "idle"]
  /\ unit = [e \in Entries |-> [s \in Slots |-> Gone]]
  /\ current = [e \in Entries |-> 1]
  /\ wanted = [e \in Entries |-> FALSE]
  /\ form = [e \in Entries |-> "none"]
  /\ verifying = [e \in Entries |-> FALSE]
  /\ asked = 0
  /\ consent = [e \in Entries |-> Permissions(e)]

Asks == asked < MaxAsked /\ asked' = asked + 1

-----------------------------------------------------------------------------
(* config_flow.py.                                                         *)

(* Faulty variant: only what runs is in use.                               *)
ListenerFreeOfRunning(e, x) ==
  \A f \in Entries \ {e} : ~(IsLocal(f) /\ profile[f].address = x /\ life[f] = "loaded")

ListenerFree(e, x) ==
  \A f \in Entries \ {e} : ~(IsLocal(f) /\ profile[f].address = x)

(* Faulty variant: the permission to start is carried over.                *)
OptionsKeptForLocalAlways(e) == [NoOptions EXCEPT !.power = profile[e].options.power]

(* _finish_entry: what remains of the options of an entry that exists.     *)
OptionsKeptForLocal(e) ==
  [NoOptions EXCEPT !.power = IsLocal(e) /\ profile[e].options.power]

OptionsKeptForCloud(e) == [NoOptions EXCEPT !.experimental = profile[e].options.experimental]

(* Data is replaced as a whole and the entry set up, anew if it exists.    *)
Stores(e, data) ==
  /\ profile' = [profile EXCEPT ![e] = data]
  /\ wanted' = [wanted EXCEPT ![e] = TRUE]
  /\ consent' = IF data.transport = profile[e].transport THEN consent
                ELSE [consent EXCEPT ![e] = {}]

FinishesCloud(e) ==
  Stores(e, [OnCloud EXCEPT !.options = OptionsKeptForCloud(e)])

FinishesLocal(e, x) ==
  Stores(e, [OnListener(x) EXCEPT !.options = OptionsKeptForLocal(e)])

(* The cloud form of a new entry, of reconfiguration or reauthentication   *)
(* is submitted; login and status are awaited before anything is stored.   *)
CredentialsSubmitted(e) ==
  /\ ~verifying[e] /\ Asks
  /\ verifying' = [verifying EXCEPT ![e] = TRUE]
  /\ UNCHANGED <<profile, wanted, form, consent, life, unit, current>>

CredentialsTurnedDown(e) ==
  /\ verifying[e]
  /\ verifying' = [verifying EXCEPT ![e] = FALSE]
  /\ UNCHANGED <<profile, wanted, form, consent, life, unit, current, asked>>

CredentialsVerified(e) ==
  /\ verifying[e]
  /\ verifying' = [verifying EXCEPT ![e] = FALSE]
  /\ FinishesCloud(e)
  /\ UNCHANGED <<form, life, unit, current, asked>>

(* The local form is checked and stored without waiting in between.        *)
LocalSubmitted(e, x) ==
  /\ ListenerFree(e, x) /\ Asks
  /\ FinishesLocal(e, x)
  /\ UNCHANGED <<form, verifying, life, unit, current>>

OptionsShown(e) ==
  /\ Exists(e) /\ form[e] = "none" /\ Asks
  /\ form' = [form EXCEPT ![e] = profile[e].transport]
  /\ UNCHANGED <<profile, wanted, verifying, consent, life, unit, current>>

(* The form shown is stored as it is; only that of the cloud looks at what *)
(* the entry is by now, and fails on a local one.                          *)
OptionsSubmitted(e, allowed) ==
  LET new == CASE form[e] = "local" -> [NoOptions EXCEPT !.power = allowed]
               [] form[e] = "cloud" /\ ~IsLocal(e) -> [NoOptions EXCEPT !.experimental = allowed]
               [] OTHER -> profile[e].options
      what == IF IsLocal(e) THEN "power" ELSE "experimental" IN
  /\ form[e] # "none"
  /\ form' = [form EXCEPT ![e] = "none"]
  /\ profile' = [profile EXCEPT ![e].options = new]
  /\ wanted' = [wanted EXCEPT ![e] = @ \/ new # profile[e].options]
  /\ consent' = IF form[e] # profile[e].transport THEN consent
                ELSE [consent EXCEPT ![e] = IF allowed THEN @ \cup {what} ELSE @ \ {what}]
  /\ UNCHANGED <<verifying, life, unit, current, asked>>

Flow(e) ==
  \/ CredentialsSubmitted(e) \/ CredentialsTurnedDown(e) \/ CredentialsVerified(e)
  \/ \E x \in Addresses : LocalSubmitted(e, x)
  \/ OptionsShown(e)
  \/ \E allowed \in BOOLEAN : OptionsSubmitted(e, allowed)

-----------------------------------------------------------------------------
(* The coordinators, as far as UnloadContract tells.                       *)

Coordinator(e, s) == INSTANCE UnloadContract WITH
  phase <- unit[e][s].phase, queued <- unit[e][s].queued, sending <- unit[e][s].sending

(* Entities and the service of services.py reach the coordinator of the    *)
(* entry while its platforms are there; each call is one of async_command. *)
Reached(e, s) == s = current[e] /\ life[e] \in {"forwarding", "loaded", "unloading", "detaching"}

MovesTo(e, s, u) == unit' = [unit EXCEPT ![e][s] = u]

Called(e, s) ==
  /\ Reached(e, s) /\ unit[e][s].queued < MaxQueued
  /\ MovesTo(e, s, [unit[e][s] EXCEPT !.queued = @ + 1])
  /\ Coordinator(e, s)!Enqueue
  /\ UNCHANGED <<profileVars, life, current, asked>>

Works(e, s) ==
  /\ \/ \E q \in 0..MaxQueued, b \in BOOLEAN :
          /\ MovesTo(e, s, [unit[e][s] EXCEPT !.queued = q, !.sending = b])
          /\ Coordinator(e, s)!Issue \/ Coordinator(e, s)!Decline \/ Coordinator(e, s)!End
     \/ /\ MovesTo(e, s, Gone)
        /\ Coordinator(e, s)!Drained
  /\ UNCHANGED <<profileVars, life, current, asked>>

(* async_prepare_unload begins; a second one joins the first.              *)
Closing(e) ==
  [unit EXCEPT ![e][current[e]].phase = IF @ = "open" THEN "closing" ELSE @]

IsDrained(e) == unit[e][current[e]].phase = "drained"

-----------------------------------------------------------------------------
(* async_setup_entry.                                                      *)

Becomes(e, l) == life' = [life EXCEPT ![e] = l]

(* The coordinator is made from the profile as it is now.                  *)
SetupStarts(e) ==
  /\ Exists(e)
  /\ life[e] \in {"idle", "retry"} \/ (life[e] = "error" /\ wanted[e])
  /\ \E s \in Slots :
       /\ unit[e][s] = Gone
       /\ unit' = [unit EXCEPT ![e][s] = [Gone EXCEPT !.phase = "open",
                                                      !.address = profile[e].address]]
       /\ current' = [current EXCEPT ![e] = s]
  /\ Becomes(e, "starting")
  /\ wanted' = [wanted EXCEPT ![e] = FALSE]
  /\ UNCHANGED <<profile, form, verifying, consent, asked>>

Address(e) == unit[e][current[e]].address

IsBound(x) == \E f \in Entries, s \in Slots : unit[f][s].address = x /\ unit[f][s].bound

(* The listener is bound, or the first poll of the cloud has succeeded.    *)
Started(e) ==
  /\ life[e] = "starting"
  /\ Address(e) = None \/ ~IsBound(Address(e))
  /\ unit' = [unit EXCEPT ![e][current[e]].bound = Address(e) # None]
  /\ Becomes(e, "forwarding")
  /\ UNCHANGED <<profileVars, current, asked>>

(* Somebody has the port: the coordinator is closed before it is retried.  *)
BindFails(e) ==
  /\ life[e] = "starting" /\ Address(e) # None
  /\ unit' = Closing(e)
  /\ Becomes(e, "backing off")
  /\ UNCHANGED <<profileVars, current, asked>>

(* The first poll fails: nobody has seen the coordinator yet.  A login     *)
(* that is turned down is not retried.                                     *)
FirstPollFails(e) ==
  /\ life[e] = "starting" /\ Address(e) = None
  /\ MovesTo(e, current[e], Gone)
  /\ Becomes(e, "retry") \/ Becomes(e, "error")
  /\ UNCHANGED <<profileVars, current, asked>>

PlatformsReady(e) ==
  /\ life[e] = "forwarding" /\ Becomes(e, "loaded")
  /\ UNCHANGED <<profileVars, unit, current, asked>>

(* A platform fails or the setup is cancelled: roll back, then raise.      *)
PlatformsFail(e) ==
  /\ life[e] = "forwarding"
  /\ unit' = Closing(e)
  /\ Becomes(e, "rolling back")
  /\ UNCHANGED <<profileVars, current, asked>>

RolledBack(e) ==
  /\ life[e] \in {"backing off", "rolling back"} /\ IsDrained(e)
  /\ Becomes(e, IF life[e] = "backing off" THEN "retry" ELSE "error")
  /\ UNCHANGED <<profileVars, unit, current, asked>>

-----------------------------------------------------------------------------
(* async_unload_entry, whose work is a task of its own.                    *)

(* A reload that was asked for, or the user disables the entry.            *)
UnloadDue(e) ==
  /\ life[e] = "loaded"
  /\ (wanted[e] /\ UNCHANGED asked) \/ Asks

(* Faulty variant: the coordinator is not told.                            *)
UnloadStartsOpen(e) ==
  /\ UnloadDue(e)
  /\ Becomes(e, "unloading")
  /\ UNCHANGED <<profileVars, unit, current>>

UnloadStarts(e) ==
  /\ UnloadDue(e)
  /\ unit' = Closing(e)
  /\ Becomes(e, "unloading")
  /\ UNCHANGED <<profileVars, current>>

(* Faulty variant: the cancelled caller leaves, the task works on.         *)
CallerLeaves(e) ==
  /\ life[e] \in {"unloading", "detaching"} /\ Asks
  /\ Becomes(e, "idle")
  /\ UNCHANGED <<profileVars, unit, current>>

(* The caller of the unload is cancelled: it stays until the task is done. *)
CallerCancelled(e) ==
  /\ life[e] \in {"unloading", "detaching"} /\ Asks
  /\ UNCHANGED <<profileVars, life, unit, current>>

UnloadDrained(e) ==
  /\ life[e] = "unloading" /\ IsDrained(e)
  /\ Becomes(e, "detaching")
  /\ UNCHANGED <<profileVars, unit, current, asked>>

(* Home Assistant does not set up an entry again that failed to unload.    *)
PlatformsUnloaded(e) ==
  /\ life[e] = "detaching"
  /\ \/ Becomes(e, "idle") /\ UNCHANGED wanted
     \/ Becomes(e, "failed") /\ wanted' = [wanted EXCEPT ![e] = FALSE]
  /\ UNCHANGED <<profile, form, verifying, consent, unit, current, asked>>

(* EVENT_HOMEASSISTANT_STOP: the local listeners that are up are closed.   *)
Stop ==
  /\ Asks
  /\ \E e \in Entries :
       Reached(e, current[e]) /\ Address(e) # None /\ unit[e][current[e]].phase = "open"
  /\ unit' = [e \in Entries |->
       IF Reached(e, current[e]) /\ Address(e) # None THEN Closing(e)[e] ELSE unit[e]]
  /\ UNCHANGED <<profileVars, life, current>>

ReloadRequested(e) ==
  /\ Exists(e) /\ ~wanted[e] /\ Asks
  /\ wanted' = [wanted EXCEPT ![e] = TRUE]
  /\ UNCHANGED <<profile, form, verifying, consent, life, unit, current>>

-----------------------------------------------------------------------------
(* What goes on by itself: a setup that started, a rollback, an unload.    *)
Proceeds(e) ==
  \/ Started(e) \/ BindFails(e) \/ FirstPollFails(e)
  \/ PlatformsReady(e) \/ PlatformsFail(e) \/ RolledBack(e)
  \/ UnloadDrained(e) \/ PlatformsUnloaded(e)

(* A reload that was asked for and a setup that is retried.                *)
IsDue(e) == wanted[e] \/ life[e] = "retry"
Reloads(e) == IsDue(e) /\ (SetupStarts(e) \/ (UnloadStarts(e) /\ UNCHANGED asked))

Next ==
  \/ \E e \in Entries :
       \/ Flow(e) \/ Proceeds(e)
       \/ SetupStarts(e) \/ UnloadStarts(e) \/ CallerCancelled(e) \/ ReloadRequested(e)
       \/ \E s \in Slots : Called(e, s) \/ Works(e, s)
  \/ Stop

(* Home Assistant carries out what it scheduled, tasks that can go on do,  *)
(* and coordinators keep their contract.  Nothing asks users to act.       *)
Fairness ==
  \A e \in Entries :
    /\ WF_vars(Proceeds(e)) /\ WF_vars(Reloads(e))
    /\ \A s \in Slots : WF_vars(Works(e, s))

Spec == Init /\ [][Next]_vars
FairSpec == Spec /\ Fairness

-----------------------------------------------------------------------------
(* Properties.                                                             *)

Live(e) == {s \in Slots : unit[e][s] # Gone}

(* However setups fail and whoever is cancelled, at most one coordinator   *)
(* of an entry works, the last one made, and none is left behind by a      *)
(* setup that failed or an unload that ended (async_unload_entry:          *)
(* "propagating cancellation now could allow replacement before drain").   *)
OneCoordinator ==
  \A e \in Entries :
    /\ Live(e) \subseteq {current[e]}
    /\ Live(e) # {} =>
         life[e] \in {"starting", "forwarding", "loaded", "unloading",
                     "backing off", "rolling back"}

(* A permission that can start the appliance or reach the vendor's         *)
(* experimental actions was given on the connection it is used on, though  *)
(* forms may outlive the connection they were shown for; and an entry has  *)
(* credentials only for the cloud.                                         *)
PermissionIsGiven ==
  \A e \in Entries :
    /\ IsLocal(e) /\ profile[e].options.power => "power" \in consent[e]
    /\ ~IsLocal(e) /\ profile[e].options.experimental => "experimental" \in consent[e]
    /\ profile[e].secrets <=> profile[e].transport = "cloud"

(* No two entries are stored for the same listener, whether they run, are  *)
(* being retried or are disabled.                                          *)
ListenersDiffer ==
  \A e, f \in Entries :
    e # f /\ IsLocal(e) /\ IsLocal(f) => profile[e].address # profile[f].address

(* A profile that is stored comes into force: the coordinator of the old   *)
(* one drains and one is made from the new, unless Home Assistant could    *)
(* not unload the platforms.                                               *)
Runs(e) == \A s \in Live(e) : unit[e][s].address = profile[e].address

ProfileComesIntoForce ==
  \A e \in Entries : wanted[e] ~> life[e] = "failed" \/ (~wanted[e] /\ Runs(e))
=============================================================================
