------------------------- MODULE EntryLifecycle_proofs -------------------------
(* Proofs about EntryLifecycle, for any number of entries and listeners.   *)
EXTENDS EntryLifecycle, TLAPS

Busy == {"starting", "forwarding", "loaded", "unloading", "backing off", "rolling back"}
Lives == Busy \cup {"idle", "retry", "error", "failed", "detaching"}
Unit == [phase : {"open", "closing", "drained"}, queued : Nat, sending : BOOLEAN,
         address : Addresses \cup {None}, bound : BOOLEAN]
Transports == {"none", "cloud", "local"}

TypeOK ==
  /\ profile \in [Entries -> Profile]
  /\ life \in [Entries -> Lives]
  /\ unit \in [Entries -> [Slots -> Unit]]
  /\ current \in [Entries -> Slots]
  /\ form \in [Entries -> Transports]
  /\ consent \in [Entries -> SUBSET {"power", "experimental"}]

-----------------------------------------------------------------------------
(* The coordinators.                                                       *)

(* What holds of an entry with life l, whose coordinators are us and whose *)
(* last one is at c: nothing remains of a coordinator that is drained, a   *)
(* setup that starts has an open one, and only the last may be there.      *)
Sound(l, us, c) ==
  /\ \A s \in Slots : us[s].phase = "drained" => us[s] = Gone
  /\ l = "starting" => us[c].phase = "open"
  /\ \A s \in Slots : us[s] # Gone => s = c /\ l \in Busy

UnitsSound == \A e \in Entries : Sound(life[e], unit[e], current[e])

UnitsKept ==
  /\ life \in [Entries -> Lives] /\ unit \in [Entries -> [Slots -> Unit]]
  /\ current \in [Entries -> Slots] /\ UnitsSound

LEMMA GoneType == Gone \in Unit /\ Gone.phase = "drained" /\ Gone.queued = 0 /\ ~Gone.sending
BY DEF Gone, Unit

(* An action that concerns one entry needs to be looked at there only.     *)
LEMMA SoundOfOne ==
  ASSUME TypeOK, UnitsSound, NEW e \in Entries, NEW l \in Lives, NEW us \in [Slots -> Unit],
         NEW c \in Slots, Sound(l, us, c),
         life' = [life EXCEPT ![e] = l], unit' = [unit EXCEPT ![e] = us],
         current' = [current EXCEPT ![e] = c]
  PROVE  UnitsKept'
<1>1. /\ life' \in [Entries -> Lives] /\ unit' \in [Entries -> [Slots -> Unit]]
      /\ current' \in [Entries -> Slots]
  BY DEF TypeOK
<1>2. ASSUME NEW f \in Entries
      PROVE  Sound(life'[f], unit'[f], current'[f])
  <2>1. CASE f = e
    <3>1. life'[f] = l /\ unit'[f] = us /\ current'[f] = c
      BY <2>1 DEF TypeOK
    <3>2. QED
      BY <3>1
  <2>2. CASE f # e
    <3>1. life'[f] = life[f] /\ unit'[f] = unit[f] /\ current'[f] = current[f]
      BY <2>2 DEF TypeOK
    <3>2. QED
      BY <3>1 DEF UnitsSound
  <2>3. QED
    BY <2>1, <2>2
<1>3. QED
  BY <1>1, <1>2 DEF UnitsSound, UnitsKept

(* One coordinator of an entry changes.                                    *)
LEMMA MoveSound ==
  ASSUME TypeOK, UnitsSound, NEW e \in Entries, NEW s \in Slots, NEW u \in Unit,
         u.phase = "drained" => u = Gone, unit[e][s] # Gone,
         life[e] = "starting" => u.phase = "open",
         MovesTo(e, s, u), UNCHANGED <<life, current>>
  PROVE  UnitsKept'
<1> DEFINE l == life[e]
           c == current[e]
           us == [unit[e] EXCEPT ![s] = u]
<1>1. us \in [Slots -> Unit] /\ us[s] = u /\ \A t \in Slots \ {s} : us[t] = unit[e][t]
  BY DEF TypeOK
<1>2. unit' = [unit EXCEPT ![e] = us]
  BY DEF MovesTo, TypeOK
<1>3. s = c /\ l \in Busy /\ l \in Lives /\ c \in Slots
  BY DEF UnitsSound, Sound, TypeOK
<1> HIDE DEF us
<1>4. Sound(l, us, c)
  BY <1>1, <1>3 DEF UnitsSound, Sound
<1>5. life' = [life EXCEPT ![e] = l] /\ current' = [current EXCEPT ![e] = c]
  BY DEF TypeOK
<1> HIDE DEF l, c
<1>6. QED
  BY <1>1, <1>2, <1>3, <1>4, <1>5, SoundOfOne

(* A call reaches an open coordinator only.                                *)
LEMMA CalledSound ==
  ASSUME TypeOK, UnitsSound, NEW e \in Entries, NEW s \in Slots, Called(e, s)
  PROVE  UnitsKept'
<1> DEFINE u == [unit[e][s] EXCEPT !.queued = @ + 1]
<1>1. unit[e][s].phase = "open" /\ unit[e][s] \in Unit
  BY DEF Called, Coordinator!Enqueue, TypeOK
<1>2. u \in Unit /\ u.phase = "open"
  BY <1>1 DEF Unit
<1>3. MovesTo(e, s, u) /\ UNCHANGED <<life, current>>
  BY DEF Called
<1> HIDE DEF u
<1>4. QED
  BY <1>1, <1>2, <1>3, GoneType, MoveSound

(* What is gone does not work, and what drains is gone.                    *)
LEMMA WorksSound ==
  ASSUME TypeOK, UnitsSound, NEW e \in Entries, NEW s \in Slots, Works(e, s)
  PROVE  UnitsKept'
<1>1. unit[e][s] \in Unit /\ UNCHANGED <<life, current>>
  BY DEF TypeOK, Works
<1>2. ASSUME NEW q \in 0..MaxQueued, NEW b \in BOOLEAN,
             MovesTo(e, s, [unit[e][s] EXCEPT !.queued = q, !.sending = b]),
             Coordinator(e, s)!Issue \/ Coordinator(e, s)!Decline \/ Coordinator(e, s)!End
      PROVE  UnitsKept'
  <2> DEFINE u == [unit[e][s] EXCEPT !.queued = q, !.sending = b]
  <2>1. u \in Unit /\ u.phase = unit[e][s].phase
    <3>1. q \in Nat
      BY LifecycleConstants
    <3>2. QED
      BY <1>1, <3>1 DEF Unit
  <2>2. unit[e][s].queued > 0 \/ unit[e][s].sending
    BY <1>2 DEF Coordinator!Issue, Coordinator!Decline, Coordinator!End
  <2>3. unit[e][s] # Gone
    BY <2>2, GoneType
  <2>4. unit[e][s].phase # "drained" /\ (life[e] = "starting" => unit[e][s].phase = "open")
    BY <2>3 DEF UnitsSound, Sound
  <2>5. MovesTo(e, s, u)
    BY <1>2
  <2> HIDE DEF u
  <2>6. QED
    BY <1>1, <2>1, <2>3, <2>4, <2>5, MoveSound
<1>3. CASE MovesTo(e, s, Gone) /\ Coordinator(e, s)!Drained
  <2>1. unit[e][s].phase = "closing"
    BY <1>3 DEF Coordinator!Drained
  <2>2. unit[e][s] # Gone
    BY <2>1, GoneType
  <2>3. life[e] # "starting"
    BY <2>1, <2>2 DEF UnitsSound, Sound
  <2>4. QED
    BY <1>1, <1>3, <2>2, <2>3, GoneType, MoveSound
<1>4. QED
  BY <1>2, <1>3 DEF Works

(* Closing leaves what is gone alone.                                      *)
LEMMA ClosedUnits ==
  ASSUME TypeOK, UnitsSound, NEW e \in Entries
  PROVE  /\ Closing(e) = [unit EXCEPT ![e] = Closing(e)[e]]
         /\ Closing(e)[e] \in [Slots -> Unit]
         /\ \A s \in Slots : /\ Closing(e)[e][s] = Gone <=> unit[e][s] = Gone
                             /\ Closing(e)[e][s].phase = "drained" => Closing(e)[e][s] = Gone
<1> DEFINE c == current[e]
           p == IF unit[e][c].phase = "open" THEN "closing" ELSE unit[e][c].phase
           u == [unit[e][c] EXCEPT !.phase = p]
           us == [unit[e] EXCEPT ![c] = u]
<1>1. c \in Slots /\ unit[e] \in [Slots -> Unit] /\ unit[e][c] \in Unit
  BY DEF TypeOK
<1>2. u \in Unit /\ u.phase = p
  BY <1>1 DEF Unit
<1>3. Closing(e) = [unit EXCEPT ![e] = us] /\ Closing(e)[e] = us
  BY <1>1 DEF Closing, TypeOK
<1>4. us[c] = u /\ \A s \in Slots \ {c} : us[s] = unit[e][s]
  BY <1>1
<1>5. u = Gone <=> unit[e][c] = Gone
  <2>1. CASE unit[e][c].phase = "open"
    <3>1. u.phase = "closing" /\ unit[e][c].phase = "open"
      BY <1>2, <2>1
    <3> HIDE DEF u
    <3>2. QED
      BY <3>1, GoneType
  <2>2. CASE unit[e][c].phase # "open"
    <3>1. u = unit[e][c]
      BY <1>1, <2>2 DEF Unit
    <3>2. QED
      BY <3>1
  <2>3. QED
    BY <2>1, <2>2
<1>6. p = "drained" => unit[e][c] = Gone
  BY <1>1 DEF UnitsSound, Sound
<1>7. us \in [Slots -> Unit]
  BY <1>1, <1>2
<1> HIDE DEF us, u, p
<1>8. \A s \in Slots : unit[e][s].phase = "drained" => unit[e][s] = Gone
  BY DEF UnitsSound, Sound
<1>9. \A s \in Slots : /\ us[s] = Gone <=> unit[e][s] = Gone
                       /\ us[s].phase = "drained" => us[s] = Gone
  BY <1>2, <1>4, <1>5, <1>6, <1>8
<1>10. QED
  BY <1>3, <1>7, <1>9

(* Of an entry that is not starting, the coordinator may be told to close. *)
LEMMA CloseSound ==
  ASSUME TypeOK, UnitsSound, NEW e \in Entries, NEW l \in Busy \ {"starting"}, life[e] \in Busy,
         unit' = Closing(e), Becomes(e, l), UNCHANGED current
  PROVE  UnitsKept'
<1> DEFINE us == Closing(e)[e]
           c == current[e]
<1>1. l \in Lives /\ c \in Slots /\ us \in [Slots -> Unit]
  BY ClosedUnits DEF Lives, TypeOK
<1>2. Sound(l, us, c)
  BY ClosedUnits DEF UnitsSound, Sound
<1>3. /\ life' = [life EXCEPT ![e] = l] /\ unit' = [unit EXCEPT ![e] = us]
      /\ current' = [current EXCEPT ![e] = c]
  BY ClosedUnits DEF Becomes, TypeOK
<1> HIDE DEF us, c
<1>4. QED
  BY <1>1, <1>2, <1>3, SoundOfOne

(* The life of an entry goes on while its coordinators stay as they are.   *)
LEMMA LifeSound ==
  ASSUME TypeOK, UnitsSound, NEW e \in Entries, NEW l \in Lives \ {"starting"},
         l \notin Busy => \A s \in Slots : unit[e][s] = Gone,
         Becomes(e, l), UNCHANGED <<unit, current>>
  PROVE  UnitsKept'
<1> DEFINE us == unit[e]
           c == current[e]
<1>1. c \in Slots /\ us \in [Slots -> Unit]
  BY DEF TypeOK
<1>2. Sound(l, us, c)
  BY DEF UnitsSound, Sound
<1>3. /\ life' = [life EXCEPT ![e] = l] /\ unit' = [unit EXCEPT ![e] = us]
      /\ current' = [current EXCEPT ![e] = c]
  BY DEF Becomes, TypeOK
<1> HIDE DEF us, c
<1>4. QED
  BY <1>1, <1>2, <1>3, SoundOfOne

(* Once the last coordinator is drained, there is none.                    *)
LEMMA DrainedLeavesNone ==
  ASSUME TypeOK, UnitsSound, NEW e \in Entries, IsDrained(e) \/ life[e] \notin Busy
  PROVE  \A s \in Slots : unit[e][s] = Gone
BY DEF UnitsSound, Sound, IsDrained, TypeOK

(* A setup makes a coordinator where none is.                              *)
LEMMA SetupSound ==
  ASSUME TypeOK, UnitsSound, NEW e \in Entries, SetupStarts(e)
  PROVE  UnitsKept'
<1>1. PICK s \in Slots :
        /\ unit' = [unit EXCEPT ![e][s] = [Gone EXCEPT !.phase = "open",
                                                       !.address = profile[e].address]]
        /\ current' = [current EXCEPT ![e] = s]
  BY DEF SetupStarts
<1> DEFINE u == [Gone EXCEPT !.phase = "open", !.address = profile[e].address]
           us == [unit[e] EXCEPT ![s] = u]
           l == "starting"
<1>2. u \in Unit /\ u.phase = "open"
  <2>1. profile[e].address \in Addresses \cup {None}
    BY DEF TypeOK, Profile
  <2>2. QED
    BY <2>1 DEF Gone, Unit
<1>3. us \in [Slots -> Unit] /\ us[s] = u /\ \A t \in Slots \ {s} : us[t] = unit[e][t]
  BY <1>2 DEF TypeOK
<1>4. /\ life' = [life EXCEPT ![e] = l] /\ unit' = [unit EXCEPT ![e] = us]
      /\ l \in Busy /\ l \in Lives
  BY <1>1 DEF SetupStarts, Becomes, TypeOK, Busy, Lives
<1>5. \A t \in Slots : unit[e][t] = Gone
  BY DrainedLeavesNone DEF SetupStarts, Busy
<1> HIDE DEF u, us
<1>6. Sound(l, us, s)
  BY <1>2, <1>3, <1>4, <1>5, GoneType DEF Sound
<1> HIDE DEF l
<1>7. QED
  BY <1>1, <1>3, <1>4, <1>6, SoundOfOne

(* The steps of a setup, of a rollback and of an unload.                   *)
LEMMA ProceedsSound ==
  ASSUME TypeOK, UnitsSound, NEW e \in Entries, Proceeds(e)
  PROVE  UnitsKept'
<1> USE DEF Busy, Lives
<1>1. CASE Started(e)
  <2> DEFINE c == current[e]
             u == [unit[e][c] EXCEPT !.bound = Address(e) # None]
             us == [unit[e] EXCEPT ![c] = u]
             l == "forwarding"
  <2>1. c \in Slots /\ unit[e][c] \in Unit /\ l \in Lives /\ life[e] = "starting"
    BY <1>1 DEF TypeOK, Started
  <2>2. u \in Unit /\ u.phase = unit[e][c].phase
    BY <2>1 DEF Unit
  <2>3. us \in [Slots -> Unit] /\ us[c] = u /\ \A s \in Slots \ {c} : us[s] = unit[e][s]
    BY <2>1, <2>2 DEF TypeOK
  <2>4. /\ life' = [life EXCEPT ![e] = l] /\ unit' = [unit EXCEPT ![e] = us]
        /\ current' = [current EXCEPT ![e] = c]
    BY <1>1 DEF Started, Becomes, TypeOK
  <2> HIDE DEF u, us
  <2>5. Sound(l, us, c)
    BY <2>1, <2>2, <2>3 DEF UnitsSound, Sound
  <2> HIDE DEF c, l
  <2>6. QED
    BY <2>1, <2>3, <2>4, <2>5, SoundOfOne
<1>2. CASE BindFails(e)
  BY <1>2, CloseSound DEF BindFails
<1>3. CASE FirstPollFails(e)
  <2> DEFINE c == current[e]
             us == [unit[e] EXCEPT ![c] = Gone]
  <2>1. PICK l \in {"retry", "error"} : Becomes(e, l)
    BY <1>3 DEF FirstPollFails
  <2>2. c \in Slots /\ us \in [Slots -> Unit]
    BY GoneType DEF TypeOK
  <2>3. \A s \in Slots : us[s] = Gone
    BY DEF TypeOK, UnitsSound, Sound
  <2>4. /\ life' = [life EXCEPT ![e] = l] /\ unit' = [unit EXCEPT ![e] = us]
        /\ current' = [current EXCEPT ![e] = c]
    BY <1>3, <2>1 DEF FirstPollFails, MovesTo, Becomes, TypeOK
  <2>5. Sound(l, us, c)
    BY <2>1, <2>3 DEF Sound
  <2> HIDE DEF us, c
  <2>6. QED
    BY <2>1, <2>2, <2>4, <2>5, SoundOfOne
<1>4. CASE PlatformsReady(e)
  BY <1>4, LifeSound DEF PlatformsReady
<1>5. CASE PlatformsFail(e)
  BY <1>5, CloseSound DEF PlatformsFail
<1>6. CASE RolledBack(e)
  <2>1. PICK l \in {"retry", "error"} : Becomes(e, l)
    BY <1>6 DEF RolledBack
  <2>2. QED
    BY <1>6, <2>1, DrainedLeavesNone, LifeSound DEF RolledBack
<1>7. CASE UnloadDrained(e)
  BY <1>7, DrainedLeavesNone, LifeSound DEF UnloadDrained
<1>8. CASE PlatformsUnloaded(e)
  <2>1. PICK l \in {"idle", "failed"} : Becomes(e, l)
    BY <1>8 DEF PlatformsUnloaded
  <2>2. QED
    BY <1>8, <2>1, DrainedLeavesNone, LifeSound DEF PlatformsUnloaded
<1>9. QED
  BY <1>1, <1>2, <1>3, <1>4, <1>5, <1>6, <1>7, <1>8 DEF Proceeds

(* Home Assistant stops: coordinators that are up close where they are.    *)
LEMMA StopSound ==
  ASSUME TypeOK, UnitsSound, Stop
  PROVE  UnitsKept'
<1>1. life' = life /\ current' = current
  BY DEF Stop
<1>2. ASSUME NEW e \in Entries
      PROVE  unit'[e] \in [Slots -> Unit] /\ Sound(life[e], unit'[e], current[e])
  <2>1. CASE unit'[e] = unit[e]
    BY <2>1 DEF TypeOK, UnitsSound
  <2>2. CASE unit'[e] = Closing(e)[e] /\ Reached(e, current[e])
    BY <2>2, ClosedUnits DEF UnitsSound, Sound, Reached
  <2>3. QED
    BY <2>1, <2>2 DEF Stop
<1>3. unit' \in [Entries -> [Slots -> Unit]]
  BY <1>2 DEF Stop
<1>4. QED
  BY <1>1, <1>2, <1>3 DEF UnitsKept, UnitsSound, TypeOK

-----------------------------------------------------------------------------
(* The profiles.                                                           *)

(* What holds of a profile p with a form f open and consent c: only what   *)
(* exists shows a form, and a permission belongs to the connection it was  *)
(* given on.  An entry that changes its connection starts without any that *)
(* it has on no other, which makes the invariant inductive.                *)
Allowed(p, f, c) ==
  /\ f # "none" => p.transport # "none"
  /\ p.options.experimental => p.transport = "cloud"
  /\ p.transport = "local" /\ p.options.power => "power" \in c
  /\ p.transport # "local" /\ p.options.experimental => "experimental" \in c
  /\ p.secrets <=> p.transport = "cloud"

ProfilesSound ==
  /\ \A e \in Entries : Allowed(profile[e], form[e], consent[e])
  /\ ListenersDiffer

Consents == SUBSET {"power", "experimental"}

ProfilesKept ==
  /\ profile \in [Entries -> Profile] /\ form \in [Entries -> Transports]
  /\ consent \in [Entries -> Consents]
  /\ ProfilesSound

LEMMA ProfileOfOne ==
  ASSUME TypeOK, ProfilesSound, NEW e \in Entries, NEW p \in Profile, NEW f \in Transports,
         NEW c \in Consents, Allowed(p, f, c),
         p.transport = "local" =>
           \A g \in Entries \ {e} : ~(IsLocal(g) /\ profile[g].address = p.address),
         profile' = [profile EXCEPT ![e] = p], form' = [form EXCEPT ![e] = f],
         consent' = [consent EXCEPT ![e] = c]
  PROVE  ProfilesKept'
<1>1. /\ profile' \in [Entries -> Profile] /\ form' \in [Entries -> Transports]
      /\ consent' \in [Entries -> Consents]
  BY DEF TypeOK, Consents
<1>2. /\ profile'[e] = p /\ form'[e] = f /\ consent'[e] = c
      /\ \A g \in Entries \ {e} :
           profile'[g] = profile[g] /\ form'[g] = form[g] /\ consent'[g] = consent[g]
  BY DEF TypeOK
<1>3. \A g \in Entries : Allowed(profile'[g], form'[g], consent'[g])
  BY <1>2 DEF ProfilesSound
<1>4. ListenersDiffer'
  BY <1>2 DEF ProfilesSound, ListenersDiffer, IsLocal
<1>5. QED
  BY <1>1, <1>3, <1>4 DEF ProfilesKept, ProfilesSound

(* Options that are kept have their type, ...                              *)
LEMMA OptionsTypes ==
  ASSUME NEW b \in BOOLEAN
  PROVE  /\ NoOptions \in Options /\ ~NoOptions.power /\ ~NoOptions.experimental
         /\ [NoOptions EXCEPT !.power = b] \in Options
         /\ [NoOptions EXCEPT !.power = b].power = b
         /\ ~[NoOptions EXCEPT !.power = b].experimental
         /\ [NoOptions EXCEPT !.experimental = b] \in Options
         /\ [NoOptions EXCEPT !.experimental = b].experimental = b
         /\ ~[NoOptions EXCEPT !.experimental = b].power
<1>1. NoOptions \in Options /\ NoOptions.power = FALSE /\ NoOptions.experimental = FALSE
  BY DEF NoOptions, Options
<1>2. QED
  BY <1>1 DEF Options

(* ... and so has a profile whose options are replaced.                    *)
LEMMA ProfileWith ==
  ASSUME NEW q \in Profile, NEW o \in Options
  PROVE  LET p == [q EXCEPT !.options = o] IN
         /\ p \in Profile /\ p.options = o
         /\ p.transport = q.transport /\ p.address = q.address /\ p.secrets = q.secrets
BY DEF Profile

LEMMA NoEntryType == NoEntry \in Profile
BY OptionsTypes DEF NoEntry, Profile

LEMMA CloudType ==
  OnCloud \in Profile /\ OnCloud.transport = "cloud" /\ OnCloud.secrets
<1>1. [NoEntry EXCEPT !.transport = "cloud"] \in Profile
  BY NoEntryType DEF Profile
<1>2. QED
  BY NoEntryType DEF OnCloud, Profile

LEMMA ListenerType ==
  ASSUME NEW x \in Addresses
  PROVE  /\ OnListener(x) \in Profile /\ OnListener(x).transport = "local"
         /\ OnListener(x).address = x /\ ~OnListener(x).secrets
<1>1. NoEntry.secrets = FALSE
  BY DEF NoEntry
<1>2. QED
  BY <1>1, NoEntryType DEF OnListener, Profile

(* What a flow stores for the cloud ...                                    *)
LEMMA CloudSound ==
  ASSUME TypeOK, ProfilesSound, NEW e \in Entries, FinishesCloud(e), UNCHANGED form
  PROVE  ProfilesKept'
<1> DEFINE b == profile[e].options.experimental
           p == [OnCloud EXCEPT !.options = OptionsKeptForCloud(e)]
           c == IF profile[e].transport = "cloud" THEN consent[e] ELSE {}
           f == form[e]
<1>1. b \in BOOLEAN /\ f \in Transports /\ c \in Consents
  BY DEF TypeOK, Profile, Options, Consents
<1>2. /\ OptionsKeptForCloud(e) \in Options
      /\ OptionsKeptForCloud(e).experimental = b /\ ~OptionsKeptForCloud(e).power
  BY <1>1, OptionsTypes DEF OptionsKeptForCloud
<1>3. /\ p \in Profile /\ p.transport = "cloud" /\ p.secrets
      /\ p.options.experimental = b /\ ~p.options.power
  BY <1>2, CloudType, ProfileWith
<1>4. /\ profile' = [profile EXCEPT ![e] = p] /\ form' = [form EXCEPT ![e] = f]
      /\ consent' = [consent EXCEPT ![e] = c]
  BY <1>3 DEF FinishesCloud, Stores, TypeOK
<1>5. Allowed(profile[e], form[e], consent[e])
  BY DEF ProfilesSound
<1> HIDE DEF p
<1>6. Allowed(p, f, c) /\ p.transport # "local"
  BY <1>3, <1>5 DEF Allowed
<1> HIDE DEF b, c, f
<1>7. QED
  BY <1>1, <1>3, <1>4, <1>6, ProfileOfOne

(* ... and for a listener that no other entry has.                         *)
LEMMA LocalSound ==
  ASSUME TypeOK, ProfilesSound, NEW e \in Entries, NEW x \in Addresses, ListenerFree(e, x),
         FinishesLocal(e, x), UNCHANGED form
  PROVE  ProfilesKept'
<1> DEFINE b == IsLocal(e) /\ profile[e].options.power
           p == [OnListener(x) EXCEPT !.options = OptionsKeptForLocal(e)]
           c == IF profile[e].transport = "local" THEN consent[e] ELSE {}
           f == form[e]
<1>1. b \in BOOLEAN /\ f \in Transports /\ c \in Consents
  BY DEF TypeOK, Profile, Options, Consents, IsLocal
<1>2. /\ OptionsKeptForLocal(e) \in Options
      /\ OptionsKeptForLocal(e).power = b /\ ~OptionsKeptForLocal(e).experimental
  BY <1>1, OptionsTypes DEF OptionsKeptForLocal
<1>3. /\ p \in Profile /\ p.transport = "local" /\ p.address = x /\ ~p.secrets
      /\ p.options.power = b /\ ~p.options.experimental
  BY <1>2, ListenerType, ProfileWith
<1>4. /\ profile' = [profile EXCEPT ![e] = p] /\ form' = [form EXCEPT ![e] = f]
      /\ consent' = [consent EXCEPT ![e] = c]
  BY <1>3 DEF FinishesLocal, Stores, TypeOK
<1>5. Allowed(profile[e], form[e], consent[e])
  BY DEF ProfilesSound
<1>6. \A g \in Entries \ {e} : ~(IsLocal(g) /\ profile[g].address = p.address)
  BY <1>3 DEF ListenerFree
<1> HIDE DEF p
<1>7. Allowed(p, f, c)
  BY <1>3, <1>5 DEF Allowed, IsLocal
<1> HIDE DEF b, c, f
<1>8. QED
  BY <1>1, <1>3, <1>4, <1>6, <1>7, ProfileOfOne

(* A form of options, however old, gives no permission to a connection it  *)
(* was not shown for.                                                      *)
LEMMA OptionsSound ==
  ASSUME TypeOK, ProfilesSound, NEW e \in Entries, NEW allowed \in BOOLEAN,
         OptionsSubmitted(e, allowed)
  PROVE  ProfilesKept'
<1> DEFINE old == profile[e]
           what == IF IsLocal(e) THEN "power" ELSE "experimental"
           new == CASE form[e] = "local" -> [NoOptions EXCEPT !.power = allowed]
                    [] form[e] = "cloud" /\ ~IsLocal(e) ->
                         [NoOptions EXCEPT !.experimental = allowed]
                    [] OTHER -> old.options
           p == [old EXCEPT !.options = new]
           c == IF form[e] # old.transport THEN consent[e]
                ELSE IF allowed THEN consent[e] \cup {what} ELSE consent[e] \ {what}
           f == "none"
<1>1. old \in Profile /\ form[e] \in Transports /\ form[e] # "none"
  BY DEF TypeOK, OptionsSubmitted
<1>2. f \in Transports /\ c \in Consents
  BY DEF TypeOK, Transports, Consents
<1>3. new \in Options
  BY <1>1, OptionsTypes DEF Profile, Options
<1>4. /\ p \in Profile /\ p.options = new /\ p.transport = old.transport
      /\ p.secrets = old.secrets /\ p.address = old.address
  BY <1>1, <1>3 DEF Profile
<1>5. /\ profile' = [profile EXCEPT ![e] = p] /\ form' = [form EXCEPT ![e] = f]
      /\ consent' = [consent EXCEPT ![e] = c]
  <2>1. profile' = [profile EXCEPT ![e] = p]
    BY DEF OptionsSubmitted, TypeOK
  <2>2. consent' = [consent EXCEPT ![e] = c]
    BY DEF OptionsSubmitted, TypeOK
  <2>3. QED
    BY <2>1, <2>2 DEF OptionsSubmitted
<1>6. Allowed(old, form[e], consent[e]) /\ old.transport \in Transports
  BY <1>1 DEF ProfilesSound, Profile, Transports
<1>7. IsLocal(e) <=> old.transport = "local"
  BY DEF IsLocal
<1> HIDE DEF p, old
<1>8. Allowed(p, f, c)
  <2>1. CASE form[e] = "local"
    <3>1. new.power = allowed /\ ~new.experimental
      BY <2>1, OptionsTypes
    <3> HIDE DEF new
    <3>2. QED
      BY <1>1, <1>4, <1>6, <1>7, <2>1, <3>1 DEF Allowed
  <2>2. CASE form[e] = "cloud" /\ ~IsLocal(e)
    <3>1. new.experimental = allowed /\ ~new.power
      BY <2>2, OptionsTypes
    <3> HIDE DEF new
    <3>2. old.transport = "cloud"
      BY <1>6, <1>7, <2>2 DEF Allowed, Transports
    <3>3. QED
      BY <1>1, <1>4, <1>6, <1>7, <2>2, <3>1, <3>2 DEF Allowed
  <2>3. CASE form[e] = "cloud" /\ IsLocal(e)
    <3>1. new = old.options /\ c = consent[e]
      BY <1>7, <2>3
    <3> HIDE DEF new, c
    <3>2. QED
      BY <1>4, <1>6, <2>3, <3>1 DEF Allowed
  <2>4. QED
    BY <1>1, <2>1, <2>2, <2>3 DEF Transports
<1>9. p.transport = "local" =>
        \A g \in Entries \ {e} : ~(IsLocal(g) /\ profile[g].address = p.address)
  BY <1>4, <1>7 DEF ProfilesSound, ListenersDiffer, old
<1> HIDE DEF f, c, new
<1>10. QED
  BY <1>2, <1>4, <1>5, <1>8, <1>9, ProfileOfOne

LEMMA ProfilesUnchanged ==
  ASSUME TypeOK, ProfilesSound, UNCHANGED <<profile, form, consent>>
  PROVE  ProfilesKept'
<1>1. /\ profile' \in [Entries -> Profile] /\ form' \in [Entries -> Transports]
      /\ consent' \in [Entries -> Consents]
  BY DEF TypeOK, Consents
<1>2. ProfilesSound'
  BY DEF ProfilesSound, ListenersDiffer, IsLocal
<1>3. QED
  BY <1>1, <1>2 DEF ProfilesKept

LEMMA FlowSound ==
  ASSUME TypeOK, ProfilesSound, NEW e \in Entries, Flow(e)
  PROVE  ProfilesKept'
<1>1. CASE CredentialsSubmitted(e) \/ CredentialsTurnedDown(e)
  BY <1>1, ProfilesUnchanged DEF CredentialsSubmitted, CredentialsTurnedDown
<1>2. CASE CredentialsVerified(e)
  BY <1>2, CloudSound DEF CredentialsVerified
<1>3. CASE \E x \in Addresses : LocalSubmitted(e, x)
  BY <1>3, LocalSound DEF LocalSubmitted
<1>4. CASE OptionsShown(e)
  <2> DEFINE p == profile[e]
             c == consent[e]
             f == profile[e].transport
  <2>1. p \in Profile /\ c \in Consents /\ f \in Transports
    BY DEF TypeOK, Profile, Transports, Consents
  <2>2. /\ profile' = [profile EXCEPT ![e] = p] /\ form' = [form EXCEPT ![e] = f]
        /\ consent' = [consent EXCEPT ![e] = c]
    BY <1>4 DEF OptionsShown, TypeOK
  <2>3. Allowed(p, f, c)
    BY DEF ProfilesSound, Allowed
  <2>4. p.transport = "local" =>
          \A g \in Entries \ {e} : ~(IsLocal(g) /\ profile[g].address = p.address)
    BY DEF ProfilesSound, ListenersDiffer, IsLocal
  <2> HIDE DEF p, c, f
  <2>5. QED
    BY <2>1, <2>2, <2>3, <2>4, ProfileOfOne
<1>5. CASE \E allowed \in BOOLEAN : OptionsSubmitted(e, allowed)
  BY <1>5, OptionsSound
<1>6. QED
  BY <1>1, <1>2, <1>3, <1>4, <1>5 DEF Flow

-----------------------------------------------------------------------------
(* The inductive invariant.                                                *)

IInv == TypeOK /\ UnitsSound /\ ProfilesSound

LEMMA Kept ==
  ASSUME UnitsKept', ProfilesKept'
  PROVE  IInv'
BY DEF IInv, TypeOK, UnitsKept, ProfilesKept, Consents

LEMMA InitSound == Init => IInv
<1> SUFFICES ASSUME Init
             PROVE  IInv
  OBVIOUS
<1>1. TypeOK
  <2>1. profile \in [Entries -> Profile]
    BY LifecycleConstants DEF Init
  <2>2. \A e \in Entries : Permissions(e) \in SUBSET {"power", "experimental"}
    BY DEF Permissions
  <2>3. QED
    BY <2>1, <2>2, GoneType DEF Init, TypeOK, Lives, Transports, Slots
<1>2. UnitsSound
  BY GoneType DEF Init, UnitsSound, Sound
<1>3. ASSUME NEW e \in Entries
      PROVE  Allowed(profile[e], form[e], consent[e])
  <2>1. /\ profile[e].secrets <=> profile[e].transport = "cloud"
        /\ profile[e].options.experimental => profile[e].transport = "cloud"
    BY LifecycleConstants DEF Init
  <2>2. consent[e] = Permissions(e) /\ form[e] = "none"
    BY DEF Init
  <2>3. profile[e].options["power"] = profile[e].options.power
        /\ profile[e].options["experimental"] = profile[e].options.experimental
    OBVIOUS
  <2>4. /\ IsLocal(e) /\ profile[e].options.power => "power" \in Permissions(e)
        /\ ~IsLocal(e) /\ profile[e].options.experimental => "experimental" \in Permissions(e)
    BY <2>3 DEF Permissions
  <2>5. QED
    BY <2>1, <2>2, <2>4 DEF Allowed, IsLocal
<1>4. ListenersDiffer
  BY LifecycleConstants DEF Init, ListenersDiffer, IsLocal
<1>5. QED
  BY <1>1, <1>2, <1>3, <1>4 DEF IInv, ProfilesSound

LEMMA UnitsUnchanged ==
  ASSUME TypeOK, UnitsSound, UNCHANGED <<life, unit, current>>
  PROVE  UnitsKept'
BY DEF TypeOK, UnitsSound, UnitsKept

LEMMA NextSound == IInv /\ [Next]_vars => IInv'
<1> SUFFICES ASSUME TypeOK, UnitsSound, ProfilesSound, [Next]_vars
             PROVE  IInv'
  BY DEF IInv
<1>1. ASSUME NEW e \in Entries, Flow(e)
      PROVE  IInv'
  <2>1. UNCHANGED <<life, unit, current>>
    BY <1>1 DEF Flow, CredentialsSubmitted, CredentialsTurnedDown, CredentialsVerified,
                LocalSubmitted, OptionsShown, OptionsSubmitted
  <2>2. QED
    BY <1>1, <2>1, FlowSound, UnitsUnchanged, Kept
<1>2. ASSUME NEW e \in Entries, Proceeds(e)
      PROVE  IInv'
  <2>1. UNCHANGED <<profile, form, consent>>
    BY <1>2 DEF Proceeds, Started, BindFails, FirstPollFails, PlatformsReady, PlatformsFail,
                RolledBack, UnloadDrained, PlatformsUnloaded, profileVars
  <2>2. QED
    BY <1>2, <2>1, ProceedsSound, ProfilesUnchanged, Kept
<1>3. ASSUME NEW e \in Entries, SetupStarts(e)
      PROVE  IInv'
  BY <1>3, SetupSound, ProfilesUnchanged, Kept DEF SetupStarts
<1>4. ASSUME NEW e \in Entries, UnloadStarts(e)
      PROVE  IInv'
  <2>1. /\ "unloading" \in Busy \ {"starting"} /\ life[e] \in Busy /\ Becomes(e, "unloading")
        /\ unit' = Closing(e) /\ UNCHANGED current /\ UNCHANGED <<profile, form, consent>>
    BY <1>4 DEF UnloadStarts, UnloadDue, Busy, profileVars
  <2>2. QED
    BY <2>1, CloseSound, ProfilesUnchanged, Kept
<1>5. ASSUME NEW e \in Entries, CallerCancelled(e) \/ ReloadRequested(e)
      PROVE  IInv'
  BY <1>5, UnitsUnchanged, ProfilesUnchanged, Kept
     DEF CallerCancelled, ReloadRequested, profileVars
<1>6. ASSUME NEW e \in Entries, NEW s \in Slots, Called(e, s) \/ Works(e, s)
      PROVE  IInv'
  BY <1>6, CalledSound, WorksSound, ProfilesUnchanged, Kept DEF Called, Works, profileVars
<1>7. CASE Stop
  BY <1>7, StopSound, ProfilesUnchanged, Kept DEF Stop, profileVars
<1>8. CASE UNCHANGED vars
  BY <1>8, UnitsUnchanged, ProfilesUnchanged, Kept DEF vars, profileVars
<1>9. QED
  BY <1>1, <1>2, <1>3, <1>4, <1>5, <1>6, <1>7, <1>8 DEF Next

(* The invariant is inductive.                                             *)
THEOREM Invariance == Spec => []IInv
<1>1. Init => IInv
  BY InitSound
<1>2. IInv /\ [Next]_vars => IInv'
  BY NextSound
<1>3. QED
  BY <1>1, <1>2, PTL DEF Spec

(* At most one coordinator of an entry works, and none is left behind,     *)
(* however setups fail and whoever is cancelled.                           *)
THEOREM CoordinatorIsOne == Spec => []OneCoordinator
<1>1. IInv => OneCoordinator
  BY DEF IInv, UnitsSound, Sound, OneCoordinator, Live, Busy
<1>2. QED
  BY <1>1, Invariance, PTL

(* No permission and no credentials outlive the connection they were given *)
(* for, however late a form comes.                                         *)
THEOREM PermissionsAreGiven == Spec => []PermissionIsGiven
<1>1. IInv => PermissionIsGiven
  BY DEF IInv, ProfilesSound, Allowed, PermissionIsGiven, IsLocal
<1>2. QED
  BY <1>1, Invariance, PTL

(* No two entries are stored for the same listener.                        *)
THEOREM ListenersStayApart == Spec => []ListenersDiffer
<1>1. IInv => ListenersDiffer
  BY DEF IInv, ProfilesSound
<1>2. QED
  BY <1>1, Invariance, PTL
=============================================================================
