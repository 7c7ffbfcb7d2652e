-------------------------- MODULE CloudSession_proofs --------------------------
(* Proofs about CloudSession, for any number of calls and tokens.          *)
EXTENDS CloudSession, TLAPS

(* The records an activity goes on with have their type.                   *)
LEMMA FreshType == Fresh \in Activity
BY DEF Fresh, Activity, Kinds, Steps, Outcomes

(* So it has on the way to a login ...                                     *)
LEMMA LogsInType ==
  ASSUME TypeOK, NEW r \in Activity, NEW s \in Steps
  PROVE  LogsIn(r, s) \in Activity
BY FreshType DEF LogsIn, Fresh, Activity, TypeOK, Outcomes

(* ... and when it sends a request.                                        *)
LEMMA AsksType ==
  ASSUME NEW r \in Activity, NEW s \in Steps, NEW t \in Tokens \cup {None}, NEW g \in Nat
  PROVE  Asks(r, s, t, g) \in Activity
BY DEF Asks, Activity

(* And when a session lets it go on.                                       *)
LEMMA GoesOnType ==
  ASSUME NEW r \in Activity, NEW t \in Tokens \cup {None}, NEW g \in Nat
  PROVE  GoesOn(r, t, g) \in Activity
<1>1. r.step \in Steps
  BY DEF Activity
<1>2. CASE r.step = "resolve"
  BY <1>2 DEF GoesOn, Activity
<1>3. CASE r.step # "resolve"
  BY <1>1, <1>3, AsksType DEF GoesOn
<1>4. QED
  BY <1>2, <1>3

(* A call that ends keeps the types of the records and of the locks.       *)
LEMMA EndsType ==
  ASSUME TypeOK, NEW a \in Activities, NEW o \in Outcomes, Ends(a, o)
  PROVE  /\ act' \in [Activities -> Activity]
         /\ loginLock' \in Holder /\ devicesLock' \in Holder /\ commandLock' \in Holder
<1>1. [Fresh EXCEPT !.pc = "done", !.outcome = o] \in Activity
  BY FreshType DEF Fresh, Activity
<1>2. act' \in [Activities -> Activity]
  BY <1>1 DEF TypeOK, Ends
<1>3. QED
  BY <1>2 DEF TypeOK, Ends, Released, Holder

(* An error that leaves a call is one of the outcomes.                     *)
LEMMA RaisesType ==
  ASSUME TypeOK, NEW a \in Activities, Raises(a)
  PROVE  /\ act' \in [Activities -> Activity]
         /\ loginLock' \in Holder /\ devicesLock' \in Holder /\ commandLock' \in Holder
BY EndsType DEF Raises, Outcomes

(* The steps of a call up to its session keep the types.                   *)
LEMMA LoginTypes ==
  ASSUME TypeOK, NEW a \in Activities,
         \/ Begin(a) \/ TakesCommandLock(a) \/ UsesSession(a) \/ SharesFailure(a)
         \/ LoginBegins(a) \/ LoginSucceeds(a) \/ LoginFails(a)
  PROVE  TypeOK'
<1>1. act[a] \in Activity /\ "resolve" \in Steps
  BY DEF TypeOK, Steps
<1>2. CASE Begin(a)
  <2>1. LogsIn(act[a], "resolve") \in Activity
    BY <1>1, LogsInType
  <2>2. \A k \in Kinds : [act[a] EXCEPT !.pc = "queued", !.kind = k] \in Activity
    BY <1>1 DEF Activity
  <2>3. PICK r \in Activity : act' = [act EXCEPT ![a] = r]
    <3>1. PICK k \in Kinds :
             act' = [act EXCEPT ![a] = IF k = "status" THEN LogsIn(@, "resolve")
                                       ELSE [@ EXCEPT !.pc = "queued", !.kind = k]]
      BY <1>2, ConstantsOK DEF Begin
    <3>2. CASE k = "status"
      BY <2>1, <3>1, <3>2 DEF TypeOK
    <3>3. CASE k # "status"
      BY <2>2, <3>1, <3>3 DEF TypeOK
    <3>4. QED
      BY <3>2, <3>3
  <2>4. QED
    BY <1>2, <2>3 DEF TypeOK, Begin, session, locks, cloud
<1>3. CASE TakesCommandLock(a)
  <2>1. LogsIn(act[a], "resolve") \in Activity
    BY <1>1, LogsInType
  <2>2. QED
    BY <1>3, <2>1 DEF TypeOK, TakesCommandLock, session, cloud, Holder
<1>4. CASE UsesSession(a)
  <2>1. [act[a] EXCEPT !.again = act[a].pc = "refresh"] \in Activity
    BY <1>1 DEF Activity
  <2>2. GoesOn([act[a] EXCEPT !.again = act[a].pc = "refresh"], token, generation) \in Activity
    BY <2>1, GoesOnType DEF TypeOK
  <2>3. QED
    BY <1>4, <2>2 DEF TypeOK, UsesSession, session, locks, cloud
<1>5. CASE SharesFailure(a)
  BY <1>5, RaisesType DEF TypeOK, SharesFailure, session, cloud
<1>6. CASE LoginBegins(a)
  <2>1. act' \in [Activities -> Activity]
    BY <1>1, <1>6 DEF TypeOK, LoginBegins, Activity
  <2>2. QED
    BY <1>6, <2>1 DEF TypeOK, LoginBegins, cloud, Holder
<1>7. CASE LoginSucceeds(a)
  <2>1. PICK t \in Tokens : LoggedIn(a, t)
    BY <1>7 DEF LoginSucceeds
  <2>2. GoesOn(act[a], t, generation + 1) \in Activity
    BY <1>1, GoesOnType DEF TypeOK
  <2>3. QED
    BY <2>1, <2>2 DEF TypeOK, LoggedIn, Holder
<1>8. CASE LoginFails(a)
  BY <1>8, RaisesType DEF TypeOK, LoginFails, cloud
<1>9. QED
  BY <1>2, <1>3, <1>4, <1>5, <1>6, <1>7, <1>8

(* So do its reads, its POSTs and its end.                                 *)
LEMMA RequestTypes ==
  ASSUME TypeOK, NEW a \in Activities,
         \/ TakesDevicesLock(a) \/ Listed(a) \/ Detailed(a) \/ ReadRefused(a) \/ ReadFails(a)
         \/ Posted(a) \/ PostFails(a) \/ Cancelled(a)
  PROVE  TypeOK'
<1>1. act[a] \in Activity /\ {"resolve", "list", "detail", "control", "label", "name"} = Steps
  BY DEF TypeOK, Steps, Posts
<1>2. \A s \in Steps : LogsIn(act[a], s) \in Activity
  BY <1>1, LogsInType
<1>3. \A s \in Steps : Asks(act[a], s, token, 0) \in Activity
  BY <1>1, AsksType DEF TypeOK
<1>4. CASE TakesDevicesLock(a)
  BY <1>1, <1>2, <1>4 DEF TypeOK, TakesDevicesLock, session, cloud, Holder
<1>5. CASE Listed(a)
  BY <1>1, <1>2, <1>5 DEF TypeOK, Listed, cloud, Holder
<1>6. CASE Detailed(a)
  <2>1. CASE act[a].kind = "status" \/ act[a].acked
    BY <1>6, <2>1, EndsType DEF TypeOK, Detailed, session, cloud, Outcomes
  <2>2. CASE ~(act[a].kind = "status" \/ act[a].acked)
    BY <1>1, <1>3, <1>6, <2>2 DEF TypeOK, Detailed, session, cloud, locks
  <2>3. QED
    BY <2>1, <2>2
<1>7. CASE ReadRefused(a)
  <2>1. act' \in [Activities -> Activity]
    BY <1>1, <1>7 DEF TypeOK, ReadRefused, Activity
  <2>2. QED
    BY <1>7, <2>1 DEF TypeOK, ReadRefused, session, locks, cloud
<1>8. CASE ReadFails(a)
  BY <1>8, RaisesType DEF TypeOK, ReadFails, session, cloud
<1>9. CASE Posted(a)
  <2>1. act[a].step \in {"control", "label", "name"}
    BY <1>9 DEF Posted, Posting, Posts
  <2>2. CASE act[a].step = "control"
    BY <1>9, <2>2, EndsType DEF TypeOK, Posted, session, cloud, Outcomes
  <2>3. CASE act[a].step = "label"
    <3>1. [act[a] EXCEPT !.acked = TRUE] \in Activity
      BY <1>1 DEF Activity
    <3>2. Asks([act[a] EXCEPT !.acked = TRUE], "name", token, 0) \in Activity
      BY <1>1, <3>1, AsksType DEF TypeOK
    <3>3. QED
      BY <1>9, <2>3, <3>2 DEF TypeOK, Posted, session, cloud, locks
  <2>4. CASE act[a].step = "name"
    BY <1>1, <1>2, <1>9, <2>4 DEF TypeOK, Posted, session, cloud, locks
  <2>5. QED
    BY <2>1, <2>2, <2>3, <2>4
<1>10. CASE PostFails(a)
  <2>1. CASE Raises(a)
    BY <1>10, <2>1, RaisesType DEF TypeOK, PostFails, session, cloud
  <2>2. CASE Ends(a, "uncertain")
    BY <1>10, <2>2, EndsType DEF TypeOK, PostFails, session, cloud, Outcomes
  <2>3. QED
    BY <1>10, <2>1, <2>2 DEF PostFails
<1>11. CASE Cancelled(a)
  BY <1>11, EndsType DEF TypeOK, Cancelled, cloud, Outcomes
<1>12. QED
  BY <1>4, <1>5, <1>6, <1>7, <1>8, <1>9, <1>10, <1>11

(* So does the cloud.                                                      *)
LEMMA CloudTypes ==
  ASSUME TypeOK,
         \/ \E a \in Activities : ServesRead(a) \/ ServesPost(a)
         \/ \E t \in Tokens : Expires(t)
  PROVE  TypeOK'
<1>1. ASSUME NEW a \in Activities, NEW r \in {"ok", "foreign", "auth", "refused", "fail"},
             Serves(a, r)
      PROVE  /\ act' \in [Activities -> Activity]
             /\ UNCHANGED <<session, locks, valid, waited>>
  BY <1>1 DEF TypeOK, Serves, Activity
<1>2. ASSUME NEW a \in Activities, ServesRead(a)
      PROVE  TypeOK'
  BY <1>1, <1>2 DEF TypeOK, ServesRead, session, locks
<1>3. ASSUME NEW a \in Activities, ServesPost(a)
      PROVE  TypeOK'
  <2>1. /\ act' \in [Activities -> Activity]
        /\ UNCHANGED <<session, locks, valid, waited>>
    BY <1>1, <1>3 DEF ServesPost
  <2>2. applied' \in [Activities -> SUBSET Posts]
    BY <1>3 DEF TypeOK, ServesPost, Posting
  <2>3. QED
    BY <2>1, <2>2 DEF TypeOK, session, locks
<1>4. ASSUME NEW t \in Tokens, Expires(t)
      PROVE  TypeOK'
  BY <1>4 DEF TypeOK, Expires, session, locks
<1>5. QED
  BY <1>2, <1>3, <1>4
-----------------------------------------------------------------------------
(* Every step keeps the types.                                             *)
LEMMA TypeInvariance ==
  ASSUME TypeOK, [Next]_vars
  PROVE  TypeOK'
<1>1. ASSUME NEW a \in Activities, Begin(a) \/ Step(a) \/ Cancelled(a)
      PROVE  TypeOK'
  BY <1>1, LoginTypes, RequestTypes, CloudTypes DEF Step
<1>2. CASE \E t \in Tokens : Expires(t)
  BY <1>2, CloudTypes
<1>3. CASE UNCHANGED vars
  BY <1>3 DEF TypeOK, vars, session, locks, cloud
<1>4. QED
  BY <1>1, <1>2, <1>3 DEF Next, Terminated

(* The client starts with its types.                                       *)
LEMMA InitTypes == Init => TypeOK
<1>1. ASSUME Init
      PROVE  TypeOK
  <2>1. token \in Tokens \cup {None} /\ owner \in BOOLEAN /\ cached \in BOOLEAN
    BY <1>1 DEF Init
  <2>2. valid \subseteq Tokens
    BY <1>1 DEF Init
  <2>3. act \in [Activities -> Activity] /\ applied \in [Activities -> SUBSET Posts]
    BY <1>1, FreshType DEF Init
  <2>4. QED
    BY <1>1, <2>1, <2>2, <2>3 DEF Init, TypeOK, Holder
<1>2. QED
  BY <1>1

(* Every variable of the session's model keeps its type.                   *)
THEOREM TypeCorrect == Spec => []TypeOK
<1>1. TypeOK /\ [Next]_vars => TypeOK'
  BY TypeInvariance
<1>2. QED
  BY <1>1, InitTypes, PTL DEF Spec

-----------------------------------------------------------------------------
(* The inductive invariant: what is true of a call's record and of the     *)
(* POSTs that the cloud has carried out for it.                            *)

(* An error is the end of a call that has changed nothing.                 *)
ErrorIsClean(r, ap) == r.outcome = "error" => ap = {} /\ r.pc = "done"

(* What has been carried out is acknowledged, or its answer is at hand.    *)
AppliedIsKnown(r, ap) ==
  r.pc # "done" /\ ap # {} =>
    \/ r.acked
    \/ r.pc = "asking" /\ r.step \in Posts /\ r.reply \in {"ok", "fail"}

(* The second POST of a rename follows an acknowledged one.                *)
NameIsSecond(r) == r.pc = "asking" /\ r.step = "name" => r.acked

(* No POST waits for a session, so none is sent by a renewal.              *)
PostsOnlyAsk(r) == r.step \in Posts => r.pc = "asking"

(* The first POST has a token.                                             *)
HasToken(r) == r.pc = "asking" /\ r.step \in {"control", "label"} => r.tok # None

Good(r, ap) ==
  /\ ErrorIsClean(r, ap) /\ AppliedIsKnown(r, ap)
  /\ NameIsSecond(r) /\ PostsOnlyAsk(r) /\ HasToken(r)

(* An owner is only known of a session that has a token.                   *)
OwnerHasToken == owner => token # None

AllGood == \A a \in Activities : Good(act[a], applied[a])

IInv == TypeOK /\ OwnerHasToken /\ AllGood

(* A call whose own record is good leaves every record good.               *)
LEMMA GoodOfOne ==
  ASSUME IInv, NEW a \in Activities, NEW r, act' = [act EXCEPT ![a] = r],
         UNCHANGED applied, Good(r, applied[a])
  PROVE  AllGood'
BY DEF IInv, TypeOK, AllGood

(* A call on its way to a login has nothing unsettled.                     *)
LEMMA GoodLogsIn ==
  ASSUME NEW r \in Activity, NEW ap, ap # {} => r.acked,
         NEW s \in {"resolve", "list", "detail"}
  PROVE  Good(LogsIn(r, s), ap)
<1>1. /\ LogsIn(r, s).pc = "login" /\ LogsIn(r, s).step = s
      /\ LogsIn(r, s).outcome = "none" /\ LogsIn(r, s).acked = r.acked /\ r.acked \in BOOLEAN
  BY DEF LogsIn, Fresh, Activity
<1>2. QED
  BY <1>1 DEF Good, ErrorIsClean, AppliedIsKnown, NameIsSecond, PostsOnlyAsk, HasToken, Posts

(* A request is good that has its token and follows its predecessor.       *)
LEMMA GoodAsks ==
  ASSUME NEW r \in Activity, NEW ap, ap # {} => r.acked, r.outcome # "error",
         NEW s \in Steps, NEW t, NEW g,
         s = "name" => r.acked, s \in {"control", "label"} => t # None
  PROVE  Good(Asks(r, s, t, g), ap)
<1>1. /\ Asks(r, s, t, g).pc = "asking" /\ Asks(r, s, t, g).step = s
      /\ Asks(r, s, t, g).tok = t
      /\ Asks(r, s, t, g).outcome = r.outcome /\ Asks(r, s, t, g).acked = r.acked /\ r.acked \in BOOLEAN
  BY DEF Asks, Activity
<1>2. QED
  BY <1>1 DEF Good, ErrorIsClean, AppliedIsKnown, NameIsSecond, PostsOnlyAsk, HasToken

(* A session lets a call go on with a read.                                *)
LEMMA GoodGoesOn ==
  ASSUME NEW r \in Activity, NEW ap, Good(r, ap), r.pc \notin {"asking", "done"}, NEW t, NEW g
  PROVE  Good(GoesOn(r, t, g), ap)
<1>1. /\ ap # {} => r.acked
      /\ r.outcome # "error" /\ r.step \notin Posts /\ r.step \in Steps
  BY DEF Good, ErrorIsClean, AppliedIsKnown, PostsOnlyAsk, Activity
<1>2. CASE r.step = "resolve"
  <2>1. /\ GoesOn(r, t, g).pc = "devices" /\ GoesOn(r, t, g).step = r.step
        /\ GoesOn(r, t, g).outcome = r.outcome /\ GoesOn(r, t, g).acked = r.acked /\ r.acked \in BOOLEAN
    BY <1>2 DEF GoesOn, Activity
  <2>2. QED
    BY <1>1, <2>1 DEF Good, ErrorIsClean, AppliedIsKnown, NameIsSecond, PostsOnlyAsk, HasToken
<1>3. CASE r.step # "resolve"
  <2>1. r.step # "name" /\ r.step \notin {"control", "label"}
    BY <1>1 DEF Posts
  <2>2. QED
    BY <1>1, <1>3, <2>1, GoodAsks DEF GoesOn
<1>4. QED
  BY <1>2, <1>3

(* A call ends well with any outcome but an error after a change.          *)
LEMMA GoodEnds ==
  ASSUME IInv, NEW a \in Activities, NEW o, o = "error" => applied[a] = {},
         Ends(a, o), UNCHANGED applied
  PROVE  AllGood'
<1> DEFINE r == [Fresh EXCEPT !.pc = "done", !.outcome = o]
<1>1. r.pc = "done" /\ r.outcome = o /\ r.step = "resolve"
  BY DEF Fresh
<1>2. act' = [act EXCEPT ![a] = r]
  BY DEF Ends
<1> HIDE DEF r
<1>3. Good(r, applied[a])
  BY <1>1 DEF Good, ErrorIsClean, AppliedIsKnown, NameIsSecond, PostsOnlyAsk, HasToken, Posts
<1>4. QED
  BY <1>2, <1>3, GoodOfOne

(* A call that fails without an unsettled POST ends well.                  *)
LEMMA GoodRaises ==
  ASSUME IInv, NEW a \in Activities, act[a].pc # "done",
         ~(Posting(a) /\ act[a].reply \in {"ok", "fail"}),
         Raises(a), UNCHANGED applied
  PROVE  AllGood'
<1>1. applied[a] # {} => act[a].acked
  BY DEF IInv, AllGood, Good, AppliedIsKnown, Posting
<1>2. PICK o \in Outcomes : Ends(a, o) /\ (o = "error" => ~act[a].acked)
  BY DEF Raises, Outcomes
<1>3. QED
  BY <1>1, <1>2, GoodEnds

(* A call that is neither asking nor at its end has settled every POST.    *)
LEMMA Settled ==
  ASSUME IInv, NEW a \in Activities, act[a].pc # "done", act[a].pc # "asking" \/ Reading(a)
  PROVE  applied[a] # {} => act[a].acked
BY DEF IInv, AllGood, Good, AppliedIsKnown, Reading, Posts

(* The steps of a call up to its session keep the records good.            *)
LEMMA LoginGood ==
  ASSUME IInv, NEW a \in Activities,
         \/ Begin(a) \/ TakesCommandLock(a) \/ UsesSession(a) \/ SharesFailure(a)
         \/ LoginBegins(a) \/ LoginSucceeds(a) \/ LoginFails(a)
  PROVE  AllGood'
<1>1. act[a] \in Activity /\ Good(act[a], applied[a]) /\ applied[a] \in SUBSET Posts
  BY DEF IInv, TypeOK, AllGood
<1>2. CASE Begin(a)
  <2>1. Good(LogsIn(act[a], "resolve"), applied[a])
    BY <1>1, <1>2, Settled, GoodLogsIn DEF Begin
  <2>2. ASSUME NEW k \in Kinds
        PROVE  Good([act[a] EXCEPT !.pc = "queued", !.kind = k], applied[a])
    <3> DEFINE r == [act[a] EXCEPT !.pc = "queued", !.kind = k]
    <3>1. /\ r.pc = "queued" /\ r.step = act[a].step
          /\ r.outcome = act[a].outcome /\ r.acked = act[a].acked
      BY <1>1 DEF Activity
    <3>2. act[a].pc = "idle"
      BY <1>2 DEF Begin
    <3> HIDE DEF r
    <3>3. Good(r, applied[a])
      BY <1>1, <3>1, <3>2
         DEF Good, ErrorIsClean, AppliedIsKnown, NameIsSecond, PostsOnlyAsk, HasToken
    <3>4. QED
      BY <3>3 DEF r
  <2>3. QED
    BY <1>2, <2>1, <2>2, GoodOfOne, ConstantsOK DEF Begin, cloud
<1>3. CASE TakesCommandLock(a)
  <2>1. Good(LogsIn(act[a], "resolve"), applied[a])
    BY <1>1, <1>3, Settled, GoodLogsIn DEF TakesCommandLock
  <2>2. QED
    BY <1>3, <2>1, GoodOfOne DEF TakesCommandLock, cloud
<1>4. CASE UsesSession(a)
  <2> DEFINE r == [act[a] EXCEPT !.again = act[a].pc = "refresh"]
  <2>1. /\ r \in Activity
        /\ r.pc = act[a].pc /\ r.step = act[a].step /\ r.tok = act[a].tok
        /\ r.reply = act[a].reply
        /\ r.outcome = act[a].outcome /\ r.acked = act[a].acked
    BY <1>1 DEF Activity
  <2>2. /\ act' = [act EXCEPT ![a] = GoesOn(r, token, generation)]
        /\ UNCHANGED applied /\ act[a].pc \in {"login", "refresh"}
    BY <1>4 DEF UsesSession, HasLoginLock, Waits, cloud
  <2> HIDE DEF r
  <2>3. Good(r, applied[a])
    BY <1>1, <2>1
       DEF Good, ErrorIsClean, AppliedIsKnown, NameIsSecond, PostsOnlyAsk, HasToken
  <2>4. r.pc \notin {"asking", "done"}
    BY <2>1, <2>2
  <2>5. Good(GoesOn(r, token, generation), applied[a])
    BY <2>1, <2>3, <2>4, GoodGoesOn
  <2>6. QED
    BY <2>2, <2>5, GoodOfOne
<1>5. CASE SharesFailure(a)
  BY <1>5, GoodRaises DEF SharesFailure, HasLoginLock, Waits, Posting, cloud
<1>6. CASE LoginBegins(a)
  <2> DEFINE r == [act[a] EXCEPT !.again = act[a].pc = "refresh", !.pc = "authenticating"]
  <2>1. act' = [act EXCEPT ![a] = r] /\ UNCHANGED applied /\ act[a].pc \in {"login", "refresh"}
    BY <1>6 DEF IInv, TypeOK, LoginBegins, HasLoginLock, Waits, cloud
  <2>2. /\ r.pc = "authenticating" /\ r.step = act[a].step
        /\ r.outcome = act[a].outcome /\ r.acked = act[a].acked
    BY <1>1 DEF Activity
  <2> HIDE DEF r
  <2>3. Good(r, applied[a])
    BY <1>1, <2>1, <2>2
       DEF Good, ErrorIsClean, AppliedIsKnown, NameIsSecond, PostsOnlyAsk, HasToken
  <2>4. QED
    BY <2>1, <2>3, GoodOfOne
<1>7. CASE LoginSucceeds(a)
  <2>1. PICK t \in Tokens : LoggedIn(a, t) /\ act[a].pc = "authenticating"
    BY <1>7 DEF LoginSucceeds
  <2>2. Good(GoesOn(act[a], t, generation + 1), applied[a])
    BY <1>1, <2>1, GoodGoesOn
  <2>3. QED
    BY <2>1, <2>2, GoodOfOne DEF LoggedIn
<1>8. CASE LoginFails(a)
  BY <1>8, GoodRaises DEF LoginFails, Posting, cloud
<1>9. QED
  BY <1>2, <1>3, <1>4, <1>5, <1>6, <1>7, <1>8

(* So do its reads.                                                        *)
LEMMA ReadGood ==
  ASSUME IInv, NEW a \in Activities,
         TakesDevicesLock(a) \/ Listed(a) \/ Detailed(a) \/ ReadRefused(a) \/ ReadFails(a)
  PROVE  AllGood'
<1>1. act[a] \in Activity /\ Good(act[a], applied[a])
  BY DEF IInv, TypeOK, AllGood
<1>2. /\ UNCHANGED applied /\ act[a].pc \in {"devices", "asking"}
      /\ act[a].pc # "asking" \/ Reading(a)
  BY DEF TakesDevicesLock, Listed, Detailed, ReadRefused, ReadFails, Reads, Reading, cloud
<1>3. applied[a] # {} => act[a].acked
  BY <1>2, Settled
<1>4. \A s \in {"resolve", "list", "detail"} : Good(LogsIn(act[a], s), applied[a])
  BY <1>1, <1>3, GoodLogsIn
<1>5. CASE TakesDevicesLock(a)
  BY <1>2, <1>4, <1>5, GoodOfOne DEF TakesDevicesLock
<1>6. CASE Listed(a)
  BY <1>2, <1>4, <1>6, GoodOfOne DEF Listed
<1>7. CASE Detailed(a)
  <2>1. CASE Ends(a, "ok")
    BY <1>2, <2>1, GoodEnds
  <2>2. CASE ~Ends(a, "ok")
    <3>1. PICK s \in {"control", "label"} :
             act' = [act EXCEPT ![a] = Asks(act[a], s, token, 0)]
      BY <1>7, <2>2 DEF Detailed
    <3>2. token # None
      BY <1>7 DEF IInv, OwnerHasToken, Detailed, Owned
    <3>3. act[a].outcome # "error"
      BY <1>1, <1>2 DEF Good, ErrorIsClean
    <3>4. Good(Asks(act[a], s, token, 0), applied[a])
      <4>1. s \in Steps /\ s # "name"
        BY DEF Steps, Posts
      <4>2. QED
        BY <1>1, <1>3, <3>2, <3>3, <4>1, GoodAsks
    <3>5. QED
      BY <1>2, <3>1, <3>4, GoodOfOne
  <2>3. QED
    BY <2>1, <2>2
<1>8. CASE ReadRefused(a)
  <2> DEFINE r == [act[a] EXCEPT !.pc = "refresh"]
  <2>1. act' = [act EXCEPT ![a] = r] /\ act[a].step \in {"list", "detail"} /\ act[a].pc = "asking"
    BY <1>8 DEF IInv, TypeOK, ReadRefused, Reading
  <2>2. /\ r.pc = "refresh" /\ r.step = act[a].step
        /\ r.outcome = act[a].outcome /\ r.acked = act[a].acked
    BY <1>1 DEF Activity
  <2> HIDE DEF r
  <2>3. Good(r, applied[a])
    BY <1>1, <1>3, <2>1, <2>2
       DEF Good, ErrorIsClean, AppliedIsKnown, NameIsSecond, PostsOnlyAsk, HasToken, Posts
  <2>4. QED
    BY <1>2, <2>1, <2>3, GoodOfOne
<1>9. CASE ReadFails(a)
  BY <1>2, <1>9, GoodRaises DEF ReadFails, Posting, Reading, Posts
<1>10. QED
  BY <1>5, <1>6, <1>7, <1>8, <1>9

(* So do its POSTs and its end.                                            *)
LEMMA PostGood ==
  ASSUME IInv, NEW a \in Activities, Posted(a) \/ PostFails(a) \/ Cancelled(a)
  PROVE  AllGood'
<1>1. act[a] \in Activity /\ Good(act[a], applied[a])
  BY DEF IInv, TypeOK, AllGood
<1>2. UNCHANGED applied /\ act[a].pc # "done"
  BY DEF Posted, PostFails, Cancelled, Posting, cloud
<1>3. CASE Posted(a)
  <2>1. CASE act[a].step = "control"
    BY <1>2, <1>3, <2>1, GoodEnds DEF Posted
  <2>2. CASE act[a].step = "label"
    <3> DEFINE r == [act[a] EXCEPT !.acked = TRUE]
    <3>1. act' = [act EXCEPT ![a] = Asks(r, "name", token, 0)]
      BY <1>3, <2>2 DEF Posted
    <3>2. r \in Activity /\ r.acked /\ r.outcome = act[a].outcome
      BY <1>1 DEF Activity
    <3> HIDE DEF r
    <3>3. r.outcome # "error"
      BY <1>1, <1>2, <3>2 DEF Good, ErrorIsClean
    <3>4. Good(Asks(r, "name", token, 0), applied[a])
      <4>1. "name" \in Steps
        BY DEF Steps, Posts
      <4>2. QED
        BY <3>2, <3>3, <4>1, GoodAsks
    <3>5. QED
      BY <1>2, <3>1, <3>4, GoodOfOne
  <2>3. CASE act[a].step = "name"
    <3>1. act[a].acked
      BY <1>1, <1>3, <2>3 DEF Good, NameIsSecond, Posted, Posting
    <3>2. Good(LogsIn(act[a], "resolve"), applied[a])
      BY <1>1, <3>1, GoodLogsIn
    <3>3. QED
      BY <1>2, <1>3, <2>3, <3>2, GoodOfOne DEF Posted
  <2>4. QED
    BY <1>3, <2>1, <2>2, <2>3 DEF Posted, Posting, Posts
<1>4. CASE PostFails(a)
  <2>1. CASE Ends(a, "uncertain")
    BY <1>2, <2>1, GoodEnds
  <2>2. CASE ~Ends(a, "uncertain")
    BY <1>2, <1>4, <2>2, GoodRaises DEF PostFails
  <2>3. QED
    BY <2>1, <2>2
<1>5. CASE Cancelled(a)
  BY <1>2, <1>5, GoodEnds DEF Cancelled
<1>6. QED
  BY <1>3, <1>4, <1>5

(* An answer of the cloud keeps the records good: what it has carried out  *)
(* it answers with success or not at all.                                  *)
LEMMA ServesGood ==
  ASSUME IInv, NEW a \in Activities, ServesRead(a) \/ ServesPost(a)
  PROVE  AllGood'
<1>1. PICK r \in {"ok", "foreign", "auth", "refused", "fail"} : Serves(a, r)
  BY DEF ServesRead, ServesPost
<1> DEFINE x == [act[a] EXCEPT !.reply = r]
<1>2. act[a] \in Activity /\ Good(act[a], applied[a])
  BY DEF IInv, TypeOK, AllGood
<1>3. /\ act' = [act EXCEPT ![a] = x]
      /\ act[a].pc = "asking" /\ act[a].reply = "none"
  BY <1>1 DEF IInv, TypeOK, Serves
<1>4. /\ x.pc = act[a].pc /\ x.step = act[a].step /\ x.tok = act[a].tok
      /\ x.reply = r /\ x.outcome = act[a].outcome /\ x.acked = act[a].acked
  BY <1>2 DEF Activity
<1> HIDE DEF x
<1>5. act'[a] = x /\ \A b \in Activities \ {a} : act'[b] = act[b]
  BY <1>3 DEF IInv, TypeOK
<1>6. act[a].outcome # "error" /\ (applied[a] # {} => act[a].acked)
  BY <1>2, <1>3 DEF Good, ErrorIsClean, AppliedIsKnown
<1>7. CASE UNCHANGED applied
  <2>1. Good(x, applied[a])
    BY <1>2, <1>3, <1>4, <1>6
       DEF Good, ErrorIsClean, AppliedIsKnown, NameIsSecond, PostsOnlyAsk, HasToken
  <2>2. QED
    BY <1>3, <1>7, <2>1, GoodOfOne
<1>8. CASE ~UNCHANGED applied
  <2>1. /\ act[a].step \in Posts
        /\ applied' = [applied EXCEPT ![a] = @ \cup {act[a].step}]
        /\ \E q \in {"ok", "fail"} : Serves(a, q)
    BY <1>8 DEF ServesRead, ServesPost, Posting
  <2>2. act'[a].reply \in {"ok", "fail"}
    BY <1>2, <2>1 DEF IInv, TypeOK, Serves, Activity
  <2>3. \A b \in Activities \ {a} : applied'[b] = applied[b]
    BY <2>1 DEF IInv, TypeOK
  <2>4. Good(x, applied'[a])
    BY <1>2, <1>3, <1>4, <1>5, <1>6, <2>1, <2>2
       DEF Good, ErrorIsClean, AppliedIsKnown, NameIsSecond, PostsOnlyAsk, HasToken
  <2>5. QED
    BY <1>5, <2>3, <2>4 DEF IInv, AllGood
<1>9. QED
  BY <1>7, <1>8

(* An owner is known with a token only: a login drops both and sets both.  *)
LEMMA OwnerInvariance ==
  ASSUME IInv, [Next]_vars
  PROVE  OwnerHasToken'
<1>1. CASE UNCHANGED <<token, owner>>
  BY <1>1 DEF IInv, OwnerHasToken
<1>2. CASE \E a \in Activities : LoginBegins(a)
  BY <1>2 DEF LoginBegins, OwnerHasToken
<1>3. CASE \E a \in Activities : LoginSucceeds(a)
  BY <1>3, ConstantsOK DEF LoginSucceeds, LoggedIn, OwnerHasToken
<1>4. QED
  BY <1>1, <1>2, <1>3
     DEF Next, Step, vars, session, Terminated, Begin, TakesCommandLock, TakesDevicesLock,
         UsesSession, SharesFailure, LoginFails, Listed, Detailed, ReadRefused, ReadFails,
         Posted, PostFails, ServesRead, ServesPost, Serves, Cancelled, Expires

(* It holds at the beginning ...                                           *)
LEMMA InitGood ==
  ASSUME Init
  PROVE  IInv
<1>1. TypeOK
  BY InitTypes
<1>2. OwnerHasToken
  BY ConstantsOK DEF Init, OwnerHasToken
<1>3. ASSUME NEW a \in Activities
      PROVE  Good(act[a], applied[a])
  <2>1. act[a] = Fresh /\ applied[a] = {}
    BY DEF Init
  <2>2. QED
    BY <2>1 DEF Fresh, Good, ErrorIsClean, AppliedIsKnown, NameIsSecond, PostsOnlyAsk,
                HasToken, Posts
<1>4. QED
  BY <1>1, <1>2, <1>3 DEF IInv, AllGood

(* ... and every step keeps it.                                            *)
LEMMA NextGood ==
  ASSUME IInv, [Next]_vars
  PROVE  IInv'
<1>1. TypeOK' /\ OwnerHasToken'
  BY TypeInvariance, OwnerInvariance DEF IInv
<1>2. ASSUME NEW a \in Activities, Begin(a) \/ Step(a) \/ Cancelled(a)
      PROVE  AllGood'
  BY <1>2, LoginGood, ReadGood, PostGood, ServesGood DEF Step
<1>3. ASSUME UNCHANGED <<act, applied>>
      PROVE  AllGood'
  BY <1>3 DEF IInv, AllGood
<1>4. AllGood'
  BY <1>2, <1>3 DEF Next, Terminated, Expires, vars, cloud
<1>5. QED
  BY <1>1, <1>4 DEF IInv

(* The invariant is inductive.                                             *)
THEOREM Invariance == Spec => []IInv
<1>1. Init => IInv
  BY InitGood
<1>2. IInv /\ [Next]_vars => IInv'
  BY NextGood
<1>3. QED
  BY <1>1, <1>2, PTL DEF Spec

(* The first POST of a call leaves with a token, whoever renews the        *)
(* session between the status and the POST (_command and                   *)
(* _experimental_mutation after get_status).                               *)
THEOREM FirstPostsCarryToken == Spec => []PostsCarryToken
<1>1. IInv => PostsCarryToken
  BY DEF IInv, AllGood, Good, HasToken, PostsCarryToken
<1>2. QED
  BY <1>1, Invariance, PTL

(* An error that is not marked as of unknown outcome means that the cloud  *)
(* has carried out nothing of the call, for any number of calls.           *)
THEOREM ErrorsTruthful == Spec => []ErrorsAreTruthful
<1>1. IInv => ErrorsAreTruthful
  BY DEF IInv, AllGood, Good, ErrorIsClean, ErrorsAreTruthful
<1>2. QED
  BY <1>1, Invariance, PTL

-----------------------------------------------------------------------------
(* Renewals.  A rejection counts for the session it was about only, and    *)
(* that session's token is not accepted again before the next login.       *)

Rejected(r) == r.pc = "refresh" \/ (r.pc = "asking" /\ r.reply = "auth")

Dated(r, g, v) == r.gen <= g /\ (Rejected(r) /\ r.gen = g => r.tok \notin v)

AllDated == \A a \in Activities : Dated(act[a], generation, valid)

(* Whoever logs in has the lock, and there is no session meanwhile.        *)
LoginsHold == \A a \in Activities : act[a].pc = "authenticating" => loginLock = a
LoginsAlone == loginLock # None => token = None /\ waited = {}

(* Those who waited for the last login, if it failed, wait still with a    *)
(* generation of before, or have ended.                                    *)
FailureStands ==
  \A b \in waited :
    /\ token = None /\ failure
    /\ act[b].pc = "done" \/ (Waits(b) /\ act[b].gen < generation)

RenewalInv == TypeOK /\ AllDated /\ LoginsHold /\ LoginsAlone /\ FailureStands

(* A call is dated anew on its way to a login, by a request, by a session  *)
(* that lets it go on, and at its end.                                     *)
LEMMA LoginDated ==
  ASSUME generation \in Nat, NEW r, NEW s
  PROVE  Dated(LogsIn(r, s), generation, valid)
<1>1. LogsIn(r, s).pc = "login" /\ LogsIn(r, s).gen = generation
  BY DEF LogsIn, Fresh
<1>2. QED
  BY <1>1 DEF Dated, Rejected

LEMMA AskDated ==
  ASSUME NEW r \in Activity, NEW s, NEW t, NEW h \in Nat, NEW g \in Nat, NEW v, h <= g
  PROVE  Dated(Asks(r, s, t, h), g, v)
<1>1. /\ Asks(r, s, t, h).pc = "asking" /\ Asks(r, s, t, h).reply = "none"
      /\ Asks(r, s, t, h).gen = h
  BY DEF Asks, Activity
<1>2. QED
  BY <1>1 DEF Dated, Rejected

LEMMA GoOnDated ==
  ASSUME NEW r \in Activity, NEW t, NEW g \in Nat, NEW v
  PROVE  Dated(GoesOn(r, t, g), g, v)
<1>1. CASE r.step = "resolve"
  <2>1. GoesOn(r, t, g).pc = "devices" /\ GoesOn(r, t, g).gen = 0
    BY <1>1 DEF GoesOn, Activity
  <2>2. QED
    BY <2>1 DEF Dated, Rejected
<1>2. CASE r.step # "resolve"
  BY <1>2, AskDated DEF GoesOn
<1>3. QED
  BY <1>1, <1>2

LEMMA EndDated ==
  ASSUME NEW o, NEW g \in Nat, NEW v
  PROVE  Dated([Fresh EXCEPT !.pc = "done", !.outcome = o], g, v)
<1>1. /\ [Fresh EXCEPT !.pc = "done", !.outcome = o].pc = "done"
      /\ [Fresh EXCEPT !.pc = "done", !.outcome = o].gen = 0
  BY DEF Fresh
<1>2. QED
  BY <1>1 DEF Dated, Rejected

(* The others' dates outlive a step of one call: the cloud accepts a token *)
(* anew only with the next generation.                                     *)
LEMMA DatedOthers ==
  ASSUME TypeOK, AllDated, NEW a \in Activities, NEW r, act' = [act EXCEPT ![a] = r],
         \/ generation' = generation /\ valid' \subseteq valid
         \/ generation' = generation + 1,
         Dated(r, generation', valid')
  PROVE  AllDated'
<1>1. act'[a] = r /\ \A b \in Activities \ {a} : act'[b] = act[b]
  BY DEF TypeOK
<1>2. ASSUME NEW b \in Activities \ {a}
      PROVE  Dated(act'[b], generation', valid')
  <2>1. /\ Dated(act[b], generation, valid) /\ act'[b] = act[b]
        /\ act[b].gen \in Nat /\ generation \in Nat
    BY <1>1 DEF AllDated, TypeOK, Activity
  <2>2. QED
    BY <2>1 DEF Dated
<1>3. QED
  BY <1>1, <1>2 DEF AllDated

(* A step that renews nothing: a call that waited for a failed login can   *)
(* only end, for there is no session that it might use.                    *)
LEMMA RenewsNothing ==
  ASSUME RenewalInv, NEW a \in Activities, NEW r,
         act' = [act EXCEPT ![a] = r], r.pc # "authenticating",
         act[a].pc # "done" /\ (r.pc = "done" \/ token # None \/ ~Waits(a)),
         UNCHANGED <<token, failure, waited>>, generation' \in {generation, generation + 1},
         loginLock' \in {loginLock, Released(loginLock, a)}
  PROVE  LoginsHold' /\ LoginsAlone' /\ FailureStands'
<1>1. /\ act'[a] = r /\ \A b \in Activities \ {a} : act'[b] = act[b]
      /\ \A b \in Activities : act[b].gen \in Nat
      /\ generation \in Nat
  BY DEF RenewalInv, TypeOK, Activity
<1>2. LoginsHold' /\ LoginsAlone'
  BY <1>1 DEF RenewalInv, LoginsHold, LoginsAlone, Released
<1>3. ASSUME NEW b \in waited'
      PROVE  /\ token' = None /\ failure'
             /\ act'[b].pc = "done" \/ (Waits(b)' /\ act'[b].gen < generation')
  <2>1. /\ token = None /\ failure /\ b \in Activities
        /\ act[b].pc = "done" \/ (Waits(b) /\ act[b].gen < generation)
    BY <1>3 DEF RenewalInv, FailureStands, TypeOK
  <2>2. CASE b = a
    BY <1>1, <2>1, <2>2
  <2>3. CASE b # a
    BY <1>1, <2>1, <2>3 DEF Waits
  <2>4. QED
    BY <2>2, <2>3
<1>4. QED
  BY <1>2, <1>3 DEF FailureStands

(* A call that ends, and the generation that a login given up has left.    *)
LEMMA EndRenews ==
  ASSUME RenewalInv, NEW a \in Activities, NEW o, Ends(a, o), act[a].pc # "done",
         UNCHANGED <<token, failure, waited, valid>>,
         generation' \in {generation, generation + 1}
  PROVE  AllDated' /\ LoginsHold' /\ LoginsAlone' /\ FailureStands'
<1> DEFINE r == [Fresh EXCEPT !.pc = "done", !.outcome = o]
<1>1. /\ act' = [act EXCEPT ![a] = r] /\ loginLock' = Released(loginLock, a)
      /\ r.pc = "done" /\ act[a] \in Activity /\ generation \in Nat
  BY DEF Ends, Fresh, RenewalInv, TypeOK
<1>2. generation' \in Nat
  BY <1>1
<1>3. Dated(r, generation', valid')
  BY <1>2, EndDated
<1> HIDE DEF r
<1>4. AllDated'
  BY <1>1, <1>3, DatedOthers DEF RenewalInv
<1>5. LoginsHold' /\ LoginsAlone' /\ FailureStands'
  BY <1>1, RenewsNothing
<1>6. QED
  BY <1>4, <1>5

(* A call that goes on with a record of its own.                           *)
LEMMA CallRenews ==
  ASSUME RenewalInv, NEW a \in Activities, NEW r, act' = [act EXCEPT ![a] = r],
         r.pc # "authenticating", act[a].pc # "done", token # None \/ ~Waits(a),
         UNCHANGED <<token, failure, waited, valid, generation, loginLock>>,
         Dated(r, generation, valid)
  PROVE  AllDated' /\ LoginsHold' /\ LoginsAlone' /\ FailureStands'
<1>1. AllDated'
  BY DatedOthers DEF RenewalInv
<1>2. LoginsHold' /\ LoginsAlone' /\ FailureStands'
  BY RenewsNothing
<1>3. QED
  BY <1>1, <1>2

LEMMA LoginRenews ==
  ASSUME RenewalInv, NEW a \in Activities, LoginBegins(a) \/ LoginSucceeds(a) \/ LoginFails(a)
  PROVE  AllDated' /\ LoginsHold' /\ LoginsAlone' /\ FailureStands'
<1>1. /\ act[a] \in Activity /\ act \in [Activities -> Activity] /\ generation \in Nat
      /\ \A b \in Activities : act[b].gen \in 0..generation
      /\ a # None
  <2>1. \A b \in Activities : act[b].gen \in Nat /\ act[b].gen <= generation
    BY DEF RenewalInv, TypeOK, Activity, AllDated, Dated
  <2>2. QED
    BY <2>1, ConstantsOK DEF RenewalInv, TypeOK
<1>2. CASE LoginBegins(a)
  <2> DEFINE r == [act[a] EXCEPT !.again = act[a].pc = "refresh", !.pc = "authenticating"]
  <2>1. /\ act' = [act EXCEPT ![a] = r] /\ loginLock = None /\ loginLock' = a
        /\ token' = None /\ waited' = {} /\ UNCHANGED <<generation, valid>>
    BY <1>1, <1>2 DEF LoginBegins, HasLoginLock, cloud
  <2>2. r.pc = "authenticating" /\ r.gen = act[a].gen
    BY <1>1 DEF Activity
  <2> HIDE DEF r
  <2>3. Dated(r, generation', valid')
    BY <1>1, <2>1, <2>2 DEF Dated, Rejected
  <2>4. AllDated'
    BY <2>1, <2>3, DatedOthers DEF RenewalInv
  <2>5. LoginsHold'
    BY <1>1, <2>1, <2>2, ConstantsOK DEF RenewalInv, LoginsHold
  <2>6. LoginsAlone' /\ FailureStands'
    BY <2>1 DEF LoginsAlone, FailureStands
  <2>7. QED
    BY <2>4, <2>5, <2>6
<1>3. CASE LoginSucceeds(a)
  <2>1. PICK t \in Tokens : LoggedIn(a, t)
    BY <1>3 DEF LoginSucceeds
  <2> DEFINE r == GoesOn(act[a], t, generation + 1)
  <2>2. /\ act' = [act EXCEPT ![a] = r] /\ generation' = generation + 1
        /\ loginLock' = None /\ waited' = waited
    BY <1>1, <2>1 DEF LoggedIn
  <2>3. loginLock = a /\ waited = {}
    BY <1>1, <1>3 DEF LoginSucceeds, RenewalInv, LoginsHold, LoginsAlone
  <2>4. r.pc \in {"devices", "asking"}
    BY <1>1 DEF GoesOn, Asks, Activity
  <2>5. Dated(r, generation', valid')
    <3>1. Dated(r, generation + 1, valid')
      BY <1>1, GoOnDated
    <3>2. QED
      BY <2>2, <3>1
  <2> HIDE DEF r
  <2>6. AllDated'
    BY <2>2, <2>5, DatedOthers DEF RenewalInv
  <2>7. \A b \in Activities : act[b].pc = "authenticating" => b = a
    BY <2>3 DEF RenewalInv, LoginsHold
  <2>8. LoginsHold'
    BY <1>1, <2>2, <2>4, <2>7 DEF LoginsHold
  <2>9. LoginsAlone' /\ FailureStands'
    BY <2>2, <2>3 DEF LoginsAlone, FailureStands
  <2>10. QED
    BY <2>6, <2>8, <2>9
<1>4. CASE LoginFails(a)
  <2>1. PICK o : Ends(a, o)
    BY <1>4 DEF LoginFails, Raises
  <2> DEFINE r == [Fresh EXCEPT !.pc = "done", !.outcome = o]
  <2>2. /\ act' = [act EXCEPT ![a] = r] /\ loginLock' = Released(loginLock, a)
        /\ r.pc = "done" /\ generation' = generation + 1 /\ failure' = TRUE
        /\ token' = token /\ waited' = {b \in Activities : Waits(b)}
        /\ act[a].pc = "authenticating"
    BY <1>4, <2>1 DEF LoginFails, Ends, Fresh
  <2>3. loginLock = a /\ token = None
    BY <1>1, <2>2 DEF RenewalInv, LoginsHold, LoginsAlone
  <2>4. Dated(r, generation', valid')
    <3>1. generation + 1 \in Nat
      BY <1>1
    <3>2. Dated(r, generation + 1, valid')
      BY <3>1, EndDated
    <3>3. QED
      BY <2>2, <3>2
  <2> HIDE DEF r
  <2>5. AllDated'
    BY <2>2, <2>4, DatedOthers DEF RenewalInv
  <2>6. \A b \in Activities : act[b].pc = "authenticating" => b = a
    BY <2>3 DEF RenewalInv, LoginsHold
  <2>7. LoginsHold' /\ LoginsAlone'
    BY <1>1, <2>2, <2>3, <2>6 DEF LoginsHold, LoginsAlone, Released
  <2>8. \A b \in waited' : b \in Activities \ {a} /\ Waits(b)' /\ act'[b].gen < generation'
    BY <1>1, <2>2 DEF Waits
  <2>9. FailureStands'
    BY <2>2, <2>3, <2>8 DEF FailureStands
  <2>10. QED
    BY <2>5, <2>7, <2>9
<1>5. QED
  BY <1>2, <1>3, <1>4

(* A request that the cloud turns down was sent with a token it no longer  *)
(* accepts.                                                                *)
LEMMA ServeRenews ==
  ASSUME RenewalInv, NEW a \in Activities, ServesRead(a) \/ ServesPost(a)
  PROVE  AllDated' /\ LoginsHold' /\ LoginsAlone' /\ FailureStands'
<1>1. PICK q \in {"ok", "foreign", "auth", "refused", "fail"} :
         Serves(a, q) /\ (q = "auth" => act[a].tok \notin valid)
  BY DEF ServesRead, ServesPost
<1> DEFINE r == [act[a] EXCEPT !.reply = q]
<1>2. /\ act' = [act EXCEPT ![a] = r] /\ act[a].pc = "asking"
      /\ UNCHANGED <<token, failure, waited, valid, generation, loginLock>>
  BY <1>1 DEF Serves, session, locks, RenewalInv, TypeOK
<1>3. r.pc = "asking" /\ r.reply = q /\ r.gen = act[a].gen /\ r.tok = act[a].tok
  BY <1>2 DEF RenewalInv, TypeOK, Activity
<1> HIDE DEF r
<1>4. Dated(r, generation, valid)
  BY <1>1, <1>3 DEF RenewalInv, AllDated, Dated, Rejected
<1>5. QED
  BY <1>2, <1>3, <1>4, CallRenews DEF Waits

LEMMA StepRenews ==
  ASSUME RenewalInv, NEW a \in Activities, Begin(a) \/ Step(a) \/ Cancelled(a)
  PROVE  AllDated' /\ LoginsHold' /\ LoginsAlone' /\ FailureStands'
<1>1. /\ act[a] \in Activity /\ act \in [Activities -> Activity]
      /\ generation \in Nat /\ Dated(act[a], generation, valid)
  BY DEF RenewalInv, TypeOK, AllDated
<1> DEFINE Goes(r) == /\ act' = [act EXCEPT ![a] = r] /\ r.pc # "authenticating"
                      /\ Dated(r, generation, valid)
           Calm == UNCHANGED <<token, failure, waited, valid, generation, loginLock>>
<1>2. ASSUME Calm, \E r : Goes(r), act[a].pc # "done", token # None \/ ~Waits(a)
      PROVE  AllDated' /\ LoginsHold' /\ LoginsAlone' /\ FailureStands'
  BY <1>2, CallRenews
<1>3. ASSUME NEW s, act' = [act EXCEPT ![a] = LogsIn(act[a], s)]
      PROVE  \E r : Goes(r)
  <2>1. LogsIn(act[a], s).pc = "login"
    BY DEF LogsIn, Fresh
  <2>2. Dated(LogsIn(act[a], s), generation, valid)
    BY <1>1, LoginDated
  <2>3. QED
    BY <1>3, <2>1, <2>2
<1>4. ASSUME NEW q \in Activity, NEW s, NEW t, act' = [act EXCEPT ![a] = Asks(q, s, t, 0)]
      PROVE  \E r : Goes(r)
  <2>1. Asks(q, s, t, 0).pc = "asking"
    BY DEF Asks, Activity
  <2>2. Dated(Asks(q, s, t, 0), generation, valid)
    BY <1>1, AskDated
  <2>3. QED
    BY <1>4, <2>1, <2>2
<1>5. ASSUME NEW o, Ends(a, o), act[a].pc # "done", UNCHANGED <<token, failure, waited, valid>>,
             generation' \in {generation, generation + 1}
      PROVE  AllDated' /\ LoginsHold' /\ LoginsAlone' /\ FailureStands'
  BY <1>5, EndRenews
<1>6. CASE Begin(a)
  <2>1. PICK k \in Kinds :
           act' = [act EXCEPT ![a] = IF k = "status" THEN LogsIn(act[a], "resolve")
                                     ELSE [act[a] EXCEPT !.pc = "queued", !.kind = k]]
    BY <1>6, ConstantsOK DEF Begin
  <2>2. ASSUME k # "status"
        PROVE  Goes([act[a] EXCEPT !.pc = "queued", !.kind = k])
    BY <1>1, <2>1, <2>2 DEF Activity, Dated, Rejected
  <2>3. \E r : Goes(r)
    BY <1>3, <2>1, <2>2
  <2>4. Calm /\ act[a].pc # "done" /\ ~Waits(a)
    BY <1>6 DEF Begin, session, locks, cloud, Waits
  <2>5. QED
    BY <1>2, <2>3, <2>4
<1>7. CASE TakesCommandLock(a) \/ TakesDevicesLock(a) \/ Listed(a)
  <2>1. \E r : Goes(r)
    BY <1>3, <1>7 DEF TakesCommandLock, TakesDevicesLock, Listed
  <2>2. Calm /\ act[a].pc # "done" /\ ~Waits(a)
    BY <1>7 DEF TakesCommandLock, TakesDevicesLock, Listed, Reads, session, cloud, Waits
  <2>3. QED
    BY <1>2, <2>1, <2>2
<1>8. CASE UsesSession(a)
  <2> DEFINE x == [act[a] EXCEPT !.again = act[a].pc = "refresh"]
  <2>1. /\ x \in Activity /\ act' = [act EXCEPT ![a] = GoesOn(x, token, generation)]
        /\ Calm /\ act[a].pc # "done" /\ token # None
    BY <1>1, <1>8 DEF UsesSession, HasLoginLock, HasSession, Waits, Activity, session, locks, cloud
  <2> HIDE DEF x
  <2>2. GoesOn(x, token, generation).pc \in {"devices", "asking"}
    BY <2>1 DEF GoesOn, Asks, Activity
  <2>3. Goes(GoesOn(x, token, generation))
    BY <1>1, <2>1, <2>2, GoOnDated
  <2>4. QED
    BY <1>2, <2>1, <2>3
<1>9. CASE SharesFailure(a) \/ ReadFails(a) \/ PostFails(a) \/ Cancelled(a)
  <2>1. \E o : Ends(a, o)
    BY <1>9 DEF SharesFailure, ReadFails, PostFails, Cancelled, Raises
  <2>2. act[a].pc # "done" /\ UNCHANGED <<token, failure, waited, valid>>
        /\ generation' \in {generation, generation + 1}
    BY <1>9 DEF SharesFailure, ReadFails, PostFails, Cancelled, HasLoginLock, Waits, Reading,
                Posting, session, cloud
  <2>3. QED
    BY <1>5, <2>1, <2>2
<1>10. CASE LoginBegins(a) \/ LoginSucceeds(a) \/ LoginFails(a)
  BY <1>10, LoginRenews
<1>11. CASE Detailed(a) \/ Posted(a)
  <2>1. /\ UNCHANGED <<token, failure, waited, valid, generation>>
        /\ act[a].pc = "asking" /\ ~Waits(a)
    BY <1>11 DEF Detailed, Posted, Reads, Posting, session, cloud, Waits
  <2>2. CASE Ends(a, "ok")
    BY <1>5, <2>1, <2>2
  <2>3. CASE ~Ends(a, "ok")
    <3>1. [act[a] EXCEPT !.acked = TRUE] \in Activity
      BY <1>1 DEF Activity
    <3>2. Calm
      BY <1>11, <2>1, <2>3 DEF Detailed, Posted, Posting, Posts, locks
    <3>3. \E r : Goes(r)
      BY <1>1, <1>3, <1>4, <1>11, <2>3, <3>1 DEF Detailed, Posted, Posting, Posts
    <3>4. QED
      BY <1>2, <2>1, <3>2, <3>3
  <2>4. QED
    BY <2>2, <2>3
<1>12. CASE ReadRefused(a)
  <2> DEFINE r == [act[a] EXCEPT !.pc = "refresh"]
  <2>1. /\ act' = [act EXCEPT ![a] = r] /\ Calm /\ act[a].pc = "asking"
        /\ act[a].reply = "auth"
    BY <1>1, <1>12 DEF ReadRefused, Reading, session, locks, cloud
  <2>2. r.pc = "refresh" /\ r.gen = act[a].gen /\ r.tok = act[a].tok
    BY <1>1 DEF Activity
  <2> HIDE DEF r
  <2>3. Goes(r)
    BY <1>1, <2>1, <2>2 DEF Dated, Rejected
  <2>4. QED
    BY <1>2, <2>1, <2>3 DEF Waits
<1>13. CASE ServesRead(a) \/ ServesPost(a)
  BY <1>13, ServeRenews
<1>14. QED
  BY <1>6, <1>7, <1>8, <1>9, <1>10, <1>11, <1>12, <1>13 DEF Step

LEMMA InitRenews == Init => RenewalInv
<1> SUFFICES ASSUME Init
             PROVE  RenewalInv
  OBVIOUS
<1>1. Fresh.pc = "idle" /\ Fresh.gen = 0
  BY DEF Fresh
<1>2. AllDated /\ LoginsHold
  BY <1>1 DEF Init, AllDated, Dated, Rejected, LoginsHold
<1>3. LoginsAlone /\ FailureStands
  BY DEF Init, LoginsAlone, FailureStands
<1>4. QED
  BY <1>2, <1>3, InitTypes DEF RenewalInv

LEMMA NextRenews ==
  ASSUME RenewalInv, [Next]_vars
  PROVE  RenewalInv'
<1>1. TypeOK'
  BY TypeInvariance DEF RenewalInv
<1>2. ASSUME NEW a \in Activities, Begin(a) \/ Step(a) \/ Cancelled(a)
      PROVE  AllDated' /\ LoginsHold' /\ LoginsAlone' /\ FailureStands'
  BY <1>2, StepRenews
<1>3. ASSUME UNCHANGED <<session, locks, act, waited>>, valid' \subseteq valid
      PROVE  AllDated' /\ LoginsHold' /\ LoginsAlone' /\ FailureStands'
  <2>1. AllDated'
    BY <1>3 DEF RenewalInv, AllDated, Dated, session
  <2>2. LoginsHold' /\ LoginsAlone' /\ FailureStands'
    BY <1>3 DEF RenewalInv, LoginsHold, LoginsAlone, FailureStands, Waits, session, locks
  <2>3. QED
    BY <2>1, <2>2
<1>4. AllDated' /\ LoginsHold' /\ LoginsAlone' /\ FailureStands'
  BY <1>2, <1>3 DEF Next, Terminated, Expires, vars, cloud
<1>5. QED
  BY <1>1, <1>4 DEF RenewalInv

(* It is inductive.                                                        *)
THEOREM RenewalInvariance == Spec => []RenewalInv
BY InitRenews, NextRenews, PTL DEF Spec

(* What begins a login is the step of that name.                           *)
LEMMA OnlyLoginBegins ==
  ASSUME RenewalInv, [Next]_vars, NEW a \in Activities, BeginsLogin(a)
  PROVE  LoginBegins(a)
<1>1. PICK b \in Activities : Begin(b) \/ Step(b) \/ Cancelled(b)
  BY DEF Next, Terminated, Expires, vars, BeginsLogin
<1>2. act[b] \in Activity /\ act \in [Activities -> Activity]
  BY DEF RenewalInv, TypeOK
<1>3. \/ LoginBegins(b)
      \/ \E r : act' = [act EXCEPT ![b] = r] /\ r.pc # "authenticating"
  <2>1. \A s : LogsIn(act[b], s).pc = "login"
    BY DEF LogsIn, Fresh
  <2>2. \A q \in Activity : \A s, t, g : Asks(q, s, t, g).pc = "asking"
    BY DEF Asks, Activity
  <2>3. \A q \in Activity : \A t, g : GoesOn(q, t, g).pc \in {"devices", "asking"}
    BY <2>2 DEF GoesOn, Activity
  <2>4. \A o : [Fresh EXCEPT !.pc = "done", !.outcome = o].pc = "done"
    BY DEF Fresh
  <2>5. \A o : Ends(b, o) => \E r : act' = [act EXCEPT ![b] = r] /\ r.pc # "authenticating"
    BY <2>4 DEF Ends
  <2>6. /\ [act[b] EXCEPT !.acked = TRUE] \in Activity
        /\ \A x \in BOOLEAN : [act[b] EXCEPT !.again = x] \in Activity
        /\ [act[b] EXCEPT !.pc = "refresh"].pc = "refresh"
        /\ \A k : [act[b] EXCEPT !.pc = "queued", !.kind = k].pc = "queued"
        /\ \A q : [act[b] EXCEPT !.reply = q].pc = act[b].pc
    BY <1>2 DEF Activity
  <2>7. CASE Begin(b)
    BY <2>1, <2>6, <2>7, Zenon DEF Begin
  <2>8. CASE TakesCommandLock(b) \/ TakesDevicesLock(b) \/ Listed(b)
    BY <2>1, <2>8 DEF TakesCommandLock, TakesDevicesLock, Listed
  <2>9. CASE UsesSession(b) \/ LoginSucceeds(b)
    <3>1. CASE UsesSession(b)
      <4> DEFINE x == [act[b] EXCEPT !.again = act[b].pc = "refresh"]
      <4>1. x \in Activity /\ act' = [act EXCEPT ![b] = GoesOn(x, token, generation)]
        BY <1>2, <2>6, <3>1 DEF UsesSession
      <4> HIDE DEF x
      <4>2. QED
        BY <2>3, <4>1
    <3>2. CASE LoginSucceeds(b)
      <4>1. PICK t : act' = [act EXCEPT ![b] = GoesOn(act[b], t, generation + 1)]
        BY <3>2 DEF LoginSucceeds, LoggedIn
      <4>2. GoesOn(act[b], t, generation + 1).pc # "authenticating"
        BY <1>2, <2>3
      <4>3. QED
        BY <4>1, <4>2
    <3>3. QED
      BY <2>9, <3>1, <3>2
  <2>10. CASE SharesFailure(b) \/ LoginFails(b) \/ ReadFails(b) \/ PostFails(b) \/ Cancelled(b)
    BY <2>5, <2>10 DEF SharesFailure, LoginFails, ReadFails, PostFails, Cancelled, Raises
  <2>11. CASE Detailed(b) \/ Posted(b)
    <3> DEFINE x == [act[b] EXCEPT !.acked = TRUE]
    <3>1. x \in Activity
      BY <2>6
    <3>2. Detailed(b) =>
            \/ \E o : Ends(b, o)
            \/ \E k : act' = [act EXCEPT ![b] = Asks(act[b], k, token, 0)]
      BY DEF Detailed
    <3>3. Posted(b) =>
            \/ \E o : Ends(b, o)
            \/ act' = [act EXCEPT ![b] = LogsIn(act[b], "resolve")]
            \/ act' = [act EXCEPT ![b] = Asks(x, "name", token, 0)]
      BY DEF Posted, Posting, Posts
    <3> HIDE DEF x
    <3>4. QED
      BY <1>2, <2>1, <2>2, <2>5, <2>11, <3>1, <3>2, <3>3
  <2>12. CASE ReadRefused(b) \/ ServesRead(b) \/ ServesPost(b)
    <3>1. CASE ReadRefused(b)
      <4> DEFINE x == [act[b] EXCEPT !.pc = "refresh"]
      <4>1. act' = [act EXCEPT ![b] = x] /\ x.pc = "refresh"
        BY <1>2, <2>6, <3>1 DEF ReadRefused
      <4> HIDE DEF x
      <4>2. QED
        BY <4>1
    <3>2. CASE ServesRead(b) \/ ServesPost(b)
      <4>1. PICK q : Serves(b, q)
        BY <3>2 DEF ServesRead, ServesPost
      <4> DEFINE x == [act[b] EXCEPT !.reply = q]
      <4>2. act' = [act EXCEPT ![b] = x] /\ x.pc = "asking"
        BY <1>2, <2>6, <4>1 DEF Serves
      <4> HIDE DEF x
      <4>3. QED
        BY <4>2
    <3>3. QED
      BY <2>12, <3>1, <3>2
  <2>13. QED
    BY <1>1, <2>7, <2>8, <2>9, <2>10, <2>11, <2>12 DEF Step
<1>4. QED
  BY <1>2, <1>3 DEF BeginsLogin, LoginBegins

LEMMA NeededAndShared ==
  ASSUME RenewalInv, [Next]_vars, NEW a \in Activities, BeginsLogin(a)
  PROVE  token \notin valid /\ a \notin waited
<1>1. ~HasSession(a) /\ ~HasFailure(a) /\ Waits(a)
  BY OnlyLoginBegins DEF LoginBegins, HasLoginLock
<1>2. token \notin valid
  <2>1. CASE token = None
    BY <2>1, ConstantsOK DEF RenewalInv, TypeOK
  <2>2. CASE token # None
    <3>1. act[a].pc = "refresh" /\ token = act[a].tok /\ act[a].gen = generation
      BY <1>1, <2>2 DEF HasSession, Waits
    <3>2. QED
      BY <3>1 DEF RenewalInv, AllDated, Dated, Rejected
  <2>3. QED
    BY <2>1, <2>2
<1>3. ASSUME a \in waited
      PROVE  FALSE
  <2>1. failure /\ (act[a].pc = "done" \/ act[a].gen < generation)
    BY <1>3 DEF RenewalInv, FailureStands
  <2>2. act[a].gen # generation
    BY <1>1, <2>1 DEF Waits, RenewalInv, TypeOK, Activity
  <2>3. QED
    BY <1>1, <2>1, <2>2 DEF HasFailure
<1>4. QED
  BY <1>2, <1>3

(* No login is begun while the session at hand still works: the rejection  *)
(* of a token already replaced renews nothing, even when the cloud gives   *)
(* the same token again (_refresh).                                        *)
THEOREM LoginsAreNeeded == Spec => NoNeedlessLogin
<1>1. RenewalInv /\ [Next]_vars
        => [\A a \in Activities : BeginsLogin(a) => token \notin valid]_vars
  BY NeededAndShared
<1>2. QED
  BY <1>1, RenewalInvariance, PTL DEF Spec, NoNeedlessLogin

(* Those who waited for a login that failed begin none of their own, for   *)
(* any number of them (async_login).                                       *)
THEOREM FailuresAreShared == Spec => FailureIsShared
<1>1. RenewalInv /\ [Next]_vars
        => [\A a \in Activities : BeginsLogin(a) => a \notin waited]_vars
  BY NeededAndShared
<1>2. QED
  BY <1>1, RenewalInvariance, PTL DEF Spec, FailureIsShared
=============================================================================
