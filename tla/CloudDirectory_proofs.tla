------------------------- MODULE CloudDirectory_proofs -------------------------
(* Proofs about CloudDirectory, for any records of the vendor, any number  *)
(* of pages, of calls and of changes.  What CloudSession_proofs shows of   *)
(* the session holds below the directory too.                              *)
EXTENDS CloudDirectory, CloudSession_proofs, FiniteSetTheorems

Fetch == [page : Nat, rows : SUBSET Row, total : Nat, found : SUBSET Ids,
          id : Ids \cup {None}, steady : BOOLEAN]

DirTypeOK ==
  /\ book \in Book
  /\ candidate \in Ids \cup {None}
  /\ fetch \in [Activities -> Fetch]
  /\ proven \in [Activities -> SUBSET (Ids \cup {None})]

(* A call with record r about id i has proof p: with the detail accepted,  *)
(* and from then on until its POSTs have been answered.                    *)
Secured(r, i, p) ==
  r.pc = "asking" /\ (r.step \in Posts \/ (r.step = "detail" /\ r.reply = "ok")) => i \in p

AllSecured == \A a \in Activities : Secured(act[a], fetch[a].id, proven[a])

DirInv == IInv /\ DirTypeOK /\ AllSecured

-----------------------------------------------------------------------------
(* Below the directory.  The session's steps are those of CloudSession but *)
(* for the pages of a list after the first and a list that is refused.     *)

LEMMA SessionKept ==
  ASSUME IInv, NEW a \in Activities,
         \/ SessionStep(a) \/ LoginForgets(a) \/ Resolves(a)
         \/ ServesPage(a) \/ ServesDetail(a) \/ Found(a)
  PROVE  IInv'
<1>1. Begin(a) \/ Step(a) \/ Cancelled(a)
  BY DEF SessionStep, LoginForgets, Resolves, ServesPage, ServesDetail, Found, Step
<1>2. Next
  BY <1>1 DEF Next
<1>3. QED
  BY <1>2, NextGood

LEMMA NextPageKeeps ==
  ASSUME IInv, NEW a \in Activities, NextPage(a)
  PROVE  IInv'
<1>1. /\ act[a] \in Activity /\ act[a].pc = "asking" /\ act[a].step = "list"
      /\ act' = [act EXCEPT ![a] = LogsIn(act[a], "list")]
      /\ UNCHANGED <<session, locks, cloud, waited>>
  BY DEF IInv, TypeOK, NextPage, HasPage, Reads
<1>2. "list" \in Steps
  BY DEF Steps
<1>3. LogsIn(act[a], "list") \in Activity
  BY <1>1, <1>2, LogsInType DEF IInv
<1>4. TypeOK' /\ OwnerHasToken'
  BY <1>1, <1>3 DEF IInv, TypeOK, OwnerHasToken, session, locks, cloud
<1>5. applied[a] # {} => act[a].acked
  BY <1>1, Settled DEF Reading
<1>6. Good(LogsIn(act[a], "list"), applied[a])
  BY <1>1, <1>5, GoodLogsIn
<1>7. AllGood'
  BY <1>1, <1>6, GoodOfOne DEF cloud
<1>8. QED
  BY <1>4, <1>7 DEF IInv

LEMMA RefusalKeeps ==
  ASSUME IInv, NEW a \in Activities, ListRefused(a) \/ NotFound(a)
  PROVE  IInv'
<1>1. /\ act[a].pc = "asking" /\ act[a].step = "list" /\ Raises(a)
      /\ UNCHANGED <<token, owner, generation, failure, cloud, waited>>
      /\ cached' \in BOOLEAN
  BY DEF IInv, TypeOK, ListRefused, NotFound, HasPage, Reads, session
<1>2. TypeOK' /\ OwnerHasToken'
  BY <1>1, RaisesType DEF IInv, TypeOK, OwnerHasToken, cloud
<1>3. AllGood'
  BY <1>1, GoodRaises DEF Posting, Posts, cloud
<1>4. QED
  BY <1>2, <1>3 DEF IInv

-----------------------------------------------------------------------------
(* The directory's own variables keep their types.                         *)

LEMMA NoFetchType == NoFetch \in Fetch /\ NoFetch.id = None
BY DEF NoFetch, Fetch

LEMMA FetchWithId ==
  ASSUME NEW i \in Ids \cup {None}
  PROVE  [NoFetch EXCEPT !.id = i] \in Fetch
BY NoFetchType DEF Fetch

LEMMA FoundType ==
  ASSUME DirTypeOK, NEW a \in Activities
  PROVE  FoundWith(a) \in SUBSET Ids
BY DEF DirTypeOK, FoundWith, Fetch, Row

LEMMA PageType ==
  ASSUME DirTypeOK, NEW k
  PROVE  PageOf(k) \in SUBSET Row
BY DEF DirTypeOK, PageOf, Book

LEMMA UnsteadyType ==
  ASSUME DirTypeOK
  PROVE  /\ Unsteady \in [Activities -> Fetch]
         /\ \A a \in Activities : Unsteady[a].id = fetch[a].id
BY DEF DirTypeOK, Unsteady, Fetch

LEMMA CallTypes ==
  ASSUME DirTypeOK, NEW a \in Activities,
         \/ SessionStep(a) \/ LoginForgets(a) \/ Resolves(a)
         \/ ServesPage(a) \/ ServesDetail(a)
         \/ NextPage(a) \/ ListRefused(a) \/ NotFound(a) \/ Found(a)
  PROVE  DirTypeOK'
<1> USE DEF DirTypeOK
<1>1. CASE SessionStep(a) \/ ListRefused(a)
  BY <1>1, NoFetchType DEF SessionStep, ListRefused
<1>2. CASE LoginForgets(a)
  BY <1>2, UnsteadyType DEF LoginForgets
<1>3. CASE Resolves(a)
  BY <1>3, FetchWithId DEF Resolves
<1>4. CASE ServesPage(a)
  <2>1. PageOf(fetch[a].page) \in SUBSET Row /\ Len(book.pages) \in Nat
    BY PageType DEF Book
  <2> DEFINE x == [fetch[a] EXCEPT !.rows = PageOf(fetch[a].page), !.total = Len(book.pages)]
  <2>2. x \in Fetch
    BY <2>1 DEF Fetch
  <2>3. fetch' = [fetch EXCEPT ![a] = x] \/ fetch' = fetch
    BY <1>4 DEF ServesPage
  <2> HIDE DEF x
  <2>4. QED
    BY <1>4, <2>2, <2>3 DEF ServesPage
<1>5. CASE ServesDetail(a)
  <2>1. proven' = proven \/ proven' = [proven EXCEPT ![a] = @ \cup {fetch[a].id}]
    BY <1>5 DEF ServesDetail
  <2>2. fetch[a].id \in Ids \cup {None}
    BY DEF Fetch
  <2>3. QED
    BY <1>5, <2>1, <2>2 DEF ServesDetail
<1>6. CASE NextPage(a)
  <2> DEFINE x == [fetch[a] EXCEPT !.page = @ + 1, !.found = FoundWith(a), !.rows = {}, !.total = 0]
  <2>1. fetch[a] \in Fetch /\ FoundWith(a) \in SUBSET Ids /\ fetch[a].page + 1 \in Nat
    BY FoundType DEF Fetch
  <2>2. x \in Fetch
    BY <2>1 DEF Fetch
  <2>3. fetch' = [fetch EXCEPT ![a] = x] /\ UNCHANGED <<book, candidate, proven>>
    BY <1>6 DEF NextPage
  <2> HIDE DEF x
  <2>4. QED
    BY <2>2, <2>3
<1>7. CASE NotFound(a)
  BY <1>7, NoFetchType DEF NotFound
<1>8. CASE Found(a)
  <2>1. candidate' \in Ids
    BY <1>8, FoundType DEF Found
  <2>2. QED
    BY <1>8, <2>1, FetchWithId DEF Found
<1>9. QED
  BY <1>1, <1>2, <1>3, <1>4, <1>5, <1>6, <1>7, <1>8

-----------------------------------------------------------------------------
(* The proof of ownership.                                                 *)

(* A call that is not asking, or has no answer to its detail yet, needs no *)
(* proof.                                                                  *)
LEMMA FreshSecured ==
  ASSUME NEW r \in Activity, NEW i, NEW p
  PROVE  /\ \A s \in {"resolve", "list", "detail"} : Secured(LogsIn(r, s), i, p)
         /\ \A o : Secured([Fresh EXCEPT !.pc = "done", !.outcome = o], i, p)
         /\ r.step \notin Posts => \A t, g : Secured(GoesOn(r, t, g), i, p)
         /\ i \in p => Secured(r, i, p)
<1>1. \A s : LogsIn(r, s).pc = "login"
  BY DEF LogsIn, Fresh
<1>2. \A o : [Fresh EXCEPT !.pc = "done", !.outcome = o].pc = "done"
  BY DEF Fresh
<1>3. ASSUME r.step \notin Posts, NEW t, NEW g
      PROVE  Secured(GoesOn(r, t, g), i, p)
  <2>1. CASE r.step = "resolve"
    BY <2>1 DEF GoesOn, Secured, Activity
  <2>2. CASE r.step # "resolve"
    <3>1. GoesOn(r, t, g).reply = "none" /\ GoesOn(r, t, g).step = r.step
      BY <2>2 DEF GoesOn, Asks, Activity
    <3>2. QED
      BY <1>3, <3>1 DEF Secured
  <2>3. QED
    BY <2>1, <2>2
<1>4. QED
  BY <1>1, <1>2, <1>3 DEF Secured

(* A step of one call concerns its own record and id only, and a proof is  *)
(* never taken back.                                                       *)
LEMMA SecuredOfOne ==
  ASSUME DirInv, NEW a \in Activities, NEW r, act' = [act EXCEPT ![a] = r],
         \A b \in Activities \ {a} : fetch'[b].id = fetch[b].id,
         \A b \in Activities : proven[b] \subseteq proven'[b],
         Secured(r, fetch'[a].id, proven'[a])
  PROVE  AllSecured'
<1>1. act'[a] = r /\ \A b \in Activities \ {a} : act'[b] = act[b]
  BY DEF DirInv, IInv, TypeOK
<1>2. ASSUME NEW b \in Activities \ {a}
      PROVE  Secured(act'[b], fetch'[b].id, proven'[b])
  BY <1>1 DEF DirInv, AllSecured, Secured
<1>3. QED
  BY <1>1, <1>2 DEF AllSecured

(* What a step of the session makes of a call's record.                    *)
LEMMA StepSecured ==
  ASSUME DirInv, NEW a \in Activities,
         \/ Begin(a) \/ TakesCommandLock(a) \/ UsesSession(a) \/ SharesFailure(a)
         \/ LoginSucceeds(a) \/ LoginFails(a)
         \/ Detailed(a) \/ ReadRefused(a) \/ ReadFails(a)
         \/ Posted(a) \/ PostFails(a) \/ ServesPost(a) \/ Cancelled(a)
  PROVE  \E r \in Activity :
           /\ act' = [act EXCEPT ![a] = r]
           /\ Secured(r, fetch[a].id, proven[a])
           /\ r.pc = "done" => \A i : Secured(r, i, proven[a])
<1> DEFINE i == fetch[a].id
           p == proven[a]
<1>1. /\ act[a] \in Activity /\ Secured(act[a], i, p)
      /\ act[a].step \in Posts => act[a].pc = "asking"
      /\ act \in [Activities -> Activity]
  BY DEF DirInv, IInv, TypeOK, AllGood, Good, PostsOnlyAsk, AllSecured
<1>2. TypeOK'
  BY LoginTypes, RequestTypes, CloudTypes DEF DirInv, IInv
<1>3. act'[a] \in Activity
  BY <1>2 DEF TypeOK
<1>4. \A j : act'[a].pc = "done" => Secured(act'[a], j, p)
  BY DEF Secured
<1> HIDE DEF i, p
<1>5. \E r : act' = [act EXCEPT ![a] = r] /\ Secured(r, i, p)
  <2>1. CASE Begin(a)
    <3>1. PICK k \in Kinds :
             act' = [act EXCEPT ![a] = IF k = "status" THEN LogsIn(act[a], "resolve")
                                       ELSE [act[a] EXCEPT !.pc = "queued", !.kind = k]]
      BY <2>1, ConstantsOK DEF Begin
    <3>2. Secured([act[a] EXCEPT !.pc = "queued", !.kind = k], i, p)
      BY <1>1 DEF Secured, Activity
    <3>3. QED
      BY <1>1, <3>1, <3>2, FreshSecured
  <2>2. CASE TakesCommandLock(a)
    BY <1>1, <2>2, FreshSecured DEF TakesCommandLock
  <2>3. CASE UsesSession(a)
    <3> DEFINE x == [act[a] EXCEPT !.again = act[a].pc = "refresh"]
    <3>1. x \in Activity /\ x.step = act[a].step
      BY <1>1 DEF Activity
    <3>2. act' = [act EXCEPT ![a] = GoesOn(x, token, generation)] /\ act[a].pc # "asking"
      BY <2>3 DEF UsesSession, HasLoginLock, Waits
    <3> HIDE DEF x
    <3>3. x.step \notin Posts
      BY <1>1, <3>1, <3>2
    <3>4. Secured(GoesOn(x, token, generation), i, p)
      BY <3>1, <3>3, FreshSecured
    <3>5. QED
      BY <3>2, <3>4
  <2>4. CASE LoginSucceeds(a)
    BY <1>1, <2>4, FreshSecured DEF LoginSucceeds, LoggedIn
  <2>5. CASE \E o : Ends(a, o)
    BY <1>1, <2>5, FreshSecured DEF Ends
  <2>6. CASE Detailed(a)
    <3>1. i \in p
      BY <1>1, <2>6 DEF Detailed, Reads, Owned, Secured
    <3>2. CASE Ends(a, "ok")
      BY <2>5, <3>2
    <3>3. CASE ~Ends(a, "ok")
      <4>1. \A x : Secured(x, i, p)
        BY <3>1 DEF Secured
      <4>2. QED
        BY <2>6, <3>3, <4>1 DEF Detailed
    <3>4. QED
      BY <3>2, <3>3
  <2>7. CASE Posted(a)
    <3>1. i \in p
      BY <1>1, <2>7 DEF Posted, Posting, Secured
    <3>2. \A x : Secured(x, i, p)
      BY <3>1 DEF Secured
    <3>3. CASE Ends(a, "ok")
      BY <2>5, <3>3
    <3>4. CASE ~Ends(a, "ok")
      BY <2>7, <3>2, <3>4 DEF Posted, Posting, Posts
    <3>5. QED
      BY <3>3, <3>4
  <2>8. CASE ReadRefused(a)
    <3>1. act' = [act EXCEPT ![a] = [act[a] EXCEPT !.pc = "refresh"]]
      BY <1>1, <2>8 DEF ReadRefused
    <3>2. Secured([act[a] EXCEPT !.pc = "refresh"], i, p)
      BY <1>1 DEF Secured, Activity
    <3>3. QED
      BY <3>1, <3>2
  <2>9. CASE ServesPost(a)
    <3>1. i \in p
      BY <1>1, <2>9 DEF ServesPost, Posting, Secured
    <3>2. \A x : Secured(x, i, p)
      BY <3>1 DEF Secured
    <3>3. QED
      BY <1>1, <2>9, <3>2 DEF ServesPost, Serves
  <2>10. SharesFailure(a) \/ LoginFails(a) \/ ReadFails(a) \/ PostFails(a) \/ Cancelled(a)
           => \E o : Ends(a, o)
    BY DEF SharesFailure, LoginFails, ReadFails, PostFails, Cancelled, Raises
  <2>11. QED
    BY <2>1, <2>2, <2>3, <2>4, <2>5, <2>6, <2>7, <2>8, <2>9, <2>10
<1>6. act' = [act EXCEPT ![a] = act'[a]] /\ Secured(act'[a], i, p)
  BY <1>1, <1>5
<1>7. QED
  BY <1>3, <1>4, <1>6 DEF i, p

(* Each step of a call keeps the proofs, with its page or its detail.      *)
LEMMA CallSecured ==
  ASSUME DirInv, NEW a \in Activities,
         \/ SessionStep(a) \/ LoginForgets(a) \/ Resolves(a)
         \/ ServesPage(a) \/ ServesDetail(a)
         \/ NextPage(a) \/ ListRefused(a) \/ NotFound(a) \/ Found(a)
  PROVE  AllSecured'
<1>1. /\ act[a] \in Activity /\ act \in [Activities -> Activity]
      /\ DirTypeOK /\ Secured(act[a], fetch[a].id, proven[a])
  BY DEF DirInv, IInv, TypeOK, AllSecured
<1>2. \A b \in Activities : proven[b] \subseteq proven'[b]
  BY <1>1 DEF DirTypeOK, SessionStep, LoginForgets, Resolves, ServesPage, ServesDetail,
              NextPage, ListRefused, NotFound, Found
<1>3. CASE SessionStep(a)
  <2>1. PICK r \in Activity :
           /\ act' = [act EXCEPT ![a] = r]
           /\ Secured(r, fetch[a].id, proven[a])
           /\ r.pc = "done" => \A i : Secured(r, i, proven[a])
    BY <1>3, StepSecured DEF SessionStep
  <2>2. fetch' = (IF r.pc = "done" THEN [fetch EXCEPT ![a] = NoFetch] ELSE fetch)
        /\ proven' = proven
    BY <1>1, <1>3, <2>1 DEF SessionStep
  <2>3. \A b \in Activities \ {a} : fetch'[b].id = fetch[b].id
    BY <1>1, <2>2 DEF DirTypeOK
  <2>4. Secured(r, fetch'[a].id, proven'[a])
    BY <2>1, <2>2
  <2>5. QED
    BY <1>2, <2>1, <2>3, <2>4, SecuredOfOne
<1>4. CASE LoginForgets(a)
  <2> DEFINE r == [act[a] EXCEPT !.again = act[a].pc = "refresh", !.pc = "authenticating"]
  <2>1. act' = [act EXCEPT ![a] = r]
    BY <1>1, <1>4 DEF LoginForgets, LoginBegins
  <2>2. r.pc = "authenticating"
    BY <1>1 DEF Activity
  <2> HIDE DEF r
  <2>3. \A b \in Activities : fetch'[b].id = fetch[b].id
    BY <1>1, <1>4, UnsteadyType DEF LoginForgets
  <2>4. Secured(r, fetch'[a].id, proven'[a])
    BY <2>2 DEF Secured
  <2>5. QED
    BY <1>2, <2>1, <2>3, <2>4, SecuredOfOne
<1>5. CASE Resolves(a) \/ NextPage(a) \/ Found(a)
  <2>1. PICK s \in {"list", "detail"} : act' = [act EXCEPT ![a] = LogsIn(act[a], s)]
    BY <1>5 DEF Resolves, TakesDevicesLock, NextPage, Found, Listed
  <2>2. \A b \in Activities \ {a} : fetch'[b].id = fetch[b].id
    BY <1>1, <1>5 DEF DirTypeOK, Resolves, NextPage, Found
  <2>3. Secured(LogsIn(act[a], s), fetch'[a].id, proven'[a])
    BY <1>1, FreshSecured
  <2>4. QED
    BY <1>2, <2>1, <2>2, <2>3, SecuredOfOne
<1>6. CASE ListRefused(a) \/ NotFound(a)
  <2>1. PICK o : act' = [act EXCEPT ![a] = [Fresh EXCEPT !.pc = "done", !.outcome = o]]
    BY <1>6 DEF ListRefused, NotFound, Raises, Ends
  <2>2. \A b \in Activities \ {a} : fetch'[b].id = fetch[b].id
    BY <1>1, <1>6 DEF DirTypeOK, ListRefused, NotFound
  <2>3. Secured([Fresh EXCEPT !.pc = "done", !.outcome = o], fetch'[a].id, proven'[a])
    BY <1>1, FreshSecured
  <2>4. QED
    BY <1>2, <2>1, <2>2, <2>3, SecuredOfOne
<1>7. CASE ServesPage(a)
  <2>1. PICK q : act' = [act EXCEPT ![a].reply = q] /\ act[a].step = "list"
    BY <1>7 DEF ServesPage, ServesRead, Serves, Reads
  <2> DEFINE r == [act[a] EXCEPT !.reply = q]
  <2>2. act' = [act EXCEPT ![a] = r] /\ r.step = "list"
    BY <1>1, <2>1 DEF Activity
  <2> HIDE DEF r
  <2>3. \A b \in Activities \ {a} : fetch'[b].id = fetch[b].id
    BY <1>1, <1>7 DEF DirTypeOK, ServesPage
  <2>4. Secured(r, fetch'[a].id, proven'[a])
    BY <2>2 DEF Secured, Posts
  <2>5. QED
    BY <1>2, <2>2, <2>3, <2>4, SecuredOfOne
<1>8. CASE ServesDetail(a)
  <2>1. PICK q \in {"ok", "foreign", "auth", "fail"} :
           act' = [act EXCEPT ![a].reply = q] /\ act[a].step = "detail"
    BY <1>8 DEF ServesDetail, ServesRead, Serves, Reads
  <2> DEFINE r == [act[a] EXCEPT !.reply = q]
  <2>2. act' = [act EXCEPT ![a] = r] /\ r.step = "detail" /\ r.reply = q /\ act'[a].reply = q
    BY <1>1, <2>1 DEF Activity
  <2> HIDE DEF r
  <2>3. fetch' = fetch
    BY <1>8 DEF ServesDetail
  <2>4. q = "ok" => fetch[a].id \in proven'[a]
    <3>1. CASE q = "ok"
      <4>1. Accepts(book.detail[fetch[a].id])
        BY <1>8, <2>2, <3>1 DEF ServesDetail
      <4>2. Ours(book.detail[fetch[a].id])
        BY <4>1 DEF Accepts, Ours
      <4>3. proven' = [proven EXCEPT ![a] = @ \cup {fetch[a].id}]
        BY <1>8, <2>2, <3>1, <4>2 DEF ServesDetail
      <4>4. QED
        BY <1>1, <4>3 DEF DirTypeOK
    <3>2. QED
      BY <3>1
  <2>5. Secured(r, fetch'[a].id, proven'[a])
    BY <2>2, <2>3, <2>4 DEF Secured, Posts
  <2>6. QED
    BY <1>2, <2>2, <2>3, <2>5, SecuredOfOne
<1>9. QED
  BY <1>3, <1>4, <1>5, <1>6, <1>7, <1>8

-----------------------------------------------------------------------------
LEMMA DirInitSound ==
  ASSUME DirInit
  PROVE  DirInv
<1>1. IInv
  BY InitGood DEF DirInit
<1>2. DirTypeOK
  BY NoFetchType, DirectoryConstants DEF DirInit, DirTypeOK
<1>3. AllSecured
  BY DEF DirInit, Init, AllSecured, Secured, Fresh
<1>4. QED
  BY <1>1, <1>2, <1>3 DEF DirInv

LEMMA DirNextSound ==
  ASSUME DirInv, [DirNext]_dirVars
  PROVE  DirInv'
<1>1. IInv /\ DirTypeOK
  BY DEF DirInv
<1>2. ASSUME NEW a \in Activities,
             \/ SessionStep(a) \/ LoginForgets(a) \/ Resolves(a)
             \/ ServesPage(a) \/ ServesDetail(a)
             \/ NextPage(a) \/ ListRefused(a) \/ NotFound(a) \/ Found(a)
      PROVE  DirInv'
  <2>1. IInv'
    BY <1>1, <1>2, SessionKept, NextPageKeeps, RefusalKeeps
  <2>2. DirTypeOK' /\ AllSecured'
    BY <1>1, <1>2, CallTypes, CallSecured
  <2>3. QED
    BY <2>1, <2>2 DEF DirInv
<1>3. CASE RecordsChange
  <2>1. IInv'
    <3>1. UNCHANGED vars
      BY <1>3 DEF RecordsChange
    <3>2. QED
      BY <1>1, <3>1, NextGood
  <2>2. DirTypeOK'
    BY <1>1, <1>3, UnsteadyType, DirectoryConstants DEF RecordsChange, DirTypeOK
  <2>3. AllSecured'
    <3>1. act' = act /\ proven' = proven /\ \A a \in Activities : fetch'[a].id = fetch[a].id
      BY <1>1, <1>3, UnsteadyType DEF RecordsChange, vars
    <3>2. QED
      BY <3>1 DEF DirInv, AllSecured
  <2>4. QED
    BY <2>1, <2>2, <2>3 DEF DirInv
<1>4. ASSUME UNCHANGED directory, UNCHANGED act, [Next]_vars
      PROVE  DirInv'
  <2>1. IInv'
    BY <1>1, <1>4, NextGood
  <2>2. DirTypeOK' /\ AllSecured'
    BY <1>4 DEF DirInv, DirTypeOK, AllSecured, directory
  <2>3. QED
    BY <2>1, <2>2 DEF DirInv
<1>5. CASE \E t \in Tokens : Expires(t) /\ UNCHANGED directory
  BY <1>4, <1>5 DEF Next, Expires
<1>6. CASE Terminated /\ UNCHANGED directory
  BY <1>4, <1>6 DEF Next, Terminated, vars
<1>7. CASE UNCHANGED dirVars
  BY <1>4, <1>7 DEF dirVars, vars
<1>8. QED
  BY <1>2, <1>3, <1>5, <1>6, <1>7 DEF DirNext

(* The invariant is inductive.                                             *)
THEOREM DirInvariance == DirSpec => []DirInv
<1>1. DirInit => DirInv
  BY DirInitSound
<1>2. DirInv /\ [DirNext]_dirVars => DirInv'
  BY DirNextSound
<1>3. QED
  BY <1>1, <1>2, PTL DEF DirSpec

(* What the cloud carries out concerns an id that its detail has shown, to *)
(* the same call, to be ours (_device_detail, _owned_device).              *)
THEOREM OnlyOwnIsChanged == DirSpec => PostsToOwn
<1>1. ASSUME DirInv, [DirNext]_dirVars, NEW a \in Activities, applied'[a] # applied[a]
      PROVE  fetch[a].id \in proven[a]
  <2>1. CASE \E b \in Activities : ServesPost(b)
    <3>1. PICK b \in Activities : ServesPost(b)
      BY <2>1
    <3>2. applied' = applied \/ applied' = [applied EXCEPT ![b] = @ \cup {act[b].step}]
      BY <3>1 DEF ServesPost
    <3>3. a = b
      BY <1>1, <3>2 DEF DirInv, IInv, TypeOK
    <3>4. QED
      BY <1>1, <3>1, <3>3 DEF DirInv, AllSecured, Secured, ServesPost, Posting
  <2>2. CASE ~\E b \in Activities : ServesPost(b)
    <3>1. applied' = applied
      BY <1>1, <2>2
         DEF DirNext, dirVars, vars, cloud, SessionStep, LoginForgets, Resolves, ServesPage,
             ServesDetail, NextPage, ListRefused, NotFound, Found, RecordsChange, Expires,
             Terminated, Begin, TakesCommandLock, TakesDevicesLock, UsesSession, SharesFailure,
             LoginBegins, LoginSucceeds, LoggedIn, LoginFails, Listed, Detailed, ReadRefused,
             ReadFails, Posted, PostFails, ServesRead, Cancelled
    <3>2. QED
      BY <1>1, <3>1
  <2>3. QED
    BY <2>1, <2>2
<1>2. DirInv /\ [DirNext]_dirVars
        => [\A a \in Activities : applied'[a] # applied[a] => fetch[a].id \in proven[a]]_dirVars
  BY <1>1
<1>3. QED
  BY <1>2, DirInvariance, PTL DEF DirSpec, PostsToOwn

(* Below the directory the session's promise holds still: an error not     *)
(* marked as of unknown outcome means that nothing was carried out.        *)
THEOREM DirErrorsTruthful == DirSpec => []ErrorsAreTruthful
<1>1. DirInv => ErrorsAreTruthful
  BY DEF DirInv, IInv, AllGood, Good, ErrorIsClean, ErrorsAreTruthful
<1>2. QED
  BY <1>1, DirInvariance, PTL

-----------------------------------------------------------------------------
(* What a steady list has gathered: the ids of every row of the pages read *)
(* that does not name another account.                                     *)

PageIn(b, k) == IF k \in DOMAIN b.pages THEN b.pages[k] ELSE {}
RowsTo(b, k) == UNION {PageIn(b, i) : i \in 1..k}
IdsOf(rows) == {row.id : row \in {x \in rows : x.user # "guest"}}

Gathered(f, b) ==
  f.page >= 1 /\ (f.steady => f.found = IdsOf(RowsTo(b, f.page - 1)))

(* A list is asked for, and read, with an account known.                   *)
ListAsked(r, f, b, known) ==
  r.pc = "asking" /\ r.step = "list" /\ f.steady =>
    known /\ (r.reply = "ok" => f.rows = PageIn(b, f.page) /\ f.total = Len(b.pages))

AllGathered ==
  \A a \in Activities : Gathered(fetch[a], book) /\ ListAsked(act[a], fetch[a], book, owner)

TokenHasOwner == token # None => owner

ListInv == DirInv /\ book \in Books /\ TokenHasOwner /\ AllGathered

LEMMA NextRows ==
  ASSUME NEW b, NEW k \in Nat, k >= 1
  PROVE  RowsTo(b, k) = RowsTo(b, k - 1) \cup PageIn(b, k)
<1>1. 1..k = 1..(k - 1) \cup {k}
  OBVIOUS
<1>2. QED
  BY <1>1 DEF RowsTo

LEMMA NoRows ==
  ASSUME NEW b
  PROVE  /\ Gathered(NoFetch, b)
         /\ \A i : Gathered([NoFetch EXCEPT !.id = i], b)
<1>1. RowsTo(b, 0) = {}
  BY DEF RowsTo
<1>2. IdsOf(RowsTo(b, 1 - 1)) = {}
  BY <1>1 DEF IdsOf
<1>3. NoFetch.page = 1 /\ NoFetch.found = {}
  BY DEF NoFetch
<1>4. \A i : [NoFetch EXCEPT !.id = i].page = 1 /\ [NoFetch EXCEPT !.id = i].found = {}
  BY DEF NoFetch
<1>5. QED
  BY <1>2, <1>3, <1>4 DEF Gathered

(* The rows of finitely many pages name finitely many ids.                 *)
LEMMA IdsFinite ==
  ASSUME NEW b \in Books, NEW k \in Nat
  PROVE  IsFiniteSet(IdsOf(RowsTo(b, k)))
<1>1. \A i \in 1..k : IsFiniteSet(PageIn(b, i))
  BY DirectoryConstants, FS_EmptySet DEF PageIn
<1>2. IsFiniteSet({PageIn(b, i) : i \in 1..k})
  <2> DEFINE T == {PageIn(b, i) : i \in 1..k}
             f == [i \in 1..k |-> PageIn(b, i)]
  <2>1. IsFiniteSet(1..k)
    BY FS_Interval
  <2>2. f \in Surjection(1..k, T)
    BY DEF Surjection
  <2>3. QED
    BY <2>1, <2>2, FS_Surjection
<1>3. IsFiniteSet(RowsTo(b, k))
  BY <1>1, <1>2, FS_UNION DEF RowsTo
<1> DEFINE S == {x \in RowsTo(b, k) : x.user # "guest"}
           T == {x.id : x \in S}
           f == [x \in S |-> x.id]
<1>4. IsFiniteSet(S)
  BY <1>3, FS_Subset
<1>5. f \in Surjection(S, T)
  BY DEF Surjection
<1>6. IsFiniteSet(T)
  BY <1>4, <1>5, FS_Surjection
<1>7. QED
  BY <1>6 DEF IdsOf

(* With the answer at hand, a steady list knows the ids up to its page.    *)
LEMMA FoundUpTo ==
  ASSUME ListInv, NEW a \in Activities, HasPage(a), fetch[a].steady
  PROVE  /\ FoundWith(a) = IdsOf(RowsTo(book, fetch[a].page))
         /\ fetch[a].total = Len(book.pages)
<1>1. /\ fetch[a] \in Fetch /\ fetch[a].page \in Nat /\ fetch[a].page >= 1
      /\ fetch[a].found = IdsOf(RowsTo(book, fetch[a].page - 1))
      /\ fetch[a].rows = PageIn(book, fetch[a].page)
      /\ fetch[a].total = Len(book.pages) /\ owner
  BY DEF ListInv, DirInv, DirTypeOK, Fetch, AllGathered, Gathered, ListAsked, HasPage, Reads
<1>2. \A row \in fetch[a].rows : Kept(row) <=> row.user # "guest"
  BY <1>1 DEF Kept, Fetch, Row, Users
<1>3. FoundWith(a) = fetch[a].found \cup IdsOf(fetch[a].rows)
  BY <1>2 DEF FoundWith, IdsOf
<1>4. RowsTo(book, fetch[a].page) = RowsTo(book, fetch[a].page - 1) \cup PageIn(book, fetch[a].page)
  BY <1>1, NextRows
<1>5. IdsOf(RowsTo(book, fetch[a].page))
        = IdsOf(RowsTo(book, fetch[a].page - 1)) \cup IdsOf(PageIn(book, fetch[a].page))
  BY <1>4 DEF IdsOf
<1>6. QED
  BY <1>1, <1>3, <1>5

(* Past the last page there is nothing more.                               *)
LEMMA ListingIs ==
  ASSUME ListInv, NEW a \in Activities, NEW k \in Nat, k >= Len(book.pages)
  PROVE  /\ {row.id : row \in Listing(a)} = IdsOf(RowsTo(book, k))
         /\ Listing(a) = {} <=> IdsOf(RowsTo(book, k)) = {}
<1>1. book.pages \in Seq(SUBSET Row) /\ DOMAIN book.pages = 1..Len(book.pages)
      /\ Len(book.pages) \in Nat
  BY DEF ListInv, DirInv, DirTypeOK, Book
<1>2. DOMAIN book.pages \subseteq 1..k
  BY <1>1
<1>3. RowsTo(book, k) = UNION {PageOf(i) : i \in DOMAIN book.pages}
  BY <1>2 DEF RowsTo, PageIn, PageOf
<1>4. Listing(a) = {x \in RowsTo(book, k) : x.user # "guest"}
  BY <1>3 DEF Listing
<1>5. QED
  BY <1>4 DEF IdsOf

(* A step of one call leaves the others' lists alone; a login that fails   *)
(* or begins makes them unsteady.                                          *)
LEMMA ListsOfOthers ==
  ASSUME ListInv, NEW a \in Activities, NEW r, act' = [act EXCEPT ![a] = r],
         book' = book, owner => owner',
         \A b \in Activities \ {a} : fetch'[b] = fetch[b],
         Gathered(fetch'[a], book), ListAsked(r, fetch'[a], book, owner')
  PROVE  AllGathered'
<1>1. act'[a] = r /\ \A b \in Activities \ {a} : act'[b] = act[b]
  BY DEF ListInv, DirInv, IInv, TypeOK
<1>2. ASSUME NEW b \in Activities \ {a}
      PROVE  Gathered(fetch'[b], book') /\ ListAsked(act'[b], fetch'[b], book', owner')
  BY <1>1 DEF ListInv, AllGathered, ListAsked
<1>3. QED
  BY <1>1, <1>2 DEF AllGathered

LEMMA UnsteadyGathered ==
  ASSUME ListInv, fetch' = Unsteady
  PROVE  AllGathered'
<1>1. ASSUME NEW a \in Activities
      PROVE  fetch'[a].page = fetch[a].page /\ ~fetch'[a].steady
  BY DEF ListInv, DirInv, DirTypeOK, Unsteady, Fetch
<1>2. QED
  BY <1>1 DEF ListInv, AllGathered, Gathered, ListAsked

(* A call asks for a page of its list with a session, hence an account.    *)
LEMMA StepAsks ==
  ASSUME ListInv, NEW a \in Activities,
         \/ Begin(a) \/ TakesCommandLock(a) \/ UsesSession(a) \/ SharesFailure(a)
         \/ LoginSucceeds(a) \/ LoginFails(a)
         \/ Detailed(a) \/ ReadRefused(a) \/ ReadFails(a)
         \/ Posted(a) \/ PostFails(a) \/ ServesPost(a) \/ Cancelled(a)
  PROVE  \E r \in Activity :
           /\ act' = [act EXCEPT ![a] = r]
           /\ r.pc = "asking" /\ r.step = "list" => owner' /\ r.reply = "none"
<1>1. act[a] \in Activity /\ act \in [Activities -> Activity] /\ TokenHasOwner
  BY DEF ListInv, DirInv, IInv, TypeOK
<1>2. TypeOK'
  BY LoginTypes, RequestTypes, CloudTypes DEF ListInv, DirInv, IInv
<1>3. PICK r \in Activity : act' = [act EXCEPT ![a] = r]
  BY StepSecured DEF ListInv
<1>4. act'[a] = r
  BY <1>1, <1>3
<1>5. \A q \in Activity : \A s, t, g :
        Asks(q, s, t, g).step = s /\ Asks(q, s, t, g).reply = "none" /\ Asks(q, s, t, g).pc = "asking"
  BY DEF Asks, Activity
<1>6. \A q \in Activity : \A t, g :
        GoesOn(q, t, g).pc = "asking" => GoesOn(q, t, g).reply = "none"
  BY <1>5 DEF GoesOn
<1>7. \A s : LogsIn(act[a], s).pc = "login"
  BY DEF LogsIn, Fresh
<1>8. CASE UsesSession(a)
  <2> DEFINE x == [act[a] EXCEPT !.again = act[a].pc = "refresh"]
  <2>1. x \in Activity /\ act' = [act EXCEPT ![a] = GoesOn(x, token, generation)]
        /\ owner' = owner /\ token # None
    BY <1>1, <1>8 DEF UsesSession, HasSession, Activity, session
  <2> HIDE DEF x
  <2>2. act'[a] = GoesOn(x, token, generation)
    BY <1>1, <2>1
  <2>3. r.pc = "asking" => r.reply = "none"
    BY <1>4, <1>6, <2>1, <2>2
  <2>4. owner'
    BY <1>1, <2>1 DEF TokenHasOwner
  <2>5. QED
    BY <1>3, <2>3, <2>4
<1>9. CASE LoginSucceeds(a)
  <2>1. PICK t : LoggedIn(a, t)
    BY <1>9 DEF LoginSucceeds
  <2>2. owner' = TRUE /\ act'[a] = GoesOn(act[a], t, generation + 1)
    BY <1>1, <2>1 DEF LoggedIn
  <2>3. r.pc = "asking" => r.reply = "none"
    BY <1>1, <1>4, <1>6, <2>2
  <2>4. QED
    BY <1>3, <2>2, <2>3
<1>10. ASSUME r.pc # "asking" \/ r.step # "list"
       PROVE  \E q \in Activity :
                /\ act' = [act EXCEPT ![a] = q]
                /\ q.pc = "asking" /\ q.step = "list" => owner' /\ q.reply = "none"
  BY <1>3, <1>10
<1>11. CASE \E o : Ends(a, o)
  <2>1. PICK o : act' = [act EXCEPT ![a] = [Fresh EXCEPT !.pc = "done", !.outcome = o]]
    BY <1>11 DEF Ends
  <2>2. [Fresh EXCEPT !.pc = "done", !.outcome = o].pc = "done"
    BY DEF Fresh
  <2>3. act'[a].pc = "done"
    BY <1>1, <2>1, <2>2
  <2>4. QED
    BY <1>4, <1>10, <2>3
<1>12. CASE Begin(a) \/ TakesCommandLock(a)
  <2>1. act'[a].pc \in {"login", "queued"}
    <3>1. CASE TakesCommandLock(a)
      BY <1>1, <1>7, <3>1 DEF TakesCommandLock
    <3>2. CASE Begin(a)
      <4>1. PICK k : act' = [act EXCEPT ![a] = IF k = "status" THEN LogsIn(act[a], "resolve")
                                       ELSE [act[a] EXCEPT !.pc = "queued", !.kind = k]]
        BY <3>2 DEF Begin
      <4>2. [act[a] EXCEPT !.pc = "queued", !.kind = k].pc = "queued"
        BY <1>1 DEF Activity
      <4>3. QED
        BY <1>1, <1>7, <4>1, <4>2
    <3>3. QED
      BY <1>12, <3>1, <3>2
  <2>2. QED
    BY <1>4, <1>10, <2>1
<1>13. CASE Detailed(a) \/ Posted(a)
  <2> DEFINE x == [act[a] EXCEPT !.acked = TRUE]
  <2>1. x \in Activity
    BY <1>1 DEF Activity
  <2>2. Detailed(a) =>
          \/ \E o : Ends(a, o)
          \/ \E k \in {"control", "label"} : act' = [act EXCEPT ![a] = Asks(act[a], k, token, 0)]
    BY DEF Detailed
  <2>3. Posted(a) =>
          \/ \E o : Ends(a, o)
          \/ act' = [act EXCEPT ![a] = LogsIn(act[a], "resolve")]
          \/ act' = [act EXCEPT ![a] = Asks(x, "name", token, 0)]
    BY DEF Posted, Posting, Posts
  <2> HIDE DEF x
  <2>4. (\E o : Ends(a, o)) \/ act'[a].pc = "login" \/ act'[a].step # "list"
    BY <1>1, <1>5, <1>7, <1>13, <2>1, <2>2, <2>3
  <2>5. QED
    BY <1>4, <1>10, <1>11, <2>4
<1>14. CASE ReadRefused(a)
  <2>1. act'[a].pc = "refresh"
    BY <1>1, <1>14 DEF ReadRefused, Activity
  <2>2. QED
    BY <1>4, <1>10, <2>1
<1>15. CASE ServesPost(a)
  <2>1. PICK q : act' = [act EXCEPT ![a] = [act[a] EXCEPT !.reply = q]]
    BY <1>1, <1>15 DEF ServesPost, Serves
  <2>2. act'[a].step = act[a].step /\ act[a].step # "list"
    BY <1>1, <1>15, <2>1 DEF ServesPost, Posting, Posts, Activity
  <2>3. QED
    BY <1>4, <1>10, <2>2
<1>16. SharesFailure(a) \/ LoginFails(a) \/ ReadFails(a) \/ PostFails(a) \/ Cancelled(a)
         => \E o : Ends(a, o)
  BY DEF SharesFailure, LoginFails, ReadFails, PostFails, Cancelled, Raises
<1>17. QED
  BY <1>8, <1>9, <1>11, <1>12, <1>13, <1>14, <1>15, <1>16

LEMMA CallGathers ==
  ASSUME ListInv, NEW a \in Activities,
         \/ SessionStep(a) \/ LoginForgets(a) \/ Resolves(a)
         \/ ServesPage(a) \/ ServesDetail(a)
         \/ NextPage(a) \/ ListRefused(a) \/ NotFound(a) \/ Found(a)
  PROVE  AllGathered'
<1>1. /\ act[a] \in Activity /\ act \in [Activities -> Activity]
      /\ fetch[a] \in Fetch /\ fetch \in [Activities -> Fetch]
      /\ Gathered(fetch[a], book) /\ ListAsked(act[a], fetch[a], book, owner)
  BY DEF ListInv, DirInv, DirTypeOK, IInv, TypeOK, AllGathered
<1>2. CASE SessionStep(a)
  <2>1. PICK r \in Activity :
           /\ act' = [act EXCEPT ![a] = r]
           /\ r.pc = "asking" /\ r.step = "list" => owner' /\ r.reply = "none"
    BY <1>2, StepAsks DEF SessionStep
  <2>2. fetch' = (IF r.pc = "done" THEN [fetch EXCEPT ![a] = NoFetch] ELSE fetch) /\ book' = book
    BY <1>1, <1>2, <2>1 DEF SessionStep
  <2>3. owner => owner'
    BY <1>2 DEF SessionStep, Begin, TakesCommandLock, UsesSession, SharesFailure,
                LoginSucceeds, LoggedIn, LoginFails, Detailed, ReadRefused, ReadFails,
                Posted, PostFails, ServesPost, Serves, Cancelled, session
  <2>4. Gathered(fetch'[a], book) /\ \A b \in Activities \ {a} : fetch'[b] = fetch[b]
    BY <1>1, <2>2, NoRows
  <2>5. ListAsked(r, fetch'[a], book, owner')
    BY <2>1 DEF ListAsked
  <2>6. QED
    BY <2>1, <2>2, <2>3, <2>4, <2>5, ListsOfOthers
<1>3. CASE LoginForgets(a)
  BY <1>3, UnsteadyGathered DEF LoginForgets
<1>4. CASE Resolves(a) \/ Found(a)
  <2>1. PICK s : act' = [act EXCEPT ![a] = LogsIn(act[a], s)]
    BY <1>4 DEF Resolves, TakesDevicesLock, Found, Listed
  <2>2. PICK i : fetch' = [fetch EXCEPT ![a] = [NoFetch EXCEPT !.id = i]]
    BY <1>4 DEF Resolves, Found
  <2>3. book' = book /\ owner' = owner
    BY <1>4 DEF Resolves, TakesDevicesLock, Found, Listed, session
  <2>4. fetch'[a] = [NoFetch EXCEPT !.id = i] /\ \A b \in Activities \ {a} : fetch'[b] = fetch[b]
    BY <1>1, <2>2
  <2>5. Gathered(fetch'[a], book)
    BY <2>4, NoRows
  <2>6. LogsIn(act[a], s).pc = "login"
    BY DEF LogsIn, Fresh
  <2>7. ListAsked(LogsIn(act[a], s), fetch'[a], book, owner')
    BY <2>6 DEF ListAsked
  <2>8. QED
    BY <2>1, <2>3, <2>4, <2>5, <2>7, ListsOfOthers
<1>5. CASE ListRefused(a) \/ NotFound(a)
  <2>1. PICK o : act' = [act EXCEPT ![a] = [Fresh EXCEPT !.pc = "done", !.outcome = o]]
    BY <1>5 DEF ListRefused, NotFound, Raises, Ends
  <2> DEFINE r == [Fresh EXCEPT !.pc = "done", !.outcome = o]
  <2>2. r.pc = "done"
    BY DEF Fresh
  <2>3. book' = book /\ owner' = owner /\ fetch' = [fetch EXCEPT ![a] = NoFetch]
    BY <1>5 DEF ListRefused, NotFound, session
  <2> HIDE DEF r
  <2>4. Gathered(fetch'[a], book) /\ \A b \in Activities \ {a} : fetch'[b] = fetch[b]
    BY <1>1, <2>3, NoRows
  <2>5. ListAsked(r, fetch'[a], book, owner')
    BY <2>2 DEF ListAsked
  <2>6. act' = [act EXCEPT ![a] = r]
    BY <2>1 DEF r
  <2>7. QED
    BY <2>3, <2>4, <2>5, <2>6, ListsOfOthers
<1>6. CASE ServesPage(a) \/ ServesDetail(a)
  <2>1. PICK q : Serves(a, q)
    BY <1>6 DEF ServesPage, ServesDetail, ServesRead
  <2> DEFINE r == [act[a] EXCEPT !.reply = q]
  <2>2. /\ act' = [act EXCEPT ![a] = r] /\ owner' = owner /\ book' = book
        /\ r.pc = act[a].pc /\ r.step = act[a].step /\ r.reply = q /\ act'[a].reply = q
    BY <1>1, <1>6, <2>1 DEF Serves, session, Activity, ServesPage, ServesDetail
  <2> HIDE DEF r
  <2>3. CASE ServesDetail(a)
    <3>1. fetch' = fetch /\ r.step = "detail"
      BY <2>2, <2>3 DEF ServesDetail, Reads
    <3>2. ListAsked(r, fetch'[a], book, owner')
      BY <3>1 DEF ListAsked
    <3>3. QED
      BY <1>1, <2>2, <3>1, <3>2, ListsOfOthers
  <2>4. CASE ServesPage(a) /\ q = "ok"
    <3> DEFINE x == [fetch[a] EXCEPT !.rows = PageOf(fetch[a].page), !.total = Len(book.pages)]
    <3>1. fetch' = [fetch EXCEPT ![a] = x]
      BY <2>2, <2>4 DEF ServesPage
    <3>2. /\ x.page = fetch[a].page /\ x.found = fetch[a].found /\ x.steady = fetch[a].steady
          /\ x.rows = PageIn(book, fetch[a].page) /\ x.total = Len(book.pages)
      BY <1>1 DEF Fetch, PageOf, PageIn
    <3> HIDE DEF x
    <3>3. fetch'[a] = x /\ \A b \in Activities \ {a} : fetch'[b] = fetch[b]
      BY <1>1, <3>1
    <3>4. Gathered(fetch'[a], book)
      BY <1>1, <3>2, <3>3 DEF Gathered
    <3>5. ListAsked(r, fetch'[a], book, owner')
      BY <1>1, <2>2, <3>2, <3>3, <2>4 DEF ListAsked, ServesPage, Reads
    <3>6. QED
      BY <2>2, <3>3, <3>4, <3>5, ListsOfOthers
  <2>5. CASE ServesPage(a) /\ q # "ok"
    <3>1. fetch' = fetch
      BY <2>2, <2>5 DEF ServesPage
    <3>2. ListAsked(r, fetch'[a], book, owner')
      BY <1>1, <2>2, <2>5, <3>1 DEF ListAsked
    <3>3. QED
      BY <1>1, <2>2, <3>1, <3>2, ListsOfOthers
  <2>6. QED
    BY <1>6, <2>3, <2>4, <2>5
<1>7. CASE NextPage(a)
  <2> DEFINE x == [fetch[a] EXCEPT !.page = @ + 1, !.found = FoundWith(a), !.rows = {}, !.total = 0]
             r == LogsIn(act[a], "list")
  <2>1. /\ act' = [act EXCEPT ![a] = r] /\ fetch' = [fetch EXCEPT ![a] = x]
        /\ owner' = owner /\ book' = book /\ HasPage(a)
    BY <1>7 DEF NextPage, session
  <2>2. x.page = fetch[a].page + 1 /\ x.found = FoundWith(a) /\ x.steady = fetch[a].steady
    BY <1>1 DEF Fetch
  <2>3. r.pc = "login"
    BY DEF LogsIn, Fresh
  <2> HIDE DEF x, r
  <2>4. fetch'[a] = x /\ \A b \in Activities \ {a} : fetch'[b] = fetch[b]
    BY <1>1, <2>1
  <2>5. fetch[a].page \in Nat /\ fetch[a].page >= 1 /\ x.page - 1 = fetch[a].page
    BY <1>1, <2>2 DEF Gathered, Fetch
  <2>6. x.steady => x.found = IdsOf(RowsTo(book, x.page - 1))
    BY <2>1, <2>2, <2>5, FoundUpTo
  <2>7. Gathered(fetch'[a], book)
    BY <2>2, <2>4, <2>5, <2>6 DEF Gathered
  <2>8. ListAsked(r, fetch'[a], book, owner')
    BY <2>3 DEF ListAsked
  <2>9. QED
    BY <2>1, <2>4, <2>7, <2>8, ListsOfOthers
<1>8. QED
  BY <1>2, <1>3, <1>4, <1>5, <1>6, <1>7

LEMMA OwnerWithToken ==
  ASSUME TokenHasOwner, [DirNext]_dirVars
  PROVE  TokenHasOwner'
<1>1. CASE UNCHANGED <<token, owner>>
  BY <1>1 DEF TokenHasOwner
<1>2. CASE \E a \in Activities : LoginForgets(a)
  BY <1>2 DEF LoginForgets, LoginBegins, TokenHasOwner
<1>3. CASE \E a \in Activities : LoginSucceeds(a)
  BY <1>3 DEF LoginSucceeds, LoggedIn, TokenHasOwner
<1>4. QED
  BY <1>1, <1>2, <1>3
     DEF DirNext, dirVars, vars, session, SessionStep, Resolves, ServesPage, ServesDetail,
         NextPage, ListRefused, NotFound, Found, RecordsChange, Expires, Terminated, Begin,
         TakesCommandLock, TakesDevicesLock, UsesSession, SharesFailure, LoginFails, Listed,
         Detailed, ReadRefused, ReadFails, Posted, PostFails, ServesRead, ServesPost, Serves,
         Cancelled

(* It holds at the beginning, and every step keeps it.                     *)
THEOREM ListInvariance == DirSpec => []ListInv
<1>1. ASSUME DirInit
      PROVE  ListInv
  <2>1. DirInv /\ book \in Books
    BY <1>1, DirInitSound DEF DirInit
  <2>2. TokenHasOwner
    BY <1>1 DEF DirInit, Init, TokenHasOwner
  <2>3. Fresh.pc = "idle"
    BY DEF Fresh
  <2>4. AllGathered
    BY <1>1, <2>3, NoRows DEF DirInit, Init, AllGathered, ListAsked
  <2>5. QED
    BY <2>1, <2>2, <2>4 DEF ListInv
<1>2. ASSUME ListInv, [DirNext]_dirVars
      PROVE  ListInv'
  <2>1. DirInv' /\ TokenHasOwner'
    BY <1>2, DirNextSound, OwnerWithToken DEF ListInv
  <2>2. book' \in Books
    BY <1>2 DEF ListInv, DirNext, dirVars, directory, SessionStep, LoginForgets, Resolves,
                ServesPage, ServesDetail, NextPage, ListRefused, NotFound, Found, RecordsChange
  <2>3. ASSUME UNCHANGED <<act, fetch, book, owner>>
        PROVE  AllGathered'
    BY <1>2, <2>3 DEF ListInv, AllGathered
  <2>4. ASSUME NEW a \in Activities,
               \/ SessionStep(a) \/ LoginForgets(a) \/ Resolves(a)
               \/ ServesPage(a) \/ ServesDetail(a)
               \/ NextPage(a) \/ ListRefused(a) \/ NotFound(a) \/ Found(a)
        PROVE  AllGathered'
    BY <1>2, <2>4, CallGathers
  <2>5. RecordsChange => AllGathered'
    BY <1>2, UnsteadyGathered DEF RecordsChange
  <2>6. AllGathered'
    BY <1>2, <2>3, <2>4, <2>5 DEF DirNext, dirVars, vars, directory, session, Expires, Terminated
  <2>7. QED
    BY <2>1, <2>2, <2>6 DEF ListInv
<1>3. QED
  BY <1>1, <1>2, PTL DEF DirSpec

(* While neither records nor session change, the MAC is reported as not    *)
(* found only if no page has it, for any number of pages and rows.         *)
THEOREM OwnedAreFound == DirSpec => OwnedIsFound
<1>1. ASSUME ListInv, NEW a \in Activities, NotFound(a), fetch[a].steady
      PROVE  Listing(a) = {}
  <2>1. /\ FoundWith(a) = {} /\ FoundWith(a) = IdsOf(RowsTo(book, fetch[a].page))
        /\ fetch[a].page >= Len(book.pages)
    BY <1>1, FoundUpTo DEF NotFound, LastPage
  <2>2. fetch[a].page \in Nat
    BY <1>1 DEF ListInv, DirInv, DirTypeOK, Fetch
  <2>3. QED
    BY <1>1, <2>1, <2>2, ListingIs
<1>2. ListInv /\ [DirNext]_dirVars
        => [\A a \in Activities : NotFound(a) /\ fetch[a].steady => Listing(a) = {}]_dirVars
  BY <1>1
<1>3. QED
  BY <1>2, ListInvariance, PTL DEF DirSpec, OwnedIsFound

(* The id a steady list settles on is the only one of the MAC on any page: *)
(* two of them, on one page or on two, are a conflict.                     *)
THEOREM IdsAreUnambiguous == DirSpec => IdIsUnambiguous
<1>1. ASSUME ListInv, NEW a \in Activities, Found(a), fetch[a].steady
      PROVE  {row.id : row \in Listing(a)} = {candidate'}
  <2>1. /\ FoundWith(a) = IdsOf(RowsTo(book, fetch[a].page))
        /\ fetch[a].page >= Len(book.pages) /\ candidate' \in FoundWith(a)
        /\ ~(Cardinality(FoundWith(a)) > 1)
    BY <1>1, FoundUpTo DEF Found, LastPage, Conflict
  <2>2. fetch[a].page \in Nat /\ book \in Books
    BY <1>1 DEF ListInv, DirInv, DirTypeOK, Fetch
  <2>3. IsFiniteSet(FoundWith(a))
    BY <2>1, <2>2, IdsFinite
  <2>4. Cardinality(FoundWith(a)) = 1
    BY <2>1, <2>3, FS_CardinalityType, FS_EmptySet
  <2>5. FoundWith(a) = {candidate'}
    BY <2>1, <2>3, <2>4, FS_Singleton
  <2>6. QED
    BY <1>1, <2>1, <2>2, <2>5, ListingIs
<1>2. ListInv /\ [DirNext]_dirVars
        => [\A a \in Activities :
              Found(a) /\ fetch[a].steady => {row.id : row \in Listing(a)} = {candidate'}]_dirVars
  BY <1>1
<1>3. QED
  BY <1>2, ListInvariance, PTL DEF DirSpec, IdIsUnambiguous

-----------------------------------------------------------------------------
(* The session's promises about renewals below the directory: a page after *)
(* the first goes through a login like any read, and a list that is        *)
(* refused only ends its call.                                             *)

LEMMA DirStep ==
  ASSUME RenewalInv, [DirNext]_dirVars
  PROVE  \/ [Next]_vars
         \/ \E a \in Activities : NextPage(a) \/ ListRefused(a) \/ NotFound(a)
<1>1. ASSUME NEW a \in Activities,
             \/ SessionStep(a) \/ LoginForgets(a) \/ Resolves(a)
             \/ ServesPage(a) \/ ServesDetail(a) \/ Found(a)
      PROVE  Next
  BY <1>1 DEF SessionStep, LoginForgets, Resolves, ServesPage, ServesDetail, Found, Step, Next
<1>2. RecordsChange \/ UNCHANGED dirVars => UNCHANGED vars
  BY DEF RecordsChange, dirVars
<1>3. (\E t \in Tokens : Expires(t) /\ UNCHANGED directory) \/ (Terminated /\ UNCHANGED directory)
        => Next
  BY DEF Next
<1>4. QED
  BY <1>1, <1>2, <1>3 DEF DirNext

LEMMA ListStepRenews ==
  ASSUME RenewalInv, NEW a \in Activities, NextPage(a) \/ ListRefused(a) \/ NotFound(a)
  PROVE  /\ TypeOK'
         /\ AllDated' /\ LoginsHold' /\ LoginsAlone' /\ FailureStands'
         /\ \A b \in Activities : ~BeginsLogin(b)
<1>1. /\ act[a] \in Activity /\ act \in [Activities -> Activity] /\ generation \in Nat
      /\ act[a].pc = "asking" /\ TypeOK
      /\ UNCHANGED <<token, failure, waited, valid, generation>>
  BY DEF RenewalInv, TypeOK, NextPage, ListRefused, NotFound, HasPage, Reads, session, cloud
<1>2. CASE NextPage(a)
  <2> DEFINE r == LogsIn(act[a], "list")
  <2>1. act' = [act EXCEPT ![a] = r] /\ UNCHANGED <<session, locks, cloud, waited>>
    BY <1>2 DEF NextPage
  <2>2. r \in Activity /\ r.pc = "login"
    BY <1>1, LogsInType DEF Steps, LogsIn, Fresh
  <2>3. Dated(r, generation, valid)
    BY <1>1, LoginDated
  <2> HIDE DEF r
  <2>4. TypeOK'
    BY <1>1, <2>1, <2>2 DEF TypeOK, session, locks, cloud
  <2>5. AllDated' /\ LoginsHold' /\ LoginsAlone' /\ FailureStands'
    BY <1>1, <2>1, <2>2, <2>3, CallRenews DEF Waits, session, locks, cloud
  <2>6. QED
    BY <1>1, <2>1, <2>2, <2>4, <2>5 DEF BeginsLogin
<1>3. CASE ListRefused(a) \/ NotFound(a)
  <2>1. Raises(a) /\ UNCHANGED <<token, owner, cloud>> /\ cached' \in BOOLEAN
    BY <1>1, <1>3 DEF ListRefused, NotFound, session, TypeOK
  <2>2. PICK o : Ends(a, o)
    BY <2>1 DEF Raises
  <2>3. TypeOK'
    BY <1>1, <2>1, RaisesType DEF TypeOK, cloud
  <2>4. AllDated' /\ LoginsHold' /\ LoginsAlone' /\ FailureStands'
    BY <1>1, <2>2, EndRenews
  <2> DEFINE r == [Fresh EXCEPT !.pc = "done", !.outcome = o]
  <2>5. act' = [act EXCEPT ![a] = r] /\ r.pc = "done"
    BY <2>2 DEF Ends, Fresh
  <2> HIDE DEF r
  <2>6. QED
    BY <1>1, <2>3, <2>4, <2>5 DEF BeginsLogin
<1>4. QED
  BY <1>2, <1>3

LEMMA DirRenews == DirSpec => []RenewalInv
<1>1. DirInit => RenewalInv
  BY InitRenews DEF DirInit
<1>2. ASSUME RenewalInv, [DirNext]_dirVars
      PROVE  RenewalInv'
  <2>1. [Next]_vars => RenewalInv'
    BY <1>2, NextRenews
  <2>2. (\E a \in Activities : NextPage(a) \/ ListRefused(a) \/ NotFound(a)) => RenewalInv'
    BY <1>2, ListStepRenews DEF RenewalInv
  <2>3. QED
    BY <1>2, <2>1, <2>2, DirStep
<1>3. QED
  BY <1>1, <1>2, PTL DEF DirSpec

(* No list, of however many pages, begins a login that is not needed or    *)
(* that was known to fail.                                                 *)
THEOREM DirLoginsAreNeeded == DirSpec => NoNeedlessLogin /\ FailureIsShared
<1>1. ASSUME RenewalInv, [DirNext]_dirVars, NEW a \in Activities, BeginsLogin(a)
      PROVE  token \notin valid /\ a \notin waited
  <2>1. [Next]_vars
    BY <1>1, DirStep, ListStepRenews
  <2>2. QED
    BY <1>1, <2>1, NeededAndShared
<1>2. RenewalInv /\ [DirNext]_dirVars
        => [\A a \in Activities : BeginsLogin(a) => token \notin valid]_vars
  BY <1>1 DEF dirVars, directory
<1>3. RenewalInv /\ [DirNext]_dirVars
        => [\A a \in Activities : BeginsLogin(a) => a \notin waited]_vars
  BY <1>1 DEF dirVars, directory
<1>4. QED
  BY <1>2, <1>3, DirRenews, PTL DEF DirSpec, NoNeedlessLogin, FailureIsShared
=============================================================================
