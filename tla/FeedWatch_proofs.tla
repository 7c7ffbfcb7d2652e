------------------------- MODULE FeedWatch_proofs -------------------------
(* Proofs about what the dispatcher hands over: which reports and          *)
(* disconnects an overflow of the callback queue cannot lose, for any size *)
(* of the queue and any number of sessions and reports.                    *)
EXTENDS FeedWatch, ReportFeed_proofs

EndsWith(q, item) ==
  \E k \in 1..Len(q) : q[k] = item /\ \A j \in 1..Len(q) : j > k => IsDisconnect(q[j])

LEMMA EndsWithTail ==
  ASSUME NEW q \in Seq(Item), q # <<>>, NEW item, EndsWith(q, item)
  PROVE  EndsWith(Tail(q), item) \/ (Head(q) = item /\ OnlyDisconnects(Tail(q)))
<1> DEFINE t == Tail(q)
<1>1. /\ Len(q) \in Nat \ {0} /\ Len(t) = Len(q) - 1 /\ Head(q) = q[1]
      /\ \A i \in 1..Len(t) : i + 1 \in 1..Len(q) /\ t[i] = q[i + 1]
  OBVIOUS
<1> HIDE DEF t
<1>2. PICK k \in 1..Len(q) : q[k] = item /\ \A j \in 1..Len(q) : j > k => IsDisconnect(q[j])
  BY DEF EndsWith
<1>3. CASE k = 1
  <2>1. \A i \in 1..Len(t) : IsDisconnect(t[i])
    BY <1>1, <1>2, <1>3
  <2>2. QED
    BY <1>1, <1>2, <1>3, <2>1 DEF OnlyDisconnects, t
<1>4. CASE k # 1
  <2>1. k - 1 \in 1..Len(t) /\ t[k - 1] = item
    BY <1>1, <1>2, <1>4
  <2>2. \A j \in 1..Len(t) : j > k - 1 => IsDisconnect(t[j])
    BY <1>1, <1>2
  <2>3. QED
    BY <2>1, <2>2 DEF EndsWith, t
<1>5. QED
  BY <1>3, <1>4

LEMMA OnlyDisconnectsTail ==
  ASSUME NEW q \in Seq(Item), q # <<>>, OnlyDisconnects(q)
  PROVE  OnlyDisconnects(Tail(q)) /\ IsDisconnect(Head(q))
<1> DEFINE t == Tail(q)
<1>1. /\ 1 \in 1..Len(q) /\ Head(q) = q[1]
      /\ \A i \in 1..Len(t) : i + 1 \in 1..Len(q) /\ t[i] = q[i + 1]
  OBVIOUS
<1> HIDE DEF t
<1>2. QED
  BY <1>1 DEF OnlyDisconnects, t

LEMMA AppendEnds ==
  ASSUME NEW q \in Seq(Item), NEW x \in Item
  PROVE  /\ EndsWith(Append(q, x), x)
         /\ IsDisconnect(x) => /\ OnlyDisconnects(q) => OnlyDisconnects(Append(q, x))
                               /\ \A item : EndsWith(q, item) => EndsWith(Append(q, x), item)
<1> DEFINE a == Append(q, x)
<1>1. /\ Len(q) \in Nat /\ Len(a) = Len(q) + 1 /\ a[Len(a)] = x
      /\ \A i \in 1..Len(q) : i \in 1..Len(a) /\ a[i] = q[i]
  OBVIOUS
<1>2. /\ Len(a) \in 1..Len(a)
      /\ \A i \in 1..Len(a) : ~(i > Len(a)) /\ (i = Len(a) \/ i \in 1..Len(q))
  BY <1>1
<1> HIDE DEF a
<1>3. EndsWith(a, x)
  BY <1>1, <1>2 DEF EndsWith
<1>4. IsDisconnect(x) /\ OnlyDisconnects(q) => OnlyDisconnects(a)
  BY <1>1, <1>2 DEF OnlyDisconnects
<1>5. ASSUME NEW item, IsDisconnect(x), EndsWith(q, item)
      PROVE  EndsWith(a, item)
  <2>1. PICK k \in 1..Len(q) : q[k] = item /\ \A j \in 1..Len(q) : j > k => IsDisconnect(q[j])
    BY <1>5 DEF EndsWith
  <2>2. k \in 1..Len(a) /\ a[k] = item
    BY <1>1, <2>1
  <2>3. \A j \in 1..Len(a) : j > k => IsDisconnect(a[j])
    BY <1>1, <1>2, <1>5, <2>1
  <2>4. QED
    BY <2>2, <2>3 DEF EndsWith
<1>6. QED
  BY <1>3, <1>4, <1>5 DEF a

(* The sessions of the disconnects in the queue differ from each other and *)
(* from one that has none: not enough of them for a full queue.            *)
LEMMA FewDisconnects ==
  ASSUME FeedInv, NEW id \in 1..counter, counter <= QueueSize,
         \A k \in Disconnects : queue[k].session # id
  PROVE  Cardinality(Disconnects) < QueueSize
<1> DEFINE S == (1..counter) \ {id}
           f == [k \in Disconnects |-> queue[k].session]
<1>1. /\ counter \in Nat /\ QueueSize \in Nat /\ queue \in Seq(Item) /\ Apart(queue)
      /\ \A k \in 1..Len(queue) : ItemFits(queue[k], link, counter, leaving)
  BY FeedValues DEF FeedInv, LinkFits, Fits
<1>2. \A k \in Disconnects : k \in 1..Len(queue) /\ IsDisconnect(queue[k])
  BY DEF Disconnects
<1>3. f \in [Disconnects -> S]
  BY <1>1, <1>2 DEF ItemFits
<1>4. \A j, k \in Disconnects : j # k => queue[j].session # queue[k].session
  BY <1>1, <1>2 DEF Apart
<1>5. f \in Injection(Disconnects, S)
  BY <1>3, <1>4 DEF Injection, IsInjective
<1>6. IsFiniteSet(1..counter) /\ Cardinality(1..counter) = counter
  <2>1. counter \in Int /\ 1 \in Int
    BY <1>1
  <2>2. Cardinality(1..counter) = IF 1 > counter THEN 0 ELSE counter - 1 + 1
    BY <2>1, FS_Interval
  <2>3. QED
    BY <1>1, <2>1, <2>2, FS_Interval
<1>7. IsFiniteSet(S) /\ Cardinality(S) = counter - 1
  BY <1>6, FS_RemoveElement
<1>8. Cardinality(Disconnects) <= Cardinality(S) /\ Cardinality(Disconnects) \in Nat
  BY <1>1, <1>5, <1>7, FS_Injection, LeftFromFalls
<1>9. QED
  BY <1>1, <1>7, <1>8

(* A step hands an item over or leaves what was handed over alone.         *)
HandsOver ==
  LET item == Head(queue) IN
  /\ Dispatch \/ DispatchFails
  /\ shown' = IF IsDisconnect(item) THEN shown ELSE item.status
  /\ told' = IF IsDisconnect(item) THEN told \cup {item.session} ELSE told

OtherStep ==
  \/ FeedAccept \/ Verify \/ LinkCloses \/ LinkEnds
  \/ \E r \in Reports, same \in BOOLEAN : FeedReport(r, same)
  \/ \E id \in leaving : WriterGone(id)
  \/ UNCHANGED feedVars

LEMMA WatchSteps ==
  ASSUME [WatchNext]_watchVars
  PROVE  /\ [FeedNext]_feedVars
         /\ HandsOver \/ (OtherStep /\ UNCHANGED <<shown, told>>)
<1>1. CASE UNCHANGED watchVars
  BY <1>1 DEF watchVars, feedVars, OtherStep
<1>2. CASE WatchNext /\ (Dispatch \/ DispatchFails)
  BY <1>2 DEF WatchNext, Watch, HandsOver
<1>3. CASE WatchNext /\ ~(Dispatch \/ DispatchFails)
  BY <1>3 DEF WatchNext, FeedNext, Watch, OtherStep
<1>4. QED
  BY <1>1, <1>2, <1>3

-----------------------------------------------------------------------------
(* The ends of sessions.                                                   *)

LEMMA DisconnectsStay ==
  ASSUME FeedInv, NoDisconnectLost, NEW item \in Item, queue' = QueueAfter(item),
         NEW x \in 1..counter, counter <= QueueSize,
         IsDisconnect(item) => item.session = x,
         \A k \in Disconnects : queue[k].session # x,
         NEW id, Queued(DisconnectItem(id))
  PROVE  Queued(DisconnectItem(id))'
<1>1. queue \in Seq(Item) /\ Apart(queue) /\ Cardinality(Disconnects) < QueueSize
  BY FewDisconnects DEF FeedInv, Fits
<1>2. \A k \in Disconnects : Holds(queue', queue[k])
  BY <1>1, QueueAfterKeeps
<1>3. PICK k \in 1..Len(queue) : queue[k] = DisconnectItem(id)
  BY DEF Queued
<1>4. k \in Disconnects
  BY <1>3 DEF Disconnects, DisconnectItem, IsDisconnect
<1>5. QED
  BY <1>2, <1>3, <1>4 DEF Holds, Queued, DisconnectItem

LEMMA NoDisconnectLostNext ==
  ASSUME FeedInv, NoDisconnectLost, [WatchNext]_watchVars
  PROVE  NoDisconnectLost'
<1> SUFFICES ASSUME counter' <= QueueSize, NEW id \in 1..counter'
             PROVE  \/ id = link'.session \/ id \in leaving' \/ id \in told'
                    \/ Queued(DisconnectItem(id))'
  BY DEF NoDisconnectLost, DisconnectItem
<1> DEFINE Kept == \/ id = link.session \/ id \in leaving \/ id \in told
                   \/ Queued(DisconnectItem(id))
<1>1. counter \in Nat /\ QueueSize \in Nat /\ link.session \in {0, counter}
  BY FeedValues DEF FeedInv, LinkFits
<1>2. ASSUME counter' = counter
      PROVE  Kept /\ counter <= QueueSize /\ id \in 1..counter
  BY <1>2 DEF NoDisconnectLost
<1>3. CASE HandsOver
  <2>1. /\ queue # <<>> /\ queue' = Tail(queue) /\ UNCHANGED <<counter, leaving>>
        /\ link'.session = link.session
    BY <1>3, TakeFits DEF HandsOver
  <2>2. CASE ~Queued(DisconnectItem(id))
    BY <1>2, <1>3, <2>1, <2>2 DEF HandsOver
  <2>3. CASE Queued(DisconnectItem(id))
    <3>1. DisconnectItem(id) = Head(queue) \/ Holds(queue', DisconnectItem(id))
      BY <2>1, <2>3, TailFits DEF Queued, FeedInv
    <3>2. CASE DisconnectItem(id) = Head(queue)
      <4>1. IsDisconnect(Head(queue)) /\ Head(queue).session = id
        BY <3>2 DEF DisconnectItem, IsDisconnect
      <4>2. QED
        BY <1>3, <4>1 DEF HandsOver
    <3>3. CASE Holds(queue', DisconnectItem(id))
      BY <3>3 DEF Holds, Queued, DisconnectItem
    <3>4. QED
      BY <3>1, <3>2, <3>3
  <2>4. QED
    BY <2>2, <2>3
<1>4. CASE OtherStep /\ UNCHANGED <<shown, told>>
  <2>1. CASE Verify \/ LinkCloses \/ LinkEnds \/ UNCHANGED feedVars
    <3>1. /\ UNCHANGED <<counter, queue>> /\ leaving \subseteq leaving'
          /\ link'.session = link.session \/ link.session \in leaving'
      BY <2>1, CloserFits DEF Verify, LinkCloses, LinkEnds, feedVars
    <3>2. QED
      BY <1>2, <1>4, <3>1 DEF Queued, DisconnectItem
  <2>2. CASE FeedAccept
    <3>1. /\ counter' = counter + 1 /\ link.session = 0 /\ UNCHANGED <<leaving, queue>>
          /\ link' = [NoLink EXCEPT !.session = counter + 1]
      BY <2>2 DEF FeedAccept, LinkUp
    <3>2. link'.session = counter + 1
      BY <1>1, <3>1, FeedValues
    <3>3. CASE id = counter + 1
      BY <3>2, <3>3
    <3>4. CASE id # counter + 1
      <4>1. id \in 1..counter /\ counter <= QueueSize /\ id # link.session
        BY <1>1, <3>1, <3>4
      <4>2. QED
        BY <1>4, <3>1, <4>1 DEF NoDisconnectLost, Queued, DisconnectItem
    <3>5. QED
      BY <3>3, <3>4
  <2>3. CASE \E r \in Reports, same \in BOOLEAN : FeedReport(r, same)
    <3>1. PICK r \in Reports, same \in BOOLEAN : FeedReport(r, same)
      BY <2>3
    <3> DEFINE item == StatusItem(NextStatus(r, same))
    <3>2. /\ item \in Item /\ ~IsDisconnect(item) /\ queue' = QueueAfter(item)
          /\ UNCHANGED <<counter, leaving>> /\ link'.session = link.session
      BY <3>1, ReportFits
    <3>3. link.session \in 1..counter
      BY <1>1, <3>1 DEF FeedReport, MayReport, LinkUp
    <3>4. \A k \in Disconnects : queue[k].session # link.session
      BY DEF FeedInv, Fits, ItemFits, Disconnects
    <3> HIDE DEF item
    <3>5. Queued(DisconnectItem(id)) => Queued(DisconnectItem(id))'
      BY <1>2, <3>2, <3>3, <3>4, DisconnectsStay
    <3>6. QED
      BY <1>2, <1>4, <3>2, <3>5
  <2>4. CASE \E x \in leaving : WriterGone(x)
    <3>1. PICK x \in leaving : WriterGone(x)
      BY <2>4
    <3> DEFINE item == DisconnectItem(x)
    <3>2. /\ item \in Item /\ IsDisconnect(item) /\ item.session = x /\ x \in 1..counter
          /\ \A k \in Disconnects : queue[k].session # x
      BY <3>1, WriterFits DEF DisconnectItem
    <3>3. /\ queue' = QueueAfter(item) /\ leaving' = leaving \ {x} /\ UNCHANGED <<link, counter>>
      BY <3>1 DEF WriterGone
    <3>4. Holds(queue', item)
      <4>1. queue \in Seq(Item) /\ Apart(queue)
        BY DEF FeedInv, Fits
      <4>2. QED
        BY <3>2, <3>3, <4>1, QueueAfterKeeps
    <3>5. Queued(item)'
      BY <3>4 DEF Holds, Queued, DisconnectItem
    <3>6. CASE id = x
      BY <3>5, <3>6 DEF Queued
    <3>7. CASE id # x
      <4> HIDE DEF item
      <4>1. Queued(DisconnectItem(id)) => Queued(DisconnectItem(id))'
        BY <1>2, <3>2, <3>3, DisconnectsStay
      <4>2. QED
        BY <1>2, <1>4, <3>3, <3>7, <4>1
    <3>8. QED
      BY <3>6, <3>7
  <2>5. QED
    BY <1>4, <2>1, <2>2, <2>3, <2>4 DEF OtherStep
<1>5. QED
  BY <1>3, <1>4, WatchSteps

(* As long as no more sessions were accepted than the queue has places,    *)
(* the coordinator is told of the end of each, although overflows discard  *)
(* callbacks: the sessions whose end waits are fewer than the places,      *)
(* because the one that overflows the queue has no end in it.              *)
THEOREM EndsAreTold == WatchSpec => []NoDisconnectLost
<1>1. WatchInit => FeedInv /\ NoDisconnectLost
  <2>1. FeedInit => \A id : id \notin 1..counter
    BY DEF FeedInit
  <2>2. QED
    BY <2>1, FeedInitInv DEF WatchInit, NoDisconnectLost
<1>2. FeedInv /\ NoDisconnectLost /\ [WatchNext]_watchVars => FeedInv' /\ NoDisconnectLost'
  BY WatchSteps, FeedNextInv, NoDisconnectLostNext
<1>3. QED
  BY <1>1, <1>2, PTL DEF WatchSpec

-----------------------------------------------------------------------------
(* The latest report.                                                      *)

Arrives ==
  LinkConnected /\ link.status # NoStatus =>
    \/ EndsWith(queue, StatusItem(link.status))
    \/ shown = link.status /\ OnlyDisconnects(queue)

LEMMA ArrivesNext ==
  ASSUME FeedInv, Arrives, [WatchNext]_watchVars, ~DropsLatest
  PROVE  Arrives'
<1> DEFINE L == StatusItem(link.status)
<1> SUFFICES ASSUME LinkConnected', link'.status # NoStatus
             PROVE  \/ EndsWith(queue', StatusItem(link'.status))
                    \/ shown' = link'.status /\ OnlyDisconnects(queue')
  BY DEF Arrives, NoStatus, EndsWith, StatusItem, OnlyDisconnects, IsDisconnect
<1>1. /\ queue \in Seq(Item) /\ Apart(queue) /\ link \in Link
      /\ link'.session # 0 /\ link'.verified /\ ~link'.writerClosing
  BY DEF FeedInv, LinkFits, Fits, LinkConnected, LinkUp
<1>2. ASSUME link' = link
      PROVE  /\ EndsWith(queue, L) \/ (shown = link.status /\ OnlyDisconnects(queue))
             /\ LinkConnected
  BY <1>2 DEF Arrives, LinkConnected, LinkUp
<1>3. CASE HandsOver
  <2>1. queue # <<>> /\ queue' = Tail(queue) /\ link' = link
    <3>1. queue # <<>> /\ queue' = Tail(queue) /\ (link' = link \/ link' = [link EXCEPT !.writerClosing = TRUE])
      BY <1>3, TakeFits DEF HandsOver
    <3>2. [link EXCEPT !.writerClosing = TRUE].writerClosing
      BY <1>1 DEF Link
    <3>3. QED
      BY <1>1, <3>1, <3>2
  <2>2. CASE EndsWith(queue, L)
    <3>1. EndsWith(queue', L) \/ (Head(queue) = L /\ OnlyDisconnects(queue'))
      BY <1>1, <2>1, <2>2, EndsWithTail
    <3>2. CASE Head(queue) = L /\ OnlyDisconnects(queue')
      <4>1. ~IsDisconnect(Head(queue)) /\ Head(queue).status = link.status
        BY <3>2 DEF StatusItem, IsDisconnect
      <4>2. QED
        BY <1>3, <2>1, <3>2, <4>1 DEF HandsOver
    <3>3. QED
      BY <2>1, <3>1, <3>2
  <2>3. CASE shown = link.status /\ OnlyDisconnects(queue)
    BY <1>1, <1>3, <2>1, <2>3, OnlyDisconnectsTail DEF HandsOver
  <2>4. QED
    BY <1>2, <2>1, <2>2, <2>3
<1>4. CASE OtherStep /\ UNCHANGED <<shown, told>>
  <2>1. CASE FeedAccept \/ LinkEnds
    <3>1. link'.status = NoStatus
      <4>1. link' = NoLink \/ (counter + 1 \in Nat /\ link' = [NoLink EXCEPT !.session = counter + 1])
        BY <2>1 DEF FeedInv, LinkFits, FeedAccept, LinkEnds
      <4>2. QED
        BY <4>1, FeedValues
    <3>2. QED
      BY <3>1
  <2>2. CASE Verify \/ LinkCloses
    <3>1. /\ queue' = queue /\ link'.status = link.status /\ link'.session = link.session
          /\ link'.writerClosing = link.writerClosing
      <4>1. link' = [link EXCEPT !.verified = TRUE] \/ link' = [link EXCEPT !.writerClosing = TRUE]
        BY <2>2 DEF Verify, LinkCloses
      <4>2. [link EXCEPT !.writerClosing = TRUE].writerClosing
        BY <1>1 DEF Link
      <4>3. link' = [link EXCEPT !.verified = TRUE]
        BY <1>1, <4>1, <4>2
      <4>4. QED
        BY <1>1, <2>2, <4>3 DEF Link, Verify, LinkCloses
    <3>2. LinkConnected
      BY <1>1, <3>1 DEF FeedInv, LinkFits, LinkConnected, LinkUp
    <3>3. QED
      BY <1>4, <3>1, <3>2 DEF Arrives
  <2>3. CASE UNCHANGED feedVars
    BY <1>2, <1>4, <2>3 DEF feedVars
  <2>4. CASE \E r \in Reports, same \in BOOLEAN : FeedReport(r, same)
    <3>1. PICK r \in Reports, same \in BOOLEAN : FeedReport(r, same)
      BY <2>4
    <3> DEFINE s == NextStatus(r, same)
    <3>2. /\ StatusItem(s) \in Item /\ link'.status = s /\ ~Overflows
          /\ queue' = QueueAfter(StatusItem(s))
      BY <1>1, <3>1, ReportFits
    <3> HIDE DEF s
    <3>3. queue' = Append(queue, StatusItem(s))
      BY <3>2 DEF QueueAfter
    <3>4. QED
      BY <1>1, <3>2, <3>3, AppendEnds
  <2>5. CASE \E id \in leaving : WriterGone(id)
    <3>1. PICK id \in leaving : WriterGone(id)
      BY <2>5
    <3> DEFINE item == DisconnectItem(id)
    <3>2. /\ item \in Item /\ IsDisconnect(item) /\ queue' = QueueAfter(item) /\ link' = link
      BY <3>1, WriterFits DEF WriterGone
    <3> HIDE DEF item
    <3>3. CASE ~Overflows
      <4>1. queue' = Append(queue, item)
        BY <3>2, <3>3 DEF QueueAfter
      <4>2. QED
        BY <1>1, <1>2, <1>4, <3>2, <4>1, AppendEnds
    <3>4. CASE Overflows
      <4>1. ~Queued(L)
        BY <1>2, <3>1, <3>2, <3>4 DEF DropsLatest
      <4>2. ~EndsWith(queue, L)
        BY <4>1 DEF Queued, EndsWith
      <4>3. OnlyDisconnects(queue')
        BY <1>1, <3>2, <3>4, OverflowLeavesDisconnects
      <4>4. QED
        BY <1>2, <1>4, <3>2, <4>2, <4>3
    <3>5. QED
      BY <3>3, <3>4
  <2>6. QED
    BY <1>4, <2>1, <2>2, <2>3, <2>4, <2>5 DEF OtherStep
<1>5. QED
  BY <1>3, <1>4, WatchSteps

LEMMA ArrivesMeans ==
  ASSUME Arrives
  PROVE  LatestReportArrives
BY DEF Arrives, LatestReportArrives, EndsWith, Queued

(* The final word of a connection that stays up reaches the coordinator,   *)
(* however often the queue overflows, unless the disconnect of an older    *)
(* session overflows it while that word waits: this is the one way to lose *)
(* it (run feed_gap shows it happen).                                      *)
THEOREM OnlyOneWayToLoseIt ==
  WatchSpec /\ [][~DropsLatest]_watchVars => []LatestReportArrives
<1>1. WatchInit => FeedInv /\ Arrives
  BY FeedInitInv, FeedValues DEF WatchInit, FeedInit, Arrives
<1>2. ASSUME FeedInv, Arrives, [WatchNext]_watchVars, [~DropsLatest]_watchVars
      PROVE  FeedInv' /\ Arrives'
  <2>1. CASE UNCHANGED watchVars
    BY <1>2, <2>1 DEF watchVars, FeedInv, Arrives, LinkConnected, LinkUp
  <2>2. CASE ~DropsLatest
    BY <1>2, <2>2, WatchSteps, FeedNextInv, ArrivesNext
  <2>3. QED
    BY <1>2, <2>1, <2>2
<1>3. Arrives => LatestReportArrives
  BY ArrivesMeans
<1>4. QED
  BY <1>1, <1>2, <1>3, PTL DEF WatchSpec

(* So the first session loses nothing: no older one can end.               *)
THEOREM FirstSessionIsShown == WatchSpec => []FirstSessionKeepsUp
<1> DEFINE Inv == FeedInv /\ (counter <= 1 => Arrives)
<1>1. WatchInit => Inv
  BY FeedInitInv, FeedValues DEF WatchInit, FeedInit, Arrives
<1>2. ASSUME Inv, [WatchNext]_watchVars
      PROVE  Inv'
  <2>1. FeedInv'
    BY <1>2, WatchSteps, FeedNextInv
  <2>2. ASSUME counter' <= 1
        PROVE  Arrives'
    <3>1. counter \in Nat /\ counter <= counter'
      <4>1. counter \in Nat
        BY <1>2 DEF FeedInv, LinkFits
      <4>2. counter' = counter \/ counter' = counter + 1
        BY <1>2 DEF WatchNext, FeedNext, watchVars, FeedAccept, Verify, LinkCloses, LinkEnds,
                    FeedReport, Receive, WriterGone, Dispatch, DispatchFails, Take
      <4>3. QED
        BY <4>1, <4>2
    <3>2. counter <= 1
      <4>1. counter' \in Nat
        BY <2>1 DEF FeedInv, LinkFits
      <4>2. QED
        BY <2>2, <3>1, <4>1
    <3>3. ~DropsLatest
      <4>1. LinkConnected => link.session = 1 /\ leaving = {}
        <5>1. ASSUME LinkConnected
              PROVE  link.session = 1 /\ leaving \subseteq (1..1) \ {1}
          BY <1>2, <3>1, <3>2, <5>1 DEF FeedInv, LinkFits, LinkConnected, LinkUp
        <5>2. QED
          BY <5>1
      <4>2. QED
        BY <4>1 DEF DropsLatest
    <3>4. QED
      BY <1>2, <3>2, <3>3, ArrivesNext
  <2>3. QED
    BY <2>1, <2>2
<1>3. Inv => FirstSessionKeepsUp
  BY ArrivesMeans DEF FirstSessionKeepsUp
<1>4. QED
  BY <1>1, <1>2, <1>3, PTL DEF WatchSpec
=============================================================================
