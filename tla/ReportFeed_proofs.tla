--------------------------- MODULE ReportFeed_proofs ---------------------------
(* Proofs about ReportFeed: what an overflow keeps of the callback queue,  *)
(* and whose items the queue holds, for any size of the queue and any      *)
(* number of sessions and reports.                                         *)
EXTENDS ReportFeed, FiniteSetTheorems, TLAPS

AnyStatus == [session : Nat, sequence : Nat, report : Reports \cup {NoReport}]
Link == [session : Nat, verified : BOOLEAN, writerClosing : BOOLEAN, sequence : Nat,
         reports : Nat, status : AnyStatus]
Item == [kind : {"status", "disconnect"}, session : Nat, status : AnyStatus]

-----------------------------------------------------------------------------
(* What _discard_queued_statuses keeps.                                    *)

(* The disconnects are finitely many, and fewer are left from a later one. *)
LEMMA LeftFromFalls ==
  ASSUME queue \in Seq(Item)
  PROVE  /\ IsFiniteSet(Disconnects) /\ Cardinality(Disconnects) \in Nat
         /\ \A k \in Disconnects : LeftFrom(k) \in 1..Cardinality(Disconnects)
         /\ \A j, k \in Disconnects : j < k => LeftFrom(k) < LeftFrom(j)
<1> DEFINE From(m) == {x \in Disconnects : x >= m}
<1>1. Len(queue) \in Nat /\ Disconnects \in SUBSET (1..Len(queue)) /\ Disconnects \subseteq Int
  BY DEF Disconnects
<1>2. IsFiniteSet(Disconnects) /\ Cardinality(Disconnects) \in Nat
  <2>1. IsFiniteSet(1..Len(queue))
    BY <1>1, FS_Interval
  <2>2. IsFiniteSet(Disconnects)
    BY <1>1, <2>1, FS_Subset
  <2>3. QED
    BY <2>2, FS_CardinalityType
<1>3. ASSUME NEW k \in Disconnects
      PROVE  /\ IsFiniteSet(From(k)) /\ LeftFrom(k) = Cardinality(From(k))
             /\ LeftFrom(k) \in 1..Cardinality(Disconnects)
  <2>1. From(k) \in SUBSET Disconnects /\ k \in From(k)
    BY <1>1
  <2>2. IsFiniteSet(From(k)) /\ Cardinality(From(k)) <= Cardinality(Disconnects)
    BY <1>2, <2>1, FS_Subset
  <2>3. Cardinality(From(k)) \in Nat /\ Cardinality(From(k)) # 0
    BY <2>1, <2>2, FS_CardinalityType, FS_EmptySet
  <2>4. QED
    BY <1>2, <2>2, <2>3 DEF LeftFrom
<1>4. ASSUME NEW j \in Disconnects, NEW k \in Disconnects, j < k
      PROVE  LeftFrom(k) < LeftFrom(j)
  <2>0. j \in Int /\ k \in Int /\ \A x \in Disconnects : x \in Int
    BY <1>1
  <2>1. From(k) \in SUBSET From(j) /\ j \in From(j) /\ j \notin From(k)
    <3>1. /\ \A x \in Disconnects : x >= k => x >= j
          /\ j >= j /\ ~(j >= k)
      BY <1>4, <2>0
    <3>2. QED
      BY <3>1
  <2>2. Cardinality(From(k)) <= Cardinality(From(j)) /\ Cardinality(From(k)) # Cardinality(From(j))
    BY <1>3, <2>1, FS_Subset
  <2>3. /\ LeftFrom(k) = Cardinality(From(k)) /\ LeftFrom(j) = Cardinality(From(j))
        /\ LeftFrom(k) \in Int /\ LeftFrom(j) \in Int
    <3>1. \A x \in 1..Cardinality(Disconnects) : x \in Int
      OBVIOUS
    <3> HIDE DEF From
    <3>2. QED
      BY <1>3, <3>1
  <2> HIDE DEF From
  <2>4. QED
    BY <2>2, <2>3
<1>5. QED
  BY <1>2, <1>3, <1>4

(* So each number of disconnects left belongs to one of them.              *)
LEMMA LeftFromOnto ==
  ASSUME queue \in Seq(Item), NEW n \in 1..Cardinality(Disconnects)
  PROVE  \E k \in Disconnects : LeftFrom(k) = n
<1> DEFINE D == Disconnects
           c == Cardinality(D)
           f == [k \in D |-> LeftFrom(k)]
<1>1. /\ IsFiniteSet(D) /\ c \in Nat /\ D \subseteq Int
      /\ \A k \in D : LeftFrom(k) \in 1..c
      /\ \A j, k \in D : j < k => LeftFrom(k) < LeftFrom(j)
  BY LeftFromFalls DEF Disconnects
<1>2. f \in [D -> 1..c]
  BY <1>1
<1>3. \A j, k \in D : j # k => LeftFrom(j) # LeftFrom(k)
  BY <1>1
<1>4. f \in Injection(D, 1..c)
  BY <1>2, <1>3 DEF Injection, IsInjective
<1>5. IsFiniteSet(1..c) /\ Cardinality(1..c) = c
  BY <1>1, FS_Interval
<1>6. f \in Surjection(D, 1..c)
  BY <1>1, <1>4, <1>5, FS_Injection
<1>7. \E k \in D : f[k] = n
  BY <1>6 DEF Surjection
<1>8. QED
  BY <1>7

(* An overflow keeps disconnects alone, in their order, fewer than the     *)
(* queue has places; a disconnect it drops is older than all it keeps, and *)
(* is dropped only if a full queue of them would be left.  p names the     *)
(* place each kept one had.                                                *)
THEOREM RetainsNewest ==
  ASSUME queue \in Seq(Item)
  PROVE  \E n \in 0..Len(queue) : \E p \in [1..n -> Disconnects] :
           /\ Retained \in Seq(Item) /\ Len(Retained) = n /\ n < QueueSize
           /\ \A i \in 1..n : Retained[i] = queue[p[i]]
           /\ \A i, j \in 1..n : i < j => p[i] < p[j]
           /\ \A k \in Disconnects :
                (\E i \in 1..n : p[i] = k) \/ (n = QueueSize - 1 /\ \A i \in 1..n : k < p[i])
           /\ Cardinality(Disconnects) < QueueSize => \A k \in Disconnects : \E i \in 1..n : p[i] = k
<1> DEFINE all == Cardinality(Disconnects)
           n == IF all < QueueSize THEN all ELSE QueueSize - 1
           q(i) == CHOOSE k \in Disconnects : LeftFrom(k) = n - i + 1
           p == [i \in 1..n |-> q(i)]
<1>1. /\ IsFiniteSet(Disconnects) /\ all \in Nat /\ Len(queue) \in Nat
      /\ Disconnects \subseteq 1..Len(queue)
      /\ \A k \in Disconnects : LeftFrom(k) \in 1..all
      /\ \A j, k \in Disconnects : j < k => LeftFrom(k) < LeftFrom(j)
  BY LeftFromFalls DEF Disconnects
<1>2. n \in Nat /\ n <= all /\ n < QueueSize /\ (n # all => n = QueueSize - 1)
      /\ (all < QueueSize => n = all)
  BY <1>1, FeedConstants
<1>3. all <= Len(queue)
  <2>1. IsFiniteSet(1..Len(queue)) /\ Cardinality(1..Len(queue)) = Len(queue)
    <3>1. Len(queue) \in Int /\ Len(queue) >= 0 /\ 1 \in Int
      BY <1>1
    <3>2. Cardinality(1..Len(queue)) = IF 1 > Len(queue) THEN 0 ELSE Len(queue) - 1 + 1
      BY <3>1, FS_Interval
    <3>3. QED
      BY <3>1, <3>2, FS_Interval
  <2>2. Disconnects \in SUBSET (1..Len(queue))
    BY <1>1
  <2>3. Cardinality(Disconnects) <= Cardinality(1..Len(queue))
    BY <2>1, <2>2, FS_Subset
  <2>4. QED
    BY <2>1, <2>3
<1>4. ASSUME NEW i \in 1..n
      PROVE  q(i) \in Disconnects /\ LeftFrom(q(i)) = n - i + 1
  <2>1. n - i + 1 \in 1..all
    BY <1>1, <1>2
  <2>2. \E k \in Disconnects : LeftFrom(k) = n - i + 1
    BY <2>1, LeftFromOnto
  <2> HIDE DEF n
  <2>3. QED
    BY <2>2
<1>5. Retained = [i \in 1..n |-> queue[q(i)]]
  BY DEF Retained
<1> HIDE DEF q
<1>6. p \in [1..n -> Disconnects] /\ \A i \in 1..n : p[i] = q(i) /\ LeftFrom(p[i]) = n - i + 1
  BY <1>4
<1>7. Retained \in [1..n -> Item]
  <2>1. \A k \in Disconnects : queue[k] \in Item
    BY <1>1
  <2> HIDE DEF n
  <2>2. QED
    BY <1>4, <1>5, <2>1
<1> HIDE DEF n, p
<1>8. Retained \in Seq(Item) /\ Len(Retained) = n
  BY <1>2, <1>7
<1>9. \A i \in 1..n : Retained[i] = queue[p[i]]
  BY <1>5, <1>6
<1>10. \A i \in 1..n : /\ p[i] \in Disconnects /\ p[i] \in Int
                        /\ LeftFrom(p[i]) = n - i + 1 /\ LeftFrom(p[i]) \in Int
  <2>1. \A k \in Disconnects : k \in Int /\ LeftFrom(k) \in Int
    BY <1>1
  <2>2. QED
    BY <1>6, <2>1
<1>11. ASSUME NEW i \in 1..n, NEW j \in 1..n, i < j
       PROVE  p[i] < p[j]
  <2>1. LeftFrom(p[j]) < LeftFrom(p[i])
    BY <1>2, <1>10, <1>11
  <2>2. ~(p[j] < p[i]) /\ p[i] # p[j]
    BY <1>1, <1>10, <2>1
  <2>3. QED
    BY <1>10, <2>2
<1>12. ASSUME NEW k \in Disconnects
       PROVE  \/ \E i \in 1..n : p[i] = k
              \/ n < all /\ \A i \in 1..n : k < p[i]
  <2>1. LeftFrom(k) \in 1..all /\ k \in Int
    BY <1>1
  <2>2. CASE LeftFrom(k) <= n
    <3> DEFINE i == n - LeftFrom(k) + 1
    <3>1. i \in 1..n /\ n - i + 1 = LeftFrom(k)
      BY <1>2, <2>1, <2>2
    <3>2. LeftFrom(p[i]) = LeftFrom(k) /\ p[i] \in Disconnects /\ p[i] \in Int
      BY <1>10, <3>1
    <3>3. ~(p[i] < k) /\ ~(k < p[i])
      BY <1>1, <2>1, <3>2
    <3>4. p[i] = k
      BY <2>1, <3>2, <3>3
    <3>5. QED
      BY <3>1, <3>4
  <2>3. CASE n < LeftFrom(k)
    <3>1. ASSUME NEW i \in 1..n
          PROVE  k < p[i]
      <4>1. LeftFrom(p[i]) < LeftFrom(k) /\ p[i] \in Disconnects /\ p[i] \in Int
        BY <1>2, <1>10, <2>1, <2>3
      <4>2. ~(p[i] < k) /\ p[i] # k
        BY <1>1, <2>1, <4>1
      <4>3. QED
        BY <2>1, <4>1, <4>2
    <3>2. QED
      BY <1>1, <1>2, <2>1, <2>3, <3>1
  <2>4. QED
    BY <1>2, <2>1, <2>2, <2>3
<1>13. n \in 0..Len(queue)
  BY <1>1, <1>2, <1>3
<1>14. \A k \in Disconnects :
         (\E i \in 1..n : p[i] = k) \/ (n = QueueSize - 1 /\ \A i \in 1..n : k < p[i])
  BY <1>1, <1>2, <1>12
<1>15. all < QueueSize => \A k \in Disconnects : \E i \in 1..n : p[i] = k
  BY <1>1, <1>2, <1>12
<1>16. QED
  BY <1>2, <1>6, <1>8, <1>9, <1>11, <1>13, <1>14, <1>15

-----------------------------------------------------------------------------
(* Whose items the queue holds.                                            *)

Apart(q) ==
  \A j, k \in 1..Len(q) :
    j # k /\ IsDisconnect(q[j]) /\ IsDisconnect(q[k]) => q[j].session # q[k].session

Holds(q, item) == \E k \in 1..Len(q) : q[k] = item

(* What _enqueue_callback leaves: the items were there before or are new,  *)
(* the new one comes last, a full queue keeps no report, and no disconnect *)
(* gets lost as long as there are fewer than places.                       *)
LEMMA QueueAfterKeeps ==
  ASSUME queue \in Seq(Item), NEW item \in Item, Apart(queue),
         IsDisconnect(item) => \A k \in Disconnects : queue[k].session # item.session
  PROVE  LET q == QueueAfter(item) IN
         /\ q \in Seq(Item) /\ Apart(q)
         /\ \A i \in 1..Len(q) : q[i] = item \/ \E k \in 1..Len(queue) : q[i] = queue[k]
         /\ Len(queue) <= QueueSize => Len(q) <= QueueSize
         /\ ~Overflows => q = Append(queue, item)
         /\ (~Overflows \/ IsDisconnect(item)) => Holds(q, item)
         /\ Cardinality(Disconnects) < QueueSize => \A k \in Disconnects : Holds(q, queue[k])
<1> DEFINE q == QueueAfter(item)
<1>0. Len(queue) \in Nat /\ QueueSize \in Nat /\ Disconnects \subseteq 1..Len(queue)
  BY FeedConstants DEF Disconnects
<1>1. CASE ~Overflows
  <2>1. q = Append(queue, item)
    BY <1>1 DEF QueueAfter
  <2>2. /\ q \in Seq(Item) /\ Len(q) = Len(queue) + 1
        /\ q[Len(queue) + 1] = item /\ \A k \in 1..Len(queue) : q[k] = queue[k]
    BY <2>1
  <2> HIDE DEF q
  <2>3. \A i \in 1..Len(q) : i = Len(queue) + 1 \/ i \in 1..Len(queue)
    BY <1>0, <2>2
  <2>4. Apart(q)
    BY <2>2, <2>3 DEF Apart, Disconnects
  <2>5. Len(q) <= QueueSize /\ Len(queue) + 1 \in 1..Len(q)
    BY <1>0, <1>1, <2>2 DEF Overflows
  <2>6. \A i \in 1..Len(q) : q[i] = item \/ \E k \in 1..Len(queue) : q[i] = queue[k]
    BY <2>2, <2>3
  <2>7. \A k \in 1..Len(queue) : k \in 1..Len(q)
    BY <1>0, <2>2
  <2>8. \A k \in Disconnects : Holds(q, queue[k])
    BY <1>0, <2>2, <2>7 DEF Holds
  <2>9. Holds(q, item)
    BY <2>2, <2>5 DEF Holds
  <2>10. QED
    BY <1>1, <2>1, <2>2, <2>4, <2>5, <2>6, <2>8, <2>9 DEF q
<1>2. CASE Overflows
  <2>1. PICK n \in 0..Len(queue) : \E p \in [1..n -> Disconnects] :
           /\ Retained \in Seq(Item) /\ Len(Retained) = n /\ n < QueueSize
           /\ \A i \in 1..n : Retained[i] = queue[p[i]]
           /\ \A i, j \in 1..n : i < j => p[i] < p[j]
           /\ Cardinality(Disconnects) < QueueSize => \A k \in Disconnects : \E i \in 1..n : p[i] = k
    BY RetainsNewest
  <2>2. PICK p \in [1..n -> Disconnects] :
           /\ Retained \in Seq(Item) /\ Len(Retained) = n /\ n < QueueSize
           /\ \A i \in 1..n : Retained[i] = queue[p[i]]
           /\ \A i, j \in 1..n : i < j => p[i] < p[j]
           /\ Cardinality(Disconnects) < QueueSize => \A k \in Disconnects : \E i \in 1..n : p[i] = k
    BY <2>1
  <2>3. n \in Nat /\ \A i \in 1..n : p[i] \in Disconnects /\ p[i] \in 1..Len(queue) /\ p[i] \in Int
    <3>1. \A k \in Disconnects : k \in 1..Len(queue) /\ k \in Int
      BY <1>0
    <3>2. \A i \in 1..n : p[i] \in Disconnects
      OBVIOUS
    <3>3. n \in Nat
      BY <1>0
    <3>4. QED
      BY <3>1, <3>2, <3>3
  <2>4. \A i, j \in 1..n : i # j => p[i] # p[j]
    BY <2>2, <2>3
  <2>5. \A i, j \in 1..n : i # j => Retained[i].session # Retained[j].session
    <3>1. ASSUME NEW i \in 1..n, NEW j \in 1..n, i # j
          PROVE  queue[p[i]].session # queue[p[j]].session
      <4>1. p[i] \in Disconnects /\ p[j] \in Disconnects /\ p[i] # p[j]
        BY <2>3, <2>4, <3>1
      <4>2. QED
        BY <1>0, <4>1 DEF Apart, Disconnects
    <3>2. QED
      BY <2>2, <3>1
  <2>6. Apart(Retained)
    BY <2>2, <2>5 DEF Apart
  <2>7. \A i \in 1..n : \E k \in 1..Len(queue) : Retained[i] = queue[k]
    BY <2>2, <2>3
  <2>8. Cardinality(Disconnects) < QueueSize => \A k \in Disconnects : Holds(Retained, queue[k])
    BY <2>2 DEF Holds
  <2>9. CASE ~IsDisconnect(item)
    <3>1. q = Retained
      BY <1>2, <2>9 DEF QueueAfter
    <3> HIDE DEF q
    <3>2. Len(q) <= QueueSize
      BY <1>0, <2>2, <2>3, <3>1
    <3>3. QED
      BY <1>2, <2>2, <2>6, <2>7, <2>8, <2>9, <3>1, <3>2 DEF q
  <2>10. CASE IsDisconnect(item)
    <3>1. q = Append(Retained, item)
      BY <1>2, <2>10 DEF QueueAfter
    <3>2. /\ q \in Seq(Item) /\ Len(q) = n + 1
          /\ q[n + 1] = item /\ \A i \in 1..n : q[i] = Retained[i]
      BY <2>2, <3>1
    <3> HIDE DEF q
    <3>3. \A i \in 1..Len(q) : i = n + 1 \/ i \in 1..n
      BY <2>3, <3>2
    <3>4. \A i \in 1..n : q[i].session # item.session
      <4>1. \A k \in Disconnects : queue[k].session # item.session
        BY <2>10
      <4>2. \A i \in 1..n : p[i] \in Disconnects /\ q[i] = queue[p[i]]
        BY <2>2, <2>3, <3>2
      <4>3. QED
        BY <4>1, <4>2
    <3>5. Apart(q)
      BY <2>5, <3>2, <3>3, <3>4 DEF Apart
    <3>6. Len(q) <= QueueSize /\ n + 1 \in 1..Len(q) /\ \A i \in 1..n : i \in 1..Len(q)
      BY <1>0, <2>2, <2>3, <3>2
    <3>7. \A i \in 1..Len(q) : q[i] = item \/ \E k \in 1..Len(queue) : q[i] = queue[k]
      BY <2>7, <3>2, <3>3
    <3>8. Holds(q, item)
      BY <3>2, <3>6 DEF Holds
    <3>9. Cardinality(Disconnects) < QueueSize => \A k \in Disconnects : Holds(q, queue[k])
      BY <2>2, <2>8, <3>2, <3>6 DEF Holds
    <3>10. QED
      BY <1>2, <3>2, <3>5, <3>6, <3>7, <3>8, <3>9 DEF q
  <2>11. QED
    BY <2>9, <2>10
<1>3. QED
  BY <1>1, <1>2

OnlyDisconnects(q) == \A j \in 1..Len(q) : IsDisconnect(q[j])

(* An overflow leaves no report, whatever overflows.                       *)
LEMMA OverflowLeavesDisconnects ==
  ASSUME queue \in Seq(Item), NEW item \in Item, Overflows
  PROVE  OnlyDisconnects(QueueAfter(item))
<1>1. /\ IsDisconnect(item) => QueueAfter(item) = Append(Retained, item)
      /\ ~IsDisconnect(item) => QueueAfter(item) = Retained
  BY DEF QueueAfter
<1>2. \E n \in 0..Len(queue) : \E p \in [1..n -> Disconnects] :
        /\ Retained \in Seq(Item) /\ Len(Retained) = n
        /\ \A i \in 1..n : Retained[i] = queue[p[i]]
  BY RetainsNewest
<1>3. \A i \in 1..Len(Retained) : \E k \in Disconnects : Retained[i] = queue[k]
  BY <1>2
<1>4. Retained \in Seq(Item) /\ \A k \in Disconnects : IsDisconnect(queue[k])
  BY <1>2 DEF Disconnects
<1>5. OnlyDisconnects(Retained)
  BY <1>3, <1>4 DEF OnlyDisconnects
<1>6. CASE IsDisconnect(item)
  <2> DEFINE a == Append(Retained, item)
  <2>1. \A i \in 1..Len(a) : a[i] = item \/ (i \in 1..Len(Retained) /\ a[i] = Retained[i])
    BY <1>4
  <2> HIDE DEF a
  <2>2. OnlyDisconnects(a)
    BY <1>5, <1>6, <2>1 DEF OnlyDisconnects
  <2>3. QED
    BY <1>1, <1>6, <2>2 DEF a
<1>7. QED
  BY <1>1, <1>5, <1>6

(* An item fits the feed: a disconnect is of a session that is over and    *)
(* whose writer is gone, a report is of a session that was accepted, and   *)
(* no newer than the latest one if that session is still up.               *)
ItemFits(item, l, c, lv) ==
  /\ item.session \in 1..c
  /\ IsDisconnect(item) =>
       /\ item = DisconnectItem(item.session)
       /\ item.session # l.session /\ item.session \notin lv
  /\ ~IsDisconnect(item) =>
       /\ item = StatusItem(item.status)
       /\ item.session = l.session =>
            l.status # NoStatus /\ item.status.sequence <= l.sequence

Fits(q, l, c, lv) ==
  /\ q \in Seq(Item) /\ Apart(q) /\ Len(q) <= QueueSize
  /\ \A k \in 1..Len(q) : ItemFits(q[k], l, c, lv)

(* The latest report is of the session that is up, and of its last read;   *)
(* sessions end before the next one is accepted.                           *)
LinkFits(l, c, lv) ==
  /\ l \in Link /\ c \in Nat
  /\ l.session \in {0, c}
  /\ l.status # NoStatus => /\ l.session # 0 /\ l.verified
                            /\ l.status.session = l.session
                            /\ l.status.sequence = l.sequence
  /\ lv \subseteq (1..c) \ {l.session}

FeedInv == LinkFits(link, counter, leaving) /\ Fits(queue, link, counter, leaving)

LEMMA FeedValues ==
  /\ NoStatus \in AnyStatus /\ NoStatus.session = 0
  /\ NoLink \in Link /\ NoLink.session = 0 /\ NoLink.status = NoStatus
  /\ QueueSize \in Nat
  /\ \A c \in Nat : [NoLink EXCEPT !.session = c] \in Link
                    /\ [NoLink EXCEPT !.session = c].session = c
                    /\ [NoLink EXCEPT !.session = c].status = NoStatus
<1>1. NoStatus \in AnyStatus /\ NoStatus.session = 0
  BY DEF NoStatus, AnyStatus
<1>2. QED
  BY <1>1, FeedConstants DEF NoLink, Link

LEMMA EmptyFits ==
  ASSUME NEW l, NEW c, NEW lv
  PROVE  Fits(<<>>, l, c, lv)
BY FeedValues DEF Fits, Apart

LEMMA FeedInitInv == FeedInit => FeedInv
BY FeedValues, EmptyFits DEF FeedInit, FeedInv, LinkFits

(* Items that fit a state of the feed fit the next one.                    *)
StillFit(l, c, lv) ==
  \A item \in Item : ItemFits(item, link, counter, leaving) => ItemFits(item, l, c, lv)

LEMMA SameQueueFits ==
  ASSUME FeedInv, NEW l, NEW c, NEW lv, StillFit(l, c, lv)
  PROVE  Fits(queue, l, c, lv)
BY DEF FeedInv, Fits, StillFit

LEMMA TailFits ==
  ASSUME NEW q, q # <<>>, NEW l, NEW c, NEW lv, Fits(q, l, c, lv)
  PROVE  /\ Fits(Tail(q), l, c, lv) /\ Head(q) \in Item /\ ItemFits(Head(q), l, c, lv)
         /\ \A i \in 1..Len(q) : q[i] = Head(q) \/ Holds(Tail(q), q[i])
         /\ \A i \in 1..Len(Tail(q)) : Holds(q, Tail(q)[i])
<1> DEFINE t == Tail(q)
<1>1. q \in Seq(Item) /\ Len(q) \in Nat \ {0} /\ QueueSize \in Nat /\ Len(q) <= QueueSize
  BY FeedValues DEF Fits
<1>2. /\ t \in Seq(Item) /\ Len(t) = Len(q) - 1
      /\ \A i \in 1..Len(t) : i + 1 \in 1..Len(q) /\ t[i] = q[i + 1]
      /\ Head(q) = q[1] /\ 1 \in 1..Len(q)
  BY <1>1
<1> HIDE DEF t
<1>3. \A i \in 1..Len(q) : i = 1 \/ (i - 1 \in 1..Len(t) /\ t[i - 1] = q[i])
  BY <1>1, <1>2
<1>4. Apart(t)
  BY <1>2 DEF Fits, Apart
<1>5. \A i \in 1..Len(t) : ItemFits(t[i], l, c, lv)
  BY <1>2 DEF Fits
<1>6. Len(t) <= QueueSize
  BY <1>1, <1>2
<1>7. Fits(t, l, c, lv)
  BY <1>2, <1>4, <1>5, <1>6 DEF Fits
<1>8. Head(q) \in Item /\ ItemFits(Head(q), l, c, lv)
  BY <1>1, <1>2 DEF Fits
<1>9. /\ \A i \in 1..Len(q) : q[i] = Head(q) \/ Holds(t, q[i])
      /\ \A i \in 1..Len(t) : Holds(q, t[i])
  BY <1>2, <1>3 DEF Holds
<1>10. QED
  BY <1>7, <1>8, <1>9 DEF t

LEMMA NewItemFits ==
  ASSUME FeedInv, NEW item \in Item, NEW l, NEW c, NEW lv,
         IsDisconnect(item) => \A k \in Disconnects : queue[k].session # item.session,
         StillFit(l, c, lv), ItemFits(item, l, c, lv)
  PROVE  Fits(QueueAfter(item), l, c, lv)
<1> DEFINE q == QueueAfter(item)
<1>1. /\ q \in Seq(Item) /\ Apart(q) /\ Len(q) <= QueueSize
      /\ \A i \in 1..Len(q) : q[i] = item \/ \E k \in 1..Len(queue) : q[i] = queue[k]
  BY QueueAfterKeeps DEF FeedInv, Fits
<1>2. \A k \in 1..Len(queue) : ItemFits(queue[k], l, c, lv)
  BY SameQueueFits DEF Fits
<1> HIDE DEF q
<1>3. \A i \in 1..Len(q) : ItemFits(q[i], l, c, lv)
  BY <1>1, <1>2
<1>4. QED
  BY <1>1, <1>3 DEF Fits, q

LEMMA AcceptFits ==
  ASSUME FeedInv, FeedAccept
  PROVE  FeedInv'
<1>1. /\ counter \in Nat /\ counter + 1 \in Nat /\ link.session = 0
      /\ leaving \subseteq 1..counter
      /\ counter' = counter + 1 /\ link' = [NoLink EXCEPT !.session = counter + 1]
      /\ leaving' = leaving /\ queue' = queue
  BY DEF FeedInv, LinkFits, FeedAccept, LinkUp
<1>2. link' \in Link /\ link'.session = counter + 1 /\ link'.status = NoStatus
  BY <1>1, FeedValues
<1>3. leaving \subseteq (1..(counter + 1)) \ {counter + 1}
  BY <1>1
<1>4. LinkFits(link', counter', leaving')
  BY <1>1, <1>2, <1>3 DEF LinkFits
<1>5. StillFit(link', counter', leaving')
  <2>1. ASSUME NEW item \in Item, ItemFits(item, link, counter, leaving)
        PROVE  ItemFits(item, link', counter', leaving')
    <3>1. item.session \in 1..counter' /\ item.session # link'.session
      BY <1>1, <1>2, <2>1 DEF ItemFits
    <3>2. QED
      BY <1>1, <2>1, <3>1 DEF ItemFits
  <2>2. QED
    BY <2>1 DEF StillFit
<1>6. QED
  BY <1>1, <1>4, <1>5, SameQueueFits DEF FeedInv

(* The session is verified or begins to close.                             *)
LEMMA CloserFits ==
  ASSUME FeedInv, NEW l,
         \/ l = [link EXCEPT !.verified = TRUE]
         \/ l = [link EXCEPT !.writerClosing = TRUE]
         \/ l = link
  PROVE  /\ LinkFits(l, counter, leaving) /\ StillFit(l, counter, leaving)
         /\ l.session = link.session /\ l.status = link.status
<1>1. link \in Link
  BY DEF FeedInv, LinkFits
<1>2. /\ l \in Link /\ l.session = link.session /\ l.status = link.status
      /\ l.sequence = link.sequence /\ (link.verified => l.verified)
  BY <1>1 DEF Link
<1>3. LinkFits(l, counter, leaving)
  BY <1>2 DEF FeedInv, LinkFits
<1>4. StillFit(l, counter, leaving)
  BY <1>2 DEF StillFit, ItemFits
<1>5. QED
  BY <1>2, <1>3, <1>4

LEMMA EndsFits ==
  ASSUME FeedInv, LinkEnds
  PROVE  FeedInv'
<1>1. /\ counter \in Nat /\ link.session = counter /\ counter # 0
      /\ leaving \subseteq (1..counter) \ {link.session}
      /\ link' = NoLink /\ leaving' = leaving \cup {link.session}
      /\ UNCHANGED <<counter, queue>>
  BY DEF FeedInv, LinkFits, LinkEnds, LinkUp
<1>2. leaving' \subseteq (1..counter) \ {0}
  BY <1>1
<1>3. LinkFits(link', counter', leaving')
  BY <1>1, <1>2, FeedValues DEF LinkFits
<1>4. StillFit(link', counter', leaving')
  <2>1. ASSUME NEW item \in Item, ItemFits(item, link, counter, leaving)
        PROVE  ItemFits(item, link', counter', leaving')
    <3>1. item.session \in 1..counter /\ item.session # 0
      BY <1>1, <2>1 DEF ItemFits
    <3>2. QED
      BY <1>1, <2>1, <3>1, FeedValues DEF ItemFits
  <2>2. QED
    BY <2>1 DEF StillFit
<1>5. QED
  BY <1>1, <1>3, <1>4, SameQueueFits DEF FeedInv

(* The disconnect of a session whose writer is gone is the first of it.    *)
LEMMA WriterFits ==
  ASSUME FeedInv, NEW id \in leaving, WriterGone(id)
  PROVE  /\ FeedInv' /\ DisconnectItem(id) \in Item
         /\ IsDisconnect(DisconnectItem(id)) /\ id \in (1..counter) \ {link.session}
         /\ \A k \in Disconnects : queue[k].session # id
<1> DEFINE item == DisconnectItem(id)
<1>1. /\ counter \in Nat /\ id \in (1..counter) \ {link.session} /\ id \in Nat
      /\ leaving' = leaving \ {id} /\ queue' = QueueAfter(item)
      /\ UNCHANGED <<link, counter>>
  BY DEF FeedInv, LinkFits, WriterGone
<1>2. item \in Item /\ item.session = id /\ IsDisconnect(item)
  BY <1>1, FeedValues DEF DisconnectItem, Item, IsDisconnect
<1>3. \A k \in Disconnects : queue[k].session # id
  <2>1. \A k \in Disconnects : k \in 1..Len(queue) /\ IsDisconnect(queue[k])
    BY DEF Disconnects
  <2>2. QED
    BY <2>1 DEF FeedInv, Fits, ItemFits
<1>4. LinkFits(link', counter', leaving')
  BY <1>1 DEF FeedInv, LinkFits
<1>5. StillFit(link', counter', leaving')
  BY <1>1 DEF StillFit, ItemFits
<1>6. ItemFits(item, link', counter', leaving')
  BY <1>1, <1>2 DEF ItemFits
<1> HIDE DEF item
<1>7. Fits(QueueAfter(item), link', counter', leaving')
  BY <1>2, <1>3, <1>5, <1>6, NewItemFits
<1>8. QED
  BY <1>1, <1>2, <1>3, <1>4, <1>7 DEF FeedInv, item

LEMMA ReportFits ==
  ASSUME FeedInv, NEW r \in Reports, NEW same \in BOOLEAN, FeedReport(r, same)
  PROVE  LET s == NextStatus(r, same) IN
         /\ FeedInv' /\ StatusItem(s) \in Item /\ ~IsDisconnect(StatusItem(s))
         /\ StatusItem(s).status = s /\ s # NoStatus /\ s.session = link.session
         /\ s.sequence >= link.sequence /\ link.sequence \in Nat /\ s.sequence \in Nat
         /\ link'.session = link.session /\ link'.status = s /\ link'.sequence = s.sequence
         /\ Overflows => link'.writerClosing
         /\ queue' = QueueAfter(StatusItem(s)) /\ UNCHANGED <<counter, leaving>>
<1> DEFINE s == NextStatus(r, same)
           item == StatusItem(s)
<1>1. /\ link \in Link /\ link.session # 0 /\ counter \in Nat /\ link.session = counter
      /\ UNCHANGED <<counter, leaving>> /\ queue' = QueueAfter(item)
      /\ link' = [link EXCEPT !.verified = TRUE, !.sequence = s.sequence, !.reports = @ + 1,
                              !.status = s, !.writerClosing = @ \/ Overflows]
  BY DEF FeedInv, LinkFits, FeedReport, MayReport, LinkUp, Receive
<1>2. link.session \in Nat /\ link.sequence \in Nat /\ link.reports + 1 \in Nat
      /\ (link.writerClosing \/ Overflows) \in BOOLEAN
  BY <1>1 DEF Link
<1>3. /\ s \in AnyStatus /\ s.session = link.session /\ s.sequence \in Nat
      /\ s.sequence >= link.sequence /\ s # NoStatus
  BY <1>1, <1>2, FeedValues DEF NextStatus, AnyStatus
<1> HIDE DEF s
<1>4. /\ item \in Item /\ ~IsDisconnect(item) /\ item.status = s /\ item.session = s.session
  BY <1>2, <1>3 DEF StatusItem, Item, IsDisconnect
<1>5. /\ link' \in Link /\ link'.session = link.session /\ link'.status = s
      /\ link'.sequence = s.sequence /\ link'.verified /\ (Overflows => link'.writerClosing)
  BY <1>1, <1>2, <1>3 DEF Link
<1>6. LinkFits(link', counter', leaving')
  BY <1>1, <1>3, <1>5 DEF FeedInv, LinkFits
<1>7. StillFit(link', counter', leaving')
  <2>1. ASSUME NEW x \in Item, ItemFits(x, link, counter, leaving)
        PROVE  ItemFits(x, link', counter', leaving')
    <3>1. x.status.sequence \in Nat
      BY <2>1 DEF Item, AnyStatus
    <3>2. x.status.sequence <= link.sequence => x.status.sequence <= link'.sequence
      BY <1>2, <1>3, <1>5, <3>1
    <3>3. QED
      BY <1>1, <1>3, <1>5, <2>1, <3>2 DEF ItemFits
  <2>2. QED
    BY <2>1 DEF StillFit
<1>8. ItemFits(item, link', counter', leaving')
  <2>1. item.session \in 1..counter' /\ item.status.sequence <= link'.sequence
    BY <1>1, <1>2, <1>3, <1>4, <1>5
  <2>2. item = StatusItem(item.status)
    BY <1>4
  <2>3. QED
    BY <1>3, <1>4, <1>5, <2>1, <2>2 DEF ItemFits
<1> HIDE DEF item
<1>9. Fits(QueueAfter(item), link', counter', leaving')
  BY <1>4, <1>7, <1>8, NewItemFits
<1>10. QED
  BY <1>1, <1>2, <1>3, <1>4, <1>5, <1>6, <1>9 DEF FeedInv, s, item

LEMMA TakeFits ==
  ASSUME FeedInv, Dispatch \/ DispatchFails
  PROVE  /\ FeedInv' /\ queue # <<>> /\ queue' = Tail(queue) /\ UNCHANGED <<counter, leaving>>
         /\ link'.session = link.session /\ link'.status = link.status
         /\ link' = link \/ link' = [link EXCEPT !.writerClosing = TRUE]
<1>1. /\ queue # <<>> /\ queue' = Tail(queue) /\ UNCHANGED <<counter, leaving>>
      /\ link' = link \/ link' = [link EXCEPT !.writerClosing = TRUE]
  BY DEF Dispatch, DispatchFails, Take
<1>2. /\ LinkFits(link', counter, leaving) /\ StillFit(link', counter, leaving)
      /\ link'.session = link.session /\ link'.status = link.status
  BY <1>1, CloserFits
<1>3. Fits(queue, link', counter, leaving)
  BY <1>2, SameQueueFits
<1>4. Fits(Tail(queue), link', counter, leaving)
  BY <1>1, <1>3, TailFits
<1>5. QED
  BY <1>1, <1>2, <1>4 DEF FeedInv

LEMMA FeedNextInv ==
  ASSUME FeedInv, [FeedNext]_feedVars
  PROVE  FeedInv'
<1>1. CASE Verify \/ LinkCloses
  <2>1. /\ UNCHANGED <<counter, leaving, queue>>
        /\ \/ link' = [link EXCEPT !.verified = TRUE]
           \/ link' = [link EXCEPT !.writerClosing = TRUE]
    BY <1>1 DEF Verify, LinkCloses
  <2>2. LinkFits(link', counter, leaving) /\ StillFit(link', counter, leaving)
    BY <2>1, CloserFits
  <2>3. QED
    BY <2>1, <2>2, SameQueueFits DEF FeedInv
<1>2. CASE UNCHANGED feedVars
  BY <1>2 DEF FeedInv, feedVars
<1>3. CASE \E r \in Reports, same \in BOOLEAN : FeedReport(r, same)
  BY <1>3, ReportFits
<1>4. QED
  BY <1>1, <1>2, <1>3, AcceptFits, EndsFits, WriterFits, TakeFits DEF FeedNext

(* The queue never holds more than its size, none of its disconnects is of *)
(* a session that is up or whose writer is still being closed, no session  *)
(* has two, and no report is of a later read than the client's latest:     *)
(* what the handlers of the coordinator rely on when they sort out late    *)
(* callbacks.                                                              *)
THEOREM QueueFits == FeedSpec => []FeedInv
<1>1. FeedInit => FeedInv
  BY FeedInitInv
<1>2. FeedInv /\ [FeedNext]_feedVars => FeedInv'
  BY FeedNextInv
<1>3. QED
  BY <1>1, <1>2, PTL DEF FeedSpec
=============================================================================
