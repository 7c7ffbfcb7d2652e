------------------------ MODULE LocalCoordinator_proofs ------------------------
(* Proofs about LocalCoordinator: the pending requests, last_command and   *)
(* unload, the view and the latest report, and the rest of the appliance   *)
(* between a stop and a start, for any reports, requests, windows and      *)
(* number of calls and sessions.                                           *)
EXTENDS LocalCoordinator, ReportFeed_proofs

Flight == [stage : {"none", "called", "sent"}, request : [key : Keys, wanted : Values],
           session : Nat, sequence : Nat, reply : AnyStatus, elapsed : Nat]
Kept == [wanted : Values, left : Int]
Doubt == [wanted : Values, left : Int, replaced : BOOLEAN]
Last == [key : Keys, status : {"none", "awaiting_feedback", "device_reported",
                               "delivery_uncertain", "rejected", "not_observed"}]

TypeOK ==
  /\ link \in Link /\ counter \in Nat
  /\ flight \in Flight /\ waiting \in Seq(Request)
  /\ pending \in [Keys -> Kept] /\ doubt \in [Keys -> Doubt]
  /\ last \in Last
  /\ unload \in {"no", "draining", "done"}

(* A call in flight is the last command, and its request is kept with what *)
(* is left of its window, which is longer than the call may take; an older *)
(* one of its key that was in doubt is no longer the last.                 *)
FlightFits ==
  LET k == flight.request.key IN
  IF flight.stage = "none"
  THEN flight = NoFlight /\ last.status # "awaiting_feedback"
  ELSE /\ last.key = k /\ last.status = "awaiting_feedback"
       /\ pending[k].wanted = flight.request.wanted
       /\ pending[k].left = PendingTime - flight.elapsed
       /\ flight.elapsed <= CmdTimeout
       /\ doubt[k] # NoDoubt => doubt[k].replaced

LastFits ==
  last.status # "none" =>
    (IsKept(last.key) <=> last.status \in {"awaiting_feedback", "delivery_uncertain"})

(* What is in doubt and was not replaced is kept, for the same time.       *)
DoubtFits ==
  \A k \in Keys :
    /\ IsKept(k) => pending[k].left >= 0
    /\ (doubt[k] # NoDoubt /\ ~doubt[k].replaced) =>
         /\ pending[k].wanted = doubt[k].wanted /\ pending[k].left = doubt[k].left
         /\ doubt[k].left > 0

IInv == TypeOK /\ FlightFits /\ LastFits /\ DoubtFits

-----------------------------------------------------------------------------
(* The types.                                                              *)

LEMMA ConstantTypes ==
  /\ NoStatus \in AnyStatus /\ NoLink \in Link /\ NoFlight \in Flight
  /\ NoFlight.stage = "none" /\ NoFlight.elapsed = 0
  /\ Nothing \in Kept /\ Nothing.wanted = "unknown" /\ Nothing.left = -1
  /\ NoDoubt \in Doubt /\ NoDoubt.wanted = "unknown" /\ NoDoubt.left = -1
<1>1. NoStatus \in AnyStatus
  BY DEF NoStatus, AnyStatus
<1>2. NoLink \in Link
  BY <1>1 DEF NoLink, Link
<1>3. [key |-> "power", wanted |-> "unknown"] \in [key : Keys, wanted : Values]
  BY DEF Keys, Values
<1>4. QED
  BY <1>1, <1>2, <1>3 DEF NoFlight, Flight, Nothing, Kept, NoDoubt, Doubt, Keys, Values

(* The callbacks and the feed but for reports leave the commands alone.    *)
CommandsSame == UNCHANGED <<flight, waiting, pending, doubt, last, unload>>

LEMMA CommandsSameKeeps ==
  ASSUME IInv, CommandsSame, link' \in Link, counter' \in Nat
  PROVE  IInv'
BY DEF IInv, TypeOK, FlightFits, LastFits, DoubtFits, CommandsSame, IsKept

LEMMA FeedKeeps ==
  ASSUME IInv,
         \/ Accepted \/ Verified \/ Closes \/ Ends \/ \E id \in leaving : WriterLeaves(id)
         \/ OnStatus \/ OnDisconnect
  PROVE  IInv'
<1>1. CommandsSame
  BY DEF CommandsSame, Accepted, Verified, Closes, Ends, WriterLeaves, OnStatus, OnDisconnect,
         SameCoordinator, coordVars
<1>2. link \in Link /\ counter \in Nat
  BY DEF IInv, TypeOK
<1>3. CASE Accepted
  <2>1. counter + 1 \in Nat
    BY <1>2
  <2>2. [NoLink EXCEPT !.session = counter + 1] \in Link
    BY <2>1, ConstantTypes DEF Link
  <2>3. link' \in Link /\ counter' \in Nat
    BY <1>3, <2>1, <2>2 DEF Accepted, FeedAccept
  <2>4. QED
    BY <1>1, <2>3, CommandsSameKeeps
<1>4. CASE Verified \/ Closes
  <2>1. /\ [link EXCEPT !.verified = TRUE] \in Link
        /\ [link EXCEPT !.writerClosing = TRUE] \in Link
    BY <1>2 DEF Link
  <2>2. link' \in Link /\ counter' \in Nat
    BY <1>2, <1>4, <2>1 DEF Verified, Verify, Closes, LinkCloses
  <2>3. QED
    BY <1>1, <2>2, CommandsSameKeeps
<1>5. CASE Ends \/ (\E id \in leaving : WriterLeaves(id)) \/ OnStatus \/ OnDisconnect
  <2>1. link' \in Link /\ counter' \in Nat
    BY <1>2, <1>5, ConstantTypes
       DEF Ends, LinkEnds, WriterLeaves, WriterGone, OnStatus, OnDisconnect, Dispatch, Take
  <2>2. QED
    BY <1>1, <2>1, CommandsSameKeeps
<1>6. QED
  BY <1>3, <1>4, <1>5

(* A report may be kept as the answer to the command in flight.            *)
LEMMA ReportKeeps ==
  ASSUME IInv, NEW r \in Reports, NEW same \in BOOLEAN, Reported(r, same)
  PROVE  IInv' /\ UNCHANGED <<waiting, unload>> /\ (flight' = NoFlight <=> flight = NoFlight)
<1> DEFINE s == NextStatus(r, same)
<1>1. /\ link \in Link /\ flight \in Flight /\ counter \in Nat /\ FlightFits
      /\ UNCHANGED <<pending, last, waiting, unload, doubt, counter>>
  BY DEF IInv, TypeOK, Reported, FeedReport, Receive
<1>2. s \in AnyStatus /\ s.sequence \in Nat
  BY <1>1 DEF NextStatus, AnyStatus, Link
<1>3. link' = [link EXCEPT !.verified = TRUE, !.sequence = s.sequence, !.reports = @ + 1,
                           !.status = s, !.writerClosing = @ \/ Overflows]
  BY DEF Reported, FeedReport, Receive
<1>4. \/ flight' = [flight EXCEPT !.reply = s] /\ flight.stage = "sent"
      \/ flight' = flight
  BY DEF Reported, Answers
<1> HIDE DEF s
<1>5. link.reports + 1 \in Nat /\ (link.writerClosing \/ Overflows) \in BOOLEAN
  BY <1>1 DEF Link
<1>6. link' \in Link
  BY <1>1, <1>2, <1>3, <1>5 DEF Link
<1>7. /\ flight' \in Flight /\ flight'.stage = flight.stage
      /\ flight'.request = flight.request /\ flight'.elapsed = flight.elapsed
      /\ flight.stage = "none" => flight' = flight
  BY <1>1, <1>2, <1>4 DEF Flight
<1>8. TypeOK'
  BY <1>1, <1>6, <1>7 DEF IInv, TypeOK
<1>9. FlightFits'
  BY <1>1, <1>7 DEF FlightFits
<1>10. LastFits' /\ DoubtFits'
  BY <1>1 DEF IInv, LastFits, DoubtFits, IsKept
<1>11. flight' = NoFlight <=> flight = NoFlight
  BY <1>1, <1>7, ConstantTypes DEF FlightFits
<1>12. QED
  BY <1>1, <1>8, <1>9, <1>10, <1>11 DEF IInv

-----------------------------------------------------------------------------
(* The calls.                                                              *)

(* A call that comes or is refused changes the queue alone.                *)
LEMMA QueueKeeps ==
  ASSUME IInv, Refuse \/ \E r \in Requests : Call(r)
  PROVE  IInv'
<1>1. \A r \in Requests : r \in Request
  BY CoordinatorConstants
<1>2. waiting' \in Seq(Request)
  <2>1. waiting \in Seq(Request)
    BY DEF IInv, TypeOK
  <2>2. CASE Refuse
    <3>1. waiting' = Tail(waiting) /\ waiting # <<>>
      BY <2>2 DEF Refuse, HasLock
    <3>2. QED
      BY <2>1, <3>1
  <2>3. CASE \E r \in Requests : Call(r)
    <3>1. PICK r \in Requests : waiting' = Append(waiting, r)
      BY <2>3 DEF Call
    <3>2. QED
      BY <1>1, <2>1, <3>1
  <2>4. QED
    BY <2>2, <2>3
<1>3. UNCHANGED <<link, counter, flight, pending, doubt, last, unload>>
  BY DEF Refuse, Call, feedVars
<1>4. QED
  BY <1>2, <1>3 DEF IInv, TypeOK, FlightFits, LastFits, DoubtFits, IsKept

(* An issued request is the last command, kept for its whole window.       *)
LEMMA IssueKeeps ==
  ASSUME IInv, NEW r \in Requests, Issue(r)
  PROVE  IInv'
<1> DEFINE p == [wanted |-> r.wanted, left |-> PendingTime]
           d == [doubt[r.key] EXCEPT !.replaced = doubt[r.key] # NoDoubt]
           f == [NoFlight EXCEPT !.stage = "called", !.request = r, !.session = link.session]
<1>1. /\ r.key \in Keys /\ r.wanted \in Values /\ r \in [key : Keys, wanted : Values]
      /\ PendingTime \in Nat /\ CmdTimeout \in Nat
  BY CoordinatorConstants DEF Request
<1>2. /\ link \in Link /\ counter \in Nat /\ waiting \in Seq(Request) /\ unload \in {"no", "draining", "done"}
      /\ pending \in [Keys -> Kept] /\ doubt \in [Keys -> Doubt]
  BY DEF IInv, TypeOK
<1>3. p \in Kept /\ p.wanted = r.wanted /\ p.left = PendingTime
  BY <1>1 DEF Kept
<1>4. /\ d \in Doubt /\ d.wanted = doubt[r.key].wanted /\ d.left = doubt[r.key].left
      /\ d.replaced <=> doubt[r.key] # NoDoubt
  BY <1>1, <1>2 DEF Doubt
<1>5. /\ f \in Flight /\ f.stage = "called" /\ f.request = r /\ f.elapsed = 0
  BY <1>1, <1>2, ConstantTypes DEF Flight, Link
<1>6. d = NoDoubt \/ d.replaced
  <2>1. CASE doubt[r.key] = NoDoubt
    <3>1. /\ NoDoubt \in Doubt /\ NoDoubt.replaced = FALSE
          /\ d = [NoDoubt EXCEPT !.replaced = FALSE]
      BY <2>1, ConstantTypes DEF NoDoubt
    <3>2. [NoDoubt EXCEPT !.replaced = FALSE] = NoDoubt
      BY Zenon, <3>1 DEF NoDoubt
    <3>3. QED
      BY <3>1, <3>2
  <2>2. QED
    BY <1>4, <2>1
<1>7. /\ pending' = [pending EXCEPT ![r.key] = p] /\ doubt' = [doubt EXCEPT ![r.key] = d]
      /\ flight' = f /\ last' = [key |-> r.key, status |-> "awaiting_feedback"]
      /\ waiting' = Tail(waiting) /\ waiting # <<>>
      /\ UNCHANGED <<link, counter, unload>>
  BY <1>1, <1>2 DEF Issue, HasLock, feedVars
<1> HIDE DEF p, d, f
<1>8. TypeOK'
  <2>1. last' \in Last
    BY <1>1, <1>7 DEF Last
  <2>2. pending' \in [Keys -> Kept] /\ doubt' \in [Keys -> Doubt]
    BY <1>2, <1>3, <1>4, <1>7
  <2>3. waiting' \in Seq(Request)
    BY <1>2, <1>7
  <2>4. QED
    BY <1>2, <1>5, <1>7, <2>1, <2>2, <2>3 DEF TypeOK
<1>9. /\ pending'[r.key] = p /\ doubt'[r.key] = d
      /\ \A k \in Keys \ {r.key} : pending'[k] = pending[k] /\ doubt'[k] = doubt[k]
  BY <1>1, <1>2, <1>7
<1>10. FlightFits'
  BY <1>1, <1>3, <1>5, <1>6, <1>7, <1>9 DEF FlightFits
<1>11. LastFits'
  <2>1. p # Nothing
    BY <1>1, <1>3, ConstantTypes
  <2>2. QED
    BY <1>7, <1>9, <2>1 DEF LastFits, IsKept
<1>12. DoubtFits'
  BY <1>1, <1>3, <1>6, <1>9 DEF IInv, DoubtFits, IsKept
<1>13. QED
  BY <1>8, <1>10, <1>11, <1>12 DEF IInv

LEMMA SendKeeps ==
  ASSUME IInv, ClientSends
  PROVE  IInv' /\ UNCHANGED <<waiting, unload>> /\ flight # NoFlight /\ flight' # NoFlight
<1> DEFINE f == [flight EXCEPT !.stage = "sent", !.sequence = link.sequence]
<1>1. /\ link \in Link /\ flight \in Flight /\ flight.stage = "called"
      /\ flight' = f
      /\ UNCHANGED <<link, counter, pending, doubt, last, waiting, unload>>
  BY DEF IInv, TypeOK, ClientSends, feedVars
<1>2. /\ f \in Flight /\ f.stage = "sent" /\ f.request = flight.request
      /\ f.elapsed = flight.elapsed
  BY <1>1 DEF Flight, Link
<1> HIDE DEF f
<1>3. IInv'
  BY <1>1, <1>2 DEF IInv, TypeOK, FlightFits, LastFits, DoubtFits, IsKept
<1>4. QED
  BY <1>1, <1>2, <1>3, ConstantTypes

(* The three ends of a call.                                               *)
LEMMA EndKeeps ==
  ASSUME IInv, Rejected \/ Uncertain \/ Confirmed
  PROVE  IInv' /\ UNCHANGED <<waiting, unload>> /\ flight # NoFlight /\ flight' = NoFlight
<1> DEFINE k == flight.request.key
<1>1. /\ link \in Link /\ counter \in Nat /\ flight \in Flight /\ last \in Last
      /\ pending \in [Keys -> Kept] /\ doubt \in [Keys -> Doubt]
      /\ UNCHANGED <<link, counter, waiting, unload>>
  BY DEF IInv, TypeOK, Rejected, Uncertain, Confirmed, feedVars
<1>2. flight.stage # "none" /\ flight' = NoFlight /\ k \in Keys
  BY <1>1 DEF Rejected, Uncertain, IsUncertain, Confirmed, Flight
<1>3. /\ last.key = k /\ pending[k].left = PendingTime - flight.elapsed
      /\ flight.elapsed <= CmdTimeout
      /\ pending[k].wanted = flight.request.wanted
      /\ doubt[k] # NoDoubt => doubt[k].replaced
  BY <1>2 DEF IInv, FlightFits
<1>4. pending[k].left > 0 /\ pending[k] \in Kept
  BY <1>1, <1>2, <1>3, CoordinatorConstants DEF Flight
<1>5. pending[k] # Nothing
  BY <1>4, ConstantTypes
<1>6. PICK st \in {"rejected", "delivery_uncertain", "device_reported"} :
        last' = [last EXCEPT !.status = st]
        /\ (st = "delivery_uncertain" =>
              pending' = pending /\ doubt' = [doubt EXCEPT ![k] = InDoubt(pending[k])])
        /\ (st # "delivery_uncertain" =>
              /\ pending' = [pending EXCEPT ![k] = Nothing]
              /\ doubt' = doubt \/ doubt' = [doubt EXCEPT ![k] = NoDoubt])
  BY DEF Rejected, Uncertain, Confirmed, Feedback, Forget
<1>7. last' \in Last /\ last'.key = k /\ last'.status = st
  BY <1>1, <1>3, <1>6 DEF Last
<1>8. InDoubt(pending[k]) \in Doubt /\ InDoubt(pending[k]).wanted = pending[k].wanted
      /\ InDoubt(pending[k]).left = pending[k].left
  BY <1>4 DEF InDoubt, Doubt, Kept
<1> HIDE DEF k
<1>9. pending' \in [Keys -> Kept] /\ doubt' \in [Keys -> Doubt]
  BY <1>1, <1>2, <1>6, <1>8, ConstantTypes
<1>10. TypeOK'
  BY <1>1, <1>2, <1>7, <1>9, ConstantTypes DEF IInv, TypeOK
<1>11. FlightFits'
  BY <1>2, <1>7, ConstantTypes DEF FlightFits
<1>12. \A j \in Keys \ {k} : pending'[j] = pending[j] /\ doubt'[j] = doubt[j]
  BY <1>1, <1>2, <1>6
<1>13. CASE st = "delivery_uncertain"
  <2>1. pending' = pending /\ doubt'[k] = InDoubt(pending[k])
    BY <1>1, <1>2, <1>6, <1>13
  <2>2. LastFits'
    BY <1>5, <1>7, <1>13, <2>1 DEF LastFits, IsKept
  <2>3. DoubtFits'
    BY <1>4, <1>8, <1>12, <2>1 DEF IInv, DoubtFits, IsKept
  <2>4. QED
    BY <1>1, <1>2, <1>10, <1>11, <2>2, <2>3, ConstantTypes DEF IInv
<1>14. CASE st # "delivery_uncertain"
  <2>1. pending'[k] = Nothing /\ (doubt'[k] = doubt[k] \/ doubt'[k] = NoDoubt)
    BY <1>1, <1>2, <1>6, <1>14
  <2>2. LastFits'
    BY <1>7, <1>14, <2>1 DEF LastFits, IsKept
  <2>3. DoubtFits'
    BY <1>3, <1>12, <2>1 DEF IInv, DoubtFits, IsKept
  <2>4. QED
    BY <1>1, <1>2, <1>10, <1>11, <2>2, <2>3, ConstantTypes DEF IInv
<1>15. QED
  BY <1>13, <1>14

-----------------------------------------------------------------------------
(* The watchdog, the clock and unload.                                     *)

(* The window of a call in flight is not over, nor that of a doubt.        *)
LEMMA NotExpired ==
  ASSUME IInv
  PROVE  /\ flight.stage # "none" => ~Expired(flight.request.key) /\ flight.request.key \in Keys
                                     /\ pending[flight.request.key].left > 0
         /\ \A k \in Keys : (doubt[k] # NoDoubt /\ ~doubt[k].replaced) => ~Expired(k)
<1>1. flight.stage # "none" => /\ flight.request.key \in Keys
                               /\ pending[flight.request.key].left > 0
  <2>1. flight \in Flight
    BY DEF IInv, TypeOK
  <2>2. flight.request.key \in Keys /\ flight.elapsed \in Nat
    BY <2>1 DEF Flight
  <2>3. QED
    BY <2>2, CoordinatorConstants DEF IInv, FlightFits
<1>2. QED
  BY <1>1 DEF IInv, DoubtFits, Expired

LEMMA WatchdogKeeps ==
  ASSUME IInv, Watchdog
  PROVE  IInv'
<1>1. /\ pending \in [Keys -> Kept] /\ last \in Last
      /\ pending' = [k \in Keys |-> IF Expired(k) THEN Nothing ELSE pending[k]]
      /\ last' = IF Expired(last.key) THEN [last EXCEPT !.status = "not_observed"] ELSE last
      /\ UNCHANGED <<link, counter, waiting, flight, unload, doubt>>
  BY DEF IInv, TypeOK, Watchdog, feedVars
<1>2. pending' \in [Keys -> Kept]
  BY <1>1, ConstantTypes
<1>3. /\ last' \in Last /\ last'.key = last.key /\ last.key \in Keys
      /\ last'.status = IF Expired(last.key) THEN "not_observed" ELSE last.status
  BY <1>1 DEF Last
<1>4. \A k \in Keys : pending'[k] = IF Expired(k) THEN Nothing ELSE pending[k]
  BY <1>1
<1>5. TypeOK'
  BY <1>1, <1>2, <1>3 DEF IInv, TypeOK
<1>6. FlightFits'
  <2>1. CASE flight.stage = "none"
    BY <1>1, <1>3, <2>1 DEF IInv, FlightFits
  <2>2. CASE flight.stage # "none"
    <3>1. /\ pending'[flight.request.key] = pending[flight.request.key]
          /\ last' = last
      BY <1>1, <1>4, <2>2, NotExpired DEF IInv, FlightFits
    <3>2. QED
      BY <1>1, <2>2, <3>1 DEF IInv, FlightFits
  <2>3. QED
    BY <2>1, <2>2
<1>7. LastFits'
  <2>1. CASE Expired(last.key)
    BY <1>3, <1>4, <2>1 DEF LastFits, IsKept
  <2>2. CASE ~Expired(last.key)
    BY <1>3, <1>4, <2>2 DEF IInv, LastFits, IsKept
  <2>3. QED
    BY <2>1, <2>2
<1>8. DoubtFits'
  BY <1>1, <1>4, NotExpired DEF IInv, DoubtFits, IsKept
<1>9. QED
  BY <1>5, <1>6, <1>7, <1>8 DEF IInv

(* A tick takes as much from a kept request as from its doubt.             *)
LEMMA LessOfKept ==
  ASSUME NEW p \in Kept
  PROVE  /\ Less(p) \in Kept /\ Less(p).wanted = p.wanted
         /\ Less(p).left = IF p.left > 0 THEN p.left - 1 ELSE p.left
BY DEF Less, Kept

LEMMA LessOfDoubt ==
  ASSUME NEW d \in Doubt
  PROVE  /\ Less(d) \in Doubt /\ Less(d).wanted = d.wanted /\ Less(d).replaced = d.replaced
         /\ Less(d).left = IF d.left > 0 THEN d.left - 1 ELSE d.left
BY DEF Less, Doubt

LEMMA TickKeeps ==
  ASSUME IInv, Tick
  PROVE  IInv' /\ UNCHANGED <<waiting, unload>> /\ (flight' = NoFlight <=> flight = NoFlight)
<1>1. /\ pending \in [Keys -> Kept] /\ doubt \in [Keys -> Doubt] /\ flight \in Flight
      /\ pending' = [k \in Keys |-> Less(pending[k])]
      /\ doubt' = [k \in Keys |-> IF doubt[k].left > 1 THEN Less(doubt[k]) ELSE NoDoubt]
      /\ UNCHANGED <<link, counter, last, waiting, unload>>
  BY DEF IInv, TypeOK, Tick, feedVars
<1>2. pending' \in [Keys -> Kept] /\ doubt' \in [Keys -> Doubt]
  BY <1>1, LessOfKept, LessOfDoubt, ConstantTypes
<1>3. /\ flight' \in Flight /\ flight'.stage = flight.stage /\ flight'.request = flight.request
      /\ flight.stage = "none" => flight' = flight
      /\ flight.stage # "none" => flight'.elapsed = flight.elapsed + 1
  <2>1. flight' = IF flight.stage = "none" THEN flight
                  ELSE [flight EXCEPT !.elapsed = @ + 1]
    BY DEF Tick
  <2>2. flight.elapsed \in Nat /\ flight.elapsed + 1 \in Nat
    BY <1>1 DEF Flight
  <2>3. QED
    BY <1>1, <2>1, <2>2 DEF Flight
<1>4. TypeOK'
  BY <1>1, <1>2, <1>3 DEF IInv, TypeOK
<1>5. \A k \in Keys : /\ pending'[k] = Less(pending[k])
                      /\ pending[k] \in Kept /\ doubt[k] \in Doubt
                      /\ doubt'[k] = IF doubt[k].left > 1 THEN Less(doubt[k]) ELSE NoDoubt
  BY <1>1
<1>6. \A k \in Keys : IsKept(k) <=> IsKept(k)'
  <2>1. ASSUME NEW k \in Keys
        PROVE  IsKept(k) <=> IsKept(k)'
    <3>1. CASE pending[k] = Nothing
      <4>1. Less(Nothing) = Nothing
        BY ConstantTypes DEF Less
      <4>2. pending'[k] = Nothing
        BY <1>5, <3>1, <4>1
      <4>3. QED
        BY <3>1, <4>2 DEF IsKept
    <3>2. CASE pending[k] # Nothing
      <4>1. pending[k].left >= 0 /\ pending[k].left \in Int
        BY <1>5, <3>2 DEF IInv, DoubtFits, IsKept, Kept
      <4>2. pending'[k].left >= 0
        BY <1>5, <4>1, LessOfKept
      <4>3. QED
        BY <3>2, <4>2, ConstantTypes DEF IsKept
    <3>3. QED
      BY <3>1, <3>2
  <2>2. QED
    BY <2>1
<1>7. ASSUME NEW k \in Keys, doubt'[k] # NoDoubt
      PROVE  /\ doubt[k].left > 1 /\ doubt'[k] = Less(doubt[k]) /\ doubt[k] # NoDoubt
             /\ doubt'[k].wanted = doubt[k].wanted /\ doubt'[k].replaced = doubt[k].replaced
             /\ doubt'[k].left = doubt[k].left - 1 /\ doubt[k].left \in Int
  <2>1. doubt[k].left > 1 /\ doubt'[k] = Less(doubt[k])
    BY <1>5, <1>7
  <2>2. doubt[k].left \in Int
    BY <1>5 DEF Doubt
  <2>3. QED
    BY <1>5, <2>1, <2>2, LessOfDoubt, ConstantTypes
<1>8. FlightFits'
  <2>1. CASE flight.stage = "none"
    BY <1>1, <1>3, <2>1 DEF IInv, FlightFits
  <2>2. CASE flight.stage # "none"
    <3> DEFINE k == flight.request.key
    <3>1. k \in Keys /\ pending[k].left > 0 /\ flight.elapsed < CmdTimeout
      BY <2>2, NotExpired DEF Tick
    <3>2. /\ pending'[k].wanted = pending[k].wanted /\ pending'[k].left = pending[k].left - 1
      BY <1>5, <3>1, LessOfKept
    <3>3. doubt'[k] # NoDoubt => doubt'[k].replaced
      BY <1>7, <2>2, <3>1 DEF IInv, FlightFits
    <3>4. /\ last.key = k /\ last.status = "awaiting_feedback"
          /\ pending[k].wanted = flight.request.wanted
          /\ pending[k].left = PendingTime - flight.elapsed
      BY <2>2 DEF IInv, FlightFits
    <3>5. flight.elapsed \in Nat
      BY <1>1 DEF Flight
    <3>6. flight'.request.key = k
      BY <1>3
    <3> HIDE DEF k
    <3>7. /\ pending'[k].left = PendingTime - (flight.elapsed + 1)
          /\ flight.elapsed + 1 <= CmdTimeout
      BY <3>1, <3>2, <3>4, <3>5, CoordinatorConstants
    <3>8. QED
      BY <1>1, <1>3, <2>2, <3>2, <3>3, <3>4, <3>6, <3>7 DEF FlightFits
  <2>3. QED
    BY <2>1, <2>2
<1>9. LastFits'
  <2>1. last.key \in Keys
    BY DEF IInv, TypeOK, Last
  <2>2. QED
    BY <1>1, <1>6, <2>1 DEF IInv, LastFits
<1>10. DoubtFits'
  <2>1. ASSUME NEW k \in Keys, IsKept(k)'
        PROVE  pending'[k].left >= 0
    <3>1. pending[k].left >= 0 /\ pending[k].left \in Int
      BY <1>5, <1>6, <2>1 DEF IInv, DoubtFits, Kept
    <3>2. QED
      BY <1>5, <3>1, LessOfKept
  <2>2. ASSUME NEW k \in Keys, doubt'[k] # NoDoubt, ~doubt'[k].replaced
        PROVE  /\ pending'[k].wanted = doubt'[k].wanted /\ pending'[k].left = doubt'[k].left
               /\ doubt'[k].left > 0
    <3>1. pending[k].wanted = doubt[k].wanted /\ pending[k].left = doubt[k].left
      BY <1>7, <2>2 DEF IInv, DoubtFits
    <3>2. QED
      BY <1>5, <1>7, <2>2, <3>1, LessOfKept
  <2>3. QED
    BY <2>1, <2>2 DEF DoubtFits
<1>11. flight' = NoFlight <=> flight = NoFlight
  BY <1>3, ConstantTypes DEF IInv, FlightFits
<1>12. QED
  BY <1>1, <1>4, <1>8, <1>9, <1>10, <1>11 DEF IInv

LEMMA UnloadKeeps ==
  ASSUME IInv, UnloadRequested \/ UnloadFinishes
  PROVE  IInv'
<1>1. /\ UNCHANGED <<counter, flight, waiting, pending, doubt, last>>
      /\ link' \in Link /\ unload' \in {"no", "draining", "done"}
  BY ConstantTypes DEF IInv, TypeOK, UnloadRequested, UnloadFinishes, feedVars
<1>2. QED
  BY <1>1 DEF IInv, TypeOK, FlightFits, LastFits, DoubtFits, IsKept

-----------------------------------------------------------------------------
(* The inductive invariant.                                                *)

LEMMA InitInv ==
  ASSUME Init
  PROVE  IInv
<1>1. TypeOK
  <2>1. last \in Last
    BY DEF Init, Last, Keys
  <2>2. QED
    BY <2>1, ConstantTypes DEF Init, FeedInit, TypeOK
<1>2. FlightFits /\ LastFits /\ DoubtFits
  BY ConstantTypes DEF Init, FlightFits, LastFits, DoubtFits, IsKept
<1>3. QED
  BY <1>1, <1>2 DEF IInv

LEMMA NextInv ==
  ASSUME IInv, [Next]_vars
  PROVE  IInv'
<1>1. CASE FeedStep \/ CallbackStep
  BY <1>1, FeedKeeps, ReportKeeps DEF FeedStep, CallbackStep
<1>2. CASE CommandStep \/ \E r \in Requests : Call(r)
  BY <1>2, QueueKeeps, IssueKeeps, SendKeeps, EndKeeps DEF CommandStep
<1>3. CASE Watchdog \/ Tick \/ UnloadRequested \/ UnloadFinishes
  BY <1>3, WatchdogKeeps, TickKeeps, UnloadKeeps
<1>4. CASE UNCHANGED vars
  <2>1. CommandsSame /\ link' \in Link /\ counter' \in Nat
    BY <1>4 DEF IInv, TypeOK, CommandsSame, vars, feedVars, coordVars
  <2>2. QED
    BY <2>1, CommandsSameKeeps
<1>5. QED
  BY <1>1, <1>2, <1>3, <1>4 DEF Next

(* What the commands rest on holds from the start and is kept by every     *)
(* callback, call, tick and unload.                                        *)
THEOREM Invariance == Spec => []IInv
<1>1. Init => IInv
  BY InitInv
<1>2. IInv /\ [Next]_vars => IInv'
  BY NextInv
<1>3. QED
  BY <1>1, <1>2, PTL DEF Spec

(* Last command and the request kept for its key tell the same story: the  *)
(* window of a call in flight is never over, as it is longer than the call *)
(* may take, so the watchdog cannot drop what the call still waits for.    *)
THEOREM FeedbackFits == Spec => []FeedbackMatchesPending
<1>1. ASSUME IInv
      PROVE  FeedbackMatchesPending
  <2>1. flight = NoFlight <=> flight.stage = "none"
    BY <1>1, ConstantTypes DEF IInv, FlightFits
  <2>2. QED
    BY <1>1, <2>1 DEF IInv, FlightFits, LastFits, FeedbackMatchesPending
<1>2. QED
  BY <1>1, Invariance, PTL

(* No other step issues a request.                                         *)
LEMMA OnlyIssues ==
  ASSUME IInv, [Next]_vars, NEW r \in Requests, IsIssued(r)
  PROVE  Issue(r)
<1>1. flight = NoFlight /\ flight'.stage = "called" /\ flight'.request = r
  BY DEF IsIssued
<1>2. flight'.stage # "none" /\ flight' # NoFlight
  BY <1>1, ConstantTypes
<1>3. CASE FeedStep \/ CallbackStep
  <2>1. CASE \E q \in Reports, same \in BOOLEAN : Reported(q, same)
    BY <1>1, <1>2, <2>1, ReportKeeps
  <2>2. CASE ~\E q \in Reports, same \in BOOLEAN : Reported(q, same)
    BY <1>1, <1>2, <1>3, <2>2
       DEF FeedStep, CallbackStep, Accepted, Verified, Closes, Ends, WriterLeaves, OnStatus,
           OnDisconnect, SameCoordinator, coordVars
  <2>3. QED
    BY <2>1, <2>2
<1>4. CASE CommandStep
  <2>1. CASE \E q \in Requests : Issue(q)
    <3>1. PICK q \in Requests : Issue(q)
      BY <2>1
    <3>2. q \in [key : Keys, wanted : Values]
      BY CoordinatorConstants DEF Request
    <3>3. flight'.request = q
      BY <3>1, <3>2, ConstantTypes DEF Issue, Flight
    <3>4. QED
      BY <1>1, <3>1, <3>3
  <2>2. CASE Refuse
    BY <1>1, <1>2, <2>2 DEF Refuse
  <2>3. QED
    BY <1>1, <1>2, <1>4, <2>1, <2>2, SendKeeps, EndKeeps DEF CommandStep
<1>5. CASE Tick
  BY <1>1, <1>2, <1>5, TickKeeps
<1>6. CASE (\E q \in Requests : Call(q)) \/ Watchdog \/ UnloadRequested \/ UnloadFinishes
  BY <1>1, <1>2, <1>6 DEF Call, Watchdog, UnloadRequested, UnloadFinishes
<1>7. CASE UNCHANGED vars
  BY <1>1, <1>2, <1>7 DEF vars, coordVars
<1>8. QED
  BY <1>3, <1>4, <1>5, <1>6, <1>7 DEF Next

(* An uncertain request is not issued again before its window ends.        *)
THEOREM NoRepeat == Spec => NoRepeatInDoubt
<1>1. ASSUME IInv, [Next]_vars, NEW r \in Requests, IsIssued(r), ~doubt[r.key].replaced
      PROVE  doubt[r.key].wanted # r.wanted
  <2>1. Issue(r)
    BY <1>1, OnlyIssues
  <2>2. r.key \in Keys /\ r.wanted # "unknown"
    BY CoordinatorConstants DEF Request
  <2>3. CASE doubt[r.key] = NoDoubt
    BY <2>2, <2>3, ConstantTypes
  <2>4. CASE doubt[r.key] # NoDoubt
    <3>1. /\ pending[r.key].wanted = doubt[r.key].wanted /\ pending[r.key].left > 0
      BY <1>1, <2>2, <2>4 DEF IInv, DoubtFits
    <3>2. pending[r.key] # Nothing
      BY <3>1, ConstantTypes
    <3>3. ~Duplicate(r)
      BY <2>1 DEF Issue, Allowed
    <3>4. QED
      BY <3>1, <3>2, <3>3 DEF Duplicate, IsPending, IsKept
  <2>5. QED
    BY <2>3, <2>4
<1>2. IInv /\ [Next]_vars =>
        [\A r \in Requests :
           IsIssued(r) /\ ~doubt[r.key].replaced => doubt[r.key].wanted # r.wanted]_vars
  BY <1>1
<1>3. QED
  BY <1>2, Invariance, PTL DEF Spec, NoRepeatInDoubt

-----------------------------------------------------------------------------
(* Unload.                                                                 *)

UnloadSame == UNCHANGED <<waiting, unload>> /\ (flight' = NoFlight <=> flight = NoFlight)

LEMMA SameStutters ==
  ASSUME UnloadSame
  PROVE  UNCHANGED Unload!unloadVars
<1>1. (flight # NoFlight)' = (flight # NoFlight)
  BY DEF UnloadSame
<1>2. QED
  BY <1>1 DEF UnloadSame, Unload!unloadVars

LEMMA UnloadSteps ==
  ASSUME IInv, [Next]_vars
  PROVE  [Unload!Next]_Unload!unloadVars
<1> USE DEF Unload!Next
<1>1. waiting \in Seq(Request) /\ flight \in Flight /\ unload \in {"no", "draining", "done"}
  BY DEF IInv, TypeOK
<1>2. CASE FeedStep \/ CallbackStep
  <2>1. UnloadSame
    <3>1. CASE \E r \in Reports, same \in BOOLEAN : Reported(r, same)
      BY <3>1, ReportKeeps DEF UnloadSame
    <3>2. CASE ~\E r \in Reports, same \in BOOLEAN : Reported(r, same)
      BY <1>2, <3>2
         DEF FeedStep, CallbackStep, Accepted, Verified, Closes, Ends, WriterLeaves, OnStatus,
             OnDisconnect, SameCoordinator, coordVars, UnloadSame
    <3>3. QED
      BY <3>1, <3>2
  <2>2. QED
    BY <2>1, SameStutters
<1>3. CASE ClientSends \/ Watchdog \/ Tick \/ UNCHANGED vars
  <2>1. UnloadSame
    BY <1>3, SendKeeps, TickKeeps DEF UnloadSame, Watchdog, vars, coordVars
  <2>2. QED
    BY <2>1, SameStutters
<1>4. CASE \E r \in Requests : Call(r)
  <2>1. PICK r \in Requests : Call(r)
    BY <1>4
  <2>2. Len(waiting') = Len(waiting) + 1 /\ unload = "no" /\ UNCHANGED <<unload, flight>>
    BY <1>1, <2>1 DEF Call
  <2>3. Unload!Enqueue
    BY <2>2 DEF Unload!Enqueue
  <2>4. QED
    BY <2>3
<1>5. CASE Refuse
  <2>1. /\ Len(waiting') = Len(waiting) - 1 /\ Len(waiting) > 0 /\ flight = NoFlight
        /\ UNCHANGED <<unload, flight>>
    BY <1>1, <1>5 DEF Refuse, HasLock
  <2>2. Unload!Decline
    BY <2>1 DEF Unload!Decline
  <2>3. QED
    BY <2>2
<1>6. CASE \E r \in Requests : Issue(r)
  <2>1. PICK r \in Requests : Issue(r)
    BY <1>6
  <2>2. /\ Len(waiting') = Len(waiting) - 1 /\ Len(waiting) > 0 /\ flight = NoFlight
        /\ unload = "no" /\ UNCHANGED unload
    BY <1>1, <2>1 DEF Issue, HasLock, Allowed
  <2>3. flight' # NoFlight
    <3>1. flight'.stage = "called"
      BY <2>1, ConstantTypes DEF Issue, Flight
    <3>2. QED
      BY <3>1, ConstantTypes
  <2>4. Unload!Issue
    BY <2>2, <2>3 DEF Unload!Issue
  <2>5. QED
    BY <2>4
<1>7. CASE Rejected \/ Uncertain \/ Confirmed
  <2>1. UNCHANGED <<waiting, unload>> /\ flight # NoFlight /\ flight' = NoFlight
    BY <1>7, EndKeeps
  <2>2. Unload!End
    BY <2>1 DEF Unload!End
  <2>3. QED
    BY <2>2
<1>8. CASE UnloadRequested
  <2>1. unload = "no" /\ unload' = "draining" /\ UNCHANGED <<waiting, flight>>
    BY <1>8 DEF UnloadRequested
  <2>2. Unload!Close
    BY <2>1 DEF Unload!Close
  <2>3. QED
    BY <2>2
<1>9. CASE UnloadFinishes
  <2>1. /\ unload = "draining" /\ unload' = "done" /\ UNCHANGED <<waiting, flight>>
        /\ flight = NoFlight /\ Len(waiting) = 0
    BY <1>9 DEF UnloadFinishes
  <2>2. Unload!Drained
    BY <2>1 DEF Unload!Drained
  <2>3. QED
    BY <2>2
<1>10. QED
  BY <1>2, <1>3, <1>4, <1>5, <1>6, <1>7, <1>8, <1>9 DEF Next, CommandStep

(* async_prepare_unload keeps the part of its contract that is about what  *)
(* must not happen: nothing is issued once it began, and it returns with   *)
(* nothing queued or in flight (_finish_unload).                           *)
THEOREM CoordinatorUnloadsSafely == Spec => UnloadIsSafe
<1>1. Init => Unload!Init
  BY DEF Init, Unload!Init
<1>2. IInv /\ [Next]_vars => [Unload!Next]_Unload!unloadVars
  BY UnloadSteps
<1>3. QED
  BY <1>1, <1>2, Invariance, PTL DEF Spec, UnloadIsSafe, Unload!Safe
-----------------------------------------------------------------------------
(* The view.                                                               *)

Shows(v, s, age) ==
  /\ v.session = s.session /\ v.sequence = s.sequence
  /\ v.data = [k \in Keys |-> s.report[k]]
  /\ v.age = age

(* The view is of a session that was accepted and of no read that the      *)
(* client has not made.                                                    *)
ViewFits(v, l, c) ==
  /\ v = [session |-> v.session, sequence |-> v.sequence, age |-> v.age,
          previous |-> v.previous, data |-> v.data, available |-> v.available]
  /\ v.session \in 0..c /\ v.sequence \in Nat
  /\ l.session # 0 /\ v.session = l.session => v.sequence <= l.sequence

ViewInv == FeedInv /\ statusAge \in Nat /\ ViewFits(view, link, counter)

Forward(v) ==
  v.session > view.session \/ (v.session = view.session /\ v.sequence >= view.sequence)

HasLatest == unload = "no" /\ LinkConnected /\ link.status # NoStatus

(* The latest report of a connected client waits to be handled or is shown.*)
LatestKept == HasLatest => Queued(StatusItem(link.status)) \/ Shows(view, link.status, statusAge)

(* Whatever report _on_status is given, the view stays sound, moves        *)
(* forward, and goes on showing the latest report once it does; given the  *)
(* latest report it shows that.                                            *)
LEMMA ViewAfterFits ==
  ASSUME ViewInv, NEW s \in AnyStatus,
         link.session # 0 /\ s.session = link.session => s.sequence <= link.sequence
  PROVE  /\ ViewFits(ViewAfter(s), link, counter) /\ Forward(ViewAfter(s))
         /\ HasLatest /\ (s = link.status \/ Shows(view, link.status, statusAge))
              => Shows(ViewAfter(s), link.status, statusAge)
<1> DEFINE v == ViewAfter(s)
<1>1. /\ view.session \in Nat /\ view.sequence \in Nat /\ s.session \in Nat /\ s.sequence \in Nat
      /\ counter \in Nat /\ link.session \in {0, counter} /\ link.sequence \in Nat
      /\ link.status # NoStatus => /\ link.session # 0 /\ link.status.session = link.session
                                   /\ link.status.sequence = link.sequence
  BY DEF ViewInv, ViewFits, FeedInv, LinkFits, AnyStatus, Link
<1>2. CASE ~Admits(s) \/ IsOld(s)
  <2>1. v = view
    BY <1>2 DEF ViewAfter
  <2>2. HasLatest /\ s = link.status => Shows(view, link.status, statusAge)
    <3>1. ASSUME HasLatest, s = link.status
          PROVE  FALSE
      <4>1. view.session <= s.session
        BY <1>1, <3>1 DEF HasLatest, ViewInv, ViewFits
      <4>2. Admits(s)
        BY <3>1, <4>1 DEF HasLatest, Admits
      <4>3. s.sequence = link.sequence /\ s.session = link.session /\ link.session # 0
        BY <1>1, <3>1 DEF HasLatest
      <4>4. ~IsOld(s)
        BY <1>1, <4>3 DEF IsOld, IsNewSession, ViewInv, ViewFits
      <4>5. QED
        BY <1>2, <4>2, <4>4
    <3>2. QED
      BY <3>1
  <2>3. QED
    BY <1>1, <2>1, <2>2 DEF ViewInv, Forward
<1>3. CASE Admits(s) /\ ~IsOld(s)
  <2>1. v = [session |-> s.session, sequence |-> s.sequence, age |-> statusAge,
             previous |-> Power(s), data |-> [k \in Keys |-> s.report[k]],
             available |-> statusAge <= MaxAge]
    BY <1>3 DEF ViewAfter
  <2>2. /\ LinkConnected /\ link.status # NoStatus /\ s.session = link.session
        /\ view.session <= s.session
        /\ link.status.sequence = s.sequence => link.status = s
    BY <1>1, <1>3 DEF Admits
  <2>3. /\ v.session = s.session /\ v.sequence = s.sequence /\ v.age = statusAge
        /\ v.data = [k \in Keys |-> s.report[k]]
        /\ v = [session |-> v.session, sequence |-> v.sequence, age |-> v.age,
                previous |-> v.previous, data |-> v.data, available |-> v.available]
    BY <2>1
  <2> HIDE DEF v
  <2>4. ViewFits(v, link, counter)
    BY <1>1, <2>2, <2>3 DEF ViewFits
  <2>5. Forward(v)
    BY <1>1, <1>3, <2>2, <2>3 DEF Forward, IsOld, IsNewSession
  <2>6. Shows(view, link.status, statusAge) => s = link.status
    BY <1>1, <1>3, <2>2 DEF Shows, IsOld, IsNewSession
  <2>7. QED
    BY <2>3, <2>4, <2>5, <2>6 DEF Shows, v
<1>4. QED
  BY <1>2, <1>3

(* Of the view only its age and what is derived from it change.            *)
LEMMA ViewPatched ==
  ASSUME ViewInv, NEW x, NEW y, NEW z
  PROVE  LET v == [view EXCEPT !.age = x, !.previous = y, !.available = z] IN
         /\ ViewFits(v, link, counter) /\ Forward(v)
         /\ v.session = view.session /\ v.sequence = view.sequence /\ v.data = view.data
         /\ v.age = x
<1> DEFINE v == [view EXCEPT !.age = x, !.previous = y, !.available = z]
<1>1. PICK id, read, age, previous, data, available :
        view = [session |-> id, sequence |-> read, age |-> age,
                previous |-> previous, data |-> data, available |-> available]
  BY DEF ViewInv, ViewFits
<1>2. v = [session |-> id, sequence |-> read, age |-> x,
           previous |-> y, data |-> data, available |-> z]
  <2> DEFINE v1 == [view EXCEPT !.age = x]
             v2 == [v1 EXCEPT !.previous = y]
             v3 == [v2 EXCEPT !.available = z]
  <2>1. v1 = [session |-> id, sequence |-> read, age |-> x,
              previous |-> previous, data |-> data, available |-> available]
    BY <1>1
  <2> HIDE DEF v1
  <2>2. v2 = [session |-> id, sequence |-> read, age |-> x,
              previous |-> y, data |-> data, available |-> available]
    BY <2>1
  <2> HIDE DEF v2
  <2>3. v3 = [session |-> id, sequence |-> read, age |-> x,
              previous |-> y, data |-> data, available |-> z]
    BY <2>2
  <2>4. v = v3
    BY DEF v1, v2, v3
  <2>5. QED
    BY <2>3, <2>4
<1>3. /\ v.session = view.session /\ v.sequence = view.sequence /\ v.data = view.data
      /\ v.age = x
      /\ v = [session |-> v.session, sequence |-> v.sequence, age |-> v.age,
              previous |-> v.previous, data |-> v.data, available |-> v.available]
  BY <1>1, <1>2
<1> HIDE DEF v
<1>4. view.session \in Nat /\ view.sequence \in Nat
  BY DEF ViewInv, ViewFits, FeedInv, LinkFits
<1>5. QED
  BY <1>3, <1>4 DEF ViewInv, ViewFits, Forward, v

(* The watchdog, the clock and unload set one of these alone.              *)
LEMMA ViewTouched ==
  ASSUME ViewInv, NEW x, NEW v, v = [view EXCEPT !.age = x] \/ v = [view EXCEPT !.available = x]
  PROVE  /\ ViewFits(v, link, counter) /\ Forward(v)
         /\ v.session = view.session /\ v.sequence = view.sequence /\ v.data = view.data
         /\ v.previous = view.previous
         /\ v = [view EXCEPT !.age = x] => v.age = x
         /\ v = [view EXCEPT !.available = x] => v.age = view.age
<1>1. PICK id, read, age, previous, data, available :
        view = [session |-> id, sequence |-> read, age |-> age,
                previous |-> previous, data |-> data, available |-> available]
  BY DEF ViewInv, ViewFits
<1>2. CASE v = [view EXCEPT !.age = x]
  <2>1. v = [session |-> id, sequence |-> read, age |-> x,
             previous |-> previous, data |-> data, available |-> available]
    BY <1>1, <1>2
  <2>2. v = [session |-> v.session, sequence |-> v.sequence, age |-> v.age,
             previous |-> v.previous, data |-> v.data, available |-> v.available]
    BY <2>1
  <2>3. QED
    BY <1>1, <2>1, <2>2 DEF ViewInv, ViewFits, Forward, FeedInv, LinkFits
<1>3. CASE v = [view EXCEPT !.available = x]
  <2>1. v = [session |-> id, sequence |-> read, age |-> age,
             previous |-> previous, data |-> data, available |-> x]
    BY <1>1, <1>3
  <2>2. v = [session |-> v.session, sequence |-> v.sequence, age |-> v.age,
             previous |-> v.previous, data |-> v.data, available |-> v.available]
    BY <2>1
  <2>3. QED
    BY <1>1, <2>1, <2>2 DEF ViewInv, ViewFits, Forward, FeedInv, LinkFits
<1>4. QED
  BY <1>2, <1>3

(* Steps that leave the view and the feed alone.                           *)
LEMMA QuietView ==
  ASSUME ViewInv, UNCHANGED <<feedVars, statusAge, view>>,
         unload' = "no" => unload = "no"
  PROVE  ViewInv' /\ Forward(view') /\ (LatestKept => LatestKept')
<1>1. ViewInv'
  BY DEF ViewInv, FeedInv, feedVars
<1>2. Forward(view')
  BY DEF ViewInv, ViewFits, FeedInv, LinkFits, Forward
<1>3. LatestKept => LatestKept'
  BY DEF LatestKept, HasLatest, LinkConnected, LinkUp, Queued, Shows, StatusItem, feedVars
<1>4. QED
  BY <1>1, <1>2, <1>3

(* The link as the reader, the listener and the transport change it.       *)
LEMMA FeedView ==
  ASSUME ViewInv,
         \/ Accepted \/ Verified \/ Closes \/ Ends
         \/ \E id \in leaving : WriterLeaves(id)
  PROVE  ViewInv' /\ Forward(view') /\ (LatestKept /\ ~DropsLatest => LatestKept')
<1>1. UNCHANGED <<statusAge, view, unload>>
  BY DEF Accepted, Verified, Closes, Ends, WriterLeaves, SameCoordinator, coordVars
<1>2. [FeedNext]_feedVars
  BY DEF Accepted, Verified, Closes, Ends, WriterLeaves, FeedNext
<1>3. FeedInv'
  BY <1>2, FeedNextInv DEF ViewInv
<1>4. Forward(view')
  BY <1>1 DEF ViewInv, ViewFits, FeedInv, LinkFits, Forward
<1>5. /\ link \in Link /\ counter \in Nat /\ view.session \in 0..counter /\ queue \in Seq(Item)
      /\ link.status # NoStatus => link.session # 0 /\ link.verified
  BY DEF ViewInv, ViewFits, FeedInv, LinkFits, Fits
<1>6. CASE Accepted
  <2>1. /\ counter' = counter + 1 /\ link' = [NoLink EXCEPT !.session = counter + 1]
        /\ counter + 1 \in Nat
    BY <1>5, <1>6 DEF Accepted, FeedAccept
  <2>2. link'.session = counter + 1 /\ link'.status = NoStatus
    BY <2>1, FeedValues
  <2>3. ViewFits(view', link', counter')
    BY <1>1, <1>5, <2>1, <2>2 DEF ViewInv, ViewFits
  <2>4. QED
    BY <1>1, <1>3, <1>4, <2>2, <2>3, FeedValues DEF ViewInv, LatestKept, HasLatest, NoStatus
<1>7. CASE Ends
  <2>1. link' = NoLink /\ counter' = counter
    BY <1>7 DEF Ends, LinkEnds
  <2>2. ViewFits(view', link', counter')
    BY <1>1, <2>1, FeedValues DEF ViewInv, ViewFits
  <2>3. QED
    BY <1>1, <1>3, <1>4, <2>1, <2>2, FeedValues DEF ViewInv, LatestKept, HasLatest, NoStatus
<1>8. CASE Verified \/ Closes
  <2>1. /\ UNCHANGED <<counter, queue>> /\ link'.session = link.session
        /\ link'.sequence = link.sequence /\ link'.status = link.status
        /\ ~link'.writerClosing => ~link.writerClosing
    BY <1>5, <1>8 DEF Verified, Verify, Closes, LinkCloses, Link
  <2>2. ViewFits(view', link', counter')
    BY <1>1, <2>1 DEF ViewInv, ViewFits
  <2>3. HasLatest' => HasLatest
    BY <1>1, <1>5, <2>1 DEF HasLatest, LinkConnected, LinkUp, NoStatus
  <2>4. LatestKept => LatestKept'
    BY <1>1, <2>1, <2>3 DEF LatestKept, Queued, StatusItem, Shows
  <2>5. QED
    BY <1>1, <1>3, <1>4, <2>2, <2>4 DEF ViewInv
<1>9. CASE \E id \in leaving : WriterLeaves(id)
  <2>1. PICK id \in leaving : WriterGone(id)
    BY <1>9 DEF WriterLeaves
  <2> DEFINE item == DisconnectItem(id)
  <2>2. item \in Item /\ queue' = QueueAfter(item) /\ UNCHANGED <<link, counter>>
    BY <2>1, WriterFits DEF WriterGone, ViewInv
  <2>3. ViewFits(view', link', counter')
    BY <1>1, <2>2 DEF ViewInv, ViewFits
  <2>4. ASSUME HasLatest, Queued(StatusItem(link.status)), ~DropsLatest
        PROVE  Queued(StatusItem(link.status))'
    <3>1. ~Overflows
      BY <2>1, <2>4 DEF DropsLatest, HasLatest
    <3>2. queue' = Append(queue, item)
      BY <2>2, <3>1 DEF QueueAfter
    <3> HIDE DEF item
    <3>3. \A k \in 1..Len(queue) : k \in 1..Len(queue') /\ queue'[k] = queue[k]
      BY <1>5, <2>2, <3>2
    <3>4. QED
      BY <2>2, <2>4, <3>3 DEF Queued, StatusItem
  <2>5. LatestKept /\ ~DropsLatest => LatestKept'
    BY <1>1, <2>2, <2>4 DEF LatestKept, HasLatest, LinkConnected, LinkUp, Shows, NoStatus
  <2>6. QED
    BY <1>1, <1>3, <1>4, <2>3, <2>5 DEF ViewInv
<1>10. QED
  BY <1>6, <1>7, <1>8, <1>9

LEMMA ReportView ==
  ASSUME ViewInv, NEW r \in Reports, NEW same \in BOOLEAN, Reported(r, same)
  PROVE  ViewInv' /\ Forward(view') /\ (LatestKept /\ ~DropsLatest => LatestKept')
<1> DEFINE s == NextStatus(r, same)
<1>1. FeedReport(r, same) /\ statusAge' = 0 /\ UNCHANGED <<view, unload>>
  BY DEF Reported
<1>2. /\ FeedInv' /\ StatusItem(s) \in Item /\ UNCHANGED counter
      /\ link.sequence \in Nat /\ s.sequence \in Nat /\ s.sequence >= link.sequence
      /\ link'.session = link.session /\ link'.status = s /\ link'.sequence = s.sequence
      /\ Overflows => link'.writerClosing
      /\ queue' = QueueAfter(StatusItem(s))
  BY <1>1, ReportFits DEF ViewInv
<1> HIDE DEF s
<1>3. Forward(view')
  BY <1>1 DEF ViewInv, ViewFits, FeedInv, LinkFits, Forward
<1>4. ViewFits(view', link', counter')
  BY <1>1, <1>2 DEF ViewInv, ViewFits
<1>5. ASSUME LinkConnected'
      PROVE  Queued(StatusItem(link.status))'
  <2>1. queue' = Append(queue, StatusItem(s)) /\ queue \in Seq(Item)
    BY <1>2, <1>5 DEF QueueAfter, LinkConnected, ViewInv, FeedInv, Fits
  <2>2. Len(queue') \in 1..Len(queue') /\ queue'[Len(queue')] = StatusItem(s)
    BY <1>2, <2>1
  <2>3. QED
    BY <1>2, <2>2 DEF Queued, StatusItem
<1>6. QED
  BY <1>1, <1>2, <1>3, <1>4, <1>5 DEF ViewInv, LatestKept, HasLatest

(* What is shown of the latest report outlives the callbacks before it,    *)
(* and the callback of the latest report shows it.                         *)
LEMMA CallbackView ==
  ASSUME ViewInv, CallbackStep
  PROVE  ViewInv' /\ Forward(view') /\ (LatestKept /\ ~DropsLatest => LatestKept')
<1> DEFINE item == Head(queue)
<1>1. /\ Dispatch /\ link' = link /\ UNCHANGED <<statusAge, unload>>
  BY DEF CallbackStep, OnStatus, OnDisconnect, Dispatch
<1>2. FeedInv' /\ queue # <<>> /\ queue' = Tail(queue) /\ UNCHANGED counter
  BY <1>1, TakeFits DEF ViewInv
<1>3. /\ item \in Item /\ ItemFits(item, link, counter, leaving)
      /\ \A i \in 1..Len(queue) : queue[i] = item \/ Holds(Tail(queue), queue[i])
  BY <1>2, TailFits DEF ViewInv, FeedInv
<1> HIDE DEF item
<1>4. Queued(StatusItem(link.status)) =>
        item = StatusItem(link.status) \/ Queued(StatusItem(link.status))'
  BY <1>1, <1>2, <1>3 DEF Queued, Holds, StatusItem
<1>5. HasLatest' => HasLatest
  BY <1>1 DEF HasLatest, LinkConnected, LinkUp, NoStatus
<1>6. ASSUME ViewFits(view', link, counter), Forward(view'),
             HasLatest /\ (item = StatusItem(link.status) \/ Shows(view, link.status, statusAge))
               => Shows(view', link.status, statusAge)
      PROVE  ViewInv' /\ Forward(view') /\ (LatestKept /\ ~DropsLatest => LatestKept')
  <2>1. ViewInv'
    BY <1>1, <1>2, <1>6 DEF ViewInv
  <2>2. LatestKept => LatestKept'
    <3>1. Shows(view', link.status, statusAge) => Shows(view', link'.status, statusAge')
      BY <1>1 DEF Shows
    <3>2. QED
      BY <1>1, <1>4, <1>5, <1>6, <3>1 DEF LatestKept
  <2>3. QED
    BY <1>6, <2>1, <2>2
<1>7. CASE OnStatus
  <2>1. ~IsDisconnect(item) /\ view' = ViewAfter(item.status)
    BY <1>7 DEF OnStatus, item, IsDisconnect
  <2>2. /\ item.status \in AnyStatus /\ item = StatusItem(item.status)
        /\ item.session = link.session => item.status.sequence <= link.sequence
    BY <1>3, <2>1 DEF ItemFits, Item
  <2>3. item.session = item.status.session
    BY <2>2 DEF StatusItem
  <2>4. item = StatusItem(link.status) => item.status = link.status
    BY DEF StatusItem
  <2>5. QED
    BY <1>6, <2>1, <2>2, <2>3, <2>4, ViewAfterFits
<1>8. CASE OnDisconnect
  <2>1. IsDisconnect(item) /\ item.session # link.session
    BY <1>3, <1>8 DEF OnDisconnect, item, IsDisconnect, ItemFits
  <2>2. item # StatusItem(link.status)
    BY <2>1 DEF StatusItem, IsDisconnect
  <2>3. CASE unload = "no" /\ view.session = item.session
    <3>1. view' = [view EXCEPT !.age = Unheard, !.previous = "unknown", !.available = FALSE]
      BY <1>8, <2>3 DEF OnDisconnect, item
    <3>2. ~(HasLatest /\ Shows(view, link.status, statusAge))
      BY <2>1, <2>3 DEF HasLatest, Shows, ViewInv, FeedInv, LinkFits
    <3>3. QED
      BY <1>6, <2>2, <3>1, <3>2, ViewPatched
  <2>4. CASE ~(unload = "no" /\ view.session = item.session)
    <3>1. view' = view
      BY <1>8, <2>4 DEF OnDisconnect, item
    <3>2. Forward(view')
      BY <3>1 DEF ViewInv, ViewFits, FeedInv, LinkFits, Forward
    <3>3. QED
      BY <1>6, <2>2, <3>1, <3>2 DEF ViewInv
  <2>5. QED
    BY <2>3, <2>4
<1>9. QED
  BY <1>7, <1>8 DEF CallbackStep

(* A confirmation shows the latest report ahead of the queue.              *)
LEMMA ConfirmedView ==
  ASSUME ViewInv, Confirmed
  PROVE  ViewInv' /\ Forward(view') /\ (LatestKept /\ ~DropsLatest => LatestKept')
<1>1. UNCHANGED <<feedVars, statusAge, unload>> /\ view' = ViewAfter(link.status)
  BY DEF Confirmed
<1>2. /\ link.status \in AnyStatus
      /\ link.session # 0 /\ link.status.session = link.session
           => link.status.sequence <= link.sequence
  <2>1. link.status \in AnyStatus /\ link.sequence \in Nat
    BY DEF ViewInv, FeedInv, LinkFits, Link
  <2>2. QED
    BY <2>1, FeedValues DEF ViewInv, FeedInv, LinkFits
<1>3. /\ ViewFits(view', link, counter) /\ Forward(view')
      /\ HasLatest => Shows(view', link.status, statusAge)
  BY <1>1, <1>2, ViewAfterFits
<1>4. ViewInv'
  BY <1>1, <1>3 DEF ViewInv, FeedInv, feedVars
<1>5. LatestKept'
  BY <1>1, <1>3 DEF LatestKept, HasLatest, LinkConnected, LinkUp, Shows, feedVars, NoStatus
<1>6. QED
  BY <1>3, <1>4, <1>5

LEMMA ClockView ==
  ASSUME ViewInv, Watchdog \/ Tick
  PROVE  ViewInv' /\ Forward(view') /\ (LatestKept /\ ~DropsLatest => LatestKept')
<1>1. UNCHANGED <<feedVars, unload>> /\ statusAge \in Nat
  BY DEF Watchdog, Tick, ViewInv
<1>2. ASSUME ViewFits(view', link, counter), Forward(view'), statusAge' \in Nat,
             HasLatest /\ Shows(view, link.status, statusAge) => Shows(view', link.status, statusAge'),
             HasLatest /\ LatestKept => Shows(view, link.status, statusAge) \/ UNCHANGED statusAge
      PROVE  ViewInv' /\ Forward(view') /\ (LatestKept => LatestKept')
  <2>1. ViewInv'
    BY <1>1, <1>2 DEF ViewInv, FeedInv, feedVars
  <2>2. LatestKept => LatestKept'
    BY <1>1, <1>2
       DEF LatestKept, HasLatest, LinkConnected, LinkUp, Queued, StatusItem, feedVars, NoStatus
  <2>3. QED
    BY <1>2, <2>1, <2>2
<1>3. CASE Watchdog
  <2>1. UNCHANGED statusAge /\ view' = [view EXCEPT !.available = view.available /\ ~StatusStale]
    BY <1>3 DEF Watchdog
  <2>2. /\ ViewFits(view', link, counter) /\ Forward(view') /\ view'.age = view.age
        /\ view'.session = view.session /\ view'.sequence = view.sequence /\ view'.data = view.data
    BY <2>1, ViewTouched
  <2>3. QED
    BY <1>1, <1>2, <2>1, <2>2 DEF Shows, feedVars
<1>4. CASE Tick
  <2> DEFINE next(a) == IF a = Unheard THEN a ELSE Capped(a, MaxAge + 1)
  <2>1. /\ view' = [view EXCEPT !.age = next(view.age)] /\ queue = <<>>
        /\ statusAge' = Capped(statusAge, MaxAge + 1)
    BY <1>4 DEF Tick
  <2>2. next(statusAge) = statusAge' /\ statusAge' \in Nat
    BY <1>1, <2>1, CoordinatorConstants DEF Capped, Unheard
  <2> HIDE DEF next
  <2>3. /\ ViewFits(view', link, counter) /\ Forward(view') /\ view'.age = next(view.age)
        /\ view'.session = view.session /\ view'.sequence = view.sequence /\ view'.data = view.data
    BY <2>1, ViewTouched
  <2>4. Shows(view, link.status, statusAge) => Shows(view', link.status, statusAge')
    BY <1>1, <2>2, <2>3 DEF Shows, feedVars
  <2>5. HasLatest /\ LatestKept => Shows(view, link.status, statusAge)
    BY <2>1 DEF LatestKept, Queued
  <2>6. QED
    BY <1>2, <2>2, <2>3, <2>4, <2>5
<1>5. QED
  BY <1>3, <1>4

LEMMA UnloadView ==
  ASSUME ViewInv, UnloadFinishes
  PROVE  ViewInv' /\ Forward(view') /\ (LatestKept /\ ~DropsLatest => LatestKept')
<1>1. /\ link' = NoLink /\ leaving' = {} /\ queue' = <<>> /\ UNCHANGED <<counter, statusAge>>
      /\ view' = [view EXCEPT !.available = FALSE] /\ unload' = "done"
  BY DEF UnloadFinishes
<1>2. ViewFits(view', link, counter) /\ Forward(view')
  BY <1>1, ViewTouched
<1>3. FeedInv'
  BY <1>1, FeedValues, EmptyFits DEF ViewInv, FeedInv, LinkFits
<1>4. ViewFits(view', link', counter)
  BY <1>1, <1>2, FeedValues DEF ViewFits
<1>5. QED
  BY <1>1, <1>2, <1>3, <1>4 DEF ViewInv, LatestKept, HasLatest

LEMMA ViewNext ==
  ASSUME ViewInv, [Next]_vars
  PROVE  ViewInv' /\ Forward(view') /\ (LatestKept /\ ~DropsLatest => LatestKept')
<1>1. CASE FeedStep
  BY <1>1, FeedView, ReportView DEF FeedStep
<1>2. CASE CommandStep
  <2>1. CASE \/ \E r \in Requests : Issue(r)
             \/ Refuse \/ ClientSends \/ Rejected \/ Uncertain
    BY <2>1, QuietView DEF Issue, Refuse, ClientSends, Rejected, Uncertain
  <2>2. QED
    BY <1>2, <2>1, ConfirmedView DEF CommandStep
<1>3. CASE (\E r \in Requests : Call(r)) \/ UnloadRequested \/ UNCHANGED vars
  BY <1>3, QuietView DEF Call, UnloadRequested, vars, coordVars
<1>4. QED
  BY <1>1, <1>2, <1>3, CallbackView, ClockView, UnloadView DEF Next

LEMMA InitView == Init => ViewInv /\ LatestKept
<1> SUFFICES ASSUME Init
             PROVE  ViewInv /\ LatestKept
  OBVIOUS
<1>1. /\ FeedInv /\ link = NoLink /\ counter = 0
      /\ statusAge = 0
      /\ view = [session |-> 0, sequence |-> 0, age |-> Unheard, previous |-> "unknown",
                 data |-> [k \in Keys |-> "unknown"], available |-> FALSE]
  BY FeedInitInv DEF Init, FeedInit
<1>2. ViewFits(view, link, counter)
  BY <1>1, FeedValues DEF ViewFits
<1>3. QED
  BY <1>1, <1>2, FeedValues DEF ViewInv, LatestKept, HasLatest

(* What is shown is of a session that was accepted, and of no later read   *)
(* than the client has made (_on_status, _on_disconnect).                  *)
THEOREM ViewInvariance == Spec => []ViewInv
<1>1. Init => ViewInv
  BY InitView
<1>2. ViewInv /\ [Next]_vars => ViewInv'
  BY ViewNext
<1>3. QED
  BY <1>1, <1>2, PTL DEF Spec

(* Reports handled out of order by a confirmation, late disconnects and    *)
(* sessions that replace each other never take the view back.              *)
THEOREM ViewGoesForward == Spec => ViewMovesForward
<1>1. ViewInv /\ [Next]_vars =>
        [\/ view'.session > view.session
         \/ view'.session = view.session /\ view'.sequence >= view.sequence]_vars
  BY ViewNext DEF Forward
<1>2. QED
  BY <1>1, ViewInvariance, PTL DEF Spec, ViewMovesForward

(* Once the callbacks have run, the view is the client's latest report and *)
(* its age.  The queue may lose that report in one way only, which         *)
(* FeedWatch shows it can: whatever else overflows, ends, is handed over   *)
(* late or out of order, is made good by the time the queue is empty.      *)
THEOREM LatestIsShown == Spec /\ [][~DropsLatest]_vars => []ShownIsLatest
<1>1. Init => ViewInv /\ LatestKept
  BY InitView
<1>2. ASSUME ViewInv, LatestKept, [Next]_vars, [~DropsLatest]_vars
      PROVE  ViewInv' /\ LatestKept'
  <2>1. CASE UNCHANGED vars
    BY <1>2, <2>1, QuietView DEF vars, coordVars, DropsLatest, WriterGone, feedVars
  <2>2. CASE ~DropsLatest
    BY <1>2, <2>2, ViewNext
  <2>3. QED
    BY <1>2, <2>1, <2>2
<1>3. ViewInv /\ LatestKept => ShownIsLatest
  <2>1. queue = <<>> => ~Queued(StatusItem(link.status))
    BY DEF Queued
  <2>2. QED
    BY <2>1 DEF LatestKept, HasLatest, Shows, ShownIsLatest
<1>4. QED
  BY <1>1, <1>2, <1>3, PTL DEF Spec

LEMMA CounterGrows ==
  ASSUME ViewInv, [Next]_vars
  PROVE  counter \in Nat /\ counter' \in {counter, counter + 1}
<1>1. counter \in Nat
  BY DEF ViewInv, FeedInv, LinkFits
<1>2. FeedStep => counter' \in {counter, counter + 1}
  BY DEF FeedStep, Accepted, FeedAccept, Verified, Verify, Closes, LinkCloses, Ends, LinkEnds,
         WriterLeaves, WriterGone, Reported, FeedReport, Receive
<1>3. CallbackStep => counter' = counter
  BY DEF CallbackStep, OnStatus, OnDisconnect, Dispatch, Take
<1>4. CommandStep => counter' = counter
  BY DEF CommandStep, Issue, Refuse, ClientSends, Rejected, Uncertain, Confirmed, feedVars
<1>5. (\E r \in Requests : Call(r)) \/ Watchdog \/ Tick \/ UnloadRequested \/ UnloadFinishes
        \/ UNCHANGED vars => counter' = counter
  BY DEF Call, Watchdog, Tick, UnloadRequested, UnloadFinishes, vars, feedVars
<1>6. QED
  BY <1>1, <1>2, <1>3, <1>4, <1>5 DEF Next

(* A first connection cannot lose it at all: no older session is there to  *)
(* end, however the queue overflows and the dispatcher lags.               *)
THEOREM FirstSessionIsShownLast == Spec => [](counter <= 1 => ShownIsLatest)
<1> DEFINE Inv == ViewInv /\ (counter <= 1 => LatestKept)
<1>1. Init => Inv
  BY InitView
<1>2. ASSUME Inv, [Next]_vars
      PROVE  Inv'
  <2>1. ASSUME counter' <= 1
        PROVE  LatestKept'
    <3>1. LatestKept
      BY <1>2, <2>1, CounterGrows
    <3>2. ~DropsLatest
      <4>1. /\ leaving \subseteq (1..counter) \ {link.session} /\ link.session \in {0, counter}
            /\ counter \in {0, 1}
        BY <1>2, <2>1, CounterGrows DEF ViewInv, FeedInv, LinkFits
      <4>2. LinkConnected => leaving = {}
        BY <4>1 DEF LinkConnected, LinkUp
      <4>3. QED
        BY <4>2 DEF DropsLatest
    <3>3. QED
      BY <1>2, <3>1, <3>2, ViewNext
  <2>2. QED
    BY <1>2, <2>1, ViewNext
<1>3. ViewInv /\ LatestKept => ShownIsLatest
  <2>1. queue = <<>> => ~Queued(StatusItem(link.status))
    BY DEF Queued
  <2>2. QED
    BY <2>1 DEF LatestKept, HasLatest, Shows, ShownIsLatest
<1>4. Inv => (counter <= 1 => ShownIsLatest)
  BY <1>3
<1>5. QED
  BY <1>1, <1>2, <1>4, PTL DEF Spec

-----------------------------------------------------------------------------
(* The interval off.                                                       *)

(* The code counts the interval at least from when the view was last shown *)
(* other than off; a power the view remembers as the previous one is the   *)
(* one it shows, unless a disconnect or a new session made it forget; and  *)
(* no request has replaced an OFF in doubt.                                *)
RestInv ==
  /\ offAge \in 0..MinOff /\ restAge \in 0..MinOff
  /\ view.previous \in {view.data["power"], "unknown"}
  /\ view.data["power"] = "off" => offAge <= restAge
  /\ doubt["power"].wanted = "off" => ~doubt["power"].replaced

LEMMA InitRest == Init => RestInv
BY CoordinatorConstants DEF Init, RestInv, NoDoubt, Keys

(* Whatever report _on_status is given: off follows off, or the interval   *)
(* begins.                                                                 *)
LEMMA StatusRests ==
  ASSUME ViewInv, RestInv, NEW s, NEW o \in {0, offAge}, StartsOffInterval(s) => o = 0
  PROVE  LET v == ViewAfter(s) IN
         /\ RestAfter(v) \in 0..MinOff
         /\ v.previous \in {v.data["power"], "unknown"}
         /\ v.data["power"] = "off" => o <= RestAfter(v)
<1> DEFINE v == ViewAfter(s)
<1>1. /\ MinOff \in Nat /\ offAge \in Nat /\ restAge \in Nat /\ 0 \in 0..MinOff
      /\ RestAfter(v) \in {0, restAge}
  BY CoordinatorConstants DEF RestInv, RestAfter
<1>2. CASE v = view
  BY <1>1, <1>2 DEF RestInv, RestAfter
<1>3. CASE v # view
  <2>1. /\ Admits(s) /\ ~IsOld(s)
        /\ v.session = s.session /\ v.previous = Power(s) /\ v.data["power"] = Power(s)
    BY <1>3 DEF ViewAfter, Keys, Power
  <2>2. ASSUME Power(s) = "off", o # 0
        PROVE  RestAfter(v) = restAge /\ view.data["power"] = "off"
    <3>1. ~IsNewSession(s) /\ view.previous = "off"
      BY <2>1, <2>2 DEF StartsOffInterval, Previous
    <3>2. QED
      BY <2>1, <2>2, <3>1 DEF IsNewSession, RestAfter, RestInv
  <2>3. QED
    BY <1>1, <2>1, <2>2 DEF RestInv
<1>4. QED
  BY <1>2, <1>3

(* The callbacks, and the confirmation that calls one of them.             *)
LEMMA CallbacksRest ==
  ASSUME ViewInv, RestInv, IInv, OnStatus \/ OnDisconnect \/ Confirmed
  PROVE  RestInv'
<1>1. CASE OnStatus
  <2>1. offAge' \in {0, offAge}
    BY <1>1 DEF OnStatus
  <2>2. QED
    BY <1>1, <2>1, StatusRests, CoordinatorConstants DEF OnStatus, RestInv
<1>2. CASE OnDisconnect
  <2>1. CASE UNCHANGED <<view, offAge, restAge, doubt>>
    BY <2>1 DEF RestInv
  <2>2. CASE ~UNCHANGED <<view, offAge, restAge, doubt>>
    <3>1. /\ view' = [view EXCEPT !.age = Unheard, !.previous = "unknown", !.available = FALSE]
          /\ offAge' = 0 /\ restAge' = 0 /\ doubt' = doubt
      BY <1>2, <2>2 DEF OnDisconnect
    <3>2. view'.previous = "unknown" /\ view'.data = view.data
      BY <3>1 DEF ViewInv, ViewFits
    <3>3. QED
      BY <3>1, <3>2, CoordinatorConstants DEF RestInv
  <2>3. QED
    BY <2>1, <2>2
<1>3. CASE Confirmed
  <2>1. doubt["power"]' \in {doubt["power"], NoDoubt}
    BY <1>3 DEF Confirmed, IInv, TypeOK, Keys
  <2>2. doubt["power"]'.wanted = "off" => ~doubt["power"]'.replaced
    BY <2>1, ConstantTypes DEF RestInv
  <2>3. /\ view' = ViewAfter(link.status) /\ offAge' \in {0, offAge}
        /\ StartsOffInterval(link.status) => offAge' = 0
        /\ \/ restAge' = RestAfter(ViewAfter(link.status))
           \/ restAge' = 0 /\ offAge' = 0
    BY <1>3 DEF Confirmed
  <2>4. QED
    BY <2>2, <2>3, StatusRests, CoordinatorConstants DEF RestInv
<1>4. QED
  BY <1>1, <1>2, <1>3

(* An OFF in doubt is kept, so that neither ON nor OFF is issued over it.  *)
LEMMA OffStands ==
  ASSUME IInv, RestInv, NEW r \in Requests, Allowed(r), r.key = "power"
  PROVE  doubt["power"].wanted # "off"
<1> SUFFICES ASSUME doubt["power"].wanted = "off"
             PROVE  FALSE
  OBVIOUS
<1>1. doubt["power"] # NoDoubt /\ ~doubt["power"].replaced /\ "power" \in Keys
  BY ConstantTypes DEF RestInv, Keys
<1>2. /\ pending["power"].wanted = "off" /\ pending["power"].left = doubt["power"].left
      /\ doubt["power"].left > 0
  BY <1>1 DEF IInv, DoubtFits
<1>3. IsPending("power")
  BY <1>2, ConstantTypes DEF IsPending, IsKept
<1>4. r.wanted \in {"on", "off"}
  BY CoordinatorConstants
<1>5. QED
  BY <1>2, <1>3, <1>4 DEF Allowed, Duplicate, RestartBlocked, Starting

LEMMA IssueRests ==
  ASSUME IInv, RestInv, NEW r \in Requests, Issue(r)
  PROVE  RestInv'
<1>1. /\ view' = view /\ Allowed(r) /\ r \in [key : Keys, wanted : Values]
      /\ offAge' \in {0, offAge} /\ restAge' \in {0, restAge}
      /\ restAge' = 0 => offAge' = 0 \/ restAge = 0
      /\ offAge' <= offAge
  BY CoordinatorConstants DEF Issue, RestInv, Request
<1>2. doubt["power"]'.wanted = "off" => ~doubt["power"]'.replaced
  <2>1. doubt' = [doubt EXCEPT ![r.key].replaced = doubt[r.key] # NoDoubt]
    BY DEF Issue
  <2>2. doubt \in [Keys -> Doubt] /\ "power" \in Keys
    BY DEF IInv, TypeOK, Keys
  <2>3. CASE r.key = "power"
    <3>1. doubt'["power"].wanted = doubt["power"].wanted
      BY <2>1, <2>2, <2>3 DEF Doubt
    <3>2. QED
      BY <1>1, <2>3, <3>1, OffStands
  <2>4. CASE r.key # "power"
    BY <2>1, <2>2, <2>4 DEF RestInv
  <2>5. QED
    BY <2>3, <2>4
<1>3. QED
  BY <1>1, <1>2, CoordinatorConstants DEF RestInv

(* A tick ages both alike.                                                 *)
LEMMA ClockRests ==
  ASSUME ViewInv, RestInv, IInv, Watchdog \/ Tick
  PROVE  RestInv'
<1>1. view'.previous = view.previous /\ view'.data = view.data
  <2>1. CASE Watchdog
    <3>1. view' = [view EXCEPT !.available = view.available /\ ~StatusStale]
      BY <2>1 DEF Watchdog
    <3>2. QED
      BY <3>1, ViewTouched
  <2>2. CASE Tick
    <3> DEFINE age == IF view.age = Unheard THEN view.age ELSE Capped(view.age, MaxAge + 1)
    <3>1. view' = [view EXCEPT !.age = age]
      BY <2>2 DEF Tick
    <3> HIDE DEF age
    <3>2. QED
      BY <3>1, ViewTouched
  <2>3. QED
    BY <2>1, <2>2
<1>2. CASE Watchdog
  BY <1>1, <1>2 DEF Watchdog, RestInv
<1>3. CASE Tick
  <2>1. /\ offAge' = Capped(offAge, MinOff)
        /\ restAge' = IF view.data["power"] = "off" THEN Capped(restAge, MinOff) ELSE 0
    BY <1>3 DEF Tick
  <2>2. /\ offAge' \in 0..MinOff /\ restAge' \in 0..MinOff
        /\ view.data["power"] = "off" => offAge' <= restAge'
    BY <2>1, CoordinatorConstants DEF RestInv, Capped
  <2>3. doubt["power"]'.wanted = "off" => ~doubt["power"]'.replaced
    <3>1. doubt'["power"] = IF doubt["power"].left > 1 THEN Less(doubt["power"]) ELSE NoDoubt
      BY <1>3 DEF Tick, Keys
    <3>2. doubt["power"] \in Doubt
      BY DEF IInv, TypeOK, Keys
    <3>3. /\ Less(doubt["power"]).wanted = doubt["power"].wanted
          /\ Less(doubt["power"]).replaced = doubt["power"].replaced
      BY <3>2 DEF Less, Doubt
    <3>4. QED
      BY <3>1, <3>3, ConstantTypes DEF RestInv
  <2>4. QED
    BY <1>1, <2>2, <2>3 DEF RestInv
<1>4. QED
  BY <1>2, <1>3

(* A request in doubt has replaced what was in doubt before it.            *)
LEMMA UncertainRests ==
  ASSUME RestInv, IInv, Uncertain
  PROVE  RestInv'
<1>1. doubt' = [doubt EXCEPT ![flight.request.key] = InDoubt(pending[flight.request.key])]
  BY DEF Uncertain
<1>2. doubt["power"]' = doubt["power"] \/ ~doubt["power"]'.replaced
  BY <1>1 DEF InDoubt, IInv, TypeOK, Keys
<1>3. QED
  BY <1>2 DEF Uncertain, RestInv

LEMMA RestNext ==
  ASSUME ViewInv, RestInv, IInv, [Next]_vars
  PROVE  RestInv'
<1>1. CASE UNCHANGED <<view, offAge, restAge, doubt>>
  BY <1>1 DEF RestInv
<1>2. CASE UnloadFinishes
  <2>1. view' = [view EXCEPT !.available = FALSE]
    BY <1>2 DEF UnloadFinishes
  <2>2. view'.previous = view.previous /\ view'.data = view.data
    BY <2>1, ViewTouched
  <2>3. QED
    BY <1>2, <2>2 DEF UnloadFinishes, RestInv
<1>3. CASE FeedStep \/ Refuse \/ ClientSends \/ Rejected \/ (\E r \in Requests : Call(r))
           \/ UnloadRequested \/ UNCHANGED vars
  BY <1>1, <1>3
     DEF FeedStep, Accepted, Verified, Closes, Ends, WriterLeaves, Reported, SameCoordinator,
         Refuse, ClientSends, Rejected, Call, UnloadRequested, vars, coordVars
<1>4. QED
  BY <1>2, <1>3, CallbacksRest, IssueRests, ClockRests, UncertainRests
     DEF Next, CallbackStep, CommandStep

(* The appliance rests between a stop and a start, for any reports, shared *)
(* reads and overflows included, and any requests, sessions and interval:  *)
(* no ON is issued unless it is shown on, or has been shown off for the    *)
(* whole interval on one session with no OFF in between (_on_status,       *)
(* _on_disconnect, restart_delay_remaining); and none while an OFF is in   *)
(* doubt, whatever the view shows.                                         *)
THEOREM Rests == Spec => RestRestart
<1> DEFINE Inv == IInv /\ ViewInv /\ RestInv
<1>1. Init => Inv
  BY InitInv, InitView, InitRest
<1>2. Inv /\ [Next]_vars => Inv'
  BY NextInv, ViewNext, RestNext
<1>3. ASSUME Inv, [Next]_vars, NEW r \in Requests, IsIssued(r), Starting(r)
      PROVE  /\ doubt["power"].wanted # "off"
             /\ view.data["power"] = "on" \/ restAge = MinOff
  <2>1. Allowed(r) /\ r.key = "power"
    BY <1>3, OnlyIssues DEF Issue, Starting
  <2>2. view.data["power"] \in {"on", "off"} /\ ~RestartBlocked
    BY <1>3, <2>1 DEF Allowed
  <2>3. CASE view.data["power"] = "off"
    <3>1. ~(offAge < MinOff)
      BY <2>2, <2>3 DEF RestartBlocked
    <3>2. QED
      BY <1>3, <2>1, <2>3, <3>1, OffStands, CoordinatorConstants DEF RestInv
  <2>4. QED
    BY <1>3, <2>1, <2>2, <2>3, OffStands
<1>4. Inv /\ [Next]_vars =>
        [\A r \in Requests :
           IsIssued(r) /\ Starting(r) =>
             /\ doubt["power"].wanted # "off"
             /\ view.data["power"] = "on" \/ restAge = MinOff]_vars
  BY <1>3
<1>5. QED
  BY <1>1, <1>2, <1>4, PTL DEF Spec, RestRestart
=============================================================================
