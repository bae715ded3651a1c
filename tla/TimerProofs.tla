----------------------------- MODULE TimerProofs -----------------------------
(***************************************************************************)
(* The outbox and the shipment, the two parts that timers drive.           *)
(*                                                                         *)
(* Outbox: its rows keep their types, no event is marked DONE before its   *)
(* broadcast, and none is broadcast too often unless two calls have had it *)
(* in hand at once, for any number of events and of overlapping calls.     *)
(*                                                                         *)
(* Shipment: one weigh ticket and one accrual for a booking, and a         *)
(* complete answer, for any bookings, requests and runs of the sync and    *)
(* any number of failures.  IInv adds to the invariants of Shipment what   *)
(* ties a worker's step to the rows behind it.                             *)
(***************************************************************************)
EXTENDS Outbox, Shipment, FiniteSetTheorems, SequenceTheorems, TLAPS

-----------------------------------------------------------------------------
(* Outbox.                                                                 *)

\* The row a call works on was read into its batch.
LEMMA CurrentType ==
    ASSUME ObTypeOK, NEW r \in Poller, point[r] # "idle"
    PROVE  /\ Current(r) \in [id : Event, retry : Nat]
           /\ Len(batch[r]) \in Nat \ {0}
           /\ Tail(batch[r]) \in Seq([id : Event, retry : Nat])
           /\ Len(batch[r]) # 1 => Tail(batch[r]) # << >>
<1> DEFINE Row == [id : Event, retry : Nat]
<1>1. batch[r] \in Seq(Row) /\ batch[r] # << >>
  BY DEF ObTypeOK
<1> HIDE DEF Row
<1>2. /\ Head(batch[r]) \in Row
      /\ Tail(batch[r]) \in Seq(Row)
      /\ Len(batch[r]) \in Nat \ {0}
      /\ Len(Tail(batch[r])) = Len(batch[r]) - 1
  BY <1>1, HeadTailProperties, EmptySeq, LenProperties
<1>3. Len(batch[r]) # 1 => Tail(batch[r]) # << >>
  <2>1. SUFFICES ASSUME Tail(batch[r]) = << >> PROVE Len(batch[r]) = 1
    OBVIOUS
  <2>2. << >> \in Seq(Row) /\ Len(<< >>) = 0
    BY EmptySeq
  <2>3. Len(Tail(batch[r])) = 0
    BY <2>1, <2>2
  <2> QED BY <1>2, <2>3
<1> QED BY <1>2, <1>3 DEF Row, Current

\* Moving to the next row keeps batches and program counters well formed.
LEMMA NextRowType ==
    ASSUME ObTypeOK, NEW r \in Poller, point[r] # "idle", NextRow(r)
    PROVE  /\ batch' \in [Poller -> Seq([id : Event, retry : Nat])]
           /\ point' \in [Poller -> {"idle", "claim", "handle", "finish", "failed"}]
           /\ \A q \in Poller : point'[q] # "idle" => batch'[q] # << >>
           /\ \A q \in Poller : point'[q] \in {"finish"} => q # r /\ point[q] = "finish"
           /\ \A q \in Poller : q # r => batch'[q] = batch[q]
  BY CurrentType DEF NextRow, ObTypeOK

\* Every reachable state is well typed: each row and each call of
\* processOnce keeps to the values the code knows.
THEOREM OutboxTyped == ObSpec => []ObTypeOK
<1>1. ObInit => ObTypeOK
  BY OutboxAssumption DEF ObInit, ObTypeOK, RowStatus
<1>2. ObTypeOK /\ [ObNext]_obVars => ObTypeOK'
  <2> SUFFICES ASSUME ObTypeOK, [ObNext]_obVars PROVE ObTypeOK'
    OBVIOUS
  <2>1. ASSUME NEW e \in Event, Enqueue(e) PROVE ObTypeOK'
    <3>1. IsFiniteSet({f \in Event : status[f] # "NONE"})
      BY FS_Subset, OutboxAssumption
    <3>2. Cardinality({f \in Event : status[f] # "NONE"}) \in Nat
      BY <3>1, FS_CardinalityType
    <3> QED BY <2>1, <3>2 DEF ObTypeOK, Enqueue, RowStatus
  <2>2. ASSUME NEW r \in Poller, Poll(r) PROVE ObTypeOK'
    <3>1. PICK n \in 1..BatchSize : \E s \in [1..n -> Due] :
             batch' = [batch EXCEPT ![r] =
                         [i \in 1..n |-> [id |-> s[i], retry |-> retry[s[i]]]]]
      BY <2>2 DEF Poll
    <3>2. PICK s \in [1..n -> Due] :
             batch' = [batch EXCEPT ![r] =
                         [i \in 1..n |-> [id |-> s[i], retry |-> retry[s[i]]]]]
      BY <3>1
    <3>3. n \in Nat /\ n # 0
      BY OutboxAssumption
    <3> DEFINE b == [i \in 1..n |-> [id |-> s[i], retry |-> retry[s[i]]]]
    <3>4. \A i \in 1..n : [id |-> s[i], retry |-> retry[s[i]]]
                             \in [id : Event, retry : Nat]
      BY DEF Due, ObTypeOK
    <3>5. b \in Seq([id : Event, retry : Nat]) /\ b # << >>
      <4> DEFINE Row == [id : Event, retry : Nat]
      <4>1. b \in [1..n -> Row]
        BY <3>4
      <4> HIDE DEF b, Row
      <4>2. b \in Seq(Row) /\ Len(b) = n
        BY <4>1, <3>3, SeqDef, LenProperties
      <4>3. b # << >>
        BY <4>2, <3>3, EmptySeq
      <4> QED BY <4>2, <4>3 DEF Row
    <3> HIDE DEF b
    <3>6. batch' = [batch EXCEPT ![r] = b]
      BY <3>2 DEF b
    <3>7. shared' \subseteq Event
      BY <2>2 DEF Poll, Due, ObTypeOK
    <3> QED BY <2>2, <3>5, <3>6, <3>7 DEF Poll, ObTypeOK
  <2>3. ASSUME NEW r \in Poller, Claim(r) PROVE ObTypeOK'
    <3>1. status' \in [Event -> RowStatus]
      BY <2>3 DEF Claim, ClaimedStatus, ObTypeOK, RowStatus
    <3> QED BY <2>3, <3>1 DEF Claim, ObTypeOK
  <2>4. ASSUME NEW r \in Poller, Handle(r) PROVE ObTypeOK'
    <3>1. Current(r).id \in Event
      BY <2>4, CurrentType DEF Handle
    <3>2. delivered' \in [Event -> Nat]
      BY <2>4, <3>1 DEF Handle, ObTypeOK
    <3> QED BY <2>4, <3>2 DEF Handle, ObTypeOK
  <2>5. ASSUME NEW r \in Poller, Finish(r) PROVE ObTypeOK'
    <3>1. status' \in [Event -> RowStatus]
      BY <2>5 DEF Finish, ObTypeOK, RowStatus
    <3> QED BY <2>5, <3>1, NextRowType DEF Finish, ObTypeOK
  <2>6. ASSUME NEW r \in Poller, RecordFailure(r) PROVE ObTypeOK'
    <3>1. point[r] # "idle" /\ NextRow(r)
      BY <2>6 DEF RecordFailure
    <3>2. FailureCount(r) \in Nat
      BY <3>1, CurrentType DEF FailureCount
    <3>3. retry' \in [Event -> Nat] /\ status' \in [Event -> RowStatus]
      BY <2>6, <3>2 DEF RecordFailure, ObTypeOK, RowStatus
    <3>4. UNCHANGED <<createdAt, delivered, shared, crashes>>
      BY <2>6 DEF RecordFailure
    <3> QED BY <3>1, <3>3, <3>4, NextRowType DEF ObTypeOK
  <2>7. ASSUME NEW r \in Poller, UpdateError(r) PROVE ObTypeOK'
    <3>1. status' \in [Event -> RowStatus]
      BY <2>7 DEF UpdateError, ClaimedStatus, ObTypeOK, RowStatus
    <3> QED BY <2>7, <3>1 DEF UpdateError, ObTypeOK
  <2>8. ASSUME NEW r \in Poller, LoseFailure(r) PROVE ObTypeOK'
    BY <2>8, NextRowType DEF LoseFailure, ObTypeOK
  <2>9. CASE Crash
    BY <2>9 DEF Crash, ObTypeOK
  <2>10. CASE UNCHANGED obVars
    BY <2>10 DEF obVars, ObTypeOK
  <2> QED
    BY <2>1, <2>2, <2>3, <2>4, <2>5, <2>6, <2>7, <2>8, <2>9, <2>10
       DEF ObNext, Step
<1> QED BY <1>1, <1>2, PTL DEF ObSpec

\* The strengthening: a call about to write DONE has broadcast its row.
FinishAfterBroadcast ==
    \A r \in Poller : point[r] = "finish" => delivered[Current(r).id] > 0

DeliveryInv == ObTypeOK /\ FinishAfterBroadcast /\ DoneWasDelivered

\* No event is written off undelivered: a row is DONE only after handle()
\* broadcast it, whatever updates fail, whoever overlaps and whenever the
\* process stops.
THEOREM NoEventWrittenOff == ObSpec => []DoneWasDelivered
<1>1. ObInit => DeliveryInv
  BY OutboxAssumption
     DEF ObInit, DeliveryInv, ObTypeOK, FinishAfterBroadcast, DoneWasDelivered, RowStatus
<1>2. DeliveryInv /\ ObTypeOK' /\ [ObNext]_obVars => DeliveryInv'
  <2> SUFFICES ASSUME DeliveryInv, ObTypeOK', [ObNext]_obVars
               PROVE  FinishAfterBroadcast' /\ DoneWasDelivered'
    BY DEF DeliveryInv
  <2> USE DEF DeliveryInv
  <2>1. ASSUME NEW e \in Event, Enqueue(e)
        PROVE  FinishAfterBroadcast' /\ DoneWasDelivered'
    BY <2>1 DEF Enqueue, FinishAfterBroadcast, DoneWasDelivered, Current, ObTypeOK
  <2>2. ASSUME NEW r \in Poller, Poll(r)
        PROVE  FinishAfterBroadcast' /\ DoneWasDelivered'
    BY <2>2 DEF Poll, FinishAfterBroadcast, DoneWasDelivered, Current, ObTypeOK
  <2>3. ASSUME NEW r \in Poller, Claim(r)
        PROVE  FinishAfterBroadcast' /\ DoneWasDelivered'
    BY <2>3 DEF Claim, ClaimedStatus, FinishAfterBroadcast, DoneWasDelivered,
                Current, ObTypeOK
  <2>4. ASSUME NEW r \in Poller, Handle(r)
        PROVE  FinishAfterBroadcast' /\ DoneWasDelivered'
    <3>1. \A e \in Event : delivered'[e] >= delivered[e]
      <4>1. SUFFICES ASSUME NEW e \in Event
                     PROVE  delivered'[e] >= delivered[e]
        OBVIOUS
      <4>2. delivered[e] \in Nat
        BY DEF ObTypeOK
      <4>3. delivered'[e] \in {delivered[e], delivered[e] + 1}
        BY <2>4 DEF Handle, ObTypeOK
      <4> QED BY <4>2, <4>3
    <3>2. delivered'[Current(r).id] > 0
      <4>1. Current(r).id \in Event
        BY <2>4, CurrentType DEF Handle
      <4>2. delivered[Current(r).id] \in Nat /\ MaxRetry \in Nat
        BY <4>1, OutboxAssumption DEF ObTypeOK
      <4>3. delivered'[Current(r).id] = IF delivered[Current(r).id] > MaxRetry
                                          THEN delivered[Current(r).id]
                                          ELSE delivered[Current(r).id] + 1
        BY <2>4, <4>1 DEF Handle, ObTypeOK
      <4> QED BY <4>2, <4>3
    <3>3. \A q \in Poller : batch'[q] = batch[q]
      BY <2>4 DEF Handle
    <3>4. \A q \in Poller : point'[q] = "finish" => q = r \/ point[q] = "finish"
      BY <2>4 DEF Handle, ObTypeOK
    <3>5. \A q \in Poller : point'[q] = "finish" => delivered'[Current(q).id] > 0
      <4>1. SUFFICES ASSUME NEW q \in Poller, point'[q] = "finish", q # r
                     PROVE  delivered'[Current(q).id] > 0
        BY <3>2
      <4>2. point[q] = "finish" /\ delivered[Current(q).id] > 0
        BY <3>4, <4>1 DEF FinishAfterBroadcast
      <4>3. Current(q).id \in Event
        BY <4>2, CurrentType
      <4>4. delivered[Current(q).id] \in Nat /\ delivered'[Current(q).id] \in Nat
        BY <4>3 DEF ObTypeOK
      <4> QED BY <3>1, <4>2, <4>3, <4>4
    <3>6. FinishAfterBroadcast'
      BY <3>3, <3>5 DEF FinishAfterBroadcast, Current
    <3>7. DoneWasDelivered'
      <4>1. SUFFICES ASSUME NEW e \in Event, status'[e] = "DONE"
                     PROVE  delivered'[e] > 0
        BY DEF DoneWasDelivered
      <4>2. delivered[e] > 0
        BY <2>4, <4>1 DEF Handle, DoneWasDelivered
      <4>3. delivered[e] \in Nat /\ delivered'[e] \in Nat
        BY DEF ObTypeOK
      <4> QED BY <3>1, <4>2, <4>3
    <3> QED BY <3>6, <3>7
  <2>5. ASSUME NEW r \in Poller, Finish(r)
        PROVE  FinishAfterBroadcast' /\ DoneWasDelivered'
    <3>1. delivered' = delivered /\ delivered[Current(r).id] > 0
      BY <2>5 DEF Finish, FinishAfterBroadcast
    <3>2. DoneWasDelivered'
      BY <2>5, <3>1 DEF Finish, DoneWasDelivered, ObTypeOK
    <3>3. FinishAfterBroadcast'
      BY <2>5, <3>1, NextRowType DEF Finish, FinishAfterBroadcast, Current
    <3> QED BY <3>2, <3>3
  <2>6. ASSUME NEW r \in Poller, RecordFailure(r)
        PROVE  FinishAfterBroadcast' /\ DoneWasDelivered'
    <3>1. FinishAfterBroadcast'
      BY <2>6, NextRowType DEF RecordFailure, FinishAfterBroadcast, Current
    <3>2. DoneWasDelivered'
      BY <2>6 DEF RecordFailure, DoneWasDelivered, ObTypeOK
    <3> QED BY <3>1, <3>2
  <2>7. ASSUME NEW r \in Poller, UpdateError(r)
        PROVE  FinishAfterBroadcast' /\ DoneWasDelivered'
    BY <2>7 DEF UpdateError, ClaimedStatus, FinishAfterBroadcast,
                DoneWasDelivered, Current, ObTypeOK
  <2>8. ASSUME NEW r \in Poller, LoseFailure(r)
        PROVE  FinishAfterBroadcast' /\ DoneWasDelivered'
    <3>1. FinishAfterBroadcast'
      BY <2>8, NextRowType DEF LoseFailure, FinishAfterBroadcast, Current
    <3> QED BY <2>8, <3>1 DEF LoseFailure, DoneWasDelivered
  <2>9. CASE Crash
    BY <2>9 DEF Crash, FinishAfterBroadcast, DoneWasDelivered
  <2>10. CASE UNCHANGED obVars
    BY <2>10 DEF obVars, FinishAfterBroadcast, DoneWasDelivered, Current
  <2> QED
    BY <2>1, <2>2, <2>3, <2>4, <2>5, <2>6, <2>7, <2>8, <2>9, <2>10
       DEF ObNext, Step
<1>3. DeliveryInv => DoneWasDelivered
  BY DEF DeliveryInv
<1> QED BY <1>1, <1>2, <1>3, OutboxTyped, PTL DEF ObSpec

-----------------------------------------------------------------------------
(* How often an event is broadcast.  As long as no two calls have had it   *)
(* in their batches at once, the count in its row keeps up with the        *)
(* broadcasts, whatever the calls do to other events.                      *)

Alone == Event \ shared

\* A row that waits was broadcast once for each failure it records.
Tried ==
    \A e \in Alone :
        /\ status[e] = "NONE" => delivered[e] = 0 /\ retry[e] = 0
        /\ status[e] = "PENDING" => delivered[e] <= retry[e] /\ retry[e] < MaxRetry
        /\ delivered[e] <= MaxRetry

\* The batch holds each row once.
BatchOnce(r) ==
    \A i, j \in DOMAIN batch[r] : batch[r][i].id = batch[r][j].id => i = j

\* It holds a row as the table has it; only the row the call works on has
\* moved on.
BatchFresh(r) ==
    \A i \in DOMAIN batch[r] :
        batch[r][i].id \in Alone =>
            /\ batch[r][i].retry = retry[batch[r][i].id]
            /\ i > 1 \/ point[r] = "claim" => status[batch[r][i].id] = "PENDING"

\* That row has been broadcast once more than it records, or not yet.
InHand(r) ==
    point[r] # "idle" /\ Current(r).id \in Alone =>
        LET e == Current(r).id
        IN  /\ status[e] # "NONE" /\ retry[e] < MaxRetry
            /\ delivered[e] <= retry[e] + 1
            /\ point[r] \in {"claim", "handle"} => delivered[e] <= retry[e]
            /\ point[r] \in {"handle", "finish"} => status[e] = "PROCESSING"

\* An event that two calls hold is a shared one.
Apart ==
    \A q, r \in Poller : q # r =>
        \A i \in DOMAIN batch[q], j \in DOMAIN batch[r] :
            batch[q][i].id = batch[r][j].id => batch[q][i].id \in shared

BoundInv ==
    /\ Tried /\ Apart
    /\ \A r \in Poller : BatchOnce(r) /\ BatchFresh(r) /\ InHand(r)

\* What Current and NextRow do to the batch, place by place.
LEMMA BatchRows ==
  ASSUME ObTypeOK, NEW r \in Poller
  PROVE  /\ \A i \in DOMAIN batch[r] :
               /\ i \in Nat \ {0}
               /\ batch[r][i].id \in Event /\ batch[r][i].retry \in Nat
         /\ point[r] # "idle" => 1 \in DOMAIN batch[r] /\ Current(r) = batch[r][1]
<1> DEFINE Row == [id : Event, retry : Nat]
<1>1. batch[r] \in Seq(Row)
  BY DEF ObTypeOK
<1> HIDE DEF Row
<1>2. /\ DOMAIN batch[r] = 1..Len(batch[r]) /\ Len(batch[r]) \in Nat
      /\ \A i \in DOMAIN batch[r] : batch[r][i] \in Row
  BY <1>1, LenProperties, ElementOfSeq
<1>3. point[r] # "idle" => batch[r] # << >>
  BY DEF ObTypeOK
<1>4. batch[r] # << >> => Len(batch[r]) # 0
  BY <1>1, EmptySeq
<1>5. Head(batch[r]) = batch[r][1]
  BY DEF Head
<1> QED BY <1>2, <1>3, <1>4, <1>5 DEF Row, Current

LEMMA Shifted ==
  ASSUME ObTypeOK, NEW r \in Poller, point[r] # "idle", NextRow(r)
  PROVE  /\ \A i \in DOMAIN batch'[r] :
               i \in Int /\ i + 1 \in DOMAIN batch[r] /\ i + 1 > 1 /\ batch'[r][i] = batch[r][i + 1]
         /\ point'[r] \in {"idle", "claim"}
         /\ point'[r] = "claim" => 2 \in DOMAIN batch[r] /\ Current(r)' = batch[r][2]
         /\ \A q \in Poller \ {r} : batch'[q] = batch[q] /\ point'[q] = point[q]
<1> DEFINE Row == [id : Event, retry : Nat]
<1>1. batch[r] \in Seq(Row) /\ batch[r] # << >>
  BY DEF ObTypeOK
<1> HIDE DEF Row
<1>2. /\ Len(batch[r]) \in Nat \ {0}
      /\ DOMAIN batch[r] = 1..Len(batch[r])
      /\ Tail(batch[r]) \in Seq(Row)
      /\ Len(Tail(batch[r])) = Len(batch[r]) - 1
      /\ DOMAIN Tail(batch[r]) = 1..(Len(batch[r]) - 1)
      /\ \A i \in 1..(Len(batch[r]) - 1) : Tail(batch[r])[i] = batch[r][i + 1]
  BY <1>1, HeadTailProperties, EmptySeq, LenProperties
<1>3. batch'[r] = Tail(batch[r])
  BY DEF NextRow, ObTypeOK
<1>4. point'[r] = IF Len(batch[r]) = 1 THEN "idle" ELSE "claim"
  BY DEF NextRow, ObTypeOK
<1>5. ASSUME NEW i \in DOMAIN batch'[r]
      PROVE  /\ i \in Int /\ i + 1 \in DOMAIN batch[r] /\ i + 1 > 1
             /\ batch'[r][i] = batch[r][i + 1]
  BY <1>2, <1>3, <1>5
<1>6. ASSUME point'[r] = "claim"
      PROVE  2 \in DOMAIN batch[r] /\ Current(r)' = batch[r][2]
  <2>1. 1 \in 1..(Len(batch[r]) - 1)
    <3>1. Len(batch[r]) # 1
      BY <1>4, <1>6
    <3>2. \A n \in Nat \ {0} : n # 1 => 1 \in 1..(n - 1)
      OBVIOUS
    <3> QED BY <1>2, <3>1, <3>2
  <2>2. Tail(batch[r])[1] = batch[r][2]
    BY <1>2, <2>1
  <2>3. Current(r)' = batch'[r][1]
    BY DEF Current, Head
  <2> QED BY <1>2, <1>3, <2>1, <2>2, <2>3
<1>7. \A q \in Poller \ {r} : batch'[q] = batch[q] /\ point'[q] = point[q]
  BY DEF NextRow, ObTypeOK
<1> QED BY <1>4, <1>5, <1>6, <1>7

\* A step of r that writes no row but the one r has in hand: the other calls
\* keep what they know, for a row they hold as well is a shared one.
LEMMA OthersKept ==
  ASSUME NEW r \in Poller, NEW q \in Poller \ {r},
         ObTypeOK, BoundInv, point[r] # "idle", shared' = shared,
         \A f \in Event \ {Current(r).id} :
            status'[f] = status[f] /\ retry'[f] = retry[f] /\ delivered'[f] = delivered[f],
         batch'[q] = batch[q], point'[q] = point[q]
  PROVE  BatchOnce(q)' /\ BatchFresh(q)' /\ InHand(q)'
<1>1. 1 \in DOMAIN batch[r] /\ Current(r) = batch[r][1]
  BY BatchRows
<1>2. ASSUME NEW i \in DOMAIN batch[q], batch[q][i].id \in Alone
      PROVE  LET f == batch[q][i].id
             IN  /\ f \in Event
                 /\ status'[f] = status[f] /\ retry'[f] = retry[f] /\ delivered'[f] = delivered[f]
  <2>1. batch[q][i].id # Current(r).id
    BY <1>1, <1>2 DEF BoundInv, Apart, Alone
  <2> QED BY <1>2, <2>1 DEF Alone
<1>3. BatchOnce(q)'
  BY DEF BoundInv, BatchOnce
<1>4. BatchFresh(q)'
  BY <1>2 DEF BoundInv, BatchFresh, Alone
<1>5. InHand(q)'
  <2>1. Current(q)' = Current(q)
    BY DEF Current
  <2>2. point[q] # "idle" => 1 \in DOMAIN batch[q] /\ Current(q) = batch[q][1]
    BY BatchRows
  <2>3. Alone' = Alone
    BY DEF Alone
  <2>4. ASSUME point[q] # "idle", Current(q).id \in Alone
        PROVE  LET f == Current(q).id
               IN  status'[f] = status[f] /\ retry'[f] = retry[f] /\ delivered'[f] = delivered[f]
    BY <1>2, <2>2, <2>4
  <2> QED BY <2>1, <2>3, <2>4 DEF BoundInv, InHand
<1> QED BY <1>3, <1>4, <1>5

\* Going on to the next row, when only the row in hand was written.
LEMMA OnToNext ==
  ASSUME ObTypeOK, ObTypeOK', BoundInv, NEW r \in Poller, point[r] # "idle", NextRow(r),
         Tried', shared' = shared, delivered' = delivered,
         \A f \in Event \ {Current(r).id} : status'[f] = status[f] /\ retry'[f] = retry[f]
  PROVE  BoundInv'
<1> USE DEF BoundInv
<1>1. 1 \in DOMAIN batch[r] /\ Current(r) = batch[r][1]
  BY BatchRows
<1>2. ASSUME NEW i \in DOMAIN batch[r], i > 1, batch[r][i].id \in Alone
      PROVE  /\ status'[batch[r][i].id] = "PENDING"
             /\ retry'[batch[r][i].id] = batch[r][i].retry
  <2>1. batch[r][i].id # Current(r).id
    BY <1>1, <1>2 DEF BatchOnce
  <2>2. status[batch[r][i].id] = "PENDING" /\ retry[batch[r][i].id] = batch[r][i].retry
    BY <1>2 DEF BatchFresh
  <2> QED BY <1>2, <2>1, <2>2 DEF Alone
<1>3. \A i \in DOMAIN batch'[r] :
         i \in Int /\ i + 1 \in DOMAIN batch[r] /\ i + 1 > 1 /\ batch'[r][i] = batch[r][i + 1]
  BY Shifted
<1>4. BatchOnce(r)'
  <2>1. SUFFICES ASSUME NEW i \in DOMAIN batch'[r], NEW j \in DOMAIN batch'[r],
                        batch'[r][i].id = batch'[r][j].id
                 PROVE  i = j
    BY DEF BatchOnce
  <2>2. i + 1 = j + 1
    BY <1>3, <2>1 DEF BatchOnce
  <2>3. i \in Int /\ j \in Int
    BY <1>3
  <2> QED BY <2>2, <2>3
<1>5. BatchFresh(r)'
  BY <1>2, <1>3 DEF BatchFresh, Alone
<1>6. InHand(r)'
  <2>1. SUFFICES ASSUME point'[r] # "idle", Current(r)'.id \in Alone
                 PROVE  InHand(r)'
    BY DEF InHand, Alone
  <2>2. 2 \in DOMAIN batch[r] /\ Current(r)' = batch[r][2] /\ point'[r] = "claim"
    BY <2>1, Shifted
  <2>3. Current(r)'.id \in Event /\ status'[Current(r)'.id] = "PENDING"
    BY <1>2, <2>1, <2>2 DEF Alone
  <2>4. delivered'[Current(r)'.id] <= retry'[Current(r)'.id] /\ retry'[Current(r)'.id] < MaxRetry
    BY <2>1, <2>3 DEF Tried, Alone
  <2>5. retry'[Current(r)'.id] \in Int /\ delivered'[Current(r)'.id] \in Int
    BY <2>3 DEF ObTypeOK
  <2> QED BY <2>2, <2>3, <2>4, <2>5 DEF InHand
<1>7. \A q \in Poller \ {r} : batch'[q] = batch[q] /\ point'[q] = point[q]
  BY Shifted
<1>8. ASSUME NEW q \in Poller \ {r} PROVE BatchOnce(q)' /\ BatchFresh(q)' /\ InHand(q)'
  BY <1>7, OthersKept
<1>9. Apart'
  <2>1. \A q \in Poller : \A i \in DOMAIN batch'[q] :
           \E k \in DOMAIN batch[q] : batch'[q][i] = batch[q][k]
    BY <1>3, <1>7
  <2> QED BY <2>1 DEF Apart
<1> QED BY <1>4, <1>5, <1>6, <1>8, <1>9

\* Staying with the row, when only that row was written.
LEMMA OnTheRow ==
  ASSUME ObTypeOK, BoundInv, NEW r \in Poller, point[r] # "idle", point'[r] # "claim",
         batch' = batch, shared' = shared, retry' = retry,
         \A q \in Poller \ {r} : point'[q] = point[q],
         \A f \in Event \ {Current(r).id} :
            status'[f] = status[f] /\ delivered'[f] = delivered[f],
         Tried', InHand(r)'
  PROVE  BoundInv'
<1>1. 1 \in DOMAIN batch[r] /\ Current(r) = batch[r][1]
  BY BatchRows
<1>2. ASSUME NEW i \in DOMAIN batch[r], i > 1, batch[r][i].id \in Alone
      PROVE  status'[batch[r][i].id] = "PENDING"
  <2>1. batch[r][i].id # Current(r).id
    BY <1>1, <1>2 DEF BoundInv, BatchOnce
  <2> QED BY <1>2, <2>1 DEF BoundInv, BatchFresh, Alone
<1>3. BatchFresh(r)'
  BY <1>2 DEF BoundInv, BatchFresh, Alone
<1>4. BatchOnce(r)' /\ Apart'
  BY DEF BoundInv, BatchOnce, Apart
<1>5. ASSUME NEW q \in Poller \ {r} PROVE BatchOnce(q)' /\ BatchFresh(q)' /\ InHand(q)'
  BY OthersKept
<1> QED BY <1>3, <1>4, <1>5 DEF BoundInv

\* Every step keeps the bound.
LEMMA BoundStep ==
  ASSUME ObTypeOK, ObTypeOK', BoundInv, [ObNext]_obVars
  PROVE  BoundInv'
<1>1. CASE UNCHANGED obVars
  BY <1>1 DEF obVars, BoundInv, Tried, Apart, BatchOnce, BatchFresh, InHand, Current, Alone
<1>2. ASSUME NEW e \in Event, Enqueue(e) PROVE BoundInv'
  <2>1. status' = [status EXCEPT ![e] = "PENDING"] /\ status[e] = "NONE"
    BY <1>2 DEF Enqueue
  <2>2. UNCHANGED <<retry, batch, point, delivered, shared>>
    BY <1>2 DEF Enqueue
  <2>3. Tried'
    BY <2>1, <2>2, OutboxAssumption DEF BoundInv, Tried, ObTypeOK, Alone
  <2>4. ASSUME NEW r \in Poller PROVE BatchFresh(r)'
    <3>1. \A f \in Event : status[f] = "PENDING" => status'[f] = "PENDING"
      BY <2>1 DEF ObTypeOK
    <3>2. BatchFresh(r)
      BY DEF BoundInv
    <3> QED BY <2>2, <3>1, <3>2 DEF BatchFresh, Alone
  <2>5. ASSUME NEW r \in Poller PROVE InHand(r)'
    <3>1. CASE point[r] = "idle" \/ Current(r).id \notin Alone
      BY <2>2, <3>1 DEF InHand, Current, Alone
    <3>2. CASE point[r] # "idle" /\ Current(r).id \in Alone
      <4>1. Current(r).id \in Event /\ status[Current(r).id] # "NONE"
        BY <3>2, CurrentType DEF BoundInv, InHand
      <4>2. Current(r)' = Current(r)
        BY <2>2 DEF Current
      <4>3. status'[Current(r).id] = status[Current(r).id]
        BY <2>1, <4>1 DEF ObTypeOK
      <4> QED BY <2>1, <2>2, <4>1, <4>2, <4>3 DEF BoundInv, InHand, Alone
    <3> QED BY <3>1, <3>2
  <2>6. Apart' /\ \A r \in Poller : BatchOnce(r)'
    BY <2>2 DEF BoundInv, Apart, BatchOnce
  <2> QED BY <2>3, <2>4, <2>5, <2>6 DEF BoundInv
<1>3. ASSUME NEW r \in Poller, Poll(r) PROVE BoundInv'
  <2>1. PICK n \in 1..BatchSize : \E s \in [1..n -> Due] :
           /\ OldestDue(s)
           /\ batch' = [batch EXCEPT ![r] =
                           [i \in 1..n |-> [id |-> s[i], retry |-> retry[s[i]]]]]
           /\ shared' = shared \cup {s[i] : i \in {i \in 1..n : HeldByOther(r, s[i])}}
    BY <1>3 DEF Poll
  <2>2. PICK s \in [1..n -> Due] :
           /\ OldestDue(s)
           /\ batch' = [batch EXCEPT ![r] =
                           [i \in 1..n |-> [id |-> s[i], retry |-> retry[s[i]]]]]
           /\ shared' = shared \cup {s[i] : i \in {i \in 1..n : HeldByOther(r, s[i])}}
    BY <2>1
  <2>3. /\ batch'[r] = [i \in 1..n |-> [id |-> s[i], retry |-> retry[s[i]]]]
        /\ point'[r] = "claim" /\ UNCHANGED <<status, retry, delivered>>
        /\ \A q \in Poller \ {r} : batch'[q] = batch[q] /\ point'[q] = point[q]
    BY <1>3, <2>2 DEF Poll, ObTypeOK
  <2>4. /\ DOMAIN batch'[r] = 1..n
        /\ \A i \in 1..n : batch'[r][i].id = s[i] /\ batch'[r][i].retry = retry[s[i]]
    BY <2>3
  <2>5. \A i \in 1..n : s[i] \in Event /\ status[s[i]] = "PENDING"
    BY DEF Due
  <2>6. \A i, j \in 1..n : s[i] = s[j] => i = j
    <3>1. \A i, j \in 1..n : i < j => createdAt[s[i]] < createdAt[s[j]]
      BY <2>2 DEF OldestDue
    <3>2. \A i \in 1..n : createdAt[s[i]] \in Int
      BY <2>5 DEF ObTypeOK
    <3>3. n \in Int
      BY OutboxAssumption
    <3> QED BY <3>1, <3>2, <3>3
  <2>7. BatchOnce(r)' /\ BatchFresh(r)'
    BY <2>3, <2>4, <2>5, <2>6 DEF BatchOnce, BatchFresh
  <2>8. Alone' \subseteq Alone
    BY <2>2 DEF Alone
  <2>9. Tried'
    BY <2>3, <2>8 DEF BoundInv, Tried
  <2>10. InHand(r)'
    <3>1. 1 \in 1..n /\ Current(r)' = batch'[r][1]
      BY OutboxAssumption DEF Current, Head
    <3>2. Current(r)'.id = s[1] /\ s[1] \in Event /\ status[s[1]] = "PENDING"
      BY <2>4, <2>5, <3>1
    <3>3. s[1] \in Alone' => delivered[s[1]] <= retry[s[1]] /\ retry[s[1]] < MaxRetry
      BY <3>2, <2>8 DEF BoundInv, Tried
    <3>4. delivered[s[1]] \in Int /\ retry[s[1]] \in Int
      BY <3>2 DEF ObTypeOK
    <3> QED BY <2>3, <3>2, <3>3, <3>4 DEF InHand
  <2>11. ASSUME NEW q \in Poller \ {r} PROVE BatchOnce(q)' /\ BatchFresh(q)' /\ InHand(q)'
    <3>1. Current(q)' = Current(q)
      BY <2>3 DEF Current
    <3>2. BatchOnce(q)'
      BY <2>3 DEF BoundInv, BatchOnce
    <3>3. BatchFresh(q)'
      BY <2>3, <2>8 DEF BoundInv, BatchFresh
    <3>4. InHand(q)'
      BY <2>3, <2>8, <3>1 DEF BoundInv, InHand
    <3> QED BY <3>2, <3>3, <3>4
  <2>12. \A q \in Poller \ {r} : \A i \in DOMAIN batch'[q], j \in DOMAIN batch'[r] :
            batch'[q][i].id = batch'[r][j].id => batch'[q][i].id \in shared'
    <3>1. SUFFICES ASSUME NEW q \in Poller \ {r}, NEW i \in DOMAIN batch'[q],
                          NEW j \in 1..n, batch'[q][i].id = s[j]
                   PROVE  s[j] \in shared'
      BY <2>4
    <3>2. HeldByOther(r, s[j])
      BY <2>3, <3>1 DEF HeldByOther
    <3> QED BY <2>2, <3>2
  <2>13. Apart'
    <3>1. ASSUME NEW p \in Poller, NEW q \in Poller, p # q,
                 NEW i \in DOMAIN batch'[p], NEW j \in DOMAIN batch'[q],
                 batch'[p][i].id = batch'[q][j].id
          PROVE  batch'[p][i].id \in shared'
      <4>1. CASE p = r
        BY <2>12, <3>1, <4>1
      <4>2. CASE q = r
        BY <2>12, <3>1, <4>2
      <4>3. CASE p # r /\ q # r
        <5>1. batch[p][i].id \in shared
          BY <2>3, <3>1, <4>3 DEF BoundInv, Apart
        <5> QED BY <2>2, <2>3, <4>3, <5>1
      <4> QED BY <4>1, <4>2, <4>3
    <3> QED BY <3>1 DEF Apart
  <2> QED BY <2>7, <2>9, <2>10, <2>11, <2>13 DEF BoundInv
<1>4. ASSUME NEW r \in Poller, Claim(r) PROVE BoundInv'
  <2>1. /\ point[r] = "claim" /\ point'[r] = "handle"
        /\ status' = [status EXCEPT ![Current(r).id] = "PROCESSING"]
        /\ UNCHANGED <<retry, batch, delivered, shared>>
        /\ \A q \in Poller \ {r} : point'[q] = point[q]
    BY <1>4 DEF Claim, ClaimedStatus, ObTypeOK
  <2>2. Current(r).id \in Event /\ Current(r)' = Current(r)
    BY <2>1, CurrentType DEF Current
  <2>3. Tried'
    BY <2>1 DEF BoundInv, Tried, ObTypeOK, Alone
  <2>4. InHand(r)'
    BY <2>1, <2>2 DEF BoundInv, InHand, ObTypeOK, Alone
  <2>5. \A f \in Event \ {Current(r).id} : status'[f] = status[f] /\ delivered'[f] = delivered[f]
    BY <2>1 DEF ObTypeOK
  <2> QED BY <2>1, <2>3, <2>4, <2>5, OnTheRow
<1>5. ASSUME NEW r \in Poller, Handle(r) PROVE BoundInv'
  <2> DEFINE e == Current(r).id
  <2>1. /\ point[r] = "handle" /\ point'[r] = "finish"
        /\ delivered' = [delivered EXCEPT ![e] = IF @ > MaxRetry THEN @ ELSE @ + 1]
        /\ UNCHANGED <<retry, batch, status, shared>>
        /\ \A q \in Poller \ {r} : point'[q] = point[q]
    BY <1>5 DEF Handle, ObTypeOK
  <2>2. e \in Event /\ Current(r)' = Current(r)
    BY <2>1, CurrentType DEF Current
  <2>3. e \in Alone => status[e] = "PROCESSING" /\ delivered[e] <= retry[e] /\ retry[e] < MaxRetry
    BY <2>1 DEF BoundInv, InHand
  <2>4. Current(r)'.id = e
    BY <2>2
  <2> HIDE DEF e
  <2>5. delivered[e] \in Int /\ retry[e] \in Int /\ MaxRetry \in Int
    BY <2>2, OutboxAssumption DEF ObTypeOK
  <2>6. /\ e \in Alone => delivered'[e] = delivered[e] + 1
        /\ \A f \in Event \ {e} : delivered'[f] = delivered[f]
    BY <2>1, <2>2, <2>3, <2>5 DEF ObTypeOK
  <2>7. ASSUME NEW f \in Alone
        PROVE  /\ status'[f] = "NONE" => delivered'[f] = 0 /\ retry'[f] = 0
               /\ status'[f] = "PENDING" => delivered'[f] <= retry'[f] /\ retry'[f] < MaxRetry
               /\ delivered'[f] <= MaxRetry
    <3>1. CASE f = e
      BY <2>1, <2>3, <2>5, <2>6, <3>1
    <3>2. CASE f # e
      BY <2>1, <2>6, <3>2 DEF BoundInv, Tried, Alone
    <3> QED BY <3>1, <3>2
  <2>8. Alone' = Alone
    BY <2>1 DEF Alone
  <2>9. Tried'
    BY <2>7, <2>8 DEF Tried
  <2>10. InHand(r)'
    <3>1. e \in Alone => delivered'[e] <= retry'[e] + 1 /\ retry'[e] < MaxRetry
                         /\ status'[e] = "PROCESSING"
      BY <2>1, <2>3, <2>5, <2>6
    <3> QED BY <2>1, <2>4, <2>8, <3>1 DEF InHand
  <2>11. \A f \in Event \ {Current(r).id} : status'[f] = status[f] /\ delivered'[f] = delivered[f]
    BY <2>1, <2>6 DEF e
  <2> QED BY <2>1, <2>9, <2>10, <2>11, OnTheRow
<1>6. ASSUME NEW r \in Poller, Finish(r) PROVE BoundInv'
  <2>1. /\ point[r] = "finish" /\ NextRow(r)
        /\ status' = [status EXCEPT ![Current(r).id] = "DONE"]
        /\ UNCHANGED <<retry, delivered, shared>>
    BY <1>6 DEF Finish
  <2>2. Tried'
    BY <2>1 DEF BoundInv, Tried, ObTypeOK, Alone
  <2>3. \A f \in Event \ {Current(r).id} : status'[f] = status[f] /\ retry'[f] = retry[f]
    BY <2>1 DEF ObTypeOK
  <2> QED BY <2>1, <2>2, <2>3, OnToNext
<1>7. ASSUME NEW r \in Poller, UpdateError(r) PROVE BoundInv'
  <2> DEFINE e == Current(r).id
  <2>1. /\ point[r] \in {"claim", "finish"} /\ point'[r] = "failed"
        /\ UNCHANGED <<retry, batch, delivered, shared>>
        /\ \A q \in Poller \ {r} : point'[q] = point[q]
    BY <1>7 DEF UpdateError, ObTypeOK
  <2>2. e \in Event /\ Current(r)' = Current(r)
    BY <2>1, CurrentType DEF Current
  <2>3. /\ \A f \in Event \ {e} : status'[f] = status[f]
        /\ status'[e] \in {status[e], "PROCESSING", "DONE"}
    BY <1>7, <2>2 DEF UpdateError, ClaimedStatus, ObTypeOK
  <2>4. \A f \in Event : status'[f] = status[f] \/ status'[f] \in {"PROCESSING", "DONE"}
    BY <2>3
  <2>5. Tried'
    BY <2>1, <2>4 DEF BoundInv, Tried, Alone
  <2>6. e \in Alone => status[e] # "NONE" /\ retry[e] < MaxRetry /\ delivered[e] <= retry[e] + 1
    BY <2>1 DEF BoundInv, InHand
  <2>7. e \in Alone => status'[e] # "NONE"
    BY <2>3, <2>6
  <2>8. InHand(r)'
    BY <2>1, <2>2, <2>6, <2>7 DEF InHand, Alone
  <2>9. \A f \in Event \ {Current(r).id} : status'[f] = status[f] /\ delivered'[f] = delivered[f]
    BY <2>1, <2>3
  <2> QED BY <2>1, <2>5, <2>8, <2>9, OnTheRow
<1>8. ASSUME NEW r \in Poller, RecordFailure(r) PROVE BoundInv'
  <2> DEFINE e == Current(r).id
  <2>1. point[r] = "failed" /\ NextRow(r) /\ UNCHANGED <<delivered, shared>>
    BY <1>8 DEF RecordFailure
  <2>2. e \in Event /\ 1 \in DOMAIN batch[r] /\ Current(r) = batch[r][1]
    BY <2>1, CurrentType, BatchRows
  <2>3. e \in Alone => FailureCount(r) = retry[e] + 1
    BY <2>2 DEF FailureCount, BoundInv, BatchFresh
  <2>4. /\ retry' = [retry EXCEPT ![e] = FailureCount(r)]
        /\ status' = [status EXCEPT ![e] = IF GiveUp(FailureCount(r)) THEN "FAILED"
                                                                      ELSE "PENDING"]
    BY <1>8 DEF RecordFailure
  <2>5. e \in Alone => retry[e] < MaxRetry /\ delivered[e] <= retry[e] + 1
    BY <2>1 DEF BoundInv, InHand
  <2> HIDE DEF e
  <2>6. /\ e \in Alone => retry'[e] = retry[e] + 1
        /\ status'[e] = IF GiveUp(FailureCount(r)) THEN "FAILED" ELSE "PENDING"
        /\ \A f \in Event \ {e} : retry'[f] = retry[f] /\ status'[f] = status[f]
    BY <2>2, <2>3, <2>4 DEF ObTypeOK
  <2>7. delivered[e] \in Int /\ retry[e] \in Int /\ MaxRetry \in Int
    BY <2>2, OutboxAssumption DEF ObTypeOK
  <2>8. ASSUME NEW f \in Alone
        PROVE  /\ status'[f] = "NONE" => delivered'[f] = 0 /\ retry'[f] = 0
               /\ status'[f] = "PENDING" => delivered'[f] <= retry'[f] /\ retry'[f] < MaxRetry
               /\ delivered'[f] <= MaxRetry
    <3>1. CASE f = e
      <4>1. status'[e] # "NONE"
        BY <2>6
      <4>2. status'[e] = "PENDING" => retry[e] + 1 < MaxRetry
        BY <2>3, <2>6, <2>7, <3>1 DEF GiveUp
      <4>3. delivered'[e] <= retry'[e] /\ delivered'[e] <= MaxRetry
        BY <2>1, <2>5, <2>6, <2>7, <3>1
      <4> QED BY <2>6, <3>1, <4>1, <4>2, <4>3
    <3>2. CASE f # e
      BY <2>1, <2>6, <3>2 DEF BoundInv, Tried, Alone
    <3> QED BY <3>1, <3>2
  <2>9. Tried'
    <3>1. Alone' = Alone
      BY <2>1 DEF Alone
    <3> QED BY <2>8, <3>1 DEF Tried
  <2>10. \A f \in Event \ {Current(r).id} : status'[f] = status[f] /\ retry'[f] = retry[f]
    BY <2>6 DEF e
  <2> QED BY <2>1, <2>9, <2>10, OnToNext
<1>9. ASSUME NEW r \in Poller, LoseFailure(r) PROVE BoundInv'
  <2>1. point[r] = "failed" /\ NextRow(r) /\ UNCHANGED <<status, retry, delivered, shared>>
    BY <1>9 DEF LoseFailure
  <2>2. Tried'
    BY <2>1 DEF BoundInv, Tried, Alone
  <2> QED BY <2>1, <2>2, OnToNext
<1>10. CASE Crash
  <2>1. /\ UNCHANGED <<status, retry, delivered, shared>>
        /\ \A r \in Poller : point'[r] = "idle" /\ batch'[r] = << >>
    BY <1>10 DEF Crash
  <2> QED BY <2>1 DEF BoundInv, Tried, Apart, BatchOnce, BatchFresh, InHand, Alone
<1> QED
  BY <1>1, <1>2, <1>3, <1>4, <1>5, <1>6, <1>7, <1>8, <1>9, <1>10 DEF ObNext, Step

\* An event is broadcast at most MaxRetry times, whatever updates fail and
\* wherever the process stops, for any number of calls of processOnce in
\* flight together, unless two of them have had the event in hand at once
\* (outbox.js, "retry at most 5 times", and the timer that starts a call every
\* ten seconds).
THEOREM BroadcastBounded == ObSpec => []DeliveriesBounded
<1>1. ObInit => BoundInv
  BY OutboxAssumption
     DEF ObInit, BoundInv, Tried, Apart, BatchOnce, BatchFresh, InHand, Alone
<1>2. ObTypeOK /\ ObTypeOK' /\ BoundInv /\ [ObNext]_obVars => BoundInv'
  BY BoundStep
<1>3. BoundInv => DeliveriesBounded
  BY DEF BoundInv, Tried, DeliveriesBounded, Alone
<1> QED BY <1>1, <1>2, <1>3, OutboxTyped, PTL DEF ObSpec

-----------------------------------------------------------------------------
(* Shipment.                                                               *)

Via == {"none", "scale", "manager", "sync", "EDIT", "CANCEL"}
Resting == {"idle", "next"}

\* The part of TypeOK about the workers.
WorkerOK ==
    /\ pc \in [Worker -> Steps]
    /\ at \in [Worker -> Bill \cup {NoBill}]
    /\ via \in [Worker -> Via]
    /\ todo \in [Run -> SUBSET Bill]
    /\ \A w \in Worker : at[w] = NoBill <=> pc[w] \in Resting

\* The ticket and the weigh-out are written together.
Weighed == \A b \in Bill : tickets[b] = IF b \in weighedOut THEN 1 ELSE 0

\* The event is written with them.
Announced == \A b \in weighedOut : outbox[b] # "none"

\* What has left with its truck, and what WinSpeed has invoiced.
Gone == weighedOut \cup invoiced

\* A worker is past the rebate only when it is booked, past the audit row only
\* when there is one, and recovers only what has gone.
InOrder ==
    \A w \in Worker :
        /\ pc[w] \in Recovery => at[w] \in Gone
        /\ pc[w] \in {"audit", "note", "deliver"} => rows[at[w]] > 0
        /\ pc[w] = "deliver" => audits[at[w]] > 0

Sound ==
    /\ Weighed /\ OneAccrual /\ AccrualOnlyWhenShipped /\ Announced
    /\ InOrder
    /\ AnsweredIsComplete
    /\ OnlyFailureLosesWork

IInv == TypeOK /\ Sound

-----------------------------------------------------------------------------
(* Where a worker goes.                                                      *)

LEMMA GoOK ==
  ASSUME TypeOK, NEW w \in Worker, NEW step \in Steps,
         NEW b \in Bill \cup {NoBill}, NEW how \in Via,
         b = NoBill <=> step \in Resting,
         Go(w, step, b, how)
  PROVE  WorkerOK'
  BY DEF TypeOK, WorkerOK, Go, Via, Resting

LEMMA RestOK ==
  ASSUME TypeOK, NEW w \in Worker, Rest(w)
  PROVE  WorkerOK'
<1>1. Go(w, IF w \in Run THEN "next" ELSE "idle", NoBill, "none")
  BY DEF Rest
<1> QED BY <1>1, GoOK DEF Resting, Steps, Via

LEMMA ThenOK ==
  ASSUME TypeOK, NEW w \in Worker, NEW step \in Steps \ Resting,
         at[w] \in Bill, Then(w, step)
  PROVE  WorkerOK'
<1>1. at[w] # NoBill /\ via[w] \in Via
  BY ShipmentAssumption DEF TypeOK, Via
<1> QED BY <1>1, GoOK DEF Then

LEMMA InitOK == Init => IInv
  BY ShipmentAssumption DEF Init, IInv, Sound, TypeOK, Weighed, OneAccrual,
     AccrualOnlyWhenShipped, Announced, InOrder, AnsweredIsComplete,
     OnlyFailureLosesWork, Steps, Recovery, Gone

-----------------------------------------------------------------------------
LEMMA TypeStep == TypeOK /\ [Next]_vars => TypeOK'
<1> SUFFICES ASSUME TypeOK, [Next]_vars
             PROVE  TypeOK'
  OBVIOUS
<1> USE DEF board, work, worker, world, log
<1>1. ASSUME NEW b \in Bill, Counter(b)
      PROVE  TypeOK'
  <2>1. CASE StartPicking(b) \/ Load(b) \/ StopPicking(b) \/ ApproveEdit(b) \/ Relock(b)
    BY <2>1 DEF StartPicking, Load, StopPicking, ApproveEdit, Relock, TypeOK
  <2>2. CASE Weigh(b)
    <3>1. Cardinality({c \in Bill : Scaled(c)}) \in Nat
      BY ShipmentAssumption, FS_Subset, FS_CardinalityType
    <3> QED BY <2>2, <3>1 DEF Weigh, TypeOK
  <2>3. CASE Invoice(b) \/ DeliverEvent(b)
    BY <2>3 DEF Invoice, DeliverEvent, TypeOK
  <2> QED BY <1>1, <2>1, <2>2, <2>3 DEF Counter
<1>2. CASE PlanLoad \/ AckLoad
  BY <1>2 DEF PlanLoad, AckLoad, TypeOK
<1>3. ASSUME NEW w \in Desk, NEW b \in Bill, Ask(w, b)
      PROVE  TypeOK'
  <2>1. b # NoBill
    BY ShipmentAssumption
  <2>2. ASSUME NEW step \in {"ledger", "commit", "cancel", "reverse"}, NEW how \in Via,
               Go(w, step, b, how)
        PROVE  WorkerOK'
    BY <2>1, <2>2, GoOK DEF Steps, Resting, Worker
  <2>3. WorkerOK'
    <3>1. CASE AskShip(w, b)
      BY <2>2, <3>1 DEF AskShip, RecoverFrom, Via
    <3>2. CASE AskCancel(w, b)
      BY <2>2, <3>2 DEF AskCancel, Via
    <3>3. CASE ApproveRequest(w, b)
      BY <2>2, <3>3 DEF ApproveRequest, Via
    <3> QED BY <1>3, <3>1, <3>2, <3>3 DEF Ask
  <2> QED BY <1>3, <2>3 DEF Ask, AskShip, AskCancel, ApproveRequest, TypeOK, WorkerOK, Via, Resting
<1>4. ASSUME NEW w \in Worker, Proceed(w)
      PROVE  TypeOK'
  <2> DEFINE Onward == \E step \in Steps \ Resting : Then(w, step)
  <2>1. Onward /\ at[w] \in Bill => WorkerOK'
    BY ThenOK
  <2>2. Rest(w) => WorkerOK'
    BY RestOK
  <2>3. CASE WeighOut(w)
    <3>1. WorkerOK'
      BY <2>1, <2>3 DEF WeighOut, At, AfterCommit, Steps, Resting
    <3> QED BY <2>3, <3>1 DEF WeighOut, At, TypeOK, WorkerOK, Via, Resting
  <2>4. CASE FindShipped(w) \/ Refuse(w)
    <3>1. WorkerOK'
      BY <2>1, <2>2, <2>4 DEF FindShipped, Refuse, At, Steps, Resting
    <3> QED BY <2>4, <3>1 DEF FindShipped, Refuse, TypeOK, WorkerOK, Via, Resting
  <2>5. CASE SeeLedger(w) \/ Book(w) \/ SeeAudit(w) \/ NoteAudit(w)
    <3>1. WorkerOK'
      BY <2>1, <2>5 DEF SeeLedger, Book, SeeAudit, NoteAudit, At, Steps, Resting
    <3> QED BY <2>5, <3>1 DEF SeeLedger, Book, SeeAudit, NoteAudit, At,
                              TypeOK, WorkerOK, Via, Resting
  <2>6. CASE Deliver(w)
    <3>1. WorkerOK'
      BY <2>2, <2>6 DEF Deliver
    <3> QED BY <2>6, <3>1 DEF Deliver, At, TypeOK, WorkerOK, Via, Resting
  <2>7. CASE Reverse(w) \/ Cancel(w) \/ Unpick(w) \/ Unlock(w)
    <3>1. WorkerOK'
      BY <2>1, <2>2, <2>7 DEF Reverse, Cancel, Unpick, Unlock, At, Steps, Resting
    <3> QED BY <2>7, <3>1 DEF Reverse, Cancel, ReverseAccrual, Unpick, Unlock, At,
                              TypeOK, WorkerOK, Via, Resting
  <2> QED BY <1>4, <2>3, <2>4, <2>5, <2>6, <2>7 DEF Proceed
<1>5. ASSUME NEW r \in Run, StartRun(r) \/ NextOfRun(r) \/ EndRun(r)
      PROVE  TypeOK'
  <2>1. r \in Worker /\ NoBill \notin Bill
    BY ShipmentAssumption DEF Worker
  <2>2. CASE StartRun(r)
    BY <2>1, <2>2 DEF StartRun, Listed, TypeOK, Steps
  <2>3. CASE NextOfRun(r)
    BY <2>1, <2>3 DEF NextOfRun, TypeOK, Steps
  <2>4. CASE EndRun(r)
    <3>1. WorkerOK'
      BY <2>1, <2>4, GoOK DEF EndRun, Steps, Via, Resting
    <3> QED BY <2>4, <3>1 DEF EndRun, TypeOK, WorkerOK, Via, Resting
  <2> QED BY <1>5, <2>2, <2>3, <2>4
<1>6. ASSUME NEW w \in Worker, Fail(w)
      PROVE  TypeOK'
  <2>1. WorkerOK'
    BY <1>6, RestOK DEF Fail
  <2>2. failures' \in 0..MaxFailures
    BY <1>6, ShipmentAssumption DEF Fail, TypeOK
  <2> QED BY <1>6, <2>1, <2>2 DEF Fail, TypeOK, WorkerOK, Via, Resting
<1>7. CASE Restart
  <2>1. failures' \in 0..MaxFailures
    BY <1>7, ShipmentAssumption DEF Restart, TypeOK
  <2> QED BY <1>7, <2>1 DEF Restart, TypeOK, Steps
<1>8. CASE UNCHANGED vars
  BY <1>8 DEF vars, TypeOK
<1> QED
  BY <1>1, <1>2, <1>3, <1>4, <1>5, <1>6, <1>7, <1>8 DEF Next, Sync, Worker

\* The types hold in every state: a request or a run has a booking exactly
\* while one of its steps is about one (the ship route, runOnce).
THEOREM ShipmentTyped == Spec => []TypeOK
<1>1. Init => TypeOK
  BY InitOK DEF IInv
<1>2. TypeOK /\ [Next]_vars => TypeOK'
  BY TypeStep
<1> QED BY <1>1, <1>2, PTL DEF Spec

-----------------------------------------------------------------------------
(* The safety invariants.                                                    *)

\* What is done for a booking is never undone, and w alone takes a step.
Grows(w) ==
    /\ Gone \subseteq Gone'
    /\ \A b \in Bill :
          /\ rows[b] > 0 => rows'[b] > 0
          /\ audits[b] > 0 => audits'[b] > 0
    /\ \A v \in Worker \ {w} : pc'[v] = pc[v] /\ at'[v] = at[v]

\* The other workers stay in order, and whoever is at a booking's work is
\* still at it.
LEMMA OthersOK ==
  ASSUME TypeOK, InOrder, NEW w \in Worker, Grows(w)
  PROVE  \A v \in Worker \ {w} :
            /\ pc'[v] \in Recovery => at'[v] \in Gone'
            /\ pc'[v] \in {"audit", "note", "deliver"} => rows'[at'[v]] > 0
            /\ pc'[v] = "deliver" => audits'[at'[v]] > 0
<1> SUFFICES ASSUME NEW v \in Worker \ {w}
             PROVE  /\ pc'[v] \in Recovery => at'[v] \in Gone'
                    /\ pc'[v] \in {"audit", "note", "deliver"} => rows'[at'[v]] > 0
                    /\ pc'[v] = "deliver" => audits'[at'[v]] > 0
  OBVIOUS
<1>1. pc[v] \in Recovery => at[v] \in Bill
  BY DEF TypeOK, InOrder, Gone
<1>2. pc[v] \in {"audit", "note", "deliver"} => pc[v] \in Recovery
  BY DEF Recovery
<1>3. pc'[v] = pc[v] /\ at'[v] = at[v]
  BY DEF Grows
<1>4. CASE pc[v] \notin Recovery
  BY <1>2, <1>3, <1>4 DEF Recovery
<1>5. CASE pc[v] \in Recovery
  <2>1. at[v] \in Gone'
    BY <1>5 DEF InOrder, Grows
  <2>2. /\ rows[at[v]] > 0 => rows'[at[v]] > 0
        /\ audits[at[v]] > 0 => audits'[at[v]] > 0
    BY <1>1, <1>5 DEF Grows
  <2> QED BY <1>3, <2>1, <2>2 DEF InOrder
<1> QED BY <1>4, <1>5

\* A step of w that leaves the tables alone: it goes on with the work of a
\* booking it may go on with, or it leaves no work behind.
LEMMA MoveOK ==
  ASSUME IInv, NEW w \in Worker,
         UNCHANGED <<weighedOut, invoiced, tickets, rows, audits, outbox, answered>>,
         failures' > 0 \/ failures' = failures,
         \A v \in Worker \ {w} : pc'[v] = pc[v] /\ at'[v] = at[v],
         pc'[w] \in Recovery => at'[w] \in Gone,
         pc'[w] \in {"audit", "note", "deliver"} => rows[at'[w]] > 0,
         pc'[w] = "deliver" => audits[at'[w]] > 0,
         \/ pc[w] \notin Recovery
         \/ pc'[w] \in Recovery /\ at'[w] = at[w]
         \/ failures' > 0
  PROVE  Sound'
<1>1. Weighed' /\ OneAccrual' /\ AccrualOnlyWhenShipped' /\ Announced' /\ AnsweredIsComplete'
  BY DEF IInv, Sound, Weighed, OneAccrual, AccrualOnlyWhenShipped, Announced, AnsweredIsComplete
<1>2. InOrder'
  <2>1. Grows(w)
    BY DEF Grows, Gone
  <2>2. Gone' = Gone
    BY DEF Gone
  <2> QED BY <2>1, <2>2, OthersOK DEF IInv, Sound, InOrder
<1>3. OnlyFailureLosesWork'
  <2> SUFFICES ASSUME NEW b \in weighedOut, rows[b] = 0 \/ audits[b] = 0,
                      ~ failures' > 0
               PROVE  \E v \in Worker : at'[v] = b /\ pc'[v] \in Recovery
    BY DEF OnlyFailureLosesWork
  <2>1. failures = 0
    BY ShipmentAssumption DEF IInv, TypeOK
  <2>2. PICK v \in Worker : at[v] = b /\ pc[v] \in Recovery
    BY <2>1 DEF IInv, Sound, OnlyFailureLosesWork
  <2> QED BY <2>2
<1> QED BY <1>1, <1>2, <1>3 DEF Sound

\* A worker that leaves its booking.
LEMMA LeaveOK ==
  ASSUME IInv, NEW w \in Worker, Rest(w),
         UNCHANGED <<weighedOut, invoiced, tickets, rows, audits, outbox, answered>>,
         failures' > 0 \/ failures' = failures,
         pc[w] \notin Recovery \/ failures' > 0
  PROVE  Sound'
<1>1. \A v \in Worker \ {w} : pc'[v] = pc[v] /\ at'[v] = at[v]
  BY DEF Rest, Go, IInv, TypeOK
<1>2. pc'[w] \in Resting
  BY DEF Rest, Go, IInv, TypeOK, Resting
<1>3. pc'[w] \notin Recovery /\ pc'[w] \notin {"audit", "note", "deliver"} /\ pc'[w] # "deliver"
  BY <1>2 DEF Resting, Recovery
<1> QED BY <1>1, <1>3, MoveOK

\* A worker that goes on with its booking, the tables left alone.
LEMMA OnwardOK ==
  ASSUME IInv, NEW w \in Worker, NEW step \in Steps, Then(w, step),
         UNCHANGED <<weighedOut, invoiced, tickets, rows, audits, outbox, answered, failures>>,
         step \in Recovery => at[w] \in Gone,
         step \in {"audit", "note", "deliver"} => rows[at[w]] > 0,
         step = "deliver" => audits[at[w]] > 0,
         pc[w] \notin Recovery \/ step \in Recovery
  PROVE  Sound'
<1>1. \A v \in Worker \ {w} : pc'[v] = pc[v] /\ at'[v] = at[v]
  BY DEF Then, Go, IInv, TypeOK
<1>2. pc'[w] = step /\ at'[w] = at[w]
  BY DEF Then, Go, IInv, TypeOK
<1> QED BY <1>1, <1>2, MoveOK

\* A worker that writes: what was done stays done, and w goes on with the
\* work of its booking b.
LEMMA WriteOK ==
  ASSUME IInv, NEW w \in Worker, Grows(w), at[w] \in Bill,
         at'[w] = at[w], pc'[w] \in Recovery, at[w] \in Gone',
         pc'[w] \in {"audit", "note", "deliver"} => rows'[at[w]] > 0,
         pc'[w] = "deliver" => audits'[at[w]] > 0,
         weighedOut' \subseteq weighedOut \cup {at[w]},
         \A b \in Bill \ {at[w]} : rows'[b] = rows[b] /\ audits'[b] = audits[b],
         failures' = failures
  PROVE  InOrder' /\ OnlyFailureLosesWork'
<1>1. InOrder'
  BY OthersOK DEF IInv, Sound, InOrder
<1>2. ASSUME NEW b \in weighedOut', rows'[b] = 0 \/ audits'[b] = 0, failures = 0
      PROVE  \E v \in Worker : at'[v] = b /\ pc'[v] \in Recovery
  <2>1. CASE b = at[w]
    BY <2>1
  <2>2. CASE b # at[w]
    <3>1. b \in weighedOut /\ b \in Bill /\ (rows[b] = 0 \/ audits[b] = 0)
      BY <1>2, <2>2 DEF IInv, TypeOK
    <3>2. PICK v \in Worker : at[v] = b /\ pc[v] \in Recovery
      BY <1>2, <3>1 DEF IInv, Sound, OnlyFailureLosesWork
    <3> QED BY <2>2, <3>2 DEF Grows
  <2> QED BY <2>1, <2>2
<1>3. OnlyFailureLosesWork'
  BY <1>2, ShipmentAssumption DEF OnlyFailureLosesWork, IInv, TypeOK
<1> QED BY <1>1, <1>3

\* Then moves w alone.
LEMMA ThenMoves ==
  ASSUME IInv, NEW w \in Worker, NEW step \in Steps, Then(w, step)
  PROVE  /\ pc'[w] = step /\ at'[w] = at[w]
         /\ \A v \in Worker \ {w} : pc'[v] = pc[v] /\ at'[v] = at[v]
  BY DEF Then, Go, IInv, TypeOK

\* commitShipment
LEMMA WeighOutOK ==
  ASSUME IInv, NEW w \in Worker, WeighOut(w)
  PROVE  Sound'
<1> USE DEF work, world, log
<1> DEFINE b == at[w]
<1>1. b \in Bill /\ b \notin weighedOut /\ pc[w] = "commit"
  BY DEF WeighOut, At, Already
<1>2. /\ pc'[w] = "ledger" /\ at'[w] = b
      /\ \A v \in Worker \ {w} : pc'[v] = pc[v] /\ at'[v] = at[v]
  BY ThenMoves DEF WeighOut, AfterCommit, Steps
<1>3. /\ weighedOut' = weighedOut \cup {b}
      /\ UNCHANGED <<invoiced, rows, audits, answered, failures>>
  BY DEF WeighOut
<1>4. Weighed'
  BY <1>1, <1>3 DEF WeighOut, IInv, TypeOK, Sound, Weighed
<1>5. Announced'
  BY <1>1, <1>3 DEF WeighOut, IInv, TypeOK, Sound, Announced
<1>6. AnsweredIsComplete'
  <2> SUFFICES ASSUME NEW c \in answered
               PROVE  /\ rows[c] > 0 /\ audits[c] > 0 /\ outbox'[c] # "none"
                      /\ (c \in weighedOut' /\ tickets'[c] > 0) \/ c \in invoiced
    BY <1>3 DEF AnsweredIsComplete
  <2>1. /\ c \in Bill /\ rows[c] > 0 /\ audits[c] > 0 /\ outbox[c] # "none"
        /\ c \in weighedOut \/ c \in invoiced
    BY DEF IInv, TypeOK, Sound, AnsweredIsComplete
  <2>2. outbox'[c] # "none"
    BY <1>1, <2>1 DEF WeighOut, IInv, TypeOK
  <2>3. c \in weighedOut => c \in weighedOut' /\ tickets'[c] > 0
    BY <1>3, <1>4, <2>1 DEF Weighed
  <2> QED BY <2>1, <2>2, <2>3
<1>7. InOrder' /\ OnlyFailureLosesWork'
  <2>1. Grows(w)
    BY <1>2, <1>3 DEF Grows, Gone
  <2> QED BY <1>1, <1>2, <1>3, <2>1, WriteOK DEF Recovery, Gone
<1>8. OneAccrual' /\ AccrualOnlyWhenShipped'
  BY <1>3 DEF IInv, Sound, OneAccrual, AccrualOnlyWhenShipped
<1> QED BY <1>4, <1>5, <1>6, <1>7, <1>8 DEF Sound

\* bookRebateAccrual
LEMMA BookOK ==
  ASSUME IInv, NEW w \in Worker, Book(w)
  PROVE  Sound'
<1> USE DEF board, world, log
<1> DEFINE b == at[w]
<1>1. b \in Bill /\ b \in Gone /\ rows[b] \in Nat
  BY DEF Book, At, IInv, TypeOK, Sound, InOrder, Recovery
<1>2. /\ pc'[w] = "audit" /\ at'[w] = b
      /\ \A v \in Worker \ {w} : pc'[v] = pc[v] /\ at'[v] = at[v]
  BY ThenMoves DEF Book, Steps
<1>3. UNCHANGED <<weighedOut, invoiced, tickets, audits, outbox, answered, failures>>
  BY DEF Book
<1>4. rows'[b] = 1 /\ \A c \in Bill \ {b} : rows'[c] = rows[c]
  <2>1. CASE rows[b] = 0
    BY <1>1, <2>1 DEF Book, Unbooked, IInv, TypeOK
  <2>2. CASE rows[b] # 0
    BY <1>1, <2>2 DEF Book, Unbooked, IInv, Sound, OneAccrual
  <2> QED BY <2>1, <2>2
<1>5. OneAccrual' /\ AccrualOnlyWhenShipped'
  BY <1>1, <1>3, <1>4 DEF IInv, Sound, OneAccrual, AccrualOnlyWhenShipped, Gone
<1>6. AnsweredIsComplete'
  BY <1>3, <1>4 DEF IInv, TypeOK, Sound, AnsweredIsComplete
<1>7. InOrder' /\ OnlyFailureLosesWork'
  <2>1. Grows(w)
    BY <1>1, <1>2, <1>3, <1>4 DEF Grows, Gone
  <2>2. Gone' = Gone
    BY <1>3 DEF Gone
  <2> QED BY <1>1, <1>2, <1>3, <1>4, <2>1, <2>2, WriteOK DEF Recovery
<1>8. Weighed' /\ Announced'
  BY <1>3 DEF IInv, Sound, Weighed, Announced
<1> QED BY <1>5, <1>6, <1>7, <1>8 DEF Sound

\* The audit row.
LEMMA NoteAuditOK ==
  ASSUME IInv, NEW w \in Worker, NoteAudit(w)
  PROVE  Sound'
<1> USE DEF board, world, log
<1> DEFINE b == at[w]
<1>1. b \in Bill /\ b \in Gone /\ rows[b] > 0 /\ audits[b] \in Nat
  BY DEF NoteAudit, At, IInv, TypeOK, Sound, InOrder, Recovery
<1>2. /\ pc'[w] = "deliver" /\ at'[w] = b
      /\ \A v \in Worker \ {w} : pc'[v] = pc[v] /\ at'[v] = at[v]
  BY ThenMoves DEF NoteAudit, Steps
<1>3. UNCHANGED <<weighedOut, invoiced, tickets, rows, outbox, answered, failures>>
  BY DEF NoteAudit
<1>4. audits'[b] > 0 /\ \A c \in Bill \ {b} : audits'[c] = audits[c]
  BY <1>1 DEF NoteAudit, IInv, TypeOK
<1>5. AnsweredIsComplete'
  BY <1>3, <1>4 DEF IInv, TypeOK, Sound, AnsweredIsComplete
<1>6. InOrder' /\ OnlyFailureLosesWork'
  <2>1. Grows(w)
    BY <1>2, <1>3, <1>4 DEF Grows, Gone
  <2>2. Gone' = Gone
    BY <1>3 DEF Gone
  <2> QED BY <1>1, <1>2, <1>3, <1>4, <2>1, <2>2, WriteOK DEF Recovery
<1>7. Weighed' /\ Announced' /\ OneAccrual' /\ AccrualOnlyWhenShipped'
  BY <1>3 DEF IInv, Sound, Weighed, Announced, OneAccrual, AccrualOnlyWhenShipped
<1> QED BY <1>5, <1>6, <1>7 DEF Sound

\* The event, and the answer: nothing is left to do for the booking.
LEMMA DeliverOK ==
  ASSUME IInv, NEW w \in Worker, Deliver(w)
  PROVE  Sound'
<1> USE DEF board, work, world
<1> DEFINE b == at[w]
<1>1. b \in Bill /\ b \in Gone /\ rows[b] > 0 /\ audits[b] > 0
  BY DEF Deliver, At, IInv, TypeOK, Sound, InOrder, Recovery
<1>2. /\ pc'[w] \in Resting
      /\ \A v \in Worker \ {w} : pc'[v] = pc[v] /\ at'[v] = at[v]
  BY DEF Deliver, Rest, Go, IInv, TypeOK, Resting
<1>3. UNCHANGED <<weighedOut, invoiced, tickets, rows, audits, failures>>
  BY DEF Deliver
<1>4. outbox' = [outbox EXCEPT ![b] = CASE outbox[b] = "none" -> "PENDING"
                                        [] outbox[b] = "PENDING" -> "DONE"
                                        [] OTHER -> outbox[b]]
  BY <1>1 DEF Deliver, IInv, TypeOK
<1>5. \A c \in Bill : outbox[c] # "none" \/ c = b => outbox'[c] # "none"
  BY <1>1, <1>4 DEF IInv, TypeOK
<1>6. Announced'
  BY <1>3, <1>5 DEF IInv, TypeOK, Sound, Announced
<1>7. answered' \subseteq answered \cup {b}
  BY DEF Deliver
<1>8. AnsweredIsComplete'
  <2> SUFFICES ASSUME NEW c \in answered'
               PROVE  /\ rows[c] > 0 /\ audits[c] > 0 /\ outbox'[c] # "none"
                      /\ (c \in weighedOut /\ tickets[c] > 0) \/ c \in invoiced
    BY <1>3 DEF AnsweredIsComplete
  <2>1. /\ c \in Bill /\ rows[c] > 0 /\ audits[c] > 0
        /\ c \in weighedOut \/ c \in invoiced
        /\ outbox[c] # "none" \/ c = b
    BY <1>1, <1>7 DEF IInv, TypeOK, Sound, AnsweredIsComplete, Gone
  <2>2. c \in weighedOut => tickets[c] > 0
    BY <2>1 DEF IInv, Sound, Weighed
  <2> QED BY <2>1, <2>2, <1>5
<1>9. InOrder'
  <2>1. Grows(w)
    BY <1>2, <1>3 DEF Grows, Gone
  <2>2. pc'[w] \notin Recovery /\ pc'[w] \notin {"audit", "note", "deliver"} /\ pc'[w] # "deliver"
    BY <1>2 DEF Resting, Recovery
  <2> QED BY <2>1, <2>2, OthersOK DEF IInv, Sound, InOrder
<1>10. OnlyFailureLosesWork'
  <2> SUFFICES ASSUME NEW c \in weighedOut, rows[c] = 0 \/ audits[c] = 0, ~ failures > 0
               PROVE  \E v \in Worker : at'[v] = c /\ pc'[v] \in Recovery
    BY <1>3 DEF OnlyFailureLosesWork
  <2>1. PICK v \in Worker : at[v] = c /\ pc[v] \in Recovery
    BY DEF IInv, Sound, OnlyFailureLosesWork
  <2>2. v # w
    BY <1>1, <2>1
  <2> QED BY <1>2, <2>1, <2>2
<1>11. Weighed' /\ OneAccrual' /\ AccrualOnlyWhenShipped'
  BY <1>3 DEF IInv, Sound, Weighed, OneAccrual, AccrualOnlyWhenShipped
<1> QED BY <1>6, <1>8, <1>9, <1>10, <1>11 DEF Sound

LEMMA SoundStep == IInv /\ [Next]_vars => Sound'
<1> SUFFICES ASSUME IInv, [Next]_vars
             PROVE  Sound'
  OBVIOUS
<1> USE DEF board, work, worker, world, log
<1>1. ASSUME NEW b \in Bill, Counter(b)
      PROVE  Sound'
  <2>1. /\ UNCHANGED <<weighedOut, tickets, rows, audits, worker, answered, failures>>
        /\ invoiced \subseteq invoiced'
    BY <1>1 DEF Counter, StartPicking, Load, StopPicking, ApproveEdit, Relock,
       Weigh, Invoice, DeliverEvent
  <2>2. \A c \in Bill : outbox[c] # "none" => outbox'[c] # "none"
    BY <1>1 DEF Counter, StartPicking, Load, StopPicking, ApproveEdit, Relock,
       Weigh, Invoice, DeliverEvent, IInv, TypeOK
  <2> QED BY <2>1, <2>2 DEF IInv, TypeOK, Sound, Weighed, OneAccrual, AccrualOnlyWhenShipped,
             Announced, InOrder, AnsweredIsComplete, OnlyFailureLosesWork, Gone
<1>2. CASE PlanLoad \/ AckLoad \/ UNCHANGED vars
  BY <1>2 DEF PlanLoad, AckLoad, vars, IInv, Sound, Weighed, OneAccrual,
     AccrualOnlyWhenShipped, Announced, InOrder, AnsweredIsComplete,
     OnlyFailureLosesWork, Gone
<1>3. ASSUME NEW w \in Desk, NEW b \in Bill, Ask(w, b)
      PROVE  Sound'
  <2>1. PICK step \in {"ledger", "commit", "cancel", "reverse"}, how \in Via :
           /\ Go(w, step, b, how)
           /\ step = "ledger" => b \in Gone
    <3>1. Shipped(b) => b \in Gone
      BY DEF Shipped, Status, Gone
    <3> QED BY <1>3, <3>1 DEF Ask, AskShip, AskCancel, ApproveRequest, RecoverFrom, Via
  <2>2. /\ UNCHANGED <<weighedOut, invoiced, tickets, rows, audits, outbox, answered, failures>>
        /\ pc[w] = "idle"
    BY <1>3 DEF Ask, AskShip, AskCancel, ApproveRequest
  <2>3. /\ pc'[w] = step /\ at'[w] = b
        /\ \A v \in Worker \ {w} : pc'[v] = pc[v] /\ at'[v] = at[v]
    BY <2>1 DEF Go, IInv, TypeOK, Worker
  <2>4. Gone' = Gone
    BY <2>2 DEF Gone
  <2> QED BY <2>1, <2>2, <2>3, <2>4, MoveOK DEF Recovery, Worker
<1>4. ASSUME NEW w \in Worker, Proceed(w)
      PROVE  Sound'
  <2>1. ASSUME WeighOut(w)
        PROVE  Sound'
    BY <2>1, WeighOutOK
  <2>2. ASSUME FindShipped(w) \/ Refuse(w)
        PROVE  Sound'
    <3>1. pc[w] = "commit" /\ at[w] \in Bill
      BY <2>2 DEF FindShipped, Refuse, At
    <3>2. CASE Rest(w)
      BY <2>2, <3>1, <3>2, LeaveOK DEF FindShipped, Refuse, Recovery
    <3>3. CASE Then(w, "ledger") /\ Already(at[w])
      <4>1. at[w] \in Gone
        BY <3>1, <3>3 DEF Already, IInv, Sound, Weighed, Gone
      <4> QED BY <2>2, <3>1, <3>3, <4>1, OnwardOK DEF FindShipped, Refuse, Recovery, Steps
    <3> QED BY <2>2, <3>2, <3>3 DEF FindShipped, Refuse
  <2>3. ASSUME SeeLedger(w) \/ SeeAudit(w)
        PROVE  Sound'
    <3>1. at[w] \in Gone /\ at[w] \in Bill
      BY <2>3 DEF SeeLedger, SeeAudit, At, InOrder, IInv, Sound, Recovery
    <3>2. rows[at[w]] \in Nat /\ audits[at[w]] \in Nat
      BY <3>1 DEF IInv, TypeOK
    <3>3. CASE SeeLedger(w)
      BY <3>1, <3>2, <3>3, OnwardOK DEF SeeLedger, At, Recovery, Steps
    <3>4. CASE SeeAudit(w)
      <4>1. rows[at[w]] > 0
        BY <3>4 DEF SeeAudit, At, InOrder, IInv, Sound
      <4> QED BY <3>1, <3>2, <3>4, <4>1, OnwardOK DEF SeeAudit, At, Recovery, Steps
    <3> QED BY <2>3, <3>3, <3>4
  <2>4. ASSUME Book(w)
        PROVE  Sound'
    BY <2>4, BookOK
  <2>5. ASSUME NoteAudit(w)
        PROVE  Sound'
    BY <2>5, NoteAuditOK
  <2>6. ASSUME Deliver(w)
        PROVE  Sound'
    BY <2>6, DeliverOK
  <2>7. ASSUME Reverse(w) \/ Cancel(w) \/ Unpick(w) \/ Unlock(w)
        PROVE  Sound'
    <3>1. /\ pc[w] \notin Recovery
          /\ UNCHANGED <<weighedOut, invoiced, tickets, rows, audits, outbox, answered, failures>>
      BY <2>7 DEF Reverse, Cancel, Unpick, Unlock, At, Recovery
    <3>2. CASE Rest(w)
      BY <3>1, <3>2, LeaveOK
    <3>3. CASE \E step \in {"cancel", "unpick", "unlock"} : Then(w, step)
      BY <3>1, <3>3, OnwardOK DEF Recovery, Steps
    <3> QED BY <2>7, <3>2, <3>3 DEF Reverse, Cancel, Unpick, Unlock
  <2> QED BY <1>4, <2>1, <2>2, <2>3, <2>4, <2>5, <2>6, <2>7 DEF Proceed
<1>5. ASSUME NEW r \in Run, StartRun(r) \/ NextOfRun(r) \/ EndRun(r)
      PROVE  Sound'
  <2>1. pc[r] \notin Recovery
    BY <1>5 DEF StartRun, NextOfRun, EndRun, Recovery
  <2>2. pc'[r] \in {"next", "commit", "idle"}
    BY <1>5 DEF StartRun, NextOfRun, EndRun, Go, IInv, TypeOK, Worker
  <2>3. \A v \in Worker \ {r} : pc'[v] = pc[v] /\ at'[v] = at[v]
    BY <1>5 DEF StartRun, NextOfRun, EndRun, Go, IInv, TypeOK
  <2>4. UNCHANGED <<weighedOut, invoiced, tickets, rows, audits, outbox, answered, failures>>
    BY <1>5 DEF StartRun, NextOfRun, EndRun
  <2> QED BY <2>1, <2>2, <2>3, <2>4, MoveOK DEF Recovery, Worker
<1>6. ASSUME NEW w \in Worker, Fail(w)
      PROVE  Sound'
  <2>1. failures' > 0
    BY <1>6, ShipmentAssumption DEF Fail, IInv, TypeOK
  <2> QED BY <1>6, <2>1, LeaveOK DEF Fail
<1>7. CASE Restart
  <2>1. failures' > 0
    BY <1>7, ShipmentAssumption DEF Restart, IInv, TypeOK
  <2>2. \A w \in Worker : pc'[w] = "idle"
    BY <1>7 DEF Restart
  <2> QED BY <1>7, <2>1, <2>2 DEF Restart, IInv, Sound, Weighed, OneAccrual,
             AccrualOnlyWhenShipped, Announced, InOrder, AnsweredIsComplete,
             OnlyFailureLosesWork, Recovery, Gone
<1> QED
  BY <1>1, <1>2, <1>3, <1>4, <1>5, <1>6, <1>7 DEF Next, Sync, Worker

LEMMA Invariance == Spec => []IInv
<1>1. IInv /\ [Next]_vars => IInv'
  BY TypeStep, SoundStep DEF IInv
<1> QED BY InitOK, <1>1, PTL DEF Spec

\* The button, its retries and overlapping runs of the sync write one weigh
\* ticket for a booking, however many of them there are (commitShipment).
THEOREM TicketOnce == Spec => []OneTicket
<1>1. IInv => OneTicket
  BY DEF IInv, Sound, Weighed, OneTicket
<1> QED BY Invariance, <1>1, PTL

\* They book its rebate once, although each looks long before it books
\* (bookRebateAccrual).
THEOREM AccruedOnce == Spec => []OneAccrual
<1>1. IInv => OneAccrual
  BY DEF IInv, Sound
<1> QED BY Invariance, <1>1, PTL

\* No rebate is booked for a booking that has neither been weighed out nor been
\* invoiced by WinSpeed (the ship route and the sync lead to bookRebateAccrual
\* behind the weigh-out, the recovery behind the status SHIPPED).
THEOREM AccruedWhenShipped == Spec => []AccrualOnlyWhenShipped
<1>1. IInv => AccrualOnlyWhenShipped
  BY DEF IInv, Sound
<1> QED BY Invariance, <1>1, PTL

\* A request is answered SHIPPED only when the rebate, the audit row and the
\* event are there, and the ticket or WinSpeed's invoice, whatever failed
\* before (recoverPendingShipmentTasks).
THEOREM AnswerComplete == Spec => []AnsweredIsComplete
<1>1. IInv => AnsweredIsComplete
  BY DEF IInv, Sound
<1> QED BY Invariance, <1>1, PTL

\* Work is missing for a booking weighed out only while some worker is at it
\* or after a failure: a run of the sync that lost the race may leave.
THEOREM LostOnlyByFailure == Spec => []OnlyFailureLosesWork
<1>1. IInv => OnlyFailureLosesWork
  BY DEF IInv, Sound
<1> QED BY Invariance, <1>1, PTL

\* A booking cancelled with nobody shipping it earns nothing any more, for
\* every way to the work behind the weigh-out passes its status.
AtRest ==
    \A b \in cancelled \ crossed :
        /\ b \notin live
        /\ \A w \in Worker : ~ Shipping(w, b)

LEMMA AtRestStep ==
  ASSUME TypeOK, AtRest, [Next]_vars
  PROVE  AtRest'
<1> USE DEF board, work, worker, world, log
<1>1. ASSUME NEW b \in Bill, Counter(b)
      PROVE  AtRest'
  BY <1>1 DEF Counter, StartPicking, Load, StopPicking, ApproveEdit, Relock,
     Weigh, Invoice, DeliverEvent, AtRest, Shipping
<1>2. CASE PlanLoad \/ AckLoad \/ UNCHANGED vars
  BY <1>2 DEF PlanLoad, AckLoad, vars, AtRest, Shipping
<1>3. ASSUME NEW w \in Desk, NEW b \in Bill, Ask(w, b)
      PROVE  AtRest'
  <2>1. UNCHANGED <<cancelled, crossed, live>>
    BY <1>3 DEF Ask, AskShip, AskCancel, ApproveRequest
  <2>2. /\ at'[w] = b
        /\ pc'[w] \in {"commit"} \cup Recovery => b \notin cancelled
        /\ \A v \in Worker \ {w} : pc'[v] = pc[v] /\ at'[v] = at[v]
    <3>1. Status(b) # "CANCELLED" => b \notin cancelled
      BY DEF Status
    <3>2. w \in Worker
      BY DEF Worker
    <3>3. CASE AskShip(w, b)
      BY <3>1, <3>2, <3>3 DEF AskShip, Go, Shipped, TypeOK
    <3>4. CASE AskCancel(w, b) \/ ApproveRequest(w, b)
      BY <3>2, <3>4 DEF AskCancel, ApproveRequest, Go, TypeOK, Recovery
    <3> QED BY <1>3, <3>3, <3>4 DEF Ask
  <2> QED BY <2>1, <2>2 DEF AtRest, Shipping
<1>4. ASSUME NEW w \in Worker, Proceed(w)
      PROVE  AtRest'
  <2> DEFINE Stays == pc'[w] \in {"commit"} \cup Recovery
                        => at'[w] = at[w] /\ pc[w] \in {"commit"} \cup Recovery
  <2>1. \A v \in Worker \ {w} : pc'[v] = pc[v] /\ at'[v] = at[v]
    BY <1>4 DEF Proceed, WeighOut, FindShipped, Refuse, SeeLedger, Book, SeeAudit,
       NoteAudit, Deliver, Reverse, Cancel, Unpick, Unlock, Then, Rest, Go, TypeOK
  <2>2. Stays
    <3>1. ASSUME Rest(w) PROVE pc'[w] \notin {"commit"} \cup Recovery
      BY <3>1 DEF Rest, Go, TypeOK, Recovery
    <3>2. ASSUME NEW step \in {"cancel", "unpick", "unlock"}, Then(w, step)
          PROVE  pc'[w] \notin {"commit"} \cup Recovery
      BY <3>2 DEF Then, Go, TypeOK, Recovery
    <3>3. ASSUME NEW step \in Recovery, Then(w, step) PROVE at'[w] = at[w]
      BY <3>3 DEF Then, Go, TypeOK
    <3>4. CASE WeighOut(w) \/ FindShipped(w) \/ SeeLedger(w) \/ Book(w)
               \/ SeeAudit(w) \/ NoteAudit(w)
      BY <3>1, <3>3, <3>4 DEF WeighOut, FindShipped, SeeLedger, Book, SeeAudit,
         NoteAudit, At, AfterCommit, Recovery
    <3>5. CASE Refuse(w) \/ Deliver(w) \/ Cancel(w) \/ Unlock(w)
      BY <3>1, <3>5 DEF Refuse, Deliver, Cancel, Unlock
    <3>6. CASE Reverse(w) \/ Unpick(w)
      BY <3>2, <3>6 DEF Reverse, Unpick
    <3> QED BY <1>4, <3>4, <3>5, <3>6 DEF Proceed
  <2> HIDE DEF Stays
  <2>3. CASE Cancel(w)
    <3>1. /\ live' = live \ {at[w]} /\ cancelled' = cancelled \cup {at[w]}
          /\ crossed' = IF \E v \in Worker : Shipping(v, at[w])
                        THEN crossed \cup {at[w]} ELSE crossed
      BY <2>3 DEF Cancel, ReverseAccrual
    <3>2. \A v \in Worker, b \in Bill : Shipping(v, b)' => Shipping(v, b)
      BY <2>1, <2>2 DEF Stays, Shipping
    <3>3. cancelled' \subseteq Bill
      BY <2>3, <3>1 DEF Cancel, At, TypeOK
    <3> QED BY <3>1, <3>2, <3>3 DEF AtRest
  <2>4. CASE ~ Cancel(w)
    <3>1. UNCHANGED <<cancelled, crossed>>
      BY <1>4, <2>4 DEF Proceed, WeighOut, FindShipped, Refuse, SeeLedger, Book, SeeAudit,
         NoteAudit, Deliver, Reverse, Unpick, Unlock
    <3>2. \A b \in live' : b \in live \/ Shipping(w, b)
      BY <1>4, <2>4 DEF Proceed, WeighOut, FindShipped, Refuse, SeeLedger, Book, SeeAudit,
         NoteAudit, Deliver, Reverse, Unpick, Unlock, At, Shipping, Recovery
    <3>3. \A v \in Worker, b \in Bill : Shipping(v, b)' => Shipping(v, b)
      BY <2>1, <2>2 DEF Stays, Shipping
    <3>4. cancelled \subseteq Bill
      BY DEF TypeOK
    <3> QED BY <3>1, <3>2, <3>3, <3>4 DEF AtRest
  <2> QED BY <2>3, <2>4
<1>5. ASSUME NEW r \in Run, StartRun(r) \/ NextOfRun(r) \/ EndRun(r)
      PROVE  AtRest'
  <2>1. UNCHANGED <<cancelled, crossed, live>>
    BY <1>5 DEF StartRun, NextOfRun, EndRun
  <2>2. \A v \in Worker \ {r} : pc'[v] = pc[v] /\ at'[v] = at[v]
    BY <1>5 DEF StartRun, NextOfRun, EndRun, Go, TypeOK
  <2>3. pc'[r] \in {"commit"} \cup Recovery => at'[r] \notin cancelled
    <3>1. \A b : LooksOpen(b) => b \notin cancelled
      BY DEF LooksOpen, Status
    <3>2. r \in Worker
      BY DEF Worker
    <3>3. CASE NextOfRun(r)
      BY <3>1, <3>2, <3>3 DEF NextOfRun, TypeOK, Recovery
    <3>4. CASE StartRun(r) \/ EndRun(r)
      BY <3>2, <3>4 DEF StartRun, EndRun, Go, TypeOK, Recovery
    <3> QED BY <1>5, <3>3, <3>4
  <2> QED BY <2>1, <2>2, <2>3 DEF AtRest, Shipping
<1>6. ASSUME NEW w \in Worker, Fail(w)
      PROVE  AtRest'
  <2>1. /\ pc'[w] \in Resting /\ UNCHANGED <<cancelled, crossed, live>>
        /\ \A v \in Worker \ {w} : pc'[v] = pc[v] /\ at'[v] = at[v]
    BY <1>6 DEF Fail, Rest, Go, TypeOK, Resting
  <2> QED BY <2>1 DEF AtRest, Shipping, Resting, Recovery
<1>7. CASE Restart
  BY <1>7 DEF Restart, AtRest, Shipping, Recovery
<1> QED
  BY <1>1, <1>2, <1>3, <1>4, <1>5, <1>6, <1>7 DEF Next, Sync, Worker

\* A cancelled booking keeps no rebate it earned, however cancellation, edit,
\* button and sync interleave and fail, unless a worker was already shipping
\* it when it was cancelled (cancelBillInTx, bookRebateAccrual).
THEOREM CancelledEarns == Spec => []CancelledEarnsNothing
<1>1. Init => AtRest
  BY DEF Init, AtRest
<1>2. TypeOK /\ AtRest /\ [Next]_vars => AtRest'
  BY AtRestStep
<1>3. AtRest => CancelledEarnsNothing
  BY DEF AtRest, CancelledEarnsNothing
<1> QED BY <1>1, <1>2, <1>3, ShipmentTyped, PTL DEF Spec
=============================================================================
