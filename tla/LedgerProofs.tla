---------------------------- MODULE LedgerProofs ----------------------------
(***************************************************************************)
(* The tables of RebateLedger keep their types, which says that no row of  *)
(* the ledger and no total of the pool falls below zero, and a row marked  *)
(* CLAIMED has nothing left, for any bills, claims, amounts and ratio.     *)
(* And the money adds up: the pool's two totals, each bill's discount, and *)
(* what was earned against what is left, used and claimed; and the loops   *)
(* over the rows can end in one way only.                                  *)
(*                                                                         *)
(* The last part is about the budgets of GiveawayQuota: what a save has    *)
(* checked still holds when it writes, unless somebody marked its region.  *)
(***************************************************************************)
EXTENDS RebateLedger, GiveawayQuota, Sums

RowStatus == {"none", "PENDING", "CLAIMED", "REVERSED"}

\* The customer's share of a claim is a natural number.
LEMMA ShareIsNat ==
  ASSUME NEW a \in Nat
  PROVE  (a * Ratio + 50) \div 100 \in Nat
<1>1. Ratio \in Nat
  BY RebateAssumption
<1>2. a * Ratio \in Nat
  BY <1>1
<1>3. \A p \in Nat : (p + 50) \div 100 \in Nat
  OBVIOUS
<1> QED BY <1>2, <1>3

\* Cutting rows by no more than they have keeps the rows sound (the loops of
\* consumeRebateAccrual and of the filing of a claim).
LEMMA CutKeepsRows ==
  ASSUME TypeOK, NothingStranded,
         NEW take \in [Bill -> Nat],
         \A r \in Bill : take[r] <= left[r],
         CutRows(take)
  PROVE  /\ left' \in [Bill -> Nat]
         /\ row' \in [Bill -> RowStatus]
         /\ NothingStranded'
<1> USE DEF TypeOK, RowStatus, NothingStranded, CutRows
<1>1. left' \in [Bill -> Nat]
  <2>1. \A r \in Bill : left[r] - take[r] \in Nat
    OBVIOUS
  <2> QED BY <2>1
<1>2. row' \in [Bill -> RowStatus]
  OBVIOUS
<1>3. ASSUME NEW r \in Bill, row'[r] = "CLAIMED"
      PROVE  left'[r] = 0
  <2>1. CASE take[r] > 0 /\ left[r] = take[r]
    BY <2>1
  <2>2. CASE ~(take[r] > 0 /\ left[r] = take[r])
    <3>1. row[r] = "CLAIMED"
      BY <2>2, <1>3
    <3>2. left[r] = 0
      BY <3>1
    <3> QED BY <3>2
  <2> QED BY <2>1, <2>2
<1> QED BY <1>1, <1>2, <1>3

\* Giving money back reopens the rows it reaches.
LEMMA PutBackKeepsRows ==
  ASSUME TypeOK, NothingStranded,
         NEW put \in [Bill -> Nat],
         PutBack(put)
  PROVE  /\ left' \in [Bill -> Nat]
         /\ row' \in [Bill -> RowStatus]
         /\ NothingStranded'
<1> USE DEF TypeOK, RowStatus, NothingStranded, PutBack, Reopened
<1>1. left' \in [Bill -> Nat]
  OBVIOUS
<1>2. row' \in [Bill -> RowStatus]
  OBVIOUS
<1>3. ASSUME NEW r \in Bill, row'[r] = "CLAIMED"
      PROVE  left'[r] = 0
  <2>1. row[r] = "CLAIMED" /\ ~(put[r] > 0)
    BY <1>3
  <2>2. put[r] = 0 /\ left[r] = 0
    BY <2>1
  <2> QED BY <2>2
<1> QED BY <1>1, <1>2, <1>3

LEMMA InitInv == Init => TypeOK /\ NothingStranded
  BY RebateAssumption DEF Init, TypeOK, NothingStranded, Stage, ClaimStatus

LEMMA StepInv == TypeOK /\ NothingStranded /\ [Next]_vars => TypeOK' /\ NothingStranded'
<1> SUFFICES ASSUME TypeOK, NothingStranded, [Next]_vars
             PROVE  TypeOK' /\ NothingStranded'
  OBVIOUS
<1> USE DEF billVars, rowVars, claimVars
<1>1. ASSUME NEW b \in Bill, NEW d \in 0..MaxAmt, Create(b, d)
      PROVE  TypeOK' /\ NothingStranded'
  BY <1>1, RebateAssumption DEF Create, TypeOK, NothingStranded, Stage
<1>2. ASSUME NEW b \in Bill, NEW d \in 0..MaxAmt, EditDiscount(b, d)
      PROVE  TypeOK' /\ NothingStranded'
  BY <1>2, RebateAssumption DEF EditDiscount, TypeOK, NothingStranded
<1>3. ASSUME NEW b \in Bill, NEW c \in Claim, ApplyClaim(c, b)
      PROVE  TypeOK' /\ NothingStranded'
  <2>1. CustomerAmount(c) \in Nat
    <3>1. asked[c] \in Nat
      BY RebateAssumption DEF TypeOK
    <3> QED BY <3>1, ShareIsNat DEF CustomerAmount
  <2> QED BY <1>3, <2>1 DEF ApplyClaim, TypeOK, NothingStranded
<1>4. ASSUME NEW b \in Bill, NEW n \in 1..MaxAmt, Book(b, n)
      PROVE  TypeOK' /\ NothingStranded'
  <2>1. IsFiniteSet({r \in Bill : born[r] > 0})
    BY RebateAssumption, FS_Subset
  <2>2. Cardinality({r \in Bill : born[r] > 0}) \in Nat
    BY <2>1, FS_CardinalityType
  <2> QED BY <1>4, <2>2, RebateAssumption DEF Book, TypeOK, NothingStranded
<1>5. ASSUME NEW b \in Bill, Confirm(b)
      PROVE  TypeOK' /\ NothingStranded'
  <2> PICK take \in OldestFirst(LedgerPart(b), ToSpend) :
           /\ CutRows(take)
           /\ usage' = [usage EXCEPT ![b] = [r \in Bill |-> @[r] + take[r]]]
    BY <1>5 DEF Confirm
  <2>1. take \in [Bill -> Nat]
    BY DEF OldestFirst, Spreads
  <2>2. \A r \in Bill : take[r] <= left[r]
    BY <2>1 DEF OldestFirst, Spreads, ToSpend, Remains, TypeOK
  <2>3. left' \in [Bill -> Nat] /\ row' \in [Bill -> RowStatus] /\ NothingStranded'
    BY <2>1, <2>2, CutKeepsRows
  <2>4. usage' \in [Bill -> [Bill -> Nat]]
    <3>1. usage[b] \in [Bill -> Nat]
      BY DEF TypeOK
    <3>2. [r \in Bill |-> usage[b][r] + take[r]] \in [Bill -> Nat]
      BY <2>1, <3>1
    <3>3. usage' = [usage EXCEPT ![b] = [r \in Bill |-> usage[b][r] + take[r]]]
      BY DEF TypeOK
    <3> QED BY <3>2, <3>3 DEF TypeOK
  <2>5. status' \in [Claim -> ClaimStatus]
    BY <1>5 DEF Confirm, Advance, TypeOK, ClaimStatus
  <2> QED BY <1>5, <2>3, <2>4, <2>5 DEF Confirm, TypeOK, Stage, RowStatus
<1>6. ASSUME NEW b \in Bill, Relock(b) \/ Ship(b)
      PROVE  TypeOK' /\ NothingStranded'
  BY <1>6 DEF Relock, Ship, TypeOK, NothingStranded, Stage
<1>7. ASSUME NEW b \in Bill, Unlock(b)
      PROVE  TypeOK' /\ NothingStranded'
  BY <1>7 DEF Unlock, TypeOK, NothingStranded, Stage
<1>8. ASSUME NEW b \in Bill, CancelDraft(b)
      PROVE  TypeOK' /\ NothingStranded'
  BY <1>8 DEF CancelDraft, FreeClaims, TypeOK, NothingStranded, Stage
<1>9. ASSUME NEW b \in Bill, CancelBooking(b)
      PROVE  TypeOK' /\ NothingStranded'
  <2> DEFINE put == [r \in Bill |-> IF r \in Live THEN usage[b][r] ELSE 0]
  <2>1. put \in [Bill -> Nat]
    BY DEF TypeOK
  <2>2. PutBack(put)
    BY <1>9 DEF CancelBooking
  <2> HIDE DEF put
  <2>3. left' \in [Bill -> Nat] /\ row' \in [Bill -> RowStatus] /\ NothingStranded'
    BY <2>1, <2>2, PutBackKeepsRows
  <2>4. usage' \in [Bill -> [Bill -> Nat]]
    BY <1>9 DEF CancelBooking, ReversedUsage, TypeOK
  <2>5. status' \in [Claim -> ClaimStatus] /\ heldBy' \in [Claim -> Bill \cup {NoBill}]
    BY <1>9 DEF CancelBooking, TypeOK, ClaimStatus
  <2> QED BY <1>9, <2>3, <2>4, <2>5 DEF CancelBooking, TypeOK, Stage, RowStatus
<1>10. ASSUME NEW b \in Bill, NEW bulk \in BOOLEAN, Delete(b, bulk)
       PROVE  TypeOK' /\ NothingStranded'
  <2>1. heldBy' \in [Claim -> Bill \cup {NoBill}]
    BY <1>10 DEF Delete, FreeClaims, TypeOK
  <2> QED BY <1>10, <2>1 DEF Delete, TypeOK, NothingStranded, Stage
<1>11. ASSUME NEW c \in Claim, NEW n \in 1..MaxAmt, File(c, n)
       PROVE  TypeOK' /\ NothingStranded'
  <2> PICK take \in OldestFirst(n, ToClaim) : CutRows(take)
    BY <1>11 DEF File
  <2>1. take \in [Bill -> Nat]
    BY DEF OldestFirst, Spreads
  <2>2. \A r \in Bill : take[r] <= left[r]
    BY <2>1 DEF OldestFirst, Spreads, ToClaim, TypeOK
  <2>3. left' \in [Bill -> Nat] /\ row' \in [Bill -> RowStatus] /\ NothingStranded'
    BY <2>1, <2>2, CutKeepsRows
  <2>4. claimed' \in Nat /\ asked' \in [Claim -> 0..MaxAmt] /\ status' \in [Claim -> ClaimStatus]
    BY <1>11, RebateAssumption DEF File, TypeOK, ClaimStatus, Pending
  <2> QED BY <1>11, <2>3, <2>4 DEF File, TypeOK, RowStatus
<1>12. ASSUME NEW c \in Claim, Approve(c)
       PROVE  TypeOK' /\ NothingStranded'
  <2>1. status' \in [Claim -> ClaimStatus]
    BY <1>12 DEF Approve, NextTier, Pending, TypeOK, ClaimStatus
  <2> QED BY <1>12, <2>1 DEF Approve, TypeOK, NothingStranded
<1>13. ASSUME NEW c \in Claim, Reject(c)
       PROVE  TypeOK' /\ NothingStranded'
  <2> PICK put \in NewestFirst(asked[c], [r \in Bill |-> Lost(r)]) : PutBack(put)
    BY <1>13 DEF Reject
  <2>1. put \in [Bill -> Nat]
    BY DEF NewestFirst, Spreads
  <2>2. left' \in [Bill -> Nat] /\ row' \in [Bill -> RowStatus] /\ NothingStranded'
    BY <2>1, PutBackKeepsRows
  <2>3. claimed' \in Nat /\ status' \in [Claim -> ClaimStatus]
    BY <1>13, RebateAssumption DEF Reject, TypeOK, ClaimStatus
  <2> QED BY <1>13, <2>2, <2>3 DEF Reject, TypeOK, RowStatus
<1>14. CASE UNCHANGED vars
  BY <1>14 DEF vars, TypeOK, NothingStranded
<1> QED
  BY <1>1, <1>2, <1>3, <1>4, <1>5, <1>6, <1>7, <1>8, <1>9, <1>10, <1>11, <1>12,
     <1>13, <1>14 DEF Next

\* The types hold in every state: no cut, put-back, cancellation or rejection
\* takes a row or a total below zero (bookRebateAccrual, consumeRebateAccrual,
\* the claim routes, releaseRebateOnCancel).
THEOREM TypeCorrect == Spec => []TypeOK
<1>1. Init => TypeOK /\ NothingStranded
  BY InitInv
<1>2. TypeOK /\ NothingStranded /\ [Next]_vars => (TypeOK /\ NothingStranded)'
  BY StepInv
<1> QED BY <1>1, <1>2, PTL DEF Spec

\* No money is left in a row that discounts may not draw on any more: every
\* way of giving money back to a CLAIMED row makes it PENDING again.
THEOREM NeverStranded == Spec => []NothingStranded
<1>1. Init => TypeOK /\ NothingStranded
  BY InitInv
<1>2. TypeOK /\ NothingStranded /\ [Next]_vars => (TypeOK /\ NothingStranded)'
  BY StepInv
<1> QED BY <1>1, <1>2, PTL DEF Spec

-----------------------------------------------------------------------------
(* The sums.  What they rest on, beside each other:                        *)

\* A row that was not booked has no money in it, and no bill drew on it.
Blank == \A r \in Bill : row[r] = "none" =>
            /\ amount[r] = 0 /\ left[r] = 0
            /\ \A b \in Bill : usage[b][r] = 0

\* A bill that does not exist yet has nothing.
Fresh == \A b \in Bill : stage[b] = "none" =>
            /\ claimPart[b] = 0
            /\ \A c \in Claim : heldBy[c] # b
            /\ \A r \in Bill : usage[b][r] = 0

\* A claim is on a bill only when it was approved.
Approved == \A c \in Claim : heldBy[c] # NoBill => status[c] \in {"APPROVED", "CN_ISSUED"}

\* What a loop over the rows takes: no more than there is, and n in all when
\* there is that much.
LEMMA SpreadTakes ==
  ASSUME NEW n \in Int, NEW room \in [Bill -> Nat],
         NEW take \in OldestFirst(n, room) \cup NewestFirst(n, room)
  PROVE  /\ take \in [Bill -> Nat]
         /\ \A r \in Bill : take[r] <= room[r]
         /\ n <= SumFunctionOnSet(room, Bill) => SumFunctionOnSet(take, Bill) = n
<1>1. /\ take \in [Bill -> 0..n]
      /\ \A r \in Bill : take[r] <= room[r]
      /\ SumFunction(take) = Lesser(n, SumFunction(room))
  BY DEF OldestFirst, NewestFirst, Spreads
<1>2. SumFunction(take) = SumFunctionOnSet(take, Bill)
  BY <1>1, SumOfFunction
<1>3. SumFunction(room) = SumFunctionOnSet(room, Bill)
  BY SumOfFunction
<1>4. SumFunctionOnSet(room, Bill) \in Int
  BY RebateAssumption, SumInteger
<1>5. n <= SumFunction(room) => Lesser(n, SumFunction(room)) = n
  BY <1>3, <1>4 DEF Lesser
<1>6. take \in [Bill -> Nat]
  BY <1>1
<1> QED BY <1>1, <1>2, <1>3, <1>5, <1>6

\* The rows a discount may draw on, and those a claim may.
LEMMA RoomsSound ==
  ASSUME TypeOK
  PROVE  /\ ToSpend \in [Bill -> Nat] /\ ToClaim \in [Bill -> Nat]
         /\ \A r \in Bill : ToSpend[r] <= left[r] /\ ToClaim[r] <= left[r]
         /\ \A r \in Bill \ Live : ToSpend[r] = 0 /\ ToClaim[r] = 0
  BY DEF TypeOK, ToSpend, ToClaim, Remains, Live

\* A confirm takes the ledger's part of the discount.
LEMMA ConfirmTakes ==
  ASSUME TypeOK, NEW b \in Bill, Confirm(b)
  PROVE  \E take \in [Bill -> Nat] :
            /\ \A r \in Bill : take[r] <= left[r]
            /\ \A r \in Bill \ Live : take[r] = 0
            /\ SumFunctionOnSet(take, Bill) = LedgerPart(b)
            /\ CutRows(take)
            /\ usage' = [usage EXCEPT ![b] = [r \in Bill |-> usage[b][r] + take[r]]]
<1>1. PICK take \in OldestFirst(LedgerPart(b), ToSpend) :
           /\ CutRows(take)
           /\ usage' = [usage EXCEPT ![b] = [r \in Bill |-> @[r] + take[r]]]
  BY DEF Confirm
<1>2. LedgerPart(b) \in Int
  BY DEF LedgerPart, TypeOK
<1>3. SumFunction(ToSpend) = SumFunctionOnSet(ToSpend, Bill)
  BY RoomsSound, SumOfFunction
<1>4. LedgerPart(b) <= SumFunctionOnSet(ToSpend, Bill)
  BY <1>3 DEF Confirm
<1>5. /\ take \in [Bill -> Nat]
      /\ \A r \in Bill : take[r] <= ToSpend[r]
      /\ SumFunctionOnSet(take, Bill) = LedgerPart(b)
  BY <1>2, <1>4, RoomsSound, SpreadTakes
<1>6. \A r \in Bill : take[r] <= left[r]
  <2>1. \A r \in Bill : take[r] \in Nat /\ left[r] \in Nat /\ ToSpend[r] \in Nat
    BY <1>5, RoomsSound DEF TypeOK
  <2> QED BY <2>1, <1>5, RoomsSound
<1>7. \A r \in Bill \ Live : take[r] = 0
  <2>1. \A r \in Bill : take[r] \in Nat
    BY <1>5
  <2> QED BY <2>1, <1>5, RoomsSound
<1>8. usage' = [usage EXCEPT ![b] = [r \in Bill |-> usage[b][r] + take[r]]]
  BY <1>1 DEF TypeOK
<1> QED BY <1>1, <1>5, <1>6, <1>7, <1>8

\* Filing a claim takes what it asks for.
LEMMA FileTakes ==
  ASSUME TypeOK, NEW c \in Claim, NEW n \in 1..MaxAmt, File(c, n)
  PROVE  \E take \in [Bill -> Nat] :
            /\ \A r \in Bill : take[r] <= left[r]
            /\ \A r \in Bill \ Live : take[r] = 0
            /\ SumFunctionOnSet(take, Bill) = n
            /\ CutRows(take)
<1>1. PICK take \in OldestFirst(n, ToClaim) : CutRows(take)
  BY DEF File
<1>2. SumFunction(ToClaim) = SumFunctionOnSet(ToClaim, Bill)
  BY RoomsSound, SumOfFunction
<1>3. SumFunctionOnSet(ToClaim, Bill) \in Int
  BY RoomsSound, RebateAssumption, SumInteger
<1>4. n \in Int /\ n <= SumFunctionOnSet(ToClaim, Bill)
  <2>1. Used \in Int
    <3>1. \A b \in Bill : SumFunctionOnSet(usage[b], Live) \in Int
      <4> TAKE b \in Bill
      <4>1. IsFiniteSet(Live) /\ Live \subseteq Bill
        BY RebateAssumption, FS_Subset DEF Live
      <4>2. \A r \in Live : usage[b][r] \in Int
        BY <4>1 DEF TypeOK
      <4> QED BY <4>1, <4>2, SumInteger
    <3> DEFINE spent == [b \in Bill |-> SumFunctionOnSet(usage[b], Live)]
    <3>2. \A b \in Bill : spent[b] \in Int
      BY <3>1
    <3>3. DOMAIN spent = Bill
      OBVIOUS
    <3>4. Used = SumFunction(spent)
      BY DEF Used
    <3> HIDE DEF spent
    <3> QED BY <3>2, <3>3, <3>4, RebateAssumption, SumInteger, SumOfFunction
  <2>2. n \in Nat
    BY RebateAssumption
  <2>3. n <= Available
    BY DEF File
  <2>4. accrued \in Nat /\ claimed \in Nat
    BY DEF TypeOK
  <2> QED BY <1>2, <1>3, <2>1, <2>2, <2>3, <2>4 DEF Available, Lesser
<1>5. /\ take \in [Bill -> Nat]
      /\ \A r \in Bill : take[r] <= ToClaim[r]
      /\ SumFunctionOnSet(take, Bill) = n
  BY <1>4, RoomsSound, SpreadTakes
<1>6. \A r \in Bill : take[r] <= left[r]
  <2>1. \A r \in Bill : take[r] \in Nat /\ left[r] \in Nat /\ ToClaim[r] \in Nat
    BY <1>5, RoomsSound DEF TypeOK
  <2> QED BY <2>1, <1>5, RoomsSound
<1>7. \A r \in Bill \ Live : take[r] = 0
  <2>1. \A r \in Bill : take[r] \in Nat
    BY <1>5
  <2> QED BY <2>1, <1>5, RoomsSound
<1> QED BY <1>1, <1>5, <1>6, <1>7

\* A rejection puts money back on live rows, all of it when they lost as much.
LEMMA RejectPuts ==
  ASSUME TypeOK, NEW c \in Claim, Reject(c)
  PROVE  \E put \in [Bill -> Nat] :
            /\ \A r \in Bill \ Live : put[r] = 0
            /\ LET lost == [r \in Bill |-> Lost(r)]
               IN  asked[c] <= SumFunctionOnSet(lost, Bill)
                      => SumFunctionOnSet(put, Bill) = asked[c]
            /\ PutBack(put)
<1> DEFINE lost == [r \in Bill |-> Lost(r)]
<1>1. PICK put \in NewestFirst(asked[c], lost) : PutBack(put)
  BY DEF Reject
<1>2. lost \in [Bill -> Nat] /\ \A r \in Bill \ Live : lost[r] = 0
  BY RebateAssumption DEF TypeOK, Lost
<1>3. asked[c] \in Int
  BY RebateAssumption DEF TypeOK
<1> HIDE DEF lost
<1>4. /\ put \in [Bill -> Nat]
      /\ \A r \in Bill : put[r] <= lost[r]
      /\ asked[c] <= SumFunctionOnSet(lost, Bill) => SumFunctionOnSet(put, Bill) = asked[c]
  BY <1>1, <1>2, <1>3, SpreadTakes
<1>5. \A r \in Bill \ Live : put[r] = 0
  <2>1. \A r \in Bill : put[r] \in Nat
    BY <1>4
  <2> QED BY <2>1, <1>2, <1>4
<1>6. \A r \in Bill : Lost(r) \in Nat
  BY RebateAssumption DEF TypeOK, Lost
<1> QED BY <1>1, <1>4, <1>5 DEF lost

\* The claims the pool counts.
Counted == {c \in Claim : status[c] \notin {"none", "REJECTED"}}

\* All other actions leave the ledger and the pool alone.
LEMMA LedgerSteps ==
  ASSUME TypeOK, [Next]_vars
  PROVE  \/ UNCHANGED <<row, amount, left, usage, accrued, claimed, asked, Counted>>
         \/ \E b \in Bill : Confirm(b) \/ Unlock(b) \/ CancelBooking(b)
         \/ \E b \in Bill, n \in 1..MaxAmt : Book(b, n)
         \/ \E c \in Claim : Reject(c) \/ \E n \in 1..MaxAmt : File(c, n)
<1> DEFINE Quiet == UNCHANGED <<row, amount, left, usage, accrued, claimed, asked, Counted>>
<1> USE DEF rowVars, billVars, claimVars, Counted
<1>1. ASSUME NEW b \in Bill, NEW d \in 0..MaxAmt, Create(b, d) \/ EditDiscount(b, d)
      PROVE  Quiet
  BY <1>1 DEF Create, EditDiscount
<1>2. ASSUME NEW b \in Bill, NEW c \in Claim, ApplyClaim(c, b) PROVE Quiet
  BY <1>2 DEF ApplyClaim
<1>3. ASSUME NEW b \in Bill, Relock(b) \/ Ship(b) \/ CancelDraft(b) PROVE Quiet
  BY <1>3 DEF Relock, Ship, CancelDraft
<1>4. ASSUME NEW b \in Bill, NEW bulk \in BOOLEAN, Delete(b, bulk) PROVE Quiet
  BY <1>4 DEF Delete
<1>5. ASSUME NEW c \in Claim, Approve(c) PROVE Quiet
  <2>1. status'[c] \notin {"none", "REJECTED"} /\ status[c] \notin {"none", "REJECTED"}
    BY <1>5 DEF Approve, NextTier, Pending, TypeOK
  <2>2. \A d \in Claim : d # c => status'[d] = status[d]
    BY <1>5 DEF Approve, TypeOK
  <2>3. Counted' = Counted
    BY <2>1, <2>2
  <2> QED BY <1>5, <2>3 DEF Approve
<1>6. CASE UNCHANGED vars
  BY <1>6 DEF vars
<1> HIDE DEF Quiet
<1>7. ASSUME Next, ~Quiet
      PROVE  \/ \E b \in Bill : Confirm(b) \/ Unlock(b) \/ CancelBooking(b)
             \/ \E b \in Bill, n \in 1..MaxAmt : Book(b, n)
             \/ \E c \in Claim : Reject(c) \/ \E n \in 1..MaxAmt : File(c, n)
  BY <1>7, <1>1, <1>2, <1>3, <1>4, <1>5, Zenon DEF Next
<1> QED BY <1>6, <1>7 DEF Quiet

LEMMA BlankStep ==
  ASSUME TypeOK, TypeOK', Blank, [Next]_vars
  PROVE  Blank'
<1>1. CASE UNCHANGED <<row, amount, left, usage, accrued, claimed, asked, Counted>>
  BY <1>1 DEF Blank
<1>2. ASSUME NEW b \in Bill, Confirm(b) PROVE Blank'
  <2>1. PICK take \in [Bill -> Nat] :
            /\ \A r \in Bill : take[r] <= left[r]
            /\ \A r \in Bill \ Live : take[r] = 0
            /\ SumFunctionOnSet(take, Bill) = LedgerPart(b)
            /\ CutRows(take)
            /\ usage' = [usage EXCEPT ![b] = [r \in Bill |-> usage[b][r] + take[r]]]
    BY <1>2, ConfirmTakes
  <2>2. SUFFICES ASSUME NEW r \in Bill, row'[r] = "none"
                 PROVE  /\ amount'[r] = 0 /\ left'[r] = 0
                        /\ \A x \in Bill : usage'[x][r] = 0
    BY DEF Blank
  <2>3. row[r] = "none" /\ take[r] = 0
    BY <2>1, <2>2 DEF CutRows, Live
  <2>4. amount'[r] = 0 /\ left'[r] = 0
    BY <1>2, <2>1, <2>3 DEF Confirm, CutRows, Blank
  <2>5. ASSUME NEW x \in Bill PROVE usage'[x][r] = 0
    <3>1. usage[x][r] = 0
      BY <2>3 DEF Blank
    <3> QED BY <2>1, <2>3, <3>1 DEF TypeOK
  <2> QED BY <2>4, <2>5
<1>3. ASSUME NEW b \in Bill, Unlock(b) PROVE Blank'
  BY <1>3 DEF Unlock, Blank, TypeOK, Live
<1>4. ASSUME NEW b \in Bill, CancelBooking(b) PROVE Blank'
  <2>1. SUFFICES ASSUME NEW r \in Bill, row'[r] = "none"
                 PROVE  /\ amount'[r] = 0 /\ left'[r] = 0
                        /\ \A x \in Bill : usage'[x][r] = 0
    BY DEF Blank
  <2>2. row[r] = "none"
    BY <1>4, <2>1 DEF CancelBooking, PutBack, Reopened
  <2>3. amount'[r] = 0 /\ left'[r] = 0
    BY <1>4, <2>2 DEF CancelBooking, PutBack, Blank, Live
  <2>4. ASSUME NEW x \in Bill PROVE usage'[x][r] = 0
    <3>1. usage[x][r] = 0
      BY <2>2 DEF Blank
    <3> QED BY <1>4, <3>1 DEF CancelBooking, ReversedUsage, TypeOK
  <2> QED BY <2>3, <2>4
<1>5. ASSUME NEW b \in Bill, NEW n \in 1..MaxAmt, Book(b, n) PROVE Blank'
  BY <1>5 DEF Book, Blank, TypeOK
<1>6. ASSUME NEW c \in Claim, Reject(c) PROVE Blank'
  <2>1. PICK put \in [Bill -> Nat] :
            (\A r \in Bill \ Live : put[r] = 0) /\ PutBack(put)
    BY <1>6, RejectPuts
  <2>2. amount' = amount /\ usage' = usage
    BY <1>6 DEF Reject
  <2> QED BY <2>1, <2>2 DEF PutBack, Reopened, Blank, Live
<1>7. ASSUME NEW c \in Claim, NEW n \in 1..MaxAmt, File(c, n) PROVE Blank'
  <2>1. PICK take \in [Bill -> Nat] :
            (\A r \in Bill \ Live : take[r] = 0) /\ CutRows(take)
    BY <1>7, FileTakes
  <2>2. amount' = amount /\ usage' = usage
    BY <1>7 DEF File
  <2> QED BY <2>1, <2>2 DEF CutRows, Blank, Live
<1> QED BY <1>1, <1>2, <1>3, <1>4, <1>5, <1>6, <1>7, LedgerSteps

\* The pool's total earned.
LEMMA EarnedStep ==
  ASSUME TypeOK, TypeOK', Blank, EarnedOnce, [Next]_vars
  PROVE  EarnedOnce'
<1> DEFINE All(f) == SumFunctionOnSet(f, Bill)
<1>1. SumFunction(amount) = All(amount) /\ SumFunction(amount') = All(amount')
  BY SumOfFunction DEF TypeOK
<1>2. accrued = All(amount)
  BY <1>1 DEF EarnedOnce
<1>3. CASE UNCHANGED <<amount, accrued>>
  BY <1>3 DEF EarnedOnce
<1>4. ASSUME NEW b \in Bill, NEW n \in 1..MaxAmt, Book(b, n)
      PROVE  accrued' = All(amount')
  <2>1. amount[b] = 0
    BY <1>4 DEF Book, NotBooked, Blank
  <2>2. /\ amount'[b] = n /\ accrued' = accrued + n
        /\ \A r \in Bill \ {b} : amount'[r] = amount[r]
    BY <1>4 DEF Book, TypeOK
  <2>3. n \in Int /\ \A r \in Bill : amount[r] \in Int
    BY RebateAssumption DEF TypeOK
  <2>4. All(amount') = (All(amount) - amount[b]) + amount'[b]
    BY <2>2, <2>3, RebateAssumption, SumChange
  <2>5. All(amount) \in Int
    BY <2>3, RebateAssumption, SumInteger
  <2> QED BY <1>2, <2>1, <2>2, <2>3, <2>4, <2>5
<1>5. ASSUME NEW b \in Bill, Confirm(b) \/ Unlock(b) \/ CancelBooking(b)
      PROVE  UNCHANGED <<amount, accrued>>
  BY <1>5 DEF Confirm, Unlock, CancelBooking
<1>6. ASSUME NEW c \in Claim, Reject(c) \/ \E n \in 1..MaxAmt : File(c, n)
      PROVE  UNCHANGED <<amount, accrued>>
  BY <1>6 DEF Reject, File
<1> HIDE DEF All
<1>7. CASE accrued' = All(amount')
  BY <1>1, <1>7 DEF EarnedOnce
<1> QED BY <1>3, <1>4, <1>5, <1>6, <1>7, LedgerSteps

\* The pool's total claimed.
LEMMA PoolStep ==
  ASSUME TypeOK, TypeOK', PoolMatchesClaims, [Next]_vars
  PROVE  PoolMatchesClaims'
<1> DEFINE Sum(f, S) == SumFunctionOnSet(f, S)
<1>0. /\ IsFiniteSet(Counted) /\ Counted \subseteq Claim
      /\ \A c \in Claim : asked[c] \in Nat /\ asked'[c] \in Nat
  BY RebateAssumption, FS_Subset DEF Counted, TypeOK
<1>1. claimed = Sum(asked, Counted)
  BY DEF PoolMatchesClaims, Counted
<1>2. SUFFICES claimed' = Sum(asked', Counted')
  BY DEF PoolMatchesClaims, Counted
<1>3. CASE UNCHANGED <<claimed, asked, Counted>>
  BY <1>1, <1>3
<1>4. ASSUME NEW b \in Bill, Confirm(b) \/ Unlock(b) \/ CancelBooking(b)
      PROVE  UNCHANGED <<claimed, asked, Counted>>
  <2>1. CASE Confirm(b)
    <3>1. \A c \in Claim : c \in Counted' <=> c \in Counted
      BY <2>1 DEF Confirm, Advance, Counted, TypeOK
    <3>2. Counted' = Counted
      BY <3>1 DEF Counted
    <3> QED BY <2>1, <3>2 DEF Confirm
  <2>2. CASE Unlock(b)
    BY <2>2 DEF Unlock, Counted, claimVars
  <2>3. CASE CancelBooking(b)
    <3>1. \A c \in Claim : c \in Counted' <=> c \in Counted
      BY <2>3 DEF CancelBooking, Counted
    <3>2. Counted' = Counted
      BY <3>1 DEF Counted
    <3> QED BY <2>3, <3>2 DEF CancelBooking
  <2> QED BY <1>4, <2>1, <2>2, <2>3
<1>5. ASSUME NEW b \in Bill, NEW n \in 1..MaxAmt, Book(b, n)
      PROVE  UNCHANGED <<claimed, asked, Counted>>
  BY <1>5 DEF Book, claimVars, Counted
<1>6. ASSUME NEW c \in Claim, Reject(c)
      PROVE  claimed' = Sum(asked', Counted')
  <2>1. c \in Counted /\ Counted' = Counted \ {c} /\ asked' = asked
    BY <1>6 DEF Reject, Undecided, Pending, Counted, TypeOK
  <2>2. asked[c] <= Sum(asked, Counted) /\ Sum(asked, Counted) \in Nat
    BY <1>0, <2>1, SumNatural
  <2>3. Sum(asked, Counted) = asked[c] + Sum(asked, Counted \ {c})
    BY <1>0, <2>1, SumRemove
  <2>4. Sum(asked, Counted \ {c}) \in Int
    <3>1. IsFiniteSet(Counted \ {c})
      BY <1>0, FS_RemoveElement
    <3> QED BY <1>0, <3>1, SumInteger
  <2>5. claimed' = claimed - asked[c]
    BY <1>1, <1>6, <2>2 DEF Reject, TypeOK
  <2>6. asked[c] \in Int
    BY <1>0
  <2> HIDE DEF Sum
  <2>7. claimed' = Sum(asked, Counted \ {c})
    BY <1>1, <2>3, <2>4, <2>5, <2>6
  <2> QED BY <2>1, <2>7
<1>7. ASSUME NEW c \in Claim, NEW n \in 1..MaxAmt, File(c, n)
      PROVE  claimed' = Sum(asked', Counted')
  <2>1. /\ c \notin Counted /\ Counted' = Counted \cup {c}
        /\ asked'[c] = n /\ \A d \in Counted : asked'[d] = asked[d]
        /\ claimed' = claimed + n
    BY <1>7 DEF File, Counted, TypeOK
  <2>2. Sum(asked', Counted \cup {c}) = asked'[c] + Sum(asked', Counted)
    BY <1>0, <2>1, SumWith
  <2>3. Sum(asked', Counted) = Sum(asked, Counted)
    BY <1>0, <2>1, SumSame
  <2>4. Sum(asked, Counted) \in Int /\ n \in Int
    BY <1>0, SumInteger
  <2> HIDE DEF Sum
  <2>5. claimed' = Sum(asked', Counted \cup {c})
    BY <1>1, <2>1, <2>2, <2>3, <2>4
  <2> QED BY <2>1, <2>5
<1> HIDE DEF Sum
<1> QED BY <1>3, <1>4, <1>5, <1>6, <1>7, LedgerSteps

\* Nothing is held by, or spent for, a bill before it exists, and no claim is
\* on a bill before it was approved.
LEMMA HeldStep ==
  ASSUME TypeOK, TypeOK', Fresh, Approved, [Next]_vars
  PROVE  Fresh' /\ Approved'
<1> USE DEF billVars, rowVars, claimVars
<1>1. ASSUME NEW b \in Bill, NEW d \in 0..MaxAmt, Create(b, d) \/ EditDiscount(b, d)
      PROVE  Fresh' /\ Approved'
  BY <1>1 DEF Create, EditDiscount, Fresh, Approved, TypeOK
<1>2. ASSUME NEW b \in Bill, NEW c \in Claim, ApplyClaim(c, b)
      PROVE  Fresh' /\ Approved'
  <2>1. Approved'
    BY <1>2 DEF ApplyClaim, Approved, TypeOK
  <2>2. Fresh'
    BY <1>2 DEF ApplyClaim, Fresh, TypeOK
  <2> QED BY <2>1, <2>2
<1>3. ASSUME NEW b \in Bill, NEW n \in 1..MaxAmt, Book(b, n)
      PROVE  Fresh' /\ Approved'
  BY <1>3 DEF Book, Fresh, Approved
<1>4. ASSUME NEW b \in Bill, Relock(b) \/ Ship(b) \/ Unlock(b)
      PROVE  Fresh' /\ Approved'
  BY <1>4 DEF Relock, Ship, Unlock, Fresh, Approved, TypeOK
<1>5. ASSUME NEW b \in Bill, Confirm(b)
      PROVE  Fresh' /\ Approved'
  <2>1. PICK take \in [Bill -> Nat] :
            usage' = [usage EXCEPT ![b] = [r \in Bill |-> usage[b][r] + take[r]]]
    BY <1>5, ConfirmTakes
  <2>2. \A c \in Claim : status'[c] = status[c] \/ status'[c] = "CN_ISSUED"
    BY <1>5 DEF Confirm, Advance, TypeOK
  <2>3. Approved'
    BY <1>5, <2>2 DEF Confirm, Approved
  <2>4. SUFFICES ASSUME NEW x \in Bill, stage'[x] = "none"
                 PROVE  /\ claimPart'[x] = 0
                        /\ \A c \in Claim : heldBy'[c] # x
                        /\ \A r \in Bill : usage'[x][r] = 0
    BY <2>3 DEF Fresh
  <2>5. x # b /\ stage[x] = "none"
    BY <1>5, <2>4 DEF Confirm, TypeOK
  <2>6. usage'[x] = usage[x]
    BY <2>1, <2>5 DEF TypeOK
  <2> QED BY <1>5, <2>5, <2>6 DEF Confirm, Fresh
<1>6. ASSUME NEW b \in Bill, CancelDraft(b)
      PROVE  Fresh' /\ Approved'
  BY <1>6, RebateAssumption DEF CancelDraft, FreeClaims, Fresh, Approved, TypeOK
<1>7. ASSUME NEW b \in Bill, CancelBooking(b)
      PROVE  Fresh' /\ Approved'
  <2>1. \A c \in Claim : \/ heldBy'[c] = NoBill
                         \/ heldBy'[c] = heldBy[c] /\ status'[c] = status[c]
    BY <1>7 DEF CancelBooking
  <2>2. Approved'
    BY <2>1 DEF Approved
  <2>3. \A x \in Bill : stage'[x] = "none" => x # b /\ stage[x] = "none"
    BY <1>7 DEF CancelBooking, TypeOK
  <2>4. \A x \in Bill : x # b => usage'[x] = usage[x]
    BY <1>7 DEF CancelBooking, ReversedUsage, TypeOK
  <2>5. claimPart' = claimPart
    BY <1>7 DEF CancelBooking
  <2>6. Fresh'
    BY <2>1, <2>3, <2>4, <2>5, RebateAssumption DEF Fresh
  <2> QED BY <2>2, <2>6
<1>8. ASSUME NEW b \in Bill, NEW bulk \in BOOLEAN, Delete(b, bulk)
      PROVE  Fresh' /\ Approved'
  BY <1>8, RebateAssumption DEF Delete, FreeClaims, Fresh, Approved, TypeOK
<1>9. ASSUME NEW c \in Claim, NEW n \in 1..MaxAmt, File(c, n)
      PROVE  Fresh' /\ Approved'
  BY <1>9 DEF File, Fresh, Approved, TypeOK
<1>10. ASSUME NEW c \in Claim, Approve(c) \/ Reject(c)
       PROVE  Fresh' /\ Approved'
  <2>1. heldBy' = heldBy /\ stage' = stage /\ claimPart' = claimPart /\ usage' = usage
    BY <1>10 DEF Approve, Reject
  <2>2. heldBy[c] = NoBill
    BY <1>10 DEF Approve, Reject, Undecided, Pending, Approved
  <2>3. \A x \in Claim : x # c => status'[x] = status[x]
    BY <1>10 DEF Approve, Reject, TypeOK
  <2>4. Approved'
    BY <2>1, <2>2, <2>3 DEF Approved
  <2>5. Fresh'
    BY <2>1 DEF Fresh
  <2> QED BY <2>4, <2>5
<1>11. CASE UNCHANGED vars
  BY <1>11 DEF vars, Fresh, Approved
<1> QED BY <1>1, <1>2, <1>3, <1>4, <1>5, <1>6, <1>7, <1>8, <1>9, <1>10, <1>11 DEF Next

Going(b) == stage[b] \notin {"none", "CANCELLED"}
Share == [c \in Claim |-> CustomerAmount(c)]
Holds(b) == {c \in Claim : heldBy[c] = b}

\* The two parts of a discount, the claims' and the ledger's.
ClaimsPaid == \A b \in Bill : Going(b) =>
                 claimPart[b] = SumFunctionOnSet(Share, Holds(b))
LedgerPaid == \A b \in Bill : Going(b) =>
                 SumFunctionOnSet(usage[b], Bill) =
                    IF stage[b] = "DRAFT" THEN 0 ELSE LedgerPart(b)

LEMMA DiscountParts ==
  ASSUME TypeOK
  PROVE  DiscountPaidOnce <=> ClaimsPaid /\ LedgerPaid
<1>1. \A b \in Bill : SumFunction(usage[b]) = SumFunctionOnSet(usage[b], Bill)
  BY SumOfFunction DEF TypeOK
<1> QED BY <1>1 DEF DiscountPaidOnce, ClaimsPaid, LedgerPaid, Going, Share, Holds

\* What a claim gives its customer does not change while a bill holds it.
LEMMA SharesStand ==
  ASSUME TypeOK, TypeOK', Approved, [Next]_vars
  PROVE  \A c \in Claim :
            /\ Share[c] \in Nat /\ Share'[c] \in Nat
            /\ heldBy[c] # NoBill => Share'[c] = Share[c]
<1> USE DEF billVars, rowVars, claimVars
<1> SUFFICES ASSUME NEW c \in Claim
             PROVE  /\ Share[c] \in Nat /\ Share'[c] \in Nat
                    /\ heldBy[c] # NoBill => Share'[c] = Share[c]
  OBVIOUS
<1>1. asked[c] \in Nat /\ asked'[c] \in Nat
  BY RebateAssumption DEF TypeOK
<1>2. /\ Share[c] = (asked[c] * Ratio + 50) \div 100
      /\ Share'[c] = (asked'[c] * Ratio + 50) \div 100
  BY DEF Share, CustomerAmount
<1>3. Share[c] \in Nat /\ Share'[c] \in Nat
  BY <1>1, <1>2, ShareIsNat
<1>4. ASSUME heldBy[c] # NoBill PROVE asked'[c] = asked[c]
  <2>1. status[c] # "none"
    BY <1>4 DEF Approved
  <2>2. ASSUME NEW d \in Claim, NEW n \in 1..MaxAmt, File(d, n)
        PROVE  asked'[c] = asked[c]
    BY <2>1, <2>2 DEF File, TypeOK
  <2>3. ASSUME NEW b \in Bill, NEW d \in 0..MaxAmt, Create(b, d) \/ EditDiscount(b, d)
        PROVE  asked' = asked
    BY <2>3 DEF Create, EditDiscount
  <2>4. ASSUME NEW b \in Bill, NEW d \in Claim, ApplyClaim(d, b) PROVE asked' = asked
    BY <2>4 DEF ApplyClaim
  <2>5. ASSUME NEW b \in Bill, NEW n \in 1..MaxAmt, Book(b, n) PROVE asked' = asked
    BY <2>5 DEF Book
  <2>6. ASSUME NEW b \in Bill,
               \/ Confirm(b) \/ Relock(b) \/ Ship(b) \/ Unlock(b)
               \/ CancelDraft(b) \/ CancelBooking(b)
        PROVE  asked' = asked
    BY <2>6 DEF Confirm, Relock, Ship, Unlock, CancelDraft, CancelBooking
  <2>7. ASSUME NEW b \in Bill, NEW bulk \in BOOLEAN, Delete(b, bulk) PROVE asked' = asked
    BY <2>7 DEF Delete
  <2>8. ASSUME NEW d \in Claim, Approve(d) \/ Reject(d) PROVE asked' = asked
    BY <2>8 DEF Approve, Reject
  <2>9. CASE UNCHANGED vars
    BY <2>9 DEF vars
  <2> QED BY <2>2, <2>3, <2>4, <2>5, <2>6, <2>7, <2>8, <2>9 DEF Next
<1> QED BY <1>2, <1>3, <1>4

\* The claims' part.
LEMMA ClaimsPaidStep ==
  ASSUME TypeOK, TypeOK', Fresh, Approved, ClaimsPaid, [Next]_vars
  PROVE  ClaimsPaid'
<1> USE DEF billVars, rowVars, claimVars
<1> SUFFICES ASSUME NEW x \in Bill, Going(x)'
             PROVE  claimPart'[x] = SumFunctionOnSet(Share', Holds(x)')
  BY DEF ClaimsPaid
<1> DEFINE Kept == Going(x) /\ claimPart'[x] = claimPart[x] /\ Holds(x)' = Holds(x)
<1>1. /\ IsFiniteSet(Holds(x)) /\ Holds(x) \subseteq Claim
      /\ \A c \in Holds(x) : heldBy[c] # NoBill
  BY RebateAssumption, FS_Subset DEF Holds
<1>2. /\ \A c \in Claim : Share[c] \in Int /\ Share'[c] \in Int
      /\ \A c \in Holds(x) : Share'[c] = Share[c]
  BY <1>1, SharesStand
<1>3. SumFunctionOnSet(Share', Holds(x)) = SumFunctionOnSet(Share, Holds(x))
  BY <1>1, <1>2, SumSame
<1>4. CASE Kept
  BY <1>3, <1>4 DEF ClaimsPaid
<1>5. ASSUME NEW b \in Bill, NEW d \in 0..MaxAmt, Create(b, d), b = x
      PROVE  claimPart'[x] = SumFunctionOnSet(Share', Holds(x)')
  <2>1. claimPart'[x] = 0 /\ Holds(x)' = {}
    BY <1>5 DEF Create, Fresh, Holds
  <2> QED BY <2>1, SumNothing
<1>6. ASSUME NEW b \in Bill, NEW d \in 0..MaxAmt, Create(b, d), b # x
      PROVE  Kept
  BY <1>6 DEF Create, Going, Holds, TypeOK
<1>7. ASSUME NEW b \in Bill, NEW d \in 0..MaxAmt, EditDiscount(b, d)
      PROVE  Kept
  BY <1>7 DEF EditDiscount, Going, Holds, TypeOK
<1>8. ASSUME NEW b \in Bill, NEW c \in Claim, ApplyClaim(c, b), b = x
      PROVE  claimPart'[x] = SumFunctionOnSet(Share', Holds(x)')
  <2>1. heldBy[c] = NoBill /\ c \notin Holds(x) /\ Holds(x)' = Holds(x) \cup {c}
    BY <1>8, RebateAssumption DEF ApplyClaim, Free, Holds, TypeOK
  <2>2. claimPart'[x] = claimPart[x] + Share[c] /\ Share'[c] = Share[c]
    BY <1>8 DEF ApplyClaim, Share, CustomerAmount, TypeOK
  <2>3. Going(x)
    BY <1>8 DEF ApplyClaim, Going
  <2>4. claimPart[x] = SumFunctionOnSet(Share, Holds(x))
    BY <2>3 DEF ClaimsPaid
  <2>5. SumFunctionOnSet(Share', Holds(x) \cup {c}) =
           Share'[c] + SumFunctionOnSet(Share', Holds(x))
    BY <1>1, <1>2, <2>1, SumWith
  <2>6. claimPart[x] \in Int /\ Share[c] \in Int
    BY <1>2 DEF TypeOK
  <2> QED BY <1>3, <2>1, <2>2, <2>4, <2>5, <2>6
<1>9. ASSUME NEW b \in Bill, NEW c \in Claim, ApplyClaim(c, b), b # x
      PROVE  Kept
  <2>1. heldBy[c] = NoBill /\ \A d \in Claim : heldBy'[d] = x <=> heldBy[d] = x
    BY <1>9, RebateAssumption DEF ApplyClaim, Free, TypeOK
  <2>2. Holds(x)' = Holds(x)
    BY <2>1 DEF Holds
  <2> QED BY <1>9, <2>2 DEF ApplyClaim, Going, TypeOK
<1>10. ASSUME NEW b \in Bill, NEW n \in 1..MaxAmt, Book(b, n)
       PROVE  Kept
  BY <1>10 DEF Book, Going, Holds
<1>11. ASSUME NEW b \in Bill, Confirm(b) \/ Relock(b) \/ Ship(b) \/ Unlock(b)
       PROVE  Kept
  <2>1. heldBy' = heldBy /\ claimPart' = claimPart
    BY <1>11 DEF Confirm, Relock, Ship, Unlock
  <2>2. Going(x)
    BY <1>11 DEF Confirm, Relock, Ship, Unlock, Going, TypeOK
  <2> QED BY <2>1, <2>2 DEF Holds
<1>12. ASSUME NEW b \in Bill, CancelDraft(b)
       PROVE  Kept
  <2>1. b # x /\ Going(x) /\ claimPart' = claimPart
    BY <1>12 DEF CancelDraft, Going, TypeOK
  <2>2. \A c \in Claim : heldBy'[c] = x <=> heldBy[c] = x
    BY <1>12, <2>1, RebateAssumption DEF CancelDraft, FreeClaims
  <2> QED BY <2>1, <2>2 DEF Holds
<1>13. ASSUME NEW b \in Bill, CancelBooking(b)
       PROVE  Kept
  <2>1. b # x /\ Going(x) /\ claimPart' = claimPart
    BY <1>13 DEF CancelBooking, Going, TypeOK
  <2>2. \A c \in Claim : heldBy'[c] = x <=> heldBy[c] = x
    BY <1>13, <2>1, RebateAssumption DEF CancelBooking
  <2> QED BY <2>1, <2>2 DEF Holds
<1>14. ASSUME NEW b \in Bill, NEW bulk \in BOOLEAN, Delete(b, bulk)
       PROVE  Kept
  <2>1. b # x /\ Going(x) /\ claimPart' = claimPart
    BY <1>14 DEF Delete, Going, TypeOK
  <2>2. \A c \in Claim : heldBy'[c] = x <=> heldBy[c] = x
    BY <1>14, <2>1, RebateAssumption DEF Delete, FreeClaims
  <2> QED BY <2>1, <2>2 DEF Holds
<1>15. ASSUME NEW c \in Claim, \E n \in 1..MaxAmt : File(c, n)
       PROVE  Kept
  BY <1>15 DEF File, Going, Holds
<1>16. ASSUME NEW c \in Claim, Approve(c) \/ Reject(c)
       PROVE  Kept
  BY <1>16 DEF Approve, Reject, Going, Holds
<1>17. CASE UNCHANGED vars
  <2>1. Kept
    BY <1>17 DEF vars, Going, Holds
  <2> QED BY <1>4, <2>1
<1> HIDE DEF Kept
<1> QED BY <1>4, <1>5, <1>6, <1>7, <1>8, <1>9, <1>10, <1>11, <1>12, <1>13, <1>14,
           <1>15, <1>16, <1>17 DEF Next

\* The ledger's part: spent in full when the bill is confirmed, and once.
LEMMA LedgerPaidStep ==
  ASSUME TypeOK, TypeOK', Fresh, LedgerPaid, [Next]_vars
  PROVE  LedgerPaid'
<1> USE DEF billVars, rowVars, claimVars
<1> SUFFICES ASSUME NEW x \in Bill, Going(x)'
             PROVE  SumFunctionOnSet(usage'[x], Bill) =
                       IF stage'[x] = "DRAFT" THEN 0 ELSE LedgerPart(x)'
  BY DEF LedgerPaid
<1> DEFINE Paid == SumFunctionOnSet(usage'[x], Bill) =
                       IF stage'[x] = "DRAFT" THEN 0 ELSE LedgerPart(x)'
           Kept == /\ Going(x) /\ usage'[x] = usage[x]
                   /\ stage'[x] = "DRAFT" <=> stage[x] = "DRAFT"
                   /\ stage[x] = "DRAFT" \/ UNCHANGED <<discount[x], claimPart[x]>>
<1>1. CASE Kept
  BY <1>1 DEF LedgerPaid, LedgerPart
<1>2. ASSUME NEW b \in Bill, NEW d \in 0..MaxAmt, Create(b, d), b = x
      PROVE  Paid
  <2>1. stage'[x] = "DRAFT" /\ usage' = usage
    BY <1>2 DEF Create, TypeOK
  <2>2. \A r \in Bill : usage[x][r] = 0
    BY <1>2 DEF Create, Fresh
  <2>3. SumFunctionOnSet(usage[x], Bill) = 0
    BY <2>2, RebateAssumption, SumZeros
  <2> QED BY <2>1, <2>3
<1>3. ASSUME NEW b \in Bill, NEW d \in 0..MaxAmt, Create(b, d), b # x
      PROVE  Kept
  BY <1>3 DEF Create, Going, TypeOK
<1>4. ASSUME NEW b \in Bill, NEW d \in 0..MaxAmt, EditDiscount(b, d)
      PROVE  Kept
  BY <1>4 DEF EditDiscount, Going, TypeOK
<1>5. ASSUME NEW b \in Bill, NEW c \in Claim, ApplyClaim(c, b)
      PROVE  Kept
  BY <1>5 DEF ApplyClaim, Going, TypeOK
<1>6. ASSUME NEW b \in Bill, NEW n \in 1..MaxAmt, Book(b, n)
      PROVE  Kept
  BY <1>6 DEF Book, Going
<1>7. ASSUME NEW b \in Bill, Confirm(b)
      PROVE  Paid \/ Kept
  <2>1. PICK take \in [Bill -> Nat] :
            /\ SumFunctionOnSet(take, Bill) = LedgerPart(b)
            /\ usage' = [usage EXCEPT ![b] = [r \in Bill |-> usage[b][r] + take[r]]]
    BY <1>7, ConfirmTakes
  <2>2. CASE b = x
    <3>1. /\ stage'[x] = "CONFIRMED" /\ LedgerPart(x)' = LedgerPart(x)
          /\ stage[x] = "DRAFT" /\ Going(x)
      BY <1>7, <2>2 DEF Confirm, LedgerPart, TypeOK, Going
    <3>2. \A r \in Bill : /\ usage[x][r] \in Int /\ take[r] \in Int
                          /\ usage'[x][r] = usage[x][r] + take[r]
      BY <2>1, <2>2 DEF TypeOK
    <3>3. SumFunctionOnSet(usage'[x], Bill) =
             SumFunctionOnSet(usage[x], Bill) + SumFunctionOnSet(take, Bill)
      BY <3>2, RebateAssumption, SumPlus
    <3>4. SumFunctionOnSet(usage[x], Bill) = 0
      BY <3>1 DEF LedgerPaid
    <3>5. LedgerPart(x) \in Int
      BY DEF LedgerPart, TypeOK
    <3> QED BY <2>1, <2>2, <3>1, <3>3, <3>4, <3>5
  <2>3. CASE b # x
    BY <1>7, <2>1, <2>3 DEF Confirm, Going, TypeOK
  <2> QED BY <2>2, <2>3
<1>8. ASSUME NEW b \in Bill, Relock(b) \/ Ship(b) \/ Unlock(b)
      PROVE  Kept
  BY <1>8 DEF Relock, Ship, Unlock, Going, TypeOK
<1>9. ASSUME NEW b \in Bill, CancelDraft(b)
      PROVE  Kept
  BY <1>9 DEF CancelDraft, Going, TypeOK
<1>10. ASSUME NEW b \in Bill, CancelBooking(b)
       PROVE  Kept
  <2>1. b # x
    BY <1>10 DEF CancelBooking, Going, TypeOK
  <2> QED BY <1>10, <2>1 DEF CancelBooking, ReversedUsage, Going, TypeOK
<1>11. ASSUME NEW b \in Bill, NEW bulk \in BOOLEAN, Delete(b, bulk)
       PROVE  Kept
  BY <1>11 DEF Delete, Going, TypeOK
<1>12. ASSUME NEW c \in Claim, \E n \in 1..MaxAmt : File(c, n)
       PROVE  Kept
  BY <1>12 DEF File, Going
<1>13. ASSUME NEW c \in Claim, Approve(c) \/ Reject(c)
       PROVE  Kept
  BY <1>13 DEF Approve, Reject, Going
<1>14. CASE UNCHANGED vars
  <2>1. Kept
    BY <1>14 DEF vars, Going
  <2> QED BY <1>1, <2>1
<1>15. CASE Paid
  BY <1>15
<1> HIDE DEF Kept, Paid
<1> QED BY <1>1, <1>2, <1>3, <1>4, <1>5, <1>6, <1>7, <1>8, <1>9, <1>10, <1>11,
           <1>12, <1>13, <1>14, <1>15 DEF Next

NoneReversed == \A r \in Bill : row[r] # "REVERSED"
Drawn == [b \in Bill |-> SumFunctionOnSet(usage[b], Bill)]

\* What was earned is what remains, plus what bills drew, plus what claims took.
Balance == accrued = (SumFunctionOnSet(left, Bill) + SumFunctionOnSet(Drawn, Bill)) + claimed

LEMMA DrawnIsNat == ASSUME TypeOK PROVE \A b \in Bill : Drawn[b] \in Nat
<1> TAKE b \in Bill
<1>1. SumFunctionOnSet(usage[b], Bill) \in Nat
  BY RebateAssumption, SumNatural DEF TypeOK
<1> QED BY <1>1 DEF Drawn

\* Before a row is reversed, all that bills drew counts as used.
LEMMA UsedIsDrawn ==
  ASSUME TypeOK, Blank, NoneReversed
  PROVE  Used = SumFunctionOnSet(Drawn, Bill)
<1>1. Live \subseteq Bill /\ IsFiniteSet(Live) /\ IsFiniteSet(Bill \ Live)
  BY RebateAssumption, FS_Subset DEF Live
<1>2. ASSUME NEW b \in Bill PROVE SumFunctionOnSet(usage[b], Live) = Drawn[b]
  <2>1. \A r \in Bill : usage[b][r] \in Int
    BY DEF TypeOK
  <2>2. \A r \in Bill \ Live : usage[b][r] = 0
    BY DEF TypeOK, Live, NoneReversed, Blank
  <2>3. SumFunctionOnSet(usage[b], Bill \ Live) = 0
    BY <1>1, <2>2, SumZeros
  <2>4. SumFunctionOnSet(usage[b], Bill) =
           SumFunctionOnSet(usage[b], Live) + SumFunctionOnSet(usage[b], Bill \ Live)
    BY <1>1, <2>1, RebateAssumption, SumSplit
  <2>5. SumFunctionOnSet(usage[b], Live) \in Int
    BY <1>1, <2>1, SumInteger
  <2> QED BY <2>3, <2>4, <2>5 DEF Drawn
<1>3. [b \in Bill |-> SumFunctionOnSet(usage[b], Live)] = Drawn
  BY <1>2 DEF Drawn
<1>4. SumFunction(Drawn) = SumFunctionOnSet(Drawn, Bill)
  BY SumOfFunction DEF Drawn
<1> QED BY <1>3, <1>4 DEF Used

LEMMA MoneyIsBalance ==
  ASSUME TypeOK, Blank
  PROVE  MoneyConserved <=> (NoneReversed => Balance)
<1>1. SumFunction(left) = SumFunctionOnSet(left, Bill)
  BY SumOfFunction DEF TypeOK
<1> QED BY <1>1, UsedIsDrawn DEF MoneyConserved, NoneReversed, Balance

\* A reversed row stays reversed.
LEMMA ReversedForGood ==
  ASSUME TypeOK, [Next]_vars, NoneReversed'
  PROVE  NoneReversed
<1> SUFFICES ASSUME NEW r \in Bill, row[r] = "REVERSED" PROVE row'[r] = "REVERSED"
  BY DEF NoneReversed
<1>1. CASE UNCHANGED row
  BY <1>1
<1>2. ASSUME NEW b \in Bill, Confirm(b) PROVE row'[r] = "REVERSED"
  <2>1. PICK take \in [Bill -> Nat] :
            (\A s \in Bill \ Live : take[s] = 0) /\ CutRows(take)
    BY <1>2, ConfirmTakes
  <2> QED BY <2>1 DEF CutRows, Live
<1>3. ASSUME NEW b \in Bill, Unlock(b) PROVE row'[r] = "REVERSED"
  BY <1>3 DEF Unlock, TypeOK
<1>4. ASSUME NEW b \in Bill, CancelBooking(b) PROVE row'[r] = "REVERSED"
  BY <1>4 DEF CancelBooking, PutBack, Reopened
<1>5. ASSUME NEW b \in Bill, NEW n \in 1..MaxAmt, Book(b, n) PROVE row'[r] = "REVERSED"
  BY <1>5 DEF Book, NotBooked, TypeOK
<1>6. ASSUME NEW c \in Claim, Reject(c) PROVE row'[r] = "REVERSED"
  <2>1. \E put \in [Bill -> Nat] : PutBack(put)
    BY <1>6, RejectPuts
  <2> QED BY <2>1 DEF PutBack, Reopened
<1>7. ASSUME NEW c \in Claim, NEW n \in 1..MaxAmt, File(c, n) PROVE row'[r] = "REVERSED"
  <2>1. PICK take \in [Bill -> Nat] :
            (\A s \in Bill \ Live : take[s] = 0) /\ CutRows(take)
    BY <1>7, FileTakes
  <2> QED BY <2>1 DEF CutRows, Live
<1> QED BY <1>1, <1>2, <1>3, <1>4, <1>5, <1>6, <1>7, LedgerSteps

\* The rows after a cut, and after money was put back.
LEMMA LeftAfterCut ==
  ASSUME TypeOK, NEW take \in [Bill -> Nat], CutRows(take)
  PROVE  /\ SumFunctionOnSet(left', Bill) \in Int /\ SumFunctionOnSet(take, Bill) \in Int
         /\ SumFunctionOnSet(left, Bill) =
               SumFunctionOnSet(left', Bill) + SumFunctionOnSet(take, Bill)
<1>1. \A r \in Bill : /\ left[r] \in Int /\ take[r] \in Int
                      /\ left'[r] = left[r] - take[r]
  BY DEF TypeOK, CutRows
<1>2. \A r \in Bill : left'[r] \in Int /\ left[r] = left'[r] + take[r]
  BY <1>1
<1>3. \A r \in Bill : take[r] \in Int
  BY <1>1
<1>4. SumFunctionOnSet(left, Bill) =
         SumFunctionOnSet(left', Bill) + SumFunctionOnSet(take, Bill)
  BY <1>2, <1>3, RebateAssumption, SumPlus
<1> QED BY <1>2, <1>3, <1>4, RebateAssumption, SumInteger

LEMMA LeftAfterPut ==
  ASSUME TypeOK, NEW put \in [Bill -> Nat], PutBack(put)
  PROVE  SumFunctionOnSet(left', Bill) =
            SumFunctionOnSet(left, Bill) + SumFunctionOnSet(put, Bill)
<1>1. \A r \in Bill : /\ left[r] \in Int /\ put[r] \in Int
                      /\ left'[r] = left[r] + put[r]
  BY DEF TypeOK, PutBack
<1> QED BY <1>1, RebateAssumption, SumPlus

\* What all bills drew, when one bill's part changes.
LEMMA DrawnAfter ==
  ASSUME TypeOK, TypeOK', NEW b \in Bill,
         \A x \in Bill \ {b} : usage'[x] = usage[x]
  PROVE  SumFunctionOnSet(Drawn', Bill) =
            (SumFunctionOnSet(Drawn, Bill) - SumFunctionOnSet(usage[b], Bill))
               + SumFunctionOnSet(usage'[b], Bill)
<1>1. \A x \in Bill \ {b} : Drawn'[x] = Drawn[x]
  BY DEF Drawn
<1>2. /\ Drawn[b] = SumFunctionOnSet(usage[b], Bill)
      /\ Drawn'[b] = SumFunctionOnSet(usage'[b], Bill)
  BY DEF Drawn
<1>3. \A x \in Bill : Drawn[x] \in Int
  BY DrawnIsNat
<1>4. Drawn'[b] \in Int
  <2>1. \A r \in Bill : usage'[b][r] \in Int
    BY DEF TypeOK
  <2> QED BY <1>2, <2>1, RebateAssumption, SumInteger
<1> QED BY <1>1, <1>2, <1>3, <1>4, RebateAssumption, SumChange

LEMMA BalanceStep ==
  ASSUME TypeOK, TypeOK', Blank, EarnedOnce, PoolMatchesClaims, NoneReversed,
         NoneReversed', Balance, [Next]_vars
  PROVE  Balance'
<1> DEFINE Sum(f) == SumFunctionOnSet(f, Bill)
<1>0. /\ Sum(left) \in Int /\ Sum(Drawn) \in Nat
      /\ accrued \in Int /\ claimed \in Int
      /\ accrued = (Sum(left) + Sum(Drawn)) + claimed
  <2>1. Sum(left) \in Int
    BY RebateAssumption, SumInteger DEF TypeOK
  <2>2. Sum(Drawn) \in Nat
    BY RebateAssumption, DrawnIsNat, SumNatural
  <2> QED BY <2>1, <2>2 DEF TypeOK, Balance
<1> SUFFICES accrued' = (Sum(left') + Sum(Drawn')) + claimed'
  BY DEF Balance
<1> DEFINE Balanced == accrued' = (Sum(left') + Sum(Drawn')) + claimed'
<1> HIDE DEF Sum
<1>1. CASE UNCHANGED <<left, usage, accrued, claimed>>
  <2>1. Drawn' = Drawn
    BY <1>1 DEF Drawn
  <2> QED BY <1>0, <1>1, <2>1
<1>2. ASSUME NEW b \in Bill, Unlock(b) PROVE UNCHANGED <<left, usage, accrued, claimed>>
  BY <1>2 DEF Unlock
<1>3. ASSUME NEW b \in Bill, Confirm(b) PROVE Balanced
  <2>1. PICK take \in [Bill -> Nat] :
            /\ CutRows(take)
            /\ usage' = [usage EXCEPT ![b] = [r \in Bill |-> usage[b][r] + take[r]]]
    BY <1>3, ConfirmTakes
  <2>2. Sum(left') \in Int /\ Sum(take) \in Int /\ Sum(left) = Sum(left') + Sum(take)
    BY <2>1, LeftAfterCut DEF Sum
  <2>3. \A r \in Bill : /\ usage[b][r] \in Int /\ take[r] \in Int
                        /\ usage'[b][r] = usage[b][r] + take[r]
    BY <2>1 DEF TypeOK
  <2>4. Sum(usage'[b]) = Sum(usage[b]) + Sum(take)
    BY <2>3, RebateAssumption, SumPlus DEF Sum
  <2>5. Sum(usage[b]) \in Int
    BY <2>3, RebateAssumption, SumInteger DEF Sum
  <2>6. \A x \in Bill \ {b} : usage'[x] = usage[x]
    BY <2>1 DEF TypeOK
  <2>7. Sum(Drawn') = (Sum(Drawn) - Sum(usage[b])) + Sum(usage'[b])
    BY <2>6, DrawnAfter DEF Sum
  <2>8. accrued' = accrued /\ claimed' = claimed
    BY <1>3 DEF Confirm
  <2> QED BY <1>0, <2>2, <2>4, <2>5, <2>7, <2>8
<1>4. ASSUME NEW b \in Bill, CancelBooking(b) PROVE Balanced
  <2> DEFINE put == [r \in Bill |-> IF r \in Live THEN usage[b][r] ELSE 0]
  <2>1. PutBack(put) /\ put \in [Bill -> Nat]
    BY <1>4 DEF CancelBooking, TypeOK
  <2>2. \A r \in Bill : usage[b][r] \in Int /\ put[r] = usage[b][r]
    BY DEF TypeOK, Live, NoneReversed, Blank
  <2> HIDE DEF put
  <2>3. Sum(put) = Sum(usage[b]) /\ Sum(usage[b]) \in Int
    BY <2>2, RebateAssumption, SumSame, SumInteger DEF Sum
  <2>4. Sum(left') = Sum(left) + Sum(put)
    BY <2>1, LeftAfterPut DEF Sum
  <2>5. /\ \A r \in Bill : usage'[b][r] = 0
        /\ \A x \in Bill \ {b} : usage'[x] = usage[x]
    BY <1>4 DEF CancelBooking, ReversedUsage, TypeOK
  <2>6. Sum(usage'[b]) = 0
    BY <2>5, RebateAssumption, SumZeros DEF Sum
  <2>7. Sum(Drawn') = (Sum(Drawn) - Sum(usage[b])) + Sum(usage'[b])
    BY <2>5, DrawnAfter DEF Sum
  <2>8. accrued' = accrued /\ claimed' = claimed
    BY <1>4 DEF CancelBooking
  <2> QED BY <1>0, <2>3, <2>4, <2>6, <2>7, <2>8
<1>5. ASSUME NEW b \in Bill, NEW n \in 1..MaxAmt, Book(b, n) PROVE Balanced
  <2>1. left[b] = 0
    BY <1>5 DEF Book, NotBooked, Blank
  <2>2. /\ left'[b] = n /\ accrued' = accrued + n /\ claimed' = claimed
        /\ \A r \in Bill \ {b} : left'[r] = left[r]
        /\ usage' = usage
    BY <1>5 DEF Book, TypeOK
  <2>3. n \in Int /\ \A r \in Bill : left[r] \in Int
    BY RebateAssumption DEF TypeOK
  <2>4. Sum(left') = (Sum(left) - left[b]) + left'[b]
    BY <2>2, <2>3, RebateAssumption, SumChange DEF Sum
  <2>5. Drawn' = Drawn
    BY <2>2 DEF Drawn
  <2> QED BY <1>0, <2>1, <2>2, <2>3, <2>4, <2>5
<1>6. ASSUME NEW c \in Claim, NEW n \in 1..MaxAmt, File(c, n) PROVE Balanced
  <2>1. PICK take \in [Bill -> Nat] :
            SumFunctionOnSet(take, Bill) = n /\ CutRows(take)
    BY <1>6, FileTakes
  <2>2. Sum(left') \in Int /\ Sum(take) \in Int /\ Sum(left) = Sum(left') + Sum(take)
    BY <2>1, LeftAfterCut DEF Sum
  <2>3. Sum(take) = n
    BY <2>1 DEF Sum
  <2>4. accrued' = accrued /\ claimed' = claimed + n /\ usage' = usage
    BY <1>6 DEF File
  <2>5. Drawn' = Drawn
    BY <2>4 DEF Drawn
  <2> QED BY <1>0, <2>2, <2>3, <2>4, <2>5
<1>7. ASSUME NEW c \in Claim, Reject(c) PROVE Balanced
  <2> DEFINE lost == [r \in Bill |-> Lost(r)]
             short == [r \in Bill |-> amount[r] - left[r]]
  <2>1. PICK put \in [Bill -> Nat] :
            /\ asked[c] <= Sum(lost) => Sum(put) = asked[c]
            /\ PutBack(put)
    BY <1>7, RejectPuts DEF Sum
  <2>2. \A r \in Bill : /\ short[r] \in Int /\ lost[r] \in Int /\ short[r] <= lost[r]
                        /\ amount[r] \in Int /\ left[r] \in Int
                        /\ amount[r] = left[r] + short[r]
    <3>1. \A r \in Bill : amount[r] \in Nat /\ left[r] \in Nat
      BY RebateAssumption DEF TypeOK
    <3>2. \A r \in Bill : r \notin Live => amount[r] = 0 /\ left[r] = 0
      BY DEF TypeOK, Live, NoneReversed, Blank
    <3> QED BY <3>1, <3>2 DEF Lost
  <2> HIDE DEF lost, short
  <2>3. Sum(short) <= Sum(lost) /\ Sum(short) \in Int /\ Sum(lost) \in Int
    BY <2>2, RebateAssumption, SumAtMost, SumInteger DEF Sum
  <2>4. Sum(amount) = Sum(left) + Sum(short)
    BY <2>2, RebateAssumption, SumPlus DEF Sum
  <2>5. accrued = Sum(amount)
    BY SumOfFunction DEF EarnedOnce, Sum, TypeOK
  <2>6. asked[c] \in Nat /\ asked[c] <= claimed
    <3>1. c \in Counted /\ IsFiniteSet(Counted) /\ Counted \subseteq Claim
      BY <1>7, RebateAssumption, FS_Subset DEF Reject, Undecided, Pending, Counted
    <3>2. \A d \in Counted : asked[d] \in Nat
      BY <3>1, RebateAssumption DEF TypeOK
    <3>3. claimed = SumFunctionOnSet(asked, Counted)
      BY DEF PoolMatchesClaims, Counted
    <3> QED BY <3>1, <3>2, <3>3, SumNatural
  <2>7. asked[c] <= Sum(lost)
    BY <1>0, <2>3, <2>4, <2>5, <2>6
  <2>8. Sum(left') = Sum(left) + Sum(put)
    BY <2>1, LeftAfterPut DEF Sum
  <2>9. accrued' = accrued /\ usage' = usage /\ claimed' = claimed - asked[c]
    BY <1>7, <2>6 DEF Reject
  <2>10. Drawn' = Drawn
    BY <2>9 DEF Drawn
  <2>11. Sum(put) = asked[c]
    BY <2>1, <2>7
  <2> QED BY <1>0, <2>6, <2>8, <2>9, <2>10, <2>11
<1>8. CASE Balanced
  BY <1>8
<1> HIDE DEF Balanced
<1> QED BY <1>1, <1>2, <1>3, <1>4, <1>5, <1>6, <1>7, <1>8, LedgerSteps

\* The inductive invariant: the sums, and what they rest on.
MoneyInv ==
    /\ TypeOK /\ NothingStranded
    /\ Blank /\ Fresh /\ Approved
    /\ EarnedOnce /\ PoolMatchesClaims /\ DiscountPaidOnce /\ MoneyConserved

LEMMA InitMoney == Init => MoneyInv
<1> SUFFICES ASSUME Init PROVE MoneyInv
  OBVIOUS
<1>1. TypeOK /\ NothingStranded
  BY InitInv
<1>2. Blank /\ Fresh /\ Approved
  BY RebateAssumption DEF Init, Blank, Fresh, Approved
<1>3. EarnedOnce
  <2>1. SumFunction(amount) = SumFunctionOnSet(amount, Bill)
    BY SumOfFunction DEF Init
  <2>2. \A r \in Bill : amount[r] = 0
    BY DEF Init
  <2>3. SumFunctionOnSet(amount, Bill) = 0
    BY <2>2, RebateAssumption, SumZeros
  <2> QED BY <2>1, <2>3 DEF EarnedOnce, Init
<1>4. PoolMatchesClaims
  <2>1. Counted = {}
    BY DEF Init, Counted
  <2> QED BY <2>1, SumNothing DEF PoolMatchesClaims, Counted, Init
<1>5. DiscountPaidOnce
  BY DEF DiscountPaidOnce, Init
<1>6. MoneyConserved
  <2>1. \A r \in Bill : left[r] = 0 /\ Drawn[r] = 0
    <3>1. \A r, s \in Bill : usage[r][s] = 0 /\ left[r] = 0
      BY DEF Init
    <3>2. \A r \in Bill : SumFunctionOnSet(usage[r], Bill) = 0
      BY <3>1, RebateAssumption, SumZeros
    <3> QED BY <3>1, <3>2 DEF Drawn
  <2>2. SumFunctionOnSet(left, Bill) = 0 /\ SumFunctionOnSet(Drawn, Bill) = 0
    BY <2>1, RebateAssumption, SumZeros
  <2>3. Balance
    BY <2>2 DEF Balance, Init
  <2> QED BY <1>1, <1>2, <2>3, MoneyIsBalance
<1> QED BY <1>1, <1>2, <1>3, <1>4, <1>5, <1>6 DEF MoneyInv

LEMMA StepMoney == MoneyInv /\ [Next]_vars => MoneyInv'
<1> SUFFICES ASSUME MoneyInv, [Next]_vars PROVE MoneyInv'
  OBVIOUS
<1> USE DEF MoneyInv
<1>1. TypeOK' /\ NothingStranded'
  BY StepInv
<1>2. Blank'
  BY <1>1, BlankStep
<1>3. Fresh' /\ Approved'
  BY <1>1, HeldStep
<1>4. EarnedOnce'
  BY <1>1, EarnedStep
<1>5. PoolMatchesClaims'
  BY <1>1, PoolStep
<1>6. DiscountPaidOnce'
  <2>1. ClaimsPaid /\ LedgerPaid
    BY DiscountParts
  <2>2. ClaimsPaid' /\ LedgerPaid'
    BY <1>1, <2>1, ClaimsPaidStep, LedgerPaidStep
  <2>3. TypeOK' => (DiscountPaidOnce' <=> ClaimsPaid' /\ LedgerPaid')
    BY DiscountParts, PTL
  <2> QED BY <1>1, <2>2, <2>3
<1>7. MoneyConserved'
  <2>1. NoneReversed => Balance
    BY MoneyIsBalance
  <2>2. NoneReversed' => Balance'
    BY <1>1, <2>1, ReversedForGood, BalanceStep
  <2>3. TypeOK' /\ Blank' => (MoneyConserved' <=> (NoneReversed' => Balance'))
    BY MoneyIsBalance, PTL
  <2> QED BY <1>1, <1>2, <2>2, <2>3
<1> QED BY <1>1, <1>2, <1>3, <1>4, <1>5, <1>6, <1>7

LEMMA MoneyAlways == Spec => []MoneyInv
  BY InitMoney, StepMoney, PTL DEF Spec

\* ClaimedAmt of the pool is what its claims that were not rejected ask for,
\* whatever was filed, approved, rejected or cancelled in between (the claim
\* routes add and take away, none recomputes it).
THEOREM PoolAddsUp == Spec => []PoolMatchesClaims
<1>1. MoneyInv => PoolMatchesClaims
  BY DEF MoneyInv
<1> QED BY <1>1, MoneyAlways, PTL

\* The pool's total earned is the sum of the rows ever booked: no repeated
\* shipment and no recovery earns a bill's rebate twice (bookRebateAccrual).
THEOREM RebateEarnedOnce == Spec => []EarnedOnce
<1>1. MoneyInv => EarnedOnce
  BY DEF MoneyInv
<1> QED BY <1>1, MoneyAlways, PTL

\* Every discount is paid for once: by the claims the bill holds, and, when it
\* is confirmed, by the ledger rows it drew on (confirmDraft and rebate-claim-apply).
THEOREM DiscountsPaidOnce == Spec => []DiscountPaidOnce
<1>1. MoneyInv => DiscountPaidOnce
  BY DEF MoneyInv
<1> QED BY <1>1, MoneyAlways, PTL

\* As long as no row was reversed, no order of filing, rejecting, confirming
\* and cancelling creates or loses money: in particular a rejection finds room
\* on the live rows for all that its claim took.
THEOREM MoneyIsConserved == Spec => []MoneyConserved
<1>1. MoneyInv => MoneyConserved
  BY DEF MoneyInv
<1> QED BY <1>1, MoneyAlways, PTL

-----------------------------------------------------------------------------
(* The loops over the rows.  The model gives them by what they take; that  *)
(* there is exactly one such way is what makes it the loop of the code and *)
(* not a choice.                                                           *)

\* What may be taken when the rows are visited in the order of rank.
Takes(n, room, rank) ==
    {take \in [Bill -> 0..n] :
        /\ \A r \in Bill : take[r] <= room[r]
        /\ SumFunctionOnSet(take, Bill) = Lesser(n, SumFunctionOnSet(room, Bill))
        /\ \A r, s \in Bill :
              rank[s] < rank[r] /\ take[r] > 0 => take[s] = room[s]}

OneWay(S) == \E take : S = {take}

\* Rows that have something to give are visited one after the other.
Ranked(room, rank) ==
    \A r, s \in Bill : room[r] > 0 /\ room[s] > 0 /\ rank[r] = rank[s] => r = s

\* A finite set of rows has one of least rank.
LEMMA Least ==
  ASSUME NEW D, IsFiniteSet(D), D # {}, NEW rank, \A r \in D : rank[r] \in Int
  PROVE  \E m \in D : \A s \in D : rank[m] <= rank[s]
<1> DEFINE A == {T \in SUBSET D : T = {} \/ \E m \in T : \A s \in T : rank[m] <= rank[s]}
<1>1. {} \in A
  OBVIOUS
<1>2. ASSUME NEW T \in SUBSET D, NEW x \in D \ T, T \in A PROVE T \cup {x} \in A
  <2>1. CASE T = {}
    <3>1. \A s \in T \cup {x} : rank[x] <= rank[s]
      BY <2>1
    <3> QED BY <3>1
  <2>2. CASE T # {}
    <3>1. PICK m \in T : \A s \in T : rank[m] <= rank[s]
      BY <1>2, <2>2
    <3>2. CASE rank[m] <= rank[x]
      <4>1. \A s \in T \cup {x} : rank[m] <= rank[s]
        BY <3>1, <3>2
      <4> QED BY <4>1
    <3>3. CASE ~(rank[m] <= rank[x])
      <4>1. \A s \in T \cup {x} : rank[x] <= rank[s]
        BY <3>1, <3>3
      <4> QED BY <4>1
    <3> QED BY <3>2, <3>3
  <2> QED BY <2>1, <2>2
<1> HIDE DEF A
<1>3. D \in A
  BY <1>1, <1>2, FinitesIn
<1> QED BY <1>3 DEF A

\* Two ways to take the same amount do not differ: a row that gives less in
\* one is made up for by another, and whichever of them comes first gave all.
LEMMA TakesAtMostOne ==
  ASSUME NEW n \in Nat, NEW room \in [Bill -> Nat], NEW rank \in [Bill -> Int],
         Ranked(room, rank),
         NEW t \in Takes(n, room, rank), NEW u \in Takes(n, room, rank)
  PROVE  t = u
<1>1. /\ t \in [Bill -> Nat] /\ u \in [Bill -> Nat]
      /\ \A r \in Bill : t[r] <= room[r] /\ u[r] <= room[r]
      /\ SumFunctionOnSet(t, Bill) = SumFunctionOnSet(u, Bill)
      /\ \A r, s \in Bill : rank[s] < rank[r] /\ t[r] > 0 => t[s] = room[s]
      /\ \A r, s \in Bill : rank[s] < rank[r] /\ u[r] > 0 => u[s] = room[s]
  BY DEF Takes
<1>2. ASSUME NEW f \in [Bill -> Nat], NEW g \in [Bill -> Nat],
             \A x \in Bill : f[x] <= g[x], NEW y \in Bill, f[y] < g[y]
      PROVE  SumFunctionOnSet(f, Bill) # SumFunctionOnSet(g, Bill)
  <2>1. IsFiniteSet(Bill \ {y})
    BY RebateAssumption, FS_Subset
  <2>2. SumFunctionOnSet(f, Bill \ {y}) <= SumFunctionOnSet(g, Bill \ {y})
    BY <1>2, <2>1, SumAtMost
  <2>3. /\ SumFunctionOnSet(f, Bill \ {y}) \in Int
        /\ SumFunctionOnSet(g, Bill \ {y}) \in Int
    BY <2>1, SumInteger
  <2>4. SumFunctionOnSet(f, Bill) = f[y] + SumFunctionOnSet(f, Bill \ {y})
    BY RebateAssumption, SumRemove
  <2>5. SumFunctionOnSet(g, Bill) = g[y] + SumFunctionOnSet(g, Bill \ {y})
    BY RebateAssumption, SumRemove
  <2>6. \A a, b, c, d \in Int : a < b /\ c <= d => a + c # b + d
    OBVIOUS
  <2>7. f[y] \in Int /\ g[y] \in Int
    OBVIOUS
  <2> QED BY <1>2, <2>2, <2>3, <2>4, <2>5, <2>6, <2>7
<1>3. ASSUME NEW r \in Bill, NEW s \in Bill, t[r] < u[r], u[s] < t[s] PROVE FALSE
  <2>1. /\ t[r] \in Nat /\ u[r] \in Nat /\ room[r] \in Nat /\ rank[r] \in Int
        /\ t[s] \in Nat /\ u[s] \in Nat /\ room[s] \in Nat /\ rank[s] \in Int
    BY <1>1
  <2>2. room[r] > 0 /\ room[s] > 0 /\ u[r] > 0 /\ t[s] > 0
    BY <1>1, <1>3, <2>1
  <2>3. rank[r] # rank[s]
    BY <1>3, <2>1, <2>2 DEF Ranked
  <2>4. ~(rank[s] < rank[r])
    BY <1>1, <1>3, <2>1, <2>2
  <2>5. ~(rank[r] < rank[s])
    BY <1>1, <1>3, <2>1, <2>2
  <2> QED BY <2>1, <2>3, <2>4, <2>5
<1>4. ASSUME NEW r \in Bill, t[r] < u[r] PROVE FALSE
  <2>1. \A s \in Bill : t[s] <= u[s]
    BY <1>1, <1>3, <1>4
  <2> QED BY <1>1, <1>2, <1>4, <2>1
<1>5. ASSUME NEW r \in Bill, u[r] < t[r] PROVE FALSE
  <2>1. \A s \in Bill : u[s] <= t[s]
    BY <1>1, <1>3, <1>5
  <2> QED BY <1>1, <1>2, <1>5, <2>1
<1>6. \A r \in Bill : t[r] = u[r]
  BY <1>1, <1>4, <1>5
<1> QED BY <1>1, <1>6

\* And there is one: to take one more, raise the first row that has more.
LEMMA TakesSome ==
  ASSUME NEW room \in [Bill -> Nat], NEW rank \in [Bill -> Int]
  PROVE  \A n \in Nat : Takes(n, room, rank) # {}
<1> DEFINE R == SumFunctionOnSet(room, Bill)
           A == {n \in Nat : Takes(n, room, rank) # {}}
<1>0. R \in Nat
  BY RebateAssumption, SumNatural
<1>1. 0 \in A
  <2> DEFINE z == [r \in Bill |-> 0]
  <2>1. SumFunctionOnSet(z, Bill) = 0
    BY RebateAssumption, SumZeros
  <2>2. z \in Takes(0, room, rank)
    BY <1>0, <2>1 DEF Takes, Lesser
  <2> QED BY <2>2
<1>2. ASSUME NEW n \in Nat, n \in A PROVE n + 1 \in A
  <2>1. PICK t \in Takes(n, room, rank) : TRUE
    BY <1>2
  <2>2. /\ t \in [Bill -> 0..n]
        /\ \A r \in Bill : t[r] <= room[r]
        /\ SumFunctionOnSet(t, Bill) = Lesser(n, R)
        /\ \A r, s \in Bill : rank[s] < rank[r] /\ t[r] > 0 => t[s] = room[s]
    BY <2>1 DEF Takes
  <2> DEFINE D == {r \in Bill : t[r] < room[r]}
  <2>3. CASE D = {}
    <3>1. \A r \in Bill : t[r] = room[r]
      BY <2>2, <2>3
    <3>2. SumFunctionOnSet(t, Bill) = R
      BY <3>1, RebateAssumption, SumSame
    <3>3. Lesser(n + 1, R) = R
      BY <1>0, <2>2, <3>2 DEF Lesser
    <3>4. t \in [Bill -> 0..(n + 1)]
      BY <2>2
    <3>5. t \in Takes(n + 1, room, rank)
      BY <2>2, <3>2, <3>3, <3>4 DEF Takes
    <3> QED BY <3>5
  <2>4. CASE D # {}
    <3>1. IsFiniteSet(D)
      BY RebateAssumption, FS_Subset
    <3>2. PICK m \in D : \A s \in D : rank[m] <= rank[s]
      BY <2>4, <3>1, Least
    <3> DEFINE w == [t EXCEPT ![m] = @ + 1]
    <3>3. m \in Bill /\ t[m] < room[m]
      OBVIOUS
    <3>4. \A r \in Bill : t[r] \in Nat /\ t[r] <= n /\ room[r] \in Nat
      BY <2>2
    <3>5. w[m] = t[m] + 1 /\ \A r \in Bill \ {m} : w[r] = t[r]
      BY <2>2
    <3>6. w \in [Bill -> 0..(n + 1)] /\ \A r \in Bill : w[r] <= room[r]
      BY <2>2, <3>3, <3>4, <3>5
    <3> HIDE DEF w
    <3>7. SumFunctionOnSet(w, Bill) = SumFunctionOnSet(t, Bill) + 1
      <4>1. SumFunctionOnSet(w, Bill) = (SumFunctionOnSet(t, Bill) - t[m]) + w[m]
        BY <3>3, <3>4, <3>5, RebateAssumption, SumChange
      <4>2. SumFunctionOnSet(t, Bill) \in Int
        BY <3>4, RebateAssumption, SumInteger
      <4>3. \A a, b \in Int : (a - b) + (b + 1) = a + 1
        OBVIOUS
      <4> QED BY <3>3, <3>4, <3>5, <4>1, <4>2, <4>3
    <3>8. SumFunctionOnSet(w, Bill) <= R
      BY <3>4, <3>6, RebateAssumption, SumAtMost
    <3>9. SumFunctionOnSet(w, Bill) = Lesser(n + 1, R)
      <4>1. SumFunctionOnSet(t, Bill) \in Int
        BY <3>4, RebateAssumption, SumInteger
      <4> QED BY <1>0, <2>2, <3>7, <3>8, <4>1 DEF Lesser
    <3>10. ASSUME NEW r \in Bill, NEW s \in Bill, rank[s] < rank[r], w[r] > 0
           PROVE  w[s] = room[s]
      <4>1. rank[m] \in Int /\ rank[s] \in Int /\ rank[r] \in Int
        BY <3>3
      <4>2. CASE r = m
        <5>1. s \notin D /\ s # m
          BY <3>2, <3>10, <4>1, <4>2
        <5>2. t[s] = room[s]
          BY <2>2, <3>4, <5>1
        <5> QED BY <3>5, <5>1, <5>2
      <4>3. CASE r # m
        <5>1. t[s] = room[s]
          BY <2>2, <3>5, <3>10, <4>3
        <5>2. s # m
          BY <3>3, <3>4, <5>1
        <5> QED BY <3>5, <5>1, <5>2
      <4> QED BY <4>2, <4>3
    <3>11. w \in Takes(n + 1, room, rank)
      BY <3>6, <3>9, <3>10 DEF Takes
    <3> QED BY <3>11
  <2> QED BY <2>3, <2>4
<1> HIDE DEF A
<1>3. Nat \subseteq A
  BY <1>1, <1>2, NaturalsIn
<1> QED BY <1>3 DEF A

LEMMA TakesOneWay ==
  ASSUME NEW n \in Nat, NEW room \in [Bill -> Nat], NEW rank \in [Bill -> Int],
         Ranked(room, rank)
  PROVE  OneWay(Takes(n, room, rank))
<1>1. PICK t : t \in Takes(n, room, rank)
  BY TakesSome
<1>2. \A u \in Takes(n, room, rank) : u = t
  BY <1>1, TakesAtMostOne
<1>3. Takes(n, room, rank) = {t}
  BY <1>1, <1>2
<1> QED BY <1>3 DEF OneWay

\* The two orders of the code, by the places of the rows.
LEMMA LoopsAreTakes ==
  ASSUME TypeOK, NEW n \in Nat, NEW room \in [Bill -> Nat]
  PROVE  /\ OldestFirst(n, room) = Takes(n, room, born)
         /\ NewestFirst(n, room) = Takes(n, room, [r \in Bill |-> 0 - born[r]])
<1>1. \A r \in Bill : born[r] \in Nat
  BY DEF TypeOK
<1>2. \A r, s \in Bill : born[s] > born[r] <=> (0 - born[s]) < (0 - born[r])
  BY <1>1
<1>3. SumFunction(room) = SumFunctionOnSet(room, Bill)
  BY SumOfFunction
<1>4. \A take \in [Bill -> 0..n] : SumFunction(take) = SumFunctionOnSet(take, Bill)
  BY SumOfFunction
<1>5. OldestFirst(n, room) = Takes(n, room, born)
  BY <1>3, <1>4 DEF OldestFirst, Spreads, Older, Takes
<1>6. NewestFirst(n, room) = Takes(n, room, [r \in Bill |-> 0 - born[r]])
  BY <1>2, <1>3, <1>4 DEF NewestFirst, Spreads, Newer, Takes
<1> QED BY <1>5, <1>6

\* The rows stand in the order in which they were booked, each at a place of
\* its own.
Booked == {r \in Bill : born[r] > 0}
Placed ==
    /\ \A r \in Bill : row[r] = "none" <=> born[r] = 0
    /\ \A r \in Bill : born[r] <= Cardinality(Booked)
    /\ \A r, s \in Bill : born[r] = born[s] /\ born[r] > 0 => r = s

\* A discount is never less than the part of it that came from claims.
Covered == \A b \in Bill : claimPart[b] <= discount[b]

LEMMA PlacedStep ==
  ASSUME TypeOK, TypeOK', Blank, Placed, [Next]_vars
  PROVE  Placed'
<1> DEFINE Stays == born' = born /\ \A r \in Bill : row'[r] = "none" <=> row[r] = "none"
<1>0. ASSUME Stays PROVE Placed'
  <2>1. Booked' = Booked
    BY <1>0 DEF Booked
  <2> QED BY <1>0, <2>1 DEF Placed
<1>1. ASSUME NEW b \in Bill, Confirm(b) PROVE Stays
  <2>1. PICK take \in [Bill -> Nat] : (\A r \in Bill \ Live : take[r] = 0) /\ CutRows(take)
    BY <1>1, ConfirmTakes
  <2>2. born' = born
    BY <1>1 DEF Confirm
  <2> QED BY <2>1, <2>2 DEF CutRows, Live
<1>2. ASSUME NEW c \in Claim, NEW n \in 1..MaxAmt, File(c, n) PROVE Stays
  <2>1. PICK take \in [Bill -> Nat] : (\A r \in Bill \ Live : take[r] = 0) /\ CutRows(take)
    BY <1>2, FileTakes
  <2>2. born' = born
    BY <1>2 DEF File
  <2> QED BY <2>1, <2>2 DEF CutRows, Live
<1>3. ASSUME NEW c \in Claim, Reject(c) PROVE Stays
  <2>1. PICK put \in [Bill -> Nat] : PutBack(put)
    BY <1>3, RejectPuts
  <2>2. born' = born
    BY <1>3 DEF Reject
  <2> QED BY <2>1, <2>2 DEF PutBack, Reopened
<1>4. ASSUME NEW b \in Bill, CancelBooking(b) PROVE Stays
  BY <1>4 DEF CancelBooking, PutBack, Reopened
<1>5. ASSUME NEW b \in Bill, Unlock(b) PROVE Stays
  BY <1>5 DEF Unlock, Live, TypeOK
<1>6. ASSUME NEW b \in Bill, NEW n \in 1..MaxAmt, Book(b, n) PROVE Placed'
  <2>1. /\ row[b] = "none" /\ born[b] = 0
        /\ row' = [row EXCEPT ![b] = "PENDING"]
        /\ born' = [born EXCEPT ![b] = 1 + Cardinality(Booked)]
    BY <1>6 DEF Book, NotBooked, Booked, Placed
  <2>2. IsFiniteSet(Booked) /\ Cardinality(Booked) \in Nat /\ b \notin Booked
    BY <2>1, RebateAssumption, FS_Subset, FS_CardinalityType DEF Booked
  <2> DEFINE k == Cardinality(Booked)
  <2>3. k \in Nat
    BY <2>2
  <2>4. /\ born'[b] = 1 + k /\ row'[b] = "PENDING"
        /\ \A r \in Bill \ {b} : born'[r] = born[r] /\ row'[r] = row[r]
    BY <2>1 DEF TypeOK
  <2>5. Booked' = Booked \cup {b}
    BY <2>1, <2>3, <2>4 DEF Booked
  <2>6. Cardinality(Booked') = k + 1
    BY <2>2, <2>5, FS_AddElement
  <2>7. \A r \in Bill : born[r] \in Nat /\ born[r] <= k
    BY DEF TypeOK, Placed
  <2> HIDE DEF k
  <2>8. \A r \in Bill : row'[r] = "none" <=> born'[r] = 0
    BY <2>3, <2>4 DEF Placed
  <2>9. \A r \in Bill : born'[r] <= Cardinality(Booked')
    BY <2>3, <2>4, <2>6, <2>7
  <2>10. \A r, s \in Bill : born'[r] = born'[s] /\ born'[r] > 0 => r = s
    BY <2>3, <2>4, <2>7 DEF Placed
  <2> QED BY <2>8, <2>9, <2>10 DEF Placed
<1>7. CASE UNCHANGED vars
  BY <1>0, <1>7 DEF vars, rowVars
<1>8. ASSUME NEW b \in Bill,
             \/ \E d \in 0..MaxAmt : Create(b, d) \/ EditDiscount(b, d)
             \/ \E c \in Claim : ApplyClaim(c, b)
             \/ Relock(b) \/ Ship(b) \/ CancelDraft(b)
             \/ \E bulk \in BOOLEAN : Delete(b, bulk)
      PROVE  Stays
  BY <1>8 DEF Create, EditDiscount, ApplyClaim, Relock, Ship, CancelDraft, Delete, rowVars
<1>9. ASSUME NEW c \in Claim, Approve(c) PROVE Stays
  BY <1>9 DEF Approve, rowVars
<1> HIDE DEF Stays
<1> QED BY <1>0, <1>1, <1>2, <1>3, <1>4, <1>5, <1>6, <1>7, <1>8, <1>9, Zenon DEF Next

LEMMA CoveredStep ==
  ASSUME TypeOK, TypeOK', Fresh, Covered, [Next]_vars
  PROVE  Covered'
<1> DEFINE Stays == UNCHANGED <<discount, claimPart>>
<1>0. ASSUME Stays PROVE Covered'
  BY <1>0 DEF Covered
<1>1. ASSUME NEW b \in Bill, NEW d \in 0..MaxAmt, Create(b, d) \/ EditDiscount(b, d)
      PROVE  Covered'
  <2>1. d \in Nat /\ claimPart' = claimPart /\ discount' = [discount EXCEPT ![b] = d]
    BY <1>1, RebateAssumption DEF Create, EditDiscount
  <2>2. claimPart[b] <= d
    BY <1>1, <2>1 DEF Create, EditDiscount, Fresh
  <2> QED BY <2>1, <2>2 DEF Covered, TypeOK
<1>2. ASSUME NEW b \in Bill, NEW c \in Claim, ApplyClaim(c, b) PROVE Covered'
  <2>1. PICK a : a = CustomerAmount(c)
    OBVIOUS
  <2>2. a \in Nat
    <3>1. asked[c] \in Nat
      BY RebateAssumption DEF TypeOK
    <3> QED BY <2>1, <3>1, ShareIsNat DEF CustomerAmount
  <2>3. /\ discount' = [discount EXCEPT ![b] = @ + a]
        /\ claimPart' = [claimPart EXCEPT ![b] = @ + a]
    BY <1>2, <2>1 DEF ApplyClaim
  <2> QED BY <2>2, <2>3 DEF Covered, TypeOK
<1>3. CASE UNCHANGED vars
  BY <1>0, <1>3 DEF vars, billVars
<1>4. ASSUME NEW b \in Bill,
             \/ \E n \in 1..MaxAmt : Book(b, n)
             \/ Confirm(b) \/ Relock(b) \/ Ship(b) \/ Unlock(b)
             \/ CancelDraft(b) \/ CancelBooking(b)
             \/ \E bulk \in BOOLEAN : Delete(b, bulk)
      PROVE  Stays
  BY <1>4 DEF Book, Confirm, Relock, Ship, Unlock, CancelDraft, CancelBooking, Delete, billVars
<1>5. ASSUME NEW c \in Claim,
             (\E n \in 1..MaxAmt : File(c, n)) \/ Approve(c) \/ Reject(c)
      PROVE  Stays
  BY <1>5 DEF File, Approve, Reject, billVars
<1> HIDE DEF Stays
<1> QED BY <1>0, <1>1, <1>2, <1>3, <1>4, <1>5, Zenon DEF Next

\* What a confirm draws, what a claim cuts and what a rejection puts back.
LoopsTakeOneWay ==
    /\ \A b \in Bill : LedgerPart(b) \in Nat
    /\ \A n \in Nat : /\ OneWay(OldestFirst(n, ToSpend))
                      /\ OneWay(OldestFirst(n, ToClaim))
                      /\ OneWay(NewestFirst(n, [r \in Bill |-> Lost(r)]))

\* For every amount there is exactly one way in which the loops over the
\* ledger rows can end: no two rows stand at one place of the order, a row
\* without a place has nothing, and no discount asks the ledger for less than
\* nothing (consumeRebateAccrual, the filing and the rejection of a claim).
THEOREM RowsTakenOneWay == Spec => []LoopsTakeOneWay
<1> DEFINE Inv == MoneyInv /\ Placed /\ Covered
<1>1. Init => Placed /\ Covered
  <2> SUFFICES ASSUME Init PROVE Placed /\ Covered
    OBVIOUS
  <2>1. Booked = {}
    BY DEF Booked, Init
  <2> QED BY <2>1, FS_EmptySet DEF Init, Placed, Covered
<1>2. MoneyInv /\ MoneyInv' /\ Placed /\ Covered /\ [Next]_vars => Placed' /\ Covered'
  BY PlacedStep, CoveredStep DEF MoneyInv
<1>3. MoneyInv /\ Placed /\ Covered => LoopsTakeOneWay
  <2> SUFFICES ASSUME MoneyInv, Placed, Covered PROVE LoopsTakeOneWay
    OBVIOUS
  <2>1. TypeOK /\ Blank
    BY DEF MoneyInv
  <2>2. \A b \in Bill : LedgerPart(b) \in Nat
    BY <2>1 DEF TypeOK, Covered, LedgerPart
  <2> DEFINE back == [r \in Bill |-> 0 - born[r]]
             lost == [r \in Bill |-> Lost(r)]
  <2>3. born \in [Bill -> Int] /\ back \in [Bill -> Int]
    BY <2>1 DEF TypeOK
  <2>4. /\ ToSpend \in [Bill -> Nat] /\ ToClaim \in [Bill -> Nat]
        /\ \A r \in Bill \ Live : ToSpend[r] = 0 /\ ToClaim[r] = 0
    BY <2>1, RoomsSound
  <2>5. lost \in [Bill -> Nat] /\ \A r \in Bill \ Live : lost[r] = 0
    BY <2>1, RebateAssumption DEF TypeOK, Lost
  <2>6. \A r \in Live : r \in Bill /\ born[r] > 0
    BY <2>1 DEF Live, Placed, TypeOK
  <2> HIDE DEF lost
  <2>7. ASSUME NEW room \in [Bill -> Nat], \A r \in Bill \ Live : room[r] = 0
        PROVE  Ranked(room, born) /\ Ranked(room, back)
    <3>1. \A r \in Bill : born[r] \in Nat /\ (room[r] > 0 => born[r] > 0)
      BY <2>1, <2>6, <2>7 DEF TypeOK
    <3>2. \A r, s \in Bill : back[r] = back[s] => born[r] = born[s]
      BY <3>1
    <3> QED BY <3>1, <3>2 DEF Ranked, Placed
  <2> HIDE DEF back
  <2>8. ASSUME NEW n \in Nat
        PROVE  /\ OneWay(OldestFirst(n, ToSpend))
               /\ OneWay(OldestFirst(n, ToClaim))
               /\ OneWay(NewestFirst(n, lost))
    <3>1. OneWay(OldestFirst(n, ToSpend)) /\ OneWay(OldestFirst(n, ToClaim))
      BY <2>1, <2>3, <2>4, <2>7, LoopsAreTakes, TakesOneWay
    <3>2. NewestFirst(n, lost) = Takes(n, lost, back)
      BY <2>1, <2>5, LoopsAreTakes DEF back
    <3>3. OneWay(NewestFirst(n, lost))
      BY <2>3, <2>5, <2>7, <3>2, TakesOneWay
    <3> QED BY <3>1, <3>3
  <2> QED BY <2>2, <2>8 DEF LoopsTakeOneWay, lost
<1> QED BY <1>1, <1>2, <1>3, MoneyAlways, PTL DEF Spec

-----------------------------------------------------------------------------
(* The budgets of giveaways.                                               *)

\* Two saves are never of one bill, and the bill of a save is not confirmed.
SavesApart ==
    \A s \in Saver : saver[s].on =>
        /\ gift[saver[s].b] \in {"none", "DRAFT"}
        /\ \A t \in Saver : saver[t].on /\ saver[t].b = saver[s].b => t = s

OnlyConfirmedDraw == \A b \in Gift : gift[b] # "CONFIRMED" => withdrawn[b] = 0

\* What a bill has taken, promised or withdrawn; and what a region has left
\* when promises are counted.
Promised(r) == {b \in BillsOf(r) : gift[b] = "DRAFT"}
Taken == [b \in Gift |-> IF gift[b] = "DRAFT" THEN pieces[b] ELSE withdrawn[b]]
Spare(r) == (budget[r] - drawn[r]) - Total(Taken, BillsOf(r))

\* A region that is not loosened has a salesperson of its own, whose drafts are
\* the drafts of the region.
Alone == \A r \in Region \ loosened : LinesOf(owner[r]) = {r}

NothingOwed == \A r \in Region \ loosened : 0 <= Spare(r)

\* What a save has checked holds until it writes, unless it was overtaken.
CheckHolds(s) ==
    saver[s].on /\ region[saver[s].b] \notin loosened =>
        saver[s].n <= Spare(region[saver[s].b]) + Taken[saver[s].b]

GqInv ==
    /\ GqTypeOK
    /\ SavesApart /\ OnlyConfirmedDraw
    /\ Alone /\ NothingOwed
    /\ \A s \in Saver \ overtaken : CheckHolds(s)

Keeps == [status : {"PENDING", "APPROVED", "REJECTED"},
          to : Region, from : Region, n : Pieces]
Works == [on : {TRUE}, b : Gift, n : Pieces, book : {"I", "K", "own row"}]

LEMMA GqNats == /\ Pieces \subseteq Nat /\ Budget \subseteq Nat
                /\ MaxDrawn \in Nat /\ Percent \in Nat
                /\ 0 \in Pieces
  BY QuotaAssumption DEF Pieces, Budget

\* A save at work has its bill and its pieces.
LEMMA AtWork ==
  ASSUME GqTypeOK, NEW s \in Saver
  PROVE  /\ saver[s].on => saver[s] \in Works
         /\ saver[s].on => saver[s].b \in Gift /\ saver[s].n \in Pieces
         /\ ~NoSave.on
<1>1. ~NoSave.on
  BY DEF NoSave
<1>2. saver[s] \in {NoSave} \cup Works
  BY DEF GqTypeOK, Works
<1>3. saver[s].on => saver[s] \in Works
  BY <1>1, <1>2
<1> QED BY <1>1, <1>3 DEF Works

LEMMA OfRegion == \A r : IsFiniteSet(BillsOf(r)) /\ BillsOf(r) \subseteq Gift
  BY QuotaAssumption, FS_Subset DEF BillsOf

\* The counts are natural numbers.
GqCounts ==
    /\ \A r \in Region : budget[r] \in Nat /\ drawn[r] \in Nat
    /\ \A b \in Gift : pieces[b] \in Nat /\ withdrawn[b] \in Nat
    /\ Taken \in [Gift -> Nat]

LEMMA Counts == GqTypeOK => GqCounts
<1> SUFFICES ASSUME GqTypeOK PROVE GqCounts
  OBVIOUS
<1>1. /\ budget \in [Region -> Budget] /\ drawn \in [Region -> 0..MaxDrawn]
      /\ pieces \in [Gift -> Pieces] /\ withdrawn \in [Gift -> Pieces]
  BY DEF GqTypeOK
<1>2. \A x \in 0..MaxDrawn : x \in Nat
  BY GqNats
<1>3. \A r \in Region : budget[r] \in Nat /\ drawn[r] \in Nat
  BY <1>1, <1>2, GqNats
<1>4. \A b \in Gift : pieces[b] \in Nat /\ withdrawn[b] \in Nat
  BY <1>1, GqNats
<1> QED BY <1>3, <1>4 DEF Taken, GqCounts

SpareIsInt == \A r \in Region : Spare(r) \in Int /\ Total(Taken, BillsOf(r)) \in Nat

LEMMA SpareType == GqTypeOK => SpareIsInt
<1> SUFFICES ASSUME GqTypeOK, NEW r \in Region
             PROVE  Spare(r) \in Int /\ Total(Taken, BillsOf(r)) \in Nat
  BY DEF SpareIsInt
<1>1. Total(Taken, BillsOf(r)) \in Nat
  <2>1. \A b \in BillsOf(r) : Taken[b] \in Nat
    BY Counts, OfRegion DEF GqCounts
  <2> QED BY <2>1, OfRegion, SumNatural DEF Total
<1>2. budget[r] \in Int /\ drawn[r] \in Int
  BY Counts DEF GqCounts
<1> QED BY <1>1, <1>2 DEF Spare

\* The promises and the withdrawals of a region, added up in one sum.
LEMMA OneSum ==
  ASSUME GqTypeOK, OnlyConfirmedDraw, NEW r \in Region
  PROVE  /\ Total(pieces, Promised(r)) \in Nat /\ Total(withdrawn, BillsOf(r)) \in Nat
         /\ Total(Taken, BillsOf(r)) =
              Total(pieces, Promised(r)) + Total(withdrawn, BillsOf(r))
<1> DEFINE S == BillsOf(r)
           promised == [b \in Gift |-> IF gift[b] = "DRAFT" THEN pieces[b] ELSE 0]
<1>1. IsFiniteSet(S) /\ S \subseteq Gift /\ Promised(r) \subseteq S
  BY OfRegion DEF Promised
<1>2. IsFiniteSet(Promised(r)) /\ IsFiniteSet(S \ Promised(r))
  BY <1>1, FS_Subset
<1>3. \A b \in Gift : /\ pieces[b] \in Nat /\ withdrawn[b] \in Nat
                      /\ promised[b] \in Nat /\ Taken[b] = promised[b] + withdrawn[b]
  BY Counts DEF OnlyConfirmedDraw, Taken, GqCounts
<1>4. \A b \in Promised(r) : promised[b] = pieces[b]
  BY DEF Promised, BillsOf
<1>5. \A b \in S \ Promised(r) : promised[b] = 0
  BY DEF Promised, BillsOf
<1> HIDE DEF S, promised
<1>6. Total(Taken, S) = Total(promised, S) + Total(withdrawn, S)
  BY <1>1, <1>3, SumPlus DEF Total
<1>7. Total(promised, S) = Total(promised, Promised(r)) + Total(promised, S \ Promised(r))
  BY <1>1, <1>3, SumSplit DEF Total
<1>8. Total(promised, S \ Promised(r)) = 0
  BY <1>2, <1>5, SumZeros DEF Total
<1>9. Total(promised, Promised(r)) = Total(pieces, Promised(r))
  BY <1>1, <1>2, <1>3, <1>4, SumSame DEF Total
<1>10. Total(pieces, Promised(r)) \in Nat /\ Total(withdrawn, S) \in Nat
  BY <1>1, <1>2, <1>3, SumNatural DEF Total
<1> QED BY <1>6, <1>7, <1>8, <1>9, <1>10 DEF S

\* The drafts of a salesperson with one region.
LEMMA DraftsOfOne ==
  ASSUME GqTypeOK, NEW r \in Region, LinesOf(owner[r]) = {r}
  PROVE  Drafts(owner[r]) = Promised(r)
<1>1. \A b \in Gift : region[b] \in Region
  BY DEF GqTypeOK
<1>2. \A b \in Gift : owner[region[b]] = owner[r] => region[b] = r
  BY <1>1 DEF LinesOf
<1> QED BY <1>1, <1>2 DEF Drafts, Promised, BillsOf

\* The quota check, said with what a region has left.
LEMMA FitsIs ==
  ASSUME GqTypeOK, OnlyConfirmedDraw, NEW b \in Gift, gift[b] \in {"none", "DRAFT"},
         NEW n \in Pieces,
         LinesOf(owner[region[b]]) = {region[b]}, 0 <= Spare(region[b]),
         \E q \in LinesOf(owner[region[b]]) : Fits(b, n, q)
  PROVE  n <= Spare(region[b]) + Taken[b]
<1> DEFINE r == region[b]
           A == Total(pieces, Promised(r))
           W == Total(withdrawn, BillsOf(r))
           C == Total(pieces, Promised(r) \ {b})
<1>1. /\ r \in Region /\ budget[r] \in Int /\ drawn[r] \in Int /\ n \in Int
      /\ pieces[b] \in Nat
  <2>1. r \in Region
    BY DEF GqTypeOK
  <2> QED BY <2>1, Counts, GqNats DEF GqCounts
<1>2. A \in Nat /\ W \in Nat /\ Total(Taken, BillsOf(r)) = A + W
  BY <1>1, OneSum
<1>3. Taken[b] \in Nat /\ A = Taken[b] + C /\ C \in Int
  <2>1. Promised(r) \subseteq Gift /\ IsFiniteSet(Promised(r)) /\ \A c \in Promised(r) : pieces[c] \in Int
    <3>1. IsFiniteSet(BillsOf(r)) /\ Promised(r) \subseteq BillsOf(r) /\ BillsOf(r) \subseteq Gift
      BY OfRegion DEF Promised
    <3> QED BY <3>1, FS_Subset, Counts DEF GqCounts
  <2>2. CASE gift[b] = "DRAFT"
    <3>1. b \in Promised(r) /\ Taken[b] = pieces[b]
      BY <2>2 DEF Promised, BillsOf, Taken
    <3>2. A = pieces[b] + C
      BY <2>1, <3>1, SumRemove DEF Total
    <3>3. C \in Int
      <4>1. IsFiniteSet(Promised(r) \ {b})
        BY <2>1, FS_Subset
      <4> QED BY <2>1, <4>1, SumInteger DEF Total
    <3> QED BY <1>1, <3>1, <3>2, <3>3
  <2>3. CASE gift[b] = "none"
    <3>1. Promised(r) \ {b} = Promised(r)
      BY <2>3 DEF Promised
    <3>2. Taken[b] = 0
      BY <2>3 DEF Taken, OnlyConfirmedDraw
    <3>3. C = A
      BY <3>1
    <3> HIDE DEF A, C
    <3> QED BY <1>2, <3>2, <3>3
  <2> QED BY <2>2, <2>3
<1>4. n = 0 \/ n <= ((budget[r] - drawn[r]) - W) - C
  <2>1. Fits(b, n, r)
    OBVIOUS
  <2>2. Drafts(owner[r]) = Promised(r)
    BY <1>1, DraftsOfOne
  <2> QED BY <2>1, <2>2 DEF Fits, BudgetLeft, Committed
<1>5. Spare(r) = (budget[r] - drawn[r]) - Total(Taken, BillsOf(r))
  BY DEF Spare
<1>6. 0 <= Spare(r)
  OBVIOUS
<1> HIDE DEF r, A, W, C
<1> QED BY <1>1, <1>2, <1>3, <1>4, <1>5, <1>6 DEF r

\* What the property asks, said the same way.
LEMMA OwedIs ==
  ASSUME GqTypeOK, OnlyConfirmedDraw, Alone
  PROVE  NothingOwed <=> PromisesFit
<1>0. \A r \in Region \ loosened : Drafts(owner[r]) = Promised(r)
  BY DraftsOfOne DEF Alone
<1> SUFFICES ASSUME NEW r \in Region
             PROVE  0 <= Spare(r) <=> Total(pieces, Promised(r)) <= BudgetLeft(r)
  BY <1>0 DEF NothingOwed, PromisesFit
<1>1. budget[r] \in Int /\ drawn[r] \in Int
  BY Counts DEF GqCounts
<1>2. \A x, y \in Int : \A p, w \in Nat :
        0 <= (x - y) - (p + w) <=> p <= (x - y) - w
  OBVIOUS
<1> QED BY <1>1, <1>2, OneSum DEF Spare, BudgetLeft

-----------------------------------------------------------------------------
\* What a region has left depends on these only.
LEMMA SpareStep ==
  ASSUME GqTypeOK, GqTypeOK', UNCHANGED region, NEW r \in Region,
         budget[r] - drawn[r] <= budget'[r] - drawn'[r],
         \A b \in Gift : region[b] = r => Taken'[b] <= Taken[b]
  PROVE  Spare(r) <= Spare(r)'
<1>1. BillsOf(r)' = BillsOf(r)
  BY DEF BillsOf
<1>2. /\ \A b \in BillsOf(r) : b \in Gift /\ region[b] = r
      /\ Taken \in [Gift -> Nat] /\ Taken' \in [Gift -> Nat]
      /\ budget[r] \in Int /\ drawn[r] \in Int /\ budget'[r] \in Int /\ drawn'[r] \in Int
  <2>1. /\ \A q \in Region : budget'[q] \in Nat /\ drawn'[q] \in Nat
        /\ Taken' \in [Gift -> Nat]
    <3>1. GqTypeOK' => GqCounts'
      BY Counts, PTL
    <3> QED BY <3>1 DEF GqCounts
  <2> QED BY <2>1, Counts DEF BillsOf, GqCounts
<1>3. Total(Taken', BillsOf(r)) <= Total(Taken, BillsOf(r))
  <2>1. \A b \in BillsOf(r) : Taken'[b] \in Int /\ Taken[b] \in Int /\ Taken'[b] <= Taken[b]
    BY <1>2
  <2> QED BY <2>1, OfRegion, SumAtMost DEF Total
<1>4. /\ Total(Taken', BillsOf(r)) \in Nat /\ Total(Taken, BillsOf(r)) \in Nat
  BY SpareType, OfRegion, <1>2, SumNatural DEF Total, SpareIsInt
<1>5. /\ Spare(r) = (budget[r] - drawn[r]) - Total(Taken, BillsOf(r))
      /\ Spare(r)' = (budget'[r] - drawn'[r]) - Total(Taken', BillsOf(r))
  BY <1>1 DEF Spare, Total
<1> QED BY <1>2, <1>3, <1>4, <1>5

\* A step that takes nothing from a region, unless it marks it.
LEMMA Gives ==
  ASSUME GqInv, GqTypeOK', SavesApart', OnlyConfirmedDraw', UNCHANGED <<owner, region>>,
         loosened \subseteq loosened',
         \A r \in Region \ loosened' : budget[r] - drawn[r] <= budget'[r] - drawn'[r],
         \A b \in Gift : Taken'[b] <= Taken[b],
         \A s \in Saver \ overtaken' :
            \/ CheckHolds(s)'
            \/ /\ saver'[s] = saver[s] /\ s \notin overtaken
               /\ Taken'[saver[s].b] = Taken[saver[s].b]
  PROVE  GqInv'
<1>1. \A r \in Region \ loosened' : Spare(r) <= Spare(r)' /\ Spare(r) \in Int /\ Spare(r)' \in Int
  <2>1. GqTypeOK
    BY DEF GqInv
  <2>2. GqTypeOK' => SpareIsInt'
    BY SpareType, PTL
  <2>3. \A r \in Region \ loosened' : Spare(r) <= Spare(r)'
    BY <2>1, SpareStep
  <2> QED BY <2>1, <2>2, <2>3, SpareType DEF SpareIsInt
<1>2. NothingOwed'
  <2>1. \A r \in Region \ loosened' : 0 <= Spare(r)
    BY DEF GqInv, NothingOwed
  <2>2. \A r \in Region \ loosened' : 0 <= Spare(r)'
    BY <1>1, <2>1
  <2> QED BY <2>2 DEF NothingOwed
<1>3. ASSUME NEW s \in Saver \ overtaken', saver'[s] = saver[s], s \notin overtaken,
             Taken'[saver[s].b] = Taken[saver[s].b]
      PROVE  CheckHolds(s)'
  <2>1. CheckHolds(s) /\ s \in Saver /\ GqTypeOK
    BY <1>3 DEF GqInv
  <2>2. CASE saver[s].on /\ region[saver[s].b] \notin loosened'
    <3>1. saver[s].b \in Gift /\ saver[s].n \in Int
      <4>1. saver[s].b \in Gift /\ saver[s].n \in Pieces
        BY <2>1, <2>2, AtWork
      <4>2. \A x \in Pieces : x \in Int
        BY GqNats
      <4> QED BY <4>1, <4>2
    <3>2. Taken[saver[s].b] \in Int
      BY <2>1, <3>1, Counts DEF GqCounts
    <3>3. PICK r \in Region \ loosened' : r = region[saver[s].b]
      BY <2>1, <2>2, <3>1 DEF GqTypeOK
    <3>4. saver[s].n <= Spare(r) + Taken[saver[s].b]
      BY <2>1, <2>2, <3>3 DEF CheckHolds
    <3>5. Spare(r) <= Spare(r)' /\ Spare(r) \in Int /\ Spare(r)' \in Int
      BY <1>1
    <3>6. saver[s].n <= Spare(r)' + Taken[saver[s].b]
      <4>1. \A a, x, y, z \in Int : a <= x + z /\ x <= y => a <= y + z
        OBVIOUS
      <4> QED BY <3>1, <3>2, <3>4, <3>5, <4>1
    <3>7. region'[saver'[s].b] = r
      BY <1>3, <3>3
    <3> QED BY <1>3, <3>6, <3>7 DEF CheckHolds
  <2>3. CASE ~(saver[s].on /\ region[saver[s].b] \notin loosened')
    BY <1>3, <2>3 DEF CheckHolds
  <2> QED BY <2>2, <2>3
<1>4. \A s \in Saver \ overtaken' : CheckHolds(s)'
  BY <1>3
<1>5. Alone'
  BY DEF GqInv, Alone, LinesOf
<1> QED BY <1>2, <1>4, <1>5 DEF GqInv

\* A step that leaves the counts alone takes nothing.
LEMMA SameCounts ==
  ASSUME GqTypeOK, UNCHANGED <<budget, drawn>>, Taken' = Taken
  PROVE  /\ \A r \in Region : budget[r] - drawn[r] <= budget'[r] - drawn'[r]
         /\ \A b \in Gift : Taken'[b] <= Taken[b]
<1>1. /\ \A r \in Region : budget[r] \in Int /\ drawn[r] \in Int
      /\ \A b \in Gift : Taken[b] \in Int
  BY Counts DEF GqCounts
<1>2. \A x, y \in Int : x - y <= x - y /\ x <= x
  OBVIOUS
<1> QED BY <1>1, <1>2

-----------------------------------------------------------------------------
(* The steps of a save.                                                    *)

LEMMA StartStep ==
  ASSUME GqInv, NEW s \in Saver, NEW b \in Gift, NEW n \in Pieces,
         NEW book \in {"I", "K", "own row"}, StartSave(s, b, n, book)
  PROVE  GqInv'
<1> USE DEF gqBills
<1>0. GqTypeOK
  BY DEF GqInv
<1>1. PICK w \in Works : w = [on |-> TRUE, b |-> b, n |-> n, book |-> book]
  BY DEF Works
<1>2. /\ saver' = [saver EXCEPT ![s] = w] /\ w.on /\ w.b = b /\ w.n = n
      /\ overtaken' = overtaken \ {s}
      /\ UNCHANGED <<budget, drawn, gift, owner, region, pieces, withdrawn, loan, loosened>>
      /\ gift[b] \in {"none", "DRAFT"} /\ ~Saving(b)
      /\ \E q \in LinesOf(owner[region[b]]) : Fits(b, n, q)
  BY <1>1 DEF StartSave
<1>3. GqTypeOK'
  BY <1>0, <1>2 DEF GqTypeOK, Works
<1>4. saver'[s] = w /\ \A t \in Saver \ {s} : saver'[t] = saver[t]
  BY <1>0, <1>2 DEF GqTypeOK
<1>5. \A t \in Saver : saver[t].on => saver[t].b # b
  BY <1>2 DEF Saving
<1>6. SavesApart' /\ OnlyConfirmedDraw'
  <2>1. SavesApart /\ OnlyConfirmedDraw
    BY DEF GqInv
  <2>2. OnlyConfirmedDraw'
    BY <1>2, <2>1 DEF OnlyConfirmedDraw
  <2>3. ASSUME NEW u \in Saver, saver'[u].on
        PROVE  /\ gift[saver'[u].b] \in {"none", "DRAFT"}
               /\ \A t \in Saver : saver'[t].on /\ saver'[t].b = saver'[u].b => t = u
    <3>1. CASE u = s
      BY <1>2, <1>4, <1>5, <3>1
    <3>2. CASE u # s
      <4>1. saver'[u] = saver[u] /\ saver[u].on
        BY <1>4, <2>3, <3>2
      <4>2. \A t \in Saver : saver[t].on /\ saver[t].b = saver[u].b => t = u
        BY <2>1, <4>1 DEF SavesApart
      <4>3. gift[saver[u].b] \in {"none", "DRAFT"} /\ saver[u].b # b
        BY <1>5, <2>1, <4>1 DEF SavesApart
      <4> QED BY <1>2, <1>4, <4>1, <4>2, <4>3
    <3> QED BY <3>1, <3>2
  <2> QED BY <1>2, <2>2, <2>3 DEF SavesApart
<1>7. Taken' = Taken
  BY <1>2 DEF Taken
<1>8. PICK r \in Region : r = region[b]
  BY <1>0 DEF GqTypeOK
<1>9. CheckHolds(s)'
  <2>a. saver'[s].b = b /\ region'[b] = r /\ loosened' = loosened
    BY <1>2, <1>4, <1>8
  <2>b. r \in loosened => CheckHolds(s)'
    BY <2>a DEF CheckHolds
  <2> SUFFICES ASSUME r \notin loosened PROVE CheckHolds(s)'
    BY <2>b
  <2>0. LinesOf(owner[r]) = {r} /\ 0 <= Spare(r)
    BY DEF GqInv, Alone, NothingOwed
  <2>1. n <= Spare(r) + Taken[b]
    BY <1>0, <1>2, <1>8, <2>0, FitsIs DEF GqInv
  <2>2. Spare(r)' = Spare(r)
    BY <1>2, <1>7 DEF Spare, BillsOf, Total
  <2>3. region'[saver'[s].b] = r /\ saver'[s].n = n /\ Taken'[saver'[s].b] = Taken[b]
    BY <1>2, <1>4, <1>7, <1>8
  <2> QED BY <2>1, <2>2, <2>3 DEF CheckHolds
<1>10. \A t \in Saver \ overtaken' : t # s => saver'[t] = saver[t] /\ t \notin overtaken
  BY <1>2, <1>4
<1>11. /\ \A q \in Region \ loosened' : budget[q] - drawn[q] <= budget'[q] - drawn'[q]
       /\ \A c \in Gift : Taken'[c] <= Taken[c]
  BY <1>0, <1>2, <1>7, SameCounts
<1>12. loosened \subseteq loosened' /\ UNCHANGED <<owner, region>>
  BY <1>2
<1>13. \A t \in Saver \ overtaken' :
          \/ CheckHolds(t)'
          \/ /\ saver'[t] = saver[t] /\ t \notin overtaken
             /\ Taken'[saver[t].b] = Taken[saver[t].b]
  BY <1>7, <1>9, <1>10
<1> QED BY <1>3, <1>6, <1>11, <1>12, <1>13, Gives

LEMMA RefuseStep ==
  ASSUME GqInv, NEW s \in Saver, RefuseSave(s)
  PROVE  GqInv'
<1> USE DEF gqBills
<1>0. GqTypeOK
  BY DEF GqInv
<1>1. /\ saver' = [saver EXCEPT ![s] = NoSave]
      /\ UNCHANGED <<budget, drawn, gift, owner, region, pieces, withdrawn, loan, overtaken, loosened>>
  BY DEF RefuseSave
<1>2. saver'[s] = NoSave /\ (\A t \in Saver \ {s} : saver'[t] = saver[t]) /\ ~NoSave.on
  BY <1>0, <1>1, AtWork DEF GqTypeOK
<1>3. GqTypeOK'
  BY <1>0, <1>1 DEF GqTypeOK
<1>4. SavesApart' /\ OnlyConfirmedDraw'
  <2>1. SavesApart /\ OnlyConfirmedDraw
    BY DEF GqInv
  <2>2. \A u \in Saver : saver'[u].on => saver'[u] = saver[u]
    BY <1>2
  <2> QED BY <1>1, <2>1, <2>2 DEF SavesApart, OnlyConfirmedDraw
<1>5. Taken' = Taken
  BY <1>1 DEF Taken
<1>6. CheckHolds(s)'
  BY <1>2 DEF CheckHolds
<1>7. /\ \A q \in Region \ loosened' : budget[q] - drawn[q] <= budget'[q] - drawn'[q]
      /\ \A c \in Gift : Taken'[c] <= Taken[c]
  BY <1>0, <1>1, <1>5, SameCounts
<1>8. \A t \in Saver \ overtaken' :
          \/ CheckHolds(t)'
          \/ /\ saver'[t] = saver[t] /\ t \notin overtaken
             /\ Taken'[saver[t].b] = Taken[saver[t].b]
  BY <1>1, <1>2, <1>5, <1>6
<1>9. loosened \subseteq loosened' /\ UNCHANGED <<owner, region>>
  BY <1>1
<1> QED BY <1>3, <1>4, <1>7, <1>8, <1>9, Gives

\* The save itself: what it takes is what it has checked, or its region is
\* marked; and the saves of its region it has overtaken.
LEMMA SaveStep ==
  ASSUME GqInv, NEW s \in Saver, Save(s)
  PROVE  GqInv'
<1> USE DEF gqBills
<1>0. GqTypeOK /\ SavesApart /\ OnlyConfirmedDraw
  BY DEF GqInv
<1>1. saver[s].on
  BY DEF Save
<1>2. PICK b \in Gift, n \in Pieces : b = saver[s].b /\ n = saver[s].n
  BY <1>0, <1>1, AtWork
<1>3. /\ gift' = [gift EXCEPT ![b] = "DRAFT"]
      /\ pieces' = [pieces EXCEPT ![b] = n]
      /\ saver' = [saver EXCEPT ![s] = NoSave]
      /\ overtaken' = overtaken \cup SameRegion(s)
      /\ loosened' = loosened \cup (IF s \in overtaken THEN {region[b]} ELSE {})
      /\ UNCHANGED <<budget, drawn, owner, region, withdrawn, loan>>
  BY <1>2 DEF Save
<1>4. saver'[s] = NoSave /\ (\A t \in Saver \ {s} : saver'[t] = saver[t]) /\ ~NoSave.on
  BY <1>0, <1>3, AtWork DEF GqTypeOK
<1>5. PICK r \in Region : r = region[b]
  BY <1>0 DEF GqTypeOK
<1>6. GqTypeOK'
  <2>1. SameRegion(s) \subseteq Saver
    BY DEF SameRegion
  <2> QED BY <1>0, <1>3, <1>5, <2>1 DEF GqTypeOK
<1>7. /\ gift'[b] = "DRAFT" /\ \A c \in Gift \ {b} : gift'[c] = gift[c] /\ pieces'[c] = pieces[c]
      /\ pieces'[b] = n /\ gift[b] \in {"none", "DRAFT"}
  BY <1>0, <1>1, <1>2, <1>3 DEF GqTypeOK, SavesApart
<1>8. \A t \in Saver : saver'[t].on =>
         t # s /\ saver'[t] = saver[t] /\ saver[t].on /\ saver[t].b # b
  BY <1>0, <1>1, <1>2, <1>4 DEF SavesApart
<1>9. SavesApart' /\ OnlyConfirmedDraw'
  <2>1. ASSUME NEW t \in Saver, saver'[t].on
        PROVE  /\ gift'[saver'[t].b] \in {"none", "DRAFT"}
               /\ \A u \in Saver : saver'[u].on /\ saver'[u].b = saver'[t].b => u = t
    <3>1. saver'[t] = saver[t] /\ saver[t].on /\ saver[t].b \in Gift \ {b}
      BY <1>0, <1>8, <2>1, AtWork
    <3>2. /\ gift[saver[t].b] \in {"none", "DRAFT"}
          /\ \A u \in Saver : saver[u].on /\ saver[u].b = saver[t].b => u = t
      BY <1>0, <3>1 DEF SavesApart
    <3>3. gift'[saver[t].b] = gift[saver[t].b]
      BY <1>7, <3>1
    <3> QED BY <1>8, <3>1, <3>2, <3>3
  <2>2. ASSUME NEW c \in Gift, gift'[c] # "CONFIRMED" PROVE withdrawn[c] = 0
    BY <1>0, <1>7, <2>2 DEF OnlyConfirmedDraw
  <2> QED BY <1>3, <2>1, <2>2 DEF SavesApart, OnlyConfirmedDraw
<1>10. Taken'[b] = n /\ \A c \in Gift \ {b} : Taken'[c] = Taken[c]
  BY <1>3, <1>7 DEF Taken
<1>11. \A q \in Region : q # r => Spare(q)' = Spare(q)
  <2> SUFFICES ASSUME NEW q \in Region, q # r PROVE Spare(q)' = Spare(q)
    OBVIOUS
  <2>1. BillsOf(q)' = BillsOf(q) /\ b \notin BillsOf(q)
    BY <1>3, <1>5 DEF BillsOf
  <2>2. \A c \in BillsOf(q) : Taken[c] \in Int /\ Taken'[c] = Taken[c]
    BY <1>0, <1>10, <2>1, OfRegion, Counts DEF GqCounts
  <2>3. Total(Taken', BillsOf(q)) = Total(Taken, BillsOf(q))
    BY <2>2, OfRegion, SumSame DEF Total
  <2> QED BY <1>3, <2>1, <2>3 DEF Spare, Total
<1>12. Spare(r)' = (Spare(r) + Taken[b]) - n
  <2>1. BillsOf(r)' = BillsOf(r) /\ b \in BillsOf(r) /\ IsFiniteSet(BillsOf(r))
    BY <1>3, <1>5, OfRegion DEF BillsOf
  <2>2. \A c \in BillsOf(r) : Taken[c] \in Int
    BY <1>0, OfRegion, Counts DEF GqCounts
  <2>3. \A c \in BillsOf(r) \ {b} : Taken'[c] = Taken[c]
    BY <1>10, OfRegion
  <2>4. n \in Int /\ Taken'[b] \in Int /\ Taken[b] \in Int
    BY <1>10, GqNats, <2>1, <2>2
  <2>5. Total(Taken', BillsOf(r)) = (Total(Taken, BillsOf(r)) - Taken[b]) + n
    BY <1>10, <2>1, <2>2, <2>3, <2>4, SumChange DEF Total
  <2>6. /\ Total(Taken, BillsOf(r)) \in Int /\ budget[r] - drawn[r] \in Int
        /\ Spare(r) = (budget[r] - drawn[r]) - Total(Taken, BillsOf(r))
        /\ Spare(r)' = (budget[r] - drawn[r]) - Total(Taken', BillsOf(r))
    <3>1. Total(Taken, BillsOf(r)) \in Nat
      BY <1>0, SpareType DEF SpareIsInt
    <3>2. budget[r] \in Int /\ drawn[r] \in Int
      BY <1>0, Counts DEF GqCounts
    <3> QED BY <1>3, <2>1, <3>1, <3>2 DEF Spare, Total
  <2>7. \A w, x, y, z \in Int : w - ((x - y) + z) = ((w - x) + y) - z
    OBVIOUS
  <2> QED BY <2>4, <2>5, <2>6, <2>7
<1>13. NothingOwed'
  <2>1. \A q \in Region \ loosened : 0 <= Spare(q)
    BY DEF GqInv, NothingOwed
  <2>2. \A q \in Region \ loosened' : q # r => 0 <= Spare(q)'
    BY <1>3, <1>11, <2>1
  <2>3. ASSUME r \notin loosened' PROVE 0 <= Spare(r)'
    <3>1. s \notin overtaken /\ r \notin loosened
      BY <1>3, <1>5, <2>3
    <3>2. n <= Spare(r) + Taken[b]
      BY <1>1, <1>2, <1>5, <3>1 DEF GqInv, CheckHolds
    <3>3. Spare(r) \in Int /\ Taken[b] \in Int /\ n \in Int
      BY <1>0, SpareType, Counts, GqNats DEF GqCounts, SpareIsInt
    <3> QED BY <1>12, <3>2, <3>3
  <2>4. \A q \in Region \ loosened' : 0 <= Spare(q)'
    BY <2>2, <2>3
  <2> QED BY <2>4 DEF NothingOwed
<1>14. ASSUME NEW t \in Saver \ overtaken' PROVE CheckHolds(t)'
  <2>1. CASE saver'[t].on /\ region[saver'[t].b] \notin loosened'
    <3>1. t # s /\ saver'[t] = saver[t] /\ saver[t].on /\ saver[t].b \in Gift \ {b}
      BY <1>0, <1>8, <2>1, AtWork
    <3>2. t \notin overtaken /\ t \notin SameRegion(s)
      BY <1>3, <1>14
    <3>3. PICK q \in Region : q = region[saver[t].b]
      BY <1>0, <3>1 DEF GqTypeOK
    <3>4. q # r
      BY <1>2, <1>5, <3>1, <3>2, <3>3 DEF SameRegion
    <3>5. q \notin loosened
      BY <1>3, <2>1, <3>1, <3>3
    <3>6. saver[t].n <= Spare(q) + Taken[saver[t].b]
      BY <3>1, <3>2, <3>3, <3>5 DEF GqInv, CheckHolds
    <3>7. Taken'[saver[t].b] = Taken[saver[t].b] /\ Spare(q)' = Spare(q)
      BY <1>10, <1>11, <3>1, <3>4
    <3>8. region'[saver'[t].b] = q /\ saver'[t].n = saver[t].n /\ saver'[t].b = saver[t].b
      BY <1>3, <3>1, <3>3
    <3> QED BY <3>6, <3>7, <3>8 DEF CheckHolds
  <2>2. CASE ~(saver'[t].on /\ region[saver'[t].b] \notin loosened')
    BY <1>3, <2>2 DEF CheckHolds
  <2> QED BY <2>1, <2>2
<1>15. Alone'
  BY <1>3 DEF GqInv, Alone, LinesOf
<1> QED BY <1>6, <1>9, <1>13, <1>14, <1>15 DEF GqInv

-----------------------------------------------------------------------------
(* The other steps take nothing that is not marked.                        *)

\* A confirmation withdraws what was promised; an end gives it back.
LEMMA BillSteps ==
  ASSUME GqInv, NEW b \in Gift, ConfirmGift(b) \/ EndGift(b)
  PROVE  GqInv'
<1> USE DEF gqBills
<1>0. GqTypeOK /\ SavesApart /\ OnlyConfirmedDraw
  BY DEF GqInv
<1>1. PICK g \in {"CONFIRMED", "ended"}, n \in Pieces :
        /\ gift' = [gift EXCEPT ![b] = g]
        /\ withdrawn' = [withdrawn EXCEPT ![b] = n]
        /\ n <= Taken[b]
        /\ g = "ended" => n = 0
  <2>1. CASE ConfirmGift(b)
    <3>1. pieces[b] \in Pieces /\ Taken[b] = pieces[b] /\ pieces[b] \in Nat
      BY <1>0, <2>1, Counts DEF ConfirmGift, GqTypeOK, Taken, GqCounts
    <3>2. pieces[b] <= Taken[b]
      BY <3>1
    <3> QED BY <2>1, <3>1, <3>2 DEF ConfirmGift
  <2>2. CASE EndGift(b)
    <3>1. 0 \in Pieces /\ 0 <= Taken[b]
      BY <1>0, Counts, GqNats DEF GqCounts
    <3> QED BY <2>2, <3>1 DEF EndGift
  <2> QED BY <2>1, <2>2
<1>2. /\ UNCHANGED <<budget, drawn, owner, region, pieces, loan, saver, overtaken, loosened>>
      /\ ~Saving(b)
  BY DEF ConfirmGift, EndGift
<1>3. GqTypeOK'
  BY <1>0, <1>1, <1>2 DEF GqTypeOK
<1>4. /\ gift'[b] = g /\ withdrawn'[b] = n
      /\ \A c \in Gift \ {b} : gift'[c] = gift[c] /\ withdrawn'[c] = withdrawn[c]
  BY <1>0, <1>1 DEF GqTypeOK
<1>5. Taken'[b] = n /\ \A c \in Gift \ {b} : Taken'[c] = Taken[c]
  BY <1>1, <1>2, <1>4 DEF Taken
<1>6. OnlyConfirmedDraw'
  BY <1>0, <1>1, <1>4 DEF OnlyConfirmedDraw
<1>7. \A s \in Saver : saver[s].on => saver[s].b \in Gift \ {b}
  BY <1>0, <1>2, AtWork DEF Saving
<1>8. SavesApart'
  BY <1>0, <1>2, <1>4, <1>7 DEF SavesApart
<1>9. \A c \in Gift : Taken'[c] <= Taken[c]
  <2>1. \A c \in Gift : Taken[c] \in Nat /\ Taken[c] <= Taken[c]
    BY <1>0, Counts DEF GqCounts
  <2> QED BY <1>1, <1>5, <2>1
<1>10. \A r \in Region \ loosened' : budget[r] - drawn[r] <= budget'[r] - drawn'[r]
  <2>1. \A r \in Region : budget[r] \in Nat /\ drawn[r] \in Nat
    BY <1>0, Counts DEF GqCounts
  <2> QED BY <1>2, <2>1
<1>11. \A s \in Saver \ overtaken' :
          \/ CheckHolds(s)'
          \/ /\ saver'[s] = saver[s] /\ s \notin overtaken
             /\ Taken'[saver[s].b] = Taken[saver[s].b]
  BY <1>2, <1>5, <1>7 DEF CheckHolds
<1>12. loosened \subseteq loosened' /\ UNCHANGED <<owner, region>>
  BY <1>2
<1> QED BY <1>3, <1>6, <1>8, <1>9, <1>10, <1>11, <1>12, Gives

\* Only the budgets, the withdrawals by hand and the loans change.
LEMMA DeskStep ==
  ASSUME GqInv, GqTypeOK', UNCHANGED <<gqBills, saver, overtaken>>,
         loosened \subseteq loosened',
         \A r \in Region \ loosened' : budget[r] - drawn[r] <= budget'[r] - drawn'[r]
  PROVE  GqInv'
<1> USE DEF gqBills
<1>1. SavesApart /\ OnlyConfirmedDraw /\ GqTypeOK
  BY DEF GqInv
<1>2. SavesApart' /\ OnlyConfirmedDraw'
  BY <1>1 DEF SavesApart, OnlyConfirmedDraw
<1>3. Taken' = Taken
  BY DEF Taken
<1>4. \A c \in Gift : Taken'[c] <= Taken[c]
  <2>1. \A c \in Gift : Taken[c] \in Nat
    BY <1>1, Counts DEF GqCounts
  <2> QED BY <1>3, <2>1
<1>5. \A s \in Saver \ overtaken' :
          \/ CheckHolds(s)'
          \/ /\ saver'[s] = saver[s] /\ s \notin overtaken
             /\ Taken'[saver[s].b] = Taken[saver[s].b]
  BY <1>3
<1> QED BY <1>2, <1>4, <1>5, Gives

LEMMA HandStep ==
  ASSUME GqInv, NEW r \in Region, NEW n \in Pieces, WithdrawByHand(r, n)
  PROVE  GqInv'
<1>0. GqTypeOK
  BY DEF GqInv
<1>1. /\ SumFunction(drawn) + n <= MaxDrawn /\ drawn' = [drawn EXCEPT ![r] = drawn[r] + n]
      /\ loosened' = loosened \cup {r}
      /\ UNCHANGED <<budget, gqBills, loan, saver, overtaken>>
  BY DEF WithdrawByHand
<1>2. \A q \in Region : budget[q] \in Nat /\ drawn[q] \in Nat
  BY <1>0, Counts DEF GqCounts
<1>3. DOMAIN drawn = Region /\ drawn \in [Region -> 0..MaxDrawn]
  BY <1>0 DEF GqTypeOK
<1>4. drawn[r] + n \in 0..MaxDrawn
  <2>1. SumFunction(drawn) = SumFunctionOnSet(drawn, Region)
    BY <1>3 DEF SumFunction, SumFunctionOnSet, FoldFunction
  <2>2. /\ SumFunctionOnSet(drawn, Region) \in Nat
        /\ drawn[r] <= SumFunctionOnSet(drawn, Region)
    BY <1>2, QuotaAssumption, SumNatural
  <2>3. n \in Nat /\ MaxDrawn \in Nat /\ drawn[r] \in Nat
    BY <1>2, GqNats
  <2> QED BY <1>1, <2>1, <2>2, <2>3
<1>5. GqTypeOK'
  <2>1. drawn' \in [Region -> 0..MaxDrawn]
    BY <1>1, <1>3, <1>4
  <2> QED BY <1>0, <1>1, <2>1 DEF GqTypeOK, gqBills
<1>6. \A q \in Region \ loosened' : budget[q] - drawn[q] <= budget'[q] - drawn'[q]
  <2>1. \A q \in Region \ loosened' : budget'[q] = budget[q] /\ drawn'[q] = drawn[q]
    BY <1>1, <1>3
  <2> QED BY <1>2, <2>1
<1> QED BY <1>1, <1>5, <1>6, DeskStep

LEMMA BudgetStep ==
  ASSUME GqInv, NEW r \in Region, NEW n \in Budget, SetBudget(r, n)
  PROVE  GqInv'
<1>0. GqTypeOK
  BY DEF GqInv
<1>1. /\ budget' = [budget EXCEPT ![r] = n]
      /\ loosened' = loosened \cup (IF n < budget[r] THEN {r} ELSE {})
      /\ UNCHANGED <<drawn, gqBills, loan, saver, overtaken>>
  BY DEF SetBudget
<1>2. \A q \in Region : budget[q] \in Nat /\ drawn[q] \in Nat
  BY <1>0, Counts DEF GqCounts
<1>3. budget'[r] = n /\ \A q \in Region \ {r} : budget'[q] = budget[q]
  BY <1>0, <1>1 DEF GqTypeOK
<1>4. GqTypeOK'
  BY <1>0, <1>1 DEF GqTypeOK, gqBills
<1>5. \A q \in Region \ loosened' : budget[q] - drawn[q] <= budget'[q] - drawn'[q]
  <2>1. \A x, y, z \in Int : x <= y => x - z <= y - z
    OBVIOUS
  <2>2. n \in Nat
    BY GqNats
  <2>3. \A q \in Region \ loosened' : budget[q] <= budget'[q] /\ budget'[q] \in Nat
    BY <1>1, <1>2, <1>3, <2>2
  <2>4. \A q \in Region \ loosened' : drawn'[q] = drawn[q]
    BY <1>1
  <2> QED BY <1>2, <2>1, <2>3, <2>4
<1> QED BY <1>1, <1>4, <1>5, DeskStep

LEMMA LoanSteps ==
  ASSUME GqInv, NEW l \in Loan,
         \/ \E to, from \in Region, n \in Pieces : Borrow(l, to, from, n)
         \/ RejectLoan(l)
  PROVE  GqInv'
<1>0. GqTypeOK
  BY DEF GqInv
<1>1. \A q \in Region : budget[q] \in Nat /\ drawn[q] \in Nat
  BY <1>0, Counts DEF GqCounts
<1>2. UNCHANGED <<budget, drawn, gqBills, saver, overtaken, loosened>>
  BY DEF Borrow, RejectLoan
<1>3. loan' \in [Loan -> {NoLoan} \cup Keeps]
  <2>1. loan \in [Loan -> {NoLoan} \cup Keeps]
    BY <1>0 DEF GqTypeOK, Keeps
  <2>2. ASSUME NEW to \in Region, NEW from \in Region, NEW n \in Pieces,
               Borrow(l, to, from, n)
        PROVE  loan' \in [Loan -> {NoLoan} \cup Keeps]
    BY <2>1, <2>2 DEF Borrow, Keeps
  <2>3. CASE RejectLoan(l)
    <3>1. loan[l] \in Keeps
      BY <2>1, <2>3 DEF RejectLoan, NoLoan
    <3>2. [loan[l] EXCEPT !.status = "REJECTED"] \in Keeps
      BY <3>1 DEF Keeps
    <3> QED BY <2>1, <2>3, <3>2 DEF RejectLoan
  <2> QED BY <2>2, <2>3
<1>4. GqTypeOK'
  BY <1>0, <1>2, <1>3 DEF GqTypeOK, gqBills, Keeps
<1>5. \A q \in Region \ loosened' : budget[q] - drawn[q] <= budget'[q] - drawn'[q]
  BY <1>1, <1>2
<1> QED BY <1>2, <1>4, <1>5, DeskStep

\* The lender is marked, and has what it lends; the borrower gains.
LEMMA ApproveStep ==
  ASSUME GqInv, NEW l \in Loan, ApproveLoan(l)
  PROVE  GqInv'
<1>0. GqTypeOK /\ OnlyConfirmedDraw
  BY DEF GqInv
<1>1. \A q \in Region : budget[q] \in Nat /\ drawn[q] \in Nat
  BY <1>0, Counts DEF GqCounts
<1>2. loan \in [Loan -> {NoLoan} \cup Keeps]
  BY <1>0 DEF GqTypeOK, Keeps
<1>3. loan[l] \in Keeps
  BY <1>2 DEF ApproveLoan, NoLoan
<1>4. PICK to \in Region, from \in Region, n \in Pieces :
        to = loan[l].to /\ from = loan[l].from /\ n = loan[l].n
  BY <1>3 DEF Keeps
<1>5. /\ Lendable(from, n)
      /\ budget' = [budget EXCEPT ![from] = @ - n, ![to] = @ + n]
      /\ budget'[to] \in Budget
      /\ loan' = [loan EXCEPT ![l].status = "APPROVED"]
      /\ loosened' = loosened \cup {from}
      /\ UNCHANGED <<drawn, gqBills, saver, overtaken>>
  BY <1>4 DEF ApproveLoan
<1>6. n \in Nat
  BY GqNats
<1>7. \A q \in Region : q # to /\ q # from => budget'[q] = budget[q]
  BY <1>0, <1>5 DEF GqTypeOK
<1>8. from # to => budget'[from] = budget[from] - n /\ budget'[to] = budget[to] + n
  BY <1>0, <1>5 DEF GqTypeOK
<1>9. GqTypeOK'
  <2>1. budget[from] - n \in Budget
    <3>1. Total(withdrawn, BillsOf(from)) \in Nat
      BY <1>0, OneSum
    <3>2. n <= (budget[from] - drawn[from]) - Total(withdrawn, BillsOf(from))
      BY <1>5 DEF Lendable, BudgetLeft
    <3>3. budget[from] \in Budget
      BY <1>0 DEF GqTypeOK
    <3>4. \A x, y, w, z \in Nat : z <= (x - y) - w => x - z \in Nat /\ x - z <= x
      OBVIOUS
    <3>5. budget[from] - n \in Nat /\ budget[from] - n <= budget[from]
      BY <1>1, <1>6, <3>1, <3>2, <3>4
    <3> QED BY <3>3, <3>5, QuotaAssumption DEF Budget
  <2>2. budget' \in [Region -> Budget]
    <3>1. \A q \in Region : budget'[q] \in Budget
      <4>1. \A q \in Region : budget[q] \in Budget
        BY <1>0 DEF GqTypeOK
      <4>2. from # to => budget'[from] \in Budget
        BY <1>8, <2>1
      <4> QED BY <1>5, <1>7, <4>1, <4>2
    <3>2. DOMAIN budget' = Region /\ budget' = [q \in DOMAIN budget' |-> budget'[q]]
      BY <1>0, <1>5 DEF GqTypeOK
    <3> QED BY <3>1, <3>2
  <2>3. [loan[l] EXCEPT !.status = "APPROVED"] \in Keeps
    BY <1>3 DEF Keeps
  <2>4. loan' \in [Loan -> {NoLoan} \cup Keeps]
    BY <1>2, <1>5, <2>3
  <2>5. loosened' \subseteq Region
    BY <1>0, <1>5 DEF GqTypeOK
  <2> QED BY <1>0, <1>5, <2>2, <2>4, <2>5 DEF GqTypeOK, gqBills, Keeps
<1>10. \A q \in Region \ loosened' : budget[q] - drawn[q] <= budget'[q] - drawn'[q]
  <2>1. \A q \in Region \ loosened' : q # from /\ drawn'[q] = drawn[q]
    BY <1>5
  <2>2. \A q \in Region \ loosened' : budget'[q] = budget[q] \/ budget'[q] = budget[q] + n
    BY <1>7, <1>8, <2>1
  <2>3. \A x, y, z \in Nat : x - y <= x - y /\ x - y <= (x + z) - y
    OBVIOUS
  <2> QED BY <1>1, <1>6, <2>1, <2>2, <2>3
<1> QED BY <1>5, <1>9, <1>10, DeskStep

-----------------------------------------------------------------------------
LEMMA GqStep == GqInv /\ [GqNext]_gqVars => GqInv'
<1> SUFFICES ASSUME GqInv, [GqNext]_gqVars PROVE GqInv'
  OBVIOUS
<1>1. ASSUME NEW s \in Saver, NEW b \in Gift, NEW n \in Pieces,
             NEW book \in {"I", "K", "own row"}, StartSave(s, b, n, book)
      PROVE  GqInv'
  BY <1>1, StartStep
<1>2. ASSUME NEW s \in Saver, Save(s) \/ RefuseSave(s) PROVE GqInv'
  BY <1>2, SaveStep, RefuseStep
<1>3. ASSUME NEW b \in Gift, ConfirmGift(b) \/ EndGift(b) PROVE GqInv'
  BY <1>3, BillSteps
<1>4. ASSUME NEW r \in Region, NEW n \in Pieces, WithdrawByHand(r, n) PROVE GqInv'
  BY <1>4, HandStep
<1>5. ASSUME NEW r \in Region, NEW n \in Budget, SetBudget(r, n) PROVE GqInv'
  BY <1>5, BudgetStep
<1>6. ASSUME NEW l \in Loan, NEW to \in Region, NEW from \in Region, NEW n \in Pieces,
             Borrow(l, to, from, n)
      PROVE  GqInv'
  BY <1>6, LoanSteps
<1>7. ASSUME NEW l \in Loan, RejectLoan(l) \/ ApproveLoan(l) PROVE GqInv'
  BY <1>7, LoanSteps, ApproveStep
<1>8. CASE UNCHANGED gqVars
  <2> USE DEF gqVars, gqBills
  <2>1. GqTypeOK /\ \A q \in Region : budget[q] \in Nat /\ drawn[q] \in Nat
    BY Counts DEF GqInv, GqCounts
  <2>2. GqTypeOK'
    BY <1>8, <2>1 DEF GqTypeOK
  <2>3. \A r \in Region \ loosened' : budget[r] - drawn[r] <= budget'[r] - drawn'[r]
    BY <1>8, <2>1
  <2> QED BY <1>8, <2>2, <2>3, DeskStep
<1> QED BY <1>1, <1>2, <1>3, <1>4, <1>5, <1>6, <1>7, <1>8 DEF GqNext

LEMMA GqStart == GqInit => GqInv
<1> SUFFICES ASSUME GqInit PROVE GqInv
  OBVIOUS
<1> USE DEF GqInit
<1>1. 0 \in Pieces /\ 0 \in 0..MaxDrawn
  BY GqNats
<1>2. GqTypeOK
  BY <1>1 DEF GqTypeOK
<1>3. \A s \in Saver : ~saver[s].on
  BY DEF NoSave
<1>4. SavesApart /\ OnlyConfirmedDraw /\ \A s \in Saver : CheckHolds(s)
  BY <1>3 DEF SavesApart, OnlyConfirmedDraw, CheckHolds
<1>5. NothingOwed
  <2> SUFFICES ASSUME NEW r \in Region PROVE 0 <= Spare(r)
    BY DEF NothingOwed
  <2>1. \A b \in BillsOf(r) : Taken[b] = 0
    BY OfRegion DEF Taken
  <2>2. Total(Taken, BillsOf(r)) = 0
    BY <2>1, OfRegion, SumZeros DEF Total
  <2>3. budget[r] \in Nat /\ drawn[r] = 0
    BY <1>2, Counts DEF GqCounts
  <2> QED BY <2>2, <2>3 DEF Spare
<1>6. Alone
  BY DEF Alone
<1> QED BY <1>2, <1>4, <1>5, <1>6 DEF GqInv

LEMMA GqInvariant == GqSpec => []GqInv
BY GqStart, GqStep, PTL DEF GqSpec

\* Every row keeps its type; no budget falls below zero, whatever is lent.
THEOREM GiveawaysTyped == GqSpec => []GqTypeOK
<1>1. GqInv => GqTypeOK
  BY DEF GqInv
<1> QED BY <1>1, GqInvariant, PTL

\* A region that nobody loosened never owes more than its budget, the promises
\* of its drafts included (checkGiveawayQuota).
THEOREM PromisesAlwaysFit == GqSpec => []PromisesFit
<1>1. GqInv => PromisesFit
  BY OwedIs DEF GqInv
<1> QED BY <1>1, GqInvariant, PTL
=============================================================================
