---------------------------- MODULE RebateLedger ----------------------------
(***************************************************************************)
(* The rebate money of one customer in one pool (a salesperson's month):   *)
(* wf.RebateLedger, wf.RebateUsage, wf.RebatePool and wf.RebateClaim, and  *)
(* the bills that earn it when they ship and spend it as a discount.       *)
(*                                                                         *)
(* A bill earns one ledger row when it ships (routes/so.js                 *)
(* bookRebateAccrual).  The rows are spent in two ways: a claim cuts them  *)
(* when it is filed (routes/rebate.js) and later becomes a discount on one *)
(* bill (services/rebate-claim-apply.js); a bill's own discount consumes   *)
(* them when it is confirmed (services/draft-confirmation.js).  Both give  *)
(* back: a rejected claim, a cancelled bill.                               *)
(*                                                                         *)
(* Each action is one transaction; the routes lock the rows they read.     *)
(* Amounts are in one unit, and a bill has one line that accrues.          *)
(***************************************************************************)
EXTENDS Integers, FiniteSets, Functions

CONSTANTS
    Bill,       \* bills, as a draft and as the booking it becomes
    Claim,      \* claims
    NoClaim, NoBill,
    MaxAmt,     \* bound: what a bill earns, what a claim asks for
    Subtotal,   \* what a bill's goods cost: the limit of its discounts
    Ratio       \* the customer's share of a claim, in percent

ASSUME RebateAssumption ==
    /\ IsFiniteSet(Bill) /\ IsFiniteSet(Claim)
    /\ NoClaim \notin Claim /\ NoBill \notin Bill
    /\ {MaxAmt, Subtotal} \subseteq Nat /\ Ratio \in 0..100

VARIABLES
    stage,      \* of a bill
    discount,   \* RebateDiscountAmt
    claimPart,  \* ClaimDiscountAmt: the part of it that came from claims
    applied,    \* AppliedRebateClaimId
    row,        \* Status of the ledger row the bill earned, "none" before
    born,       \* the place of that row in the order of CreatedAt
    amount,     \* RebateAmount
    left,       \* RemainingAmt
    usage,      \* [bill][row]: the sum of the RebateUsage rows
    accrued, claimed,   \* AccruedAmt and ClaimedAmt of the pool
    status,     \* of a claim
    asked,      \* ClaimAmt
    heldBy      \* AppliedDraftSoId

billVars == <<stage, discount, claimPart, applied>>
rowVars == <<row, born, amount>>
claimVars == <<status, asked, heldBy>>
vars == <<billVars, rowVars, left, usage, accrued, claimed, claimVars>>

Stage == {"none", "DRAFT", "CONFIRMED", "UNLOCKED", "SHIPPED", "CANCELLED"}
Pending == {"TIER2_PENDING", "TIER3_PENDING", "TIER4_PENDING"}
ClaimStatus == Pending \cup {"none", "APPROVED", "CN_ISSUED", "REJECTED"}

Init ==
    /\ stage = [b \in Bill |-> "none"]
    /\ discount = [b \in Bill |-> 0]
    /\ claimPart = [b \in Bill |-> 0]
    /\ applied = [b \in Bill |-> NoClaim]
    /\ row = [b \in Bill |-> "none"]
    /\ born = [b \in Bill |-> 0]
    /\ amount = [b \in Bill |-> 0]
    /\ left = [b \in Bill |-> 0]
    /\ usage = [b \in Bill |-> [r \in Bill |-> 0]]
    /\ accrued = 0
    /\ claimed = 0
    /\ status = [c \in Claim |-> "none"]
    /\ asked = [c \in Claim |-> 0]
    /\ heldBy = [c \in Claim |-> NoBill]

-----------------------------------------------------------------------------
Lesser(m, n) == IF m < n THEN m ELSE n

Live == {r \in Bill : row[r] \in {"PENDING", "CLAIMED"}}

\* What a loop over the ledger rows takes from each: n in all, or what there
\* is; a row is touched only when the rows before it gave all they can.
Spreads(n, room, Before(_, _)) ==
    {take \in [Bill -> 0..n] :
        /\ \A r \in Bill : take[r] <= room[r]
        /\ SumFunction(take) = Lesser(n, SumFunction(room))
        /\ \A r, s \in Bill :
              Before(s, r) /\ take[r] > 0 => take[s] = room[s]}

Older(s, r) == born[s] < born[r]
Newer(s, r) == born[s] > born[r]
OldestFirst(n, room) == Spreads(n, room, Older)
NewestFirst(n, room) == Spreads(n, room, Newer)

\* RemainingAmt - cut, and CLAIMED when nothing is left.
CutRows(take) ==
    /\ left' = [r \in Bill |-> left[r] - take[r]]
    /\ row' = [r \in Bill |-> IF take[r] > 0 /\ left[r] = take[r]
                              THEN "CLAIMED" ELSE row[r]]

\* Mutant: a row given money back stays CLAIMED.
StillClaimed(r, n) == row[r]
Reopened(r, n) == IF n > 0 /\ row[r] = "CLAIMED" THEN "PENDING" ELSE row[r]

\* RemainingAmt + put, and PENDING again.
PutBack(put) ==
    /\ left' = [r \in Bill |-> left[r] + put[r]]
    /\ row' = [r \in Bill |-> Reopened(r, put[r])]

\* Discounts draw on rows that are PENDING, claims on every live one.
Remains(r) == left[r]
ToSpend == [r \in Bill |-> IF row[r] = "PENDING" THEN Remains(r) ELSE 0]
ToClaim == [r \in Bill |-> IF r \in Live THEN left[r] ELSE 0]

-----------------------------------------------------------------------------
\* Bills.

Create(b, d) ==
    /\ stage[b] = "none"
    /\ stage' = [stage EXCEPT ![b] = "DRAFT"]
    /\ discount' = [discount EXCEPT ![b] = d]
    /\ UNCHANGED <<claimPart, applied, rowVars, left, usage, accrued, claimed,
                   claimVars>>

\* The discount of a draft may change, never below what its claims gave it.
EditDiscount(b, d) ==
    /\ stage[b] = "DRAFT"
    /\ d >= claimPart[b]
    /\ discount' = [discount EXCEPT ![b] = d]
    /\ UNCHANGED <<stage, claimPart, applied, rowVars, left, usage, accrued,
                   claimed, claimVars>>

\* The customer's share of a claim, rounded to a whole unit.
CustomerAmount(c) == (asked[c] * Ratio + 50) \div 100

\* Mutant: a claim already on a draft may be put on another one.
FreeOrNot(c) == TRUE
Free(c) == heldBy[c] = NoBill

ApplyClaim(c, b) ==
    /\ status[c] = "APPROVED"
    /\ Free(c)
    /\ CustomerAmount(c) > 0
    /\ stage[b] = "DRAFT"
    /\ discount[b] + CustomerAmount(c) <= Subtotal
    /\ discount' = [discount EXCEPT ![b] = @ + CustomerAmount(c)]
    /\ claimPart' = [claimPart EXCEPT ![b] = @ + CustomerAmount(c)]
    /\ applied' = [applied EXCEPT ![b] = c]
    /\ heldBy' = [heldBy EXCEPT ![c] = b]
    /\ UNCHANGED <<stage, rowVars, left, usage, accrued, claimed, status, asked>>

LedgerPart(b) == discount[b] - claimPart[b]

Advance(b) ==
    IF applied[b] = NoClaim THEN UNCHANGED status
    ELSE /\ heldBy[applied[b]] = b
         /\ status[applied[b]] = "APPROVED"
         /\ status' = [status EXCEPT ![applied[b]] = "CN_ISSUED"]

\* A draft becomes a booking: it consumes the ledger oldest first, and the
\* claim it names is spent.  Too little in the ledger fails the whole confirm.
Confirm(b) ==
    /\ stage[b] = "DRAFT"
    /\ discount[b] <= Subtotal
    /\ LedgerPart(b) <= SumFunction(ToSpend)
    /\ stage' = [stage EXCEPT ![b] = "CONFIRMED"]
    /\ \E take \in OldestFirst(LedgerPart(b), ToSpend) :
          /\ CutRows(take)
          /\ usage' = [usage EXCEPT ![b] = [r \in Bill |-> @[r] + take[r]]]
    /\ Advance(b)
    /\ UNCHANGED <<discount, claimPart, applied, born, amount, accrued, claimed,
                   asked, heldBy>>

\* Confirming an unlocked booking only locks it again (what it checks first
\* does not touch the rebate).
Relock(b) ==
    /\ stage[b] = "UNLOCKED"
    /\ stage' = [stage EXCEPT ![b] = "CONFIRMED"]
    /\ UNCHANGED <<discount, claimPart, applied, rowVars, left, usage, accrued,
                   claimed, claimVars>>

Ship(b) ==
    /\ stage[b] = "CONFIRMED"
    /\ stage' = [stage EXCEPT ![b] = "SHIPPED"]
    /\ UNCHANGED <<discount, claimPart, applied, rowVars, left, usage, accrued,
                   claimed, claimVars>>

\* Mutant: the row already there is not looked for.
Unseen(b) == TRUE
NotBooked(b) == row[b] = "none"

Book(b, n) ==
    /\ stage[b] = "SHIPPED"
    /\ NotBooked(b)
    /\ row' = [row EXCEPT ![b] = "PENDING"]
    /\ born' = [born EXCEPT ![b] = 1 + Cardinality({r \in Bill : born[r] > 0})]
    /\ amount' = [amount EXCEPT ![b] = n]
    /\ left' = [left EXCEPT ![b] = n]
    /\ accrued' = accrued + n
    /\ UNCHANGED <<billVars, usage, claimed, claimVars>>

\* An approved request to edit reverses the row the bill earned.  A bill that
\* has left the scale still reads SHIPPED.
Unlock(b) ==
    /\ stage[b] \in {"CONFIRMED", "SHIPPED"}
    /\ stage' = [stage EXCEPT ![b] = IF @ = "SHIPPED" THEN @ ELSE "UNLOCKED"]
    /\ row' = [row EXCEPT ![b] = IF b \in Live THEN "REVERSED" ELSE @]
    /\ UNCHANGED <<discount, claimPart, applied, born, amount, left, usage,
                   accrued, claimed, claimVars>>

FreeClaims(b) ==
    heldBy' = [c \in Claim |-> IF heldBy[c] = b /\ status[c] = "APPROVED"
                               THEN NoBill ELSE heldBy[c]]

CancelDraft(b) ==
    /\ stage[b] = "DRAFT"
    /\ stage' = [stage EXCEPT ![b] = "CANCELLED"]
    /\ FreeClaims(b)
    /\ UNCHANGED <<discount, claimPart, applied, rowVars, left, usage, accrued,
                   claimed, status, asked>>

ReversedUsage(b) == [usage EXCEPT ![b] = [r \in Bill |-> 0]]

\* A booking cancelled before it ships gives its discount back to the rows it
\* came from, and a claim it spent is APPROVED and free again.
CancelBooking(b) ==
    /\ stage[b] \in {"CONFIRMED", "UNLOCKED"}
    /\ stage' = [stage EXCEPT ![b] = "CANCELLED"]
    /\ PutBack([r \in Bill |-> IF r \in Live THEN usage[b][r] ELSE 0])
    /\ usage' = ReversedUsage(b)
    /\ LET spent == {c \in Claim : heldBy[c] = b /\ status[c] = "CN_ISSUED"}
       IN /\ status' = [c \in Claim |-> IF c \in spent THEN "APPROVED" ELSE status[c]]
          /\ heldBy' = [c \in Claim |-> IF c \in spent THEN NoBill ELSE heldBy[c]]
    /\ UNCHANGED <<discount, claimPart, applied, born, amount, accrued, claimed,
                   asked>>

\* Deleting a draft frees its claims; an unlocked booking is only marked
\* cancelled, and in bulk neither gives anything back.
Delete(b, bulk) ==
    /\ stage[b] \in {"DRAFT", "UNLOCKED"}
    /\ stage' = [stage EXCEPT ![b] = "CANCELLED"]
    /\ IF stage[b] = "DRAFT" /\ ~bulk THEN FreeClaims(b) ELSE UNCHANGED heldBy
    /\ UNCHANGED <<discount, claimPart, applied, rowVars, left, usage, accrued,
                   claimed, status, asked>>

-----------------------------------------------------------------------------
\* Claims.

Used == SumFunction([b \in Bill |-> SumFunctionOnSet(usage[b], Live)])

Available == Lesser(accrued - claimed - Used, SumFunction(ToClaim))

File(c, n) ==
    /\ status[c] = "none"
    /\ n <= Available
    /\ status' = [status EXCEPT ![c] = "TIER2_PENDING"]
    /\ asked' = [asked EXCEPT ![c] = n]
    /\ \E take \in OldestFirst(n, ToClaim) : CutRows(take)
    /\ claimed' = claimed + n
    /\ UNCHANGED <<billVars, born, amount, usage, accrued, heldBy>>

NextTier(s) == CASE s = "TIER2_PENDING" -> "TIER3_PENDING"
                 [] s = "TIER3_PENDING" -> "TIER4_PENDING"
                 [] s = "TIER4_PENDING" -> "APPROVED"

Approve(c) ==
    /\ status[c] \in Pending
    /\ status' = [status EXCEPT ![c] = NextTier(@)]
    /\ UNCHANGED <<billVars, rowVars, left, usage, accrued, claimed, asked, heldBy>>

\* Mutant: a rejected claim can be rejected again.
Filed(c) == status[c] # "none"
Undecided(c) == status[c] \in Pending

\* Mutant: the pool's total comes back and the ledger's does not.
NothingLost(r) == 0
Lost(r) == IF r \in Live /\ left[r] < amount[r] THEN amount[r] - left[r] ELSE 0

\* The pool's total comes back, and the ledger's: to the newest rows first,
\* each up to what it lost.
Reject(c) ==
    /\ Undecided(c)
    /\ status' = [status EXCEPT ![c] = "REJECTED"]
    /\ claimed' = IF claimed >= asked[c] THEN claimed - asked[c] ELSE 0
    /\ \E put \in NewestFirst(asked[c], [r \in Bill |-> Lost(r)]) : PutBack(put)
    /\ UNCHANGED <<billVars, born, amount, usage, accrued, asked, heldBy>>

-----------------------------------------------------------------------------
Next ==
    \/ \E b \in Bill :
          \/ \E d \in 0..MaxAmt : Create(b, d) \/ EditDiscount(b, d)
          \/ \E c \in Claim : ApplyClaim(c, b)
          \/ \E n \in 1..MaxAmt : Book(b, n)
          \/ Confirm(b) \/ Relock(b) \/ Ship(b) \/ Unlock(b)
          \/ CancelDraft(b) \/ CancelBooking(b)
          \/ \E bulk \in BOOLEAN : Delete(b, bulk)
    \/ \E c \in Claim :
          \/ \E n \in 1..MaxAmt : File(c, n)
          \/ Approve(c) \/ Reject(c)

Spec == Init /\ [][Next]_vars
-----------------------------------------------------------------------------
\* The rows of the tables keep their types; no row is cut below zero.
TypeOK ==
    /\ stage \in [Bill -> Stage]
    /\ discount \in [Bill -> Nat]
    /\ claimPart \in [Bill -> Nat]
    /\ applied \in [Bill -> Claim \cup {NoClaim}]
    /\ row \in [Bill -> {"none", "PENDING", "CLAIMED", "REVERSED"}]
    /\ born \in [Bill -> Nat]
    /\ amount \in [Bill -> 0..MaxAmt]
    /\ left \in [Bill -> Nat]
    /\ usage \in [Bill -> [Bill -> Nat]]
    /\ accrued \in Nat /\ claimed \in Nat
    /\ status \in [Claim -> ClaimStatus]
    /\ asked \in [Claim -> 0..MaxAmt]
    /\ heldBy \in [Claim -> Bill \cup {NoBill}]

\* ClaimedAmt of the pool is what its claims that were not rejected asked
\* for, whatever was filed, rejected, applied or cancelled in between.
PoolMatchesClaims ==
    claimed = SumFunctionOnSet(asked, {c \in Claim : status[c] \notin {"none", "REJECTED"}})

\* Every discount is paid for once: the part of it that came from claims by
\* the claims the bill holds, none of which another bill has, and the rest,
\* once the bill is confirmed, by the rows it consumed ("only for the ledger
\* portion to avoid double deduction", draft-confirmation.js).
DiscountPaidOnce ==
    \A b \in Bill : stage[b] \notin {"none", "CANCELLED"} =>
        /\ claimPart[b] = SumFunctionOnSet([c \in Claim |-> CustomerAmount(c)],
                                          {c \in Claim : heldBy[c] = b})
        /\ SumFunction(usage[b]) = IF stage[b] = "DRAFT" THEN 0 ELSE LedgerPart(b)

\* As long as no row was reversed, the money earned is the money that
\* remains, plus what discounts used, plus what claims took: no order of
\* filing, rejecting, confirming and cancelling creates or loses any.
MoneyConserved ==
    (\A r \in Bill : row[r] # "REVERSED") =>
        accrued = SumFunction(left) + Used + claimed

\* A row's status tells what is left of it: a row the discounts may not draw
\* on any more has nothing left, so no money is stranded in a CLAIMED row.
NothingStranded == \A r \in Bill : row[r] = "CLAIMED" => left[r] = 0

\* A bill earns its rebate once, however often its shipment is repeated or
\* recovered, before or after an unlock reversed the row: the pool's total is
\* the sum of the rows ever booked.
EarnedOnce == accrued = SumFunction(amount)

\* "give back applied claims and consumed accrual (drafts and confirmed bills
\* alike)" (bulk cancel and delete).
GoneBillsGaveBack ==
    \A b \in Bill : stage[b] = "CANCELLED" =>
        /\ SumFunctionOnSet(usage[b], Live) = 0
        /\ \A c \in Claim : heldBy[c] # b
=============================================================================
