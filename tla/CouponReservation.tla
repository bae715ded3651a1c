------------------------- MODULE CouponReservation -------------------------
(***************************************************************************)
(* Reservations of one fertiliser coupon (services/coupon-service.js) and  *)
(* their settlement against the cuts that the counter records in WINSpeed. *)
(*                                                                         *)
(* The native balance RemaQty belongs to WINSpeed: a cut lowers it and     *)
(* adds a redemption row, and tells this program nothing.  The program     *)
(* keeps reservations that hold tons back from the balance until a cut is  *)
(* found for them.  reserveCoupon and the bill operations are transactions *)
(* under row locks and are single steps.  A settlement is several queries: *)
(* it takes an in-memory lock, reads the reservations, reads the cuts, and *)
(* then writes match after match in one transaction.                       *)
(***************************************************************************)
EXTENDS Naturals, FiniteSets, Functions

CONSTANTS
    Res,        \* rows of wf.CouponReservation for the coupon
    Cut,        \* redemption rows the counter may write in WINSpeed
    Call,       \* settlement calls in flight: timers, reads and users
    Bill,       \* sales orders
    Balance,    \* RemaQty before anything is cut
    MaxQty,     \* bound: tons in one reservation or one cut
    WalkIn,     \* whether the counter also cuts tons nobody reserved
    MayExpire,  \* whether a reservation may be made with ExpiresAt
    MayCancel,  \* bound: whether reservations and bills are withdrawn
    NoCall,     \* the settlement lock is free
    NoRes,
    NoBill      \* CarrierSoId = 'DRAFT'

ASSUME CouponAssumption ==
    /\ IsFiniteSet(Res) /\ IsFiniteSet(Cut)
    /\ Balance \in Nat /\ MaxQty \in Nat \ {0}
    /\ WalkIn \in BOOLEAN /\ MayExpire \in BOOLEAN /\ MayCancel \in BOOLEAN
    /\ NoCall \notin Call /\ NoRes \notin Res /\ NoBill \notin Bill

VARIABLES
    status,     \* Status; "NONE" until the row exists
    qty,        \* ReservedQty
    consumed,   \* ConsumedQty
    expiry,     \* ExpiresAt: "none", "ahead" or "past"
    carrier,    \* CarrierSoId
    bill,       \* the bills: "NONE", "OPEN" or "CANCELLED"
    line,       \* the reservations on the lines of a bill
    rema,       \* dbo.WFCoupon.RemaQty
    cutQty,     \* GoodQty of the redemption row, 0 until it exists
    taken,      \* SUM(SettledQty) over the settlement rows of a cut
    paired,     \* the (reservation, cut) pairs that have a settlement row
    lock,       \* _settlementLocks: the call inside the settlement, if any
    pc,         \* where a settlement call stands
    seenRem,    \* the holder's working copy of what reservations have left
    seenCut,    \* and of the unsettled part of the cuts
    pick,       \* what a manual settlement has read and decided
    open        \* the settlement transaction: the rows it wrote, with what
                \* a rollback puts back

reservationVars == <<status, qty, consumed, expiry, carrier>>
billVars == <<bill, line>>
nativeVars == <<rema, cutQty>>
settlementVars == <<taken, paired>>
callVars == <<lock, pc, seenRem, seenCut, pick, open>>
vars == <<reservationVars, billVars, nativeVars, settlementVars, callVars>>

Qty == 1..MaxQty
Status == {"NONE", "RESERVED", "CANCELLED", "CONSUMED"}

SumOver(f, S) == SumFunctionOnSet(f, S)

NoStatus == [r \in Res |-> "NONE"]
NoTonsOf(S) == [x \in S |-> 0]
Closed == [rows |-> {}, status |-> NoStatus, consumed |-> NoTonsOf(Res),
           taken |-> NoTonsOf(Cut), paired |-> {}]
Begun == [rows |-> {}, status |-> NoStatus, consumed |-> consumed,
          taken |-> taken, paired |-> paired]
NoPick == [res |-> NoRes, rem |-> 0, cut |-> {}, qty |-> 0]

Init ==
    /\ status = NoStatus
    /\ qty = NoTonsOf(Res)
    /\ consumed = NoTonsOf(Res)
    /\ expiry = [r \in Res |-> "none"]
    /\ carrier = [r \in Res |-> NoBill]
    /\ bill = [b \in Bill |-> "NONE"]
    /\ line = [b \in Bill |-> {}]
    /\ rema = Balance
    /\ cutQty = NoTonsOf(Cut)
    /\ taken = NoTonsOf(Cut)
    /\ paired = {}
    /\ lock = NoCall
    /\ pc = [s \in Call |-> "idle"]
    /\ seenRem = NoTonsOf(Res)
    /\ seenCut = NoTonsOf(Cut)
    /\ pick = [s \in Call |-> NoPick]
    /\ open = Closed

-----------------------------------------------------------------------------
\* What the queries compute.

Remaining(r) == qty[r] - consumed[r]
Unsettled(c) == cutQty[c] - taken[c]
Active(r) == status[r] = "RESERVED" /\ expiry[r] # "past"
ActiveRows == {r \in Res : Active(r)}

\* reserveCoupon sums ReservedQty, not what is left of it.
ActiveReserved == SumOver(qty, ActiveRows)

\* Rows the open settlement transaction wrote are locked until it ends.
Unlocked(rows) == rows \cap open.rows = {}

-----------------------------------------------------------------------------
\* reserveCoupon: the coupon row and the active rows are locked, so a second
\* request waits.  A replay of an idempotency key changes nothing.
Reserve(r, q, e) ==
    /\ status[r] = "NONE"
    /\ open.rows = {}
    /\ rema >= ActiveReserved + q
    /\ status' = [status EXCEPT ![r] = "RESERVED"]
    /\ qty' = [qty EXCEPT ![r] = q]
    /\ expiry' = [expiry EXCEPT ![r] = e]
    /\ UNCHANGED <<consumed, carrier, billVars, nativeVars, settlementVars,
                   callVars>>

\* ExpiresAt passes; nothing in the program writes it down.
Expire(r) ==
    /\ expiry[r] = "ahead"
    /\ expiry' = [expiry EXCEPT ![r] = "past"]
    /\ UNCHANGED <<status, qty, consumed, carrier, billVars, nativeVars,
                   settlementVars, callVars>>

\* Mutant: the lines of the bills are not looked at.
AttachedNever(r) == FALSE
AttachedToOpenBill(r) == \E b \in Bill : bill[b] = "OPEN" /\ r \in line[b]

\* cancelReservation asked for by a user.  A CONSUMED row is not refused.
CancelReservation(r) ==
    /\ MayCancel
    /\ status[r] \in {"RESERVED", "CONSUMED"}
    /\ ~AttachedToOpenBill(r)
    /\ Unlocked({r})
    /\ status' = [status EXCEPT ![r] = "CANCELLED"]
    /\ UNCHANGED <<qty, consumed, expiry, carrier, billVars, nativeVars,
                   settlementVars, callVars>>

\* Mutant: the carrier of the reservation is not compared.
BindableToAny(r, b) == Active(r)
\* validateAndLockCouponReservations: active, and free or this bill's own.
Bindable(r, b) == Active(r) /\ carrier[r] \in {NoBill, b}

\* The reservations in S are withdrawn, those still RESERVED.
Withdraw(S) ==
    status' = [r \in Res |-> IF r \in S /\ status[r] = "RESERVED"
                             THEN "CANCELLED" ELSE status[r]]

\* A bill is keyed or edited with the reservations in S on its lines; those
\* the edit drops are cancelled, the rest are bound to the bill.
KeyBill(b, S) ==
    /\ \/ bill[b] = "NONE" /\ S # {}
       \/ bill[b] = "OPEN" /\ S # line[b] /\ (MayCancel \/ line[b] \subseteq S)
    /\ \A r \in S : Bindable(r, b)
    /\ Unlocked(S \cup line[b])
    /\ bill' = [bill EXCEPT ![b] = "OPEN"]
    /\ line' = [line EXCEPT ![b] = S]
    /\ carrier' = [r \in Res |-> IF r \in S THEN b ELSE carrier[r]]
    /\ Withdraw(line[b] \ S)
    /\ UNCHANGED <<qty, consumed, expiry, nativeVars, settlementVars, callVars>>

ReleasedWithBill(b) == {r \in Res : carrier[r] = b}

\* The bill is cancelled or deleted.
CancelBill(b) ==
    /\ MayCancel
    /\ bill[b] = "OPEN"
    /\ Unlocked(ReleasedWithBill(b))
    /\ bill' = [bill EXCEPT ![b] = "CANCELLED"]
    /\ Withdraw(ReleasedWithBill(b))
    /\ UNCHANGED <<qty, consumed, expiry, carrier, line, nativeVars,
                   settlementVars, callVars>>

-----------------------------------------------------------------------------
\* The counter cuts tons in WINSpeed: for the trucks of reservations that
\* are active and not yet cut, or, if WalkIn, for anyone.
NativeCut(c, q) ==
    /\ cutQty[c] = 0
    /\ q <= rema
    /\ \/ WalkIn
       \/ SumOver([d \in Cut |-> Unsettled(d)], Cut) + q
            <= SumOver([r \in Res |-> Remaining(r)], ActiveRows)
    /\ cutQty' = [cutQty EXCEPT ![c] = q]
    /\ rema' = rema - q
    /\ UNCHANGED <<reservationVars, billVars, settlementVars, callVars>>

-----------------------------------------------------------------------------
\* settleCouponReservations.

\* Mutant: the lock does not keep a second call out.
LockIgnored == TRUE
LockFree == lock = NoCall

\* Query 1: active reservations with something left, read with NOLOCK.
ReadReservations(s) ==
    /\ pc[s] = "idle"
    /\ LockFree
    /\ \E r \in ActiveRows : Remaining(r) > 0
    /\ lock' = s
    /\ pc' = [pc EXCEPT ![s] = "readCuts"]
    /\ seenRem' = [r \in Res |-> IF Active(r) THEN Remaining(r) ELSE 0]
    /\ UNCHANGED <<reservationVars, billVars, nativeVars, settlementVars,
                   seenCut, pick, open>>

\* The call ends: finally { _settlementLocks.delete(cId) }.
Leave(s) ==
    /\ lock' = NoCall
    /\ pc' = [pc EXCEPT ![s] = "idle"]
    /\ seenRem' = NoTonsOf(Res)
    /\ seenCut' = NoTonsOf(Cut)
    /\ open' = Closed
    /\ pick' = [pick EXCEPT ![s] = NoPick]

\* Query 2: the unsettled part of the cuts.
ReadCuts(s) ==
    /\ pc[s] = "readCuts"
    /\ IF \E c \in Cut : Unsettled(c) > 0
       THEN /\ seenCut' = [c \in Cut |-> Unsettled(c)]
            /\ pc' = [pc EXCEPT ![s] = "settle"]
            /\ open' = Begun
            /\ UNCHANGED <<lock, seenRem, pick>>
       ELSE Leave(s)
    /\ UNCHANGED <<reservationVars, billVars, nativeVars, settlementVars>>

StatusAfter(r, q) == IF consumed[r] + q >= qty[r] THEN "CONSUMED" ELSE status[r]

\* One settlement row and the reservation's ConsumedQty go together.
Book(r, c, q) ==
    /\ taken' = [taken EXCEPT ![c] = @ + q]
    /\ paired' = paired \cup {<<r, c>>}
    /\ consumed' = [consumed EXCEPT ![r] = @ + q]
    /\ status' = [status EXCEPT ![r] = StatusAfter(r, q)]

\* One match of the loop: each cut is used once, a pair that has a row is
\* skipped.  Which of the reservations a cut goes to depends on plates and
\* dates (CouponMatcher); here it may be any.  The UPDATE tests neither the status nor the quantity.
SettleMatch(s, r, c) ==
    LET q == IF seenRem[r] < seenCut[c] THEN seenRem[r] ELSE seenCut[c]
    IN  /\ pc[s] = "settle"
        /\ q > 0
        /\ seenRem' = [seenRem EXCEPT ![r] = @ - q]
        /\ seenCut' = [seenCut EXCEPT ![c] = 0]
        /\ IF <<r, c>> \in paired
           THEN UNCHANGED <<reservationVars, settlementVars, open>>
           ELSE /\ Book(r, c, q)
                /\ open' = [open EXCEPT
                     !.rows = @ \cup {r},
                     !.status[r] = IF r \in open.rows THEN @ ELSE status[r]]
                /\ UNCHANGED <<qty, expiry, carrier>>
        /\ UNCHANGED <<billVars, nativeVars, lock, pc, pick>>

\* The transaction commits; cuts the matcher left alone stay unsettled.
Commit(s) ==
    /\ pc[s] = "settle"
    /\ Leave(s)
    /\ UNCHANGED <<reservationVars, billVars, nativeVars, settlementVars>>

\* Mutant: what was consumed survives the rollback.
ConsumedStays == consumed
ConsumedBefore == open.consumed

\* A query of the transaction fails.
Rollback(s) ==
    /\ pc[s] = "settle"
    /\ open.rows # {}
    /\ status' = [r \in Res |-> IF r \in open.rows THEN open.status[r]
                                ELSE status[r]]
    /\ consumed' = ConsumedBefore
    /\ taken' = open.taken
    /\ paired' = open.paired
    /\ Leave(s)
    /\ UNCHANGED <<qty, expiry, carrier, billVars, nativeVars>>

-----------------------------------------------------------------------------
\* manualSettleCouponCut.

\* The reservation is read before the lock is tried, with NOLOCK, and its
\* expiry is not looked at.
ManualRead(s, r) ==
    /\ pc[s] = "idle"
    /\ status[r] = "RESERVED" /\ Remaining(r) > 0
    /\ pc' = [pc EXCEPT ![s] = "manualRead"]
    /\ pick' = [pick EXCEPT ![s] = [res |-> r, rem |-> Remaining(r),
                                cut |-> {}, qty |-> 0]]
    /\ UNCHANGED <<reservationVars, billVars, nativeVars, settlementVars, lock,
                   seenRem, seenCut, open>>

\* 409: a settlement of the coupon is running.
ManualBusy(s) ==
    /\ pc[s] = "manualRead"
    /\ ~LockFree
    /\ pc' = [pc EXCEPT ![s] = "idle"]
    /\ pick' = [pick EXCEPT ![s] = NoPick]
    /\ UNCHANGED <<reservationVars, billVars, nativeVars, settlementVars, lock,
                   seenRem, seenCut, open>>

ManualLock(s) ==
    /\ pc[s] = "manualRead"
    /\ LockFree
    /\ lock' = s
    /\ pc' = [pc EXCEPT ![s] = "manualCut"]
    /\ UNCHANGED <<reservationVars, billVars, nativeVars, settlementVars,
                   seenRem, seenCut, pick, open>>

\* The cut is read and the quantity checked against both sides.
ManualChoose(s, c, q) ==
    /\ pc[s] = "manualCut"
    /\ cutQty[c] > 0
    /\ <<pick[s].res, c>> \notin paired
    /\ q <= pick[s].rem
    /\ q <= Unsettled(c)
    /\ pc' = [pc EXCEPT ![s] = "manualWrite"]
    /\ pick' = [pick EXCEPT ![s] = [@ EXCEPT !.cut = {c}, !.qty = q]]
    /\ UNCHANGED <<reservationVars, billVars, nativeVars, settlementVars, lock,
                   seenRem, seenCut, open>>

\* A check fails, or a query does.
ManualRefused(s) ==
    /\ pc[s] \in {"manualCut", "manualWrite"}
    /\ Leave(s)
    /\ UNCHANGED <<reservationVars, billVars, nativeVars, settlementVars>>

StillSettleable(r, q) == status[r] = "RESERVED" /\ consumed[r] + q <= qty[r]

\* INSERT and guarded UPDATE in one transaction; ManualRefused if the guard
\* does not hold.
ManualWrite(s) ==
    LET r == pick[s].res
        q == pick[s].qty
    IN  /\ pc[s] = "manualWrite"
        /\ StillSettleable(r, q)
        /\ \E c \in pick[s].cut : Book(r, c, q)
        /\ Leave(s)
        /\ UNCHANGED <<qty, expiry, carrier, billVars, nativeVars>>

-----------------------------------------------------------------------------
Settlement(s) ==
    \/ ReadReservations(s) \/ ReadCuts(s) \/ Commit(s) \/ Rollback(s)
    \/ \E r \in Res, c \in Cut : SettleMatch(s, r, c)

ManualSettlement(s) ==
    \/ ManualBusy(s) \/ ManualLock(s) \/ ManualRefused(s) \/ ManualWrite(s)
    \/ \E r \in Res : ManualRead(s, r)
    \/ \E c \in Cut, q \in Qty : ManualChoose(s, c, q)

Next ==
    \/ \E r \in Res, q \in Qty : \/ Reserve(r, q, "none")
                                 \/ MayExpire /\ Reserve(r, q, "ahead")
    \/ \E r \in Res : Expire(r) \/ CancelReservation(r)
    \/ \E b \in Bill, S \in SUBSET Res : KeyBill(b, S)
    \/ \E b \in Bill : CancelBill(b)
    \/ \E c \in Cut, q \in Qty : NativeCut(c, q)
    \/ \E s \in Call : Settlement(s) \/ ManualSettlement(s)

Spec == Init /\ [][Next]_vars

-----------------------------------------------------------------------------
Tons == Nat
Pick == [res : Res \cup {NoRes}, rem : Tons, cut : SUBSET Cut, qty : Tons]
Holding == {"readCuts", "settle", "manualCut", "manualWrite"}

\* Every variable keeps its type, and the tons their bounds as columns.
TypeOK ==
    /\ status \in [Res -> Status]
    /\ qty \in [Res -> 0..MaxQty]
    /\ consumed \in [Res -> Tons]
    /\ expiry \in [Res -> {"none", "ahead", "past"}]
    /\ carrier \in [Res -> Bill \cup {NoBill}]
    /\ bill \in [Bill -> {"NONE", "OPEN", "CANCELLED"}]
    /\ line \in [Bill -> SUBSET Res]
    /\ rema \in 0..Balance
    /\ cutQty \in [Cut -> 0..MaxQty]
    /\ taken \in [Cut -> Tons]
    /\ paired \subseteq Res \X Cut
    /\ lock \in Call \cup {NoCall}
    /\ pc \in [Call -> {"idle", "manualRead"} \cup Holding]
    /\ seenRem \in [Res -> Tons]
    /\ seenCut \in [Cut -> Tons]
    /\ pick \in [Call -> Pick]
    /\ open \in [rows : SUBSET Res, status : [Res -> Status],
                 consumed : [Res -> Tons], taken : [Cut -> Tons],
                 paired : SUBSET (Res \X Cut)]

\* A cut is settled once: however automatic and manual settlements, failed
\* transactions and new cuts interleave, the tons settled from a redemption
\* row never exceed what the counter cut.
CutSettledOnce == \A c \in Cut : taken[c] <= cutQty[c]

\* A reservation is charged for no more tons than it holds, although the
\* automatic UPDATE tests neither quantity nor status and the manual one
\* works from a row it read before it had the lock.
ConsumedWithinReserved == \A r \in Res : consumed[r] <= qty[r]

\* The two sides of the settlement agree after every step: what reservations
\* were charged is what the settlement rows took from the cuts, also after a
\* transaction failed half way.
BooksBalance == SumOver(consumed, Res) = SumOver(taken, Cut)

\* cancelReservation and the bill operations work on the same rows: no line
\* of an open bill is left with a cancelled reservation behind it.
OpenBillBacked ==
    \A b \in Bill : bill[b] = "OPEN" =>
        \A r \in line[b] : status[r] # "CANCELLED"

\* One reservation never makes two open bills free of charge.
OneBillPerReservation ==
    \A a, b \in Bill : a # b /\ bill[a] = "OPEN" /\ bill[b] = "OPEN" =>
        line[a] \cap line[b] = {}

OutstandingTons == SumOver([r \in Res |-> Remaining(r)], ActiveRows)
UnsettledTons == SumOver([c \in Cut |-> Unsettled(c)], Cut)

\* Where the counter cuts only for reservations, the tons the active ones
\* still hold are there: in the native balance, or in cuts waiting to be
\* settled against them.
PromisesCovered == OutstandingTons <= rema + UnsettledTons
=============================================================================
