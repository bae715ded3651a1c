---------------------------- MODULE CutMatching ----------------------------
(***************************************************************************)
(* What any assignment of native cuts to coupon reservations must do: take *)
(* one cut at a time, use it once, and charge it to one reservation for as *)
(* much as both of them still have.  Which reservation is left open, and a *)
(* cut may hold more than its reservation: its other tons are charged to   *)
(* nothing.                                                                *)
(* CouponReservation settles with this step; CouponMatcher implements it.  *)
(***************************************************************************)
EXTENDS Naturals

CONSTANTS Res, Cut

VARIABLES
    left,   \* what each reservation still holds
    uncut   \* the tons of each cut not yet used, 0 once it was

TonsOf(r, c) == IF left[r] < uncut[c] THEN left[r] ELSE uncut[c]

Match(r, c) ==
    /\ TonsOf(r, c) > 0
    /\ left' = [left EXCEPT ![r] = @ - TonsOf(r, c)]
    /\ uncut' = [uncut EXCEPT ![c] = 0]

Init ==
    /\ left \in [Res -> Nat]
    /\ uncut \in [Cut -> Nat]

Next == \E r \in Res, c \in Cut : Match(r, c)

Spec == Init /\ [][Next]_<<left, uncut>>
=============================================================================
