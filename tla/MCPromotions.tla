---------------------------- MODULE MCPromotions ----------------------------
(***************************************************************************)
(* The reservations of coupons, the giveaways of a region, and the numbers *)
(* of bookings.  They share no state as they are modelled, so a behaviour  *)
(* moves one of them while the others stay in one initial state, and their *)
(* states add up instead of multiplying.                                   *)
(*                                                                         *)
(* Two reservations and two cuts are enough for partial settlements and    *)
(* for a cut that goes to either; two calls race for the settlement lock,  *)
(* two bills for a reservation.                                            *)
(***************************************************************************)
EXTENDS CouponReservation, GiveawayQuota, BookingNumbers, TLC

VARIABLE part

prVars == <<vars, gqVars, bnVars, part>>

\* A salesperson for each region: of others PromisesFit says nothing.
OwnRegions == owner = [r \in Region |-> r]

\* Nothing to give, and a region for each bill.
NoBudget ==
    /\ budget = [r \in Region |-> 0]
    /\ region = [b \in Gift |-> b]

PrInit ==
    /\ Init /\ GqInit /\ BnInit /\ OwnRegions
    /\ part \in {"coupons", "giveaways", "numbers"}
    /\ part # "giveaways" => NoBudget
    /\ part # "numbers" => active = "I" /\ ~ proc

PrNext ==
    \/ part = "coupons" /\ Next /\ UNCHANGED <<gqVars, bnVars, part>>
    \/ part = "giveaways" /\ GqNext /\ UNCHANGED <<vars, bnVars, part>>
    \/ part = "numbers" /\ BnNext /\ UNCHANGED <<vars, gqVars, part>>

PrSpec == PrInit /\ [][PrNext]_prVars

\* Reservations, cuts, calls and bills are interchangeable; so are bills with
\* giveaways, regions and saves, and the drafts that get numbers.  These have
\* the values of the reservations, so that one permutation serves them all.
Symmetry == Permutations(Call) \cup Permutations(Res) \cup Permutations(Cut)
            \cup Permutations(Bill)
=============================================================================
