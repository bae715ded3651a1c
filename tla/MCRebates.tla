----------------------------- MODULE MCRebates -----------------------------
(***************************************************************************)
(* Rebates: the money of the claims, and the decisions on claims and on    *)
(* plans; and the matching of coupon cuts to reservations.  They share no  *)
(* state as they are modelled, so a behaviour moves one of them while the  *)
(* others stay in one initial state, and their states add up instead of    *)
(* multiplying.                                                            *)
(***************************************************************************)
EXTENDS CouponMatcher, RebateLedger, ClaimApproval, PlanApproval, TLC

VARIABLE part

rbVars == <<mtVars, vars, clVars, plVars, part>>

\* No row matches another.
NoPlates ==
    /\ plate = [r \in Rsv |-> NoPlate]
    /\ confirmDate = [r \in Rsv |-> 1]
    /\ remaining = [r \in Rsv |-> 1]
    /\ todo = [i \in Id |-> [id |-> i, plate |-> NoPlate, day |-> 1, qty |-> 1]]

RbInit ==
    /\ \/ part = "coupon"
       \/ part \in {"ledger", "claims", "plans"} /\ NoPlates
    /\ MtInit /\ Init /\ ClInit /\ PlInit

RbNext ==
    /\ UNCHANGED part
    /\ \/ part = "coupon" /\ MtNext /\ UNCHANGED <<vars, clVars, plVars>>
       \/ part = "ledger" /\ Next /\ UNCHANGED <<mtVars, clVars, plVars>>
       \/ part = "claims" /\ ClNext /\ UNCHANGED <<mtVars, vars, plVars>>
       \/ part = "plans" /\ PlNext /\ UNCHANGED <<mtVars, vars, clVars>>

RbSpec == RbInit /\ [][RbNext]_rbVars

\* Bills differ only in what happened to them, and so do claims: the order of
\* the rows is kept in born.  The handlers of plans are interchangeable
\* too; they have the values of the claims, so that one permutation serves
\* both.
Symmetry == Permutations(Bill) \cup Permutations(Claim)

\* The bound of the plans: behaviours end where a handler wrote a plan that
\* another one had written since it began.  PlanSigned and SignaturesFresh say
\* nothing of such plans.
Unraced == raced = {}
=============================================================================
