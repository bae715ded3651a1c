------------------------------- MODULE Tiers -------------------------------
(***************************************************************************)
(* What the approval of a rebate claim and of a rebate plan have in common *)
(* (routes/rebate.js): the roles, the four tiers and their trail of        *)
(* signatures.  Tier 1 is the submission, 2 the regional manager, 3 and 4  *)
(* the management.                                                         *)
(*                                                                         *)
(* A trail holds the APPROVED rows only: no decision reads a REJECTED one  *)
(* but the answers to a repeated call, which change nothing.               *)
(***************************************************************************)
EXTENDS Integers, FiniteSets

CONSTANTS
    Person,
    Elevated,   \* ADMIN, C_LEVEL
    Manager,    \* MANAGER, APPROVER
    Regional,   \* those wf.UserSaleArea gives the region
    Accountant, \* ACCOUNTING
    NoPerson

ASSUME RoleAssumption ==
    /\ UNION {Elevated, Manager, Regional, Accountant} \subseteq Person
    /\ NoPerson \notin Person

Tier == 2..4
Waiting(t) == CASE t = 2 -> "TIER2_PENDING"
                [] t = 3 -> "TIER3_PENDING"
                [] t = 4 -> "TIER4_PENDING"
                [] OTHER -> "APPROVED"

\* SELECT TOP 1 DecidedBy ... ORDER BY Tier DESC: any of the last tier's rows.
LastSigners(trail) ==
    {x.by : x \in {y \in trail : \A z \in trail : z.tier <= y.tier}}

\* Tiers 1 to n are signed, and each by another than the one before.
Chain(trail, n) ==
    /\ \A t \in 1..n : \E x \in trail : x.tier = t
    /\ \A t \in 1..(n - 1) : \E x, y \in trail :
          x.tier = t /\ y.tier = t + 1 /\ x.by # y.by

\* How many tiers the status says have signed.
SignedTiers(status) == CASE status = "TIER2_PENDING" -> 1
                         [] status = "TIER3_PENDING" -> 2
                         [] status = "TIER4_PENDING" -> 3
                         [] status \in {"APPROVED", "ACTIVE", "CLOSED",
                                        "CN_ISSUED"} -> 4
                         [] OTHER -> 0
=============================================================================
