--------------------------- MODULE ClaimApproval ---------------------------
(***************************************************************************)
(* The decisions on rebate claims (routes/rebate.js).  Each is one         *)
(* transaction under an application lock on the claim; a call that repeats *)
(* a decision already taken is answered and changes nothing.  The money of *)
(* a claim is RebateLedger's.                                              *)
(***************************************************************************)
EXTENDS Tiers

CONSTANT Form       \* the claims

VARIABLES
    form,       \* Status of a claim
    formTier,   \* its CurrentTier
    filer,      \* its SalesUserId
    formSigns   \* its rows in wf.RebateClaimApproval

clVars == <<form, formTier, filer, formSigns>>

Sign(t, u) == [tier |-> t, by |-> u]

ClInit ==
    /\ form = [f \in Form |-> "none"]
    /\ formTier = [f \in Form |-> 0]
    /\ filer = [f \in Form |-> NoPerson]
    /\ formSigns = [f \in Form |-> {}]

-----------------------------------------------------------------------------
FileClaim(f, u) ==
    /\ form[f] = "none"
    /\ form' = [form EXCEPT ![f] = Waiting(2)]
    /\ formTier' = [formTier EXCEPT ![f] = 2]
    /\ filer' = [filer EXCEPT ![f] = u]
    /\ formSigns' = [formSigns EXCEPT ![f] = {Sign(1, u)}]

FormRole(t) == CASE t = 2 -> Regional \cup Elevated
                 [] t = 3 -> Elevated
                 [] t = 4 -> Elevated \cup Accountant

\* Both decisions: a pending claim, of another's or by ADMIN or C_LEVEL, and
\* the role of the tier.
MayDecide(f, u) ==
    /\ formTier[f] \in Tier
    /\ form[f] = Waiting(formTier[f])
    /\ u = filer[f] => u \in Elevated
    /\ u \in FormRole(formTier[f])

\* Mutant: the previous signature is looked for among the first tiers.
FirstSigner(trail, u) == u \in {x.by : x \in {y \in trail : y.tier = 1}}
SignedLast(trail, u) == u \in LastSigners(trail)

ApproveClaim(f, u) ==
    /\ MayDecide(f, u)
    /\ ~SignedLast(formSigns[f], u)
    /\ form' = [form EXCEPT ![f] = Waiting(formTier[f] + 1)]
    /\ formTier' = [formTier EXCEPT ![f] = IF @ = 4 THEN 4 ELSE @ + 1]
    /\ formSigns' = [formSigns EXCEPT ![f] = @ \cup {Sign(formTier[f], u)}]
    /\ UNCHANGED <<filer>>

RejectClaim(f, u) ==
    /\ MayDecide(f, u)
    /\ form' = [form EXCEPT ![f] = "REJECTED"]
    /\ formTier' = [formTier EXCEPT ![f] = 1]
    /\ UNCHANGED <<filer, formSigns>>

\* The confirmation of the bill that carries the claim, and its cancellation.
IssueOrReturn(f) ==
    /\ form[f] \in {"APPROVED", "CN_ISSUED"}
    /\ form' = [form EXCEPT ![f] = IF @ = "APPROVED" THEN "CN_ISSUED"
                                                     ELSE "APPROVED"]
    /\ UNCHANGED <<formTier, filer, formSigns>>

ClNext ==
    \E f \in Form :
        \/ \E u \in Person :
              FileClaim(f, u) \/ ApproveClaim(f, u) \/ RejectClaim(f, u)
        \/ IssueOrReturn(f)

ClSpec == ClInit /\ [][ClNext]_clVars

-----------------------------------------------------------------------------
\* The state keeps its types.
ClTypeOK ==
    /\ form \in [Form -> {"none", "REJECTED", "CN_ISSUED"}
                            \cup {Waiting(t) : t \in 2..5}]
    /\ formTier \in [Form -> 0..4]
    /\ filer \in [Form -> Person \cup {NoPerson}]
    /\ formSigns \in [Form -> SUBSET [tier : 1..4, by : Person]]

\* A claim carries one signature for each tier its status says it has passed,
\* never two in a row by one person, and never its filer's at a later tier
\* unless that is ADMIN or C_LEVEL (rebate.js: the segregation of duties of
\* POST /claims/:id/approve).
ClaimSigned ==
    \A f \in Form :
        /\ Chain(formSigns[f], SignedTiers(form[f]))
        /\ \A x, y \in formSigns[f] : x.tier = y.tier => x = y
        /\ \A x \in formSigns[f] :
              x.tier > 1 /\ x.by = filer[f] => x.by \in Elevated
=============================================================================
