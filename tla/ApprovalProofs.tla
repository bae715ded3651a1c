--------------------------- MODULE ApprovalProofs ---------------------------
(***************************************************************************)
(* Proofs about the approvals of rebate claims and of rebate plans.        *)
(***************************************************************************)
EXTENDS ClaimApproval, PlanApproval, TLAPS

-----------------------------------------------------------------------------
(* The words of the tiers.                                                 *)

\* What SignedTiers reads back is what Waiting wrote.
LEMMA Words ==
    /\ Waiting(2) = "TIER2_PENDING" /\ SignedTiers(Waiting(2)) = 1
    /\ Waiting(3) = "TIER3_PENDING" /\ SignedTiers(Waiting(3)) = 2
    /\ Waiting(4) = "TIER4_PENDING" /\ SignedTiers(Waiting(4)) = 3
    /\ Waiting(5) = "APPROVED" /\ SignedTiers(Waiting(5)) = 4
    /\ \A s \in {"ACTIVE", "CLOSED", "CN_ISSUED"} : SignedTiers(s) = 4
    /\ \A s \in {"none", "DRAFT", "REJECTED"} : SignedTiers(s) = 0
BY DEF Waiting, SignedTiers

\* The tiers that wait are told apart.
LEMMA WaitingIsOneToOne ==
    /\ \A t \in 2..5 : SignedTiers(Waiting(t)) = t - 1
    /\ \A s, t \in 2..5 : Waiting(s) = Waiting(t) => s = t
    /\ \A t \in 2..5 : Waiting(t) \notin {"none", "DRAFT", "REJECTED", "ACTIVE",
                                          "CLOSED", "CN_ISSUED"}
<1>1. \A t \in 2..5 : t = 2 \/ t = 3 \/ t = 4 \/ t = 5
    OBVIOUS
<1>2. QED
    BY <1>1, Words

\* A longer trail has the chains of a shorter one.
LEMMA ChainGrows ==
    ASSUME NEW S, NEW T, S \subseteq T, NEW n \in 0..4, Chain(S, n)
    PROVE  Chain(T, n)
BY DEF Chain

\* A chain ends at its last link.
LEMMA ChainStarts ==
    ASSUME NEW S
    PROVE  Chain(S, 0) /\ ((\E x \in S : x.tier = 1) => Chain(S, 1))
BY DEF Chain

\* One more link: a signature of the next tier by another than the last.
LEMMA ChainNext ==
    ASSUME NEW S, NEW n \in 1..3, NEW m, m = n + 1, Chain(S, n),
           NEW x \in S, NEW y \in S, x.tier = n, y.tier = m, x.by # y.by
    PROVE  Chain(S, m)
<1>1. \A t \in 1..(n + 1) : t \in 1..n \/ t = n + 1
    OBVIOUS
<1>2. \A t \in 1..n : t \in 1..(n - 1) \/ t = n
    OBVIOUS
<1>3. (n + 1) - 1 = n
    OBVIOUS
<1>4. \A t \in 1..(n + 1) : \E z \in S : z.tier = t
    BY <1>1 DEF Chain
<1>5. \A t \in 1..n : \E z, v \in S : z.tier = t /\ v.tier = t + 1 /\ z.by # v.by
    BY <1>2 DEF Chain
<1>6. QED
    BY <1>3, <1>4, <1>5 DEF Chain

-----------------------------------------------------------------------------
(* Claims.                                                                 *)

\* The rows of a trail stop below the tier that is to be signed, so that the
\* last signature is that of the tier before.
Below(f) ==
    /\ form[f] = "none" => formSigns[f] = {}
    /\ \A t \in Tier : form[f] = Waiting(t) =>
          \A x \in formSigns[f] : x.tier < t

ClInv == ClTypeOK /\ ClaimSigned /\ \A f \in Form : Below(f)

\* Each new row has the type of the table.
LEMMA ClTypes == ClTypeOK /\ [ClNext]_clVars => ClTypeOK'
<1> SUFFICES ASSUME ClTypeOK, [ClNext]_clVars PROVE ClTypeOK'
    OBVIOUS
<1> USE DEF ClTypeOK, Tier
<1>1. ASSUME NEW f \in Form, NEW u \in Person, FileClaim(f, u) PROVE ClTypeOK'
    BY <1>1 DEF FileClaim, Sign
<1>2. ASSUME NEW f \in Form, NEW u \in Person, ApproveClaim(f, u) PROVE ClTypeOK'
  <2>1. formTier[f] \in 2..4 /\ formTier[f] + 1 \in 2..5
      BY <1>2 DEF ApproveClaim, MayDecide
  <2>2. QED
      BY <1>2, <2>1 DEF ApproveClaim, Sign
<1>3. ASSUME NEW f \in Form, NEW u \in Person, RejectClaim(f, u) PROVE ClTypeOK'
    BY <1>3 DEF RejectClaim
<1>4. ASSUME NEW f \in Form, IssueOrReturn(f) PROVE ClTypeOK'
  <2>1. "APPROVED" \in {Waiting(t) : t \in 2..5}
      BY Words
  <2>2. QED
      BY <1>4, <2>1 DEF IssueOrReturn
<1>5. CASE UNCHANGED clVars
    BY <1>5 DEF clVars
<1>6. QED
    BY <1>1, <1>2, <1>3, <1>4, <1>5 DEF ClNext

\* What ClaimSigned and Below say of one claim.
Signed(f) ==
    /\ Chain(formSigns[f], SignedTiers(form[f]))
    /\ \A x, y \in formSigns[f] : x.tier = y.tier => x = y
    /\ \A x \in formSigns[f] : x.tier > 1 /\ x.by = filer[f] => x.by \in Elevated
    /\ Below(f)

\* An approval adds the signature of the tier that was waiting, by somebody
\* who did not sign the tier before.
LEMMA ApprovalSigns ==
    ASSUME ClTypeOK, NEW f \in Form, Signed(f), NEW u \in Person,
           ApproveClaim(f, u)
    PROVE  Signed(f)'
<1> DEFINE t == formTier[f]
           S == formSigns[f]
           new == Sign(t, u)
<1>1. t \in Tier /\ t - 1 \in 1..3 /\ form[f] = Waiting(t) /\ t \in 2..5 /\ t + 1 \in 2..5
    BY DEF ApproveClaim, MayDecide, Tier
<1>2. formSigns'[f] = S \cup {new} /\ form'[f] = Waiting(t + 1) /\ filer' = filer
    BY DEF ApproveClaim, ClTypeOK
<1>3. new.tier = t /\ new.by = u
    BY DEF Sign
<1>4. \A x \in S : x.tier < t /\ x.tier \in 1..4
    BY <1>1 DEF Signed, Below, ClTypeOK
<1>5. Chain(S, t - 1)
    BY <1>1, WaitingIsOneToOne DEF Signed
<1>6. PICK x \in S : x.tier = t - 1
    BY <1>1, <1>5 DEF Chain
<1>7. x.by # u
  <2>1. \A z \in S : z.tier <= x.tier
      BY <1>1, <1>4, <1>6 DEF Tier
  <2>2. x.by \in LastSigners(S)
      BY <2>1 DEF LastSigners
  <2>3. QED
      BY <2>2 DEF ApproveClaim, SignedLast
<1>8. Chain(S \cup {new}, t)
  <2>1. Chain(S \cup {new}, t - 1)
      BY <1>1, <1>5, ChainGrows
  <2>2. (t - 1) + 1 = t
      BY <1>1 DEF Tier
  <2>3. QED
      BY <1>1, <1>3, <1>6, <1>7, <2>1, <2>2, ChainNext
<1>9. SignedTiers(form'[f]) = t
    BY <1>1, <1>2, WaitingIsOneToOne DEF Tier
<1>10. \A y, z \in S \cup {new} : y.tier = z.tier => y = z
    BY <1>1, <1>3, <1>4 DEF Signed, Tier
<1>11. \A y \in S \cup {new} : y.tier > 1 /\ y.by = filer[f] => y.by \in Elevated
    BY <1>3 DEF Signed, ApproveClaim, MayDecide
<1>12. Below(f)'
  <2>1. form'[f] # "none"
      BY <1>1, <1>2, WaitingIsOneToOne
  <2>2. ASSUME NEW s \in Tier, form'[f] = Waiting(s)
        PROVE  \A y \in S \cup {new} : y.tier < s
    <3>1. s = t + 1
        BY <1>1, <1>2, <2>2, WaitingIsOneToOne DEF Tier
    <3>2. QED
        BY <1>1, <1>3, <1>4, <3>1 DEF Tier
  <2>3. QED
      BY <1>2, <2>1, <2>2 DEF Below
<1>13. QED
    BY <1>2, <1>8, <1>9, <1>10, <1>11, <1>12 DEF Signed

\* The other claims stay as they are.
LEMMA ClStep == ClInv /\ [ClNext]_clVars => ClInv'
<1> SUFFICES ASSUME ClInv, [ClNext]_clVars PROVE ClInv'
    OBVIOUS
<1>1. ClTypeOK /\ ClTypeOK'
    BY ClTypes DEF ClInv
<1>2. \A g \in Form : Signed(g)
    BY DEF ClInv, ClaimSigned, Signed
<1>3. ASSUME NEW g \in Form,
             form'[g] = form[g], filer'[g] = filer[g], formSigns'[g] = formSigns[g]
      PROVE  Signed(g)'
    BY <1>2, <1>3 DEF Signed, Below
<1>4. ASSUME NEW f \in Form, NEW u \in Person, FileClaim(f, u), NEW g \in Form
      PROVE  Signed(g)'
  <2>1. CASE g = f
    <3>1. formSigns'[f] = {Sign(1, u)} /\ form'[f] = Waiting(2)
        BY <1>1, <1>4 DEF FileClaim, ClTypeOK
    <3>2. Sign(1, u).tier = 1
        BY DEF Sign
    <3>3. Chain(formSigns'[f], 1) /\ SignedTiers(form'[f]) = 1
        BY <3>1, <3>2, ChainStarts, Words
    <3>4. Below(f)'
      <4>1. \A s \in Tier : 1 < s
          BY DEF Tier
      <4>2. form'[f] # "none"
          BY <3>1, Words
      <4>3. QED
          BY <3>1, <3>2, <4>1, <4>2 DEF Below
    <3>5. QED
        BY <2>1, <3>1, <3>2, <3>3, <3>4 DEF Signed
  <2>2. CASE g # f
      BY <1>1, <1>3, <1>4, <2>2 DEF FileClaim, ClTypeOK
  <2>3. QED
      BY <2>1, <2>2
<1>5. ASSUME NEW f \in Form, NEW u \in Person, ApproveClaim(f, u), NEW g \in Form
      PROVE  Signed(g)'
  <2>1. CASE g = f
      BY <1>1, <1>2, <1>5, <2>1, ApprovalSigns
  <2>2. CASE g # f
      BY <1>1, <1>3, <1>5, <2>2 DEF ApproveClaim, ClTypeOK
  <2>3. QED
      BY <2>1, <2>2
<1>6. ASSUME NEW f \in Form, NEW u \in Person, RejectClaim(f, u), NEW g \in Form
      PROVE  Signed(g)'
  <2>1. CASE g = f
    <3>1. form'[f] = "REJECTED" /\ formSigns' = formSigns /\ filer' = filer
        BY <1>1, <1>6 DEF RejectClaim, ClTypeOK
    <3>2. Chain(formSigns[f], 0) /\ SignedTiers(form'[f]) = 0
        BY <3>1, Words, ChainStarts
    <3>3. Below(f)'
        BY <3>1, WaitingIsOneToOne DEF Below, Tier
    <3>4. QED
        BY <1>2, <2>1, <3>1, <3>2, <3>3 DEF Signed
  <2>2. CASE g # f
      BY <1>1, <1>3, <1>6, <2>2 DEF RejectClaim, ClTypeOK
  <2>3. QED
      BY <2>1, <2>2
<1>7. ASSUME NEW f \in Form, IssueOrReturn(f), NEW g \in Form
      PROVE  Signed(g)'
  <2>1. CASE g = f
    <3>1. /\ form[f] \in {"APPROVED", "CN_ISSUED"} /\ form'[f] \in {"APPROVED", "CN_ISSUED"}
          /\ formSigns' = formSigns /\ filer' = filer
        BY <1>1, <1>7 DEF IssueOrReturn, ClTypeOK
    <3>2. SignedTiers(form'[f]) = SignedTiers(form[f])
        BY <3>1, Words
    <3>3. Below(f)'
      <4>1. \A t \in Tier : Waiting(t) \notin {"APPROVED", "CN_ISSUED"}
          BY Words, WaitingIsOneToOne DEF Tier
      <4>2. QED
          BY <3>1, <4>1 DEF Below
    <3>4. QED
        BY <1>2, <2>1, <3>1, <3>2, <3>3 DEF Signed
  <2>2. CASE g # f
      BY <1>1, <1>3, <1>7, <2>2 DEF IssueOrReturn, ClTypeOK
  <2>3. QED
      BY <2>1, <2>2
<1>8. ASSUME UNCHANGED clVars, NEW g \in Form PROVE Signed(g)'
    BY <1>3, <1>8 DEF clVars
<1>9. \A g \in Form : Signed(g)'
    BY <1>4, <1>5, <1>6, <1>7, <1>8 DEF ClNext
<1>10. QED
    BY <1>1, <1>9 DEF ClInv, ClaimSigned, Signed

LEMMA ClStart == ClInit => ClInv
<1> SUFFICES ASSUME ClInit PROVE ClInv
    OBVIOUS
<1>1. ClTypeOK
    BY DEF ClInit, ClTypeOK
<1>2. ClaimSigned
    BY Words, ChainStarts DEF ClInit, ClaimSigned
<1>3. \A f \in Form : Below(f)
    BY DEF ClInit, Below
<1>4. QED
    BY <1>1, <1>2, <1>3 DEF ClInv

LEMMA ClInvariant == ClSpec => []ClInv
BY ClStart, ClStep, PTL DEF ClSpec

\* The rows of the claims keep their types (routes/rebate.js).
THEOREM ClaimsTyped == ClSpec => []ClTypeOK
<1>1. ClInv => ClTypeOK
    BY DEF ClInv
<1>2. QED
    BY <1>1, ClInvariant, PTL

\* Segregation of duties of POST /claims/:id/approve: for any people and
\* roles, a claim's status never claims a signature its trail does not have,
\* nobody signs two tiers in a row, and only ADMIN or C_LEVEL sign their own.
THEOREM ClaimsSigned == ClSpec => []ClaimSigned
<1>1. ClInv => ClaimSigned
    BY DEF ClInv
<1>2. QED
    BY <1>1, ClInvariant, PTL

-----------------------------------------------------------------------------
(* Plans.                                                                  *)

\* What a handler carries from one statement to the next.
Resting == [at : {"idle"}]
Signing == [at : {"clear", "check", "sign", "move"}, p : Plan, u : Person, t : 1..4]
Judging == [at : {"reject", "edit"}, p : Plan]
Setting == [at : {"set"}, p : Plan, to : {"DRAFT", "ACTIVE", "CLOSED"}]

WorkTyped == work \in [Worker -> Resting \cup Signing \cup Judging \cup Setting]

Types == PlTypeOK /\ WorkTyped

\* A plan that no two handlers wrote at a time: what its tier, its status and
\* its trail say of each other.  A signature of the tier that waits is what a
\* handler left that died before it moved the plan on.
TrailOK(p) ==
    /\ planTier[p] \in Tier => plan[p] = Waiting(planTier[p])
    /\ \A t \in Tier : plan[p] = Waiting(t) =>
          /\ \A x \in planSigns[p] : x.tier <= t
          /\ Chain(planSigns[p], t - 1)
          /\ (\E x \in planSigns[p] : x.tier = t) => Chain(planSigns[p], t)
    /\ SignedTiers(plan[p]) = 4 => Chain(planSigns[p], 4)
    /\ SignedTiers(plan[p]) > 0 => \A x \in planSigns[p] : x.of = content[p]

\* What a handler has read still holds while nobody else writes its plan.
StillSo(c) ==
    /\ c.at = "clear" => Editable(c.p) /\ c.t = 1
    /\ c.at \in {"check", "sign", "move"} /\ c.t > 1 => plan[c.p] = Waiting(c.t)
    /\ c.at = "check" => c.t > 1
    /\ c.at \in {"sign", "move"} /\ c.t = 1 => Editable(c.p)
    /\ c.at = "sign" /\ c.t = 1 => planSigns[c.p] = {}
    /\ c.at = "move" /\ c.t = 1 =>
          planSigns[c.p] = {SignPlan(1, c.u, content[c.p])}
    /\ c.at = "sign" /\ c.t > 1 => NotTwice(planSigns[c.p], c.u)
    /\ c.at = "move" /\ c.t > 1 => Chain(planSigns[c.p], c.t)
    /\ c.at = "edit" => Editable(c.p)
    /\ c.at = "set" => plan[c.p] \in AllowedFrom(c.to)

ReadOK(w) ==
    work[w].at # "idle" /\ w \notin stale /\ work[w].p \notin raced =>
        StillSo(work[w])

PlInv == /\ Types
         /\ \A p \in Plan \ raced : TrailOK(p)
         /\ \A w \in Worker : ReadOK(w)

\* The record of a handler at a statement.
LEMMA WorkAt ==
    ASSUME WorkTyped, NEW w \in Worker
    PROVE  /\ work[w].at \in {"idle", "clear", "check", "sign", "move", "reject",
                              "edit", "set"}
           /\ work[w].at \in {"clear", "check", "sign", "move"} => work[w] \in Signing
           /\ work[w].at \in {"reject", "edit"} => work[w] \in Judging
           /\ work[w].at = "set" => work[w] \in Setting
           /\ work[w].at # "idle" => work[w].p \in Plan
<1>1. work[w] \in Resting \cup Signing \cup Judging \cup Setting
    BY DEF WorkTyped
<1>2. work[w] \in Resting => work[w].at = "idle"
    BY DEF Resting
<1>3. work[w] \in Signing =>
         work[w].at \in {"clear", "check", "sign", "move"} /\ work[w].p \in Plan
    BY DEF Signing
<1>4. work[w] \in Judging => work[w].at \in {"reject", "edit"} /\ work[w].p \in Plan
    BY DEF Judging
<1>5. work[w] \in Setting => work[w].at = "set" /\ work[w].p \in Plan
    BY DEF Setting
<1>6. QED
    BY <1>1, <1>2, <1>3, <1>4, <1>5

\* A record that only moved to another statement of the same handler.
LEMMA Moved ==
    ASSUME NEW c \in Signing, NEW at \in {"clear", "check", "sign", "move"}
    PROVE  /\ [c EXCEPT !.at = at] \in Signing
           /\ [c EXCEPT !.at = at].at = at
           /\ [c EXCEPT !.at = at].p = c.p
           /\ [c EXCEPT !.at = at].u = c.u
           /\ [c EXCEPT !.at = at].t = c.t
BY DEF Signing

LEMMA ClearedTypes ==
    ASSUME NEW t \in 1..4, NEW u \in Person, NEW of \in {0, 1}
    PROVE  /\ SignPlan(t, u, of) \in [tier : 1..4, by : Person, of : {0, 1}]
           /\ SignPlan(t, u, of).tier = t
           /\ SignPlan(t, u, of).by = u
           /\ SignPlan(t, u, of).of = of
BY DEF SignPlan

LEMMA WaitingStatus ==
    /\ \A t \in 2..5 : Waiting(t) \in PlanStatus
    /\ \A t \in Tier : t \in 2..5 /\ t \in 1..4
<1>1. \A t \in 2..5 : t = 2 \/ t = 3 \/ t = 4 \/ t = 5
    OBVIOUS
<1>2. QED
    BY <1>1, Words DEF PlanStatus, Tier

\* Each statement writes what the tables allow.
LEMMA PlTypes == Types /\ [PlNext]_plVars => Types'
<1> SUFFICES ASSUME Types, [PlNext]_plVars PROVE Types'
    OBVIOUS
<1> USE DEF Types, PlTypeOK
<1>1. ASSUME NEW p \in Plan, CreatePlan(p) PROVE Types'
    BY <1>1 DEF CreatePlan, WorkTyped, PlanStatus
<1>2. ASSUME NEW w \in Worker, NEW c \in Signing \cup Judging \cup Setting, Begin(w, c)
      PROVE  Types'
  <2>1. work' = [work EXCEPT ![w] = c] /\ stale' = stale \ {w} /\ UNCHANGED <<plData, raced>>
      BY <1>2 DEF Begin
  <2>2. WorkTyped'
      BY <2>1 DEF WorkTyped
  <2>3. QED
      BY <2>1, <2>2 DEF plData
<1>3. ASSUME NEW w \in Worker, Done(w) PROVE WorkTyped'
    BY <1>3 DEF Done, WorkTyped, Resting
<1>4. ASSUME NEW w \in Worker, NEW at \in {"sign", "move"},
             work[w].at \in {"clear", "check", "sign", "move"}, Goto(w, at)
      PROVE  WorkTyped'
  <2>1. work[w] \in Signing
      BY <1>4, WorkAt
  <2>2. [work[w] EXCEPT !.at = at] \in Signing
      BY <2>1, Moved
  <2>3. work' = [work EXCEPT ![w] = [work[w] EXCEPT !.at = at]]
      BY <1>4 DEF Goto, WorkTyped
  <2>4. QED
      BY <2>2, <2>3 DEF WorkTyped
<1>5. ASSUME NEW w \in Worker, NEW p \in Plan, Wrote(w, p)
      PROVE  stale' \subseteq Worker /\ raced' \subseteq Plan
    BY <1>5 DEF Wrote, OthersOn
<1>6. ASSUME NEW w \in Worker, NEW p \in Plan, NEW u \in Person,
             \/ StartSubmit(w, p, u) \/ StartApprove(w, p, u)
             \/ StartReject(w, p, u) \/ StartEdit(w, p, u)
             \/ \E to \in {"DRAFT", "ACTIVE", "CLOSED"} : StartSet(w, p, u, to)
      PROVE  \E c \in Signing \cup Judging \cup Setting : Begin(w, c)
  <2>1. CASE StartSubmit(w, p, u)
    <3>1. [at |-> "clear", p |-> p, u |-> u, t |-> 1] \in Signing
        BY DEF Signing
    <3>2. QED
        BY <2>1, <3>1 DEF StartSubmit
  <2>2. CASE StartApprove(w, p, u)
    <3>1. [at |-> "check", p |-> p, u |-> u, t |-> planTier[p]] \in Signing
        BY <2>2, WaitingStatus DEF StartApprove, Signing
    <3>2. QED
        BY <2>2, <3>1 DEF StartApprove
  <2>3. CASE StartReject(w, p, u)
    <3>1. [at |-> "reject", p |-> p] \in Judging
        BY DEF Judging
    <3>2. QED
        BY <2>3, <3>1 DEF StartReject
  <2>4. CASE StartEdit(w, p, u)
    <3>1. [at |-> "edit", p |-> p] \in Judging
        BY DEF Judging
    <3>2. QED
        BY <2>4, <3>1 DEF StartEdit
  <2>5. ASSUME NEW to \in {"DRAFT", "ACTIVE", "CLOSED"}, StartSet(w, p, u, to)
        PROVE  \E c \in Signing \cup Judging \cup Setting : Begin(w, c)
    <3>1. [at |-> "set", p |-> p, to |-> to] \in Setting
        BY DEF Setting
    <3>2. QED
        BY <2>5, <3>1 DEF StartSet
  <2>6. QED
      BY <1>6, <2>1, <2>2, <2>3, <2>4, <2>5
<1>7. ASSUME NEW w \in Worker,
             \/ Clear(w) \/ Check(w) \/ InsertSign(w) \/ Move(w)
             \/ RejectPlan(w) \/ Edit(w) \/ SetPlan(w) \/ Stop(w)
      PROVE  Types'
  <2> DEFINE c == work[w]
  <2>1. CASE Clear(w)
    <3>1. c.p \in Plan /\ WorkTyped'
        BY <1>4, <2>1, WorkAt DEF Clear
    <3>2. QED
        BY <1>5, <2>1, <3>1 DEF Clear, Cleared
  <2>2. CASE Check(w)
      BY <1>4, <2>2 DEF Check, plData
  <2>3. CASE InsertSign(w)
    <3>1. c \in Signing /\ WorkTyped'
        BY <1>4, <2>3, WorkAt DEF InsertSign
    <3>2. c.p \in Plan /\ c.t \in 1..4 /\ c.u \in Person
        BY <3>1 DEF Signing
    <3>3. SignPlan(c.t, c.u, content[c.p]) \in [tier : 1..4, by : Person, of : {0, 1}]
        BY <3>2, ClearedTypes
    <3>4. planSigns' \in [Plan -> SUBSET [tier : 1..4, by : Person, of : {0, 1}]]
        BY <2>3, <3>2, <3>3 DEF InsertSign
    <3>5. QED
        BY <1>5, <2>3, <3>1, <3>2, <3>4 DEF InsertSign
  <2>4. CASE Move(w)
    <3>1. c \in Signing /\ WorkTyped'
        BY <1>3, <2>4, WorkAt DEF Move
    <3>2. c.p \in Plan /\ c.t \in 1..4 /\ c.t + 1 \in 2..5
        BY <3>1 DEF Signing
    <3>3. Waiting(c.t + 1) \in PlanStatus
        BY <3>2, WaitingStatus
    <3>4. (IF c.t = 4 THEN 0 ELSE c.t + 1) \in {0} \cup Tier
        BY <3>2 DEF Tier
    <3>5. QED
        BY <1>5, <2>4, <3>1, <3>2, <3>3, <3>4 DEF Move
  <2>5. CASE RejectPlan(w)
    <3>1. c.p \in Plan /\ WorkTyped'
        BY <1>3, <2>5, WorkAt DEF RejectPlan
    <3>2. QED
        BY <1>5, <2>5, <3>1 DEF RejectPlan, PlanStatus
  <2>6. CASE Edit(w)
    <3>1. c.p \in Plan /\ WorkTyped'
        BY <1>3, <2>6, WorkAt DEF Edit
    <3>2. 1 - content[c.p] \in {0, 1}
        BY <3>1
    <3>3. QED
        BY <1>5, <2>6, <3>1, <3>2 DEF Edit
  <2>7. CASE SetPlan(w)
    <3>1. c \in Setting /\ WorkTyped'
        BY <1>3, <2>7, WorkAt DEF SetPlan
    <3>2. c.p \in Plan /\ c.to \in PlanStatus
        BY <3>1 DEF Setting, PlanStatus
    <3>3. QED
        BY <1>5, <2>7, <3>1, <3>2 DEF SetPlan
  <2>8. CASE Stop(w)
      BY <1>3, <2>8 DEF Stop, plData
  <2>9. QED
      BY <1>7, <2>1, <2>2, <2>3, <2>4, <2>5, <2>6, <2>7, <2>8
<1>8. CASE UNCHANGED plVars
    BY <1>8 DEF plVars, plData, WorkTyped
<1>9. QED
    BY <1>1, <1>2, <1>6, <1>7, <1>8 DEF PlNext

\* What is said of a plan and of a handler depends on the plan's own row and
\* trail.
SameRow(p) == /\ plan'[p] = plan[p] /\ planTier'[p] = planTier[p]
              /\ content'[p] = content[p] /\ planSigns'[p] = planSigns[p]

LEMMA TrailKept ==
    ASSUME NEW p \in Plan, SameRow(p), TrailOK(p)
    PROVE  TrailOK(p)'
BY DEF SameRow, TrailOK

LEMMA StillKept ==
    ASSUME NEW c, SameRow(c.p), StillSo(c)
    PROVE  StillSo(c)'
BY DEF SameRow, StillSo, Editable

\* A handler that only reads: what it has read is so, the rest is as before.
LEMMA ReadStep ==
    ASSUME PlInv, Types', NEW w \in Worker, UNCHANGED <<plData, raced>>,
           \A v \in Worker \ {w} : work'[v] = work[v] /\ (v \in stale <=> v \in stale'),
           ReadOK(w)'
    PROVE  PlInv'
<1>1. \A p \in Plan : SameRow(p)
    BY DEF plData, SameRow
<1>2. \A p \in (Plan \ raced)' : TrailOK(p)'
    BY <1>1, TrailKept DEF PlInv
<1>3. ASSUME NEW v \in Worker \ {w} PROVE ReadOK(v)'
  <2>1. WorkTyped /\ ReadOK(v)
      BY DEF PlInv, Types
  <2>2. CASE work[v].at = "idle"
      BY <1>3, <2>2 DEF ReadOK
  <2>3. CASE work[v].at # "idle" /\ v \notin stale /\ work[v].p \notin raced
    <3>1. work[v].p \in Plan /\ StillSo(work[v])
        BY <2>1, <2>3, WorkAt DEF ReadOK
    <3>2. \A c : c = work[v] => StillSo(c)'
        BY <1>1, <3>1, StillKept
    <3>3. QED
        BY <1>3, <3>2 DEF ReadOK
  <2>4. CASE v \in stale \/ work[v].p \in raced
      BY <1>3, <2>4 DEF ReadOK
  <2>5. QED
      BY <2>2, <2>3, <2>4
<1>4. QED
    BY <1>2, <1>3 DEF PlInv

\* A handler that writes the plan it works on, which is its alone or counts as
\* raced from now on.
LEMMA WriteStep ==
    ASSUME PlInv, Types', NEW w \in Worker, NEW q \in Plan,
           work[w].at # "idle", work[w].p = q, Wrote(w, q),
           \A p \in Plan \ {q} : SameRow(p),
           \A v \in Worker \ {w} : work'[v] = work[v],
           work'[w].at # "idle" => work'[w].p = q,
           w \notin stale /\ q \notin raced =>
              TrailOK(q)' /\ (work'[w].at # "idle" => StillSo(work[w])')
    PROVE  PlInv'
<1>1. /\ stale \subseteq stale' /\ raced \subseteq raced'
      /\ w \in stale => q \in raced'
      /\ stale' = stale \cup OthersOn(w, q)
    BY DEF Wrote
<1>2. ASSUME NEW p \in (Plan \ raced)' PROVE TrailOK(p)'
  <2>1. CASE p = q
      BY <1>1, <1>2, <2>1
  <2>2. CASE p # q
      BY <1>1, <1>2, <2>2, TrailKept DEF PlInv
  <2>3. QED
      BY <2>1, <2>2
<1>3. ASSUME NEW v \in Worker \ {w} PROVE ReadOK(v)'
  <2>1. WorkTyped /\ ReadOK(v)
      BY DEF PlInv, Types
  <2>2. SUFFICES ASSUME work[v].at # "idle", v \notin stale', work[v].p \notin raced'
                 PROVE  StillSo(work[v])'
      BY <1>3 DEF ReadOK
  <2>3. work[v].p \in Plan /\ work[v].p # q
      BY <1>1, <2>1, <2>2, WorkAt DEF OthersOn
  <2>4. StillSo(work[v])
      BY <1>1, <2>1, <2>2 DEF ReadOK
  <2>5. \A c : c = work[v] => StillSo(c)'
      BY <2>3, <2>4, StillKept
  <2>6. QED
      BY <1>3, <2>5
<1>4. ReadOK(w)'
    BY <1>1 DEF ReadOK
<1>5. QED
    BY <1>2, <1>3, <1>4 DEF PlInv

\* The statuses that may be edited, set or approved.
LEMMA Statuses ==
    /\ \A p : Editable(p) => SignedTiers(plan[p]) = 0
    /\ \A p : Editable(p) => \A t \in 2..5 : plan[p] # Waiting(t)
    /\ \A to \in {"DRAFT", "ACTIVE", "CLOSED"} : \A s \in AllowedFrom(to) :
          /\ SignedTiers(to) = 4 => SignedTiers(s) = 4
          /\ SignedTiers(to) \in {0, 4}
          /\ \A t \in Tier : s # Waiting(t) /\ to # Waiting(t)
<1>1. \A t \in Tier : t \in 2..5 /\ Waiting(t) # "APPROVED"
    BY Words DEF Tier
<1>2. /\ SignedTiers("APPROVED") = 4
      /\ \A to \in {"DRAFT", "ACTIVE", "CLOSED"} : \A s \in AllowedFrom(to) :
            s \in {"APPROVED", "ACTIVE", "CLOSED", "DRAFT", "REJECTED"}
    BY Words DEF AllowedFrom
<1>3. \A to \in {"DRAFT", "ACTIVE", "CLOSED"} : \A s \in AllowedFrom(to) :
         /\ SignedTiers(to) = 4 => SignedTiers(s) = 4
         /\ SignedTiers(to) \in {0, 4}
    BY Words DEF AllowedFrom
<1>4. QED
    BY <1>1, <1>2, <1>3, Words, WaitingIsOneToOne DEF Editable

\* The first read of each request.
LEMMA StartSteps ==
    ASSUME PlInv, Types', NEW w \in Worker, NEW p \in Plan, NEW u \in Person,
           \/ StartSubmit(w, p, u) \/ StartApprove(w, p, u)
           \/ StartReject(w, p, u) \/ StartEdit(w, p, u)
           \/ \E to \in {"DRAFT", "ACTIVE", "CLOSED"} : StartSet(w, p, u, to)
    PROVE  PlInv'
<1>1. ASSUME NEW c, c.p = p, Begin(w, c), p \notin raced => StillSo(c)
      PROVE  PlInv'
  <2>1. /\ work' = [work EXCEPT ![w] = c] /\ stale' = stale \ {w}
        /\ UNCHANGED <<plData, raced>> /\ work \in [Worker -> Resting \cup Signing \cup Judging \cup Setting]
      BY <1>1 DEF Begin, PlInv, Types, WorkTyped
  <2>2. work'[w] = c /\ \A v \in Worker \ {w} : work'[v] = work[v]
      BY <2>1
  <2>3. SameRow(p)
      BY <2>1 DEF plData, SameRow
  <2>4. p \notin raced => StillSo(c)'
      BY <1>1, <2>3, StillKept
  <2>5. ReadOK(w)'
      BY <1>1, <2>1, <2>2, <2>4 DEF ReadOK
  <2>6. QED
      BY <2>1, <2>2, <2>5, ReadStep
<1>2. CASE StartSubmit(w, p, u)
  <2> DEFINE c == [at |-> "clear", p |-> p, u |-> u, t |-> 1]
  <2>1. Begin(w, c) /\ StillSo(c)
      BY <1>2 DEF StartSubmit, StillSo
  <2>2. QED
      BY <1>1, <2>1
<1>3. CASE StartApprove(w, p, u)
  <2> DEFINE c == [at |-> "check", p |-> p, u |-> u, t |-> planTier[p]]
  <2>1. Begin(w, c) /\ planTier[p] \in Tier /\ planTier[p] > 1
      BY <1>3 DEF StartApprove, Tier
  <2>2. p \notin raced => plan[p] = Waiting(planTier[p])
      BY <2>1 DEF PlInv, TrailOK
  <2>3. p \notin raced => StillSo(c)
      BY <2>1, <2>2 DEF StillSo
  <2>4. QED
      BY <1>1, <2>1, <2>3
<1>4. CASE StartReject(w, p, u)
  <2> DEFINE c == [at |-> "reject", p |-> p]
  <2>1. Begin(w, c) /\ StillSo(c)
      BY <1>4 DEF StartReject, StillSo
  <2>2. QED
      BY <1>1, <2>1
<1>5. CASE StartEdit(w, p, u)
  <2> DEFINE c == [at |-> "edit", p |-> p]
  <2>1. Begin(w, c) /\ StillSo(c)
      BY <1>5 DEF StartEdit, StillSo
  <2>2. QED
      BY <1>1, <2>1
<1>6. ASSUME NEW to \in {"DRAFT", "ACTIVE", "CLOSED"}, StartSet(w, p, u, to)
      PROVE  PlInv'
  <2> DEFINE c == [at |-> "set", p |-> p, to |-> to]
  <2>1. Begin(w, c) /\ StillSo(c)
      BY <1>6 DEF StartSet, StillSo
  <2>2. QED
      BY <1>1, <2>1
<1>7. QED
    BY <1>2, <1>3, <1>4, <1>5, <1>6

\* A new plan has no handler that could have read it as one.
LEMMA CreateStep ==
    ASSUME PlInv, Types', NEW p \in Plan, CreatePlan(p)
    PROVE  PlInv'
<1>1. /\ plan[p] = "none" /\ plan'[p] = "DRAFT"
      /\ UNCHANGED <<planTier, content, planSigns, work, stale, raced>>
      /\ \A q \in Plan \ {p} : SameRow(q)
    BY DEF CreatePlan, PlInv, Types, PlTypeOK, SameRow
<1>2. /\ \A t \in Tier : plan[p] # Waiting(t) /\ plan'[p] # Waiting(t)
      /\ SignedTiers(plan'[p]) = 0 /\ ~ Editable(p)
    BY <1>1, Words, WaitingIsOneToOne DEF Tier, Editable
<1>3. ASSUME NEW q \in (Plan \ raced)' PROVE TrailOK(q)'
  <2>1. TrailOK(q)
      BY <1>1, <1>3 DEF PlInv
  <2>2. CASE q = p
      BY <1>1, <1>2, <2>1, <2>2 DEF TrailOK
  <2>3. CASE q # p
      BY <1>1, <2>1, <2>3, TrailKept
  <2>4. QED
      BY <2>2, <2>3
<1>4. ASSUME NEW v \in Worker PROVE ReadOK(v)'
  <2>1. SUFFICES ASSUME work[v].at # "idle", v \notin stale, work[v].p \notin raced
                 PROVE  StillSo(work[v])'
      BY <1>1 DEF ReadOK
  <2>2. /\ StillSo(work[v]) /\ work[v].p \in Plan
        /\ work[v].at \in {"clear", "check", "sign", "move", "reject", "edit", "set"}
        /\ work[v].at \in {"clear", "check", "sign", "move"} => work[v] \in Signing
        /\ work[v].at = "set" => work[v] \in Setting
      BY <2>1, WorkAt DEF PlInv, ReadOK, Types
  <2>3. CASE work[v].p = p
    <3>1. work[v].at \in {"clear", "check", "sign", "move"} =>
             work[v].t \in 1..4 /\ (work[v].t > 1 => work[v].t \in Tier)
        BY <2>2 DEF Signing, Tier
    <3>2. work[v].at = "set" => "none" \notin AllowedFrom(work[v].to)
        BY <2>2 DEF Setting, AllowedFrom
    <3>3. work[v].at = "reject"
        BY <1>1, <1>2, <2>2, <2>3, <3>1, <3>2 DEF StillSo
    <3>4. QED
        BY <1>1, <3>3 DEF StillSo
  <2>4. CASE work[v].p # p
    <3>1. \A c : c = work[v] => StillSo(c)'
        BY <1>1, <2>2, <2>4, StillKept
    <3>2. QED
        BY <1>1, <3>1
  <2>5. QED
      BY <2>3, <2>4
<1>5. QED
    BY <1>3, <1>4 DEF PlInv

\* The statements of a handler.
LEMMA Statements ==
    ASSUME PlInv, Types', NEW w \in Worker,
           \/ Clear(w) \/ Check(w) \/ InsertSign(w) \/ Move(w)
           \/ RejectPlan(w) \/ Edit(w) \/ SetPlan(w) \/ Stop(w)
    PROVE  PlInv'
<1> DEFINE c == work[w]
<1>0. PICK q \in Plan : q = work[w].p
  <2>1. WorkTyped /\ work[w].at # "idle"
      BY DEF PlInv, Types, Clear, Check, InsertSign, Move, RejectPlan, Edit,
             SetPlan, Stop
  <2>2. QED
      BY <2>1, WorkAt
<1> USE <1>0
<1>1. /\ work \in [Worker -> Resting \cup Signing \cup Judging \cup Setting]
      /\ plan \in [Plan -> PlanStatus] /\ planTier \in [Plan -> {0} \cup Tier]
      /\ content \in [Plan -> {0, 1}]
      /\ planSigns \in [Plan -> SUBSET [tier : 1..4, by : Person, of : {0, 1}]]
      /\ WorkTyped /\ ReadOK(w)
    BY DEF PlInv, Types, PlTypeOK, WorkTyped
<1>2. ASSUME Done(w)
      PROVE  work'[w].at = "idle" /\ \A v \in Worker \ {w} : work'[v] = work[v]
    BY <1>1, <1>2 DEF Done
<1>3. ASSUME NEW at \in {"sign", "move"}, c \in Signing,
             c.at \in {"clear", "check", "sign", "move"}, Goto(w, at)
      PROVE  /\ work'[w].at = at /\ work'[w].p = q
             /\ work'[w].u = c.u /\ work'[w].t = c.t
             /\ \A v \in Worker \ {w} : work'[v] = work[v]
  <2>1. work'[w] = [c EXCEPT !.at = at] /\ \A v \in Worker \ {w} : work'[v] = work[v]
      BY <1>1, <1>3 DEF Goto
  <2>2. QED
      BY <1>3, <2>1, Moved
<1>4. \A p \in Plan \ raced : TrailOK(p)
    BY DEF PlInv
<1>5. CASE Clear(w)
  <2>1. c \in Signing /\ q \in Plan /\ c.at = "clear"
      BY <1>1, <1>5, WorkAt DEF Clear
  <2>2. /\ work'[w].at = "sign" /\ work'[w].p = q /\ work'[w].t = c.t
        /\ \A v \in Worker \ {w} : work'[v] = work[v]
      BY <1>3, <1>5, <2>1 DEF Clear
  <2>3. /\ planSigns'[q] = {} /\ UNCHANGED <<plan, planTier, content>>
        /\ \A p \in Plan \ {q} : SameRow(p)
      BY <1>1, <1>5, <2>1 DEF Clear, Cleared, SameRow
  <2>4. ASSUME w \notin stale, q \notin raced
        PROVE  TrailOK(q)' /\ StillSo(work[w])'
    <3>1. Editable(q) /\ c.t = 1 /\ TrailOK(q)
        BY <1>1, <1>4, <2>1, <2>4 DEF ReadOK, StillSo
    <3>2. SignedTiers(plan[q]) = 0 /\ \A t \in Tier : plan[q] # Waiting(t)
        BY <3>1, Statuses, WaitingStatus
    <3>3. TrailOK(q)'
        BY <2>3, <3>1, <3>2 DEF TrailOK
    <3>4. QED
        BY <2>2, <2>3, <3>1, <3>3 DEF StillSo, Editable
  <2>5. QED
      BY <1>5, <2>1, <2>2, <2>3, <2>4, WriteStep DEF Clear
<1>6. CASE Check(w)
  <2>1. c \in Signing /\ q \in Plan /\ c.at = "check" /\ UNCHANGED <<plData, stale, raced>>
      BY <1>1, <1>6, WorkAt DEF Check
  <2>2. /\ work'[w].at = "sign" /\ work'[w].p = q /\ work'[w].t = c.t /\ work'[w].u = c.u
        /\ \A v \in Worker \ {w} : work'[v] = work[v]
      BY <1>3, <1>6, <2>1 DEF Check
  <2>3. ReadOK(w)'
    <3>1. SUFFICES ASSUME w \notin stale, q \notin raced PROVE StillSo(work[w])'
        BY <2>1, <2>2 DEF ReadOK
    <3>2. c.t > 1 /\ plan[q] = Waiting(c.t) /\ NotTwice(planSigns[q], c.u)
        BY <1>1, <1>6, <2>1, <3>1 DEF ReadOK, StillSo, Check
    <3>3. QED
        BY <2>1, <2>2, <3>2 DEF StillSo, plData
  <2>4. QED
      BY <2>1, <2>2, <2>3, ReadStep
<1>7. CASE InsertSign(w)
  <2> DEFINE new == SignPlan(c.t, c.u, content[q])
             S == planSigns[q]
  <2>1. c \in Signing /\ q \in Plan /\ c.at = "sign" /\ c.t \in 1..4 /\ c.u \in Person
    <3>1. c \in Signing /\ c.at = "sign"
        BY <1>1, <1>7, WorkAt DEF InsertSign
    <3>2. QED
        BY <3>1 DEF Signing
  <2>2. /\ work'[w].at = "move" /\ work'[w].p = q /\ work'[w].t = c.t /\ work'[w].u = c.u
        /\ \A v \in Worker \ {w} : work'[v] = work[v]
      BY <1>3, <1>7, <2>1 DEF InsertSign
  <2>3. /\ planSigns'[q] = S \cup {new} /\ UNCHANGED <<plan, planTier, content>>
        /\ \A p \in Plan \ {q} : SameRow(p)
      BY <1>1, <1>7, <2>1 DEF InsertSign, SameRow
  <2>4. new.tier = c.t /\ new.by = c.u /\ new.of = content[q]
      BY <1>1, <2>1, ClearedTypes
  <2>5. ASSUME w \notin stale, q \notin raced
        PROVE  TrailOK(q)' /\ StillSo(work[w])'
    <3>1. StillSo(c) /\ TrailOK(q)
        BY <1>1, <1>4, <2>1, <2>5 DEF ReadOK
    <3>2. CASE c.t = 1
      <4>1. Editable(q) /\ S = {}
          BY <2>1, <3>1, <3>2 DEF StillSo
      <4>2. SignedTiers(plan[q]) = 0 /\ \A t \in Tier : plan[q] # Waiting(t)
          BY <4>1, Statuses, WaitingStatus
      <4>3. TrailOK(q)'
          BY <2>3, <3>1, <4>2 DEF TrailOK
      <4>4. planSigns'[q] = {SignPlan(1, c.u, content[q])}
          BY <2>3, <3>2, <4>1
      <4>5. QED
          BY <2>2, <2>3, <3>2, <4>1, <4>3, <4>4 DEF StillSo, Editable
    <3>3. CASE c.t > 1
      <4>1. c.t \in Tier /\ c.t \in 2..5 /\ c.t - 1 \in 1..3 /\ (c.t - 1) + 1 = c.t
          BY <2>1, <3>3 DEF Tier
      <4>2. /\ plan[q] = Waiting(c.t) /\ NotTwice(S, c.u)
            /\ \A x \in S : x.tier <= c.t
            /\ Chain(S, c.t - 1) /\ ((\E x \in S : x.tier = c.t) => Chain(S, c.t))
          BY <2>1, <3>1, <3>3, <4>1 DEF StillSo, TrailOK
      <4>3. Chain(S \cup {new}, c.t)
        <5>1. CASE \E x \in S : x.tier = c.t
            BY <2>1, <4>2, <5>1, ChainGrows
        <5>2. CASE ~ \E x \in S : x.tier = c.t
          <6>1. \A x \in S : x.tier \in 1..4
              BY <1>1, <2>1
          <6>2. \A x \in S : x.tier <= c.t - 1
              BY <2>1, <4>2, <5>2, <6>1
          <6>3. S # {}
              BY <4>1, <4>2 DEF Chain
          <6>4. PICK v \in LastSigners(S) : v # c.u
              BY <4>2, <6>3 DEF NotTwice
          <6>5. PICK x \in S : x.by = v /\ \A z \in S : z.tier <= x.tier
              BY <6>4 DEF LastSigners
          <6>6. PICK z \in S : z.tier = c.t - 1
              BY <4>1, <4>2 DEF Chain
          <6>7. x.tier = c.t - 1
              BY <4>1, <6>1, <6>2, <6>5, <6>6
          <6>8. Chain(S \cup {new}, c.t - 1)
            <7>1. S \subseteq S \cup {new} /\ c.t - 1 \in 0..4
                BY <4>1
            <7>2. QED
                BY <4>2, <7>1, ChainGrows
          <6>9. x.by # new.by
            <7>1. v # new.by
                BY <2>4, <6>4
            <7>2. QED
                BY <6>5, <7>1
          <6>10. QED
              BY <2>4, <4>1, <6>7, <6>8, <6>9, ChainNext
        <5>3. QED
            BY <5>1, <5>2
      <4>4. \A t \in Tier : plan[q] = Waiting(t) => t = c.t
          BY <4>1, <4>2, WaitingIsOneToOne, WaitingStatus
      <4>5. \A x \in S \cup {new} : x.tier <= c.t
          BY <2>1, <2>4, <4>2
      <4>6. Chain(S \cup {new}, c.t - 1)
        <5>1. S \subseteq S \cup {new} /\ c.t - 1 \in 0..4
            BY <4>1
        <5>2. QED
            BY <4>2, <5>1, ChainGrows
      <4>7. SignedTiers(plan[q]) = c.t - 1
          BY <4>1, <4>2, WaitingIsOneToOne
      <4>8. \A x \in S \cup {new} : x.of = content[q]
          BY <2>4, <3>1, <4>1, <4>7 DEF TrailOK
      <4>9. TrailOK(q)'
          BY <2>3, <3>1, <4>1, <4>3, <4>4, <4>5, <4>6, <4>7, <4>8 DEF TrailOK
      <4>10. QED
          BY <2>2, <2>3, <3>3, <4>2, <4>3, <4>9 DEF StillSo
    <3>4. QED
        BY <2>1, <3>2, <3>3
  <2>6. QED
      BY <1>7, <2>1, <2>2, <2>3, <2>5, WriteStep DEF InsertSign
<1>8. CASE Move(w)
  <2> DEFINE S == planSigns[q]
  <2>1. c \in Signing /\ q \in Plan /\ c.at = "move" /\ c.t \in 1..4 /\ c.u \in Person
    <3>1. c \in Signing /\ c.at = "move"
        BY <1>1, <1>8, WorkAt DEF Move
    <3>2. QED
        BY <3>1 DEF Signing
  <2>2. /\ work'[w].at = "idle" /\ \A v \in Worker \ {w} : work'[v] = work[v]
      BY <1>2, <1>8 DEF Move
  <2>3. /\ plan'[q] = Waiting(c.t + 1) /\ planTier'[q] = (IF c.t = 4 THEN 0 ELSE c.t + 1)
        /\ UNCHANGED <<content, planSigns>>
        /\ \A p \in Plan \ {q} : SameRow(p)
      BY <1>1, <1>8, <2>1 DEF Move, SameRow
  <2>4. ASSUME w \notin stale, q \notin raced PROVE TrailOK(q)'
    <3>1. StillSo(c) /\ TrailOK(q)
        BY <1>1, <1>4, <2>1, <2>4 DEF ReadOK
    <3>2. c.t + 1 \in 2..5 /\ (c.t + 1) - 1 = c.t
        BY <2>1
    <3>3. Chain(S, c.t) /\ (\A x \in S : x.tier <= c.t) /\ \A x \in S : x.of = content[q]
      <4>1. CASE c.t = 1
        <5>1. S = {SignPlan(1, c.u, content[q])}
            BY <2>1, <3>1, <4>1 DEF StillSo
        <5>2. \A x \in S : x.tier = 1 /\ x.of = content[q]
            BY <1>1, <2>1, <5>1, ClearedTypes
        <5>3. QED
            BY <4>1, <5>1, <5>2, ChainStarts
      <4>2. CASE c.t > 1
        <5>1. c.t \in Tier /\ plan[q] = Waiting(c.t) /\ Chain(S, c.t)
            BY <2>1, <3>1, <4>2 DEF StillSo, Tier
        <5>2. SignedTiers(plan[q]) > 0
            BY <5>1, <2>1, <4>2, WaitingIsOneToOne, WaitingStatus
        <5>3. QED
            BY <3>1, <5>1, <5>2 DEF TrailOK
      <4>3. QED
          BY <2>1, <4>1, <4>2
    <3>4. SignedTiers(plan'[q]) = c.t
        BY <2>3, <3>2, WaitingIsOneToOne
    <3>5. \A t \in Tier : plan'[q] = Waiting(t) => t = c.t + 1
        BY <2>3, <3>2, WaitingIsOneToOne, WaitingStatus
    <3>6. planTier'[q] \in Tier => plan'[q] = Waiting(planTier'[q])
        BY <2>3, <2>1 DEF Tier
    <3>7. \A x \in S : x.tier \in 1..4
        BY <1>1, <2>1
    <3>8. \A t \in Tier : plan'[q] = Waiting(t) =>
             /\ \A x \in S : x.tier <= t
             /\ Chain(S, t - 1)
             /\ ~ \E x \in S : x.tier = t
        BY <2>1, <3>2, <3>3, <3>5, <3>7
    <3>9. SignedTiers(plan'[q]) = 4 => Chain(S, 4)
        BY <3>3, <3>4
    <3>10. QED
        BY <2>3, <3>3, <3>6, <3>8, <3>9 DEF TrailOK
  <2>5. QED
      BY <1>8, <2>1, <2>2, <2>3, <2>4, WriteStep DEF Move
<1>9. CASE RejectPlan(w)
  <2>1. q \in Plan /\ c.at = "reject"
      BY <1>1, <1>9, WorkAt DEF RejectPlan
  <2>2. /\ work'[w].at = "idle" /\ \A v \in Worker \ {w} : work'[v] = work[v]
      BY <1>2, <1>9 DEF RejectPlan
  <2>3. /\ plan'[q] = "REJECTED" /\ planTier'[q] = 0 /\ UNCHANGED <<content, planSigns>>
        /\ \A p \in Plan \ {q} : SameRow(p)
      BY <1>1, <1>9, <2>1 DEF RejectPlan, SameRow
  <2>4. TrailOK(q)'
    <3>1. SignedTiers(plan'[q]) = 0 /\ \A t \in Tier : plan'[q] # Waiting(t)
        BY <2>3, Words, WaitingIsOneToOne, WaitingStatus
    <3>2. planTier'[q] \notin Tier
        BY <2>3 DEF Tier
    <3>3. QED
        BY <3>1, <3>2 DEF TrailOK
  <2>5. QED
      BY <1>9, <2>1, <2>2, <2>3, <2>4, WriteStep DEF RejectPlan
<1>10. CASE Edit(w)
  <2>1. q \in Plan /\ c.at = "edit"
      BY <1>1, <1>10, WorkAt DEF Edit
  <2>2. /\ work'[w].at = "idle" /\ \A v \in Worker \ {w} : work'[v] = work[v]
      BY <1>2, <1>10 DEF Edit
  <2>3. /\ UNCHANGED <<plan, planTier, planSigns>>
        /\ \A p \in Plan \ {q} : SameRow(p)
      BY <1>1, <1>10, <2>1 DEF Edit, SameRow
  <2>4. ASSUME w \notin stale, q \notin raced PROVE TrailOK(q)'
    <3>1. Editable(q) /\ TrailOK(q)
        BY <1>1, <1>4, <2>1, <2>4 DEF ReadOK, StillSo
    <3>2. SignedTiers(plan[q]) = 0
        BY <3>1, Statuses
    <3>3. QED
        BY <2>3, <3>1, <3>2 DEF TrailOK
  <2>5. QED
      BY <1>10, <2>1, <2>2, <2>3, <2>4, WriteStep DEF Edit
<1>11. CASE SetPlan(w)
  <2>1. q \in Plan /\ c.at = "set" /\ c.to \in {"DRAFT", "ACTIVE", "CLOSED"}
    <3>1. q \in Plan /\ c.at = "set" /\ c \in Setting
        BY <1>1, <1>11, WorkAt DEF SetPlan
    <3>2. QED
        BY <3>1 DEF Setting
  <2>2. /\ work'[w].at = "idle" /\ \A v \in Worker \ {w} : work'[v] = work[v]
      BY <1>2, <1>11 DEF SetPlan
  <2>3. /\ plan'[q] = c.to /\ UNCHANGED <<planTier, content, planSigns>>
        /\ \A p \in Plan \ {q} : SameRow(p)
      BY <1>1, <1>11, <2>1 DEF SetPlan, SameRow
  <2>4. ASSUME w \notin stale, q \notin raced PROVE TrailOK(q)'
    <3>1. plan[q] \in AllowedFrom(c.to) /\ TrailOK(q)
        BY <1>1, <1>4, <2>1, <2>4 DEF ReadOK, StillSo
    <3>2. /\ SignedTiers(c.to) = 4 => SignedTiers(plan[q]) = 4
          /\ SignedTiers(c.to) \in {0, 4}
          /\ \A t \in Tier : plan[q] # Waiting(t) /\ c.to # Waiting(t)
        BY <2>1, <3>1, Statuses
    <3>3. SignedTiers(c.to) > 0 => SignedTiers(plan[q]) > 0
        BY <3>2
    <3>4. QED
        BY <2>3, <3>1, <3>2, <3>3 DEF TrailOK
  <2>5. QED
      BY <1>11, <2>1, <2>2, <2>3, <2>4, WriteStep DEF SetPlan
<1>12. CASE Stop(w)
  <2>1. /\ work'[w].at = "idle" /\ \A v \in Worker \ {w} : work'[v] = work[v]
      BY <1>2, <1>12 DEF Stop
  <2>2. UNCHANGED <<plData, stale, raced>> /\ ReadOK(w)'
      BY <1>12, <2>1 DEF Stop, ReadOK
  <2>3. QED
      BY <2>1, <2>2, ReadStep
<1>13. QED
    BY <1>5, <1>6, <1>7, <1>8, <1>9, <1>10, <1>11, <1>12

LEMMA PlStart == PlInit => PlInv
<1> SUFFICES ASSUME PlInit PROVE PlInv
    OBVIOUS
<1>1. Types
    BY DEF PlInit, Types, PlTypeOK, WorkTyped, Resting, PlanStatus
<1>2. \A p \in Plan : TrailOK(p)
    BY Words, WaitingIsOneToOne DEF PlInit, TrailOK, Tier
<1>3. \A w \in Worker : ReadOK(w)
    BY DEF PlInit, ReadOK
<1>4. QED
    BY <1>1, <1>2, <1>3 DEF PlInv

LEMMA PlStep == PlInv /\ [PlNext]_plVars => PlInv'
<1> SUFFICES ASSUME PlInv, [PlNext]_plVars PROVE PlInv'
    OBVIOUS
<1>1. Types'
    BY PlTypes DEF PlInv
<1>2. CASE UNCHANGED plVars
  <2>1. UNCHANGED <<plan, planTier, content, planSigns, work, stale, raced>>
      BY <1>2 DEF plVars, plData
  <2>2. QED
      BY <2>1 DEF PlInv, Types, PlTypeOK, WorkTyped, TrailOK, ReadOK, StillSo, Editable
<1>3. QED
    BY <1>1, <1>2, CreateStep, StartSteps, Statements DEF PlNext

LEMMA PlInvariant == PlSpec => []PlInv
BY PlStart, PlStep, PTL DEF PlSpec

\* The rows of the plans keep their types (routes/rebate.js).
THEOREM PlansTyped == PlSpec => []PlTypeOK
<1>1. PlInv => PlTypeOK
    BY DEF PlInv, Types
<1>2. QED
    BY <1>1, PlInvariant, PTL

\* POST /plans/:id/approve: for any number of plans, handlers, people and
\* crashes, a plan that no two handlers wrote at a time carries the signatures
\* its status says, each by another person than the one before.
THEOREM PlansSigned == PlSpec => []PlanSigned
<1>1. PlInv => PlanSigned
  <2>1. SUFFICES ASSUME PlInv, NEW p \in Plan \ raced
                 PROVE  Chain(planSigns[p], SignedTiers(plan[p]))
      BY DEF PlanSigned
  <2>2. TrailOK(p) /\ plan[p] \in PlanStatus
      BY <2>1 DEF PlInv, Types, PlTypeOK
  <2>3. CASE \E t \in Tier : plan[p] = Waiting(t)
      BY <2>2, <2>3, WaitingIsOneToOne, WaitingStatus DEF TrailOK
  <2>4. CASE SignedTiers(plan[p]) = 4
      BY <2>2, <2>4 DEF TrailOK
  <2>5. CASE SignedTiers(plan[p]) = 0
      BY <2>5, ChainStarts
  <2>6. QED
      BY <2>2, <2>3, <2>4, <2>5, Words DEF PlanStatus, Tier
<1>2. QED
    BY <1>1, PlInvariant, PTL

\* POST /plans/:id/submit and PATCH /plans/:id: what is signed is what the
\* plan says now.
THEOREM PlansFresh == PlSpec => []SignaturesFresh
<1>1. PlInv => SignaturesFresh
    BY DEF PlInv, TrailOK, SignaturesFresh
<1>2. QED
    BY <1>1, PlInvariant, PTL
=============================================================================
