---------------------------- MODULE PlanApproval ----------------------------
(***************************************************************************)
(* The approval of rebate plans (routes/rebate.js).  The handlers run      *)
(* without a transaction: each of their statements commits by itself, and  *)
(* another handler or a crash may come between any two.                    *)
(***************************************************************************)
EXTENDS Tiers

CONSTANTS
    Plan,
    Worker      \* bound: handlers at a time

VARIABLES
    plan,       \* Status of a plan
    planTier,   \* its CurrentTier, 0 for NULL
    content,    \* what the plan says
    planSigns,  \* its rows in wf.RebatePlanApproval, each with what was signed
    work,       \* what each handler has read, and where it stands
    stale,      \* history: handlers whose plan was written since they began
    raced       \* history: plans such a handler wrote

plData == <<plan, planTier, content, planSigns>>
plVars == <<plData, work, stale, raced>>

SignPlan(t, u, what) == [tier |-> t, by |-> u, of |-> what]

PlInit ==
    /\ plan = [p \in Plan |-> "none"]
    /\ planTier = [p \in Plan |-> 0]
    /\ content = [p \in Plan |-> 0]
    /\ planSigns = [p \in Plan |-> {}]
    /\ work = [w \in Worker |-> [at |-> "idle"]]
    /\ stale = {}
    /\ raced = {}

-----------------------------------------------------------------------------
CreatePlan(p) ==
    /\ plan[p] = "none"
    /\ plan' = [plan EXCEPT ![p] = "DRAFT"]
    /\ UNCHANGED <<planTier, content, planSigns, work, stale, raced>>

Begin(w, c) ==
    /\ work[w].at = "idle"
    /\ work' = [work EXCEPT ![w] = c]
    /\ stale' = stale \ {w}
    /\ UNCHANGED <<plData, raced>>

Goto(w, at) == work' = [work EXCEPT ![w] = [@ EXCEPT !.at = at]]
Done(w) == work' = [work EXCEPT ![w] = [at |-> "idle"]]

OthersOn(w, p) ==
    {v \in Worker \ {w} : work[v].at # "idle" /\ work[v].p = p}

\* The history of a write to a plan or to its trail.
Wrote(w, p) ==
    /\ stale' = stale \cup OthersOn(w, p)
    /\ raced' = IF w \in stale THEN raced \cup {p} ELSE raced

Editable(p) == plan[p] \in {"DRAFT", "REJECTED"}

StartSubmit(w, p, u) ==
    /\ Editable(p)
    /\ u \notin Accountant
    /\ Begin(w, [at |-> "clear", p |-> p, u |-> u, t |-> 1])

\* Mutant: the signatures of the version sent back are kept.
Kept(trail) == trail
Cleared(trail) == {}

Clear(w) ==
    LET c == work[w] IN
    /\ c.at = "clear"
    /\ planSigns' = [planSigns EXCEPT ![c.p] = Cleared(@)]
    /\ Goto(w, "sign")
    /\ Wrote(w, c.p)
    /\ UNCHANGED <<plan, planTier, content>>

PlanRole(t) == CASE t \in {2, 3} -> Manager \cup Elevated
                 [] t = 4 -> Elevated

\* The plan is read, then the last signature.
StartApprove(w, p, u) ==
    /\ plan[p] \notin {"APPROVED", "ACTIVE", "REJECTED"}
    /\ planTier[p] \in Tier
    /\ u \in PlanRole(planTier[p]) \/ (planTier[p] = 2 /\ u \in Regional)
    /\ Begin(w, [at |-> "check", p |-> p, u |-> u, t |-> planTier[p]])

\* Mutant: one person may sign two tiers in a row.
Anyone(trail, u) == trail # {}
NotTwice(trail, u) == trail = {} \/ \E v \in LastSigners(trail) : v # u

Check(w) ==
    LET c == work[w] IN
    /\ c.at = "check"
    /\ NotTwice(planSigns[c.p], c.u)
    /\ Goto(w, "sign")
    /\ UNCHANGED <<plData, stale, raced>>

\* The INSERT of a submission or of an approval.
InsertSign(w) ==
    LET c == work[w] IN
    /\ c.at = "sign"
    /\ planSigns' = [planSigns EXCEPT
                     ![c.p] = @ \cup {SignPlan(c.t, c.u, content[c.p])}]
    /\ Goto(w, "move")
    /\ Wrote(w, c.p)
    /\ UNCHANGED <<plan, planTier, content>>

\* The UPDATE that follows it, whatever the plan has become.
Move(w) ==
    LET c == work[w] IN
    /\ c.at = "move"
    /\ plan' = [plan EXCEPT ![c.p] = Waiting(c.t + 1)]
    /\ planTier' = [planTier EXCEPT ![c.p] = IF c.t = 4 THEN 0 ELSE c.t + 1]
    /\ Done(w)
    /\ Wrote(w, c.p)
    /\ UNCHANGED <<content, planSigns>>

StartReject(w, p, u) ==
    /\ planTier[p] \in Tier
    /\ u \in PlanRole(planTier[p])
    /\ Begin(w, [at |-> "reject", p |-> p])

RejectPlan(w) ==
    LET c == work[w] IN
    /\ c.at = "reject"
    /\ plan' = [plan EXCEPT ![c.p] = "REJECTED"]
    /\ planTier' = [planTier EXCEPT ![c.p] = 0]
    /\ Done(w)
    /\ Wrote(w, c.p)
    /\ UNCHANGED <<content, planSigns>>

AllowedFrom(to) == CASE to = "ACTIVE" -> {"APPROVED", "ACTIVE"}
                     [] to = "CLOSED" -> {"APPROVED", "ACTIVE", "CLOSED"}
                     [] to = "DRAFT" -> {"DRAFT", "REJECTED"}

\* PATCH /plans/:id: a new definition, a new status.
StartEdit(w, p, u) ==
    /\ u \in Manager \cup Elevated
    /\ Editable(p)
    /\ Begin(w, [at |-> "edit", p |-> p])

Edit(w) ==
    LET c == work[w] IN
    /\ c.at = "edit"
    /\ content' = [content EXCEPT ![c.p] = 1 - @]
    /\ Done(w)
    /\ Wrote(w, c.p)
    /\ UNCHANGED <<plan, planTier, planSigns>>

StartSet(w, p, u, to) ==
    /\ u \in Manager \cup Elevated
    /\ plan[p] \in AllowedFrom(to)
    /\ Begin(w, [at |-> "set", p |-> p, to |-> to])

SetPlan(w) ==
    LET c == work[w] IN
    /\ c.at = "set"
    /\ plan' = [plan EXCEPT ![c.p] = c.to]
    /\ Done(w)
    /\ Wrote(w, c.p)
    /\ UNCHANGED <<planTier, content, planSigns>>

\* The handler's request is refused at its second read, or it dies.
Stop(w) ==
    /\ work[w].at # "idle"
    /\ Done(w)
    /\ UNCHANGED <<plData, stale, raced>>

PlNext ==
    \/ \E p \in Plan : CreatePlan(p)
    \/ \E w \in Worker, p \in Plan, u \in Person :
          \/ StartSubmit(w, p, u) \/ StartApprove(w, p, u)
          \/ StartReject(w, p, u) \/ StartEdit(w, p, u)
          \/ \E to \in {"DRAFT", "ACTIVE", "CLOSED"} : StartSet(w, p, u, to)
    \/ \E w \in Worker :
          \/ Clear(w) \/ Check(w) \/ InsertSign(w) \/ Move(w)
          \/ RejectPlan(w) \/ Edit(w) \/ SetPlan(w) \/ Stop(w)

PlSpec == PlInit /\ [][PlNext]_plVars

-----------------------------------------------------------------------------
\* The state keeps its types.
PlanStatus == {"none", "DRAFT", "REJECTED", "ACTIVE", "CLOSED", "APPROVED",
               "TIER2_PENDING", "TIER3_PENDING", "TIER4_PENDING"}
PlTypeOK ==
    /\ plan \in [Plan -> PlanStatus]
    /\ planTier \in [Plan -> {0} \cup Tier]
    /\ content \in [Plan -> {0, 1}]
    /\ planSigns \in [Plan -> SUBSET [tier : 1..4, by : Person, of : {0, 1}]]
    /\ stale \subseteq Worker
    /\ raced \subseteq Plan

\* However its handlers crash, a plan no two of them wrote at a time carries
\* the signatures its status says (POST /plans/:id/approve inserts the
\* signature before it moves the plan on).
PlanSigned ==
    \A p \in Plan \ raced : Chain(planSigns[p], SignedTiers(plan[p]))

\* And they were given for what it says now: a plan sent back and changed
\* starts again without them (POST /plans/:id/submit, PATCH /plans/:id).
SignaturesFresh ==
    \A p \in Plan \ raced :
        SignedTiers(plan[p]) > 0 =>
            \A x \in planSigns[p] : x.of = content[p]
=============================================================================
