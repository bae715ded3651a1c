--------------------------- MODULE GiveawayQuota ---------------------------
(***************************************************************************)
(* The budgets of giveaways (services/giveaway-quota.js,                   *)
(* routes/giveaway.js), and the saving, confirming and ending of the bills *)
(* that give things away (routes/so.js, services/draft-confirmation.js).   *)
(*                                                                         *)
(* One kind of giveaway, and one year of budgets; each region has one      *)
(* budget line for it, of one salesperson (UQ_GBudget), who may have the   *)
(* lines of several regions.  A draft promises its pieces, its             *)
(* confirmation withdraws them.  A draft names no region: the check takes  *)
(* a line of the salesperson and counts all promises of the salesperson    *)
(* against it, the confirmation takes a line once more (TOP 1, no order).  *)
(* A salesperson without a line gives nothing away (NO_BUDGET_LINE); with  *)
(* the year left out, the line is still there when the bill is confirmed.  *)
(* Saving a draft checks the quota and writes the draft in one             *)
(* transaction, but the check locks no row the check of another bill would *)
(* need.                                                                   *)
(***************************************************************************)
EXTENDS Integers, FiniteSets, Functions

CONSTANTS
    Gift,       \* bound: bills with giveaways
    Region,
    Seller,     \* bound: salespeople
    Loan,       \* bound: borrow requests
    Saver,      \* bound: saves in progress at a time
    MaxPieces,  \* bound: pieces of a bill, of a loan, of a withdrawal
    MaxBudget,  \* bound: a budget that is set, or lent to
    MaxDrawn,   \* bound: pieces withdrawn by hand
    Percent     \* setting GIVEAWAY_BORROW_MAX_PCT

ASSUME QuotaAssumption ==
    /\ IsFiniteSet(Gift) /\ IsFiniteSet(Region)
    /\ {MaxPieces, MaxBudget, MaxDrawn} \subseteq Nat /\ Percent \in 0..100

VARIABLES
    budget,     \* BudgetQty
    drawn,      \* what POST /withdrawals wrote
    gift,       \* of a bill: "none", "DRAFT", "CONFIRMED" or "ended"
    owner,      \* of a budget line: SalesUserId
    region,     \* of a bill: whose line its confirmation will draw on
    pieces,     \* on its giveaway line
    withdrawn,  \* the withdrawal its confirmation wrote
    loan,       \* borrow requests
    saver,      \* what each save has checked
    overtaken,  \* history: saves whose region another save wrote since
    loosened    \* history: regions that share a salesperson, and those where
                \* something other than a save in its turn has taken pieces

gqBills == <<gift, owner, region, pieces, withdrawn>>
gqVars == <<budget, drawn, gqBills, loan, saver, overtaken, loosened>>

Pieces == 0..MaxPieces
Budget == 0..MaxBudget
NoSave == [on |-> FALSE]
NoLoan == [status |-> "none"]
LinesOf(u) == {r \in Region : owner[r] = u}

GqInit ==
    /\ budget \in [Region -> Budget]
    /\ drawn = [r \in Region |-> 0]
    /\ gift = [b \in Gift |-> "none"]
    /\ owner \in [Region -> Seller]
    /\ region \in [Gift -> Region]
    /\ pieces = [b \in Gift |-> 0]
    /\ withdrawn = [b \in Gift |-> 0]
    /\ loan = [l \in Loan |-> NoLoan]
    /\ saver = [s \in Saver |-> NoSave]
    /\ overtaken = {}
    /\ loosened = {r \in Region : LinesOf(owner[r]) # {r}}

-----------------------------------------------------------------------------
\* v_GiveawayBudgetStatus, and what the open drafts of a salesperson but one
\* promise.
Total(f, S) == SumFunctionOnSet(f, S)
BillsOf(r) == {b \in Gift : region[b] = r}
BudgetLeft(r) == budget[r] - drawn[r] - Total(withdrawn, BillsOf(r))
Drafts(u) == {b \in Gift : owner[region[b]] = u /\ gift[b] = "DRAFT"}
Committed(u, but) == Total(pieces, Drafts(u) \ {but})

\* Mutant: the promises of the other drafts are not counted.
LeftOver(b, n, r) == n = 0 \/ n <= BudgetLeft(r)
Fits(b, n, r) == n = 0 \/ n <= BudgetLeft(r) - Committed(owner[r], b)

Saving(b) == \E s \in Saver : saver[s].on /\ saver[s].b = b

\* A save of bill b with n pieces has passed the check.  A new bill holds the
\* references of its book from before the check, so those of one book queue.
StartSave(s, b, n, book) ==
    /\ ~saver[s].on
    /\ ~Saving(b)
    /\ \/ gift[b] = "DRAFT" /\ book = "own row"
       \/ /\ gift[b] = "none"
          /\ book \in {"I", "K"}
          /\ ~ \E t \in Saver : saver[t].on /\ saver[t].book = book
    /\ \E r \in LinesOf(owner[region[b]]) : Fits(b, n, r)
    /\ saver' = [saver EXCEPT ![s] = [on |-> TRUE, b |-> b, n |-> n, book |-> book]]
    /\ overtaken' = overtaken \ {s}
    /\ UNCHANGED <<budget, drawn, gqBills, loan, loosened>>

SameRegion(s) ==
    {t \in Saver \ {s} : saver[t].on /\ region[saver[t].b] = region[saver[s].b]}

Save(s) ==
    LET b == saver[s].b IN
    /\ saver[s].on
    /\ gift' = [gift EXCEPT ![b] = "DRAFT"]
    /\ pieces' = [pieces EXCEPT ![b] = saver[s].n]
    /\ saver' = [saver EXCEPT ![s] = NoSave]
    /\ overtaken' = overtaken \cup SameRegion(s)
    /\ loosened' = loosened \cup (IF s \in overtaken THEN {region[b]} ELSE {})
    /\ UNCHANGED <<budget, drawn, owner, region, withdrawn, loan>>

RefuseSave(s) ==
    /\ saver[s].on
    /\ saver' = [saver EXCEPT ![s] = NoSave]
    /\ UNCHANGED <<budget, drawn, gqBills, loan, overtaken, loosened>>

\* The confirmation withdraws what the draft promised, and checks no more.
ConfirmGift(b) ==
    /\ gift[b] = "DRAFT"
    /\ ~Saving(b)
    /\ gift' = [gift EXCEPT ![b] = "CONFIRMED"]
    /\ withdrawn' = [withdrawn EXCEPT ![b] = pieces[b]]
    /\ UNCHANGED <<budget, drawn, owner, region, pieces, loan, saver, overtaken, loosened>>

\* Cancelled or deleted: the withdrawal goes with it.
EndGift(b) ==
    /\ gift[b] \in {"DRAFT", "CONFIRMED"}
    /\ ~Saving(b)
    /\ gift' = [gift EXCEPT ![b] = "ended"]
    /\ withdrawn' = [withdrawn EXCEPT ![b] = 0]
    /\ UNCHANGED <<budget, drawn, owner, region, pieces, loan, saver, overtaken, loosened>>

-----------------------------------------------------------------------------
\* POST /withdrawals tells that a budget is exceeded and lets it be.
WithdrawByHand(r, n) ==
    /\ n > 0
    /\ SumFunction(drawn) + n <= MaxDrawn
    /\ drawn' = [drawn EXCEPT ![r] = @ + n]
    /\ loosened' = loosened \cup {r}
    /\ UNCHANGED <<budget, gqBills, loan, saver, overtaken>>

SetBudget(r, n) ==
    /\ budget' = [budget EXCEPT ![r] = n]
    /\ loosened' = loosened \cup (IF n < budget[r] THEN {r} ELSE {})
    /\ UNCHANGED <<drawn, gqBills, loan, saver, overtaken>>

\* borrowLimit
Lendable(r, n) == n <= BudgetLeft(r) /\ 100 * n <= Percent * BudgetLeft(r)

Borrow(l, to, from, n) ==
    /\ loan[l] = NoLoan
    /\ to # from /\ n > 0
    /\ Lendable(from, n)
    /\ loan' = [loan EXCEPT ![l] =
                [status |-> "PENDING", to |-> to, from |-> from, n |-> n]]
    /\ UNCHANGED <<budget, drawn, gqBills, saver, overtaken, loosened>>

RejectLoan(l) ==
    /\ loan[l].status = "PENDING"
    /\ loan' = [loan EXCEPT ![l].status = "REJECTED"]
    /\ UNCHANGED <<budget, drawn, gqBills, saver, overtaken, loosened>>

ApproveLoan(l) ==
    LET c == loan[l] IN
    /\ c.status = "PENDING"
    /\ Lendable(c.from, c.n)
    /\ budget' = [budget EXCEPT ![c.from] = @ - c.n, ![c.to] = @ + c.n]
    /\ budget'[c.to] \in Budget
    /\ loan' = [loan EXCEPT ![l].status = "APPROVED"]
    /\ loosened' = loosened \cup {c.from}
    /\ UNCHANGED <<drawn, gqBills, saver, overtaken>>

GqNext ==
    \/ \E s \in Saver, b \in Gift, n \in Pieces, book \in {"I", "K", "own row"} :
          StartSave(s, b, n, book)
    \/ \E s \in Saver : Save(s) \/ RefuseSave(s)
    \/ \E b \in Gift : ConfirmGift(b) \/ EndGift(b)
    \/ \E r \in Region, n \in Pieces : WithdrawByHand(r, n)
    \/ \E r \in Region, n \in Budget : SetBudget(r, n)
    \/ \E l \in Loan, to, from \in Region, n \in Pieces : Borrow(l, to, from, n)
    \/ \E l \in Loan : RejectLoan(l) \/ ApproveLoan(l)

GqSpec == GqInit /\ [][GqNext]_gqVars

-----------------------------------------------------------------------------
\* The state keeps its types.
GqTypeOK ==
    /\ budget \in [Region -> Budget]
    /\ drawn \in [Region -> 0..MaxDrawn]
    /\ gift \in [Gift -> {"none", "DRAFT", "CONFIRMED", "ended"}]
    /\ owner \in [Region -> Seller] /\ region \in [Gift -> Region]
    /\ pieces \in [Gift -> Pieces] /\ withdrawn \in [Gift -> Pieces]
    /\ loan \in [Loan -> {NoLoan} \cup [status : {"PENDING", "APPROVED", "REJECTED"},
                                      to : Region, from : Region, n : Pieces]]
    /\ saver \in [Saver -> {NoSave} \cup [on : {TRUE}, b : Gift, n : Pieces,
                                        book : {"I", "K", "own row"}]]
    /\ overtaken \subseteq Saver /\ loosened \subseteq Region

\* A region never owes more than its budget, the drafts of its salesperson
\* included, unless the salesperson has other regions too, a budget was lowered
\* or lent, a withdrawal was written by hand, or two saves overlapped
\* (giveaway-quota.js: "open drafts must be counted or two drafts could both
\* pass").
PromisesFit ==
    \A r \in Region \ loosened :
        Total(pieces, Drafts(owner[r])) <= BudgetLeft(r)
=============================================================================
