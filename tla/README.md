# WS-Sale-App: models, checks and proofs

WS-Sale-App is the sales desk of a fertiliser company: a React client
(`src/WSSale-App`), a Node/Express server (`src/backend`) and one SQL Server
database. The server keeps its own tables (schema `wf`) beside those of the
ERP WINSpeed (schema `dbo`), which the counter, the warehouse and the scale
write to without telling it. This directory models the parts of the server in
which several actors share rows, model-checks them on small instances with
TLC, and proves the main results for all instances with TLAPS.

## 1. Inventory

The path of one sale, and who acts on it:

    draft -> price approval -> confirm (103 in WINSpeed) -> picking -> load
          -> weigh-out -> SHIPPED -> rebate earned
      |                        |                               |
    coupon reserved     rebate consumed                outbox event, audit
      |                        |
    coupon cut at the counter, settled later against the reservation

| Component | State | Operations | What is hard | What makes it correct |
|---|---|---|---|---|
| Outbox (`services/outbox.js`) | `wf.OutboxEvent` | enqueue, processOnce every 10 s | each UPDATE its own commit, failures of the failure record, overlapping ticks, crash | no event marked DONE undelivered; ending retries, bounded where calls do not overlap |
| Coupon reservations (`services/coupon-service.js`) | `wf.CouponReservation`, settlement rows, an in-memory lock | reserve, cancel, bind, settle, settle by hand | WINSpeed cuts behind its back; reads before locks; long transactions | no ton settled twice; open bills backed |
| Coupon matcher (`services/coupon-settlement-matcher.js`) | working copies of one run | match cuts to reservations | splits, ties, dates | a cut used once; oldest first |
| Rebate (`routes/rebate.js`, `so.js`, `draft-confirmation.js`) | ledger, usage, pool, claims, discounts | earn, spend, file, decide, apply, give back | four ways out of a bill; claims without links to the rows they cut | money conserved; each discount paid once |
| Weigh-out (`routes/so.js`, `scale-ship-sync.js`) | booking flags, weigh tickets, audit, plan | button, minute sync, recovery, cancel, unlock | all race with no lock before the commit; WINSpeed invoices by itself; stops between steps | one ticket, one accrual; answered means complete; a cancelled bill earns nothing |
| Confirmation (`routes/so.js`, `trips.js`, `draft-confirmation.js`) | drafts, trips, approvals, application locks | confirm bill or trip, replay, edit, move, decide, delete | stale reads, lock order, retries | booked once, as approved, trips whole, no deadlock |
| Edit and unlock requests (`edit-requests.js`, `truck-hold.js`) | requests, `IsUnlocked`, hold log, reasons | file, approve, reject, withdraw, manage reasons | every statement its own commit; approval after rejection; a hold written after its request ended | a decision stands; no truck on hold for an ended request |
| Claim and plan approval (`rebate.js`) | tiers and signatures of claims and plans | file, submit, approve, reject, edit, set | a plan's handlers run without a transaction | no tier skipped, nobody twice in a row, no signature under another text |
| Booking numbers (`winspeed-counter.js`, `draft-confirmation.js`) | counters shared with WINSpeed, a cached lookup | allocate, check, advance | WINSpeed takes numbers without a lock, staff switch books, unreadable counters | a number is issued once |
| Giveaways (`giveaway*.js`) | budgets, withdrawals, loans | check, withdraw, lend | unlocked sums over open drafts | promises stay within the budget |
| Quotations (`quotation.js`) | status, the two WINSpeed documents, sources | take, send, accept, cancel, convert | any status from any other; two handlers find or make the QC | no draft withheld by cancelled quotations; an accepted one is linked to the QC it must void |
| Native chain (`initial-*.js`) | receipts of 103, 104, 116, 107, requests for a 104 and a 116 | ask, approve, make, repeat | WINSpeed, the scale and other routes of the server change documents between two operations; lost answers | repeats are answered, changes of others never adopted, exceptions reviewed |
| Settings, target database (`policy-contract.js`, `active-database.js`) | settings, 30 s cache | change, read | stale caches | one database for one session |
| Roles (`role-policy-write.js`) | users, roles, members | change | mutual demotion | an administrator remains |
| Polling, sockets (`polling.js`) | last sample | sample, broadcast | samples that miss a change | a change is announced |
| Migrations (`run_migrations.js`) | ledger of checksums | plan, apply | two runners | a file applied once |

Components interact in four ways: through rows (a confirm reads the approval,
the trip and the rebate rows; a cancelled bill withdraws its reservations and
gives its rebate back), through application locks of SQL Server
(`ConfirmSO_<id>`, `ConfirmTrip_<id>`), through the in-memory lock of coupon
settlements, and through timers (outbox, scale sync, polling). WINSpeed and
the scale are external: the modules give them actions (a native cut, a weigh
record, a counter cancellation) that may happen at any time.

`PROJECT.json` lists every component with its status, and the hazards at their
lines; this README does not repeat them.

## 2. Modules

Common conventions. One action is one commit: a request that is one
transaction is one step, and a request that reads first and writes later is
several, with what it has read kept in a variable of the request. A failure
leaves what was committed. Rows keep the columns the properties tell apart;
amounts and tons are small naturals. Operators written as plausible bugs stand
just before the ones they replace, marked as mutants; each property fails when
its mutant is put in.

Modules whose instances share a run have names with a prefix of their own
(`Ob`, `Mt`, `Gq`, `Bn`, `Cl`, `Pl`, `Nc`, `Ed`, `Qt`), so that one MC module
can extend several of them. Such an MC module adds one variable (`part`, `way`,
`timer`) that says which of them moves in this behaviour; the others stay in
one initial state. They share no state as they are modelled, so nothing is
lost by that, and their states add up and do not multiply. Where two of them
have interchangeable values, they are given the same ones, so that one
permutation serves them all. `MCPromotions` joins CouponReservation,
GiveawayQuota and BookingNumbers; `MCRebates` CouponMatcher, RebateLedger,
ClaimApproval and PlanApproval; `MCBookings` Confirmation and EditRequests;
`MCShipment` Shipment and NativeChain; `MCTimers` Outbox and Shipment.

### Outbox, TimerProofs

`status`, `retry`, `createdAt` are the columns; `batch`, `point` say where a
call of `processOnce` is. `Enqueue` is the INSERT with its idempotency key,
`Poll` the SELECT TOP 10 in order of creation, `Claim` and `Finish` the two
UPDATEs, each of which may fail, applied or not (`UpdateError`);
`RecordFailure` is the catch block, which counts from the snapshot of the
batch, and `LoseFailure` the same with its own error swallowed. `Crash` stops
the process. `delivered` counts broadcasts and stops counting at one more than
the limit, and `shared` collects the events that two calls have had in their
batches at once, which nothing in the code prevents.

### CouponReservation, CouponProofs, MCPromotions

One coupon: `rema` is its balance in WINSpeed, lowered by `NativeCut`, which
writes a redemption row (`cutQty`) and tells nobody. `Reserve`,
`CancelReservation`, `KeyBill` (create or edit), `CancelBill` are transactions
under row locks. An automatic settlement is `ReadReservations` (which takes
the in-memory lock), `ReadCuts`, then one `SettleMatch` for each match and
`Commit` or `Rollback`; a manual one is `ManualRead` before the lock,
`ManualLock`, `ManualChoose`, `ManualWrite`. `open` holds what a rollback
puts back and whose rows are locked. Which reservation a cut goes to is left
open here: CutMatching says what any choice must respect, and CouponMatcher
is shown to implement it. Posting redemptions natively
(`COUPON_NATIVE_POSTING_ENABLED`, false by default) is left out.

### CouponMatcher and CutMatching, CouponProofs

CouponMatcher is the loop of `matchCutsToReservations`, one turn a step: the
stable sort by date (`ByDate`: the order of the rows is a bijection that puts
older days first and keeps rows of one day as they came), the candidates by
plate, go-live date and confirm date, the preference for an exact fit, the
ambiguous list, and the working copies it lowers. CutMatching is the abstract
specification: a step uses one cut once, for as much as it and its reservation
have left; of a cut that is larger only that part is charged, which rule 5 of
the file forbids (section 5). The refinement maps `left` to
`remainingReservedQty` and `uncut` to the quantity of the cuts not yet
matched.

### GiveawayQuota, LedgerProofs

One kind of giveaway, a budget line for each region, each of one salesperson
(`owner`) who may have several. A draft names no region: `StartSave` is the
check of a bill against a line of its salesperson, less what was withdrawn
there and what all other drafts of the salesperson promise; `region` is the
line the confirmation will draw on (TOP 1, no order); `Save` the commit of the
bill; saves of new bills of one book queue for its references, saves of other
books and of existing drafts do not. `ConfirmGift` writes the withdrawal and
checks nothing, `EndGift` removes it. `WithdrawByHand` may pass the budget,
`SetBudget` lower it, `Borrow` and `ApproveLoan` move it without counting
drafts. `overtaken` and `loosened` record where one of these took pieces
outside a save in its turn; `PromisesFit` speaks of the other regions whose
salesperson has no second one.

### RebateLedger, LedgerProofs

One customer, one pool. A bill earns one row when it ships (`Book`), which is
found again when the shipment is repeated. Claims cut rows when they are filed,
oldest first; rejecting puts back newest first, since nothing links a claim to
its rows. `ApplyClaim` turns an approved claim into a discount of a draft;
`Confirm` consumes the rest of the discount from the ledger and spends the
claim; `CancelBooking`, `CancelDraft` and `Delete` give back, or do not,
exactly as their routes do. The loops over rows are given by what they take
(`Spreads`): a row is touched only after the rows before it gave all, and
there is always exactly one way to do so (`RowsTakenOneWay`). Who may
decide a tier is ClaimApproval; the allocation of pools is left out, and each
bill has one line that accrues.

### Tiers, ClaimApproval, PlanApproval, ApprovalProofs

Tiers has the roles, the trail of signatures and what a status says of it.
ClaimApproval decides a claim in one transaction under an application lock;
PlanApproval decides a plan by handlers whose statements commit one by one:
`StartSubmit`, `Clear`, `InsertSign`, `Move`; `StartApprove`, `Check`,
`InsertSign`, `Move`; `StartReject`, `RejectPlan`; the edits and the manual
statuses. `Stop` ends a handler anywhere, which is a second read that refuses
or a crash. Two handlers of one plan may overlap, and what they then write
cannot be held to anything: `raced` records such plans.

### Shipment, TimerProofs

Bookings of one trip. A worker, a request (`Desk`) or a run of the sync
(`Run`), goes through `pc`: it reads (`AskShip`, `StartRun`, `NextOfRun`),
commits (`WeighOut`; `FindShipped` and `Refuse` are the other two ends of
`commitShipment`), then does the work after the commit (`SeeLedger`, `Book`,
`SeeAudit`, `NoteAudit`, `Deliver`), which `recoverPendingShipmentTasks`
repeats for a booking already shipped. `Status` is the CASE of
`v_AllSalesOrders`, where an invoice WINSpeed made by itself (`Invoice`) reads
SHIPPED like a weigh-out.
Cancellations and unlock approvals are workers too, because they read before
they write. `Fail` and `Restart` may hit between any two steps.
`crossed` records the bookings cancelled while a worker was shipping them.
PENDING_APPROVAL counts as CONFIRMED, and the outbox event is only none,
pending or done.

### NativeChain, NativeChainProofs

One booking with an AI number on its way through WINSpeed's own documents:
`ApproveBooking` (103), `AskDelivery`, `ApproveCredit`, `MakeDelivery` (104
with its coupon), `AskRedemption`, `ApproveRedemption`, `Redeem` (116),
`PostInvoice` (107). Each operation is one transaction under an application
lock; `EditBooking` and its three siblings are WINSpeed, `WeighTruck` the
scale, `CheckShip`, `Ship`, `AutoShip` the ways the server ships the booking
itself meanwhile. The rest of the application writes the 103 too, and its
fingerprint covers all columns: picking (`Pick`, `StopPick`), the hold of a
truck (`Hold`, `Release`), a cancelled quotation (`CancelQuote`), and edits
and cancellations, which look for a 104 first and write later (`AskChange`,
`Change`, with `late` in between). `marks` is what they have left in it;
`AsIssued` says that nothing of it shows in the columns. A fingerprint is the
content it was taken of. `Wait` lets a day pass, which changes the fingerprint
of a 104, and approvals lapse.

### Confirmation, ConfirmationProofs

Drafts with a revision of their prices, trips, approvals and the two kinds of
application locks. `AskBill` and `AskTrip` are what a request reads before its
transaction (and its replay); `LockTrip`, `LockDraft` take one lock each, in
the code's order; `CommitBill`, `CommitTrip` are the rest of the transaction,
which nobody sees before it commits. `Refuse` is any check that fails, a lock
timeout, an error or a server stop; the refused request may be sent again, any
number of times. `Create`, `EditPrice`, `EditTrip`,
`Delete`, `Decide` and `NewTrip` run at any moment in between. Not shown:
credit, giveaways, quotation and counter check (refusals), several approvals
for one draft, and natives in a trip.

### BookingNumbers, BookingProofs

The two books and their counters, wherever WINSpeed keeps them at the moment.
`CreateSlip` gives a draft a number above all it sees; `CheckNumber` is the
test at the confirmation, with a new number when the old one is gone,
`CommitNumber` the booking with the advance of the counter, forward only;
`Allocates` waits for the range of references a confirmation under way holds.
The advance needs the stored procedure, found once and remembered
(`cached`), by a lookup that may fail. `TakeNumber` and `SaveTaken` are
WINSpeed, which takes no lock. A counter that cannot be read counts as 0
(`Seen`). `unsure` and `behind` record the drafts whose confirmation could not
read the counter or was overtaken by WINSpeed, and the books left behind.

### EditRequests, BookingProofs, MCBookings

The handlers run without a transaction, so a call is at one of its statements:
`StartCreate`, `CheckDuplicate`, `Insert`, `WriteHold`, `LogHold`;
`StartApprove`, `ApproveRow`, `Unlock`; `Reject`; `StartCancel`, `CancelRow`;
then `Release` for a request with a hold. The reasons are changed by handlers
of the same kind. The scale (`Weigh`), WINSpeed (`Issue`, `StaffHold`), the
next confirm (`Relock`) and a crash come in between.

### Quotation, BookingProofs, MCQuotation

Orders (drafts, and native bookings, which restore by unlocking), quotations
with their sources, the quotation document in WINSpeed (102) and every
confirmation of it (113, the QC). A quotation takes orders it read before its
transaction (`StartTake`, `Take`), by bare numbers: a draft that happens to
have the number of a native booking is taken with it (`Named`, `SameNumber`).
Acceptance reads the link, then looks for an approved QC, then links what it
found or makes one (`StartAccept`, `LookForQC`, `Accept`); `CancelQuote` gives
sources back and voids the linked QC. A conversion by the number of WINSpeed
locks the quotation and looks for a live QC, approved or not, twice
(`StartConvert`, `FinishConvert`), or fails in between (`AbandonConvert`).
`StaffConfirm` and `StaffMark` are WINSpeed. Days of validity only refuse
steps and are left out, and so is what a NOLOCK read sees of a document not
committed yet.

## 3. Runs

| Run | Instance | Question | Answer |
|---|---|---|---|
| timers | outbox: 1 event and 2 calls that overlap, or 2 events and 1 call, limit 5, 1 crash; sync: 2 bookings, 1 run that lists one, 1 failure | do failures, lost replies, overlaps and a crash lose or repeat events, and is every good scale record closed? | written off never undelivered; at most 5 broadcasts unless two calls had the event in hand at once; retries end; closed, unless cancelled, unlocked, invoiced or kept off the list by bad older records |
| outbox_overlap | 1 event, 2 calls, limit 5 | is any event sent more than five times? | violated, see 5 |
| promotions | coupons: 2 reservations, 2 cuts, 2 calls, 2 bills, balance 3, tons to 2; giveaways: 2 bills, 2 regions with a salesperson each, 2 saves, 1 loan, amounts to 1; numbers: 2 drafts, suffixes to 2 | can settlements charge a ton twice, and what do bills and reservations promise each other? do promises stay within the budget? are numbers given out twice? | no, and both sides of the books agree; an open bill is backed, by reservations of its own; yes where nothing but saves in their turn took pieces; not unless WINSpeed could not be seen |
| coupon_stale | 2 reservations, 1 cut | are the promised tons there? | violated, see 5 |
| rebates | 3 bills, 2 claims, amounts to 2, share 50%; 1 claim and 1 plan to sign, 2 handlers, 3 people; matcher: 3 cuts, 2 reservations, days 1 to 3 with go-live at 2 | is money created or lost, and who signed? does the loop implement CutMatching, oldest cut first? | no, unless a row was reversed (below); the people the status needs, for this text; yes |
| rebate_gone | 3 bills, 2 claims | does every bill that goes give its rebate back? | violated, see 5 |
| rule_five | 1 cut, 1 reservation, tons to 2 | is a cut matched only to a reservation that holds it? | violated, see 5 |
| shipment | 1 booking, 2 requests, 1 sync run, and 1 failure or an invoice; chain: 2 people, 2 tickets, and 2 days with changes in WINSpeed, or one request of each kind with the other writes of the application | is a booking closed once and completely? do receipts hold? | once; answered SHIPPED means accrual, audit, event, and ticket or invoice; a cancelled booking earns nothing; receipts hold, and none is written where somebody changed a document |
| shipment_cancel | 1 booking, 1 request, 1 run | may a shipped bill be cancelled? | violated, see 5 |
| bookings | 2 drafts, 2 trips, 2 requests, 1 key, 2 revisions of one draft; requests: 2, with 2 calls, 2 users, 1 reason, 1 change of it, 1 crash | is a draft booked once, as approved, its trip whole, without standstill? does a decision stand, and does every hold end? | yes; yes, the hold unless a crash or a request that ended before its hold was written |
| confirm_as_read | the same with 3 trips | is a bill booked as its request read it? | violated, see 5 |
| quotations | 1 draft, 1 native booking, 2 quotations, 2 handlers, 1 QC; or a draft and a booking with one number, 1 quotation | does a cancelled quotation keep a draft, or leave the QC it is linked to? | no, and an accepted one has a link (below) |

Why the bounds are enough. Every race here is between two actors about one
row, so two requests, calls or claims show it; a third party appears where one
more role exists (a third trip for the residual of a confirm in
`confirm_as_read`, a third bill whose row is consumed by another bill's
discount and cut by a claim). Tons and amounts up to 2 give partial, exact and
excess matches; three units in the balance let a reservation be refused. The
retry limit of the outbox is the real one, the batch size too. One failure or
crash is enough because each is followed by the same recovery, from states
that a second one would only reach again. Giveaways are counted to 1: a budget
of one piece is passed by the second bill, which is the case; two regions lend
to each other. One QC for all quotations lets two handlers race for it, and
the second of two is the case of staff confirming in WINSpeed, which the bound
excludes once the first exists. Suffixes to 2 let each draft lose its number
once. In `bookings` two trips leave room for a move between them and for a
residual of one; the theorems of ConfirmationProofs hold for any number. In
`rebates` a CONSTRAINT (`Unraced`) ends behaviours where two handlers have
written one plan, of which the properties say nothing. The 50 records a run of
the sync lists are one here, fewer than the bookings, so that a bad record
does keep a good one off the list; the batch of ten rows of the outbox is
never full in the instance, and the proofs hold of any size of it. `shipment`
splits its behaviours (a failure or an invoice; WINSpeed's changes or the
application's own), since their product is too large; the proofs have no such
split, nor one between one row and one call of the outbox. `CHECK_DEADLOCK
FALSE` stands where all bounded work may be done; in `shipment` and
`shipment_cancel` something can always happen. Symmetry is used for
interchangeable model values, never in a run with a liveness property and
never for drafts, whose locks are ordered.

Fairness. Outbox: weak fairness of a call's steps, since the interval fires
again and each query is answered, and strong fairness of `Claim`: the database
does not refuse the same UPDATE for ever. Shipment: weak fairness of the sync,
which a minute timer starts and nothing abandons, and of a request that is
under way. `timers` assumes each only in behaviours where its module moves.
No fairness is assumed of users, WINSpeed, the scale or of any
failure or crash not to happen; only their number is bounded.

## 4. Proofs

All theorems hold for every value of the constants that meets the named
assumption of the module (finite sets, distinct null values, natural bounds).

The proofs have the same shape: an inductive invariant of named parts, a
lemma that every action keeps it, and temporal steps that only combine them.

* **Sums** holds what every proof about amounts rests on. The library defines
  a sum over a finite set by recursion on the set, and the provers cannot use
  an induction theorem, which takes a predicate as a parameter. The two
  inductions are therefore stated about sets (`NaturalsIn`: a set with 0 and
  the successor of each member has all naturals, by the well-founded order;
  `FinitesIn`: a family with {} that stays closed when an element is added has
  every finite set). From them follow that the recursion has one solution,
  that the order in which elements are added does not matter (`SumRemove`),
  and how a sum changes with one value (`SumChange`), with one element
  (`SumWith`), or by parts (`SumPlus`, `SumSplit`).
* **CouponProofs**, of three modules.
  *Settlement*: `TypeCorrect`, `SettledOnce`, `NeverOverconsumed`,
  `BooksAgree`, `BillsStayBacked`, `OneBillOnly`. The UPDATE of an automatic
  settlement tests nothing, so the bound is not inductive; the invariant
  states what the in-memory lock buys: only the holder is inside (`LockHeld`),
  what it saw as left is still left on both sides (`SeenSound`), the manual
  choice still fits its cut (`PickSound`), and a rollback puts back values
  within the bounds (`OpenSound`). The books agree because what a rollback
  puts back agrees with itself too (`Balanced`). Bills stay backed because a
  reservation on a line of an open bill names that bill as its carrier
  (`Carried`, which is also why it is on one bill only), and what a rollback
  would write back on it is no cancellation (`BackedBefore`).
  *Matcher*: `MatcherTyped`, `OldestFirst`, `MatcherImplements`. The invariant
  (`MtInv`) says that the waiting cuts are sorted and none is older than a
  visited one (`Sorted`), that an id names one cut (`OneById`), and that a
  visited cut neither used nor listed finds every reservation it could have
  gone to with no tons left (`PassedOver`), so that no later cut takes any.
  Each turn of the loop is a step of CutMatching or a stutter.
  *Both*: `SettlesByMatching`, that a transaction of the settlement begins and
  goes on as CutMatching does on the holder's copies. So the abstract
  matching lies between the two: the loop implements it, the settlement uses
  nothing else of it.
* **LedgerProofs**, of two modules. *Rebate*: `TypeCorrect`, that no
  subtraction of a row or the pool leaves the naturals, `NeverStranded`,
  `PoolAddsUp`, `RebateEarnedOnce`, `DiscountsPaidOnce`, `MoneyIsConserved`,
  and `RowsTakenOneWay`. The sums are inductive together (`MoneyInv`) with
  three facts beside them: a row never booked is `Blank`, a bill not yet
  created is `Fresh`, a claim on a bill was `Approved`. That a rejection finds
  room for all it must put back is not assumed: while no row is reversed,
  earned = left + used + claimed gives it, since the claim's own amount is
  part of what was claimed. `RowsTakenOneWay` is about the model itself: what
  a loop takes is given by its result, and the theorem says that for every
  amount there is one result. Two results that differ would differ on two
  rows, and the one that comes first gave all in both; a result for n + 1 is
  one for n with the first row that has more raised. It needs that each row
  has a place of its own (`Placed`) and that no discount is below its claims'
  part (`Covered`). *Giveaways*: `GiveawaysTyped`, `PromisesAlwaysFit`. The
  invariant (`GqInv`) counts promises of drafts and withdrawals of confirmed
  bills as one sum, so that a confirm moves nothing; a region that was not
  loosened has a salesperson of its own (`Alone`) and owes nothing
  (`NothingOwed`), and what a save in its turn has checked still fits when it
  writes (`CheckHolds`).
* **TimerProofs**, of two modules.
  *Outbox*: `OutboxTyped`; `NoEventWrittenOff`, DONE only after the broadcast,
  for any number of overlapping calls: the invariant adds that a call about to
  `Finish`, or whose UPDATE failed there, has delivered its row.
  `BroadcastBounded`, at most `MaxRetry` broadcasts of an event, holds for any
  number of calls of an event that no two of them have had in hand at once
  (`Alone`); the invariant (`BoundInv`) adds that such a row was, while it
  waits, sent at most as often as it records (`Tried`), that a batch holds each
  row once and with the count of the table (`BatchOnce`, `BatchFresh`), that
  only the row a call has in hand may be one broadcast ahead of its count
  (`InHand`), and that a row in two batches is no such row (`Apart`).
  *Shipment*: `ShipmentTyped`, `TicketOnce`, `AccruedOnce`,
  `AccruedWhenShipped`, `AnswerComplete`, `LostOnlyByFailure`,
  `CancelledEarns`. The invariant ties the ticket to the weigh-out
  (`Weighed`), the event to it (`Announced`), and each step of the recovery to
  what the steps before it left (`InOrder`), for a booking that has left or was
  invoiced (`Gone`). Once a booking was cancelled with nobody shipping it,
  nobody ever ships it (`AtRest`).
* **ApprovalProofs.** `ClaimsTyped`, `ClaimsSigned`, `PlansTyped`,
  `PlansSigned`, `PlansFresh`. For claims the invariant ties tier and status
  (`formTier` is the tier the status waits for) and bounds the trail by the
  tier reached. For plans it says of a handler that is not `stale` what it has
  established so far: after `Clear` the trail is empty, after `Check` somebody
  else signed last, after `InsertSign` the trail reaches its tier; a handler
  that is stale says nothing, and what it writes is `raced`.
* **NativeChainProofs.** `ChainTyped`, `RepeatsAreAnswered`,
  `ChangesAreNeverAdopted`, `ExceptionsAreReviewed`. The middle two rest on one
  idea: each receipt equals its document as the application left it, up to the
  one bit WINSpeed can flip, so a document that matches its receipt is an
  untouched one, and the other way round; the next operation writes document
  and receipt together. A receipt is checked with what the application itself
  has left in the 103 (`AsIssued`), which any of its other routes may do or
  undo at any time.
* **ConfirmationProofs.** `TypeCorrect`, `NeverTwice`, `ApprovedAsBooked`,
  `TripsWhole`, `AnswersTrue`, `BooksDraftsOnly` and `NeverAtAStandstill`. The
  invariant has two halves. `Owned` says who holds which lock: a request past
  `LockTrip` owns its trip, the drafts it owns are below all those it lacks.
  `Books` joins the four book properties to `Numbered` (a booked draft was
  created) and `KeyOfConfirmed` (a key is stored only by a confirm), which a
  replay rests on. For the standstill, suppose a set of requests each wait on
  a member: one of them owns a draft, the owner of a draft waits for a greater
  one, and a nonempty set of ids below `MaxId` has a greatest (`GreatestId`,
  from the well-founded order of the naturals).
* **BookingProofs**, of three modules. *Quotations*: `QuotationsTyped`,
  `DraftsAreGivenBack`, `AcceptedAreLinked`, `CancelledAreVoid`. The invariant
  ties the columns of a quotation to its QCs (`QuoteOK`: the link is one of
  them, or the exception of section 5 is there, a cancelled quotation's is
  void, a quotation not yet made names nothing) and says that the QC a handler
  has found is still there, cancelled perhaps (`FoundOK`), since no QC is ever
  removed. That a QC looked up as the last live one exists (`LastIsOne`) comes
  from the well-founded order of the naturals. *Numbers*: `NumbersTyped`,
  `NumbersIssuedOnce`. WINSpeed's numbers are not above its counter
  (`FromCounter`); the number of a draft that passed the check is one WINSpeed
  has not got, and after the confirmation the counter has passed it
  (`NumberOK`), each with the exceptions named in section 5. *Edit requests*:
  `RequestsTyped`, `OpenRequestsBounded`, `DecisionsStand`,
  `UnlockedForAnother`, `HoldsEnd`. An insert turns a call about to insert
  into an open request, so their sum is a cardinality that only
  `CheckDuplicate` raises, and only when no request is open; a call about to
  unlock is `Entitled`, its request decided and somebody else's, and every
  kind of step leaves ended rows alone (`RowsStep`). For the hold the
  invariant (`HoldOK`) speaks of behaviours without a fault: a call about to
  write or log a hold works on an open request (`HoldsOpen`), a hold not yet
  in the log has a call about to log it (`HoldIsLogged`), and a hold has
  somebody to end it, an open request or a handler on its way to the release
  (`SomebodyEndsIt`).

Every invariant a passing run checks is a theorem, and so are its action
properties and the refinement. Proved and in no run: the type invariants of
most modules, `ConsumedWithinReserved`, `AccrualOnlyWhenShipped`,
`BooksOnlyDrafts`, `UnlockedByAnother`, the steps of `SettlesByMatching` and
`LoopsTakeOneWay`.

Only model-checked: liveness (`QueueDrains`, `ScaleClosesBooking`), since
neither fairness nor ENABLED is within the prover's reach. The exceptions a
property carries (section 5) are part of its theorem.

## 5. Where code and text disagree

Each is a run whose property TLC violates; `PROJECT.json` quotes the text.

* `coupon_stale`: "Fetch active reservations with lock" reads with NOLOCK,
  before the transaction. A reservation cancelled in between is charged for the
  cut of another truck, whose tons are then nowhere.
* `rebate_gone`: deleting an unlocked booking cancels it without
  `releaseRebateOnCancel`; what it consumed and the claim it spent stay away.
* `shipment_cancel`: a cancellation writes on the status its route read before
  the transaction, so a booking weighed out meanwhile is cancelled.
* `confirm_as_read`: a bill confirm passes the trip and the revision of a row
  of `wf.v_AllSalesOrders`, which has neither column; both comparisons in
  `confirmDraft` are skipped, and a draft moved into a trip, or repriced,
  meanwhile is booked alone and unseen. Booking at an approved price and
  booking once still hold.

* `outbox_overlap`: "retry, at most 5 times" is counted from the row as the
  batch of a call read it. The interval starts a call whether or not the last
  one has returned; two calls that fail on one row count two failures as one,
  and the event is broadcast a sixth time.
* `rule_five`: "Cut quantity <= remaining reserved". A cut with one candidate is
  never compared with what that one has left; the reservation is charged
  for the part it has, and the rest of the cut stays unsettled, until a later
  run finds another reservation of the same truck for it.

Some properties that hold carry an exception, which is the code's own limit:

* `MoneyConserved` speaks of ledgers without reversed rows: a claim cut from a
  row that is reversed later and then rejected is put back on other rows.
  `EarnedOnce` holds in part because an unlock for an edit reverses a shipped
  bill's row and nothing ever books it again.
* `NumberIssuedOnce` excepts drafts whose confirmation could not read the
  counter or had WINSpeed take a number between check and commit, and books
  whose counter could not be advanced for want of the procedure.
* `PromisesFit` excepts regions where two saves overlapped in different books,
  or a budget was lent or lowered, or a withdrawal was written by hand, and the
  regions of a salesperson who has several: the check takes the line of
  the salesperson that its query returns first, so does the confirmation, and
  neither query has an order: the withdrawal may be from a line other than the
  one that was checked (against the comment U-4 in
  `draft-confirmation.js:238`). A bill confirmed in the year after its check
  finds other lines or none; the year is left out, and with it the lines
  `POST /budgets` leaves without a salesperson.
* `DeliveriesBounded` excepts events two calls had in hand at once
  (`outbox_overlap`).
* `ScaleClosesBooking` excepts bookings whose record is kept off the list by as
  many older ones as it holds (`Starved`): a record that does not check out, or
  that is of a booking WINSpeed invoiced, is listed again every minute, and 50
  of them stop the sync until somebody clears one.
* `CancelledEarnsNothing` excepts bookings cancelled while a worker was shipping
  them (`crossed`): nothing between the weigh-out and the rebate looks whether
  the booking still stands. `AnsweredIsComplete` promises no weigh ticket for a
  booking WINSpeed has invoiced: the ship button answers SHIPPED and books its
  rebate without one.
* `RepeatsVerify` excepts bookings whose 103 another route has changed since:
  one that was picked, held, edited, cancelled, or reopened by a cancelled
  quotation after its 104 was made reads as changed in WINSpeed, until that is
  undone. A hold cannot be asked for after a 104 today, since it needs an open
  weighing and the 104 needs none; its release can.
* `AcceptedIsLinked` excepts a quotation converted by the number of WINSpeed
  whose QC was cancelled there between the two looks. `CancelledVoidsQC` says
  nothing of a second QC that no quotation is linked to, and the run has one QC.
  `WithheldByQuotation` holds of drafts taken by mistake too: one with the
  number of a native booking that is quoted is withheld with it, whoever its
  customer is, and given back with it.
* `OldestCutFirst` speaks of cuts of different days: those of one day come in
  the order of a query that asks for none.
* `HoldEndsWithRequest` excepts a crash between the statements of a handler,
  and a request that ends while its hold is still being written: the hold then
  stays on the truck.
* `PlanSigned` and `SignaturesFresh` except plans two handlers wrote at once.
* `OneForEachCall` bounds the open requests of a booking by the calls that
  overlap; the message of the route speaks of one.

## 6. Plan

Done: everything in section 2.

Left, in this order:

1. Trips: truck, plate and stops, and the parsing of what the scale sends; the
   load plan of Shipment with several trips.
2. ActiveDatabase (the setting each process caches), RolePolicy (an
   administrator must remain), Polling (what a client misses between two
   samples), Migrations (two runners): small modules.
3. The native posting of coupons, behind its switch.
4. ClaimApproval's `ApproveClaim` and `RejectClaim` as a refinement of the
   steps of RebateLedger, checked and proved.

## 7. Not modelled

The client, reports, master data, exports, printing, logs, deployment and test
scripts keep no shared state that one request could spoil for another: they
read, or write one row by one statement. They are most of the lines of the
repository, so the modules cover the core and not the bulk of it. Stock,
reconciliation and incidents
are single keyed statements. Sign-in, tokens and permissions decide who may
send a request, not what it does; the modules let anybody send any, except
where the person is the point (tiers, requests to unlock, native documents).
Of the SQL schema, the procedure and the view that the confirm calls are
modelled where they are called. `PROJECT.json` gives the reason for each.

## 8. Running

    tlc -workers 2 -config MCShipment.cfg MCShipment
    tlapm TimerProofs.tla

The passing runs take two to four minutes each on two cores; the runs that
find a violation end within seconds.
