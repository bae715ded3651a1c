------------------------------ MODULE Shipment ------------------------------
(***************************************************************************)
(* Bookings of one trip from the confirm to the weigh-out: the warehouse's *)
(* button (routes/so.js PATCH /:id/ship), the sync that closes a booking   *)
(* from the scale (services/scale-ship-sync.js), the cancellation and the  *)
(* approval of an unlock request, running against each other.              *)
(*                                                                         *)
(* A request or a sync run reads, then writes in a transaction, then does  *)
(* the work that follows the commit; each database call is a step, and any *)
(* of them may fail or the server stop.  Only the transactions lock.       *)
(*                                                                         *)
(* A booking has one line that accrues rebate.  PENDING_APPROVAL passes    *)
(* every guard here that CONFIRMED passes, and is counted as CONFIRMED.    *)
(* WinSpeed's own sales order (104) is left out.                           *)
(***************************************************************************)
EXTENDS Naturals, FiniteSets

CONSTANTS
    Bill,           \* bookings (103) of the trip
    Desk,           \* requests the server handles at the same time
    Run,            \* runs of the sync that may overlap
    NoBill,
    Limit,          \* what one run lists at most (50 in the code)
    MaxFailures     \* bound: failed steps and server stops

ASSUME ShipmentAssumption ==
    /\ IsFiniteSet(Bill) /\ NoBill \notin Bill
    /\ Desk \cap Run = {}
    /\ {Limit, MaxFailures} \subseteq Nat

Worker == Desk \cup Run

VARIABLES
    cancelled, weighedOut,  \* DocuStatus = 'C'; WeighOutWeight is set
    loaded, picking, unlocked,  \* IsLoaded, PkgStatus = 'Y', IsUnlocked
    tickets,        \* DONE rows of wf.WeighTicket
    rows,           \* rows of wf.RebateLedger
    live,           \* one of them is not reversed
    audits,         \* SHIPPED rows of wf.SalesOrderAudit
    outbox,         \* the SO_SHIPPED event
    plan,           \* LoadPlanStatus of the trip
    scale,          \* place of its scale record in the order of WGHD.Id, or 0
    wrong,          \* those whose record does not check out
    invoiced,       \* those WinSpeed has made an invoice for (107, 202)
    pc, at, via,    \* of a worker: its next step, its booking, its evidence
    todo,           \* of a run: what it listed and has not looked at yet
    answered,       \* bookings a ship request has been answered SHIPPED for
    crossed,        \* bookings cancelled while a worker was shipping them
    failures

board == <<cancelled, weighedOut, loaded, picking, unlocked>>
work == <<rows, live, audits>>
worker == <<pc, at, via, todo>>
world == <<plan, scale, wrong, invoiced>>
log == <<answered, crossed>>
vars == <<board, tickets, work, outbox, world, worker, log, failures>>

Steps == {"idle", "next", "commit", "ledger", "book", "audit", "note",
          "deliver", "reverse", "cancel", "unpick", "unlock"}
Recovery == {"ledger", "book", "audit", "note", "deliver"}

Init ==
    /\ cancelled = {} /\ weighedOut = {} /\ loaded = {}
    /\ picking = {} /\ unlocked = {}
    /\ tickets = [b \in Bill |-> 0]
    /\ rows = [b \in Bill |-> 0]
    /\ live = {}
    /\ audits = [b \in Bill |-> 0]
    /\ outbox = [b \in Bill |-> "none"]
    /\ plan = "none"
    /\ scale = [b \in Bill |-> 0] /\ wrong = {} /\ invoiced = {}
    /\ pc = [w \in Worker |-> "idle"]
    /\ at = [w \in Worker |-> NoBill]
    /\ via = [w \in Worker |-> "none"]
    /\ todo = [r \in Run |-> {}]
    /\ answered = {} /\ crossed = {}
    /\ failures = 0

-----------------------------------------------------------------------------
Status(b) ==
    LET out == weighedOut \cup invoiced
    IN  CASE b \in cancelled -> "CANCELLED"
          [] b \in out \ cancelled -> "SHIPPED"
          [] b \in loaded \ (cancelled \cup out) -> "LOADED"
          [] b \in picking \ (cancelled \cup out \cup loaded) -> "PICKING"
          [] b \in unlocked \ (cancelled \cup out \cup loaded \cup picking) ->
                "DRAFT"
          [] OTHER -> "CONFIRMED"

Scaled(b) == scale[b] > 0

PlanStands == plan # "SALE_CONFIRMED"

Go(w, step, b, how) ==
    /\ pc' = [pc EXCEPT ![w] = step]
    /\ at' = [at EXCEPT ![w] = b]
    /\ via' = [via EXCEPT ![w] = how]
    /\ UNCHANGED todo

Then(w, step) == Go(w, step, at[w], via[w])

\* A request ends; a run goes on with the next booking of its list.
Rest(w) == Go(w, IF w \in Run THEN "next" ELSE "idle", NoBill, "none")

At(w, step) == pc[w] = step /\ at[w] \in Bill

-----------------------------------------------------------------------------
\* The road to the weigh-out, one request each.
StartPicking(b) ==
    /\ Status(b) = "CONFIRMED"
    /\ picking' = picking \cup {b}
    /\ UNCHANGED <<cancelled, weighedOut, loaded, unlocked, tickets, work,
                   outbox, world, worker, log, failures>>

Load(b) ==
    /\ Status(b) = "PICKING"
    /\ loaded' = loaded \cup {b}
    /\ UNCHANGED <<cancelled, weighedOut, picking, unlocked, tickets, work,
                   outbox, world, worker, log, failures>>

StopPicking(b) ==
    /\ Status(b) = "PICKING"
    /\ picking' = picking \ {b}
    /\ live' = live \ {b}
    /\ UNCHANGED <<cancelled, weighedOut, loaded, unlocked, tickets, rows,
                   audits, outbox, world, worker, log, failures>>

\* An edit request approved, and the confirm that ends the edit.
ApproveEdit(b) ==
    /\ unlocked' = unlocked \cup {b}
    /\ UNCHANGED <<cancelled, weighedOut, loaded, picking, tickets, work,
                   outbox, world, worker, log, failures>>

Relock(b) ==
    /\ b \in unlocked
    /\ unlocked' = unlocked \ {b}
    /\ UNCHANGED <<cancelled, weighedOut, loaded, picking, tickets, work,
                   outbox, world, worker, log, failures>>

PlanLoad ==
    /\ plan' = "SALE_CONFIRMED"
    /\ UNCHANGED <<board, tickets, work, outbox, scale, wrong, invoiced, worker,
                   log, failures>>

AckLoad ==
    /\ plan = "SALE_CONFIRMED"
    /\ plan' = "WAREHOUSE_ACK"
    /\ UNCHANGED <<board, tickets, work, outbox, scale, wrong, invoiced, worker,
                   log, failures>>

\* The scale weighs the truck out; the record checks out or it does not.
Weigh(b) ==
    /\ ~ Scaled(b)
    /\ scale' = [scale EXCEPT ![b] = 1 + Cardinality({c \in Bill : Scaled(c)})]
    /\ wrong' \in {wrong, wrong \cup {b}}
    /\ UNCHANGED <<board, tickets, work, outbox, plan, invoiced, worker, log,
                   failures>>

\* WinSpeed invoices the booking without this server: it reads SHIPPED from
\* then on, weighed out or not.
Invoice(b) ==
    /\ b \notin invoiced
    /\ invoiced' = invoiced \cup {b}
    /\ UNCHANGED <<board, tickets, work, outbox, plan, scale, wrong, worker,
                   log, failures>>

-----------------------------------------------------------------------------
Shipped(b) == Status(b) = "SHIPPED"

RecoverPart == "audit"                                          \* a mutant
RecoverFrom == "ledger"

\* PATCH /:id/ship up to its transaction.  A booking already shipped goes to
\* the recovery; a manager may overrule the scale or ship without it.
AskShip(w, b) ==
    /\ pc[w] = "idle"
    /\ \/ Status(b) \in {"LOADED", "SHIPPED"}
       \/ Scaled(b) /\ Status(b) \in {"CONFIRMED", "PICKING"}
    /\ \/ Shipped(b) /\ Go(w, RecoverFrom, b, "none")
       \/ /\ ~ Shipped(b)
          /\ Scaled(b) \/ PlanStands
          /\ \E how \in {"scale", "manager"} :
                /\ how = "scale" => Scaled(b)
                /\ Go(w, "commit", b, how)
    /\ UNCHANGED <<board, tickets, work, outbox, world, log, failures>>

\* findPendingScaleEvents: the oldest records of bookings that look open.
Pending(b) == Scaled(b) /\ b \notin weighedOut \cup cancelled \cup unlocked

Older(b, among) == {c \in among : scale[c] < scale[b]}

Listed ==
    LET open == {b \in Bill : Pending(b)}
    IN  {b \in open : Cardinality(Older(b, open)) < Limit}

StartRun(r) ==
    /\ pc[r] = "idle" /\ Listed # {}
    /\ todo' = [todo EXCEPT ![r] = Listed]
    /\ pc' = [pc EXCEPT ![r] = "next"]
    /\ UNCHANGED <<board, tickets, work, outbox, world, at, via, log,
                   failures>>

\* A record that does not check out leaves an incident; autoShipFromScale
\* reads the status before it commits.
LooksLoaded(b) == Status(b) = "LOADED"                          \* a mutant
LooksOpen(b) == Status(b) \in {"CONFIRMED", "PICKING", "LOADED"}

NextOfRun(r) ==
    /\ pc[r] = "next"
    /\ \E b \in todo[r] :
          /\ Older(b, todo[r]) = {}
          /\ todo' = [todo EXCEPT ![r] = @ \ {b}]
          /\ IF b \notin wrong /\ LooksOpen(b)
             THEN /\ pc' = [pc EXCEPT ![r] = "commit"]
                  /\ at' = [at EXCEPT ![r] = b]
                  /\ via' = [via EXCEPT ![r] = "sync"]
             ELSE UNCHANGED <<pc, at, via>>
    /\ UNCHANGED <<board, tickets, work, outbox, world, log, failures>>

EndRun(r) ==
    /\ pc[r] = "next" /\ todo[r] = {}
    /\ Go(r, "idle", NoBill, "none")
    /\ UNCHANGED <<board, tickets, work, outbox, world, log, failures>>

\* commitShipment, under the locks of the booking and the trip.
NotLooking(b) == b \in {}                                       \* a mutant
Already(b) == b \in weighedOut \/ tickets[b] > 0

AckHolds(how) == how = "manager" => PlanStands

SkipRebate(w) == IF w \in Run THEN "audit" ELSE "ledger"        \* a mutant
AfterCommit(w) == "ledger"

WeighOut(w) ==
    /\ At(w, "commit")
    /\ ~ Already(at[w]) /\ AckHolds(via[w])
    /\ weighedOut' = weighedOut \cup {at[w]}
    /\ tickets' = [tickets EXCEPT ![at[w]] = @ + 1]
    /\ outbox' = [outbox EXCEPT ![at[w]] = IF @ = "none" THEN "PENDING" ELSE @]
    /\ Then(w, AfterCommit(w))
    /\ UNCHANGED <<cancelled, loaded, picking, unlocked, work, world,
                   log, failures>>

\* Another request was first: the button recovers its work, a run leaves it.
AfterLost(w) == IF w \in Run THEN "leave" ELSE "recover"

FindShipped(w) ==
    /\ At(w, "commit") /\ Already(at[w])
    /\ \/ AfterLost(w) = "recover" /\ Then(w, "ledger")
       \/ AfterLost(w) = "leave" /\ Rest(w)
    /\ UNCHANGED <<board, tickets, work, outbox, world, log, failures>>

Refuse(w) ==
    /\ At(w, "commit") /\ ~ Already(at[w]) /\ ~ AckHolds(via[w])
    /\ Rest(w)
    /\ UNCHANGED <<board, tickets, work, outbox, world, log, failures>>

-----------------------------------------------------------------------------
\* recoverPendingShipmentTasks: the rebate, the audit rows, the event.
SeeLedger(w) ==
    /\ At(w, "ledger")
    /\ Then(w, IF rows[at[w]] = 0 THEN "book" ELSE "audit")
    /\ UNCHANGED <<board, tickets, work, outbox, world, log, failures>>

\* bookRebateAccrual looks again under a range lock.
AsSeen(b) == b \in Bill                                         \* a mutant
Unbooked(b) == rows[b] = 0

Book(w) ==
    /\ At(w, "book")
    /\ IF Unbooked(at[w])
       THEN /\ rows' = [rows EXCEPT ![at[w]] = @ + 1]
            /\ live' = live \cup {at[w]}
       ELSE UNCHANGED <<rows, live>>
    /\ Then(w, "audit")
    /\ UNCHANGED <<board, tickets, audits, outbox, world, log, failures>>

SeeAudit(w) ==
    /\ At(w, "audit")
    /\ Then(w, IF audits[at[w]] = 0 THEN "note" ELSE "deliver")
    /\ UNCHANGED <<board, tickets, work, outbox, world, log, failures>>

NoteAudit(w) ==
    /\ At(w, "note")
    /\ audits' = [audits EXCEPT ![at[w]] = @ + 1]
    /\ Then(w, "deliver")
    /\ UNCHANGED <<board, tickets, rows, live, outbox, world, log,
                   failures>>

Deliver(w) ==
    /\ At(w, "deliver")
    /\ outbox' = [outbox EXCEPT ![at[w]] =
                    CASE @ = "none" -> "PENDING"
                      [] @ = "PENDING" -> "DONE"
                      [] OTHER -> @]
    /\ answered' = IF w \in Desk THEN answered \cup {at[w]} ELSE answered
    /\ Rest(w)
    /\ UNCHANGED <<board, tickets, work, world, crossed, failures>>

\* The outbox worker, which only broadcasts.
DeliverEvent(b) ==
    /\ outbox[b] = "PENDING"
    /\ outbox' = [outbox EXCEPT ![b] = "DONE"]
    /\ UNCHANGED <<board, tickets, work, world, worker, log, failures>>

-----------------------------------------------------------------------------
\* PATCH /:id/cancel, and a cancel or an edit request approved: the status is
\* read before the writes, and read for a cancellation only.
MayCancel(b) == Status(b) \notin {"SHIPPED", "CANCELLED"}

AskCancel(w, b) ==
    /\ pc[w] = "idle" /\ MayCancel(b)
    /\ Go(w, "cancel", b, "none")
    /\ UNCHANGED <<board, tickets, work, outbox, world, log, failures>>

ApproveRequest(w, b) ==
    /\ pc[w] = "idle"
    /\ \E type \in {"EDIT", "CANCEL"} :
          /\ type = "CANCEL" => MayCancel(b)
          /\ Go(w, "reverse", b, type)
    /\ UNCHANGED <<board, tickets, work, outbox, world, log, failures>>

Reverse(w) ==
    /\ At(w, "reverse")
    /\ live' = live \ {at[w]}
    /\ Then(w, IF via[w] = "CANCEL" THEN "cancel" ELSE "unpick")
    /\ UNCHANGED <<board, tickets, rows, audits, outbox, world, log,
                   failures>>

Shipping(w, b) == at[w] = b /\ pc[w] \in {"commit"} \cup Recovery

KeepAccrual(b) == live                                          \* a mutant
ReverseAccrual(b) == live \ {b}

\* cancelBillInTx
Cancel(w) ==
    /\ At(w, "cancel")
    /\ live' = ReverseAccrual(at[w])
    /\ cancelled' = cancelled \cup {at[w]}
    /\ crossed' = IF \E v \in Worker : Shipping(v, at[w])
                  THEN crossed \cup {at[w]} ELSE crossed
    /\ Rest(w)
    /\ UNCHANGED <<weighedOut, loaded, picking, unlocked, tickets, rows,
                   audits, outbox, world, answered, failures>>

Unpick(w) ==
    /\ At(w, "unpick")
    /\ picking' = picking \ {at[w]}
    /\ Then(w, "unlock")
    /\ UNCHANGED <<cancelled, weighedOut, loaded, unlocked, tickets, work,
                   outbox, world, log, failures>>

Unlock(w) ==
    /\ At(w, "unlock")
    /\ unlocked' = unlocked \cup {at[w]}
    /\ Rest(w)
    /\ UNCHANGED <<cancelled, weighedOut, loaded, picking, tickets, work,
                   outbox, world, log, failures>>

-----------------------------------------------------------------------------
\* A database call of a worker fails: the request answers an error, the run
\* logs it and goes on.  Or the server stops.
Fail(w) ==
    /\ at[w] \in Bill /\ failures < MaxFailures
    /\ failures' = failures + 1
    /\ Rest(w)
    /\ UNCHANGED <<board, tickets, work, outbox, world, log>>

Restart ==
    /\ failures < MaxFailures
    /\ failures' = failures + 1
    /\ pc' = [w \in Worker |-> "idle"]
    /\ at' = [w \in Worker |-> NoBill]
    /\ via' = [w \in Worker |-> "none"]
    /\ todo' = [r \in Run |-> {}]
    /\ UNCHANGED <<board, tickets, work, outbox, world, log>>

Counter(b) ==
    \/ StartPicking(b) \/ Load(b) \/ StopPicking(b)
    \/ ApproveEdit(b) \/ Relock(b) \/ Weigh(b) \/ Invoice(b) \/ DeliverEvent(b)

Ask(w, b) == AskShip(w, b) \/ AskCancel(w, b) \/ ApproveRequest(w, b)

Proceed(w) ==
    \/ WeighOut(w) \/ FindShipped(w) \/ Refuse(w)
    \/ SeeLedger(w) \/ Book(w) \/ SeeAudit(w) \/ NoteAudit(w) \/ Deliver(w)
    \/ Reverse(w) \/ Cancel(w) \/ Unpick(w) \/ Unlock(w)

Sync(r) == StartRun(r) \/ NextOfRun(r) \/ EndRun(r) \/ Proceed(r)

Next ==
    \/ \E b \in Bill : Counter(b)
    \/ PlanLoad \/ AckLoad
    \/ \E w \in Desk, b \in Bill : Ask(w, b)
    \/ \E w \in Desk : Proceed(w)
    \/ \E r \in Run : Sync(r)
    \/ \E w \in Worker : Fail(w)
    \/ Restart

Spec == Init /\ [][Next]_vars

\* The timer fires every minute and a run is not abandoned, nor a request.
Fairness ==
    /\ \A r \in Run : WF_vars(Sync(r))
    /\ \A w \in Desk : WF_vars(Proceed(w))
FairSpec == Spec /\ Fairness

-----------------------------------------------------------------------------
\* The values the state can take: a worker has a booking exactly while one of
\* its steps is about a booking.
TypeOK ==
    /\ cancelled \subseteq Bill /\ weighedOut \subseteq Bill
    /\ loaded \subseteq Bill /\ picking \subseteq Bill /\ unlocked \subseteq Bill
    /\ tickets \in [Bill -> Nat]
    /\ rows \in [Bill -> Nat]
    /\ live \subseteq Bill
    /\ audits \in [Bill -> Nat]
    /\ outbox \in [Bill -> {"none", "PENDING", "DONE"}]
    /\ plan \in {"none", "SALE_CONFIRMED", "WAREHOUSE_ACK"}
    /\ scale \in [Bill -> Nat] /\ wrong \subseteq Bill /\ invoiced \subseteq Bill
    /\ pc \in [Worker -> Steps]
    /\ at \in [Worker -> Bill \cup {NoBill}]
    /\ via \in [Worker -> {"none", "scale", "manager", "sync", "EDIT", "CANCEL"}]
    /\ todo \in [Run -> SUBSET Bill]
    /\ \A w \in Worker : at[w] = NoBill <=> pc[w] \in {"idle", "next"}
    /\ answered \subseteq Bill /\ crossed \subseteq Bill
    /\ failures \in 0..MaxFailures

\* The button, its retries and overlapping runs of the sync write one weigh
\* ticket for a booking (commitShipment's second look under its locks).
OneTicket == \A b \in Bill : tickets[b] <= 1

\* They book its rebate once, although each looks for the ledger row long
\* before it books (bookRebateAccrual's second look).
OneAccrual == \A b \in Bill : rows[b] <= 1

\* Rebate is earned by goods that have left, or that WinSpeed has invoiced,
\* never by a booking that only looked as if it had.
AccrualOnlyWhenShipped ==
    \A b \in Bill : rows[b] > 0 => b \in weighedOut \cup invoiced

\* When a ship request is answered SHIPPED, whoever shipped the booking and
\* whatever failed before, the rebate, the audit row and the event are there,
\* and the weigh ticket unless WinSpeed has invoiced the booking.
AnsweredIsComplete ==
    \A b \in answered :
        /\ rows[b] > 0 /\ audits[b] > 0 /\ outbox[b] # "none"
        /\ \/ b \in weighedOut /\ tickets[b] > 0
           \/ b \in invoiced

\* A run of the sync that lost the race leaves the booking to the winner:
\* work is missing only while somebody is at it, or after a failure.
OnlyFailureLosesWork ==
    \A b \in weighedOut :
        rows[b] = 0 \/ audits[b] = 0 =>
            \/ failures > 0
            \/ \E w \in Worker : at[w] = b /\ pc[w] \in Recovery

\* A cancelled booking keeps no rebate it earned, unless a worker was already
\* shipping it when it was cancelled: commitShipment and bookRebateAccrual do
\* not look whether the booking still stands.
CancelledEarnsNothing == \A b \in cancelled \cap live : b \in crossed

\* The record of c is older than that of b and is not closed by a run: it does
\* not check out, or WinSpeed closed the booking, or it is open for an edit.
StaysBefore(c, b) ==
    /\ Scaled(c) /\ scale[c] < scale[b]
    /\ c \notin weighedOut \cup cancelled
    /\ c \in wrong \cup invoiced \cup unlocked

\* As many such records as a run lists come back again and again.
Starved(b) ==
    \E S \in SUBSET (Bill \ {b}) :
        Cardinality(S) = Limit /\ \A c \in S : []<>StaysBefore(c, b)

Closed(b) == b \in weighedOut \cup cancelled \cup unlocked \cup invoiced

\* A booking the scale weighed out with a good record is closed by itself
\* (the header of scale-ship-sync.js), unless it is cancelled or opened for
\* an edit or WinSpeed is first, or as many older records as a run lists, none
\* of which a run can close, keep it off the list for ever.
ScaleClosesBooking ==
    \A b \in Bill :
        Starved(b) \/ (Scaled(b) /\ b \notin wrong ~> Closed(b))

\* unlock-cancel-native.test.js: "a shipped bill is not cancelled by an old
\* request".
ShippedIsNotCancelled ==
    [][\A b \in weighedOut \ cancelled : b \notin cancelled']_vars
=============================================================================
