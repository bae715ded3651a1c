---------------------------- MODULE NativeChain ----------------------------
(***************************************************************************)
(* One booking on its way through WinSpeed's own documents, written by the *)
(* application: the approval of the sales order (103) with an AI number,   *)
(* the delivery order (104) with its coupon, the redemption (116) and the  *)
(* invoice (107).                                                          *)
(*                                                                         *)
(* Every operation is one transaction under an application lock, so it is  *)
(* one step here.  WinSpeed and the scale take no such lock: they change   *)
(* the documents and the weights between two operations.  The application  *)
(* notices through fingerprints it kept in its receipts; here a            *)
(* fingerprint is the content itself.                                      *)
(*                                                                         *)
(* An operation is refused unless the caller sends the fingerprint of this *)
(* moment, so what the caller saw is not state.  The date stands for all   *)
(* else the fingerprint of a 104 covers (credit, options, period).  Acting *)
(* for somebody else, the number series and the uniqueness of slip numbers *)
(* are left out.                                                           *)
(*                                                                         *)
(* The rest of the application goes on writing the 103: the warehouse, the *)
(* edit requests, the hold of a truck, cancellations.  Each of these asks  *)
(* for what it needs and writes later, and none looks at the receipts.     *)
(***************************************************************************)
EXTENDS Naturals, FiniteSets

CONSTANTS
    Creator,    \* people who may ask for a 104 or 116 and make it
    Reviewer,   \* managers
    Accountant, \* people who approve credit and post invoices
    Ticket,     \* ids of requests
    MaxDay      \* bound: the last business day

Person == Creator \cup Reviewer \cup Accountant

ASSUME ChainAssumption == MaxDay \in Nat /\ IsFiniteSet(Ticket)

VARIABLES
    booking, delivery, redemption, invoice,     \* the documents
    approved,           \* wf.NativeBookingApproval has the booking's receipt
    deliveryReceipt, redemptionReceipt, invoiceReceipt,
    credit, cut,        \* rows of the requests for a 104 and for a 116
    marks,              \* what else the application has made of the 103
    late,               \* a request about the 103 past its checks, or "none"
    weights,            \* the scale record of the booking
    day,
    shipping, shipped   \* a ship request past its check; WeighOutWeight

documents == <<booking, delivery, redemption, invoice>>
receipts == <<approved, deliveryReceipt, redemptionReceipt, invoiceReceipt>>
requests == <<credit, cut>>
own == <<marks, late>>
yard == <<weights, shipping, shipped>>
ncVars == <<documents, receipts, requests, own, yard, day>>

None == [status |-> "NONE"]

\* A document as its fingerprint sees it: whether somebody changed it in
\* WinSpeed, and how far the application itself has taken it.
Doc(state) == [edited |-> FALSE, state |-> state]

\* The booking as captureBookingOrigin saw it when it was confirmed.
Origin == Doc("confirmed")

Edited(d) == d # None /\ d.edited

\* Columns of the 103 that differ from what the documents' own operations
\* write: PkgStatus, OnHold, DocuStatus, and the order itself.
Columns == {"picked", "held", "reopened", "cancelled", "rewritten"}

\* Beside them: IsUnlocked, and an audit row of a change that the procedures
\* refuse a booking for.
Marks == Columns \cup {"unlocked", "handled"}

\* Nothing but the documents' own operations shows in the 103.
AsIssued == marks \cap Columns = {}

NcInit ==
    /\ booking = Origin
    /\ delivery = None /\ redemption = None /\ invoice = None
    /\ approved = FALSE
    /\ deliveryReceipt = None /\ redemptionReceipt = None
    /\ invoiceReceipt = None
    /\ credit = [t \in Ticket |-> None]
    /\ cut = [t \in Ticket |-> None]
    /\ marks = {} /\ late = "none"
    /\ weights = "none"
    /\ day = 0
    /\ shipping = FALSE /\ shipped = FALSE

-----------------------------------------------------------------------------
\* Requests: one is active at a time; its owner may replace it by a new one.
Open == {"PENDING", "APPROVED", "LAPSED"}

Superseded(rows) ==
    [t \in Ticket |->
        IF rows[t].status \in Open THEN [rows[t] EXCEPT !.status = "SUPERSEDED"]
                                   ELSE rows[t]]

OwnsActive(rows, p) ==
    \A t \in Ticket : rows[t].status \in Open => rows[t].by = p

NewRequest(rows, t, row) == [Superseded(rows) EXCEPT ![t] = row]

Approve(rows, t, p) ==
    [rows EXCEPT ![t] = [@ EXCEPT !.status = "APPROVED", !.approver = p]]

Consume(rows, t) == [rows EXCEPT ![t].status = "CONSUMED"]

\* ExpiresAt passes half an hour after the approval.
Lapsed(rows) ==
    [t \in Ticket |->
        IF rows[t].status = "APPROVED" THEN [rows[t] EXCEPT !.status = "LAPSED"]
                                       ELSE rows[t]]

-----------------------------------------------------------------------------
\* 103: initialBookingAi.
ApproveBooking ==
    /\ ~ approved /\ booking = Origin /\ marks = {}
    /\ weights = "none" /\ ~ shipped
    /\ booking' = Doc("approved")
    /\ approved' = TRUE
    /\ UNCHANGED <<delivery, redemption, invoice, deliveryReceipt,
                   redemptionReceipt, invoiceReceipt, requests, own, yard, day>>

\* confirmedFingerprint(): the booking without its four approval columns.
AsConfirmed == booking.state = "approved" /\ [booking EXCEPT !.state = Origin.state] = Origin

\* eligible() and the preview of the stored procedure.
MayDeliver ==
    /\ approved /\ delivery = None /\ deliveryReceipt = None
    /\ AsConfirmed /\ marks = {}
    /\ weights = "none" /\ ~ shipped

DeliveryPrint == [booking |-> booking, day |-> day]

AskDelivery(p, t) ==
    /\ p \in Creator /\ MayDeliver /\ credit[t] = None
    /\ OwnsActive(credit, p)
    /\ credit' = NewRequest(credit, t, [status |-> "PENDING", by |-> p, approver |-> p,
                                 print |-> DeliveryPrint])
    /\ UNCHANGED <<documents, receipts, cut, own, yard, day>>

ApproveCredit(p, t) ==
    /\ p \in Accountant /\ MayDeliver
    /\ credit[t].status = "PENDING" /\ credit[t].print = DeliveryPrint
    /\ credit' = Approve(credit, t, p)
    /\ UNCHANGED <<documents, receipts, cut, own, yard, day>>

MakeDelivery(p, t) ==
    /\ MayDeliver
    /\ credit[t].status = "APPROVED" /\ credit[t].by = p
    /\ credit[t].print = DeliveryPrint
    /\ booking' = Doc("delivered")
    /\ delivery' = Doc("issued")
    /\ credit' = Consume(credit, t)
    /\ deliveryReceipt' = [status |-> "MADE", source |-> booking',
                           delivery |-> delivery']
    /\ UNCHANGED <<redemption, invoice, approved, redemptionReceipt,
                   invoiceReceipt, cut, own, yard, day>>

-----------------------------------------------------------------------------
\* verifyReceipt of the 104; the mutant looks at the booking only.  The 103
\* had no marks when the receipt was made.
SourceStands ==
    /\ deliveryReceipt # None
    /\ deliveryReceipt.source = booking /\ AsIssued
DeliveryStands == SourceStands /\ deliveryReceipt.delivery = delivery

\* slipFor: a complete record of the booking or none; its net weight is that
\* of the coupon ("good") or more than 2 % off.
SlipKnown == weights \in {"none", "good", "off"}

MayRedeem == DeliveryStands /\ redemptionReceipt = None /\ SlipKnown

RedemptionPrint ==
    [source |-> deliveryReceipt.source, delivery |-> deliveryReceipt.delivery,
     day |-> day]

\* Outside the tolerance, or without a scale record, a request is an exception.
Exception(slip) == slip # "good"

AskRedemption(p, t) ==
    /\ p \in Creator /\ MayRedeem /\ cut[t] = None
    /\ OwnsActive(cut, p)
    /\ cut' = NewRequest(cut, t, [status |-> "PENDING", by |-> p, approver |-> p,
                           print |-> RedemptionPrint, slip |-> weights])
    /\ UNCHANGED <<documents, receipts, credit, own, yard, day>>

\* Mutant: the weights of the request are not compared with the scale again.
SamePrint(t) == cut[t].print = RedemptionPrint
Unchanged(t) == cut[t].print = RedemptionPrint /\ cut[t].slip = weights

OtherReviewer(t, p) == p \in Reviewer \ {cut[t].by}

MayApprove(t, p) ==
    /\ p \in Reviewer \/ (p = cut[t].by /\ p \in Creator)
    /\ Exception(cut[t].slip) => OtherReviewer(t, p)

ApproveRedemption(p, t) ==
    /\ MayRedeem
    /\ cut[t].status = "PENDING" /\ Unchanged(t)
    /\ MayApprove(t, p)
    /\ cut' = Approve(cut, t, p)
    /\ UNCHANGED <<documents, receipts, credit, own, yard, day>>

\* Mutant: only the redemption's own receipt learns the new 104.
NotFollowed(r, after) == r
FollowedBy(r, after) == [r EXCEPT !.delivery = after]

\* usp_CreateInitialManualRedemption cuts the coupon of the 104; the receipt
\* of the 104 follows, the old fingerprint stays in that of the 116.
Redeem(p, t) ==
    /\ MayRedeem
    /\ cut[t].status = "APPROVED" /\ cut[t].by = p /\ p \in Creator
    /\ Unchanged(t)
    /\ delivery' = Doc("cut")
    /\ redemption' = Doc("open")
    /\ cut' = Consume(cut, t)
    /\ deliveryReceipt' = FollowedBy(deliveryReceipt, delivery')
    /\ redemptionReceipt' = [status |-> "MADE", ticket |-> t, slip |-> weights,
                             delivery |-> delivery', redemption |-> redemption']
    /\ UNCHANGED <<booking, invoice, approved, invoiceReceipt, credit, own,
                   yard, day>>

-----------------------------------------------------------------------------
\* verifyInvoiceContinuation: the 107 took over from what the 116 left.
Continued ==
    /\ invoiceReceipt # None
    /\ invoiceReceipt.deliveryBefore = redemptionReceipt.delivery
    /\ invoiceReceipt.redemptionBefore = redemptionReceipt.redemption
    /\ invoiceReceipt.delivery = deliveryReceipt.delivery
    /\ invoiceReceipt.redemption = redemption
    /\ invoiceReceipt.invoice = invoice

\* verifyCompleted of the 116.
RedemptionStands ==
    /\ redemptionReceipt # None
    /\ cut[redemptionReceipt.ticket].status = "CONSUMED"
    /\ \/ /\ deliveryReceipt.delivery = redemptionReceipt.delivery
          /\ redemption = redemptionReceipt.redemption
       \/ Continued

\* usp_PostInitialCouponInvoice: the scale record is the one of the slip, or
\* there is none.
SlipStands == IF redemptionReceipt.slip = "none" THEN weights = "none"
                                                 ELSE weights # "none"

PostInvoice(p) ==
    /\ p \in Accountant
    /\ DeliveryStands /\ RedemptionStands /\ invoiceReceipt = None
    /\ SlipStands
    /\ delivery' = Doc("posted")
    /\ redemption' = Doc("posted")
    /\ invoice' = Doc("posted")
    /\ deliveryReceipt' = FollowedBy(deliveryReceipt, delivery')
    /\ invoiceReceipt' = [status |-> "MADE",
                          deliveryBefore |-> redemptionReceipt.delivery,
                          redemptionBefore |-> redemptionReceipt.redemption,
                          delivery |-> delivery', redemption |-> redemption',
                          invoice |-> invoice']
    /\ UNCHANGED <<booking, approved, redemptionReceipt, requests, own, yard, day>>

\* verifyInvoiceReceipt, when a 107 is asked for again.
InvoiceStands ==
    /\ DeliveryStands /\ RedemptionStands
    /\ Continued

-----------------------------------------------------------------------------
\* WinSpeed changes a document, or somebody changes it back.
frame == <<receipts, requests, own, yard, day>>

Touch(d) == [d EXCEPT !.edited = ~ @]

EditBooking ==
    /\ booking' = Touch(booking)
    /\ UNCHANGED <<delivery, redemption, invoice, frame>>

EditDelivery ==
    /\ delivery # None /\ delivery' = Touch(delivery)
    /\ UNCHANGED <<booking, redemption, invoice, frame>>

EditRedemption ==
    /\ redemption # None /\ redemption' = Touch(redemption)
    /\ UNCHANGED <<booking, delivery, invoice, frame>>

EditInvoice ==
    /\ invoice # None /\ invoice' = Touch(invoice)
    /\ UNCHANGED <<booking, delivery, redemption, frame>>

\* Its status as the application reads it: neither cancelled nor shipped; and
\* open for an edit.
Standing == "cancelled" \notin marks /\ ~ shipped
Opened == Standing /\ "unlocked" \in marks /\ "picked" \notin marks

\* The truck is weighed in, weighed out, or its record is corrected.
WeighTruck ==
    /\ \/ weights = "none" /\ weights' = "open"
       \/ weights # "none" /\ weights' \in {"good", "off"} \ {weights}
    /\ UNCHANGED <<documents, receipts, requests, own, shipping, shipped, day>>

Wait ==
    /\ \/ UNCHANGED day
       \/ day < MaxDay /\ day' = day + 1
    /\ credit' = Lapsed(credit)
    /\ cut' = Lapsed(cut)
    /\ UNCHANGED <<documents, receipts, own, yard>>

\* PATCH /:id/ship looks for the receipt before its transaction.
CheckShip ==
    /\ ~ approved /\ Standing
    /\ shipping' = TRUE
    /\ UNCHANGED <<documents, receipts, requests, own, weights, shipped, day>>

Ship ==
    /\ shipping
    /\ shipping' = FALSE /\ shipped' = TRUE
    /\ UNCHANGED <<documents, receipts, requests, own, weights, day>>

\* The sync closes a booking from a complete scale record it finds in order.
AutoShip ==
    /\ weights \in {"good", "off"} /\ Standing /\ ~ Opened
    /\ shipped' = TRUE
    /\ UNCHANGED <<documents, receipts, requests, own, weights, shipping, day>>

-----------------------------------------------------------------------------
\* The application's other writes to the 103.
Mark(on, off) ==
    /\ marks' = (marks \ off) \cup on
    /\ UNCHANGED <<documents, receipts, requests, yard, day>>

\* PATCH /:id/picking and /:id/unlock.
Pick ==
    /\ Standing /\ marks \cap {"picked", "unlocked"} = {}
    /\ Mark({"picked", "handled"}, {}) /\ UNCHANGED late

StopPick ==
    /\ Standing /\ "picked" \in marks
    /\ Mark({}, {"picked"}) /\ UNCHANGED late

\* A request for an edit of a truck that is in the yard holds the booking; the
\* answer gives back what was there.
Hold ==
    /\ weights = "open" /\ delivery = None /\ "held" \notin marks
    /\ Mark({"held"}, {}) /\ UNCHANGED late

Release ==
    /\ "held" \in marks
    /\ Mark({}, {"held"}) /\ UNCHANGED late

\* Requests that look for a 104 (assertNoIssuedDelivery) and write later: the
\* approval of an edit, the edit, a cancellation.  One of them at a time.
AskChange ==
    /\ late = "none" /\ delivery = None
    /\ \/ late' = "edit"
       \/ late' = "rewrite" /\ Opened
       \/ late' = "cancel" /\ Standing
    /\ UNCHANGED <<documents, receipts, requests, marks, yard, day>>

Change ==
    /\ \/ late = "edit" /\ Mark({"unlocked", "handled"}, {"picked"})
       \/ late = "rewrite" /\ Mark({"rewritten", "handled"}, {})
       \/ late = "cancel" /\ Mark({"cancelled", "handled"}, {"reopened"})
    /\ late' = "none"

\* The confirm that ends an edit.
Relocked ==
    /\ Opened
    /\ Mark({}, {"unlocked"}) /\ UNCHANGED late

\* restoreSourceSalesOrdersToDraft, of a quotation that names the booking: the
\* 103 is open again, even under a 104.
CancelQuote ==
    /\ "cancelled" \notin marks
    /\ Mark({"unlocked"} \cup
               {m \in {"reopened"} : booking.state = "delivered"}, {"picked"})
    /\ UNCHANGED late

Elsewhere ==
    \/ Pick \/ StopPick \/ Hold \/ Release
    \/ AskChange \/ Change \/ Relocked \/ CancelQuote

-----------------------------------------------------------------------------
Office(p, t) ==
    \/ AskDelivery(p, t) \/ ApproveCredit(p, t) \/ MakeDelivery(p, t)
    \/ AskRedemption(p, t) \/ ApproveRedemption(p, t) \/ Redeem(p, t)

NcNext ==
    \/ ApproveBooking
    \/ \E p \in Person, t \in Ticket : Office(p, t)
    \/ \E p \in Person : PostInvoice(p)
    \/ EditBooking \/ EditDelivery \/ EditRedemption \/ EditInvoice
    \/ WeighTruck \/ Wait \/ CheckShip \/ Ship \/ AutoShip
    \/ Elsewhere

NcSpec == NcInit /\ [][NcNext]_ncVars

-----------------------------------------------------------------------------
Docs(states) == [edited : BOOLEAN, state : states]

RequestStatus == Open \cup {"NONE", "SUPERSEDED", "CONSUMED"}

\* Documents are in a state the application gives them; a row has a status
\* of its table.
NcTypeOK ==
    /\ booking \in Docs({"confirmed", "approved", "delivered"})
    /\ delivery \in {None} \cup Docs({"issued", "cut", "posted"})
    /\ redemption \in {None} \cup Docs({"open", "posted"})
    /\ invoice \in {None} \cup Docs({"posted"})
    /\ approved \in BOOLEAN
    /\ \A t \in Ticket : {credit[t].status, cut[t].status} \subseteq RequestStatus
    /\ marks \subseteq Marks /\ late \in {"none", "edit", "rewrite", "cancel"}
    /\ weights \in {"none", "open", "good", "off"}
    /\ day \in 0..MaxDay
    /\ {shipping, shipped} \subseteq BOOLEAN

Untouched ==
    ~ (Edited(booking) \/ Edited(delivery) \/ Edited(redemption)
       \/ Edited(invoice))

\* While nobody has changed a document in WinSpeed, and the warehouse, an edit,
\* a hold or a cancellation has left nothing in the 103, every receipt checks
\* out, whatever was added after it: a caller that repeats a request whose
\* answer was lost is answered, never told that the documents diverged.
RepeatsVerify ==
    Untouched /\ AsIssued =>
        /\ deliveryReceipt # None => DeliveryStands
        /\ redemptionReceipt # None => RedemptionStands
        /\ invoiceReceipt # None => InvoiceStands

\* "never adopt a change made externally in WinSpeed"
\* (initial-manual-redemption.js): no receipt is written for a chain in which
\* some document was changed in WinSpeed.
NeverAdopts == [][receipts' # receipts => Untouched]_ncVars

\* A redemption whose weight was out of tolerance, or that had no weight, when
\* it was made was approved by a manager other than the one who asked,
\* however the scale record changed since the request.
ExceptionsReviewed ==
    redemptionReceipt # None =>
        LET row == cut[redemptionReceipt.ticket]
        IN  Exception(redemptionReceipt.slip) =>
                row.approver \in Reviewer /\ row.approver # row.by
=============================================================================
