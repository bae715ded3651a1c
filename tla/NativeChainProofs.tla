------------------------- MODULE NativeChainProofs -------------------------
(***************************************************************************)
(* Proofs about the chain of native documents.                             *)
(*                                                                         *)
(* The receipts hold clean contents only, and they say how far the chain   *)
(* has come (Stages); the documents are at that stage too, edited or not   *)
(* (Behind).  So a document that is as its receipt says is one nobody      *)
(* edited, and a chain that nobody edited is as its receipts say.          *)
(***************************************************************************)
EXTENDS NativeChain, TLAPS

\* Contents the application wrote.
Clean(states) == [edited : {FALSE}, state : states]

DeliveryStates == {"issued", "cut", "posted"}
Slips == {"none", "open", "good", "off"}

DeliveryReceipts == [status : {"MADE"}, source : Clean({"delivered"}),
                     delivery : Clean(DeliveryStates)]
RedemptionReceipts == [status : {"MADE"}, ticket : Ticket, slip : Slips,
                       delivery : Clean({"cut"}), redemption : Clean({"open"})]
InvoiceReceipts == [status : {"MADE"}, deliveryBefore : Clean({"cut"}),
                    redemptionBefore : Clean({"open"}), delivery : Clean({"posted"}),
                    redemption : Clean({"posted"}), invoice : Clean({"posted"})]

CreditPrints == [booking : Docs({"confirmed", "approved", "delivered"}), day : 0..MaxDay]
CutPrints == [source : Clean({"delivered"}), delivery : Clean(DeliveryStates),
              day : 0..MaxDay]
CreditRows == [status : RequestStatus, by : Person, approver : Person,
               print : CreditPrints]
CutRows == [status : RequestStatus, by : Person, approver : Person,
            print : CutPrints, slip : Slips]

DocumentTypes ==
    /\ booking \in Docs({"confirmed", "approved", "delivered"})
    /\ delivery \in {None} \cup Docs(DeliveryStates)
    /\ redemption \in {None} \cup Docs({"open", "posted"})
    /\ invoice \in {None} \cup Docs({"posted"})

ReceiptTypes ==
    /\ approved \in BOOLEAN
    /\ deliveryReceipt \in {None} \cup DeliveryReceipts
    /\ redemptionReceipt \in {None} \cup RedemptionReceipts
    /\ invoiceReceipt \in {None} \cup InvoiceReceipts

RequestTypes ==
    /\ credit \in [Ticket -> {None} \cup CreditRows]
    /\ cut \in [Ticket -> {None} \cup CutRows]

YardTypes ==
    /\ weights \in Slips
    /\ day \in 0..MaxDay
    /\ {shipping, shipped} \subseteq BOOLEAN
    /\ marks \subseteq Marks /\ late \in {"none", "edit", "rewrite", "cancel"}

Types == DocumentTypes /\ ReceiptTypes /\ RequestTypes /\ YardTypes

\* The receipts are written in the order of the chain.
Stages ==
    /\ ~ approved => deliveryReceipt = None
    /\ deliveryReceipt = None => redemptionReceipt = None
    /\ redemptionReceipt = None => invoiceReceipt = None
    /\ redemptionReceipt # None /\ invoiceReceipt = None =>
          deliveryReceipt.delivery = Doc("cut")
    /\ invoiceReceipt # None => deliveryReceipt.delivery = Doc("posted")

\* The documents are as far as the receipts say.
Behind ==
    /\ deliveryReceipt = None => delivery = None
    /\ deliveryReceipt # None =>
          /\ booking.state = "delivered"
          /\ delivery # None
          /\ delivery.state = deliveryReceipt.delivery.state
    /\ redemptionReceipt = None => redemption = None
    /\ redemptionReceipt # None =>
          /\ redemption # None
          /\ redemption.state = IF invoiceReceipt = None THEN "open" ELSE "posted"
    /\ invoiceReceipt = None <=> invoice = None

Reviewed(t) ==
    cut[t].status \in {"APPROVED", "CONSUMED"} /\ Exception(cut[t].slip) =>
        cut[t].approver \in Reviewer /\ cut[t].approver # cut[t].by

\* The request a redemption was made on stays as it was.
Backed ==
    redemptionReceipt # None =>
        /\ cut[redemptionReceipt.ticket].status = "CONSUMED"
        /\ cut[redemptionReceipt.ticket].slip = redemptionReceipt.slip

NcInv == /\ Types /\ Stages /\ Behind
         /\ \A t \in Ticket : Reviewed(t)
         /\ Backed

-----------------------------------------------------------------------------
\* The value for "no document" is no document and no row.
LEMMA NoneIsNone ==
    /\ None.status = "NONE"
    /\ \A S : \A d \in Docs(S) : d # None
    /\ \A r \in DeliveryReceipts \cup RedemptionReceipts \cup InvoiceReceipts : r # None
<1>1. None.status = "NONE"
    BY DEF None
<1>2. ASSUME NEW S, NEW d \in Docs(S) PROVE d # None
  <2>1. "edited" \in DOMAIN d /\ "edited" \notin DOMAIN None
      BY DEF Docs, None
  <2>2. QED
      BY <2>1
<1>3. ASSUME NEW r \in DeliveryReceipts \cup RedemptionReceipts \cup InvoiceReceipts
      PROVE  r # None
  <2>1. r.status = "MADE"
      BY DEF DeliveryReceipts, RedemptionReceipts, InvoiceReceipts
  <2>2. QED
      BY <1>1, <2>1
<1>4. QED
    BY <1>1, <1>2, <1>3

\* A document is its state and whether it was edited.
LEMMA DocFacts ==
    /\ \A s : Doc(s).edited = FALSE /\ Doc(s).state = s
    /\ \A S : \A s \in S : Doc(s) \in Clean(S) /\ Doc(s) \in Docs(S)
    /\ \A S : \A d \in Clean(S) : d = Doc(d.state) /\ d.state \in S /\ d \in Docs(S)
    /\ \A S : \A d \in Docs(S) :
          /\ ~ d.edited => d = Doc(d.state)
          /\ d \in Clean(S) => ~ d.edited
          /\ d.state \in S
          /\ Touch(d) \in Docs(S) /\ Touch(d).state = d.state
<1>1. \A s : Doc(s).edited = FALSE /\ Doc(s).state = s
    BY DEF Doc
<1>2. \A S : \A s \in S : Doc(s) \in Clean(S) /\ Doc(s) \in Docs(S)
    BY DEF Doc, Clean, Docs
<1>3. ASSUME NEW S, NEW d \in Clean(S)
      PROVE  d = Doc(d.state) /\ d.state \in S /\ d \in Docs(S)
  <2>1. d = [edited |-> d.edited, state |-> d.state] /\ d.edited = FALSE /\ d.state \in S
      BY <1>3 DEF Clean
  <2>2. QED
      BY <2>1 DEF Doc, Docs
<1>4. ASSUME NEW S, NEW d \in Docs(S)
      PROVE  /\ ~ d.edited => d = Doc(d.state)
             /\ d \in Clean(S) => ~ d.edited
             /\ d.state \in S
             /\ Touch(d) \in Docs(S) /\ Touch(d).state = d.state
  <2>1. d = [edited |-> d.edited, state |-> d.state] /\ d.edited \in BOOLEAN /\ d.state \in S
      BY <1>4 DEF Docs
  <2>2. ~ d.edited => d = Doc(d.state)
      BY <2>1 DEF Doc
  <2>3. d \in Clean(S) => ~ d.edited
      BY DEF Clean
  <2>4. Touch(d) \in Docs(S) /\ Touch(d).state = d.state
      BY <1>4 DEF Touch, Docs
  <2>5. QED
      BY <2>1, <2>2, <2>3, <2>4
<1>5. QED
    BY <1>1, <1>2, <1>3, <1>4

\* The tables of requests.  A row of a request is never None again, and one
\* that is consumed stays as it is.
LEMMA CreditTable ==
    ASSUME credit \in [Ticket -> {None} \cup CreditRows]
    PROVE  /\ Superseded(credit) \in [Ticket -> {None} \cup CreditRows]
           /\ Lapsed(credit) \in [Ticket -> {None} \cup CreditRows]
           /\ \A t \in Ticket, p \in Person : credit[t].status = "PENDING" =>
                 Approve(credit, t, p) \in [Ticket -> {None} \cup CreditRows]
           /\ \A t \in Ticket : credit[t].status = "APPROVED" =>
                 Consume(credit, t) \in [Ticket -> {None} \cup CreditRows]
<1>1. \A t \in Ticket : credit[t].status # "NONE" => credit[t] \in CreditRows
    BY NoneIsNone
<1>2. \A r \in CreditRows, s \in RequestStatus : [r EXCEPT !.status = s] \in CreditRows
    BY DEF CreditRows
<1>3. \A r \in CreditRows, p \in Person :
         [r EXCEPT !.status = "APPROVED", !.approver = p] \in CreditRows
    BY DEF CreditRows, RequestStatus, Open
<1>4. Superseded(credit) \in [Ticket -> {None} \cup CreditRows]
    BY <1>1, <1>2 DEF Superseded, Open, RequestStatus
<1>5. Lapsed(credit) \in [Ticket -> {None} \cup CreditRows]
    BY <1>1, <1>2 DEF Lapsed, Open, RequestStatus
<1>6. ASSUME NEW t \in Ticket, NEW p \in Person, credit[t].status = "PENDING"
      PROVE  Approve(credit, t, p) \in [Ticket -> {None} \cup CreditRows]
    BY <1>1, <1>3, <1>6 DEF Approve
<1>7. ASSUME NEW t \in Ticket, credit[t].status = "APPROVED"
      PROVE  Consume(credit, t) \in [Ticket -> {None} \cup CreditRows]
    BY <1>1, <1>2, <1>7 DEF Consume, RequestStatus
<1>8. QED
    BY <1>4, <1>5, <1>6, <1>7

LEMMA CutTable ==
    ASSUME cut \in [Ticket -> {None} \cup CutRows]
    PROVE  /\ Superseded(cut) \in [Ticket -> {None} \cup CutRows]
           /\ Lapsed(cut) \in [Ticket -> {None} \cup CutRows]
           /\ \A t \in Ticket :
                 /\ Superseded(cut)[t] = cut[t] \/ Superseded(cut)[t].status = "SUPERSEDED"
                 /\ Lapsed(cut)[t] = cut[t] \/ Lapsed(cut)[t].status = "LAPSED"
                 /\ cut[t].status = "CONSUMED" =>
                       Superseded(cut)[t] = cut[t] /\ Lapsed(cut)[t] = cut[t]
           /\ \A t \in Ticket, p \in Person : cut[t].status = "PENDING" =>
                 /\ Approve(cut, t, p) \in [Ticket -> {None} \cup CutRows]
                 /\ Approve(cut, t, p)[t].approver = p
                 /\ Approve(cut, t, p)[t].by = cut[t].by
                 /\ Approve(cut, t, p)[t].slip = cut[t].slip
                 /\ \A s \in Ticket \ {t} : Approve(cut, t, p)[s] = cut[s]
           /\ \A t \in Ticket : cut[t].status = "APPROVED" =>
                 /\ Consume(cut, t) \in [Ticket -> {None} \cup CutRows]
                 /\ Consume(cut, t)[t].status = "CONSUMED"
                 /\ Consume(cut, t)[t].approver = cut[t].approver
                 /\ Consume(cut, t)[t].by = cut[t].by
                 /\ Consume(cut, t)[t].slip = cut[t].slip
                 /\ \A s \in Ticket \ {t} : Consume(cut, t)[s] = cut[s]
<1>1. \A t \in Ticket : cut[t].status # "NONE" => cut[t] \in CutRows
    BY NoneIsNone
<1>2. \A r \in CutRows, s \in RequestStatus :
         /\ [r EXCEPT !.status = s] \in CutRows
         /\ [r EXCEPT !.status = s].status = s
         /\ [r EXCEPT !.status = s].approver = r.approver
         /\ [r EXCEPT !.status = s].by = r.by
         /\ [r EXCEPT !.status = s].slip = r.slip
    BY DEF CutRows
<1>3. \A r \in CutRows, p \in Person :
         /\ [r EXCEPT !.status = "APPROVED", !.approver = p] \in CutRows
         /\ [r EXCEPT !.status = "APPROVED", !.approver = p].approver = p
         /\ [r EXCEPT !.status = "APPROVED", !.approver = p].by = r.by
         /\ [r EXCEPT !.status = "APPROVED", !.approver = p].slip = r.slip
    BY DEF CutRows, RequestStatus, Open
<1>4. /\ Superseded(cut) \in [Ticket -> {None} \cup CutRows]
      /\ \A t \in Ticket :
            /\ Superseded(cut)[t] = cut[t] \/ Superseded(cut)[t].status = "SUPERSEDED"
            /\ cut[t].status = "CONSUMED" => Superseded(cut)[t] = cut[t]
  <2> DEFINE row(t) == IF cut[t].status \in Open
                       THEN [cut[t] EXCEPT !.status = "SUPERSEDED"] ELSE cut[t]
  <2>1. Superseded(cut) = [t \in Ticket |-> row(t)]
      BY DEF Superseded
  <2>2. "SUPERSEDED" \in RequestStatus /\ "NONE" \notin Open /\ "CONSUMED" \notin Open
      BY DEF RequestStatus, Open
  <2>3. ASSUME NEW t \in Ticket
        PROVE  /\ row(t) \in {None} \cup CutRows
               /\ row(t) = cut[t] \/ row(t).status = "SUPERSEDED"
               /\ cut[t].status = "CONSUMED" => row(t) = cut[t]
    <3>1. CASE cut[t].status \in Open
      <4>1. cut[t] \in CutRows
          BY <1>1, <2>2, <3>1
      <4>2. QED
          BY <1>2, <2>2, <3>1, <4>1
    <3>2. CASE cut[t].status \notin Open
        BY <3>2
    <3>3. QED
        BY <3>1, <3>2
  <2> HIDE DEF row
  <2>4. QED
      BY <2>1, <2>3
<1>5. /\ Lapsed(cut) \in [Ticket -> {None} \cup CutRows]
      /\ \A t \in Ticket :
            /\ Lapsed(cut)[t] = cut[t] \/ Lapsed(cut)[t].status = "LAPSED"
            /\ cut[t].status = "CONSUMED" => Lapsed(cut)[t] = cut[t]
  <2> DEFINE row(t) == IF cut[t].status \in {"APPROVED"}
                       THEN [cut[t] EXCEPT !.status = "LAPSED"] ELSE cut[t]
  <2>1. Lapsed(cut) = [t \in Ticket |-> row(t)]
      BY DEF Lapsed
  <2>2. "LAPSED" \in RequestStatus /\ "NONE" \notin {"APPROVED"} /\ "CONSUMED" \notin {"APPROVED"}
      BY DEF RequestStatus, Open
  <2>3. ASSUME NEW t \in Ticket
        PROVE  /\ row(t) \in {None} \cup CutRows
               /\ row(t) = cut[t] \/ row(t).status = "LAPSED"
               /\ cut[t].status = "CONSUMED" => row(t) = cut[t]
    <3>1. CASE cut[t].status \in {"APPROVED"}
      <4>1. cut[t] \in CutRows
          BY <1>1, <2>2, <3>1
      <4>2. QED
          BY <1>2, <2>2, <3>1, <4>1
    <3>2. CASE cut[t].status \notin {"APPROVED"}
        BY <3>2
    <3>3. QED
        BY <3>1, <3>2
  <2> HIDE DEF row
  <2>4. QED
      BY <2>1, <2>3
<1>6. ASSUME NEW t \in Ticket, NEW p \in Person, cut[t].status = "PENDING"
      PROVE  /\ Approve(cut, t, p) \in [Ticket -> {None} \cup CutRows]
             /\ Approve(cut, t, p)[t].approver = p
             /\ Approve(cut, t, p)[t].by = cut[t].by
             /\ Approve(cut, t, p)[t].slip = cut[t].slip
             /\ \A s \in Ticket \ {t} : Approve(cut, t, p)[s] = cut[s]
  <2> DEFINE r == [cut[t] EXCEPT !.status = "APPROVED", !.approver = p]
  <2>1. Approve(cut, t, p) = [cut EXCEPT ![t] = r]
      BY DEF Approve
  <2>2. cut[t] \in CutRows
      BY <1>1, <1>6
  <2>3. /\ r \in CutRows /\ r.approver = p /\ r.by = cut[t].by /\ r.slip = cut[t].slip
      BY <1>3, <2>2
  <2> HIDE DEF r
  <2>4. QED
      BY <2>1, <2>3
<1>7. ASSUME NEW t \in Ticket, cut[t].status = "APPROVED"
      PROVE  /\ Consume(cut, t) \in [Ticket -> {None} \cup CutRows]
             /\ Consume(cut, t)[t].status = "CONSUMED"
             /\ Consume(cut, t)[t].approver = cut[t].approver
             /\ Consume(cut, t)[t].by = cut[t].by
             /\ Consume(cut, t)[t].slip = cut[t].slip
             /\ \A s \in Ticket \ {t} : Consume(cut, t)[s] = cut[s]
  <2> DEFINE r == [cut[t] EXCEPT !.status = "CONSUMED"]
  <2>1. Consume(cut, t) = [cut EXCEPT ![t] = r]
      BY DEF Consume
  <2>2. cut[t] \in CutRows /\ "CONSUMED" \in RequestStatus
      BY <1>1, <1>7 DEF RequestStatus
  <2>3. /\ r \in CutRows /\ r.status = "CONSUMED" /\ r.approver = cut[t].approver
        /\ r.by = cut[t].by /\ r.slip = cut[t].slip
      BY <1>2, <2>2
  <2> HIDE DEF r
  <2>4. QED
      BY <2>1, <2>3
<1>8. QED
    BY <1>4, <1>5, <1>6, <1>7

-----------------------------------------------------------------------------
\* What the application writes is typed.
LEMMA Written ==
    /\ {Doc("issued"), Doc("cut"), Doc("posted")} \subseteq
          Docs(DeliveryStates) \cap Clean(DeliveryStates)
    /\ Doc("delivered") \in Docs({"confirmed", "approved", "delivered"}) \cap Clean({"delivered"})
    /\ Doc("approved") \in Docs({"confirmed", "approved", "delivered"})
    /\ Doc("cut") \in Clean({"cut"})
    /\ Doc("open") \in Docs({"open", "posted"}) \cap Clean({"open"})
    /\ Doc("posted") \in Docs({"open", "posted"}) \cap Docs({"posted"}) \cap Clean({"posted"})
BY DEF Doc, Docs, Clean, DeliveryStates

\* The receipt of the 104 that learns a new content keeps its other fields.
LEMMA Follows ==
    ASSUME NEW r \in DeliveryReceipts, NEW d \in Clean(DeliveryStates)
    PROVE  /\ FollowedBy(r, d) \in DeliveryReceipts
           /\ FollowedBy(r, d).delivery = d
           /\ FollowedBy(r, d).source = r.source
BY DEF FollowedBy, DeliveryReceipts

\* Steps that touch neither documents nor receipts leave both as they were.
LEMMA Aside ==
    ASSUME DocumentTypes, ReceiptTypes, Stages, Behind, UNCHANGED <<documents, receipts>>
    PROVE  (DocumentTypes /\ ReceiptTypes /\ Stages /\ Behind)'
BY DEF documents, receipts, DocumentTypes, ReceiptTypes, Stages, Behind

\* Requests that stay as they are back what they backed.
LEMMA SameRequests ==
    ASSUME \A t \in Ticket : Reviewed(t), Backed, UNCHANGED <<requests, redemptionReceipt>>
    PROVE  (\A t \in Ticket : Reviewed(t))' /\ Backed'
BY DEF requests, Reviewed, Backed

-----------------------------------------------------------------------------
LEMMA BookingStep ==
    ASSUME NcInv, ApproveBooking
    PROVE  NcInv'
<1> USE DEF NcInv, Types
<1>1. /\ booking' = Doc("approved") /\ approved' = TRUE /\ deliveryReceipt = None
      /\ UNCHANGED <<delivery, redemption, invoice, deliveryReceipt,
                     redemptionReceipt, invoiceReceipt, requests, own, yard, day>>
    BY DEF ApproveBooking, Stages
<1>2. Types'
    BY <1>1, Written DEF DocumentTypes, ReceiptTypes, RequestTypes, YardTypes, requests, own, yard
<1>3. Stages' /\ Behind'
    BY <1>1 DEF Stages, Behind
<1>4. QED
    BY <1>1, <1>2, <1>3, SameRequests

\* Requests for a 104.
LEMMA CreditSteps ==
    ASSUME NcInv, NEW p \in Person, NEW t \in Ticket,
           AskDelivery(p, t) \/ ApproveCredit(p, t)
    PROVE  NcInv'
<1> USE DEF NcInv, Types
<1>1. UNCHANGED <<documents, receipts, cut, own, yard, day>>
    BY DEF AskDelivery, ApproveCredit
<1>2. credit' \in [Ticket -> {None} \cup CreditRows]
  <2>1. credit \in [Ticket -> {None} \cup CreditRows]
      BY DEF RequestTypes
  <2>2. CASE AskDelivery(p, t)
    <3> DEFINE row == [status |-> "PENDING", by |-> p, approver |-> p, print |-> DeliveryPrint]
    <3>1. row \in CreditRows
        BY DEF CreditRows, RequestStatus, Open, DeliveryPrint, CreditPrints,
               DocumentTypes, YardTypes
    <3>2. credit' = [Superseded(credit) EXCEPT ![t] = row]
        BY <2>2 DEF AskDelivery, NewRequest
    <3> HIDE DEF row
    <3>3. QED
        BY <2>1, <3>1, <3>2, CreditTable
  <2>3. CASE ApproveCredit(p, t)
      BY <2>1, <2>3, CreditTable DEF ApproveCredit
  <2>4. QED
      BY <2>2, <2>3
<1>3. RequestTypes' /\ YardTypes'
    BY <1>1, <1>2 DEF RequestTypes, YardTypes, own, yard
<1>4. (\A s \in Ticket : Reviewed(s))' /\ Backed'
    BY <1>1 DEF receipts, Reviewed, Backed
<1>5. QED
    BY <1>1, <1>3, <1>4, Aside

LEMMA DeliveryStep ==
    ASSUME NcInv, NEW p \in Person, NEW t \in Ticket, MakeDelivery(p, t)
    PROVE  NcInv'
<1> USE DEF NcInv, Types
<1>1. /\ booking' = Doc("delivered") /\ delivery' = Doc("issued")
      /\ credit' = Consume(credit, t) /\ credit[t].status = "APPROVED"
      /\ deliveryReceipt' = [status |-> "MADE", source |-> Doc("delivered"),
                             delivery |-> Doc("issued")]
      /\ approved /\ delivery = None /\ deliveryReceipt = None
      /\ UNCHANGED <<redemption, invoice, approved, redemptionReceipt,
                     invoiceReceipt, cut, own, yard, day>>
    BY DEF MakeDelivery, MayDeliver
<1>2. redemptionReceipt = None /\ invoiceReceipt = None
    BY <1>1 DEF Stages
<1>3. deliveryReceipt' \in DeliveryReceipts
    BY <1>1, Written DEF DeliveryReceipts
<1>4. DocumentTypes' /\ ReceiptTypes'
    BY <1>1, <1>3, Written DEF DocumentTypes, ReceiptTypes
<1>5. RequestTypes' /\ YardTypes'
    BY <1>1, CreditTable DEF RequestTypes, YardTypes, own, yard
<1>6. Stages'
    BY <1>1, <1>2 DEF Stages
<1>7. Behind'
  <2>1. /\ booking'.state = "delivered" /\ delivery'.state = "issued"
        /\ deliveryReceipt'.delivery = Doc("issued") /\ Doc("issued").state = "issued"
        /\ delivery' # None /\ deliveryReceipt' # None
      BY <1>1, <1>3, DocFacts, Written, NoneIsNone
  <2>2. QED
      BY <1>1, <1>2, <2>1 DEF Behind
<1>8. (\A s \in Ticket : Reviewed(s))' /\ Backed'
    BY <1>1 DEF Reviewed, Backed
<1>9. QED
    BY <1>4, <1>5, <1>6, <1>7, <1>8

\* Requests for a redemption: an exception is approved by another reviewer.
LEMMA CutSteps ==
    ASSUME NcInv, NEW p \in Person, NEW t \in Ticket,
           AskRedemption(p, t) \/ ApproveRedemption(p, t)
    PROVE  NcInv'
<1> USE DEF NcInv, Types
<1>1. UNCHANGED <<documents, receipts, credit, own, yard, day>> /\ redemptionReceipt = None
    BY DEF AskRedemption, ApproveRedemption, MayRedeem
<1>2. cut \in [Ticket -> {None} \cup CutRows]
    BY DEF RequestTypes
<1>3. cut' \in [Ticket -> {None} \cup CutRows] /\ \A s \in Ticket : Reviewed(s)'
  <2>1. CASE AskRedemption(p, t)
    <3> DEFINE row == [status |-> "PENDING", by |-> p, approver |-> p,
                       print |-> RedemptionPrint, slip |-> weights]
    <3>1. deliveryReceipt \in DeliveryReceipts
        BY <2>1 DEF AskRedemption, MayRedeem, DeliveryStands, SourceStands, ReceiptTypes
    <3>2. RedemptionPrint \in CutPrints
        BY <3>1 DEF RedemptionPrint, CutPrints, DeliveryReceipts, YardTypes
    <3>3. row \in CutRows /\ row.status = "PENDING"
        BY <3>2 DEF CutRows, RequestStatus, Open, YardTypes
    <3>4. cut' = [Superseded(cut) EXCEPT ![t] = row]
        BY <2>1 DEF AskRedemption, NewRequest
    <3> HIDE DEF row
    <3>5. cut' \in [Ticket -> {None} \cup CutRows]
        BY <1>2, <3>3, <3>4, CutTable
    <3>6. ASSUME NEW s \in Ticket PROVE Reviewed(s)'
      <4>1. cut'[s].status = "PENDING" \/ cut'[s].status = "SUPERSEDED" \/ cut'[s] = cut[s]
          BY <1>2, <3>3, <3>4, CutTable
      <4>2. QED
          BY <4>1 DEF Reviewed
    <3>7. QED
        BY <3>5, <3>6
  <2>2. CASE ApproveRedemption(p, t)
    <3>1. /\ cut' = Approve(cut, t, p) /\ cut[t].status = "PENDING" /\ MayApprove(t, p)
        BY <2>2 DEF ApproveRedemption
    <3>2. cut' \in [Ticket -> {None} \cup CutRows]
        BY <1>2, <3>1, CutTable
    <3>3. /\ cut'[t].approver = p /\ cut'[t].by = cut[t].by /\ cut'[t].slip = cut[t].slip
          /\ \A s \in Ticket \ {t} : cut'[s] = cut[s]
        BY <1>2, <3>1, CutTable
    <3>4. Reviewed(t)'
        BY <3>1, <3>3 DEF Reviewed, MayApprove, OtherReviewer, Exception
    <3>5. \A s \in Ticket \ {t} : Reviewed(s)'
        BY <3>3 DEF Reviewed
    <3>6. QED
        BY <3>2, <3>4, <3>5
  <2>3. QED
      BY <2>1, <2>2
<1>4. RequestTypes' /\ YardTypes'
    BY <1>1, <1>3 DEF RequestTypes, YardTypes, own, yard
<1>5. Backed'
    BY <1>1 DEF receipts, Backed
<1>6. QED
    BY <1>1, <1>3, <1>4, <1>5, Aside

LEMMA RedemptionStep ==
    ASSUME NcInv, NEW p \in Person, NEW t \in Ticket, Redeem(p, t)
    PROVE  NcInv'
<1> USE DEF NcInv, Types
<1>1. /\ delivery' = Doc("cut") /\ redemption' = Doc("open")
      /\ cut' = Consume(cut, t) /\ cut[t].status = "APPROVED" /\ cut[t].slip = weights
      /\ deliveryReceipt' = FollowedBy(deliveryReceipt, Doc("cut"))
      /\ redemptionReceipt' = [status |-> "MADE", ticket |-> t, slip |-> weights,
                               delivery |-> Doc("cut"), redemption |-> Doc("open")]
      /\ deliveryReceipt # None /\ redemptionReceipt = None
      /\ UNCHANGED <<booking, invoice, approved, invoiceReceipt, credit, own, yard, day>>
    BY DEF Redeem, MayRedeem, DeliveryStands, SourceStands, Unchanged
<1>2. invoiceReceipt = None /\ approved
    BY <1>1 DEF Stages, ReceiptTypes
<1>3. deliveryReceipt \in DeliveryReceipts
    BY <1>1 DEF ReceiptTypes
<1>4. deliveryReceipt' \in DeliveryReceipts /\ deliveryReceipt'.delivery = Doc("cut")
    BY <1>1, <1>3, Follows, Written
<1>5. redemptionReceipt' \in RedemptionReceipts /\ redemptionReceipt'.ticket = t
      /\ redemptionReceipt'.slip = weights
    BY <1>1, Written DEF RedemptionReceipts, YardTypes
<1>6. cut \in [Ticket -> {None} \cup CutRows]
    BY DEF RequestTypes
<1>7. DocumentTypes' /\ ReceiptTypes'
    BY <1>1, <1>4, <1>5, Written DEF DocumentTypes, ReceiptTypes
<1>8. RequestTypes' /\ YardTypes'
  <2>1. cut' \in [Ticket -> {None} \cup CutRows]
      BY <1>1, <1>6, CutTable
  <2>2. QED
      BY <1>1, <2>1 DEF RequestTypes, YardTypes, own, yard
<1>9. deliveryReceipt' # None /\ redemptionReceipt' # None
    BY <1>4, <1>5, NoneIsNone
<1>10. invoiceReceipt' = None /\ approved'
    BY <1>1, <1>2
<1>11. Stages'
    BY <1>4, <1>9, <1>10 DEF Stages
<1>12. Behind'
  <2>1. /\ delivery'.state = "cut" /\ deliveryReceipt'.delivery.state = "cut"
        /\ redemption'.state = "open" /\ delivery' # None /\ redemption' # None
      BY <1>1, <1>4, DocFacts, Written, NoneIsNone
  <2>2. QED
      BY <1>1, <1>2, <1>9, <2>1 DEF Behind
<1>13. /\ cut'[t].status = "CONSUMED" /\ cut'[t].approver = cut[t].approver
       /\ cut'[t].by = cut[t].by /\ cut'[t].slip = cut[t].slip
       /\ \A s \in Ticket \ {t} : cut'[s] = cut[s]
    BY <1>1, <1>6, CutTable
<1>14. \A s \in Ticket : Reviewed(s)'
    BY <1>1, <1>13 DEF Reviewed, Exception
<1>15. Backed'
    BY <1>1, <1>5, <1>13 DEF Backed
<1>16. QED
    BY <1>7, <1>8, <1>11, <1>12, <1>14, <1>15

LEMMA InvoiceStep ==
    ASSUME NcInv, NEW p \in Person, PostInvoice(p)
    PROVE  NcInv'
<1> USE DEF NcInv, Types
<1>1. /\ delivery' = Doc("posted") /\ redemption' = Doc("posted") /\ invoice' = Doc("posted")
      /\ deliveryReceipt' = FollowedBy(deliveryReceipt, Doc("posted"))
      /\ invoiceReceipt' = [status |-> "MADE",
                            deliveryBefore |-> redemptionReceipt.delivery,
                            redemptionBefore |-> redemptionReceipt.redemption,
                            delivery |-> Doc("posted"), redemption |-> Doc("posted"),
                            invoice |-> Doc("posted")]
      /\ deliveryReceipt # None /\ redemptionReceipt # None /\ invoiceReceipt = None
      /\ UNCHANGED <<booking, approved, redemptionReceipt, requests, own, yard, day>>
    BY DEF PostInvoice, DeliveryStands, SourceStands, RedemptionStands
<1>2. deliveryReceipt \in DeliveryReceipts /\ redemptionReceipt \in RedemptionReceipts /\ approved
    BY <1>1 DEF ReceiptTypes, Stages
<1>3. deliveryReceipt' \in DeliveryReceipts /\ deliveryReceipt'.delivery = Doc("posted")
    BY <1>1, <1>2, Follows, Written
<1>4. invoiceReceipt' \in InvoiceReceipts
  <2>1. redemptionReceipt.delivery \in Clean({"cut"}) /\ redemptionReceipt.redemption \in Clean({"open"})
      BY <1>2 DEF RedemptionReceipts
  <2>2. QED
      BY <1>1, <2>1, Written DEF InvoiceReceipts
<1>5. DocumentTypes' /\ ReceiptTypes'
    BY <1>1, <1>3, <1>4, Written DEF DocumentTypes, ReceiptTypes
<1>6. RequestTypes' /\ YardTypes'
    BY <1>1 DEF RequestTypes, YardTypes, requests, own, yard
<1>7. deliveryReceipt' # None /\ invoiceReceipt' # None
    BY <1>3, <1>4, NoneIsNone
<1>8. Stages'
    BY <1>1, <1>2, <1>3, <1>7 DEF Stages
<1>9. Behind'
  <2>1. /\ delivery'.state = "posted" /\ deliveryReceipt'.delivery.state = "posted"
        /\ redemption'.state = "posted"
        /\ delivery' # None /\ redemption' # None /\ invoice' # None
      BY <1>1, <1>3, DocFacts, Written, NoneIsNone
  <2>2. QED
      BY <1>1, <1>7, <2>1 DEF Behind
<1>10. QED
    BY <1>1, <1>5, <1>6, <1>8, <1>9, SameRequests

\* Edits in WinSpeed move no document to another stage.
LEMMA EditSteps ==
    ASSUME NcInv, EditBooking \/ EditDelivery \/ EditRedemption \/ EditInvoice
    PROVE  NcInv'
<1> USE DEF NcInv, Types
<1>1. UNCHANGED <<receipts, requests, own, yard, day>>
    BY DEF EditBooking, EditDelivery, EditRedemption, EditInvoice, frame
<1>2. /\ \/ booking' = booking
         \/ booking' \in Docs({"confirmed", "approved", "delivered"}) /\ booking'.state = booking.state
      /\ \/ delivery' = delivery
         \/ delivery # None /\ delivery' \in Docs(DeliveryStates) /\ delivery'.state = delivery.state
      /\ \/ redemption' = redemption
         \/ redemption # None /\ redemption' \in Docs({"open", "posted"}) /\ redemption'.state = redemption.state
      /\ \/ invoice' = invoice
         \/ invoice # None /\ invoice' \in Docs({"posted"})
    BY DocFacts DEF EditBooking, EditDelivery, EditRedemption, EditInvoice, frame,
                    DocumentTypes
<1>3. DocumentTypes' /\ ReceiptTypes' /\ RequestTypes' /\ YardTypes'
    BY <1>1, <1>2 DEF DocumentTypes, ReceiptTypes, RequestTypes, YardTypes,
                      receipts, requests, own, yard
<1>4. Stages' /\ Behind'
    BY <1>1, <1>2, NoneIsNone DEF Stages, Behind, receipts
<1>5. QED
    BY <1>1, <1>3, <1>4, SameRequests DEF receipts

\* The yard and the calendar.
LEMMA YardSteps ==
    ASSUME NcInv, WeighTruck \/ Wait \/ CheckShip \/ Ship \/ AutoShip
    PROVE  NcInv'
<1> USE DEF NcInv, Types
<1>1. UNCHANGED <<documents, receipts>>
    BY DEF WeighTruck, Wait, CheckShip, Ship, AutoShip
<1>2. YardTypes'
  <2>1. CASE WeighTruck
      BY <2>1 DEF WeighTruck, YardTypes, Slips, own
  <2>2. CASE Wait
      BY <2>2, ChainAssumption DEF Wait, YardTypes, own, yard
  <2>3. CASE CheckShip \/ Ship \/ AutoShip
      BY <2>3 DEF CheckShip, Ship, AutoShip, YardTypes, own
  <2>4. QED
      BY <2>1, <2>2, <2>3
<1>3. RequestTypes' /\ (\A t \in Ticket : Reviewed(t)') /\ Backed'
  <2>1. CASE Wait
    <3>1. credit' = Lapsed(credit) /\ cut' = Lapsed(cut) /\ UNCHANGED redemptionReceipt
        BY <2>1 DEF Wait, receipts
    <3>2. RequestTypes'
        BY <3>1, CreditTable, CutTable DEF RequestTypes
    <3>3. \A t \in Ticket : /\ cut'[t] = cut[t] \/ cut'[t].status = "LAPSED"
                            /\ cut[t].status = "CONSUMED" => cut'[t] = cut[t]
        BY <3>1, CutTable DEF RequestTypes
    <3>4. \A t \in Ticket : Reviewed(t)'
        BY <3>3 DEF Reviewed
    <3>5. Backed'
      <4>1. redemptionReceipt # None => redemptionReceipt.ticket \in Ticket
          BY DEF ReceiptTypes, RedemptionReceipts
      <4>2. QED
          BY <3>1, <3>3, <4>1 DEF Backed
    <3>6. QED
        BY <3>2, <3>4, <3>5
  <2>2. CASE UNCHANGED requests
      BY <1>1, <2>2 DEF requests, receipts, RequestTypes, Reviewed, Backed
  <2>3. QED
      BY <2>1, <2>2 DEF WeighTruck, CheckShip, Ship, AutoShip
<1>4. QED
    BY <1>1, <1>2, <1>3, Aside

\* The application's other writes to the 103 leave the chain as it is.
LEMMA OwnSteps ==
    ASSUME NcInv, Elsewhere
    PROVE  NcInv'
<1> USE DEF NcInv, Types
<1>1. UNCHANGED <<documents, receipts, requests, yard, day>>
    BY DEF Elsewhere, Pick, StopPick, Hold, Release, AskChange, Change, Relocked,
           CancelQuote, Mark
<1>2. marks' \subseteq Marks /\ late' \in {"none", "edit", "rewrite", "cancel"}
  <2>1. ASSUME NEW on \in SUBSET Marks, NEW off, Mark(on, off) PROVE marks' \subseteq Marks
      BY <2>1 DEF Mark, YardTypes
  <2>2. CASE Pick \/ StopPick \/ Hold \/ Release \/ Relocked \/ Change
    <3>1. {{}, {"picked", "handled"}, {"held"}, {"unlocked", "handled"},
           {"rewritten", "handled"}, {"cancelled", "handled"}} \subseteq SUBSET Marks
        BY DEF Marks, Columns
    <3>2. marks' \subseteq Marks
        BY <2>1, <2>2, <3>1 DEF Pick, StopPick, Hold, Release, Relocked, Change
    <3>3. QED
        BY <2>2, <3>2 DEF Pick, StopPick, Hold, Release, Relocked, Change, YardTypes
  <2>3. CASE CancelQuote
    <3>1. {"unlocked"} \cup {m \in {"reopened"} : booking.state = "delivered"}
             \in SUBSET Marks
        BY DEF Marks, Columns
    <3>2. QED
        BY <2>1, <2>3, <3>1 DEF CancelQuote, YardTypes
  <2>4. CASE AskChange
      BY <2>4 DEF AskChange, YardTypes
  <2>5. QED
      BY <2>2, <2>3, <2>4 DEF Elsewhere
<1>3. RequestTypes' /\ YardTypes'
    BY <1>1, <1>2 DEF RequestTypes, YardTypes, requests, yard
<1>4. UNCHANGED <<requests, redemptionReceipt>>
    BY <1>1 DEF receipts
<1>5. QED
    BY <1>1, <1>3, <1>4, Aside, SameRequests

-----------------------------------------------------------------------------
LEMMA NcStart == NcInit => NcInv
<1> SUFFICES ASSUME NcInit PROVE NcInv
    OBVIOUS
<1>1. Origin \in Docs({"confirmed", "approved", "delivered"})
    BY DEF Origin, Doc, Docs
<1>2. Types
  <2>1. DocumentTypes
      BY <1>1 DEF NcInit, DocumentTypes
  <2>2. ReceiptTypes
      BY DEF NcInit, ReceiptTypes
  <2>3. RequestTypes
    <3>1. /\ credit = [t \in Ticket |-> None]
          /\ cut = [t \in Ticket |-> None]
        BY DEF NcInit
    <3>2. QED
        BY <3>1 DEF RequestTypes
  <2>4. YardTypes
    <3>1. 0 \in 0..MaxDay
        BY ChainAssumption
    <3>2. QED
        BY <3>1 DEF NcInit, YardTypes, Slips, Marks
  <2>5. QED
      BY <2>1, <2>2, <2>3, <2>4 DEF Types
<1>3. Stages /\ Behind /\ Backed
    BY DEF NcInit, Stages, Behind, Backed
<1>4. \A t \in Ticket : Reviewed(t)
    BY NoneIsNone DEF NcInit, Reviewed
<1>5. QED
    BY <1>2, <1>3, <1>4 DEF NcInv

LEMMA NcStep == NcInv /\ [NcNext]_ncVars => NcInv'
<1> SUFFICES ASSUME NcInv, [NcNext]_ncVars PROVE NcInv'
    OBVIOUS
<1>1. ASSUME NEW p \in Person, NEW t \in Ticket, Office(p, t) PROVE NcInv'
    BY <1>1, CreditSteps, DeliveryStep, CutSteps, RedemptionStep DEF Office
<1>2. CASE UNCHANGED ncVars
  <2>1. UNCHANGED <<documents, receipts>> /\ UNCHANGED <<requests, redemptionReceipt>>
        /\ UNCHANGED <<requests, own, yard, day>>
      BY <1>2 DEF ncVars, receipts
  <2>2. RequestTypes' /\ YardTypes'
      BY <2>1 DEF NcInv, Types, RequestTypes, YardTypes, requests, own, yard
  <2>3. QED
      BY <2>1, <2>2, Aside, SameRequests DEF NcInv, Types
<1>3. QED
    BY <1>1, <1>2, BookingStep, InvoiceStep, EditSteps, YardSteps, OwnSteps DEF NcNext

LEMMA NcInvariant == NcSpec => []NcInv
BY NcStart, NcStep, PTL DEF NcSpec

\* The documents, receipts and requests keep their types.
THEOREM ChainTyped == NcSpec => []NcTypeOK
<1>1. NcInv => NcTypeOK
  <2> SUFFICES ASSUME NcInv PROVE NcTypeOK
      OBVIOUS
  <2>1. DocumentTypes /\ ReceiptTypes /\ RequestTypes /\ YardTypes
      BY DEF NcInv, Types
  <2>2. \A t \in Ticket : credit[t].status \in RequestStatus /\ cut[t].status \in RequestStatus
      BY <2>1, NoneIsNone DEF RequestTypes, CreditRows, CutRows, RequestStatus
  <2>3. QED
      BY <2>1, <2>2
      DEF NcTypeOK, DocumentTypes, ReceiptTypes, YardTypes, DeliveryStates, Slips
<1>2. QED
    BY <1>1, NcInvariant, PTL

\* For any people, requests and days: as long as nobody changed a document in
\* WinSpeed, and while the application has not itself written the 103 apart
\* from the chain, a repeated call of any of the four operations finds its
\* receipt valid (verifyReceipt, verifyCompleted, verifyInvoiceReceipt).
THEOREM RepeatsAreAnswered == NcSpec => []RepeatsVerify
<1>1. NcInv => RepeatsVerify
  <2> SUFFICES ASSUME NcInv, Untouched, AsIssued
               PROVE  /\ deliveryReceipt # None => DeliveryStands
                      /\ redemptionReceipt # None => RedemptionStands
                      /\ invoiceReceipt # None => InvoiceStands
      BY DEF RepeatsVerify
  <2>1. DocumentTypes /\ ReceiptTypes /\ Stages /\ Behind /\ Backed
      BY DEF NcInv, Types
  <2>2. /\ booking = Doc(booking.state)
        /\ delivery # None => delivery = Doc(delivery.state)
        /\ redemption # None => redemption = Doc(redemption.state)
        /\ invoice # None => invoice = Doc(invoice.state) /\ invoice.state = "posted"
    <3>1. booking # None
        BY <2>1, NoneIsNone DEF DocumentTypes
    <3>2. QED
        BY <2>1, <3>1, DocFacts DEF Untouched, Edited, DocumentTypes
  <2>3. deliveryReceipt # None => DeliveryStands
    <3> SUFFICES ASSUME deliveryReceipt # None PROVE DeliveryStands
        OBVIOUS
    <3>1. /\ deliveryReceipt.source \in Clean({"delivered"})
          /\ deliveryReceipt.delivery \in Clean(DeliveryStates)
        BY <2>1 DEF ReceiptTypes, DeliveryReceipts
    <3>2. /\ deliveryReceipt.source = Doc("delivered")
          /\ deliveryReceipt.delivery = Doc(deliveryReceipt.delivery.state)
      <4>1. deliveryReceipt.source = Doc(deliveryReceipt.source.state)
            /\ deliveryReceipt.source.state = "delivered"
          BY <3>1, DocFacts
      <4>2. QED
          BY <3>1, <4>1, DocFacts
    <3>3. /\ booking.state = "delivered" /\ delivery # None
          /\ delivery.state = deliveryReceipt.delivery.state
        BY <2>1 DEF Behind
    <3>4. QED
        BY <2>2, <3>2, <3>3 DEF DeliveryStands, SourceStands
  <2>4. redemptionReceipt # None =>
           /\ deliveryReceipt # None
           /\ redemptionReceipt.delivery = Doc("cut")
           /\ redemptionReceipt.redemption = Doc("open")
           /\ redemption = Doc(IF invoiceReceipt = None THEN "open" ELSE "posted")
    <3> SUFFICES ASSUME redemptionReceipt # None
                 PROVE  /\ deliveryReceipt # None
                        /\ redemptionReceipt.delivery = Doc("cut")
                        /\ redemptionReceipt.redemption = Doc("open")
                        /\ redemption = Doc(IF invoiceReceipt = None THEN "open" ELSE "posted")
        OBVIOUS
    <3>1. /\ redemptionReceipt.delivery \in Clean({"cut"})
          /\ redemptionReceipt.redemption \in Clean({"open"})
        BY <2>1 DEF ReceiptTypes, RedemptionReceipts
    <3>2. /\ redemptionReceipt.delivery = Doc(redemptionReceipt.delivery.state)
          /\ redemptionReceipt.delivery.state = "cut"
          /\ redemptionReceipt.redemption = Doc(redemptionReceipt.redemption.state)
          /\ redemptionReceipt.redemption.state = "open"
        BY <3>1, DocFacts
    <3>3. deliveryReceipt # None /\ redemption # None
          /\ redemption.state = IF invoiceReceipt = None THEN "open" ELSE "posted"
        BY <2>1 DEF Stages, Behind
    <3>4. QED
        BY <2>2, <3>2, <3>3
  <2>5. invoiceReceipt # None => redemptionReceipt # None /\ Continued
    <3> SUFFICES ASSUME invoiceReceipt # None PROVE redemptionReceipt # None /\ Continued
        OBVIOUS
    <3>1. /\ invoiceReceipt.deliveryBefore \in Clean({"cut"})
          /\ invoiceReceipt.redemptionBefore \in Clean({"open"})
          /\ invoiceReceipt.delivery \in Clean({"posted"})
          /\ invoiceReceipt.redemption \in Clean({"posted"})
          /\ invoiceReceipt.invoice \in Clean({"posted"})
        BY <2>1 DEF ReceiptTypes, InvoiceReceipts
    <3>2. /\ invoiceReceipt.deliveryBefore = Doc("cut")
          /\ invoiceReceipt.redemptionBefore = Doc("open")
          /\ invoiceReceipt.delivery = Doc("posted")
          /\ invoiceReceipt.redemption = Doc("posted")
          /\ invoiceReceipt.invoice = Doc("posted")
      <4>1. \A s : \A d \in Clean({s}) : d = Doc(s)
        <5>1. ASSUME NEW s, NEW d \in Clean({s}) PROVE d = Doc(s)
            BY <5>1 DEF Clean, Doc
        <5>2. QED
            BY <5>1
      <4>2. QED
          BY <3>1, <4>1
    <3>3. /\ redemptionReceipt # None /\ deliveryReceipt.delivery = Doc("posted")
          /\ invoice # None
        BY <2>1 DEF Stages, Behind
    <3>4. QED
        BY <2>2, <2>4, <3>2, <3>3 DEF Continued
  <2>6. redemptionReceipt # None => RedemptionStands
    <3> SUFFICES ASSUME redemptionReceipt # None PROVE RedemptionStands
        OBVIOUS
    <3>1. cut[redemptionReceipt.ticket].status = "CONSUMED"
        BY <2>1 DEF Backed
    <3>2. invoiceReceipt = None => deliveryReceipt.delivery = Doc("cut")
        BY <2>1 DEF Stages
    <3>3. QED
        BY <2>4, <2>5, <3>1, <3>2 DEF RedemptionStands
  <2>7. QED
      BY <2>3, <2>4, <2>5, <2>6 DEF InvoiceStands
<1>2. QED
    BY <1>1, NcInvariant, PTL

\* A booking, a 104, a 116 or a 107 is never recorded on top of a chain that
\* somebody changed in WINSpeed.
THEOREM ChangesAreNeverAdopted == NcSpec => NeverAdopts
<1>1. NcInv /\ [NcNext]_ncVars => [receipts' # receipts => Untouched]_ncVars
  <2> SUFFICES ASSUME NcInv, NcNext, receipts' # receipts PROVE Untouched
      OBVIOUS
  <2>1. DocumentTypes /\ ReceiptTypes /\ Stages /\ Behind
      BY DEF NcInv, Types
  <2>2. ~ Edited(None) /\ ~ Edited(Origin)
      BY DEF Edited, Origin, Doc
  <2>3. \A S : \A d \in Clean(S) : ~ Edited(d)
      BY DEF Clean, Edited
  <2>4. CASE ApproveBooking
    <3>1. /\ booking = Origin /\ deliveryReceipt = None
        BY <2>1, <2>4 DEF ApproveBooking, Stages
    <3>2. delivery = None /\ redemption = None /\ invoice = None
        BY <2>1, <3>1 DEF Stages, Behind
    <3>3. QED
        BY <2>2, <3>1, <3>2 DEF Untouched
  <2>5. ASSUME NEW p \in Person, NEW t \in Ticket, MakeDelivery(p, t) PROVE Untouched
    <3>1. AsConfirmed /\ deliveryReceipt = None
        BY <2>5 DEF MakeDelivery, MayDeliver
    <3>2. delivery = None /\ redemption = None /\ invoice = None
        BY <2>1, <3>1 DEF Stages, Behind
    <3>3. ~ Edited(booking)
      <4>1. booking.edited = [booking EXCEPT !.state = Origin.state].edited
          BY <2>1 DEF DocumentTypes, Docs
      <4>2. QED
          BY <3>1, <4>1 DEF AsConfirmed, Edited, Origin, Doc
    <3>4. QED
        BY <2>2, <3>2, <3>3 DEF Untouched
  <2>6. DeliveryStands => ~ Edited(booking) /\ ~ Edited(delivery)
    <3>1. deliveryReceipt # None =>
             /\ deliveryReceipt.source \in Clean({"delivered"})
             /\ deliveryReceipt.delivery \in Clean(DeliveryStates)
        BY <2>1 DEF ReceiptTypes, DeliveryReceipts
    <3>2. QED
        BY <2>3, <3>1 DEF DeliveryStands, SourceStands
  <2>7. ASSUME NEW p \in Person, NEW t \in Ticket, Redeem(p, t) PROVE Untouched
    <3>1. DeliveryStands /\ redemptionReceipt = None
        BY <2>7 DEF Redeem, MayRedeem
    <3>2. redemption = None /\ invoice = None
        BY <2>1, <3>1 DEF Stages, Behind
    <3>3. QED
        BY <2>2, <2>6, <3>1, <3>2 DEF Untouched
  <2>8. ASSUME NEW p \in Person, PostInvoice(p) PROVE Untouched
    <3>1. DeliveryStands /\ RedemptionStands /\ invoiceReceipt = None
        BY <2>8 DEF PostInvoice
    <3>2. redemptionReceipt # None /\ redemption = redemptionReceipt.redemption
        BY <3>1 DEF RedemptionStands, Continued
    <3>3. redemptionReceipt.redemption \in Clean({"open"})
        BY <2>1, <3>2 DEF ReceiptTypes, RedemptionReceipts
    <3>4. invoice = None
        BY <2>1, <3>1 DEF Behind
    <3>5. QED
        BY <2>2, <2>3, <2>6, <3>1, <3>2, <3>3, <3>4 DEF Untouched
  <2>9. ASSUME NEW p \in Person, NEW t \in Ticket, Office(p, t) PROVE Untouched
    <3>1. AskDelivery(p, t) \/ ApproveCredit(p, t) \/ AskRedemption(p, t)
             \/ ApproveRedemption(p, t) => UNCHANGED receipts
        BY DEF AskDelivery, ApproveCredit, AskRedemption, ApproveRedemption
    <3>2. QED
        BY <2>5, <2>7, <2>9, <3>1 DEF Office
  <2>10. EditBooking \/ EditDelivery \/ EditRedemption \/ EditInvoice \/ WeighTruck
            \/ Wait \/ CheckShip \/ Ship \/ AutoShip \/ Elsewhere => UNCHANGED receipts
      BY DEF EditBooking, EditDelivery, EditRedemption, EditInvoice, WeighTruck,
             Wait, CheckShip, Ship, AutoShip, Elsewhere, Pick, StopPick, Hold,
             Release, AskChange, Change, Relocked, CancelQuote, Mark, frame
  <2>11. QED
      BY <2>4, <2>8, <2>9, <2>10 DEF NcNext
<1>2. QED
    BY <1>1, NcInvariant, PTL DEF NcSpec, NeverAdopts

\* A redemption out of tolerance has been approved by a reviewer who is not
\* the one who asked, for any set of people and however the scale record
\* changed meanwhile.
THEOREM ExceptionsAreReviewed == NcSpec => []ExceptionsReviewed
<1>1. NcInv => ExceptionsReviewed
  <2> SUFFICES ASSUME NcInv, redemptionReceipt # None, Exception(redemptionReceipt.slip)
               PROVE  /\ cut[redemptionReceipt.ticket].approver \in Reviewer
                      /\ cut[redemptionReceipt.ticket].approver # cut[redemptionReceipt.ticket].by
      BY DEF ExceptionsReviewed
  <2>1. redemptionReceipt.ticket \in Ticket
      BY DEF NcInv, Types, ReceiptTypes, RedemptionReceipts
  <2>2. Reviewed(redemptionReceipt.ticket) /\ Backed
      BY <2>1 DEF NcInv
  <2>3. QED
      BY <2>2 DEF Reviewed, Backed
<1>2. QED
    BY <1>1, NcInvariant, PTL
=============================================================================
