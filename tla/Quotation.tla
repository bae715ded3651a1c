----------------------------- MODULE Quotation -----------------------------
(***************************************************************************)
(* Quotations (routes/quotation.js), the drafts and bookings they are made *)
(* from, and the two documents each has in WINSpeed: the quotation (102)   *)
(* and its confirmation, the QC (113).                                     *)
(*                                                                         *)
(* A draft is a row of wf.SalesOrder; it is "gone" when a confirmation has *)
(* moved it to WINSpeed or it was deleted.  A native booking is a row of   *)
(* dbo.SOHD; it reads DRAFT while it is unlocked.                          *)
(*                                                                         *)
(* QuotationSourceSO holds the bare number of an order, and the numbers of *)
(* drafts and of bookings are counted apart: whatever is looked up by them *)
(* finds a draft and a booking that happen to have the same one.           *)
(*                                                                         *)
(* A quotation that was sent counts as DRAFT: every condition modelled     *)
(* here names both SENT and DRAFT, or neither.                             *)
(*                                                                         *)
(* Days are left out: whether a quotation is past its validity may refuse  *)
(* a step at any time, and PATCH /:id/valid-until may permit it again.  So *)
(* is what a NOLOCK read sees of a document that is not committed yet.     *)
(***************************************************************************)
EXTENDS Integers, Sequences, FiniteSets, Functions

CONSTANTS
    Order,      \* bound: drafts and native bookings that may be quoted
    Native,     \* those of them that are native bookings
    SameNumber, \* pairs of a native booking and a draft with the same number
    Quote,      \* bound: quotations
    Handler,    \* bound: handlers in progress at a time
    MaxQC       \* bound: confirmations of all quotations

ASSUME QuotationAssumption ==
    /\ Native \subseteq Order
    /\ SameNumber \subseteq Native \X (Order \ Native)
    /\ MaxQC \in Nat

VARIABLES
    order,      \* Status as v_AllSalesOrders reads it
    quote,      \* wf.Quotation.Status
    sources,    \* wf.QuotationSourceSO
    quoteDoc,   \* DocuStatus of the 102
    qcs,        \* every 113 made for the quotation: N, C for cancelled by
                \* DocuStatus, W for one whose AppvFlag is not Y yet
    link,       \* WinspeedConfirmSOID: which of them, 0 for NULL
    handler     \* what a handler has read

qtDocs == <<quoteDoc, qcs, link>>
qtVars == <<order, quote, sources, qtDocs, handler>>

Resting == [at |-> "rest"]
Undecided == {"DRAFT", "EXPIRED"}
Made(q) == quote[q] # "none"

QtInit ==
    /\ order = [o \in Order |-> "DRAFT"]
    /\ quote = [q \in Quote |-> "none"]
    /\ sources = [q \in Quote |-> {}]
    /\ quoteDoc = [q \in Quote |-> "none"]
    /\ qcs = [q \in Quote |-> <<>>]
    /\ link = [q \in Quote |-> 0]
    /\ handler = [h \in Handler |-> Resting]

Then(h, c) == handler' = [handler EXCEPT ![h] = c]
Naming(o) == {q \in Quote : o \in sources[q]}
Named(S) == S \cup {o \in Order : \E p \in S : {<<o, p>>, <<p, o>>} \cap SameNumber # {}}

\* The row of a quotation that is being converted is locked (UPDLOCK, HOLDLOCK).
Free(q) == \A h \in Handler : handler[h].at = "convert" => handler[h].q # q

-----------------------------------------------------------------------------
\* POST / : a new quotation goes to WINSpeed in the same transaction.
WriteQuote(q, S) ==
    /\ ~Made(q)
    /\ quote' = [quote EXCEPT ![q] = "DRAFT"]
    /\ sources' = [sources EXCEPT ![q] = S]
    /\ quoteDoc' = [quoteDoc EXCEPT ![q] = "N"]

NewQuote(q) ==
    /\ WriteQuote(q, {})
    /\ UNCHANGED <<order, qcs, link, handler>>

\* POST /from-so-trip reads before its transaction and locks nothing.
StartTake(h, S) ==
    /\ handler[h] = Resting
    /\ S # {}
    /\ \A o \in S : /\ order[o] = "DRAFT"
                    /\ \A q \in Naming(o) : quote[q] \notin {"DRAFT", "ACCEPTED"}
    /\ Then(h, [at |-> "take", of |-> Named(S)])
    /\ UNCHANGED <<order, quote, sources, qtDocs>>

\* UPDATE wf.SalesOrder SET Status='QUOTATION' WHERE Id IN (...): whatever the
\* row says by now, and no row of a native booking.
Withhold(S) ==
    order' = [o \in Order |-> IF o \in S \ Native /\ order[o] # "gone"
                              THEN "QUOTATION" ELSE order[o]]

Take(h, q) ==
    /\ handler[h].at = "take"
    /\ WriteQuote(q, handler[h].of)
    /\ Withhold(handler[h].of)
    /\ Then(h, Resting)
    /\ UNCHANGED <<qcs, link>>

-----------------------------------------------------------------------------
\* PATCH /:id/status: any status may follow any other.
SetStatus(q, s) ==
    /\ Made(q)
    /\ Free(q)
    /\ quote' = [quote EXCEPT ![q] = s]
    /\ UNCHANGED <<order, sources, qtDocs, handler>>

\* restoreSourceSalesOrdersToDraft: back to DRAFT, and a native booking is
\* unlocked.
\* Mutant: a quotation of several orders gives back none.
NoneBack(q) == {}
Back(q) == {o \in sources[q] : order[o] \notin {"CANCELLED", "gone"}}

\* updateNativeQuotationStatus: the QC that is linked is cancelled, no other.
\* Mutant: only the quotation document is cancelled.
QuoteOnly(q) == qcs[q]
Voided(q) == [i \in DOMAIN qcs[q] |-> IF i = link[q] THEN "C" ELSE qcs[q][i]]

CancelQuote(q) ==
    /\ Made(q)
    /\ Free(q)
    /\ quote' = [quote EXCEPT ![q] = "CANCELLED"]
    /\ quoteDoc' = [quoteDoc EXCEPT ![q] = "C"]
    /\ qcs' = [qcs EXCEPT ![q] = Voided(q)]
    /\ order' = [o \in Order |-> IF o \in Back(q) THEN "DRAFT" ELSE order[o]]
    /\ UNCHANGED <<sources, link, handler>>

Confirmed == FoldFunction(LAMBDA d, n : n + Len(d), 0, qcs)
LiveQCs(q) == {i \in DOMAIN qcs[q] : qcs[q][i] # "C"}
ApprovedQCs(q) == {i \in DOMAIN qcs[q] : qcs[q][i] = "N"}
LastOf(S) == IF S = {} THEN 0 ELSE CHOOSE i \in S : \A j \in S : j <= i

\* ACCEPTED: the link is read first; a quotation that has one is answered as
\* accepted and nothing is written, its Status neither.
StartAccept(h, q) ==
    /\ handler[h] = Resting
    /\ Made(q)
    /\ link[q] = 0
    /\ Then(h, [at |-> "look", q |-> q])
    /\ UNCHANGED <<order, quote, sources, qtDocs>>

LookForQC(h) ==
    /\ handler[h].at = "look"
    /\ LET q == handler[h].q IN
       Then(h, [at |-> "accept", q |-> q, found |-> LastOf(ApprovedQCs(q))])
    /\ UNCHANGED <<order, quote, sources, qtDocs>>

\* Mutant: the status is written without the link to the QC.
Unlinked(q, i) == link
LinkTo(q, i) == [link EXCEPT ![q] = i]

\* confirmNativeQuotation: the QC that was found is linked, or one is made.
Accept(h) ==
    /\ handler[h].at = "accept"
    /\ LET q == handler[h].q
           found == handler[h].found
           next == Len(qcs[q]) + 1 IN
       /\ Free(q)
       /\ quote' = [quote EXCEPT ![q] = "ACCEPTED"]
       /\ IF found # 0
          THEN /\ link' = LinkTo(q, found)
               /\ UNCHANGED <<quoteDoc, qcs>>
          ELSE /\ Confirmed < MaxQC
               /\ qcs' = [qcs EXCEPT ![q] = Append(@, "N")]
               /\ link' = LinkTo(q, next)
               /\ quoteDoc' = [quoteDoc EXCEPT ![q] = "Y"]
    /\ Then(h, Resting)
    /\ UNCHANGED <<order, sources>>

\* Staff make a QC in WINSpeed itself, approve it there, or cancel it.
StaffConfirm(q) ==
    /\ quoteDoc[q] \in {"N", "Y"}
    /\ Confirmed < MaxQC
    /\ qcs' = [qcs EXCEPT ![q] = Append(@, "W")]
    /\ quoteDoc' = [quoteDoc EXCEPT ![q] = "Y"]
    /\ UNCHANGED <<order, quote, sources, link, handler>>

StaffMark(q, i, s) ==
    /\ i \in LiveQCs(q)
    /\ qcs' = [qcs EXCEPT ![q][i] = s]
    /\ UNCHANGED <<order, quote, sources, quoteDoc, link, handler>>

-----------------------------------------------------------------------------
\* POST /api/so with convertFromQuoteId, the row of the quotation locked.
Convert(q) ==
    /\ quote[q] = "ACCEPTED"
    /\ Free(q)
    /\ quote' = [quote EXCEPT ![q] = "CONVERTED"]
    /\ UNCHANGED <<order, sources, qtDocs, handler>>

\* The same with the negative number of the native quotation: it asks for a
\* live QC instead of the status ACCEPTED, approved or not, and looks for it
\* once more when the booking is written.  WINSpeed's rows it does not lock.
StartConvert(h, q) ==
    /\ handler[h] = Resting
    /\ quote[q] \notin {"none", "CONVERTED"}
    /\ Free(q)
    /\ LiveQCs(q) # {}
    /\ Then(h, [at |-> "convert", q |-> q])
    /\ UNCHANGED <<order, quote, sources, qtDocs>>

FinishConvert(h) ==
    /\ handler[h].at = "convert"
    /\ LET q == handler[h].q IN
       /\ quote' = [quote EXCEPT ![q] = "CONVERTED"]
       /\ link' = IF link[q] = 0 THEN LinkTo(q, LastOf(LiveQCs(q))) ELSE link
    /\ Then(h, Resting)
    /\ UNCHANGED <<order, sources, quoteDoc, qcs>>

\* Any statement of that transaction may fail.
AbandonConvert(h) ==
    /\ handler[h].at = "convert"
    /\ Then(h, Resting)
    /\ UNCHANGED <<order, quote, sources, qtDocs>>

\* confirmDraft moves the draft to WINSpeed; an accepted quotation of it is
\* converted when no other draft of it still waits.
ConfirmDraft(o) ==
    LET waiting(q) == \E p \in sources[q] \ Native : order'[p] = "DRAFT"
        done == {q \in Naming(o) : quote[q] = "ACCEPTED" /\ ~waiting(q)} IN
    /\ o \notin Native
    /\ order[o] = "DRAFT"
    /\ \/ \A q \in Naming(o) : quote[q] \notin Undecided
       \/ \E q \in Naming(o) : quote[q] = "ACCEPTED"
    /\ order' = [order EXCEPT ![o] = "gone"]
    /\ \A q \in done : Free(q)
    /\ quote' = [q \in Quote |-> IF q \in done THEN "CONVERTED" ELSE quote[q]]
    /\ UNCHANGED <<sources, qtDocs, handler>>

\* PATCH /:id/confirm of an unlocked booking: locked again.
ConfirmNative(o) ==
    /\ o \in Native
    /\ order[o] = "DRAFT"
    /\ \A q \in Naming(o) : quote[q] \notin Undecided
    /\ order' = [order EXCEPT ![o] = "CONFIRMED"]
    /\ UNCHANGED <<quote, sources, qtDocs, handler>>

\* An approved edit request unlocks it.
UnlockNative(o) ==
    /\ o \in Native
    /\ order[o] = "CONFIRMED"
    /\ order' = [order EXCEPT ![o] = "DRAFT"]
    /\ UNCHANGED <<quote, sources, qtDocs, handler>>

\* PATCH /:id/cancel and DELETE /:id decide before their transaction.  The
\* cancellation of a withheld draft writes no row of it and is left out.
StartDrop(h, o, how) ==
    /\ handler[h] = Resting
    /\ CASE how = "cancel" -> /\ order[o] \in {"DRAFT", "CONFIRMED"}
                              /\ \A q \in Naming(o) : quote[q] \notin Undecided
         [] how = "delete" -> order[o] \in {"DRAFT", "CANCELLED"}
    /\ Then(h, [at |-> how, of |-> {o}])
    /\ UNCHANGED <<order, quote, sources, qtDocs>>

Drop(h) ==
    /\ handler[h].at \in {"cancel", "delete"}
    /\ order' = [o \in Order |->
                    IF o \notin handler[h].of \/ order[o] = "gone" THEN order[o]
                    ELSE IF handler[h].at = "delete" /\ o \notin Native THEN "gone"
                    ELSE "CANCELLED"]
    /\ Then(h, Resting)
    /\ UNCHANGED <<quote, sources, qtDocs>>

\* The steps about some of the orders and some of the quotations.
Steps(O, Q) ==
    \/ \E q \in Q :
          \/ NewQuote(q) \/ CancelQuote(q)
          \/ StaffConfirm(q) \/ Convert(q)
          \/ \E i \in DOMAIN qcs[q], s \in {"N", "C"} : StaffMark(q, i, s)
          \/ \E s \in Undecided : SetStatus(q, s)
    \/ \E o \in O : ConfirmDraft(o) \/ ConfirmNative(o) \/ UnlockNative(o)
    \/ \E h \in Handler :
          \/ \E S \in SUBSET O : StartTake(h, S)
          \/ \E q \in Q : Take(h, q) \/ StartAccept(h, q) \/ StartConvert(h, q)
          \/ LookForQC(h) \/ Accept(h) \/ FinishConvert(h) \/ AbandonConvert(h)
          \/ \E o \in O, how \in {"cancel", "delete"} : StartDrop(h, o, how)
          \/ Drop(h)

QtNext == Steps(Order, Quote)

QtSpec == QtInit /\ [][QtNext]_qtVars
-----------------------------------------------------------------------------
QtTypeOK ==
    /\ order \in [Order -> {"DRAFT", "QUOTATION", "CONFIRMED", "CANCELLED", "gone"}]
    /\ quote \in [Quote -> Undecided \cup {"none", "ACCEPTED", "CANCELLED", "CONVERTED"}]
    /\ sources \in [Quote -> SUBSET Order]
    /\ quoteDoc \in [Quote -> {"none", "N", "Y", "C"}]
    /\ qcs \in [Quote -> Seq({"N", "W", "C"})]
    /\ link \in [Quote -> Nat]

\* A draft that is withheld is named by a quotation somebody can still cancel:
\* whatever quotations were made of it at the same time, cancelled, revived and
\* cancelled again, no draft stays withheld when all of them are cancelled.
WithheldByQuotation ==
    \A o \in Order : order[o] = "QUOTATION" =>
        \E q \in Naming(o) : quote[q] # "CANCELLED"

\* A quotation that counts as accepted, or was converted by its own number or
\* by that of WINSpeed, is linked to the QC that a cancellation must void.  The
\* exception is one converted by the number of WINSpeed whose QC was cancelled
\* there between the two looks: it is converted without a link.
AcceptedIsLinked ==
    \A q \in Quote :
        \/ quote[q] \in {"ACCEPTED", "CONVERTED"} => link[q] \in DOMAIN qcs[q]
        \/ quote[q] = "CONVERTED" /\ \E i \in DOMAIN qcs[q] : qcs[q][i] = "C"

\* A cancelled quotation leaves no QC that it is linked to in force.
CancelledVoidsQC ==
    \A q \in Quote : quote[q] = "CANCELLED" /\ link[q] # 0 => qcs[q][link[q]] = "C"
=============================================================================
