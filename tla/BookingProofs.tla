--------------------------- MODULE BookingProofs ---------------------------
(***************************************************************************)
(* Proofs about what happens to a booking beside its sale: the quotations  *)
(* it is made from, the number it gets, and the requests to edit it.       *)
(***************************************************************************)
EXTENDS Quotation, BookingNumbers, EditRequests, TLAPS, FiniteSetTheorems,
        WellFoundedInduction

-----------------------------------------------------------------------------
(* The quotations.                                                         *)

OrderStatus == {"DRAFT", "QUOTATION", "CONFIRMED", "CANCELLED", "gone"}
QuoteStatus == Undecided \cup {"none", "ACCEPTED", "CANCELLED", "CONVERTED"}
Taking == [at : {"take"}, of : SUBSET Order]
Looking == [at : {"look"}, q : Quote]
Accepting == [at : {"accept"}, q : Quote, found : Nat]
Converting == [at : {"convert"}, q : Quote]
Dropping == [at : {"cancel", "delete"}, of : SUBSET Order]

Handling ==
    {Resting} \cup Taking \cup Looking \cup Accepting \cup Converting \cup Dropping

QC == {"N", "W", "C"}

QtTypes == QtTypeOK /\ handler \in [Handler -> Handling]

\* What the columns of a quotation say of each other.
QuoteOK(q) ==
    /\ link[q] <= Len(qcs[q])
    /\ quote[q] = "none" => sources[q] = {}
    /\ \/ quote[q] \in {"ACCEPTED", "CONVERTED"} => link[q] # 0
       \/ quote[q] = "CONVERTED" /\ \E i \in DOMAIN qcs[q] : qcs[q][i] = "C"
    /\ quote[q] = "CANCELLED" /\ link[q] # 0 => qcs[q][link[q]] = "C"

\* What a handler found is still there: no QC is ever removed.
FoundOK(h) ==
    /\ handler[h].at = "accept" => handler[h].found <= Len(qcs[handler[h].q])
    /\ handler[h].at = "convert" => Len(qcs[handler[h].q]) > 0

QtInv == /\ QtTypes
         /\ \A q \in Quote : QuoteOK(q)
         /\ \A h \in Handler : FoundOK(h)
         /\ WithheldByQuotation

\* Of the QCs somebody looks at, the last is one of them.
LEMMA LastIsOne ==
    ASSUME NEW n \in Nat, NEW S \in SUBSET (1..n), S # {}
    PROVE  LastOf(S) \in S
<1> DEFINE Under == {n - i : i \in S}
<1>1. Under \subseteq Nat /\ Under # {}
  <2>1. \A i \in S : n - i \in Nat
      OBVIOUS
  <2>2. PICK i \in S : TRUE
      OBVIOUS
  <2>3. n - i \in Under
      OBVIOUS
  <2>4. QED
      BY <2>1, <2>3
<1>2. PICK x \in Under : \A y \in Under : <<y, x>> \notin OpToRel(<, Nat)
  <2> HIDE DEF Under
  <2>1. QED
      BY <1>1, NatLessThanWellFounded, WFMin, Zenon
<1>3. \A y \in Under : ~(y < x)
  <2> SUFFICES ASSUME NEW y \in Under PROVE ~(y < x)
      OBVIOUS
  <2>1. y \in Nat /\ x \in Nat
      BY <1>1
  <2>2. <<y, x>> \notin OpToRel(<, Nat)
      BY <1>2
  <2> HIDE DEF Under
  <2>3. QED
      BY <2>1, <2>2, Zenon DEF OpToRel
<1>4. PICK i \in S : x = n - i
    OBVIOUS
<1>5. \A j \in S : ~(n - j < n - i)
    BY <1>3, <1>4
<1>6. \A j \in S : j <= i
    BY <1>5
<1>7. QED
    BY <1>6 DEF LastOf

\* The QCs of a quotation, and what becomes of them.
LEMMA Confirmations ==
    ASSUME NEW s \in Seq(QC), NEW l \in Nat
    PROVE  LET void == [i \in DOMAIN s |-> IF i = l THEN "C" ELSE s[i]]
           IN  /\ Len(s) \in Nat /\ DOMAIN s = 1..Len(s)
               /\ \A c \in QC : /\ Append(s, c) \in Seq(QC)
                                /\ Len(Append(s, c)) = Len(s) + 1
                                /\ \A i \in 1..Len(s) : Append(s, c)[i] = s[i]
               /\ void \in Seq(QC) /\ Len(void) = Len(s)
               /\ l \in 1..Len(s) => void[l] = "C"
<1>1. Len(s) \in Nat /\ DOMAIN s = 1..Len(s)
    OBVIOUS
<1>2. [i \in 1..Len(s) |-> IF i = l THEN "C" ELSE s[i]] \in Seq(QC)
    BY <1>1 DEF QC
<1>3. ASSUME NEW c \in QC
      PROVE  /\ Append(s, c) \in Seq(QC) /\ Len(Append(s, c)) = Len(s) + 1
             /\ \A i \in 1..Len(s) : Append(s, c)[i] = s[i]
    OBVIOUS
<1>4. QED
    BY <1>1, <1>2, <1>3

\* The columns of a quotation have their types.
LEMMA QuoteRow ==
    ASSUME QtTypes, NEW q \in Quote
    PROVE  /\ qcs[q] \in Seq(QC) /\ Len(qcs[q]) \in Nat
           /\ DOMAIN qcs[q] = 1..Len(qcs[q])
           /\ link[q] \in Nat
           /\ LiveQCs(q) \in SUBSET (1..Len(qcs[q]))
           /\ LiveQCs(q) # {} => LastOf(LiveQCs(q)) \in 1..Len(qcs[q])
           /\ LiveQCs(q) = {} => LastOf(LiveQCs(q)) = 0
           /\ LastOf(ApprovedQCs(q)) \in 0..Len(qcs[q])
<1>1. qcs[q] \in Seq(QC) /\ link[q] \in Nat
    BY DEF QtTypes, QtTypeOK, QC
<1>2. Len(qcs[q]) \in Nat /\ DOMAIN qcs[q] = 1..Len(qcs[q])
    BY <1>1
<1>3. /\ LiveQCs(q) \in SUBSET (1..Len(qcs[q]))
      /\ ApprovedQCs(q) \in SUBSET (1..Len(qcs[q]))
    BY <1>2 DEF LiveQCs, ApprovedQCs
<1>4. /\ LiveQCs(q) # {} => LastOf(LiveQCs(q)) \in 1..Len(qcs[q])
      /\ ApprovedQCs(q) # {} => LastOf(ApprovedQCs(q)) \in 1..Len(qcs[q])
    BY <1>2, <1>3, LastIsOne
<1>5. /\ LiveQCs(q) = {} => LastOf(LiveQCs(q)) = 0
      /\ ApprovedQCs(q) = {} => LastOf(ApprovedQCs(q)) = 0
    BY DEF LastOf
<1>6. LastOf(ApprovedQCs(q)) \in 0..Len(qcs[q])
    BY <1>2, <1>4, <1>5
<1>7. QED
    BY <1>1, <1>2, <1>3, <1>4, <1>5, <1>6

\* The record of a handler.
LEMMA HandlerAt ==
    ASSUME QtTypes, NEW h \in Handler
    PROVE  /\ handler[h].at = "take" => handler[h] \in Taking
           /\ handler[h].at = "look" => handler[h] \in Looking
           /\ handler[h].at = "accept" => handler[h] \in Accepting
           /\ handler[h].at = "convert" => handler[h] \in Converting
           /\ handler[h].at \in {"cancel", "delete"} => handler[h] \in Dropping
<1>1. handler[h] \in Handling
    BY DEF QtTypes
<1>2. Resting.at = "rest"
    BY DEF Resting
<1>3. handler[h] \in Taking => handler[h].at = "take"
    BY DEF Taking
<1>4. handler[h] \in Looking => handler[h].at = "look"
    BY DEF Looking
<1>5. handler[h] \in Accepting => handler[h].at = "accept"
    BY DEF Accepting
<1>6. handler[h] \in Dropping => handler[h].at \in {"cancel", "delete"}
    BY DEF Dropping
<1>7. handler[h] \in Converting => handler[h].at = "convert"
    BY DEF Converting
<1>8. QED
    BY <1>1, <1>2, <1>3, <1>4, <1>5, <1>6, <1>7 DEF Handling

\* A step of one handler.
LEMMA HandlerMoves ==
    ASSUME QtTypes, NEW h \in Handler, NEW c \in Handling, Then(h, c)
    PROVE  /\ handler' \in [Handler -> Handling] /\ handler'[h] = c
           /\ \A g \in Handler \ {h} : handler'[g] = handler[g]
BY DEF QtTypes, Then

\* A step that writes no column of a quotation.
LEMMA OrdersOnly ==
    ASSUME QtInv, UNCHANGED <<quote, sources, qtDocs>>,
           order' \in [Order -> OrderStatus],
           \A o \in Order : order'[o] = "QUOTATION" => order[o] = "QUOTATION",
           handler' \in [Handler -> Handling],
           \A h \in Handler : handler'[h] = handler[h] \/ FoundOK(h)'
    PROVE  QtInv'
<1>1. UNCHANGED <<quote, sources, quoteDoc, qcs, link>>
    BY DEF qtDocs
<1>2. QtTypes'
    BY <1>1 DEF QtInv, QtTypes, QtTypeOK, QC, OrderStatus
<1>3. ASSUME NEW q \in Quote PROVE QuoteOK(q)'
    BY <1>1 DEF QtInv, QuoteOK
<1>4. ASSUME NEW h \in Handler PROVE FoundOK(h)'
    BY <1>1 DEF QtInv, FoundOK
<1>5. WithheldByQuotation'
    BY <1>1 DEF QtInv, WithheldByQuotation, Naming
<1>6. QED
    BY <1>2, <1>3, <1>4, <1>5 DEF QtInv

\* A step that writes one quotation, withholds nothing and cancels nothing.
LEMMA OneQuote ==
    ASSUME QtInv, QtTypes', NEW q \in Quote,
           \A p \in Quote \ {q} : /\ quote'[p] = quote[p] /\ qcs'[p] = qcs[p]
                                  /\ link'[p] = link[p],
           UNCHANGED <<order, sources>>,
           Len(qcs[q]) <= Len(qcs'[q]),
           quote'[q] = "CANCELLED" => quote[q] = "CANCELLED",
           QuoteOK(q)',
           \A h \in Handler : handler'[h] = handler[h] \/ FoundOK(h)'
    PROVE  QtInv'
<1>1. ASSUME NEW p \in Quote PROVE QuoteOK(p)'
  <2>1. CASE p = q
      BY <2>1
  <2>2. CASE p # q
      BY <2>2 DEF QtInv, QuoteOK
  <2>3. QED
      BY <2>1, <2>2
<1>2. ASSUME NEW h \in Handler PROVE FoundOK(h)'
  <2>1. CASE handler'[h] = handler[h] /\ handler[h].at = "accept"
    <3>1. handler[h].q \in Quote /\ handler[h].found \in Nat
        BY <2>1, HandlerAt DEF QtInv, Accepting
    <3>2. /\ Len(qcs[handler[h].q]) \in Nat
          /\ Len(qcs'[handler[h].q]) \in Nat
        BY <3>1 DEF QtInv, QtTypes, QtTypeOK, QC
    <3>3. Len(qcs[handler[h].q]) <= Len(qcs'[handler[h].q])
        BY <3>1, <3>2
    <3>4. handler[h].found <= Len(qcs[handler[h].q])
        BY <2>1 DEF QtInv, FoundOK
    <3>5. QED
        BY <2>1, <3>1, <3>2, <3>3, <3>4 DEF FoundOK
  <2>2. CASE handler'[h] = handler[h] /\ handler[h].at = "convert"
    <3>1. handler[h].q \in Quote
        BY <2>2, HandlerAt DEF QtInv, Converting
    <3>2. /\ Len(qcs[handler[h].q]) \in Nat
          /\ Len(qcs'[handler[h].q]) \in Nat
        BY <3>1 DEF QtInv, QtTypes, QtTypeOK, QC
    <3>3. Len(qcs[handler[h].q]) <= Len(qcs'[handler[h].q])
        BY <3>1, <3>2
    <3>4. Len(qcs[handler[h].q]) > 0
        BY <2>2 DEF QtInv, FoundOK
    <3>5. QED
        BY <2>2, <3>1, <3>2, <3>3, <3>4 DEF FoundOK
  <2>3. QED
      BY <2>1, <2>2 DEF FoundOK
<1>3. WithheldByQuotation'
  <2> SUFFICES ASSUME NEW o \in Order, order[o] = "QUOTATION"
               PROVE  \E p \in Naming(o) : quote'[p] # "CANCELLED"
      BY DEF WithheldByQuotation, Naming
  <2>1. PICK p \in Naming(o) : quote[p] # "CANCELLED"
      BY DEF QtInv, WithheldByQuotation
  <2>2. p \in Quote
      BY DEF Naming
  <2>3. QED
      BY <2>1, <2>2
<1>4. QED
    BY <1>1, <1>2, <1>3 DEF QtInv

-----------------------------------------------------------------------------
\* The sources of a new quotation.
LEMMA NewSteps ==
    ASSUME QtInv, NEW q \in Quote,
           NewQuote(q) \/ \E h \in Handler : Take(h, q)
    PROVE  QtInv'
<1>0. QtTypes
    BY DEF QtInv
<1>1. PICK S \in SUBSET Order :
         /\ WriteQuote(q, S)
         /\ \/ UNCHANGED order /\ S = {}
            \/ Withhold(S)
         /\ UNCHANGED <<qcs, link>>
         /\ \/ UNCHANGED handler
            \/ \E h \in Handler : Then(h, Resting)
  <2>1. CASE NewQuote(q)
      BY <2>1 DEF NewQuote
  <2>2. ASSUME NEW h \in Handler, Take(h, q)
        PROVE  \E S \in SUBSET Order : WriteQuote(q, S) /\ Withhold(S)
    <3>1. handler[h].of \in SUBSET Order
        BY <1>0, <2>2, HandlerAt DEF Take, Taking
    <3>2. QED
        BY <2>2, <3>1 DEF Take
  <2>3. QED
      BY <2>1, <2>2 DEF Take
<1>2. /\ quote[q] = "none" /\ sources[q] = {}
      /\ quote' = [quote EXCEPT ![q] = "DRAFT"]
      /\ sources' = [sources EXCEPT ![q] = S]
      /\ quoteDoc' = [quoteDoc EXCEPT ![q] = "N"]
    BY <1>1 DEF WriteQuote, Made, QtInv, QuoteOK
<1>3. /\ quote'[q] = "DRAFT" /\ sources'[q] = S
      /\ \A p \in Quote \ {q} : quote'[p] = quote[p] /\ sources'[p] = sources[p]
    BY <1>0, <1>2 DEF QtTypes, QtTypeOK, QC
<1>4. /\ order' \in [Order -> OrderStatus]
      /\ \A o \in Order \ S : order'[o] = order[o]
  <2>1. CASE UNCHANGED order
      BY <1>0, <2>1 DEF QtTypes, QtTypeOK, QC, OrderStatus
  <2>2. CASE Withhold(S)
      BY <1>0, <2>2 DEF Withhold, QtTypes, QtTypeOK, QC, OrderStatus
  <2>3. QED
      BY <1>1, <2>1, <2>2
<1>5. Resting \in Handling
    BY DEF Handling
<1>6. /\ handler' \in [Handler -> Handling]
      /\ \A h \in Handler : handler'[h] = handler[h] \/ handler'[h].at = "rest"
  <2>1. CASE UNCHANGED handler
      BY <1>0, <2>1 DEF QtTypes
  <2>2. ASSUME NEW h \in Handler, Then(h, Resting)
        PROVE  /\ handler' \in [Handler -> Handling]
               /\ \A g \in Handler : handler'[g] = handler[g] \/ handler'[g].at = "rest"
      BY <1>0, <1>5, <2>2, HandlerMoves DEF Resting
  <2>3. QED
      BY <1>1, <2>1, <2>2
<1>7. /\ quote' \in [Quote -> QuoteStatus]
      /\ sources' \in [Quote -> SUBSET Order]
      /\ quoteDoc' \in [Quote -> {"none", "N", "Y", "C"}]
      /\ UNCHANGED <<qcs, link>>
    BY <1>0, <1>1, <1>2 DEF QtTypes, QtTypeOK, QC, QuoteStatus, Undecided
<1>8. QtTypes'
    BY <1>0, <1>4, <1>6, <1>7 DEF QtTypes, QtTypeOK, QC, OrderStatus, QuoteStatus
<1>9. ASSUME NEW p \in Quote PROVE QuoteOK(p)'
  <2>1. QuoteOK(p)
      BY DEF QtInv
  <2>2. QED
      BY <1>3, <1>7, <2>1 DEF QuoteOK
<1>10. ASSUME NEW h \in Handler PROVE FoundOK(h)'
    BY <1>6, <1>7 DEF QtInv, FoundOK
<1>11. ASSUME NEW o \in Order, order'[o] = "QUOTATION"
       PROVE  \E p \in Naming(o)' : quote'[p] # "CANCELLED"
  <2>1. CASE o \in S
      BY <1>3, <2>1 DEF Naming
  <2>2. CASE o \notin S
    <3>1. order[o] = "QUOTATION"
        BY <1>4, <1>11, <2>2
    <3>2. PICK p \in Naming(o) : quote[p] # "CANCELLED"
        BY <3>1 DEF QtInv, WithheldByQuotation
    <3>3. p \in Quote /\ o \in sources[p] /\ p # q
        BY <1>2, <3>2 DEF Naming
    <3>4. QED
        BY <1>3, <3>2, <3>3 DEF Naming
  <2>3. QED
      BY <2>1, <2>2
<1>12. WithheldByQuotation'
    BY <1>11 DEF WithheldByQuotation
<1>13. QED
    BY <1>8, <1>9, <1>10, <1>12 DEF QtInv

\* A cancellation gives all sources back.
LEMMA CancelStep ==
    ASSUME QtInv, NEW q \in Quote, CancelQuote(q)
    PROVE  QtInv'
<1>0. QtTypes
    BY DEF QtInv
<1> DEFINE void == Voided(q)
<1>1. /\ quote' = [quote EXCEPT ![q] = "CANCELLED"]
      /\ quoteDoc' = [quoteDoc EXCEPT ![q] = "C"]
      /\ qcs' = [qcs EXCEPT ![q] = void]
      /\ order' = [o \in Order |-> IF o \in Back(q) THEN "DRAFT" ELSE order[o]]
      /\ UNCHANGED <<sources, link, handler>>
      /\ quote[q] # "none"
    BY DEF CancelQuote, Made
<1>2. qcs[q] \in Seq(QC) /\ link[q] \in Nat /\ Len(qcs[q]) \in Nat
    BY <1>0, QuoteRow
<1>3. /\ void \in Seq(QC) /\ Len(void) = Len(qcs[q])
      /\ link[q] \in 1..Len(qcs[q]) => void[link[q]] = "C"
    BY <1>2, Confirmations DEF Voided
<1> HIDE DEF void
<1>4. /\ quote'[q] = "CANCELLED" /\ qcs'[q] = void
      /\ \A p \in Quote \ {q} : quote'[p] = quote[p] /\ qcs'[p] = qcs[p]
    BY <1>0, <1>1 DEF QtTypes, QtTypeOK, QC
<1>5. /\ order' \in [Order -> OrderStatus]
      /\ quote' \in [Quote -> QuoteStatus]
      /\ quoteDoc' \in [Quote -> {"none", "N", "Y", "C"}]
      /\ qcs' \in [Quote -> Seq(QC)]
    BY <1>0, <1>1, <1>3 DEF QtTypes, QtTypeOK, QC, OrderStatus, QuoteStatus, Undecided
<1>6. QtTypes'
    BY <1>0, <1>1, <1>5 DEF QtTypes, QtTypeOK, QC, OrderStatus, QuoteStatus
<1>7. ASSUME NEW p \in Quote PROVE QuoteOK(p)'
  <2>1. QuoteOK(p)
      BY DEF QtInv
  <2>2. CASE p = q
    <3>1. link[q] <= Len(qcs[q])
        BY <2>1, <2>2 DEF QuoteOK
    <3>2. link[q] # 0 => link[q] \in 1..Len(qcs[q])
        BY <1>2, <3>1
    <3>3. QED
        BY <1>1, <1>3, <1>4, <2>2, <3>1, <3>2 DEF QuoteOK
  <2>3. CASE p # q
      BY <1>1, <1>4, <2>1, <2>3 DEF QuoteOK
  <2>4. QED
      BY <2>2, <2>3
<1>8. ASSUME NEW h \in Handler PROVE FoundOK(h)'
  <2>1. FoundOK(h)
      BY DEF QtInv
  <2>2. handler[h].at \in {"accept", "convert"} => handler[h].q \in Quote
      BY <1>0, HandlerAt DEF Accepting, Converting
  <2>3. \A p \in Quote : Len(qcs'[p]) = Len(qcs[p])
      BY <1>3, <1>4
  <2>4. QED
      BY <1>1, <2>1, <2>2, <2>3 DEF FoundOK
<1>9. ASSUME NEW o \in Order, order'[o] = "QUOTATION"
      PROVE  \E p \in Naming(o)' : quote'[p] # "CANCELLED"
  <2>1. order[o] = "QUOTATION" /\ o \notin Back(q)
      BY <1>1, <1>9
  <2>2. o \notin sources[q]
      BY <2>1 DEF Back
  <2>3. PICK p \in Naming(o) : quote[p] # "CANCELLED"
      BY <2>1 DEF QtInv, WithheldByQuotation
  <2>4. p \in Quote /\ p # q
      BY <2>2, <2>3 DEF Naming
  <2>5. QED
      BY <1>1, <1>4, <2>3, <2>4 DEF Naming
<1>10. WithheldByQuotation'
    BY <1>9 DEF WithheldByQuotation
<1>11. QED
    BY <1>6, <1>7, <1>8, <1>10 DEF QtInv

\* Acceptance, the QC made by staff, and conversion.
LEMMA AcceptStep ==
    ASSUME QtInv, NEW h \in Handler, Accept(h)
    PROVE  QtInv'
<1>0. QtTypes
    BY DEF QtInv
<1>00. handler[h].at = "accept" /\ handler[h].q \in Quote /\ handler[h].found \in Nat
    BY <1>0, HandlerAt DEF Accept, Accepting
<1>1. PICK q \in Quote, found \in Nat : q = handler[h].q /\ found = handler[h].found
    BY <1>00
<1>2. found <= Len(qcs[q])
    BY <1>00, <1>1 DEF QtInv, FoundOK
<1>3. /\ quote' = [quote EXCEPT ![q] = "ACCEPTED"]
      /\ \/ /\ found # 0
            /\ link' = [link EXCEPT ![q] = found]
            /\ UNCHANGED <<quoteDoc, qcs>>
         \/ /\ qcs' = [qcs EXCEPT ![q] = Append(qcs[q], "N")]
            /\ link' = [link EXCEPT ![q] = Len(qcs[q]) + 1]
            /\ quoteDoc' = [quoteDoc EXCEPT ![q] = "Y"]
      /\ Then(h, Resting)
      /\ UNCHANGED <<order, sources>>
    BY <1>1 DEF Accept, LinkTo
<1>40. "N" \in QC
    BY DEF QC
<1>4. /\ qcs[q] \in Seq(QC) /\ Len(qcs[q]) \in Nat
      /\ Append(qcs[q], "N") \in Seq(QC)
      /\ Len(Append(qcs[q], "N")) = Len(qcs[q]) + 1
    BY <1>0, <1>1, <1>40, QuoteRow, Confirmations
<1>5. Resting \in Handling /\ Resting.at = "rest"
    BY DEF Handling, Resting
<1>6. /\ handler' \in [Handler -> Handling] /\ handler'[h] = Resting
      /\ \A g \in Handler \ {h} : handler'[g] = handler[g]
    BY <1>0, <1>3, <1>5, HandlerMoves
<1>7. /\ quote' \in [Quote -> QuoteStatus]
      /\ quoteDoc' \in [Quote -> {"none", "N", "Y", "C"}]
      /\ qcs' \in [Quote -> Seq(QC)]
      /\ link' \in [Quote -> Nat]
  <2>1. /\ quote' \in [Quote -> QuoteStatus]
        /\ quoteDoc' \in [Quote -> {"none", "N", "Y", "C"}]
      BY <1>0, <1>3 DEF QtTypes, QtTypeOK, QC, QuoteStatus
  <2>2. qcs' \in [Quote -> Seq(QC)]
      BY <1>0, <1>3, <1>4 DEF QtTypes, QtTypeOK, QC
  <2>3. Len(qcs[q]) + 1 \in Nat
      BY <1>4
  <2>4. link' \in [Quote -> Nat]
      BY <1>0, <1>3, <2>3 DEF QtTypes, QtTypeOK, QC
  <2>5. QED
      BY <2>1, <2>2, <2>4
<1>8. QtTypes'
    BY <1>0, <1>3, <1>6, <1>7 DEF QtTypes, QtTypeOK, QC, QuoteStatus
<1>9. /\ \A p \in Quote \ {q} : /\ quote'[p] = quote[p] /\ qcs'[p] = qcs[p]
                                /\ link'[p] = link[p]
      /\ quote'[q] = "ACCEPTED"
      /\ \/ qcs'[q] = qcs[q] /\ link'[q] = found /\ found # 0
         \/ qcs'[q] = Append(qcs[q], "N") /\ link'[q] = Len(qcs[q]) + 1
    BY <1>0, <1>1, <1>3 DEF QtTypes, QtTypeOK, QC
<1>10. Len(qcs[q]) <= Len(qcs'[q]) /\ link'[q] <= Len(qcs'[q]) /\ link'[q] # 0
    BY <1>1, <1>2, <1>4, <1>9
<1>11. QuoteOK(q)'
    BY <1>9, <1>10 DEF QuoteOK
<1>12. \A g \in Handler : handler'[g] = handler[g] \/ FoundOK(g)'
    BY <1>5, <1>6 DEF FoundOK
<1>13. QED
    BY <1>1, <1>3, <1>8, <1>9, <1>10, <1>11, <1>12, OneQuote

LEMMA QuoteSteps ==
    ASSUME QtInv, NEW q \in Quote,
           \/ StaffConfirm(q) \/ Convert(q)
           \/ \E i \in DOMAIN qcs[q], s \in {"N", "C"} : StaffMark(q, i, s)
           \/ \E h \in Handler : FinishConvert(h) /\ q = handler[h].q
           \/ \E s \in Undecided : SetStatus(q, s)
    PROVE  QtInv'
<1>0. QtTypes /\ QuoteOK(q)
    BY DEF QtInv
<1>00. "W" \in QC
    BY DEF QC
<1>1. /\ qcs[q] \in Seq(QC) /\ Len(qcs[q]) \in Nat /\ link[q] \in Nat
      /\ DOMAIN qcs[q] = 1..Len(qcs[q])
      /\ Append(qcs[q], "W") \in Seq(QC)
      /\ Len(Append(qcs[q], "W")) = Len(qcs[q]) + 1
      /\ \A i \in 1..Len(qcs[q]) : Append(qcs[q], "W")[i] = qcs[q][i]
      /\ LiveQCs(q) # {} => LastOf(LiveQCs(q)) \in 1..Len(qcs[q])
      /\ LiveQCs(q) = {} => LastOf(LiveQCs(q)) = 0
    BY <1>0, <1>00, QuoteRow, Confirmations
<1>2. CASE StaffConfirm(q)
  <2>1. /\ qcs' = [qcs EXCEPT ![q] = Append(qcs[q], "W")]
        /\ quoteDoc' = [quoteDoc EXCEPT ![q] = "Y"]
        /\ UNCHANGED <<order, quote, sources, link, handler>>
      BY <1>2 DEF StaffConfirm
  <2>2. /\ qcs' \in [Quote -> Seq(QC)]
        /\ quoteDoc' \in [Quote -> {"none", "N", "Y", "C"}]
      BY <1>0, <1>1, <2>1 DEF QtTypes, QtTypeOK, QC
  <2>3. QtTypes'
      BY <1>0, <2>1, <2>2 DEF QtTypes, QtTypeOK, QC
  <2>4. /\ qcs'[q] = Append(qcs[q], "W")
        /\ \A p \in Quote \ {q} : qcs'[p] = qcs[p]
      BY <1>0, <2>1 DEF QtTypes, QtTypeOK, QC
  <2>5. link[q] <= Len(qcs[q]) /\ (link[q] # 0 => link[q] \in 1..Len(qcs[q]))
      BY <1>0, <1>1 DEF QuoteOK
  <2>6. link[q] <= Len(qcs'[q]) /\ Len(qcs[q]) <= Len(qcs'[q])
      BY <1>1, <2>4, <2>5
  <2>7. link[q] # 0 => qcs'[q][link[q]] = qcs[q][link[q]]
      BY <1>1, <2>4, <2>5
  <2>8. \A i \in DOMAIN qcs[q] : i \in DOMAIN qcs'[q] /\ qcs'[q][i] = qcs[q][i]
      BY <1>1, <2>4
  <2>9. QuoteOK(q)'
      BY <1>0, <2>1, <2>6, <2>7, <2>8 DEF QuoteOK
  <2>10. QED
      BY <2>1, <2>3, <2>4, <2>6, <2>9, OneQuote
<1>3. CASE Convert(q)
  <2>1. /\ quote[q] = "ACCEPTED"
        /\ quote' = [quote EXCEPT ![q] = "CONVERTED"]
        /\ UNCHANGED <<order, sources, quoteDoc, qcs, link, handler>>
      BY <1>3 DEF Convert, qtDocs
  <2>2. QtTypes'
      BY <1>0, <2>1 DEF QtTypes, QtTypeOK, QC
  <2>3. quote'[q] = "CONVERTED" /\ \A p \in Quote \ {q} : quote'[p] = quote[p]
      BY <1>0, <2>1 DEF QtTypes, QtTypeOK, QC
  <2>4. QuoteOK(q)'
      BY <1>0, <2>1, <2>3 DEF QuoteOK
  <2>5. Len(qcs[q]) <= Len(qcs'[q])
      BY <1>1, <2>1
  <2>6. QED
      BY <2>1, <2>2, <2>3, <2>4, <2>5, OneQuote
<1>4. ASSUME NEW h \in Handler, FinishConvert(h), q = handler[h].q PROVE QtInv'
  <2> DEFINE last == LastOf(LiveQCs(q))
  <2>1. /\ handler[h].at = "convert"
        /\ quote' = [quote EXCEPT ![q] = "CONVERTED"]
        /\ link' = IF link[q] = 0 THEN [link EXCEPT ![q] = last] ELSE link
        /\ Then(h, Resting)
        /\ UNCHANGED <<order, sources, quoteDoc, qcs>>
      BY <1>4 DEF FinishConvert, LinkTo
  <2>2. Len(qcs[q]) > 0
      BY <1>4, <2>1 DEF QtInv, FoundOK
  <2>3. last \in Nat /\ last <= Len(qcs[q])
      BY <1>1
  <2>4. last = 0 => \E i \in DOMAIN qcs[q] : qcs[q][i] = "C"
    <3>1. CASE LiveQCs(q) # {}
        BY <1>1, <3>1
    <3>2. CASE LiveQCs(q) = {}
      <4>1. 1 \in DOMAIN qcs[q]
          BY <1>1, <2>2
      <4>2. qcs[q][1] = "C"
          BY <3>2, <4>1 DEF LiveQCs
      <4>3. QED
          BY <4>1, <4>2
    <3>3. QED
        BY <3>1, <3>2
  <2> HIDE DEF last
  <2>5. link' \in [Quote -> Nat] /\ quote' \in [Quote -> QuoteStatus]
      BY <1>0, <2>1, <2>3 DEF QtTypes, QtTypeOK, QC, QuoteStatus
  <2>6. Resting \in Handling /\ Resting.at = "rest"
      BY DEF Handling, Resting
  <2>7. /\ handler' \in [Handler -> Handling] /\ handler'[h] = Resting
        /\ \A g \in Handler \ {h} : handler'[g] = handler[g]
      BY <1>0, <2>1, <2>6, HandlerMoves
  <2>8. QtTypes'
      BY <1>0, <2>1, <2>5, <2>7 DEF QtTypes, QtTypeOK, QC, QuoteStatus
  <2>9. /\ quote'[q] = "CONVERTED" /\ link'[q] = IF link[q] = 0 THEN last ELSE link[q]
        /\ \A p \in Quote \ {q} : quote'[p] = quote[p] /\ link'[p] = link[p]
      BY <1>0, <2>1 DEF QtTypes, QtTypeOK, QC
  <2>10. link[q] <= Len(qcs[q])
      BY <1>0 DEF QuoteOK
  <2>11. link'[q] <= Len(qcs[q])
      BY <1>1, <2>3, <2>9, <2>10
  <2>12. link'[q] # 0 \/ \E i \in DOMAIN qcs[q] : qcs[q][i] = "C"
      BY <2>4, <2>9
  <2>13. QuoteOK(q)'
      BY <2>1, <2>9, <2>11, <2>12 DEF QuoteOK
  <2>14. Len(qcs[q]) <= Len(qcs'[q])
      BY <1>1, <2>1
  <2>15. \A g \in Handler : handler'[g] = handler[g] \/ FoundOK(g)'
      BY <2>6, <2>7 DEF FoundOK
  <2>16. QED
      BY <2>1, <2>8, <2>9, <2>13, <2>14, <2>15, OneQuote
<1>5. ASSUME NEW s \in Undecided, SetStatus(q, s) PROVE QtInv'
  <2>1. /\ quote[q] # "none"
        /\ quote' = [quote EXCEPT ![q] = s]
        /\ UNCHANGED <<order, sources, quoteDoc, qcs, link, handler>>
      BY <1>5 DEF SetStatus, Made, qtDocs
  <2>2. s \notin {"none", "ACCEPTED", "CONVERTED", "CANCELLED"}
      BY DEF Undecided
  <2>3. QtTypes'
      BY <1>0, <2>1 DEF QtTypes, QtTypeOK, QC
  <2>4. quote'[q] = s /\ \A p \in Quote \ {q} : quote'[p] = quote[p]
      BY <1>0, <2>1 DEF QtTypes, QtTypeOK, QC
  <2>5. QuoteOK(q)'
      BY <1>0, <2>1, <2>2, <2>4 DEF QuoteOK
  <2>6. Len(qcs[q]) <= Len(qcs'[q])
      BY <1>1, <2>1
  <2>7. QED
      BY <2>1, <2>2, <2>3, <2>4, <2>5, <2>6, OneQuote
<1>6. ASSUME NEW i \in DOMAIN qcs[q], NEW s \in {"N", "C"}, StaffMark(q, i, s)
      PROVE  QtInv'
  <2>1. /\ i \in 1..Len(qcs[q]) /\ qcs[q][i] # "C"
        /\ qcs' = [qcs EXCEPT ![q] = [qcs[q] EXCEPT ![i] = s]]
        /\ UNCHANGED <<order, quote, sources, quoteDoc, link, handler>>
      BY <1>1, <1>6 DEF StaffMark, LiveQCs
  <2>2. /\ [qcs[q] EXCEPT ![i] = s] \in Seq(QC)
        /\ Len([qcs[q] EXCEPT ![i] = s]) = Len(qcs[q])
        /\ \A j \in 1..Len(qcs[q]) : qcs[q][j] = "C" => [qcs[q] EXCEPT ![i] = s][j] = "C"
    <3>1. s \in QC
        BY DEF QC
    <3>2. QED
        BY <1>1, <2>1, <3>1
  <2>3. qcs' \in [Quote -> Seq(QC)]
      BY <1>0, <2>1, <2>2 DEF QtTypes, QtTypeOK, QC
  <2>4. QtTypes'
      BY <1>0, <2>1, <2>3 DEF QtTypes, QtTypeOK, QC
  <2>5. /\ qcs'[q] = [qcs[q] EXCEPT ![i] = s]
        /\ \A p \in Quote \ {q} : qcs'[p] = qcs[p]
      BY <1>0, <2>1 DEF QtTypes, QtTypeOK, QC
  <2>6. Len(qcs'[q]) = Len(qcs[q]) /\ DOMAIN qcs'[q] = DOMAIN qcs[q]
      BY <1>1, <2>2, <2>5
  <2>7. \A j \in DOMAIN qcs[q] : qcs[q][j] = "C" => qcs'[q][j] = "C"
      BY <1>1, <2>2, <2>5
  <2>8. link[q] # 0 => link[q] \in DOMAIN qcs[q]
      BY <1>0, <1>1 DEF QuoteOK
  <2>9. QuoteOK(q)'
      BY <1>0, <2>1, <2>6, <2>7, <2>8 DEF QuoteOK
  <2>10. Len(qcs[q]) <= Len(qcs'[q])
      BY <1>1, <2>6
  <2>11. QED
      BY <2>1, <2>4, <2>5, <2>9, <2>10, OneQuote
<1>7. QED
    BY <1>2, <1>3, <1>4, <1>5, <1>6

\* What handlers read, and what becomes of orders alone.
LEMMA ReadSteps ==
    ASSUME QtInv, NEW h \in Handler,
           \/ \E S \in SUBSET Order : StartTake(h, S)
           \/ \E q \in Quote : StartAccept(h, q) \/ StartConvert(h, q)
           \/ LookForQC(h)
           \/ \E o \in Order, how \in {"cancel", "delete"} : StartDrop(h, o, how)
    PROVE  QtInv'
<1>0. QtTypes
    BY DEF QtInv
<1>1. UNCHANGED <<order, quote, sources, qtDocs>>
    BY DEF StartTake, StartAccept, StartConvert, LookForQC, StartDrop
<1>2. \E c \in Handling : /\ Then(h, c)
                          /\ c.at = "accept" => c.found <= Len(qcs[c.q])
                          /\ c.at = "convert" => Len(qcs[c.q]) > 0
  <2>1. ASSUME NEW S \in SUBSET Order, StartTake(h, S)
        PROVE  \E c \in Handling : Then(h, c) /\ c.at \notin {"accept", "convert"}
    <3>1. [at |-> "take", of |-> Named(S)] \in Taking
        BY DEF Taking, Named
    <3>2. QED
        BY <2>1, <3>1 DEF StartTake, Handling
  <2>2. ASSUME NEW q \in Quote, StartAccept(h, q)
        PROVE  \E c \in Handling : Then(h, c) /\ c.at \notin {"accept", "convert"}
    <3>1. [at |-> "look", q |-> q] \in Looking
        BY DEF Looking
    <3>2. QED
        BY <2>2, <3>1 DEF StartAccept, Handling
  <2>3. ASSUME NEW o \in Order, NEW how \in {"cancel", "delete"}, StartDrop(h, o, how)
        PROVE  \E c \in Handling : Then(h, c) /\ c.at \notin {"accept", "convert"}
    <3>1. [at |-> how, of |-> {o}] \in Dropping
        BY DEF Dropping
    <3>2. QED
        BY <2>3, <3>1 DEF StartDrop, Handling
  <2>4. CASE LookForQC(h)
    <3>1. handler[h].q \in Quote
        BY <1>0, <2>4, HandlerAt DEF LookForQC, Looking
    <3> DEFINE q == handler[h].q
               n == LastOf(ApprovedQCs(q))
    <3>2. n \in 0..Len(qcs[q]) /\ Len(qcs[q]) \in Nat
        BY <1>0, <3>1, QuoteRow
    <3>3. Then(h, [at |-> "accept", q |-> q, found |-> n])
        BY <2>4 DEF LookForQC
    <3> HIDE DEF q, n
    <3>4. n \in Nat /\ n <= Len(qcs[q]) /\ q \in Quote
        BY <3>1, <3>2 DEF q
    <3>5. [at |-> "accept", q |-> q, found |-> n] \in Accepting
        BY <3>4 DEF Accepting
    <3>6. QED
        BY <3>3, <3>4, <3>5 DEF Handling
  <2>5. ASSUME NEW q \in Quote, StartConvert(h, q)
        PROVE  \E c \in Handling : /\ Then(h, c) /\ c.at = "convert"
                                   /\ Len(qcs[c.q]) > 0
    <3>1. [at |-> "convert", q |-> q] \in Converting
        BY DEF Converting
    <3>2. LiveQCs(q) # {} /\ LiveQCs(q) \in SUBSET (1..Len(qcs[q])) /\ Len(qcs[q]) \in Nat
        BY <1>0, <2>5, QuoteRow DEF StartConvert
    <3>3. Len(qcs[q]) > 0
        BY <3>2
    <3>4. QED
        BY <2>5, <3>1, <3>3 DEF StartConvert, Handling
  <2>6. QED
      BY <2>1, <2>2, <2>3, <2>4, <2>5
<1>3. PICK c \in Handling : /\ Then(h, c)
                            /\ c.at = "accept" => c.found <= Len(qcs[c.q])
                            /\ c.at = "convert" => Len(qcs[c.q]) > 0
    BY <1>2
<1>4. /\ handler' \in [Handler -> Handling] /\ handler'[h] = c
      /\ \A g \in Handler \ {h} : handler'[g] = handler[g]
    BY <1>0, <1>3, HandlerMoves
<1>5. \A g \in Handler : handler'[g] = handler[g] \/ FoundOK(g)'
    BY <1>1, <1>3, <1>4 DEF FoundOK, qtDocs
<1>6. order' \in [Order -> OrderStatus]
    BY <1>0, <1>1 DEF QtTypes, QtTypeOK, QC, OrderStatus
<1>7. QED
    BY <1>1, <1>4, <1>5, <1>6, OrdersOnly

LEMMA OrderSteps ==
    ASSUME QtInv,
           \/ \E o \in Order : ConfirmNative(o) \/ UnlockNative(o)
           \/ \E h \in Handler : Drop(h) \/ AbandonConvert(h)
           \/ UNCHANGED qtVars
    PROVE  QtInv'
<1>0. QtTypes
    BY DEF QtInv
<1>1. UNCHANGED <<quote, sources, qtDocs>>
    BY DEF ConfirmNative, UnlockNative, Drop, AbandonConvert, qtVars
<1>2. order \in [Order -> OrderStatus]
    BY <1>0 DEF QtTypes, QtTypeOK, QC, OrderStatus
<1>3. /\ order' \in [Order -> OrderStatus]
      /\ \A o \in Order : order'[o] = "QUOTATION" => order[o] = "QUOTATION"
    BY <1>2 DEF ConfirmNative, UnlockNative, Drop, AbandonConvert, qtVars, OrderStatus
<1>4. Resting \in Handling /\ Resting.at = "rest"
    BY DEF Handling, Resting
<1>5. /\ handler' \in [Handler -> Handling]
      /\ \A h \in Handler : handler'[h] = handler[h] \/ FoundOK(h)'
  <2>1. CASE UNCHANGED handler
      BY <1>0, <2>1 DEF QtTypes
  <2>2. ASSUME NEW h \in Handler, Drop(h) \/ AbandonConvert(h)
        PROVE  /\ handler' \in [Handler -> Handling]
               /\ \A g \in Handler : handler'[g] = handler[g] \/ FoundOK(g)'
    <3>1. Then(h, Resting)
        BY <2>2 DEF Drop, AbandonConvert
    <3>2. /\ handler' \in [Handler -> Handling] /\ handler'[h] = Resting
          /\ \A g \in Handler \ {h} : handler'[g] = handler[g]
        BY <1>0, <1>4, <3>1, HandlerMoves
    <3>3. QED
        BY <1>4, <3>2 DEF FoundOK
  <2>3. QED
      BY <2>1, <2>2 DEF ConfirmNative, UnlockNative, qtVars
<1>6. QED
    BY <1>1, <1>3, <1>5, OrdersOnly

\* A draft is confirmed, and its accepted quotations are converted.
LEMMA ConfirmStep ==
    ASSUME QtInv, NEW o \in Order, ConfirmDraft(o)
    PROVE  QtInv'
<1>0. QtTypes
    BY DEF QtInv
<1>1. /\ order' = [order EXCEPT ![o] = "gone"]
      /\ UNCHANGED <<sources, quoteDoc, qcs, link, handler>>
      /\ \A q \in Quote : \/ quote'[q] = quote[q]
                          \/ quote[q] = "ACCEPTED" /\ quote'[q] = "CONVERTED"
      /\ quote' = [q \in Quote |-> quote'[q]]
    BY DEF ConfirmDraft, qtDocs
<1>2. order' \in [Order -> OrderStatus] /\ quote' \in [Quote -> QuoteStatus]
    BY <1>0, <1>1 DEF QtTypes, QtTypeOK, QC, OrderStatus, QuoteStatus
<1>3. QtTypes'
    BY <1>0, <1>1, <1>2 DEF QtTypes, QtTypeOK, QC, OrderStatus, QuoteStatus
<1>4. ASSUME NEW q \in Quote PROVE QuoteOK(q)'
  <2>1. QuoteOK(q)
      BY DEF QtInv
  <2>2. QED
      BY <1>1, <2>1 DEF QuoteOK
<1>5. ASSUME NEW h \in Handler PROVE FoundOK(h)'
    BY <1>1 DEF QtInv, FoundOK
<1>6. ASSUME NEW p \in Order, order'[p] = "QUOTATION"
      PROVE  \E q \in Naming(p)' : quote'[q] # "CANCELLED"
  <2>1. order[p] = "QUOTATION"
      BY <1>0, <1>1, <1>6 DEF QtTypes, QtTypeOK, QC
  <2>2. PICK q \in Naming(p) : quote[q] # "CANCELLED"
      BY <2>1 DEF QtInv, WithheldByQuotation
  <2>3. q \in Quote
      BY DEF Naming
  <2>4. QED
      BY <1>1, <2>2, <2>3 DEF Naming
<1>7. WithheldByQuotation'
    BY <1>6 DEF WithheldByQuotation
<1>8. QED
    BY <1>3, <1>4, <1>5, <1>7 DEF QtInv

-----------------------------------------------------------------------------
LEMMA QtStep == QtInv /\ [QtNext]_qtVars => QtInv'
<1> SUFFICES ASSUME QtInv, [QtNext]_qtVars PROVE QtInv'
    OBVIOUS
<1>1. ASSUME NEW q \in Quote, NewQuote(q) \/ \E h \in Handler : Take(h, q)
      PROVE  QtInv'
    BY <1>1, NewSteps
<1>2. ASSUME NEW q \in Quote, CancelQuote(q) PROVE QtInv'
    BY <1>2, CancelStep
<1>3. ASSUME NEW h \in Handler, Accept(h) PROVE QtInv'
    BY <1>3, AcceptStep
<1>4. ASSUME NEW q \in Quote,
             \/ StaffConfirm(q) \/ Convert(q)
             \/ \E i \in DOMAIN qcs[q], s \in {"N", "C"} : StaffMark(q, i, s)
             \/ \E h \in Handler : FinishConvert(h) /\ q = handler[h].q
             \/ \E s \in Undecided : SetStatus(q, s)
      PROVE  QtInv'
    BY <1>4, QuoteSteps
<1>5. ASSUME NEW h \in Handler,
             \/ \E S \in SUBSET Order : StartTake(h, S)
             \/ \E q \in Quote : StartAccept(h, q) \/ StartConvert(h, q)
             \/ LookForQC(h)
             \/ \E o \in Order, how \in {"cancel", "delete"} : StartDrop(h, o, how)
      PROVE  QtInv'
    BY <1>5, ReadSteps
<1>6. ASSUME NEW o \in Order, ConfirmDraft(o) PROVE QtInv'
    BY <1>6, ConfirmStep
<1>7. CASE \/ \E o \in Order : ConfirmNative(o) \/ UnlockNative(o)
           \/ \E h \in Handler : Drop(h) \/ AbandonConvert(h)
           \/ UNCHANGED qtVars
    BY <1>7, OrderSteps
<1>8. ASSUME NEW h \in Handler, FinishConvert(h) PROVE QtInv'
  <2>1. handler[h].q \in Quote
      BY <1>8, HandlerAt DEF FinishConvert, Converting, QtInv
  <2>2. PICK q \in Quote : q = handler[h].q
      BY <2>1
  <2>3. QED
      BY <1>4, <1>8, <2>2
<1>9. QED
    BY <1>1, <1>2, <1>3, <1>4, <1>5, <1>6, <1>7, <1>8 DEF QtNext, Steps

LEMMA QtStart == QtInit => QtInv
<1> SUFFICES ASSUME QtInit PROVE QtInv
    OBVIOUS
<1>1. <<>> \in Seq(QC) /\ Len(<<>>) = 0
    OBVIOUS
<1>2. QtTypeOK
    BY <1>1 DEF QtInit, QtTypeOK, QC
<1>3. handler \in [Handler -> Handling]
    BY DEF QtInit, Handling
<1>4. \A q \in Quote : QuoteOK(q)
    BY <1>1 DEF QtInit, QuoteOK
<1>5. \A h \in Handler : FoundOK(h)
    BY DEF QtInit, FoundOK, Resting
<1>6. WithheldByQuotation
    BY DEF QtInit, WithheldByQuotation
<1>7. QED
    BY <1>2, <1>3, <1>4, <1>5, <1>6 DEF QtInv, QtTypes

LEMMA QtInvariant == QtSpec => []QtInv
BY QtStart, QtStep, PTL DEF QtSpec

\* The columns of orders and quotations keep their types.
THEOREM QuotationsTyped == QtSpec => []QtTypeOK
<1>1. QtInv => QtTypeOK
    BY DEF QtInv, QtTypes
<1>2. QED
    BY <1>1, QtInvariant, PTL

\* No draft stays withheld when all quotations that name it are cancelled.
THEOREM DraftsAreGivenBack == QtSpec => []WithheldByQuotation
<1>1. QtInv => WithheldByQuotation
    BY DEF QtInv
<1>2. QED
    BY <1>1, QtInvariant, PTL

\* An accepted or converted quotation is linked to a QC, but for one whose QC
\* was cancelled while it was converted.
THEOREM AcceptedAreLinked == QtSpec => []AcceptedIsLinked
<1>1. QtInv => AcceptedIsLinked
  <2> SUFFICES ASSUME QtInv, NEW q \in Quote, quote[q] \in {"ACCEPTED", "CONVERTED"},
                      link[q] # 0
               PROVE  link[q] \in DOMAIN qcs[q]
      BY DEF AcceptedIsLinked, QtInv, QuoteOK
  <2>1. link[q] <= Len(qcs[q]) /\ link[q] # 0
      BY DEF QtInv, QuoteOK
  <2>2. link[q] \in Nat /\ Len(qcs[q]) \in Nat /\ DOMAIN qcs[q] = 1..Len(qcs[q])
      BY QuoteRow DEF QtInv
  <2>3. QED
      BY <2>1, <2>2
<1>2. QED
    BY <1>1, QtInvariant, PTL

\* The QC a cancelled quotation is linked to is void.
THEOREM CancelledAreVoid == QtSpec => []CancelledVoidsQC
<1>1. QtInv => CancelledVoidsQC
    BY DEF QtInv, QuoteOK, CancelledVoidsQC
<1>2. QED
    BY <1>1, QtInvariant, PTL

-----------------------------------------------------------------------------
(* The numbers of bookings.                                                *)

\* The number a confirmation under way is about to write.
Number(d) == IF given[d] = 0 THEN ref[d].n ELSE given[d]

\* WINSpeed has not got it.
Unissued(n, k) == n \notin saved[k] \cup {unsaved[k]}

\* WINSpeed takes its numbers from the counter.
FromCounter(k) ==
    /\ unsaved[k] <= counter[k]
    /\ \A m \in saved[k] : m <= counter[k]

\* A number is above the counter when a confirmation settles on it, and not
\* above it when the confirmation is through.
NumberOK(d) ==
    /\ slip[d] # "none" => ref[d].n > 0
    /\ slip[d] = "checked" /\ d \notin unsure =>
          Unissued(Number(d), ref[d].book)
    /\ slip[d] = "CONFIRMED" /\ d \notin unsure /\ ref[d].book \notin behind =>
          Unissued(ref[d].n, ref[d].book) /\ ref[d].n <= counter[ref[d].book]

BnInv == /\ BnTypeOK
         /\ \A k \in Books : FromCounter(k)
         /\ \A d \in Slip : NumberOK(d)

\* A draft and its reference have their types.
LEMMA SlipRow ==
    ASSUME BnTypeOK, NEW d \in Slip
    PROVE  /\ ref[d] \in [book : Books, n : 0..MaxNo]
           /\ ref[d].book \in Books /\ ref[d].n \in Nat
           /\ given[d] \in Nat /\ Number(d) \in Nat
           /\ counter[ref[d].book] \in Nat
<1>1. ref[d] \in [book : Books, n : 0..MaxNo]
    BY DEF BnTypeOK
<1>2. ref[d].book \in Books /\ ref[d].n \in 0..MaxNo
    BY <1>1
<1>3. given[d] \in 0..MaxNo /\ counter[ref[d].book] \in 0..MaxNo
    BY <1>2 DEF BnTypeOK
<1>4. \A i \in 0..MaxNo : i \in Nat
    BY NumbersAssumption
<1>5. QED
    BY <1>1, <1>2, <1>3, <1>4 DEF Number

\* A new reference has its type.
LEMMA NewRef ==
    ASSUME NEW k \in Books, NEW n \in 0..MaxNo
    PROVE  /\ Ref(k, n) \in [book : Books, n : 0..MaxNo]
           /\ Ref(k, n).book = k /\ Ref(k, n).n = n
BY DEF Ref

\* A draft nothing happened to, while WINSpeed issued nothing and no counter
\* fell.
LEMMA NumberKept ==
    ASSUME BnInv, NEW d \in Slip,
           slip'[d] = slip[d], ref'[d] = ref[d], given'[d] = given[d],
           d \in unsure => d \in unsure', behind \subseteq behind',
           UNCHANGED <<saved, unsaved>>,
           \A k \in Books : counter'[k] \in Nat /\ counter[k] <= counter'[k]
    PROVE  NumberOK(d)'
<1>1. NumberOK(d)
    BY DEF BnInv
<1>2. ref[d].book \in Books /\ ref[d].n \in Nat /\ counter[ref[d].book] \in Nat
    BY SlipRow DEF BnInv
<1>3. Number(d)' = Number(d)
    BY DEF Number
<1>4. Unissued(Number(d), ref[d].book)' <=> Unissued(Number(d), ref[d].book)
    BY <1>3 DEF Unissued
<1>5. Unissued(ref[d].n, ref[d].book)' <=> Unissued(ref[d].n, ref[d].book)
    BY DEF Unissued
<1>6. counter'[ref[d].book] \in Nat /\ counter[ref[d].book] <= counter'[ref[d].book]
    BY <1>2
<1>7. ref[d].n <= counter[ref[d].book] => ref[d].n <= counter'[ref[d].book]
    BY <1>2, <1>6
<1>8. QED
    BY <1>1, <1>4, <1>5, <1>7 DEF NumberOK

\* What WINSpeed has is below the counter, so a number above it is free.
LEMMA AboveCounter ==
    ASSUME BnInv, NEW k \in Books, NEW n \in Nat, n > counter[k]
    PROVE  Unissued(n, k)
<1>1. counter[k] \in Nat /\ unsaved[k] \in Nat /\ saved[k] \subseteq Nat
    BY NumbersAssumption DEF BnInv, BnTypeOK, Suffix
<1>2. unsaved[k] <= counter[k] /\ \A m \in saved[k] : m <= counter[k]
    BY DEF BnInv, FromCounter
<1>3. QED
    BY <1>1, <1>2 DEF Unissued

-----------------------------------------------------------------------------
(* The types.                                                              *)

LEMMA BnTypes == BnTypeOK /\ [BnNext]_bnVars => BnTypeOK'
<1> SUFFICES ASSUME BnTypeOK, [BnNext]_bnVars PROVE BnTypeOK'
    OBVIOUS
<1> USE DEF bnStore, bnCounter, bnWinspeed
<1>1. ASSUME NEW d \in Slip, NEW k \in Books, Rebook(d, k) PROVE BnTypeOK'
  <2>1. ref[d] \in [book : Books, n : 0..MaxNo]
      BY DEF BnTypeOK
  <2>2. [ref[d] EXCEPT !.book = k] \in [book : Books, n : 0..MaxNo]
      BY <2>1
  <2>3. ref' = [ref EXCEPT ![d] = [ref[d] EXCEPT !.book = k]]
      BY <1>1 DEF Rebook
  <2> DEFINE row == [ref[d] EXCEPT !.book = k]
  <2> HIDE DEF row
  <2>4. ref' = [ref EXCEPT ![d] = row] /\ row \in [book : Books, n : 0..MaxNo]
      BY <2>2, <2>3 DEF row
  <2>5. ref' \in [Slip -> [book : Books, n : 0..MaxNo]]
      BY <2>4 DEF BnTypeOK
  <2>6. QED
      BY <1>1, <2>5 DEF Rebook, BnTypeOK
<1>2. ASSUME NEW d \in Slip, NEW k \in Books, NEW n \in Suffix, CreateSlip(d, k, n)
      PROVE BnTypeOK'
  <2>1. n \in 0..MaxNo
      BY NumbersAssumption DEF Suffix
  <2>2. Ref(k, n) \in [book : Books, n : 0..MaxNo]
      BY <2>1, NewRef
  <2>3. ref' \in [Slip -> [book : Books, n : 0..MaxNo]]
      BY <1>2, <2>2 DEF CreateSlip, BnTypeOK
  <2>4. QED
      BY <1>2, <2>3 DEF CreateSlip, BnTypeOK
<1>3. ASSUME NEW d \in Slip, NEW n \in 0..MaxNo, NEW c \in 0..MaxNo,
             NEW a \in 0..MaxNo, CheckNumber(d, n, c, a)
      PROVE BnTypeOK'
  <2>1. unsure' \subseteq Slip
      BY <1>3 DEF CheckNumber, BnTypeOK
  <2>2. slip' \in [Slip -> {"none", "DRAFT", "checked", "CONFIRMED", "gone"}]
      BY <1>3 DEF CheckNumber, BnTypeOK
  <2>3. given' \in [Slip -> 0..MaxNo]
      BY <1>3 DEF CheckNumber, BnTypeOK
  <2>4. UNCHANGED <<counter, active, proc, cached, ref, unsaved, saved, behind>>
      BY <1>3 DEF CheckNumber
  <2>5. QED
      BY <2>1, <2>2, <2>3, <2>4 DEF BnTypeOK
<1>4. ASSUME NEW d \in Slip, DeleteSlip(d) PROVE BnTypeOK'
    BY <1>4 DEF DeleteSlip, BnTypeOK
<1>5. ASSUME NEW d \in Slip, CommitNumber(d) PROVE BnTypeOK'
  <2> DEFINE r == IF given[d] = 0 THEN ref[d] ELSE Ref(ref[d].book, given[d])
  <2>1. ref[d] \in [book : Books, n : 0..MaxNo] /\ given[d] \in 0..MaxNo
      BY DEF BnTypeOK
  <2>2. ref[d].book \in Books
      BY <2>1
  <2>3. r \in [book : Books, n : 0..MaxNo]
      BY <2>1, <2>2, NewRef
  <2>4. /\ slip' = [slip EXCEPT ![d] = "CONFIRMED"]
        /\ cached' = Found
        /\ \/ counter' = [counter EXCEPT ![r.book] = MovedTo(r.book, r.n)] /\ UNCHANGED behind
           \/ behind' = behind \cup {r.book} /\ UNCHANGED counter
        /\ ref' = [ref EXCEPT ![d] = r]
        /\ given' = [given EXCEPT ![d] = 0]
        /\ UNCHANGED <<active, proc, unsure, unsaved, saved>>
      BY <1>5 DEF CommitNumber
  <2> HIDE DEF r
  <2>5. r.book \in Books /\ r.n \in 0..MaxNo
      BY <2>3
  <2>6. MovedTo(r.book, r.n) \in 0..MaxNo
      BY <2>5 DEF MovedTo, BnTypeOK
  <2>7. counter' \in [Books -> 0..MaxNo] /\ behind' \subseteq Books
      BY <2>4, <2>5, <2>6 DEF BnTypeOK
  <2>8. ref' \in [Slip -> [book : Books, n : 0..MaxNo]]
      BY <2>3, <2>4 DEF BnTypeOK
  <2>9. given' \in [Slip -> 0..MaxNo]
      BY <2>4, NumbersAssumption DEF BnTypeOK
  <2>10. cached' \in {"unknown", "yes", "no"}
      BY <2>4 DEF Found, BnTypeOK
  <2>11. slip' \in [Slip -> {"none", "DRAFT", "checked", "CONFIRMED", "gone"}]
      BY <2>4 DEF BnTypeOK
  <2>12. QED
      BY <2>4, <2>7, <2>8, <2>9, <2>10, <2>11 DEF BnTypeOK
<1>6. ASSUME NEW d \in Slip, Abort(d) PROVE BnTypeOK'
    BY <1>6, NumbersAssumption DEF Abort, RollBack, BnTypeOK
<1>7. ASSUME NEW d \in Slip, LookupFails(d) PROVE BnTypeOK'
    BY <1>7, NumbersAssumption DEF LookupFails, RollBack, BnTypeOK
<1>8. ASSUME NEW k \in Books, TakeNumber(k) PROVE BnTypeOK'
  <2>1. counter[k] \in Nat /\ counter[k] < MaxNo
      BY <1>8, NumbersAssumption DEF TakeNumber, BnTypeOK
  <2>2. counter[k] + 1 \in 0..MaxNo
      BY <2>1, NumbersAssumption
  <2>3. counter' \in [Books -> 0..MaxNo] /\ unsaved' \in [Books -> 0..MaxNo]
      BY <1>8, <2>2 DEF TakeNumber, BnTypeOK
  <2>4. QED
      BY <1>8, <2>3 DEF TakeNumber, BnTypeOK
<1>9. ASSUME NEW k \in Books, SaveTaken(k) PROVE BnTypeOK'
  <2>1. unsaved[k] \in 0..MaxNo /\ unsaved[k] # 0 /\ saved[k] \in SUBSET Suffix
      BY <1>9 DEF SaveTaken, BnTypeOK
  <2>2. saved[k] \cup {unsaved[k]} \in SUBSET Suffix
      BY <2>1, NumbersAssumption DEF Suffix
  <2>3. saved' \in [Books -> SUBSET Suffix]
      BY <1>9, <2>2 DEF SaveTaken, BnTypeOK
  <2>4. unsaved' \in [Books -> 0..MaxNo]
      BY <1>9, NumbersAssumption DEF SaveTaken, BnTypeOK
  <2>5. QED
      BY <1>9, <2>3, <2>4 DEF SaveTaken, BnTypeOK
<1>10. CASE Restart \/ Switch \/ UNCHANGED bnVars
    BY <1>10 DEF Restart, Switch, bnVars, BnTypeOK
<1>11. QED
    BY <1>1, <1>2, <1>3, <1>4, <1>5, <1>6, <1>7, <1>8, <1>9, <1>10 DEF BnNext

-----------------------------------------------------------------------------
(* The invariant.                                                          *)

\* An action of the application that only moves drafts, none of them to a
\* confirmation or its check.
LEMMA Elsewhere ==
    ASSUME BnInv, BnTypeOK', NEW e \in Slip, UNCHANGED <<counter, saved, unsaved>>,
           behind \subseteq behind',
           \A d \in Slip \ {e} : /\ slip'[d] = slip[d] /\ ref'[d] = ref[d]
                                 /\ given'[d] = given[d]
                                 /\ d \in unsure => d \in unsure',
           NumberOK(e)'
    PROVE  BnInv'
<1>1. \A k \in Books : counter'[k] \in Nat /\ counter[k] <= counter'[k]
    BY NumbersAssumption DEF BnInv, BnTypeOK
<1>2. ASSUME NEW k \in Books PROVE FromCounter(k)'
    BY DEF BnInv, FromCounter
<1>3. ASSUME NEW d \in Slip PROVE NumberOK(d)'
  <2>1. CASE d = e
      BY <2>1
  <2>2. CASE d # e
      BY <1>1, <2>2, NumberKept
  <2>3. QED
      BY <2>1, <2>2
<1>4. QED
    BY <1>2, <1>3 DEF BnInv

LEMMA BnStep == BnInv /\ [BnNext]_bnVars => BnInv'
<1> SUFFICES ASSUME BnInv, [BnNext]_bnVars PROVE BnInv'
    OBVIOUS
<1> USE DEF bnStore, bnCounter, bnWinspeed
<1>0. BnTypeOK /\ BnTypeOK'
    BY BnTypes DEF BnInv
<1>1. ASSUME NEW d \in Slip, NEW k \in Books, Rebook(d, k) PROVE BnInv'
  <2>1. ref[d] \in [book : Books, n : 0..MaxNo]
      BY <1>0, SlipRow
  <2>2. slip[d] = "DRAFT" /\ slip' = slip /\ ref'[d].n = ref[d].n
      BY <1>0, <1>1, <2>1 DEF Rebook, BnTypeOK
  <2>3. NumberOK(d)'
      BY <2>2 DEF BnInv, NumberOK
  <2>4. \A e \in Slip \ {d} : slip'[e] = slip[e] /\ ref'[e] = ref[e] /\ given'[e] = given[e]
      BY <1>0, <1>1 DEF Rebook, BnTypeOK
  <2>5. UNCHANGED <<counter, saved, unsaved, behind, unsure>>
      BY <1>1 DEF Rebook
  <2>6. QED
      BY <1>0, <2>3, <2>4, <2>5, Elsewhere
<1>2. ASSUME NEW d \in Slip, NEW k \in Books, NEW n \in Suffix, CreateSlip(d, k, n)
      PROVE BnInv'
  <2>1. n \in 0..MaxNo /\ n > 0
      BY NumbersAssumption DEF Suffix
  <2>2. slip'[d] = "DRAFT" /\ ref'[d] = Ref(k, n)
      BY <1>0, <1>2 DEF CreateSlip, BnTypeOK
  <2>3. ref'[d].n = n
      BY <2>1, <2>2, NewRef
  <2>4. NumberOK(d)'
      BY <2>1, <2>2, <2>3 DEF NumberOK
  <2>5. \A e \in Slip \ {d} : slip'[e] = slip[e] /\ ref'[e] = ref[e] /\ given'[e] = given[e]
      BY <1>0, <1>2 DEF CreateSlip, BnTypeOK
  <2>6. UNCHANGED <<counter, saved, unsaved, behind, unsure>>
      BY <1>2 DEF CreateSlip
  <2>7. QED
      BY <1>0, <2>4, <2>5, <2>6, Elsewhere
<1>3. ASSUME NEW d \in Slip, NEW n \in 0..MaxNo, NEW c \in 0..MaxNo,
             NEW a \in 0..MaxNo, CheckNumber(d, n, c, a)
      PROVE BnInv'
  <2>1. /\ slip[d] = "DRAFT" /\ slip'[d] = "checked" /\ given'[d] = n
        /\ ref' = ref /\ d \in Slip
      BY <1>0, <1>3 DEF CheckNumber, BnTypeOK
  <2>2. ref[d].book \in Books /\ ref[d].n \in Nat /\ counter[ref[d].book] \in Nat
      BY <1>0, SlipRow
  <2>3. ref[d].n > 0
      BY <2>1 DEF BnInv, NumberOK
  <2>4. UNCHANGED <<counter, saved, unsaved, behind>>
      BY <1>3 DEF CheckNumber
  <2>5. ASSUME d \notin unsure' PROVE Unissued(Number(d), ref[d].book)'
    <3>1. c = counter[ref[d].book] /\ a = counter[ref[d].book]
        BY <1>3, <2>5 DEF CheckNumber
    <3>2. Number(d)' = IF n = 0 THEN ref[d].n ELSE n
        BY <2>1 DEF Number
    <3>3. CASE Allocates(ref[d].book, n, a)
      <4>1. a < n
          BY <3>3 DEF Allocates
      <4>2. n \in Nat /\ n > counter[ref[d].book] /\ n # 0
          BY <2>2, <3>1, <4>1
      <4>3. Unissued(n, ref[d].book)
          BY <2>2, <4>2, AboveCounter
      <4>4. Number(d)' = n
          BY <3>2, <4>2
      <4>5. QED
          BY <2>1, <2>4, <4>3, <4>4 DEF Unissued
    <3>4. CASE n = 0 /\ ~CounterPassed(ref[d], c)
      <4>1. ref[d].n > counter[ref[d].book]
          BY <2>2, <3>1, <3>4 DEF CounterPassed
      <4>2. Unissued(ref[d].n, ref[d].book)
          BY <2>2, <4>1, AboveCounter
      <4>3. Number(d)' = ref[d].n
          BY <3>2, <3>4
      <4>4. QED
          BY <2>1, <2>4, <4>2, <4>3 DEF Unissued
    <3>5. QED
        BY <1>3, <3>3, <3>4 DEF CheckNumber
  <2>6. NumberOK(d)'
      BY <2>1, <2>3, <2>5 DEF NumberOK
  <2>7. \A e \in Slip \ {d} : /\ slip'[e] = slip[e] /\ ref'[e] = ref[e]
                              /\ given'[e] = given[e] /\ (e \in unsure => e \in unsure')
      BY <1>0, <1>3 DEF CheckNumber, BnTypeOK
  <2>8. QED
      BY <1>0, <2>4, <2>6, <2>7, Elsewhere
<1>4. ASSUME NEW d \in Slip, DeleteSlip(d) PROVE BnInv'
  <2>1. slip[d] = "DRAFT" /\ slip'[d] = "gone" /\ ref' = ref
      BY <1>0, <1>4 DEF DeleteSlip, BnTypeOK
  <2>2. NumberOK(d)'
      BY <2>1 DEF BnInv, NumberOK
  <2>3. \A e \in Slip \ {d} : slip'[e] = slip[e] /\ ref'[e] = ref[e] /\ given'[e] = given[e]
      BY <1>0, <1>4 DEF DeleteSlip, BnTypeOK
  <2>4. UNCHANGED <<counter, saved, unsaved, behind, unsure>>
      BY <1>4 DEF DeleteSlip
  <2>5. QED
      BY <1>0, <2>2, <2>3, <2>4, Elsewhere
<1>5. ASSUME NEW d \in Slip, CommitNumber(d) PROVE BnInv'
  <2> DEFINE r == IF given[d] = 0 THEN ref[d] ELSE Ref(ref[d].book, given[d])
  <2>1. /\ slip[d] = "checked" /\ slip'[d] = "CONFIRMED"
        /\ \/ counter' = [counter EXCEPT ![r.book] = MovedTo(r.book, r.n)] /\ behind' = behind
           \/ behind' = behind \cup {r.book} /\ UNCHANGED counter
        /\ ref'[d] = r
        /\ UNCHANGED <<unsure, unsaved, saved>>
        /\ \A e \in Slip \ {d} : slip'[e] = slip[e] /\ ref'[e] = ref[e] /\ given'[e] = given[e]
      BY <1>0, <1>5 DEF CommitNumber, BnTypeOK
  <2>2. /\ ref[d].book \in Books /\ ref[d].n \in Nat /\ given[d] \in 0..MaxNo
        /\ given[d] \in Nat /\ ref[d].n > 0
      BY <1>0, <2>1, SlipRow DEF BnTypeOK, BnInv, NumberOK
  <2>3. r.book = ref[d].book /\ r.n = Number(d) /\ r.n \in Nat /\ r.n > 0
      BY <2>2, NewRef DEF Number
  <2> HIDE DEF r
  <2>4. \A k \in Books : counter[k] \in Nat
      BY <1>0, NumbersAssumption DEF BnTypeOK
  <2>5. MovedTo(r.book, r.n) \in Nat /\ r.n <= MovedTo(r.book, r.n)
        /\ counter[r.book] <= MovedTo(r.book, r.n)
      BY <2>2, <2>3, <2>4 DEF MovedTo
  <2>6. \A k \in Books : counter'[k] \in Nat /\ counter[k] <= counter'[k]
      BY <1>0, <2>1, <2>2, <2>3, <2>4, <2>5 DEF BnTypeOK
  <2>7. behind \subseteq behind'
      BY <2>1
  <2>8. ASSUME NEW e \in Slip, e # d PROVE NumberOK(e)'
      BY <2>1, <2>6, <2>7, <2>8, NumberKept
  <2>9. NumberOK(d)'
    <3>1. d \notin unsure => r.n \notin saved'[r.book] \cup {unsaved'[r.book]}
        BY <2>1, <2>3 DEF BnInv, NumberOK, Unissued
    <3>2. r.book \notin behind' => r.n <= counter'[r.book]
        BY <1>0, <2>1, <2>2, <2>3, <2>5 DEF BnTypeOK
    <3>3. QED
        BY <2>1, <2>3, <3>1, <3>2 DEF NumberOK, Unissued
  <2>10. ASSUME NEW k \in Books PROVE FromCounter(k)'
    <3>1. unsaved[k] \in Nat /\ \A m \in saved[k] : m \in Nat
        BY <1>0, NumbersAssumption DEF BnTypeOK, Suffix
    <3>2. FromCounter(k)
        BY DEF BnInv
    <3>3. QED
        BY <2>1, <2>4, <2>6, <3>1, <3>2 DEF FromCounter
  <2>11. QED
      BY <1>0, <2>8, <2>9, <2>10 DEF BnInv
<1>6. ASSUME NEW d \in Slip, RollBack(d) PROVE BnInv'
  <2>1. slip[d] = "checked" /\ slip'[d] = "DRAFT" /\ ref' = ref
      BY <1>0, <1>6 DEF RollBack, BnTypeOK
  <2>2. NumberOK(d)'
      BY <2>1 DEF BnInv, NumberOK
  <2>3. \A e \in Slip \ {d} : slip'[e] = slip[e] /\ ref'[e] = ref[e] /\ given'[e] = given[e]
      BY <1>0, <1>6 DEF RollBack, BnTypeOK
  <2>4. UNCHANGED <<counter, saved, unsaved, behind, unsure>>
      BY <1>6 DEF RollBack
  <2>5. QED
      BY <1>0, <2>2, <2>3, <2>4, Elsewhere
<1>7. ASSUME NEW k \in Books, TakeNumber(k) PROVE BnInv'
  <2>1. /\ counter[k] \in Nat /\ counter'[k] = counter[k] + 1
        /\ unsaved'[k] = counter[k] + 1 /\ unsaved[k] = 0
        /\ \A j \in Books \ {k} : counter'[j] = counter[j] /\ unsaved'[j] = unsaved[j]
        /\ UNCHANGED <<slip, ref, given, saved, behind>>
      BY <1>0, <1>7, NumbersAssumption DEF TakeNumber, BnTypeOK
  <2>2. \A j \in Books : /\ counter[j] \in Nat /\ unsaved[j] \in Nat
                         /\ \A m \in saved[j] : m \in Nat
      BY <1>0, NumbersAssumption DEF BnTypeOK, Suffix
  <2>3. ASSUME NEW j \in Books PROVE FromCounter(j)'
    <3>1. FromCounter(j)
        BY DEF BnInv
    <3>2. CASE j = k
        BY <2>1, <2>2, <3>1, <3>2 DEF FromCounter
    <3>3. CASE j # k
        BY <2>1, <3>1, <3>3 DEF FromCounter
    <3>4. QED
        BY <3>2, <3>3
  <2>4. ASSUME NEW d \in Slip PROVE NumberOK(d)'
    <3>1. NumberOK(d)
        BY DEF BnInv
    <3>2. /\ ref[d].book \in Books /\ ref[d].n \in Nat
          /\ Number(d)' = Number(d)
        BY <1>0, <2>1, SlipRow DEF Number
    <3>3. d \notin unsure' => /\ d \notin unsure
                              /\ ~(slip[d] = "checked" /\ ref[d].book = k)
        BY <1>7 DEF TakeNumber
    <3>4. ASSUME slip[d] = "checked", d \notin unsure'
          PROVE  Unissued(Number(d), ref[d].book)'
        BY <2>1, <3>1, <3>2, <3>3, <3>4 DEF NumberOK, Unissued
    <3>5. ASSUME slip[d] = "CONFIRMED", d \notin unsure', ref[d].book \notin behind
          PROVE  Unissued(ref[d].n, ref[d].book)' /\ ref[d].n <= counter'[ref[d].book]
      <4>1. Unissued(ref[d].n, ref[d].book) /\ ref[d].n <= counter[ref[d].book]
          BY <3>1, <3>3, <3>5 DEF NumberOK
      <4>2. CASE ref[d].book # k
          BY <2>1, <3>2, <4>1, <4>2 DEF Unissued
      <4>3. CASE ref[d].book = k
        <5>1. ref[d].n # unsaved'[k] /\ ref[d].n <= counter'[k]
            BY <2>1, <3>2, <4>1, <4>3
        <5>2. ref[d].n \notin saved'[k]
            BY <2>1, <4>1, <4>3 DEF Unissued
        <5>3. QED
            BY <2>1, <4>3, <5>1, <5>2 DEF Unissued
      <4>4. QED
          BY <4>2, <4>3
    <3>6. QED
        BY <2>1, <3>1, <3>4, <3>5 DEF NumberOK
  <2>5. QED
      BY <1>0, <2>3, <2>4 DEF BnInv
<1>8. ASSUME NEW k \in Books, SaveTaken(k) PROVE BnInv'
  <2>1. /\ unsaved'[k] = 0 /\ saved'[k] \subseteq saved[k] \cup {unsaved[k]}
        /\ \A j \in Books \ {k} : saved'[j] = saved[j] /\ unsaved'[j] = unsaved[j]
        /\ UNCHANGED <<counter, slip, ref, given, unsure, behind>>
      BY <1>0, <1>8 DEF SaveTaken, BnTypeOK
  <2>2. \A j \in Books : counter[j] \in Nat
      BY <1>0, NumbersAssumption DEF BnTypeOK
  <2>3. ASSUME NEW j \in Books PROVE FromCounter(j)'
    <3>1. FromCounter(j)
        BY DEF BnInv
    <3>2. CASE j = k
        BY <2>1, <2>2, <3>1, <3>2 DEF FromCounter
    <3>3. CASE j # k
        BY <2>1, <3>1, <3>3 DEF FromCounter
    <3>4. QED
        BY <3>2, <3>3
  <2>4. ASSUME NEW d \in Slip PROVE NumberOK(d)'
    <3>1. NumberOK(d)
        BY DEF BnInv
    <3>2. /\ ref[d].book \in Books /\ ref[d].n \in Nat /\ given[d] \in Nat
          /\ Number(d) \in Nat /\ Number(d)' = Number(d)
        BY <1>0, <2>1, SlipRow DEF Number
    <3>3. slip[d] # "none" => ref[d].n > 0 /\ Number(d) > 0
        BY <3>1, <3>2 DEF NumberOK, Number
    <3>4. ASSUME NEW n \in Nat, n > 0, Unissued(n, ref[d].book)
          PROVE  n \notin saved'[ref[d].book] \cup {unsaved'[ref[d].book]}
        BY <2>1, <3>2, <3>4 DEF Unissued
    <3>5. slip[d] = "checked" /\ d \notin unsure => Unissued(Number(d), ref[d].book)'
        BY <2>1, <3>1, <3>2, <3>3, <3>4 DEF NumberOK, Unissued
    <3>6. slip[d] = "CONFIRMED" /\ d \notin unsure /\ ref[d].book \notin behind =>
             Unissued(ref[d].n, ref[d].book)' /\ ref[d].n <= counter[ref[d].book]
        BY <2>1, <3>1, <3>2, <3>3, <3>4 DEF NumberOK, Unissued
    <3>7. QED
        BY <2>1, <3>1, <3>5, <3>6 DEF NumberOK
  <2>5. QED
      BY <1>0, <2>3, <2>4 DEF BnInv
<1>9. CASE UNCHANGED <<counter, slip, ref, given, unsure, unsaved, saved, behind>>
  <2>1. ASSUME NEW k \in Books PROVE FromCounter(k)'
      BY <1>9 DEF BnInv, FromCounter
  <2>2. ASSUME NEW d \in Slip PROVE NumberOK(d)'
      BY <1>9 DEF BnInv, NumberOK, Number, Unissued
  <2>3. QED
      BY <1>0, <2>1, <2>2 DEF BnInv
<1>10. ASSUME NEW d \in Slip, Abort(d) \/ LookupFails(d) PROVE BnInv'
    BY <1>6, <1>9, <1>10 DEF Abort, LookupFails
<1>11. CASE Restart \/ Switch \/ UNCHANGED bnVars
    BY <1>9, <1>11 DEF Restart, Switch, bnVars
<1>12. QED
    BY <1>1, <1>2, <1>3, <1>4, <1>5, <1>7, <1>8, <1>10, <1>11 DEF BnNext

LEMMA BnStart == BnInit => BnInv
<1> SUFFICES ASSUME BnInit PROVE BnInv
    OBVIOUS
<1>1. 0 \in 0..MaxNo
    BY NumbersAssumption
<1>2. NoRef \in [book : Books, n : 0..MaxNo]
    BY <1>1 DEF NoRef, Books
<1>3. BnTypeOK
    BY <1>1, <1>2 DEF BnInit, BnTypeOK
<1>4. \A k \in Books : FromCounter(k)
    BY DEF BnInit, FromCounter
<1>5. \A d \in Slip : NumberOK(d)
    BY DEF BnInit, NumberOK
<1>6. QED
    BY <1>3, <1>4, <1>5 DEF BnInv

LEMMA BnInvariant == BnSpec => []BnInv
BY BnStart, BnStep, PTL DEF BnSpec

\* The numbers keep their types.
THEOREM NumbersTyped == BnSpec => []BnTypeOK
<1>1. BnInv => BnTypeOK
    BY DEF BnInv
<1>2. QED
    BY <1>1, BnInvariant, PTL

\* A booking of the application keeps a number WINSpeed did not give out,
\* unless its confirmation could not see the counter.
THEOREM NumbersIssuedOnce == BnSpec => []NumberIssuedOnce
<1>1. BnInv => NumberIssuedOnce
    BY DEF BnInv, NumberOK, Unissued, NumberIssuedOnce
<1>2. QED
    BY <1>1, BnInvariant, PTL

-----------------------------------------------------------------------------
(* The requests to edit a booking.                                         *)

\* What a handler may be doing.
Acts == {Idle} \cup Creating \cup Deciding \cup Listing

\* The record of a handler at a statement.
LEMMA CallAt ==
    ASSUME EdTypeOK, NEW k \in Call
    PROVE  /\ call[k] \in Acts
           /\ call[k].at \in {"dup", "insert"} => call[k] \in Creating
           /\ call[k].at \in {"hold", "logHold", "approve", "unlock", "cancel",
                              "release"} => call[k] \in Deciding
           /\ call[k].at \in {"disable", "delete"} => call[k] \in Listing
           /\ call[k] = Idle => call[k].at = "idle"
<1>1. call[k] \in Acts
    BY DEF EdTypeOK, Acts
<1>2. Idle.at = "idle"
    BY DEF Idle
<1>3. call[k] \in Creating => call[k].at \in {"dup", "insert"}
    BY DEF Creating
<1>4. call[k] \in Deciding =>
         call[k].at \in {"hold", "logHold", "approve", "unlock", "cancel", "release"}
    BY DEF Deciding
<1>5. call[k] \in Listing => call[k].at \in {"disable", "delete"}
    BY DEF Listing
<1>6. QED
    BY <1>1, <1>2, <1>3, <1>4, <1>5 DEF Acts

\* A record that is sent on to another statement.
LEMMA SentOn ==
    ASSUME NEW c \in Deciding,
           NEW at \in {"hold", "logHold", "approve", "unlock", "cancel", "release"}
    PROVE  /\ [c EXCEPT !.at = at] \in Deciding
           /\ [c EXCEPT !.at = at].at = at
           /\ [c EXCEPT !.at = at].q = c.q
           /\ [c EXCEPT !.at = at].u = c.u
           /\ c.q \in Req /\ c.u \in User
BY DEF Deciding

\* A handler that begins on a request.
LEMMA Begins ==
    ASSUME NEW at \in {"hold", "logHold", "approve", "unlock", "cancel", "release"},
           NEW q \in Req, NEW u \in User
    PROVE  /\ Doing(at, q, u) \in Deciding
           /\ Doing(at, q, u).at = at
           /\ Doing(at, q, u).q = q
           /\ Doing(at, q, u).u = u
BY DEF Doing, Deciding

\* What an action that only moves handler k leaves of the types.
LEMMA CallMoves ==
    ASSUME EdTypeOK, NEW k \in Call, NEW c \in Acts, Go(k, c)
    PROVE  /\ call' \in [Call -> Acts]
           /\ call'[k] = c
           /\ \A j \in Call \ {k} : call'[j] = call[j]
BY DEF EdTypeOK, Go, Acts

\* The columns a decision writes.
LEMMA Closes ==
    ASSUME EdTypeOK, NEW q \in Req, NEW u \in User, NEW s \in Ended, Close(q, u, s)
    PROVE  /\ status' \in [Req -> {"none", "PENDING"} \cup Ended]
           /\ reviewer' \in [Req -> User \cup {NoUser}]
           /\ faults' \in Nat
           /\ \A p \in Req : status[p] # "PENDING" \/ p # q =>
                 status'[p] = status[p] /\ reviewer'[p] = reviewer[p]
           /\ status[q] # "none" => status'[q] \in Ended
           /\ \A p \in Req : status'[p] = "PENDING" => status[p] = "PENDING"
           /\ \A p \in Req : status'[p] = "none" <=> status[p] = "none"
<1>0. "PENDING" \notin Ended /\ "none" \notin Ended
    BY DEF Ended
<1>00. status \in [Req -> {"none", "PENDING"} \cup Ended]
       /\ reviewer \in [Req -> User \cup {NoUser}] /\ faults \in Nat
    BY DEF EdTypeOK
<1>1. CASE StillOpen(q)
  <2>1. /\ status' = [status EXCEPT ![q] = s]
        /\ reviewer' = [reviewer EXCEPT ![q] = u]
        /\ faults' \in {1, faults}
        /\ status[q] = "PENDING"
      BY <1>1 DEF Close, StillOpen
  <2>2. /\ status' \in [Req -> {"none", "PENDING"} \cup Ended]
        /\ reviewer' \in [Req -> User \cup {NoUser}]
        /\ faults' \in Nat
      BY <1>00, <2>1
  <2>3. status'[q] = s /\ \A p \in Req \ {q} : status'[p] = status[p] /\ reviewer'[p] = reviewer[p]
      BY <1>00, <2>1
  <2>4. QED
      BY <1>0, <2>1, <2>2, <2>3
<1>2. CASE ~StillOpen(q)
  <2>1. UNCHANGED <<status, reviewer, faults>> /\ status[q] # "PENDING"
      BY <1>2 DEF Close, StillOpen
  <2>2. status[q] \in {"none", "PENDING"} \cup Ended
      BY <1>00
  <2>3. QED
      BY <1>00, <2>1, <2>2
<1>3. QED
    BY <1>1, <1>2

\* Where a handler goes after its decision.
LEMMA Finishes ==
    ASSUME EdTypeOK, NEW k \in Call, NEW q \in Req, NEW u \in User, Finish(k, q, u)
    PROVE  \E c \in Acts : Go(k, c) /\ c.at \in {"idle", "release"}
<1>1. CASE ToRelease(q)
    BY <1>1, Begins DEF Finish, Acts
<1>2. CASE ~ToRelease(q)
    BY <1>2 DEF Finish, Acts, Idle
<1>3. QED
    BY <1>1, <1>2

-----------------------------------------------------------------------------
(* One lemma for each kind of action says what it does to the requests and *)
(* to the handlers; all else follows from these.                           *)

\* A handler may unlock the booking only for somebody else's request, and
\* only when that has been decided.
Entitled(k) ==
    /\ call[k].at = "approve" =>
          call[k].u # by[call[k].q] /\ status[call[k].q] # "none"
    /\ call[k].at = "unlock" =>
          call[k].u # by[call[k].q] /\ status[call[k].q] \in Ended

Inserting == {k \in Call : call[k].at = "insert"}

EdInv == EdTypeOK /\ OneForEachCall /\ \A k \in Call : Entitled(k)

\* The rows of the requests as a step leaves them: none is lost, an open one
\* may end, an ended one is final.
RowsStep ==
    /\ \A p \in Req : status[p] # "none" => status'[p] # "none" /\ by'[p] = by[p]
    /\ \A p \in Req : status[p] \in Ended =>
          status'[p] = status[p] /\ reviewer'[p] = reviewer[p]

\* A step after which no handler inserts that did not before.
LEMMA QuietAll ==
    ASSUME EdInv, EdTypeOK',
           \A j \in Call : \/ call'[j] = call[j]
                           \/ call'[j].at # "insert" /\ Entitled(j)',
           RowsStep,
           \A p \in Req : status'[p] = "PENDING" => status[p] = "PENDING"
    PROVE  EdInv' /\ RowsStep
<1>1. Pending' \subseteq Pending /\ Inserting' \subseteq Inserting
    BY DEF Pending, Inserting
<1>2. IsFiniteSet(Pending) /\ IsFiniteSet(Inserting)
    BY EditAssumption, FS_Subset DEF Pending, Inserting
<1>3. /\ Cardinality(Pending') <= Cardinality(Pending)
      /\ Cardinality(Inserting') <= Cardinality(Inserting)
    BY <1>1, <1>2, FS_Subset
<1>4. IsFiniteSet(Pending') /\ IsFiniteSet(Inserting')
    BY <1>1, <1>2, FS_Subset
<1>5. /\ Cardinality(Pending) \in Nat /\ Cardinality(Inserting) \in Nat
      /\ Cardinality(Pending') \in Nat /\ Cardinality(Inserting') \in Nat
      /\ Cardinality(Call) \in Nat
    BY <1>2, <1>4, EditAssumption, FS_CardinalityType
<1>6. Cardinality(Pending) + Cardinality(Inserting) <= Cardinality(Call)
    BY DEF EdInv, OneForEachCall, Inserting
<1>7. Cardinality(Pending') + Cardinality(Inserting') <= Cardinality(Call)
    BY <1>3, <1>5, <1>6
<1>8. OneForEachCall'
    BY <1>7 DEF OneForEachCall, Inserting
<1>9. ASSUME NEW j \in Call, call'[j] = call[j] PROVE Entitled(j)'
  <2>1. Entitled(j)
      BY DEF EdInv
  <2>2. call[j].at \in {"approve", "unlock"} => call[j].q \in Req
      BY CallAt, SentOn DEF EdInv
  <2>3. call[j].at \in {"approve", "unlock"} => status[call[j].q] # "none"
      BY <2>1 DEF Entitled, Ended
  <2>4. call[j].at \in {"approve", "unlock"} =>
           /\ status'[call[j].q] # "none" /\ by'[call[j].q] = by[call[j].q]
           /\ status[call[j].q] \in Ended => status'[call[j].q] \in Ended
      BY <2>2, <2>3 DEF RowsStep
  <2>5. QED
      BY <1>9, <2>1, <2>4 DEF Entitled
<1>10. \A j \in Call : Entitled(j)'
    BY <1>9
<1>11. QED
    BY <1>8, <1>10 DEF EdInv

\* The step of one handler that does not go to the insert.
LEMMA Quiet ==
    ASSUME EdInv, EdTypeOK', NEW k \in Call,
           \A j \in Call \ {k} : call'[j] = call[j],
           call'[k].at # "insert",
           Entitled(k)',
           RowsStep,
           \A p \in Req : status'[p] = "PENDING" => status[p] = "PENDING"
    PROVE  EdInv' /\ RowsStep
<1>1. \A j \in Call : \/ call'[j] = call[j]
                      \/ call'[j].at # "insert" /\ Entitled(j)'
  <2> SUFFICES ASSUME NEW j \in Call
               PROVE  \/ call'[j] = call[j]
                      \/ call'[j].at # "insert" /\ Entitled(j)'
      OBVIOUS
  <2>1. CASE j = k
      BY <2>1
  <2>2. CASE j # k
      BY <2>2
  <2>3. QED
      BY <2>1, <2>2
<1>2. QED
    BY <1>1, QuietAll

\* POST / up to the check for an open request.
LEMMA CreateSteps ==
    ASSUME EdInv, NEW k \in Call,
           (\E u \in User, c \in Reason : StartCreate(k, u, c)) \/ CheckDuplicate(k)
    PROVE  EdInv' /\ RowsStep
<1> USE DEF edWorld, edTruck, edReasons, edRequests
<1>0. EdTypeOK
    BY DEF EdInv
<1>1. ASSUME NEW u \in User, NEW c \in Reason, StartCreate(k, u, c)
      PROVE EdInv' /\ RowsStep
  <2> DEFINE row == [at |-> "dup", u |-> u, c |-> c,
                     hold |-> reasons[c].hold /\ CurrentStage # "CONFIRMED"]
  <2>1. c \in DOMAIN reasons /\ reasons \in [DOMAIN reasons -> RuleRow]
      BY <1>0, <1>1 DEF StartCreate, EdTypeOK
  <2>2. reasons[c] \in RuleRow
      BY <2>1
  <2>3. reasons[c].hold \in BOOLEAN
      BY <2>2 DEF RuleRow
  <2>4. row \in Creating /\ row.at = "dup"
      BY <2>3 DEF Creating
  <2>5. Go(k, row) /\ UNCHANGED <<edWorld, unlocked, edTruck, edReasons, edRequests, faults>>
      BY <1>1 DEF StartCreate
  <2> HIDE DEF row
  <2>6. row \in Acts
      BY <2>4 DEF Acts
  <2>7. /\ call' \in [Call -> Acts] /\ call'[k] = row
        /\ \A j \in Call \ {k} : call'[j] = call[j]
      BY <1>0, <2>5, <2>6, CallMoves
  <2>8. EdTypeOK'
      BY <1>0, <2>5, <2>7 DEF EdTypeOK, Acts
  <2>9. Entitled(k)'
      BY <2>4, <2>7 DEF Entitled
  <2>10. RowsStep
      BY <2>5 DEF RowsStep
  <2>11. call'[k].at # "insert" /\ status' = status
      BY <2>4, <2>5, <2>7
  <2>12. QED
      BY <2>7, <2>8, <2>9, <2>10, <2>11, Quiet
<1>2. CASE CheckDuplicate(k)
  <2>1. call[k] \in Creating
      BY <1>0, <1>2, CallAt DEF CheckDuplicate
  <2>2. UNCHANGED <<edWorld, unlocked, edTruck, edReasons, edRequests, faults>>
      BY <1>2 DEF CheckDuplicate
  <2>3. RowsStep
      BY <2>2 DEF RowsStep
  <2>4. CASE Pending = {}
    <3> DEFINE row == [call[k] EXCEPT !.at = "insert"]
    <3>1. row \in Creating /\ row.at = "insert"
        BY <2>1 DEF Creating
    <3>2. Go(k, row)
        BY <1>2, <2>4 DEF CheckDuplicate, NoneOpen
    <3> HIDE DEF row
    <3>3. row \in Acts
        BY <3>1 DEF Acts
    <3>4. /\ call' \in [Call -> Acts] /\ call'[k] = row
          /\ \A j \in Call \ {k} : call'[j] = call[j]
        BY <1>0, <3>2, <3>3, CallMoves
    <3>5. EdTypeOK'
        BY <1>0, <2>2, <3>4 DEF EdTypeOK, Acts
    <3>6. ASSUME NEW j \in Call PROVE Entitled(j)'
        BY <2>2, <3>1, <3>4 DEF EdInv, Entitled
    <3>7. Pending' = {} /\ Inserting' \subseteq Call
        BY <2>2, <2>4 DEF Pending, Inserting
    <3>8. Cardinality(Pending') = 0 /\ Cardinality(Inserting') <= Cardinality(Call)
        BY <3>7, EditAssumption, FS_EmptySet, FS_Subset
    <3>9. IsFiniteSet(Inserting')
        BY <3>7, EditAssumption, FS_Subset
    <3>10. Cardinality(Inserting') \in Nat /\ Cardinality(Call) \in Nat
        BY <3>9, EditAssumption, FS_CardinalityType
    <3>11. OneForEachCall'
        BY <3>8, <3>10 DEF OneForEachCall, Inserting
    <3>12. QED
        BY <2>3, <3>5, <3>6, <3>11 DEF EdInv
  <2>5. CASE Pending # {}
    <3>1. Go(k, Idle)
        BY <1>2, <2>5 DEF CheckDuplicate, NoneOpen
    <3>2. Idle \in Acts /\ Idle.at = "idle"
        BY DEF Acts, Idle
    <3>3. /\ call' \in [Call -> Acts] /\ call'[k] = Idle
          /\ \A j \in Call \ {k} : call'[j] = call[j]
        BY <1>0, <3>1, <3>2, CallMoves
    <3>4. EdTypeOK'
        BY <1>0, <2>2, <3>3 DEF EdTypeOK, Acts
    <3>5. Entitled(k)' /\ call'[k].at # "insert" /\ status' = status
        BY <2>2, <3>2, <3>3 DEF Entitled
    <3>6. QED
        BY <2>3, <3>3, <3>4, <3>5, Quiet
  <2>6. QED
      BY <2>4, <2>5
<1>3. QED
    BY <1>1, <1>2

\* The insert: one more open request, one handler less that may add one.
LEMMA InsertStep ==
    ASSUME EdInv, NEW k \in Call, NEW q \in Req, Insert(k, q)
    PROVE  EdInv' /\ RowsStep
<1> USE DEF edWorld, edTruck, edReasons, edRequests
<1>0. EdTypeOK
    BY DEF EdInv
<1>1. call[k].at = "insert" /\ call[k] \in Creating /\ status[q] = "none"
    BY <1>0, CallAt DEF Insert
<1>2. call[k].u \in User /\ call[k].c \in Reason /\ call[k].hold \in BOOLEAN
    BY <1>1 DEF Creating
<1>3. Idle \in Acts /\ Idle.at = "idle"
    BY DEF Acts, Idle
<1>4. CASE call[k].c \in DOMAIN reasons
  <2> DEFINE row == IF call[k].hold THEN Doing("hold", q, call[k].u) ELSE Idle
  <2>1. /\ status' = [status EXCEPT ![q] = "PENDING"]
        /\ by' = [by EXCEPT ![q] = call[k].u]
        /\ reason' = [reason EXCEPT ![q] = call[k].c]
        /\ holds' = [holds EXCEPT ![q] = call[k].hold]
        /\ Go(k, row)
        /\ UNCHANGED <<edWorld, unlocked, edTruck, edReasons, reviewer, faults>>
      BY <1>4 DEF Insert
  <2>2. row \in Acts /\ row.at \in {"hold", "idle"}
      BY <1>2, <1>3, Begins DEF Acts
  <2> HIDE DEF row
  <2>3. /\ call' \in [Call -> Acts] /\ call'[k] = row
        /\ \A j \in Call \ {k} : call'[j] = call[j]
      BY <1>0, <2>1, <2>2, CallMoves
  <2>4. /\ status' \in [Req -> {"none", "PENDING"} \cup Ended]
        /\ by' \in [Req -> User \cup {NoUser}]
        /\ reason' \in [Req -> Reason \cup {NoReason}]
        /\ holds' \in [Req -> BOOLEAN]
      BY <1>0, <1>2, <2>1 DEF EdTypeOK
  <2>5. EdTypeOK'
      BY <1>0, <2>1, <2>3, <2>4 DEF EdTypeOK, Acts
  <2>6. /\ status'[q] = "PENDING" /\ by'[q] = call[k].u
        /\ \A p \in Req \ {q} : status'[p] = status[p] /\ by'[p] = by[p]
      BY <1>0, <2>1 DEF EdTypeOK
  <2>7. RowsStep
      BY <1>1, <2>1, <2>6 DEF RowsStep, Ended
  <2>8. ASSUME NEW j \in Call PROVE Entitled(j)'
    <3>1. CASE j = k
        BY <2>2, <2>3, <3>1 DEF Entitled
    <3>2. CASE j # k
      <4>1. call'[j] = call[j] /\ Entitled(j)
          BY <2>3, <3>2 DEF EdInv
      <4>2. call[j].at \in {"approve", "unlock"} =>
               call[j].q \in Req /\ status[call[j].q] # "none"
          BY <1>0, <4>1, CallAt, SentOn DEF Entitled, Ended
      <4>3. call[j].at \in {"approve", "unlock"} =>
               status'[call[j].q] = status[call[j].q] /\ by'[call[j].q] = by[call[j].q]
          BY <1>1, <2>6, <4>2
      <4>4. QED
          BY <4>1, <4>3 DEF Entitled
    <3>3. QED
        BY <3>1, <3>2
  <2>9. Pending' = Pending \cup {q} /\ q \notin Pending
      BY <1>1, <2>6 DEF Pending
  <2>10. Inserting' = Inserting \ {k} /\ k \in Inserting
      BY <1>1, <2>2, <2>3 DEF Inserting
  <2>11. IsFiniteSet(Pending) /\ IsFiniteSet(Inserting)
      BY EditAssumption, FS_Subset DEF Pending, Inserting
  <2>12. Cardinality(Pending') = Cardinality(Pending) + 1
      BY <2>9, <2>11, FS_AddElement
  <2>13. Cardinality(Inserting') = Cardinality(Inserting) - 1
      BY <2>10, <2>11, FS_RemoveElement
  <2>14. /\ Cardinality(Pending) \in Nat /\ Cardinality(Inserting) \in Nat
         /\ Cardinality(Call) \in Nat
      BY <2>11, EditAssumption, FS_CardinalityType
  <2>15. Cardinality(Pending) + Cardinality(Inserting) <= Cardinality(Call)
      BY DEF EdInv, OneForEachCall, Inserting
  <2>16. Cardinality(Pending') + Cardinality(Inserting') <= Cardinality(Call)
      BY <2>12, <2>13, <2>14, <2>15
  <2>17. OneForEachCall'
      BY <2>16 DEF OneForEachCall, Inserting
  <2>18. QED
      BY <2>5, <2>7, <2>8, <2>17 DEF EdInv
<1>5. CASE call[k].c \notin DOMAIN reasons
  <2>1. /\ Go(k, Idle)
        /\ UNCHANGED <<edWorld, unlocked, edTruck, edReasons, edRequests, faults>>
      BY <1>5 DEF Insert
  <2>2. /\ call' \in [Call -> Acts] /\ call'[k] = Idle
        /\ \A j \in Call \ {k} : call'[j] = call[j]
      BY <1>0, <1>3, <2>1, CallMoves
  <2>3. EdTypeOK'
      BY <1>0, <2>1, <2>2 DEF EdTypeOK, Acts
  <2>4. RowsStep
      BY <2>1 DEF RowsStep
  <2>5. Entitled(k)' /\ call'[k].at # "insert" /\ status' = status
      BY <1>3, <2>1, <2>2 DEF Entitled
  <2>6. QED
      BY <2>2, <2>3, <2>4, <2>5, Quiet
<1>6. QED
    BY <1>4, <1>5

\* The hold and its release.
LEMMA HoldSteps ==
    ASSUME EdInv, NEW k \in Call, WriteHold(k) \/ LogHold(k) \/ Release(k)
    PROVE  EdInv' /\ RowsStep
<1> USE DEF edWorld, edTruck, edReasons, edRequests
<1>0. EdTypeOK
    BY DEF EdInv
<1>1. call[k] \in Deciding
    BY <1>0, CallAt DEF WriteHold, LogHold, Release
<1>2. [call[k] EXCEPT !.at = "logHold"] \in Deciding
      /\ [call[k] EXCEPT !.at = "logHold"].at = "logHold"
    BY <1>1, SentOn
<1>3. Idle.at = "idle"
    BY DEF Idle
<1>4. \E c \in Acts : Go(k, c) /\ c.at \in {"idle", "logHold"}
    BY <1>2, <1>3 DEF WriteHold, LogHold, Release, Acts
<1>5. PICK c \in Acts : Go(k, c) /\ c.at \in {"idle", "logHold"}
    BY <1>4
<1>6. /\ call' \in [Call -> Acts] /\ call'[k] = c
      /\ \A j \in Call \ {k} : call'[j] = call[j]
    BY <1>0, <1>5, CallMoves
<1>7. /\ held' \in {"N", "APP", "STAFF"} /\ logged' \in BOOLEAN
      /\ UNCHANGED <<edWorld, unlocked, edReasons, edRequests, faults>>
    BY <1>0 DEF WriteHold, LogHold, Release, EdTypeOK
<1>8. EdTypeOK'
    BY <1>0, <1>6, <1>7 DEF EdTypeOK, Acts
<1>9. RowsStep
    BY <1>7 DEF RowsStep
<1>10. Entitled(k)' /\ call'[k].at # "insert" /\ status' = status
    BY <1>5, <1>6, <1>7 DEF Entitled
<1>11. QED
    BY <1>6, <1>8, <1>9, <1>10, Quiet

\* The first read of an approval or a withdrawal.
LEMMA StartSteps ==
    ASSUME EdInv, NEW k \in Call, NEW q \in Req, NEW u \in User,
           StartApprove(k, q, u) \/ StartCancel(k, q, u)
    PROVE  EdInv' /\ RowsStep
<1> USE DEF edWorld, edTruck, edReasons, edRequests
<1>0. EdTypeOK
    BY DEF EdInv
<1>1. PICK at \in {"approve", "cancel"} :
         /\ Go(k, Doing(at, q, u))
         /\ status[q] = "PENDING"
         /\ at = "approve" => by[q] # u
    BY DEF StartApprove, StartCancel, NotOwn
<1>2. /\ Doing(at, q, u) \in Deciding /\ Doing(at, q, u).at = at
      /\ Doing(at, q, u).q = q /\ Doing(at, q, u).u = u
    BY Begins
<1>3. Doing(at, q, u) \in Acts
    BY <1>2 DEF Acts
<1>4. /\ call' \in [Call -> Acts] /\ call'[k] = Doing(at, q, u)
      /\ \A j \in Call \ {k} : call'[j] = call[j]
    BY <1>0, <1>1, <1>3, CallMoves
<1>5. UNCHANGED <<edWorld, unlocked, edTruck, edReasons, edRequests, faults>>
    BY DEF StartApprove, StartCancel
<1>6. EdTypeOK'
    BY <1>0, <1>4, <1>5 DEF EdTypeOK, Acts
<1>7. RowsStep
    BY <1>5 DEF RowsStep
<1>8. Entitled(k)' /\ call'[k].at # "insert" /\ status' = status
    BY <1>1, <1>2, <1>4, <1>5 DEF Entitled
<1>9. QED
    BY <1>4, <1>6, <1>7, <1>8, Quiet

\* A decision on a request.
LEMMA CloseStep ==
    ASSUME EdInv, NEW k \in Call, NEW q \in Req, NEW u \in User, NEW s \in Ended,
           Close(q, u, s), NEW c \in Acts, Go(k, c),
           c.at \in {"idle", "release", "unlock"},
           c.at = "unlock" => c.q = q /\ c.u # by[q] /\ status[q] # "none",
           UNCHANGED <<edWorld, unlocked, edTruck, edReasons, by, reason, holds>>
    PROVE  EdInv' /\ RowsStep
<1> USE DEF edWorld, edTruck, edReasons, edRequests
<1>0. EdTypeOK
    BY DEF EdInv
<1>1. /\ call' \in [Call -> Acts] /\ call'[k] = c
      /\ \A j \in Call \ {k} : call'[j] = call[j]
    BY <1>0, CallMoves
<1>2. /\ status' \in [Req -> {"none", "PENDING"} \cup Ended]
      /\ reviewer' \in [Req -> User \cup {NoUser}]
      /\ faults' \in Nat
      /\ \A p \in Req : status[p] # "PENDING" \/ p # q =>
            status'[p] = status[p] /\ reviewer'[p] = reviewer[p]
      /\ status[q] # "none" => status'[q] \in Ended
      /\ \A p \in Req : status'[p] = "PENDING" => status[p] = "PENDING"
      /\ \A p \in Req : status'[p] = "none" <=> status[p] = "none"
    BY <1>0, Closes
<1>3. EdTypeOK'
    BY <1>0, <1>1, <1>2 DEF EdTypeOK, Acts
<1>4. RowsStep
    BY <1>2 DEF RowsStep, Ended
<1>5. Entitled(k)' /\ call'[k].at # "insert"
    BY <1>1, <1>2 DEF Entitled
<1>6. QED
    BY <1>1, <1>2, <1>3, <1>4, <1>5, Quiet

LEMMA DecisionSteps ==
    ASSUME EdInv, NEW k \in Call,
           \/ ApproveRow(k) \/ CancelRow(k)
           \/ \E q \in Req, u \in User : Reject(k, q, u)
    PROVE  EdInv' /\ RowsStep
<1>0. EdTypeOK
    BY DEF EdInv
<1>1. CASE ApproveRow(k)
  <2>1. call[k].at = "approve" /\ call[k] \in Deciding
      BY <1>0, <1>1, CallAt DEF ApproveRow
  <2> DEFINE row == [call[k] EXCEPT !.at = "unlock"]
  <2>2. /\ row \in Deciding /\ row.at = "unlock" /\ row.q = call[k].q
        /\ row.u = call[k].u /\ call[k].q \in Req /\ call[k].u \in User
      BY <2>1, SentOn
  <2>3. Go(k, row) /\ Close(call[k].q, call[k].u, "APPROVED")
        /\ UNCHANGED <<edWorld, unlocked, edTruck, edReasons, by, reason, holds>>
      BY <1>1 DEF ApproveRow
  <2> HIDE DEF row
  <2>4. row \in Acts /\ "APPROVED" \in Ended
      BY <2>2 DEF Acts, Ended
  <2>5. call[k].u # by[call[k].q] /\ status[call[k].q] # "none"
      BY <2>1 DEF EdInv, Entitled
  <2>6. QED
      BY <2>2, <2>3, <2>4, <2>5, CloseStep
<1>2. CASE CancelRow(k)
  <2>1. call[k].at = "cancel" /\ call[k] \in Deciding
      BY <1>0, <1>2, CallAt DEF CancelRow
  <2>2. call[k].q \in Req /\ call[k].u \in User /\ "CANCELLED" \in Ended
      BY <2>1 DEF Deciding, Ended
  <2>3. /\ Finish(k, call[k].q, call[k].u) /\ Close(call[k].q, call[k].u, "CANCELLED")
        /\ UNCHANGED <<edWorld, unlocked, edTruck, edReasons, by, reason, holds>>
      BY <1>2 DEF CancelRow
  <2>4. PICK c \in Acts : Go(k, c) /\ c.at \in {"idle", "release"}
      BY <1>0, <2>2, <2>3, Finishes
  <2>5. QED
      BY <2>2, <2>3, <2>4, CloseStep
<1>3. ASSUME NEW q \in Req, NEW u \in User, Reject(k, q, u)
      PROVE EdInv' /\ RowsStep
  <2>1. /\ Finish(k, q, u) /\ Close(q, u, "REJECTED") /\ "REJECTED" \in Ended
        /\ UNCHANGED <<edWorld, unlocked, edTruck, edReasons, by, reason, holds>>
      BY <1>3 DEF Reject, Ended
  <2>2. PICK c \in Acts : Go(k, c) /\ c.at \in {"idle", "release"}
      BY <1>0, <2>1, Finishes
  <2>3. QED
      BY <2>1, <2>2, CloseStep
<1>4. QED
    BY <1>1, <1>2, <1>3

\* The lock flag follows the decision.
LEMMA UnlockStep ==
    ASSUME EdInv, NEW k \in Call, Unlock(k)
    PROVE  EdInv' /\ RowsStep
<1> USE DEF edWorld, edTruck, edReasons, edRequests
<1>0. EdTypeOK
    BY DEF EdInv
<1>1. call[k] \in Deciding
    BY <1>0, CallAt DEF Unlock
<1>2. call[k].q \in Req /\ call[k].u \in User
    BY <1>1 DEF Deciding
<1>3. PICK c \in Acts : Go(k, c) /\ c.at \in {"idle", "release"}
    BY <1>0, <1>2, Finishes DEF Unlock
<1>4. /\ call' \in [Call -> Acts] /\ call'[k] = c
      /\ \A j \in Call \ {k} : call'[j] = call[j]
    BY <1>0, <1>3, CallMoves
<1>5. unlocked' = TRUE /\ UNCHANGED <<edWorld, edTruck, edReasons, edRequests, faults>>
    BY DEF Unlock
<1>6. EdTypeOK'
    BY <1>0, <1>4, <1>5 DEF EdTypeOK, Acts
<1>7. RowsStep
    BY <1>5 DEF RowsStep
<1>8. Entitled(k)' /\ call'[k].at # "insert" /\ status' = status
    BY <1>3, <1>4, <1>5 DEF Entitled
<1>9. QED
    BY <1>4, <1>6, <1>7, <1>8, Quiet

\* The rows of the list.
LEMMA ReasonRows ==
    ASSUME EdTypeOK
    PROVE  /\ DOMAIN reasons \in SUBSET Reason
           /\ \A d \in DOMAIN reasons : reasons[d] \in RuleRow
           /\ \A r \in RuleRow, b \in BOOLEAN : [r EXCEPT !.active = b] \in RuleRow
           /\ \A r \in RuleRow : r.active \in BOOLEAN
<1>1. DOMAIN reasons \in SUBSET Reason /\ reasons \in [DOMAIN reasons -> RuleRow]
    BY DEF EdTypeOK
<1>2. \A d \in DOMAIN reasons : reasons[d] \in RuleRow
    BY <1>1
<1>3. QED
    BY <1>1, <1>2 DEF RuleRow

\* The list of reasons is written, and by whom does not matter to the rest.
LEMMA ListSteps ==
    ASSUME EdInv, NEW k \in Call,
           \/ \E c \in Reason, at \in {"disable", "delete"} : StartReason(k, c, at)
           \/ DisableReason(k) \/ DeleteReason(k)
    PROVE  EdInv' /\ RowsStep
<1> USE DEF edWorld, edTruck, edReasons, edRequests, ListWork
<1>0. EdTypeOK
    BY DEF EdInv
<1>1. UNCHANGED <<weigh, issued, unlocked, held, logged, status, by, reviewer,
                  reason, holds, faults>>
    BY DEF StartReason, DisableReason, DeleteReason
<1>2. \E c \in Acts : Go(k, c) /\ c.at \in {"idle", "disable", "delete"}
  <2>1. ASSUME NEW c \in Reason, NEW at \in {"disable", "delete"}, StartReason(k, c, at)
        PROVE  \E d \in Acts : Go(k, d) /\ d.at \in {"idle", "disable", "delete"}
    <3>1. [at |-> at, c |-> c] \in Listing /\ [at |-> at, c |-> c].at = at
        BY DEF Listing
    <3>2. QED
        BY <2>1, <3>1 DEF StartReason, Acts
  <2>2. Idle \in Acts /\ Idle.at = "idle"
      BY DEF Acts, Idle
  <2>3. QED
      BY <2>1, <2>2 DEF DisableReason, DeleteReason
<1>3. PICK c \in Acts : Go(k, c) /\ c.at \in {"idle", "disable", "delete"}
    BY <1>2
<1>4. /\ call' \in [Call -> Acts] /\ call'[k] = c
      /\ \A j \in Call \ {k} : call'[j] = call[j]
    BY <1>0, <1>3, CallMoves
<1>5. DOMAIN reasons' \in SUBSET Reason /\ reasons' \in [DOMAIN reasons' -> RuleRow]
  <2>1. CASE UNCHANGED reasons
      BY <1>0, <2>1 DEF EdTypeOK
  <2>2. CASE DisableReason(k)
    <3>1. reasons' = [d \in DOMAIN reasons |->
                        [reasons[d] EXCEPT !.active = @ /\ d # call[k].c]]
        BY <2>2 DEF DisableReason
    <3>2. ASSUME NEW d \in DOMAIN reasons PROVE reasons'[d] \in RuleRow
      <4>1. /\ reasons[d] \in RuleRow /\ reasons[d].active \in BOOLEAN
            /\ (reasons[d].active /\ d # call[k].c) \in BOOLEAN
          BY <1>0, ReasonRows
      <4>2. reasons'[d] = [reasons[d] EXCEPT !.active = reasons[d].active /\ d # call[k].c]
          BY <3>1
      <4>3. QED
          BY <1>0, <4>1, <4>2, ReasonRows
    <3>3. DOMAIN reasons' = DOMAIN reasons
          /\ reasons' = [d \in DOMAIN reasons |-> reasons'[d]]
        BY <3>1
    <3>4. QED
        BY <1>0, <3>2, <3>3, ReasonRows
  <2>3. CASE DeleteReason(k) /\ KeyAllows(call[k].c)
    <3>1. reasons' = [d \in DOMAIN reasons \ {call[k].c} |-> reasons[d]]
        BY <2>3 DEF DeleteReason
    <3>2. QED
        BY <1>0, <3>1, ReasonRows
  <2>4. QED
      BY <2>1, <2>2, <2>3 DEF StartReason, DisableReason, DeleteReason
<1>6. admins' \in Nat
  <2>1. admins \in Nat
      BY <1>0 DEF EdTypeOK
  <2>2. admins' = admins \/ admins' = admins + 1
      BY DEF StartReason, DisableReason, DeleteReason
  <2>3. QED
      BY <2>1, <2>2
<1>7. EdTypeOK'
    BY <1>0, <1>1, <1>4, <1>5, <1>6 DEF EdTypeOK, Acts
<1>8. RowsStep
    BY <1>1 DEF RowsStep
<1>9. Entitled(k)' /\ call'[k].at # "insert" /\ status' = status
    BY <1>1, <1>3, <1>4 DEF Entitled
<1>10. QED
    BY <1>4, <1>7, <1>8, <1>9, Quiet

\* The world, the list written at once, and a crash.
LEMMA WorldSteps ==
    ASSUME EdInv,
           \/ \E c \in Reason, r \in Rule : WriteReason(c, r)
           \/ Weigh \/ Issue \/ StaffHold \/ Relock \/ Crash \/ UNCHANGED edVars
    PROVE  EdInv' /\ RowsStep
<1> USE DEF edWorld, edTruck, edReasons, edRequests, ListWork
<1>0. EdTypeOK
    BY DEF EdInv
<1>1. UNCHANGED <<status, by, reviewer, reason, holds>>
    BY DEF WriteReason, Weigh, Issue, StaffHold, Relock, Crash, edVars
<1>2. call' = call \/ call' = [k \in Call |-> Idle]
    BY DEF WriteReason, Weigh, Issue, StaffHold, Relock, Crash, edVars
<1>3. call' \in [Call -> Acts]
    BY <1>0, <1>2 DEF EdTypeOK, Acts
<1>4. DOMAIN reasons' \in SUBSET Reason /\ reasons' \in [DOMAIN reasons' -> RuleRow]
  <2>1. CASE UNCHANGED reasons
      BY <1>0, <2>1 DEF EdTypeOK
  <2>2. ASSUME NEW c \in Reason, NEW r \in Rule, WriteReason(c, r)
        PROVE  DOMAIN reasons' \in SUBSET Reason
               /\ reasons' \in [DOMAIN reasons' -> RuleRow]
    <3>1. reasons' = [d \in DOMAIN reasons \cup {c} |-> IF d = c THEN r ELSE reasons[d]]
        BY <2>2 DEF WriteReason
    <3>2. r \in RuleRow
        BY EditAssumption
    <3>3. QED
        BY <1>0, <3>1, <3>2, ReasonRows
  <2>3. QED
      BY <2>1, <2>2 DEF Weigh, Issue, StaffHold, Relock, Crash, edVars
<1>5. /\ weigh' \in 0..3 /\ issued' \in BOOLEAN /\ unlocked' \in BOOLEAN
      /\ logged' \in BOOLEAN /\ held' \in {"N", "APP", "STAFF"}
      /\ admins' \in Nat /\ faults' \in Nat
  <2>1. /\ weigh \in 0..3 /\ issued \in BOOLEAN /\ unlocked \in BOOLEAN
        /\ logged \in BOOLEAN /\ held \in {"N", "APP", "STAFF"}
        /\ admins \in Nat /\ faults \in Nat
      BY <1>0 DEF EdTypeOK
  <2>2. weigh' \in 0..3
    <3>1. weigh' = weigh \/ (weigh < 3 /\ weigh' = weigh + 1)
        BY DEF WriteReason, Weigh, Issue, StaffHold, Relock, Crash, edVars
    <3>2. QED
        BY <2>1, <3>1
  <2>3. admins' \in {admins, admins + 1} /\ faults' \in {faults, faults + 1}
      BY DEF WriteReason, Weigh, Issue, StaffHold, Relock, Crash, edVars
  <2>4. /\ issued' \in {issued, TRUE} /\ unlocked' \in {unlocked, FALSE}
        /\ logged' = logged /\ held' \in {held, "N", "STAFF"}
      BY DEF WriteReason, Weigh, Issue, StaffHold, Relock, Crash, edVars
  <2>5. /\ issued' \in BOOLEAN /\ unlocked' \in BOOLEAN /\ logged' \in BOOLEAN
        /\ held' \in {"N", "APP", "STAFF"}
      BY <2>1, <2>4, Zenon
  <2>6. admins' \in Nat /\ faults' \in Nat
      BY <2>1, <2>3
  <2>7. QED
      BY <2>2, <2>5, <2>6
<1>6. EdTypeOK'
    BY <1>0, <1>1, <1>3, <1>4, <1>5 DEF EdTypeOK, Acts
<1>7. RowsStep /\ status' = status
    BY <1>1 DEF RowsStep
<1>8. \A j \in Call : \/ call'[j] = call[j]
                      \/ call'[j].at # "insert" /\ Entitled(j)'
    BY <1>2 DEF Idle, Entitled
<1>9. QED
    BY <1>6, <1>7, <1>8, QuietAll

-----------------------------------------------------------------------------
LEMMA EdStep == EdInv /\ [EdNext]_edVars => EdInv' /\ RowsStep
<1> SUFFICES ASSUME EdInv, [EdNext]_edVars PROVE EdInv' /\ RowsStep
    OBVIOUS
<1>1. ASSUME NEW k \in Call,
             \/ \E u \in User, c \in Reason : StartCreate(k, u, c)
             \/ CheckDuplicate(k)
      PROVE EdInv' /\ RowsStep
    BY <1>1, CreateSteps
<1>2. ASSUME NEW k \in Call, \E q \in Req : Insert(k, q) PROVE EdInv' /\ RowsStep
    BY <1>2, InsertStep
<1>3. ASSUME NEW k \in Call, WriteHold(k) \/ LogHold(k) \/ Release(k)
      PROVE EdInv' /\ RowsStep
    BY <1>3, HoldSteps
<1>4. ASSUME NEW k \in Call,
             \E q \in Req, u \in User : StartApprove(k, q, u) \/ StartCancel(k, q, u)
      PROVE EdInv' /\ RowsStep
    BY <1>4, StartSteps
<1>5. ASSUME NEW k \in Call,
             \/ ApproveRow(k) \/ CancelRow(k)
             \/ \E q \in Req, u \in User : Reject(k, q, u)
      PROVE EdInv' /\ RowsStep
    BY <1>5, DecisionSteps
<1>6. ASSUME NEW k \in Call, Unlock(k) PROVE EdInv' /\ RowsStep
    BY <1>6, UnlockStep
<1>7. ASSUME NEW k \in Call,
             \/ \E c \in Reason, at \in {"disable", "delete"} : StartReason(k, c, at)
             \/ DisableReason(k) \/ DeleteReason(k)
      PROVE EdInv' /\ RowsStep
    BY <1>7, ListSteps
<1>8. CASE \/ \E c \in Reason, r \in Rule : WriteReason(c, r)
           \/ Weigh \/ Issue \/ StaffHold \/ Relock \/ Crash \/ UNCHANGED edVars
    BY <1>8, WorldSteps
<1>9. QED
    BY <1>1, <1>2, <1>3, <1>4, <1>5, <1>6, <1>7, <1>8 DEF EdNext

LEMMA EdStart == EdInit => EdInv
<1> SUFFICES ASSUME EdInit PROVE EdInv
    OBVIOUS
<1>1. DOMAIN reasons = Reason /\ reasons \in [Reason -> RuleRow]
    BY EditAssumption DEF EdInit
<1>2. EdTypeOK
  <2>1. call \in [Call -> {Idle} \cup Creating \cup Deciding \cup Listing]
      BY DEF EdInit
  <2>2. /\ DOMAIN reasons \in SUBSET Reason
        /\ reasons \in [DOMAIN reasons -> RuleRow]
      BY <1>1
  <2>3. /\ status \in [Req -> {"none", "PENDING"} \cup Ended]
        /\ by \in [Req -> User \cup {NoUser}]
        /\ reviewer \in [Req -> User \cup {NoUser}]
        /\ reason \in [Req -> Reason \cup {NoReason}]
        /\ holds \in [Req -> BOOLEAN]
      BY DEF EdInit
  <2>4. weigh \in 0..3 /\ admins \in Nat /\ faults \in Nat
      BY DEF EdInit
  <2>5. /\ issued \in BOOLEAN /\ unlocked \in BOOLEAN /\ logged \in BOOLEAN
        /\ held \in {"N", "APP", "STAFF"}
      BY Zenon DEF EdInit
  <2>6. QED
      BY <2>1, <2>2, <2>3, <2>4, <2>5 DEF EdTypeOK
<1>3. Pending = {} /\ Inserting = {}
    BY DEF EdInit, Pending, Inserting, Idle
<1>4. Cardinality(Pending) + Cardinality(Inserting) <= Cardinality(Call)
  <2>1. Cardinality(Pending) = 0 /\ Cardinality(Inserting) = 0
      BY <1>3, FS_EmptySet
  <2>2. Cardinality(Call) \in Nat
      BY EditAssumption, FS_CardinalityType
  <2>3. QED
      BY <2>1, <2>2
<1>5. OneForEachCall
    BY <1>4 DEF OneForEachCall, Inserting
<1>6. \A k \in Call : Entitled(k)
    BY DEF EdInit, Entitled, Idle
<1>7. QED
    BY <1>2, <1>5, <1>6 DEF EdInv

LEMMA EdInvariant == EdSpec => []EdInv
<1>1. EdInv /\ [EdNext]_edVars => EdInv'
    BY EdStep
<1>2. QED
    BY <1>1, EdStart, PTL DEF EdSpec

\* The columns and the handlers keep their types.
THEOREM RequestsTyped == EdSpec => []EdTypeOK
<1>1. EdInv => EdTypeOK
    BY DEF EdInv
<1>2. QED
    BY <1>1, EdInvariant, PTL

\* No more requests are open than calls can overlap.
THEOREM OpenRequestsBounded == EdSpec => []OneForEachCall
<1>1. EdInv => OneForEachCall
    BY DEF EdInv
<1>2. QED
    BY <1>1, EdInvariant, PTL

\* Approved, rejected or withdrawn once and for all.
THEOREM DecisionsStand == EdSpec => DecisionStands
<1>1. EdInv /\ [EdNext]_edVars =>
         [\A q \in Req : status[q] \in Ended =>
             status'[q] = status[q] /\ reviewer'[q] = reviewer[q]]_edVars
    BY EdStep DEF RowsStep
<1>2. QED
    BY <1>1, EdInvariant, PTL DEF EdSpec, DecisionStands

\* Nobody unlocks a booking on a request of one's own, or on none.
THEOREM UnlockedForAnother == EdSpec => UnlockedByAnother
<1>1. EdInv /\ [EdNext]_edVars =>
         [unlocked' /\ ~unlocked =>
             \E k \in Call : /\ call[k].at = "unlock"
                             /\ status[call[k].q] \in Ended
                             /\ call[k].u # by[call[k].q]]_edVars
  <2> SUFFICES ASSUME EdInv, EdNext, unlocked', ~unlocked
               PROVE  \E k \in Call : /\ call[k].at = "unlock"
                                      /\ status[call[k].q] \in Ended
                                      /\ call[k].u # by[call[k].q]
      OBVIOUS
  <2>1. \E k \in Call : Unlock(k)
      BY DEF EdNext, StartCreate, CheckDuplicate, Insert, WriteHold, LogHold,
             StartApprove, Reject, StartCancel, ApproveRow, CancelRow, Release,
             StartReason, DisableReason, DeleteReason, WriteReason, Weigh, Issue,
             StaffHold, Relock, Crash, edWorld, edTruck, edReasons, edRequests, ListWork
  <2>2. PICK k \in Call : Unlock(k)
      BY <2>1
  <2>3. call[k].at = "unlock" /\ Entitled(k)
      BY <2>2 DEF Unlock, EdInv
  <2>4. QED
      BY <2>3 DEF Entitled
<1>2. QED
    BY <1>1, EdInvariant, PTL DEF EdSpec, UnlockedByAnother

-----------------------------------------------------------------------------
(* The hold on the truck.  As long as no handler was cut short, a hold of  *)
(* the application's has somebody to end it: an open request, or a handler *)
(* on its way to the release; and that release finds the hold in the log,  *)
(* or another handler is about to log one for a request that is open.      *)

HoldsOpen ==
    \A k \in Call : call[k].at \in {"hold", "logHold"} =>
        status[call[k].q] = "PENDING" /\ holds[call[k].q]

HoldIsLogged ==
    held = "APP" /\ ~logged => \E k \in Call : call[k].at = "logHold"

SomebodyEndsIt ==
    held = "APP" =>
        \/ \E q \in Req : status[q] = "PENDING" /\ holds[q]
        \/ \E k \in Call : call[k].at = "release"
        \/ \E k \in Call : call[k].at = "unlock" /\ holds[call[k].q]

HoldOK == faults = 0 => HoldsOpen /\ HoldIsLogged /\ SomebodyEndsIt

\* A step far from the hold.
LEMMA FarFromHold ==
    ASSUME HoldOK, faults' = 0 => faults = 0,
           UNCHANGED <<logged, status, holds>>,
           held' = held \/ held' # "APP",
           \A j \in Call : \/ call'[j] = call[j]
                           \/ /\ call[j].at \notin {"logHold", "unlock", "release"}
                              /\ call'[j].at \notin {"hold", "logHold"}
    PROVE  HoldOK'
<1> SUFFICES ASSUME faults' = 0 PROVE HoldsOpen' /\ HoldIsLogged' /\ SomebodyEndsIt'
    BY DEF HoldOK
<1>1. HoldsOpen /\ HoldIsLogged /\ SomebodyEndsIt
    BY DEF HoldOK
<1>2. HoldsOpen'
    BY <1>1 DEF HoldsOpen
<1>3. HoldIsLogged'
    BY <1>1 DEF HoldIsLogged
<1>4. SomebodyEndsIt'
    BY <1>1 DEF SomebodyEndsIt
<1>5. QED
    BY <1>2, <1>3, <1>4

\* The handlers that neither hold nor release, the list, the world, a crash.
LEMMA FarSteps ==
    ASSUME EdTypeOK, HoldOK,
           \/ \E k \in Call :
                 \/ \E u \in User, c \in Reason : StartCreate(k, u, c)
                 \/ CheckDuplicate(k)
                 \/ \E q \in Req, u \in User : StartApprove(k, q, u) \/ StartCancel(k, q, u)
                 \/ \E c \in Reason, at \in {"disable", "delete"} : StartReason(k, c, at)
                 \/ DisableReason(k) \/ DeleteReason(k)
           \/ \E c \in Reason, r \in Rule : WriteReason(c, r)
           \/ Weigh \/ Issue \/ StaffHold \/ Relock \/ UNCHANGED edVars
    PROVE  HoldOK'
<1> USE DEF edWorld, edTruck, edReasons, edRequests, ListWork, edVars
<1>1. ASSUME NEW k \in Call,
             \/ \E u \in User, c \in Reason : StartCreate(k, u, c)
             \/ CheckDuplicate(k)
             \/ \E q \in Req, u \in User : StartApprove(k, q, u) \/ StartCancel(k, q, u)
             \/ \E c \in Reason, at \in {"disable", "delete"} : StartReason(k, c, at)
             \/ DisableReason(k) \/ DeleteReason(k)
      PROVE  HoldOK'
  <2>1. UNCHANGED <<logged, status, holds, held, faults>>
      BY <1>1 DEF StartCreate, CheckDuplicate, StartApprove, StartCancel, StartReason,
                  DisableReason, DeleteReason
  <2>2. call[k].at \notin {"logHold", "unlock", "release"}
    <3>1. call[k] = Idle \/ call[k].at \in {"dup", "disable", "delete"}
        BY <1>1 DEF StartCreate, CheckDuplicate, StartApprove, StartCancel, StartReason,
                    DisableReason, DeleteReason
    <3>2. QED
        BY <3>1 DEF Idle
  <2>3. \E c : Go(k, c) /\ c.at \notin {"hold", "logHold"}
    <3>1. Idle.at \notin {"hold", "logHold"}
        BY DEF Idle
    <3>2. ASSUME NEW u \in User, NEW c \in Reason, StartCreate(k, u, c)
          PROVE  \E d : Go(k, d) /\ d.at \notin {"hold", "logHold"}
        BY <3>2 DEF StartCreate
    <3>3. ASSUME CheckDuplicate(k)
          PROVE  \E d : Go(k, d) /\ d.at \notin {"hold", "logHold"}
      <4>1. call[k] \in Creating
          BY <3>3, CallAt DEF CheckDuplicate
      <4>2. [call[k] EXCEPT !.at = "insert"].at = "insert"
          BY <4>1 DEF Creating
      <4>3. QED
          BY <3>1, <3>3, <4>2 DEF CheckDuplicate
    <3>4. ASSUME NEW q \in Req, NEW u \in User, StartApprove(k, q, u) \/ StartCancel(k, q, u)
          PROVE  \E d : Go(k, d) /\ d.at \notin {"hold", "logHold"}
        BY <3>4 DEF StartApprove, StartCancel, Doing
    <3>5. ASSUME NEW c \in Reason, NEW at \in {"disable", "delete"}, StartReason(k, c, at)
          PROVE  \E d : Go(k, d) /\ d.at \notin {"hold", "logHold"}
        BY <3>5 DEF StartReason
    <3>6. ASSUME DisableReason(k) \/ DeleteReason(k)
          PROVE  \E d : Go(k, d) /\ d.at \notin {"hold", "logHold"}
        BY <3>1, <3>6 DEF DisableReason, DeleteReason
    <3>7. QED
        BY <1>1, <3>2, <3>3, <3>4, <3>5, <3>6
  <2>4. call'[k].at \notin {"hold", "logHold"} /\ \A j \in Call \ {k} : call'[j] = call[j]
      BY <2>3 DEF Go, EdTypeOK
  <2>5. QED
      BY <2>1, <2>2, <2>4, FarFromHold
<1>2. ASSUME \/ \E c \in Reason, r \in Rule : WriteReason(c, r)
             \/ Weigh \/ Issue \/ StaffHold \/ Relock \/ UNCHANGED edVars
      PROVE  HoldOK'
  <2>1. UNCHANGED <<logged, status, holds, faults, call>> /\ (held' = held \/ held' # "APP")
      BY <1>2 DEF WriteReason, Weigh, Issue, StaffHold, Relock
  <2>2. QED
      BY <2>1, FarFromHold
<1>3. QED
    BY <1>1, <1>2

\* A request is made.
LEMMA InsertHolds ==
    ASSUME EdInv, HoldOK, NEW k \in Call, NEW q \in Req, Insert(k, q)
    PROVE  HoldOK'
<1> USE DEF edWorld, edTruck, edReasons, edRequests
<1>0. EdTypeOK
    BY DEF EdInv
<1>1. /\ call[k].at = "insert" /\ status[q] = "none"
      /\ UNCHANGED <<held, logged, faults>>
    BY DEF Insert
<1> SUFFICES ASSUME faults' = 0 PROVE HoldsOpen' /\ HoldIsLogged' /\ SomebodyEndsIt'
    BY DEF HoldOK
<1>2. HoldsOpen /\ HoldIsLogged /\ SomebodyEndsIt
    BY <1>1 DEF HoldOK
<1>3. /\ \A p \in Req \ {q} : status'[p] = status[p] /\ holds'[p] = holds[p]
      /\ \A j \in Call \ {k} : call'[j] = call[j]
    BY <1>0 DEF Insert, Go, EdTypeOK
<1>4. \A j \in Call : call[j].at \in {"hold", "logHold", "unlock"} => call[j].q \in Req \ {q}
  <2> SUFFICES ASSUME NEW j \in Call, call[j].at \in {"hold", "logHold", "unlock"}
               PROVE  call[j].q \in Req /\ status[call[j].q] # "none"
      BY <1>1
  <2>1. call[j].q \in Req
      BY <1>0, CallAt DEF Deciding
  <2>2. status[call[j].q] # "none"
      BY <1>2 DEF HoldsOpen, EdInv, Entitled, Ended
  <2>3. QED
      BY <2>1, <2>2
<1>5. call'[k].at \in {"hold", "idle"} /\
      (call'[k].at = "hold" => call'[k].q = q /\ status'[q] = "PENDING" /\ holds'[q])
    BY <1>0 DEF Insert, Go, EdTypeOK, Doing, Idle
<1>6. HoldsOpen'
  <2> SUFFICES ASSUME NEW j \in Call, call'[j].at \in {"hold", "logHold"}
               PROVE  status'[call'[j].q] = "PENDING" /\ holds'[call'[j].q]
      BY DEF HoldsOpen
  <2>1. CASE j = k
      BY <1>5, <2>1
  <2>2. CASE j # k
      BY <1>2, <1>3, <1>4, <2>2 DEF HoldsOpen
  <2>3. QED
      BY <2>1, <2>2
<1>7. HoldIsLogged'
    BY <1>1, <1>2, <1>3 DEF HoldIsLogged
<1>8. SomebodyEndsIt'
  <2> SUFFICES ASSUME held = "APP"
               PROVE  \/ \E p \in Req : status'[p] = "PENDING" /\ holds'[p]
                      \/ \E j \in Call : call'[j].at = "release"
                      \/ \E j \in Call : call'[j].at = "unlock" /\ holds'[call'[j].q]
      BY <1>1 DEF SomebodyEndsIt
  <2>1. ASSUME NEW p \in Req, status[p] = "PENDING", holds[p]
        PROVE  status'[p] = "PENDING" /\ holds'[p]
      BY <1>1, <1>3, <2>1
  <2>2. ASSUME NEW j \in Call, call[j].at = "release" PROVE call'[j].at = "release"
      BY <1>1, <1>3, <2>2
  <2>3. ASSUME NEW j \in Call, call[j].at = "unlock", holds[call[j].q]
        PROVE  call'[j].at = "unlock" /\ holds'[call'[j].q]
      BY <1>1, <1>3, <1>4, <2>3
  <2>4. QED
      BY <1>2, <2>1, <2>2, <2>3 DEF SomebodyEndsIt
<1>9. QED
    BY <1>6, <1>7, <1>8

\* The hold, its log, and its release.
LEMMA HoldHolds ==
    ASSUME EdInv, HoldOK, NEW k \in Call, WriteHold(k) \/ LogHold(k) \/ Release(k)
    PROVE  HoldOK'
<1> USE DEF edWorld, edTruck, edReasons, edRequests
<1>0. EdTypeOK
    BY DEF EdInv
<1>1. UNCHANGED <<status, holds, faults>>
    BY DEF WriteHold, LogHold, Release
<1> SUFFICES ASSUME faults' = 0 PROVE HoldsOpen' /\ HoldIsLogged' /\ SomebodyEndsIt'
    BY DEF HoldOK
<1>2. HoldsOpen /\ HoldIsLogged /\ SomebodyEndsIt
    BY <1>1 DEF HoldOK
<1>3. call[k] \in Deciding /\ call[k].q \in Req
    BY <1>0, CallAt DEF WriteHold, LogHold, Release, Deciding
<1>4. /\ [call[k] EXCEPT !.at = "logHold"].at = "logHold"
      /\ [call[k] EXCEPT !.at = "logHold"].q = call[k].q
      /\ Idle.at = "idle"
    BY <1>3, SentOn DEF Idle
<1>5. \A j \in Call \ {k} : call'[j] = call[j]
    BY <1>0 DEF WriteHold, LogHold, Release, Go, EdTypeOK
<1>6. \A j \in Call : call[j].at \in {"hold", "logHold"} =>
         call[j].q \in Req /\ status[call[j].q] = "PENDING" /\ holds[call[j].q]
    BY <1>0, <1>2, CallAt, SentOn DEF HoldsOpen
<1>7. CASE WriteHold(k)
  <2>1. call[k].at = "hold" /\ logged' = logged
      BY <1>7 DEF WriteHold
  <2>2. status[call[k].q] = "PENDING" /\ holds[call[k].q]
      BY <1>6, <2>1
  <2>3. \/ held' = "APP" /\ call'[k].at = "logHold" /\ call'[k].q = call[k].q
        \/ held' = held /\ call'[k].at = "idle"
      BY <1>0, <1>4, <1>7 DEF WriteHold, Go, EdTypeOK
  <2>4. HoldsOpen'
    <3> SUFFICES ASSUME NEW j \in Call, call'[j].at \in {"hold", "logHold"}
                 PROVE  status[call'[j].q] = "PENDING" /\ holds[call'[j].q]
        BY <1>1 DEF HoldsOpen
    <3>1. CASE j = k
        BY <2>2, <2>3, <3>1
    <3>2. CASE j # k
        BY <1>5, <1>6, <3>2
    <3>3. QED
        BY <3>1, <3>2
  <2>5. HoldIsLogged'
    <3>1. CASE call'[k].at = "logHold"
        BY <3>1 DEF HoldIsLogged
    <3>2. CASE held' = held
      <4>1. \A j \in Call : call[j].at = "logHold" => call'[j].at = "logHold"
          BY <1>5, <2>1
      <4>2. QED
          BY <1>2, <2>1, <3>2, <4>1 DEF HoldIsLogged
    <3>3. QED
        BY <2>3, <3>1, <3>2
  <2>6. SomebodyEndsIt'
      BY <1>1, <1>3, <2>2 DEF SomebodyEndsIt
  <2>7. QED
      BY <2>4, <2>5, <2>6
<1>8. CASE LogHold(k)
  <2>1. call[k].at = "logHold" /\ logged' /\ held' = held /\ call'[k].at = "idle"
      BY <1>0, <1>4, <1>8 DEF LogHold, Go, EdTypeOK
  <2>2. status[call[k].q] = "PENDING" /\ holds[call[k].q]
      BY <1>6, <2>1
  <2>3. HoldsOpen'
    <3>1. \A j \in Call : call'[j].at \in {"hold", "logHold"} => call'[j] = call[j]
        BY <1>5, <2>1
    <3>2. QED
        BY <1>1, <1>6, <3>1 DEF HoldsOpen
  <2>4. HoldIsLogged'
      BY <2>1 DEF HoldIsLogged
  <2>5. SomebodyEndsIt'
      BY <1>1, <1>3, <2>2 DEF SomebodyEndsIt
  <2>6. QED
      BY <2>3, <2>4, <2>5
<1>9. CASE Release(k)
  <2>1. /\ call[k].at = "release" /\ call'[k].at = "idle" /\ logged' = logged
        /\ held' = IF logged THEN "N" ELSE held
      BY <1>0, <1>4, <1>9 DEF Release, Go, EdTypeOK
  <2>2. HoldsOpen'
    <3>1. \A j \in Call : call'[j].at \in {"hold", "logHold"} => call'[j] = call[j]
        BY <1>5, <2>1
    <3>2. QED
        BY <1>1, <1>6, <3>1 DEF HoldsOpen
  <2>3. \A j \in Call : call[j].at = "logHold" => call'[j].at = "logHold"
      BY <1>5, <2>1
  <2>4. HoldIsLogged'
      BY <1>2, <2>1, <2>3 DEF HoldIsLogged
  <2>5. SomebodyEndsIt'
    <3>1. CASE held' # "APP"
        BY <3>1 DEF SomebodyEndsIt
    <3>2. CASE held' = "APP"
      <4>1. ~logged /\ held = "APP"
          BY <2>1, <3>2
      <4>2. PICK j \in Call : call[j].at = "logHold"
          BY <1>2, <4>1 DEF HoldIsLogged
      <4>3. call[j].q \in Req /\ status[call[j].q] = "PENDING" /\ holds[call[j].q]
          BY <1>6, <4>2
      <4>4. QED
          BY <1>1, <4>3 DEF SomebodyEndsIt
    <3>3. QED
        BY <3>1, <3>2
  <2>6. QED
      BY <2>2, <2>4, <2>5
<1>10. QED
    BY <1>7, <1>8, <1>9

\* A decision: whoever ends an open request that holds the truck goes to the
\* release, or to the unlocking before it.
LEMMA CloseHolds ==
    ASSUME EdInv, HoldOK, NEW k \in Call, NEW q \in Req, NEW u \in User, NEW s \in Ended,
           Close(q, u, s), NEW c \in Acts, Go(k, c),
           call[k].at \notin {"hold", "logHold", "unlock", "release"},
           c.at \in {"idle", "release", "unlock"},
           holds[q] => c.at = "release" \/ (c.at = "unlock" /\ c.q = q),
           UNCHANGED <<edTruck, holds>>
    PROVE  HoldOK'
<1> USE DEF edTruck
<1>0. EdTypeOK
    BY DEF EdInv
<1>1. /\ \A j \in Call \ {k} : call'[j] = call[j]
      /\ call'[k] = c
    BY <1>0, CallMoves
<1> SUFFICES ASSUME faults' = 0 PROVE HoldsOpen' /\ HoldIsLogged' /\ SomebodyEndsIt'
    BY DEF HoldOK
<1>2. /\ faults = 0
      /\ \A p \in Req : status'[p] = status[p] \/ (p = q /\ ~Holding(q))
  <2>1. CASE StillOpen(q)
    <3>1. /\ status' = [status EXCEPT ![q] = s]
          /\ faults' = IF Holding(q) /\ faults = 0 THEN 1 ELSE faults
        BY <2>1 DEF Close
    <3>2. ~Holding(q) /\ faults = 0
        BY <3>1
    <3>3. QED
        BY <1>0, <3>1, <3>2 DEF EdTypeOK
  <2>2. CASE ~StillOpen(q)
      BY <2>2 DEF Close
  <2>3. QED
      BY <2>1, <2>2
<1>3. HoldsOpen /\ HoldIsLogged /\ SomebodyEndsIt
    BY <1>2 DEF HoldOK
<1>4. HoldsOpen'
  <2> SUFFICES ASSUME NEW j \in Call, call'[j].at \in {"hold", "logHold"}
               PROVE  status'[call'[j].q] = "PENDING" /\ holds[call'[j].q]
      BY DEF HoldsOpen
  <2>1. call'[j] = call[j]
      BY <1>1
  <2>2. call[j].q \in Req
    <3>1. call[j] \in Deciding
        BY <1>0, <2>1, CallAt
    <3>2. QED
        BY <3>1 DEF Deciding
  <2>3. Holding(call[j].q)
      BY <2>1 DEF Holding
  <2>4. QED
      BY <1>2, <1>3, <2>1, <2>2, <2>3 DEF HoldsOpen
<1>5. HoldIsLogged'
  <2>1. \A j \in Call : call[j].at = "logHold" => call'[j].at = "logHold"
      BY <1>1
  <2>2. QED
      BY <1>3, <2>1 DEF HoldIsLogged
<1>6. SomebodyEndsIt'
  <2> SUFFICES ASSUME held = "APP"
               PROVE  \/ \E p \in Req : status'[p] = "PENDING" /\ holds[p]
                      \/ \E j \in Call : call'[j].at = "release"
                      \/ \E j \in Call : call'[j].at = "unlock" /\ holds[call'[j].q]
      BY DEF SomebodyEndsIt
  <2>1. ASSUME NEW p \in Req, status[p] = "PENDING", holds[p]
        PROVE  \/ status'[p] = "PENDING"
               \/ call'[k].at = "release"
               \/ call'[k].at = "unlock" /\ holds[call'[k].q]
    <3>1. CASE p = q
        BY <1>1, <2>1, <3>1
    <3>2. CASE p # q
        BY <1>2, <2>1, <3>2
    <3>3. QED
        BY <3>1, <3>2
  <2>2. \A j \in Call : call[j].at \in {"unlock", "release"} => call'[j] = call[j]
      BY <1>1
  <2>3. QED
      BY <1>3, <2>1, <2>2 DEF SomebodyEndsIt
<1>7. QED
    BY <1>4, <1>5, <1>6

\* Where a handler goes when it is done with a request.
LEMMA FinishGoes ==
    ASSUME EdTypeOK, NEW k \in Call, NEW q \in Req, NEW u \in User, Finish(k, q, u)
    PROVE  \E c \in Acts : /\ Go(k, c) /\ c.at \in {"idle", "release"}
                           /\ holds[q] => c.at = "release"
<1>1. CASE holds[q]
    BY <1>1, Begins DEF Finish, ToRelease, Acts
<1>2. CASE ~holds[q]
    BY <1>2 DEF Finish, ToRelease, Acts, Idle
<1>3. QED
    BY <1>1, <1>2

LEMMA DecisionHolds ==
    ASSUME EdInv, HoldOK, NEW k \in Call,
           \/ ApproveRow(k) \/ CancelRow(k)
           \/ \E q \in Req, u \in User : Reject(k, q, u)
    PROVE  HoldOK'
<1>0. EdTypeOK
    BY DEF EdInv
<1>1. CASE ApproveRow(k)
  <2>1. call[k].at = "approve" /\ call[k] \in Deciding
      BY <1>0, <1>1, CallAt DEF ApproveRow
  <2> DEFINE row == [call[k] EXCEPT !.at = "unlock"]
  <2>2. /\ row \in Deciding /\ row.at = "unlock" /\ row.q = call[k].q
        /\ call[k].q \in Req /\ call[k].u \in User
      BY <2>1, SentOn
  <2>3. /\ Go(k, row) /\ Close(call[k].q, call[k].u, "APPROVED")
        /\ UNCHANGED <<edTruck, holds>>
      BY <1>1 DEF ApproveRow
  <2> HIDE DEF row
  <2>4. row \in Acts /\ "APPROVED" \in Ended
      BY <2>2 DEF Acts, Ended
  <2>5. QED
      BY <2>1, <2>2, <2>3, <2>4, CloseHolds
<1>2. CASE CancelRow(k)
  <2>1. call[k].at = "cancel" /\ call[k] \in Deciding
      BY <1>0, <1>2, CallAt DEF CancelRow
  <2>2. call[k].q \in Req /\ call[k].u \in User /\ "CANCELLED" \in Ended
      BY <2>1 DEF Deciding, Ended
  <2>3. /\ Finish(k, call[k].q, call[k].u) /\ Close(call[k].q, call[k].u, "CANCELLED")
        /\ UNCHANGED <<edTruck, holds>>
      BY <1>2 DEF CancelRow
  <2>4. PICK c \in Acts : /\ Go(k, c) /\ c.at \in {"idle", "release"}
                          /\ holds[call[k].q] => c.at = "release"
      BY <1>0, <2>2, <2>3, FinishGoes
  <2>5. QED
      BY <2>1, <2>2, <2>3, <2>4, CloseHolds
<1>3. ASSUME NEW q \in Req, NEW u \in User, Reject(k, q, u)
      PROVE  HoldOK'
  <2>1. /\ Finish(k, q, u) /\ Close(q, u, "REJECTED") /\ "REJECTED" \in Ended
        /\ UNCHANGED <<edTruck, holds>> /\ call[k].at = "idle"
      BY <1>3 DEF Reject, Ended, Idle
  <2>2. PICK c \in Acts : /\ Go(k, c) /\ c.at \in {"idle", "release"}
                          /\ holds[q] => c.at = "release"
      BY <1>0, <2>1, FinishGoes
  <2>3. QED
      BY <2>1, <2>2, CloseHolds
<1>4. QED
    BY <1>1, <1>2, <1>3

\* The unlocking, which the release follows.
LEMMA UnlockHolds ==
    ASSUME EdInv, HoldOK, NEW k \in Call, Unlock(k)
    PROVE  HoldOK'
<1> USE DEF edTruck, edRequests
<1>0. EdTypeOK
    BY DEF EdInv
<1>1. /\ call[k].at = "unlock" /\ call[k].q \in Req /\ call[k].u \in User
      /\ UNCHANGED <<held, logged, status, holds, faults>>
    BY <1>0, CallAt DEF Unlock, Deciding
<1>2. PICK c \in Acts : /\ Go(k, c) /\ c.at \in {"idle", "release"}
                        /\ holds[call[k].q] => c.at = "release"
    BY <1>0, <1>1, FinishGoes DEF Unlock
<1>3. call'[k] = c /\ \A j \in Call \ {k} : call'[j] = call[j]
    BY <1>0, <1>2, CallMoves
<1> SUFFICES ASSUME faults' = 0 PROVE HoldsOpen' /\ HoldIsLogged' /\ SomebodyEndsIt'
    BY DEF HoldOK
<1>4. HoldsOpen /\ HoldIsLogged /\ SomebodyEndsIt
    BY <1>1 DEF HoldOK
<1>5. \A j \in Call : call'[j].at \in {"hold", "logHold"} => call'[j] = call[j]
    BY <1>2, <1>3
<1>6. \A j \in Call : call[j].at = "logHold" => call'[j] = call[j]
    BY <1>1, <1>3
<1>7. HoldsOpen' /\ HoldIsLogged'
    BY <1>1, <1>4, <1>5, <1>6 DEF HoldsOpen, HoldIsLogged
<1>8. SomebodyEndsIt'
  <2>1. ASSUME NEW j \in Call,
               call[j].at = "release" \/ (call[j].at = "unlock" /\ holds[call[j].q])
        PROVE  call'[j].at = "release" \/ (call'[j].at = "unlock" /\ holds[call'[j].q])
    <3>1. CASE j = k
        BY <1>1, <1>2, <1>3, <2>1, <3>1
    <3>2. CASE j # k
        BY <1>3, <2>1, <3>2
    <3>3. QED
        BY <3>1, <3>2
  <2>2. QED
      BY <1>1, <1>4, <2>1 DEF SomebodyEndsIt
<1>9. QED
    BY <1>7, <1>8

LEMMA HoldStep == EdInv /\ HoldOK /\ [EdNext]_edVars => HoldOK'
<1> SUFFICES ASSUME EdInv, HoldOK, [EdNext]_edVars PROVE HoldOK'
    OBVIOUS
<1>0. EdTypeOK
    BY DEF EdInv
<1>1. ASSUME NEW k \in Call, \E q \in Req : Insert(k, q) PROVE HoldOK'
    BY <1>1, InsertHolds
<1>2. ASSUME NEW k \in Call, WriteHold(k) \/ LogHold(k) \/ Release(k) PROVE HoldOK'
    BY <1>2, HoldHolds
<1>3. ASSUME NEW k \in Call,
             \/ ApproveRow(k) \/ CancelRow(k)
             \/ \E q \in Req, u \in User : Reject(k, q, u)
      PROVE  HoldOK'
    BY <1>3, DecisionHolds
<1>4. ASSUME NEW k \in Call, Unlock(k) PROVE HoldOK'
    BY <1>4, UnlockHolds
<1>5. CASE Crash
  <2>1. faults \in Nat /\ faults' = faults + 1
      BY <1>0, <1>5 DEF Crash, EdTypeOK
  <2>2. faults' # 0
      BY <2>1
  <2>3. QED
      BY <2>2 DEF HoldOK
<1>6. ASSUME NEW k \in Call,
             \/ \E u \in User, c \in Reason : StartCreate(k, u, c)
             \/ CheckDuplicate(k)
             \/ \E q \in Req, u \in User : StartApprove(k, q, u) \/ StartCancel(k, q, u)
             \/ \E c \in Reason, at \in {"disable", "delete"} : StartReason(k, c, at)
             \/ DisableReason(k) \/ DeleteReason(k)
      PROVE  HoldOK'
    BY <1>0, <1>6, FarSteps
<1>7. CASE \/ \E c \in Reason, r \in Rule : WriteReason(c, r)
           \/ Weigh \/ Issue \/ StaffHold \/ Relock \/ UNCHANGED edVars
    BY <1>0, <1>7, FarSteps
<1>8. QED
    BY <1>1, <1>2, <1>3, <1>4, <1>5, <1>6, <1>7 DEF EdNext

\* When all handlers are done and none was cut short, the truck is on hold for
\* an open request only (applyHold, releaseHold).
THEOREM HoldsEnd == EdSpec => []HoldEndsWithRequest
<1>1. EdInit => HoldOK
    BY DEF EdInit, HoldOK, HoldsOpen, HoldIsLogged, SomebodyEndsIt, Idle
<1>2. EdInv /\ HoldOK /\ [EdNext]_edVars => HoldOK'
    BY HoldStep
<1>3. HoldOK => HoldEndsWithRequest
  <2> SUFFICES ASSUME HoldOK, \A k \in Call : call[k] = Idle, faults = 0, held = "APP"
               PROVE  \E q \in Pending : holds[q]
      BY DEF HoldEndsWithRequest
  <2>1. \A k \in Call : call[k].at = "idle"
      BY DEF Idle
  <2>2. QED
      BY <2>1 DEF HoldOK, SomebodyEndsIt, Pending
<1>4. QED
    BY <1>1, <1>2, <1>3, EdInvariant, PTL DEF EdSpec
=============================================================================
