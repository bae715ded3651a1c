--------------------------- MODULE BookingNumbers ---------------------------
(***************************************************************************)
(* The numbers of bookings, which the app and WINSpeed both give out:      *)
(* services/draft-confirmation.js, services/winspeed-counter.js and        *)
(* wf.sp_AdvanceDocuCounter.                                               *)
(*                                                                         *)
(* A book (I or K) has one counter.  WINSpeed keeps that of the active     *)
(* book in EMRunBrch and the other in EMRunChar; staff switch the active   *)
(* book.  The app reads whichever row holds the prefix, so a counter is    *)
(* one number here, and the place it is in matters only where the app      *)
(* cannot write EMRunChar.  A suffix is the same in both books when a      *)
(* draft is edited from one to the other.  Prefix AI has no counter and is *)
(* left out.                                                               *)
(***************************************************************************)
EXTENDS Integers, FiniteSets

CONSTANTS
    Slip,       \* bound: drafts
    MaxNo       \* bound: the largest suffix

ASSUME NumbersAssumption == IsFiniteSet(Slip) /\ MaxNo \in Nat

Books == {"I", "K"}
Suffix == 1..MaxNo

VARIABLES
    counter,    \* LastNo of each book
    active,     \* the book of EMRunBrch
    proc,       \* migration 145 is there (a deployment decides)
    cached,     \* advanceProcAvailable: "unknown", "yes" or "no"
    slip,       \* of a draft: "none", "DRAFT", "checked" (its confirmation is
                \* past the check of its number), "CONFIRMED" or "gone"
    ref,        \* its WfRef
    given,      \* the suffix its open confirmation gave it, 0 for none
    unsaved,    \* the number WINSpeed has taken and not saved, 0 for none
    saved,      \* the numbers WINSpeed has saved
    unsure,     \* history: drafts whose confirmation could not read the counter,
                \* or was under way while WINSpeed took a number
    behind      \* history: books a confirmation left without advancing

bnStore == <<slip, ref, given, unsure>>
bnCounter == <<counter, active, proc, cached>>
bnWinspeed == <<unsaved, saved>>
bnVars == <<bnCounter, bnStore, bnWinspeed, behind>>

NoRef == [book |-> "I", n |-> 0]
Ref(k, n) == [book |-> k, n |-> n]

BnInit ==
    /\ counter = [k \in Books |-> 0]
    /\ active \in Books
    /\ proc \in BOOLEAN
    /\ cached = "unknown"
    /\ slip = [d \in Slip |-> "none"]
    /\ ref = [d \in Slip |-> NoRef]
    /\ given = [d \in Slip |-> 0]
    /\ unsaved = [k \in Books |-> 0]
    /\ saved = [k \in Books |-> {}]
    /\ unsure = {}
    /\ behind = {}

-----------------------------------------------------------------------------
\* Rows of wf.SalesOrder, and of dbo.SOHD.
Unsaved(d) == slip[d] \in {"DRAFT", "checked"}
InUse(k) == {ref[d].n : d \in {e \in Slip : Unsaved(e) /\ ref[e].book = k}}
InSOHD(k) ==
    saved[k] \cup
    {ref[d].n : d \in {e \in Slip : slip[e] = "CONFIRMED" /\ ref[e].book = k}}

\* Every statement that adds a reference to a book waits for the confirmation
\* that holds the range of its prefix.
Locked(k) == \E d \in Slip : given[d] # 0 /\ ref[d].book = k

\* bookCounterSuffix: a counter that cannot be read counts as 0.
Seen(k) == {counter[k], 0}

\* allocateWorkflowRef: n is one above the drafts, the bookings and the
\* counter of the book as it was seen.
Allocates(k, n, c) ==
    LET known == InUse(k) \cup InSOHD(k) \cup {c} IN
    /\ ~Locked(k)
    /\ n - 1 \in known
    /\ \A m \in known : m < n

CreateSlip(d, k, n) ==
    /\ slip[d] = "none"
    /\ \E c \in Seen(k) : Allocates(k, n, c)
    /\ slip' = [slip EXCEPT ![d] = "DRAFT"]
    /\ ref' = [ref EXCEPT ![d] = Ref(k, n)]
    /\ UNCHANGED <<bnCounter, given, unsure, bnWinspeed, behind>>

\* PUT /:id with another prefix keeps the suffix; WfRef is unique.
Rebook(d, k) ==
    /\ slip[d] = "DRAFT"
    /\ ~Locked(k)
    /\ ref[d].n \notin InUse(k)
    /\ ref' = [ref EXCEPT ![d].book = k]
    /\ UNCHANGED <<bnCounter, slip, given, unsure, bnWinspeed, behind>>

DeleteSlip(d) ==
    /\ slip[d] = "DRAFT"
    /\ slip' = [slip EXCEPT ![d] = "gone"]
    /\ UNCHANGED <<bnCounter, ref, given, unsure, bnWinspeed, behind>>

\* Mutant: a counter that stands at the number has not passed it.
BeyondIt(r, c) == c > r.n
CounterPassed(r, c) == c >= r.n

\* The confirmation looks for the number in SOHD and at the counter, seen as
\* c, and takes another when either has it; the counter, read again, is a.
CheckNumber(d, n, c, a) ==
    LET r == ref[d] IN
    /\ slip[d] = "DRAFT"
    /\ {c, a} \subseteq Seen(r.book)
    /\ IF r.n \in InSOHD(r.book) \/ CounterPassed(r, c)
       THEN Allocates(r.book, n, a) ELSE n = 0 /\ a = c
    /\ slip' = [slip EXCEPT ![d] = "checked"]
    /\ given' = [given EXCEPT ![d] = n]
    /\ unsure' = IF {c, a} = {counter[r.book]} THEN unsure \ {d} ELSE unsure \cup {d}
    /\ UNCHANGED <<bnCounter, ref, bnWinspeed, behind>>

Found == IF cached = "unknown" THEN (IF proc THEN "yes" ELSE "no") ELSE cached

\* advanceDocuNoCounter: forward only; without the procedure only the book I,
\* and only in EMRunBrch.
MayAdvance(k) == Found = "yes" \/ (k = "I" /\ active = "I")
MovedTo(k, n) == IF counter[k] < n THEN n ELSE counter[k]

\* The booking is written, the counter follows, and all of it commits.
CommitNumber(d) ==
    LET r == IF given[d] = 0 THEN ref[d] ELSE Ref(ref[d].book, given[d]) IN
    /\ slip[d] = "checked"
    /\ slip' = [slip EXCEPT ![d] = "CONFIRMED"]
    /\ cached' = Found
    /\ IF MayAdvance(r.book)
       THEN /\ counter' = [counter EXCEPT ![r.book] = MovedTo(r.book, r.n)]
            /\ UNCHANGED behind
       ELSE /\ behind' = behind \cup {r.book}
            /\ UNCHANGED counter
    /\ ref' = [ref EXCEPT ![d] = r]
    /\ given' = [given EXCEPT ![d] = 0]
    /\ UNCHANGED <<active, proc, unsure, bnWinspeed>>

\* The confirmation is refused or dies, and rolls back.
RollBack(d) ==
    /\ slip[d] = "checked"
    /\ slip' = [slip EXCEPT ![d] = "DRAFT"]
    /\ given' = [given EXCEPT ![d] = 0]
    /\ UNCHANGED <<counter, active, proc, ref, unsure, bnWinspeed, behind>>

Abort(d) == RollBack(d) /\ UNCHANGED cached

\* The lookup of the procedure fails, and the answer stays; its caller fails
\* with it or goes on, as the error leaves the transaction.
LookupFails(d) ==
    /\ cached = "unknown" /\ cached' = "no"
    /\ \/ RollBack(d)
       \/ /\ slip[d] = "checked"
          /\ UNCHANGED <<counter, active, proc, bnStore, bnWinspeed, behind>>

Restart ==
    /\ cached' = "unknown"
    /\ UNCHANGED <<counter, active, proc, bnStore, bnWinspeed, behind>>

-----------------------------------------------------------------------------
\* WINSpeed takes the next number of the active book when the form opens and
\* saves the booking later, or never.
TakeNumber(k) ==
    /\ k = active
    /\ unsaved[k] = 0
    /\ counter[k] < MaxNo
    /\ counter' = [counter EXCEPT ![k] = @ + 1]
    /\ unsaved' = [unsaved EXCEPT ![k] = counter[k] + 1]
    /\ unsure' = unsure \cup {d \in Slip : slip[d] = "checked" /\ ref[d].book = k}
    /\ UNCHANGED <<active, proc, cached, slip, ref, given, saved, behind>>

SaveTaken(k) ==
    /\ unsaved[k] # 0
    /\ unsaved' = [unsaved EXCEPT ![k] = 0]
    /\ saved' \in {saved, [saved EXCEPT ![k] = @ \cup {unsaved[k]}]}
    /\ UNCHANGED <<bnCounter, bnStore, behind>>

Switch == active' \in Books /\ UNCHANGED <<counter, proc, cached, bnStore,
                                          bnWinspeed, behind>>

BnNext ==
    \/ \E d \in Slip, k \in Books :
          Rebook(d, k) \/ \E n \in Suffix : CreateSlip(d, k, n)
    \/ \E d \in Slip :
          \/ \E n, c, a \in 0..MaxNo : CheckNumber(d, n, c, a)
          \/ DeleteSlip(d) \/ CommitNumber(d) \/ Abort(d) \/ LookupFails(d)
    \/ \E k \in Books : TakeNumber(k) \/ SaveTaken(k)
    \/ Restart \/ Switch

BnSpec == BnInit /\ [][BnNext]_bnVars

-----------------------------------------------------------------------------
\* The state keeps its types.
BnTypeOK ==
    /\ counter \in [Books -> 0..MaxNo]
    /\ active \in Books /\ proc \in BOOLEAN
    /\ cached \in {"unknown", "yes", "no"}
    /\ slip \in [Slip -> {"none", "DRAFT", "checked", "CONFIRMED", "gone"}]
    /\ ref \in [Slip -> [book : Books, n : 0..MaxNo]]
    /\ given \in [Slip -> 0..MaxNo]
    /\ unsure \subseteq Slip
    /\ unsaved \in [Books -> 0..MaxNo]
    /\ saved \in [Books -> SUBSET Suffix]
    /\ behind \subseteq Books

\* A booking of the app and one of WINSpeed share a number only when WINSpeed
\* took it while that booking was being confirmed, the counter of the book
\* had been left behind, or it could not be read (draft-confirmation.js: the
\* check of the number and the advance of the counter).
NumberIssuedOnce ==
    \A d \in Slip :
        slip[d] = "CONFIRMED" /\ d \notin unsure /\ ref[d].book \notin behind =>
            ref[d].n \notin saved[ref[d].book] \cup {unsaved[ref[d].book]}
=============================================================================
