---------------------------- MODULE Confirmation ----------------------------
(***************************************************************************)
(* The confirm of drafts, one by one (routes/so.js PATCH /:id/confirm) or  *)
(* by trip (routes/trips.js POST /:id/confirm), both through confirmDraft  *)
(* of services/draft-confirmation.js, against users who edit, delete and   *)
(* move the drafts and managers who decide their prices.                   *)
(*                                                                         *)
(* A confirm reads without a lock, then, in one transaction, takes the     *)
(* application locks one at a time, and books or rolls back; what it       *)
(* locks and writes is unseen until the commit, so the rows a transaction  *)
(* writes change in one step.  No code cancels a trip, so a draft in a     *)
(* trip is never confirmed on its own.  Bookings already in WinSpeed       *)
(* (natives) that are locked again with their trip are in Shipment.        *)
(***************************************************************************)
EXTENDS Naturals, FiniteSets

CONSTANTS
    MaxId,      \* the largest id (INT in the code)
    Draft,      \* ids of wf.SalesOrder
    Trip,       \* ids of wf.SalesTrip
    Request,    \* confirm requests under way at a time
    Key,        \* idempotency keys the clients send
    NoTrip, NoKey, Nobody,
    MaxRev,     \* bound: price changes of a draft
    Repriced    \* bound: the drafts whose prices change and may deviate

ASSUME ConfirmationAssumption ==
    /\ MaxId \in Nat /\ Draft \subseteq 0..MaxId
    /\ MaxRev \in Nat \ {0} /\ Repriced \subseteq Draft
    /\ NoTrip \notin Trip /\ NoKey \notin Key /\ Nobody \notin Request

VARIABLES
    draft,      \* rows of wf.SalesOrder; rev 0 before the draft is created
    decision,   \* wf.PriceApproval by draft and DocumentRevision
    booked,     \* bookings by SourceDraftId
    trip,       \* rows of wf.SalesTrip, with the key and hash of the confirm
    tripLock, draftLock,    \* owners of ConfirmTrip_ and ConfirmSO_
    req

data == <<draft, decision, booked, trip>>
locks == <<tripLock, draftLock>>
vars == <<draft, decision, booked, trip, tripLock, draftLock, req>>

Decision == {"NONE", "PENDING", "APPROVED", "REJECTED", "SUPERSEDED"}
DraftRow == [here: BOOLEAN, trip: Trip \cup {NoTrip}, rev: 0..MaxRev,
             price: Decision \ {"SUPERSEDED"}]
TripRow == [status: {"NONE", "DRAFT", "CONFIRMED"}, key: Key \cup {NoKey},
            chosen: SUBSET Draft]
Booking == [trip: Trip \cup {NoTrip}, alone: BOOLEAN, rev: 1..MaxRev,
            asked: BOOLEAN]
ReqState == [step: {"idle", "trip", "drafts", "confirmed"},
         trip: Trip \cup {NoTrip}, chosen: SUBSET Draft,
         members: SUBSET Draft, rev: 0..MaxRev, key: Key \cup {NoKey}]

Calling(step, t, ds, members, rev, key) ==
    [step |-> step, trip |-> t, chosen |-> ds, members |-> members,
     rev |-> rev, key |-> key]

Unsent == Calling("idle", NoTrip, {}, {}, 0, NoKey)

Init ==
    /\ draft = [d \in Draft |-> [here |-> FALSE, trip |-> NoTrip, rev |-> 0,
                                 price |-> "NONE"]]
    /\ decision = [d \in Draft |-> [r \in 1..MaxRev |-> "NONE"]]
    /\ booked = [d \in Draft |-> {}]
    /\ trip = [t \in Trip |-> [status |-> "NONE", key |-> NoKey,
                               chosen |-> {}]]
    /\ tripLock = [t \in Trip |-> Nobody]
    /\ draftLock = [d \in Draft |-> Nobody]
    /\ req = [q \in Request |-> Unsent]

\* The trips a draft may be put in; one that is confirmed is not refused.
Known == {NoTrip} \cup {t \in Trip : trip[t].status # "NONE"}

-----------------------------------------------------------------------------
(* The drafts and their prices.  Each is one transaction or one statement. *)

PriceOf(asks) == IF asks THEN "PENDING" ELSE "NONE"

\* A price that deviates asks for an approval of the new revision, and the
\* open or granted ones of older revisions are superseded.
Priced(d, t, r, asks) ==
    /\ draft' = [draft EXCEPT ![d] =
            [here |-> TRUE, trip |-> t, rev |-> r, price |-> PriceOf(asks)]]
    /\ decision' = [decision EXCEPT ![d] = [s \in 1..MaxRev |->
            IF s = r /\ asks THEN "PENDING"
            ELSE IF s < r /\ @[s] \in {"PENDING", "APPROVED"}
                 THEN "SUPERSEDED" ELSE @[s]]]

Create(d, t, asks) ==
    /\ draft[d].rev = 0 /\ t \in Known /\ (asks => d \in Repriced)
    /\ Priced(d, t, 1, asks)
    /\ UNCHANGED <<booked, trip, locks, req>>

EditPrice(d, t, asks) ==
    /\ draft[d].here /\ draft[d].rev < MaxRev /\ t \in Known
    /\ d \in Repriced
    /\ Priced(d, t, draft[d].rev + 1, asks)
    /\ UNCHANGED <<booked, trip, locks, req>>

\* An edit that keeps the prices keeps the revision and its approval.
EditTrip(d, t) ==
    /\ draft[d].here /\ t \in Known
    /\ draft' = [draft EXCEPT ![d].trip = t]
    /\ UNCHANGED <<decision, booked, trip, locks, req>>

Copied(row) == row

\* The row is gone; its id is not used again.
Deleted(row) == [here |-> FALSE, trip |-> NoTrip, rev |-> row.rev,
                 price |-> "NONE"]

Delete(d) ==
    /\ draft[d].here
    /\ draft' = [draft EXCEPT ![d] = Deleted(@)]
    /\ decision' = [decision EXCEPT ![d] = [s \in 1..MaxRev |->
            IF @[s] = "PENDING" THEN "SUPERSEDED" ELSE @[s]]]
    /\ UNCHANGED <<booked, trip, locks, req>>

Decide(d, answer) ==
    /\ draft[d].here /\ draft[d].rev > 0
    /\ decision[d][draft[d].rev] = "PENDING"
    /\ decision' = [decision EXCEPT ![d][draft[d].rev] = answer]
    /\ draft' = [draft EXCEPT ![d].price = answer]
    /\ UNCHANGED <<booked, trip, locks, req>>

\* A new trip takes the drafts it names, out of any trip they are in.
NewTrip(t, ds) ==
    /\ trip[t].status = "NONE"
    /\ trip' = [trip EXCEPT ![t].status = "DRAFT"]
    /\ draft' = [d \in Draft |-> IF d \in ds /\ draft[d].here
                                 THEN [draft[d] EXCEPT !.trip = t]
                                 ELSE draft[d]]
    /\ UNCHANGED <<decision, booked, locks, req>>

-----------------------------------------------------------------------------
(* A confirm request.  One that is refused at once changes nothing and is  *)
(* not shown.                                                              *)

\* The transaction ends: its locks go, and the request has its answer or,
\* refused, may be sent again.
Confirmed(q) ==
    Calling("confirmed", req[q].trip, req[q].chosen, {}, 0, NoKey)

Return(q, answer) ==
    /\ req' = [req EXCEPT ![q] = answer]
    /\ tripLock' = [t \in Trip |->
            IF tripLock[t] = q THEN Nobody ELSE tripLock[t]]
    /\ draftLock' = [d \in Draft |->
            IF draftLock[d] = q THEN Nobody ELSE draftLock[d]]

\* The replay of a bill: its draft has a booking.
Replayed(d) == booked[d] # {}

AskBill(q, d) ==
    /\ req[q].step = "idle"
    /\ \/ Replayed(d)
          /\ req' = [req EXCEPT ![q] =
                Calling("confirmed", NoTrip, {d}, {}, 0, NoKey)]
       \/ ~Replayed(d) /\ draft[d].here /\ draft[d].trip = NoTrip
          /\ req' = [req EXCEPT ![q] =
                Calling("drafts", NoTrip, {d}, {d}, draft[d].rev, NoKey)]
    /\ UNCHANGED <<data, locks>>

SameKey(t, key, ds) == key # NoKey /\ trip[t].key = key

\* The same key with the same payload: the trip and the drafts chosen.
SameConfirm(t, key, ds) ==
    key # NoKey /\ trip[t].key = key /\ trip[t].chosen = ds

AskTrip(q, t, key, ds) ==
    /\ req[q].step = "idle" /\ trip[t].status # "NONE"
    /\ \A u \in Trip : key # NoKey /\ trip[u].key = key =>
            u = t /\ SameConfirm(t, key, ds)
    /\ req' = [req EXCEPT ![q] =
            Calling(IF SameConfirm(t, key, ds) THEN "confirmed" ELSE "trip",
                    t, ds, {}, 0, key)]
    /\ UNCHANGED <<data, locks>>

Members(t) == {d \in Draft : draft[d].here /\ draft[d].trip = t}

\* Takes the lock of the trip and reads its row and its members.
LockTrip(q) ==
    LET r == req[q] IN
    /\ r.step = "trip" /\ tripLock[r.trip] = Nobody
    /\ \/ /\ trip[r.trip].status = "DRAFT"
          /\ r.chosen \subseteq Members(r.trip)
          /\ tripLock' = [tripLock EXCEPT ![r.trip] = q]
          /\ req' = [req EXCEPT ![q] = Calling("drafts", r.trip, r.chosen,
                                              Members(r.trip), 0, r.key)]
          /\ UNCHANGED draftLock
       \/ /\ trip[r.trip].status = "CONFIRMED"
          /\ SameConfirm(r.trip, r.key, r.chosen)
          /\ Return(q, Confirmed(q))
    /\ UNCHANGED data

Unlocked(q) == {d \in req[q].members : draftLock[d] # q}

AnyOrder(q, d) == d \in Unlocked(q)

\* The drafts are locked in ascending order.
IsNext(q, d) == \A e \in Unlocked(q) : d <= e

LockDraft(q, d) ==
    /\ req[q].step = "drafts" /\ d \in Unlocked(q) /\ IsNext(q, d)
    /\ draftLock[d] = Nobody
    /\ draftLock' = [draftLock EXCEPT ![d] = q]
    /\ UNCHANGED <<data, tripLock, req>>

-----------------------------------------------------------------------------
(* The end of the transaction, with every lock held.                       *)

PriceNotRejected(d) == draft[d].price # "REJECTED"
PriceSettled(d) ==
    draft[d].price # "NONE" =>
        /\ draft[d].price = "APPROVED"
        /\ decision[d][draft[d].rev] = "APPROVED"
        /\ \A s \in 1..MaxRev : decision[d][s] # "PENDING"

StillDraft(d) == draft[d].here

\* What confirmDraft asks of a draft before it books it; its other checks
\* (counter check, quotation, credit, giveaways) are left to Refuse.
Confirmable(d) == StillDraft(d) /\ draft[d].rev > 0 /\ PriceSettled(d)

AnyTrip(d, t) == TRUE

\* Only a trip's confirm gives the trip it expects.  A bill's request that
\* read no trip gives none, and no revision either: the row it took them
\* from, of v_AllSalesOrders, has neither column.
SameTrip(d, t) == t # NoTrip => draft[d].trip = t

\* One draft that cannot be booked rolls the whole transaction back.
AllConfirmable(ds, t) == \A d \in ds : Confirmable(d) /\ SameTrip(d, t)

Book(ds, t) ==
    booked' = [d \in Draft |-> IF d \in ds
        THEN booked[d] \cup {[trip |-> draft[d].trip, alone |-> (t = NoTrip),
                              rev |-> draft[d].rev,
                              asked |-> (draft[d].price # "NONE")]}
        ELSE booked[d]]

CommitBill(q) ==
    LET r == req[q] IN
    /\ r.step = "drafts" /\ r.trip = NoTrip /\ Unlocked(q) = {}
    /\ \/ /\ \A d \in r.chosen : Replayed(d)
          /\ UNCHANGED data
       \/ /\ \A d \in r.chosen : ~Replayed(d)
          /\ AllConfirmable(r.chosen, NoTrip)
          /\ Book(r.chosen, NoTrip)
          /\ draft' = [d \in Draft |-> IF d \in r.chosen
                THEN Deleted(draft[d]) ELSE draft[d]]
          /\ UNCHANGED <<decision, trip>>
    /\ Return(q, Confirmed(q))

\* The members not chosen move to a new trip, wherever they are by now.
Residual(q) == req[q].members \ req[q].chosen

CommitTrip(q, rest) ==
    LET r == req[q] IN
    /\ r.step = "drafts" /\ r.trip # NoTrip /\ Unlocked(q) = {}
    /\ trip[rest].status = "NONE" \/ Residual(q) = {}
    /\ AllConfirmable(r.chosen, r.trip)
    /\ Book(r.chosen, r.trip)
    /\ draft' = [d \in Draft |->
            IF d \in r.chosen THEN Deleted(draft[d])
            ELSE IF d \in Residual(q) /\ draft[d].here
                 THEN [draft[d] EXCEPT !.trip = rest] ELSE draft[d]]
    /\ trip' = [t \in Trip |->
            IF t = r.trip THEN [status |-> "CONFIRMED", key |-> r.key,
                                chosen |-> r.chosen]
            ELSE IF t = rest /\ Residual(q) # {}
                 THEN [trip[t] EXCEPT !.status = "DRAFT"] ELSE trip[t]]
    /\ UNCHANGED decision
    /\ Return(q, Confirmed(q))

\* A check that fails, a lock not granted in ten seconds, an error or a stop
\* of the server: the transaction is rolled back and its locks are released.
Refuse(q) ==
    /\ req[q].step \in {"trip", "drafts"}
    /\ Return(q, Unsent)
    /\ UNCHANGED data

-----------------------------------------------------------------------------
Change(d) ==
    \/ \E t \in Trip \cup {NoTrip} :
         \/ EditTrip(d, t)
         \/ \E asks \in BOOLEAN : Create(d, t, asks) \/ EditPrice(d, t, asks)
    \/ \E answer \in {"APPROVED", "REJECTED"} : Decide(d, answer)
    \/ Delete(d)

Serve(q) ==
    \/ \E d \in Draft : AskBill(q, d) \/ LockDraft(q, d)
    \/ \E t \in Trip, key \in Key \cup {NoKey}, ds \in (SUBSET Draft) \ {{}} :
         AskTrip(q, t, key, ds)
    \/ LockTrip(q)
    \/ CommitBill(q)
    \/ \E rest \in Trip : CommitTrip(q, rest)
    \/ Refuse(q)

Next ==
    \/ \E d \in Draft : Change(d)
    \/ \E t \in Trip, ds \in SUBSET Draft : NewTrip(t, ds)
    \/ \E q \in Request : Serve(q)

Spec == Init /\ [][Next]_vars

-----------------------------------------------------------------------------
(* The rows, the locks and the calls are of their types.                   *)
TypeOK ==
    /\ draft \in [Draft -> DraftRow]
    /\ decision \in [Draft -> [1..MaxRev -> Decision]]
    /\ booked \in [Draft -> SUBSET Booking]
    /\ trip \in [Trip -> TripRow]
    /\ tripLock \in [Trip -> Request \cup {Nobody}]
    /\ draftLock \in [Draft -> Request \cup {Nobody}]
    /\ req \in [Request -> ReqState]

(* A draft is booked at most once, and a booked draft is gone, whatever    *)
(* retries, bill and trip confirms of it meet.                             *)
BookedOnce ==
    \A d \in Draft : booked[d] # {} =>
        ~draft[d].here /\ \E b \in booked[d] : booked[d] = {b}

(* What was booked at a deviating price has an approval of exactly that    *)
(* revision, whatever edits and decisions came between the request and its *)
(* transaction.                                                            *)
PriceWasApproved ==
    \A d \in Draft : \A b \in booked[d] :
        b.asked => decision[d][b.rev] = "APPROVED"

(* A trip is confirmed as a whole: what was booked through it is what its  *)
(* one confirm chose, all of it, and nothing before that confirm.          *)
TripIsWhole ==
    \A t \in Trip :
        {d \in Draft : \E b \in booked[d] : b.trip = t /\ ~b.alone} =
            IF trip[t].status = "CONFIRMED" THEN trip[t].chosen ELSE {}

(* A request answered confirmed, by a commit or by either replay, finds    *)
(* each draft it chose booked in the trip it named.                        *)
AnswerIsBooked ==
    \A q \in Request : req[q].step = "confirmed" =>
        \A d \in req[q].chosen : \E b \in booked[d] :
            req[q].trip # NoTrip => b.trip = req[q].trip

(* Who holds the lock that the request asks for next.                      *)
WaitsFor(q) ==
    LET r == req[q] IN
    IF r.step = "trip" THEN {tripLock[r.trip]} \ {Nobody}
    ELSE IF r.step = "drafts"
         THEN {draftLock[d] : d \in {e \in Unlocked(q) : IsNext(q, e)}}
                  \ {Nobody}
         ELSE {}

(* No set of confirms wait on each other: a trip's lock comes before its   *)
(* drafts' locks, in ascending order, also when a draft moved meanwhile.   *)
NoStandstill ==
    \A S \in (SUBSET Request) \ {{}} :
        \E q \in S : WaitsFor(q) \cap S = {}

(* A booking is only made of a draft that still exists and has none, under *)
(* the lock of that draft, whoever confirmed or deleted it meanwhile.      *)
BooksOnlyDrafts ==
    [][\A d \in Draft : booked'[d] # booked[d] =>
        booked[d] = {} /\ draft[d].here /\ draftLock[d] # Nobody]_vars

(* A bill is booked on its own as its request read it: in no trip and at   *)
(* that revision ("Trip membership changed; reload", "SO revision changed; *)
(* reload").                                                               *)
BookedAsRead ==
    [][\A q \in Request :
        req[q].step = "drafts" /\ req[q].trip = NoTrip
        /\ req'[q].step = "confirmed" =>
            \A d \in req[q].chosen : \A b \in booked'[d] \ booked[d] :
                b.trip = NoTrip /\ b.rev = req[q].rev]_vars
=============================================================================
