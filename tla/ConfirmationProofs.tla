------------------------- MODULE ConfirmationProofs -------------------------
(***************************************************************************)
(* Proofs about Confirmation, for any drafts, trips, requests and keys.    *)
(*                                                                         *)
(* The invariant has three parts: the types; who owns which lock and what  *)
(* the owner knows (Owned); and what is booked (Books).  Each action is    *)
(* one step for the types, and the actions that write the rows, that take  *)
(* a lock or that end a request have one each for the other two parts.     *)
(***************************************************************************)
EXTENDS Confirmation, WellFoundedInduction, TLAPS

-----------------------------------------------------------------------------
(* The types.                                                              *)

LEMMA InitTyped == Init => TypeOK
  BY ConfirmationAssumption DEF Init, TypeOK, DraftRow, TripRow, Decision,
     Booking, ReqState, Calling, Unsent

\* A price change leaves rows of their types.
LEMMA PricedTyped ==
  ASSUME TypeOK, NEW d \in Draft, NEW t \in Known, NEW r \in 1..MaxRev,
         NEW asks \in BOOLEAN, Priced(d, t, r, asks)
  PROVE  /\ draft' \in [Draft -> DraftRow]
         /\ decision' \in [Draft -> [1..MaxRev -> Decision]]
<1>1. [here |-> TRUE, trip |-> t, rev |-> r, price |-> PriceOf(asks)]
        \in DraftRow
  BY ConfirmationAssumption DEF DraftRow, Known, PriceOf, Decision
<1>2. draft' \in [Draft -> DraftRow]
  BY <1>1 DEF TypeOK, Priced
<1>3. [s \in 1..MaxRev |->
          IF s = r /\ asks THEN "PENDING"
          ELSE IF s < r /\ decision[d][s] \in {"PENDING", "APPROVED"}
               THEN "SUPERSEDED" ELSE decision[d][s]]
        \in [1..MaxRev -> Decision]
  <2>1. \A s \in 1..MaxRev : decision[d][s] \in Decision
    BY DEF TypeOK
  <2>2. "PENDING" \in Decision /\ "SUPERSEDED" \in Decision
    BY DEF Decision
  <2> QED BY <2>1, <2>2
<1>4. decision' \in [Draft -> [1..MaxRev -> Decision]]
  BY <1>3 DEF TypeOK, Priced
<1> QED BY <1>2, <1>4

\* What an end of a request leaves.
LEMMA FinishTyped ==
  ASSUME TypeOK, NEW q \in Request,
         Return(q, Confirmed(q)) \/ Return(q, Unsent)
  PROVE  /\ req' \in [Request -> ReqState]
         /\ tripLock' \in [Trip -> Request \cup {Nobody}]
         /\ draftLock' \in [Draft -> Request \cup {Nobody}]
<1>1. Confirmed(q) \in ReqState /\ Unsent \in ReqState
  BY ConfirmationAssumption DEF TypeOK, ReqState, Calling, Confirmed, Unsent
<1>2. req' \in [Request -> ReqState] BY <1>1 DEF TypeOK, Return
<1> QED BY <1>2 DEF TypeOK, Return

\* A draft that is moved, decided or deleted keeps its type.
LEMMA RowTyped ==
  ASSUME NEW row \in DraftRow
  PROVE  /\ \A t \in Trip \cup {NoTrip} : [row EXCEPT !.trip = t] \in DraftRow
         /\ \A a \in {"APPROVED", "REJECTED"} :
               [row EXCEPT !.price = a] \in DraftRow
         /\ Deleted(row) \in DraftRow
<1>1. \A t \in Trip \cup {NoTrip} : [row EXCEPT !.trip = t] \in DraftRow
  BY DEF DraftRow
<1>2. \A a \in {"APPROVED", "REJECTED"} : a \in Decision \ {"SUPERSEDED"}
  BY DEF Decision
<1>3. \A a \in Decision \ {"SUPERSEDED"} : [row EXCEPT !.price = a] \in DraftRow
  BY DEF DraftRow
<1>4. Deleted(row) \in DraftRow
  BY DEF DraftRow, Deleted, Decision
<1> QED BY <1>1, <1>2, <1>3, <1>4

LEMMA ChangeTyped ==
  ASSUME TypeOK, NEW d \in Draft, Change(d)
  PROVE  TypeOK'
<1>1. ASSUME NEW t \in Trip \cup {NoTrip}, EditTrip(d, t) PROVE TypeOK'
  <2>1. [draft[d] EXCEPT !.trip = t] \in DraftRow
    BY RowTyped DEF TypeOK
  <2> QED BY <1>1, <2>1 DEF EditTrip, TypeOK, locks
<1>2. ASSUME NEW t \in Trip \cup {NoTrip}, NEW asks \in BOOLEAN,
             Create(d, t, asks)
      PROVE TypeOK'
  <2>1. 1 \in 1..MaxRev BY ConfirmationAssumption
  <2> QED BY <1>2, <2>1, PricedTyped DEF Create, TypeOK, locks
<1>3. ASSUME NEW t \in Trip \cup {NoTrip}, NEW asks \in BOOLEAN,
             EditPrice(d, t, asks)
      PROVE TypeOK'
  <2>1. draft[d].rev + 1 \in 1..MaxRev
    BY <1>3, ConfirmationAssumption DEF EditPrice, TypeOK, DraftRow
  <2> QED BY <1>3, <2>1, PricedTyped DEF EditPrice, TypeOK, locks
<1>4. ASSUME NEW a \in {"APPROVED", "REJECTED"}, Decide(d, a) PROVE TypeOK'
  <2>1. [draft[d] EXCEPT !.price = a] \in DraftRow
    BY RowTyped DEF TypeOK
  <2>2. [decision[d] EXCEPT ![draft[d].rev] = a] \in [1..MaxRev -> Decision]
    BY <1>4 DEF TypeOK, Decision
  <2> QED BY <1>4, <2>1, <2>2 DEF Decide, TypeOK, locks
<1>5. ASSUME Delete(d) PROVE TypeOK'
  <2>1. Deleted(draft[d]) \in DraftRow
    BY RowTyped DEF TypeOK
  <2>2. [s \in 1..MaxRev |->
            IF decision[d][s] = "PENDING" THEN "SUPERSEDED"
            ELSE decision[d][s]] \in [1..MaxRev -> Decision]
    <3>1. \A s \in 1..MaxRev : decision[d][s] \in Decision
      BY DEF TypeOK
    <3>2. "SUPERSEDED" \in Decision
      BY DEF Decision
    <3> QED BY <3>1, <3>2
  <2> QED BY <1>5, <2>1, <2>2 DEF Delete, TypeOK, locks
<1> QED BY <1>1, <1>2, <1>3, <1>4, <1>5 DEF Change

LEMMA NewTripTyped ==
  ASSUME TypeOK, NEW t \in Trip, NEW ds \in SUBSET Draft, NewTrip(t, ds)
  PROVE  TypeOK'
<1>1. [trip[t] EXCEPT !.status = "DRAFT"] \in TripRow
  BY DEF TypeOK, TripRow
<1>2. \A d \in Draft : [draft[d] EXCEPT !.trip = t] \in DraftRow
  BY DEF TypeOK, DraftRow
<1> QED BY <1>1, <1>2 DEF NewTrip, TypeOK, locks

\* The bookings of a commit are of their type.
LEMMA BookTyped ==
  ASSUME TypeOK, NEW ds \in SUBSET Draft, NEW t \in Trip \cup {NoTrip},
         AllConfirmable(ds, t), Book(ds, t)
  PROVE  booked' \in [Draft -> SUBSET Booking]
<1>1. ASSUME NEW d \in ds
      PROVE [trip |-> draft[d].trip, alone |-> (t = NoTrip),
             rev |-> draft[d].rev, asked |-> (draft[d].price # "NONE")]
              \in Booking
  <2>1. draft[d] \in DraftRow BY DEF TypeOK
  <2>2. draft[d].rev \in 1..MaxRev
    BY <2>1, ConfirmationAssumption DEF AllConfirmable, Confirmable, DraftRow
  <2>3. (t = NoTrip) \in BOOLEAN /\ (draft[d].price # "NONE") \in BOOLEAN
    OBVIOUS
  <2> QED BY <2>1, <2>2, <2>3 DEF Booking, DraftRow
<1> QED BY <1>1 DEF Book, TypeOK

LEMMA ServeTyped ==
  ASSUME TypeOK, NEW q \in Request, Serve(q)
  PROVE  TypeOK'
<1> USE DEF TypeOK
<1>1. req[q] \in ReqState OBVIOUS
<1>2. ASSUME NEW d \in Draft, AskBill(q, d) PROVE TypeOK'
  <2>1. Calling("confirmed", NoTrip, {d}, {}, 0, NoKey) \in ReqState
    BY ConfirmationAssumption DEF ReqState, Calling
  <2>2. Calling("drafts", NoTrip, {d}, {d}, draft[d].rev, NoKey) \in ReqState
    BY ConfirmationAssumption DEF ReqState, Calling, DraftRow
  <2> QED BY <1>2, <2>1, <2>2 DEF AskBill, data, locks
<1>3. ASSUME NEW d \in Draft, LockDraft(q, d) PROVE TypeOK'
  BY <1>3 DEF LockDraft, data
<1>4. ASSUME NEW t \in Trip, NEW key \in Key \cup {NoKey},
             NEW ds \in (SUBSET Draft) \ {{}}, AskTrip(q, t, key, ds)
      PROVE TypeOK'
  <2>1. \A s \in {"confirmed", "trip"} :
          Calling(s, t, ds, {}, 0, key) \in ReqState
    BY ConfirmationAssumption DEF ReqState, Calling
  <2> QED BY <1>4, <2>1 DEF AskTrip, data, locks
<1>5. ASSUME LockTrip(q) PROVE TypeOK'
  <2>1. Calling("drafts", req[q].trip, req[q].chosen, Members(req[q].trip),
                0, req[q].key) \in ReqState
    BY <1>1, ConfirmationAssumption DEF ReqState, Calling, Members
  <2>2. CASE Return(q, Confirmed(q))
    BY <1>5, <2>2, FinishTyped DEF LockTrip, data
  <2>3. CASE /\ tripLock' = [tripLock EXCEPT ![req[q].trip] = q]
             /\ req' = [req EXCEPT ![q] =
                    Calling("drafts", req[q].trip, req[q].chosen,
                            Members(req[q].trip), 0, req[q].key)]
             /\ UNCHANGED draftLock
    BY <1>5, <2>1, <2>3 DEF LockTrip, data
  <2> QED BY <1>5, <2>2, <2>3 DEF LockTrip
<1>6. ASSUME CommitBill(q) PROVE TypeOK'
  <2>1. /\ req' \in [Request -> ReqState]
        /\ tripLock' \in [Trip -> Request \cup {Nobody}]
        /\ draftLock' \in [Draft -> Request \cup {Nobody}]
    BY <1>6, FinishTyped DEF CommitBill
  <2>2. CASE UNCHANGED data BY <2>1, <2>2 DEF data
  <2>3. CASE /\ AllConfirmable(req[q].chosen, NoTrip)
             /\ Book(req[q].chosen, NoTrip)
             /\ draft' = [d \in Draft |-> IF d \in req[q].chosen
                            THEN Deleted(draft[d]) ELSE draft[d]]
             /\ UNCHANGED <<decision, trip>>
    <3>1. booked' \in [Draft -> SUBSET Booking]
      BY <1>1, <2>3, BookTyped DEF ReqState
    <3>2. \A d \in Draft : Deleted(draft[d]) \in DraftRow
      BY DEF DraftRow, Deleted, Decision
    <3> QED BY <2>1, <2>3, <3>1, <3>2
  <2> QED BY <1>6, <2>2, <2>3 DEF CommitBill
<1>7. ASSUME NEW rest \in Trip, CommitTrip(q, rest) PROVE TypeOK'
  <2>1. /\ req' \in [Request -> ReqState]
        /\ tripLock' \in [Trip -> Request \cup {Nobody}]
        /\ draftLock' \in [Draft -> Request \cup {Nobody}]
    BY <1>7, FinishTyped DEF CommitTrip
  <2>2. booked' \in [Draft -> SUBSET Booking]
    BY <1>1, <1>7, BookTyped DEF ReqState, CommitTrip
  <2>3. \A d \in Draft : /\ Deleted(draft[d]) \in DraftRow
                         /\ [draft[d] EXCEPT !.trip = rest] \in DraftRow
    BY RowTyped
  <2>4. draft' \in [Draft -> DraftRow] BY <1>7, <2>3 DEF CommitTrip
  <2>5. [status |-> "CONFIRMED", key |-> req[q].key,
         chosen |-> req[q].chosen] \in TripRow
    BY <1>1 DEF ReqState, TripRow
  <2>6. \A t \in Trip : [trip[t] EXCEPT !.status = "DRAFT"] \in TripRow
    BY DEF TripRow
  <2>7. trip' \in [Trip -> TripRow] BY <1>7, <2>5, <2>6 DEF CommitTrip
  <2> QED BY <1>7, <2>1, <2>2, <2>4, <2>7 DEF CommitTrip
<1>8. ASSUME Refuse(q) PROVE TypeOK'
  BY <1>8, FinishTyped DEF Refuse, data
<1> QED BY <1>2, <1>3, <1>4, <1>5, <1>6, <1>7, <1>8 DEF Serve

LEMMA TypeInductive ==
  ASSUME TypeOK, [Next]_vars
  PROVE  TypeOK'
<1>1. CASE UNCHANGED vars BY <1>1 DEF vars, TypeOK
<1>2. CASE Next BY <1>2, ChangeTyped, NewTripTyped, ServeTyped DEF Next
<1> QED BY <1>1, <1>2

\* The rows, the locks and the requests are always of their types.
THEOREM TypeCorrect == Spec => []TypeOK
<1>1. TypeOK /\ [Next]_vars => TypeOK' BY TypeInductive
<1> QED BY InitTyped, <1>1, PTL DEF Spec

-----------------------------------------------------------------------------
(* Who owns the locks.                                                     *)

\* A trip's lock is owned by the request that is at the trip's drafts.
TripOwned ==
    \A q \in Request, t \in Trip : tripLock[t] = q =>
        req[q].step = "drafts" /\ req[q].trip = t

\* A request owns a first part of its members, in ascending order.
DraftsOwned ==
    \A q \in Request, d \in Draft : draftLock[d] = q =>
        /\ req[q].step = "drafts" /\ d \in req[q].members
        /\ \A e \in req[q].members : e < d => draftLock[e] = q

\* Nobody else confirms the trip of a request that is at its drafts.
Prepared(q) ==
    req[q].step = "drafts" =>
        /\ req[q].chosen \subseteq req[q].members
        /\ req[q].trip # NoTrip =>
              tripLock[req[q].trip] = q /\ trip[req[q].trip].status = "DRAFT"

Owned ==
    /\ TripOwned /\ DraftsOwned
    /\ \A q \in Request : Prepared(q)
    /\ \A q \in Request : req[q].step = "trip" => req[q].trip \in Trip

\* A draft trip stays one for everybody but the request that confirms it.
TripsKept(q) ==
    \A t \in Trip : trip[t].status = "DRAFT" /\ tripLock[t] # q =>
        trip'[t].status = "DRAFT"

LEMMA OwnedQuiet ==
  ASSUME TypeOK, Owned, UNCHANGED locks, UNCHANGED req,
         \A t \in Trip : trip[t].status = "DRAFT" => trip'[t].status = "DRAFT"
  PROVE  Owned'
<1>1. tripLock' = tripLock /\ draftLock' = draftLock /\ req' = req
  BY DEF locks
<1>2. \A q \in Request : req[q].trip # NoTrip => req[q].trip \in Trip
  BY DEF TypeOK, ReqState
<1> QED BY <1>1, <1>2 DEF Owned, TripOwned, DraftsOwned, Prepared

LEMMA FinishOwned ==
  ASSUME TypeOK, Owned, NEW q \in Request,
         Return(q, Confirmed(q)) \/ Return(q, Unsent), TripsKept(q)
  PROVE  Owned'
<1>1. /\ req'[q].step \in {"confirmed", "idle"}
      /\ \A p \in Request : p # q => req'[p] = req[p]
  BY DEF Return, TypeOK, Calling, Confirmed, Unsent
<1>2. /\ \A t \in Trip : tripLock'[t] = IF tripLock[t] = q THEN Nobody
                                         ELSE tripLock[t]
      /\ \A d \in Draft : draftLock'[d] = IF draftLock[d] = q THEN Nobody
                                           ELSE draftLock[d]
  BY DEF Return
<1>3. Nobody \notin Request BY ConfirmationAssumption
<1>4. \A p \in Request : /\ req[p].trip # NoTrip => req[p].trip \in Trip
                         /\ req[p].members \subseteq Draft
  BY DEF TypeOK, ReqState
<1>5. TripOwned' BY <1>1, <1>2, <1>3 DEF Owned, TripOwned
<1>6. DraftsOwned'
  <2> SUFFICES ASSUME NEW p \in Request, NEW d \in Draft, draftLock'[d] = p
               PROVE  /\ req'[p].step = "drafts" /\ d \in req'[p].members
                      /\ \A e \in req'[p].members : e < d => draftLock'[e] = p
    BY DEF DraftsOwned
  <2>1. p # q /\ draftLock[d] = p BY <1>2, <1>3
  <2> QED BY <1>1, <1>2, <1>4, <2>1 DEF Owned, DraftsOwned
<1>7. \A p \in Request : Prepared(p)'
  BY <1>1, <1>2, <1>4 DEF Owned, Prepared, TripsKept
<1>8. \A p \in Request : req'[p].step = "trip" => req'[p].trip \in Trip
  BY <1>1 DEF Owned
<1> QED BY <1>5, <1>6, <1>7, <1>8 DEF Owned

\* A request that has no lock yet says what it is going to confirm.
LEMMA AskOwned ==
  ASSUME TypeOK, Owned, NEW q \in Request, req[q].step = "idle",
         UNCHANGED <<data, locks>>, NEW call \in ReqState,
         req' = [req EXCEPT ![q] = call],
         \/ call.step = "confirmed"
         \/ call.step = "trip" /\ call.trip \in Trip
         \/ call.step = "drafts" /\ call.trip = NoTrip
              /\ call.chosen \subseteq call.members
  PROVE  Owned'
<1>1. req'[q] = call /\ \A p \in Request : p # q => req'[p] = req[p]
  BY DEF TypeOK
<1>2. tripLock' = tripLock /\ draftLock' = draftLock /\ trip' = trip
  BY DEF data, locks
<1>3. /\ \A t \in Trip : tripLock[t] # q
      /\ \A d \in Draft : draftLock[d] # q
  BY DEF Owned, TripOwned, DraftsOwned
<1>4. TripOwned' /\ DraftsOwned'
  BY <1>1, <1>2, <1>3 DEF Owned, TripOwned, DraftsOwned
<1>5. \A p \in Request : Prepared(p)'
  BY <1>1, <1>2 DEF Owned, Prepared
<1>6. \A p \in Request : req'[p].step = "trip" => req'[p].trip \in Trip
  BY <1>1 DEF Owned
<1> QED BY <1>4, <1>5, <1>6 DEF Owned

LEMMA LockTripOwned ==
  ASSUME TypeOK, Owned, NEW q \in Request, LockTrip(q)
  PROVE  Owned'
<1>1. CASE Return(q, Confirmed(q))
  BY <1>1, FinishOwned DEF LockTrip, data, TripsKept
<1>2. ASSUME /\ trip[req[q].trip].status = "DRAFT"
             /\ req[q].chosen \subseteq Members(req[q].trip)
             /\ tripLock' = [tripLock EXCEPT ![req[q].trip] = q]
             /\ req' = [req EXCEPT ![q] =
                    Calling("drafts", req[q].trip, req[q].chosen,
                            Members(req[q].trip), 0, req[q].key)]
             /\ UNCHANGED draftLock
      PROVE  Owned'
  <2> DEFINE t == req[q].trip
  <2>1. t \in Trip /\ req[q].step = "trip" /\ tripLock[t] = Nobody
    BY DEF LockTrip, Owned
  <2>2. /\ req'[q].step = "drafts" /\ req'[q].trip = t
        /\ req'[q].chosen = req[q].chosen /\ req'[q].members = Members(t)
        /\ \A p \in Request : p # q => req'[p] = req[p]
    BY <1>2 DEF TypeOK, Calling
  <2>3. /\ tripLock'[t] = q
        /\ \A u \in Trip : u # t => tripLock'[u] = tripLock[u]
        /\ draftLock' = draftLock /\ trip' = trip
    BY <1>2, <2>1 DEF TypeOK, LockTrip, data
  <2>4. /\ \A u \in Trip : tripLock[u] # q
        /\ \A d \in Draft : draftLock[d] # q
    BY <2>1 DEF Owned, TripOwned, DraftsOwned
  <2>5. Nobody \notin Request BY ConfirmationAssumption
  <2>6. TripOwned' BY <2>2, <2>3, <2>4 DEF Owned, TripOwned
  <2>7. DraftsOwned' BY <2>2, <2>3, <2>4 DEF Owned, DraftsOwned
  <2>8. ASSUME NEW p \in Request PROVE Prepared(p)'
    <3>1. CASE p = q BY <1>2, <2>2, <2>3, <3>1 DEF Prepared
    <3>2. CASE p # q
      <4>1. req[p].trip # NoTrip => req[p].trip \in Trip BY DEF TypeOK, ReqState
      <4>2. req[p].trip = t /\ req[p].step = "drafts" /\ t # NoTrip
              => tripLock[t] = p
        BY DEF Owned, Prepared
      <4>3. t # NoTrip BY <2>1, ConfirmationAssumption
      <4> QED BY <2>1, <2>2, <2>3, <2>5, <3>2, <4>1, <4>2, <4>3
              DEF Owned, Prepared
    <3> QED BY <3>1, <3>2
  <2>9. \A p \in Request : req'[p].step = "trip" => req'[p].trip \in Trip
    BY <2>2 DEF Owned
  <2> QED BY <2>6, <2>7, <2>8, <2>9 DEF Owned
<1> QED BY <1>1, <1>2 DEF LockTrip

\* Taking the least member that is missing keeps the order.
LEMMA LockDraftOwned ==
  ASSUME TypeOK, Owned, NEW q \in Request, NEW d \in Draft, LockDraft(q, d)
  PROVE  Owned'
<1>1. /\ req' = req /\ tripLock' = tripLock /\ trip' = trip
      /\ draftLock'[d] = q
      /\ \A e \in Draft : e # d => draftLock'[e] = draftLock[e]
      /\ draftLock[d] = Nobody
  BY DEF LockDraft, data, TypeOK
<1>2. Nobody \notin Request BY ConfirmationAssumption
<1>3. \A p \in Request : req[p].members \subseteq Draft BY DEF TypeOK, ReqState
<1>4. DraftsOwned'
  <2> SUFFICES ASSUME NEW p \in Request, NEW e \in Draft, draftLock'[e] = p
               PROVE  /\ req[p].step = "drafts" /\ e \in req[p].members
                      /\ \A f \in req[p].members : f < e => draftLock'[f] = p
    BY <1>1 DEF DraftsOwned
  <2>1. CASE e = d
    <3>1. p = q BY <1>1, <2>1
    <3>2. req[q].step = "drafts" /\ d \in req[q].members
      BY DEF LockDraft, Unlocked
    <3>3. \A f \in req[q].members : f < d => draftLock[f] = q
      <4>1. \A f \in Unlocked(q) : d <= f BY DEF LockDraft, IsNext
      <4>2. \A f \in Draft : ~(f < d /\ d <= f) BY ConfirmationAssumption
      <4> QED BY <1>3, <4>1, <4>2 DEF Unlocked
    <3>4. \A f \in req[q].members : f < d => f # d
      BY <1>3, ConfirmationAssumption
    <3> QED BY <1>1, <1>3, <2>1, <3>1, <3>2, <3>3, <3>4
  <2>2. CASE e # d
    <3>1. draftLock[e] = p BY <1>1, <2>2
    <3>2. /\ req[p].step = "drafts" /\ e \in req[p].members
          /\ \A f \in req[p].members : f < e => draftLock[f] = p
      BY <3>1 DEF Owned, DraftsOwned
    <3> QED BY <1>1, <1>2, <1>3, <3>2
  <2> QED BY <2>1, <2>2
<1> QED BY <1>1, <1>4 DEF Owned, TripOwned, Prepared

LEMMA ServeOwned ==
  ASSUME TypeOK, Owned, NEW q \in Request, Serve(q)
  PROVE  Owned'
<1>1. ASSUME NEW d \in Draft, AskBill(q, d) PROVE Owned'
  <2>1. Calling("confirmed", NoTrip, {d}, {}, 0, NoKey) \in ReqState
    BY ConfirmationAssumption DEF ReqState, Calling
  <2>2. Calling("drafts", NoTrip, {d}, {d}, draft[d].rev, NoKey) \in ReqState
    BY ConfirmationAssumption DEF ReqState, Calling, TypeOK, DraftRow
  <2>3. CASE Replayed(d)
    BY <1>1, <2>1, <2>3, AskOwned DEF AskBill, Calling
  <2>4. CASE ~Replayed(d)
    BY <1>1, <2>2, <2>4, AskOwned DEF AskBill, Calling
  <2> QED BY <2>3, <2>4
<1>2. ASSUME NEW d \in Draft, LockDraft(q, d) PROVE Owned'
  BY <1>2, LockDraftOwned
<1>3. ASSUME NEW t \in Trip, NEW key \in Key \cup {NoKey},
             NEW ds \in (SUBSET Draft) \ {{}}, AskTrip(q, t, key, ds)
      PROVE Owned'
  <2> DEFINE s == IF SameConfirm(t, key, ds) THEN "confirmed" ELSE "trip"
  <2>1. Calling(s, t, ds, {}, 0, key) \in ReqState
    BY ConfirmationAssumption DEF ReqState, Calling
  <2>2. /\ Calling(s, t, ds, {}, 0, key).step = s
        /\ Calling(s, t, ds, {}, 0, key).trip = t
    BY DEF Calling
  <2>3. s \in {"confirmed", "trip"} OBVIOUS
  <2>4. /\ req[q].step = "idle" /\ UNCHANGED <<data, locks>>
        /\ req' = [req EXCEPT ![q] = Calling(s, t, ds, {}, 0, key)]
    BY <1>3 DEF AskTrip
  <2> HIDE DEF s
  <2> QED BY <2>1, <2>2, <2>3, <2>4, AskOwned
<1>4. ASSUME LockTrip(q) PROVE Owned' BY <1>4, LockTripOwned
<1>5. ASSUME CommitBill(q) PROVE Owned'
  <2>1. trip' = trip BY <1>5 DEF CommitBill, data
  <2> QED BY <1>5, <2>1, FinishOwned DEF CommitBill, TripsKept
<1>6. ASSUME NEW rest \in Trip, CommitTrip(q, rest) PROVE Owned'
  <2>1. tripLock[req[q].trip] = q /\ trip[req[q].trip].status = "DRAFT"
    BY <1>6 DEF CommitTrip, Owned, Prepared
  <2>2. \A t \in Trip : t # req[q].trip => trip'[t] =
          IF t = rest /\ Residual(q) # {}
          THEN [trip[t] EXCEPT !.status = "DRAFT"] ELSE trip[t]
    BY <1>6 DEF CommitTrip
  <2>3. \A t \in Trip : [trip[t] EXCEPT !.status = "DRAFT"].status = "DRAFT"
    BY DEF TypeOK, TripRow
  <2>4. TripsKept(q) BY <2>1, <2>2, <2>3 DEF TripsKept
  <2> QED BY <1>6, <2>4, FinishOwned DEF CommitTrip
<1>7. ASSUME Refuse(q) PROVE Owned'
  BY <1>7, FinishOwned DEF Refuse, data, TripsKept
<1> QED BY <1>1, <1>2, <1>3, <1>4, <1>5, <1>6, <1>7 DEF Serve

LEMMA OwnedInductive ==
  ASSUME TypeOK, Owned, [Next]_vars
  PROVE  Owned'
<1>1. CASE UNCHANGED vars
  BY <1>1, OwnedQuiet DEF vars, locks
<1>2. ASSUME NEW d \in Draft, Change(d) PROVE Owned'
  <2>1. UNCHANGED <<trip, locks, req>>
    BY <1>2 DEF Change, EditTrip, Create, EditPrice, Decide, Delete
  <2> QED BY <2>1, OwnedQuiet
<1>3. ASSUME NEW t \in Trip, NEW ds \in SUBSET Draft, NewTrip(t, ds)
      PROVE Owned'
  <2>1. trip[t].status = "NONE" /\ UNCHANGED <<locks, req>>
    BY <1>3 DEF NewTrip
  <2>2. \A u \in Trip : u # t => trip'[u] = trip[u]
    BY <1>3 DEF NewTrip, TypeOK
  <2> QED BY <2>1, <2>2, OwnedQuiet
<1>4. ASSUME NEW q \in Request, Serve(q) PROVE Owned' BY <1>4, ServeOwned
<1> QED BY <1>1, <1>2, <1>3, <1>4 DEF Next

LEMMA InitOwned == Init => Owned
  BY ConfirmationAssumption DEF Init, Owned, TripOwned, DraftsOwned, Prepared,
     Unsent, Calling

-----------------------------------------------------------------------------
(* No confirms wait on each other: the owner of a lock waits, if at all,   *)
(* for a greater draft than each it owns, and there is a greatest one.     *)

\* A set of ids has a greatest one.
LEMMA GreatestId ==
  ASSUME NEW D \in SUBSET (0..MaxId), D # {}
  PROVE  \E d \in D : \A e \in D : e <= d
<1> DEFINE Below == {MaxId - d : d \in D}
<1>1. Below \subseteq Nat /\ Below # {}
  <2>1. \A d \in D : MaxId - d \in Nat BY ConfirmationAssumption
  <2>2. PICK d \in D : TRUE OBVIOUS
  <2>3. MaxId - d \in Below OBVIOUS
  <2> QED BY <2>1, <2>3
<1>2. PICK x \in Below : \A y \in Below : <<y, x>> \notin OpToRel(<, Nat)
  <2> HIDE DEF Below
  <2> QED BY <1>1, NatLessThanWellFounded, WFMin, Zenon
<1>3. \A y \in Below : ~(y < x)
  <2> SUFFICES ASSUME NEW y \in Below PROVE ~(y < x) OBVIOUS
  <2>1. y \in Nat /\ x \in Nat BY <1>1
  <2>2. <<y, x>> \notin OpToRel(<, Nat) BY <1>2
  <2> HIDE DEF Below
  <2> QED BY <2>1, <2>2, Zenon DEF OpToRel
<1>4. PICK d \in D : x = MaxId - d OBVIOUS
<1>5. \A e \in D : ~(MaxId - e < MaxId - d) BY <1>3, <1>4
<1>6. \A e \in D : e <= d BY <1>5, ConfirmationAssumption
<1> QED BY <1>6

LEMMA OwnersAdvance ==
  ASSUME TypeOK, Owned, NEW S \in SUBSET Request,
         \A q \in S : WaitsFor(q) \cap S # {}
  PROVE  \A q \in S : req[q].step = "drafts" =>
            \E e \in Draft : /\ draftLock[e] \in S
                            /\ \A d \in Draft : draftLock[d] = q => d < e
<1> SUFFICES ASSUME NEW q \in S, req[q].step = "drafts"
             PROVE  \E e \in Draft :
                       /\ draftLock[e] \in S
                       /\ \A d \in Draft : draftLock[d] = q => d < e
  OBVIOUS
<1>1. req[q].members \subseteq Draft BY DEF TypeOK, ReqState
<1>2. WaitsFor(q) = {draftLock[d] : d \in {e \in Unlocked(q) : IsNext(q, e)}}
                       \ {Nobody}
  BY DEF WaitsFor
<1>3. PICK e \in Unlocked(q) : draftLock[e] \in S BY <1>2
<1>4. e \in req[q].members /\ draftLock[e] # q /\ e \in Draft
  BY <1>1 DEF Unlocked
<1>5. ASSUME NEW d \in Draft, draftLock[d] = q PROVE d < e
  <2>1. e < d => draftLock[e] = q BY <1>4, <1>5 DEF Owned, DraftsOwned
  <2>2. d # e /\ ~(e < d) BY <1>4, <1>5, <2>1
  <2>3. d \in Nat /\ e \in Nat BY <1>4, ConfirmationAssumption
  <2> QED BY <2>2, <2>3
<1> QED BY <1>3, <1>4, <1>5

LEMMA OwnedNoStandstill ==
  ASSUME TypeOK, Owned
  PROVE  NoStandstill
<1> SUFFICES ASSUME NEW S \in (SUBSET Request) \ {{}},
                    \A q \in S : WaitsFor(q) \cap S # {}
             PROVE  FALSE
  BY DEF NoStandstill
<1> DEFINE Held == {d \in Draft : draftLock[d] \in S}
<1>1. \E p \in S : req[p].step = "drafts"
  <2>1. PICK q \in S : TRUE OBVIOUS
  <2>2. CASE req[q].step = "trip"
    <3>1. WaitsFor(q) = {tripLock[req[q].trip]} \ {Nobody}
      BY <2>2 DEF WaitsFor
    <3>2. tripLock[req[q].trip] \in S BY <3>1
    <3>3. req[q].trip \in Trip BY <2>2 DEF Owned
    <3> QED BY <3>2, <3>3 DEF Owned, TripOwned
  <2>3. CASE req[q].step # "trip" /\ req[q].step # "drafts"
    <3>1. WaitsFor(q) = {} BY <2>3 DEF WaitsFor
    <3> QED BY <3>1
  <2> QED BY <2>2, <2>3
<1>2. Held # {} BY <1>1, OwnersAdvance
<1>3. ASSUME NEW d \in Held PROVE \E e \in Held : d < e
  <2>1. draftLock[d] \in S /\ draftLock[d] \in Request OBVIOUS
  <2>2. req[draftLock[d]].step = "drafts"
    BY <2>1 DEF Owned, DraftsOwned
  <2> QED BY <2>1, <2>2, OwnersAdvance
<1>4. Held \subseteq 0..MaxId BY ConfirmationAssumption
<1> HIDE DEF Held
<1>5. PICK d \in Held : \A e \in Held : e <= d BY <1>2, <1>4, GreatestId
<1>6. PICK e \in Held : d < e BY <1>3
<1>7. d \in Nat /\ e \in Nat /\ e <= d BY <1>4, <1>5, ConfirmationAssumption
<1> QED BY <1>6, <1>7

\* No confirms, of whatever bills and trips, wait on each other.
THEOREM NeverAtAStandstill == Spec => []NoStandstill
<1>1. (TypeOK /\ Owned) /\ [Next]_vars => (TypeOK /\ Owned)'
  BY TypeInductive, OwnedInductive
<1>2. TypeOK /\ Owned => NoStandstill BY OwnedNoStandstill
<1> QED BY InitTyped, InitOwned, <1>1, <1>2, PTL DEF Spec

-----------------------------------------------------------------------------
(* What is booked.                                                         *)

Numbered ==
    \A d \in Draft : draft[d].here \/ booked[d] # {} => draft[d].rev > 0

KeyOfConfirmed ==
    \A t \in Trip : trip[t].key # NoKey => trip[t].status = "CONFIRMED"

Books ==
    /\ BookedOnce /\ PriceWasApproved /\ TripIsWhole /\ AnswerIsBooked
    /\ Numbered /\ KeyOfConfirmed

\* A request that is answered finds its drafts booked.
Answered(q) ==
    req'[q].step = "confirmed" =>
        \A d \in req'[q].chosen : \E b \in booked[d] :
            req'[q].trip # NoTrip => b.trip = req'[q].trip

LEMMA InitBooks == Init => Books
  BY ConfirmationAssumption DEF Init, Books, BookedOnce, PriceWasApproved,
     TripIsWhole, AnswerIsBooked, Numbered, KeyOfConfirmed, Unsent, Calling

\* A step that books nothing and leaves what is booked alone.
LEMMA BooksQuiet ==
  ASSUME TypeOK, Books, booked' = booked,
         \A d \in Draft : booked[d] # {} =>
            ~draft'[d].here /\ draft'[d].rev > 0 /\ decision'[d] = decision[d],
         \A d \in Draft : draft'[d].here => draft'[d].rev > 0,
         \A t \in Trip :
            /\ trip'[t].key = trip[t].key /\ trip'[t].chosen = trip[t].chosen
            /\ trip'[t].status = "CONFIRMED" <=> trip[t].status = "CONFIRMED",
         \A q \in Request : Answered(q)
  PROVE  Books'
<1>1. BookedOnce' BY DEF Books, BookedOnce
<1>2. PriceWasApproved' BY DEF Books, PriceWasApproved
<1>3. TripIsWhole' BY DEF Books, TripIsWhole
<1>4. AnswerIsBooked' BY DEF AnswerIsBooked, Answered
<1>5. Numbered' BY DEF Numbered
<1>6. KeyOfConfirmed' BY DEF Books, KeyOfConfirmed
<1> QED BY <1>1, <1>2, <1>3, <1>4, <1>5, <1>6 DEF Books

\* Answers are kept by a step that answers nobody.
LEMMA AnswersKept ==
  ASSUME Books, NEW q \in Request, req'[q] = req[q]
  PROVE  Answered(q)
  BY DEF Books, AnswerIsBooked, Answered

LEMMA ChangeBooks ==
  ASSUME TypeOK, Books, NEW d \in Draft, Change(d)
  PROVE  Books'
<1>1. UNCHANGED <<booked, trip, req>>
  BY DEF Change, EditTrip, Create, EditPrice, Decide, Delete
<1>2. booked[d] = {}
  <2>1. draft[d].here \/ draft[d].rev = 0
    BY DEF Change, EditTrip, Create, EditPrice, Decide, Delete
  <2> QED BY <2>1 DEF Books, BookedOnce, Numbered
<1>3. \A e \in Draft : e # d =>
          draft'[e] = draft[e] /\ decision'[e] = decision[e]
  BY DEF Change, EditTrip, Create, EditPrice, Decide, Delete, Priced, TypeOK
<1>4. draft'[d].here => draft'[d].rev > 0
  <2>1. draft[d].here => draft[d].rev > 0 BY DEF Books, Numbered
  <2>2. ASSUME NEW t \in Trip \cup {NoTrip}, EditTrip(d, t)
        PROVE draft'[d].rev > 0
    BY <2>1, <2>2 DEF EditTrip, TypeOK, DraftRow
  <2>3. ASSUME NEW t \in Trip \cup {NoTrip}, NEW asks \in BOOLEAN,
               Create(d, t, asks)
        PROVE draft'[d].rev > 0
    BY <2>3 DEF Create, Priced, TypeOK
  <2>4. ASSUME NEW t \in Trip \cup {NoTrip}, NEW asks \in BOOLEAN,
               EditPrice(d, t, asks)
        PROVE draft'[d].rev > 0
    BY <2>4, ConfirmationAssumption
       DEF EditPrice, Priced, TypeOK, DraftRow
  <2>5. ASSUME NEW a \in {"APPROVED", "REJECTED"}, Decide(d, a)
        PROVE draft'[d].rev > 0
    BY <2>5 DEF Decide, TypeOK, DraftRow
  <2>6. ASSUME Delete(d) PROVE ~draft'[d].here
    BY <2>6 DEF Delete, Deleted, TypeOK
  <2> QED BY <2>2, <2>3, <2>4, <2>5, <2>6 DEF Change
<1>5. \A e \in Draft : booked[e] # {} => ~draft[e].here /\ draft[e].rev > 0
  BY DEF Books, BookedOnce, Numbered
<1>6. \A e \in Draft : draft[e].here => draft[e].rev > 0
  BY DEF Books, Numbered
<1>7. \A q \in Request : Answered(q) BY <1>1, AnswersKept
<1>8. \A e \in Draft : booked[e] # {} =>
          ~draft'[e].here /\ draft'[e].rev > 0 /\ decision'[e] = decision[e]
  BY <1>2, <1>3, <1>5
<1>9. \A e \in Draft : draft'[e].here => draft'[e].rev > 0
  BY <1>3, <1>4, <1>6
<1> QED BY <1>1, <1>7, <1>8, <1>9, BooksQuiet

\* A step that leaves every row alone and answers only what is booked.
LEMMA RowsKept ==
  ASSUME TypeOK, Books, UNCHANGED data, \A q \in Request : Answered(q)
  PROVE  Books'
<1>1. /\ booked' = booked /\ draft' = draft
      /\ decision' = decision /\ trip' = trip
  BY DEF data
<1>2. \A d \in Draft : booked[d] # {} => ~draft[d].here /\ draft[d].rev > 0
  BY DEF Books, BookedOnce, Numbered
<1>3. \A d \in Draft : draft[d].here => draft[d].rev > 0
  BY DEF Books, Numbered
<1> QED BY <1>1, <1>2, <1>3, BooksQuiet

LEMMA NewTripBooks ==
  ASSUME TypeOK, Books, NEW t \in Trip, NEW ds \in SUBSET Draft, NewTrip(t, ds)
  PROVE  Books'
<1>1. UNCHANGED <<decision, booked, req>> BY DEF NewTrip
<1>2. \A d \in Draft : /\ draft'[d].here = draft[d].here
                       /\ draft'[d].rev = draft[d].rev
  BY DEF NewTrip, TypeOK, DraftRow
<1>3. \A u \in Trip :
        /\ trip'[u].key = trip[u].key /\ trip'[u].chosen = trip[u].chosen
        /\ trip'[u].status = "CONFIRMED" <=> trip[u].status = "CONFIRMED"
  <2>1. /\ trip'[t].key = trip[t].key /\ trip'[t].chosen = trip[t].chosen
        /\ trip'[t].status = "DRAFT" /\ trip[t].status = "NONE"
    BY DEF NewTrip, TypeOK, TripRow
  <2>2. \A u \in Trip : u # t => trip'[u] = trip[u] BY DEF NewTrip, TypeOK
  <2> QED BY <2>1, <2>2
<1>4. \A d \in Draft : booked[d] # {} => ~draft[d].here /\ draft[d].rev > 0
  BY DEF Books, BookedOnce, Numbered
<1>5. \A d \in Draft : draft[d].here => draft[d].rev > 0
  BY DEF Books, Numbered
<1>6. \A q \in Request : Answered(q) BY <1>1, AnswersKept
<1> QED BY <1>1, <1>2, <1>3, <1>4, <1>5, <1>6, BooksQuiet

\* The payload that a confirmed trip keeps under a key is booked in it.
LEMMA ReplayIsBooked ==
  ASSUME TypeOK, Books, NEW t \in Trip, NEW key, NEW ds,
         SameConfirm(t, key, ds)
  PROVE  \A d \in ds : \E b \in booked[d] : b.trip = t
<1>1. trip[t].status = "CONFIRMED" /\ trip[t].chosen = ds
  BY DEF SameConfirm, Books, KeyOfConfirmed
<1> QED BY <1>1 DEF Books, TripIsWhole

\* The answer of a request and the calls of the others.
LEMMA FinishAnswers ==
  ASSUME TypeOK, NEW q \in Request,
         Return(q, Confirmed(q)) \/ Return(q, Unsent)
  PROVE  /\ Return(q, Confirmed(q)) =>
               /\ req'[q].trip = req[q].trip
               /\ req'[q].chosen = req[q].chosen
         /\ Return(q, Unsent) => req'[q].step = "idle"
         /\ \A p \in Request : p # q => req'[p] = req[p]
  BY DEF Return, TypeOK, Calling, Confirmed, Unsent

\* The commit of a confirm, of one bill (t is NoTrip) or of a trip.
LEMMA CommitBooks ==
  ASSUME TypeOK, Books, NEW q \in Request, NEW ds \in SUBSET Draft,
         NEW t \in Trip \cup {NoTrip}, req[q].trip = t, req[q].chosen = ds,
         AllConfirmable(ds, t), Book(ds, t), Return(q, Confirmed(q)),
         decision' = decision,
         \A d \in ds : draft'[d] = Deleted(draft[d]),
         \A d \in Draft \ ds : /\ draft'[d].here = draft[d].here
                               /\ draft'[d].rev = draft[d].rev,
         \A u \in Trip : u # t =>
            /\ trip'[u].key = trip[u].key /\ trip'[u].chosen = trip[u].chosen
            /\ trip'[u].status = "CONFIRMED" <=> trip[u].status = "CONFIRMED",
         t # NoTrip => /\ trip[t].status # "CONFIRMED"
                       /\ trip'[t].status = "CONFIRMED"
                       /\ trip'[t].chosen = ds
  PROVE  Books'
<1> DEFINE Of(d) == [trip |-> draft[d].trip, alone |-> (t = NoTrip),
                      rev |-> draft[d].rev,
                      asked |-> (draft[d].price # "NONE")]
<1>0. \A d \in ds : /\ Of(d).trip = draft[d].trip /\ Of(d).rev = draft[d].rev
                    /\ Of(d).alone <=> t = NoTrip
                    /\ Of(d).asked <=> draft[d].price # "NONE"
  OBVIOUS
<1>1. ASSUME NEW d \in ds
      PROVE  /\ booked[d] = {} /\ booked'[d] = {Of(d)}
             /\ ~draft'[d].here /\ draft'[d].rev > 0
  <2>1. draft[d].here /\ draft[d].rev > 0
    BY DEF AllConfirmable, Confirmable, StillDraft
  <2>2. booked[d] = {} BY <2>1 DEF Books, BookedOnce
  <2>3. booked'[d] = {Of(d)} BY <2>2 DEF Book
  <2>4. draft'[d] = Deleted(draft[d]) OBVIOUS
  <2>5. ~draft'[d].here /\ draft'[d].rev = draft[d].rev BY <2>4 DEF Deleted
  <2> QED BY <2>1, <2>2, <2>3, <2>5
<1> HIDE DEF Of
<1>2. \A d \in Draft \ ds : booked'[d] = booked[d] BY DEF Book
<1>3. BookedOnce'
  <2>1. \A d \in Draft \ ds : booked[d] # {} =>
          ~draft'[d].here /\ \E b \in booked'[d] : booked'[d] = {b}
    BY <1>2 DEF Books, BookedOnce
  <2>2. \A d \in ds : ~draft'[d].here /\ \E b \in booked'[d] : booked'[d] = {b}
    BY <1>1
  <2> QED BY <1>2, <2>1, <2>2 DEF BookedOnce
<1>4. PriceWasApproved'
  <2>1. \A d \in Draft \ ds : \A b \in booked'[d] :
          b.asked => decision'[d][b.rev] = "APPROVED"
    BY <1>2 DEF Books, PriceWasApproved
  <2>2. ASSUME NEW d \in ds, NEW b \in booked'[d], b.asked
        PROVE decision'[d][b.rev] = "APPROVED"
    <3>1. b.rev = draft[d].rev /\ draft[d].price # "NONE"
      BY <1>0, <1>1, <2>2
    <3> QED BY <3>1 DEF AllConfirmable, Confirmable, PriceSettled
  <2> QED BY <2>1, <2>2 DEF PriceWasApproved
<1>5. TripIsWhole'
  <2> SUFFICES ASSUME NEW u \in Trip
               PROVE  {d \in Draft : \E b \in booked'[d] :
                                        b.trip = u /\ ~b.alone} =
                         IF trip'[u].status = "CONFIRMED"
                         THEN trip'[u].chosen ELSE {}
    BY DEF TripIsWhole
  <2> DEFINE Was == {d \in Draft : \E b \in booked[d] :
                                      b.trip = u /\ ~b.alone}
             Is == {d \in Draft : \E b \in booked'[d] :
                                      b.trip = u /\ ~b.alone}
  <2>1. Was = IF trip[u].status = "CONFIRMED" THEN trip[u].chosen ELSE {}
    BY DEF Books, TripIsWhole
  <2>2. \A d \in Draft \ ds : d \in Is <=> d \in Was BY <1>2
  <2>3. \A d \in ds : d \notin Was BY <1>1
  <2>4. CASE u = t
    <3>1. t # NoTrip BY <2>4, ConfirmationAssumption
    <3>2. \A d \in ds : d \in Is
      <4> SUFFICES ASSUME NEW d \in ds PROVE d \in Is OBVIOUS
      <4>1. draft[d].trip = u
        BY <2>4, <3>1 DEF AllConfirmable, SameTrip
      <4>2. booked'[d] = {Of(d)} /\ Of(d).trip = u /\ ~Of(d).alone
        BY <1>0, <1>1, <3>1, <4>1
      <4> QED BY <4>2
    <3>3. Was = {} BY <2>1, <2>4, <3>1
    <3>4. Is = ds BY <2>2, <3>2, <3>3
    <3> QED BY <2>4, <3>1, <3>4
  <2>5. CASE u # t
    <3>1. \A d \in ds : d \notin Is
      <4> SUFFICES ASSUME NEW d \in ds, NEW b \in booked'[d],
                          b.trip = u, ~b.alone
                   PROVE  FALSE
        OBVIOUS
      <4>1. b.trip = draft[d].trip /\ t # NoTrip BY <1>0, <1>1
      <4>2. draft[d].trip = t BY <4>1 DEF AllConfirmable, SameTrip
      <4> QED BY <2>5, <4>1, <4>2
    <3>2. Is = Was BY <2>2, <2>3, <3>1
    <3> QED BY <2>1, <2>5, <3>2
  <2> QED BY <2>4, <2>5
<1>6. AnswerIsBooked'
  <2> SUFFICES ASSUME NEW p \in Request, req'[p].step = "confirmed",
                      NEW d \in req'[p].chosen
               PROVE  \E b \in booked'[d] :
                         req'[p].trip # NoTrip => b.trip = req'[p].trip
    BY DEF AnswerIsBooked
  <2>1. CASE p = q
    <3>1. req'[p].trip = t /\ d \in ds BY <2>1, FinishAnswers
    <3>2. booked'[d] = {Of(d)} /\ Of(d).trip = draft[d].trip
      BY <1>0, <1>1, <3>1
    <3>3. t # NoTrip => draft[d].trip = t
      BY <3>1 DEF AllConfirmable, SameTrip
    <3> QED BY <3>1, <3>2, <3>3
  <2>2. CASE p # q
    <3>1. req'[p] = req[p] BY <2>2, FinishAnswers
    <3>2. PICK b \in booked[d] : req[p].trip # NoTrip => b.trip = req[p].trip
      BY <3>1 DEF Books, AnswerIsBooked
    <3>3. d \in Draft BY <3>1 DEF TypeOK, ReqState
    <3>4. booked[d] \subseteq booked'[d] BY <1>1, <1>2, <3>3
    <3> QED BY <3>1, <3>2, <3>4
  <2> QED BY <2>1, <2>2
<1>7. Numbered'
  <2>1. \A d \in ds : draft'[d].rev > 0 BY <1>1
  <2>2. \A d \in Draft \ ds :
          draft'[d].here \/ booked'[d] # {} => draft'[d].rev > 0
    BY <1>2 DEF Books, Numbered
  <2> QED BY <2>1, <2>2 DEF Numbered
<1>8. KeyOfConfirmed'
  <2> SUFFICES ASSUME NEW u \in Trip, trip'[u].key # NoKey
               PROVE  trip'[u].status = "CONFIRMED"
    BY DEF KeyOfConfirmed
  <2>1. CASE u = t BY <2>1, ConfirmationAssumption
  <2>2. CASE u # t BY <2>2 DEF Books, KeyOfConfirmed
  <2> QED BY <2>1, <2>2
<1> QED BY <1>3, <1>4, <1>5, <1>6, <1>7, <1>8 DEF Books

LEMMA ServeBooks ==
  ASSUME TypeOK, Owned, Books, NEW q \in Request, Serve(q)
  PROVE  Books'
<1>1. ASSUME NEW d \in Draft, AskBill(q, d) PROVE Books'
  <2>1. \A p \in Request : p # q => Answered(p)
    BY <1>1, AnswersKept DEF AskBill, TypeOK
  <2>2. CASE Replayed(d)
    <3>1. /\ req'[q].trip = NoTrip /\ req'[q].chosen = {d}
          /\ booked[d] # {}
      BY <1>1, <2>2 DEF AskBill, Calling, TypeOK, Replayed
    <3>2. Answered(q) BY <3>1 DEF Answered
    <3> QED BY <1>1, <2>1, <3>2, RowsKept DEF AskBill
  <2>3. CASE ~Replayed(d)
    <3>1. req'[q].step = "drafts"
      BY <1>1, <2>3 DEF AskBill, Calling, TypeOK
    <3>2. Answered(q) BY <3>1 DEF Answered
    <3> QED BY <1>1, <2>1, <3>2, RowsKept DEF AskBill
  <2> QED BY <2>2, <2>3
<1>2. ASSUME NEW d \in Draft, LockDraft(q, d) PROVE Books'
  BY <1>2, AnswersKept, RowsKept DEF LockDraft
<1>3. ASSUME NEW t \in Trip, NEW key \in Key \cup {NoKey},
             NEW ds \in (SUBSET Draft) \ {{}}, AskTrip(q, t, key, ds)
      PROVE Books'
  <2>1. \A p \in Request : p # q => Answered(p)
    BY <1>3, AnswersKept DEF AskTrip, TypeOK
  <2>2. /\ req'[q].trip = t /\ req'[q].chosen = ds
        /\ req'[q].step = IF SameConfirm(t, key, ds) THEN "confirmed"
                          ELSE "trip"
    BY <1>3 DEF AskTrip, Calling, TypeOK
  <2>3. CASE SameConfirm(t, key, ds)
    <3>1. \A d \in ds : \E b \in booked[d] : b.trip = t
      BY <2>3, ReplayIsBooked
    <3> QED BY <1>3, <2>1, <2>2, <3>1, RowsKept DEF AskTrip, Answered
  <2>4. CASE ~SameConfirm(t, key, ds)
    BY <1>3, <2>1, <2>2, <2>4, RowsKept DEF AskTrip, Answered
  <2> QED BY <2>3, <2>4
<1>4. ASSUME LockTrip(q) PROVE Books'
  <2>1. UNCHANGED data /\ req[q].trip \in Trip
    BY <1>4 DEF LockTrip, Owned
  <2>2. CASE SameConfirm(req[q].trip, req[q].key, req[q].chosen)
             /\ Return(q, Confirmed(q))
    <3>1. \A d \in req[q].chosen : \E b \in booked[d] : b.trip = req[q].trip
      BY <2>1, <2>2, ReplayIsBooked
    <3>2. Answered(q) BY <2>2, <3>1, FinishAnswers DEF Answered
    <3>3. \A p \in Request : p # q => Answered(p)
      BY <2>2, FinishAnswers, AnswersKept
    <3> QED BY <2>1, <3>2, <3>3, RowsKept
  <2>3. CASE req' = [req EXCEPT ![q] =
                Calling("drafts", req[q].trip, req[q].chosen,
                        Members(req[q].trip), 0, req[q].key)]
    <3>1. /\ req'[q].step = "drafts"
          /\ \A p \in Request : p # q => req'[p] = req[p]
      BY <2>3 DEF TypeOK, Calling
    <3>2. Answered(q) BY <3>1 DEF Answered
    <3>3. \A p \in Request : p # q => Answered(p) BY <3>1, AnswersKept
    <3> QED BY <2>1, <3>2, <3>3, RowsKept
  <2> QED BY <1>4, <2>2, <2>3 DEF LockTrip
<1>5. ASSUME CommitBill(q) PROVE Books'
  <2>1. Return(q, Confirmed(q)) /\ req[q].trip = NoTrip
    BY <1>5 DEF CommitBill
  <2>2. req[q].chosen \subseteq Draft BY DEF TypeOK, ReqState
  <2>3. CASE UNCHANGED data /\ \A d \in req[q].chosen : Replayed(d)
    <3>1. Answered(q)
      BY <2>1, <2>3, FinishAnswers DEF Answered, Replayed
    <3>2. \A p \in Request : p # q => Answered(p)
      BY <2>1, FinishAnswers, AnswersKept
    <3> QED BY <2>3, <3>1, <3>2, RowsKept
  <2>4. CASE /\ AllConfirmable(req[q].chosen, NoTrip)
             /\ Book(req[q].chosen, NoTrip)
             /\ draft' = [d \in Draft |-> IF d \in req[q].chosen
                            THEN Deleted(draft[d]) ELSE draft[d]]
             /\ UNCHANGED <<decision, trip>>
    <3>1. /\ \A d \in req[q].chosen : draft'[d] = Deleted(draft[d])
          /\ \A d \in Draft \ req[q].chosen : draft'[d] = draft[d]
      BY <2>2, <2>4
    <3> QED BY <2>1, <2>2, <2>4, <3>1, CommitBooks
  <2> QED BY <1>5, <2>3, <2>4 DEF CommitBill
<1>6. ASSUME NEW rest \in Trip, CommitTrip(q, rest) PROVE Books'
  <2> DEFINE t == req[q].trip
             ds == req[q].chosen
  <2>1. /\ t \in Trip /\ t # NoTrip /\ ds \subseteq Draft
        /\ trip[t].status = "DRAFT"
    BY <1>6 DEF CommitTrip, TypeOK, ReqState, Owned, Prepared
  <2>2. /\ \A d \in ds : draft'[d] = Deleted(draft[d])
        /\ \A d \in Draft \ ds : /\ draft'[d].here = draft[d].here
                                 /\ draft'[d].rev = draft[d].rev
    BY <1>6, <2>1 DEF CommitTrip, TypeOK, DraftRow
  <2>3. trip'[t].status = "CONFIRMED" /\ trip'[t].chosen = ds
    BY <1>6, <2>1 DEF CommitTrip
  <2>4. ASSUME NEW u \in Trip, u # t
        PROVE  /\ trip'[u].key = trip[u].key
               /\ trip'[u].chosen = trip[u].chosen
               /\ trip'[u].status = "CONFIRMED"
                     <=> trip[u].status = "CONFIRMED"
    <3>1. CASE u = rest /\ Residual(q) # {}
      <4>1. trip[u].status = "NONE" BY <1>6, <3>1 DEF CommitTrip
      <4>2. trip'[u] = [trip[u] EXCEPT !.status = "DRAFT"]
        BY <1>6, <2>4, <3>1 DEF CommitTrip
      <4> QED BY <4>1, <4>2 DEF TypeOK, TripRow
    <3>2. CASE ~(u = rest /\ Residual(q) # {})
      <4>1. trip'[u] = trip[u] BY <1>6, <2>4, <3>2 DEF CommitTrip
      <4> QED BY <4>1
    <3> QED BY <3>1, <3>2
  <2>5. /\ AllConfirmable(ds, t) /\ Book(ds, t) /\ Return(q, Confirmed(q))
        /\ decision' = decision
    BY <1>6 DEF CommitTrip
  <2> QED BY <2>1, <2>2, <2>3, <2>4, <2>5, CommitBooks
<1>7. ASSUME Refuse(q) PROVE Books'
  <2>1. Answered(q) BY <1>7, FinishAnswers DEF Refuse, Answered
  <2>2. \A p \in Request : p # q => Answered(p)
    BY <1>7, FinishAnswers, AnswersKept DEF Refuse
  <2> QED BY <1>7, <2>1, <2>2, RowsKept DEF Refuse
<1> QED BY <1>1, <1>2, <1>3, <1>4, <1>5, <1>6, <1>7 DEF Serve

LEMMA BooksInductive ==
  ASSUME TypeOK, Owned, Books, [Next]_vars
  PROVE  Books'
<1>1. CASE UNCHANGED vars
  BY <1>1, AnswersKept, RowsKept DEF vars, data
<1>2. CASE Next
  BY <1>2, ChangeBooks, NewTripBooks, ServeBooks DEF Next
<1> QED BY <1>1, <1>2

\* The invariant.
IInv == TypeOK /\ Owned /\ Books

LEMMA Invariant == Spec => []IInv
<1>1. Init => IInv BY InitTyped, InitOwned, InitBooks DEF IInv
<1>2. IInv /\ [Next]_vars => IInv'
  BY TypeInductive, OwnedInductive, BooksInductive DEF IInv
<1> QED BY <1>1, <1>2, PTL DEF Spec

\* A draft is booked at most once, and is gone then.
THEOREM NeverTwice == Spec => []BookedOnce
<1>1. IInv => BookedOnce BY DEF IInv, Books
<1> QED BY <1>1, Invariant, PTL

\* What was booked at a deviating price has an approval of that revision.
THEOREM ApprovedAsBooked == Spec => []PriceWasApproved
<1>1. IInv => PriceWasApproved BY DEF IInv, Books
<1> QED BY <1>1, Invariant, PTL

\* What is booked through a trip is what its one confirm chose, all of it.
THEOREM TripsWhole == Spec => []TripIsWhole
<1>1. IInv => TripIsWhole BY DEF IInv, Books
<1> QED BY <1>1, Invariant, PTL

\* An answer, a replayed one too, tells of bookings that are there.
THEOREM AnswersTrue == Spec => []AnswerIsBooked
<1>1. IInv => AnswerIsBooked BY DEF IInv, Books
<1> QED BY <1>1, Invariant, PTL

\* Only an existing draft without a booking is booked, under its lock.
THEOREM BooksDraftsOnly == Spec => BooksOnlyDrafts
<1>1. IInv /\ [Next]_vars =>
        [\A d \in Draft : booked'[d] # booked[d] =>
            booked[d] = {} /\ draft[d].here /\ draftLock[d] # Nobody]_vars
  <2> SUFFICES ASSUME IInv, Next, NEW d \in Draft, booked'[d] # booked[d]
               PROVE  booked[d] = {} /\ draft[d].here /\ draftLock[d] # Nobody
    OBVIOUS
  <2>1. PICK q \in Request, t \in Trip \cup {NoTrip} :
            /\ Book(req[q].chosen, t) /\ AllConfirmable(req[q].chosen, t)
            /\ req[q].step = "drafts" /\ Unlocked(q) = {}
    <3>1. PICK q \in Request :
            CommitBill(q) \/ \E rest \in Trip : CommitTrip(q, rest)
      BY DEF Next, Change, Create, EditPrice, EditTrip, Decide, Delete,
         NewTrip, Serve, AskBill, AskTrip, LockTrip, LockDraft, Refuse, data
    <3>2. req[q].trip \in Trip \cup {NoTrip} BY DEF IInv, TypeOK, ReqState
    <3>3. CASE CommitBill(q) BY <3>3 DEF CommitBill, data
    <3>4. ASSUME NEW rest \in Trip, CommitTrip(q, rest)
          PROVE  /\ Book(req[q].chosen, req[q].trip)
                 /\ AllConfirmable(req[q].chosen, req[q].trip)
                 /\ req[q].step = "drafts" /\ Unlocked(q) = {}
      BY <3>4 DEF CommitTrip
    <3> QED BY <3>1, <3>2, <3>3, <3>4
  <2>2. d \in req[q].chosen BY <2>1 DEF Book
  <2>3. draft[d].here BY <2>1, <2>2 DEF AllConfirmable, Confirmable, StillDraft
  <2>4. draftLock[d] = q
    BY <2>1, <2>2 DEF IInv, Owned, Prepared, Unlocked
  <2>5. booked[d] = {} BY <2>3 DEF IInv, Books, BookedOnce
  <2> QED BY <2>3, <2>4, <2>5, ConfirmationAssumption
<1> QED BY <1>1, Invariant, PTL DEF Spec, BooksOnlyDrafts

=============================================================================
