---------------------------- MODULE CouponProofs ----------------------------
(***************************************************************************)
(* Proofs about CouponReservation, for any number of reservations, cuts,   *)
(* bills and settlement calls, and about CouponMatcher, for any            *)
(* reservations and cuts.                                                  *)
(*                                                                         *)
(* The bounds on what is settled are not inductive on their own.  They     *)
(* rest on what the in-memory lock buys: while a call holds it, nobody     *)
(* else writes a settlement, so what the holder has seen as left on a      *)
(* reservation or a cut is still left, and what a rollback puts back was   *)
(* within the bounds too.                                                  *)
(***************************************************************************)
EXTENDS CouponReservation, CouponMatcher, Sums, SequenceTheorems, TLAPS

\* Only the holder of the lock is inside the settlement.
LockHeld == \A s \in Call : pc[s] \in Holding => lock = s

\* Working copies exist only while an automatic settlement runs.
SeenByHolder ==
    (\A s \in Call : pc[s] \notin {"readCuts", "settle"}) =>
        /\ \A r \in Res : seenRem[r] = 0
        /\ \A c \in Cut : seenCut[c] = 0

\* What the holder has seen as left is left.
SeenSound ==
    /\ \A r \in Res : seenRem[r] + consumed[r] <= qty[r]
    /\ \A c \in Cut : seenCut[c] + taken[c] <= cutQty[c]

\* The quantity a manual settlement chose is left on its cut.
PickSound ==
    \A s \in Call : pc[s] = "manualWrite" =>
        /\ pick[s].res \in Res
        /\ \A c \in pick[s].cut : pick[s].qty + taken[c] <= cutQty[c]

PickHasRow == \A s \in Call : pc[s] # "idle" /\ pc[s] \notin {"readCuts", "settle"}
                                => pick[s].res \in Res

\* A row that does not exist holds nothing, and a rollback never unmakes one.
FreshEmpty ==
    /\ \A r \in Res : status[r] = "NONE" => qty[r] = 0
    /\ \A r \in open.rows : open.status[r] # "NONE"

\* What a rollback puts back is within the bounds.
OpenSound ==
    /\ \A r \in Res : open.consumed[r] <= qty[r]
    /\ \A c \in Cut : open.taken[c] <= cutQty[c]

IInv ==
    /\ TypeOK /\ LockHeld /\ SeenByHolder /\ SeenSound /\ PickSound
    /\ PickHasRow /\ FreshEmpty /\ OpenSound

LEMMA InitInv == Init => IInv
  BY CouponAssumption
  DEF Init, IInv, TypeOK, LockHeld, SeenByHolder, SeenSound, PickSound,
      PickHasRow, FreshEmpty, OpenSound, Closed, NoTonsOf, NoStatus, NoPick,
      Status, Pick, Tons, Holding

\* Every step preserves the invariant.
LEMMA StepInv == IInv /\ [Next]_vars => IInv'
<1> SUFFICES ASSUME IInv, [Next]_vars PROVE IInv'
  OBVIOUS
<1> USE CouponAssumption DEF IInv, Tons, Status, Pick, Holding,
        reservationVars, billVars, nativeVars, settlementVars, callVars
<1>1. ASSUME NEW r \in Res, NEW q \in Qty, NEW e \in {"none", "ahead"}, Reserve(r, q, e)
      PROVE  IInv'
  <2>1. TypeOK'
    BY <1>1 DEF TypeOK, Reserve, Qty
  <2>2. LockHeld'
    BY <1>1 DEF LockHeld, Reserve
  <2>3. SeenByHolder'
    BY <1>1 DEF SeenByHolder, Reserve
  <2>4. SeenSound'
    BY <1>1 DEF TypeOK, SeenSound, FreshEmpty, Reserve, Qty
  <2>5. PickSound'
    BY <1>1 DEF PickSound, Reserve
  <2>6. PickHasRow'
    BY <1>1 DEF PickHasRow, Reserve
  <2>7. FreshEmpty'
    BY <1>1 DEF TypeOK, FreshEmpty, Reserve
  <2>8. OpenSound'
    BY <1>1 DEF TypeOK, OpenSound, FreshEmpty, Reserve, Qty
  <2> QED BY <2>1, <2>2, <2>3, <2>4, <2>5, <2>6, <2>7, <2>8
<1>2. ASSUME NEW r \in Res, Expire(r)
      PROVE  IInv'
  <2>1. TypeOK'
    BY <1>2 DEF TypeOK, Expire
  <2>2. LockHeld'
    BY <1>2 DEF LockHeld, Expire
  <2>3. SeenByHolder'
    BY <1>2 DEF SeenByHolder, Expire
  <2>4. SeenSound'
    BY <1>2 DEF SeenSound, Expire
  <2>5. PickSound'
    BY <1>2 DEF PickSound, Expire
  <2>6. PickHasRow'
    BY <1>2 DEF PickHasRow, Expire
  <2>7. FreshEmpty'
    BY <1>2 DEF FreshEmpty, Expire
  <2>8. OpenSound'
    BY <1>2 DEF OpenSound, Expire
  <2> QED BY <2>1, <2>2, <2>3, <2>4, <2>5, <2>6, <2>7, <2>8
<1>3. ASSUME NEW r \in Res, CancelReservation(r)
      PROVE  IInv'
  <2>1. TypeOK'
    BY <1>3 DEF TypeOK, CancelReservation
  <2>2. LockHeld'
    BY <1>3 DEF LockHeld, CancelReservation
  <2>3. SeenByHolder'
    BY <1>3 DEF SeenByHolder, CancelReservation
  <2>4. SeenSound'
    BY <1>3 DEF SeenSound, CancelReservation
  <2>5. PickSound'
    BY <1>3 DEF PickSound, CancelReservation
  <2>6. PickHasRow'
    BY <1>3 DEF PickHasRow, CancelReservation
  <2>7. FreshEmpty'
    BY <1>3 DEF FreshEmpty, CancelReservation
  <2>8. OpenSound'
    BY <1>3 DEF OpenSound, CancelReservation
  <2> QED BY <2>1, <2>2, <2>3, <2>4, <2>5, <2>6, <2>7, <2>8
<1>4. ASSUME NEW b \in Bill, NEW S \in SUBSET Res, KeyBill(b, S)
      PROVE  IInv'
  <2>1. TypeOK'
    BY <1>4 DEF TypeOK, KeyBill, Withdraw
  <2>2. LockHeld'
    BY <1>4 DEF LockHeld, KeyBill
  <2>3. SeenByHolder'
    BY <1>4 DEF SeenByHolder, KeyBill
  <2>4. SeenSound'
    BY <1>4 DEF SeenSound, KeyBill
  <2>5. PickSound'
    BY <1>4 DEF PickSound, KeyBill
  <2>6. PickHasRow'
    BY <1>4 DEF PickHasRow, KeyBill
  <2>7. FreshEmpty'
    BY <1>4 DEF FreshEmpty, KeyBill, Withdraw
  <2>8. OpenSound'
    BY <1>4 DEF OpenSound, KeyBill
  <2> QED BY <2>1, <2>2, <2>3, <2>4, <2>5, <2>6, <2>7, <2>8
<1>5. ASSUME NEW b \in Bill, CancelBill(b)
      PROVE  IInv'
  <2>1. TypeOK'
    BY <1>5 DEF TypeOK, CancelBill, Withdraw
  <2>2. LockHeld'
    BY <1>5 DEF LockHeld, CancelBill
  <2>3. SeenByHolder'
    BY <1>5 DEF SeenByHolder, CancelBill
  <2>4. SeenSound'
    BY <1>5 DEF SeenSound, CancelBill
  <2>5. PickSound'
    BY <1>5 DEF PickSound, CancelBill
  <2>6. PickHasRow'
    BY <1>5 DEF PickHasRow, CancelBill
  <2>7. FreshEmpty'
    BY <1>5 DEF FreshEmpty, CancelBill, Withdraw
  <2>8. OpenSound'
    BY <1>5 DEF OpenSound, CancelBill
  <2> QED BY <2>1, <2>2, <2>3, <2>4, <2>5, <2>6, <2>7, <2>8
<1>6. ASSUME NEW c \in Cut, NEW q \in Qty, NativeCut(c, q)
      PROVE  IInv'
  <2>1. TypeOK'
    BY <1>6 DEF TypeOK, NativeCut, Qty
  <2>2. LockHeld'
    BY <1>6 DEF LockHeld, NativeCut
  <2>3. SeenByHolder'
    BY <1>6 DEF SeenByHolder, NativeCut
  <2>4. SeenSound'
    BY <1>6 DEF TypeOK, SeenSound, NativeCut, Qty
  <2>5. PickSound'
    BY <1>6 DEF TypeOK, PickSound, NativeCut, Qty
  <2>6. PickHasRow'
    BY <1>6 DEF PickHasRow, NativeCut
  <2>7. FreshEmpty'
    BY <1>6 DEF FreshEmpty, NativeCut
  <2>8. OpenSound'
    BY <1>6 DEF TypeOK, OpenSound, NativeCut, Qty
  <2> QED BY <2>1, <2>2, <2>3, <2>4, <2>5, <2>6, <2>7, <2>8
<1>7. ASSUME NEW s \in Call, ReadReservations(s)
      PROVE  IInv'
  <2>1. TypeOK'
    BY <1>7 DEF TypeOK, SeenSound, ReadReservations, Remaining
  <2>2. LockHeld'
    BY <1>7 DEF LockHeld, ReadReservations, LockFree
  <2>3. SeenByHolder'
    BY <1>7 DEF TypeOK, SeenByHolder, ReadReservations
  <2>4. SeenSound'
    BY <1>7 DEF TypeOK, SeenSound, ReadReservations, Remaining
  <2>5. PickSound'
    BY <1>7 DEF PickSound, ReadReservations
  <2>6. PickHasRow'
    BY <1>7 DEF PickHasRow, ReadReservations
  <2>7. FreshEmpty'
    BY <1>7 DEF FreshEmpty, ReadReservations
  <2>8. OpenSound'
    BY <1>7 DEF OpenSound, ReadReservations
  <2> QED BY <2>1, <2>2, <2>3, <2>4, <2>5, <2>6, <2>7, <2>8
<1>8. ASSUME NEW s \in Call, ReadCuts(s)
      PROVE  IInv'
  <2>1. TypeOK'
    <3>1. open' \in {Begun, Closed}
      BY <1>8 DEF ReadCuts, Leave
    <3>3. /\ Begun = [rows |-> {}, status |-> NoStatus, consumed |-> consumed,
                      taken |-> taken, paired |-> paired]
          /\ Closed = [rows |-> {}, status |-> NoStatus, consumed |-> NoTonsOf(Res),
                       taken |-> NoTonsOf(Cut), paired |-> {}]
      BY DEF Begun, Closed
    <3>4. /\ NoStatus \in [Res -> Status]
          /\ NoTonsOf(Res) \in [Res -> Tons] /\ NoTonsOf(Cut) \in [Cut -> Tons]
      BY DEF NoStatus, NoTonsOf
    <3>5. /\ open'.rows \in SUBSET Res /\ open'.status \in [Res -> Status]
          /\ open'.consumed \in [Res -> Tons] /\ open'.taken \in [Cut -> Tons]
          /\ open'.paired \in SUBSET (Res \X Cut)
      BY <3>1, <3>3, <3>4 DEF TypeOK
    <3>6. open' \in [rows : SUBSET Res, status : [Res -> Status],
                     consumed : [Res -> Tons], taken : [Cut -> Tons],
                     paired : SUBSET (Res \X Cut)]
      BY <3>1, <3>3, <3>5
    <3>7. seenCut' \in [Cut -> Tons]
      BY <1>8 DEF ReadCuts, Leave, Unsettled, NoTonsOf, TypeOK, SeenSound
    <3>8. /\ \/ seenRem' = seenRem
             \/ seenRem' = NoTonsOf(Res)
          /\ lock' \in {lock, NoCall}
          /\ \E k \in {"idle", "settle"} : pc' = [pc EXCEPT ![s] = k]
          /\ \/ pick' = pick
             \/ pick' = [pick EXCEPT ![s] = NoPick]
      BY <1>8 DEF ReadCuts, Leave
    <3>9. NoPick \in Pick
      BY DEF NoPick
    <3>10. /\ seenRem' \in [Res -> Tons] /\ lock' \in Call \cup {NoCall}
           /\ pick' \in [Call -> Pick]
      <4>1. pick \in [Call -> Pick] /\ lock \in Call \cup {NoCall}
        BY DEF TypeOK
      <4>2. seenRem' \in [Res -> Tons] /\ lock' \in Call \cup {NoCall}
        BY <3>4, <3>8, <4>1 DEF TypeOK
      <4>3. pick' \in [Call -> Pick]
        BY <3>8, <3>9, <4>1
      <4> QED BY <4>2, <4>3
    <3>11. pc' \in [Call -> {"idle", "manualRead"} \cup Holding]
      BY <3>8 DEF TypeOK
    <3> QED BY <1>8, <3>6, <3>7, <3>10, <3>11 DEF ReadCuts, TypeOK
  <2>2. LockHeld'
    BY <1>8 DEF TypeOK, LockHeld, ReadCuts, Leave
  <2>3. SeenByHolder'
    BY <1>8 DEF TypeOK, SeenByHolder, ReadCuts, Leave, NoTonsOf
  <2>4. SeenSound'
    BY <1>8 DEF TypeOK, SeenSound, ReadCuts, Leave, Unsettled, NoTonsOf
  <2>5. PickSound'
    BY <1>8 DEF TypeOK, PickSound, ReadCuts, Leave
  <2>6. PickHasRow'
    BY <1>8 DEF TypeOK, PickHasRow, LockHeld, ReadCuts, Leave, Unsettled, NoTonsOf
  <2>7. FreshEmpty'
    <3>1. open'.rows = {}
      BY <1>8 DEF ReadCuts, Leave, Begun, Closed
    <3> QED BY <1>8, <3>1 DEF FreshEmpty, ReadCuts
  <2>8. OpenSound'
    <3>1. \/ open'.consumed = consumed /\ open'.taken = taken
          \/ open'.consumed = NoTonsOf(Res) /\ open'.taken = NoTonsOf(Cut)
      BY <1>8 DEF ReadCuts, Leave, Begun, Closed
    <3> QED BY <1>8, <3>1 DEF ReadCuts, TypeOK, OpenSound, SeenSound, NoTonsOf
  <2> QED BY <2>1, <2>2, <2>3, <2>4, <2>5, <2>6, <2>7, <2>8
<1>9. ASSUME NEW s \in Call, NEW r \in Res, NEW c \in Cut, SettleMatch(s, r, c)
      PROVE  IInv'
  <2>1. TypeOK'
    <3>1. CASE <<r, c>> \in paired
      BY <1>9, <3>1 DEF SettleMatch, TypeOK
    <3>2. CASE <<r, c>> \notin paired
      <4> DEFINE q == IF seenRem[r] < seenCut[c] THEN seenRem[r] ELSE seenCut[c]
      <4>1. /\ q \in Nat /\ q <= seenRem[r] /\ q <= seenCut[c]
            /\ consumed[r] \in Nat /\ taken[c] \in Nat
        BY DEF TypeOK
      <4>2. /\ seenRem' = [seenRem EXCEPT ![r] = @ - q]
            /\ seenCut' = [seenCut EXCEPT ![c] = 0]
            /\ Book(r, c, q)
            /\ open' = [open EXCEPT
                 !.rows = @ \cup {r},
                 !.status[r] = IF r \in open.rows THEN @ ELSE status[r]]
        BY <1>9, <3>2 DEF SettleMatch
      <4> HIDE DEF q
      <4>3. seenRem' \in [Res -> Tons] /\ seenCut' \in [Cut -> Tons]
        BY <4>1, <4>2 DEF TypeOK
      <4>4. /\ taken' \in [Cut -> Tons] /\ consumed' \in [Res -> Tons]
            /\ paired' \subseteq Res \X Cut /\ status' \in [Res -> Status]
        BY <4>1, <4>2 DEF Book, StatusAfter, TypeOK
      <4>5. open' \in [rows : SUBSET Res, status : [Res -> Status],
                       consumed : [Res -> Tons], taken : [Cut -> Tons],
                       paired : SUBSET (Res \X Cut)]
        <5>1. /\ open \in [rows : SUBSET Res, status : [Res -> Status],
                           consumed : [Res -> Tons], taken : [Cut -> Tons],
                           paired : SUBSET (Res \X Cut)]
              /\ status[r] \in Status
          BY DEF TypeOK
        <5>2. [open.status EXCEPT ![r] = IF r \in open.rows THEN @ ELSE status[r]]
                \in [Res -> Status]
          BY <5>1
        <5>3. open' = [[open EXCEPT !.rows = open.rows \cup {r}]
                         EXCEPT !.status = [open.status EXCEPT ![r] =
                                   IF r \in open.rows THEN @ ELSE status[r]]]
          BY <4>2, <5>1
        <5> QED BY <5>1, <5>2, <5>3
      <4> QED BY <1>9, <3>2, <4>3, <4>4, <4>5 DEF SettleMatch, TypeOK
    <3> QED BY <3>1, <3>2
  <2>2. LockHeld'
    BY <1>9 DEF LockHeld, SettleMatch
  <2>3. SeenByHolder'
    BY <1>9 DEF SeenByHolder, SettleMatch
  <2>4. SeenSound'
    BY <1>9 DEF TypeOK, SeenSound, SettleMatch, Book
  <2>5. PickSound'
    BY <1>9 DEF LockHeld, PickSound, SettleMatch
  <2>6. PickHasRow'
    BY <1>9 DEF PickHasRow, SettleMatch
  <2>7. FreshEmpty'
    <3>1. CASE <<r, c>> \in paired
      BY <1>9, <3>1 DEF SettleMatch, FreshEmpty
    <3>2. CASE <<r, c>> \notin paired
      <4>1. /\ open' = [open EXCEPT
                 !.rows = @ \cup {r},
                 !.status[r] = IF r \in open.rows THEN @ ELSE status[r]]
            /\ qty' = qty
            /\ status' = [status EXCEPT ![r] = StatusAfter(r,
                   IF seenRem[r] < seenCut[c] THEN seenRem[r] ELSE seenCut[c])]
        BY <1>9, <3>2 DEF SettleMatch, Book
      <4>2. seenRem[r] > 0 /\ seenRem[r] + consumed[r] <= qty[r]
        BY <1>9 DEF SettleMatch, SeenSound, TypeOK
      <4>3. status[r] # "NONE"
        BY <4>2 DEF FreshEmpty, TypeOK
      <4>4. \A x \in Res : status'[x] = "NONE" => qty'[x] = 0
        BY <4>1, <4>3 DEF FreshEmpty, StatusAfter
      <4>5. open.rows \subseteq Res /\ open.status \in [Res -> Status]
        BY DEF TypeOK
      <4>6. /\ open'.rows = open.rows \cup {r}
            /\ open'.status = [open.status EXCEPT ![r] =
                                 IF r \in open.rows THEN @ ELSE status[r]]
        BY <4>1 DEF TypeOK
      <4>7. \A x \in open'.rows : open'.status[x] # "NONE"
        BY <4>3, <4>5, <4>6 DEF FreshEmpty
      <4> QED BY <4>4, <4>7 DEF FreshEmpty
    <3> QED BY <3>1, <3>2
  <2>8. OpenSound'
    <3>1. qty' = qty /\ cutQty' = cutQty
      BY <1>9 DEF SettleMatch, reservationVars, nativeVars
    <3>2. open'.consumed = open.consumed /\ open'.taken = open.taken
      <4>1. \/ open' = open
            \/ open' = [open EXCEPT
                 !.rows = @ \cup {r},
                 !.status[r] = IF r \in open.rows THEN @ ELSE status[r]]
        BY <1>9 DEF SettleMatch
      <4>2. open \in [rows : SUBSET Res, status : [Res -> Status],
                      consumed : [Res -> Tons], taken : [Cut -> Tons],
                      paired : SUBSET (Res \X Cut)]
        BY DEF TypeOK
      <4> QED BY <4>1, <4>2
    <3> QED BY <3>1, <3>2 DEF OpenSound
  <2> QED BY <2>1, <2>2, <2>3, <2>4, <2>5, <2>6, <2>7, <2>8
<1>10. ASSUME NEW s \in Call, Commit(s)
      PROVE  IInv'
  <2>1. TypeOK'
    BY <1>10 DEF TypeOK, Commit, Leave, Closed, NoTonsOf, NoStatus, NoPick
  <2>2. LockHeld'
    BY <1>10 DEF TypeOK, LockHeld, Commit, Leave
  <2>3. SeenByHolder'
    BY <1>10 DEF SeenByHolder, Commit, Leave, NoTonsOf
  <2>4. SeenSound'
    BY <1>10 DEF TypeOK, SeenSound, Commit, Leave, NoTonsOf
  <2>5. PickSound'
    BY <1>10 DEF PickSound, Commit, Leave
  <2>6. PickHasRow'
    BY <1>10 DEF PickHasRow, Commit, Leave
  <2>7. FreshEmpty'
    BY <1>10 DEF FreshEmpty, Commit, Leave, Closed
  <2>8. OpenSound'
    BY <1>10 DEF TypeOK, OpenSound, Commit, Leave, Closed, NoTonsOf
  <2> QED BY <2>1, <2>2, <2>3, <2>4, <2>5, <2>6, <2>7, <2>8
<1>11. ASSUME NEW s \in Call, Rollback(s)
      PROVE  IInv'
  <2>1. TypeOK'
    BY <1>11 DEF TypeOK, Rollback, ConsumedBefore, Leave, Closed, NoTonsOf, NoStatus, NoPick
  <2>2. LockHeld'
    BY <1>11 DEF TypeOK, LockHeld, Rollback, Leave
  <2>3. SeenByHolder'
    BY <1>11 DEF SeenByHolder, Rollback, Leave, NoTonsOf
  <2>4. SeenSound'
    BY <1>11 DEF TypeOK, SeenSound, OpenSound, Rollback, ConsumedBefore, Leave, NoTonsOf
  <2>5. PickSound'
    BY <1>11 DEF LockHeld, PickSound, Rollback, Leave
  <2>6. PickHasRow'
    BY <1>11 DEF PickHasRow, Rollback, Leave
  <2>7. FreshEmpty'
    BY <1>11 DEF FreshEmpty, Rollback, Leave, Closed
  <2>8. OpenSound'
    BY <1>11 DEF TypeOK, OpenSound, Rollback, Leave, Closed, NoTonsOf
  <2> QED BY <2>1, <2>2, <2>3, <2>4, <2>5, <2>6, <2>7, <2>8
<1>12. ASSUME NEW s \in Call, NEW r \in Res, ManualRead(s, r)
      PROVE  IInv'
  <2>1. TypeOK'
    <3>1. Remaining(r) \in Nat
      BY DEF Remaining, TypeOK, SeenSound
    <3>2. [res |-> r, rem |-> Remaining(r), cut |-> {}, qty |-> 0] \in Pick
      BY <3>1
    <3>3. pick' \in [Call -> Pick]
      BY <1>12, <3>2 DEF ManualRead, TypeOK
    <3> QED BY <1>12, <3>3 DEF ManualRead, TypeOK
  <2>2. LockHeld'
    BY <1>12 DEF LockHeld, ManualRead
  <2>3. SeenByHolder'
    BY <1>12 DEF SeenByHolder, ManualRead
  <2>4. SeenSound'
    BY <1>12 DEF SeenSound, ManualRead
  <2>5. PickSound'
    BY <1>12 DEF PickSound, ManualRead
  <2>6. PickHasRow'
    BY <1>12 DEF TypeOK, PickHasRow, ManualRead
  <2>7. FreshEmpty'
    BY <1>12 DEF FreshEmpty, ManualRead
  <2>8. OpenSound'
    BY <1>12 DEF OpenSound, ManualRead
  <2> QED BY <2>1, <2>2, <2>3, <2>4, <2>5, <2>6, <2>7, <2>8
<1>13. ASSUME NEW s \in Call, ManualBusy(s)
      PROVE  IInv'
  <2>1. TypeOK'
    BY <1>13 DEF TypeOK, ManualBusy, NoPick
  <2>2. LockHeld'
    BY <1>13 DEF LockHeld, ManualBusy
  <2>3. SeenByHolder'
    BY <1>13 DEF SeenByHolder, ManualBusy
  <2>4. SeenSound'
    BY <1>13 DEF SeenSound, ManualBusy
  <2>5. PickSound'
    BY <1>13 DEF PickSound, ManualBusy
  <2>6. PickHasRow'
    BY <1>13 DEF TypeOK, PickHasRow, ManualBusy
  <2>7. FreshEmpty'
    BY <1>13 DEF FreshEmpty, ManualBusy
  <2>8. OpenSound'
    BY <1>13 DEF OpenSound, ManualBusy
  <2> QED BY <2>1, <2>2, <2>3, <2>4, <2>5, <2>6, <2>7, <2>8
<1>14. ASSUME NEW s \in Call, ManualLock(s)
      PROVE  IInv'
  <2>1. TypeOK'
    BY <1>14 DEF TypeOK, ManualLock
  <2>2. LockHeld'
    BY <1>14 DEF LockHeld, ManualLock, LockFree
  <2>3. SeenByHolder'
    BY <1>14 DEF SeenByHolder, ManualLock
  <2>4. SeenSound'
    BY <1>14 DEF SeenSound, ManualLock
  <2>5. PickSound'
    BY <1>14 DEF PickSound, ManualLock
  <2>6. PickHasRow'
    BY <1>14 DEF PickHasRow, ManualLock
  <2>7. FreshEmpty'
    BY <1>14 DEF FreshEmpty, ManualLock
  <2>8. OpenSound'
    BY <1>14 DEF OpenSound, ManualLock
  <2> QED BY <2>1, <2>2, <2>3, <2>4, <2>5, <2>6, <2>7, <2>8
<1>15. ASSUME NEW s \in Call, NEW c \in Cut, NEW q \in Qty, ManualChoose(s, c, q)
      PROVE  IInv'
  <2>1. TypeOK'
    <3>1. q \in Nat
      BY DEF Qty
    <3>2. pick[s] \in Pick
      BY DEF TypeOK
    <3>3. [pick[s] EXCEPT !.cut = {c}, !.qty = q] \in Pick
      BY <3>1, <3>2
    <3>4. pick' = [pick EXCEPT ![s] = [pick[s] EXCEPT !.cut = {c}, !.qty = q]]
      BY <1>15 DEF ManualChoose
    <3>5. pick' \in [Call -> Pick]
      BY <3>3, <3>4 DEF TypeOK
    <3> QED BY <1>15, <3>5 DEF ManualChoose, TypeOK
  <2>2. LockHeld'
    BY <1>15 DEF LockHeld, ManualChoose
  <2>3. SeenByHolder'
    BY <1>15 DEF SeenByHolder, ManualChoose
  <2>4. SeenSound'
    BY <1>15 DEF SeenSound, ManualChoose
  <2>5. PickSound'
    <3>1. pick[s] \in [res : Res \cup {NoRes}, rem : Nat, cut : SUBSET Cut,
                        qty : Nat]
      BY DEF TypeOK
    <3>2. pick' = [pick EXCEPT ![s] = [pick[s] EXCEPT !.cut = {c}, !.qty = q]]
      BY <1>15 DEF ManualChoose
    <3>3. pick \in [Call -> Pick]
      BY DEF TypeOK
    <3>4. /\ pick'[s].res = pick[s].res /\ pick'[s].cut = {c}
          /\ pick'[s].qty = q
          /\ \A t \in Call \ {s} : pick'[t] = pick[t]
      BY <3>1, <3>2, <3>3
    <3>5. /\ taken' = taken /\ cutQty' = cutQty
          /\ \A t \in Call \ {s} : pc'[t] = pc[t]
          /\ pc[s] = "manualCut"
      BY <1>15 DEF ManualChoose, TypeOK, settlementVars, nativeVars
    <3>6. pick[s].res \in Res
      BY <3>5 DEF PickHasRow
    <3>7. q + taken[c] <= cutQty[c]
      <4>1. q \in Nat /\ taken[c] \in Nat /\ cutQty[c] \in Nat
        BY DEF TypeOK, Qty
      <4>2. q <= cutQty[c] - taken[c]
        BY <1>15 DEF ManualChoose, Unsettled
      <4> QED BY <4>1, <4>2
    <3> QED BY <3>4, <3>5, <3>6, <3>7 DEF PickSound
  <2>6. PickHasRow'
    BY <1>15 DEF TypeOK, PickHasRow, ManualChoose
  <2>7. FreshEmpty'
    BY <1>15 DEF FreshEmpty, ManualChoose
  <2>8. OpenSound'
    BY <1>15 DEF OpenSound, ManualChoose
  <2> QED BY <2>1, <2>2, <2>3, <2>4, <2>5, <2>6, <2>7, <2>8
<1>16. ASSUME NEW s \in Call, ManualRefused(s)
      PROVE  IInv'
  <2>1. TypeOK'
    BY <1>16 DEF TypeOK, ManualRefused, Leave, Closed, NoTonsOf, NoStatus, NoPick
  <2>2. LockHeld'
    BY <1>16 DEF TypeOK, LockHeld, ManualRefused, Leave
  <2>3. SeenByHolder'
    BY <1>16 DEF SeenByHolder, ManualRefused, Leave, NoTonsOf
  <2>4. SeenSound'
    BY <1>16 DEF LockHeld, SeenByHolder, SeenSound, ManualRefused, Leave, NoTonsOf
  <2>5. PickSound'
    BY <1>16 DEF TypeOK, PickSound, ManualRefused, Leave
  <2>6. PickHasRow'
    BY <1>16 DEF TypeOK, PickHasRow, ManualRefused, Leave
  <2>7. FreshEmpty'
    BY <1>16 DEF FreshEmpty, ManualRefused, Leave, Closed
  <2>8. OpenSound'
    BY <1>16 DEF TypeOK, OpenSound, ManualRefused, Leave, Closed, NoTonsOf
  <2> QED BY <2>1, <2>2, <2>3, <2>4, <2>5, <2>6, <2>7, <2>8
<1>17. ASSUME NEW s \in Call, ManualWrite(s)
      PROVE  IInv'
  <2>1. TypeOK'
    <3>1. PICK c \in pick[s].cut : Book(pick[s].res, c, pick[s].qty)
      BY <1>17 DEF ManualWrite
    <3>2. /\ pick[s].res \in Res /\ c \in Cut /\ pick[s].qty \in Nat
      BY <1>17 DEF TypeOK, PickHasRow, ManualWrite
    <3>3. /\ taken' \in [Cut -> Tons] /\ consumed' \in [Res -> Tons]
          /\ paired' \subseteq Res \X Cut /\ status' \in [Res -> Status]
      BY <3>1, <3>2 DEF Book, StatusAfter, TypeOK
    <3>4. /\ seenRem' \in [Res -> Tons] /\ seenCut' \in [Cut -> Tons]
          /\ lock' \in Call \cup {NoCall}
          /\ pc' \in [Call -> {"idle", "manualRead"} \cup Holding]
          /\ pick' \in [Call -> Pick]
      BY <1>17 DEF ManualWrite, Leave, NoTonsOf, NoPick, TypeOK
    <3>5. open' \in [rows : SUBSET Res, status : [Res -> Status],
                     consumed : [Res -> Tons], taken : [Cut -> Tons],
                     paired : SUBSET (Res \X Cut)]
      BY <1>17 DEF ManualWrite, Leave, Closed, NoTonsOf, NoStatus
    <3> QED BY <1>17, <3>3, <3>4, <3>5 DEF ManualWrite, TypeOK
  <2>2. LockHeld'
    BY <1>17 DEF TypeOK, LockHeld, ManualWrite, Leave
  <2>3. SeenByHolder'
    BY <1>17 DEF SeenByHolder, ManualWrite, Leave, NoTonsOf
  <2>4. SeenSound'
    BY <1>17 DEF TypeOK, SeenSound, PickSound, ManualWrite, StillSettleable, Book, Leave, NoTonsOf
  <2>5. PickSound'
    BY <1>17 DEF TypeOK, LockHeld, PickSound, ManualWrite, Leave
  <2>6. PickHasRow'
    BY <1>17 DEF TypeOK, PickHasRow, ManualWrite, Leave
  <2>7. FreshEmpty'
    BY <1>17 DEF FreshEmpty, ManualWrite, Book, StatusAfter, Leave, Closed
  <2>8. OpenSound'
    BY <1>17 DEF TypeOK, OpenSound, ManualWrite, Leave, Closed, NoTonsOf
  <2> QED BY <2>1, <2>2, <2>3, <2>4, <2>5, <2>6, <2>7, <2>8
<1>18. CASE UNCHANGED vars
  BY <1>18 DEF vars, TypeOK, LockHeld, SeenByHolder, SeenSound, PickSound,
               PickHasRow, FreshEmpty, OpenSound
<1> QED
  BY <1>1, <1>2, <1>3, <1>4, <1>5, <1>6, <1>7, <1>8, <1>9, <1>10, <1>11, <1>12, <1>13, <1>14, <1>15, <1>16, <1>17, <1>18 DEF Next, Settlement, ManualSettlement

LEMMA Invariance == Spec => []IInv
<1>1. IInv /\ [Next]_vars => IInv'
  BY StepInv
<1> QED BY InitInv, <1>1, PTL DEF Spec

\* Every reachable state is well typed.
THEOREM TypeCorrect == Spec => []TypeOK
<1>1. IInv => TypeOK
  BY DEF IInv
<1> QED BY Invariance, <1>1, PTL

\* A cut is never settled for more tons than the counter cut, however the
\* settlements of settleCouponReservations and manualSettleCouponCut
\* interleave with one another, with failures and with new cuts.
THEOREM SettledOnce == Spec => []CutSettledOnce
<1>1. IInv => CutSettledOnce
  BY DEF IInv, TypeOK, SeenSound, CutSettledOnce, Tons
<1> QED BY Invariance, <1>1, PTL

\* A reservation is never charged for more tons than it holds, although the
\* automatic UPDATE tests no quantity and the manual one works from a row
\* that was read before the lock was taken.
THEOREM NeverOverconsumed == Spec => []ConsumedWithinReserved
<1>1. IInv => ConsumedWithinReserved
  BY DEF IInv, TypeOK, SeenSound, ConsumedWithinReserved, Tons
<1> QED BY Invariance, <1>1, PTL

-----------------------------------------------------------------------------
(* The books of the settlement, and what a rollback puts back.             *)

Balanced == BooksBalance /\ SumOver(open.consumed, Res) = SumOver(open.taken, Cut)

\* A transaction that is not open puts back nothing.
LEMMA ClosedIsBalanced ==
  SumOver(Closed.consumed, Res) = SumOver(Closed.taken, Cut)
<1>1. \A r \in Res : Closed.consumed[r] = 0
  BY DEF Closed, NoTonsOf
<1>2. \A c \in Cut : Closed.taken[c] = 0
  BY DEF Closed, NoTonsOf
<1>3. SumOver(Closed.consumed, Res) = 0 /\ SumOver(Closed.taken, Cut) = 0
  BY <1>1, <1>2, CouponAssumption, SumZeros DEF SumOver
<1> QED BY <1>3

\* A settlement row and ConsumedQty go up together.
LEMMA BookBalances ==
  ASSUME TypeOK, BooksBalance, NEW r \in Res, NEW c \in Cut, NEW q \in Nat, Book(r, c, q)
  PROVE  BooksBalance'
<1>1. /\ consumed'[r] = consumed[r] + q /\ \A x \in Res \ {r} : consumed'[x] = consumed[x]
      /\ taken'[c] = taken[c] + q /\ \A x \in Cut \ {c} : taken'[x] = taken[x]
  BY DEF Book, TypeOK
<1>2. /\ \A x \in Res : consumed[x] \in Int
      /\ \A x \in Cut : taken[x] \in Int
      /\ consumed'[r] \in Int /\ taken'[c] \in Int
  BY <1>1 DEF TypeOK, Tons
<1>3. SumOver(consumed', Res) = (SumOver(consumed, Res) - consumed[r]) + consumed'[r]
  BY <1>1, <1>2, CouponAssumption, SumChange DEF SumOver
<1>4. SumOver(taken', Cut) = (SumOver(taken, Cut) - taken[c]) + taken'[c]
  BY <1>1, <1>2, CouponAssumption, SumChange DEF SumOver
<1>5. SumOver(consumed, Res) \in Int
  BY <1>2, CouponAssumption, SumInteger DEF SumOver
<1>6. SumOver(consumed, Res) = SumOver(taken, Cut)
  BY DEF BooksBalance
<1>7. \A s, a, b \in Int : (s - a) + (a + q) = (s - b) + (b + q)
  OBVIOUS
<1>8. SumOver(consumed', Res) = SumOver(taken', Cut)
  BY <1>1, <1>2, <1>3, <1>4, <1>5, <1>6, <1>7
<1> QED BY <1>8 DEF BooksBalance

LEMMA BalancedStep ==
  ASSUME IInv, Balanced, [Next]_vars
  PROVE  Balanced'
<1> USE DEF IInv, Balanced
<1> USE DEF reservationVars, billVars, nativeVars, settlementVars, callVars
<1>1. CASE UNCHANGED <<consumed, taken, open>>
  BY <1>1 DEF BooksBalance
<1>2. CASE UNCHANGED <<consumed, taken>> /\ open' = Closed
  BY <1>2, ClosedIsBalanced DEF BooksBalance
<1>3. ASSUME NEW r \in Res, NEW q \in Qty, NEW e \in {"none", "ahead"}, Reserve(r, q, e)
      PROVE  UNCHANGED <<consumed, taken, open>>
  BY <1>3 DEF Reserve
<1>4. ASSUME NEW r \in Res, Expire(r) \/ CancelReservation(r)
      PROVE  UNCHANGED <<consumed, taken, open>>
  BY <1>4 DEF Expire, CancelReservation
<1>5. ASSUME NEW b \in Bill, CancelBill(b) \/ \E S \in SUBSET Res : KeyBill(b, S)
      PROVE  UNCHANGED <<consumed, taken, open>>
  BY <1>5 DEF CancelBill, KeyBill
<1>6. ASSUME NEW c \in Cut, NEW q \in Qty, NativeCut(c, q)
      PROVE  UNCHANGED <<consumed, taken, open>>
  BY <1>6 DEF NativeCut
<1>7. ASSUME NEW s \in Call, ReadReservations(s) \/ ManualBusy(s) \/ ManualLock(s)
      PROVE  UNCHANGED <<consumed, taken, open>>
  BY <1>7 DEF ReadReservations, ManualBusy, ManualLock
<1>8. ASSUME NEW s \in Call, ReadCuts(s) PROVE Balanced'
  <2>1. UNCHANGED <<consumed, taken>> /\ (open' = Closed \/ open' = Begun)
    BY <1>8 DEF ReadCuts, Leave
  <2>2. CASE open' = Begun
    BY <2>1, <2>2 DEF Begun, BooksBalance
  <2> QED BY <1>2, <2>1, <2>2
<1>9. ASSUME NEW s \in Call, Commit(s) \/ ManualRefused(s)
      PROVE  UNCHANGED <<consumed, taken>> /\ open' = Closed
  BY <1>9 DEF Commit, ManualRefused, Leave
<1>10. ASSUME NEW s \in Call, Rollback(s) PROVE Balanced'
  <2>1. consumed' = open.consumed /\ taken' = open.taken /\ open' = Closed
    BY <1>10 DEF Rollback, ConsumedBefore, Leave
  <2> QED BY <2>1, ClosedIsBalanced DEF BooksBalance
<1>11. ASSUME NEW s \in Call, NEW r \in Res, NEW c \in Cut, SettleMatch(s, r, c)
       PROVE  Balanced'
  <2> DEFINE q == IF seenRem[r] < seenCut[c] THEN seenRem[r] ELSE seenCut[c]
  <2>1. q \in Nat
    BY DEF TypeOK, Tons
  <2>2. open'.consumed = open.consumed /\ open'.taken = open.taken
    BY <1>11 DEF SettleMatch, TypeOK
  <2>3. CASE <<r, c>> \in paired
    BY <1>11, <2>2, <2>3 DEF SettleMatch, BooksBalance
  <2>4. CASE <<r, c>> \notin paired
    <3>1. Book(r, c, q)
      BY <1>11, <2>4 DEF SettleMatch
    <3> HIDE DEF q
    <3>2. BooksBalance'
      BY <2>1, <3>1, BookBalances
    <3> QED BY <2>2, <3>2
  <2> QED BY <2>3, <2>4
<1>12. ASSUME NEW s \in Call, ManualWrite(s) PROVE Balanced'
  <2>1. /\ pick[s].res \in Res /\ pick[s].qty \in Nat /\ pick[s].cut \subseteq Cut
        /\ \E c \in pick[s].cut : Book(pick[s].res, c, pick[s].qty)
        /\ open' = Closed
    BY <1>12 DEF ManualWrite, PickSound, Leave, TypeOK, Pick, Tons
  <2>2. BooksBalance'
    BY <2>1, BookBalances
  <2> QED BY <2>1, <2>2, ClosedIsBalanced
<1>13. ASSUME NEW s \in Call, NEW r \in Res, ManualRead(s, r)
       PROVE  UNCHANGED <<consumed, taken, open>>
  BY <1>13 DEF ManualRead
<1>14. ASSUME NEW s \in Call, NEW c \in Cut, NEW q \in Qty, ManualChoose(s, c, q)
       PROVE  UNCHANGED <<consumed, taken, open>>
  BY <1>14 DEF ManualChoose
<1>15. CASE UNCHANGED vars
  BY <1>15 DEF vars, BooksBalance
<1> USE <1>1, <1>2
<1> HIDE DEF Balanced, IInv, reservationVars, billVars, nativeVars, settlementVars, callVars
<1> QED BY <1>3, <1>4, <1>5, <1>6, <1>7, <1>8, <1>9, <1>10, <1>11, <1>12, <1>13,
           <1>14, <1>15 DEF Next, Settlement, ManualSettlement

LEMMA BalancedFirst == Init => Balanced
<1> SUFFICES ASSUME Init PROVE Balanced
  OBVIOUS
<1>1. open = Closed /\ consumed = Closed.consumed /\ taken = Closed.taken
  BY DEF Init, Closed
<1> QED BY <1>1, ClosedIsBalanced DEF Balanced, BooksBalance

\* The two sides of the settlement agree after every step: what reservations
\* were charged is what the settlement rows took from the cuts, also when a
\* transaction fails half way and is rolled back.
THEOREM BooksAgree == Spec => []BooksBalance
<1>1. IInv /\ Balanced /\ [Next]_vars => Balanced'
  BY BalancedStep
<1>2. Balanced => BooksBalance
  BY DEF Balanced
<1> QED BY <1>1, <1>2, BalancedFirst, Invariance, PTL DEF Spec

-----------------------------------------------------------------------------
(* Reservations and the bills that carry them.                             *)

\* A reservation on the line of an open bill is carried by that bill.
Carried == \A b \in Bill : \A r \in line[b] : bill[b] = "OPEN" => carrier[r] = b

\* A bill that was never keyed has no lines.
Unkeyed == \A b \in Bill : bill[b] = "NONE" => line[b] = {}

\* A rollback cancels no reservation behind an open bill either.
BackedBefore ==
    \A b \in Bill : \A r \in line[b] \cap open.rows :
        bill[b] = "OPEN" => open.status[r] # "CANCELLED"

Lined == Carried /\ Unkeyed /\ OpenBillBacked /\ BackedBefore

\* Steps that touch no bill and cancel nothing.
LEMMA LinedKept ==
  ASSUME Lined, UNCHANGED <<carrier, bill, line>>,
         \A r \in Res : status'[r] = status[r] \/ status'[r] # "CANCELLED",
         TypeOK, open'.rows = {} \/ open' = open
  PROVE  Lined'
<1>1. Carried' /\ Unkeyed'
  BY DEF Lined, Carried, Unkeyed
<1>2. OpenBillBacked'
  BY DEF Lined, OpenBillBacked, TypeOK
<1>3. BackedBefore'
  BY DEF Lined, BackedBefore
<1> QED BY <1>1, <1>2, <1>3 DEF Lined

LEMMA LinedStep ==
  ASSUME IInv, Lined, [Next]_vars
  PROVE  Lined'
<1> USE DEF IInv
<1> USE DEF reservationVars, billVars, nativeVars, settlementVars, callVars
<1> DEFINE Aside == /\ UNCHANGED <<carrier, bill, line>>
                    /\ \A r \in Res : status'[r] = status[r] \/ status'[r] # "CANCELLED"
                    /\ open'.rows = {} \/ open' = open
<1>1. CASE Aside
  BY <1>1, LinedKept
<1>2. Closed.rows = {} /\ Begun.rows = {}
  BY DEF Closed, Begun
<1>3. ASSUME NEW r \in Res, NEW q \in Qty, NEW e \in {"none", "ahead"}, Reserve(r, q, e)
      PROVE  Aside
  BY <1>3 DEF Reserve, TypeOK
<1>4. ASSUME NEW r \in Res, Expire(r) PROVE Aside
  BY <1>4 DEF Expire
<1>5. ASSUME NEW r \in Res, CancelReservation(r) PROVE Lined'
  <2>1. UNCHANGED <<carrier, bill, line, open>> /\ ~AttachedToOpenBill(r)
    BY <1>5 DEF CancelReservation
  <2>2. \A x \in Res : x # r => status'[x] = status[x]
    BY <1>5 DEF CancelReservation, TypeOK
  <2>3. OpenBillBacked'
    BY <2>1, <2>2 DEF Lined, OpenBillBacked, AttachedToOpenBill, TypeOK
  <2> QED BY <2>1, <2>3 DEF Lined, Carried, Unkeyed, BackedBefore
<1>6. ASSUME NEW b \in Bill, NEW S \in SUBSET Res, KeyBill(b, S) PROVE Lined'
  <2>1. /\ bill' = [bill EXCEPT ![b] = "OPEN"]
        /\ line' = [line EXCEPT ![b] = S]
        /\ carrier' = [r \in Res |-> IF r \in S THEN b ELSE carrier[r]]
        /\ status' = [r \in Res |-> IF r \in line[b] \ S /\ status[r] = "RESERVED"
                                    THEN "CANCELLED" ELSE status[r]]
        /\ open' = open
    BY <1>6 DEF KeyBill, Withdraw
  <2>2. /\ \A r \in S : status[r] = "RESERVED" /\ carrier[r] \in {NoBill, b}
        /\ S \cap open.rows = {}
        /\ bill[b] \in {"NONE", "OPEN"}
    BY <1>6 DEF KeyBill, Bindable, Active, Unlocked
  <2>3. ASSUME NEW a \in Bill, a # b, bill[a] = "OPEN", NEW r \in line[a]
        PROVE  r \in Res /\ r \notin S /\ r \notin line[b] /\ carrier[r] = a
    <3>1. r \in Res /\ carrier[r] = a
      BY <2>3 DEF Lined, Carried, TypeOK
    <3>2. r \notin S
      BY <2>2, <2>3, <3>1, CouponAssumption
    <3>3. r \notin line[b]
      BY <2>2, <2>3, <3>1 DEF Lined, Carried, Unkeyed
    <3> QED BY <3>1, <3>2, <3>3
  <2>4. \A a \in Bill : a # b => bill'[a] = bill[a] /\ line'[a] = line[a]
    BY <2>1 DEF TypeOK
  <2>5. bill'[b] = "OPEN" /\ line'[b] = S
    BY <2>1 DEF TypeOK
  <2>6. Carried'
    BY <2>1, <2>3, <2>4, <2>5 DEF Carried
  <2>7. Unkeyed'
    BY <2>4, <2>5 DEF Lined, Unkeyed
  <2>8. OpenBillBacked'
    BY <2>1, <2>2, <2>3, <2>4, <2>5 DEF Lined, OpenBillBacked
  <2>9. BackedBefore'
    BY <2>1, <2>2, <2>4, <2>5 DEF Lined, BackedBefore
  <2> QED BY <2>6, <2>7, <2>8, <2>9 DEF Lined
<1>7. ASSUME NEW b \in Bill, CancelBill(b) PROVE Lined'
  <2>1. /\ bill' = [bill EXCEPT ![b] = "CANCELLED"]
        /\ status' = [r \in Res |-> IF carrier[r] = b /\ status[r] = "RESERVED"
                                    THEN "CANCELLED" ELSE status[r]]
        /\ UNCHANGED <<carrier, line, open>>
    BY <1>7 DEF CancelBill, Withdraw, ReleasedWithBill
  <2>2. \A a \in Bill : bill'[a] = "OPEN" => a # b /\ bill[a] = "OPEN"
    BY <2>1 DEF TypeOK
  <2>3. \A a \in Bill : bill'[a] = "NONE" => bill[a] = "NONE"
    BY <2>1 DEF TypeOK
  <2>4. OpenBillBacked'
    BY <2>1, <2>2 DEF Lined, Carried, OpenBillBacked, TypeOK
  <2> QED BY <2>1, <2>2, <2>3, <2>4 DEF Lined, Carried, Unkeyed, BackedBefore
<1>8. ASSUME NEW c \in Cut, NEW q \in Qty, NativeCut(c, q) PROVE Aside
  BY <1>8 DEF NativeCut
<1>9. ASSUME NEW s \in Call,
             \/ ReadReservations(s) \/ ReadCuts(s) \/ Commit(s)
             \/ ManualBusy(s) \/ ManualLock(s) \/ ManualRefused(s)
      PROVE  Aside
  BY <1>2, <1>9 DEF ReadReservations, ReadCuts, Commit, ManualBusy, ManualLock,
                    ManualRefused, Leave
<1>10. ASSUME NEW s \in Call, Rollback(s) PROVE Lined'
  <2>1. /\ status' = [r \in Res |-> IF r \in open.rows THEN open.status[r] ELSE status[r]]
        /\ open'.rows = {} /\ UNCHANGED <<carrier, bill, line>>
    BY <1>2, <1>10 DEF Rollback, Leave
  <2>2. OpenBillBacked'
    BY <2>1 DEF Lined, OpenBillBacked, BackedBefore, TypeOK
  <2>3. BackedBefore'
    BY <2>1 DEF BackedBefore
  <2> QED BY <2>1, <2>2, <2>3 DEF Lined, Carried, Unkeyed
<1>11. ASSUME NEW s \in Call, NEW r \in Res, NEW c \in Cut, SettleMatch(s, r, c)
       PROVE  Lined'
  <2>1. CASE <<r, c>> \in paired
    <3>1. Aside
      BY <1>11, <2>1 DEF SettleMatch
    <3> QED BY <1>1, <3>1
  <2>2. CASE <<r, c>> \notin paired
    <3>1. PICK q : Book(r, c, q)
      BY <1>11, <2>2 DEF SettleMatch
    <3>2. /\ open' = [open EXCEPT
                        !.rows = @ \cup {r},
                        !.status[r] = IF r \in open.rows THEN @ ELSE status[r]]
          /\ UNCHANGED <<carrier, bill, line>>
      BY <1>11, <2>2 DEF SettleMatch
    <3>3. \A x \in Res : status'[x] = status[x] \/ status'[x] = "CONSUMED"
      BY <3>1 DEF Book, StatusAfter, TypeOK
    <3>4. OpenBillBacked'
      BY <3>2, <3>3 DEF Lined, OpenBillBacked, TypeOK
    <3>5. /\ open'.rows = open.rows \cup {r}
          /\ \A x \in Res : open'.status[x] =
                IF x = r /\ r \notin open.rows THEN status[x] ELSE open.status[x]
      BY <3>2 DEF TypeOK
    <3>6. BackedBefore'
      BY <3>2, <3>5 DEF Lined, BackedBefore, OpenBillBacked, TypeOK
    <3> QED BY <3>2, <3>4, <3>6 DEF Lined, Carried, Unkeyed
  <2> QED BY <2>1, <2>2
<1>12. ASSUME NEW s \in Call, ManualWrite(s) PROVE Aside
  <2>1. \E c, q : Book(pick[s].res, c, q)
    BY <1>12 DEF ManualWrite
  <2>2. UNCHANGED <<carrier, bill, line>> /\ open' = Closed
    BY <1>12 DEF ManualWrite, Leave
  <2> QED BY <1>2, <2>1, <2>2 DEF Book, StatusAfter, TypeOK
<1>13. ASSUME NEW s \in Call, NEW r \in Res, ManualRead(s, r) PROVE Aside
  BY <1>13 DEF ManualRead
<1>14. ASSUME NEW s \in Call, NEW c \in Cut, NEW q \in Qty, ManualChoose(s, c, q)
       PROVE  Aside
  BY <1>14 DEF ManualChoose
<1>15. CASE UNCHANGED vars
  <2>1. Aside
    BY <1>15 DEF vars
  <2> QED BY <1>1, <2>1
<1> USE <1>1
<1> HIDE DEF Aside, IInv, reservationVars, billVars, nativeVars, settlementVars, callVars
<1> QED BY <1>3, <1>4, <1>5, <1>6, <1>7, <1>8, <1>9, <1>10, <1>11, <1>12, <1>13,
           <1>14, <1>15 DEF Next, Settlement, ManualSettlement

LEMMA LinedAlways == Spec => []Lined
<1>1. Init => Lined
  BY DEF Init, Lined, Carried, Unkeyed, OpenBillBacked, BackedBefore
<1>2. IInv /\ Lined /\ [Next]_vars => Lined'
  BY LinedStep
<1> QED BY <1>1, <1>2, Invariance, PTL DEF Spec

\* No line of an open bill is left with a cancelled reservation behind it,
\* although cancelReservation, the bill operations and the rollback of a
\* settlement write the same rows.
THEOREM BillsStayBacked == Spec => []OpenBillBacked
<1>1. Lined => OpenBillBacked
  BY DEF Lined
<1> QED BY <1>1, LinedAlways, PTL

\* One reservation never makes two open bills free of charge
\* (validateAndLockCouponReservations compares the carrier).
THEOREM OneBillOnly == Spec => []OneBillPerReservation
<1>1. Lined => OneBillPerReservation
  BY DEF Lined, Carried, OneBillPerReservation
<1> QED BY <1>1, LinedAlways, PTL

-----------------------------------------------------------------------------
(* The matcher.                                                            *)

\* Of several reservations one is the earliest: dates, then ids, order them.
LEMMA FirstIsOne ==
  ASSUME MtTypeOK, NEW S, S \subseteq Rsv, S # {}
  PROVE  First(S) \in S
<1> DEFINE Least(T) == \E r \in T : \A s \in T \ {r} : Earlier(r, s)
           A == {T \in SUBSET S : T = {} \/ Least(T)}
<1>1. IsFiniteSet(S)
  BY MatcherAssumption, FS_Subset
<1>2. \A r \in Rsv : r \in Int /\ confirmDate[r] \in Int
  BY MatcherAssumption DEF MtTypeOK, Day
<1>3. \A r, s \in S : r # s => Earlier(r, s) \/ Earlier(s, r)
  BY <1>2 DEF Earlier
<1>4. \A r, s, t \in S : Earlier(r, s) /\ Earlier(s, t) => Earlier(r, t)
  BY <1>2 DEF Earlier
<1>5. {} \in A
  OBVIOUS
<1>6. ASSUME NEW T \in SUBSET S, NEW x \in S \ T, T \in A
      PROVE  T \cup {x} \in A
  <2>1. CASE T = {}
    BY <2>1
  <2>2. CASE T # {}
    <3>1. PICK r \in T : \A s \in T \ {r} : Earlier(r, s)
      BY <1>6, <2>2
    <3>2. CASE Earlier(r, x)
      BY <3>1, <3>2
    <3>3. CASE Earlier(x, r)
      <4>1. \A s \in (T \cup {x}) \ {x} : Earlier(x, s)
        BY <1>4, <3>1, <3>3
      <4> QED BY <4>1
    <3> QED BY <1>3, <3>2, <3>3
  <2> QED BY <2>1, <2>2
<1> HIDE DEF A
<1>7. S \in A
  BY <1>1, <1>5, <1>6, FinitesIn
<1>8. \E r \in S : \A s \in S \ {r} : Earlier(r, s)
  BY <1>7 DEF A
<1> QED BY <1>8 DEF First

LEMMA ChosenIsCandidate ==
  ASSUME MtTypeOK, NEW c, Candidates(c) # {}
  PROVE  Chosen(c) \in Candidates(c)
<1>1. Candidates(c) \subseteq Rsv /\ Exact(c) \subseteq Candidates(c)
  BY DEF Candidates, Exact
<1>2. First(Candidates(c)) \in Candidates(c)
  BY <1>1, FirstIsOne
<1>3. Exact(c) # {} => First(Exact(c)) \in Candidates(c)
  BY <1>1, FirstIsOne
<1> QED BY <1>2, <1>3 DEF Chosen

\* The cut the loop visits, and those that are left.
LEMMA VisitTakesHead ==
  ASSUME MtTypeOK, todo # << >>
  PROVE  /\ 1 \in DOMAIN todo /\ Head(todo) = todo[1] /\ Head(todo) \in Row
         /\ Tail(todo) \in Seq(Row)
         /\ \A i \in DOMAIN Tail(todo) : /\ i \in Nat /\ i + 1 \in DOMAIN todo
                                         /\ i + 1 > 1 /\ Tail(todo)[i] = todo[i + 1]
         /\ Range(todo) = Range(Tail(todo)) \cup {Head(todo)}
<1>1. todo \in Seq(Row)
  BY DEF MtTypeOK
<1>2. /\ Head(todo) \in Row /\ Tail(todo) \in Seq(Row)
      /\ Len(todo) \in Nat \ {0}
      /\ DOMAIN todo = 1..Len(todo)
      /\ DOMAIN Tail(todo) = 1..(Len(todo) - 1)
      /\ \A i \in 1..(Len(todo) - 1) : Tail(todo)[i] = todo[i + 1]
  <2>1. /\ Head(todo) \in Row /\ Tail(todo) \in Seq(Row)
        /\ Len(Tail(todo)) = Len(todo) - 1
        /\ \A i \in 1..Len(Tail(todo)) : Tail(todo)[i] = todo[i + 1]
    BY <1>1, HeadTailProperties
  <2>2. Len(todo) \in Nat \ {0}
    BY <1>1, EmptySeq, LenProperties
  <2>3. DOMAIN todo = 1..Len(todo) /\ DOMAIN Tail(todo) = 1..Len(Tail(todo))
    BY <1>1, <2>1, LenProperties
  <2> QED BY <2>1, <2>2, <2>3
<1>3. Head(todo) = todo[1]
  BY DEF Head
<1>4. 1 \in DOMAIN todo
  BY <1>2
<1>5. \A i \in DOMAIN Tail(todo) : /\ i \in Nat /\ i + 1 \in DOMAIN todo
                                   /\ i + 1 > 1 /\ Tail(todo)[i] = todo[i + 1]
  BY <1>2
<1>6. \A j \in DOMAIN todo : j = 1 \/ (j - 1 \in DOMAIN Tail(todo) /\ (j - 1) + 1 = j)
  BY <1>2
<1>7. Range(todo) \subseteq Range(Tail(todo)) \cup {Head(todo)}
  BY <1>3, <1>5, <1>6 DEF Range
<1>8. Range(Tail(todo)) \cup {Head(todo)} \subseteq Range(todo)
  BY <1>3, <1>4, <1>5 DEF Range
<1> QED BY <1>2, <1>3, <1>4, <1>5, <1>7, <1>8

\* The cuts are visited by day.
Sorted ==
    /\ \A i, j \in DOMAIN todo : i < j => todo[i].day <= todo[j].day
    /\ \A d \in done, i \in DOMAIN todo : d.day <= todo[i].day

\* Each row is one cut.
OneById ==
    /\ \A i, j \in DOMAIN todo : todo[i].id = todo[j].id => i = j
    /\ \A d \in done, i \in DOMAIN todo : d.id # todo[i].id
    /\ \A d, e \in done : d.id = e.id => d = e

MatchesVisited ==
    \A m \in matches : m.cut \in done /\ m.cut.plate = plate[m.res] /\ m.cut.plate # NoPlate

\* A cut that was passed over had no reservation with tons left to go to.
PassedOver ==
    \A c \in done \ (UsedCuts \cup ambiguous) : \A r \in Rsv :
        /\ c.plate # NoPlate /\ plate[r] = c.plate
        /\ GoLive <= c.day /\ confirmDate[r] <= c.day
        => remaining[r] = 0

MtInv == MtTypeOK /\ Sorted /\ OneById /\ MatchesVisited /\ PassedOver /\ OldestCutFirst

LEMMA MtStart == MtInit => MtInv
<1> SUFFICES ASSUME MtInit PROVE MtInv
  OBVIOUS
<1>1. PICK order \in Bijection(Id, Id) : \E rows \in [Id -> CutRow] :
          /\ ByDate(rows, order)
          /\ todo = [i \in Id |-> CutOf(rows, order[i])]
  BY DEF MtInit
<1>2. PICK rows \in [Id -> CutRow] :
          /\ ByDate(rows, order)
          /\ todo = [i \in Id |-> CutOf(rows, order[i])]
  BY <1>1
<1>3. order \in [Id -> Id] /\ \A i, j \in Id : order[i] = order[j] => i = j
  BY DEF Bijection, Injection, IsInjective
<1>4. \A i \in Id : /\ todo[i] = CutOf(rows, order[i]) /\ CutOf(rows, order[i]) \in Row
                   /\ todo[i].id = order[i] /\ todo[i].day = rows[order[i]].day
  <2> TAKE i \in Id
  <2>1. todo[i] = CutOf(rows, order[i])
    BY <1>2
  <2>2. order[i] \in Id /\ rows[order[i]] \in CutRow
    BY <1>3
  <2>3. /\ CutOf(rows, order[i]) \in Row
        /\ CutOf(rows, order[i]).id = order[i]
        /\ CutOf(rows, order[i]).day = rows[order[i]].day
    BY <2>2 DEF CutOf, Row, CutRow
  <2> QED BY <2>1, <2>3
<1>5. DOMAIN todo = Id /\ todo \in Seq(Row)
  <2>1. todo \in [1..MaxCuts -> Row]
    BY <1>2, <1>4 DEF Id
  <2>2. MaxCuts \in Nat
    BY MatcherAssumption
  <2> QED BY <2>1, <2>2, SeqDef DEF Id
<1>6. /\ plate \in [Rsv -> Plate \cup {NoPlate}] /\ confirmDate \in [Rsv -> Day]
      /\ remaining \in [Rsv -> 1..MaxTons]
      /\ done = {} /\ matches = {} /\ ambiguous = {}
  BY DEF MtInit
<1>7. remaining \in [Rsv -> 0..MaxTons]
  BY <1>6, MatcherAssumption
<1>8. MtTypeOK
  BY <1>5, <1>6, <1>7 DEF MtTypeOK
<1>9. Sorted
  <2>1. ASSUME NEW i \in Id, NEW j \in Id, i < j PROVE todo[i].day <= todo[j].day
    <3>1. todo[i].day = rows[order[i]].day /\ todo[j].day = rows[order[j]].day
      BY <1>4
    <3>2. rows[order[i]].day \in Int /\ rows[order[j]].day \in Int
      BY <1>3, MatcherAssumption DEF CutRow, Day
    <3>3. \/ rows[order[i]].day < rows[order[j]].day
          \/ rows[order[i]].day = rows[order[j]].day
      BY <1>2, <2>1 DEF ByDate
    <3> QED BY <3>1, <3>2, <3>3
  <2> QED BY <1>5, <1>6, <2>1 DEF Sorted
<1>10. OneById
  BY <1>3, <1>4, <1>5, <1>6 DEF OneById
<1>11. MatchesVisited /\ PassedOver /\ OldestCutFirst
  BY <1>6 DEF MatchesVisited, PassedOver, OldestCutFirst
<1> QED BY <1>8, <1>9, <1>10, <1>11 DEF MtInv

\* What a match writes.
LEMMA Applied ==
  ASSUME MtTypeOK, NEW c \in Row, Apply(c)
  PROVE  \E r \in Rsv, q \in 1..MaxTons :
            /\ r \in Candidates(c) /\ q <= remaining[r] /\ q <= c.qty
            /\ q = MatchedQty(r, c) /\ remaining[r] \in 1..MaxTons
            /\ remaining' = [remaining EXCEPT ![r] = @ - q]
            /\ matches' = matches \cup
                  {[res |-> r, cut |-> c, qty |-> q, before |-> remaining[r]]}
            /\ ambiguous' = ambiguous
<1> DEFINE r == Chosen(c)
           q == MatchedQty(r, c)
<1>1. r \in Candidates(c) /\ r \in Rsv
  <2>1. Chosen(c) \in Candidates(c)
    BY ChosenIsCandidate DEF Apply
  <2> QED BY <2>1 DEF Candidates
<1> HIDE DEF r
<1>2. remaining[r] \in 1..MaxTons /\ c.qty \in 1..MaxTons
  <2>1. remaining[r] \in 0..MaxTons /\ remaining[r] > 0
    BY <1>1 DEF Candidates, HasTons, MtTypeOK
  <2>2. c.qty \in 1..MaxTons
    BY DEF Row
  <2> QED BY <2>1, <2>2, MatcherAssumption
<1>3. q \in 1..MaxTons /\ q <= remaining[r] /\ q <= c.qty
  BY <1>2, MatcherAssumption DEF MatchedQty
<1>4. /\ remaining' = [remaining EXCEPT ![r] = @ - q]
      /\ matches' = matches \cup
            {[res |-> r, cut |-> c, qty |-> q, before |-> remaining[r]]}
      /\ ambiguous' = ambiguous
  BY DEF Apply, LeftAfter, r
<1> QED BY <1>1, <1>2, <1>3, <1>4

LEMMA MtTypeStep == MtTypeOK /\ [MtNext]_mtVars => MtTypeOK'
<1> SUFFICES ASSUME MtTypeOK, [MtNext]_mtVars PROVE MtTypeOK'
  OBVIOUS
<1>1. CASE UNCHANGED mtVars
  BY <1>1 DEF mtVars, MtTypeOK
<1>2. CASE MtNext
  <2> DEFINE c == Head(todo)
  <2>1. todo # << >> /\ Visit(c) /\ (Apply(c) \/ ListAmbiguous(c) \/ LeaveUnmatched(c))
    BY <1>2 DEF MtNext
  <2>2. c \in Row /\ Tail(todo) \in Seq(Row)
    BY <2>1, VisitTakesHead
  <2> HIDE DEF c
  <2>3. /\ plate' \in [Rsv -> Plate \cup {NoPlate}] /\ confirmDate' \in [Rsv -> Day]
        /\ todo' \in Seq(Row) /\ done' \subseteq Row
    BY <2>1, <2>2 DEF Visit, MtTypeOK
  <2>4. ambiguous' \subseteq done'
    BY <2>1 DEF Visit, Apply, ListAmbiguous, LeaveUnmatched, MtTypeOK
  <2>5. /\ remaining' \in [Rsv -> 0..MaxTons]
        /\ matches' \subseteq [res : Rsv, cut : Row, qty : 1..MaxTons, before : 1..MaxTons]
    <3>1. CASE Apply(c)
      <4>1. PICK r \in Rsv, q \in 1..MaxTons :
              /\ q <= remaining[r] /\ remaining[r] \in 1..MaxTons
              /\ remaining' = [remaining EXCEPT ![r] = @ - q]
              /\ matches' = matches \cup
                    {[res |-> r, cut |-> c, qty |-> q, before |-> remaining[r]]}
        BY <2>2, <3>1, Applied
      <4>2. remaining[r] - q \in 0..MaxTons
        BY <4>1, MatcherAssumption
      <4>3. remaining' \in [Rsv -> 0..MaxTons]
        BY <4>1, <4>2 DEF MtTypeOK
      <4>4. [res |-> r, cut |-> c, qty |-> q, before |-> remaining[r]] \in
               [res : Rsv, cut : Row, qty : 1..MaxTons, before : 1..MaxTons]
        BY <2>2, <4>1
      <4> QED BY <4>1, <4>3, <4>4 DEF MtTypeOK
    <3>2. CASE ListAmbiguous(c) \/ LeaveUnmatched(c)
      BY <3>2 DEF ListAmbiguous, LeaveUnmatched, MtTypeOK
    <3> QED BY <2>1, <3>1, <3>2
  <2> QED BY <2>3, <2>4, <2>5 DEF MtTypeOK
<1> QED BY <1>1, <1>2

LEMMA MtStep == MtInv /\ [MtNext]_mtVars => MtInv'
<1> SUFFICES ASSUME MtInv, [MtNext]_mtVars PROVE MtInv'
  OBVIOUS
<1> USE DEF MtInv
<1>1. MtTypeOK'
  BY MtTypeStep
<1>2. CASE UNCHANGED mtVars
  BY <1>1, <1>2 DEF mtVars, Sorted, OneById, MatchesVisited, PassedOver,
                    OldestCutFirst, UsedCuts
<1>3. CASE MtNext
  <2> DEFINE c == Head(todo)
  <2>1. todo # << >> /\ Visit(c) /\ (Apply(c) \/ ListAmbiguous(c) \/ LeaveUnmatched(c))
    BY <1>3 DEF MtNext
  <2>2. /\ 1 \in DOMAIN todo /\ c = todo[1] /\ c \in Row
        /\ \A i \in DOMAIN Tail(todo) : /\ i \in Nat /\ i + 1 \in DOMAIN todo
                                        /\ i + 1 > 1 /\ Tail(todo)[i] = todo[i + 1]
    BY <2>1, VisitTakesHead
  <2> HIDE DEF c
  <2>3. /\ todo' = Tail(todo) /\ done' = done \cup {c}
        /\ plate' = plate /\ confirmDate' = confirmDate
    BY <2>1 DEF Visit, c
  <2>4. Sorted'
    BY <2>2, <2>3 DEF Sorted
  <2>5. OneById'
    <3>1. ASSUME NEW i \in DOMAIN Tail(todo), NEW j \in DOMAIN Tail(todo),
                 Tail(todo)[i].id = Tail(todo)[j].id
          PROVE  i = j
      <4>1. i + 1 = j + 1
        BY <2>2, <3>1 DEF OneById
      <4> QED BY <2>2, <4>1
    <3>2. \A i \in DOMAIN Tail(todo) : Tail(todo)[i].id # c.id
      BY <2>2 DEF OneById
    <3>3. \A d \in done : d.id # c.id
      BY <2>2 DEF OneById
    <3> QED BY <2>2, <2>3, <3>1, <3>2, <3>3 DEF OneById
  <2>6. CASE Apply(c)
    <3>1. PICK r \in Rsv, q \in 1..MaxTons :
            /\ r \in Candidates(c) /\ q <= remaining[r] /\ remaining[r] \in 1..MaxTons
            /\ remaining' = [remaining EXCEPT ![r] = @ - q]
            /\ matches' = matches \cup
                  {[res |-> r, cut |-> c, qty |-> q, before |-> remaining[r]]}
            /\ ambiguous' = ambiguous
      BY <2>2, <2>6, Applied
    <3>2. UsedCuts' = UsedCuts \cup {c}
      <4> DEFINE new == [res |-> r, cut |-> c, qty |-> q, before |-> remaining[r]]
      <4>1. new.cut = c /\ matches' = matches \cup {new}
        BY <3>1
      <4> HIDE DEF new
      <4> QED BY <4>1 DEF UsedCuts
    <3>3. \A s \in Rsv : remaining[s] = 0 => remaining'[s] = 0
      BY <3>1, MatcherAssumption DEF MtTypeOK
    <3>4. MatchesVisited'
      BY <2>3, <3>1 DEF MatchesVisited, Candidates
    <3>5. PassedOver'
      BY <2>3, <3>1, <3>2, <3>3 DEF PassedOver
    <3>6. OldestCutFirst'
      <4>1. SUFFICES ASSUME NEW m \in matches', NEW d \in done',
                            d.plate = m.cut.plate, GoLive <= d.day,
                            confirmDate[m.res] <= d.day, d.day < m.cut.day
                     PROVE  d \in UsedCuts \cup {c} \cup ambiguous
        BY <2>3, <3>1, <3>2 DEF OldestCutFirst
      <4>2. CASE d = c
        BY <4>2
      <4>3. CASE d \in done /\ m \in matches
        BY <4>1, <4>3 DEF OldestCutFirst
      <4>4. CASE d \in done /\ m \notin matches
        <5>1. m.res = r /\ m.cut = c
          BY <3>1, <4>1, <4>4
        <5>2. d.plate # NoPlate /\ plate[r] = d.plate /\ remaining[r] # 0
          BY <3>1, <4>1, <5>1, MatcherAssumption DEF Candidates
        <5> QED BY <4>1, <4>4, <5>1, <5>2 DEF PassedOver
      <4> QED BY <2>3, <4>1, <4>2, <4>3, <4>4
    <3> QED BY <1>1, <2>4, <2>5, <3>4, <3>5, <3>6
  <2>7. CASE ListAmbiguous(c) \/ LeaveUnmatched(c)
    <3>1. remaining' = remaining /\ matches' = matches /\ UsedCuts' = UsedCuts
      BY <2>7 DEF ListAmbiguous, LeaveUnmatched, UsedCuts
    <3>2. ambiguous \subseteq ambiguous' /\ (c \in ambiguous' \/ Candidates(c) = {})
      BY <2>7 DEF ListAmbiguous, LeaveUnmatched
    <3>3. MatchesVisited'
      BY <2>3, <3>1 DEF MatchesVisited
    <3>4. PassedOver'
      <4>1. ASSUME Candidates(c) = {}, NEW s \in Rsv,
                   c.plate # NoPlate, plate[s] = c.plate,
                   GoLive <= c.day, confirmDate[s] <= c.day
            PROVE  remaining[s] = 0
        <5>1. ~HasTons(s)
          <6>1. c.day \in Int /\ confirmDate[s] \in Int /\ GoLive \in Int
            BY <2>2, MatcherAssumption DEF MtTypeOK, Row, Day
          <6> QED BY <4>1, <6>1 DEF Candidates
        <5>2. remaining[s] \in 0..MaxTons
          BY DEF MtTypeOK
        <5> QED BY <5>1, <5>2, MatcherAssumption DEF HasTons
      <4> QED BY <2>3, <3>1, <3>2, <4>1 DEF PassedOver
    <3>5. OldestCutFirst'
      <4>1. SUFFICES ASSUME NEW m \in matches, NEW d \in done',
                            d.plate = m.cut.plate, GoLive <= d.day,
                            confirmDate[m.res] <= d.day, d.day < m.cut.day
                     PROVE  d \in UsedCuts \cup ambiguous'
        BY <2>3, <3>1 DEF OldestCutFirst
      <4>2. CASE d \in done
        BY <3>2, <4>1, <4>2 DEF OldestCutFirst
      <4>3. CASE d = c
        <5>1. m.cut.day <= c.day /\ m.cut.day \in Int /\ c.day \in Int
          BY <2>2, MatcherAssumption DEF MatchesVisited, Sorted, MtTypeOK, Row, Day
        <5> QED BY <4>1, <4>3, <5>1
      <4> QED BY <2>3, <4>2, <4>3
    <3> QED BY <1>1, <2>4, <2>5, <3>3, <3>4, <3>5
  <2> QED BY <2>1, <2>6, <2>7
<1> QED BY <1>2, <1>3

LEMMA MtInvariant == MtSpec => []MtInv
  BY MtStart, MtStep, PTL DEF MtSpec

\* The working copies and the lists of the matcher keep their types.
THEOREM MatcherTyped == MtSpec => []MtTypeOK
<1>1. MtInv => MtTypeOK
  BY DEF MtInv
<1> QED BY <1>1, MtInvariant, PTL

\* An older cut of the same truck is never passed over for a newer one (the
\* sort above the loop of matchCutsToReservations).
THEOREM OldestFirst == MtSpec => []OldestCutFirst
<1>1. MtInv => OldestCutFirst
  BY DEF MtInv
<1> QED BY <1>1, MtInvariant, PTL

\* What the abstract matching sees of the first state, and of a step.
LEMMA CutsToUse == MtInit => Uncut \in [Id -> Nat] /\ remaining \in [Rsv -> Nat]
<1> SUFFICES ASSUME MtInit PROVE Uncut \in [Id -> Nat] /\ remaining \in [Rsv -> Nat]
  OBVIOUS
<1>1. MtTypeOK /\ matches = {} /\ done = {}
  BY MtStart DEF MtInv, MtInit
<1>2. remaining \in [Rsv -> Nat]
  BY <1>1, MatcherAssumption DEF MtTypeOK
<1>3. Range(todo) \subseteq Row
  <2>1. \A i \in DOMAIN todo : todo[i] \in Row
    BY <1>1, ElementOfSeq, LenProperties DEF MtTypeOK
  <2> QED BY <2>1 DEF Range
<1>4. ASSUME NEW i \in Id PROVE \E c \in Range(todo) : c.id = i
  <2>1. PICK order \in Bijection(Id, Id) : \E rows \in [Id -> CutRow] :
            todo = [j \in Id |-> CutOf(rows, order[j])]
    BY DEF MtInit
  <2>2. PICK rows \in [Id -> CutRow] : todo = [j \in Id |-> CutOf(rows, order[j])]
    BY <2>1
  <2>3. PICK j \in Id : order[j] = i
    BY DEF Bijection, Surjection
  <2>4. DOMAIN todo = Id /\ todo[j] = CutOf(rows, order[j])
    BY <2>2
  <2>5. CutOf(rows, order[j]).id = i
    BY <2>3 DEF CutOf
  <2> QED BY <2>4, <2>5 DEF Range
<1>5. ASSUME NEW i \in Id PROVE Uncut[i] \in Nat
  <2> DEFINE c == CHOOSE x \in AllCuts : x.id = i
  <2>1. c \in Row
    BY <1>1, <1>3, <1>4 DEF AllCuts
  <2>2. Uncut[i] = c.qty
    BY <1>1 DEF Uncut
  <2> HIDE DEF c
  <2>3. c.qty \in 1..MaxTons
    BY <2>1 DEF Row
  <2> QED BY <2>2, <2>3, MatcherAssumption
<1>6. DOMAIN Uncut = Id
  BY DEF Uncut
<1>7. Uncut = [i \in Id |-> Uncut[i]]
  BY DEF Uncut
<1> QED BY <1>2, <1>5, <1>7

\* One turn of the loop is one step of the abstract matching, or none.
LEMMA LoopMatches ==
  MtInv /\ [MtNext]_mtVars => [Abstract!Next]_<<remaining, Uncut>>
<1> SUFFICES ASSUME MtInv, [MtNext]_mtVars
             PROVE  Abstract!Next \/ UNCHANGED <<remaining, Uncut>>
  OBVIOUS
<1> USE DEF MtInv
<1>1. CASE UNCHANGED mtVars
  BY <1>1 DEF mtVars, Uncut, AllCuts
<1>2. CASE MtNext
  <2> DEFINE c == Head(todo)
  <2>1. todo # << >> /\ Visit(c) /\ (Apply(c) \/ ListAmbiguous(c) \/ LeaveUnmatched(c))
    BY <1>2 DEF MtNext
  <2>2. /\ 1 \in DOMAIN todo /\ c = todo[1] /\ c \in Row
        /\ Range(todo) = Range(Tail(todo)) \cup {c}
    BY <2>1, VisitTakesHead
  <2> HIDE DEF c
  <2>3. todo' = Tail(todo) /\ done' = done \cup {c}
    BY <2>1 DEF Visit, c
  <2>4. AllCuts' = AllCuts
    <3>1. AllCuts' = done' \cup Range(todo')
      BY DEF AllCuts
    <3> QED BY <2>2, <2>3, <3>1 DEF AllCuts
  <2>5. \A d \in AllCuts : d.id = c.id => d = c
    <3>1. \A d \in done : d.id # c.id
      BY <2>2 DEF OneById
    <3>2. \A d \in Range(todo) : d.id = c.id => d = c
      BY <2>2 DEF OneById, Range
    <3> QED BY <3>1, <3>2 DEF AllCuts
  <2>6. c \in AllCuts /\ c.id \in Id
    BY <2>2 DEF Row, AllCuts
  <2>7. CASE Apply(c)
    <3>1. PICK r \in Rsv, q \in 1..MaxTons :
            /\ q = MatchedQty(r, c)
            /\ remaining' = [remaining EXCEPT ![r] = @ - q]
            /\ matches' = matches \cup
                  {[res |-> r, cut |-> c, qty |-> q, before |-> remaining[r]]}
      BY <2>2, <2>7, Applied
    <3>2. \A m \in matches : m.cut.id # c.id
      BY <2>2 DEF MatchesVisited, OneById
    <3>3. (CHOOSE d \in AllCuts : d.id = c.id) = c
      BY <2>5, <2>6
    <3>4. Uncut[c.id] = c.qty
      BY <2>6, <3>2, <3>3 DEF Uncut
    <3> DEFINE new == [res |-> r, cut |-> c, qty |-> q, before |-> remaining[r]]
    <3>5. new.cut = c /\ matches' = matches \cup {new}
      BY <3>1
    <3> HIDE DEF new
    <3>6. Uncut' = [Uncut EXCEPT ![c.id] = 0]
      <4>1. ASSUME NEW i \in Id, i # c.id
            PROVE  (\E m \in matches' : m.cut.id = i) <=> (\E m \in matches : m.cut.id = i)
        BY <3>5, <4>1
      <4>2. \E m \in matches' : m.cut.id = c.id
        BY <3>5
      <4>3. Uncut' = [i \in Id |-> IF \E m \in matches' : m.cut.id = i THEN 0
                                   ELSE (CHOOSE d \in AllCuts : d.id = i).qty]
        BY <2>4 DEF Uncut
      <4>4. Uncut = [i \in Id |-> IF \E m \in matches : m.cut.id = i THEN 0
                                   ELSE (CHOOSE d \in AllCuts : d.id = i).qty]
        BY DEF Uncut
      <4>5. \A i \in Id : Uncut'[i] = IF i = c.id THEN 0 ELSE Uncut[i]
        BY <4>1, <4>2, <4>3, <4>4
      <4>6. DOMAIN Uncut = Id /\ Uncut' = [i \in Id |-> Uncut'[i]]
        BY <4>3, <4>4
      <4> QED BY <4>5, <4>6
    <3>7. Abstract!TonsOf(r, c.id) = q
      BY <3>1, <3>4 DEF Abstract!TonsOf, MatchedQty
    <3>8. q > 0
      BY MatcherAssumption
    <3>9. Abstract!Match(r, c.id)
      BY <3>1, <3>6, <3>7, <3>8 DEF Abstract!Match
    <3> QED BY <2>6, <3>9 DEF Abstract!Next
  <2>8. CASE ListAmbiguous(c) \/ LeaveUnmatched(c)
    <3>1. remaining' = remaining /\ matches' = matches
      BY <2>8 DEF ListAmbiguous, LeaveUnmatched
    <3>2. Uncut' = Uncut
      BY <2>4, <3>1 DEF Uncut
    <3> QED BY <3>1, <3>2
  <2> QED BY <2>1, <2>7, <2>8
<1> QED BY <1>1, <1>2

\* The matcher implements the abstract matching: every cut is used once, for
\* as much as it and the reservation it goes to still have.
THEOREM MatcherImplements == MtSpec => ImplementsCutMatching
<1>1. MtInit => Abstract!Init
  BY CutsToUse DEF Abstract!Init
<1> QED BY <1>1, MtInvariant, LoopMatches, PTL DEF MtSpec, ImplementsCutMatching, Abstract!Spec

\* The automatic settlement on its holder's working copies.
Settling == INSTANCE CutMatching WITH left <- seenRem, uncut <- seenCut

InSettlement(s) == pc[s] = "settle"

LEMMA CopiesStep ==
  ASSUME IInv, Next, NEW s \in Call, InSettlement(s), InSettlement(s)'
  PROVE  Settling!Next \/ UNCHANGED <<seenRem, seenCut>>
<1> USE CouponAssumption DEF IInv, TypeOK, LockHeld, Holding, InSettlement
<1>0. lock = s /\ s # NoCall
  OBVIOUS
<1>1. ASSUME NEW r \in Res, NEW c \in Cut, NEW t \in Call, SettleMatch(t, r, c)
      PROVE  Settling!Next
  <2>1. Settling!Match(r, c)
    BY <1>1 DEF SettleMatch, Settling!Match, Settling!TonsOf
  <2> QED BY <2>1 DEF Settling!Next
<1>2. ASSUME NEW t \in Call, ReadReservations(t) \/ ReadCuts(t) \/ Commit(t) \/ Rollback(t)
      PROVE  FALSE
  <2>1. ~ReadReservations(t)
    BY <1>0 DEF ReadReservations, LockFree
  <2>2. pc[t] \in {"readCuts", "settle"} => t = s
    BY <1>0
  <2>3. ~ReadCuts(t)
    BY <2>2 DEF ReadCuts
  <2>4. ~Commit(t) /\ ~Rollback(t)
    BY <2>2 DEF Commit, Rollback, Leave
  <2> QED BY <1>2, <2>1, <2>3, <2>4
<1>3. ASSUME NEW t \in Call, ManualSettlement(t)
      PROVE  UNCHANGED <<seenRem, seenCut>>
  <2>1. pc[t] \in {"manualCut", "manualWrite"} => t = s
    BY <1>0
  <2>2. ~ManualRefused(t) /\ ~ManualWrite(t)
    BY <2>1 DEF ManualRefused, ManualWrite
  <2> QED BY <1>3, <2>2 DEF ManualSettlement, ManualBusy, ManualLock, ManualRead, ManualChoose
<1> QED
  BY <1>1, <1>2, <1>3 DEF Next, Settlement, Reserve, Expire, CancelReservation, KeyBill,
    CancelBill, NativeCut, callVars

\* The copies are numbers of tons when the matching begins.
BeginsMatching == (\A s \in Call : ~InSettlement(s)) /\ (\E s \in Call : InSettlement(s)')
                    => Settling!Init'

KeepsMatching == (\E s \in Call : InSettlement(s) /\ InSettlement(s)')
                    => [Settling!Next]_<<seenRem, seenCut>>

\* Every transaction of settleCouponReservations, from the second query to
\* its end, is a behaviour of CutMatching on the quantities it read, whoever
\* reserves, cancels, cuts or settles by hand in between: nobody else is in
\* a settlement, and each match takes one whole cut, for as much as it and
\* its reservation have left.
THEOREM SettlesByMatching == Spec => [][BeginsMatching /\ KeepsMatching]_vars
<1>1. IInv /\ IInv' /\ [Next]_vars => [BeginsMatching /\ KeepsMatching]_vars
  <2> SUFFICES ASSUME IInv, IInv', Next PROVE BeginsMatching /\ KeepsMatching
    OBVIOUS
  <2>1. BeginsMatching
    BY DEF BeginsMatching, IInv, TypeOK, Tons, Settling!Init
  <2>2. KeepsMatching
    BY CopiesStep DEF KeepsMatching
  <2> QED BY <2>1, <2>2
<1> QED BY <1>1, Invariance, PTL DEF Spec
=============================================================================
