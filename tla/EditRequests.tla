---------------------------- MODULE EditRequests ----------------------------
(***************************************************************************)
(* Requests to edit a confirmed booking (routes/edit-requests.js) and the  *)
(* hold they may put on it in WinSpeed (services/truck-hold.js).           *)
(*                                                                         *)
(* The handlers run without a transaction: every statement commits by      *)
(* itself, so a handler is a call of several steps that other calls, the   *)
(* scale, WinSpeed and a crash come between.  The tests a handler makes in *)
(* one go of reads nobody else relates are one step.                       *)
(*                                                                         *)
(* One booking; it has one lock flag, IsUnlocked, and one hold, OnHold.    *)
(***************************************************************************)
EXTENDS Integers, FiniteSets

CONSTANTS
    Req,        \* bound: ids of requests
    Call,       \* bound: calls in progress at a time
    User,
    Reason,     \* codes of wf.EditReason
    Rule,       \* bound: what a reason may say
    NoUser, NoReason,
    HoldWrites, \* setting TRUCK_HOLD_WRITE_WINSPEED
    MaxAdmin,   \* bound: changes to the list of reasons
    MaxFault    \* bound: crashes and holds written too late

\* A row of wf.EditReason: when it may be given, and whether it holds the truck.
RuleRow == [active : BOOLEAN, hold : BOOLEAN,
            stages : SUBSET {"CONFIRMED", "REGISTERED", "LOADING"}]

ASSUME EditAssumption ==
    /\ IsFiniteSet(Req) /\ IsFiniteSet(Call)
    /\ NoUser \notin User /\ NoReason \notin Reason
    /\ Rule \subseteq RuleRow
    /\ HoldWrites \in BOOLEAN
    /\ {MaxAdmin, MaxFault} \subseteq Nat

VARIABLES
    weigh,      \* MAX(Status) of the booking's rows in WGHD
    issued,     \* a native delivery order exists
    unlocked,   \* IsUnlocked
    held,       \* OnHold, and whose 'Y' it is: "N", "APP" or "STAFF"
    logged,     \* TruckHoldLog has a HOLD with Applied = 1
    reasons,    \* the rows of wf.EditReason
    admins,     \* how often they were changed
    status, by, reviewer, reason, holds,    \* the columns of a request
    call,       \* what each handler has read, and where it stands
    faults      \* history: how often a crash cut handlers short, or a request
                \* ended while its handler was still about to hold the truck

edWorld == <<weigh, issued>>
edReasons == <<reasons, admins>>
edRequests == <<status, by, reviewer, reason, holds>>
edTruck == <<held, logged>>
edVars == <<edWorld, unlocked, edTruck, edReasons, edRequests, call, faults>>

Ended == {"APPROVED", "REJECTED", "CANCELLED"}

Idle == [at |-> "idle"]
Doing(at, q, u) == [at |-> at, q |-> q, u |-> u]

EdInit ==
    /\ weigh = 0
    /\ issued = FALSE
    /\ unlocked = FALSE
    /\ held = "N"
    /\ logged = FALSE
    /\ reasons \in [Reason -> Rule]
    /\ admins = 0
    /\ status = [q \in Req |-> "none"]
    /\ by = [q \in Req |-> NoUser]
    /\ reviewer = [q \in Req |-> NoUser]
    /\ reason = [q \in Req |-> NoReason]
    /\ holds = [q \in Req |-> FALSE]
    /\ call = [k \in Call |-> Idle]
    /\ faults = 0

-----------------------------------------------------------------------------
Pending == {q \in Req : status[q] = "PENDING"}

CurrentStage == CASE weigh = 1 -> "REGISTERED"
                  [] weigh = 2 -> "LOADING"
                  [] weigh = 3 -> "SHIPPED"
                  [] OTHER -> "CONFIRMED"

Go(k, c) == call' = [call EXCEPT ![k] = c]

\* POST /: the booking must not be out yet, and the reason must allow the
\* stage the scale says it is in.
StartCreate(k, u, c) ==
    /\ call[k] = Idle
    /\ ~issued
    /\ CurrentStage # "SHIPPED"
    /\ c \in DOMAIN reasons
    /\ reasons[c].active
    /\ CurrentStage \in reasons[c].stages
    /\ Go(k, [at |-> "dup", u |-> u, c |-> c,
              hold |-> reasons[c].hold /\ CurrentStage # "CONFIRMED"])
    /\ UNCHANGED <<edWorld, unlocked, edTruck, edReasons, edRequests, faults>>

\* Mutant: the open request is not looked for.
NotLooked == TRUE
NoneOpen == Pending = {}

CheckDuplicate(k) ==
    /\ call[k].at = "dup"
    /\ Go(k, IF NoneOpen THEN [call[k] EXCEPT !.at = "insert"] ELSE Idle)
    /\ UNCHANGED <<edWorld, unlocked, edTruck, edReasons, edRequests, faults>>

\* The foreign key of the request refuses a reason deleted meanwhile.
Insert(k, q) ==
    LET c == call[k] IN
    /\ c.at = "insert"
    /\ status[q] = "none"
    /\ IF c.c \in DOMAIN reasons
       THEN /\ status' = [status EXCEPT ![q] = "PENDING"]
            /\ by' = [by EXCEPT ![q] = c.u]
            /\ reason' = [reason EXCEPT ![q] = c.c]
            /\ holds' = [holds EXCEPT ![q] = c.hold]
            /\ Go(k, IF c.hold THEN Doing("hold", q, c.u) ELSE Idle)
       ELSE Go(k, Idle) /\ UNCHANGED <<status, by, reason, holds>>
    /\ UNCHANGED <<edWorld, unlocked, edTruck, edReasons, reviewer, faults>>

\* applyHold: the hold is read and written under the same condition, then
\* logged.  A hold that is there already, or a switch that is off, leaves a
\* log row with Applied = 0, which nothing reads back.
WriteHold(k) ==
    /\ call[k].at = "hold"
    /\ IF HoldWrites /\ held = "N"
       THEN held' = "APP" /\ Go(k, [call[k] EXCEPT !.at = "logHold"])
       ELSE UNCHANGED held /\ Go(k, Idle)
    /\ UNCHANGED <<edWorld, unlocked, logged, edReasons, edRequests, faults>>

LogHold(k) ==
    /\ call[k].at = "logHold"
    /\ logged' = TRUE
    /\ Go(k, Idle)
    /\ UNCHANGED <<edWorld, unlocked, held, edReasons, edRequests, faults>>

-----------------------------------------------------------------------------
\* A handler is still about to hold the truck for request q.
Holding(q) == \E k \in Call : /\ call[k].at \in {"hold", "logHold"}
                              /\ call[k].q = q

\* UPDATE ... WHERE Id = @id AND Status = 'PENDING'.
\* Mutant: the update does not ask whether the request is still open.
AnyStatus(q) == TRUE
StillOpen(q) == status[q] = "PENDING"

Close(q, u, s) ==
    IF StillOpen(q)
    THEN /\ status' = [status EXCEPT ![q] = s]
         /\ reviewer' = [reviewer EXCEPT ![q] = u]
         /\ faults' = IF Holding(q) /\ faults = 0 THEN 1 ELSE faults
    ELSE UNCHANGED <<status, reviewer, faults>>

NotOwn(q, u) == by[q] # u

StartApprove(k, q, u) ==
    /\ call[k] = Idle
    /\ status[q] = "PENDING"
    /\ NotOwn(q, u)
    /\ ~issued
    /\ Go(k, Doing("approve", q, u))
    /\ UNCHANGED <<edWorld, unlocked, edTruck, edReasons, edRequests, faults>>

\* How many rows the update met is not asked: the lock flag follows anyway.
ApproveRow(k) ==
    /\ call[k].at = "approve"
    /\ Close(call[k].q, call[k].u, "APPROVED")
    /\ Go(k, [call[k] EXCEPT !.at = "unlock"])
    /\ UNCHANGED <<edWorld, unlocked, edTruck, edReasons, by, reason, holds>>

\* Mutant: the handler that ends a request leaves its hold on the truck.
Forgotten(q) == FALSE
ToRelease(q) == holds[q]
Finish(k, q, u) == Go(k, IF ToRelease(q) THEN Doing("release", q, u) ELSE Idle)

Unlock(k) ==
    /\ call[k].at = "unlock"
    /\ unlocked' = TRUE
    /\ Finish(k, call[k].q, call[k].u)
    /\ UNCHANGED <<edWorld, edTruck, edReasons, edRequests, faults>>

\* A rejection does look at the count; its first statement is the update.
Reject(k, q, u) ==
    /\ call[k] = Idle
    /\ StillOpen(q)
    /\ Close(q, u, "REJECTED")
    /\ Finish(k, q, u)
    /\ UNCHANGED <<edWorld, unlocked, edTruck, edReasons, by, reason, holds>>

\* A request is withdrawn by the one who made it, or by an administrator.
StartCancel(k, q, u) ==
    /\ call[k] = Idle
    /\ status[q] = "PENDING"
    /\ Go(k, Doing("cancel", q, u))
    /\ UNCHANGED <<edWorld, unlocked, edTruck, edReasons, edRequests, faults>>

CancelRow(k) ==
    /\ call[k].at = "cancel"
    /\ Close(call[k].q, call[k].u, "CANCELLED")
    /\ Finish(k, call[k].q, call[k].u)
    /\ UNCHANGED <<edWorld, unlocked, edTruck, edReasons, by, reason, holds>>

\* releaseHold: the value before the last hold that was written, which was
\* never 'Y', overwrites what is there now.
Release(k) ==
    /\ call[k].at = "release"
    /\ held' = IF logged THEN "N" ELSE held
    /\ Go(k, Idle)
    /\ UNCHANGED <<edWorld, unlocked, logged, edReasons, edRequests, faults>>

-----------------------------------------------------------------------------
\* The list of reasons.  A reason is not switched off while a request that
\* gives it is open, nor deleted once one gave it; both are checked by a
\* statement before.
ListWork == <<edWorld, unlocked, edTruck, edRequests, faults>>

StartReason(k, c, at) ==
    /\ call[k] = Idle
    /\ admins < MaxAdmin
    /\ c \in DOMAIN reasons
    /\ at = "disable" => \A q \in Pending : reason[q] # c
    /\ at = "delete" => \A q \in Req : reason[q] # c
    /\ Go(k, [at |-> at, c |-> c])
    /\ admins' = admins + 1
    /\ UNCHANGED <<reasons, ListWork>>

DisableReason(k) ==
    /\ call[k].at = "disable"
    /\ reasons' = [c \in DOMAIN reasons |->
                    [reasons[c] EXCEPT !.active = @ /\ c # call[k].c]]
    /\ Go(k, Idle)
    /\ UNCHANGED <<admins, ListWork>>

\* The foreign key of the requests.
KeyAllows(c) == \A q \in Req : reason[q] # c

DeleteReason(k) ==
    /\ call[k].at = "delete"
    /\ reasons' = IF KeyAllows(call[k].c)
                  THEN [c \in DOMAIN reasons \ {call[k].c} |-> reasons[c]]
                  ELSE reasons
    /\ Go(k, Idle)
    /\ UNCHANGED <<admins, ListWork>>

\* A new reason, or a row that is written without a check.
WriteReason(c, r) ==
    /\ admins < MaxAdmin
    /\ r.active \/ c \notin DOMAIN reasons
    /\ reasons' = [d \in DOMAIN reasons \cup {c} |-> IF d = c THEN r ELSE reasons[d]]
    /\ admins' = admins + 1
    /\ UNCHANGED <<call, ListWork>>

-----------------------------------------------------------------------------
\* The world: the scale moves the truck on, WinSpeed issues the delivery, its
\* staff hold or release the order, and the booking is confirmed again.
Weigh ==
    /\ weigh < 3
    /\ weigh' = weigh + 1
    /\ UNCHANGED <<issued, unlocked, edTruck, edReasons, edRequests, call, faults>>

Issue ==
    /\ ~issued
    /\ issued' = TRUE
    /\ UNCHANGED <<weigh, unlocked, edTruck, edReasons, edRequests, call, faults>>

StaffHold ==
    /\ held' = IF held = "N" THEN "STAFF" ELSE "N"
    /\ UNCHANGED <<edWorld, unlocked, logged, edReasons, edRequests, call, faults>>

Relock ==
    /\ unlocked
    /\ unlocked' = FALSE
    /\ UNCHANGED <<edWorld, edTruck, edReasons, edRequests, call, faults>>

Crash ==
    /\ faults < MaxFault
    /\ faults' = faults + 1
    /\ call' = [k \in Call |-> Idle]
    /\ UNCHANGED <<edWorld, unlocked, edTruck, edReasons, edRequests>>

EdNext ==
    \/ \E k \in Call :
          \/ \E u \in User, c \in Reason : StartCreate(k, u, c)
          \/ CheckDuplicate(k)
          \/ \E q \in Req : Insert(k, q)
          \/ WriteHold(k) \/ LogHold(k)
          \/ \E q \in Req, u \in User :
                StartApprove(k, q, u) \/ Reject(k, q, u) \/ StartCancel(k, q, u)
          \/ ApproveRow(k) \/ Unlock(k) \/ CancelRow(k) \/ Release(k)
          \/ \E c \in Reason, at \in {"disable", "delete"} : StartReason(k, c, at)
          \/ DisableReason(k) \/ DeleteReason(k)
    \/ \E c \in Reason, r \in Rule : WriteReason(c, r)
    \/ Weigh \/ Issue \/ StaffHold \/ Relock \/ Crash

EdSpec == EdInit /\ [][EdNext]_edVars
-----------------------------------------------------------------------------
Creating == [at : {"dup", "insert"}, u : User, c : Reason, hold : BOOLEAN]
Deciding == [at : {"hold", "logHold", "approve", "unlock", "cancel", "release"},
             q : Req, u : User]
Listing == [at : {"disable", "delete"}, c : Reason]

\* Every column has its type, and every handler is where one of its statements is.
EdTypeOK ==
    /\ weigh \in 0..3
    /\ issued \in BOOLEAN /\ unlocked \in BOOLEAN /\ logged \in BOOLEAN
    /\ held \in {"N", "APP", "STAFF"}
    /\ DOMAIN reasons \in SUBSET Reason
    /\ reasons \in [DOMAIN reasons -> RuleRow]
    /\ admins \in Nat /\ faults \in Nat
    /\ status \in [Req -> {"none", "PENDING"} \cup Ended]
    /\ by \in [Req -> User \cup {NoUser}]
    /\ reviewer \in [Req -> User \cup {NoUser}]
    /\ reason \in [Req -> Reason \cup {NoReason}]
    /\ holds \in [Req -> BOOLEAN]
    /\ call \in [Call -> {Idle} \cup Creating \cup Deciding \cup Listing]

\* A decision stands: a request that was approved, rejected or withdrawn
\* keeps that answer and the name under it, whatever a handler that read it
\* while it was open does next.
DecisionStands ==
    [][\A q \in Req : status[q] \in Ended =>
          status'[q] = status[q] /\ reviewer'[q] = reviewer[q]]_edVars

\* A booking is unlocked by somebody else than the one who asked for it, and
\* never on a request that nobody has decided.
UnlockedByAnother ==
    [][unlocked' /\ ~unlocked =>
          \E k \in Call : /\ call[k].at = "unlock"
                          /\ status[call[k].q] \in Ended
                          /\ call[k].u # by[call[k].q]]_edVars

\* The duplicate check and the insert are two statements, so two requests of
\* a booking can be open: never more than calls overlapped.
OneForEachCall ==
    Cardinality(Pending) + Cardinality({k \in Call : call[k].at = "insert"})
        <= Cardinality(Call)

\* "Otherwise the order stays on hold for good" (edit-requests.js): when all
\* handlers are done the truck is on hold for an open request only, unless one
\* ended before its hold was written or a crash cut a handler short.
HoldEndsWithRequest ==
    (\A k \in Call : call[k] = Idle) /\ faults = 0 /\ held = "APP" =>
        \E q \in Pending : holds[q]
=============================================================================
