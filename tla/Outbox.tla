------------------------------- MODULE Outbox -------------------------------
(***************************************************************************)
(* The integration outbox: rows of wf.OutboxEvent written by enqueue() on  *)
(* the business path and drained by processOnce(), which startWorker()     *)
(* calls every ten seconds whether or not the previous call has returned.  *)
(* Every UPDATE of the worker commits on its own, so a crash or a lost     *)
(* reply can fall between any two of them.                                 *)
(***************************************************************************)
EXTENDS Naturals, Sequences, FiniteSets

CONSTANTS
    Event,      \* rows of wf.OutboxEvent, one per idempotency key
    Poller,     \* calls of processOnce that may be in flight together
    MaxRetry,   \* MAX_RETRY in outbox.js
    BatchSize,  \* SELECT TOP 10
    MaxCrash    \* bound: crashes of the backend process

ASSUME OutboxAssumption ==
    /\ IsFiniteSet(Event)
    /\ MaxRetry \in Nat \ {0}
    /\ BatchSize \in Nat \ {0}
    /\ MaxCrash \in Nat

VARIABLES
    status,     \* Status column; "NONE" until the row exists
    retry,      \* RetryCount column
    createdAt,  \* CreatedAt column: the rows count up, 0 before the INSERT
    batch,      \* batch[r]: the rows processOnce still has to visit, with
                \* the RetryCount it read together with them
    point,      \* where a call of processOnce stands
    delivered,  \* how often handle() broadcast the event, counted up to
                \* one more than MaxRetry
    shared,     \* events that two calls have had in their batches at once
    crashes

obVars == <<status, retry, createdAt, batch, point, delivered, shared, crashes>>

RowStatus == {"NONE", "PENDING", "PROCESSING", "DONE", "FAILED"}

ObInit ==
    /\ status = [e \in Event |-> "NONE"]
    /\ retry = [e \in Event |-> 0]
    /\ createdAt = [e \in Event |-> 0]
    /\ batch = [r \in Poller |-> << >>]
    /\ point = [r \in Poller |-> "idle"]
    /\ delivered = [e \in Event |-> 0]
    /\ shared = {}
    /\ crashes = 0

Current(r) == Head(batch[r])

\* The row the loop moves to after the current one, or the end of the call.
NextRow(r) ==
    /\ batch' = [batch EXCEPT ![r] = Tail(@)]
    /\ point' = [point EXCEPT ![r] = IF Len(batch[r]) = 1 THEN "idle" ELSE "claim"]

-----------------------------------------------------------------------------
\* A business transaction inserts the row; a second INSERT with the same
\* idempotency key hits the unique index and is swallowed, so it changes
\* nothing and is not a step.
Enqueue(e) ==
    /\ status[e] = "NONE"
    /\ status' = [status EXCEPT ![e] = "PENDING"]
    /\ createdAt' = [createdAt EXCEPT ![e] =
                       Cardinality({f \in Event : status[f] # "NONE"}) + 1]
    /\ UNCHANGED <<retry, batch, point, delivered, shared, crashes>>

Due == {e \in Event : status[e] = "PENDING"}

\* s lists the oldest due rows: SELECT TOP 10 ... WHERE Status = 'PENDING'
\* ORDER BY CreatedAt.
OldestDue(s) ==
    /\ \A i \in DOMAIN s : s[i] \in Due
    /\ \A i, j \in DOMAIN s : i < j => createdAt[s[i]] < createdAt[s[j]]
    /\ \A e \in Due : \/ \E i \in DOMAIN s : s[i] = e
                      \/ /\ Len(s) = BatchSize
                         /\ \A i \in DOMAIN s : createdAt[s[i]] < createdAt[e]

\* Another call still has e in its batch: nothing keeps two calls apart.
HeldByOther(r, e) ==
    \E q \in Poller \ {r} : \E i \in DOMAIN batch[q] : batch[q][i].id = e

\* The batch is read in one query. A query that fails ends the call and is
\* the same as not polling.
Poll(r) ==
    /\ point[r] = "idle"
    /\ \E n \in 1..BatchSize : \E s \in [1..n -> Due] :
         /\ OldestDue(s)
         /\ batch' = [batch EXCEPT ![r] =
                        [i \in 1..n |-> [id |-> s[i], retry |-> retry[s[i]]]]]
         /\ shared' = shared \cup {s[i] : i \in {i \in 1..n : HeldByOther(r, s[i])}}
    /\ point' = [point EXCEPT ![r] = "claim"]
    /\ UNCHANGED <<status, retry, createdAt, delivered, crashes>>

\* Mutant: the row is marked done when the worker takes it.
ClaimedDone == "DONE"
ClaimedStatus == "PROCESSING"

\* UPDATE ... SET Status='PROCESSING' WHERE Id=@id: no test of the status.
Claim(r) ==
    /\ point[r] = "claim"
    /\ status' = [status EXCEPT ![Current(r).id] = ClaimedStatus]
    /\ point' = [point EXCEPT ![r] = "handle"]
    /\ UNCHANGED <<retry, createdAt, batch, delivered, shared, crashes>>

\* handle(): the broadcast; socket errors are caught inside it.
Handle(r) ==
    /\ point[r] = "handle"
    /\ delivered' = [delivered EXCEPT ![Current(r).id] =
                        IF @ > MaxRetry THEN @ ELSE @ + 1]
    /\ point' = [point EXCEPT ![r] = "finish"]
    /\ UNCHANGED <<status, retry, createdAt, batch, shared, crashes>>

\* UPDATE ... SET Status='DONE' WHERE Id=@id, and on to the next row.
Finish(r) ==
    /\ point[r] = "finish"
    /\ status' = [status EXCEPT ![Current(r).id] = "DONE"]
    /\ NextRow(r)
    /\ UNCHANGED <<retry, createdAt, delivered, shared, crashes>>

\* One of the two UPDATEs reports an error; the database may have applied it
\* before the reply was lost.
UpdateError(r) ==
    /\ point[r] \in {"claim", "finish"}
    /\ \/ UNCHANGED status
       \/ status' = [status EXCEPT ![Current(r).id] =
                       IF point[r] = "claim" THEN ClaimedStatus ELSE "DONE"]
    /\ point' = [point EXCEPT ![r] = "failed"]
    /\ UNCHANGED <<retry, createdAt, batch, delivered, shared, crashes>>

\* Mutant: giving up one failure late.
GiveUpLate(n) == n > MaxRetry
GiveUp(n) == n >= MaxRetry

\* Mutant: the failure is not counted.
UncountedFailure(r) == Current(r).retry
FailureCount(r) == Current(r).retry + 1

\* The catch block: the count comes from the row as the batch read it.
RecordFailure(r) ==
    LET e == Current(r).id
        n == FailureCount(r)
    IN  /\ point[r] = "failed"
        /\ retry' = [retry EXCEPT ![e] = n]
        /\ status' = [status EXCEPT ![e] =
                        IF GiveUp(n) THEN "FAILED" ELSE "PENDING"]
        /\ NextRow(r)
        /\ UNCHANGED <<createdAt, delivered, shared, crashes>>

\* The UPDATE of the catch block fails as well: .catch(() => {}).
LoseFailure(r) ==
    /\ point[r] = "failed"
    /\ NextRow(r)
    /\ UNCHANGED <<status, retry, createdAt, delivered, shared, crashes>>

\* The process stops; rows stay as the last committed UPDATE left them.
Crash ==
    /\ crashes < MaxCrash
    /\ \E r \in Poller : point[r] # "idle"
    /\ crashes' = crashes + 1
    /\ batch' = [r \in Poller |-> << >>]
    /\ point' = [r \in Poller |-> "idle"]
    /\ UNCHANGED <<status, retry, createdAt, delivered, shared>>

-----------------------------------------------------------------------------
Step(r) == Poll(r) \/ Claim(r) \/ Handle(r) \/ Finish(r) \/ RecordFailure(r)

ObNext ==
    \/ \E e \in Event : Enqueue(e)
    \/ \E r \in Poller : Step(r) \/ UpdateError(r) \/ LoseFailure(r)
    \/ Crash

ObSpec == ObInit /\ [][ObNext]_obVars

\* The timer keeps firing and an answered query lets the loop go on; nothing
\* obliges an error, a lost failure record or a crash to happen. The database
\* does not refuse the same UPDATE for ever (strong fairness of Claim).
ObFair(r) == WF_obVars(Step(r)) /\ SF_obVars(Claim(r))
ObFairness == \A r \in Poller : ObFair(r)
ObFairSpec == ObSpec /\ ObFairness

-----------------------------------------------------------------------------
ObTypeOK ==
    /\ status \in [Event -> RowStatus]
    /\ retry \in [Event -> Nat]
    /\ createdAt \in [Event -> Nat]
    /\ batch \in [Poller -> Seq([id : Event, retry : Nat])]
    /\ \A r \in Poller : point[r] # "idle" => batch[r] # << >>
    /\ point \in [Poller -> {"idle", "claim", "handle", "finish", "failed"}]
    /\ delivered \in [Event -> Nat]
    /\ shared \subseteq Event
    /\ crashes \in Nat

\* A row is marked DONE only after its broadcast: whatever errors, crashes
\* and overlapping calls do, no event is written off undelivered.
DoneWasDelivered == \A e \in Event : status[e] = "DONE" => delivered[e] > 0

\* An event is broadcast at most MaxRetry times, whatever updates fail, unless
\* two calls had it in hand at once: each then writes a RetryCount it counted
\* from its own batch, over what the other one has counted meanwhile.
DeliveriesBounded == \A e \in Event \ shared : delivered[e] <= MaxRetry

\* The header of outbox.js, "retry (at most 5 times -> FAILED)", of all events.
RetriesBounded == \A e \in Event : delivered[e] <= MaxRetry

\* The retries of an event end: from some point on it is never due again.
QueueDrains == \A e \in Event : <>[](status[e] # "PENDING")
=============================================================================
