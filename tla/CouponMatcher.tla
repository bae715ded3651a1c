--------------------------- MODULE CouponMatcher ---------------------------
(***************************************************************************)
(* matchCutsToReservations (services/coupon-settlement-matcher.js): the    *)
(* loop that decides which reservation of a coupon each native cut belongs *)
(* to, by the plate of the truck and the dates.  One step is one turn of   *)
(* the loop; the initial states are the rows the two queries may return.   *)
(***************************************************************************)
EXTENDS Naturals, FiniteSets, Sequences, Functions

CONSTANTS
    Rsv,        \* Ids of the reservations: numbers, they break ties
    Plate,      \* plates of trucks
    NoPlate,    \* a row that names no plate
    MaxDay,     \* bound: business days, counted from 1
    MaxTons,    \* bound: tons of a reservation or a cut
    MaxCuts,    \* bound: rows of the second query
    GoLive      \* COUPON_GOLIVE_CUTOFF_DATE

ASSUME MatcherAssumption ==
    /\ Rsv \subseteq Nat /\ IsFiniteSet(Rsv)
    /\ NoPlate \notin Plate
    /\ {MaxDay, MaxTons, MaxCuts, GoLive} \subseteq Nat

VARIABLES
    plate, confirmDate,     \* of the reservations: their truck, and the day
                            \* of the carrier bill's confirm
    remaining,              \* resWorking[].remainingReservedQty
    todo,                   \* sortedCuts still to visit
    done,                   \* the cuts visited
    matches,                \* [res, cut, qty, before], before being what
                            \* the reservation had left
    ambiguous               \* cuts listed and not settled

mtVars == <<plate, confirmDate, remaining, todo, done, matches, ambiguous>>

Id == 1..MaxCuts
Day == 1..MaxDay
CutRow == [plate : Plate \cup {NoPlate}, day : Day, qty : 1..MaxTons]

\* Mutant: the cuts are taken as the query returns them.
AsRead(rows, order) == \A i \in Id : order[i] = i
\* The stable sort by date: the i-th cut visited is the row order[i].
ByDate(rows, order) ==
    \A i, j \in Id : i < j =>
        \/ rows[order[i]].day < rows[order[j]].day
        \/ rows[order[i]].day = rows[order[j]].day /\ order[i] < order[j]

CutOf(rows, i) == [id |-> i, plate |-> rows[i].plate, day |-> rows[i].day,
                   qty |-> rows[i].qty]

MtInit ==
    /\ plate \in [Rsv -> Plate \cup {NoPlate}]
    /\ confirmDate \in [Rsv -> Day]
    /\ remaining \in [Rsv -> 1..MaxTons]
    /\ \E order \in Bijection(Id, Id), rows \in [Id -> CutRow] :
          /\ ByDate(rows, order)
          /\ todo = [i \in Id |-> CutOf(rows, order[i])]
    /\ done = {}
    /\ matches = {}
    /\ ambiguous = {}

-----------------------------------------------------------------------------
\* Mutant: a used-up reservation is still a candidate.
HasTonsOrNot(r) == TRUE
HasTons(r) == remaining[r] > 0

\* Rules 1 to 4: never on the quantity alone.
Candidates(c) ==
    {r \in Rsv : /\ c.plate # NoPlate
                 /\ c.day >= GoLive
                 /\ HasTons(r)
                 /\ plate[r] = c.plate
                 /\ c.day >= confirmDate[r]}

Exact(c) == {r \in Candidates(c) : remaining[r] = c.qty}

Earlier(r, s) ==
    \/ confirmDate[r] < confirmDate[s]
    \/ confirmDate[r] = confirmDate[s] /\ r < s

First(S) == CHOOSE r \in S : \A s \in S \ {r} : Earlier(r, s)

\* The reservation a cut goes to: the only candidate; else the first of
\* those it fits exactly; else the first of all.
Chosen(c) == IF Cardinality(Candidates(c)) > 1 /\ Exact(c) # {}
             THEN First(Exact(c)) ELSE First(Candidates(c))

\* Several candidates, none exact, and the cut does not fit the first.
Ambiguous(c) ==
    /\ Cardinality(Candidates(c)) > 1
    /\ Exact(c) = {}
    /\ c.qty > remaining[First(Candidates(c))]

MatchedQty(r, c) == IF remaining[r] < c.qty THEN remaining[r] ELSE c.qty

\* Mutant: the working copy keeps the tons the match took.
LeftUntouched(r, q) == remaining
LeftAfter(r, q) == [remaining EXCEPT ![r] = @ - q]

Visit(c) ==
    /\ todo' = Tail(todo)
    /\ done' = done \cup {c}
    /\ UNCHANGED <<plate, confirmDate>>

Apply(c) ==
    /\ Candidates(c) # {}
    /\ ~Ambiguous(c)
    /\ LET r == Chosen(c)
           q == MatchedQty(r, c)
       IN /\ remaining' = LeftAfter(r, q)
          /\ matches' = matches \cup
                {[res |-> r, cut |-> c, qty |-> q, before |-> remaining[r]]}
    /\ UNCHANGED ambiguous

ListAmbiguous(c) ==
    /\ Ambiguous(c)
    /\ ambiguous' = ambiguous \cup {c}
    /\ UNCHANGED <<remaining, matches>>

LeaveUnmatched(c) ==
    /\ Candidates(c) = {}
    /\ UNCHANGED <<remaining, matches, ambiguous>>

MtNext ==
    /\ todo # << >>
    /\ LET c == Head(todo)
       IN /\ Visit(c)
          /\ Apply(c) \/ ListAmbiguous(c) \/ LeaveUnmatched(c)

MtSpec == MtInit /\ [][MtNext]_mtVars

-----------------------------------------------------------------------------
Row == [id : Id, plate : Plate \cup {NoPlate}, day : Day, qty : 1..MaxTons]

\* The working copies and the lists the loop builds keep their types.
MtTypeOK ==
    /\ plate \in [Rsv -> Plate \cup {NoPlate}]
    /\ confirmDate \in [Rsv -> Day]
    /\ remaining \in [Rsv -> 0..MaxTons]
    /\ todo \in Seq(Row)
    /\ done \subseteq Row
    /\ matches \subseteq [res : Rsv, cut : Row, qty : 1..MaxTons, before : 1..MaxTons]
    /\ ambiguous \subseteq done

UsedCuts == {m.cut : m \in matches}

\* An older cut of the same truck is never passed over for a newer one: if a
\* newer cut went to a reservation the older one could have gone to, the
\* older one was matched or listed as ambiguous (the comment "oldest cuts
\* match first" above the sort).  Of two cuts of one day it says nothing: they
\* come as a query without ORDER BY returned them.
OldestCutFirst ==
    \A m \in matches : \A c \in done :
        /\ c.plate = m.cut.plate
        /\ GoLive <= c.day /\ confirmDate[m.res] <= c.day
        /\ c.day < m.cut.day
        => c \in UsedCuts \cup ambiguous

AllCuts == done \cup Range(todo)

\* The tons of each cut that no match used.
Uncut ==
    [i \in Id |-> IF \E m \in matches : m.cut.id = i THEN 0
                  ELSE (CHOOSE c \in AllCuts : c.id = i).qty]

Abstract == INSTANCE CutMatching WITH
    Res <- Rsv,
    Cut <- Id,
    left <- remaining,
    uncut <- Uncut

\* The loop implements the step the settlement is built on: each cut is used
\* once, for as much as it and its reservation have left.  That a cut of more
\* than its reservation holds is charged at all, for a part of its tons, is what
\* Math.min makes of it, against rule 5 of the file: see RuleFive.
ImplementsCutMatching == Abstract!Spec

\* Rule 5 of the file: "Cut quantity <= remaining reserved (supports partial
\* cuts)".  No cut is matched to a reservation that holds less.
RuleFive == \A m \in matches : m.cut.qty <= m.before
=============================================================================
