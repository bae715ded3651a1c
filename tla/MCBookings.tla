----------------------------- MODULE MCBookings -----------------------------
(***************************************************************************)
(* The confirmation of drafts and trips, and the requests to change a      *)
(* booking afterwards.  They share no state as they are modelled, so a     *)
(* behaviour moves one of them while the other stays in one initial state: *)
(* their states add up and do not multiply.  Two requests, two calls and   *)
(* two users are enough for two open requests of one booking, and for a    *)
(* call that ends what another is still working on.                        *)
(***************************************************************************)
EXTENDS Confirmation, EditRequests, TLC

VARIABLE part

bkVars == <<vars, edVars, part>>

\* A reason that holds the truck, and the same one switched off.
MCRule == [active : BOOLEAN, hold : {TRUE}, stages : {{"CONFIRMED", "LOADING"}}]

BkInit ==
    /\ Init /\ EdInit
    /\ part \in {"drafts", "requests"}
    /\ part = "drafts" => \A c \in Reason : ~ reasons[c].active

BkNext ==
    \/ part = "drafts" /\ Next /\ UNCHANGED <<edVars, part>>
    \/ part = "requests" /\ EdNext /\ UNCHANGED <<vars, part>>

BkSpec == BkInit /\ [][BkNext]_bkVars

\* The requests of a confirmation are interchangeable, and so are the trips; the
\* drafts are not, because their locks are ordered.  The requests to change
\* a booking have the values of the requests, the calls that handle these those
\* of the trips, so that one permutation serves both.
Symmetry == Permutations(Request) \cup Permutations(Trip) \cup Permutations(User)
=============================================================================
