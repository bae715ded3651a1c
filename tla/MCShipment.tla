----------------------------- MODULE MCShipment -----------------------------
(***************************************************************************)
(* Two ways of a booking out of the yard: the shipment that this server    *)
(* writes itself, and the chain of WinSpeed's documents for bookings with  *)
(* an AI number.  A behaviour moves one of them while the other stays as   *)
(* it starts, so that their states add up and do not multiply.  For the    *)
(* same reason the server runs either with failures or beside an invoice   *)
(* made in WinSpeed, and the chain either beside changes in WinSpeed and   *)
(* in the date, or, with one request of each kind, beside what the rest of *)
(* the application writes.  The proofs have no such split.                 *)
(***************************************************************************)
EXTENDS Shipment, NativeChain, TLC

VARIABLE way

shVars == <<vars, ncVars, way>>

ShInit == Init /\ NcInit /\ way \in {"server", "invoice", "chain", "own"}

Single(table) == Cardinality({t \in Ticket : table[t] # None}) <= 1

ShNext ==
    \/ way = "server" /\ Next /\ UNCHANGED <<invoiced, ncVars, way>>
    \/ way = "invoice" /\ Next /\ UNCHANGED <<failures, ncVars, way>>
    \/ way = "chain" /\ NcNext /\ UNCHANGED <<own, vars, way>>
    \/ way = "own" /\ NcNext /\ UNCHANGED <<day, vars, way>>
       /\ Untouched' /\ Single(credit') /\ Single(cut')

ShSpec == ShInit /\ [][ShNext]_shVars

\* The requests the server handles are interchangeable, and so are the ids of
\* the requests for native documents: they have the same values here.
Symmetry == Permutations(Desk)
=============================================================================
