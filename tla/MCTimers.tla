------------------------------ MODULE MCTimers ------------------------------
(***************************************************************************)
(* What the two timers promise, each under the fairness of its own module. *)
(* The outbox and the booking sync share no state, so one of them runs in  *)
(* a behaviour and the other one stays where it starts.  The outbox runs   *)
(* in two ways: one call of processOnce at a time over all the rows, and   *)
(* calls that overlap, as the interval lets them, over one row.  The load  *)
(* plan, which a run does not look at, stays as it is.                     *)
(***************************************************************************)
EXTENDS Outbox, Shipment

VARIABLE timer

tmVars == <<obVars, vars, timer>>

TmInit == ObInit /\ Init /\ timer \in {"rows", "calls", "sync"}

OneCall == CHOOSE r \in Poller : TRUE
OneRow == CHOOSE e \in Event : TRUE

TmNext ==
    \/ /\ timer = "rows" /\ ObNext /\ UNCHANGED <<vars, timer>>
       /\ \A r \in Poller \ {OneCall} : point'[r] = "idle"
    \/ /\ timer = "calls" /\ ObNext /\ UNCHANGED <<vars, timer>>
       /\ \A e \in Event \ {OneRow} : status'[e] = "NONE"
    \/ timer = "sync" /\ Next /\ UNCHANGED <<plan, obVars, timer>>

\* Each fairness is idle in the behaviours of the other timers, where none of
\* its steps is enabled.
TmSpec ==
    /\ TmInit /\ [][TmNext]_tmVars
    /\ ObFair(OneCall)
    /\ \A r \in Poller \ {OneCall} :
          /\ WF_obVars(timer = "calls" /\ Step(r))
          /\ SF_obVars(timer = "calls" /\ Claim(r))
    /\ Fairness
=============================================================================
