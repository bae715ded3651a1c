---------------------------- MODULE MCQuotation ----------------------------
(***************************************************************************)
(* A small instance of Quotation: a draft and a native booking, two        *)
(* quotations that may name the same of them, two handlers that overlap.   *)
(* Or, in other behaviours, a draft and a booking with the same number and *)
(* one quotation.                                                          *)
(***************************************************************************)
EXTENDS Quotation, TLC

CONSTANTS o1, n1, o2, n2, x1

Twins == {<<n2, o2>>}

VARIABLE scope

ScopedInit ==
    /\ QtInit
    /\ scope \in {[orders |-> {o1, n1}, quotes |-> Quote],
                  [orders |-> {o2, n2}, quotes |-> {x1}]}

ScopedSpec ==
    ScopedInit /\ [][Steps(scope.orders, scope.quotes) /\ UNCHANGED scope]_<<qtVars, scope>>

Symmetry == Permutations(Quote) \cup Permutations(Handler)
=============================================================================
