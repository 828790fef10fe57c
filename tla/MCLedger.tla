------------------------------ MODULE MCLedger ------------------------------
(* One module of constants for the runs of BillingLedger.                  *)
EXTENDS BillingLedger, TLC

CONSTANTS k1, e1, e2, i1, i2

OneKey == [e \in Events |-> k1]

(* Both requests on one instance, or each on its own.                      *)
SameHome == [e \in Events |-> i1]
OwnHome  == [e \in Events |-> IF e = e1 THEN i1 ELSE i2]

(* The requests of SameHome are interchangeable.                           *)
Requests == Permutations({e1, e2})
=============================================================================
