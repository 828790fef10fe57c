------------------------------ MODULE MCRouting ------------------------------
(* Constants and bounds for the runs of RoutingCache.                      *)
EXTENDS RoutingCache, TLC

CONSTANTS m1, m2, w1

Symmetry == Permutations(Models)

Engaged ==
  {m \in Models : pc[m] # "idle" \/ cache[m] # None \/ flight[m] # None \/ assembled[m] # None}

(* Writes, events and health updates against the load of one list, for a   *)
(* short time.                                                             *)
Busy == clock <= 2 /\ Cardinality(Engaged) <= 1

ReadAtStart(value) == value.readAt = 0

(* One reading of the accounts, followed for a long time through the loads *)
(* of all lists: nobody writes, the queries for the accounts that come     *)
(* after it get no answer, and those for an overlay take no time.          *)
Long ==
  /\ dbHealth = 0 /\ \A l \in Layers : db[l] = 0
  /\ cache[Base] # None => ReadAtStart(cache[Base].value)
  /\ flight[Base] # None /\ flight[Base].value # None => ReadAtStart(flight[Base].value)
  /\ \A m \in Models : flight[m] # None => flight[m].at = clock

Bounds == Busy \/ Long
=============================================================================
