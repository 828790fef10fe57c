---------------------------- MODULE BillingStore ----------------------------
(***************************************************************************)
(* The relational half of client-key billing: the columns billed_usage,    *)
(* reserved_usage and billing_limit of client_keys, the rows of            *)
(* billing_reservations and of request_audits, and the transactions of     *)
(* client_key_repository.go and audit_repository.go on them.               *)
(*                                                                         *)
(* A transaction is one step.  SQLite runs with _txlock=immediate; on      *)
(* PostgreSQL every transaction below takes the row lock of the client key *)
(* before it reads or writes that key's reservations, so transactions on   *)
(* one key are serialised and transactions on different keys commute.      *)
(* Instants are a small integer clock and ticks of money a natural number  *)
(* saturating at MaxTicks, the MaxInt64 of the code.                       *)
(***************************************************************************)
EXTENDS Integers, FiniteSets, FiniteSetsExt

CONSTANTS
  Keys,            (* client keys                                          *)
  Events,          (* audit event ids, one per request                     *)
  KeyOf,           (* the client key an event is billed to                 *)
  Ttl,             (* lifetime of a reservation                            *)
  MaxTicks,        (* the saturation point of billed_usage_usd_ticks       *)
  NoReservation    (* value of reservation[e] when e has no row            *)

ASSUME StoreAssumption ==
  /\ KeyOf \in [Events -> Keys]
  /\ Ttl \in Nat \ {0}
  /\ MaxTicks \in Nat
  /\ NoReservation \notin [amount : Nat, expiresAt : Nat]

ASSUME EventsAssumption == IsFiniteSet(Events)

VARIABLES
  liveKeys,        (* client_keys rows that exist                          *)
  limit,           (* billing_limit_usd_ticks, 0 for no limit              *)
  billed,          (* billed_usage_usd_ticks                               *)
  reserved,        (* reserved_usage_usd_ticks                             *)
  reservation,     (* the billing_reservations row of an event             *)
  audits,          (* events with a request_audits row                     *)
  clock            (* the wall clock                                       *)

storeVars == <<liveKeys, limit, billed, reserved, reservation, audits, clock>>

-----------------------------------------------------------------------------
(* Rows and sums.                                                          *)

Holds(e) == reservation[e] # NoReservation

Held(k) == {e \in Events : Holds(e) /\ KeyOf[e] = k}

ExpiredBy(cutoff) == {e \in Events : Holds(e) /\ reservation[e].expiresAt <= cutoff}

SumOf(f, S) == MapThenSumSet(LAMBDA e : f[e], S)

AmountOf(S) == SumOf([e \in S |-> reservation[e].amount], S)

(* decrementReservedUsage and settleReservedBilling never go below zero.   *)
Less(x, n) == IF x <= n THEN 0 ELSE x - n

(* billed_usage_usd_ticks + n, saturating.                                 *)
AddTicks(x, n) == IF x > MaxTicks - n THEN MaxTicks ELSE x + n

WithoutRows(S) == [e \in Events |-> IF e \in S THEN NoReservation ELSE reservation[e]]

-----------------------------------------------------------------------------
(* ReserveBillingUsage.                                                    *)

(* Slip: the open reservations are not subtracted.                         *)
RemainingIgnoringReserved(k, r) ==
  IF billed[k] >= limit[k] THEN 0 ELSE limit[k] - billed[k]

(* What a key can still reserve when it already reserves r.                *)
Remaining(k, r) ==
  IF billed[k] >= limit[k] \/ r >= limit[k] - billed[k]
    THEN 0
    ELSE limit[k] - billed[k] - r

(* The condition of the UPDATE in reserveBillingCapacity.                  *)
HasCapacity(k, amount, r) ==
  /\ k \in liveKeys
  /\ limit[k] > 0
  /\ amount <= Remaining(k, r)

(* Slip: rows are reclaimed before they expire.                            *)
ReclaimedEarly(e, amount) ==
  IF ~Holds(e) /\ HasCapacity(KeyOf[e], amount, reserved[KeyOf[e]])
    THEN {}
    ELSE Held(KeyOf[e])

(* The rows cleanupExpiredBillingReservations deletes inside the reserving *)
(* transaction: nothing when the first attempt finds capacity, else every  *)
(* expired row of the key, whoever holds it.                               *)
Reclaimed(e, amount) ==
  IF ~Holds(e) /\ HasCapacity(KeyOf[e], amount, reserved[KeyOf[e]])
    THEN {}
    ELSE Held(KeyOf[e]) \cap ExpiredBy(clock)

ReservedAfterReclaim(e, amount) ==
  Less(reserved[KeyOf[e]], AmountOf(Reclaimed(e, amount)))

CanReserve(e, amount) ==
  /\ Holds(e) => e \in ExpiredBy(clock)
  /\ HasCapacity(KeyOf[e], amount, ReservedAfterReclaim(e, amount))

(* The transaction commits with a new row.  A repeated call for a live row *)
(* of the same amount reports success and changes nothing; a refused one   *)
(* (another amount, no capacity, no key) rolls everything back.            *)
GrantReservation(e, amount) ==
  /\ CanReserve(e, amount)
  /\ reservation' = [WithoutRows(Reclaimed(e, amount)) EXCEPT
                       ![e] = [amount |-> amount, expiresAt |-> clock + Ttl]]
  /\ reserved' = [reserved EXCEPT
                       ![KeyOf[e]] = ReservedAfterReclaim(e, amount) + amount]
  /\ UNCHANGED <<liveKeys, limit, billed, audits, clock>>

-----------------------------------------------------------------------------
(* Slip: the rows are deleted and the sum is not reduced.                  *)
ReleaseWithoutSum(k, targets, cutoff) ==
  /\ k \in liveKeys
  /\ reservation' = WithoutRows(targets \cap Held(k) \cap ExpiredBy(cutoff))
  /\ UNCHANGED <<liveKeys, limit, billed, reserved, audits, clock>>

(* The per-key transaction of CleanupExpiredBillingReservations: the rows  *)
(* among the targets are read again under the key lock.                    *)
ReleaseExpired(k, targets, cutoff) ==
  LET rows == targets \cap Held(k) \cap ExpiredBy(cutoff)
  IN  /\ k \in liveKeys
      /\ reservation' = WithoutRows(rows)
      /\ reserved' = [reserved EXCEPT ![k] = Less(@, AmountOf(rows))]
      /\ UNCHANGED <<liveKeys, limit, billed, audits, clock>>

-----------------------------------------------------------------------------
(* CreateBatch: insert with ON CONFLICT DO NOTHING, then settle the rows   *)
(* that were really inserted.  The fast path (nothing or everything        *)
(* inserted) and the safe path (row by row after a mixed result) have the  *)
(* same effect.  cost[e] is auditBillingAmount of the record of e.         *)

(* Slip: a conflicting insert counts as an insert.                         *)
InsertedAgain(S) == S

Inserted(S) == S \ audits

(* Slip: a reservation that has expired is left to the cleaner.            *)
SettledUnexpired(S) == {e \in Inserted(S) : Holds(e) /\ clock < reservation[e].expiresAt}

Settled(S) == {e \in Inserted(S) : Holds(e)}

SettleBatch(S, cost) ==
  LET inserted == Inserted(S)
      settled  == Settled(S)
      ofKey(T, k) == {e \in T : KeyOf[e] = k}
  IN  /\ audits' = audits \cup inserted
      /\ reservation' = WithoutRows(settled)
      /\ reserved' = [k \in Keys |-> Less(reserved[k], AmountOf(ofKey(settled, k)))]
      /\ billed' = [k \in Keys |->
            IF k \in liveKeys
              THEN AddTicks(billed[k], SumOf(cost, ofKey(inserted, k)))
              ELSE billed[k]]
      /\ UNCHANGED <<liveKeys, limit, clock>>

-----------------------------------------------------------------------------
(* The administrator's operations that billing meets.                      *)

(* Update writes the limit and leaves both usage counters alone.           *)
UpdateLimit(k, value) ==
  /\ k \in liveKeys
  /\ limit[k] # value
  /\ limit' = [limit EXCEPT ![k] = value]
  /\ UNCHANGED <<liveKeys, billed, reserved, reservation, audits, clock>>

(* Delete cascades to the key's reservations; its audits stay.             *)
DeleteKey(k) ==
  /\ k \in liveKeys
  /\ liveKeys' = liveKeys \ {k}
  /\ reservation' = WithoutRows(Held(k))
  /\ billed' = [billed EXCEPT ![k] = 0]
  /\ reserved' = [reserved EXCEPT ![k] = 0]
  /\ UNCHANGED <<limit, audits, clock>>
=============================================================================
