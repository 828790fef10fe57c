------------------------- MODULE BillingMoneyProofs -------------------------
(***************************************************************************)
(* Proofs about the sums of money of BillingLedger: what a key reserves,   *)
(* what it is billed, and that it stays within its budget, for every set   *)
(* of keys, requests and instances, every limit and every cost.            *)
(***************************************************************************)
EXTENDS BillingLedgerProofs, BillingSums

-----------------------------------------------------------------------------
(* Sums over the rows r of billing_reservations.                           *)

SumRows(r, S) == SumOf([e \in S |-> r[e].amount], S)

HeldIn(r, k) == {e \in Events : r[e] # NoReservation /\ KeyOf[e] = k}

Total(r, k) == SumRows(r, HeldIn(r, k))

(* Every row has an amount, and sums of them are natural numbers.          *)
LEMMA RowsAdd ==
  ASSUME NEW r \in [Events -> RowOrNone], NEW k, NEW S \in SUBSET HeldIn(r, k)
  PROVE  /\ IsFiniteSet(S)
         /\ \A e \in S : r[e].amount \in Nat
         /\ SumRows(r, S) \in Nat
<1>1. IsFiniteSet(S)
  <2>1. S \in SUBSET Events
    BY DEF HeldIn
  <2> QED BY <2>1, EventsAssumption, FS_Subset
<1>2. \A e \in S : r[e].amount \in Nat
  BY DEF HeldIn, RowOrNone
<1>3. \A e \in S : [x \in S |-> r[x].amount][e] \in Nat
  BY <1>2
<1> DEFINE f == [x \in S |-> r[x].amount]
<1> HIDE DEF f
<1>4. SumOf(f, S) \in Nat
  BY <1>1, <1>3, SumNat DEF f
<1> QED BY <1>1, <1>2, <1>4, Zenon DEF SumRows, f

(* Rows that are the same add up to the same.                              *)
LEMMA RowsSame ==
  ASSUME NEW r, NEW q, NEW S \in SUBSET Events, \A e \in S : q[e] = r[e]
  PROVE  SumRows(q, S) = SumRows(r, S)
<1>1. IsFiniteSet(S)
  BY EventsAssumption, FS_Subset
<1> DEFINE f == [e \in S |-> q[e].amount]
           g == [e \in S |-> r[e].amount]
<1>2. \A e \in S : f[e] = g[e]
  OBVIOUS
<1> HIDE DEF f, g
<1>3. SumOf(f, S) = SumOf(g, S)
  BY <1>1, <1>2, SumSame
<1> QED BY <1>3, Zenon DEF SumRows, f, g

(* Some rows apart from the rest.                                          *)
LEMMA RowsSplit ==
  ASSUME NEW r \in [Events -> RowOrNone], NEW k, NEW R \in SUBSET HeldIn(r, k)
  PROVE  /\ Total(r, k) = SumRows(r, R) + SumRows(r, HeldIn(r, k) \ R)
         /\ SumRows(r, HeldIn(r, k) \ R) = Less(Total(r, k), SumRows(r, R))
<1> DEFINE H == HeldIn(r, k)
           Q == H \ R
           f == [e \in H |-> r[e].amount]
<1>1. /\ H \in SUBSET HeldIn(r, k) /\ Q \in SUBSET HeldIn(r, k)
      /\ R \cup Q = H /\ R \cap Q = {}
  OBVIOUS
<1>2. /\ IsFiniteSet(R) /\ IsFiniteSet(Q)
      /\ \A e \in R \cup Q : f[e] \in Nat
  BY <1>1, RowsAdd
<1>3. SumRows(r, R) \in Nat /\ SumRows(r, Q) \in Nat
  BY <1>1, RowsAdd
<1>4. SumOf(f, R) = SumRows(r, R)
  <2> DEFINE g == [e \in R |-> r[e].amount]
  <2>1. \A e \in R : f[e] = g[e]
    OBVIOUS
  <2> HIDE DEF f, g
  <2>2. SumOf(f, R) = SumOf(g, R)
    BY <1>2, <2>1, SumSame
  <2> QED BY <2>2, Zenon DEF g, SumRows
<1>5. SumOf(f, Q) = SumRows(r, Q)
  <2> DEFINE g == [e \in Q |-> r[e].amount]
  <2>1. \A e \in Q : f[e] = g[e]
    OBVIOUS
  <2> HIDE DEF f, g, Q
  <2>2. SumOf(f, Q) = SumOf(g, Q)
    BY <1>2, <2>1, SumSame
  <2> QED BY <2>2, Zenon DEF g, SumRows
<1>6. SumOf(f, H) = Total(r, k)
  BY Zenon DEF Total, SumRows
<1> HIDE DEF H, Q, f
<1>7. SumOf(f, R \cup Q) = SumOf(f, R) + SumOf(f, Q)
  BY <1>1, <1>2, SumDisjoint
<1>8. Total(r, k) = SumRows(r, R) + SumRows(r, Q)
  BY <1>1, <1>4, <1>5, <1>6, <1>7
<1>9. SumRows(r, Q) = Less(Total(r, k), SumRows(r, R))
  <2> DEFINE a == SumRows(r, R)
             b == SumRows(r, Q)
             t == Total(r, k)
  <2>1. a \in Nat /\ b \in Nat /\ t = a + b
    BY <1>3, <1>8
  <2> HIDE DEF a, b, t
  <2>2. b = Less(t, a)
    BY <2>1 DEF Less
  <2> QED BY <2>2, Zenon DEF a, b, t
<1> QED BY <1>8, <1>9, Zenon DEF H, Q

(* Rows of one key go: its total is less by their sum.                     *)
LEMMA RowsGo ==
  ASSUME NEW r \in [Events -> RowOrNone], NEW q, NEW k, NEW R \in SUBSET HeldIn(r, k),
         \A e \in R : q[e] = NoReservation,
         \A e \in Events \ R : KeyOf[e] = k => q[e] = r[e]
  PROVE  Total(q, k) = Less(Total(r, k), SumRows(r, R))
<1> DEFINE Q == HeldIn(r, k) \ R
<1>1. HeldIn(q, k) = Q
  BY DEF HeldIn
<1>2. Q \in SUBSET Events /\ \A e \in Q : q[e] = r[e]
  BY DEF HeldIn
<1> HIDE DEF Q
<1>3. SumRows(q, Q) = SumRows(r, Q)
  BY <1>2, RowsSame
<1>4. SumRows(r, Q) = Less(Total(r, k), SumRows(r, R))
  BY RowsSplit DEF Q
<1> QED BY <1>1, <1>3, <1>4, Zenon DEF Total

(* Rows of one key go and one comes.                                       *)
LEMMA RowsComeAndGo ==
  ASSUME NEW r \in [Events -> RowOrNone], NEW q, NEW k, NEW R \in SUBSET HeldIn(r, k),
         NEW e \in Events, KeyOf[e] = k, e \notin HeldIn(r, k) \ R,
         q[e] # NoReservation, q[e].amount \in Nat,
         \A x \in R \ {e} : q[x] = NoReservation,
         \A x \in Events \ (R \cup {e}) : KeyOf[x] = k => q[x] = r[x]
  PROVE  Total(q, k) = Less(Total(r, k), SumRows(r, R)) + q[e].amount
<1> DEFINE Q == HeldIn(r, k) \ R
           P == Q \cup {e}
           f == [x \in P |-> q[x].amount]
<1>1. HeldIn(q, k) = P
  BY DEF HeldIn
<1>2. /\ Q \in SUBSET Events /\ Q \in SUBSET HeldIn(r, k)
      /\ \A x \in Q : q[x] = r[x]
      /\ P \ {e} = Q /\ e \in P
  BY DEF HeldIn
<1>3. IsFiniteSet(P) /\ IsFiniteSet(Q)
  <2>1. P \in SUBSET Events /\ Q \in SUBSET Events
    BY <1>2
  <2> QED BY <2>1, EventsAssumption, FS_Subset
<1>4. \A x \in P : f[x] \in Nat
  <2>1. \A x \in Q : r[x].amount \in Nat
    BY <1>2, RowsAdd
  <2>2. ASSUME NEW x \in P PROVE q[x].amount \in Nat
    BY <1>2, <2>1
  <2> QED BY <2>2
<1>5. SumOf(f, Q) = SumRows(r, Q)
  <2> DEFINE g == [x \in Q |-> r[x].amount]
  <2>1. \A x \in Q : f[x] = g[x]
    BY <1>2
  <2> HIDE DEF f, g, P, Q
  <2>2. SumOf(f, Q) = SumOf(g, Q)
    BY <1>3, <2>1, SumSame
  <2> QED BY <2>2, Zenon DEF g, SumRows
<1>6. f[e] = q[e].amount
  OBVIOUS
<1>7. SumOf(f, P) = Total(q, k)
  BY <1>1, Zenon DEF Total, SumRows
<1>8. SumRows(r, Q) = Less(Total(r, k), SumRows(r, R))
  BY RowsSplit
<1>9. SumRows(r, Q) \in Nat
  BY <1>2, RowsAdd
<1> HIDE DEF P, Q, f
<1>10. SumOf(f, P) = f[e] + SumOf(f, P \ {e})
  BY <1>2, <1>3, <1>4, SumTakeOut
<1> DEFINE a == q[e].amount
           b == SumRows(r, Q)
<1>11. Total(q, k) = a + b
  BY <1>2, <1>5, <1>6, <1>7, <1>10, Zenon
<1>12. a \in Nat /\ b \in Nat
  BY <1>9
<1> HIDE DEF a, b
<1>13. a + b = b + a
  BY <1>12
<1> QED BY <1>8, <1>11, <1>13, Zenon DEF a, b

-----------------------------------------------------------------------------
(* The steps that move money.                                              *)

(* The total of a key by its rows is what the code adds up for it.         *)
LEMMA HeldTotal ==
  ASSUME NEW k
  PROVE  /\ Held(k) = HeldIn(reservation, k)
         /\ AmountOf(Held(k)) = Total(reservation, k)
         /\ AmountOf(Held(k))' = Total(reservation', k)
  BY Zenon DEF Held, HeldIn, Holds, AmountOf, Total, SumRows

RowsStill == UNCHANGED <<liveKeys, limit, billed, reserved, reservation, audits>>

(* A request finishes, and its cost is known.                              *)
CostKnown(e) ==
  /\ e \notin audits
  /\ \E cost \in Costs, valid \in Validity :
       record' = [record EXCEPT ![e] = [cost |-> cost, valid |-> valid]]
  /\ RowsStill
  /\ UNCHANGED backing

(* A batch is settled, and what each record is settled against is noted.   *)
Settling(S) ==
  /\ SettleBatch(S, CostOf)
  /\ backing' = [e \in Events |->
       IF e \in Inserted(S) /\ Holds(e) THEN reservation[e].amount ELSE backing[e]]
  /\ UNCHANGED record

(* Every step is one of these, as far as money is concerned.               *)
MoneyStep ==
  \/ RowsStill /\ UNCHANGED <<record, backing>>
  \/ \E e \in Events : CostKnown(e)
  \/ /\ \E e \in Events : \E amount \in Estimates : GrantReservation(e, amount)
     /\ UNCHANGED <<record, backing>>
  \/ \E S \in SUBSET Events : Settling(S)
  \/ /\ \E k \in Keys : \E S \in SUBSET Events : \E cutoff \in Nat : ReleaseExpired(k, S, cutoff)
     /\ UNCHANGED <<record, backing>>
  \/ /\ \E k \in Keys : \E value \in Limits : UpdateLimit(k, value)
     /\ UNCHANGED <<record, backing>>
  \/ /\ \E k \in Keys : DeleteKey(k)
     /\ UNCHANGED <<record, backing>>

(* A step of a request.                                                    *)
LEMMA RequestMoney ==
  ASSUME StructureOK, RecordInv, NEW e \in Events, Request(e)
  PROVE  MoneyStep
<1> USE DEF MoneyStep, RowsStill, storeVars, writerVars, processVars, requestVars
<1>1. CASE Admit(e)
  BY <1>1 DEF Admit
<1>2. CASE RefuseNotReady(e)
  BY <1>2 DEF RefuseNotReady
<1>3. CASE ReserveGranted(e)
  BY <1>3 DEF ReserveGranted
<1>4. CASE ReserveUnknown(e)
  BY <1>4 DEF ReserveUnknown
<1>5. CASE ReserveDenied(e)
  BY <1>5 DEF ReserveDenied
<1>6. CASE ReserveSkipped(e)
  BY <1>6 DEF ReserveSkipped
<1>7. CASE MarkActive(e)
  BY <1>7 DEF MarkActive
<1>8. CASE Finish(e)
  <2>1. e \notin audits
    BY <1>8 DEF Finish, RecordInv, UnrecordedIsUnstored, Unrecorded
  <2>2. CostKnown(e)
    BY <1>8, <2>1 DEF Finish, CostKnown
  <2> QED BY <2>2
<1>9. CASE Enqueue(e)
  BY <1>9 DEF Enqueue
<1>10. CASE WaitForSpace(e)
  BY <1>10 DEF WaitForSpace
<1>11. CASE DropWaiting(e)
  BY <1>11 DEF DropWaiting
<1>12. CASE TurnedAway(e)
  BY <1>12 DEF TurnedAway
<1>13. CASE BudgetSpent(e)
  BY <1>13 DEF BudgetSpent
<1>14. CASE AckTimeout(e)
  BY <1>14 DEF AckTimeout
<1> QED BY <1>1, <1>2, <1>3, <1>4, <1>5, <1>6, <1>7, <1>8, <1>9, <1>10, <1>11, <1>12,
     <1>13, <1>14 DEF Request

(* A step of a writer.                                                     *)
LEMMA WriterMoney ==
  ASSUME StructureOK, NEW i \in Instances, Writer(i)
  PROVE  MoneyStep
<1> USE DEF MoneyStep, RowsStill, storeVars, writerVars, processVars, requestVars
<1>1. CASE TakeRecord(i)
  BY <1>1 DEF TakeRecord
<1>2. CASE Flush(i)
  BY <1>2 DEF Flush
<1>3. CASE RejectRecord(i)
  BY <1>3 DEF RejectRecord
<1>4. CASE CommitBatch(i) \/ CommitUnknown(i)
  <2>1. batch[i] \in SUBSET Events
    BY DEF StructureOK
  <2>2. Settling(batch[i])
    BY <1>4 DEF CommitBatch, CommitUnknown, SettlePending, Settling
  <2> QED BY <2>1, <2>2
<1>5. CASE NotifyCommitted(i)
  BY <1>5 DEF NotifyCommitted
<1>6. CASE Close(i)
  BY <1>6 DEF Close
<1>7. CASE WriterDone(i)
  BY <1>7 DEF WriterDone
<1> QED BY <1>1, <1>2, <1>3, <1>4, <1>5, <1>6, <1>7 DEF Writer

(* A step of a cleaner.                                                    *)
LEMMA CleanerMoney ==
  ASSUME StructureOK, NEW i \in Instances, Cleaner(i)
  PROVE  MoneyStep
<1> USE DEF MoneyStep, RowsStill, storeVars, writerVars, processVars, requestVars
<1>1. CASE SnapshotProtected(i)
  BY <1>1 DEF SnapshotProtected
<1>2. CASE ScanExpired(i)
  BY <1>2 DEF ScanExpired
<1>3. CASE ReleaseTargets(i)
  <2>1. cleanup[i].targets \in SUBSET Events /\ cleanup[i].cutoff \in Nat
    BY DEF StructureOK, Cleanup
  <2>2. \E k \in Keys : ReleaseExpired(k, cleanup[i].targets, cleanup[i].cutoff)
    BY <1>3 DEF ReleaseTargets
  <2> QED BY <1>3, <2>1, <2>2 DEF ReleaseTargets
<1>4. CASE CleanupReturns(i)
  BY <1>4 DEF CleanupReturns
<1> QED BY <1>1, <1>2, <1>3, <1>4 DEF Cleaner

(* Any step.                                                               *)
LEMMA StepMoney ==
  ASSUME StructureOK, RecordInv, [Next]_vars
  PROVE  MoneyStep
<1> USE DEF MoneyStep, RowsStill, storeVars, writerVars, processVars, requestVars
<1>1. ASSUME NEW e \in Events, Request(e) PROVE MoneyStep
  BY <1>1, RequestMoney
<1>2. ASSUME NEW i \in Instances, Writer(i) PROVE MoneyStep
  BY <1>2, WriterMoney
<1>3. ASSUME NEW i \in Instances, Cleaner(i) PROVE MoneyStep
  BY <1>3, CleanerMoney
<1>4. ASSUME NEW i \in Instances, Process(i) PROVE MoneyStep
  BY <1>4 DEF Process, Crash, Restart
<1>5. ASSUME NEW k \in Keys, Administrator(k) PROVE MoneyStep
  BY <1>5 DEF Administrator, ChangeLimit, RemoveKey
<1>6. CASE Tick
  BY <1>6 DEF Tick
<1>7. CASE UNCHANGED vars
  BY <1>7 DEF vars
<1> QED BY <1>1, <1>2, <1>3, <1>4, <1>5, <1>6, <1>7 DEF Next

-----------------------------------------------------------------------------
(* What a key reserves.                                                    *)

(* The types of the sums, and what a record can have been settled against. *)
MoneyTypes ==
  /\ limit \in [Keys -> Limits]
  /\ billed \in [Keys -> 0..MaxTicks]
  /\ reserved \in [Keys -> Nat]
  /\ backing \in [Events -> Estimates \cup {0}]
  /\ \A e \in Events : Holds(e) => reservation[e].amount \in Estimates

(* A record that is not stored has not been settled.                       *)
UnsettledIsUnbacked == \A e \in Events \ audits : backing[e] = 0

ReservedInv == MoneyTypes /\ UnsettledIsUnbacked /\ ReservedMatchesRows

(* A granted reservation adds its amount, and what it reclaimed is gone.   *)
LEMMA GrantTotal ==
  ASSUME StructureOK, ReservedInv, NEW e \in Events, NEW amount \in Estimates,
         GrantReservation(e, amount)
  PROVE  /\ ReservedMatchesRows'
         /\ ReservedAfterReclaim(e, amount) \in Nat
<1> DEFINE k == KeyOf[e]
           R == Reclaimed(e, amount)
<1>1. /\ R \in SUBSET HeldIn(reservation, k)
      /\ e \notin HeldIn(reservation, k) \ R
      /\ k \in Keys
  BY StoreAssumption DEF Reclaimed, HeldIn, Held, Holds, ExpiredBy, GrantReservation, CanReserve
<1>2. /\ reservation'[e] = [amount |-> amount, expiresAt |-> clock + Ttl]
      /\ \A x \in R \ {e} : reservation'[x] = NoReservation
      /\ \A x \in Events \ (R \cup {e}) : reservation'[x] = reservation[x]
  <2>1. reservation' = [WithoutRows(R) EXCEPT
                          ![e] = [amount |-> amount, expiresAt |-> clock + Ttl]]
    BY DEF GrantReservation
  <2>2. R \in SUBSET Events
    BY <1>1 DEF HeldIn
  <2> HIDE DEF R
  <2> QED BY <2>1, <2>2 DEF WithoutRows
<1>3. amount \in Nat /\ clock + Ttl \in Nat
  BY StoreAssumption, LedgerAssumption DEF StructureOK
<1>4. reservation \in [Events -> RowOrNone] /\ reserved \in [Keys -> Nat]
  BY DEF StructureOK, ReservedInv, MoneyTypes
<1>5. reserved[k] = Total(reservation, k)
  BY <1>1, HeldTotal DEF ReservedInv, ReservedMatchesRows
<1>6. AmountOf(R) = SumRows(reservation, R)
  BY DEF AmountOf, SumRows
<1>7. ReservedAfterReclaim(e, amount) = Less(Total(reservation, k), SumRows(reservation, R))
  BY <1>5, <1>6 DEF ReservedAfterReclaim
<1>8. ReservedAfterReclaim(e, amount) \in Nat
  <2> DEFINE t == Total(reservation, k)
             a == SumRows(reservation, R)
  <2>1. t \in Nat
    BY <1>1, <1>4, <1>5
  <2>2. a \in Nat
    BY <1>1, <1>4, RowsAdd
  <2> HIDE DEF t, a
  <2>3. Less(t, a) \in Nat
    BY <2>1, <2>2 DEF Less
  <2> QED BY <2>3, <1>7 DEF t, a
<1> HIDE DEF k, R
<1>9. Total(reservation', k) = ReservedAfterReclaim(e, amount) + amount
  <2>1. /\ reservation'[e] # NoReservation
        /\ reservation'[e].amount \in Nat
        /\ reservation'[e].amount = amount
    BY <1>2, <1>3, StoreAssumption
  <2>2. Total(reservation', k) = Less(Total(reservation, k), SumRows(reservation, R))
                                   + reservation'[e].amount
    BY <1>1, <1>2, <1>4, <2>1, RowsComeAndGo DEF k
  <2> QED BY <1>7, <2>1, <2>2
<1>10. ASSUME NEW j \in Keys PROVE reserved'[j] = Total(reservation', j)
  <2>1. reserved' = [reserved EXCEPT ![k] = ReservedAfterReclaim(e, amount) + amount]
    BY DEF GrantReservation, k
  <2>2. CASE j = k
    BY <1>1, <1>4, <1>9, <2>1, <2>2
  <2>3. CASE j # k
    <3>1. reserved'[j] = reserved[j]
      BY <1>4, <2>1, <2>3
    <3>2. reserved[j] = Total(reservation, j)
      BY HeldTotal DEF ReservedInv, ReservedMatchesRows
    <3>3. HeldIn(reservation', j) = HeldIn(reservation, j)
      BY <1>1, <1>2, <2>3 DEF HeldIn, k
    <3>4. \A x \in HeldIn(reservation, j) : reservation'[x] = reservation[x]
      BY <1>1, <1>2, <2>3 DEF HeldIn, k
    <3>5. HeldIn(reservation, j) \in SUBSET Events
      BY DEF HeldIn
    <3>6. Total(reservation', j) = Total(reservation, j)
      BY <3>3, <3>4, <3>5, RowsSame DEF Total
    <3> QED BY <3>1, <3>2, <3>6
  <2> QED BY <2>2, <2>3
<1>11. ReservedMatchesRows'
  BY <1>10, HeldTotal DEF ReservedMatchesRows
<1> QED BY <1>8, <1>11

(* Rows that go take their sum with them, and leave other keys alone.      *)
LEMMA RemovedTotal ==
  ASSUME StructureOK, ReservedInv, NEW R \in SUBSET Events, \A e \in R : Holds(e),
         reservation' = WithoutRows(R), NEW k \in Keys
  PROVE  /\ OfKey(R, k) \in SUBSET HeldIn(reservation, k)
         /\ Total(reservation', k) = Less(reserved[k], AmountOf(OfKey(R, k)))
         /\ AmountOf(OfKey(R, k)) \in Nat
         /\ AmountOf(OfKey(R, k)) <= reserved[k]
<1> DEFINE P == OfKey(R, k)
<1>1. P \in SUBSET HeldIn(reservation, k)
  BY DEF OfKey, HeldIn, Holds
<1>2. /\ \A e \in P : reservation'[e] = NoReservation
      /\ \A e \in Events \ P : KeyOf[e] = k => reservation'[e] = reservation[e]
  BY DEF WithoutRows, OfKey
<1>3. reservation \in [Events -> RowOrNone] /\ reserved[k] \in Nat
  BY DEF StructureOK, ReservedInv, MoneyTypes
<1>4. reserved[k] = Total(reservation, k)
  BY HeldTotal DEF ReservedInv, ReservedMatchesRows
<1>5. AmountOf(P) = SumRows(reservation, P)
  BY DEF AmountOf, SumRows
<1> HIDE DEF P
<1>6. Total(reservation', k) = Less(Total(reservation, k), SumRows(reservation, P))
  BY <1>1, <1>2, <1>3, RowsGo
<1>7. SumRows(reservation, P) \in Nat
  BY <1>1, <1>3, RowsAdd
<1>8. SumRows(reservation, P) <= reserved[k]
  <2> DEFINE a == SumRows(reservation, P)
             b == SumRows(reservation, HeldIn(reservation, k) \ P)
             t == Total(reservation, k)
  <2>1. t = a + b
    BY <1>1, <1>3, RowsSplit
  <2>2. HeldIn(reservation, k) \ P \in SUBSET HeldIn(reservation, k)
    OBVIOUS
  <2>3. b \in Nat
    BY <1>3, <2>2, RowsAdd
  <2> HIDE DEF a, b, t
  <2>4. a \in Nat
    BY <1>7 DEF a
  <2>5. a <= t
    BY <2>1, <2>3, <2>4
  <2> QED BY <1>4, <2>5, Zenon DEF a, t
<1> QED BY <1>1, <1>4, <1>5, <1>6, <1>7, <1>8, Zenon DEF P

(* A settled batch takes the sums of its rows out of the keys it bills.    *)
LEMMA SettleTotal ==
  ASSUME StructureOK, ReservedInv, NEW S \in SUBSET Events, SettleBatch(S, CostOf)
  PROVE  ReservedMatchesRows'
<1>1. Settled(S) \in SUBSET Events /\ \A e \in Settled(S) : Holds(e)
  BY DEF Settled, Inserted
<1>2. reservation' = WithoutRows(Settled(S))
  BY DEF SettleBatch
<1>3. ASSUME NEW k \in Keys PROVE reserved'[k] = Total(reservation', k)
  <2>1. reserved'[k] = Less(reserved[k], AmountOf(OfKey(Settled(S), k)))
    BY DEF SettleBatch, OfKey
  <2> QED BY <1>1, <1>2, <2>1, RemovedTotal
<1> QED BY <1>3, HeldTotal DEF ReservedMatchesRows

(* A transaction of the cleaner takes the sum of the rows it deletes.      *)
LEMMA ReleaseTotal ==
  ASSUME StructureOK, ReservedInv, NEW k \in Keys, NEW S \in SUBSET Events, NEW cutoff \in Nat,
         ReleaseExpired(k, S, cutoff)
  PROVE  /\ ReservedMatchesRows'
         /\ \A j \in Keys : reserved'[j] \in Nat /\ reserved'[j] <= reserved[j]
<1> DEFINE R == S \cap Held(k) \cap ExpiredBy(cutoff)
<1>1. R \in SUBSET Events /\ \A e \in R : Holds(e) /\ KeyOf[e] = k
  BY DEF Held
<1>2. reservation' = WithoutRows(R) /\ reserved' = [reserved EXCEPT ![k] = Less(@, AmountOf(R))]
  BY DEF ReleaseExpired
<1>3. reserved \in [Keys -> Nat]
  BY DEF ReservedInv, MoneyTypes
<1> HIDE DEF R
<1>4. OfKey(R, k) = R
  BY <1>1 DEF OfKey
<1>5. ASSUME NEW j \in Keys
      PROVE  reserved'[j] = Total(reservation', j) /\ reserved'[j] \in Nat /\ reserved'[j] <= reserved[j]
  <2>1. /\ Total(reservation', j) = Less(reserved[j], AmountOf(OfKey(R, j)))
        /\ AmountOf(OfKey(R, j)) \in Nat
        /\ AmountOf(OfKey(R, j)) <= reserved[j]
    BY <1>1, <1>2, RemovedTotal
  <2>2. reserved[j] \in Nat
    BY <1>3
  <2>3. Total(reservation', j) \in Nat /\ Total(reservation', j) <= reserved[j]
    <3> DEFINE a == AmountOf(OfKey(R, j))
               x == reserved[j]
    <3>1. a \in Nat /\ x \in Nat /\ a <= x /\ Total(reservation', j) = Less(x, a)
      BY <2>1, <2>2
    <3> HIDE DEF a, x
    <3>2. Less(x, a) \in Nat /\ Less(x, a) <= x
      BY <3>1 DEF Less
    <3> QED BY <3>1, <3>2 DEF x
  <2>4. CASE j = k
    BY <1>2, <1>3, <1>4, <2>1, <2>3, <2>4
  <2>5. CASE j # k
    <3>1. OfKey(R, j) = {}
      BY <1>1, <2>5 DEF OfKey
    <3>2. AmountOf({}) = 0
      BY SumEmpty DEF AmountOf
    <3>3. Total(reservation', j) = reserved[j]
      BY <2>1, <2>2, <3>1, <3>2 DEF Less
    <3>4. reserved'[j] = reserved[j]
      BY <1>2, <1>3, <2>5
    <3> QED BY <2>2, <3>3, <3>4
  <2> QED BY <2>4, <2>5
<1> QED BY <1>5, HeldTotal DEF ReservedMatchesRows

(* A deleted key holds nothing and reserves nothing.                       *)
LEMMA DeleteTotal ==
  ASSUME StructureOK, ReservedInv, NEW k \in Keys, DeleteKey(k)
  PROVE  ReservedMatchesRows'
<1>1. Held(k) \in SUBSET Events /\ \A e \in Held(k) : Holds(e) /\ KeyOf[e] = k
  BY DEF Held
<1>2. reservation' = WithoutRows(Held(k)) /\ reserved' = [reserved EXCEPT ![k] = 0]
  BY DEF DeleteKey
<1>3. reserved \in [Keys -> Nat]
  BY DEF ReservedInv, MoneyTypes
<1>4. ASSUME NEW j \in Keys PROVE reserved'[j] = Total(reservation', j)
  <2>1. /\ Total(reservation', j) = Less(reserved[j], AmountOf(OfKey(Held(k), j)))
        /\ reserved[j] \in Nat
    BY <1>1, <1>2, <1>3, RemovedTotal
  <2>2. CASE j = k
    <3>1. OfKey(Held(k), j) = Held(k)
      BY <2>2 DEF OfKey, Held
    <3>2. AmountOf(Held(k)) = reserved[j]
      BY <2>2 DEF ReservedInv, ReservedMatchesRows
    <3>3. Total(reservation', j) = 0
      BY <2>1, <3>1, <3>2 DEF Less
    <3> QED BY <1>2, <1>3, <2>2, <3>3
  <2>3. CASE j # k
    <3>1. OfKey(Held(k), j) = {}
      BY <1>1, <2>3 DEF OfKey
    <3>2. AmountOf({}) = 0
      BY SumEmpty DEF AmountOf
    <3>3. Total(reservation', j) = reserved[j]
      BY <2>1, <3>1, <3>2 DEF Less
    <3> QED BY <1>2, <1>3, <2>3, <3>3
  <2> QED BY <2>2, <2>3
<1> QED BY <1>4, HeldTotal DEF ReservedMatchesRows

(* A step keeps the types of the sums and the sum of the reservations.     *)
LEMMA ReservedStep ==
  ASSUME StructureOK, ReservedInv, MoneyStep
  PROVE  ReservedInv'
<1>0. MoneyTypes /\ UnsettledIsUnbacked /\ ReservedMatchesRows
  BY DEF ReservedInv
<1>a. Estimates \subseteq Nat \ {0} /\ Limits \subseteq Nat /\ Costs \subseteq Nat /\ MaxTicks \in Nat
  BY StoreAssumption, LedgerAssumption
<1>b. \A x \in 0..MaxTicks, n \in Nat : AddTicks(x, n) \in 0..MaxTicks
  BY <1>a DEF AddTicks
<1>1. CASE RowsStill /\ UNCHANGED backing
  <2>1. ReservedMatchesRows'
    BY <1>0, <1>1, HeldTotal DEF RowsStill, ReservedMatchesRows
  <2>2. MoneyTypes' /\ UnsettledIsUnbacked'
    BY <1>0, <1>1 DEF RowsStill, MoneyTypes, UnsettledIsUnbacked, Holds
  <2> QED BY <2>1, <2>2 DEF ReservedInv
<1>2. ASSUME NEW e \in Events, NEW amount \in Estimates, GrantReservation(e, amount),
             UNCHANGED <<record, backing>>
      PROVE  ReservedInv'
  <2>1. ReservedMatchesRows' /\ ReservedAfterReclaim(e, amount) \in Nat
    BY <1>2, GrantTotal
  <2>2. reserved' = [reserved EXCEPT ![KeyOf[e]] = ReservedAfterReclaim(e, amount) + amount]
    BY <1>2 DEF GrantReservation
  <2>3. reserved' \in [Keys -> Nat]
    <3>1. ReservedAfterReclaim(e, amount) + amount \in Nat
      BY <1>a, <2>1
    <3>2. reserved \in [Keys -> Nat]
      BY <1>0 DEF MoneyTypes
    <3> QED BY <2>2, <3>1, <3>2
  <2>4. ASSUME NEW f \in Events, Holds(f)' PROVE reservation'[f].amount \in Estimates
    <3>1. CASE f = e
      <4>1. reservation'[e] = [amount |-> amount, expiresAt |-> clock + Ttl]
        BY <1>2, GrantEffect
      <4> QED BY <3>1, <4>1
    <3>2. CASE f # e
      <4>1. reservation'[f] = reservation[f] /\ Holds(f)
        BY <1>2, <2>4, <3>2, GrantEffect DEF Holds
      <4> QED BY <1>0, <4>1 DEF MoneyTypes
    <3> QED BY <3>1, <3>2
  <2>5. UNCHANGED <<limit, billed, audits, backing>>
    BY <1>2 DEF GrantReservation
  <2>6. MoneyTypes'
    BY <1>0, <2>3, <2>4, <2>5 DEF MoneyTypes
  <2> QED BY <1>0, <2>1, <2>5, <2>6 DEF ReservedInv, UnsettledIsUnbacked
<1>3. ASSUME NEW S \in SUBSET Events, Settling(S)
      PROVE  ReservedInv'
  <2>1. SettleBatch(S, CostOf)
    BY <1>3 DEF Settling
  <2>2. ReservedMatchesRows'
    BY <2>1, SettleTotal
  <2>3. \A k \in Keys : reserved'[k] \in Nat
    <3>1. Settled(S) \in SUBSET Events /\ \A e \in Settled(S) : Holds(e)
      BY DEF Settled, Inserted
    <3>2. ASSUME NEW k \in Keys PROVE reserved'[k] \in Nat
      <4>1. /\ AmountOf(OfKey(Settled(S), k)) \in Nat
            /\ AmountOf(OfKey(Settled(S), k)) <= reserved[k]
        BY <2>1, <3>1, RemovedTotal DEF SettleBatch
      <4>2. reserved'[k] = Less(reserved[k], AmountOf(OfKey(Settled(S), k)))
        BY <2>1 DEF SettleBatch, OfKey
      <4>3. reserved[k] \in Nat
        BY <1>0 DEF MoneyTypes
      <4> QED BY <4>1, <4>2, <4>3 DEF Less
    <3> QED BY <3>2
  <2>4. reserved' \in [Keys -> Nat]
    BY <2>1, <2>3 DEF SettleBatch
  <2>5. \A k \in Keys : SumOf(CostOf, OfKey(Inserted(S), k)) \in Nat
    <3>1. ASSUME NEW k \in Keys PROVE SumOf(CostOf, OfKey(Inserted(S), k)) \in Nat
      <4>1. OfKey(Inserted(S), k) \in SUBSET Events
        BY DEF OfKey, Inserted
      <4>2. IsFiniteSet(OfKey(Inserted(S), k))
        BY <4>1, EventsAssumption, FS_Subset
      <4>3. \A e \in OfKey(Inserted(S), k) : CostOf[e] \in Nat
        BY <1>a, <4>1 DEF CostOf, StructureOK
      <4> QED BY <4>2, <4>3, SumNat
    <3> QED BY <3>1
  <2>6. billed' \in [Keys -> 0..MaxTicks]
    <3>1. billed' = [k \in Keys |-> IF k \in liveKeys
                       THEN AddTicks(billed[k], SumOf(CostOf, OfKey(Inserted(S), k)))
                       ELSE billed[k]]
      BY <2>1 DEF SettleBatch, OfKey
    <3> QED BY <1>0, <1>b, <2>5, <3>1 DEF MoneyTypes
  <2>7. ASSUME NEW f \in Events, Holds(f)' PROVE reservation'[f].amount \in Estimates
    <3>1. reservation'[f] = reservation[f] /\ Holds(f)
      BY <2>1, <2>7, SettleEffect DEF Holds
    <3> QED BY <1>0, <3>1 DEF MoneyTypes
  <2>8. backing' \in [Events -> Estimates \cup {0}]
    BY <1>0, <1>3 DEF Settling, MoneyTypes
  <2>9. UnsettledIsUnbacked'
    BY <1>0, <1>3, <2>1 DEF Settling, UnsettledIsUnbacked, SettleBatch
  <2>10. limit' = limit
    BY <2>1 DEF SettleBatch
  <2> QED BY <1>0, <2>2, <2>4, <2>6, <2>7, <2>8, <2>9, <2>10 DEF ReservedInv, MoneyTypes
<1>4. ASSUME NEW k \in Keys, NEW S \in SUBSET Events, NEW cutoff \in Nat,
             ReleaseExpired(k, S, cutoff), UNCHANGED <<record, backing>>
      PROVE  ReservedInv'
  <2>1. ReservedMatchesRows' /\ \A j \in Keys : reserved'[j] \in Nat
    BY <1>4, ReleaseTotal
  <2>2. reserved' \in [Keys -> Nat]
    BY <1>0, <1>4, <2>1 DEF ReleaseExpired, MoneyTypes
  <2>3. ASSUME NEW f \in Events, Holds(f)' PROVE reservation'[f].amount \in Estimates
    <3>1. reservation'[f] = reservation[f] /\ Holds(f)
      BY <1>4, <2>3, ReleaseEffect DEF Holds
    <3> QED BY <1>0, <3>1 DEF MoneyTypes
  <2>4. UNCHANGED <<limit, billed, audits, backing>>
    BY <1>4 DEF ReleaseExpired
  <2> QED BY <1>0, <2>1, <2>2, <2>3, <2>4 DEF ReservedInv, MoneyTypes, UnsettledIsUnbacked
<1>5. ASSUME NEW k \in Keys, NEW value \in Limits, UpdateLimit(k, value),
             UNCHANGED <<record, backing>>
      PROVE  ReservedInv'
  <2>1. ReservedMatchesRows'
    BY <1>0, <1>5, HeldTotal DEF UpdateLimit, ReservedMatchesRows
  <2> QED BY <1>0, <1>5, <2>1 DEF UpdateLimit, ReservedInv, MoneyTypes, UnsettledIsUnbacked, Holds
<1>6. ASSUME NEW k \in Keys, DeleteKey(k), UNCHANGED <<record, backing>>
      PROVE  ReservedInv'
  <2>1. ReservedMatchesRows'
    BY <1>6, DeleteTotal
  <2>2. ASSUME NEW f \in Events, Holds(f)' PROVE reservation'[f].amount \in Estimates
    <3>1. reservation'[f] = reservation[f] /\ Holds(f)
      BY <1>6, <2>2, DeleteEffect DEF Holds
    <3> QED BY <1>0, <3>1 DEF MoneyTypes
  <2>3. /\ billed' = [billed EXCEPT ![k] = 0] /\ reserved' = [reserved EXCEPT ![k] = 0]
        /\ UNCHANGED <<limit, audits, backing>>
    BY <1>6 DEF DeleteKey
  <2>4. billed' \in [Keys -> 0..MaxTicks] /\ reserved' \in [Keys -> Nat]
    BY <1>0, <1>a, <2>3 DEF MoneyTypes
  <2> QED BY <1>0, <2>1, <2>2, <2>3, <2>4 DEF ReservedInv, MoneyTypes, UnsettledIsUnbacked
<1>7. ASSUME NEW e \in Events, CostKnown(e) PROVE ReservedInv'
  BY <1>1, <1>7 DEF CostKnown
<1> QED BY <1>1, <1>2, <1>3, <1>4, <1>5, <1>6, <1>7 DEF MoneyStep

(* Nothing is reserved at the start.                                       *)
LEMMA ReservedStart ==
  ASSUME Init
  PROVE  ReservedInv
<1>1. MoneyTypes /\ UnsettledIsUnbacked
  BY StoreAssumption, LedgerAssumption DEF Init, MoneyTypes, UnsettledIsUnbacked, Holds
<1>2. ASSUME NEW k \in Keys PROVE reserved[k] = AmountOf(Held(k))
  <2>1. Held(k) = {}
    BY DEF Init, Held, Holds
  <2>2. AmountOf({}) = 0
    BY SumEmpty DEF AmountOf
  <2> QED BY <2>1, <2>2 DEF Init
<1> QED BY <1>1, <1>2 DEF ReservedInv, ReservedMatchesRows

(* The invariant of the reserved sums.                                     *)
THEOREM ReservedSafe == Spec => []ReservedInv
<1>1. Init => ReservedInv
  BY ReservedStart
<1>2. StructureOK /\ RecordInv /\ ReservedInv /\ [Next]_vars => ReservedInv'
  BY StepMoney, ReservedStep
<1> QED BY <1>1, <1>2, TypeCorrect, RecordsSafe, PTL DEF Spec

(* reserved_usage_usd_ticks is the sum of the rows of its key.             *)
THEOREM ReservedIsExact == Spec => []ReservedMatchesRows
<1>1. ReservedInv => ReservedMatchesRows
  BY DEF ReservedInv
<1> QED BY <1>1, ReservedSafe, PTL

-----------------------------------------------------------------------------
(* What a key is billed.                                                   *)

(* The records of a key in a set are finitely many and cost natural        *)
(* numbers.                                                                *)
LEMMA CostsAdd ==
  ASSUME StructureOK, NEW S \in SUBSET Events, NEW k
  PROVE  /\ IsFiniteSet(OfKey(S, k))
         /\ OfKey(S, k) \in SUBSET Events
         /\ \A e \in Events : CostOf[e] \in Nat
         /\ SumOf(CostOf, OfKey(S, k)) \in Nat
<1>1. OfKey(S, k) \in SUBSET Events
  BY DEF OfKey
<1>2. IsFiniteSet(OfKey(S, k))
  BY <1>1, EventsAssumption, FS_Subset
<1>3. \A e \in Events : CostOf[e] \in Nat
  BY LedgerAssumption DEF CostOf, StructureOK
<1>4. SumOf(CostOf, OfKey(S, k)) \in Nat
  BY <1>1, <1>2, <1>3, SumNat
<1> QED BY <1>1, <1>2, <1>3, <1>4

(* A step that stores nothing leaves the cost of the stored records alone. *)
LEMMA OwedSame ==
  ASSUME StructureOK, NEW k, audits' = audits,
         UNCHANGED record \/ \E e \in Events : CostKnown(e)
  PROVE  /\ SumOf(CostOf, OfKey(audits, k))' = SumOf(CostOf, OfKey(audits, k))
         /\ \A e \in audits : CostOf'[e] = CostOf[e]
<1>1. audits \in SUBSET Events
  BY DEF StructureOK
<1>2. \A e \in audits : CostOf'[e] = CostOf[e]
  <2>1. CASE UNCHANGED record
    BY <1>1, <2>1 DEF CostOf
  <2>2. ASSUME NEW e \in Events, CostKnown(e) PROVE \A f \in audits : CostOf'[f] = CostOf[f]
    <3>1. \A f \in audits : record'[f] = record[f]
      BY <2>2, <1>1 DEF CostKnown, StructureOK
    <3> QED BY <1>1, <3>1 DEF CostOf
  <2> QED BY <2>1, <2>2
<1>3. OfKey(audits, k)' = OfKey(audits, k)
  BY DEF OfKey
<1>4. IsFiniteSet(OfKey(audits, k)) /\ \A e \in OfKey(audits, k) : CostOf'[e] = CostOf[e]
  BY <1>1, <1>2, CostsAdd DEF OfKey
<1>5. SumOf(CostOf', OfKey(audits, k)) = SumOf(CostOf, OfKey(audits, k))
  BY <1>4, SumSame
<1>6. SumOf(CostOf, OfKey(audits, k))' = SumOf(CostOf', OfKey(audits, k)')
  BY Zenon
<1> QED BY <1>2, <1>3, <1>5, <1>6

Saturated(n) == IF n > MaxTicks THEN MaxTicks ELSE n

(* Saturating as the sum grows is saturating the sum.                      *)
LEMMA SaturatedAdds ==
  ASSUME NEW m \in Nat, NEW n \in Nat
  PROVE  AddTicks(Saturated(m), n) = Saturated(m + n)
  BY StoreAssumption DEF AddTicks, Saturated

(* The records of a settled batch are billed in the step that stores them. *)
LEMMA SettleBills ==
  ASSUME StructureOK, NEW S \in SUBSET Events, Settling(S), NEW k \in Keys,
         k \in liveKeys, billed[k] = Saturated(SumOf(CostOf, OfKey(audits, k)))
  PROVE  billed'[k] = Saturated(SumOf(CostOf, OfKey(audits, k))')
<1> DEFINE A == OfKey(audits, k)
           I == OfKey(Inserted(S), k)
<1>1. audits \in SUBSET Events /\ Inserted(S) \in SUBSET Events
  BY DEF StructureOK, Inserted
<1>2. /\ SumOf(CostOf, A) \in Nat /\ SumOf(CostOf, I) \in Nat
      /\ IsFiniteSet(A) /\ IsFiniteSet(I)
      /\ \A e \in A \cup I : CostOf[e] \in Nat
  BY <1>1, CostsAdd
<1>3. A \cap I = {} /\ OfKey(audits, k)' = A \cup I
  BY DEF Settling, SettleBatch, Inserted, OfKey
<1>4. CostOf' = CostOf
  BY DEF CostOf, Settling
<1>5. SumOf(CostOf, OfKey(audits, k))' = SumOf(CostOf', OfKey(audits, k)')
  BY Zenon
<1>6. billed'[k] = AddTicks(billed[k], SumOf(CostOf, I))
  BY DEF Settling, SettleBatch, OfKey
<1>7. billed[k] = Saturated(SumOf(CostOf, A))
  OBVIOUS
<1> HIDE DEF A, I
<1>8. SumOf(CostOf, A \cup I) = SumOf(CostOf, A) + SumOf(CostOf, I)
  BY <1>2, <1>3, SumDisjoint
<1>9. AddTicks(Saturated(SumOf(CostOf, A)), SumOf(CostOf, I))
        = Saturated(SumOf(CostOf, A) + SumOf(CostOf, I))
  BY <1>2, SaturatedAdds
<1> QED BY <1>3, <1>4, <1>5, <1>6, <1>7, <1>8, <1>9, Zenon

(* A step keeps the bill of every key.                                     *)
LEMMA BilledStep ==
  ASSUME StructureOK, BilledExactlyOnce, MoneyStep
  PROVE  BilledExactlyOnce'
<1>0. \A k \in liveKeys : k \in Keys /\ billed[k] = Saturated(SumOf(CostOf, OfKey(audits, k)))
  BY DEF BilledExactlyOnce, StructureOK, Saturated
<1> SUFFICES ASSUME NEW k \in liveKeys'
             PROVE  billed'[k] = Saturated(SumOf(CostOf, OfKey(audits, k))')
  BY DEF BilledExactlyOnce, Saturated
<1>1. CASE \E S \in SUBSET Events : Settling(S)
  <2>1. PICK S \in SUBSET Events : Settling(S)
    BY <1>1
  <2>2. k \in liveKeys
    BY <2>1 DEF Settling, SettleBatch
  <2> QED BY <1>0, <2>1, <2>2, SettleBills
<1>2. CASE /\ audits' = audits
           /\ k \in liveKeys /\ billed'[k] = billed[k]
           /\ UNCHANGED record \/ \E e \in Events : CostKnown(e)
  BY <1>0, <1>2, OwedSame
<1>3. CASE RowsStill
  <2>1. \/ UNCHANGED <<record, backing>>
        \/ \E e \in Events : CostKnown(e)
        \/ \E S \in SUBSET Events : Settling(S)
    BY Zenon DEF MoneyStep
  <2>2. audits' = audits /\ k \in liveKeys /\ billed'[k] = billed[k]
    BY <1>3 DEF RowsStill
  <2> QED BY <1>1, <1>2, <2>1, <2>2
<1>4. ASSUME NEW e \in Events, NEW amount \in Estimates, GrantReservation(e, amount), UNCHANGED record
      PROVE  billed'[k] = Saturated(SumOf(CostOf, OfKey(audits, k))')
  BY <1>2, <1>4 DEF GrantReservation
<1>5. ASSUME NEW j \in Keys, NEW S \in SUBSET Events, NEW cutoff \in Nat, ReleaseExpired(j, S, cutoff),
             UNCHANGED record
      PROVE  billed'[k] = Saturated(SumOf(CostOf, OfKey(audits, k))')
  BY <1>2, <1>5 DEF ReleaseExpired
<1>6. ASSUME NEW j \in Keys, NEW value \in Limits, UpdateLimit(j, value), UNCHANGED record
      PROVE  billed'[k] = Saturated(SumOf(CostOf, OfKey(audits, k))')
  BY <1>2, <1>6 DEF UpdateLimit
<1>7. ASSUME NEW j \in Keys, DeleteKey(j), UNCHANGED record
      PROVE  billed'[k] = Saturated(SumOf(CostOf, OfKey(audits, k))')
  <2>1. /\ billed' = [billed EXCEPT ![j] = 0]
        /\ k \in liveKeys /\ k # j
        /\ audits' = audits
    BY <1>7 DEF DeleteKey
  <2> QED BY <1>2, <1>7, <2>1
<1>8. ASSUME NEW e \in Events, CostKnown(e)
      PROVE  billed'[k] = Saturated(SumOf(CostOf, OfKey(audits, k))')
  BY <1>2, <1>8 DEF CostKnown, RowsStill
<1> QED BY <1>1, <1>3, <1>4, <1>5, <1>6, <1>7, <1>8 DEF MoneyStep

(* Every stored record is billed to its key, and none of them twice.       *)
THEOREM BilledIsExact == Spec => []BilledExactlyOnce
<1>1. Init => BilledExactlyOnce
  <2> SUFFICES ASSUME Init, NEW k \in liveKeys
               PROVE  billed[k] = Saturated(SumOf(CostOf, OfKey(audits, k)))
    BY DEF BilledExactlyOnce, Saturated
  <2>1. OfKey(audits, k) = {} /\ billed[k] = 0
    BY DEF Init, OfKey
  <2>2. SumOf(CostOf, {}) = 0
    BY SumEmpty
  <2> QED BY <2>1, <2>2, StoreAssumption DEF Saturated
<1>2. StructureOK /\ RecordInv /\ BilledExactlyOnce /\ [Next]_vars => BilledExactlyOnce'
  BY StepMoney, BilledStep
<1> QED BY <1>1, <1>2, TypeCorrect, RecordsSafe, PTL DEF Spec

-----------------------------------------------------------------------------
(* What a key may owe.                                                     *)

(* What the record of a request costs beyond its reservation.              *)
Excess == [e \in Events |-> Less(CostOf[e], backing[e])]

(* It is a natural number, and so is a sum of it.                          *)
LEMMA ExcessAdds ==
  ASSUME StructureOK, MoneyTypes, NEW S \in SUBSET Events, NEW k
  PROVE  /\ \A e \in Events : Excess[e] \in Nat
         /\ SumOf(Excess, OfKey(S, k)) \in Nat
<1>1. backing \in [Events -> Nat]
  <2>1. Estimates \cup {0} \subseteq Nat
    BY LedgerAssumption
  <2>2. backing \in [Events -> Estimates \cup {0}]
    BY DEF MoneyTypes
  <2> QED BY <2>1, <2>2
<1>2. /\ IsFiniteSet(OfKey(S, k))
      /\ OfKey(S, k) \in SUBSET Events
      /\ \A e \in Events : CostOf[e] \in Nat
  BY CostsAdd
<1>3. \A e \in Events : Excess[e] \in Nat
  BY <1>1, <1>2 DEF Excess, Less
<1>4. SumOf(Excess, OfKey(S, k)) \in Nat
  BY <1>2, <1>3, SumNat
<1> QED BY <1>3, <1>4

(* The sum of the module is the sum of Excess.                             *)
LEMMA OvershootIs ==
  ASSUME NEW k
  PROVE  /\ Overshoot(k) = SumOf(Excess, OfKey(audits, k))
         /\ Overshoot(k)' = SumOf(Excess', OfKey(audits', k))
<1>1. Overshoot(k) = SumOf(Excess, OfKey(audits, k))
  BY Zenon DEF Overshoot, Excess
<1>2. Overshoot(k)' = SumOf(Excess', OfKey(audits', k))
  BY Zenon DEF Overshoot, Excess, OfKey
<1> QED BY <1>1, <1>2

(* A step that stores nothing leaves the overshoot alone.                  *)
LEMMA OvershootSame ==
  ASSUME StructureOK, NEW k, audits' = audits, backing' = backing,
         UNCHANGED record \/ \E e \in Events : CostKnown(e)
  PROVE  Overshoot(k)' = Overshoot(k)
<1>1. audits \in SUBSET Events /\ \A e \in audits : CostOf'[e] = CostOf[e]
  BY OwedSame DEF StructureOK
<1>2. \A e \in audits : Excess'[e] = Excess[e]
  BY <1>1 DEF Excess
<1>3. IsFiniteSet(OfKey(audits, k)) /\ \A e \in OfKey(audits, k) : Excess'[e] = Excess[e]
  BY <1>1, <1>2, CostsAdd DEF OfKey
<1>4. SumOf(Excess', OfKey(audits, k)) = SumOf(Excess, OfKey(audits, k))
  BY <1>3, SumSame
<1> QED BY <1>4, OvershootIs

(* A settled batch bills no more than it releases and exceeds.             *)
LEMMA SettleCovered ==
  ASSUME StructureOK, ReservedInv, NEW S \in SUBSET Events, Settling(S), StructureOK', MoneyTypes',
         NEW k \in Keys
  PROVE  \E o \in Nat :
           /\ Overshoot(k)' = Overshoot(k) + o
           /\ SumOf(CostOf, OfKey(Inserted(S), k)) <= AmountOf(OfKey(Settled(S), k)) + o
<1> DEFINE A == OfKey(audits, k)
           I == OfKey(Inserted(S), k)
           T == OfKey(Settled(S), k)
           f == [e \in T |-> reservation[e].amount]
<1>0. MoneyTypes /\ UnsettledIsUnbacked
  BY DEF ReservedInv
<1>1. audits \in SUBSET Events /\ Inserted(S) \in SUBSET Events /\ audits' \in SUBSET Events
  BY DEF StructureOK, Inserted
<1>2. /\ IsFiniteSet(A) /\ IsFiniteSet(I)
      /\ A \in SUBSET Events /\ I \in SUBSET Events
      /\ \A e \in Events : CostOf[e] \in Nat
  BY <1>1, CostsAdd
<1>3. A \cap I = {} /\ OfKey(audits, k)' = A \cup I /\ T \in SUBSET I
  BY DEF Settling, SettleBatch, Inserted, Settled, OfKey
<1>4. CostOf' = CostOf
  BY DEF CostOf, Settling
<1>5. \A e \in Events : Excess'[e] \in Nat
  <2>1. backing' \in [Events -> Nat]
    <3>1. Estimates \cup {0} \subseteq Nat
      BY LedgerAssumption
    <3>2. backing' \in [Events -> Estimates \cup {0}]
      BY DEF MoneyTypes
    <3> QED BY <3>1, <3>2
  <2>2. Excess' = [e \in Events |-> Less(CostOf[e], backing'[e])]
    BY <1>4 DEF Excess
  <2> QED BY <1>2, <2>1, <2>2 DEF Less
<1>6. \A e \in A : Excess'[e] = Excess[e]
  <2>1. \A e \in A : backing'[e] = backing[e]
    BY <1>2 DEF Settling, Inserted, OfKey
  <2> QED BY <1>2, <1>4, <2>1 DEF Excess
<1>7. \A e \in T : f[e] \in Nat /\ CostOf[e] <= f[e] + Excess'[e]
  <2>1. ASSUME NEW e \in T PROVE f[e] \in Nat /\ CostOf[e] <= f[e] + Excess'[e]
    <3>1. e \in Events /\ e \in Inserted(S) /\ Holds(e)
      BY <1>1 DEF OfKey, Settled
    <3>2. backing'[e] = reservation[e].amount
      BY <3>1 DEF Settling
    <3>3. Excess'[e] = Less(CostOf[e], reservation[e].amount)
      BY <1>4, <3>1, <3>2 DEF Excess
    <3>4. reservation[e].amount \in Nat
      BY <1>0, <3>1, LedgerAssumption DEF MoneyTypes
    <3>5. f[e] = reservation[e].amount
      OBVIOUS
    <3>6. CostOf[e] \in Nat
      BY <1>2, <3>1
    <3> DEFINE c == CostOf[e]
               b == reservation[e].amount
    <3>7. c \in Nat /\ b \in Nat
      BY <3>4, <3>6
    <3> HIDE DEF c, b, f
    <3>8. c <= b + Less(c, b)
      BY <3>7 DEF Less
    <3> QED BY <3>3, <3>4, <3>5, <3>8, Zenon DEF c, b
  <2> QED BY <2>1
<1>8. \A e \in I \ T : CostOf[e] <= Excess'[e]
  <2>1. ASSUME NEW e \in I \ T PROVE CostOf[e] <= Excess'[e]
    <3>1. e \in Events /\ e \notin audits /\ ~ Holds(e)
      BY <1>2 DEF OfKey, Settled, Inserted
    <3>2. backing'[e] = 0
      BY <1>0, <3>1 DEF Settling, UnsettledIsUnbacked
    <3>3. Excess'[e] = Less(CostOf[e], 0) /\ CostOf[e] \in Nat
      BY <1>2, <1>4, <3>1, <3>2 DEF Excess
    <3> DEFINE c == CostOf[e]
    <3>4. c \in Nat /\ Excess'[e] = Less(c, 0)
      BY <3>3
    <3> HIDE DEF c
    <3>5. c <= Less(c, 0)
      BY <3>4 DEF Less
    <3> QED BY <3>4, <3>5 DEF c
  <2> QED BY <2>1
<1>9. AmountOf(T) = SumOf(f, T)
  BY Zenon DEF AmountOf
<1> HIDE DEF A, I, T, f
<1>10. /\ \A e \in I : CostOf[e] \in Nat /\ Excess'[e] \in Nat
       /\ \A e \in A \cup I : Excess'[e] \in Nat
  BY <1>2, <1>5
<1>11. SumOf(CostOf, I) <= SumOf(f, T) + SumOf(Excess', I)
  BY <1>2, <1>3, <1>7, <1>8, <1>10, SumCovered
<1>12. SumOf(Excess', A \cup I) = SumOf(Excess', A) + SumOf(Excess', I)
  BY <1>2, <1>3, <1>10, SumDisjoint
<1>13. SumOf(Excess', A) = SumOf(Excess, A)
  BY <1>2, <1>6, SumSame
<1>14. Overshoot(k)' = SumOf(Excess', A \cup I)
  <2>1. OfKey(audits', k) = A \cup I
    BY <1>3 DEF OfKey
  <2> QED BY <2>1, OvershootIs
<1>15. Overshoot(k) = SumOf(Excess, A)
  BY OvershootIs DEF A
<1>16. SumOf(Excess', I) \in Nat
  BY <1>2, <1>10, SumNat
<1>17. /\ Overshoot(k)' = Overshoot(k) + SumOf(Excess', I)
       /\ SumOf(CostOf, I) <= AmountOf(T) + SumOf(Excess', I)
  BY <1>9, <1>11, <1>12, <1>13, <1>14, <1>15, Zenon
<1> QED BY <1>16, <1>17 DEF I, T

(* The highest limit is one, and no limit is above it.                     *)
LEMMA HighestLimit ==
  MaxLimit \in Nat /\ \A value \in Limits : value <= MaxLimit
<1>1. PICK m \in Limits : \A value \in Limits : value <= m
  BY LimitsAssumption
<1>2. MaxLimit \in Limits /\ \A value \in Limits : value <= MaxLimit
  BY <1>1 DEF MaxLimit
<1> QED BY <1>2, LedgerAssumption

(* A granted reservation fits the limit of its key.                        *)
LEMMA GrantFits ==
  ASSUME StructureOK, ReservedInv, NEW e \in Events, NEW amount \in Estimates,
         GrantReservation(e, amount), NEW k \in liveKeys, BudgetKept, UNCHANGED <<record, backing>>
  PROVE  billed'[k] + reserved'[k] <= MaxLimit + Overshoot(k)'
<1>0. MoneyTypes /\ k \in Keys /\ audits \in SUBSET Events
  BY DEF ReservedInv, StructureOK
<1>1. Overshoot(k)' = Overshoot(k)
  BY OvershootSame DEF GrantReservation
<1>2. Overshoot(k) \in Nat
  BY <1>0, ExcessAdds, OvershootIs
<1>3. /\ reserved' = [reserved EXCEPT ![KeyOf[e]] = ReservedAfterReclaim(e, amount) + amount]
      /\ billed' = billed
  BY DEF GrantReservation
<1>4. CASE k # KeyOf[e]
  <2>1. billed'[k] = billed[k] /\ reserved'[k] = reserved[k]
    BY <1>0, <1>3, <1>4 DEF MoneyTypes
  <2> QED BY <1>1, <2>1 DEF BudgetKept
<1>5. CASE k = KeyOf[e]
  <2> DEFINE r == ReservedAfterReclaim(e, amount)
             b == billed[k]
             l == limit[k]
  <2>1. r \in Nat
    BY GrantTotal
  <2>2. HasCapacity(k, amount, r)
    BY <1>5 DEF GrantReservation, CanReserve
  <2>3. b \in Nat /\ l \in Nat /\ l <= MaxLimit
    <3>1. b \in 0..MaxTicks /\ l \in Limits
      BY <1>0 DEF MoneyTypes
    <3>2. Limits \subseteq Nat /\ MaxTicks \in Nat
      BY LedgerAssumption, StoreAssumption
    <3> HIDE DEF b, l, r
    <3>3. l <= MaxLimit
      BY <3>1, HighestLimit
    <3> QED BY <3>1, <3>2, <3>3
  <2>4. amount \in Nat \ {0}
    BY LedgerAssumption
  <2>5. amount <= IF b >= l \/ r >= l - b THEN 0 ELSE l - b - r
    BY <2>2 DEF HasCapacity, Remaining
  <2>6. reserved'[k] = r + amount /\ billed'[k] = b
    BY <1>0, <1>3, <1>5 DEF MoneyTypes
  <2> HIDE DEF r, b, l
  <2>7. b + (r + amount) <= l
    BY <2>1, <2>3, <2>4, <2>5
  <2>8. b + (r + amount) <= MaxLimit + Overshoot(k)
    BY <1>2, <2>1, <2>3, <2>4, <2>7, HighestLimit
  <2> QED BY <1>1, <2>6, <2>8
<1> QED BY <1>4, <1>5

(* A settlement moves money from what is reserved to what is billed.       *)
LEMMA SettleFits ==
  ASSUME StructureOK, ReservedInv, NEW S \in SUBSET Events, Settling(S), StructureOK', MoneyTypes',
         NEW k \in liveKeys, BudgetKept
  PROVE  billed'[k] + reserved'[k] <= MaxLimit + Overshoot(k)'
<1>0. MoneyTypes /\ k \in Keys /\ audits \in SUBSET Events /\ Inserted(S) \in SUBSET Events
  BY DEF ReservedInv, StructureOK, Inserted
<1> DEFINE c == SumOf(CostOf, OfKey(Inserted(S), k))
           a == AmountOf(OfKey(Settled(S), k))
           b == billed[k]
           r == reserved[k]
           v == Overshoot(k)
<1>1. PICK o \in Nat : Overshoot(k)' = v + o /\ c <= a + o
  BY <1>0, SettleCovered
<1>2. a \in Nat /\ a <= r
  <2>1. Settled(S) \in SUBSET Events /\ \A e \in Settled(S) : Holds(e)
    BY DEF Settled, Inserted
  <2>2. reservation' = WithoutRows(Settled(S))
    BY DEF Settling, SettleBatch
  <2> QED BY <1>0, <2>1, <2>2, RemovedTotal
<1>3. c \in Nat
  BY <1>0, CostsAdd
<1>4. b \in Nat /\ r \in Nat /\ b <= MaxTicks
  BY <1>0, StoreAssumption DEF MoneyTypes
<1>5. v \in Nat
  BY <1>0, ExcessAdds, OvershootIs
<1>6. billed'[k] = AddTicks(b, c) /\ reserved'[k] = Less(r, a)
  BY <1>0 DEF Settling, SettleBatch, OfKey
<1>7. b + r <= MaxLimit + v
  BY DEF BudgetKept
<1>8. MaxTicks \in Nat /\ MaxLimit \in Nat
  BY StoreAssumption, HighestLimit
<1> HIDE DEF a, b, c, r, v
<1>9. AddTicks(b, c) \in Nat /\ AddTicks(b, c) <= b + c
  BY <1>3, <1>4, <1>8 DEF AddTicks
<1>10. Less(r, a) = r - a
  BY <1>2, <1>4 DEF Less
<1>11. AddTicks(b, c) + Less(r, a) <= MaxLimit + (v + o)
  BY <1>1, <1>2, <1>3, <1>4, <1>5, <1>7, <1>8, <1>9, <1>10
<1> QED BY <1>1, <1>6, <1>11

(* A step keeps every key within its budget.                               *)
LEMMA BudgetStep ==
  ASSUME StructureOK, ReservedInv, BudgetKept, MoneyStep, StructureOK', ReservedInv'
  PROVE  BudgetKept'
<1>0. MoneyTypes /\ MoneyTypes' /\ audits \in SUBSET Events
  BY DEF ReservedInv, StructureOK
<1> SUFFICES ASSUME NEW k \in liveKeys'
             PROVE  billed'[k] + reserved'[k] <= MaxLimit + Overshoot(k)'
  BY DEF BudgetKept
<1>1. k \in Keys
  BY DEF StructureOK
<1>2. ASSUME NEW S \in SUBSET Events, Settling(S)
      PROVE  billed'[k] + reserved'[k] <= MaxLimit + Overshoot(k)'
  <2>1. k \in liveKeys
    BY <1>2 DEF Settling, SettleBatch
  <2> QED BY <1>0, <1>2, <2>1, SettleFits
<1>3. ASSUME NEW e \in Events, NEW amount \in Estimates, GrantReservation(e, amount),
             UNCHANGED <<record, backing>>
      PROVE  billed'[k] + reserved'[k] <= MaxLimit + Overshoot(k)'
  <2>1. k \in liveKeys
    BY <1>3 DEF GrantReservation
  <2> QED BY <1>3, <2>1, GrantFits
<1>4. CASE /\ k \in liveKeys /\ billed'[k] = billed[k] /\ reserved'[k] <= reserved[k]
           /\ audits' = audits /\ backing' = backing
           /\ UNCHANGED record \/ \E e \in Events : CostKnown(e)
  <2>1. Overshoot(k)' = Overshoot(k) /\ Overshoot(k) \in Nat
    BY <1>0, <1>4, OvershootSame, ExcessAdds, OvershootIs
  <2>2. billed[k] + reserved[k] <= MaxLimit + Overshoot(k)
    BY <1>4 DEF BudgetKept
  <2>3. billed[k] \in Nat /\ reserved[k] \in Nat /\ reserved'[k] \in Nat /\ MaxLimit \in Nat
    BY <1>0, <1>1, HighestLimit, StoreAssumption DEF MoneyTypes
  <2> QED BY <1>4, <2>1, <2>2, <2>3
<1>5. CASE RowsStill /\ UNCHANGED <<record, backing>>
  <2>1. reserved'[k] <= reserved[k]
    BY <1>0, <1>1, <1>5 DEF RowsStill, MoneyTypes
  <2> QED BY <1>4, <1>5, <2>1 DEF RowsStill
<1>6. ASSUME NEW e \in Events, CostKnown(e)
      PROVE  billed'[k] + reserved'[k] <= MaxLimit + Overshoot(k)'
  <2>1. reserved'[k] <= reserved[k]
    BY <1>0, <1>1, <1>6 DEF CostKnown, RowsStill, MoneyTypes
  <2>2. k \in liveKeys /\ billed'[k] = billed[k] /\ audits' = audits /\ backing' = backing
    BY <1>6 DEF CostKnown, RowsStill
  <2> QED BY <1>4, <1>6, <2>1, <2>2
<1>7. ASSUME NEW j \in Keys, NEW S \in SUBSET Events, NEW cutoff \in Nat, ReleaseExpired(j, S, cutoff),
             UNCHANGED <<record, backing>>
      PROVE  billed'[k] + reserved'[k] <= MaxLimit + Overshoot(k)'
  <2>1. reserved'[k] <= reserved[k]
    BY <1>1, <1>7, ReleaseTotal
  <2> QED BY <1>4, <1>7, <2>1 DEF ReleaseExpired
<1>8. ASSUME NEW j \in Keys, NEW value \in Limits, UpdateLimit(j, value), UNCHANGED <<record, backing>>
      PROVE  billed'[k] + reserved'[k] <= MaxLimit + Overshoot(k)'
  <2>1. reserved'[k] <= reserved[k]
    BY <1>0, <1>1, <1>8 DEF UpdateLimit, MoneyTypes
  <2> QED BY <1>4, <1>8, <2>1 DEF UpdateLimit
<1>9. ASSUME NEW j \in Keys, DeleteKey(j), UNCHANGED <<record, backing>>
      PROVE  billed'[k] + reserved'[k] <= MaxLimit + Overshoot(k)'
  <2>1. /\ billed' = [billed EXCEPT ![j] = 0] /\ reserved' = [reserved EXCEPT ![j] = 0]
        /\ k \in liveKeys /\ k # j
        /\ audits' = audits
    BY <1>9 DEF DeleteKey
  <2>2. billed'[k] = billed[k] /\ reserved'[k] = reserved[k]
    BY <1>0, <1>1, <2>1 DEF MoneyTypes
  <2>3. reserved'[k] <= reserved[k]
    BY <1>0, <1>1, <2>2 DEF MoneyTypes
  <2> QED BY <1>4, <1>9, <2>1, <2>2, <2>3
<1> QED BY <1>2, <1>3, <1>5, <1>6, <1>7, <1>8, <1>9 DEF MoneyStep

(* No key owes more than its highest limit and what its requests cost      *)
(* beyond their reservations.                                              *)
THEOREM BudgetIsKept == Spec => []BudgetKept
<1>1. Init => BudgetKept
  <2> SUFFICES ASSUME Init, NEW k \in liveKeys
               PROVE  billed[k] + reserved[k] <= MaxLimit + Overshoot(k)
    BY DEF BudgetKept
  <2>1. OfKey(audits, k) = {} /\ billed[k] = 0 /\ reserved[k] = 0
    BY DEF Init, OfKey
  <2>2. Overshoot(k) = 0
    BY <2>1, OvershootIs, SumEmpty
  <2> QED BY <2>1, <2>2, HighestLimit
<1>2. /\ StructureOK /\ RecordInv /\ ReservedInv /\ BudgetKept /\ [Next]_vars
      /\ StructureOK' /\ ReservedInv'
      => BudgetKept'
  BY StepMoney, BudgetStep
<1> QED BY <1>1, <1>2, TypeCorrect, RecordsSafe, ReservedSafe, PTL DEF Spec

-----------------------------------------------------------------------------
(* All the types.                                                          *)

(* Every variable keeps its type, the sums of money and the channel's      *)
(* bounds included.                                                        *)
THEOREM LedgerTyped == Spec => []TypeOK
<1>1. StructureOK /\ ReservedInv /\ WriterFits => TypeOK
  BY DEF TypeOK, ReservedInv, MoneyTypes, WriterFits
<1> QED BY <1>1, TypeCorrect, ReservedSafe, WritersFit, PTL
=============================================================================
