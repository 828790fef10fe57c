------------------------ MODULE BillingLedgerProofs -------------------------
(***************************************************************************)
(* Proofs about BillingLedger for every set of keys, requests and          *)
(* instances, every queue and batch size and every bound.                  *)
(* The sums of money are in BillingMoneyProofs.                            *)
(***************************************************************************)
EXTENDS BillingLedger, FiniteSetTheorems, TLAPS

(* Queues and batches belong to the instance of the request, and the caller *)
(* of a record in them is waiting or has given up.                         *)
WriterHas ==
  \A i \in Instances : \A e \in queue[i] \cup batch[i] :
    Home[e] = i /\ pc[e] \in {"awaiting", "timedout"}

TakenOnce == \A i \in Instances : queue[i] \cap batch[i] = {}

(* While a caller waits, its record is in the process.                     *)
AwaitedIsQueued ==
  \A e \in Events : pc[e] = "awaiting" => e \in queue[Home[e]] \cup batch[Home[e]]

NotifiedIsStored == \A i \in Instances : phase[i] = "notify" => batch[i] \subseteq audits

DoneIsStopped ==
  \A i \in Instances : phase[i] = "done" => stopping[i] /\ queue[i] = {} /\ batch[i] = {}

(* A request whose record has not reached the queue is not in the store.   *)
UnrecordedIsUnstored == \A e \in Events : pc[e] \in Unrecorded => e \notin audits

(* What holds of the records, from the queue to the store.                 *)
RecordInv ==
  /\ WriterHas
  /\ TakenOnce
  /\ AwaitedIsQueued
  /\ NotifiedIsStored
  /\ DoneIsStopped
  /\ UnrecordedIsUnstored
  /\ AckMeansDurable
  /\ AcceptedIsAccounted

(* Before a request asks it holds nothing, and no reservation expires      *)
(* under a request in flight.                                              *)
HoldsAfterAdmission == \A e \in Events : pc[e] \in {"new", "admitted"} => ~Holds(e)

InFlightIsFresh ==
  \A e \in Events : Holds(e) /\ pc[e] \in InFlight => clock < reservation[e].expiresAt

(* Between its snapshot and its return a cleanup cannot meet a marked row  *)
(* that it has not seen and that had expired at its cutoff.                *)
CleanupKnows ==
  \A i \in Instances : cleanup[i].phase # "idle" =>
    /\ cleanup[i].cutoff <= clock
    /\ cleanup[i].targets \cap cleanup[i].protected = {}
    /\ \A e \in active[i] \ cleanup[i].protected :
         Holds(e) => cleanup[i].cutoff < reservation[e].expiresAt

(* What holds of the reservations, their markers and the cleaners.         *)
RowInv ==
  /\ HoldsAfterAdmission
  /\ InFlightIsFresh
  /\ CleanupKnows
  /\ SettledHoldsNothing
  /\ ProtectedUntilSettled
  /\ MarkersReclaimed

-----------------------------------------------------------------------------
(* What the transactions of the store do to the rows.                      *)

(* A granted reservation is the row of its event; other rows stay or,      *)
(* having expired, go.                                                     *)
LEMMA GrantEffect ==
  ASSUME StructureOK, NEW e \in Events, NEW amount \in Estimates,
         GrantReservation(e, amount)
  PROVE  /\ reservation' \in [Events -> RowOrNone]
         /\ reservation'[e] = [amount |-> amount, expiresAt |-> clock + Ttl]
         /\ \A f \in Events \ {e} : reservation'[f] \in {reservation[f], NoReservation}
         /\ \A f \in Events \ {e} : reservation'[f] # reservation[f] =>
              reservation[f].expiresAt <= clock
         /\ Holds(e) => reservation[e].expiresAt <= clock
         /\ UNCHANGED <<liveKeys, audits, clock>>
  BY StoreAssumption, LedgerAssumption
     DEF GrantReservation, WithoutRows, StructureOK, RowOrNone, Reclaimed, ExpiredBy,
         Holds, CanReserve

(* A settled batch is in the store, and its new records hold nothing.      *)
LEMMA SettleEffect ==
  ASSUME StructureOK, NEW S \in SUBSET Events, NEW cost, SettleBatch(S, cost)
  PROVE  /\ reservation' \in [Events -> RowOrNone]
         /\ audits' = audits \cup S
         /\ \A e \in Events : reservation'[e] \in {reservation[e], NoReservation}
         /\ \A e \in S \ audits : reservation'[e] = NoReservation
         /\ \A e \in Events : reservation'[e] # reservation[e] => e \in S
         /\ UNCHANGED <<liveKeys, clock>>
  BY DEF SettleBatch, WithoutRows, Inserted, Settled, Holds, StructureOK, RowOrNone

(* A cleanup removes only rows among its targets that had expired at its   *)
(* cutoff.                                                                 *)
LEMMA ReleaseEffect ==
  ASSUME StructureOK, NEW k \in Keys, NEW S \in SUBSET Events, NEW cutoff \in Nat,
         ReleaseExpired(k, S, cutoff)
  PROVE  /\ reservation' \in [Events -> RowOrNone]
         /\ \A e \in Events : reservation'[e] \in {reservation[e], NoReservation}
         /\ \A e \in Events : reservation'[e] # reservation[e] =>
              e \in S /\ reservation[e].expiresAt <= cutoff
         /\ UNCHANGED <<liveKeys, audits, clock>>
  BY DEF ReleaseExpired, WithoutRows, Held, ExpiredBy, Holds, StructureOK, RowOrNone

(* Deleting a key removes the rows of that key only.                       *)
LEMMA DeleteEffect ==
  ASSUME StructureOK, NEW k \in Keys, DeleteKey(k)
  PROVE  /\ reservation' \in [Events -> RowOrNone]
         /\ \A e \in Events : reservation'[e] \in {reservation[e], NoReservation}
         /\ \A e \in Events : reservation'[e] # reservation[e] => KeyOf[e] \notin liveKeys'
         /\ liveKeys' \subseteq Keys
         /\ UNCHANGED <<audits, clock>>
  BY DEF DeleteKey, WithoutRows, Held, StructureOK, RowOrNone

(* The same for the actions that run them.                                 *)

(* What a granted reservation changes, whether or not its caller learns of *)
(* it.                                                                     *)
LEMMA ReserveEffect ==
  ASSUME StructureOK, NEW e \in Events, ReserveGranted(e) \/ ReserveUnknown(e)
  PROVE  /\ reservation' \in [Events -> RowOrNone]
         /\ clock < reservation'[e].expiresAt
         /\ \A f \in Events \ {e} : reservation'[f] \in {reservation[f], NoReservation}
         /\ \A f \in Events \ {e} : reservation'[f] # reservation[f] =>
              reservation[f].expiresAt <= clock
         /\ pc[e] = "admitted"
         /\ Goto(e, "marking") \/ Goto(e, "refused")
         /\ UNCHANGED <<liveKeys, audits, clock, writerVars, processVars, active,
                        cleanup, record>>
<1>1. PICK amount \in Estimates : GrantReservation(e, amount)
  BY DEF ReserveGranted, ReserveUnknown
<1>2. reservation'[e] = [amount |-> amount, expiresAt |-> clock + Ttl]
  BY <1>1, GrantEffect
<1>3. clock < clock + Ttl
  BY StoreAssumption DEF StructureOK
<1>4. /\ pc[e] = "admitted"
      /\ Goto(e, "marking") \/ Goto(e, "refused")
      /\ UNCHANGED <<writerVars, processVars, active, cleanup, record>>
  BY DEF ReserveGranted, ReserveUnknown
<1> QED BY <1>1, <1>2, <1>3, <1>4, GrantEffect

(* What a commit of the pending batch changes, whether or not the writer   *)
(* learns of it.                                                           *)
LEMMA PendingEffect ==
  ASSUME StructureOK, NEW i \in Instances, SettlePending(i)
  PROVE  /\ reservation' \in [Events -> RowOrNone]
         /\ audits' = audits \cup batch[i]
         /\ \A e \in Events : reservation'[e] \in {reservation[e], NoReservation}
         /\ \A e \in batch[i] \ audits : reservation'[e] = NoReservation
         /\ \A e \in Events : reservation'[e] # reservation[e] => e \in batch[i]
         /\ phase[i] = "persist"
         /\ UNCHANGED <<liveKeys, clock>>
<1>1. batch[i] \in SUBSET Events /\ SettleBatch(batch[i], CostOf) /\ phase[i] = "persist"
  BY DEF SettlePending, StructureOK
<1> QED BY <1>1, SettleEffect

(* A scan finds unprotected rows.                                          *)
LEMMA ScanEffect ==
  ASSUME NEW i \in Instances, ScanExpired(i)
  PROVE  \E T \in SUBSET Events :
           /\ T \cap cleanup[i].protected = {}
           /\ cleanup' = [cleanup EXCEPT ![i] =
                [phase |-> "release", protected |-> cleanup[i].protected,
                 cutoff |-> cleanup[i].cutoff, targets |-> T]]
<1>1. PICK candidates \in Oldest(ExpiredBy(cleanup[i].cutoff), ScanLimit(i)) :
        \E targets \in Oldest(candidates \ cleanup[i].protected, CleanupLimit) :
          cleanup' = [cleanup EXCEPT ![i] =
            [phase |-> "release", protected |-> cleanup[i].protected,
             cutoff |-> cleanup[i].cutoff, targets |-> targets]]
  BY DEF ScanExpired
<1>2. PICK targets \in Oldest(candidates \ cleanup[i].protected, CleanupLimit) :
        cleanup' = [cleanup EXCEPT ![i] =
          [phase |-> "release", protected |-> cleanup[i].protected,
           cutoff |-> cleanup[i].cutoff, targets |-> targets]]
  BY <1>1
<1>3. candidates \in SUBSET Events
  BY DEF Oldest, ExpiredBy
<1>4. targets \in SUBSET (candidates \ cleanup[i].protected)
  BY DEF Oldest
<1> QED BY <1>2, <1>3, <1>4

(* What a step of a cleanup through its targets changes.                   *)
LEMMA TargetsEffect ==
  ASSUME StructureOK, NEW i \in Instances, ReleaseTargets(i)
  PROVE  /\ reservation' \in [Events -> RowOrNone]
         /\ \A e \in Events : reservation'[e] \in {reservation[e], NoReservation}
         /\ \A e \in Events : reservation'[e] # reservation[e] =>
              /\ e \in cleanup[i].targets
              /\ reservation[e].expiresAt <= cleanup[i].cutoff
         /\ cleanup[i].phase = "release"
         /\ \E S \in SUBSET Events :
              cleanup' = [cleanup EXCEPT ![i].targets = cleanup[i].targets \ S]
         /\ UNCHANGED <<liveKeys, audits, clock, writerVars, processVars, active,
                        requestVars>>
<1>1. PICK k \in Keys :
        /\ ReleaseExpired(k, cleanup[i].targets, cleanup[i].cutoff)
        /\ cleanup' = [cleanup EXCEPT ![i].targets = cleanup[i].targets \
             OfKey(cleanup[i].targets, k)]
  BY DEF ReleaseTargets
<1>2. cleanup[i].targets \in SUBSET Events /\ cleanup[i].cutoff \in Nat
  BY DEF StructureOK, Cleanup
<1>3. OfKey(cleanup[i].targets, k) \in SUBSET Events
  BY <1>2 DEF OfKey
<1>4. /\ cleanup[i].phase = "release"
      /\ UNCHANGED <<writerVars, processVars, active, requestVars>>
  BY DEF ReleaseTargets
<1> QED BY <1>1, <1>2, <1>3, <1>4, ReleaseEffect

(* What the removal of a key changes.                                      *)
LEMMA RemoveEffect ==
  ASSUME StructureOK, NEW k \in Keys, RemoveKey(k)
  PROVE  /\ reservation' \in [Events -> RowOrNone]
         /\ \A e \in Events : reservation'[e] \in {reservation[e], NoReservation}
         /\ \A e \in Events : reservation'[e] # reservation[e] => KeyOf[e] \notin liveKeys'
         /\ liveKeys' \subseteq Keys
         /\ UNCHANGED <<audits, clock, pc>>
  BY DeleteEffect DEF RemoveKey, requestVars

-----------------------------------------------------------------------------
(* Types.                                                                  *)

(* A step of a request keeps the types.                                    *)
LEMMA RequestTypes ==
  ASSUME StructureOK, NEW e \in Events, Request(e)
  PROVE  StructureOK'
<1> USE StoreAssumption, LedgerAssumption
<1> USE DEF StructureOK, RowOrNone, Cleanup, PCs, Phases, InFlight, Unrecorded, Goto,
        storeVars, writerVars, processVars, requestVars
<1>1. CASE Admit(e)
  BY <1>1 DEF Admit
<1>2. CASE RefuseNotReady(e)
  BY <1>2 DEF RefuseNotReady
<1>3. CASE ReserveGranted(e)
  BY <1>3, ReserveEffect
<1>4. CASE ReserveUnknown(e)
  BY <1>4, ReserveEffect
<1>5. CASE ReserveDenied(e)
  BY <1>5 DEF ReserveDenied
<1>6. CASE ReserveSkipped(e)
  BY <1>6 DEF ReserveSkipped
<1>7. CASE MarkActive(e)
  BY <1>7 DEF MarkActive
<1>8. CASE Finish(e)
  BY <1>8 DEF Finish
<1>9. CASE Enqueue(e)
  BY <1>9 DEF Enqueue
<1>10. CASE WaitForSpace(e)
  BY <1>10 DEF WaitForSpace
<1>11. CASE DropWaiting(e)
  BY <1>11 DEF DropWaiting
<1>12. CASE TurnedAway(e)
  BY <1>12 DEF TurnedAway
<1>13. CASE BudgetSpent(e)
  BY <1>13 DEF BudgetSpent
<1>14. CASE AckTimeout(e)
  BY <1>14 DEF AckTimeout
<1> QED BY <1>1, <1>2, <1>3, <1>4, <1>5, <1>6, <1>7, <1>8, <1>9, <1>10, <1>11, <1>12,
     <1>13, <1>14 DEF Request

(* A step of the writer keeps the types.                                   *)
LEMMA WriterTypes ==
  ASSUME StructureOK, NEW i \in Instances, Writer(i)
  PROVE  StructureOK'
<1> USE StoreAssumption, LedgerAssumption
<1> USE DEF StructureOK, RowOrNone, Cleanup, PCs, Phases, InFlight, Unrecorded, Goto,
        storeVars, writerVars, processVars, requestVars
<1>1. CASE TakeRecord(i)
  BY <1>1 DEF TakeRecord
<1>2. CASE Flush(i)
  BY <1>2 DEF Flush
<1>3. CASE RejectRecord(i)
  BY <1>3 DEF RejectRecord, Invalid
<1>4. CASE CommitBatch(i)
  BY <1>4, PendingEffect DEF CommitBatch
<1>5. CASE CommitUnknown(i)
  BY <1>5, PendingEffect DEF CommitUnknown
<1>6. CASE NotifyCommitted(i)
  BY <1>6 DEF NotifyCommitted
<1>7. CASE Close(i)
  BY <1>7 DEF Close
<1>8. CASE WriterDone(i)
  BY <1>8 DEF WriterDone
<1> QED BY <1>1, <1>2, <1>3, <1>4, <1>5, <1>6, <1>7, <1>8 DEF Writer

(* A step of a cleaner keeps the types.                                    *)
LEMMA CleanerTypes ==
  ASSUME StructureOK, NEW i \in Instances, Cleaner(i)
  PROVE  StructureOK'
<1> USE StoreAssumption, LedgerAssumption
<1> USE DEF StructureOK, RowOrNone, Cleanup, PCs, Phases, InFlight, Unrecorded, Goto,
        storeVars, writerVars, processVars, requestVars
<1>1. CASE SnapshotProtected(i)
  BY <1>1 DEF SnapshotProtected
<1>2. CASE ScanExpired(i)
  <2>1. cleanup[i] \in Cleanup
    OBVIOUS
  <2>2. PICK T \in SUBSET Events : cleanup' = [cleanup EXCEPT ![i] =
          [phase |-> "release", protected |-> cleanup[i].protected,
           cutoff |-> cleanup[i].cutoff, targets |-> T]]
    BY <1>2, ScanEffect
  <2> QED BY <1>2, <2>1, <2>2 DEF ScanExpired
<1>3. CASE ReleaseTargets(i)
  <2>1. cleanup[i] \in Cleanup
    OBVIOUS
  <2>2. PICK S \in SUBSET Events :
          cleanup' = [cleanup EXCEPT ![i].targets = cleanup[i].targets \ S]
    BY <1>3, TargetsEffect
  <2>3. [cleanup[i] EXCEPT !.targets = cleanup[i].targets \ S] \in Cleanup
    BY <2>1
  <2> QED BY <1>3, <2>2, <2>3, TargetsEffect
<1>4. CASE CleanupReturns(i)
  BY <1>4 DEF CleanupReturns, Idle
<1> QED BY <1>1, <1>2, <1>3, <1>4 DEF Cleaner

(* The end or the start of a process keeps the types.                      *)
LEMMA ProcessTypes ==
  ASSUME StructureOK, NEW i \in Instances, Process(i)
  PROVE  StructureOK'
<1> USE StoreAssumption, LedgerAssumption
<1> USE DEF StructureOK, RowOrNone, Cleanup, PCs, Phases, InFlight, Unrecorded, Goto,
        storeVars, writerVars, processVars, requestVars
<1>1. CASE Crash(i)
  BY <1>1 DEF Crash, Idle, DiesWith
<1>2. CASE Restart(i)
  BY <1>2 DEF Restart
<1> QED BY <1>1, <1>2 DEF Process

(* A step of the administrator keeps the types.                            *)
LEMMA AdministratorTypes ==
  ASSUME StructureOK, NEW k \in Keys, Administrator(k)
  PROVE  StructureOK'
<1> USE StoreAssumption, LedgerAssumption
<1> USE DEF StructureOK, RowOrNone, Cleanup, PCs, Phases, InFlight, Unrecorded, Goto,
        storeVars, writerVars, processVars, requestVars
<1>1. CASE ChangeLimit(k)
  BY <1>1 DEF ChangeLimit, UpdateLimit
<1>2. CASE RemoveKey(k)
  BY <1>2, RemoveEffect DEF RemoveKey
<1> QED BY <1>1, <1>2 DEF Administrator

(* The passing of time keeps the types.                                    *)
LEMMA TickTypes ==
  ASSUME StructureOK, Tick
  PROVE  StructureOK'
<1> USE StoreAssumption, LedgerAssumption
<1> USE DEF StructureOK, RowOrNone, Cleanup, PCs, Phases, InFlight, Unrecorded, Goto,
        storeVars, writerVars, processVars, requestVars
<1> QED BY DEF Tick

(* A stuttering step keeps the types.                                      *)
LEMMA StutterTypes ==
  ASSUME StructureOK, UNCHANGED vars
  PROVE  StructureOK'
<1> USE StoreAssumption, LedgerAssumption
<1> USE DEF StructureOK, RowOrNone, Cleanup, PCs, Phases, InFlight, Unrecorded, Goto,
        storeVars, writerVars, processVars, requestVars
<1> QED BY DEF vars

(* Every variable but the sums of money keeps its type.                    *)
THEOREM TypeCorrect == Spec => []StructureOK
<1>1. Init => StructureOK
  BY StoreAssumption, LedgerAssumption DEF Init, Idle, StructureOK, RowOrNone, Cleanup,
       PCs, Phases, InFlight, Unrecorded, Goto,
        storeVars, writerVars, processVars, requestVars
<1>2. StructureOK /\ [Next]_vars => StructureOK'
  BY RequestTypes, WriterTypes, CleanerTypes, ProcessTypes, AdministratorTypes,
       TickTypes, StutterTypes DEF Next
<1> QED BY <1>1, <1>2, PTL DEF Spec

-----------------------------------------------------------------------------
(* Records.                                                                *)

(* A step of a request keeps the invariant of the records.                 *)
LEMMA RequestRecords ==
  ASSUME StructureOK, RecordInv, NEW e \in Events, Request(e)
  PROVE  RecordInv'
<1> USE StoreAssumption, LedgerAssumption
<1> USE DEF RecordInv, WriterHas, TakenOnce, AwaitedIsQueued, NotifiedIsStored,
     DoneIsStopped,
        UnrecordedIsUnstored, AckMeansDurable, AcceptedIsAccounted,
        StructureOK, InFlight, Unrecorded, Goto, storeVars, writerVars, processVars,
             requestVars
<1>1. CASE Admit(e)
  BY <1>1 DEF Admit
<1>2. CASE RefuseNotReady(e)
  BY <1>2 DEF RefuseNotReady
<1>3. CASE ReserveGranted(e)
  <2>1. /\ reservation' \in [Events -> RowOrNone]
        /\ clock < reservation'[e].expiresAt
        /\ \A f \in Events \ {e} : reservation'[f] \in {reservation[f], NoReservation}
        /\ pc[e] = "admitted"
        /\ UNCHANGED <<audits, clock, queue, batch, phase, stopping, active, cleanup>>
    BY <1>3, ReserveEffect
  <2>2. pc' = [pc EXCEPT ![e] = "marking"]
    BY <1>3 DEF ReserveGranted
  <2> QED BY <2>1, <2>2
<1>4. CASE ReserveUnknown(e)
  <2>1. /\ reservation' \in [Events -> RowOrNone]
        /\ clock < reservation'[e].expiresAt
        /\ \A f \in Events \ {e} : reservation'[f] \in {reservation[f], NoReservation}
        /\ pc[e] = "admitted"
        /\ UNCHANGED <<audits, clock, queue, batch, phase, stopping, active, cleanup>>
    BY <1>4, ReserveEffect
  <2>2. pc' = [pc EXCEPT ![e] = "refused"]
    BY <1>4 DEF ReserveUnknown
  <2> QED BY <2>1, <2>2
<1>5. CASE ReserveDenied(e)
  BY <1>5 DEF ReserveDenied
<1>6. CASE ReserveSkipped(e)
  BY <1>6 DEF ReserveSkipped
<1>7. CASE MarkActive(e)
  BY <1>7 DEF MarkActive
<1>8. CASE Finish(e)
  BY <1>8 DEF Finish
<1>9. CASE Enqueue(e)
  BY <1>9 DEF Enqueue
<1>10. CASE WaitForSpace(e)
  BY <1>10 DEF WaitForSpace
<1>11. CASE DropWaiting(e)
  BY <1>11 DEF DropWaiting
<1>12. CASE TurnedAway(e)
  BY <1>12 DEF TurnedAway
<1>13. CASE BudgetSpent(e)
  BY <1>13 DEF BudgetSpent
<1>14. CASE AckTimeout(e)
  BY <1>14 DEF AckTimeout
<1> QED BY <1>1, <1>2, <1>3, <1>4, <1>5, <1>6, <1>7, <1>8, <1>9, <1>10, <1>11, <1>12,
     <1>13, <1>14 DEF Request

(* A step of the writer keeps the invariant of the records.                *)
LEMMA WriterRecords ==
  ASSUME StructureOK, RecordInv, NEW i \in Instances, Writer(i)
  PROVE  RecordInv'
<1> USE StoreAssumption, LedgerAssumption
<1> USE DEF RecordInv, WriterHas, TakenOnce, AwaitedIsQueued, NotifiedIsStored,
     DoneIsStopped,
        UnrecordedIsUnstored, AckMeansDurable, AcceptedIsAccounted,
        StructureOK, InFlight, Unrecorded, Goto, storeVars, writerVars, processVars,
             requestVars
<1>1. CASE TakeRecord(i)
  BY <1>1 DEF TakeRecord
<1>2. CASE Flush(i)
  BY <1>2 DEF Flush
<1>3. CASE RejectRecord(i)
  <2>0. PICK e \in batch[i] :
          /\ batch' = [batch EXCEPT ![i] = batch[i] \ {e}]
          /\ phase' = [phase EXCEPT ![i] = IF batch[i] = {e} THEN "collect" ELSE phase[i]]
          /\ pc' = [pc EXCEPT ![e] = "rejected"]
    BY <1>3 DEF RejectRecord, Invalid
  <2>a. phase[i] = "persist" /\ UNCHANGED <<audits, queue, stopping>>
    BY <1>3 DEF RejectRecord
  <2>1. WriterHas'
    BY <2>0, <2>a
  <2>2. TakenOnce'
    BY <2>0, <2>a
  <2>3. AwaitedIsQueued'
    BY <2>0, <2>a
  <2>4. NotifiedIsStored'
    BY <2>0, <2>a
  <2>5. DoneIsStopped'
    BY <2>0, <2>a
  <2>6. UnrecordedIsUnstored'
    BY <2>0, <2>a
  <2>7. AckMeansDurable'
    BY <2>0, <2>a
  <2>8. AcceptedIsAccounted'
    BY <2>0, <2>a
  <2> QED BY <2>1, <2>2, <2>3, <2>4, <2>5, <2>6, <2>7, <2>8
<1>4. CASE CommitBatch(i)
  <2>0. /\ audits' = audits \cup batch[i]
        /\ phase' = [phase EXCEPT ![i] = "notify"]
        /\ UNCHANGED <<queue, batch, stopping, pc>>
    BY <1>4, PendingEffect DEF CommitBatch
  <2>1. WriterHas'
    BY <2>0
  <2>2. TakenOnce'
    BY <2>0
  <2>3. AwaitedIsQueued'
    BY <2>0
  <2>4. NotifiedIsStored'
    BY <2>0
  <2>5. DoneIsStopped'
    BY <2>0
  <2>6. UnrecordedIsUnstored'
    BY <2>0
  <2>7. AckMeansDurable'
    BY <2>0
  <2>8. AcceptedIsAccounted'
    BY <2>0
  <2> QED BY <2>1, <2>2, <2>3, <2>4, <2>5, <2>6, <2>7, <2>8
<1>5. CASE CommitUnknown(i)
  <2>0. /\ audits' = audits \cup batch[i]
        /\ UNCHANGED <<queue, batch, phase, stopping, pc>>
    BY <1>5, PendingEffect DEF CommitUnknown
  <2>1. WriterHas'
    BY <2>0
  <2>2. TakenOnce'
    BY <2>0
  <2>3. AwaitedIsQueued'
    BY <2>0
  <2>4. NotifiedIsStored'
    BY <2>0
  <2>5. DoneIsStopped'
    BY <2>0
  <2>6. UnrecordedIsUnstored'
    BY <2>0
  <2>7. AckMeansDurable'
    BY <2>0
  <2>8. AcceptedIsAccounted'
    BY <2>0
  <2> QED BY <2>1, <2>2, <2>3, <2>4, <2>5, <2>6, <2>7, <2>8
<1>6. CASE NotifyCommitted(i)
  <2>1. WriterHas'
    BY <1>6 DEF NotifyCommitted
  <2>2. TakenOnce'
    BY <1>6 DEF NotifyCommitted
  <2>3. AwaitedIsQueued'
    BY <1>6 DEF NotifyCommitted
  <2>4. NotifiedIsStored'
    BY <1>6 DEF NotifyCommitted
  <2>5. DoneIsStopped'
    BY <1>6 DEF NotifyCommitted
  <2>6. UnrecordedIsUnstored'
    BY <1>6 DEF NotifyCommitted
  <2>7. AckMeansDurable'
    BY <1>6 DEF NotifyCommitted
  <2>8. AcceptedIsAccounted'
    BY <1>6 DEF NotifyCommitted
  <2> QED BY <2>1, <2>2, <2>3, <2>4, <2>5, <2>6, <2>7, <2>8
<1>7. CASE Close(i)
  BY <1>7 DEF Close
<1>8. CASE WriterDone(i)
  BY <1>8 DEF WriterDone
<1> QED BY <1>1, <1>2, <1>3, <1>4, <1>5, <1>6, <1>7, <1>8 DEF Writer

(* A step of a cleaner keeps the invariant of the records.                 *)
LEMMA CleanerRecords ==
  ASSUME StructureOK, RecordInv, NEW i \in Instances, Cleaner(i)
  PROVE  RecordInv'
<1> USE StoreAssumption, LedgerAssumption
<1> USE DEF RecordInv, WriterHas, TakenOnce, AwaitedIsQueued, NotifiedIsStored,
     DoneIsStopped,
        UnrecordedIsUnstored, AckMeansDurable, AcceptedIsAccounted,
        StructureOK, InFlight, Unrecorded, Goto, storeVars, writerVars, processVars,
             requestVars
<1>1. CASE SnapshotProtected(i)
  BY <1>1 DEF SnapshotProtected
<1>2. CASE ScanExpired(i)
  BY <1>2 DEF ScanExpired, ExpiredBy
<1>3. CASE ReleaseTargets(i)
  BY <1>3, TargetsEffect
<1>4. CASE CleanupReturns(i)
  BY <1>4 DEF CleanupReturns, Idle
<1> QED BY <1>1, <1>2, <1>3, <1>4 DEF Cleaner

(* The end or the start of a process keeps the invariant of the records.   *)
LEMMA ProcessRecords ==
  ASSUME StructureOK, RecordInv, NEW i \in Instances, Process(i)
  PROVE  RecordInv'
<1> USE StoreAssumption, LedgerAssumption
<1> USE DEF RecordInv, WriterHas, TakenOnce, AwaitedIsQueued, NotifiedIsStored,
     DoneIsStopped,
        UnrecordedIsUnstored, AckMeansDurable, AcceptedIsAccounted,
        StructureOK, InFlight, Unrecorded, Goto, storeVars, writerVars, processVars,
             requestVars
<1>1. CASE Crash(i)
  BY <1>1 DEF Crash, Idle, DiesWith
<1>2. CASE Restart(i)
  BY <1>2 DEF Restart
<1> QED BY <1>1, <1>2 DEF Process

(* A step of the administrator keeps the invariant of the records.         *)
LEMMA AdministratorRecords ==
  ASSUME StructureOK, RecordInv, NEW k \in Keys, Administrator(k)
  PROVE  RecordInv'
<1> USE StoreAssumption, LedgerAssumption
<1> USE DEF RecordInv, WriterHas, TakenOnce, AwaitedIsQueued, NotifiedIsStored,
     DoneIsStopped,
        UnrecordedIsUnstored, AckMeansDurable, AcceptedIsAccounted,
        StructureOK, InFlight, Unrecorded, Goto, storeVars, writerVars, processVars,
             requestVars
<1>1. CASE ChangeLimit(k)
  BY <1>1 DEF ChangeLimit, UpdateLimit
<1>2. CASE RemoveKey(k)
  BY <1>2, RemoveEffect DEF RemoveKey
<1> QED BY <1>1, <1>2 DEF Administrator

(* The passing of time keeps the invariant of the records.                 *)
LEMMA TickRecords ==
  ASSUME StructureOK, RecordInv, Tick
  PROVE  RecordInv'
<1> USE StoreAssumption, LedgerAssumption
<1> USE DEF RecordInv, WriterHas, TakenOnce, AwaitedIsQueued, NotifiedIsStored,
     DoneIsStopped,
        UnrecordedIsUnstored, AckMeansDurable, AcceptedIsAccounted,
        StructureOK, InFlight, Unrecorded, Goto, storeVars, writerVars, processVars,
             requestVars
<1> QED BY DEF Tick

(* A stuttering step keeps the invariant of the records.                   *)
LEMMA StutterRecords ==
  ASSUME StructureOK, RecordInv, UNCHANGED vars
  PROVE  RecordInv'
<1> USE StoreAssumption, LedgerAssumption
<1> USE DEF RecordInv, WriterHas, TakenOnce, AwaitedIsQueued, NotifiedIsStored,
     DoneIsStopped,
        UnrecordedIsUnstored, AckMeansDurable, AcceptedIsAccounted,
        StructureOK, InFlight, Unrecorded, Goto, storeVars, writerVars, processVars,
             requestVars
<1> QED BY DEF vars

(* The invariant of the records.                                           *)
THEOREM RecordsSafe == Spec => []RecordInv
<1>1. Init => RecordInv
  BY StoreAssumption, LedgerAssumption DEF Init, Idle, RecordInv, WriterHas, TakenOnce,
       AwaitedIsQueued, NotifiedIsStored, DoneIsStopped,
        UnrecordedIsUnstored, AckMeansDurable, AcceptedIsAccounted,
        StructureOK, InFlight, Unrecorded, Goto, storeVars, writerVars, processVars,
             requestVars
<1>2. StructureOK /\ RecordInv /\ [Next]_vars => RecordInv'
  BY RequestRecords, WriterRecords, CleanerRecords, ProcessRecords,
       AdministratorRecords, TickRecords, StutterRecords DEF Next
<1> QED BY <1>1, <1>2, TypeCorrect, PTL DEF Spec

-----------------------------------------------------------------------------
(* Reservations, markers and cleaners.                                     *)

(* A step of a request keeps the invariant of the reservations.            *)
LEMMA RequestRows ==
  ASSUME StructureOK, RecordInv, RowInv, NEW e \in Events, Request(e)
  PROVE  RowInv'
<1> USE StoreAssumption, LedgerAssumption
<1> USE DEF RowInv, HoldsAfterAdmission, InFlightIsFresh, CleanupKnows,
        SettledHoldsNothing, ProtectedUntilSettled, MarkersReclaimed,
        StructureOK, RowOrNone, Cleanup, RecordInv, WriterHas, NotifiedIsStored,
             UnrecordedIsUnstored,
        Holds, InFlight, Unrecorded, Goto, storeVars, writerVars, processVars, requestVars
<1>1. CASE Admit(e)
  BY <1>1 DEF Admit
<1>2. CASE RefuseNotReady(e)
  BY <1>2 DEF RefuseNotReady
<1>3. CASE ReserveGranted(e)
  <2>1. /\ reservation' \in [Events -> RowOrNone]
        /\ clock < reservation'[e].expiresAt
        /\ \A f \in Events \ {e} : reservation'[f] \in {reservation[f], NoReservation}
        /\ pc[e] = "admitted"
        /\ UNCHANGED <<audits, clock, queue, batch, phase, stopping, active, cleanup>>
    BY <1>3, ReserveEffect
  <2>2. pc' = [pc EXCEPT ![e] = "marking"]
    BY <1>3 DEF ReserveGranted
  <2>3. \A f \in Events \ {e} : Holds(f)' => Holds(f) /\ reservation'[f] = reservation[f]
    BY <2>1
  <2>4. HoldsAfterAdmission'
    BY <2>1, <2>2, <2>3
  <2>5. InFlightIsFresh'
    BY <2>1, <2>2, <2>3
  <2>6. CleanupKnows'
    BY <2>1, <2>2, <2>3, SMTT(30)
  <2>7. SettledHoldsNothing'
    BY <2>1, <2>2, <2>3
  <2>8. ProtectedUntilSettled'
    BY <2>1, <2>2, <2>3
  <2>9. MarkersReclaimed'
    BY <2>1, <2>2, <2>3
  <2> QED BY <2>4, <2>5, <2>6, <2>7, <2>8, <2>9
<1>4. CASE ReserveUnknown(e)
  <2>1. /\ reservation' \in [Events -> RowOrNone]
        /\ clock < reservation'[e].expiresAt
        /\ \A f \in Events \ {e} : reservation'[f] \in {reservation[f], NoReservation}
        /\ pc[e] = "admitted"
        /\ UNCHANGED <<audits, clock, queue, batch, phase, stopping, active, cleanup>>
    BY <1>4, ReserveEffect
  <2>2. pc' = [pc EXCEPT ![e] = "refused"]
    BY <1>4 DEF ReserveUnknown
  <2>3. \A f \in Events \ {e} : Holds(f)' => Holds(f) /\ reservation'[f] = reservation[f]
    BY <2>1
  <2>4. HoldsAfterAdmission'
    BY <2>1, <2>2, <2>3
  <2>5. InFlightIsFresh'
    BY <2>1, <2>2, <2>3
  <2>6. CleanupKnows'
    BY <2>1, <2>2, <2>3, SMTT(30)
  <2>7. SettledHoldsNothing'
    BY <2>1, <2>2, <2>3
  <2>8. ProtectedUntilSettled'
    BY <2>1, <2>2, <2>3
  <2>9. MarkersReclaimed'
    BY <2>1, <2>2, <2>3
  <2> QED BY <2>4, <2>5, <2>6, <2>7, <2>8, <2>9
<1>5. CASE ReserveDenied(e)
  BY <1>5 DEF ReserveDenied
<1>6. CASE ReserveSkipped(e)
  BY <1>6 DEF ReserveSkipped
<1>7. CASE MarkActive(e)
  <2>1. HoldsAfterAdmission'
    BY <1>7 DEF MarkActive
  <2>2. InFlightIsFresh'
    BY <1>7 DEF MarkActive
  <2>3. CleanupKnows'
    BY <1>7 DEF MarkActive
  <2>4. SettledHoldsNothing'
    BY <1>7 DEF MarkActive
  <2>5. ProtectedUntilSettled'
    BY <1>7 DEF MarkActive
  <2>6. MarkersReclaimed'
    BY <1>7 DEF MarkActive
  <2> QED BY <2>1, <2>2, <2>3, <2>4, <2>5, <2>6
<1>8. CASE Finish(e)
  BY <1>8 DEF Finish
<1>9. CASE Enqueue(e)
  BY <1>9 DEF Enqueue
<1>10. CASE WaitForSpace(e)
  BY <1>10 DEF WaitForSpace
<1>11. CASE DropWaiting(e)
  BY <1>11 DEF DropWaiting
<1>12. CASE TurnedAway(e)
  BY <1>12 DEF TurnedAway
<1>13. CASE BudgetSpent(e)
  BY <1>13 DEF BudgetSpent
<1>14. CASE AckTimeout(e)
  BY <1>14 DEF AckTimeout
<1> QED BY <1>1, <1>2, <1>3, <1>4, <1>5, <1>6, <1>7, <1>8, <1>9, <1>10, <1>11, <1>12,
     <1>13, <1>14 DEF Request

(* A step of the writer keeps the invariant of the reservations.           *)
LEMMA WriterRows ==
  ASSUME StructureOK, RecordInv, RowInv, NEW i \in Instances, Writer(i)
  PROVE  RowInv'
<1> USE StoreAssumption, LedgerAssumption
<1> USE DEF RowInv, HoldsAfterAdmission, InFlightIsFresh, CleanupKnows,
        SettledHoldsNothing, ProtectedUntilSettled, MarkersReclaimed,
        StructureOK, RowOrNone, Cleanup, RecordInv, WriterHas, NotifiedIsStored,
             UnrecordedIsUnstored,
        Holds, InFlight, Unrecorded, Goto, storeVars, writerVars, processVars, requestVars
<1>1. CASE TakeRecord(i)
  BY <1>1 DEF TakeRecord
<1>2. CASE Flush(i)
  BY <1>2 DEF Flush
<1>3. CASE RejectRecord(i)
  BY <1>3 DEF RejectRecord, Invalid
<1>4. CASE CommitBatch(i)
  BY <1>4, PendingEffect DEF CommitBatch
<1>5. CASE CommitUnknown(i)
  BY <1>5, PendingEffect DEF CommitUnknown
<1>6. CASE NotifyCommitted(i)
  BY <1>6 DEF NotifyCommitted
<1>7. CASE Close(i)
  BY <1>7 DEF Close
<1>8. CASE WriterDone(i)
  BY <1>8 DEF WriterDone
<1> QED BY <1>1, <1>2, <1>3, <1>4, <1>5, <1>6, <1>7, <1>8 DEF Writer

(* A step of a cleaner keeps the invariant of the reservations.            *)
LEMMA CleanerRows ==
  ASSUME StructureOK, RecordInv, RowInv, NEW i \in Instances, Cleaner(i)
  PROVE  RowInv'
<1> USE StoreAssumption, LedgerAssumption
<1> USE DEF RowInv, HoldsAfterAdmission, InFlightIsFresh, CleanupKnows,
        SettledHoldsNothing, ProtectedUntilSettled, MarkersReclaimed,
        StructureOK, RowOrNone, Cleanup, RecordInv, WriterHas, NotifiedIsStored,
             UnrecordedIsUnstored,
        Holds, InFlight, Unrecorded, Goto, storeVars, writerVars, processVars, requestVars
<1>1. CASE SnapshotProtected(i)
  BY <1>1 DEF SnapshotProtected
<1>2. CASE ScanExpired(i)
  <2>0. PICK T \in SUBSET Events :
          /\ T \cap cleanup[i].protected = {}
          /\ cleanup' = [cleanup EXCEPT ![i] =
               [phase |-> "release", protected |-> cleanup[i].protected,
                cutoff |-> cleanup[i].cutoff, targets |-> T]]
    BY <1>2, ScanEffect
  <2>c. T \cap cleanup[i].protected = {}
    BY <2>0
  <2>a. /\ cleanup[i] \in Cleanup /\ cleanup[i].phase /= "idle"
        /\ UNCHANGED <<reservation, audits, clock, active, pc>>
    BY <1>2 DEF ScanExpired
  <2>b. /\ \A j \in Instances \ {i} : cleanup'[j] = cleanup[j]
        /\ cleanup'[i].protected = cleanup[i].protected
        /\ cleanup'[i].cutoff = cleanup[i].cutoff
        /\ cleanup'[i].targets = T
    BY <2>0, <2>a
  <2>1. HoldsAfterAdmission'
    BY <2>a, <2>b, <2>c
  <2>2. InFlightIsFresh'
    BY <2>a, <2>b, <2>c
  <2>3. CleanupKnows'
    <3> SUFFICES ASSUME NEW j \in Instances, cleanup'[j].phase /= "idle"
        PROVE  /\ cleanup'[j].cutoff <= clock
               /\ cleanup'[j].targets \cap cleanup'[j].protected = {}
               /\ \A e \in active[j] \ cleanup'[j].protected :
                    Holds(e) => cleanup'[j].cutoff < reservation[e].expiresAt
      BY <2>a
    <3>1. CASE j = i
      BY <2>a, <2>b, <2>c, <3>1
    <3>2. CASE j /= i
      BY <2>a, <2>b, <3>2
    <3> QED BY <3>1, <3>2
  <2>4. SettledHoldsNothing'
    BY <2>a, <2>b, <2>c
  <2>5. ProtectedUntilSettled'
    BY <2>a, <2>b, <2>c
  <2>6. MarkersReclaimed'
    BY <2>a, <2>b, <2>c
  <2> QED BY <2>1, <2>2, <2>3, <2>4, <2>5, <2>6
<1>3. CASE ReleaseTargets(i)
  <2>1. PICK S \in SUBSET Events :
          cleanup' = [cleanup EXCEPT ![i].targets = cleanup[i].targets \ S]
    BY <1>3, TargetsEffect
  <2>2. \A j \in Instances :
          /\ cleanup'[j].phase = cleanup[j].phase
          /\ cleanup'[j].protected = cleanup[j].protected
          /\ cleanup'[j].cutoff = cleanup[j].cutoff
          /\ cleanup'[j].targets \subseteq cleanup[j].targets
    BY <2>1
  <2>3. /\ \A f \in Events : Holds(f)' => Holds(f) /\ reservation'[f] = reservation[f]
        /\ UNCHANGED <<audits, clock, active, pc>>
    BY <1>3, TargetsEffect
  <2>4. HoldsAfterAdmission'
    BY <2>2, <2>3
  <2>5. InFlightIsFresh'
    BY <2>2, <2>3
  <2>6. CleanupKnows'
    BY <2>2, <2>3
  <2>7. SettledHoldsNothing'
    BY <2>2, <2>3
  <2>8. ProtectedUntilSettled'
    BY <2>2, <2>3
  <2>9. MarkersReclaimed'
    BY <2>2, <2>3
  <2> QED BY <2>4, <2>5, <2>6, <2>7, <2>8, <2>9
<1>4. CASE CleanupReturns(i)
  BY <1>4 DEF CleanupReturns, Idle
<1> QED BY <1>1, <1>2, <1>3, <1>4 DEF Cleaner

(* The end or the start of a process keeps the invariant of the            *)
(* reservations.                                                           *)
LEMMA ProcessRows ==
  ASSUME StructureOK, RecordInv, RowInv, NEW i \in Instances, Process(i)
  PROVE  RowInv'
<1> USE StoreAssumption, LedgerAssumption
<1> USE DEF RowInv, HoldsAfterAdmission, InFlightIsFresh, CleanupKnows,
        SettledHoldsNothing, ProtectedUntilSettled, MarkersReclaimed,
        StructureOK, RowOrNone, Cleanup, RecordInv, WriterHas, NotifiedIsStored,
             UnrecordedIsUnstored,
        Holds, InFlight, Unrecorded, Goto, storeVars, writerVars, processVars, requestVars
<1>1. CASE Crash(i)
  <2>1. HoldsAfterAdmission'
    BY <1>1 DEF Crash, Idle, DiesWith
  <2>2. InFlightIsFresh'
    BY <1>1 DEF Crash, Idle, DiesWith
  <2>3. CleanupKnows'
    BY <1>1 DEF Crash, Idle, DiesWith
  <2>4. SettledHoldsNothing'
    BY <1>1 DEF Crash, Idle, DiesWith
  <2>5. ProtectedUntilSettled'
    BY <1>1 DEF Crash, Idle, DiesWith, AcceptedIsAccounted
  <2>6. MarkersReclaimed'
    BY <1>1 DEF Crash, Idle, DiesWith
  <2> QED BY <2>1, <2>2, <2>3, <2>4, <2>5, <2>6
<1>2. CASE Restart(i)
  BY <1>2 DEF Restart
<1> QED BY <1>1, <1>2 DEF Process

(* A step of the administrator keeps the invariant of the reservations.    *)
LEMMA AdministratorRows ==
  ASSUME StructureOK, RecordInv, RowInv, NEW k \in Keys, Administrator(k)
  PROVE  RowInv'
<1> USE StoreAssumption, LedgerAssumption
<1> USE DEF RowInv, HoldsAfterAdmission, InFlightIsFresh, CleanupKnows,
        SettledHoldsNothing, ProtectedUntilSettled, MarkersReclaimed,
        StructureOK, RowOrNone, Cleanup, RecordInv, WriterHas, NotifiedIsStored,
             UnrecordedIsUnstored,
        Holds, InFlight, Unrecorded, Goto, storeVars, writerVars, processVars, requestVars
<1>1. CASE ChangeLimit(k)
  BY <1>1 DEF ChangeLimit, UpdateLimit
<1>2. CASE RemoveKey(k)
  BY <1>2, RemoveEffect DEF RemoveKey
<1> QED BY <1>1, <1>2 DEF Administrator

(* The passing of time keeps the invariant of the reservations.            *)
LEMMA TickRows ==
  ASSUME StructureOK, RecordInv, RowInv, Tick
  PROVE  RowInv'
<1> USE StoreAssumption, LedgerAssumption
<1> USE DEF RowInv, HoldsAfterAdmission, InFlightIsFresh, CleanupKnows,
        SettledHoldsNothing, ProtectedUntilSettled, MarkersReclaimed,
        StructureOK, RowOrNone, Cleanup, RecordInv, WriterHas, NotifiedIsStored,
             UnrecordedIsUnstored,
        Holds, InFlight, Unrecorded, Goto, storeVars, writerVars, processVars, requestVars
<1> QED BY DEF Tick

(* A stuttering step keeps the invariant of the reservations.              *)
LEMMA StutterRows ==
  ASSUME StructureOK, RecordInv, RowInv, UNCHANGED vars
  PROVE  RowInv'
<1> USE StoreAssumption, LedgerAssumption
<1> USE DEF RowInv, HoldsAfterAdmission, InFlightIsFresh, CleanupKnows,
        SettledHoldsNothing, ProtectedUntilSettled, MarkersReclaimed,
        StructureOK, RowOrNone, Cleanup, RecordInv, WriterHas, NotifiedIsStored,
             UnrecordedIsUnstored,
        Holds, InFlight, Unrecorded, Goto, storeVars, writerVars, processVars, requestVars
<1> QED BY DEF vars

(* The invariant of the reservations.                                      *)
THEOREM RowsSafe == Spec => []RowInv
<1>1. Init => RowInv
  BY StoreAssumption, LedgerAssumption DEF Init, Idle, RowInv, HoldsAfterAdmission,
       InFlightIsFresh, CleanupKnows,
        SettledHoldsNothing, ProtectedUntilSettled, MarkersReclaimed,
        StructureOK, RowOrNone, Cleanup, RecordInv, WriterHas, NotifiedIsStored,
             UnrecordedIsUnstored,
        Holds, InFlight, Unrecorded, Goto, storeVars, writerVars, processVars, requestVars
<1>2. StructureOK /\ RecordInv /\ RowInv /\ [Next]_vars => RowInv'
  BY RequestRows, WriterRows, CleanerRows, ProcessRows, AdministratorRows, TickRows,
       StutterRows DEF Next
<1> QED BY <1>1, <1>2, TypeCorrect, RecordsSafe, PTL DEF Spec

-----------------------------------------------------------------------------
(* Steps.                                                                  *)

(* What no step may do: forget a stored record, store one that was never   *)
(* queued, take a request back to the start, give a row to a request that has not just
     been admitted, or take *)
(* a row away without a cause.                                             *)
Moves ==
  /\ audits \subseteq audits'
  /\ \A e \in Events : e \in audits' \ audits => pc[e] \in {"awaiting", "timedout"}
  /\ \A e \in Events : pc'[e] \in {"new", "admitted"} => pc[e] \in {"new", "admitted"}
  /\ \A e \in Events : Holds(e)' /\ ~Holds(e) => pc[e] = "admitted" /\ e \notin audits'
  /\ \A e \in Events : Holds(e) /\ ~Holds(e)' =>
       \/ e \in audits'
       \/ KeyOf[e] \notin liveKeys'
       \/ reservation[e].expiresAt <= clock

(* A step of a request moves forward.                                      *)
LEMMA RequestMoves ==
  ASSUME StructureOK, RecordInv, RowInv, NEW e \in Events, Request(e)
  PROVE  Moves
<1> USE StoreAssumption, LedgerAssumption
<1> USE DEF Moves, RowInv, HoldsAfterAdmission, CleanupKnows, RecordInv,
     UnrecordedIsUnstored, WriterHas,
        StructureOK, RowOrNone, Cleanup, Holds, Unrecorded, Goto,
        storeVars, writerVars, processVars, requestVars
<1>1. CASE Admit(e)
  BY <1>1 DEF Admit
<1>2. CASE RefuseNotReady(e)
  BY <1>2 DEF RefuseNotReady
<1>3. CASE ReserveGranted(e)
  <2>1. /\ \A f \in Events \ {e} : reservation'[f] \in {reservation[f], NoReservation}
        /\ \A f \in Events \ {e} : reservation'[f] # reservation[f] =>
             reservation[f].expiresAt <= clock
        /\ pc[e] = "admitted" /\ UNCHANGED audits
        /\ Goto(e, "marking") \/ Goto(e, "refused")
    BY <1>3, ReserveEffect
  <2>2. ~Holds(e) /\ e \notin audits
    BY <2>1
  <2> QED BY <2>1, <2>2
<1>4. CASE ReserveUnknown(e)
  <2>1. /\ \A f \in Events \ {e} : reservation'[f] \in {reservation[f], NoReservation}
        /\ \A f \in Events \ {e} : reservation'[f] # reservation[f] =>
             reservation[f].expiresAt <= clock
        /\ pc[e] = "admitted" /\ UNCHANGED audits
        /\ Goto(e, "marking") \/ Goto(e, "refused")
    BY <1>4, ReserveEffect
  <2>2. ~Holds(e) /\ e \notin audits
    BY <2>1
  <2> QED BY <2>1, <2>2
<1>5. CASE ReserveDenied(e)
  BY <1>5 DEF ReserveDenied
<1>6. CASE ReserveSkipped(e)
  BY <1>6 DEF ReserveSkipped
<1>7. CASE MarkActive(e)
  BY <1>7 DEF MarkActive
<1>8. CASE Finish(e)
  BY <1>8 DEF Finish
<1>9. CASE Enqueue(e)
  BY <1>9 DEF Enqueue
<1>10. CASE WaitForSpace(e)
  BY <1>10 DEF WaitForSpace
<1>11. CASE DropWaiting(e)
  BY <1>11 DEF DropWaiting
<1>12. CASE TurnedAway(e)
  BY <1>12 DEF TurnedAway
<1>13. CASE BudgetSpent(e)
  BY <1>13 DEF BudgetSpent
<1>14. CASE AckTimeout(e)
  BY <1>14 DEF AckTimeout
<1> QED BY <1>1, <1>2, <1>3, <1>4, <1>5, <1>6, <1>7, <1>8, <1>9, <1>10, <1>11, <1>12,
     <1>13, <1>14 DEF Request

(* A step of the writer moves forward.                                     *)
LEMMA WriterMoves ==
  ASSUME StructureOK, RecordInv, RowInv, NEW i \in Instances, Writer(i)
  PROVE  Moves
<1> USE StoreAssumption, LedgerAssumption
<1> USE DEF Moves, RowInv, HoldsAfterAdmission, CleanupKnows, RecordInv,
     UnrecordedIsUnstored, WriterHas,
        StructureOK, RowOrNone, Cleanup, Holds, Unrecorded, Goto,
        storeVars, writerVars, processVars, requestVars
<1>1. CASE TakeRecord(i)
  BY <1>1 DEF TakeRecord
<1>2. CASE Flush(i)
  BY <1>2 DEF Flush
<1>3. CASE RejectRecord(i)
  BY <1>3 DEF RejectRecord
<1>4. CASE CommitBatch(i)
  BY <1>4, PendingEffect DEF CommitBatch
<1>5. CASE CommitUnknown(i)
  BY <1>5, PendingEffect DEF CommitUnknown
<1>6. CASE NotifyCommitted(i)
  BY <1>6 DEF NotifyCommitted
<1>7. CASE Close(i)
  BY <1>7 DEF Close
<1>8. CASE WriterDone(i)
  BY <1>8 DEF WriterDone
<1> QED BY <1>1, <1>2, <1>3, <1>4, <1>5, <1>6, <1>7, <1>8 DEF Writer

(* A step of a cleaner moves forward.                                      *)
LEMMA CleanerMoves ==
  ASSUME StructureOK, RecordInv, RowInv, NEW i \in Instances, Cleaner(i)
  PROVE  Moves
<1> USE StoreAssumption, LedgerAssumption
<1> USE DEF Moves, RowInv, HoldsAfterAdmission, CleanupKnows, RecordInv,
     UnrecordedIsUnstored, WriterHas,
        StructureOK, RowOrNone, Cleanup, Holds, Unrecorded, Goto,
        storeVars, writerVars, processVars, requestVars
<1>1. CASE SnapshotProtected(i)
  BY <1>1 DEF SnapshotProtected
<1>2. CASE ScanExpired(i)
  BY <1>2 DEF ScanExpired
<1>3. CASE ReleaseTargets(i)
  <2>1. /\ \A e \in Events : reservation'[e] # reservation[e] =>
             reservation[e].expiresAt <= cleanup[i].cutoff
        /\ \A e \in Events : Holds(e)' => Holds(e)
        /\ UNCHANGED <<audits, pc>>
    BY <1>3, TargetsEffect
  <2>2. cleanup[i].cutoff <= clock /\ cleanup[i].cutoff \in Nat /\ clock \in Nat
    BY <1>3, TargetsEffect
  <2>3. \A e \in Events : Holds(e) => reservation[e].expiresAt \in Nat
    OBVIOUS
  <2> QED BY <2>1, <2>2, <2>3
<1>4. CASE CleanupReturns(i)
  BY <1>4 DEF CleanupReturns
<1> QED BY <1>1, <1>2, <1>3, <1>4 DEF Cleaner

(* The end or the start of a process moves forward.                        *)
LEMMA ProcessMoves ==
  ASSUME StructureOK, RecordInv, RowInv, NEW i \in Instances, Process(i)
  PROVE  Moves
<1> USE StoreAssumption, LedgerAssumption
<1> USE DEF Moves, RowInv, HoldsAfterAdmission, CleanupKnows, RecordInv,
     UnrecordedIsUnstored, WriterHas,
        StructureOK, RowOrNone, Cleanup, Holds, Unrecorded, Goto,
        storeVars, writerVars, processVars, requestVars
<1>1. CASE Crash(i)
  BY <1>1 DEF Crash, DiesWith
<1>2. CASE Restart(i)
  BY <1>2 DEF Restart
<1> QED BY <1>1, <1>2 DEF Process

(* A step of the administrator moves forward.                              *)
LEMMA AdministratorMoves ==
  ASSUME StructureOK, RecordInv, RowInv, NEW k \in Keys, Administrator(k)
  PROVE  Moves
<1> USE StoreAssumption, LedgerAssumption
<1> USE DEF Moves, RowInv, HoldsAfterAdmission, CleanupKnows, RecordInv,
     UnrecordedIsUnstored, WriterHas,
        StructureOK, RowOrNone, Cleanup, Holds, Unrecorded, Goto,
        storeVars, writerVars, processVars, requestVars
<1>1. CASE ChangeLimit(k)
  BY <1>1 DEF ChangeLimit, UpdateLimit
<1>2. CASE RemoveKey(k)
  BY <1>2, RemoveEffect DEF RemoveKey
<1> QED BY <1>1, <1>2 DEF Administrator

(* The passing of time moves forward.                                      *)
LEMMA TickMoves ==
  ASSUME StructureOK, RecordInv, RowInv, Tick
  PROVE  Moves
<1> USE StoreAssumption, LedgerAssumption
<1> USE DEF Moves, RowInv, HoldsAfterAdmission, CleanupKnows, RecordInv,
     UnrecordedIsUnstored, WriterHas,
        StructureOK, RowOrNone, Cleanup, Holds, Unrecorded, Goto,
        storeVars, writerVars, processVars, requestVars
<1> QED BY DEF Tick

(* Every step moves forward.                                               *)
LEMMA StepMoves ==
  ASSUME StructureOK, RecordInv, RowInv, [Next]_vars
  PROVE  Moves
<1>1. CASE UNCHANGED vars
  BY <1>1 DEF Moves, Holds, vars, storeVars
<1>2. CASE Next
  BY <1>2, RequestMoves, WriterMoves, CleanerMoves, ProcessMoves, AdministratorMoves,
     TickMoves DEF Next
<1> QED BY <1>1, <1>2

(* A reservation of a request disappears only because its record is       *)
(* stored, its key is deleted, or it has expired after its request.        *)
THEOREM RowsLeave == Spec => RowsLeaveForCause
<1>1. StructureOK /\ RecordInv /\ RowInv /\ [Next]_vars =>
        [\A e \in Events : Holds(e) /\ ~Holds(e)' =>
           \/ e \in audits'
           \/ KeyOf[e] \notin liveKeys'
           \/ reservation[e].expiresAt <= clock /\ pc[e] \notin InFlight]_vars
  <2> SUFFICES ASSUME StructureOK, RecordInv, RowInv, [Next]_vars,
                      NEW e \in Events, Holds(e), ~Holds(e)',
                      e \notin audits', KeyOf[e] \in liveKeys'
               PROVE  reservation[e].expiresAt <= clock /\ pc[e] \notin InFlight
    OBVIOUS
  <2>1. reservation[e].expiresAt <= clock
    BY StepMoves DEF Moves
  <2>2. pc[e] \in InFlight => clock < reservation[e].expiresAt
    BY DEF RowInv, InFlightIsFresh
  <2>3. reservation[e].expiresAt \in Int /\ clock \in Int
    BY DEF StructureOK, RowOrNone, Holds
  <2> QED BY <2>1, <2>2, <2>3
<1> QED BY <1>1, TypeCorrect, RecordsSafe, RowsSafe, PTL DEF Spec, RowsLeaveForCause

(* The cleaner of an instance never releases a reservation that instance   *)
(* still protects: a marked row its snapshot has missed was granted after  *)
(* the cutoff, and expires later.                                          *)
THEOREM OwnCleanerSpares == Spec => OwnCleanerSparesActive
<1>1. ASSUME StructureOK, RowInv, NEW i \in Instances, ReleaseTargets(i),
             NEW e \in active[i], Holds(e)
      PROVE  reservation'[e] = reservation[e]
  <2>1. e \in Events
    BY <1>1 DEF StructureOK
  <2>2. /\ cleanup[i].phase = "release"
        /\ reservation'[e] # reservation[e] =>
             e \in cleanup[i].targets /\ reservation[e].expiresAt <= cleanup[i].cutoff
    BY <1>1, <2>1, TargetsEffect
  <2>3. /\ cleanup[i].targets \cap cleanup[i].protected = {}
        /\ e \notin cleanup[i].protected => cleanup[i].cutoff < reservation[e].expiresAt
    BY <1>1, <2>1, <2>2 DEF RowInv, CleanupKnows
  <2>4. cleanup[i].cutoff \in Nat /\ reservation[e].expiresAt \in Nat
    BY <1>1, <2>1 DEF StructureOK, Cleanup, RowOrNone, Holds
  <2> QED BY <2>2, <2>3, <2>4
<1>2. StructureOK /\ RowInv =>
        [\A i \in Instances : ReleaseTargets(i) =>
           \A e \in active[i] : Holds(e) => reservation'[e] = reservation[e]]_vars
  BY <1>1
<1> QED BY <1>2, TypeCorrect, RowsSafe, PTL DEF Spec, OwnCleanerSparesActive

(* The ledger implements the promise of BillingPromise.                    *)
THEOREM LedgerKeepsPromise == Spec => KeepsPromise
<1> USE DEF PromiseStatus, Promise!Status, Promise!Moves
<1>1. Init => Promise!Init
  BY DEF Init, Promise!Init, Holds
<1>2. ASSUME StructureOK, RecordInv, RowInv, [Next]_vars
      PROVE  [Promise!Next]_PromiseStatus
  <2>1. PromiseStatus' \in [Events -> Promise!Status]
    OBVIOUS
  <2>2. ASSUME NEW e \in Events, PromiseStatus'[e] # PromiseStatus[e]
        PROVE  <<PromiseStatus[e], PromiseStatus'[e]>> \in Promise!Moves
    <3>1. /\ e \in audits => e \in audits'
          /\ e \in audits' \ audits => pc[e] \in {"awaiting", "timedout"}
          /\ pc'[e] \in {"new", "admitted"} => pc[e] \in {"new", "admitted"}
          /\ Holds(e)' /\ ~Holds(e) => pc[e] = "admitted"
          /\ pc[e] \in {"new", "admitted"} => ~Holds(e)
      BY <1>2, StepMoves DEF Moves, RowInv, HoldsAfterAdmission
    <3>2. PromiseStatus[e] = IF e \in audits THEN "settled"
                             ELSE IF Holds(e) THEN "held"
                             ELSE IF pc[e] \in {"new", "admitted"} THEN "start"
                             ELSE "open"
      OBVIOUS
    <3>3. PromiseStatus'[e] = IF e \in audits' THEN "settled"
                              ELSE IF Holds(e)' THEN "held"
                              ELSE IF pc'[e] \in {"new", "admitted"} THEN "start"
                              ELSE "open"
      OBVIOUS
    <3> HIDE DEF PromiseStatus
    <3> QED BY <2>2, <3>1, <3>2, <3>3
  <2> QED BY <2>1, <2>2 DEF Promise!Next
<1> QED BY <1>1, <1>2, TypeCorrect, RecordsSafe, RowsSafe, PTL
        DEF Spec, KeepsPromise, Promise!Spec

(* Create returns success only for a stored record.                        *)
THEOREM AcknowledgedIsStored == Spec => []AckMeansDurable
  BY RecordsSafe, PTL DEF RecordInv

(* A record the queue accepted is with the writer or in the store.         *)
THEOREM AcceptedIsNeverLost == Spec => []AcceptedIsAccounted
  BY RecordsSafe, PTL DEF RecordInv

(* Close leaves nothing queued and nobody waiting.                         *)
THEOREM ClosedIsQuiet == Spec => []CloseLeavesNobodyWaiting
<1>1. RecordInv => CloseLeavesNobodyWaiting
  BY DEF RecordInv, DoneIsStopped, AwaitedIsQueued, CloseLeavesNobodyWaiting
<1>2. StructureOK /\ RecordInv => CloseLeavesNobodyWaiting
  BY <1>1
<1> QED BY <1>1, RecordsSafe, PTL

(* A stored record and a reservation exclude each other.                   *)
THEOREM SettledIsFree == Spec => []SettledHoldsNothing
  BY RowsSafe, PTL DEF RowInv

(* A held reservation is marked until its record is settled.               *)
THEOREM HeldIsProtected == Spec => []ProtectedUntilSettled
  BY RowsSafe, PTL DEF RowInv

(* Markers are removed with the request but where no observer is called.   *)
THEOREM MarkersGo == Spec => []MarkersReclaimed
  BY RowsSafe, PTL DEF RowInv


-----------------------------------------------------------------------------
(* The channel and the batch of a writer.                                  *)

(* No queue outgrows its channel, and the writer that collects has room.   *)
WriterFits ==
  \A i \in Instances :
    /\ Cardinality(queue[i]) <= QueueSize
    /\ Cardinality(batch[i]) <= BatchSize
    /\ phase[i] = "collect" => Cardinality(batch[i]) < BatchSize

(* Queues and batches are finite, and their sizes natural numbers.         *)
LEMMA WriterFinite ==
  ASSUME StructureOK, NEW i \in Instances
  PROVE  /\ IsFiniteSet(queue[i]) /\ Cardinality(queue[i]) \in Nat
         /\ IsFiniteSet(batch[i]) /\ Cardinality(batch[i]) \in Nat
<1>1. queue[i] \in SUBSET Events /\ batch[i] \in SUBSET Events
  BY DEF StructureOK
<1>2. IsFiniteSet(queue[i]) /\ IsFiniteSet(batch[i])
  BY <1>1, EventsAssumption, FS_Subset
<1> QED BY <1>2, FS_CardinalityType

(* One more element makes a set at most one larger.                        *)
LEMMA OneMore ==
  ASSUME NEW S, IsFiniteSet(S), NEW x
  PROVE  /\ Cardinality(S \cup {x}) \in Nat
         /\ Cardinality(S) \in Nat
         /\ Cardinality(S \cup {x}) <= Cardinality(S) + 1
<1>1. Cardinality(S) \in Nat
  BY FS_CardinalityType
<1>2. CASE x \in S
  <2>1. S \cup {x} = S
    BY <1>2
  <2>2. Cardinality(S) <= Cardinality(S) + 1
    BY <1>1
  <2> QED BY <1>1, <2>1, <2>2
<1>3. CASE x \notin S
  <2>1. Cardinality(S \cup {x}) = Cardinality(S) + 1
    BY <1>3, FS_AddElement
  <2> QED BY <1>1, <2>1
<1> QED BY <1>2, <1>3

(* A step that touches neither keeps the bounds.                           *)
LEMMA WriterStill ==
  ASSUME WriterFits, queue' = queue, batch' = batch,
         \A i \in Instances : phase'[i] = "collect" => phase[i] = "collect"
  PROVE  WriterFits'
  BY DEF WriterFits

(* A step of a writer keeps the bounds.                                    *)
LEMMA WriterKeepsFit ==
  ASSUME StructureOK, WriterFits, NEW i \in Instances, Writer(i)
  PROVE  WriterFits'
<1>0. QueueSize \in Nat \ {0} /\ BatchSize \in Nat \ {0}
  BY LedgerAssumption
<1>1. CASE TakeRecord(i)
  <2>1. PICK e \in queue[i] :
          /\ queue' = [queue EXCEPT ![i] = @ \ {e}]
          /\ batch' = [batch EXCEPT ![i] = @ \cup {e}]
          /\ phase' = [phase EXCEPT ![i] =
                         IF Cardinality(batch[i] \cup {e}) >= BatchSize
                           THEN "persist" ELSE "collect"]
    BY <1>1 DEF TakeRecord
  <2>2. /\ Cardinality(queue[i] \ {e}) <= Cardinality(queue[i])
        /\ Cardinality(queue[i] \ {e}) \in Nat
    <3>1. queue[i] \ {e} \subseteq queue[i]
      OBVIOUS
    <3> QED BY <3>1, WriterFinite, FS_Subset, FS_CardinalityType
  <2>3. /\ Cardinality(batch[i] \cup {e}) \in Nat
        /\ Cardinality(batch[i] \cup {e}) <= Cardinality(batch[i]) + 1
    BY WriterFinite, OneMore
  <2>4. Cardinality(batch[i]) < BatchSize /\ Cardinality(batch[i]) \in Nat
    BY <1>1, WriterFinite DEF TakeRecord, WriterFits
  <2>5. Cardinality(queue[i]) <= QueueSize /\ Cardinality(queue[i]) \in Nat
    BY WriterFinite DEF WriterFits
  <2>6. Cardinality(batch[i] \cup {e}) <= BatchSize
    BY <1>0, <2>3, <2>4
  <2>7. Cardinality(queue[i] \ {e}) <= QueueSize
    BY <1>0, <2>2, <2>5
  <2>8. ASSUME NEW j \in Instances
        PROVE  /\ Cardinality(queue'[j]) <= QueueSize
               /\ Cardinality(batch'[j]) <= BatchSize
               /\ phase'[j] = "collect" => Cardinality(batch'[j]) < BatchSize
    <3>1. CASE j = i
      <4>1. queue'[i] = queue[i] \ {e} /\ batch'[i] = batch[i] \cup {e}
        BY <2>1 DEF StructureOK
      <4>2. phase'[i] = "collect" => ~ (Cardinality(batch[i] \cup {e}) >= BatchSize)
        BY <2>1 DEF StructureOK
      <4>3. phase'[i] = "collect" => Cardinality(batch[i] \cup {e}) < BatchSize
        BY <1>0, <2>3, <4>2
      <4> QED BY <2>6, <2>7, <3>1, <4>1, <4>3
    <3>2. CASE j # i
      <4>1. queue'[j] = queue[j] /\ batch'[j] = batch[j] /\ phase'[j] = phase[j]
        BY <2>1, <3>2 DEF StructureOK
      <4> QED BY <4>1 DEF WriterFits
    <3> QED BY <3>1, <3>2
  <2> QED BY <2>8 DEF WriterFits
<1>2. CASE RejectRecord(i)
  <2>1. PICK e \in Invalid(i) :
          /\ batch' = [batch EXCEPT ![i] = @ \ {e}]
          /\ phase' = [phase EXCEPT ![i] = IF batch[i] = {e} THEN "collect" ELSE @]
    BY <1>2 DEF RejectRecord
  <2>2. /\ Cardinality(batch[i] \ {e}) <= Cardinality(batch[i])
        /\ Cardinality(batch[i] \ {e}) \in Nat
    <3>1. batch[i] \ {e} \subseteq batch[i]
      OBVIOUS
    <3> QED BY <3>1, WriterFinite, FS_Subset, FS_CardinalityType
  <2>3. batch[i] = {e} => Cardinality(batch[i] \ {e}) < BatchSize
    <3>1. batch[i] = {e} => batch[i] \ {e} = {}
      OBVIOUS
    <3> QED BY <1>0, <3>1, FS_EmptySet
  <2>4. Cardinality(batch[i]) <= BatchSize /\ Cardinality(batch[i]) \in Nat
    BY WriterFinite DEF WriterFits
  <2>5. Cardinality(batch[i] \ {e}) <= BatchSize
    BY <1>0, <2>2, <2>4
  <2>6. phase[i] = "persist" /\ queue' = queue
    BY <1>2 DEF RejectRecord
  <2>7. ASSUME NEW j \in Instances
        PROVE  /\ Cardinality(batch'[j]) <= BatchSize
               /\ phase'[j] = "collect" => Cardinality(batch'[j]) < BatchSize
    <3>1. CASE j = i
      <4>1. /\ batch'[i] = batch[i] \ {e}
            /\ phase'[i] = IF batch[i] = {e} THEN "collect" ELSE phase[i]
        BY <2>1 DEF StructureOK
      <4> QED BY <2>3, <2>5, <2>6, <3>1, <4>1
    <3>2. CASE j # i
      <4>1. batch'[j] = batch[j] /\ phase'[j] = phase[j]
        BY <2>1, <3>2 DEF StructureOK
      <4> QED BY <4>1 DEF WriterFits
    <3> QED BY <3>1, <3>2
  <2> QED BY <2>6, <2>7 DEF WriterFits
<1>3. CASE NotifyCommitted(i)
  BY <1>0, <1>3, FS_EmptySet DEF NotifyCommitted, WriterFits, StructureOK
<1>4. CASE CommitBatch(i) \/ CommitUnknown(i)
  BY <1>4, WriterStill DEF CommitBatch, CommitUnknown, SettlePending, writerVars, StructureOK
<1>5. CASE Flush(i) \/ Close(i) \/ WriterDone(i)
  BY <1>5, WriterStill DEF Flush, Close, WriterDone, StructureOK
<1> QED BY <1>1, <1>2, <1>3, <1>4, <1>5 DEF Writer

(* A step of a request keeps the bounds.                                   *)
LEMMA RequestKeepsFit ==
  ASSUME StructureOK, WriterFits, NEW e \in Events, Request(e)
  PROVE  WriterFits'
<1>1. CASE Enqueue(e)
  <2> DEFINE i == Home[e]
  <2>1. i \in Instances
    BY LedgerAssumption
  <2>2. /\ queue' = [queue EXCEPT ![i] = @ \cup {e}]
        /\ UNCHANGED <<batch, phase>>
        /\ Cardinality(queue[i]) < QueueSize
    BY <1>1 DEF Enqueue, HasRoom
  <2> HIDE DEF i
  <2>3. Cardinality(queue[i] \cup {e}) <= QueueSize
    <3>1. /\ Cardinality(queue[i] \cup {e}) \in Nat
          /\ Cardinality(queue[i]) \in Nat
          /\ Cardinality(queue[i] \cup {e}) <= Cardinality(queue[i]) + 1
      BY <2>1, WriterFinite, OneMore
    <3>2. QueueSize \in Nat
      BY LedgerAssumption
    <3> QED BY <2>2, <3>1, <3>2
  <2>4. ASSUME NEW j \in Instances PROVE Cardinality(queue'[j]) <= QueueSize
    <3>1. queue'[j] = IF j = i THEN queue[i] \cup {e} ELSE queue[j]
      BY <2>1, <2>2 DEF StructureOK
    <3> QED BY <2>3, <3>1 DEF WriterFits
  <2> QED BY <2>2, <2>4 DEF WriterFits
<1>2. CASE ~ Enqueue(e)
  <2>1. UNCHANGED <<queue, batch, phase>>
    BY <1>2 DEF Request, Admit, RefuseNotReady, ReserveGranted, ReserveUnknown, ReserveDenied,
         ReserveSkipped, MarkActive, Finish, WaitForSpace, DropWaiting, TurnedAway, BudgetSpent,
         AckTimeout, writerVars
  <2> QED BY <2>1, WriterStill
<1> QED BY <1>1, <1>2

(* Any step.                                                               *)
LEMMA StepKeepsFit ==
  ASSUME StructureOK, WriterFits, [Next]_vars
  PROVE  WriterFits'
<1>1. ASSUME NEW e \in Events, Request(e) PROVE WriterFits'
  BY <1>1, RequestKeepsFit
<1>2. ASSUME NEW i \in Instances, Writer(i) PROVE WriterFits'
  BY <1>2, WriterKeepsFit
<1>3. ASSUME NEW i \in Instances, Crash(i) PROVE WriterFits'
  BY <1>3, FS_EmptySet, LedgerAssumption DEF Crash, WriterFits, StructureOK
<1>4. ASSUME UNCHANGED <<queue, batch, phase>> PROVE WriterFits'
  BY <1>4, WriterStill
<1>5. ASSUME NEW i \in Instances, Cleaner(i) PROVE WriterFits'
  BY <1>4, <1>5 DEF Cleaner, SnapshotProtected, ScanExpired, ReleaseTargets, CleanupReturns, writerVars
<1>6. ASSUME NEW i \in Instances, Restart(i) PROVE WriterFits'
  BY <1>4, <1>6 DEF Restart, writerVars
<1>7. ASSUME NEW k \in Keys, Administrator(k) PROVE WriterFits'
  BY <1>4, <1>7 DEF Administrator, ChangeLimit, RemoveKey, writerVars
<1>8. CASE Tick
  BY <1>4, <1>8 DEF Tick, writerVars
<1>9. CASE UNCHANGED vars
  BY <1>4, <1>9 DEF vars, writerVars
<1> QED BY <1>1, <1>2, <1>3, <1>5, <1>6, <1>7, <1>8, <1>9 DEF Next, Process

(* Queue and batch stay within their bounds.                               *)
THEOREM WritersFit == Spec => []WriterFits
<1>1. Init => WriterFits
  BY FS_EmptySet, LedgerAssumption DEF Init, WriterFits
<1>2. StructureOK /\ WriterFits /\ [Next]_vars => WriterFits'
  BY StepKeepsFit
<1> QED BY <1>1, <1>2, TypeCorrect, PTL DEF Spec

-----------------------------------------------------------------------------
(* Processes that are down.                                                *)

(* A process that is down has no records, and its writer is as new.        *)
DownIsQuiet ==
  \A i \in Instances : ~up[i] =>
    queue[i] = {} /\ batch[i] = {} /\ phase[i] = "collect" /\ ~stopping[i]

(* A request on its way from the admission to the answer of the writer is  *)
(* served by a process that is up.                                         *)
ServedByUp == \A e \in Events : pc[e] \in InFlight \cup {"admitted"} => up[Home[e]]

ProcessInv == DownIsQuiet /\ ServedByUp

(* What a request may change of what a writer sees: it moves on before it  *)
(* has a record, hands over the record, goes away or gives up waiting.     *)
LEMMA RequestSeen ==
  ASSUME StructureOK, ServedByUp, NEW e \in Events, Request(e)
  PROVE  /\ UNCHANGED <<audits, up, batch, phase, stopping>>
         /\ up[Home[e]] /\ Home[e] \in Instances
         /\ \E label \in PCs :
              /\ pc' = [pc EXCEPT ![e] = label]
              /\ \/ /\ queue' = queue
                    /\ pc[e] \in Unrecorded /\ label \in Unrecorded
                 \/ /\ queue' = queue
                    /\ pc[e] \in Unrecorded /\ label \in {"dropped", "lost", "refused"}
                 \/ /\ queue' = queue
                    /\ pc[e] = "awaiting" /\ label = "timedout"
                 \/ /\ queue' = [queue EXCEPT ![Home[e]] = queue[Home[e]] \cup {e}]
                    /\ ~stopping[Home[e]] /\ Cardinality(queue[Home[e]]) < QueueSize
                    /\ pc[e] \in Unrecorded /\ label = "awaiting"
<1> USE DEF Goto, Unrecorded, PCs, InFlight
<1>0. Home[e] \in Instances
  BY LedgerAssumption
<1>1. CASE Admit(e) \/ RefuseNotReady(e)
  BY <1>0, <1>1 DEF Admit, RefuseNotReady, storeVars, writerVars, processVars
<1>2. CASE ReserveGranted(e) \/ ReserveUnknown(e)
  <2>1. /\ pc[e] = "admitted" /\ (Goto(e, "marking") \/ Goto(e, "refused"))
        /\ UNCHANGED <<audits, queue, up, batch, phase, stopping>>
    BY <1>2, ReserveEffect DEF writerVars, processVars
  <2> QED BY <1>0, <2>1 DEF ServedByUp
<1>3. CASE ReserveDenied(e) \/ ReserveSkipped(e) \/ MarkActive(e) \/ Finish(e) \/ WaitForSpace(e)
  BY <1>0, <1>3 DEF ReserveDenied, ReserveSkipped, MarkActive, Finish, WaitForSpace, storeVars,
     writerVars, processVars, ServedByUp
<1>4. CASE Enqueue(e)
  BY <1>0, <1>4 DEF Enqueue, HasRoom, storeVars, processVars, ServedByUp
<1>5. CASE DropWaiting(e) \/ TurnedAway(e) \/ BudgetSpent(e) \/ AckTimeout(e)
  BY <1>0, <1>5 DEF DropWaiting, TurnedAway, BudgetSpent, AckTimeout, storeVars, writerVars,
     processVars, ServedByUp
<1> QED BY <1>1, <1>2, <1>3, <1>4, <1>5 DEF Request

(* What others than requests, writers and processes change of it: nothing. *)
LEMMA OthersUnseen ==
  ASSUME StructureOK,
         \/ \E i \in Instances : Cleaner(i)
         \/ \E k \in Keys : Administrator(k)
         \/ Tick \/ UNCHANGED vars
  PROVE  UNCHANGED <<audits, up, queue, batch, phase, stopping, pc>>
<1>1. ASSUME NEW i \in Instances, Cleaner(i)
      PROVE  UNCHANGED <<audits, up, queue, batch, phase, stopping, pc>>
  <2>1. CASE ReleaseTargets(i)
    BY <2>1, TargetsEffect DEF writerVars, processVars, requestVars
  <2> QED BY <1>1, <2>1 DEF Cleaner, SnapshotProtected, ScanExpired, CleanupReturns, storeVars,
          writerVars, processVars, requestVars
<1>2. ASSUME NEW k \in Keys, Administrator(k)
      PROVE  UNCHANGED <<audits, up, queue, batch, phase, stopping, pc>>
  <2>1. CASE RemoveKey(k)
    BY <2>1, RemoveEffect DEF RemoveKey, writerVars, processVars, requestVars
  <2> QED BY <1>2, <2>1 DEF Administrator, ChangeLimit, UpdateLimit, writerVars, processVars, requestVars
<1> QED BY <1>1, <1>2 DEF Tick, vars, storeVars, writerVars, processVars, requestVars

(* A step of a writer is of a process that is up, and starts no request.   *)
LEMMA WriterQuiet ==
  ASSUME StructureOK, ProcessInv, NEW i \in Instances, Writer(i)
  PROVE  ProcessInv'
<1>1. /\ up[i] /\ up' = up
      /\ \A j \in Instances \ {i} :
           /\ queue'[j] = queue[j] /\ batch'[j] = batch[j]
           /\ phase'[j] = phase[j] /\ stopping'[j] = stopping[j]
      /\ \A e \in Events : pc'[e] = pc[e] \/ pc'[e] \in {"rejected", "acked"}
  BY DEF Writer, TakeRecord, Flush, RejectRecord, CommitBatch, CommitUnknown, SettlePending,
     NotifyCommitted, Close, WriterDone, Goto, Invalid, StructureOK, writerVars, processVars,
     requestVars
<1> QED BY <1>1 DEF ProcessInv, DownIsQuiet, ServedByUp, InFlight

(* A process that is down has nothing, in every state.                     *)
THEOREM DownProcessesAreQuiet == Spec => []ProcessInv
<1>1. Init => ProcessInv
  BY LedgerAssumption DEF Init, ProcessInv, DownIsQuiet, ServedByUp, InFlight
<1>2. StructureOK /\ ProcessInv /\ [Next]_vars => ProcessInv'
  <2> SUFFICES ASSUME StructureOK, ProcessInv, [Next]_vars
               PROVE  ProcessInv'
    OBVIOUS
  <2>1. ASSUME NEW e \in Events, Request(e) PROVE ProcessInv'
    <3>1. /\ UNCHANGED <<up, batch, phase, stopping>> /\ up[Home[e]]
          /\ \A i \in Instances \ {Home[e]} : queue'[i] = queue[i]
          /\ \A f \in Events \ {e} : pc'[f] = pc[f]
      BY <2>1, RequestSeen DEF ProcessInv, StructureOK
    <3> QED BY <3>1 DEF ProcessInv, DownIsQuiet, ServedByUp
  <2>2. ASSUME NEW i \in Instances, Writer(i) PROVE ProcessInv'
    BY <2>2, WriterQuiet
  <2>3. ASSUME NEW i \in Instances, Process(i) PROVE ProcessInv'
    <3>1. CASE Crash(i)
      <4>1. /\ up' = [up EXCEPT ![i] = FALSE]
            /\ queue' = [queue EXCEPT ![i] = {}] /\ batch' = [batch EXCEPT ![i] = {}]
            /\ phase' = [phase EXCEPT ![i] = "collect"]
            /\ stopping' = [stopping EXCEPT ![i] = FALSE]
        BY <3>1 DEF Crash
      <4>2. DownIsQuiet'
        BY <4>1 DEF ProcessInv, DownIsQuiet, StructureOK
      <4>3. \A e \in Events : \/ pc'[e] = "crashed"
                              \/ /\ pc'[e] = pc[e]
                                 /\ Home[e] = i => pc[e] \notin InFlight \cup {"admitted"}
        BY <3>1 DEF Crash, DiesWith
      <4>4. ServedByUp'
        BY <4>1, <4>3, LedgerAssumption DEF ProcessInv, ServedByUp, InFlight, StructureOK
      <4> QED BY <4>2, <4>4 DEF ProcessInv
    <3>2. CASE Restart(i)
      BY <2>3, <3>2 DEF Restart, ProcessInv, DownIsQuiet, ServedByUp, StructureOK, writerVars, requestVars
    <3> QED BY <2>3, <3>1, <3>2 DEF Process
  <2>4. CASE UNCHANGED <<audits, up, queue, batch, phase, stopping, pc>>
    BY <2>4 DEF ProcessInv, DownIsQuiet, ServedByUp
  <2> QED BY <2>1, <2>2, <2>3, <2>4, OthersUnseen DEF Next
<1> QED BY <1>1, <1>2, TypeCorrect, PTL DEF Spec

(* A record that waits in a queue is not in the store yet: it is taken     *)
(* into a batch first, and it enters a queue once.                         *)
QueuedIsUnstored == \A i \in Instances : queue[i] \cap audits = {}

(* No record is in a queue and in the store at once.                       *)
THEOREM QueuedIsNew == Spec => []QueuedIsUnstored
<1>1. Init => QueuedIsUnstored
  BY DEF Init, QueuedIsUnstored
<1>2. StructureOK /\ RecordInv /\ ProcessInv /\ QueuedIsUnstored /\ [Next]_vars => QueuedIsUnstored'
  <2> SUFFICES ASSUME StructureOK, RecordInv, ProcessInv, QueuedIsUnstored, [Next]_vars
               PROVE  QueuedIsUnstored'
    OBVIOUS
  <2>1. ASSUME NEW e \in Events, Request(e) PROVE QueuedIsUnstored'
    <3>1. /\ audits' = audits
          /\ \/ queue' = queue
             \/ /\ queue' = [queue EXCEPT ![Home[e]] = queue[Home[e]] \cup {e}]
                /\ pc[e] \in Unrecorded
      BY <2>1, RequestSeen DEF ProcessInv
    <3>2. pc[e] \in Unrecorded => e \notin audits
      BY DEF RecordInv, UnrecordedIsUnstored
    <3> QED BY <3>1, <3>2 DEF QueuedIsUnstored, StructureOK
  <2>2. ASSUME NEW i \in Instances, Writer(i) PROVE QueuedIsUnstored'
    <3>1. \A j \in Instances : queue'[j] \subseteq queue[j]
      <4>1. CASE TakeRecord(i)
        BY <4>1 DEF TakeRecord, StructureOK
      <4>2. CASE ~TakeRecord(i)
        <5>1. queue' = queue
          BY <2>2, <4>2 DEF Writer, Flush, RejectRecord, CommitBatch, CommitUnknown,
             NotifyCommitted, Close, WriterDone, writerVars
        <5> QED BY <5>1
      <4> QED BY <4>1, <4>2
    <3>2. \/ audits' = audits
          \/ audits' = audits \cup batch[i] /\ queue' = queue
      BY <2>2, PendingEffect DEF Writer, TakeRecord, Flush, RejectRecord, CommitBatch,
         CommitUnknown, NotifyCommitted, Close, WriterDone, storeVars, writerVars
    <3>3. \A j \in Instances : queue[j] \cap batch[i] = {}
      BY DEF RecordInv, WriterHas, TakenOnce
    <3> QED BY <3>1, <3>2, <3>3 DEF QueuedIsUnstored
  <2>3. ASSUME NEW i \in Instances, Process(i) PROVE QueuedIsUnstored'
    BY <2>3 DEF Process, Crash, Restart, QueuedIsUnstored, StructureOK, storeVars, writerVars
  <2>4. CASE UNCHANGED <<audits, up, queue, batch, phase, stopping, pc>>
    BY <2>4 DEF QueuedIsUnstored
  <2> QED BY <2>1, <2>2, <2>3, <2>4, OthersUnseen DEF Next
<1> QED BY <1>1, <1>2, TypeCorrect, RecordsSafe, DownProcessesAreQuiet, PTL DEF Spec

-----------------------------------------------------------------------------
(* The writer of every process keeps the promise of WriterPromise.         *)

WriterInv == StructureOK /\ RecordInv /\ WriterFits /\ ProcessInv /\ QueuedIsUnstored

(* What the promise sees of process i.                                     *)
LEMMA WriterSees ==
  ASSUME WriterInv, NEW i \in Instances
  PROVE  /\ WriterOf(i)!At("queued") = queue[i]
         /\ WriterOf(i)!At("taken") = batch[i]
         /\ queue[i] \in SUBSET Served(i) /\ batch[i] \in SUBSET Served(i)
         /\ queue[i] \cap batch[i] = {}
         /\ up \in [Instances -> BOOLEAN] /\ stopping \in [Instances -> BOOLEAN]
         /\ queue \in [Instances -> SUBSET Events] /\ batch \in [Instances -> SUBSET Events]
         /\ phase \in [Instances -> Phases] /\ pc \in [Events -> PCs]
<1>1. /\ queue[i] \in SUBSET Served(i) /\ batch[i] \in SUBSET Served(i)
      /\ queue[i] \cap batch[i] = {}
  BY DEF WriterInv, StructureOK, RecordInv, WriterHas, TakenOnce, Served
<1>2. WriterOf(i)!At("queued") = queue[i] /\ WriterOf(i)!At("taken") = batch[i]
  BY <1>1 DEF WriterOf!At, PromisedPlace
<1> QED BY <1>1, <1>2 DEF WriterInv, StructureOK

(* The promise counts as the ledger does.                                  *)
LEMMA WriterCounts ==
  ASSUME NEW i \in Instances
  PROVE  \A S : WriterOf(i)!Cardinality(S) = Cardinality(S)
  BY DEF WriterOf!Cardinality, Cardinality, WriterOf!IsFiniteSet, IsFiniteSet

(* A step that leaves a process and its requests alone is no step of its   *)
(* writer's promise.                                                       *)
LEMMA NothingSeen ==
  ASSUME NEW i \in Instances,
         queue'[i] = queue[i], batch'[i] = batch[i], stopping'[i] = stopping[i], up'[i] = up[i],
         phase'[i] = "done" <=> phase[i] = "done",
         \A e \in Served(i) : pc'[e] = pc[e] /\ (e \in audits' <=> e \in audits)
  PROVE  UNCHANGED WriterOf(i)!vars
<1>1. PromisedPlace(i)' = PromisedPlace(i)
  BY DEF PromisedPlace
<1>2. {e \in Served(i) : pc'[e] = "awaiting"} = {e \in Served(i) : pc[e] = "awaiting"}
  OBVIOUS
<1> QED BY <1>1, <1>2 DEF WriterOf!vars, Served

(* A step of a request is one of the promise of its own process.           *)
LEMMA RequestKeepsWriter ==
  ASSUME WriterInv, NEW e \in Events, Request(e)
  PROVE  \A i \in Instances : [WriterOf(i)!Next]_(WriterOf(i)!vars)
<1> DEFINE h == Home[e]
<1>0. /\ UNCHANGED <<audits, up, batch, phase, stopping>>
      /\ up[h] /\ h \in Instances
      /\ \A i \in Instances \ {h} : queue'[i] = queue[i]
      /\ \A f \in Events \ {e} : pc'[f] = pc[f]
  BY RequestSeen DEF WriterInv, ProcessInv, StructureOK
<1>1. ASSUME NEW i \in Instances, i # h
      PROVE  UNCHANGED WriterOf(i)!vars
  <2>1. \A f \in Served(i) : pc'[f] = pc[f]
    BY <1>0, <1>1 DEF Served
  <2> QED BY <1>0, <1>1, <2>1, NothingSeen
<1>2. [WriterOf(h)!Next]_(WriterOf(h)!vars)
  <2>0. /\ e \in Served(h) /\ Served(h) \in SUBSET Events
        /\ WriterOf(h)!At("queued") = queue[h]
        /\ pc \in [Events -> PCs] /\ queue \in [Instances -> SUBSET Events]
        /\ pc[e] \in Unrecorded => e \notin queue[h] /\ e \notin batch[h] /\ e \notin audits
        /\ pc[e] = "awaiting" => e \in queue[h] \cup batch[h]
    BY <1>0, WriterSees
       DEF Served, WriterInv, RecordInv, WriterHas, AwaitedIsQueued, UnrecordedIsUnstored, Unrecorded
  <2>1. PICK label \in PCs :
          /\ pc' = [pc EXCEPT ![e] = label]
          /\ \/ /\ queue' = queue
                /\ pc[e] \in Unrecorded /\ label \in Unrecorded
             \/ /\ queue' = queue
                /\ pc[e] \in Unrecorded /\ label \in {"dropped", "lost", "refused"}
             \/ /\ queue' = queue
                /\ pc[e] = "awaiting" /\ label = "timedout"
             \/ /\ queue' = [queue EXCEPT ![Home[e]] = queue[Home[e]] \cup {e}]
                /\ ~stopping[Home[e]] /\ Cardinality(queue[Home[e]]) < QueueSize
                /\ pc[e] \in Unrecorded /\ label = "awaiting"
    BY RequestSeen DEF WriterInv, ProcessInv
  <2>a. \A f \in Served(h) : pc'[f] = IF f = e THEN label ELSE pc[f]
    BY <2>0, <2>1
  <2> DEFINE W == {f \in Served(h) : pc[f] = "awaiting"}
  <2>2. CASE queue' = queue /\ pc[e] \in Unrecorded /\ label \in Unrecorded
    <3>1. PromisedPlace(h)' = PromisedPlace(h)
      BY <1>0, <2>0, <2>2, <2>a DEF PromisedPlace, Served, Unrecorded
    <3>2. W' = W
      BY <2>2, <2>a DEF Unrecorded, Served
    <3> QED BY <1>0, <3>1, <3>2 DEF WriterOf!vars
  <2>3. CASE queue' = queue /\ pc[e] \in Unrecorded /\ label \in {"dropped", "lost", "refused"}
    <3>1. PromisedPlace(h)' = [PromisedPlace(h) EXCEPT ![e] = "away"]
      BY <1>0, <2>0, <2>3, <2>a DEF PromisedPlace, Served, Unrecorded
    <3>2. PromisedPlace(h)[e] = "outside"
      BY <2>0, <2>3 DEF PromisedPlace, Unrecorded
    <3>3. W' = W
      BY <2>3, <2>a DEF Unrecorded, Served
    <3>4. WriterOf(h)!Refuse(e)
      BY <1>0, <3>1, <3>2, <3>3 DEF WriterOf!Refuse, WriterOf!Put
    <3> QED BY <2>0, <3>4 DEF WriterOf!Next, WriterOf!Work
  <2>4. CASE queue' = queue /\ pc[e] = "awaiting" /\ label = "timedout"
    <3>1. PromisedPlace(h)' = PromisedPlace(h)
      BY <1>0, <2>0, <2>4, <2>a DEF PromisedPlace, Served
    <3>2. W' = W \ {e}
      BY <2>4, <2>a DEF Served
    <3>3. WriterOf(h)!GiveUp(e)
      BY <1>0, <3>1, <3>2 DEF WriterOf!GiveUp
    <3> QED BY <2>0, <3>3 DEF WriterOf!Next, WriterOf!Work
  <2>5. CASE /\ queue' = [queue EXCEPT ![Home[e]] = queue[Home[e]] \cup {e}]
             /\ ~stopping[Home[e]] /\ Cardinality(queue[Home[e]]) < QueueSize
             /\ pc[e] \in Unrecorded /\ label = "awaiting"
    <3>0. queue'[h] = queue[h] \cup {e}
      BY <1>0, <2>0, <2>5
    <3>1. PromisedPlace(h)' = [PromisedPlace(h) EXCEPT ![e] = "queued"]
      BY <1>0, <2>0, <2>5, <2>a, <3>0 DEF PromisedPlace, Served
    <3>2. PromisedPlace(h)[e] = "outside"
      BY <2>0, <2>5 DEF PromisedPlace, Unrecorded
    <3>3. W' = W \cup {e}
      BY <2>0, <2>5, <2>a DEF Served
    <3>4. WriterOf(h)!Cardinality(WriterOf(h)!At("queued")) < QueueSize
      BY <1>0, <2>0, <2>5, WriterCounts
    <3>5. ~(stopping[h] \/ ~up[h])
      BY <1>0, <2>5
    <3>6. WriterOf(h)!Accept(e)
      BY <1>0, <3>1, <3>2, <3>3, <3>4, <3>5 DEF WriterOf!Accept, WriterOf!Put
    <3> QED BY <2>0, <3>6 DEF WriterOf!Next, WriterOf!Work
  <2> QED BY <2>1, <2>2, <2>3, <2>4, <2>5
<1> QED BY <1>1, <1>2
(* What a step of the writer of process i leaves alone.                    *)
LEMMA WriterElsewhere ==
  ASSUME WriterInv, NEW i \in Instances, Writer(i), NEW j \in Instances, j # i
  PROVE  UNCHANGED WriterOf(j)!vars
<1>1. /\ queue'[j] = queue[j] /\ batch'[j] = batch[j]
      /\ phase'[j] = phase[j] /\ stopping'[j] = stopping[j] /\ up' = up
      /\ \A e \in Events \ batch[i] : pc'[e] = pc[e]
  BY DEF WriterInv, Writer, TakeRecord, Flush, RejectRecord, CommitBatch, CommitUnknown,
     SettlePending, NotifyCommitted, Close, WriterDone, Goto, Invalid, StructureOK, writerVars,
     processVars, requestVars
<1>2. audits' = audits \/ audits' = audits \cup batch[i]
  BY PendingEffect DEF WriterInv, Writer, TakeRecord, Flush, RejectRecord, CommitBatch,
     CommitUnknown, NotifyCommitted, Close, WriterDone, storeVars
<1>3. \A e \in Served(j) : e \in Events /\ e \notin batch[i]
  BY DEF Served, WriterInv, RecordInv, WriterHas
<1>4. \A e \in Served(j) : pc'[e] = pc[e] /\ (e \in audits' <=> e \in audits)
  BY <1>1, <1>2, <1>3
<1> QED BY <1>1, <1>4, NothingSeen

(* A step of a writer is one of its promise: it takes a record, decides    *)
(* some of its batch, stops or returns; a commit alone decides nothing,    *)
(* since the batch may be tried again.                                     *)
LEMMA WriterKeepsWriter ==
  ASSUME WriterInv, NEW i \in Instances, Writer(i)
  PROVE  [WriterOf(i)!Next]_(WriterOf(i)!vars)
<1> DEFINE W == {e \in Served(i) : pc[e] = "awaiting"}
<1>0. /\ up[i] /\ up' = up
      /\ WriterOf(i)!At("queued") = queue[i] /\ WriterOf(i)!At("taken") = batch[i]
      /\ queue[i] \in SUBSET Served(i) /\ batch[i] \in SUBSET Served(i)
      /\ queue[i] \cap batch[i] = {} /\ Served(i) \in SUBSET Events
      /\ up \in [Instances -> BOOLEAN] /\ stopping \in [Instances -> BOOLEAN]
      /\ queue \in [Instances -> SUBSET Events] /\ batch \in [Instances -> SUBSET Events]
      /\ phase \in [Instances -> Phases] /\ pc \in [Events -> PCs]
  BY WriterSees DEF Served, Writer, TakeRecord, Flush, RejectRecord, CommitBatch, CommitUnknown,
     SettlePending, NotifyCommitted, Close, WriterDone, processVars
<1>1. CASE TakeRecord(i)
  <2>1. PICK e \in queue[i] : /\ queue' = [queue EXCEPT ![i] = queue[i] \ {e}]
                             /\ batch' = [batch EXCEPT ![i] = batch[i] \cup {e}]
                             /\ phase' = [phase EXCEPT ![i] =
                                            IF Cardinality(batch[i] \cup {e}) >= BatchSize
                                              THEN "persist" ELSE "collect"]
    BY <1>1 DEF TakeRecord
  <2>2. phase[i] = "collect" /\ UNCHANGED <<audits, stopping, pc>>
    BY <1>1 DEF TakeRecord, storeVars, requestVars
  <2>3. /\ queue'[i] = queue[i] \ {e} /\ batch'[i] = batch[i] \cup {e}
        /\ phase'[i] # "done" /\ phase[i] # "done"
    BY <1>0, <2>1, <2>2
  <2>4. PromisedPlace(i)' = [PromisedPlace(i) EXCEPT ![e] = "taken"]
    BY <1>0, <2>2, <2>3 DEF PromisedPlace, Served
  <2>5. PromisedPlace(i)[e] = "queued"
    BY <1>0 DEF PromisedPlace
  <2>6. WriterOf(i)!Cardinality(WriterOf(i)!At("taken")) < BatchSize
    BY <1>0, <2>2, WriterCounts DEF WriterInv, WriterFits
  <2>7. WriterOf(i)!Take(e)
    BY <1>0, <2>2, <2>3, <2>4, <2>5, <2>6 DEF WriterOf!Take, WriterOf!Put, Served
  <2>8. e \in Served(i)
    BY <1>0
  <2> QED BY <2>7, <2>8 DEF WriterOf!Next, WriterOf!Work
<1>2. CASE Flush(i)
  <2>1. /\ queue' = queue /\ batch' = batch /\ UNCHANGED <<audits, stopping, pc>>
        /\ phase'[i] # "done" /\ phase[i] # "done"
    BY <1>0, <1>2 DEF Flush, storeVars, requestVars
  <2> QED BY <1>0, <2>1, NothingSeen
<1>3. CASE CommitBatch(i) \/ CommitUnknown(i)
  <2>1. /\ queue' = queue /\ batch' = batch /\ UNCHANGED <<stopping, pc>>
        /\ phase'[i] # "done" /\ phase[i] # "done"
        /\ audits' = audits \cup batch[i]
    BY <1>0, <1>3, PendingEffect DEF WriterInv, CommitBatch, CommitUnknown, requestVars, writerVars
  <2>2. PromisedPlace(i)' = PromisedPlace(i)
    BY <2>1 DEF PromisedPlace
  <2> QED BY <1>0, <2>1, <2>2 DEF WriterOf!vars, Served
<1>4. CASE RejectRecord(i)
  <2>1. PICK e \in batch[i] :
          /\ batch' = [batch EXCEPT ![i] = batch[i] \ {e}]
          /\ phase' = [phase EXCEPT ![i] = IF batch[i] = {e} THEN "collect" ELSE phase[i]]
          /\ pc' = [pc EXCEPT ![e] = "rejected"]
    BY <1>4 DEF RejectRecord, Invalid, Goto
  <2>2. phase[i] = "persist" /\ UNCHANGED <<audits, queue, stopping>>
    BY <1>4 DEF RejectRecord, storeVars
  <2>3. /\ batch'[i] = batch[i] \ {e} /\ phase'[i] # "done" /\ e \in Served(i)
        /\ \A f \in Served(i) : pc'[f] = IF f = e THEN "rejected" ELSE pc[f]
    BY <1>0, <2>1, <2>2
  <2>4. PromisedPlace(i)' = [r \in Served(i) |-> IF r \in {e} THEN "decided" ELSE PromisedPlace(i)[r]]
    BY <1>0, <2>2, <2>3 DEF PromisedPlace, Served
  <2>5. W' = W \ {e}
    BY <2>3 DEF Served
  <2>6. WriterOf(i)!Decide({e})
    BY <1>0, <2>2, <2>3, <2>4, <2>5 DEF WriterOf!Decide
  <2> QED BY <2>3, <2>6 DEF WriterOf!Next, WriterOf!Work
<1>5. CASE NotifyCommitted(i)
  <2>1. /\ batch'[i] = {} /\ phase'[i] # "done" /\ phase[i] = "notify"
        /\ UNCHANGED <<audits, queue, stopping>>
        /\ pc' = [e \in Events |-> IF e \in batch[i] /\ pc[e] = "awaiting" THEN "acked" ELSE pc[e]]
    BY <1>0, <1>5 DEF NotifyCommitted, storeVars
  <2>2. batch[i] \subseteq audits
    BY <2>1 DEF WriterInv, RecordInv, NotifiedIsStored
  <2>3. \A f \in Served(i) \ batch[i] : pc'[f] = pc[f]
    BY <1>0, <2>1
  <2>4. PromisedPlace(i)' = [r \in Served(i) |-> IF r \in batch[i] THEN "decided" ELSE PromisedPlace(i)[r]]
    BY <1>0, <2>1, <2>2, <2>3 DEF PromisedPlace, Served
  <2>5. W' = W \ batch[i]
    BY <1>0, <2>1 DEF Served
  <2>6. PICK S \in SUBSET Served(i) : S = batch[i]
    BY <1>0
  <2>7. WriterOf(i)!Decide(S)
    BY <1>0, <2>1, <2>4, <2>5, <2>6 DEF WriterOf!Decide
  <2> QED BY <2>7 DEF WriterOf!Next, WriterOf!Work
<1>6. CASE Close(i)
  <2>1. /\ UNCHANGED <<audits, queue, batch, phase, pc>> /\ stopping'[i]
    BY <1>0, <1>6 DEF Close, storeVars, requestVars
  <2>2. PromisedPlace(i)' = PromisedPlace(i)
    BY <2>1 DEF PromisedPlace
  <2>3. WriterOf(i)!Stop
    BY <1>0, <2>1, <2>2 DEF WriterOf!Stop, Served
  <2> QED BY <2>3 DEF WriterOf!Next, WriterOf!Work
<1>7. CASE WriterDone(i)
  <2>1. /\ UNCHANGED <<audits, queue, batch, stopping, pc>> /\ stopping[i]
        /\ queue[i] = {} /\ batch[i] = {} /\ phase'[i] = "done"
    BY <1>0, <1>7 DEF WriterDone, storeVars, requestVars
  <2>2. PromisedPlace(i)' = [r \in Served(i) |-> IF r \in {} THEN "decided" ELSE PromisedPlace(i)[r]]
    BY <2>1 DEF PromisedPlace
  <2>3. WriterOf(i)!Decide({})
    BY <1>0, <2>1, <2>2 DEF WriterOf!Decide, Served
  <2> QED BY <2>3 DEF WriterOf!Next, WriterOf!Work
<1> QED BY <1>1, <1>2, <1>3, <1>4, <1>5, <1>6, <1>7 DEF Writer
(* The end and the start of a process are those of its writer, and nothing *)
(* to the writers of the others.                                           *)
LEMMA ProcessKeepsWriter ==
  ASSUME WriterInv, NEW i \in Instances, Process(i)
  PROVE  \A j \in Instances : [WriterOf(j)!Next]_(WriterOf(j)!vars)
<1>0. /\ WriterOf(i)!At("queued") = queue[i] /\ WriterOf(i)!At("taken") = batch[i]
      /\ queue[i] \in SUBSET Served(i) /\ batch[i] \in SUBSET Served(i)
      /\ up \in [Instances -> BOOLEAN] /\ stopping \in [Instances -> BOOLEAN]
      /\ queue \in [Instances -> SUBSET Events] /\ batch \in [Instances -> SUBSET Events]
      /\ phase \in [Instances -> Phases] /\ pc \in [Events -> PCs]
  BY WriterSees
<1>1. ASSUME NEW j \in Instances, j # i PROVE UNCHANGED WriterOf(j)!vars
  <2>1. /\ queue'[j] = queue[j] /\ batch'[j] = batch[j] /\ phase'[j] = phase[j]
        /\ stopping'[j] = stopping[j] /\ up'[j] = up[j] /\ audits' = audits
        /\ \A e \in Events : Home[e] # i => pc'[e] = pc[e]
    BY <1>0, <1>1 DEF Process, Crash, Restart, DiesWith, storeVars, writerVars, requestVars
  <2>2. \A e \in Served(j) : pc'[e] = pc[e]
    BY <1>1, <2>1 DEF Served
  <2> QED BY <2>1, <2>2, NothingSeen
<1>2. CASE Crash(i)
  <2> DEFINE W == {e \in Served(i) : pc[e] = "awaiting"}
             next == PromisedPlace(i)'
  <2>1. /\ up[i] /\ ~up'[i] /\ audits' = audits
        /\ queue'[i] = {} /\ batch'[i] = {} /\ phase'[i] = "collect"
        /\ \A e \in Served(i) : pc'[e] = IF e \in DiesWith(i) THEN "crashed" ELSE pc[e]
    BY <1>0, <1>2 DEF Crash, Served, storeVars
  <2>2. W' = {}
    BY <2>1 DEF Served, DiesWith, InFlight
  <2>3. ASSUME NEW r \in Served(i)
        PROVE  /\ next[r] \in WriterOf(i)!Places
               /\ \/ next[r] = PromisedPlace(i)[r] /\ PromisedPlace(i)[r] \notin {"queued", "taken"}
                  \/ next[r] = "dead" /\ PromisedPlace(i)[r] \in {"outside", "queued", "taken"}
                  \/ next[r] = "decided" /\ PromisedPlace(i)[r] = "taken"
    <3>1. /\ next[r] = IF r \in audits \/ pc'[r] = "rejected" THEN "decided"
                       ELSE IF pc'[r] \in Unrecorded THEN "outside"
                       ELSE IF pc'[r] \in {"dropped", "lost", "refused"} THEN "away"
                       ELSE "dead"
      BY <2>1 DEF PromisedPlace, Served
    <3>2. CASE r \in queue[i] \cup batch[i]
      <4>1. pc[r] \in {"awaiting", "timedout"} /\ r \in Events /\ Home[r] = i
        BY <3>2 DEF WriterInv, RecordInv, WriterHas, Served
      <4>2. pc'[r] = "crashed"
        BY <2>1, <3>2, <4>1 DEF DiesWith, InFlight
      <4>3. PromisedPlace(i)[r] \in {"queued", "taken"}
        BY <3>2 DEF PromisedPlace
      <4>4. next[r] = IF r \in audits THEN "decided" ELSE "dead"
        BY <3>1, <4>2 DEF Unrecorded
      <4>5. r \in audits => PromisedPlace(i)[r] = "taken"
        <5>1. r \in audits => r \notin queue[i]
          BY DEF WriterInv, QueuedIsUnstored
        <5> QED BY <3>2, <5>1 DEF PromisedPlace
      <4> QED BY <4>3, <4>4, <4>5 DEF WriterOf!Places
    <3>3. CASE r \notin queue[i] \cup batch[i]
      <4>1. PromisedPlace(i)[r] = IF r \in audits \/ pc[r] = "rejected" THEN "decided"
                       ELSE IF pc[r] \in Unrecorded THEN "outside"
                       ELSE IF pc[r] \in {"dropped", "lost", "refused"} THEN "away"
                       ELSE "dead"
        BY <3>3 DEF PromisedPlace
      <4>2. \/ pc'[r] = pc[r]
            \/ pc'[r] = "crashed" /\ pc[r] \in InFlight \cup {"admitted"}
        BY <2>1, <3>3 DEF DiesWith
      <4>3. CASE pc'[r] = pc[r]
        BY <3>1, <4>1, <4>3 DEF WriterOf!Places
      <4>4. CASE pc'[r] = "crashed" /\ pc[r] \in InFlight \cup {"admitted"}
        <5>1. pc[r] # "awaiting"
          BY <3>3 DEF WriterInv, RecordInv, AwaitedIsQueued, Served
        <5> QED BY <3>1, <4>1, <4>4, <5>1 DEF WriterOf!Places, InFlight, Unrecorded
      <4> QED BY <4>2, <4>3, <4>4
    <3> QED BY <3>2, <3>3
  <2>4. next \in [Served(i) -> WriterOf(i)!Places]
    BY <2>3 DEF PromisedPlace, Served
  <2>5. WriterOf(i)!Die
    BY <2>1, <2>2, <2>3, <2>4 DEF WriterOf!Die, Served
  <2>6. WriterOf(i)!Next
    BY <2>5 DEF WriterOf!Next
  <2> QED BY <1>1, <2>6
<1>3. CASE Restart(i)
  <2>1. /\ ~up[i] /\ up'[i] /\ UNCHANGED <<audits, queue, batch, phase, stopping, pc>>
    BY <1>0, <1>3 DEF Restart, storeVars, writerVars, requestVars
  <2>2. phase[i] = "collect" /\ ~stopping[i]
    BY <2>1 DEF WriterInv, ProcessInv, DownIsQuiet
  <2>3. PromisedPlace(i)' = PromisedPlace(i)
    BY <2>1 DEF PromisedPlace
  <2>4. WriterOf(i)!Start
    BY <2>1, <2>2, <2>3 DEF WriterOf!Start, Served
  <2>5. WriterOf(i)!Next
    BY <2>4 DEF WriterOf!Next
  <2> QED BY <1>1, <2>5
<1> QED BY <1>2, <1>3 DEF Process

(* Every process keeps the promise of WriterPromise to its requests.       *)
THEOREM LedgerKeepsWriterPromise == Spec => KeepsWriterPromise
<1>1. Init => \A i \in Instances : WriterOf(i)!Init
  <2> SUFFICES ASSUME Init, NEW i \in Instances PROVE WriterOf(i)!Init
    OBVIOUS
  <2>1. PromisedPlace(i) = [e \in Served(i) |-> "outside"]
    BY DEF Init, PromisedPlace, Served, Unrecorded
  <2>2. {e \in Served(i) : pc[e] = "awaiting"} = {}
    BY DEF Init, Served
  <2> QED BY <2>1, <2>2 DEF Init, WriterOf!Init
<1>2. WriterInv /\ [Next]_vars => \A i \in Instances : [WriterOf(i)!Next]_(WriterOf(i)!vars)
  <2> SUFFICES ASSUME WriterInv, [Next]_vars
               PROVE  \A i \in Instances : [WriterOf(i)!Next]_(WriterOf(i)!vars)
    OBVIOUS
  <2>1. ASSUME NEW i \in Instances, Writer(i), NEW j \in Instances
        PROVE  [WriterOf(j)!Next]_(WriterOf(j)!vars)
    <3>1. CASE j = i
      <4>1. [WriterOf(i)!Next]_(WriterOf(i)!vars)
        BY <2>1, WriterKeepsWriter
      <4> QED BY <3>1, <4>1
    <3>2. CASE j # i
      BY <2>1, <3>2, WriterElsewhere
    <3> QED BY <3>1, <3>2
  <2>2. ASSUME UNCHANGED <<audits, up, queue, batch, phase, stopping, pc>>, NEW j \in Instances
        PROVE  UNCHANGED WriterOf(j)!vars
    BY <2>2, NothingSeen
  <2>3. StructureOK
    BY DEF WriterInv
  <2> QED BY <2>1, <2>2, <2>3, RequestKeepsWriter, ProcessKeepsWriter, OthersUnseen DEF Next
<1>3. StructureOK /\ RecordInv /\ WriterFits /\ ProcessInv /\ QueuedIsUnstored => WriterInv
  BY DEF WriterInv
<1> QED BY <1>1, <1>2, <1>3, TypeCorrect, RecordsSafe, WritersFit, DownProcessesAreQuiet,
        QueuedIsNew, PTL
     DEF Spec, KeepsWriterPromise
=============================================================================
