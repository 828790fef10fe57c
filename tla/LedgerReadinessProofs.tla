----------------------- MODULE LedgerReadinessProofs ------------------------
(***************************************************************************)
(* Proofs about LedgerReadiness for every capacity, every set of policies  *)
(* and every bound on the clock, the failures and the losses.              *)
(***************************************************************************)
EXTENDS LedgerReadiness, TLAPS

(* Each of the two marks is an instant of the trouble at hand, a loss that *)
(* has not been noted is counted, and the history knows about the trouble. *)
OnsetInv ==
  /\ TypeOK
  /\ UnhealthyHasCause
  /\ unnoted > 0 => dropped > 0
  /\ troubleSince # 0 <=> Trouble
  /\ unhealthySince # 0 => unhealthySince >= troubleSince
  /\ highSince # 0 => highSince >= troubleSince

(* The initial states satisfy the invariant.                               *)
LEMMA InitOnset == Init => OnsetInv
  BY ReadinessAssumption DEF Init, OnsetInv, TypeOK, UnhealthyHasCause, Trouble

(* Bringing the queue pressure up to date keeps the invariant.             *)
LEMMA PressureOnset ==
  ASSUME OnsetInv, UpdatePressure, KeepHistory, verdict' \in {"admit", "refuse"},
         UNCHANGED <<now, config, depth, failures, dropped, unnoted>>
  PROVE  OnsetInv'
<1> USE DEF OnsetInv, TypeOK, UnhealthyHasCause, Trouble, KeepHistory
<1>1. CASE UnderPressure
  BY <1>1 DEF UpdatePressure
<1>2. CASE ~UnderPressure
  BY <1>2 DEF UpdatePressure
<1> QED BY <1>1, <1>2

(* Every step keeps the invariant.                                         *)
LEMMA StepOnset == OnsetInv /\ [Next]_vars => OnsetInv'
<1> SUFFICES ASSUME OnsetInv, [Next]_vars PROVE OnsetInv'
  OBVIOUS
<1> USE ReadinessAssumption
<1> USE DEF OnsetInv, TypeOK, UnhealthyHasCause, Trouble, KeepHistory
<1>1. CASE WriteFailed
  BY <1>1 DEF WriteFailed, Policy
<1>2. CASE WriteSucceeded
  BY <1>2 DEF WriteSucceeded
<1>3. CASE CountDrop
  BY <1>3 DEF CountDrop
<1>4. CASE NoteDrop
  BY <1>4 DEF NoteDrop
<1>5. CASE Snapshot
  BY <1>5, PressureOnset DEF Snapshot
<1>6. CASE Check
  <2>1. verdict' \in {"admit", "refuse"}
    BY <1>6 DEF Check
  <2> QED BY <1>6, <2>1, PressureOnset DEF Check
<1>7. CASE QueueMoves
  BY <1>7 DEF QueueMoves
<1>8. CASE UpdateLedgerConfig
  BY <1>8 DEF UpdateLedgerConfig
<1>9. CASE Tick
  BY <1>9 DEF Tick
<1>10. CASE UNCHANGED vars
  BY <1>10 DEF vars
<1> QED BY <1>1, <1>2, <1>3, <1>4, <1>5, <1>6, <1>7, <1>8, <1>9, <1>10 DEF Next

(* The invariant holds in every behaviour.                                 *)
THEOREM OnsetSafe == Spec => []OnsetInv
  BY InitOnset, StepOnset, PTL DEF Spec

(* Every variable keeps its type.                                          *)
THEOREM ReadinessTyped == Spec => []TypeOK
<1>1. OnsetInv => TypeOK
  BY DEF OnsetInv
<1> QED BY <1>1, OnsetSafe, PTL

(* The mark of an unhealthy ledger goes when its last cause goes.          *)
THEOREM UnhealthyIsCaused == Spec => []UnhealthyHasCause
<1>1. OnsetInv => UnhealthyHasCause
  BY DEF OnsetInv
<1> QED BY <1>1, OnsetSafe, PTL

(* The grace period is counted from the trouble at hand.                   *)
THEOREM OnsetIsFresh == Spec => []NoStaleOnset
<1>1. OnsetInv => NoStaleOnset
  BY DEF OnsetInv, TypeOK, UnhealthyHasCause, NoStaleOnset, DegradedSince, Earlier, Trouble
<1> QED BY <1>1, OnsetSafe, PTL

(* A recovered ledger is open at the next check.                           *)
THEOREM RecoveredIsOpen == Spec => RecoveredIsAdmitted
<1>1. ASSUME OnsetInv, Check, dropped = 0, failures = 0, ~UnderPressure
      PROVE  verdict' = "admit"
  <2>1. highSince' = 0 /\ unhealthySince' = 0 /\ dropped' = 0
    BY <1>1 DEF Check, UpdatePressure, OnsetInv, TypeOK, UnhealthyHasCause, Trouble
  <2>2. Ready'
    BY <2>1 DEF Ready, ReadyLocked, DegradedSince, Earlier
  <2> QED BY <1>1, <2>2 DEF Check
<1>2. OnsetInv =>
        [Check /\ dropped = 0 /\ failures = 0 /\ ~UnderPressure => verdict' = "admit"]_vars
  BY <1>1
<1> QED BY <1>2, OnsetSafe, PTL DEF RecoveredIsAdmitted

(* Short of a loss, a refusal is earned by a whole grace period.           *)
THEOREM RefusalTakesGrace == Spec => RefusalIsEarned
<1>1. ASSUME OnsetInv, OnsetInv', Check, verdict' = "refuse", dropped = 0
      PROVE  /\ config.mode = "enforce"
             /\ troubleSince # 0
             /\ now - troubleSince >= config.grace
  <2>1. ~Ready' /\ config.mode = "enforce" /\ UNCHANGED <<now, config, dropped>>
    BY <1>1 DEF Check
  <2>2. DegradedSince' # 0 /\ now - DegradedSince' >= config.grace
    <3>1. ~ReadyLocked'
      BY <1>1, <2>1 DEF Ready
    <3>2. DegradedSince' \in Nat /\ now \in Nat /\ config.grace \in Nat \ {0}
      BY <1>1, <2>1, ReadinessAssumption
         DEF DegradedSince, Earlier, OnsetInv, TypeOK, Policy
    <3> QED BY <2>1, <3>1, <3>2 DEF ReadyLocked
  <2>3. DegradedSince' >= troubleSince' /\ Trouble'
    BY <1>1, <2>2
       DEF OnsetInv, TypeOK, UnhealthyHasCause, DegradedSince, Earlier, Trouble
  <2>4. troubleSince' = IF Trouble THEN troubleSince ELSE now
    BY <1>1, <2>3 DEF Check, KeepHistory
  <2>5. /\ config.grace \in Nat \ {0} /\ now \in Nat /\ DegradedSince' \in Nat
        /\ troubleSince \in Nat
    BY <1>1, <2>1, ReadinessAssumption
       DEF DegradedSince, Earlier, OnsetInv, TypeOK, Policy
  <2>6. Trouble
    BY <2>2, <2>3, <2>4, <2>5
  <2>7. troubleSince # 0
    BY <1>1, <2>6 DEF OnsetInv
  <2> QED BY <2>1, <2>2, <2>3, <2>4, <2>5, <2>6, <2>7
<1>2. OnsetInv /\ OnsetInv' =>
        [Check /\ verdict' = "refuse" /\ dropped = 0 =>
           /\ config.mode = "enforce"
           /\ troubleSince # 0
           /\ now - troubleSince >= config.grace]_vars
  BY <1>1
<1> QED BY <1>2, OnsetSafe, PTL DEF RefusalIsEarned
=============================================================================
