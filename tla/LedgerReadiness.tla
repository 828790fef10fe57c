--------------------------- MODULE LedgerReadiness ---------------------------
(***************************************************************************)
(* The readiness of the billing ledger, which gates new inference: the     *)
(* fields ledger* of the audit service, the handlers of a failed, of a     *)
(* successful and of a dropped write, the queue pressure that every look   *)
(* at the ledger brings up to date, and CheckLedgerReady.                  *)
(*                                                                         *)
(* Every handler runs under ledgerMu and is one step; the drop counter is  *)
(* an atomic of its own, and counting a loss and noting it under the mutex *)
(* are two steps.  Instants are integers and 0 is the zero time.           *)
(***************************************************************************)
EXTENDS Integers

CONSTANTS
  Capacity,        (* cap(s.queue)                                         *)
  Configs,         (* normalised policies an operator may set              *)
  MaxTime,         (* bound on the clock                                   *)
  MaxFailures,     (* bound on consecutive failed writes                   *)
  MaxDrops         (* bound on lost records                                *)

(* UpdateLedgerConfig replaces every value outside these ranges.           *)
Policy == [mode : {"observe", "enforce"}, threshold : Nat \ {0},
           grace : Nat \ {0}, watermark : 1..100]

ASSUME ReadinessAssumption ==
  /\ Capacity \in Nat \ {0}
  /\ Configs \subseteq Policy
  /\ MaxTime \in Nat /\ MaxFailures \in Nat /\ MaxDrops \in Nat

VARIABLES
  now,             (* the wall clock                                       *)
  config,          (* ledgerConfig                                         *)
  depth,           (* len(s.queue)                                         *)
  failures,        (* ledgerFailures, since the last success               *)
  unhealthySince,  (* ledgerUnhealthySince                                 *)
  highSince,       (* ledgerQueueHighSince                                 *)
  dropped,         (* s.dropped                                            *)
  unnoted,         (* losses counted and not yet noted under the mutex     *)
  verdict,         (* what the last CheckLedgerReady answered              *)
  troubleSince     (* history: when the present trouble began, 0 for none  *)

vars == <<now, config, depth, failures, unhealthySince, highSince, dropped,
          unnoted, verdict, troubleSince>>

(* Whatever may keep the ledger from being healthy.                        *)
Trouble == failures > 0 \/ highSince # 0 \/ dropped > 0

KeepHistory ==
  troubleSince' = IF ~Trouble' THEN 0 ELSE IF Trouble THEN troubleSince ELSE now

-----------------------------------------------------------------------------
(* recordLedgerFailure.                                                    *)
WriteFailed ==
  /\ failures < MaxFailures
  /\ failures' = failures + 1
  /\ unhealthySince' = IF failures' >= config.threshold /\ unhealthySince = 0
                         THEN now ELSE unhealthySince
  /\ UNCHANGED <<now, config, depth, highSince, dropped, unnoted, verdict>>
  /\ KeepHistory

(* Slip: a success does not lift the mark.                                 *)
WriteSucceededKeepsMark ==
  /\ failures' = 0
  /\ UNCHANGED <<now, config, depth, unhealthySince, highSince, dropped, unnoted, verdict>>
  /\ KeepHistory

(* recordLedgerSuccess.                                                    *)
WriteSucceeded ==
  /\ failures' = 0
  /\ unhealthySince' = IF dropped = 0 /\ highSince = 0 THEN 0 ELSE unhealthySince
  /\ UNCHANGED <<now, config, depth, highSince, dropped, unnoted, verdict>>
  /\ KeepHistory

(* recordEnqueueDrop and recordRejectedAudit count a loss first ...        *)
CountDrop ==
  /\ dropped < MaxDrops
  /\ dropped' = dropped + 1
  /\ unnoted' = unnoted + 1
  /\ UNCHANGED <<now, config, depth, failures, unhealthySince, highSince, verdict>>
  /\ KeepHistory

(* ... and call recordLedgerDrop.                                          *)
NoteDrop ==
  /\ unnoted > 0
  /\ unnoted' = unnoted - 1
  /\ unhealthySince' = IF unhealthySince = 0 THEN now ELSE unhealthySince
  /\ UNCHANGED <<now, config, depth, failures, highSince, dropped, verdict, troubleSince>>

-----------------------------------------------------------------------------
UnderPressure == depth * 100 >= Capacity * config.watermark

(* Slip: the mark stays when the pressure that set it goes.                *)
UpdatePressureKeepsMark ==
  IF UnderPressure
    THEN /\ highSince' = IF highSince = 0 THEN now ELSE highSince
         /\ unhealthySince' = IF unhealthySince = 0 THEN highSince' ELSE unhealthySince
    ELSE /\ highSince' = 0
         /\ UNCHANGED unhealthySince

(* updateQueuePressureLocked.                                              *)
UpdatePressure ==
  IF UnderPressure
    THEN /\ highSince' = IF highSince = 0 THEN now ELSE highSince
         /\ unhealthySince' = IF unhealthySince = 0 THEN highSince' ELSE unhealthySince
    ELSE /\ highSince' = 0
         /\ unhealthySince' = IF highSince # 0 /\ failures = 0 /\ dropped = 0
                                THEN 0 ELSE unhealthySince

(* The earlier of two instants, where the zero time stands for none.       *)
Earlier(s, t) == IF t # 0 /\ (s = 0 \/ t < s) THEN t ELSE s

DegradedSince == Earlier(unhealthySince, highSince)

(* Slip: no grace.                                                         *)
ReadyWithoutGrace == DegradedSince = 0

(* ledgerReadyLocked.                                                      *)
ReadyLocked == DegradedSince = 0 \/ now - DegradedSince < config.grace

(* LedgerSnapshot.Ready.                                                   *)
Ready == dropped = 0 /\ ReadyLocked

(* The metrics loop and the health endpoint take a snapshot.               *)
Snapshot ==
  /\ UpdatePressure
  /\ UNCHANGED <<now, config, depth, failures, dropped, unnoted, verdict>>
  /\ KeepHistory

(* CheckLedgerReady: a snapshot and a verdict on it.                       *)
Check ==
  /\ UpdatePressure
  /\ UNCHANGED <<now, config, depth, failures, dropped, unnoted>>
  /\ verdict' = IF Ready' \/ (dropped = 0 /\ config.mode # "enforce")
                  THEN "admit" ELSE "refuse"
  /\ KeepHistory

-----------------------------------------------------------------------------
QueueMoves ==
  /\ depth' \in {depth - 1, depth + 1} \cap 0..Capacity
  /\ UNCHANGED <<now, config, failures, unhealthySince, highSince, dropped,
                 unnoted, verdict, troubleSince>>

UpdateLedgerConfig ==
  /\ config' \in Configs \ {config}
  /\ UNCHANGED <<now, depth, failures, unhealthySince, highSince, dropped,
                 unnoted, verdict, troubleSince>>

Tick ==
  /\ now < MaxTime
  /\ now' = now + 1
  /\ UNCHANGED <<config, depth, failures, unhealthySince, highSince, dropped,
                 unnoted, verdict, troubleSince>>

Init ==
  /\ now = 1
  /\ config \in Configs
  /\ depth = 0
  /\ failures = 0
  /\ unhealthySince = 0
  /\ highSince = 0
  /\ dropped = 0
  /\ unnoted = 0
  /\ verdict = "admit"
  /\ troubleSince = 0

Next ==
  \/ WriteFailed \/ WriteSucceeded \/ CountDrop \/ NoteDrop
  \/ Snapshot \/ Check
  \/ QueueMoves \/ UpdateLedgerConfig \/ Tick

Spec == Init /\ [][Next]_vars

-----------------------------------------------------------------------------
(* Every field has its type and no instant lies in the future.             *)
TypeOK ==
  /\ now \in 1..(MaxTime + 1)
  /\ config \in Configs
  /\ depth \in 0..Capacity
  /\ failures \in Nat
  /\ dropped \in Nat
  /\ unnoted \in Nat
  /\ unhealthySince \in 0..now
  /\ highSince \in 0..now
  /\ troubleSince \in 0..now
  /\ verdict \in {"admit", "refuse"}

(* The ledger is never marked unhealthy without a cause that a later step  *)
(* can lift, or a loss: whichever way failures, pressure and successes     *)
(* alternate, the mark goes when the last cause goes.                      *)
UnhealthyHasCause == unhealthySince # 0 => Trouble

(* The grace period is counted from the trouble at hand and never from an  *)
(* earlier one that was over.                                              *)
NoStaleOnset == DegradedSince # 0 => Trouble /\ DegradedSince >= troubleSince

(* A ledger without loss, failure or pressure is open at the next check,   *)
(* whatever happened before.                                               *)
RecoveredIsAdmitted ==
  [][Check /\ dropped = 0 /\ failures = 0 /\ ~UnderPressure => verdict' = "admit"]_vars

(* Short of a loss, a refusal needs the enforce mode and a trouble that    *)
(* has lasted the whole grace period.                                      *)
RefusalIsEarned ==
  [][Check /\ verdict' = "refuse" /\ dropped = 0 =>
       /\ config.mode = "enforce"
       /\ troubleSince # 0
       /\ now - troubleSince >= config.grace]_vars

(* The manual: "observe only reports ledger faults".                       *)
ObserveNeverPauses == [][Check /\ config.mode = "observe" => verdict' = "admit"]_vars
=============================================================================
