--------------------------- MODULE BillingLedger ---------------------------
(***************************************************************************)
(* Client-key billing end to end: a request is admitted, reserves its      *)
(* estimated cost, runs, and hands its audit record to the writer of its   *)
(* instance, which settles batches of records in the store; a background   *)
(* cleaner of every instance releases expired reservations.                *)
(*                                                                         *)
(* Sources: ReserveBilling, ReleaseBillingProtectionBatch and              *)
(* CleanupExpiredBilling of clientkey/service.go; the writer of            *)
(* audit/service.go; the calls in gateway/service.go and the wiring of     *)
(* app/application.go.  Several instances may share the store; the markers *)
(* of active reservations, the queue and the drop counter are local to a   *)
(* process and die with it.                                                *)
(*                                                                         *)
(* The queue and the batch are sets: settlement is per batch and adds up,  *)
(* so the order of the records of a batch cannot be observed.              *)
(***************************************************************************)
EXTENDS BillingStore

CONSTANTS
  Instances,       (* processes sharing the store                          *)
  Home,            (* the instance that serves an event's request          *)
  QueueSize,       (* cap(s.queue)                                         *)
  BatchSize,       (* s.batchSize                                          *)
  Estimates,       (* amounts EstimateOfficialTextReservation may return   *)
  Costs,           (* costs a finished request may have                    *)
  Limits,          (* billing limits an administrator may set              *)
  InitialLimit,    (* the limit every key starts with                      *)
  Validity,        (* what validatePreparedAudit may say of a record       *)
  MaxClock,        (* bound on the clock                                   *)
  MaxCrashes,      (* bound on process ends, over all instances            *)
  Closable,        (* instances that may be shut down                      *)
  CleanupLimit,    (* rows one CleanupExpiredBilling call may release      *)
  Cleaning,        (* instances whose cleaner is observed                  *)
  NoRecord         (* value of record[e] before the request has finished   *)

ASSUME LedgerAssumption ==
  /\ Home \in [Events -> Instances]
  /\ QueueSize \in Nat \ {0}
  /\ BatchSize \in Nat \ {0}
  /\ Estimates \subseteq Nat \ {0}
  /\ Costs \subseteq Nat
  /\ Limits \subseteq Nat
  /\ InitialLimit \in Limits
  /\ MaxClock \in Nat
  /\ MaxCrashes \in Nat
  /\ Closable \subseteq Instances
  /\ CleanupLimit \in Nat \ {0}
  /\ Cleaning \subseteq Instances
  /\ Validity \subseteq BOOLEAN
  /\ NoRecord \notin [cost : Costs, valid : Validity]

(* Limits are 64-bit integers: there is a highest one.                     *)
ASSUME LimitsAssumption == \E m \in Limits : \A value \in Limits : value <= m

VARIABLES
  up,              (* the process runs                                     *)
  active,          (* activeBilling: events this process protects          *)
  dropped,         (* events counted in s.dropped                          *)
  queue,           (* s.queue                                              *)
  batch,           (* requests collected by run, pending of persistBatch   *)
  phase,           (* what the writer goroutine is doing                   *)
  stopping,        (* s.stopped and the closed channel s.stop              *)
  cleanup,         (* one CleanupExpiredBilling call                       *)
  crashes,         (* process ends so far                                  *)
  pc,              (* where the request of an event is                     *)
  record,          (* its audit record: its cost, and if it is valid       *)
  backing          (* history: amount a record was settled against         *)

writerVars  == <<dropped, queue, batch, phase, stopping>>
processVars == <<up, crashes>>
requestVars == <<pc, record>>
vars == <<storeVars, up, active, dropped, queue, batch, phase, stopping,
          cleanup, crashes, pc, record, backing>>

(* A request between its reservation and its last word from the writer.    *)
InFlight == {"marking", "running", "recording", "waiting", "awaiting"}

(* A request whose record has not reached the queue.                       *)
Unrecorded == {"new", "admitted", "marking", "running", "recording", "waiting"}

PCs == Unrecorded \cup {"awaiting", "acked", "timedout", "rejected", "dropped",
                        "lost", "refused", "crashed"}

Phases == {"collect", "persist", "notify", "done"}

Idle == [phase |-> "idle", protected |-> {}, cutoff |-> 0, targets |-> {}]

CostOf == [e \in Events |-> IF record[e] = NoRecord THEN 0 ELSE record[e].cost]

Goto(e, label) == pc' = [pc EXCEPT ![e] = label]

-----------------------------------------------------------------------------
(* The request: gateway createResponseAt, its finalize, and Create.        *)

(* checkLedgerReady passes: this process has lost no record.  The          *)
(* recoverable degradations of the check are in LedgerReadiness.           *)
Admit(e) ==
  /\ pc[e] = "new"
  /\ up[Home[e]]
  /\ dropped[Home[e]] = {}
  /\ Goto(e, "admitted")
  /\ UNCHANGED <<storeVars, writerVars, processVars, active, cleanup, record, backing>>

(* checkLedgerReady refuses.                                               *)
RefuseNotReady(e) ==
  /\ pc[e] = "new"
  /\ up[Home[e]]
  /\ Goto(e, "refused")
  /\ UNCHANGED <<storeVars, writerVars, processVars, active, cleanup, record, backing>>

(* The reservation commits.  The bound keeps its expiry within MaxClock.   *)
ReserveGranted(e) ==
  /\ pc[e] = "admitted"
  /\ clock + Ttl <= MaxClock
  /\ \E amount \in Estimates : GrantReservation(e, amount)
  /\ Goto(e, "marking")
  /\ UNCHANGED <<writerVars, processVars, active, cleanup, record, backing>>

(* Slip: the failed call is tried again.                                   *)
ReserveRetried(e) ==
  /\ pc[e] = "admitted"
  /\ clock + Ttl <= MaxClock
  /\ \E amount \in Estimates : GrantReservation(e, amount)
  /\ UNCHANGED <<writerVars, processVars, active, cleanup, requestVars, backing>>

(* The call fails although its transaction committed: the client gets an   *)
(* error and nothing marks the row.                                        *)
ReserveUnknown(e) ==
  /\ pc[e] = "admitted"
  /\ clock + Ttl <= MaxClock
  /\ \E amount \in Estimates : GrantReservation(e, amount)
  /\ Goto(e, "refused")
  /\ UNCHANGED <<writerVars, processVars, active, cleanup, record, backing>>

(* No capacity, or the key is gone: everything is rolled back.             *)
ReserveDenied(e) ==
  /\ pc[e] = "admitted"
  /\ \E amount \in Estimates :
       /\ limit[KeyOf[e]] > 0 \/ KeyOf[e] \notin liveKeys
       /\ ~CanReserve(e, amount)
  /\ Goto(e, "refused")
  /\ UNCHANGED <<storeVars, writerVars, processVars, active, cleanup, record, backing>>

(* No reservation: the model has no official price, or the key (or the     *)
(* cached copy of it that Authenticate returned) has no limit.             *)
ReserveSkipped(e) ==
  /\ pc[e] = "admitted"
  /\ Goto(e, "running")
  /\ UNCHANGED <<storeVars, writerVars, processVars, active, cleanup, record, backing>>

(* The marker is set after the transaction, under a lock of its own.       *)
MarkActive(e) ==
  /\ pc[e] = "marking"
  /\ active' = [active EXCEPT ![Home[e]] = @ \cup {e}]
  /\ Goto(e, "running")
  /\ UNCHANGED <<storeVars, writerVars, processVars, cleanup, record, backing>>

(* The upstream answered or failed; finalize has built the record.         *)
Finish(e) ==
  /\ pc[e] = "running"
  /\ \E cost \in Costs, valid \in Validity :
       record' = [record EXCEPT ![e] = [cost |-> cost, valid |-> valid]]
  /\ Goto(e, "recording")
  /\ UNCHANGED <<storeVars, writerVars, processVars, active, cleanup, backing>>

(* Slip: one record too many.                                              *)
HasRoomForOneMore(i) == Cardinality(queue[i]) <= QueueSize

HasRoom(i) == Cardinality(queue[i]) < QueueSize

(* Slip: the queue accepts a record after the stop.                        *)
EnqueueAfterStop(e) ==
  /\ pc[e] \in {"recording", "waiting"}
  /\ HasRoom(Home[e])
  /\ queue' = [queue EXCEPT ![Home[e]] = @ \cup {e}]
  /\ Goto(e, "awaiting")
  /\ UNCHANGED <<storeVars, dropped, batch, phase, stopping, processVars, active,
                 cleanup, record, backing>>

(* tryEnqueue finds room, at once or after a wait.                         *)
Enqueue(e) ==
  /\ pc[e] \in {"recording", "waiting"}
  /\ ~stopping[Home[e]]
  /\ HasRoom(Home[e])
  /\ queue' = [queue EXCEPT ![Home[e]] = @ \cup {e}]
  /\ Goto(e, "awaiting")
  /\ UNCHANGED <<storeVars, dropped, batch, phase, stopping, processVars, active,
                 cleanup, record, backing>>

(* tryEnqueue finds the queue full.                                        *)
WaitForSpace(e) ==
  /\ pc[e] = "recording"
  /\ ~stopping[Home[e]]
  /\ ~HasRoom(Home[e])
  /\ Goto(e, "waiting")
  /\ UNCHANGED <<storeVars, writerVars, processVars, active, cleanup, record, backing>>

(* The select of enqueueAcknowledged sees the deadline or the stop:        *)
(* recordEnqueueDrop counts the loss and the drop observer removes the     *)
(* marker.                                                                 *)
DropWaiting(e) ==
  /\ pc[e] = "waiting"
  /\ dropped' = [dropped EXCEPT ![Home[e]] = @ \cup {e}]
  /\ active' = [active EXCEPT ![Home[e]] = @ \ {e}]
  /\ Goto(e, "dropped")
  /\ UNCHANGED <<storeVars, queue, batch, phase, stopping, processVars, cleanup,
                 record, backing>>

(* tryEnqueue after the stop: an error, no count and no observer.          *)
TurnedAway(e) ==
  /\ pc[e] \in {"recording", "waiting"}
  /\ stopping[Home[e]]
  /\ Goto(e, "lost")
  /\ UNCHANGED <<storeVars, writerVars, processVars, active, cleanup, record, backing>>

(* The finalization budget is spent before Create is entered: its first    *)
(* test returns the context's error, with no count and no observer.        *)
BudgetSpent(e) ==
  /\ pc[e] = "recording"
  /\ Goto(e, "lost")
  /\ UNCHANGED <<storeVars, writerVars, processVars, active, cleanup, record, backing>>

(* Slip: the caller takes its marker along.                                *)
AckTimeoutUnmarks(e) ==
  /\ pc[e] = "awaiting"
  /\ active' = [active EXCEPT ![Home[e]] = @ \ {e}]
  /\ Goto(e, "timedout")
  /\ UNCHANGED <<storeVars, writerVars, processVars, cleanup, record, backing>>

(* The deadline passes before the acknowledgement; the record stays with   *)
(* the writer.                                                             *)
AckTimeout(e) ==
  /\ pc[e] = "awaiting"
  /\ Goto(e, "timedout")
  /\ UNCHANGED <<storeVars, writerVars, processVars, active, cleanup, record, backing>>

-----------------------------------------------------------------------------
(* The writer: run and persistBatch.                                       *)

TakeRecord(i) ==
  /\ up[i] /\ phase[i] = "collect"
  /\ \E e \in queue[i] :
       /\ queue' = [queue EXCEPT ![i] = @ \ {e}]
       /\ batch' = [batch EXCEPT ![i] = @ \cup {e}]
       /\ phase' = [phase EXCEPT ![i] =
                      IF Cardinality(batch[i] \cup {e}) >= BatchSize
                        THEN "persist" ELSE "collect"]
  /\ UNCHANGED <<storeVars, dropped, stopping, processVars, active, cleanup,
                 requestVars, backing>>

(* Slip: only a full batch is written.                                     *)
FlushFull(i) ==
  /\ up[i] /\ phase[i] = "collect"
  /\ Cardinality(batch[i]) >= BatchSize
  /\ phase' = [phase EXCEPT ![i] = "persist"]
  /\ UNCHANGED <<storeVars, dropped, queue, batch, stopping, processVars, active,
                 cleanup, requestVars, backing>>

(* The timer fires, or the stopping writer has drained the queue.          *)
Flush(i) ==
  /\ up[i] /\ phase[i] = "collect"
  /\ batch[i] # {}
  /\ phase' = [phase EXCEPT ![i] = "persist"]
  /\ UNCHANGED <<storeVars, dropped, queue, batch, stopping, processVars, active,
                 cleanup, requestVars, backing>>

Invalid(i) == {e \in batch[i] : ~record[e].valid}

(* Slip: the whole batch goes with the invalid record.                     *)
RejectBatch(i) ==
  /\ up[i] /\ phase[i] = "persist"
  /\ \E e \in Invalid(i) :
       /\ dropped' = [dropped EXCEPT ![i] = @ \cup {e}]
       /\ active' = [active EXCEPT ![i] = @ \ {e}]
       /\ Goto(e, "rejected")
  /\ batch' = [batch EXCEPT ![i] = {}]
  /\ phase' = [phase EXCEPT ![i] = "collect"]
  /\ UNCHANGED <<storeVars, queue, stopping, processVars, cleanup, record, backing>>

(* prepareAudits rejects the whole call for one record: the caller gets    *)
(* the error, the loss is counted, the marker removed, and the rest of the *)
(* batch is tried again.                                                   *)
RejectRecord(i) ==
  /\ up[i] /\ phase[i] = "persist"
  /\ \E e \in Invalid(i) :
       /\ batch' = [batch EXCEPT ![i] = @ \ {e}]
       /\ phase' = [phase EXCEPT ![i] = IF batch[i] = {e} THEN "collect" ELSE @]
       /\ dropped' = [dropped EXCEPT ![i] = @ \cup {e}]
       /\ active' = [active EXCEPT ![i] = @ \ {e}]
       /\ Goto(e, "rejected")
  /\ UNCHANGED <<storeVars, queue, stopping, processVars, cleanup, record, backing>>

(* The transaction of CreateBatch and what it settles each record against. *)
SettlePending(i) ==
  /\ up[i] /\ phase[i] = "persist"
  /\ Invalid(i) = {}
  /\ SettleBatch(batch[i], CostOf)
  /\ backing' = [e \in Events |->
       IF e \in Inserted(batch[i]) /\ Holds(e) THEN reservation[e].amount ELSE backing[e]]

(* Slip: an error of the transaction is taken for success.                 *)
CommitUnchecked(i) ==
  /\ up[i] /\ phase[i] = "persist"
  /\ phase' = [phase EXCEPT ![i] = "notify"]
  /\ UNCHANGED <<storeVars, dropped, queue, batch, stopping, processVars, active,
                 cleanup, requestVars, backing>>

CommitBatch(i) ==
  /\ SettlePending(i)
  /\ phase' = [phase EXCEPT ![i] = "notify"]
  /\ UNCHANGED <<dropped, queue, batch, stopping, processVars, active, cleanup, requestVars>>

(* The transaction commits but the writer sees an error or a timeout, and  *)
(* will try the same records again.  A transaction that fails without      *)
(* committing changes nothing.                                             *)
CommitUnknown(i) ==
  /\ SettlePending(i)
  /\ UNCHANGED <<writerVars, processVars, active, cleanup, requestVars>>

(* Slip: the commit observer is not called.                                *)
NotifyWithoutObserver(i) ==
  /\ up[i] /\ phase[i] = "notify"
  /\ pc' = [e \in Events |->
              IF e \in batch[i] /\ pc[e] = "awaiting" THEN "acked" ELSE pc[e]]
  /\ batch' = [batch EXCEPT ![i] = {}]
  /\ phase' = [phase EXCEPT ![i] = "collect"]
  /\ UNCHANGED <<storeVars, dropped, queue, stopping, processVars, active, cleanup,
                 record, backing>>

(* notifyCommitted runs the commit observer, then completeAuditWrites      *)
(* answers the callers that still listen.                                  *)
NotifyCommitted(i) ==
  /\ up[i] /\ phase[i] = "notify"
  /\ active' = [active EXCEPT ![i] = @ \ batch[i]]
  /\ pc' = [e \in Events |->
              IF e \in batch[i] /\ pc[e] = "awaiting" THEN "acked" ELSE pc[e]]
  /\ batch' = [batch EXCEPT ![i] = {}]
  /\ phase' = [phase EXCEPT ![i] = "collect"]
  /\ UNCHANGED <<storeVars, dropped, queue, stopping, processVars, cleanup, record, backing>>

(* Close.                                                                  *)
Close(i) ==
  /\ i \in Closable
  /\ up[i] /\ ~stopping[i]
  /\ stopping' = [stopping EXCEPT ![i] = TRUE]
  /\ UNCHANGED <<storeVars, dropped, queue, batch, phase, processVars, active,
                 cleanup, requestVars, backing>>

(* run returns after the drain and runSupervised closes done.              *)
WriterDone(i) ==
  /\ up[i] /\ phase[i] = "collect"
  /\ stopping[i]
  /\ queue[i] = {} /\ batch[i] = {}
  /\ phase' = [phase EXCEPT ![i] = "done"]
  /\ UNCHANGED <<storeVars, dropped, queue, batch, stopping, processVars, active,
                 cleanup, requestVars, backing>>

-----------------------------------------------------------------------------
(* The cleaner: CleanupExpiredBilling at startup and every ten minutes.    *)

(* Slip: the markers are not passed on.                                    *)
SnapshotNothing(i) ==
  /\ i \in Cleaning
  /\ up[i] /\ cleanup[i].phase = "idle"
  /\ cleanup' = [cleanup EXCEPT ![i] =
       [phase |-> "scan", protected |-> {}, cutoff |-> clock, targets |-> {}]]
  /\ UNCHANGED <<storeVars, writerVars, processVars, active, requestVars, backing>>

SnapshotProtected(i) ==
  /\ i \in Cleaning
  /\ up[i] /\ cleanup[i].phase = "idle"
  /\ cleanup' = [cleanup EXCEPT ![i] =
       [phase |-> "scan", protected |-> active[i], cutoff |-> clock, targets |-> {}]]
  /\ UNCHANGED <<storeVars, writerVars, processVars, active, requestVars, backing>>

(* Slip: protected rows use up the scan.                                   *)
ScanLimitAlone(i) == CleanupLimit

(* Rows read so that protected ones leave room for CleanupLimit others.    *)
ScanLimit(i) == CleanupLimit + Cardinality(cleanup[i].protected)

(* The first n of the rows of S by expiry, whatever the order of a tie.    *)
Oldest(S, n) ==
  {T \in SUBSET S :
     /\ Cardinality(T) = IF n < Cardinality(S) THEN n ELSE Cardinality(S)
     /\ \A e \in T, f \in S \ T : reservation[e].expiresAt <= reservation[f].expiresAt}

(* The query for expired rows, outside any transaction.                    *)
ScanExpired(i) ==
  /\ up[i] /\ cleanup[i].phase = "scan"
  /\ \E candidates \in Oldest(ExpiredBy(cleanup[i].cutoff), ScanLimit(i)) :
       \E targets \in Oldest(candidates \ cleanup[i].protected, CleanupLimit) :
         cleanup' = [cleanup EXCEPT ![i] =
           [phase |-> "release", protected |-> cleanup[i].protected,
            cutoff |-> cleanup[i].cutoff, targets |-> targets]]
  /\ UNCHANGED <<storeVars, writerVars, processVars, active, requestVars, backing>>

OfKey(S, k) == {e \in S : KeyOf[e] = k}

(* One transaction for each key with targets.                              *)
ReleaseTargets(i) ==
  /\ up[i] /\ cleanup[i].phase = "release"
  /\ \E k \in Keys :
       /\ OfKey(cleanup[i].targets, k) # {}
       /\ ReleaseExpired(k, cleanup[i].targets, cleanup[i].cutoff)
       /\ cleanup' = [cleanup EXCEPT ![i].targets = @ \ OfKey(@, k)]
  /\ UNCHANGED <<writerVars, processVars, active, requestVars, backing>>

(* No targets are left, the next key is gone, or the database fails.       *)
CleanupReturns(i) ==
  /\ up[i] /\ cleanup[i].phase # "idle"
  /\ cleanup' = [cleanup EXCEPT ![i] = Idle]
  /\ UNCHANGED <<storeVars, writerVars, processVars, active, requestVars, backing>>

-----------------------------------------------------------------------------
(* The environment.                                                        *)

ChangeLimit(k) ==
  /\ \E value \in Limits : UpdateLimit(k, value)
  /\ UNCHANGED <<writerVars, processVars, active, cleanup, requestVars, backing>>

RemoveKey(k) ==
  /\ DeleteKey(k)
  /\ UNCHANGED <<writerVars, processVars, active, cleanup, requestVars, backing>>

(* Time passes.  A request ends before its reservation expires: the HTTP   *)
(* timeout bounds it by requestTimeout, the finalization by five seconds,  *)
(* and textBillingReservationTTL adds ten minutes to their sum.            *)
Tick ==
  /\ clock < MaxClock
  /\ \A e \in Events :
       Holds(e) /\ pc[e] \in InFlight => clock + 1 < reservation[e].expiresAt
  /\ clock' = clock + 1
  /\ UNCHANGED <<liveKeys, limit, billed, reserved, reservation, audits,
                 writerVars, processVars, active, cleanup, requestVars, backing>>

(* The requests that die with process i: those being served, and those     *)
(* that gave up waiting for a record the writer still holds.               *)
DiesWith(i) ==
  {e \in Events : Home[e] = i /\ \/ pc[e] \in InFlight \cup {"admitted"}
                                 \/ pc[e] = "timedout" /\ e \in queue[i] \cup batch[i]}

(* The process ends, after Close or by a crash.                            *)
Crash(i) ==
  /\ up[i]
  /\ crashes < MaxCrashes
  /\ crashes' = crashes + 1
  /\ up' = [up EXCEPT ![i] = FALSE]
  /\ pc' = [e \in Events |-> IF e \in DiesWith(i) THEN "crashed" ELSE pc[e]]
  /\ active'   = [active   EXCEPT ![i] = {}]
  /\ dropped'  = [dropped  EXCEPT ![i] = {}]
  /\ queue'    = [queue    EXCEPT ![i] = {}]
  /\ batch'    = [batch    EXCEPT ![i] = {}]
  /\ phase'    = [phase    EXCEPT ![i] = "collect"]
  /\ stopping' = [stopping EXCEPT ![i] = FALSE]
  /\ cleanup'  = [cleanup  EXCEPT ![i] = Idle]
  /\ UNCHANGED <<storeVars, record, backing>>

Restart(i) ==
  /\ ~up[i]
  /\ up' = [up EXCEPT ![i] = TRUE]
  /\ UNCHANGED <<storeVars, writerVars, crashes, active, cleanup, requestVars, backing>>

-----------------------------------------------------------------------------
Init ==
  /\ liveKeys = Keys
  /\ limit = [k \in Keys |-> InitialLimit]
  /\ billed = [k \in Keys |-> 0]
  /\ reserved = [k \in Keys |-> 0]
  /\ reservation = [e \in Events |-> NoReservation]
  /\ audits = {}
  /\ clock = 0
  /\ up = [i \in Instances |-> TRUE]
  /\ active = [i \in Instances |-> {}]
  /\ dropped = [i \in Instances |-> {}]
  /\ queue = [i \in Instances |-> {}]
  /\ batch = [i \in Instances |-> {}]
  /\ phase = [i \in Instances |-> "collect"]
  /\ stopping = [i \in Instances |-> FALSE]
  /\ cleanup = [i \in Instances |-> Idle]
  /\ crashes = 0
  /\ pc = [e \in Events |-> "new"]
  /\ record = [e \in Events |-> NoRecord]
  /\ backing = [e \in Events |-> 0]

Request(e) ==
  \/ Admit(e) \/ RefuseNotReady(e)
  \/ ReserveGranted(e) \/ ReserveUnknown(e) \/ ReserveDenied(e) \/ ReserveSkipped(e)
  \/ MarkActive(e) \/ Finish(e)
  \/ Enqueue(e) \/ WaitForSpace(e) \/ DropWaiting(e) \/ TurnedAway(e) \/ BudgetSpent(e)
  \/ AckTimeout(e)

Writer(i) ==
  \/ TakeRecord(i) \/ Flush(i) \/ RejectRecord(i)
  \/ CommitBatch(i) \/ CommitUnknown(i) \/ NotifyCommitted(i)
  \/ Close(i) \/ WriterDone(i)

Cleaner(i) ==
  \/ SnapshotProtected(i) \/ ScanExpired(i) \/ ReleaseTargets(i) \/ CleanupReturns(i)

Process(i) == Crash(i) \/ Restart(i)

Administrator(k) == ChangeLimit(k) \/ RemoveKey(k)

Next ==
  \/ \E e \in Events : Request(e)
  \/ \E i \in Instances : Writer(i) \/ Cleaner(i) \/ Process(i)
  \/ \E k \in Keys : Administrator(k)
  \/ Tick

Spec == Init /\ [][Next]_vars

-----------------------------------------------------------------------------
(* Types.                                                                  *)

Cleanup == [phase : {"idle", "scan", "release"}, protected : SUBSET Events,
            cutoff : Nat, targets : SUBSET Events]

RowOrNone == [amount : Nat, expiresAt : Nat] \cup {NoReservation}

(* The type invariant, without the two sums of money.                      *)
StructureOK ==
  /\ liveKeys \subseteq Keys
  /\ reservation \in [Events -> RowOrNone]
  /\ audits \subseteq Events
  /\ clock \in Nat
  /\ up \in [Instances -> BOOLEAN]
  /\ active \in [Instances -> SUBSET Events]
  /\ dropped \in [Instances -> SUBSET Events]
  /\ queue \in [Instances -> SUBSET Events]
  /\ batch \in [Instances -> SUBSET Events]
  /\ phase \in [Instances -> Phases]
  /\ stopping \in [Instances -> BOOLEAN]
  /\ cleanup \in [Instances -> Cleanup]
  /\ crashes \in Nat
  /\ pc \in [Events -> PCs]
  /\ record \in [Events -> [cost : Costs, valid : Validity] \cup {NoRecord}]

(* Every variable has its type, and no queue outgrows its channel.         *)
TypeOK ==
  /\ StructureOK
  /\ limit \in [Keys -> Limits]
  /\ billed \in [Keys -> 0..MaxTicks]
  /\ reserved \in [Keys -> Nat]
  /\ backing \in [Events -> Estimates \cup {0}]
  /\ \A i \in Instances : /\ Cardinality(queue[i]) <= QueueSize
                          /\ Cardinality(batch[i]) <= BatchSize

-----------------------------------------------------------------------------
(* Safety: the money.                                                      *)

(* reserved_usage_usd_ticks of every key is the sum of its reservation     *)
(* rows, across grants that reclaim, settlements, cleanups and deletes.    *)
ReservedMatchesRows == \A k \in Keys : reserved[k] = AmountOf(Held(k))

(* billed_usage_usd_ticks of a key is the saturated sum of the costs of    *)
(* its audit records: none is billed twice when a batch is retried, and    *)
(* none is missed.                                                         *)
BilledExactlyOnce ==
  \A k \in liveKeys :
    LET total == SumOf(CostOf, OfKey(audits, k))
    IN  billed[k] = IF total > MaxTicks THEN MaxTicks ELSE total

(* What the costs of k exceeded the amounts they were settled against.     *)
Overshoot(k) ==
  SumOf([e \in Events |-> Less(CostOf[e], backing[e])], OfKey(audits, k))

MaxLimit == CHOOSE m \in Limits : \A value \in Limits : value <= m

(* A key never owes more than the highest limit it can have had, but for   *)
(* what its requests cost beyond their reservations: concurrent            *)
(* reservations never share the same remaining budget.                     *)
BudgetKept == \A k \in liveKeys : billed[k] + reserved[k] <= MaxLimit + Overshoot(k)

(* A request whose record is stored holds no reservation any more, nor     *)
(* takes one later.                                                        *)
SettledHoldsNothing == \A e \in audits : ~Holds(e)

-----------------------------------------------------------------------------
(* Safety: the records.                                                    *)

(* Create returns success only for a stored record.                        *)
AckMeansDurable == \A e \in Events : pc[e] = "acked" => e \in audits

(* A record the queue accepted is with the writer or in the store, even    *)
(* when the caller has stopped waiting and the batch is tried again.       *)
AcceptedIsAccounted ==
  \A e \in Events :
    pc[e] \in {"awaiting", "timedout"} => e \in queue[Home[e]] \cup batch[Home[e]] \cup audits

(* When Close returns nil the queue is drained and nobody waits for an     *)
(* answer that will not come.                                              *)
CloseLeavesNobodyWaiting ==
  \A i \in Instances : phase[i] = "done" =>
    /\ queue[i] = {} /\ batch[i] = {}
    /\ \A e \in Events : Home[e] = i => pc[e] # "awaiting"

(* From the marker to the settlement, a held reservation is protected by   *)
(* its process: also after the caller gave up, while the record is queued. *)
ProtectedUntilSettled ==
  \A e \in Events :
    /\ Holds(e)
    /\ pc[e] \in {"running", "recording", "waiting", "awaiting", "timedout"}
    => e \in active[Home[e]]

(* "a callback for records that can no longer enter the writer": a record  *)
(* that is lost on its way to the writer leaves no marker behind.          *)
LostIsObserved == \A e \in Events : pc[e] = "lost" => e \notin active[Home[e]]

(* A marker outlives its reservation or request only where no observer is  *)
(* called: after TurnedAway and BudgetSpent.                               *)
MarkersReclaimed ==
  \A i \in Instances : \A e \in active[i] :
    /\ Home[e] = i
    /\ pc[e] \in (InFlight \ {"marking"}) \cup {"timedout", "lost"}

-----------------------------------------------------------------------------
(* Action properties.                                                      *)

(* The cleaner of an instance never releases a reservation that instance   *)
(* still protects, although it takes the snapshot, scans and deletes in    *)
(* separate steps while requests come and go.                              *)
OwnCleanerSparesActive ==
  [][\A i \in Instances : ReleaseTargets(i) =>
       \A e \in active[i] : Holds(e) => reservation'[e] = reservation[e]]_vars

(* A reservation disappears only because its record is stored, its key is  *)
(* deleted, or it has expired and its request is no longer in flight:      *)
(* neither another request that needs room nor a cleanup of any process    *)
(* takes the row of a request at work, marked or not.                      *)
RowsLeaveForCause ==
  [][\A e \in Events : Holds(e) /\ ~Holds(e)' =>
       \/ e \in audits'
       \/ KeyOf[e] \notin liveKeys'
       \/ reservation[e].expiresAt <= clock /\ pc[e] \notin InFlight]_vars

-----------------------------------------------------------------------------
(* The promise of BillingPromise, request by request.                      *)

PromiseStatus ==
  [e \in Events |-> IF e \in audits THEN "settled"
                    ELSE IF Holds(e) THEN "held"
                    ELSE IF pc[e] \in {"new", "admitted"} THEN "start"
                    ELSE "open"]

Promise == INSTANCE BillingPromise WITH status <- PromiseStatus

(* The ledger implements the promise: money moves forward only.            *)
KeepsPromise == Promise!Spec

(* The writer of process i as WriterPromise sees it.                       *)
Served(i) == {e \in Events : Home[e] = i}

PromisedPlace(i) ==
  [e \in Served(i) |->
     IF e \in queue[i] THEN "queued"
     ELSE IF e \in batch[i] THEN "taken"
     ELSE IF e \in audits \/ pc[e] = "rejected" THEN "decided"
     ELSE IF pc[e] \in Unrecorded THEN "outside"
     ELSE IF pc[e] \in {"dropped", "lost", "refused"} THEN "away"
     ELSE "dead"]

WriterOf(i) == INSTANCE WriterPromise
  WITH Records <- Served(i), Capacity <- QueueSize, MaxBatch <- BatchSize,
       place <- PromisedPlace(i),
       listening <- {e \in Served(i) : pc[e] = "awaiting"},
       stopped <- stopping[i] \/ ~up[i],
       done <- phase[i] = "done" \/ ~up[i]

(* Every process keeps the promise of WriterPromise to its requests while  *)
(* callers give up, batches are retried or split, and processes end and    *)
(* start: a record let in is lost only with its process, none is let in    *)
(* after the stop, and a writer returns only when it holds nothing.        *)
KeepsWriterPromise ==
  /\ \A i \in Instances : WriterOf(i)!Init
  /\ [][\A i \in Instances : [WriterOf(i)!Next]_(WriterOf(i)!vars)]_vars

-----------------------------------------------------------------------------
(* Liveness.                                                               *)

(* The goroutines of a process run while it is up, the callers reach their *)
(* deadlines, the periodic cleanup runs, the clock advances and an ended   *)
(* process is started again.  No request has to arrive, no administrator   *)
(* has to act.  A commit succeeds when it is tried for ever, and a query   *)
(* or a release when cleanups come to it again and again.                  *)
Fairness ==
  /\ WF_vars(Tick)
  /\ \A e \in Events :
       /\ WF_vars(ReserveGranted(e) \/ ReserveDenied(e) \/ ReserveSkipped(e))
       /\ WF_vars(MarkActive(e))
       /\ WF_vars(Finish(e))
       /\ WF_vars(Enqueue(e) \/ WaitForSpace(e) \/ TurnedAway(e))
       /\ WF_vars(DropWaiting(e))
       /\ WF_vars(AckTimeout(e))
  /\ \A i \in Instances :
       /\ WF_vars(TakeRecord(i))
       /\ WF_vars(Flush(i))
       /\ WF_vars(RejectRecord(i))
       /\ WF_vars(CommitBatch(i))
       /\ WF_vars(NotifyCommitted(i))
       /\ WF_vars(WriterDone(i))
       /\ WF_vars(SnapshotProtected(i))
       /\ SF_vars(ScanExpired(i))
       /\ SF_vars(ReleaseTargets(i))
       /\ WF_vars(CleanupReturns(i) /\ cleanup[i].targets = {})
       /\ WF_vars(Restart(i))

FairSpec == Spec /\ Fairness

(* A record the queue accepted is stored, rejected, or dies with its       *)
(* process.                                                                *)
AcceptedIsDecided ==
  \A e \in Events :
    pc[e] \in {"awaiting", "timedout"} ~>
      e \in audits \/ pc[e] \in {"rejected", "crashed"}

(* A held reservation is let go, unless its record was turned away by a    *)
(* process that still protects it.                                         *)
HoldsAreReleased ==
  \A e \in Events :
    Holds(e) ~> ~Holds(e) \/ (pc[e] = "lost" /\ e \in active[Home[e]])
=============================================================================
