----------------------------- MODULE AuditQueue -----------------------------
(***************************************************************************)
(* The bounded queue between the callers of Create and the writer          *)
(* goroutine of audit/service.go, at the grain of its channel operations   *)
(* and atomics: BillingLedger takes the whole of it as one step.           *)
(*                                                                         *)
(* A caller that finds the queue full announces itself in queueWaiters,    *)
(* tries again, and sleeps until a token arrives on queueSpace, the stop   *)
(* channel closes or its context ends.  The writer posts a token after it  *)
(* takes a record, but only if somebody has announced itself.  tryEnqueue  *)
(* holds the read lock of lifecycleMu and Close the write lock, so both    *)
(* are one step.                                                           *)
(***************************************************************************)
EXTENDS Integers, FiniteSets

CONSTANTS
  Callers,         (* requests that hand over one record each              *)
  QueueSize,       (* capacity of queue and of queueSpace                  *)
  BatchSizes,      (* values UpdateWriterConfig may set                    *)
  NoCaller         (* value of taken when the writer holds no record       *)

ASSUME QueueAssumption ==
  /\ IsFiniteSet(Callers)
  /\ QueueSize \in Nat \ {0}
  /\ BatchSizes \subseteq Nat \ {0}
  /\ \E m \in BatchSizes : \A n \in BatchSizes : n <= m
  /\ NoCaller \notin Callers

VARIABLES
  caller,          (* where each caller is                                 *)
  queue,           (* the records in s.queue                               *)
  waiters,         (* queueWaiters                                         *)
  tokens,          (* messages buffered in queueSpace                      *)
  stopped,         (* s.stopped, and s.stop closed                         *)
  writer,          (* where run is                                         *)
  taken,           (* the record received and not yet appended             *)
  batch,           (* requests                                             *)
  draining,        (* run is in the loop of its stop branch                *)
  batchSize,       (* s.batchSize                                          *)
  configChanged    (* a message is in configChanged                        *)

callerVars == <<caller, waiters>>
writerVars == <<writer, taken, batch, draining>>
configVars == <<batchSize, configChanged>>
vars == <<caller, queue, waiters, tokens, stopped, writer, taken, batch,
          draining, batchSize, configChanged>>

CallerStates == {"start", "announce", "recheck", "asleep", "woken", "queued",
                 "acked", "timedout", "dropped", "refused"}

WriterStates == {"select", "notify", "post", "append", "persist", "done"}

Goto(c, label) == caller' = [caller EXCEPT ![c] = label]

HasRoom == Cardinality(queue) < QueueSize

-----------------------------------------------------------------------------
(* enqueueAcknowledged and the wait of createAcknowledged.                 *)

(* The record goes in.  A caller that had announced itself still has to    *)
(* withdraw when enqueueAcknowledged returns.                              *)
TryEnqueue(c) ==
  /\ caller[c] \in {"start", "recheck", "woken"}
  /\ ~stopped
  /\ HasRoom
  /\ queue' = queue \cup {c}
  /\ Goto(c, "queued")
  /\ waiters' = IF caller[c] = "start" THEN waiters ELSE waiters - 1
  /\ UNCHANGED <<tokens, stopped, writerVars, configVars>>

QueueFull(c) ==
  /\ caller[c] \in {"start", "recheck", "woken"}
  /\ ~stopped
  /\ ~HasRoom
  /\ Goto(c, IF caller[c] = "start" THEN "announce" ELSE "asleep")
  /\ UNCHANGED <<queue, waiters, tokens, stopped, writerVars, configVars>>

Refused(c) ==
  /\ caller[c] \in {"start", "recheck", "woken"}
  /\ stopped
  /\ Goto(c, "refused")
  /\ waiters' = IF caller[c] = "start" THEN waiters ELSE waiters - 1
  /\ UNCHANGED <<queue, tokens, stopped, writerVars, configVars>>

(* Slip: no second try after the announcement.                             *)
AnnounceAndSleep(c) ==
  /\ caller[c] = "announce"
  /\ waiters' = waiters + 1
  /\ Goto(c, "asleep")
  /\ UNCHANGED <<queue, tokens, stopped, writerVars, configVars>>

Announce(c) ==
  /\ caller[c] = "announce"
  /\ waiters' = waiters + 1
  /\ Goto(c, "recheck")
  /\ UNCHANGED <<queue, tokens, stopped, writerVars, configVars>>

(* The select: a token ...                                                 *)
Wake(c) ==
  /\ caller[c] = "asleep"
  /\ tokens > 0
  /\ tokens' = tokens - 1
  /\ Goto(c, "woken")
  /\ UNCHANGED <<queue, waiters, stopped, writerVars, configVars>>

(* ... the stop channel ...                                                *)
SeeStop(c) ==
  /\ caller[c] = "asleep"
  /\ stopped
  /\ waiters' = waiters - 1
  /\ Goto(c, "dropped")
  /\ UNCHANGED <<queue, tokens, stopped, writerVars, configVars>>

(* Slip: the waiter is not taken back.                                     *)
GiveUpUncounted(c) ==
  /\ caller[c] = "asleep"
  /\ Goto(c, "dropped")
  /\ UNCHANGED <<queue, waiters, tokens, stopped, writerVars, configVars>>

(* ... or the end of the context.                                          *)
GiveUp(c) ==
  /\ caller[c] = "asleep"
  /\ waiters' = waiters - 1
  /\ Goto(c, "dropped")
  /\ UNCHANGED <<queue, tokens, stopped, writerVars, configVars>>

AckTimeout(c) ==
  /\ caller[c] = "queued"
  /\ Goto(c, "timedout")
  /\ UNCHANGED <<queue, waiters, tokens, stopped, writerVars, configVars>>

-----------------------------------------------------------------------------
(* run: its select, the stop branch once it is chosen, and notifyQueueSpace *)

Receive ==
  /\ writer = "select"
  /\ \E c \in queue :
       /\ queue' = queue \ {c}
       /\ taken' = c
  /\ writer' = "notify"
  /\ UNCHANGED <<callerVars, tokens, stopped, batch, draining, configVars>>

(* Slip: a single waiter does not count.                                   *)
LoadWaitersOffByOne ==
  /\ writer = "notify"
  /\ writer' = IF waiters > 1 THEN "post" ELSE "append"
  /\ UNCHANGED <<callerVars, queue, tokens, stopped, taken, batch, draining, configVars>>

(* notifyQueueSpace loads queueWaiters ...                                 *)
LoadWaiters ==
  /\ writer = "notify"
  /\ writer' = IF waiters > 0 THEN "post" ELSE "append"
  /\ UNCHANGED <<callerVars, queue, tokens, stopped, taken, batch, draining, configVars>>

(* ... and posts a token unless the buffer is full.                        *)
PostToken ==
  /\ writer = "post"
  /\ tokens' = IF tokens < QueueSize THEN tokens + 1 ELSE tokens
  /\ writer' = "append"
  /\ UNCHANGED <<callerVars, queue, stopped, taken, batch, draining, configVars>>

(* Slip: a full batch takes one record more before it is flushed.          *)
AppendBeyondFull ==
  /\ writer = "append"
  /\ batch' = batch \cup {taken}
  /\ taken' = NoCaller
  /\ writer' = IF Cardinality(batch') > batchSize THEN "persist" ELSE "select"
  /\ UNCHANGED <<callerVars, queue, tokens, stopped, draining, configVars>>

Append ==
  /\ writer = "append"
  /\ batch' = batch \cup {taken}
  /\ taken' = NoCaller
  /\ writer' = IF Cardinality(batch') >= batchSize THEN "persist" ELSE "select"
  /\ UNCHANGED <<callerVars, queue, tokens, stopped, draining, configVars>>

(* The commit or flush timer, which runs whenever a batch is begun.        *)
TimerFires ==
  /\ writer = "select" /\ ~draining
  /\ batch # {}
  /\ writer' = "persist"
  /\ UNCHANGED <<callerVars, queue, tokens, stopped, taken, batch, draining, configVars>>

SeeConfig ==
  /\ writer = "select" /\ ~draining
  /\ configChanged
  /\ configChanged' = FALSE
  /\ writer' = IF Cardinality(batch) >= batchSize THEN "persist" ELSE "select"
  /\ UNCHANGED <<callerVars, queue, tokens, stopped, taken, batch, draining, batchSize>>

ChooseStop ==
  /\ writer = "select" /\ ~draining
  /\ stopped
  /\ draining' = TRUE
  /\ UNCHANGED <<callerVars, queue, tokens, stopped, writer, taken, batch, configVars>>

(* Slip: the drain returns without the last flush.                         *)
DrainEndsUnflushed ==
  /\ writer = "select" /\ draining
  /\ queue = {}
  /\ writer' = "done"
  /\ UNCHANGED <<callerVars, queue, tokens, stopped, taken, batch, draining, configVars>>

(* Slip: the drain leaves the last flush to the timer it no longer selects. *)
DrainWaitsForTimer ==
  /\ writer = "select" /\ draining
  /\ queue = {} /\ batch = {}
  /\ writer' = "done"
  /\ UNCHANGED <<callerVars, queue, tokens, stopped, taken, batch, draining, configVars>>

(* The default case of the drain: the last flush, then return.             *)
DrainEnds ==
  /\ writer = "select" /\ draining
  /\ queue = {}
  /\ writer' = IF batch = {} THEN "done" ELSE "persist"
  /\ UNCHANGED <<callerVars, queue, tokens, stopped, taken, batch, draining, configVars>>

(* persistBatch returns: every record of the batch is settled and its      *)
(* caller answered, if it still listens.                                   *)
Persist ==
  /\ writer = "persist"
  /\ caller' = [c \in Callers |->
                  IF c \in batch /\ caller[c] = "queued" THEN "acked" ELSE caller[c]]
  /\ batch' = {}
  /\ writer' = IF draining /\ queue = {} THEN "done" ELSE "select"
  /\ UNCHANGED <<queue, waiters, tokens, stopped, taken, draining, configVars>>

-----------------------------------------------------------------------------
Close ==
  /\ ~stopped
  /\ stopped' = TRUE
  /\ UNCHANGED <<callerVars, queue, tokens, writerVars, configVars>>

UpdateWriterConfig ==
  /\ batchSize' \in BatchSizes
  /\ configChanged' = TRUE
  /\ UNCHANGED <<callerVars, queue, tokens, stopped, writerVars>>

Init ==
  /\ caller = [c \in Callers |-> "start"]
  /\ queue = {}
  /\ waiters = 0
  /\ tokens = 0
  /\ stopped = FALSE
  /\ writer = "select"
  /\ taken = NoCaller
  /\ batch = {}
  /\ draining = FALSE
  /\ batchSize \in BatchSizes
  /\ configChanged = FALSE

Call(c) ==
  \/ TryEnqueue(c) \/ QueueFull(c) \/ Refused(c) \/ Announce(c)
  \/ Wake(c) \/ SeeStop(c) \/ GiveUp(c) \/ AckTimeout(c)

Run ==
  \/ Receive \/ LoadWaiters \/ PostToken \/ Append
  \/ TimerFires \/ SeeConfig \/ ChooseStop \/ DrainEnds \/ Persist

Next ==
  \/ \E c \in Callers : Call(c)
  \/ Run \/ Close \/ UpdateWriterConfig

Spec == Init /\ [][Next]_vars

(* Goroutines run and a ready select proceeds.  A context need not ever     *)
(* end, and Close may never be called.                                     *)
Fairness ==
  /\ \A c \in Callers :
       /\ WF_vars(TryEnqueue(c) \/ QueueFull(c) \/ Refused(c) \/ Announce(c))
       /\ WF_vars(SeeStop(c))
       /\ WF_vars(Wake(c))
  /\ WF_vars(Receive \/ LoadWaiters \/ PostToken \/ Append \/ DrainEnds \/ Persist)
  /\ WF_vars(TimerFires)
  /\ WF_vars(ChooseStop)

FairSpec == Spec /\ Fairness

-----------------------------------------------------------------------------
InCaller(label) == {c \in Callers : caller[c] = label}

(* Types, the bounds of both channels, and queueWaiters as the number of   *)
(* callers between Announce and the return of enqueueAcknowledged.         *)
TypeOK ==
  /\ caller \in [Callers -> CallerStates]
  /\ queue \subseteq Callers /\ Cardinality(queue) <= QueueSize
  /\ tokens \in 0..QueueSize
  /\ waiters = Cardinality(InCaller("recheck") \cup InCaller("asleep") \cup InCaller("woken"))
  /\ stopped \in BOOLEAN
  /\ writer \in WriterStates
  /\ taken \in Callers \cup {NoCaller}
  /\ batch \subseteq Callers
  /\ draining \in BOOLEAN
  /\ batchSize \in BatchSizes
  /\ configChanged \in BOOLEAN

(* While a caller sleeps, every free slot of the queue is matched by a     *)
(* token, by a woken caller that is about to try, or by the token the      *)
(* writer is about to post: nobody sleeps beside a free slot for ever.     *)
NoLostWakeup ==
  InCaller("asleep") # {} /\ ~stopped =>
    tokens + Cardinality(InCaller("woken")) + (IF writer \in {"notify", "post"} THEN 1 ELSE 0)
      >= QueueSize - Cardinality(queue)

-----------------------------------------------------------------------------
(* The queue as WriterPromise sees it: a record is with the caller that    *)
(* tries to hand it over, in the channel, with the writer, or decided.     *)

Trying == {"start", "announce", "recheck", "asleep", "woken"}

(* The records the writer has received and not yet decided.                *)
Handling == batch \cup ({taken} \ {NoCaller})

MaxBatch == CHOOSE m \in BatchSizes : \A n \in BatchSizes : n <= m

PromisedPlace ==
  [c \in Callers |->
     IF c \in queue THEN "queued"
     ELSE IF c \in Handling THEN "taken"
     ELSE IF caller[c] \in Trying THEN "outside"
     ELSE IF caller[c] \in {"dropped", "refused"} THEN "away"
     ELSE IF caller[c] \in {"acked", "timedout"} THEN "decided"
     ELSE "dead"]

Promise == INSTANCE WriterPromise
  WITH Records <- Callers, Capacity <- QueueSize,
       place <- PromisedPlace, listening <- InCaller("queued"), done <- (writer = "done")

(* The channel, the announcements, the tokens and the select of run, with  *)
(* its timers, its changes of configuration and its drain, keep the        *)
(* promise of a writer whose process does not end: no record is lost or    *)
(* taken twice, none enters a stopped queue, and the writer returns only   *)
(* when it holds nothing.                                                  *)
KeepsWriterPromise == Promise!LiveSpec

(* A sleeping caller gets out even if its context never ends.              *)
SleepersLeave == \A c \in Callers : caller[c] = "asleep" ~> caller[c] \notin {"asleep", "woken"}

(* Every accepted record is answered unless its caller left first.         *)
AcceptedIsAnswered == \A c \in Callers : caller[c] = "queued" ~> caller[c] # "queued"

(* Close returns: the drain ends even while callers keep arriving.         *)
CloseReturns == stopped ~> writer = "done"
=============================================================================
