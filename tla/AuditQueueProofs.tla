-------------------------- MODULE AuditQueueProofs --------------------------
(***************************************************************************)
(* Proofs about AuditQueue for every set of callers, every queue size and  *)
(* every batch size: the counts of TypeOK, and that no wake-up is lost.    *)
(***************************************************************************)
EXTENDS AuditQueue, FiniteSetTheorems, TLAPS

Announced == InCaller("recheck") \cup InCaller("asleep") \cup InCaller("woken")

(* A caller whose record is in the queue has stopped trying.               *)
QueuedOnce ==
  \A c \in queue : caller[c] \notin {"start", "announce", "recheck", "asleep", "woken"}

(* Between the receive and the append the writer holds a record.           *)
TakenWhileHandled == writer \in {"notify", "post", "append"} => taken \in Callers

QueueInv == TypeOK /\ NoLostWakeup /\ QueuedOnce /\ TakenWhileHandled

-----------------------------------------------------------------------------
(* Counting callers.                                                       *)

(* A set of callers is finite, and its size is a natural number.           *)
LEMMA CallersCount ==
  ASSUME NEW S \in SUBSET Callers
  PROVE  IsFiniteSet(S) /\ Cardinality(S) \in Nat
  BY QueueAssumption, FS_Subset, FS_CardinalityType

(* One caller more, one caller less.                                       *)
LEMMA CountChanges ==
  ASSUME NEW S \in SUBSET Callers, NEW c \in Callers
  PROVE  /\ Cardinality(S) \in Nat
         /\ c \notin S => Cardinality(S \cup {c}) = Cardinality(S) + 1
         /\ c \in S => Cardinality(S \ {c}) = Cardinality(S) - 1
  BY CallersCount, FS_AddElement, FS_RemoveElement

(* Every set the module counts is one of callers.                          *)
LEMMA CountedSets ==
  /\ Announced \in SUBSET Callers
  /\ \A label : InCaller(label) \in SUBSET Callers
  BY DEF Announced, InCaller

(* A caller that moves leaves one set and enters another.                  *)
LEMMA Moves ==
  ASSUME TypeOK, NEW c \in Callers, NEW label, Goto(c, label), NEW l
  PROVE  InCaller(l)' = IF l = label THEN InCaller(l) \cup {c} ELSE InCaller(l) \ {c}
  BY DEF TypeOK, InCaller, Goto

(* The types, with the name for the announced callers.                     *)
LEMMA TypeIs ==
  TypeOK <=>
    /\ caller \in [Callers -> CallerStates]
    /\ queue \in SUBSET Callers /\ Cardinality(queue) <= QueueSize
    /\ tokens \in 0..QueueSize
    /\ waiters = Cardinality(Announced)
    /\ stopped \in BOOLEAN
    /\ writer \in WriterStates
    /\ taken \in Callers \cup {NoCaller}
    /\ batch \in SUBSET Callers
    /\ draining \in BOOLEAN
    /\ batchSize \in BatchSizes
    /\ configChanged \in BOOLEAN
  BY DEF TypeOK, Announced

-----------------------------------------------------------------------------
(* The steps of a caller.                                                  *)

(* A step of a caller keeps the types and the counts.                      *)
LEMMA CallTypes ==
  ASSUME QueueInv, NEW c \in Callers, Call(c)
  PROVE  TypeOK' /\ QueuedOnce' /\ TakenWhileHandled'
<1> USE DEF QueueInv
<1>0. /\ caller \in [Callers -> CallerStates]
      /\ queue \in SUBSET Callers /\ Cardinality(queue) <= QueueSize
      /\ tokens \in 0..QueueSize /\ QueueSize \in Nat
      /\ waiters = Cardinality(Announced)
      /\ Announced \in SUBSET Callers
  BY TypeIs, CountedSets, QueueAssumption
<1>a. /\ Cardinality(queue) \in Nat
      /\ c \notin queue => Cardinality(queue \cup {c}) = Cardinality(queue) + 1
  BY <1>0, CountChanges
<1>b. /\ Cardinality(Announced) \in Nat
      /\ c \notin Announced => Cardinality(Announced \cup {c}) = Cardinality(Announced) + 1
      /\ c \in Announced => Cardinality(Announced \ {c}) = Cardinality(Announced) - 1
  BY <1>0, CountChanges
<1>c. c \in Announced <=> caller[c] \in {"recheck", "asleep", "woken"}
  BY DEF Announced, InCaller
<1>d. ASSUME NEW label \in CallerStates, Goto(c, label), UNCHANGED writerVars, UNCHANGED configVars,
             stopped' \in BOOLEAN, tokens' \in 0..QueueSize,
             \/ queue' = queue /\ (c \in queue => label \in {"queued", "timedout", "acked"})
             \/ queue' = queue \cup {c} /\ c \notin queue /\ HasRoom /\ label = "queued",
             \/ /\ waiters' = waiters
                /\ c \in Announced <=> label \in {"recheck", "asleep", "woken"}
             \/ /\ waiters' = waiters - 1 /\ c \in Announced
                /\ label \notin {"recheck", "asleep", "woken"}
             \/ /\ waiters' = waiters + 1 /\ c \notin Announced
                /\ label \in {"recheck", "asleep", "woken"}
      PROVE  TypeOK' /\ QueuedOnce' /\ TakenWhileHandled'
  <2>1. caller' \in [Callers -> CallerStates]
    BY <1>0, <1>d DEF Goto
  <2>2. queue' \in SUBSET Callers /\ Cardinality(queue') <= QueueSize
    <3>1. CASE queue' = queue
      BY <1>0, <3>1
    <3>2. CASE queue' = queue \cup {c} /\ c \notin queue /\ HasRoom
      <4>1. Cardinality(queue') = Cardinality(queue) + 1 /\ Cardinality(queue) < QueueSize
        BY <1>a, <3>2 DEF HasRoom
      <4> QED BY <1>0, <1>a, <3>2, <4>1
    <3> QED BY <1>d, <3>1, <3>2
  <2>3. Announced' = IF label \in {"recheck", "asleep", "woken"}
                       THEN Announced \cup {c} ELSE Announced \ {c}
    BY <1>0, <1>d DEF Announced, InCaller, Goto
  <2>4. waiters' = Cardinality(Announced)'
    <3>1. CASE /\ waiters' = waiters
               /\ c \in Announced <=> label \in {"recheck", "asleep", "woken"}
      <4>1. Announced' = Announced
        BY <2>3, <3>1
      <4> QED BY <1>0, <3>1, <4>1
    <3>2. CASE /\ waiters' = waiters - 1 /\ c \in Announced
               /\ label \notin {"recheck", "asleep", "woken"}
      BY <1>0, <1>b, <2>3, <3>2
    <3>3. CASE /\ waiters' = waiters + 1 /\ c \notin Announced
               /\ label \in {"recheck", "asleep", "woken"}
      BY <1>0, <1>b, <2>3, <3>3
    <3> QED BY <1>d, <3>1, <3>2, <3>3
  <2>5. TypeOK'
    BY <1>d, <2>1, <2>2, <2>4, TypeIs DEF writerVars, configVars, TypeOK, Announced
  <2>6. QueuedOnce'
    BY <1>0, <1>d DEF QueuedOnce, Goto
  <2>7. TakenWhileHandled'
    BY <1>d DEF TakenWhileHandled, writerVars
  <2> QED BY <2>5, <2>6, <2>7
<1>e. /\ stopped \in BOOLEAN
      /\ c \in queue => caller[c] \notin {"start", "announce", "recheck", "asleep", "woken"}
  BY DEF TypeOK, QueuedOnce
<1>1. CASE TryEnqueue(c)
  <2>1. "queued" \in CallerStates
    BY DEF CallerStates
  <2> QED BY <1>0, <1>1, <1>c, <1>d, <1>e, <2>1 DEF TryEnqueue
<1>2. CASE QueueFull(c)
  <2>1. /\ "announce" \in CallerStates /\ "asleep" \in CallerStates
        /\ UNCHANGED <<queue, waiters, tokens, stopped, writerVars, configVars>>
    BY <1>2 DEF CallerStates, QueueFull
  <2>2. CASE caller[c] = "start"
    <3>1. Goto(c, "announce")
      BY <1>2, <2>2 DEF QueueFull
    <3> QED BY <1>0, <1>c, <1>d, <1>e, <2>1, <2>2, <3>1
  <2>3. CASE caller[c] # "start"
    <3>1. Goto(c, "asleep") /\ caller[c] \in {"recheck", "woken"}
      BY <1>2, <2>3 DEF QueueFull
    <3> QED BY <1>0, <1>c, <1>d, <1>e, <2>1, <3>1
  <2> QED BY <2>2, <2>3
<1>3. CASE Refused(c)
  <2>1. "refused" \in CallerStates
    BY DEF CallerStates
  <2> QED BY <1>0, <1>3, <1>c, <1>d, <1>e, <2>1 DEF Refused
<1>4. CASE Announce(c)
  <2>1. "recheck" \in CallerStates
    BY DEF CallerStates
  <2> QED BY <1>0, <1>4, <1>c, <1>d, <1>e, <2>1 DEF Announce
<1>5. CASE Wake(c)
  <2>1. "woken" \in CallerStates /\ tokens' \in 0..QueueSize
    BY <1>0, <1>5 DEF CallerStates, Wake
  <2> QED BY <1>0, <1>5, <1>c, <1>d, <1>e, <2>1 DEF Wake
<1>6. CASE SeeStop(c) \/ GiveUp(c)
  <2>1. "dropped" \in CallerStates
    BY DEF CallerStates
  <2> QED BY <1>0, <1>6, <1>c, <1>d, <1>e, <2>1 DEF SeeStop, GiveUp
<1>7. CASE AckTimeout(c)
  <2>1. "timedout" \in CallerStates
    BY DEF CallerStates
  <2> QED BY <1>0, <1>7, <1>c, <1>d, <1>e, <2>1 DEF AckTimeout
<1> QED BY <1>1, <1>2, <1>3, <1>4, <1>5, <1>6, <1>7 DEF Call

(* What wakes the sleepers: tokens, callers that are awake, and a token    *)
(* about to be posted.                                                     *)
Wakeups == tokens + Cardinality(InCaller("woken")) + (IF writer \in {"notify", "post"} THEN 1 ELSE 0)

Free == QueueSize - Cardinality(queue)

(* No free slot is forgotten, with names for both sides.                   *)
LEMMA WakeupIs ==
  NoLostWakeup <=> (InCaller("asleep") # {} /\ ~stopped => Wakeups >= Free)
  BY DEF NoLostWakeup, Wakeups, Free

(* A step of a caller loses no wake-up.                                    *)
LEMMA CallWakes ==
  ASSUME QueueInv, NEW c \in Callers, Call(c)
  PROVE  NoLostWakeup'
<1> DEFINE w == Cardinality(InCaller("woken"))
           p == IF writer \in {"notify", "post"} THEN 1 ELSE 0
           q == Cardinality(queue)
<1> SUFFICES ASSUME InCaller("asleep")' # {}, ~stopped'
             PROVE  Wakeups' >= Free'
  BY DEF NoLostWakeup, Wakeups, Free
<1>0. TypeOK /\ queue \in SUBSET Callers /\ tokens \in Nat /\ QueueSize \in Nat /\ q <= QueueSize
  BY QueueAssumption DEF QueueInv, TypeOK
<1>1. /\ w \in Nat
      /\ c \notin InCaller("woken") => Cardinality(InCaller("woken") \cup {c}) = w + 1
      /\ c \in InCaller("woken") => Cardinality(InCaller("woken") \ {c}) = w - 1
  BY CountedSets, CountChanges
<1>2. /\ q \in Nat
      /\ c \notin queue => Cardinality(queue \cup {c}) = q + 1
  BY <1>0, CountChanges
<1>3. InCaller("asleep") # {} /\ ~stopped => tokens + w + p >= QueueSize - q
  BY DEF QueueInv, NoLostWakeup
<1>4. p \in {0, 1}
  OBVIOUS
<1>5. \A l : c \in InCaller(l) <=> caller[c] = l
  BY DEF InCaller
<1>6. UNCHANGED writerVars
  BY DEF Call, TryEnqueue, QueueFull, Refused, Announce, Wake, SeeStop, GiveUp, AckTimeout
<1>7. Wakeups' = tokens' + Cardinality(InCaller("woken"))' + p
  BY <1>6 DEF Wakeups, writerVars
<1>8. Free' = QueueSize - Cardinality(queue)'
  BY DEF Free
<1> HIDE DEF w, p, q
<1>11. CASE TryEnqueue(c)
  <2>1. Goto(c, "queued") /\ queue' = queue \cup {c} /\ tokens' = tokens /\ ~stopped
    BY <1>11 DEF TryEnqueue
  <2>2. c \notin queue
    BY <1>11 DEF TryEnqueue, QueueInv, QueuedOnce
  <2>3. /\ InCaller("woken")' = InCaller("woken") \ {c}
        /\ InCaller("asleep")' = InCaller("asleep") \ {c}
    BY <1>0, <2>1, Moves
  <2>4. Cardinality(InCaller("woken"))' \in Nat /\ Cardinality(InCaller("woken"))' >= w - 1
    <3>1. CASE c \in InCaller("woken")
      <4>1. InCaller("woken") \ {c} \in SUBSET Callers
        BY CountedSets
      <4>2. Cardinality(InCaller("woken") \ {c}) = w - 1
        BY <1>1, <3>1
      <4>3. Cardinality(InCaller("woken") \ {c}) \in Nat
        BY <4>1, CallersCount
      <4>4. Cardinality(InCaller("woken"))' = Cardinality(InCaller("woken") \ {c})
        BY <2>3
      <4>5. w - 1 \in Nat
        BY <4>2, <4>3
      <4> QED BY <4>2, <4>4, <4>5
    <3>2. CASE c \notin InCaller("woken")
      <4>1. InCaller("woken") \ {c} = InCaller("woken")
        BY <3>2
      <4> QED BY <1>1, <2>3, <4>1 DEF w
    <3> QED BY <3>1, <3>2
  <2>5. InCaller("asleep") # {}
    BY <2>3
  <2>6. Cardinality(queue)' = q + 1
    BY <1>2, <2>1, <2>2
  <2> QED BY <1>0, <1>1, <1>2, <1>3, <1>4, <1>7, <1>8, <2>1, <2>4, <2>5, <2>6
<1>12. CASE QueueFull(c)
  <2>1. q >= QueueSize /\ UNCHANGED <<queue, tokens>>
    BY <1>0, <1>2, <1>12 DEF QueueFull, HasRoom, q
  <2>2. InCaller("woken")' \in SUBSET Callers
    BY DEF InCaller
  <2>3. Cardinality(InCaller("woken"))' \in Nat
    BY <2>2, CallersCount
  <2>4. Free' <= 0
    BY <1>0, <1>2, <1>8, <2>1 DEF q
  <2>5. Wakeups' \in Nat
    BY <1>0, <1>4, <1>7, <2>1, <2>3
  <2>6. Free' \in Int
    BY <1>0, <1>2, <1>8, <2>1 DEF q
  <2> QED BY <2>4, <2>5, <2>6
<1>13. CASE Refused(c) \/ SeeStop(c)
  BY <1>13 DEF Refused, SeeStop
<1>14. CASE Wake(c)
  <2>1. Goto(c, "woken") /\ tokens' = tokens - 1 /\ UNCHANGED <<queue, stopped>> /\ caller[c] = "asleep"
    BY <1>14 DEF Wake
  <2>2. InCaller("woken")' = InCaller("woken") \cup {c}
    BY <1>0, <2>1, Moves
  <2>3. c \notin InCaller("woken") /\ InCaller("asleep") # {}
    BY <1>5, <2>1
  <2>4. Cardinality(InCaller("woken"))' = w + 1
    BY <1>1, <2>2, <2>3
  <2> QED BY <1>0, <1>1, <1>2, <1>3, <1>4, <1>7, <1>8, <2>1, <2>3, <2>4 DEF q
<1>15. CASE Announce(c) \/ GiveUp(c) \/ AckTimeout(c)
  <2>1. PICK label \in {"recheck", "dropped", "timedout"} :
          /\ Goto(c, label)
          /\ UNCHANGED <<queue, tokens, stopped>>
          /\ caller[c] \notin {"woken"}
    BY <1>15 DEF Announce, GiveUp, AckTimeout
  <2>2. /\ InCaller("woken")' = InCaller("woken") \ {c}
        /\ InCaller("asleep")' = InCaller("asleep") \ {c}
    BY <1>0, <2>1, Moves
  <2>3. InCaller("woken")' = InCaller("woken") /\ InCaller("asleep") # {}
    BY <1>5, <2>1, <2>2
  <2> QED BY <1>3, <1>7, <1>8, <2>1, <2>3 DEF w, q
<1> QED BY <1>11, <1>12, <1>13, <1>14, <1>15 DEF Call

-----------------------------------------------------------------------------
(* The steps of the writer, and the others.                                *)

(* A step of the writer keeps the types and the counts.                    *)
LEMMA RunTypes ==
  ASSUME QueueInv, Run
  PROVE  TypeOK' /\ QueuedOnce' /\ TakenWhileHandled'
<1>0. /\ TypeOK /\ QueuedOnce /\ TakenWhileHandled
      /\ queue \in SUBSET Callers /\ Cardinality(queue) <= QueueSize /\ Cardinality(queue) \in Nat
      /\ tokens \in 0..QueueSize /\ QueueSize \in Nat
  BY CallersCount, QueueAssumption DEF QueueInv, TypeOK
<1> USE DEF WriterStates
<1>1. CASE Receive
  <2>1. PICK c \in queue : queue' = queue \ {c} /\ taken' = c /\ writer' = "notify"
    BY <1>1 DEF Receive
  <2>2. Cardinality(queue') <= QueueSize
    <3>1. Cardinality(queue \ {c}) = Cardinality(queue) - 1
      BY <1>0, <2>1, CountChanges
    <3> QED BY <1>0, <2>1, <3>1
  <2>3. UNCHANGED <<callerVars, tokens, stopped, batch, draining, configVars>>
    BY <1>1 DEF Receive
  <2> QED BY <1>0, <2>1, <2>2, <2>3
       DEF TypeOK, QueuedOnce, TakenWhileHandled, InCaller, callerVars, configVars
<1>2. CASE LoadWaiters
  BY <1>0, <1>2 DEF LoadWaiters, TypeOK, QueuedOnce, TakenWhileHandled, InCaller, callerVars, configVars
<1>3. CASE PostToken
  <2>1. tokens' \in 0..QueueSize
    BY <1>0, <1>3 DEF PostToken
  <2> QED BY <1>0, <1>3, <2>1
       DEF PostToken, TypeOK, QueuedOnce, TakenWhileHandled, InCaller, callerVars, configVars
<1>4. CASE Append
  BY <1>0, <1>4 DEF Append, TypeOK, QueuedOnce, TakenWhileHandled, InCaller, callerVars, configVars
<1>5. CASE TimerFires
  BY <1>0, <1>5 DEF TimerFires, TypeOK, QueuedOnce, TakenWhileHandled, InCaller, callerVars, configVars
<1>6. CASE SeeConfig
  BY <1>0, <1>6 DEF SeeConfig, TypeOK, QueuedOnce, TakenWhileHandled, InCaller, callerVars, configVars
<1>7. CASE ChooseStop
  BY <1>0, <1>7 DEF ChooseStop, TypeOK, QueuedOnce, TakenWhileHandled, InCaller, callerVars, configVars
<1>8. CASE DrainEnds
  BY <1>0, <1>8 DEF DrainEnds, TypeOK, QueuedOnce, TakenWhileHandled, InCaller, callerVars, configVars
<1>9. CASE Persist
  <2>1. /\ caller' \in [Callers -> CallerStates]
        /\ \A c \in Callers : \/ caller'[c] = caller[c]
                              \/ caller[c] = "queued" /\ caller'[c] = "acked"
    BY <1>0, <1>9 DEF Persist, TypeOK, CallerStates
  <2>2. Announced' = Announced
    BY <2>1 DEF Announced, InCaller
  <2>3. waiters' = waiters /\ waiters = Cardinality(Announced)
    BY <1>0, <1>9, TypeIs DEF Persist
  <2>4. TypeOK'
    BY <1>0, <1>9, <2>1, <2>2, <2>3 DEF Persist, TypeOK, Announced, configVars
  <2> QED BY <1>0, <1>9, <2>1, <2>4 DEF Persist, QueuedOnce, TakenWhileHandled
<1> QED BY <1>1, <1>2, <1>3, <1>4, <1>5, <1>6, <1>7, <1>8, <1>9 DEF Run

(* A step of the writer loses no wake-up.                                  *)
LEMMA RunWakes ==
  ASSUME QueueInv, Run
  PROVE  NoLostWakeup'
<1> DEFINE w == Cardinality(InCaller("woken"))
           q == Cardinality(queue)
<1> SUFFICES ASSUME InCaller("asleep")' # {}, ~stopped'
             PROVE  Wakeups' >= Free'
  BY DEF NoLostWakeup, Wakeups, Free
<1>0. /\ TypeOK /\ queue \in SUBSET Callers /\ tokens \in Nat /\ tokens <= QueueSize
      /\ QueueSize \in Nat /\ q <= QueueSize /\ q \in Nat /\ w \in Nat
  <2>1. InCaller("woken") \in SUBSET Callers /\ queue \in SUBSET Callers
    BY CountedSets DEF QueueInv, TypeOK
  <2> QED BY <2>1, CallersCount, QueueAssumption DEF QueueInv, TypeOK
<1>1. /\ InCaller("woken")' = InCaller("woken")
      /\ InCaller("asleep")' = InCaller("asleep")
      /\ stopped' = stopped
  <2>1. CASE Persist
    <3>1. \A c \in Callers : \/ caller'[c] = caller[c]
                             \/ caller[c] = "queued" /\ caller'[c] = "acked"
      BY <2>1 DEF Persist
    <3> QED BY <2>1, <3>1 DEF Persist, InCaller
  <2>2. CASE ~ Persist
    <3>1. caller' = caller /\ stopped' = stopped
      BY <2>2 DEF Run, Receive, LoadWaiters, PostToken, Append, TimerFires, SeeConfig, ChooseStop,
           DrainEnds, callerVars
    <3> QED BY <3>1 DEF InCaller
  <2> QED BY <2>1, <2>2
<1>2. tokens + w + (IF writer \in {"notify", "post"} THEN 1 ELSE 0) >= QueueSize - q
  BY <1>1 DEF QueueInv, NoLostWakeup
<1>3. /\ Wakeups' = tokens' + w + (IF writer' \in {"notify", "post"} THEN 1 ELSE 0)
      /\ Free' = QueueSize - Cardinality(queue)'
  BY <1>1 DEF Wakeups, Free
<1> HIDE DEF w, q
<1>4. CASE Receive
  <2>1. PICK c \in queue : queue' = queue \ {c} /\ writer' = "notify" /\ writer = "select" /\ tokens' = tokens
    BY <1>4 DEF Receive
  <2>2. Cardinality(queue)' = q - 1
    BY <1>0, <2>1, CountChanges DEF q
  <2> QED BY <1>0, <1>2, <1>3, <2>1, <2>2
<1>5. CASE LoadWaiters
  <2>1. waiters > 0
    <3>1. InCaller("asleep") # {} /\ waiters = Cardinality(Announced) /\ Announced \in SUBSET Callers
      BY <1>0, <1>1, TypeIs, CountedSets
    <3>2. Announced # {}
      BY <3>1 DEF Announced
    <3>3. Cardinality(Announced) # 0 /\ Cardinality(Announced) \in Nat
      BY <3>1, <3>2, CallersCount, FS_EmptySet
    <3> QED BY <3>1, <3>3
  <2>2. writer = "notify" /\ writer' = "post" /\ UNCHANGED <<queue, tokens>>
    BY <1>5, <2>1 DEF LoadWaiters
  <2> QED BY <1>0, <1>2, <1>3, <2>2 DEF q
<1>6. CASE PostToken
  <2>1. /\ tokens' = IF tokens < QueueSize THEN tokens + 1 ELSE tokens
        /\ writer = "post" /\ writer' = "append" /\ queue' = queue
    BY <1>6 DEF PostToken
  <2>2. Cardinality(queue)' = q
    BY <2>1 DEF q
  <2> QED BY <1>0, <1>2, <1>3, <2>1, <2>2
<1>7. CASE Append \/ TimerFires \/ SeeConfig \/ ChooseStop \/ DrainEnds \/ Persist
  <2>1. /\ writer \notin {"notify", "post"} /\ writer' \notin {"notify", "post"}
        /\ UNCHANGED <<queue, tokens>>
    BY <1>7 DEF Append, TimerFires, SeeConfig, ChooseStop, DrainEnds, Persist
  <2>2. Cardinality(queue)' = q
    BY <2>1 DEF q
  <2> QED BY <1>2, <1>3, <2>1, <2>2
<1> QED BY <1>4, <1>5, <1>6, <1>7 DEF Run

(* Close, a change of the configuration and a stuttering step.             *)
LEMMA OtherSteps ==
  ASSUME QueueInv, Close \/ UpdateWriterConfig \/ UNCHANGED vars
  PROVE  QueueInv'
<1>1. UNCHANGED <<callerVars, queue, tokens, writerVars>> /\ (stopped' = stopped \/ stopped')
  BY DEF Close, UpdateWriterConfig, vars, callerVars, writerVars
<1>2. stopped' \in BOOLEAN /\ batchSize' \in BatchSizes /\ configChanged' \in BOOLEAN
  BY DEF Close, UpdateWriterConfig, vars, configVars, QueueInv, TypeOK
<1>3. TypeOK'
  BY <1>1, <1>2 DEF QueueInv, TypeOK, InCaller, callerVars, writerVars
<1>4. NoLostWakeup'
  BY <1>1 DEF QueueInv, NoLostWakeup, InCaller, callerVars, writerVars
<1>5. QueuedOnce' /\ TakenWhileHandled'
  BY <1>1 DEF QueueInv, QueuedOnce, TakenWhileHandled, callerVars, writerVars
<1> QED BY <1>3, <1>4, <1>5 DEF QueueInv

(* The invariant of the queue.                                             *)
THEOREM QueueSafe == Spec => []QueueInv
<1>1. Init => QueueInv
  <2> SUFFICES ASSUME Init PROVE QueueInv
    OBVIOUS
  <2>1. Announced = {} /\ InCaller("asleep") = {}
    BY DEF Init, Announced, InCaller
  <2>2. waiters = Cardinality(Announced)
    BY <2>1, FS_EmptySet DEF Init
  <2>3. Cardinality(queue) <= QueueSize /\ tokens \in 0..QueueSize
    BY FS_EmptySet, QueueAssumption DEF Init
  <2>a. TypeOK
    BY <2>2, <2>3, TypeIs DEF Init, CallerStates, WriterStates
  <2>4. NoLostWakeup
    BY <2>1 DEF NoLostWakeup
  <2> QED BY <2>a, <2>4 DEF Init, QueueInv, QueuedOnce, TakenWhileHandled
<1>2. QueueInv /\ [Next]_vars => QueueInv'
  <2>1. ASSUME QueueInv, NEW c \in Callers, Call(c) PROVE QueueInv'
    BY <2>1, CallTypes, CallWakes DEF QueueInv
  <2>2. ASSUME QueueInv, Run PROVE QueueInv'
    BY <2>2, RunTypes, RunWakes DEF QueueInv
  <2> QED BY <2>1, <2>2, OtherSteps DEF Next
<1> QED BY <1>1, <1>2, PTL DEF Spec

(* The counts and bounds of the queue.                                     *)
THEOREM QueueTyped == Spec => []TypeOK
<1>1. QueueInv => TypeOK
  BY DEF QueueInv
<1> QED BY <1>1, QueueSafe, PTL

(* Nobody sleeps beside a free slot that no wake-up answers.               *)
THEOREM NoWakeupIsLost == Spec => []NoLostWakeup
<1>1. QueueInv => NoLostWakeup
  BY DEF QueueInv
<1> QED BY <1>1, QueueSafe, PTL

-----------------------------------------------------------------------------
(* The queue keeps the promise of WriterPromise.                           *)

(* The writer holds a record beside its batch only between the receive and *)
(* the append, and there is room in the batch for it.                      *)
BatchHasRoom ==
  /\ writer \notin {"notify", "post", "append"} => taken = NoCaller
  /\ writer # "persist" => Cardinality(batch) < MaxBatch

(* A record is in one place: queue, batch or the writer's hand.            *)
OnePlace ==
  /\ queue \cap batch = {}
  /\ taken \notin queue /\ taken \notin batch

(* A record the writer or the queue has is of a caller that handed it over,*)
(* and a caller that waits for the answer has its record there.            *)
HandedOver ==
  /\ \A c \in queue \cup Handling : caller[c] \in {"queued", "acked", "timedout"}
  /\ \A c \in Callers : caller[c] = "queued" => c \in queue \cup Handling

(* The writer drains only after Close and returns only with empty hands.   *)
DoneIsEmpty ==
  /\ draining => stopped
  /\ writer = "done" => stopped /\ queue = {} /\ batch = {}

HeldInv == BatchHasRoom /\ OnePlace /\ HandedOver /\ DoneIsEmpty

(* The largest batch size is one of them.                                  *)
LEMMA MaxBatchIs ==
  /\ MaxBatch \in Nat \ {0}
  /\ \A n \in BatchSizes : n \in Nat /\ n <= MaxBatch
  BY QueueAssumption DEF MaxBatch

(* What the writer handles, seen by who took it.                           *)
LEMMA HandlingIs ==
  ASSUME TypeOK
  PROVE  /\ Handling \in SUBSET Callers
         /\ \A c \in Callers : c \in Handling <=> c \in batch \/ c = taken
         /\ taken = NoCaller => Handling = batch
         /\ taken # NoCaller => Handling = batch \cup {taken}
  BY QueueAssumption DEF TypeOK, Handling

(* A step of a caller keeps the records in one place.                      *)
LEMMA CallHeld ==
  ASSUME QueueInv, HeldInv, NEW c \in Callers, Call(c)
  PROVE  HeldInv'
<1>0. /\ TypeOK /\ caller \in [Callers -> CallerStates] /\ queue \in SUBSET Callers
      /\ BatchHasRoom /\ OnePlace /\ HandedOver /\ DoneIsEmpty
  BY DEF QueueInv, TypeOK, HeldInv
<1>1. UNCHANGED <<writer, taken, batch, draining>> /\ stopped' = stopped
  BY DEF Call, TryEnqueue, QueueFull, Refused, Announce, Wake, SeeStop, GiveUp, AckTimeout, writerVars
<1>2. Handling' = Handling /\ BatchHasRoom'
  BY <1>0, <1>1 DEF Handling, BatchHasRoom
<1>3. CASE TryEnqueue(c)
  <2>1. /\ caller' = [caller EXCEPT ![c] = "queued"] /\ queue' = queue \cup {c} /\ ~stopped
        /\ caller[c] \in {"start", "recheck", "woken"}
    BY <1>3 DEF TryEnqueue, Goto
  <2>2. c \notin queue /\ c \notin Handling
    BY <1>0, <2>1 DEF HandedOver
  <2>3. OnePlace'
    BY <1>0, <1>1, <2>1, <2>2, HandlingIs DEF OnePlace
  <2>4. HandedOver'
    BY <1>0, <1>2, <2>1, <2>2, HandlingIs DEF HandedOver
  <2>5. DoneIsEmpty'
    BY <1>0, <1>1, <2>1 DEF DoneIsEmpty
  <2> QED BY <1>2, <2>3, <2>4, <2>5 DEF HeldInv
<1>4. CASE ~TryEnqueue(c)
  <2>1. PICK label :
          /\ caller' = [caller EXCEPT ![c] = label] /\ queue' = queue
          /\ \/ caller[c] \in Trying /\ label # "queued"
             \/ caller[c] = "queued" /\ label = "timedout"
    BY <1>4 DEF Call, QueueFull, Refused, Announce, Wake, SeeStop, GiveUp, AckTimeout, Goto, Trying
  <2>2. OnePlace' /\ DoneIsEmpty'
    BY <1>0, <1>1, <2>1 DEF OnePlace, DoneIsEmpty
  <2>3. HandedOver'
    BY <1>0, <1>2, <2>1, HandlingIs DEF HandedOver, Trying
  <2> QED BY <1>2, <2>2, <2>3 DEF HeldInv
<1> QED BY <1>3, <1>4

(* A step of the writer keeps the records in one place.                    *)
LEMMA RunHeld ==
  ASSUME QueueInv, HeldInv, Run
  PROVE  HeldInv'
<1>0. /\ TypeOK /\ TakenWhileHandled /\ caller \in [Callers -> CallerStates]
      /\ queue \in SUBSET Callers /\ batch \in SUBSET Callers /\ stopped \in BOOLEAN
      /\ BatchHasRoom /\ OnePlace /\ HandedOver /\ DoneIsEmpty
      /\ taken \in Callers \cup {NoCaller} /\ NoCaller \notin Callers
      /\ batchSize \in BatchSizes
  BY QueueAssumption DEF QueueInv, TypeOK, HeldInv
<1>1. CASE Receive
  <2>1. PICK c \in queue : /\ queue' = queue \ {c} /\ taken' = c /\ writer = "select" /\ writer' = "notify"
                          /\ UNCHANGED <<caller, batch, draining, stopped>>
    BY <1>1 DEF Receive, callerVars
  <2>2. taken = NoCaller
    BY <1>0, <2>1 DEF BatchHasRoom
  <2>3. queue' \cup Handling' = queue \cup Handling
    BY <1>0, <2>1, <2>2 DEF Handling
  <2>4. BatchHasRoom' /\ OnePlace' /\ DoneIsEmpty'
    BY <1>0, <2>1, <2>2 DEF BatchHasRoom, OnePlace, DoneIsEmpty
  <2>5. HandedOver'
    BY <1>0, <2>1, <2>3 DEF HandedOver
  <2> QED BY <2>4, <2>5 DEF HeldInv
<1>2. CASE Append
  <2>1. /\ batch' = batch \cup {taken} /\ taken' = NoCaller
        /\ writer = "append" /\ writer' \in {"persist", "select"}
        /\ writer' = "select" => ~(Cardinality(batch') >= batchSize)
        /\ UNCHANGED <<caller, queue, draining, stopped>>
    BY <1>2 DEF Append, callerVars
  <2>2. taken \in Callers /\ taken \notin batch
    BY <1>0, <2>1 DEF TakenWhileHandled, OnePlace
  <2>3. Handling' = Handling
    BY <1>0, <2>1, <2>2 DEF Handling
  <2>4. writer' = "select" => Cardinality(batch') < MaxBatch
    <3>1. batch' \in SUBSET Callers
      BY <1>0, <2>1, <2>2
    <3>2. Cardinality(batch') \in Nat
      BY <3>1, CallersCount
    <3>3. batchSize \in Nat /\ MaxBatch \in Nat /\ batchSize <= MaxBatch
      BY <1>0, MaxBatchIs
    <3> QED BY <2>1, <3>2, <3>3
  <2>5. BatchHasRoom'
    BY <2>1, <2>4 DEF BatchHasRoom
  <2>6. OnePlace'
    BY <1>0, <2>1, <2>2 DEF OnePlace
  <2>7. HandedOver'
    BY <1>0, <2>1, <2>3 DEF HandedOver
  <2>8. DoneIsEmpty'
    BY <1>0, <2>1 DEF DoneIsEmpty
  <2> QED BY <2>5, <2>6, <2>7, <2>8 DEF HeldInv
<1>3. CASE LoadWaiters \/ PostToken
  <2>1. /\ writer \in {"notify", "post"} /\ writer' \in {"post", "append"}
        /\ UNCHANGED <<caller, queue, taken, batch, draining, stopped>>
    BY <1>3 DEF LoadWaiters, PostToken, callerVars
  <2> QED BY <1>0, <2>1 DEF HeldInv, BatchHasRoom, OnePlace, HandedOver, Handling, DoneIsEmpty
<1>4. CASE TimerFires \/ SeeConfig \/ ChooseStop \/ DrainEnds
  <2>1. /\ writer = "select"
        /\ UNCHANGED <<caller, queue, taken, batch, stopped>>
        /\ \/ writer' \in {"select", "persist"} /\ draining' = draining
           \/ writer' = "select" /\ stopped
           \/ writer' = "done" /\ draining /\ draining' = draining /\ queue = {} /\ batch = {}
    BY <1>4 DEF TimerFires, SeeConfig, ChooseStop, DrainEnds, callerVars
  <2> QED BY <1>0, <2>1 DEF HeldInv, BatchHasRoom, OnePlace, HandedOver, Handling, DoneIsEmpty
<1>5. CASE Persist
  <2>1. /\ writer = "persist" /\ batch' = {} /\ UNCHANGED <<queue, taken, draining, stopped>>
        /\ \/ writer' = "select"
           \/ writer' = "done" /\ draining /\ queue = {}
        /\ caller' = [c \in Callers |->
                        IF c \in batch /\ caller[c] = "queued" THEN "acked" ELSE caller[c]]
    BY <1>5 DEF Persist
  <2>2. taken = NoCaller /\ Handling = batch /\ Handling' = {}
    BY <1>0, <2>1 DEF BatchHasRoom, Handling
  <2>3. Cardinality(batch') < MaxBatch
    <3>1. Cardinality(batch') = 0
      BY <2>1, FS_EmptySet
    <3> QED BY <3>1, MaxBatchIs
  <2>4. BatchHasRoom' /\ OnePlace' /\ DoneIsEmpty'
    BY <1>0, <2>1, <2>2, <2>3 DEF BatchHasRoom, OnePlace, DoneIsEmpty
  <2>5. HandedOver'
    BY <1>0, <2>1, <2>2 DEF HandedOver, OnePlace
  <2> QED BY <2>4, <2>5 DEF HeldInv
<1> QED BY <1>1, <1>2, <1>3, <1>4, <1>5 DEF Run

(* Every record is in one place and the writer holds at most one batch.    *)
THEOREM RecordsHeldOnce == Spec => []HeldInv
<1>1. Init => HeldInv
  <2> SUFFICES ASSUME Init PROVE HeldInv
    OBVIOUS
  <2>1. Cardinality(batch) < MaxBatch
    <3>1. Cardinality(batch) = 0
      BY FS_EmptySet DEF Init
    <3> QED BY <3>1, MaxBatchIs
  <2>2. Handling = {}
    BY DEF Init, Handling
  <2> QED BY <2>1, <2>2, QueueAssumption
       DEF Init, HeldInv, BatchHasRoom, OnePlace, HandedOver, DoneIsEmpty
<1>2. QueueInv /\ HeldInv /\ [Next]_vars => HeldInv'
  <2>1. ASSUME HeldInv, Close \/ UpdateWriterConfig \/ UNCHANGED vars PROVE HeldInv'
    <3>1. UNCHANGED <<caller, queue, writer, taken, batch, draining>> /\ (stopped' = stopped \/ stopped')
      BY <2>1 DEF Close, UpdateWriterConfig, vars, callerVars, writerVars
    <3> QED BY <2>1, <3>1 DEF HeldInv, BatchHasRoom, OnePlace, HandedOver, Handling, DoneIsEmpty
  <2> QED BY <2>1, CallHeld, RunHeld DEF Next
<1> QED BY <1>1, <1>2, QueueSafe, PTL DEF Spec

-----------------------------------------------------------------------------
(* The steps of the queue as steps of the promise.                         *)

(* What the promise sees of the queue: the records of each place.          *)
LEMMA PromisedAt ==
  ASSUME QueueInv, HeldInv
  PROVE  /\ Promise!At("queued") = queue
         /\ Promise!At("taken") = Handling
         /\ queue \in SUBSET Callers /\ Handling \in SUBSET Callers
         /\ queue \cap Handling = {}
<1>1. queue \in SUBSET Callers /\ Handling \in SUBSET Callers /\ queue \cap Handling = {}
  BY HandlingIs DEF QueueInv, TypeOK, HeldInv, OnePlace
<1>2. Promise!At("queued") = queue /\ Promise!At("taken") = Handling
  BY <1>1 DEF Promise!At, PromisedPlace
<1> QED BY <1>1, <1>2

(* The promise counts as the queue does.                                   *)
LEMMA PromiseCounts == \A S : Promise!Cardinality(S) = Cardinality(S)
  BY DEF Promise!Cardinality, Cardinality, Promise!IsFiniteSet, IsFiniteSet

(* The place of a record that is not in the queue or with the writer is    *)
(* said by its caller.                                                     *)
LEMMA PlaceIs ==
  ASSUME NEW c \in Callers
  PROVE  /\ c \in queue => PromisedPlace[c] = "queued"
         /\ c \notin queue /\ c \in Handling => PromisedPlace[c] = "taken"
         /\ c \notin queue /\ c \notin Handling =>
              /\ caller[c] \in Trying => PromisedPlace[c] = "outside"
              /\ caller[c] \in {"dropped", "refused"} => PromisedPlace[c] = "away"
              /\ caller[c] \in {"acked", "timedout"} => PromisedPlace[c] = "decided"
  BY DEF PromisedPlace, Trying

(* A step of a caller is a step of the promise or changes nothing of it.   *)
LEMMA CallKeepsPromise ==
  ASSUME QueueInv, HeldInv, NEW c \in Callers, Call(c)
  PROVE  Promise!Work \/ UNCHANGED Promise!vars
<1>0. /\ caller \in [Callers -> CallerStates] /\ queue \in SUBSET Callers
      /\ HandedOver /\ Promise!At("queued") = queue
  BY PromisedAt DEF QueueInv, TypeOK, HeldInv
<1>1. Handling' = Handling /\ writer' = writer
  BY DEF Call, TryEnqueue, QueueFull, Refused, Announce, Wake, SeeStop, GiveUp, AckTimeout,
     writerVars, Handling
<1>2. caller[c] \in Trying => c \notin queue /\ c \notin Handling /\ PromisedPlace[c] = "outside"
  BY <1>0, PlaceIs DEF HandedOver, Trying
<1>3. CASE TryEnqueue(c)
  <2>1. /\ caller' = [caller EXCEPT ![c] = "queued"] /\ queue' = queue \cup {c}
        /\ ~stopped /\ stopped' = stopped /\ HasRoom /\ caller[c] \in Trying
    BY <1>3 DEF TryEnqueue, Goto, Trying
  <2>2. PromisedPlace' = [PromisedPlace EXCEPT ![c] = "queued"]
    BY <1>0, <1>1, <1>2, <2>1 DEF PromisedPlace
  <2>3. InCaller("queued")' = InCaller("queued") \cup {c}
    BY <1>0, <2>1 DEF InCaller
  <2>4. Cardinality(Promise!At("queued")) < QueueSize
    BY <1>0, <2>1 DEF HasRoom
  <2>5. Promise!Accept(c)
    BY <1>1, <1>2, <2>1, <2>2, <2>3, <2>4, PromiseCounts DEF Promise!Accept, Promise!Put
  <2> QED BY <2>5 DEF Promise!Work
<1>4. CASE Refused(c) \/ SeeStop(c) \/ GiveUp(c)
  <2>1. PICK label \in {"dropped", "refused"} :
          /\ caller' = [caller EXCEPT ![c] = label]
          /\ UNCHANGED <<queue, stopped>> /\ caller[c] \in Trying
    BY <1>4 DEF Refused, SeeStop, GiveUp, Goto, Trying
  <2>2. PromisedPlace' = [PromisedPlace EXCEPT ![c] = "away"]
    BY <1>0, <1>1, <1>2, <2>1 DEF PromisedPlace, Trying
  <2>3. InCaller("queued")' = InCaller("queued")
    BY <1>0, <2>1 DEF InCaller, Trying
  <2>4. Promise!Refuse(c)
    BY <1>1, <1>2, <2>1, <2>2, <2>3 DEF Promise!Refuse, Promise!Put
  <2> QED BY <2>4 DEF Promise!Work
<1>5. CASE QueueFull(c) \/ Announce(c) \/ Wake(c)
  <2>1. PICK label \in Trying :
          /\ caller' = [caller EXCEPT ![c] = label]
          /\ UNCHANGED <<queue, stopped>> /\ caller[c] \in Trying
    BY <1>5 DEF QueueFull, Announce, Wake, Goto, Trying
  <2>2. PromisedPlace' = PromisedPlace
    BY <1>0, <1>1, <1>2, <2>1 DEF PromisedPlace
  <2>3. InCaller("queued")' = InCaller("queued")
    BY <1>0, <2>1 DEF InCaller, Trying
  <2> QED BY <1>1, <2>1, <2>2, <2>3 DEF Promise!vars
<1>6. CASE AckTimeout(c)
  <2>1. /\ caller' = [caller EXCEPT ![c] = "timedout"] /\ UNCHANGED <<queue, stopped>>
        /\ caller[c] = "queued"
    BY <1>6 DEF AckTimeout, Goto
  <2>2. c \in queue \cup Handling
    BY <1>0, <2>1 DEF HandedOver
  <2>3. PromisedPlace' = PromisedPlace
    BY <1>0, <1>1, <2>1, <2>2 DEF PromisedPlace
  <2>4. InCaller("queued")' = InCaller("queued") \ {c}
    BY <1>0, <2>1 DEF InCaller
  <2>5. Promise!GiveUp(c)
    BY <1>1, <2>1, <2>3, <2>4 DEF Promise!GiveUp
  <2> QED BY <2>5 DEF Promise!Work
<1> QED BY <1>3, <1>4, <1>5, <1>6 DEF Call

(* A step of the writer, too: it takes one record, it decides its batch or *)
(* it returns.                                                             *)
LEMMA RunKeepsPromise ==
  ASSUME QueueInv, HeldInv, Run
  PROVE  Promise!Work \/ UNCHANGED Promise!vars
<1>0. /\ caller \in [Callers -> CallerStates] /\ queue \in SUBSET Callers /\ batch \in SUBSET Callers
      /\ TypeOK /\ BatchHasRoom /\ OnePlace /\ HandedOver /\ DoneIsEmpty
      /\ Promise!At("queued") = queue /\ Promise!At("taken") = Handling
      /\ taken \in Callers \cup {NoCaller} /\ NoCaller \notin Callers
  BY PromisedAt, QueueAssumption DEF QueueInv, TypeOK, HeldInv
<1>1. CASE Receive
  <2>1. PICK c \in queue : /\ queue' = queue \ {c} /\ taken' = c /\ writer = "select" /\ writer' = "notify"
                          /\ UNCHANGED <<caller, batch, draining, stopped>>
    BY <1>1 DEF Receive, callerVars
  <2>2. Handling = batch /\ Handling' = batch \cup {c} /\ Cardinality(batch) < MaxBatch
    BY <1>0, <2>1 DEF BatchHasRoom, Handling
  <2>3. PromisedPlace' = [PromisedPlace EXCEPT ![c] = "taken"]
    BY <1>0, <2>1, <2>2 DEF PromisedPlace, OnePlace
  <2>4. PromisedPlace[c] = "queued"
    BY <1>0, <2>1, PlaceIs
  <2>5. InCaller("queued")' = InCaller("queued")
    BY <2>1 DEF InCaller
  <2>6. Promise!Take(c)
    BY <1>0, <2>1, <2>2, <2>3, <2>4, <2>5, PromiseCounts DEF Promise!Take, Promise!Put
  <2>7. c \in Callers
    BY <1>0
  <2> QED BY <2>6, <2>7 DEF Promise!Work
<1>2. CASE Append
  <2>1. /\ batch' = batch \cup {taken} /\ taken' = NoCaller
        /\ writer = "append" /\ writer' \in {"persist", "select"}
        /\ UNCHANGED <<caller, queue, draining, stopped>>
    BY <1>2 DEF Append, callerVars
  <2>2. taken \in Callers
    BY <2>1 DEF QueueInv, TakenWhileHandled
  <2>3. Handling' = Handling
    BY <1>0, <2>1, <2>2 DEF Handling
  <2> QED BY <2>1, <2>3 DEF Promise!vars, PromisedPlace, InCaller
<1>3. CASE LoadWaiters \/ PostToken
  <2>1. /\ writer # "done" /\ writer' # "done"
        /\ UNCHANGED <<caller, queue, taken, batch, stopped>>
    BY <1>3 DEF LoadWaiters, PostToken, callerVars
  <2> QED BY <2>1 DEF Promise!vars, PromisedPlace, Handling, InCaller
<1>4. CASE TimerFires \/ SeeConfig \/ ChooseStop \/ DrainEnds
  <2>1. /\ writer = "select" /\ UNCHANGED <<caller, queue, taken, batch, stopped>>
        /\ \/ writer' # "done"
           \/ writer' = "done" /\ draining /\ queue = {} /\ batch = {}
    BY <1>4 DEF TimerFires, SeeConfig, ChooseStop, DrainEnds, callerVars
  <2>2. PromisedPlace' = PromisedPlace /\ InCaller("queued")' = InCaller("queued")
    BY <2>1 DEF PromisedPlace, Handling, InCaller
  <2>3. CASE writer' # "done"
    BY <2>1, <2>2, <2>3 DEF Promise!vars
  <2>4. CASE writer' = "done" /\ draining /\ queue = {} /\ batch = {}
    <3>1. Handling = {} /\ stopped
      BY <1>0, <2>1, <2>4 DEF BatchHasRoom, Handling, DoneIsEmpty
    <3>2. PromisedPlace' = [r \in Callers |-> IF r \in {} THEN "decided" ELSE PromisedPlace[r]]
      BY <2>2 DEF PromisedPlace
    <3>3. Promise!Decide({})
      BY <1>0, <2>1, <2>2, <2>4, <3>1, <3>2 DEF Promise!Decide
    <3> QED BY <3>3 DEF Promise!Work
  <2> QED BY <2>1, <2>3, <2>4
<1>5. CASE Persist
  <2>1. /\ writer = "persist" /\ batch' = {} /\ UNCHANGED <<queue, taken, draining, stopped>>
        /\ \/ writer' = "select"
           \/ writer' = "done" /\ draining /\ queue = {}
        /\ caller' = [c \in Callers |->
                        IF c \in batch /\ caller[c] = "queued" THEN "acked" ELSE caller[c]]
    BY <1>5 DEF Persist
  <2>2. taken = NoCaller /\ Handling = batch /\ Handling' = {}
    BY <1>0, <2>1 DEF BatchHasRoom, Handling
  <2>3. PromisedPlace' = [r \in Callers |-> IF r \in batch THEN "decided" ELSE PromisedPlace[r]]
    <3>1. ASSUME NEW r \in Callers
          PROVE  PromisedPlace'[r] = IF r \in batch THEN "decided" ELSE PromisedPlace[r]
      <4>1. CASE r \in batch
        <5>1. r \notin queue /\ caller[r] \in {"queued", "acked", "timedout"}
          BY <1>0, <2>2, <4>1 DEF OnePlace, HandedOver
        <5>2. caller'[r] \in {"acked", "timedout"}
          BY <2>1, <4>1, <5>1
        <5> QED BY <2>1, <2>2, <4>1, <5>1, <5>2 DEF PromisedPlace, Trying
      <4>2. CASE r \notin batch
        BY <2>1, <2>2, <4>2 DEF PromisedPlace
      <4> QED BY <4>1, <4>2
    <3> QED BY <3>1 DEF PromisedPlace
  <2>4. InCaller("queued")' = InCaller("queued") \ batch
    BY <2>1 DEF InCaller
  <2>5. Promise!Decide(batch)
    <3>1. \/ (writer' = "done") = (writer = "done")
          \/ stopped /\ queue = {} /\ (writer' = "done") = TRUE
      BY <1>0, <2>1 DEF DoneIsEmpty
    <3> QED BY <1>0, <2>1, <2>2, <2>3, <2>4, <3>1 DEF Promise!Decide
  <2> QED BY <1>0, <2>5 DEF Promise!Work
<1> QED BY <1>1, <1>2, <1>3, <1>4, <1>5 DEF Run

(* Close is the stop of the promise; the configuration is no part of it.   *)
LEMMA OthersKeepPromise ==
  ASSUME Close \/ UpdateWriterConfig \/ UNCHANGED vars
  PROVE  Promise!Work \/ UNCHANGED Promise!vars
<1>1. UNCHANGED <<caller, queue, writer, taken, batch>> /\ (stopped' = stopped \/ stopped' = TRUE)
  BY DEF Close, UpdateWriterConfig, vars, callerVars, writerVars
<1>2. /\ PromisedPlace' = PromisedPlace /\ InCaller("queued")' = InCaller("queued")
      /\ writer' = writer
  BY <1>1 DEF PromisedPlace, Handling, InCaller
<1> QED BY <1>1, <1>2 DEF Promise!Work, Promise!Stop, Promise!vars

(* The queue and its writer keep the promise of WriterPromise.             *)
THEOREM QueueKeepsWriterPromise == Spec => KeepsWriterPromise
<1>1. Init => Promise!Init
  <2> SUFFICES ASSUME Init PROVE Promise!Init
    OBVIOUS
  <2>1. PromisedPlace = [r \in Callers |-> "outside"] /\ InCaller("queued") = {}
    BY DEF Init, PromisedPlace, Handling, Trying, InCaller
  <2> QED BY <2>1 DEF Init, Promise!Init
<1>2. QueueInv /\ HeldInv /\ [Next]_vars => [Promise!Work]_(Promise!vars)
  BY CallKeepsPromise, RunKeepsPromise, OthersKeepPromise DEF Next
<1> QED BY <1>1, <1>2, QueueSafe, RecordsHeldOnce, PTL DEF Spec, KeepsWriterPromise, Promise!LiveSpec

-----------------------------------------------------------------------------
(* What the promise is worth: a bound on the records held, and nobody      *)
(* waits for a record that is decided or for a writer that has returned.   *)

(* A place of the promise is a set of callers.                             *)
LEMMA PlacesAreCallers ==
  ASSUME NEW l
  PROVE  Promise!At(l) \in SUBSET Callers
  BY DEF Promise!At

(* Fewer records are not more than the bound.                              *)
LEMMA FewerFit ==
  ASSUME NEW S \in SUBSET Callers, NEW T \in SUBSET S, NEW n \in Nat, Cardinality(S) <= n
  PROVE  Cardinality(T) <= n
<1>1. IsFiniteSet(S) /\ Cardinality(S) \in Nat
  BY CallersCount
<1>2. Cardinality(T) <= Cardinality(S) /\ IsFiniteSet(T)
  BY <1>1, FS_Subset
<1>3. Cardinality(T) \in Nat
  BY <1>2, FS_CardinalityType
<1> QED BY <1>1, <1>2, <1>3

(* One record more fits where the bound is not reached.                    *)
LEMMA OneMoreFits ==
  ASSUME NEW S \in SUBSET Callers, NEW r \in Callers, NEW n \in Nat, Cardinality(S) < n
  PROVE  Cardinality(S \cup {r}) <= n
<1>1. Cardinality(S) \in Nat /\ (r \notin S => Cardinality(S \cup {r}) = Cardinality(S) + 1)
  BY CountChanges
<1>2. r \in S => S \cup {r} = S
  OBVIOUS
<1> QED BY <1>1, <1>2

(* A step of the promise keeps what it is worth.                           *)
LEMMA WorkKeeps ==
  ASSUME Promise!Kept, [Promise!Work]_(Promise!vars)
  PROVE  Promise!Kept'
<1> DEFINE Q == Promise!At("queued")
           T == Promise!At("taken")
           L == InCaller("queued")
           Goal == /\ Cardinality(Q') <= QueueSize /\ Cardinality(T') <= MaxBatch
                   /\ L' \subseteq Q' \cup T'
                   /\ writer' = "done" => stopped' /\ Q' = {} /\ T' = {}
<1>0. /\ Cardinality(Q) <= QueueSize /\ Cardinality(T) <= MaxBatch
      /\ L \subseteq Q \cup T
      /\ writer = "done" => stopped /\ Q = {} /\ T = {}
      /\ Q \in SUBSET Callers /\ T \in SUBSET Callers /\ QueueSize \in Nat /\ MaxBatch \in Nat
      /\ DOMAIN PromisedPlace = Callers
  BY PromiseCounts, PlacesAreCallers, MaxBatchIs, QueueAssumption DEF Promise!Kept, PromisedPlace
<1> SUFFICES Goal
  BY PromiseCounts DEF Promise!Kept
<1>1. ASSUME NEW r \in Callers, Promise!Accept(r) PROVE Goal
  <2>1. Q' = Q \cup {r} /\ T' = T
    BY <1>0, <1>1 DEF Promise!At, Promise!Accept, Promise!Put
  <2>2. Cardinality(Q') <= QueueSize
    BY <1>0, <1>1, <2>1, OneMoreFits, PromiseCounts DEF Promise!Accept
  <2> QED BY <1>0, <1>1, <2>1, <2>2 DEF Promise!Accept
<1>2. ASSUME NEW r \in Callers, Promise!Refuse(r) \/ Promise!GiveUp(r) PROVE Goal
  <2>1. Q' = Q /\ T' = T
    BY <1>0, <1>2 DEF Promise!At, Promise!Refuse, Promise!GiveUp, Promise!Put
  <2> QED BY <1>0, <1>2, <2>1 DEF Promise!Refuse, Promise!GiveUp
<1>3. ASSUME NEW r \in Callers, Promise!Take(r) PROVE Goal
  <2>1. Q' = Q \ {r} /\ T' = T \cup {r} /\ r \in Q
    BY <1>0, <1>3 DEF Promise!At, Promise!Take, Promise!Put
  <2>2. Cardinality(T') <= MaxBatch
    BY <1>0, <1>3, <2>1, OneMoreFits, PromiseCounts DEF Promise!Take
  <2>3. Cardinality(Q') <= QueueSize
    BY <1>0, <2>1, FewerFit
  <2> QED BY <1>0, <1>3, <2>1, <2>2, <2>3 DEF Promise!Take
<1>4. ASSUME NEW S \in SUBSET Callers, Promise!Decide(S) PROVE Goal
  <2>1. Q' = Q /\ T' = T \ S /\ S \subseteq T
    BY <1>0, <1>4 DEF Promise!At, Promise!Decide
  <2>2. Cardinality(T') <= MaxBatch
    BY <1>0, <2>1, FewerFit
  <2> QED BY <1>0, <1>4, <2>1, <2>2 DEF Promise!Decide
<1>5. ASSUME Promise!Stop \/ UNCHANGED Promise!vars PROVE Goal
  <2>1. Q' = Q /\ T' = T /\ L' = L
    BY <1>5 DEF Promise!At, Promise!Stop, Promise!vars
  <2> QED BY <1>0, <1>5, <2>1 DEF Promise!Stop, Promise!vars
<1> HIDE DEF Goal
<1> QED BY <1>1, <1>2, <1>3, <1>4, <1>5 DEF Promise!Work

(* The writer never holds more than a full queue and a full batch, every   *)
(* caller that still listens has its record there, and when run has        *)
(* returned nothing is left: a consequence of the promise alone.           *)
THEOREM QueuePromiseKept == Spec => []Promise!Kept
<1>1. Promise!Init => Promise!Kept
  <2> SUFFICES ASSUME Promise!Init PROVE Promise!Kept
    OBVIOUS
  <2>1. Promise!At("queued") = {} /\ Promise!At("taken") = {} /\ InCaller("queued") = {}
    BY DEF Promise!Init, Promise!At
  <2>2. Cardinality({}) <= QueueSize /\ Cardinality({}) <= MaxBatch
    BY FS_EmptySet, MaxBatchIs, QueueAssumption
  <2> QED BY <2>1, <2>2, PromiseCounts DEF Promise!Kept, Promise!Init
<1>2. Promise!Kept /\ [Promise!Work]_(Promise!vars) => Promise!Kept'
  BY WorkKeeps
<1> QED BY <1>1, <1>2, QueueKeepsWriterPromise, PTL DEF KeepsWriterPromise, Promise!LiveSpec

-----------------------------------------------------------------------------
(* Nobody is stuck.                                                        *)

(* The guards of the steps that fairness is stated for.                    *)
CanStep ==
  \/ writer \in {"notify", "post", "append", "persist"}
  \/ writer = "select" /\ (queue # {} \/ batch # {} \/ draining \/ stopped)
  \/ \E c \in Callers :
       \/ caller[c] \in {"start", "announce", "recheck", "woken"}
       \/ caller[c] = "asleep" /\ (tokens > 0 \/ stopped)

(* Somebody waits for room, for the answer to a record, or for Close.      *)
SomebodyWaits ==
  \/ InCaller("asleep") # {} \/ InCaller("queued") # {}
  \/ stopped /\ writer # "done"

NobodyIsStuck == SomebodyWaits => CanStep

(* While a caller sleeps, a caller listens, or Close waits, one of them or *)
(* the writer can take a step that needs neither a new call nor a deadline *)
(* nor a change of configuration: the queue, the tokens and the drain      *)
(* never leave everyone waiting for everyone.                              *)
THEOREM QueueNeverStuck == Spec => []NobodyIsStuck
<1>1. ASSUME QueueInv, HeldInv PROVE NobodyIsStuck
  <2> SUFFICES ASSUME SomebodyWaits, ~CanStep PROVE FALSE
    BY DEF NobodyIsStuck
  <2>0. TypeOK /\ NoLostWakeup
    BY <1>1 DEF QueueInv
  <2>1. writer \in {"select", "done"}
    BY <2>0 DEF CanStep, TypeOK, WriterStates
  <2>2. queue = {} /\ batch = {} /\ taken = NoCaller
    BY <1>1, <2>1 DEF CanStep, HeldInv, DoneIsEmpty, BatchHasRoom
  <2>3. InCaller("queued") = {}
    BY <1>1, <2>2 DEF HeldInv, HandedOver, Handling, InCaller
  <2>4. ~(stopped /\ writer # "done")
    BY <2>1 DEF CanStep
  <2>5. PICK c \in Callers : caller[c] = "asleep"
    BY <2>3, <2>4 DEF SomebodyWaits, InCaller
  <2>6. ~stopped /\ ~(tokens > 0)
    BY <2>5 DEF CanStep
  <2>7. InCaller("woken") = {}
    BY DEF CanStep, InCaller
  <2>8. writer \notin {"notify", "post"} /\ InCaller("asleep") # {}
    BY <2>5 DEF CanStep, InCaller
  <2>9. tokens + Cardinality(InCaller("woken")) + 0 >= QueueSize - Cardinality(queue)
    BY <2>0, <2>6, <2>8 DEF NoLostWakeup
  <2>10. Cardinality({}) = 0
    BY FS_EmptySet
  <2>11. tokens \in 0 .. QueueSize /\ QueueSize \in Nat \ {0}
    BY <2>0, QueueAssumption DEF TypeOK
  <2>12. tokens + 0 + 0 >= QueueSize - 0
    BY <2>2, <2>7, <2>9, <2>10
  <2> QED BY <2>6, <2>11, <2>12
<1> QED BY <1>1, QueueSafe, RecordsHeldOnce, PTL
=============================================================================
