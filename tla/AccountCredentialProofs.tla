----------------------- MODULE AccountCredentialProofs -----------------------
(***************************************************************************)
(* Proofs about AccountCredential for every set of flights and of writers, *)
(* every limit of rejections and every bound on tokens and faults.         *)
(***************************************************************************)
EXTENDS AccountCredential, TLAPS

-----------------------------------------------------------------------------
(* The inductive invariant.                                                *)

(* No lease has ended too early and no row was saved over a newer one.     *)
Undisturbed == ~stale /\ ~lapsed

(* The number of a token is that of its issue.                             *)
Issued ==
  /\ row.ref <= issued /\ (valid # None => valid <= issued)
  /\ \A token \in used : token <= issued
  /\ \A f \in Flights :
       /\ flight[f].pc \in {"send", "markSave"} => flight[f].snap.ref <= issued
       /\ flight[f].pc = "save" => flight[f].got.ref <= issued
  /\ \A w \in Writers : writer[w] # None => writer[w].ref <= issued

(* What a flight holds while it has the lock: the token of the row, then   *)
(* its successor or again that token, or the knowledge that it was refused *)
(* for good.                                                               *)
Tracks(f) ==
  /\ flight[f].pc = "send" => flight[f].snap.ref = row.ref
  /\ flight[f].pc = "save" =>
       \/ flight[f].got.ref = row.ref
       \/ flight[f].got.ref = flight[f].got.acc /\ valid \in {flight[f].got.ref, None}
  /\ flight[f].pc = "record" /\ flight[f].answer = "invalid" => row.ref # valid

Tracking == Undisturbed => \A f \in Flights : Tracks(f)

(* The row shows a replaced token only while its successor is being saved. *)
Succession ==
  ~lost /\ Undisturbed =>
    /\ \A f \in Flights : flight[f].pc = "save" => flight[f].got.ref \notin used
    /\ row.ref \in used => \E f \in Flights : flight[f].pc = "save"

CredentialInv ==
  /\ TypeOK /\ Issued
  /\ OneRefreshAtATime /\ Tracking /\ Succession
  /\ NoTokenStranded /\ GoodCredentialKept

-----------------------------------------------------------------------------
(* Types.                                                                  *)

(* What a flight is in each of its phases.                                 *)
Sound(v) ==
  /\ v \in Flight
  /\ v.pc \in {"send", "record"} => v.snap \in Held
  /\ v.pc = "markSave" => v.snap \in Row
  /\ v.pc = "save" => v.got # None

(* The parts of the type invariant that are not about flights.             *)
RestOK ==
  /\ row \in Row
  /\ issued \in Tokens /\ valid \in Tokens \cup {None} /\ password \in BOOLEAN
  /\ near \in Tokens \cup {0} /\ expired \in Tokens \cup {0}
  /\ recent \in [by : Instances \cup {None}, token : Tokens] \cup {None}
  /\ lock \in Flights \cup {None, Orphan}
  /\ writer \in [Writers -> Row \cup {None}]
  /\ faults \in Nat
  /\ used \subseteq Tokens
  /\ lost \in BOOLEAN /\ stale \in BOOLEAN /\ lapsed \in BOOLEAN

FlightsOK == flight \in [Flights -> Flight] /\ \A f \in Flights : Sound(flight[f])

LEMMA Typed == TypeOK <=> RestOK /\ FlightsOK
  BY DEF TypeOK, RestOK, FlightsOK, Sound

(* None is not a row, a pair or what an exchange holds of a row.           *)
LEMMA NoneFacts ==
  /\ None \notin Row /\ None \notin Held /\ None \notin Pair /\ None \notin Tokens
  /\ None \notin Flights /\ None # Orphan
  BY CredentialAssumption

(* The flights with one of them replaced.                                  *)
LEMMA PutFlight ==
  ASSUME FlightsOK, NEW f \in Flights, NEW v, Sound(v), flight' = [flight EXCEPT ![f] = v]
  PROVE  FlightsOK'
<1>1. flight' \in [Flights -> Flight]
  BY DEF FlightsOK, Sound
<1>2. \A g \in Flights : flight'[g] = IF g = f THEN v ELSE flight[g]
  BY DEF FlightsOK
<1> QED BY <1>1, <1>2 DEF FlightsOK

LEMMA IdleSound == Sound(Idle)
  BY DEF Sound, Idle, Flight, PCs

LEMMA EndTyped ==
  ASSUME RestOK, FlightsOK, NEW f \in Flights, End(f)
  PROVE  FlightsOK' /\ lock' \in Flights \cup {None, Orphan}
<1>1. flight' = [flight EXCEPT ![f] = Idle] /\ lock' = IF lock = f THEN None ELSE lock
  BY DEF End
<1> QED BY <1>1, IdleSound, PutFlight DEF RestOK

LEMMA MarkTyped ==
  ASSUME FlightsOK, NEW f \in Flights, flight' = ToMark(f)
  PROVE  FlightsOK'
<1>1. Sound([Idle EXCEPT !.pc = "mark"])
  BY DEF Sound, Idle, Flight, PCs
<1> QED BY <1>1, PutFlight DEF ToMark

(* Constants used in the typing of rows.                                   *)
LEMMA TokenFacts ==
  /\ MaxToken \in Nat /\ 1 \in Tokens /\ Tokens \subseteq Nat
  /\ UnclassifiedLimit \in Nat /\ 0 \in Strike /\ MaxFaults \in Nat
  BY CredentialAssumption DEF Tokens, Strike

LEMMA InitTyped == Init => TypeOK
<1> SUFFICES ASSUME Init PROVE TypeOK
  OBVIOUS
<1>1. RestOK
  BY TokenFacts DEF Init, RestOK, Row
<1>2. FlightsOK
  BY IdleSound DEF Init, FlightsOK, Sound
<1> QED BY <1>1, <1>2, Typed

LEMMA CallTyped == ASSUME RestOK, FlightsOK, NEW f \in Flights, Call(f) PROVE RestOK' /\ FlightsOK'
<1>1. PICK opt \in Options(f[2]), token \in 1 .. row.acc :
        Begin(f, opt, token, "mark") \/ Begin(f, opt, token, "lock")
  BY DEF Call
<1>2. opt \in {"lookup", "retry", "startup", "scheduled", "manual"}
  BY <1>1, CredentialAssumption DEF Options
<1>3. token \in Tokens
  BY <1>1, CredentialAssumption DEF RestOK, Row, Tokens
<1>4. /\ Sound([Idle EXCEPT !.pc = "lock", !.opt = opt, !.seen = token])
      /\ Sound([Idle EXCEPT !.pc = "mark"])
  BY <1>2, <1>3 DEF Sound, Idle, Flight, PCs
<1>5. FlightsOK'
  BY <1>1, <1>4, PutFlight DEF Begin
<1> QED BY <1>5 DEF Call, RestOK, providerVars, clockVars, history

LEMMA LockTyped == ASSUME RestOK, FlightsOK, NEW f \in Flights, Lock(f) PROVE RestOK' /\ FlightsOK'
<1>1. CASE End(f)
  BY <1>1, EndTyped DEF Lock, RestOK, providerVars, clockVars, history
<1>2. CASE flight' = ToMark(f) /\ lock' = f
  BY <1>2, MarkTyped DEF Lock, RestOK, providerVars, clockVars, history
<1>3. CASE /\ lock' = f
           /\ flight' = [flight EXCEPT ![f] = [Idle EXCEPT !.pc = "send",
                !.snap = [acc |-> row.acc, ref |-> row.ref, strikes |-> row.strikes]]]
  <2>1. [acc |-> row.acc, ref |-> row.ref, strikes |-> row.strikes] \in Held
    BY DEF RestOK, Row, Held
  <2>2. Sound([Idle EXCEPT !.pc = "send",
                !.snap = [acc |-> row.acc, ref |-> row.ref, strikes |-> row.strikes]])
    BY <2>1 DEF Sound, Idle, Flight, PCs
  <2>3. FlightsOK'
    BY <1>3, <2>2, PutFlight
  <2> QED BY <1>3, <2>3 DEF Lock, RestOK, providerVars, clockVars, history
<1> QED BY <1>1, <1>2, <1>3 DEF Lock

LEMMA GiveUpTyped == ASSUME RestOK, FlightsOK, NEW f \in Flights, GiveUp(f) PROVE RestOK' /\ FlightsOK'
  BY EndTyped DEF GiveUp, RestOK, providerVars, clockVars, history

LEMMA ExchangeTyped == ASSUME RestOK, FlightsOK, NEW f \in Flights, Exchange(f) PROVE RestOK' /\ FlightsOK'
<1>1. flight[f].pc = "send" /\ flight[f].snap \in Held
  BY DEF Exchange, FlightsOK, Sound
<1>2. flight[f].snap.ref \in Tokens /\ issued + 1 \in Tokens
  BY <1>1, TokenFacts DEF Held, Exchange, RestOK, Tokens
<1>3. PICK rotated \in BOOLEAN :
        /\ flight' = [flight EXCEPT ![f] = [Idle EXCEPT !.pc = "save",
             !.got = [acc |-> issued + 1, ref |-> IF rotated THEN issued + 1 ELSE flight[f].snap.ref]]]
        /\ valid' = IF rotated THEN issued + 1 ELSE valid
        /\ used' = IF rotated THEN used \cup {flight[f].snap.ref} ELSE used
  BY DEF Exchange
<1> DEFINE pair == [acc |-> issued + 1, ref |-> IF rotated THEN issued + 1 ELSE flight[f].snap.ref]
<1>4. pair \in Pair /\ pair # None
  BY <1>2, NoneFacts DEF Pair
<1>5. Sound([Idle EXCEPT !.pc = "save", !.got = pair])
  <2> HIDE DEF pair
  <2> QED BY <1>4 DEF Sound, Idle, Flight, PCs
<1>6. FlightsOK'
  BY <1>3, <1>5, PutFlight
<1> QED BY <1>2, <1>3, <1>6 DEF Exchange, RestOK, clockVars

(* A flight that goes on to record an answer.                              *)
LEMMA RecordSound ==
  ASSUME FlightsOK, NEW f \in Flights, flight[f].pc = "send",
         NEW answer \in {"other", "rejected", "invalid"},
         flight' = [flight EXCEPT ![f].pc = "record", ![f].answer = answer]
  PROVE  FlightsOK'
<1>1. Sound(flight[f]) /\ flight[f] \in Flight /\ flight[f].snap \in Held
  BY DEF FlightsOK, Sound
<1>2. Sound([flight[f] EXCEPT !.pc = "record", !.answer = answer])
  BY <1>1 DEF Sound, Flight, PCs
<1>3. flight' = [flight EXCEPT ![f] = [flight[f] EXCEPT !.pc = "record", !.answer = answer]]
  BY DEF FlightsOK
<1> QED BY <1>2, <1>3, PutFlight

LEMMA ReplyLostTyped == ASSUME RestOK, FlightsOK, NEW f \in Flights, ReplyLost(f) PROVE RestOK' /\ FlightsOK'
<1>1. FlightsOK'
  BY RecordSound DEF ReplyLost
<1>2. flight[f].snap.ref \in Tokens /\ issued + 1 \in Tokens
  BY TokenFacts DEF ReplyLost, FlightsOK, Sound, Held, RestOK, Tokens
<1> QED BY <1>1, <1>2 DEF ReplyLost, Fault, RestOK, clockVars

LEMMA RefuseTyped == ASSUME RestOK, FlightsOK, NEW f \in Flights, Refuse(f) PROVE RestOK' /\ FlightsOK'
<1>1. PICK answer \in Answers(flight[f].snap.ref) :
        flight' = [flight EXCEPT ![f].pc = "record", ![f].answer = answer]
  BY DEF Refuse
<1>2. answer \in {"other", "rejected", "invalid"}
  BY <1>1 DEF Answers
<1>3. FlightsOK'
  BY <1>1, <1>2, RecordSound DEF Refuse
<1> QED BY <1>3 DEF Refuse, RestOK, providerVars, clockVars, history

LEMMA SaveTyped == ASSUME RestOK, FlightsOK, NEW f \in Flights, Save(f) PROVE RestOK' /\ FlightsOK'
<1>1. flight[f].got \in Pair
  BY DEF Save, FlightsOK, Sound, Flight
<1>2. row' \in Row
  BY <1>1, TokenFacts DEF Save, Row, Pair
<1>3. recent' \in [by : Instances \cup {None}, token : Tokens]
  BY <1>1 DEF Save, Pair, Instances
<1> QED BY <1>2, <1>3, EndTyped DEF Save, RestOK, providerVars, history

LEMMA SaveFailsTyped == ASSUME RestOK, FlightsOK, NEW f \in Flights, SaveFails(f) PROVE RestOK' /\ FlightsOK'
<1>1. (lost \/ Replacing(f)) \in BOOLEAN
  BY DEF Replacing
<1>2. lost' \in BOOLEAN
  BY <1>1 DEF SaveFails
<1> QED BY <1>2, EndTyped DEF SaveFails, Fault, RestOK, providerVars, clockVars

LEMMA ConcludeTyped ==
  ASSUME RestOK, FlightsOK, NEW f \in Flights, Conclude(f)
  PROVE  FlightsOK' /\ lock' \in Flights \cup {None, Orphan}
  BY EndTyped, MarkTyped DEF Conclude, RestOK

LEMMA RecordTyped == ASSUME RestOK, FlightsOK, NEW f \in Flights, Record(f) PROVE RestOK' /\ FlightsOK'
<1>1. flight[f].snap \in Held
  BY DEF Record, FlightsOK, Sound
<1>2. Strikes(f) \in Strike
  BY <1>1, TokenFacts DEF Strikes, LesserOf, Held, Strike
<1>3. row' \in Row
  <2>1. Refused(f) \in BOOLEAN
    BY DEF Refused
  <2> QED BY <1>2, <2>1 DEF Record, RestOK, Row
<1> QED BY <1>3, ConcludeTyped DEF Record, RestOK, providerVars, clockVars, history

LEMMA RecordFailsTyped == ASSUME RestOK, FlightsOK, NEW f \in Flights, RecordFails(f) PROVE RestOK' /\ FlightsOK'
  BY ConcludeTyped DEF RecordFails, Fault, RestOK, providerVars, clockVars, history

LEMMA MarkGetTyped == ASSUME RestOK, FlightsOK, NEW f \in Flights, MarkGet(f) PROVE RestOK' /\ FlightsOK'
<1>1. flight[f] \in Flight /\ row \in Row
  BY DEF FlightsOK, RestOK, Sound
<1>2. Sound([flight[f] EXCEPT !.pc = "markSave", !.snap = row])
  BY <1>1 DEF Sound, Flight, PCs
<1>3. flight' = [flight EXCEPT ![f] = [flight[f] EXCEPT !.pc = "markSave", !.snap = row]]
  BY DEF MarkGet, FlightsOK
<1>4. FlightsOK'
  BY <1>2, <1>3, PutFlight
<1> QED BY <1>4 DEF MarkGet, RestOK, providerVars, clockVars, history

LEMMA ReauthTyped == ASSUME NEW value \in Row PROVE Reauth(value) \in Row
  BY DEF Reauth, Row

LEMMA MarkSaveTyped == ASSUME RestOK, FlightsOK, NEW f \in Flights, MarkSave(f) PROVE RestOK' /\ FlightsOK'
<1>1. flight[f].snap \in Row
  BY DEF MarkSave, FlightsOK, Sound
<1>2. row' \in Row /\ stale' \in BOOLEAN
  BY <1>1, ReauthTyped DEF MarkSave, Older
<1> QED BY <1>2, EndTyped DEF MarkSave, RestOK, providerVars, clockVars

LEMMA MarkFailsTyped == ASSUME RestOK, FlightsOK, NEW f \in Flights, MarkFails(f) PROVE RestOK' /\ FlightsOK'
  BY EndTyped DEF MarkFails, Fault, RestOK, providerVars, clockVars, history

LEMMA WriterTyped ==
  ASSUME RestOK, FlightsOK, NEW w \in Writers, WriterGet(w) \/ WriterSave(w)
  PROVE  RestOK' /\ FlightsOK'
<1>1. CASE WriterGet(w)
  <2>1. FlightsOK'
    BY <1>1 DEF WriterGet, FlightsOK, Sound
  <2> QED BY <1>1, <2>1 DEF WriterGet, Fault, RestOK, providerVars, clockVars, history
<1>2. CASE WriterSave(w)
  <2>1. writer[w] \in Row
    BY <1>2 DEF WriterSave, RestOK
  <2>2. row' \in Row /\ stale' \in BOOLEAN
    BY <1>2, <2>1, ReauthTyped DEF WriterSave, Older
  <2>3. FlightsOK'
    BY <1>2 DEF WriterSave, FlightsOK, Sound
  <2> QED BY <1>2, <2>2, <2>3 DEF WriterSave, RestOK, providerVars, clockVars
<1> QED BY <1>1, <1>2

LEMMA ImportTyped == ASSUME RestOK, FlightsOK, Import PROVE RestOK' /\ FlightsOK'
<1>1. issued + 1 \in Tokens
  BY TokenFacts DEF Import, RestOK, Tokens
<1>2. row' \in Row
  BY <1>1, TokenFacts DEF Import, Row
<1>3. stale' \in BOOLEAN /\ faults' \in Nat
  <2>1. CASE Exchanging = {}
    BY <2>1 DEF Import, RestOK
  <2>2. CASE Exchanging # {}
    <3>1. stale' = TRUE /\ Fault
      BY <2>2, Zenon DEF Import
    <3> QED BY <3>1 DEF Fault, RestOK
  <2> QED BY <2>1, <2>2
<1>4. FlightsOK'
  BY DEF Import, FlightsOK, Sound
<1> QED BY <1>1, <1>2, <1>3, <1>4 DEF Import, RestOK, clockVars

LEMMA DueTyped == ASSUME NEW value \in Row PROVE DueNow(value) \in Row
  BY DEF DueNow, Row

LEMMA BackfillTyped == ASSUME RestOK, FlightsOK, Backfill PROVE RestOK' /\ FlightsOK'
<1>1. row' \in Row
  BY DEF Backfill, RestOK, Row
<1>2. FlightsOK'
  BY DEF Backfill, FlightsOK, Sound
<1> QED BY <1>1, <1>2 DEF Backfill, RestOK, providerVars, clockVars, history

LEMMA BecomeDueTyped == ASSUME RestOK, FlightsOK, BecomeDue PROVE RestOK' /\ FlightsOK'
<1>1. row' \in Row
  BY DueTyped DEF BecomeDue, RestOK
<1>2. writer' \in [Writers -> Row \cup {None}]
  BY DueTyped DEF BecomeDue, RestOK
<1>3. ASSUME NEW f \in Flights
      PROVE  Sound(IF flight[f].pc # "markSave" THEN flight[f]
                   ELSE [flight[f] EXCEPT !.snap = DueNow(@)])
  <2>1. Sound(flight[f])
    BY DEF FlightsOK
  <2>2. CASE flight[f].pc = "markSave"
    <3>1. DueNow(flight[f].snap) \in Row
      BY <2>1, <2>2, DueTyped DEF Sound
    <3>2. Sound([flight[f] EXCEPT !.snap = DueNow(flight[f].snap)])
      BY <2>1, <2>2, <3>1 DEF Sound, Flight
    <3> QED BY <2>1, <2>2, <3>2 DEF Sound, Flight
  <2> QED BY <2>1, <2>2
<1>4. FlightsOK'
  BY <1>3 DEF BecomeDue, FlightsOK, Sound
<1> QED BY <1>1, <1>2, <1>4 DEF BecomeDue, RestOK, providerVars, clockVars, history

LEMMA TimeTyped ==
  ASSUME RestOK, FlightsOK, Age \/ Cool \/ Revoke \/ ReleaseLost \/ LeaseEnds
  PROVE  RestOK' /\ FlightsOK'
<1>1. FlightsOK'
  BY DEF Age, Cool, Revoke, ReleaseLost, LeaseEnds, FlightsOK, Sound
<1>2. CASE Age
  BY <1>1, <1>2 DEF Age, RestOK, Row, providerVars, history
<1>3. CASE Cool
  BY <1>1, <1>3 DEF Cool, RestOK, providerVars, history
<1>4. CASE Revoke
  BY <1>1, <1>4 DEF Revoke, RestOK, clockVars, history
<1>5. CASE LeaseEnds
  <2>1. lapsed' \in BOOLEAN /\ faults' \in Nat
    <3>1. CASE lock = Orphan
      BY <1>5, <3>1 DEF LeaseEnds, RestOK
    <3>2. CASE lock # Orphan
      BY <1>5, <3>2 DEF LeaseEnds, Fault, RestOK
    <3> QED BY <3>1, <3>2
  <2> QED BY <1>1, <1>5, <2>1 DEF LeaseEnds, RestOK, providerVars, clockVars
<1>6. CASE ReleaseLost
  BY <1>1, <1>6 DEF ReleaseLost, Fault, RestOK, providerVars, clockVars, history
<1> QED BY <1>2, <1>3, <1>4, <1>5, <1>6

LEMMA CrashTyped == ASSUME RestOK, FlightsOK, NEW i \in Instances, Crash(i) PROVE RestOK' /\ FlightsOK'
<1> DEFINE own == {f \in Flights : f[1] = i}
<1>1. flight' = [f \in Flights |-> IF f \in own THEN Idle ELSE flight[f]]
  BY DEF Crash
<1>2. FlightsOK'
  BY <1>1, IdleSound DEF FlightsOK, Sound
<1>3. recent' \in [by : Instances \cup {None}, token : Tokens] \cup {None}
  <2>1. recent' = IF recent # None /\ recent.by = i THEN [recent EXCEPT !.by = None] ELSE recent
    BY DEF Crash
  <2>2. recent \in [by : Instances \cup {None}, token : Tokens] \cup {None}
    BY DEF RestOK
  <2> QED BY <2>1, <2>2
<1>4. (lost \/ \E f \in own : Replacing(f)) \in BOOLEAN
  OBVIOUS
<1>5. lost' \in BOOLEAN
  BY <1>4 DEF Crash
<1> QED BY <1>2, <1>3, <1>5 DEF Crash, Fault, RestOK, providerVars

LEMMA StepTyped == TypeOK /\ [Next]_vars => TypeOK'
<1> SUFFICES ASSUME RestOK, FlightsOK, [Next]_vars PROVE RestOK' /\ FlightsOK'
  BY Typed DEF TypeOK, RestOK, FlightsOK, Sound
<1>1. ASSUME NEW f \in Flights, Call(f) \/ Proceed(f) PROVE RestOK' /\ FlightsOK'
  BY <1>1, CallTyped, LockTyped, GiveUpTyped, ExchangeTyped, ReplyLostTyped, RefuseTyped,
     SaveTyped, SaveFailsTyped, RecordTyped, RecordFailsTyped, MarkGetTyped, MarkSaveTyped,
     MarkFailsTyped DEF Proceed
<1>2. ASSUME Environment PROVE RestOK' /\ FlightsOK'
  BY <1>2, ImportTyped, BackfillTyped, BecomeDueTyped, TimeTyped, CrashTyped DEF Environment
<1>3. CASE UNCHANGED vars
  BY <1>3 DEF vars, RestOK, FlightsOK, Sound
<1> QED BY <1>1, <1>2, <1>3, WriterTyped DEF Next

(* The credential and what surrounds it keep their types, and a flight that *)
(* exchanges, records, saves or marks has what it needs.                    *)
THEOREM CredentialTyped == Spec => []TypeOK
  BY InitTyped, StepTyped, PTL DEF Spec

-----------------------------------------------------------------------------
(* What a step does to the flights.                                        *)

Same(f) == \A g \in Flights : g # f => flight'[g] = flight[g]

LEMMA EndEffect ==
  ASSUME FlightsOK, NEW f \in Flights, End(f)
  PROVE  /\ flight'[f].pc = "idle" /\ Same(f)
         /\ lock' = IF lock = f THEN None ELSE lock
  BY DEF End, FlightsOK, Same, Idle

LEMMA ConcludeEffect ==
  ASSUME FlightsOK, NEW f \in Flights, Conclude(f)
  PROVE  /\ flight'[f].pc \in {"idle", "mark"} /\ Same(f)
         /\ lock' = lock \/ lock' = IF lock = f THEN None ELSE lock
<1>1. CASE End(f)
  BY <1>1, EndEffect
<1>2. CASE flight' = ToMark(f) /\ UNCHANGED lock
  BY <1>2 DEF ToMark, FlightsOK, Same, Idle
<1> QED BY <1>1, <1>2 DEF Conclude

LEMMA CallEffect ==
  ASSUME FlightsOK, NEW f \in Flights, Call(f)
  PROVE  flight'[f].pc \in {"lock", "mark"} /\ Same(f)
<1>1. PICK opt, token : Begin(f, opt, token, "mark") \/ Begin(f, opt, token, "lock")
  BY DEF Call
<1> QED BY <1>1 DEF Begin, FlightsOK, Same, Idle

LEMMA LockEffect ==
  ASSUME FlightsOK, NEW f \in Flights, Lock(f)
  PROVE  /\ Same(f) /\ lock = None
         /\ \/ flight'[f].pc = "idle" /\ lock' = lock
            \/ flight'[f].pc = "mark" /\ lock' = f
            \/ /\ flight'[f].pc = "send" /\ lock' = f
               /\ flight'[f].snap.ref = row.ref
<1>0. lock = None /\ f # None
  BY CredentialAssumption DEF Lock, Free
<1>1. CASE End(f)
  BY <1>0, <1>1, EndEffect
<1>2. CASE flight' = ToMark(f) /\ lock' = f
  BY <1>0, <1>2 DEF ToMark, FlightsOK, Same, Idle
<1>3. CASE /\ lock' = f
           /\ flight' = [flight EXCEPT ![f] = [Idle EXCEPT !.pc = "send",
                !.snap = [acc |-> row.acc, ref |-> row.ref, strikes |-> row.strikes]]]
  BY <1>0, <1>3 DEF FlightsOK, Same, Idle
<1> QED BY <1>1, <1>2, <1>3 DEF Lock

LEMMA ExchangeEffect ==
  ASSUME FlightsOK, NEW f \in Flights, Exchange(f)
  PROVE  /\ Same(f) /\ flight[f].pc = "send" /\ flight'[f].pc = "save"
         /\ flight'[f].got.acc = issued + 1 /\ issued' = issued + 1
         /\ \/ /\ flight'[f].got.ref = issued + 1 /\ valid' = issued + 1
               /\ used' = used \cup {flight[f].snap.ref}
            \/ flight'[f].got.ref = flight[f].snap.ref /\ valid' = valid /\ used' = used
<1>1. PICK rotated \in BOOLEAN :
        /\ flight' = [flight EXCEPT ![f] = [Idle EXCEPT !.pc = "save",
             !.got = [acc |-> issued + 1, ref |-> IF rotated THEN issued + 1 ELSE flight[f].snap.ref]]]
        /\ valid' = IF rotated THEN issued + 1 ELSE valid
        /\ used' = IF rotated THEN used \cup {flight[f].snap.ref} ELSE used
  BY DEF Exchange
<1>2. flight'[f] = [Idle EXCEPT !.pc = "save",
        !.got = [acc |-> issued + 1, ref |-> IF rotated THEN issued + 1 ELSE flight[f].snap.ref]]
  BY <1>1 DEF FlightsOK
<1>3. /\ flight'[f].pc = "save"
      /\ flight'[f].got = [acc |-> issued + 1, ref |-> IF rotated THEN issued + 1 ELSE flight[f].snap.ref]
  BY <1>2 DEF Idle
<1>4. Same(f)
  BY <1>1 DEF FlightsOK, Same
<1> QED BY <1>1, <1>3, <1>4 DEF Exchange

LEMMA RecordingEffect ==
  ASSUME FlightsOK, NEW f \in Flights, NEW answer,
         flight' = [flight EXCEPT ![f].pc = "record", ![f].answer = answer]
  PROVE  Same(f) /\ flight'[f].pc = "record" /\ flight'[f].answer = answer
<1>1. flight'[f] = [flight[f] EXCEPT !.pc = "record", !.answer = answer] /\ flight[f] \in Flight
  BY DEF FlightsOK
<1>2. flight'[f].pc = "record" /\ flight'[f].answer = answer
  BY <1>1 DEF Flight
<1>3. Same(f)
  BY DEF FlightsOK, Same
<1> QED BY <1>2, <1>3

LEMMA ReplyLostEffect ==
  ASSUME FlightsOK, NEW f \in Flights, ReplyLost(f)
  PROVE  /\ Same(f) /\ flight[f].pc = "send"
         /\ flight'[f].pc = "record" /\ flight'[f].answer = "other"
<1>1. flight' = [flight EXCEPT ![f].pc = "record", ![f].answer = "other"]
  BY DEF ReplyLost
<1> QED BY <1>1, RecordingEffect DEF ReplyLost

LEMMA RefuseEffect ==
  ASSUME FlightsOK, NEW f \in Flights, Refuse(f)
  PROVE  /\ Same(f) /\ flight[f].pc = "send" /\ flight'[f].pc = "record"
         /\ flight'[f].answer = "invalid" => flight[f].snap.ref # valid
<1>1. PICK answer \in Answers(flight[f].snap.ref) :
        flight' = [flight EXCEPT ![f].pc = "record", ![f].answer = answer]
  BY DEF Refuse
<1>2. answer = "invalid" => flight[f].snap.ref # valid
  BY <1>1 DEF Answers
<1> QED BY <1>1, <1>2, RecordingEffect DEF Refuse

LEMMA MarkGetEffect ==
  ASSUME FlightsOK, NEW f \in Flights, MarkGet(f)
  PROVE  Same(f) /\ flight'[f].pc = "markSave" /\ flight'[f].snap = row
<1>1. flight'[f] = [flight[f] EXCEPT !.pc = "markSave", !.snap = row] /\ flight[f] \in Flight
  BY DEF MarkGet, FlightsOK
<1>2. flight'[f].pc = "markSave" /\ flight'[f].snap = row
  BY <1>1 DEF Flight
<1>3. Same(f)
  BY DEF MarkGet, FlightsOK, Same
<1> QED BY <1>2, <1>3

(* A copy of the row that becomes due keeps its tokens and its phase.      *)
LEMMA BecomeDueEffect ==
  ASSUME FlightsOK, RestOK, BecomeDue
  PROVE  /\ row'.ref = row.ref /\ row'.acc = row.acc /\ row'.perm = row.perm
         /\ \A w \in Writers : /\ (writer'[w] = None) <=> (writer[w] = None)
                               /\ writer[w] # None => writer'[w].ref = writer[w].ref
         /\ \A f \in Flights :
              \/ flight'[f] = flight[f]
              \/ /\ flight[f].pc = "markSave" /\ flight'[f].pc = "markSave"
                 /\ flight'[f].snap.ref = flight[f].snap.ref
<1>1. ASSUME NEW value \in Row
      PROVE  /\ DueNow(value).ref = value.ref /\ DueNow(value).acc = value.acc
             /\ DueNow(value).perm = value.perm /\ DueNow(value) # None
  <2>1. DueNow(value) # None
    BY DueTyped, NoneFacts
  <2> QED BY <2>1 DEF DueNow, Row
<1>2. row \in Row /\ row' = DueNow(row)
  BY DEF RestOK, BecomeDue
<1>3. ASSUME NEW w \in Writers
      PROVE  /\ (writer'[w] = None) <=> (writer[w] = None)
             /\ writer[w] # None => writer'[w].ref = writer[w].ref
  BY <1>1 DEF BecomeDue, RestOK
<1>4. ASSUME NEW f \in Flights, flight[f].pc = "markSave"
      PROVE  flight'[f].pc = "markSave" /\ flight'[f].snap.ref = flight[f].snap.ref
  <2>1. flight[f] \in Flight /\ flight[f].snap \in Row
    BY <1>4 DEF FlightsOK, Sound
  <2>2. flight'[f] = [flight[f] EXCEPT !.snap = DueNow(flight[f].snap)]
    BY <1>4 DEF BecomeDue
  <2>3. flight'[f].pc = "markSave" /\ flight'[f].snap = DueNow(flight[f].snap)
    BY <1>4, <2>1, <2>2 DEF Flight
  <2> QED BY <1>1, <2>1, <2>3
<1>5. \A f \in Flights : flight[f].pc # "markSave" => flight'[f] = flight[f]
  BY DEF BecomeDue
<1> QED BY <1>1, <1>2, <1>3, <1>4, <1>5

LEMMA CrashEffect ==
  ASSUME FlightsOK, NEW i \in Instances, Crash(i)
  PROVE  /\ \A f \in Flights : IF f[1] = i THEN flight'[f].pc = "idle" ELSE flight'[f] = flight[f]
         /\ \A f \in Flights : f[1] # i /\ lock = f => lock' = f
  BY DEF Crash, Idle

-----------------------------------------------------------------------------
(* The lock.                                                               *)

Exclusive(f) == flight[f].pc \in {"send", "save", "record"}

LEMMA LockStep ==
  ASSUME TypeOK, OneRefreshAtATime, [Next]_vars
  PROVE  OneRefreshAtATime'
<1> SUFFICES ASSUME ~lapsed', NEW g \in Flights, Exclusive(g)'
             PROVE  lock' = g
  BY DEF OneRefreshAtATime, Exclusive
<1>0. /\ RestOK /\ FlightsOK /\ None \notin Flights /\ Orphan \notin Flights
  BY Typed, CredentialAssumption
<1>a. ASSUME ~lapsed, NEW h \in Flights, Exclusive(h) PROVE lock = h
  BY <1>a DEF OneRefreshAtATime, Exclusive
<1>1. ASSUME NEW f \in Flights, Call(f) \/ Proceed(f) PROVE lock' = g
  <2>0. ~lapsed
    BY <1>1 DEF Call, Proceed, Lock, GiveUp, Exchange, ReplyLost, Refuse, Save, SaveFails, Record,
       RecordFails, MarkGet, MarkSave, MarkFails, history
  <2>1. CASE Call(f) \/ MarkGet(f)
    <3>1. Exclusive(g) /\ lock' = lock
      BY <1>0, <2>1, CallEffect, MarkGetEffect DEF Call, MarkGet, Exclusive, Same
    <3> QED BY <1>a, <2>0, <3>1
  <2>2. CASE Lock(f)
    BY <1>0, <1>a, <2>0, <2>2, LockEffect DEF Exclusive, Same
  <2>3. CASE GiveUp(f) \/ Save(f) \/ SaveFails(f) \/ MarkSave(f) \/ MarkFails(f)
    <3>1. End(f)
      BY <2>3 DEF GiveUp, Save, SaveFails, MarkSave, MarkFails
    <3> QED BY <1>0, <1>a, <2>0, <3>1, EndEffect DEF Exclusive, Same
  <2>4. CASE Exchange(f) \/ ReplyLost(f) \/ Refuse(f)
    <3>1. Exclusive(g) /\ lock' = lock
      BY <1>0, <2>4, ExchangeEffect, ReplyLostEffect, RefuseEffect
      DEF Exchange, ReplyLost, Refuse, Exclusive, Same
    <3> QED BY <1>a, <2>0, <3>1
  <2>5. CASE Record(f) \/ RecordFails(f)
    <3>1. Conclude(f)
      BY <2>5 DEF Record, RecordFails
    <3> QED BY <1>0, <1>a, <2>0, <3>1, ConcludeEffect DEF Exclusive, Same
  <2> QED BY <1>1, <2>1, <2>2, <2>3, <2>4, <2>5 DEF Proceed
<1>2. ASSUME NEW w \in Writers, WriterGet(w) \/ WriterSave(w) PROVE lock' = g
  BY <1>2, <1>a DEF WriterGet, WriterSave, Exclusive, history
<1>3. CASE Import \/ Backfill \/ Age \/ Cool \/ Revoke
  BY <1>3, <1>a DEF Import, Backfill, Age, Cool, Revoke, Exclusive, history
<1>4. CASE BecomeDue
  <2>1. Exclusive(g) /\ lock' = lock /\ ~lapsed
    BY <1>0, <1>4, BecomeDueEffect DEF Exclusive, BecomeDue, history
  <2> QED BY <1>a, <2>1
<1>5. CASE LeaseEnds
  <2>1. lock = Orphan /\ ~lapsed /\ Exclusive(g)
    BY <1>5 DEF LeaseEnds, Exclusive, history
  <2> QED BY <1>0, <1>a, <2>1
<1>8. CASE ReleaseLost
  <2>1. lock = None /\ ~lapsed /\ Exclusive(g)
    BY <1>8 DEF ReleaseLost, Exclusive, history
  <2> QED BY <1>0, <1>a, <2>1
<1>6. ASSUME NEW i \in Instances, Crash(i) PROVE lock' = g
  <2>1. ~lapsed /\ g[1] # i /\ Exclusive(g)
    BY <1>0, <1>6, CrashEffect DEF Crash, Exclusive
  <2> QED BY <1>0, <1>6, <1>a, <2>1, CrashEffect
<1>7. CASE UNCHANGED vars
  BY <1>7, <1>a DEF vars, Exclusive
<1> QED BY <1>1, <1>2, <1>3, <1>4, <1>5, <1>6, <1>7, <1>8 DEF Next, Environment

(* Two flights are never exclusive at once.                                *)
LEMMA Alone ==
  ASSUME OneRefreshAtATime, ~lapsed, NEW f \in Flights, NEW g \in Flights,
         Exclusive(f), Exclusive(g)
  PROVE  f = g
  BY DEF OneRefreshAtATime, Exclusive

-----------------------------------------------------------------------------
(* The order of issue.                                                     *)

LEMMA IssuedStep ==
  ASSUME TypeOK, Issued, [Next]_vars
  PROVE  Issued'
<1>0. /\ RestOK /\ FlightsOK /\ RestOK' /\ FlightsOK'
  BY Typed, StepTyped DEF TypeOK, RestOK, FlightsOK, Sound
<1>b. /\ issued \in Nat /\ row.ref \in Nat /\ row \in Row
      /\ used \subseteq Nat /\ None \notin Nat \cap Tokens /\ valid \in Tokens \cup {None}
      /\ Tokens \subseteq Nat
  BY <1>0, TokenFacts, NoneFacts DEF RestOK, Row
<1>1. ASSUME NEW f \in Flights, Call(f) \/ Proceed(f) PROVE Issued'
  <2>1. CASE Call(f)
    BY <1>0, <2>1, CallEffect DEF Call, Issued, Same, providerVars, history
  <2>2. CASE Lock(f)
    BY <1>0, <2>2, LockEffect DEF Lock, Issued, Same, providerVars, history
  <2>3. CASE GiveUp(f) \/ SaveFails(f) \/ MarkFails(f)
    BY <1>0, <2>3, EndEffect DEF GiveUp, SaveFails, MarkFails, Issued, Same, providerVars, history
  <2>4. CASE Save(f)
    <3>1. row'.ref = flight[f].got.ref /\ flight[f].pc = "save" /\ End(f)
      BY <2>4 DEF Save
    <3> QED BY <1>0, <2>4, <3>1, EndEffect DEF Save, Issued, Same, providerVars, history
  <2>5. CASE MarkSave(f)
    <3>1. row'.ref = flight[f].snap.ref /\ flight[f].pc = "markSave" /\ End(f)
      BY <1>0, <2>5 DEF MarkSave, Reauth, FlightsOK, Sound, Row
    <3> QED BY <1>0, <2>5, <3>1, EndEffect DEF MarkSave, Issued, Same, providerVars
  <2>6. CASE Exchange(f)
    <3>1. flight[f].snap.ref <= issued /\ flight[f].snap.ref \in Nat
      BY <1>0, <1>b, <2>6 DEF Exchange, Issued, FlightsOK, Sound, Held
    <3>2. /\ row'.ref <= issued' /\ (valid' # None => valid' <= issued')
          /\ \A token \in used' : token <= issued'
      <4>1. row' = row /\ issued' = issued + 1
        BY <2>6 DEF Exchange
      <4>2. valid' = issued + 1 \/ valid' = valid
        BY <1>0, <2>6, ExchangeEffect
      <4>3. used' \subseteq used \cup {flight[f].snap.ref}
        BY <1>0, <2>6, ExchangeEffect
      <4> QED BY <1>b, <3>1, <4>1, <4>2, <4>3 DEF Issued
    <3>3. \A w \in Writers : writer'[w] # None => writer'[w].ref <= issued'
      <4>1. writer' = writer /\ issued' = issued + 1
        BY <2>6 DEF Exchange
      <4>2. \A w \in Writers : writer[w] # None => writer[w].ref \in Nat
        BY <1>0, <1>b DEF RestOK, Row
      <4> QED BY <1>b, <4>1, <4>2 DEF Issued
    <3>4. ASSUME NEW g \in Flights
          PROVE  /\ flight'[g].pc \in {"send", "markSave"} => flight'[g].snap.ref <= issued'
                 /\ flight'[g].pc = "save" => flight'[g].got.ref <= issued'
      <4>1. CASE g = f
        BY <1>0, <1>b, <2>6, <3>1, <4>1, ExchangeEffect
      <4>2. CASE g # f
        <5>1. flight'[g] = flight[g] /\ issued' = issued + 1
          BY <1>0, <2>6, <4>2, ExchangeEffect DEF Same
        <5>2. /\ flight[g].pc \in {"send", "markSave"} => flight[g].snap.ref \in Nat
              /\ flight[g].pc = "save" => flight[g].got.ref \in Nat
          BY <1>0, <1>b DEF FlightsOK, Sound, Flight, Held, Row, Pair
        <5> QED BY <1>b, <5>1, <5>2 DEF Issued
      <4> QED BY <4>1, <4>2
    <3> QED BY <3>2, <3>3, <3>4 DEF Issued
  <2>7. CASE ReplyLost(f)
    <3>1. flight[f].snap.ref <= issued /\ flight[f].snap.ref \in Nat /\ issued' = issued + 1
      BY <1>0, <1>b, <2>7 DEF ReplyLost, Issued, FlightsOK, Sound, Held
    <3>2. /\ row'.ref <= issued' /\ (valid' # None => valid' <= issued')
          /\ \A token \in used' : token <= issued'
      BY <1>0, <1>b, <2>7, <3>1 DEF ReplyLost, Issued
    <3>3. \A w \in Writers : writer'[w] # None => writer'[w].ref <= issued'
      BY <1>0, <1>b, <2>7, <3>1 DEF ReplyLost, Issued, RestOK, Row
    <3>4. ASSUME NEW g \in Flights
          PROVE  /\ flight'[g].pc \in {"send", "markSave"} => flight'[g].snap.ref <= issued'
                 /\ flight'[g].pc = "save" => flight'[g].got.ref <= issued'
      <4>1. CASE g = f
        BY <1>0, <2>7, <4>1, ReplyLostEffect, RefuseEffect
      <4>2. CASE g # f
        <5>1. flight'[g] = flight[g]
          BY <1>0, <2>7, <4>2, ReplyLostEffect, RefuseEffect DEF Same
        <5>2. /\ flight[g].pc \in {"send", "markSave"} => flight[g].snap.ref \in Nat
              /\ flight[g].pc = "save" => flight[g].got.ref \in Nat
          BY <1>0, <1>b DEF FlightsOK, Sound, Flight, Held, Row, Pair
        <5> QED BY <1>b, <3>1, <5>1, <5>2 DEF Issued
      <4> QED BY <4>1, <4>2
    <3> QED BY <3>2, <3>3, <3>4 DEF Issued
  <2>8. CASE Refuse(f)
    BY <1>0, <2>8, ReplyLostEffect, RefuseEffect DEF Refuse, Issued, Same, providerVars, history
  <2>9. CASE Record(f) \/ RecordFails(f)
    <3>1. row'.ref = row.ref /\ Conclude(f)
      BY <1>b, <2>9 DEF Record, RecordFails, Row
    <3> QED BY <1>0, <2>9, <3>1, ConcludeEffect
        DEF Record, RecordFails, Issued, Same, providerVars, history
  <2>10. CASE MarkGet(f)
    BY <1>0, <2>10, MarkGetEffect DEF MarkGet, Issued, Same, providerVars, history
  <2> QED BY <1>1, <2>1, <2>2, <2>3, <2>4, <2>5, <2>6, <2>7, <2>8, <2>9, <2>10 DEF Proceed
<1>2. ASSUME NEW w \in Writers, WriterGet(w) PROVE Issued'
  BY <1>0, <1>2 DEF WriterGet, Issued, RestOK, providerVars, history
<1>3. ASSUME NEW w \in Writers, WriterSave(w) PROVE Issued'
  <2>1. row'.ref = writer[w].ref /\ writer[w] # None
    BY <1>0, <1>3 DEF WriterSave, Reauth, RestOK, Row
  <2> QED BY <1>0, <1>3, <2>1 DEF WriterSave, Issued, RestOK, providerVars
<1>4. CASE Import
  <2>1. issued' = issued + 1 /\ valid' = issued + 1 /\ row'.ref = issued + 1
    BY <1>4 DEF Import
  <2>2. ASSUME NEW g \in Flights
        PROVE  /\ flight[g].pc \in {"send", "markSave"} => flight[g].snap.ref \in Nat
               /\ flight[g].pc = "save" => flight[g].got.ref \in Nat
    BY <1>0, <1>b DEF FlightsOK, Sound, Flight, Held, Row, Pair
  <2>3. \A w \in Writers : writer[w] # None => writer[w].ref \in Nat
    BY <1>0, <1>b DEF RestOK, Row
  <2> QED BY <1>b, <1>4, <2>1, <2>2, <2>3 DEF Import, Issued
<1>5. CASE Backfill
  <2>1. row'.ref = row.ref
    BY <1>b, <1>5 DEF Backfill, Row
  <2> QED BY <1>5, <2>1 DEF Backfill, Issued, providerVars, history
<1>6. CASE BecomeDue
  BY <1>0, <1>6, BecomeDueEffect DEF BecomeDue, Issued, providerVars, history
<1>7. CASE Age \/ Cool \/ Revoke \/ ReleaseLost \/ LeaseEnds
  BY <1>7 DEF Age, Cool, Revoke, ReleaseLost, LeaseEnds, Issued, providerVars, history
<1>8. ASSUME NEW i \in Instances, Crash(i) PROVE Issued'
  BY <1>0, <1>8, CrashEffect DEF Crash, Issued, providerVars
<1>9. CASE UNCHANGED vars
  BY <1>9 DEF vars, Issued
<1> QED BY <1>1, <1>2, <1>3, <1>4, <1>5, <1>6, <1>7, <1>8, <1>9 DEF Next, Environment

-----------------------------------------------------------------------------
(* The tokens.                                                             *)

(* The steps that leave row, provider, history and exclusive flights be.   *)
Aside ==
  /\ row'.ref = row.ref /\ row'.perm = row.perm /\ valid' = valid /\ used' = used
  /\ lost' = lost /\ stale' = stale /\ lapsed' = lapsed
  /\ \A f \in Flights : (Exclusive(f) \/ Exclusive(f)') => flight'[f] = flight[f]

TokenInv == Tracking /\ Succession /\ NoTokenStranded /\ GoodCredentialKept

LEMMA AsideStep == ASSUME TokenInv, Aside PROVE TokenInv'
<1>0. \A f \in Flights :
        /\ flight[f].pc \in {"send", "save", "record"} => flight'[f] = flight[f]
        /\ flight'[f].pc \in {"send", "save", "record"} => flight'[f] = flight[f]
  BY DEF Aside, Exclusive
<1>1. Tracking'
  BY <1>0 DEF TokenInv, Tracking, Tracks, Undisturbed, Aside
<1>2. Succession'
  BY <1>0 DEF TokenInv, Succession, Undisturbed, Aside
<1>3. NoTokenStranded'
  BY <1>0 DEF TokenInv, NoTokenStranded, Carries, Aside
<1>4. GoodCredentialKept'
  BY DEF TokenInv, GoodCredentialKept, Aside
<1> QED BY <1>1, <1>2, <1>3, <1>4 DEF TokenInv

LEMMA Disturbed == ASSUME ~Undisturbed' PROVE TokenInv'
  BY DEF TokenInv, Undisturbed, Tracking, Succession, NoTokenStranded, GoodCredentialKept

(* A flight that is not saving leaves the lock, or never had it.           *)
LEMMA LeaveStep ==
  ASSUME TokenInv, NEW f \in Flights, flight[f].pc # "save", Same(f),
         flight'[f].pc \notin {"send", "save", "record"},
         row'.ref = row.ref, Undisturbed /\ row'.perm => row.ref # valid,
         valid' = valid, used' = used, lost' = lost, stale' = stale, lapsed' = lapsed
  PROVE  TokenInv'
<1>1. \A g \in Flights : g # f => flight'[g] = flight[g]
  BY DEF Same
<1>2. Tracking'
  BY <1>1 DEF TokenInv, Tracking, Tracks, Undisturbed
<1>3. Succession'
  BY <1>1 DEF TokenInv, Succession, Undisturbed
<1>4. NoTokenStranded'
  BY <1>1 DEF TokenInv, NoTokenStranded, Carries
<1>5. GoodCredentialKept'
  BY DEF GoodCredentialKept, Undisturbed
<1> QED BY <1>2, <1>3, <1>4, <1>5 DEF TokenInv

LEMMA LockTokens ==
  ASSUME TypeOK, OneRefreshAtATime, TokenInv, NEW f \in Flights, Lock(f)
  PROVE  TokenInv'
<1>0. /\ FlightsOK /\ None \notin Flights
      /\ row' = row /\ valid' = valid /\ used' = used
      /\ lost' = lost /\ stale' = stale /\ lapsed' = lapsed
      /\ flight[f].pc = "lock"
  BY Typed, CredentialAssumption DEF Lock, providerVars, history
<1>1. Same(f) /\ lock = None
  BY <1>0, LockEffect
<1>2. CASE flight'[f].pc \in {"idle", "mark"}
  BY <1>0, <1>1, <1>2, LeaveStep DEF TokenInv, GoodCredentialKept, Undisturbed
<1>3. CASE ~Undisturbed
  BY <1>0, <1>3, Disturbed DEF Undisturbed
<1>4. CASE flight'[f].pc = "send" /\ flight'[f].snap.ref = row.ref /\ Undisturbed
  <2>1. \A g \in Flights : ~Exclusive(g)
    BY <1>0, <1>1, <1>4 DEF OneRefreshAtATime, Exclusive, Undisturbed
  <2>2. \A g \in Flights : g # f => flight'[g] = flight[g]
    BY <1>1 DEF Same
  <2>3. Tracking'
    BY <1>0, <1>4, <2>1, <2>2 DEF Tracking, Tracks, Exclusive
  <2>4. Succession'
    BY <1>0, <1>4, <2>1, <2>2 DEF TokenInv, Succession, Exclusive, Undisturbed
  <2>5. NoTokenStranded'
    BY <1>0, <2>1, <2>2 DEF TokenInv, NoTokenStranded, Carries, Exclusive
  <2> QED BY <1>0, <2>3, <2>4, <2>5 DEF TokenInv, GoodCredentialKept
<1> QED BY <1>0, <1>2, <1>3, <1>4, LockEffect

LEMMA ExchangeTokens ==
  ASSUME TypeOK, Issued, OneRefreshAtATime, TokenInv, NEW f \in Flights, Exchange(f)
  PROVE  TokenInv'
<1>0. /\ FlightsOK /\ RestOK
      /\ row' = row /\ lost' = lost /\ stale' = stale /\ lapsed' = lapsed
  BY Typed DEF Exchange
<1>1. CASE ~Undisturbed
  BY <1>0, <1>1, Disturbed DEF Undisturbed
<1>2. CASE Undisturbed
  <2>1. /\ Same(f) /\ flight[f].pc = "send" /\ flight'[f].pc = "save"
        /\ flight'[f].got.acc = issued + 1
        /\ \/ /\ flight'[f].got.ref = issued + 1 /\ valid' = issued + 1
              /\ used' = used \cup {flight[f].snap.ref}
           \/ flight'[f].got.ref = flight[f].snap.ref /\ valid' = valid /\ used' = used
    BY <1>0, ExchangeEffect
  <2>2. \A g \in Flights : g # f => flight'[g] = flight[g] /\ ~Exclusive(g)
    BY <1>2, <2>1, Alone DEF Same, Exclusive, Undisturbed
  <2>3. flight[f].snap.ref = row.ref
    BY <1>2, <2>1 DEF TokenInv, Tracking, Tracks
  <2>4. /\ issued \in Nat /\ row.ref \in Nat /\ row.ref <= issued
        /\ used \subseteq Nat /\ \A token \in used : token <= issued
    BY <1>0, TokenFacts DEF Issued, RestOK, Row
  <2>5. Tracking'
    BY <1>0, <2>1, <2>2, <2>3 DEF Tracking, Tracks, Exclusive
  <2>6. Succession'
    <3>1. ~lost => row.ref \notin used
      BY <1>2, <2>1, <2>2 DEF TokenInv, Succession, Exclusive
    <3>2. ~lost => flight'[f].got.ref \notin used'
      BY <2>1, <2>3, <2>4, <3>1
    <3> QED BY <1>0, <2>1, <2>2, <3>2 DEF Succession, Exclusive
  <2>7. NoTokenStranded'
    <3>1. CASE flight'[f].got.ref = issued + 1 /\ valid' = issued + 1
      BY <2>1, <3>1 DEF NoTokenStranded, Carries
    <3>2. CASE valid' = valid
      BY <1>0, <2>1, <2>2, <3>2 DEF TokenInv, NoTokenStranded, Carries, Exclusive
    <3> QED BY <2>1, <3>1, <3>2
  <2>8. GoodCredentialKept'
    BY <1>0, <2>1, <2>4 DEF TokenInv, GoodCredentialKept
  <2> QED BY <2>5, <2>6, <2>7, <2>8 DEF TokenInv
<1> QED BY <1>1, <1>2

LEMMA ReplyLostTokens ==
  ASSUME TypeOK, Issued, OneRefreshAtATime, TokenInv, NEW f \in Flights, ReplyLost(f)
  PROVE  TokenInv'
<1>0. /\ FlightsOK /\ RestOK /\ row' = row /\ stale' = stale /\ lapsed' = lapsed
      /\ lost' = TRUE /\ valid' = issued + 1
  BY Typed DEF ReplyLost
<1>1. CASE ~Undisturbed
  BY <1>0, <1>1, Disturbed DEF Undisturbed
<1>2. CASE Undisturbed
  <2>1. Same(f) /\ flight[f].pc = "send" /\ flight'[f].pc = "record" /\ flight'[f].answer = "other"
    BY <1>0, ReplyLostEffect
  <2>2. \A g \in Flights : g # f => flight'[g] = flight[g] /\ ~Exclusive(g)
    BY <1>2, <2>1, Alone DEF Same, Exclusive, Undisturbed
  <2>3. issued \in Nat /\ row.ref \in Nat /\ row.ref <= issued
    BY <1>0, TokenFacts DEF Issued, RestOK, Row
  <2>4. Tracking'
    BY <2>1, <2>2 DEF Tracking, Tracks, Exclusive
  <2>5. Succession' /\ NoTokenStranded'
    BY <1>0 DEF Succession, NoTokenStranded
  <2>6. GoodCredentialKept'
    BY <1>0, <2>3 DEF GoodCredentialKept
  <2> QED BY <2>4, <2>5, <2>6 DEF TokenInv
<1> QED BY <1>1, <1>2

LEMMA RefuseTokens ==
  ASSUME TypeOK, TokenInv, NEW f \in Flights, Refuse(f)
  PROVE  TokenInv'
<1>0. /\ FlightsOK /\ row' = row /\ valid' = valid /\ used' = used
      /\ lost' = lost /\ stale' = stale /\ lapsed' = lapsed
  BY Typed DEF Refuse, providerVars, history
<1>1. /\ \A g \in Flights : g # f => flight'[g] = flight[g]
      /\ flight[f].pc = "send" /\ flight'[f].pc = "record"
      /\ flight'[f].answer = "invalid" => flight[f].snap.ref # valid
  BY <1>0, RefuseEffect DEF Same
<1>2. Tracking'
  BY <1>0, <1>1 DEF TokenInv, Tracking, Tracks, Undisturbed
<1>3. Succession'
  BY <1>0, <1>1 DEF TokenInv, Succession, Undisturbed
<1>4. NoTokenStranded'
  BY <1>0, <1>1 DEF TokenInv, NoTokenStranded, Carries
<1> QED BY <1>0, <1>2, <1>3, <1>4 DEF TokenInv, GoodCredentialKept

LEMMA SaveTokens ==
  ASSUME TypeOK, OneRefreshAtATime, TokenInv, NEW f \in Flights, Save(f)
  PROVE  TokenInv'
<1>0. /\ FlightsOK /\ valid' = valid /\ used' = used
      /\ lost' = lost /\ stale' = stale /\ lapsed' = lapsed
      /\ row'.ref = flight[f].got.ref /\ row'.perm = FALSE
      /\ flight[f].pc = "save" /\ End(f)
  BY Typed DEF Save, providerVars, history
<1>1. CASE ~Undisturbed
  BY <1>0, <1>1, Disturbed DEF Undisturbed
<1>2. CASE Undisturbed
  <2>1. \A g \in Flights : ~Exclusive(g)' /\ (Exclusive(g) => g = f)
    <3>1. Same(f) /\ flight'[f].pc = "idle"
      BY <1>0, EndEffect
    <3>2. \A g \in Flights : Exclusive(g) => g = f
      BY <1>0, <1>2, Alone DEF Exclusive, Undisturbed
    <3> QED BY <3>1, <3>2 DEF Same, Exclusive
  <2>2. Tracking'
    BY <2>1 DEF Tracking, Tracks, Exclusive
  <2>3. Succession'
    BY <1>0, <1>2, <2>1 DEF TokenInv, Succession, Exclusive
  <2>4. NoTokenStranded'
    <3>1. valid # None /\ ~lost => valid = row.ref \/ valid = flight[f].got.ref
      BY <1>2, <2>1 DEF TokenInv, NoTokenStranded, Carries, Exclusive, Undisturbed
    <3>2. \/ flight[f].got.ref = row.ref
          \/ valid \in {flight[f].got.ref, None}
      BY <1>0, <1>2 DEF TokenInv, Tracking, Tracks
    <3> QED BY <1>0, <3>1, <3>2 DEF NoTokenStranded
  <2> QED BY <1>0, <2>2, <2>3, <2>4 DEF TokenInv, GoodCredentialKept
<1> QED BY <1>1, <1>2

(* Flights that end with nothing to store that the row lacks, unless the   *)
(* loss is noted.                                                          *)
LEMMA DropStep ==
  ASSUME TokenInv, row' = row, valid' = valid, used' = used, stale' = stale, lapsed' = lapsed,
         \A g \in Flights : flight'[g] = flight[g] \/ flight'[g].pc = "idle",
         lost => lost',
         ~lost' => \A g \in Flights : flight'[g] # flight[g] => ~Replacing(g)
  PROVE  TokenInv'
<1>1. CASE ~Undisturbed
  BY <1>1, Disturbed DEF Undisturbed
<1>2. CASE Undisturbed
  <2>1. Tracking'
    BY <1>2 DEF TokenInv, Tracking, Tracks
  <2>2. ASSUME ~lost', NEW g \in Flights, flight'[g] # flight[g], flight[g].pc = "save"
        PROVE  flight[g].got.ref = row.ref
    BY <1>2, <2>2 DEF TokenInv, Tracking, Tracks, Replacing
  <2>3. Succession'
    <3> SUFFICES ASSUME ~lost', Undisturbed'
                 PROVE  /\ \A g \in Flights : flight'[g].pc = "save" => flight'[g].got.ref \notin used
                        /\ row.ref \in used => \E g \in Flights : flight'[g].pc = "save"
      BY DEF Succession
    <3>1. /\ \A g \in Flights : flight[g].pc = "save" => flight[g].got.ref \notin used
          /\ row.ref \in used => \E g \in Flights : flight[g].pc = "save"
      BY <1>2 DEF TokenInv, Succession
    <3> QED BY <2>2, <3>1
  <2>4. NoTokenStranded'
    BY <1>2, <2>2 DEF TokenInv, NoTokenStranded, Carries, Undisturbed
  <2> QED BY <2>1, <2>3, <2>4 DEF TokenInv, GoodCredentialKept
<1> QED BY <1>1, <1>2

LEMMA RecordTokens ==
  ASSUME TypeOK, TokenInv, NEW f \in Flights, Record(f) \/ RecordFails(f)
  PROVE  TokenInv'
<1>0. /\ FlightsOK /\ row \in Row /\ Conclude(f) /\ flight[f].pc = "record"
      /\ valid' = valid /\ used' = used /\ lost' = lost /\ stale' = stale /\ lapsed' = lapsed
  BY Typed DEF Record, RecordFails, RestOK, providerVars, history
<1>1. flight'[f].pc \in {"idle", "mark"} /\ Same(f)
  BY <1>0, ConcludeEffect
<1>2. CASE Record(f)
  <2>1. row'.ref = row.ref /\ row'.perm = Refused(f)
    BY <1>0, <1>2 DEF Record, Row
  <2>2. Undisturbed /\ row'.perm => row.ref # valid
    BY <1>0, <2>1 DEF TokenInv, Tracking, Tracks, Refused
  <2> QED BY <1>0, <1>1, <2>1, <2>2, LeaveStep
<1>3. CASE RecordFails(f)
  <2>1. row' = row
    BY <1>3 DEF RecordFails
  <2>2. Undisturbed /\ row'.perm => row.ref # valid
    BY <2>1 DEF TokenInv, GoodCredentialKept, Undisturbed
  <2> QED BY <1>0, <1>1, <2>1, <2>2, LeaveStep
<1> QED BY <1>2, <1>3

LEMMA MarkSaveTokens ==
  ASSUME TypeOK, TokenInv, NEW f \in Flights, MarkSave(f)
  PROVE  TokenInv'
<1>0. /\ FlightsOK /\ RestOK /\ flight[f].pc = "markSave" /\ flight[f].snap \in Row /\ End(f)
      /\ valid' = valid /\ used' = used /\ lost' = lost /\ lapsed' = lapsed
      /\ row' = Reauth(flight[f].snap) /\ stale' = (stale \/ Older(flight[f].snap))
  BY Typed DEF MarkSave, FlightsOK, Sound, providerVars
<1>1. CASE Older(flight[f].snap)
  BY <1>0, <1>1, Disturbed DEF Undisturbed
<1>2. CASE ~Older(flight[f].snap)
  <2>1. row'.ref = row.ref /\ row'.perm = row.perm
    BY <1>0, <1>2 DEF Reauth, Older, Row
  <2>2. stale' = stale
    <3>1. Older(flight[f].snap) = FALSE
      BY <1>2 DEF Older
    <3> QED BY <1>0, <3>1 DEF RestOK
  <2>3. flight'[f].pc = "idle" /\ Same(f)
    BY <1>0, EndEffect
  <2>4. Undisturbed /\ row'.perm => row.ref # valid
    BY <2>1 DEF TokenInv, GoodCredentialKept, Undisturbed
  <2> QED BY <1>0, <2>1, <2>2, <2>3, <2>4, LeaveStep
<1> QED BY <1>1, <1>2

LEMMA WriterTokens ==
  ASSUME TypeOK, TokenInv, NEW w \in Writers, WriterGet(w) \/ WriterSave(w)
  PROVE  TokenInv'
<1>1. CASE WriterGet(w)
  BY <1>1, AsideStep DEF WriterGet, Aside, providerVars, history
<1>2. CASE WriterSave(w)
  <2>0. /\ RestOK /\ writer[w] \in Row /\ row' \in {writer[w], Reauth(writer[w])}
        /\ stale' = (stale \/ Older(writer[w])) /\ flight' = flight
        /\ valid' = valid /\ used' = used /\ lost' = lost /\ lapsed' = lapsed
    BY <1>2, Typed DEF WriterSave, RestOK, providerVars
  <2>1. CASE Older(writer[w])
    BY <2>0, <2>1, Disturbed DEF Undisturbed
  <2>2. CASE ~Older(writer[w])
    <3>1. row'.ref = row.ref /\ row'.perm = row.perm
      BY <2>0, <2>2 DEF Reauth, Older, Row
    <3>2. stale' = stale
      <4>1. Older(writer[w]) = FALSE
        BY <2>2 DEF Older
      <4> QED BY <2>0, <4>1 DEF RestOK
    <3> QED BY <2>0, <3>1, <3>2, AsideStep DEF Aside
  <2> QED BY <2>1, <2>2
<1> QED BY <1>1, <1>2

LEMMA ImportTokens ==
  ASSUME TypeOK, Issued, TokenInv, Import
  PROVE  TokenInv'
<1>1. CASE Exchanging # {}
  <2>1. stale' = TRUE
    BY <1>1, Zenon DEF Import
  <2> QED BY <2>1, Disturbed DEF Undisturbed
<1>2. CASE Exchanging = {}
  <2>0. /\ issued \in Nat /\ used \subseteq Nat /\ \A token \in used : token <= issued
    BY Typed, TokenFacts DEF RestOK, Issued
  <2>1. /\ stale' = stale /\ used' = used /\ lost' = lost /\ lapsed' = lapsed /\ flight' = flight
        /\ valid' = issued + 1 /\ row'.ref = issued + 1 /\ row'.perm = FALSE
    BY <1>2 DEF Import
  <2>2. \A f \in Flights : flight'[f].pc \notin {"send", "save", "record"}
    BY <1>2, <2>1 DEF Exchanging
  <2>3. Tracking'
    BY <2>2 DEF Tracking, Tracks
  <2>4. row'.ref \notin used'
    BY <2>0, <2>1
  <2>5. Succession'
    BY <2>2, <2>4 DEF Succession
  <2> QED BY <2>1, <2>3, <2>5 DEF TokenInv, NoTokenStranded, GoodCredentialKept
<1> QED BY <1>1, <1>2

LEMMA RevokeTokens ==
  ASSUME TypeOK, TokenInv, Revoke
  PROVE  TokenInv'
<1>0. /\ valid' = None /\ row' = row /\ flight' = flight /\ used' = used
      /\ lost' = lost /\ stale' = stale /\ lapsed' = lapsed /\ row.ref # None
  BY Typed, NoneFacts DEF Revoke, RestOK, Row, history
<1>1. Tracking'
  BY <1>0 DEF TokenInv, Tracking, Tracks, Undisturbed
<1>2. Succession' /\ NoTokenStranded' /\ GoodCredentialKept'
  BY <1>0 DEF TokenInv, Succession, NoTokenStranded, GoodCredentialKept, Undisturbed
<1> QED BY <1>1, <1>2 DEF TokenInv

LEMMA TokensStep ==
  ASSUME TypeOK, Issued, OneRefreshAtATime, TokenInv, [Next]_vars
  PROVE  TokenInv'
<1>0. RestOK /\ FlightsOK
  BY Typed
<1>1. ASSUME NEW f \in Flights, Call(f) PROVE TokenInv'
  <2>1. flight'[f].pc \in {"lock", "mark"} /\ Same(f) /\ flight[f].pc # "save"
    BY <1>0, <1>1, CallEffect DEF Call, Idle
  <2> QED BY <1>1, <2>1, LeaveStep
      DEF Call, TokenInv, GoodCredentialKept, Undisturbed, providerVars, history
<1>2. ASSUME NEW f \in Flights, Proceed(f) PROVE TokenInv'
  <2>1. CASE GiveUp(f) \/ MarkFails(f)
    <3>1. flight'[f].pc = "idle" /\ Same(f) /\ flight[f].pc # "save"
      BY <1>0, <2>1, EndEffect DEF GiveUp, MarkFails
    <3> QED BY <2>1, <3>1, LeaveStep
        DEF GiveUp, MarkFails, TokenInv, GoodCredentialKept, Undisturbed, providerVars, history
  <2>2. CASE SaveFails(f)
    <3>1. flight'[f].pc = "idle" /\ Same(f) /\ lost' = (lost \/ Replacing(f))
      BY <1>0, <2>2, EndEffect DEF SaveFails
    <3>2. /\ \A g \in Flights : flight'[g] = flight[g] \/ flight'[g].pc = "idle"
          /\ \A g \in Flights : flight'[g] # flight[g] => g = f
      BY <3>1 DEF Same
    <3> QED BY <2>2, <3>1, <3>2, DropStep DEF SaveFails, providerVars
  <2>3. CASE MarkGet(f)
    <3>1. flight'[f].pc = "markSave" /\ Same(f) /\ flight[f].pc # "save"
      BY <1>0, <2>3, MarkGetEffect DEF MarkGet
    <3> QED BY <2>3, <3>1, LeaveStep
        DEF MarkGet, TokenInv, GoodCredentialKept, Undisturbed, providerVars, history
  <2> QED BY <1>2, <2>1, <2>2, <2>3, LockTokens, ExchangeTokens, ReplyLostTokens, RefuseTokens,
          SaveTokens, RecordTokens, MarkSaveTokens DEF Proceed
<1>3. CASE Backfill
  <2>1. row'.ref = row.ref /\ row'.perm = row.perm
    BY <1>0, <1>3 DEF Backfill, RestOK, Row
  <2> QED BY <1>3, <2>1, AsideStep DEF Backfill, Aside, providerVars, history
<1>4. CASE BecomeDue
  <2>1. Aside
    BY <1>0, <1>4, BecomeDueEffect DEF BecomeDue, Aside, Exclusive, providerVars, history
  <2> QED BY <2>1, AsideStep
<1>5. CASE Age \/ Cool \/ ReleaseLost
  BY <1>5, AsideStep DEF Age, Cool, ReleaseLost, Aside, providerVars, history
<1>6. CASE LeaseEnds
  <2>1. CASE lock = Orphan
    BY <1>6, <2>1, AsideStep DEF LeaseEnds, Aside, providerVars
  <2>2. CASE lock # Orphan
    BY <1>6, <2>2, Disturbed DEF LeaseEnds, Undisturbed
  <2> QED BY <2>1, <2>2
<1>7. ASSUME NEW i \in Instances, Crash(i) PROVE TokenInv'
  <2> DEFINE own == {f \in Flights : f[1] = i}
  <2>1. lost' = (lost \/ \E f \in own : Replacing(f))
    BY <1>7 DEF Crash
  <2>2. ASSUME NEW g \in Flights
        PROVE  flight'[g] = flight[g] \/ (flight'[g].pc = "idle" /\ g \in own)
    <3>1. IF g[1] = i THEN flight'[g].pc = "idle" ELSE flight'[g] = flight[g]
      BY <1>0, <1>7, CrashEffect
    <3> QED BY <3>1
  <2> QED BY <1>7, <2>1, <2>2, DropStep DEF Crash, providerVars
<1>8. CASE UNCHANGED vars
  BY <1>8, AsideStep DEF vars, Aside
<1> QED BY <1>1, <1>2, <1>3, <1>4, <1>5, <1>6, <1>7, <1>8, WriterTokens, ImportTokens,
        RevokeTokens DEF Next, Environment

-----------------------------------------------------------------------------
(* The theorems.                                                           *)

LEMMA InitInv == Init => CredentialInv
<1> SUFFICES ASSUME Init PROVE CredentialInv
  OBVIOUS
<1>1. TypeOK
  BY InitTyped
<1>2. \A f \in Flights : flight[f].pc = "idle"
  BY DEF Init, Idle
<1>3. Issued
  BY <1>2 DEF Init, Issued
<1> QED BY <1>1, <1>2, <1>3
    DEF Init, CredentialInv, OneRefreshAtATime, Tracking, Tracks, Succession, NoTokenStranded,
        GoodCredentialKept

LEMMA InvStep == CredentialInv /\ [Next]_vars => CredentialInv'
<1> SUFFICES ASSUME CredentialInv, [Next]_vars PROVE CredentialInv'
  OBVIOUS
<1>1. TypeOK' /\ Issued' /\ OneRefreshAtATime'
  BY StepTyped, IssuedStep, LockStep DEF CredentialInv
<1>2. TokenInv'
  BY TokensStep DEF CredentialInv, TokenInv
<1> QED BY <1>1, <1>2 DEF CredentialInv, TokenInv

(* The inductive invariant: the token of the row, those in the hands of    *)
(* flights and the one the provider accepts agree under the lock.          *)
THEOREM CredentialSafe == Spec => []CredentialInv
  BY InitInv, InvStep, PTL DEF Spec

(* ensureCredential: while no lease ends too early, only the holder of the *)
(* lock reads the row to exchange, exchanges or writes the outcome.        *)
THEOREM OneRefreshSafe == Spec => []OneRefreshAtATime
<1>1. CredentialInv => OneRefreshAtATime
  BY DEF CredentialInv
<1> QED BY <1>1, CredentialSafe, PTL

(* A flight that presents a token holds the lock, so no successor of the   *)
(* token is on its way to the row: a replaced token is not presented.      *)
THEOREM PresentedOnceSafe == Spec => []PresentedOnce
<1>1. CredentialInv => PresentedOnce
  <2> SUFFICES ASSUME CredentialInv, ~lost, ~stale, ~lapsed, NEW f \in Flights,
                      flight[f].pc = "send", flight[f].snap.ref \in used
               PROVE  FALSE
    BY DEF PresentedOnce
  <2>1. flight[f].snap.ref = row.ref
    BY DEF CredentialInv, Tracking, Tracks, Undisturbed
  <2>2. PICK g \in Flights : flight[g].pc = "save"
    BY <2>1 DEF CredentialInv, Succession, Undisturbed
  <2>3. g = f
    BY <2>2, Alone DEF CredentialInv, Exclusive
  <2> QED BY <2>2, <2>3
<1> QED BY <1>1, CredentialSafe, PTL

(* The accepted refresh token is in the row or about to be stored, unless  *)
(* its replacement was lost or the writers without a lock interfered.      *)
THEOREM NoTokenStrandedSafe == Spec => []NoTokenStranded
<1>1. CredentialInv => NoTokenStranded
  BY DEF CredentialInv
<1> QED BY <1>1, CredentialSafe, PTL

(* Only a refused token is marked as refused for good.                     *)
THEOREM GoodCredentialSafe == Spec => []GoodCredentialKept
<1>1. CredentialInv => GoodCredentialKept
  BY DEF CredentialInv
<1> QED BY <1>1, CredentialSafe, PTL

-----------------------------------------------------------------------------
(* The lock is given back.                                                 *)

Working(f) == flight[f].pc \in {"send", "save", "record", "mark", "markSave"}

(* Whoever holds the lock works: a flight that has ended, or that waits    *)
(* itself, holds no lock.                                                  *)
LockReturned == lock \in Flights => Working(lock)

LEMMA ReturnedStep ==
  ASSUME TypeOK, LockReturned, [Next]_vars
  PROVE  LockReturned'
<1> SUFFICES ASSUME NEW g \in Flights, lock' = g PROVE Working(g)'
  BY DEF LockReturned, Working
<1>0. /\ RestOK /\ FlightsOK /\ None \notin Flights /\ Orphan \notin Flights
  BY Typed, CredentialAssumption
<1>a. lock = g => Working(g)
  BY DEF LockReturned
<1>1. ASSUME NEW f \in Flights, Call(f) \/ Proceed(f) PROVE Working(g)'
  <2>1. CASE Call(f)
    <3>1. lock = g /\ flight[f].pc = "idle"
      BY <2>1 DEF Call, Idle
    <3>2. f # g
      BY <1>a, <3>1 DEF Working
    <3> QED BY <1>0, <1>a, <2>1, <3>1, <3>2, CallEffect DEF Working, Same
  <2>2. CASE Lock(f)
    BY <1>0, <2>2, LockEffect DEF Working
  <2>3. CASE End(f)
    <3>1. lock = g /\ f # g
      BY <1>0, <2>3, EndEffect
    <3> QED BY <1>0, <1>a, <2>3, <3>1, EndEffect DEF Working, Same
  <2>4. CASE Exchange(f) \/ ReplyLost(f) \/ Refuse(f)
    <3>1. lock' = lock
      BY <2>4 DEF Exchange, ReplyLost, Refuse
    <3>2. flight'[f].pc \in {"save", "record"} /\ Same(f)
      BY <1>0, <2>4, ExchangeEffect, ReplyLostEffect, RefuseEffect
    <3> QED BY <1>a, <3>1, <3>2 DEF Working, Same
  <2>5. CASE flight' = ToMark(f) /\ UNCHANGED lock
    <3>1. flight'[f].pc = "mark" /\ Same(f)
      BY <1>0, <2>5 DEF ToMark, FlightsOK, Same, Idle
    <3> QED BY <1>a, <2>5, <3>1 DEF Working, Same
  <2>6. CASE MarkGet(f)
    <3>1. lock' = lock
      BY <2>6 DEF MarkGet
    <3> QED BY <1>0, <1>a, <2>6, <3>1, MarkGetEffect DEF Working, Same
  <2> QED BY <1>1, <2>1, <2>2, <2>3, <2>4, <2>5, <2>6
      DEF Proceed, GiveUp, Save, SaveFails, Record, RecordFails, Conclude, MarkSave, MarkFails
<1>2. ASSUME NEW w \in Writers, WriterGet(w) \/ WriterSave(w) PROVE Working(g)'
  BY <1>2, <1>a DEF WriterGet, WriterSave, Working
<1>3. CASE Import \/ Backfill \/ Age \/ Cool \/ Revoke
  BY <1>3, <1>a DEF Import, Backfill, Age, Cool, Revoke, Working
<1>4. CASE BecomeDue
  <2>1. lock' = lock /\ flight'[g].pc = flight[g].pc
    BY <1>0, <1>4, BecomeDueEffect DEF BecomeDue
  <2> QED BY <1>a, <2>1 DEF Working
<1>5. CASE LeaseEnds \/ ReleaseLost
  BY <1>0, <1>5 DEF LeaseEnds, ReleaseLost
<1>6. ASSUME NEW i \in Instances, Crash(i) PROVE Working(g)'
  <2>1. lock = g /\ g[1] # i
    BY <1>0, <1>6 DEF Crash
  <2> QED BY <1>0, <1>6, <1>a, <2>1, CrashEffect DEF Working
<1>7. CASE UNCHANGED vars
  BY <1>7, <1>a DEF vars, Working
<1> QED BY <1>1, <1>2, <1>3, <1>4, <1>5, <1>6, <1>7 DEF Next, Environment

(* ensureCredential and the deferred release of its lock: whichever way a  *)
(* flight ends, by an answer, a failed read or write, the end of its       *)
(* context, or after its lease, it does not keep the lock.  What a crash   *)
(* or a lost release leaves in the store belongs to no flight, and its     *)
(* lease ends.                                                             *)
THEOREM LockIsReturned == Spec => []LockReturned
<1>1. Init => LockReturned
  BY CredentialAssumption DEF Init, LockReturned
<1>2. TypeOK /\ LockReturned /\ [Next]_vars => LockReturned'
  BY ReturnedStep
<1> QED BY <1>1, <1>2, CredentialTyped, PTL DEF Spec

(* The release compares the owner: whatever becomes of a flight, the lock  *)
(* of another one stays.  That lock goes with its own flight, with its     *)
(* process, or with its lease.                                             *)
THEOREM LockStaysSafe == Spec => LockStays
<1>1. ASSUME TypeOK, [Next]_vars, NEW g \in Flights, lock = g, lock' # g
      PROVE  flight'[g].pc = "idle" \/ LeaseEnds
  <2>0. /\ RestOK /\ FlightsOK /\ None \notin Flights /\ Orphan \notin Flights
    BY <1>1, Typed, CredentialAssumption
  <2>1. ASSUME NEW f \in Flights, Call(f) \/ Proceed(f) PROVE flight'[g].pc = "idle"
    <3>1. ~Lock(f)
      BY <1>1, <2>0, LockEffect
    <3>2. End(f)
      BY <1>1, <2>1, <3>1 DEF Call, Proceed, GiveUp, Exchange, ReplyLost, Refuse, Save, SaveFails,
         Record, RecordFails, Conclude, MarkGet, MarkSave, MarkFails
    <3> QED BY <1>1, <2>0, <3>2, EndEffect
  <2>2. ASSUME NEW i \in Instances, Crash(i) PROVE flight'[g].pc = "idle"
    <3>1. g[1] = i
      BY <1>1, <2>2 DEF Crash
    <3> QED BY <2>2, <3>1 DEF Crash, Idle
  <2>3. LeaseEnds \/ lock' = lock \/ (\E f \in Flights : Call(f) \/ Proceed(f))
          \/ (\E i \in Instances : Crash(i))
    <3>1. ~ReleaseLost
      BY <1>1, <2>0 DEF ReleaseLost
    <3> QED BY <1>1, <3>1 DEF Next, Environment, WriterGet, WriterSave, Import, Backfill,
              BecomeDue, Age, Cool, Revoke, vars
  <2> QED BY <1>1, <2>1, <2>2, <2>3
<1>2. TypeOK /\ [Next]_vars =>
        [\A f \in Flights : lock = f /\ lock' # f => flight'[f].pc = "idle" \/ LeaseEnds]_vars
  BY <1>1
<1> QED BY <1>2, CredentialTyped, PTL DEF Spec, LockStays

-----------------------------------------------------------------------------
(* A refused account stays on the schedule.                                *)

(* A refused token is due at the end of its access token or at once; only  *)
(* a row without a mark has no time yet.                                   *)
OnSchedule(value) == value.perm => value.due # "none"

(* The row, and every copy of it that may still be saved over it, keeps a  *)
(* time for the next look at a refused token.                              *)
CondemnedIsScheduled ==
  /\ OnSchedule(row)
  /\ \A f \in Flights : flight[f].pc = "markSave" => OnSchedule(flight[f].snap)
  /\ \A w \in Writers : writer[w] # None => OnSchedule(writer[w])

(* The steps that write no row and make no copy of it.                     *)
LEMMA CopiesStay ==
  ASSUME CondemnedIsScheduled, row' = row, writer' = writer,
         \A f \in Flights : flight'[f].pc = "markSave" => flight'[f] = flight[f]
  PROVE  CondemnedIsScheduled'
  BY DEF CondemnedIsScheduled, OnSchedule

(* The steps of a flight that write the row.                               *)
LEMMA RowWritten ==
  ASSUME CondemnedIsScheduled, OnSchedule(row'), NEW f \in Flights, Same(f), writer' = writer,
         flight'[f].pc # "markSave"
  PROVE  CondemnedIsScheduled'
  BY DEF CondemnedIsScheduled, OnSchedule, Same

LEMMA ScheduledStep ==
  ASSUME TypeOK, CondemnedIsScheduled, [Next]_vars
  PROVE  CondemnedIsScheduled'
<1>0. RestOK /\ FlightsOK
  BY Typed
<1>a. row \in Row
  BY <1>0 DEF RestOK
<1>b. ASSUME NEW value \in Row, OnSchedule(value)
      PROVE  OnSchedule(Reauth(value)) /\ OnSchedule(DueNow(value))
  BY <1>b DEF OnSchedule, Reauth, DueNow, Row
<1>1. ASSUME NEW f \in Flights, Call(f) \/ Proceed(f) PROVE CondemnedIsScheduled'
  <2>1. CASE Call(f) \/ Lock(f) \/ GiveUp(f) \/ Exchange(f) \/ ReplyLost(f) \/ Refuse(f)
             \/ SaveFails(f) \/ RecordFails(f) \/ MarkFails(f)
    <3>1. row' = row /\ writer' = writer
      BY <2>1 DEF Call, Lock, GiveUp, Exchange, ReplyLost, Refuse, SaveFails, RecordFails, MarkFails
    <3>2. flight'[f].pc # "markSave" /\ Same(f)
      BY <1>0, <2>1, CallEffect, LockEffect, EndEffect, ExchangeEffect, ReplyLostEffect,
         RefuseEffect, ConcludeEffect
      DEF GiveUp, SaveFails, RecordFails, MarkFails
    <3> QED BY <3>1, <3>2, CopiesStay DEF Same
  <2>2. CASE Save(f)
    <3>1. OnSchedule(row') /\ writer' = writer
      BY <2>2 DEF Save, OnSchedule
    <3> QED BY <1>0, <2>2, <3>1, RowWritten, EndEffect DEF Save
  <2>3. CASE Record(f)
    <3>1. row'.due \in {"now", "later"} /\ writer' = writer
      BY <1>a, <2>3 DEF Record, Row
    <3> QED BY <1>0, <2>3, <3>1, RowWritten, ConcludeEffect DEF Record, OnSchedule
  <2>4. CASE MarkGet(f)
    <3>1. Same(f) /\ flight'[f].snap = row /\ row' = row /\ writer' = writer
      BY <1>0, <2>4, MarkGetEffect DEF MarkGet
    <3> QED BY <3>1 DEF CondemnedIsScheduled, OnSchedule, Same
  <2>5. CASE MarkSave(f)
    <3>1. flight[f].snap \in Row /\ OnSchedule(flight[f].snap)
      BY <1>0, <2>5 DEF MarkSave, FlightsOK, Sound, CondemnedIsScheduled
    <3>2. OnSchedule(row') /\ writer' = writer
      BY <1>b, <2>5, <3>1 DEF MarkSave
    <3> QED BY <1>0, <2>5, <3>2, RowWritten, EndEffect DEF MarkSave
  <2> QED BY <1>1, <2>1, <2>2, <2>3, <2>4, <2>5 DEF Proceed
<1>2. ASSUME NEW w \in Writers, WriterGet(w) PROVE CondemnedIsScheduled'
  BY <1>0, <1>2 DEF WriterGet, CondemnedIsScheduled, OnSchedule, RestOK
<1>3. ASSUME NEW w \in Writers, WriterSave(w) PROVE CondemnedIsScheduled'
  <2>1. writer[w] \in Row /\ OnSchedule(writer[w])
    BY <1>0, <1>3 DEF WriterSave, RestOK, CondemnedIsScheduled
  <2>2. OnSchedule(row')
    BY <1>b, <1>3, <2>1 DEF WriterSave
  <2> QED BY <1>0, <1>3, <2>2 DEF WriterSave, CondemnedIsScheduled, OnSchedule, RestOK
<1>4. CASE Import \/ Backfill
  <2>1. OnSchedule(row')
    BY <1>4, <1>a DEF Import, Backfill, OnSchedule, Row
  <2> QED BY <1>4, <2>1 DEF Import, Backfill, CondemnedIsScheduled, OnSchedule
<1>5. CASE BecomeDue
  <2>1. OnSchedule(row')
    BY <1>5, <1>a, <1>b DEF BecomeDue, CondemnedIsScheduled
  <2>2. ASSUME NEW f \in Flights, flight'[f].pc = "markSave" PROVE OnSchedule(flight'[f].snap)
    <3>1. flight[f].pc = "markSave"
      BY <1>0, <1>5, <2>2, BecomeDueEffect
    <3>2. flight[f] \in Flight /\ flight[f].snap \in Row /\ OnSchedule(flight[f].snap)
      BY <1>0, <3>1 DEF FlightsOK, Sound, CondemnedIsScheduled
    <3>3. flight'[f] = [flight[f] EXCEPT !.snap = DueNow(flight[f].snap)]
      BY <1>5, <3>1 DEF BecomeDue
    <3>4. flight'[f].snap = DueNow(flight[f].snap)
      BY <3>2, <3>3 DEF Flight
    <3> QED BY <1>b, <3>2, <3>4
  <2>3. ASSUME NEW w \in Writers, writer'[w] # None PROVE OnSchedule(writer'[w])
    <3>1. writer[w] \in Row /\ OnSchedule(writer[w]) /\ writer'[w] = DueNow(writer[w])
      BY <1>0, <1>5, <2>3 DEF BecomeDue, RestOK, CondemnedIsScheduled
    <3> QED BY <1>b, <3>1
  <2> QED BY <2>1, <2>2, <2>3 DEF CondemnedIsScheduled, OnSchedule
<1>6. CASE Age \/ Cool \/ Revoke \/ ReleaseLost \/ LeaseEnds
  BY <1>6, CopiesStay DEF Age, Cool, Revoke, ReleaseLost, LeaseEnds
<1>7. ASSUME NEW i \in Instances, Crash(i) PROVE CondemnedIsScheduled'
  <2>1. row' = row /\ writer' = writer
    BY <1>7 DEF Crash
  <2> QED BY <1>0, <1>7, <2>1, CopiesStay, CrashEffect
<1>8. CASE UNCHANGED vars
  BY <1>8, CopiesStay DEF vars
<1> QED BY <1>1, <1>2, <1>3, <1>4, <1>5, <1>6, <1>7, <1>8 DEF Next, Environment

(* A mark that no login has lifted always carries the time of a next look, *)
(* even if an older copy of the row is saved over it: the scheduler cannot *)
(* lose sight of an account that must leave the pool.                      *)
THEOREM CondemnedStaysScheduled == Spec => []CondemnedIsScheduled
<1>1. Init => CondemnedIsScheduled
  BY DEF Init, Idle, CondemnedIsScheduled, OnSchedule
<1>2. TypeOK /\ CondemnedIsScheduled /\ [Next]_vars => CondemnedIsScheduled'
  BY ScheduledStep
<1> QED BY <1>1, <1>2, CredentialTyped, PTL DEF Spec
=============================================================================
