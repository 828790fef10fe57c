------------------------ MODULE AccountLeasesProofs -------------------------
(***************************************************************************)
(* Proofs about AccountLeases for every set of requests, processes,        *)
(* accounts and sessions, every limit and every number of attempts, faults *)
(* and changes.                                                            *)
(***************************************************************************)
EXTENDS AccountLeases, FiniteSetTheorems, TLAPS

-----------------------------------------------------------------------------
(* The inductive invariant.                                                *)

(* What the record of a request shows at each place: outside, nothing; on  *)
(* the plan and while it waits it holds no slot; a claim is of an account  *)
(* that is not barred, beside the slot at hand only to rebind a session;   *)
(* a binding is replaced only for a cause.                                 *)
PlacedAt(r, p, q) ==
  /\ p \in {"idle", "done"} => q = Fresh
  /\ p \notin {"idle", "done"} => q.inst \in Instances
  /\ p \in {"select", "plan"} => q.own = None /\ q.why = "plan"
  /\ p \in {"claim", "hydrate"} => /\ q.at \in Accounts \ q.barred
                                   /\ q.why # "rebind" => q.own = None
                                   /\ q.why = "rebind" => /\ q.own \in Accounts
                                                          /\ q.at # q.own
                                                          /\ q.pin = None
  /\ p \in {"missed", "wait"} => /\ q.own = None
                                 /\ q.why \in {"pin", "plan"}
                                 /\ q.why = "pin" => q.at \in Accounts \ q.barred
  /\ p \in {"bind", "set"} => q.own \in Accounts /\ KeyOf[r] # None
  /\ p = "bind" => q.pin = None
  /\ p = "set" => q.cand # Accounts \/ q.barred # {}
  /\ p = "send" => q.own \in Accounts /\ q.why = "plan"
  /\ q.why = "rebind" => KeyOf[r] # None

Placed == \A r \in Requests : PlacedAt(r, pc[r], req[r])

Within(S) == \A T \in SUBSET S : T # {} => \E l \in T : Cardinality(T) <= l.lim

SlotsFine ==
  /\ slots \in [Accounts -> SUBSET Slot]
  /\ \A a \in Accounts : IsFiniteSet(slots[a]) /\ Within(slots[a])

Accounted(r) ==
  \A a \in Accounts : IF Holds(r, a) THEN \E l \in slots[a] : HeldBy(r, a) = {l}
                                     ELSE HeldBy(r, a) = {}

IInv == TypeOK /\ Placed /\ SlotsAccounted /\ LimitKept

-----------------------------------------------------------------------------
(* Sets of slots.                                                          *)

Holders == Requests \cup Instances \cup {Leaked}

(* Slots that pass to other holders, or go, keep within their limits.      *)
LEMMA Shrinks ==
  ASSUME NEW S \in SUBSET Slot, IsFiniteSet(S), Within(S),
         NEW h \in [Holders -> Holders],
         NEW R \in SUBSET {[x EXCEPT !.by = h[x.by]] : x \in S}
  PROVE  R \in SUBSET Slot /\ IsFiniteSet(R) /\ Within(R)
<1> DEFINE Pre(T) == {x \in S : [x EXCEPT !.by = h[x.by]] \in T}
           f(T) == [x \in Pre(T) |-> [x EXCEPT !.by = h[x.by]]]
<1>1. \A x \in S : [x EXCEPT !.by = h[x.by]] \in Slot /\ [x EXCEPT !.by = h[x.by]].lim = x.lim
  BY DEF Slot, Holders
<1>2. R \in SUBSET Slot
  BY <1>1
<1>3. ASSUME NEW T \in SUBSET R
      PROVE  IsFiniteSet(T) /\ Cardinality(T) <= Cardinality(Pre(T))
  <2>1. f(T) \in Surjection(Pre(T), T)
    <3>1. f(T) \in [Pre(T) -> T]
      OBVIOUS
    <3>2. \A y \in T : \E x \in Pre(T) : f(T)[x] = y
      OBVIOUS
    <3> QED BY <3>1, <3>2 DEF Surjection
  <2>2. IsFiniteSet(Pre(T))
    BY FS_Subset
  <2> HIDE DEF f, Pre
  <2> QED BY <2>1, <2>2, FS_Surjection
<1>4. IsFiniteSet(R)
  BY <1>3
<1>5. ASSUME NEW T \in SUBSET R, T # {}
      PROVE  \E l \in T : Cardinality(T) <= l.lim
  <2>1. Pre(T) # {} /\ Pre(T) \in SUBSET S
    <3>1. PICK y \in T : TRUE
      BY <1>5
    <3>2. PICK x \in S : y = [x EXCEPT !.by = h[x.by]]
      OBVIOUS
    <3>3. x \in Pre(T)
      BY <3>1, <3>2
    <3> QED BY <3>3
  <2>2. PICK x \in Pre(T) : Cardinality(Pre(T)) <= x.lim
    BY <2>1 DEF Within
  <2>3. IsFiniteSet(T) /\ IsFiniteSet(Pre(T)) /\ Cardinality(T) <= Cardinality(Pre(T))
    BY <1>3, FS_Subset
  <2>4. Cardinality(T) \in Nat /\ Cardinality(Pre(T)) \in Nat
    BY <2>3, FS_CardinalityType
  <2>5. x \in S /\ x.lim \in Nat
    BY DEF Slot
  <2>6. [x EXCEPT !.by = h[x.by]] \in T /\ [x EXCEPT !.by = h[x.by]].lim = x.lim
    BY <1>1, <2>5
  <2>7. Cardinality(T) <= x.lim
    <3> HIDE DEF Pre
    <3> QED BY <2>2, <2>3, <2>4, <2>5
  <2> QED BY <2>6, <2>7
<1> QED BY <1>2, <1>4, <1>5 DEF Within

(* A slot that is granted while fewer than its limit are out keeps within. *)
LEMMA Grows ==
  ASSUME NEW S \in SUBSET Slot, IsFiniteSet(S), Within(S),
         NEW R \in SUBSET S, NEW l \in Slot, Cardinality(S) < l.lim
  PROVE  R \cup {l} \in SUBSET Slot /\ IsFiniteSet(R \cup {l}) /\ Within(R \cup {l})
<1>1. IsFiniteSet(R)
  BY FS_Subset
<1>2. IsFiniteSet(R \cup {l})
  BY <1>1, FS_AddElement
<1>3. ASSUME NEW T \in SUBSET (R \cup {l}), T # {}
      PROVE  \E m \in T : Cardinality(T) <= m.lim
  <2>1. CASE l \notin T
    <3>1. T \in SUBSET S
      BY <2>1
    <3> QED BY <3>1, <1>3 DEF Within
  <2>2. CASE l \in T
    <3>1. IsFiniteSet(T \ {l}) /\ Cardinality(T \ {l}) <= Cardinality(S)
      <4>1. T \ {l} \in SUBSET S
        OBVIOUS
      <4> QED BY <4>1, FS_Subset
    <3>2. Cardinality(T) <= Cardinality(T \ {l}) + 1
      <4> DEFINE U == T \ {l}
      <4>1. T = U \cup {l} /\ l \notin U
        BY <2>2
      <4>2. IsFiniteSet(U)
        BY <3>1
      <4> HIDE DEF U
      <4>3. Cardinality(U \cup {l}) = Cardinality(U) + 1
        BY <4>1, <4>2, FS_AddElement
      <4>4. Cardinality(U) \in Nat
        BY <4>2, FS_CardinalityType
      <4>5. Cardinality(T) = Cardinality(U) + 1
        BY <4>1, <4>3
      <4> QED BY <4>4, <4>5 DEF U
    <3>3. Cardinality(T \ {l}) \in Nat /\ Cardinality(S) \in Nat /\ l.lim \in Nat
      BY <3>1, FS_CardinalityType DEF Slot
    <3>4. Cardinality(T) \in Nat
      <4>1. IsFiniteSet(T)
        BY <1>2, FS_Subset
      <4> QED BY <4>1, FS_CardinalityType
    <3>5. Cardinality(T) <= l.lim
      BY <3>1, <3>2, <3>3, <3>4
    <3> QED BY <2>2, <3>5
  <2> QED BY <2>1, <2>2
<1> QED BY <1>2, <1>3 DEF Within

-----------------------------------------------------------------------------
(* What a request does to its record and to the slots.                     *)

Uses(r) == {b \in Accounts : Holds(r, b)}

(* It goes to a place its record is fit for, uses the accounts O there and *)
(* took up none that it had barred.                                        *)
Moved(r, O) ==
  \E p \in Places, q \in Request :
    /\ Goto(r, p, q)
    /\ PlacedAt(r, p, q)
    /\ \A b \in Accounts : (q.own = b \/ (p = "hydrate" /\ q.at = b)) <=> b \in O
    /\ q.own \notin {None, req[r].own} => q.own \notin req[r].barred

Sound ==
  /\ pc \in [Requests -> Places]
  /\ req \in [Requests -> Request]
  /\ Placed
  /\ SlotsFine
  /\ SlotsAccounted

Rest ==
  /\ limit \in [Accounts -> Limits]
  /\ rows \subseteq Accounts
  /\ cool \subseteq Accounts
  /\ bound \in [Keys -> Accounts \cup {None}]
  /\ woken \in [Requests -> BOOLEAN]
  /\ events \in 0 .. MaxEvents

LEMMA Parts == IInv <=> Sound /\ Rest
BY DEF IInv, Sound, Rest, TypeOK, SlotsFine, Within, LimitKept

LEMMA Blank == Fresh \in Request /\ Fresh.own = None /\ Fresh.why = "plan" /\ None \notin Accounts
BY LeasesAssumption DEF Fresh, Request

LEMMA MovedTypes ==
  ASSUME Sound, NEW r \in Requests, NEW O \in SUBSET Accounts, Moved(r, O)
  PROVE  /\ pc' \in [Requests -> Places]
         /\ req' \in [Requests -> Request]
         /\ Placed'
         /\ \A b \in Accounts : Holds(r, b)' <=> b \in O
         /\ \A s \in Requests \ {r}, b \in Accounts : Holds(s, b)' <=> Holds(s, b)
<1>1. PICK p \in Places, q \in Request :
        /\ Goto(r, p, q)
        /\ PlacedAt(r, p, q)
        /\ \A b \in Accounts : (q.own = b \/ (p = "hydrate" /\ q.at = b)) <=> b \in O
  BY DEF Moved
<1>2. /\ pc' \in [Requests -> Places]
      /\ req' \in [Requests -> Request]
      /\ pc'[r] = p /\ req'[r] = q
      /\ \A s \in Requests \ {r} : pc'[s] = pc[s] /\ req'[s] = req[s]
  BY <1>1 DEF Goto, Sound
<1>3. Placed'
  BY <1>1, <1>2 DEF Placed, PlacedAt, Sound
<1> QED BY <1>1, <1>2, <1>3 DEF Holds

LEMMA KeepsSlots ==
  ASSUME Sound, NEW r \in Requests, Moved(r, Uses(r)), UNCHANGED slots
  PROVE  Sound'
<1>1. Uses(r) \in SUBSET Accounts
  BY DEF Uses
<1>2. SlotsFine'
  BY DEF Sound, SlotsFine
<1>3. \A s \in Requests, b \in Accounts : HeldBy(s, b)' = HeldBy(s, b) /\ (Holds(s, b)' <=> Holds(s, b))
  BY <1>1, MovedTypes DEF Uses, HeldBy
<1>4. SlotsAccounted'
  <2> SUFFICES ASSUME NEW s \in Requests, NEW b \in Accounts
               PROVE  IF Holds(s, b)' THEN \E l \in slots'[b] : HeldBy(s, b)' = {l}
                                      ELSE HeldBy(s, b)' = {}
    BY DEF SlotsAccounted
  <2> QED BY <1>3 DEF Sound, SlotsAccounted
<1> QED BY <1>1, <1>2, <1>4, MovedTypes DEF Sound

LEMMA GrantFine ==
  ASSUME SlotsFine, NEW a \in Accounts, NEW max \in Nat, NEW by \in Holders,
         NEW others \in [Accounts -> SUBSET Slot],
         \A b \in Accounts : others[b] \subseteq slots[b],
         Grant(a, max, by, others)
  PROVE  /\ SlotsFine'
         /\ \E l \in Slot : /\ l.by = by /\ l \notin slots[a]
                            /\ slots' = [others EXCEPT ![a] = @ \cup {l}]
<1>1. PICK id \in 0 .. Cardinality(slots[a]) :
        /\ \A l \in slots[a] : l.id # id
        /\ slots' = [others EXCEPT ![a] = @ \cup {[id |-> id, lim |-> max, by |-> by]}]
  BY DEF Grant
<1> DEFINE new == [id |-> id, lim |-> max, by |-> by]
<1>2. Cardinality(slots[a]) \in Nat
  BY FS_CardinalityType DEF SlotsFine
<1>3. new \in Slot /\ new.by = by /\ new.lim = max /\ new \notin slots[a]
  BY <1>1, <1>2 DEF Slot, Holders
<1> HIDE DEF new
<1>4. Cardinality(slots[a]) < new.lim
  BY <1>2, <1>3 DEF Grant, Full
<1>5. slots' = [others EXCEPT ![a] = @ \cup {new}]
  BY <1>1 DEF new
<1>6. slots[a] \in SUBSET Slot /\ IsFiniteSet(slots[a]) /\ Within(slots[a])
  BY DEF SlotsFine
<1>7. others[a] \cup {new} \in SUBSET Slot /\ IsFiniteSet(others[a] \cup {new}) /\ Within(others[a] \cup {new})
  BY <1>3, <1>4, <1>6, Grows
<1>8. ASSUME NEW b \in Accounts, b # a
      PROVE  IsFiniteSet(others[b]) /\ Within(others[b])
  BY FS_Subset DEF SlotsFine, Within
<1>9. SlotsFine'
  <2>1. slots' \in [Accounts -> SUBSET Slot]
    BY <1>5, <1>7
  <2>2. \A b \in Accounts : slots'[b] = IF b = a THEN others[a] \cup {new} ELSE others[b]
    BY <1>5
  <2>3. ASSUME NEW b \in Accounts
        PROVE  IsFiniteSet(slots'[b]) /\ Within(slots'[b])
    BY <1>7, <1>8, <2>2
  <2> QED BY <2>1, <2>3 DEF SlotsFine
<1> QED BY <1>3, <1>5, <1>9

LEMMA TakesSlot ==
  ASSUME Sound, NEW r \in Requests, NEW a \in Accounts, NEW max \in Nat,
         ~Holds(r, a), Moved(r, Uses(r) \cup {a}), Grant(a, max, r, slots)
  PROVE  Sound'
<1>1. Uses(r) \cup {a} \in SUBSET Accounts
  BY DEF Uses
<1>2. SlotsFine /\ slots \in [Accounts -> SUBSET Slot] /\ r \in Holders
  BY DEF Sound, SlotsFine, Holders
<1>3. /\ SlotsFine'
      /\ \E l \in Slot : l.by = r /\ l \notin slots[a] /\ slots' = [slots EXCEPT ![a] = @ \cup {l}]
  BY <1>2, GrantFine
<1>4. PICK l \in Slot : l.by = r /\ l \notin slots[a] /\ slots' = [slots EXCEPT ![a] = @ \cup {l}]
  BY <1>3
<1>5. HeldBy(r, a)' = HeldBy(r, a) \cup {l} /\ l \in slots'[a]
  BY <1>2, <1>4 DEF HeldBy
<1>6. HeldBy(r, a) = {}
  BY DEF Sound, SlotsAccounted
<1>7. \A s \in Requests, b \in Accounts :
        (s # r \/ b # a) => HeldBy(s, b)' = HeldBy(s, b) /\ slots[b] \subseteq slots'[b]
                            /\ (Holds(s, b)' <=> Holds(s, b))
  <2>1. \A s \in Requests, b \in Accounts :
          (s # r \/ b # a) => HeldBy(s, b)' = HeldBy(s, b) /\ slots[b] \subseteq slots'[b]
    BY <1>2, <1>4 DEF HeldBy
  <2> QED BY <1>1, <2>1, MovedTypes DEF Uses
<1>8. Holds(r, a)'
  BY <1>1, MovedTypes
<1>9. SlotsAccounted'
  <2> SUFFICES ASSUME NEW s \in Requests, NEW b \in Accounts
               PROVE  IF Holds(s, b)' THEN \E m \in slots'[b] : HeldBy(s, b)' = {m}
                                      ELSE HeldBy(s, b)' = {}
    BY DEF SlotsAccounted
  <2>1. CASE s = r /\ b = a
    BY <2>1, <1>5, <1>6, <1>8
  <2>2. CASE s # r \/ b # a
    <3>1. IF Holds(s, b) THEN \E m \in slots[b] : HeldBy(s, b) = {m} ELSE HeldBy(s, b) = {}
      BY DEF Sound, SlotsAccounted
    <3> QED BY <2>2, <3>1, <1>7
  <2> QED BY <2>1, <2>2
<1> QED BY <1>1, <1>3, <1>9, MovedTypes DEF Sound

(* A slot that is returned, or whose return the store refuses, is no       *)
(* longer held by the request; every other one is held as before.          *)
LEMMA ReturnFine ==
  ASSUME Sound, NEW r \in Requests, NEW a \in Accounts, NEW n \in Nat,
         req[r].inst \in Instances, Return(r, a, n)
  PROVE  /\ SlotsFine'
         /\ HeldBy(r, a)' = {}
         /\ \A s \in Requests, b \in Accounts :
              (s # r \/ b # a) => HeldBy(s, b)' = HeldBy(s, b)
<1> DEFINE H == HeldBy(r, a)
<1>1. \E by \in {req[r].inst, Leaked} : \E Q :
        Q \subseteq {[l EXCEPT !.by = by] : l \in H} /\ slots' = [slots EXCEPT ![a] = (@ \ H) \cup Q]
  <2>1. CASE slots' = [slots EXCEPT ![a] = @ \ H]
    <3>1. slots[a] \ H = (slots[a] \ H) \cup {}
      OBVIOUS
    <3>2. slots' = [slots EXCEPT ![a] = (@ \ H) \cup {}]
      BY <2>1, <3>1
    <3>3. {} \subseteq {[l EXCEPT !.by = Leaked] : l \in H}
      OBVIOUS
    <3> QED BY <3>2, <3>3
  <2>2. CASE \E by \in {req[r].inst, Leaked} :
               slots' = [slots EXCEPT ![a] = (@ \ H) \cup {[l EXCEPT !.by = by] : l \in H}]
    <3> HIDE DEF H
    <3> QED BY <2>2
  <2> HIDE DEF H
  <2>3. \/ slots' = [slots EXCEPT ![a] = @ \ H]
        \/ \E by \in {req[r].inst, Leaked} :
               slots' = [slots EXCEPT ![a] = (@ \ H) \cup {[l EXCEPT !.by = by] : l \in H}]
    BY DEF Return, H
  <2> QED BY <2>1, <2>2, <2>3
<1> PICK by \in {req[r].inst, Leaked} : \E Q :
        Q \subseteq {[l EXCEPT !.by = by] : l \in H} /\ slots' = [slots EXCEPT ![a] = (@ \ H) \cup Q]
  BY <1>1
<1>2. PICK Q :
        Q \subseteq {[l EXCEPT !.by = by] : l \in H} /\ slots' = [slots EXCEPT ![a] = (@ \ H) \cup Q]
  OBVIOUS
<1>3. by \in Holders /\ by \notin Requests /\ r \in Holders
  BY <1>2, LeasesAssumption DEF Holders
<1> DEFINE h == [x \in Holders |-> IF x = r THEN by ELSE x]
<1>4. h \in [Holders -> Holders]
  BY <1>3
<1>5. \A x \in slots[a] : x \in Slot /\ x.by \in Holders
  BY DEF Sound, SlotsFine, Slot, Holders
<1>6. (slots[a] \ H) \cup Q \in SUBSET {[x EXCEPT !.by = h[x.by]] : x \in slots[a]}
  <2> SUFFICES ASSUME NEW y \in (slots[a] \ H) \cup Q
               PROVE  \E x \in slots[a] : y = [x EXCEPT !.by = h[x.by]]
    OBVIOUS
  <2>1. CASE y \in slots[a] \ H
    <3>1. y.by # r /\ h[y.by] = y.by
      BY <2>1, <1>5 DEF HeldBy
    <3>2. y = [y EXCEPT !.by = h[y.by]]
      BY <2>1, <3>1, <1>5 DEF Slot
    <3> QED BY <2>1, <3>2
  <2>2. CASE y \in Q
    <3>1. PICK l \in H : y = [l EXCEPT !.by = by]
      BY <2>2, <1>2
    <3>2. l \in slots[a] /\ l.by = r
      BY <3>1 DEF HeldBy
    <3>3. h[l.by] = by
      BY <3>2, <1>3
    <3>4. [l EXCEPT !.by = by] = [l EXCEPT !.by = h[l.by]]
      BY <3>3
    <3> HIDE DEF h
    <3> QED BY <3>1, <3>2, <3>4
  <2> QED BY <2>1, <2>2
<1> HIDE DEF h
<1>7. slots[a] \in SUBSET Slot /\ IsFiniteSet(slots[a]) /\ Within(slots[a])
  BY DEF Sound, SlotsFine
<1> DEFINE N == (slots[a] \ H) \cup Q
<1>8. N \in SUBSET Slot /\ IsFiniteSet(N) /\ Within(N)
  BY <1>4, <1>6, <1>7, Shrinks
<1> HIDE DEF H
<1>9. slots' = [slots EXCEPT ![a] = N] /\ slots \in [Accounts -> SUBSET Slot]
  BY <1>2 DEF Sound, SlotsFine
<1>10. \A l \in Q : l.by = by
  BY <1>2, <1>5 DEF H, HeldBy, Slot
<1>11. SlotsFine'
  <2> HIDE DEF N
  <2>1. slots' \in [Accounts -> SUBSET Slot]
    BY <1>8, <1>9
  <2>2. ASSUME NEW b \in Accounts
        PROVE  IsFiniteSet(slots'[b]) /\ Within(slots'[b])
    BY <1>8, <1>9 DEF Sound, SlotsFine
  <2> QED BY <2>1, <2>2 DEF SlotsFine
<1>12. HeldBy(r, a)' = {}
  BY <1>3, <1>9, <1>10 DEF HeldBy, H
<1>13. ASSUME NEW s \in Requests, NEW b \in Accounts, s # r \/ b # a
       PROVE  HeldBy(s, b)' = HeldBy(s, b)
  <2>1. CASE b # a
    BY <2>1, <1>9 DEF HeldBy
  <2>2. CASE b = a
    <3>1. s # r
      BY <2>2, <1>13
    <3>2. slots'[a] = N
      BY <1>9
    <3>3. {l \in N : l.by = s} = {l \in slots[a] : l.by = s}
      BY <3>1, <1>3, <1>10 DEF H, HeldBy
    <3> QED BY <2>2, <3>2, <3>3 DEF HeldBy
  <2> QED BY <2>1, <2>2
<1> QED BY <1>11, <1>12, <1>13

(* Requests that hold no slot any more are right to, if they use none; for *)
(* the others nothing has changed.                                         *)
LEMMA HeldAsBefore ==
  ASSUME Sound,
         \A s \in Requests, b \in Accounts :
           \/ (Holds(s, b)' <=> Holds(s, b)) /\ HeldBy(s, b)' = HeldBy(s, b)
           \/ ~Holds(s, b)' /\ HeldBy(s, b)' = {}
  PROVE  SlotsAccounted'
<1> SUFFICES ASSUME NEW s \in Requests, NEW b \in Accounts
             PROVE  IF Holds(s, b)' THEN \E m \in slots'[b] : HeldBy(s, b)' = {m}
                                    ELSE HeldBy(s, b)' = {}
  BY DEF SlotsAccounted
<1>1. IF Holds(s, b) THEN \E m \in slots[b] : HeldBy(s, b) = {m} ELSE HeldBy(s, b) = {}
  BY DEF Sound, SlotsAccounted
<1>2. CASE (Holds(s, b)' <=> Holds(s, b)) /\ HeldBy(s, b)' = HeldBy(s, b)
  <2>1. \A m : HeldBy(s, b)' = {m} => m \in slots'[b]
    BY DEF HeldBy
  <2> QED BY <1>1, <1>2, <2>1
<1>3. CASE ~Holds(s, b)' /\ HeldBy(s, b)' = {}
  BY <1>3
<1> QED BY <1>2, <1>3

LEMMA ReturnsSlot ==
  ASSUME Sound, NEW r \in Requests, NEW a \in Accounts, NEW n \in Nat,
         req[r].inst \in Instances, Return(r, a, n), Moved(r, Uses(r) \ {a})
  PROVE  Sound'
<1>1. Uses(r) \ {a} \in SUBSET Accounts
  BY DEF Uses
<1>2. \A s \in Requests, b \in Accounts :
           \/ (Holds(s, b)' <=> Holds(s, b)) /\ HeldBy(s, b)' = HeldBy(s, b)
           \/ ~Holds(s, b)' /\ HeldBy(s, b)' = {}
  BY <1>1, ReturnFine, MovedTypes DEF Uses
<1> QED BY <1>1, <1>2, MovedTypes, ReturnFine, HeldAsBefore DEF Sound

(* A request that uses no account goes on with none.                       *)
LEMMA Rests ==
  ASSUME NEW r \in Requests, NEW p \in Places, NEW q \in Request,
         Goto(r, p, q), PlacedAt(r, p, q), p # "hydrate", q.own = None
  PROVE  Moved(r, {})
BY Blank DEF Moved

LEMMA Ends ==
  ASSUME NEW r \in Requests, Over(r)
  PROVE  Moved(r, {})
<1>1. PlacedAt(r, "done", Fresh) /\ "done" \in Places
  BY Blank DEF PlacedAt, Places
<1> QED BY <1>1, Blank, Rests DEF Over

LEMMA GoesOn ==
  ASSUME NEW r \in Requests, NEW q \in Request,
         q.inst \in Instances, q.own = None, q.why = "plan", Onward(r, q)
  PROVE  Moved(r, {})
<1>1. /\ PlacedAt(r, "plan", q) /\ PlacedAt(r, "missed", q)
      /\ "plan" \in Places /\ "missed" \in Places
  BY DEF PlacedAt, Places
<1>2. Goto(r, "plan", q) \/ Over(r) \/ Goto(r, "missed", q)
  BY DEF Onward
<1> QED BY <1>1, <1>2, Ends, Rests

LEMMA Sends ==
  ASSUME NEW r \in Requests, NEW q \in Request, NEW a \in Accounts,
         q.inst \in Instances, a \notin req[r].barred \/ a = req[r].own,
         Selected(r, a, q)
  PROVE  Moved(r, {a})
<1> DEFINE w == [q EXCEPT !.own = a, !.at = None, !.why = "plan", !.barred = @ \cup {a}]
<1>1. w \in Request /\ w.own = a /\ w.why = "plan" /\ w.inst = q.inst
  BY DEF Request
<1>2. Goto(r, "send", w)
  BY DEF Selected
<1>3. "send" \in Places
  BY DEF Places
<1> HIDE DEF w
<1>4. PlacedAt(r, "send", w)
  BY <1>1 DEF PlacedAt
<1> QED BY <1>1, <1>2, <1>3, <1>4 DEF Moved

(* What the places of a request say about the accounts it uses.            *)
LEMMA AtHand ==
  ASSUME Sound, NEW r \in Requests
  PROVE  /\ req[r] \in Request
         /\ pc[r] \notin {"idle", "done"} => req[r].inst \in Instances
         /\ pc[r] \in {"idle", "done", "select", "plan", "missed", "wait"} => Uses(r) = {}
         /\ pc[r] = "claim" /\ req[r].why # "rebind" => Uses(r) = {}
         /\ pc[r] = "claim" /\ req[r].why = "rebind" => Uses(r) = {req[r].own}
         /\ pc[r] = "hydrate" /\ req[r].why # "rebind" => Uses(r) = {req[r].at}
         /\ pc[r] = "hydrate" /\ req[r].why = "rebind" => Uses(r) = {req[r].own, req[r].at}
         /\ pc[r] \in {"bind", "set", "send"} => Uses(r) = {req[r].own}
<1>1. PlacedAt(r, pc[r], req[r]) /\ req[r] \in Request
  BY DEF Sound, Placed
<1>2. pc[r] \notin {"idle", "done"} => req[r].inst \in Instances
  BY <1>1 DEF PlacedAt
<1>3. pc[r] \in {"idle", "done", "select", "plan", "missed", "wait"} => Uses(r) = {}
  BY <1>1, Blank DEF PlacedAt, Uses, Holds
<1>4. pc[r] = "claim" /\ req[r].why # "rebind" => Uses(r) = {}
  BY <1>1, Blank DEF PlacedAt, Uses, Holds
<1>5. pc[r] = "claim" /\ req[r].why = "rebind" => Uses(r) = {req[r].own}
  BY <1>1, Blank DEF PlacedAt, Uses, Holds
<1>6. pc[r] = "hydrate" /\ req[r].why # "rebind" => Uses(r) = {req[r].at}
  BY <1>1, Blank DEF PlacedAt, Uses, Holds
<1>7. pc[r] = "hydrate" /\ req[r].why = "rebind" => Uses(r) = {req[r].own, req[r].at}
  BY <1>1, Blank DEF PlacedAt, Uses, Holds
<1>8. pc[r] \in {"bind", "set", "send"} => Uses(r) = {req[r].own}
  BY <1>1, Blank DEF PlacedAt, Uses, Holds
<1> QED BY <1>1, <1>2, <1>3, <1>4, <1>5, <1>6, <1>7, <1>8

-----------------------------------------------------------------------------
(* The actions of a request: what becomes of its record and its slots.     *)

LEMMA BeginStep ==
  ASSUME Sound, Rest, NEW r \in Requests, Begin(r)
  PROVE  Moved(r, Uses(r)) /\ UNCHANGED slots
<1>1. PICK inst \in Entries[r], pin \in Pins[r] :
        LET usable == rows \ cool
            cand == IF pin = None THEN usable ELSE {pin} \cap usable
            read == [Fresh EXCEPT !.inst = inst, !.pin = pin, !.cand = cand,
                                  !.lim = limit, !.plan = cand]
        IN IF cand = {} THEN Over(r) ELSE Goto(r, "select", read)
  BY DEF Begin
<1> DEFINE usable == rows \ cool
           cand == IF pin = None THEN usable ELSE {pin} \cap usable
           read == [Fresh EXCEPT !.inst = inst, !.pin = pin, !.cand = cand,
                                 !.lim = limit, !.plan = cand]
<1>2. inst \in Instances /\ pin \in Accounts \cup {None} /\ cand \in SUBSET Accounts
  BY LeasesAssumption DEF Rest
<1>3. limit \in [Accounts -> Nat]
  BY LeasesAssumption DEF Rest
<1>4. Over(r) \/ Goto(r, "select", read)
  BY <1>1
<1>5. Uses(r) = {} /\ "select" \in Places
  BY AtHand DEF Begin, Places
<1> HIDE DEF cand
<1>6. read \in Request /\ read.own = None /\ read.why = "plan" /\ read.inst = inst
  BY <1>2, <1>3, Blank DEF Request, Fresh
<1> HIDE DEF read
<1>7. PlacedAt(r, "select", read)
  BY <1>2, <1>6 DEF PlacedAt
<1>8. Moved(r, {})
  BY <1>4, <1>5, <1>6, <1>7, Ends, Rests
<1> QED BY <1>5, <1>8 DEF Begin

LEMMA SelectStep ==
  ASSUME Sound, Rest, NEW r \in Requests, Select(r)
  PROVE  Moved(r, Uses(r)) /\ UNCHANGED slots
<1> DEFINE q == [req[r] EXCEPT !.stickyTried = TRUE]
           tried == IF Pinned(r) THEN req[r].pin
                    ELSE IF Sticky(r) /\ ~req[r].stickyTried THEN bound[KeyOf[r]] ELSE None
           w == [q EXCEPT !.at = tried, !.why = "pin"]
<1>1. req[r] \in Request /\ req[r].inst \in Instances /\ Uses(r) = {} /\ pc[r] = "select"
  BY AtHand DEF Select
<1>2. req[r].own = None /\ req[r].why = "plan"
  BY <1>1 DEF Sound, Placed, PlacedAt
<1>3. q \in Request /\ q.inst = req[r].inst /\ q.own = None /\ q.why = "plan"
  BY <1>1, <1>2 DEF Request
<1>4. (Usable(r, tried) /\ Goto(r, "claim", w)) \/ Onward(r, q)
  BY DEF Select
<1> HIDE DEF tried
<1>5. ASSUME Usable(r, tried), Goto(r, "claim", w)
      PROVE  Moved(r, {})
  <2>1. tried \in Accounts \ req[r].barred
    BY <1>1, <1>5 DEF Usable, Request
  <2>2. /\ w \in Request /\ w.inst = req[r].inst /\ w.own = None /\ w.why = "pin"
        /\ w.at = tried /\ w.barred = req[r].barred
    BY <1>1, <1>2, <2>1 DEF Request
  <2> HIDE DEF w
  <2>3. PlacedAt(r, "claim", w) /\ "claim" \in Places
    BY <1>1, <2>1, <2>2 DEF PlacedAt, Places
  <2> QED BY <1>5, <2>2, <2>3, Rests
<1> HIDE DEF q, w
<1>6. Moved(r, {})
  BY <1>1, <1>3, <1>4, <1>5, GoesOn
<1> QED BY <1>1, <1>6 DEF Select

(* A claim: q is the record of the request as it is tried.                 *)
LEMMA ClaimSlotStep ==
  ASSUME Sound, NEW r \in Requests, NEW q \in Request, PlacedAt(r, "claim", q),
         q.own = req[r].own, q.barred = req[r].barred,
         Uses(r) = {b \in Accounts : b = q.own},
         ClaimSlot(r, q)
  PROVE  \/ Moved(r, Uses(r)) /\ UNCHANGED slots
         \/ Moved(r, Uses(r) \cup {q.at}) /\ Grant(q.at, Effective(q.lim[q.at]), r, slots)
<1>1. /\ q.inst \in Instances /\ q.at \in Accounts \ q.barred
      /\ q.why # "rebind" => q.own = None
      /\ q.why = "rebind" => q.own \in Accounts /\ q.at # q.own /\ q.pin = None /\ KeyOf[r] # None
      /\ q.why \in {"pin", "plan", "rebind"}
  BY DEF PlacedAt, Request
<1>2. CASE Missed(r, q) /\ UNCHANGED slots
  <2>1. CASE q.why = "pin"
    <3>1. PlacedAt(r, "missed", q) /\ "missed" \in Places
      BY <1>1, <2>1 DEF PlacedAt, Places
    <3>2. Uses(r) = {} /\ q.own = None
      BY <1>1, <2>1, Blank
    <3>3. Goto(r, "missed", q)
      BY <1>2, <2>1 DEF Missed
    <3> QED BY <1>2, <3>1, <3>2, <3>3, Rests
  <2>2. CASE q.why = "plan"
    <3> DEFINE w == [q EXCEPT !.at = None]
    <3>1. Onward(r, w)
      BY <1>2, <2>2 DEF Missed
    <3>2. w \in Request /\ w.inst = q.inst /\ w.own = None /\ w.why = "plan"
      BY <1>1, <2>2 DEF Request
    <3>3. Uses(r) = {}
      BY <1>1, <2>2, Blank
    <3> HIDE DEF w
    <3> QED BY <1>1, <1>2, <3>1, <3>2, <3>3, GoesOn
  <2>3. CASE q.why = "rebind"
    <3>1. Selected(r, q.own, q)
      BY <1>2, <2>3 DEF Missed
    <3>2. Uses(r) = {q.own}
      BY <1>1, <2>3
    <3> QED BY <1>1, <1>2, <2>3, <3>1, <3>2, Sends
  <2> QED BY <1>1, <2>1, <2>2, <2>3
<1>3. CASE Grant(q.at, Effective(q.lim[q.at]), r, slots) /\ Goto(r, "hydrate", q)
  <2>1. PlacedAt(r, "hydrate", q) /\ "hydrate" \in Places
    BY DEF PlacedAt, Places
  <2>2. \A b \in Accounts : (q.own = b \/ ("hydrate" = "hydrate" /\ q.at = b)) <=> b \in Uses(r) \cup {q.at}
    OBVIOUS
  <2>3. Moved(r, Uses(r) \cup {q.at})
    BY <1>3, <2>1, <2>2 DEF Moved
  <2> QED BY <1>3, <2>3
<1> QED BY <1>2, <1>3 DEF ClaimSlot

LEMMA ClaimSlotSound ==
  ASSUME Sound, NEW r \in Requests, NEW q \in Request, PlacedAt(r, "claim", q),
         q.own = req[r].own, pc[r] \in {"claim", "plan"},
         \/ Moved(r, Uses(r)) /\ UNCHANGED slots
         \/ Moved(r, Uses(r) \cup {q.at}) /\ Grant(q.at, Effective(q.lim[q.at]), r, slots)
  PROVE  Sound'
<1>1. q.at \in Accounts /\ (q.own \in Accounts => q.at # q.own)
  BY Blank DEF PlacedAt, Request
<1>2. Effective(q.lim[q.at]) \in Nat
  BY <1>1, LeasesAssumption DEF Effective, Request
<1>3. ~Holds(r, q.at)
  BY <1>1 DEF Holds
<1>4. CASE Moved(r, Uses(r)) /\ UNCHANGED slots
  BY <1>4, KeepsSlots
<1>5. CASE Moved(r, Uses(r) \cup {q.at}) /\ Grant(q.at, Effective(q.lim[q.at]), r, slots)
  BY <1>1, <1>2, <1>3, <1>5, TakesSlot
<1> QED BY <1>4, <1>5

LEMMA ClaimStep ==
  ASSUME Sound, NEW r \in Requests, Claim(r)
  PROVE  Sound' /\ \E O \in SUBSET Accounts : Moved(r, O)
<1>1. /\ req[r] \in Request /\ PlacedAt(r, "claim", req[r]) /\ pc[r] = "claim"
      /\ ClaimSlot(r, req[r])
  BY DEF Claim, Sound, Placed
<1>2. Uses(r) = {b \in Accounts : b = req[r].own}
  BY <1>1 DEF Uses, Holds
<1>3. \/ Moved(r, Uses(r)) /\ UNCHANGED slots
      \/ /\ Moved(r, Uses(r) \cup {req[r].at})
         /\ Grant(req[r].at, Effective(req[r].lim[req[r].at]), r, slots)
  BY <1>1, <1>2, ClaimSlotStep
<1>4. Sound'
  BY <1>1, <1>3, ClaimSlotSound
<1>5. Uses(r) \in SUBSET Accounts /\ Uses(r) \cup {req[r].at} \in SUBSET Accounts
  BY <1>1 DEF Uses, PlacedAt
<1> QED BY <1>3, <1>4, <1>5

LEMMA ClaimNextStep ==
  ASSUME Sound, NEW r \in Requests, ClaimNext(r)
  PROVE  Sound' /\ \E O \in SUBSET Accounts : Moved(r, O)
<1>1. PICK a \in req[r].plan \ req[r].barred :
        ClaimSlot(r, [req[r] EXCEPT !.plan = @ \ {a}, !.at = a, !.why = "plan"])
  BY DEF ClaimNext
<1> DEFINE q == [req[r] EXCEPT !.plan = @ \ {a}, !.at = a, !.why = "plan"]
<1>2. /\ req[r] \in Request /\ pc[r] = "plan"
      /\ req[r].own = None /\ req[r].inst \in Instances /\ Uses(r) = {}
  BY AtHand DEF ClaimNext, Sound, Placed, PlacedAt
<1>3. a \in Accounts \ req[r].barred
  BY <1>2 DEF Request
<1>4. /\ q \in Request /\ q.own = None /\ q.inst = req[r].inst /\ q.at = a
      /\ q.why = "plan" /\ q.barred = req[r].barred
  BY <1>2, <1>3 DEF Request
<1>5. ClaimSlot(r, q)
  BY <1>1
<1> HIDE DEF q
<1>6. PlacedAt(r, "claim", q)
  BY <1>2, <1>3, <1>4 DEF PlacedAt
<1>7. Uses(r) = {b \in Accounts : b = q.own}
  BY <1>2, <1>4, Blank
<1>8. \/ Moved(r, Uses(r)) /\ UNCHANGED slots
      \/ Moved(r, Uses(r) \cup {q.at}) /\ Grant(q.at, Effective(q.lim[q.at]), r, slots)
  BY <1>2, <1>4, <1>5, <1>6, <1>7, ClaimSlotStep
<1>9. Sound'
  BY <1>2, <1>4, <1>6, <1>8, ClaimSlotSound
<1>10. Uses(r) \in SUBSET Accounts /\ Uses(r) \cup {q.at} \in SUBSET Accounts
  BY <1>3, <1>4 DEF Uses
<1> QED BY <1>8, <1>9, <1>10

LEMMA HydratedStep ==
  ASSUME Sound, NEW r \in Requests, Hydrated(r)
  PROVE  Moved(r, Uses(r)) /\ UNCHANGED slots
<1>1. /\ pc[r] = "hydrate" /\ req[r].why # "rebind" /\ req[r] \in Request
      /\ req[r].at \in Accounts \ req[r].barred /\ req[r].inst \in Instances
      /\ Uses(r) = {req[r].at}
  BY AtHand DEF Hydrated, Sound, Placed, PlacedAt
<1> DEFINE w == [req[r] EXCEPT !.own = req[r].at, !.at = None]
<1>2. CASE Sticky(r) /\ Goto(r, "bind", w)
  <2>0. w.pin = None
    BY <1>1, <1>2 DEF Sticky, Pinned, Request
  <2>1. w \in Request /\ w.own = req[r].at /\ w.inst = req[r].inst /\ w.why = req[r].why
    BY <1>1 DEF Request
  <2> HIDE DEF w
  <2>2. PlacedAt(r, "bind", w) /\ "bind" \in Places
    BY <1>1, <1>2, <2>1, <2>0 DEF PlacedAt, Places, Sticky
  <2> QED BY <1>1, <1>2, <2>1, <2>2 DEF Moved, Hydrated
<1>3. CASE Selected(r, req[r].at, req[r])
  BY <1>1, <1>3, Sends DEF Hydrated
<1> QED BY <1>2, <1>3 DEF Hydrated

LEMMA ReboundStep ==
  ASSUME Sound, NEW r \in Requests, Rebound(r)
  PROVE  /\ req[r].own \in Accounts /\ req[r].inst \in Instances
         /\ Return(r, req[r].own, 0) /\ Moved(r, Uses(r) \ {req[r].own})
<1>1. /\ pc[r] = "hydrate" /\ req[r].why = "rebind" /\ req[r] \in Request
      /\ req[r].at \in Accounts \ req[r].barred /\ req[r].inst \in Instances
      /\ req[r].own \in Accounts /\ req[r].own # req[r].at
      /\ Uses(r) = {req[r].own, req[r].at}
  BY AtHand DEF Rebound, Sound, Placed, PlacedAt
<1>2. Moved(r, {req[r].at})
  BY <1>1, Sends DEF Rebound
<1>3. Uses(r) \ {req[r].own} = {req[r].at}
  BY <1>1
<1> QED BY <1>1, <1>2, <1>3 DEF Rebound

LEMMA StaleRowStep ==
  ASSUME Sound, NEW r \in Requests, StaleRow(r)
  PROVE  /\ req[r].at \in Accounts /\ req[r].inst \in Instances
         /\ Return(r, req[r].at, 0) /\ Moved(r, Uses(r) \ {req[r].at})
<1> DEFINE a == req[r].at
           q == [req[r] EXCEPT !.barred = @ \cup {a}, !.at = None, !.why = "plan"]
<1>1. /\ pc[r] = "hydrate" /\ req[r] \in Request
      /\ a \in Accounts \ req[r].barred /\ req[r].inst \in Instances
      /\ req[r].why # "rebind" => req[r].own = None /\ Uses(r) = {a}
      /\ req[r].why = "rebind" => /\ req[r].own \in Accounts /\ a # req[r].own
                                  /\ req[r].pin = None /\ KeyOf[r] # None
                                  /\ Uses(r) = {req[r].own, a}
  BY AtHand DEF StaleRow, Sound, Placed, PlacedAt
<1>2. q \in Request /\ q.own = req[r].own /\ q.inst = req[r].inst /\ q.why = "plan" /\ q.barred # {}
  BY <1>1 DEF Request
<1>3. IF Pinned(r) THEN Over(r)
      ELSE IF req[r].why = "rebind" THEN Goto(r, "set", q) ELSE Onward(r, q)
  BY DEF StaleRow
<1> HIDE DEF q
<1>4. Moved(r, Uses(r) \ {a})
  <2>1. CASE Pinned(r)
    <3>1. req[r].why # "rebind"
      BY <1>1, <2>1 DEF Pinned
    <3>2. Uses(r) \ {a} = {}
      BY <1>1, <3>1
    <3> QED BY <1>3, <2>1, <3>2, Ends
  <2>2. CASE ~Pinned(r) /\ req[r].why = "rebind"
    <3>1. Uses(r) \ {a} = {req[r].own}
      BY <1>1, <2>2
    <3>2. PlacedAt(r, "set", q) /\ "set" \in Places
      BY <1>1, <1>2, <2>2 DEF PlacedAt, Places
    <3>3. Goto(r, "set", q)
      BY <1>3, <2>2
    <3>4. \A b \in Accounts : (q.own = b \/ ("set" = "hydrate" /\ q.at = b)) <=> b \in Uses(r) \ {a}
      BY <1>2, <3>1
    <3> HIDE DEF a
    <3> QED BY <1>2, <3>2, <3>3, <3>4 DEF Moved
  <2>3. CASE ~Pinned(r) /\ req[r].why # "rebind"
    <3>1. Uses(r) \ {a} = {}
      BY <1>1, <2>3
    <3>2. q.own = None /\ Onward(r, q)
      BY <1>1, <1>2, <1>3, <2>3
    <3> QED BY <1>1, <1>2, <3>1, <3>2, GoesOn
  <2> QED BY <2>1, <2>2, <2>3
<1> QED BY <1>1, <1>4 DEF StaleRow

LEMMA BindStep ==
  ASSUME Sound, Rest, NEW r \in Requests, Bind(r)
  PROVE  Moved(r, Uses(r)) /\ UNCHANGED slots
<1> DEFINE q == req[r]
           b == bound[KeyOf[r]]
           w == [q EXCEPT !.at = b, !.why = "rebind"]
<1>1. /\ pc[r] = "bind" /\ q \in Request /\ q.inst \in Instances /\ q.own \in Accounts
      /\ KeyOf[r] \in Keys /\ q.pin = None /\ Uses(r) = {q.own}
  BY AtHand, LeasesAssumption DEF Bind, Sound, Placed, PlacedAt
<1>2. b \in Accounts \cup {None}
  BY <1>1 DEF Rest
<1>3. CASE Selected(r, q.own, q)
  BY <1>1, <1>3, Sends DEF Bind
<1>4. CASE b \notin {None, q.own} /\ Usable(r, b) /\ Goto(r, "claim", w)
  <2>1. b \in Accounts \ q.barred
    BY <1>2, <1>4 DEF Usable
  <2>2. /\ w \in Request /\ w.own = q.own /\ w.inst = q.inst /\ w.pin = None
        /\ w.at = b /\ w.barred = q.barred /\ w.why = "rebind"
    BY <1>1, <2>1 DEF Request
  <2> HIDE DEF w, b
  <2>3. PlacedAt(r, "claim", w) /\ "claim" \in Places
    BY <1>1, <1>4, <2>1, <2>2, LeasesAssumption DEF PlacedAt, Places
  <2>4. \A c \in Accounts : (w.own = c \/ ("claim" = "hydrate" /\ w.at = c)) <=> c \in Uses(r)
    BY <1>1, <2>2
  <2> QED BY <1>1, <1>4, <2>2, <2>3, <2>4 DEF Moved, Bind
<1>5. CASE b \notin {None, q.own} /\ ~Usable(r, b) /\ Goto(r, "set", q)
  <2>1. q.cand # Accounts \/ q.barred # {}
    BY <1>2, <1>5 DEF Usable
  <2>2. PlacedAt(r, "set", q) /\ "set" \in Places
    BY <1>1, <2>1, LeasesAssumption DEF PlacedAt, Places, Sound, Placed
  <2>3. \A c \in Accounts : (q.own = c \/ ("set" = "hydrate" /\ q.at = c)) <=> c \in Uses(r)
    BY <1>1
  <2> QED BY <1>1, <1>5, <2>2, <2>3 DEF Moved, Bind
<1> QED BY <1>3, <1>4, <1>5 DEF Bind

LEMMA SetBindingStep ==
  ASSUME Sound, NEW r \in Requests, SetBinding(r)
  PROVE  Moved(r, Uses(r)) /\ UNCHANGED slots
<1>1. /\ req[r] \in Request /\ req[r].inst \in Instances /\ req[r].own \in Accounts
      /\ Uses(r) = {req[r].own}
  BY AtHand DEF SetBinding, Sound, Placed, PlacedAt
<1> QED BY <1>1, Sends DEF SetBinding

(* Taking the notice, trying again, giving up and going away.              *)
LEMMA WaitingStep ==
  ASSUME Sound, NEW r \in Requests,
         TakeNotice(r) \/ Notified(r) \/ Poll(r) \/ GiveUp(r) \/ Cancel(r)
  PROVE  Moved(r, Uses(r)) /\ UNCHANGED slots
<1>1. /\ pc[r] \in {"missed", "wait"} /\ req[r] \in Request /\ req[r].inst \in Instances
      /\ req[r].own = None /\ req[r].why \in {"pin", "plan"} /\ Uses(r) = {}
      /\ req[r].why = "pin" => req[r].at \in Accounts \ req[r].barred
  BY AtHand DEF TakeNotice, Notified, Poll, GiveUp, Cancel, Sound, Placed, PlacedAt
<1>2. CASE TakeNotice(r)
  <2>1. PlacedAt(r, "wait", req[r]) /\ "wait" \in Places
    BY <1>1 DEF PlacedAt, Places
  <2> QED BY <1>1, <1>2, <2>1, Rests DEF TakeNotice
<1>3. CASE Again(r)
  <2>1. CASE req[r].why = "pin" /\ Goto(r, "claim", req[r])
    <3>1. PlacedAt(r, "claim", req[r]) /\ "claim" \in Places
      BY <1>1, <2>1 DEF PlacedAt, Places
    <3> QED BY <1>1, <1>3, <2>1, <3>1, Rests DEF Again
  <2>2. CASE req[r].why = "plan" /\ Goto(r, "plan", [req[r] EXCEPT !.plan = req[r].cand])
    <3> DEFINE q == [req[r] EXCEPT !.plan = req[r].cand]
    <3>1. q \in Request /\ q.inst = req[r].inst /\ q.own = None /\ q.why = "plan"
      BY <1>1, <2>2 DEF Request
    <3> HIDE DEF q
    <3>2. PlacedAt(r, "plan", q) /\ "plan" \in Places
      BY <1>1, <3>1 DEF PlacedAt, Places
    <3>3. Goto(r, "plan", q)
      BY <2>2 DEF q
    <3> QED BY <1>1, <1>3, <3>1, <3>2, <3>3, Rests DEF Again
  <2> QED BY <1>1, <1>3, <2>1, <2>2 DEF Again
<1>4. CASE GiveUp(r)
  <2> DEFINE q == [req[r] EXCEPT !.patient = FALSE, !.at = None, !.why = "plan"]
  <2>1. q \in Request /\ q.inst = req[r].inst /\ q.own = None /\ q.why = "plan"
    BY <1>1 DEF Request
  <2>2. Onward(r, q) \/ Over(r)
    BY <1>4 DEF GiveUp
  <2> HIDE DEF q
  <2> QED BY <1>1, <1>4, <2>1, <2>2, Ends, GoesOn DEF GiveUp
<1>5. CASE Cancel(r)
  BY <1>1, <1>5, Ends DEF Cancel
<1> QED BY <1>2, <1>3, <1>4, <1>5 DEF Notified, Poll

(* The attempt ends: the slot is returned.                                 *)
LEMMA SendingStep ==
  ASSUME Sound, NEW r \in Requests, Sending(r)
  PROVE  \E a \in Accounts, n \in {0, 1} :
           req[r].inst \in Instances /\ Return(r, a, n) /\ Moved(r, Uses(r) \ {a})
<1>1. /\ pc[r] = "send" /\ req[r] \in Request /\ req[r].inst \in Instances
      /\ req[r].own \in Accounts /\ req[r].why = "plan"
      /\ Uses(r) \ {req[r].own} = {}
  BY AtHand DEF Sending, AccountFails, TeamLimited, Finish, Sound, Placed, PlacedAt
<1>2. ASSUME NEW spent \in {0, 1}, NextAttempt(r, spent)
      PROVE  Moved(r, {})
  <2> DEFINE q == [req[r] EXCEPT !.attempt = @ + spent, !.own = None, !.patient = TRUE]
  <2>0. req[r].attempt \in Nat /\ req[r].attempt + spent \in Nat
    BY <1>1 DEF Request
  <2>1. q \in Request /\ q.inst = req[r].inst /\ q.own = None /\ q.why = "plan"
    BY <1>1, <2>0 DEF Request
  <2>2. Goto(r, "select", q)
    BY <1>2 DEF NextAttempt
  <2> HIDE DEF q
  <2>3. PlacedAt(r, "select", q) /\ "select" \in Places
    BY <1>1, <2>1 DEF PlacedAt, Places
  <2> QED BY <2>1, <2>2, <2>3, Rests
<1>3. Moved(r, {})
  <2>1. NextAttempt(r, 0) \/ NextAttempt(r, 1) \/ Over(r)
    BY DEF Sending, AccountFails, TeamLimited, Finish
  <2> QED BY <1>2, <2>1, Ends
<1>4. \E n \in {0, 1} : Return(r, req[r].own, n)
  BY DEF Sending, AccountFails, TeamLimited, Finish, ReturnFailed
<1> QED BY <1>1, <1>3, <1>4
-----------------------------------------------------------------------------
(* The steps of everything else on the slots.                              *)

LEMMA SubsetFine ==
  ASSUME SlotsFine, slots' \in [Accounts -> SUBSET Slot],
         \A b \in Accounts : slots'[b] \subseteq slots[b]
  PROVE  SlotsFine'
BY FS_Subset DEF SlotsFine, Within

LEMMA StoreFailsStep ==
  ASSUME Sound, NEW r \in Requests, StoreFails(r)
  PROVE  Sound' /\ Moved(r, {})
<1> DEFINE kept == [a \in Accounts |-> slots[a] \ HeldBy(r, a)]
           tried == CASE pc[r] = "plan"  -> req[r].plan \ req[r].barred
                      [] pc[r] = "claim" -> {req[r].at}
                      [] OTHER           -> {}
<1>1. Moved(r, {})
  BY Ends DEF StoreFails
<1>2. req[r] \in Request /\ (pc[r] = "claim" => req[r].at \in Accounts)
  BY DEF Sound, Placed, PlacedAt
<1>3. tried \subseteq Accounts
  BY <1>2 DEF Request
<1>4. slots \in [Accounts -> SUBSET Slot] /\ SlotsFine
  BY DEF Sound, SlotsFine
<1>5. kept \in [Accounts -> SUBSET Slot] /\ \A b \in Accounts : kept[b] \subseteq slots[b]
  BY <1>4
<1>6. \A b \in Accounts : \A l : l \in kept[b] <=> l \in slots[b] /\ l.by # r
  BY DEF HeldBy
<1>7. slots' = kept \/ \E a \in tried : Grant(a, Effective(req[r].lim[a]), Leaked, kept)
  BY DEF StoreFails
<1> HIDE DEF kept, tried
<1>8. /\ SlotsFine'
      /\ \A s \in Requests, b \in Accounts :
           HeldBy(s, b)' = {l \in kept[b] : l.by = s}
  <2>1. CASE slots' = kept
    BY <1>4, <1>5, <2>1, SubsetFine DEF HeldBy
  <2>2. ASSUME NEW a \in tried, Grant(a, Effective(req[r].lim[a]), Leaked, kept)
        PROVE  <1>8
    <3>1. a \in Accounts /\ Effective(req[r].lim[a]) \in Nat
      BY <1>2, <1>3, LeasesAssumption DEF Effective, Request
    <3>2. Leaked \in Holders /\ Leaked \notin Requests
      BY LeasesAssumption DEF Holders
    <3>3. /\ SlotsFine'
          /\ \E l \in Slot : /\ l.by = Leaked /\ l \notin slots[a]
                             /\ slots' = [kept EXCEPT ![a] = @ \cup {l}]
      BY <1>4, <1>5, <2>2, <3>1, <3>2, GrantFine
    <3>4. PICK l \in Slot : l.by = Leaked /\ slots' = [kept EXCEPT ![a] = @ \cup {l}]
      BY <3>3
    <3> QED BY <1>5, <3>1, <3>2, <3>3, <3>4 DEF HeldBy
  <2> QED BY <1>7, <2>1, <2>2
<1>9. \A s \in Requests, b \in Accounts :
           \/ (Holds(s, b)' <=> Holds(s, b)) /\ HeldBy(s, b)' = HeldBy(s, b)
           \/ ~Holds(s, b)' /\ HeldBy(s, b)' = {}
  <2> SUFFICES ASSUME NEW s \in Requests, NEW b \in Accounts
               PROVE  \/ (Holds(s, b)' <=> Holds(s, b)) /\ HeldBy(s, b)' = HeldBy(s, b)
                      \/ ~Holds(s, b)' /\ HeldBy(s, b)' = {}
    OBVIOUS
  <2>1. CASE s = r
    BY <1>1, <1>6, <1>8, <2>1, MovedTypes
  <2>2. CASE s # r
    <3>1. HeldBy(s, b)' = HeldBy(s, b)
      BY <1>6, <1>8, <2>2 DEF HeldBy
    <3> QED BY <1>1, <2>2, <3>1, MovedTypes
  <2> QED BY <2>1, <2>2
<1> QED BY <1>1, <1>8, <1>9, MovedTypes, HeldAsBefore DEF Sound

LEMMA ReleaseStep ==
  ASSUME Sound, NEW x \in Instances \cup {Leaked},
         slots' \in [Accounts -> SUBSET Slot],
         \A b \in Accounts : slots'[b] \in {slots[b], slots[b] \ HeldBy(x, b)},
         UNCHANGED <<pc, req>>
  PROVE  Sound'
<1>1. SlotsFine'
  BY SubsetFine DEF Sound
<1>2. x \notin Requests
  BY LeasesAssumption
<1>3. \A s \in Requests, b \in Accounts : HeldBy(s, b)' = HeldBy(s, b)
  BY <1>2 DEF HeldBy
<1>4. \A s \in Requests, b \in Accounts : Holds(s, b)' <=> Holds(s, b)
  BY DEF Holds
<1>5. SlotsAccounted'
  BY <1>3, <1>4, HeldAsBefore
<1> QED BY <1>1, <1>5 DEF Sound, Placed, PlacedAt

LEMMA TimerStep ==
  ASSUME Sound, Timer
  PROVE  Sound' /\ UNCHANGED req
<1>1. slots \in [Accounts -> SUBSET Slot]
  BY DEF Sound, SlotsFine
<1>2. ASSUME NEW i \in Instances, RetryReleases(i)
      PROVE  Sound'
  <2>1. \A b \in Accounts : slots'[b] \in {slots[b], slots[b] \ HeldBy(i, b)}
    BY <1>2 DEF RetryReleases
  <2>2. slots' \in [Accounts -> SUBSET Slot]
    BY <1>1, <1>2 DEF RetryReleases
  <2> QED BY <1>2, <2>1, <2>2, ReleaseStep DEF RetryReleases
<1>3. ASSUME NEW a \in Accounts, LeaseExpires(a)
      PROVE  Sound'
  <2>1. \A b \in Accounts : slots'[b] \in {slots[b], slots[b] \ HeldBy(Leaked, b)}
    BY <1>1, <1>3 DEF LeaseExpires
  <2>2. slots' \in [Accounts -> SUBSET Slot]
    BY <1>1, <1>3 DEF LeaseExpires
  <2> QED BY <1>3, <2>1, <2>2, ReleaseStep DEF LeaseExpires
<1>4. UNCHANGED <<pc, req, slots>> => Sound'
  BY DEF Sound, Placed, PlacedAt, SlotsFine, SlotsAccounted, HeldBy, Holds
<1> QED BY <1>2, <1>3, <1>4 DEF Timer, CooldownEnds, RetryReleases, LeaseExpires

LEMMA CrashStep ==
  ASSUME Sound, NEW i \in Instances, Crash(i)
  PROVE  Sound' /\ \A r \in Requests : req'[r] \in {req[r], Fresh}
<1> DEFINE died == {r \in Requests : req[r].inst = i}
           h == [x \in Holders |-> IF x \in died \cup {i} THEN Leaked ELSE x]
<1>1. /\ slots' = [a \in Accounts |->
                     {IF l.by \in died \cup {i} THEN [l EXCEPT !.by = Leaked] ELSE l : l \in slots[a]}]
      /\ pc' = [r \in Requests |-> IF r \in died THEN "done" ELSE pc[r]]
      /\ req' = [r \in Requests |-> IF r \in died THEN Fresh ELSE req[r]]
  BY DEF Crash
<1>2. died \subseteq Requests
  OBVIOUS
<1> HIDE DEF died
<1>3. h \in [Holders -> Holders]
  BY DEF Holders
<1>4. \A a \in Accounts : slots[a] \in SUBSET Slot /\ IsFiniteSet(slots[a]) /\ Within(slots[a])
  BY DEF Sound, SlotsFine
<1>5. ASSUME NEW l \in Slot
      PROVE  (IF l.by \in died \cup {i} THEN [l EXCEPT !.by = Leaked] ELSE l) = [l EXCEPT !.by = h[l.by]]
  <2>1. l.by \in Holders
    BY DEF Slot, Holders
  <2>2. CASE l.by \in died \cup {i}
    <3>1. h[l.by] = Leaked
      BY <2>1, <2>2
    <3> HIDE DEF h
    <3> QED BY <2>2, <3>1
  <2>3. CASE l.by \notin died \cup {i}
    <3>1. h[l.by] = l.by
      BY <2>1, <2>3
    <3> HIDE DEF h
    <3>2. [l EXCEPT !.by = l.by] = l
      BY DEF Slot
    <3> QED BY <2>3, <3>1, <3>2
  <2> QED BY <2>2, <2>3
<1> HIDE DEF h
<1>6. ASSUME NEW a \in Accounts
      PROVE  slots'[a] \in SUBSET Slot /\ IsFiniteSet(slots'[a]) /\ Within(slots'[a])
  <2>1. slots'[a] = {IF l.by \in died \cup {i} THEN [l EXCEPT !.by = Leaked] ELSE l : l \in slots[a]}
    BY <1>1
  <2>2. \A l \in slots[a] : (IF l.by \in died \cup {i} THEN [l EXCEPT !.by = Leaked] ELSE l)
                             = [l EXCEPT !.by = h[l.by]]
    BY <1>4, <1>5
  <2>3. slots'[a] \in SUBSET {[x EXCEPT !.by = h[x.by]] : x \in slots[a]}
    BY <2>1, <2>2
  <2> QED BY <1>3, <1>4, <2>3, Shrinks
<1>7. SlotsFine'
  <2>1. slots' \in [Accounts -> SUBSET Slot]
    BY <1>1, <1>6
  <2> QED BY <1>6, <2>1 DEF SlotsFine
<1>8. pc' \in [Requests -> Places] /\ req' \in [Requests -> Request]
  BY <1>1, Blank DEF Sound, Places
<1>9. Placed'
  <2> SUFFICES ASSUME NEW r \in Requests PROVE PlacedAt(r, pc'[r], req'[r])
    BY DEF Placed
  <2>1. PlacedAt(r, "done", Fresh)
    BY Blank DEF PlacedAt
  <2> QED BY <1>1, <2>1 DEF Sound, Placed
<1>10. \A s \in Requests, b \in Accounts :
           \/ (Holds(s, b)' <=> Holds(s, b)) /\ HeldBy(s, b)' = HeldBy(s, b)
           \/ ~Holds(s, b)' /\ HeldBy(s, b)' = {}
  <2> SUFFICES ASSUME NEW s \in Requests, NEW b \in Accounts
               PROVE  \/ (Holds(s, b)' <=> Holds(s, b)) /\ HeldBy(s, b)' = HeldBy(s, b)
                      \/ ~Holds(s, b)' /\ HeldBy(s, b)' = {}
    OBVIOUS
  <2>1. Leaked # s /\ i # s
    BY LeasesAssumption
  <2>2. slots'[b] = {IF l.by \in died \cup {i} THEN [l EXCEPT !.by = Leaked] ELSE l : l \in slots[b]}
    BY <1>1
  <2>3. \A l \in slots[b] : [l EXCEPT !.by = Leaked].by = Leaked
    BY <1>4 DEF Slot
  <2>4. CASE s \in died
    <3>1. ~Holds(s, b)'
      BY <1>1, <2>4, Blank DEF Holds
    <3>2. HeldBy(s, b)' = {}
      BY <2>1, <2>2, <2>3, <2>4 DEF HeldBy
    <3> QED BY <3>1, <3>2
  <2>5. CASE s \notin died
    <3>1. Holds(s, b)' <=> Holds(s, b)
      BY <1>1, <2>5 DEF Holds
    <3>2. HeldBy(s, b)' = HeldBy(s, b)
      BY <2>1, <2>2, <2>3, <2>5 DEF HeldBy
    <3> QED BY <3>1, <3>2
  <2> QED BY <2>4, <2>5
<1>11. SlotsAccounted'
  BY <1>10, HeldAsBefore
<1> QED BY <1>1, <1>7, <1>8, <1>9, <1>11 DEF Sound
-----------------------------------------------------------------------------
(* Every step.                                                             *)

LEMMA RequestStep ==
  ASSUME Sound, Rest, NEW r \in Requests, Proceed(r) \/ Failing(r)
  PROVE  Sound' /\ \E O \in SUBSET Accounts : Moved(r, O)
<1>1. Uses(r) \in SUBSET Accounts /\ \A a \in Accounts : Uses(r) \ {a} \in SUBSET Accounts
  BY DEF Uses
<1>2. CASE Moved(r, Uses(r)) /\ UNCHANGED slots
  BY <1>1, <1>2, KeepsSlots
<1>3. CASE \E a \in Accounts, n \in {0, 1} :
             req[r].inst \in Instances /\ Return(r, a, n) /\ Moved(r, Uses(r) \ {a})
  <2>1. PICK a \in Accounts, n \in {0, 1} :
             req[r].inst \in Instances /\ Return(r, a, n) /\ Moved(r, Uses(r) \ {a})
    BY <1>3
  <2>2. n \in Nat
    OBVIOUS
  <2>3. Sound'
    BY <2>1, <2>2, ReturnsSlot
  <2> QED BY <1>1, <2>1, <2>3
<1>4. CASE Begin(r)
  BY <1>2, <1>4, BeginStep
<1>5. CASE Select(r)
  BY <1>2, <1>5, SelectStep
<1>6. CASE Claim(r)
  BY <1>6, ClaimStep
<1>7. CASE ClaimNext(r)
  BY <1>7, ClaimNextStep
<1>8. CASE Hydrated(r)
  BY <1>2, <1>8, HydratedStep
<1>9. CASE Rebound(r)
  BY <1>3, <1>9, ReboundStep
<1>10. CASE StaleRow(r)
  BY <1>3, <1>10, StaleRowStep
<1>11. CASE Bind(r)
  BY <1>2, <1>11, BindStep
<1>12. CASE SetBinding(r)
  BY <1>2, <1>12, SetBindingStep
<1>13. CASE TakeNotice(r) \/ Notified(r) \/ Poll(r) \/ GiveUp(r) \/ Cancel(r)
  BY <1>2, <1>13, WaitingStep
<1>14. CASE Sending(r)
  BY <1>3, <1>14, SendingStep
<1>15. CASE StoreFails(r)
  BY <1>15, StoreFailsStep
<1> QED BY <1>4, <1>5, <1>6, <1>7, <1>8, <1>9, <1>10, <1>11, <1>12, <1>13, <1>14, <1>15
        DEF Proceed, Selecting, Failing

(* The steps of nobody's request.                                          *)
Around ==
  \/ Timer
  \/ \E i \in Instances : Crash(i)
  \/ \E a \in Accounts : ChangeLimit(a) \/ RemoveRow(a)
  \/ \E k \in Keys : BindingExpires(k)
  \/ UNCHANGED vars

LEMMA NextParts ==
  ASSUME [Next]_vars
  PROVE  (\E r \in Requests : Proceed(r) \/ Failing(r)) \/ Around
BY DEF Next, Around

LEMMA AroundStep ==
  ASSUME Sound, Around
  PROVE  Sound' /\ \A r \in Requests : req'[r] \in {req[r], Fresh}
<1>1. CASE UNCHANGED <<pc, req, slots>>
  BY <1>1 DEF Sound, Placed, PlacedAt, SlotsFine, SlotsAccounted, HeldBy, Holds
<1>2. CASE Timer
  BY <1>2, TimerStep
<1>3. CASE \E i \in Instances : Crash(i)
  BY <1>3, CrashStep
<1> QED BY <1>1, <1>2, <1>3 DEF Around, ChangeLimit, RemoveRow, BindingExpires, vars

LEMMA StepSound ==
  ASSUME Sound, Rest, [Next]_vars
  PROVE  Sound'
BY NextParts, RequestStep, AroundStep

LEMMA ReturnRest ==
  ASSUME Sound, Rest, NEW r \in Requests, NEW a, NEW n \in {0, 1}, Return(r, a, n)
  PROVE  events' \in 0 .. MaxEvents /\ woken' \in [Requests -> BOOLEAN]
<1>1. woken' \in [Requests -> BOOLEAN]
  BY DEF Return, Announce
<1>2. \E m \in 0 .. 2 : Events(m)
  BY DEF Return
<1>3. events' \in 0 .. MaxEvents
  BY <1>2, LeasesAssumption DEF Events, Rest
<1> QED BY <1>1, <1>3

LEMMA StepRest ==
  ASSUME Sound, Rest, [Next]_vars
  PROVE  Rest'
<1>1. ASSUME NEW r \in Requests, Sending(r)
      PROVE  Rest'
  <2>1. req[r].own \in Accounts
    BY <1>1 DEF Sending, AccountFails, TeamLimited, Finish, Sound, Placed, PlacedAt
  <2>2. \E n \in {0, 1} : Return(r, req[r].own, n)
    BY <1>1 DEF Sending, AccountFails, TeamLimited, Finish, ReturnFailed
  <2>3. events' \in 0 .. MaxEvents /\ woken' \in [Requests -> BOOLEAN]
    BY <2>2, ReturnRest
  <2>4. UNCHANGED <<limit, rows, bound>> /\ cool' \in {cool, cool \cup {req[r].own}}
    BY <1>1 DEF Sending, AccountFails, TeamLimited, Finish, ReturnFailed, Quiet
  <2> QED BY <2>1, <2>3, <2>4 DEF Rest
<1>2. ASSUME NEW r \in Requests, Rebound(r) \/ StaleRow(r)
      PROVE  Rest'
  <2>1. events' \in 0 .. MaxEvents /\ woken' \in [Requests -> BOOLEAN]
    BY <1>2, ReturnRest DEF Rebound, StaleRow
  <2>2. bound' \in [Keys -> Accounts \cup {None}]
    BY <1>2 DEF Rebound, StaleRow, Rest
  <2>3. UNCHANGED <<limit, rows, cool>>
    BY <1>2 DEF Rebound, StaleRow, Quiet
  <2> QED BY <2>1, <2>2, <2>3 DEF Rest
<1>3. ASSUME NEW r \in Requests, Bind(r) \/ SetBinding(r)
      PROVE  Rest'
  <2>1. req[r].own \in Accounts
    BY <1>3 DEF Bind, SetBinding, Sound, Placed, PlacedAt
  <2>2. bound' \in [Keys -> Accounts \cup {None}]
    BY <1>3, <2>1 DEF Bind, SetBinding, Rest
  <2> QED BY <1>3, <2>2 DEF Bind, SetBinding, Same, Rest
<1>4. ASSUME NEW r \in Requests, StoreFails(r)
      PROVE  Rest'
  <2>1. woken' \in [Requests -> BOOLEAN]
    BY <1>4 DEF StoreFails, Announce
  <2>2. events' \in 0 .. MaxEvents
    BY <1>4, LeasesAssumption DEF StoreFails, Events, Rest
  <2> QED BY <1>4, <2>1, <2>2 DEF StoreFails, Quiet, Rest
<1>5. ASSUME NEW r \in Requests,
             TakeNotice(r) \/ Notified(r) \/ Poll(r) \/ GiveUp(r) \/ Cancel(r)
      PROVE  Rest'
  BY <1>5 DEF TakeNotice, Notified, Poll, Again, GiveUp, Cancel, Same, Rest
<1>6. ASSUME NEW r \in Requests,
             Begin(r) \/ Select(r) \/ Claim(r) \/ ClaimNext(r) \/ Hydrated(r)
      PROVE  Rest'
  BY <1>6 DEF Begin, Select, Claim, ClaimNext, Hydrated, Same, Rest
<1>7. ASSUME NEW i \in Instances, Crash(i)
      PROVE  Rest'
  <2>1. woken' \in [Requests -> BOOLEAN]
    BY <1>7 DEF Crash, Rest
  <2>2. events' \in 0 .. MaxEvents
    BY <1>7, LeasesAssumption DEF Crash, Events, Rest
  <2> QED BY <1>7, <2>1, <2>2 DEF Crash, Quiet, Rest
<1>8. ASSUME Timer
      PROVE  Rest'
  BY <1>8 DEF Timer, RetryReleases, LeaseExpires, CooldownEnds, Same, Rest
<1>9. ASSUME NEW a \in Accounts, ChangeLimit(a) \/ RemoveRow(a)
      PROVE  Rest'
  <2>1. events' \in 0 .. MaxEvents
    BY <1>9, LeasesAssumption DEF ChangeLimit, RemoveRow, Events, Rest
  <2>2. limit' \in [Accounts -> Limits] /\ rows' \subseteq Accounts
    BY <1>9 DEF ChangeLimit, RemoveRow, Rest
  <2> QED BY <1>9, <2>1, <2>2 DEF ChangeLimit, RemoveRow, Rest
<1>10. ASSUME NEW k \in Keys, BindingExpires(k)
       PROVE  Rest'
  <2>1. events' \in 0 .. MaxEvents
    BY <1>10, LeasesAssumption DEF BindingExpires, Events, Rest
  <2> QED BY <1>10, <2>1 DEF BindingExpires, Quiet, Rest
<1>11. UNCHANGED vars => Rest'
  BY DEF vars, Rest
<1> QED BY <1>1, <1>2, <1>3, <1>4, <1>5, <1>6, <1>7, <1>8, <1>9, <1>10, <1>11, NextParts
        DEF Around, Proceed, Selecting, Failing

-----------------------------------------------------------------------------
LEMMA InitSound ==
  ASSUME Init
  PROVE  Sound /\ Rest
<1>1. Rest
  BY LeasesAssumption DEF Init, Rest
<1>2. Placed
  BY Blank DEF Init, Placed, PlacedAt
<1>3. SlotsFine
  <2>1. IsFiniteSet({}) /\ Within({})
    BY FS_EmptySet DEF Within
  <2> QED BY <2>1 DEF Init, SlotsFine
<1>4. SlotsAccounted
  BY Blank DEF Init, SlotsAccounted, Holds, HeldBy
<1>5. pc \in [Requests -> Places] /\ req \in [Requests -> Request]
  BY Blank DEF Init, Places
<1> QED BY <1>1, <1>2, <1>3, <1>4, <1>5 DEF Sound

(* The inductive invariant: types, what a record shows at its place, who   *)
(* holds the slots and how many they are (claimAccountSlot, Release and    *)
(* every return in the attempt loop).                                      *)
THEOREM LeasesSafe == Spec => []IInv
<1>1. Init => IInv
  BY InitSound, Parts
<1>2. ASSUME IInv, [Next]_vars
      PROVE  IInv'
  <2>1. Sound /\ Rest
    BY <1>2, Parts
  <2>2. Sound' /\ Rest'
    BY <1>2, <2>1, StepSound, StepRest
  <2> QED BY <2>2 DEF IInv, Sound, Rest, TypeOK, SlotsFine, Within, LimitKept
<1> QED BY <1>1, <1>2, PTL DEF Spec
(* Every variable keeps its type.                                          *)
THEOREM LeasesTyped == Spec => []TypeOK
<1>1. IInv => TypeOK
  BY DEF IInv
<1> QED BY <1>1, LeasesSafe, PTL

(* Whatever is changed, released twice, retried or left to expire, slots   *)
(* that are out together are no more than the limit one of them was        *)
(* granted under (acquireLeaseScript; limits changed while leases are out).*)
THEOREM LimitKeptSafe == Spec => []LimitKept
<1>1. IInv => LimitKept
  BY DEF IInv
<1> QED BY <1>1, LeasesSafe, PTL

(* A request holds one slot of each account it uses and none of any other, *)
(* at every place between its arrival and its end (claimAccountSlot,       *)
(* Release, completeNormalLease, finalizingBody).                          *)
THEOREM SlotsAccountedSafe == Spec => []SlotsAccounted
<1>1. IInv => SlotsAccounted
  BY DEF IInv
<1> QED BY <1>1, LeasesSafe, PTL

(* No way of selection, planned, pinned, bound or rebound, leads back to   *)
(* an account the request has barred (candidateExcluded).                  *)
THEOREM NotSentBackSafe == Spec => NotSentBack
<1> DEFINE Honest == \A r \in Requests :
             req'[r].own \notin {None, req[r].own} => req'[r].own \notin req[r].barred
<1>1. ASSUME IInv, [Next]_vars
      PROVE  Honest
  <2>1. Sound /\ Rest
    BY <1>1, Parts
  <2>2. ASSUME NEW r \in Requests, Proceed(r) \/ Failing(r)
        PROVE  Honest
    <3>1. PICK O \in SUBSET Accounts : Moved(r, O)
      BY <2>1, <2>2, RequestStep
    <3>2. PICK p \in Places, q \in Request :
             Goto(r, p, q) /\ (q.own \notin {None, req[r].own} => q.own \notin req[r].barred)
      BY <3>1 DEF Moved
    <3>3. req'[r] = q /\ \A s \in Requests \ {r} : req'[s] = req[s]
      BY <2>1, <3>2 DEF Goto, Sound
    <3> QED BY <3>2, <3>3
  <2>3. CASE Around
    BY <2>1, <2>3, AroundStep, Blank
  <2> QED BY <1>1, <2>2, <2>3, NextParts
<1>2. [Next]_vars /\ IInv => [Honest]_vars
  BY <1>1
<1> QED BY <1>2, LeasesSafe, PTL DEF Spec, NotSentBack

(* A session whose bound account is merely busy stays with it: only a      *)
(* request that was not listed all accounts, or that one has failed,       *)
(* replaces the binding (completeNormalLease, selector_session.go:295).    *)
THEOREM SaturationKeepsBindingSafe == Spec => SaturationKeepsBinding
<1> DEFINE Caused == \A k \in Keys :
             bound[k] # None /\ bound'[k] \notin {None, bound[k]} =>
               \E r \in Requests : /\ KeyOf[r] = k /\ pc'[r] # pc[r]
                                  /\ (req[r].cand # Accounts \/ req[r].barred # {})
<1>1. ASSUME IInv, [Next]_vars
      PROVE  Caused
  <2>1. Sound /\ Rest /\ bound \in [Keys -> Accounts \cup {None}]
    BY <1>1, Parts DEF Rest
  <2>2. CASE UNCHANGED bound
    BY <2>2
  <2>3. ASSUME NEW r \in Requests, Bind(r)
        PROVE  Caused
    <3>1. bound[KeyOf[r]] \in {None, req[r].own} \/ UNCHANGED bound
      BY <2>3 DEF Bind
    <3>2. bound' \in {bound, [bound EXCEPT ![KeyOf[r]] = req[r].own]}
      BY <2>3 DEF Bind
    <3> QED BY <2>1, <3>1, <3>2
  <2>4. ASSUME NEW r \in Requests, SetBinding(r)
        PROVE  Caused
    <3>1. req[r].cand # Accounts \/ req[r].barred # {}
      BY <2>1, <2>4 DEF SetBinding, Sound, Placed, PlacedAt
    <3>2. pc[r] = "set" /\ pc'[r] = "send"
      BY <2>1, <2>4 DEF SetBinding, Selected, Goto, Sound
    <3>3. bound' = [bound EXCEPT ![KeyOf[r]] = req[r].own]
      BY <2>4 DEF SetBinding
    <3> QED BY <2>1, <3>1, <3>2, <3>3
  <2>5. ASSUME NEW r \in Requests, StaleRow(r)
        PROVE  Caused
    <3>1. \/ UNCHANGED bound
          \/ bound' = [k \in Keys |-> IF bound[k] = req[r].at THEN None ELSE bound[k]]
      BY <2>5 DEF StaleRow
    <3> QED BY <3>1
  <2>6. ASSUME NEW k \in Keys, BindingExpires(k)
        PROVE  Caused
    BY <2>1, <2>6 DEF BindingExpires
  <2>7. ASSUME NEW r \in Requests, Proceed(r) \/ Failing(r)
        PROVE  UNCHANGED bound \/ Bind(r) \/ SetBinding(r) \/ StaleRow(r)
    BY <2>7 DEF Proceed, Selecting, Sending, Failing, Begin, Select, Claim, ClaimNext, Hydrated,
                Rebound, TakeNotice, Notified, Poll, Again, AccountFails, TeamLimited, Finish,
                StoreFails, GiveUp, Cancel
  <2>8. Around => UNCHANGED bound \/ \E k \in Keys : BindingExpires(k)
    BY DEF Around, Timer, RetryReleases, LeaseExpires, CooldownEnds, Crash, ChangeLimit, RemoveRow, vars
  <2> QED BY <1>1, <2>2, <2>3, <2>4, <2>5, <2>6, <2>7, <2>8, NextParts
<1>2. [Next]_vars /\ IInv => [Caused]_vars
  BY <1>1
<1> QED BY <1>2, LeasesSafe, PTL DEF Spec, SaturationKeepsBinding

-----------------------------------------------------------------------------
(* The rounds of a request.                                                *)

(* What a request has tried: as many accounts as it counts attempts, and   *)
(* the one it sends on besides; the account at hand is not barred before   *)
(* it is selected.                                                         *)
RoundOK(p, q) ==
  /\ IsFiniteSet(q.barred)
  /\ q.attempt < MaxAttempts
  /\ q.attempt <= Cardinality(q.barred)
  /\ p = "send" => q.attempt < Cardinality(q.barred)
  /\ p \in {"claim", "hydrate", "bind", "set"} => q.own \notin q.barred

AttemptsCounted == \A r \in Requests : RoundOK(pc[r], req[r])

(* Until it ends a request only ever bars more accounts, and whenever it   *)
(* comes to send on an account it is the first time.                       *)
OnceAt(r) ==
  /\ pc'[r] # "done" => req[r].barred \subseteq req'[r].barred
  /\ pc'[r] = "send" /\ pc[r] # "send" => req'[r].own \in req'[r].barred \ req[r].barred

EachAccountOnce == [][\A r \in Requests : OnceAt(r)]_vars

(* What a step does to the count and to the barred accounts: it ends the   *)
(* request, goes on, selects an account, or begins the next attempt.       *)
Effect(r, p, q) ==
  \/ p = "done" /\ q = Fresh
  \/ /\ pc[r] # "send" /\ p # "send"
     /\ q.attempt = req[r].attempt
     /\ q.barred \in {req[r].barred, req[r].barred \cup {req[r].at}}
     /\ q.own \notin q.barred
  \/ /\ pc[r] # "send" /\ p = "send"
     /\ q.attempt = req[r].attempt
     /\ q.own \in Accounts \ req[r].barred
     /\ q.barred = req[r].barred \cup {q.own}
  \/ /\ pc[r] = "send" /\ p = "select"
     /\ q.attempt \in {req[r].attempt, req[r].attempt + 1}
     /\ q.attempt < MaxAttempts
     /\ q.barred = req[r].barred

Goes(r) == \E p \in Places, q \in Request : Goto(r, p, q) /\ Effect(r, p, q)

LEMMA FreshRound == ASSUME NEW p, p # "send" PROVE RoundOK(p, Fresh)
<1>1. Fresh.barred = {} /\ Fresh.attempt = 0
  BY DEF Fresh
<1>2. IsFiniteSet({}) /\ Cardinality({}) = 0
  BY FS_EmptySet
<1>3. MaxAttempts \in Nat \ {0}
  BY LeasesAssumption
<1> QED BY <1>1, <1>2, <1>3 DEF RoundOK

(* Each of these effects keeps the rounds in order.                        *)
LEMMA EffectSound ==
  ASSUME Sound, NEW r \in Requests, RoundOK(pc[r], req[r]),
         NEW p \in Places, NEW q \in Request, Effect(r, p, q)
  PROVE  /\ RoundOK(p, q)
         /\ p # "done" => req[r].barred \subseteq q.barred
         /\ p = "send" /\ pc[r] # "send" => q.own \in q.barred \ req[r].barred
<1> DEFINE B == req[r].barred
           n == req[r].attempt
<1>0. /\ req[r] \in Request /\ n \in Nat /\ q.attempt \in Nat /\ MaxAttempts \in Nat
      /\ IsFiniteSet(B) /\ Cardinality(B) \in Nat /\ n <= Cardinality(B) /\ n < MaxAttempts
      /\ pc[r] = "send" => n < Cardinality(B)
  BY LeasesAssumption, FS_CardinalityType DEF Sound, RoundOK, Request
<1>a. ASSUME NEW x
      PROVE  /\ IsFiniteSet(B \cup {x}) /\ Cardinality(B \cup {x}) \in Nat
             /\ Cardinality(B \cup {x}) = IF x \in B THEN Cardinality(B) ELSE Cardinality(B) + 1
  BY <1>0, FS_AddElement, FS_CardinalityType
<1>1. CASE p = "done" /\ q = Fresh
  BY <1>1, FreshRound
<1>2. CASE /\ pc[r] # "send" /\ p # "send"
           /\ q.attempt = n
           /\ q.barred \in {B, B \cup {req[r].at}}
           /\ q.own \notin q.barred
  <2>1. IsFiniteSet(q.barred) /\ q.attempt <= Cardinality(q.barred)
    <3>1. CASE q.barred = B
      BY <1>0, <1>2, <3>1
    <3>2. CASE q.barred = B \cup {req[r].at}
      <4> DEFINE C == B \cup {req[r].at}
      <4>1. IsFiniteSet(C) /\ Cardinality(C) \in {Cardinality(B), Cardinality(B) + 1}
        BY <1>a
      <4> HIDE DEF B, C
      <4>2. n <= Cardinality(C)
        BY <1>0, <4>1
      <4> QED BY <1>2, <3>2, <4>1, <4>2 DEF C
    <3> QED BY <1>2, <3>1, <3>2
  <2> QED BY <1>0, <1>2, <2>1 DEF RoundOK
<1>3. CASE /\ pc[r] # "send" /\ p = "send"
           /\ q.attempt = n
           /\ q.own \in Accounts \ B
           /\ q.barred = B \cup {q.own}
  <2>1. /\ IsFiniteSet(B \cup {q.own}) /\ n <= Cardinality(B \cup {q.own})
        /\ n < Cardinality(B \cup {q.own})
    BY <1>0, <1>3, <1>a
  <2> QED BY <1>0, <1>3, <2>1 DEF RoundOK
<1>4. CASE /\ pc[r] = "send" /\ p = "select"
           /\ q.attempt \in {n, n + 1}
           /\ q.attempt < MaxAttempts
           /\ q.barred = B
  <2>1. q.attempt <= Cardinality(B)
    BY <1>0, <1>4
  <2> QED BY <1>0, <1>4, <2>1 DEF RoundOK
<1> QED BY <1>1, <1>2, <1>3, <1>4 DEF Effect

LEMMA OverGoes == ASSUME NEW r \in Requests, Over(r) PROVE Goes(r)
<1>1. "done" \in Places /\ Fresh \in Request
  BY Blank DEF Places
<1> QED BY <1>1 DEF Over, Goes, Effect

LEMMA OnwardGoes ==
  ASSUME NEW r \in Requests, NEW q \in Request, pc[r] # "send", Onward(r, q),
         q.attempt = req[r].attempt, q.own = None,
         q.barred \in {req[r].barred, req[r].barred \cup {req[r].at}}
  PROVE  Goes(r)
<1>1. q.own \notin q.barred /\ "plan" \in Places /\ "missed" \in Places
  BY Blank DEF Request, Places
<1>2. Goto(r, "plan", q) \/ Over(r) \/ Goto(r, "missed", q)
  BY DEF Onward
<1> QED BY <1>1, <1>2, OverGoes DEF Goes, Effect

LEMMA SelectedGoes ==
  ASSUME NEW r \in Requests, NEW q \in Request, NEW a \in Accounts \ req[r].barred,
         pc[r] # "send", Selected(r, a, q),
         q.attempt = req[r].attempt, q.barred = req[r].barred
  PROVE  Goes(r)
<1> DEFINE w == [q EXCEPT !.own = a, !.at = None, !.why = "plan", !.barred = @ \cup {a}]
<1>1. /\ w \in Request /\ w.own = a /\ w.attempt = req[r].attempt
      /\ w.barred = req[r].barred \cup {a}
  BY DEF Request
<1>2. Goto(r, "send", w) /\ "send" \in Places
  BY DEF Selected, Places
<1> HIDE DEF w
<1> QED BY <1>1, <1>2 DEF Goes, Effect

(* A request that goes on at a place where nothing is sent.                *)
LEMMA PlainGoes ==
  ASSUME NEW r \in Requests, NEW p \in Places, NEW q \in Request, Goto(r, p, q),
         pc[r] # "send", p # "send", q.attempt = req[r].attempt,
         q.barred \in {req[r].barred, req[r].barred \cup {req[r].at}}, q.own \notin q.barred
  PROVE  Goes(r)
BY DEF Goes, Effect

LEMMA ClaimSlotGoes ==
  ASSUME Sound, NEW r \in Requests, NEW q \in Request, pc[r] # "send", ClaimSlot(r, q),
         q.attempt = req[r].attempt, q.barred = req[r].barred, q.own \notin q.barred,
         PlacedAt(r, "claim", q)
  PROVE  Goes(r)
<1>1. CASE Missed(r, q)
  <2>1. CASE q.why = "pin"
    <3>1. Goto(r, "missed", q) /\ "missed" \in Places
      BY <1>1, <2>1 DEF Missed, Places
    <3> QED BY <3>1, PlainGoes
  <2>2. CASE q.why = "plan"
    <3> DEFINE w == [q EXCEPT !.at = None]
    <3>1. Onward(r, w)
      BY <1>1, <2>2 DEF Missed
    <3>2. w \in Request /\ w.own = None /\ w.attempt = q.attempt /\ w.barred = q.barred
      BY <2>2 DEF Request, PlacedAt
    <3> HIDE DEF w
    <3> QED BY <3>1, <3>2, OnwardGoes
  <2>3. CASE q.why = "rebind"
    <3>1. Selected(r, q.own, q)
      BY <1>1, <2>3 DEF Missed
    <3>2. q.own \in Accounts \ req[r].barred
      BY <2>3 DEF PlacedAt
    <3> QED BY <3>1, <3>2, SelectedGoes
  <2> QED BY <2>1, <2>2, <2>3 DEF Request
<1>2. CASE Goto(r, "hydrate", q)
  <2>1. "hydrate" \in Places
    BY DEF Places
  <2> QED BY <1>2, <2>1, PlainGoes
<1> QED BY <1>1, <1>2 DEF ClaimSlot

LEMMA ChoosingGoes ==
  ASSUME Sound, Rest, NEW r \in Requests, RoundOK(pc[r], req[r]),
         Begin(r) \/ Select(r) \/ Claim(r) \/ ClaimNext(r)
  PROVE  Goes(r)
<1>0. req[r] \in Request /\ PlacedAt(r, pc[r], req[r])
  BY DEF Sound, Placed
<1>1. CASE Begin(r)
  <2>1. PICK inst \in Entries[r], pin \in Pins[r] :
          LET usable == rows \cap (Accounts \ cool)
              cand == IF pin = None THEN usable ELSE {pin} \cap usable
              read == [Fresh EXCEPT !.inst = inst, !.pin = pin, !.cand = cand,
                                    !.lim = limit, !.plan = cand]
          IN IF cand = {} THEN Over(r) ELSE Goto(r, "select", read)
    <3>1. rows \ cool = rows \cap (Accounts \ cool)
      BY DEF Rest
    <3> QED BY <1>1, <3>1 DEF Begin
  <2> DEFINE cand == IF pin = None THEN rows \cap (Accounts \ cool)
                                   ELSE {pin} \cap rows \cap (Accounts \ cool)
             read == [Fresh EXCEPT !.inst = inst, !.pin = pin, !.cand = cand,
                                   !.lim = limit, !.plan = cand]
  <2>2. inst \in Instances /\ pin \in Accounts \cup {None} /\ cand \in SUBSET Accounts
        /\ limit \in [Accounts -> Nat]
    BY LeasesAssumption DEF Rest
  <2>3. Over(r) \/ Goto(r, "select", read)
    <3>1. {pin} \cap (rows \cap (Accounts \ cool)) = {pin} \cap rows \cap (Accounts \ cool)
      OBVIOUS
    <3> QED BY <2>1, <3>1
  <2> HIDE DEF cand
  <2>4. read \in Request /\ read.own = None /\ read.attempt = 0 /\ read.barred = {}
    BY <2>2, Blank DEF Request, Fresh
  <2> HIDE DEF read
  <2>5. pc[r] = "idle" /\ req[r].attempt = 0 /\ req[r].barred = {}
    <3>1. pc[r] = "idle"
      BY <1>1 DEF Begin
    <3>2. req[r] = Fresh
      BY <1>0, <3>1 DEF PlacedAt
    <3>3. Fresh.attempt = 0 /\ Fresh.barred = {}
      BY DEF Fresh
    <3> QED BY <3>1, <3>2, <3>3
  <2>6. "select" \in Places
    BY DEF Places
  <2> QED BY <2>3, <2>4, <2>5, <2>6, OverGoes, PlainGoes
<1>2. CASE Select(r)
  <2> DEFINE q == [req[r] EXCEPT !.stickyTried = TRUE]
             tried == IF Pinned(r) THEN req[r].pin
                      ELSE IF Sticky(r) /\ ~req[r].stickyTried THEN bound[KeyOf[r]] ELSE None
             w == [q EXCEPT !.at = tried, !.why = "pin"]
  <2>1. pc[r] = "select" /\ req[r].own = None
    BY <1>0, <1>2 DEF Select, PlacedAt
  <2>2. q \in Request /\ q.own = None /\ q.attempt = req[r].attempt /\ q.barred = req[r].barred
    BY <1>0, <2>1 DEF Request
  <2>3. (Usable(r, tried) /\ Goto(r, "claim", w)) \/ Onward(r, q)
    BY <1>2 DEF Select
  <2> HIDE DEF tried
  <2>4. ASSUME Usable(r, tried), Goto(r, "claim", w) PROVE Goes(r)
    <3>1. tried \in Accounts
      BY <1>0, <2>4 DEF Usable, Request
    <3>2. w \in Request /\ w.own = None /\ w.attempt = req[r].attempt /\ w.barred = req[r].barred
      BY <1>0, <2>1, <3>1 DEF Request
    <3> HIDE DEF w
    <3>3. w.own \notin w.barred /\ "claim" \in Places
      BY <3>2, Blank DEF Request, Places
    <3> QED BY <2>1, <2>4, <3>2, <3>3, PlainGoes
  <2> HIDE DEF q, w
  <2> QED BY <2>1, <2>2, <2>3, <2>4, OnwardGoes
<1>3. CASE Claim(r)
  <2>1. pc[r] = "claim" /\ ClaimSlot(r, req[r]) /\ req[r].own \notin req[r].barred
    BY <1>3 DEF Claim, RoundOK
  <2> QED BY <1>0, <2>1, ClaimSlotGoes
<1>4. CASE ClaimNext(r)
  <2>1. PICK a \in req[r].plan \ req[r].barred :
          ClaimSlot(r, [req[r] EXCEPT !.plan = @ \ {a}, !.at = a, !.why = "plan"])
    BY <1>4 DEF ClaimNext
  <2> DEFINE q == [req[r] EXCEPT !.plan = @ \ {a}, !.at = a, !.why = "plan"]
  <2>2. pc[r] = "plan" /\ req[r].own = None /\ req[r].inst \in Instances
    BY <1>0, <1>4 DEF ClaimNext, PlacedAt
  <2>3. a \in Accounts \ req[r].barred
    BY <1>0 DEF Request
  <2>4. /\ q \in Request /\ q.own = None /\ q.attempt = req[r].attempt /\ q.inst = req[r].inst
        /\ q.barred = req[r].barred /\ q.at = a /\ q.why = "plan"
    BY <1>0, <2>2, <2>3 DEF Request
  <2>5. ClaimSlot(r, q)
    BY <2>1
  <2> HIDE DEF q
  <2>6. PlacedAt(r, "claim", q) /\ q.own \notin q.barred
    BY <2>2, <2>3, <2>4, Blank DEF PlacedAt, Request
  <2> QED BY <2>2, <2>4, <2>5, <2>6, ClaimSlotGoes
<1> QED BY <1>1, <1>2, <1>3, <1>4

LEMMA BindingGoes ==
  ASSUME Sound, Rest, NEW r \in Requests, RoundOK(pc[r], req[r]),
         Hydrated(r) \/ Rebound(r) \/ StaleRow(r) \/ Bind(r) \/ SetBinding(r)
  PROVE  Goes(r)
<1>0. req[r] \in Request /\ PlacedAt(r, pc[r], req[r])
  BY DEF Sound, Placed
<1>1. CASE Hydrated(r)
  <2>1. pc[r] = "hydrate" /\ req[r].at \in Accounts \ req[r].barred
    BY <1>0, <1>1 DEF Hydrated, PlacedAt
  <2> DEFINE w == [req[r] EXCEPT !.own = req[r].at, !.at = None]
  <2>2. Goto(r, "bind", w) \/ Selected(r, req[r].at, req[r])
    BY <1>1 DEF Hydrated
  <2>3. /\ w \in Request /\ w.own = req[r].at /\ w.attempt = req[r].attempt
        /\ w.barred = req[r].barred /\ "bind" \in Places
    BY <1>0, <2>1 DEF Request, Places
  <2> HIDE DEF w
  <2> QED BY <1>0, <2>1, <2>2, <2>3, PlainGoes, SelectedGoes
<1>2. CASE Rebound(r)
  <2>1. pc[r] = "hydrate" /\ req[r].at \in Accounts \ req[r].barred
    BY <1>0, <1>2 DEF Rebound, PlacedAt
  <2> QED BY <1>0, <1>2, <2>1, SelectedGoes DEF Rebound
<1>3. CASE StaleRow(r)
  <2> DEFINE a == req[r].at
             q == [req[r] EXCEPT !.barred = @ \cup {a}, !.at = None, !.why = "plan"]
  <2>1. /\ pc[r] = "hydrate" /\ a \in Accounts /\ req[r].own \notin req[r].barred
        /\ req[r].why # "rebind" => req[r].own = None
        /\ req[r].why = "rebind" => a # req[r].own
    BY <1>0, <1>3 DEF StaleRow, PlacedAt, RoundOK
  <2>2. /\ q \in Request /\ q.own = req[r].own /\ q.attempt = req[r].attempt
        /\ q.barred = req[r].barred \cup {req[r].at}
    BY <1>0, <2>1 DEF Request
  <2>3. \/ Over(r)
        \/ req[r].why = "rebind" /\ Goto(r, "set", q)
        \/ req[r].why # "rebind" /\ Onward(r, q)
    BY <1>3 DEF StaleRow
  <2> HIDE DEF q
  <2>4. ASSUME req[r].why = "rebind", Goto(r, "set", q) PROVE Goes(r)
    <3>1. q.own \notin q.barred /\ "set" \in Places
      BY <2>1, <2>2, <2>4 DEF Places
    <3> QED BY <2>1, <2>2, <2>4, <3>1, PlainGoes
  <2> QED BY <2>1, <2>2, <2>3, <2>4, OverGoes, OnwardGoes
<1>4. CASE Bind(r)
  <2> DEFINE q == req[r]
             b == bound[KeyOf[r]]
             w == [q EXCEPT !.at = b, !.why = "rebind"]
  <2>1. pc[r] = "bind" /\ q.own \in Accounts \ q.barred
    BY <1>0, <1>4 DEF Bind, PlacedAt, RoundOK
  <2>2. b \in Accounts \cup {None}
    BY <1>0, <1>4, LeasesAssumption DEF Bind, PlacedAt, Rest
  <2>3. Selected(r, q.own, q) \/ Goto(r, "claim", w) \/ Goto(r, "set", q)
    BY <1>4 DEF Bind
  <2> HIDE DEF b
  <2>4. /\ w \in Request /\ w.own = q.own /\ w.attempt = q.attempt /\ w.barred = q.barred
        /\ "claim" \in Places /\ "set" \in Places
    BY <1>0, <2>2 DEF Request, Places
  <2> HIDE DEF w
  <2> QED BY <1>0, <2>1, <2>3, <2>4, PlainGoes, SelectedGoes
<1>5. CASE SetBinding(r)
  <2>1. pc[r] = "set" /\ req[r].own \in Accounts \ req[r].barred
    BY <1>0, <1>5 DEF SetBinding, PlacedAt, RoundOK
  <2> QED BY <1>0, <1>5, <2>1, SelectedGoes DEF SetBinding
<1> QED BY <1>1, <1>2, <1>3, <1>4, <1>5

LEMMA WaitingGoes ==
  ASSUME Sound, NEW r \in Requests,
         TakeNotice(r) \/ Notified(r) \/ Poll(r) \/ GiveUp(r) \/ Cancel(r)
  PROVE  Goes(r)
<1>0. /\ pc[r] \in {"missed", "wait"} /\ req[r] \in Request /\ req[r].own = None
      /\ None \notin req[r].barred
  BY Blank DEF TakeNotice, Notified, Poll, GiveUp, Cancel, Sound, Placed, PlacedAt, Request
<1> DEFINE q == [req[r] EXCEPT !.plan = req[r].cand]
           w == [req[r] EXCEPT !.patient = FALSE, !.at = None, !.why = "plan"]
<1>1. /\ q \in Request /\ q.own = None /\ q.attempt = req[r].attempt /\ q.barred = req[r].barred
      /\ w \in Request /\ w.own = None /\ w.attempt = req[r].attempt /\ w.barred = req[r].barred
  BY <1>0 DEF Request
<1>2. "wait" \in Places /\ "claim" \in Places /\ "plan" \in Places
  BY DEF Places
<1>3. \/ Goto(r, "wait", req[r]) \/ Goto(r, "claim", req[r]) \/ Goto(r, "plan", q)
      \/ Onward(r, w) \/ Over(r)
  BY DEF TakeNotice, Notified, Poll, Again, GiveUp, Cancel
<1> HIDE DEF q, w
<1>4. Goto(r, "plan", q) => Goes(r)
  BY <1>0, <1>1, <1>2, PlainGoes
<1>5. Goto(r, "wait", req[r]) \/ Goto(r, "claim", req[r]) => Goes(r)
  BY <1>0, <1>2, PlainGoes
<1>6. Onward(r, w) => Goes(r)
  BY <1>0, <1>1, OnwardGoes
<1> QED BY <1>3, <1>4, <1>5, <1>6, OverGoes

LEMMA SendingGoes ==
  ASSUME Sound, NEW r \in Requests, RoundOK(pc[r], req[r]), Sending(r)
  PROVE  Goes(r)
<1>0. pc[r] = "send" /\ req[r] \in Request /\ req[r].attempt \in Nat /\ MaxAttempts \in Nat
      /\ req[r].attempt < MaxAttempts
  BY LeasesAssumption DEF Sending, AccountFails, TeamLimited, Finish, Sound, Request, RoundOK
<1>1. \/ Over(r)
      \/ NextAttempt(r, 0)
      \/ NextAttempt(r, 1) /\ req[r].attempt + 1 < MaxAttempts
  BY DEF Sending, AccountFails, TeamLimited, Finish, HasNext
<1>2. ASSUME NEW spent \in {0, 1}, NextAttempt(r, spent), req[r].attempt + spent < MaxAttempts
      PROVE  Goes(r)
  <2> DEFINE q == [req[r] EXCEPT !.attempt = @ + spent, !.own = None, !.patient = TRUE]
  <2>1. req[r].attempt + spent \in Nat /\ req[r].attempt + spent \in {req[r].attempt, req[r].attempt + 1}
    BY <1>0
  <2>2. q \in Request /\ q.attempt = req[r].attempt + spent /\ q.barred = req[r].barred
    BY <1>0, <2>1 DEF Request
  <2>3. Goto(r, "select", q) /\ "select" \in Places
    BY <1>2 DEF NextAttempt, Places
  <2> HIDE DEF q
  <2> QED BY <1>0, <1>2, <2>1, <2>2, <2>3 DEF Goes, Effect
<1>3. req[r].attempt + 0 < MaxAttempts
  BY <1>0
<1> QED BY <1>1, <1>2, <1>3, OverGoes

LEMMA RequestGoes ==
  ASSUME Sound, Rest, NEW r \in Requests, RoundOK(pc[r], req[r]), Proceed(r) \/ Failing(r)
  PROVE  Goes(r)
<1>1. StoreFails(r) => Goes(r)
  BY OverGoes DEF StoreFails
<1>2. CASE Begin(r) \/ Select(r) \/ Claim(r) \/ ClaimNext(r)
  BY <1>2, ChoosingGoes
<1>3. CASE Hydrated(r) \/ Rebound(r) \/ StaleRow(r) \/ Bind(r) \/ SetBinding(r)
  BY <1>3, BindingGoes
<1>4. CASE TakeNotice(r) \/ Notified(r) \/ Poll(r) \/ GiveUp(r) \/ Cancel(r)
  BY <1>4, WaitingGoes
<1>5. CASE Sending(r)
  BY <1>5, SendingGoes
<1> QED BY <1>1, <1>2, <1>3, <1>4, <1>5 DEF Proceed, Selecting, Failing

(* What is not a step of the request leaves it alone or ends it.           *)
LEMMA AroundRounds ==
  ASSUME Sound, Around, NEW r \in Requests
  PROVE  \/ pc'[r] = pc[r] /\ req'[r] = req[r]
         \/ pc'[r] = "done" /\ req'[r] = Fresh
<1>1. CASE \E i \in Instances : Crash(i)
  BY <1>1 DEF Crash
<1>2. CASE Timer
  BY <1>2 DEF Timer, RetryReleases, LeaseExpires, CooldownEnds
<1> QED BY <1>1, <1>2 DEF Around, ChangeLimit, RemoveRow, BindingExpires, vars

LEMMA RoundsStep ==
  ASSUME IInv, AttemptsCounted, [Next]_vars
  PROVE  AttemptsCounted' /\ \A r \in Requests : OnceAt(r)
<1>1. Sound /\ Rest
  BY Parts
<1> SUFFICES ASSUME NEW r \in Requests PROVE RoundOK(pc[r], req[r])' /\ OnceAt(r)
  BY DEF AttemptsCounted
<1>2. RoundOK(pc[r], req[r])
  BY DEF AttemptsCounted
<1>3. CASE pc'[r] = pc[r] /\ req'[r] = req[r]
  BY <1>2, <1>3 DEF RoundOK, OnceAt
<1>4. CASE pc'[r] = "done" /\ req'[r] = Fresh
  <2>1. RoundOK("done", Fresh)
    BY FreshRound
  <2> QED BY <1>4, <2>1 DEF RoundOK, OnceAt
<1>5. CASE Proceed(r) \/ Failing(r)
  <2>1. PICK p \in Places, q \in Request : Goto(r, p, q) /\ Effect(r, p, q)
    BY <1>1, <1>2, <1>5, RequestGoes DEF Goes
  <2>2. pc'[r] = p /\ req'[r] = q
    BY <1>1, <2>1 DEF Goto, Sound
  <2>3. /\ RoundOK(p, q)
        /\ p # "done" => req[r].barred \subseteq q.barred
        /\ p = "send" /\ pc[r] # "send" => q.own \in q.barred \ req[r].barred
    BY <1>1, <1>2, <2>1, EffectSound
  <2> QED BY <2>2, <2>3 DEF RoundOK, OnceAt
<1>6. ASSUME NEW s \in Requests, s # r, Proceed(s) \/ Failing(s)
      PROVE  pc'[r] = pc[r] /\ req'[r] = req[r]
  <2>1. \E p \in Places, q \in Request : Goto(s, p, q)
    BY <1>1, <1>6, RequestGoes, RequestStep DEF Moved
  <2> QED BY <1>1, <1>6, <2>1 DEF Goto, Sound
<1> QED BY <1>1, <1>3, <1>4, <1>5, <1>6, NextParts, AroundRounds

(* The attempt loop counts no more attempts than accounts it has barred,   *)
(* and never as many as its limit: an attempt that does not count, because *)
(* a team's limit is known to be reached, still costs the request an       *)
(* account, so that the loop cannot go round on the same ones.             *)
THEOREM RoundsCounted == Spec => []AttemptsCounted
<1>1. Init => AttemptsCounted
  <2> SUFFICES ASSUME Init, NEW r \in Requests PROVE RoundOK(pc[r], req[r])
    BY DEF AttemptsCounted
  <2>1. pc[r] = "idle" /\ req[r] = Fresh
    BY DEF Init
  <2>2. RoundOK("idle", Fresh)
    BY FreshRound
  <2> QED BY <2>1, <2>2
<1>2. IInv /\ AttemptsCounted /\ [Next]_vars => AttemptsCounted'
  BY RoundsStep
<1> QED BY <1>1, <1>2, LeasesSafe, PTL DEF Spec

(* A request selects an account to send on at most once, whether it was    *)
(* planned, pinned, bound, kept when the bound one was busy, or taken      *)
(* instead of the one at hand.                                             *)
THEOREM EachAccountIsSentOnce == Spec => EachAccountOnce
<1> DEFINE Once == \A r \in Requests : OnceAt(r)
<1>1. IInv /\ AttemptsCounted /\ [Next]_vars => [Once]_vars
  BY RoundsStep
<1> QED BY <1>1, LeasesSafe, RoundsCounted, PTL DEF Spec, EachAccountOnce

(* A request that has found its account busy has no slot of any account,   *)
(* in its record or in the shared store.                                   *)
WaitersHoldNothing ==
  \A r \in Requests : pc[r] \in {"missed", "wait"} =>
    req[r].own = None /\ \A a \in Accounts : HeldBy(r, a) = {}

(* Nobody waits while it holds what another waits for (awaitLeaseRetry is  *)
(* reached only after what was claimed has been returned).                 *)
THEOREM NoHoldAndWait == Spec => []WaitersHoldNothing
<1>1. ASSUME IInv PROVE WaitersHoldNothing
  <2> SUFFICES ASSUME NEW r \in Requests, pc[r] \in {"missed", "wait"}
               PROVE  req[r].own = None /\ \A a \in Accounts : HeldBy(r, a) = {}
    BY DEF WaitersHoldNothing
  <2>1. req[r].own = None
    BY <1>1 DEF IInv, Placed, PlacedAt
  <2>2. \A a \in Accounts : ~Holds(r, a)
    BY <2>1, Blank DEF Holds
  <2> QED BY <1>1, <2>1, <2>2 DEF IInv, SlotsAccounted
<1> QED BY <1>1, LeasesSafe, PTL
=============================================================================
