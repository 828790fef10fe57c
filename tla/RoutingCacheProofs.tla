------------------------- MODULE RoutingCacheProofs -------------------------
(***************************************************************************)
(* Proofs about RoutingCache for every set of models and of writers, every *)
(* choice of the periods and every bound on the writes and the clock.      *)
(***************************************************************************)
EXTENDS RoutingCache, TLAPS

(* The keys of the two layers are apart.                                   *)
LEMMA KeyFacts ==
  /\ \A f \in Keys : LayerOf(f) \in Layers
  /\ \A m \in Models, l \in Layers : KeyFor(m, l) \in Keys /\ LayerOf(KeyFor(m, l)) = l
  /\ \A m \in Models : m \in Keys /\ m # Base
  /\ Base \in Keys
  /\ Layers = {"base", "overlay"}
  BY RoutingAssumption DEF Keys, LayerOf, KeyFor, Layers

(* None is no record of any of the kinds that may be absent.               *)
LEMMA NoneFacts ==
  /\ None \notin Value /\ None \notin Snapshot /\ None \notin Result
  /\ None \notin Flight /\ None \notin Candidates /\ None \notin Override
  BY RoutingAssumption

(* Who waits for the base layer, and who for an overlay.                   *)
LEMMA AwaitingFacts ==
  ASSUME NEW f \in Keys
  PROVE  /\ Awaiting(f) \subseteq Models
         /\ \A m \in Awaiting(f) :
              pc[m] = IF LayerOf(f) = "base" THEN "awaitBase" ELSE "awaitOverlay"
  BY DEF Awaiting, LayerOf, Keys

(* A delivery of a value keeps the type of the loads.                      *)
LEMMA DeliverType ==
  ASSUME TypeOK, NEW f \in Keys, NEW value \in Value, NEW ver \in Nat, Deliver(f, value, ver)
  PROVE  /\ result' \in [Models -> [Layers -> Result \cup {None}]]
         /\ pc' \in [Models -> PCs]
         /\ \A m \in Models :
              /\ pc'[m] \in {"overlay", "awaitOverlay", "check"} => result'[m]["base"] # None
              /\ pc'[m] = "check" => result'[m]["overlay"] # None
<1> DEFINE new == [value |-> value, version |-> ver]
<1>1. new \in Result /\ new # None /\ LayerOf(f) \in Layers
  BY KeyFacts, NoneFacts DEF Result
<1>2. /\ result \in [Models -> [Layers -> Result \cup {None}]] /\ pc \in [Models -> PCs]
      /\ \A m \in Models :
           /\ pc[m] \in {"overlay", "awaitOverlay", "check"} => result[m]["base"] # None
           /\ pc[m] = "check" => result[m]["overlay"] # None
  BY DEF TypeOK
<1>3. \A m \in Models :
        /\ result'[m] = IF m \in Awaiting(f) THEN [result[m] EXCEPT ![LayerOf(f)] = new] ELSE result[m]
        /\ pc'[m] = IF m \in Awaiting(f) THEN After(LayerOf(f)) ELSE pc[m]
  BY DEF Deliver
<1>4. \A m \in Models : result'[m] \in [Layers -> Result \cup {None}]
  <2> HIDE DEF new
  <2> QED BY <1>1, <1>2, <1>3
<1>5. \A m \in Models : pc'[m] \in PCs
  BY <1>2, <1>3 DEF After, PCs
<1>6. result' \in [Models -> [Layers -> Result \cup {None}]] /\ pc' \in [Models -> PCs]
  BY <1>4, <1>5 DEF Deliver
<1>7. ASSUME NEW m \in Models
      PROVE  /\ pc'[m] \in {"overlay", "awaitOverlay", "check"} => result'[m]["base"] # None
             /\ pc'[m] = "check" => result'[m]["overlay"] # None
  <2>1. CASE m \notin Awaiting(f)
    BY <2>1, <1>2, <1>3
  <2>2. CASE m \in Awaiting(f) /\ LayerOf(f) = "base"
    <3>1. pc'[m] = "overlay" /\ result'[m]["base"] = new
      <4> HIDE DEF new
      <4> QED BY <2>2, <1>1, <1>2, <1>3, KeyFacts DEF After
    <3> QED BY <3>1, <1>1
  <2>3. CASE m \in Awaiting(f) /\ LayerOf(f) # "base"
    <3>1. LayerOf(f) = "overlay" /\ pc[m] = "awaitOverlay"
      BY <2>3, AwaitingFacts DEF LayerOf
    <3>2. result'[m]["overlay"] = new /\ result'[m]["base"] = result[m]["base"]
      <4> HIDE DEF new
      <4> QED BY <2>3, <3>1, <1>1, <1>2, <1>3, KeyFacts
    <3> QED BY <3>1, <3>2, <1>1, <1>2
  <2> QED BY <2>1, <2>2, <2>3
<1> QED BY <1>6, <1>7

(* The end of loads keeps their type.                                      *)
LEMMA ReturnType ==
  ASSUME TypeOK, NEW S \in SUBSET Models, Return(S)
  PROVE  /\ result' \in [Models -> [Layers -> Result \cup {None}]]
         /\ pc' \in [Models -> PCs]
         /\ checkTime' \in [Models -> Nat] /\ attempt' \in [Models -> Nat]
         /\ \A m \in Models :
              /\ pc'[m] \in {"overlay", "awaitOverlay", "check"} => result'[m]["base"] # None
              /\ pc'[m] = "check" => result'[m]["overlay"] # None
<1>1. Nothing \in [Layers -> Result \cup {None}]
  BY DEF Nothing
<1>2. /\ result' \in [Models -> [Layers -> Result \cup {None}]] /\ pc' \in [Models -> PCs]
      /\ checkTime' \in [Models -> Nat] /\ attempt' \in [Models -> Nat]
  BY <1>1 DEF Return, TypeOK, PCs
<1>3. \A m \in Models :
        /\ m \in S => pc'[m] = "idle"
        /\ m \notin S => pc'[m] = pc[m] /\ result'[m] = result[m]
  BY DEF Return
<1> QED BY <1>2, <1>3 DEF TypeOK

(* The initial states are well typed.                                      *)
LEMMA InitType == Init => TypeOK
<1> SUFFICES ASSUME Init PROVE TypeOK
  OBVIOUS
<1>1. /\ Idle \in [phase : {"idle", "committed", "cleared"}, layer : Layers]
      /\ Nothing \in [Layers -> Result \cup {None}]
  BY DEF Idle, Nothing, Layers
<1>2. \A m \in Models : pc[m] = "idle"
  BY DEF Init
<1> QED BY <1>1, <1>2 DEF Init, TypeOK, PCs

(* Every step keeps the types.                                             *)
LEMMA StepType == TypeOK /\ [Next]_vars => TypeOK'
<1> SUFFICES ASSUME TypeOK, [Next]_vars PROVE TypeOK'
  OBVIOUS
<1> USE RoutingAssumption
<1>1. ASSUME NEW w \in Writers, Commit(w) PROVE TypeOK'
  BY <1>1, KeyFacts DEF Commit, TypeOK, cacheVars, loaderVars, healthVars
<1>2. ASSUME NEW w \in Writers, EventLost(w) PROVE TypeOK'
  BY <1>2, KeyFacts DEF EventLost, Idle, TypeOK, cacheVars, loaderVars, healthVars
<1>3. ASSUME NEW w \in Writers, ClearHealthOverrides(w) PROVE TypeOK'
  BY <1>3 DEF ClearHealthOverrides, TypeOK, cacheVars, loaderVars
<1>19. ASSUME ClientKeyEvent PROVE TypeOK'
  BY <1>19 DEF ClientKeyEvent, TypeOK, databaseVars, cacheVars, loaderVars
<1>4. ASSUME NEW w \in Writers, Invalidate(w) PROVE TypeOK'
  <2>1. writer' \in [Writers -> [phase : {"idle", "committed", "cleared"}, layer : Layers]]
    BY <1>4, KeyFacts DEF Invalidate, Idle, TypeOK
  <2>2. /\ version' \in [Layers -> Nat] /\ applied' \in [Layers -> Nat]
        /\ cache' \in [Keys -> Snapshot \cup {None}]
        /\ assembled' \in [Models -> Candidates \cup {None}]
        /\ exposed' \in BOOLEAN
    BY <1>4 DEF Invalidate, TypeOK
  <2> QED BY <1>4, <2>1, <2>2 DEF Invalidate, TypeOK, loaderVars
<1>5. ASSUME UpdateHealth PROVE TypeOK'
  BY <1>5 DEF UpdateHealth, TypeOK, cacheVars, loaderVars, healthVars
<1>6. ASSUME ApplyHealth PROVE TypeOK'
  <2>1. override' \in Override
    BY <1>6 DEF ApplyHealth, TypeOK, Override, OverrideTtl
  <2> QED BY <1>6, <2>1 DEF ApplyHealth, TypeOK, cacheVars, loaderVars
<1>7. ASSUME NEW m \in Models, Begin(m) PROVE TypeOK'
  BY <1>7 DEF Begin, TypeOK, PCs, databaseVars, cacheVars, healthVars
<1>8. ASSUME NEW m \in Models, LookUp(m) PROVE TypeOK'
  <2>1. PICK l \in Layers :
          /\ pc[m] = l
          /\ IF Hit(m, l)
               THEN /\ result' = [result EXCEPT ![m][l] =
                         [value |-> cache[KeyFor(m, l)].value, version |-> version[l]]]
                    /\ pc' = [pc EXCEPT ![m] = After(l)]
               ELSE /\ pc' = [pc EXCEPT ![m] = IF l = "base" THEN "awaitBase" ELSE "awaitOverlay"]
                    /\ UNCHANGED result
          /\ UNCHANGED <<clock, databaseVars, cacheVars, flight, checkTime, attempt, healthVars, applied>>
    BY <1>8 DEF LookUp
  <2>2. CASE Hit(m, l)
    <3> DEFINE new == [value |-> cache[KeyFor(m, l)].value, version |-> version[l]]
    <3>1. new \in Result /\ new # None
      <4>1. cache[KeyFor(m, l)] \in Snapshot
        BY <2>2, KeyFacts DEF Hit, TypeOK
      <4>2. cache[KeyFor(m, l)].value \in Value /\ version[l] \in Nat
        BY <4>1 DEF Snapshot, TypeOK
      <4>3. new \in Result
        BY <4>2 DEF Result
      <4> QED BY <4>3, NoneFacts
    <3>2. /\ result' = [result EXCEPT ![m] = [result[m] EXCEPT ![l] = new]]
          /\ pc' = [pc EXCEPT ![m] = After(l)]
      BY <2>1, <2>2
    <3> HIDE DEF new
    <3>3. /\ result \in [Models -> [Layers -> Result \cup {None}]] /\ pc \in [Models -> PCs]
          /\ \A n \in Models :
               /\ pc[n] \in {"overlay", "awaitOverlay", "check"} => result[n]["base"] # None
               /\ pc[n] = "check" => result[n]["overlay"] # None
      BY DEF TypeOK
    <3>4. /\ result' \in [Models -> [Layers -> Result \cup {None}]] /\ pc' \in [Models -> PCs]
      BY <3>1, <3>2, <3>3 DEF After, PCs
    <3>5. /\ pc'[m] = After(l) /\ result'[m][l] = new
          /\ \A k \in Layers : k # l => result'[m][k] = result[m][k]
      BY <3>2, <3>3
    <3>6. /\ pc'[m] \in {"overlay", "awaitOverlay", "check"} => result'[m]["base"] # None
          /\ pc'[m] = "check" => result'[m]["overlay"] # None
      BY <2>1, <3>1, <3>3, <3>5, KeyFacts DEF After
    <3>7. \A n \in Models : n # m => pc'[n] = pc[n] /\ result'[n] = result[n]
      BY <3>2, <3>3
    <3>8. \A n \in Models :
            /\ pc'[n] \in {"overlay", "awaitOverlay", "check"} => result'[n]["base"] # None
            /\ pc'[n] = "check" => result'[n]["overlay"] # None
      BY <3>3, <3>6, <3>7
    <3> QED BY <2>1, <3>4, <3>8 DEF TypeOK, databaseVars, cacheVars, healthVars
  <2>3. CASE ~Hit(m, l)
    BY <2>1, <2>3, KeyFacts DEF TypeOK, PCs, databaseVars, cacheVars, healthVars
  <2> QED BY <2>2, <2>3
<1>9. ASSUME NEW m \in Models, Assemble(m) PROVE TypeOK'
  <2>1. assembled' \in [Models -> Candidates \cup {None}]
    <3>1. result[m]["base"] \in Result /\ result[m]["overlay"] \in Result
      BY <1>9, KeyFacts DEF Assemble, TypeOK
    <3>2. [base |-> result[m]["base"].value, overlay |-> result[m]["overlay"].value,
           expiresAt |-> checkTime[m] + Ttl] \in Candidates
      BY <3>1 DEF Result, Candidates, TypeOK
    <3> QED BY <1>9, <3>2 DEF Assemble, Keep, TypeOK
  <2>2. Return({m})
    BY <1>9 DEF Assemble
  <2> QED BY <1>9, <2>1, <2>2, ReturnType DEF Assemble, TypeOK, databaseVars, healthVars
<1>10. ASSUME NEW m \in Models, FilterFails(m) \/ Combined(m) PROVE TypeOK'
  <2>1. Return({m}) /\ UNCHANGED <<clock, databaseVars, cacheVars, flight, healthVars, applied>>
    BY <1>10 DEF FilterFails, Combined
  <2> QED BY <2>1, ReturnType DEF TypeOK, databaseVars, cacheVars, healthVars
<1>11. ASSUME NEW m \in Models, TryAgain(m) PROVE TypeOK'
  <2>1. Nothing \in [Layers -> Result \cup {None}]
    BY DEF Nothing
  <2>2. /\ pc' \in [Models -> PCs] /\ attempt' \in [Models -> Nat] /\ checkTime' \in [Models -> Nat]
        /\ result' \in [Models -> [Layers -> Result \cup {None}]]
    <3>1. result' \in [Models -> [Layers -> Result \cup {None}]]
      BY <1>11, <2>1 DEF TryAgain, TypeOK
    <3>2. CASE attempt[m] < Attempts
      <4>1. /\ pc' = [pc EXCEPT ![m] = "base"]
            /\ attempt' = [attempt EXCEPT ![m] = attempt[m] + 1]
            /\ checkTime' = [checkTime EXCEPT ![m] = clock]
        BY <1>11, <3>2 DEF TryAgain
      <4> QED BY <3>1, <4>1 DEF TypeOK, PCs
    <3>3. CASE ~(attempt[m] < Attempts)
      <4>1. pc' = [pc EXCEPT ![m] = "combined"] /\ UNCHANGED <<attempt, checkTime>>
        BY <1>11, <3>3 DEF TryAgain
      <4> QED BY <3>1, <4>1 DEF TypeOK, PCs
    <3> QED BY <3>1, <3>2, <3>3
  <2>3. /\ pc'[m] \in {"base", "combined"}
        /\ \A n \in Models : n # m => pc'[n] = pc[n] /\ result'[n] = result[n]
    BY <1>11 DEF TryAgain, TypeOK
  <2>4. \A n \in Models :
          /\ pc'[n] \in {"overlay", "awaitOverlay", "check"} => result'[n]["base"] # None
          /\ pc'[n] = "check" => result'[n]["overlay"] # None
    BY <2>3 DEF TypeOK
  <2> QED BY <1>11, <2>2, <2>4 DEF TryAgain, TypeOK, databaseVars, cacheVars, healthVars
<1>12. ASSUME NEW f \in Keys, Depart(f) PROVE TypeOK'
  <2>1. CASE cache[f] # None /\ cache[f].version = version[LayerOf(f)] /\ clock < cache[f].expiresAt
    <3>1. cache[f].value \in Value /\ cache[f].version \in Nat
      BY <2>1 DEF TypeOK, Snapshot
    <3>2. Deliver(f, cache[f].value, cache[f].version) /\ UNCHANGED flight
      BY <1>12, <2>1 DEF Depart
    <3> QED BY <1>12, <3>1, <3>2, DeliverType
            DEF Depart, TypeOK, databaseVars, cacheVars, healthVars
  <2>2. CASE ~(cache[f] # None /\ cache[f].version = version[LayerOf(f)] /\ clock < cache[f].expiresAt)
    <3>1. \E fallback \in Snapshot \cup {None} :
            flight' = [flight EXCEPT ![f] = [at |-> clock, version |-> version[LayerOf(f)],
                                             fallback |-> fallback, value |-> None]]
      <4>1. IF cache[f] # None /\ cache[f].version = version[LayerOf(f)] /\ clock < cache[f].staleUntil
              THEN cache[f] \in Snapshot \cup {None} ELSE TRUE
        BY DEF TypeOK
      <4> QED BY <1>12, <2>2, <4>1 DEF Depart
    <3>2. flight' \in [Keys -> Flight \cup {None}]
      BY <3>1, KeyFacts DEF Flight, TypeOK
    <3>3. UNCHANGED <<pc, result>>
      BY <1>12, <2>2 DEF Depart
    <3> QED BY <1>12, <3>2, <3>3 DEF Depart, TypeOK, databaseVars, cacheVars, healthVars
  <2> QED BY <2>1, <2>2
<1>13. ASSUME NEW f \in Keys, Query(f) PROVE TypeOK'
  <2>1. flight' \in [Keys -> Flight \cup {None}]
    <3>1. [rev |-> db[LayerOf(f)], health |-> IF f = Base THEN dbHealth ELSE 0,
           readAt |-> IF f = Base THEN clock ELSE 0] \in Value
      BY KeyFacts DEF Value, TypeOK
    <3>2. flight[f] \in Flight
      BY <1>13 DEF Query, TypeOK
    <3> QED BY <1>13, <3>1, <3>2 DEF Query, Flight, TypeOK
  <2> QED BY <1>13, <2>1 DEF Query, TypeOK, databaseVars, cacheVars, loaderVars, healthVars
<1>14. ASSUME NEW f \in Keys, Fallback(f) PROVE TypeOK'
  <2>1. /\ flight[f].at \in Nat /\ flight[f].version \in Nat
        /\ flight[f].fallback \in Snapshot /\ flight[f].fallback.value \in Value
    BY <1>14 DEF Fallback, TypeOK, Flight, Snapshot
  <2>2. Deliver(f, flight[f].fallback.value, flight[f].version)
    BY <1>14 DEF Fallback
  <2>3. cache' \in [Keys -> Snapshot \cup {None}] /\ flight' \in [Keys -> Flight \cup {None}]
    <3> DEFINE until == EarlierOf(flight[f].at + RetryTtl, flight[f].fallback.staleUntil)
               new == [flight[f].fallback EXCEPT !.expiresAt = until]
    <3>1. until \in Nat
      BY <2>1 DEF EarlierOf, Snapshot
    <3>2. new \in Snapshot
      <4> HIDE DEF until
      <4> QED BY <2>1, <3>1 DEF Snapshot
    <3>3. cache' = [cache EXCEPT ![f] = new]
      BY <1>14 DEF Fallback, Reused
    <3>4. cache' \in [Keys -> Snapshot \cup {None}]
      <4> HIDE DEF new
      <4> QED BY <3>2, <3>3 DEF TypeOK
    <3> QED BY <1>14, <3>4 DEF Fallback, TypeOK
  <2> QED BY <1>14, <2>1, <2>2, <2>3, DeliverType DEF Fallback, TypeOK, databaseVars, healthVars
<1>15. ASSUME NEW f \in Keys, QueryFails(f) PROVE TypeOK'
  <2>1. Return(Awaiting(f)) /\ Awaiting(f) \subseteq Models
    BY <1>15, AwaitingFacts DEF QueryFails
  <2>2. flight' \in [Keys -> Flight \cup {None}]
    BY <1>15 DEF QueryFails, TypeOK
  <2> QED BY <1>15, <2>1, <2>2, ReturnType
          DEF QueryFails, TypeOK, databaseVars, cacheVars, healthVars
<1>16. ASSUME NEW f \in Keys, Land(f) PROVE TypeOK'
  <2>1. flight[f].at \in Nat /\ flight[f].version \in Nat /\ flight[f].value \in Value
    BY <1>16 DEF Land, TypeOK, Flight
  <2>2. Deliver(f, flight[f].value, flight[f].version)
    BY <1>16 DEF Land
  <2>3. cache' \in [Keys -> Snapshot \cup {None}] /\ flight' \in [Keys -> Flight \cup {None}]
    <3> DEFINE new == [value |-> flight[f].value, version |-> version[LayerOf(f)],
                       expiresAt |-> flight[f].at + Ttl,
                       staleUntil |-> flight[f].at + Ttl + StaleTtl]
    <3>1. new \in Snapshot
      BY <2>1, KeyFacts DEF Snapshot, TypeOK
    <3>2. cache' = [cache EXCEPT ![f] = new] \/ cache' = cache
      BY <1>16 DEF Land
    <3>3. cache' \in [Keys -> Snapshot \cup {None}]
      <4> HIDE DEF new
      <4> QED BY <3>1, <3>2 DEF TypeOK
    <3> QED BY <1>16, <3>3 DEF Land, TypeOK
  <2> QED BY <1>16, <2>1, <2>2, <2>3, DeliverType DEF Land, TypeOK, databaseVars, healthVars
<1>17. ASSUME Tick PROVE TypeOK'
  BY <1>17 DEF Tick, TypeOK, databaseVars, cacheVars, loaderVars, healthVars
<1>18. CASE UNCHANGED vars
  BY <1>18 DEF vars, TypeOK
<1> QED
  BY <1>1, <1>2, <1>3, <1>4, <1>5, <1>6, <1>7, <1>8, <1>9, <1>10, <1>11, <1>12, <1>13,
     <1>14, <1>15, <1>16, <1>17, <1>18, <1>19 DEF Next, Database, Load, Fly

(* Every variable keeps its type, and no load compares generations with    *)
(* half of its layers.                                                     *)
THEOREM RoutingTyped == Spec => []TypeOK
  BY InitType, StepType, PTL DEF Spec

-----------------------------------------------------------------------------
(* A value of a layer with the generation it was read under: the layer is  *)
(* that far at least, and while it is no further the value is as new as    *)
(* every invalidation applied.                                             *)
Backed(l, value, ver) ==
  /\ ver <= version[l]
  /\ ver = version[l] => value.rev >= applied[l]

BackedFlight(f) ==
  /\ flight[f].version <= version[LayerOf(f)]
  /\ flight[f].value # None => Backed(LayerOf(f), flight[f].value, flight[f].version)
  /\ flight[f].fallback # None =>
       /\ flight[f].fallback.version = flight[f].version
       /\ Backed(LayerOf(f), flight[f].fallback.value, flight[f].version)

BackedResult(m) ==
  \A l \in Layers :
    result[m][l] # None => Backed(l, result[m][l].value, result[m][l].version)

BackedList(m) ==
  assembled[m] # None => /\ assembled[m].base.rev >= applied["base"]
                         /\ assembled[m].overlay.rev >= applied["overlay"]

(* Wherever a value is held, in a snapshot, a flight or a load, it comes   *)
(* with a generation that backs it.                                        *)
RoutingInv ==
  /\ TypeOK
  /\ \A l \in Layers : applied[l] <= db[l]
  /\ \A f \in Keys : cache[f] # None => Backed(LayerOf(f), cache[f].value, cache[f].version)
  /\ \A f \in Keys : flight[f] # None => BackedFlight(f)
  /\ \A m \in Models : BackedResult(m)
  /\ \A m \in Models : BackedList(m)

(* A backed value that is delivered leaves every load backed.              *)
LEMMA DeliverBacked ==
  ASSUME RoutingInv, NEW f \in Keys, NEW value \in Value, NEW ver \in Nat,
         Deliver(f, value, ver), Backed(LayerOf(f), value, ver),
         UNCHANGED <<version, applied>>
  PROVE  \A m \in Models : BackedResult(m)'
<1> DEFINE new == [value |-> value, version |-> ver]
<1>1. ASSUME NEW m \in Models, NEW l \in Layers, result'[m][l] # None
      PROVE  Backed(l, result'[m][l].value, result'[m][l].version)
  <2>1. result'[m][l] = IF m \in Awaiting(f) /\ l = LayerOf(f) THEN new ELSE result[m][l]
    <3>1. /\ result \in [Models -> [Layers -> Result \cup {None}]]
          /\ result'[m] = IF m \in Awaiting(f) THEN [result[m] EXCEPT ![LayerOf(f)] = new]
                                               ELSE result[m]
      BY DEF Deliver, RoutingInv, TypeOK
    <3> HIDE DEF new
    <3> QED BY <3>1, KeyFacts
  <2>2. CASE m \in Awaiting(f) /\ l = LayerOf(f)
    BY <2>1, <2>2
  <2>3. CASE ~(m \in Awaiting(f) /\ l = LayerOf(f))
    BY <1>1, <2>1, <2>3 DEF RoutingInv, BackedResult
  <2> QED BY <2>2, <2>3
<1> QED BY <1>1 DEF BackedResult, Backed

(* The end of loads leaves every load backed.                              *)
LEMMA ReturnBacked ==
  ASSUME RoutingInv, NEW S \in SUBSET Models, Return(S), UNCHANGED <<version, applied>>
  PROVE  \A m \in Models : BackedResult(m)'
<1>1. \A m \in Models : result'[m] = IF m \in S THEN Nothing ELSE result[m]
  BY DEF Return
<1> QED BY <1>1 DEF BackedResult, Backed, RoutingInv, Nothing

(* The initial states satisfy the invariant.                               *)
LEMMA InitRouting == Init => RoutingInv
<1> SUFFICES ASSUME Init PROVE RoutingInv
  OBVIOUS
<1>1. \A m \in Models, l \in Layers : result[m][l] = None
  BY DEF Init, Nothing
<1>2. \A m \in Models : assembled[m] = None
  BY DEF Init
<1> QED BY <1>1, <1>2, InitType DEF Init, RoutingInv, BackedResult, BackedList

(* Every step keeps the invariant.                                         *)
LEMMA StepRouting == RoutingInv /\ [Next]_vars => RoutingInv'
<1> SUFFICES ASSUME RoutingInv, [Next]_vars PROVE RoutingInv'
  OBVIOUS
<1>0. TypeOK /\ TypeOK'
  BY StepType DEF RoutingInv
<1> USE RoutingAssumption
<1>1. ASSUME NEW w \in Writers, Commit(w) PROVE RoutingInv'
  <2>1. \A l \in Layers : applied'[l] <= db'[l]
    BY <1>0, <1>1 DEF Commit, RoutingInv, TypeOK
  <2> QED BY <1>0, <1>1, <2>1
          DEF Commit, RoutingInv, BackedFlight, BackedResult, BackedList, Backed,
              cacheVars, loaderVars
<1>2. ASSUME UNCHANGED <<db, cacheVars, flight, result, applied>> PROVE RoutingInv'
  BY <1>0, <1>2
     DEF RoutingInv, BackedFlight, BackedResult, BackedList, Backed, cacheVars
<1>3. ASSUME NEW w \in Writers, Invalidate(w) PROVE RoutingInv'
  <2> DEFINE l == writer[w].layer
  <2>1. /\ l \in Layers
        /\ version' = [version EXCEPT ![l] = version[l] + 1]
        /\ applied' = [applied EXCEPT ![l] = db[l]]
        /\ \A f \in Keys : cache'[f] = IF LayerOf(f) = l THEN None ELSE cache[f]
        /\ \A m \in Models : assembled'[m] = None
        /\ UNCHANGED <<db, flight, result>>
    BY <1>0, <1>3 DEF Invalidate, TypeOK, loaderVars
  <2> HIDE DEF l
  <2>3. \A k \in Layers : applied'[k] <= db'[k]
    BY <1>0, <2>1 DEF RoutingInv, TypeOK
  <2>4. ASSUME NEW f \in Keys, cache'[f] # None
        PROVE  Backed(LayerOf(f), cache[f].value, cache[f].version)'
    <3>1. cache'[f] = cache[f] /\ cache[f] \in Snapshot
      BY <1>0, <2>1, <2>4 DEF TypeOK
    <3>2. cache[f].value \in Value /\ cache[f].version \in Nat /\ LayerOf(f) \in Layers
      BY <3>1, KeyFacts DEF Snapshot
    <3>3. Backed(LayerOf(f), cache[f].value, cache[f].version)
      BY <2>4, <3>1 DEF RoutingInv
    <3> QED BY <1>0, <2>1, <3>1, <3>2, <3>3 DEF Backed, TypeOK
  <2>5. ASSUME NEW f \in Keys, flight'[f] # None PROVE BackedFlight(f)'
    <3>1. flight'[f] = flight[f] /\ flight[f] \in Flight /\ LayerOf(f) \in Layers /\ BackedFlight(f)
      BY <1>0, <2>1, <2>5, KeyFacts DEF RoutingInv, TypeOK
    <3>2. flight[f].version \in Nat /\ version[LayerOf(f)] \in Nat /\ version[l] \in Nat
      BY <1>0, <2>1, <3>1 DEF Flight, TypeOK
    <3> QED BY <1>0, <2>1, <3>1, <3>2 DEF BackedFlight, Backed, TypeOK
  <2>6. ASSUME NEW m \in Models PROVE BackedResult(m)'
    <3>1. ASSUME NEW k \in Layers, result[m][k] # None
          PROVE  Backed(k, result[m][k].value, result[m][k].version)'
      <4>1. result[m][k] \in Result /\ version[k] \in Nat /\ version[l] \in Nat
        BY <1>0, <2>1, <3>1 DEF TypeOK
      <4>2. Backed(k, result[m][k].value, result[m][k].version) /\ result[m][k].version \in Nat
        BY <3>1, <4>1 DEF RoutingInv, BackedResult, Result
      <4> QED BY <1>0, <2>1, <4>1, <4>2 DEF Backed, TypeOK
    <3> QED BY <2>1, <3>1 DEF BackedResult
  <2>7. \A m \in Models : BackedList(m)'
    BY <2>1 DEF BackedList
  <2> QED BY <1>0, <2>3, <2>4, <2>5, <2>6, <2>7 DEF RoutingInv
<1>4. ASSUME NEW m \in Models, Begin(m) PROVE RoutingInv'
  BY <1>2, <1>4 DEF Begin, databaseVars
<1>5. ASSUME NEW m \in Models, LookUp(m) PROVE RoutingInv'
  <2>1. PICK l \in Layers :
          \/ /\ Hit(m, l)
             /\ result' = [result EXCEPT ![m][l] =
                  [value |-> cache[KeyFor(m, l)].value, version |-> version[l]]]
          \/ UNCHANGED result
    BY <1>5 DEF LookUp
  <2>2. UNCHANGED <<db, cacheVars, flight, applied>>
    BY <1>5 DEF LookUp, databaseVars
  <2>3. CASE UNCHANGED result
    BY <1>2, <2>2, <2>3
  <2>4. CASE /\ Hit(m, l)
             /\ result' = [result EXCEPT ![m][l] =
                  [value |-> cache[KeyFor(m, l)].value, version |-> version[l]]]
    <3> DEFINE new == [value |-> cache[KeyFor(m, l)].value, version |-> version[l]]
    <3>1. Backed(l, new.value, new.version)
      BY <2>4, KeyFacts DEF Hit, RoutingInv
    <3>2. \A n \in Models, k \in Layers :
            result'[n][k] = IF n = m /\ k = l THEN new ELSE result[n][k]
      <4> HIDE DEF new
      <4>1. result' = [result EXCEPT ![m] = [result[m] EXCEPT ![l] = new]]
        BY <2>4 DEF new
      <4> QED BY <1>0, <4>1 DEF TypeOK
    <3>3. \A n \in Models : BackedResult(n)'
      <4>1. ASSUME NEW n \in Models, NEW k \in Layers, result'[n][k] # None
            PROVE  Backed(k, result'[n][k].value, result'[n][k].version)
        <5> HIDE DEF new
        <5> QED BY <3>1, <3>2, <4>1 DEF RoutingInv, BackedResult
      <4> QED BY <2>2, <4>1 DEF BackedResult, Backed, cacheVars
    <3> QED BY <1>0, <2>2, <3>3
            DEF RoutingInv, BackedFlight, BackedList, Backed, cacheVars
  <2> QED BY <2>1, <2>3, <2>4
<1>6. ASSUME NEW m \in Models, Assemble(m) PROVE RoutingInv'
  <2>1. Return({m}) /\ UNCHANGED <<version, applied, db, cache, flight>>
    BY <1>6 DEF Assemble, databaseVars
  <2>2. \A n \in Models : BackedResult(n)'
    BY <2>1, ReturnBacked
  <2>3. \A l \in Layers : result[m][l] # None /\ result[m][l].version = version[l]
    BY <1>0, <1>6, KeyFacts DEF Assemble, Stable, TypeOK
  <2>4. \A l \in Layers : result[m][l].value.rev >= applied[l]
    BY <2>3 DEF RoutingInv, BackedResult, Backed
  <2>5. \A n \in Models : BackedList(n)'
    BY <1>0, <1>6, <2>1, <2>4, KeyFacts DEF Assemble, Keep, BackedList, RoutingInv, TypeOK
  <2> QED BY <1>0, <2>1, <2>2, <2>5 DEF RoutingInv, BackedFlight, Backed
<1>7. ASSUME NEW m \in Models, FilterFails(m) \/ Combined(m) PROVE RoutingInv'
  <2>1. Return({m}) /\ UNCHANGED <<db, version, cache, assembled, flight, applied>>
    BY <1>7 DEF FilterFails, Combined, databaseVars, cacheVars
  <2>2. \A n \in Models : BackedResult(n)'
    BY <2>1, ReturnBacked
  <2> QED BY <1>0, <2>1, <2>2 DEF RoutingInv, BackedFlight, BackedList, Backed
<1>8. ASSUME NEW m \in Models, TryAgain(m) PROVE RoutingInv'
  <2>1. /\ result' = [result EXCEPT ![m] = Nothing]
        /\ UNCHANGED <<db, version, cache, assembled, flight, applied>>
    BY <1>8 DEF TryAgain, databaseVars, cacheVars
  <2>2. \A n \in Models : BackedResult(n)'
    BY <1>0, <2>1 DEF RoutingInv, BackedResult, Backed, Nothing, TypeOK
  <2> QED BY <1>0, <2>1, <2>2 DEF RoutingInv, BackedFlight, BackedList, Backed
<1>9. ASSUME NEW f \in Keys, Depart(f) PROVE RoutingInv'
  <2> DEFINE current == cache[f] # None /\ cache[f].version = version[LayerOf(f)]
  <2>1. UNCHANGED <<db, version, cache, assembled, applied>>
    BY <1>9 DEF Depart, databaseVars, cacheVars
  <2>2. CASE current /\ clock < cache[f].expiresAt
    <3>1. Deliver(f, cache[f].value, cache[f].version) /\ UNCHANGED flight
      BY <1>9, <2>2 DEF Depart
    <3>2. cache[f].value \in Value /\ cache[f].version \in Nat
      BY <1>0, <2>2 DEF TypeOK, Snapshot
    <3>3. Backed(LayerOf(f), cache[f].value, cache[f].version)
      BY <2>2 DEF RoutingInv
    <3>4. \A m \in Models : BackedResult(m)'
      BY <2>1, <3>1, <3>2, <3>3, DeliverBacked
    <3> QED BY <1>0, <2>1, <3>1, <3>4 DEF RoutingInv, BackedFlight, BackedList, Backed
  <2>3. CASE ~(current /\ clock < cache[f].expiresAt)
    <3> DEFINE new == [at |-> clock, version |-> version[LayerOf(f)],
                       fallback |-> IF current /\ clock < cache[f].staleUntil
                                      THEN cache[f] ELSE None,
                       value |-> None]
    <3>1. flight' = [flight EXCEPT ![f] = new] /\ UNCHANGED result
      BY <1>9, <2>3 DEF Depart
    <3>2. /\ new.version = version[LayerOf(f)] /\ new.value = None
          /\ new.fallback # None =>
               /\ new.fallback.version = new.version
               /\ Backed(LayerOf(f), new.fallback.value, new.version)
      BY DEF RoutingInv
    <3>3. version[LayerOf(f)] \in Nat
      BY <1>0, KeyFacts DEF TypeOK
    <3>4. ASSUME NEW g \in Keys, flight'[g] # None PROVE BackedFlight(g)'
      <4> HIDE DEF new
      <4> QED BY <1>0, <2>1, <3>1, <3>2, <3>3, <3>4 DEF RoutingInv, BackedFlight, Backed, TypeOK
    <3> QED BY <1>0, <2>1, <3>1, <3>4 DEF RoutingInv, BackedResult, BackedList, Backed
  <2> QED BY <2>2, <2>3
<1>10. ASSUME NEW f \in Keys, Query(f) PROVE RoutingInv'
  <2> DEFINE value == [rev |-> db[LayerOf(f)], health |-> IF f = Base THEN dbHealth ELSE 0,
                       readAt |-> IF f = Base THEN clock ELSE 0]
  <2>1. /\ flight' = [flight EXCEPT ![f].value = value] /\ flight[f] # None
        /\ UNCHANGED <<db, version, cache, assembled, result, applied>>
    BY <1>10 DEF Query, databaseVars, cacheVars, loaderVars
  <2>2. LayerOf(f) \in Layers /\ value.rev >= applied[LayerOf(f)] /\ BackedFlight(f)
    BY <1>0, <2>1, KeyFacts DEF RoutingInv, TypeOK
  <2> HIDE DEF value
  <2>3. /\ flight'[f].version = flight[f].version /\ flight'[f].fallback = flight[f].fallback
        /\ flight'[f].value = value
        /\ \A g \in Keys : g # f => flight'[g] = flight[g]
    <3>1. flight[f] \in Flight
      BY <1>0, <2>1 DEF TypeOK
    <3> QED BY <1>0, <2>1, <3>1 DEF TypeOK, Flight
  <2>4. BackedFlight(f)'
    BY <2>1, <2>2, <2>3 DEF BackedFlight, Backed
  <2>5. \A g \in Keys : flight'[g] # None => BackedFlight(g)'
    BY <2>1, <2>3, <2>4 DEF RoutingInv, BackedFlight, Backed
  <2> QED BY <1>0, <2>1, <2>5 DEF RoutingInv, BackedResult, BackedList, Backed
<1>11. ASSUME NEW f \in Keys, Fallback(f) PROVE RoutingInv'
  <2> DEFINE stale == flight[f].fallback
             until == EarlierOf(flight[f].at + RetryTtl, stale.staleUntil)
  <2>1. /\ cache' = [cache EXCEPT ![f] = [stale EXCEPT !.expiresAt = until]]
        /\ flight' = [flight EXCEPT ![f] = None]
        /\ flight[f] # None /\ stale # None
        /\ Deliver(f, stale.value, flight[f].version)
        /\ UNCHANGED <<db, version, assembled, applied>>
    BY <1>11 DEF Fallback, Reused, databaseVars
  <2>2. /\ stale \in Snapshot /\ stale.value \in Value /\ flight[f].version \in Nat
        /\ stale.version = flight[f].version
        /\ Backed(LayerOf(f), stale.value, flight[f].version)
    BY <1>0, <2>1 DEF RoutingInv, BackedFlight, TypeOK, Flight, Snapshot
  <2>3. \A m \in Models : BackedResult(m)'
    BY <2>1, <2>2, DeliverBacked
  <2>4. ASSUME NEW g \in Keys, cache'[g] # None
        PROVE  Backed(LayerOf(g), cache'[g].value, cache'[g].version)
    <3>1. /\ g = f => cache'[g].value = stale.value /\ cache'[g].version = stale.version
          /\ g # f => cache'[g] = cache[g]
      <4> HIDE DEF until, stale
      <4> QED BY <1>0, <2>1, <2>2 DEF TypeOK, Snapshot
    <3> QED BY <2>2, <2>4, <3>1 DEF RoutingInv
  <2>5. \A g \in Keys : flight'[g] # None => BackedFlight(g)'
    BY <1>0, <2>1 DEF RoutingInv, BackedFlight, Backed, TypeOK
  <2> QED BY <1>0, <2>1, <2>3, <2>4, <2>5 DEF RoutingInv, BackedList, Backed
<1>12. ASSUME NEW f \in Keys, QueryFails(f) PROVE RoutingInv'
  <2>1. /\ Return(Awaiting(f)) /\ Awaiting(f) \subseteq Models
        /\ flight' = [flight EXCEPT ![f] = None]
        /\ UNCHANGED <<db, version, cache, assembled, applied>>
    BY <1>12, AwaitingFacts DEF QueryFails, databaseVars, cacheVars
  <2>2. \A m \in Models : BackedResult(m)'
    BY <2>1, ReturnBacked
  <2>3. \A g \in Keys : flight'[g] # None => BackedFlight(g)'
    BY <1>0, <2>1 DEF RoutingInv, BackedFlight, Backed, TypeOK
  <2> QED BY <1>0, <2>1, <2>2, <2>3 DEF RoutingInv, BackedList, Backed
<1>13. ASSUME NEW f \in Keys, Land(f) PROVE RoutingInv'
  <2> DEFINE new == [value |-> flight[f].value, version |-> version[LayerOf(f)],
                     expiresAt |-> flight[f].at + Ttl,
                     staleUntil |-> flight[f].at + Ttl + StaleTtl]
  <2>1. /\ \/ flight[f].version = version[LayerOf(f)] /\ cache' = [cache EXCEPT ![f] = new]
           \/ UNCHANGED cache
        /\ flight' = [flight EXCEPT ![f] = None]
        /\ flight[f] # None /\ flight[f].value # None
        /\ Deliver(f, flight[f].value, flight[f].version)
        /\ UNCHANGED <<db, version, assembled, applied>>
    BY <1>13 DEF Land, databaseVars
  <2>2. /\ flight[f].value \in Value /\ flight[f].version \in Nat
        /\ Backed(LayerOf(f), flight[f].value, flight[f].version)
    BY <1>0, <2>1 DEF RoutingInv, BackedFlight, TypeOK, Flight
  <2>3. \A m \in Models : BackedResult(m)'
    BY <2>1, <2>2, DeliverBacked
  <2>4. ASSUME NEW g \in Keys, cache'[g] # None
        PROVE  Backed(LayerOf(g), cache'[g].value, cache'[g].version)
    <3>1. \/ cache'[g] = cache[g]
          \/ g = f /\ cache'[g] = new /\ flight[f].version = version[LayerOf(f)]
      <4> HIDE DEF new
      <4> QED BY <1>0, <2>1 DEF TypeOK
    <3> QED BY <2>2, <2>4, <3>1 DEF RoutingInv
  <2>5. \A g \in Keys : flight'[g] # None => BackedFlight(g)'
    BY <1>0, <2>1 DEF RoutingInv, BackedFlight, Backed, TypeOK
  <2> QED BY <1>0, <2>1, <2>3, <2>4, <2>5 DEF RoutingInv, BackedList, Backed
<1>14. CASE \E w \in Writers : EventLost(w) \/ ClearHealthOverrides(w)
  BY <1>2, <1>14 DEF EventLost, ClearHealthOverrides, loaderVars
<1>15. CASE ClientKeyEvent \/ UpdateHealth \/ ApplyHealth \/ Tick
  BY <1>2, <1>15 DEF ClientKeyEvent, UpdateHealth, ApplyHealth, Tick, databaseVars, loaderVars
<1>16. CASE UNCHANGED vars
  BY <1>2, <1>16 DEF vars, cacheVars
<1> QED
  BY <1>1, <1>3, <1>4, <1>5, <1>6, <1>7, <1>8, <1>9, <1>10, <1>11, <1>12, <1>13, <1>14,
     <1>15, <1>16 DEF Next, Database, Load, Fly

(* The invariant holds in every behaviour.                                 *)
THEOREM RoutingSafe == Spec => []RoutingInv
  BY InitRouting, StepRouting, PTL DEF Spec

(* Nothing that can still be used is older than an invalidation that has   *)
(* been applied, however loads and invalidations overlap.                  *)
THEOREM CachesAreFresh == Spec => []FreshCaches
<1>1. RoutingInv => FreshCaches
  BY DEF RoutingInv, FreshCaches, Backed, BackedList
<1> QED BY <1>1, RoutingSafe, PTL

-----------------------------------------------------------------------------
(* The end of the stale lifetime of a snapshot that was read when value    *)
(* was.                                                                    *)
LastUse(value) == value.readAt + Ttl + StaleTtl

(* A flight lasts no longer than its query may.  What it keeps in reserve  *)
(* was usable when it departed, and its answer was read after that.        *)
AgedFlight ==
  /\ flight[Base].at <= clock /\ clock <= flight[Base].at + QueryTime
  /\ flight[Base].fallback # None =>
       /\ flight[Base].at < flight[Base].fallback.staleUntil
       /\ flight[Base].fallback.staleUntil <= LastUse(flight[Base].fallback.value)
  /\ flight[Base].value # None => flight[Base].at <= flight[Base].value.readAt

AgedSnapshot ==
  /\ cache[Base].expiresAt <= cache[Base].staleUntil
  /\ cache[Base].staleUntil <= LastUse(cache[Base].value)

AgedLoad(m) ==
  /\ checkTime[m] <= clock
  /\ pc[m] = "idle" => result[m]["base"] = None
  /\ result[m]["base"] # None =>
       checkTime[m] < LastUse(result[m]["base"].value) + QueryTime

AgedList(m) ==
  assembled[m] # None =>
    assembled[m].expiresAt < assembled[m].base.readAt + Ttl + StaleTtl + QueryTime + Ttl

(* How old the accounts may be, wherever they are held.                    *)
Ages ==
  /\ cache[Base] # None => AgedSnapshot
  /\ flight[Base] # None => AgedFlight
  /\ \A m \in Models : AgedLoad(m)
  /\ \A m \in Models : AgedList(m)

(* Only a delivery of the base layer touches what a load has of it.        *)
LEMMA DeliverBase ==
  ASSUME TypeOK, NEW f \in Keys, NEW value, NEW ver, Deliver(f, value, ver),
         NEW m \in Models
  PROVE  /\ result'[m]["base"] = IF f = Base /\ m \in Awaiting(f)
                                   THEN [value |-> value, version |-> ver]
                                   ELSE result[m]["base"]
         /\ pc'[m] = "idle" => pc[m] = "idle" /\ m \notin Awaiting(f)
<1> DEFINE new == [value |-> value, version |-> ver]
<1>1. /\ result'[m] = IF m \in Awaiting(f) THEN [result[m] EXCEPT ![LayerOf(f)] = new] ELSE result[m]
      /\ pc'[m] = IF m \in Awaiting(f) THEN After(LayerOf(f)) ELSE pc[m]
      /\ DOMAIN result[m] = Layers
  BY DEF Deliver, TypeOK
<1>2. LayerOf(f) = "base" <=> f = Base
  BY DEF LayerOf
<1>3. result'[m]["base"] = IF f = Base /\ m \in Awaiting(f) THEN new ELSE result[m]["base"]
  <2> HIDE DEF new
  <2> QED BY <1>1, <1>2, KeyFacts
<1> QED BY <1>1, <1>3 DEF After

(* A delivery of accounts that are not too old for the loads that wait.    *)
LEMMA DeliverAged ==
  ASSUME TypeOK, Ages, NEW f \in Keys, NEW value \in Value, NEW ver,
         Deliver(f, value, ver), f = Base => clock < LastUse(value) + QueryTime,
         UNCHANGED <<clock, checkTime>>
  PROVE  \A m \in Models : AgedLoad(m)'
<1> SUFFICES ASSUME NEW m \in Models PROVE AgedLoad(m)'
  OBVIOUS
<1>1. AgedLoad(m) /\ checkTime[m] \in Nat /\ clock \in Nat
  BY DEF Ages, TypeOK
<1>2. /\ result'[m]["base"] = IF f = Base /\ m \in Awaiting(f)
                                THEN [value |-> value, version |-> ver]
                                ELSE result[m]["base"]
      /\ pc'[m] = "idle" => pc[m] = "idle" /\ m \notin Awaiting(f)
  BY DeliverBase
<1>3. CASE f = Base /\ m \in Awaiting(f)
  <2>1. result'[m]["base"] = [value |-> value, version |-> ver] /\ pc'[m] # "idle"
    BY <1>2, <1>3
  <2>2. LastUse(value) + QueryTime \in Nat
    BY RoutingAssumption DEF LastUse, Value
  <2>3. checkTime[m] < LastUse(value) + QueryTime
    BY <1>1, <1>3, <2>2 DEF AgedLoad
  <2>4. result'[m]["base"].value = value
    BY <2>1
  <2> QED BY <1>1, <2>1, <2>3, <2>4 DEF AgedLoad, LastUse
<1>4. CASE ~(f = Base /\ m \in Awaiting(f))
  BY <1>1, <1>2, <1>4 DEF AgedLoad, LastUse
<1> QED BY <1>3, <1>4

(* The end of loads leaves the others as they are.                         *)
LEMMA ReturnAged ==
  ASSUME TypeOK, Ages, NEW S \in SUBSET Models, Return(S), UNCHANGED clock
  PROVE  \A m \in Models : AgedLoad(m)'
<1> SUFFICES ASSUME NEW m \in Models PROVE AgedLoad(m)'
  OBVIOUS
<1>1. AgedLoad(m) /\ clock \in Nat
  BY DEF Ages, TypeOK
<1>2. CASE m \in S
  <2>1. checkTime'[m] = 0 /\ result'[m]["base"] = None
    BY <1>2, KeyFacts DEF Return, Nothing
  <2> QED BY <1>1, <2>1 DEF AgedLoad
<1>3. CASE m \notin S
  <2>1. checkTime'[m] = checkTime[m] /\ result'[m] = result[m] /\ pc'[m] = pc[m]
    BY <1>3 DEF Return
  <2> QED BY <1>1, <2>1 DEF AgedLoad, LastUse
<1> QED BY <1>2, <1>3

(* The initial states satisfy the bounds.                                  *)
LEMMA InitAges == Init => Ages
  BY KeyFacts, RoutingAssumption DEF Init, Ages, AgedLoad, AgedList, Nothing

(* Every step keeps the bounds.                                            *)
LEMMA StepAges == TypeOK /\ Ages /\ [Next]_vars => Ages'
<1> SUFFICES ASSUME TypeOK, Ages, [Next]_vars PROVE Ages'
  OBVIOUS
<1> USE RoutingAssumption, KeyFacts
<1>1. ASSUME UNCHANGED <<clock, cache, flight, pc, checkTime, result, assembled>> PROVE Ages'
  BY <1>1 DEF Ages, AgedSnapshot, AgedFlight, AgedLoad, AgedList, LastUse
<1>2. CASE Database /\ ~\E w \in Writers : Invalidate(w)
  BY <1>1, <1>2 DEF Database, Commit, EventLost, ClearHealthOverrides, ClientKeyEvent, UpdateHealth,
     ApplyHealth, cacheVars, loaderVars
<1>3. ASSUME NEW w \in Writers, Invalidate(w) PROVE Ages'
  <2>1. /\ cache'[Base] \in {None, cache[Base]}
        /\ \A m \in Models : assembled'[m] = None
        /\ UNCHANGED <<clock, flight, pc, checkTime, result>>
    BY <1>3 DEF Invalidate, loaderVars
  <2> QED BY <2>1 DEF Ages, AgedSnapshot, AgedFlight, AgedLoad, AgedList, LastUse
<1>4. ASSUME NEW m \in Models, Begin(m) PROVE Ages'
  <2>1. /\ pc[m] = "idle"
        /\ pc' = [pc EXCEPT ![m] = "base"] /\ checkTime' = [checkTime EXCEPT ![m] = clock]
        /\ UNCHANGED <<clock, cache, assembled, flight, result>>
    BY <1>4 DEF Begin, cacheVars
  <2>2. ASSUME NEW n \in Models PROVE AgedLoad(n)'
    <3>1. AgedLoad(n) /\ clock \in Nat
      BY DEF Ages, TypeOK
    <3>2. checkTime'[n] = IF n = m THEN clock ELSE checkTime[n]
      BY <2>1 DEF TypeOK
    <3>3. pc'[n] = IF n = m THEN "base" ELSE pc[n]
      BY <2>1 DEF TypeOK
    <3> QED BY <2>1, <3>1, <3>2, <3>3 DEF AgedLoad, LastUse
  <2> QED BY <2>1, <2>2 DEF Ages, AgedSnapshot, AgedFlight, AgedList, LastUse
<1>5. ASSUME NEW m \in Models, LookUp(m) PROVE Ages'
  <2>1. UNCHANGED <<clock, cache, assembled, flight, checkTime>>
    BY <1>5 DEF LookUp, cacheVars
  <2>2. PICK l \in Layers :
          /\ pc[m] = l
          /\ IF Hit(m, l)
               THEN /\ result' = [result EXCEPT ![m][l] =
                         [value |-> cache[KeyFor(m, l)].value, version |-> version[l]]]
                    /\ pc' = [pc EXCEPT ![m] = After(l)]
               ELSE /\ pc' = [pc EXCEPT ![m] = IF l = "base" THEN "awaitBase" ELSE "awaitOverlay"]
                    /\ UNCHANGED result
    BY <1>5 DEF LookUp
  <2>3. \A n \in Models : pc'[n] = "idle" => pc[n] = "idle" /\ n # m
    BY <2>2 DEF TypeOK, After
  <2>4. ASSUME NEW n \in Models, result'[n]["base"] # result[n]["base"]
        PROVE  /\ n = m /\ cache[Base] # None /\ checkTime[m] < cache[Base].expiresAt
               /\ result'[m]["base"] = [value |-> cache[Base].value, version |-> version["base"]]
    <3> DEFINE new == [value |-> cache[KeyFor(m, l)].value, version |-> version[l]]
    <3>1. Hit(m, l) /\ result' = [result EXCEPT ![m] = [result[m] EXCEPT ![l] = new]]
      BY <2>2, <2>4
    <3>2. n = m /\ l = "base" /\ result'[m]["base"] = new
      <4> HIDE DEF new
      <4> QED BY <2>4, <3>1 DEF TypeOK
    <3>3. KeyFor(m, l) = Base
      BY <3>2 DEF KeyFor
    <3> QED BY <3>1, <3>2, <3>3 DEF Hit
  <2>5. ASSUME NEW n \in Models PROVE AgedLoad(n)'
    <3>1. AgedLoad(n)
      BY DEF Ages
    <3>2. CASE result'[n]["base"] = result[n]["base"]
      BY <2>1, <2>3, <3>1, <3>2 DEF AgedLoad, LastUse
    <3>3. CASE result'[n]["base"] # result[n]["base"]
      <4>1. /\ n = m /\ cache[Base] # None /\ checkTime[m] < cache[Base].expiresAt
            /\ result'[m]["base"].value = cache[Base].value
        BY <2>4, <3>3
      <4>2. AgedSnapshot /\ cache[Base] \in Snapshot /\ checkTime[m] \in Nat
        BY <4>1 DEF Ages, TypeOK
      <4>3. LastUse(cache[Base].value) \in Nat
        BY <4>2 DEF Snapshot, Value, LastUse
      <4>4. checkTime[m] < LastUse(cache[Base].value) + QueryTime
        BY <4>1, <4>2, <4>3 DEF AgedSnapshot, Snapshot
      <4>5. pc'[n] # "idle"
        BY <2>3, <4>1
      <4> QED BY <2>1, <3>1, <4>1, <4>4, <4>5 DEF AgedLoad, LastUse
    <3> QED BY <3>2, <3>3
  <2> QED BY <2>1, <2>5 DEF Ages, AgedSnapshot, AgedFlight, AgedList, LastUse
<1>6. ASSUME NEW m \in Models, Assemble(m) PROVE Ages'
  <2>1. Return({m}) /\ UNCHANGED <<clock, cache, flight>>
    BY <1>6 DEF Assemble
  <2>2. \A n \in Models : AgedLoad(n)'
    BY <2>1, ReturnAged
  <2>3. /\ assembled'[m].base = result[m]["base"].value
        /\ assembled'[m].expiresAt = checkTime[m] + Ttl
        /\ \A n \in Models : n # m => assembled'[n] = assembled[n]
    BY <1>6 DEF Assemble, Keep, TypeOK
  <2>4. result[m]["base"] \in Result /\ result[m]["base"] # None /\ checkTime[m] \in Nat
    BY <1>6, NoneFacts DEF Assemble, TypeOK
  <2>5. checkTime[m] < LastUse(result[m]["base"].value) + QueryTime
    BY <2>4 DEF Ages, AgedLoad
  <2>6. AgedList(m)'
    <3>1. result[m]["base"].value.readAt \in Nat
      BY <2>4 DEF Result, Value
    <3> QED BY <2>3, <2>4, <2>5, <3>1 DEF AgedList, LastUse
  <2> QED BY <2>1, <2>2, <2>3, <2>6 DEF Ages, AgedSnapshot, AgedFlight, AgedList, LastUse
<1>7. ASSUME NEW m \in Models, FilterFails(m) \/ Combined(m) PROVE Ages'
  <2>1. Return({m}) /\ UNCHANGED <<clock, cache, flight, assembled>>
    BY <1>7 DEF FilterFails, Combined, cacheVars
  <2>2. \A n \in Models : AgedLoad(n)'
    BY <2>1, ReturnAged
  <2> QED BY <2>1, <2>2 DEF Ages, AgedSnapshot, AgedFlight, AgedList, LastUse
<1>8. ASSUME NEW m \in Models, TryAgain(m) PROVE Ages'
  <2>1. /\ pc' = [pc EXCEPT ![m] = "base"] \/ pc' = [pc EXCEPT ![m] = "combined"]
        /\ checkTime' = [checkTime EXCEPT ![m] = clock] \/ UNCHANGED checkTime
        /\ result' = [result EXCEPT ![m] = Nothing]
        /\ UNCHANGED <<clock, cache, assembled, flight>>
    BY <1>8 DEF TryAgain, cacheVars
  <2>2. ASSUME NEW n \in Models PROVE AgedLoad(n)'
    <3>1. AgedLoad(n) /\ clock \in Nat
      BY DEF Ages, TypeOK
    <3>2. /\ n = m => result'[n] = Nothing /\ pc'[n] # "idle" /\ checkTime'[n] \in {clock, checkTime[n]}
          /\ n # m => result'[n] = result[n] /\ pc'[n] = pc[n] /\ checkTime'[n] = checkTime[n]
      BY <2>1 DEF TypeOK
    <3>3. Nothing["base"] = None
      BY DEF Nothing
    <3> QED BY <2>1, <3>1, <3>2, <3>3 DEF AgedLoad, LastUse
  <2> QED BY <2>1, <2>2 DEF Ages, AgedSnapshot, AgedFlight, AgedList, LastUse
<1>9. ASSUME NEW f \in Keys, Depart(f) PROVE Ages'
  <2> DEFINE current == cache[f] # None /\ cache[f].version = version[LayerOf(f)]
  <2>1. UNCHANGED <<clock, cache, assembled, checkTime>>
    BY <1>9 DEF Depart, cacheVars
  <2>2. CASE current /\ clock < cache[f].expiresAt
    <3>1. Deliver(f, cache[f].value, cache[f].version) /\ UNCHANGED flight
      BY <1>9, <2>2 DEF Depart
    <3>2. cache[f] \in Snapshot /\ cache[f].value \in Value
      BY <2>2 DEF TypeOK, Snapshot
    <3>3. ASSUME f = Base PROVE clock < LastUse(cache[f].value) + QueryTime
      <4>1. AgedSnapshot /\ LastUse(cache[f].value) \in Nat /\ clock \in Nat
        BY <2>2, <3>2, <3>3 DEF Ages, TypeOK, LastUse, Value
      <4> QED BY <2>2, <3>2, <3>3, <4>1 DEF AgedSnapshot, Snapshot
    <3>4. \A m \in Models : AgedLoad(m)'
      BY <2>1, <3>1, <3>2, <3>3, DeliverAged
    <3> QED BY <2>1, <3>1, <3>4 DEF Ages, AgedSnapshot, AgedFlight, AgedList, LastUse
  <2>3. CASE ~(current /\ clock < cache[f].expiresAt)
    <3> DEFINE new == [at |-> clock, version |-> version[LayerOf(f)],
                       fallback |-> IF current /\ clock < cache[f].staleUntil
                                      THEN cache[f] ELSE None,
                       value |-> None]
    <3>1. flight' = [flight EXCEPT ![f] = new] /\ UNCHANGED <<pc, result>>
      BY <1>9, <2>3 DEF Depart
    <3>2. /\ new.at = clock /\ new.value = None
          /\ new.fallback # None =>
               new.fallback = cache[f] /\ cache[f] # None /\ clock < cache[f].staleUntil
      OBVIOUS
    <3>3. flight'[Base] = IF f = Base THEN new ELSE flight[Base]
      <4> HIDE DEF new
      <4> QED BY <3>1 DEF TypeOK
    <3>4. ASSUME flight'[Base] # None PROVE AgedFlight'
      <4> HIDE DEF new
      <4>1. CASE f = Base
        <5>1. clock \in Nat
          BY DEF TypeOK
        <5>2. cache[Base] # None => cache[Base].staleUntil <= LastUse(cache[Base].value)
          BY DEF Ages, AgedSnapshot
        <5> QED BY <2>1, <3>2, <3>3, <4>1, <5>1, <5>2 DEF AgedFlight, LastUse
      <4>2. CASE f # Base
        BY <2>1, <3>3, <3>4, <4>2 DEF Ages, AgedFlight, LastUse
      <4> QED BY <4>1, <4>2
    <3> QED BY <2>1, <3>1, <3>4 DEF Ages, AgedSnapshot, AgedLoad, AgedList, LastUse
  <2> QED BY <2>2, <2>3
<1>10. ASSUME NEW f \in Keys, Query(f) PROVE Ages'
  <2>1. /\ flight[f] # None /\ UNCHANGED <<clock, cache, assembled, pc, checkTime, result>>
        /\ flight' = [flight EXCEPT ![f].value =
             [rev |-> db[LayerOf(f)], health |-> IF f = Base THEN dbHealth ELSE 0,
              readAt |-> IF f = Base THEN clock ELSE 0]]
    BY <1>10 DEF Query, cacheVars, loaderVars
  <2>2. ASSUME flight'[Base] # None PROVE AgedFlight'
    <3>1. CASE f = Base
      <4>1. /\ flight'[Base].at = flight[Base].at
            /\ flight'[Base].fallback = flight[Base].fallback
            /\ flight'[Base].value.readAt = clock
        <5>1. flight[Base] \in Flight
          BY <2>1, <3>1 DEF TypeOK
        <5> QED BY <2>1, <3>1, <5>1 DEF TypeOK, Flight
      <4> QED BY <2>1, <3>1, <4>1 DEF Ages, AgedFlight, LastUse
    <3>2. CASE f # Base
      BY <2>1, <2>2, <3>2 DEF Ages, AgedFlight, LastUse, TypeOK
    <3> QED BY <3>1, <3>2
  <2> QED BY <2>1, <2>2 DEF Ages, AgedSnapshot, AgedLoad, AgedList, LastUse
<1>11. ASSUME NEW f \in Keys, Fallback(f) PROVE Ages'
  <2> DEFINE stale == flight[f].fallback
             until == EarlierOf(flight[f].at + RetryTtl, stale.staleUntil)
             new == [stale EXCEPT !.expiresAt = until]
  <2>1. /\ cache' = [cache EXCEPT ![f] = new]
        /\ flight' = [flight EXCEPT ![f] = None]
        /\ flight[f] # None /\ stale # None
        /\ Deliver(f, stale.value, flight[f].version)
        /\ UNCHANGED <<clock, assembled, checkTime>>
    BY <1>11 DEF Fallback, Reused
  <2>2. stale \in Snapshot /\ stale.value \in Value /\ flight[f].at \in Nat /\ clock \in Nat
    BY <2>1 DEF TypeOK, Flight, Snapshot
  <2>3. ASSUME f = Base
        PROVE  clock < LastUse(stale.value) + QueryTime /\ stale.staleUntil <= LastUse(stale.value)
    <3>1. AgedFlight /\ LastUse(stale.value) \in Nat /\ stale.staleUntil \in Nat
      BY <2>1, <2>2, <2>3 DEF Ages, LastUse, Value, Snapshot
    <3> QED BY <2>1, <2>2, <2>3, <3>1 DEF AgedFlight
  <2>4. \A m \in Models : AgedLoad(m)'
    BY <2>1, <2>2, <2>3, DeliverAged
  <2>5. cache'[Base] = IF f = Base THEN new ELSE cache[Base]
    <3> HIDE DEF new
    <3> QED BY <2>1 DEF TypeOK
  <2>6. ASSUME cache'[Base] # None PROVE AgedSnapshot'
    <3>1. CASE f = Base
      <4>1. until \in Nat /\ until <= stale.staleUntil
        BY <2>2 DEF EarlierOf, Snapshot
      <4>2. new.expiresAt = until /\ new.staleUntil = stale.staleUntil /\ new.value = stale.value
        <5> HIDE DEF until, stale
        <5> QED BY <2>2 DEF Snapshot
      <4> HIDE DEF until, stale, new
      <4> QED BY <2>3, <2>5, <3>1, <4>1, <4>2 DEF AgedSnapshot, LastUse
    <3>2. CASE f # Base
      BY <2>5, <2>6, <3>2 DEF Ages, AgedSnapshot, LastUse
    <3> QED BY <3>1, <3>2
  <2>7. flight'[Base] \in {None, flight[Base]}
    BY <2>1 DEF TypeOK
  <2> QED BY <2>1, <2>4, <2>6, <2>7 DEF Ages, AgedFlight, AgedList, LastUse
<1>12. ASSUME NEW f \in Keys, QueryFails(f) PROVE Ages'
  <2>1. /\ Return(Awaiting(f)) /\ Awaiting(f) \subseteq Models
        /\ flight'[Base] \in {None, flight[Base]}
        /\ UNCHANGED <<clock, cache, assembled>>
    BY <1>12, AwaitingFacts DEF QueryFails, cacheVars, TypeOK
  <2>2. \A m \in Models : AgedLoad(m)'
    BY <2>1, ReturnAged
  <2> QED BY <2>1, <2>2 DEF Ages, AgedSnapshot, AgedFlight, AgedList, LastUse
<1>13. ASSUME NEW f \in Keys, Land(f) PROVE Ages'
  <2> DEFINE new == [value |-> flight[f].value, version |-> version[LayerOf(f)],
                     expiresAt |-> flight[f].at + Ttl,
                     staleUntil |-> flight[f].at + Ttl + StaleTtl]
  <2>1. /\ cache' = [cache EXCEPT ![f] = new] \/ UNCHANGED cache
        /\ flight' = [flight EXCEPT ![f] = None]
        /\ flight[f] # None /\ flight[f].value # None
        /\ Deliver(f, flight[f].value, flight[f].version)
        /\ UNCHANGED <<clock, assembled, checkTime>>
    BY <1>13 DEF Land
  <2>2. flight[f].value \in Value /\ flight[f].at \in Nat /\ clock \in Nat
    BY <2>1 DEF TypeOK, Flight
  <2>3. ASSUME f = Base
        PROVE  /\ clock < LastUse(flight[f].value) + QueryTime
               /\ flight[f].at + Ttl + StaleTtl <= LastUse(flight[f].value)
    <3>1. AgedFlight /\ flight[f].value.readAt \in Nat
      BY <2>1, <2>2, <2>3 DEF Ages, Value
    <3> QED BY <2>1, <2>2, <2>3, <3>1 DEF AgedFlight, LastUse
  <2>4. \A m \in Models : AgedLoad(m)'
    BY <2>1, <2>2, <2>3, DeliverAged
  <2>5. cache'[Base] = cache[Base] \/ (f = Base /\ cache'[Base] = new)
    <3> HIDE DEF new
    <3> QED BY <2>1 DEF TypeOK
  <2>6. ASSUME cache'[Base] # None PROVE AgedSnapshot'
    <3>1. CASE cache'[Base] = cache[Base]
      BY <2>6, <3>1 DEF Ages, AgedSnapshot, LastUse
    <3>2. CASE f = Base /\ cache'[Base] = new
      <4>1. cache'[Base].expiresAt <= cache'[Base].staleUntil
        BY <2>2, <3>2
      <4>2. cache'[Base].value = flight[f].value /\ cache'[Base].staleUntil = flight[f].at + Ttl + StaleTtl
        BY <3>2
      <4> QED BY <2>3, <3>2, <4>1, <4>2 DEF AgedSnapshot, LastUse
    <3> QED BY <2>5, <3>1, <3>2
  <2>7. flight'[Base] \in {None, flight[Base]}
    BY <2>1 DEF TypeOK
  <2> QED BY <2>1, <2>4, <2>6, <2>7 DEF Ages, AgedFlight, AgedList, LastUse
<1>14. CASE Tick
  <2>1. /\ clock \in Nat /\ clock' = clock + 1
        /\ flight[Base] # None => clock < flight[Base].at + QueryTime /\ flight[Base].at \in Nat
        /\ UNCHANGED <<cache, assembled, flight, pc, checkTime, result>>
    BY <1>14 DEF Tick, TypeOK, Flight, cacheVars, loaderVars
  <2>2. ASSUME NEW m \in Models PROVE AgedLoad(m)'
    <3>1. AgedLoad(m) /\ checkTime[m] \in Nat
      BY DEF Ages, TypeOK
    <3> QED BY <2>1, <3>1 DEF AgedLoad, LastUse
  <2>3. ASSUME flight'[Base] # None PROVE AgedFlight'
    BY <2>1, <2>3 DEF Ages, AgedFlight, LastUse
  <2> QED BY <2>1, <2>2, <2>3 DEF Ages, AgedSnapshot, AgedList, LastUse
<1>15. CASE UNCHANGED vars
  BY <1>1, <1>15 DEF vars
<1> QED
  BY <1>2, <1>3, <1>4, <1>5, <1>6, <1>7, <1>8, <1>9, <1>10, <1>11, <1>12, <1>13, <1>14,
     <1>15 DEF Next, Load, Fly

(* The bounds hold in every behaviour.                                     *)
THEOREM AgesSafe == Spec => []Ages
<1>1. TypeOK /\ Ages /\ [Next]_vars => Ages'
  BY StepAges
<1> QED BY <1>1, InitAges, RoutingTyped, PTL DEF Spec

(* However the periods of the three caches, the fallbacks and the shared   *)
(* queries add up, accounts are used for a bounded time after they were    *)
(* read.                                                                   *)
THEOREM AgeIsBounded == Spec => []AgeBounded
<1>1. Ages => AgeBounded
  BY DEF Ages, AgedList, AgeBounded
<1> QED BY <1>1, AgesSafe, PTL

-----------------------------------------------------------------------------
(* Accounts of the base layer that are held with a generation: in the      *)
(* snapshot, in a flight, in its reserve, or by a load.                    *)
Held(value, ver) ==
  \/ cache[Base] # None /\ cache[Base].value = value /\ cache[Base].version = ver
  \/ /\ flight[Base] # None /\ flight[Base].version = ver
     /\ \/ flight[Base].value # None /\ flight[Base].value = value
        \/ flight[Base].fallback # None /\ flight[Base].fallback.value = value
  \/ \E m \in Models :
       /\ result[m]["base"] # None
       /\ result[m]["base"].value = value /\ result[m]["base"].version = ver

Fresh(value) == value.health = dbHealth /\ value.readAt = clock

(* No invalidation of the base layer is half applied, and no event that    *)
(* spares the layer took the override away.                                *)
Guarded ==
  /\ ~exposed
  /\ \A w \in Writers : ~(writer[w].phase = "cleared" /\ writer[w].layer = "base")

(* The accounts show the last health applied, or the override outlasts     *)
(* their stale lifetime.                                                   *)
Covered(value) ==
  \/ value.health >= knownHealth
  \/ override # None /\ LastUse(value) <= override.expiresAt

(* Whatever of the base layer is held under its current generation, or     *)
(* kept in a list, is covered.                                             *)
CoolInv ==
  /\ RoutingInv
  /\ knownHealth <= dbHealth
  /\ \A value \in Value, ver \in Nat : Held(value, ver) => value.readAt <= clock
  /\ \A m \in Models : assembled[m] # None => assembled[m].base.readAt <= clock
  /\ Guarded =>
       /\ \A value \in Value, ver \in Nat :
            Held(value, ver) /\ ver = version["base"] => Covered(value)
       /\ \A m \in Models : assembled[m] # None => Covered(assembled[m].base)

(* No generation that is held is ahead of the layer's.                     *)
LEMMA HeldIsPast ==
  ASSUME RoutingInv, NEW value, NEW ver, Held(value, ver)
  PROVE  ver <= version["base"]
<1>1. LayerOf(Base) = "base" /\ "base" \in Layers /\ Base \in Keys
  BY KeyFacts DEF LayerOf
<1> QED BY <1>1 DEF Held, RoutingInv, BackedFlight, BackedResult, Backed

(* Deliveries hand out what is held.                                       *)
LEMMA DeliverHeld ==
  ASSUME TypeOK, NEW f \in Keys, NEW given, NEW gen, Deliver(f, given, gen),
         NEW value, NEW ver, NEW m \in Models,
         result'[m]["base"] # None,
         result'[m]["base"].value = value, result'[m]["base"].version = ver
  PROVE  Held(value, ver) \/ (f = Base /\ given = value /\ gen = ver)
<1>1. result'[m]["base"] = IF f = Base /\ m \in Awaiting(f)
                             THEN [value |-> given, version |-> gen]
                             ELSE result[m]["base"]
  BY DeliverBase
<1> QED BY <1>1 DEF Held

(* A step brings no accounts into play but those a query reads now.        *)
LEMMA HeldFrom ==
  ASSUME RoutingInv, [Next]_vars, NEW value, NEW ver, Held(value, ver)'
  PROVE  \/ Held(value, ver)
         \/ Fresh(value) /\ UNCHANGED <<clock, dbHealth, writer, version, healthVars>>
<1>0. TypeOK /\ Base \in Keys /\ LayerOf(Base) = "base"
  BY KeyFacts DEF RoutingInv, LayerOf
<1> USE KeyFacts, RoutingAssumption
<1>1. CASE UNCHANGED <<cache, flight, result>>
  BY <1>1 DEF Held
<1>2. CASE Database /\ ~\E w \in Writers : Invalidate(w)
  BY <1>1, <1>2 DEF Database, Commit, EventLost, ClearHealthOverrides, ClientKeyEvent, UpdateHealth,
     ApplyHealth, cacheVars, loaderVars
<1>3. CASE \E w \in Writers : Invalidate(w)
  <2>1. cache'[Base] \in {None, cache[Base]} /\ UNCHANGED <<flight, result>>
    BY <1>0, <1>3 DEF Invalidate, loaderVars
  <2> QED BY <2>1 DEF Held
<1>4. CASE \E m \in Models : Begin(m)
  BY <1>1, <1>4 DEF Begin, cacheVars
<1>5. ASSUME NEW m \in Models, LookUp(m) PROVE Held(value, ver)
  <2>1. PICK l \in Layers :
          \/ /\ Hit(m, l)
             /\ result' = [result EXCEPT ![m][l] =
                  [value |-> cache[KeyFor(m, l)].value, version |-> version[l]]]
          \/ UNCHANGED result
    BY <1>5 DEF LookUp
  <2>2. UNCHANGED <<cache, flight>>
    BY <1>5 DEF LookUp, cacheVars
  <2>3. CASE UNCHANGED result
    BY <2>2, <2>3 DEF Held
  <2>4. CASE Hit(m, l) /\ ~UNCHANGED result
    <3> DEFINE new == [value |-> cache[KeyFor(m, l)].value, version |-> version[l]]
    <3>1. \A n \in Models :
            result'[n]["base"] = IF n = m /\ l = "base" THEN new ELSE result[n]["base"]
      <4>1. result' = [result EXCEPT ![m] = [result[m] EXCEPT ![l] = new]]
        BY <2>1, <2>4
      <4> HIDE DEF new
      <4> QED BY <1>0, <4>1 DEF TypeOK
    <3>2. l = "base" => /\ cache[Base] # None /\ new.value = cache[Base].value
                        /\ new.version = cache[Base].version
      BY <2>4 DEF Hit, KeyFor
    <3> HIDE DEF new
    <3> QED BY <2>2, <3>1, <3>2 DEF Held
  <2> QED BY <2>1, <2>3, <2>4
<1>6. ASSUME NEW m \in Models,
             Assemble(m) \/ FilterFails(m) \/ Combined(m) \/ TryAgain(m)
      PROVE  Held(value, ver)
  <2>1. UNCHANGED <<cache, flight>>
    BY <1>6 DEF Assemble, FilterFails, Combined, TryAgain, cacheVars
  <2>2. \A n \in Models : result'[n] \in {Nothing, result[n]}
    BY <1>0, <1>6 DEF Assemble, FilterFails, Combined, TryAgain, Return, TypeOK
  <2> QED BY <2>1, <2>2 DEF Held, Nothing
<1>7. ASSUME NEW f \in Keys, Depart(f) PROVE Held(value, ver)
  <2> DEFINE current == cache[f] # None /\ cache[f].version = version[LayerOf(f)]
  <2>1. UNCHANGED cache
    BY <1>7 DEF Depart, cacheVars
  <2>2. CASE current /\ clock < cache[f].expiresAt
    <3>1. Deliver(f, cache[f].value, cache[f].version) /\ UNCHANGED flight
      BY <1>7, <2>2 DEF Depart
    <3>2. ASSUME NEW m \in Models, result'[m]["base"] # None,
                 result'[m]["base"].value = value, result'[m]["base"].version = ver
          PROVE  Held(value, ver)
      <4>1. Held(value, ver) \/ (f = Base /\ cache[f].value = value /\ cache[f].version = ver)
        BY <1>0, <3>1, <3>2, DeliverHeld
      <4> QED BY <2>2, <4>1 DEF Held
    <3> QED BY <2>1, <3>1, <3>2 DEF Held
  <2>3. CASE ~(current /\ clock < cache[f].expiresAt)
    <3> DEFINE new == [at |-> clock, version |-> version[LayerOf(f)],
                       fallback |-> IF current /\ clock < cache[f].staleUntil
                                      THEN cache[f] ELSE None,
                       value |-> None]
    <3>1. flight' = [flight EXCEPT ![f] = new] /\ UNCHANGED <<pc, result>>
      BY <1>7, <2>3 DEF Depart
    <3>2. /\ new.value = None /\ new.version = version[LayerOf(f)]
          /\ new.fallback # None =>
               /\ new.fallback = cache[f] /\ cache[f] # None
               /\ cache[f].version = version[LayerOf(f)]
      OBVIOUS
    <3>3. flight'[Base] = IF f = Base THEN new ELSE flight[Base]
      <4> HIDE DEF new
      <4> QED BY <1>0, <3>1 DEF TypeOK
    <3> HIDE DEF new
    <3> QED BY <2>1, <3>1, <3>2, <3>3 DEF Held
  <2> QED BY <2>2, <2>3
<1>8. ASSUME NEW f \in Keys, Query(f)
      PROVE  \/ Held(value, ver)
             \/ Fresh(value) /\ UNCHANGED <<clock, dbHealth, writer, version, healthVars>>
  <2> DEFINE new == [rev |-> db[LayerOf(f)], health |-> IF f = Base THEN dbHealth ELSE 0,
                     readAt |-> IF f = Base THEN clock ELSE 0]
  <2>1. /\ flight[f] # None /\ flight' = [flight EXCEPT ![f].value = new]
        /\ UNCHANGED <<clock, dbHealth, writer, version, healthVars, cache, result>>
    BY <1>8 DEF Query, databaseVars, cacheVars, loaderVars
  <2>2. CASE f # Base
    <3>1. flight'[Base] = flight[Base]
      BY <1>0, <2>1, <2>2 DEF TypeOK
    <3> QED BY <2>1, <3>1 DEF Held
  <2>3. CASE f = Base
    <3>1. new.health = dbHealth /\ new.readAt = clock
      BY <2>3
    <3>2. /\ flight'[Base].version = flight[Base].version
          /\ flight'[Base].fallback = flight[Base].fallback
          /\ flight'[Base].value = new
      <4>1. flight[Base] \in Flight
        BY <1>0, <2>1, <2>3 DEF TypeOK
      <4> HIDE DEF new
      <4> QED BY <1>0, <2>1, <2>3, <4>1 DEF TypeOK, Flight
    <3> HIDE DEF new
    <3> QED BY <2>1, <2>3, <3>1, <3>2 DEF Held, Fresh
  <2> QED BY <2>2, <2>3
<1>9. ASSUME NEW f \in Keys, Fallback(f) PROVE Held(value, ver)
  <2> DEFINE stale == flight[f].fallback
             until == EarlierOf(flight[f].at + RetryTtl, stale.staleUntil)
             new == [stale EXCEPT !.expiresAt = until]
  <2>1. /\ cache' = [cache EXCEPT ![f] = new]
        /\ flight' = [flight EXCEPT ![f] = None]
        /\ flight[f] # None /\ stale # None
        /\ Deliver(f, stale.value, flight[f].version)
    BY <1>9 DEF Fallback, Reused
  <2>2. stale.version = flight[f].version /\ stale \in Snapshot
    BY <1>0, <2>1 DEF RoutingInv, BackedFlight, TypeOK, Flight
  <2>3. cache'[Base] = IF f = Base THEN new ELSE cache[Base]
    <3> HIDE DEF new
    <3> QED BY <1>0, <2>1 DEF TypeOK
  <2>4. new.value = stale.value /\ new.version = flight[f].version
    <3> HIDE DEF until, stale
    <3> QED BY <2>2 DEF Snapshot
  <2>5. flight'[Base] \in {None, flight[Base]}
    BY <1>0, <2>1 DEF TypeOK
  <2>6. f = Base /\ stale.value = value /\ flight[f].version = ver => Held(value, ver)
    BY <2>1 DEF Held
  <2>7. ASSUME NEW m \in Models, result'[m]["base"] # None,
               result'[m]["base"].value = value, result'[m]["base"].version = ver
        PROVE  Held(value, ver)
    BY <1>0, <2>1, <2>6, <2>7, DeliverHeld
  <2> HIDE DEF new, stale
  <2> QED BY <2>3, <2>4, <2>5, <2>6, <2>7 DEF Held
<1>10. ASSUME NEW f \in Keys, QueryFails(f) PROVE Held(value, ver)
  <2>1. /\ UNCHANGED cache
        /\ flight'[Base] \in {None, flight[Base]}
        /\ \A n \in Models : result'[n] \in {Nothing, result[n]}
    BY <1>0, <1>10 DEF QueryFails, Return, cacheVars, TypeOK
  <2> QED BY <2>1 DEF Held, Nothing
<1>11. ASSUME NEW f \in Keys, Land(f) PROVE Held(value, ver)
  <2> DEFINE new == [value |-> flight[f].value, version |-> version[LayerOf(f)],
                     expiresAt |-> flight[f].at + Ttl,
                     staleUntil |-> flight[f].at + Ttl + StaleTtl]
  <2>1. /\ \/ flight[f].version = version[LayerOf(f)] /\ cache' = [cache EXCEPT ![f] = new]
           \/ UNCHANGED cache
        /\ flight' = [flight EXCEPT ![f] = None]
        /\ flight[f] # None /\ flight[f].value # None
        /\ Deliver(f, flight[f].value, flight[f].version)
    BY <1>11 DEF Land
  <2>2. \/ cache'[Base] = cache[Base]
        \/ f = Base /\ cache'[Base] = new /\ flight[f].version = version[LayerOf(f)]
    <3> HIDE DEF new
    <3> QED BY <1>0, <2>1 DEF TypeOK
  <2>3. new.value = flight[f].value /\ new.version = version[LayerOf(f)]
    OBVIOUS
  <2>4. flight'[Base] \in {None, flight[Base]}
    BY <1>0, <2>1 DEF TypeOK
  <2>5. f = Base /\ flight[f].value = value /\ flight[f].version = ver => Held(value, ver)
    BY <2>1 DEF Held
  <2>6. ASSUME NEW m \in Models, result'[m]["base"] # None,
               result'[m]["base"].value = value, result'[m]["base"].version = ver
        PROVE  Held(value, ver)
    BY <1>0, <2>1, <2>5, <2>6, DeliverHeld
  <2> HIDE DEF new
  <2> QED BY <2>2, <2>3, <2>4, <2>5, <2>6 DEF Held
<1>12. CASE Tick \/ UNCHANGED vars
  BY <1>1, <1>12 DEF Tick, vars, cacheVars, loaderVars
<1> QED
  BY <1>2, <1>3, <1>4, <1>5, <1>6, <1>7, <1>8, <1>9, <1>10, <1>11, <1>12 DEF Next, Load, Fly

(* A list that is kept was assembled of accounts held as current.          *)
LEMMA ListFrom ==
  ASSUME RoutingInv, [Next]_vars, NEW m \in Models, assembled'[m] # None
  PROVE  /\ \/ assembled'[m] = assembled[m]
            \/ /\ assembled'[m].base \in Value
               /\ Held(assembled'[m].base, version["base"])
               /\ UNCHANGED <<clock, dbHealth, writer, version, healthVars>>
<1>0. TypeOK
  BY DEF RoutingInv
<1>1. CASE UNCHANGED assembled
  BY <1>1
<1>2. CASE Database
  <2>1. UNCHANGED assembled \/ \A n \in Models : assembled'[n] = None
    BY <1>2 DEF Database, Commit, EventLost, ClearHealthOverrides, ClientKeyEvent, Invalidate,
       UpdateHealth, ApplyHealth, cacheVars
  <2> QED BY <2>1
<1>3. ASSUME NEW n \in Models, Assemble(n) PROVE \/ assembled'[m] = assembled[m]
            \/ /\ assembled'[m].base \in Value
               /\ Held(assembled'[m].base, version["base"])
               /\ UNCHANGED <<clock, dbHealth, writer, version, healthVars>>
  <2>1. n # m => assembled'[m] = assembled[m]
    BY <1>0, <1>3 DEF Assemble, Keep, TypeOK
  <2>2. CASE n = m
    <3>1. /\ assembled'[m].base = result[m]["base"].value
          /\ result[m]["base"] # None /\ result[m]["base"] \in Result
          /\ result[m]["base"].version = version["base"]
      BY <1>0, <1>3, <2>2, KeyFacts DEF Assemble, Keep, Stable, TypeOK
    <3> QED BY <1>3, <3>1 DEF Held, Result, Assemble, databaseVars
  <2> QED BY <2>1, <2>2
<1>4. CASE \E n \in Models : Begin(n) \/ LookUp(n) \/ FilterFails(n) \/ TryAgain(n) \/ Combined(n)
  BY <1>1, <1>4 DEF Begin, LookUp, FilterFails, TryAgain, Combined, cacheVars
<1>5. CASE \E f \in Keys : Fly(f)
  BY <1>1, <1>5 DEF Fly, Depart, Query, Fallback, QueryFails, Land, cacheVars
<1>6. CASE Tick \/ UNCHANGED vars
  BY <1>1, <1>6 DEF Tick, vars, cacheVars
<1> QED BY <1>2, <1>3, <1>4, <1>5, <1>6 DEF Next, Load

(* What a step does to the override and to the layer's generation: nothing *)
(* that matters, or it opens a gap, or it applies a health update, or it   *)
(* completes an invalidation of the base layer.                            *)
LEMMA ControlStep ==
  ASSUME TypeOK, [Next]_vars
  PROVE  /\ clock <= clock' /\ dbHealth <= dbHealth'
         /\ \/ UNCHANGED <<override, knownHealth>> /\ version'["base"] = version["base"]
               /\ (Guarded' => Guarded)
            \/ ~Guarded' /\ UNCHANGED knownHealth
            \/ /\ override' # None /\ override'.expiresAt = clock + OverrideTtl
               /\ knownHealth' = dbHealth /\ UNCHANGED <<clock, dbHealth>>
            \/ /\ version'["base"] = version["base"] + 1
               /\ \A m \in Models : assembled'[m] = None
               /\ UNCHANGED knownHealth
<1> USE RoutingAssumption, KeyFacts
<1>0. clock \in Nat /\ dbHealth \in Nat /\ version \in [Layers -> Nat]
  BY DEF TypeOK
<1>1. CASE UNCHANGED <<clock, dbHealth, writer, version, healthVars>>
  BY <1>0, <1>1 DEF Guarded, healthVars
<1>2. ASSUME NEW w \in Writers, Commit(w) \/ EventLost(w)
      PROVE  /\ Guarded' => Guarded
             /\ UNCHANGED <<clock, dbHealth, version, override, knownHealth>>
  <2>1. /\ writer[w].phase # "cleared" /\ UNCHANGED exposed
        /\ \A v \in Writers : v # w => writer'[v] = writer[v]
    BY <1>2 DEF Commit, EventLost, Idle, healthVars, TypeOK
  <2> QED BY <1>2, <2>1 DEF Commit, EventLost, cacheVars, healthVars, Guarded
<1>3. ASSUME NEW w \in Writers, ClearHealthOverrides(w)
      PROVE  /\ \/ UNCHANGED override /\ (Guarded' => Guarded)
                \/ ~Guarded'
             /\ UNCHANGED <<clock, dbHealth, version, knownHealth>>
  <2>1. /\ writer[w].phase = "committed"
        /\ writer'[w].phase = "cleared" /\ writer'[w].layer = writer[w].layer
        /\ writer[w].layer \in Layers
        /\ \A v \in Writers : v # w => writer'[v] = writer[v]
        /\ \/ exposed' = (writer[w].layer = "overlay")
           \/ UNCHANGED <<override, exposed>>
        /\ UNCHANGED <<clock, dbHealth, version, knownHealth>>
    <3>1. /\ writer[w].phase = "committed" /\ writer' = [writer EXCEPT ![w].phase = "cleared"]
          /\ \/ exposed' = (writer[w].layer = "overlay")
             \/ UNCHANGED <<override, exposed>>
          /\ UNCHANGED <<clock, dbHealth, version, knownHealth>>
      BY <1>3 DEF ClearHealthOverrides, cacheVars
    <3>2. writer \in [Writers -> [phase : {"idle", "committed", "cleared"}, layer : Layers]]
      BY DEF TypeOK
    <3> QED BY <3>1, <3>2
  <2>2. CASE UNCHANGED <<override, exposed>>
    BY <2>1, <2>2 DEF Guarded
  <2>3. CASE exposed' = (writer[w].layer = "overlay")
    BY <2>1, <2>3 DEF Guarded
  <2> QED BY <2>1, <2>2, <2>3
<1>4. ASSUME NEW w \in Writers, Invalidate(w)
      PROVE  /\ UNCHANGED <<clock, dbHealth, knownHealth>>
             /\ \A m \in Models : assembled'[m] = None
             /\ \/ /\ version'["base"] = version["base"] /\ UNCHANGED override
                   /\ (Guarded' => Guarded)
                \/ version'["base"] = version["base"] + 1
  <2>1. /\ writer[w].layer \in Layers
        /\ version' = [version EXCEPT ![writer[w].layer] = version[writer[w].layer] + 1]
        /\ exposed' = (exposed /\ writer[w].layer = "overlay")
        /\ \A v \in Writers : v # w => writer'[v] = writer[v]
        /\ \A m \in Models : assembled'[m] = None
        /\ UNCHANGED <<clock, dbHealth, knownHealth, override>>
    BY <1>4 DEF Invalidate, TypeOK
  <2>2. CASE writer[w].layer = "base"
    BY <1>0, <2>1, <2>2
  <2>3. CASE writer[w].layer = "overlay"
    BY <1>0, <2>1, <2>3 DEF Guarded, TypeOK
  <2> QED BY <2>1, <2>2, <2>3
<1>5. ASSUME ClientKeyEvent
      PROVE  /\ \/ UNCHANGED override /\ (Guarded' => Guarded)
                \/ ~Guarded'
             /\ UNCHANGED <<clock, dbHealth, version, knownHealth>>
  <2>1. /\ override' = None /\ exposed' = (exposed \/ override # None)
        /\ UNCHANGED <<clock, dbHealth, writer, version, knownHealth>>
    BY <1>5 DEF ClientKeyEvent, databaseVars, cacheVars
  <2> QED BY <2>1 DEF Guarded
<1>6. CASE UpdateHealth
  BY <1>0, <1>6 DEF UpdateHealth, cacheVars, healthVars, Guarded
<1>7. CASE ApplyHealth
  <2>1. /\ override' = [health |-> dbHealth, expiresAt |-> clock + OverrideTtl]
        /\ knownHealth' = dbHealth /\ UNCHANGED <<clock, dbHealth>>
    BY <1>7 DEF ApplyHealth
  <2>2. override' \in Override
    BY <1>0, <2>1 DEF Override, OverrideTtl
  <2> QED BY <1>0, <2>1, <2>2, NoneFacts
<1>8. CASE \E m \in Models : Load(m)
  BY <1>1, <1>8 DEF Load, Begin, LookUp, Assemble, FilterFails, TryAgain, Combined,
     databaseVars, cacheVars
<1>9. CASE \E f \in Keys : Fly(f)
  BY <1>1, <1>9 DEF Fly, Depart, Query, Fallback, QueryFails, Land, databaseVars, cacheVars
<1>10. CASE Tick
  BY <1>0, <1>10 DEF Tick, databaseVars, cacheVars, healthVars, Guarded
<1>11. CASE UNCHANGED vars
  BY <1>1, <1>11 DEF vars, healthVars
<1> QED
  BY <1>0, <1>2, <1>3, <1>4, <1>5, <1>6, <1>7, <1>8, <1>9, <1>10, <1>11 DEF Next, Database

(* The initial states satisfy the invariant.                               *)
LEMMA InitCool == Init => CoolInv
<1> SUFFICES ASSUME Init PROVE CoolInv
  OBVIOUS
<1>1. \A value, ver : ~Held(value, ver)
  BY KeyFacts DEF Init, Held, Nothing
<1> QED BY <1>1, InitRouting DEF Init, CoolInv

(* Every step keeps the invariant.                                         *)
LEMMA StepCool == CoolInv /\ [Next]_vars => CoolInv'
<1> SUFFICES ASSUME CoolInv, [Next]_vars PROVE CoolInv'
  OBVIOUS
<1> USE RoutingAssumption, KeyFacts
<1>1. RoutingInv /\ RoutingInv' /\ TypeOK /\ TypeOK'
  BY StepRouting DEF CoolInv, RoutingInv
<1>2. /\ clock \in Nat /\ clock' \in Nat /\ dbHealth \in Nat /\ dbHealth' \in Nat
      /\ knownHealth \in Nat /\ version["base"] \in Nat /\ version'["base"] \in Nat
  BY <1>1 DEF TypeOK
<1>3. clock <= clock' /\ dbHealth <= dbHealth'
  BY <1>1, ControlStep
<1>4. knownHealth' <= dbHealth'
  <2>1. UNCHANGED knownHealth \/ (knownHealth' = dbHealth /\ UNCHANGED dbHealth)
    BY <1>1, ControlStep
  <2> QED BY <1>2, <1>3, <2>1 DEF CoolInv
<1>5. ASSUME NEW value \in Value, NEW ver \in Nat, Held(value, ver)' PROVE value.readAt <= clock'
  <2>1. value.readAt \in Nat
    BY DEF Value
  <2>2. Held(value, ver) \/ Fresh(value)
    BY <1>1, <1>5, HeldFrom
  <2>3. value.readAt <= clock
    BY <1>2, <2>1, <2>2 DEF CoolInv, Fresh
  <2> QED BY <1>2, <1>3, <2>1, <2>3
<1>6. ASSUME NEW m \in Models, assembled'[m] # None
      PROVE  assembled'[m].base \in Value /\ assembled'[m].base.readAt <= clock'
  <2>1. assembled'[m].base \in Value /\ assembled'[m].base.readAt \in Nat
    BY <1>1, <1>6 DEF TypeOK, Candidates, Value
  <2>2. assembled'[m] = assembled[m] \/ Held(assembled'[m].base, version["base"])
    BY <1>1, <1>6, ListFrom
  <2>3. assembled'[m].base.readAt <= clock
    BY <1>2, <1>6, <2>1, <2>2 DEF CoolInv
  <2> QED BY <1>2, <1>3, <2>1, <2>3
<1>7. ASSUME Guarded'
      PROVE  /\ \A value \in Value, ver \in Nat :
                  (Held(value, ver) /\ ver = version["base"] => Covered(value))'
             /\ \A m \in Models : assembled'[m] # None => Covered(assembled[m].base)'
  <2>1. CASE /\ UNCHANGED <<override, knownHealth>> /\ version'["base"] = version["base"]
             /\ Guarded
    <3>1. ASSUME NEW value \in Value, Covered(value) PROVE Covered(value)'
      BY <2>1, <3>1 DEF Covered, LastUse
    <3>2. ASSUME NEW value \in Value, NEW ver \in Nat, Held(value, ver)', ver = version'["base"]
          PROVE  Covered(value)'
      <4>1. Held(value, ver) \/ Fresh(value)
        BY <1>1, <2>1, <3>2, HeldFrom
      <4>2. Fresh(value) => value.health >= knownHealth
        BY <1>2 DEF Fresh, CoolInv
      <4>3. Held(value, ver) => Covered(value)
        BY <2>1, <3>2 DEF CoolInv
      <4>4. Covered(value)
        BY <4>1, <4>2, <4>3 DEF Covered
      <4> QED BY <3>1, <4>4
    <3>3. ASSUME NEW m \in Models, assembled'[m] # None PROVE Covered(assembled'[m].base)
      <4>1. assembled'[m] = assembled[m] \/ Held(assembled'[m].base, version["base"])
        BY <1>1, <3>3, ListFrom
      <4>2. assembled'[m].base \in Value
        BY <1>6, <3>3
      <4>3. assembled'[m] = assembled[m] => Covered(assembled'[m].base)
        BY <2>1, <3>3 DEF CoolInv
      <4>4. Held(assembled'[m].base, version["base"]) => Covered(assembled'[m].base)
        BY <1>2, <2>1, <4>2 DEF CoolInv
      <4> QED BY <4>1, <4>3, <4>4
    <3>4. ASSUME NEW m \in Models, assembled'[m] # None PROVE Covered(assembled[m].base)'
      BY <2>1, <3>3, <3>4 DEF Covered, LastUse
    <3> QED BY <3>2, <3>4
  <2>2. CASE /\ override' # None /\ override'.expiresAt = clock + OverrideTtl
             /\ knownHealth' = dbHealth /\ UNCHANGED <<clock, dbHealth>>
    <3>1. ASSUME NEW value \in Value, value.readAt <= clock' PROVE Covered(value)'
      <4>1. LastUse(value) <= clock + OverrideTtl
        BY <1>2, <2>2, <3>1 DEF LastUse, OverrideTtl, Value
      <4> QED BY <2>2, <4>1 DEF Covered, LastUse
    <3>2. ASSUME NEW m \in Models, assembled'[m] # None PROVE Covered(assembled[m].base)'
      <4>1. assembled'[m].base \in Value /\ assembled'[m].base.readAt <= clock'
        BY <1>6, <3>2
      <4>2. LastUse(assembled'[m].base) <= clock + OverrideTtl
        BY <1>2, <2>2, <4>1 DEF LastUse, OverrideTtl, Value
      <4> QED BY <2>2, <4>2 DEF Covered, LastUse
    <3> QED BY <1>5, <3>1, <3>2
  <2>3. CASE version'["base"] = version["base"] + 1 /\ \A m \in Models : assembled'[m] = None
    <3>1. ASSUME NEW value \in Value, NEW ver \in Nat, Held(value, ver)', ver = version'["base"]
          PROVE  FALSE
      <4>1. Held(value, ver) \/ UNCHANGED version
        BY <1>1, <3>1, HeldFrom
      <4>2. ver <= version["base"]
        BY <1>1, <1>2, <3>1, <4>1, HeldIsPast
      <4> QED BY <1>2, <2>3, <3>1, <4>2
    <3> QED BY <2>3, <3>1
  <2> QED BY <1>1, <1>7, <2>1, <2>2, <2>3, ControlStep
<1> QED BY <1>1, <1>4, <1>5, <1>6, <1>7 DEF CoolInv

(* The invariant holds in every behaviour.                                 *)
THEOREM CoolSafe == Spec => []CoolInv
  BY InitCool, StepCool, PTL DEF Spec

(* A cooled account stays out for the normal and the stale lifetime of the *)
(* snapshot that shows it as it was, whatever overlaps, except in the two  *)
(* gaps CooldownKept names.                                                *)
THEOREM CooldownIsKept == Spec => []CooldownKept
<1>1. ASSUME CoolInv, Ages, ~exposed, ~HalfApplied
      PROVE  /\ LET snapshot == cache[Base]
                IN  /\ snapshot # None
                    /\ snapshot.version = version["base"]
                    /\ clock < snapshot.staleUntil
                    => Cooled(snapshot.value)
             /\ \A m \in Models :
                  Live(m) /\ clock < assembled[m].base.readAt + Ttl + StaleTtl
                    => Cooled(assembled[m].base)
  <2>1. Guarded /\ TypeOK
    BY <1>1 DEF Guarded, HalfApplied, CoolInv, RoutingInv
  <2>2. ASSUME NEW value \in Value, Covered(value), clock < LastUse(value) PROVE Cooled(value)
    <3>1. CASE value.health >= knownHealth
      BY <3>1 DEF Cooled
    <3>2. CASE override # None /\ LastUse(value) <= override.expiresAt
      <4>1. override.expiresAt \in Nat /\ clock \in Nat /\ LastUse(value) \in Nat
        BY <2>1, <3>2, RoutingAssumption DEF TypeOK, Override, LastUse, Value
      <4> QED BY <2>2, <3>2, <4>1 DEF Cooled, Overridden
    <3> QED BY <2>2, <3>1, <3>2 DEF Covered
  <2>3. ASSUME cache[Base] # None, cache[Base].version = version["base"],
               clock < cache[Base].staleUntil
        PROVE  Cooled(cache[Base].value)
    <3>1. cache[Base].value \in Value /\ cache[Base].staleUntil \in Nat /\ clock \in Nat
      BY <2>1, <2>3, KeyFacts DEF TypeOK, Snapshot
    <3>2. Held(cache[Base].value, version["base"])
      BY <2>3 DEF Held
    <3>3. LastUse(cache[Base].value) \in Nat
      BY <3>1, RoutingAssumption DEF LastUse, Value
    <3>4. clock < LastUse(cache[Base].value)
      BY <1>1, <2>3, <3>1, <3>3 DEF Ages, AgedSnapshot
    <3>5. version["base"] \in Nat
      BY <2>1, KeyFacts DEF TypeOK
    <3>6. Covered(cache[Base].value)
      BY <1>1, <2>1, <3>1, <3>2, <3>5 DEF CoolInv
    <3> QED BY <2>2, <3>1, <3>4, <3>6
  <2>4. ASSUME NEW m \in Models, Live(m), clock < assembled[m].base.readAt + Ttl + StaleTtl
        PROVE  Cooled(assembled[m].base)
    <3>1. assembled[m] # None /\ assembled[m].base \in Value
      BY <2>1, <2>4 DEF Live, TypeOK, Candidates
    <3> QED BY <1>1, <2>1, <2>2, <2>4, <3>1 DEF CoolInv, LastUse
  <2> QED BY <2>3, <2>4
<1>2. CoolInv /\ Ages => CooldownKept
  BY <1>1 DEF CooldownKept
<1> QED BY <1>2, CoolSafe, AgesSafe, PTL
=============================================================================
