---------------------------- MODULE RoutingCache ----------------------------
(***************************************************************************)
(* The routing snapshots of one process: application/gateway/selector.go.  *)
(* A list of candidates for a model is assembled from two layers, the      *)
(* accounts (base, one for all models) and what is known about the model   *)
(* (overlay), each loaded through a single flight, cached with a time to   *)
(* live and tied to the layer's generation, which every invalidation       *)
(* advances.  A failed account is cooled by an override that is laid over  *)
(* the lists when a request reads them and by a write to the database.     *)
(*                                                                         *)
(* One provider and one account whose health is followed; contents are     *)
(* revision numbers.  Writers are repositories of this or other processes: *)
(* a write and its invalidation are steps apart, and the invalidation of   *)
(* another process may be lost.  A section under candidateMu or healthMu   *)
(* is one step.                                                            *)
(***************************************************************************)
EXTENDS Integers, FiniteSets

CONSTANTS
  Models,          (* models lists are asked for                           *)
  Base,            (* the key of the base layer's snapshot                 *)
  Writers,         (* concurrent writers to the database                   *)
  Ttl,             (* candidateCacheTTL                                    *)
  StaleTtl,        (* candidateCacheStaleTTL                               *)
  RetryTtl,        (* candidateCacheRetryTTL                               *)
  QueryTime,       (* bound on the time of a flight: the query's context   *)
  Attempts,        (* tries of loadLayeredCandidates, 4 in the code        *)
  MaxRev,          (* bound on the writes to each layer                    *)
  MaxHealth,       (* bound on the health updates                          *)
  MaxClock,        (* bound on the clock                                   *)
  None             (* no snapshot, flight, result or override              *)

Layers == {"base", "overlay"}

(* What a query returns: the layer's content and, for the base layer, the  *)
(* account's health in it and when it was read.                            *)
Value == [rev : Nat, health : Nat, readAt : Nat]

Snapshot == [value : Value, version : Nat, expiresAt : Nat, staleUntil : Nat]

Result == [value : Value, version : Nat]

Flight == [at : Nat, version : Nat, fallback : Snapshot \cup {None},
           value : Value \cup {None}]

Candidates == [base : Value, overlay : Value, expiresAt : Nat]

Override == [health : Nat, expiresAt : Nat]

ASSUME RoutingAssumption ==
  /\ Base \notin Models
  /\ Ttl \in Nat \ {0} /\ StaleTtl \in Nat /\ RetryTtl \in Nat
  /\ QueryTime \in Nat
  /\ Attempts \in Nat \ {0}
  /\ MaxRev \in Nat /\ MaxHealth \in Nat /\ MaxClock \in Nat
  /\ None \notin Value \cup Snapshot \cup Result \cup Flight \cup Candidates \cup Override

VARIABLES
  clock,           (* the wall clock                                       *)
  db,              (* revision of each layer in the database               *)
  dbHealth,        (* revision of the account's health there               *)
  writer,          (* a write whose invalidation is not yet applied        *)
  marker,          (* the request that reports an upstream failure         *)
  version,         (* baseProviderVersion and overlayProviderVersion       *)
  cache,           (* routingBases and routingOverlays                     *)
  assembled,       (* candidates                                           *)
  flight,          (* loads of a layer in progress in candidateLoads       *)
  pc,              (* the load of a model's list, one at a time            *)
  checkTime,       (* its checkTime                                        *)
  attempt,         (* its attempt                                          *)
  result,          (* what it has got of each layer                        *)
  override,        (* healthOverrides of the account                       *)
  applied,         (* history: db when the last invalidation was applied   *)
  knownHealth,     (* history: the last health applied here                *)
  exposed          (* history: an event that spares the base layer took    *)
                   (* the override away                                    *)

databaseVars == <<db, dbHealth, writer, marker>>
cacheVars    == <<version, cache, assembled>>
loaderVars   == <<pc, checkTime, attempt, result>>
healthVars   == <<override, knownHealth, exposed>>
vars == <<clock, db, dbHealth, writer, marker, version, cache, assembled, flight,
          pc, checkTime, attempt, result, override, applied, knownHealth, exposed>>

Keys == Models \cup {Base}

LayerOf(f) == IF f = Base THEN "base" ELSE "overlay"

KeyFor(m, l) == IF l = "base" THEN Base ELSE m

(* Slip: the override covers the normal lifetime only.                     *)
OverrideTtlShort == Ttl

OverrideTtl == Ttl + StaleTtl

Idle == [phase |-> "idle", layer |-> "base"]

Nothing == [l \in Layers |-> None]

-----------------------------------------------------------------------------
(* Writes and invalidations.                                               *)

Commit(w) ==
  /\ writer[w] = Idle
  /\ \E l \in Layers :
       /\ db[l] < MaxRev
       /\ db' = [db EXCEPT ![l] = @ + 1]
       /\ writer' = [writer EXCEPT ![w] = [phase |-> "committed", layer |-> l]]
  /\ UNCHANGED <<clock, dbHealth, marker, cacheVars, flight, loaderVars, healthVars, applied>>

(* The writer is another process and its event does not arrive.            *)
EventLost(w) ==
  /\ writer[w].phase = "committed"
  /\ writer' = [writer EXCEPT ![w] = Idle]
  /\ UNCHANGED <<clock, db, dbHealth, marker, cacheVars, flight, loaderVars, healthVars, applied>>

(* ApplyInvalidation first clears the overrides, whatever the layer: that  *)
(* of the account the event names, or all.  The event of another account   *)
(* leaves this one's alone.                                                *)
ClearHealthOverrides(w) ==
  /\ writer[w].phase = "committed"
  /\ writer' = [writer EXCEPT ![w].phase = "cleared"]
  /\ \/ /\ override' = None
        /\ exposed' = (writer[w].layer = "overlay")
     \/ UNCHANGED <<override, exposed>>
  /\ UNCHANGED <<clock, db, dbHealth, marker, cacheVars, flight, loaderVars, applied, knownHealth>>

(* A change of client keys comes here too: its event names no provider and *)
(* no account, so it clears the overrides of all and touches no layer.     *)
ClientKeyEvent ==
  /\ override' = None
  /\ exposed' = (exposed \/ override # None)
  /\ UNCHANGED <<clock, databaseVars, cacheVars, flight, loaderVars, applied, knownHealth>>

(* Then, under candidateMu, it advances the layer's generation and drops   *)
(* its snapshots and every assembled list.                                 *)
Invalidate(w) ==
  /\ writer[w].phase = "cleared"
  /\ LET l == writer[w].layer
     IN  /\ version' = [version EXCEPT ![l] = @ + 1]
         /\ cache' = [f \in Keys |-> IF LayerOf(f) = l THEN None ELSE cache[f]]
         /\ applied' = [applied EXCEPT ![l] = db[l]]
         /\ exposed' = (exposed /\ l = "overlay")
  /\ assembled' = [m \in Models |-> None]
  /\ writer' = [writer EXCEPT ![w] = Idle]
  /\ UNCHANGED <<clock, db, dbHealth, marker, flight, loaderVars, override, knownHealth>>

(* UpdateHealth writes the account's cooldown ...                          *)
UpdateHealth ==
  /\ marker = "idle"
  /\ dbHealth < MaxHealth
  /\ dbHealth' = dbHealth + 1
  /\ marker' = "committed"
  /\ UNCHANGED <<clock, db, writer, cacheVars, flight, loaderVars, healthVars, applied>>

(* ... and applyHealthInvalidation runs twice, for the repository's event  *)
(* and for the one of markFailure itself.  Neither touches a generation.   *)
ApplyHealth ==
  /\ marker # "idle"
  /\ override' = [health |-> dbHealth, expiresAt |-> clock + OverrideTtl]
  /\ knownHealth' = dbHealth
  /\ exposed' = FALSE
  /\ marker' = IF marker = "committed" THEN "notified" ELSE "idle"
  /\ UNCHANGED <<clock, db, dbHealth, writer, cacheVars, flight, loaderVars, applied>>

-----------------------------------------------------------------------------
(* loadLayeredCandidates: one load per list, the others wait for it.       *)

Live(m) == assembled[m] # None /\ clock < assembled[m].expiresAt

Begin(m) ==
  /\ pc[m] = "idle"
  /\ ~Live(m)
  /\ pc' = [pc EXCEPT ![m] = "base"]
  /\ checkTime' = [checkTime EXCEPT ![m] = clock]
  /\ attempt' = [attempt EXCEPT ![m] = 1]
  /\ UNCHANGED <<clock, databaseVars, cacheVars, flight, result, healthVars, applied>>

(* Slip: the overlay is not loaded when the base layer is there.           *)
AfterSkips(l) == "check"

(* The load m has its answer for layer l.                                  *)
After(l) == IF l = "base" THEN "overlay" ELSE "check"

(* The first look of loadRoutingBases and loadRoutingOverlay.  It compares *)
(* with the time the whole load began.                                     *)
Hit(m, l) ==
  LET snapshot == cache[KeyFor(m, l)]
  IN  /\ snapshot # None
      /\ checkTime[m] < snapshot.expiresAt
      /\ snapshot.version = version[l]

LookUp(m) ==
  \E l \in Layers :
    /\ pc[m] = l
    /\ IF Hit(m, l)
         THEN /\ result' = [result EXCEPT ![m][l] =
                   [value |-> cache[KeyFor(m, l)].value, version |-> version[l]]]
              /\ pc' = [pc EXCEPT ![m] = After(l)]
         ELSE /\ pc' = [pc EXCEPT ![m] = IF l = "base" THEN "awaitBase" ELSE "awaitOverlay"]
              /\ UNCHANGED result
    /\ UNCHANGED <<clock, databaseVars, cacheVars, flight, checkTime, attempt, healthVars, applied>>

Awaiting(f) ==
  IF f = Base THEN {m \in Models : pc[m] = "awaitBase"}
              ELSE {m \in {f} : pc[m] = "awaitOverlay"}

(* Everyone who waits for the flight gets its value and generation.        *)
Deliver(f, value, ver) ==
  LET l == LayerOf(f)
  IN  /\ result' = [m \in Models |->
            IF m \in Awaiting(f) THEN [result[m] EXCEPT ![l] = [value |-> value, version |-> ver]]
                                 ELSE result[m]]
      /\ pc' = [m \in Models |-> IF m \in Awaiting(f) THEN After(l) ELSE pc[m]]

(* The loads of S return and their locals are gone.                        *)
Return(S) ==
  /\ pc' = [m \in Models |-> IF m \in S THEN "idle" ELSE pc[m]]
  /\ checkTime' = [m \in Models |-> IF m \in S THEN 0 ELSE checkTime[m]]
  /\ attempt' = [m \in Models |-> IF m \in S THEN 0 ELSE attempt[m]]
  /\ result' = [m \in Models |-> IF m \in S THEN Nothing ELSE result[m]]

(* The second look, inside the flight, at the time of the flight: a fresh  *)
(* snapshot ends it at once, a stale one is kept in reserve.               *)
Depart(f) ==
  /\ Awaiting(f) # {}
  /\ flight[f] = None
  /\ LET snapshot == cache[f]
         current == snapshot # None /\ snapshot.version = version[LayerOf(f)]
     IN  IF current /\ clock < snapshot.expiresAt
           THEN /\ Deliver(f, snapshot.value, snapshot.version)
                /\ UNCHANGED flight
           ELSE /\ flight' = [flight EXCEPT ![f] =
                     [at |-> clock, version |-> version[LayerOf(f)],
                      fallback |-> IF current /\ clock < snapshot.staleUntil THEN snapshot ELSE None,
                      value |-> None]]
                /\ UNCHANGED <<pc, result>>
  /\ UNCHANGED <<clock, databaseVars, cacheVars, checkTime, attempt, healthVars, applied>>

(* The database answers.                                                   *)
Query(f) ==
  /\ flight[f] # None /\ flight[f].value = None
  /\ flight' = [flight EXCEPT ![f].value =
       [rev |-> db[LayerOf(f)],
        health |-> IF f = Base THEN dbHealth ELSE 0,
        readAt |-> IF f = Base THEN clock ELSE 0]]
  /\ UNCHANGED <<clock, databaseVars, cacheVars, loaderVars, healthVars, applied>>

EarlierOf(x, y) == IF x < y THEN x ELSE y

(* Slip: each use of a stale snapshot begins a new stale period.           *)
ReusedAnew(stale, at) ==
  [stale EXCEPT !.expiresAt = at + RetryTtl, !.staleUntil = at + RetryTtl + StaleTtl]

(* What is left of a stale snapshot that is used again at a time.          *)
Reused(stale, at) ==
  [stale EXCEPT !.expiresAt = EarlierOf(at + RetryTtl, stale.staleUntil)]

(* A transient error: the stale snapshot is used again for a short while.  *)
Fallback(f) ==
  /\ flight[f] # None /\ flight[f].value = None
  /\ flight[f].fallback # None
  /\ LET stale == flight[f].fallback
     IN  /\ cache' = [cache EXCEPT ![f] = Reused(stale, flight[f].at)]
         /\ Deliver(f, stale.value, flight[f].version)
  /\ flight' = [flight EXCEPT ![f] = None]
  /\ UNCHANGED <<clock, databaseVars, version, assembled, checkTime, attempt, healthVars, applied>>

(* Any other error ends the loads that wait.                               *)
QueryFails(f) ==
  /\ flight[f] # None /\ flight[f].value = None
  /\ flight' = [flight EXCEPT ![f] = None]
  /\ Return(Awaiting(f))
  /\ UNCHANGED <<clock, databaseVars, cacheVars, healthVars, applied>>

(* Slip: the answer is kept under the generation of the moment.            *)
LandUnchecked(f) ==
  /\ flight[f] # None /\ flight[f].value # None
  /\ LET until == flight[f].at + Ttl
     IN  cache' = [cache EXCEPT ![f] =
           [value |-> flight[f].value, version |-> version[LayerOf(f)],
            expiresAt |-> until, staleUntil |-> until + StaleTtl]]
  /\ Deliver(f, flight[f].value, flight[f].version)
  /\ flight' = [flight EXCEPT ![f] = None]
  /\ UNCHANGED <<clock, databaseVars, version, assembled, checkTime, attempt, healthVars, applied>>

(* The answer is kept only if the generation has not moved; the caller     *)
(* gets it in either case, with the generation of the flight.              *)
Land(f) ==
  /\ flight[f] # None /\ flight[f].value # None
  /\ LET l == LayerOf(f)
         until == flight[f].at + Ttl
     IN  IF flight[f].version = version[l]
           THEN cache' = [cache EXCEPT ![f] =
                  [value |-> flight[f].value, version |-> version[l],
                   expiresAt |-> until, staleUntil |-> until + StaleTtl]]
           ELSE UNCHANGED cache
  /\ Deliver(f, flight[f].value, flight[f].version)
  /\ flight' = [flight EXCEPT ![f] = None]
  /\ UNCHANGED <<clock, databaseVars, version, assembled, checkTime, attempt, healthVars, applied>>

Keep(m) ==
  assembled' = [assembled EXCEPT ![m] =
    [base |-> result[m]["base"].value, overlay |-> result[m]["overlay"].value,
     expiresAt |-> checkTime[m] + Ttl]]

Stable(m) == \A l \in Layers : result[m][l].version = version[l]

(* Both layers are still current: the list is kept.                        *)
Assemble(m) ==
  /\ pc[m] = "check"
  /\ Stable(m)
  /\ Keep(m)
  /\ Return({m})
  /\ UNCHANGED <<clock, databaseVars, version, cache, flight, healthVars, applied>>

(* The filter of flagged accounts reads the database and may fail.         *)
FilterFails(m) ==
  /\ pc[m] = "check"
  /\ Stable(m)
  /\ Return({m})
  /\ UNCHANGED <<clock, databaseVars, cacheVars, flight, healthVars, applied>>

(* A layer moved meanwhile: once more, a limited number of times.          *)
TryAgain(m) ==
  /\ pc[m] = "check"
  /\ ~Stable(m)
  /\ IF attempt[m] < Attempts
       THEN /\ pc' = [pc EXCEPT ![m] = "base"]
            /\ attempt' = [attempt EXCEPT ![m] = @ + 1]
            /\ checkTime' = [checkTime EXCEPT ![m] = clock]
       ELSE /\ pc' = [pc EXCEPT ![m] = "combined"]
            /\ UNCHANGED <<attempt, checkTime>>
  /\ result' = [result EXCEPT ![m] = Nothing]
  /\ UNCHANGED <<clock, databaseVars, cacheVars, flight, healthVars, applied>>

(* The combined query, whose answer is returned and not kept.              *)
Combined(m) ==
  /\ pc[m] = "combined"
  /\ Return({m})
  /\ UNCHANGED <<clock, databaseVars, cacheVars, flight, healthVars, applied>>

(* Time passes; a flight ends with the context of its query.               *)
Tick ==
  /\ clock < MaxClock
  /\ \A f \in Keys : flight[f] # None => clock < flight[f].at + QueryTime
  /\ clock' = clock + 1
  /\ UNCHANGED <<databaseVars, cacheVars, flight, loaderVars, healthVars, applied>>

-----------------------------------------------------------------------------
Init ==
  /\ clock = 0
  /\ db = [l \in Layers |-> 0]
  /\ dbHealth = 0
  /\ writer = [w \in Writers |-> Idle]
  /\ marker = "idle"
  /\ version = [l \in Layers |-> 0]
  /\ cache = [f \in Keys |-> None]
  /\ assembled = [m \in Models |-> None]
  /\ flight = [f \in Keys |-> None]
  /\ pc = [m \in Models |-> "idle"]
  /\ checkTime = [m \in Models |-> 0]
  /\ attempt = [m \in Models |-> 0]
  /\ result = [m \in Models |-> Nothing]
  /\ override = None
  /\ applied = [l \in Layers |-> 0]
  /\ knownHealth = 0
  /\ exposed = FALSE

Database ==
  \/ \E w \in Writers : Commit(w) \/ EventLost(w) \/ ClearHealthOverrides(w) \/ Invalidate(w)
  \/ ClientKeyEvent
  \/ UpdateHealth \/ ApplyHealth

Load(m) ==
  Begin(m) \/ LookUp(m) \/ Assemble(m) \/ FilterFails(m) \/ TryAgain(m) \/ Combined(m)

Fly(f) == Depart(f) \/ Query(f) \/ Fallback(f) \/ QueryFails(f) \/ Land(f)

Next ==
  \/ Database
  \/ \E m \in Models : Load(m)
  \/ \E f \in Keys : Fly(f)
  \/ Tick

Spec == Init /\ [][Next]_vars

-----------------------------------------------------------------------------
PCs == {"idle", "base", "awaitBase", "overlay", "awaitOverlay", "check", "combined"}

(* Every variable has its type; a load that compares generations has a     *)
(* result of both layers.                                                  *)
TypeOK ==
  /\ clock \in Nat
  /\ db \in [Layers -> Nat] /\ applied \in [Layers -> Nat] /\ version \in [Layers -> Nat]
  /\ dbHealth \in Nat /\ knownHealth \in Nat
  /\ writer \in [Writers -> [phase : {"idle", "committed", "cleared"}, layer : Layers]]
  /\ marker \in {"idle", "committed", "notified"}
  /\ cache \in [Keys -> Snapshot \cup {None}]
  /\ assembled \in [Models -> Candidates \cup {None}]
  /\ flight \in [Keys -> Flight \cup {None}]
  /\ pc \in [Models -> PCs]
  /\ checkTime \in [Models -> Nat]
  /\ attempt \in [Models -> Nat]
  /\ result \in [Models -> [Layers -> Result \cup {None}]]
  /\ override \in Override \cup {None}
  /\ exposed \in BOOLEAN
  /\ \A m \in Models :
       /\ pc[m] \in {"overlay", "awaitOverlay", "check"} => result[m]["base"] # None
       /\ pc[m] = "check" => result[m]["overlay"] # None

-----------------------------------------------------------------------------
(* No list that is kept, and no snapshot that could still be used, is      *)
(* older than an invalidation already applied: whatever was read before is *)
(* dropped, or fails the comparison of generations, even when the query    *)
(* and the invalidation overlap.                                           *)
FreshCaches ==
  /\ \A f \in Keys :
       cache[f] # None /\ cache[f].version = version[LayerOf(f)]
         => cache[f].value.rev >= applied[LayerOf(f)]
  /\ \A m \in Models :
       assembled[m] # None => /\ assembled[m].base.rev >= applied["base"]
                              /\ assembled[m].overlay.rev >= applied["overlay"]

(* "the TTL is only a safety net for ... missed notifications": however    *)
(* the periods of the three caches and the fallbacks add up, no list is    *)
(* kept longer than this after its accounts were read.  The query's time   *)
(* is part of it: a load that joins a flight late is given the stale       *)
(* snapshot the flight has kept in reserve since it departed.              *)
AgeBounded ==
  \A m \in Models :
    assembled[m] # None =>
      assembled[m].expiresAt < assembled[m].base.readAt + Ttl + StaleTtl + QueryTime + Ttl

Overridden == override # None /\ clock < override.expiresAt

HalfApplied == \E w \in Writers : writer[w].phase = "cleared"

Cooled(value) == value.health >= knownHealth \/ Overridden

(* A cooled account stays out: whatever shows it as it was before a health *)
(* update that this process has applied is corrected by the override, for  *)
(* the normal and the stale lifetime of the base snapshot, through fall-   *)
(* backs after errors, and through a base event, which clears the override *)
(* but makes the next load read the cooldown.  Left out are the middle of  *)
(* an invalidation and the time after an event that spares the base layer  *)
(* took the override away (see CooldownSurvives).                          *)
CooldownKept ==
  ~exposed /\ ~HalfApplied =>
    /\ LET snapshot == cache[Base]
       IN  /\ snapshot # None
           /\ snapshot.version = version["base"]
           /\ clock < snapshot.staleUntil
           => Cooled(snapshot.value)
    /\ \A m \in Models :
         Live(m) /\ clock < assembled[m].base.readAt + Ttl + StaleTtl
           => Cooled(assembled[m].base)

(* The comment on routingHealthOverrideTTL: overrides bridge request-path  *)
(* mutations "until the immutable provider snapshot naturally refreshes".  *)
CooldownSurvives ==
  ~HalfApplied => \A m \in Models : Live(m) => Cooled(assembled[m].base)
=============================================================================
