---------------------------- MODULE AccountLeases ---------------------------
(***************************************************************************)
(* The account slots of the gateway: every request that is sent upstream   *)
(* holds one of the max_concurrent slots of an account.  A request works   *)
(* on a list of candidates it read once, prefers the account its session   *)
(* is bound to, waits when the account is busy, and returns the slot on    *)
(* every way out (application/gateway/selector.go, selector_session.go and *)
(* the attempt loop of service.go).  Slots and bindings live in the store  *)
(* the instances share (infra/runtime/redis), where a slot whose holder    *)
(* has gone is dropped when its lease expires; the announcement that a     *)
(* slot was returned reaches the waiters of the same instance only.        *)
(*                                                                         *)
(* One script of the store, one query and one section between two of them  *)
(* is a step.  The order the planner tries the accounts in is left open.   *)
(***************************************************************************)
EXTENDS Integers, FiniteSets

CONSTANTS
  Requests,        (* client requests                                      *)
  Instances,       (* gateway processes                                    *)
  Accounts,        (* upstream accounts of one provider                    *)
  Keys,            (* affinity keys of sessions                            *)
  Entries,         (* the processes a request may arrive at                *)
  KeyOf,           (* the session of a request, or None                    *)
  Pins,            (* accounts a stored response may oblige it to, or None *)
  Limits,          (* values of max_concurrent, 0 for the default          *)
  FirstLimit,      (* max_concurrent of each account at the start          *)
  DefaultLimit,    (* account.DefaultMaxConcurrent                         *)
  MaxAttempts,     (* attempts of a request that is not pinned             *)
  MaxEvents,       (* bound on faults and on changes of the accounts       *)
  Leaked,          (* holder of a slot nobody will return                  *)
  None             (* no account, no session                               *)

ASSUME LeasesAssumption ==
  /\ Entries \in [Requests -> SUBSET Instances]
  /\ KeyOf \in [Requests -> Keys \cup {None}]
  /\ Pins \in [Requests -> SUBSET (Accounts \cup {None})]
  /\ Limits \subseteq Nat /\ FirstLimit \in [Accounts -> Limits]
  /\ DefaultLimit \in Nat \ {0}
  /\ MaxAttempts \in Nat \ {0} /\ MaxEvents \in Nat
  /\ Requests \cap Instances = {}
  /\ Leaked \notin Requests \cup Instances
  /\ None \notin Accounts \cup Keys \cup Instances

VARIABLES
  limit,           (* max_concurrent of an account's row                   *)
  rows,            (* accounts whose row is still the one the lists show   *)
  cool,            (* accounts that are cooling                            *)
  slots,           (* slots of each account in the shared store            *)
  bound,           (* the account each session is bound to                 *)
  pc,              (* where a request is                                   *)
  req,             (* what it has read and tried                           *)
  woken,           (* its notice has been closed                           *)
  events           (* faults and changes so far                            *)

vars == <<limit, rows, cool, slots, bound, pc, req, woken, events>>

(* A slot: its random token, the limit it was granted under and who will   *)
(* return it: its request, the retry queue of a process, or nobody.        *)
Slot == [id : Nat, lim : Nat, by : Requests \cup Instances \cup {Leaked}]

(* cand and lim are the list the request read; plan are the candidates not *)
(* tried since the last plan, barred those it will not use again;          *)
(* at is the account it is trying, why says for what; own is the account   *)
(* it has a slot of.                                                       *)
Request == [inst : Instances \cup {None}, pin : Accounts \cup {None}, cand : SUBSET Accounts, lim : [Accounts -> Nat],
            plan : SUBSET Accounts, barred : SUBSET Accounts,
            stickyTried : BOOLEAN, patient : BOOLEAN,
            attempt : Nat, at : Accounts \cup {None},
            why : {"pin", "plan", "rebind"}, own : Accounts \cup {None}]

Places == {"idle", "select", "plan", "claim", "hydrate", "missed", "wait",
           "bind", "set", "send", "done"}

Fresh == [inst |-> None, pin |-> None, cand |-> {}, lim |-> [a \in Accounts |-> 0],
             plan |-> {}, barred |-> {},
             stickyTried |-> FALSE, patient |-> TRUE,
             attempt |-> 0, at |-> None, why |-> "plan", own |-> None]

Pinned(r) == req[r].pin # None

Sticky(r) == KeyOf[r] # None /\ ~Pinned(r)

Effective(l) == IF l = 0 THEN DefaultLimit ELSE l

Events(n) == events' = events + n /\ events' <= MaxEvents

Quiet == UNCHANGED <<limit, rows, cool>>

Same == UNCHANGED <<limit, rows, cool, events>>

-----------------------------------------------------------------------------
(* Going on: what a request does next is set by its place and its record.  *)

Goto(r, place, record) ==
  /\ pc' = [pc EXCEPT ![r] = place]
  /\ req' = [req EXCEPT ![r] = record]

(* The request is over; nothing of it is kept.                             *)
Over(r) == Goto(r, "done", Fresh)

(* A selected account is excluded from the rest of the request before      *)
(* anything is sent.                                                       *)
Selected(r, a, record) ==
  Goto(r, "send", [record EXCEPT !.own = a, !.at = None, !.why = "plan", !.barred = @ \cup {a}])

(* On with the plan.  When all of it is tried, a request none of whose     *)
(* candidates is left, or that spent its patience on the bound account,    *)
(* fails; another one will wait.                                           *)
Onward(r, q) ==
  IF q.plan \ q.barred # {} THEN Goto(r, "plan", q)
  ELSE IF q.cand \subseteq q.barred \/ ~q.patient THEN Over(r)
  ELSE Goto(r, "missed", q)

(* Slip: an account that failed the request passes.                        *)
Listed(r, a) == a \in req[r].cand

(* candidateExcluded and routingCandidateByID.                             *)
Usable(r, a) == a \in req[r].cand \ req[r].barred

Waiting(i) == {r \in Requests : pc[r] = "wait" /\ req[r].inst = i}

Announce(i) == woken' = [r \in Requests |-> woken[r] \/ r \in Waiting(i)]

HeldBy(r, a) == {l \in slots[a] : l.by = r}

(* Slip: one too many.                                                     *)
FullBeyond(a, max) == Cardinality(slots[a]) > max

Full(a, max) == Cardinality(slots[a]) >= max

(* acquireLeaseScript: unless the account is full, a token is added that   *)
(* no slot of the account has.                                             *)
Grant(a, max, by, others) ==
  /\ ~Full(a, max)
  /\ \E id \in 0 .. Cardinality(slots[a]) :
       /\ \A l \in slots[a] : l.id # id
       /\ \A n \in 0 .. id - 1 : \E l \in slots[a] : l.id = n
       /\ slots' = [others EXCEPT ![a] = @ \cup {[id |-> id, lim |-> max, by |-> by]}]

(* A slot is returned and the waiters of the process are told.  When the   *)
(* store refuses, the token is queued for a retry, or dropped if the queue *)
(* is full or stopped, and the waiters are told all the same.  n counts    *)
(* what else happens in the step.                                          *)
Return(r, a, n) ==
  /\ \/ /\ Events(n)
        /\ slots' = [slots EXCEPT ![a] = @ \ HeldBy(r, a)]
     \/ /\ Events(n + 1)
        /\ \E by \in {req[r].inst, Leaked} :
             slots' = [slots EXCEPT ![a] = (@ \ HeldBy(r, a))
                                             \cup {[l EXCEPT !.by = by] : l \in HeldBy(r, a)}]
  /\ Announce(req[r].inst)

(* MarkFailure: the account may be cooled.                                 *)
ReturnFailed(r, a) ==
  \E n \in {0, 1} : /\ cool' = IF n = 1 THEN cool \cup {a} ELSE cool
                    /\ Return(r, a, n)

-----------------------------------------------------------------------------
(* Selection                                                               *)

(* A request arrives and reads its list of candidates.                     *)
Begin(r) ==
  /\ pc[r] = "idle"
  /\ \E inst \in Entries[r], pin \in Pins[r] :
       LET usable == rows \ cool
           cand == IF pin = None THEN usable ELSE {pin} \cap usable
           read == [Fresh EXCEPT !.inst = inst, !.pin = pin, !.cand = cand,
                                     !.lim = limit, !.plan = cand]
       IN IF cand = {} THEN Over(r) ELSE Goto(r, "select", read)
  /\ Same /\ UNCHANGED <<slots, bound, woken>>

(* selectionSession.Acquire and acquirePinned: what is tried before the    *)
(* plan is the pinned account or, once, the one the session is bound to.   *)
Select(r) ==
  /\ pc[r] = "select"
  /\ LET q == [req[r] EXCEPT !.stickyTried = TRUE]
         tried == IF Pinned(r) THEN req[r].pin
                  ELSE IF Sticky(r) /\ ~req[r].stickyTried THEN bound[KeyOf[r]] ELSE None
     IN IF Usable(r, tried)
        THEN Goto(r, "claim", [q EXCEPT !.at = tried, !.why = "pin"])
        ELSE Onward(r, q)
  /\ Same /\ UNCHANGED <<slots, bound, woken>>

(* Slip: a busy bound account loses the session.                           *)
MissedMoves(r, q) ==
  CASE q.why = "pin"    -> Goto(r, "missed", q)
    [] q.why = "plan"   -> Onward(r, [q EXCEPT !.at = None])
    [] q.why = "rebind" -> Goto(r, "set", [q EXCEPT !.at = None])

(* What follows a claim that finds no slot.                                *)
Missed(r, q) ==
  CASE q.why = "pin"    -> Goto(r, "missed", q)
    [] q.why = "plan"   -> Onward(r, [q EXCEPT !.at = None])
    [] q.why = "rebind" -> Selected(r, q.own, q)

(* claimAccountSlot: an account the process knows to cool is passed over   *)
(* and a full one refuses; the limit is that of the list the request read. *)
ClaimSlot(r, q) ==
  LET max == Effective(q.lim[q.at])
  IN \/ /\ q.at \in cool \/ Full(q.at, max)
        /\ Missed(r, q)
        /\ UNCHANGED slots
     \/ /\ Grant(q.at, max, r, slots)
        /\ Goto(r, "hydrate", q)

Claim(r) ==
  /\ pc[r] = "claim"
  /\ ClaimSlot(r, req[r])
  /\ Same /\ UNCHANGED <<bound, woken>>

(* The next candidate of the plan that is not barred.                      *)
ClaimNext(r) ==
  /\ pc[r] = "plan"
  /\ \E a \in req[r].plan \ req[r].barred :
       ClaimSlot(r, [req[r] EXCEPT !.plan = @ \ {a}, !.at = a, !.why = "plan"])
  /\ Same /\ UNCHANGED <<bound, woken>>

(* The row is read under the slot and is still the listed one.             *)
Hydrated(r) ==
  /\ pc[r] = "hydrate" /\ req[r].at \in rows /\ req[r].why # "rebind"
  /\ IF Sticky(r) THEN Goto(r, "bind", [req[r] EXCEPT !.own = req[r].at, !.at = None])
                  ELSE Selected(r, req[r].at, req[r])
  /\ Same /\ UNCHANGED <<slots, bound, woken>>

(* Slip: the slot at hand is kept beside that of the bound account.        *)
ReboundKeepsBoth(r) ==
  /\ pc[r] = "hydrate" /\ req[r].at \in rows /\ req[r].why = "rebind"
  /\ Selected(r, req[r].at, req[r])
  /\ Same /\ UNCHANGED <<slots, bound, woken>>

(* The bound account is taken after all: the slot at hand is returned.     *)
Rebound(r) ==
  /\ pc[r] = "hydrate" /\ req[r].at \in rows /\ req[r].why = "rebind"
  /\ Return(r, req[r].own, 0)
  /\ Selected(r, req[r].at, req[r])
  /\ Quiet /\ UNCHANGED bound

(* The row has gone or is another one: the slot is returned, the account   *)
(* is left out of the rest of the request, and no session stays bound to   *)
(* it, unless the store fails to delete the bindings, which is ignored.    *)
StaleRow(r) ==
  /\ pc[r] = "hydrate" /\ req[r].at \notin rows
  /\ Return(r, req[r].at, 0)
  /\ LET a == req[r].at
         why == req[r].why
         q == [req[r] EXCEPT !.barred = @ \cup {a}, !.at = None, !.why = "plan"]
     IN /\ \/ UNCHANGED bound
           \/ /\ why \in {"pin", "rebind"} /\ ~Pinned(r)
              /\ bound' = [k \in Keys |-> IF bound[k] = a THEN None ELSE bound[k]]
        /\ IF Pinned(r) THEN Over(r)
           ELSE IF why = "rebind" THEN Goto(r, "set", q) ELSE Onward(r, q)
  /\ Quiet

(* completeNormalLease: the session is bound to the account unless it is   *)
(* bound already; if the bound one can be used, one slot of it is tried    *)
(* while the slot at hand is kept.                                         *)
Bind(r) ==
  /\ pc[r] = "bind"
  /\ LET q == req[r]
         b == bound[KeyOf[r]]
     IN \/ /\ b \in {None, q.own}
           /\ bound' = [bound EXCEPT ![KeyOf[r]] = q.own]
           /\ Selected(r, q.own, q)
        \/ /\ b \notin {None, q.own} /\ UNCHANGED bound
           /\ IF Usable(r, b) THEN Goto(r, "claim", [q EXCEPT !.at = b, !.why = "rebind"])
                              ELSE Goto(r, "set", q)
  /\ Same /\ UNCHANGED <<slots, woken>>

(* The binding is replaced by the account at hand.                         *)
SetBinding(r) ==
  /\ pc[r] = "set"
  /\ bound' = [bound EXCEPT ![KeyOf[r]] = req[r].own]
  /\ Selected(r, req[r].own, req[r])
  /\ Same /\ UNCHANGED <<slots, woken>>

(* The store or the database fails a call of the selection: whatever the   *)
(* request has is returned and it ends.  When it is the answer to a claim  *)
(* that is lost, the token may have been added, and nobody knows it.       *)
StoreFails(r) ==
  /\ pc[r] \in {"select", "plan", "claim", "hydrate", "bind", "set"}
  /\ Events(1)
  /\ LET kept == [a \in Accounts |-> slots[a] \ HeldBy(r, a)]
         tried == CASE pc[r] = "plan"  -> req[r].plan \ req[r].barred
                    [] pc[r] = "claim" -> {req[r].at}
                    [] OTHER           -> {}
     IN \/ slots' = kept
        \/ \E a \in tried : Grant(a, Effective(req[r].lim[a]), Leaked, kept)
  /\ Announce(req[r].inst)
  /\ Over(r)
  /\ Quiet /\ UNCHANGED bound

-----------------------------------------------------------------------------
(* Waiting for a slot                                                      *)

(* awaitLeaseRetry: the notice is taken only now, after the claim failed.  *)
TakeNotice(r) ==
  /\ pc[r] = "missed"
  /\ Goto(r, "wait", req[r])
  /\ woken' = [woken EXCEPT ![r] = FALSE]
  /\ Same /\ UNCHANGED <<slots, bound>>

Again(r) ==
  /\ IF req[r].why = "pin"
     THEN Goto(r, "claim", req[r])
     ELSE Goto(r, "plan", [req[r] EXCEPT !.plan = req[r].cand])
  /\ woken' = [woken EXCEPT ![r] = FALSE]
  /\ Same /\ UNCHANGED <<slots, bound>>

(* The notice is closed: try again.                                        *)
Notified(r) == pc[r] = "wait" /\ woken[r] /\ Again(r)

(* Slip: no timer, only the notice.                                        *)
PollNever(r) == Notified(r)

(* The timer of 100 ms fires: try again.                                   *)
Poll(r) == pc[r] = "wait" /\ ~woken[r] /\ Again(r)

(* The deadline: a session that waited for its bound account goes through  *)
(* the others once, without waiting; anybody else is refused.              *)
GiveUp(r) ==
  /\ pc[r] = "wait"
  /\ IF req[r].why = "pin" /\ ~Pinned(r)
     THEN Onward(r, [req[r] EXCEPT !.patient = FALSE, !.at = None, !.why = "plan"])
     ELSE Over(r)
  /\ woken' = [woken EXCEPT ![r] = FALSE]
  /\ Same /\ UNCHANGED <<slots, bound>>

(* The client goes away while the request waits.                           *)
Cancel(r) ==
  /\ pc[r] = "wait"
  /\ Over(r)
  /\ woken' = [woken EXCEPT ![r] = FALSE]
  /\ Same /\ UNCHANGED <<slots, bound>>

-----------------------------------------------------------------------------
(* The attempt                                                             *)

HasNext(r) == ~Pinned(r) /\ req[r].attempt + 1 < MaxAttempts

(* Slip: attempt-- is not made up for.                                     *)
AttemptLost(r, spent) ==
  Goto(r, "select", [req[r] EXCEPT !.attempt = @ + spent - 1, !.own = None, !.patient = TRUE])

NextAttempt(r, spent) ==
  Goto(r, "select", [req[r] EXCEPT !.attempt = @ + spent, !.own = None, !.patient = TRUE])

(* The account fails the request: no credential, no quota, refused or in   *)
(* error.  It may be cooled.                                               *)
AccountFails(r) ==
  /\ pc[r] = "send"
  /\ ReturnFailed(r, req[r].own)
  /\ IF HasNext(r) THEN NextAttempt(r, 1) ELSE Over(r)
  /\ UNCHANGED <<limit, rows, bound>>

(* The team's limit for the model is known to be reached: nothing is sent  *)
(* and the attempt does not count.                                         *)
TeamLimited(r) ==
  /\ pc[r] = "send"
  /\ Return(r, req[r].own, 0)
  /\ IF Pinned(r) THEN Over(r) ELSE NextAttempt(r, 0)
  /\ Quiet /\ UNCHANGED bound

(* The request is answered, or cannot be helped by another account, or its *)
(* stream ends, well or with an account that is then cooled: the slot is   *)
(* returned, once.                                                         *)
Finish(r) ==
  /\ pc[r] = "send"
  /\ ReturnFailed(r, req[r].own)
  /\ Over(r)
  /\ UNCHANGED <<limit, rows, bound>>

-----------------------------------------------------------------------------
(* The store, the administrator, time and failure                          *)

(* The retry queue reaches the store; nobody is told.                      *)
RetryReleases(i) ==
  /\ \E a \in Accounts : HeldBy(i, a) # {}
  /\ slots' = [a \in Accounts |-> slots[a] \ HeldBy(i, a)]
  /\ Same /\ UNCHANGED <<bound, pc, req, woken>>

(* The lease of a slot nobody returns runs out.                            *)
LeaseExpires(a) ==
  /\ HeldBy(Leaked, a) # {}
  /\ slots' = [slots EXCEPT ![a] = @ \ HeldBy(Leaked, a)]
  /\ Same /\ UNCHANGED <<bound, pc, req, woken>>

CooldownEnds(a) ==
  /\ a \in cool
  /\ cool' = cool \ {a}
  /\ UNCHANGED <<limit, rows, slots, bound, pc, req, woken, events>>

BindingExpires(k) ==
  /\ bound[k] # None
  /\ Events(1)
  /\ bound' = [bound EXCEPT ![k] = None]
  /\ Quiet /\ UNCHANGED <<slots, pc, req, woken>>

ChangeLimit(a) ==
  /\ Events(1)
  /\ \E l \in Limits \ {limit[a]} : limit' = [limit EXCEPT ![a] = l]
  /\ UNCHANGED <<rows, cool, slots, bound, pc, req, woken>>

RemoveRow(a) ==
  /\ a \in rows
  /\ Events(1)
  /\ rows' = rows \ {a}
  /\ UNCHANGED <<limit, cool, slots, bound, pc, req, woken>>

(* A process dies: its requests are cut off, its retry queue is lost and   *)
(* their slots stay until their leases expire.                             *)
Crash(i) ==
  /\ Events(1)
  /\ LET died == {r \in Requests : req[r].inst = i}
     IN /\ slots' = [a \in Accounts |->
                       {IF l.by \in died \cup {i} THEN [l EXCEPT !.by = Leaked] ELSE l :
                          l \in slots[a]}]
        /\ pc' = [r \in Requests |-> IF r \in died THEN "done" ELSE pc[r]]
        /\ req' = [r \in Requests |-> IF r \in died THEN Fresh ELSE req[r]]
        /\ woken' = [r \in Requests |-> woken[r] /\ r \notin died]
  /\ Quiet /\ UNCHANGED bound

-----------------------------------------------------------------------------
Init ==
  /\ limit = FirstLimit
  /\ rows = Accounts
  /\ cool = {}
  /\ slots = [a \in Accounts |-> {}]
  /\ bound = [k \in Keys |-> None]
  /\ pc = [r \in Requests |-> "idle"]
  /\ req = [r \in Requests |-> Fresh]
  /\ woken = [r \in Requests |-> FALSE]
  /\ events = 0

Selecting(r) ==
  \/ Begin(r) \/ Select(r) \/ Claim(r) \/ ClaimNext(r)
  \/ Hydrated(r) \/ Rebound(r) \/ StaleRow(r) \/ Bind(r) \/ SetBinding(r) \/ TakeNotice(r)

Sending(r) == AccountFails(r) \/ TeamLimited(r) \/ Finish(r)

Proceed(r) == Selecting(r) \/ Sending(r) \/ Notified(r) \/ Poll(r)

Timer ==
  \/ \E i \in Instances : RetryReleases(i)
  \/ \E a \in Accounts : LeaseExpires(a) \/ CooldownEnds(a)

Failing(r) == StoreFails(r) \/ GiveUp(r) \/ Cancel(r)

Next ==
  \/ \E r \in Requests : Proceed(r) \/ Failing(r)
  \/ Timer
  \/ \E i \in Instances : Crash(i)
  \/ \E a \in Accounts : ChangeLimit(a) \/ RemoveRow(a)
  \/ \E k \in Keys : BindingExpires(k)
  \/ /\ \A r \in Requests : pc[r] = "done"
     /\ UNCHANGED vars

(* A request that has begun goes on, upstream ends every call, and timers  *)
(* fire.  The deadline of a wait is not counted on.                        *)
Fairness ==
  /\ \A r \in Requests : WF_vars(pc[r] # "idle" /\ Proceed(r))
  /\ WF_vars(Timer)

Spec == Init /\ [][Next]_vars /\ Fairness

-----------------------------------------------------------------------------
(* Properties                                                              *)

TypeOK ==
  /\ limit \in [Accounts -> Limits]
  /\ rows \subseteq Accounts
  /\ cool \subseteq Accounts
  /\ slots \in [Accounts -> SUBSET Slot]
  /\ \A a \in Accounts : IsFiniteSet(slots[a])
  /\ bound \in [Keys -> Accounts \cup {None}]
  /\ pc \in [Requests -> Places]
  /\ req \in [Requests -> Request]
  /\ woken \in [Requests -> BOOLEAN]
  /\ events \in 0 .. MaxEvents

(* However the limit of an account is changed while slots are out, and     *)
(* whatever becomes of their holders, any slots that are out together are  *)
(* no more than the limit one of them was granted under: nothing but a     *)
(* lower limit makes an account hold more than its limit.                  *)
LimitKept ==
  \A a \in Accounts : \A T \in SUBSET slots[a] :
    T # {} => \E l \in T : Cardinality(T) <= l.lim

(* A slot is held by a request exactly while the request uses the account: *)
(* tries its row, sends on it or streams from it.  No way out of a request *)
(* keeps one, and none is returned early or twice.                         *)
Holds(r, a) == req[r].own = a \/ (pc[r] = "hydrate" /\ req[r].at = a)

SlotsAccounted ==
  \A r \in Requests, a \in Accounts :
    IF Holds(r, a) THEN \E l \in slots[a] : HeldBy(r, a) = {l}
                   ELSE HeldBy(r, a) = {}

(* A request never takes up an account that failed it or whose row it      *)
(* found gone, by whichever way it is selected.                            *)
NotSentBack ==
  [][\A r \in Requests :
       req'[r].own \notin {None, req[r].own} => req'[r].own \notin req[r].barred]_vars

(* A request all of whose accounts are listed and none of which has failed *)
(* it never moves its session to another account, however busy the bound   *)
(* one is: requests in parallel do not throw a session back and forth.     *)
SaturationKeepsBinding ==
  [][\A k \in Keys :
       bound[k] # None /\ bound'[k] \notin {None, bound[k]} =>
         \E r \in Requests : /\ KeyOf[r] = k /\ pc'[r] # pc[r]
                            /\ (req[r].cand # Accounts \/ req[r].barred # {})]_vars

(* Every request that has begun ends, though nobody's deadline is counted  *)
(* on: nobody waits while it holds what another waits for, and the poll    *)
(* makes up for announcements that came too early or elsewhere.            *)
InProgress == {r \in Requests : pc[r] \notin {"idle", "done"}}

EveryRequestEnds == InProgress # {} ~> InProgress = {}
=============================================================================
