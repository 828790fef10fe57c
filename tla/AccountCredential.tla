-------------------------- MODULE AccountCredential --------------------------
(***************************************************************************)
(* The OAuth credential of one account: application/account/service.go and *)
(* credential_scheduler.go, the provider's RefreshCredential and the rows  *)
(* account_repository.go writes.  Requests, the scheduler, the start of a  *)
(* process and the administrator all renew the credential.  Within one     *)
(* instance the callers of a single-flight key share one flight; there are *)
(* three keys, and the flights of all keys and instances meet at a lock    *)
(* with a lease.  Other writers read the row and save all of it, the       *)
(* tokens included, without the lock.                                      *)
(*                                                                         *)
(* An access token and a refresh token are numbers in the order they were  *)
(* issued.  The provider accepts one refresh token and may replace it when *)
(* it is used.  A transaction of the database is one step, and so is an    *)
(* exchange with the provider.  The account is enabled throughout.         *)
(***************************************************************************)
EXTENDS Integers, FiniteSets

CONSTANTS
  Flights,         (* single flights: an instance, and a key within it     *)
  Writers,         (* concurrent writers of whole rows                     *)
  UnclassifiedLimit,  (* credentialUnclassifiedAuthLimit                   *)
  MaxToken,        (* bound on the tokens issued                           *)
  MaxFaults,       (* bound on lost replies, failed writes, crashes,       *)
                   (* leases that end while their holder runs, and edits   *)
                   (* by writers outside a flight                          *)
  MaxBusy,         (* bound on the flights under way when one that is not  *)
                   (* the scheduler's begins                               *)
  Orphan,          (* the lock of a process that has crashed               *)
  None             (* no refresh token, lock, row read, tokens             *)

Instances == {f[1] : f \in Flights}

Tokens == 1 .. MaxToken

Strike == 0 .. UnclassifiedLimit

Row == [acc : Tokens, ref : Tokens, perm : BOOLEAN, strikes : Strike,
        auth : {"active", "reauth"}, due : {"none", "later", "now"}]

(* What an exchange uses of the row it was read from.                      *)
Held == [acc : Tokens, ref : Tokens, strikes : Strike]

Pair == [acc : Tokens, ref : Tokens]

ASSUME CredentialAssumption ==
  /\ \A f \in Flights : f = <<f[1], f[2]>> /\ f[2] \in {"any", "scheduled", "manual"}
  /\ UnclassifiedLimit \in Nat \ {0}
  /\ MaxToken \in Nat \ {0} /\ MaxFaults \in Nat /\ MaxBusy \in Nat
  /\ None \notin Flights \cup {Orphan} /\ None \notin Tokens
  /\ None \notin Row \cup Held \cup Pair
  /\ Orphan \notin Flights

VARIABLES
  row,             (* the account's credential in the database             *)
  issued,          (* the last token the provider has issued               *)
  valid,           (* the refresh token it accepts                         *)
  password,        (* the account can log in with its password             *)
  near,            (* access tokens up to this one expire within minutes   *)
  expired,         (* access tokens up to this one have expired            *)
  recent,          (* the last refresh, while it is recent: by whom, what  *)
  lock,            (* who holds credential-refresh:<id>                    *)
  flight,          (* the flight of each key                               *)
  writer,          (* a writer that has read the row                       *)
  faults,          (* faults so far                                        *)
  used,            (* history: refresh tokens the provider has replaced    *)
  lost,            (* history: a replacement never reached the database    *)
  stale,           (* history: a row was saved over a newer one            *)
  lapsed           (* history: a lease ended while its holder ran          *)

providerVars == <<issued, valid, password>>
clockVars == <<near, expired, recent>>
history == <<used, lost, stale, lapsed>>
vars == <<row, issued, valid, password, near, expired, recent, lock, flight, writer,
          faults, used, lost, stale, lapsed>>

Idle == [pc |-> "idle", opt |-> "none", seen |-> 0, snap |-> None, got |-> None,
         answer |-> "none"]

Alive(token) == token > expired

Fault == faults < MaxFaults /\ faults' = faults + 1

-----------------------------------------------------------------------------
(* Callers and their options.                                              *)

Options(key) ==
  CASE key = "any"       -> {"lookup", "retry", "startup"}
    [] key = "scheduled" -> {"scheduled"}
    [] key = "manual"    -> {"manual"}

(* All but a request's first look force a refresh.                         *)
Forced(opt) == opt # "lookup"

(* The scheduler and the start of a process pick accounts by their row and *)
(* read it before they begin; a request holds a row it got earlier.  Only  *)
(* the access token of that row is carried on.                             *)
Picked(opt, token) ==
  CASE opt = "lookup"    -> token <= near
    [] opt = "retry"     -> TRUE
    [] opt = "manual"    -> token = row.acc
    [] opt = "startup"   -> /\ token = row.acc /\ row.auth = "active"
                            /\ row.acc <= near \/ row.due = "now"
    [] opt = "scheduled" -> token = row.acc /\ row.auth = "active" /\ row.due = "now"

(* resolvePermanentRefreshFailure: the refresh token was refused for good. *)
Blocked(opt) == row.perm /\ opt # "manual"

Cooling(f) == recent # None /\ (recent.by = f[1] \/ recent.token = row.acc)

(* Reasons to return the row as it is.                                     *)
NoNeed(f, opt) ==
  \/ opt = "scheduled" /\ row.due = "later"
  \/ opt \in {"retry", "scheduled"} /\ Cooling(f)
  \/ ~Forced(opt) /\ row.acc > near

Busy == {f \in Flights : flight[f].pc # "idle"}

Begin(f, opt, token, pc) ==
  flight' = [flight EXCEPT ![f] =
    IF pc = "lock" THEN [Idle EXCEPT !.pc = pc, !.opt = opt, !.seen = token]
                   ELSE [Idle EXCEPT !.pc = pc]]

(* A caller that starts a flight, and the flight's first read.  A refused  *)
(* refresh token is not tried again except by hand; once the access token  *)
(* has ended too the account leaves the pool.                              *)
Call(f) ==
  /\ flight[f] = Idle
  /\ f[2] = "scheduled" \/ Cardinality(Busy) < MaxBusy
  /\ \E opt \in Options(f[2]), token \in 1 .. row.acc :
       /\ Picked(opt, token)
       /\ IF Blocked(opt)
            THEN ~Alive(row.acc) /\ Begin(f, opt, token, "mark")
            ELSE /\ ~NoNeed(f, opt)
                 /\ Forced(opt) => row.acc = token
                 /\ Begin(f, opt, token, "lock")
  /\ UNCHANGED <<row, providerVars, clockVars, lock, writer, faults, history>>

-----------------------------------------------------------------------------
(* The rest of ensureCredential.                                           *)

(* Slip: the release does not look whose lock it is.                       *)
EndUnlocks(f) ==
  /\ flight' = [flight EXCEPT ![f] = Idle]
  /\ lock' = None

(* The flight returns and, if the lock is still its own, gives it back.    *)
End(f) ==
  /\ flight' = [flight EXCEPT ![f] = Idle]
  /\ lock' = IF lock = f THEN None ELSE lock

(* MarkReauthRequired is called, under the lock if the flight has it.      *)
ToMark(f) == [flight EXCEPT ![f] = [Idle EXCEPT !.pc = "mark"]]

(* Slip: the flight goes on without the lock.                              *)
Ignored == TRUE

Free == lock = None

(* acquireRefreshLock tries every 200 ms; under the lock the row is read   *)
(* once more and everything is decided again.                              *)
Lock(f) ==
  LET opt == flight[f].opt
  IN  /\ flight[f].pc = "lock"
      /\ Free
      /\ IF Blocked(opt) /\ ~Alive(row.acc)
           THEN flight' = ToMark(f) /\ lock' = f
         ELSE IF Blocked(opt) \/ NoNeed(f, opt) \/ row.acc # flight[f].seen
           THEN End(f)
         ELSE /\ flight' = [flight EXCEPT ![f] = [Idle EXCEPT !.pc = "send",
                   !.snap = [acc |-> row.acc, ref |-> row.ref, strikes |-> row.strikes]]]
              /\ lock' = f
      /\ UNCHANGED <<row, providerVars, clockVars, writer, faults, history>>

(* Slip: the end of the context stops the write of the new tokens as well. *)
GiveUpAlways(f) ==
  /\ flight[f].pc \in {"lock", "send", "save"}
  /\ End(f)
  /\ UNCHANGED <<row, providerVars, clockVars, writer, faults, history>>

(* A read fails or the caller's context ends before the exchange; nothing  *)
(* is recorded.                                                            *)
GiveUp(f) ==
  /\ flight[f].pc \in {"lock", "send"}
  /\ End(f)
  /\ UNCHANGED <<row, providerVars, clockVars, writer, faults, history>>

(* The exchange, by refresh token or by password after that has failed,    *)
(* yields a new access token and perhaps a new refresh token.              *)
Exchange(f) ==
  LET old == flight[f].snap.ref
      new == issued + 1
  IN  /\ flight[f].pc = "send"
      /\ old = valid \/ password
      /\ new <= MaxToken
      /\ issued' = new
      /\ \E rotated \in BOOLEAN :
           /\ flight' = [flight EXCEPT ![f] = [Idle EXCEPT !.pc = "save",
                !.got = [acc |-> new, ref |-> IF rotated THEN new ELSE old]]]
           /\ valid' = IF rotated THEN new ELSE valid
           /\ used' = IF rotated THEN used \cup {old} ELSE used
      /\ UNCHANGED <<row, password, clockVars, lock, writer, faults, lost, stale, lapsed>>

(* The provider replaces the token and its reply is lost.                  *)
ReplyLost(f) ==
  LET old == flight[f].snap.ref
      new == issued + 1
  IN  /\ flight[f].pc = "send"
      /\ old = valid
      /\ new <= MaxToken
      /\ Fault
      /\ issued' = new
      /\ valid' = new
      /\ used' = used \cup {old}
      /\ lost' = TRUE
      /\ flight' = [flight EXCEPT ![f].pc = "record", ![f].answer = "other"]
      /\ UNCHANGED <<row, password, clockVars, lock, writer, stale, lapsed>>

(* Transport, configuration and local errors are "other", and so is every  *)
(* failure of the login by password, which hides the refusal before it.    *)
Answers(ref) ==
  IF password THEN {"other"}
  ELSE IF ref = valid THEN {"other", "rejected"}
  ELSE {"other", "rejected", "invalid"}

Refuse(f) ==
  /\ flight[f].pc = "send"
  /\ \E answer \in Answers(flight[f].snap.ref) :
       flight' = [flight EXCEPT ![f].pc = "record", ![f].answer = answer]
  /\ UNCHANGED <<row, providerVars, clockVars, lock, writer, faults, history>>

(* Slip: UpdateTokens leaves the stored refresh token alone.               *)
SaveAccessOnly(f) ==
  LET got == flight[f].got
  IN  /\ flight[f].pc = "save"
      /\ row' = [acc |-> got.acc, ref |-> row.ref, perm |-> FALSE, strikes |-> 0,
                 auth |-> "active", due |-> "later"]
      /\ recent' = [by |-> f[1], token |-> got.acc]
      /\ End(f)
      /\ UNCHANGED <<providerVars, near, expired, writer, faults, history>>

(* UpdateTokens, with a context of its own, and markRefreshSuccess.        *)
Save(f) ==
  LET got == flight[f].got
  IN  /\ flight[f].pc = "save"
      /\ row' = [acc |-> got.acc, ref |-> got.ref, perm |-> FALSE, strikes |-> 0,
                 auth |-> "active", due |-> "later"]
      /\ recent' = [by |-> f[1], token |-> got.acc]
      /\ End(f)
      /\ UNCHANGED <<providerVars, near, expired, writer, faults, history>>

Replacing(f) == flight[f].pc = "save" /\ flight[f].got.ref = flight[f].got.acc

(* The write fails: the error is logged and the new tokens are dropped.    *)
SaveFails(f) ==
  /\ flight[f].pc = "save"
  /\ Fault
  /\ lost' = (lost \/ Replacing(f))
  /\ End(f)
  /\ UNCHANGED <<row, providerVars, clockVars, writer, used, stale, lapsed>>

LesserOf(x, y) == IF x < y THEN x ELSE y

(* Consecutive rejections without a known cause, counted from the row the  *)
(* flight has read.                                                        *)
Strikes(f) ==
  IF flight[f].answer = "rejected"
    THEN LesserOf(flight[f].snap.strikes + 1, UnclassifiedLimit) ELSE 0

(* Slip: any answer of the provider condemns the refresh token.            *)
RefusedOrRejected(f) == flight[f].answer # "other"

Refused(f) == flight[f].answer = "invalid"

Outlived(f) == ~Alive(flight[f].snap.acc)

Conclude(f) ==
  IF Outlived(f) /\ (Refused(f) \/ Strikes(f) >= UnclassifiedLimit)
    THEN flight' = ToMark(f) /\ UNCHANGED lock ELSE End(f)

(* recordCredentialRefreshFailure writes the mark, the count and the time  *)
(* of the next try.                                                        *)
Record(f) ==
  /\ flight[f].pc = "record"
  /\ row' = [row EXCEPT !.perm = Refused(f), !.strikes = Strikes(f),
                        !.due = IF Refused(f) /\ Outlived(f) THEN "now" ELSE "later"]
  /\ Conclude(f)
  /\ UNCHANGED <<providerVars, clockVars, writer, faults, history>>

(* If that write fails the rest is done all the same.                      *)
RecordFails(f) ==
  /\ flight[f].pc = "record"
  /\ Fault
  /\ Conclude(f)
  /\ UNCHANGED <<row, providerVars, clockVars, writer, history>>

(* MarkReauthRequired reads the row ...                                    *)
MarkGet(f) ==
  /\ flight[f].pc = "mark"
  /\ flight' = [flight EXCEPT ![f].pc = "markSave", ![f].snap = row]
  /\ UNCHANGED <<row, providerVars, clockVars, lock, writer, faults, history>>

(* The tokens or their mark have changed since the row was read.           *)
Older(snap) == snap.acc # row.acc \/ snap.ref # row.ref \/ snap.perm # row.perm

(* Slip: the account stays active.                                         *)
ReauthForgotten(value) == value

Reauth(value) == [value EXCEPT !.auth = "reauth"]

(* ... and saves all of it.                                                       *)
MarkSave(f) ==
  /\ flight[f].pc = "markSave"
  /\ row' = Reauth(flight[f].snap)
  /\ stale' = (stale \/ Older(flight[f].snap))
  /\ End(f)
  /\ UNCHANGED <<providerVars, clockVars, writer, faults, used, lost, lapsed>>

MarkFails(f) ==
  /\ flight[f].pc \in {"mark", "markSave"}
  /\ Fault
  /\ End(f)
  /\ UNCHANGED <<row, providerVars, clockVars, writer, history>>

-----------------------------------------------------------------------------
(* Those who write the row without the lock.                               *)

WriterGet(w) ==
  /\ writer[w] = None
  /\ Fault
  /\ writer' = [writer EXCEPT ![w] = row]
  /\ UNCHANGED <<row, providerVars, clockVars, lock, flight, history>>

(* An administrator's edit, or MarkReauthRequired of a request whose access *)
(* token was refused: the whole row, whatever was written in between.       *)
WriterSave(w) ==
  /\ writer[w] # None
  /\ row' \in {writer[w], Reauth(writer[w])}
  /\ stale' = (stale \/ Older(writer[w]))
  /\ writer' = [writer EXCEPT ![w] = None]
  /\ UNCHANGED <<providerVars, clockVars, lock, flight, faults, used, lost, lapsed>>

Exchanging == {f \in Flights : flight[f].pc \in {"send", "save", "record"}}

(* A device login or an import stores the tokens of a new login.           *)
Import ==
  /\ issued < MaxToken
  /\ issued' = issued + 1
  /\ valid' = issued + 1
  /\ row' = [acc |-> issued + 1, ref |-> issued + 1, perm |-> FALSE, strikes |-> 0,
             auth |-> "active", due |-> "none"]
  /\ IF Exchanging = {} THEN UNCHANGED <<stale, faults>> ELSE stale' = TRUE /\ Fault
  /\ UNCHANGED <<password, clockVars, lock, flight, writer, used, lost, lapsed>>

-----------------------------------------------------------------------------
(* Time, the provider and faults.                                          *)

(* The scheduler fills in the time of the first refresh.                   *)
Backfill ==
  /\ row.due = "none" /\ row.auth = "active"
  /\ row' = [row EXCEPT !.due = IF row.acc <= near THEN "now" ELSE "later"]
  /\ UNCHANGED <<providerVars, clockVars, lock, flight, writer, faults, history>>

DueNow(value) == IF value.due = "later" THEN [value EXCEPT !.due = "now"] ELSE value

(* The time of the next try comes, in every copy of the row: for a refused *)
(* refresh token it is the end of the access token.                        *)
BecomeDue ==
  /\ row.due = "later"
  /\ row.perm => ~Alive(row.acc)
  /\ row' = DueNow(row)
  /\ flight' = [f \in Flights |-> IF flight[f].pc # "markSave" THEN flight[f]
                                  ELSE [flight[f] EXCEPT !.snap = DueNow(@)]]
  /\ writer' = [w \in Writers |-> IF writer[w] = None THEN None
                                  ELSE DueNow(writer[w])]
  /\ UNCHANGED <<providerVars, clockVars, lock, faults, history>>

Age ==
  /\ \/ row.acc > near /\ near' = row.acc /\ UNCHANGED expired
     \/ row.acc <= near /\ Alive(row.acc) /\ expired' = row.acc /\ UNCHANGED near
  /\ UNCHANGED <<row, providerVars, recent, lock, flight, writer, faults, history>>

(* forcedRefreshMinInterval has passed.                                    *)
Cool ==
  /\ recent # None
  /\ recent' = None
  /\ UNCHANGED <<row, providerVars, near, expired, lock, flight, writer, faults, history>>

Revoke ==
  /\ valid # None
  /\ valid' = None
  /\ UNCHANGED <<row, issued, password, clockVars, lock, flight, writer, faults, history>>

(* The store does not get the release of the flight that had the lock      *)
(* last, and the error is ignored: the lock stays until its lease ends.    *)
ReleaseLost ==
  /\ lock = None
  /\ Fault
  /\ lock' = Orphan
  /\ UNCHANGED <<row, providerVars, clockVars, flight, writer, history>>

LeaseEnds ==
  /\ lock # None
  /\ lock' = None
  /\ IF lock = Orphan THEN UNCHANGED <<faults, lapsed>> ELSE Fault /\ lapsed' = TRUE
  /\ UNCHANGED <<row, providerVars, clockVars, flight, writer, used, lost, stale>>

(* A process dies and comes back; its lock stays until the lease ends.     *)
Crash(i) ==
  LET own == {f \in Flights : f[1] = i}
  IN  /\ Fault
      /\ lost' = (lost \/ \E f \in own : Replacing(f))
      /\ flight' = [f \in Flights |-> IF f \in own THEN Idle ELSE flight[f]]
      /\ lock' = IF lock \in own THEN Orphan ELSE lock
      /\ recent' = IF recent # None /\ recent.by = i THEN [recent EXCEPT !.by = None] ELSE recent
      /\ UNCHANGED <<row, providerVars, near, expired, writer, used, stale, lapsed>>

-----------------------------------------------------------------------------
Init ==
  /\ row = [acc |-> 1, ref |-> 1, perm |-> FALSE, strikes |-> 0,
            auth |-> "active", due |-> "later"]
  /\ issued = 1 /\ valid = 1 /\ password \in BOOLEAN
  /\ near = 0 /\ expired = 0 /\ recent = None
  /\ lock = None
  /\ flight = [f \in Flights |-> Idle]
  /\ writer = [w \in Writers |-> None]
  /\ faults = 0
  /\ used = {} /\ lost = FALSE /\ stale = FALSE /\ lapsed = FALSE

Proceed(f) ==
  \/ Lock(f) \/ GiveUp(f)
  \/ Exchange(f) \/ ReplyLost(f) \/ Refuse(f)
  \/ Save(f) \/ SaveFails(f) \/ Record(f) \/ RecordFails(f)
  \/ MarkGet(f) \/ MarkSave(f) \/ MarkFails(f)

Environment ==
  \/ Import \/ Backfill \/ BecomeDue \/ Age \/ Cool \/ Revoke \/ ReleaseLost \/ LeaseEnds
  \/ \E i \in Instances : Crash(i)

Next ==
  \/ \E f \in Flights : Call(f) \/ Proceed(f)
  \/ \E w \in Writers : WriterGet(w) \/ WriterSave(w)
  \/ Environment

Spec == Init /\ [][Next]_vars

(* A flight that has begun goes on, since every call it makes has a time   *)
(* limit; the scheduler's timer fires and finds what is due.               *)
Fairness ==
  /\ \A f \in Flights : WF_vars(Proceed(f))
  /\ \A f \in Flights : f[2] = "scheduled" => WF_vars(Call(f))
  /\ WF_vars(BecomeDue)

FairSpec == Spec /\ Fairness

-----------------------------------------------------------------------------
PCs == {"idle", "lock", "send", "save", "record", "mark", "markSave"}

Flight == [pc : PCs, opt : {"none", "lookup", "retry", "startup", "scheduled", "manual"},
           seen : Tokens \cup {0}, snap : Row \cup Held \cup {None}, got : Pair \cup {None},
           answer : {"none", "other", "rejected", "invalid"}]

(* Every variable has its type; a flight that exchanges, records or marks  *)
(* has read the row, and one that saves has tokens to save.                *)
TypeOK ==
  /\ row \in Row
  /\ issued \in Tokens /\ valid \in Tokens \cup {None} /\ password \in BOOLEAN
  /\ near \in Tokens \cup {0} /\ expired \in Tokens \cup {0}
  /\ recent \in [by : Instances \cup {None}, token : Tokens] \cup {None}
  /\ lock \in Flights \cup {None, Orphan}
  /\ flight \in [Flights -> Flight]
  /\ writer \in [Writers -> Row \cup {None}]
  /\ faults \in Nat
  /\ used \subseteq Tokens
  /\ lost \in BOOLEAN /\ stale \in BOOLEAN /\ lapsed \in BOOLEAN
  /\ \A f \in Flights :
       /\ flight[f].pc \in {"send", "record"} => flight[f].snap \in Held
       /\ flight[f].pc = "markSave" => flight[f].snap \in Row
       /\ flight[f].pc = "save" => flight[f].got # None

(* The lock does what the three single-flight keys do not: as long as no   *)
(* lease ends while its holder runs, whoever reads the row to exchange its *)
(* token, exchanges it or writes the outcome holds the lock.               *)
OneRefreshAtATime ==
  ~lapsed =>
    \A f \in Flights : flight[f].pc \in {"send", "save", "record"} => lock = f

(* A flight at work loses its lock by the end of the lease only: one that  *)
(* has outlived its lease, or gives up waiting, does not give back the     *)
(* lock of the next holder, so that an early end of one lease is not       *)
(* passed on to others.                                                    *)
LockStays ==
  [][\A f \in Flights :
       lock = f /\ lock' # f => flight'[f].pc = "idle" \/ LeaseEnds]_vars

(* "the distributed account lock and the comparison of rotated tokens      *)
(* still avoid repeated OAuth": a refresh token the provider has replaced  *)
(* is not presented again, unless the replacement was lost, a whole row    *)
(* was saved over a newer one, or a lease ended too early.                 *)
PresentedOnce ==
  ~lost /\ ~stale /\ ~lapsed =>
    \A f \in Flights : flight[f].pc = "send" => flight[f].snap.ref \notin used

Carries(f) == flight[f].pc = "save" /\ flight[f].got.ref = valid

(* The one refresh token the provider accepts is in the row or in the hand *)
(* of a flight that is about to store it; with the same exceptions.        *)
NoTokenStranded ==
  valid # None /\ ~lost /\ ~stale /\ ~lapsed =>
    valid = row.ref \/ \E f \in Flights : Carries(f)

(* A credential is marked as refused for good only if the provider does    *)
(* not accept it: neither a failure that is not final, nor the outcome of  *)
(* an exchange of an earlier token, marks a good one.                      *)
GoodCredentialKept ==
  row.perm /\ ~stale /\ ~lapsed => row.ref # valid

(* An account that can neither be refreshed nor used leaves the pool: the  *)
(* end of the access token makes it due and the scheduler marks it, though *)
(* writes fail and whole rows are saved over the mark.                     *)
DeadCredentialLeaves ==
  (row.perm /\ ~Alive(row.acc)) ~> (row.auth = "reauth" \/ ~row.perm)

(* recordCredentialRefreshFailure: a true permanent failure "can only be   *)
(* cleared by a successful exchange of the token", or with a new login.    *)
PermanentClearedByExchange ==
  [][row.perm /\ ~row'.perm => Import \/ \E f \in Flights : Save(f)]_vars
=============================================================================
