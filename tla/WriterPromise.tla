--------------------------- MODULE WriterPromise ---------------------------
(***************************************************************************)
(* What the audit writer of one process promises to those who hand it      *)
(* records, whatever its queue is made of: a record is let in only while   *)
(* there is room and the writer is not stopped; what was let in is taken   *)
(* and then decided, and nobody waits for the answer of a record that is   *)
(* decided; the writer is done only when nothing is left.  Records that    *)
(* were let in are lost only with the process.                             *)
(***************************************************************************)
EXTENDS Naturals, FiniteSets

CONSTANTS
  Records,         (* the records of this process                          *)
  Capacity,        (* records that may wait in the queue                   *)
  MaxBatch         (* records the writer may hold beside the queue         *)

VARIABLES
  place,           (* where a record is                                    *)
  listening,       (* records whose caller waits for the writer's answer   *)
  stopped,         (* the writer lets nothing in any more                  *)
  done             (* the writer has returned                              *)

vars == <<place, listening, stopped, done>>

Places == {"outside", "queued", "taken", "decided", "away", "dead"}

At(label) == {r \in Records : place[r] = label}

Put(r, label) == place' = [place EXCEPT ![r] = label]

(* The record is let in and its caller waits for the answer.               *)
Accept(r) ==
  /\ place[r] = "outside"
  /\ ~stopped
  /\ Cardinality(At("queued")) < Capacity
  /\ Put(r, "queued")
  /\ listening' = listening \cup {r}
  /\ UNCHANGED <<stopped, done>>

(* The record will never be let in.                                        *)
Refuse(r) ==
  /\ place[r] = "outside"
  /\ Put(r, "away")
  /\ UNCHANGED <<listening, stopped, done>>

(* A caller waits no longer; the writer keeps its record.                  *)
GiveUp(r) ==
  /\ listening' = listening \ {r}
  /\ UNCHANGED <<place, stopped, done>>

Take(r) ==
  /\ place[r] = "queued"
  /\ Cardinality(At("taken")) < MaxBatch
  /\ Put(r, "taken")
  /\ UNCHANGED <<listening, stopped, done>>

(* Some of the records the writer holds are decided and their callers      *)
(* answered; the writer may return with the last of them.                  *)
Decide(S) ==
  /\ S \subseteq At("taken")
  /\ place' = [r \in Records |-> IF r \in S THEN "decided" ELSE place[r]]
  /\ listening' = listening \ S
  /\ \/ UNCHANGED done
     \/ stopped /\ At("queued") = {} /\ S = At("taken") /\ done' = TRUE
  /\ UNCHANGED stopped

Stop ==
  /\ stopped' = TRUE
  /\ UNCHANGED <<place, listening, done>>

(* The process ends.  Of the records it holds some may have been decided,  *)
(* and a request that has no record yet may end with it.                   *)
Die ==
  /\ \E next \in [Records -> Places] :
       /\ \A r \in Records :
            \/ next[r] = place[r] /\ place[r] \notin {"queued", "taken"}
            \/ next[r] = "dead" /\ place[r] \in {"outside", "queued", "taken"}
            \/ next[r] = "decided" /\ place[r] = "taken"
       /\ place' = next
  /\ listening' = {}
  /\ stopped' = TRUE /\ done' = TRUE

(* The process is started again, with an empty queue.                      *)
Start ==
  /\ done
  /\ stopped' = FALSE /\ done' = FALSE
  /\ UNCHANGED <<place, listening>>

Init ==
  /\ place = [r \in Records |-> "outside"]
  /\ listening = {}
  /\ stopped = FALSE /\ done = FALSE

Work ==
  \/ \E r \in Records : Accept(r) \/ Refuse(r) \/ GiveUp(r) \/ Take(r)
  \/ \E S \in SUBSET Records : Decide(S)
  \/ Stop

Next == Work \/ Die \/ Start

(* The promise, and that of a writer whose process does not end.           *)
Spec == Init /\ [][Next]_vars
LiveSpec == Init /\ [][Work]_vars

-----------------------------------------------------------------------------
(* The writer holds a bounded number of records, a caller waits only for a *)
(* record the writer still holds, and nobody waits for a writer that has   *)
(* returned.                                                               *)
Kept ==
  /\ Cardinality(At("queued")) <= Capacity
  /\ Cardinality(At("taken")) <= MaxBatch
  /\ listening \subseteq At("queued") \cup At("taken")
  /\ done => stopped /\ At("queued") = {} /\ At("taken") = {}
=============================================================================
