--------------------------- MODULE BillingPromise ---------------------------
(***************************************************************************)
(* What client-key billing promises about one request, whatever becomes of *)
(* the process that serves it: its money moves forward only.  It starts,   *)
(* may be held against the key's limit, and is settled at most once; a     *)
(* hold that has been let go is never taken again, and nothing happens to  *)
(* a settled request.                                                      *)
(***************************************************************************)
CONSTANT Events

VARIABLE status

Status == {"start", "held", "open", "settled"}

(* The moves one step may make.  A batch settles many requests at once and *)
(* a cleanup lets many holds go.                                           *)
Moves == {<<"start", "held">>, <<"start", "open">>, <<"held", "open">>,
          <<"held", "settled">>, <<"open", "settled">>}

Init == status = [e \in Events |-> "start"]

Next ==
  \E next \in [Events -> Status] :
    /\ \A e \in Events : next[e] # status[e] => <<status[e], next[e]>> \in Moves
    /\ status' = next

Spec == Init /\ [][Next]_status
=============================================================================
