---------------------------- MODULE MCCredential ----------------------------
(* Constants for the runs of AccountCredential.                            *)
EXTENDS AccountCredential

CONSTANTS i1, i2, w1

(* One flight of every key, two of them in one process.                    *)
MCFlights == {<<i1, "any">>, <<i1, "manual">>, <<i2, "scheduled">>}

(* Requests and starts only: nobody renews a credential by hand.           *)
RequestFlights == {<<i1, "any">>}
=============================================================================
