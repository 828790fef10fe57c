------------------------------ MODULE MCLeases ------------------------------
(* Two requests of one session, one of which may come in at another        *)
(* process and may be obliged to an account; one account has one slot, the *)
(* other the default of two.                                               *)
EXTENDS AccountLeases, TLC

CONSTANTS r1, r2, i1, i2, a1, a2, k1

MCEntries == (r1 :> {i1}) @@ (r2 :> {i1, i2})
MCKeyOf == (r1 :> k1) @@ (r2 :> k1)
MCPins == (r1 :> {None}) @@ (r2 :> {None, a1})
MCFirstLimit == (a1 :> 1) @@ (a2 :> 0)
=============================================================================
