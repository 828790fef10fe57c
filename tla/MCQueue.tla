------------------------------ MODULE MCQueue ------------------------------
(* Constants for the run of AuditQueue: more callers than the queue and    *)
(* the writer can hold between them, so that several sleep at once.        *)
EXTENDS AuditQueue

CONSTANTS c1, c2, c3
=============================================================================
