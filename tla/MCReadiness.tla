---------------------------- MODULE MCReadiness ----------------------------
(* Policies that differ in mode, threshold, grace and watermark.           *)
EXTENDS LedgerReadiness

MCConfigs ==
  [mode : {"observe", "enforce"}, threshold : {1, 2}, grace : {1, 2},
   watermark : {50, 90}]
=============================================================================
