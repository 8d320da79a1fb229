----------------------------- MODULE MCInspectScan -----------------------------
(* InspectScan on a small instance.                                        *)
EXTENDS InspectScan
=============================================================================
