----------------------------- MODULE MCTimeBudget -----------------------------
(* TimeBudget on a small instance.                                         *)
EXTENDS TimeBudget
=============================================================================
