--------------------------- MODULE MCBrowserSession ---------------------------
(* BrowserSession on small instances.                                      *)
EXTENDS BrowserSession, TLC
CallerSymmetry == Permutations(Callers)
=============================================================================
