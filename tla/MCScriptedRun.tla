---------------------------- MODULE MCScriptedRun ----------------------------
(* ScriptedRun on a small instance.                                        *)
EXTENDS ScriptedRun
=============================================================================
