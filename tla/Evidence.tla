------------------------------- MODULE Evidence -------------------------------
(***************************************************************************)
(* EvidenceCollector as a session uses it: screenshots and diagnostics.    *)
(* The page's callbacks come whenever the page likes, also while a script  *)
(* of a screenshot is on its way or its caller has given up; the session's *)
(* lock keeps reads and screenshots apart; and each session has a          *)
(* collector of its own, while the directory of the artifacts stays.       *)
(***************************************************************************)
EXTENDS Screenshot, Diagnostics

vars == <<screenshotVars, diagnosticsVars>>

Init == ScreenshotInit /\ DiagnosticsInit

(* A step of a screenshot, or of the page that one runs scripts in.        *)
Screenshots ==
    /\ \/ MaskRuns \/ RestoreRuns \/ PageReplaced
       \/ Take \/ Masked \/ Captured \/ Restored \/ Interrupt
    /\ UNCHANGED diagnosticsVars

(* The handlers of the page's events.                                      *)
PageReports ==
    /\ Len(log) < MaxEvents /\ \E channel \in Channels : Report(channel)
    /\ UNCHANGED screenshotVars

(* read, under the lock that take_screenshot holds to its end.             *)
Diagnose ==
    /\ pc = "idle"
    /\ \E channels \in SUBSET Channels \ {{}}, max \in 1..MaxEvents : Read(channels, max)
    /\ UNCHANGED screenshotVars

Renew == NextSession /\ NewCollector

Next == Screenshots \/ PageReports \/ Diagnose \/ Renew

Spec == Init /\ [][Next]_vars
=============================================================================
