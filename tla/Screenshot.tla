------------------------------ MODULE Screenshot ------------------------------
(***************************************************************************)
(* EvidenceCollector.screenshot: secrets are masked in the page, the page  *)
(* is captured and restored, and the artifact's two files are written.     *)
(* The session's lock serialises the calls of one session; sessions that   *)
(* follow one another share the configured directory. A script, once sent, *)
(* runs in the page whether or not its caller still waits for it.          *)
(***************************************************************************)
EXTENDS Naturals, Sequences

CONSTANTS
    MaxArtifacts,   \* config.max_artifacts
    MaxCalls,       \* screenshots asked of one session (bound)
    MaxSessions,    \* sessions that use the directory (bound)
    Interrupts      \* are calls cut by a timeout or a cancellation?

ASSUME InterruptsAssumption == Interrupts \in BOOLEAN
ASSUME SizesAssumption ==
    MaxArtifacts \in Nat \ {0} /\ MaxCalls \in Nat \ {0} /\ MaxSessions \in Nat \ {0}

Ids == 1..MaxArtifacts

VARIABLES
    session,    \* number of the current session
    secrets,    \* it has secret values
    calls,      \* screenshots it was asked for
    pc,         \* the await the call is in: "idle", "mask", "capture", "restore"
    masked,     \* the local variable `masked`
    image,      \* the local variable `image` is bound
    artifactCounter,    \* _artifact_counter
    sent,       \* scripts sent to the page and not run yet, in order
    text,       \* the page shows its own text, or the masked one
    saved,      \* __qaAgentRedactions: "none", "empty", or the page's own "text"
    png, json,  \* the files of each id: <<session, call>> that wrote it, or NoFile
    reported,   \* <<session, call, id>> of the artifacts returned to callers
    cut         \* history: a call was left with a script on its way to this page

call == <<pc, masked, image>>
page == <<sent, text, saved>>
files == <<png, json, reported>>
screenshotVars == <<session, secrets, calls, call, artifactCounter, page, files, cut>>

NoFile == <<0, 0>>
Stamp == <<session, calls>>

ScreenshotInit ==
    /\ session = 1 /\ secrets \in BOOLEAN /\ calls = 0 /\ artifactCounter = 0
    /\ pc = "idle" /\ masked = FALSE /\ image = FALSE
    /\ sent = <<>> /\ text = "own" /\ saved = "none"
    /\ png = [i \in Ids |-> NoFile] /\ json = [i \in Ids |-> NoFile] /\ reported = {}
    /\ cut = FALSE

Idle == pc' = "idle" /\ masked' = FALSE /\ image' = FALSE

-----------------------------------------------------------------------------
(* The page.                                                               *)

Runs(s) == sent # <<>> /\ Head(sent) = s /\ sent' = Tail(sent)

(* _MASK_SCRIPT finds something to replace only in the page's own text,    *)
(* and overwrites what an earlier one saved.                               *)
MaskRuns ==
    /\ Runs("mask")
    /\ text' = "masked" /\ saved' = IF text = "own" THEN "text" ELSE "empty"
    /\ UNCHANGED <<session, secrets, calls, call, artifactCounter, files, cut>>

(* _RESTORE_SCRIPT puts back what was saved.                               *)
RestoreRuns ==
    /\ Runs("restore")
    /\ text' = IF saved = "text" THEN "own" ELSE text
    /\ saved' = "none"
    /\ UNCHANGED <<session, secrets, calls, call, artifactCounter, files, cut>>

(* The page goes elsewhere by itself. Scripts not run yet are lost, and    *)
(* the evaluate that waits for one raises.                                 *)
PageReplaced ==
    /\ sent' = <<>> /\ text' = "own" /\ saved' = "none" /\ cut' = FALSE
    /\ IF pc \in {"mask", "restore"} /\ sent # <<>> THEN Idle ELSE UNCHANGED call
    /\ UNCHANGED <<session, secrets, calls, artifactCounter, files>>

-----------------------------------------------------------------------------
(* The call.                                                               *)

Masks == secrets /\ pc' = "mask" /\ sent' = Append(sent, "mask")
Captures == ~secrets /\ pc' = "capture" /\ UNCHANGED sent

(* Mutant of Take: the limit is not looked at.                             *)
TakeUnlimited ==
    /\ pc = "idle" /\ calls < MaxCalls /\ calls' = calls + 1
    /\ Masks \/ Captures
    /\ UNCHANGED <<session, secrets, masked, image, artifactCounter, text, saved, files, cut>>

(* A call is refused at the limit, else it masks, if there are secrets.    *)
Take ==
    /\ pc = "idle" /\ calls < MaxCalls /\ calls' = calls + 1
    /\ \/ artifactCounter >= MaxArtifacts /\ UNCHANGED <<pc, sent>>
       \/ artifactCounter < MaxArtifacts /\ (Masks \/ Captures)
    /\ UNCHANGED <<session, secrets, masked, image, artifactCounter, text, saved, files, cut>>

(* The mask has run: `masked` is set after the await. Or it raises, in a   *)
(* document that has no body.                                              *)
Masked ==
    /\ pc = "mask"
    /\ \/ sent = <<>> /\ pc' = "capture" /\ masked' = TRUE /\ UNCHANGED <<image, sent>>
       \/ sent = <<"mask">> /\ sent' = <<>> /\ Idle
    /\ UNCHANGED <<session, secrets, calls, artifactCounter, text, saved, files, cut>>

Tell(id) == reported' = reported \union {<<session, calls, id>>}

(* Mutant of Write: the counter follows the number of complete artifacts.  *)
WriteThenCount ==
    LET id == artifactCounter + 1 IN
    \/ UNCHANGED <<artifactCounter, files>>
    \/ png' = [png EXCEPT ![id] = Stamp] /\ UNCHANGED <<artifactCounter, json, reported>>
    \/ /\ artifactCounter' = id /\ Tell(id)
       /\ png' = [png EXCEPT ![id] = Stamp] /\ json' = [json EXCEPT ![id] = Stamp]

(* Mutant of Write: a failure to write the image is swallowed.             *)
WriteMetadataOnly ==
    LET id == artifactCounter + 1 IN
    /\ artifactCounter' = id /\ Tell(id) /\ UNCHANGED png
    /\ json' = [json EXCEPT ![id] = Stamp]

(* The image may be too big. The counter is used up first; then the image  *)
(* and the metadata are written, either of which may raise.                *)
Write ==
    LET id == artifactCounter + 1 IN
    \/ UNCHANGED <<artifactCounter, files>>
    \/ /\ artifactCounter' = id
       /\ \/ UNCHANGED files
          \/ png' = [png EXCEPT ![id] = Stamp] /\ UNCHANGED <<json, reported>>
          \/ /\ png' = [png EXCEPT ![id] = Stamp] /\ json' = [json EXCEPT ![id] = Stamp]
             /\ Tell(id)

(* Mutant of Captured: the page is restored only when there is an image.   *)
CapturedOrLeft ==
    /\ pc = "capture"
    /\ \/ /\ masked /\ image' = TRUE /\ pc' = "restore" /\ sent' = Append(sent, "restore")
          /\ UNCHANGED <<masked, artifactCounter, files>>
       \/ ~masked /\ Write /\ Idle /\ UNCHANGED sent
       \/ Idle /\ UNCHANGED <<sent, artifactCounter, files>>
    /\ UNCHANGED <<session, secrets, calls, text, saved, cut>>

(* The capture succeeds or raises: a timeout of Playwright's or of the     *)
(* session, an error, a cancellation. "finally" restores what was masked.  *)
Captured ==
    /\ pc = "capture"
    /\ \/ /\ masked /\ image' \in BOOLEAN
          /\ pc' = "restore" /\ sent' = Append(sent, "restore")
          /\ UNCHANGED <<masked, artifactCounter, files>>
       \/ ~masked /\ Idle /\ UNCHANGED sent /\ (Write \/ UNCHANGED <<artifactCounter, files>>)
    /\ UNCHANGED <<session, secrets, calls, text, saved, cut>>

(* The page is restored: the image is saved, or the exception goes on.     *)
Restored ==
    /\ pc = "restore" /\ sent = <<>> /\ Idle
    /\ \/ image /\ Write
       \/ ~image /\ UNCHANGED <<artifactCounter, files>>
    /\ UNCHANGED <<session, secrets, calls, page, cut>>

(* A timeout or a cancellation while a script, or its answer, is on its    *)
(* way: the call is over, without the finally's restore in the first       *)
(* await, and without the image in the second.                             *)
Interrupt ==
    /\ Interrupts /\ pc \in {"mask", "restore"} /\ Idle /\ cut' = TRUE
    /\ UNCHANGED <<session, secrets, calls, artifactCounter, page, files>>

(* The next session has a page, a counter and secrets of its own.          *)
NextSession ==
    /\ pc = "idle" /\ session < MaxSessions /\ session' = session + 1
    /\ secrets' \in BOOLEAN /\ calls' = 0 /\ artifactCounter' = 0 /\ cut' = FALSE
    /\ sent' = <<>> /\ text' = "own" /\ saved' = "none"
    /\ UNCHANGED <<call, files>>

ScreenshotNext ==
    \/ MaskRuns \/ RestoreRuns \/ PageReplaced
    \/ Take \/ Masked \/ Captured \/ Restored \/ Interrupt
    \/ NextSession

ScreenshotSpec == ScreenshotInit /\ [][ScreenshotNext]_screenshotVars

-----------------------------------------------------------------------------
ScreenshotTypeOK ==
    /\ session \in 1..MaxSessions /\ secrets \in BOOLEAN /\ calls \in 0..MaxCalls
    /\ artifactCounter \in 0..MaxArtifacts
    /\ pc \in {"idle", "mask", "capture", "restore"} /\ masked \in BOOLEAN /\ image \in BOOLEAN
    /\ sent \in Seq({"mask", "restore"}) /\ text \in {"own", "masked"}
    /\ saved \in {"none", "empty", "text"}
    /\ png \in [Ids -> Nat \X Nat] /\ json \in [Ids -> Nat \X Nat]
    /\ reported \subseteq (1..MaxSessions) \X (1..MaxCalls) \X Ids
    /\ cut \in BOOLEAN

(* Between calls the page shows its own text and nothing is left behind in *)
(* it, whether the capture succeeded or raised, unless a call was cut in   *)
(* one of the two awaits around the capture.                               *)
PageRestored == pc = "idle" /\ ~cut => text = "own" /\ saved = "none" /\ sent = <<>>

Complete(a) == png[a[3]] = <<a[1], a[2]>> /\ json[a[3]] = <<a[1], a[2]>>

(* While its session lasts, an artifact a caller was told of has both its  *)
(* files, as that very call wrote them, whatever later calls do or fail to.*)
ReportedIsComplete == \A a \in reported : a[1] = session => Complete(a)

(* A session never writes over a file it has written, also when the other  *)
(* file of the artifact could not be written and nobody was told of it.    *)
NeverOverwritten ==
    [][\A i \in Ids : /\ png[i][1] = session => png'[i] = png[i]
                      /\ json[i][1] = session => json'[i] = json[i]]_screenshotVars
=============================================================================
