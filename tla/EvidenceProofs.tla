---------------------------- MODULE EvidenceProofs ----------------------------
(***************************************************************************)
(* For any limits, channels and number of sessions, calls and events:      *)
(* screenshots put the page back and a session's artifacts are complete    *)
(* and its own; the ring buffer is the end of the log, and what read       *)
(* answers is honest. Each half of the collector is proved by itself; that *)
(* the other one, working on in between, leaves it alone is proved first.  *)
(***************************************************************************)
EXTENDS Evidence, FiniteSetTheorems, FunctionTheorems, TLAPS

(* A session's screenshots are those of Screenshot, whatever its page      *)
(* reports meanwhile.                                                      *)
THEOREM ItsScreenshots == Spec => ScreenshotSpec
<1>1. [Next]_vars => [ScreenshotNext]_screenshotVars
    BY DEF Next, vars, Screenshots, PageReports, Diagnose, Renew, ScreenshotNext
<1> QED
    BY <1>1, PTL DEF Spec, Init, ScreenshotSpec

(* Its diagnostics are those of Diagnostics, whatever becomes of its       *)
(* screenshots.                                                            *)
THEOREM ItsDiagnostics == Spec => DiagnosticsSpec
<1>1. [Next]_vars => [DiagnosticsNext]_diagnosticsVars
    BY DEF Next, vars, Screenshots, PageReports, Diagnose, Renew, DiagnosticsNext
<1> QED
    BY <1>1, PTL DEF Spec, Init, DiagnosticsSpec

-----------------------------------------------------------------------------
(* A call that is under way has found room for its artifact.               *)
RoomLeft == pc # "idle" => artifactCounter < MaxArtifacts

(* What the page shows at each await of a call. That a page was replaced   *)
(* by another one leaves it as a page that nobody has masked.              *)
Own == text = "own" /\ saved = "none"
Undoable == text = "masked" /\ saved = "text"

PageInv ==
    ~cut =>
      /\ pc = "idle" => Own /\ sent = <<>>
      /\ pc = "mask" => \/ Own /\ sent = <<"mask">>
                        \/ (Own \/ Undoable) /\ sent = <<>>
      /\ pc = "capture" => /\ sent = <<>>
                           /\ Own \/ (Undoable /\ masked)
      /\ pc = "restore" => \/ (Own \/ Undoable) /\ sent = <<"restore">>
                           \/ Own /\ sent = <<>>

(* The current session has written no file with a number above its         *)
(* counter, and no file of the directory is of a session to come.          *)
FileInv ==
    /\ \A i \in Ids : /\ png[i][1] <= session /\ json[i][1] <= session
                      /\ i > artifactCounter => png[i][1] # session /\ json[i][1] # session
    /\ \A a \in reported : /\ a[1] <= session
                           /\ a[1] = session => a[3] <= artifactCounter /\ Complete(a)

(* A call that is under way has been counted.                              *)
CallInv == pc # "idle" => calls >= 1

ScreenshotInv == ScreenshotTypeOK /\ RoomLeft /\ CallInv /\ PageInv /\ FileInv

-----------------------------------------------------------------------------
LEMMA ScreenshotInitInv == ScreenshotInit => ScreenshotInv
<1> SUFFICES ASSUME ScreenshotInit PROVE ScreenshotInv
    OBVIOUS
<1>1. ScreenshotTypeOK
    <2>1. sent \in Seq({"mask", "restore"})
        BY DEF ScreenshotInit
    <2>2. NoFile \in Nat \X Nat
        BY DEF NoFile
    <2>3. /\ session \in 1..MaxSessions /\ calls \in 0..MaxCalls
          /\ artifactCounter \in 0..MaxArtifacts
        BY SizesAssumption DEF ScreenshotInit
    <2> QED
        BY <2>1, <2>2, <2>3 DEF ScreenshotInit, ScreenshotTypeOK
<1>2. RoomLeft /\ CallInv /\ PageInv
    BY DEF ScreenshotInit, RoomLeft, CallInv, PageInv, Own
<1>3. FileInv
    BY DEF ScreenshotInit, FileInv, NoFile, Ids
<1> QED
    BY <1>1, <1>2, <1>3 DEF ScreenshotInv

(* A queue of one script.                                                  *)
LEMMA OneScript ==
    ASSUME NEW x \in {"mask", "restore"}
    PROVE  Tail(<<x>>) = <<>> /\ Append(<<>>, x) = <<x>>
<1>1. Tail(<<x>>) = <<>>
    OBVIOUS
<1>2. Append(<<>>, x) = <<x>>
    OBVIOUS
<1> QED
    BY <1>1, <1>2

(* The scripts of a call that is not cut run one at a time.                *)
LEMMA PageSteps ==
    ASSUME ScreenshotInv, MaskRuns \/ RestoreRuns \/ PageReplaced
    PROVE  ScreenshotInv'
<1>1. /\ UNCHANGED <<session, secrets, calls, artifactCounter, files>>
      /\ UNCHANGED call \/ (pc' = "idle" /\ masked' = FALSE /\ image' = FALSE)
    BY DEF MaskRuns, RestoreRuns, PageReplaced, Idle
<1>2. /\ sent' \in Seq({"mask", "restore"}) /\ text' \in {"own", "masked"}
      /\ saved' \in {"none", "empty", "text"} /\ cut' \in BOOLEAN
    <2>1. sent' = <<>> \/ (sent # <<>> /\ sent' = Tail(sent))
        BY DEF MaskRuns, RestoreRuns, PageReplaced, Runs
    <2>2. sent' \in Seq({"mask", "restore"})
        <3>1. sent \in Seq({"mask", "restore"})
            BY DEF ScreenshotInv, ScreenshotTypeOK
        <3>2. sent # <<>> => Tail(sent) \in Seq({"mask", "restore"})
            BY <3>1
        <3>3. <<>> \in Seq({"mask", "restore"})
            OBVIOUS
        <3> QED
            BY <2>1, <3>2, <3>3
    <2>3. /\ text' \in {"own", "masked"}
          /\ saved' \in {"none", "empty", "text"} /\ cut' \in BOOLEAN
        BY DEF ScreenshotInv, ScreenshotTypeOK, MaskRuns, RestoreRuns, PageReplaced
    <2> QED
        BY <2>2, <2>3
<1>3. ScreenshotTypeOK'
    BY <1>1, <1>2 DEF ScreenshotInv, ScreenshotTypeOK, files, call
<1>4. RoomLeft' /\ CallInv'
    BY <1>1 DEF ScreenshotInv, RoomLeft, CallInv, call
<1>5. FileInv'
    BY <1>1 DEF ScreenshotInv, FileInv, files, Complete
<1>6. PageInv'
    <2>1. CASE PageReplaced
        BY <2>1 DEF ScreenshotInv, PageInv, PageReplaced, Own, Idle, call, ScreenshotTypeOK
    <2>2. CASE MaskRuns
        <3>1. /\ cut' = cut /\ pc' = pc /\ masked' = masked
              /\ sent # <<>> /\ Head(sent) = "mask" /\ sent' = Tail(sent)
              /\ text' = "masked" /\ saved' = IF text = "own" THEN "text" ELSE "empty"
            BY <2>2 DEF MaskRuns, Runs, call
        <3>2. ASSUME ~cut PROVE pc = "mask" /\ Own /\ sent = <<"mask">>
            BY <3>1, <3>2 DEF ScreenshotInv, PageInv, ScreenshotTypeOK
        <3>3. ASSUME ~cut PROVE sent' = <<>> /\ Undoable'
            BY <3>1, <3>2, <3>3, OneScript DEF Own, Undoable
        <3> QED
            BY <3>1, <3>2, <3>3 DEF PageInv
    <2>3. CASE RestoreRuns
        <3>1. /\ cut' = cut /\ pc' = pc /\ masked' = masked
              /\ sent # <<>> /\ Head(sent) = "restore" /\ sent' = Tail(sent)
              /\ text' = (IF saved = "text" THEN "own" ELSE text) /\ saved' = "none"
            BY <2>3 DEF RestoreRuns, Runs, call
        <3>2. ASSUME ~cut
              PROVE  pc = "restore" /\ (Own \/ Undoable) /\ sent = <<"restore">>
            BY <3>1, <3>2 DEF ScreenshotInv, PageInv, ScreenshotTypeOK
        <3>3. ASSUME ~cut PROVE sent' = <<>> /\ Own'
            BY <3>1, <3>2, <3>3, OneScript DEF Own, Undoable
        <3> QED
            BY <3>1, <3>2, <3>3 DEF PageInv
    <2> QED
        BY <2>1, <2>2, <2>3
<1> QED
    BY <1>3, <1>4, <1>5, <1>6 DEF ScreenshotInv

(* What a write does to the directory: nothing is written twice.           *)
LEMMA WriteStep ==
    ASSUME ScreenshotInv, pc # "idle", Write, UNCHANGED <<session, calls>>
    PROVE  /\ FileInv'
           /\ artifactCounter' \in 0..MaxArtifacts
           /\ png' \in [Ids -> Nat \X Nat] /\ json' \in [Ids -> Nat \X Nat]
           /\ reported' \subseteq (1..MaxSessions) \X (1..MaxCalls) \X Ids
           /\ \A i \in Ids : /\ png[i][1] = session => png'[i] = png[i]
                             /\ json[i][1] = session => json'[i] = json[i]
<1> DEFINE id == artifactCounter + 1
<1>1. /\ id \in Ids /\ id > artifactCounter /\ artifactCounter \in Nat /\ session \in 1..MaxSessions
      /\ calls \in 1..MaxCalls /\ Stamp \in Nat \X Nat
      /\ Stamp = <<session, calls>>
      /\ png \in [Ids -> Nat \X Nat] /\ json \in [Ids -> Nat \X Nat]
      /\ reported \subseteq (1..MaxSessions) \X (1..MaxCalls) \X Ids
    <2>1. /\ artifactCounter \in 0..MaxArtifacts /\ artifactCounter < MaxArtifacts
          /\ calls \in 0..MaxCalls /\ calls >= 1 /\ session \in 1..MaxSessions
        BY DEF ScreenshotInv, ScreenshotTypeOK, RoomLeft, CallInv
    <2>2. id \in Ids /\ id > artifactCounter /\ artifactCounter \in Nat /\ calls \in 1..MaxCalls
        BY <2>1, SizesAssumption DEF Ids
    <2>3. Stamp = <<session, calls>> /\ Stamp \in Nat \X Nat
        BY <2>1 DEF Stamp
    <2> QED
        BY <2>1, <2>2, <2>3 DEF ScreenshotInv, ScreenshotTypeOK
<1>2. /\ \/ artifactCounter' = artifactCounter /\ UNCHANGED files
         \/ artifactCounter' = id
      /\ png' = png \/ png' = [png EXCEPT ![id] = Stamp]
      /\ json' = json \/ json' = [json EXCEPT ![id] = Stamp]
      /\ \/ reported' = reported
         \/ /\ reported' = reported \union {<<session, calls, id>>}
            /\ png' = [png EXCEPT ![id] = Stamp] /\ json' = [json EXCEPT ![id] = Stamp]
    BY DEF Write, Tell, files
<1>3. /\ artifactCounter' \in 0..MaxArtifacts
      /\ png' \in [Ids -> Nat \X Nat] /\ json' \in [Ids -> Nat \X Nat]
      /\ reported' \subseteq (1..MaxSessions) \X (1..MaxCalls) \X Ids
    <2>1. artifactCounter' \in 0..MaxArtifacts
        <3>1. artifactCounter \in 0..MaxArtifacts
            BY DEF ScreenshotInv, ScreenshotTypeOK
        <3>2. id \in 0..MaxArtifacts
            BY <1>1, SizesAssumption DEF Ids
        <3> QED
            BY <1>2, <3>1, <3>2
    <2>2. png' \in [Ids -> Nat \X Nat] /\ json' \in [Ids -> Nat \X Nat]
        BY <1>1, <1>2
    <2>3. <<session, calls, id>> \in (1..MaxSessions) \X (1..MaxCalls) \X Ids
        BY <1>1
    <2>4. reported' \subseteq (1..MaxSessions) \X (1..MaxCalls) \X Ids
        BY <1>1, <1>2, <2>3
    <2> QED
        BY <2>1, <2>2, <2>4
<1>4. png[id][1] # session /\ json[id][1] # session
    BY <1>1 DEF ScreenshotInv, FileInv
<1>5. \A i \in Ids : /\ png[i][1] = session => png'[i] = png[i]
                     /\ json[i][1] = session => json'[i] = json[i]
    BY <1>1, <1>2, <1>4
<1>6. ASSUME NEW i \in Ids
      PROVE  /\ png'[i][1] <= session' /\ json'[i][1] <= session'
             /\ i > artifactCounter' => png'[i][1] # session' /\ json'[i][1] # session'
    <2>1. /\ png[i][1] <= session /\ json[i][1] <= session
          /\ i > artifactCounter => png[i][1] # session /\ json[i][1] # session
        BY DEF ScreenshotInv, FileInv
    <2>2. i \in Nat
        BY DEF Ids
    <2>3. /\ (png'[i] = png[i] \/ (i = id /\ png'[i] = Stamp /\ png' # png))
          /\ (json'[i] = json[i] \/ (i = id /\ json'[i] = Stamp /\ json' # json))
        BY <1>1, <1>2
    <2>4. i > artifactCounter' => i > artifactCounter /\ png'[i] = png[i] /\ json'[i] = json[i]
        BY <1>1, <1>2, <2>2, <2>3 DEF files
    <2>5. Stamp[1] = session /\ session <= session /\ session' = session
        BY <1>1
    <2> QED
        BY <2>1, <2>3, <2>4, <2>5
<1>7. ASSUME NEW a \in reported'
      PROVE  /\ a[1] <= session'
             /\ a[1] = session' => a[3] <= artifactCounter' /\ Complete(a)'
    <2>1. CASE a \in reported
        <3>1. /\ a[1] <= session /\ a[3] \in Ids
              /\ a[1] = session => a[3] <= artifactCounter /\ Complete(a)
            BY <1>1, <2>1 DEF ScreenshotInv, FileInv
        <3>2. a[1] = session => png'[a[3]] = png[a[3]] /\ json'[a[3]] = json[a[3]]
            BY <1>5, <3>1 DEF Complete
        <3>3. artifactCounter <= artifactCounter' /\ a[3] \in Nat /\ artifactCounter' \in Nat
            BY <1>1, <1>2, <1>3, <3>1 DEF Ids
        <3> QED
            BY <1>1, <3>1, <3>2, <3>3 DEF Complete
    <2>2. CASE a \notin reported
        <3>1. /\ a = <<session, calls, id>> /\ png'[id] = Stamp /\ json'[id] = Stamp
              /\ artifactCounter' = id
            BY <1>1, <1>2, <2>2 DEF files
        <3> QED
            BY <1>1, <3>1 DEF Complete
    <2> QED
        BY <2>1, <2>2
<1>8. FileInv'
    BY <1>6, <1>7 DEF FileInv
<1> QED
    BY <1>3, <1>5, <1>8

(* The first segment of a call.                                            *)
LEMMA TakeStep == ASSUME ScreenshotInv, Take PROVE ScreenshotInv'
<1>1. /\ pc = "idle" /\ calls < MaxCalls /\ calls' = calls + 1
      /\ UNCHANGED <<session, secrets, masked, image, artifactCounter, text, saved, files, cut>>
      /\ \/ UNCHANGED <<pc, sent>>
         \/ artifactCounter < MaxArtifacts /\ pc' = "mask" /\ sent' = Append(sent, "mask")
         \/ artifactCounter < MaxArtifacts /\ pc' = "capture" /\ UNCHANGED sent
    BY DEF Take, Masks, Captures
<1>2. calls' \in 0..MaxCalls /\ calls' >= 1
    BY <1>1, SizesAssumption DEF ScreenshotInv, ScreenshotTypeOK
<1>3. sent' \in Seq({"mask", "restore"})
    <2>1. sent \in Seq({"mask", "restore"})
        BY DEF ScreenshotInv, ScreenshotTypeOK
    <2>2. Append(sent, "mask") \in Seq({"mask", "restore"})
        BY <2>1
    <2> QED
        BY <1>1, <2>1, <2>2
<1>4. ScreenshotTypeOK'
    BY <1>1, <1>2, <1>3 DEF ScreenshotInv, ScreenshotTypeOK, files
<1>5. RoomLeft' /\ CallInv'
    BY <1>1, <1>2 DEF RoomLeft, CallInv
<1>6. FileInv'
    BY <1>1 DEF ScreenshotInv, FileInv, files, Complete
<1>7. PageInv'
    BY <1>1, OneScript DEF ScreenshotInv, PageInv, Own
<1> QED
    BY <1>4, <1>5, <1>6, <1>7 DEF ScreenshotInv

(* The segments after the awaits, which write at their end or not at all.  *)
LEMMA AnswerStep ==
    ASSUME ScreenshotInv, Masked \/ Captured \/ Restored \/ Interrupt
    PROVE  /\ ScreenshotInv'
           /\ \A i \in Ids : /\ png[i][1] = session => png'[i] = png[i]
                             /\ json[i][1] = session => json'[i] = json[i]
<1>1. /\ pc # "idle" /\ UNCHANGED <<session, secrets, calls, text, saved>>
      /\ pc' \in {"idle", "capture", "restore"} /\ masked' \in BOOLEAN /\ image' \in BOOLEAN
      /\ cut' \in BOOLEAN
      /\ (pc' = "idle" /\ Write) \/ UNCHANGED <<artifactCounter, files>>
      /\ \/ sent' = sent \/ sent' = <<>>
         \/ sent' = Append(sent, "restore")
    BY DEF Masked, Captured, Restored, Interrupt, Idle, page, ScreenshotInv, ScreenshotTypeOK
<1>2. sent' \in Seq({"mask", "restore"})
    <2>1. sent \in Seq({"mask", "restore"})
        BY DEF ScreenshotInv, ScreenshotTypeOK
    <2>2. /\ Append(sent, "restore") \in Seq({"mask", "restore"})
          /\ <<>> \in Seq({"mask", "restore"})
        BY <2>1
    <2> QED
        BY <1>1, <2>1, <2>2
<1>3. /\ FileInv' /\ artifactCounter' \in 0..MaxArtifacts
      /\ png' \in [Ids -> Nat \X Nat] /\ json' \in [Ids -> Nat \X Nat]
      /\ reported' \subseteq (1..MaxSessions) \X (1..MaxCalls) \X Ids
      /\ \A i \in Ids : /\ png[i][1] = session => png'[i] = png[i]
                        /\ json[i][1] = session => json'[i] = json[i]
    <2>1. CASE Write
        BY <1>1, <2>1, WriteStep
    <2>2. CASE UNCHANGED <<artifactCounter, files>>
        BY <1>1, <2>2 DEF ScreenshotInv, ScreenshotTypeOK, FileInv, files, Complete
    <2> QED
        BY <1>1, <2>1, <2>2
<1>4. ScreenshotTypeOK'
    BY <1>1, <1>2, <1>3 DEF ScreenshotInv, ScreenshotTypeOK
<1>5. RoomLeft' /\ CallInv'
    BY <1>1 DEF ScreenshotInv, RoomLeft, CallInv
<1>6. PageInv'
    <2>1. CASE Masked
        BY <2>1 DEF Masked, Idle, ScreenshotInv, PageInv, Own, Undoable
    <2>2. CASE Captured
        BY <2>2, OneScript DEF Captured, Idle, ScreenshotInv, PageInv, Own, Undoable
    <2>3. CASE Restored
        BY <2>3 DEF Restored, Idle, page, ScreenshotInv, PageInv, Own, Undoable
    <2>4. CASE Interrupt
        BY <2>4 DEF Interrupt, PageInv
    <2> QED
        BY <2>1, <2>2, <2>3, <2>4
<1> QED
    BY <1>3, <1>4, <1>5, <1>6 DEF ScreenshotInv

LEMMA SessionStep == ASSUME ScreenshotInv, NextSession PROVE ScreenshotInv'
<1>1. /\ pc = "idle" /\ session' = session + 1 /\ session < MaxSessions
      /\ secrets' \in BOOLEAN /\ calls' = 0 /\ artifactCounter' = 0 /\ cut' = FALSE
      /\ sent' = <<>> /\ text' = "own" /\ saved' = "none"
      /\ UNCHANGED <<pc, masked, image, png, json, reported>>
    BY DEF NextSession, call, files
<1>2. session \in 1..MaxSessions /\ session' \in 1..MaxSessions
    BY <1>1, SizesAssumption DEF ScreenshotInv, ScreenshotTypeOK
<1>3. ScreenshotTypeOK'
    <2>1. sent' \in Seq({"mask", "restore"})
        BY <1>1
    <2>2. calls' \in 0..MaxCalls /\ artifactCounter' \in 0..MaxArtifacts
        BY <1>1, SizesAssumption
    <2> QED
        BY <1>1, <1>2, <2>1, <2>2 DEF ScreenshotInv, ScreenshotTypeOK
<1>4. RoomLeft' /\ CallInv' /\ PageInv'
    BY <1>1 DEF RoomLeft, CallInv, PageInv, Own
<1>5. \A i \in Ids : png[i][1] \in Nat /\ json[i][1] \in Nat
    BY DEF ScreenshotInv, ScreenshotTypeOK
<1>6. \A a \in reported : a[1] \in Nat
    BY DEF ScreenshotInv, ScreenshotTypeOK
<1>7. FileInv'
    BY <1>1, <1>2, <1>5, <1>6 DEF ScreenshotInv, FileInv
<1> QED
    BY <1>3, <1>4, <1>7 DEF ScreenshotInv

LEMMA ScreenshotNextInv == ScreenshotInv /\ [ScreenshotNext]_screenshotVars => ScreenshotInv'
<1> SUFFICES ASSUME ScreenshotInv, [ScreenshotNext]_screenshotVars PROVE ScreenshotInv'
    OBVIOUS
<1>1. CASE UNCHANGED screenshotVars
    BY <1>1 DEF screenshotVars, call, page, files, ScreenshotInv, ScreenshotTypeOK, RoomLeft,
                CallInv, PageInv, FileInv, Own, Undoable, Complete
<1> QED
    BY <1>1, PageSteps, TakeStep, AnswerStep, SessionStep DEF ScreenshotNext

(* Every variable has its type, and the counter keeps to the limit.        *)
THEOREM ScreenshotTypes == Spec => []ScreenshotTypeOK
<1>1. ScreenshotInv => ScreenshotTypeOK
    BY DEF ScreenshotInv
<1> QED
    BY <1>1, ScreenshotInitInv, ScreenshotNextInv, ItsScreenshots, PTL DEF ScreenshotSpec

(* The page is as it was between calls, unless a call was cut.             *)
THEOREM Restores == Spec => []PageRestored
<1>1. ScreenshotInv => PageRestored
    BY DEF ScreenshotInv, PageInv, PageRestored, Own
<1> QED
    BY <1>1, ScreenshotInitInv, ScreenshotNextInv, ItsScreenshots, PTL DEF ScreenshotSpec

(* Whoever was told of an artifact finds it, while the session lasts.      *)
THEOREM Keeps == Spec => []ReportedIsComplete
<1>1. ScreenshotInv => ReportedIsComplete
    BY DEF ScreenshotInv, FileInv, ReportedIsComplete
<1> QED
    BY <1>1, ScreenshotInitInv, ScreenshotNextInv, ItsScreenshots, PTL DEF ScreenshotSpec

(* No session writes over what it has written itself.                      *)
THEOREM WritesOnce == Spec => NeverOverwritten
<1>1. ScreenshotInv /\ [ScreenshotNext]_screenshotVars =>
        [\A i \in Ids : /\ png[i][1] = session => png'[i] = png[i]
                        /\ json[i][1] = session => json'[i] = json[i]]_screenshotVars
    <2> SUFFICES ASSUME ScreenshotInv, ScreenshotNext
                 PROVE  \A i \in Ids : /\ png[i][1] = session => png'[i] = png[i]
                                       /\ json[i][1] = session => json'[i] = json[i]
        OBVIOUS
    <2>1. CASE MaskRuns \/ RestoreRuns \/ PageReplaced \/ Take \/ NextSession
        BY <2>1 DEF MaskRuns, RestoreRuns, PageReplaced, Take, NextSession, files
    <2> QED
        BY <2>1, AnswerStep DEF ScreenshotNext
<1> QED
    BY <1>1, ScreenshotInitInv, ScreenshotNextInv, ItsScreenshots, PTL
       DEF ScreenshotSpec, NeverOverwritten

-----------------------------------------------------------------------------
(* BufferIsTail makes the answers right; the time of the last answer keeps *)
(* them right while the log grows.                                         *)
DiagnosticsInv == DiagnosticsTypeOK /\ BufferIsTail /\ answer.when <= Len(log)

(* The selection of Read, for any limit.                                   *)
Matching(channels) == {e \in Held : e.channel \in channels}
Newest(channels, max) ==
    {e \in Matching(channels) :
        Cardinality({f \in Matching(channels) : f.id > e.id}) < max}

-----------------------------------------------------------------------------
(* Pushing to the buffer: it keeps to its capacity and shifts by at most   *)
(* one place, by as many as are discarded.                                 *)
LEMMA PushShape ==
    ASSUME DiagnosticsTypeOK, NEW e \in Entry
    PROVE  LET drop == IF Len(entries) = Capacity THEN 1 ELSE 0 IN
           /\ Push(e) \in Seq(Entry)
           /\ Len(Push(e)) = Len(entries) + 1 - drop
           /\ Len(Push(e)) <= Capacity
           /\ \A i \in 1..Len(Push(e)) :
                Push(e)[i] = IF i = Len(Push(e)) THEN e ELSE entries[i + drop]
<1>1. CASE Len(entries) = Capacity
    <2>1. /\ entries \in Seq(Entry) /\ Len(entries) \in Nat \ {0}
          /\ Tail(entries) \in Seq(Entry) /\ Len(Tail(entries)) = Len(entries) - 1
          /\ \A i \in 1..(Len(entries) - 1) : Tail(entries)[i] = entries[i + 1]
        BY <1>1, CapacityAssumption, SMT DEF DiagnosticsTypeOK
    <2>2. Push(e) = Append(Tail(entries), e)
        BY <1>1 DEF Push
    <2> QED
        BY <1>1, <2>1, <2>2, CapacityAssumption, SMT
<1>2. CASE Len(entries) # Capacity
    <2>1. Push(e) = Append(entries, e)
        BY <1>2 DEF Push
    <2>2. entries \in Seq(Entry) /\ Len(entries) \in Nat /\ Len(entries) < Capacity
        BY <1>2, CapacityAssumption DEF DiagnosticsTypeOK
    <2>3. /\ Append(entries, e) \in Seq(Entry)
          /\ Len(Append(entries, e)) = Len(entries) + 1
          /\ Append(entries, e)[Len(entries) + 1] = e
          /\ \A i \in 1..Len(entries) : Append(entries, e)[i] = entries[i]
        BY <2>2
    <2> QED
        BY <1>2, <2>1, <2>2, <2>3, CapacityAssumption, SMT
<1> QED
    BY <1>1, <1>2

(* What is held at any time is finite, and so is what read selects from.   *)
LEMMA HeldIsFinite ==
    ASSUME DiagnosticsTypeOK
    PROVE  IsFiniteSet(Held)
<1>1. Len(entries) \in Nat /\ DOMAIN entries = 1..Len(entries)
    BY DEF DiagnosticsTypeOK
<1>2. IsFiniteSet(1..Len(entries))
    BY <1>1, FS_Interval
<1>3. entries \in Surjection(1..Len(entries), Held)
    <2>1. entries \in [1..Len(entries) -> Entry]
        BY DEF DiagnosticsTypeOK
    <2>2. \A i \in 1..Len(entries) : entries[i] \in Held
        BY <1>1 DEF Held
    <2>3. entries \in [1..Len(entries) -> Held]
        BY <2>1, <2>2
    <2>4. \A t \in Held : \E i \in 1..Len(entries) : entries[i] = t
        BY <1>1 DEF Held
    <2> QED
        BY <2>3, <2>4 DEF Surjection
<1> QED
    BY <1>2, <1>3, FS_Surjection

-----------------------------------------------------------------------------
LEMMA DiagnosticsInitInv == DiagnosticsInit => DiagnosticsInv
    BY CapacityAssumption, SMT
       DEF DiagnosticsInit, DiagnosticsInv, DiagnosticsTypeOK, BufferIsTail, Entry

LEMMA ReportStep ==
    ASSUME DiagnosticsInv, NEW channel \in Channels, Report(channel)
    PROVE  DiagnosticsInv'
<1> DEFINE new == [id |-> evidenceCounter + 1, channel |-> channel]
           drop == IF Len(entries) = Capacity THEN 1 ELSE 0
<1>1. /\ entries \in Seq(Entry) /\ Len(entries) \in Nat /\ discarded \in Nat
      /\ evidenceCounter \in Nat /\ log \in Seq(Channels) /\ Len(log) \in Nat
    BY DEF DiagnosticsInv, DiagnosticsTypeOK
<1>2. new \in Entry
    BY <1>1 DEF Entry
<1>3. /\ entries' = Push(new) /\ evidenceCounter' = evidenceCounter + 1 /\ answer' = answer
      /\ log' = Append(log, channel) /\ discarded' = discarded + drop
    BY <1>1, SMT DEF Report
<1>4. /\ entries' \in Seq(Entry) /\ Len(entries') <= Capacity
      /\ Len(entries') = Len(entries) + 1 - drop
      /\ \A i \in 1..Len(entries') :
           entries'[i] = IF i = Len(entries') THEN new ELSE entries[i + drop]
    BY <1>2, <1>3, PushShape DEF DiagnosticsInv
<1>5. /\ log' \in Seq(Channels) /\ Len(log') = Len(log) + 1 /\ log'[Len(log) + 1] = channel
      /\ \A i \in 1..Len(log) : log'[i] = log[i]
    BY <1>1, <1>3
<1>6. evidenceCounter' = Len(log') /\ discarded' + Len(entries') = Len(log')
    <2>1. evidenceCounter = Len(log) /\ discarded + Len(entries) = Len(log) /\ drop \in {0, 1}
        BY DEF DiagnosticsInv, BufferIsTail
    <2> HIDE DEF drop, new
    <2> QED
        BY <1>1, <1>3, <1>4, <1>5, <2>1
<1>7. ASSUME NEW i \in DOMAIN entries'
      PROVE  entries'[i] = [id |-> discarded' + i, channel |-> log'[discarded' + i]]
    <2>1. i \in 1..Len(entries') /\ Len(entries') \in Nat
        BY <1>4
    <2>2. CASE i = Len(entries')
        <3>1. /\ entries'[i] = new /\ discarded' + i = evidenceCounter + 1
              /\ evidenceCounter = Len(log)
            BY <1>3, <1>4, <1>6, <2>1, <2>2 DEF DiagnosticsInv, BufferIsTail
        <3> QED
            BY <1>5, <3>1
    <2>3. CASE i # Len(entries')
        <3>1. drop \in {0, 1} /\ i \in 1..(Len(entries) - drop)
            BY <1>1, <1>4, <2>1, <2>3, SMT
        <3>2. /\ i + drop \in 1..Len(entries) /\ entries'[i] = entries[i + drop]
              /\ discarded' + i = discarded + (i + drop)
            <4> HIDE DEF drop
            <4>1. i + drop \in 1..Len(entries)
                BY <1>1, <3>1
            <4>2. entries'[i] = entries[i + drop]
                BY <1>4, <2>1, <2>3, Zenon
            <4>3. discarded' + i = discarded + (i + drop)
                BY <1>1, <1>3, <3>1
            <4> QED
                BY <4>1, <4>2, <4>3
        <3>3. /\ entries[i + drop] = [id |-> discarded + (i + drop),
                                      channel |-> log[discarded + (i + drop)]]
              /\ discarded + (i + drop) \in 1..Len(log)
            <4> HIDE DEF drop
            <4> QED
                BY <1>1, <3>2 DEF DiagnosticsInv, BufferIsTail
        <3> QED
            BY <1>5, <3>2, <3>3
    <2> QED
        BY <2>2, <2>3
<1>8. BufferIsTail'
    BY <1>6, <1>7 DEF BufferIsTail
<1>9. DiagnosticsTypeOK'
    BY <1>1, <1>3, <1>4, <1>5 DEF DiagnosticsInv, DiagnosticsTypeOK
<1>10. answer'.when <= Len(log')
    BY <1>1, <1>3, <1>5 DEF DiagnosticsInv, DiagnosticsTypeOK
<1> QED
    BY <1>8, <1>9, <1>10 DEF DiagnosticsInv

LEMMA ReadStep ==
    ASSUME DiagnosticsInv, NEW channels \in SUBSET Channels, NEW max \in Nat, Read(channels, max)
    PROVE  DiagnosticsInv'
<1>1. /\ answer' = [asked |-> channels, got |-> Newest(channels, max), when |-> Len(log),
                    truncated |-> \/ discarded > 0
                                  \/ Cardinality(Matching(channels))
                                       > Cardinality(Newest(channels, max))]
      /\ UNCHANGED <<entries, discarded, evidenceCounter, log>>
    BY DEF Read, Newest, Matching
<1>2. Newest(channels, max) \subseteq Entry
    BY SMT DEF Newest, Matching, Held, DiagnosticsInv, DiagnosticsTypeOK
<1>3. answer' \in [asked : SUBSET Channels, got : SUBSET Entry, truncated : BOOLEAN, when : Nat]
    BY <1>1, <1>2 DEF DiagnosticsInv, DiagnosticsTypeOK
<1> QED
    <2>1. answer'.when = Len(log')
        BY <1>1
    <2>2. Len(log) \in Nat
        BY DEF DiagnosticsInv, DiagnosticsTypeOK
    <2>3. DiagnosticsTypeOK' /\ BufferIsTail'
        BY <1>1, <1>3 DEF DiagnosticsInv, DiagnosticsTypeOK, BufferIsTail
    <2> QED
        BY <1>1, <2>1, <2>2, <2>3 DEF DiagnosticsInv

LEMMA DiagnosticsNextInv == DiagnosticsInv /\ [DiagnosticsNext]_diagnosticsVars => DiagnosticsInv'
<1> SUFFICES ASSUME DiagnosticsInv, [DiagnosticsNext]_diagnosticsVars PROVE DiagnosticsInv'
    OBVIOUS
<1>1. ASSUME NEW channel \in Channels, Report(channel) PROVE DiagnosticsInv'
    BY <1>1, ReportStep
<1>2. ASSUME NEW channels \in SUBSET Channels \ {{}}, NEW max \in 1..MaxEvents,
             Read(channels, max)
      PROVE  DiagnosticsInv'
    <2>1. max \in Nat
        OBVIOUS
    <2> QED
        BY <1>2, <2>1, ReadStep
<1>3. CASE NewCollector
    BY <1>3, CapacityAssumption, SMT
       DEF NewCollector, DiagnosticsInv, DiagnosticsTypeOK, BufferIsTail, Entry
<1>4. CASE UNCHANGED diagnosticsVars
    BY <1>4 DEF diagnosticsVars, DiagnosticsInv, DiagnosticsTypeOK, BufferIsTail
<1> QED
    BY <1>1, <1>2, <1>3, <1>4 DEF DiagnosticsNext

(* Every variable has its type and the buffer keeps to its capacity.       *)
THEOREM DiagnosticsTypes == Spec => []DiagnosticsTypeOK
<1>1. DiagnosticsInv => DiagnosticsTypeOK
    BY DEF DiagnosticsInv
<1> QED
    BY <1>1, DiagnosticsInitInv, DiagnosticsNextInv, ItsDiagnostics, PTL DEF DiagnosticsSpec

(* The buffer is always the end of everything the page has reported.       *)
THEOREM EndOfLog == Spec => []BufferIsTail
<1>1. DiagnosticsInv => BufferIsTail
    BY DEF DiagnosticsInv
<1> QED
    BY <1>1, DiagnosticsInitInv, DiagnosticsNextInv, ItsDiagnostics, PTL DEF DiagnosticsSpec

-----------------------------------------------------------------------------
(* What read selects, in terms of the log.                                 *)
LEMMA Selection ==
    ASSUME DiagnosticsInv, NEW channels \in SUBSET Channels, NEW max \in Nat
    PROVE  /\ IsFiniteSet(Matching(channels)) /\ IsFiniteSet(Newest(channels, max))
           /\ Newest(channels, max) \subseteq Matching(channels)
           /\ \A e \in Matching(channels) :
                e.id \in (discarded + 1)..Len(log) /\ e.channel = log[e.id]
           /\ \A i \in (discarded + 1)..Len(log) : log[i] \in channels =>
                [id |-> i, channel |-> log[i]] \in Matching(channels)
<1>1. /\ Newest(channels, max) \subseteq Matching(channels)
      /\ Matching(channels) \subseteq Held
    BY DEF Newest, Matching
<1>2. IsFiniteSet(Matching(channels)) /\ IsFiniteSet(Newest(channels, max))
    BY <1>1, HeldIsFinite, FS_Subset DEF DiagnosticsInv
<1>3. /\ Len(entries) \in Nat /\ DOMAIN entries = 1..Len(entries) /\ discarded \in Nat
      /\ Len(log) = discarded + Len(entries)
    BY DEF DiagnosticsInv, DiagnosticsTypeOK, BufferIsTail
<1>4. ASSUME NEW e \in Matching(channels)
      PROVE  e.id \in (discarded + 1)..Len(log) /\ e.channel = log[e.id]
    <2>1. PICK k \in 1..Len(entries) : e = entries[k]
        BY <1>3 DEF Matching, Held
    <2>2. e = [id |-> discarded + k, channel |-> log[discarded + k]]
        BY <1>3, <2>1 DEF DiagnosticsInv, BufferIsTail
    <2> QED
        BY <1>3, <2>2
<1>5. ASSUME NEW i \in (discarded + 1)..Len(log), log[i] \in channels
      PROVE  [id |-> i, channel |-> log[i]] \in Matching(channels)
    <2>1. i - discarded \in 1..Len(entries) /\ discarded + (i - discarded) = i
        BY <1>3
    <2>2. entries[i - discarded] = [id |-> i, channel |-> log[i]]
        BY <1>3, <2>1 DEF DiagnosticsInv, BufferIsTail
    <2>3. [id |-> i, channel |-> log[i]] \in Held
        BY <1>3, <2>1, <2>2 DEF Held
    <2> QED
        BY <1>5, <2>3 DEF Matching
<1> QED
    BY <1>1, <1>2, <1>4, <1>5

(* With an entry, every newer one of those channels is selected.           *)
LEMMA SelectionIsNewest ==
    ASSUME DiagnosticsInv, NEW channels \in SUBSET Channels, NEW max \in Nat,
           NEW e \in Newest(channels, max), NEW f \in Matching(channels), f.id >= e.id
    PROVE  f \in Newest(channels, max)
<1> DEFINE After(x) == {g \in Matching(channels) : g.id > x.id}
<1>1. e \in Matching(channels) /\ e.id \in Nat /\ f.id \in Nat
      /\ \A g \in Matching(channels) : g.id \in Nat
    <2>1. discarded \in Nat /\ Len(log) \in Nat
        BY DEF DiagnosticsInv, DiagnosticsTypeOK
    <2> QED
        BY <2>1, Selection
<1>2. After(f) \subseteq After(e) /\ After(e) \subseteq Matching(channels)
    BY <1>1
<1>3. IsFiniteSet(After(e))
    BY <1>2, Selection, FS_Subset
<1>4. /\ Cardinality(After(e)) \in Nat /\ Cardinality(After(f)) \in Nat
      /\ Cardinality(After(f)) <= Cardinality(After(e))
    BY <1>2, <1>3, FS_Subset, FS_CardinalityType
<1>5. Cardinality(After(e)) < max
    BY DEF Newest
<1>6. Cardinality(After(f)) < max
    BY <1>4, <1>5
<1> QED
    BY <1>6 DEF Newest

Answers == AnswerIsHonest /\ AnswerIsNewest

LEMMA InitAnswers == DiagnosticsInit => Answers
    BY SMT DEF DiagnosticsInit, Answers, AnswerIsHonest, AnswerIsNewest

LEMMA ReportKeepsAnswers ==
    ASSUME DiagnosticsInv, Answers, NEW channel \in Channels, Report(channel)
    PROVE  Answers'
<1>1. /\ answer' = answer /\ answer.when \in Nat /\ answer.when <= Len(log)
      /\ Len(log) \in Nat /\ log' = Append(log, channel)
    BY DEF Report, DiagnosticsInv, DiagnosticsTypeOK
<1>2. \A i \in 1..answer.when : log'[i] = log[i]
    BY <1>1 DEF DiagnosticsInv, DiagnosticsTypeOK
<1>3. AnswerIsHonest'
    BY <1>1, <1>2 DEF Answers, AnswerIsHonest
<1>4. ASSUME NEW e \in answer'.got
      PROVE  /\ e.id \in 1..answer'.when /\ e.channel = log'[e.id]
             /\ \A i \in e.id..answer'.when : log'[i] \in answer'.asked =>
                  [id |-> i, channel |-> log'[i]] \in answer'.got
    <2>1. e \in answer.got /\ e.id \in 1..answer.when /\ e.channel = log[e.id]
        BY <1>1, <1>4 DEF Answers, AnswerIsNewest
    <2>2. \A i \in e.id..answer.when : i \in 1..answer.when
        BY <1>1, <2>1
    <2> QED
        BY <1>1, <1>2, <2>1, <2>2 DEF Answers, AnswerIsNewest
<1> QED
    BY <1>3, <1>4 DEF Answers, AnswerIsNewest

LEMMA ReadAnswers ==
    ASSUME DiagnosticsInv, NEW channels \in SUBSET Channels, NEW max \in Nat, Read(channels, max)
    PROVE  Answers'
<1>1. /\ answer' = [asked |-> channels, got |-> Newest(channels, max), when |-> Len(log),
                    truncated |-> \/ discarded > 0
                                  \/ Cardinality(Matching(channels))
                                       > Cardinality(Newest(channels, max))]
      /\ log' = log
    BY DEF Read, Newest, Matching
<1>2. discarded \in Nat /\ Len(log) \in Nat
    BY DEF DiagnosticsInv, DiagnosticsTypeOK
<1>3. ASSUME ~answer'.truncated
      PROVE  \A i \in 1..Len(log) : log[i] \in channels =>
                [id |-> i, channel |-> log[i]] \in Newest(channels, max)
    <2>1. discarded = 0
          /\ ~(Cardinality(Matching(channels)) > Cardinality(Newest(channels, max)))
        BY <1>1, <1>2, <1>3
    <2>2. /\ Cardinality(Newest(channels, max)) \in Nat
          /\ Cardinality(Matching(channels)) \in Nat
        BY Selection, FS_CardinalityType
    <2>3. Newest(channels, max) \in SUBSET Matching(channels)
          /\ IsFiniteSet(Matching(channels))
        BY Selection
    <2>4. Matching(channels) = Newest(channels, max)
        <3>1. /\ Cardinality(Newest(channels, max)) <= Cardinality(Matching(channels))
              /\ Cardinality(Matching(channels)) = Cardinality(Newest(channels, max)) =>
                   Matching(channels) = Newest(channels, max)
            BY <2>3, FS_Subset
        <3> QED
            BY <2>1, <2>2, <3>1
    <2> QED
        BY <1>2, <2>1, <2>4, Selection
<1>4. AnswerIsHonest'
    BY <1>1, <1>3 DEF AnswerIsHonest
<1>5. ASSUME NEW e \in Newest(channels, max)
      PROVE  /\ e.id \in 1..Len(log) /\ e.channel = log[e.id]
             /\ \A i \in e.id..Len(log) : log[i] \in channels =>
                  [id |-> i, channel |-> log[i]] \in Newest(channels, max)
    <2>1. e.id \in (discarded + 1)..Len(log) /\ e.channel = log[e.id]
        BY Selection
    <2>2. ASSUME NEW i \in e.id..Len(log), log[i] \in channels
          PROVE  [id |-> i, channel |-> log[i]] \in Newest(channels, max)
        <3>1. i \in (discarded + 1)..Len(log) /\ i >= e.id
            BY <1>2, <2>1
        <3>2. [id |-> i, channel |-> log[i]] \in Matching(channels)
            BY <2>2, <3>1, Selection
        <3> QED
            BY <3>1, <3>2, SelectionIsNewest
    <2> QED
        BY <1>2, <2>1, <2>2
<1>6. AnswerIsNewest'
    BY <1>1, <1>5 DEF AnswerIsNewest
<1> QED
    BY <1>4, <1>6 DEF Answers

LEMMA NextAnswers == DiagnosticsInv /\ Answers /\ [DiagnosticsNext]_diagnosticsVars => Answers'
<1> SUFFICES ASSUME DiagnosticsInv, Answers, [DiagnosticsNext]_diagnosticsVars PROVE Answers'
    OBVIOUS
<1>1. ASSUME NEW channel \in Channels, Report(channel) PROVE Answers'
    BY <1>1, ReportKeepsAnswers
<1>2. ASSUME NEW channels \in SUBSET Channels \ {{}}, NEW max \in 1..MaxEvents,
             Read(channels, max)
      PROVE  Answers'
    <2>1. max \in Nat
        OBVIOUS
    <2> QED
        BY <1>2, <2>1, ReadAnswers
<1>3. CASE NewCollector
    BY <1>3, SMT DEF NewCollector, Answers, AnswerIsHonest, AnswerIsNewest
<1>4. CASE UNCHANGED diagnosticsVars
    BY <1>4 DEF diagnosticsVars, Answers, AnswerIsHonest, AnswerIsNewest
<1> QED
    BY <1>1, <1>2, <1>3, <1>4 DEF DiagnosticsNext

(* An answer not marked truncated is all there ever was, for any capacity. *)
THEOREM Honest == Spec => []AnswerIsHonest
<1>1. Answers => AnswerIsHonest
    BY DEF Answers
<1> QED
    BY <1>1, DiagnosticsInitInv, DiagnosticsNextInv, InitAnswers, NextAnswers, ItsDiagnostics, PTL
       DEF DiagnosticsSpec

(* A truncated answer leaves out the oldest entries only.                  *)
THEOREM NewestFirst == Spec => []AnswerIsNewest
<1>1. Answers => AnswerIsNewest
    BY DEF Answers
<1> QED
    BY <1>1, DiagnosticsInitInv, DiagnosticsNextInv, InitAnswers, NextAnswers, ItsDiagnostics, PTL
       DEF DiagnosticsSpec
=============================================================================
