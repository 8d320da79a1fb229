----------------------------- MODULE Diagnostics -----------------------------
(***************************************************************************)
(* EvidenceCollector's diagnostics: the page's callbacks append to a ring  *)
(* buffer, and read returns the newest entries of some channels with a     *)
(* flag that says whether that is all there was. log is what the pages of  *)
(* the session have reported so far, which the code does not keep.         *)
(***************************************************************************)
EXTENDS Integers, Sequences, FiniteSets

CONSTANTS
    Channels,       \* "console", "network"
    Capacity,       \* config.diagnostic_capacity
    MaxEvents       \* diagnostics the page reports (bound)

ASSUME CapacityAssumption == Capacity \in Nat \ {0}

VARIABLES
    entries,            \* _entries: a deque of [id, channel]
    discarded,          \* _discarded_entries
    evidenceCounter,    \* _evidence_counter
    log,                \* history: channel of every event, in order
    answer              \* the last result of read, with what was asked, and when

diagnosticsVars == <<entries, discarded, evidenceCounter, log, answer>>

DiagnosticsInit ==
    /\ entries = <<>> /\ discarded = 0 /\ evidenceCounter = 0 /\ log = <<>>
    /\ answer = [asked |-> {}, got |-> {}, truncated |-> FALSE, when |-> 0]

(* Mutant of Push: a deque without a maxlen.                               *)
PushUnbounded(e) == Append(entries, e)

(* append to a deque with a maxlen.                                        *)
Push(e) == Append(IF Len(entries) = Capacity THEN Tail(entries) ELSE entries, e)

(* Mutant of Report: a drop is noticed one entry too late.                 *)
ReportLate(channel) ==
    /\ discarded' = IF Len(entries) > Capacity THEN discarded + 1 ELSE discarded
    /\ evidenceCounter' = evidenceCounter + 1
    /\ entries' = Push([id |-> evidenceCounter + 1, channel |-> channel])
    /\ log' = Append(log, channel) /\ UNCHANGED answer

(* _on_console, _on_request_failed and _on_response, for an event that     *)
(* counts; others change nothing.                                          *)
Report(channel) ==
    /\ discarded' = IF Len(entries) = Capacity THEN discarded + 1 ELSE discarded
    /\ evidenceCounter' = evidenceCounter + 1
    /\ entries' = Push([id |-> evidenceCounter + 1, channel |-> channel])
    /\ log' = Append(log, channel) /\ UNCHANGED answer

Held == {entries[i] : i \in DOMAIN entries}

(* Mutants of Read: the oldest entries are taken; the flag tells of what   *)
(* max_entries leaves out only.                                            *)
ReadOldest(channels, max) ==
    LET matching == {e \in Held : e.channel \in channels}
        selected == {e \in matching : Cardinality({f \in matching : f.id < e.id}) < max}
    IN  /\ answer' = [asked |-> channels, got |-> selected, when |-> Len(log),
                      truncated |-> discarded > 0 \/ Cardinality(matching) > Cardinality(selected)]
        /\ UNCHANGED <<entries, discarded, evidenceCounter, log>>

ReadForgetful(channels, max) ==
    LET matching == {e \in Held : e.channel \in channels}
        selected == {e \in matching : Cardinality({f \in matching : f.id > e.id}) < max}
    IN  /\ answer' = [asked |-> channels, got |-> selected, when |-> Len(log),
                      truncated |-> Cardinality(matching) > Cardinality(selected)]
        /\ UNCHANGED <<entries, discarded, evidenceCounter, log>>

(* The newest `max` of the matching entries. A request for no channel, for *)
(* one twice or for fewer than one entry is refused and changes nothing.   *)
Read(channels, max) ==
    LET matching == {e \in Held : e.channel \in channels}
        selected == {e \in matching : Cardinality({f \in matching : f.id > e.id}) < max}
    IN  /\ answer' = [asked |-> channels, got |-> selected, when |-> Len(log),
                      truncated |-> discarded > 0 \/ Cardinality(matching) > Cardinality(selected)]
        /\ UNCHANGED <<entries, discarded, evidenceCounter, log>>

(* A session's collector starts empty, whatever one before it has held.    *)
NewCollector ==
    /\ entries' = <<>> /\ discarded' = 0 /\ evidenceCounter' = 0 /\ log' = <<>>
    /\ answer' = [asked |-> {}, got |-> {}, truncated |-> FALSE, when |-> 0]

DiagnosticsNext ==
    \/ NewCollector
    \/ Len(log) < MaxEvents /\ \E channel \in Channels : Report(channel)
    \/ \E channels \in SUBSET Channels \ {{}}, max \in 1..MaxEvents : Read(channels, max)

DiagnosticsSpec == DiagnosticsInit /\ [][DiagnosticsNext]_diagnosticsVars

-----------------------------------------------------------------------------
Entry == [id : Nat, channel : Channels]

DiagnosticsTypeOK ==
    /\ entries \in Seq(Entry) /\ Len(entries) <= Capacity
    /\ discarded \in Nat /\ evidenceCounter \in Nat
    /\ log \in Seq(Channels)
    /\ answer \in [asked : SUBSET Channels, got : SUBSET Entry, truncated : BOOLEAN, when : Nat]

(* The buffer is what the log ends with, numbered by its place in the log, *)
(* and the count of discarded entries is what is missing at its front.     *)
BufferIsTail ==
    /\ evidenceCounter = Len(log) /\ discarded + Len(entries) = Len(log)
    /\ \A i \in DOMAIN entries :
         entries[i] = [id |-> discarded + i, channel |-> log[discarded + i]]

(* An answer that is not marked truncated has everything the page had      *)
(* reported on those channels, also what the buffer cannot hold any more.  *)
AnswerIsHonest ==
    ~answer.truncated =>
        \A i \in 1..answer.when : log[i] \in answer.asked =>
            [id |-> i, channel |-> log[i]] \in answer.got

(* A truncated answer has the newest entries: none is missing between the  *)
(* oldest of them and the time of the call. And a number in an answer      *)
(* always stands for the event the page reported at that place.            *)
AnswerIsNewest ==
    \A e \in answer.got :
        /\ e.id \in 1..answer.when /\ e.channel = log[e.id]
        /\ \A i \in e.id..answer.when : log[i] \in answer.asked =>
             [id |-> i, channel |-> log[i]] \in answer.got
=============================================================================
