--------------------------- MODULE SandboxRepair ---------------------------
(***************************************************************************)
(* One approved repair run: SandboxRepairExecutor.execute and recover_run, *)
(* called by resume_approved_repair from one or more processes that share  *)
(* the run directory and the incident's checkpoint.                        *)
(*                                                                         *)
(*   - the run directory is created with exist_ok=False and never removed; *)
(*   - repair-invocation.json is written before the handler runs;          *)
(*   - repair-result.json.tmp is written and renamed to                    *)
(*     repair-result.json before the incident is told anything;            *)
(*   - a process may stop between any two of these steps, a write may fail *)
(*     and leave nothing or a torn file, and the source database may be    *)
(*     changed by somebody else.                                           *)
(*                                                                         *)
(* A worker is one such process.  Hashes are represented by what they are  *)
(* hashes of: the version of the source database, the contents of the      *)
(* sandbox copy.  The several reads of recover_run are one step.           *)
(***************************************************************************)
EXTENDS Naturals

CONSTANTS
    Worker,             \* processes that resume this run
    MaxSourceChanges,   \* bound: changes of the source database
    MaxFaults,          \* bound: failed file operations
    MaxCrashes          \* bound: processes stopped in the middle

ASSUME BoundsAssumption ==
    /\ MaxSourceChanges \in Nat
    /\ MaxFaults \in Nat
    /\ MaxCrashes \in Nat

VARIABLES
    dir,        \* does the run directory exist?
    db,         \* contents of its datasherlock.duckdb
    marker,     \* its repair-invocation.json
    tmp,        \* its repair-result.json.tmp
    result,     \* its repair-result.json
    source,     \* version of the source database
    incident,   \* durable incident status
    recorded,   \* durable repair_result
    pc,         \* next step of each worker
    srcBefore,  \* source_before of each worker
    artifact,   \* the terminal run each worker holds
    handlerRuns, faults, crashes    \* observed, read by no worker

files == <<dir, db, marker, tmp, result>>
checkpoint == <<incident, recorded>>
observed == <<handlerRuns, faults, crashes>>
vars == <<files, source, checkpoint, pc, srcBefore, artifact, observed>>

DbContents == {"none", "torn", "copied", "repaired"}
MarkerStates == {"none", "torn", "written"}
IncidentStatuses == {"SANDBOX_REPAIR", "POST_VALIDATION", "TOOL_FAILED"}

(* A terminal SandboxRun, or a file that does not hold one.                 *)
Artifacts ==
    [status : {"NONE", "TORN", "SUCCEEDED", "FAILED"},
     count  : {0, 1},           \* handler_invocation_count
     before : Nat,              \* source_hash_before
     after  : Nat,              \* source_hash_after
     db     : DbContents]       \* sandbox_hash_after

NoFile   == [status |-> "NONE", count |-> 0, before |-> 0, after |-> 0, db |-> "none"]
TornFile == [NoFile EXCEPT !.status = "TORN"]

Terminal(a) == a.status \in {"SUCCEEDED", "FAILED"}

(* Steps that come after the directory was created by the worker itself.    *)
OwnerSteps == {"copy", "marker", "handler", "commit", "verify"}
Steps == OwnerSteps \cup {"idle", "recover", "execute", "mkdir", "finish", "tmp",
                          "replace", "record"}

TypeOK ==
    /\ dir \in BOOLEAN
    /\ db \in DbContents
    /\ marker \in MarkerStates
    /\ tmp \in Artifacts
    /\ result \in Artifacts
    /\ source \in Nat
    /\ incident \in IncidentStatuses
    /\ recorded \in Artifacts
    /\ pc \in [Worker -> Steps]
    /\ srcBefore \in [Worker -> Nat]
    /\ artifact \in [Worker -> Artifacts]
    /\ handlerRuns \in Nat
    /\ faults \in Nat
    /\ crashes \in Nat

Init ==
    /\ dir = FALSE
    /\ db = "none"
    /\ marker = "none"
    /\ tmp = NoFile
    /\ result = NoFile
    /\ source = 0
    /\ incident = "SANDBOX_REPAIR"
    /\ recorded = NoFile
    /\ pc = [w \in Worker |-> "idle"]
    /\ srcBefore = [w \in Worker |-> 0]
    /\ artifact = [w \in Worker |-> NoFile]
    /\ handlerRuns = 0
    /\ faults = 0
    /\ crashes = 0

-----------------------------------------------------------------------------
GoTo(w, step) == pc' = [pc EXCEPT ![w] = step]

(* An exception leaves execute or resume_approved_repair: the process holds *)
(* nothing any more and may call again.                                    *)
Abandon(w) ==
    /\ GoTo(w, "idle")
    /\ srcBefore' = [srcBefore EXCEPT ![w] = 0]
    /\ artifact' = [artifact EXCEPT ![w] = NoFile]

Proceed(w, from, to) ==
    /\ pc[w] = from
    /\ GoTo(w, to)
    /\ UNCHANGED <<srcBefore, artifact>>

Finish(w, status, count, after, dbAfter) ==
    /\ artifact' = [artifact EXCEPT ![w] = [status |-> status,
                                            count  |-> count,
                                            before |-> srcBefore[w],
                                            after  |-> after,
                                            db     |-> dbAfter]]
    /\ GoTo(w, "finish")
    /\ UNCHANGED srcBefore

(* A faulty variant of a definition stands before it: a bug the checks must *)
(* notice.                                                                 *)
NormalizeFailureCountingAgain(w, count) == Finish(w, "FAILED", count + 1, source, db')

(* The except branch of execute: whatever was raised becomes a FAILED run.  *)
NormalizeFailure(w, count) == Finish(w, "FAILED", count, source, db')

Fault ==
    /\ faults < MaxFaults
    /\ faults' = faults + 1
    /\ UNCHANGED <<handlerRuns, crashes>>

-----------------------------------------------------------------------------
(* recover_run.                                                            *)

MarkerBinds(a) ==
    \/ (marker = "none" /\ a.status = "FAILED" /\ a.count = 0)
    \/ (marker = "written" /\ a.count = 1)

RecoverableByCopyHash ==
    /\ tmp.status = "NONE"
    /\ Terminal(result)
    /\ MarkerBinds(result)
    /\ result.before = source
    /\ result.after = source
    /\ result.status = "SUCCEEDED" => db = "copied"

Recoverable ==
    /\ tmp.status = "NONE"
    /\ Terminal(result)
    /\ MarkerBinds(result)
    /\ result.before = source
    /\ result.after = source
    /\ result.status = "SUCCEEDED" => db # "none" /\ db = result.db

RecoverFromDirectoryUnrecorded(w) ==
    /\ dir
    /\ Abandon(w)
    /\ UNCHANGED <<files, source, checkpoint, observed>>

(* An existing directory either yields its durable result or an error.      *)
RecoverFromDirectory(w) ==
    /\ dir
    /\ \/ /\ Recoverable
          /\ artifact' = [artifact EXCEPT ![w] = result]
          /\ GoTo(w, "record")
          /\ UNCHANGED srcBefore
       \/ /\ ~Recoverable
          /\ Abandon(w)
    /\ UNCHANGED <<files, source, checkpoint, observed>>

(* resume_approved_repair reads a checkpoint that is still SANDBOX_REPAIR.  *)
Resume(w) ==
    /\ incident = "SANDBOX_REPAIR"
    /\ Proceed(w, "idle", "recover")
    /\ UNCHANGED <<files, source, checkpoint, observed>>

RecoverRun(w) ==
    \/ /\ pc[w] = "recover"
       /\ RecoverFromDirectory(w)
    \/ /\ ~dir
       /\ Proceed(w, "recover", "execute")
       /\ UNCHANGED <<files, source, checkpoint, observed>>

-----------------------------------------------------------------------------
(* execute.                                                                *)

CheckDirectory(w) ==
    /\ pc[w] = "execute"
    /\ \/ RecoverFromDirectory(w)
       \/ /\ ~dir
          /\ srcBefore' = [srcBefore EXCEPT ![w] = source]
          /\ GoTo(w, "mkdir")
          /\ UNCHANGED <<files, source, checkpoint, artifact, observed>>

MakeDirectoryAfresh(w) ==
    /\ Proceed(w, "mkdir", "copy")
    /\ dir' = TRUE
    /\ db' = "none"
    /\ marker' = "none"
    /\ tmp' = NoFile
    /\ result' = NoFile
    /\ UNCHANGED <<source, checkpoint, observed>>

(* mkdir(exist_ok=False) raises for a directory that appeared meanwhile,    *)
(* and the except branch takes that for a failed repair.                   *)
MakeDirectory(w) ==
    \/ /\ ~dir
       /\ Proceed(w, "mkdir", "copy")
       /\ dir' = TRUE
       /\ UNCHANGED <<db, marker, tmp, result, source, checkpoint, observed>>
    \/ /\ pc[w] = "mkdir"
       /\ (dir /\ UNCHANGED observed) \/ Fault
       /\ UNCHANGED <<files, source, checkpoint>>
       /\ NormalizeFailure(w, 0)

CopyDatabase(w) ==
    \/ /\ Proceed(w, "copy", "marker")
       /\ db' = "copied"
       /\ UNCHANGED <<dir, marker, tmp, result, source, checkpoint, observed>>
    \/ /\ pc[w] = "copy"
       /\ Fault
       /\ db' \in {"none", "torn"}
       /\ UNCHANGED <<dir, marker, tmp, result, source, checkpoint>>
       /\ NormalizeFailure(w, 0)

WriteInvocationMarkerBestEffort(w) ==
    /\ Proceed(w, "marker", "handler")
    /\ marker' \in {"none", "written"}
    /\ UNCHANGED <<dir, db, tmp, result, source, checkpoint, observed>>

(* handler_invocation_count becomes 1 before the marker is written.         *)
WriteInvocationMarker(w) ==
    \/ /\ marker = "none"
       /\ Proceed(w, "marker", "handler")
       /\ marker' = "written"
       /\ UNCHANGED <<dir, db, tmp, result, source, checkpoint, observed>>
    \/ /\ pc[w] = "marker"
       /\ Fault
       /\ marker' \in {"none", "torn"}
       /\ UNCHANGED <<dir, db, tmp, result, source, checkpoint>>
       /\ NormalizeFailure(w, 1)

BeginHandler(w) ==
    /\ Proceed(w, "handler", "commit")
    /\ handlerRuns' = handlerRuns + 1
    /\ UNCHANGED <<files, source, checkpoint, faults, crashes>>

EndHandlerSwallowing(w) ==
    /\ Proceed(w, "commit", "verify")
    /\ db' \in {db, "repaired"}
    /\ UNCHANGED <<dir, marker, tmp, result, source, checkpoint, observed>>

EndHandlerUncounted(w) ==
    \/ /\ Proceed(w, "commit", "verify")
       /\ db' = "repaired"
       /\ UNCHANGED <<dir, marker, tmp, result, source, checkpoint, observed>>
    \/ /\ pc[w] = "commit"
       /\ UNCHANGED <<files, source, checkpoint, observed>>
       /\ NormalizeFailure(w, 0)

(* The transaction commits, or the handler raises and it is rolled back.    *)
EndHandler(w) ==
    \/ /\ Proceed(w, "commit", "verify")
       /\ db' = "repaired"
       /\ UNCHANGED <<dir, marker, tmp, result, source, checkpoint, observed>>
    \/ /\ pc[w] = "commit"
       /\ UNCHANGED <<files, source, checkpoint, observed>>
       /\ NormalizeFailure(w, 1)

VerifySource(w) ==
    /\ pc[w] = "verify"
    /\ UNCHANGED <<files, source, checkpoint, observed>>
    /\ \/ /\ source = srcBefore[w]
          /\ Finish(w, "SUCCEEDED", 1, source, db)
       \/ /\ source # srcBefore[w]
          /\ NormalizeFailure(w, 1)

-----------------------------------------------------------------------------
(* _write_terminal_result.                                                 *)

CheckNoResult(w) ==
    /\ \/ /\ result.status = "NONE"
          /\ tmp.status = "NONE"
          /\ Proceed(w, "finish", "tmp")
       \/ /\ result.status # "NONE" \/ tmp.status # "NONE"
          /\ pc[w] = "finish"
          /\ Abandon(w)
    /\ UNCHANGED <<files, source, checkpoint, observed>>

(* open("x") raises when another worker's file is there, or when there is   *)
(* no directory; the except branch then unlinks the path whoever wrote it. *)
(* The unlink may fail too, so a torn file may stay behind.                *)
WriteTemporary(w) ==
    \/ /\ dir
       /\ tmp.status = "NONE"
       /\ Proceed(w, "tmp", "replace")
       /\ tmp' = artifact[w]
       /\ UNCHANGED <<dir, db, marker, result, source, checkpoint, observed>>
    \/ /\ pc[w] = "tmp"
       /\ \/ (~dir \/ tmp.status # "NONE") /\ tmp' = NoFile /\ UNCHANGED observed
          \/ (dir /\ tmp' \in {NoFile, TornFile} /\ Fault)
       /\ Abandon(w)
       /\ UNCHANGED <<dir, db, marker, result, source, checkpoint>>

ReplaceResultBestEffort(w) ==
    \/ /\ tmp.status # "NONE"
       /\ Proceed(w, "replace", "record")
       /\ result' = tmp
       /\ tmp' = NoFile
       /\ UNCHANGED <<dir, db, marker, source, checkpoint, observed>>
    \/ /\ Fault
       /\ Proceed(w, "replace", "record")
       /\ UNCHANGED <<files, source, checkpoint>>

ReplaceResult(w) ==
    \/ /\ tmp.status # "NONE"
       /\ Proceed(w, "replace", "record")
       /\ result' = tmp
       /\ tmp' = NoFile
       /\ UNCHANGED <<dir, db, marker, source, checkpoint, observed>>
    \/ /\ pc[w] = "replace"
       /\ (tmp.status = "NONE" /\ UNCHANGED observed) \/ Fault
       /\ tmp' = NoFile
       /\ Abandon(w)
       /\ UNCHANGED <<dir, db, marker, result, source, checkpoint>>

(* record_repair_result, from the run this worker holds: the incident was   *)
(* checked when resume_approved_repair read it, not now.                   *)
RecordResult(w) ==
    /\ pc[w] = "record"
    /\ incident' = IF artifact[w].status = "SUCCEEDED" THEN "POST_VALIDATION"
                                                       ELSE "TOOL_FAILED"
    /\ recorded' = artifact[w]
    /\ Abandon(w)
    /\ UNCHANGED <<files, source, observed>>

-----------------------------------------------------------------------------
Crash(w) ==
    /\ pc[w] # "idle"
    /\ crashes < MaxCrashes
    /\ crashes' = crashes + 1
    /\ Abandon(w)
    /\ UNCHANGED <<files, source, checkpoint, handlerRuns, faults>>

ChangeSource ==
    /\ source < MaxSourceChanges
    /\ source' = source + 1
    /\ UNCHANGED <<files, checkpoint, pc, srcBefore, artifact, observed>>

Work(w) ==
    \/ Resume(w)
    \/ RecoverRun(w)
    \/ CheckDirectory(w)
    \/ MakeDirectory(w)
    \/ CopyDatabase(w)
    \/ WriteInvocationMarker(w)
    \/ BeginHandler(w)
    \/ EndHandler(w)
    \/ VerifySource(w)
    \/ CheckNoResult(w)
    \/ WriteTemporary(w)
    \/ ReplaceResult(w)
    \/ RecordResult(w)

Next ==
    \/ \E w \in Worker : Work(w) \/ Crash(w)
    \/ ChangeSource

Spec == Init /\ [][Next]_vars

(* A process that resumes the run keeps taking steps, and an operator keeps *)
(* resuming it while the incident is unsettled.  Nobody has to change the  *)
(* source and nothing has to crash.                                        *)
FairSpec == Spec /\ \A w \in Worker : WF_vars(Work(w))

-----------------------------------------------------------------------------
(* The handler is invoked at most once for a run, however many processes    *)
(* resume it, and wherever they stop: "Execute exactly once".              *)
HandlerAtMostOnce == handlerRuns <= 1

(* What the handler did can always be told from the directory: an invoked   *)
(* handler has its marker, and a changed copy an invoked handler.  This is *)
(* what lets recovery refuse to run it again.                              *)
EffectIsMarked ==
    /\ handlerRuns > 0 => dir /\ marker = "written"
    /\ db = "repaired" => handlerRuns > 0

(* POST_VALIDATION is only ever reached with a repaired copy made by one    *)
(* invocation, and with an artifact that says so.                          *)
SuccessIsReal ==
    incident = "POST_VALIDATION" =>
        /\ recorded.status = "SUCCEEDED"
        /\ recorded.db = "repaired"
        /\ db = "repaired"
        /\ handlerRuns = 1

Settled == incident # "SANDBOX_REPAIR"

(* An incident that was told an outcome was told how often the handler ran, *)
(* or more (the count is set before the marker is attempted).              *)
CountCoversRuns == Settled => recorded.count >= handlerRuns

(* What the incident was told is what recovery would find in the directory. *)
RecordedIsDurable == Settled => recorded = result

(* Every durable terminal result can be recovered, absent a change of the   *)
(* source: "Recover a durable terminal run without invoking its handler".  *)
TerminalResultIsRecoverable ==
    Terminal(result) /\ source = 0 /\ tmp.status = "NONE" => Recoverable

(* Refinement: the repair takes effect at most once and has one outcome.    *)
effectBar == IF db = "repaired" THEN "applied" ELSE "none"

outcomeBar == CASE incident = "SANDBOX_REPAIR"  -> "undecided"
                [] incident = "POST_VALIDATION" -> "succeeded"
                [] incident = "TOOL_FAILED"     -> "failed"

Abstract == INSTANCE AtMostOnceRepair WITH effect <- effectBar, outcome <- outcomeBar

ImplementsAtMostOnce == Abstract!Spec

Indeterminate == dir /\ ~Recoverable /\ \A w \in Worker : pc[w] \in {"idle", "recover"}

(* The run never hangs half-way: in the end the incident has an outcome, or *)
(* the directory is one every later resume reports as indeterminate.       *)
SettledOrIndeterminate == <>[](Settled \/ Indeterminate)

(* A success that reached the disk is not lost to a crash: a later resume   *)
(* recovers it and the incident moves on, as long as the source stays.     *)
DurableSuccessIsRecorded ==
    result.status = "SUCCEEDED" ~> (incident = "POST_VALIDATION" \/ source # result.before)
=============================================================================
