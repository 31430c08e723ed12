------------------------ MODULE SandboxRepairProofs ------------------------
(***************************************************************************)
(* For every set of workers and every value of the bounds: the handler is  *)
(* invoked at most once, its effect is always marked, and a success is     *)
(* only reported for a repaired copy.                                      *)
(*                                                                         *)
(* The argument.  mkdir(exist_ok=False) lets one worker, once, into the    *)
(* steps between making the directory and judging the handler's effect:    *)
(* the owner.  While the owner has not begun the handler nobody has, so    *)
(* the count is still 0; nobody else can get there, since the directory is *)
(* never removed.  Only the owner makes a SUCCEEDED artifact, after the    *)
(* commit; everybody else copies it.                                       *)
(***************************************************************************)
EXTENDS SandboxRepair, TLAPS

(* One worker at a time is between mkdir and the end of the handler.        *)
OneOwner ==
    /\ \A v, w \in Worker : pc[v] \in OwnerSteps /\ pc[w] \in OwnerSteps => v = w
    /\ \A w \in Worker : pc[w] \in OwnerSteps => dir

(* Nothing has happened before the directory exists.                       *)
Untouched == ~dir => db = "none" /\ marker = "none" /\ handlerRuns = 0

(* What the owner may assume at each of its steps.                          *)
OwnerProgress ==
    \A w \in Worker :
       /\ pc[w] \in {"copy", "marker", "handler"} => handlerRuns = 0
       /\ pc[w] \in {"copy", "marker"} => marker = "none"
       /\ pc[w] \in {"handler", "commit", "verify"} => marker = "written"
       /\ pc[w] = "commit" => handlerRuns = 1 /\ db # "repaired"
       /\ pc[w] = "verify" => handlerRuns = 1 /\ db = "repaired"

(* An artifact that claims success is true.                                *)
Honest(a) ==
    a.status = "SUCCEEDED" => a.db = "repaired" /\ db = "repaired" /\ handlerRuns = 1

HonestArtifacts ==
    /\ Honest(tmp)
    /\ Honest(result)
    /\ Honest(recorded)
    /\ \A w \in Worker : Honest(artifact[w])
    /\ incident = "POST_VALIDATION" => recorded.status = "SUCCEEDED"

IInv ==
    /\ TypeOK
    /\ OneOwner
    /\ Untouched
    /\ OwnerProgress
    /\ HandlerAtMostOnce
    /\ EffectIsMarked
    /\ HonestArtifacts

-----------------------------------------------------------------------------
LEMMA FileFacts ==
    /\ NoFile \in Artifacts
    /\ TornFile \in Artifacts
    /\ NoFile.status = "NONE"
    /\ TornFile.status = "TORN"
BY DEF NoFile, TornFile, Artifacts, DbContents

LEMMA InitTypeOK == Init => TypeOK
<1> SUFFICES ASSUME Init
             PROVE  TypeOK
    OBVIOUS
<1> USE DEF Init
<1>1. pc \in [Worker -> Steps]
    BY DEF Steps
<1>2. srcBefore \in [Worker -> Nat]
    OBVIOUS
<1>3. artifact \in [Worker -> Artifacts]
    BY FileFacts
<1>4. db \in DbContents /\ marker \in MarkerStates /\ incident \in IncidentStatuses
    BY DEF DbContents, MarkerStates, IncidentStatuses
<1>5. tmp \in Artifacts /\ result \in Artifacts /\ recorded \in Artifacts
    BY FileFacts
<1> QED
    BY <1>1, <1>2, <1>3, <1>4, <1>5 DEF TypeOK

(* Every step keeps every variable in its type.                            *)
LEMMA NextTypeOK == TypeOK /\ [Next]_vars => TypeOK'
<1> SUFFICES ASSUME TypeOK, [Next]_vars
             PROVE  TypeOK'
    OBVIOUS
<1> USE FileFacts, BoundsAssumption DEF TypeOK, files, checkpoint, observed
<1>1. ASSUME NEW w \in Worker, Resume(w) PROVE TypeOK'
    BY <1>1 DEF Resume, Proceed, GoTo, Steps
<1>2. ASSUME NEW w \in Worker, RecoverFromDirectory(w) PROVE TypeOK'
    BY <1>2 DEF RecoverFromDirectory, Abandon, GoTo, Steps
<1>3. ASSUME NEW w \in Worker, RecoverRun(w) PROVE TypeOK'
    BY <1>2, <1>3 DEF RecoverRun, Proceed, GoTo, Steps
<1>4. ASSUME NEW w \in Worker, CheckDirectory(w) PROVE TypeOK'
    BY <1>2, <1>4 DEF CheckDirectory, GoTo, Steps
<1>5. ASSUME NEW w \in Worker, MakeDirectory(w) PROVE TypeOK'
    <2>1. faults' \in Nat /\ UNCHANGED <<db, marker, tmp, result, source, checkpoint,
                                         handlerRuns, crashes>>
        BY <1>5 DEF MakeDirectory, Fault
    <2>2. dir' \in BOOLEAN
        BY <1>5, Zenon DEF MakeDirectory
    <2>3. pc' \in [Worker -> Steps] /\ srcBefore' = srcBefore
        BY <1>5 DEF MakeDirectory, NormalizeFailure, Finish, Proceed, GoTo, Steps, OwnerSteps
    <2>4. artifact' \in [Worker -> Artifacts]
        BY <1>5, <2>1 DEF MakeDirectory, NormalizeFailure, Finish, Proceed, Artifacts
    <2> QED
        BY <2>1, <2>2, <2>3, <2>4
<1>6. ASSUME NEW w \in Worker, CopyDatabase(w) PROVE TypeOK'
    <2>1. db' \in DbContents /\ faults' \in Nat /\ UNCHANGED <<dir, marker, tmp, result, source,
                                                               checkpoint, handlerRuns, crashes>>
        BY <1>6 DEF CopyDatabase, Fault, DbContents
    <2>2. pc' \in [Worker -> Steps] /\ srcBefore' = srcBefore
        BY <1>6 DEF CopyDatabase, NormalizeFailure, Finish, Proceed, GoTo, Steps, OwnerSteps
    <2>3. artifact' \in [Worker -> Artifacts]
        BY <1>6, <2>1 DEF CopyDatabase, NormalizeFailure, Finish, Proceed, Artifacts
    <2> QED
        BY <2>1, <2>2, <2>3
<1>7. ASSUME NEW w \in Worker, WriteInvocationMarker(w) PROVE TypeOK'
    <2>1. marker' \in MarkerStates /\ faults' \in Nat /\ UNCHANGED <<dir, db, tmp, result, source,
                                                                   checkpoint, handlerRuns, crashes>>
        BY <1>7 DEF WriteInvocationMarker, Fault, MarkerStates
    <2>2. pc' \in [Worker -> Steps] /\ srcBefore' = srcBefore
        BY <1>7 DEF WriteInvocationMarker, NormalizeFailure, Finish, Proceed, GoTo, Steps, OwnerSteps
    <2>3. artifact' \in [Worker -> Artifacts]
        BY <1>7, <2>1 DEF WriteInvocationMarker, NormalizeFailure, Finish, Proceed, Artifacts
    <2> QED
        BY <2>1, <2>2, <2>3
<1>8. ASSUME NEW w \in Worker, BeginHandler(w) PROVE TypeOK'
    BY <1>8 DEF BeginHandler, Proceed, GoTo, Steps, OwnerSteps
<1>9. ASSUME NEW w \in Worker, EndHandler(w) PROVE TypeOK'
    <2>1. db' \in DbContents /\ UNCHANGED <<dir, marker, tmp, result, source, checkpoint, observed>>
        BY <1>9 DEF EndHandler, DbContents
    <2>2. pc' \in [Worker -> Steps] /\ srcBefore' = srcBefore
        BY <1>9 DEF EndHandler, NormalizeFailure, Finish, Proceed, GoTo, Steps, OwnerSteps
    <2>3. artifact' \in [Worker -> Artifacts]
        BY <1>9, <2>1 DEF EndHandler, NormalizeFailure, Finish, Proceed, Artifacts
    <2> QED
        BY <2>1, <2>2, <2>3
<1>10. ASSUME NEW w \in Worker, VerifySource(w) PROVE TypeOK'
    BY <1>10 DEF VerifySource, NormalizeFailure, Finish, GoTo, Steps, Artifacts
<1>11. ASSUME NEW w \in Worker, CheckNoResult(w) PROVE TypeOK'
    BY <1>11 DEF CheckNoResult, Proceed, Abandon, GoTo, Steps
<1>12. ASSUME NEW w \in Worker, WriteTemporary(w) PROVE TypeOK'
    BY <1>12 DEF WriteTemporary, Proceed, Abandon, Fault, GoTo, Steps
<1>13. ASSUME NEW w \in Worker, ReplaceResult(w) PROVE TypeOK'
    BY <1>13 DEF ReplaceResult, Proceed, Abandon, Fault, GoTo, Steps
<1>14. ASSUME NEW w \in Worker, RecordResult(w) PROVE TypeOK'
    BY <1>14 DEF RecordResult, Abandon, GoTo, Steps, IncidentStatuses
<1>15. ASSUME NEW w \in Worker, Crash(w) PROVE TypeOK'
    BY <1>15 DEF Crash, Abandon, GoTo, Steps
<1>16. CASE ChangeSource
    BY <1>16 DEF ChangeSource
<1>17. CASE UNCHANGED vars
    BY <1>17 DEF vars
<1> QED
    BY <1>1, <1>3, <1>4, <1>5, <1>6, <1>7, <1>8, <1>9, <1>10, <1>11, <1>12, <1>13, <1>14,
       <1>15, <1>16, <1>17 DEF Next, Work

(* Every variable keeps its type: SandboxRepair's files, checkpoint and     *)
(* workers, for any number of processes.                                   *)
THEOREM TypeCorrect == Spec => []TypeOK
<1>1. Init => TypeOK
    BY InitTypeOK
<1>2. TypeOK /\ [Next]_vars => TypeOK'
    BY NextTypeOK
<1> QED
    BY <1>1, <1>2, PTL DEF Spec

-----------------------------------------------------------------------------
LEMMA InitInv == Init => IInv
<1> SUFFICES ASSUME Init
             PROVE  IInv
    OBVIOUS
<1>1. TypeOK
    BY InitTypeOK
<1>2. \A w \in Worker : pc[w] = "idle" /\ artifact[w] = NoFile
    BY DEF Init
<1> QED
    BY <1>1, <1>2, FileFacts DEF Init, IInv, OneOwner, OwnerSteps, Untouched, OwnerProgress,
       HandlerAtMostOnce, EffectIsMarked, HonestArtifacts, Honest

(* Every step keeps the invariant.  Most actions leave the owner steps, or  *)
(* stay outside them; the ones of the owner advance its progress.          *)
LEMMA NextInv == IInv /\ [Next]_vars => IInv'
<1> SUFFICES ASSUME IInv, [Next]_vars
             PROVE  IInv'
    OBVIOUS
<1>0. TypeOK'
    BY NextTypeOK DEF IInv
<1> DEFINE Rest == OneOwner /\ Untouched /\ OwnerProgress /\ HandlerAtMostOnce
                   /\ EffectIsMarked /\ HonestArtifacts
<1> USE FileFacts DEF IInv, TypeOK, files, checkpoint, observed, OneOwner, OwnerSteps, Untouched,
                      OwnerProgress, HandlerAtMostOnce, EffectIsMarked, HonestArtifacts, Honest
<1>1. ASSUME NEW w \in Worker, Resume(w) PROVE Rest'
    BY <1>0, <1>1 DEF Resume, Proceed, GoTo
<1>2. ASSUME NEW w \in Worker, RecoverFromDirectory(w) PROVE Rest'
    BY <1>0, <1>2 DEF RecoverFromDirectory, Recoverable, Terminal, Abandon, GoTo
<1>3. ASSUME NEW w \in Worker, RecoverRun(w) PROVE Rest'
    BY <1>0, <1>3, <1>2 DEF RecoverRun, Proceed, GoTo
<1>4. ASSUME NEW w \in Worker, CheckDirectory(w) PROVE Rest'
    BY <1>0, <1>4, <1>2 DEF CheckDirectory, GoTo
<1>5. ASSUME NEW w \in Worker, MakeDirectory(w) PROVE Rest'
    BY <1>0, <1>5 DEF MakeDirectory, NormalizeFailure, Finish, Fault, Proceed, GoTo
<1>6. ASSUME NEW w \in Worker, CopyDatabase(w) PROVE Rest'
    BY <1>0, <1>6 DEF CopyDatabase, NormalizeFailure, Finish, Fault, Proceed, GoTo
<1>7. ASSUME NEW w \in Worker, WriteInvocationMarker(w) PROVE Rest'
    BY <1>0, <1>7 DEF WriteInvocationMarker, NormalizeFailure, Finish, Fault, Proceed, GoTo
<1>8. ASSUME NEW w \in Worker, BeginHandler(w) PROVE Rest'
    BY <1>0, <1>8 DEF BeginHandler, Proceed, GoTo
<1>9. ASSUME NEW w \in Worker, EndHandler(w) PROVE Rest'
    BY <1>0, <1>9 DEF EndHandler, NormalizeFailure, Finish, Proceed, GoTo
<1>10. ASSUME NEW w \in Worker, VerifySource(w) PROVE Rest'
    BY <1>0, <1>10 DEF VerifySource, NormalizeFailure, Finish, GoTo
<1>11. ASSUME NEW w \in Worker, CheckNoResult(w) PROVE Rest'
    BY <1>0, <1>11 DEF CheckNoResult, Proceed, Abandon, GoTo
<1>12. ASSUME NEW w \in Worker, WriteTemporary(w) PROVE Rest'
    BY <1>0, <1>12 DEF WriteTemporary, Proceed, Abandon, Fault, GoTo
<1>13. ASSUME NEW w \in Worker, ReplaceResult(w) PROVE Rest'
    BY <1>0, <1>13 DEF ReplaceResult, Proceed, Abandon, Fault, GoTo
<1>14. ASSUME NEW w \in Worker, RecordResult(w) PROVE Rest'
    BY <1>0, <1>14 DEF RecordResult, Abandon, GoTo
<1>15. ASSUME NEW w \in Worker, Crash(w) PROVE Rest'
    BY <1>0, <1>15 DEF Crash, Abandon, GoTo
<1>16. CASE ChangeSource
    BY <1>0, <1>16 DEF ChangeSource
<1>17. CASE UNCHANGED vars
    BY <1>0, <1>17 DEF vars
<1> QED
    BY <1>0, <1>1, <1>3, <1>4, <1>5, <1>6, <1>7, <1>8, <1>9, <1>10, <1>11, <1>12, <1>13, <1>14,
       <1>15, <1>16, <1>17 DEF Next, Work

LEMMA Invariant == Spec => []IInv
<1>1. Init => IInv
    BY InitInv
<1>2. IInv /\ [Next]_vars => IInv'
    BY NextInv
<1> QED
    BY <1>1, <1>2, PTL DEF Spec

(* "Execute exactly once": however many processes resume a run, and         *)
(* wherever they stop, its handler is invoked at most once.                *)
THEOREM AtMostOneInvocation == Spec => []HandlerAtMostOnce
<1>1. IInv => HandlerAtMostOnce
    BY DEF IInv
<1> QED
    BY <1>1, Invariant, PTL

(* The invocation marker is on disk before the handler's first effect, so   *)
(* recovery can tell from the directory that the handler may have run.     *)
THEOREM EffectAlwaysMarked == Spec => []EffectIsMarked
<1>1. IInv => EffectIsMarked
    BY DEF IInv
<1> QED
    BY <1>1, Invariant, PTL

(* POST_VALIDATION is reached only with a copy repaired by one invocation.  *)
THEOREM SuccessAlwaysReal == Spec => []SuccessIsReal
<1>1. IInv => SuccessIsReal
    BY DEF IInv, HonestArtifacts, Honest, SuccessIsReal
<1> QED
    BY <1>1, Invariant, PTL

-----------------------------------------------------------------------------
(* With a single process the run implements AtMostOnceRepair: the incident  *)
(* has one outcome, and nothing is applied after it.  The extra invariant: *)
(* a settled incident has no process left in the middle of a run.          *)

Quiet == Settled => \A w \in Worker : pc[w] = "idle"

LEMMA QuietInv ==
    ASSUME \A v, w \in Worker : v = w
    PROVE  IInv /\ Quiet /\ [Next]_vars => Quiet'
<1> SUFFICES ASSUME IInv, Quiet, [Next]_vars
             PROVE  Quiet'
    OBVIOUS
<1> USE DEF IInv, TypeOK, Quiet, Settled, files, checkpoint, observed, GoTo, Proceed, Abandon
<1>1. ASSUME NEW w \in Worker, RecordResult(w) PROVE Quiet'
    BY <1>1 DEF RecordResult
<1>2. ASSUME NEW w \in Worker, Crash(w) PROVE Quiet'
    BY <1>2 DEF Crash
<1>3. ASSUME NEW w \in Worker, Work(w), ~RecordResult(w) PROVE ~Settled /\ ~Settled'
    BY <1>3 DEF Work, Resume, RecoverRun, RecoverFromDirectory, CheckDirectory, MakeDirectory,
       CopyDatabase, WriteInvocationMarker, BeginHandler, EndHandler, VerifySource,
       CheckNoResult, WriteTemporary, ReplaceResult
<1>4. CASE ChangeSource \/ UNCHANGED vars
    BY <1>4 DEF ChangeSource, vars
<1> QED
    BY <1>1, <1>2, <1>3, <1>4 DEF Next

(* A step of the run is a step of AtMostOnceRepair or changes neither the   *)
(* copy's repair nor the incident's status.                                *)
LEMMA StepSimulation ==
    IInv /\ Quiet /\ [Next]_vars => [Abstract!Next]_<<effectBar, outcomeBar>>
<1> SUFFICES ASSUME IInv, Quiet, [Next]_vars
             PROVE  [Abstract!Next]_<<effectBar, outcomeBar>>
    OBVIOUS
<1> USE DEF IInv, TypeOK, Quiet, Settled, files, checkpoint, observed, GoTo, Proceed, effectBar, outcomeBar
<1>1. ASSUME NEW w \in Worker, EndHandler(w)
      PROVE  Abstract!Apply \/ UNCHANGED <<effectBar, outcomeBar>>
    BY <1>1 DEF EndHandler, OwnerProgress, IncidentStatuses, Abstract!Apply
<1>2. ASSUME NEW w \in Worker, RecordResult(w)
      PROVE  Abstract!Succeed \/ Abstract!Fail
    BY <1>2 DEF RecordResult, HonestArtifacts, Honest, IncidentStatuses, Abstract!Succeed,
                Abstract!Fail
<1>3. ASSUME NEW w \in Worker, CopyDatabase(w)
      PROVE  UNCHANGED <<effectBar, outcomeBar>>
    BY <1>3 DEF CopyDatabase, Fault, OwnerProgress, EffectIsMarked
<1>4. ASSUME NEW w \in Worker, Work(w) \/ Crash(w),
             ~EndHandler(w), ~RecordResult(w), ~CopyDatabase(w)
      PROVE  UNCHANGED <<effectBar, outcomeBar>>
    BY <1>4 DEF Work, Resume, RecoverRun, RecoverFromDirectory, CheckDirectory, MakeDirectory,
       WriteInvocationMarker, BeginHandler, VerifySource, CheckNoResult, WriteTemporary,
       ReplaceResult, Crash
<1>5. CASE ChangeSource \/ UNCHANGED vars
    BY <1>5 DEF ChangeSource, vars
<1> QED
    BY <1>1, <1>2, <1>3, <1>4, <1>5 DEF Next, Abstract!Next

(* One process: the run implements AtMostOnceRepair, across its crashes,    *)
(* failed writes and resumes.                                              *)
THEOREM RefinesAtMostOnceRepair ==
    ASSUME \A v, w \in Worker : v = w
    PROVE  Spec => ImplementsAtMostOnce
<1>1. Init => IInv /\ Quiet /\ Abstract!Init
    BY InitInv DEF Init, Quiet, Settled, Abstract!Init, effectBar, outcomeBar
<1>2. IInv /\ Quiet /\ [Next]_vars => IInv' /\ Quiet'
    BY NextInv, QuietInv
<1>3. IInv /\ Quiet /\ [Next]_vars => [Abstract!Next]_<<effectBar, outcomeBar>>
    BY StepSimulation
<1> QED
    BY <1>1, <1>2, <1>3, PTL DEF Spec, ImplementsAtMostOnce, Abstract!Spec

-----------------------------------------------------------------------------
(* With a single process, what the incident is told also agrees with the    *)
(* directory.  The extra invariant: a process that goes on to make a run    *)
(* found no directory and so no result file; from its verdict to the record *)
(* it holds a count that covers the handler's invocations; and what it      *)
(* records is what it renamed or read.  (With two processes all of this is  *)
(* false: the one that loses mkdir reports a failure of its own.)          *)
OneRun ==
    /\ ~dir => tmp.status = "NONE" /\ result.status = "NONE"
    /\ result.status # "NONE" => result.count >= handlerRuns
    /\ \A w \in Worker :
          /\ pc[w] \in {"execute", "mkdir"} => ~dir
          /\ pc[w] \in OwnerSteps \cup {"finish", "tmp"}
                => tmp.status = "NONE" /\ result.status = "NONE"
          /\ pc[w] \in {"finish", "tmp", "replace", "record"}
                => artifact[w].count >= handlerRuns
          /\ pc[w] = "replace" => tmp = artifact[w]
          /\ pc[w] = "record" => result = artifact[w]
    /\ CountCoversRuns
    /\ RecordedIsDurable

SInv == IInv /\ Quiet /\ OneRun

LEMMA OneRunInit == Init => OneRun
BY FileFacts DEF Init, OneRun, OwnerSteps, CountCoversRuns, RecordedIsDurable, Settled

LEMMA OneRunNext ==
    ASSUME \A v, w \in Worker : v = w
    PROVE  SInv /\ [Next]_vars => OneRun'
<1> SUFFICES ASSUME SInv, [Next]_vars
             PROVE  OneRun'
    OBVIOUS
<1>0. TypeOK'
    BY NextTypeOK DEF SInv, IInv
<1> USE FileFacts DEF SInv, Quiet, OneRun, IInv, TypeOK, files, checkpoint, observed, OwnerSteps,
        Untouched, OwnerProgress, CountCoversRuns, RecordedIsDurable, Settled
<1>1. ASSUME NEW w \in Worker, Resume(w) PROVE OneRun'
    BY <1>0, <1>1 DEF Resume, Proceed, GoTo
<1>2. ASSUME NEW w \in Worker, pc[w] # "idle", RecoverFromDirectory(w) PROVE OneRun'
    BY <1>0, <1>2 DEF RecoverFromDirectory, Recoverable, Terminal, Abandon, GoTo
<1>3. ASSUME NEW w \in Worker, RecoverRun(w) PROVE OneRun'
    BY <1>0, <1>3, <1>2 DEF RecoverRun, Proceed, GoTo
<1>4. ASSUME NEW w \in Worker, CheckDirectory(w) PROVE OneRun'
    BY <1>0, <1>4, <1>2 DEF CheckDirectory, GoTo
<1>5. ASSUME NEW w \in Worker, MakeDirectory(w) PROVE OneRun'
    BY <1>0, <1>5 DEF MakeDirectory, NormalizeFailure, Finish, Fault, Proceed, GoTo
<1>6. ASSUME NEW w \in Worker, CopyDatabase(w) PROVE OneRun'
    BY <1>0, <1>6 DEF CopyDatabase, NormalizeFailure, Finish, Fault, Proceed, GoTo
<1>7. ASSUME NEW w \in Worker, WriteInvocationMarker(w) PROVE OneRun'
    BY <1>0, <1>7 DEF WriteInvocationMarker, NormalizeFailure, Finish, Fault, Proceed, GoTo
<1>8. ASSUME NEW w \in Worker, BeginHandler(w) PROVE OneRun'
    BY <1>0, <1>8 DEF BeginHandler, Proceed, GoTo
<1>9. ASSUME NEW w \in Worker, EndHandler(w) PROVE OneRun'
    BY <1>0, <1>9 DEF EndHandler, NormalizeFailure, Finish, Proceed, GoTo
<1>10. ASSUME NEW w \in Worker, VerifySource(w) PROVE OneRun'
    BY <1>0, <1>10 DEF VerifySource, NormalizeFailure, Finish, GoTo
<1>11. ASSUME NEW w \in Worker, CheckNoResult(w) PROVE OneRun'
    BY <1>0, <1>11 DEF CheckNoResult, Proceed, Abandon, GoTo
<1>12. ASSUME NEW w \in Worker, WriteTemporary(w) PROVE OneRun'
    BY <1>0, <1>12 DEF WriteTemporary, Proceed, Abandon, Fault, GoTo
<1>13. ASSUME NEW w \in Worker, ReplaceResult(w) PROVE OneRun'
    BY <1>0, <1>13 DEF ReplaceResult, Proceed, Abandon, Fault, GoTo
<1>14. ASSUME NEW w \in Worker, RecordResult(w) PROVE OneRun'
    BY <1>0, <1>14 DEF RecordResult, Abandon, GoTo, IncidentStatuses
<1>15. ASSUME NEW w \in Worker, Crash(w) PROVE OneRun'
    BY <1>0, <1>15 DEF Crash, Abandon, GoTo
<1>16. CASE ChangeSource
    BY <1>0, <1>16 DEF ChangeSource
<1>17. CASE UNCHANGED vars
    BY <1>0, <1>17 DEF vars
<1> QED
    BY <1>1, <1>3, <1>4, <1>5, <1>6, <1>7, <1>8, <1>9, <1>10, <1>11, <1>12, <1>13, <1>14,
       <1>15, <1>16, <1>17 DEF Next, Work

LEMMA OneProcessInvariant ==
    ASSUME \A v, w \in Worker : v = w
    PROVE  Spec => []SInv
<1>1. Init => SInv
    BY InitInv, OneRunInit DEF SInv, Init, Quiet, Settled
<1>2. SInv /\ [Next]_vars => SInv'
    BY NextInv, QuietInv, OneRunNext DEF SInv
<1> QED
    BY <1>1, <1>2, PTL DEF Spec

(* One process: the number of invocations the incident is told covers those *)
(* that happened, across crashes, failed writes and resumes.               *)
THEOREM CountAlwaysCovers ==
    ASSUME \A v, w \in Worker : v = w
    PROVE  Spec => []CountCoversRuns
<1>1. SInv => CountCoversRuns
    BY DEF SInv, OneRun
<1> QED
    BY <1>1, OneProcessInvariant, PTL

(* One process: what the incident was told is what a later recovery of the  *)
(* run finds in its directory.                                             *)
THEOREM RecordedAlwaysDurable ==
    ASSUME \A v, w \in Worker : v = w
    PROVE  Spec => []RecordedIsDurable
<1>1. SInv => RecordedIsDurable
    BY DEF SInv, OneRun
<1> QED
    BY <1>1, OneProcessInvariant, PTL
=============================================================================
