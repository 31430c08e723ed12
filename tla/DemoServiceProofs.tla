------------------------- MODULE DemoServiceProofs -------------------------
(***************************************************************************)
(* For any number of requests, faults, stops and any clock.  Types hold    *)
(* however the service is cached.  If no request constructs a service      *)
(* while another does (SerialFill), an incident is repaired at most once,  *)
(* what an answer showed stands, and the session file implements the       *)
(* approval gate.                                                          *)
(*                                                                         *)
(* The argument.  Serial construction leaves one instance, so its lock     *)
(* lets one request at a time past AcquireLock (OneAtATime).  That request *)
(* is never more than one write ahead of the session file (Ahead); its run *)
(* and decision bear its own name (Stage, NamedRuns).                      *)
(***************************************************************************)
EXTENDS DemoService, RepairIncidentProofs

(* Steps in the with block of the lock.                                    *)
Critical == {"decide", "write", "replace", "execute", "validate"}

(* A run is recorded under the name of the request that decided on it.      *)
OwnRun(s) == s.repair.run # None => s.repair.run.id = s.approval.decision.id

(* What a request may write.                                               *)
Sessions == {s \in RepairIncidents : Lawful(s) /\ OwnRun(s)}

WellTyped ==
    /\ TypeOK
    /\ session \in Sessions \cup {Torn}
    /\ tmp \in Sessions \cup {None, Torn}
    /\ \A r \in Requests : pc[r] \in Critical => local[r] \in Sessions

-----------------------------------------------------------------------------
LEMMA StartedIsSession ==
    ASSUME NEW support \in Evidences, NEW evidence \in Evidences,
           LET diagnosed == DiagnosedIncident(MissingPartition, support, evidence)
           IN  Buildable(diagnosed) /\ CanPropose(diagnosed, Built(diagnosed, 0))
    PROVE  /\ Started(support, evidence) \in Sessions
           /\ Started(support, evidence).status = "AWAITING_APPROVAL"
<1> DEFINE diagnosed == DiagnosedIncident(MissingPartition, support, evidence)
           built == Built(diagnosed, 0)
           proposed == Proposed(diagnosed, built)
           t == Awaiting(proposed)
<1>1. diagnosed \in RepairIncidents /\ Lawful(diagnosed)
    BY DiagnosedIsLawful, RepairAssumption, ServiceAssumption
<1>2. built \in Proposals /\ CanPropose(diagnosed, built)
    BY <1>1, BuiltIsProposal
<1> HIDE DEF built
<1>3. proposed \in RepairIncidents /\ Lawful(proposed)
    BY <1>1, <1>2, ProposedIsLawful
<1>4. proposed.status = "FIX_PROPOSED" /\ proposed.proposal = built /\ proposed.repair.run = None
    BY <1>1 DEF Proposed, RepairIncidents, DiagnosedIncident, NoRepair
<1>5. CanAwait(proposed)
    BY <1>2, <1>3, <1>4, NoneAssumption DEF CanAwait, PublicRepairGuard, Lawful, DecisionIsBound
<1>6. t \in RepairIncidents /\ Lawful(t) /\ t.status = "AWAITING_APPROVAL" /\ t.repair.run = None
    BY <1>3, <1>4, <1>5, AwaitingIsLawful DEF Awaiting, RepairIncidents
<1> QED
    BY <1>6 DEF Started, Sessions, OwnRun, built

LEMMA InitWellTyped == Init => WellTyped
<1> SUFFICES ASSUME Init
             PROVE  WellTyped
    OBVIOUS
<1>1. session \in Sessions
    BY StartedIsSession DEF Init
<1>2. TypeOK
    BY <1>1 DEF Init, TypeOK, Sessions, Steps, Answers, Instances
<1> QED
    BY <1>1, <1>2 DEF Init, WellTyped, Critical

(* What each step of a request makes of the incident it holds.              *)
LEMMA DecidedIsSession ==
    ASSUME WellTyped, NEW r \in Requests, NEW outcome \in {"approved", "rejected"},
           Decide(r, outcome)
    PROVE  \E t \in Sessions :
               /\ local' = [local EXCEPT ![r] = t]
               /\ local[r].status = "AWAITING_APPROVAL"
               /\ t.status = IF outcome = "approved" THEN "SANDBOX_REPAIR" ELSE "REJECTED"
               /\ t.approval.decision # None /\ t.approval.decision.id = r
               /\ t.approval \in Approvals(outcome)
               /\ outcome = "approved" => t.repair.run # None
<1> DEFINE s == local[r]
           d == [id |-> r, proposal |-> s.proposal, outcome |-> outcome, at |-> now]
           decided == ApprovalRecorded(s, outcome, d)
           run == PendingRun(r, s.proposal, d)
<1>1. s \in RepairIncidents /\ Lawful(s) /\ pc[r] = "decide" /\ CanRecordApproval(s, d, now)
    BY DEF Decide, WellTyped, Sessions, Critical
<1>2. s.proposal \in Proposals /\ s.status = "AWAITING_APPROVAL"
    BY <1>1 DEF CanRecordApproval, RepairIncidents, Typed
<1>3. d \in Decisions /\ d.id = r /\ d.outcome = outcome /\ d # None
    BY <1>2, ServiceAssumption, NoneAssumption DEF Decisions, WellTyped, TypeOK
<1> HIDE DEF d
<1>4. decided \in RepairIncidents /\ Lawful(decided)
    BY <1>1, <1>3, ApprovalRecordedIsLawful
<1>5. /\ decided.status = IF outcome = "approved" THEN "SANDBOX_REPAIR" ELSE "REJECTED"
      /\ decided.approval = [status |-> outcome, decision |-> d]
      /\ decided.proposal = s.proposal /\ decided.repair = s.repair
    BY <1>1 DEF ApprovalRecorded, RepairIncidents
<1>6. decided.approval \in Approvals(outcome)
    BY <1>3, <1>5 DEF Approvals
<1> HIDE DEF decided
<1>7. CASE outcome = "rejected"
    <2>1. s.repair.run = None
        BY <1>1, <1>2 DEF Lawful, EarlyIsBare, Early, NoRepair
    <2>2. decided \in Sessions
        BY <1>4, <1>5, <2>1 DEF Sessions, OwnRun
    <2>3. local' = [local EXCEPT ![r] = decided]
        BY <1>7 DEF Decide, Hold, d, decided
    <2>4. decided.approval.decision # None /\ decided.approval.decision.id = r
        BY <1>3, <1>5
    <2>5. decided.status = "REJECTED"
        BY <1>5, <1>7
    <2> QED
        BY <1>2, <1>6, <1>7, <2>2, <2>3, <2>4, <2>5
<1>8. CASE outcome = "approved"
    <2> DEFINE t == PendingRecorded(decided, run)
    <2>1. CanRecordPendingRun(decided, run) /\ local' = [local EXCEPT ![r] = t]
        BY <1>8 DEF Decide, Hold, d, decided
    <2>2. run = PendingRun(r, decided.proposal, decided.approval.decision)
        BY <1>5
    <2>3. run \in SandboxRuns /\ t \in RepairIncidents /\ Lawful(t)
        BY <1>4, <2>1, <2>2, PendingRecordedIsLawful, ServiceAssumption
    <2>4. run # None /\ run.id = r
        BY <2>3, NoneAssumption DEF PendingRun
    <2> HIDE DEF run
    <2>5. t.status = decided.status /\ t.approval = decided.approval /\ t.repair.run = run
        BY <1>4 DEF PendingRecorded, RepairIncidents
    <2>6. t \in Sessions
        BY <1>3, <1>5, <2>3, <2>4, <2>5 DEF Sessions, OwnRun
    <2>7. t.approval.decision # None /\ t.approval.decision.id = r
        BY <1>3, <1>5, <2>5
    <2>8. t.status = "SANDBOX_REPAIR" /\ t.repair.run # None /\ t.approval \in Approvals(outcome)
        BY <1>5, <1>6, <1>8, <2>4, <2>5
    <2> HIDE DEF t
    <2> QED
        BY <1>2, <1>8, <2>1, <2>6, <2>7, <2>8
<1> QED
    BY <1>7, <1>8

LEMMA RepairedIsSession ==
    ASSUME WellTyped, NEW r \in Requests, ExecuteRepair(r), pc'[r] = "write"
    PROVE  \E t \in Sessions :
               /\ local' = [local EXCEPT ![r] = t]
               /\ t.status \in {"POST_VALIDATION", "TOOL_FAILED"}
               /\ t.approval = local[r].approval
               /\ t.repair.run # None /\ local[r].repair.run # None
               /\ ran' = [ran EXCEPT ![r] = t.repair.run]
               /\ t.repair.run \in SandboxRuns
<1> DEFINE s == local[r]
           run == s.repair.run
<1>1. s \in RepairIncidents /\ Lawful(s) /\ OwnRun(s) /\ pc[r] = "execute"
    BY DEF ExecuteRepair, WellTyped, Sessions, Critical
<1>2. PICK result \in {[run EXCEPT !.status = "succeeded", !.count = 1],
                       [run EXCEPT !.status = "failed"]} :
          /\ CanRecordRepairResult(s, result)
          /\ ran' = [ran EXCEPT ![r] = result]
          /\ local' = [local EXCEPT ![r] = RepairResultRecorded(s, result.status, result)]
    BY DEF ExecuteRepair, Hold, Answer, GoTo, WellTyped, TypeOK
<1>3. run # None /\ run \in SandboxRuns
    BY <1>1, <1>2 DEF CanRecordRepairResult, Lawful, StageIsReached, RepairIncidents
<1>4. /\ result \in SandboxRuns /\ result # None /\ result.id = run.id
      /\ result.status \in {"succeeded", "failed"}
    <2>1. CASE result = [run EXCEPT !.status = "succeeded", !.count = 1]
        <3>1. [run EXCEPT !.status = "succeeded", !.count = 1] \in SandboxRuns
            BY <1>3 DEF SandboxRuns
        <3>2. result.id = run.id /\ result.status = "succeeded"
            BY <1>3, <2>1 DEF SandboxRuns
        <3> QED
            BY <2>1, <3>1, <3>2, NoneAssumption
    <2>2. CASE result = [run EXCEPT !.status = "failed"]
        <3>1. [run EXCEPT !.status = "failed"] \in SandboxRuns
            BY <1>3 DEF SandboxRuns
        <3>2. result.id = run.id /\ result.status = "failed"
            BY <1>3, <2>2 DEF SandboxRuns
        <3> QED
            BY <2>2, <3>1, <3>2, NoneAssumption
    <2> QED
        BY <1>2, <2>1, <2>2
<1> DEFINE t == RepairResultRecorded(s, result.status, result)
<1>5. t \in RepairIncidents /\ Lawful(t)
    BY <1>1, <1>2, <1>4, RepairResultRecordedIsLawful
<1>6. /\ t.status = IF result.status = "succeeded" THEN "POST_VALIDATION" ELSE "TOOL_FAILED"
      /\ t.approval = s.approval /\ t.repair.run = result
    BY <1>1 DEF RepairResultRecorded, RepairIncidents
<1>7. t \in Sessions
    BY <1>1, <1>3, <1>4, <1>5, <1>6 DEF Sessions, OwnRun
<1>8. local' = [local EXCEPT ![r] = t]
    BY <1>2
<1> HIDE DEF t
<1>9. t.status \in {"POST_VALIDATION", "TOOL_FAILED"}
    BY <1>6
<1> QED
    BY <1>2, <1>3, <1>4, <1>6, <1>7, <1>8, <1>9

LEMMA ValidatedIsSession ==
    ASSUME WellTyped, NEW r \in Requests, ValidateRepair(r), pc'[r] = "write"
    PROVE  \E t \in Sessions :
               /\ local' = [local EXCEPT ![r] = t]
               /\ t.status \in {"RESOLVED", "VALIDATION_FAILED"}
               /\ t.approval = local[r].approval
               /\ t.repair.run # None /\ t.repair.run = local[r].repair.run
<1> DEFINE s == local[r]
<1>1. s \in RepairIncidents /\ Lawful(s) /\ OwnRun(s) /\ pc[r] = "validate"
    BY DEF ValidateRepair, WellTyped, Sessions, Critical
<1>2. PICK sound \in {Checks} \cup {Checks \ {check} : check \in Checks} :
          LET v == [run      |-> s.repair.run.id,
                    proposal |-> s.proposal,
                    passed   |-> Passed(sound, TRUE)] IN
              /\ CanRecordVerdict(s, v)
              /\ local' = [local EXCEPT ![r] = VerdictRecorded(s, v.passed,
                                             IF v.passed THEN "passed" ELSE "failed")]
    BY DEF ValidateRepair, Hold, Answer, GoTo, WellTyped, TypeOK
<1> DEFINE v == [run |-> s.repair.run.id, proposal |-> s.proposal, passed |-> Passed(sound, TRUE)]
           t == VerdictRecorded(s, v.passed, IF v.passed THEN "passed" ELSE "failed")
<1>3. CanRecordVerdict(s, v) /\ local' = [local EXCEPT ![r] = t]
    BY <1>2
<1>4. s.repair.run # None /\ Typed(s)
    BY <1>3 DEF CanRecordVerdict, CompletedRunHolds, TerminalRunHolds
<1>5. v \in Verdicts
    <2>1. s.repair.run.id \in RunIds /\ s.proposal \in Proposals
        BY <1>1, <1>4 DEF RepairIncidents, SandboxRuns, Typed
    <2>2. Passed(sound, TRUE) \in BOOLEAN
        BY DEF Passed
    <2> QED
        BY <2>1, <2>2 DEF Verdicts
<1> HIDE DEF v
<1>6. t \in RepairIncidents /\ Lawful(t)
    BY <1>1, <1>3, <1>5, VerdictRecordedIsLawful
<1>7. /\ t.status \in {"RESOLVED", "VALIDATION_FAILED"}
      /\ t.approval = s.approval /\ t.repair.run = s.repair.run
    BY <1>1 DEF VerdictRecorded, RepairIncidents
<1>8. t \in Sessions
    BY <1>1, <1>6, <1>7 DEF Sessions, OwnRun
<1> HIDE DEF t
<1> QED
    BY <1>3, <1>4, <1>7, <1>8

-----------------------------------------------------------------------------
(* Every step keeps the types, with any number of instances of the service. *)

LEMMA AnswerTypes ==
    ASSUME TypeOK, NEW r \in Requests, NEW what \in Answers, Answer(r, what)
    PROVE  /\ pc' \in [Requests -> Steps] /\ answer' \in [Requests -> Answers]
           /\ holder' \in [Instances -> Requests \cup {None}]
           /\ cached' = cached /\ service' = service
           /\ pc' = [pc EXCEPT ![r] = "done"]
BY DEF TypeOK, Answer, GoTo, Steps

LEMMA GoToTypes ==
    ASSUME TypeOK, NEW r \in Requests, NEW step \in Steps, GoTo(r, step)
    PROVE  pc' \in [Requests -> Steps] /\ pc'[r] = step
BY DEF TypeOK, GoTo

(* A step that keeps the files and brings no request into the lock.         *)
LEMMA FilesKept ==
    ASSUME WellTyped, TypeOK', UNCHANGED <<session, tmp>>,
           \A q \in Requests : pc'[q] \in Critical => local'[q] \in Sessions
    PROVE  WellTyped'
BY DEF WellTyped

LEMMA ServiceStepTypes ==
    ASSUME WellTyped, NEW r \in Requests, FindService(r) \/ ConstructService(r)
    PROVE  WellTyped'
<1>1. TypeOK
    BY DEF WellTyped
<1>2. \E step \in {"lock", "construct"} : GoTo(r, step)
    BY DEF FindService, ConstructService
<1>3. pc' \in [Requests -> Steps] /\ \A q \in Requests : pc'[q] \in Critical => pc[q] \in Critical
    BY <1>1, <1>2 DEF TypeOK, GoTo, Steps, Critical
<1>4. /\ service' \in [Requests -> Instances \cup {None}]
      /\ cached' \in Instances \cup {None}
    BY <1>1 DEF TypeOK, FindService, ConstructService, Instances
<1>5. /\ session' = session /\ tmp' = tmp /\ local' = local /\ answer' = answer /\ ran' = ran
      /\ now' = now /\ crashes' = crashes /\ faults' = faults /\ holder' = holder
    BY DEF FindService, ConstructService, files, Undisturbed
<1>6. TypeOK'
    BY <1>1, <1>3, <1>4, <1>5 DEF TypeOK
<1> QED
    BY <1>3, <1>5, <1>6, FilesKept DEF WellTyped

LEMMA AcquireLockTypes ==
    ASSUME WellTyped, NEW r \in Requests, AcquireLock(r)
    PROVE  WellTyped'
<1>1. TypeOK
    BY DEF WellTyped
<1>2. /\ session' = session /\ tmp' = tmp /\ ran' = ran /\ now' = now
      /\ crashes' = crashes /\ faults' = faults
    BY DEF AcquireLock, files, Undisturbed
<1>3. CASE session # Torn /\ GoTo(r, "decide")
    <2>1. session \in Sessions /\ session \in RepairIncidents
        BY <1>3 DEF WellTyped, Sessions
    <2>2. /\ local' = [local EXCEPT ![r] = session]
          /\ holder' = [holder EXCEPT ![service[r]] = r]
          /\ cached' = cached /\ service' = service /\ answer' = answer
        BY <1>3 DEF AcquireLock, Hold
    <2>3. pc' = [pc EXCEPT ![r] = "decide"]
        BY <1>3 DEF GoTo
    <2>4. TypeOK'
        BY <1>1, <1>2, <2>1, <2>2, <2>3 DEF TypeOK, Steps
    <2>5. \A q \in Requests : pc'[q] \in Critical => local'[q] \in Sessions
        BY <1>1, <2>1, <2>2, <2>3 DEF TypeOK, WellTyped
    <2> QED
        BY <1>2, <2>4, <2>5, FilesKept
<1>4. CASE Answer(r, "error") /\ local' = local
    <2>1. TypeOK'
        BY <1>1, <1>2, <1>4, AnswerTypes DEF TypeOK, Answers
    <2>2. \A q \in Requests : pc'[q] \in Critical => local'[q] \in Sessions
        BY <1>1, <1>4, AnswerTypes DEF TypeOK, WellTyped, Critical, Answers
    <2> QED
        BY <1>2, <2>1, <2>2, FilesKept
<1> QED
    BY <1>3, <1>4 DEF AcquireLock

(* Decide, RefuseDecision, ExecuteRepair and ValidateRepair change memory   *)
(* and the world; the files stay.                                          *)
LEMMA MemoryStepTypes ==
    ASSUME WellTyped, NEW r \in Requests,
           UNCHANGED <<session, tmp, now, crashes>>,
           ran' \in [Requests -> SandboxRuns \cup {None, Indeterminate}],
           faults' \in Nat,
           \/ \E t \in Sessions : /\ local' = [local EXCEPT ![r] = t]
                                  /\ GoTo(r, "write")
                                  /\ UNCHANGED <<server, answer>>
           \/ \E what \in Answers : Answer(r, what) /\ local' = local
    PROVE  WellTyped'
<1>1. TypeOK
    BY DEF WellTyped
<1>2. ASSUME NEW t \in Sessions, local' = [local EXCEPT ![r] = t], GoTo(r, "write"),
             UNCHANGED <<server, answer>>
      PROVE  WellTyped'
    <2>1. t \in RepairIncidents
        BY DEF Sessions
    <2>2. pc' = [pc EXCEPT ![r] = "write"]
        BY <1>2 DEF GoTo
    <2>3. TypeOK'
        BY <1>1, <1>2, <2>1, <2>2 DEF TypeOK, Steps, server
    <2>4. \A q \in Requests : pc'[q] \in Critical => local'[q] \in Sessions
        BY <1>1, <1>2, <2>2 DEF TypeOK, WellTyped
    <2> QED
        BY <2>3, <2>4, FilesKept
<1>3. ASSUME NEW what \in Answers, Answer(r, what), local' = local
      PROVE  WellTyped'
    <2>1. TypeOK'
        BY <1>1, <1>3, AnswerTypes DEF TypeOK
    <2>2. \A q \in Requests : pc'[q] \in Critical => local'[q] \in Sessions
        BY <1>1, <1>3, AnswerTypes DEF TypeOK, WellTyped, Critical
    <2> QED
        BY <1>3, <2>1, <2>2, FilesKept
<1> QED
    BY <1>2, <1>3

LEMMA DecideTypes ==
    ASSUME WellTyped, NEW r \in Requests, NEW outcome \in {"approved", "rejected"},
           Decide(r, outcome)
    PROVE  WellTyped'
<1>1. PICK t \in Sessions : local' = [local EXCEPT ![r] = t]
    BY DecidedIsSession
<1>2. /\ UNCHANGED <<session, tmp, now, crashes>> /\ ran' = ran /\ faults' = faults
      /\ GoTo(r, "write") /\ UNCHANGED <<server, answer>>
    BY DEF Decide, files, Undisturbed
<1> QED
    BY <1>1, <1>2, MemoryStepTypes DEF WellTyped, TypeOK

LEMMA RefuseDecisionTypes ==
    ASSUME WellTyped, NEW r \in Requests, RefuseDecision(r)
    PROVE  WellTyped'
<1>1. /\ UNCHANGED <<session, tmp, now, crashes>> /\ ran' = ran /\ faults' = faults
      /\ local' = local
    BY DEF RefuseDecision, files, Undisturbed
<1>2. \E what \in Answers : Answer(r, what)
    BY DEF RefuseDecision, Answers
<1> QED
    BY <1>1, <1>2, MemoryStepTypes DEF WellTyped, TypeOK

LEMMA ExecuteRepairTypes ==
    ASSUME WellTyped, NEW r \in Requests, ExecuteRepair(r)
    PROVE  WellTyped'
<1>1. TypeOK
    BY DEF WellTyped
<1>2. UNCHANGED <<session, tmp, now, crashes>>
    BY DEF ExecuteRepair, files, Undisturbed
<1>3. CASE GoTo(r, "write") /\ UNCHANGED <<server, answer, faults>>
    <2>1. pc'[r] = "write"
        BY <1>1, <1>3, GoToTypes DEF Steps
    <2>2. PICK t \in Sessions : /\ local' = [local EXCEPT ![r] = t]
                                /\ ran' = [ran EXCEPT ![r] = t.repair.run]
                                /\ t.repair.run \in SandboxRuns
        BY <2>1, RepairedIsSession
    <2>3. ran' \in [Requests -> SandboxRuns \cup {None, Indeterminate}] /\ faults' \in Nat
        BY <1>1, <1>3, <2>2 DEF TypeOK
    <2> QED
        BY <1>2, <1>3, <2>2, <2>3, MemoryStepTypes
<1>4. CASE /\ Fault /\ ran' = [ran EXCEPT ![r] = Indeterminate]
           /\ Answer(r, "error") /\ local' = local
    <2>1. ran' \in [Requests -> SandboxRuns \cup {None, Indeterminate}] /\ faults' \in Nat
        BY <1>1, <1>4 DEF TypeOK, Fault
    <2> QED
        BY <1>2, <1>4, <2>1, MemoryStepTypes DEF Answers
<1> QED
    BY <1>3, <1>4 DEF ExecuteRepair

LEMMA ValidateRepairTypes ==
    ASSUME WellTyped, NEW r \in Requests, ValidateRepair(r)
    PROVE  WellTyped'
<1>1. TypeOK
    BY DEF WellTyped
<1>2. UNCHANGED <<session, tmp, now, crashes>> /\ ran' = ran
    BY DEF ValidateRepair, files, Undisturbed
<1>3. CASE GoTo(r, "write") /\ UNCHANGED <<server, answer, faults>>
    <2>1. pc'[r] = "write"
        BY <1>1, <1>3, GoToTypes DEF Steps
    <2>2. PICK t \in Sessions : local' = [local EXCEPT ![r] = t]
        BY <2>1, ValidatedIsSession
    <2> QED
        BY <1>1, <1>2, <1>3, <2>2, MemoryStepTypes DEF TypeOK
<1>4. CASE Fault /\ Answer(r, "error") /\ local' = local
    <2>1. faults' \in Nat
        BY <1>1, <1>4 DEF TypeOK, Fault
    <2> QED
        BY <1>1, <1>2, <1>4, <2>1, MemoryStepTypes DEF Answers, TypeOK
<1> QED
    BY <1>3, <1>4 DEF ValidateRepair

LEMMA WriteTemporaryTypes ==
    ASSUME WellTyped, NEW r \in Requests, WriteTemporary(r)
    PROVE  WellTyped'
<1>1. TypeOK
    BY DEF WellTyped
<1>2. /\ UNCHANGED <<session, local, ran, now, crashes>>
      /\ pc[r] = "write" /\ local[r] \in Sessions
    BY DEF WriteTemporary, Undisturbed, WellTyped, Critical
<1>3. CASE tmp' = local[r] /\ GoTo(r, "replace") /\ UNCHANGED <<server, answer, faults>>
    <2>1. pc' = [pc EXCEPT ![r] = "replace"] /\ tmp' \in Sessions /\ tmp' \in RepairIncidents
        BY <1>2, <1>3 DEF GoTo, Sessions
    <2>2. TypeOK'
        BY <1>1, <1>2, <1>3, <2>1 DEF TypeOK, Steps, server
    <2>3. \A q \in Requests : pc'[q] \in Critical => local'[q] \in Sessions
        BY <1>1, <1>2, <2>1 DEF TypeOK, WellTyped, Critical
    <2> QED
        BY <1>2, <2>1, <2>2, <2>3 DEF WellTyped
<1>4. CASE Fault /\ tmp' = Torn /\ Answer(r, "error")
    <2>1. TypeOK'
        BY <1>1, <1>2, <1>4, AnswerTypes DEF TypeOK, Fault, Answers
    <2>2. \A q \in Requests : pc'[q] \in Critical => local'[q] \in Sessions
        BY <1>1, <1>2, <1>4, AnswerTypes DEF TypeOK, WellTyped, Critical, Answers
    <2> QED
        BY <1>2, <1>4, <2>1, <2>2 DEF WellTyped
<1> QED
    BY <1>3, <1>4 DEF WriteTemporary

(* What becomes of a request whose write is through, or has failed.         *)
LEMMA ReplaceSessionTypes ==
    ASSUME WellTyped, NEW r \in Requests, ReplaceSession(r)
    PROVE  WellTyped'
<1>1. TypeOK
    BY DEF WellTyped
<1>2. /\ UNCHANGED <<local, ran, now, crashes>>
      /\ pc[r] = "replace" /\ local[r] \in Sessions
    BY DEF ReplaceSession, Undisturbed, WellTyped, Critical
<1>3. /\ session' \in Sessions \cup {Torn} /\ session' \in RepairIncidents \cup {Torn}
      /\ tmp' \in Sessions \cup {None, Torn} /\ tmp' \in RepairIncidents \cup {None, Torn}
      /\ faults' \in Nat
    BY <1>1 DEF ReplaceSession, WellTyped, TypeOK, Fault, files
<1>4. CASE GoTo(r, AfterWrite(local[r])) /\ UNCHANGED <<server, answer>>
    <2>1. /\ pc' = [pc EXCEPT ![r] = AfterWrite(local[r])]
          /\ AfterWrite(local[r]) \in {"execute", "validate", "done"}
        BY <1>4 DEF GoTo, AfterWrite
    <2>2. TypeOK'
        BY <1>1, <1>2, <1>3, <1>4, <2>1 DEF TypeOK, Steps, server
    <2>3. \A q \in Requests : pc'[q] \in Critical => local'[q] \in Sessions
        BY <1>1, <1>2, <2>1 DEF TypeOK, WellTyped, Critical
    <2> QED
        BY <1>3, <2>2, <2>3 DEF WellTyped
<1>5. CASE \E what \in Answers : Answer(r, what)
    <2>1. TypeOK'
        BY <1>1, <1>2, <1>3, <1>5, AnswerTypes DEF TypeOK
    <2>2. \A q \in Requests : pc'[q] \in Critical => local'[q] \in Sessions
        BY <1>1, <1>2, <1>5, AnswerTypes DEF TypeOK, WellTyped, Critical
    <2> QED
        BY <1>3, <2>1, <2>2 DEF WellTyped
<1> QED
    BY <1>4, <1>5 DEF ReplaceSession, Answers

LEMMA CrashTypes ==
    ASSUME WellTyped, Crash
    PROVE  WellTyped'
<1>1. TypeOK
    BY DEF WellTyped
<1>2. /\ pc' \in [Requests -> Steps] /\ \A r \in Requests : pc'[r] \notin Critical
      /\ ran' \in [Requests -> SandboxRuns \cup {None, Indeterminate}]
      /\ local' \in [Requests -> RepairIncidents \cup {None}]
    BY <1>1 DEF TypeOK, Crash, Steps, Critical
<1>3. /\ tmp' \in {tmp, Torn} /\ session' = session
      /\ service' = [r \in Requests |-> None] /\ holder' = [i \in Instances |-> None]
      /\ cached' = None /\ answer' = answer /\ now' = now /\ faults' = faults
      /\ crashes' = crashes + 1
    BY DEF Crash
<1>4. TypeOK'
    BY <1>1, <1>2, <1>3 DEF TypeOK
<1> QED
    BY <1>2, <1>3, <1>4 DEF WellTyped

LEMMA StepWellTyped == WellTyped /\ [Next]_vars => WellTyped'
<1> SUFFICES ASSUME WellTyped, [Next]_vars
             PROVE  WellTyped'
    OBVIOUS
<1>1. ASSUME NEW r \in Requests, Serve(r)
      PROVE  WellTyped'
    BY <1>1, ServiceStepTypes, AcquireLockTypes, DecideTypes, RefuseDecisionTypes,
       WriteTemporaryTypes, ReplaceSessionTypes, ExecuteRepairTypes, ValidateRepairTypes
       DEF Serve
<1>2. CASE Tick
    BY <1>2 DEF Tick, WellTyped, TypeOK, files, server
<1>3. CASE UNCHANGED vars
    BY <1>3 DEF vars, WellTyped, TypeOK, files, server
<1> QED
    BY <1>1, <1>2, <1>3, CrashTypes DEF Next

(* Every variable keeps its type, whatever requests overlap, fail or are    *)
(* cut off, with any number of instances of the service: what the API      *)
(* writes to session.json and shows in an answer is always an incident     *)
(* record.                                                                 *)
THEOREM TypeCorrect == Spec => []TypeOK
<1>1. WellTyped => TypeOK
    BY DEF WellTyped
<1> QED
    BY InitWellTyped, StepWellTyped, <1>1, PTL DEF Spec

-----------------------------------------------------------------------------
(* Serial construction: the instance that is cached is the only one in use, *)
(* and its lock lets one request at a time past AcquireLock.                *)
OneAtATime ==
    /\ \A q \in Requests : pc[q] = "construct" => cached = None
    /\ \A p, q \in Requests : pc[p] = "construct" /\ pc[q] = "construct" => p = q
    /\ \A q \in Requests : pc[q] \in {"lock"} \cup Critical =>
          /\ cached # None
          /\ service[q] = cached
    /\ \A q \in Requests : pc[q] \in Critical => holder[cached] = q

LEMMA InitOneAtATime == Init => OneAtATime
BY DEF Init, OneAtATime, Critical

LEMMA AnswerOneAtATime ==
    ASSUME TypeOK, OneAtATime, NEW r \in Requests, NEW what, Answer(r, what)
    PROVE  OneAtATime'
<1>1. /\ pc' = [pc EXCEPT ![r] = "done"] /\ cached' = cached /\ service' = service
      /\ holder' = [i \in Instances |-> IF holder[i] = r THEN None ELSE holder[i]]
    BY DEF Answer, GoTo
<1>2. \A q \in Requests : pc'[q] # "done" => pc'[q] = pc[q] /\ q # r
    BY <1>1 DEF TypeOK
<1>3. \A q \in Requests : pc'[q] \in Critical => holder'[cached] = q
    BY <1>1, <1>2 DEF OneAtATime, TypeOK, Critical
<1> QED
    BY <1>1, <1>2, <1>3 DEF OneAtATime, Critical

LEMMA StayOneAtATime ==
    ASSUME TypeOK, OneAtATime, NEW r \in Requests, pc[r] \in Critical,
           NEW step \in Critical \cup {"done"}, GoTo(r, step), UNCHANGED server
    PROVE  OneAtATime'
BY DEF TypeOK, OneAtATime, GoTo, server, Critical

LEMMA StepOneAtATime ==
    ASSUME SerialFill, TypeOK, OneAtATime, [Next]_vars
    PROVE  OneAtATime'
<1>1. ASSUME NEW r \in Requests, FindService(r)
      PROVE  OneAtATime'
    <2>1. cached' = cached /\ holder' = holder /\ pc[r] = "idle"
        BY <1>1 DEF FindService
    <2>2. CASE /\ cached # None /\ service' = [service EXCEPT ![r] = cached]
               /\ pc' = [pc EXCEPT ![r] = "lock"]
        BY <2>1, <2>2 DEF OneAtATime, TypeOK, Critical
    <2>3. CASE /\ cached = None /\ \A q \in Requests : pc[q] # "construct"
               /\ pc' = [pc EXCEPT ![r] = "construct"] /\ service' = service
        BY <2>1, <2>3 DEF OneAtATime, TypeOK, Critical
    <2> QED
        BY <1>1, <2>2, <2>3 DEF FindService, GoTo
<1>2. ASSUME NEW r \in Requests, ConstructService(r)
      PROVE  OneAtATime'
    <2>1. /\ cached = None /\ cached' = r /\ r # None /\ holder' = holder
          /\ service' = [service EXCEPT ![r] = r] /\ pc' = [pc EXCEPT ![r] = "lock"]
        BY <1>2, ServiceAssumption DEF ConstructService, OneAtATime, GoTo
    <2>2. \A q \in Requests : q # r => pc'[q] \notin {"construct", "lock"} \cup Critical
        BY <1>2, <2>1 DEF ConstructService, OneAtATime, TypeOK
    <2> QED
        BY <2>1, <2>2 DEF OneAtATime, TypeOK, Critical
<1>3. ASSUME NEW r \in Requests, AcquireLock(r)
      PROVE  OneAtATime'
    <2>1. CASE Answer(r, "error")
        BY <2>1, AnswerOneAtATime
    <2>2. CASE /\ holder' = [holder EXCEPT ![service[r]] = r] /\ GoTo(r, "decide")
               /\ UNCHANGED <<cached, service>>
        <3>1. pc[r] = "lock" /\ holder[cached] = None /\ service[r] = cached /\ cached # None
            BY <1>3 DEF AcquireLock, OneAtATime
        <3>2. \A q \in Requests : pc[q] \notin Critical
            BY <3>1, ServiceAssumption DEF OneAtATime
        <3>3. cached \in Instances
            BY <3>1 DEF TypeOK
        <3> QED
            BY <2>2, <3>1, <3>2, <3>3 DEF OneAtATime, TypeOK, GoTo, Critical
    <2> QED
        BY <1>3, <2>1, <2>2 DEF AcquireLock
<1>4. ASSUME NEW r \in Requests,
             \/ \E outcome \in {"approved", "rejected"} : Decide(r, outcome)
             \/ RefuseDecision(r)
             \/ WriteTemporary(r)
             \/ ReplaceSession(r)
             \/ ExecuteRepair(r)
             \/ ValidateRepair(r)
      PROVE  OneAtATime'
    <2>1. pc[r] \in Critical
        BY <1>4 DEF Decide, RefuseDecision, WriteTemporary, ReplaceSession, ExecuteRepair,
                    ValidateRepair, Critical
    <2>2. AfterWrite(local[r]) \in Critical \cup {"done"}
        BY DEF AfterWrite, Critical
    <2>3. \/ \E step \in Critical \cup {"done"} : GoTo(r, step) /\ UNCHANGED server
          \/ \E what : Answer(r, what)
        BY <1>4, <2>2 DEF Decide, RefuseDecision, WriteTemporary, ReplaceSession, ExecuteRepair,
                          ValidateRepair, Critical, server
    <2> QED
        BY <2>1, <2>3, StayOneAtATime, AnswerOneAtATime
<1>5. CASE Crash
    BY <1>5 DEF Crash, OneAtATime, TypeOK, Critical
<1>6. CASE Tick \/ UNCHANGED vars
    BY <1>6 DEF Tick, vars, server, OneAtATime
<1> QED
    BY <1>1, <1>2, <1>3, <1>4, <1>5, <1>6 DEF Next, Serve

-----------------------------------------------------------------------------
(* What the request in the lock holds, and how the file compares with it.   *)

Named(s, r) == s.approval.decision # None /\ s.approval.decision.id = r

(* The session in memory is one write ahead of the file.                    *)
Ahead(r) ==
    \/ /\ session.status = "AWAITING_APPROVAL"
       /\ \/ /\ local[r].status = "SANDBOX_REPAIR"
             /\ local[r].approval \in Approvals("approved")
             /\ local[r].repair.run # None
          \/ /\ local[r].status = "REJECTED"
             /\ local[r].approval \in Approvals("rejected")
    \/ /\ \/ /\ session.status = "SANDBOX_REPAIR"
             /\ local[r].status \in {"POST_VALIDATION", "TOOL_FAILED"}
          \/ /\ session.status = "POST_VALIDATION"
             /\ local[r].status \in {"RESOLVED", "VALIDATION_FAILED"}
       /\ local[r].approval = session.approval
       /\ local[r].repair.run # None
       /\ session.repair.run # None
       /\ ran[r] # None

Stage(r) ==
    /\ pc[r] \in {"decide", "execute", "validate"} => local[r] = session
    /\ pc[r] = "execute" => session.status = "SANDBOX_REPAIR" /\ session.repair.run # None
    /\ pc[r] = "validate" => /\ session.status = "POST_VALIDATION"
                             /\ session.repair.run # None
                             /\ ran[r] # None
    /\ pc[r] \in {"write", "replace"} => Ahead(r)
    /\ pc[r] = "replace" => tmp = local[r]
    /\ pc[r] \in {"write", "replace", "execute", "validate"} => Named(local[r], r)

NamedRuns ==
    \A r \in Requests : ran[r] # None => Named(session, r) /\ session.repair.run # None

Answered ==
    \A r \in Requests : answer[r] = "ok" =>
        /\ pc[r] = "done"
        /\ session = local[r]
        /\ Named(session, r)
        /\ session.status \in ClosedStatuses

Data ==
    /\ session # Torn
    /\ \A r \in Requests : Stage(r)
    /\ NamedRuns
    /\ Answered

LEMMA InitData == Init => Data
<1> SUFFICES ASSUME Init
             PROVE  Data
    OBVIOUS
<1>1. session \in Sessions
    BY StartedIsSession DEF Init
<1>2. session # Torn
    BY <1>1, ServiceAssumption DEF Sessions
<1> QED
    BY <1>2 DEF Init, Data, Stage, NamedRuns, Answered

(* A step of the request in the lock.  The file only changes while the      *)
(* incident is open, so no answer is contradicted.                         *)
LEMMA InsideTheLock ==
    ASSUME TypeOK, OneAtATime, Data, NEW r \in Requests, pc[r] \in Critical,
           \A q \in Requests \ {r} : /\ pc'[q] = pc[q] /\ local'[q] = local[q]
                                     /\ answer'[q] = answer[q],
           session' = session \/ session.status \notin ClosedStatuses,
           session' # Torn, Stage(r)', NamedRuns',
           answer'[r] = "ok" => /\ pc'[r] = "done" /\ session' = local'[r]
                                /\ Named(session', r) /\ session'.status \in ClosedStatuses
    PROVE  Data'
<1>1. \A q \in Requests \ {r} : pc'[q] \notin Critical
    BY DEF OneAtATime
<1>2. \A q \in Requests : Stage(q)'
    BY <1>1 DEF Stage, Critical
<1>3. Answered'
    BY DEF Data, Answered
<1> QED
    BY <1>2, <1>3 DEF Data

(* A request that only takes or leaves the lock.                            *)
LEMMA OutsideTheLock ==
    ASSUME TypeOK, Data, NEW r \in Requests, NEW step \in Steps \ Critical, GoTo(r, step),
           UNCHANGED <<session, tmp, local, ran>>,
           \/ answer' = answer /\ pc[r] # "done"
           \/ answer' = [answer EXCEPT ![r] = "error"]
    PROVE  Data'
<1>1. pc' = [pc EXCEPT ![r] = step]
    BY DEF GoTo
<1>2. \A q \in Requests : Stage(q)'
    <2> SUFFICES ASSUME NEW q \in Requests
                 PROVE  Stage(q)'
        OBVIOUS
    <2>1. pc'[q] = pc[q] \/ pc'[q] \notin Critical
        BY <1>1 DEF TypeOK
    <2>2. Stage(q)
        BY DEF Data
    <2> QED
        BY <2>1, <2>2 DEF Stage, Ahead, Named, Critical
<1>3. NamedRuns'
    BY DEF Data, NamedRuns, Named
<1>4. Answered'
    BY <1>1 DEF Data, Answered, Named, TypeOK
<1> QED
    BY <1>2, <1>3, <1>4 DEF Data

LEMMA OutsideKeepsData ==
    ASSUME WellTyped, OneAtATime, Data, NEW r \in Requests,
           FindService(r) \/ ConstructService(r) \/ AcquireLock(r)
    PROVE  Data'
<1>1. TypeOK
    BY DEF WellTyped
<1>2. CASE FindService(r) \/ ConstructService(r)
    <2>1. /\ UNCHANGED <<session, tmp, local, ran>> /\ answer' = answer
          /\ pc[r] # "done" /\ \E step \in {"lock", "construct"} : GoTo(r, step)
        BY <1>2 DEF FindService, ConstructService, files
    <2> QED
        BY <1>1, <2>1, OutsideTheLock DEF Steps, Critical
<1>3. CASE AcquireLock(r) /\ Answer(r, "error") /\ local' = local
    <2>1. UNCHANGED <<session, tmp, ran>>
        BY <1>3 DEF AcquireLock, files
    <2> QED
        BY <1>1, <1>3, <2>1, OutsideTheLock DEF Answer, Steps, Critical
<1>4. CASE AcquireLock(r) /\ GoTo(r, "decide") /\ Hold(r, session) /\ answer' = answer
    <2>1. /\ UNCHANGED <<session, tmp, ran>> /\ pc[r] = "lock"
          /\ pc' = [pc EXCEPT ![r] = "decide"] /\ local' = [local EXCEPT ![r] = session]
        BY <1>4 DEF AcquireLock, files, GoTo, Hold
    <2>2. Stage(r)'
        BY <1>1, <2>1 DEF Stage, TypeOK
    <2>3. \A q \in Requests \ {r} : Stage(q)'
        BY <1>1, <2>1 DEF Data, Stage, Ahead, Named, TypeOK
    <2>4. NamedRuns'
        BY <2>1 DEF Data, NamedRuns, Named
    <2>5. Answered'
        BY <1>1, <1>4, <2>1 DEF Data, Answered, Named, TypeOK
    <2> QED
        BY <2>1, <2>2, <2>3, <2>4, <2>5 DEF Data
<1> QED
    BY <1>2, <1>3, <1>4 DEF AcquireLock

(* A request that gives up inside the lock leaves the file as it is.        *)
LEMMA GiveUpKeepsData ==
    ASSUME WellTyped, OneAtATime, Data, NEW r \in Requests, pc[r] \in Critical,
           NEW what \in {"conflict", "error"}, Answer(r, what), local' = local,
           session' = session, NamedRuns'
    PROVE  Data'
<1>1. pc' = [pc EXCEPT ![r] = "done"] /\ answer' = [answer EXCEPT ![r] = what]
    BY DEF Answer, GoTo
<1>2. Stage(r)'
    BY <1>1 DEF Stage, WellTyped, TypeOK
<1> QED
    BY <1>1, <1>2, InsideTheLock DEF WellTyped, TypeOK, Data

LEMMA DecideKeepsData ==
    ASSUME WellTyped, OneAtATime, Data, NEW r \in Requests,
           NEW outcome \in {"approved", "rejected"}, Decide(r, outcome)
    PROVE  Data'
<1>1. PICK t \in Sessions :
          /\ local' = [local EXCEPT ![r] = t]
          /\ local[r].status = "AWAITING_APPROVAL"
          /\ t.status = IF outcome = "approved" THEN "SANDBOX_REPAIR" ELSE "REJECTED"
          /\ t.approval.decision # None /\ t.approval.decision.id = r
          /\ t.approval \in Approvals(outcome)
          /\ outcome = "approved" => t.repair.run # None
    BY DecidedIsSession
<1>2. /\ pc[r] = "decide" /\ pc' = [pc EXCEPT ![r] = "write"]
      /\ session' = session /\ answer' = answer /\ ran' = ran
    BY DEF Decide, GoTo, files
<1>3. local[r] = session /\ answer[r] # "ok"
    BY <1>2 DEF Data, Stage, Answered
<1>4. local'[r] = t /\ pc'[r] = "write"
    BY <1>1, <1>2 DEF WellTyped, TypeOK
<1>5. Stage(r)'
    BY <1>1, <1>2, <1>3, <1>4 DEF Stage, Ahead, Named
<1>6. NamedRuns'
    BY <1>2 DEF Data, NamedRuns, Named
<1> QED
    BY <1>1, <1>2, <1>3, <1>5, <1>6, InsideTheLock DEF Data, Critical, WellTyped, TypeOK

LEMMA RefuseDecisionKeepsData ==
    ASSUME WellTyped, OneAtATime, Data, NEW r \in Requests, RefuseDecision(r)
    PROVE  Data'
<1>1. /\ pc[r] \in Critical /\ local' = local /\ session' = session /\ ran' = ran
      /\ \E what \in {"conflict", "error"} : Answer(r, what)
    BY DEF RefuseDecision, Critical, files
<1>2. NamedRuns'
    BY <1>1 DEF Data, NamedRuns, Named
<1> QED
    BY <1>1, <1>2, GiveUpKeepsData

LEMMA WriteTemporaryKeepsData ==
    ASSUME WellTyped, OneAtATime, Data, NEW r \in Requests, WriteTemporary(r)
    PROVE  Data'
<1>1. pc[r] = "write" /\ local' = local /\ session' = session /\ ran' = ran
    BY DEF WriteTemporary
<1>2. NamedRuns'
    BY <1>1 DEF Data, NamedRuns, Named
<1>3. CASE tmp' = local[r] /\ GoTo(r, "replace") /\ UNCHANGED <<server, answer, faults>>
    <2>1. pc' = [pc EXCEPT ![r] = "replace"] /\ pc'[r] = "replace" /\ answer' = answer
        BY <1>3 DEF GoTo, WellTyped, TypeOK
    <2>2. Ahead(r) /\ Named(local[r], r) /\ answer[r] # "ok"
        BY <1>1 DEF Data, Stage, Answered
    <2>3. Stage(r)'
        BY <1>1, <1>3, <2>1, <2>2 DEF Stage, Ahead, Named
    <2> QED
        BY <1>1, <1>2, <2>1, <2>2, <2>3, InsideTheLock DEF Data, Critical, WellTyped, TypeOK
<1>4. CASE Answer(r, "error")
    BY <1>1, <1>2, <1>4, GiveUpKeepsData DEF Critical
<1> QED
    BY <1>3, <1>4 DEF WriteTemporary

LEMMA ExecuteRepairKeepsData ==
    ASSUME WellTyped, OneAtATime, Data, NEW r \in Requests, ExecuteRepair(r)
    PROVE  Data' /\ ran'[r] # None /\ \A q \in Requests \ {r} : ran'[q] = ran[q]
<1>1. pc[r] = "execute" /\ session' = session /\ TypeOK
    BY DEF ExecuteRepair, files, WellTyped
<1>2. /\ local[r] = session /\ session.status = "SANDBOX_REPAIR" /\ session.repair.run # None
      /\ Named(session, r) /\ answer[r] # "ok"
    BY <1>1 DEF Data, Stage, Answered
<1>3. ASSUME ran'[r] # None, \A q \in Requests \ {r} : ran'[q] = ran[q]
      PROVE  NamedRuns'
    BY <1>1, <1>2, <1>3 DEF Data, NamedRuns, Named
<1>4. CASE GoTo(r, "write") /\ UNCHANGED <<server, answer, faults>>
    <2>1. pc' = [pc EXCEPT ![r] = "write"] /\ pc'[r] = "write"
        BY <1>1, <1>4, GoToTypes DEF GoTo, Steps
    <2>2. PICK t \in Sessions :
              /\ local' = [local EXCEPT ![r] = t]
              /\ t.status \in {"POST_VALIDATION", "TOOL_FAILED"}
              /\ t.approval = local[r].approval
              /\ t.repair.run # None
              /\ ran' = [ran EXCEPT ![r] = t.repair.run]
        BY <2>1, RepairedIsSession
    <2>3. /\ local'[r] = t /\ ran'[r] = t.repair.run
          /\ \A q \in Requests \ {r} : ran'[q] = ran[q]
        BY <1>1, <2>2 DEF TypeOK
    <2>4. Stage(r)'
        BY <1>1, <1>2, <2>1, <2>2, <2>3 DEF Stage, Ahead, Named
    <2>5. Data'
        BY <1>1, <1>2, <1>3, <1>4, <2>1, <2>2, <2>3, <2>4, InsideTheLock
           DEF Data, Critical, TypeOK
    <2> QED
        BY <2>2, <2>3, <2>5
<1>5. CASE ran' = [ran EXCEPT ![r] = Indeterminate] /\ Answer(r, "error") /\ local' = local
    <2>1. ran'[r] # None /\ \A q \in Requests \ {r} : ran'[q] = ran[q]
        BY <1>1, <1>5, ServiceAssumption DEF TypeOK
    <2> QED
        BY <1>1, <1>3, <1>5, <2>1, GiveUpKeepsData DEF Critical
<1> QED
    BY <1>4, <1>5 DEF ExecuteRepair

LEMMA ValidateRepairKeepsData ==
    ASSUME WellTyped, OneAtATime, Data, NEW r \in Requests, ValidateRepair(r)
    PROVE  Data'
<1>1. pc[r] = "validate" /\ session' = session /\ ran' = ran /\ TypeOK
    BY DEF ValidateRepair, files, WellTyped
<1>2. NamedRuns'
    BY <1>1 DEF Data, NamedRuns, Named
<1>3. /\ local[r] = session /\ session.status = "POST_VALIDATION" /\ session.repair.run # None
      /\ Named(session, r) /\ ran[r] # None /\ answer[r] # "ok"
    BY <1>1 DEF Data, Stage, Answered
<1>4. CASE GoTo(r, "write") /\ UNCHANGED <<server, answer, faults>>
    <2>1. pc' = [pc EXCEPT ![r] = "write"] /\ pc'[r] = "write"
        BY <1>1, <1>4, GoToTypes DEF GoTo, Steps
    <2>2. PICK t \in Sessions :
              /\ local' = [local EXCEPT ![r] = t]
              /\ t.status \in {"RESOLVED", "VALIDATION_FAILED"}
              /\ t.approval = local[r].approval
              /\ t.repair.run # None
        BY <2>1, ValidatedIsSession
    <2>3. local'[r] = t
        BY <1>1, <2>2 DEF TypeOK
    <2>4. Stage(r)'
        BY <1>1, <1>3, <2>1, <2>2, <2>3 DEF Stage, Ahead, Named
    <2> QED
        BY <1>1, <1>2, <1>3, <1>4, <2>1, <2>2, <2>4, InsideTheLock DEF Data, Critical, TypeOK
<1>5. CASE Answer(r, "error") /\ local' = local
    BY <1>1, <1>2, <1>5, GiveUpKeepsData DEF Critical
<1> QED
    BY <1>4, <1>5 DEF ValidateRepair

LEMMA AheadKeepsRuns ==
    ASSUME WellTyped, Data, NEW r \in Requests, Ahead(r), session \in Sessions,
           Named(local[r], r), session' = local[r], ran' = ran
    PROVE  NamedRuns'
<1>1. CASE session.status = "AWAITING_APPROVAL"
    <2>1. session.approval.decision = None
        BY <1>1 DEF Sessions, Lawful, EarlyIsBare, Early, NoApproval
    <2> QED
        BY <2>1 DEF Data, NamedRuns, Named
<1>2. CASE session.status # "AWAITING_APPROVAL"
    BY <1>2 DEF Ahead, Data, NamedRuns, Named
<1> QED
    BY <1>1, <1>2

(* The rename makes the file what the request in the lock holds, and tells  *)
(* it how to go on.                                                        *)
LEMMA ReplaceSessionKeepsData ==
    ASSUME WellTyped, OneAtATime, Data, NEW r \in Requests, ReplaceSession(r)
    PROVE  Data'
<1>1. pc[r] = "replace" /\ local' = local /\ ran' = ran /\ TypeOK
    BY DEF ReplaceSession, WellTyped
<1>2. /\ Ahead(r) /\ Named(local[r], r) /\ answer[r] # "ok" /\ tmp = local[r]
      /\ local[r] \in Sessions /\ session \in Sessions
    BY <1>1 DEF Data, Stage, Answered, WellTyped, Critical
<1>3. local[r] # Torn /\ session.status \notin ClosedStatuses
    BY <1>2, ServiceAssumption DEF Sessions, Ahead, ClosedStatuses
<1>4. CASE session' = tmp /\ answer' = answer /\ GoTo(r, AfterWrite(local[r]))
           /\ AfterWrite(local[r]) # "done"
    <2>1. /\ pc'[r] = AfterWrite(local[r])
          /\ \A q \in Requests \ {r} : pc'[q] = pc[q]
        BY <1>1, <1>4 DEF GoTo, TypeOK
    <2>2. \/ local[r].status = "SANDBOX_REPAIR" /\ pc'[r] = "execute"
          \/ local[r].status = "POST_VALIDATION" /\ pc'[r] = "validate"
        BY <1>4, <2>1 DEF AfterWrite
    <2>3. Stage(r)'
        BY <1>1, <1>2, <1>4, <2>2 DEF Stage, Ahead, Named
    <2>4. NamedRuns'
        BY <1>1, <1>2, <1>4, <2>2, AheadKeepsRuns
    <2> QED
        BY <1>1, <1>2, <1>3, <1>4, <2>1, <2>3, <2>4, InsideTheLock DEF Critical
<1>5. CASE session' = tmp /\ Answer(r, "ok") /\ AfterWrite(local[r]) = "done"
    <2>1. pc' = [pc EXCEPT ![r] = "done"] /\ answer' = [answer EXCEPT ![r] = "ok"]
        BY <1>5 DEF Answer, GoTo
    <2>2. local[r].status \in ClosedStatuses
        BY <1>2, <1>5 DEF Ahead, AfterWrite, ClosedStatuses
    <2>3. Stage(r)'
        BY <1>1, <2>1 DEF Stage, TypeOK
    <2>4. NamedRuns'
        BY <1>1, <1>2, <1>5, AheadKeepsRuns
    <2> QED
        BY <1>1, <1>2, <1>3, <1>5, <2>1, <2>2, <2>3, <2>4, InsideTheLock DEF Critical, TypeOK
<1>6. CASE session' = session /\ Answer(r, "error")
    <2>1. NamedRuns'
        BY <1>1, <1>6 DEF Data, NamedRuns, Named
    <2> QED
        BY <1>1, <1>6, <2>1, GiveUpKeepsData DEF Critical
<1> QED
    BY <1>4, <1>5, <1>6 DEF ReplaceSession, files, server

LEMMA CrashKeepsData ==
    ASSUME WellTyped, Data, Crash
    PROVE  Data'
<1>1. TypeOK /\ session' = session /\ answer' = answer
    BY DEF WellTyped, Crash
<1>2. \A r \in Requests : pc'[r] = IF pc[r] = "idle" THEN "idle" ELSE "done"
    BY DEF Crash
<1>3. \A r \in Requests : Stage(r)'
    BY <1>2 DEF Stage
<1>4. NamedRuns'
    BY <1>1 DEF Crash, Data, NamedRuns, Stage, Named
<1>5. Answered'
    BY <1>1, <1>2 DEF Crash, Data, Answered, Named
<1> QED
    BY <1>1, <1>3, <1>4, <1>5 DEF Data

LEMMA StepData ==
    ASSUME WellTyped, OneAtATime, Data, [Next]_vars
    PROVE  Data'
<1>1. ASSUME NEW r \in Requests, Serve(r)
      PROVE  Data'
    BY <1>1, OutsideKeepsData, DecideKeepsData, RefuseDecisionKeepsData, WriteTemporaryKeepsData,
       ReplaceSessionKeepsData, ExecuteRepairKeepsData, ValidateRepairKeepsData
       DEF Serve
<1>2. CASE Tick \/ UNCHANGED vars
    BY <1>2 DEF Tick, vars, files, server, Data, Stage, Ahead, Named, NamedRuns, Answered
<1> QED
    BY <1>1, <1>2, CrashKeepsData DEF Next

Inv == WellTyped /\ OneAtATime /\ Data

LEMMA InvHolds ==
    ASSUME SerialFill
    PROVE  Spec => []Inv
<1>1. Init => Inv
    BY InitWellTyped, InitOneAtATime, InitData DEF Inv
<1>2. Inv /\ [Next]_vars => Inv'
    BY StepWellTyped, StepOneAtATime, StepData DEF Inv, WellTyped
<1> QED
    BY <1>1, <1>2, PTL DEF Spec

(* If services are constructed one at a time, at most one run is executed   *)
(* for the incident, and session.json names it and the decision that        *)
(* allowed it, through any overlap of requests, failed writes and stops.    *)
THEOREM RepairedOnceHolds ==
    ASSUME SerialFill
    PROVE  Spec => []RepairedOnce
<1>1. ASSUME Inv, Executed # {}
      PROVE  /\ Readable /\ session.repair.run # None
             /\ {session.approval.decision.id} = Executed
             /\ {session.repair.run.id} = Executed
    <2>1. PICK r \in Requests : ran[r] # None
        BY <1>1 DEF Executed
    <2>2. session \in Sessions
        BY <1>1 DEF Inv, Data, WellTyped
    <2>3. Named(session, r) /\ session.repair.run # None
        BY <1>1, <2>1 DEF Inv, Data, NamedRuns
    <2>4. \A q \in Executed : q = r
        BY <1>1, <2>3 DEF Executed, Inv, Data, NamedRuns, Named
    <2>5. session.repair.run.id = r
        BY <2>2, <2>3 DEF Sessions, OwnRun, Named
    <2> QED
        BY <1>1, <2>1, <2>2, <2>3, <2>4, <2>5 DEF Readable, Named, Executed, Inv, Data
<1>2. Inv => RepairedOnce
    BY <1>1 DEF RepairedOnce
<1> QED
    BY <1>2, InvHolds, PTL

(* What a 200 answer showed is what session.json says ever after: the       *)
(* decision of that request and the end it came to, whatever other          *)
(* requests, failed writes and stops follow.                               *)
THEOREM AnsweredStandsHolds ==
    ASSUME SerialFill
    PROVE  Spec => []AnsweredStands
<1>1. Inv => AnsweredStands
    BY DEF Inv, Data, Answered, AnsweredStands, Named
<1> QED
    BY <1>1, InvHolds, PTL

-----------------------------------------------------------------------------
(* The session file and the runs, seen as the approval gate.                *)

bars == <<decisionBar, Executed # {}, verdictBar>>

LEMMA FileShowsGate ==
    ASSUME Data
    PROVE  /\ decisionBar = session.approval
           /\ verdictBar = IF session.status \notin ClosedStatuses THEN "open"
                           ELSE IF session.status = "RESOLVED" THEN "resolved" ELSE "closed"
BY DEF Data, decisionBar, verdictBar, Readable

(* A session with a run has an approved decision.                          *)
LEMMA RunIsGranted ==
    ASSUME NEW s \in Sessions, s.repair.run # None
    PROVE  s.approval \in Approvals("approved")
<1>1. s.approval.status = "approved" /\ s.approval.decision \in Decisions
    BY DEF Sessions, RepairIncidents, Lawful, RunIsBound
<1>2. s.approval = [status |-> s.approval.status, decision |-> s.approval.decision]
    BY DEF Sessions, RepairIncidents
<1> QED
    BY <1>1, <1>2 DEF Approvals

LEMMA UnseenSimulates ==
    ASSUME Data, Data', session' = session, ran' = ran
    PROVE  UNCHANGED bars
BY FileShowsGate DEF bars, Executed, decisionBar, verdictBar, Readable

(* A run that begins, or may have begun when the process stopped.           *)
LEMMA RunSimulates ==
    ASSUME Inv, Data', session' = session,
           NEW r \in Requests, pc[r] = "execute", ran'[r] # None
    PROVE  Gate!Repair
<1>1. session.status = "SANDBOX_REPAIR" /\ session.repair.run # None /\ session \in Sessions
    BY DEF Inv, Data, Stage, WellTyped
<1>2. decisionBar \in Approvals("approved") /\ verdictBar = "open"
    BY <1>1, RunIsGranted, FileShowsGate DEF Inv, ClosedStatuses
<1>3. decisionBar' = decisionBar /\ verdictBar' = verdictBar
    BY DEF decisionBar, verdictBar, Readable
<1>4. (Executed # {})' = TRUE
    BY DEF Executed
<1> QED
    BY <1>2, <1>3, <1>4 DEF Gate!Repair

(* The rename of a session that is one write ahead.                         *)
LEMMA RenameSimulates ==
    ASSUME Inv, Data', NEW r \in Requests, pc[r] = "replace",
           session' = tmp, ran' = ran
    PROVE  [Gate!Next]_bars
<1>1. /\ Ahead(r) /\ session' = local[r] /\ local[r] \in Sessions /\ session \in Sessions
      /\ Data
    BY DEF Inv, Data, Stage, WellTyped, Critical
<1>2. decisionBar = session.approval /\ decisionBar' = local[r].approval
    BY <1>1, FileShowsGate DEF Data, decisionBar, Readable
<1>3. verdictBar = "open"
    BY <1>1, FileShowsGate DEF Ahead, ClosedStatuses
<1>4. verdictBar' = IF local[r].status \notin ClosedStatuses THEN "open"
                    ELSE IF local[r].status = "RESOLVED" THEN "resolved" ELSE "closed"
    BY <1>1 DEF Data, verdictBar, Readable
<1>5. (Executed # {})' = (Executed # {})
    BY DEF Executed
<1>6. CASE session.status = "AWAITING_APPROVAL"
    <2>1. decisionBar = NoApproval
        BY <1>1, <1>2, <1>6 DEF Sessions, Lawful, EarlyIsBare, Early
    <2>2. CASE local[r].status = "SANDBOX_REPAIR" /\ local[r].approval \in Approvals("approved")
        BY <1>2, <1>3, <1>4, <1>5, <2>1, <2>2 DEF Gate!Grant, Gate!Next, ClosedStatuses
    <2>3. CASE local[r].status = "REJECTED" /\ local[r].approval \in Approvals("rejected")
        BY <1>2, <1>3, <1>4, <1>5, <2>1, <2>3 DEF Gate!Refuse, Gate!Next, ClosedStatuses
    <2> QED
        BY <1>1, <1>6, <2>2, <2>3 DEF Ahead
<1>7. CASE session.status # "AWAITING_APPROVAL"
    <2>1. /\ local[r].approval = session.approval /\ session.repair.run # None
          /\ ran[r] # None
          /\ local[r].status \in {"POST_VALIDATION", "TOOL_FAILED", "RESOLVED",
                                  "VALIDATION_FAILED"}
        BY <1>1, <1>7 DEF Ahead
    <2>2. decisionBar \in Approvals("approved") /\ decisionBar' = decisionBar
        BY <1>1, <1>2, <2>1, RunIsGranted
    <2>3. Executed # {}
        BY <2>1 DEF Executed
    <2>4. CASE local[r].status = "POST_VALIDATION"
        <3>1. verdictBar' = verdictBar
            BY <1>3, <1>4, <2>4 DEF ClosedStatuses
        <3> QED
            BY <1>5, <2>2, <3>1 DEF bars
    <2>5. CASE local[r].status = "RESOLVED"
        <3>1. verdictBar' = "resolved"
            BY <1>4, <2>5 DEF ClosedStatuses
        <3> QED
            BY <1>3, <1>5, <2>2, <2>3, <3>1 DEF Gate!Resolve, Gate!Next
    <2>6. CASE local[r].status \in {"TOOL_FAILED", "VALIDATION_FAILED"}
        <3>1. verdictBar' = "closed"
            BY <1>4, <2>6 DEF ClosedStatuses
        <3> QED
            BY <1>3, <1>5, <2>2, <3>1 DEF Gate!GiveUp, Gate!Next
    <2> QED
        BY <2>1, <2>4, <2>5, <2>6
<1> QED
    BY <1>6, <1>7

LEMMA StepSimulates ==
    ASSUME Inv, Inv', [Next]_vars
    PROVE  [Gate!Next]_bars
<1>1. Data /\ Data' /\ TypeOK
    BY DEF Inv, WellTyped
<1>2. ASSUME NEW r \in Requests, Serve(r)
      PROVE  [Gate!Next]_bars
    <2>1. CASE \/ FindService(r) \/ ConstructService(r) \/ AcquireLock(r)
               \/ \E outcome \in {"approved", "rejected"} : Decide(r, outcome)
               \/ RefuseDecision(r) \/ WriteTemporary(r) \/ ValidateRepair(r)
        <3>1. session' = session /\ ran' = ran
            BY <2>1 DEF FindService, ConstructService, AcquireLock, Decide, RefuseDecision,
                        WriteTemporary, ValidateRepair, files
        <3> QED
            BY <1>1, <3>1, UnseenSimulates
    <2>2. CASE ReplaceSession(r)
        <3>1. pc[r] = "replace" /\ ran' = ran /\ (session' = tmp \/ session' = session)
            BY <2>2 DEF ReplaceSession, files
        <3> QED
            BY <1>1, <3>1, RenameSimulates, UnseenSimulates
    <2>3. CASE ExecuteRepair(r)
        <3>1. session' = session /\ pc[r] = "execute"
            BY <2>3 DEF ExecuteRepair, files
        <3>2. ran'[r] # None
            BY <2>3, ExecuteRepairKeepsData DEF Inv
        <3> QED
            BY <1>1, <3>1, <3>2, RunSimulates DEF Gate!Next
    <2> QED
        BY <1>2, <2>1, <2>2, <2>3 DEF Serve
<1>3. CASE Crash
    <2>1. session' = session
        BY <1>3 DEF Crash
    <2>2. CASE \E r \in Requests : pc[r] = "execute" /\ ran[r] = None
        <3>1. PICK r \in Requests : pc[r] = "execute" /\ ran[r] = None
            BY <2>2
        <3>2. ran'[r] # None
            BY <1>3, <3>1, ServiceAssumption DEF Crash
        <3> QED
            BY <1>1, <2>1, <3>1, <3>2, RunSimulates DEF Gate!Next
    <2>3. CASE \A r \in Requests : ~(pc[r] = "execute" /\ ran[r] = None)
        <3>1. ran' = [r \in Requests |-> ran[r]]
            BY <1>3, <2>3 DEF Crash
        <3>2. ran' = ran
            BY <1>1, <3>1 DEF TypeOK
        <3> QED
            BY <1>1, <2>1, <3>2, UnseenSimulates
    <2> QED
        BY <2>2, <2>3
<1>4. CASE Tick \/ UNCHANGED vars
    <2>1. session' = session /\ ran' = ran
        BY <1>4 DEF Tick, vars, files
    <2> QED
        BY <1>1, <2>1, UnseenSimulates
<1> QED
    BY <1>2, <1>3, <1>4 DEF Next

(* If services are constructed one at a time, session.json and the runs     *)
(* show the approval gate: one decision that stands, a run only under one   *)
(* that approves and is on file, RESOLVED only after a run.                 *)
THEOREM RefinesApprovalGate ==
    ASSUME SerialFill
    PROVE  Spec => ImplementsApprovalGate
<1>1. Init => Gate!Init
    <2> SUFFICES ASSUME Init
                 PROVE  Gate!Init
        OBVIOUS
    <2>1. session \in Sessions /\ session.status = "AWAITING_APPROVAL"
        BY StartedIsSession DEF Init
    <2>2. decisionBar = NoApproval /\ verdictBar = "open"
        BY <2>1, InitData, FileShowsGate
           DEF Sessions, Lawful, EarlyIsBare, Early, ClosedStatuses
    <2>3. (Executed # {}) = FALSE
        BY DEF Init, Executed
    <2> QED
        BY <2>2, <2>3 DEF Gate!Init
<1>2. Inv /\ Inv' /\ [Next]_vars => [Gate!Next]_bars
    BY StepSimulates
<1>3. [Gate!Next]_bars => [Gate!Next]_<<decisionBar, Executed # {}, verdictBar>>
    BY DEF bars
<1> QED
    BY <1>1, <1>2, <1>3, InvHolds, PTL DEF Spec, ImplementsApprovalGate, Gate!Spec
=============================================================================
