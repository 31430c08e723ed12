------------------------ MODULE RepairIncidentProofs ------------------------
(***************************************************************************)
(* What every operation of the graph makes of a lawful incident record,    *)
(* for any evidence, proposal, decision, run and verdict.  A record is     *)
(* lawful when each of its artifacts is there only with the ones it rests  *)
(* on, and bound to them.  One lemma per operation: it keeps the type and  *)
(* the law.                                                                *)
(***************************************************************************)
EXTENDS RepairIncident, TLAPS

Early == {"ROOT_CAUSE_FOUND", "FIX_PROPOSED", "AWAITING_APPROVAL"}

(* Nothing is decided or repaired before a proposal awaits approval.        *)
EarlyIsBare(s) ==
    /\ s.status \in Early => s.approval = NoApproval /\ s.repair = NoRepair
    /\ s.status = "ROOT_CAUSE_FOUND" => s.proposal = None

(* A typed proposal is the diagnosis' own, a decision is the proposal's.    *)
DecisionIsBound(s) ==
    /\ Typed(s) => BoundToDiagnosis(s, s.proposal)
    /\ s.approval.decision # None => Typed(s) /\ ApprovalHolds(s)

(* A run is there only under the decision that approved it.                 *)
RunIsBound(s) ==
    s.repair.run # None =>
        /\ Typed(s)
        /\ s.approval.decision # None
        /\ s.approval.status = "approved"
        /\ s.repair.run.proposal = s.proposal
        /\ s.repair.run.decision = s.approval.decision.id

(* How far a typed repair has come.                                        *)
StageIsReached(s) ==
    /\ s.repair.status = "pending" => s.repair.run # None
    /\ s.repair.check = "passed" => s.status = "RESOLVED" /\ s.repair.run # None
    /\ Typed(s) =>
          /\ s.status = "SANDBOX_REPAIR" =>
                /\ s.approval.decision # None
                /\ s.approval.status = "approved"
                /\ s.repair.run # None => s.repair.run.status = "pending"
          /\ s.status \in {"POST_VALIDATION", "RESOLVED"} =>
                /\ s.repair.run # None
                /\ s.repair.run.status = "succeeded"
          /\ s.status = "RESOLVED" => s.repair.check = "passed"

Lawful(s) == EarlyIsBare(s) /\ DecisionIsBound(s) /\ RunIsBound(s) /\ StageIsReached(s)

-----------------------------------------------------------------------------
LEMMA DiagnosedIsLawful ==
    ASSUME NEW cause \in Causes, NEW support \in SUBSET Evidence, NEW evidence \in SUBSET Evidence
    PROVE  /\ DiagnosedIncident(cause, support, evidence) \in RepairIncidents
           /\ Lawful(DiagnosedIncident(cause, support, evidence))
BY DEF DiagnosedIncident, RepairIncidents, RepairStatuses, NoApproval, NoRepair,
       Lawful, EarlyIsBare, DecisionIsBound, RunIsBound, StageIsReached, Typed, Early

(* The builder only builds what the graph accepts.                         *)
LEMMA BuiltIsProposal ==
    ASSUME NEW s \in RepairIncidents, NEW now \in Nat, Buildable(s)
    PROVE  Built(s, now) \in Proposals
<1>1. PICK shown \in Partitions : shown \in ShownMissing(s)
    BY DEF Buildable, ShownMissing
<1>2. (CHOOSE p \in ShownMissing(s) : TRUE) \in Partitions
    <2>1. (CHOOSE p \in ShownMissing(s) : TRUE) \in ShownMissing(s)
        BY <1>1
    <2> QED
        BY <2>1 DEF ShownMissing
<1>3. now + ProposalTtl \in Nat /\ This \in Incidents
    BY RepairAssumption
<1> QED
    BY <1>2, <1>3 DEF Built, Proposals, RepairIncidents

(* What RepairProposalBuilder.build returns for an incident, propose_fix    *)
(* takes: the two check the same contract in different words.              *)
THEOREM BuiltIsAccepted ==
    ASSUME NEW s \in RepairIncidents, NEW now \in Nat, Buildable(s)
    PROVE  CanPropose(s, Built(s, now))
<1> DEFINE p == Built(s, now)
<1>1. /\ p.incident = This /\ p.cause = s.cause /\ p.support = s.support
      /\ p.created = now /\ p.until = now + ProposalTtl
    BY DEF Built
<1>2. \E e, f \in s.support : SourceOf[e] # SourceOf[f]
    <2>1. PICK e \in s.support : SourceOf[e] = "business_data"
        BY DEF Buildable, SourcesOf
    <2>2. PICK f \in s.support : SourceOf[f] = "operational_metadata"
        BY DEF Buildable, SourcesOf
    <2> QED
        BY <2>1, <2>2
<1>3. WellFormed(p)
    BY <1>1, <1>2, RepairAssumption DEF WellFormed
<1>4. s.support \subseteq s.evidence /\ s.status = "ROOT_CAUSE_FOUND"
    BY DEF Buildable
<1> HIDE DEF p
<1>5. CanPropose(s, p)
    BY <1>1, <1>3, <1>4 DEF CanPropose, BoundToDiagnosis
<1> QED
    BY <1>5 DEF p

-----------------------------------------------------------------------------
(* One lemma per operation.                                                *)

LEMMA ProposedIsLawful ==
    ASSUME NEW s \in RepairIncidents, Lawful(s),
           NEW p \in Proposals \cup {Untyped}, CanPropose(s, p)
    PROVE  /\ Proposed(s, p) \in RepairIncidents
           /\ Lawful(Proposed(s, p))
<1> DEFINE t == Proposed(s, p)
<1>1. /\ t.status = "FIX_PROPOSED" /\ t.proposal = p
      /\ t.cause = s.cause /\ t.support = s.support /\ t.evidence = s.evidence
      /\ t.approval = s.approval /\ t.repair = s.repair
      /\ t \in RepairIncidents
    BY DEF Proposed, RepairIncidents, RepairStatuses
<1>2. s.approval = NoApproval /\ s.repair = NoRepair
    BY DEF CanPropose, Lawful, EarlyIsBare, Early
<1>3. Typed(t) => BoundToDiagnosis(t, t.proposal)
    BY <1>1 DEF CanPropose, BoundToDiagnosis, Typed
<1> HIDE DEF t
<1>4. Lawful(t)
    BY <1>1, <1>2, <1>3 DEF Lawful, EarlyIsBare, DecisionIsBound, RunIsBound, StageIsReached,
                            NoApproval, NoRepair
<1> QED
    BY <1>1, <1>4 DEF t

LEMMA AwaitingIsLawful ==
    ASSUME NEW s \in RepairIncidents, Lawful(s), CanAwait(s)
    PROVE  /\ Awaiting(s) \in RepairIncidents
           /\ Lawful(Awaiting(s))
<1> DEFINE t == Awaiting(s)
<1>1. /\ t.status = "AWAITING_APPROVAL" /\ t.proposal = s.proposal
      /\ t.cause = s.cause /\ t.support = s.support /\ t.evidence = s.evidence
      /\ t.approval = s.approval /\ t.repair = s.repair
      /\ t \in RepairIncidents
    BY DEF Awaiting, RepairIncidents, RepairStatuses
<1>2. s.approval = NoApproval /\ s.repair = NoRepair
    BY DEF CanAwait, Lawful, EarlyIsBare, Early
<1>3. Typed(t) => BoundToDiagnosis(t, t.proposal)
    BY <1>1 DEF Lawful, DecisionIsBound, BoundToDiagnosis, Typed
<1> HIDE DEF t
<1>4. Lawful(t)
    BY <1>1, <1>2, <1>3 DEF Lawful, EarlyIsBare, DecisionIsBound, RunIsBound, StageIsReached,
                            NoApproval, NoRepair
<1> QED
    BY <1>1, <1>4 DEF t

LEMMA ApprovalRecordedIsLawful ==
    ASSUME NEW s \in RepairIncidents, Lawful(s), NEW d \in Decisions, NEW now,
           CanRecordApproval(s, d, now)
    PROVE  /\ ApprovalRecorded(s, d.outcome, d) \in RepairIncidents
           /\ Lawful(ApprovalRecorded(s, d.outcome, d))
<1> DEFINE t == ApprovalRecorded(s, d.outcome, d)
<1>1. /\ t.status = IF d.outcome = "approved" THEN "SANDBOX_REPAIR" ELSE "REJECTED"
      /\ t.proposal = s.proposal /\ t.repair = s.repair
      /\ t.cause = s.cause /\ t.support = s.support /\ t.evidence = s.evidence
      /\ t.approval = [status |-> d.outcome, decision |-> d]
      /\ t \in RepairIncidents
    BY DEF ApprovalRecorded, RepairIncidents, RepairStatuses, Decisions
<1>2. s.repair = NoRepair
    BY DEF CanRecordApproval, Lawful, EarlyIsBare, Early
<1>3. Typed(t) /\ BoundToDiagnosis(t, t.proposal) /\ DecisionBinds(d, t.proposal)
    BY <1>1 DEF CanRecordApproval, BoundToDiagnosis, Typed
<1>4. d # None /\ d.outcome \in {"approved", "rejected"}
    BY NoneAssumption DEF Decisions
<1> HIDE DEF t
<1>5. Lawful(t)
    BY <1>1, <1>2, <1>3, <1>4
       DEF Lawful, EarlyIsBare, DecisionIsBound, RunIsBound, StageIsReached, ApprovalHolds,
           NoRepair, Early
<1> QED
    BY <1>1, <1>5 DEF t

LEMMA UntypedApprovalIsLawful ==
    ASSUME NEW s \in RepairIncidents, Lawful(s), NEW outcome \in {"approved", "rejected"},
           CanRecordUntypedApproval(s)
    PROVE  /\ ApprovalRecorded(s, outcome, None) \in RepairIncidents
           /\ Lawful(ApprovalRecorded(s, outcome, None))
<1> DEFINE t == ApprovalRecorded(s, outcome, None)
<1>1. /\ t.status = IF outcome = "approved" THEN "SANDBOX_REPAIR" ELSE "REJECTED"
      /\ t.proposal = Untyped /\ t.repair = s.repair
      /\ t.approval = [status |-> outcome, decision |-> None]
      /\ t \in RepairIncidents
    BY DEF ApprovalRecorded, RepairIncidents, RepairStatuses, CanRecordUntypedApproval
<1>2. s.repair = NoRepair
    BY DEF CanRecordUntypedApproval, Lawful, EarlyIsBare, Early
<1> HIDE DEF t
<1>3. Lawful(t)
    BY <1>1, <1>2
       DEF Lawful, EarlyIsBare, DecisionIsBound, RunIsBound, StageIsReached, NoRepair, Early, Typed
<1> QED
    BY <1>1, <1>3 DEF t

LEMMA PendingRecordedIsLawful ==
    ASSUME NEW s \in RepairIncidents, Lawful(s), NEW id \in RunIds,
           CanRecordPendingRun(s, PendingRun(id, s.proposal, s.approval.decision))
    PROVE  LET r == PendingRun(id, s.proposal, s.approval.decision) IN
           /\ r \in SandboxRuns
           /\ PendingRecorded(s, r) \in RepairIncidents
           /\ Lawful(PendingRecorded(s, r))
<1> DEFINE r == PendingRun(id, s.proposal, s.approval.decision)
           t == PendingRecorded(s, r)
<1>1. /\ s.status = "SANDBOX_REPAIR" /\ Typed(s) /\ s.approval.status = "approved"
      /\ ApprovalHolds(s) /\ s.approval.decision # None /\ BoundToDiagnosis(s, s.proposal)
    BY DEF CanRecordPendingRun, ApprovalHolds
<1>2. s.proposal \in Proposals /\ s.approval.decision \in Decisions
    BY <1>1 DEF RepairIncidents, Typed
<1>3. /\ r \in SandboxRuns
      /\ r.id = id /\ r.proposal = s.proposal /\ r.decision = s.approval.decision.id
      /\ r.status = "pending"
    BY <1>2 DEF PendingRun, SandboxRuns, Decisions
<1>4. r # None
    BY <1>3, NoneAssumption
<1> HIDE DEF r
<1>5. /\ t.status = s.status /\ t.proposal = s.proposal /\ t.approval = s.approval
      /\ t.cause = s.cause /\ t.support = s.support /\ t.evidence = s.evidence
      /\ t.repair = [status |-> "pending", run |-> r, check |-> "none"]
      /\ t \in RepairIncidents
    BY <1>3 DEF PendingRecorded, RepairIncidents
<1>6. Typed(t) /\ BoundToDiagnosis(t, t.proposal) /\ ApprovalHolds(t)
    BY <1>1, <1>5 DEF BoundToDiagnosis, Typed, ApprovalHolds
<1> HIDE DEF t
<1>7. Lawful(t)
    BY <1>1, <1>3, <1>4, <1>5, <1>6
       DEF Lawful, EarlyIsBare, DecisionIsBound, RunIsBound, StageIsReached, Early
<1> QED
    BY <1>3, <1>5, <1>7 DEF r, t

LEMMA RepairResultRecordedIsLawful ==
    ASSUME NEW s \in RepairIncidents, Lawful(s), NEW r \in SandboxRuns,
           CanRecordRepairResult(s, r)
    PROVE  /\ RepairResultRecorded(s, r.status, r) \in RepairIncidents
           /\ Lawful(RepairResultRecorded(s, r.status, r))
<1> DEFINE t == RepairResultRecorded(s, r.status, r)
<1>1. /\ s.status = "SANDBOX_REPAIR" /\ Typed(s) /\ r.status \in {"succeeded", "failed"}
      /\ BoundToDiagnosis(s, s.proposal) /\ ApprovalHolds(s)
      /\ r.proposal = s.proposal /\ r.decision = s.approval.decision.id
      /\ s.approval.status = "approved" /\ s.approval.decision # None
    BY DEF CanRecordRepairResult, Lawful, StageIsReached
<1>2. /\ t.status = IF r.status = "succeeded" THEN "POST_VALIDATION" ELSE "TOOL_FAILED"
      /\ t.proposal = s.proposal /\ t.approval = s.approval
      /\ t.cause = s.cause /\ t.support = s.support /\ t.evidence = s.evidence
      /\ t.repair = [status |-> r.status, run |-> r, check |-> "none"]
      /\ t \in RepairIncidents
    BY <1>1 DEF RepairResultRecorded, RepairIncidents, RepairStatuses
<1>3. Typed(t) /\ BoundToDiagnosis(t, t.proposal) /\ ApprovalHolds(t)
    BY <1>1, <1>2 DEF BoundToDiagnosis, Typed, ApprovalHolds
<1>4. r # None
    BY NoneAssumption
<1> HIDE DEF t
<1>5. Lawful(t)
    BY <1>1, <1>2, <1>3, <1>4
       DEF Lawful, EarlyIsBare, DecisionIsBound, RunIsBound, StageIsReached, Early
<1> QED
    BY <1>2, <1>5 DEF t

LEMMA UntypedRepairResultIsLawful ==
    ASSUME NEW s \in RepairIncidents, Lawful(s), NEW status \in {"succeeded", "failed"},
           CanRecordUntypedRepairResult(s)
    PROVE  /\ RepairResultRecorded(s, status, None) \in RepairIncidents
           /\ Lawful(RepairResultRecorded(s, status, None))
<1> DEFINE t == RepairResultRecorded(s, status, None)
<1>1. /\ t.status = IF status = "succeeded" THEN "POST_VALIDATION" ELSE "TOOL_FAILED"
      /\ t.proposal = Untyped /\ t.approval = s.approval
      /\ t.repair = [status |-> status, run |-> None, check |-> "none"]
      /\ t \in RepairIncidents
    BY DEF RepairResultRecorded, RepairIncidents, RepairStatuses, CanRecordUntypedRepairResult
<1>2. s.approval.decision = None
    BY DEF CanRecordUntypedRepairResult, Lawful, DecisionIsBound, Typed
<1> HIDE DEF t
<1>3. Lawful(t)
    BY <1>1, <1>2
       DEF Lawful, EarlyIsBare, DecisionIsBound, RunIsBound, StageIsReached, Early, Typed
<1> QED
    BY <1>1, <1>3 DEF t

LEMMA VerdictRecordedIsLawful ==
    ASSUME NEW s \in RepairIncidents, Lawful(s), NEW v \in Verdicts, CanRecordVerdict(s, v)
    PROVE  LET t == VerdictRecorded(s, v.passed, IF v.passed THEN "passed" ELSE "failed") IN
           /\ t \in RepairIncidents
           /\ Lawful(t)
<1> DEFINE t == VerdictRecorded(s, v.passed, IF v.passed THEN "passed" ELSE "failed")
<1>1. /\ s.status = "POST_VALIDATION" /\ Typed(s) /\ TerminalRunHolds(s)
      /\ s.repair.run.status = "succeeded"
    BY DEF CanRecordVerdict, CompletedRunHolds
<1>2. v.passed \in BOOLEAN
    BY DEF Verdicts
<1>3. /\ t.status = IF v.passed THEN "RESOLVED" ELSE "VALIDATION_FAILED"
      /\ t.proposal = s.proposal /\ t.approval = s.approval
      /\ t.cause = s.cause /\ t.support = s.support /\ t.evidence = s.evidence
      /\ t.repair.run = s.repair.run /\ t.repair.status = s.repair.status
      /\ t.repair.check = IF v.passed THEN "passed" ELSE "failed"
      /\ t \in RepairIncidents
    BY <1>2 DEF VerdictRecorded, RepairIncidents, RepairStatuses
<1>4. Typed(t) /\ BoundToDiagnosis(t, t.proposal) /\ ApprovalHolds(t)
    BY <1>1, <1>3 DEF BoundToDiagnosis, Typed, ApprovalHolds, TerminalRunHolds
<1> HIDE DEF t
<1>5. Lawful(t)
    BY <1>1, <1>2, <1>3, <1>4
       DEF Lawful, EarlyIsBare, DecisionIsBound, RunIsBound, StageIsReached, Early,
           TerminalRunHolds
<1> QED
    BY <1>3, <1>5 DEF t

LEMMA UntypedVerdictIsLawful ==
    ASSUME NEW s \in RepairIncidents, Lawful(s), NEW passed \in BOOLEAN,
           CanRecordUntypedVerdict(s, passed)
    PROVE  /\ VerdictRecorded(s, passed, "none") \in RepairIncidents
           /\ Lawful(VerdictRecorded(s, passed, "none"))
<1> DEFINE t == VerdictRecorded(s, passed, "none")
<1>1. /\ t.status = IF passed THEN "RESOLVED" ELSE "VALIDATION_FAILED"
      /\ t.proposal = Untyped /\ t.approval = s.approval
      /\ t.repair.run = s.repair.run /\ t.repair.status = s.repair.status
      /\ t.repair.check = "none"
      /\ t \in RepairIncidents
    BY DEF VerdictRecorded, RepairIncidents, RepairStatuses, CanRecordUntypedVerdict
<1>2. s.approval.decision = None /\ s.repair.run = None
    BY DEF CanRecordUntypedVerdict, Lawful, DecisionIsBound, RunIsBound, Typed
<1> HIDE DEF t
<1>3. Lawful(t)
    BY <1>1, <1>2
       DEF Lawful, EarlyIsBare, DecisionIsBound, RunIsBound, StageIsReached, Early, Typed
<1> QED
    BY <1>1, <1>3 DEF t

(* With a typed proposal the public transition() gets no further than to    *)
(* AWAITING_APPROVAL: every later one needs an artifact that only the       *)
(* method that leaves the status records.                                  *)
LEMMA PublicTypedStops ==
    ASSUME NEW s \in RepairIncidents, Lawful(s), Typed(s),
           NEW target \in PublicRepairTargets(s.status), PublicRepairGuard(s, target)
    PROVE  s.status = "FIX_PROPOSED" /\ target = "AWAITING_APPROVAL"
<1>1. /\ s.status \in RepairStatuses
      /\ s.status \in Early => s.approval.decision = None
      /\ s.status # "ROOT_CAUSE_FOUND"
    BY DEF RepairIncidents, Lawful, EarlyIsBare, NoApproval, Typed
<1>2. s.status \notin Early => ~ PublicRepairGuard(s, target)
    BY <1>1 DEF PublicRepairTargets, PublicRepairGuard, Early, RepairStatuses, Lawful,
                StageIsReached, CompletedRunHolds, TerminalRunHolds
<1>3. s.status # "AWAITING_APPROVAL"
    BY <1>1 DEF PublicRepairTargets, PublicRepairGuard, Early, ApprovalHolds
<1> QED
    BY <1>1, <1>2, <1>3 DEF PublicRepairTargets, Early

LEMMA PublicTransitionIsLawful ==
    ASSUME NEW s \in RepairIncidents, Lawful(s),
           NEW target \in PublicRepairTargets(s.status), PublicRepairGuard(s, target)
    PROVE  /\ [s EXCEPT !.status = target] \in RepairIncidents
           /\ Lawful([s EXCEPT !.status = target])
<1> DEFINE t == [s EXCEPT !.status = target]
<1>1. /\ t.status = target /\ t.proposal = s.proposal
      /\ t.cause = s.cause /\ t.support = s.support /\ t.evidence = s.evidence
      /\ t.approval = s.approval /\ t.repair = s.repair
    BY DEF RepairIncidents
<1>2. target \in RepairStatuses /\ target # "ROOT_CAUSE_FOUND"
    BY DEF PublicRepairTargets, RepairStatuses
<1>3. t \in RepairIncidents
    BY <1>2 DEF RepairIncidents
<1>4. target \in Early => s.status \in Early
    BY DEF PublicRepairTargets, Early
<1>5. Typed(t) <=> Typed(s)
    BY <1>1 DEF Typed
<1> HIDE DEF t
<1>6. CASE Typed(s)
    <2>1. s.status = "FIX_PROPOSED" /\ target = "AWAITING_APPROVAL"
        BY <1>6, PublicTypedStops
    <2>2. BoundToDiagnosis(t, t.proposal)
        BY <1>1, <1>6 DEF Lawful, DecisionIsBound, BoundToDiagnosis
    <2> QED
        BY <1>1, <1>3, <1>5, <2>1, <2>2
           DEF Lawful, EarlyIsBare, DecisionIsBound, RunIsBound, StageIsReached, Early, NoRepair,
               NoApproval, t
<1>7. CASE ~Typed(s)
    <2>1. s.approval.decision = None /\ s.repair.run = None /\ s.repair.check # "passed"
        BY <1>7 DEF Lawful, DecisionIsBound, RunIsBound, StageIsReached
    <2> QED
        BY <1>1, <1>2, <1>3, <1>4, <1>5, <1>7, <2>1
           DEF Lawful, EarlyIsBare, DecisionIsBound, RunIsBound, StageIsReached, t
<1> QED
    BY <1>6, <1>7
=============================================================================
