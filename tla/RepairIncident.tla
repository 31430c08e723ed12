--------------------------- MODULE RepairIncident ---------------------------
(***************************************************************************)
(* The repair half of an incident record, from ROOT_CAUSE_FOUND to its     *)
(* end, and what the graph's methods require of it and make of it: which   *)
(* proposal, decision, run and verdict it accepts, and the record after.   *)
(* There is no state here; RepairFlow and DemoService keep incidents.      *)
(*                                                                         *)
(* A content hash is represented by the content: a decision, a run and a   *)
(* verdict carry the proposal they were made for, and two proposals are    *)
(* equal when their identifiers and hashes are.  A payload that does not   *)
(* parse makes every method raise and is left out.  A proposal without any *)
(* of the typed keys is Untyped: the graph still takes it, and then asks   *)
(* for no typed decision, run or verdict.                                  *)
(***************************************************************************)
EXTENDS Naturals, FiniteSets

CONSTANTS
    Incidents,          \* incident_ids
    This,               \* the one of this record
    Causes,             \* root_cause_types
    MissingPartition,   \* the one with a repair handler
    Evidence,
    SourceOf,           \* source_type of each reference
    OnTargetDate,       \* references observed on the date of the alert
    ProvesEmpty,        \* business references that count no event
    MissingIn,          \* the partition a metadata reference shows missing, or None
    Partitions,
    InScope,            \* those of the date and device of the alert
    ProposalTtl,
    DecisionIds, RunIds,
    Untyped, None

ASSUME RepairAssumption ==
    /\ This \in Incidents
    /\ MissingPartition \in Causes
    /\ SourceOf \in [Evidence -> {"business_data", "operational_metadata", "pipeline_log"}]
    /\ MissingIn \in [Evidence -> Partitions \cup {None}]
    /\ InScope \subseteq Partitions
    /\ None \notin Partitions
    /\ ProposalTtl \in Nat \ {0}
    /\ Untyped # None

-----------------------------------------------------------------------------
RepairStatuses ==
    {"ROOT_CAUSE_FOUND", "FIX_PROPOSED", "AWAITING_APPROVAL", "SANDBOX_REPAIR",
     "POST_VALIDATION", "RESOLVED", "REJECTED", "TOOL_FAILED", "VALIDATION_FAILED"}

ClosedStatuses == {"RESOLVED", "REJECTED", "TOOL_FAILED", "VALIDATION_FAILED"}

(* VALIDATION_FAILED is left out: transition() never passes fatal.          *)
PublicRepairTargets(status) ==
    CASE status = "ROOT_CAUSE_FOUND"  -> {"FIX_PROPOSED"}
      [] status = "FIX_PROPOSED"      -> {"AWAITING_APPROVAL"}
      [] status = "AWAITING_APPROVAL" -> {"SANDBOX_REPAIR", "REJECTED"}
      [] status = "SANDBOX_REPAIR"    -> {"POST_VALIDATION", "TOOL_FAILED"}
      [] status = "POST_VALIDATION"   -> {"RESOLVED"}
      [] OTHER                        -> {}

Proposals ==
    [incident  : Incidents,
     cause     : Causes,
     support   : SUBSET Evidence,
     partition : Partitions,
     created   : Nat,
     until     : Nat]

Decisions ==
    [id       : DecisionIds,
     proposal : Proposals,
     outcome  : {"approved", "rejected"},
     at       : Nat]

SandboxRuns ==
    [id       : RunIds,
     proposal : Proposals,
     decision : DecisionIds,
     status   : {"pending", "succeeded", "failed"},
     count    : {0, 1}]         \* handler_invocation_count

Verdicts == [run : RunIds, proposal : Proposals, passed : BOOLEAN]

RepairIncidents ==
    [status   : RepairStatuses,
     cause    : Causes,
     support  : SUBSET Evidence,    \* root_cause.supporting_evidence_ids
     evidence : SUBSET Evidence,    \* state.evidence
     proposal : Proposals \cup {Untyped, None},
     approval : [status : {"none", "approved", "rejected"}, decision : Decisions \cup {None}],
     repair   : [status : {"none", "pending", "succeeded", "failed"},
                 run    : SandboxRuns \cup {None},
                 check  : {"none", "passed", "failed"}]]

ASSUME NoneAssumption == None \notin Proposals \cup Decisions \cup SandboxRuns

NoApproval == [status |-> "none", decision |-> None]
NoRepair == [status |-> "none", run |-> None, check |-> "none"]

DiagnosedIncident(cause, support, evidence) ==
    [status   |-> "ROOT_CAUSE_FOUND",
     cause    |-> cause,
     support  |-> support,
     evidence |-> evidence,
     proposal |-> None,
     approval |-> NoApproval,
     repair   |-> NoRepair]

-----------------------------------------------------------------------------
(* RepairProposal and RepairProposalBuilder.                               *)

SourcesOf(refs) == {SourceOf[e] : e \in refs}

WellFormed(p) ==
    /\ \E e, f \in p.support : SourceOf[e] # SourceOf[f]
    /\ p.until > p.created

InWindow(t, p) == p.created <= t /\ t <= p.until

(* The one missing partition that all metadata references show.             *)
ShownMissing(s) ==
    {p \in Partitions : \A e \in s.support :
        SourceOf[e] = "operational_metadata" => MissingIn[e] = p}

Buildable(s) ==
    /\ s.status = "ROOT_CAUSE_FOUND"
    /\ s.cause = MissingPartition
    /\ s.support \subseteq s.evidence
    /\ SourcesOf(s.support) = {"business_data", "operational_metadata"}
    /\ s.support \subseteq OnTargetDate
    /\ \A e \in s.support : SourceOf[e] = "business_data" => e \in ProvesEmpty
    /\ ShownMissing(s) \cap InScope # {}

Built(s, now) ==
    [incident  |-> This,
     cause     |-> s.cause,
     support   |-> s.support,
     partition |-> CHOOSE p \in ShownMissing(s) : TRUE,
     created   |-> now,
     until     |-> now + ProposalTtl]

-----------------------------------------------------------------------------
(* HarnessGraph's own checks of a typed repair.                            *)

Typed(s) == s.proposal \notin {None, Untyped}

(* _validate_typed_proposal: the proposal is for this incident, its root    *)
(* cause and exactly the evidence of that root cause.                      *)
BoundToDiagnosis(s, p) ==
    /\ WellFormed(p)
    /\ p.incident = This
    /\ p.cause = s.cause
    /\ p.support = s.support
    /\ p.support \subseteq s.evidence

DecisionBinds(d, p) == d.proposal = p /\ InWindow(d.at, p)

(* _typed_approval_from_state                                              *)
ApprovalHolds(s) ==
    /\ s.approval.decision # None
    /\ s.approval.status = s.approval.decision.outcome
    /\ DecisionBinds(s.approval.decision, s.proposal)

(* _validate_terminal_run_contract; hashes and times of a run are what      *)
(* SandboxRepair says of them.                                             *)
ContractHolds(r) == r.status = "succeeded" => r.count = 1

(* _typed_terminal_run_from_state                                          *)
TerminalRunHolds(s) ==
    /\ s.repair.run # None
    /\ s.repair.run.status \in {"succeeded", "failed"}
    /\ BoundToDiagnosis(s, s.proposal)
    /\ ContractHolds(s.repair.run)
    /\ ApprovalHolds(s)
    /\ s.approval.status = "approved"
    /\ s.repair.run.proposal = s.proposal
    /\ s.repair.run.decision = s.approval.decision.id

CompletedRunHolds(s) == TerminalRunHolds(s) /\ s.repair.run.status = "succeeded"

(* _check_guards for a public transition: no flag of a record_* method.     *)
PublicRepairGuard(s, target) ==
    CASE target = "FIX_PROPOSED"      -> Typed(s) => BoundToDiagnosis(s, s.proposal)
      [] target = "AWAITING_APPROVAL" -> /\ s.proposal # None
                                         /\ Typed(s) => BoundToDiagnosis(s, s.proposal)
      [] target = "SANDBOX_REPAIR"    -> /\ s.approval.status = "approved"
                                         /\ Typed(s) => ApprovalHolds(s)
      [] target = "REJECTED"          -> /\ s.approval.status = "rejected"
                                         /\ Typed(s) => ApprovalHolds(s)
      [] target = "POST_VALIDATION"   -> IF Typed(s) THEN CompletedRunHolds(s)
                                         ELSE s.repair.status = "succeeded"
      [] target = "TOOL_FAILED"       -> Typed(s) => /\ TerminalRunHolds(s)
                                                     /\ s.repair.run.status = "failed"
      [] target = "RESOLVED"          -> /\ s.repair # NoRepair
                                         /\ Typed(s) => /\ CompletedRunHolds(s)
                                                        /\ s.repair.check = "passed"
      [] OTHER                        -> FALSE

-----------------------------------------------------------------------------
(* What each method requires (Can...) and the record it leaves.            *)

CanPropose(s, p) ==
    /\ s.status = "ROOT_CAUSE_FOUND"
    /\ p # Untyped => BoundToDiagnosis(s, p)

Proposed(s, p) == [s EXCEPT !.status = "FIX_PROPOSED", !.proposal = p]

CanAwait(s) == s.status = "FIX_PROPOSED" /\ PublicRepairGuard(s, "AWAITING_APPROVAL")

Awaiting(s) == [s EXCEPT !.status = "AWAITING_APPROVAL"]

(* A faulty variant of a definition stands before it: a bug the checks must *)
(* notice.                                                                 *)
CanRecordApprovalByItsOwnTime(s, d, now) ==
    /\ s.status = "AWAITING_APPROVAL"
    /\ Typed(s)
    /\ BoundToDiagnosis(s, s.proposal)
    /\ DecisionBinds(d, s.proposal)

(* The window is compared with the clock and with the decision's own time,  *)
(* which may be another clock's; the two are not compared.                 *)
CanRecordApproval(s, d, now) ==
    /\ s.status = "AWAITING_APPROVAL"
    /\ Typed(s)
    /\ BoundToDiagnosis(s, s.proposal)
    /\ InWindow(now, s.proposal)
    /\ DecisionBinds(d, s.proposal)

CanRecordUntypedApproval(s) == s.status = "AWAITING_APPROVAL" /\ s.proposal = Untyped

ApprovalRecordedLeavingOpen(s, outcome, decision) ==
    [s EXCEPT !.status = IF outcome = "approved" THEN "SANDBOX_REPAIR" ELSE @,
              !.approval = [status |-> outcome, decision |-> decision]]

ApprovalRecorded(s, outcome, decision) ==
    [s EXCEPT !.status = IF outcome = "approved" THEN "SANDBOX_REPAIR" ELSE "REJECTED",
              !.approval = [status |-> outcome, decision |-> decision]]

(* SandboxRun.for_approved_proposal                                        *)
PendingRun(id, proposal, decision) ==
    [id |-> id, proposal |-> proposal, decision |-> decision.id,
     status |-> "pending", count |-> 0]

CanRecordPendingRun(s, r) ==
    /\ s.status = "SANDBOX_REPAIR"
    /\ Typed(s)
    /\ BoundToDiagnosis(s, s.proposal)
    /\ ApprovalHolds(s)
    /\ s.approval.status = "approved"
    /\ r.status = "pending"
    /\ s.repair = NoRepair
    /\ r.decision = s.approval.decision.id
    /\ r.proposal = s.proposal

PendingRecorded(s, r) == [s EXCEPT !.repair = [status |-> "pending", run |-> r, check |-> "none"]]

(* _validate_resume_bindings, for the artifacts read from the incident.     *)
CanResume(s) ==
    /\ s.status = "SANDBOX_REPAIR"
    /\ Typed(s)
    /\ s.approval.status = "approved"
    /\ s.approval.decision # None
    /\ s.approval.decision.proposal = s.proposal
    /\ s.repair.run # None
    /\ s.repair.run.status = "pending"
    /\ s.repair.run.proposal = s.proposal
    /\ s.repair.run.decision = s.approval.decision.id

CanRecordIdenticalResult(s, r) ==
    /\ s.status = "SANDBOX_REPAIR"
    /\ Typed(s)
    /\ r.status \in {"succeeded", "failed"}
    /\ s.repair.status = "pending"
    /\ r.count = s.repair.run.count

CanRecordRepairResult(s, r) ==
    /\ s.status = "SANDBOX_REPAIR"
    /\ Typed(s)
    /\ r.status \in {"succeeded", "failed"}
    /\ BoundToDiagnosis(s, s.proposal)
    /\ ApprovalHolds(s)
    /\ s.repair.status = "pending"
    /\ s.repair.run.status = "pending"
    /\ r.id = s.repair.run.id
    /\ r.proposal = s.proposal
    /\ r.decision = s.approval.decision.id
    /\ ContractHolds(r)

CanRecordUntypedRepairResult(s) == s.status = "SANDBOX_REPAIR" /\ s.proposal = Untyped

RepairResultRecorded(s, status, r) ==
    [s EXCEPT !.status = IF status = "succeeded" THEN "POST_VALIDATION" ELSE "TOOL_FAILED",
              !.repair = [status |-> status, run |-> r, check |-> "none"]]

CanRecordVerdict(s, v) ==
    /\ s.status = "POST_VALIDATION"
    /\ Typed(s)
    /\ CompletedRunHolds(s)
    /\ v.run = s.repair.run.id
    /\ v.proposal = s.proposal

CanRecordUntypedVerdict(s, passed) ==
    /\ s.status = "POST_VALIDATION"
    /\ s.proposal = Untyped
    /\ passed => s.repair # NoRepair

VerdictRecordedAsUnresolved(s, passed, check) ==
    [s EXCEPT !.status = IF passed THEN "RESOLVED" ELSE "UNRESOLVED",
              !.repair.check = check]

VerdictRecorded(s, passed, check) ==
    [s EXCEPT !.status = IF passed THEN "RESOLVED" ELSE "VALIDATION_FAILED",
              !.repair.check = check]

-----------------------------------------------------------------------------
(* PostRepairValidator.validate: what it looks at in the repaired copy, and *)
(* when it passes.  A measurement that fails is a failure like the others. *)
(* "unaffected" is all that may have regressed outside the partition: its   *)
(* other events and the regression metrics that a caller configures.       *)

Checks == {"target", "events", "metadata", "unaffected"}

PassedByTarget(sound, measured) == measured /\ {"target", "events", "metadata"} \subseteq sound

Passed(sound, measured) == measured /\ sound = Checks
=============================================================================
