----------------------------- MODULE RepairFlow -----------------------------
(***************************************************************************)
(* The repair and approval half of HarnessGraph with a checkpoint manager: *)
(* a diagnosed incident is given a proposal, a decision, a pending run, a  *)
(* repair in the sandbox and a verdict of the post-validation.  Any legal  *)
(* sequence of calls is a behaviour, with any decision and with results    *)
(* that arrive late or twice; a call that raises before it changes         *)
(* anything is not a step.  The process may stop anywhere, a checkpoint    *)
(* write may fail, and time passes meanwhile.                              *)
(*                                                                         *)
(* The executor is what SandboxRepair shows of it: a run is carried out    *)
(* once, its result is durable and found again by every later resume, or   *)
(* the run directory stays indeterminate and every resume raises.          *)
(***************************************************************************)
EXTENDS RepairIncident

CONSTANTS
    Indeterminate,      \* a run directory without a usable result
    DecisionTimes,      \* values of decided_at a caller may send
    MaxTime,            \* bound: the clock
    MaxCrashes,         \* bound: process stops
    MaxSaveFailures     \* bound: checkpoint writes that raise

ASSUME FlowAssumption ==
    /\ Indeterminate # None
    /\ DecisionTimes \subseteq Nat
    /\ MaxTime \in Nat
    /\ MaxCrashes \in Nat
    /\ MaxSaveFailures \in Nat

VARIABLES
    incident,       \* IncidentState in memory (while down: what a restart would load)
    checkpoint,     \* its newest durable version
    call,           \* the method under way, if it takes several steps
    up,             \* is the process up?
    issued,         \* run identifiers in use: each is a fresh uuid4
    ran,            \* per run: None, its durable result, or indeterminate
    sound,          \* per run: the checks its copy passes
    verdicts,       \* results of the post-validation held by callers
    now,
    crashes, saveFailures,      \* observed, read by no handler
    accepted,       \* history: the decisions record_approval took, each with the clock
    under           \* history: per run, the proposal and the decision it was executed under

history == <<accepted, under>>
world == <<issued, ran, sound, verdicts, history>>
observed == <<crashes, saveFailures>>
vars == <<incident, checkpoint, call, up, world, now, observed>>

-----------------------------------------------------------------------------
Acceptances == [decision : Decisions, clock : Nat]
Authorities == [proposal : Proposals, decision : Decisions]

TypeOK ==
    /\ incident \in RepairIncidents
    /\ checkpoint \in RepairIncidents
    /\ call \in {"none", "propose", "resume"}
    /\ up \in BOOLEAN
    /\ issued \subseteq RunIds
    /\ ran \in [RunIds -> SandboxRuns \cup {None, Indeterminate}]
    /\ sound \in [RunIds -> SUBSET Checks]
    /\ verdicts \subseteq Verdicts
    /\ now \in Nat
    /\ crashes \in Nat
    /\ saveFailures \in Nat
    /\ accepted \subseteq Acceptances
    /\ under \in [RunIds -> Authorities \cup {None}]

(* The validator only names a root cause on evidence of two sources that    *)
(* the incident has.                                                       *)
Init ==
    /\ \E cause \in Causes, support \in SUBSET Evidence, evidence \in SUBSET Evidence :
          /\ \E e, f \in support : SourceOf[e] # SourceOf[f]
          /\ support \subseteq evidence
          /\ incident = DiagnosedIncident(cause, support, evidence)
    /\ checkpoint = incident
    /\ call = "none"
    /\ up = TRUE
    /\ issued = {}
    /\ ran = [id \in RunIds |-> None]
    /\ sound = [id \in RunIds |-> {}]
    /\ verdicts = {}
    /\ now = 0
    /\ crashes = 0
    /\ saveFailures = 0
    /\ accepted = {}
    /\ under = [id \in RunIds |-> None]

-----------------------------------------------------------------------------
(* The process is between two calls.                                       *)
Idle == up /\ call = "none"

SaveFails ==
    /\ saveFailures < MaxSaveFailures
    /\ saveFailures' = saveFailures + 1
    /\ UNCHANGED <<checkpoint, crashes>>

(* Memory changes first; a failed save raises and does not roll it back.    *)
Commit(s) ==
    /\ incident' = s
    /\ \/ checkpoint' = s /\ UNCHANGED observed
       \/ SaveFails

PublicTransition(target) ==
    /\ Idle
    /\ target \in PublicRepairTargets(incident.status)
    /\ PublicRepairGuard(incident, target)
    /\ Commit([incident EXCEPT !.status = target])
    /\ UNCHANGED <<call, up, world, now>>

(* propose_fix saves twice; when the first save raises the second           *)
(* transition is not attempted.                                            *)
Propose(p) ==
    /\ Idle
    /\ CanPropose(incident, p)
    /\ incident' = Proposed(incident, p)
    /\ \/ checkpoint' = incident' /\ call' = "propose" /\ UNCHANGED observed
       \/ SaveFails /\ UNCHANGED call
    /\ UNCHANGED <<up, world, now>>

AwaitApproval ==
    /\ call = "propose"
    /\ CanAwait(incident)
    /\ Commit(Awaiting(incident))
    /\ call' = "none"
    /\ UNCHANGED <<up, world, now>>

(* The decision is built by the caller for the proposal it has seen.        *)
RecordApproval(d) ==
    /\ Idle
    /\ CanRecordApproval(incident, d, now)
    /\ Commit(ApprovalRecorded(incident, d.outcome, d))
    /\ accepted' = accepted \cup {[decision |-> d, clock |-> now]}
    /\ UNCHANGED <<call, up, issued, ran, sound, verdicts, under, now>>

RecordUntypedApproval(outcome) ==
    /\ Idle
    /\ CanRecordUntypedApproval(incident)
    /\ Commit(ApprovalRecorded(incident, outcome, None))
    /\ UNCHANGED <<call, up, world, now>>

RecordPendingRun(id) ==
    /\ Idle
    /\ id \notin issued
    /\ incident.approval.decision # None
    /\ LET run == PendingRun(id, incident.proposal, incident.approval.decision) IN
          /\ CanRecordPendingRun(incident, run)
          /\ Commit(PendingRecorded(incident, run))
    /\ issued' = issued \cup {id}
    /\ UNCHANGED <<call, up, ran, sound, verdicts, history, now>>

-----------------------------------------------------------------------------
(* resume_approved_repair: recover_run or execute, then record the result.  *)

BeginResume ==
    /\ Idle
    /\ CanResume(incident)
    /\ call' = "resume"
    /\ UNCHANGED <<incident, checkpoint, up, world, now, observed>>

TerminalRuns(run) ==
    {[run EXCEPT !.status = "succeeded", !.count = 1]} \cup
    {[run EXCEPT !.status = "failed", !.count = c] : c \in {0, 1}}

(* A repaired copy fails at most one check: the validator is asked about    *)
(* each of them.                                                           *)
ExecuteRun ==
    /\ call = "resume"
    /\ LET run == incident.repair.run IN
          /\ ran[run.id] = None
          /\ \E result \in TerminalRuns(run) \cup {Indeterminate},
             broken \in {{}} \cup {{check} : check \in Checks} :
                /\ ran' = [ran EXCEPT ![run.id] = result]
                /\ sound' = [sound EXCEPT ![run.id] = Checks \ broken]
          /\ under' = [under EXCEPT ![run.id] =
                [proposal |-> incident.proposal, decision |-> incident.approval.decision]]
    /\ UNCHANGED <<incident, checkpoint, call, up, issued, verdicts, accepted, now, observed>>

RecordResult(r) ==
    /\ CanRecordRepairResult(incident, r)
    /\ Commit(RepairResultRecorded(incident, r.status, r))
    /\ UNCHANGED <<up, world, now>>

EndResume ==
    /\ call = "resume"
    /\ call' = "none"
    /\ LET result == ran[incident.repair.run.id] IN
          \/ result \notin {None, Indeterminate} /\ RecordResult(result)
          \/ /\ result = Indeterminate
             /\ UNCHANGED <<incident, checkpoint, up, world, now, observed>>

(* A caller with the result of any run, this one's or an earlier one's.     *)
RecordRepairResult(id) ==
    /\ Idle
    /\ ran[id] \notin {None, Indeterminate}
    /\ RecordResult(ran[id])
    /\ UNCHANGED call

RecordUntypedRepairResult(status) ==
    /\ Idle
    /\ CanRecordUntypedRepairResult(incident)
    /\ Commit(RepairResultRecorded(incident, status, None))
    /\ UNCHANGED <<call, up, world, now>>

-----------------------------------------------------------------------------
(* PostRepairValidator.validate reads the copy; what it answers may be      *)
(* recorded later.  A measurement may fail.                                *)
ValidateRepair ==
    /\ Idle
    /\ incident.status = "POST_VALIDATION"
    /\ Typed(incident)
    /\ \E measured \in BOOLEAN :
          verdicts' = verdicts \cup
              {[run      |-> incident.repair.run.id,
                proposal |-> incident.proposal,
                passed   |-> Passed(sound[incident.repair.run.id], measured)]}
    /\ UNCHANGED <<incident, checkpoint, call, up, issued, ran, sound, history, now, observed>>

RecordVerdict(v) ==
    /\ Idle
    /\ CanRecordVerdict(incident, v)
    /\ Commit(VerdictRecorded(incident, v.passed, IF v.passed THEN "passed" ELSE "failed"))
    /\ UNCHANGED <<call, up, world, now>>

RecordUntypedVerdict(passed) ==
    /\ Idle
    /\ CanRecordUntypedVerdict(incident, passed)
    /\ Commit(VerdictRecorded(incident, passed, "none"))
    /\ UNCHANGED <<call, up, world, now>>

-----------------------------------------------------------------------------
(* Runs and their copies are files; callers and their results are not.      *)
Crash ==
    /\ up
    /\ crashes < MaxCrashes
    /\ crashes' = crashes + 1
    /\ up' = FALSE
    /\ call' = "none"
    /\ incident' = checkpoint
    /\ verdicts' = {}
    /\ UNCHANGED <<checkpoint, issued, ran, sound, history, now, saveFailures>>

Restart ==
    /\ ~up
    /\ up' = TRUE
    /\ UNCHANGED <<incident, checkpoint, call, world, now, observed>>

Tick ==
    /\ now < MaxTime
    /\ now' = now + 1
    /\ UNCHANGED <<incident, checkpoint, call, up, world, observed>>

(* Callers propose what the builder built, a typed proposal of their own    *)
(* for any incident, root cause and evidence, or an untyped mapping.       *)
Offered ==
    {Untyped} \cup
    [incident  : Incidents,
     cause     : Causes,
     support   : SUBSET Evidence,
     partition : Partitions,
     created   : {now},
     until     : {now + ProposalTtl}]

(* Decisions arrive for the proposal of the incident or for one that was    *)
(* built at another time and lost.                                         *)
Submitted ==
    IF Typed(incident)
    THEN [id       : DecisionIds,
          proposal : {incident.proposal} \cup
                     {[incident.proposal EXCEPT !.created = t] : t \in 0 .. MaxTime},
          outcome  : {"approved", "rejected"},
          at       : DecisionTimes]
    ELSE {}

ClientStep ==
    \/ \E target \in RepairStatuses : PublicTransition(target)
    \/ \E p \in Offered : Propose(p)
    \/ \E d \in Submitted : RecordApproval(d)
    \/ \E outcome \in {"approved", "rejected"} : RecordUntypedApproval(outcome)
    \/ \E id \in RunIds : RecordRepairResult(id)
    \/ \E status \in {"succeeded", "failed"} : RecordUntypedRepairResult(status)
    \/ \E passed \in BOOLEAN : RecordUntypedVerdict(passed)

(* What an operator does to finish an approved repair.                     *)
Recover ==
    \/ \E id \in RunIds : RecordPendingRun(id)
    \/ BeginResume
    \/ ExecuteRun
    \/ EndResume
    \/ ValidateRepair
    \/ Restart

Conclude == \E v \in verdicts : RecordVerdict(v)

Next ==
    \/ ClientStep
    \/ AwaitApproval
    \/ Recover
    \/ Conclude
    \/ Crash
    \/ Tick

Spec == Init /\ [][Next]_vars

(* An operator keeps restarting the process, resuming an approved repair    *)
(* and validating a repaired incident.  Nobody has to propose, to decide   *)
(* or to wait.                                                             *)
FairSpec ==
    /\ Spec
    /\ WF_vars(\E id \in RunIds : RecordPendingRun(id))
    /\ WF_vars(BeginResume)
    /\ WF_vars(ExecuteRun)
    /\ WF_vars(EndResume)
    /\ WF_vars(ValidateRepair)
    /\ WF_vars(Conclude)
    /\ WF_vars(Restart)

-----------------------------------------------------------------------------
Executed == {id \in RunIds : ran[id] # None}

(* The clock of every call that accepted a decision.                       *)
AcceptedAt(d) == {a.clock : a \in {b \in accepted : b.decision = d}}

(* What a run was executed under: a decision that approved this very        *)
(* proposal, taken and accepted within its window each time, and the        *)
(* proposal is for this incident with exactly the evidence of its root      *)
(* cause.  A result names both.                                            *)
Authorized(id) ==
    LET p == under[id].proposal
        d == under[id].decision IN
    /\ d.outcome = "approved"
    /\ DecisionBinds(d, p)
    /\ AcceptedAt(d) # {}
    /\ \A t \in AcceptedAt(d) : InWindow(t, p)
    /\ BoundToDiagnosis(checkpoint, p)
    /\ ran[id] # Indeterminate => ran[id].proposal = p /\ ran[id].decision = d.id

(* Whatever writes were lost and whenever the process stopped, every repair *)
(* that was carried out was authorised when it was (graph.py:726-799,       *)
(* 953-1027): also when the checkpoint has forgotten the proposal or the    *)
(* decision since.  A second repair takes a failed write, and while none    *)
(* failed the checkpoint names the one run and its decision.               *)
RepairIsAuthorized ==
    /\ \A id \in Executed : Authorized(id)
    /\ Cardinality(Executed) <= 1 + saveFailures
    /\ saveFailures = 0 => \A id \in Executed :
          /\ checkpoint.repair.run.id = id
          /\ checkpoint.proposal = under[id].proposal
          /\ checkpoint.approval = [status |-> "approved", decision |-> under[id].decision]

(* An incident with a typed proposal is only RESOLVED when the run of its   *)
(* checkpoint succeeded and its copy passes every check.                   *)
ResolvedIsSound ==
    checkpoint.status = "RESOLVED" /\ Typed(checkpoint) =>
        LET id == checkpoint.repair.run.id IN
            /\ ran[id] = checkpoint.repair.run
            /\ ran[id].status = "succeeded"
            /\ sound[id] = Checks

(* Refinement, for typed repairs: what the checkpoint says of the decision, *)
(* what was done in the world, and how the incident ended.                 *)
Approvals(status) == [status : {status}, decision : Decisions]

decisionBar == IF Typed(checkpoint) THEN checkpoint.approval ELSE NoApproval

repairedBar == Executed # {}

verdictBar ==
    IF ~Typed(checkpoint) \/ checkpoint.status \notin ClosedStatuses THEN "open"
    ELSE IF checkpoint.status = "RESOLVED" THEN "resolved" ELSE "closed"

Gate == INSTANCE ApprovalGate WITH
    Grants     <- Approvals("approved"),
    Refusals   <- Approvals("rejected"),
    NoDecision <- NoApproval,
    decision   <- decisionBar,
    repaired   <- repairedBar,
    verdict    <- verdictBar

ImplementsApprovalGate == Gate!Spec

(* An approved repair does not hang: under that fairness it ends, durably   *)
(* if no checkpoint write failed, unless its run directory is              *)
(* indeterminate.                                                          *)
ApprovedSettles ==
    checkpoint.status = "SANDBOX_REPAIR" /\ Typed(checkpoint)
        ~> \/ /\ incident.status \in ClosedStatuses
              /\ saveFailures = 0 => checkpoint.status = incident.status
           \/ \E id \in RunIds : ran[id] = Indeterminate
=============================================================================
