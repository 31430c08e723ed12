---------------------------- MODULE HarnessGraph ----------------------------
(***************************************************************************)
(* The investigation half of HarnessGraph with a checkpoint manager: from  *)
(* RECEIVED to ROOT_CAUSE_FOUND or an early end, with the guardrail usage, *)
(* the resume metadata, and a process that may stop anywhere and restart   *)
(* from the newest checkpoint.  Any legal sequence of calls of the public  *)
(* methods is a behaviour; a call that raises before it changes anything   *)
(* is not a step.                                                          *)
(*                                                                         *)
(* The live HypothesisManager and state.hypotheses are one function: every *)
(* graph method that changes the manager synchronises the snapshot.  The   *)
(* planner's steps and hypotheses are constants; the alert is one that     *)
(* passes triage and scope validation.  validate_hypothesis is given the   *)
(* manager's own evidence, as the runner gives it.                         *)
(***************************************************************************)
EXTENDS Hypothesis

CONSTANTS
    Steps,              \* step_ids of the persisted plan
    SqlSteps,           \* those whose tool is sql_query
    UnsafeSteps,        \* those preflight refuses: unknown tool, unsafe SQL
    Fingerprint,        \* fingerprint_step of each step
    None,
    MaxAgentRounds, MaxToolCalls, MaxSqlCalls, MaxDuplicateCalls,   \* GuardrailPolicy
    AttachRegisteredOnly,   \* do callers bind only evidence they registered?
    MaxRetries,         \* bound: request_more_evidence
    MaxCrashes,         \* bound: process stops
    MaxSaveFailures     \* bound: checkpoint writes that raise

ASSUME StepsAssumption ==
    /\ SqlSteps \subseteq Steps
    /\ UnsafeSteps \subseteq Steps
    /\ None \notin Steps \cup Hypotheses
    /\ AttachRegisteredOnly \in BOOLEAN

ASSUME PolicyAssumption ==
    /\ MaxAgentRounds \in Nat
    /\ MaxToolCalls \in Nat
    /\ MaxSqlCalls \in Nat
    /\ MaxDuplicateCalls \in Nat \ {0}
    /\ MaxRetries \in Nat
    /\ MaxCrashes \in Nat
    /\ MaxSaveFailures \in Nat

VARIABLES
    state,          \* IncidentState in memory (while down: what a restart would load)
    resume,         \* ResumeMetadata in memory
    checkpoint,     \* newest durable [state, resume]
    running,        \* step whose tool is executing
    up,             \* is the process up?
    invoked, crashes, saveFailures      \* observed, read by no handler

memory == <<state, resume>>
vars == <<state, resume, checkpoint, running, up, invoked, crashes, saveFailures>>

-----------------------------------------------------------------------------
Fingerprints == {Fingerprint[s] : s \in Steps}

IncidentStatuses ==
    {"RECEIVED", "TRIAGE", "PLANNING", "EXECUTING", "VALIDATING", "HYPOTHESIS_TESTING",
     "ROOT_CAUSE_FOUND", "UNRESOLVED", "BUDGET_EXCEEDED", "TOOL_FAILED"}

TerminalStatuses == {"UNRESOLVED", "BUDGET_EXCEEDED", "TOOL_FAILED"}

(* A faulty variant of a definition stands before it: a bug the checks must *)
(* notice.                                                                 *)
PublicTargetsReopening(status) ==
    CASE status = "RECEIVED"           -> {"TRIAGE"}
      [] status = "TRIAGE"             -> {"PLANNING"}
      [] status = "PLANNING"           -> {"EXECUTING", "UNRESOLVED", "BUDGET_EXCEEDED"}
      [] status = "EXECUTING"          -> {"VALIDATING", "TOOL_FAILED", "BUDGET_EXCEEDED"}
      [] status = "VALIDATING"         -> {"HYPOTHESIS_TESTING", "BUDGET_EXCEEDED"}
      [] status = "HYPOTHESIS_TESTING" -> {"EXECUTING", "UNRESOLVED", "BUDGET_EXCEEDED"}
      [] status = "ROOT_CAUSE_FOUND"   -> {"EXECUTING"}
      [] OTHER                         -> {}

(* ALLOWED_TRANSITIONS, less the two targets transition() always refuses.   *)
PublicTargets(status) ==
    CASE status = "RECEIVED"           -> {"TRIAGE"}
      [] status = "TRIAGE"             -> {"PLANNING"}
      [] status = "PLANNING"           -> {"EXECUTING", "UNRESOLVED", "BUDGET_EXCEEDED"}
      [] status = "EXECUTING"          -> {"VALIDATING", "TOOL_FAILED", "BUDGET_EXCEEDED"}
      [] status = "VALIDATING"         -> {"HYPOTHESIS_TESTING", "BUDGET_EXCEEDED"}
      [] status = "HYPOTHESIS_TESTING" -> {"EXECUTING", "UNRESOLVED", "BUDGET_EXCEEDED"}
      [] OTHER                         -> {}

(* agent_rounds and tool_calls are always counted together: one counter.    *)
IncidentState ==
    [status        : IncidentStatuses,
     planned       : BOOLEAN,                   \* plan and hypotheses persisted
     hyps          : [Hypotheses -> HypothesisState],
     evidence      : SUBSET Evidence,           \* reference payloads
     traced        : BOOLEAN,                   \* tool_trace is not empty
     calls         : Nat,                       \* guardrail_usage
     sqlCalls      : Nat,
     fpCount       : [Fingerprints -> Nat],
     lastPreflight : Steps \cup {None},         \* newest preflight event, if allowed
     retries       : Nat,
     rootCause     : Hypotheses \cup {None}]

ResumeMetadata ==
    [completed : SUBSET Steps,
     last      : Steps \cup {None},
     replay    : Steps \cup {None}]

NewIncident ==
    [status        |-> "RECEIVED",
     planned       |-> FALSE,
     hyps          |-> [id \in Hypotheses |-> NewHypothesis(id)],
     evidence      |-> {},
     traced        |-> FALSE,
     calls         |-> 0,
     sqlCalls      |-> 0,
     fpCount       |-> [f \in Fingerprints |-> 0],
     lastPreflight |-> None,
     retries       |-> 0,
     rootCause     |-> None]

NewResume == [completed |-> {}, last |-> None, replay |-> None]

TypeOK ==
    /\ state \in IncidentState
    /\ resume \in ResumeMetadata
    /\ checkpoint \in [state : IncidentState, resume : ResumeMetadata]
    /\ running \in Steps \cup {None}
    /\ up \in BOOLEAN
    /\ invoked \in Nat
    /\ crashes \in Nat
    /\ saveFailures \in Nat

(* A restart that finds no checkpoint starts the incident again.            *)
Init ==
    /\ state = NewIncident
    /\ resume = NewResume
    /\ checkpoint = [state |-> NewIncident, resume |-> NewResume]
    /\ running = None
    /\ up = TRUE
    /\ invoked = 0
    /\ crashes = 0
    /\ saveFailures = 0

-----------------------------------------------------------------------------
(* The process is between two calls.                                       *)
Idle == up /\ running = None

CommitWithoutEvidence(s, r) ==
    /\ state' = s
    /\ resume' = r
    /\ checkpoint' = [state  |-> [s EXCEPT !.evidence = checkpoint.state.evidence],
                      resume |-> r]
    /\ UNCHANGED saveFailures

(* Memory changes first; a failed save raises and does not roll it back.    *)
Commit(s, r) ==
    /\ state' = s
    /\ resume' = r
    /\ \/ /\ checkpoint' = [state |-> s, resume |-> r]
          /\ UNCHANGED saveFailures
       \/ /\ saveFailures < MaxSaveFailures
          /\ saveFailures' = saveFailures + 1
          /\ UNCHANGED checkpoint

(* transition(), with the guards of _check_guards for this half.            *)
PublicTransition(target) ==
    /\ Idle
    /\ target \in PublicTargets(state.status)
    /\ state.status = "PLANNING" /\ target = "EXECUTING" => state.planned
    /\ target = "VALIDATING" => state.traced \/ state.evidence # {}
    /\ Commit([state EXCEPT !.status = target], resume)
    /\ UNCHANGED <<running, up, invoked, crashes>>

(* A second call raises: the hypotheses already exist.                      *)
PreparePlan ==
    /\ Idle
    /\ state.status = "PLANNING"
    /\ ~state.planned
    /\ Commit([state EXCEPT !.planned = TRUE], resume)
    /\ UNCHANGED <<running, up, invoked, crashes>>

-----------------------------------------------------------------------------
(* execute_next_step, up to the tool call and from its return.              *)

IsExplicitRetryReplayOfAny(s) == state.retries > 0

IsExplicitRetryReplay(s) == state.retries > 0 /\ state.lastPreflight = s

OverBudget(s) ==
    \/ state.calls >= MaxAgentRounds
    \/ state.calls >= MaxToolCalls
    \/ s \in SqlSteps /\ state.sqlCalls >= MaxSqlCalls

Duplicate(s) ==
    /\ state.fpCount[Fingerprint[s]] >= MaxDuplicateCalls
    /\ ~IsExplicitRetryReplay(s)

Allowed(s) == s \notin UnsafeSteps /\ ~OverBudget(s) /\ ~Duplicate(s)

ExecutableIgnoringCursor(s) ==
    /\ Idle
    /\ state.status = "EXECUTING"

\* _validate_execution_step refuses a completed step that is not the one to replay.
Executable(s) ==
    /\ Idle
    /\ state.status = "EXECUTING"
    /\ s \in resume.completed => resume.replay = s

BeginToolUncounted(s) ==
    /\ Executable(s)
    /\ Allowed(s)
    /\ state' = [state EXCEPT !.lastPreflight = s]
    /\ running' = s
    /\ invoked' = invoked + 1
    /\ UNCHANGED <<resume, checkpoint, up, crashes, saveFailures>>

(* record_allowed counts the call in memory only, before the tool runs.     *)
BeginTool(s) ==
    /\ Executable(s)
    /\ Allowed(s)
    /\ state' = [state EXCEPT !.calls = @ + 1,
                              !.sqlCalls = @ + (IF s \in SqlSteps THEN 1 ELSE 0),
                              !.fpCount[Fingerprint[s]] = @ + 1,
                              !.lastPreflight = s]
    /\ running' = s
    /\ invoked' = invoked + 1
    /\ UNCHANGED <<resume, checkpoint, up, crashes, saveFailures>>

BlockToolAsValidationFailure(s) ==
    /\ Executable(s)
    /\ ~Allowed(s)
    /\ Commit([state EXCEPT !.lastPreflight = None, !.status = "VALIDATION_FAILED"], resume)
    /\ UNCHANGED <<running, up, invoked, crashes>>

BlockTool(s) ==
    /\ Executable(s)
    /\ ~Allowed(s)
    /\ Commit([state EXCEPT !.lastPreflight = None,
                            !.status = IF s \notin UnsafeSteps /\ OverBudget(s)
                                       THEN "BUDGET_EXCEEDED" ELSE "TOOL_FAILED"],
              resume)
    /\ UNCHANGED <<running, up, invoked, crashes>>

ToolSucceedsKeepingFirstCursor ==
    /\ up
    /\ running # None
    /\ Commit([state EXCEPT !.traced = TRUE, !.status = "VALIDATING"],
              [completed |-> resume.completed \cup {running},
               last      |-> IF resume.last = None THEN running ELSE resume.last,
               replay    |-> None])
    /\ running' = None
    /\ UNCHANGED <<up, invoked, crashes>>

ToolSucceedsForgettingOthers ==
    /\ up
    /\ running # None
    /\ Commit([state EXCEPT !.traced = TRUE, !.status = "VALIDATING"],
              [completed |-> {running}, last |-> running, replay |-> None])
    /\ running' = None
    /\ UNCHANGED <<up, invoked, crashes>>

(* Evidence identifiers come from fresh query identifiers.                  *)
ToolSucceeds ==
    /\ up
    /\ running # None
    /\ \E refs \in {{}} \cup {{e} : e \in Evidence \ state.evidence} :
          Commit([state EXCEPT !.traced = TRUE,
                               !.evidence = @ \cup refs,
                               !.status = "VALIDATING"],
                 [completed |-> resume.completed \cup {running},
                  last      |-> running,
                  replay    |-> None])
    /\ running' = None
    /\ UNCHANGED <<up, invoked, crashes>>

(* An exception or a timeout of the tool is a result with success = False.  *)
ToolFails ==
    /\ up
    /\ running # None
    /\ Commit([state EXCEPT !.traced = TRUE, !.status = "TOOL_FAILED"], resume)
    /\ running' = None
    /\ UNCHANGED <<up, invoked, crashes>>

-----------------------------------------------------------------------------
(* register_evidence and attach_evidence look at no status and save nothing. *)

RegisterEvidence(e) ==
    /\ Idle
    /\ state.planned
    /\ state' = [state EXCEPT !.evidence = @ \cup {e}]
    /\ UNCHANGED <<resume, checkpoint, running, up, invoked, crashes, saveFailures>>

AttachEvidence(id, e, supports) ==
    /\ Idle
    /\ state.planned
    /\ AttachRegisteredOnly => e \in state.evidence
    /\ CanAttach(state.hyps[id], e, supports)
    /\ state' = [state EXCEPT !.hyps[id] = Attached(@, e, supports)]
    /\ UNCHANGED <<resume, checkpoint, running, up, invoked, crashes, saveFailures>>

ValidateHypothesisByStatus(id) ==
    /\ Idle
    /\ state.status = "HYPOTHESIS_TESTING"
    /\ state.hyps[id].status = "SUPPORTED"
    /\ Commit([state EXCEPT !.status = "ROOT_CAUSE_FOUND", !.rootCause = id], resume)
    /\ UNCHANGED <<running, up, invoked, crashes>>

(* validate_hypothesis and apply_root_cause_validation.  A rejected         *)
(* hypothesis makes the validator raise.                                   *)
ValidateHypothesis(id) ==
    /\ Idle
    /\ state.status = "HYPOTHESIS_TESTING"
    /\ CanValidate(state.hyps[id])
    /\ \/ /\ Validated(state.hyps[id], state.evidence)
          /\ Commit([state EXCEPT !.status = "ROOT_CAUSE_FOUND", !.rootCause = id], resume)
       \/ /\ ~Validated(state.hyps[id], state.evidence)
          /\ Commit([state EXCEPT !.hyps[id] = AfterFailedValidation(@)], resume)
    /\ UNCHANGED <<running, up, invoked, crashes>>

(* The retry and the permission to replay the last completed step.          *)
RequestMoreEvidence ==
    /\ Idle
    /\ state.status = "HYPOTHESIS_TESTING"
    /\ state.retries < MaxRetries
    /\ Commit([state EXCEPT !.retries = @ + 1, !.status = "EXECUTING"],
              [resume EXCEPT !.replay = resume.last])
    /\ UNCHANGED <<running, up, invoked, crashes>>

-----------------------------------------------------------------------------
Crash ==
    /\ up
    /\ crashes < MaxCrashes
    /\ crashes' = crashes + 1
    /\ up' = FALSE
    /\ running' = None
    /\ state' = checkpoint.state
    /\ resume' = checkpoint.resume
    /\ UNCHANGED <<checkpoint, invoked, saveFailures>>

(* restore_snapshot raises for a hypothesis whose evidence is not there.    *)
Restorable(s) == \A id \in Hypotheses : EvidenceIds(s.hyps[id]) \subseteq s.evidence

Restore ==
    /\ ~up
    /\ Restorable(checkpoint.state)
    /\ up' = TRUE
    /\ UNCHANGED <<state, resume, checkpoint, running, invoked, crashes, saveFailures>>

Next ==
    \/ \E target \in IncidentStatuses : PublicTransition(target)
    \/ PreparePlan
    \/ \E s \in Steps : BeginTool(s) \/ BlockTool(s)
    \/ ToolSucceeds
    \/ ToolFails
    \/ \E e \in Evidence : RegisterEvidence(e)
    \/ \E id \in Hypotheses, e \in Evidence, supports \in BOOLEAN :
          AttachEvidence(id, e, supports)
    \/ \E id \in Hypotheses : ValidateHypothesis(id)
    \/ RequestMoreEvidence
    \/ Crash
    \/ Restore

Spec == Init /\ [][Next]_vars

-----------------------------------------------------------------------------
(* A recorded root cause, in memory and on disk, is a hypothesis that the   *)
(* validator accepts on the evidence stored beside it, and there is no     *)
(* other way into ROOT_CAUSE_FOUND.                                        *)
RootCauseIsEvidenced ==
    \A s \in {state, checkpoint.state} :
       /\ s.status = "ROOT_CAUSE_FOUND" <=> s.rootCause # None
       /\ s.rootCause # None => Validated(s.hyps[s.rootCause], s.evidence)

(* The tool budget bounds real tool runs, not only counted ones: each crash *)
(* and each failed save can hide one run from the counters, never more.    *)
ToolRunsAreAccounted ==
    /\ invoked <= state.calls + crashes + saveFailures
    /\ state.calls <= MaxToolCalls

(* No exact call is made more often than the policy allows, plus one per    *)
(* retry that was asked for.                                               *)
DuplicatesArePaidFor ==
    \A f \in Fingerprints : state.fpCount[f] <= MaxDuplicateCalls + state.retries

(* A replay that request_more_evidence authorised is never refused as a     *)
(* duplicate call: the cursor and the guardrail events name the same step, *)
(* in memory and after a restart.                                          *)
ReplayIsRunnable ==
    Idle /\ state.status = "EXECUTING" /\ resume.replay # None
        => ~Duplicate(resume.replay)

(* The newest checkpoint can always be restored.                           *)
CheckpointIsRestorable == Restorable(checkpoint.state)

(* A step that is durably complete only runs again when a retry authorised  *)
(* exactly that step and was itself recorded in memory.                    *)
CompletedRunsAgainOnlyByRetry ==
    [][\A s \in Steps :
          running # s /\ running' = s /\ s \in checkpoint.resume.completed
             => resume.replay = s /\ state.retries > 0]_vars

(* What the durable record says is complete stays complete, with its call   *)
(* counted.                                                                *)
CompletionIsDurable ==
    [][/\ checkpoint.resume.completed \subseteq checkpoint'.resume.completed
       /\ Cardinality(checkpoint'.resume.completed) <= checkpoint'.state.calls]_vars

(* Refinement: the durable incident has one diagnosis and stays closed.     *)
Durable == INSTANCE IncidentLifecycle WITH
    Causes  <- Hypotheses,
    NoCause <- None,
    phase   <- CASE checkpoint.state.status = "ROOT_CAUSE_FOUND"  -> "diagnosed"
                 [] checkpoint.state.status \in TerminalStatuses -> "closed"
                 [] OTHER                                        -> "investigating",
    cause   <- checkpoint.state.rootCause

ImplementsLifecycle == Durable!Spec
=============================================================================
