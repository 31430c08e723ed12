------------------------ MODULE HarnessGraphProofs ------------------------
(***************************************************************************)
(* For every plan, policy and number of crashes and failed saves: what the *)
(* newest checkpoint says and what memory says stay sound on their own and *)
(* consistent with each other.                                             *)
(*                                                                         *)
(* The argument.  A pair of a state and its resume metadata is Consistent  *)
(* when it is fit to be saved; while a tool runs, memory is consistent but *)
(* for the call under way (busy).  Every action that saves produces a      *)
(* consistent pair, so the checkpoint is one whether or not the save       *)
(* succeeded, and a restart loads one.  What relates memory to the         *)
(* checkpoint is Ahead: memory has completed at least the durable steps,   *)
(* a durable end is the end in memory too, and each tool run that the      *)
(* durable counters miss is either under way or paid for by a fault.       *)
(***************************************************************************)
EXTENDS HarnessGraph, FiniteSetTheorems, TLAPS

(* ROOT_CAUSE_FOUND is the status of an incident with a valid root cause.   *)
Diagnosed(s) ==
    /\ s.status = "ROOT_CAUSE_FOUND" <=> s.rootCause # None
    /\ s.rootCause # None => Validated(s.hyps[s.rootCause], s.evidence)

(* A replay that was authorised and not used yet keeps one call in reserve. *)
Reserve(s, r, busy) ==
    IF r.replay # None /\ ~busy /\ s.status \notin TerminalStatuses THEN s.retries - 1
                                                                    ELSE s.retries

Paid(s, r, busy) ==
    \A f \in Fingerprints : s.fpCount[f] <= MaxDuplicateCalls + Reserve(s, r, busy)

Counted(s, r, busy) ==
    /\ s.calls <= MaxToolCalls
    /\ IsFiniteSet(r.completed)
    /\ Cardinality(r.completed) + (IF busy THEN 1 ELSE 0) <= s.calls

(* The resume cursor and the guardrail events name the same step.           *)
Cursor(s, r, busy) ==
    /\ r.last # None => r.last \in r.completed
    /\ r.replay # None => s.retries > 0 /\ r.replay = r.last
    /\ s.status \notin TerminalStatuses /\ ~busy => s.lastPreflight = r.last

Consistent(s, r, busy) ==
    /\ s \in IncidentState
    /\ r \in ResumeMetadata
    /\ Diagnosed(s)
    /\ Paid(s, r, busy)
    /\ Counted(s, r, busy)
    /\ Cursor(s, r, busy)
    /\ AttachRegisteredOnly => Restorable(s)

(* An incident that no action but a restart can change any more.            *)
Over(s) == s.status \in TerminalStatuses \cup {"ROOT_CAUSE_FOUND"}

Ahead ==
    /\ checkpoint.resume.completed \subseteq resume.completed
    /\ Over(checkpoint.state) => /\ state.status = checkpoint.state.status
                                 /\ state.rootCause = checkpoint.state.rootCause
    /\ invoked <= state.calls + crashes + saveFailures
    /\ invoked <= checkpoint.state.calls + crashes + saveFailures
                    + (IF running = None THEN 0 ELSE 1)

Running ==
    running # None => up /\ state.status = "EXECUTING" /\ state.lastPreflight = running

IInv ==
    /\ TypeOK
    /\ Consistent(checkpoint.state, checkpoint.resume, FALSE)
    /\ Consistent(state, resume, running # None)
    /\ Ahead
    /\ Running

-----------------------------------------------------------------------------
(* What the incident needs to know of the operators on one hypothesis.      *)
LEMMA NewHypothesisFacts ==
    ASSUME NEW id \in Hypotheses
    PROVE  NewHypothesis(id) \in HypothesisState /\ EvidenceIds(NewHypothesis(id)) = {}
BY ConfidenceAssumption DEF NewHypothesis, HypothesisState, Statuses, EvidenceIds

LEMMA EvaluatedFacts ==
    ASSUME NEW h \in HypothesisState
    PROVE  /\ Evaluated(h) \in HypothesisState
           /\ EvidenceIds(Evaluated(h)) = EvidenceIds(h)
BY DEF Evaluated, HypothesisState, Statuses, EvidenceIds

LEMMA AttachedFacts ==
    ASSUME NEW h \in HypothesisState, NEW e \in Evidence, NEW supports \in BOOLEAN
    PROVE  /\ Attached(h, e, supports) \in HypothesisState
           /\ EvidenceIds(Attached(h, e, supports)) = EvidenceIds(h) \cup {e}
<1> DEFINE g == [h EXCEPT !.supporting = @ \cup {e}, !.confidence = Clamp(@ + SupportDelta)]
           k == [h EXCEPT !.contradicting = @ \cup {e},
                          !.confidence = Clamp(@ - ContradictionDelta)]
<1>1. /\ Clamp(h.confidence + SupportDelta) \in 0..100
      /\ Clamp(h.confidence - ContradictionDelta) \in 0..100
    BY DEF HypothesisState, Clamp, SupportDelta, ContradictionDelta
<1>2. g \in HypothesisState /\ k \in HypothesisState
    BY <1>1 DEF HypothesisState
<1>3. /\ EvidenceIds(g) = EvidenceIds(h) \cup {e}
      /\ EvidenceIds(k) = EvidenceIds(h) \cup {e}
    BY DEF HypothesisState, EvidenceIds
<1>4. CASE e \in EvidenceIds(h)
    BY <1>4 DEF Attached
<1>5. CASE e \notin EvidenceIds(h)
    <2>1. Attached(h, e, supports) = IF supports THEN Evaluated(g) ELSE Evaluated(k)
        BY <1>5, Zenon DEF Attached
    <2> HIDE DEF g, k
    <2> QED
        BY <1>2, <1>3, <2>1, EvaluatedFacts
<1> QED
    BY <1>4, <1>5

LEMMA TestingFacts ==
    ASSUME NEW h \in HypothesisState
    PROVE  LET t == [h EXCEPT !.status = "TESTING"] IN
             t \in HypothesisState /\ EvidenceIds(t) = EvidenceIds(h)
BY DEF HypothesisState, Statuses, EvidenceIds

(* Registering more evidence does not take a validation back.               *)
LEMMA ValidationSurvivesRegistration ==
    ASSUME NEW h, NEW old, NEW new, old \subseteq new, Validated(h, old)
    PROVE  Validated(h, new)
<1>1. h.supporting \cap old = h.supporting /\ h.supporting \cap new = h.supporting
    BY DEF Validated, EvidenceIds
<1>2. IndependentSources(h, new) = IndependentSources(h, old)
    BY <1>1 DEF IndependentSources
<1> QED
    BY <1>2 DEF Validated

-----------------------------------------------------------------------------
LEMMA TypeFacts ==
    ASSUME IInv
    PROVE  /\ state \in IncidentState
           /\ resume \in ResumeMetadata
           /\ Consistent(state, resume, running # None)
           /\ running = None => Consistent(state, resume, FALSE)
           /\ \A s \in Steps : s # None
           /\ \A id \in Hypotheses : id # None
BY StepsAssumption, Zenon DEF IInv, Consistent

(* A save, whether it succeeds or raises, of a consistent pair that counts  *)
(* what memory counted and forgets no completed step.                      *)
LEMMA CommitInv ==
    ASSUME IInv, NEW s, NEW r, Commit(s, r), running' = None, UNCHANGED <<up, invoked, crashes>>,
           Consistent(s, r, FALSE),
           ~Over(state),
           s.calls = state.calls,
           resume.completed \subseteq r.completed
    PROVE  IInv'
<1>1. state' = s /\ resume' = r /\ (running' # None) = FALSE
    BY DEF Commit
<1>2. \/ checkpoint' = [state |-> s, resume |-> r] /\ saveFailures' = saveFailures
      \/ checkpoint' = checkpoint /\ saveFailures' = saveFailures + 1
    BY DEF Commit
<1>3. Consistent(checkpoint.state, checkpoint.resume, FALSE) /\ ~Over(checkpoint.state)
    BY DEF IInv, Ahead, Over
<1>4. Consistent(checkpoint'.state, checkpoint'.resume, FALSE)
    <2>1. CASE checkpoint' = [state |-> s, resume |-> r]
        <3>1. checkpoint'.state = s /\ checkpoint'.resume = r
            BY <2>1
        <3> QED
            BY <3>1
    <2>2. CASE checkpoint' = checkpoint
        BY <1>3, <2>2
    <2> QED
        BY <1>2, <2>1, <2>2
<1>5. Consistent(state', resume', running' # None)
    BY <1>1
<1>6. checkpoint' \in [state : IncidentState, resume : ResumeMetadata]
    BY <1>2 DEF IInv, TypeOK, Consistent
<1>7. TypeOK'
    BY <1>1, <1>2, <1>6 DEF IInv, TypeOK, Consistent
<1>8. checkpoint'.state.calls \in Nat /\ state.calls \in Nat /\ checkpoint.state.calls \in Nat
    BY <1>6 DEF IInv, TypeOK, IncidentState
<1>9. Ahead'
    <2>1. checkpoint'.resume.completed \subseteq resume'.completed
        BY <1>1, <1>2 DEF IInv, Ahead
    <2>2. Over(checkpoint'.state) => /\ state'.status = checkpoint'.state.status
                                     /\ state'.rootCause = checkpoint'.state.rootCause
        BY <1>1, <1>2, <1>3
    <2>3. /\ invoked' <= state'.calls + crashes' + saveFailures'
          /\ invoked' <= checkpoint'.state.calls + crashes' + saveFailures'
        BY <1>1, <1>2, <1>8 DEF IInv, TypeOK, Ahead
    <2> QED
        BY <2>1, <2>2, <2>3, <1>6, <1>7 DEF Ahead, TypeOK, IncidentState
<1> QED
    BY <1>4, <1>5, <1>7, <1>9 DEF IInv, Running

LEMMA InitInv == Init => IInv
<1> SUFFICES ASSUME Init
             PROVE  IInv
    OBVIOUS
<1>1. NewIncident \in IncidentState
    BY NewHypothesisFacts
    DEF NewIncident, IncidentState, IncidentStatuses
<1>2. NewResume \in ResumeMetadata
    BY DEF NewResume, ResumeMetadata
<1>3. Restorable(NewIncident)
    BY NewHypothesisFacts DEF Restorable, NewIncident
<1>4. IsFiniteSet({}) /\ Cardinality({}) = 0
    BY FS_EmptySet
<1>5. Consistent(NewIncident, NewResume, FALSE)
    BY <1>1, <1>2, <1>3, <1>4, PolicyAssumption
    DEF Consistent, Diagnosed, Paid, Reserve, Counted, Cursor, NewIncident, NewResume
<1>6. TypeOK
    BY <1>1, <1>2 DEF Init, TypeOK
<1>7. Ahead
    BY DEF Init, Ahead, Over, NewIncident, TerminalStatuses
<1> QED
    BY <1>5, <1>6, <1>7 DEF Init, IInv, Running

(* The status edges of transition().                                       *)
LEMMA PublicTransitionInv ==
    ASSUME IInv, NEW target \in IncidentStatuses, PublicTransition(target)
    PROVE  IInv'
<1> DEFINE s == [state EXCEPT !.status = target]
<1>1. /\ state \in IncidentState /\ resume \in ResumeMetadata
      /\ Consistent(state, resume, FALSE)
    BY TypeFacts DEF PublicTransition, Idle
<1>2. ~Over(state) /\ target # "ROOT_CAUSE_FOUND"
    BY DEF PublicTransition, PublicTargets, Over, TerminalStatuses
<1>3. /\ s \in IncidentState
      /\ s.status = target /\ s.calls = state.calls /\ s.retries = state.retries
      /\ s.rootCause = state.rootCause /\ s.fpCount = state.fpCount
      /\ s.lastPreflight = state.lastPreflight
      /\ s.hyps = state.hyps /\ s.evidence = state.evidence
    BY <1>1 DEF IncidentState
<1>4. Consistent(s, resume, FALSE)
    <2> HIDE DEF s
    <2>1. state.retries \in Nat
        BY <1>1 DEF IncidentState
    <2>2. Diagnosed(s)
        BY <1>1, <1>2, <1>3 DEF Consistent, Diagnosed, Over
    <2>3. Paid(s, resume, FALSE)
        BY <1>1, <1>2, <1>3, <2>1, PolicyAssumption
        DEF Consistent, Paid, Reserve, Over, IncidentState
    <2>4. Counted(s, resume, FALSE) /\ Cursor(s, resume, FALSE)
        BY <1>1, <1>2, <1>3 DEF Consistent, Counted, Cursor, Over
    <2>5. AttachRegisteredOnly => Restorable(s)
        BY <1>1, <1>3 DEF Consistent, Restorable
    <2> QED
        BY <1>1, <1>3, <2>2, <2>3, <2>4, <2>5 DEF Consistent
<1> QED
    <2> HIDE DEF s
    <2>1. Commit(s, resume) /\ running' = None /\ UNCHANGED <<up, invoked, crashes>>
        BY DEF PublicTransition, Idle, s
    <2> QED
        BY <1>2, <1>3, <1>4, <2>1, CommitInv

LEMMA PreparePlanInv == ASSUME IInv, PreparePlan PROVE IInv'
<1> DEFINE s == [state EXCEPT !.planned = TRUE]
<1>1. /\ state \in IncidentState /\ resume \in ResumeMetadata
      /\ Consistent(state, resume, FALSE)
    BY TypeFacts DEF PreparePlan, Idle
<1>2. ~Over(state)
    BY DEF PreparePlan, Over, TerminalStatuses
<1>3. /\ s \in IncidentState
      /\ s.status = state.status /\ s.calls = state.calls /\ s.retries = state.retries
      /\ s.rootCause = state.rootCause /\ s.fpCount = state.fpCount
      /\ s.lastPreflight = state.lastPreflight
      /\ s.hyps = state.hyps /\ s.evidence = state.evidence
    BY <1>1 DEF IncidentState
<1> HIDE DEF s
<1>4. Consistent(s, resume, FALSE)
    BY <1>1, <1>3 DEF Consistent, Diagnosed, Paid, Reserve, Counted, Cursor, Restorable
<1>5. Commit(s, resume) /\ running' = None /\ UNCHANGED <<up, invoked, crashes>>
    BY DEF PreparePlan, Idle, s
<1> QED
    BY <1>2, <1>3, <1>4, <1>5, CommitInv

(* A call that is let through although it is a duplicate is the replay that *)
(* was authorised, and uses the call held in reserve for it.               *)
LEMMA BeginToolInv == ASSUME IInv, NEW s \in Steps, BeginTool(s) PROVE IInv'
<1> DEFINE f == Fingerprint[s]
           sql == state.sqlCalls + (IF s \in SqlSteps THEN 1 ELSE 0)
           fp == [state.fpCount EXCEPT ![f] = state.fpCount[f] + 1]
<1>1. /\ state \in IncidentState /\ resume \in ResumeMetadata
      /\ Consistent(state, resume, FALSE)
      /\ up /\ running = None /\ state.status = "EXECUTING"
      /\ s \in resume.completed => resume.replay = s
      /\ s # None
    BY TypeFacts DEF BeginTool, Executable, Idle
<1>2. f \in Fingerprints
    BY DEF Fingerprints
<1>3. /\ state.calls \in Nat /\ state.sqlCalls \in Nat /\ state.retries \in Nat
      /\ state.fpCount \in [Fingerprints -> Nat]
    BY <1>1 DEF IncidentState
<1>4. state' = [state EXCEPT !.calls = state.calls + 1,
                             !.sqlCalls = sql,
                             !.fpCount = fp,
                             !.lastPreflight = s]
    BY <1>1, <1>3 DEF BeginTool, IncidentState
<1>5. /\ state' \in IncidentState
      /\ state'.status = state.status /\ state'.calls = state.calls + 1
      /\ state'.retries = state.retries /\ state'.rootCause = state.rootCause
      /\ state'.fpCount = fp /\ state'.lastPreflight = s
      /\ state'.hyps = state.hyps /\ state'.evidence = state.evidence
    <2>1. fp \in [Fingerprints -> Nat] /\ sql \in Nat
        BY <1>2, <1>3
    <2> HIDE DEF fp, sql, f
    <2>2. state.calls + 1 \in Nat
        BY <1>3
    <2>3. /\ state'.status = state.status /\ state'.calls = state.calls + 1
          /\ state'.retries = state.retries /\ state'.rootCause = state.rootCause
          /\ state'.fpCount = fp /\ state'.lastPreflight = s
          /\ state'.hyps = state.hyps /\ state'.evidence = state.evidence
        BY <1>1, <1>4 DEF IncidentState
    <2>4. state' \in IncidentState
        BY <1>1, <1>4, <2>1, <2>2 DEF IncidentState
    <2> QED
        BY <2>3, <2>4
<1>6. /\ running' = s /\ invoked' = invoked + 1 /\ resume' = resume /\ checkpoint' = checkpoint
      /\ up' = up /\ crashes' = crashes /\ saveFailures' = saveFailures
    BY DEF BeginTool
<1>7. state.calls < MaxToolCalls /\ ~Duplicate(s)
    BY <1>3, PolicyAssumption DEF BeginTool, Allowed, OverBudget
<1>8. state.fpCount[f] + 1 <= MaxDuplicateCalls + state.retries
    <2>1. CASE state.fpCount[f] < MaxDuplicateCalls
        BY <1>2, <1>3, <2>1, PolicyAssumption
    <2>2. CASE ~(state.fpCount[f] < MaxDuplicateCalls)
        <3>1. state.retries > 0 /\ state.lastPreflight = s
            BY <1>2, <1>3, <1>7, <2>2, PolicyAssumption DEF Duplicate, IsExplicitRetryReplay
        <3>2. resume.last = s /\ s \in resume.completed
            BY <1>1, <3>1 DEF Consistent, Cursor, TerminalStatuses
        <3>3. resume.replay # None
            BY <1>1, <3>2
        <3>4. state.fpCount[f] <= MaxDuplicateCalls + (state.retries - 1)
            BY <1>1, <1>2, <3>3 DEF Consistent, Paid, Reserve, TerminalStatuses
        <3> QED
            BY <1>2, <1>3, <3>4, PolicyAssumption
    <2> QED
        BY <2>1, <2>2
<1>9. Consistent(state', resume', running' # None)
    <2>1. Diagnosed(state')
        BY <1>1, <1>5 DEF Consistent, Diagnosed
    <2>2. \A g \in Fingerprints : state'.fpCount[g] <= MaxDuplicateCalls + state.retries
        <3> SUFFICES ASSUME NEW g \in Fingerprints
                     PROVE  state'.fpCount[g] <= MaxDuplicateCalls + state.retries
            OBVIOUS
        <3>1. state.fpCount[g] <= MaxDuplicateCalls + state.retries
            BY <1>1, <1>3, PolicyAssumption DEF Consistent, Paid, Reserve
        <3> HIDE DEF f
        <3> QED
            BY <1>2, <1>3, <1>5, <1>8, <3>1
    <2>3. Paid(state', resume', TRUE)
        BY <1>5, <2>2 DEF Paid, Reserve
    <2>4. Counted(state', resume', TRUE)
        <3>1. Cardinality(resume.completed) \in Nat
            BY <1>1, FS_CardinalityType DEF Consistent, Counted
        <3> QED
            BY <1>1, <1>3, <1>5, <1>6, <1>7, <3>1, PolicyAssumption DEF Consistent, Counted
    <2>5. Cursor(state', resume', TRUE)
        BY <1>1, <1>5, <1>6 DEF Consistent, Cursor
    <2>6. AttachRegisteredOnly => Restorable(state')
        BY <1>1, <1>5 DEF Consistent, Restorable
    <2>7. Consistent(state', resume', TRUE)
        BY <1>1, <1>5, <1>6, <2>1, <2>3, <2>4, <2>5, <2>6 DEF Consistent
    <2> QED
        BY <1>1, <1>6, <2>7
<1>10. Ahead'
    <2>1. checkpoint.state.calls \in Nat
        BY DEF IInv, TypeOK, IncidentState
    <2>2. ~Over(checkpoint.state)
        BY <1>1 DEF IInv, Ahead, Over, TerminalStatuses
    <2> QED
        BY <1>1, <1>3, <1>5, <1>6, <2>1, <2>2 DEF IInv, TypeOK, Ahead
<1>11. TypeOK'
    BY <1>1, <1>5, <1>6 DEF IInv, TypeOK
<1>12. Running'
    BY <1>1, <1>5, <1>6 DEF Running
<1> QED
    BY <1>6, <1>9, <1>10, <1>11, <1>12 DEF IInv

LEMMA BlockToolInv == ASSUME IInv, NEW s \in Steps, BlockTool(s) PROVE IInv'
<1> DEFINE target == IF s \notin UnsafeSteps /\ OverBudget(s) THEN "BUDGET_EXCEEDED"
                                                              ELSE "TOOL_FAILED"
           t == [state EXCEPT !.lastPreflight = None, !.status = target]
<1>1. /\ state \in IncidentState /\ resume \in ResumeMetadata
      /\ Consistent(state, resume, FALSE)
      /\ state.status = "EXECUTING"
    BY TypeFacts DEF BlockTool, Executable, Idle
<1>2. target \in TerminalStatuses /\ target \in IncidentStatuses /\ target # "ROOT_CAUSE_FOUND"
    BY DEF TerminalStatuses, IncidentStatuses
<1>3. Commit(t, resume) /\ running' = None /\ UNCHANGED <<up, invoked, crashes>>
    BY DEF BlockTool, Executable, Idle
<1> HIDE DEF target
<1>4. /\ t \in IncidentState
      /\ t.status = target /\ t.calls = state.calls /\ t.retries = state.retries
      /\ t.rootCause = state.rootCause /\ t.fpCount = state.fpCount
      /\ t.hyps = state.hyps /\ t.evidence = state.evidence
    BY <1>1, <1>2 DEF IncidentState
<1> HIDE DEF t
<1>5. Paid(t, resume, FALSE)
    <2>1. state.retries \in Nat /\ state.fpCount \in [Fingerprints -> Nat]
        BY <1>1 DEF IncidentState
    <2> QED
        BY <1>1, <1>2, <1>4, <2>1, PolicyAssumption DEF Consistent, Paid, Reserve
<1>6. Consistent(t, resume, FALSE)
    BY <1>1, <1>2, <1>4, <1>5 DEF Consistent, Diagnosed, Counted, Cursor, Restorable
<1> QED
    BY <1>1, <1>3, <1>4, <1>6, CommitInv DEF Over, TerminalStatuses

LEMMA ToolSucceedsInv == ASSUME IInv, ToolSucceeds PROVE IInv'
<1>1. /\ state \in IncidentState /\ resume \in ResumeMetadata
      /\ Consistent(state, resume, TRUE)
      /\ running # None /\ running \in Steps
      /\ state.status = "EXECUTING" /\ state.lastPreflight = running
    <2>1. running # None
        BY DEF ToolSucceeds
    <2> QED
        BY <2>1, TypeFacts DEF IInv, TypeOK, Running
<1>2. PICK refs \in {{}} \cup {{e} : e \in Evidence \ state.evidence} :
         Commit([state EXCEPT !.traced = TRUE,
                              !.evidence = state.evidence \cup refs,
                              !.status = "VALIDATING"],
                [completed |-> resume.completed \cup {running},
                 last      |-> running,
                 replay    |-> None])
    BY <1>1 DEF ToolSucceeds, IncidentState
<1> DEFINE s == [state EXCEPT !.traced = TRUE,
                              !.evidence = state.evidence \cup refs,
                              !.status = "VALIDATING"]
           r == [completed |-> resume.completed \cup {running},
                 last      |-> running,
                 replay    |-> None]
<1>3. /\ s \in IncidentState
      /\ s.status = "VALIDATING" /\ s.calls = state.calls /\ s.retries = state.retries
      /\ s.rootCause = state.rootCause /\ s.fpCount = state.fpCount
      /\ s.lastPreflight = state.lastPreflight
      /\ s.hyps = state.hyps /\ state.evidence \subseteq s.evidence
    BY <1>1 DEF IncidentState, IncidentStatuses
<1>4. /\ r \in ResumeMetadata
      /\ r.completed = resume.completed \cup {running}
      /\ r.last = running /\ r.replay = None
    BY <1>1 DEF ResumeMetadata
<1>5. Commit(s, r) /\ running' = None /\ UNCHANGED <<up, invoked, crashes>>
    BY <1>2 DEF ToolSucceeds
<1> HIDE DEF s, r
<1>6. Paid(s, r, FALSE)
    BY <1>1, <1>3, <1>4 DEF Consistent, Paid, Reserve
<1>7. Counted(s, r, FALSE)
    <2>1. /\ IsFiniteSet(resume.completed)
          /\ Cardinality(resume.completed) \in Nat
          /\ Cardinality(resume.completed) + 1 <= state.calls
          /\ state.calls <= MaxToolCalls /\ state.calls \in Nat
        BY <1>1, FS_CardinalityType DEF Consistent, Counted, IncidentState
    <2>2. /\ IsFiniteSet(r.completed)
          /\ \/ Cardinality(r.completed) = Cardinality(resume.completed)
             \/ Cardinality(r.completed) = Cardinality(resume.completed) + 1
        BY <1>4, <2>1, FS_AddElement
    <2> QED
        BY <1>3, <2>1, <2>2, PolicyAssumption DEF Counted
<1>8. Consistent(s, r, FALSE)
    BY <1>1, <1>3, <1>4, <1>6, <1>7 DEF Consistent, Diagnosed, Cursor, Restorable
<1> QED
    BY <1>1, <1>3, <1>4, <1>5, <1>8, CommitInv DEF Over, TerminalStatuses

LEMMA ToolFailsInv == ASSUME IInv, ToolFails PROVE IInv'
<1> DEFINE s == [state EXCEPT !.traced = TRUE, !.status = "TOOL_FAILED"]
<1>1. /\ state \in IncidentState /\ resume \in ResumeMetadata
      /\ Consistent(state, resume, TRUE)
      /\ state.status = "EXECUTING"
    <2>1. running # None
        BY DEF ToolFails
    <2> QED
        BY <2>1, TypeFacts DEF IInv, Running
<1>2. /\ s \in IncidentState
      /\ s.status = "TOOL_FAILED" /\ s.calls = state.calls /\ s.retries = state.retries
      /\ s.rootCause = state.rootCause /\ s.fpCount = state.fpCount
      /\ s.hyps = state.hyps /\ s.evidence = state.evidence
    BY <1>1 DEF IncidentState, IncidentStatuses
<1>3. Commit(s, resume) /\ running' = None /\ UNCHANGED <<up, invoked, crashes>>
    BY DEF ToolFails
<1> HIDE DEF s
<1>4. Paid(s, resume, FALSE)
    BY <1>1, <1>2 DEF Consistent, Paid, Reserve, TerminalStatuses
<1>5. Counted(s, resume, FALSE)
    <2>1. Cardinality(resume.completed) \in Nat /\ state.calls \in Nat
        BY <1>1, FS_CardinalityType DEF Consistent, Counted, IncidentState
    <2> QED
        BY <1>1, <1>2, <2>1 DEF Consistent, Counted
<1>6. Consistent(s, resume, FALSE)
    BY <1>1, <1>2, <1>4, <1>5 DEF Consistent, Diagnosed, Cursor, Restorable, TerminalStatuses
<1> QED
    BY <1>1, <1>2, <1>3, <1>6, CommitInv DEF Over, TerminalStatuses

(* A change of evidence or hypotheses that only memory sees.                *)
LEMMA MemoryInv ==
    ASSUME IInv, running = None,
           UNCHANGED <<resume, checkpoint, running, up, invoked, crashes, saveFailures>>,
           Consistent(state', resume, FALSE),
           state'.status = state.status,
           state'.rootCause = state.rootCause,
           state'.calls = state.calls
    PROVE  IInv'
<1>1. Consistent(state', resume', running' # None)
    BY Zenon
<1>2. Consistent(checkpoint'.state, checkpoint'.resume, FALSE)
    BY DEF IInv
<1>3. TypeOK'
    BY DEF IInv, TypeOK, Consistent
<1>4. Ahead'
    BY DEF IInv, Ahead
<1> QED
    BY <1>1, <1>2, <1>3, <1>4 DEF IInv, Running

LEMMA RegisterEvidenceInv == ASSUME IInv, NEW e \in Evidence, RegisterEvidence(e) PROVE IInv'
<1>1. /\ state \in IncidentState /\ resume \in ResumeMetadata
      /\ Consistent(state, resume, FALSE)
      /\ running = None
    BY TypeFacts DEF RegisterEvidence, Idle
<1>2. state' = [state EXCEPT !.evidence = state.evidence \cup {e}]
    BY <1>1 DEF RegisterEvidence, IncidentState
<1>3. /\ state' \in IncidentState
      /\ state'.status = state.status /\ state'.calls = state.calls
      /\ state'.retries = state.retries /\ state'.rootCause = state.rootCause
      /\ state'.fpCount = state.fpCount /\ state'.lastPreflight = state.lastPreflight
      /\ state'.hyps = state.hyps /\ state.evidence \subseteq state'.evidence
    BY <1>1, <1>2 DEF IncidentState
<1>4. Diagnosed(state')
    BY <1>1, <1>3, ValidationSurvivesRegistration DEF Consistent, Diagnosed
<1>5. Consistent(state', resume, FALSE)
    BY <1>1, <1>3, <1>4 DEF Consistent, Paid, Reserve, Counted, Cursor, Restorable
<1> QED
    BY <1>1, <1>3, <1>5, MemoryInv DEF RegisterEvidence

(* A validated hypothesis is SUPPORTED, and evidence is not attached to it. *)
LEMMA AttachEvidenceInv ==
    ASSUME IInv, NEW id \in Hypotheses, NEW e \in Evidence, NEW supports \in BOOLEAN,
           AttachEvidence(id, e, supports)
    PROVE  IInv'
<1> DEFINE h == state.hyps[id]
           g == Attached(h, e, supports)
<1>1. /\ state \in IncidentState /\ resume \in ResumeMetadata
      /\ Consistent(state, resume, FALSE)
      /\ running = None
      /\ AttachRegisteredOnly => e \in state.evidence
      /\ CanAttach(h, e, supports)
    BY TypeFacts DEF AttachEvidence, Idle
<1>2. state.hyps \in [Hypotheses -> HypothesisState]
    BY <1>1 DEF IncidentState
<1>3. g \in HypothesisState /\ EvidenceIds(g) = EvidenceIds(h) \cup {e}
    BY <1>1, <1>2, AttachedFacts
<1>4. state' = [state EXCEPT !.hyps = [state.hyps EXCEPT ![id] = g]]
    BY <1>1 DEF AttachEvidence, IncidentState
<1> DEFINE hs == [state.hyps EXCEPT ![id] = g]
<1>5. /\ hs \in [Hypotheses -> HypothesisState]
      /\ hs[id] = g
      /\ \A i \in Hypotheses \ {id} : hs[i] = state.hyps[i]
    <2> HIDE DEF g
    <2> QED
        BY <1>2, <1>3
<1>6. state' = [state EXCEPT !.hyps = hs]
    BY <1>4
<1> HIDE DEF hs
<1>7. /\ state' \in IncidentState
      /\ state'.status = state.status /\ state'.calls = state.calls
      /\ state'.retries = state.retries /\ state'.rootCause = state.rootCause
      /\ state'.fpCount = state.fpCount /\ state'.lastPreflight = state.lastPreflight
      /\ state'.hyps = hs /\ state'.evidence = state.evidence
    BY <1>1, <1>5, <1>6 DEF IncidentState
<1>8. Diagnosed(state')
    <2>1. state.rootCause # None => state.rootCause \in Hypotheses \ {id}
        BY <1>1 DEF Consistent, Diagnosed, Validated, CanAttach, IncidentState
    <2> QED
        BY <1>1, <1>5, <1>7, <2>1 DEF Consistent, Diagnosed
<1>9. AttachRegisteredOnly => Restorable(state')
    <2>1. AttachRegisteredOnly => \A i \in Hypotheses : EvidenceIds(state.hyps[i]) \subseteq state.evidence
        BY <1>1 DEF Consistent, Restorable
    <2> HIDE DEF g
    <2> QED
        BY <1>1, <1>3, <1>5, <1>7, <2>1 DEF Restorable
<1>10. Consistent(state', resume, FALSE)
    BY <1>1, <1>7, <1>8, <1>9 DEF Consistent, Paid, Reserve, Counted, Cursor
<1> QED
    BY <1>1, <1>7, <1>10, MemoryInv DEF AttachEvidence

LEMMA ValidateHypothesisInv ==
    ASSUME IInv, NEW id \in Hypotheses, ValidateHypothesis(id)
    PROVE  IInv'
<1>1. /\ state \in IncidentState /\ resume \in ResumeMetadata
      /\ Consistent(state, resume, FALSE)
      /\ running = None /\ state.status = "HYPOTHESIS_TESTING"
      /\ id # None
    BY TypeFacts DEF ValidateHypothesis, Idle
<1>2. running' = None /\ UNCHANGED <<up, invoked, crashes>>
    BY <1>1 DEF ValidateHypothesis
<1>3. ~Over(state)
    BY <1>1 DEF Over, TerminalStatuses
<1>4. CASE Validated(state.hyps[id], state.evidence)
    <2> DEFINE s == [state EXCEPT !.status = "ROOT_CAUSE_FOUND", !.rootCause = id]
    <2>1. Commit(s, resume)
        BY <1>4 DEF ValidateHypothesis
    <2>2. /\ s \in IncidentState
          /\ s.status = "ROOT_CAUSE_FOUND" /\ s.rootCause = id
          /\ s.calls = state.calls /\ s.retries = state.retries
          /\ s.fpCount = state.fpCount /\ s.lastPreflight = state.lastPreflight
          /\ s.hyps = state.hyps /\ s.evidence = state.evidence
        BY <1>1 DEF IncidentState, IncidentStatuses
    <2> HIDE DEF s
    <2>3. Diagnosed(s)
        BY <1>1, <1>4, <2>2 DEF Diagnosed
    <2>4. Consistent(s, resume, FALSE)
        BY <1>1, <2>2, <2>3
        DEF Consistent, Paid, Reserve, Counted, Cursor, Restorable, TerminalStatuses
    <2> QED
        BY <1>2, <1>3, <2>1, <2>2, <2>4, CommitInv, <1>1
<1>5. CASE ~Validated(state.hyps[id], state.evidence)
    <2> DEFINE g == AfterFailedValidation(state.hyps[id])
               hs == [state.hyps EXCEPT ![id] = g]
               s == [state EXCEPT !.hyps = hs]
    <2>1. Commit(s, resume)
        BY <1>1, <1>5 DEF ValidateHypothesis, IncidentState
    <2>2. state.hyps \in [Hypotheses -> HypothesisState]
        BY <1>1 DEF IncidentState
    <2>3. g \in HypothesisState /\ EvidenceIds(g) = EvidenceIds(state.hyps[id])
        BY <2>2, TestingFacts DEF AfterFailedValidation, EvidenceIds
    <2> HIDE DEF g
    <2>4. /\ hs \in [Hypotheses -> HypothesisState]
          /\ \A i \in Hypotheses : EvidenceIds(hs[i]) = EvidenceIds(state.hyps[i])
        BY <2>2, <2>3
    <2> HIDE DEF hs
    <2>5. /\ s \in IncidentState
          /\ s.status = state.status /\ s.calls = state.calls
          /\ s.retries = state.retries /\ s.rootCause = state.rootCause
          /\ s.fpCount = state.fpCount /\ s.lastPreflight = state.lastPreflight
          /\ s.hyps = hs /\ s.evidence = state.evidence
        BY <1>1, <2>4 DEF IncidentState
    <2> HIDE DEF s
    <2>6. Diagnosed(s)
        BY <1>1, <2>5 DEF Consistent, Diagnosed
    <2>7. Consistent(s, resume, FALSE)
        BY <1>1, <2>4, <2>5, <2>6 DEF Consistent, Paid, Reserve, Counted, Cursor, Restorable
    <2> QED
        BY <1>1, <1>2, <1>3, <2>1, <2>5, <2>7, CommitInv
<1> QED
    BY <1>4, <1>5

LEMMA RequestMoreEvidenceInv == ASSUME IInv, RequestMoreEvidence PROVE IInv'
<1> DEFINE s == [state EXCEPT !.retries = state.retries + 1, !.status = "EXECUTING"]
           r == [resume EXCEPT !.replay = resume.last]
<1>1. /\ state \in IncidentState /\ resume \in ResumeMetadata
      /\ Consistent(state, resume, FALSE)
      /\ running = None /\ state.status = "HYPOTHESIS_TESTING"
    BY TypeFacts DEF RequestMoreEvidence, Idle
<1>2. Commit(s, r) /\ running' = None /\ UNCHANGED <<up, invoked, crashes>>
    BY <1>1 DEF RequestMoreEvidence, IncidentState
<1>3. state.retries \in Nat /\ state.fpCount \in [Fingerprints -> Nat]
    BY <1>1 DEF IncidentState
<1>4. /\ s \in IncidentState
      /\ s.status = "EXECUTING" /\ s.calls = state.calls /\ s.retries = state.retries + 1
      /\ s.rootCause = state.rootCause /\ s.fpCount = state.fpCount
      /\ s.lastPreflight = state.lastPreflight
      /\ s.hyps = state.hyps /\ s.evidence = state.evidence
    <2>1. state.retries + 1 \in Nat
        BY <1>3
    <2>2. s \in IncidentState
        BY <1>1, <2>1 DEF IncidentState, IncidentStatuses
    <2> QED
        BY <1>1, <2>2 DEF IncidentState
<1>5. /\ r \in ResumeMetadata
      /\ r.completed = resume.completed /\ r.last = resume.last /\ r.replay = resume.last
    BY <1>1 DEF ResumeMetadata
<1> HIDE DEF s, r
<1>6. Paid(s, r, FALSE)
    BY <1>1, <1>3, <1>4, PolicyAssumption DEF Consistent, Paid, Reserve
<1>7. Cursor(s, r, FALSE)
    BY <1>1, <1>3, <1>4, <1>5 DEF Consistent, Cursor, TerminalStatuses
<1>8. Diagnosed(s) /\ Counted(s, r, FALSE) /\ (AttachRegisteredOnly => Restorable(s))
    BY <1>1, <1>4, <1>5 DEF Consistent, Diagnosed, Counted, Restorable
<1>9. Consistent(s, r, FALSE)
    BY <1>4, <1>5, <1>6, <1>7, <1>8 DEF Consistent
<1> QED
    BY <1>1, <1>2, <1>4, <1>5, <1>9, CommitInv DEF Over, TerminalStatuses

(* A restart takes both halves from one checkpoint.                         *)
LEMMA CrashInv == ASSUME IInv, Crash PROVE IInv'
<1>1. /\ state' = checkpoint.state /\ resume' = checkpoint.resume /\ running' = None
      /\ checkpoint' = checkpoint /\ invoked' = invoked /\ saveFailures' = saveFailures
      /\ crashes' = crashes + 1 /\ up' = FALSE
    BY DEF Crash
<1>2. Consistent(checkpoint.state, checkpoint.resume, FALSE)
    BY DEF IInv
<1>3. Consistent(state', resume', FALSE) /\ (running' # None) = FALSE
    BY <1>1, <1>2
<1>4. TypeOK'
    <2>1. state' \in IncidentState /\ resume' \in ResumeMetadata
        BY <1>3 DEF Consistent
    <2>2. crashes' \in Nat /\ running' \in Steps \cup {None}
        BY <1>1 DEF IInv, TypeOK
    <2>3. up' \in BOOLEAN
        BY <1>1, Zenon
    <2> QED
        BY <1>1, <2>1, <2>2, <2>3 DEF IInv, TypeOK
<1>5. Ahead'
    <2>1. checkpoint.state.calls \in Nat
        BY DEF IInv, TypeOK, IncidentState
    <2> QED
        BY <1>1, <2>1 DEF IInv, TypeOK, Ahead
<1> QED
    BY <1>1, <1>2, <1>3, <1>4, <1>5 DEF IInv, Running

LEMMA RestoreInv == ASSUME IInv, Restore PROVE IInv'
BY DEF Restore, IInv, TypeOK, Ahead, Running

LEMMA NextInv == IInv /\ [Next]_vars => IInv'
<1> SUFFICES ASSUME IInv, [Next]_vars
             PROVE  IInv'
    OBVIOUS
<1>1. CASE UNCHANGED vars
    BY <1>1 DEF vars, IInv, TypeOK, Ahead, Running
<1> QED
    BY <1>1, PublicTransitionInv, PreparePlanInv, BeginToolInv, BlockToolInv, ToolSucceedsInv,
       ToolFailsInv, RegisterEvidenceInv, AttachEvidenceInv, ValidateHypothesisInv,
       RequestMoreEvidenceInv, CrashInv, RestoreInv
    DEF Next

LEMMA Invariant == Spec => []IInv
<1> QED
    BY InitInv, NextInv, PTL DEF Spec

-----------------------------------------------------------------------------
(* Memory and the newest checkpoint keep their types.                       *)
THEOREM TypeCorrect == Spec => []TypeOK
<1>1. IInv => TypeOK
    BY DEF IInv
<1> QED
    BY <1>1, Invariant, PTL

(* ROOT_CAUSE_FOUND always stands on a validated hypothesis, in memory and  *)
(* on disk, whatever is attached, saved, lost or restarted.                *)
THEOREM RootCauseAlwaysEvidenced == Spec => []RootCauseIsEvidenced
<1>1. IInv => RootCauseIsEvidenced
    BY DEF IInv, Consistent, Diagnosed, RootCauseIsEvidenced
<1> QED
    BY <1>1, Invariant, PTL

(* The tool budget bounds tool runs, up to one per crash or failed save.    *)
THEOREM ToolRunsAlwaysAccounted == Spec => []ToolRunsAreAccounted
<1>1. IInv => ToolRunsAreAccounted
    BY DEF IInv, Consistent, Counted, Ahead, ToolRunsAreAccounted
<1> QED
    BY <1>1, Invariant, PTL

(* A repeated exact call is one the policy allows or a retry that was asked *)
(* for.                                                                    *)
THEOREM DuplicatesAlwaysPaidFor == Spec => []DuplicatesArePaidFor
<1>1. IInv => DuplicatesArePaidFor
    <2> SUFFICES ASSUME IInv, NEW f \in Fingerprints
                 PROVE  state.fpCount[f] <= MaxDuplicateCalls + state.retries
        BY DEF DuplicatesArePaidFor
    <2>1. state.retries \in Nat /\ state.fpCount[f] \in Nat
        BY TypeFacts DEF IncidentState
    <2>2. state.fpCount[f] <= MaxDuplicateCalls + Reserve(state, resume, running # None)
        BY DEF IInv, Consistent, Paid
    <2> QED
        BY <2>1, <2>2, PolicyAssumption DEF Reserve
<1> QED
    BY <1>1, Invariant, PTL

(* A replay that was authorised is never refused as a duplicate.            *)
THEOREM ReplayAlwaysRunnable == Spec => []ReplayIsRunnable
<1>1. IInv => ReplayIsRunnable
    BY TypeFacts
    DEF Idle, Consistent, Cursor, TerminalStatuses, ReplayIsRunnable, Duplicate, IsExplicitRetryReplay
<1> QED
    BY <1>1, Invariant, PTL

(* The newest checkpoint can be restored, given that callers bind only      *)
(* evidence they registered.                                               *)
THEOREM CheckpointAlwaysRestorable ==
    ASSUME AttachRegisteredOnly
    PROVE  Spec => []CheckpointIsRestorable
<1>1. IInv => CheckpointIsRestorable
    BY DEF IInv, Consistent, CheckpointIsRestorable
<1> QED
    BY <1>1, Invariant, PTL

(* A durably completed step runs again only as the replay of a retry.       *)
THEOREM CompletedOnlyRetried == Spec => CompletedRunsAgainOnlyByRetry
<1>1. IInv /\ [Next]_vars =>
        [\A s \in Steps :
            running # s /\ running' = s /\ s \in checkpoint.resume.completed
               => resume.replay = s /\ state.retries > 0]_vars
    <2> SUFFICES ASSUME IInv, [Next]_vars, NEW s \in Steps,
                        running # s, running' = s, s \in checkpoint.resume.completed
                 PROVE  resume.replay = s /\ state.retries > 0
        OBVIOUS
    <2>1. BeginTool(s)
        <3>1. s # None
            BY TypeFacts
        <3>2. \A t \in Steps : BeginTool(t) => t = s
            BY DEF BeginTool
        <3>3. \E t \in Steps : BeginTool(t)
            BY <3>1 DEF Next, vars, PublicTransition, PreparePlan, BlockTool, ToolSucceeds,
               ToolFails, RegisterEvidence, AttachEvidence, ValidateHypothesis,
               RequestMoreEvidence, Crash, Restore
        <3> QED
            BY <3>2, <3>3
    <2>2. s \in resume.completed /\ running = None
        BY <2>1 DEF IInv, Ahead, BeginTool, Executable, Idle
    <2>3. resume.replay = s /\ s # None
        BY <2>1, <2>2, TypeFacts DEF BeginTool, Executable
    <2> QED
        BY <2>2, <2>3, TypeFacts DEF Consistent, Cursor
<1> QED
    BY <1>1, Invariant, PTL DEF Spec, CompletedRunsAgainOnlyByRetry

-----------------------------------------------------------------------------
(* What one step may do to the newest checkpoint.                           *)
LEMMA CheckpointStep ==
    ASSUME IInv, [Next]_vars
    PROVE  \/ checkpoint' = checkpoint
           \/ /\ checkpoint' = [state |-> state', resume |-> resume']
              /\ resume.completed \subseteq resume'.completed
              /\ ~Over(state)
<1> DEFINE Saved == /\ checkpoint' = [state |-> state', resume |-> resume']
                    /\ resume.completed \subseteq resume'.completed
                    /\ ~Over(state)
<1> USE DEF Commit, Over, TerminalStatuses
<1>1. resume \in ResumeMetadata /\ state \in IncidentState
    BY TypeFacts
<1>2. ASSUME NEW target \in IncidentStatuses, PublicTransition(target)
      PROVE  checkpoint' = checkpoint \/ Saved
    BY <1>2 DEF PublicTransition, PublicTargets
<1>3. CASE PreparePlan
    BY <1>3 DEF PreparePlan
<1>4. ASSUME NEW s \in Steps, BlockTool(s)
      PROVE  checkpoint' = checkpoint \/ Saved
    BY <1>4 DEF BlockTool, Executable
<1>5. CASE ToolSucceeds
    <2>1. ~Over(state)
        BY <1>5 DEF IInv, Running, ToolSucceeds
    <2>2. PICK s, r : Commit(s, r) /\ r.completed = resume.completed \cup {running}
        BY <1>5 DEF ToolSucceeds
    <2> QED
        BY <2>1, <2>2
<1>6. CASE ToolFails
    BY <1>6 DEF IInv, Running, ToolFails
<1>7. ASSUME NEW id \in Hypotheses, ValidateHypothesis(id)
      PROVE  checkpoint' = checkpoint \/ Saved
    BY <1>7 DEF ValidateHypothesis
<1>8. CASE RequestMoreEvidence
    <2>1. resume'.completed = resume.completed
        BY <1>1, <1>8 DEF RequestMoreEvidence, ResumeMetadata
    <2> QED
        BY <1>8, <2>1 DEF RequestMoreEvidence
<1> QED
    BY <1>2, <1>3, <1>4, <1>5, <1>6, <1>7, <1>8
    DEF Next, vars, BeginTool, RegisterEvidence, AttachEvidence, Crash, Restore

(* A durably completed step stays complete, and its call counted.           *)
THEOREM DurableCompletion == Spec => CompletionIsDurable
<1>1. IInv /\ IInv' /\ [Next]_vars =>
        [/\ checkpoint.resume.completed \subseteq checkpoint'.resume.completed
         /\ Cardinality(checkpoint'.resume.completed) <= checkpoint'.state.calls]_vars
    <2> SUFFICES ASSUME IInv, IInv', [Next]_vars
                 PROVE  /\ checkpoint.resume.completed \subseteq checkpoint'.resume.completed
                        /\ Cardinality(checkpoint'.resume.completed) <= checkpoint'.state.calls
        OBVIOUS
    <2>1. checkpoint.resume.completed \subseteq checkpoint'.resume.completed
        <3>1. checkpoint.resume.completed \subseteq resume.completed
            BY DEF IInv, Ahead
        <3>2. CASE checkpoint' = checkpoint
            BY <3>2
        <3>3. CASE /\ checkpoint' = [state |-> state', resume |-> resume']
                   /\ resume.completed \subseteq resume'.completed
            <4>1. checkpoint'.resume = resume'
                BY <3>3
            <4> QED
                BY <3>1, <3>3, <4>1
        <3> QED
            BY <3>2, <3>3, CheckpointStep
    <2>2. Consistent(checkpoint'.state, checkpoint'.resume, FALSE)
        BY DEF IInv
    <2>3. /\ Cardinality(checkpoint'.resume.completed) \in Nat
          /\ Cardinality(checkpoint'.resume.completed) + 0 <= checkpoint'.state.calls
        BY <2>2, FS_CardinalityType DEF Consistent, Counted
    <2> QED
        BY <2>1, <2>3
<1> QED
    BY <1>1, Invariant, PTL DEF Spec, CompletionIsDurable

(* The durable record is an incident that is diagnosed at most once and     *)
(* that, once closed, stays closed.                                        *)
THEOREM RefinesIncidentLifecycle == Spec => ImplementsLifecycle
<1>1. Init => Durable!Init
    BY DEF Init, NewIncident, Durable!Init, TerminalStatuses
<1>2. IInv /\ IInv' /\ [Next]_vars
        => [Durable!Next]_<<CASE checkpoint.state.status = "ROOT_CAUSE_FOUND"  -> "diagnosed"
                              [] checkpoint.state.status \in TerminalStatuses -> "closed"
                              [] OTHER                                        -> "investigating",
                            checkpoint.state.rootCause>>
    <2> SUFFICES ASSUME IInv, IInv', [Next]_vars, checkpoint' # checkpoint
                 PROVE  Durable!Next \/ UNCHANGED <<
                            CASE checkpoint.state.status = "ROOT_CAUSE_FOUND"  -> "diagnosed"
                              [] checkpoint.state.status \in TerminalStatuses -> "closed"
                              [] OTHER                                        -> "investigating",
                            checkpoint.state.rootCause>>
        OBVIOUS
    <2>1. /\ ~Over(state)
          /\ ~Over(checkpoint.state)
        BY CheckpointStep DEF IInv, Ahead, Over
    <2>2. /\ Diagnosed(checkpoint.state) /\ Diagnosed(checkpoint'.state)
          /\ checkpoint'.state \in IncidentState
        BY DEF IInv, Consistent
    <2>3. checkpoint.state.rootCause = None
        BY <2>1, <2>2 DEF Diagnosed, Over
    <2>4. CASE checkpoint'.state.status = "ROOT_CAUSE_FOUND"
        <3>1. checkpoint'.state.rootCause \in Hypotheses
            BY <2>2, <2>4 DEF Diagnosed, IncidentState
        <3>2. /\ checkpoint.state.status # "ROOT_CAUSE_FOUND"
              /\ checkpoint.state.status \notin TerminalStatuses
            BY <2>1 DEF Over
        <3>3. (CASE checkpoint.state.status = "ROOT_CAUSE_FOUND"  -> "diagnosed"
                 [] checkpoint.state.status \in TerminalStatuses -> "closed"
                 [] OTHER                                        -> "investigating")
              = "investigating"
            BY <3>2
        <3>4. (CASE checkpoint'.state.status = "ROOT_CAUSE_FOUND"  -> "diagnosed"
                 [] checkpoint'.state.status \in TerminalStatuses -> "closed"
                 [] OTHER                                         -> "investigating")
              = "diagnosed"
            BY <2>4 DEF TerminalStatuses
        <3>5. Durable!Diagnose
            BY <3>1, <3>3, <3>4 DEF Durable!Diagnose
        <3> QED
            BY <3>5 DEF Durable!Next
    <2>5. CASE checkpoint'.state.status \in TerminalStatuses
        <3>1. checkpoint'.state.status # "ROOT_CAUSE_FOUND"
            BY <2>5 DEF TerminalStatuses
        <3>2. checkpoint'.state.rootCause = None
            BY <2>2, <3>1 DEF Diagnosed
        <3>3. Durable!Close
            BY <2>1, <2>3, <2>5, <3>1, <3>2 DEF Durable!Close, Over
        <3> QED
            BY <3>3 DEF Durable!Next
    <2>6. CASE checkpoint'.state.status \notin TerminalStatuses \cup {"ROOT_CAUSE_FOUND"}
        <3>1. checkpoint'.state.rootCause = None
            BY <2>2, <2>6 DEF Diagnosed
        <3> QED
            BY <2>1, <2>3, <2>6, <3>1 DEF Over
    <2> QED
        BY <2>4, <2>5, <2>6
<1> QED
    BY <1>1, <1>2, Invariant, PTL DEF Spec, ImplementsLifecycle, Durable!Spec
=============================================================================
