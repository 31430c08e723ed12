-------------------------- MODULE RepairFlowProofs --------------------------
(***************************************************************************)
(* For any evidence, proposals, decisions, run identifiers, clock and      *)
(* number of failed saves and stops: repairs are authorised, a resolved    *)
(* incident is sound, and with at most one failed save the checkpoint      *)
(* implements the approval gate.                                           *)
(*                                                                         *)
(* The argument.  Memory and checkpoint are lawful records (see            *)
(* RepairIncidentProofs), and the checkpoint is never ahead of memory      *)
(* (Behind).  A record that has not spent its run may still lead to one    *)
(* more repair, so Paid keeps a failed save in reserve for memory, for the *)
(* checkpoint a restart would load, and one more while the two disagree    *)
(* about the run.  What a run was executed under is copied into the        *)
(* history when it starts (RunsWereGranted) from a record whose decision   *)
(* is in the history of accepted ones (GrantedIn), so no later loss of a   *)
(* record matters to it.  For the gate, Lags says what one lost write may  *)
(* have hidden from the checkpoint; the next write then shows two steps at *)
(* once, and the gate allows those together.                               *)
(***************************************************************************)
EXTENDS RepairFlow, RepairIncidentProofs, FiniteSetTheorems

(* A method of several steps runs in a live process, and the resumed run is *)
(* still the pending one of the incident.                                  *)
CallUnderWay ==
    /\ call # "none" => up
    /\ call = "resume" => CanResume(incident)

(* What was executed was issued, and a result says which run it is of.      *)
RunsAreOwn ==
    \A id \in RunIds :
        /\ ran[id] # None => id \in issued
        /\ ran[id] \notin {None, Indeterminate} => ran[id].id = id

(* The checkpoint knows no run that memory does not know, and with a run in *)
(* both they agree on what it is for.                                      *)
Behind ==
    /\ incident.repair.run # None => incident.repair.run.id \in issued
    /\ checkpoint.repair.run # None =>
          /\ incident.repair.run # None
          /\ incident.repair.run.id = checkpoint.repair.run.id
          /\ incident.proposal = checkpoint.proposal
          /\ incident.approval = checkpoint.approval

(* A recorded result is the one the run had, a passed check was passed.     *)
Honest(s) ==
    s.repair.run # None =>
        /\ s.repair.run.status # "pending" => ran[s.repair.run.id] = s.repair.run
        /\ s.repair.check = "passed" => sound[s.repair.run.id] = Checks

VerdictsAreHonest ==
    \A v \in verdicts :
        /\ ran[v.run] # None
        /\ v.passed => sound[v.run] = Checks

(* Every write leaves the diagnosis alone.                                 *)
SameDiagnosis(s, t) == s.cause = t.cause /\ s.support = t.support /\ s.evidence = t.evidence

(* A decision on record is one that was accepted, within the window of its  *)
(* proposal.                                                               *)
GrantedIn(s, taken) ==
    s.approval.decision # None => \E a \in taken : a.decision = s.approval.decision

AcceptedInTime(taken) == \A a \in taken : InWindow(a.clock, a.decision.proposal)

(* What a run was executed under stays with it, whatever the records forget.*)
RunsWereGranted ==
    \A id \in RunIds : ran[id] # None =>
        /\ under[id] \in Authorities
        /\ under[id].decision.outcome = "approved"
        /\ DecisionBinds(under[id].decision, under[id].proposal)
        /\ \E a \in accepted : a.decision = under[id].decision
        /\ BoundToDiagnosis(checkpoint, under[id].proposal)
        /\ ran[id] # Indeterminate =>
              /\ ran[id].proposal = under[id].proposal
              /\ ran[id].decision = under[id].decision.id

(* A record that has spent a run shows what the run was executed under.     *)
ShowsAuthority(s) ==
    s.repair.run # None /\ ran[s.repair.run.id] # None =>
        /\ under[s.repair.run.id].proposal = s.proposal
        /\ under[s.repair.run.id].decision = s.approval.decision

Spent(s) == s.repair.run # None /\ s.repair.run.id \in Executed

Paid ==
    /\ IsFiniteSet(Executed)
    /\ Cardinality(Executed) <= 1 + saveFailures
    /\ ~Spent(incident) => Cardinality(Executed) <= saveFailures
    /\ ~Spent(checkpoint) => Cardinality(Executed) <= saveFailures
    /\ incident.repair.run # None /\ ~Spent(incident) /\ checkpoint.repair.run = None
          => Cardinality(Executed) + 1 <= saveFailures

IInv ==
    /\ TypeOK
    /\ Lawful(incident)
    /\ Lawful(checkpoint)
    /\ CallUnderWay
    /\ RunsAreOwn
    /\ Behind
    /\ Honest(incident)
    /\ Honest(checkpoint)
    /\ VerdictsAreHonest
    /\ Paid
    /\ SameDiagnosis(incident, checkpoint)
    /\ GrantedIn(incident, accepted)
    /\ GrantedIn(checkpoint, accepted)
    /\ AcceptedInTime(accepted)
    /\ RunsWereGranted
    /\ ShowsAuthority(incident)
    /\ ShowsAuthority(checkpoint)

-----------------------------------------------------------------------------
LEMMA InitIInv == Init => IInv
<1> SUFFICES ASSUME Init
             PROVE  IInv
    OBVIOUS
<1>1. PICK cause \in Causes, support \in SUBSET Evidence, evidence \in SUBSET Evidence :
          incident = DiagnosedIncident(cause, support, evidence)
    BY DEF Init
<1>2. incident \in RepairIncidents /\ Lawful(incident)
    BY <1>1, DiagnosedIsLawful
<1>3. incident.repair.run = None
    BY <1>1 DEF DiagnosedIncident, NoRepair
<1>4. Executed = {}
    BY DEF Init, Executed
<1>5. IsFiniteSet({}) /\ Cardinality({}) = 0
    BY FS_EmptySet
<1>6. TypeOK
    BY <1>2 DEF Init, TypeOK
<1>7. Paid
    BY <1>3, <1>4, <1>5 DEF Paid, Init
<1>8. incident.approval.decision = None
    BY <1>1 DEF DiagnosedIncident, NoApproval
<1>9. /\ SameDiagnosis(incident, checkpoint) /\ AcceptedInTime(accepted)
      /\ GrantedIn(incident, accepted) /\ GrantedIn(checkpoint, accepted)
      /\ RunsWereGranted /\ ShowsAuthority(incident) /\ ShowsAuthority(checkpoint)
    BY <1>3, <1>8
       DEF Init, SameDiagnosis, AcceptedInTime, GrantedIn, RunsWereGranted, ShowsAuthority
<1> QED
    BY <1>2, <1>3, <1>6, <1>7, <1>9
       DEF Init, IInv, CallUnderWay, RunsAreOwn, Behind, Honest, VerdictsAreHonest

(* Every save either replaces the checkpoint by memory or is counted as a   *)
(* failure.  One lemma for all methods that keep the run they find.        *)
LEMMA CommitKeepsIInv ==
    ASSUME IInv, NEW s \in RepairIncidents, Lawful(s), Commit(s), Honest(s),
           s.repair.run # None <=> incident.repair.run # None,
           s.repair.run # None =>
              /\ s.repair.run.id = incident.repair.run.id
              /\ s.proposal = incident.proposal
              /\ s.approval = incident.approval,
           SameDiagnosis(s, incident), ShowsAuthority(s), GrantedIn(s, accepted'),
           accepted \subseteq accepted', accepted' \subseteq Acceptances, AcceptedInTime(accepted'),
           up, UNCHANGED up, call' \in {"none", "propose"},
           UNCHANGED <<issued, ran, sound, verdicts, under, now>>
    PROVE  IInv'
<1> USE DEF IInv
<1>1. /\ incident' = s
      /\ \/ checkpoint' = s /\ saveFailures' = saveFailures /\ crashes' = crashes
         \/ checkpoint' = checkpoint /\ saveFailures' = saveFailures + 1 /\ crashes' = crashes
    BY DEF Commit, SaveFails, observed
<1>2. /\ issued' = issued /\ ran' = ran /\ sound' = sound /\ verdicts' = verdicts
      /\ under' = under /\ up' = up /\ now' = now
    OBVIOUS
<1>3. TypeOK'
    BY <1>1, <1>2 DEF TypeOK
<1>4. Lawful(incident') /\ Lawful(checkpoint')
    BY <1>1
<1>5. CallUnderWay' /\ RunsAreOwn' /\ VerdictsAreHonest'
    BY <1>1, <1>2 DEF CallUnderWay, RunsAreOwn, VerdictsAreHonest
<1>6. Behind'
    BY <1>1, <1>2 DEF Behind
<1>7. Honest(incident)' /\ Honest(checkpoint)'
    BY <1>1, <1>2 DEF Honest
<1>8. Paid'
    <2>1. Executed' = Executed
        BY <1>2 DEF Executed
    <2>2. Cardinality(Executed) \in Nat /\ saveFailures \in Nat
        BY FS_CardinalityType DEF Paid, TypeOK
    <2>3. Spent(s) <=> Spent(incident)
        BY DEF Spent
    <2>4. /\ Spent(incident)' <=> Spent(s)
          /\ checkpoint' = s => (Spent(checkpoint)' <=> Spent(s))
          /\ checkpoint' = checkpoint => (Spent(checkpoint)' <=> Spent(checkpoint))
        BY <1>1, <2>1 DEF Spent
    <2> QED
        BY <1>1, <2>1, <2>2, <2>3, <2>4 DEF Paid
<1>9. SameDiagnosis(incident, checkpoint)'
    BY <1>1 DEF SameDiagnosis
<1>10. GrantedIn(incident', accepted') /\ GrantedIn(checkpoint', accepted')
    BY <1>1 DEF GrantedIn
<1>11. RunsWereGranted'
    <2>1. SameDiagnosis(checkpoint', checkpoint)
        BY <1>1 DEF SameDiagnosis
    <2>2. \A q : BoundToDiagnosis(checkpoint, q) => BoundToDiagnosis(checkpoint', q)
        BY <2>1 DEF SameDiagnosis, BoundToDiagnosis
    <2> QED
        BY <1>2, <2>2 DEF RunsWereGranted
<1>12. ShowsAuthority(incident)' /\ ShowsAuthority(checkpoint)'
    BY <1>1, <1>2 DEF ShowsAuthority
<1> QED
    BY <1>3, <1>4, <1>5, <1>6, <1>7, <1>8, <1>9, <1>10, <1>11, <1>12

(* The same for the methods that take no typed decision: the record keeps   *)
(* its proposal, its decision and its diagnosis, and the history is still.  *)
LEMMA PlainCommitKeepsIInv ==
    ASSUME IInv, NEW s \in RepairIncidents, Lawful(s), Commit(s), Honest(s),
           s.repair.run # None <=> incident.repair.run # None,
           s.repair.run # None =>
              /\ s.repair.run.id = incident.repair.run.id
              /\ s.proposal = incident.proposal
              /\ s.approval = incident.approval,
           s.approval.decision = incident.approval.decision,
           SameDiagnosis(s, incident),
           up, UNCHANGED up, call' \in {"none", "propose"}, UNCHANGED <<world, now>>
    PROVE  IInv'
<1>1. UNCHANGED <<issued, ran, sound, verdicts, accepted, under, now>>
    BY DEF world, history
<1>2. accepted' \subseteq Acceptances /\ AcceptedInTime(accepted')
    BY <1>1 DEF IInv, TypeOK
<1>3. GrantedIn(s, accepted')
    BY <1>1 DEF IInv, GrantedIn
<1>4. ShowsAuthority(s)
    BY DEF IInv, ShowsAuthority
<1> QED
    BY <1>1, <1>2, <1>3, <1>4, CommitKeepsIInv

-----------------------------------------------------------------------------
(* One lemma for each action.                                              *)

LEMMA PublicTransitionKeeps ==
    ASSUME IInv, NEW target \in RepairStatuses, PublicTransition(target)
    PROVE  IInv'
<1> DEFINE s == [incident EXCEPT !.status = target]
<1>1. /\ incident \in RepairIncidents /\ Lawful(incident) /\ Honest(incident)
      /\ up /\ call = "none"
    BY DEF IInv, TypeOK, PublicTransition, Idle
<1>2. s \in RepairIncidents /\ Lawful(s)
    BY <1>1, PublicTransitionIsLawful DEF PublicTransition
<1>3. /\ s.repair = incident.repair /\ s.proposal = incident.proposal
      /\ s.approval = incident.approval /\ SameDiagnosis(s, incident)
    BY <1>1 DEF RepairIncidents, SameDiagnosis
<1>4. Commit(s) /\ UNCHANGED <<call, up, world, now>>
    BY DEF PublicTransition
<1> HIDE DEF s
<1>5. Honest(s)
    BY <1>1, <1>3 DEF Honest
<1> QED
    BY <1>1, <1>2, <1>3, <1>4, <1>5, PlainCommitKeepsIInv

LEMMA OfferedIsTyped ==
    ASSUME TypeOK, NEW p \in Offered
    PROVE  p \in Proposals \cup {Untyped}
BY RepairAssumption DEF Offered, Proposals, TypeOK

LEMMA ProposeKeeps ==
    ASSUME IInv, NEW p \in Offered, Propose(p)
    PROVE  IInv'
<1> DEFINE s == Proposed(incident, p)
<1>1. /\ incident \in RepairIncidents /\ Lawful(incident) /\ Honest(incident)
      /\ up /\ call = "none" /\ p \in Proposals \cup {Untyped}
    BY OfferedIsTyped DEF IInv, TypeOK, Propose, Idle
<1>2. s \in RepairIncidents /\ Lawful(s)
    BY <1>1, ProposedIsLawful DEF Propose
<1>3. /\ s.repair = incident.repair /\ incident.repair.run = None
      /\ s.approval = incident.approval /\ SameDiagnosis(s, incident)
    BY <1>1 DEF RepairIncidents, Proposed, SameDiagnosis, Propose, CanPropose, Lawful, EarlyIsBare,
                Early, NoRepair
<1>4. /\ Commit(s) /\ UNCHANGED <<up, world, now>>
      /\ call' \in {"none", "propose"}
    BY <1>1 DEF Propose, Commit
<1> HIDE DEF s
<1>5. Honest(s)
    BY <1>1, <1>3 DEF Honest
<1> QED
    BY <1>1, <1>2, <1>3, <1>4, <1>5, PlainCommitKeepsIInv

LEMMA AwaitApprovalKeeps ==
    ASSUME IInv, AwaitApproval
    PROVE  IInv'
<1> DEFINE s == Awaiting(incident)
<1>1. /\ incident \in RepairIncidents /\ Lawful(incident) /\ Honest(incident)
      /\ up /\ call' = "none"
    BY DEF IInv, TypeOK, AwaitApproval, CallUnderWay
<1>2. s \in RepairIncidents /\ Lawful(s)
    BY <1>1, AwaitingIsLawful DEF AwaitApproval
<1>3. /\ s.repair = incident.repair /\ s.proposal = incident.proposal
      /\ s.approval = incident.approval /\ SameDiagnosis(s, incident)
    BY <1>1 DEF RepairIncidents, Awaiting, SameDiagnosis
<1>4. Commit(s) /\ UNCHANGED <<up, world, now>>
    BY DEF AwaitApproval
<1> HIDE DEF s
<1>5. Honest(s)
    BY <1>1, <1>3 DEF Honest
<1> QED
    BY <1>1, <1>2, <1>3, <1>4, <1>5, PlainCommitKeepsIInv

LEMMA SubmittedIsTyped ==
    ASSUME TypeOK, NEW d \in Submitted
    PROVE  d \in Decisions
<1>1. Typed(incident) /\ incident.proposal \in Proposals
    BY DEF Submitted, TypeOK, RepairIncidents, Typed
<1>2. \A t \in 0 .. MaxTime : [incident.proposal EXCEPT !.created = t] \in Proposals
    BY <1>1, FlowAssumption DEF Proposals
<1> QED
    BY <1>1, <1>2, FlowAssumption DEF Submitted, Decisions

LEMMA RecordApprovalKeeps ==
    ASSUME IInv, NEW d \in Submitted, RecordApproval(d)
    PROVE  IInv'
<1> DEFINE s == ApprovalRecorded(incident, d.outcome, d)
<1>1. /\ incident \in RepairIncidents /\ Lawful(incident) /\ Honest(incident)
      /\ up /\ call = "none" /\ d \in Decisions
    BY SubmittedIsTyped DEF IInv, TypeOK, RecordApproval, Idle
<1>2. s \in RepairIncidents /\ Lawful(s)
    BY <1>1, ApprovalRecordedIsLawful DEF RecordApproval
<1>3. /\ s.repair = incident.repair /\ incident.repair.run = None
      /\ SameDiagnosis(s, incident) /\ s.approval.decision = d
    BY <1>1 DEF RepairIncidents, ApprovalRecorded, SameDiagnosis, RecordApproval,
                CanRecordApproval, Lawful, EarlyIsBare, Early, NoRepair
<1>4. /\ Commit(s) /\ UNCHANGED <<call, up, issued, ran, sound, verdicts, under, now>>
      /\ accepted' = accepted \cup {[decision |-> d, clock |-> now]}
    BY DEF RecordApproval
<1>5. d.proposal = incident.proposal /\ InWindow(now, d.proposal)
    BY DEF RecordApproval, CanRecordApproval, DecisionBinds
<1> HIDE DEF s
<1>6. Honest(s)
    BY <1>1, <1>3 DEF Honest
<1>7. /\ accepted \subseteq accepted' /\ accepted' \subseteq Acceptances
      /\ GrantedIn(s, accepted')
    <2>1. [decision |-> d, clock |-> now] \in Acceptances
        BY <1>1 DEF IInv, TypeOK, Acceptances
    <2>2. accepted \subseteq Acceptances
        BY DEF IInv, TypeOK
    <2> QED
        BY <1>3, <1>4, <2>1, <2>2 DEF GrantedIn
<1>8. AcceptedInTime(accepted')
    <2>1. AcceptedInTime(accepted)
        BY DEF IInv
    <2> QED
        BY <1>4, <1>5, <2>1 DEF AcceptedInTime
<1>9. ShowsAuthority(s)
    BY <1>3 DEF ShowsAuthority
<1> QED
    BY <1>1, <1>2, <1>3, <1>4, <1>6, <1>7, <1>8, <1>9, CommitKeepsIInv

LEMMA RecordUntypedApprovalKeeps ==
    ASSUME IInv, NEW outcome \in {"approved", "rejected"}, RecordUntypedApproval(outcome)
    PROVE  IInv'
<1> DEFINE s == ApprovalRecorded(incident, outcome, None)
<1>1. /\ incident \in RepairIncidents /\ Lawful(incident) /\ Honest(incident)
      /\ up /\ call = "none"
    BY DEF IInv, TypeOK, RecordUntypedApproval, Idle
<1>2. s \in RepairIncidents /\ Lawful(s)
    BY <1>1, UntypedApprovalIsLawful DEF RecordUntypedApproval
<1>3. /\ s.repair = incident.repair /\ s.proposal = incident.proposal
      /\ SameDiagnosis(s, incident) /\ s.approval.decision = None
    BY <1>1 DEF RepairIncidents, ApprovalRecorded, SameDiagnosis
<1>4. incident.approval.decision = None /\ incident.repair.run = None
    BY <1>1 DEF RecordUntypedApproval, CanRecordUntypedApproval, Lawful, EarlyIsBare, Early,
                NoApproval, NoRepair
<1>5. Commit(s) /\ UNCHANGED <<call, up, world, now>>
    BY DEF RecordUntypedApproval
<1> HIDE DEF s
<1>6. Honest(s)
    BY <1>1, <1>3 DEF Honest
<1> QED
    BY <1>1, <1>2, <1>3, <1>4, <1>5, <1>6, PlainCommitKeepsIInv

(* A fresh run: nothing was executed under its identifier, and a save that  *)
(* fails here is the one that pays for a second repair.                    *)
LEMMA RecordPendingRunKeeps ==
    ASSUME IInv, NEW id \in RunIds, RecordPendingRun(id)
    PROVE  IInv'
<1> USE DEF IInv
<1> DEFINE r == PendingRun(id, incident.proposal, incident.approval.decision)
           s == PendingRecorded(incident, r)
<1>1. /\ CanRecordPendingRun(incident, r) /\ Commit(s)
      /\ id \notin issued /\ issued' = issued \cup {id}
      /\ UNCHANGED <<call, up, ran, sound, verdicts, accepted, under, now>>
      /\ up /\ call = "none"
    BY DEF RecordPendingRun, Idle, history
<1>2. r \in SandboxRuns /\ s \in RepairIncidents /\ Lawful(s)
    BY <1>1, PendingRecordedIsLawful DEF TypeOK
<1>3. r.id = id /\ r.status = "pending" /\ r # None
    BY <1>2, NoneAssumption DEF PendingRun
<1> HIDE DEF r
<1>4. /\ s.repair = [status |-> "pending", run |-> r, check |-> "none"]
      /\ s.proposal = incident.proposal /\ s.approval = incident.approval
      /\ SameDiagnosis(s, incident)
    BY DEF PendingRecorded, TypeOK, RepairIncidents, SameDiagnosis
<1>5. incident.repair.run = None
    BY <1>1 DEF CanRecordPendingRun, NoRepair
<1>6. checkpoint.repair.run = None
    BY <1>5 DEF Behind
<1> HIDE DEF s
<1>7. /\ incident' = s
      /\ \/ checkpoint' = s /\ saveFailures' = saveFailures /\ crashes' = crashes
         \/ checkpoint' = checkpoint /\ saveFailures' = saveFailures + 1 /\ crashes' = crashes
    BY <1>1 DEF Commit, SaveFails, observed
<1>8. TypeOK'
    BY <1>1, <1>2, <1>7 DEF TypeOK
<1>9. Lawful(incident') /\ Lawful(checkpoint')
    BY <1>2, <1>7
<1>10. CallUnderWay' /\ RunsAreOwn' /\ VerdictsAreHonest'
    BY <1>1 DEF CallUnderWay, RunsAreOwn, VerdictsAreHonest
<1>11. Behind'
    BY <1>1, <1>3, <1>4, <1>6, <1>7 DEF Behind
<1>12. Honest(incident)' /\ Honest(checkpoint)'
    BY <1>1, <1>3, <1>4, <1>7 DEF Honest
<1>13. Paid'
    <2>1. Executed' = Executed /\ id \notin Executed
        BY <1>1 DEF Executed, RunsAreOwn
    <2>2. Cardinality(Executed) \in Nat /\ saveFailures \in Nat
        BY FS_CardinalityType DEF Paid, TypeOK
    <2>3. ~Spent(incident) /\ ~Spent(checkpoint) /\ Cardinality(Executed) <= saveFailures
        BY <1>5, <1>6 DEF Spent, Paid
    <2>4. checkpoint' = s => checkpoint'.repair.run # None
        BY <1>3, <1>4
    <2> QED
        BY <1>7, <2>1, <2>2, <2>3, <2>4 DEF Paid
<1>14. SameDiagnosis(incident, checkpoint)'
    BY <1>4, <1>7 DEF SameDiagnosis
<1>15. GrantedIn(incident', accepted') /\ GrantedIn(checkpoint', accepted')
       /\ AcceptedInTime(accepted')
    BY <1>1, <1>4, <1>7 DEF GrantedIn
<1>16. RunsWereGranted'
    <2>1. SameDiagnosis(checkpoint', checkpoint)
        BY <1>4, <1>7 DEF SameDiagnosis
    <2>2. \A q : BoundToDiagnosis(checkpoint, q) => BoundToDiagnosis(checkpoint', q)
        BY <2>1 DEF SameDiagnosis, BoundToDiagnosis
    <2> QED
        BY <1>1, <2>2 DEF RunsWereGranted
<1>17. ran[id] = None
    BY <1>1 DEF RunsAreOwn
<1>18. ShowsAuthority(incident)' /\ ShowsAuthority(checkpoint)'
    BY <1>1, <1>3, <1>4, <1>6, <1>7, <1>17 DEF ShowsAuthority
<1> QED
    BY <1>8, <1>9, <1>10, <1>11, <1>12, <1>13, <1>14, <1>15, <1>16, <1>18

(* Steps that write no record and execute nothing.                          *)
LEMMA StillHistory ==
    ASSUME IInv, UNCHANGED <<checkpoint, ran, accepted, under>>,
           incident' = incident \/ incident' = checkpoint
    PROVE  /\ SameDiagnosis(incident, checkpoint)' /\ AcceptedInTime(accepted)'
           /\ GrantedIn(incident, accepted)' /\ GrantedIn(checkpoint, accepted)'
           /\ RunsWereGranted' /\ ShowsAuthority(incident)' /\ ShowsAuthority(checkpoint)'
<1> USE DEF IInv
<1>1. SameDiagnosis(incident, checkpoint)' /\ AcceptedInTime(accepted)'
    BY DEF SameDiagnosis, AcceptedInTime
<1>2. GrantedIn(incident, accepted)' /\ GrantedIn(checkpoint, accepted)'
    BY DEF GrantedIn
<1>3. RunsWereGranted'
    BY DEF RunsWereGranted
<1>4. ShowsAuthority(incident)' /\ ShowsAuthority(checkpoint)'
    BY DEF ShowsAuthority
<1> QED
    BY <1>1, <1>2, <1>3, <1>4

LEMMA BeginResumeKeeps == IInv /\ BeginResume => IInv'
<1> SUFFICES ASSUME IInv, BeginResume
             PROVE  IInv'
    OBVIOUS
<1> USE DEF IInv
<1>1. /\ up /\ CanResume(incident) /\ call' = "resume"
      /\ UNCHANGED <<incident, checkpoint, up, world, now, observed>>
    BY DEF BeginResume, Idle
<1>2. TypeOK'
    BY <1>1 DEF TypeOK, world, history, observed
<1>3. CallUnderWay' /\ RunsAreOwn' /\ VerdictsAreHonest' /\ Behind'
    BY <1>1 DEF CallUnderWay, RunsAreOwn, VerdictsAreHonest, Behind, world
<1>4. Honest(incident)' /\ Honest(checkpoint)' /\ Paid'
    BY <1>1 DEF Honest, Paid, Spent, Executed, world, observed
<1>5. /\ SameDiagnosis(incident, checkpoint)' /\ AcceptedInTime(accepted)'
      /\ GrantedIn(incident, accepted)' /\ GrantedIn(checkpoint, accepted)'
      /\ RunsWereGranted' /\ ShowsAuthority(incident)' /\ ShowsAuthority(checkpoint)'
    BY <1>1, StillHistory DEF world, history
<1> QED
    BY <1>1, <1>2, <1>3, <1>4, <1>5

(* The one step that spends: memory had not spent its run, so its reserve   *)
(* pays; if the checkpoint does not know the run, the failed save does.    *)
LEMMA ExecuteRunKeeps == IInv /\ ExecuteRun => IInv'
<1> SUFFICES ASSUME IInv, ExecuteRun
             PROVE  IInv'
    OBVIOUS
<1> USE DEF IInv
<1> DEFINE run == incident.repair.run
<1>1. PICK result \in TerminalRuns(run) \cup {Indeterminate}, broken \in SUBSET Checks :
          /\ ran' = [ran EXCEPT ![run.id] = result]
          /\ sound' = [sound EXCEPT ![run.id] = Checks \ broken]
          /\ under' = [under EXCEPT ![run.id] =
                [proposal |-> incident.proposal, decision |-> incident.approval.decision]]
    <2>1. {{}} \cup {{check} : check \in Checks} \subseteq SUBSET Checks
        OBVIOUS
    <2> QED
        BY <2>1 DEF ExecuteRun
<1>2. /\ call = "resume" /\ ran[run.id] = None
      /\ UNCHANGED <<incident, checkpoint, call, up, issued, verdicts, accepted, now, observed>>
    BY DEF ExecuteRun
<1>3. CanResume(incident) /\ run \in SandboxRuns /\ run.id \in RunIds /\ run.id \in issued
    BY <1>2 DEF CallUnderWay, CanResume, TypeOK, RepairIncidents, SandboxRuns, Behind
<1>4. /\ result # None
      /\ result # Indeterminate =>
            /\ result \in SandboxRuns /\ result.id = run.id
            /\ result.proposal = run.proposal /\ result.decision = run.decision
    <2>1. \A q \in TerminalRuns(run) : /\ q \in SandboxRuns /\ q.id = run.id
                                       /\ q.proposal = run.proposal
                                       /\ q.decision = run.decision
        BY <1>3 DEF TerminalRuns, SandboxRuns
    <2> QED
        BY <2>1, NoneAssumption, FlowAssumption
<1> DEFINE p == incident.proposal
           d == incident.approval.decision
           u == [proposal |-> p, decision |-> d]
<1>13. /\ p \in Proposals /\ d \in Decisions /\ u \in Authorities
       /\ d.outcome = "approved" /\ DecisionBinds(d, p)
       /\ run.proposal = p /\ run.decision = d.id
       /\ BoundToDiagnosis(checkpoint, p)
       /\ \E a \in accepted : a.decision = d
    <2>1. Typed(incident) /\ d # None /\ run # None /\ incident.approval.status = "approved"
        BY <1>3 DEF CanResume
    <2>2. p \in Proposals /\ d \in Decisions
        BY <2>1 DEF TypeOK, RepairIncidents, Typed
    <2>3. ApprovalHolds(incident) /\ BoundToDiagnosis(incident, p)
        BY <2>1 DEF Lawful, DecisionIsBound
    <2>4. BoundToDiagnosis(checkpoint, p)
        BY <2>3 DEF SameDiagnosis, BoundToDiagnosis
    <2> QED
        BY <2>1, <2>2, <2>3, <2>4, <1>3
           DEF ApprovalHolds, CanResume, GrantedIn, Authorities
<1>14. under' = [under EXCEPT ![run.id] = u]
    BY <1>1
<1> HIDE DEF p, d, u
<1>5. TypeOK'
    BY <1>1, <1>2, <1>4, <1>13, <1>14 DEF TypeOK, observed
<1>6. \A id \in RunIds : ran[id] # None => id # run.id /\ ran'[id] = ran[id] /\ sound'[id] = sound[id]
    BY <1>1, <1>2 DEF TypeOK
<1>7. CallUnderWay' /\ Behind'
    BY <1>2 DEF CallUnderWay, Behind
<1>8. RunsAreOwn'
    BY <1>1, <1>2, <1>3, <1>4 DEF RunsAreOwn, TypeOK
<1>9. VerdictsAreHonest'
    BY <1>2, <1>6 DEF VerdictsAreHonest, TypeOK, Verdicts
<1>10. ASSUME NEW s \in RepairIncidents, Lawful(s), Honest(s), s.repair.run # None
       PROVE  /\ s.repair.run.status # "pending" => ran'[s.repair.run.id] = s.repair.run
              /\ s.repair.check = "passed" => sound'[s.repair.run.id] = Checks
    <2>1. s.repair.run \in SandboxRuns /\ s.repair.run.id \in RunIds
        BY <1>10 DEF RepairIncidents, SandboxRuns
    <2>2. s.repair.check = "passed" => s.repair.run.status = "succeeded"
        BY <1>10 DEF Lawful, RunIsBound, StageIsReached
    <2> QED
        BY <1>6, <1>10, <2>1, <2>2 DEF Honest
<1>11. Honest(incident)' /\ Honest(checkpoint)'
    BY <1>2, <1>10 DEF Honest, TypeOK
<1>12. Paid'
    <2>1. Executed' = Executed \cup {run.id} /\ run.id \notin Executed
        BY <1>1, <1>2, <1>3, <1>4 DEF Executed, TypeOK
    <2>2. /\ IsFiniteSet(Executed') /\ Cardinality(Executed') = Cardinality(Executed) + 1
          /\ Cardinality(Executed) \in Nat /\ saveFailures \in Nat
        BY <2>1, FS_AddElement, FS_CardinalityType DEF Paid, TypeOK
    <2>3. run # None
        BY <1>3 DEF CanResume
    <2>4. ~Spent(incident) /\ Spent(incident)'
        BY <1>2, <2>1, <2>3 DEF Spent
    <2>5. Cardinality(Executed) <= saveFailures
        BY <2>4 DEF Paid
    <2>6. CASE checkpoint.repair.run = None
        <3>1. Cardinality(Executed) + 1 <= saveFailures
            BY <2>3, <2>4, <2>6 DEF Paid
        <3> QED
            BY <1>2, <2>2, <2>4, <3>1 DEF Paid, observed
    <2>7. CASE checkpoint.repair.run # None
        <3>1. Spent(checkpoint)'
            BY <1>2, <2>1, <2>7 DEF Spent, Behind
        <3> QED
            BY <1>2, <2>2, <2>4, <2>5, <3>1 DEF Paid, observed
    <2> QED
        BY <2>6, <2>7
<1>15. u.proposal = p /\ u.decision = d
    BY DEF u
<1>16. ran'[run.id] = result /\ under'[run.id] = u
    BY <1>1, <1>3, <1>14 DEF TypeOK
<1>17. \A id \in RunIds : id # run.id => ran'[id] = ran[id] /\ under'[id] = under[id]
    BY <1>1, <1>14 DEF TypeOK
<1>18. RunsWereGranted'
    <2> SUFFICES ASSUME NEW id \in RunIds, ran'[id] # None
                 PROVE  /\ under'[id] \in Authorities
                        /\ under'[id].decision.outcome = "approved"
                        /\ DecisionBinds(under'[id].decision, under'[id].proposal)
                        /\ \E a \in accepted : a.decision = under'[id].decision
                        /\ BoundToDiagnosis(checkpoint, under'[id].proposal)
                        /\ ran'[id] # Indeterminate =>
                              /\ ran'[id].proposal = under'[id].proposal
                              /\ ran'[id].decision = under'[id].decision.id
        BY <1>2 DEF RunsWereGranted
    <2>1. CASE id = run.id
        BY <2>1, <1>4, <1>13, <1>15, <1>16
    <2>2. CASE id # run.id
        BY <2>2, <1>17 DEF RunsWereGranted
    <2> QED
        BY <2>1, <2>2
<1>19. ShowsAuthority(incident)'
    BY <1>2, <1>15, <1>16 DEF ShowsAuthority, p, d
<1>20. ShowsAuthority(checkpoint)'
    <2>1. CASE checkpoint.repair.run = None
        BY <1>2, <2>1 DEF ShowsAuthority
    <2>2. CASE checkpoint.repair.run # None
        <3>1. /\ checkpoint.repair.run.id = run.id /\ checkpoint.proposal = p
              /\ checkpoint.approval.decision = d
            BY <2>2 DEF Behind, p, d
        <3> QED
            BY <1>2, <1>15, <1>16, <3>1 DEF ShowsAuthority
    <2> QED
        BY <2>1, <2>2
<1>21. /\ SameDiagnosis(incident, checkpoint)' /\ AcceptedInTime(accepted)'
       /\ GrantedIn(incident, accepted)' /\ GrantedIn(checkpoint, accepted)'
    BY <1>2
<1> QED
    BY <1>2, <1>5, <1>7, <1>8, <1>9, <1>11, <1>12, <1>18, <1>19, <1>20, <1>21

LEMMA RecordResultKeeps ==
    ASSUME IInv, NEW id \in RunIds, ran[id] \notin {None, Indeterminate}, RecordResult(ran[id]),
           up, call' = "none"
    PROVE  IInv'
<1> DEFINE r == ran[id]
           s == RepairResultRecorded(incident, r.status, r)
<1>1. /\ incident \in RepairIncidents /\ Lawful(incident)
      /\ r \in SandboxRuns /\ r.id = id
    BY DEF IInv, TypeOK, RunsAreOwn
<1>2. CanRecordRepairResult(incident, r) /\ Commit(s) /\ UNCHANGED <<up, world, now>>
    BY DEF RecordResult
<1>3. incident.repair.run # None /\ r.id = incident.repair.run.id
    BY <1>1, <1>2 DEF CanRecordRepairResult, Lawful, StageIsReached
<1>4. r # None /\ ran[r.id] = r
    BY <1>1
<1> HIDE DEF r
<1>5. s \in RepairIncidents /\ Lawful(s)
    BY <1>1, <1>2, RepairResultRecordedIsLawful
<1>6. /\ s.repair = [status |-> r.status, run |-> r, check |-> "none"]
      /\ s.proposal = incident.proposal /\ s.approval = incident.approval
      /\ SameDiagnosis(s, incident)
    BY <1>1 DEF RepairResultRecorded, RepairIncidents, SameDiagnosis
<1> HIDE DEF s
<1>7. Honest(s)
    BY <1>4, <1>6 DEF Honest
<1> QED
    BY <1>2, <1>3, <1>4, <1>5, <1>6, <1>7, PlainCommitKeepsIInv

LEMMA EndResumeKeeps == IInv /\ EndResume => IInv'
<1> SUFFICES ASSUME IInv, EndResume
             PROVE  IInv'
    OBVIOUS
<1> DEFINE id == incident.repair.run.id
<1>1. id \in RunIds /\ up /\ call' = "none"
    BY DEF IInv, EndResume, CallUnderWay, CanResume, TypeOK, RepairIncidents, SandboxRuns
<1>2. CASE ran[id] \notin {None, Indeterminate} /\ RecordResult(ran[id])
    BY <1>1, <1>2, RecordResultKeeps
<1>3. CASE UNCHANGED <<incident, checkpoint, up, world, now, observed>>
    <2> USE DEF IInv
    <2>1. TypeOK'
        BY <1>1, <1>3 DEF TypeOK, world, history, observed
    <2>2. CallUnderWay' /\ RunsAreOwn' /\ VerdictsAreHonest' /\ Behind'
        BY <1>1, <1>3 DEF CallUnderWay, RunsAreOwn, VerdictsAreHonest, Behind, world
    <2>3. Honest(incident)' /\ Honest(checkpoint)' /\ Paid'
        BY <1>3 DEF Honest, Paid, Spent, Executed, world, observed
    <2>4. /\ SameDiagnosis(incident, checkpoint)' /\ AcceptedInTime(accepted)'
          /\ GrantedIn(incident, accepted)' /\ GrantedIn(checkpoint, accepted)'
          /\ RunsWereGranted' /\ ShowsAuthority(incident)' /\ ShowsAuthority(checkpoint)'
        BY <1>3, StillHistory DEF world, history
    <2> QED
        BY <1>3, <2>1, <2>2, <2>3, <2>4
<1> QED
    BY <1>2, <1>3 DEF EndResume

LEMMA RecordRepairResultKeeps ==
    ASSUME IInv, NEW id \in RunIds, RecordRepairResult(id)
    PROVE  IInv'
BY RecordResultKeeps DEF RecordRepairResult, Idle

LEMMA RecordUntypedRepairResultKeeps ==
    ASSUME IInv, NEW status \in {"succeeded", "failed"}, RecordUntypedRepairResult(status)
    PROVE  IInv'
<1> DEFINE s == RepairResultRecorded(incident, status, None)
<1>1. /\ incident \in RepairIncidents /\ Lawful(incident)
      /\ up /\ call = "none" /\ CanRecordUntypedRepairResult(incident)
    BY DEF IInv, TypeOK, RecordUntypedRepairResult, Idle
<1>2. s \in RepairIncidents /\ Lawful(s)
    BY <1>1, UntypedRepairResultIsLawful
<1>3. /\ s.repair.run = None /\ incident.repair.run = None
      /\ s.approval = incident.approval /\ SameDiagnosis(s, incident)
    BY <1>1 DEF SameDiagnosis, RepairIncidents, RepairResultRecorded, Lawful, RunIsBound, Typed,
                CanRecordUntypedRepairResult
<1>4. Commit(s) /\ UNCHANGED <<call, up, world, now>>
    BY DEF RecordUntypedRepairResult
<1> HIDE DEF s
<1>5. Honest(s)
    BY <1>3 DEF Honest
<1> QED
    BY <1>1, <1>2, <1>3, <1>4, <1>5, PlainCommitKeepsIInv

LEMMA ValidateRepairKeeps == IInv /\ ValidateRepair => IInv'
<1> SUFFICES ASSUME IInv, ValidateRepair
             PROVE  IInv'
    OBVIOUS
<1> USE DEF IInv
<1> DEFINE id == incident.repair.run.id
<1>1. PICK measured \in BOOLEAN :
          verdicts' = verdicts \cup {[run |-> id, proposal |-> incident.proposal,
                                      passed |-> Passed(sound[id], measured)]}
    BY DEF ValidateRepair
<1>2. /\ incident.status = "POST_VALIDATION" /\ Typed(incident) /\ up /\ call = "none"
      /\ UNCHANGED <<incident, checkpoint, call, up, issued, ran, sound, accepted, under, now, observed>>
    BY DEF ValidateRepair, Idle, history
<1>3. incident.repair.run # None /\ incident.repair.run.status = "succeeded"
    BY <1>2 DEF Lawful, StageIsReached
<1>4. incident.repair.run \in SandboxRuns /\ id \in RunIds /\ incident.proposal \in Proposals
    BY <1>2, <1>3 DEF TypeOK, RepairIncidents, SandboxRuns, Typed
<1>5. ran[id] # None
    BY <1>3 DEF Honest
<1>6. Passed(sound[id], measured) \in BOOLEAN /\ (Passed(sound[id], measured) => sound[id] = Checks)
    BY DEF Passed
<1>7. TypeOK'
    BY <1>1, <1>2, <1>4, <1>6 DEF TypeOK, Verdicts, observed
<1>8. VerdictsAreHonest'
    BY <1>1, <1>2, <1>5, <1>6 DEF VerdictsAreHonest
<1>9. CallUnderWay' /\ RunsAreOwn' /\ Behind' /\ Honest(incident)' /\ Honest(checkpoint)'
    BY <1>2 DEF CallUnderWay, RunsAreOwn, Behind, Honest
<1>10. Paid'
    BY <1>2 DEF Paid, Spent, Executed, observed
<1>11. /\ SameDiagnosis(incident, checkpoint)' /\ AcceptedInTime(accepted)'
      /\ GrantedIn(incident, accepted)' /\ GrantedIn(checkpoint, accepted)'
      /\ RunsWereGranted' /\ ShowsAuthority(incident)' /\ ShowsAuthority(checkpoint)'
    BY <1>2, StillHistory
<1> QED
    BY <1>2, <1>7, <1>8, <1>9, <1>10, <1>11

LEMMA RecordVerdictKeeps ==
    ASSUME IInv, NEW v \in verdicts, RecordVerdict(v)
    PROVE  IInv'
<1> DEFINE check == IF v.passed THEN "passed" ELSE "failed"
           s == VerdictRecorded(incident, v.passed, check)
<1>1. /\ incident \in RepairIncidents /\ Lawful(incident) /\ Honest(incident)
      /\ up /\ call = "none" /\ v \in Verdicts /\ CanRecordVerdict(incident, v)
    BY DEF IInv, TypeOK, RecordVerdict, Idle
<1>2. s \in RepairIncidents /\ Lawful(s)
    BY <1>1, VerdictRecordedIsLawful
<1>3. /\ s.repair.run = incident.repair.run /\ s.repair.check = check
      /\ s.proposal = incident.proposal
      /\ s.approval = incident.approval /\ SameDiagnosis(s, incident)
    BY <1>1 DEF SameDiagnosis, RepairIncidents, VerdictRecorded
<1>4. Commit(s) /\ UNCHANGED <<call, up, world, now>>
    BY DEF RecordVerdict
<1>5. check = "passed" => sound[incident.repair.run.id] = Checks
    BY <1>1 DEF CanRecordVerdict, IInv, VerdictsAreHonest
<1> HIDE DEF s, check
<1>6. Honest(s)
    BY <1>1, <1>3, <1>5 DEF Honest
<1> QED
    BY <1>1, <1>2, <1>3, <1>4, <1>6, PlainCommitKeepsIInv

LEMMA RecordUntypedVerdictKeeps ==
    ASSUME IInv, NEW passed \in BOOLEAN, RecordUntypedVerdict(passed)
    PROVE  IInv'
<1> DEFINE s == VerdictRecorded(incident, passed, "none")
<1>1. /\ incident \in RepairIncidents /\ Lawful(incident)
      /\ up /\ call = "none" /\ CanRecordUntypedVerdict(incident, passed)
    BY DEF IInv, TypeOK, RecordUntypedVerdict, Idle
<1>2. s \in RepairIncidents /\ Lawful(s)
    BY <1>1, UntypedVerdictIsLawful
<1>3. /\ s.repair.run = None /\ incident.repair.run = None
      /\ s.approval = incident.approval /\ SameDiagnosis(s, incident)
    BY <1>1 DEF SameDiagnosis, RepairIncidents, VerdictRecorded, Lawful, RunIsBound, Typed,
                CanRecordUntypedVerdict
<1>4. Commit(s) /\ UNCHANGED <<call, up, world, now>>
    BY DEF RecordUntypedVerdict
<1> HIDE DEF s
<1>5. Honest(s)
    BY <1>3 DEF Honest
<1> QED
    BY <1>1, <1>2, <1>3, <1>4, <1>5, PlainCommitKeepsIInv

LEMMA CrashKeeps == IInv /\ Crash => IInv'
<1> SUFFICES ASSUME IInv, Crash
             PROVE  IInv'
    OBVIOUS
<1> USE DEF IInv
<1>1. /\ incident' = checkpoint /\ call' = "none" /\ up' = FALSE /\ verdicts' = {}
      /\ crashes' = crashes + 1
      /\ UNCHANGED <<checkpoint, issued, ran, sound, accepted, under, now, saveFailures>>
    BY DEF Crash, history
<1>2. TypeOK'
    <2>1. crashes \in Nat
        BY DEF TypeOK
    <2>2. crashes' \in Nat
        BY <1>1, <2>1
    <2>3. up' \in BOOLEAN
        BY <1>1
    <2> QED
        BY <1>1, <2>2, <2>3 DEF TypeOK
<1>3. CallUnderWay' /\ RunsAreOwn' /\ VerdictsAreHonest' /\ Behind'
    BY <1>1 DEF CallUnderWay, RunsAreOwn, VerdictsAreHonest, Behind
<1>4. Honest(incident)' /\ Honest(checkpoint)' /\ Paid'
    BY <1>1 DEF Honest, Paid, Spent, Executed
<1>5. /\ SameDiagnosis(incident, checkpoint)' /\ AcceptedInTime(accepted)'
      /\ GrantedIn(incident, accepted)' /\ GrantedIn(checkpoint, accepted)'
      /\ RunsWereGranted' /\ ShowsAuthority(incident)' /\ ShowsAuthority(checkpoint)'
    BY <1>1, StillHistory
<1> QED
    BY <1>1, <1>2, <1>3, <1>4, <1>5

LEMMA RestKeeps == IInv /\ (Restart \/ Tick \/ UNCHANGED vars) => IInv'
<1> SUFFICES ASSUME IInv, Restart \/ Tick \/ UNCHANGED vars
             PROVE  IInv'
    OBVIOUS
<1> USE DEF IInv
<1>1. UNCHANGED <<incident, checkpoint, call, world, observed>>
    BY DEF Restart, Tick, vars, world, observed
<1>2. (up => up') /\ up' \in BOOLEAN
    BY DEF Restart, Tick, vars, TypeOK
<1>3. now' \in Nat
    BY DEF Restart, Tick, vars, TypeOK
<1>4. TypeOK'
    BY <1>1, <1>2, <1>3 DEF TypeOK, world, history, observed
<1>5. CallUnderWay' /\ RunsAreOwn' /\ VerdictsAreHonest' /\ Behind'
    BY <1>1, <1>2 DEF CallUnderWay, RunsAreOwn, VerdictsAreHonest, Behind, world
<1>6. Honest(incident)' /\ Honest(checkpoint)' /\ Paid'
    BY <1>1 DEF Honest, Paid, Spent, Executed, world, observed
<1>7. /\ SameDiagnosis(incident, checkpoint)' /\ AcceptedInTime(accepted)'
      /\ GrantedIn(incident, accepted)' /\ GrantedIn(checkpoint, accepted)'
      /\ RunsWereGranted' /\ ShowsAuthority(incident)' /\ ShowsAuthority(checkpoint)'
    BY <1>1, StillHistory DEF world, history
<1> QED
    BY <1>1, <1>4, <1>5, <1>6, <1>7

-----------------------------------------------------------------------------
LEMMA NextKeepsIInv == IInv /\ [Next]_vars => IInv'
<1> SUFFICES ASSUME IInv, [Next]_vars
             PROVE  IInv'
    OBVIOUS
<1>1. CASE ClientStep
    <2>1. ASSUME NEW target \in RepairStatuses, PublicTransition(target)
          PROVE  IInv'
        BY <2>1, PublicTransitionKeeps
    <2>2. ASSUME NEW p \in Offered, Propose(p)
          PROVE  IInv'
        BY <2>2, ProposeKeeps
    <2>3. ASSUME NEW d \in Submitted, RecordApproval(d)
          PROVE  IInv'
        BY <2>3, RecordApprovalKeeps
    <2>4. ASSUME NEW outcome \in {"approved", "rejected"}, RecordUntypedApproval(outcome)
          PROVE  IInv'
        BY <2>4, RecordUntypedApprovalKeeps
    <2>5. ASSUME NEW id \in RunIds, RecordRepairResult(id)
          PROVE  IInv'
        BY <2>5, RecordRepairResultKeeps
    <2>6. ASSUME NEW status \in {"succeeded", "failed"}, RecordUntypedRepairResult(status)
          PROVE  IInv'
        BY <2>6, RecordUntypedRepairResultKeeps
    <2>7. ASSUME NEW passed \in BOOLEAN, RecordUntypedVerdict(passed)
          PROVE  IInv'
        BY <2>7, RecordUntypedVerdictKeeps
    <2> QED
        BY <1>1, <2>1, <2>2, <2>3, <2>4, <2>5, <2>6, <2>7 DEF ClientStep
<1>2. CASE AwaitApproval
    BY <1>2, AwaitApprovalKeeps
<1>3. CASE Recover
    <2>1. ASSUME NEW id \in RunIds, RecordPendingRun(id)
          PROVE  IInv'
        BY <2>1, RecordPendingRunKeeps
    <2> QED
        BY <1>3, <2>1, BeginResumeKeeps, ExecuteRunKeeps, EndResumeKeeps, ValidateRepairKeeps,
           RestKeeps DEF Recover
<1>4. CASE Conclude
    BY <1>4, RecordVerdictKeeps DEF Conclude
<1>5. CASE Crash
    BY <1>5, CrashKeeps
<1>6. CASE Tick \/ UNCHANGED vars
    BY <1>6, RestKeeps
<1> QED
    BY <1>1, <1>2, <1>3, <1>4, <1>5, <1>6 DEF Next

LEMMA InvariantHolds == Spec => []IInv
<1> QED
    BY InitIInv, NextKeepsIInv, PTL DEF Spec

-----------------------------------------------------------------------------
(* Whatever fails or stops, memory, checkpoint, runs and verdicts keep      *)
(* their types, for any evidence, proposal and clock.                      *)
THEOREM TypeCorrect == Spec => []TypeOK
<1>1. IInv => TypeOK
    BY DEF IInv
<1> QED
    BY <1>1, InvariantHolds, PTL

(* Every repair that was ever carried out was under a decision that         *)
(* approved its very proposal, taken and accepted within its window, on     *)
(* exactly the evidence of the root cause: through any stops, failed saves  *)
(* and late calls, also when the records have lost the decision since.  A   *)
(* second repair takes a checkpoint write that failed.                      *)
THEOREM RepairAlwaysAuthorized == Spec => []RepairIsAuthorized
<1>1. ASSUME IInv
      PROVE  RepairIsAuthorized
    <2> USE <1>1 DEF IInv
    <2>1. Cardinality(Executed) <= 1 + saveFailures
        BY DEF Paid
    <2>2. ASSUME NEW id \in Executed
          PROVE  Authorized(id)
        <3> DEFINE p == under[id].proposal
                   d == under[id].decision
        <3>1. id \in RunIds /\ ran[id] # None
            BY DEF Executed
        <3>2. /\ d.outcome = "approved" /\ DecisionBinds(d, p) /\ BoundToDiagnosis(checkpoint, p)
              /\ ran[id] # Indeterminate => ran[id].proposal = p /\ ran[id].decision = d.id
              /\ \E a \in accepted : a.decision = d
            BY <3>1 DEF RunsWereGranted
        <3>3. d.proposal = p
            BY <3>2 DEF DecisionBinds
        <3> HIDE DEF p, d
        <3>4. AcceptedAt(d) # {}
            BY <3>2 DEF AcceptedAt
        <3>5. \A t \in AcceptedAt(d) : InWindow(t, p)
            BY <3>3 DEF AcceptedAt, AcceptedInTime
        <3> QED
            BY <3>2, <3>4, <3>5 DEF Authorized, p, d
    <2>3. ASSUME saveFailures = 0, NEW id \in Executed
          PROVE  /\ checkpoint.repair.run.id = id
                 /\ checkpoint.proposal = under[id].proposal
                 /\ checkpoint.approval = [status |-> "approved", decision |-> under[id].decision]
        <3>1. IsFiniteSet(Executed) /\ Cardinality(Executed) \in Nat
            BY FS_CardinalityType DEF Paid
        <3>2. Cardinality(Executed) # 0
            BY <2>3, <3>1, FS_EmptySet
        <3>3. Cardinality(Executed) = 1 /\ Spent(checkpoint)
            BY <2>3, <3>1, <3>2 DEF Paid
        <3>4. \E x : Executed = {x}
            BY <3>1, <3>3, FS_Singleton
        <3>5. checkpoint.repair.run.id = id
            BY <2>3, <3>3, <3>4 DEF Spent
        <3>6. checkpoint.approval.status = "approved"
            BY <3>3 DEF Spent, Lawful, RunIsBound
        <3>7. /\ checkpoint.proposal = under[id].proposal
              /\ checkpoint.approval.decision = under[id].decision
            BY <2>3, <3>3, <3>5 DEF ShowsAuthority, Spent, Executed
        <3>8. checkpoint.approval = [status |-> checkpoint.approval.status,
                                     decision |-> checkpoint.approval.decision]
            BY DEF TypeOK, RepairIncidents
        <3> QED
            BY <3>5, <3>6, <3>7, <3>8
    <2> QED
        BY <2>1, <2>2, <2>3 DEF RepairIsAuthorized
<1> QED
    BY <1>1, InvariantHolds, PTL

(* An incident with a typed proposal is only RESOLVED on disk when the run  *)
(* it names succeeded and its copy passes every check of the               *)
(* post-validation, whichever verdicts and results arrived late.           *)
THEOREM ResolvedAlwaysSound == Spec => []ResolvedIsSound
<1>1. ASSUME IInv
      PROVE  ResolvedIsSound
    <2> SUFFICES ASSUME checkpoint.status = "RESOLVED", Typed(checkpoint)
                 PROVE  LET id == checkpoint.repair.run.id IN
                            /\ ran[id] = checkpoint.repair.run
                            /\ ran[id].status = "succeeded"
                            /\ sound[id] = Checks
        BY DEF ResolvedIsSound
    <2>1. /\ checkpoint.repair.run # None
          /\ checkpoint.repair.run.status = "succeeded"
          /\ checkpoint.repair.check = "passed"
        BY <1>1 DEF IInv, Lawful, StageIsReached
    <2> QED
        BY <1>1, <2>1 DEF IInv, Honest
<1> QED
    BY <1>1, InvariantHolds, PTL

-----------------------------------------------------------------------------
(* The refinement, when at most one checkpoint write fails.  With two it is *)
(* false: two restarts may each lose a recorded decision that was acted on. *)

bars == <<decisionBar, repairedBar, verdictBar>>

(* What memory m may be while the checkpoint is c: a single write ahead.    *)
(* The write that was lost may be a typed proposal, or a decision under     *)
(* which no run is recorded yet; it is not one after the end of a repair.   *)
Lags(c, m) ==
    /\ Typed(c) =>
          /\ m.proposal = c.proposal
          /\ \/ m.approval = c.approval
             \/ c.approval = NoApproval /\ m.repair.run = None
          /\ m # c => c.status \notin ClosedStatuses
    /\ ~Typed(c) /\ Typed(m) => m.status = "FIX_PROPOSED"

Followed ==
    /\ saveFailures = 0 => incident = checkpoint
    /\ Lags(checkpoint, incident)

LEMMA CommitFollows ==
    ASSUME MaxSaveFailures <= 1, IInv, Followed, NEW s, Commit(s), ran' = ran,
           incident = checkpoint => Lags(checkpoint, s)
    PROVE  /\ Followed'
           /\ repairedBar' = repairedBar
           /\ checkpoint' = s \/ UNCHANGED bars
<1>1. incident' = s /\ repairedBar' = repairedBar
    BY DEF Commit, repairedBar, Executed
<1>2. CASE checkpoint' = s
    BY <1>1, <1>2 DEF Followed, Lags
<1>3. CASE SaveFails
    <2>1. saveFailures \in Nat /\ MaxSaveFailures \in Nat
        BY FlowAssumption DEF IInv, TypeOK
    <2>2. saveFailures = 0 /\ saveFailures' = 1 /\ checkpoint' = checkpoint
        BY <1>3, <2>1 DEF SaveFails
    <2>3. Followed'
        BY <1>1, <2>2 DEF Followed, Lags, Typed
    <2>4. UNCHANGED bars
        BY <1>1, <2>2 DEF bars, decisionBar, verdictBar
    <2> QED
        BY <1>1, <2>3, <2>4
<1> QED
    BY <1>1, <1>2, <1>3 DEF Commit

LEMMA UntypedIsInvisible ==
    ASSUME repairedBar' = repairedBar, ~Typed(checkpoint), ~Typed(checkpoint')
    PROVE  UNCHANGED bars
<1>1. verdictBar = "open" /\ verdictBar' = "open"
    BY DEF verdictBar
<1>2. decisionBar = NoApproval /\ decisionBar' = NoApproval
    BY DEF decisionBar
<1> QED
    BY <1>1, <1>2 DEF bars

LEMMA UnwrittenIsInvisible ==
    ASSUME UNCHANGED <<checkpoint, repairedBar>>
    PROVE  UNCHANGED bars
BY DEF bars, decisionBar, verdictBar

(* Before a decision there is none on disk either, and the incident is open.*)
LEMMA EarlyIsOpen ==
    ASSUME IInv, Followed, incident.status \in Early
    PROVE  decisionBar = NoApproval /\ verdictBar = "open"
<1>1. incident.approval = NoApproval
    BY DEF IInv, Lawful, EarlyIsBare
<1>2. incident.status \notin ClosedStatuses
    BY DEF Early, ClosedStatuses
<1> QED
    BY <1>1, <1>2 DEF Followed, Lags, decisionBar, verdictBar

(* A write of a typed record that is still early shows nothing new.         *)
LEMMA EarlyWriteIsInvisible ==
    ASSUME IInv, Followed, NEW s, checkpoint' = s, repairedBar' = repairedBar,
           incident.status \in Early, s.status \in Early, s.approval = incident.approval
    PROVE  UNCHANGED bars
<1>1. decisionBar = NoApproval /\ verdictBar = "open"
    BY EarlyIsOpen
<1>2. s.approval = NoApproval
    BY DEF IInv, Lawful, EarlyIsBare
<1>3. decisionBar' = NoApproval
    BY <1>2 DEF decisionBar
<1>4. verdictBar' = "open"
    BY DEF verdictBar, Early, ClosedStatuses
<1> QED
    BY <1>1, <1>3, <1>4 DEF bars

LEMMA PublicTransitionSimulates ==
    ASSUME MaxSaveFailures <= 1, IInv, Followed, NEW target \in RepairStatuses,
           PublicTransition(target)
    PROVE  Followed' /\ UNCHANGED bars
<1> DEFINE s == [incident EXCEPT !.status = target]
<1>1. /\ incident \in RepairIncidents /\ Lawful(incident)
      /\ target \in PublicRepairTargets(incident.status) /\ PublicRepairGuard(incident, target)
    BY DEF IInv, TypeOK, PublicTransition
<1>2. Commit(s) /\ ran' = ran
    BY DEF PublicTransition, world
<1>3. /\ s.status = target /\ s.approval = incident.approval /\ s.proposal = incident.proposal
      /\ Typed(s) <=> Typed(incident)
    BY <1>1 DEF RepairIncidents, Typed
<1> HIDE DEF s
<1>4. CASE Typed(incident)
    <2>1. incident.status = "FIX_PROPOSED" /\ target = "AWAITING_APPROVAL"
        BY <1>1, <1>4, PublicTypedStops
    <2>2. incident = checkpoint => Lags(checkpoint, s)
        BY <1>3, <1>4, <2>1 DEF Lags, ClosedStatuses
    <2>3. Followed' /\ repairedBar' = repairedBar /\ (checkpoint' = s \/ UNCHANGED bars)
        BY <1>2, <2>2, CommitFollows
    <2> QED
        BY <1>3, <2>1, <2>3, EarlyWriteIsInvisible DEF Early
<1>5. CASE ~Typed(incident)
    <2>1. ~Typed(checkpoint)
        BY <1>5 DEF Followed, Lags, Typed
    <2>2. Lags(checkpoint, s)
        BY <1>3, <1>5, <2>1 DEF Lags
    <2>3. Followed' /\ repairedBar' = repairedBar /\ (checkpoint' = s \/ UNCHANGED bars)
        BY <1>2, <2>2, CommitFollows
    <2> QED
        BY <1>3, <1>5, <2>1, <2>3, UntypedIsInvisible
<1> QED
    BY <1>4, <1>5

LEMMA ProposeSimulates ==
    ASSUME MaxSaveFailures <= 1, IInv, Followed, NEW p \in Offered, Propose(p)
    PROVE  Followed' /\ UNCHANGED bars
<1> DEFINE s == Proposed(incident, p)
<1>1. incident \in RepairIncidents /\ incident.status = "ROOT_CAUSE_FOUND"
    BY DEF IInv, TypeOK, Propose, CanPropose
<1>2. Commit(s) /\ ran' = ran
    BY DEF Propose, Commit, world
<1>3. s.status = "FIX_PROPOSED" /\ s.approval = incident.approval
    BY <1>1 DEF Proposed, RepairIncidents
<1>4. ~Typed(incident)
    BY <1>1 DEF IInv, Lawful, EarlyIsBare, Typed
<1> HIDE DEF s
<1>5. incident = checkpoint => Lags(checkpoint, s)
    BY <1>3, <1>4 DEF Lags
<1>6. Followed' /\ repairedBar' = repairedBar /\ (checkpoint' = s \/ UNCHANGED bars)
    BY <1>2, <1>5, CommitFollows
<1> QED
    BY <1>1, <1>3, <1>6, EarlyWriteIsInvisible DEF Early

LEMMA AwaitApprovalSimulates ==
    ASSUME MaxSaveFailures <= 1, IInv, Followed, AwaitApproval
    PROVE  Followed' /\ UNCHANGED bars
<1> DEFINE s == Awaiting(incident)
<1>1. incident \in RepairIncidents /\ incident.status = "FIX_PROPOSED"
    BY DEF IInv, TypeOK, AwaitApproval, CanAwait
<1>2. Commit(s) /\ ran' = ran
    BY DEF AwaitApproval, world
<1>3. /\ s.status = "AWAITING_APPROVAL" /\ s.approval = incident.approval
      /\ s.proposal = incident.proposal
      /\ Typed(s) <=> Typed(incident)
    BY <1>1 DEF Awaiting, RepairIncidents, Typed
<1> HIDE DEF s
<1>4. incident = checkpoint => Lags(checkpoint, s)
    BY <1>1, <1>3 DEF Lags, ClosedStatuses
<1>5. Followed' /\ repairedBar' = repairedBar /\ (checkpoint' = s \/ UNCHANGED bars)
    BY <1>2, <1>4, CommitFollows
<1> QED
    BY <1>1, <1>3, <1>5, EarlyWriteIsInvisible DEF Early

(* A decision is recorded for a typed proposal that is on disk.             *)
LEMMA RecordApprovalSimulates ==
    ASSUME MaxSaveFailures <= 1, IInv, Followed, NEW d \in Submitted, RecordApproval(d)
    PROVE  Followed' /\ (Gate!Grant \/ Gate!Refuse \/ UNCHANGED bars)
<1> DEFINE s == ApprovalRecorded(incident, d.outcome, d)
<1>1. /\ incident \in RepairIncidents /\ Lawful(incident)
      /\ d \in Decisions /\ d.outcome \in {"approved", "rejected"}
      /\ Typed(incident) /\ incident.status = "AWAITING_APPROVAL"
    BY SubmittedIsTyped DEF IInv, TypeOK, RecordApproval, CanRecordApproval, Decisions
<1>2. Commit(s) /\ ran' = ran
    BY DEF RecordApproval, world
<1>3. /\ s.status = IF d.outcome = "approved" THEN "SANDBOX_REPAIR" ELSE "REJECTED"
      /\ s.approval = [status |-> d.outcome, decision |-> d]
      /\ s.proposal = incident.proposal /\ s.repair = incident.repair
      /\ Typed(s)
    BY <1>1 DEF ApprovalRecorded, RepairIncidents, Typed
<1>4. incident.approval = NoApproval /\ incident.repair.run = None
    BY <1>1 DEF Lawful, EarlyIsBare, Early, NoRepair
<1> HIDE DEF s
<1>5. incident = checkpoint => Lags(checkpoint, s)
    BY <1>1, <1>3, <1>4 DEF Lags, ClosedStatuses
<1>6. Followed' /\ repairedBar' = repairedBar /\ (checkpoint' = s \/ UNCHANGED bars)
    BY <1>2, <1>5, CommitFollows
<1>7. CASE checkpoint' = s
    <2>1. decisionBar = NoApproval /\ verdictBar = "open"
        BY <1>1, EarlyIsOpen DEF Early
    <2>2. decisionBar' = [status |-> d.outcome, decision |-> d]
        BY <1>3, <1>7 DEF decisionBar
    <2>3. verdictBar' = IF d.outcome = "approved" THEN "open" ELSE "closed"
        BY <1>1, <1>3, <1>7 DEF verdictBar, ClosedStatuses
    <2>4. decisionBar' \in Approvals(d.outcome)
        BY <1>1, <2>2 DEF Approvals
    <2> QED
        BY <1>1, <1>6, <2>1, <2>3, <2>4 DEF Gate!Grant, Gate!Refuse
<1> QED
    BY <1>6, <1>7

LEMMA UntypedSimulates ==
    ASSUME MaxSaveFailures <= 1, IInv, Followed,
           \/ \E outcome \in {"approved", "rejected"} : RecordUntypedApproval(outcome)
           \/ \E status \in {"succeeded", "failed"} : RecordUntypedRepairResult(status)
           \/ \E passed \in BOOLEAN : RecordUntypedVerdict(passed)
    PROVE  Followed' /\ UNCHANGED bars
<1>1. incident \in RepairIncidents
    BY DEF IInv, TypeOK
<1>2. \E s : Commit(s) /\ ran' = ran /\ s.proposal = Untyped /\ incident.proposal = Untyped
    <2>1. ASSUME NEW outcome \in {"approved", "rejected"}, RecordUntypedApproval(outcome)
          PROVE  \E s : Commit(s) /\ ran' = ran /\ s.proposal = Untyped /\ incident.proposal = Untyped
        <3>1. ApprovalRecorded(incident, outcome, None).proposal = incident.proposal
            BY <1>1 DEF ApprovalRecorded, RepairIncidents
        <3> QED
            BY <2>1, <3>1 DEF RecordUntypedApproval, CanRecordUntypedApproval, world
    <2>2. ASSUME NEW status \in {"succeeded", "failed"}, RecordUntypedRepairResult(status)
          PROVE  \E s : Commit(s) /\ ran' = ran /\ s.proposal = Untyped /\ incident.proposal = Untyped
        <3>1. RepairResultRecorded(incident, status, None).proposal = incident.proposal
            BY <1>1 DEF RepairResultRecorded, RepairIncidents
        <3> QED
            BY <2>2, <3>1 DEF RecordUntypedRepairResult, CanRecordUntypedRepairResult, world
    <2>3. ASSUME NEW passed \in BOOLEAN, RecordUntypedVerdict(passed)
          PROVE  \E s : Commit(s) /\ ran' = ran /\ s.proposal = Untyped /\ incident.proposal = Untyped
        <3>1. VerdictRecorded(incident, passed, "none").proposal = incident.proposal
            BY <1>1 DEF VerdictRecorded, RepairIncidents
        <3> QED
            BY <2>3, <3>1 DEF RecordUntypedVerdict, CanRecordUntypedVerdict, world
    <2> QED
        BY <2>1, <2>2, <2>3
<1>3. PICK s : Commit(s) /\ ran' = ran /\ s.proposal = Untyped /\ incident.proposal = Untyped
    BY <1>2
<1>4. ~Typed(s) /\ ~Typed(checkpoint)
    BY <1>3 DEF Followed, Lags, Typed
<1>5. Lags(checkpoint, s)
    BY <1>4 DEF Lags
<1>6. Followed' /\ repairedBar' = repairedBar /\ (checkpoint' = s \/ UNCHANGED bars)
    BY <1>3, <1>5, CommitFollows
<1> QED
    BY <1>4, <1>6, UntypedIsInvisible

(* A run in memory is one under a decision on disk, and until the repair    *)
(* ends in memory it has not ended on disk.                                *)
LEMMA GrantIsOnRecord ==
    ASSUME IInv, Followed, incident.repair.run # None, incident.status \notin ClosedStatuses
    PROVE  /\ Typed(checkpoint) /\ checkpoint.approval = incident.approval
           /\ decisionBar \in Approvals("approved") /\ verdictBar = "open"
<1>1. /\ incident \in RepairIncidents /\ Typed(incident)
      /\ incident.approval.decision # None /\ incident.approval.status = "approved"
    BY DEF IInv, TypeOK, Lawful, RunIsBound
<1>2. incident.status # "FIX_PROPOSED"
    BY DEF IInv, Lawful, EarlyIsBare, Early, NoRepair
<1>3. Typed(checkpoint) /\ checkpoint.approval = incident.approval
    BY <1>1, <1>2 DEF Followed, Lags
<1>4. incident.approval \in Approvals("approved")
    BY <1>1 DEF RepairIncidents, Approvals
<1>5. checkpoint.status \notin ClosedStatuses
    BY <1>3 DEF Followed, Lags
<1> QED
    BY <1>3, <1>4, <1>5 DEF decisionBar, verdictBar

(* The write of a run may also be the first to show its decision, whose own *)
(* write was lost.                                                         *)
LEMMA PendingRunSimulates ==
    ASSUME MaxSaveFailures <= 1, IInv, Followed, NEW id \in RunIds, RecordPendingRun(id)
    PROVE  Followed' /\ (Gate!Grant \/ UNCHANGED bars)
<1> DEFINE run == PendingRun(id, incident.proposal, incident.approval.decision)
           s == PendingRecorded(incident, run)
<1>1. /\ incident \in RepairIncidents /\ Typed(incident) /\ incident.status = "SANDBOX_REPAIR"
      /\ incident.approval.decision # None /\ incident.approval.status = "approved"
    BY DEF IInv, TypeOK, RecordPendingRun, CanRecordPendingRun
<1>2. Commit(s) /\ ran' = ran
    BY DEF RecordPendingRun
<1>3. /\ s.status = "SANDBOX_REPAIR" /\ s.approval = incident.approval
      /\ s.proposal = incident.proposal /\ Typed(s)
    BY <1>1 DEF PendingRecorded, RepairIncidents, Typed
<1> HIDE DEF run, s
<1>4. incident = checkpoint => Lags(checkpoint, s)
    BY <1>1, <1>3 DEF Lags, ClosedStatuses
<1>5. Followed' /\ repairedBar' = repairedBar /\ (checkpoint' = s \/ UNCHANGED bars)
    BY <1>2, <1>4, CommitFollows
<1>6. CASE checkpoint' = s
    <2>1. Typed(checkpoint) /\ verdictBar = "open"
        BY <1>1 DEF Followed, Lags, verdictBar, ClosedStatuses
    <2>2. decisionBar' = incident.approval /\ verdictBar' = "open"
        BY <1>3, <1>6 DEF decisionBar, verdictBar, ClosedStatuses
    <2>3. CASE incident.approval = checkpoint.approval
        BY <1>5, <2>1, <2>2, <2>3 DEF bars, decisionBar
    <2>4. CASE checkpoint.approval = NoApproval
        <3>1. decisionBar = NoApproval
            BY <2>4 DEF decisionBar
        <3>2. incident.approval \in Approvals("approved")
            BY <1>1 DEF RepairIncidents, Approvals
        <3> QED
            BY <1>5, <2>1, <2>2, <3>1, <3>2 DEF Gate!Grant
    <2> QED
        BY <2>1, <2>3, <2>4 DEF Followed, Lags
<1> QED
    BY <1>5, <1>6

LEMMA ExecuteRunSimulates ==
    ASSUME IInv, Followed, ExecuteRun
    PROVE  Followed' /\ (Gate!Repair \/ UNCHANGED bars)
<1> DEFINE run == incident.repair.run
<1>1. CanResume(incident) /\ UNCHANGED <<incident, checkpoint, observed>>
    BY DEF IInv, CallUnderWay, ExecuteRun
<1>2. Followed'
    BY <1>1 DEF Followed, Lags, observed, Typed
<1>3. decisionBar \in Approvals("approved") /\ verdictBar = "open"
    BY <1>1, GrantIsOnRecord DEF CanResume, ClosedStatuses
<1>4. UNCHANGED <<decisionBar, verdictBar>>
    BY <1>1 DEF decisionBar, verdictBar
<1>5. run \in SandboxRuns /\ run.id \in RunIds
    BY <1>1 DEF CanResume, IInv, TypeOK, RepairIncidents, SandboxRuns
<1>6. ran'[run.id] # None
    <2>1. \A q \in TerminalRuns(run) : q \in SandboxRuns
        BY <1>5 DEF TerminalRuns, SandboxRuns
    <2>2. PICK result \in TerminalRuns(run) \cup {Indeterminate} :
              ran' = [ran EXCEPT ![run.id] = result]
        BY DEF ExecuteRun
    <2> QED
        BY <1>5, <2>1, <2>2, NoneAssumption, FlowAssumption DEF IInv, TypeOK
<1>7. repairedBar' = TRUE
    BY <1>5, <1>6 DEF repairedBar, Executed
<1> QED
    BY <1>2, <1>3, <1>4, <1>7 DEF Gate!Repair

LEMMA RecordResultSimulates ==
    ASSUME MaxSaveFailures <= 1, IInv, Followed, NEW id \in RunIds,
           ran[id] \notin {None, Indeterminate}, RecordResult(ran[id])
    PROVE  Followed' /\ (Gate!GiveUp \/ UNCHANGED bars)
<1> DEFINE r == ran[id]
           s == RepairResultRecorded(incident, r.status, r)
<1>1. /\ incident \in RepairIncidents /\ Lawful(incident)
      /\ CanRecordRepairResult(incident, r)
    BY DEF IInv, TypeOK, RecordResult
<1>2. Commit(s) /\ ran' = ran
    BY DEF RecordResult, world
<1>3. /\ incident.repair.run # None /\ Typed(incident)
      /\ incident.status = "SANDBOX_REPAIR"
    BY <1>1 DEF CanRecordRepairResult, Lawful, StageIsReached
<1>4. /\ s.status \in {"POST_VALIDATION", "TOOL_FAILED"} /\ s.approval = incident.approval
      /\ s.proposal = incident.proposal /\ Typed(s)
    BY <1>1, <1>3 DEF RepairResultRecorded, RepairIncidents, Typed
<1> HIDE DEF r, s
<1>5. incident = checkpoint => Lags(checkpoint, s)
    BY <1>3, <1>4 DEF Lags, ClosedStatuses
<1>6. Followed' /\ repairedBar' = repairedBar /\ (checkpoint' = s \/ UNCHANGED bars)
    BY <1>2, <1>5, CommitFollows
<1>7. CASE checkpoint' = s
    <2>1. /\ Typed(checkpoint) /\ checkpoint.approval = incident.approval
          /\ decisionBar \in Approvals("approved") /\ verdictBar = "open"
        BY <1>3, GrantIsOnRecord DEF ClosedStatuses
    <2>2. decisionBar' = decisionBar
        BY <1>4, <1>7, <2>1 DEF decisionBar
    <2>3. verdictBar' \in {"open", "closed"}
        BY <1>4, <1>7 DEF verdictBar
    <2> QED
        BY <1>6, <2>1, <2>2, <2>3 DEF Gate!GiveUp, bars
<1> QED
    BY <1>6, <1>7

LEMMA RecordVerdictSimulates ==
    ASSUME MaxSaveFailures <= 1, IInv, Followed, NEW v \in verdicts, RecordVerdict(v)
    PROVE  Followed' /\ (Gate!Resolve \/ Gate!GiveUp \/ UNCHANGED bars)
<1> DEFINE s == VerdictRecorded(incident, v.passed, IF v.passed THEN "passed" ELSE "failed")
<1>1. /\ incident \in RepairIncidents /\ Lawful(incident)
      /\ CanRecordVerdict(incident, v)
    BY DEF IInv, TypeOK, RecordVerdict
<1>2. Commit(s) /\ ran' = ran
    BY DEF RecordVerdict, world
<1>3. /\ incident.repair.run # None /\ Typed(incident)
      /\ incident.status = "POST_VALIDATION" /\ incident.repair.run.status = "succeeded"
    BY <1>1 DEF CanRecordVerdict, Lawful, StageIsReached
<1>4. /\ s.status \in {"RESOLVED", "VALIDATION_FAILED"} /\ s.approval = incident.approval
      /\ s.proposal = incident.proposal /\ Typed(s)
    BY <1>1, <1>3 DEF VerdictRecorded, RepairIncidents, Typed
<1> HIDE DEF s
<1>5. incident = checkpoint => Lags(checkpoint, s)
    BY <1>3, <1>4 DEF Lags, ClosedStatuses
<1>6. Followed' /\ repairedBar' = repairedBar /\ (checkpoint' = s \/ UNCHANGED bars)
    BY <1>2, <1>5, CommitFollows
<1>7. CASE checkpoint' = s
    <2>1. /\ Typed(checkpoint) /\ checkpoint.approval = incident.approval
          /\ decisionBar \in Approvals("approved") /\ verdictBar = "open"
        BY <1>3, GrantIsOnRecord DEF ClosedStatuses
    <2>2. decisionBar' = decisionBar
        BY <1>4, <1>7, <2>1 DEF decisionBar
    <2>3. verdictBar' \in {"resolved", "closed"}
        BY <1>4, <1>7 DEF verdictBar, ClosedStatuses
    <2>4. repairedBar
        <3>1. /\ incident.repair.run \in SandboxRuns
              /\ incident.repair.run.id \in RunIds
              /\ ran[incident.repair.run.id] = incident.repair.run
            BY <1>1, <1>3 DEF IInv, Honest, RepairIncidents, SandboxRuns
        <3> QED
            BY <1>3, <3>1 DEF repairedBar, Executed
    <2> QED
        BY <1>6, <2>1, <2>2, <2>3, <2>4 DEF Gate!Resolve, Gate!GiveUp
<1> QED
    BY <1>6, <1>7

LEMMA UnwrittenSimulates ==
    ASSUME Followed,
           BeginResume \/ ValidateRepair \/ Crash \/ Restart \/ Tick \/ UNCHANGED vars
    PROVE  Followed' /\ UNCHANGED bars
<1>1. UNCHANGED <<checkpoint, ran, saveFailures>> /\ incident' \in {incident, checkpoint}
    BY DEF BeginResume, ValidateRepair, Crash, Restart, Tick, vars, world, observed
<1>2. Followed' /\ repairedBar' = repairedBar
    BY <1>1 DEF Followed, Lags, Typed, repairedBar, Executed
<1> QED
    BY <1>1, <1>2, UnwrittenIsInvisible

LEMMA EndResumeSimulates ==
    ASSUME MaxSaveFailures <= 1, IInv, Followed, EndResume
    PROVE  Followed' /\ (Gate!GiveUp \/ UNCHANGED bars)
<1> DEFINE id == incident.repair.run.id
<1>1. id \in RunIds
    BY DEF IInv, EndResume, CallUnderWay, CanResume, TypeOK, RepairIncidents, SandboxRuns
<1>2. CASE ran[id] \notin {None, Indeterminate} /\ RecordResult(ran[id])
    BY <1>1, <1>2, RecordResultSimulates
<1>3. CASE UNCHANGED <<incident, checkpoint, up, world, now, observed>>
    <2>1. Followed' /\ UNCHANGED <<checkpoint, repairedBar>>
        BY <1>3 DEF Followed, Lags, Typed, repairedBar, Executed, world, observed
    <2> QED
        BY <2>1, UnwrittenIsInvisible
<1> QED
    BY <1>2, <1>3 DEF EndResume

LEMMA StepSimulates ==
    ASSUME MaxSaveFailures <= 1, IInv, Followed, [Next]_vars
    PROVE  Followed' /\ [Gate!Next]_bars
<1> USE DEF Gate!Next
<1>1. CASE ClientStep
    <2>1. CASE \E id \in RunIds : RecordRepairResult(id)
        BY <2>1, RecordResultSimulates DEF RecordRepairResult
    <2>2. CASE \E d \in Submitted : RecordApproval(d)
        BY <2>2, RecordApprovalSimulates
    <2>3. CASE \E target \in RepairStatuses : PublicTransition(target)
        BY <2>3, PublicTransitionSimulates
    <2>4. CASE \E p \in Offered : Propose(p)
        BY <2>4, ProposeSimulates
    <2> QED
        BY <1>1, <2>1, <2>2, <2>3, <2>4, UntypedSimulates DEF ClientStep
<1>2. CASE AwaitApproval
    BY <1>2, AwaitApprovalSimulates
<1>3. CASE Recover
    BY <1>3, PendingRunSimulates, ExecuteRunSimulates, EndResumeSimulates, UnwrittenSimulates
       DEF Recover
<1>4. CASE Conclude
    BY <1>4, RecordVerdictSimulates DEF Conclude
<1>5. CASE Crash \/ Tick \/ UNCHANGED vars
    BY <1>5, UnwrittenSimulates
<1> QED
    BY <1>1, <1>2, <1>3, <1>4, <1>5 DEF Next

(* When at most one checkpoint write fails, what the checkpoint and the     *)
(* world show is the approval gate: one decision, a repair only under it,  *)
(* and a resolution only after a repair, through any stops and late calls. *)
(* A lost write is made up for by the next one, which shows both.          *)
THEOREM RefinesApprovalGate ==
    ASSUME MaxSaveFailures <= 1
    PROVE  Spec => ImplementsApprovalGate
<1>1. Init => Followed /\ Gate!Init
    <2> SUFFICES ASSUME Init
                 PROVE  Followed /\ Gate!Init
        OBVIOUS
    <2>1. checkpoint.proposal = None /\ checkpoint.status = "ROOT_CAUSE_FOUND"
        BY DEF Init, DiagnosedIncident
    <2>2. decisionBar = NoApproval /\ verdictBar = "open"
        BY <2>1 DEF decisionBar, verdictBar, Typed
    <2>3. repairedBar = FALSE
        BY DEF Init, repairedBar, Executed
    <2> QED
        BY <2>2, <2>3 DEF Init, Followed, Lags, Gate!Init
<1>2. IInv /\ Followed /\ [Next]_vars => Followed' /\ [Gate!Next]_bars
    BY StepSimulates
<1>3. [Gate!Next]_bars => [Gate!Next]_<<decisionBar, repairedBar, verdictBar>>
    BY DEF bars
<1> QED
    BY <1>1, <1>2, <1>3, InvariantHolds, PTL DEF Spec, ImplementsApprovalGate, Gate!Spec
=============================================================================
