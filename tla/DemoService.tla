---------------------------- MODULE DemoService ----------------------------
(***************************************************************************)
(* One incident of the demo API: start_incident writes its session file,   *)
(* and requests of a thread pool then submit decisions.  decide_incident   *)
(* runs under the lock of its DemoService, and get_demo_service keeps the  *)
(* instance in an lru_cache that two first requests may both miss.         *)
(*                                                                         *)
(*   - the session is read, decided upon, and written before the sandbox   *)
(*     repair, after it, and after the post-validation;                    *)
(*   - a write goes to session.json.tmp, which is renamed to session.json; *)
(*   - an exception leaves the request with an error and the file as last  *)
(*     written; a stop of the process takes every request, lock and cached *)
(*     instance with it.                                                   *)
(*                                                                         *)
(* A request makes one decision and, if it approves, one run, each with an *)
(* identifier of its own: the request stands for all three.  Requests that *)
(* only read change nothing and are left out.  A write of the temporary    *)
(* file is one step.                                                       *)
(***************************************************************************)
EXTENDS RepairIncident

CONSTANTS
    Requests,       \* POST /demo/incidents/{id}/approval
    Evidences,      \* what the diagnosis may stand on
    Warm,           \* the instance that start_incident left in the cache
    Torn,           \* contents of a file whose write failed
    Indeterminate,  \* a run directory without a usable result
    SerialFill,     \* does no request construct a service while another does?
    MaxTime,        \* bound: the clock
    MaxCrashes,     \* bound: process stops
    MaxFaults       \* bound: exceptions of writes, executor and validator

ASSUME ServiceAssumption ==
    /\ DecisionIds = Requests
    /\ RunIds = Requests
    /\ Evidences \subseteq SUBSET Evidence
    /\ None \notin Requests \cup {Warm}
    /\ Warm \notin Requests
    /\ Torn \notin RepairIncidents \cup {None}
    /\ Indeterminate # None
    /\ SerialFill \in BOOLEAN
    /\ MaxTime \in Nat
    /\ MaxCrashes \in Nat
    /\ MaxFaults \in Nat

Instances == Requests \cup {Warm}

VARIABLES
    session,    \* session.json: an incident, or Torn
    tmp,        \* session.json.tmp
    cached,     \* the instance get_demo_service has kept
    holder,     \* per instance: the request that holds its lock
    pc,         \* next step of each request
    service,    \* the instance of each request
    local,      \* the session each request holds in memory, or showed in its answer
    answer,     \* "ok", "conflict" or "error" once it is given
    ran,        \* per run: None, its durable result, or Indeterminate
    now,
    crashes, faults     \* observed, read by no handler

server == <<cached, holder, service>>
files == <<session, tmp>>
vars == <<files, server, pc, local, answer, ran, now, crashes, faults>>

-----------------------------------------------------------------------------
Steps == {"idle", "construct", "lock", "decide", "write", "replace", "execute", "validate",
          "done"}

Answers == {"none", "ok", "conflict", "error"}

TypeOK ==
    /\ session \in RepairIncidents \cup {Torn}
    /\ tmp \in RepairIncidents \cup {None, Torn}
    /\ cached \in Instances \cup {None}
    /\ holder \in [Instances -> Requests \cup {None}]
    /\ pc \in [Requests -> Steps]
    /\ service \in [Requests -> Instances \cup {None}]
    /\ local \in [Requests -> RepairIncidents \cup {None}]
    /\ answer \in [Requests -> Answers]
    /\ ran \in [Requests -> SandboxRuns \cup {None, Indeterminate}]
    /\ now \in Nat
    /\ crashes \in Nat
    /\ faults \in Nat

(* start_incident: the incident has its uuid, its diagnosis and proposal    *)
(* before anybody can name it.                                             *)
Started(support, evidence) ==
    LET diagnosed == DiagnosedIncident(MissingPartition, support, evidence)
    IN  Awaiting(Proposed(diagnosed, Built(diagnosed, 0)))

Init ==
    /\ \E support \in Evidences, evidence \in Evidences :
          LET diagnosed == DiagnosedIncident(MissingPartition, support, evidence) IN
              /\ Buildable(diagnosed)
              /\ CanPropose(diagnosed, Built(diagnosed, 0))
              /\ session = Started(support, evidence)
    /\ tmp = None
    /\ cached = Warm
    /\ holder = [i \in Instances |-> None]
    /\ pc = [r \in Requests |-> "idle"]
    /\ service = [r \in Requests |-> None]
    /\ local = [r \in Requests |-> None]
    /\ answer = [r \in Requests |-> "none"]
    /\ ran = [r \in Requests |-> None]
    /\ now = 0
    /\ crashes = 0
    /\ faults = 0

-----------------------------------------------------------------------------
GoTo(r, step) == pc' = [pc EXCEPT ![r] = step]

(* The request ends, and leaves the with block of the lock if it is in it.  *)
Answer(r, what) ==
    /\ GoTo(r, "done")
    /\ answer' = [answer EXCEPT ![r] = what]
    /\ holder' = [i \in Instances |-> IF holder[i] = r THEN None ELSE holder[i]]
    /\ UNCHANGED <<cached, service>>

Fault ==
    /\ faults < MaxFaults
    /\ faults' = faults + 1

Undisturbed == UNCHANGED <<now, crashes>>

Hold(r, incident) == local' = [local EXCEPT ![r] = incident]

-----------------------------------------------------------------------------
(* get_demo_service.  lru_cache does not hold its lock while it calls: each *)
(* request that missed uses the instance it constructed.                   *)

FindService(r) ==
    /\ pc[r] = "idle"
    /\ \/ /\ cached # None
          /\ service' = [service EXCEPT ![r] = cached]
          /\ GoTo(r, "lock")
       \/ /\ cached = None
          /\ SerialFill => \A q \in Requests : pc[q] # "construct"
          /\ GoTo(r, "construct")
          /\ UNCHANGED service
    /\ UNCHANGED <<files, cached, holder, local, answer, ran, faults>>
    /\ Undisturbed

ConstructService(r) ==
    /\ pc[r] = "construct"
    /\ service' = [service EXCEPT ![r] = r]
    /\ cached' = IF cached = None THEN r ELSE cached
    /\ GoTo(r, "lock")
    /\ UNCHANGED <<files, holder, local, answer, ran, faults>>
    /\ Undisturbed

-----------------------------------------------------------------------------
(* decide_incident.                                                        *)

(* A faulty variant of a definition stands before it: a bug the checks must *)
(* notice.                                                                 *)
AcquireNoLock(r) ==
    /\ pc[r] = "lock"
    /\ GoTo(r, "decide")
    /\ Hold(r, session)
    /\ UNCHANGED <<files, server, answer, ran, faults>>
    /\ Undisturbed

(* The lock, then the session; a file that does not parse is an error.      *)
AcquireLock(r) ==
    /\ pc[r] = "lock"
    /\ holder[service[r]] = None
    /\ \/ /\ session # Torn
          /\ holder' = [holder EXCEPT ![service[r]] = r]
          /\ GoTo(r, "decide")
          /\ Hold(r, session)
          /\ UNCHANGED <<cached, service, answer>>
       \/ /\ session = Torn
          /\ Answer(r, "error")
          /\ UNCHANGED local
    /\ UNCHANGED <<files, ran, faults>>
    /\ Undisturbed

DecideBeforeWriting(r, outcome) ==
    LET s == local[r]
        d == [id |-> r, proposal |-> s.proposal, outcome |-> outcome, at |-> now]
        decided == ApprovalRecorded(s, outcome, d)
    IN  /\ pc[r] = "decide"
        /\ CanRecordApproval(s, d, now)
        /\ IF outcome = "approved"
           THEN Hold(r, PendingRecorded(decided, PendingRun(r, s.proposal, d))) /\ GoTo(r, "execute")
           ELSE Hold(r, decided) /\ GoTo(r, "write")
        /\ UNCHANGED <<files, server, answer, ran, faults>>
        /\ Undisturbed

(* ApprovalDecision.for_proposal decides now, and record_approval compares  *)
(* the clock again; an approved decision is recorded with its pending run. *)
Decide(r, outcome) ==
    LET s == local[r]
        d == [id |-> r, proposal |-> s.proposal, outcome |-> outcome, at |-> now]
        decided == ApprovalRecorded(s, outcome, d)
        run == PendingRun(r, s.proposal, d)
    IN  /\ pc[r] = "decide"
        /\ CanRecordApproval(s, d, now)
        /\ \/ /\ outcome = "rejected"
              /\ Hold(r, decided)
           \/ /\ outcome = "approved"
              /\ CanRecordPendingRun(decided, run)
              /\ Hold(r, PendingRecorded(decided, run))
        /\ GoTo(r, "write")
        /\ UNCHANGED <<files, server, answer, ran, faults>>
        /\ Undisturbed

RefuseDecision(r) ==
    /\ pc[r] = "decide"
    /\ \/ /\ local[r].status # "AWAITING_APPROVAL"
          /\ Answer(r, "conflict")
       \/ /\ local[r].status = "AWAITING_APPROVAL"
          /\ ~InWindow(now, local[r].proposal)
          /\ Answer(r, "error")
    /\ UNCHANGED <<files, local, ran, faults>>
    /\ Undisturbed

(* _write_session.                                                         *)
WriteTemporary(r) ==
    /\ pc[r] = "write"
    /\ \/ /\ tmp' = local[r]
          /\ GoTo(r, "replace")
          /\ UNCHANGED <<server, answer, faults>>
       \/ /\ Fault
          /\ tmp' = Torn
          /\ Answer(r, "error")
    /\ UNCHANGED <<session, local, ran>>
    /\ Undisturbed

AfterWriteUnvalidated(s) == IF s.status = "SANDBOX_REPAIR" THEN "execute" ELSE "done"

(* What follows the write depends on how far the incident has come.         *)
AfterWrite(s) ==
    CASE s.status = "SANDBOX_REPAIR"  -> "execute"
      [] s.status = "POST_VALIDATION" -> "validate"
      [] OTHER                        -> "done"

ReplaceSessionBestEffort(r) ==
    /\ pc[r] = "replace"
    /\ \/ /\ session' = tmp
          /\ tmp' = None
          /\ UNCHANGED faults
       \/ /\ Fault
          /\ UNCHANGED files
    /\ IF AfterWrite(local[r]) = "done" THEN Answer(r, "ok")
       ELSE GoTo(r, AfterWrite(local[r])) /\ UNCHANGED <<server, answer>>
    /\ UNCHANGED <<local, ran>>
    /\ Undisturbed

ReplaceSession(r) ==
    /\ pc[r] = "replace"
    /\ \/ /\ tmp # None
          /\ session' = tmp
          /\ tmp' = None
          /\ \/ /\ AfterWrite(local[r]) = "done"
                /\ Answer(r, "ok")
             \/ /\ AfterWrite(local[r]) # "done"
                /\ GoTo(r, AfterWrite(local[r]))
                /\ UNCHANGED <<server, answer>>
          /\ UNCHANGED faults
       \/ /\ (tmp = None /\ UNCHANGED faults) \/ Fault
          /\ UNCHANGED files
          /\ Answer(r, "error")
    /\ UNCHANGED <<local, ran>>
    /\ Undisturbed

(* execute and record_repair_result.  A SandboxRepairError leaves the run   *)
(* directory indeterminate; so does a process that stops inside.           *)
ExecuteRepair(r) ==
    LET run == local[r].repair.run IN
        /\ pc[r] = "execute"
        /\ \/ \E result \in {[run EXCEPT !.status = "succeeded", !.count = 1],
                             [run EXCEPT !.status = "failed"]} :
                 /\ CanRecordRepairResult(local[r], result)
                 /\ ran' = [ran EXCEPT ![r] = result]
                 /\ Hold(r, RepairResultRecorded(local[r], result.status, result))
                 /\ GoTo(r, "write")
                 /\ UNCHANGED <<server, answer, faults>>
           \/ /\ Fault
              /\ ran' = [ran EXCEPT ![r] = Indeterminate]
              /\ Answer(r, "error")
              /\ UNCHANGED local
        /\ UNCHANGED files
        /\ Undisturbed

(* validate and record_post_validation_result.  An error of the validator   *)
(* itself is not caught.                                                   *)
ValidateRepair(r) ==
    LET s == local[r] IN
        /\ pc[r] = "validate"
        /\ \/ \E sound \in {Checks} \cup {Checks \ {check} : check \in Checks} :
                 LET v == [run      |-> s.repair.run.id,
                           proposal |-> s.proposal,
                           passed   |-> Passed(sound, TRUE)] IN
                     /\ CanRecordVerdict(s, v)
                     /\ Hold(r, VerdictRecorded(s, v.passed,
                                                IF v.passed THEN "passed" ELSE "failed"))
                     /\ GoTo(r, "write")
                     /\ UNCHANGED <<server, answer, faults>>
           \/ /\ Fault
              /\ Answer(r, "error")
              /\ UNCHANGED local
        /\ UNCHANGED <<files, ran>>
        /\ Undisturbed

-----------------------------------------------------------------------------
(* Memory is lost, except what an answer has shown to somebody.  A repair   *)
(* that was about to run may have begun.                                   *)
Crash ==
    /\ crashes < MaxCrashes
    /\ crashes' = crashes + 1
    /\ pc' = [r \in Requests |-> IF pc[r] = "idle" THEN "idle" ELSE "done"]
    /\ ran' = [r \in Requests |-> IF pc[r] = "execute" /\ ran[r] = None
                                  THEN Indeterminate ELSE ran[r]]
    /\ local' = [r \in Requests |-> IF answer[r] = "ok" THEN local[r] ELSE None]
    /\ tmp' \in {tmp} \cup {Torn : r \in {q \in Requests : pc[q] = "write"}}
    /\ service' = [r \in Requests |-> None]
    /\ holder' = [i \in Instances |-> None]
    /\ cached' = None
    /\ UNCHANGED <<session, answer, now, faults>>

Tick ==
    /\ now < MaxTime
    /\ now' = now + 1
    /\ UNCHANGED <<files, server, pc, local, answer, ran, crashes, faults>>

Serve(r) ==
    \/ FindService(r)
    \/ ConstructService(r)
    \/ AcquireLock(r)
    \/ \E outcome \in {"approved", "rejected"} : Decide(r, outcome)
    \/ RefuseDecision(r)
    \/ WriteTemporary(r)
    \/ ReplaceSession(r)
    \/ ExecuteRepair(r)
    \/ ValidateRepair(r)

Next ==
    \/ \E r \in Requests : Serve(r)
    \/ Crash
    \/ Tick

Spec == Init /\ [][Next]_vars

(* A thread that serves a request keeps running, and takes a lock that   *)
(* stays free.  Nobody has to send a request, stop the process or wait.    *)
FairSpec == Spec /\ \A r \in Requests : WF_vars(pc[r] # "idle" /\ Serve(r))

-----------------------------------------------------------------------------
Executed == {r \in Requests : ran[r] # None}

Readable == session # Torn

(* The repair of an incident runs only once, and the session file names     *)
(* that run and the decision that allowed it, whatever becomes of the      *)
(* request that made them.                                                 *)
RepairedOnce ==
    Executed # {} =>
        /\ Readable /\ session.repair.run # None
        /\ {session.approval.decision.id} = Executed
        /\ {session.repair.run.id} = Executed

(* The repair runs only once, as the README says of an approved repair.     *)
RunsOnce == \A q, r \in Executed : q = r

(* What a 200 answer showed is what the session file says ever after: the   *)
(* decision of that request, and the end it came to.                       *)
AnsweredStands ==
    \A r \in Requests : answer[r] = "ok" =>
        /\ session = local[r]
        /\ session.approval.decision # None
        /\ session.approval.decision.id = r
        /\ session.status \in ClosedStatuses

(* Refinement: the session file implements the abstract approval gate.      *)
Approvals(status) == [status : {status}, decision : Decisions]

decisionBar == IF Readable THEN session.approval ELSE NoApproval

verdictBar ==
    IF ~Readable \/ session.status \notin ClosedStatuses THEN "open"
    ELSE IF session.status = "RESOLVED" THEN "resolved" ELSE "closed"

Gate == INSTANCE ApprovalGate WITH
    Grants     <- Approvals("approved"),
    Refusals   <- Approvals("rejected"),
    NoDecision <- NoApproval,
    decision   <- decisionBar,
    repaired   <- Executed # {},
    verdict    <- verdictBar

ImplementsApprovalGate == Gate!Spec

(* Without a stop or an exception a decision that was written comes to its  *)
(* end: no request waits for another for ever, and none gives up half way. *)
DecisionIsCarriedOut ==
    Readable /\ session.status \in {"SANDBOX_REPAIR", "POST_VALIDATION"}
        ~> (Readable /\ session.status \in ClosedStatuses) \/ crashes > 0 \/ faults > 0
=============================================================================
