# DataSherlock harness: a TLA+ verification project

DataSherlock investigates data incidents: a planner proposes hypotheses and
queries, a harness runs the queries under budgets, collects evidence for and
against each hypothesis, names a root cause only when a validator accepts it,
and may then repair an isolated copy of the database after a human approved the
proposal. The model says what may be tried; the harness decides what may happen.
This project is about the harness.

Paths below are those of the repository; its Python packages are under
`src/src/`.

## 1. Inventory

| component | code | state it keeps | operations | what makes it correct |
|---|---|---|---|---|
| Hypothesis manager | `harness/hypothesis.py` | hypotheses (status, confidence, bindings), registered evidence | create, register, start/return to testing, attach, update status, restore | a verdict is explained by the evidence it stands on, whatever the order of calls; bindings are final |
| Root cause validator | `validators/root_cause_validator.py` | none | validate | two supports of two source types, confidence, no contradiction |
| Harness graph, investigation | `harness/graph.py`, `harness/state.py` | `IncidentState`, `ResumeMetadata`, live manager | transition, prepare_plan, execute_next_step, register/attach evidence, validate_hypothesis, request_more_evidence, restore | root causes are evidenced; budgets bound real work; a restart neither forgets nor repeats a completed step |
| Harness graph, repair and approval | `harness/graph.py`, `repair*.py`, `approval.py`, `post_validation.py` | proposal, decision, run and verdict in the incident record | propose_fix, record_approval, record_pending_run, resume, record_repair_result, post-validation | nothing runs without an approval of exactly that proposal, on record before the run; RESOLVED means repaired and checked |
| Guardrail runtime | `harness/guardrails.py` | usage counters, fingerprint counts (inside the state) | preflight, record_allowed, postflight | no call beyond a budget or a duplicate limit unless explicitly replayed |
| Checkpoint store and manager | `harness/checkpoint.py` | numbered JSON files | save, load_latest, load_sequence, next_sequence | a torn or corrupt file is never taken for a checkpoint; the newest good one is found |
| Sandbox executor and recovery | `harness/sandbox_repair.py`, `repair_recovery.py` | run directory: copy, invocation marker, temporary and final result | execute, recover_run, resume_approved_repair | at most one invocation; the incident hears only what is durable |
| Demo service and API | `demo/`, `api/` | session files, a cached service instance, its lock | start_incident, decide_incident, reads | one decision per incident, one repair, an answer that stays true |
| Benchmark runner | `benchmark/runner.py` | case queue, workers | drive the graph to a report | every case ends; a late answer does not corrupt a settled case |
| Tools | `tools/` | a worker thread and a connection per query, the audit file | execute_step, run_readonly_sql, five data-quality checks | every call is answered, by what its query and its audit record say; a verdict is the documented one |
| Planner and LLM clients | `agents/`, `llm/` | none | plan | output is contract-checked |
| Evidence interpreter | `benchmark/evidence_interpreter.py` | none | polarity of a result | pure rules |
| SQL result validator | `validators/sql_result.py` | none | validate | a partial or misshapen result is never evidence |
| Ablation and benchmark support | `benchmark/*`, `experiments/` | reports | offline | sequential |
| Configuration, data generator, UI | `config/`, `data/`, `app/` | tables | offline | no protocol |

How they interact. The runner (or the demo) calls the graph's public methods.
The graph calls the guardrails before a tool, the tool executor, and the
checkpoint manager after each transition; it owns a hypothesis manager and
mirrors its snapshot into `state.hypotheses`. `resume_approved_repair` reads the
incident, calls the sandbox executor, and tells the graph the terminal run
(`record_repair_result`). Processes share only files: the checkpoint directory,
the run directory and the session file. There are no messages; most of what is
hard comes from two records of one fact being written one after the other, the
rest from threads: the requests of the demo API and the workers of the SQL runner.

Where it is hard (the full list with lines is `hazards` in `PROJECT.json`):

- memory is changed before the save, and the save may raise or the process stop
  (`graph.py:1176-1231`, `:426-475`);
- evidence is attached without a checkpoint and the snapshot saved by a later call;
- the permission to replay a step and the test that lets the duplicate through
  are two records (`:563`, `:2027`);
- the run directory is looked for and then created (`sandbox_repair.py:80,92`),
  the invocation counted before its marker is written (`:96-101`), and the
  temporary result is cleaned up by whoever fails (`:400`);
- clamped confidence makes the order of evidence matter;
- a pending run that memory holds and the checkpoint does not may be issued a
  second time after a restart (`graph.py:1028`);
- a decision is a read, a decision, three writes through one temporary file and a
  repair between them, kept together only by the lock of one service instance
  (`service.py:252`), which two first requests may construct twice (`api/demo.py:31`);
- a deadline passes while the worker's rows arrive, or before it has begun
  (`sql_runner.py:287`), and a query that succeeded may not be auditable (`:322`).

## 2. Modules

| module | models | variables and actions |
|---|---|---|
| `Hypothesis` | one hypothesis and the validator, as operators on records | no variables; `Attached`, `Evaluated`, `Validated`... Confidence is in whole percent: the code's floats are rounded so that every comparison with its thresholds is decided the same way |
| `HypothesisManager` | the manager | `hyps`, `registered`; one action per public operation |
| `HarnessGraph` | the investigation half of the graph with the guardrails and a checkpoint | `state`, `resume` in memory, `checkpoint` on disk, `running` tool, `up`; one action per public method, `Crash`, `Restore` |
| `IncidentLifecycle` | what a reader of the checkpoints may rely on | `phase`, `cause` |
| `RepairIncident` | the repair half of an incident record: what each method of the graph requires of it (`Can...`) and the record it leaves, the proposal builder, the post-validator | no variables |
| `RepairFlow` | that half of the graph with memory, checkpoint, clock and the world | `incident`, `checkpoint`, `call` under way, `up`, `issued` run identifiers, `ran` and `sound` per run, `verdicts` held by callers, the history `accepted` (decisions taken, with the clock) and `under` (per run, the proposal and decision it was executed under); one action per method, `Crash`, `Restart`, `Tick` |
| `DemoService` | concurrent decisions of the demo API on one incident | `session` and `tmp` files, `cached` instance, `holder` of each instance's lock, and per request `pc`, `service`, `local` copy, `answer`, `ran`; one action per step between two file operations |
| `ApprovalGate` | what an approval-gated repair promises to a reader of the durable record | `decision`, `repaired`, `verdict` |
| `SandboxRepair` | executor, recovery and the last step of a resumed repair, for several processes | the five files of the run directory, the source version, the durable incident, one `pc` per process; one action per file operation |
| `AtMostOnceRepair` | what a repair promises | `effect`, `outcome`; `Apply`, `Succeed`, `Fail` |
| `CheckpointStore` | the checkpoint directory of one incident, saved into by several processes | `disk` (visible files), `durable` (as of the last directory sync), a `pc` per save; one action per file operation, `Crash`, `PowerFailure`, `Damage`; `Latest` is `load_latest_valid` |
| `ToolCall` | callers of the tool executor with the SQL runner's workers, deadlines, connections and audit file | per caller `pc`, `step`, `worker`, `brought` rows, `interrupted`, `connection`, `response`, `answer`; `audit` and its lock |
| `DataQuality` | the five data-quality checks: queries, verdicts and what the documents say of them | no variables; tables are sequences of rows with `Null` cells |
| `SqlResult` | the read-only guard and the SQL result validator | no variables |
| `MC...` | instances for TLC | |
| `...Proofs` | lemmas and theorems: `HypothesisManagerProofs`, `HarnessGraphProofs`, `RepairIncidentProofs`, `RepairFlowProofs`, `DemoServiceProofs`, `SandboxRepairProofs`, `CheckpointStoreProofs`, `ToolCallProofs` | |

How they are composed. `HarnessGraph` and `HypothesisManager` both extend
`Hypothesis`: the manager inside the graph is the same operators applied to
`state.hyps`. `RepairFlow` and `DemoService` both extend `RepairIncident`: the
demo calls the graph's methods on a record of its own and keeps it in a session
file instead of checkpoints. Both implement `ApprovalGate`. `RepairFlow` takes
of the executor what `SandboxRepair` shows of it (a run is carried out once, its
result is durable and found again, or the directory stays indeterminate).
`ToolCall` extends `DataQuality` and `SqlResult`.

In several modules a definition is preceded by a faulty variant of itself (its
name says the bug): substituting it must break the property named in
`PROJECT.json` (`mutants`), which shows that the property can be broken by a
change of the code.

### Correspondence worth knowing

Investigation:

- `HarnessGraph.Commit` is `_transition`: memory first, then the save, which
  either replaces the newest checkpoint or raises. Only the newest checkpoint is
  kept here; falling back to an older one belongs to `CheckpointStore`. (A save
  that raises after its rename, `FailSync` there, leaves the graph in a state
  that a successful save also leaves it in.)
- A call that raises before it changes anything is not a step.
- `prepare_plan` from `RECEIVED` is three separately saved steps (two transitions and
  the plan), as in the code; a crash may fall between them.
- A tool call is two steps (`BeginTool`, then `ToolSucceeds` or `ToolFails`): the
  usage is counted in memory before the tool runs and saved with the outcome.
- `agent_rounds` and `tool_calls` are always counted together: one counter, with
  the smaller of the two limits.
- `transition(HYPOTHESIS_TESTING -> EXECUTING)` is public and consumes no retry;
  it is in the model beside `request_more_evidence`.
- Evidence is constant: each tool run yields a fresh identifier, the caller
  registers and attaches any of them. `attach_evidence` does not ask whether an
  identifier is registered, while a restart refuses a checkpoint that names one
  which is not; `AttachRegisteredOnly` confines callers to what the runner does,
  and `CheckpointIsRestorable` holds only of those.
- `Crash` sets memory to what a restart will load; `Restore` is the validation
  (`restore_snapshot`) that the load must pass.

Repair:

- A content hash is the content: a decision, a run and a verdict carry the
  proposal they were made for, and two are equal when the code's identifiers and
  hashes are. A proposal without typed keys is `Untyped`, which the graph takes
  and then asks for nothing typed; the guarantees are stated for typed ones.
- `propose_fix` is two saved transitions, a failed first save leaves the second
  untried; a resume is three steps (bindings checked, run executed, result
  recorded), between which the process may stop.
- Callers may propose what the builder built or any typed proposal of their own:
  for another incident or root cause, or on other evidence than the root cause's
  (`Offered`); `propose_fix` refuses those. They may send a decision made for a
  proposal that was lost with a failed save, and one decided at any time; verdicts
  may arrive late and repeatedly.
- `accepted` and `under` are history: no guard reads them. A failed save and a stop
  make memory and checkpoint forget a decision, but not what was executed under it,
  so `RepairIsAuthorized` is stated over the history, without a condition.
- The check `unaffected` stands for all that may have regressed outside the
  partition: its other events and the regression metrics a caller configures.
- Run identifiers are fresh: `issued` says which are taken.

Demo:

- A request makes at most one decision and one run, each with a fresh uuid: the
  request stands for all three. `start_incident` is the initial state, since
  nobody knows the incident before it returns.
- `get_demo_service` is two steps because `lru_cache` does not hold its lock while
  it calls. With `SerialFill` no request constructs a service while another
  does; without it two instances, and two locks, may exist.
- `_write_session` is a write of `session.json.tmp` and a rename. `Crash` drops
  every request, lock and instance, and leaves a running repair indeterminate.

Sandbox and checkpoints:

- In `SandboxRepair` hashes are what they are hashes of. The reads of `recover_run`
  are one step: it only compares files that no longer change once a terminal
  result exists, and the source, whose versions are never reused.
- The incident read by `resume_approved_repair` is checked when it is read
  (`Resume`), and again by nobody when the outcome is recorded (`RecordResult`).
- In `CheckpointStore` a save is a number and the state it holds plays no part; what
  a writer could see when it began is recorded beside its file (`over`), so that
  the order of saves is stated without the code's own sequence numbers. Temporary
  files never match `*.json` and are not state. The file name's status and
  checkpoint id are one member of an ordered set: with equal sequence, status and
  cursor two saves choose the same name.

Tools:

- A SQL statement is what the two parsers say of it, with its complete answer; a
  threshold is a pair of integers, the number as the caller writes it.
- Rounding. A null or duplicate rate is one quotient, which is correctly rounded: it
  compares with the threshold's float as the exact rate does with the threshold, as
  long as the rows times the threshold's denominator stay below 2^53, and the model
  compares exactly. The distance of two distributions is a sum of rounded differences
  (`data_quality.py:1038`): 3/2/5 rows against 4/1/5 are 0.1 apart and the code
  computes 0.10000000000000002. `Precision` bounds that error: within 1/`Precision` of
  the threshold `DistributionVerdicts` holds both verdicts and `Return` picks either. A
  distance of zero is exact, since equal shares have equal quotients. A double's
  error over at most 1000 rows of an answer is far below 10^-12.
- A worker is queued, then runs, then ends with rows or an error; the deadline may
  pass in each of these states. DuckDB forgets an interrupt that finds no running
  query: with `PromptStart` every query has begun before its deadline.
- `Promised` is written from the documents (what each verdict means for the
  table), not from the queries, which `CompleteAnswer` and `Verdicts` translate.

## 3. What TLC checks

| run | instance | distinct states | shows |
|---|---|---|---|
| `hypothesis_manager` | 3 hypotheses (priors 60, 15 and 5 %), 4 references, 2 source types, the 3 references of one type interchangeable | 205,712 | verdicts explained by evidence, confidence accounted for, bindings final, a validated candidate stable, every rejection has its cause |
| `sandbox_one_process` | 1 process, 2 source changes, 2 faults, 2 crashes, fair | 4,225 | counts, durability, the refinement of `AtMostOnceRepair`, and both liveness properties |
| `sandbox_concurrent` | 3 interchangeable processes, 1 source change, 1 fault, 1 crash | 317,911 | at most one invocation, effects marked, success real |
| `sandbox_race` | 2 processes, nothing fails | violation | finding 1 |
| `sandbox_marker_fault` | 1 process, 1 failed write | violation | finding 2 |
| `graph` | 3 steps, two of them the same call; 1 retry, 1 crash, 1 failed save | 948,725 | root causes, budget, duplicates, replays, restorability, completion, the refinement of `IncidentLifecycle` |
| `store_managers` | 2 managers, 4 saves, 2 names per sequence, 1 fault, 2 stops, 1 damaged file | 1,575,697 | a restart loads nothing a returned save had already seen, and finds something |
| `store_damaged` | 1 manager, 1 damaged file | violation | finding 3 |
| `repair_flow` | 3 references, 2 causes, 2 incidents, every typed proposal over them, 2 decisions, 2 runs, clock to 2 with a window of 1, 1 crash, 1 failed save, fair | 712,140 | every executed run authorised whatever was lost, resolutions sound, the refinement of `ApprovalGate`, an approved repair ends |
| `demo_service` | 3 requests, clock to 2 with a window of 1, 1 fault, 1 crash, fair | 64,692 | one repair, answers that stay true, the refinement of `ApprovalGate`, a decision is carried out |
| `demo_first_requests` | 3 requests, 1 crash, services constructed by several | violation | finding 4 |
| `tools` | 2 callers that race with one database and 1 audit fault; 1 caller with every check of every small table | 130,193 | answers complete and audited, verdicts as documented, every call answered |

Why the bounds suffice. Two supports of two types validate, two contradictions
or one from a low prior reject: four references reach every combination and a
surplus. The three priors are the three ways to meet the rejection threshold without
a contradiction: never, until the first support, and even with it. Three processes are one more than any race in the code has sides; two
faults and two crashes allow a fault while recovering from a crash and the
reverse. In the graph the third step repeats the second's call, so a duplicate is
met with and without a replay, and the budget of three calls is both enough for
the plan and exceeded by a retry; a failed save and a crash are one each because
what they leave behind together (memory ahead of disk, then lost) needs both once.
In the store two managers can take the same sequence with the same or another
name, and four saves leave two after a race to continue from a damaged or lost
file. In the repair flow a second run needs one failed save and one restart, and
two runs, decisions and identifiers are what that uses; the clock passes the end
of the window and returns a late decision. Of the three references two share a source,
so three sets of them make a well-formed proposal and only one is the root cause's. In the demo one request decides, a
second meets the decided incident or the freed lock and a third arrives after a
stop. For the tools, two callers are enough for the one resource they share, the
audit lock and file, and the tables reach no row, one row, duplicates, `NULL`s and
rates on both sides of and exactly at their threshold. `Precision` is 100: the
distances of these tables are multiples of a half, so that only a distance equal to its
threshold is within it, which is where a double's error matters too.
`RepairFlow` is checked against `ApprovalGate` with one failed save and proved to
implement it with at most one. With two in a row it does not: a caller that ignores
both errors runs a repair whose decision and pending run are in memory only.
The symmetry sets contain only values no property and no constant distinguishes, and
no run with a liveness property uses any.

Deadlock is not checked where the system really stops: incidents end, requests
are answered, and the bounded faults and crashes run out. `hypothesis_manager`
checks it.

### Fairness

- `SandboxRepair`: each process keeps taking steps once it resumed the run, and an
  operator keeps resuming an unsettled incident: weak fairness of `Work(w)` as a whole.
- `RepairFlow`: the same operator, who restarts the process, issues the pending
  run, resumes it, validates the copy and records the verdict. Nobody has to
  propose, to decide or to wait.
- `DemoService`: a thread that serves a request keeps running and takes a lock that
  stays free. Nobody has to send a request.
- `ToolCall`: threads are scheduled, deadlines pass, and the engine gives up a
  query it was interrupted in and ends the others that end by themselves.
- Crashes, faults and source changes are not forced to happen or to stop other than
  by their bounds. Nothing is assumed of the investigation, whose client decides
  what to call.

### Findings

1. `sandbox_race` (`sandbox_repair.py:92`): the process that loses the race for
   the directory records the incident as failed with no invocation, while the
   winner's handler runs and commits.
2. `sandbox_marker_fault` (`sandbox_repair.py:96`): a failed write of the invocation marker
   leaves a durable terminal result that `recover_run` refuses for ever.
3. `store_damaged` (`checkpoint.py:194`): the version is compared before the
   checksum, so damage to that field is not skipped as a corrupt file but hides
   every older checkpoint.
4. `demo_first_requests` (`api/demo.py:31`): after a restart two first requests each
   construct a service with a lock of its own; both find the incident awaiting
   approval and both run a repair.

## 4. What is proved

`tlapm` checks every theorem for every value of the constants, under
the assumptions the modules name (`BoundsAssumption`, `StepsAssumption`,
`PolicyAssumption`, `StoreAssumption`, `RepairAssumption`, `NoneAssumption`,
`FlowAssumption`, `ServiceAssumption`, `ToolCallAssumption`, `CasesAssumption`,
`NullAssumption` and those of `Hypothesis`), which TLC evaluates in every run of a
module that has them. The assumptions of a theorem itself (`AttachRegisteredOnly`,
`MaxSaveFailures <= 1`, `SerialFill`, a single process) are named below: they restrict
what it is about.

**HypothesisManager.** `TypeCorrect`, `ExclusivePolarity`, `ExplainedStatus`,
`FinalBindings`, `StableValidation`, `AccountedConfidence`, `RejectionIsCaused`. The
module states once what each operator on a hypothesis does to confidence, status
and bindings; the invariant is then the conjunction of type, polarity, explanation
and account for each hypothesis, and each action touches one of them by one of
these operators. The account is kept as two bounds: the unclamped sum above, and
below what is left when all the support came first and was clamped once. For
`RejectionIsCaused`: the explanation says that a live candidate that holds evidence
does not meet the conditions of a rejection, and support makes none of them true, so a
rejecting step without a new contradiction is one of a candidate without evidence, whose
confidence by the account is its prior.

**HarnessGraph.** `TypeCorrect`, `RootCauseAlwaysEvidenced`, `ToolRunsAlwaysAccounted`,
`DuplicatesAlwaysPaidFor`, `ReplayAlwaysRunnable`, `CheckpointAlwaysRestorable` (assuming
`AttachRegisteredOnly`), `CompletedOnlyRetried`, `DurableCompletion`,
`RefinesIncidentLifecycle`. The properties relate memory to disk and none is
inductive. `Consistent` says of a pair (state, resume metadata) that it is fit to be saved; it
holds of memory but for the call under way, and of the checkpoint. Every action
that saves produces such a pair, so it does not matter whether the save
succeeded; a restart loads one. `Ahead` relates the two: memory has completed at
least the durable steps, a durable end is the end in memory, and each tool run
the durable counters miss is either under way or paid for by a fault. Two of its
parts are easy to overlook: a replay not yet used keeps one retry in reserve (or
`DuplicatesArePaidFor` fails after the replay), and the newest preflight event
names the step of the cursor whenever no tool runs (or `ReplayIsRunnable` fails
after a restart).

**RepairIncident.** A record is `Lawful` when each artifact is there only with the
ones it rests on, and bound to them: a typed proposal to the diagnosis, a decision
to the proposal, a run to the decision that approved it. One lemma per method says
that it keeps type and law. `BuiltIsAccepted`: whatever the proposal builder builds
`propose_fix` takes, though the two check the contract in different words.

**RepairFlow.** `TypeCorrect`, `RepairAlwaysAuthorized`, `ResolvedAlwaysSound`, and, if
at most one save fails, `RefinesApprovalGate`. Memory and checkpoint are lawful, the checkpoint
knows no run that memory does not (`Behind`), and a recorded result is the one the
run had (`Honest`). Authorisation is proved over the history: a decision on record in
memory or on disk is an accepted one (`GrantedIn`), each was accepted within the window of
its proposal (`AcceptedInTime`), neither writes nor restarts change the diagnosis
(`SameDiagnosis`), and what a run was executed under is copied from such a record at
that moment (`RunsWereGranted`), so no later loss matters to it. That at most one run more than the failed saves is executed is
not inductive: a record that has not spent its run may still lead to one more.
`Paid` therefore keeps a failed save in reserve for memory, for the checkpoint that
a restart would load, and one more while the two disagree about the run. For the
refinement, `Lags` says what the one lost write may hide: a proposal, a decision
under which no run is recorded yet, or a later step of a repair that is still open
on disk. The next write shows both steps at once, and each such pair is a step of
the gate. With two lost writes the refinement is false, as TLC shows: two restarts
each lose a recorded decision, and a second one is taken.

**DemoService.** `TypeCorrect` with any number of instances of the service; with
`SerialFill`, `RepairedOnceHolds`, `AnsweredStandsHolds` and `RefinesApprovalGate`, for any
number of requests, faults and stops. Serial construction leaves one instance in
use, so its lock lets one request at a time past `AcquireLock` (`OneAtATime`). The
request inside is exactly one write ahead of the file (`Ahead`), its temporary file
is its own session, and its decision and run bear its name (`Stage`); a run that was
executed is named by the file (`NamedRuns`). The file therefore changes only while the
incident is open, and never contradicts an answer (`Answered`). Finding 4 is what
happens without the assumption.

**SandboxRepair.** `TypeCorrect`, `AtMostOneInvocation`, `EffectAlwaysMarked`,
`SuccessAlwaysReal` for any number of processes; `RefinesAtMostOnceRepair`,
`CountAlwaysCovers` and `RecordedAlwaysDurable` for one.
At most one invocation is not inductive: the invariant adds that
one process at a time, the owner, is between mkdir and the end of the handler
(`OneOwner`), that nothing has happened before the directory exists
(`Untouched`), and what the owner may assume at each step (`OwnerProgress`); honest
artifacts then follow. With several processes the last three are false, since
the loser of finding 1 decides the outcome before the winner. With one, the
invariant adds that a settled incident has no process under way (`Quiet`), and what
result, temporary file and count the process may rely on at each step (`OneRun`).

**CheckpointStore.** `TypeCorrect`, `LatestAlwaysSupersedes`, `AcknowledgedAlwaysLoadable`,
`CorruptNewestSkippedOfOurVersion`, and of the two operators that read the directory
`AtMostOneLatest` and `OneNextSequence`. The numbers on the names
keep the order because a save takes one above all it can see and an unrenamed
save was seen by nobody (`Ordered`, `Unseen`); the name of a save that returned is
on the disk and survives a power failure, perhaps with the contents of a save that
raced it (`Kept`, `Visible`), and reads well unless damaged (`Undamaged`), so the
downward reading stops there at the latest. That there is a newest readable file at
all needs the directory to be finite with distinct names (`DInv`) and the least
element of a set of naturals, which `WellFoundedInduction` gives for a set that is
named rather than passed as an operator. `CorruptNewestIsSkipped` is false (finding
3); the theorem shows that a file of another version is all that refutes it.

**ToolCall.** `AnswersAlwaysAccounted` and `VerdictsMatchData`. A query identifier is new with each call
(`Numbered`), so the audit file holds no record of it before its append (`Unlogged`)
and exactly one after, made of the response that is then returned (`Logged`); other
callers append in between, under identifiers of their own. The response is a failure
or what the worker fetched for this very step (`Genuine`), and an outcome that is not
truncated is all that the query selects, since one row beyond the limit was asked
for. A verdict is the one on that complete answer (`Judged`), and one lemma per check
about the pure operators of `DataQuality` says that this verdict means of the table
what its document says: counting rows with `EqualsClause` is counting rows in scope,
the rows less the distinct keys are the repeated rows, the greatest time decides
freshness, and the two newest snapshots are the ones with fewer than two newer. The
distribution check takes half the sum, over the categories, of the differences of
their shares; its document promises the total variation distance, the largest
difference between the shares of any set of categories. `DistanceIsLargestExcess`
proves the two equal in exact arithmetic for every table, and
`DistributionVerdictsMeanIt` says what that leaves of the verdict when the code's sum is
off by less than 1/`Precision`. Its sums are folds over sets, whose values are
not given by an induction theorem: each number added is made the size of a finite set
and the sum the size of their disjoint union (`Fibres`, `SumCounts`), a set of parts
closed under growing is all parts (`PartsInduction`, from the least element of a set
of naturals), and the categories with the larger current share attain the maximum
(`LargestDifference`). The assumptions
on cases (`CasesAssumption`) are what the engine and the metadata writer see to:
tables and answers are finite, thresholds and row limits are numbers, a column that
is compared with a time holds times and NULLs, and two snapshots of a table differ in
version or time.

Only model-checked: liveness (`SettledOrIndeterminate`, `DurableSuccessIsRecorded`,
`ApprovedSettles`, `DecisionIsCarriedOut`, `CallsAreAnswered`), which is beyond the
prover, as is everything with ENABLED.

## 5. Not modelled, and why

- **Benchmark runner.** Sequentially it is one of the clients `HarnessGraph` and
  `RepairFlow` already allow. Its worker processes, whose late answers it drops at a
  timeout (`runner.py:751`), and its treatment of a rejected hypothesis
  (`runner.py:627`) are listed as hazards without a property.
- **Planner, LLM clients, evidence interpreter.** Text processing and rules without
  state. The models take a plan, a polarity or a proposal as an arbitrary member of
  a small set, which is more than these components produce.
- **Of the demo**: `start_incident`, which nobody can race, and the views. Two
  incidents share nothing but the lock, which only serialises them further.
- **Of the graph**: rolling back to an older checkpoint after damage (it is in
  `CheckpointStore`, which does not look into what it stores), `build_resume_plan`, a
  pure function of checkpoint and resume metadata, and the guardrails' postflight,
  which only records events.
- **Of the tools**: what a SQL parser makes of a text; the rounding of rates over more
  than 2^53 rows divided by the threshold's denominator; which way rounding takes a
  distance at its threshold (both ways are possible in the model); an exception from
  `model_dump(mode="json")` after the audit record was written (`executor.py:207`),
  which a cell that JSON cannot hold would raise; and what the distribution check
  should say of windows that overlap or of a column with the text `<NULL>` beside NULLs
  (the query makes one category of both): nothing in the repository says so.
- **Ablation and benchmark support, configuration, data generation, Streamlit
  application.** Offline sequential code, tables and a user interface.

What could come next: the runner's worker processes and their timeouts as a module
of its own.
