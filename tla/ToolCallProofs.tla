--------------------------- MODULE ToolCallProofs ---------------------------
(***************************************************************************)
(* For any number of callers, steps, row limits and failed appends: what a *)
(* caller is told of a step is complete where it counts, agrees with the   *)
(* audit file and cites the caller's own query.                            *)
(*                                                                         *)
(* The argument.  A query identifier is new with each call (Numbered), so   *)
(* the file holds no record of it before the append (Unlogged) and one     *)
(* after, made of the very response that is then returned (Logged).  Other *)
(* callers append in between, but under identifiers of their own.  The     *)
(* response is Failed or the worker's outcome for this step (Genuine), and *)
(* an outcome that is not truncated is everything the query selects        *)
(* (UntruncatedIsComplete).                                              *)
(*                                                                         *)
(* A check's verdict (Judged) is then the verdict on the complete answer   *)
(* of its query, and one lemma per check says that this is what its        *)
(* document promises of the table.  For the distribution check, half the   *)
(* exact sum of the differences of the shares is the largest difference    *)
(* between the shares of a set of categories (DistanceIsLargestExcess),    *)
(* and the code's rounded sum is within 1/Precision of it                  *)
(* (DistributionVerdictsMeanIt).                                           *)
(***************************************************************************)
EXTENDS ToolCall, FiniteSetTheorems, WellFoundedInduction, TLAPS

(* One row more than the limit was asked for: an outcome within the limit   *)
(* left nothing behind.                                                    *)
LEMMA WithinTheLimit ==
    ASSUME NEW s, IsFiniteSet(CompleteAnswer(s)), RowLimit(s) \in Nat,
           NEW o \in Outcomes(s),
           ~o.truncated \/ Cardinality(CompleteAnswer(s)) <= RowLimit(s)
    PROVE  o.rows = CompleteAnswer(s)
<1> DEFINE rows == CompleteAnswer(s)
           limit == RowLimit(s)
<1> HIDE DEF rows, limit
<1>1. IsFiniteSet(rows) /\ limit \in Nat
    BY DEF rows, limit
<1>2. PICK fetched \in Fetched(rows, limit) :
         o \in {[truncated |-> Cardinality(fetched) > limit, rows |-> kept] :
                   kept \in Kept(fetched, limit)}
    BY DEF Outcomes, rows, limit
<1>3. PICK kept \in Kept(fetched, limit) :
         o = [truncated |-> Cardinality(fetched) > limit, rows |-> kept]
    BY <1>2
<1>4. o.rows = kept
    BY <1>3
<1>5. o.truncated = (Cardinality(fetched) > limit)
    BY <1>3, Zenon
<1>6. /\ fetched \in SUBSET rows
      /\ Cardinality(fetched) = Least(Cardinality(rows), limit + 1)
    BY <1>2 DEF Fetched, kSubset
<1>7. /\ IsFiniteSet(fetched)
      /\ Cardinality(fetched) \in Nat /\ Cardinality(rows) \in Nat
    BY <1>1, <1>6, FS_Subset, FS_CardinalityType
<1>8. ~(Cardinality(fetched) > limit)
    <2>1. CASE ~o.truncated
        BY <1>5, <2>1, Zenon
    <2>2. CASE Cardinality(rows) <= limit
        BY <1>1, <1>6, <1>7, <2>2 DEF Least
    <2> QED
        BY <2>1, <2>2 DEF rows, limit
<1>9. fetched = rows
    <2>1. Cardinality(fetched) = Cardinality(rows)
        BY <1>1, <1>6, <1>7, <1>8 DEF Least
    <2> QED
        BY <1>1, <1>6, <2>1, FS_Subset
<1>10. kept \in SUBSET fetched /\ Cardinality(kept) = Cardinality(fetched)
    <2>1. Least(Cardinality(fetched), limit) = Cardinality(fetched)
        BY <1>1, <1>7, <1>8 DEF Least
    <2> QED
        BY <1>3, <2>1 DEF Kept, kSubset
<1>11. kept = fetched
    BY <1>7, <1>10, FS_Subset
<1> QED
    BY <1>4, <1>9, <1>11 DEF rows

LEMMA UntruncatedIsComplete ==
    ASSUME NEW s, s.tool = "sql_query", KeepsContract(s), WellFormed(s),
           LimitsArePositive(s), NEW o \in Outcomes(s), ~o.truncated
    PROVE  o.rows = CompleteAnswer(s)
<1>1. "sql" \in DOMAIN s.arguments
    BY DEF KeepsContract, Contracts
<1>2. CompleteAnswer(s) = s.arguments.sql.answer
    <2>1. Arguments(s).sql = s.arguments.sql
        BY <1>1 DEF Arguments
    <2> QED
        BY <2>1 DEF CompleteAnswer
<1>3. IsFiniteSet(CompleteAnswer(s))
    BY <1>1, <1>2 DEF WellFormed
<1>4. RowLimit(s) \in Nat
    BY ToolCallAssumption DEF RowLimit, WellFormed, LimitsArePositive
<1> QED
    BY <1>3, <1>4, WithinTheLimit

-----------------------------------------------------------------------------
(* The audit file is a sequence, and an append changes no record of it.     *)
LEMMA AppendFacts ==
    ASSUME NEW S, NEW log \in Seq(S), NEW record
    PROVE  /\ Append(log, record) \in Seq(S \cup {record})
           /\ Len(log) \in Nat
           /\ DOMAIN Append(log, record) = DOMAIN log \cup {Len(log) + 1}
           /\ Len(log) + 1 \notin DOMAIN log
           /\ \A i \in DOMAIN log : Append(log, record)[i] = log[i]
           /\ Append(log, record)[Len(log) + 1] = record
<1>1. Len(log) \in Nat /\ DOMAIN log = 1 .. Len(log)
    OBVIOUS
<1>2. log \in Seq(S \cup {record})
    OBVIOUS
<1>3. Append(log, record) \in Seq(S \cup {record})
    BY <1>2
<1> QED
    BY <1>1, <1>2, <1>3

PcValues == {"idle", "checking", "waiting", "late", "auditing", "appending", "returning",
             "answered"}

(* What each variable holds for each caller.                               *)
Indexed(f) == f = [c \in Callers |-> f[c]]

Offered(s) == \E case \in Cases, c \in Callers : s \in case.steps[c]

Fits(s) == Offered(s) /\ WellFormed(s) /\ ComparesTimes(s, database)

Types ==
    /\ pc \in [Callers -> PcValues]
    /\ calls \in [Callers -> Nat]
    /\ Indexed(step) /\ Indexed(worker) /\ Indexed(brought) /\ Indexed(interrupted)
    /\ Indexed(connection) /\ Indexed(response) /\ Indexed(answer)
    /\ \E S : audit \in Seq(S)
    /\ WellFormedData(database)
    /\ \A c \in Callers : \A s \in offered[c] : Fits(s)

InFlight == {"waiting", "late"}
Responded == {"auditing", "appending", "returning"}

(* The file names no call that is still to come.                           *)
Numbered(c) == \A n \in Nat : n < calls[c] => Records(<<c, n>>) = {}

Unlogged(c) ==
    pc[c] \in {"checking", "auditing", "appending"} \cup InFlight => Records(Id(c)) = {}

Logged(c) ==
    pc[c] = "returning" /\ c \in Audited =>
        \E i \in Records(Id(c)) : Records(Id(c)) = {i} /\ audit[i] = AuditRecord(c)

Checked(c) ==
    /\ pc[c] # "idle" => Fits(step[c])
    /\ pc[c] \in InFlight => Accepted(step[c]) /\ LimitsArePositive(step[c])

(* The rows can be an outcome of this query.                               *)
Selected(c) == Accepted(step[c]) /\ LimitsArePositive(step[c]) /\ Runnable(step[c])

(* A response that says success holds an outcome of this query.             *)
Genuine(c) ==
    /\ pc[c] \in InFlight /\ worker[c] = "rows" =>
          Runnable(step[c]) /\ brought[c] \in Outcomes(step[c])
    /\ pc[c] \in Responded /\ response[c].status = "success" =>
          /\ Selected(c)
          /\ \E o \in Outcomes(step[c]) : response[c] = Succeeded(o)

(* A check that succeeds judged such an outcome.                           *)
Judged(c) ==
    pc[c] = "answered" /\ answer[c].success /\ step[c].tool # "sql_query" =>
        /\ Selected(c)
        /\ \E o \in Outcomes(step[c]) : answer[c].verdict \in Verdicts(step[c], Succeeded(o))
        /\ answer[c].verdict # "error"

OpenOnlyInFlight(c) == pc[c] \notin InFlight => connection[c] = "closed"

Accounted(c) ==
    pc[c] = "answered" =>
        /\ UsableIsComplete(c)
        /\ AnswerIsAudited(c)
        /\ answer[c].evidence \in {None, Id(c)}

CallInv(c) ==
    /\ Numbered(c)
    /\ Unlogged(c)
    /\ Logged(c)
    /\ Checked(c)
    /\ Genuine(c)
    /\ OpenOnlyInFlight(c)
    /\ Accounted(c)
    /\ Judged(c)

IInv == Types /\ \A c \in Callers : CallInv(c)

-----------------------------------------------------------------------------
LEMMA InitInv == Init => IInv
<1> SUFFICES ASSUME Init
             PROVE  IInv
    OBVIOUS
<1>1. PICK case \in Cases :
         database = case.database /\ offered = case.steps /\ calls = case.calls
    BY DEF Init
<1>2. Types
    <2>1. audit \in Seq({})
        BY DEF Init
    <2>2. calls \in [Callers -> Nat]
        BY <1>1, ToolCallAssumption
    <2>3. /\ WellFormedData(database)
          /\ \A c \in Callers : \A s \in offered[c] : Fits(s)
        BY <1>1, CasesAssumption DEF Fits, Offered
    <2> QED
        BY <2>1, <2>2, <2>3 DEF Init, Types, PcValues, Indexed
<1>3. ASSUME NEW c \in Callers PROVE CallInv(c)
    <2>1. \A id : Records(id) = {}
        BY DEF Init, Records
    <2> QED
        BY <2>1 DEF Init, CallInv, Numbered, Unlogged, Logged, Checked, Genuine, OpenOnlyInFlight,
           Accounted, Judged, InFlight, Responded
<1> QED
    BY <1>2, <1>3 DEF IInv

(* A step of one caller leaves the others as they are: at most it appends a *)
(* record of its own query.                                                *)
SameCaller(c) ==
    /\ pc'[c] = pc[c] /\ step'[c] = step[c] /\ calls'[c] = calls[c]
    /\ worker'[c] = worker[c] /\ brought'[c] = brought[c]
    /\ connection'[c] = connection[c]
    /\ response'[c] = response[c] /\ answer'[c] = answer[c]

LogGrows(c) ==
    \/ audit' = audit
    \/ pc[c] = "appending" /\ audit' = Append(audit, AuditRecord(c))

LEMMA RecordsAfterAppend ==
    ASSUME Types, NEW c \in Callers, audit' = Append(audit, AuditRecord(c))
    PROVE  /\ \A id : id # Id(c) => Records(id)' = Records(id)
           /\ \A id : id = Id(c) /\ Records(id) = {} =>
                 \E i \in Records(id)' : Records(id)' = {i} /\ audit'[i] = AuditRecord(c)
           /\ \A i \in DOMAIN audit : audit'[i] = audit[i]
<1>1. PICK S : audit \in Seq(S)
    BY DEF Types
<1>2. /\ DOMAIN audit' = DOMAIN audit \cup {Len(audit) + 1}
      /\ Len(audit) + 1 \notin DOMAIN audit
      /\ \A i \in DOMAIN audit : audit'[i] = audit[i]
      /\ audit'[Len(audit) + 1] = AuditRecord(c)
    BY <1>1, AppendFacts
<1> DEFINE n == Len(audit) + 1
           log == audit'
<1>3. AuditRecord(c).id = Id(c)
    BY DEF AuditRecord
<1>4. \A id : Records(id)' = {i \in DOMAIN log : log[i].id = id}
    BY DEF Records
<1> HIDE DEF n, log
<1>5. \A id : id # Id(c) => {i \in DOMAIN log : log[i].id = id} = Records(id)
    BY <1>2, <1>3 DEF Records, n, log
<1>6. Records(Id(c)) = {} => {i \in DOMAIN log : log[i].id = Id(c)} = {n}
    BY <1>2, <1>3 DEF Records, n, log
<1>7. log[n] = AuditRecord(c) /\ \A i \in DOMAIN audit : log[i] = audit[i]
    BY <1>2 DEF n, log
<1>8. \A id : id # Id(c) => Records(id)' = Records(id)
    BY <1>4, <1>5
<1>9. \A id : id = Id(c) /\ Records(id) = {} => Records(id)' = {n}
    BY <1>4, <1>6
<1>10. \A id : id = Id(c) /\ Records(id) = {} =>
          \E i \in Records(id)' : Records(id)' = {i} /\ audit'[i] = AuditRecord(c)
    BY <1>7, <1>9 DEF log
<1> QED
    BY <1>7, <1>8, <1>10 DEF log

(* What a caller's step means depends on the database alone.               *)
LEMMA SameMeaning ==
    ASSUME NEW c, database' = database, step'[c] = step[c]
    PROVE  /\ CompleteAnswer(step[c])' = CompleteAnswer(step[c])
           /\ Outcomes(step[c])' = Outcomes(step[c])
           /\ Runnable(step[c])' <=> Runnable(step[c])
           /\ Selected(c)' <=> Selected(c)
           /\ Fits(step[c])' <=> Fits(step[c])
BY DEF CompleteAnswer, Outcomes, Runnable, Selected, Fits, WellFormed

LEMMA OthersKeep ==
    ASSUME IInv, NEW c \in Callers, NEW d \in Callers, d # c,
           SameCaller(d), LogGrows(c), database' = database
    PROVE  CallInv(d)'
<1>1. CallInv(d)
    BY DEF IInv
<1>2. \A n \in Nat : Records(<<d, n>>)' = Records(<<d, n>>)
    BY RecordsAfterAppend DEF LogGrows, IInv, Records, Id
<1>3. calls[d] \in Nat /\ Id(d)' = Id(d) /\ Id(d) = <<d, calls[d]>>
    BY DEF IInv, Types, SameCaller, Id
<1>4. Records(Id(d))' = Records(Id(d))
    BY <1>2, <1>3
<1>5. \A i \in Records(Id(d)) : audit'[i] = audit[i]
    BY RecordsAfterAppend DEF LogGrows, IInv, Records
<1>6. /\ CompleteAnswer(step[d])' = CompleteAnswer(step[d])
      /\ Outcomes(step[d])' = Outcomes(step[d])
      /\ Runnable(step[d])' <=> Runnable(step[d])
      /\ Selected(d)' <=> Selected(d)
      /\ Fits(step[d])' <=> Fits(step[d])
    BY SameMeaning DEF SameCaller
<1> USE DEF SameCaller
<1>7. Numbered(d)'
    BY <1>1, <1>2 DEF CallInv, Numbered
<1>8. Unlogged(d)'
    BY <1>1, <1>4 DEF CallInv, Unlogged
<1>9. Logged(d)'
    BY <1>1, <1>3, <1>4, <1>5 DEF CallInv, Logged, AuditRecord
<1>10. Checked(d)' /\ OpenOnlyInFlight(d)'
    BY <1>1, <1>6 DEF CallInv, Checked, OpenOnlyInFlight, LimitsArePositive
<1>11. Genuine(d)' /\ Judged(d)'
    BY <1>1, <1>6 DEF CallInv, Genuine, Judged
<1>12. Accounted(d)'
    BY <1>1, <1>3, <1>4, <1>5, <1>6 DEF CallInv, Accounted, UsableIsComplete, AnswerIsAudited
<1> QED
    BY <1>7, <1>8, <1>9, <1>10, <1>11, <1>12 DEF CallInv

-----------------------------------------------------------------------------
(* Every step is a step of one caller.                                     *)
Step(c) ==
    \/ \E s \in offered[c] : Begin(c, s)
    \/ TimeOut(c)
    \/ Settle(c)
    \/ Work(c)

Shape ==
    /\ pc \in [Callers -> PcValues]
    /\ calls \in [Callers -> Nat]
    /\ Indexed(step) /\ Indexed(worker) /\ Indexed(brought) /\ Indexed(interrupted)
    /\ Indexed(connection) /\ Indexed(response) /\ Indexed(answer)

OthersSame(c) == \A d \in Callers \ {c} : SameCaller(d)

Frame(c) ==
    /\ Types'
    /\ OthersSame(c)
    /\ LogGrows(c)
    /\ database' = database

LEMMA BeginShape ==
    ASSUME Types, NEW c \in Callers, NEW s \in offered[c], Begin(c, s)
    PROVE  Shape' /\ OthersSame(c)
<1>1. pc' \in [Callers -> PcValues] /\ calls' \in [Callers -> Nat]
    BY DEF Types, Begin, PcValues
<1>2. Indexed(step)' /\ Indexed(answer)' /\ Indexed(response)'
    BY DEF Types, Begin, Indexed
<1>3. Indexed(worker)' /\ Indexed(brought)' /\ Indexed(interrupted)' /\ Indexed(connection)'
    BY DEF Types, Begin, Indexed, runner
<1>4. OthersSame(c)
    BY DEF Types, Begin, Indexed, runner, OthersSame, SameCaller
<1> QED
    BY <1>1, <1>2, <1>3, <1>4 DEF Shape

(* The answer or the response is written, and the caller moves on.          *)
LEMMA SettleShape ==
    ASSUME Types, NEW c \in Callers, UNCHANGED <<step, calls>>,
           \/ (\E told : AnswerWith(c, told)) /\ response' = response
           \/ (\E r : Respond(c, r)) /\ answer' = answer,
           UNCHANGED runner \/ CloseConnection(c)
    PROVE  Shape' /\ OthersSame(c)
<1>1. /\ pc' \in [Callers -> PcValues]
      /\ Indexed(response)' /\ Indexed(answer)'
      /\ \A d \in Callers \ {c} : /\ pc'[d] = pc[d]
                                  /\ response'[d] = response[d] /\ answer'[d] = answer[d]
    <2>1. CASE (\E told : AnswerWith(c, told)) /\ response' = response
        BY <2>1 DEF Types, AnswerWith, PcValues, Indexed
    <2>2. CASE (\E r : Respond(c, r)) /\ answer' = answer
        BY <2>2 DEF Types, Respond, AfterQuery, PcValues, Indexed
    <2> QED
        BY <2>1, <2>2
<1>2. /\ Indexed(worker)' /\ Indexed(brought)' /\ Indexed(interrupted)' /\ Indexed(connection)'
      /\ \A d \in Callers \ {c} : /\ worker'[d] = worker[d] /\ brought'[d] = brought[d]
                                  /\ connection'[d] = connection[d]
    <2>1. CASE UNCHANGED runner
        BY <2>1 DEF Types, runner, Indexed
    <2>2. CASE CloseConnection(c)
        BY <2>2 DEF Types, CloseConnection, Indexed
    <2> QED
        BY <2>1, <2>2
<1> QED
    BY <1>1, <1>2 DEF Types, Shape, OthersSame, SameCaller, Indexed

LEMMA CollectFacts ==
    ASSUME NEW c \in Callers, Collect(c)
    PROVE  /\ pc[c] = "waiting" /\ CloseConnection(c)
           /\ \/ Escape(c)
              \/ Respond(c, Failed("execution")) /\ answer' = answer
              \/ /\ worker[c] = "rows"
                 /\ Respond(c, Succeeded(brought[c])) /\ answer' = answer
           /\ UNCHANGED <<database, offered, step, calls, audit, auditLock, auditFaults>>
BY DEF Collect, HasEnded

LEMMA CollectLateFacts ==
    ASSUME NEW c \in Callers, CollectLate(c)
    PROVE  /\ pc[c] = "late" /\ CloseConnection(c)
           /\ \/ Escape(c)
              \/ Respond(c, Failed("timeout")) /\ answer' = answer
           /\ UNCHANGED <<database, offered, step, calls, audit, auditLock, auditFaults>>
BY DEF CollectLate

LEMMA StepShape ==
    ASSUME Types, NEW c \in Callers, Step(c)
    PROVE  Shape' /\ OthersSame(c)
<1>1. CASE \E s \in offered[c] : Begin(c, s)
    BY <1>1, BeginShape
<1>2. CASE TimeOut(c) \/ Submit(c) \/ AcquireAuditLock(c) \/ AppendRecord(c)
    <2>1. CASE TimeOut(c)
        BY <2>1 DEF Types, Shape, OthersSame, SameCaller, TimeOut, Indexed, PcValues
    <2>2. CASE Submit(c)
        BY <2>2 DEF Types, Shape, OthersSame, SameCaller, Submit, Indexed, PcValues
    <2>3. CASE AcquireAuditLock(c) \/ AppendRecord(c)
        BY <2>3 DEF Types, Shape, OthersSame, SameCaller, AcquireAuditLock, AppendRecord, runner,
                    Indexed, PcValues
    <2> QED
        BY <1>2, <2>1, <2>2, <2>3
<1>3. CASE Reject(c)
    BY <1>3, SettleShape DEF Reject
<1>4. CASE RefuseLimits(c)
    BY <1>4, SettleShape DEF RefuseLimits
<1>5. CASE OpenFails(c)
    BY <1>5, SettleShape DEF OpenFails
<1>6. CASE Collect(c)
    BY <1>6, CollectFacts, SettleShape DEF Escape
<1>7. CASE CollectLate(c)
    BY <1>7, CollectLateFacts, SettleShape DEF Escape
<1>8. CASE AuditDirectoryFails(c)
    BY <1>8, SettleShape DEF AuditDirectoryFails, Escape
<1>9. CASE AppendRecordFails(c)
    BY <1>9, SettleShape DEF AppendRecordFails, Escape
<1>10. CASE Return(c)
    BY <1>10, SettleShape DEF Return
<1>11. CASE StartQuery(c) \/ EndQuery(c)
    BY <1>11 DEF Types, Shape, OthersSame, SameCaller, StartQuery, EndQuery, Indexed
<1> QED
    BY <1>1, <1>2, <1>3, <1>4, <1>5, <1>6, <1>7, <1>8, <1>9, <1>10, <1>11
    DEF Step, Settle, Work

LEMMA StepFrame == ASSUME Types, NEW c \in Callers, Step(c) PROVE Frame(c)
<1>1. LogGrows(c) /\ database' = database /\ offered' = offered
    BY CollectFacts, CollectLateFacts
    DEF Step, Settle, Work, Begin, TimeOut, Reject, RefuseLimits, OpenFails, Submit,
        AuditDirectoryFails, AcquireAuditLock, AppendRecord, AppendRecordFails, Return,
        StartQuery, EndQuery, LogGrows
<1>2. (\E S : audit \in Seq(S))'
    <2>1. PICK S : audit \in Seq(S)
        BY DEF Types
    <2>2. audit' = audit \/ audit' = Append(audit, AuditRecord(c))
        BY <1>1 DEF LogGrows
    <2>3. CASE audit' = Append(audit, AuditRecord(c))
        <3>1. audit' \in Seq(S \cup {AuditRecord(c)})
            BY <2>1, <2>3, AppendFacts
        <3> QED
            BY <3>1
    <2> QED
        BY <2>1, <2>2, <2>3
<1>3. /\ WellFormedData(database)'
      /\ (\A d \in Callers : \A s \in offered[d] : Fits(s))'
    BY <1>1 DEF Types, Fits
<1> QED
    BY <1>1, <1>2, <1>3, StepShape DEF Frame, Types, Shape

-----------------------------------------------------------------------------
(* The acting caller, one lemma per kind of step.  KeepsLog: neither the    *)
(* file nor the caller's identifier changes.                               *)
KeepsLog(c) == audit' = audit /\ calls' = calls

LEMMA SameRecords ==
    ASSUME NEW c, KeepsLog(c)
    PROVE  /\ Numbered(c)' = Numbered(c)
           /\ Records(Id(c))' = Records(Id(c))
           /\ Id(c)' = Id(c)
BY DEF KeepsLog, Numbered, Records, Id

LEMMA BeginInv ==
    ASSUME IInv, NEW c \in Callers, NEW s \in offered[c], Begin(c, s), Frame(c)
    PROVE  CallInv(c)'
<1>1. /\ pc'[c] = "checking" /\ step'[c] = s
      /\ calls[c] \in Nat /\ calls[c] > 0 /\ calls'[c] = calls[c] - 1
      /\ connection' = connection /\ audit' = audit
    BY DEF Begin, IInv, Types, Indexed, runner
<1>2. CallInv(c)
    BY DEF IInv
<1>3. \A id : Records(id)' = Records(id)
    BY <1>1 DEF Records
<1>4. Numbered(c)'
    BY <1>1, <1>2, <1>3 DEF CallInv, Numbered
<1>5. Unlogged(c)'
    <2>1. Id(c)' = <<c, calls[c] - 1>> /\ calls[c] - 1 \in Nat /\ calls[c] - 1 < calls[c]
        BY <1>1 DEF Id
    <2>2. Records(<<c, calls[c] - 1>>) = {}
        BY <1>2, <2>1 DEF CallInv, Numbered
    <2>3. Records(Id(c))' = {i \in DOMAIN audit' : audit'[i].id = Id(c)'}
        BY DEF Records
    <2>4. Records(Id(c))' = Records(<<c, calls[c] - 1>>)
        BY <1>1, <2>1, <2>3 DEF Records
    <2> QED
        BY <2>2, <2>4 DEF Unlogged
<1>6. Checked(c)'
    BY <1>1 DEF Begin, Checked, Fits, IInv, Types, InFlight
<1>7. OpenOnlyInFlight(c)'
    BY <1>1, <1>2 DEF CallInv, OpenOnlyInFlight, Begin, InFlight
<1>8. Logged(c)' /\ Genuine(c)' /\ Accounted(c)' /\ Judged(c)'
    BY <1>1 DEF Logged, Genuine, Accounted, Judged, InFlight, Responded
<1> QED
    BY <1>4, <1>5, <1>6, <1>7, <1>8 DEF CallInv

LEMMA RefusalFacts ==
    ASSUME NEW id
    PROVE  /\ Refusal(id).usable = FALSE /\ Refusal(id).success = FALSE
           /\ Refusal(id).id = id /\ Refusal(id).evidence = None
BY DEF Refusal, Told

(* The caller is told Refusal(None), and the file names no such call.       *)
LEMMA EscapeInv ==
    ASSUME IInv, NEW c \in Callers, KeepsLog(c), step' = step, database' = database,
           pc[c] \in {"checking", "auditing", "appending"} \cup InFlight,
           AnswerWith(c, Refusal(None)),
           connection'[c] = "closed"
    PROVE  CallInv(c)'
<1>1. /\ pc'[c] = "answered" /\ answer'[c] = Refusal(None)
    BY DEF AnswerWith, IInv, Types, Indexed
<1>2. CallInv(c)
    BY DEF IInv
<1>3. Records(Id(c))' = {} /\ Numbered(c)'
    BY <1>2, SameRecords DEF CallInv, Unlogged
<1>4. Accounted(c)'
    <2>1. /\ answer'[c].usable = FALSE /\ answer'[c].id = None
          /\ answer'[c].success = FALSE /\ answer'[c].evidence = None
        BY <1>1, RefusalFacts
    <2> QED
        BY <1>3, <2>1 DEF Accounted, UsableIsComplete, AnswerIsAudited
<1>5. Checked(c)'
    BY <1>1, <1>2, SameMeaning DEF CallInv, Checked, InFlight
<1>6. Judged(c)'
    BY <1>1, RefusalFacts DEF Judged
<1> QED
    BY <1>1, <1>3, <1>4, <1>5, <1>6
    DEF CallInv, Unlogged, Logged, Genuine, OpenOnlyInFlight, InFlight, Responded

LEMMA FailedFacts ==
    ASSUME NEW status
    PROVE  /\ Failed(status).status = status
           /\ \A outcome : Succeeded(outcome).status = "success"
BY DEF Failed, Succeeded

(* The runner has a response: a failure, or an outcome of this query.       *)
LEMMA RespondInv ==
    ASSUME IInv, NEW c \in Callers, KeepsLog(c), step' = step, database' = database,
           pc[c] \in {"checking"} \cup InFlight,
           NEW r, Respond(c, r),
           r.status = "success" =>
              /\ pc[c] \in InFlight /\ Runnable(step[c])
              /\ \E o \in Outcomes(step[c]) : r = Succeeded(o),
           connection'[c] = "closed"
    PROVE  CallInv(c)'
<1>1. pc'[c] = AfterQuery(c) /\ response'[c] = r
    BY DEF Respond, IInv, Types, Indexed
<1>2. pc'[c] \in {"auditing", "returning"} /\ (pc'[c] = "returning" => c \notin Audited)
    BY <1>1 DEF AfterQuery
<1>3. CallInv(c)
    BY DEF IInv
<1>4. Records(Id(c))' = {} /\ Numbered(c)'
    BY <1>3, SameRecords DEF CallInv, Unlogged
<1>5. Checked(c)'
    BY <1>2, <1>3, SameMeaning DEF CallInv, Checked, InFlight
<1>6. Genuine(c)'
    <2>1. r.status = "success" => Selected(c)
        BY <1>3 DEF CallInv, Checked, Selected, InFlight
    <2>2. pc'[c] \notin InFlight
        BY <1>2 DEF InFlight
    <2> QED
        BY <1>1, <2>1, <2>2, SameMeaning DEF Genuine
<1>7. Logged(c)' /\ OpenOnlyInFlight(c)' /\ Accounted(c)' /\ Judged(c)'
    BY <1>2 DEF Logged, OpenOnlyInFlight, Accounted, Judged
<1> QED
    BY <1>4, <1>5, <1>6, <1>7 DEF CallInv, Unlogged

(* The query is under way before and after.                                *)
LEMMA InFlightInv ==
    ASSUME IInv, NEW c \in Callers, KeepsLog(c), step' = step, database' = database,
           pc[c] \in {"checking"} \cup InFlight, pc'[c] \in InFlight,
           pc[c] = "checking" => Accepted(step[c]) /\ LimitsArePositive(step[c]),
           worker'[c] = "rows" => Runnable(step[c]) /\ brought'[c] \in Outcomes(step[c])
    PROVE  CallInv(c)'
<1>1. CallInv(c)
    BY DEF IInv
<1>2. Records(Id(c))' = {} /\ Numbered(c)'
    BY <1>1, SameRecords DEF CallInv, Unlogged
<1>3. Checked(c)'
    BY <1>1, SameMeaning DEF CallInv, Checked, InFlight, LimitsArePositive
<1>4. Genuine(c)'
    BY SameMeaning DEF Genuine, InFlight, Responded
<1> QED
    BY <1>2, <1>3, <1>4
    DEF CallInv, Unlogged, Logged, OpenOnlyInFlight, Accounted, Judged, InFlight

(* A worker's step touches nothing of the call but the rows it brings.      *)
LEMMA WorkInv ==
    ASSUME IInv, NEW c \in Callers, Work(c)
    PROVE  CallInv(c)'
<1>1. CallInv(c)
    BY DEF IInv
<1>2. /\ KeepsLog(c) /\ step' = step /\ database' = database /\ pc' = pc
      /\ connection' = connection /\ response' = response /\ answer' = answer
    BY DEF Work, StartQuery, EndQuery, KeepsLog
<1>3. worker'[c] = "rows" => Runnable(step[c]) /\ brought'[c] \in Outcomes(step[c])
    BY DEF Work, StartQuery, EndQuery, IInv, Types, Indexed
<1>4. Numbered(c)' /\ Records(Id(c))' = Records(Id(c)) /\ Id(c)' = Id(c)
    BY <1>1, <1>2, SameRecords DEF CallInv
<1>5. /\ Outcomes(step[c])' = Outcomes(step[c])
      /\ CompleteAnswer(step[c])' = CompleteAnswer(step[c])
      /\ Runnable(step[c])' <=> Runnable(step[c])
      /\ Selected(c)' <=> Selected(c)
      /\ Fits(step[c])' <=> Fits(step[c])
    BY <1>2, SameMeaning
<1>6. Genuine(c)' /\ Judged(c)'
    BY <1>1, <1>2, <1>3, <1>5 DEF CallInv, Genuine, Judged
<1>7. Accounted(c)'
    BY <1>1, <1>2, <1>4, <1>5
    DEF CallInv, Accounted, UsableIsComplete, AnswerIsAudited, KeepsLog
<1>8. Logged(c)'
    BY <1>1, <1>2, <1>4 DEF CallInv, Logged, AuditRecord, KeepsLog
<1>9. Unlogged(c)' /\ Checked(c)' /\ OpenOnlyInFlight(c)'
    BY <1>1, <1>2, <1>4, <1>5
    DEF CallInv, Unlogged, Checked, OpenOnlyInFlight, LimitsArePositive
<1> QED
    BY <1>4, <1>6, <1>7, <1>8, <1>9 DEF CallInv

LEMMA AcquireInv ==
    ASSUME IInv, NEW c \in Callers, AcquireAuditLock(c)
    PROVE  CallInv(c)'
<1>1. CallInv(c)
    BY DEF IInv
<1>2. /\ KeepsLog(c) /\ step' = step /\ database' = database
      /\ pc[c] = "auditing" /\ pc'[c] = "appending"
      /\ connection' = connection /\ response' = response
    BY DEF AcquireAuditLock, runner, KeepsLog, IInv, Types, Indexed
<1>3. Numbered(c)' /\ Records(Id(c))' = Records(Id(c))
    BY <1>1, <1>2, SameRecords DEF CallInv
<1>4. /\ Outcomes(step[c])' = Outcomes(step[c])
      /\ Selected(c)' <=> Selected(c)
      /\ Fits(step[c])' <=> Fits(step[c])
    BY <1>2, SameMeaning
<1>5. Genuine(c)'
    BY <1>1, <1>2, <1>4 DEF CallInv, Genuine, InFlight, Responded
<1> QED
    BY <1>1, <1>2, <1>3, <1>4, <1>5
    DEF CallInv, Unlogged, Logged, Checked, OpenOnlyInFlight, Accounted, Judged, InFlight

(* The one record of the call: the file had none.                          *)
LEMMA AppendRecordInv ==
    ASSUME IInv, NEW c \in Callers, AppendRecord(c)
    PROVE  CallInv(c)'
<1>1. CallInv(c)
    BY DEF IInv
<1>2. /\ calls' = calls /\ step' = step /\ database' = database
      /\ audit' = Append(audit, AuditRecord(c))
      /\ pc[c] = "appending" /\ pc'[c] = "returning"
      /\ connection' = connection /\ response' = response
    BY DEF AppendRecord, runner, IInv, Types, Indexed
<1>3. Id(c)' = Id(c) /\ AuditRecord(c)' = AuditRecord(c)
    BY <1>2 DEF Id, AuditRecord
<1>4. /\ \A id : id # Id(c) => Records(id)' = Records(id)
      /\ \A id : id = Id(c) /\ Records(id) = {} =>
            \E i \in Records(id)' : Records(id)' = {i} /\ audit'[i] = AuditRecord(c)
    BY <1>2, RecordsAfterAppend DEF IInv
<1>5. Numbered(c)'
    <2>1. ASSUME NEW n \in Nat, n < calls[c] PROVE Records(<<c, n>>)' = {}
        <3>1. <<c, n>> # Id(c)
            BY <2>1 DEF Id, IInv, Types
        <3>2. Records(<<c, n>>)' = Records(<<c, n>>)
            BY <3>1, <1>4
        <3> QED
            BY <1>1, <2>1, <3>2 DEF CallInv, Numbered
    <2>2. calls'[c] = calls[c]
        BY <1>2
    <2> QED
        BY <2>1, <2>2 DEF Numbered
<1>6. Logged(c)'
    <2>1. Records(Id(c)) = {}
        BY <1>1, <1>2 DEF CallInv, Unlogged
    <2>2. PICK id : id = Id(c)
        OBVIOUS
    <2>3. PICK i \in Records(id)' : Records(id)' = {i} /\ audit'[i] = AuditRecord(c)
        BY <1>4, <2>1, <2>2
    <2>4. Records(Id(c))' = Records(id)'
        BY <1>3, <2>2 DEF Records
    <2> QED
        BY <1>3, <2>3, <2>4 DEF Logged
<1>7. /\ Outcomes(step[c])' = Outcomes(step[c])
      /\ Selected(c)' <=> Selected(c)
      /\ Fits(step[c])' <=> Fits(step[c])
    BY <1>2, SameMeaning
<1>8. Genuine(c)'
    BY <1>1, <1>2, <1>7 DEF CallInv, Genuine, InFlight, Responded
<1> QED
    BY <1>1, <1>2, <1>5, <1>6, <1>7, <1>8
    DEF CallInv, Unlogged, Checked, OpenOnlyInFlight, Accounted, Judged, InFlight

(* What the executor may be told of a response, and what it then holds.     *)
LEMMA AnswerFacts ==
    ASSUME NEW s, NEW id, NEW r, NEW told \in Answers(s, id, r)
    PROVE  /\ told.id = id
           /\ told.evidence \in {None, id}
           /\ told.success => r.status = "success"
           /\ told.usable =>
                 /\ s.tool = "sql_query"
                 /\ r.status = "success" /\ ~r.truncated
                 /\ told.rows = r.rows
           /\ told.success /\ s.tool # "sql_query" =>
                 /\ told.verdict \in Verdicts(s, r)
                 /\ told.verdict # "error"
<1>1. CASE s.tool = "sql_query"
    <2> DEFINE success == r.status = "success"
               usable ==
                  Usable(r, s.arguments.sql,
                         Expectation(s.expectation, s.metric, s.arguments.sql.columns,
                                     s.max_rows))
    <2>1. told = SqlAnswer(s, id, r)
        BY <1>1 DEF Answers
    <2>2. SqlAnswer(s, id, r) = Told(success, id, r.rows, usable, "error", None)
        BY DEF SqlAnswer
    <2>3. usable => success /\ ~r.truncated
        BY DEF Usable
    <2> HIDE DEF success, usable
    <2>4. told.id = id /\ told.evidence = None /\ told.rows = r.rows
        BY <2>1, <2>2 DEF Told
    <2>5. told.success = success /\ told.usable = usable
        BY <2>1, <2>2 DEF Told
    <2>6. (told.success => success) /\ (told.usable => usable)
        BY <2>5
    <2> QED
        BY <1>1, <2>3, <2>4, <2>6 DEF success
<1>2. CASE s.tool # "sql_query"
    <2>1. PICK verdict \in (IF r.status = "success" THEN Verdicts(s, r) ELSE {"error"}) :
             told = CheckAnswer(s, id, verdict)
        BY <1>2 DEF Answers
    <2>2. CASE told = Refusal(id)
        BY <1>2, <2>2, RefusalFacts
    <2>3. CASE told # Refusal(id)
        <3>1. verdict # "error" /\ told = Told(TRUE, id, {}, FALSE, verdict, id)
            BY <2>1, <2>3 DEF CheckAnswer
        <3>2. r.status = "success" /\ verdict \in Verdicts(s, r)
            BY <2>1, <3>1
        <3>3. ~told.usable
            BY <3>1 DEF Told
        <3>4. told.id = id /\ told.evidence = id /\ told.verdict = verdict
            BY <3>1 DEF Told
        <3> QED
            BY <1>2, <3>1, <3>2, <3>3, <3>4
    <2> QED
        BY <2>2, <2>3
<1> QED
    BY <1>1, <1>2

(* A usable answer is made of an outcome that left no row behind.           *)
LEMMA UsableAnswerIsComplete ==
    ASSUME IInv, NEW c \in Callers, pc[c] = "returning",
           NEW told \in Answers(step[c], Id(c), response[c]), told.usable
    PROVE  /\ ~response[c].truncated
           /\ response[c].rows = CompleteAnswer(step[c])
           /\ told.rows = response[c].rows
<1>1. /\ step[c].tool = "sql_query" /\ response[c].status = "success"
      /\ ~response[c].truncated
      /\ told.rows = response[c].rows
    BY AnswerFacts
<1>2. WellFormed(step[c]) /\ Genuine(c)
    BY DEF IInv, CallInv, Checked, Fits
<1>3. KeepsContract(step[c]) /\ LimitsArePositive(step[c])
    BY <1>1, <1>2 DEF Genuine, Responded, Selected, Accepted
<1>4. PICK o \in Outcomes(step[c]) : response[c] = Succeeded(o)
    BY <1>1, <1>2 DEF Genuine, Responded
<1>5. response[c].truncated = o.truncated /\ response[c].rows = o.rows
    BY <1>4 DEF Succeeded
<1>6. ~o.truncated
    BY <1>1, <1>5
<1>7. o.rows = CompleteAnswer(step[c])
    BY <1>1, <1>2, <1>3, <1>6, UntruncatedIsComplete
<1> QED
    BY <1>1, <1>5, <1>7

LEMMA ReturnInv ==
    ASSUME IInv, NEW c \in Callers, Return(c)
    PROVE  CallInv(c)'
<1>1. CallInv(c)
    BY DEF IInv
<1>2. /\ KeepsLog(c) /\ step' = step /\ database' = database
      /\ pc[c] = "returning" /\ pc'[c] = "answered"
      /\ answer'[c] \in Answers(step[c], Id(c), response[c])
      /\ connection' = connection
    BY DEF Return, AnswerWith, runner, KeepsLog, IInv, Types, Indexed
<1>3. /\ Numbered(c)' /\ Records(Id(c))' = Records(Id(c)) /\ Id(c)' = Id(c)
      /\ audit' = audit
    BY <1>1, <1>2, SameRecords DEF CallInv, KeepsLog
<1>4. /\ CompleteAnswer(step[c])' = CompleteAnswer(step[c])
      /\ Outcomes(step[c])' = Outcomes(step[c])
      /\ Selected(c)' <=> Selected(c)
      /\ Fits(step[c])' <=> Fits(step[c])
    BY <1>2, SameMeaning
<1>5. /\ answer'[c].id = Id(c) /\ answer'[c].evidence \in {None, Id(c)}
      /\ answer'[c].success => response[c].status = "success"
    BY <1>2, AnswerFacts
<1>6. answer'[c].usable => /\ ~response[c].truncated
                           /\ response[c].rows = CompleteAnswer(step[c])
                           /\ answer'[c].rows = response[c].rows
    BY <1>2, UsableAnswerIsComplete
<1>7. UsableIsComplete(c)'
    BY <1>4, <1>6 DEF UsableIsComplete
<1>8. AnswerIsAudited(c)'
    <2>1. Id(c) # None
        BY NoneAssumption DEF Id, IInv, Types
    <2>2. ASSUME c \in Audited
          PROVE  \E i \in Records(Id(c)) :
                    /\ Records(Id(c)) = {i}
                    /\ answer'[c].success => audit[i].status = "success"
                    /\ answer'[c].usable =>
                          /\ ~audit[i].truncated
                          /\ audit[i].row_count = Cardinality(CompleteAnswer(step[c]))
        <3>1. PICK i \in Records(Id(c)) : Records(Id(c)) = {i} /\ audit[i] = AuditRecord(c)
            BY <1>1, <1>2, <2>2 DEF CallInv, Logged
        <3>2. /\ audit[i].status = response[c].status
              /\ audit[i].row_count = Cardinality(response[c].rows)
            BY <3>1 DEF AuditRecord
        <3>3. audit[i].truncated = response[c].truncated
            BY <3>1 DEF AuditRecord
        <3>4. answer'[c].usable => ~audit[i].truncated
            BY <1>6, <3>3
        <3> QED
            BY <1>5, <1>6, <3>1, <3>2, <3>4
    <2> QED
        BY <1>3, <1>4, <1>5, <2>1, <2>2 DEF AnswerIsAudited
<1>9. Accounted(c)'
    BY <1>3, <1>5, <1>7, <1>8 DEF Accounted
<1>10. Checked(c)' /\ OpenOnlyInFlight(c)'
    BY <1>1, <1>2, <1>4 DEF CallInv, Checked, OpenOnlyInFlight, InFlight
<1>11. Judged(c)'
    <2>1. ASSUME answer'[c].success, step[c].tool # "sql_query"
          PROVE  /\ Selected(c)
                 /\ \E o \in Outcomes(step[c]) :
                       answer'[c].verdict \in Verdicts(step[c], Succeeded(o))
                 /\ answer'[c].verdict # "error"
        <3>1. /\ answer'[c].verdict \in Verdicts(step[c], response[c])
              /\ answer'[c].verdict # "error"
            BY <1>2, <2>1, AnswerFacts
        <3>2. Selected(c) /\ \E o \in Outcomes(step[c]) : response[c] = Succeeded(o)
            BY <1>1, <1>2, <1>5, <2>1 DEF CallInv, Genuine, Responded
        <3> QED
            BY <3>1, <3>2
    <2> QED
        BY <1>2, <1>4, <2>1 DEF Judged
<1> QED
    BY <1>2, <1>3, <1>9, <1>10, <1>11
    DEF CallInv, Unlogged, Logged, Genuine, InFlight, Responded

(* The steps before the audit.                                             *)
LEMMA CheckingInv ==
    ASSUME IInv, NEW c \in Callers,
           Reject(c) \/ RefuseLimits(c) \/ OpenFails(c) \/ Submit(c)
    PROVE  CallInv(c)'
<1>1. /\ KeepsLog(c) /\ step' = step /\ database' = database /\ pc[c] = "checking"
    BY DEF Reject, RefuseLimits, OpenFails, Submit, KeepsLog
<1>2. connection[c] = "closed"
    BY <1>1 DEF IInv, CallInv, OpenOnlyInFlight, InFlight
<1>3. CASE Reject(c)
    BY <1>1, <1>2, <1>3, EscapeInv DEF Reject, runner
<1>4. ASSUME NEW status \in {"validation", "execution"}, Respond(c, Failed(status)),
             connection' = connection
      PROVE  CallInv(c)'
    <2>1. Failed(status).status # "success"
        BY FailedFacts
    <2> QED
        BY <1>1, <1>2, <1>4, <2>1, RespondInv
<1>5. CASE RefuseLimits(c) \/ OpenFails(c)
    BY <1>4, <1>5 DEF RefuseLimits, OpenFails, runner
<1>6. CASE Submit(c)
    <2>1. pc'[c] = "waiting" /\ worker'[c] = "queued"
        BY <1>6 DEF Submit, IInv, Types, Indexed
    <2>2. Accepted(step[c]) /\ LimitsArePositive(step[c])
        BY <1>6 DEF Submit
    <2>3. pc'[c] \in InFlight /\ worker'[c] # "rows"
        BY <2>1 DEF InFlight
    <2> QED
        BY <1>1, <2>2, <2>3, InFlightInv
<1> QED
    BY <1>3, <1>5, <1>6 DEF Reject, RefuseLimits, OpenFails, Submit

LEMMA WaitingInv ==
    ASSUME IInv, NEW c \in Callers, TimeOut(c) \/ Collect(c) \/ CollectLate(c)
    PROVE  CallInv(c)'
<1>1. CASE TimeOut(c)
    <2>1. /\ KeepsLog(c) /\ step' = step /\ database' = database /\ pc[c] \in InFlight
          /\ worker' = worker /\ brought' = brought /\ pc'[c] \in InFlight
        BY <1>1 DEF TimeOut, KeepsLog, InFlight, IInv, Types
    <2>2. worker'[c] = "rows" =>
             Runnable(step[c]) /\ brought'[c] \in Outcomes(step[c])
        BY <2>1 DEF IInv, CallInv, Genuine
    <2> QED
        BY <2>1, <2>2, InFlightInv DEF InFlight
<1>2. ASSUME Collect(c) \/ CollectLate(c)
      PROVE  /\ KeepsLog(c) /\ step' = step /\ database' = database /\ pc[c] \in InFlight
             /\ connection'[c] = "closed"
    BY <1>2, CollectFacts, CollectLateFacts
    DEF KeepsLog, InFlight, CloseConnection, IInv, Types, Indexed
<1>3. ASSUME Collect(c) \/ CollectLate(c), Escape(c)
      PROVE  CallInv(c)'
    BY <1>2, <1>3, EscapeInv DEF Escape
<1>4. ASSUME Collect(c) \/ CollectLate(c),
             NEW status \in {"execution", "timeout"}, Respond(c, Failed(status))
      PROVE  CallInv(c)'
    <2>1. Failed(status).status # "success"
        BY FailedFacts
    <2> QED
        BY <1>2, <1>4, <2>1, RespondInv
<1>5. ASSUME Collect(c), worker[c] = "rows", Respond(c, Succeeded(brought[c]))
      PROVE  CallInv(c)'
    <2>1. Runnable(step[c]) /\ brought[c] \in Outcomes(step[c])
        BY <1>2, <1>5 DEF IInv, CallInv, Genuine
    <2> QED
        BY <1>2, <1>5, <2>1, RespondInv
<1>6. CASE Collect(c)
    BY <1>3, <1>4, <1>5, <1>6, CollectFacts
<1>7. CASE CollectLate(c)
    BY <1>3, <1>4, <1>7, CollectLateFacts
<1> QED
    BY <1>1, <1>6, <1>7

LEMMA AuditInv ==
    ASSUME IInv, NEW c \in Callers,
           \/ AuditDirectoryFails(c) \/ AcquireAuditLock(c)
           \/ AppendRecord(c) \/ AppendRecordFails(c)
    PROVE  CallInv(c)'
<1>1. CASE AuditDirectoryFails(c) \/ AppendRecordFails(c)
    <2>1. /\ KeepsLog(c) /\ step' = step /\ database' = database
          /\ pc[c] \in {"auditing", "appending"}
          /\ AnswerWith(c, Refusal(None)) /\ connection' = connection
        BY <1>1 DEF AuditDirectoryFails, AppendRecordFails, Escape, KeepsLog, runner
    <2>2. connection[c] = "closed"
        BY <2>1 DEF IInv, CallInv, OpenOnlyInFlight, InFlight
    <2> QED
        BY <2>1, <2>2, EscapeInv
<1> QED
    BY <1>1, AcquireInv, AppendRecordInv

LEMMA StepInv == ASSUME IInv, NEW c \in Callers, Step(c) PROVE IInv'
<1>1. Frame(c)
    BY StepFrame DEF IInv
<1>2. CallInv(c)'
    BY <1>1, BeginInv, CheckingInv, WaitingInv, AuditInv, ReturnInv, WorkInv
    DEF Step, Settle
<1>3. \A d \in Callers : d # c => CallInv(d)'
    BY <1>1, OthersKeep DEF Frame, OthersSame
<1> QED
    BY <1>1, <1>2, <1>3 DEF IInv, Frame

LEMMA NextInv == IInv /\ [Next]_vars => IInv'
<1> SUFFICES ASSUME IInv, [Next]_vars
             PROVE  IInv'
    OBVIOUS
<1>1. CASE Next
    BY <1>1, StepInv DEF Next, Step
<1>2. CASE UNCHANGED vars
    <2>1. \A id : Records(id)' = Records(id)
        BY <1>2 DEF vars, Records
    <2>2. \A c : Id(c)' = Id(c)
        BY <1>2 DEF vars, Id
    <2>3. \A c : /\ Outcomes(step[c])' = Outcomes(step[c])
                 /\ CompleteAnswer(step[c])' = CompleteAnswer(step[c])
                 /\ Runnable(step[c])' <=> Runnable(step[c])
                 /\ Selected(c)' <=> Selected(c)
                 /\ Fits(step[c])' <=> Fits(step[c])
        BY <1>2, SameMeaning DEF vars
    <2>4. Types'
        BY <1>2 DEF vars, IInv, Types, Indexed, Fits
    <2>5. ASSUME NEW c \in Callers PROVE CallInv(c)'
        <3>1. CallInv(c)
            BY DEF IInv
        <3>2. Numbered(c)' /\ Unlogged(c)' /\ Logged(c)'
            BY <1>2, <2>1, <2>2, <3>1
            DEF vars, CallInv, Numbered, Unlogged, Logged, AuditRecord
        <3>3. Checked(c)' /\ Genuine(c)' /\ Judged(c)' /\ OpenOnlyInFlight(c)'
            BY <1>2, <2>3, <3>1
            DEF vars, CallInv, Checked, Genuine, Judged, OpenOnlyInFlight, RowLimit,
                LimitsArePositive
        <3>4. Accounted(c)'
            BY <1>2, <2>1, <2>2, <2>3, <3>1
            DEF vars, CallInv, Accounted, UsableIsComplete, AnswerIsAudited
        <3> QED
            BY <3>2, <3>3, <3>4 DEF CallInv
    <2> QED
        BY <2>4, <2>5 DEF IInv
<1> QED
    BY <1>1, <1>2

(* For any number of callers and any schedule of deadlines, audit failures  *)
(* and other callers' queries: an SQL answer that is passed on as usable    *)
(* holds every row, an answer with an identifier has exactly one record,    *)
(* which agrees with it, an answer without one has no record and reports no *)
(* success, the evidence cites the caller's own query, and its connection   *)
(* is closed.  execute_readonly_sql and ToolExecutor.execute_step.          *)
THEOREM AnswersAlwaysAccounted == Spec => []AnswersAreAccounted
<1>1. IInv => AnswersAreAccounted
    BY DEF IInv, CallInv, Accounted, OpenOnlyInFlight, AnswersAreAccounted, InFlight
<1> QED
    BY InitInv, NextInv, <1>1, PTL DEF Spec

-----------------------------------------------------------------------------
(* What the checks make of a complete answer.                              *)

(* A check's query has at most two rows, unless it compares distributions.  *)
LEMMA OneRow ==
    ASSUME NEW s, s.tool # "sql_query", NEW x, CompleteAnswer(s) = {x}, NEW o \in Outcomes(s)
    PROVE  o.rows = {x} /\ (CHOOSE y \in o.rows : TRUE) = x
<1>1. IsFiniteSet({x}) /\ Cardinality({x}) = 1
    BY FS_Singleton
<1>2. RowLimit(s) \in Nat /\ RowLimit(s) >= 2
    BY ToolCallAssumption DEF RowLimit
<1>3. o.rows = {x}
    BY <1>1, <1>2, WithinTheLimit
<1> QED
    BY <1>3

LEMMA HalfOpenIsInterval ==
    ASSUME NEW time \in Int \cup {Null}, NEW start \in Int, NEW end \in Int
    PROVE  HalfOpen(time, start, end) <=> time \in start .. (end - 1)
BY NullAssumption DEF HalfOpen

(* The compiled WHERE clause keeps exactly the rows of the scope: IS NULL   *)
(* beside the literals, and a half-open window.                            *)
LEMMA ScopedIsInScope ==
    ASSUME NEW table, NEW scope, ScopeAccepted(scope),
           scope.start # Null =>
              {scope.start, scope.end} \subseteq Int /\ TimesIn(table, scope.time_column)
    PROVE  Scoped(table, scope) = {i \in DOMAIN table : InScope(table[i], scope)}
<1>1. ASSUME NEW row, NEW column, NEW values
      PROVE  EqualsClause(row, column, values) <=> row[column] \in values
    BY DEF EqualsClause
<1>2. ASSUME NEW i \in DOMAIN table, scope.start # Null
      PROVE  HalfOpen(table[i][scope.time_column], scope.start, scope.end)
                <=> table[i][scope.time_column] \in scope.start .. (scope.end - 1)
    BY <1>2, HalfOpenIsInterval DEF TimesIn
<1> QED
    BY <1>1, <1>2 DEF Scoped, InScope

LEMMA TableFacts ==
    ASSUME NEW table, Len(table) \in Nat, DOMAIN table = 1 .. Len(table)
    PROVE  /\ IsFiniteSet(DOMAIN table) /\ Cardinality(DOMAIN table) = Len(table)
           /\ \A rows \in SUBSET DOMAIN table :
                 /\ IsFiniteSet(rows) /\ Cardinality(rows) \in Nat
                 /\ Cardinality(rows) = 0 <=> rows = {}
<1>1. IsFiniteSet(DOMAIN table) /\ Cardinality(DOMAIN table) = Len(table)
    <2>1. /\ IsFiniteSet(1 .. Len(table))
          /\ Cardinality(1 .. Len(table)) =
                IF 1 > Len(table) THEN 0 ELSE Len(table) - 1 + 1
        BY FS_Interval
    <2> QED
        BY <2>1
<1>2. ASSUME NEW rows \in SUBSET DOMAIN table
      PROVE  IsFiniteSet(rows) /\ Cardinality(rows) \in Nat /\ (Cardinality(rows) = 0 <=> rows = {})
    BY <1>1, FS_Subset, FS_CardinalityType, FS_EmptySet
<1> QED
    BY <1>1, <1>2

(* The table that a check reads, and its scope.                            *)
LEMMA TableOfCheck ==
    ASSUME NEW s, WellFormedData(database), Accepted(s), Runnable(s),
           s.tool \in {"check_null_rate", "check_duplicate_rate", "check_freshness"}
    PROVE  LET table == database.tables[Arguments(s).table]
           IN  /\ Arguments(s).table \in DOMAIN database.tables
               /\ Len(table) \in Nat /\ DOMAIN table = 1 .. Len(table)
               /\ table = [i \in 1 .. Len(table) |-> table[i]]
<1>1. Arguments(s).table = s.arguments.table
    BY DEF Accepted, KeepsContract, Contracts, Arguments
<1>2. s.arguments.table \in DOMAIN database.tables
    BY DEF Runnable
<1> QED
    BY <1>1, <1>2 DEF WellFormedData

LEMMA ScopeOfCheck ==
    ASSUME NEW s, WellFormedData(database), Accepted(s), Runnable(s),
           ComparesTimes(s, database), s.tool \in {"check_null_rate", "check_freshness"}
    PROVE  LET table == database.tables[Arguments(s).table]
               scope == Arguments(s).scope
           IN  Scoped(table, scope) = {i \in DOMAIN table : InScope(table[i], scope)}
<1> DEFINE table == database.tables[Arguments(s).table]
           scope == Arguments(s).scope
<1>1. "scope" \in DOMAIN Arguments(s)
    BY DEF Accepted, KeepsContract, Contracts, Arguments
<1>2. ScopeAccepted(scope)
    BY <1>1 DEF Accepted, CheckAccepts
<1>3. scope.start # Null =>
         {scope.start, scope.end} \subseteq Int /\ TimesIn(table, scope.time_column)
    BY TableOfCheck DEF ComparesTimes
<1> HIDE DEF table, scope
<1>4. Scoped(table, scope) = {i \in DOMAIN table : InScope(table[i], scope)}
    BY <1>2, <1>3, ScopedIsInScope
<1> QED
    BY <1>4 DEF table, scope

LEMMA NullRateMeansIt ==
    ASSUME NEW s, WellFormedData(database), Accepted(s), Runnable(s),
           ComparesTimes(s, database), s.tool = "check_null_rate", NEW o \in Outcomes(s)
    PROVE  Verdicts(s, Succeeded(o)) = Promised(s)
<1> DEFINE a     == Arguments(s)
           table == database.tables[a.table]
           rows  == Scoped(table, a.scope)
           nulls == {i \in rows : table[i][a.column] = Null}
           row   == <<Cardinality(rows), Cardinality(nulls)>>
<1>1. CompleteAnswer(s) = {row}
    BY DEF CompleteAnswer, NullRateQuery
<1>2. Verdicts(s, Succeeded(o)) = {NullRateVerdict(row, a)}
    <2> HIDE DEF row, a
    <2>1. (CHOOSE y \in Succeeded(o).rows : TRUE) = row
        BY <1>1, OneRow DEF Succeeded
    <2> QED
        BY <2>1 DEF Verdicts, a
<1>3. rows = {i \in DOMAIN table : InScope(table[i], a.scope)}
    BY ScopeOfCheck
<1>4. Cardinality(rows) = 0 <=> rows = {}
    BY <1>3, TableOfCheck, TableFacts
<1>5. Promised(s) =
         {IfPassed(rows # {} /\ AtMost(Cardinality(nulls), Cardinality(rows), a.threshold))}
    BY <1>3 DEF Promised, NullsAreRare
<1>6. NullRateVerdict(row, a) =
         IfPassed(Cardinality(rows) # 0
                    /\ AtMost(Cardinality(nulls), Cardinality(rows), a.threshold))
    BY DEF NullRateVerdict
<1> QED
    BY <1>2, <1>4, <1>5, <1>6 DEF IfPassed

(* Of finitely many things, some has none above it: the one with the fewest *)
(* above it, for a thing above it would have fewer.                        *)
LEMMA LeastNatural ==
    ASSUME NEW T \in SUBSET Nat, T # {}
    PROVE  \E x \in T : \A y \in T : x <= y
<1> DEFINE R == OpToRel(<, Nat)
<1>1. PICK x \in T : \A y \in T : ~(<<y, x>> \in R)
    <2>1. IsWellFoundedOn(R, Nat)
        BY NatLessThanWellFounded
    <2> HIDE DEF R
    <2> QED
        BY <2>1, WFMin
<1>2. \A y \in T : ~(y < x)
    <2> SUFFICES ASSUME NEW y \in T, y < x
                 PROVE  FALSE
        OBVIOUS
    <2>1. <<y, x>> \in R
        BY DEF OpToRel
    <2> QED
        BY <1>1, <2>1
<1> QED
    BY <1>2

LEMMA TopExists ==
    ASSUME NEW T, IsFiniteSet(T), T # {}, NEW Above,
           \A x \in T : <<x, x>> \notin Above,
           \A x, y, z \in T : <<x, y>> \in Above /\ <<y, z>> \in Above => <<x, z>> \in Above
    PROVE  \E x \in T : \A y \in T : <<y, x>> \notin Above
<1> DEFINE over(x) == {y \in T : <<y, x>> \in Above}
           counts  == {Cardinality(over(x)) : x \in T}
<1>1. \A x \in T : IsFiniteSet(over(x)) /\ Cardinality(over(x)) \in Nat
    BY FS_Subset, FS_CardinalityType
<1>2. counts \in SUBSET Nat /\ counts # {}
    <2> HIDE DEF over
    <2> QED
        BY <1>1
<1>3. PICK n \in counts : \A m \in counts : n <= m
    <2> HIDE DEF counts
    <2> QED
        BY <1>2, LeastNatural
<1>4. PICK x \in T : n = Cardinality(over(x))
    OBVIOUS
<1>5. ASSUME NEW y \in T, <<y, x>> \in Above
      PROVE  FALSE
    <2>1. over(y) \subseteq over(x) /\ y \in over(x) /\ y \notin over(y)
        BY <1>5
    <2>2. /\ Cardinality(over(y)) <= Cardinality(over(x))
          /\ Cardinality(over(y)) # Cardinality(over(x))
        <3> HIDE DEF over
        <3> QED
            BY <1>1, <2>1, FS_Subset
    <2>3. Cardinality(over(x)) <= Cardinality(over(y))
        <3> HIDE DEF over
        <3> QED
            BY <1>3, <1>4
    <2>4. Cardinality(over(x)) \in Nat /\ Cardinality(over(y)) \in Nat
        BY <1>1
    <2> HIDE DEF over
    <2> QED
        BY <2>2, <2>3, <2>4
<1> QED
    BY <1>5

LEMMA MaxFacts ==
    ASSUME NEW T \in SUBSET Int, IsFiniteSet(T), T # {}
    PROVE  Max(T) \in T /\ \A y \in T : y <= Max(T)
<1> DEFINE Above == {p \in T \X T : p[1] > p[2]}
<1>1. \A x, y \in T : <<y, x>> \in Above <=> y > x
    OBVIOUS
<1> HIDE DEF Above
<1>2. /\ \A x \in T : <<x, x>> \notin Above
      /\ \A x, y, z \in T : <<x, y>> \in Above /\ <<y, z>> \in Above => <<x, z>> \in Above
    BY <1>1
<1>3. PICK x \in T : \A y \in T : <<y, x>> \notin Above
    BY <1>2, TopExists
<1>4. ASSUME NEW y \in T PROVE x >= y
    <2>1. ~(y > x)
        BY <1>1, <1>3
    <2>2. x \in Int /\ y \in Int
        OBVIOUS
    <2> QED
        BY <2>1, <2>2
<1> QED
    BY <1>4 DEF Max

(* The latest timestamp is within the age exactly if none is later than the *)
(* reference and some is within the age.                                   *)
LEMMA FreshnessMeansIt ==
    ASSUME NEW s, WellFormedData(database), Accepted(s), Runnable(s),
           ComparesTimes(s, database), s.tool = "check_freshness", NEW o \in Outcomes(s)
    PROVE  Verdicts(s, Succeeded(o)) = Promised(s)
<1> DEFINE a     == Arguments(s)
           table == database.tables[a.table]
           rows  == Scoped(table, a.scope)
           cell(i) == table[i][a.timestamp_column]
           dated == {i \in rows : cell(i) # Null}
           times == {cell(i) : i \in rows} \ {Null}
           row   == <<Cardinality(dated), IF times = {} THEN Null ELSE Max(times)>>
<1>1. CompleteAnswer(s) = {row}
    BY DEF CompleteAnswer, FreshnessQuery
<1>2. Verdicts(s, Succeeded(o)) = {FreshnessVerdict(row, a)}
    <2> HIDE DEF row, a
    <2>1. (CHOOSE y \in Succeeded(o).rows : TRUE) = row
        BY <1>1, OneRow DEF Succeeded
    <2> QED
        BY <2>1 DEF Verdicts, a
<1>3. rows = {i \in DOMAIN table : InScope(table[i], a.scope)}
    BY ScopeOfCheck
<1>4. /\ a.reference_time \in Int /\ a.max_age \in Int
      /\ \A i \in DOMAIN table : cell(i) \in Int \cup {Null}
    BY TableOfCheck DEF ComparesTimes, TimesIn
<1>5. Promised(s) = {IfPassed(/\ \A time \in times : time <= a.reference_time
                              /\ \E time \in times : time >= a.reference_time - a.max_age)}
    BY <1>3 DEF Promised, IsFresh
<1> DEFINE now == a.reference_time
           age == a.max_age
<1>6. times \in SUBSET Int /\ IsFiniteSet(times)
    <2>1. rows \in SUBSET DOMAIN table
        BY <1>3
    <2>2. IsFiniteSet(rows)
        BY <2>1, TableOfCheck, TableFacts
    <2>3. IsFiniteSet({cell(i) : i \in rows})
        <3> DEFINE f == [i \in rows |-> cell(i)]
        <3>1. f \in Surjection(rows, {cell(i) : i \in rows})
            BY DEF Surjection
        <3> HIDE DEF f
        <3> QED
            BY <2>2, <3>1, FS_Surjection
    <2> QED
        BY <1>4, <2>1, <2>3, FS_Subset
<1>7. Cardinality(dated) = 0 <=> times = {}
    <2>1. dated \in SUBSET DOMAIN table
        BY <1>3
    <2>2. Cardinality(dated) = 0 <=> dated = {}
        <3> HIDE DEF dated
        <3> QED
            BY <2>1, TableOfCheck, TableFacts
    <2> QED
        BY <2>2
<1>8. FreshnessVerdict(row, a) =
         IfPassed(/\ Cardinality(dated) # 0
                  /\ now - (IF times = {} THEN Null ELSE Max(times)) \in 0 .. age)
    BY DEF FreshnessVerdict
<1> HIDE DEF a, table, rows, cell, dated, times, row
<1>9. CASE times = {}
    BY <1>2, <1>5, <1>7, <1>8, <1>9 DEF IfPassed
<1>10. CASE times # {}
    <2>1. Max(times) \in times /\ \A time \in times : time <= Max(times)
        BY <1>6, <1>10, MaxFacts
    <2>2. now \in Int /\ age \in Int /\ Max(times) \in Int
        BY <1>4, <1>6, <2>1
    <2> HIDE DEF now, age
    <2>3. now - Max(times) \in 0 .. age <=>
             /\ \A time \in times : time <= now
             /\ \E time \in times : time >= now - age
        BY <1>6, <2>1, <2>2
    <2> QED
        BY <1>2, <1>5, <1>7, <1>8, <1>10, <2>3 DEF IfPassed, now, age
<1> QED
    BY <1>9, <1>10

-----------------------------------------------------------------------------
(* A table has a row beyond the first of its keys for each row less that    *)
(* SELECT DISTINCT counts: each combination has one first row.             *)
LEMMA RepeatsAreCounted ==
    ASSUME NEW n \in Nat, NEW key
    PROVE  LET repeats == {i \in 1 .. n : \E j \in 1 .. i - 1 : key[i] = key[j]}
           IN  Cardinality(repeats) = n - Cardinality({key[i] : i \in 1 .. n})
<1> DEFINE repeats == {i \in 1 .. n : \E j \in 1 .. i - 1 : key[i] = key[j]}
           firsts  == (1 .. n) \ repeats
           keys    == {key[i] : i \in 1 .. n}
           f == [i \in firsts |-> key[i]]
<1>1. IsFiniteSet(1 .. n) /\ Cardinality(1 .. n) = n
    <2>1. IsFiniteSet(1 .. n) /\ Cardinality(1 .. n) = IF 1 > n THEN 0 ELSE n - 1 + 1
        BY FS_Interval
    <2> QED
        BY <2>1
<1>2. \A i, j \in firsts : key[i] = key[j] => i = j
    <2> SUFFICES ASSUME NEW i \in firsts, NEW j \in firsts, key[i] = key[j], i < j
                 PROVE  FALSE
        OBVIOUS
    <2>1. i \in 1 .. j - 1
        OBVIOUS
    <2> QED
        BY <2>1
<1>3. \A x \in keys : \E i \in firsts : key[i] = x
    <2> SUFFICES ASSUME NEW x \in keys
                 PROVE  \E i \in firsts : key[i] = x
        OBVIOUS
    <2> DEFINE rows == {i \in 1 .. n : key[i] = x}
    <2>1. rows \in SUBSET Nat /\ rows # {}
        OBVIOUS
    <2>2. PICK i \in rows : \A j \in rows : i <= j
        <3> HIDE DEF rows
        <3> QED
            BY <2>1, LeastNatural
    <2>3. i \notin repeats
        <3> SUFFICES ASSUME NEW j \in 1 .. i - 1, key[i] = key[j]
                     PROVE  FALSE
            OBVIOUS
        <3>1. j \in rows /\ j < i /\ i \in Int /\ j \in Int
            BY <2>1
        <3> QED
            BY <2>2, <3>1
    <2> QED
        BY <2>3
<1>4. ExistsBijection(firsts, keys)
    <2>1. f \in [firsts -> keys]
        OBVIOUS
    <2>2. f \in Bijection(firsts, keys)
        <3> HIDE DEF firsts, keys
        <3> QED
            BY <1>2, <1>3, <2>1 DEF Bijection, Injection, IsInjective, Surjection
    <2> QED
        BY <2>2 DEF ExistsBijection
<1>5. repeats \in SUBSET (1 .. n) /\ firsts \in SUBSET (1 .. n)
      /\ repeats = (1 .. n) \ firsts /\ (1 .. n) \cap firsts = firsts
    OBVIOUS
<1> HIDE DEF repeats, firsts, keys
<1>6. Cardinality(keys) = Cardinality(firsts)
    BY <1>1, <1>4, <1>5, FS_Subset, FS_Bijection
<1>7. Cardinality(repeats) = n - Cardinality(firsts)
    <2>1. Cardinality((1 .. n) \ firsts) =
             Cardinality(1 .. n) - Cardinality((1 .. n) \cap firsts)
        BY <1>1, FS_Difference
    <2> QED
        BY <1>1, <1>5, <2>1
<1> QED
    BY <1>6, <1>7 DEF repeats, keys

LEMMA DuplicatesMeanIt ==
    ASSUME NEW s, WellFormedData(database), Accepted(s), Runnable(s),
           s.tool = "check_duplicate_rate", NEW o \in Outcomes(s)
    PROVE  Verdicts(s, Succeeded(o)) = Promised(s)
<1> DEFINE a     == Arguments(s)
           table == database.tables[a.table]
           n     == Len(table)
           key   == [i \in 1 .. n |-> [k \in a.keys |-> table[i][k]]]
           keys  == {[k \in a.keys |-> table[i][k]] : i \in DOMAIN table}
           row   == <<n, Cardinality(keys)>>
           repeats == {i \in DOMAIN table : \E j \in 1 .. i - 1 :
                          \A k \in a.keys : table[i][k] = table[j][k]}
<1>1. CompleteAnswer(s) = {row}
    BY DEF CompleteAnswer, DuplicateQuery
<1>2. Verdicts(s, Succeeded(o)) = {DuplicateVerdict(row, a)}
    <2> HIDE DEF row, a
    <2>1. (CHOOSE y \in Succeeded(o).rows : TRUE) = row
        BY <1>1, OneRow DEF Succeeded
    <2> QED
        BY <2>1 DEF Verdicts, a
<1>3. Promised(s) = {IfPassed(table # << >> /\ AtMost(Cardinality(repeats), n, a.threshold))}
    BY DEF Promised, DuplicatesAreRare
<1>4. n \in Nat /\ DOMAIN table = 1 .. n /\ table = [i \in 1 .. n |-> table[i]]
    BY TableOfCheck
<1>5. DuplicateVerdict(row, a) =
         IfPassed(n # 0 /\ AtMost(n - Cardinality(keys), n, a.threshold))
    BY DEF DuplicateVerdict
<1> HIDE DEF a, table, n, row
<1>6. n # 0 <=> table # << >>
    <2>1. ASSUME n = 0 PROVE table = << >>
        BY <1>4, <2>1
    <2>2. ASSUME table = << >> PROVE n = 0
        BY <1>4, <2>2
    <2> QED
        BY <2>1, <2>2
<1>7. keys = {key[i] : i \in 1 .. n}
    BY <1>4
<1>8. repeats = {i \in 1 .. n : \E j \in 1 .. i - 1 : key[i] = key[j]}
    <2>1. \A i \in 1 .. n : \A j \in 1 .. i - 1 :
             key[i] = key[j] <=> \A k \in a.keys : table[i][k] = table[j][k]
        <3> SUFFICES ASSUME NEW i \in 1 .. n, NEW j \in 1 .. i - 1
                     PROVE  key[i] = key[j] <=> \A k \in a.keys : table[i][k] = table[j][k]
            OBVIOUS
        <3>1. j \in 1 .. n
            BY <1>4
        <3>2. /\ key[i] = [k \in a.keys |-> table[i][k]]
              /\ key[j] = [k \in a.keys |-> table[j][k]]
            BY <3>1
        <3> HIDE DEF key
        <3> QED
            BY <3>2
    <2> HIDE DEF key
    <2> QED
        BY <1>4, <2>1
<1> HIDE DEF key, keys, repeats
<1>9. Cardinality(repeats) = n - Cardinality(keys)
    BY <1>4, <1>7, <1>8, RepeatsAreCounted
<1> QED
    BY <1>2, <1>3, <1>5, <1>6, <1>9 DEF IfPassed

-----------------------------------------------------------------------------
(* Version and time order the snapshots of a table.                        *)
Ordered(T) ==
    /\ IsFiniteSet(T)
    /\ \A s \in T : s.version \in Int /\ s.effective_at \in Int
    /\ \A s, t \in T : s # t => NewerSnapshot(s, t) \/ NewerSnapshot(t, s)

LEMMA NewestSnapshot ==
    ASSUME NEW T, Ordered(T), T # {}
    PROVE  \E s \in T : \A t \in T \ {s} : NewerSnapshot(s, t)
<1> DEFINE Above == {p \in T \X T : NewerSnapshot(p[1], p[2])}
<1>1. \A s, t \in T : <<s, t>> \in Above <=> NewerSnapshot(s, t)
    OBVIOUS
<1> HIDE DEF Above
<1>2. /\ \A s \in T : ~NewerSnapshot(s, s)
      /\ \A s, t, u \in T :
            NewerSnapshot(s, t) /\ NewerSnapshot(t, u) => NewerSnapshot(s, u)
    BY DEF Ordered, NewerSnapshot
<1>3. PICK s \in T : \A t \in T : <<t, s>> \notin Above
    BY <1>1, <1>2, TopExists DEF Ordered
<1> QED
    BY <1>1, <1>3 DEF Ordered

(* Two rows: the newest snapshot and the one before it.                    *)
LEMMA TwoNewest ==
    ASSUME NEW T, Ordered(T), Cardinality(T) >= 2
    PROVE  \E s, t \in T :
              /\ s # t
              /\ \A u \in T \ {s} : NewerSnapshot(s, u)
              /\ \A u \in T \ {s, t} : NewerSnapshot(t, u)
              /\ SchemaQuery(T) = {s, t}
<1> DEFINE newer(u) == {t \in T : NewerSnapshot(t, u)}
<1>1. IsFiniteSet(T)
    BY DEF Ordered
<1>2. PICK s \in T : \A u \in T \ {s} : NewerSnapshot(s, u)
    <2>1. T # {}
        BY FS_EmptySet
    <2> QED
        BY <2>1, NewestSnapshot
<1>3. PICK t \in T \ {s} : \A u \in T \ {s, t} : NewerSnapshot(t, u)
    <2>1. T \ {s} # {}
        <3>1. Cardinality({s}) = 1
            BY FS_Singleton
        <3>2. T # {s}
            BY <3>1
        <3> QED
            BY <3>2
    <2>2. Ordered(T \ {s})
        BY FS_Difference DEF Ordered
    <2>3. PICK t \in T \ {s} : \A u \in (T \ {s}) \ {t} : NewerSnapshot(t, u)
        BY <2>1, <2>2, NewestSnapshot
    <2> QED
        BY <2>3
<1>4. \A u, v \in T : NewerSnapshot(u, v) => ~NewerSnapshot(v, u)
    BY DEF Ordered, NewerSnapshot
<1>5. newer(s) = {} /\ newer(t) = {s}
    BY <1>2, <1>3, <1>4
<1>6. \A u \in T \ {s, t} : {s, t} \subseteq newer(u)
    BY <1>2, <1>3
<1>7. Cardinality(newer(s)) = 0 /\ Cardinality(newer(t)) = 1
    BY <1>5, FS_EmptySet, FS_Singleton
<1>8. Cardinality({s, t}) = 2
    <2>1. IsFiniteSet({s}) /\ Cardinality({s}) = 1
        BY FS_Singleton
    <2>2. t \notin {s} /\ {s} \cup {t} = {s, t}
        BY <1>3
    <2>3. Cardinality({s} \cup {t}) = Cardinality({s}) + 1
        BY <2>1, <2>2, FS_AddElement
    <2> QED
        BY <2>1, <2>2, <2>3
<1>9. ASSUME NEW u \in T \ {s, t} PROVE ~(Cardinality(newer(u)) < 2)
    <2>1. IsFiniteSet(newer(u)) /\ Cardinality(newer(u)) \in Nat
        BY <1>1, FS_Subset, FS_CardinalityType
    <2> HIDE DEF newer
    <2>2. Cardinality({s, t}) <= Cardinality(newer(u))
        BY <1>6, <2>1, FS_Subset
    <2> QED
        BY <1>8, <2>1, <2>2
<1>10. SchemaQuery(T) = {u \in T : Cardinality(newer(u)) < 2}
    BY DEF SchemaQuery
<1> HIDE DEF newer
<1>11. SchemaQuery(T) = {s, t}
    BY <1>3, <1>7, <1>9, <1>10
<1> QED
    BY <1>2, <1>3, <1>11

LEMMA FewSnapshots ==
    ASSUME NEW T, IsFiniteSet(T), Cardinality(T) < 2
    PROVE  SchemaQuery(T) = T
<1>1. ASSUME NEW s \in T PROVE Cardinality({t \in T : NewerSnapshot(t, s)}) < 2
    <2> DEFINE newer == {t \in T : NewerSnapshot(t, s)}
    <2>1. newer \in SUBSET T
        OBVIOUS
    <2> HIDE DEF newer
    <2>2. Cardinality(newer) <= Cardinality(T)
        BY <2>1, FS_Subset
    <2>3. Cardinality(newer) \in Nat /\ Cardinality(T) \in Nat
        BY <2>1, FS_Subset, FS_CardinalityType
    <2> QED
        BY <2>2, <2>3 DEF newer
<1> QED
    BY <1>1 DEF SchemaQuery

LEMMA UnchangedColumns ==
    ASSUME NEW p, NEW q, p = [x \in DOMAIN p |-> p[x]], q = [x \in DOMAIN q |-> q[x]]
    PROVE  ChangedColumns(p, q) = {} <=> p = q
<1>1. ASSUME ChangedColumns(p, q) = {} PROVE p = q
    <2>1. DOMAIN p = DOMAIN q
        BY <1>1 DEF ChangedColumns, SymDiff
    <2>2. \A x \in DOMAIN p : p[x] = q[x]
        BY <1>1, <2>1 DEF ChangedColumns
    <2> QED
        BY <2>1, <2>2
<1>2. ASSUME p = q PROVE ChangedColumns(p, q) = {}
    BY <1>2 DEF ChangedColumns, SymDiff
<1> QED
    BY <1>1, <1>2

LEMMA VerdictOnTwo ==
    ASSUME NEW s, NEW t, Cardinality({s, t}) = 2,
           s.schema # Null => s.schema = [x \in DOMAIN s.schema |-> s.schema[x]],
           t.schema # Null => t.schema = [x \in DOMAIN t.schema |-> t.schema[x]],
           SchemaVerdict({s, t}) # "error"
    PROVE  SchemaVerdict({s, t}) = IF s.schema = t.schema THEN "passed" ELSE "failed"
<1>1. s.schema # Null /\ t.schema # Null
    BY DEF SchemaVerdict
<1>2. SchemaVerdict({s, t}) =
         IF \A u, v \in {s, t} : ChangedColumns(u.schema, v.schema) = {}
         THEN "passed" ELSE "failed"
    BY <1>1 DEF SchemaVerdict, IfPassed
<1>3. /\ ChangedColumns(s.schema, s.schema) = {} /\ ChangedColumns(t.schema, t.schema) = {}
      /\ ChangedColumns(s.schema, t.schema) = {} <=> s.schema = t.schema
      /\ ChangedColumns(t.schema, s.schema) = {} <=> t.schema = s.schema
    BY <1>1, UnchangedColumns
<1>4. (\A u, v \in {s, t} : ChangedColumns(u.schema, v.schema) = {})
         <=> s.schema = t.schema
    BY <1>3
<1> QED
    BY <1>2, <1>4

LEMMA SchemaMeansIt ==
    ASSUME NEW s, WellFormedData(database), s.tool = "detect_schema_drift",
           NEW o \in Outcomes(s), Verdicts(s, Succeeded(o)) # {"error"}
    PROVE  Verdicts(s, Succeeded(o)) = Promised(s)
<1> DEFINE known == {t \in database.snapshots : t.table = Arguments(s).table}
<1>1. CompleteAnswer(s) = SchemaQuery(known)
    BY DEF CompleteAnswer
<1>2. Verdicts(s, Succeeded(o)) = {SchemaVerdict(o.rows)}
    BY DEF Verdicts, Succeeded
<1>3. Promised(s) = IF Cardinality(known) < 2 THEN {"inconclusive"}
                    ELSE {IfPassed(SchemaIsStable(known))}
    BY DEF Promised
<1>4. Ordered(known)
    <2>1. IsFiniteSet(known)
        BY FS_Subset DEF WellFormedData
    <2> QED
        BY <2>1 DEF WellFormedData, Ordered
<1>5. \A t \in known : t.schema # Null =>
          t.schema = [column \in DOMAIN t.schema |-> t.schema[column]]
    BY DEF WellFormedData
<1>6. RowLimit(s) \in Nat /\ RowLimit(s) >= 2
    BY ToolCallAssumption DEF RowLimit
<1> HIDE DEF known
<1>7. CASE Cardinality(known) < 2
    <2>1. IsFiniteSet(known) /\ Cardinality(known) \in Nat
        BY <1>4, FS_CardinalityType DEF Ordered
    <2>2. o.rows = known
        BY <1>1, <1>6, <1>7, <2>1, FewSnapshots, WithinTheLimit
    <2> QED
        BY <1>2, <1>3, <1>7, <2>2 DEF SchemaVerdict
<1>8. CASE ~(Cardinality(known) < 2)
    <2>1. Cardinality(known) \in Nat
        BY <1>4, FS_CardinalityType DEF Ordered
    <2>2. Cardinality(known) >= 2
        BY <1>8, <2>1
    <2>3. PICK new, old \in known :
             /\ new # old
             /\ \A u \in known \ {new} : NewerSnapshot(new, u)
             /\ \A u \in known \ {new, old} : NewerSnapshot(old, u)
             /\ SchemaQuery(known) = {new, old}
        BY <1>4, <2>2, TwoNewest
    <2>4. IsFiniteSet({new, old}) /\ Cardinality({new, old}) = 2
        <3>1. IsFiniteSet({new}) /\ Cardinality({new}) = 1
            BY FS_Singleton
        <3>2. old \notin {new} /\ {new} \cup {old} = {new, old}
            BY <2>3
        <3>3. /\ IsFiniteSet({new} \cup {old})
              /\ Cardinality({new} \cup {old}) = Cardinality({new}) + 1
            BY <3>1, <3>2, FS_AddElement
        <3> QED
            BY <3>1, <3>2, <3>3
    <2>5. o.rows = {new, old}
        BY <1>1, <1>6, <2>3, <2>4, WithinTheLimit
    <2>6. SchemaVerdict(o.rows) = IF new.schema = old.schema THEN "passed" ELSE "failed"
        <3>1. SchemaVerdict({new, old}) # "error"
            BY <1>2, <2>5
        <3>2. /\ new.schema # Null =>
                    new.schema = [column \in DOMAIN new.schema |-> new.schema[column]]
              /\ old.schema # Null =>
                    old.schema = [column \in DOMAIN old.schema |-> old.schema[column]]
            BY <1>5
        <3>3. SchemaVerdict({new, old}) =
                 IF new.schema = old.schema THEN "passed" ELSE "failed"
            BY <2>4, <3>1, <3>2, VerdictOnTwo
        <3> QED
            BY <2>5, <3>3
    <2>7. SchemaIsStable(known) <=> new.schema = old.schema
        <3>1. \A u, v \in known : NewerSnapshot(u, v) => ~NewerSnapshot(v, u)
            BY <1>4 DEF Ordered, NewerSnapshot
        <3>2. ASSUME NEW x \in known, NEW y \in known, x # y,
                     \A u \in known \ {x} : NewerSnapshot(x, u),
                     \A u \in known \ {x, y} : NewerSnapshot(y, u)
              PROVE  x = new /\ y = old
            <4>1. x = new
                BY <2>3, <3>1, <3>2
            <4> QED
                BY <2>3, <3>1, <3>2, <4>1
        <3> QED
            BY <2>3, <3>2 DEF SchemaIsStable
    <2> QED
        BY <1>2, <1>3, <1>8, <2>6, <2>7 DEF IfPassed
<1> QED
    BY <1>7, <1>8

-----------------------------------------------------------------------------
(* Sums.  The averages of the distribution check add up numbers of rows and *)
(* differences of such numbers.  Each number is made the size of a finite   *)
(* set, its fibre, and a sum the size of the union of disjoint fibres: two  *)
(* sums are then compared as sizes of sets.                                *)

(* What holds of a set of rows if it holds of its smaller parts holds of    *)
(* all of them.                                                            *)
LEMMA PartsInduction ==
    ASSUME NEW S, IsFiniteSet(S), NEW Good \in SUBSET SUBSET S,
           \A s \in SUBSET S : (\A t \in SUBSET s : t # s => t \in Good) => s \in Good
    PROVE  Good = SUBSET S
<1> DEFINE sizes == {Cardinality(s) : s \in (SUBSET S) \ Good}
<1>1. \A s \in SUBSET S : IsFiniteSet(s) /\ Cardinality(s) \in Nat
    BY FS_Subset, FS_CardinalityType
<1>2. CASE sizes = {}
    BY <1>2
<1>3. CASE sizes # {}
    <2>1. sizes \in SUBSET Nat
        BY <1>1
    <2>2. PICK n \in sizes : \A m \in sizes : n <= m
        <3> HIDE DEF sizes
        <3> QED
            BY <1>3, <2>1, LeastNatural
    <2>3. PICK s \in (SUBSET S) \ Good : n = Cardinality(s)
        BY <2>2
    <2>4. ASSUME NEW t \in SUBSET s, t # s, t \notin Good
          PROVE  FALSE
        <3>1. Cardinality(t) \in sizes
            BY <2>4
        <3>2. Cardinality(t) <= Cardinality(s) /\ Cardinality(t) # Cardinality(s)
            BY <1>1, <2>4, FS_Subset
        <3> HIDE DEF sizes
        <3> QED
            BY <1>1, <2>2, <2>3, <3>1, <3>2
    <2> QED
        BY <2>3, <2>4
<1> QED
    BY <1>2, <1>3

(* Finite sets F[x] that no two members of S share.                         *)
Fibres(F, S) ==
    /\ IsFiniteSet(S)
    /\ \A x \in S : IsFiniteSet(F[x])
    /\ \A x, y \in S : x # y => F[x] \cap F[y] = {}

Fibred(F, s) == UNION {F[x] : x \in s}

LEMMA FibreIsAdded ==
    ASSUME NEW S, NEW F, Fibres(F, S), NEW s \in SUBSET S, NEW x \in s,
           IsFiniteSet(Fibred(F, s \ {x}))
    PROVE  /\ IsFiniteSet(Fibred(F, s))
           /\ Cardinality(Fibred(F, s)) = Cardinality(F[x]) + Cardinality(Fibred(F, s \ {x}))
<1> DEFINE rest == Fibred(F, s \ {x})
<1>1. Fibred(F, s) = F[x] \cup rest
    BY DEF Fibred
<1>2. F[x] \cap rest = {}
    BY DEF Fibred, Fibres
<1>3. IsFiniteSet(F[x]) /\ IsFiniteSet(rest)
    BY DEF Fibres
<1> HIDE DEF rest
<1>4. /\ Cardinality(F[x]) \in Nat /\ Cardinality(rest) \in Nat
      /\ Cardinality(F[x] \cap rest) = 0
    BY <1>2, <1>3, FS_CardinalityType, FS_EmptySet
<1>5. /\ IsFiniteSet(F[x] \cup rest)
      /\ Cardinality(F[x] \cup rest)
             = Cardinality(F[x]) + Cardinality(rest) - Cardinality(F[x] \cap rest)
    BY <1>3, FS_Union
<1>6. /\ IsFiniteSet(F[x] \cup rest)
      /\ Cardinality(F[x] \cup rest) = Cardinality(F[x]) + Cardinality(rest)
    BY <1>4, <1>5
<1> QED
    BY <1>1, <1>6 DEF rest

LEMMA FibredIsFinite ==
    ASSUME NEW S, NEW F, Fibres(F, S)
    PROVE  \A s \in SUBSET S : /\ IsFiniteSet(Fibred(F, s))
                               /\ Cardinality(Fibred(F, s)) \in Nat
<1> DEFINE Good == {s \in SUBSET S : IsFiniteSet(Fibred(F, s))}
<1>1. ASSUME NEW s \in SUBSET S, \A t \in SUBSET s : t # s => t \in Good
      PROVE  s \in Good
    <2>1. CASE s = {}
        <3>1. Fibred(F, s) = {}
            BY <2>1 DEF Fibred
        <3> QED
            BY <3>1, FS_EmptySet
    <2>2. CASE s # {}
        <3>1. PICK x \in s : TRUE
            BY <2>2
        <3>2. IsFiniteSet(Fibred(F, s \ {x}))
            BY <1>1, <3>1
        <3> QED
            BY <3>2, FibreIsAdded
    <2> QED
        BY <2>1, <2>2
<1>2. Good = SUBSET S
    <2>1. IsFiniteSet(S)
        BY DEF Fibres
    <2> HIDE DEF Good
    <2>2. Good \in SUBSET SUBSET S
        BY DEF Good
    <2> QED
        BY <1>1, <2>1, <2>2, PartsInduction
<1> QED
    BY <1>2, FS_CardinalityType

LEMMA NothingFibred ==
    ASSUME NEW F
    PROVE  Fibred(F, {}) = {} /\ Cardinality(Fibred(F, {})) = 0
<1>1. Fibred(F, {}) = {}
    BY DEF Fibred
<1> QED
    BY <1>1, FS_EmptySet

(* The recursive function of a fold that adds up w.                         *)
Adds(g, w, S) ==
    g = [s \in SUBSET S |->
            IF s = {} THEN 0
            ELSE LET x == CHOOSE x \in s : TRUE IN w[x] + g[s \ {x}]]

LEMMA AddsOne ==
    ASSUME NEW S, NEW w, NEW g, Adds(g, w, S), NEW s \in SUBSET S
    PROVE  /\ s = {} => g[s] = 0
           /\ s # {} => \E x \in s : g[s] = w[x] + g[s \ {x}]
BY DEF Adds

LEMMA SumCounts ==
    ASSUME NEW S, NEW F, Fibres(F, S), NEW w, \A x \in S : w[x] = Cardinality(F[x])
    PROVE  /\ \E g : Adds(g, w, S)
           /\ \A g : Adds(g, w, S) => g[S] = Cardinality(Fibred(F, S))
<1> DEFINE h == [s \in SUBSET S |-> Cardinality(Fibred(F, s))]
<1>1. Adds(h, w, S)
    <2>1. ASSUME NEW s \in SUBSET S, s # {}, NEW x \in s
          PROVE  h[s] = w[x] + h[s \ {x}]
        <3>1. IsFiniteSet(Fibred(F, s \ {x}))
            BY FibredIsFinite
        <3> QED
            BY <3>1, FibreIsAdded
    <2>2. h[{}] = 0
        BY NothingFibred
    <2>3. h = [s \in SUBSET S |-> h[s]]
        OBVIOUS
    <2> HIDE DEF h
    <2>4. ASSUME NEW s \in SUBSET S
          PROVE  h[s] = IF s = {} THEN 0
                        ELSE LET x == CHOOSE x \in s : TRUE IN w[x] + h[s \ {x}]
        BY <2>1, <2>2
    <2> QED
        BY <2>3, <2>4 DEF Adds
<1>2. ASSUME NEW g, Adds(g, w, S)
      PROVE  g[S] = Cardinality(Fibred(F, S))
    <2> DEFINE Good == {s \in SUBSET S : g[s] = Cardinality(Fibred(F, s))}
    <2>1. ASSUME NEW s \in SUBSET S, \A t \in SUBSET s : t # s => t \in Good
          PROVE  s \in Good
        <3>1. CASE s = {}
            BY <1>2, <3>1, AddsOne, NothingFibred
        <3>2. CASE s # {}
            <4>1. PICK x \in s : g[s] = w[x] + g[s \ {x}]
                BY <1>2, <3>2, AddsOne
            <4>2. g[s \ {x}] = Cardinality(Fibred(F, s \ {x}))
                BY <2>1, <4>1
            <4>3. IsFiniteSet(Fibred(F, s \ {x}))
                BY FibredIsFinite
            <4> QED
                BY <4>1, <4>2, <4>3, FibreIsAdded
        <3> QED
            BY <3>1, <3>2
    <2>2. Good = SUBSET S
        <3>1. IsFiniteSet(S) /\ Good \in SUBSET SUBSET S
            BY DEF Fibres
        <3> HIDE DEF Good
        <3> QED
            BY <2>1, <3>1, PartsInduction
    <2> QED
        BY <2>2
<1> QED
    BY <1>1, <1>2

-----------------------------------------------------------------------------
Size(F, s) == Cardinality(Fibred(F, s))

LEMMA FibresOfPart ==
    ASSUME NEW S, NEW F, Fibres(F, S), NEW T \in SUBSET S
    PROVE  Fibres(F, T)
BY FS_Subset DEF Fibres

LEMMA SizesSplit ==
    ASSUME NEW S, NEW F, Fibres(F, S), NEW A \in SUBSET S, NEW P
    PROVE  /\ Size(F, A) = Size(F, A \cap P) + Size(F, A \ P)
           /\ Size(F, A) \in Nat /\ Size(F, A \cap P) \in Nat /\ Size(F, A \ P) \in Nat
<1> DEFINE U == Fibred(F, A \cap P)
           V == Fibred(F, A \ P)
<1>1. /\ IsFiniteSet(U) /\ Cardinality(U) \in Nat
      /\ IsFiniteSet(V) /\ Cardinality(V) \in Nat
      /\ Cardinality(Fibred(F, A)) \in Nat
    <2>1. A \cap P \in SUBSET S /\ A \ P \in SUBSET S
        OBVIOUS
    <2> QED
        BY <2>1, FibredIsFinite
<1>2. Fibred(F, A) = U \cup V
    BY DEF Fibred
<1>3. U \cap V = {}
    BY DEF Fibred, Fibres
<1> HIDE DEF U, V
<1>4. Cardinality(U \cap V) = 0
    BY <1>3, FS_EmptySet
<1>5. Cardinality(U \cup V) = Cardinality(U) + Cardinality(V) - Cardinality(U \cap V)
    BY <1>1, FS_Union
<1>6. Cardinality(U \cup V) = Cardinality(U) + Cardinality(V)
    BY <1>1, <1>4, <1>5
<1> QED
    BY <1>1, <1>2, <1>6 DEF Size, U, V

LEMMA PartIsSmaller ==
    ASSUME NEW S, NEW F, Fibres(F, S), NEW A \in SUBSET S, NEW B \in SUBSET A
    PROVE  Size(F, B) <= Size(F, A)
<1>1. Fibred(F, B) \in SUBSET Fibred(F, A)
    BY DEF Fibred
<1>2. IsFiniteSet(Fibred(F, A))
    BY FibredIsFinite
<1> QED
    BY <1>1, <1>2, FS_Subset DEF Size

LEMMA TwiceTheExcess ==
    ASSUME NEW x \in Nat, NEW y \in Nat, NEW u \in Nat, NEW v \in Nat,
           NEW k \in Nat, NEW l \in Nat, NEW d,
           x = y + k, v = u + l, x + u = y + v, d = k + l
    PROVE  d = 2 * k
OBVIOUS

(* Where one family exceeds another by a third in every member, it does so  *)
(* altogether.                                                             *)
LEMMA ExcessAddsUp ==
    ASSUME NEW S, NEW X, NEW Y, NEW D, Fibres(X, S), Fibres(Y, S), Fibres(D, S),
           \A c \in S : Cardinality(X[c]) = Cardinality(Y[c]) + Cardinality(D[c])
    PROVE  Size(X, S) = Size(Y, S) + Size(D, S)
<1> DEFINE Good == {s \in SUBSET S : Size(X, s) = Size(Y, s) + Size(D, s)}
<1>1. ASSUME NEW s \in SUBSET S, \A t \in SUBSET s : t # s => t \in Good
      PROVE  s \in Good
    <2>1. CASE s = {}
        BY <2>1, NothingFibred DEF Size
    <2>2. CASE s # {}
        <3>1. PICK c \in s : TRUE
            BY <2>2
        <3>2. Size(X, s \ {c}) = Size(Y, s \ {c}) + Size(D, s \ {c})
            BY <1>1, <3>1
        <3>3. s \ {c} \in SUBSET S
            OBVIOUS
        <3>4. /\ Size(X, s) = Cardinality(X[c]) + Size(X, s \ {c})
              /\ Size(Y, s) = Cardinality(Y[c]) + Size(Y, s \ {c})
              /\ Size(D, s) = Cardinality(D[c]) + Size(D, s \ {c})
            BY <3>1, <3>3, FibreIsAdded, FibredIsFinite DEF Size
        <3>5. /\ Cardinality(X[c]) \in Nat /\ Cardinality(Y[c]) \in Nat
              /\ Cardinality(D[c]) \in Nat
            BY <3>1, FS_CardinalityType DEF Fibres
        <3>6. /\ Size(X, s \ {c}) \in Nat /\ Size(Y, s \ {c}) \in Nat
              /\ Size(D, s \ {c}) \in Nat
            BY <3>3, FibredIsFinite DEF Size
        <3>7. Cardinality(X[c]) = Cardinality(Y[c]) + Cardinality(D[c])
            BY <3>1
        <3> QED
            BY <3>2, <3>4, <3>5, <3>6, <3>7
    <2> QED
        BY <2>1, <2>2
<1>2. IsFiniteSet(S) /\ Good \in SUBSET SUBSET S
    BY DEF Fibres
<1>3. Good = SUBSET S
    <2> HIDE DEF Good
    <2> QED
        BY <1>1, <1>2, PartsInduction
<1> QED
    BY <1>3

(* Of two families of equal size the sum of all differences is twice the    *)
(* largest difference that a part of the members shows.                    *)
LEMMA LargestDifference ==
    ASSUME NEW S, NEW X, NEW Y, NEW D, Fibres(X, S), Fibres(Y, S), Fibres(D, S),
           \A c \in S : LET x == Cardinality(X[c])
                            y == Cardinality(Y[c])
                        IN  Cardinality(D[c]) = IF x - y < 0 THEN -(x - y) ELSE x - y,
           Size(X, S) = Size(Y, S)
    PROVE  \E k \in Nat :
              /\ Size(D, S) = 2 * k
              /\ \E P \in SUBSET S : Size(X, P) - Size(Y, P) = k
              /\ \A A \in SUBSET S : Size(X, A) - Size(Y, A) <= k
<1> DEFINE P == {c \in S : Cardinality(Y[c]) <= Cardinality(X[c])}
           k == Size(D, P)
<1>0. \A c \in S : /\ Cardinality(X[c]) \in Nat /\ Cardinality(Y[c]) \in Nat
                   /\ Cardinality(D[c]) \in Nat
    BY FS_CardinalityType DEF Fibres
<1>1. \A A \in SUBSET S :
         /\ Size(X, A \cap P) = Size(Y, A \cap P) + Size(D, A \cap P)
         /\ Size(Y, A \ P) = Size(X, A \ P) + Size(D, A \ P)
    <2> SUFFICES ASSUME NEW A \in SUBSET S
                 PROVE  /\ Size(X, A \cap P) = Size(Y, A \cap P) + Size(D, A \cap P)
                        /\ Size(Y, A \ P) = Size(X, A \ P) + Size(D, A \ P)
        OBVIOUS
    <2>1. \A c \in A \cap P : Cardinality(X[c]) = Cardinality(Y[c]) + Cardinality(D[c])
        BY <1>0
    <2>2. \A c \in A \ P : Cardinality(Y[c]) = Cardinality(X[c]) + Cardinality(D[c])
        BY <1>0
    <2> HIDE DEF P
    <2>3. A \cap P \in SUBSET S /\ A \ P \in SUBSET S
        OBVIOUS
    <2>4. /\ Fibres(X, A \cap P) /\ Fibres(Y, A \cap P) /\ Fibres(D, A \cap P)
          /\ Fibres(X, A \ P) /\ Fibres(Y, A \ P) /\ Fibres(D, A \ P)
        BY <2>3, FibresOfPart
    <2>5. Size(X, A \cap P) = Size(Y, A \cap P) + Size(D, A \cap P)
        BY <2>1, <2>4, ExcessAddsUp
    <2>6. Size(Y, A \ P) = Size(X, A \ P) + Size(D, A \ P)
        BY <2>2, <2>4, ExcessAddsUp
    <2> QED
        BY <2>5, <2>6
<1>2. P \in SUBSET S /\ P \cap P = P /\ S \cap P = P
    OBVIOUS
<1> HIDE DEF P
<1>3. ASSUME NEW A \in SUBSET S
      PROVE  /\ Size(X, A) = Size(X, A \cap P) + Size(X, A \ P)
             /\ Size(X, A) \in Nat /\ Size(X, A \cap P) \in Nat /\ Size(X, A \ P) \in Nat
    BY SizesSplit
<1>4. ASSUME NEW A \in SUBSET S
      PROVE  /\ Size(Y, A) = Size(Y, A \cap P) + Size(Y, A \ P)
             /\ Size(Y, A) \in Nat /\ Size(Y, A \cap P) \in Nat /\ Size(Y, A \ P) \in Nat
    BY SizesSplit
<1>5. ASSUME NEW A \in SUBSET S
      PROVE  /\ Size(D, A) = Size(D, A \cap P) + Size(D, A \ P)
             /\ Size(D, A) \in Nat /\ Size(D, A \cap P) \in Nat /\ Size(D, A \ P) \in Nat
    BY SizesSplit
<1>6. S \in SUBSET S
    OBVIOUS
<1>7. /\ Size(X, P) = Size(Y, P) + k
      /\ Size(Y, S \ P) = Size(X, S \ P) + Size(D, S \ P)
    BY <1>1, <1>2, <1>6
<1>8. /\ Size(X, S) = Size(X, P) + Size(X, S \ P)
      /\ Size(X, S) \in Nat /\ Size(X, P) \in Nat /\ Size(X, S \ P) \in Nat
    BY <1>2, <1>3, <1>6
<1>9. /\ Size(Y, S) = Size(Y, P) + Size(Y, S \ P)
      /\ Size(Y, S) \in Nat /\ Size(Y, P) \in Nat /\ Size(Y, S \ P) \in Nat
    BY <1>2, <1>4, <1>6
<1>10. /\ Size(D, S) = k + Size(D, S \ P)
       /\ Size(D, S) \in Nat /\ k \in Nat /\ Size(D, S \ P) \in Nat
    BY <1>2, <1>5, <1>6
<1>11. ASSUME NEW A \in SUBSET S
       PROVE  Size(X, A) - Size(Y, A) <= k
    <2>1. Size(D, A \cap P) <= k
        <3>1. P \in SUBSET S /\ A \cap P \in SUBSET P
            BY <1>2
        <3> QED
            BY <3>1, PartIsSmaller
    <2>2. /\ Size(X, A \cap P) = Size(Y, A \cap P) + Size(D, A \cap P)
          /\ Size(Y, A \ P) = Size(X, A \ P) + Size(D, A \ P)
        BY <1>1
    <2>3. /\ Size(D, A \cap P) \in Nat /\ Size(D, A \ P) \in Nat
        BY <1>5
    <2>4. /\ Size(X, A) = Size(X, A \cap P) + Size(X, A \ P)
          /\ Size(X, A) \in Nat /\ Size(X, A \cap P) \in Nat /\ Size(X, A \ P) \in Nat
        BY <1>3
    <2>5. /\ Size(Y, A) = Size(Y, A \cap P) + Size(Y, A \ P)
          /\ Size(Y, A) \in Nat /\ Size(Y, A \cap P) \in Nat /\ Size(Y, A \ P) \in Nat
        BY <1>4
    <2> HIDE DEF k
    <2> QED
        BY <1>10, <2>1, <2>2, <2>3, <2>4, <2>5
<1> HIDE DEF k
<1>12. Size(D, S) = 2 * k
    <2>1. Size(X, P) + Size(X, S \ P) = Size(Y, P) + Size(Y, S \ P)
        BY <1>8, <1>9
    <2> QED
        BY <1>7, <1>8, <1>9, <1>10, <2>1, TwiceTheExcess
<1>13. Size(X, P) - Size(Y, P) = k
    BY <1>7, <1>8, <1>9, <1>10
<1> QED
    BY <1>2, <1>10, <1>11, <1>12, <1>13

-----------------------------------------------------------------------------
(* Counted folds over the rows of an answer and Distance over categories:   *)
(* each adds up to the size of the fibres whose sizes it adds.              *)
CountsUp(g, S) ==
    g = [s \in SUBSET S |->
            IF s = {} THEN 0
            ELSE LET x == CHOOSE x \in s : TRUE IN x[2] + g[s \ {x}]]

LEMMA CountedIsSize ==
    ASSUME NEW S, NEW F, Fibres(F, S), \A x \in S : x[2] = Cardinality(F[x])
    PROVE  Counted(S) = Size(F, S)
<1> DEFINE w == [x \in S |-> x[2]]
           G == CHOOSE g : CountsUp(g, S)
<1>1. Counted(S) = G[S]
    BY DEF Counted, MapThenSumSet, MapThenFoldSet, CountsUp
<1>2. ASSUME NEW g
      PROVE  CountsUp(g, S) <=> Adds(g, w, S)
    <2>1. \A s \in SUBSET S : s # {} =>
             LET x == CHOOSE x \in s : TRUE IN w[x] = x[2]
        OBVIOUS
    <2> HIDE DEF w
    <2>2. [s \in SUBSET S |->
             IF s = {} THEN 0 ELSE LET x == CHOOSE x \in s : TRUE IN x[2] + g[s \ {x}]]
          = [s \in SUBSET S |->
             IF s = {} THEN 0 ELSE LET x == CHOOSE x \in s : TRUE IN w[x] + g[s \ {x}]]
        BY <2>1
    <2> QED
        BY <2>2 DEF CountsUp, Adds
<1>3. \A x \in S : w[x] = Cardinality(F[x])
    OBVIOUS
<1> HIDE DEF w
<1>4. CountsUp(G, S)
    <2>1. \E g : CountsUp(g, S)
        BY <1>2, <1>3, SumCounts
    <2> QED
        BY <2>1, Zenon
<1> HIDE DEF G
<1>5. G[S] = Cardinality(Fibred(F, S))
    BY <1>2, <1>3, <1>4, SumCounts
<1> QED
    BY <1>1, <1>5 DEF Size

AddsDifferences(g, rows, S) ==
    g = [s \in SUBSET S |->
            IF s = {} THEN 0
            ELSE LET x == CHOOSE x \in s : TRUE
                 IN  ShareDifference(rows, x) + g[s \ {x}]]

LEMMA DistanceIsSize ==
    ASSUME NEW rows, NEW S, S = CategoriesOf(rows), NEW F, Fibres(F, S),
           \A c \in S : ShareDifference(rows, c) = Cardinality(F[c])
    PROVE  Distance(rows) = Size(F, S)
<1> DEFINE w == [c \in S |-> ShareDifference(rows, c)]
           G == CHOOSE g : AddsDifferences(g, rows, S)
<1>1. Distance(rows) = G[S]
    BY DEF Distance, MapThenSumSet, MapThenFoldSet, AddsDifferences
<1>2. ASSUME NEW g
      PROVE  AddsDifferences(g, rows, S) <=> Adds(g, w, S)
    <2>1. \A s \in SUBSET S : s # {} =>
             LET x == CHOOSE x \in s : TRUE IN w[x] = ShareDifference(rows, x)
        OBVIOUS
    <2> HIDE DEF w
    <2>2. [s \in SUBSET S |->
             IF s = {} THEN 0
             ELSE LET x == CHOOSE x \in s : TRUE IN ShareDifference(rows, x) + g[s \ {x}]]
          = [s \in SUBSET S |->
             IF s = {} THEN 0 ELSE LET x == CHOOSE x \in s : TRUE IN w[x] + g[s \ {x}]]
        BY <2>1
    <2> QED
        BY <2>2 DEF AddsDifferences, Adds
<1>3. \A c \in S : w[c] = Cardinality(F[c])
    OBVIOUS
<1> HIDE DEF w
<1>4. AddsDifferences(G, rows, S)
    <2>1. \E g : AddsDifferences(g, rows, S)
        BY <1>2, <1>3, SumCounts
    <2> QED
        BY <2>1, Zenon
<1> HIDE DEF G
<1>5. G[S] = Cardinality(Fibred(F, S))
    BY <1>2, <1>3, <1>4, SumCounts
<1> QED
    BY <1>1, <1>5 DEF Size

(* The groups of the query count the rows they stand for.                   *)
LEMMA GroupsAreCounted ==
    ASSUME NEW table, NEW a, IsFiniteSet(DOMAIN table), NEW window, NEW categories
    PROVE  CountIn(DistributionQuery(table, a), window, categories) =
             Cardinality({i \in DOMAIN table :
                 /\ \/ InBaseline(table[i][a.time_column], a)
                    \/ InCurrent(table[i][a.time_column], a)
                 /\ WindowOf(table[i], a) = window
                 /\ Category(table[i][a.column]) \in categories})
<1> DEFINE windowed == {i \in DOMAIN table :
                          \/ InBaseline(table[i][a.time_column], a)
                          \/ InCurrent(table[i][a.time_column], a)}
           group == [i \in windowed |-> <<WindowOf(table[i], a), Category(table[i][a.column])>>]
           members(g) == {j \in windowed : group[j] = g}
           groups == {<<group[i], Cardinality(members(group[i]))>> : i \in windowed}
           rows == {row \in groups : row[1][1] = window /\ row[1][2] \in categories}
           F == [row \in rows |-> members(row[1])]
           counted == {i \in windowed : group[i][1] = window /\ group[i][2] \in categories}
<1>1. DistributionQuery(table, a) = groups
    BY DEF DistributionQuery
<1>2. {i \in DOMAIN table :
          /\ \/ InBaseline(table[i][a.time_column], a)
             \/ InCurrent(table[i][a.time_column], a)
          /\ WindowOf(table[i], a) = window
          /\ Category(table[i][a.column]) \in categories} = counted
    OBVIOUS
<1>3. IsFiniteSet(windowed)
    <2>1. windowed \in SUBSET DOMAIN table
        OBVIOUS
    <2> QED
        BY <2>1, FS_Subset
<1> HIDE DEF windowed, group
<1>4. IsFiniteSet(groups)
    <2> DEFINE f == [i \in windowed |-> <<group[i], Cardinality(members(group[i]))>>]
    <2>1. f \in Surjection(windowed, groups)
        BY DEF Surjection
    <2> QED
        BY <1>3, <2>1, FS_Surjection
<1>5. \A row \in rows : row[2] = Cardinality(F[row])
    <2> SUFFICES ASSUME NEW row \in rows
                 PROVE  row[2] = Cardinality(F[row])
        OBVIOUS
    <2>1. F[row] = members(row[1])
        OBVIOUS
    <2>2. PICK i \in windowed : row = <<group[i], Cardinality(members(group[i]))>>
        OBVIOUS
    <2> HIDE DEF F, rows, groups, members
    <2> QED
        BY <2>1, <2>2
<1>6. Fibres(F, rows)
    <2>1. IsFiniteSet(rows)
        <3>1. rows \in SUBSET groups
            OBVIOUS
        <3> HIDE DEF rows, groups
        <3> QED
            BY <1>4, <3>1, FS_Subset
    <2>2. \A row \in rows : IsFiniteSet(F[row])
        <3>1. \A row \in rows : F[row] \in SUBSET windowed
            OBVIOUS
        <3> HIDE DEF F, rows
        <3> QED
            BY <1>3, <3>1, FS_Subset
    <2>3. ASSUME NEW x \in rows, NEW y \in rows, x # y
          PROVE  F[x] \cap F[y] = {}
        <3>1. x[1] # y[1]
            <4>1. PICK i \in windowed : x = <<group[i], Cardinality(members(group[i]))>>
                OBVIOUS
            <4>2. PICK j \in windowed : y = <<group[j], Cardinality(members(group[j]))>>
                OBVIOUS
            <4> QED
                BY <2>3, <4>1, <4>2
        <3>2. F[x] = members(x[1]) /\ F[y] = members(y[1])
            OBVIOUS
        <3> HIDE DEF F, rows, groups
        <3> QED
            BY <3>1, <3>2
    <2> HIDE DEF F, rows
    <2> QED
        BY <2>1, <2>2, <2>3 DEF Fibres
<1>7. Fibred(F, rows) = counted
    <2>1. \A i \in counted : \E row \in rows : i \in F[row]
        <3> SUFFICES ASSUME NEW i \in counted
                     PROVE  \E row \in rows : i \in F[row]
            OBVIOUS
        <3>1. <<group[i], Cardinality(members(group[i]))>> \in rows
            OBVIOUS
        <3>2. i \in F[<<group[i], Cardinality(members(group[i]))>>]
            BY <3>1
        <3> QED
            BY <3>1, <3>2
    <2>2. \A row \in rows : F[row] \in SUBSET counted
        OBVIOUS
    <2> HIDE DEF F, rows, counted
    <2> QED
        BY <2>1, <2>2 DEF Fibred
<1>8. Counted(rows) = Size(F, rows)
    <2> HIDE DEF F, rows
    <2> QED
        BY <1>5, <1>6, CountedIsSize
<1>9. CountIn(groups, window, categories) = Counted(rows)
    BY DEF CountIn
<1> HIDE DEF F, rows, counted, groups
<1> QED
    BY <1>1, <1>2, <1>7, <1>8, <1>9 DEF Size, windowed

(* The rows of a window with one of the categories.                        *)
Those(R, category, A) == {i \in R : category[i] \in A}

IsProduct(F, R, T, category, A) == \A c \in A : F[c] = Those(R, category, {c}) \X T

LEMMA ProductsFibred ==
    ASSUME NEW R, NEW T, NEW category, NEW A, NEW F, IsProduct(F, R, T, category, A)
    PROVE  Fibred(F, A) = Those(R, category, A) \X T
<1> DEFINE all == {i \in R : category[i] \in A} \X T
<1>0. \A c \in A : F[c] = {i \in R : category[i] \in {c}} \X T
    BY DEF IsProduct, Those
<1>1. ASSUME NEW c \in A, NEW p \in F[c]
      PROVE  p \in all
    BY <1>0, <1>1
<1>2. ASSUME NEW p \in all
      PROVE  \E c \in A : p \in F[c]
    <2>1. PICK i \in R, j \in T : p = <<i, j>> /\ category[i] \in A
        BY <1>2
    <2>2. p \in F[category[i]]
        BY <1>0, <2>1
    <2> QED
        BY <2>1, <2>2
<1> HIDE DEF all
<1>3. Fibred(F, A) = all
    BY <1>1, <1>2 DEF Fibred
<1> QED
    BY <1>3 DEF all, Those

(* By how much a part of the categories is more frequent in the current     *)
(* window, over the denominator common to both windows.                    *)
Excess(baseline, current, category, A) ==
    Cardinality(Those(current, category, A)) * Cardinality(baseline)
    - Cardinality(Those(baseline, category, A)) * Cardinality(current)

(* The categories differ, one by one, by twice the largest excess of a part.*)
LEMMA SharesDiffer ==
    ASSUME NEW baseline, NEW current, IsFiniteSet(baseline), IsFiniteSet(current),
           NEW category, NEW C, C = {category[i] : i \in baseline \cup current},
           NEW d, \A c \in C : d[c] = Abs(Excess(baseline, current, category, {c}))
    PROVE  \E D : /\ Fibres(D, C)
                  /\ \A c \in C : d[c] = Cardinality(D[c])
                  /\ \E k \in Nat :
                        /\ Size(D, C) = 2 * k
                        /\ \E A \in SUBSET C : Excess(baseline, current, category, A) = k
                        /\ \A A \in SUBSET C : Excess(baseline, current, category, A) <= k
<1> DEFINE cur(A)  == Those(current, category, A)
           base(A) == Those(baseline, category, A)
           X == [c \in C |-> cur({c}) \X baseline]
           Y == [c \in C |-> base({c}) \X current]
           D == [c \in C |-> {c} \X (1 .. d[c])]
<1>1. \A A : /\ cur(A) \in SUBSET current /\ base(A) \in SUBSET baseline
    BY DEF Those
<1>2. \A A : /\ IsFiniteSet(cur(A)) /\ Cardinality(cur(A)) \in Nat
             /\ IsFiniteSet(base(A)) /\ Cardinality(base(A)) \in Nat
    <2> HIDE DEF cur, base
    <2> QED
        BY <1>1, FS_Subset, FS_CardinalityType
<1>3. Cardinality(baseline) \in Nat /\ Cardinality(current) \in Nat
    BY FS_CardinalityType
<1>4. IsFiniteSet(C)
    <2> DEFINE f == [i \in baseline \cup current |-> category[i]]
    <2>1. IsFiniteSet(baseline \cup current)
        BY FS_Union
    <2>2. f \in Surjection(baseline \cup current, C)
        BY DEF Surjection
    <2> HIDE DEF f
    <2> QED
        BY <2>1, <2>2, FS_Surjection
<1>5. \A c \in C :
         /\ IsFiniteSet(X[c]) /\ Cardinality(X[c]) = Cardinality(cur({c})) * Cardinality(baseline)
         /\ IsFiniteSet(Y[c]) /\ Cardinality(Y[c]) = Cardinality(base({c})) * Cardinality(current)
    <2> HIDE DEF cur, base
    <2> QED
        BY <1>2, FS_Product
<1>6. \A c \in C : d[c] \in Nat
    <2> SUFFICES ASSUME NEW c \in C
                 PROVE  d[c] \in Nat
        OBVIOUS
    <2>1. d[c] = Abs(Cardinality(cur({c})) * Cardinality(baseline)
                     - Cardinality(base({c})) * Cardinality(current))
        BY DEF Excess
    <2> HIDE DEF cur, base
    <2>2. /\ Cardinality(cur({c})) * Cardinality(baseline) \in Nat
          /\ Cardinality(base({c})) * Cardinality(current) \in Nat
        BY <1>2, <1>3
    <2> QED
        BY <2>1, <2>2 DEF Abs
<1>7. \A c \in C : IsFiniteSet(D[c]) /\ Cardinality(D[c]) = d[c]
    <2> SUFFICES ASSUME NEW c \in C
                 PROVE  IsFiniteSet(D[c]) /\ Cardinality(D[c]) = d[c]
        OBVIOUS
    <2>1. d[c] \in Nat
        BY <1>6
    <2>2. IsFiniteSet(1 .. d[c]) /\ Cardinality(1 .. d[c]) = d[c]
        BY <2>1, FS_Interval
    <2>3. IsFiniteSet({c}) /\ Cardinality({c}) = 1
        BY FS_Singleton
    <2>4. D[c] = {c} \X (1 .. d[c])
        OBVIOUS
    <2>5. /\ IsFiniteSet({c} \X (1 .. d[c]))
          /\ Cardinality({c} \X (1 .. d[c])) = 1 * d[c]
        <3> HIDE DEF D
        <3> DEFINE T == 1 .. d[c]
        <3>1. IsFiniteSet(T) /\ Cardinality(T) = d[c]
            BY <2>2
        <3> HIDE DEF T
        <3>2. /\ IsFiniteSet({c} \X T)
              /\ Cardinality({c} \X T) = Cardinality({c}) * Cardinality(T)
            BY <2>3, <3>1, FS_Product
        <3> QED
            BY <2>3, <3>1, <3>2 DEF T
    <2> HIDE DEF D
    <2> QED
        BY <2>1, <2>4, <2>5
<1>8. /\ Fibres(X, C) /\ Fibres(Y, C) /\ Fibres(D, C)
    <2>1. \A b, c \in C : b # c => /\ X[b] \cap X[c] = {}
                                   /\ Y[b] \cap Y[c] = {}
                                   /\ D[b] \cap D[c] = {}
        <3> SUFFICES ASSUME NEW b \in C, NEW c \in C, b # c
                     PROVE  /\ X[b] \cap X[c] = {}
                            /\ Y[b] \cap Y[c] = {}
                            /\ D[b] \cap D[c] = {}
            OBVIOUS
        <3>1. cur({b}) \cap cur({c}) = {} /\ base({b}) \cap base({c}) = {}
            BY DEF Those
        <3>2. /\ X[b] = cur({b}) \X baseline /\ X[c] = cur({c}) \X baseline
              /\ Y[b] = base({b}) \X current /\ Y[c] = base({c}) \X current
              /\ D[b] = {b} \X (1 .. d[b]) /\ D[c] = {c} \X (1 .. d[c])
            OBVIOUS
        <3> HIDE DEF X, Y, D, cur, base
        <3> QED
            BY <3>1, <3>2
    <2> HIDE DEF X, Y, D
    <2> QED
        BY <1>4, <1>5, <1>7, <2>1 DEF Fibres
<1>9. ASSUME NEW A \in SUBSET C
      PROVE  /\ Size(X, A) = Cardinality(cur(A)) * Cardinality(baseline)
             /\ Size(Y, A) = Cardinality(base(A)) * Cardinality(current)
    <2>1. Fibred(X, A) = cur(A) \X baseline
        <3>1. IsProduct(X, current, baseline, category, A)
            BY DEF IsProduct
        <3>2. cur(A) = Those(current, category, A)
            OBVIOUS
        <3> HIDE DEF X, Y, D, cur, base
        <3>3. Fibred(X, A) = Those(current, category, A) \X baseline
            BY <3>1, ProductsFibred
        <3> QED
            BY <3>2, <3>3
    <2>2. Fibred(Y, A) = base(A) \X current
        <3>1. IsProduct(Y, baseline, current, category, A)
            BY DEF IsProduct
        <3>2. base(A) = Those(baseline, category, A)
            OBVIOUS
        <3> HIDE DEF X, Y, D, cur, base
        <3>3. Fibred(Y, A) = Those(baseline, category, A) \X current
            BY <3>1, ProductsFibred
        <3> QED
            BY <3>2, <3>3
    <2> HIDE DEF X, Y, cur, base
    <2> QED
        BY <1>2, <2>1, <2>2, FS_Product DEF Size
<1>10. Size(X, C) = Size(Y, C)
    <2>1. cur(C) = current /\ base(C) = baseline
        BY DEF Those
    <2>2. C \in SUBSET C
        OBVIOUS
    <2> HIDE DEF X, Y, cur, base
    <2> QED
        BY <1>3, <1>9, <2>1, <2>2
<1>11. \A c \in C : LET x == Cardinality(X[c])
                        y == Cardinality(Y[c])
                    IN  Cardinality(D[c]) = IF x - y < 0 THEN -(x - y) ELSE x - y
    <2>1. \A c \in C : d[c] = Abs(Cardinality(cur({c})) * Cardinality(baseline)
                                  - Cardinality(base({c})) * Cardinality(current))
        BY DEF Excess
    <2> HIDE DEF X, Y, D, cur, base
    <2> QED
        BY <1>5, <1>7, <2>1 DEF Abs
<1> HIDE DEF X, Y, D
<1>12. PICK k \in Nat :
          /\ Size(D, C) = 2 * k
          /\ \E P \in SUBSET C : Size(X, P) - Size(Y, P) = k
          /\ \A A \in SUBSET C : Size(X, A) - Size(Y, A) <= k
    BY <1>8, <1>10, <1>11, LargestDifference
<1>13. /\ \E A \in SUBSET C : Excess(baseline, current, category, A) = k
       /\ \A A \in SUBSET C : Excess(baseline, current, category, A) <= k
    <2>1. \A A \in SUBSET C : Excess(baseline, current, category, A) = Size(X, A) - Size(Y, A)
        BY <1>9 DEF Excess
    <2> QED
        BY <1>12, <2>1
<1> QED
    BY <1>7, <1>8, <1>12, <1>13

BaselineRows(table, a) == {i \in DOMAIN table : InBaseline(table[i][a.time_column], a)}
CurrentRows(table, a)  == {i \in DOMAIN table : InCurrent(table[i][a.time_column], a)}
CategoryOf(table, a)   == [i \in DOMAIN table |-> Category(table[i][a.column])]

(* The query gives the rows of two disjoint windows to their own window.    *)
LEMMA WindowsAreCounted ==
    ASSUME NEW table, NEW a, IsFiniteSet(DOMAIN table), TimesIn(table, a.time_column),
           {a.baseline_start, a.baseline_end, a.current_start, a.current_end} \subseteq Int,
           DisjointWindows(a)
    PROVE  /\ \A A :
                 /\ CountIn(DistributionQuery(table, a), "baseline", A)
                      = Cardinality(Those(BaselineRows(table, a), CategoryOf(table, a), A))
                 /\ CountIn(DistributionQuery(table, a), "current", A)
                      = Cardinality(Those(CurrentRows(table, a), CategoryOf(table, a), A))
           /\ CategoriesOf(DistributionQuery(table, a))
                = {CategoryOf(table, a)[i] :
                     i \in BaselineRows(table, a) \cup CurrentRows(table, a)}
<1> DEFINE baseline == {i \in DOMAIN table : InBaseline(table[i][a.time_column], a)}
           current  == {i \in DOMAIN table : InCurrent(table[i][a.time_column], a)}
           category == [i \in DOMAIN table |-> Category(table[i][a.column])]
<1>0. /\ BaselineRows(table, a) = baseline
      /\ CurrentRows(table, a) = current
      /\ CategoryOf(table, a) = category
    BY DEF BaselineRows, CurrentRows, CategoryOf
<1>1. \A i \in DOMAIN table : i \in baseline => WindowOf(table[i], a) = "baseline"
    BY DEF WindowOf
<1>2. ASSUME NEW i \in DOMAIN table
      PROVE  i \in current => i \notin baseline /\ WindowOf(table[i], a) = "current"
    <2> DEFINE time == table[i][a.time_column]
    <2>1. time \in Int \cup {Null}
        BY DEF TimesIn
    <2>2. i \in current => InCurrent(time, a)
        OBVIOUS
    <2>3. i \in baseline <=> InBaseline(time, a)
        OBVIOUS
    <2>4. InCurrent(time, a) => ~InBaseline(time, a)
        <3> HIDE DEF time
        <3> QED
            BY <2>1 DEF InCurrent, InBaseline, HalfOpen, DisjointWindows
    <2> HIDE DEF time
    <2> QED
        BY <2>2, <2>3, <2>4 DEF WindowOf, time
<1>3. ASSUME NEW A
      PROVE  /\ Those(baseline, category, A) =
                   {i \in DOMAIN table :
                      /\ \/ InBaseline(table[i][a.time_column], a)
                         \/ InCurrent(table[i][a.time_column], a)
                      /\ WindowOf(table[i], a) = "baseline"
                      /\ Category(table[i][a.column]) \in A}
             /\ Those(current, category, A) =
                   {i \in DOMAIN table :
                      /\ \/ InBaseline(table[i][a.time_column], a)
                         \/ InCurrent(table[i][a.time_column], a)
                      /\ WindowOf(table[i], a) = "current"
                      /\ Category(table[i][a.column]) \in A}
    BY <1>1, <1>2 DEF Those
<1>4. ASSUME NEW A
      PROVE  /\ CountIn(DistributionQuery(table, a), "baseline", A)
                   = Cardinality(Those(baseline, category, A))
             /\ CountIn(DistributionQuery(table, a), "current", A)
                   = Cardinality(Those(current, category, A))
    BY <1>3, GroupsAreCounted
<1>5. CategoriesOf(DistributionQuery(table, a)) = {category[i] : i \in baseline \cup current}
    <2> DEFINE windowed == {i \in DOMAIN table :
                              \/ InBaseline(table[i][a.time_column], a)
                              \/ InCurrent(table[i][a.time_column], a)}
               group == [i \in windowed |-> <<WindowOf(table[i], a), Category(table[i][a.column])>>]
               size == [i \in windowed |-> Cardinality({j \in windowed : group[j] = group[i]})]
    <2>1. DistributionQuery(table, a) = {<<group[i], size[i]>> : i \in windowed}
        BY DEF DistributionQuery
    <2>2. windowed = baseline \cup current
        OBVIOUS
    <2>3. \A i \in windowed : group[i][2] = category[i]
        OBVIOUS
    <2> HIDE DEF windowed, group, size
    <2> DEFINE rows == {<<group[i], size[i]>> : i \in windowed}
    <2>4. \A row \in rows : \E i \in windowed : row[1][2] = category[i]
        <3> SUFFICES ASSUME NEW row \in rows
                     PROVE  \E i \in windowed : row[1][2] = category[i]
            OBVIOUS
        <3>1. PICK i \in windowed : row = <<group[i], size[i]>>
            OBVIOUS
        <3>2. row[1] = group[i]
            BY <3>1
        <3> HIDE DEF rows
        <3> QED
            BY <2>3, <3>2
    <2>5. \A i \in windowed : \E row \in rows : row[1][2] = category[i]
        <3> SUFFICES ASSUME NEW i \in windowed
                     PROVE  \E row \in rows : row[1][2] = category[i]
            OBVIOUS
        <3>1. <<group[i], size[i]>> \in rows
            OBVIOUS
        <3>2. <<group[i], size[i]>>[1][2] = category[i]
            BY <2>3
        <3> QED
            BY <3>1, <3>2
    <2> HIDE DEF rows, baseline, current, category
    <2>6. {row[1][2] : row \in rows} = {category[i] : i \in windowed}
        BY <2>4, <2>5
    <2> QED
        BY <2>1, <2>2, <2>6 DEF CategoriesOf, rows
<1> HIDE DEF baseline, current, category
<1> QED
    BY <1>0, <1>4, <1>5

(* A bound on the largest excess bounds the excess of every part.           *)
LEMMA BoundOfLargest ==
    ASSUME NEW k \in Nat, NEW n \in Nat, NEW threshold,
           threshold[1] \in Nat, threshold[2] \in Nat,
           NEW E, \E e \in E : e = k, \A e \in E : e \in Int /\ e <= k
    PROVE  AtMost(2 * k, 2 * n, threshold) <=> \A e \in E : AtMost(e, n, threshold)
<1> DEFINE p == threshold[1]
           q == threshold[2]
<1>1. AtMost(2 * k, 2 * n, threshold) <=> k * q <= p * n
    <2>1. (2 * k) * q = 2 * (k * q) /\ p * (2 * n) = 2 * (p * n)
        <3> HIDE DEF p, q
        <3> QED
            BY DEF p, q
    <2>2. k * q \in Nat /\ p * n \in Nat
        <3> HIDE DEF p, q
        <3> QED
            BY DEF p, q
    <2> HIDE DEF p, q
    <2>3. (2 * k) * q <= p * (2 * n) <=> k * q <= p * n
        BY <2>1, <2>2
    <2> QED
        BY <2>3 DEF AtMost, p, q
<1>2. \A e \in E : e * q <= k * q
    <2> HIDE DEF p, q
    <2>1. q \in Nat
        BY DEF q
    <2>2. ASSUME NEW e \in Int, e <= k PROVE e * q <= k * q
        BY <2>1, <2>2
    <2> QED
        BY <2>2
<1>3. \A e \in E : AtMost(e, n, threshold) <=> e * q <= p * n
    BY DEF AtMost
<1>4. p \in Nat /\ q \in Nat
    OBVIOUS
<1> HIDE DEF p, q
<1>5. k * q \in Int /\ p * n \in Int /\ \A e \in E : e * q \in Int
    <2>1. \A e \in Int : e * q \in Int
        BY <1>4
    <2> QED
        BY <1>4, <2>1
<1> QED
    BY <1>1, <1>2, <1>3, <1>5

(* Sets of categories are sets of cells, where NULL and '<NULL>' do not meet. *)
CellOf(table, a) == [i \in DOMAIN table |-> table[i][a.column]]

\* Every part of the rows that one selects, the other selects too.
SameParts(rows, f, g) ==
    /\ \A A \in SUBSET {f[i] : i \in rows} : \E B \in SUBSET {g[i] : i \in rows} :
          \A R \in SUBSET rows : Those(R, f, A) = Those(R, g, B)
    /\ \A B \in SUBSET {g[i] : i \in rows} : \E A \in SUBSET {f[i] : i \in rows} :
          \A R \in SUBSET rows : Those(R, f, A) = Those(R, g, B)

LEMMA CategoriesAreCells ==
    ASSUME NEW table, NEW a, NullsToldApart(table, a.column),
           NEW rows \in SUBSET DOMAIN table
    PROVE  SameParts(rows, CategoryOf(table, a), CellOf(table, a))
<1> DEFINE cell     == CellOf(table, a)
           category == CategoryOf(table, a)
           cells    == {cell[i] : i \in rows}
           C        == {category[i] : i \in rows}
<1>1. \A i, j \in rows : category[i] = category[j] <=> cell[i] = cell[j]
    BY DEF CellOf, CategoryOf, Category, NullsToldApart
<1> HIDE DEF cell, category
<1>2. ASSUME NEW A \in SUBSET C
      PROVE  \E B \in SUBSET cells : \A R \in SUBSET rows :
                Those(R, category, A) = Those(R, cell, B)
    <2> DEFINE B == {cell[i] : i \in {j \in rows : category[j] \in A}}
    <2>1. \A i \in rows : category[i] \in A <=> cell[i] \in B
        BY <1>1
    <2>2. B \in SUBSET cells
        OBVIOUS
    <2> HIDE DEF B, cells, C
    <2>3. \A R \in SUBSET rows : Those(R, category, A) = Those(R, cell, B)
        BY <2>1 DEF Those
    <2> QED
        BY <2>2, <2>3
<1>3. ASSUME NEW B \in SUBSET cells
      PROVE  \E A \in SUBSET C : \A R \in SUBSET rows :
                Those(R, category, A) = Those(R, cell, B)
    <2> DEFINE A == {category[i] : i \in {j \in rows : cell[j] \in B}}
    <2>1. \A i \in rows : category[i] \in A <=> cell[i] \in B
        BY <1>1
    <2>2. A \in SUBSET C
        OBVIOUS
    <2> HIDE DEF A, cells, C
    <2>3. \A R \in SUBSET rows : Those(R, category, A) = Those(R, cell, B)
        BY <2>1 DEF Those
    <2> QED
        BY <2>2, <2>3
<1> QED
    BY <1>2, <1>3 DEF cell, category, SameParts

(* Between two disjoint windows, half the exact sum of the differences of   *)
(* the categories' shares is the largest difference between the shares of   *)
(* any set of cells: both are within the same bounds.                      *)
LEMMA DistanceIsLargestExcess ==
    ASSUME NEW table, NEW a, IsFiniteSet(DOMAIN table), TimesIn(table, a.time_column),
           {a.baseline_start, a.baseline_end, a.current_start, a.current_end} \subseteq Int,
           DisjointWindows(a), NullsToldApart(table, a.column),
           NEW bound, bound[1] \in Nat, bound[2] \in Nat
    PROVE  LET rows == DistributionQuery(table, a)
               all  == CategoriesOf(rows)
           IN  AtMost(Distance(rows),
                      2 * CountIn(rows, "baseline", all) * CountIn(rows, "current", all), bound)
                  <=> DistributionIsStable(table, a, bound)
<1> DEFINE baseline == BaselineRows(table, a)
           current  == CurrentRows(table, a)
           category == CategoryOf(table, a)
           C == {category[i] : i \in baseline \cup current}
           rows == DistributionQuery(table, a)
           d == [c \in C |-> ShareDifference(rows, c)]
           n == Cardinality(baseline) * Cardinality(current)
           E == {Excess(baseline, current, category, A) : A \in SUBSET C}
<1>1. /\ \A A : /\ CountIn(rows, "baseline", A) = Cardinality(Those(baseline, category, A))
                /\ CountIn(rows, "current", A) = Cardinality(Those(current, category, A))
      /\ CategoriesOf(rows) = C
    BY WindowsAreCounted
<1>2. /\ IsFiniteSet(baseline) /\ Cardinality(baseline) \in Nat
      /\ IsFiniteSet(current) /\ Cardinality(current) \in Nat
    <2>1. baseline \in SUBSET DOMAIN table /\ current \in SUBSET DOMAIN table
        BY DEF BaselineRows, CurrentRows
    <2> HIDE DEF baseline, current
    <2> QED
        BY <2>1, FS_Subset, FS_CardinalityType
<1>3. Those(baseline, category, C) = baseline /\ Those(current, category, C) = current
    BY DEF Those, CategoryOf
<1>4. DistributionIsStable(table, a, bound) <=>
         \A A \in SUBSET C : AtMost(Excess(baseline, current, category, A), n, bound)
    <2> DEFINE cell  == CellOf(table, a)
               cells == {cell[i] : i \in baseline \cup current}
    <2>1. DistributionIsStable(table, a, bound) <=>
             \A B \in SUBSET cells : AtMost(Excess(baseline, current, cell, B), n, bound)
        <3>1. \A B : /\ Those(current, cell, B) = {i \in current : table[i][a.column] \in B}
                     /\ Those(baseline, cell, B) = {i \in baseline : table[i][a.column] \in B}
            BY DEF Those, BaselineRows, CurrentRows, CellOf
        <3>2. cells = {table[i][a.column] : i \in baseline \cup current}
            BY DEF BaselineRows, CurrentRows, CellOf
        <3> HIDE DEF cell, cells
        <3> QED
            BY <3>1, <3>2 DEF DistributionIsStable, Excess, BaselineRows, CurrentRows
    <2>2. /\ \A A \in SUBSET C : \E B \in SUBSET cells :
                Excess(baseline, current, category, A) = Excess(baseline, current, cell, B)
          /\ \A B \in SUBSET cells : \E A \in SUBSET C :
                Excess(baseline, current, category, A) = Excess(baseline, current, cell, B)
        <3> DEFINE both == baseline \cup current
        <3>1. both \in SUBSET DOMAIN table
            BY DEF BaselineRows, CurrentRows
        <3>2. baseline \in SUBSET both /\ current \in SUBSET both
            OBVIOUS
        <3>3. /\ \A A \in SUBSET C : \E B \in SUBSET cells : \A R \in SUBSET both :
                    Those(R, category, A) = Those(R, cell, B)
              /\ \A B \in SUBSET cells : \E A \in SUBSET C : \A R \in SUBSET both :
                    Those(R, category, A) = Those(R, cell, B)
            <4>1. SameParts(both, category, cell)
                BY <3>1, CategoriesAreCells
            <4> HIDE DEF category, cell, baseline, current
            <4> QED
                BY <4>1 DEF SameParts
        <3> HIDE DEF both, baseline, current, category, cell, C, cells
        <3> QED
            BY <3>2, <3>3 DEF Excess
    <2> HIDE DEF baseline, current, category, cell, C, cells
    <2> QED
        BY <2>1, <2>2
<1> HIDE DEF baseline, current, category, rows
<1>5. \A c \in C : d[c] = Abs(Excess(baseline, current, category, {c}))
    <2> SUFFICES ASSUME NEW c \in C
                 PROVE  d[c] = Abs(Excess(baseline, current, category, {c}))
        OBVIOUS
    <2>1. d[c] = ShareDifference(rows, c)
        OBVIOUS
    <2> HIDE DEF d, C
    <2> QED
        BY <1>1, <1>3, <2>1 DEF ShareDifference, Excess
<1> HIDE DEF d
<1>6. PICK D : /\ Fibres(D, C)
               /\ \A c \in C : d[c] = Cardinality(D[c])
               /\ \E k \in Nat :
                     /\ Size(D, C) = 2 * k
                     /\ \E A \in SUBSET C : Excess(baseline, current, category, A) = k
                     /\ \A A \in SUBSET C : Excess(baseline, current, category, A) <= k
    BY <1>2, <1>5, SharesDiffer
<1>7. PICK k \in Nat :
         /\ Size(D, C) = 2 * k
         /\ \E A \in SUBSET C : Excess(baseline, current, category, A) = k
         /\ \A A \in SUBSET C : Excess(baseline, current, category, A) <= k
    BY <1>6
<1>8. Distance(rows) = 2 * k
    <2>1. \A c \in C : ShareDifference(rows, c) = Cardinality(D[c])
        BY <1>6 DEF d
    <2> HIDE DEF C
    <2> QED
        BY <1>1, <1>6, <1>7, <2>1, DistanceIsSize
<1>9. \A A : Excess(baseline, current, category, A) \in Int
    <2> SUFFICES ASSUME NEW A
                 PROVE  Excess(baseline, current, category, A) \in Int
        OBVIOUS
    <2>1. Those(baseline, category, A) \in SUBSET baseline
          /\ Those(current, category, A) \in SUBSET current
        BY DEF Those
    <2>2. /\ Cardinality(Those(baseline, category, A)) \in Nat
          /\ Cardinality(Those(current, category, A)) \in Nat
        BY <1>2, <2>1, FS_Subset, FS_CardinalityType
    <2> QED
        BY <1>2, <2>2 DEF Excess
<1>10. n \in Nat
    BY <1>2
<1> HIDE DEF n, C
<1>11. AtMost(2 * k, 2 * n, bound) <=> \A e \in E : AtMost(e, n, bound)
    <2>1. /\ \E e \in E : e = k
          /\ \A e \in E : e \in Int /\ e <= k
        BY <1>7, <1>9
    <2> HIDE DEF E
    <2> QED
        BY <1>10, <2>1, BoundOfLargest
<1>12. AtMost(2 * k, 2 * n, bound) <=> DistributionIsStable(table, a, bound)
    BY <1>4, <1>11
<1> HIDE DEF E
<1>13. /\ CountIn(rows, "baseline", CategoriesOf(rows)) = Cardinality(baseline)
       /\ CountIn(rows, "current", CategoriesOf(rows)) = Cardinality(current)
    BY <1>1, <1>3
<1>14. 2 * Cardinality(baseline) * Cardinality(current) = 2 * n
    BY <1>2 DEF n
<1> QED
    BY <1>8, <1>12, <1>13, <1>14 DEF rows

LEMMA BoundsAreRates ==
    ASSUME NEW threshold, threshold[1] \in Nat, threshold[2] \in Nat,
           NEW bound \in Bounds(threshold)
    PROVE  bound[1] \in Nat /\ bound[2] \in Nat
<1> DEFINE p == threshold[1]
           q == threshold[2]
<1>1. p \in Nat /\ q \in Nat /\ p * Precision \in Nat /\ q * Precision \in Nat
    BY PrecisionAssumption
<1>2. CASE bound = Raised(threshold)
    BY <1>1, <1>2 DEF Raised
<1>3. CASE bound = Lowered(threshold)
    <2>1. CASE p * Precision <= q
        BY <1>3, <2>1 DEF Lowered
    <2>2. CASE ~(p * Precision <= q)
        <3>1. bound = <<p * Precision - q, q * Precision>>
            BY <1>3, <2>2 DEF Lowered
        <3>2. bound[1] = p * Precision - q /\ bound[2] = q * Precision
            BY <3>1
        <3> QED
            BY <1>1, <2>2, <3>2
    <2> QED
        BY <2>1, <2>2
<1> QED
    BY <1>2, <1>3 DEF Bounds

(* Whatever rounding made of the sum, a distribution of two disjoint windows *)
(* that passes has no set of cells that is more frequent in one of them by   *)
(* more than the threshold plus 1/Precision, and one that fails has a set    *)
(* that is so by more than the threshold less 1/Precision, and more frequent *)
(* at all.  detect_distribution_drift.                                      *)
THEOREM DistributionVerdictsMeanIt ==
    ASSUME NEW table, NEW a, IsFiniteSet(DOMAIN table), TimesIn(table, a.time_column),
           {a.baseline_start, a.baseline_end, a.current_start, a.current_end} \subseteq Int,
           DisjointWindows(a), NullsToldApart(table, a.column),
           a.threshold[1] \in Nat, a.threshold[2] \in Nat,
           DistributionVerdicts(DistributionQuery(table, a), FALSE, a) # {"error"}
    PROVE  DistributionVerdicts(DistributionQuery(table, a), FALSE, a)
              = {IfPassed(DistributionIsStable(table, a, bound)) : bound \in Bounds(a.threshold)}
<1> DEFINE rows  == DistributionQuery(table, a)
           all   == CategoriesOf(rows)
           whole == 2 * CountIn(rows, "baseline", all) * CountIn(rows, "current", all)
<1>1. DistributionVerdicts(rows, FALSE, a)
         = {IfPassed(AtMost(Distance(rows), whole, bound)) : bound \in Bounds(a.threshold)}
    BY DEF DistributionVerdicts
<1>2. ASSUME NEW bound \in Bounds(a.threshold)
      PROVE  IfPassed(AtMost(Distance(rows), whole, bound))
                = IfPassed(DistributionIsStable(table, a, bound))
    <2>1. bound[1] \in Nat /\ bound[2] \in Nat
        BY BoundsAreRates
    <2>2. AtMost(Distance(rows), whole, bound) <=> DistributionIsStable(table, a, bound)
        BY <2>1, DistanceIsLargestExcess
    <2> QED
        BY <2>2 DEF IfPassed
<1> HIDE DEF rows, whole
<1>3. {IfPassed(AtMost(Distance(rows), whole, bound)) : bound \in Bounds(a.threshold)}
         = {IfPassed(DistributionIsStable(table, a, bound)) : bound \in Bounds(a.threshold)}
    BY <1>2
<1> QED
    BY <1>1, <1>3 DEF rows

(* What the distribution check says of two disjoint windows.               *)
LEMMA DistributionMeansIt ==
    ASSUME NEW s, WellFormedData(database), Accepted(s), Runnable(s),
           ComparesTimes(s, database), WellFormed(s), s.tool = "detect_distribution_drift",
           DisjointWindows(s.arguments),
           NullsToldApart(database.tables[s.arguments.table], s.arguments.column),
           NEW o \in Outcomes(s), Verdicts(s, Succeeded(o)) # {"error"}
    PROVE  Verdicts(s, Succeeded(o)) = Promised(s)
<1> DEFINE a     == Arguments(s)
           table == database.tables[a.table]
           windowed == {i \in DOMAIN table : \/ InBaseline(table[i][a.time_column], a)
                                             \/ InCurrent(table[i][a.time_column], a)}
<1>1. /\ a.table \in DOMAIN database.tables
      /\ {a.baseline_start, a.baseline_end, a.current_start, a.current_end} \subseteq Int
      /\ TimesIn(table, a.time_column)
    <2>1. a.table = s.arguments.table
        BY DEF Accepted, KeepsContract, Contracts, Arguments
    <2>2. s.arguments.table \in DOMAIN database.tables
        BY DEF Runnable
    <2> QED
        BY <2>1, <2>2 DEF ComparesTimes
<1>2. IsFiniteSet(DOMAIN table)
    <2>1. Len(table) \in Nat /\ DOMAIN table = 1 .. Len(table)
        BY <1>1 DEF WellFormedData
    <2> HIDE DEF table
    <2> QED
        BY <2>1, TableFacts
<1>3. DisjointWindows(a) /\ NullsToldApart(table, a.column)
    <2>1. /\ a.baseline_start = s.arguments.baseline_start
          /\ a.baseline_end = s.arguments.baseline_end
          /\ a.current_start = s.arguments.current_start
          /\ a.current_end = s.arguments.current_end
          /\ a.table = s.arguments.table /\ a.column = s.arguments.column
        BY DEF Accepted, KeepsContract, Contracts, Arguments
    <2> HIDE DEF a
    <2> QED
        BY <2>1 DEF DisjointWindows
<1>4. a.threshold[1] \in Nat /\ a.threshold[2] \in Nat
    <2>1. CASE "threshold" \in DOMAIN s.arguments
        <3>1. a.threshold = s.arguments.threshold
            BY <2>1 DEF Arguments
        <3>2. IsRate(s.arguments.threshold) /\ s.arguments.threshold \in Int \X Int
            BY <2>1 DEF Accepted, KeepsContract, ValuesAllowed, WellFormed
        <3> HIDE DEF a
        <3> QED
            BY <3>1, <3>2 DEF IsRate
    <2>2. CASE "threshold" \notin DOMAIN s.arguments
        <3>1. a.threshold = <<1, 10>>
            BY <2>2 DEF Arguments, Contracts, Defaults
        <3> QED
            BY <3>1
    <2> QED
        BY <2>1, <2>2
<1>5. Verdicts(s, Succeeded(o)) = DistributionVerdicts(o.rows, o.truncated, a)
    BY DEF Verdicts, Succeeded
<1>6. Promised(s) =
         {IfPassed(DistributionIsStable(table, a, bound)) : bound \in Bounds(a.threshold)}
    BY DEF Promised
<1>7. CompleteAnswer(s) = DistributionQuery(table, a)
    BY DEF CompleteAnswer
<1>8. /\ ~o.truncated
      /\ DistributionVerdicts(o.rows, o.truncated, a) = DistributionVerdicts(o.rows, FALSE, a)
    <2>1. ~o.truncated
        BY <1>5 DEF DistributionVerdicts
    <2> QED
        BY <2>1, Zenon DEF DistributionVerdicts
<1>9. IsFiniteSet(DistributionQuery(table, a))
    <2> DEFINE size == [i \in windowed |->
                          <<<<WindowOf(table[i], a), Category(table[i][a.column])>>,
                            Cardinality({j \in windowed :
                               <<WindowOf(table[j], a), Category(table[j][a.column])>>
                                 = <<WindowOf(table[i], a), Category(table[i][a.column])>>})>>]
    <2>1. IsFiniteSet(windowed)
        <3>1. windowed \in SUBSET DOMAIN table
            OBVIOUS
        <3> HIDE DEF windowed, table
        <3> QED
            BY <1>2, <3>1, FS_Subset
    <2>2. DistributionQuery(table, a) = {size[i] : i \in windowed}
        BY DEF DistributionQuery
    <2> HIDE DEF windowed, table, a
    <2>3. size \in Surjection(windowed, {size[i] : i \in windowed})
        BY DEF Surjection
    <2> HIDE DEF size
    <2> QED
        BY <2>1, <2>2, <2>3, FS_Surjection
<1> HIDE DEF table, a, windowed
<1>10. RowLimit(s) \in Nat
    BY ToolCallAssumption DEF RowLimit
<1>11. o.rows = DistributionQuery(table, a)
    BY <1>7, <1>8, <1>9, <1>10, WithinTheLimit
<1>12. DistributionVerdicts(DistributionQuery(table, a), FALSE, a) # {"error"}
    BY <1>5, <1>8, <1>11
<1> QED
    BY <1>1, <1>2, <1>3, <1>4, <1>5, <1>6, <1>8, <1>11, <1>12,
       DistributionVerdictsMeanIt

-----------------------------------------------------------------------------
LEMMA JudgedMatches ==
    ASSUME IInv, NEW c \in Callers, pc[c] = "answered", answer[c].success,
           step[c].tool # "sql_query",
           step[c].tool = "detect_distribution_drift" =>
              /\ DisjointWindows(step[c].arguments)
              /\ NullsToldApart(database.tables[step[c].arguments.table],
                                step[c].arguments.column)
    PROVE  answer[c].verdict \in Promised(step[c])
<1>1. Accepted(step[c]) /\ Runnable(step[c]) /\ answer[c].verdict # "error"
    BY DEF IInv, CallInv, Judged, Selected
<1>2. PICK o \in Outcomes(step[c]) : answer[c].verdict \in Verdicts(step[c], Succeeded(o))
    BY DEF IInv, CallInv, Judged
<1>3. WellFormedData(database) /\ ComparesTimes(step[c], database) /\ WellFormed(step[c])
    BY DEF IInv, CallInv, Checked, Types, Fits
<1>4. step[c].tool \in {"check_null_rate", "check_duplicate_rate", "check_freshness",
                        "detect_schema_drift", "detect_distribution_drift"}
    BY <1>1 DEF Accepted, KeepsContract, Contracts
<1>5. CASE step[c].tool = "detect_distribution_drift"
    BY <1>1, <1>2, <1>3, <1>5, DistributionMeansIt
<1>6. CASE step[c].tool # "detect_distribution_drift"
    BY <1>1, <1>2, <1>3, <1>4, <1>6,
       NullRateMeansIt, DuplicatesMeanIt, FreshnessMeansIt, SchemaMeansIt
<1> QED
    BY <1>5, <1>6

(* A check that is answered with success, whatever raced with it, tells     *)
(* what its document promises of the table: NULLs of the scope count, a     *)
(* duplicate is a row beyond the first of its keys, nothing of the future   *)
(* is fresh, the two newest snapshots are compared, and a distribution is   *)
(* judged by the most that any set of categories is more frequent in one of *)
(* two disjoint windows than in the other: it passed if that is at most the *)
(* threshold and failed if it is more, but either is possible within        *)
(* 1/Precision of the threshold.  check_null_rate, check_duplicate_rate,    *)
(* check_freshness, detect_schema_drift, detect_distribution_drift.         *)
THEOREM VerdictsMatchData == Spec => []VerdictMatchesData
<1>1. IInv => VerdictMatchesData
    BY JudgedMatches DEF VerdictMatchesData
<1> QED
    BY InitInv, NextInv, <1>1, PTL DEF Spec
=============================================================================
