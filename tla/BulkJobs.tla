------------------------------ MODULE BulkJobs ------------------------------
(***************************************************************************)
(* Bulk registration and update (rmneo/nodeadmin, rmneo/handlers/          *)
(* nodeadmin, utils/parallel): an administrator's request writes a job row *)
(* and starts a container, which loads a CSV, hands its rows to a pool of  *)
(* workers and reports at the end.  The rows that failed are written as a  *)
(* CSV to submit again (NodeRegistry has the parts of a registration).     *)
(***************************************************************************)
EXTENDS Integers, FiniteSets

CONSTANTS
    CsvRow, NodeName, NoName,
    Worker,             \* the pool's goroutines
    LabelsMatch,        \* the node_id column is the certificate's common name
    JobCallsMayFail

ASSUME BulkConstants ==
    /\ IsFiniteSet(CsvRow) /\ "none" \notin CsvRow
    /\ NoName \notin NodeName

VARIABLES
    csv,                \* [CsvRow -> its node_id column and common name]
    jobType, jobStatus,
    rowsLeft,           \* rows not handed out: the work channel
    worker,             \* [Worker -> the row it has, and the counts it saw]
    outcome,            \* [CsvRow -> what became of it]
    known,              \* nodes in the registry
    successCount, failureCount,
    failedNodes,        \* the ids reported as failed
    failedFile          \* rows of the failed-nodes CSV

bulkVars == <<csv, jobType, jobStatus, rowsLeft, worker, outcome, known,
              successCount, failureCount, failedNodes, failedFile>>

\* NoName: no such column, or a certificate that does not parse.
Label == NodeName \union {NoName}
NoWork == [row |-> "none", saw |-> 0]

BulkInit ==
    /\ csv \in [CsvRow -> [label : Label, cn : Label]]
    /\ LabelsMatch => \A r \in CsvRow : csv[r].cn \in {NoName, csv[r].label}
    /\ jobType \in {"register", "update"}
    /\ known \in SUBSET NodeName
    /\ jobStatus = "none"
    /\ rowsLeft = {}
    /\ worker = [w \in Worker |-> NoWork]
    /\ outcome = [r \in CsvRow |-> "none"]
    /\ successCount = 0 /\ failureCount = 0
    /\ failedNodes = {}
    /\ failedFile = {}

jobRow == <<jobStatus, failedFile>>
counts == <<successCount, failureCount, failedNodes>>

\* The row is written before the task is started: when that fails it stays.
Launch ==
    /\ jobStatus = "none"
    /\ jobStatus' = "requested"
    /\ UNCHANGED <<csv, jobType, rowsLeft, worker, outcome, known, counts, failedFile>>

StartContainer ==
    /\ jobStatus = "requested"
    /\ jobStatus' = "started"
    /\ UNCHANGED <<csv, jobType, rowsLeft, worker, outcome, known, counts, failedFile>>

LoadRows ==
    /\ jobStatus = "started"
    /\ jobStatus' = "data_loaded"
    /\ rowsLeft' = CsvRow
    /\ UNCHANGED <<csv, jobType, worker, outcome, known, counts, failedFile>>

\* The container stops: no status says so.
ContainerStops ==
    /\ JobCallsMayFail
    /\ jobStatus \in {"requested", "started", "data_loaded"}
    /\ jobStatus' = "abandoned"
    /\ rowsLeft' = {}
    /\ worker' = [w \in Worker |-> NoWork]
    /\ UNCHANGED <<csv, jobType, outcome, known, counts, failedFile>>

---------------------------------------------------------------------------
(* ProcessParallel, ProcessNodeRow *)

TakeRow(w, r) ==
    /\ jobStatus = "data_loaded"
    /\ worker[w].row = "none"
    /\ rowsLeft' = rowsLeft \ {r}
    /\ worker' = [worker EXCEPT ![w] = [row |-> r, saw |-> successCount]]
    /\ UNCHANGED <<csv, jobType, jobRow, outcome, known, counts>>

\* A registration goes by the certificate, an update by the column.
Target(r) == IF jobType = "register" THEN csv[r].cn ELSE csv[r].label
RowWorks(r) ==
    /\ Target(r) # NoName
    /\ jobType = "register" <=> Target(r) \notin known

ProcessNodeRow(w, ok) ==
    LET r == worker[w].row IN
    /\ r \in CsvRow
    /\ outcome[r] = "none"
    /\ ok => RowWorks(r)
    /\ ok \/ ~RowWorks(r) \/ JobCallsMayFail
    /\ outcome' = [outcome EXCEPT ![r] = IF ok THEN "ok" ELSE "failed"]
    /\ known' = IF ok THEN known \union {Target(r)} ELSE known
    /\ UNCHANGED <<csv, jobType, jobRow, rowsLeft, worker, counts>>

\* The id a failure is reported under.
ReportedID(r) ==
    IF jobType = "register" /\ csv[r].cn # NoName THEN csv[r].cn ELSE csv[r].label

\* Mutant: the count is raised without the mutex.
RecordUnlocked(w) ==
    LET r == worker[w].row IN
    /\ r \in CsvRow
    /\ outcome[r] # "none"
    /\ IF outcome[r] = "ok"
       THEN successCount' = worker[w].saw + 1 /\ UNCHANGED <<failureCount, failedNodes>>
       ELSE /\ failureCount' = failureCount + 1
            /\ failedNodes' = failedNodes \union {ReportedID(r)}
            /\ UNCHANGED successCount
    /\ worker' = [worker EXCEPT ![w] = NoWork]
    /\ UNCHANGED <<csv, jobType, jobRow, rowsLeft, outcome, known>>

\* recordRowOutcome, under the mutex.
RecordRowOutcome(w) ==
    LET r == worker[w].row IN
    /\ r \in CsvRow
    /\ outcome[r] # "none"
    /\ IF outcome[r] = "ok"
       THEN successCount' = successCount + 1 /\ UNCHANGED <<failureCount, failedNodes>>
       ELSE /\ failureCount' = failureCount + 1
            /\ failedNodes' = failedNodes \union {ReportedID(r)}
            /\ UNCHANGED successCount
    /\ worker' = [worker EXCEPT ![w] = NoWork]
    /\ UNCHANGED <<csv, jobType, jobRow, rowsLeft, outcome, known>>

\* writeFailedNodesCSV: the rows whose column is among the reported ids.
InFailedFile(r) == csv[r].label \in failedNodes

\* The workers are waited for; a failed write leaves the file out.
Complete ==
    /\ jobStatus = "data_loaded"
    /\ rowsLeft = {}
    /\ \A w \in Worker : worker[w].row = "none"
    /\ jobStatus' = "completed"
    /\ failedFile' \in {{r \in CsvRow : InFailedFile(r)}}
                         \union (IF JobCallsMayFail THEN {{}} ELSE {})
    /\ UNCHANGED <<csv, jobType, rowsLeft, worker, outcome, known, counts>>

BulkNext ==
    \/ Launch \/ StartContainer \/ LoadRows \/ ContainerStops \/ Complete
    \/ \E w \in Worker :
          \/ \E r \in rowsLeft : TakeRow(w, r)
          \/ \E ok \in BOOLEAN : ProcessNodeRow(w, ok)
          \/ RecordRowOutcome(w)

BulkSpec == BulkInit /\ [][BulkNext]_bulkVars

---------------------------------------------------------------------------
(* Properties *)

\* Every variable has its type.
BulkTypeOK ==
    /\ csv \in [CsvRow -> [label : Label, cn : Label]]
    /\ jobType \in {"register", "update"}
    /\ jobStatus \in {"none", "requested", "started", "data_loaded", "completed", "abandoned"}
    /\ rowsLeft \subseteq CsvRow
    /\ worker \in [Worker -> [row : CsvRow \union {"none"}, saw : 0..Cardinality(CsvRow)]]
    /\ outcome \in [CsvRow -> {"none", "ok", "failed"}]
    /\ known \subseteq NodeName
    /\ successCount \in 0..Cardinality(CsvRow) /\ failureCount \in 0..Cardinality(CsvRow)
    /\ failedNodes \subseteq Label
    /\ failedFile \subseteq CsvRow

\* When a job completes every row was counted once, whatever the workers' order.
CountsAddUp ==
    jobStatus = "completed" =>
       /\ successCount = Cardinality({r \in CsvRow : outcome[r] = "ok"})
       /\ failureCount = Cardinality({r \in CsvRow : outcome[r] = "failed"})
       /\ successCount + failureCount = Cardinality(CsvRow)

=============================================================================
