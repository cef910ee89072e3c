---------------------------- MODULE TableAccess ----------------------------
(***************************************************************************)
(* The table layer everything is stored with (awsutils/dynamodbutil): a    *)
(* page gathered over as many calls of the service as it takes, with or    *)
(* without a filter, and the walk that follows the pages' tokens; a batch  *)
(* of puts, without repeated keys, in chunks some of whose items the       *)
(* service leaves undone; all rows of a query deleted page by page.  Other *)
(* writers put and delete rows meanwhile.  One partition, one job.         *)
(***************************************************************************)
EXTENDS Integers, Sequences, FiniteSets

CONSTANTS
    LastKey,            \* bound: sort keys are 1 .. LastKey
    ChunkSize,          \* items in one batch call
    MaxAttempts,        \* calls for one chunk
    MaxBatch,           \* bound: items in a batch
    MaxWrites           \* bound: writes of others

ASSUME TableConstants ==
    /\ LastKey \in Nat /\ ChunkSize \in Nat \ {0} /\ MaxAttempts \in Nat \ {0}
    /\ MaxBatch \in Nat /\ MaxWrites \in Nat

RowKey == 1 .. LastKey
\* What is in a row: nothing, or an item the filter drops or keeps, or one of
\* the batch.
Absent == 0
Filtered == {2, 3}
RowValue == 1 .. 3
WriteOp == {"create", "put", "update", "upsert", "delete", "delete_allow_missing"}

VARIABLES
    rows,               \* [RowKey -> Absent or a value]
    writes,             \* writes of others so far
    steady,             \* history: keys no other writer touched since the start
    task,               \* the job: "walk", "put" or "delete"
    result,             \* how it ended
    walk,               \* the page being gathered and the pages before it
    items,              \* the batch, as it was given
    chunks,             \* items not yet done, by chunk
    attempts            \* calls made, by chunk

tableVars == <<rows, writes, steady, task, result, walk, items, chunks, attempts>>

\* Query and QueryEach have no limit of items when it is 0.
FirstPage(filtered, limit) ==
    [filtered |-> filtered, limit |-> limit, start |-> 0, page |-> <<>>, got |-> <<>>]

\* The elements of a set in ascending order: the set of the one sequence.
Ascending(S) ==
    {seq \in [1 .. Cardinality(S) -> S] :
        /\ \A i, j \in DOMAIN seq : i < j => seq[i] < seq[j]
        /\ \A x \in S : \E i \in DOMAIN seq : seq[i] = x}

IsFirst(batch, i) == \A j \in 1 .. i - 1 : batch[j][1] # batch[i][1]
IsLast(batch, i) == \A j \in i + 1 .. Len(batch) : batch[j][1] # batch[i][1]

\* dedupeByKey: a key keeps its first place and gets its last value.
LastOf(batch, key) ==
    batch[CHOOSE i \in DOMAIN batch : batch[i][1] = key /\ IsLast(batch, i)]
DedupeByKey(batch) ==
    {[n \in DOMAIN firsts |-> LastOf(batch, batch[firsts[n]][1])] :
        firsts \in Ascending({i \in DOMAIN batch : IsFirst(batch, i)})}

\* slices.Chunk
ChunksOf(batch) ==
    [c \in 1 .. (Len(batch) + ChunkSize - 1) \div ChunkSize |->
        {batch[i] : i \in {j \in DOMAIN batch :
                              (c - 1) * ChunkSize < j /\ j <= c * ChunkSize}}]

TableInit ==
    /\ rows \in [RowKey -> {Absent, 1, 2}]
    /\ writes = 0
    /\ steady = RowKey
    /\ task \in {"walk", "put", "delete"}
    /\ result = "running"
    /\ walk \in {FirstPage(f, n) : f \in BOOLEAN, n \in 0 .. 2}
    /\ items \in UNION {[1 .. n -> RowKey \X {2, 3}] : n \in 0 .. MaxBatch}
    /\ task # "put" => items = <<>>
    /\ task # "walk" => walk = FirstPage(FALSE, 0)
    /\ task = "put" => \A k \in RowKey : rows[k] = Absent
    /\ chunks \in IF task = "put" THEN {ChunksOf(batch) : batch \in DedupeByKey(items)}
                 ELSE {<<>>}
    /\ attempts = [c \in DOMAIN chunks |-> 0]

\* Create wants no row and Update and Delete one; the others take any.
ConditionHolds(op, k) ==
    CASE op = "create" -> rows[k] = Absent
      [] op \in {"update", "delete"} -> rows[k] # Absent
      [] OTHER -> TRUE

\* Another writer; once the job is over it does not matter.
OtherWrites(op, k, v) ==
    /\ result = "running"
    /\ writes < MaxWrites
    /\ ConditionHolds(op, k)
    /\ op \in {"delete", "delete_allow_missing"} <=> v = Absent
    /\ writes' = writes + 1
    /\ rows' = [rows EXCEPT ![k] = v]
    /\ steady' = steady \ {k}
    /\ UNCHANGED <<task, result, walk, items, chunks, attempts>>

---------------------------------------------------------------------------
(* readPage *)

Present == {k \in RowKey : rows[k] # Absent}
After(start) == {k \in Present : k > start}

\* What one call evaluates: some of the rows behind start, in order, at most
\* as many as its limit.
Evaluated(start, limit) ==
    {e \in {{k \in After(start) : k <= m} : m \in RowKey} :
        /\ e = {} => After(start) = {}
        /\ limit > 0 => Cardinality(e) <= limit}

\* The service's own bookmark: where it stopped, unless it saw the end.
Stopped(e) == {k \in e : \A l \in e : l <= k}
LastEvaluatedKeys(e, start, limit) ==
    IF e # After(start) THEN Stopped(e)
    ELSE {0} \union (IF Cardinality(e) = limit THEN Stopped(e) ELSE {})

\* Mutant: the page goes on where the service stopped.
ResumeAtService(sorted, n, next) == next
\* When more than fits came back, the next page starts after the last returned.
ResumeAfter(sorted, n, next) == IF n > 0 /\ Len(sorted) > n THEN sorted[n] ELSE next

\* What readPage does with the rows a call found and its bookmark.
AddToPage(found, next) ==
    LET remaining == walk.limit - Len(walk.page)
        taken == IF walk.limit > 0 /\ Len(found) > remaining
                 THEN SubSeq(found, 1, remaining) ELSE found
        resume == IF walk.limit > 0 THEN ResumeAfter(found, remaining, next) ELSE next
    IN IF resume = 0
       THEN /\ result' = "ok"
            /\ walk' = [walk EXCEPT !.got = @ \o walk.page \o taken, !.page = <<>>]
       ELSE /\ UNCHANGED result
            /\ walk' = [walk EXCEPT !.page = @ \o taken, !.start = resume]

\* With a filter the call has no limit.
CallLimit ==
    IF walk.limit > 0 /\ ~walk.filtered THEN walk.limit - Len(walk.page) ELSE 0

Wanted(k) == walk.filtered => rows[k] \in Filtered

\* One call of readPage's loop.
FetchPage(e, next) ==
    /\ next \in LastEvaluatedKeys(e, walk.start, CallLimit)
    /\ \E found \in Ascending({k \in e : Wanted(k)}) : AddToPage(found, next)

\* The page is full: its token is the walk's next start.
PageFull == walk.limit > 0 /\ Len(walk.page) = walk.limit

ReadPage ==
    /\ task = "walk" /\ result = "running"
    /\ ~PageFull
    /\ \E e \in Evaluated(walk.start, CallLimit), next \in {0} \union RowKey :
          FetchPage(e, next)
    /\ UNCHANGED <<rows, writes, steady, task, items, chunks, attempts>>

\* The caller comes back with the token.
NextPage ==
    /\ task = "walk" /\ result = "running"
    /\ PageFull
    /\ walk' = [walk EXCEPT !.got = @ \o walk.page, !.page = <<>>]
    /\ UNCHANGED <<rows, writes, steady, task, result, items, chunks, attempts>>

---------------------------------------------------------------------------
(* writeAll, writeChunk *)

\* What a call did with part of a chunk: put its items, or delete its keys.
Applied(done) ==
    [k \in RowKey |->
        IF task = "delete" THEN IF <<k, Absent>> \in done THEN Absent ELSE rows[k]
        ELSE IF \E v \in RowValue : <<k, v>> \in done
             THEN CHOOSE v \in RowValue : <<k, v>> \in done ELSE rows[k]]

\* What the service left undone is asked for again, until the attempts are
\* spent; the error stops the chunks that have not begun.
Undone(c, done) ==
    LET left == chunks[c] \ done IN
    IF left # {} /\ attempts[c] + 1 = MaxAttempts
    THEN /\ result' = "unprocessed"
         /\ UNCHANGED chunks
    ELSE /\ chunks' = [chunks EXCEPT ![c] = left]
         /\ UNCHANGED result

WriteChunk(c, done) ==
    /\ task \in {"put", "delete"} /\ result = "running"
    /\ chunks[c] # {}
    /\ done \subseteq chunks[c]
    /\ rows' = Applied(done)
    /\ attempts' = [attempts EXCEPT ![c] = @ + 1]
    /\ Undone(c, done)
    /\ UNCHANGED <<writes, steady, task, walk, items>>

AllDone == \A c \in DOMAIN chunks : chunks[c] = {}

BatchEnds ==
    /\ task = "put" /\ result = "running"
    /\ AllDone
    /\ result' = "ok"
    /\ UNCHANGED <<rows, writes, steady, task, walk, items, chunks, attempts>>

---------------------------------------------------------------------------
(* QueryDelete *)

\* A page of keys is read; they are deleted before the next page is.
QueryDeletePage ==
    /\ task = "delete" /\ result = "running"
    /\ AllDone
    /\ \E e \in Evaluated(walk.start, 0) : \E next \in LastEvaluatedKeys(e, walk.start, 0) :
          /\ \E keys \in Ascending(e) :
                chunks' = ChunksOf([i \in DOMAIN keys |-> <<keys[i], Absent>>])
          /\ attempts' = [c \in DOMAIN chunks' |-> 0]
          /\ walk' = [walk EXCEPT !.start = IF next = 0 THEN LastKey + 1 ELSE next]
    /\ walk.start <= LastKey
    /\ UNCHANGED <<rows, writes, steady, task, result, items>>

DeleteEnds ==
    /\ task = "delete" /\ result = "running"
    /\ AllDone /\ walk.start > LastKey
    /\ result' = "ok"
    /\ UNCHANGED <<rows, writes, steady, task, walk, items, chunks, attempts>>

\* A call fails: the job reports it.
TableCallFails ==
    /\ result = "running"
    /\ result' = "error"
    /\ UNCHANGED <<rows, writes, steady, task, walk, items, chunks, attempts>>

TableNext ==
    \/ \E k \in RowKey, v \in {Absent, 1, 2}, op \in WriteOp : OtherWrites(op, k, v)
    \/ ReadPage \/ NextPage
    \/ \E c \in DOMAIN chunks : \E done \in SUBSET chunks[c] : WriteChunk(c, done)
    \/ BatchEnds \/ QueryDeletePage \/ DeleteEnds \/ TableCallFails

TableSpec == TableInit /\ [][TableNext]_tableVars

---------------------------------------------------------------------------
(* Properties *)

\* Every variable has its type.
TableTypeOK ==
    /\ rows \in [RowKey -> {Absent} \union RowValue]
    /\ writes \in 0 .. MaxWrites
    /\ steady \subseteq RowKey
    /\ result \in {"running", "ok", "unprocessed", "error"}
    /\ walk.start \in 0 .. LastKey + 1
    /\ \A c \in DOMAIN chunks : attempts[c] \in 0 .. MaxAttempts

\* A walk that ended well gave each item at most once, in order, and left out
\* none that was there all along and that it was to return.
WalkIsComplete ==
    task = "walk" /\ result = "ok" =>
        /\ \A i, j \in DOMAIN walk.got : i < j => walk.got[i] < walk.got[j]
        /\ \A k \in steady \intersect Present :
              Wanted(k) => \E i \in DOMAIN walk.got : walk.got[i] = k

\* A batch that ended well stored the last value given for each key, in
\* whatever order its chunks went and however often they were tried.
BatchStoresLast ==
    task = "put" /\ result = "ok" =>
        \A k \in steady : \A i \in DOMAIN items :
            items[i][1] = k /\ IsLast(items, i) => rows[k] = items[i][2]

\* A delete that ended well left none of the rows that were there.
DeleteLeavesNone ==
    task = "delete" /\ result = "ok" => \A k \in steady : rows[k] = Absent

\* What a caller is told was done is what was done, for the rows that nobody
\* else wrote meanwhile: pages, retries and chunks do not show.
AnswersHold == WalkIsComplete /\ BatchStoresLast /\ DeleteLeavesNone
=============================================================================
