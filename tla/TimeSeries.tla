----------------------------- MODULE TimeSeries -----------------------------
(***************************************************************************)
(* A node's readings (rmneo/service/timeseries, rmneo/handlers/timeseries, *)
(* rmneo/db/{timeseries_db,processed_ts_db}): messages with points are     *)
(* put, point by point, in the raw table; the table's stream hands every   *)
(* inserted row to the aggregation, in batches that are tried again whole  *)
(* when one record fails; a reading is folded into the current row's       *)
(* window of every kind, and a window that is left is archived.            *)
(***************************************************************************)
EXTENDS Integers, Sequences, FiniteSets, FiniteSetsExt

CONSTANTS
    Series,                 \* parameters of a node
    LastTick, MaxReading,   \* bounds: the clock of a device, its values
    MaxPoints,              \* bound: readings of all series together
    BatchSize, RetryAttempts,
    InOrder,                \* does a device's message wait for the one before?
    MessagesRepeat,         \* is a message delivered again?
    AggregationMayFail      \* may a call of the aggregation fail?

ASSUME SeriesConstants ==
    /\ LastTick \in Nat /\ MaxReading \in Nat
    /\ BatchSize \in Nat \ {0} /\ RetryAttempts \in Nat

Tick == 1 .. LastTick
Point == [series : Series, ts : Tick, value : 1 .. MaxReading]

\* Two of the four kinds of windows: an hour is two ticks, a day is four.
Kind == {"hourly", "daily"}
WindowOf(kind, t) == IF kind = "hourly" THEN t \div 2 ELSE t \div 4
Window == 0 .. LastTick
NoAggregate == [window |-> 0, count |-> 0, sum |-> 0, first |-> 0, last |-> 0]

VARIABLES
    kindOf,                 \* what a series is: numbers, cumulative, strings
    message,                \* points of messages not yet stored
    raw,                    \* the raw table: points, one for a series and tick
    stream,                 \* rows inserted and not yet done with, in order
    batch,                  \* the batch under way: records, next, tries
    current,                \* [Series -> [Kind -> the window being filled]]
    archived,               \* [Series -> [Kind -> [Window -> aggregate]]]
    failed                  \* history: a batch had to be tried again

tsVars == <<kindOf, message, raw, stream, batch, current, archived, failed>>

SeriesInit ==
    /\ kindOf \in [Series -> {"gauge", "meter", "text"}]
    /\ message = {} /\ raw = {}
    /\ stream = <<>>
    /\ batch = [size |-> 0, next |-> 1, tries |-> 0]
    /\ current = [s \in Series |-> [k \in Kind |-> NoAggregate]]
    /\ archived = [s \in Series |-> [k \in Kind |-> [w \in Window |-> NoAggregate]]]
    /\ failed = FALSE

---------------------------------------------------------------------------
(* Ingestion: TimeseriesService.Put, PutTimeseriesDataBatch *)

Newer(p) == \A q \in raw \union message : q.series = p.series => q.ts < p.ts

\* A node sends points, of which no two are of one series and tick.  What a
\* string says does not matter.
Publish(points) ==
    /\ Cardinality(raw) + Cardinality(message) + Cardinality(points) <= MaxPoints
    /\ InOrder => message = {} /\ \A p \in points : Newer(p)
    /\ \A p \in points : kindOf[p.series] = "text" => p.value = 1
    /\ \A p \in points, q \in points \union raw \union message :
          <<p.series, p.ts>> = <<q.series, q.ts>> => p = q
    /\ message' = message \union points
    /\ UNCHANGED <<kindOf, raw, stream, batch, current, archived, failed>>

Stored(p) == \E q \in raw : <<q.series, q.ts>> = <<p.series, p.ts>>
Earliest(p) == \A q \in message : p.ts <= q.ts

\* Mutant: the stream carries rows written again.
PutAndStream(p) ==
    /\ p \in message
    /\ InOrder => Earliest(p)
    /\ raw' = raw \union {p}
    /\ stream' = Append(stream, p)
    /\ message' \in {message \ {p}} \union (IF MessagesRepeat THEN {message} ELSE {})
    /\ UNCHANGED <<kindOf, batch, current, archived, failed>>

\* The points are sorted and written in chunks; a message one of whose chunks
\* failed is delivered again, with the points that were stored.  Only an
\* INSERT is streamed: a row written again with its key is not.
PutPoint(p) ==
    /\ p \in message
    /\ InOrder => Earliest(p)
    /\ raw' = raw \union {p}
    /\ stream' = IF Stored(p) THEN stream ELSE Append(stream, p)
    /\ message' \in {message \ {p}} \union (IF MessagesRepeat THEN {message} ELSE {})
    /\ UNCHANGED <<kindOf, batch, current, archived, failed>>

---------------------------------------------------------------------------
(* ProcessTimeseriesEntry *)

\* UpdateStats.  The first reading of a meter is the baseline of the next.
UpdateStats(agg, w, p) ==
    LET delta == IF p.value < agg.last THEN p.value ELSE p.value - agg.last
    IN IF agg.count = 0 /\ (agg.first = 0 \/ kindOf[p.series] # "meter")
       THEN [window |-> w, first |-> p.value, last |-> p.value,
             count |-> IF kindOf[p.series] = "meter" THEN 0 ELSE 1,
             sum |-> IF kindOf[p.series] = "meter" THEN 0 ELSE p.value]
       ELSE [agg EXCEPT !.count = @ + 1, !.last = p.value,
                        !.sum = @ + IF kindOf[p.series] = "meter" THEN delta ELSE p.value]

Left(agg, w) == agg.count # 0 /\ agg.window # w

\* Mutant: a meter's new window begins without a baseline.
ResetToZero(agg, w, p) == [NoAggregate EXCEPT !.window = w]

\* Reset: the last reading of a meter is the baseline of its new window.
Reset(agg, w, p) ==
    IF kindOf[p.series] = "meter"
    THEN [NoAggregate EXCEPT !.window = w, !.first = agg.last, !.last = agg.last]
    ELSE [NoAggregate EXCEPT !.window = w]

\* checkAndCreateWindowEntry, then UpdateAggregatesForWindow.
Folded(agg, w, p) ==
    UpdateStats(IF Left(agg, w) THEN Reset(agg, w, p) ELSE [agg EXCEPT !.window = w], w, p)

\* The record of the batch that is next.
Reading == stream[batch.next]
Processing == batch.size > 0 /\ batch.next <= batch.size
Archived(p, kinds) ==
    [k \in Kind |->
        LET agg == current[p.series][k]
        IN IF k \in kinds /\ Left(agg, WindowOf(k, p.ts))
           THEN [archived[p.series][k] EXCEPT ![agg.window] = agg]
           ELSE archived[p.series][k]]

\* The windows that are left are put, whatever is there; then the current row.
ProcessTimeseriesEntry ==
    LET p == Reading IN
    /\ Processing
    /\ kindOf[p.series] # "text"
    /\ archived' = [archived EXCEPT ![p.series] = Archived(p, Kind)]
    /\ current' = [current EXCEPT ![p.series] =
                      [k \in Kind |-> Folded(@[k], WindowOf(k, p.ts), p)]]
    /\ batch' = [batch EXCEPT !.next = @ + 1]
    /\ UNCHANGED <<kindOf, message, raw, stream, failed>>

---------------------------------------------------------------------------
(* ProcessRecords and the stream that calls it *)

TakeBatch(n) ==
    /\ batch.size = 0
    /\ n \in 1 .. BatchSize /\ n <= Len(stream)
    /\ batch' = [size |-> n, next |-> 1, tries |-> 0]
    /\ UNCHANGED <<kindOf, message, raw, stream, current, archived, failed>>

FinishBatch ==
    /\ stream' = SubSeq(stream, batch.size + 1, Len(stream))
    /\ batch' = [size |-> 0, next |-> 1, tries |-> 0]

BatchDone ==
    /\ batch.size > 0 /\ batch.next > batch.size
    /\ FinishBatch
    /\ UNCHANGED <<kindOf, message, raw, current, archived, failed>>

\* The stream hands the whole batch over again, or gives it up.
Retried(p) ==
    IF batch.tries = RetryAttempts THEN FinishBatch
    ELSE /\ batch' = [batch EXCEPT !.next = 1, !.tries = @ + 1]
         /\ UNCHANGED stream

\* A string is not a number, or a call fails after some windows were archived.
RecordFails(kinds) ==
    /\ Processing
    /\ kindOf[Reading.series] = "text" \/ AggregationMayFail
    /\ kindOf[Reading.series] = "text" => kinds = {}
    /\ archived' = [archived EXCEPT ![Reading.series] = Archived(Reading, kinds)]
    /\ Retried(Reading)
    /\ failed' = TRUE
    /\ UNCHANGED <<kindOf, message, raw, current>>

SeriesNext ==
    \/ \E p, q \in Point : Publish({p, q})
    \/ \E p \in message : PutPoint(p)
    \/ \E n \in 1 .. BatchSize : TakeBatch(n)
    \/ ProcessTimeseriesEntry
    \/ \E kinds \in {{}, {"hourly"}, Kind} : RecordFails(kinds)
    \/ BatchDone

SeriesSpec == SeriesInit /\ [][SeriesNext]_tsVars

---------------------------------------------------------------------------
(* Properties *)

\* Every variable has its type, and the batch is a prefix of the stream.
SeriesTypeOK ==
    /\ kindOf \in [Series -> {"gauge", "meter", "text"}]
    /\ message \subseteq Point /\ raw \subseteq Point
    /\ \A i \in DOMAIN stream : stream[i] \in raw
    /\ batch.size \in 0 .. Len(stream) /\ batch.next \in 1 .. batch.size + 1
    /\ batch.tries \in 0 .. RetryAttempts
    /\ failed \in BOOLEAN

Rows(s) == {p \in raw : p.series = s}
\* What is known of window w: it is being filled, or was archived.
Known(s, k, w) == IF current[s][k].count > 0 /\ current[s][k].window = w
                  THEN current[s][k] ELSE archived[s][k][w]
Total(s, k, Field(_)) == MapThenSumSet(LAMBDA w : Field(Known(s, k, w)), Window)
Before(p) == {q \in Rows(p.series) : q.ts < p.ts}
Consumption(p) ==
    IF Before(p) = {} THEN 0
    ELSE LET q == CHOOSE q \in Before(p) : \A o \in Before(p) : o.ts <= q.ts
         IN IF p.value < q.value THEN p.value ELSE p.value - q.value

\* Once the stream is drained, the windows of every kind together count each
\* reading of a gauge once and sum the readings, however its messages were
\* delivered again; when readings come in order and no batch was retried.
ReadingsCountOnce ==
    stream = <<>> /\ ~failed =>
        \A s \in Series, k \in Kind : kindOf[s] = "gauge" =>
            /\ Total(s, k, LAMBDA a : a.count) = Cardinality(Rows(s))
            /\ Total(s, k, LAMBDA a : a.sum) = MapThenSumSet(LAMBDA p : p.value, Rows(s))

\* Once the stream is drained, the windows of every kind together hold the
\* consumption between the first reading of a meter and the last, across
\* window boundaries and resets of the meter.
ConsumptionAddsUp ==
    stream = <<>> /\ ~failed =>
        \A s \in Series, k \in Kind : kindOf[s] = "meter" =>
            Total(s, k, LAMBDA a : a.sum) = MapThenSumSet(Consumption, Rows(s))

=============================================================================
