---------------------------- MODULE SeriesQuery ----------------------------
(***************************************************************************)
(* Reading a node's time series (src/rmneo/service/timeseries): a client   *)
(* follows next_key through the raw points of a time range, or through the *)
(* archived windows of a range of dates, newest first, while readings and  *)
(* archived windows are still being added.  Time is counted in days: a     *)
(* point has one, a window starts on one.                                  *)
(***************************************************************************)
EXTENDS Integers, Sequences

CONSTANTS
    LastDay,        \* days are 1 .. LastDay; 0 is "no bound"
    WeekLength,     \* days of a weekly window; the first starts on day 1
    PageSizes,      \* page_size of a request
    MaxArrivals     \* bound: rows added while the client reads

ASSUME QueryConstants ==
    /\ LastDay \in Nat \ {0} /\ WeekLength \in Nat \ {0}
    /\ PageSizes \subseteq Nat \ {0} /\ MaxArrivals \in Nat

Day == 1 .. LastDay
Bound == 0 .. LastDay
Queried == {"raw", "daily", "weekly"}

VARIABLES
    what,       \* the rows asked for: a table and a window type
    seriesRows, \* the rows of the series, by sort key
    atStart,    \* history: the rows there were when the client began
    arrivals,   \* rows added since
    query,      \* the client's walk
    got         \* the rows it was given, in order

queryVars == <<what, seriesRows, atStart, arrivals, query, got>>

\* FormatWindowKey: the start of the window a day is in.
WindowKey(day) ==
    IF what = "weekly" THEN day - ((day - 1) % WeekLength) ELSE day

SortKeys == IF what = "weekly" THEN {WindowKey(d) : d \in Day} ELSE Day

QueryInit ==
    /\ what \in Queried
    /\ seriesRows \in SUBSET SortKeys
    /\ atStart = {} /\ arrivals = 0 /\ got = <<>>
    /\ query = [at |-> "idle", from |-> 0, to |-> 0, size |-> 1, token |-> 0]

----------------------------------------------------------------------------
(* The range of sort keys a page is read from: 0 stands for no bound.      *)

\* Mutant: the window that begins at the end of the range.
LastWindowAt(end) == WindowKey(end)
\* The range ends where the day after end_date begins: its last window is
\* the one of the instant before.
LastWindowBefore(end) == WindowKey(end - 1)

\* A raw token is a timestamp: the next page is strictly older than it.
OlderThan(token) == token - 1

RawTo(q) ==
    IF q.token > 0 /\ (q.to > 0 => OlderThan(q.token) < q.to) THEN OlderThan(q.token)
    ELSE q.to

Lowest(q) == IF what = "raw" \/ q.from = 0 THEN q.from ELSE WindowKey(q.from)
Highest(q) ==
    IF what = "raw" THEN RawTo(q)
    ELSE IF q.to = 0 THEN 0 ELSE LastWindowBefore(q.to + 1)
HasHighest(q) == q.to > 0 \/ (what = "raw" /\ q.token > 0)

\* An archived page starts after its token's key, by ExclusiveStartKey.
AfterToken(q, key) == (what # "raw" /\ q.token > 0) => key < q.token

Matches(q) ==
    {key \in seriesRows : /\ q.from > 0 => key >= Lowest(q)
                          /\ HasHighest(q) => key <= Highest(q)
                          /\ AfterToken(q, key)}

\* DynamoDB refuses a BETWEEN whose lower bound is above its upper bound.
Malformed(q) == q.from > 0 /\ HasHighest(q) /\ Lowest(q) > Highest(q)

\* A page is the newest of them, newest first, as many as it has room for.
Pages(q) ==
    {page \in UNION {[1 .. n -> Matches(q)] : n \in 0 .. q.size} :
        /\ \A i, j \in DOMAIN page : i < j => page[i] > page[j]
        /\ \A key \in Matches(q) :
              \/ \E i \in DOMAIN page : page[i] = key
              \/ Len(page) = q.size /\ \A i \in DOMAIN page : page[i] > key}

\* A token comes with every full page: DynamoDB says where it stopped, not
\* whether there is more.
NextToken(q, page) == IF Len(page) = q.size THEN page[q.size] ELSE 0

----------------------------------------------------------------------------
(* The client and the rows *)

\* start_date after the day that follows end_date: refused.  A raw range is
\* not looked at.
RejectsRange(from, to) == what # "raw" /\ from > 0 /\ to > 0 /\ from > to + 1

Ask(from, to, size) ==
    /\ query.at = "idle"
    /\ ~RejectsRange(from, to)
    /\ what = "raw" => from > 0
    /\ query' = [at |-> "asks", from |-> from, to |-> to, size |-> size, token |-> 0]
    /\ atStart' = seriesRows
    /\ UNCHANGED <<what, seriesRows, arrivals, got>>

ReadNextPage ==
    /\ query.at = "asks"
    /\ ~Malformed(query)
    /\ \E page \in Pages(query) :
          /\ got' = got \o page
          /\ query' = [query EXCEPT
                          !.token = NextToken(query, page),
                          !.at = IF NextToken(query, page) = 0 THEN "done" ELSE "asks"]
    /\ UNCHANGED <<what, seriesRows, atStart, arrivals>>

QueryFails ==
    /\ query.at = "asks"
    /\ Malformed(query)
    /\ query' = [query EXCEPT !.at = "failed"]
    /\ UNCHANGED <<what, seriesRows, atStart, arrivals, got>>

\* A reading is stored, a window archived: not always the newest.
Arrives(key) ==
    /\ query.at = "asks" /\ arrivals < MaxArrivals
    /\ key \notin seriesRows
    /\ seriesRows' = seriesRows \union {key}
    /\ arrivals' = arrivals + 1
    /\ UNCHANGED <<what, atStart, query, got>>

QueryNext ==
    \/ \E from \in Bound, to \in Bound, size \in PageSizes : Ask(from, to, size)
    \/ ReadNextPage \/ QueryFails
    \/ \E key \in SortKeys : Arrives(key)

QuerySpec == QueryInit /\ [][QueryNext]_queryVars

----------------------------------------------------------------------------
\* The walk and the rows keep their types.
QueryTypeOK ==
    /\ what \in Queried
    /\ seriesRows \subseteq SortKeys /\ atStart \subseteq seriesRows \union SortKeys
    /\ arrivals \in 0 .. MaxArrivals
    /\ query.at \in {"idle", "asks", "done", "failed"}
    /\ query.from \in Bound /\ query.to \in Bound /\ query.token \in Bound
    /\ \A i \in 1 .. Len(got) : got[i] \in SortKeys

\* The rows asked for: the points of the range, or the windows with a day in
\* it, said without their keys.
DaysOf(key) == IF what = "weekly" THEN key .. key + WeekLength - 1 ELSE {key}
Asked(key) ==
    \E day \in DaysOf(key) : /\ query.from > 0 => day >= query.from
                             /\ query.to > 0 => day <= query.to

\* A client that follows next_key to the end is given, once each and newest
\* first, every row of the range that was there when it began, and none from
\* outside the range: whatever was added meanwhile, and even if its last
\* request failed.  (A range that ends a day before it starts is not refused,
\* and may be given the window both days are in.)
PagesAreComplete ==
    query.to = 0 \/ query.from <= query.to =>
    /\ \A i, j \in 1 .. Len(got) : i < j => got[i] > got[j]
    /\ \A i \in 1 .. Len(got) : Asked(got[i])
    /\ query.at \in {"done", "failed"} =>
          \A key \in atStart : Asked(key) => \E i \in 1 .. Len(got) : got[i] = key

\* docs/en/specs/timeseries.md:426: next_key is there only when more data
\* exists.  Not so: a page that ends with the last row of the range has one,
\* and the request that follows it fails.
NextKeyMeansMore == query.at = "failed" => query.token = 0
=============================================================================
