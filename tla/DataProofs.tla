----------------------------- MODULE DataProofs -----------------------------
(***************************************************************************)
(* Proofs about what is kept and read back, for any numbers of series,     *)
(* rows, keys, pages and bounds:                                           *)
(*                                                                         *)
(*   SeriesQuery  a client that follows next_key is given all of a range   *)
(*   TableAccess  what a caller of the tables is told is what was done     *)
(*   TimeSeries   each reading counts once, and nothing used is lost       *)
(*                                                                         *)
(* and that each keeps its types.  The provers have no induction over      *)
(* data: what is needed of sums (SumIs) comes from a least set of which it *)
(* is false, and walks and batches are followed step by step.              *)
(***************************************************************************)
EXTENDS TimeSeries, SeriesQuery, TableAccess, FiniteSetTheorems, WellFoundedInduction, TLAPS

----------------------------------------------------------------------------
(* SeriesQuery: keys of a range, and days of it, are the same rows, in     *)
(* weeks too; what a walk was given falls, and is all that is newer than   *)
(* its token.                                                              *)

\* The start of the week a day is in.
WeekOf(day) == day - ((day - 1) % WeekLength)

\* Multiples grow with what is multiplied.
LEMMA Ladder == \A a, b, w \in Nat : a <= b => w * a <= w * b
  OBVIOUS

\* A number is its quotient and its remainder.
LEMMA Division ==
    ASSUME NEW a \in Nat, NEW w \in Nat \ {0}
    PROVE  \E k \in Nat, r \in Nat : k = a \div w /\ r = a % w /\ r < w /\ a = w * k + r
<1>1. a \div w \in Nat /\ a % w \in Nat /\ a % w < w
  OBVIOUS
<1>2. a = w * (a \div w) + (a % w)
  OBVIOUS
<1>. QED  BY <1>1, <1>2

\* A week starts a whole number of weeks after day 1, at most a week before
\* its day.
LEMMA WeekIsRung ==
    ASSUME NEW day \in Day
    PROVE  \E k \in Nat : /\ WeekOf(day) = WeekLength * k + 1
                          /\ WeekLength * k <= day - 1
                          /\ day - 1 < WeekLength * k + WeekLength
<1>1. day - 1 \in Nat /\ WeekLength \in Nat \ {0} /\ day \in Nat
  BY QueryConstants DEF Day
<1>2. PICK k \in Nat, r \in Nat :
          r = (day - 1) % WeekLength /\ r < WeekLength /\ day - 1 = WeekLength * k + r
  BY <1>1, Division
<1>3. WeekOf(day) = day - r
  BY <1>2 DEF WeekOf
<1> DEFINE a == WeekLength * k
<1>4. a \in Nat /\ day - 1 = a + r
  BY <1>1, <1>2
<1>. HIDE DEF a
<1>5. WeekOf(day) = a + 1 /\ a <= day - 1 /\ day - 1 < a + WeekLength
  BY <1>1, <1>2, <1>3, <1>4
<1>. QED  BY <1>5 DEF a

\* The week of a day holds it; two weeks are the same or a week apart, in the
\* order of their days.
LEMMA WeeksApart ==
    ASSUME NEW d \in Day, NEW e \in Day
    PROVE  /\ WeekOf(d) \in Nat /\ 1 <= WeekOf(d) /\ WeekOf(d) <= d
           /\ d < WeekOf(d) + WeekLength
           /\ d <= e => \/ WeekOf(d) = WeekOf(e)
                        \/ WeekOf(d) + WeekLength <= WeekOf(e)
<1>1. PICK k \in Nat : /\ WeekOf(d) = WeekLength * k + 1
                       /\ WeekLength * k <= d - 1
                       /\ d - 1 < WeekLength * k + WeekLength
  BY WeekIsRung
<1>2. PICK m \in Nat : /\ WeekOf(e) = WeekLength * m + 1
                       /\ WeekLength * m <= e - 1
                       /\ e - 1 < WeekLength * m + WeekLength
  BY WeekIsRung
<1> DEFINE a == WeekLength * k
           b == WeekLength * m
<1>3. WeekLength \in Nat /\ a \in Nat /\ b \in Nat /\ d \in Nat /\ e \in Nat
  BY QueryConstants DEF Day
<1>4. k + 1 <= m => a + WeekLength <= b
  <2>1. WeekLength * (k + 1) = a + WeekLength
    BY <1>3
  <2>. QED  BY <1>3, <2>1, Ladder
<1>5. m + 1 <= k => b + WeekLength <= a
  <2>1. WeekLength * (m + 1) = b + WeekLength
    BY <1>3
  <2>. QED  BY <1>3, <2>1, Ladder
<1>6. k = m => a = b
  OBVIOUS
<1>. HIDE DEF a, b
<1>7. /\ WeekOf(d) = a + 1 /\ a <= d - 1 /\ d - 1 < a + WeekLength
      /\ WeekOf(e) = b + 1 /\ b <= e - 1 /\ e - 1 < b + WeekLength
  BY <1>1, <1>2 DEF a, b
<1>8. k = m \/ k + 1 <= m \/ m + 1 <= k
  OBVIOUS
<1>. QED  BY <1>3, <1>4, <1>5, <1>6, <1>7, <1>8

\* The window of a day, and the sort keys there can be, in a table.
StartOf(w, day) == IF w = "weekly" THEN WeekOf(day) ELSE day
KeysOf(w) == IF w = "weekly" THEN {WeekOf(d) : d \in Day} ELSE Day

\* A range of days, said of sort keys: what a page is asked for.
InRange(w, from, to, key) ==
    /\ from > 0 => key >= StartOf(w, from)
    /\ to > 0 => key <= StartOf(w, to)

\* The days of a window, and a range of days said of them.
DaysIn(w, key) == IF w = "weekly" THEN key .. key + WeekLength - 1 ELSE {key}
AskedFor(w, from, to, key) ==
    \E day \in DaysIn(w, key) : /\ from > 0 => day >= from
                                /\ to > 0 => day <= to

\* A sort key is a day: it is not 0, which stands for none.
LEMMA KeysAreDays == ASSUME NEW w, NEW key \in KeysOf(w) PROVE key \in Nat /\ key > 0
<1>1. CASE w = "weekly"
  <2>1. PICK d \in Day : key = WeekOf(d)
    BY <1>1 DEF KeysOf
  <2>. QED  BY <2>1, WeeksApart
<1>2. CASE w # "weekly"
  BY <1>2 DEF KeysOf, Day
<1>. QED  BY <1>1, <1>2

\* A week has a day in the range exactly if its start is between the starts of
\* the weeks of the bounds, when the bounds are in order.
LEMMA WindowsAsked ==
    ASSUME NEW from \in Bound, NEW to \in Bound, to = 0 \/ from <= to,
           NEW key \in KeysOf("weekly")
    PROVE  AskedFor("weekly", from, to, key) <=> InRange("weekly", from, to, key)
<1>1. PICK d \in Day : key = WeekOf(d)
  BY DEF KeysOf
<1>2. /\ key \in Nat /\ WeekLength \in Nat \ {0} /\ from \in Nat /\ to \in Nat
      /\ LastDay \in Nat
  BY <1>1, WeeksApart, QueryConstants DEF Bound
<1>3. from > 0 => from \in Day
  BY <1>2 DEF Bound, Day
<1>4. to > 0 => to \in Day
  BY <1>2 DEF Bound, Day
<1>5. d \in Nat /\ 1 <= key /\ key <= d /\ d < key + WeekLength
  BY <1>1, WeeksApart DEF Day
<1>6. from > 0 => /\ WeekOf(from) \in Nat /\ WeekOf(from) <= from
                  /\ from < WeekOf(from) + WeekLength
                  /\ from <= d => WeekOf(from) = key \/ WeekOf(from) + WeekLength <= key
                  /\ d <= from => WeekOf(from) = key \/ key + WeekLength <= WeekOf(from)
  BY <1>1, <1>3, WeeksApart
<1>7. to > 0 => /\ WeekOf(to) \in Nat /\ WeekOf(to) <= to
                /\ to < WeekOf(to) + WeekLength
                /\ to <= d => WeekOf(to) = key \/ WeekOf(to) + WeekLength <= key
                /\ d <= to => WeekOf(to) = key \/ key + WeekLength <= WeekOf(to)
  BY <1>1, <1>4, WeeksApart
<1> DEFINE F == WeekOf(from)
           T == WeekOf(to)
<1>8. AskedFor("weekly", from, to, key) <=>
          \E day \in key .. key + WeekLength - 1 : (from > 0 => day >= from) /\ (to > 0 => day <= to)
  BY DEF AskedFor, DaysIn
<1>9. InRange("weekly", from, to, key) <=> (from > 0 => key >= F) /\ (to > 0 => key <= T)
  BY DEF InRange, StartOf
<1>10. ASSUME NEW day \in key .. key + WeekLength - 1, from > 0 => day >= from, to > 0 => day <= to
       PROVE  (from > 0 => key >= F) /\ (to > 0 => key <= T)
  <2>. HIDE DEF F, T
  <2>. QED  BY <1>2, <1>5, <1>6, <1>7, <1>10 DEF F, T
<1>11. ASSUME from > 0 => key >= F, to > 0 => key <= T
       PROVE  \E day \in key .. key + WeekLength - 1 :
                  (from > 0 => day >= from) /\ (to > 0 => day <= to)
  <2>1. CASE from > 0 /\ F = key
    <3>1. from \in key .. key + WeekLength - 1
      BY <1>2, <1>6, <2>1
    <3>2. to > 0 => from <= to
      BY <1>2
    <3>. QED  BY <1>2, <3>1, <3>2
  <2>2. CASE from > 0 /\ F # key
    <3>1. key >= from
      BY <1>2, <1>5, <1>6, <1>11, <2>2
    <3>2. to > 0 => key <= to
      BY <1>2, <1>7, <1>11
    <3>. QED  BY <1>2, <3>1, <3>2
  <2>3. CASE ~ (from > 0)
    <3>1. to > 0 => key <= to
      BY <1>2, <1>7, <1>11
    <3>. QED  BY <1>2, <2>3, <3>1
  <2>. QED  BY <2>1, <2>2, <2>3
<1>. QED  BY <1>8, <1>9, <1>10, <1>11

\* What is asked for is what the keys of the range say, in every table.
LEMMA AskedIsInRange ==
    ASSUME NEW w \in Queried, NEW from \in Bound, NEW to \in Bound, to = 0 \/ from <= to,
           NEW key \in KeysOf(w)
    PROVE  AskedFor(w, from, to, key) <=> InRange(w, from, to, key)
<1>1. CASE w = "weekly"
  BY <1>1, WindowsAsked
<1>2. CASE w # "weekly"
  BY <1>2 DEF AskedFor, DaysIn, InRange, StartOf
<1>. QED  BY <1>1, <1>2

\* The states of a walk.
Walk == {"idle", "asks", "done", "failed"}

\* Types: the token is a key of the table, and a raw range has a start.
QueryShape ==
    /\ what \in Queried
    /\ seriesRows \subseteq KeysOf(what) /\ atStart \subseteq seriesRows
    /\ query \in [at : Walk, from : Bound, to : Bound, size : PageSizes \union {1},
                  token : {0} \union KeysOf(what)]
    /\ got \in Seq(KeysOf(what))
    /\ query.at = "idle" => got = <<>>
    /\ query.at # "idle" /\ what = "raw" => query.from > 0

\* Key was given; what was given gets older; it is all of the range.
GivenIn(s, key) == \E i \in 1 .. Len(s) : s[i] = key
FallsTo(s) == \A i, j \in 1 .. Len(s) : i < j => s[i] > s[j]
AllInRange(w, q, s) == \A i \in 1 .. Len(s) : InRange(w, q.from, q.to, s[i])
\* All that was asked for is given, or is older than the token.
GivenAbove(w, q, s, from) ==
    \A key \in from : InRange(w, q.from, q.to, key) => GivenIn(s, key) \/ key < q.token
\* All that was asked for is given.
GivenAll(w, q, s, from) ==
    \A key \in from : InRange(w, q.from, q.to, key) => GivenIn(s, key)

\* A walk: nothing given twice or from outside the range, nothing left out
\* that is newer than the token, and nothing at all once it is over.
WalkOK(w, q, s, from) ==
    /\ FallsTo(s) /\ AllInRange(w, q, s)
    /\ q.at = "asks" /\ q.token = 0 => s = <<>>
    /\ q.at = "asks" /\ q.token > 0 =>
          /\ \A i \in 1 .. Len(s) : s[i] >= q.token
          /\ GivenAbove(w, q, s, from)
    /\ q.at \in {"done", "failed"} => GivenAll(w, q, s, from)

\* The range does not end before it starts.
Sensible(q) == q.to = 0 \/ q.from <= q.to
QueryInv == QueryShape /\ (Sensible(query) => WalkOK(what, query, got, atStart))

\* The rows a page is read from are those of the range behind the token, by
\* keys that differ from table to table.
LEMMA MatchesAre ==
    ASSUME QueryShape, query.at = "asks", NEW key \in seriesRows
    PROVE  key \in Matches(query) <=>
              /\ InRange(what, query.from, query.to, key)
              /\ query.token > 0 => key < query.token
<1> DEFINE f == query.from
           t == query.to
           k == query.token
<1>1. /\ what \in Queried /\ f \in Bound /\ t \in Bound /\ k \in {0} \union KeysOf(what)
      /\ key \in KeysOf(what) /\ (what = "raw" => f > 0)
  BY DEF QueryShape
<1>2. /\ key \in Nat /\ f \in Nat /\ t \in Nat /\ k \in Nat
  BY <1>1, KeysAreDays, QueryConstants DEF Bound
<1>3. key \in Matches(query) <=>
          /\ f > 0 => key >= Lowest(query)
          /\ HasHighest(query) => key <= Highest(query)
          /\ AfterToken(query, key)
  BY DEF Matches
<1>4. CASE what = "raw"
  <2>1. InRange(what, f, t, key) <=> key >= f /\ (t > 0 => key <= t)
    BY <1>1, <1>4 DEF InRange, StartOf
  <2>2. /\ Lowest(query) = f
        /\ HasHighest(query) <=> t > 0 \/ k > 0
        /\ Highest(query) = IF k > 0 /\ (t > 0 => k - 1 < t) THEN k - 1 ELSE t
        /\ AfterToken(query, key)
    BY <1>4 DEF Lowest, HasHighest, Highest, RawTo, OlderThan, AfterToken
  <2>. HIDE DEF f, t, k
  <2>. QED  BY <1>1, <1>2, <1>3, <1>4, <2>1, <2>2 DEF f, t, k
<1>5. CASE what # "raw"
  <2>1. t > 0 => Highest(query) = StartOf(what, t)
    <3>1. t + 1 - 1 = t
      BY <1>2
    <3>2. t > 0 => Highest(query) = WindowKey(t + 1 - 1)
      BY <1>2, <1>5 DEF Highest, LastWindowBefore
    <3>. QED  BY <3>1, <3>2 DEF WindowKey, StartOf, WeekOf
  <2>2. f > 0 => Lowest(query) = StartOf(what, f)
    BY <1>2, <1>5 DEF Lowest, WindowKey, StartOf, WeekOf
  <2>3. HasHighest(query) <=> t > 0
    BY <1>5 DEF HasHighest
  <2>4. AfterToken(query, key) <=> (k > 0 => key < k)
    BY <1>5 DEF AfterToken
  <2>5. InRange(what, f, t, key) <=>
            (f > 0 => key >= StartOf(what, f)) /\ (t > 0 => key <= StartOf(what, t))
    BY DEF InRange
  <2>. QED  BY <1>3, <2>1, <2>2, <2>3, <2>4, <2>5
<1>. QED  BY <1>4, <1>5

\* A request is refused only when there is nothing left to give.
LEMMA NothingLeft ==
    ASSUME QueryShape, query.at = "asks", Malformed(query), NEW key \in seriesRows
    PROVE  ~ /\ InRange(what, query.from, query.to, key)
             /\ query.token > 0 => key < query.token
<1>1. key \notin Matches(query)
  <2>1. key \in Nat /\ query.from \in Nat /\ query.to \in Nat /\ query.token \in Nat
    BY KeysAreDays, QueryConstants DEF QueryShape, Bound
  <2>2. Lowest(query) \in Int /\ Highest(query) \in Int
    <3>1. query.from > 0 => WeekOf(query.from) \in Int
      BY <2>1, WeeksApart DEF QueryShape, Bound, Day
    <3>2. query.to > 0 => WeekOf(query.to) \in Int /\ query.to + 1 - 1 = query.to
      BY <2>1, WeeksApart DEF QueryShape, Bound, Day
    <3>3. Lowest(query) \in Int
      BY <2>1, <3>1 DEF Lowest, WindowKey, WeekOf
    <3>4. RawTo(query) \in Int
      BY <2>1 DEF RawTo, OlderThan
    <3>5. query.to > 0 => LastWindowBefore(query.to + 1) \in Int
      BY <2>1, <3>2 DEF LastWindowBefore, WindowKey, WeekOf
    <3>. QED  BY <2>1, <3>3, <3>4, <3>5 DEF Highest
  <2>3. query.from > 0 /\ HasHighest(query) /\ Lowest(query) > Highest(query)
    BY DEF Malformed
  <2>4. key \in Matches(query) => key >= Lowest(query) /\ key <= Highest(query)
    BY <2>3 DEF Matches
  <2>. QED  BY <2>1, <2>2, <2>3, <2>4
<1>. QED  BY <1>1, MatchesAre

\* A page falls, is of the range and behind the token, and is full if it left
\* any such row out; those it left out are older.
LEMMA PageIs ==
    ASSUME QueryShape, query.at = "asks", NEW page \in Pages(query)
    PROVE  /\ query.size \in Nat \ {0}
           /\ page \in Seq(seriesRows) /\ Len(page) <= query.size
           /\ FallsTo(page)
           /\ \A i \in 1 .. Len(page) :
                 /\ InRange(what, query.from, query.to, page[i])
                 /\ query.token > 0 => page[i] < query.token
           /\ \A key \in seriesRows :
                 /\ InRange(what, query.from, query.to, key)
                 /\ query.token > 0 => key < query.token
                 => \/ GivenIn(page, key)
                    \/ Len(page) = query.size /\ \A i \in 1 .. Len(page) : page[i] > key
<1>1. query.size \in Nat \ {0}
  <2>1. query.size \in PageSizes \union {1}
    BY DEF QueryShape
  <2>2. \A size \in PageSizes : size \in Nat \ {0}
    BY QueryConstants
  <2>. QED  BY <2>1, <2>2
<1>2. PICK n \in 0 .. query.size : page \in [1 .. n -> Matches(query)]
  BY DEF Pages
<1>3. Matches(query) \subseteq seriesRows
  BY DEF Matches
<1>4. page \in Seq(seriesRows) /\ Len(page) = n /\ DOMAIN page = 1 .. n
  BY <1>1, <1>2, <1>3
<1>5. \A i \in 1 .. n : page[i] \in Matches(query)
  BY <1>2
<1>6. /\ \A i, j \in DOMAIN page : i < j => page[i] > page[j]
      /\ \A key \in Matches(query) :
            \/ \E i \in DOMAIN page : page[i] = key
            \/ Len(page) = query.size /\ \A i \in DOMAIN page : page[i] > key
  BY DEF Pages
<1>7. FallsTo(page)
  BY <1>4, <1>6 DEF FallsTo
<1>8. \A i \in 1 .. Len(page) :
          /\ InRange(what, query.from, query.to, page[i])
          /\ query.token > 0 => page[i] < query.token
  BY <1>3, <1>4, <1>5, MatchesAre
<1>9. ASSUME NEW key \in seriesRows, InRange(what, query.from, query.to, key),
             query.token > 0 => key < query.token
      PROVE  \/ GivenIn(page, key)
             \/ Len(page) = query.size /\ \A i \in 1 .. Len(page) : page[i] > key
  <2>1. key \in Matches(query)
    BY <1>9, MatchesAre
  <2>. QED  BY <1>4, <1>6, <2>1 DEF GivenIn
<1>. QED  BY <1>1, <1>2, <1>4, <1>7, <1>8, <1>9

\* A walk stays right when a page is added to it, and its last key, if it is
\* full, becomes the token.
LEMMA OnePageMore ==
    ASSUME NEW w, NEW q, NEW Keys, NEW s \in Seq(KeysOf(w)), NEW page \in Seq(Keys),
           NEW from \in SUBSET Keys, NEW token, NEW at,
           Keys \subseteq KeysOf(w), q.at = "asks", q.token \in Nat, q.size \in Nat \ {0},
           WalkOK(w, q, s, from),
           Len(page) <= q.size, FallsTo(page),
           \A i \in 1 .. Len(page) :
              InRange(w, q.from, q.to, page[i]) /\ (q.token > 0 => page[i] < q.token),
           \A key \in Keys :
              /\ InRange(w, q.from, q.to, key)
              /\ q.token > 0 => key < q.token
              => \/ GivenIn(page, key)
                 \/ Len(page) = q.size /\ \A i \in 1 .. Len(page) : page[i] > key,
           token = IF Len(page) = q.size THEN page[q.size] ELSE 0,
           at = IF token = 0 THEN "done" ELSE "asks",
           NEW q2, q2.at = at, q2.token = token, q2.from = q.from, q2.to = q.to
    PROVE  /\ token \in {0} \union KeysOf(w)
           /\ s \o page \in Seq(KeysOf(w))
           /\ WalkOK(w, q2, s \o page, from)
<1> DEFINE z == s \o page
           m == Len(s)
           n == Len(page)
<1>1. /\ m \in Nat /\ n \in Nat /\ z \in Seq(KeysOf(w)) /\ Len(z) = m + n
      /\ \A i \in 1 .. m : z[i] = s[i]
      /\ \A i \in m + 1 .. m + n : z[i] = page[i - m]
  OBVIOUS
<1>2. /\ \A i \in 1 .. m : s[i] \in Nat /\ s[i] > 0
      /\ \A i \in 1 .. n : page[i] \in Keys /\ page[i] \in KeysOf(w)
      /\ \A i \in 1 .. n : page[i] \in Nat /\ page[i] > 0
      /\ \A key \in Keys : key \in Nat /\ key > 0
  BY KeysAreDays
<1>3. /\ n = q.size => token = page[n] /\ token \in Nat /\ token > 0 /\ at = "asks"
                       /\ token \in KeysOf(w)
      /\ n # q.size => token = 0 /\ at = "done"
  BY <1>1, <1>2
<1>4. /\ FallsTo(s) /\ AllInRange(w, q, s)
      /\ q.token = 0 => s = <<>>
      /\ q.token > 0 => /\ \A i \in 1 .. m : s[i] >= q.token
                        /\ GivenAbove(w, q, s, from)
  BY DEF WalkOK
<1>5. ASSUME NEW i \in 1 .. m, NEW j \in 1 .. n
      PROVE  s[i] > page[j]
  <2>1. q.token # 0
    BY <1>4
  <2>2. s[i] >= q.token /\ page[j] < q.token
    BY <1>4, <2>1
  <2>3. s[i] \in Nat /\ page[j] \in Nat
    BY <1>2
  <2>. QED  BY <2>2, <2>3
<1>. HIDE DEF m, n, z
<1>6. FallsTo(z)
  <2> SUFFICES ASSUME NEW i \in 1 .. m + n, NEW j \in 1 .. m + n, i < j
               PROVE  z[i] > z[j]
    BY <1>1 DEF FallsTo
  <2>1. CASE j <= m
    <3>1. i \in 1 .. m /\ j \in 1 .. m
      BY <1>1, <2>1
    <3>2. s[i] > s[j]
      BY <1>4, <3>1 DEF FallsTo, m
    <3>. QED  BY <1>1, <3>1, <3>2
  <2>2. CASE i <= m /\ j > m
    <3>1. i \in 1 .. m /\ j \in m + 1 .. m + n /\ j - m \in 1 .. n
      BY <1>1, <2>2
    <3>2. z[i] = s[i] /\ z[j] = page[j - m] /\ s[i] > page[j - m]
      BY <1>1, <1>5, <3>1
    <3>. QED  BY <3>2
  <2>3. CASE i > m
    <3>1. i - m \in 1 .. n /\ j - m \in 1 .. n /\ i - m < j - m
      BY <1>1, <2>3
    <3>2. page[i - m] > page[j - m]
      BY <3>1 DEF FallsTo, n
    <3>3. i \in m + 1 .. m + n /\ j \in m + 1 .. m + n
      BY <1>1, <2>3
    <3>4. z[i] = page[i - m] /\ z[j] = page[j - m]
      BY <1>1, <3>3
    <3>. QED  BY <3>2, <3>4
  <2>. QED  BY <1>1, <2>1, <2>2, <2>3
<1>7. \A i \in 1 .. Len(z) : \/ i \in 1 .. m /\ z[i] = s[i]
                             \/ i - m \in 1 .. n /\ z[i] = page[i - m]
  <2> TAKE i \in 1 .. Len(z)
  <2>1. i \in 1 .. m \/ i \in m + 1 .. m + n
    BY <1>1
  <2>2. CASE i \in m + 1 .. m + n
    <3>1. i - m \in 1 .. n
      BY <1>1, <2>2
    <3>. QED  BY <1>1, <2>2, <3>1
  <2>. QED  BY <1>1, <2>1, <2>2
<1>8. AllInRange(w, q2, z)
  BY <1>4, <1>7 DEF AllInRange, m, n
<1>9. \A key : GivenIn(s, key) \/ GivenIn(page, key) => GivenIn(z, key)
  <2> SUFFICES ASSUME NEW key, GivenIn(s, key) \/ GivenIn(page, key)
               PROVE  GivenIn(z, key)
    OBVIOUS
  <2>1. CASE GivenIn(s, key)
    <3>1. PICK i \in 1 .. m : s[i] = key
      BY <2>1 DEF GivenIn, m
    <3>2. i \in 1 .. Len(z) /\ z[i] = key
      BY <1>1, <3>1
    <3>. QED  BY <3>2 DEF GivenIn
  <2>2. CASE GivenIn(page, key)
    <3>1. PICK i \in 1 .. n : page[i] = key
      BY <2>2 DEF GivenIn, n
    <3>2. i + m \in m + 1 .. m + n /\ i + m \in 1 .. Len(z) /\ i + m - m = i
      BY <1>1
    <3>3. z[i + m] = key
      BY <1>1, <3>1, <3>2
    <3>. QED  BY <3>2, <3>3 DEF GivenIn
  <2>. QED  BY <2>1, <2>2
<1>10. ASSUME NEW key \in from, InRange(w, q2.from, q2.to, key)
       PROVE  GivenIn(z, key) \/ (n = q.size /\ key < token)
  <2>1. GivenIn(s, key) \/ (q.token > 0 => key < q.token)
    BY <1>4, <1>10 DEF GivenAbove
  <2>2. CASE GivenIn(s, key)
    BY <1>9, <2>2
  <2>3. CASE q.token > 0 => key < q.token
    <3>1. \/ GivenIn(page, key)
          \/ Len(page) = q.size /\ \A i \in 1 .. Len(page) : page[i] > key
      BY <1>10, <2>3
    <3>2. CASE GivenIn(page, key)
      BY <1>9, <3>2
    <3>3. CASE n = q.size /\ \A i \in 1 .. n : page[i] > key
      <4>1. page[n] > key /\ page[n] = token
        BY <1>1, <1>3, <3>3
      <4>2. key \in Nat /\ token \in Nat
        BY <1>2, <1>3, <3>3
      <4>. QED  BY <3>3, <4>1, <4>2
    <3>. QED  BY <3>1, <3>2, <3>3 DEF n
  <2>. QED  BY <2>1, <2>2, <2>3
<1>11. CASE n = q.size
  <2>1. at = "asks" /\ token > 0 /\ token \in Nat /\ token # 0
    BY <1>3, <1>11
  <2>2. GivenAbove(w, q2, z, from)
    BY <1>10 DEF GivenAbove
  <2>3. ASSUME NEW i \in 1 .. Len(z)
        PROVE  z[i] >= token
    <3>1. n \in 1 .. n /\ token = page[n]
      BY <1>1, <1>3, <1>11
    <3>2. CASE i \in 1 .. m /\ z[i] = s[i]
      BY <1>2, <1>5, <3>1, <3>2, <2>1
    <3>3. CASE i - m \in 1 .. n /\ z[i] = page[i - m]
      <4>1. CASE i - m = n
        BY <1>2, <3>1, <3>3, <4>1
      <4>2. CASE i - m < n
        <5>1. page[i - m] > page[n]
          BY <3>1, <3>3, <4>2 DEF FallsTo, n
        <5>2. page[i - m] \in Nat /\ page[n] \in Nat
          BY <1>2, <3>1, <3>3
        <5>. QED  BY <3>1, <3>3, <5>1, <5>2
      <4>. QED  BY <1>1, <3>3, <4>1, <4>2
    <3>. QED  BY <1>7, <3>2, <3>3
  <2>. QED  BY <1>1, <1>3, <1>6, <1>8, <1>11, <2>1, <2>2, <2>3 DEF WalkOK, z
<1>12. CASE n # q.size
  <2>1. token = 0 /\ at = "done"
    BY <1>3, <1>12
  <2>2. GivenAll(w, q2, z, from)
    BY <1>10, <1>12 DEF GivenAll
  <2>. QED  BY <1>1, <1>6, <1>8, <2>1, <2>2 DEF WalkOK, z
<1>. QED  BY <1>11, <1>12

\* The sort keys of the table in use.
LEMMA RowsHaveKeys ==
    ASSUME what \in Queried
    PROVE  SortKeys = KeysOf(what) /\ (what' = what => SortKeys' = KeysOf(what))
  BY DEF SortKeys, KeysOf, WindowKey, WeekOf

\* The invariant holds before the request.
LEMMA QueryBegins == QueryInit => QueryInv
<1> SUFFICES ASSUME QueryInit
             PROVE  QueryInv
  OBVIOUS
<1>1. seriesRows \subseteq KeysOf(what) /\ what \in Queried
  BY RowsHaveKeys DEF QueryInit
<1>2. /\ query = [at |-> "idle", from |-> 0, to |-> 0, size |-> 1, token |-> 0]
      /\ atStart = {} /\ got = <<>>
  BY DEF QueryInit
<1>3. 0 \in Bound
  BY QueryConstants DEF Bound
<1>4. QueryShape
  BY <1>1, <1>2, <1>3 DEF QueryShape, Walk
<1>5. WalkOK(what, query, got, atStart)
  BY <1>2 DEF WalkOK, FallsTo, AllInRange
<1>. QED  BY <1>4, <1>5 DEF QueryInv

\* The first request begins a walk.
LEMMA AskStep ==
    ASSUME QueryInv, NEW from \in Bound, NEW to \in Bound, NEW size \in PageSizes,
           Ask(from, to, size)
    PROVE  QueryInv'
<1>1. /\ query' = [at |-> "asks", from |-> from, to |-> to, size |-> size, token |-> 0]
      /\ atStart' = seriesRows /\ what' = what /\ seriesRows' = seriesRows
      /\ got' = got /\ got = <<>> /\ (what = "raw" => from > 0)
  BY DEF Ask, QueryInv, QueryShape
<1>2. QueryShape'
  BY <1>1 DEF QueryInv, QueryShape, Walk
<1>3. WalkOK(what', query', got', atStart')
  BY <1>1 DEF WalkOK, FallsTo, AllInRange
<1>. QED  BY <1>2, <1>3 DEF QueryInv

\* A page is read.
LEMMA ReadStep ==
    ASSUME QueryInv, ReadNextPage
    PROVE  QueryInv'
<1>1. PICK page \in Pages(query) :
          /\ got' = got \o page
          /\ query' = [query EXCEPT
                          !.token = NextToken(query, page),
                          !.at = IF NextToken(query, page) = 0 THEN "done" ELSE "asks"]
  BY DEF ReadNextPage
<1>2. /\ query.at = "asks" /\ QueryShape
      /\ what' = what /\ seriesRows' = seriesRows /\ atStart' = atStart
  BY DEF ReadNextPage, QueryInv
<1> DEFINE token == NextToken(query, page)
           at == IF token = 0 THEN "done" ELSE "asks"
<1>3. token = IF Len(page) = query.size THEN page[query.size] ELSE 0
  BY DEF NextToken
<1>. HIDE DEF token
<1>4. /\ query'.at = at /\ query'.token = token /\ query'.from = query.from
      /\ query'.to = query.to
      /\ query' = [query EXCEPT !.token = token, !.at = at]
  BY <1>1, <1>2 DEF token, QueryShape
<1>5. /\ query.size \in Nat \ {0} /\ page \in Seq(seriesRows) /\ Len(page) <= query.size
      /\ FallsTo(page)
  BY <1>2, PageIs
<1>6. /\ query.token \in Nat /\ got \in Seq(KeysOf(what)) /\ atStart \in SUBSET seriesRows
      /\ seriesRows \subseteq KeysOf(what)
  BY <1>2, KeysAreDays DEF QueryShape
<1>7. token \in {0} \union KeysOf(what)
  BY <1>3, <1>5, <1>6
<1>8. got' \in Seq(KeysOf(what))
  BY <1>1, <1>5, <1>6
<1>9. QueryShape'
  BY <1>2, <1>4, <1>7, <1>8 DEF QueryShape, Walk
<1>10. ASSUME Sensible(query)'
       PROVE  WalkOK(what', query', got', atStart')
  <2>1. WalkOK(what, query, got, atStart)
    BY <1>4, <1>10 DEF QueryInv, Sensible
  <2>2. \A i \in 1 .. Len(page) :
            /\ InRange(what, query.from, query.to, page[i])
            /\ query.token > 0 => page[i] < query.token
    BY <1>2, PageIs
  <2>3. \A key \in seriesRows :
            /\ InRange(what, query.from, query.to, key)
            /\ query.token > 0 => key < query.token
            => \/ GivenIn(page, key)
               \/ Len(page) = query.size /\ \A i \in 1 .. Len(page) : page[i] > key
    BY <1>2, PageIs
  <2>4. WalkOK(what, query', got \o page, atStart)
    BY <1>2, <1>3, <1>4, <1>5, <1>6, <2>1, <2>2, <2>3, OnePageMore
  <2>. QED  BY <1>1, <1>2, <2>4
<1>. QED  BY <1>9, <1>10 DEF QueryInv

\* A request is refused.
LEMMA FailStep ==
    ASSUME QueryInv, QueryFails
    PROVE  QueryInv'
<1>1. /\ query' = [query EXCEPT !.at = "failed"] /\ query.at = "asks"
      /\ what' = what /\ seriesRows' = seriesRows /\ atStart' = atStart /\ got' = got
      /\ Malformed(query) /\ QueryShape
  BY DEF QueryFails, QueryInv
<1>2. /\ query'.at = "failed" /\ query'.token = query.token /\ query'.from = query.from
      /\ query'.to = query.to
  BY <1>1 DEF QueryShape
<1>3. QueryShape'
  BY <1>1 DEF QueryShape, Walk
<1>4. ASSUME Sensible(query)'
      PROVE  WalkOK(what', query', got', atStart')
  <2>1. WalkOK(what, query, got, atStart)
    BY <1>2, <1>4 DEF QueryInv, Sensible
  <2>2. \A key \in atStart : InRange(what, query.from, query.to, key) =>
                                query.token > 0 /\ ~ (key < query.token)
    BY <1>1, NothingLeft DEF QueryShape
  <2>3. GivenAll(what, query', got, atStart)
    BY <1>1, <1>2, <2>1, <2>2 DEF WalkOK, GivenAbove, GivenAll
  <2>4. FallsTo(got) /\ AllInRange(what, query', got)
    BY <1>2, <2>1 DEF WalkOK, AllInRange
  <2>. QED  BY <1>1, <1>2, <2>3, <2>4 DEF WalkOK
<1>. QED  BY <1>3, <1>4 DEF QueryInv

\* Every step keeps the invariant: a row that arrives was not there at the
\* start.
LEMMA QueryStep == QueryInv /\ [QueryNext]_queryVars => QueryInv'
<1> SUFFICES ASSUME QueryInv, [QueryNext]_queryVars
             PROVE  QueryInv'
  OBVIOUS
<1>1. ASSUME NEW key \in SortKeys, Arrives(key)
      PROVE  QueryInv'
  <2>1. /\ seriesRows' = seriesRows \union {key} /\ key \in KeysOf(what)
        /\ what' = what /\ atStart' = atStart /\ query' = query /\ got' = got
    BY <1>1, RowsHaveKeys DEF Arrives, QueryInv, QueryShape
  <2>2. QueryShape'
    BY <2>1 DEF QueryInv, QueryShape
  <2>3. Sensible(query') => WalkOK(what', query', got', atStart')
    BY <2>1 DEF QueryInv
  <2>. QED  BY <2>2, <2>3 DEF QueryInv, Sensible
<1>2. CASE UNCHANGED queryVars
  BY <1>2
     DEF queryVars, QueryInv, QueryShape, Sensible, WalkOK, FallsTo, AllInRange,
         GivenAbove,
     GivenAll, GivenIn
<1>. QED  BY <1>1, <1>2, AskStep, ReadStep, FailStep DEF QueryNext

\* The invariant says what was promised, in days.
LEMMA WalksAreComplete == QueryInv => PagesAreComplete
<1> SUFFICES ASSUME QueryInv, query.to = 0 \/ query.from <= query.to
             PROVE  /\ FallsTo(got)
                    /\ \A i \in 1 .. Len(got) : Asked(got[i])
                    /\ query.at \in {"done", "failed"} =>
                          \A key \in atStart : Asked(key) => GivenIn(got, key)
  BY DEF PagesAreComplete, FallsTo, GivenIn
<1>1. QueryShape /\ WalkOK(what, query, got, atStart)
  BY DEF QueryInv, Sensible
<1>2. ASSUME NEW key \in KeysOf(what)
      PROVE  Asked(key) <=> InRange(what, query.from, query.to, key)
  <2>1. Asked(key) <=> AskedFor(what, query.from, query.to, key)
    BY DEF Asked, AskedFor, DaysOf, DaysIn
  <2>2. what \in Queried /\ query.from \in Bound /\ query.to \in Bound
    BY <1>1 DEF QueryShape
  <2>. QED  BY <2>1, <2>2, AskedIsInRange
<1>3. \A i \in 1 .. Len(got) : got[i] \in KeysOf(what)
  BY <1>1 DEF QueryShape
<1>4. \A i \in 1 .. Len(got) : Asked(got[i])
  BY <1>1, <1>2, <1>3 DEF WalkOK, AllInRange
<1>5. \A key \in atStart : key \in KeysOf(what)
  BY <1>1 DEF QueryShape
<1>. QED  BY <1>1, <1>2, <1>4, <1>5 DEF WalkOK, GivenAll

\* A client that follows next_key to the end has every row of the range that
\* was there when it began, once and newest first, whatever was added meanwhile
\* (service/timeseries): for any window length, page sizes, range and arrivals.
THEOREM WalksGiveAll == QuerySpec => []PagesAreComplete
  BY QueryBegins, QueryStep, WalksAreComplete, PTL DEF QuerySpec

----------------------------------------------------------------------------
(* SeriesQuery: types, and rows counted.                                   *)

\* Keys are days.
LEMMA KeysAreBounds == ASSUME NEW w, NEW key \in KeysOf(w) PROVE key \in Bound
<1>1. CASE w = "weekly"
  <2>1. PICK d \in Day : key = WeekOf(d)
    BY <1>1 DEF KeysOf
  <2>2. key \in Nat /\ key <= d
    BY <2>1, WeeksApart
  <2> QED BY <2>2, QueryConstants DEF Day, Bound
<1>2. CASE w # "weekly"
  BY <1>2 DEF KeysOf, Day, Bound
<1> QED BY <1>1, <1>2

\* No more rows arrive than may.
Arrived == arrivals \in 0 .. MaxArrivals

\* The walk, the rows and what was given keep their types.
LEMMA QueryTyped == QuerySpec => []QueryTypeOK
<1>1. QueryInit => Arrived
  BY QueryConstants DEF QueryInit, Arrived
<1>2. Arrived /\ [QueryNext]_queryVars => Arrived'
  <2> SUFFICES ASSUME Arrived, [QueryNext]_queryVars PROVE Arrived'
    OBVIOUS
  <2>1. arrivals' = arrivals \/ (arrivals < MaxArrivals /\ arrivals' = arrivals + 1)
    <3>1. CASE ReadNextPage
      BY <3>1 DEF ReadNextPage
    <3>2. CASE QueryFails \/ UNCHANGED queryVars
      BY <3>2 DEF QueryFails, queryVars
    <3>3. ASSUME NEW key, Arrives(key)
          PROVE  arrivals < MaxArrivals /\ arrivals' = arrivals + 1
      BY <3>3 DEF Arrives
    <3>4. ASSUME NEW from, NEW to, NEW size, Ask(from, to, size)
          PROVE  arrivals' = arrivals
      BY <3>4 DEF Ask
    <3> QED BY <3>1, <3>2, <3>3, <3>4 DEF QueryNext
  <2> QED BY <2>1, QueryConstants DEF Arrived
<1>3. QueryInv /\ Arrived => QueryTypeOK
  <2> SUFFICES ASSUME QueryInv, Arrived PROVE QueryTypeOK
    OBVIOUS
  <2>1. QueryShape /\ what \in Queried
    BY DEF QueryInv, QueryShape
  <2>2. SortKeys = KeysOf(what)
    BY <2>1, RowsHaveKeys
  <2>3. query.token \in Bound
    <3>1. query.token \in {0} \union KeysOf(what)
      BY <2>1 DEF QueryShape
    <3>2. 0 \in Bound
      BY QueryConstants DEF Bound
    <3> QED BY <3>1, <3>2, KeysAreBounds
  <2>4. query.at \in Walk /\ query.from \in Bound /\ query.to \in Bound
    BY <2>1 DEF QueryShape
  <2>5. \A i \in 1 .. Len(got) : got[i] \in KeysOf(what)
    BY <2>1 DEF QueryShape
  <2>6. seriesRows \subseteq KeysOf(what) /\ atStart \subseteq seriesRows
    BY <2>1 DEF QueryShape
  <2>7. query.at \in {"idle", "asks", "done", "failed"}
    BY <2>4 DEF Walk
  <2> QED BY <2>1, <2>2, <2>3, <2>4, <2>5, <2>6, <2>7 DEF QueryTypeOK, Arrived
<1> QED BY <1>1, <1>2, <1>3, QueryBegins, QueryStep, PTL DEF QuerySpec

----------------------------------------------------------------------------
(* TableAccess: up to where a walk is, it gave what it was to give; a      *)
(* batch puts the last item of each key and nothing else, in any order; a  *)
(* delete leaves nothing behind it.                                        *)

\* The elements of a sequence; it rises; it goes up to n; one comes before
\* the other.
Elem(s) == {s[i] : i \in 1 .. Len(s)}
Rising(s) == \A i, j \in 1 .. Len(s) : i < j => s[i] < s[j]
UpTo(s, n) == \A x \in Elem(s) : x <= n
Below(a, b) == \A x \in Elem(a), y \in Elem(b) : x < y

\* What two sequences joined have, and when they rise.
LEMMA Joined ==
    ASSUME NEW S, NEW a \in Seq(S), NEW b \in Seq(S)
    PROVE  /\ a \o b \in Seq(S) /\ Len(a \o b) = Len(a) + Len(b)
           /\ Elem(a \o b) = Elem(a) \union Elem(b)
           /\ Rising(a) /\ Rising(b) /\ Below(a, b) => Rising(a \o b)
<1> DEFINE z == a \o b
           m == Len(a)
           n == Len(b)
<1>1. /\ m \in Nat /\ n \in Nat /\ z \in Seq(S) /\ Len(z) = m + n
      /\ \A i \in 1 .. m : z[i] = a[i]
      /\ \A i \in m + 1 .. m + n : z[i] = b[i - m]
  OBVIOUS
<1>. HIDE DEF m, n, z
<1>2. \A i \in 1 .. Len(z) : \/ i \in 1 .. m /\ z[i] = a[i]
                             \/ i > m /\ i - m \in 1 .. n /\ z[i] = b[i - m]
  BY <1>1
<1>3. \A i \in 1 .. n : i + m \in 1 .. Len(z) /\ z[i + m] = b[i]
  <2> SUFFICES ASSUME NEW i \in 1 .. n
               PROVE  i + m \in 1 .. Len(z) /\ z[i + m] = b[i]
    OBVIOUS
  <2>1. i + m \in m + 1 .. m + n /\ i + m - m = i /\ i + m \in 1 .. Len(z)
    BY <1>1
  <2>. QED  BY <1>1, <2>1
<1>4. \A i \in 1 .. m : i \in 1 .. Len(z) /\ z[i] = a[i]
  BY <1>1
<1>5. Elem(z) = Elem(a) \union Elem(b)
  <2>1. \A x \in Elem(z) : x \in Elem(a) \/ x \in Elem(b)
    BY <1>2 DEF Elem, m, n
  <2>2. \A x \in Elem(a) : x \in Elem(z)
    BY <1>4 DEF Elem, m
  <2>3. \A x \in Elem(b) : x \in Elem(z)
    <3> SUFFICES ASSUME NEW x \in Elem(b)
                 PROVE  x \in Elem(z)
      OBVIOUS
    <3>1. PICK i \in 1 .. n : x = b[i]
      BY DEF Elem, n
    <3>2. i + m \in 1 .. Len(z) /\ z[i + m] = x
      BY <1>3, <3>1
    <3>. QED  BY <3>2 DEF Elem
  <2>. QED  BY <2>1, <2>2, <2>3
<1>6. ASSUME Rising(a), Rising(b), Below(a, b)
      PROVE  Rising(z)
  <2> SUFFICES ASSUME NEW i \in 1 .. Len(z), NEW j \in 1 .. Len(z), i < j
               PROVE  z[i] < z[j]
    BY DEF Rising
  <2>1. CASE j \in 1 .. m /\ z[j] = a[j]
    <3>1. i \in 1 .. m /\ z[i] = a[i]
      BY <1>1, <2>1
    <3>. QED  BY <1>6, <2>1, <3>1 DEF Rising, m
  <2>2. CASE i \in 1 .. m /\ z[i] = a[i] /\ j - m \in 1 .. n /\ z[j] = b[j - m]
    BY <1>6, <2>2 DEF Below, Elem, m, n
  <2>3. CASE i > m /\ i - m \in 1 .. n /\ z[i] = b[i - m] /\ j - m \in 1 .. n /\ z[j] = b[j - m]
    <3>1. i - m < j - m
      BY <1>1
    <3>. QED  BY <1>6, <2>3, <3>1 DEF Rising, n
  <2>4. CASE i > m /\ j \in 1 .. m
    BY <1>1, <2>4
  <2>. QED  BY <1>2, <2>1, <2>2, <2>3, <2>4
<1>. QED  BY <1>1, <1>5, <1>6 DEF m, n, z

\* The first few of a rising sequence are those up to the last of them.
LEMMA FirstFew ==
    ASSUME NEW s \in Seq(RowKey), Rising(s), NEW n \in 1 .. Len(s)
    PROVE  /\ SubSeq(s, 1, n) \in Seq(RowKey) /\ Len(SubSeq(s, 1, n)) = n
           /\ Rising(SubSeq(s, 1, n))
           /\ \A x \in Elem(SubSeq(s, 1, n)) : x \in Elem(s) /\ x <= s[n]
           /\ \A x \in Elem(s) : x <= s[n] => x \in Elem(SubSeq(s, 1, n))
<1> DEFINE z == SubSeq(s, 1, n)
<1>1. Len(s) \in Nat /\ n \in Nat /\ n >= 1 /\ n <= Len(s)
  OBVIOUS
<1>2. /\ z \in Seq(RowKey) /\ Len(z) = n
      /\ \A i \in 1 .. n : z[i] = s[i]
  OBVIOUS
<1>. HIDE DEF z
<1>3. \A i \in 1 .. Len(s) : s[i] \in Int
  <2>1. \A x \in RowKey : x \in Int
    BY DEF RowKey
  <2>. QED  BY <2>1
<1>4. Rising(z)
  BY <1>1, <1>2 DEF Rising
<1>5. \A i \in 1 .. n : s[i] <= s[n]
  <2> SUFFICES ASSUME NEW i \in 1 .. n
               PROVE  s[i] <= s[n]
    OBVIOUS
  <2>1. CASE i = n
    BY <1>1, <1>3, <2>1
  <2>2. CASE i < n
    BY <1>1, <1>3, <2>2 DEF Rising
  <2>. QED  BY <2>1, <2>2
<1>6. \A x \in Elem(z) : x \in Elem(s) /\ x <= s[n]
  BY <1>1, <1>2, <1>5 DEF Elem
<1>7. ASSUME NEW x \in Elem(s), x <= s[n]
      PROVE  x \in Elem(z)
  <2>1. PICK i \in 1 .. Len(s) : x = s[i]
    BY DEF Elem
  <2>2. i <= n
    <3> SUFFICES ASSUME i > n
                 PROVE  FALSE
      BY <1>1
    <3>1. s[n] < s[i]
      BY <1>1 DEF Rising
    <3>. QED  BY <1>1, <1>3, <1>7, <2>1, <3>1
  <2>. QED  BY <1>1, <1>2, <2>1, <2>2 DEF Elem
<1>. QED  BY <1>2, <1>4, <1>6, <1>7 DEF z

\* The elements of a set in ascending order are all of them.
LEMMA AscendingIs ==
    ASSUME NEW n \in Nat, NEW S \in SUBSET (1 .. n), NEW s \in Ascending(S)
    PROVE  /\ s \in Seq(S) /\ Rising(s) /\ Elem(s) = S
           /\ DOMAIN s = 1 .. Len(s) /\ Len(s) \in Nat
<1>1. Cardinality(S) \in Nat
  <2>1. IsFiniteSet(1 .. n)
    BY FS_Interval
  <2>2. IsFiniteSet(S)
    BY <2>1, FS_Subset
  <2>. QED  BY <2>2, FS_CardinalityType
<1>2. PICK m \in Nat : m = Cardinality(S)
  BY <1>1
<1>3. s \in [1 .. m -> S]
  BY <1>2 DEF Ascending
<1>4. s \in Seq(S) /\ Len(s) = m /\ DOMAIN s = 1 .. m
  BY <1>3
<1>5. /\ \A i, j \in 1 .. m : i < j => s[i] < s[j]
      /\ \A x \in S : \E i \in 1 .. m : s[i] = x
  BY <1>4 DEF Ascending
<1>6. Elem(s) = S
  BY <1>3, <1>4, <1>5 DEF Elem
<1>. QED  BY <1>4, <1>5, <1>6 DEF Rising

\* Some places of a batch have a last one.
LEMMA HasGreatest ==
    ASSUME NEW n \in Nat, NEW P \in SUBSET (1 .. n), P # {}
    PROVE  \E i \in P : \A j \in P : j <= i
<1> DEFINE T == {i .. n : i \in P}
           R == StrictSubsetOrdering(1 .. n)
<1>1. IsFiniteSet(1 .. n)
  BY FS_Interval
<1>2. IsWellFoundedOn(R, SUBSET (1 .. n))
  BY <1>1, FS_StrictSubsetOrderingWellFounded, FS_FiniteSubsetsOfFinite
<1>3. T \subseteq SUBSET (1 .. n) /\ T # {}
  <2>1. ASSUME NEW i \in P
        PROVE  i .. n \subseteq 1 .. n
    OBVIOUS
  <2>. QED  BY <2>1
<1>4. PICK x \in T : \A y \in T : <<y, x>> \notin R
  <2> HIDE DEF T, R
  <2>. QED  BY <1>2, <1>3, WFMin
<1>5. PICK i \in P : x = i .. n
  OBVIOUS
<1>6. ASSUME NEW j \in P, j > i
      PROVE  FALSE
  <2>1. j .. n \in T /\ j .. n \subseteq x /\ j .. n # x
    <3>1. i \in x /\ i \notin j .. n
      BY <1>5, <1>6
    <3>2. j .. n \subseteq x
      BY <1>5, <1>6
    <3>. QED  BY <3>1, <3>2
  <2>2. <<j .. n, x>> \in R
    BY <1>3, <2>1 DEF StrictSubsetOrdering
  <2>. QED  BY <1>4, <2>1, <2>2
<1>. QED  BY <1>6

\* A row the walk is to return, and one that was there all along.
Wants(f, r, k) == f => r[k] \in Filtered
Standing(s, f, r, k) == k \in s /\ r[k] # Absent /\ Wants(f, r, k)

\* Types of what a walk reads and keeps.
WalkShape ==
    /\ rows \in [RowKey -> {Absent} \union RowValue]
    /\ steady \subseteq RowKey
    /\ walk \in [filtered : BOOLEAN, limit : Nat, start : Nat,
                 page : Seq(RowKey), got : Seq(RowKey)]

\* A walk on its way has given, in order, what it was to give up to where it
\* is; one that is over, all of it.
GoesOn(w, s, r) ==
    /\ w.limit > 0 => Len(w.page) <= w.limit
    /\ Rising(w.got) /\ Rising(w.page) /\ Below(w.got, w.page)
    /\ UpTo(w.got, w.start) /\ UpTo(w.page, w.start)
    /\ \A k \in RowKey : Standing(s, w.filtered, r, k) /\ k <= w.start =>
          k \in Elem(w.got) \/ k \in Elem(w.page)
HasAll(w, s, r) ==
    /\ Rising(w.got)
    /\ \A k \in RowKey : Standing(s, w.filtered, r, k) => k \in Elem(w.got)

\* The walk, as its job is going.
WalkInv ==
    task = "walk" => /\ result = "running" => GoesOn(walk, steady, rows)
                     /\ result = "ok" => HasAll(walk, steady, rows)

\* Sort keys are numbers.
LEMMA RowKeysAreNat == \A k \in RowKey : k \in Nat /\ k > 0
  BY DEF RowKey

\* So are the elements of a page.
LEMMA ElementsAreNat == ASSUME NEW s \in Seq(RowKey) PROVE \A x \in Elem(s) : x \in Nat
<1>1. \A i \in 1 .. Len(s) : s[i] \in RowKey
  OBVIOUS
<1>. QED  BY <1>1, RowKeysAreNat DEF Elem

\* What one call gives.
\* What a call gives, up to where the next one starts, or to the end.
Gives(start, upTo, taken, f, r) ==
    /\ taken \in Seq(RowKey) /\ Rising(taken)
    /\ \A x \in Elem(taken) : x > start
    /\ upTo # 0 => /\ upTo \in Nat /\ upTo > start
                   /\ \A x \in Elem(taken) : x <= upTo
    /\ \A k \in RowKey : /\ r[k] # Absent /\ Wants(f, r, k) /\ k > start
                         /\ upTo = 0 \/ k <= upTo
                         => k \in Elem(taken)

\* A call gives what there is up to its bookmark; cut short, up to the last
\* row that is kept: the filter and the limit do not show.
LEMMA CallGives ==
    ASSUME NEW start \in Nat, NEW limit \in Int,
           NEW e \in Evaluated(start, limit),
           NEW next \in LastEvaluatedKeys(e, start, limit),
           NEW found \in Ascending({k \in e : Wanted(k)})
    PROVE  /\ Gives(start, next, found, walk.filtered, rows)
           /\ \A n \in 1 .. Len(found) :
                 Gives(start, found[n], SubSeq(found, 1, n), walk.filtered, rows)
<1> DEFINE f == walk.filtered
<1>1. PICK m \in RowKey : e = {k \in After(start) : k <= m}
  BY DEF Evaluated
<1>2. \A k : k \in e <=> k \in RowKey /\ rows[k] # Absent /\ k > start /\ k <= m
  BY <1>1 DEF After, Present
<1>3. {k \in e : Wanted(k)} \in SUBSET RowKey
  BY <1>2
<1>4. /\ found \in Seq(RowKey) /\ Rising(found)
      /\ \A k : k \in Elem(found) <=> k \in e /\ Wants(f, rows, k)
  <2> DEFINE S == {k \in e : Wanted(k)}
  <2>1. S \in SUBSET (1 .. LastKey) /\ LastKey \in Nat
    BY <1>3, TableConstants DEF RowKey
  <2>2. found \in Seq(S) /\ Rising(found) /\ Elem(found) = S
    <3>. HIDE DEF S
    <3>1. found \in Ascending(S)
      BY DEF S
    <3>. QED  BY <2>1, <3>1, AscendingIs
  <2>. QED  BY <2>1, <2>2 DEF Wanted, Wants, RowKey
<1>5. \/ next = 0 /\ e = After(start)
      \/ next \in e /\ \A l \in e : l <= next
  BY DEF LastEvaluatedKeys, Stopped
<1>6. Gives(start, next, found, f, rows)
  <2>1. CASE next = 0 /\ e = After(start)
    BY <1>2, <1>4, <2>1 DEF Gives, After, Present
  <2>2. CASE next \in e /\ \A l \in e : l <= next
    <3>1. next \in Nat /\ next > start /\ next # 0 /\ next <= m
      BY <1>2, <2>2, RowKeysAreNat
    <3>2. \A k \in RowKey : k <= next => k <= m
      BY <3>1, RowKeysAreNat
    <3>. QED  BY <1>2, <1>4, <2>2, <3>1, <3>2 DEF Gives
  <2>. QED  BY <1>5, <2>1, <2>2
<1>7. ASSUME NEW n \in 1 .. Len(found)
      PROVE  Gives(start, found[n], SubSeq(found, 1, n), f, rows)
  <2> DEFINE z == SubSeq(found, 1, n)
             u == found[n]
  <2>1. u \in Elem(found)
    BY <1>4 DEF Elem
  <2>2. u \in RowKey /\ u \in Nat /\ u > start /\ u # 0 /\ u <= m
    BY <1>2, <1>4, <2>1, RowKeysAreNat
  <2>3. /\ z \in Seq(RowKey) /\ Rising(z)
        /\ \A x \in Elem(z) : x \in Elem(found) /\ x <= u
        /\ \A x \in Elem(found) : x <= u => x \in Elem(z)
    BY <1>4, FirstFew
  <2>4. \A k \in RowKey : k <= u => k <= m
    BY <2>2, RowKeysAreNat
  <2>. HIDE DEF z, u
  <2>. QED  BY <1>2, <1>4, <2>2, <2>3, <2>4 DEF Gives, z, u
<1>. QED  BY <1>6, <1>7

\* What is taken fits on the page.
HasRoom(w, taken) == w.limit > 0 => Len(w.page) + Len(taken) <= w.limit

\* A walk stays right as it takes what a call gives.
LEMMA WalkMovesOn ==
    ASSUME NEW w, NEW s, NEW r, NEW taken, NEW upTo \in Nat, upTo # 0,
           w.start \in Nat, w.limit \in Nat, w.page \in Seq(RowKey), w.got \in Seq(RowKey),
           GoesOn(w, s, r), Gives(w.start, upTo, taken, w.filtered, r),
           HasRoom(w, taken),
           NEW w2, w2.limit = w.limit, w2.filtered = w.filtered, w2.start = upTo,
           w2.got = w.got, w2.page = w.page \o taken
    PROVE  w.page \o taken \in Seq(RowKey) /\ GoesOn(w2, s, r)
<1>1. /\ taken \in Seq(RowKey) /\ Rising(taken) /\ upTo \in Nat /\ upTo > w.start
      /\ \A x \in Elem(taken) : x > w.start /\ x <= upTo
  BY DEF Gives
<1>2. /\ Rising(w.got) /\ Rising(w.page) /\ Below(w.got, w.page)
      /\ UpTo(w.got, w.start) /\ UpTo(w.page, w.start)
      /\ \A k \in RowKey : Standing(s, w.filtered, r, k) /\ k <= w.start =>
            k \in Elem(w.got) \/ k \in Elem(w.page)
  BY DEF GoesOn
<1>3. /\ \A x \in Elem(w.got) : x \in Nat /\ x <= w.start
      /\ \A x \in Elem(w.page) : x \in Nat /\ x <= w.start
      /\ \A x \in Elem(taken) : x \in Nat
  BY <1>1, <1>2, ElementsAreNat DEF UpTo
<1>4. Below(w.page, taken) /\ Below(w.got, taken)
  BY <1>1, <1>3 DEF Below
<1>5. /\ w.page \o taken \in Seq(RowKey) /\ Len(w.page \o taken) = Len(w.page) + Len(taken)
      /\ Elem(w.page \o taken) = Elem(w.page) \union Elem(taken)
      /\ Rising(w.page \o taken)
  BY <1>1, <1>2, <1>4, Joined
<1>6. Below(w.got, w.page \o taken)
  BY <1>2, <1>4, <1>5 DEF Below
<1>7. UpTo(w.got, upTo) /\ UpTo(w.page \o taken, upTo)
  BY <1>1, <1>3, <1>5 DEF UpTo
<1>8. ASSUME NEW k \in RowKey, Standing(s, w.filtered, r, k), k <= upTo
      PROVE  k \in Elem(w.got) \/ k \in Elem(w.page \o taken)
  <2>1. CASE k <= w.start
    BY <1>2, <1>5, <1>8, <2>1
  <2>2. CASE k > w.start
    BY <1>5, <1>8, <2>2 DEF Gives, Standing
  <2>. QED  BY <2>1, <2>2, RowKeysAreNat
<1>. QED  BY <1>1, <1>2, <1>5, <1>6, <1>7, <1>8 DEF GoesOn, HasRoom

\* A walk has all once a call says that it saw the end.
LEMMA WalkHasAll ==
    ASSUME NEW w, NEW s, NEW r, NEW taken,
           w.start \in Nat, w.page \in Seq(RowKey), w.got \in Seq(RowKey),
           GoesOn(w, s, r), Gives(w.start, 0, taken, w.filtered, r),
           NEW w2, w2.filtered = w.filtered, w2.got = w.got \o w.page \o taken
    PROVE  w.got \o w.page \o taken \in Seq(RowKey) /\ HasAll(w2, s, r)
<1>1. /\ taken \in Seq(RowKey) /\ Rising(taken)
      /\ \A x \in Elem(taken) : x > w.start
  BY DEF Gives
<1>2. /\ Rising(w.got) /\ Rising(w.page) /\ Below(w.got, w.page)
      /\ UpTo(w.got, w.start) /\ UpTo(w.page, w.start)
      /\ \A k \in RowKey : Standing(s, w.filtered, r, k) /\ k <= w.start =>
            k \in Elem(w.got) \/ k \in Elem(w.page)
  BY DEF GoesOn
<1> DEFINE z == w.got \o w.page
<1>3. z \in Seq(RowKey) /\ Rising(z) /\ Elem(z) = Elem(w.got) \union Elem(w.page)
  BY <1>2, Joined
<1>. HIDE DEF z
<1>4. /\ \A x \in Elem(z) : x \in Nat /\ x <= w.start
      /\ \A x \in Elem(taken) : x \in Nat
  <2>1. \A x \in Elem(z) : x <= w.start
    BY <1>2, <1>3 DEF UpTo
  <2>2. \A x \in Elem(z) : x \in Nat
    BY <1>3, RowKeysAreNat DEF Elem
  <2>3. \A x \in Elem(taken) : x \in Nat
    BY <1>1, RowKeysAreNat DEF Elem
  <2>. QED  BY <2>1, <2>2, <2>3
<1>5. Below(z, taken)
  BY <1>1, <1>4 DEF Below
<1>6. z \o taken \in Seq(RowKey) /\ Rising(z \o taken) /\ Elem(z \o taken) = Elem(z) \union Elem(taken)
  BY <1>1, <1>3, <1>5, Joined
<1>7. ASSUME NEW k \in RowKey, Standing(s, w.filtered, r, k)
      PROVE  k \in Elem(z \o taken)
  <2>1. CASE k <= w.start
    BY <1>2, <1>3, <1>6, <1>7, <2>1
  <2>2. CASE k > w.start
    BY <1>6, <1>7, <2>2 DEF Gives, Standing
  <2>. QED  BY <2>1, <2>2, RowKeysAreNat
<1>. QED  BY <1>6, <1>7 DEF HasAll, z

\* A call is made for the page.
LEMMA ReadPageStep ==
    ASSUME WalkShape, WalkInv, ReadPage
    PROVE  WalkShape' /\ WalkInv'
<1>1. /\ task = "walk" /\ result = "running" /\ task' = task /\ rows' = rows /\ steady' = steady
      /\ ~PageFull
  BY DEF ReadPage
<1>2. PICK e \in Evaluated(walk.start, CallLimit), next \in {0} \union RowKey :
          FetchPage(e, next)
  BY DEF ReadPage
<1>3. next \in LastEvaluatedKeys(e, walk.start, CallLimit)
  BY <1>2 DEF FetchPage
<1>4. PICK found \in Ascending({k \in e : Wanted(k)}) : AddToPage(found, next)
  BY <1>2 DEF FetchPage
<1>5. /\ walk.start \in Nat /\ walk.limit \in Nat /\ walk.page \in Seq(RowKey)
      /\ walk.got \in Seq(RowKey) /\ walk.filtered \in BOOLEAN
      /\ walk \in [filtered : BOOLEAN, limit : Nat, start : Nat,
                   page : Seq(RowKey), got : Seq(RowKey)]
  BY DEF WalkShape
<1>6. GoesOn(walk, steady, rows)
  BY <1>1 DEF WalkInv
<1> DEFINE remaining == walk.limit - Len(walk.page)
           taken == IF walk.limit > 0 /\ Len(found) > remaining
                    THEN SubSeq(found, 1, remaining) ELSE found
           upTo == IF walk.limit > 0 THEN ResumeAfter(found, remaining, next) ELSE next
<1>7. Len(walk.page) \in Nat /\ CallLimit \in Int /\ remaining \in Int
  BY <1>5 DEF CallLimit
<1>8. walk.limit > 0 => remaining > 0
  BY <1>1, <1>5, <1>6, <1>7 DEF GoesOn, PageFull
<1>9. /\ Gives(walk.start, next, found, walk.filtered, rows)
      /\ \A n \in 1 .. Len(found) :
            Gives(walk.start, found[n], SubSeq(found, 1, n), walk.filtered, rows)
  <2> DEFINE limit == CallLimit
  <2>1. limit \in Int /\ e \in Evaluated(walk.start, limit)
        /\ next \in LastEvaluatedKeys(e, walk.start, limit)
    BY <1>3, <1>7
  <2>. HIDE DEF limit
  <2>. QED  BY <1>4, <1>5, <2>1, CallGives
<1>10. found \in Seq(RowKey) /\ Len(found) \in Nat
  BY <1>9 DEF Gives
<1>11. /\ Gives(walk.start, upTo, taken, walk.filtered, rows)
       /\ walk.limit > 0 => Len(walk.page) + Len(taken) <= walk.limit
  <2>1. CASE walk.limit > 0 /\ Len(found) > remaining
    <3>1. remaining \in 1 .. Len(found)
      BY <1>7, <1>8, <1>10, <2>1
    <3>2. taken = SubSeq(found, 1, remaining) /\ upTo = found[remaining]
      BY <1>7, <1>8, <2>1 DEF ResumeAfter
    <3>3. Len(SubSeq(found, 1, remaining)) = remaining
      BY <1>10, <3>1
    <3>4. Len(walk.page) + remaining <= walk.limit
      BY <1>5, <1>7
    <3>. HIDE DEF taken, upTo, remaining
    <3>. QED  BY <1>9, <3>1, <3>2, <3>3, <3>4
  <2>2. CASE ~ (walk.limit > 0 /\ Len(found) > remaining)
    <3>1. taken = found /\ upTo = next
      BY <1>7, <2>2 DEF ResumeAfter
    <3>2. walk.limit > 0 => Len(walk.page) + Len(found) <= walk.limit
      BY <1>5, <1>7, <1>10, <2>2
    <3>. HIDE DEF taken, upTo, remaining
    <3>. QED  BY <1>9, <3>1, <3>2
  <2>. QED  BY <2>1, <2>2
<1>12. /\ upTo = 0 => /\ result' = "ok"
                      /\ walk' = [walk EXCEPT !.got = walk.got \o walk.page \o taken,
                                              !.page = <<>>]
       /\ upTo # 0 => /\ result' = result
                      /\ walk' = [walk EXCEPT !.page = walk.page \o taken, !.start = upTo]
  BY <1>4 DEF AddToPage
<1>. HIDE DEF taken, upTo, remaining
<1>13. CASE upTo = 0
  <2>1. /\ walk' = [walk EXCEPT !.got = walk.got \o walk.page \o taken, !.page = <<>>]
        /\ result' = "ok" /\ <<>> \in Seq(RowKey)
    BY <1>12, <1>13
  <2>2. walk'.filtered = walk.filtered /\ walk'.got = walk.got \o walk.page \o taken
    BY <1>5, <2>1
  <2>3. walk.got \o walk.page \o taken \in Seq(RowKey) /\ HasAll(walk', steady, rows)
    BY <1>5, <1>6, <1>11, <1>13, <2>2, WalkHasAll
  <2>4. WalkShape'
    BY <1>1, <1>5, <2>1, <2>3 DEF WalkShape
  <2>. QED  BY <1>1, <2>1, <2>3, <2>4 DEF WalkInv
<1>14. CASE upTo # 0
  <2>1. /\ walk' = [walk EXCEPT !.page = walk.page \o taken, !.start = upTo]
        /\ result' = "running"
    BY <1>1, <1>12, <1>14
  <2>2. /\ walk'.filtered = walk.filtered /\ walk'.limit = walk.limit /\ walk'.got = walk.got
        /\ walk'.start = upTo /\ walk'.page = walk.page \o taken
    BY <1>5, <2>1
  <2>3. walk.page \o taken \in Seq(RowKey) /\ upTo \in Nat /\ GoesOn(walk', steady, rows)
    <3>1. PICK w2 : w2 = walk'
      OBVIOUS
    <3>2. /\ Gives(walk.start, upTo, taken, walk.filtered, rows)
          /\ HasRoom(walk, taken) /\ upTo # 0 /\ upTo \in Nat
      BY <1>11, <1>14 DEF HasRoom, Gives
    <3>3. /\ w2.filtered = walk.filtered /\ w2.limit = walk.limit /\ w2.got = walk.got
          /\ w2.start = upTo /\ w2.page = walk.page \o taken
      BY <2>2, <3>1
    <3>4. walk.page \o taken \in Seq(RowKey) /\ GoesOn(w2, steady, rows)
      BY <1>5, <1>6, <3>2, <3>3, WalkMovesOn
    <3>. QED  BY <3>1, <3>2, <3>4
  <2>4. WalkShape'
    BY <1>1, <1>5, <2>1, <2>3 DEF WalkShape
  <2>. QED  BY <1>1, <2>1, <2>3, <2>4 DEF WalkInv
<1>. QED  BY <1>13, <1>14

\* The caller comes back for the next page.
LEMMA NextPageStep ==
    ASSUME WalkShape, WalkInv, NextPage
    PROVE  WalkShape' /\ WalkInv'
<1>1. /\ task = "walk" /\ result = "running" /\ task' = task /\ rows' = rows /\ steady' = steady
      /\ result' = result
      /\ walk' = [walk EXCEPT !.got = walk.got \o walk.page, !.page = <<>>]
  BY DEF NextPage
<1>2. /\ walk.start \in Nat /\ walk.limit \in Nat /\ walk.page \in Seq(RowKey)
      /\ walk.got \in Seq(RowKey)
      /\ walk \in [filtered : BOOLEAN, limit : Nat, start : Nat,
                   page : Seq(RowKey), got : Seq(RowKey)]
  BY DEF WalkShape
<1>3. GoesOn(walk, steady, rows)
  BY <1>1 DEF WalkInv
<1> DEFINE z == walk.got \o walk.page
<1>4. z \in Seq(RowKey) /\ Rising(z) /\ Elem(z) = Elem(walk.got) \union Elem(walk.page)
  BY <1>2, <1>3, Joined DEF GoesOn
<1>5. /\ walk'.filtered = walk.filtered /\ walk'.limit = walk.limit /\ walk'.got = z
      /\ walk'.start = walk.start /\ walk'.page = <<>>
  BY <1>1, <1>2
<1>6. <<>> \in Seq(RowKey) /\ Elem(<<>>) = {} /\ Rising(<<>>) /\ Len(<<>>) = 0
  BY DEF Elem, Rising
<1>7. WalkShape'
  BY <1>1, <1>2, <1>4, <1>6 DEF WalkShape
<1>. HIDE DEF z
<1>8. GoesOn(walk', steady, rows)
  BY <1>2, <1>3, <1>4, <1>5, <1>6 DEF GoesOn, UpTo, Below
<1>. QED  BY <1>1, <1>7, <1>8 DEF WalkInv

\* An item is in a chunk; is in a batch; is the last of its key in it.
Todo(ch, x) == \E c \in DOMAIN ch : x \in ch[c]
AtPlace(given, x) == \E i \in 1 .. Len(given) : x = given[i]
IsLastItem(given, x) == \E i \in 1 .. Len(given) : IsLast(given, i) /\ x = given[i]

\* Every place of a batch is in a chunk.
LEMMA ChunkOfPlace ==
    ASSUME NEW n \in Nat, NEW i \in 1 .. n, NEW w \in Nat \ {0}
    PROVE  \E c \in 1 .. (n + w - 1) \div w : (c - 1) * w < i /\ i <= c * w
<1>1. i - 1 \in Nat /\ n + w - 1 \in Nat
  OBVIOUS
<1>2. PICK k \in Nat, r \in Nat : k = (i - 1) \div w /\ r < w /\ i - 1 = w * k + r
  BY <1>1, Division
<1>3. PICK m \in Nat, q \in Nat : m = (n + w - 1) \div w /\ q < w /\ n + w - 1 = w * m + q
  BY <1>1, Division
<1> DEFINE a == w * k
           b == w * m
<1>4. a \in Nat /\ b \in Nat /\ (k + 1 - 1) * w = a /\ (k + 1) * w = a + w
  OBVIOUS
<1>5. m <= k => b <= a
  <2>1. \A x, y, z \in Nat : x <= y => z * x <= z * y
    OBVIOUS
  <2>. QED  BY <2>1
<1>. HIDE DEF a, b
<1>6. i - 1 = a + r /\ n + w - 1 = b + q
  BY <1>2, <1>3 DEF a, b
<1>7. k + 1 <= m
  <2> SUFFICES ASSUME m <= k
               PROVE  FALSE
    OBVIOUS
  <2>. QED  BY <1>2, <1>3, <1>4, <1>5, <1>6
<1>8. (k + 1 - 1) * w < i /\ i <= (k + 1) * w
  BY <1>2, <1>4, <1>6
<1>9. k + 1 \in 1 .. (n + w - 1) \div w
  BY <1>3, <1>7
<1>. QED  BY <1>8, <1>9

\* The chunks of a batch hold its items and nothing else.
LEMMA ChunksHoldAll ==
    ASSUME NEW S, NEW given \in Seq(S)
    PROVE  \A x : Todo(ChunksOf(given), x) <=> AtPlace(given, x)
<1>1. DOMAIN given = 1 .. Len(given) /\ Len(given) \in Nat /\ ChunkSize \in Nat \ {0}
  BY TableConstants
<1> DEFINE n == Len(given)
           m == (n + ChunkSize - 1) \div ChunkSize
           ch == [c \in 1 .. m |->
                    {given[i] : i \in {j \in 1 .. n :
                              (c - 1) * ChunkSize < j /\ j <= c * ChunkSize}}]
<1>2. ChunksOf(given) = ch
  BY <1>1 DEF ChunksOf
<1>3. ASSUME NEW x, Todo(ch, x)
      PROVE  AtPlace(given, x)
  BY <1>3 DEF Todo, AtPlace
<1>4. ASSUME NEW x, AtPlace(given, x)
      PROVE  Todo(ch, x)
  <2>1. PICK i \in 1 .. n : x = given[i]
    BY <1>4 DEF AtPlace
  <2>2. PICK c \in 1 .. m : (c - 1) * ChunkSize < i /\ i <= c * ChunkSize
    BY <1>1, ChunkOfPlace
  <2>3. x \in ch[c]
    BY <2>1, <2>2
  <2>. QED  BY <2>2, <2>3 DEF Todo
<1>. QED  BY <1>2, <1>3, <1>4

\* They have a first one.
LEMMA HasLeast ==
    ASSUME NEW n \in Nat, NEW P \in SUBSET (1 .. n), P # {}
    PROVE  \E i \in P : \A j \in P : i <= j
<1> DEFINE Q == {n + 1 - j : j \in P}
<1>1. Q \in SUBSET (1 .. n) /\ Q # {}
  <2>1. \A j \in P : n + 1 - j \in 1 .. n
    OBVIOUS
  <2>2. PICK p \in P : TRUE
    OBVIOUS
  <2>3. n + 1 - p \in Q
    BY <2>2
  <2>. QED  BY <2>1, <2>3
<1>2. PICK q \in Q : \A l \in Q : l <= q
  <2>. HIDE DEF Q
  <2>. QED  BY <1>1, HasGreatest
<1>3. PICK i \in P : q = n + 1 - i
  OBVIOUS
<1>4. \A j \in P : n + 1 - j <= n + 1 - i
  BY <1>2, <1>3
<1>. QED  BY <1>4

\* A key has one last item.
LEMMA LastItemsDiffer ==
    ASSUME NEW S, NEW given \in Seq(S),
           NEW i \in 1 .. Len(given), NEW j \in 1 .. Len(given),
           IsLast(given, i), IsLast(given, j), given[i][1] = given[j][1]
    PROVE  i = j
<1>1. Len(given) \in Nat
  OBVIOUS
<1>2. ~ (i < j)
  BY <1>1 DEF IsLast
<1>3. ~ (j < i)
  BY <1>1 DEF IsLast
<1>. QED  BY <1>1, <1>2, <1>3

\* The last item of a key is one.
LEMMA LastOfIs ==
    ASSUME NEW S, NEW given \in Seq(S), NEW i \in 1 .. Len(given)
    PROVE  \E j \in 1 .. Len(given) : /\ LastOf(given, given[i][1]) = given[j]
                                      /\ IsLast(given, j) /\ given[j][1] = given[i][1]
<1> DEFINE key == given[i][1]
           P == {j \in 1 .. Len(given) : given[j][1] = key}
<1>1. Len(given) \in Nat /\ DOMAIN given = 1 .. Len(given)
  OBVIOUS
<1>2. PICK l \in P : \A j \in P : j <= l
  <2>1. P \in SUBSET (1 .. Len(given)) /\ P # {}
    OBVIOUS
  <2>. HIDE DEF P
  <2>. QED  BY <1>1, <2>1, HasGreatest
<1>3. l \in DOMAIN given /\ given[l][1] = key /\ IsLast(given, l)
  BY <1>1, <1>2 DEF IsLast
<1>4. \E j \in DOMAIN given : given[j][1] = key /\ IsLast(given, j)
  BY <1>3
<1>5. LastOf(given, key) = given[CHOOSE j \in DOMAIN given : given[j][1] = key /\ IsLast(given, j)]
  BY DEF LastOf
<1>. HIDE DEF key, P
<1>6. PICK j : /\ j = CHOOSE j2 \in DOMAIN given : given[j2][1] = key /\ IsLast(given, j2)
               /\ j \in DOMAIN given /\ given[j][1] = key /\ IsLast(given, j)
  BY <1>4
<1>. QED  BY <1>1, <1>5, <1>6 DEF key

\* A key that is in a batch has a first place in it.
LEMMA FirstOfKey ==
    ASSUME NEW S, NEW given \in Seq(S), NEW i \in 1 .. Len(given)
    PROVE  \E j \in 1 .. Len(given) : IsFirst(given, j) /\ given[j][1] = given[i][1]
<1> DEFINE P == {j \in 1 .. Len(given) : given[j][1] = given[i][1]}
<1>1. Len(given) \in Nat
  OBVIOUS
<1>2. PICK l \in P : \A j \in P : l <= j
  <2>1. P \in SUBSET (1 .. Len(given)) /\ P # {}
    OBVIOUS
  <2>. HIDE DEF P
  <2>. QED  BY <1>1, <2>1, HasLeast
<1>3. IsFirst(given, l)
  BY <1>1, <1>2 DEF IsFirst
<1>. QED  BY <1>2, <1>3

\* Without repeated keys, a batch has the last item of each key.
LEMMA DedupedAreLast ==
    ASSUME NEW S, NEW given \in Seq(S), NEW d \in DedupeByKey(given)
    PROVE  /\ d \in Seq(S)
           /\ \A x : AtPlace(d, x) <=> IsLastItem(given, x)
<1>1. PICK firsts \in Ascending({i \in DOMAIN given : IsFirst(given, i)}) :
          d = [n \in DOMAIN firsts |-> LastOf(given, given[firsts[n]][1])]
  BY DEF DedupeByKey
<1> DEFINE F == {i \in 1 .. Len(given) : IsFirst(given, i)}
<1>2. Len(given) \in Nat /\ DOMAIN given = 1 .. Len(given)
  OBVIOUS
<1>3. /\ firsts \in Seq(F) /\ Elem(firsts) = F /\ DOMAIN firsts = 1 .. Len(firsts)
      /\ Len(firsts) \in Nat
  <2>1. F \in SUBSET (1 .. Len(given)) /\ firsts \in Ascending(F)
    BY <1>1, <1>2
  <2>. HIDE DEF F
  <2>. QED  BY <1>2, <2>1, AscendingIs
<1>4. \A n \in 1 .. Len(firsts) : firsts[n] \in 1 .. Len(given)
  BY <1>3
<1>5. \A n \in 1 .. Len(firsts) : d[n] = LastOf(given, given[firsts[n]][1])
  BY <1>1, <1>3
<1>6. ASSUME NEW n \in 1 .. Len(firsts)
      PROVE  \E j \in 1 .. Len(given) :
                d[n] = given[j] /\ IsLast(given, j) /\ given[j][1] = given[firsts[n]][1]
  <2>1. PICK i \in 1 .. Len(given) : i = firsts[n]
    BY <1>4
  <2>2. \E j \in 1 .. Len(given) : /\ LastOf(given, given[i][1]) = given[j]
                                   /\ IsLast(given, j) /\ given[j][1] = given[i][1]
    BY LastOfIs
  <2>. QED  BY <1>5, <2>1, <2>2
<1>7. d \in Seq(S) /\ Len(d) = Len(firsts)
  <2>1. PICK m \in Nat : m = Len(firsts)
    BY <1>3
  <2>2. \A n \in 1 .. m : d[n] \in S
    BY <1>6, <2>1
  <2>3. d = [n \in 1 .. m |-> d[n]]
    BY <1>1, <1>3, <2>1
  <2>4. d \in [1 .. m -> S]
    BY <2>2, <2>3
  <2>5. d \in Seq(S) /\ DOMAIN d = 1 .. m
    BY <2>4
  <2>. QED  BY <2>1, <2>5
<1>8. ASSUME NEW x, AtPlace(d, x)
      PROVE  IsLastItem(given, x)
  BY <1>6, <1>7, <1>8 DEF AtPlace, IsLastItem
<1>9. ASSUME NEW x, IsLastItem(given, x)
      PROVE  AtPlace(d, x)
  <2>1. PICK i \in 1 .. Len(given) : IsLast(given, i) /\ x = given[i]
    BY <1>9 DEF IsLastItem
  <2>2. PICK j \in 1 .. Len(given) : IsFirst(given, j) /\ given[j][1] = given[i][1]
    BY FirstOfKey
  <2>3. PICK n \in 1 .. Len(firsts) : firsts[n] = j
    <3>1. j \in Elem(firsts)
      BY <1>3, <2>2
    <3>. QED  BY <3>1 DEF Elem
  <2>4. PICK l \in 1 .. Len(given) :
            d[n] = given[l] /\ IsLast(given, l) /\ given[l][1] = given[j][1]
    BY <1>6, <2>3
  <2>5. l = i
    BY <2>1, <2>2, <2>4, LastItemsDiffer
  <2>. QED  BY <1>7, <2>1, <2>4, <2>5 DEF AtPlace
<1>. QED  BY <1>7, <1>8, <1>9

\* Types of the job.
JobShape ==
    /\ chunks = [c \in DOMAIN chunks |-> chunks[c]]
    /\ items \in Seq(RowKey \X {2, 3})
    /\ task \in {"walk", "put", "delete"}
\* Only last items are put; each is stored, or is still to be, unless someone
\* else wrote its key.
PutAlready(it, ch, s, r) ==
    /\ \A x : Todo(ch, x) => IsLastItem(it, x)
    /\ \A x : IsLastItem(it, x) /\ x[1] \in s => r[x[1]] = x[2] \/ Todo(ch, x)
\* Of the rows up to where the delete is, none is left that is not about to
\* be deleted, unless someone else wrote its key.
Deleted(start, ch, s, r) ==
    \A k \in s : k <= start => r[k] = Absent \/ Todo(ch, <<k, Absent>>)
\* The puts and the delete, as their jobs are going.
BatchesInv ==
    task = "put" => /\ PutAlready(items, chunks, steady, rows)
                    /\ result = "ok" => AllDone
DeletesInv ==
    task = "delete" => /\ Deleted(walk.start, chunks, steady, rows)
                       /\ result = "ok" => AllDone /\ walk.start > LastKey
TableInv == WalkShape /\ WalkInv /\ JobShape /\ BatchesInv /\ DeletesInv

\* When all chunks are done there is nothing to do.
LEMMA NothingTodo == AllDone => \A x : ~ Todo(chunks, x)
  BY DEF AllDone, Todo

\* The invariant holds at the start: a batch is in its chunks.
LEMMA TableBegins == TableInit => TableInv
<1> SUFFICES ASSUME TableInit
             PROVE  TableInv
  OBVIOUS
<1>1. /\ rows \in [RowKey -> {Absent} \union RowValue] /\ steady = RowKey
      /\ result = "running" /\ task \in {"walk", "put", "delete"}
  BY DEF TableInit, Absent, RowValue
<1>2. PICK f \in BOOLEAN, n \in 0 .. 2 : walk = FirstPage(f, n)
  BY DEF TableInit
<1>3. /\ walk \in [filtered : BOOLEAN, limit : Nat, start : Nat,
                   page : Seq(RowKey), got : Seq(RowKey)]
      /\ walk.page = <<>> /\ walk.got = <<>> /\ walk.start = 0 /\ walk.limit \in Nat
  BY <1>2 DEF FirstPage
<1>4. WalkShape
  BY <1>1, <1>3 DEF WalkShape
<1>5. WalkInv
  <2>1. Elem(<<>>) = {} /\ Rising(<<>>) /\ Len(<<>>) = 0
    BY DEF Elem, Rising
  <2>2. \A k \in RowKey : ~ (k <= 0)
    BY DEF RowKey
  <2>3. GoesOn(walk, steady, rows)
    BY <1>3, <2>1, <2>2 DEF GoesOn, UpTo, Below
  <2>. QED  BY <1>1, <2>3 DEF WalkInv
<1>6. items \in Seq(RowKey \X {2, 3})
  <2>1. PICK m \in 0 .. MaxBatch : items \in [1 .. m -> RowKey \X {2, 3}]
    BY DEF TableInit
  <2>2. m \in Nat
    BY TableConstants
  <2>. QED  BY <2>1, <2>2
<1>7. CASE task = "put"
  <2>1. PICK given \in DedupeByKey(items) : chunks = ChunksOf(given)
    BY <1>7 DEF TableInit
  <2>2. /\ given \in Seq(RowKey \X {2, 3})
        /\ \A x : AtPlace(given, x) <=> IsLastItem(items, x)
    BY <1>6, DedupedAreLast
  <2>3. \A x : Todo(chunks, x) <=> IsLastItem(items, x)
    BY <2>1, <2>2, ChunksHoldAll
  <2>4. chunks = [c \in DOMAIN chunks |-> chunks[c]]
    BY <2>1 DEF ChunksOf
  <2>. QED  BY <1>1, <1>4, <1>5, <1>6, <1>7, <2>3, <2>4
            DEF TableInv, JobShape, BatchesInv, DeletesInv, PutAlready
<1>8. CASE task # "put"
  <2>1. chunks = <<>>
    BY <1>8 DEF TableInit
  <2>2. chunks = [c \in DOMAIN chunks |-> chunks[c]]
    BY <2>1
  <2>3. Deleted(walk.start, chunks, steady, rows)
    <3>1. \A k \in RowKey : ~ (k <= 0)
      BY DEF RowKey
    <3>. QED  BY <1>1, <1>3, <3>1 DEF Deleted
  <2>. QED  BY <1>1, <1>4, <1>5, <1>6, <1>8, <2>2, <2>3
            DEF TableInv, JobShape, BatchesInv, DeletesInv
<1>. QED  BY <1>7, <1>8

\* Someone else writes a row.
LEMMA OtherWritesStep ==
    ASSUME TableInv, NEW k \in RowKey, NEW v \in {Absent, 1, 2}, NEW op \in WriteOp,
           OtherWrites(op, k, v)
    PROVE  TableInv'
<1>1. /\ rows' = [rows EXCEPT ![k] = v] /\ steady' = steady \ {k} /\ result = "running"
      /\ task' = task /\ result' = result /\ walk' = walk /\ items' = items /\ chunks' = chunks
  BY DEF OtherWrites
<1>2. rows \in [RowKey -> {Absent} \union RowValue] /\ steady \subseteq RowKey
  BY DEF TableInv, WalkShape
<1>3. /\ steady' \subseteq RowKey /\ steady' \subseteq steady
      /\ rows' \in [RowKey -> {Absent} \union RowValue]
      /\ \A l \in steady' : rows'[l] = rows[l]
  BY <1>1, <1>2 DEF Absent, RowValue
<1>4. WalkShape'
  BY <1>1, <1>3 DEF TableInv, WalkShape
<1>5. \A f, l : Standing(steady', f, rows', l) => Standing(steady, f, rows, l)
  BY <1>3 DEF Standing, Wants
<1>6. WalkInv'
  <2>1. GoesOn(walk, steady, rows) => GoesOn(walk, steady', rows')
    BY <1>5 DEF GoesOn
  <2>. QED  BY <1>1, <2>1 DEF TableInv, WalkInv
<1>7. JobShape'
  BY <1>1 DEF TableInv, JobShape
<1>8. BatchesInv'
  <2>1. PutAlready(items, chunks, steady, rows) => PutAlready(items, chunks, steady', rows')
    BY <1>3 DEF PutAlready
  <2>. QED  BY <1>1, <2>1 DEF TableInv, BatchesInv, AllDone
<1>9. DeletesInv'
  <2>1. Deleted(walk.start, chunks, steady, rows) => Deleted(walk.start, chunks, steady', rows')
    BY <1>3 DEF Deleted
  <2>. QED  BY <1>1, <2>1 DEF TableInv, DeletesInv, AllDone
<1>. QED  BY <1>4, <1>6, <1>7, <1>8, <1>9 DEF TableInv

\* What a call leaves in a row: what it put, or what there was.
LEMMA AppliedIs ==
    ASSUME WalkShape, NEW done, NEW k \in RowKey
    PROVE  /\ Applied(done) \in [RowKey -> {Absent} \union RowValue]
           /\ task = "delete" =>
                 Applied(done)[k] = IF <<k, Absent>> \in done THEN Absent ELSE rows[k]
           /\ task # "delete" =>
                 /\ (\A v \in RowValue : <<k, v>> \notin done) => Applied(done)[k] = rows[k]
                 /\ (\E v \in RowValue : <<k, v>> \in done) =>
                       \E v \in RowValue : <<k, v>> \in done /\ Applied(done)[k] = v
<1>1. rows \in [RowKey -> {Absent} \union RowValue]
  BY DEF WalkShape
<1>2. ASSUME NEW l \in RowKey
      PROVE  /\ Applied(done)[l] \in {Absent} \union RowValue
             /\ task = "delete" =>
                   Applied(done)[l] = IF <<l, Absent>> \in done THEN Absent ELSE rows[l]
             /\ task # "delete" =>
                   /\ (\A v \in RowValue : <<l, v>> \notin done) => Applied(done)[l] = rows[l]
                   /\ (\E v \in RowValue : <<l, v>> \in done) =>
                         \E v \in RowValue : <<l, v>> \in done /\ Applied(done)[l] = v
  <2>1. CASE task = "delete"
    BY <1>1, <2>1 DEF Applied
  <2>2. CASE task # "delete" /\ \A v \in RowValue : <<l, v>> \notin done
    BY <1>1, <2>2 DEF Applied
  <2>3. CASE task # "delete" /\ \E v \in RowValue : <<l, v>> \in done
    <3>1. PICK v \in RowValue : /\ v = CHOOSE u \in RowValue : <<l, u>> \in done
                                /\ <<l, v>> \in done
      BY <2>3
    <3>2. Applied(done)[l] = v
      BY <2>3, <3>1 DEF Applied
    <3>. QED  BY <2>3, <3>1, <3>2
  <2>. QED  BY <2>1, <2>2, <2>3
<1>3. Applied(done) = [l \in RowKey |-> Applied(done)[l]]
  BY DEF Applied
<1>. QED  BY <1>2, <1>3

\* A call does part of a chunk: what it puts is the last item of its key, so
\* that no later call undoes it.
LEMMA WriteChunkStep ==
    ASSUME TableInv, NEW c \in DOMAIN chunks, NEW done \in SUBSET chunks[c],
           WriteChunk(c, done)
    PROVE  TableInv'
<1>1. /\ task \in {"put", "delete"} /\ result = "running" /\ rows' = Applied(done)
      /\ task' = task /\ walk' = walk /\ items' = items /\ steady' = steady
      /\ \/ result' = "unprocessed" /\ chunks' = chunks
         \/ result' = result /\ chunks' = [chunks EXCEPT ![c] = chunks[c] \ done]
  BY DEF WriteChunk, Undone
<1>2. /\ WalkShape /\ JobShape /\ steady \subseteq RowKey
      /\ chunks = [d \in DOMAIN chunks |-> chunks[d]]
  BY DEF TableInv, WalkShape, JobShape
<1>3. Applied(done) \in [RowKey -> {Absent} \union RowValue]
  <2>1. CASE RowKey = {}
    BY <2>1 DEF Applied
  <2>2. CASE RowKey # {}
    BY <1>2, <2>2, AppliedIs
  <2>. QED  BY <2>1, <2>2
<1>4. WalkShape'
  BY <1>1, <1>2, <1>3 DEF WalkShape
<1>5. WalkInv'
  BY <1>1 DEF WalkInv
<1>6. chunks' = [d \in DOMAIN chunks' |-> chunks'[d]]
  BY <1>1, <1>2
<1>7. JobShape'
  BY <1>1, <1>2, <1>6 DEF JobShape
<1>8. /\ \A x : Todo(chunks', x) => Todo(chunks, x)
      /\ \A x : Todo(chunks, x) => Todo(chunks', x) \/ x \in done
      /\ \A x \in done : Todo(chunks, x)
  <2>1. \A x \in done : Todo(chunks, x)
    BY DEF Todo
  <2>2. CASE chunks' = chunks
    BY <2>1, <2>2
  <2>3. CASE chunks' = [chunks EXCEPT ![c] = chunks[c] \ done]
    <3>1. DOMAIN chunks' = DOMAIN chunks
      BY <2>3
    <3>2. \A d \in DOMAIN chunks : chunks'[d] = IF d = c THEN chunks[c] \ done ELSE chunks[d]
      BY <1>2, <2>3
    <3>. QED  BY <2>1, <3>1, <3>2 DEF Todo
  <2>. QED  BY <1>1, <2>2, <2>3
<1>9. BatchesInv'
  <2> SUFFICES ASSUME task = "put"
               PROVE  PutAlready(items, chunks', steady, rows')
    BY <1>1 DEF BatchesInv
  <2>1. PutAlready(items, chunks, steady, rows)
    BY DEF TableInv, BatchesInv
  <2>2. \A x : Todo(chunks', x) => IsLastItem(items, x)
    BY <1>8, <2>1 DEF PutAlready
  <2>3. ASSUME NEW x, IsLastItem(items, x), x[1] \in steady, ~ Todo(chunks', x)
        PROVE  rows'[x[1]] = x[2]
    <3>1. PICK i \in 1 .. Len(items) : IsLast(items, i) /\ x = items[i]
      BY <2>3 DEF IsLastItem
    <3>2. x \in RowKey \X {2, 3}
      BY <1>2, <3>1 DEF JobShape
    <3>3. PICK k \in RowKey, v \in {2, 3} : x = <<k, v>>
      BY <3>2
    <3>4. x[1] = k /\ x[2] = v /\ v \in RowValue
      BY <3>3 DEF RowValue
    <3>5. ASSUME NEW u, <<k, u>> \in done
          PROVE  u = v
      <4>1. IsLastItem(items, <<k, u>>)
        BY <1>8, <2>1, <3>5 DEF PutAlready
      <4>2. PICK j \in 1 .. Len(items) : IsLast(items, j) /\ <<k, u>> = items[j]
        BY <4>1 DEF IsLastItem
      <4>3. items[i][1] = k /\ items[j][1] = k /\ items[j][2] = u /\ items[i][2] = v
        BY <3>1, <3>3, <4>2
      <4>4. i = j
        BY <1>2, <3>1, <4>2, <4>3, LastItemsDiffer DEF JobShape
      <4>. QED  BY <4>3, <4>4
    <3>6. CASE <<k, v>> \in done
      <4>1. \E u \in RowValue : <<k, u>> \in done
        BY <3>4, <3>6
      <4>2. \E u \in RowValue : <<k, u>> \in done /\ Applied(done)[k] = u
        BY <1>2, <4>1, AppliedIs
      <4>. QED  BY <1>1, <3>4, <3>5, <4>2
    <3>7. CASE <<k, v>> \notin done
      <4>1. \A u \in RowValue : <<k, u>> \notin done
        BY <3>5, <3>7
      <4>2. rows'[k] = rows[k]
        BY <1>1, <1>2, <4>1, AppliedIs
      <4>3. ~ Todo(chunks, x)
        BY <1>8, <2>3, <3>3, <3>7
      <4>4. rows[x[1]] = x[2]
        BY <2>1, <2>3, <4>3 DEF PutAlready
      <4>. QED  BY <3>4, <4>2, <4>4
    <3>. QED  BY <3>6, <3>7
  <2>. QED  BY <2>2, <2>3 DEF PutAlready
<1>10. DeletesInv'
  <2> SUFFICES ASSUME task = "delete"
               PROVE  Deleted(walk.start, chunks', steady, rows')
    BY <1>1 DEF DeletesInv
  <2>1. Deleted(walk.start, chunks, steady, rows)
    BY DEF TableInv, DeletesInv
  <2>2. ASSUME NEW k \in steady, k <= walk.start
        PROVE  rows'[k] = Absent \/ Todo(chunks', <<k, Absent>>)
    <3>1. rows'[k] = IF <<k, Absent>> \in done THEN Absent ELSE rows[k]
      BY <1>1, <1>2, AppliedIs
    <3>. QED  BY <1>8, <2>1, <2>2, <3>1 DEF Deleted
  <2>. QED  BY <2>2 DEF Deleted
<1>. QED  BY <1>4, <1>5, <1>7, <1>9, <1>10 DEF TableInv

\* A page of keys is read: what is up to its bookmark is to be deleted.
LEMMA QueryDeletePageStep ==
    ASSUME TableInv, QueryDeletePage
    PROVE  TableInv'
<1>1. /\ task = "delete" /\ result = "running" /\ AllDone /\ walk.start <= LastKey
      /\ rows' = rows /\ steady' = steady /\ task' = task /\ result' = result /\ items' = items
  BY DEF QueryDeletePage
<1>2. PICK e \in Evaluated(walk.start, 0) :
         \E next \in LastEvaluatedKeys(e, walk.start, 0) :
            /\ \E keys \in Ascending(e) :
                  chunks' = ChunksOf([i \in DOMAIN keys |-> <<keys[i], Absent>>])
            /\ walk' = [walk EXCEPT !.start = IF next = 0 THEN LastKey + 1 ELSE next]
  BY DEF QueryDeletePage
<1>3. PICK next \in LastEvaluatedKeys(e, walk.start, 0) :
         /\ \E keys \in Ascending(e) :
               chunks' = ChunksOf([i \in DOMAIN keys |-> <<keys[i], Absent>>])
         /\ walk' = [walk EXCEPT !.start = IF next = 0 THEN LastKey + 1 ELSE next]
  BY <1>2
<1>4. PICK keys \in Ascending(e) :
         chunks' = ChunksOf([i \in DOMAIN keys |-> <<keys[i], Absent>>])
  BY <1>3
<1>5. PICK m \in RowKey : e = {k \in After(walk.start) : k <= m}
  BY DEF Evaluated
<1>6. \A k : k \in e <=> k \in RowKey /\ rows[k] # Absent /\ k > walk.start /\ k <= m
  BY <1>5 DEF After, Present
<1>7. /\ walk.start \in Nat /\ steady \subseteq RowKey /\ LastKey \in Nat /\ m \in Nat
      /\ walk \in [filtered : BOOLEAN, limit : Nat, start : Nat,
                   page : Seq(RowKey), got : Seq(RowKey)]
  BY TableConstants, RowKeysAreNat DEF TableInv, WalkShape
<1>8. \/ next = 0 /\ e = After(walk.start)
      \/ next \in e /\ \A l \in e : l <= next
  BY DEF LastEvaluatedKeys, Stopped
<1> DEFINE start == IF next = 0 THEN LastKey + 1 ELSE next
<1>9. start \in Nat /\ walk'.start = start
  BY <1>3, <1>6, <1>7, <1>8, RowKeysAreNat
<1>10. ASSUME NEW k \in RowKey, rows[k] # Absent, k > walk.start, k <= start
       PROVE  k \in e
  <2>1. CASE next = 0 /\ e = After(walk.start)
    BY <1>10, <2>1 DEF After, Present
  <2>2. CASE next \in e /\ \A l \in e : l <= next
    <3>1. next \in Nat /\ next # 0 /\ next <= m
      BY <1>6, <2>2, RowKeysAreNat
    <3>2. k <= m
      BY <1>7, <1>10, <3>1, RowKeysAreNat
    <3>. QED  BY <1>6, <1>10, <3>2
  <2>. QED  BY <1>8, <2>1, <2>2
<1>. HIDE DEF start
<1>11. ASSUME NEW k \in e
       PROVE  Todo(chunks', <<k, Absent>>)
  <2> DEFINE given == [i \in DOMAIN keys |-> <<keys[i], Absent>>]
  <2>1. e \in SUBSET (1 .. LastKey) /\ LastKey \in Nat
    BY <1>6, <1>7 DEF RowKey
  <2>2. keys \in Seq(e) /\ Elem(keys) = e /\ DOMAIN keys = 1 .. Len(keys) /\ Len(keys) \in Nat
    BY <2>1, AscendingIs
  <2>3. PICK n \in Nat : n = Len(keys)
    BY <2>2
  <2>4. given \in Seq(e \X {Absent}) /\ Len(given) = n
    <3>1. given = [i \in 1 .. n |-> <<keys[i], Absent>>]
      BY <2>2, <2>3
    <3>2. \A i \in 1 .. n : <<keys[i], Absent>> \in e \X {Absent}
      BY <2>2, <2>3
    <3>3. given \in [1 .. n -> e \X {Absent}]
      BY <3>1, <3>2
    <3>. QED  BY <3>3
  <2>5. PICK i \in 1 .. n : keys[i] = k
    BY <2>2, <2>3 DEF Elem
  <2>6. given[i] = <<k, Absent>>
    BY <2>2, <2>3, <2>5
  <2>. HIDE DEF given
  <2>7. AtPlace(given, <<k, Absent>>)
    BY <2>4, <2>5, <2>6 DEF AtPlace
  <2>8. Todo(ChunksOf(given), <<k, Absent>>)
    BY <2>4, <2>7, ChunksHoldAll
  <2>. QED  BY <1>4, <2>8 DEF given
<1>12. Deleted(start, chunks', steady, rows)
  <2> SUFFICES ASSUME NEW k \in steady, k <= start, rows[k] # Absent
               PROVE  Todo(chunks', <<k, Absent>>)
    BY DEF Deleted
  <2>1. k \in RowKey /\ k \in Nat
    BY <1>7, RowKeysAreNat
  <2>2. k > walk.start
    <3>1. ~ (k <= walk.start)
      BY <1>1, NothingTodo DEF TableInv, DeletesInv, Deleted
    <3>. QED  BY <1>7, <2>1, <3>1
  <2>. QED  BY <1>10, <1>11, <2>1, <2>2
<1>13. WalkShape'
  BY <1>1, <1>3, <1>7, <1>9 DEF TableInv, WalkShape, start
<1>14. JobShape'
  <2>1. chunks' = [c \in DOMAIN chunks' |-> chunks'[c]]
    BY <1>4 DEF ChunksOf
  <2>. QED  BY <1>1, <2>1 DEF TableInv, JobShape
<1>. QED  BY <1>1, <1>9, <1>12, <1>13, <1>14 DEF TableInv, WalkInv, BatchesInv, DeletesInv

\* A job ends.
LEMMA JobEndsStep ==
    ASSUME TableInv, BatchEnds \/ DeleteEnds \/ TableCallFails
    PROVE  TableInv'
<1>1. /\ rows' = rows /\ steady' = steady /\ task' = task /\ walk' = walk /\ items' = items
      /\ chunks' = chunks
      /\ \/ result' = "ok" /\ AllDone /\ task = "put"
         \/ result' = "ok" /\ AllDone /\ task = "delete" /\ walk.start > LastKey
         \/ result' = "error"
  BY DEF BatchEnds, DeleteEnds, TableCallFails
<1>2. WalkShape' /\ WalkInv' /\ JobShape'
  BY <1>1 DEF TableInv, WalkShape, WalkInv, JobShape
<1>3. AllDone' <=> AllDone
  BY <1>1 DEF AllDone
<1>4. BatchesInv' /\ DeletesInv'
  BY <1>1, <1>3 DEF TableInv, BatchesInv, DeletesInv
<1>. QED  BY <1>2, <1>4 DEF TableInv

\* Every step keeps the invariant.
LEMMA TableStep == TableInv /\ [TableNext]_tableVars => TableInv'
<1> SUFFICES ASSUME TableInv, [TableNext]_tableVars
             PROVE  TableInv'
  OBVIOUS
<1>1. ASSUME ReadPage \/ NextPage
      PROVE  TableInv'
  <2>1. WalkShape' /\ WalkInv'
    BY <1>1, ReadPageStep, NextPageStep DEF TableInv
  <2>2. task' = "walk" /\ chunks' = chunks /\ items' = items
    BY <1>1 DEF ReadPage, NextPage
  <2>. QED  BY <2>1, <2>2 DEF TableInv, JobShape, BatchesInv, DeletesInv
<1>2. CASE UNCHANGED tableVars
  BY <1>2
     DEF tableVars, TableInv, WalkShape, WalkInv, JobShape, BatchesInv, DeletesInv, AllDone
<1>. QED  BY <1>1, <1>2, OtherWritesStep, WriteChunkStep, QueryDeletePageStep, JobEndsStep
          DEF TableNext

\* The invariant says what callers are told.
LEMMA TableAnswers == TableInv => AnswersHold
<1> SUFFICES ASSUME TableInv
             PROVE  AnswersHold
  OBVIOUS
<1>1. WalkShape /\ JobShape /\ WalkInv /\ BatchesInv /\ DeletesInv
  BY DEF TableInv
<1>2. WalkIsComplete
  <2> SUFFICES ASSUME task = "walk", result = "ok"
               PROVE  /\ \A i, j \in DOMAIN walk.got : i < j => walk.got[i] < walk.got[j]
                      /\ \A k \in steady \intersect Present :
                            Wanted(k) => \E i \in DOMAIN walk.got : walk.got[i] = k
    BY DEF WalkIsComplete
  <2>1. HasAll(walk, steady, rows)
    BY <1>1 DEF WalkInv
  <2>2. walk.got \in Seq(RowKey) /\ DOMAIN walk.got = 1 .. Len(walk.got)
    BY <1>1 DEF WalkShape
  <2>3. ASSUME NEW k \in steady \intersect Present, Wanted(k)
        PROVE  \E i \in DOMAIN walk.got : walk.got[i] = k
    <3>1. k \in RowKey /\ Standing(steady, walk.filtered, rows, k)
      BY <2>3 DEF Present, Wanted, Standing, Wants
    <3>2. k \in Elem(walk.got)
      BY <2>1, <3>1 DEF HasAll
    <3>. QED  BY <2>2, <3>2 DEF Elem
  <2>. QED  BY <2>1, <2>2, <2>3 DEF HasAll, Rising
<1>3. BatchStoresLast
  <2> SUFFICES ASSUME task = "put", result = "ok", NEW k \in steady, NEW i \in DOMAIN items,
                      items[i][1] = k, IsLast(items, i)
               PROVE  rows[k] = items[i][2]
    BY DEF BatchStoresLast
  <2>1. items \in Seq(RowKey \X {2, 3}) /\ i \in 1 .. Len(items)
    BY <1>1 DEF JobShape
  <2>2. IsLastItem(items, items[i])
    BY <2>1 DEF IsLastItem
  <2>3. ~ Todo(chunks, items[i])
    BY <1>1, NothingTodo DEF BatchesInv
  <2>. QED  BY <1>1, <2>2, <2>3 DEF BatchesInv, PutAlready
<1>4. DeleteLeavesNone
  <2> SUFFICES ASSUME task = "delete", result = "ok", NEW k \in steady
               PROVE  rows[k] = Absent
    BY DEF DeleteLeavesNone
  <2>1. AllDone /\ walk.start > LastKey /\ Deleted(walk.start, chunks, steady, rows)
    BY <1>1 DEF DeletesInv
  <2>2. k <= walk.start
    <3>1. k \in Nat /\ k <= LastKey /\ LastKey \in Nat /\ walk.start \in Nat
      BY <1>1, TableConstants DEF WalkShape, RowKey
    <3>. QED  BY <2>1, <3>1
  <2>. QED  BY <2>1, <2>2, NothingTodo DEF Deleted
<1>. QED  BY <1>2, <1>3, <1>4 DEF AnswersHold

\* What a caller is told was done is what was done (awsutils/dynamodbutil),
\* wherever the service stops, whatever it leaves undone and whoever else writes:
\* for any number of keys, size of chunks, attempts, batches and limits.
THEOREM AnswersAreTrue == TableSpec => []AnswersHold
  BY TableBegins, TableStep, TableAnswers, PTL DEF TableSpec

----------------------------------------------------------------------------
(* TableAccess: types, and calls within the attempts there are.            *)

\* A chunk that is not done has an attempt rest, while the job runs.
AttemptsLeft ==
    /\ DOMAIN attempts = DOMAIN chunks
    /\ \A c \in DOMAIN chunks :
          /\ attempts[c] \in 0 .. MaxAttempts
          /\ result = "running" /\ chunks[c] # {} => attempts[c] < MaxAttempts

TableBounds ==
    /\ writes \in 0 .. MaxWrites
    /\ result \in {"running", "ok", "unprocessed", "error"}
    /\ walk.start \in 0 .. LastKey + 1
    /\ AttemptsLeft

\* A walk is at a key there may be.
LEMMA PageStarts ==
    ASSUME TableInv, TableBounds, ReadPage
    PROVE  TableBounds'
<1>1. UNCHANGED <<writes, chunks, attempts>> /\ result = "running"
  BY DEF ReadPage
<1>2. PICK e \in Evaluated(walk.start, CallLimit), next \in {0} \union RowKey :
          FetchPage(e, next)
  BY DEF ReadPage
<1>3. next \in LastEvaluatedKeys(e, walk.start, CallLimit)
  BY <1>2 DEF FetchPage
<1>4. PICK found \in Ascending({k \in e : Wanted(k)}) : AddToPage(found, next)
  BY <1>2 DEF FetchPage
<1>5. /\ walk.start \in Nat /\ walk.limit \in Nat /\ Len(walk.page) \in Nat
      /\ walk \in [filtered : BOOLEAN, limit : Nat, start : Nat,
                   page : Seq(RowKey), got : Seq(RowKey)]
  BY DEF TableInv, WalkShape
<1>6. found \in Seq(RowKey) /\ Len(found) \in Nat
  <2> DEFINE limit == CallLimit
  <2>1. limit \in Int /\ e \in Evaluated(walk.start, limit)
        /\ next \in LastEvaluatedKeys(e, walk.start, limit)
    BY <1>3, <1>5 DEF CallLimit
  <2> HIDE DEF limit
  <2>2. Gives(walk.start, next, found, walk.filtered, rows)
    BY <1>4, <1>5, <2>1, CallGives
  <2> QED BY <2>2 DEF Gives
<1> DEFINE remaining == walk.limit - Len(walk.page)
           upTo == IF walk.limit > 0 THEN ResumeAfter(found, remaining, next) ELSE next
<1>7. upTo \in {0} \union RowKey
  <2>1. CASE walk.limit > 0 /\ remaining > 0 /\ Len(found) > remaining
    <3>1. remaining \in 1 .. Len(found)
      BY <1>5, <1>6, <2>1
    <3>2. upTo = found[remaining]
      BY <2>1 DEF ResumeAfter
    <3> HIDE DEF upTo, remaining
    <3> QED BY <1>6, <3>1, <3>2
  <2>2. CASE ~ (walk.limit > 0 /\ remaining > 0 /\ Len(found) > remaining)
    BY <2>2 DEF ResumeAfter
  <2> QED BY <2>1, <2>2
<1>8. \/ result' = "ok" /\ walk'.start = walk.start
      \/ result' = result /\ walk'.start = upTo
  <2>1. PICK taken :
           IF upTo = 0
           THEN /\ result' = "ok"
                /\ walk' = [walk EXCEPT !.got = @ \o walk.page \o taken, !.page = <<>>]
           ELSE /\ UNCHANGED result
                /\ walk' = [walk EXCEPT !.page = @ \o taken, !.start = upTo]
    BY <1>4, Zenon DEF AddToPage
  <2> HIDE DEF upTo
  <2> QED BY <1>5, <2>1
<1> HIDE DEF upTo
<1>9. walk'.start \in 0 .. LastKey + 1
  BY <1>7, <1>8, TableConstants DEF TableBounds, RowKey
<1> QED BY <1>1, <1>8, <1>9 DEF TableBounds, AttemptsLeft

\* A call is counted, and the last one ends the job unless it did all.
LEMMA CallsCounted ==
    ASSUME TableInv, TableBounds, NEW c \in DOMAIN chunks, NEW done \in SUBSET chunks[c],
           WriteChunk(c, done)
    PROVE  TableBounds'
<1>1. /\ result = "running" /\ chunks[c] # {} /\ UNCHANGED <<writes, walk>>
      /\ attempts' = [attempts EXCEPT ![c] = attempts[c] + 1]
  BY DEF WriteChunk
<1>2. attempts[c] \in 0 .. MaxAttempts /\ attempts[c] < MaxAttempts
  BY <1>1 DEF TableBounds, AttemptsLeft
<1>3. PICK n : n = attempts[c] + 1
  OBVIOUS
<1>4. n \in 0 .. MaxAttempts
  BY <1>2, <1>3, TableConstants
<1>5. PICK rest : rest = chunks[c] \ done
  OBVIOUS
<1>6. \/ result' = "unprocessed" /\ chunks' = chunks
      \/ /\ rest = {} \/ n # MaxAttempts
         /\ chunks' = [chunks EXCEPT ![c] = rest] /\ result' = result
  BY <1>3, <1>5 DEF WriteChunk, Undone
<1>7. DOMAIN chunks' = DOMAIN chunks /\ DOMAIN attempts' = DOMAIN chunks
  BY <1>1, <1>6 DEF TableBounds, AttemptsLeft
<1>8. ASSUME NEW d \in DOMAIN chunks
      PROVE  /\ attempts'[d] \in 0 .. MaxAttempts
             /\ result' = "running" /\ chunks'[d] # {} => attempts'[d] < MaxAttempts
  <2>1. CASE d = c
    <3>1. attempts'[d] = n
      BY <1>1, <1>3, <2>1 DEF TableBounds, AttemptsLeft
    <3>2. result' = "running" /\ chunks'[d] # {} => n # MaxAttempts
      BY <1>6, <2>1
    <3> QED BY <1>4, <3>1, <3>2, TableConstants
  <2>2. CASE d # c
    <3>1. attempts'[d] = attempts[d] /\ chunks'[d] = chunks[d]
      BY <1>1, <1>6, <2>2 DEF TableBounds, AttemptsLeft
    <3> QED BY <1>1, <3>1 DEF TableBounds, AttemptsLeft
  <2> QED BY <2>1, <2>2
<1> QED BY <1>1, <1>6, <1>7, <1>8 DEF TableBounds, AttemptsLeft

\* The calls for a page of keys are yet to be made.
LEMMA PageCounted ==
    ASSUME TableInv, TableBounds, QueryDeletePage
    PROVE  TableBounds'
<1>1. UNCHANGED <<writes, result>> /\ attempts' = [c \in DOMAIN chunks' |-> 0]
  BY DEF QueryDeletePage
<1>2. PICK e \in Evaluated(walk.start, 0) :
         \E next \in LastEvaluatedKeys(e, walk.start, 0) :
            walk' = [walk EXCEPT !.start = IF next = 0 THEN LastKey + 1 ELSE next]
  BY DEF QueryDeletePage
<1>3. PICK next \in LastEvaluatedKeys(e, walk.start, 0) :
         walk' = [walk EXCEPT !.start = IF next = 0 THEN LastKey + 1 ELSE next]
  BY <1>2
<1>4. next \in {0} \union RowKey
  <2>1. e \subseteq RowKey
    BY DEF Evaluated, After, Present
  <2> QED BY <2>1 DEF LastEvaluatedKeys, Stopped
<1>5. walk'.start = IF next = 0 THEN LastKey + 1 ELSE next
  BY <1>3 DEF TableInv, WalkShape
<1>6. walk'.start \in 0 .. LastKey + 1
  BY <1>4, <1>5, TableConstants DEF RowKey
<1> QED BY <1>1, <1>6, TableConstants DEF TableBounds, AttemptsLeft

\* Rows, walks and batches keep their types, and no chunk is asked for more
\* often than there are attempts.
LEMMA TableTyped == TableSpec => []TableTypeOK
<1>1. TableInit => TableBounds
  <2> SUFFICES ASSUME TableInit PROVE TableBounds
    OBVIOUS
  <2>1. walk.start = 0
    BY DEF TableInit, FirstPage
  <2>2. attempts = [c \in DOMAIN chunks |-> 0] /\ writes = 0 /\ result = "running"
    BY DEF TableInit
  <2> QED BY <2>1, <2>2, TableConstants DEF TableBounds, AttemptsLeft
<1>2. TableInv /\ TableBounds /\ [TableNext]_tableVars => TableBounds'
  <2> SUFFICES ASSUME TableInv, TableBounds, [TableNext]_tableVars PROVE TableBounds'
    OBVIOUS
  <2>1. CASE UNCHANGED tableVars
    BY <2>1 DEF TableBounds, AttemptsLeft, tableVars
  <2>2. ASSUME NEW k \in RowKey, NEW v \in {Absent, 1, 2}, NEW op \in WriteOp, OtherWrites(op, k, v)
        PROVE  TableBounds'
    BY <2>2, TableConstants DEF OtherWrites, TableBounds, AttemptsLeft
  <2>3. CASE NextPage
    <3>1. walk'.start = walk.start /\ UNCHANGED <<writes, result, chunks, attempts>>
      BY <2>3 DEF NextPage, TableInv, WalkShape
    <3> QED BY <3>1 DEF TableBounds, AttemptsLeft
  <2>4. CASE BatchEnds \/ DeleteEnds \/ TableCallFails
    BY <2>4 DEF BatchEnds, DeleteEnds, TableCallFails, TableBounds, AttemptsLeft
  <2> QED BY <2>1, <2>2, <2>3, <2>4, PageStarts, CallsCounted, PageCounted DEF TableNext
<1>3. TableInv /\ TableBounds => TableTypeOK
  BY DEF TableInv, WalkShape, TableBounds, AttemptsLeft, TableTypeOK
<1> QED BY <1>1, <1>2, <1>3, TableBegins, TableStep, PTL DEF TableSpec

----------------------------------------------------------------------------
(* TimeSeries: the windows of every kind have taken in the readings that   *)
(* left the stream, in the order of their ticks.  Sums over sets come      *)
(* first: the library has no facts about them.                             *)

\* V is the sum of f over each subset of S.
Adds(V, f, S) ==
    /\ V \in [SUBSET S -> Int]
    /\ V[{}] = 0
    /\ \A U \in SUBSET S : \A x \in U : V[U] = f[x] + V[U \ {x}]

\* Over a finite set the sum exists: a smallest set without one cannot be.
LEMMA SumExists ==
    ASSUME NEW S, IsFiniteSet(S), NEW f, \A x \in S : f[x] \in Int
    PROVE  \E V : Adds(V, f, S)
<1> DEFINE Bad == {T \in SUBSET S : ~ \E V : Adds(V, f, T)}
           R == StrictSubsetOrdering(S)
<1> SUFFICES ASSUME Bad # {}
             PROVE  FALSE
  OBVIOUS
<1>1. IsWellFoundedOn(R, SUBSET S)
  <2>1. FiniteSubsetsOf(S) = SUBSET S
    BY FS_FiniteSubsetsOfFinite
  <2>. QED  BY <2>1, FS_StrictSubsetOrderingWellFounded
<1>2. PICK T \in Bad : \A U \in Bad : <<U, T>> \notin R
  <2>1. Bad \subseteq SUBSET S
    OBVIOUS
  <2>. HIDE DEF Bad, R
  <2>. QED  BY <1>1, <2>1, WFMin
<1>3. T \in SUBSET S /\ ~ \E V : Adds(V, f, T)
  OBVIOUS
<1>4. CASE T = {}
  <2>1. Adds([U \in {{}} |-> 0], f, {})
    BY DEF Adds
  <2>. QED  BY <1>3, <1>4, <2>1
<1>5. CASE T # {}
  <2>1. PICK x \in T : TRUE
    BY <1>5
  <2>2. PICK V : Adds(V, f, T \ {x})
    <3>1. T \ {x} \in SUBSET S /\ T \ {x} \subseteq T /\ T \ {x} # T
      BY <1>3
    <3>2. <<T \ {x}, T>> \in R
      BY <1>3, <3>1 DEF StrictSubsetOrdering
    <3>3. T \ {x} \notin Bad
      BY <1>2, <3>2
    <3>. QED  BY <3>1, <3>3
  <2>3. f[x] \in Int
    BY <1>3
  <2> DEFINE W == [U \in SUBSET T |-> IF x \in U THEN f[x] + V[U \ {x}] ELSE V[U]]
  <2>4. \A U \in SUBSET T : V[U \ {x}] \in Int /\ (x \notin U => V[U] \in Int)
    BY <2>2 DEF Adds
  <2>5. W \in [SUBSET T -> Int]
    <3>1. ASSUME NEW U \in SUBSET T
          PROVE  (IF x \in U THEN f[x] + V[U \ {x}] ELSE V[U]) \in Int
      <4>1. CASE x \in U
        <5>1. V[U \ {x}] \in Int
          BY <2>4
        <5>2. f[x] + V[U \ {x}] \in Int
          BY <2>3, <5>1
        <5>. QED  BY <4>1, <5>2
      <4>2. CASE x \notin U
        BY <2>4, <4>2
      <4>. QED  BY <4>1, <4>2
    <3>. QED  BY <3>1
  <2>6. W[{}] = 0
    BY <2>2 DEF Adds
  <2>7. ASSUME NEW U \in SUBSET T, NEW y \in U
        PROVE  W[U] = f[y] + W[U \ {y}]
    <3>1. CASE y = x
      BY <3>1
    <3>2. CASE y # x /\ x \in U
      <4>1. V[U \ {x}] = f[y] + V[(U \ {x}) \ {y}]
        BY <2>2, <3>2 DEF Adds
      <4>2. (U \ {y}) \ {x} = (U \ {x}) \ {y}
        OBVIOUS
      <4>3. W[U] = f[x] + (f[y] + V[(U \ {x}) \ {y}])
        BY <3>2, <4>1
      <4>4. W[U \ {y}] = f[x] + V[(U \ {x}) \ {y}]
        BY <3>2, <4>2
      <4>5. f[y] \in Int /\ V[(U \ {x}) \ {y}] \in Int
        BY <1>3, <2>2 DEF Adds
      <4>. QED  BY <2>3, <4>3, <4>4, <4>5
    <3>3. CASE x \notin U
      BY <2>2, <3>3 DEF Adds
    <3>. QED  BY <3>1, <3>2, <3>3
  <2>. HIDE DEF W
  <2>8. Adds(W, f, T)
    BY <2>5, <2>6, <2>7 DEF Adds
  <2>. QED  BY <1>3, <2>8
<1>. QED  BY <1>4, <1>5

\* What MapThenSumSet computes, as a function of the subset.
SumIter(f, S) == CHOOSE iter : iter = [s \in SUBSET S |->
    IF s = {} THEN 0 ELSE f[CHOOSE x \in s : TRUE] + iter[s \ {CHOOSE x \in s : TRUE}]]

\* The sum of f over S, as the model takes it.
SumOf(f, S) == MapThenSumSet(LAMBDA x : f[x], S)

\* The sum is the last value of that function.
LEMMA SumIsIter == ASSUME NEW f, NEW S PROVE SumOf(f, S) = SumIter(f, S)[S]
  BY DEF SumOf, MapThenSumSet, MapThenFoldSet, SumIter

\* The order in which the elements are taken does not matter: what adds up is
\* the sum.
LEMMA SumIs ==
    ASSUME NEW S, IsFiniteSet(S), NEW f, NEW V, Adds(V, f, S)
    PROVE  SumOf(f, S) = V[S]
<1> DEFINE Eq(h) == h = [s \in SUBSET S |->
              IF s = {} THEN 0 ELSE f[CHOOSE x \in s : TRUE] + h[s \ {CHOOSE x \in s : TRUE}]]
           g == SumIter(f, S)
<1>1. Eq(V)
  <2>1. ASSUME NEW s \in SUBSET S
        PROVE  V[s] = IF s = {} THEN 0
                      ELSE f[CHOOSE x \in s : TRUE] + V[s \ {CHOOSE x \in s : TRUE}]
    <3>1. CASE s = {}
      BY <3>1 DEF Adds
    <3>2. CASE s # {}
      <4>1. (CHOOSE x \in s : TRUE) \in s
        BY <3>2
      <4>. QED  BY <3>2, <4>1 DEF Adds
    <3>. QED  BY <3>1, <3>2
  <2>2. V = [s \in SUBSET S |-> V[s]]
    BY DEF Adds
  <2>. QED  BY <2>1, <2>2
<1>2. g = CHOOSE h : Eq(h)
  BY DEF SumIter
<1>3. Eq(g)
  <2>. HIDE DEF Eq, g
  <2>. QED  BY <1>1, <1>2
<1> DEFINE Bad == {U \in SUBSET S : g[U] # V[U]}
           R == StrictSubsetOrdering(S)
<1>4. Bad = {}
  <2> SUFFICES ASSUME Bad # {}
               PROVE  FALSE
    OBVIOUS
  <2>1. IsWellFoundedOn(R, SUBSET S)
    <3>1. FiniteSubsetsOf(S) = SUBSET S
      BY FS_FiniteSubsetsOfFinite
    <3>. QED  BY <3>1, FS_StrictSubsetOrderingWellFounded
  <2>2. PICK T \in Bad : \A U \in Bad : <<U, T>> \notin R
    <3>1. Bad \subseteq SUBSET S
      OBVIOUS
    <3>. HIDE DEF Bad, R
    <3>. QED  BY <2>1, <3>1, WFMin
  <2>3. T \in SUBSET S /\ g[T] # V[T]
    OBVIOUS
  <2>4. T # {}
    <3>1. g[{}] = 0 /\ V[{}] = 0
      <4>. HIDE DEF g
      <4>. QED  BY <1>1, <1>3
    <3>. QED  BY <2>3, <3>1
  <2>5. PICK x \in T : x = CHOOSE y \in T : TRUE
    BY <2>4
  <2>6. g[T \ {x}] = V[T \ {x}]
    <3>1. T \ {x} \in SUBSET S /\ T \ {x} \subseteq T /\ T \ {x} # T
      BY <2>3
    <3>2. <<T \ {x}, T>> \in R
      BY <2>3, <3>1 DEF StrictSubsetOrdering
    <3>3. T \ {x} \notin Bad
      BY <2>2, <3>2
    <3>. QED  BY <3>1, <3>3
  <2>7. g[T] = f[x] + g[T \ {x}] /\ V[T] = f[x] + V[T \ {x}]
    <3>. HIDE DEF g
    <3>. QED  BY <1>1, <1>3, <2>3, <2>4, <2>5
  <2>. HIDE DEF g
  <2>. QED  BY <2>3, <2>6, <2>7
<1>5. g[S] = V[S]
  <2>. HIDE DEF g
  <2>. QED  BY <1>4
<1>. QED  BY <1>5, SumIsIter

\* The sum over nothing.
LEMMA SumOfNone == \A f : SumOf(f, {}) = 0
<1> SUFFICES ASSUME NEW f
             PROVE  SumOf(f, {}) = 0
  OBVIOUS
<1> DEFINE V == [U \in SUBSET {} |-> 0]
<1>1. Adds(V, f, {}) /\ V[{}] = 0
  BY DEF Adds
<1>2. IsFiniteSet({})
  BY FS_EmptySet
<1>. HIDE DEF V
<1>. QED  BY <1>1, <1>2, SumIs

\* An element more adds its value.
LEMMA SumOfOneMore ==
    ASSUME NEW S, IsFiniteSet(S), NEW x, x \notin S, NEW f,
           \A y \in S \union {x} : f[y] \in Int
    PROVE  /\ SumOf(f, S) \in Int /\ SumOf(f, S \union {x}) \in Int
           /\ SumOf(f, S \union {x}) = SumOf(f, S) + f[x]
<1>1. IsFiniteSet(S \union {x})
  BY FS_AddElement
<1>2. PICK V : Adds(V, f, S \union {x})
  BY <1>1, SumExists
<1> DEFINE W == [U \in SUBSET S |-> V[U]]
<1>3. Adds(W, f, S) /\ W[S] = V[S]
  BY <1>2 DEF Adds
<1>. HIDE DEF W
<1>4. SumOf(f, S) = V[S]
  BY <1>3, SumIs
<1>5. SumOf(f, S \union {x}) = V[S \union {x}]
  BY <1>1, <1>2, SumIs
<1>6. (S \union {x}) \ {x} = S
  OBVIOUS
<1>7. V[S \union {x}] = f[x] + V[S] /\ V[S] \in Int /\ V[S \union {x}] \in Int /\ f[x] \in Int
  BY <1>2, <1>6 DEF Adds
<1>. QED  BY <1>4, <1>5, <1>7

\* Equal values have equal sums.
LEMMA SumOfSame ==
    ASSUME NEW S, IsFiniteSet(S), NEW f, NEW g, \A x \in S : f[x] \in Int /\ g[x] = f[x]
    PROVE  SumOf(f, S) = SumOf(g, S) /\ SumOf(f, S) \in Int
<1>1. PICK V : Adds(V, f, S)
  BY SumExists
<1>2. Adds(V, g, S)
  BY <1>1 DEF Adds
<1>3. V[S] \in Int
  BY <1>1 DEF Adds
<1>. QED  BY <1>1, <1>2, <1>3, SumIs

\* A value that changes changes the sum by as much.
LEMMA SumOfChanged ==
    ASSUME NEW S, IsFiniteSet(S), NEW x \in S, NEW f, NEW g,
           \A y \in S : f[y] \in Int /\ g[y] \in Int /\ (y # x => g[y] = f[y])
    PROVE  /\ SumOf(f, S) \in Int /\ SumOf(g, S) \in Int
           /\ SumOf(g, S) = SumOf(f, S) + (g[x] - f[x])
<1> DEFINE T == S \ {x}
<1>1. IsFiniteSet(T) /\ x \notin T /\ T \union {x} = S
  BY FS_Subset
<1>2. \A y \in T : f[y] \in Int /\ g[y] = f[y]
  OBVIOUS
<1>. HIDE DEF T
<1>3. SumOf(f, S) = SumOf(f, T) + f[x] /\ SumOf(f, T) \in Int /\ SumOf(f, S) \in Int
  BY <1>1, SumOfOneMore
<1>4. SumOf(g, S) = SumOf(g, T) + g[x] /\ SumOf(g, S) \in Int
  BY <1>1, SumOfOneMore
<1>5. SumOf(g, T) = SumOf(f, T)
  BY <1>1, <1>2, SumOfSame
<1>6. f[x] \in Int /\ g[x] \in Int
  OBVIOUS
<1>. QED  BY <1>3, <1>4, <1>5, <1>6

\* Aggregates; what is known of a window, from the current row and the
\* archive; its counts and its sums.
Agg == [window : Int, count : Nat, sum : Int, first : Int, last : Int]

KnownOf(c, a, x) == IF c.count > 0 /\ c.window = x THEN c ELSE a[x]
CountOf(c, a) == [x \in Window |-> KnownOf(c, a, x).count]
SumsOf(c, a) == [x \in Window |-> KnownOf(c, a, x).sum]

\* The latest of some readings, the earlier ones, and what a reading shows
\* used since the one before it.
Latest(q, R) == q \in R /\ \A o \in R : o.ts <= q.ts
EarlierIn(R, p) == {q \in R : q.ts < p.ts}
Newest(E) == CHOOSE q \in E : \A o \in E : o.ts <= q.ts
UsedAfter(v, last) == IF v < last THEN v ELSE v - last
UsedSince(R, p) ==
    IF EarlierIn(R, p) = {} THEN 0
    ELSE UsedAfter(p.value, Newest(EarlierIn(R, p)).value)

\* What the readings add up to: of a gauge, and of a meter.
ValuesOf(R) == [p \in R |-> p.value]
UseOf(R) == [p \in R |-> UsedSince(R, p)]

\* Folded and Archived, of the kind of series, the current row c and the
\* archive a: what a window starts from, what a value adds, what is put.
BaseOf(kd, c, w) ==
    IF Left(c, w)
    THEN IF kd = "meter"
         THEN [NoAggregate EXCEPT !.window = w, !.first = c.last, !.last = c.last]
         ELSE [NoAggregate EXCEPT !.window = w]
    ELSE [c EXCEPT !.window = w]
AddedTo(kd, b, w, v) ==
    LET delta == IF v < b.last THEN v ELSE v - b.last
    IN IF b.count = 0 /\ (b.first = 0 \/ kd # "meter")
       THEN [window |-> w, first |-> v, last |-> v,
             count |-> IF kd = "meter" THEN 0 ELSE 1,
             sum |-> IF kd = "meter" THEN 0 ELSE v]
       ELSE [b EXCEPT !.count = @ + 1, !.last = v,
                      !.sum = @ + IF kd = "meter" THEN delta ELSE v]
FoldedOf(kd, c, w, v) == AddedTo(kd, BaseOf(kd, c, w), w, v)

ArchivedOf(c, a, w) == IF Left(c, w) THEN [a EXCEPT ![c.window] = c] ELSE a

\* They are what the model folds.
LEMMA FoldedIs ==
    ASSUME NEW c, NEW w, NEW p
    PROVE  Folded(c, w, p) = FoldedOf(kindOf[p.series], c, w, p.value)
<1>1. (IF Left(c, w) THEN Reset(c, w, p) ELSE [c EXCEPT !.window = w])
         = BaseOf(kindOf[p.series], c, w)
  BY DEF Reset, BaseOf
<1>2. \A b : UpdateStats(b, w, p) = AddedTo(kindOf[p.series], b, w, p.value)
  BY DEF UpdateStats, AddedTo
<1>. QED  BY <1>1, <1>2 DEF Folded, FoldedOf

\* What a window starts from, field by field: a meter's has the last value.
LEMMA BaseFields ==
    ASSUME NEW kd, NEW c \in Agg, NEW w \in Int, c.count = 0 => c.sum = 0,
           NEW b, b = BaseOf(kd, c, w)
    PROVE  /\ b \in Agg /\ b.window = w
           /\ c.count > 0 /\ c.window = w => b.count = c.count /\ b.sum = c.sum
           /\ ~ (c.count > 0 /\ c.window = w) => b.count = 0 /\ b.sum = 0
           /\ kd = "meter" => /\ c.count = 0 \/ c.window = w => b.first = c.first
                              /\ b.last = c.last
                              /\ c.count > 0 /\ c.window # w => b.first = c.last
<1>1. c = [window |-> c.window, count |-> c.count, sum |-> c.sum, first |-> c.first,
           last |-> c.last]
      /\ c.window \in Int /\ c.count \in Nat /\ c.sum \in Int /\ c.first \in Int /\ c.last \in Int
  BY DEF Agg
<1>2. CASE Left(c, w)
  <2>1. c.count > 0 /\ c.window # w
    BY <1>1, <1>2 DEF Left
  <2>2. CASE kd = "meter"
    <3>1. b = [window |-> w, count |-> 0, sum |-> 0, first |-> c.last, last |-> c.last]
      BY <1>2, <2>2 DEF BaseOf, NoAggregate
    <3>. QED  BY <1>1, <2>1, <3>1 DEF Agg
  <2>3. CASE kd # "meter"
    <3>1. b = [window |-> w, count |-> 0, sum |-> 0, first |-> 0, last |-> 0]
      BY <1>2, <2>3 DEF BaseOf, NoAggregate
    <3>. QED  BY <1>1, <2>1, <2>3, <3>1 DEF Agg
  <2>. QED  BY <2>2, <2>3
<1>3. CASE ~ Left(c, w)
  <2>1. c.count = 0 \/ (c.count > 0 /\ c.window = w)
    BY <1>1, <1>3 DEF Left
  <2>2. b = [window |-> w, count |-> c.count, sum |-> c.sum, first |-> c.first, last |-> c.last]
    BY <1>1, <1>3 DEF BaseOf
  <2>. QED  BY <1>1, <2>1, <2>2 DEF Agg
<1>. QED  BY <1>2, <1>3

\* What a value adds, field by field.
LEMMA AddedFields ==
    ASSUME NEW kd, NEW b \in Agg, NEW w \in Int, NEW v \in Int, v > 0, b.window = w,
           NEW n, n = AddedTo(kd, b, w, v)
    PROVE  /\ n \in Agg /\ n.window = w /\ n.last = v
           /\ n.count = 0 => n.sum = 0
           /\ kd # "meter" =>
                 /\ b.count = 0 => n.first = v /\ n.count = 1 /\ n.sum = v
                 /\ b.count > 0 =>
                       n.first = b.first /\ n.count = b.count + 1 /\ n.sum = b.sum + v
           /\ kd = "meter" /\ b.count = 0 /\ b.first = 0 =>
                 n.count = 0 /\ n.first = v
           /\ kd = "meter" /\ ~ (b.count = 0 /\ b.first = 0) =>
                 /\ n.count > 0 /\ n.first = b.first
                 /\ n.sum = b.sum + (IF v < b.last THEN v ELSE v - b.last)
<1>1. b = [window |-> b.window, count |-> b.count, sum |-> b.sum, first |-> b.first,
           last |-> b.last]
      /\ b.window \in Int /\ b.count \in Nat /\ b.sum \in Int /\ b.first \in Int /\ b.last \in Int
  BY DEF Agg
<1>2. CASE b.count = 0 /\ (b.first = 0 \/ kd # "meter")
  <2>1. n = [window |-> w, first |-> v, last |-> v,
             count |-> IF kd = "meter" THEN 0 ELSE 1,
             sum |-> IF kd = "meter" THEN 0 ELSE v]
    BY <1>2 DEF AddedTo
  <2>2. CASE kd = "meter"
    <3>1. n = [window |-> w, first |-> v, last |-> v, count |-> 0, sum |-> 0]
      BY <2>1, <2>2
    <3>. QED  BY <1>1, <1>2, <2>2, <3>1 DEF Agg
  <2>3. CASE kd # "meter"
    <3>1. n = [window |-> w, first |-> v, last |-> v, count |-> 1, sum |-> v]
      BY <2>1, <2>3
    <3>. QED  BY <1>1, <1>2, <2>3, <3>1 DEF Agg
  <2>. QED  BY <2>2, <2>3
<1>3. CASE ~ (b.count = 0 /\ (b.first = 0 \/ kd # "meter"))
  <2> DEFINE d == IF kd = "meter" THEN IF v < b.last THEN v ELSE v - b.last ELSE v
  <2>1. n = [window |-> w, count |-> b.count + 1, sum |-> b.sum + d, first |-> b.first,
             last |-> v]
    BY <1>1, <1>3 DEF AddedTo
  <2>2. d \in Int
    BY <1>1
  <2>3. /\ n \in Agg /\ n.window = w /\ n.last = v /\ n.count = b.count + 1
        /\ n.sum = b.sum + d /\ n.first = b.first
    <3>. HIDE DEF d
    <3>. QED  BY <1>1, <2>1, <2>2 DEF Agg
  <2>4. n.count > 0
    BY <1>1, <2>3
  <2>. QED  BY <1>1, <1>3, <2>3, <2>4
<1>. QED  BY <1>2, <1>3

\* Nothing is known of the windows ahead of the current one.
Empty(agg) == agg.count = 0 /\ agg.sum = 0
Ahead(c, a) == \A x \in Window : c.count = 0 \/ x >= c.window => Empty(a[x])

\* Windows are numbers.
LEMMA WindowsInt == \A x \in Window : x \in Int
  BY DEF Window

\* A value folded into the current window or a later one: only what is known
\* of its own window changes, by one and its value, or by what a meter used.
LEMMA FoldedInto ==
    ASSUME NEW kd, NEW c \in Agg, NEW a \in [Window -> Agg], NEW w \in Window,
           NEW v \in Int, v > 0, c.count = 0 => c.sum = 0,
           c.count > 0 => c.window \in Window /\ c.window <= w,
           Ahead(c, a),
           kd = "meter" => (c.count = 0 /\ c.first = 0) \/ (c.first # 0 /\ c.last # 0),
           NEW n, n = FoldedOf(kd, c, w, v), NEW a2, a2 = ArchivedOf(c, a, w)
    PROVE  /\ n \in Agg /\ n.window = w /\ n.last = v
           /\ n.count = 0 => n.sum = 0
           /\ kd # "meter" =>
                 /\ n.count > 0
                 /\ KnownOf(n, a2, w).count = KnownOf(c, a, w).count + 1
                 /\ KnownOf(n, a2, w).sum = KnownOf(c, a, w).sum + v
           /\ kd = "meter" /\ c.count = 0 /\ c.first = 0 =>
                 n.first # 0 /\ KnownOf(n, a2, w).sum = KnownOf(c, a, w).sum
           /\ kd = "meter" /\ c.first # 0 /\ c.last # 0 =>
                 /\ n.count > 0 /\ n.first # 0
                 /\ KnownOf(n, a2, w).sum
                       = KnownOf(c, a, w).sum + (IF v < c.last THEN v ELSE v - c.last)
           /\ a2 \in [Window -> Agg] /\ Ahead(n, a2)
           /\ \A x \in Window : x # w => KnownOf(n, a2, x) = KnownOf(c, a, x)
           /\ KnownOf(n, a2, w) \in Agg /\ KnownOf(c, a, w) \in Agg
<1>1. w \in Int /\ c.count \in Nat /\ c.window \in Int /\ c.sum \in Int /\ c.first \in Int
      /\ c.last \in Int
  BY WindowsInt DEF Agg
<1>2. PICK b : b = BaseOf(kd, c, w)
  OBVIOUS
<1>3. /\ b \in Agg /\ b.window = w
      /\ c.count > 0 /\ c.window = w => b.count = c.count /\ b.sum = c.sum
      /\ ~ (c.count > 0 /\ c.window = w) => b.count = 0 /\ b.sum = 0
      /\ kd = "meter" => /\ c.count = 0 \/ c.window = w => b.first = c.first
                         /\ b.last = c.last
                         /\ c.count > 0 /\ c.window # w => b.first = c.last
  BY <1>1, <1>2, BaseFields
<1>4. n = AddedTo(kd, b, w, v)
  BY <1>2 DEF FoldedOf
<1>5. /\ n \in Agg /\ n.window = w /\ n.last = v
      /\ n.count = 0 => n.sum = 0
      /\ kd # "meter" =>
            /\ b.count = 0 => n.first = v /\ n.count = 1 /\ n.sum = v
            /\ b.count > 0 =>
                  n.first = b.first /\ n.count = b.count + 1 /\ n.sum = b.sum + v
      /\ kd = "meter" /\ b.count = 0 /\ b.first = 0 => n.count = 0 /\ n.first = v
      /\ kd = "meter" /\ ~ (b.count = 0 /\ b.first = 0) =>
            /\ n.count > 0 /\ n.first = b.first
            /\ n.sum = b.sum + (IF v < b.last THEN v ELSE v - b.last)
  BY <1>1, <1>3, <1>4, AddedFields
<1>6. b.count \in Nat /\ b.sum \in Int /\ b.first \in Int /\ b.last \in Int /\ n.count \in Nat
      /\ n.sum \in Int
  BY <1>3, <1>5 DEF Agg
<1>7. /\ a2 \in [Window -> Agg]
      /\ \A x \in Window : (c.count = 0 \/ x # c.window \/ c.window = w) => a2[x] = a[x]
      /\ c.count > 0 /\ c.window # w => a2[c.window] = c
  BY <1>1 DEF ArchivedOf, Left
<1>8. KnownOf(c, a, w).count = b.count /\ KnownOf(c, a, w).sum = b.sum
      /\ KnownOf(c, a, w) \in Agg
  <2>1. CASE c.count > 0 /\ c.window = w
    BY <1>3, <2>1 DEF KnownOf
  <2>2. CASE ~ (c.count > 0 /\ c.window = w)
    <3>1. c.count = 0 \/ w >= c.window
      BY <1>1, <2>2
    <3>2. Empty(a[w]) /\ a[w] \in Agg
      BY <3>1 DEF Ahead
    <3>3. KnownOf(c, a, w) = a[w]
      BY <2>2 DEF KnownOf
    <3>. QED  BY <1>3, <2>2, <3>2, <3>3 DEF Empty
  <2>. QED  BY <2>1, <2>2
<1>9. n.count > 0 => KnownOf(n, a2, w) = n
  BY <1>5 DEF KnownOf
<1>10. n.count = 0 => kd = "meter" /\ c.count = 0 /\ c.first = 0
  <2>1. n.count = 0 => kd = "meter" /\ b.count = 0 /\ b.first = 0
    BY <1>5, <1>6
  <2>2. b.count = 0 => c.count = 0 \/ c.window # w
    BY <1>1, <1>3
  <2>. QED
    BY <1>1, <1>3, <2>1, <2>2
<1>11. ASSUME n.count = 0
       PROVE  Empty(KnownOf(n, a2, w)) /\ KnownOf(n, a2, w) \in Agg
  <2>1. c.count = 0 /\ Empty(a[w])
    BY <1>10, <1>11 DEF Ahead
  <2>2. KnownOf(n, a2, w) = a[w]
    BY <1>1, <1>7, <1>11, <2>1 DEF KnownOf
  <2>. QED  BY <2>1, <2>2
<1>12. KnownOf(n, a2, w) \in Agg
  BY <1>5, <1>6, <1>9, <1>11
<1>13. \A x \in Window : x # w => KnownOf(n, a2, x) = KnownOf(c, a, x)
  <2> SUFFICES ASSUME NEW x \in Window, x # w
               PROVE  KnownOf(n, a2, x) = KnownOf(c, a, x)
    OBVIOUS
  <2>1. KnownOf(n, a2, x) = a2[x]
    BY <1>5 DEF KnownOf
  <2>2. CASE c.count > 0 /\ c.window = x
    BY <1>1, <1>7, <2>1, <2>2 DEF KnownOf
  <2>3. CASE ~ (c.count > 0 /\ c.window = x)
    <3>1. c.count = 0 \/ x # c.window
      BY <1>1, <2>3
    <3>. QED  BY <1>7, <2>1, <2>3, <3>1 DEF KnownOf
  <2>. QED  BY <2>2, <2>3
<1>14. Ahead(n, a2)
  <2> SUFFICES ASSUME NEW x \in Window, n.count = 0 \/ x >= n.window
               PROVE  Empty(a2[x])
    BY DEF Ahead
  <2>0. x \in Int
    BY WindowsInt
  <2>1. CASE n.count = 0
    BY <1>1, <1>7, <1>10, <2>1 DEF Ahead
  <2>2. CASE x >= w
    <3>1. c.count = 0 \/ x >= c.window
      BY <1>1, <2>0, <2>2
    <3>2. c.count = 0 \/ x # c.window \/ c.window = w
      BY <1>1, <2>0, <2>2
    <3>. QED  BY <1>7, <3>1, <3>2 DEF Ahead
  <2>. QED  BY <1>5, <2>1, <2>2
<1>15. kd # "meter" =>
          /\ n.count > 0
          /\ KnownOf(n, a2, w).count = KnownOf(c, a, w).count + 1
          /\ KnownOf(n, a2, w).sum = KnownOf(c, a, w).sum + v
  <2> SUFFICES ASSUME kd # "meter"
               PROVE  /\ n.count > 0
                      /\ KnownOf(n, a2, w).count = KnownOf(c, a, w).count + 1
                      /\ KnownOf(n, a2, w).sum = KnownOf(c, a, w).sum + v
    OBVIOUS
  <2>1. b.count = 0 => b.sum = 0
    BY <1>1, <1>3
  <2>2. n.count = b.count + 1 /\ n.sum = b.sum + v
    BY <1>5, <1>6, <2>1
  <2>3. KnownOf(n, a2, w) = n
    BY <1>6, <1>9, <2>2
  <2>. HIDE DEF KnownOf
  <2>. QED  BY <1>6, <1>8, <2>2, <2>3
<1>16. kd = "meter" /\ c.count = 0 /\ c.first = 0 =>
          n.first # 0 /\ KnownOf(n, a2, w).sum = KnownOf(c, a, w).sum
  <2> SUFFICES ASSUME kd = "meter", c.count = 0, c.first = 0
               PROVE  n.first # 0 /\ KnownOf(n, a2, w).sum = KnownOf(c, a, w).sum
    OBVIOUS
  <2>1. b.count = 0 /\ b.first = 0 /\ b.sum = 0
    BY <1>3
  <2>2. n.count = 0 /\ n.first = v
    BY <1>5, <2>1
  <2>. QED  BY <1>8, <1>11, <2>1, <2>2 DEF Empty
<1>17. kd = "meter" /\ c.first # 0 /\ c.last # 0 =>
          /\ n.count > 0 /\ n.first # 0
          /\ KnownOf(n, a2, w).sum
                = KnownOf(c, a, w).sum + (IF v < c.last THEN v ELSE v - c.last)
  <2> SUFFICES ASSUME kd = "meter", c.first # 0, c.last # 0
               PROVE  /\ n.count > 0 /\ n.first # 0
                      /\ KnownOf(n, a2, w).sum
                            = KnownOf(c, a, w).sum + (IF v < c.last THEN v ELSE v - c.last)
    OBVIOUS
  <2>1. b.first # 0 /\ b.last = c.last
    BY <1>1, <1>3
  <2>2. /\ n.count > 0 /\ n.first = b.first
        /\ n.sum = b.sum + (IF v < b.last THEN v ELSE v - b.last)
    BY <1>5, <2>1
  <2>. QED  BY <1>8, <1>9, <2>1, <2>2
<1>. HIDE DEF KnownOf
<1>18. /\ n \in Agg /\ n.window = w /\ n.last = v
       /\ n.count = 0 => n.sum = 0
  BY <1>5
<1>. QED  BY <1>7, <1>8, <1>12, <1>13, <1>14, <1>15, <1>16, <1>17, <1>18

\* The sums over the windows grow by what was folded.
LEMMA SumsGrow ==
    ASSUME NEW f, NEW g, NEW w \in Window, NEW d \in Int,
           \A x \in Window : f[x] \in Int /\ g[x] \in Int /\ (x # w => g[x] = f[x]),
           g[w] = f[w] + d
    PROVE  /\ SumOf(f, Window) \in Int
           /\ SumOf(g, Window) = SumOf(f, Window) + d
<1>1. IsFiniteSet(Window)
  BY SeriesConstants, FS_Interval DEF Window
<1>2. /\ SumOf(f, Window) \in Int /\ SumOf(g, Window) \in Int
      /\ SumOf(g, Window) = SumOf(f, Window) + (g[w] - f[w])
  BY <1>1, SumOfChanged
<1>3. f[w] \in Int /\ g[w] \in Int
  OBVIOUS
<1>. QED  BY <1>2, <1>3

\* Ticks have windows, and later ones no earlier window.
LEMMA WindowsOfTicks ==
    ASSUME NEW k \in Kind, NEW t \in Tick, NEW u \in Tick
    PROVE  WindowOf(k, t) \in Window /\ (t <= u => WindowOf(k, t) <= WindowOf(k, u))
<1>1. t \in Int /\ u \in Int /\ LastTick \in Int /\ 1 <= t /\ t <= LastTick /\ 1 <= u
  BY SeriesConstants DEF Tick
<1>2. CASE k = "hourly"
  BY <1>1, <1>2 DEF WindowOf, Window
<1>3. CASE k # "hourly"
  BY <1>1, <1>3 DEF WindowOf, Window
<1>. QED  BY <1>2, <1>3

\* No two readings of one tick.
OneEach(R) == \A q, r \in R : q.ts = r.ts => q = r

\* What a reading shows used does not change when a later one comes.
LEMMA UsedStays ==
    ASSUME NEW R, R \subseteq Point, NEW p \in Point, NEW q \in R, q.ts < p.ts
    PROVE  UsedSince(R \union {p}, q) = UsedSince(R, q)
<1>1. q.ts \in Int /\ p.ts \in Int
  BY DEF Point, Tick
<1>2. EarlierIn(R \union {p}, q) = EarlierIn(R, q)
  BY <1>1 DEF EarlierIn
<1>. QED  BY <1>2 DEF UsedSince

\* The latest reading shows used what it is above the latest before it.
LEMMA UsedByLatest ==
    ASSUME NEW R, R \subseteq Point, NEW p \in Point, \A r \in R : r.ts < p.ts, OneEach(R)
    PROVE  /\ R = {} => UsedSince(R \union {p}, p) = 0
           /\ \A q : Latest(q, R) =>
                 UsedSince(R \union {p}, p) = UsedAfter(p.value, q.value)
<1>1. p.ts \in Int
  BY DEF Point, Tick
<1>2. EarlierIn(R \union {p}, p) = R
  BY <1>1 DEF EarlierIn
<1>3. R = {} => UsedSince(R \union {p}, p) = 0
  BY <1>2 DEF UsedSince
<1>4. ASSUME NEW q, Latest(q, R)
      PROVE  UsedSince(R \union {p}, p) = UsedAfter(p.value, q.value)
  <2>1. q \in R /\ R # {}
    BY <1>4 DEF Latest
  <2> DEFINE c == Newest(R)
  <2>2. c \in R /\ \A o \in R : o.ts <= c.ts
    BY <1>4 DEF Latest, Newest
  <2>3. UsedSince(R \union {p}, p) = UsedAfter(p.value, c.value)
    BY <1>2, <2>1 DEF UsedSince
  <2>. HIDE DEF c
  <2>4. c.ts \in Int /\ q.ts \in Int /\ c.ts <= q.ts /\ q.ts <= c.ts
    BY <1>4, <2>1, <2>2 DEF Latest, Point, Tick
  <2>5. c.ts = q.ts
    BY <2>4
  <2>6. c = q
    BY <2>1, <2>2, <2>5 DEF OneEach
  <2>. QED  BY <2>3, <2>6
<1>. QED  BY <1>3, <1>4

\* The windows of one kind count and sum the readings R.
CountsRight(kd, c, a, R) == kd # "meter" => SumOf(CountOf(c, a), Window) = Cardinality(R)
ValuesRight(kd, c, a, R) == kd # "meter" => SumOf(SumsOf(c, a), Window) = SumOf(ValuesOf(R), R)
UseRight(kd, c, a, R) == kd = "meter" => SumOf(SumsOf(c, a), Window) = SumOf(UseOf(R), R)

\* The current row is at the latest reading.
LatestIn(k, kd, c, q, R) ==
    /\ Latest(q, R) /\ c.last = q.value
    /\ kd = "meter" => c.first # 0
    /\ kd # "meter" => c.count > 0
    /\ c.count > 0 => c.window = WindowOf(k, q.ts)

\* The windows of one kind have taken in the readings R of a series.
Track(k, kd, c, a, R) ==
    /\ c \in Agg /\ a \in [Window -> Agg]
    /\ c.count = 0 => c.sum = 0
    /\ Ahead(c, a)
    /\ R \subseteq Point /\ IsFiniteSet(R) /\ OneEach(R)
    /\ R = {} => c.count = 0 /\ c.first = 0
    /\ R # {} => \E q : LatestIn(k, kd, c, q, R)
    /\ \A q \in R : UsedSince(R, q) \in Int
    /\ CountsRight(kd, c, a, R)
    /\ ValuesRight(kd, c, a, R)
    /\ UseRight(kd, c, a, R)

\* At the start no reading is taken in.
LEMMA TrackStarts ==
    ASSUME NEW k \in Kind, NEW kd
    PROVE  Track(k, kd, NoAggregate, [x \in Window |-> NoAggregate], {})
<1> DEFINE c == NoAggregate
           a == [x \in Window |-> NoAggregate]
<1>1. /\ c \in Agg /\ c.count = 0 /\ c.sum = 0 /\ c.first = 0
      /\ a \in [Window -> Agg] /\ \A x \in Window : a[x] = c
  BY DEF NoAggregate, Agg
<1>2. IsFiniteSet(Window)
  BY SeriesConstants, FS_Interval DEF Window
<1>3. IsFiniteSet({}) /\ Cardinality({}) = 0
  BY FS_EmptySet
<1>. HIDE DEF c, a
<1>4. \A x \in Window : CountOf(c, a)[x] = 0 /\ SumsOf(c, a)[x] = 0
  BY <1>1 DEF CountOf, SumsOf, KnownOf
<1> DEFINE zero == [x \in Window |-> 0]
           V == [U \in SUBSET Window |-> 0]
<1>5. Adds(V, zero, Window) /\ V[Window] = 0 /\ \A x \in Window : zero[x] = 0 /\ zero[x] \in Int
  BY DEF Adds
<1>. HIDE DEF zero, V
<1>6. SumOf(zero, Window) = 0
  BY <1>2, <1>5, SumIs
<1>7. SumOf(CountOf(c, a), Window) = 0
  BY <1>2, <1>4, <1>5, <1>6, SumOfSame
<1>8. SumOf(SumsOf(c, a), Window) = 0
  BY <1>2, <1>4, <1>5, <1>6, SumOfSame
<1>9. SumOf(ValuesOf({}), {}) = 0 /\ SumOf(UseOf({}), {}) = 0
  BY SumOfNone
<1>10. Ahead(c, a)
  BY <1>1 DEF Ahead, Empty
<1>11. CountsRight(kd, c, a, {}) /\ ValuesRight(kd, c, a, {}) /\ UseRight(kd, c, a, {})
  BY <1>3, <1>7, <1>8, <1>9 DEF CountsRight, ValuesRight, UseRight
<1>12. Track(k, kd, c, a, {})
  BY <1>1, <1>3, <1>10, <1>11 DEF Track, OneEach
<1>. QED  BY <1>12 DEF c, a

\* What the step adds to the sum of the windows is what it adds to the readings.
LEMMA ReadingsGrow ==
    ASSUME NEW R, R \subseteq Point, IsFiniteSet(R), OneEach(R),
           \A q \in R : UsedSince(R, q) \in Int,
           NEW p \in Point, \A r \in R : r.ts < p.ts,
           NEW u \in Int, UsedSince(R \union {p}, p) = u
    PROVE  /\ IsFiniteSet(R \union {p}) /\ Cardinality(R \union {p}) = Cardinality(R) + 1
           /\ Cardinality(R) \in Nat
           /\ SumOf(ValuesOf(R), R) \in Int /\ SumOf(UseOf(R), R) \in Int
           /\ SumOf(ValuesOf(R \union {p}), R \union {p}) = SumOf(ValuesOf(R), R) + p.value
           /\ SumOf(UseOf(R \union {p}), R \union {p}) = SumOf(UseOf(R), R) + u
           /\ \A q \in R \union {p} : UsedSince(R \union {p}, q) \in Int
<1> DEFINE Q == R \union {p}
<1>1. p \notin R
  BY DEF Point, Tick
<1>2. IsFiniteSet(Q) /\ Cardinality(Q) = Cardinality(R) + 1 /\ Cardinality(R) \in Nat
  BY <1>1, FS_AddElement, FS_CardinalityType
<1>3. \A q \in Q : q.value \in Int
  BY DEF Point
<1>4. \A q \in R : UsedSince(Q, q) = UsedSince(R, q)
  BY UsedStays
<1>5. \A q \in Q : UsedSince(Q, q) \in Int
  BY <1>4
<1>6. \A q \in Q : /\ ValuesOf(Q)[q] = q.value /\ UseOf(Q)[q] = UsedSince(Q, q)
                   /\ ValuesOf(Q)[q] \in Int /\ UseOf(Q)[q] \in Int
  BY <1>3, <1>5 DEF ValuesOf, UseOf
<1>7. \A q \in R : ValuesOf(Q)[q] = ValuesOf(R)[q] /\ UseOf(Q)[q] = UseOf(R)[q]
                   /\ ValuesOf(R)[q] \in Int /\ UseOf(R)[q] \in Int
  BY <1>3, <1>4, <1>6 DEF ValuesOf, UseOf
<1>8. PICK fv : fv = ValuesOf(Q)
  OBVIOUS
<1>9. PICK fu : fu = UseOf(Q)
  OBVIOUS
<1>10. PICK gv : gv = ValuesOf(R)
  OBVIOUS
<1>11. PICK gu : gu = UseOf(R)
  OBVIOUS
<1>12. \A q \in R \union {p} : fv[q] \in Int /\ fu[q] \in Int
  BY <1>6, <1>8, <1>9
<1>13. \A q \in R : gv[q] \in Int /\ fv[q] = gv[q] /\ gu[q] \in Int /\ fu[q] = gu[q]
  BY <1>7, <1>8, <1>9, <1>10, <1>11
<1>14. fv[p] = p.value /\ fu[p] = u
  BY <1>6, <1>8, <1>9
<1>15. SumOf(fv, R \union {p}) = SumOf(fv, R) + fv[p]
  BY <1>1, <1>12, SumOfOneMore
<1>16. SumOf(fu, R \union {p}) = SumOf(fu, R) + fu[p]
  BY <1>1, <1>12, SumOfOneMore
<1>17. SumOf(gv, R) = SumOf(fv, R) /\ SumOf(gv, R) \in Int
  BY <1>13, SumOfSame
<1>18. SumOf(gu, R) = SumOf(fu, R) /\ SumOf(gu, R) \in Int
  BY <1>13, SumOfSame
<1>. QED
  BY <1>2, <1>5, <1>8, <1>9, <1>10, <1>11, <1>14, <1>15, <1>16, <1>17, <1>18

\* Counts and sums of windows are numbers.
LEMMA KnownTypes ==
    ASSUME NEW c \in Agg, NEW a \in [Window -> Agg]
    PROVE  \A x \in Window : /\ CountOf(c, a)[x] = KnownOf(c, a, x).count
                             /\ SumsOf(c, a)[x] = KnownOf(c, a, x).sum
                             /\ CountOf(c, a)[x] \in Int /\ SumsOf(c, a)[x] \in Int
<1>1. \A x \in Window : KnownOf(c, a, x) \in Agg
  BY DEF KnownOf
<1>2. \A x \in Window : KnownOf(c, a, x).count \in Int /\ KnownOf(c, a, x).sum \in Int
  BY <1>1 DEF Agg
<1>. QED  BY <1>2 DEF CountOf, SumsOf

\* The windows of a kind take in one reading more, newer than the others.
LEMMA TrackFolds ==
    ASSUME NEW k \in Kind, NEW kd, NEW c, NEW a, NEW R, Track(k, kd, c, a, R),
           NEW p \in Point, \A r \in R : r.ts < p.ts,
           NEW w, w = WindowOf(k, p.ts),
           NEW n, n = FoldedOf(kd, c, w, p.value), NEW a2, a2 = ArchivedOf(c, a, w)
    PROVE  Track(k, kd, n, a2, R \union {p})
<1>1. /\ c \in Agg /\ a \in [Window -> Agg] /\ Ahead(c, a)
      /\ c.count = 0 => c.sum = 0
      /\ R \subseteq Point /\ IsFiniteSet(R) /\ OneEach(R)
      /\ R = {} => c.count = 0 /\ c.first = 0
      /\ \A q \in R : UsedSince(R, q) \in Int
  BY DEF Track
<1>2. p.ts \in Tick /\ p.value \in Int /\ p.value > 0
  BY SeriesConstants DEF Point
<1>3. w \in Window
  BY <1>2, WindowsOfTicks
<1>4. R # {} => \E q : LatestIn(k, kd, c, q, R)
  BY DEF Track
<1>5. \A q : LatestIn(k, kd, c, q, R) =>
         /\ c.last = q.value /\ c.last \in Int /\ c.last # 0
         /\ kd = "meter" => c.first # 0
         /\ c.count > 0 => c.window \in Window /\ c.window <= w
         /\ UsedSince(R \union {p}, p) = UsedAfter(p.value, c.last)
  <2> SUFFICES ASSUME NEW q, LatestIn(k, kd, c, q, R)
               PROVE  /\ c.last = q.value /\ c.last \in Int /\ c.last # 0
                      /\ kd = "meter" => c.first # 0
                      /\ c.count > 0 => c.window \in Window /\ c.window <= w
                      /\ UsedSince(R \union {p}, p) = UsedAfter(p.value, c.last)
    OBVIOUS
  <2>1. Latest(q, R) /\ c.last = q.value /\ (kd = "meter" => c.first # 0)
        /\ (c.count > 0 => c.window = WindowOf(k, q.ts))
    BY DEF LatestIn
  <2>2. q \in R /\ q \in Point /\ q.ts \in Tick /\ q.value \in Int /\ q.value > 0 /\ q.ts < p.ts
    BY <1>1, <2>1, SeriesConstants DEF Latest, Point
  <2>3. q.ts <= p.ts
    BY <1>2, <2>2 DEF Tick
  <2>4. WindowOf(k, q.ts) \in Window /\ WindowOf(k, q.ts) <= w
    BY <1>2, <2>2, <2>3, WindowsOfTicks
  <2>5. UsedSince(R \union {p}, p) = UsedAfter(p.value, q.value)
    BY <1>1, <2>1, UsedByLatest
  <2>. QED  BY <2>1, <2>2, <2>4, <2>5
<1>6. c.count > 0 => c.window \in Window /\ c.window <= w
  BY <1>1, <1>4, <1>5
<1>7. kd = "meter" => (c.count = 0 /\ c.first = 0) \/ (c.first # 0 /\ c.last # 0)
  BY <1>1, <1>4, <1>5
<1>8. /\ n \in Agg /\ n.window = w /\ n.last = p.value
      /\ n.count = 0 => n.sum = 0
      /\ kd # "meter" =>
            /\ n.count > 0
            /\ KnownOf(n, a2, w).count = KnownOf(c, a, w).count + 1
            /\ KnownOf(n, a2, w).sum = KnownOf(c, a, w).sum + p.value
      /\ kd = "meter" /\ c.count = 0 /\ c.first = 0 =>
            n.first # 0 /\ KnownOf(n, a2, w).sum = KnownOf(c, a, w).sum
      /\ kd = "meter" /\ c.first # 0 /\ c.last # 0 =>
            /\ n.count > 0 /\ n.first # 0
            /\ KnownOf(n, a2, w).sum
                  = KnownOf(c, a, w).sum + (IF p.value < c.last THEN p.value
                                            ELSE p.value - c.last)
      /\ a2 \in [Window -> Agg] /\ Ahead(n, a2)
      /\ \A x \in Window : x # w => KnownOf(n, a2, x) = KnownOf(c, a, x)
  BY <1>1, <1>2, <1>3, <1>6, <1>7, FoldedInto
<1> DEFINE u == UsedSince(R \union {p}, p)
<1>9. R = {} => u = 0 /\ u \in Int
  BY <1>1, UsedByLatest
<1>10. R # {} => u = UsedAfter(p.value, c.last) /\ u \in Int /\ c.last # 0
                 /\ (kd = "meter" => c.first # 0)
  <2> SUFFICES ASSUME R # {}
               PROVE  u = UsedAfter(p.value, c.last) /\ u \in Int /\ c.last # 0
                      /\ (kd = "meter" => c.first # 0)
    OBVIOUS
  <2>1. PICK q : LatestIn(k, kd, c, q, R)
    BY <1>4
  <2>2. u = UsedAfter(p.value, c.last) /\ c.last # 0 /\ c.last \in Int
        /\ (kd = "meter" => c.first # 0)
    BY <1>5, <2>1
  <2>3. UsedAfter(p.value, c.last) \in Int
    BY <1>2, <2>2 DEF UsedAfter
  <2>. QED  BY <2>2, <2>3
<1>11. u \in Int
  BY <1>9, <1>10
<1>12. /\ IsFiniteSet(R \union {p}) /\ Cardinality(R \union {p}) = Cardinality(R) + 1
       /\ Cardinality(R) \in Nat
       /\ SumOf(ValuesOf(R), R) \in Int /\ SumOf(UseOf(R), R) \in Int
       /\ SumOf(ValuesOf(R \union {p}), R \union {p}) = SumOf(ValuesOf(R), R) + p.value
       /\ SumOf(UseOf(R \union {p}), R \union {p}) = SumOf(UseOf(R), R) + u
       /\ \A q \in R \union {p} : UsedSince(R \union {p}, q) \in Int
  BY <1>1, <1>11, ReadingsGrow
<1>13. R \union {p} \subseteq Point /\ OneEach(R \union {p})
  BY <1>1 DEF OneEach, Point, Tick
<1>14. LatestIn(k, kd, n, p, R \union {p})
  <2>1. Latest(p, R \union {p})
    BY <1>1, <1>2 DEF Latest, Point, Tick
  <2>2. kd = "meter" => n.first # 0
    <3>1. CASE R = {}
      BY <1>1, <1>8, <3>1
    <3>2. CASE R # {}
      BY <1>8, <1>10, <3>2
    <3>. QED  BY <3>1, <3>2
  <2>. QED  BY <1>8, <2>1, <2>2 DEF LatestIn
<1>15. \A x \in Window : /\ CountOf(c, a)[x] = KnownOf(c, a, x).count
                         /\ SumsOf(c, a)[x] = KnownOf(c, a, x).sum
                         /\ CountOf(c, a)[x] \in Int /\ SumsOf(c, a)[x] \in Int
  BY <1>1, KnownTypes
<1>16. \A x \in Window : /\ CountOf(n, a2)[x] = KnownOf(n, a2, x).count
                         /\ SumsOf(n, a2)[x] = KnownOf(n, a2, x).sum
                         /\ CountOf(n, a2)[x] \in Int /\ SumsOf(n, a2)[x] \in Int
  BY <1>8, KnownTypes
<1>. HIDE DEF u
<1>17. PICK fc : fc = CountOf(c, a)
  OBVIOUS
<1>18. PICK fs : fs = SumsOf(c, a)
  OBVIOUS
<1>19. PICK gc : gc = CountOf(n, a2)
  OBVIOUS
<1>20. PICK gs : gs = SumsOf(n, a2)
  OBVIOUS
<1>21. \A x \in Window : /\ fc[x] \in Int /\ gc[x] \in Int /\ (x # w => gc[x] = fc[x])
                         /\ fs[x] \in Int /\ gs[x] \in Int /\ (x # w => gs[x] = fs[x])
  BY <1>8, <1>15, <1>16, <1>17, <1>18, <1>19, <1>20
<1>22. CountsRight(kd, n, a2, R \union {p})
  <2> SUFFICES ASSUME kd # "meter"
               PROVE  SumOf(gc, Window) = Cardinality(R \union {p})
    BY <1>19 DEF CountsRight
  <2>1. gc[w] = fc[w] + 1
    BY <1>3, <1>8, <1>15, <1>16, <1>17, <1>19
  <2>2. SumOf(gc, Window) = SumOf(fc, Window) + 1
    <3>1. PICK d \in Int : d = 1
      OBVIOUS
    <3>2. SumOf(gc, Window) = SumOf(fc, Window) + d
      BY <1>3, <1>21, <2>1, <3>1, SumsGrow
    <3>. QED  BY <3>1, <3>2
  <2>3. SumOf(fc, Window) = Cardinality(R)
    BY <1>17 DEF Track, CountsRight
  <2>. QED  BY <1>12, <2>2, <2>3
<1>23. ValuesRight(kd, n, a2, R \union {p})
  <2> SUFFICES ASSUME kd # "meter"
               PROVE  SumOf(gs, Window) = SumOf(ValuesOf(R \union {p}), R \union {p})
    BY <1>20 DEF ValuesRight
  <2>1. gs[w] = fs[w] + p.value
    BY <1>3, <1>8, <1>15, <1>16, <1>18, <1>20
  <2>2. SumOf(gs, Window) = SumOf(fs, Window) + p.value
    BY <1>2, <1>3, <1>21, <2>1, SumsGrow
  <2>3. SumOf(fs, Window) = SumOf(ValuesOf(R), R)
    BY <1>18 DEF Track, ValuesRight
  <2>. QED  BY <1>12, <2>2, <2>3
<1>24. UseRight(kd, n, a2, R \union {p})
  <2> SUFFICES ASSUME kd = "meter"
               PROVE  SumOf(gs, Window) = SumOf(UseOf(R \union {p}), R \union {p})
    BY <1>20 DEF UseRight
  <2>1. gs[w] = fs[w] + u
    <3>1. CASE R = {}
      <4>1. KnownOf(n, a2, w).sum = KnownOf(c, a, w).sum
        BY <1>1, <1>8, <3>1
      <4>2. gs[w] = fs[w] /\ fs[w] \in Int
        BY <1>3, <1>15, <1>16, <1>18, <1>20, <4>1
      <4>. QED  BY <1>9, <3>1, <4>2
    <3>2. CASE R # {}
      <4>1. KnownOf(n, a2, w).sum = KnownOf(c, a, w).sum + u
        BY <1>8, <1>10, <3>2 DEF UsedAfter
      <4>. QED  BY <1>3, <1>15, <1>16, <1>18, <1>20, <4>1
    <3>. QED  BY <3>1, <3>2
  <2>2. SumOf(gs, Window) = SumOf(fs, Window) + u
    BY <1>3, <1>11, <1>21, <2>1, SumsGrow
  <2>3. SumOf(fs, Window) = SumOf(UseOf(R), R)
    BY <1>18 DEF Track, UseRight
  <2>. QED  BY <1>12, <2>2, <2>3
<1>25. R \union {p} # {}
  OBVIOUS
<1>. QED
  BY <1>8, <1>12, <1>13, <1>14, <1>22, <1>23, <1>24, <1>25 DEF Track

\* The readings of the stream still to be taken in, and those that were.
PendingIn(st, next) == {st[i] : i \in next .. Len(st)}
TakenIn(r, x, pend) == {p \in r : p.series = x /\ p \notin pend}

\* Types: the stream is of rows, a batch is a prefix of it.
SeriesShape(m, r, st, b) ==
    /\ m \subseteq Point /\ r \subseteq Point /\ IsFiniteSet(r)
    /\ st \in Seq(Point) /\ \A i \in 1 .. Len(st) : st[i] \in r
    /\ b \in [size : Nat, next : Nat, tries : Int]
    /\ 1 <= b.next /\ b.next <= b.size + 1 /\ b.size <= Len(st)

\* A row a key; a message newer than the rows; a stream in order; what was
\* taken in is older than what was not.
KeysOnce(all) == \A p, q \in all : p.series = q.series /\ p.ts = q.ts => p = q
NewsIsNewer(m, r) == \A p \in m : \A q \in r : p \notin r /\ p.series = q.series => q.ts < p.ts
StreamInOrder(st) ==
    \A i, j \in 1 .. Len(st) : i < j /\ st[i].series = st[j].series => st[i].ts < st[j].ts
TakenIsOlder(r, pend) ==
    \A p \in r : \A q \in pend : p \notin pend /\ p.series = q.series => p.ts < q.ts

\* The windows of all series and kinds have taken in what left the stream.
Tracks(kinds, cur, arc, r, pend) ==
    /\ cur \in [Series -> [Kind -> Agg]]
    /\ arc \in [Series -> [Kind -> [Window -> Agg]]]
    /\ \A x \in Series : \A k \in Kind :
          Track(k, kinds[x], cur[x][k], arc[x][k], TakenIn(r, x, pend))

ReadingsInOrder(m, r, st, b) ==
    /\ SeriesShape(m, r, st, b)
    /\ KeysOnce(r \union m) /\ NewsIsNewer(m, r)
    /\ StreamInOrder(st) /\ TakenIsOlder(r, PendingIn(st, b.next))

\* The inductive invariant.  After a batch failed nothing is claimed: its
\* records may be folded again.
SeriesInv ==
    /\ failed \in BOOLEAN
    /\ failed = FALSE =>
          /\ ReadingsInOrder(message, raw, stream, batch)
          /\ Tracks(kindOf, current, archived, raw, PendingIn(stream, batch.next))

\* A row put is to be taken in; one taken in is not; a batch done with leaves
\* what is to be taken in as it is.
LEMMA PendingAppended ==
    ASSUME NEW st \in Seq(Point), NEW next \in Nat, 1 <= next, next <= Len(st) + 1,
           NEW p \in Point
    PROVE  PendingIn(Append(st, p), next) = PendingIn(st, next) \union {p}
<1> DEFINE l == Len(st)
<1>1. l \in Nat /\ Len(Append(st, p)) = l + 1 /\ Append(st, p)[l + 1] = p
      /\ \A i \in 1 .. l : Append(st, p)[i] = st[i]
  OBVIOUS
<1>2. \A i \in next .. (l + 1) : i = l + 1 \/ i \in next .. l
  BY <1>1
<1>3. \A i \in next .. l : i \in 1 .. l /\ i \in next .. (l + 1)
  BY <1>1
<1>4. l + 1 \in next .. (l + 1)
  BY <1>1
<1>5. PICK st2 : st2 = Append(st, p)
  OBVIOUS
<1>6. PendingIn(st2, next) = {st2[i] : i \in next .. (l + 1)}
  BY <1>1, <1>5 DEF PendingIn
<1>7. PendingIn(st, next) = {st[i] : i \in next .. l}
  BY DEF PendingIn
<1>8. \A i \in next .. l : st2[i] = st[i]
  BY <1>1, <1>3, <1>5
<1>9. st2[l + 1] = p
  BY <1>1, <1>5
<1>. HIDE DEF l
<1>10. {st2[i] : i \in next .. (l + 1)} = {st[i] : i \in next .. l} \union {p}
  BY <1>2, <1>3, <1>4, <1>8, <1>9
<1>. QED  BY <1>5, <1>6, <1>7, <1>10

\* The next record is taken in, and is older than the others.
LEMMA PendingTaken ==
    ASSUME NEW st \in Seq(Point), NEW next \in Nat, 1 <= next, next <= Len(st),
           StreamInOrder(st)
    PROVE  /\ st[next] \in Point /\ st[next] \in PendingIn(st, next)
           /\ PendingIn(st, next + 1) = PendingIn(st, next) \ {st[next]}
           /\ \A q \in PendingIn(st, next + 1) :
                 q.series = st[next].series => st[next].ts < q.ts
<1>1. Len(st) \in Nat /\ next \in 1 .. Len(st) /\ next \in next .. Len(st)
  OBVIOUS
<1>2. st[next] \in Point /\ \A i \in 1 .. Len(st) : st[i] \in Point
  BY <1>1
<1>3. \A i \in next + 1 .. Len(st) : i \in 1 .. Len(st) /\ next < i /\ i \in next .. Len(st)
  BY <1>1
<1>4. \A i \in next .. Len(st) : i = next \/ i \in next + 1 .. Len(st)
  BY <1>1
<1>5. \A i \in next + 1 .. Len(st) :
         /\ st[i].series = st[next].series => st[next].ts < st[i].ts
         /\ st[i] # st[next]
  <2> SUFFICES ASSUME NEW i \in next + 1 .. Len(st)
               PROVE  /\ st[i].series = st[next].series => st[next].ts < st[i].ts
                      /\ st[i] # st[next]
    OBVIOUS
  <2>1. st[i].series = st[next].series => st[next].ts < st[i].ts
    BY <1>1, <1>3 DEF StreamInOrder
  <2>2. st[next].ts \in Int
    BY <1>2 DEF Point, Tick
  <2>. QED  BY <2>1, <2>2
<1>. QED  BY <1>1, <1>2, <1>3, <1>4, <1>5 DEF PendingIn

\* A batch that is done with leaves the stream.
LEMMA PendingShifted ==
    ASSUME NEW st \in Seq(Point), NEW n \in Nat, n <= Len(st), NEW st2,
           st2 = SubSeq(st, n + 1, Len(st))
    PROVE  /\ st2 \in Seq(Point) /\ Len(st2) = Len(st) - n
           /\ \A i \in 1 .. Len(st2) : st2[i] = st[n + i] /\ n + i \in 1 .. Len(st)
           /\ PendingIn(st2, 1) = PendingIn(st, n + 1)
<1>1. /\ st2 \in Seq(Point) /\ Len(st2) = Len(st) - n /\ Len(st) \in Nat
      /\ \A i \in 1 .. Len(st2) : st2[i] = st[n + i]
  OBVIOUS
<1>2. \A i \in 1 .. Len(st2) : n + i \in 1 .. Len(st) /\ n + i \in n + 1 .. Len(st)
  BY <1>1
<1>3. \A j \in n + 1 .. Len(st) : j - n \in 1 .. Len(st2) /\ st2[j - n] = st[j]
  <2> SUFFICES ASSUME NEW j \in n + 1 .. Len(st)
               PROVE  j - n \in 1 .. Len(st2) /\ st2[j - n] = st[j]
    OBVIOUS
  <2>1. j - n \in 1 .. Len(st2) /\ n + (j - n) = j
    BY <1>1
  <2>. QED  BY <1>1, <2>1
<1>4. PendingIn(st2, 1) \subseteq PendingIn(st, n + 1)
  BY <1>1, <1>2 DEF PendingIn
<1>5. PendingIn(st, n + 1) \subseteq PendingIn(st2, 1)
  BY <1>3 DEF PendingIn
<1>. QED  BY <1>1, <1>2, <1>4, <1>5

\* The invariant holds at the start.
LEMMA SeriesInit_Inv == SeriesInit => SeriesInv
<1> SUFFICES ASSUME SeriesInit
             PROVE  SeriesInv
  OBVIOUS
<1>1. SeriesShape(message, raw, stream, batch)
  <2>1. IsFiniteSet({})
    BY FS_EmptySet
  <2>. QED  BY <2>1 DEF SeriesInit, SeriesShape
<1>2. PendingIn(stream, batch.next) = {}
  BY DEF SeriesInit, PendingIn
<1>3. ReadingsInOrder(message, raw, stream, batch)
  BY <1>1, <1>2 DEF SeriesInit, ReadingsInOrder, KeysOnce, NewsIsNewer, StreamInOrder,
     TakenIsOlder
<1>4. NoAggregate \in Agg
  BY DEF NoAggregate, Agg
<1>5. \A x \in Series : \A k \in Kind :
         /\ current[x][k] = NoAggregate
         /\ archived[x][k] = [w \in Window |-> NoAggregate]
  BY DEF SeriesInit
<1>6. \A x : TakenIn(raw, x, {}) = {}
  BY DEF SeriesInit, TakenIn
<1>7. /\ current \in [Series -> [Kind -> Agg]]
      /\ archived \in [Series -> [Kind -> [Window -> Agg]]]
  <2>1. [x \in Window |-> NoAggregate] \in [Window -> Agg]
    BY <1>4
  <2>2. PICK g : g = [x \in Window |-> NoAggregate]
    OBVIOUS
  <2>3. archived = [x \in Series |-> [k \in Kind |-> g]]
    BY <2>2 DEF SeriesInit
  <2>4. current = [x \in Series |-> [k \in Kind |-> NoAggregate]]
    BY DEF SeriesInit
  <2>. QED  BY <1>4, <2>1, <2>2, <2>3, <2>4
<1>8. Tracks(kindOf, current, archived, raw, {})
  <2> SUFFICES ASSUME NEW x \in Series, NEW k \in Kind
               PROVE  Track(k, kindOf[x], current[x][k], archived[x][k], TakenIn(raw, x, {}))
    BY <1>7 DEF Tracks
  <2>1. Track(k, kindOf[x], NoAggregate, [w \in Window |-> NoAggregate], {})
    BY TrackStarts
  <2>2. PICK g : g = [w \in Window |-> NoAggregate]
    OBVIOUS
  <2>. QED  BY <1>5, <1>6, <2>1, <2>2
<1>9. failed = FALSE
  BY DEF SeriesInit
<1>. QED  BY <1>2, <1>3, <1>8, <1>9 DEF SeriesInv

\* Where InOrder holds, a message is sent when the one before it is stored, and
\* its readings are newer than every row.
LEMMA PublishKeepsOrder ==
    ASSUME NEW r, NEW st, NEW b, NEW points, points \subseteq Point,
           ReadingsInOrder({}, r, st, b),
           \A p \in points : \A q \in r : q.series = p.series => q.ts < p.ts,
           \A p, q \in points : p.series = q.series /\ p.ts = q.ts => p = q
    PROVE  ReadingsInOrder(points, r, st, b)
<1>1. SeriesShape(points, r, st, b)
  BY DEF ReadingsInOrder, SeriesShape
<1>2. NewsIsNewer(points, r)
  BY DEF NewsIsNewer
<1>3. r \subseteq Point /\ \A p, q \in r : p.series = q.series /\ p.ts = q.ts => p = q
  BY DEF ReadingsInOrder, SeriesShape, KeysOnce
<1>4. \A p \in points : \A q \in r : p.series # q.series \/ p.ts # q.ts
  <2> SUFFICES ASSUME NEW p \in points, NEW q \in r, p.series = q.series, p.ts = q.ts
               PROVE  FALSE
    OBVIOUS
  <2>1. q.ts < p.ts /\ p.ts \in Int
    BY DEF Point, Tick
  <2>. QED  BY <2>1
<1>5. KeysOnce(r \union points)
  BY <1>3, <1>4 DEF KeysOnce
<1>. QED  BY <1>1, <1>2, <1>5 DEF ReadingsInOrder

\* The earliest reading of the message, not stored yet, is put.
CanPut(m, r, st, b, p, m2, r2, st2) ==
    /\ ReadingsInOrder(m, r, st, b)
    /\ p \in m /\ p \notin r /\ \A q \in m : p.ts <= q.ts
    /\ m2 \subseteq m /\ r2 = r \union {p} /\ st2 = Append(st, p)

\* It is the newest of its series, in the table and on the stream.
LEMMA PutKeepsOrder ==
    ASSUME NEW m, NEW r, NEW st, NEW b, NEW p, NEW m2, NEW r2, NEW st2,
           CanPut(m, r, st, b, p, m2, r2, st2)
    PROVE  /\ ReadingsInOrder(m2, r2, st2, b)
           /\ PendingIn(st2, b.next) = PendingIn(st, b.next) \union {p}
<1>0. /\ ReadingsInOrder(m, r, st, b)
      /\ p \in m /\ p \notin r /\ \A q \in m : p.ts <= q.ts
      /\ m2 \subseteq m
  BY DEF CanPut
<1>1. /\ m \subseteq Point /\ r \subseteq Point /\ IsFiniteSet(r)
      /\ st \in Seq(Point) /\ \A i \in 1 .. Len(st) : st[i] \in r
      /\ b \in [size : Nat, next : Nat, tries : Int]
      /\ 1 <= b.next /\ b.next <= b.size + 1 /\ b.size <= Len(st)
  BY <1>0 DEF ReadingsInOrder, SeriesShape
<1>2. p \in Point /\ p.ts \in Int
  BY <1>0, <1>1 DEF Point, Tick
<1>3. Len(st) \in Nat /\ b.next \in Nat /\ b.next <= Len(st) + 1 /\ b.size \in Nat
  BY <1>0, <1>1
<1>4. st2 = Append(st, p)
  BY DEF CanPut
<1>5. PendingIn(st2, b.next) = PendingIn(st, b.next) \union {p}
  BY <1>0, <1>1, <1>2, <1>3, <1>4, PendingAppended
<1>6. /\ Len(st2) = Len(st) + 1 /\ st2[Len(st) + 1] = p /\ st2 \in Seq(Point)
      /\ \A i \in 1 .. Len(st) : st2[i] = st[i]
  BY <1>0, <1>1, <1>2, <1>4
<1>7. \A q \in r : q.series = p.series => q.ts < p.ts
  BY <1>0 DEF ReadingsInOrder, NewsIsNewer
<1>8. \A i \in 1 .. Len(st2) : i \in 1 .. Len(st) \/ i = Len(st) + 1
  BY <1>0, <1>3, <1>6
<1>9. SeriesShape(m2, r \union {p}, st2, b)
  <2>1. IsFiniteSet(r \union {p})
    BY <1>0, <1>1, FS_AddElement
  <2>2. \A i \in 1 .. Len(st2) : st2[i] \in r \union {p}
    BY <1>0, <1>1, <1>6, <1>8
  <2>3. b.size <= Len(st2)
    BY <1>0, <1>1, <1>3, <1>6
  <2>. QED  BY <1>0, <1>1, <1>2, <1>6, <2>1, <2>2, <2>3 DEF SeriesShape
<1>10. KeysOnce((r \union {p}) \union m2)
  BY <1>0 DEF ReadingsInOrder, KeysOnce
<1>11. NewsIsNewer(m2, r \union {p})
  <2> SUFFICES ASSUME NEW q \in m2, q \notin r \union {p}, q.series = p.series
               PROVE  p.ts < q.ts
    BY <1>0 DEF ReadingsInOrder, NewsIsNewer
  <2>1. p.ts <= q.ts /\ q.ts \in Int
    BY <1>0, <1>1 DEF Point, Tick
  <2>2. p.ts # q.ts
    BY <1>0 DEF ReadingsInOrder, KeysOnce
  <2>. QED  BY <1>0, <1>2, <2>1, <2>2
<1>12. StreamInOrder(st2)
  <2> SUFFICES ASSUME NEW i \in 1 .. Len(st2), NEW j \in 1 .. Len(st2), i < j,
                      st2[i].series = st2[j].series
               PROVE  st2[i].ts < st2[j].ts
    BY <1>0 DEF StreamInOrder
  <2>1. i \in 1 .. Len(st)
    BY <1>0, <1>3, <1>6
  <2>2. CASE j \in 1 .. Len(st)
    BY <1>0, <1>6, <2>1, <2>2 DEF ReadingsInOrder, StreamInOrder
  <2>3. CASE j = Len(st) + 1
    <3>1. st2[i] \in r /\ st2[j] = p
      BY <1>0, <1>1, <1>6, <2>1, <2>3
    <3>. QED  BY <1>0, <1>7, <3>1
  <2>. QED  BY <1>0, <1>8, <2>2, <2>3
<1>13. TakenIsOlder(r \union {p}, PendingIn(st2, b.next))
  BY <1>0, <1>5, <1>7 DEF ReadingsInOrder, TakenIsOlder
<1>14. ReadingsInOrder(m2, r \union {p}, st2, b)
  BY <1>0, <1>9, <1>10, <1>11, <1>12, <1>13 DEF ReadingsInOrder
<1>15. r2 = r \union {p}
  BY DEF CanPut
<1>. QED  BY <1>4, <1>5, <1>14, <1>15

\* The next record is folded into the rows of its series.
EntryOf(r, st, b, kinds, cur, arc, p, cur2, arc2) ==
    /\ Tracks(kinds, cur, arc, r, PendingIn(st, b.next))
    /\ b.next <= b.size /\ p = st[b.next] /\ p.series \in Series
    /\ cur2 = [cur EXCEPT ![p.series] =
                  [k \in Kind |->
                      FoldedOf(kinds[p.series], @[k], WindowOf(k, p.ts), p.value)]]
    /\ arc2 = [arc EXCEPT ![p.series] =
                  [k \in Kind |-> ArchivedOf(cur[p.series][k], @[k], WindowOf(k, p.ts))]]

\* It is taken in by every kind of window of its series.
LEMMA EntryKeepsTracks ==
    ASSUME NEW m, NEW r, NEW st, NEW b, NEW kinds, NEW cur, NEW arc, NEW p, NEW cur2, NEW arc2,
           ReadingsInOrder(m, r, st, b), EntryOf(r, st, b, kinds, cur, arc, p, cur2, arc2)
    PROVE  /\ ReadingsInOrder(m, r, st, [b EXCEPT !.next = @ + 1])
           /\ Tracks(kinds, cur2, arc2, r, PendingIn(st, b.next + 1))
<1>0. /\ Tracks(kinds, cur, arc, r, PendingIn(st, b.next))
      /\ b.next <= b.size /\ p = st[b.next] /\ p.series \in Series
      /\ cur2 = [cur EXCEPT ![p.series] =
                    [k \in Kind |->
                        FoldedOf(kinds[p.series], @[k], WindowOf(k, p.ts), p.value)]]
      /\ arc2 = [arc EXCEPT ![p.series] =
                    [k \in Kind |-> ArchivedOf(cur[p.series][k], @[k], WindowOf(k, p.ts))]]
  BY DEF EntryOf
<1>1. /\ r \subseteq Point /\ st \in Seq(Point) /\ \A i \in 1 .. Len(st) : st[i] \in r
      /\ b \in [size : Nat, next : Nat, tries : Int]
      /\ 1 <= b.next /\ b.next <= b.size + 1 /\ b.size <= Len(st)
  BY DEF ReadingsInOrder, SeriesShape
<1>2. b.next \in Nat /\ b.size \in Nat /\ Len(st) \in Nat /\ b.next <= Len(st)
      /\ b.next \in 1 .. Len(st)
  <2>1. b.next \in Nat /\ b.size \in Nat /\ Len(st) \in Nat
    BY <1>1
  <2>2. 1 <= b.next /\ b.next <= b.size /\ b.size <= Len(st)
    BY <1>0, <1>1
  <2>. QED  BY <2>1, <2>2
<1>3. StreamInOrder(st)
  BY DEF ReadingsInOrder
<1> DEFINE pend == PendingIn(st, b.next)
           rest == PendingIn(st, b.next + 1)
<1>4. /\ p \in Point /\ p \in pend /\ rest = pend \ {p}
      /\ \A q \in rest : q.series = p.series => p.ts < q.ts
  BY <1>0, <1>1, <1>2, <1>3, PendingTaken
<1>5. p \in r
  BY <1>0, <1>1, <1>2
<1>6. \A q \in r : q \notin pend /\ q.series = p.series => q.ts < p.ts
  BY <1>4 DEF ReadingsInOrder, TakenIsOlder
<1>7. PICK b2 : b2 = [b EXCEPT !.next = @ + 1]
  OBVIOUS
<1>8. b2.next = b.next + 1 /\ b2.size = b.size
      /\ b2 \in [size : Nat, next : Nat, tries : Int]
  <2>1. b = [size |-> b.size, next |-> b.next, tries |-> b.tries] /\ b.tries \in Int
    BY <1>1
  <2>2. b2 = [size |-> b.size, next |-> b.next + 1, tries |-> b.tries]
    BY <1>7, <2>1
  <2>. QED  BY <1>2, <2>1, <2>2
<1>. HIDE DEF pend, rest
<1>9. TakenIsOlder(r, rest)
  <2> SUFFICES ASSUME NEW o \in r, NEW q \in rest, o \notin rest, o.series = q.series
               PROVE  o.ts < q.ts
    BY DEF TakenIsOlder
  <2>1. CASE o = p
    BY <1>4, <2>1
  <2>2. CASE o # p
    BY <1>4, <2>2 DEF ReadingsInOrder, TakenIsOlder, pend
  <2>. QED  BY <2>1, <2>2
<1>10. ReadingsInOrder(m, r, st, b2)
  <2>1. b2.next <= b2.size + 1 /\ 1 <= b2.next
    <3>1. b.next <= b.size /\ b2.next = b.next + 1 /\ b2.size = b.size
      BY <1>0, <1>8
    <3>. QED  BY <1>2, <3>1
  <2>2. SeriesShape(m, r, st, b2)
    BY <1>8, <2>1 DEF ReadingsInOrder, SeriesShape
  <2>. QED  BY <1>8, <1>9, <2>2 DEF ReadingsInOrder, rest
<1>11. \A x : TakenIn(r, x, rest)
                = IF x = p.series THEN TakenIn(r, x, pend) \union {p} ELSE TakenIn(r, x, pend)
  BY <1>4, <1>5 DEF TakenIn
<1>12. /\ cur \in [Series -> [Kind -> Agg]]
       /\ arc \in [Series -> [Kind -> [Window -> Agg]]]
       /\ \A x \in Series : \A k \in Kind :
             Track(k, kinds[x], cur[x][k], arc[x][k], TakenIn(r, x, pend))
  BY <1>0 DEF Tracks, pend
<1>13. /\ \A x \in Series : x # p.series => cur2[x] = cur[x] /\ arc2[x] = arc[x]
       /\ cur2[p.series] = [k \in Kind |-> FoldedOf(kinds[p.series], cur[p.series][k],
                                                    WindowOf(k, p.ts), p.value)]
       /\ arc2[p.series] = [k \in Kind |-> ArchivedOf(cur[p.series][k], arc[p.series][k],
                                                      WindowOf(k, p.ts))]
  BY <1>0, <1>12
<1>14. ASSUME NEW k \in Kind
       PROVE  Track(k, kinds[p.series], cur2[p.series][k], arc2[p.series][k],
                    TakenIn(r, p.series, pend) \union {p})
  <2>0. Track(k, kinds[p.series], cur[p.series][k], arc[p.series][k],
              TakenIn(r, p.series, pend))
    <3>1. PICK x \in Series : x = p.series
      BY <1>0
    <3>2. Track(k, kinds[x], cur[x][k], arc[x][k], TakenIn(r, x, pend))
      BY <1>12
    <3>. QED  BY <3>1, <3>2
  <2>1. PICK R : R = TakenIn(r, p.series, pend)
    OBVIOUS
  <2>2. PICK w : w = WindowOf(k, p.ts)
    OBVIOUS
  <2>3. PICK c : c = cur[p.series][k]
    OBVIOUS
  <2>4. PICK a : a = arc[p.series][k]
    OBVIOUS
  <2>5. PICK kd : kd = kinds[p.series]
    OBVIOUS
  <2>6. PICK n : n = FoldedOf(kd, c, w, p.value)
    OBVIOUS
  <2>7. PICK a2 : a2 = ArchivedOf(c, a, w)
    OBVIOUS
  <2>8. Track(k, kd, c, a, R)
    BY <2>0, <2>1, <2>3, <2>4, <2>5
  <2>9. cur2[p.series][k] = n /\ arc2[p.series][k] = a2
    <3>1. PICK f : f = [j \in Kind |-> FoldedOf(kinds[p.series], cur[p.series][j],
                                                WindowOf(j, p.ts), p.value)]
      OBVIOUS
    <3>2. PICK g : g = [j \in Kind |-> ArchivedOf(cur[p.series][j], arc[p.series][j],
                                                  WindowOf(j, p.ts))]
      OBVIOUS
    <3>3. f[k] = FoldedOf(kinds[p.series], cur[p.series][k], WindowOf(k, p.ts), p.value)
      BY <3>1
    <3>4. g[k] = ArchivedOf(cur[p.series][k], arc[p.series][k], WindowOf(k, p.ts))
      BY <3>2
    <3>5. cur2[p.series] = f /\ arc2[p.series] = g
      BY <1>13, <3>1, <3>2
    <3>. QED
      BY <2>2, <2>3, <2>4, <2>5, <2>6, <2>7, <3>3, <3>4, <3>5
  <2>10. \A o \in R : o.ts < p.ts
    BY <1>6, <2>1 DEF TakenIn
  <2>11. Track(k, kd, n, a2, R \union {p})
    BY <1>4, <2>2, <2>6, <2>7, <2>8, <2>10, TrackFolds
  <2>. QED  BY <2>1, <2>5, <2>9, <2>11
<1>15. cur2 \in [Series -> [Kind -> Agg]] /\ arc2 \in [Series -> [Kind -> [Window -> Agg]]]
  <2>1. \A k \in Kind : cur2[p.series][k] \in Agg /\ arc2[p.series][k] \in [Window -> Agg]
    BY <1>14 DEF Track
  <2>2. cur2[p.series] \in [Kind -> Agg] /\ arc2[p.series] \in [Kind -> [Window -> Agg]]
    BY <1>13, <2>1
  <2>. QED  BY <1>0, <1>12, <1>13, <2>2
<1>16. Tracks(kinds, cur2, arc2, r, rest)
  <2> SUFFICES ASSUME NEW x \in Series, NEW k \in Kind
               PROVE  Track(k, kinds[x], cur2[x][k], arc2[x][k], TakenIn(r, x, rest))
    BY <1>15 DEF Tracks
  <2>1. CASE x = p.series
    BY <1>11, <1>14, <2>1
  <2>2. CASE x # p.series
    BY <1>11, <1>12, <1>13, <2>2
  <2>. QED  BY <2>1, <2>2
<1>. QED  BY <1>7, <1>10, <1>16 DEF rest

\* A message is sent.
LEMMA Publish_Series ==
    ASSUME SeriesInv, InOrder, failed = FALSE, NEW p \in Point, NEW q \in Point, Publish({p, q})
    PROVE  SeriesInv'
<1>1. /\ ReadingsInOrder(message, raw, stream, batch)
      /\ Tracks(kindOf, current, archived, raw, PendingIn(stream, batch.next))
  BY DEF SeriesInv
<1>2. /\ message = {} /\ message' = {p, q}
      /\ UNCHANGED <<kindOf, raw, stream, batch, current, archived, failed>>
  BY DEF Publish
<1>3. \A x \in {p, q} : \A o \in raw : o.series = x.series => o.ts < x.ts
  BY DEF Publish, Newer
<1>4. \A x, o \in {p, q} : x.series = o.series /\ x.ts = o.ts => x = o
  BY DEF Publish
<1>5. ReadingsInOrder({p, q}, raw, stream, batch)
  <2>1. ReadingsInOrder({}, raw, stream, batch) /\ {p, q} \subseteq Point
    BY <1>1, <1>2
  <2>. QED  BY <1>3, <1>4, <2>1, PublishKeepsOrder
<1>. QED  BY <1>1, <1>2, <1>5 DEF SeriesInv

\* A point is put, or put again.
LEMMA PutPoint_Series ==
    ASSUME SeriesInv, InOrder, failed = FALSE, NEW p \in message, PutPoint(p)
    PROVE  SeriesInv'
<1>1. /\ ReadingsInOrder(message, raw, stream, batch)
      /\ Tracks(kindOf, current, archived, raw, PendingIn(stream, batch.next))
  BY DEF SeriesInv
<1>2. /\ raw' = raw \union {p} /\ message' \subseteq message
      /\ stream' = IF Stored(p) THEN stream ELSE Append(stream, p)
      /\ \A q \in message : p.ts <= q.ts
      /\ UNCHANGED <<kindOf, batch, current, archived, failed>>
  BY DEF PutPoint, Earliest
<1>3. CASE Stored(p)
  <2>1. PICK q \in raw : q.series = p.series /\ q.ts = p.ts
    BY <1>3 DEF Stored
  <2>2. p = q
    BY <1>1, <2>1 DEF ReadingsInOrder, KeysOnce
  <2>3. raw' = raw /\ stream' = stream
    BY <1>2, <1>3, <2>1, <2>2
  <2>4. ReadingsInOrder(message', raw, stream, batch)
    <3>1. PICK m : m = message'
      OBVIOUS
    <3>2. m \subseteq message
      BY <1>2, <3>1
    <3>3. SeriesShape(m, raw, stream, batch)
      BY <1>1, <3>2 DEF ReadingsInOrder, SeriesShape
    <3>4. KeysOnce(raw \union m) /\ NewsIsNewer(m, raw)
      BY <1>1, <3>2 DEF ReadingsInOrder, KeysOnce, NewsIsNewer
    <3>5. ReadingsInOrder(m, raw, stream, batch)
      BY <1>1, <3>3, <3>4 DEF ReadingsInOrder
    <3>. QED  BY <3>1, <3>5
  <2>. QED  BY <1>1, <1>2, <2>3, <2>4 DEF SeriesInv
<1>4. CASE ~ Stored(p)
  <2>1. p \notin raw
    BY <1>4 DEF Stored
  <2>2. PICK m : m = message'
    OBVIOUS
  <2>3. /\ ReadingsInOrder(m, raw \union {p}, Append(stream, p), batch)
        /\ PendingIn(Append(stream, p), batch.next)
              = PendingIn(stream, batch.next) \union {p}
    <3>1. PICK m0 : m0 = message
      OBVIOUS
    <3>2. PICK r : r = raw
      OBVIOUS
    <3>3. PICK st : st = stream
      OBVIOUS
    <3>4. PICK b : b = batch
      OBVIOUS
    <3>5. ReadingsInOrder(m0, r, st, b)
      BY <1>1, <3>1, <3>2, <3>3, <3>4
    <3>6. PICK st2 : st2 = Append(st, p)
      OBVIOUS
    <3>7. PICK r2 : r2 = r \union {p}
      OBVIOUS
    <3>8. CanPut(m0, r, st, b, p, m, r2, st2)
      BY <1>2, <2>1, <2>2, <3>1, <3>2, <3>5, <3>6, <3>7 DEF CanPut
    <3>9. /\ ReadingsInOrder(m, r2, st2, b)
          /\ PendingIn(st2, b.next) = PendingIn(st, b.next) \union {p}
      BY <3>8, PutKeepsOrder
    <3>. QED  BY <3>2, <3>3, <3>4, <3>6, <3>7, <3>9
  <2>4. \A x : TakenIn(raw \union {p}, x, PendingIn(stream, batch.next) \union {p})
                  = TakenIn(raw, x, PendingIn(stream, batch.next))
    BY <2>1 DEF TakenIn
  <2>5. Tracks(kindOf, current, archived, raw \union {p},
               PendingIn(stream, batch.next) \union {p})
    BY <1>1, <2>4 DEF Tracks
  <2>6. stream' = Append(stream, p)
    BY <1>2, <1>4
  <2>. QED  BY <1>2, <2>2, <2>3, <2>5, <2>6 DEF SeriesInv
<1>. QED  BY <1>3, <1>4

\* A batch is taken off the stream.
LEMMA TakeBatch_Series ==
    ASSUME SeriesInv, failed = FALSE, NEW n \in 1 .. BatchSize, TakeBatch(n)
    PROVE  SeriesInv'
<1>1. /\ ReadingsInOrder(message, raw, stream, batch)
      /\ Tracks(kindOf, current, archived, raw, PendingIn(stream, batch.next))
  BY DEF SeriesInv
<1>2. /\ batch.size = 0 /\ n \in Nat /\ 1 <= n /\ n <= Len(stream)
      /\ batch' = [size |-> n, next |-> 1, tries |-> 0]
      /\ UNCHANGED <<kindOf, message, raw, stream, current, archived, failed>>
  BY SeriesConstants DEF TakeBatch
<1>3. batch.next = 1
  BY <1>1, <1>2 DEF ReadingsInOrder, SeriesShape
<1>4. batch'.next = 1 /\ batch'.size = n
      /\ batch' \in [size : Nat, next : Nat, tries : Int]
  BY <1>2
<1>5. PICK b : b = batch'
  OBVIOUS
<1>6. SeriesShape(message, raw, stream, b)
  BY <1>1, <1>2, <1>4, <1>5 DEF ReadingsInOrder, SeriesShape
<1>7. ReadingsInOrder(message, raw, stream, b)
  BY <1>1, <1>3, <1>4, <1>5, <1>6 DEF ReadingsInOrder
<1>. QED  BY <1>1, <1>2, <1>3, <1>4, <1>5, <1>7 DEF SeriesInv

\* A batch is done with.
LEMMA BatchDone_Series ==
    ASSUME SeriesInv, failed = FALSE, BatchDone
    PROVE  SeriesInv'
<1>1. /\ ReadingsInOrder(message, raw, stream, batch)
      /\ Tracks(kindOf, current, archived, raw, PendingIn(stream, batch.next))
  BY DEF SeriesInv
<1>2. /\ batch.size > 0 /\ batch.next > batch.size
      /\ stream' = SubSeq(stream, batch.size + 1, Len(stream))
      /\ batch' = [size |-> 0, next |-> 1, tries |-> 0]
      /\ UNCHANGED <<kindOf, message, raw, current, archived, failed>>
  BY DEF BatchDone, FinishBatch
<1>3. /\ batch.size \in Nat /\ batch.next \in Nat /\ batch.size <= Len(stream)
      /\ batch.next <= batch.size + 1 /\ stream \in Seq(Point)
      /\ \A i \in 1 .. Len(stream) : stream[i] \in raw
  BY <1>1 DEF ReadingsInOrder, SeriesShape
<1>4. batch.next = batch.size + 1
  BY <1>2, <1>3
<1>5. PICK st : st = stream'
  OBVIOUS
<1>6. PICK n \in Nat : n = batch.size
  BY <1>3
<1>7. /\ st \in Seq(Point) /\ Len(st) = Len(stream) - n
      /\ \A i \in 1 .. Len(st) : st[i] = stream[n + i] /\ n + i \in 1 .. Len(stream)
      /\ PendingIn(st, 1) = PendingIn(stream, n + 1)
  <2>1. PICK st0 : st0 = stream
    OBVIOUS
  <2>2. st0 \in Seq(Point) /\ n <= Len(st0)
    BY <1>3, <1>6, <2>1
  <2>3. st = SubSeq(st0, n + 1, Len(st0))
    BY <1>2, <1>5, <1>6, <2>1
  <2>4. /\ st \in Seq(Point) /\ Len(st) = Len(st0) - n
        /\ \A i \in 1 .. Len(st) : st[i] = st0[n + i] /\ n + i \in 1 .. Len(st0)
        /\ PendingIn(st, 1) = PendingIn(st0, n + 1)
    BY <2>2, <2>3, PendingShifted
  <2>. QED  BY <2>1, <2>4
<1>8. PICK b : b = batch'
  OBVIOUS
<1>9. b.next = 1 /\ b.size = 0 /\ b \in [size : Nat, next : Nat, tries : Int]
  BY <1>2, <1>8
<1>10. SeriesShape(message, raw, st, b)
  <2>1. \A i \in 1 .. Len(st) : st[i] \in raw
    BY <1>3, <1>7
  <2>2. Len(st) \in Nat
    BY <1>7
  <2>. QED  BY <1>1, <1>7, <1>9, <2>1, <2>2 DEF ReadingsInOrder, SeriesShape
<1>11. StreamInOrder(st)
  <2> SUFFICES ASSUME NEW i \in 1 .. Len(st), NEW j \in 1 .. Len(st), i < j,
                      st[i].series = st[j].series
               PROVE  st[i].ts < st[j].ts
    BY DEF StreamInOrder
  <2>1. n + i < n + j
    OBVIOUS
  <2>2. StreamInOrder(stream)
    BY <1>1 DEF ReadingsInOrder
  <2>. QED  BY <1>7, <2>1, <2>2 DEF StreamInOrder
<1>12. ReadingsInOrder(message, raw, st, b)
  BY <1>1, <1>4, <1>6, <1>7, <1>9, <1>10, <1>11 DEF ReadingsInOrder
<1>. QED  BY <1>1, <1>2, <1>4, <1>5, <1>6, <1>7, <1>8, <1>9, <1>12 DEF SeriesInv

\* A record is processed.
LEMMA Entry_Series ==
    ASSUME SeriesInv, failed = FALSE, ProcessTimeseriesEntry
    PROVE  SeriesInv'
<1>1. /\ ReadingsInOrder(message, raw, stream, batch)
      /\ Tracks(kindOf, current, archived, raw, PendingIn(stream, batch.next))
  BY DEF SeriesInv
<1>2. PICK p : p = stream[batch.next]
  OBVIOUS
<1>3. /\ batch.next <= batch.size
      /\ archived' = [archived EXCEPT ![p.series] = Archived(p, Kind)]
      /\ current' = [current EXCEPT ![p.series] =
                        [k \in Kind |-> Folded(@[k], WindowOf(k, p.ts), p)]]
      /\ batch' = [batch EXCEPT !.next = @ + 1]
      /\ UNCHANGED <<kindOf, message, raw, stream, failed>>
  BY <1>2 DEF ProcessTimeseriesEntry, Processing, Reading
<1>4. p \in Point /\ p.series \in Series
  BY <1>1, <1>2, <1>3 DEF ReadingsInOrder, SeriesShape, Point
<1>5. /\ current \in [Series -> [Kind -> Agg]]
      /\ archived \in [Series -> [Kind -> [Window -> Agg]]]
  BY <1>1 DEF Tracks
<1>6. \A k \in Kind : Folded(current[p.series][k], WindowOf(k, p.ts), p)
         = FoldedOf(kindOf[p.series], current[p.series][k], WindowOf(k, p.ts), p.value)
  BY FoldedIs
<1>7. Archived(p, Kind) = [k \in Kind |-> ArchivedOf(current[p.series][k],
                                                     archived[p.series][k], WindowOf(k, p.ts))]
  BY DEF Archived, ArchivedOf
<1>8. current' = [current EXCEPT ![p.series] =
                     [k \in Kind |->
                         FoldedOf(kindOf[p.series], @[k], WindowOf(k, p.ts), p.value)]]
  BY <1>3, <1>4, <1>5, <1>6
<1>9. archived' = [archived EXCEPT ![p.series] =
                      [k \in Kind |->
                          ArchivedOf(current[p.series][k], @[k], WindowOf(k, p.ts))]]
  BY <1>3, <1>4, <1>5, <1>7
<1>10. PICK cur2 : cur2 = current'
  OBVIOUS
<1>11. PICK arc2 : arc2 = archived'
  OBVIOUS
<1>12. /\ ReadingsInOrder(message, raw, stream, [batch EXCEPT !.next = @ + 1])
       /\ Tracks(kindOf, cur2, arc2, raw, PendingIn(stream, batch.next + 1))
  <2>1. PICK m : m = message
    OBVIOUS
  <2>2. PICK r : r = raw
    OBVIOUS
  <2>3. PICK st : st = stream
    OBVIOUS
  <2>4. PICK b : b = batch
    OBVIOUS
  <2>5. PICK kinds : kinds = kindOf
    OBVIOUS
  <2>6. PICK cur : cur = current
    OBVIOUS
  <2>7. PICK arc : arc = archived
    OBVIOUS
  <2>8. ReadingsInOrder(m, r, st, b) /\ Tracks(kinds, cur, arc, r, PendingIn(st, b.next))
        /\ b.next <= b.size /\ p = st[b.next] /\ p.series \in Series
    BY <1>1, <1>2, <1>3, <1>4, <2>1, <2>2, <2>3, <2>4, <2>5, <2>6, <2>7
  <2>9. cur2 = [cur EXCEPT ![p.series] =
                   [k \in Kind |->
                       FoldedOf(kinds[p.series], @[k], WindowOf(k, p.ts), p.value)]]
    BY <1>8, <1>10, <2>5, <2>6
  <2>10. arc2 = [arc EXCEPT ![p.series] =
                    [k \in Kind |->
                        ArchivedOf(cur[p.series][k], @[k], WindowOf(k, p.ts))]]
    BY <1>9, <1>11, <2>6, <2>7
  <2>11. /\ ReadingsInOrder(m, r, st, [b EXCEPT !.next = @ + 1])
         /\ Tracks(kinds, cur2, arc2, r, PendingIn(st, b.next + 1))
    <3>1. EntryOf(r, st, b, kinds, cur, arc, p, cur2, arc2)
      BY <2>8, <2>9, <2>10 DEF EntryOf
    <3>. QED  BY <2>8, <3>1, EntryKeepsTracks
  <2>. QED  BY <2>1, <2>2, <2>3, <2>4, <2>5, <2>11
<1>13. batch'.next = batch.next + 1
  BY <1>1, <1>3 DEF ReadingsInOrder, SeriesShape
<1>. QED  BY <1>3, <1>10, <1>11, <1>12, <1>13 DEF SeriesInv

\* Every step keeps the invariant, where messages come in order.
LEMMA SeriesStep ==
    ASSUME InOrder, SeriesInv, [SeriesNext]_tsVars
    PROVE  SeriesInv'
<1>1. CASE UNCHANGED tsVars
  BY <1>1 DEF tsVars, SeriesInv
<1>2. CASE failed # FALSE /\ SeriesNext
  <2>1. failed' = failed \/ failed' = TRUE
    BY <1>2 DEF SeriesNext, Publish, PutPoint, TakeBatch, ProcessTimeseriesEntry,
       RecordFails, BatchDone
  <2>. QED  BY <1>2, <2>1 DEF SeriesInv
<1>3. ASSUME failed = FALSE, NEW p \in Point, NEW q \in Point, Publish({p, q})
      PROVE  SeriesInv'
  BY <1>3, Publish_Series
<1>4. ASSUME failed = FALSE, NEW p \in message, PutPoint(p)
      PROVE  SeriesInv'
  BY <1>4, PutPoint_Series
<1>5. ASSUME failed = FALSE, NEW n \in 1 .. BatchSize, TakeBatch(n)
      PROVE  SeriesInv'
  BY <1>5, TakeBatch_Series
<1>6. CASE failed = FALSE /\ ProcessTimeseriesEntry
  BY <1>6, Entry_Series
<1>7. ASSUME NEW kinds, RecordFails(kinds)
      PROVE  SeriesInv'
  BY <1>7 DEF RecordFails, SeriesInv
<1>8. CASE failed = FALSE /\ BatchDone
  BY <1>8, BatchDone_Series
<1>. QED  BY <1>1, <1>2, <1>3, <1>4, <1>5, <1>6, <1>7, <1>8 DEF SeriesNext

\* The totals of the properties are these sums.
LEMMA TotalCounts ==
    ASSUME NEW x, NEW k
    PROVE  Total(x, k, LAMBDA a : a.count) = SumOf(CountOf(current[x][k], archived[x][k]), Window)
<1>1. \A w : Known(x, k, w) = KnownOf(current[x][k], archived[x][k], w)
  BY DEF Known, KnownOf
<1>2. Total(x, k, LAMBDA a : a.count)
        = SumIter([w \in Window |-> Known(x, k, w).count], Window)[Window]
  BY DEF Total, MapThenSumSet, MapThenFoldSet, SumIter
<1>3. CountOf(current[x][k], archived[x][k]) = [w \in Window |-> Known(x, k, w).count]
  BY <1>1 DEF CountOf
<1>. QED  BY <1>2, <1>3, SumIsIter

\* So are those of what is summed.
LEMMA TotalSums ==
    ASSUME NEW x, NEW k
    PROVE  Total(x, k, LAMBDA a : a.sum) = SumOf(SumsOf(current[x][k], archived[x][k]), Window)
<1>1. \A w : Known(x, k, w) = KnownOf(current[x][k], archived[x][k], w)
  BY DEF Known, KnownOf
<1>2. Total(x, k, LAMBDA a : a.sum)
        = SumIter([w \in Window |-> Known(x, k, w).sum], Window)[Window]
  BY DEF Total, MapThenSumSet, MapThenFoldSet, SumIter
<1>3. SumsOf(current[x][k], archived[x][k]) = [w \in Window |-> Known(x, k, w).sum]
  BY <1>1 DEF SumsOf
<1>. QED  BY <1>2, <1>3, SumIsIter

\* And those over the readings: their values,
LEMMA SumOfValues == \A R : MapThenSumSet(LAMBDA p : p.value, R) = SumOf(ValuesOf(R), R)
<1> SUFFICES ASSUME NEW R
             PROVE  MapThenSumSet(LAMBDA p : p.value, R) = SumOf(ValuesOf(R), R)
  OBVIOUS
<1>1. MapThenSumSet(LAMBDA p : p.value, R) = SumIter([p \in R |-> p.value], R)[R]
  BY DEF MapThenSumSet, MapThenFoldSet, SumIter
<1>. QED  BY <1>1, SumIsIter DEF ValuesOf

\* and what they show used.
LEMMA SumOfUse ==
    ASSUME NEW x
    PROVE  MapThenSumSet(Consumption, Rows(x)) = SumOf(UseOf(Rows(x)), Rows(x))
<1>1. \A p \in Rows(x) : Consumption(p) = UsedSince(Rows(x), p)
  <2> SUFFICES ASSUME NEW p \in Rows(x)
               PROVE  Consumption(p) = UsedSince(Rows(x), p)
    OBVIOUS
  <2>1. p.series = x
    BY DEF Rows
  <2>2. Before(p) = EarlierIn(Rows(x), p)
    BY <2>1 DEF Before, EarlierIn
  <2>3. PICK E : E = Before(p)
    OBVIOUS
  <2>4. Newest(E) = CHOOSE q \in E : \A o \in E : o.ts <= q.ts
    BY DEF Newest
  <2>5. Consumption(p) = IF E = {} THEN 0 ELSE UsedAfter(p.value, Newest(E).value)
    BY <2>3, <2>4 DEF Consumption, UsedAfter
  <2>. QED  BY <2>2, <2>3, <2>5 DEF UsedSince
<1>2. MapThenSumSet(Consumption, Rows(x))
        = SumIter([p \in Rows(x) |-> Consumption(p)], Rows(x))[Rows(x)]
  BY DEF MapThenSumSet, MapThenFoldSet, SumIter
<1>3. [p \in Rows(x) |-> Consumption(p)] = UseOf(Rows(x))
  BY <1>1 DEF UseOf
<1>. QED  BY <1>2, <1>3, SumIsIter

\* When the stream is drained every reading was taken in.
LEMMA DrainedIsRight ==
    ASSUME SeriesInv
    PROVE  ReadingsCountOnce /\ ConsumptionAddsUp
<1>0. ~ failed => failed = FALSE
  BY DEF SeriesInv
<1>1. ASSUME stream = <<>>, failed = FALSE, NEW x \in Series, NEW k \in Kind
      PROVE  /\ CountsRight(kindOf[x], current[x][k], archived[x][k], Rows(x))
             /\ ValuesRight(kindOf[x], current[x][k], archived[x][k], Rows(x))
             /\ UseRight(kindOf[x], current[x][k], archived[x][k], Rows(x))
  <2>1. /\ ReadingsInOrder(message, raw, stream, batch)
        /\ Tracks(kindOf, current, archived, raw, PendingIn(stream, batch.next))
    BY <1>1 DEF SeriesInv
  <2>2. batch.next \in Nat /\ 1 <= batch.next /\ Len(stream) = 0
    BY <1>1, <2>1 DEF ReadingsInOrder, SeriesShape
  <2>3. PendingIn(stream, batch.next) = {}
    BY <2>2 DEF PendingIn
  <2>4. TakenIn(raw, x, {}) = Rows(x)
    BY DEF TakenIn, Rows
  <2>5. Track(k, kindOf[x], current[x][k], archived[x][k], Rows(x))
    BY <2>1, <2>3, <2>4 DEF Tracks
  <2>. QED  BY <2>5 DEF Track
<1>2. ReadingsCountOnce
  <2> SUFFICES ASSUME stream = <<>>, ~ failed, NEW x \in Series, NEW k \in Kind,
                      kindOf[x] = "gauge"
               PROVE  /\ Total(x, k, LAMBDA a : a.count) = Cardinality(Rows(x))
                      /\ Total(x, k, LAMBDA a : a.sum)
                            = MapThenSumSet(LAMBDA p : p.value, Rows(x))
    BY DEF ReadingsCountOnce
  <2>1. CountsRight(kindOf[x], current[x][k], archived[x][k], Rows(x))
        /\ ValuesRight(kindOf[x], current[x][k], archived[x][k], Rows(x))
    BY <1>0, <1>1
  <2>2. Total(x, k, LAMBDA a : a.count) = Cardinality(Rows(x))
    BY <2>1, TotalCounts DEF CountsRight
  <2>3. Total(x, k, LAMBDA a : a.sum) = MapThenSumSet(LAMBDA p : p.value, Rows(x))
    BY <2>1, TotalSums, SumOfValues DEF ValuesRight
  <2>. QED  BY <2>2, <2>3
<1>3. ConsumptionAddsUp
  <2> SUFFICES ASSUME stream = <<>>, ~ failed, NEW x \in Series, NEW k \in Kind,
                      kindOf[x] = "meter"
               PROVE  Total(x, k, LAMBDA a : a.sum) = MapThenSumSet(Consumption, Rows(x))
    BY DEF ConsumptionAddsUp
  <2>1. UseRight(kindOf[x], current[x][k], archived[x][k], Rows(x))
    BY <1>0, <1>1
  <2>. QED  BY <2>1, TotalSums, SumOfUse DEF UseRight
<1>. QED  BY <1>2, <1>3

\* The invariant holds always.
LEMMA SeriesAlways ==
    ASSUME InOrder
    PROVE  SeriesSpec => []SeriesInv
<1>1. SeriesInit => SeriesInv
  BY SeriesInit_Inv
<1>2. SeriesInv /\ [SeriesNext]_tsVars => SeriesInv'
  BY SeriesStep
<1>. QED  BY <1>1, <1>2, PTL DEF SeriesSpec

\* However a message or its points are delivered again, a gauge's windows count
\* every reading once and sum them (ProcessTimeseriesEntry, PutTimeseriesData):
\* when messages come in order and until a batch has to be tried again, for any
\* numbers of series, ticks, readings and sizes of batches.
THEOREM EachReadingOnce == InOrder => (SeriesSpec => []ReadingsCountOnce)
<1> SUFFICES ASSUME InOrder
             PROVE  SeriesSpec => []ReadingsCountOnce
  OBVIOUS
<1>1. SeriesSpec => []SeriesInv
  BY SeriesAlways
<1>2. SeriesInv => ReadingsCountOnce
  BY DrainedIsRight
<1>. QED  BY <1>1, <1>2, PTL

\* Under the same conditions a meter's windows add up to what it used from its
\* first reading to its last, across their ends and across resets of the meter
\* (Reset, UpdateStats).
THEOREM NothingUsedIsLost == InOrder => (SeriesSpec => []ConsumptionAddsUp)
<1> SUFFICES ASSUME InOrder
             PROVE  SeriesSpec => []ConsumptionAddsUp
  OBVIOUS
<1>1. SeriesSpec => []SeriesInv
  BY SeriesAlways
<1>2. SeriesInv => ConsumptionAddsUp
  BY DrainedIsRight
<1>. QED  BY <1>1, <1>2, PTL

----------------------------------------------------------------------------
(* TimeSeries: types, however messages come and batches fail.              *)

\* The stream is of rows of the raw table, and the batch a prefix of it.
StreamOK(m, r, st, b) ==
    /\ m \subseteq Point /\ r \subseteq Point
    /\ st \in Seq(Point) /\ \A i \in 1 .. Len(st) : st[i] \in r
    /\ b \in [size : Nat, next : Nat, tries : Nat]
    /\ 1 <= b.next /\ b.next <= b.size + 1 /\ b.size <= Len(st)
    /\ b.tries <= RetryAttempts

SeriesTypes ==
    /\ kindOf \in [Series -> {"gauge", "meter", "text"}]
    /\ StreamOK(message, raw, stream, batch)
    /\ failed \in BOOLEAN

\* A row inserted is the last of the stream.
LEMMA StreamGrows ==
    ASSUME NEW m, NEW r, NEW st, NEW b, StreamOK(m, r, st, b),
           NEW p \in m, NEW m2, m2 \subseteq m
    PROVE  StreamOK(m2, r \union {p}, st, b) /\ StreamOK(m2, r \union {p}, Append(st, p), b)
<1>1. p \in Point /\ st \in Seq(Point) /\ Len(st) \in Nat
  BY DEF StreamOK
<1>2. StreamOK(m2, r \union {p}, st, b)
  BY <1>1 DEF StreamOK
<1>3. PICK st2 : st2 = Append(st, p)
  OBVIOUS
<1>4. /\ st2 \in Seq(Point) /\ Len(st2) = Len(st) + 1 /\ st2[Len(st) + 1] = p
      /\ \A i \in 1 .. Len(st) : st2[i] = st[i]
  BY <1>1, <1>3
<1>5. \A i \in 1 .. Len(st2) : st2[i] \in r \union {p}
  <2> SUFFICES ASSUME NEW i \in 1 .. Len(st2) PROVE st2[i] \in r \union {p}
    OBVIOUS
  <2>1. i = Len(st) + 1 \/ i \in 1 .. Len(st)
    BY <1>1, <1>4
  <2> QED BY <1>4, <2>1 DEF StreamOK
<1>6. b.size \in Nat /\ b.size <= Len(st)
  BY DEF StreamOK
<1>7. b.size <= Len(st2)
  BY <1>1, <1>4, <1>6
<1>8. StreamOK(m2, r \union {p}, st2, b)
  BY <1>1, <1>4, <1>5, <1>7 DEF StreamOK
<1> QED BY <1>2, <1>3, <1>8

\* What is left of the stream is of rows still.
LEMMA StreamShrinks ==
    ASSUME NEW m, NEW r, NEW st, NEW b, StreamOK(m, r, st, b), NEW st2, NEW b2,
           st2 = SubSeq(st, b.size + 1, Len(st)), b2 = [size |-> 0, next |-> 1, tries |-> 0]
    PROVE  StreamOK(m, r, st2, b2)
<1>1. PICK n \in Nat : n = b.size
  BY DEF StreamOK
<1>2. st \in Seq(Point) /\ n <= Len(st) /\ st2 = SubSeq(st, n + 1, Len(st))
  BY <1>1 DEF StreamOK
<1>3. /\ st2 \in Seq(Point)
      /\ \A i \in 1 .. Len(st2) : st2[i] = st[n + i] /\ n + i \in 1 .. Len(st)
  BY <1>2, PendingShifted
<1>4. \A i \in 1 .. Len(st2) : st2[i] \in r
  BY <1>3 DEF StreamOK
<1>5. b2 \in [size : Nat, next : Nat, tries : Nat] /\ b2.size = 0 /\ b2.next = 1 /\ b2.tries = 0
  OBVIOUS
<1>6. 0 <= Len(st2)
  BY <1>3
<1> QED BY <1>3, <1>4, <1>5, <1>6, SeriesConstants DEF StreamOK

\* A batch is taken, moves on, and is tried again.
LEMMA BatchMoves ==
    ASSUME NEW m, NEW r, NEW st, NEW b, StreamOK(m, r, st, b)
    PROVE  /\ \A n \in Nat : n <= Len(st) => StreamOK(m, r, st, [size |-> n, next |-> 1, tries |-> 0])
           /\ b.next <= b.size => StreamOK(m, r, st, [b EXCEPT !.next = @ + 1])
           /\ b.tries # RetryAttempts => StreamOK(m, r, st, [b EXCEPT !.next = 1, !.tries = @ + 1])
<1>1. /\ b \in [size : Nat, next : Nat, tries : Nat] /\ b.next <= b.size + 1
      /\ 1 <= b.next /\ b.size <= Len(st) /\ b.tries <= RetryAttempts
  BY DEF StreamOK
<1>2. ASSUME NEW n \in Nat, n <= Len(st)
      PROVE  StreamOK(m, r, st, [size |-> n, next |-> 1, tries |-> 0])
  <2>1. PICK b2 : b2 = [size |-> n, next |-> 1, tries |-> 0]
    OBVIOUS
  <2>2. b2 \in [size : Nat, next : Nat, tries : Nat] /\ b2.size = n /\ b2.next = 1 /\ b2.tries = 0
    BY <2>1
  <2>3. StreamOK(m, r, st, b2)
    BY <1>2, <2>2, SeriesConstants DEF StreamOK
  <2> QED BY <2>1, <2>3
<1>3. ASSUME b.next <= b.size PROVE StreamOK(m, r, st, [b EXCEPT !.next = @ + 1])
  <2>1. PICK b2 : b2 = [b EXCEPT !.next = @ + 1]
    OBVIOUS
  <2>2. /\ b2 \in [size : Nat, next : Nat, tries : Nat]
        /\ b2.size = b.size /\ b2.next = b.next + 1 /\ b2.tries = b.tries
    BY <1>1, <2>1
  <2>3. StreamOK(m, r, st, b2)
    BY <1>1, <1>3, <2>2 DEF StreamOK
  <2> QED BY <2>1, <2>3
<1>4. ASSUME b.tries # RetryAttempts
      PROVE  StreamOK(m, r, st, [b EXCEPT !.next = 1, !.tries = @ + 1])
  <2>1. PICK b2 : b2 = [b EXCEPT !.next = 1, !.tries = @ + 1]
    OBVIOUS
  <2>2. b2 = [size |-> b.size, next |-> 1, tries |-> b.tries + 1]
    BY <1>1, <2>1
  <2>3. /\ b2 \in [size : Nat, next : Nat, tries : Nat]
        /\ b2.size = b.size /\ b2.next = 1 /\ b2.tries = b.tries + 1
    BY <1>1, <2>2
  <2>4. b2.tries <= RetryAttempts
    BY <1>1, <1>4, <2>3, SeriesConstants
  <2>5. StreamOK(m, r, st, b2)
    BY <1>1, <2>3, <2>4 DEF StreamOK
  <2> QED BY <2>1, <2>5
<1> QED BY <1>2, <1>3, <1>4

\* The rows, the stream and its batch keep their types.
LEMMA SeriesTyped == SeriesSpec => []SeriesTypeOK
<1>1. SeriesInit => SeriesTypes
  <2> SUFFICES ASSUME SeriesInit PROVE SeriesTypes
    OBVIOUS
  <2>1. /\ batch \in [size : Nat, next : Nat, tries : Nat] /\ batch.size = 0 /\ batch.next = 1
        /\ batch.tries = 0 /\ stream = <<>> /\ message = {} /\ raw = {}
    BY DEF SeriesInit
  <2>2. StreamOK(message, raw, stream, batch)
    BY <2>1, SeriesConstants DEF StreamOK
  <2> QED BY <2>2 DEF SeriesInit, SeriesTypes
<1>2. SeriesTypes /\ [SeriesNext]_tsVars => SeriesTypes'
  <2> SUFFICES ASSUME SeriesTypes, [SeriesNext]_tsVars PROVE SeriesTypes'
    OBVIOUS
  <2>0. StreamOK(message, raw, stream, batch)
    BY DEF SeriesTypes
  <2>1. ASSUME NEW p \in Point, NEW q \in Point, Publish({p, q}) PROVE SeriesTypes'
    <3>1. message' = message \union {p, q}
          /\ UNCHANGED <<kindOf, raw, stream, batch, failed>>
      BY <2>1 DEF Publish
    <3>2. StreamOK(message \union {p, q}, raw, stream, batch)
      BY <2>0 DEF StreamOK
    <3> QED BY <3>1, <3>2 DEF SeriesTypes
  <2>2. ASSUME NEW p \in message, PutPoint(p) PROVE SeriesTypes'
    <3>1. /\ raw' = raw \union {p} /\ message' \subseteq message
          /\ stream' = stream \/ stream' = Append(stream, p)
          /\ UNCHANGED <<kindOf, batch, failed>>
      BY <2>2 DEF PutPoint
    <3>2. PICK m2 : m2 = message'
      OBVIOUS
    <3>3. /\ StreamOK(m2, raw \union {p}, stream, batch)
          /\ StreamOK(m2, raw \union {p}, Append(stream, p), batch)
      BY <2>0, <3>1, <3>2, StreamGrows
    <3> QED BY <3>1, <3>2, <3>3 DEF SeriesTypes
  <2>3. ASSUME NEW n \in 1 .. BatchSize, TakeBatch(n) PROVE SeriesTypes'
    <3>1. /\ n \in Nat /\ n <= Len(stream) /\ batch' = [size |-> n, next |-> 1, tries |-> 0]
          /\ UNCHANGED <<kindOf, message, raw, stream, failed>>
      BY <2>3, SeriesConstants DEF TakeBatch
    <3>2. StreamOK(message, raw, stream, [size |-> n, next |-> 1, tries |-> 0])
      BY <2>0, <3>1, BatchMoves
    <3> QED BY <3>1, <3>2 DEF SeriesTypes
  <2>4. CASE ProcessTimeseriesEntry
    <3>1. /\ batch.next <= batch.size /\ batch' = [batch EXCEPT !.next = @ + 1]
          /\ UNCHANGED <<kindOf, message, raw, stream, failed>>
      BY <2>4 DEF ProcessTimeseriesEntry, Processing
    <3>2. StreamOK(message, raw, stream, [batch EXCEPT !.next = @ + 1])
      BY <2>0, <3>1, BatchMoves
    <3> QED BY <3>1, <3>2 DEF SeriesTypes
  <2>5. ASSUME FinishBatch, UNCHANGED <<kindOf, message, raw>>, failed' \in BOOLEAN
        PROVE  SeriesTypes'
    <3>1. PICK st2 : st2 = stream'
      OBVIOUS
    <3>2. PICK b2 : b2 = batch'
      OBVIOUS
    <3>3. /\ st2 = SubSeq(stream, batch.size + 1, Len(stream))
          /\ b2 = [size |-> 0, next |-> 1, tries |-> 0]
      BY <2>5, <3>1, <3>2 DEF FinishBatch
    <3>4. StreamOK(message, raw, st2, b2)
      BY <2>0, <3>3, StreamShrinks
    <3> QED BY <2>5, <3>1, <3>2, <3>4 DEF SeriesTypes
  <2>6. CASE BatchDone
    <3>1. FinishBatch /\ UNCHANGED <<kindOf, message, raw>> /\ failed' = failed
      BY <2>6 DEF BatchDone
    <3> QED BY <2>5, <3>1 DEF SeriesTypes
  <2>7. ASSUME NEW kinds, RecordFails(kinds) PROVE SeriesTypes'
    <3>1. Retried(Reading) /\ failed' = TRUE /\ UNCHANGED <<kindOf, message, raw>>
      BY <2>7 DEF RecordFails
    <3>2. CASE batch.tries = RetryAttempts
      BY <2>5, <3>1, <3>2 DEF Retried
    <3>3. CASE batch.tries # RetryAttempts
      <4>1. stream' = stream /\ batch' = [batch EXCEPT !.next = 1, !.tries = @ + 1]
        BY <3>1, <3>3 DEF Retried
      <4>2. StreamOK(message, raw, stream, [batch EXCEPT !.next = 1, !.tries = @ + 1])
        BY <2>0, <3>3, BatchMoves
      <4> QED BY <3>1, <4>1, <4>2 DEF SeriesTypes
    <3> QED BY <3>2, <3>3
  <2>8. CASE UNCHANGED tsVars
    BY <2>0, <2>8 DEF tsVars, SeriesTypes
  <2> QED BY <2>1, <2>2, <2>3, <2>4, <2>6, <2>7, <2>8 DEF SeriesNext
<1>3. SeriesTypes => SeriesTypeOK
  <2> SUFFICES ASSUME SeriesTypes PROVE SeriesTypeOK
    OBVIOUS
  <2>1. /\ message \subseteq Point /\ raw \subseteq Point
        /\ stream \in Seq(Point) /\ \A i \in 1 .. Len(stream) : stream[i] \in raw
    BY DEF SeriesTypes, StreamOK
  <2>2. \A i \in DOMAIN stream : stream[i] \in raw
    BY <2>1
  <2>3. /\ batch.size \in 0 .. Len(stream) /\ batch.next \in 1 .. batch.size + 1
        /\ batch.tries \in 0 .. RetryAttempts
    BY <2>1, SeriesConstants DEF SeriesTypes, StreamOK
  <2> QED BY <2>1, <2>2, <2>3 DEF SeriesTypeOK, SeriesTypes
<1> QED BY <1>1, <1>2, <1>3, PTL DEF SeriesSpec

=============================================================================
