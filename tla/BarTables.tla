----------------------------- MODULE BarTables -----------------------------
(***************************************************************************)
(* The rules of the bar tables, as functions of a day's rows.  A day holds *)
(* at most one row per minute, so its rows are a function from the minutes *)
(* stored to what the row says: Partial while the minute is in progress,   *)
(* Final once it ended, Corrected when the vendor restated it.  The three  *)
(* writers of bar_days differ: the stream puts one candle in, Alpaca's     *)
(* REST refresh merges what it fetched over what is stored, Schwab's       *)
(* replaces a day that holds fewer rows.                                   *)
(***************************************************************************)
EXTENDS Integers, FiniteSets, FiniteSetsExt, Functions

Partial   == 0
Final     == 1
Corrected == 2
Prices    == Partial..Corrected

NoRows == [k \in {} |-> Final]
Held(rows) == DOMAIN rows
Usable(rows) == Cardinality(Held(rows)) >= 2

\* Left over right, as Python's dict.update.
Over(left, right) ==
    [k \in Held(left) \cup Held(right) |->
        IF k \in Held(left) THEN left[k] ELSE right[k]]

Row(k, px) == [j \in {k} |-> px]

\* mutant: the candle becomes the day's only row
PutAlone(rows, k, px) == Row(k, px)

\* BarDayStore.write and store_bar: the candle replaces its minute.
Put(rows, k, px) == Over(Row(k, px), rows)

\* mutant: the minute in progress counts as ended
EndedOrRunning(rows, at) == Restrict(rows, {k \in Held(rows) : k <= at})

\* drop_in_progress and _cut_in_progress_minute: the rows whose minute has
\* ended when the clock is in minute `at`.
Ended(rows, at) == Restrict(rows, {k \in Held(rows) : k < at})

\* history.refresh: the ended minutes are merged over the stored day, the
\* fetched row winning; fewer than two of them are not stored at all.
Merged(rows, fetched, at) ==
    LET usable == Ended(fetched, at)
    IN IF Usable(usable) THEN Over(usable, rows) ELSE rows

\* The Schwab plugin's refresh: the day as it came back, the minute in
\* progress included, unless the stored one has as many rows.
Thinner(rows, fetched) ==
    IF Usable(fetched) /\ Cardinality(Held(fetched)) > Cardinality(Held(rows))
    THEN fetched ELSE rows

\* _rows_fingerprint: the count, the first and the last row and the write
\* stamp stand for the whole day.
Fingerprint(rows, stamp) ==
    <<Cardinality(Held(rows)),
      rows[Min(Held(rows))], rows[Max(Held(rows))], stamp>>

\* missing_ranges: the maximal runs of days of [first, last] that no known
\* day covers, as <<first, last>> pairs.
Gaps(first, last, known) ==
    LET missing == (first..last) \ known IN
    {g \in missing \X missing :
        /\ g[1] <= g[2] /\ g[1]..g[2] \subseteq missing
        /\ g[1] - 1 \notin missing /\ g[2] + 1 \notin missing}

\* The curated days enter the known intervals as one span, first to last.
Span(days) == IF days = {} THEN {} ELSE Min(days)..Max(days)

\* _derived_lines' recompute window: the last n of the days.
Trailing(days, n) == {d \in days : Cardinality({e \in days : e > d}) < n}
=============================================================================
