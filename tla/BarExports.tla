----------------------------- MODULE BarExports -----------------------------
(***************************************************************************)
(* One symbol's bars from the vendor to the files a replay reads.  The     *)
(* stream and the REST refresh write bar_days; ensure_history fills        *)
(* hist_bars and records what was asked for; a worker exports both into a  *)
(* tree of minute zips next to the curated ones, with a sidecar that says  *)
(* which rows a zip was written from, and derives the daily file from it.  *)
(*                                                                         *)
(* The session of a day is the minutes 1..Minutes; `at` is the minute in   *)
(* progress, Minutes + 1 once the day is complete (its close + 60 s).      *)
(* Every minute prints.  A candle can be late, some sessions after its     *)
(* day, and the vendor can restate one inside the same reach: a regime     *)
(* bounds the reach and what else goes wrong in a run.                     *)
(***************************************************************************)
EXTENDS BarTables, Sequences

CONSTANTS
    LastDay,         \* the sessions are 1..LastDay
    Minutes,
    Vendors,         \* which REST refresh: a subset of {"merge", "replace"}
    Curated,         \* days with a curated minute zip
    CuratedDaily,    \* the curated daily file holds the days up to this one
    RecomputeDays,   \* DERIVE_RECOMPUTE_DAYS
    RefreshDays,     \* REFRESH_DAYS: sessions one refresh asks for
    Regimes          \* bounds: each a number of corrections, of REST
                     \* refreshes, of worker crashes, and the reach: how many
                     \* sessions back a candle or a correction comes

ASSUME ExportAssumption ==
    /\ {LastDay, Minutes} \subseteq Nat \ {0, 1}
    /\ Vendors \subseteq {"merge", "replace"} /\ Vendors # {}
    /\ Curated \subseteq 1..LastDay
    /\ {CuratedDaily, RecomputeDays, RefreshDays} \subseteq Nat
    /\ \A r \in Regimes : r = [corrections |-> r.corrections,
                               refreshes |-> r.refreshes,
                               faults |-> r.faults, reach |-> r.reach]
    /\ \A r \in Regimes :
          {r.corrections, r.refreshes, r.faults, r.reach} \subseteq Nat

Days     == 1..LastDay
AllBars  == 1..Minutes
Complete == Minutes + 1
Nothing  == [kind |-> "none"]
\* Files of adjusted or curated history: their rows are not bar_days' rows.
Old(kind) == [kind |-> kind]

VARIABLES
    vendor,
    clock,      \* the session and its minute in progress
    tape,       \* the vendor's record of each day
    late,       \* candles the stream has not delivered yet
    rows,       \* bar_days
    stamp,      \* fetched_at of each bar_days row, as a count of writes
    flight,     \* the stream's and the refresh's writes in progress
    hist,       \* days in hist_bars
    cover,      \* the coverage ledger of hist_bars
    zip,        \* the minute zips of the exported tree
    side,       \* their fingerprint sidecars
    exported,   \* _EXPORTED of the worker process
    pass,       \* the worker's export in progress
    daily,      \* the derived days of the daily file, and its version
    passed,     \* the worker wrote the daily file this session
    left        \* what is left of the regime, and its reach

vars == <<vendor, clock, tape, late, rows, stamp, flight, hist, cover,
          zip, side, exported, pass, daily, passed, left>>
feedVars == <<tape, late>>
tableVars == <<rows, stamp>>
histVars == <<hist, cover>>
fileVars == <<zip, side, exported, pass, daily, passed>>

Today == clock.day
NoFlight == [who |-> "none"]
Idle == [step |-> "idle"]

Init ==
    /\ vendor \in Vendors
    /\ clock = [day |-> 1, at |-> 1]
    /\ tape = [d \in Days |-> NoRows] /\ late = {}
    /\ rows = [d \in Days |-> NoRows] /\ stamp = [d \in Days |-> 0]
    /\ flight = [stream |-> NoFlight, rest |-> NoFlight]
    /\ hist = {} /\ cover = {}
    /\ zip = [d \in Days |-> Nothing] /\ side = [d \in Days |-> <<>>]
    /\ exported = [d \in Days |-> <<>>] /\ pass = Idle
    /\ \E v \in {0, 1} :
          daily = [line |-> [d \in Days |-> NoRows], version |-> v]
    /\ passed = FALSE
    /\ left \in Regimes

-----------------------------------------------------------------------------
(* The market and its vendor.                                              *)

\* mutant: the session's clock does not stop at the close
PastTheClose ==
    /\ tape' = [tape EXCEPT ![Today] = Over(Row(clock.at, Final), @)]
    /\ late' = late \cup {<<Today, clock.at>>}
    /\ clock' = [clock EXCEPT !.at = @ + 1]
    /\ UNCHANGED <<vendor, tableVars, flight, histVars, fileVars, left>>

\* The minute in progress ends; its candle is owed by the stream.  By the
\* last minute of a session the worker has exported once in it.
MinuteEnds ==
    /\ clock.at <= Minutes
    /\ clock.at = Minutes => passed
    /\ tape' = [tape EXCEPT ![Today] = Over(Row(clock.at, Final), @)]
    /\ late' = late \cup {<<Today, clock.at>>}
    /\ clock' = [clock EXCEPT !.at = @ + 1]
    /\ UNCHANGED <<vendor, tableVars, flight, histVars, fileVars, left>>

\* The next session opens; candles older than the reach never come, and nothing
\* that was running at the close takes all night.
DayEnds ==
    /\ clock.at = Complete /\ Today < LastDay
    /\ flight = [stream |-> NoFlight, rest |-> NoFlight] /\ pass = Idle
    /\ clock' = [day |-> Today + 1, at |-> 1]
    /\ late' = {c \in late : c[1] >= Today + 1 - left.reach}
    /\ passed' = FALSE
    /\ UNCHANGED <<vendor, tape, tableVars, flight, histVars, zip, side,
                   exported, pass, daily, left>>

Correct(d, k) ==
    /\ left.corrections > 0 /\ d >= Today - left.reach
    /\ k \in Held(tape[d]) /\ tape[d][k] = Final
    /\ tape' = [tape EXCEPT ![d] = Over(Row(k, Corrected), @)]
    /\ late' = late \cup {<<d, k>>}
    /\ left' = [left EXCEPT !.corrections = @ - 1]
    /\ UNCHANGED <<vendor, clock, tableVars, flight, histVars, fileVars>>

\* What a REST call returns for day d: the minutes ended, and the one in
\* progress as far as it got.
Answered(d) ==
    IF d = Today /\ clock.at <= Minutes THEN Over(Row(clock.at, Partial), tape[d])
    ELSE tape[d]

-----------------------------------------------------------------------------
(* The writers of bar_days.                                                *)

\* A transaction writes what it computed from the rows it read.
Save(d, new) ==
    /\ rows' = [rows EXCEPT ![d] = new]
    /\ stamp' = [stamp EXCEPT ![d] = @ + 1]

\* The stream writes a candle: BarDayStore.write reads the day and, when the
\* candle is new, commits the day with it.
StreamReads(d, k) ==
    /\ flight.stream = NoFlight /\ <<d, k>> \in late
    /\ late' = late \ {<<d, k>>}
    /\ flight' = [flight EXCEPT !.stream =
                    [who |-> "stream", day |-> d, min |-> k, px |-> tape[d][k],
                     base |-> rows[d]]]
    /\ UNCHANGED <<vendor, clock, tape, tableVars, histVars, fileVars, left>>

StreamCommits ==
    /\ flight.stream # NoFlight
    /\ LET f == flight.stream
           new == Put(f.base, f.min, f.px)
       IN IF new = f.base THEN UNCHANGED tableVars ELSE Save(f.day, new)
    /\ flight' = [flight EXCEPT !.stream = NoFlight]
    /\ UNCHANGED <<vendor, clock, feedVars, histVars, fileVars, left>>

\* refresh: the vendor is asked first, under the symbol's lock ...
RefreshAsks ==
    /\ flight.rest = NoFlight /\ left.refreshes > 0
    /\ left' = [left EXCEPT !.refreshes = @ - 1]
    /\ flight' = [flight EXCEPT !.rest =
                    [who |-> "asked", at |-> clock,
                     got |-> [d \in {e \in 1..Today : e > Today - RefreshDays}
                                |-> Answered(d)]]]
    /\ UNCHANGED <<vendor, clock, feedVars, tableVars, histVars, fileVars>>

\* ... then one session reads the stored days ...
RefreshReads ==
    /\ flight.rest.who = "asked"
    /\ flight' = [flight EXCEPT !.rest =
                    [who |-> "write", at |-> flight.rest.at,
                     got |-> flight.rest.got, base |-> rows]]
    /\ UNCHANGED <<vendor, clock, feedVars, tableVars, histVars, fileVars,
                   left>>

\* ... and commits those that changed.
EndOf(day, now) == IF day = now.day THEN now.at ELSE Complete
Refreshed(f, d) ==
    IF vendor = "merge" THEN Merged(f.base[d], f.got[d], EndOf(d, f.at))
    ELSE Thinner(f.base[d], f.got[d])
RefreshCommits ==
    /\ flight.rest.who = "write"
    /\ LET f == flight.rest
           new == {d \in DOMAIN f.got : Refreshed(f, d) # f.base[d]}
       IN /\ rows' = [d \in Days |-> IF d \in new THEN Refreshed(f, d)
                                     ELSE rows[d]]
          /\ stamp' = [d \in Days |-> IF d \in new THEN stamp[d] + 1
                                      ELSE stamp[d]]
    /\ flight' = [flight EXCEPT !.rest = NoFlight]
    /\ UNCHANGED <<vendor, clock, feedVars, histVars, fileVars, left>>

-----------------------------------------------------------------------------
(* The history behind the live days.                                       *)

\* ensure_history: the first of the days up to yesterday that neither the
\* ledger nor the span of the curated days covers.
Wanted == Gaps(1, Today - 1, cover \cup Span(Curated))
IsFirst(g) == \A h \in Wanted : g[1] <= h[1]
Given(g) == {d \in g[1]..g[2] : Usable(tape[d])}

\* A gap is fetched, stored and recorded; a request that fails changes
\* nothing, and what was recorded before it stays.
Backfill ==
    /\ \E g \in Wanted :
          /\ IsFirst(g)
          /\ hist' = hist \cup Given(g)
          /\ cover' = cover \cup g[1]..g[2]
    /\ UNCHANGED <<vendor, clock, feedVars, tableVars, flight, fileVars, left>>

\* The worker dies with a gap stored and not recorded.
BackfillDies ==
    /\ left.faults > 0
    /\ \E g \in Wanted : IsFirst(g) /\ hist' = hist \cup Given(g)
    /\ left' = [left EXCEPT !.faults = @ - 1]
    /\ exported' = [d \in Days |-> <<>>] /\ pass' = Idle
    /\ UNCHANGED <<vendor, clock, feedVars, tableVars, flight, cover, zip,
                   side, daily, passed>>

-----------------------------------------------------------------------------
(* The worker's exports.                                                   *)

\* export_bars: a day with no zip yet gets the curated one, else the
\* history's; a zip that is there is left alone.
ExportHistory ==
    /\ pass = Idle
    /\ \E d \in Days : zip[d] = Nothing /\ d \in Curated \cup hist
    /\ zip' = [d \in Days |->
                 IF zip[d] # Nothing THEN zip[d]
                 ELSE IF d \in Curated THEN Old("curated")
                 ELSE IF d \in hist THEN Old("hist") ELSE Nothing]
    /\ UNCHANGED <<vendor, clock, feedVars, tableVars, flight, histVars, side,
                   exported, pass, daily, passed, left>>

\* export_live_bars reads the days with two rows or more, and cuts the
\* minute in progress off today's.
Cut(d) == IF d = Today THEN Ended(rows[d], clock.at) ELSE rows[d]
ExportReads ==
    /\ pass = Idle
    /\ LET todo == {d \in 1..Today : Usable(rows[d]) /\ Usable(Cut(d))} IN
       pass' = [step |-> "days", todo |-> todo, today |-> Today,
                rows |-> [d \in todo |-> Cut(d)],
                stamp |-> [d \in todo |-> stamp[d]]]
    /\ UNCHANGED <<vendor, clock, feedVars, tableVars, flight, histVars, zip,
                   side, exported, daily, passed, left>>

\* mutant: a completed day is written once, the first time it is seen
WrittenOnce(d, fp) == zip[d].kind = "live"

\* A completed day's zip is current when this process wrote it from these
\* rows or, after a restart, the sidecar says so.
Current(d, fp) == exported[d] = fp \/ (exported[d] = <<>> /\ side[d] = fp)

\* _write_zip_from_rows: the file is replaced as a whole.
Zipped(d) == [kind |-> "live", rows |-> pass.rows[d]]

\* The days of a pass are written in their order.
IsNext(d) == \A e \in pass.todo : d <= e

\* The next day of the pass: today's zip is rewritten, a completed one only
\* when its rows changed.
ExportDay ==
    /\ pass.step = "days"
    /\ \E d \in pass.todo :
          LET fp == Fingerprint(pass.rows[d], pass.stamp[d])
              write == zip' = [zip EXCEPT ![d] = Zipped(d)]
          IN /\ IsNext(d)
             /\ \/ /\ d = pass.today /\ write
                   /\ pass' = [pass EXCEPT !.todo = @ \ {d}]
                   /\ UNCHANGED exported
                \/ /\ d # pass.today /\ Current(d, fp)
                   /\ exported' = [exported EXCEPT ![d] = fp]
                   /\ pass' = [pass EXCEPT !.todo = @ \ {d}]
                   /\ UNCHANGED zip
                \/ /\ d # pass.today /\ ~Current(d, fp) /\ write
                   /\ pass' = [pass EXCEPT !.step = "sidecar"]
                   /\ UNCHANGED exported
    /\ UNCHANGED <<vendor, clock, feedVars, tableVars, flight, histVars, side,
                   daily, passed, left>>

\* The zip is in place, its sidecar follows.
ExportSidecar ==
    /\ pass.step = "sidecar"
    /\ \E d \in pass.todo :
          LET fp == Fingerprint(pass.rows[d], pass.stamp[d])
          IN /\ IsNext(d)
             /\ side' = [side EXCEPT ![d] = fp]
             /\ exported' = [exported EXCEPT ![d] = fp]
             /\ pass' = [pass EXCEPT !.step = "days", !.todo = @ \ {d}]
    /\ UNCHANGED <<vendor, clock, feedVars, tableVars, flight, histVars, zip,
                   daily, passed, left>>

\* derive_daily_row of a minute zip; a history zip derives a row of its own.
OldLine == [k \in {0} |-> Final]
Derived(file) == IF file.kind = "live" THEN file.rows ELSE OldLine

\* _day_is_complete
IsComplete(d) == d < Today \/ (d = Today /\ clock.at = Complete)

\* The days the file derives: complete, with a minute zip, and past the last
\* day of the curated file, whose own lines stay as they are.
DerivedDays == {d \in Days : zip[d] # Nothing /\ IsComplete(d)
                               /\ d > CuratedDaily}

\* The trailing ones are derived anew and the older ones kept as the file
\* has them; all of them when the file is of an older derivation.
DailyLine(d) ==
    IF /\ daily.version = 1 /\ d \notin Trailing(DerivedDays, RecomputeDays)
       /\ daily.line[d] # NoRows
    THEN daily.line[d] ELSE Derived(zip[d])

\* export_daily, after the minute zips of the pass.
ExportDaily ==
    /\ pass.step = "days" /\ pass.todo = {}
    /\ pass' = Idle
    /\ passed' = TRUE
    /\ daily' = [version |-> 1,
                 line |-> [d \in Days |-> IF d \in DerivedDays THEN DailyLine(d)
                                          ELSE NoRows]]
    /\ UNCHANGED <<vendor, clock, feedVars, tableVars, flight, histVars, zip,
                   side, exported, left>>

\* The worker dies and comes back with an empty _EXPORTED.
Crash ==
    /\ left.faults > 0
    /\ left' = [left EXCEPT !.faults = @ - 1]
    /\ pass' = Idle
    /\ exported' = [d \in Days |-> <<>>]
    /\ UNCHANGED <<vendor, clock, feedVars, tableVars, flight, histVars, zip,
                   side, daily, passed>>

Export == ExportReads \/ ExportDay \/ ExportSidecar \/ ExportDaily
Next ==
    \/ MinuteEnds \/ DayEnds
    \/ \E d \in Days, k \in AllBars : Correct(d, k) \/ StreamReads(d, k)
    \/ StreamCommits \/ RefreshAsks \/ RefreshReads \/ RefreshCommits
    \/ Backfill \/ BackfillDies
    \/ ExportHistory \/ Export \/ Crash

\* Time passes, writers finish, and the worker's ticks go on exporting.
Fairness ==
    /\ WF_vars(MinuteEnds) /\ WF_vars(DayEnds)
    /\ WF_vars(StreamCommits) /\ WF_vars(RefreshReads \/ RefreshCommits)
    /\ WF_vars(Backfill)
    /\ WF_vars(Export)
Spec == Init /\ [][Next]_vars /\ Fairness

-----------------------------------------------------------------------------
(* Properties.                                                             *)

DayRows == UNION {[S -> Prices] : S \in SUBSET AllBars}

\* What a writer holds between its read and its commit, and an export of the
\* days it still has to write, is a day's rows.
StreamType ==
    flight.stream # NoFlight =>
        /\ flight.stream.day \in Days /\ flight.stream.min \in AllBars
        /\ flight.stream.px \in Prices /\ flight.stream.base \in DayRows
AnswerType ==
    flight.rest.who \in {"asked", "write"} =>
        \A d \in DOMAIN flight.rest.got : flight.rest.got[d] \in DayRows
BaseType ==
    flight.rest.who = "write" => \A d \in Days : flight.rest.base[d] \in DayRows
CarriedType ==
    pass.step # "idle" => \A d \in pass.todo : pass.rows[d] \in DayRows

\* One type invariant for the module: the vendor's record, bar_days, the
\* minute zips, the derived daily rows, the reads and answers in flight and
\* the export in progress hold a day's rows, at most one of each minute of
\* the session (a daily row may also come from a history zip); the coverage
\* ledger and hist_bars hold sessions there are.
TypeOK ==
    /\ clock.day \in Days /\ clock.at \in 1..Complete
    /\ \A d \in Days : /\ tape[d] \in DayRows /\ rows[d] \in DayRows
                       /\ stamp[d] \in Nat
                       /\ zip[d].kind \in {"none", "curated", "hist", "live"}
                       /\ zip[d].kind = "live" => zip[d].rows \in DayRows
    /\ late \subseteq Days \X AllBars
    /\ hist \subseteq Days /\ cover \subseteq Days
    /\ pass.step \in {"idle", "days", "sidecar"}
    /\ StreamType /\ AnswerType /\ BaseType /\ CarriedType
    /\ \A d \in Days : daily.line[d] \in DayRows \cup {OldLine}

\* A minute once stored never leaves bar_days, whatever the stream and a
\* merging REST refresh write around it (history.py: "a feed's minutes that
\* this call did not fetch survive it"), as long as nothing was committed
\* between a writer's read and its commit: no lock spans the two.  (A refresh
\* that replaces the thinner day can drop a minute newer than its answer.)
OnWhatItRead ==
    /\ flight.stream # NoFlight =>
         flight.stream.base = rows[flight.stream.day]
    /\ flight.rest.who = "write" => flight.rest.base = rows
MinutesSurvive ==
    [][vendor = "merge" /\ OnWhatItRead =>
         \A d \in Days : Held(rows[d]) \subseteq Held(rows'[d])]_vars

\* A replay never reads a minute that had not ended: with the merging
\* refresh no exported row is a partial one.
NoPartialRow ==
    vendor = "merge" =>
        \A d \in Days : zip[d].kind = "live" =>
            \A k \in Held(zip[d].rows) : zip[d].rows[k] # Partial

\* What the ledger claims is in hist_bars whenever the vendor had the day:
\* a day recorded and not stored is never asked for again.
CoverageHonest == \A d \in cover : Usable(tape[d]) => d \in hist

\* Both: neither the files nor the coverage ledger claim what is not there.
StoreIsHonest == NoPartialRow /\ CoverageHonest

\* Once the writers rest, the files follow the tables: every live day's zip
\* holds its rows -- a candle that came, or was restated, after the day had
\* been exported, and a worker restarted between a zip and its sidecar
\* included -- and every derived daily row is its zip's, as long as nothing
\* reaches further back than the daily rows that are derived anew (a refresh
\* asks for 5 days, 10 are derived: history.REFRESH_DAYS,
\* bar_source.DERIVE_RECOMPUTE_DAYS).
FilesSettle ==
    <>[](\A d \in Days :
            /\ Usable(rows[d]) =>
                 zip[d].kind = "live" /\ zip[d].rows = rows[d]
            /\ d > CuratedDaily /\ Usable(rows[d]) =>
                 daily.line[d] = rows[d])
=============================================================================
